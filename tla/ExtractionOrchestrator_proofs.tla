-------------------- MODULE ExtractionOrchestrator_proofs --------------------
(***************************************************************************)
(* Theorems about ExtractionOrchestrator, for every set of jobs and texts, *)
(* every choice of windows and every number of retries and calls.          *)
(***************************************************************************)
EXTENDS ExtractionOrchestrator, FiniteSetTheorems, TLAPS

(***************************************************************************)
(* The inductive invariant: what is true of one call at each label.        *)
(***************************************************************************)
Cached(x) == cache[x] # None

AllCached(j) == \A i \in 1 .. Len(Windows[j]) : Cached(Windows[j][i])

\* The job object of a call and its record.
ObjectInv(j) ==
  /\ pc[j] = "new" => mem[j] = NewJob /\ record[j] = NoRecord
  /\ pc[j] \in Tiers => /\ mem[j].retries < MaxRetries
                        /\ mem[j].state \in {"pending", "completed"}
  /\ pc[j] = "giveUp" => mem[j].retries = MaxRetries /\ mem[j].state = "failed"
  /\ pc[j] \in Tiers \cup {"giveUp"} => record[j].state \in {"pending", "completed"}
  /\ pc[j] = "returned" => record[j] = mem[j] /\ mem[j].state \in {"completed", "failed"}

\* How far Tier C has come, and what that says about the cache.
TierCInv(j) ==
  /\ pc[j] \in {"tierC", "llm", "save"} =>
       /\ Len(results[j]) <= Len(Windows[j])
       /\ \A i \in 1 .. Len(results[j]) : Cached(Windows[j][i])
  /\ pc[j] \in {"llm", "save"} => Len(results[j]) < Len(Windows[j])
  /\ pc[j] = "save" => answer[j] \in Answers
  /\ pc[j] = "llm" => Text(j) \notin saved[j]
  /\ \A x \in saved[j] : Cached(x)
  /\ pc[j] = "finish" => AllCached(j)
  /\ mem[j].state = "completed" => AllCached(j)
  /\ record[j].state = "completed" => AllCached(j)

Inv == TypeOK /\ \A j \in Jobs : ObjectInv(j) /\ TierCInv(j)

(***************************************************************************)
(* Lemmas.                                                                 *)
(***************************************************************************)
\* The number of triples Tier C counts is a natural number.
LEMMA CountTriplesType ==
  ASSUME TypeOK, NEW j \in Jobs
  PROVE  CountTriples(j) \in Nat
<1> DEFINE n == Len(results[j])
<1>1. n \in Nat
  BY DEF TypeOK
<1>2. IsFiniteSet(1 .. n)
  BY <1>1, FS_Interval
<1>3. {i \in 1 .. n : results[j][i] = "triples"} \in SUBSET (1 .. n)
  OBVIOUS
<1>4. IsFiniteSet({i \in 1 .. n : results[j][i] = "triples"})
  BY <1>2, <1>3, FS_Subset
<1> QED
  BY <1>4, FS_CardinalityType DEF CountTriples

\* A failed attempt leaves a well-typed call behind.
LEMMA FailAttemptType ==
  ASSUME TypeOK, NEW j \in Jobs, NEW m \in JobObject, m.retries < MaxRetries,
         FailAttempt(j, m)
  PROVE  /\ pc' \in [Jobs -> {"new", "giveUp"} \cup Tiers \cup Ended]
         /\ mem' \in [Jobs -> JobObject]
         /\ results' \in [Jobs -> Seq(Answers)]
         /\ calls' \in [Jobs -> 0 .. MaxCalls - 1]
         /\ answer' \in [Jobs -> Answers \cup {None}]
<1> DEFINE n == m.retries + 1
           s == IF n >= MaxRetries THEN "failed" ELSE m.state
           o == [m EXCEPT !.retries = n, !.state = s]
<1>a. n \in 0 .. MaxRetries
  BY OrchestratorAssumption DEF JobObject
<1>b. s \in {"pending", "completed", "failed"}
  BY DEF JobObject
<1> HIDE DEF n, s
<1>1. o \in JobObject
  BY <1>a, <1>b DEF JobObject
<1>2. mem' = [mem EXCEPT ![j] = o]
  BY DEF FailAttempt, n, s
<1>3. mem' \in [Jobs -> JobObject]
  BY <1>1, <1>2 DEF TypeOK
<1>4. <<>> \in Seq(Answers)
  OBVIOUS
<1> QED
  BY <1>3, <1>4, OrchestratorAssumption DEF FailAttempt, Goto, Tiers, TypeOK

\* A write of the record in the try block leaves a well-typed state behind.
LEMMA UpdateStateType ==
  ASSUME TypeOK, NEW j \in Jobs, NEW m \in JobObject, m.retries < MaxRetries,
         NEW next \in Tiers \cup Ended, UpdateState(j, m, next), UNCHANGED <<cache, saved>>
  PROVE  TypeOK'
<1>1. record' \in [Jobs -> JobObject \cup {NoRecord}]
  BY DEF UpdateState, SetFails, TypeOK
<1>2. CASE /\ mem' = [mem EXCEPT ![j] = m]
           /\ Goto(j, next)
           /\ results' = [results EXCEPT ![j] = <<>>]
           /\ UNCHANGED <<calls, answer>>
  <2>1. <<>> \in Seq(Answers)
    OBVIOUS
  <2> QED
    BY <1>1, <1>2, <2>1 DEF Goto, TypeOK
<1>3. CASE FailAttempt(j, m)
  BY <1>1, <1>3, FailAttemptType DEF TypeOK
<1> QED
  BY <1>2, <1>3 DEF UpdateState

\* Every step of a call leaves a well-typed state behind.
LEMMA TypeStep ==
  ASSUME Inv, NEW j \in Jobs, Step(j) \/ Die(j)
  PROVE  TypeOK'
<1> USE DEF Inv
<1>m. mem[j] \in JobObject /\ (pc[j] \in Tiers => mem[j].retries < MaxRetries)
  BY DEF ObjectInv, TypeOK
<1>w. Windows[j] \in Seq(Texts)
  BY OrchestratorAssumption
<1>t. ASSUME pc[j] \in {"tierC", "llm", "save"}, Len(results[j]) < Len(Windows[j])
      PROVE  Text(j) \in Texts
  BY <1>t, <1>w DEF Text, TypeOK
<1>1. CASE Create(j)
  <2>1. NewJob \in JobObject
    BY OrchestratorAssumption DEF NewJob, JobObject
  <2>2. record' \in [Jobs -> JobObject \cup {NoRecord}]
    BY <1>1, <2>1 DEF Create, SetFails, TypeOK
  <2>3. pc' \in [Jobs -> {"new", "giveUp"} \cup Tiers \cup Ended]
    BY <1>1 DEF Create, Goto, Tiers, Ended, TypeOK
  <2> QED
    BY <1>1, <2>2, <2>3 DEF Create, tierCVars, TypeOK
<1>2. CASE TierA(j)
  BY <1>2, <1>m, UpdateStateType DEF TierA, Tiers
<1>3. CASE TierB(j)
  BY <1>3, <1>m, UpdateStateType DEF TierB, Tiers
<1>4. CASE TierFails(j)
  BY <1>4, <1>m, FailAttemptType DEF TierFails, Tiers, TypeOK
<1>5. CASE EndTierC(j)
  <2>1. [mem[j] EXCEPT !.tierC = CountTriples(j)] \in JobObject
    BY <1>m, CountTriplesType DEF JobObject
  <2>2. [mem[j] EXCEPT !.tierC = CountTriples(j)].retries = mem[j].retries
    BY <1>m DEF JobObject
  <2> QED
    BY <1>5, <1>m, <2>1, <2>2, UpdateStateType DEF EndTierC, Tiers
<1>6. CASE Finish(j)
  <2>1. /\ [mem[j] EXCEPT !.state = "completed"] \in JobObject
        /\ [mem[j] EXCEPT !.state = "completed"].retries = mem[j].retries
    BY <1>m DEF JobObject
  <2> QED
    BY <1>6, <1>m, <2>1, UpdateStateType DEF Finish, Tiers, Ended
<1>7. CASE GiveUp(j)
  BY <1>7 DEF GiveUp, SetFails, Goto, tierCVars, Tiers, Ended, TypeOK
<1>8. CASE Die(j)
  BY <1>8 DEF Die, Goto, tierCVars, Tiers, Ended, TypeOK
<1>9. CASE CheckCache(j)
  <2>1. ASSUME cache[Text(j)] # None, UNCHANGED <<pc, mem, record, calls, answer, cache, saved>>,
               results' = [results EXCEPT ![j] = Append(@, cache[Text(j)])]
        PROVE  TypeOK'
    <3>1. cache[Text(j)] \in Answers
      BY <1>9, <1>t, <2>1 DEF CheckCache, TypeOK
    <3>2. Append(results[j], cache[Text(j)]) \in Seq(Answers)
      BY <3>1 DEF TypeOK
    <3> QED
      BY <2>1, <3>2 DEF TypeOK
  <2>2. ASSUME Goto(j, "llm"), UNCHANGED <<mem, record, results, calls, answer, cache, saved>>
        PROVE  TypeOK'
    BY <2>2 DEF Goto, Tiers, TypeOK
  <2>3. ASSUME TierCFails(j), UNCHANGED <<cache, saved>>
        PROVE  TypeOK'
    BY <1>9, <2>3, <1>m, FailAttemptType DEF CheckCache, TierCFails, Tiers, TypeOK
  <2> QED
    BY <1>9, <2>1, <2>2, <2>3 DEF CheckCache
<1>10. CASE CallLlm(j)
  BY <1>10, OrchestratorAssumption DEF CallLlm, Goto, Tiers, TypeOK
<1>11. CASE CallLlmFails(j)
  <2>1. ASSUME calls[j] + 1 < MaxCalls, calls' = [calls EXCEPT ![j] = @ + 1],
               UNCHANGED <<pc, mem, record, results, answer, cache, saved>>
        PROVE  TypeOK'
    BY <2>1, OrchestratorAssumption DEF TypeOK
  <2>2. ASSUME TierCFails(j), UNCHANGED <<cache, saved>>
        PROVE  TypeOK'
    BY <1>11, <2>2, <1>m, FailAttemptType DEF CallLlmFails, TierCFails, Tiers, TypeOK
  <2> QED
    BY <1>11, <2>1, <2>2 DEF CallLlmFails
<1>12. CASE SaveToCache(j)
  <2>1. Text(j) \in Texts /\ answer[j] \in Answers
    BY <1>12, <1>t DEF SaveToCache, TierCInv
  <2>2. Append(results[j], answer[j]) \in Seq(Answers)
    BY <2>1 DEF TypeOK
  <2> QED
    BY <1>12, <2>1, <2>2 DEF SaveToCache, Goto, Tiers, TypeOK
<1>13. CASE SaveToCacheFails(j)
  <2>1. Text(j) \in Texts /\ answer[j] \in Answers
    BY <1>13, <1>t DEF SaveToCacheFails, TierCInv
  <2>2. cache' \in [Texts -> Answers \cup {None}]
    BY <1>13, <2>1 DEF SaveToCacheFails, TypeOK
  <2> QED
    BY <1>13, <2>2, <1>m, FailAttemptType DEF SaveToCacheFails, TierCFails, Tiers, TypeOK
<1> QED
  BY <1>1, <1>2, <1>3, <1>4, <1>5, <1>6, <1>7, <1>8, <1>9, <1>10, <1>11, <1>12, <1>13 DEF Step
\* A step of one call leaves the others alone and only adds to the cache.
LEMMA OthersUnchanged ==
  ASSUME Inv, NEW j \in Jobs, Step(j) \/ Die(j)
  PROVE  /\ \A k \in Jobs \ {j} : /\ pc'[k] = pc[k] /\ mem'[k] = mem[k]
                                  /\ record'[k] = record[k] /\ results'[k] = results[k]
                                  /\ answer'[k] = answer[k] /\ saved'[k] = saved[k]
         /\ \A x \in Texts : Cached(x) => Cached(x)'
<1> USE DEF Inv
<1>1. CASE Create(j)
  BY <1>1 DEF Create, SetFails, Goto, tierCVars, TypeOK, Cached
<1>2. CASE TierA(j) \/ TierB(j) \/ EndTierC(j) \/ Finish(j)
  BY <1>2 DEF TierA, TierB, EndTierC, Finish, UpdateState, SetFails, FailAttempt, Goto, TypeOK,
              Cached
<1>3. CASE TierFails(j)
  BY <1>3 DEF TierFails, FailAttempt, Goto, TypeOK, Cached
<1>4. CASE GiveUp(j) \/ Die(j)
  BY <1>4 DEF GiveUp, Die, SetFails, Goto, tierCVars, TypeOK, Cached
<1>5. CASE CheckCache(j) \/ CallLlm(j) \/ CallLlmFails(j)
  BY <1>5 DEF CheckCache, CallLlm, CallLlmFails, TierCFails, FailAttempt, Goto, TypeOK, Cached
<1>6. CASE SaveToCache(j) \/ SaveToCacheFails(j)
  <2>1. answer[j] \in Answers /\ answer[j] # None
    BY <1>6 DEF SaveToCache, SaveToCacheFails, TierCInv, Answers, None
  <2>2. \A x \in Texts : Cached(x) => Cached(x)'
    BY <1>6, <2>1 DEF SaveToCache, SaveToCacheFails, Cached, TypeOK
  <2> QED
    BY <1>6, <2>2 DEF SaveToCache, SaveToCacheFails, TierCFails, FailAttempt, Goto, TypeOK
<1> QED
  BY <1>1, <1>2, <1>3, <1>4, <1>5, <1>6 DEF Step

\* The invariant of a call survives the steps of the others.
LEMMA OthersKeepInv ==
  ASSUME Inv, NEW j \in Jobs, Step(j) \/ Die(j), NEW k \in Jobs \ {j}
  PROVE  (ObjectInv(k) /\ TierCInv(k))'
<1> USE DEF Inv
<1>1. /\ pc'[k] = pc[k] /\ mem'[k] = mem[k] /\ record'[k] = record[k]
      /\ results'[k] = results[k] /\ answer'[k] = answer[k] /\ saved'[k] = saved[k]
  BY OthersUnchanged
<1>2. \A x \in Texts : Cached(x) => Cached(x)'
  BY OthersUnchanged
<1>3. ObjectInv(k)'
  BY <1>1 DEF ObjectInv
<1>4. \A i \in 1 .. Len(Windows[k]) : Windows[k][i] \in Texts
  BY OrchestratorAssumption
<1>5. AllCached(k) => AllCached(k)'
  BY <1>2, <1>4 DEF AllCached
<1>6. results[k] \in Seq(Answers) /\ Windows[k] \in Seq(Texts) /\ saved[k] \subseteq Texts
  BY OrchestratorAssumption DEF TypeOK
<1>7. Text(k)' = Text(k)
  BY <1>1 DEF Text
<1>8. pc[k] \in {"tierC", "llm", "save"} =>
        \A i \in 1 .. Len(results[k]) : Cached(Windows[k][i])'
  <2> SUFFICES ASSUME pc[k] \in {"tierC", "llm", "save"}, NEW i \in 1 .. Len(results[k])
               PROVE  Cached(Windows[k][i])'
    OBVIOUS
  <2>1. Cached(Windows[k][i]) /\ i \in 1 .. Len(Windows[k])
    BY <1>6 DEF TierCInv
  <2> QED
    BY <2>1, <1>2, <1>4
<1>9. \A x \in saved[k] : Cached(x)'
  BY <1>2, <1>6 DEF TierCInv
<1>10. TierCInv(k)'
  BY <1>1, <1>5, <1>7, <1>8, <1>9 DEF TierCInv
<1> QED
  BY <1>3, <1>10
\* What a failed attempt leaves, whatever became of the record's write.
LEMMA FailAttemptInv ==
  ASSUME Inv, NEW j \in Jobs, NEW m \in JobObject, m.retries < MaxRetries,
         m.state \in {"pending", "completed"}, m.state = "completed" => AllCached(j),
         FailAttempt(j, m), UNCHANGED saved,
         record'[j] \in {record[j], m}, record[j].state \in {"pending", "completed"},
         \A x \in Texts : Cached(x) => Cached(x)'
  PROVE  (ObjectInv(j) /\ TierCInv(j))'
<1> USE DEF Inv
<1> DEFINE n == m.retries + 1
           s == IF n >= MaxRetries THEN "failed" ELSE m.state
           o == [m EXCEPT !.retries = n, !.state = s]
<1>1. /\ mem'[j] = o
      /\ pc'[j] = IF n >= MaxRetries THEN "giveUp" ELSE "tierA"
      /\ results'[j] = <<>>
  BY DEF FailAttempt, Goto, TypeOK
<1>2. n \in 0 .. MaxRetries
  BY OrchestratorAssumption DEF JobObject
<1>3. mem'[j].retries = n /\ mem'[j].state = s
  BY <1>1 DEF JobObject
<1>4. record'[j].state \in {"pending", "completed"}
  OBVIOUS
<1>5. ObjectInv(j)'
  <2>1. CASE n >= MaxRetries
    BY <2>1, <1>1, <1>2, <1>3, <1>4, OrchestratorAssumption DEF ObjectInv, Tiers
  <2>2. CASE ~ (n >= MaxRetries)
    BY <2>2, <1>1, <1>2, <1>3, <1>4, OrchestratorAssumption DEF ObjectInv, Tiers
  <2> QED
    BY <2>1, <2>2
<1>6. \A i \in 1 .. Len(Windows[j]) : Windows[j][i] \in Texts
  BY OrchestratorAssumption
<1>7. AllCached(j) => AllCached(j)'
  BY <1>6 DEF AllCached
<1>8. mem'[j].state = "completed" => AllCached(j)'
  BY <1>3, <1>7
<1>9. record'[j].state = "completed" => AllCached(j)'
  BY <1>7 DEF TierCInv
<1>10. \A x \in saved'[j] : Cached(x)'
  BY DEF TierCInv, TypeOK
<1>11. TierCInv(j)'
  <2>1. pc'[j] \notin {"tierC", "llm", "save", "finish"}
    BY <1>1
  <2> QED
    BY <2>1, <1>8, <1>9, <1>10 DEF TierCInv
<1> QED
  BY <1>5, <1>11

\* What a write of the record in the try block leaves.
LEMMA UpdateStateInv ==
  ASSUME Inv, NEW j \in Jobs, NEW m \in JobObject, pc[j] \in Tiers, m.retries < MaxRetries,
         m.state \in {"pending", "completed"}, m.state = "completed" => AllCached(j),
         NEW next \in {"tierB", "tierC", "finish", "returned"}, UpdateState(j, m, next),
         next = "finish" => AllCached(j), next = "returned" => m.state = "completed",
         UNCHANGED <<cache, saved>>
  PROVE  (ObjectInv(j) /\ TierCInv(j))'
<1> USE DEF Inv
<1>1. \A x \in Texts : Cached(x) => Cached(x)'
  BY DEF Cached
<1>2. AllCached(j) => AllCached(j)'
  BY DEF AllCached, Cached
<1>3. record[j].state \in {"pending", "completed"}
  BY DEF ObjectInv
<1>4. CASE record' = [record EXCEPT ![j] = m] /\ mem' = [mem EXCEPT ![j] = m] /\ Goto(j, next)
           /\ results' = [results EXCEPT ![j] = <<>>]
  <2>1. record'[j] = m /\ mem'[j] = m /\ pc'[j] = next /\ results'[j] = <<>> /\ saved'[j] = saved[j]
    BY <1>4 DEF Goto, TypeOK
  <2>2. ObjectInv(j)'
    BY <2>1 DEF ObjectInv, Tiers
  <2>3. Len(results'[j]) = 0 /\ Len(Windows[j]) \in Nat
    BY <2>1, OrchestratorAssumption
  <2>4. \A x \in saved'[j] : Cached(x)'
    BY <1>1, <2>1 DEF TierCInv, TypeOK
  <2>5. TierCInv(j)'
    BY <1>2, <2>1, <2>3, <2>4 DEF TierCInv
  <2> QED
    BY <2>2, <2>5
<1>5. CASE SetFails(j, m) /\ FailAttempt(j, m)
  <2>1. record'[j] \in {record[j], m}
    BY <1>5 DEF SetFails, TypeOK
  <2> QED
    BY <1>1, <1>3, <1>5, <2>1, FailAttemptInv
<1> QED
  BY <1>4, <1>5 DEF UpdateState

\* The invariant of a call survives its own steps.
LEMMA OwnStepKeepsInv ==
  ASSUME Inv, NEW j \in Jobs, Step(j) \/ Die(j)
  PROVE  (ObjectInv(j) /\ TierCInv(j))'
<1> USE DEF Inv
<1>c. \A x \in Texts : Cached(x) => Cached(x)'
  BY OthersUnchanged
<1>m. /\ mem[j] \in JobObject
      /\ pc[j] \in Tiers => /\ mem[j].retries < MaxRetries
                            /\ mem[j].state \in {"pending", "completed"}
      /\ pc[j] \in Tiers \cup {"giveUp"} => record[j].state \in {"pending", "completed"}
      /\ mem[j].state = "completed" => AllCached(j)
  BY DEF ObjectInv, TierCInv, TypeOK
<1>w. /\ Windows[j] \in Seq(Texts) /\ results[j] \in Seq(Answers) /\ saved[j] \subseteq Texts
      /\ \A i \in 1 .. Len(Windows[j]) : Windows[j][i] \in Texts
  BY OrchestratorAssumption DEF TypeOK
<1>f. ASSUME pc[j] \in Tiers, FailAttempt(j, mem[j]), record'[j] = record[j], UNCHANGED saved
      PROVE  (ObjectInv(j) /\ TierCInv(j))'
  BY <1>c, <1>f, <1>m, FailAttemptInv
<1>a. AllCached(j) => AllCached(j)'
  BY <1>c, <1>w DEF AllCached
<1>s. \A x \in saved[j] : Cached(x)'
  BY <1>c, <1>w DEF TierCInv
<1>1. CASE Create(j)
  <2>1. /\ mem'[j] = NewJob /\ record'[j] \in {NoRecord, NewJob} /\ pc'[j] \in {"tierA", "raised"}
        /\ pc'[j] = "tierA" => record'[j] = NewJob
        /\ saved'[j] = saved[j]
    BY <1>1 DEF Create, SetFails, Goto, tierCVars, ObjectInv, TypeOK
  <2> QED
    BY <1>s, <2>1, OrchestratorAssumption DEF ObjectInv, TierCInv, NewJob, NoRecord, None, Tiers
<1>2. CASE TierA(j)
  BY <1>2, <1>m, UpdateStateInv DEF TierA, Tiers
<1>3. CASE TierB(j)
  BY <1>3, <1>m, UpdateStateInv DEF TierB, Tiers
<1>4. CASE TierFails(j)
  BY <1>4, <1>f DEF TierFails, Tiers
<1>5. CASE EndTierC(j)
  <2> DEFINE m == [mem[j] EXCEPT !.tierC = CountTriples(j)]
  <2>1. /\ m \in JobObject
        /\ m.retries = mem[j].retries /\ m.state = mem[j].state
    BY <1>m, CountTriplesType DEF JobObject
  <2>2. AllCached(j)
    BY <1>5 DEF EndTierC, TierCInv, AllCached
  <2> HIDE DEF m
  <2>3. UpdateState(j, m, "finish") /\ UNCHANGED <<cache, saved>> /\ pc[j] \in Tiers
    BY <1>5 DEF EndTierC, Tiers, m
  <2> QED
    BY <1>m, <2>1, <2>2, <2>3, UpdateStateInv
<1>6. CASE Finish(j)
  <2> DEFINE m == [mem[j] EXCEPT !.state = "completed"]
  <2>1. /\ m \in JobObject
        /\ m.retries = mem[j].retries /\ m.state = "completed"
    BY <1>m DEF JobObject
  <2>2. AllCached(j)
    BY <1>6 DEF Finish, TierCInv
  <2> HIDE DEF m
  <2>3. UpdateState(j, m, "returned") /\ UNCHANGED <<cache, saved>> /\ pc[j] \in Tiers
    BY <1>6 DEF Finish, Tiers, m
  <2> QED
    BY <1>m, <2>1, <2>2, <2>3, UpdateStateInv
<1>7. CASE GiveUp(j)
  <2>1. /\ mem'[j] = mem[j] /\ record'[j] \in {record[j], mem[j]} /\ pc'[j] \in {"returned", "raised"}
        /\ pc'[j] = "returned" => record'[j] = mem[j]
        /\ saved'[j] = saved[j] /\ mem[j].state = "failed"
    BY <1>7 DEF GiveUp, SetFails, Goto, tierCVars, ObjectInv, TypeOK
  <2> QED
    BY <1>a, <1>s, <2>1 DEF ObjectInv, TierCInv, Tiers
<1>8. CASE Die(j)
  <2>1. /\ mem'[j] = mem[j] /\ record'[j] = record[j] /\ pc'[j] = "dead" /\ saved'[j] = saved[j]
    BY <1>8 DEF Die, Goto, tierCVars, TypeOK
  <2> QED
    BY <1>a, <1>s, <2>1 DEF ObjectInv, TierCInv, Tiers
<1>9. CASE CheckCache(j)
  <2>1. /\ pc[j] = "tierC" /\ Len(results[j]) < Len(Windows[j]) /\ saved'[j] = saved[j]
        /\ UNCHANGED <<cache, saved>>
    BY <1>9 DEF CheckCache
  <2>2. ASSUME cache[Text(j)] # None, UNCHANGED <<pc, mem, record, calls, answer>>,
               results' = [results EXCEPT ![j] = Append(@, cache[Text(j)])]
        PROVE  (ObjectInv(j) /\ TierCInv(j))'
    <3>1. /\ results'[j] = Append(results[j], cache[Text(j)])
          /\ Len(results'[j]) = Len(results[j]) + 1
      BY <2>2, <1>w DEF TypeOK
    <3>2. \A i \in 1 .. Len(results'[j]) : Cached(Windows[j][i])'
      BY <1>w, <2>1, <2>2, <3>1 DEF TierCInv, Cached, Text
    <3>3. ObjectInv(j)'
      BY <2>2 DEF ObjectInv
    <3>4. Len(results'[j]) <= Len(Windows[j])
      BY <1>w, <2>1, <3>1
    <3> QED
      BY <1>a, <1>s, <2>1, <2>2, <3>2, <3>3, <3>4 DEF TierCInv
  <2>3. ASSUME cache[Text(j)] = None, Goto(j, "llm"),
               UNCHANGED <<mem, record, results, calls, answer>>
        PROVE  (ObjectInv(j) /\ TierCInv(j))'
    <3>1. pc'[j] = "llm"
      BY <2>3 DEF Goto, TypeOK
    <3>2. Text(j)' = Text(j) /\ Text(j) \notin saved[j]
      BY <2>3 DEF Text, TierCInv, Cached
    <3>3. ObjectInv(j)'
      BY <2>1, <2>3, <3>1 DEF ObjectInv, Tiers
    <3>4. \A i \in 1 .. Len(results'[j]) : Cached(Windows[j][i])'
      BY <2>1, <2>3 DEF TierCInv, Cached
    <3> QED
      BY <1>a, <1>s, <2>1, <2>3, <3>1, <3>2, <3>3, <3>4, <1>w DEF TierCInv
  <2>4. ASSUME TierCFails(j)
        PROVE  (ObjectInv(j) /\ TierCInv(j))'
    BY <1>f, <2>1, <2>4 DEF TierCFails, Tiers
  <2> QED
    BY <1>9, <2>2, <2>3, <2>4 DEF CheckCache
<1>10. CASE CallLlm(j)
  <2>1. /\ pc[j] = "llm" /\ pc'[j] = "save" /\ answer'[j] \in Answers
        /\ UNCHANGED <<mem, record, cache, results, saved>>
    BY <1>10 DEF CallLlm, Goto, TypeOK
  <2>2. ObjectInv(j)'
    BY <2>1 DEF ObjectInv, Tiers
  <2>3. \A i \in 1 .. Len(results'[j]) : Cached(Windows[j][i])'
    BY <2>1 DEF TierCInv, Cached
  <2> QED
    BY <1>a, <1>s, <2>1, <2>2, <2>3 DEF TierCInv
<1>11. CASE CallLlmFails(j)
  <2>1. pc[j] = "llm" /\ UNCHANGED <<cache, saved>>
    BY <1>11 DEF CallLlmFails
  <2>2. ASSUME UNCHANGED <<pc, mem, record, results, answer>>
        PROVE  (ObjectInv(j) /\ TierCInv(j))'
    BY <2>1, <2>2 DEF ObjectInv, TierCInv, AllCached, Cached, Text
  <2>3. ASSUME TierCFails(j)
        PROVE  (ObjectInv(j) /\ TierCInv(j))'
    BY <1>f, <2>1, <2>3 DEF TierCFails, Tiers
  <2> QED
    BY <1>11, <2>2, <2>3 DEF CallLlmFails
<1>12. CASE SaveToCache(j)
  <2>1. /\ pc[j] = "save" /\ pc'[j] = "tierC" /\ UNCHANGED <<mem, record>>
        /\ saved'[j] = saved[j] \cup {Text(j)}
        /\ results'[j] = Append(results[j], answer[j])
        /\ Len(results[j]) < Len(Windows[j]) /\ answer[j] \in Answers
    BY <1>12 DEF SaveToCache, Goto, TierCInv, TypeOK
  <2>2. Len(results'[j]) = Len(results[j]) + 1 /\ Text(j) \in Texts
    BY <1>w, <2>1 DEF Text
  <2>3. cache'[Text(j)] = answer[j] /\ answer[j] # None
    BY <1>12, <2>1, <2>2 DEF SaveToCache, Answers, None, TypeOK
  <2>4. ObjectInv(j)'
    BY <2>1 DEF ObjectInv, Tiers
  <2>5. \A x \in saved'[j] : Cached(x)'
    BY <1>s, <2>1, <2>3 DEF Cached
  <2>6. ASSUME NEW i \in 1 .. Len(results'[j])
        PROVE  Cached(Windows[j][i])'
    <3>1. CASE i \in 1 .. Len(results[j])
      BY <1>c, <1>w, <2>1, <3>1 DEF TierCInv
    <3>2. CASE i = Len(results[j]) + 1
      BY <2>3, <3>2 DEF Cached, Text
    <3> QED
      BY <1>w, <2>2, <3>1, <3>2
  <2>7. Len(results'[j]) <= Len(Windows[j])
    BY <1>w, <2>1, <2>2
  <2> QED
    BY <1>a, <2>1, <2>4, <2>5, <2>6, <2>7 DEF TierCInv
<1>13. CASE SaveToCacheFails(j)
  BY <1>13, <1>f DEF SaveToCacheFails, TierCFails, Tiers
<1> QED
  BY <1>1, <1>2, <1>3, <1>4, <1>5, <1>6, <1>7, <1>8, <1>9, <1>10, <1>11, <1>12, <1>13 DEF Step

(***************************************************************************)
(* Theorems.                                                               *)
(***************************************************************************)
LEMMA InitInv == Init => Inv
<1> SUFFICES ASSUME Init PROVE Inv
  OBVIOUS
<1>1. NewJob \in JobObject
  BY OrchestratorAssumption DEF NewJob, JobObject
<1>2. TypeOK
  BY <1>1, OrchestratorAssumption DEF Init, TypeOK
<1>3. ASSUME NEW j \in Jobs
      PROVE  ObjectInv(j) /\ TierCInv(j)
  BY DEF Init, ObjectInv, TierCInv, Tiers, NewJob, NoRecord, None
<1> QED
  BY <1>2, <1>3 DEF Inv

LEMMA NextInv == Inv /\ [Next]_vars => Inv'
<1> SUFFICES ASSUME Inv, [Next]_vars PROVE Inv'
  OBVIOUS
<1>1. ASSUME NEW j \in Jobs, Step(j) \/ Die(j)
      PROVE  Inv'
  <2>1. TypeOK'
    BY <1>1, TypeStep
  <2>2. ASSUME NEW k \in Jobs
        PROVE  (ObjectInv(k) /\ TierCInv(k))'
    BY <1>1, OwnStepKeepsInv, OthersKeepInv
  <2> QED
    BY <2>1, <2>2 DEF Inv
<1>2. CASE UNCHANGED vars
  BY <1>2 DEF vars, tierCVars, Inv, TypeOK, ObjectInv, TierCInv, AllCached, Cached, Text
<1> QED
  BY <1>1, <1>2 DEF Next

THEOREM Invariance == Spec => []Inv
<1>1. Init => Inv
  BY InitInv
<1>2. Inv /\ [Next]_vars => Inv'
  BY NextInv
<1> QED
  BY <1>1, <1>2, PTL DEF Spec

\* Every state of ExtractionOrchestrator is well typed; in particular no job
\* makes more than MAX_RETRIES attempts.
THEOREM TypeCorrect == Spec => []TypeOK
<1>1. Inv => TypeOK
  BY DEF Inv
<1> QED
  BY <1>1, Invariance, PTL

\* What process_document returns is final and is what Redis holds.
THEOREM OutcomeRecorded == Spec => []RecordMatchesOutcome
<1>1. Inv => RecordMatchesOutcome
  BY DEF Inv, ObjectInv, RecordMatchesOutcome
<1> QED
  BY <1>1, Invariance, PTL

\* No record says COMPLETED of a document with an unanswered window.
THEOREM CompletedAnswered == Spec => []CompletedIsAnswered
<1>1. Inv => CompletedIsAnswered
  BY DEF Inv, TierCInv, AllCached, Cached, CompletedIsAnswered
<1> QED
  BY <1>1, Invariance, PTL

\* No job pays twice for an answer it has cached.
THEOREM AnswersReused == Spec => []AnswersAreReused
<1>1. Inv => AnswersAreReused
  BY DEF Inv, TierCInv, AnswersAreReused
<1> QED
  BY <1>1, Invariance, PTL
(***************************************************************************)
(* Refinement.                                                             *)
(***************************************************************************)
\* The status the mapping gives a call.
StatusOf(j) == IF pc[j] \in {"new", "raised", "dead"} THEN pc[j]
               ELSE IF pc[j] = "returned" THEN mem[j].state ELSE "running"

\* A failed attempt is one of ExtractionJob.
LEMMA FailAttemptRefines ==
  ASSUME Inv, NEW j \in Jobs, NEW m \in JobObject, pc[j] \in Tiers,
         m.retries = mem[j].retries, FailAttempt(j, m),
         record' = [record EXCEPT ![j] = record'[j]],
         record'[j].state \in {"pending", "completed"}
  PROVE  Promise!FailAttempt(j)
<1> USE DEF Inv
<1> DEFINE n == m.retries + 1
           s == IF n >= MaxRetries THEN "failed" ELSE m.state
           o == [m EXCEPT !.retries = n, !.state = s]
<1>1. /\ mem' = [mem EXCEPT ![j] = o]
      /\ pc' = [pc EXCEPT ![j] = IF n >= MaxRetries THEN "giveUp" ELSE "tierA"]
  BY DEF FailAttempt, Goto
<1>2. o.retries = mem[j].retries + 1
  BY DEF JobObject
<1> HIDE DEF o, n, s
<1>3. [k \in Jobs |-> mem[k].retries]' = [[k \in Jobs |-> mem[k].retries] EXCEPT ![j] = @ + 1]
  BY <1>1, <1>2 DEF TypeOK
<1>4. \A k \in Jobs : StatusOf(k)' = StatusOf(k)
  <2>1. ASSUME NEW k \in Jobs, k # j
        PROVE  StatusOf(k)' = StatusOf(k)
    BY <1>1, <2>1 DEF StatusOf, TypeOK
  <2>2. StatusOf(j)' = "running" /\ StatusOf(j) = "running"
    BY <1>1 DEF StatusOf, TypeOK, Tiers
  <2> QED
    BY <2>1, <2>2
<1>5. [k \in Jobs |-> record[k].state]' =
        [[k \in Jobs |-> record[k].state] EXCEPT ![j] = record'[j].state]
  BY DEF TypeOK
<1>6. mem[j].retries < MaxRetries /\ StatusOf(j) = "running"
  BY DEF ObjectInv, StatusOf, Tiers
<1> QED
  BY <1>3, <1>4, <1>5, <1>6 DEF Promise!FailAttempt, Promise!Running, StatusOf
\* A write of the record in the try block is Show, FailAttempt or Complete.
LEMMA UpdateStateRefines ==
  ASSUME Inv, NEW j \in Jobs, NEW m \in JobObject, pc[j] \in Tiers,
         m.retries = mem[j].retries, m.state \in {"pending", "completed"},
         NEW next \in {"tierB", "tierC", "finish", "returned"}, UpdateState(j, m, next),
         next = "returned" => m.state = "completed"
  PROVE  Promise!Show(j) \/ Promise!FailAttempt(j) \/ Promise!Complete(j)
<1> USE DEF Inv
<1>1. /\ mem[j].retries < MaxRetries /\ StatusOf(j) = "running"
      /\ record[j].state \in {"pending", "completed"}
  BY DEF ObjectInv, StatusOf, Tiers
<1>2. CASE record' = [record EXCEPT ![j] = m] /\ mem' = [mem EXCEPT ![j] = m] /\ Goto(j, next)
  <2>1. [k \in Jobs |-> mem[k].retries]' = [k \in Jobs |-> mem[k].retries]
    BY <1>2 DEF TypeOK
  <2>2. [k \in Jobs |-> record[k].state]' = [[k \in Jobs |-> record[k].state] EXCEPT ![j] = m.state]
    BY <1>2 DEF TypeOK
  <2>3. \A k \in Jobs : k # j => StatusOf(k)' = StatusOf(k)
    BY <1>2 DEF Goto, StatusOf, TypeOK
  <2>4. CASE next = "returned"
    <3>1. StatusOf(j)' = "completed" /\ m.state = "completed"
      BY <1>2, <2>4 DEF Goto, StatusOf, TypeOK
    <3>2. [k \in Jobs |-> StatusOf(k)]' = [[k \in Jobs |-> StatusOf(k)] EXCEPT ![j] = "completed"]
      BY <2>3, <3>1
    <3> QED
      BY <1>1, <2>1, <2>2, <3>1, <3>2 DEF Promise!Complete, Promise!Running, StatusOf
  <2>5. CASE next # "returned"
    <3>1. StatusOf(j)' = "running"
      BY <1>2, <2>5 DEF Goto, StatusOf, TypeOK
    <3>2. [k \in Jobs |-> StatusOf(k)]' = [k \in Jobs |-> StatusOf(k)]
      BY <1>1, <2>3, <3>1
    <3> QED
      BY <1>1, <2>1, <2>2, <3>2 DEF Promise!Show, Promise!Running, StatusOf
  <2> QED
    BY <2>4, <2>5
<1>3. CASE SetFails(j, m) /\ FailAttempt(j, m)
  <2>1. record' = [record EXCEPT ![j] = record'[j]] /\ record'[j] \in {record[j], m}
    BY <1>3 DEF SetFails, TypeOK
  <2> QED
    BY <1>1, <1>3, <2>1, FailAttemptRefines
<1> QED
  BY <1>2, <1>3 DEF UpdateState

\* Every step of a call is a step of ExtractionJob or changes nothing it shows.
LEMMA StepRefines ==
  ASSUME Inv, NEW j \in Jobs, Step(j) \/ Die(j)
  PROVE  [Promise!JobNext]_(Promise!jobVars)
<1> USE DEF Inv
<1>m. mem[j] \in JobObject /\ (pc[j] \in Tiers => mem[j].state \in {"pending", "completed"})
  BY DEF ObjectInv, TypeOK
<1>u. ASSUME Promise!Show(j) \/ Promise!FailAttempt(j) \/ Promise!Complete(j)
      PROVE  Promise!JobNext
  BY <1>u DEF Promise!JobNext
<1>f. ASSUME pc[j] \in Tiers, FailAttempt(j, mem[j]), UNCHANGED record
      PROVE  Promise!JobNext
  <2>1. record' = [record EXCEPT ![j] = record'[j]] /\ record'[j].state \in {"pending", "completed"}
    BY <1>f DEF ObjectInv, TypeOK
  <2> QED
    BY <1>f, <1>m, <1>u, <2>1, FailAttemptRefines
<1>s. ASSUME UNCHANGED <<mem, record>>, \A k \in Jobs : StatusOf(k)' = StatusOf(k)
      PROVE  UNCHANGED Promise!jobVars
  BY <1>s DEF Promise!jobVars, StatusOf
<1>1. CASE Create(j)
  <2>1. UNCHANGED [k \in Jobs |-> mem[k].retries] /\ StatusOf(j) = "new"
    BY <1>1 DEF Create, StatusOf
  <2>2. CASE record' = [record EXCEPT ![j] = NewJob] /\ Goto(j, "tierA")
    <3>1. [k \in Jobs |-> StatusOf(k)]' = [[k \in Jobs |-> StatusOf(k)] EXCEPT ![j] = "running"]
      BY <1>1, <2>2 DEF Create, Goto, StatusOf, TypeOK
    <3>2. [k \in Jobs |-> record[k].state]' =
            [[k \in Jobs |-> record[k].state] EXCEPT ![j] = "pending"]
      BY <2>2 DEF NewJob, TypeOK
    <3> QED
      BY <2>1, <3>1, <3>2 DEF Promise!Begin, Promise!JobNext, StatusOf
  <2>3. CASE SetFails(j, NewJob) /\ Goto(j, "raised")
    <3>1. [k \in Jobs |-> StatusOf(k)]' = [[k \in Jobs |-> StatusOf(k)] EXCEPT ![j] = "raised"]
      BY <1>1, <2>3 DEF Create, Goto, StatusOf, TypeOK
    <3>2. \E x \in {"none", "pending"} :
            [k \in Jobs |-> record[k].state]' = [[k \in Jobs |-> record[k].state] EXCEPT ![j] = x]
      <4>1. PICK r \in {record[j], NewJob} : record' = [record EXCEPT ![j] = r]
        BY <2>3 DEF SetFails
      <4>2. r.state \in {"none", "pending"}
        BY <1>1, <4>1 DEF Create, ObjectInv, NewJob, NoRecord, None
      <4>3. [k \in Jobs |-> record[k].state]' =
              [[k \in Jobs |-> record[k].state] EXCEPT ![j] = r.state]
        BY <4>1 DEF TypeOK
      <4> QED
        BY <4>2, <4>3
    <3> QED
      BY <2>1, <3>1, <3>2 DEF Promise!Begin, Promise!JobNext, StatusOf
  <2> QED
    BY <1>1, <2>2, <2>3 DEF Create
<1>2. CASE TierA(j) \/ TierB(j)
  BY <1>2, <1>m, <1>u, UpdateStateRefines DEF TierA, TierB, Tiers
<1>3. CASE TierFails(j)
  BY <1>3, <1>f DEF TierFails, Tiers
<1>4. CASE EndTierC(j)
  <2> DEFINE m == [mem[j] EXCEPT !.tierC = CountTriples(j)]
  <2>1. m \in JobObject /\ m.retries = mem[j].retries /\ m.state = mem[j].state
    BY <1>m, CountTriplesType DEF JobObject
  <2> HIDE DEF m
  <2>2. UpdateState(j, m, "finish") /\ pc[j] \in Tiers
    BY <1>4 DEF EndTierC, Tiers, m
  <2> QED
    BY <1>m, <1>u, <2>1, <2>2, UpdateStateRefines
<1>5. CASE Finish(j)
  <2> DEFINE m == [mem[j] EXCEPT !.state = "completed"]
  <2>1. m \in JobObject /\ m.retries = mem[j].retries /\ m.state = "completed"
    BY <1>m DEF JobObject
  <2> HIDE DEF m
  <2>2. UpdateState(j, m, "returned") /\ pc[j] \in Tiers
    BY <1>5 DEF Finish, Tiers, m
  <2> QED
    BY <1>u, <2>1, <2>2, UpdateStateRefines
<1>6. CASE GiveUp(j)
  <2>1. /\ UNCHANGED [k \in Jobs |-> mem[k].retries] /\ StatusOf(j) = "running"
        /\ mem[j].retries = MaxRetries /\ mem[j].state = "failed"
    BY <1>6 DEF GiveUp, StatusOf, ObjectInv
  <2>2. CASE record' = [record EXCEPT ![j] = mem[j]] /\ Goto(j, "returned")
    <3>1. [k \in Jobs |-> StatusOf(k)]' = [[k \in Jobs |-> StatusOf(k)] EXCEPT ![j] = "failed"]
      BY <1>6, <2>1, <2>2 DEF GiveUp, Goto, StatusOf, TypeOK
    <3>2. [k \in Jobs |-> record[k].state]' =
            [[k \in Jobs |-> record[k].state] EXCEPT ![j] = "failed"]
      BY <2>1, <2>2 DEF TypeOK
    <3> QED
      BY <2>1, <3>1, <3>2 DEF Promise!GiveUp, Promise!Running, Promise!JobNext, StatusOf
  <2>3. CASE SetFails(j, mem[j]) /\ Goto(j, "raised")
    <3>1. [k \in Jobs |-> StatusOf(k)]' = [[k \in Jobs |-> StatusOf(k)] EXCEPT ![j] = "raised"]
      BY <1>6, <2>3 DEF GiveUp, Goto, StatusOf, TypeOK
    <3>2. \E x \in {record[j].state, "failed"} :
            [k \in Jobs |-> record[k].state]' = [[k \in Jobs |-> record[k].state] EXCEPT ![j] = x]
      <4>1. PICK r \in {record[j], mem[j]} : record' = [record EXCEPT ![j] = r]
        BY <2>3 DEF SetFails
      <4>2. [k \in Jobs |-> record[k].state]' =
              [[k \in Jobs |-> record[k].state] EXCEPT ![j] = r.state]
        BY <4>1 DEF TypeOK
      <4>3. r.state \in {record[j].state, "failed"}
        BY <2>1, <4>1
      <4> QED
        BY <4>2, <4>3
    <3> QED
      BY <2>1, <3>1, <3>2 DEF Promise!GiveUp, Promise!Running, Promise!JobNext, StatusOf
  <2> QED
    BY <1>6, <2>2, <2>3 DEF GiveUp
<1>7. CASE Die(j)
  <2>1. CASE pc[j] \in Tiers \cup {"giveUp"}
    <3>1. [k \in Jobs |-> StatusOf(k)]' = [[k \in Jobs |-> StatusOf(k)] EXCEPT ![j] = "dead"]
      BY <1>7 DEF Die, Goto, StatusOf, TypeOK
    <3>2. StatusOf(j) = "running" /\ UNCHANGED <<mem, record>>
      BY <1>7 DEF Die, StatusOf
    <3> QED
      BY <3>1, <3>2 DEF Promise!Die, Promise!Running, Promise!JobNext, StatusOf
  <2> QED
    BY <1>7, <2>1 DEF Die, Ended, TypeOK
<1>8. CASE CheckCache(j)
  <2>1. CASE TierCFails(j)
    BY <1>8, <1>f, <2>1 DEF CheckCache, TierCFails, Tiers
  <2>2. CASE UNCHANGED <<pc, mem, record>>
    BY <1>s, <2>2 DEF StatusOf
  <2>3. CASE Goto(j, "llm") /\ UNCHANGED <<mem, record>>
    BY <1>8, <1>s, <2>3 DEF CheckCache, Goto, StatusOf, TypeOK
  <2> QED
    BY <1>8, <2>1, <2>2, <2>3 DEF CheckCache
<1>9. CASE CallLlm(j) \/ SaveToCache(j)
  BY <1>9, <1>s DEF CallLlm, SaveToCache, Goto, StatusOf, TypeOK
<1>10. CASE CallLlmFails(j)
  <2>1. CASE TierCFails(j)
    BY <1>10, <1>f, <2>1 DEF CallLlmFails, TierCFails, Tiers
  <2>2. CASE UNCHANGED <<pc, mem, record>>
    BY <1>s, <2>2 DEF StatusOf
  <2> QED
    BY <1>10, <2>1, <2>2 DEF CallLlmFails
<1>11. CASE SaveToCacheFails(j)
  BY <1>11, <1>f DEF SaveToCacheFails, TierCFails, Tiers
<1> QED
  BY <1>1, <1>2, <1>3, <1>4, <1>5, <1>6, <1>7, <1>8, <1>9, <1>10, <1>11 DEF Step

\* ExtractionOrchestrator implements ExtractionJob: whatever fails, it gives up
\* only after MAX_RETRIES attempts and reports what the record says.
THEOREM Refinement == Spec => KeepsPromise
<1>1. Init => Promise!JobInit
  BY DEF Init, Promise!JobInit, NewJob, NoRecord, None
<1>2. Inv /\ [Next]_vars => [Promise!JobNext]_(Promise!jobVars)
  <2> SUFFICES ASSUME Inv, [Next]_vars
               PROVE  [Promise!JobNext]_(Promise!jobVars)
    OBVIOUS
  <2>1. CASE Next
    BY <2>1, StepRefines DEF Next
  <2>2. CASE UNCHANGED vars
    BY <2>2 DEF vars, Promise!jobVars
  <2> QED
    BY <2>1, <2>2
<1> QED
  BY <1>1, <1>2, Invariance, PTL DEF Spec, KeepsPromise, Promise!JobSpec

(***************************************************************************)
(* Termination: how much a call has still to do at most.                   *)
(***************************************************************************)
\* The attempts that are left, the stage of this one, the windows that are left
\* in it, the calls of the model that are left for the window in hand.
Stage(j) ==
  CASE pc[j] = "new" -> 6
    [] pc[j] = "tierA" -> 5
    [] pc[j] = "tierB" -> 4
    [] pc[j] \in {"tierC", "llm", "save"} -> 3
    [] pc[j] = "finish" -> 2
    [] pc[j] = "giveUp" -> 1
    [] OTHER -> 0
WindowsLeft(j) ==
  IF pc[j] \in {"tierC", "llm", "save"} THEN Len(Windows[j]) - Len(results[j]) ELSE 0
CallsLeft(j) ==
  CASE pc[j] = "tierC" -> MaxCalls + 1
    [] pc[j] = "llm" -> MaxCalls - calls[j]
    [] OTHER -> 0
Rank(j) == <<MaxRetries - mem[j].retries, Stage(j), WindowsLeft(j), CallsLeft(j)>>

\* The lexicographic order.
Lower(a, b) ==
  \/ a[1] < b[1]
  \/ a[1] = b[1] /\ a[2] < b[2]
  \/ a[1] = b[1] /\ a[2] = b[2] /\ a[3] < b[3]
  \/ a[1] = b[1] /\ a[2] = b[2] /\ a[3] = b[3] /\ a[4] < b[4]

Ranked == \A j \in Jobs : Rank(j) \in Nat \X Nat \X Nat \X Nat
Descends ==
  \A j \in Jobs : /\ Step(j) => Lower(Rank(j)', Rank(j))
                  /\ Rank(j)' # Rank(j) => Lower(Rank(j)', Rank(j))
AlwaysDescends == [][Descends]_vars

LEMMA RankTypes ==
  ASSUME Inv, NEW j \in Jobs
  PROVE  Rank(j) \in Nat \X Nat \X Nat \X Nat
<1>1. /\ mem[j].retries \in 0 .. MaxRetries /\ MaxRetries \in Nat /\ MaxCalls \in Nat
      /\ calls[j] \in 0 .. MaxCalls - 1 /\ Len(results[j]) \in Nat /\ Len(Windows[j]) \in Nat
  BY OrchestratorAssumption DEF Inv, TypeOK, JobObject
<1>2. pc[j] \in {"tierC", "llm", "save"} => Len(results[j]) <= Len(Windows[j])
  BY DEF Inv, TierCInv
<1>3. MaxRetries - mem[j].retries \in Nat
  BY <1>1
<1>4. Stage(j) \in Nat
  BY DEF Stage
<1>5. WindowsLeft(j) \in Nat
  BY <1>1, <1>2 DEF WindowsLeft
<1>6. CallsLeft(j) \in Nat
  BY <1>1 DEF CallsLeft
<1> QED
  BY <1>3, <1>4, <1>5, <1>6 DEF Rank

\* A failed attempt is one of those that were left.
LEMMA FailedAttempt ==
  ASSUME Inv, NEW j \in Jobs, NEW m \in JobObject, m.retries = mem[j].retries,
         FailAttempt(j, m)
  PROVE  Lower(Rank(j)', Rank(j))
<1>1. mem'[j].retries = mem[j].retries + 1
  <2>1. mem' = [mem EXCEPT ![j] = [m EXCEPT !.retries = m.retries + 1,
                  !.state = IF m.retries + 1 >= MaxRetries THEN "failed" ELSE m.state]]
    BY DEF FailAttempt
  <2>2. mem'[j] = [m EXCEPT !.retries = m.retries + 1,
                  !.state = IF m.retries + 1 >= MaxRetries THEN "failed" ELSE m.state]
    BY <2>1 DEF Inv, TypeOK
  <2>3. mem'[j].retries = m.retries + 1
    BY <2>2 DEF JobObject
  <2> QED
    BY <2>3
<1>2. mem[j].retries \in Nat /\ MaxRetries \in Nat
  BY OrchestratorAssumption DEF Inv, TypeOK, JobObject
<1> QED
  BY <1>1, <1>2 DEF Rank, Lower

LEMMA WriteLowers ==
  ASSUME Inv, NEW j \in Jobs, NEW m \in JobObject, m.retries = mem[j].retries,
         NEW next, UpdateState(j, m, next),
         \/ pc[j] = "tierA" /\ next = "tierB"
         \/ pc[j] = "tierB" /\ next = "tierC"
         \/ pc[j] = "tierC" /\ next = "finish"
         \/ pc[j] = "finish" /\ next = "returned"
  PROVE  Lower(Rank(j)', Rank(j))
<1>1. CASE FailAttempt(j, m)
  BY <1>1, FailedAttempt
<1>2. CASE mem' = [mem EXCEPT ![j] = m] /\ Goto(j, next)
  <2>1. mem'[j].retries = mem[j].retries /\ pc'[j] = next
    BY <1>2 DEF Inv, TypeOK, Goto
  <2>2. Stage(j)' < Stage(j)
    BY <2>1 DEF Stage
  <2> QED
    BY <2>1, <2>2 DEF Rank, Lower
<1> QED
  BY <1>1, <1>2 DEF UpdateState

LEMMA StepLowers ==
  ASSUME Inv, NEW j \in Jobs, Step(j)
  PROVE  Lower(Rank(j)', Rank(j))
<1> USE DEF Inv
<1>1. /\ mem[j] \in JobObject /\ mem[j].retries \in 0 .. MaxRetries
      /\ MaxRetries \in Nat /\ MaxCalls \in Nat \ {0}
      /\ calls[j] \in 0 .. MaxCalls - 1
      /\ results[j] \in Seq(Answers) /\ Len(Windows[j]) \in Nat
      /\ DOMAIN pc = Jobs /\ DOMAIN results = Jobs /\ DOMAIN calls = Jobs /\ DOMAIN mem = Jobs
  BY OrchestratorAssumption DEF TypeOK, JobObject
<1>2. CASE TierA(j) \/ TierB(j)
  BY <1>1, <1>2, WriteLowers DEF TierA, TierB
<1>3. CASE EndTierC(j)
  <2>1. [mem[j] EXCEPT !.tierC = CountTriples(j)] \in JobObject
    BY <1>1, CountTriplesType DEF JobObject
  <2>2. [mem[j] EXCEPT !.tierC = CountTriples(j)].retries = mem[j].retries
    BY <1>1 DEF JobObject
  <2> QED
    BY <1>3, <2>1, <2>2, WriteLowers DEF EndTierC
<1>4. CASE Finish(j)
  <2>1. /\ [mem[j] EXCEPT !.state = "completed"] \in JobObject
        /\ [mem[j] EXCEPT !.state = "completed"].retries = mem[j].retries
    BY <1>1 DEF JobObject
  <2> QED
    BY <1>4, <2>1, WriteLowers DEF Finish
<1>5. CASE Create(j) \/ GiveUp(j)
  <2>1. mem' = mem /\ Stage(j)' < Stage(j)
    BY <1>1, <1>5 DEF Create, GiveUp, Goto, Stage
  <2> QED
    BY <2>1 DEF Rank, Lower
<1>6. ASSUME FailAttempt(j, mem[j]) PROVE Lower(Rank(j)', Rank(j))
  BY <1>1, <1>6, FailedAttempt
\* A window is answered.
<1>7. ASSUME NEW x \in Answers, results' = [results EXCEPT ![j] = Append(@, x)],
             pc[j] \in {"tierC", "save"}, pc'[j] = "tierC", mem' = mem,
             Len(results[j]) < Len(Windows[j])
      PROVE  Lower(Rank(j)', Rank(j))
  <2>1. Len(results'[j]) = Len(results[j]) + 1 /\ Len(results[j]) \in Nat
    BY <1>1, <1>7
  <2>2. Stage(j)' = Stage(j) /\ WindowsLeft(j)' < WindowsLeft(j)
    BY <1>1, <1>7, <2>1 DEF Stage, WindowsLeft
  <2> QED
    BY <1>7, <2>2 DEF Rank, Lower
\* The model is called, or called again, or has answered.
<1>8. ASSUME pc[j] \in {"tierC", "llm"}, pc'[j] \in {"llm", "save"}, mem' = mem, results' = results,
             CallsLeft(j)' < CallsLeft(j)
      PROVE  Lower(Rank(j)', Rank(j))
  <2>1. Stage(j)' = Stage(j) /\ WindowsLeft(j)' = WindowsLeft(j)
    BY <1>8 DEF Stage, WindowsLeft
  <2> QED
    BY <1>8, <2>1 DEF Rank, Lower
<1>9. CASE CheckCache(j)
  <2>1. CASE cache[Text(j)] # None /\ results' = [results EXCEPT ![j] = Append(@, cache[Text(j)])]
                /\ UNCHANGED <<pc, mem>>
    <3>1. Text(j) \in Texts
      <4>1. Windows[j] \in Seq(Texts) /\ Len(results[j]) + 1 \in 1 .. Len(Windows[j])
        BY <1>1, <1>9, OrchestratorAssumption DEF CheckCache
      <4> QED
        BY <4>1 DEF Text
    <3>2. cache[Text(j)] \in Answers
      BY <2>1, <3>1 DEF TypeOK
    <3> QED
      BY <1>7, <1>9, <2>1, <3>2 DEF CheckCache
  <2>2. CASE Goto(j, "llm") /\ UNCHANGED <<mem, results, calls>>
    <3>1. pc[j] = "tierC" /\ pc'[j] = "llm"
      BY <1>1, <1>9, <2>2 DEF CheckCache, Goto
    <3>2. CallsLeft(j)' < CallsLeft(j)
      BY <1>1, <2>2, <3>1 DEF CallsLeft
    <3> QED
      BY <1>8, <2>2, <3>1, <3>2
  <2> QED
    BY <1>6, <1>9, <2>1, <2>2 DEF CheckCache, TierCFails
<1>10. CASE CallLlm(j)
  <2>1. pc[j] = "llm" /\ pc'[j] = "save" /\ UNCHANGED <<mem, results>>
    BY <1>1, <1>10 DEF CallLlm, Goto
  <2>2. CallsLeft(j)' < CallsLeft(j)
    BY <1>1, <2>1 DEF CallsLeft
  <2> QED
    BY <1>8, <2>1, <2>2
<1>11. CASE CallLlmFails(j)
  <2>1. CASE calls' = [calls EXCEPT ![j] = @ + 1] /\ UNCHANGED <<pc, mem, results>>
    <3>1. pc[j] = "llm" /\ pc'[j] = "llm" /\ calls'[j] = calls[j] + 1
      BY <1>1, <1>11, <2>1 DEF CallLlmFails
    <3>2. CallsLeft(j)' < CallsLeft(j)
      BY <1>1, <3>1 DEF CallsLeft
    <3> QED
      BY <1>8, <2>1, <3>1, <3>2
  <2> QED
    BY <1>6, <1>11, <2>1 DEF CallLlmFails, TierCFails
<1>12. CASE SaveToCache(j)
  <2>1. answer[j] \in Answers /\ Len(results[j]) < Len(Windows[j])
    BY <1>12 DEF SaveToCache, TierCInv
  <2> QED
    BY <1>1, <1>7, <1>12, <2>1 DEF SaveToCache, Goto
<1>13. CASE TierFails(j) \/ SaveToCacheFails(j)
  BY <1>6, <1>13 DEF TierFails, SaveToCacheFails, TierCFails
<1> QED
  BY <1>2, <1>3, <1>4, <1>5, <1>9, <1>10, <1>11, <1>12, <1>13 DEF Step

\* No call of process_document goes on for ever, whatever fails in it and
\* whatever the others do: attempts, tiers, windows and calls of the model run
\* out in this order, each step of the call uses some of them up, and no other
\* step gives any back.
THEOREM CallsRunOut == Spec => []Ranked /\ AlwaysDescends
<1>1. Inv => Ranked
  BY RankTypes DEF Ranked
<1>2. Inv /\ [Next]_vars => [Descends]_vars
  <2> SUFFICES ASSUME Inv, Next, NEW j \in Jobs
               PROVE  /\ Step(j) => Lower(Rank(j)', Rank(j))
                      /\ Rank(j)' # Rank(j) => Lower(Rank(j)', Rank(j))
    BY DEF Descends
  <2>1. Step(j) => Lower(Rank(j)', Rank(j))
    BY StepLowers
  <2>2. CASE Die(j)
    <3>1. mem' = mem /\ Stage(j)' < Stage(j)
      BY <2>2 DEF Die, Goto, Stage, Inv, TypeOK, Ended, Tiers
    <3> QED
      BY <2>1, <3>1 DEF Rank, Lower
  <2>3. ASSUME NEW k \in Jobs, k # j, Step(k) \/ Die(k) PROVE Rank(j)' = Rank(j)
    <3>1. /\ pc'[j] = pc[j] /\ mem'[j] = mem[j] /\ results'[j] = results[j]
      BY <2>3, OthersUnchanged
    <3>2. calls'[j] = calls[j]
      BY <2>3 DEF Step, Die, Create, TierA, TierB, TierFails, CheckCache, CallLlm, CallLlmFails,
         SaveToCache, SaveToCacheFails, EndTierC, Finish, GiveUp, UpdateState, TierCFails,
         FailAttempt, tierCVars, Inv, TypeOK
    <3> QED
      BY <3>1, <3>2 DEF Rank, Stage, WindowsLeft, CallsLeft
  <2> QED
    BY <2>1, <2>2, <2>3 DEF Next
<1> QED
  BY <1>1, <1>2, Invariance, PTL DEF Spec, AlwaysDescends
=============================================================================
