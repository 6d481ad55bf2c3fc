----------------------- MODULE ExtractionOrchestrator -----------------------
(***************************************************************************)
(* ExtractionOrchestrator.process_document with the Tier C client          *)
(* (TierCLLMClient): calls running in several processes, sharing Redis.    *)
(*                                                                         *)
(* Every call keeps its ExtractionJob in memory and rewrites the record    *)
(* extraction_job:{id} after every tier.  Any exception between the first  *)
(* and the last of these writes starts the attempt over from Tier A, up to *)
(* MAX_RETRIES attempts.  Tier C goes through the windows one by one: look *)
(* the window up in the Redis cache, else ask the model (retried by        *)
(* tenacity), then cache the answer; cached answers have no expiry and are *)
(* shared by all jobs.  A Redis write that raises may have been applied.   *)
(*                                                                         *)
(* Tier A and B are deterministic functions of the text, so their counts   *)
(* are left out of the record and the windows are a constant; an answer is *)
(* abstracted to whether it holds triples.                                 *)
(***************************************************************************)
EXTENDS Naturals, Sequences, FiniteSets

CONSTANTS
  Jobs,         \* calls of process_document
  Texts,        \* window texts (the cache key is the hash of the text)
  Windows,      \* the windows Tier B selects for each job's document
  MaxRetries,   \* ExtractionOrchestrator.MAX_RETRIES
  MaxCalls      \* max_attempts of _call_ollama

ASSUME OrchestratorAssumption ==
  /\ Windows \in [Jobs -> Seq(Texts)]
  /\ MaxRetries \in Nat \ {0}
  /\ MaxCalls \in Nat \ {0}

VARIABLES
  pc,        \* where each call is
  mem,       \* the job object of each call
  record,    \* the job's record in Redis
  cache,     \* cached answer of each window text
  results,   \* answers batch_extract has collected in this attempt
  calls,     \* failed calls of the model for the current window
  answer,    \* the model's answer, not cached yet
  saved      \* history: texts whose answer the call itself has cached

tierCVars == <<cache, results, calls, answer, saved>>
vars == <<pc, mem, record, tierCVars>>

None == "none"
Answers == {"triples", "empty"}
NoRecord == [state |-> None, tierC |-> 0, retries |-> 0]
NewJob == [state |-> "pending", tierC |-> 0, retries |-> 0]

Init ==
  /\ pc = [j \in Jobs |-> "new"]
  /\ mem = [j \in Jobs |-> NewJob]
  /\ record = [j \in Jobs |-> NoRecord]
  /\ cache = [x \in Texts |-> None]
  /\ results = [j \in Jobs |-> <<>>]
  /\ calls = [j \in Jobs |-> 0]
  /\ answer = [j \in Jobs |-> None]
  /\ saved = [j \in Jobs |-> {}]

(***************************************************************************)
(* Writing the record, and what an exception does.                         *)
(***************************************************************************)
Goto(j, label) == pc' = [pc EXCEPT ![j] = label]

\* Mutant: one attempt too many.
FailAttempt_OneMore(j, m) ==
  LET n == m.retries + 1
  IN  /\ mem' = [mem EXCEPT ![j] = [m EXCEPT !.retries = n,
                       !.state = IF n > MaxRetries THEN "failed" ELSE m.state]]
      /\ Goto(j, IF n > MaxRetries THEN "giveUp" ELSE "tierA")
      /\ results' = [results EXCEPT ![j] = <<>>]
      /\ calls' = [calls EXCEPT ![j] = 0]
      /\ answer' = [answer EXCEPT ![j] = None]

\* Mutant: no second attempt.
FailAttempt_AtOnce(j, m) ==
  /\ mem' = [mem EXCEPT ![j] = [m EXCEPT !.retries = @ + 1, !.state = "failed"]]
  /\ Goto(j, "giveUp")
  /\ results' = [results EXCEPT ![j] = <<>>]
  /\ calls' = [calls EXCEPT ![j] = 0]
  /\ answer' = [answer EXCEPT ![j] = None]

\* `except Exception`: one more attempt, or the end after the last one.  m is
\* the job object when the exception was raised.
FailAttempt(j, m) ==
  LET n == m.retries + 1
  IN  /\ mem' = [mem EXCEPT ![j] = [m EXCEPT !.retries = n,
                       !.state = IF n >= MaxRetries THEN "failed" ELSE m.state]]
      /\ Goto(j, IF n >= MaxRetries THEN "giveUp" ELSE "tierA")
      /\ results' = [results EXCEPT ![j] = <<>>]
      /\ calls' = [calls EXCEPT ![j] = 0]
      /\ answer' = [answer EXCEPT ![j] = None]

\* The SET of _update_state raises; Redis may have applied it.
SetFails(j, m) == \E r \in {record[j], m} : record' = [record EXCEPT ![j] = r]

\* _update_state inside the try block: the record becomes m, or the attempt fails.
UpdateState(j, m, next) ==
  \/ /\ record' = [record EXCEPT ![j] = m]
     /\ mem' = [mem EXCEPT ![j] = m]
     /\ Goto(j, next)
     /\ results' = [results EXCEPT ![j] = <<>>]
     /\ UNCHANGED <<calls, answer>>
  \/ SetFails(j, m) /\ FailAttempt(j, m)

(***************************************************************************)
(* process_document.                                                       *)
(***************************************************************************)
\* The first write is outside the try block: if it raises, so does the call.
Create(j) ==
  /\ pc[j] = "new"
  /\ \/ record' = [record EXCEPT ![j] = NewJob] /\ Goto(j, "tierA")
     \/ SetFails(j, NewJob) /\ Goto(j, "raised")
  /\ UNCHANGED <<mem, tierCVars>>

TierA(j) ==
  /\ pc[j] = "tierA"
  /\ UpdateState(j, mem[j], "tierB")
  /\ UNCHANGED <<cache, saved>>

TierB(j) ==
  /\ pc[j] = "tierB"
  /\ UpdateState(j, mem[j], "tierC")
  /\ UNCHANGED <<cache, saved>>

\* A parser, the matcher or the window selector raises: nothing was written.
TierFails(j) ==
  /\ pc[j] \in {"tierA", "tierB"}
  /\ FailAttempt(j, mem[j])
  /\ UNCHANGED <<record, cache, saved>>

\* All windows are answered: count the triples and write TIER_C_DONE.
CountTriples(j) == Cardinality({i \in 1 .. Len(results[j]) : results[j][i] = "triples"})

EndTierC(j) ==
  /\ pc[j] = "tierC"
  /\ Len(results[j]) = Len(Windows[j])
  /\ UpdateState(j, [mem[j] EXCEPT !.tierC = CountTriples(j)], "finish")
  /\ UNCHANGED <<cache, saved>>

\* Mutant: the last write is best effort.
Finish_BestEffort(j) ==
  LET m == [mem[j] EXCEPT !.state = "completed"]
  IN  /\ pc[j] = "finish"
      /\ SetFails(j, m)
      /\ mem' = [mem EXCEPT ![j] = m]
      /\ Goto(j, "returned")
      /\ UNCHANGED tierCVars

\* The job object is COMPLETED from here on, whatever becomes of the write.
Finish(j) ==
  /\ pc[j] = "finish"
  /\ UpdateState(j, [mem[j] EXCEPT !.state = "completed"], "returned")
  /\ UNCHANGED <<cache, saved>>

\* The write of FAILED is in the except block: if it raises, so does the call.
GiveUp(j) ==
  /\ pc[j] = "giveUp"
  /\ \/ record' = [record EXCEPT ![j] = mem[j]] /\ Goto(j, "returned")
     \/ SetFails(j, mem[j]) /\ Goto(j, "raised")
  /\ UNCHANGED <<mem, tierCVars>>

\* The process is killed, or the request is cancelled (CancelledError is not an
\* Exception): nobody resumes the job.
Die(j) ==
  /\ pc[j] \notin {"new", "returned", "raised", "dead"}
  /\ Goto(j, "dead")
  /\ UNCHANGED <<mem, record, tierCVars>>

(***************************************************************************)
(* Tier C: extract_from_window for one window after the other.             *)
(***************************************************************************)
Text(j) == Windows[j][Len(results[j]) + 1]

TierCFails(j) ==
  /\ FailAttempt(j, mem[j])
  /\ UNCHANGED record

\* Mutant: a cached answer without triples counts as a miss.
CheckCache_IgnoresEmpty(j) ==
  /\ pc[j] = "tierC"
  /\ Len(results[j]) < Len(Windows[j])
  /\ \/ /\ cache[Text(j)] = "triples"
        /\ results' = [results EXCEPT ![j] = Append(@, cache[Text(j)])]
        /\ UNCHANGED <<pc, mem, record, calls, answer>>
     \/ /\ cache[Text(j)] # "triples"
        /\ Goto(j, "llm")
        /\ UNCHANGED <<mem, record, results, calls, answer>>
     \/ TierCFails(j)
  /\ UNCHANGED <<cache, saved>>

\* _check_cache: a hit is the window's answer, and a cached empty one is a hit.
CheckCache(j) ==
  /\ pc[j] = "tierC"
  /\ Len(results[j]) < Len(Windows[j])
  /\ \/ /\ cache[Text(j)] # None
        /\ results' = [results EXCEPT ![j] = Append(@, cache[Text(j)])]
        /\ UNCHANGED <<pc, mem, record, calls, answer>>
     \/ /\ cache[Text(j)] = None
        /\ Goto(j, "llm")
        /\ UNCHANGED <<mem, record, results, calls, answer>>
     \/ TierCFails(j)
  /\ UNCHANGED <<cache, saved>>

\* The model answers.  What is not JSON counts as an answer without triples.
CallLlm(j) ==
  /\ pc[j] = "llm"
  /\ \E x \in Answers : answer' = [answer EXCEPT ![j] = x]
  /\ calls' = [calls EXCEPT ![j] = 0]
  /\ Goto(j, "save")
  /\ UNCHANGED <<mem, record, cache, results, saved>>

\* Mutant: a window the model fails on is skipped.
CallLlmFails_Skips(j) ==
  /\ pc[j] = "llm"
  /\ \/ /\ calls[j] + 1 < MaxCalls
        /\ calls' = [calls EXCEPT ![j] = @ + 1]
        /\ UNCHANGED <<pc, results>>
     \/ /\ calls[j] + 1 >= MaxCalls
        /\ calls' = [calls EXCEPT ![j] = 0]
        /\ results' = [results EXCEPT ![j] = Append(@, "empty")]
        /\ Goto(j, "tierC")
  /\ UNCHANGED <<mem, record, cache, answer, saved>>

\* Mutant: the calls are retried without limit.
CallLlmFails_Forever(j) ==
  /\ pc[j] = "llm"
  /\ calls' = [calls EXCEPT ![j] = 1 - @]
  /\ UNCHANGED <<pc, mem, record, cache, results, answer, saved>>

\* The call raises, or the JSON is no ExtractionResult: tenacity calls again,
\* and after MaxCalls calls lets the exception through.
CallLlmFails(j) ==
  /\ pc[j] = "llm"
  /\ \/ /\ calls[j] + 1 < MaxCalls
        /\ calls' = [calls EXCEPT ![j] = @ + 1]
        /\ UNCHANGED <<pc, mem, record, results, answer>>
     \/ /\ calls[j] + 1 >= MaxCalls
        /\ TierCFails(j)
  /\ UNCHANGED <<cache, saved>>

\* _save_to_cache overwrites what another job may have cached meanwhile.
SaveToCache(j) ==
  /\ pc[j] = "save"
  /\ cache' = [cache EXCEPT ![Text(j)] = answer[j]]
  /\ saved' = [saved EXCEPT ![j] = @ \cup {Text(j)}]
  /\ results' = [results EXCEPT ![j] = Append(@, answer[j])]
  /\ answer' = [answer EXCEPT ![j] = None]
  /\ Goto(j, "tierC")
  /\ UNCHANGED <<mem, record, calls>>

\* The SET raises, applied or not: the attempt fails.
SaveToCacheFails(j) ==
  /\ pc[j] = "save"
  /\ \E x \in {cache[Text(j)], answer[j]} : cache' = [cache EXCEPT ![Text(j)] = x]
  /\ TierCFails(j)
  /\ UNCHANGED saved

(***************************************************************************)
(* Specification.                                                          *)
(***************************************************************************)
Step(j) ==
  \/ Create(j) \/ TierA(j) \/ TierB(j) \/ TierFails(j)
  \/ CheckCache(j) \/ CallLlm(j) \/ CallLlmFails(j) \/ SaveToCache(j) \/ SaveToCacheFails(j)
  \/ EndTierC(j) \/ Finish(j) \/ GiveUp(j)

Next == \E j \in Jobs : Step(j) \/ Die(j)

Spec == Init /\ [][Next]_vars

\* The event loop keeps running a coroutine that is not waiting; Redis and the
\* model answer or raise.
FairSpec == Spec /\ \A j \in Jobs : WF_vars(Step(j))

(***************************************************************************)
(* Properties.                                                             *)
(***************************************************************************)
Tiers == {"tierA", "tierB", "tierC", "llm", "save", "finish"}
Ended == {"returned", "raised", "dead"}
JobObject == [state : {"pending", "completed", "failed"},
              tierC : Nat, retries : 0 .. MaxRetries]

\* Type invariant.
TypeOK ==
  /\ pc \in [Jobs -> {"new", "giveUp"} \cup Tiers \cup Ended]
  /\ mem \in [Jobs -> JobObject]
  /\ record \in [Jobs -> JobObject \cup {NoRecord}]
  /\ cache \in [Texts -> Answers \cup {None}]
  /\ results \in [Jobs -> Seq(Answers)]
  /\ calls \in [Jobs -> 0 .. MaxCalls - 1]
  /\ answer \in [Jobs -> Answers \cup {None}]
  /\ saved \in [Jobs -> SUBSET Texts]

\* Whatever writes failed or were applied without an answer on the way, a job
\* that process_document returns is final and is what Redis holds for its id.
RecordMatchesOutcome ==
  \A j \in Jobs :
    pc[j] = "returned" => record[j] = mem[j] /\ mem[j].state \in {"completed", "failed"}

\* A record that says COMPLETED, even of a job that is still retrying, of one
\* that failed later or whose process died, belongs to a document of which the
\* model has answered every window.
CompletedIsAnswered ==
  \A j \in Jobs :
    record[j].state = "completed" =>
      \A i \in 1 .. Len(Windows[j]) : cache[Windows[j][i]] # None

\* A retried attempt takes from the cache what an earlier attempt has put there:
\* a job never asks the model again about a text it has cached an answer for.
AnswersAreReused ==
  \A j \in Jobs : pc[j] = "llm" => Text(j) \notin saved[j]

\* Every call of process_document ends.
CallsEnd == \A j \in Jobs : pc[j] = "tierA" ~> pc[j] \in Ended

\* The call as its caller sees it.
Promise == INSTANCE ExtractionJob WITH
  status <- [j \in Jobs |-> IF pc[j] \in {"new", "raised", "dead"} THEN pc[j]
                            ELSE IF pc[j] = "returned" THEN mem[j].state ELSE "running"],
  retries <- [j \in Jobs |-> mem[j].retries],
  shown <- [j \in Jobs |-> record[j].state]

\* process_document keeps the promise of ExtractionJob.
KeepsPromise == Promise!JobSpec
=============================================================================
