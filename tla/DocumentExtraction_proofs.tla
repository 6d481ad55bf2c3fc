---------------------- MODULE DocumentExtraction_proofs ----------------------
(***************************************************************************)
(* Theorems about DocumentExtraction, for every finite set of documents,   *)
(* any number of workers, batch runs and reprocess runs, any queue and     *)
(* clock bound and any number of disruptions.                              *)
(***************************************************************************)
EXTENDS DocumentExtraction, FiniteSetTheorems, TLAPS

(***************************************************************************)
(* The inductive invariant.                                                *)
(***************************************************************************)
\* What a runner holds at each label.
RunnerInv ==
  \A r \in Runners : /\ pc[r] \in {"process", "store"} => cur[r] \in todo[r]
                     /\ pc[r] = "store" => job[r] \in Terminal

\* A worker that looks a document up has a message that names one.
MessageInv == \A w \in Workers : pc[w] = "resolve" => held[w].doc \in Docs

RunInv == RunnerInv /\ MessageInv /\ OnlyRowsAreExtracted

Inv1 == TypeOK /\ RunInv

(***************************************************************************)
(* Types.                                                                  *)
(***************************************************************************)
LEMMA TxnStartType ==
  ASSUME TypeOK, NEW c \in Connections
  PROVE  TxnStart(c) \in Time
  BY DEF TypeOK, ConnType, TxnStart, NoTxn, Time

LEMMA SelectType ==
  ASSUME TypeOK, NEW c \in Connections, Select(c)
  PROVE  ConnType'
  BY TxnStartType DEF TypeOK, ConnType, Select

LEMMA WriteStateType ==
  ASSUME TypeOK, NEW c \in Connections, NEW d \in Docs, NEW s \in {"pending"} \cup Terminal,
         WriteState(c, d, s)
  PROVE  PgType' /\ ConnType'
  BY TxnStartType DEF TypeOK, PgType, ConnType, WriteState, CommitState, DocState

LEMMA UnansweredType ==
  ASSUME TypeOK, NEW c \in Connections, NEW d \in Docs, NEW s \in {"pending"} \cup Terminal,
         CommitState(c, d, s), dead' = dead \cup {c}
  PROVE  PgType' /\ ConnType'
  BY TxnStartType DEF TypeOK, PgType, ConnType, CommitState, DocState

LEMMA ConnectType ==
  ASSUME TypeOK, NEW c \in Connections, Connect(c)
  PROVE  ConnType'
  BY DEF TypeOK, ConnType, Connect

LEMMA DisruptType ==
  ASSUME TypeOK, Disrupt
  PROVE  disruptions' \in 0 .. MaxDisruptions
  BY ParametersTyped DEF TypeOK, Disrupt

\* What a step leaves alone keeps its type.
LEMMA Frame ==
  ASSUME TypeOK
  PROVE  /\ UNCHANGED pgVars => PgType'
         /\ UNCHANGED streamVars => StreamType'
         /\ UNCHANGED runVars => RunType'
         /\ UNCHANGED connVars => ConnType'
         /\ UNCHANGED historyVars => HistoryType'
         /\ UNCHANGED queue => queue' \in Seq(Docs \cup {Malformed})
         /\ UNCHANGED clock => clock' \in Time
         /\ UNCHANGED disruptions => disruptions' \in 0 .. MaxDisruptions
<1> USE DEF TypeOK
<1>1. UNCHANGED pgVars => PgType'
  BY DEF pgVars, PgType
<1>2. UNCHANGED streamVars => StreamType'
  BY DEF streamVars, StreamType
<1>3. UNCHANGED runVars => RunType'
  BY DEF runVars, RunType
<1>4. UNCHANGED connVars => ConnType'
  BY DEF connVars, ConnType
<1>5. UNCHANGED historyVars => HistoryType'
  BY DEF historyVars, HistoryType
<1> QED
  BY <1>1, <1>2, <1>3, <1>4, <1>5

LEMMA CountType ==
  ASSUME TypeOK, NEW r, CountFailed(r) \/ CountSucceeded(r)
  PROVE  tally' \in [Batches -> [processed : Nat, succeeded : Nat, failed : Nat]]
<1> DEFINE Tally == [processed : Nat, succeeded : Nat, failed : Nat]
<1>1. tally \in [Batches -> Tally]
  BY DEF TypeOK, RunType
<1>2. ASSUME NEW t \in Tally, NEW x \in {0, 1}, NEW y \in {0, 1}
      PROVE  Counted(t, x, y) \in Tally
  BY DEF Counted
<1> SUFFICES tally' \in [Batches -> Tally]
  OBVIOUS
<1> HIDE DEF Tally
<1>3. CASE CountFailed(r)
  BY <1>1, <1>2, <1>3 DEF CountFailed
<1>4. CASE CountSucceeded(r)
  BY <1>1, <1>2, <1>4 DEF CountSucceeded
<1> QED
  BY <1>3, <1>4

\* The end of a runner's turn, with its count.
LEMMA EndTurnType ==
  ASSUME TypeOK, NEW r \in Runners, NEW d, EndTurn(r, d), UNCHANGED held,
         CountFailed(r) \/ CountSucceeded(r)
  PROVE  RunType'
<1>1. r \in Connections /\ AfterDocument(r, todo[r] \ {d}) \in WorkerPCs
  BY DEF Connections, AfterDocument, WorkerPCs, Off
<1>2. /\ todo' \in [Connections -> SUBSET Docs]
      /\ pc' \in [Connections -> WorkerPCs \cup ReprocessPCs]
      /\ cur' \in [Runners -> Docs \cup {None}]
      /\ job' \in [Runners -> Terminal \cup {None}]
  BY <1>1 DEF TypeOK, RunType, EndTurn
<1> QED
  BY <1>2, CountType DEF TypeOK, RunType

\* A step of the extraction loop.
LEMMA RunnerTypes ==
  ASSUME Inv1, NEW r \in Runners,
         RunnerStep(r) \/ ProcessRaises(r) \/ StoreResultUnanswered(r)
  PROVE  TypeOK'
<1> USE DEF Inv1, RunInv
<1>r. r \in Connections
  BY DEF Connections
<1>1. CASE GetContent(r)
  <2>f. /\ UNCHANGED <<pgVars, streamVars, queue, clock, disruptions>>
        /\ UNCHANGED <<held, wrote>>
    BY <1>1 DEF GetContent
  <2>1. PICK d \in Oldest(todo[r]) :
          \/ /\ Select(r)
             /\ cur' = [cur EXCEPT ![r] = d]
             /\ pc' = [pc EXCEPT ![r] = "process"]
             /\ unread' = unread \ {d}
             /\ UNCHANGED <<todo, job, tally>>
          \/ /\ r \in dead
             /\ EndTurn(r, d)
             /\ CountFailed(r)
             /\ UNCHANGED <<connVars, unread>>
    BY <1>1 DEF GetContent
  <2>2. d \in Docs
    BY <1>r DEF Oldest, TypeOK, RunType
  <2>3. CASE Select(r) /\ cur' = [cur EXCEPT ![r] = d] /\ pc' = [pc EXCEPT ![r] = "process"]
             /\ unread' = unread \ {d} /\ UNCHANGED <<todo, job, tally>>
    <3>1. RunType' /\ HistoryType'
      BY <2>2, <2>3, <2>f DEF TypeOK, RunType, HistoryType, WorkerPCs, Off
    <3> QED
      BY <1>r, <2>3, <2>f, <3>1, SelectType, Frame DEF TypeOK
  <2>4. CASE r \in dead /\ EndTurn(r, d) /\ CountFailed(r) /\ UNCHANGED <<connVars, unread>>
    BY <2>4, <2>f, EndTurnType, Frame DEF TypeOK, historyVars
  <2> QED
    BY <2>1, <2>3, <2>4
<1>2. CASE ProcessReturns(r)
  <2>1. RunType'
    BY <1>2 DEF ProcessReturns, WorkerPCs, Off, TypeOK, RunType
  <2> QED
    BY <1>2, <2>1, Frame DEF ProcessReturns, TypeOK
<1>3. CASE ProcessRaises(r)
  BY <1>3, EndTurnType, DisruptType, Frame DEF ProcessRaises, TypeOK
<1>4. CASE StoreResult(r) \/ StoreResultUnanswered(r)
  <2>1. cur[r] \in Docs /\ job[r] \in Terminal
    BY <1>4, <1>r DEF StoreResult, StoreResultUnanswered, RunnerInv, TypeOK, RunType
  <2>f. /\ UNCHANGED <<streamVars, queue, clock>>
        /\ UNCHANGED <<held, unread>>
        /\ EndTurn(r, cur[r])
        /\ CountFailed(r) \/ CountSucceeded(r)
    BY <1>4 DEF StoreResult, StoreResultUnanswered
  <2>2. RunType'
    BY <2>f, EndTurnType
  <2>3. HistoryType'
    BY <1>4, <2>1, <2>f DEF StoreResult, StoreResultUnanswered, NoteStored, TypeOK, HistoryType
  <2>4. PgType' /\ ConnType'
    BY <1>4, <1>r, <2>1, WriteStateType, UnansweredType, Frame DEF StoreResult, StoreResultUnanswered
  <2>5. disruptions' \in 0 .. MaxDisruptions
    BY <1>4, DisruptType, Frame DEF StoreResult, StoreResultUnanswered, TypeOK
  <2> QED
    BY <2>f, <2>2, <2>3, <2>4, <2>5, Frame DEF TypeOK
<1> QED
  BY <1>1, <1>2, <1>3, <1>4 DEF RunnerStep
\* A step of ingestion or of a stranger who pushes on the list.
LEMMA IngestTypes ==
  ASSUME TypeOK,
         \/ \E d \in Docs : Ingest(d) \/ IngestDuplicate(d) \/ Publish(d) \/ PublishLost(d)
         \/ \E x \in Docs \cup {Malformed} : Enqueue(x)
  PROVE  TypeOK'
<1>1. ASSUME NEW d \in Docs, Ingest(d)
      PROVE  TypeOK'
  <2>1. PgType'
    BY <1>1 DEF Ingest, TypeOK, PgType, DocState
  <2>2. StreamType'
    BY <1>1 DEF Ingest, TypeOK, StreamType
  <2> QED
    BY <1>1, <2>1, <2>2, Frame DEF Ingest, TypeOK
<1>2. ASSUME NEW d \in Docs, IngestDuplicate(d)
      PROVE  TypeOK'
  <2>1. PgType'
    BY <1>2 DEF IngestDuplicate, TypeOK, PgType, DocState
  <2>2. StreamType'
    BY <1>2 DEF IngestDuplicate, TypeOK, StreamType
  <2> QED
    BY <1>2, <2>1, <2>2, Frame DEF IngestDuplicate, TypeOK
<1>3. ASSUME NEW d \in Docs, Publish(d)
      PROVE  TypeOK'
  <2>1. stream' \in Seq(Docs) /\ dropped' \subseteq Docs
    <3>1. CASE stream' = Append(stream, d) /\ UNCHANGED dropped
      BY <3>1 DEF TypeOK, StreamType
    <3>2. CASE /\ Len(stream) >= StreamMaxLen
               /\ stream' = Append(Tail(stream), d)
               /\ dropped' = dropped \cup {Head(stream)}
      <4>1. stream \in Seq(Docs) /\ stream # <<>>
        BY <3>2, ParametersTyped DEF TypeOK, StreamType
      <4> QED
        BY <3>2, <4>1 DEF TypeOK, StreamType
    <3> QED
      BY <1>3, <3>1, <3>2 DEF Publish
  <2>2. StreamType'
    BY <1>3, <2>1 DEF Publish, TypeOK, StreamType
  <2> QED
    BY <1>3, <2>2, Frame DEF Publish, TypeOK
<1>4. ASSUME NEW d \in Docs, PublishLost(d)
      PROVE  TypeOK'
  <2>1. StreamType'
    BY <1>4 DEF PublishLost, TypeOK, StreamType
  <2> QED
    BY <1>4, <2>1, DisruptType, Frame DEF PublishLost, TypeOK
<1>5. ASSUME NEW x \in Docs \cup {Malformed}, Enqueue(x)
      PROVE  TypeOK'
  <2>1. queue' \in Seq(Docs \cup {Malformed})
    BY <1>5 DEF Enqueue, TypeOK
  <2> QED
    BY <1>5, <2>1, Frame DEF Enqueue, TypeOK
<1> QED
  BY <1>1, <1>2, <1>3, <1>4, <1>5

\* What query_pending returns is pending.
LEMMA FetchedArePending ==
  ASSUME NEW T \in {Pending} \cup UNION {OldestN(Pending, n) : n \in 1 .. Cardinality(Docs)}
  PROVE  T \subseteq Pending
  BY DEF OldestN

\* A step that starts or kills a batch run.
LEMMA BatchTypes ==
  ASSUME TypeOK, NEW b \in Batches, StartBatch(b) \/ CrashBatch(b)
  PROVE  TypeOK'
<1>r. /\ b \in Connections /\ b \in Runners
      /\ ZeroTally \in [processed : Nat, succeeded : Nat, failed : Nat]
  BY DEF Connections, Runners, ZeroTally
<1>1. CASE StartBatch(b)
  <2>f. /\ UNCHANGED <<pgVars, streamVars, queue, clock, disruptions>>
        /\ UNCHANGED <<held, cur, job, unread>>
    BY <1>1 DEF StartBatch
  <2>1. PICK T \in {Pending} \cup UNION {OldestN(Pending, n) : n \in 1 .. Cardinality(Docs)} :
          /\ todo' = [todo EXCEPT ![b] = T]
          /\ pc' = [pc EXCEPT ![b] = IF T = {} THEN "idle" ELSE "content"]
          /\ txn' = [txn EXCEPT ![b] = IF T = {} THEN NoTxn ELSE clock]
    BY <1>1 DEF StartBatch
  <2>2. T \subseteq Docs
    BY FetchedArePending DEF Pending
  <2>3. tally' = [tally EXCEPT ![b] = ZeroTally]
    BY <1>1 DEF StartBatch
  <2>4. RunType'
    BY <1>r, <2>1, <2>2, <2>3, <2>f DEF TypeOK, RunType, WorkerPCs, Off
  <2>5. ConnType' /\ HistoryType'
    BY <1>1, <1>r, <2>1, <2>f DEF StartBatch, TypeOK, ConnType, HistoryType
  <2> QED
    BY <2>f, <2>4, <2>5, Frame DEF TypeOK
<1>2. CASE CrashBatch(b)
  <2>1. RunType'
    BY <1>2, <1>r DEF CrashBatch, TypeOK, RunType, WorkerPCs, Off
  <2>2. HistoryType'
    BY <1>2 DEF CrashBatch, TypeOK, HistoryType
  <2> QED
    BY <1>2, <1>r, <2>1, <2>2, ConnectType, DisruptType, Frame DEF CrashBatch, TypeOK
<1> QED
  BY <1>1, <1>2

\* A message names a document.
LEMMA MessageTypes ==
  ASSUME NEW d \in Docs
  PROVE  /\ NoMessage \in Messages /\ NoMessage.kind = None
         /\ Event(d) \in Messages /\ Event(d).kind = "event" /\ Event(d).doc = d
         /\ ListJob(d) \in Messages /\ ListJob(d).kind = "list" /\ ListJob(d).doc = d
  BY DEF Messages, NoMessage, Event, ListJob

\* An event in a worker's hands names a document.
LEMMA HeldEvent ==
  ASSUME TypeOK, NEW w \in Workers, held[w].kind = "event"
  PROVE  held[w].doc \in Docs
  BY DEF TypeOK, RunType, Messages, NoMessage, None, Event, ListJob

\* A step of a worker that is not one of the extraction loop.
LEMMA WorkerTypes ==
  ASSUME Inv1, NEW w \in Workers,
         \/ WorkerStep(w) \/ StartWorker(w) \/ StopWorker(w) \/ CrashWorker(w)
         \/ ReadEventFails(w) \/ SettleFails(w)
  PROVE  TypeOK'
<1> USE DEF Inv1, RunInv
<1>r. w \in Connections /\ w \in Runners
  BY DEF Connections, Runners
<1>1. CASE StartWorker(w)
  <2>1. RunType'
    BY <1>1, <1>r DEF StartWorker, Goto, TypeOK, RunType, WorkerPCs, Off
  <2> QED
    BY <1>1, <1>r, <2>1, ConnectType, Frame DEF StartWorker, TypeOK
<1>2. CASE StopWorker(w) \/ CrashWorker(w)
  <2>1. Abandon(w) /\ Disrupt /\ (Goto(w, "stopped") \/ Goto(w, "down"))
    BY <1>2 DEF StopWorker, CrashWorker
  <2>2. RunType'
    BY <1>r, <2>1 DEF Abandon, Goto, TypeOK, RunType, WorkerPCs, Off, Messages
  <2>3. StreamType'
    BY <2>1 DEF Abandon, TypeOK, StreamType
  <2> QED
    BY <1>r, <2>1, <2>2, <2>3, ConnectType, DisruptType, Frame DEF Abandon, TypeOK
<1>3. CASE ReadEvent(w) \/ ReadEventFails(w)
  <2>1. Deliver(w) /\ stream \in Seq(Docs) /\ stream # <<>> /\ Head(stream) \in Docs
    BY <1>3 DEF ReadEvent, ReadEventFails, Deliver, TypeOK, StreamType
  <2>2. StreamType'
    BY <2>1 DEF Deliver, TypeOK, StreamType
  <2>3. CASE ReadEvent(w)
    <3>1. RunType'
      BY <1>r, <2>1, <2>3, MessageTypes DEF ReadEvent, Deliver, Goto, TypeOK, RunType, WorkerPCs, Off
    <3> QED
      BY <2>1, <2>2, <2>3, <3>1, Frame DEF ReadEvent, Deliver, TypeOK
  <2>4. CASE ReadEventFails(w)
    <3>1. RunType'
      BY <2>4 DEF ReadEventFails, Deliver, TypeOK, RunType
    <3> QED
      BY <2>1, <2>2, <2>4, <3>1, DisruptType, Frame DEF ReadEventFails, Deliver, TypeOK
  <2> QED
    BY <1>3, <2>3, <2>4
<1>4. CASE ReadNothing(w) \/ PopNothing(w)
  <2>1. RunType'
    BY <1>4, <1>r DEF ReadNothing, PopNothing, Goto, TypeOK, RunType, WorkerPCs, Off
  <2> QED
    BY <1>4, <2>1, Frame DEF ReadNothing, PopNothing, TypeOK
<1>5. CASE PopJob(w)
  <2>1. queue \in Seq(Docs \cup {Malformed}) /\ queue # <<>>
    BY <1>5 DEF PopJob, TypeOK
  <2>2. queue' \in Seq(Docs \cup {Malformed}) /\ (Head(queue) # Malformed => Head(queue) \in Docs)
    BY <1>5, <2>1 DEF PopJob
  <2>3. held' \in [Workers -> Messages]
    BY <1>5, <2>2, MessageTypes DEF PopJob, TypeOK, RunType
  <2>4. RunType'
    BY <1>5, <1>r, <2>3 DEF PopJob, Goto, TypeOK, RunType, WorkerPCs, Off
  <2> QED
    BY <1>5, <2>2, <2>4, Frame DEF PopJob, TypeOK
<1>6. CASE Resolve(w)
  <2>0. todo' \in [Connections -> SUBSET Docs]
    <3>1. CASE held[w].doc \in Pending /\ todo' = [todo EXCEPT ![w] = {held[w].doc}]
      BY <1>r, <3>1 DEF Pending, TypeOK, RunType
    <3>2. CASE UNCHANGED todo
      BY <3>2 DEF TypeOK, RunType
    <3> QED
      BY <1>6, <3>1, <3>2 DEF Resolve
  <2>1. RunType'
    BY <1>6, <1>r, <2>0 DEF Resolve, Goto, TypeOK, RunType, WorkerPCs, Off
  <2>2. ConnType'
    BY <1>6, <1>r, SelectType, Frame DEF Resolve
  <2> QED
    BY <1>6, <2>1, <2>2, Frame DEF Resolve, TypeOK
<1>7. CASE Settle(w) \/ SettleFails(w)
  <2>1. FinishPoll(w)
    BY <1>7 DEF Settle, SettleFails
  <2>2. RunType'
    BY <1>r, <2>1 DEF FinishPoll, Goto, TypeOK, RunType, WorkerPCs, Off, Messages
  <2>3. pel' \in [Workers -> SUBSET Docs] /\ acked' \subseteq Docs
    BY <1>7, HeldEvent DEF Settle, SettleFails, TypeOK, StreamType
  <2>4. StreamType'
    BY <2>1, <2>3 DEF FinishPoll, TypeOK, StreamType
  <2>5. disruptions' \in 0 .. MaxDisruptions
    BY <1>7, DisruptType, Frame DEF Settle, SettleFails
  <2> QED
    BY <2>1, <2>2, <2>4, <2>5, Frame DEF FinishPoll, TypeOK
<1> QED
  BY <1>1, <1>2, <1>3, <1>4, <1>5, <1>6, <1>7 DEF WorkerStep

\* A step of a reprocess run or of the environment.
LEMMA OtherTypes ==
  ASSUME TypeOK,
         \/ \E p \in Reprocessors : \E since \in Time : StartReprocess(p, since)
         \/ \E p \in Reprocessors : ResetOne(p) \/ AbortReprocess(p)
         \/ \E c \in Connections : LoseConnection(c)
         \/ Tick
  PROVE  TypeOK'
<1>r. Reprocessors \subseteq Connections
  BY DEF Connections
<1>1. ASSUME NEW p \in Reprocessors, NEW since \in Time, StartReprocess(p, since)
      PROVE  TypeOK'
  <2>1. RunType'
    BY <1>1, <1>r DEF StartReprocess, ModifiedSince, TypeOK, RunType, ReprocessPCs
  <2>2. ConnType'
    BY <1>1, <1>r DEF StartReprocess, TypeOK, ConnType
  <2> QED
    BY <1>1, <2>1, <2>2, Frame DEF StartReprocess, TypeOK
<1>2. ASSUME NEW p \in Reprocessors, ResetOne(p)
      PROVE  TypeOK'
  <2>1. PICK d \in todo[p] :
          /\ WriteState(p, d, "pending")
          /\ unread' = unread \cup {d}
          /\ todo' = [todo EXCEPT ![p] = @ \ {d}]
          /\ pc' = [pc EXCEPT ![p] = IF todo[p] = {d} THEN "idle" ELSE "reset"]
    BY <1>2 DEF ResetOne
  <2>2. p \in Connections /\ d \in Docs
    BY <1>r DEF TypeOK, RunType
  <2>3. RunType'
    BY <1>2, <2>1, <2>2 DEF ResetOne, TypeOK, RunType, ReprocessPCs
  <2>4. HistoryType'
    BY <1>2, <2>1, <2>2 DEF ResetOne, TypeOK, HistoryType
  <2> QED
    BY <1>2, <2>1, <2>2, <2>3, <2>4, WriteStateType, Frame DEF ResetOne, TypeOK
<1>3. ASSUME NEW p \in Reprocessors, AbortReprocess(p)
      PROVE  TypeOK'
  <2>1. RunType'
    BY <1>3, <1>r DEF AbortReprocess, TypeOK, RunType, ReprocessPCs
  <2>2. disruptions' \in 0 .. MaxDisruptions
    BY <1>3, DisruptType, Frame DEF AbortReprocess
  <2> QED
    BY <1>3, <1>r, <2>1, <2>2, ConnectType, Frame DEF AbortReprocess, TypeOK
<1>4. ASSUME NEW c \in Connections, LoseConnection(c)
      PROVE  TypeOK'
  <2>1. ConnType'
    BY <1>4 DEF LoseConnection, TypeOK, ConnType
  <2> QED
    BY <1>4, <2>1, DisruptType, Frame DEF LoseConnection, TypeOK
<1>5. CASE Tick
  <2>1. clock' \in Time
    BY <1>5, ParametersTyped DEF Tick, TypeOK, Time
  <2> QED
    BY <1>5, <2>1, Frame DEF Tick, TypeOK
<1> QED
  BY <1>1, <1>2, <1>3, <1>4, <1>5
\* Every step leaves a well-typed state behind.
LEMMA TypeStep ==
  ASSUME Inv1, Next
  PROVE  TypeOK'
  BY RunnerTypes, IngestTypes, BatchTypes, WorkerTypes, OtherTypes DEF Next, Inv1

(***************************************************************************)
(* Rows and the lists of documents.                                        *)
(***************************************************************************)
\* No step takes a row, or a doc_id, back.
LEMMA RowsStay ==
  ASSUME Inv1, Next
  PROVE  \A d \in Docs : /\ Row(d) => Row(d)'
                         /\ docs[d] # "absent" => docs'[d] # "absent"
<1> USE DEF Inv1, RunInv
<1>w. ASSUME NEW c \in Connections, NEW e \in todo[c], NEW s \in {"pending"} \cup Terminal,
             CommitState(c, e, s)
      PROVE  \A d \in Docs : /\ Row(d) => Row(d)'
                             /\ docs[d] # "absent" => docs'[d] # "absent"
  BY <1>w DEF CommitState, Row, Terminal, TypeOK, PgType
<1>u. ASSUME UNCHANGED docs
      PROVE  \A d \in Docs : /\ Row(d) => Row(d)'
                             /\ docs[d] # "absent" => docs'[d] # "absent"
  BY <1>u DEF Row
<1>c. Runners \subseteq Connections /\ Reprocessors \subseteq Connections
  BY DEF Connections
<1>1. ASSUME NEW d \in Docs, Ingest(d) \/ IngestDuplicate(d)
      PROVE  \A e \in Docs : /\ Row(e) => Row(e)'
                             /\ docs[e] # "absent" => docs'[e] # "absent"
  BY <1>1 DEF Ingest, IngestDuplicate, Row, Terminal, TypeOK, PgType
<1>2. ASSUME NEW r \in Runners, StoreResult(r) \/ StoreResultUnanswered(r)
      PROVE  \A d \in Docs : /\ Row(d) => Row(d)'
                             /\ docs[d] # "absent" => docs'[d] # "absent"
  <2>1. cur[r] \in todo[r] /\ job[r] \in Terminal
    BY <1>2 DEF StoreResult, StoreResultUnanswered, RunnerInv
  <2> QED
    BY <1>2, <1>c, <1>w, <1>u, <2>1 DEF StoreResult, StoreResultUnanswered, WriteState, pgVars
<1>3. ASSUME NEW p \in Reprocessors, ResetOne(p)
      PROVE  \A d \in Docs : /\ Row(d) => Row(d)'
                             /\ docs[d] # "absent" => docs'[d] # "absent"
  BY <1>3, <1>c, <1>w DEF ResetOne, WriteState
<1>4. ASSUME NEW r \in Runners, GetContent(r) \/ ProcessReturns(r) \/ ProcessRaises(r)
      PROVE  UNCHANGED docs
  BY <1>4 DEF GetContent, ProcessReturns, ProcessRaises, pgVars
<1>5. ASSUME NEW d \in Docs, Publish(d) \/ PublishLost(d)
      PROVE  UNCHANGED docs
  BY <1>5 DEF Publish, PublishLost, pgVars
<1>6. ASSUME NEW x \in Docs \cup {Malformed}, Enqueue(x)
      PROVE  UNCHANGED docs
  BY <1>6 DEF Enqueue, pgVars
<1>7. ASSUME NEW b \in Batches, StartBatch(b) \/ CrashBatch(b)
      PROVE  UNCHANGED docs
  BY <1>7 DEF StartBatch, CrashBatch, pgVars
<1>8. ASSUME NEW w \in Workers,
             \/ WorkerStep(w) \/ StartWorker(w) \/ StopWorker(w) \/ CrashWorker(w)
             \/ ReadEventFails(w) \/ SettleFails(w)
      PROVE  UNCHANGED docs
  BY <1>8 DEF WorkerStep, ReadEvent, ReadNothing, PopNothing, PopJob, Resolve, Settle, FinishPoll,
              StartWorker, StopWorker, CrashWorker, Abandon, ReadEventFails, SettleFails, Deliver,
              pgVars
<1>9. ASSUME NEW p \in Reprocessors, NEW since \in Time, StartReprocess(p, since)
      PROVE  UNCHANGED docs
  BY <1>9 DEF StartReprocess, pgVars
<1>10. ASSUME NEW p \in Reprocessors, AbortReprocess(p)
       PROVE  UNCHANGED docs
  BY <1>10 DEF AbortReprocess, pgVars
<1>11. ASSUME Tick \/ \E c \in Connections : LoseConnection(c)
       PROVE  UNCHANGED docs
  BY <1>11 DEF Tick, LoseConnection, pgVars
<1> QED
  BY <1>u, <1>1, <1>2, <1>3, <1>4, <1>5, <1>6, <1>7, <1>8, <1>9, <1>10, <1>11 DEF Next, RunnerStep
\* The lists hold rows in the next state if they hold rows of this state.
LEMMA ListedRowsStay ==
  ASSUME Inv1, Next, \A p \in Connections : \A d \in todo'[p] : d \in Docs /\ Row(d)
  PROVE  OnlyRowsAreExtracted'
  BY RowsStay DEF OnlyRowsAreExtracted

\* The end of a turn keeps the lists' invariant.
LEMMA EndTurnInv ==
  ASSUME Inv1, Next, NEW r \in Runners, NEW d, EndTurn(r, d), UNCHANGED held
  PROVE  RunInv'
<1> USE DEF Inv1, RunInv
<1>r. Runners \subseteq Connections /\ Workers \subseteq Connections /\ Workers \subseteq Runners
  BY DEF Connections, Runners
<1>1. /\ pc'[r] \in {"content", "settle", "idle"}
      /\ \A p \in Connections \ {r} : pc'[p] = pc[p] /\ todo'[p] = todo[p]
      /\ \A p \in Runners \ {r} : cur'[p] = cur[p] /\ job'[p] = job[p]
      /\ todo'[r] \subseteq todo[r]
  BY <1>r DEF EndTurn, AfterDocument, TypeOK, RunType
<1>2. RunnerInv'
  BY <1>r, <1>1 DEF RunnerInv
<1>3. MessageInv'
  BY <1>r, <1>1 DEF MessageInv
<1>4. \A p \in Connections : \A e \in todo'[p] : e \in Docs /\ Row(e)
  BY <1>1 DEF OnlyRowsAreExtracted, TypeOK, RunType
<1> QED
  BY <1>2, <1>3, <1>4, ListedRowsStay

\* A step that gives no process a new document keeps it too.
LEMMA QuietInv ==
  ASSUME Inv1, Next, UNCHANGED <<pc, held, todo, cur, job>>
  PROVE  RunInv'
<1>1. \A p \in Connections : \A e \in todo'[p] : e \in Docs /\ Row(e)
  BY DEF Inv1, RunInv, OnlyRowsAreExtracted, TypeOK, RunType
<1> QED
  BY <1>1, ListedRowsStay DEF Inv1, RunInv, RunnerInv, MessageInv

\* So does a step that moves one process to a label where it holds nothing, and
\* gives it, if anything, rows to go through.
LEMMA MoveInv ==
  ASSUME Inv1, Next, NEW p \in Connections,
         /\ pc'[p] \notin {"process", "store", "resolve"}
         /\ \A q \in Connections \ {p} : pc'[q] = pc[q] /\ todo'[q] = todo[q]
         /\ \A r \in Runners \ {p} : cur'[r] = cur[r] /\ job'[r] = job[r]
         /\ \A w \in Workers \ {p} : held'[w] = held[w],
         \A d \in todo'[p] : d \in Docs /\ Row(d)
  PROVE  RunInv'
<1> USE DEF Inv1, RunInv
<1>r. Runners \subseteq Connections /\ Workers \subseteq Connections
  BY DEF Connections, Runners
<1>1. RunnerInv'
  BY <1>r DEF RunnerInv
<1>2. MessageInv'
  BY <1>r DEF MessageInv
<1>3. \A q \in Connections : \A e \in todo'[q] : e \in Docs /\ Row(e)
  BY DEF OnlyRowsAreExtracted, TypeOK, RunType
<1> QED
  BY <1>1, <1>2, <1>3, ListedRowsStay

LEMMA RunInvStep ==
  ASSUME Inv1, Next
  PROVE  RunInv'
<1> USE DEF Inv1, RunInv
<1>r. /\ Runners \subseteq Connections /\ Workers \subseteq Connections /\ Workers \subseteq Runners
      /\ Batches \subseteq Connections /\ Reprocessors \subseteq Connections
  BY DEF Connections, Runners
<1>1. ASSUME NEW r \in Runners, GetContent(r)
      PROVE  RunInv'
  <2>1. PICK d \in Oldest(todo[r]) :
          \/ /\ cur' = [cur EXCEPT ![r] = d]
             /\ pc' = [pc EXCEPT ![r] = "process"]
             /\ UNCHANGED <<todo, job>>
          \/ EndTurn(r, d)
    BY <1>1 DEF GetContent
  <2>2. CASE EndTurn(r, d)
    BY <1>1, <2>2, EndTurnInv DEF GetContent
  <2>3. CASE cur' = [cur EXCEPT ![r] = d] /\ pc' = [pc EXCEPT ![r] = "process"]
             /\ UNCHANGED <<todo, job>>
    <3>1. d \in todo[r] /\ UNCHANGED held
      BY <1>1 DEF Oldest, GetContent
    <3>2. RunnerInv' /\ MessageInv'
      BY <1>r, <2>3, <3>1 DEF RunnerInv, MessageInv, TypeOK, RunType
    <3>3. \A p \in Connections : \A e \in todo'[p] : e \in Docs /\ Row(e)
      BY <2>3 DEF OnlyRowsAreExtracted, TypeOK, RunType
    <3> QED
      BY <3>2, <3>3, ListedRowsStay
  <2> QED
    BY <2>1, <2>2, <2>3
<1>2. ASSUME NEW r \in Runners, ProcessReturns(r)
      PROVE  RunInv'
  <2>1. /\ pc[r] = "process" /\ pc'[r] = "store" /\ job'[r] \in Terminal
        /\ \A q \in Connections \ {r} : pc'[q] = pc[q]
        /\ \A q \in Runners \ {r} : job'[q] = job[q]
        /\ UNCHANGED <<held, todo, cur>>
    BY <1>2, <1>r DEF ProcessReturns, TypeOK, RunType
  <2>2. RunnerInv' /\ MessageInv'
    BY <1>r, <2>1 DEF RunnerInv, MessageInv
  <2>3. \A p \in Connections : \A e \in todo'[p] : e \in Docs /\ Row(e)
    BY <2>1 DEF OnlyRowsAreExtracted, TypeOK, RunType
  <2> QED
    BY <2>2, <2>3, ListedRowsStay
<1>3. ASSUME NEW r \in Runners, ProcessRaises(r) \/ StoreResult(r) \/ StoreResultUnanswered(r)
      PROVE  RunInv'
  BY <1>3, EndTurnInv DEF ProcessRaises, StoreResult, StoreResultUnanswered
<1>4. ASSUME NEW d \in Docs, Ingest(d) \/ IngestDuplicate(d) \/ Publish(d) \/ PublishLost(d)
      PROVE  RunInv'
  BY <1>4, QuietInv DEF Ingest, IngestDuplicate, Publish, PublishLost, runVars
<1>5. ASSUME NEW x \in Docs \cup {Malformed}, Enqueue(x)
      PROVE  RunInv'
  BY <1>5, QuietInv DEF Enqueue, runVars
<1>6. ASSUME NEW b \in Batches, StartBatch(b)
      PROVE  RunInv'
  <2>1. PICK T \in {Pending} \cup UNION {OldestN(Pending, n) : n \in 1 .. Cardinality(Docs)} :
          /\ todo' = [todo EXCEPT ![b] = T]
          /\ pc' = [pc EXCEPT ![b] = IF T = {} THEN "idle" ELSE "content"]
    BY <1>6 DEF StartBatch
  <2>2. \A d \in T : d \in Docs /\ Row(d)
    BY FetchedArePending DEF Pending, Row
  <2>3. UNCHANGED <<held, cur, job>>
    BY <1>6 DEF StartBatch
  <2>4. /\ pc'[b] \in {"idle", "content"} /\ todo'[b] = T
        /\ \A q \in Connections \ {b} : pc'[q] = pc[q] /\ todo'[q] = todo[q]
    BY <1>r, <2>1 DEF TypeOK, RunType
  <2> QED
    BY <1>r, <2>2, <2>3, <2>4, MoveInv
<1>7. ASSUME NEW b \in Batches, CrashBatch(b)
      PROVE  RunInv'
  <2>1. /\ pc'[b] = "idle" /\ todo'[b] = {} /\ UNCHANGED held
        /\ \A q \in Connections \ {b} : pc'[q] = pc[q] /\ todo'[q] = todo[q]
        /\ \A q \in Runners \ {b} : cur'[q] = cur[q] /\ job'[q] = job[q]
    BY <1>7, <1>r DEF CrashBatch, TypeOK, RunType
  <2> QED
    BY <1>r, <2>1, MoveInv
<1>8. ASSUME NEW w \in Workers, \/ StartWorker(w) \/ StopWorker(w) \/ CrashWorker(w)
                                \/ ReadNothing(w) \/ PopNothing(w)
                                \/ Settle(w) \/ SettleFails(w)
      PROVE  RunInv'
  <2>1. /\ pc'[w] \in {"idle", "down", "stopped", "blpop"} /\ todo'[w] \subseteq todo[w]
        /\ \A q \in Connections \ {w} : pc'[q] = pc[q] /\ todo'[q] = todo[q]
        /\ \A q \in Runners \ {w} : cur'[q] = cur[q] /\ job'[q] = job[q]
        /\ \A v \in Workers \ {w} : held'[v] = held[v]
    BY <1>8, <1>r DEF StartWorker, StopWorker, CrashWorker, Abandon, ReadNothing, PopNothing, Settle,
                      SettleFails, FinishPoll, Goto, TypeOK, RunType
  <2>2. \A d \in todo'[w] : d \in Docs /\ Row(d)
    BY <1>r, <2>1 DEF OnlyRowsAreExtracted, TypeOK, RunType
  <2> QED
    BY <1>r, <2>1, <2>2, MoveInv
<1>9. ASSUME NEW w \in Workers, ReadEvent(w) \/ PopJob(w)
      PROVE  RunInv'
  <2>1. /\ pc'[w] \in {"idle", "resolve"} /\ UNCHANGED <<todo, cur, job>>
        /\ \A q \in Connections \ {w} : pc'[q] = pc[q]
        /\ \A v \in Workers \ {w} : held'[v] = held[v]
    BY <1>9, <1>r DEF ReadEvent, Deliver, PopJob, Goto, TypeOK, RunType
  <2>2. pc'[w] = "resolve" => held'[w].doc \in Docs
    <3>1. CASE ReadEvent(w)
      <4>1. Head(stream) \in Docs /\ held'[w] = Event(Head(stream))
        BY <3>1 DEF ReadEvent, Deliver, TypeOK, RunType, StreamType
      <4> QED
        BY <4>1, MessageTypes
    <3>2. CASE PopJob(w) /\ pc'[w] = "resolve"
      <4>1. Head(queue) # Malformed /\ held'[w] = ListJob(Head(queue))
        BY <1>r, <3>2 DEF PopJob, Goto, TypeOK, RunType
      <4>2. Head(queue) \in Docs
        BY <3>2, <4>1 DEF PopJob, TypeOK
      <4> QED
        BY <4>1, <4>2, MessageTypes
    <3> QED
      BY <1>9, <3>1, <3>2
  <2>3. RunnerInv' /\ MessageInv'
    BY <1>r, <2>1, <2>2 DEF RunnerInv, MessageInv
  <2>4. \A p \in Connections : \A e \in todo'[p] : e \in Docs /\ Row(e)
    BY <2>1 DEF OnlyRowsAreExtracted, TypeOK, RunType
  <2> QED
    BY <2>3, <2>4, ListedRowsStay
<1>10. ASSUME NEW w \in Workers, Resolve(w)
       PROVE  RunInv'
  <2>1. /\ pc'[w] \in {"content", "settle"} /\ UNCHANGED <<held, cur, job>>
        /\ \A q \in Connections \ {w} : pc'[q] = pc[q] /\ todo'[q] = todo[q]
    BY <1>10, <1>r DEF Resolve, Goto, TypeOK, RunType
  <2>2. \A d \in todo'[w] : d \in Docs /\ Row(d)
    <3>1. CASE held[w].doc \in Pending /\ todo' = [todo EXCEPT ![w] = {held[w].doc}]
      BY <1>r, <3>1 DEF Pending, Row, TypeOK, RunType
    <3>2. CASE UNCHANGED todo
      BY <1>r, <3>2 DEF OnlyRowsAreExtracted, TypeOK, RunType
    <3> QED
      BY <1>10, <3>1, <3>2 DEF Resolve
  <2> QED
    BY <1>r, <2>1, <2>2, MoveInv
<1>11. ASSUME NEW w \in Workers, ReadEventFails(w)
       PROVE  RunInv'
  BY <1>11, QuietInv DEF ReadEventFails, Deliver
<1>12. ASSUME NEW p \in Reprocessors, NEW since \in Time, StartReprocess(p, since)
       PROVE  RunInv'
  <2>1. /\ pc'[p] \in {"idle", "reset"} /\ todo'[p] = ModifiedSince(since)
        /\ UNCHANGED <<held, cur, job>>
        /\ \A q \in Connections \ {p} : pc'[q] = pc[q] /\ todo'[q] = todo[q]
    BY <1>12, <1>r DEF StartReprocess, TypeOK, RunType
  <2> QED
    BY <1>r, <2>1, MoveInv DEF ModifiedSince
<1>13. ASSUME NEW p \in Reprocessors, ResetOne(p) \/ AbortReprocess(p)
       PROVE  RunInv'
  <2>1. /\ pc'[p] \in {"idle", "reset"} /\ todo'[p] \subseteq todo[p]
        /\ UNCHANGED <<held, cur, job>>
        /\ \A q \in Connections \ {p} : pc'[q] = pc[q] /\ todo'[q] = todo[q]
    BY <1>13, <1>r DEF ResetOne, AbortReprocess, TypeOK, RunType
  <2>2. \A d \in todo'[p] : d \in Docs /\ Row(d)
    BY <1>r, <2>1 DEF OnlyRowsAreExtracted, TypeOK, RunType
  <2> QED
    BY <1>r, <2>1, <2>2, MoveInv
<1>14. ASSUME Tick \/ \E c \in Connections : LoseConnection(c)
       PROVE  RunInv'
  BY <1>14, QuietInv DEF Tick, LoseConnection, runVars
<1> QED
  BY <1>1, <1>2, <1>3, <1>4, <1>5, <1>6, <1>7, <1>8, <1>9, <1>10, <1>11, <1>12, <1>13, <1>14
     DEF Next, RunnerStep, WorkerStep

(***************************************************************************)
(* Where an event is.                                                      *)
(***************************************************************************)
\* EventInOnePlace, document by document.
PlaceInv ==
  \A d \in Docs :
    /\ d \in outbox => d \notin Undelivered \cup Delivered \cup orphaned \cup acked \cup dropped
    /\ d \in Undelivered => d \notin Delivered \cup orphaned \cup acked \cup dropped
    /\ d \in Delivered => d \notin orphaned \cup acked \cup dropped
    /\ d \in orphaned => d \notin acked \cup dropped
    /\ d \in acked => d \notin dropped
    /\ d \in outbox \cup Undelivered \cup Delivered \cup orphaned \cup acked \cup dropped =>
         docs[d] # "absent"
    /\ EventsEnabled /\ docs[d] # "absent" =>
         d \in outbox \cup Undelivered \cup Delivered \cup orphaned \cup acked \cup dropped

NoRepeats == \A i, j \in 1 .. Len(stream) : i # j => stream[i] # stream[j]
OneConsumer == \A v, w \in Workers : v # w => pel[v] \cap pel[w] = {}

EventInv == PlaceInv /\ NoRepeats /\ OneConsumer /\ HandledEventIsPending

\* What XADD does to the undelivered entries.
LEMMA AppendEvent ==
  ASSUME TypeOK, NEW d \in Docs, stream' = Append(stream, d)
  PROVE  /\ Undelivered' = Undelivered \cup {d}
         /\ NoRepeats /\ d \notin Undelivered => NoRepeats'
<1>1. stream \in Seq(Docs)
  BY DEF TypeOK, StreamType
<1>2. /\ Len(stream') = Len(stream) + 1 /\ Len(stream) \in Nat
      /\ \A i \in 1 .. Len(stream) : stream'[i] = stream[i]
      /\ stream'[Len(stream) + 1] = d
  BY <1>1
<1>3. Undelivered' = {stream'[i] : i \in 1 .. Len(stream')}
  BY DEF Undelivered
<1>4. Undelivered' = Undelivered \cup {d}
  BY <1>2, <1>3 DEF Undelivered
<1>5. NoRepeats /\ d \notin Undelivered => NoRepeats'
  BY <1>2 DEF NoRepeats, Undelivered
<1> QED
  BY <1>4, <1>5

\* What taking the oldest entry does to them.
LEMMA TakeEvent ==
  ASSUME TypeOK, NoRepeats, stream # <<>>, NEW s, s = Tail(stream)
  PROVE  /\ Head(stream) \in Undelivered
         /\ {s[i] : i \in 1 .. Len(s)} = Undelivered \ {Head(stream)}
         /\ \A i, j \in 1 .. Len(s) : i # j => s[i] # s[j]
         /\ s \in Seq(Docs)
<1>1. stream \in Seq(Docs)
  BY DEF TypeOK, StreamType
<1>2. /\ Len(stream) \in Nat \ {0} /\ Len(s) = Len(stream) - 1
      /\ s \in Seq(Docs) /\ Head(stream) = stream[1]
      /\ \A i \in 1 .. Len(s) : s[i] = stream[i + 1]
  BY <1>1
<1>3. Head(stream) \in Undelivered
  BY <1>2 DEF Undelivered
<1>4. \A i \in 1 .. Len(s) : s[i] \in Undelivered \ {Head(stream)}
  BY <1>2 DEF NoRepeats, Undelivered
<1>5. ASSUME NEW d \in Undelivered, d # Head(stream)
      PROVE  \E i \in 1 .. Len(s) : s[i] = d
  <2>1. PICK k \in 1 .. Len(stream) : stream[k] = d
    BY DEF Undelivered
  <2>2. k # 1 /\ k - 1 \in 1 .. Len(s) /\ s[k - 1] = stream[k]
    BY <1>2, <1>5, <2>1
  <2> QED
    BY <2>1, <2>2
<1>6. \A i, j \in 1 .. Len(s) : i # j => s[i] # s[j]
  BY <1>2 DEF NoRepeats
<1> QED
  BY <1>2, <1>3, <1>4, <1>5, <1>6

\* A step that leaves the events alone.
LEMMA QuietEvents ==
  ASSUME Inv1, EventInv, Next, UNCHANGED streamVars,
         \A w \in Workers : held'[w] = held[w] \/ held'[w].kind # "event",
         \A d \in Docs : docs[d] = "absent" => docs'[d] = "absent"
  PROVE  EventInv'
<1>1. Undelivered' = Undelivered /\ Delivered' = Delivered
  BY DEF streamVars, Undelivered, Delivered
<1>2. PlaceInv'
  BY <1>1, RowsStay DEF EventInv, PlaceInv, streamVars
<1>3. NoRepeats' /\ OneConsumer' /\ HandledEventIsPending'
  BY DEF EventInv, NoRepeats, OneConsumer, HandledEventIsPending, streamVars
<1> QED
  BY <1>2, <1>3 DEF EventInv

\* Ingestion puts a new document's event into its task, publishing moves it on.
LEMMA IngestEvents ==
  ASSUME Inv1, EventInv, NEW d \in Docs,
         Ingest(d) \/ IngestDuplicate(d) \/ Publish(d) \/ PublishLost(d)
  PROVE  EventInv'
<1> USE DEF Inv1, EventInv
<1>t. docs \in [Docs -> DocState] /\ stream \in Seq(Docs)
  BY DEF TypeOK, PgType, StreamType
<1>1. CASE Ingest(d) \/ IngestDuplicate(d)
  <2>1. /\ docs[d] = "absent" /\ docs'[d] # "absent"
        /\ \A e \in Docs \ {d} : docs'[e] = docs[e]
        /\ outbox' = IF EventsEnabled THEN outbox \cup {d} ELSE outbox
        /\ UNCHANGED <<stream, pel, orphaned, acked, dropped, held>>
    BY <1>1, <1>t DEF Ingest, IngestDuplicate, runVars
  <2>2. Undelivered' = Undelivered /\ Delivered' = Delivered
    BY <2>1 DEF Undelivered, Delivered
  <2>3. PlaceInv'
    BY <2>1, <2>2 DEF PlaceInv
  <2> QED
    BY <2>1, <2>3 DEF NoRepeats, OneConsumer, HandledEventIsPending
<1>2. CASE Publish(d)
  <2>f. /\ d \in outbox /\ outbox' = outbox \ {d}
        /\ UNCHANGED <<docs, pel, orphaned, acked, held>>
        /\ Delivered' = Delivered
    BY <1>2 DEF Publish, pgVars, runVars, Delivered
  <2>n. d \notin Undelivered
    BY <2>f DEF PlaceInv
  <2>h. OneConsumer' /\ HandledEventIsPending'
    BY <2>f DEF OneConsumer, HandledEventIsPending
  <2>1. CASE stream' = Append(stream, d) /\ UNCHANGED dropped
    <3>1. Undelivered' = Undelivered \cup {d} /\ NoRepeats'
      BY <2>1, <2>n, AppendEvent
    <3>2. PlaceInv'
      BY <2>1, <2>f, <3>1 DEF PlaceInv
    <3> QED
      BY <2>h, <3>1, <3>2
  <2>2. CASE /\ Len(stream) >= StreamMaxLen
             /\ stream' = Append(Tail(stream), d)
             /\ dropped' = dropped \cup {Head(stream)}
    <3> DEFINE s == Tail(stream)
               h == Head(stream)
    <3>1. stream # <<>>
      BY <1>t, <2>2, ParametersTyped
    <3>2. /\ h \in Undelivered
          /\ {s[i] : i \in 1 .. Len(s)} = Undelivered \ {h}
          /\ \A i, j \in 1 .. Len(s) : i # j => s[i] # s[j]
          /\ s \in Seq(Docs)
      BY <3>1, TakeEvent
    <3> HIDE DEF s, h
    <3>3. /\ stream' = Append(s, d) /\ dropped' = dropped \cup {h}
      BY <2>2 DEF s, h
    <3>4. /\ Len(stream') = Len(s) + 1 /\ Len(s) \in Nat
          /\ \A i \in 1 .. Len(s) : stream'[i] = s[i]
          /\ stream'[Len(s) + 1] = d
      BY <3>2, <3>3
    <3>5. Undelivered' = {stream'[i] : i \in 1 .. Len(stream')}
      BY DEF Undelivered
    <3>6. Undelivered' = (Undelivered \ {h}) \cup {d}
      BY <3>2, <3>4, <3>5
    <3>7. NoRepeats'
      BY <2>n, <3>2, <3>4 DEF NoRepeats
    <3>8. PlaceInv'
      BY <2>f, <2>n, <3>2, <3>3, <3>6 DEF PlaceInv
    <3> QED
      BY <2>h, <3>7, <3>8
  <2> QED
    BY <1>2, <2>1, <2>2 DEF Publish
<1>3. CASE PublishLost(d)
  <2>1. /\ d \in outbox /\ outbox' = outbox \ {d} /\ dropped' = dropped \cup {d}
        /\ UNCHANGED <<docs, stream, pel, orphaned, acked, held>>
    BY <1>3 DEF PublishLost, pgVars, runVars
  <2>2. Undelivered' = Undelivered /\ Delivered' = Delivered
    BY <2>1 DEF Undelivered, Delivered
  <2>3. PlaceInv'
    BY <2>1, <2>2 DEF PlaceInv
  <2> QED
    BY <2>1, <2>3 DEF NoRepeats, OneConsumer, HandledEventIsPending
<1> QED
  BY <1>1, <1>2, <1>3

\* Reading, acknowledging and dying move events between the consumers' lists.
LEMMA WorkerEvents ==
  ASSUME Inv1, EventInv, NEW w \in Workers,
         \/ ReadEvent(w) \/ ReadEventFails(w) \/ Settle(w) \/ SettleFails(w)
         \/ StopWorker(w) \/ CrashWorker(w)
  PROVE  EventInv'
<1> USE DEF Inv1, EventInv
<1>t. /\ stream \in Seq(Docs) /\ pel \in [Workers -> SUBSET Docs] /\ held \in [Workers -> Messages]
  BY DEF TypeOK, StreamType, RunType
<1>1. CASE ReadEvent(w) \/ ReadEventFails(w)
  <2> DEFINE h == Head(stream)
  <2>1. Deliver(w)
    BY <1>1 DEF ReadEvent, ReadEventFails
  <2>2. /\ h \in Undelivered /\ h \in Docs
        /\ Undelivered' = Undelivered \ {h}
        /\ NoRepeats'
    <3>1. stream' = Tail(stream) /\ stream # <<>>
      BY <2>1 DEF Deliver
    <3>2. /\ h \in Undelivered
          /\ {stream'[i] : i \in 1 .. Len(stream')} = Undelivered \ {h}
          /\ \A i, j \in 1 .. Len(stream') : i # j => stream'[i] # stream'[j]
      BY <3>1, TakeEvent
    <3>3. Undelivered \subseteq Docs
      BY <1>t DEF Undelivered
    <3>4. Undelivered' = {stream'[i] : i \in 1 .. Len(stream')}
      BY DEF Undelivered
    <3> QED
      BY <3>2, <3>3, <3>4 DEF NoRepeats
  <2>3. /\ pel' = [pel EXCEPT ![w] = @ \cup {h}]
        /\ UNCHANGED <<docs, outbox, orphaned, acked, dropped>>
    BY <2>1 DEF Deliver, pgVars
  <2>4. Delivered' = Delivered \cup {h}
    BY <1>t, <2>3 DEF Delivered
  <2> HIDE DEF h
  <2>5. PlaceInv'
    BY <2>2, <2>3, <2>4 DEF PlaceInv
  <2>6. \A v \in Workers : h \notin pel[v]
    BY <2>2 DEF PlaceInv, Delivered
  <2>7. OneConsumer'
    BY <1>t, <2>3, <2>6 DEF OneConsumer
  <2>8. \A v \in Workers : held'[v] = held[v] \/ (v = w /\ held'[v] = Event(h))
    BY <1>1, <1>t DEF ReadEvent, ReadEventFails, h
  <2>9. HandledEventIsPending'
    BY <1>t, <2>2, <2>3, <2>8, MessageTypes DEF HandledEventIsPending
  <2> QED
    BY <2>2, <2>5, <2>7, <2>9
<1>2. CASE Settle(w) \/ SettleFails(w)
  <2>1. /\ UNCHANGED <<docs, outbox, stream, orphaned, dropped>>
        /\ held' = [held EXCEPT ![w] = NoMessage]
    BY <1>2 DEF Settle, SettleFails, FinishPoll, pgVars
  <2>2. Undelivered' = Undelivered /\ NoRepeats'
    BY <2>1 DEF Undelivered, NoRepeats
  <2>3. \A v \in Workers : held'[v].kind = "event" => v # w /\ held'[v] = held[v]
    BY <1>t, <2>1 DEF NoMessage, None
  <2>4. CASE UNCHANGED <<acked, pel>>
    <3>1. Delivered' = Delivered
      BY <2>4 DEF Delivered
    <3>2. PlaceInv'
      BY <2>1, <2>2, <2>4, <3>1 DEF PlaceInv
    <3> QED
      BY <2>2, <2>3, <2>4, <3>2 DEF OneConsumer, HandledEventIsPending
  <2>5. CASE held[w].kind = "event" /\ acked' = acked \cup {held[w].doc}
             /\ pel' = [pel EXCEPT ![w] = @ \ {held[w].doc}]
    <3> DEFINE h == held[w].doc
    <3>1. h \in pel[w] /\ h \in Docs
      BY <2>5, HeldEvent DEF HandledEventIsPending
    <3>2. acked' = acked \cup {h} /\ pel' = [pel EXCEPT ![w] = @ \ {h}]
      BY <2>5
    <3> HIDE DEF h
    <3>3. \A v \in Workers \ {w} : h \notin pel[v]
      BY <3>1 DEF OneConsumer
    <3>4. Delivered' = Delivered \ {h} /\ h \in Delivered
      BY <1>t, <3>1, <3>2, <3>3 DEF Delivered
    <3>5. PlaceInv'
      BY <2>1, <2>2, <3>2, <3>4 DEF PlaceInv
    <3>6. OneConsumer'
      BY <1>t, <3>2 DEF OneConsumer
    <3>7. HandledEventIsPending'
      BY <1>t, <2>3, <3>2 DEF HandledEventIsPending
    <3> QED
      BY <2>2, <3>5, <3>6, <3>7
  <2> QED
    BY <1>2, <2>4, <2>5 DEF Settle, SettleFails
<1>3. CASE StopWorker(w) \/ CrashWorker(w)
  <2>1. Abandon(w)
    BY <1>3 DEF StopWorker, CrashWorker
  <2>2. /\ orphaned' = orphaned \cup pel[w] /\ pel' = [pel EXCEPT ![w] = {}]
        /\ held' = [held EXCEPT ![w] = NoMessage]
        /\ UNCHANGED <<docs, outbox, stream, acked, dropped>>
    BY <2>1 DEF Abandon, pgVars
  <2>3. Undelivered' = Undelivered /\ NoRepeats'
    BY <2>2 DEF Undelivered, NoRepeats
  <2>4. Delivered' = Delivered \ pel[w] /\ pel[w] \subseteq Delivered
    BY <1>t, <2>2 DEF Delivered, OneConsumer
  <2>5. PlaceInv'
    BY <2>2, <2>3, <2>4 DEF PlaceInv
  <2>6. OneConsumer'
    BY <1>t, <2>2 DEF OneConsumer
  <2>7. \A v \in Workers : held'[v].kind = "event" => v # w /\ held'[v] = held[v]
    BY <1>t, <2>2 DEF NoMessage, None
  <2>8. HandledEventIsPending'
    BY <1>t, <2>2, <2>7 DEF HandledEventIsPending
  <2> QED
    BY <2>3, <2>5, <2>6, <2>8
<1> QED
  BY <1>1, <1>2, <1>3

LEMMA EventStep ==
  ASSUME Inv1, EventInv, Next
  PROVE  EventInv'
<1> USE DEF Inv1, RunInv
<1>1. ASSUME NEW d \in Docs, Ingest(d) \/ IngestDuplicate(d) \/ Publish(d) \/ PublishLost(d)
      PROVE  EventInv'
  BY <1>1, IngestEvents
<1>2. ASSUME NEW w \in Workers,
             \/ ReadEvent(w) \/ ReadEventFails(w) \/ Settle(w) \/ SettleFails(w)
             \/ StopWorker(w) \/ CrashWorker(w)
      PROVE  EventInv'
  BY <1>2, WorkerEvents
<1>3. ASSUME NEW w \in Workers, StartWorker(w) \/ ReadNothing(w) \/ PopNothing(w) \/ Resolve(w)
      PROVE  EventInv'
  BY <1>3, QuietEvents DEF StartWorker, ReadNothing, PopNothing, Resolve, pgVars
<1>4. ASSUME NEW w \in Workers, PopJob(w)
      PROVE  EventInv'
  <2>1. \A v \in Workers : held'[v] = held[v] \/ held'[v].kind # "event"
    <3>1. CASE UNCHANGED held
      BY <3>1
    <3>2. CASE held' = [held EXCEPT ![w] = ListJob(Head(queue))]
      BY <3>2 DEF ListJob, TypeOK, RunType
    <3> QED
      BY <1>4, <3>1, <3>2 DEF PopJob
  <2>2. UNCHANGED <<docs, streamVars>>
    BY <1>4 DEF PopJob, pgVars
  <2> QED
    BY <2>1, <2>2, QuietEvents
<1>5. ASSUME NEW r \in Runners, StoreResult(r) \/ StoreResultUnanswered(r)
      PROVE  EventInv'
  <2>1. cur[r] \in todo[r] /\ r \in Connections
    BY <1>5 DEF StoreResult, StoreResultUnanswered, RunnerInv, Connections
  <2>2. Row(cur[r]) /\ cur[r] \in Docs
    BY <2>1 DEF OnlyRowsAreExtracted, TypeOK, RunType
  <2>3. \A d \in Docs : docs[d] = "absent" => docs'[d] = "absent"
    BY <1>5, <2>2
       DEF StoreResult, StoreResultUnanswered, WriteState, CommitState, Row, Terminal, pgVars, TypeOK,
           PgType
  <2>4. UNCHANGED streamVars /\ UNCHANGED held
    BY <1>5 DEF StoreResult, StoreResultUnanswered
  <2> QED
    BY <2>3, <2>4, QuietEvents
<1>6. ASSUME NEW r \in Runners, GetContent(r) \/ ProcessReturns(r) \/ ProcessRaises(r)
      PROVE  EventInv'
  BY <1>6, QuietEvents DEF GetContent, ProcessReturns, ProcessRaises, pgVars
<1>7. ASSUME NEW x \in Docs \cup {Malformed}, Enqueue(x)
      PROVE  EventInv'
  BY <1>7, QuietEvents DEF Enqueue, pgVars, runVars
<1>8. ASSUME NEW b \in Batches, StartBatch(b) \/ CrashBatch(b)
      PROVE  EventInv'
  BY <1>8, QuietEvents DEF StartBatch, CrashBatch, pgVars
<1>9. ASSUME NEW p \in Reprocessors, NEW since \in Time, StartReprocess(p, since)
      PROVE  EventInv'
  BY <1>9, QuietEvents DEF StartReprocess, pgVars
<1>10. ASSUME NEW p \in Reprocessors, ResetOne(p)
       PROVE  EventInv'
  <2>1. PICK d \in todo[p] : WriteState(p, d, "pending")
    BY <1>10 DEF ResetOne
  <2>2. Row(d) /\ d \in Docs
    BY DEF OnlyRowsAreExtracted, Connections, TypeOK, RunType
  <2>3. \A e \in Docs : docs[e] = "absent" => docs'[e] = "absent"
    BY <2>1, <2>2 DEF WriteState, CommitState, Row, Terminal, TypeOK, PgType
  <2>4. UNCHANGED streamVars /\ UNCHANGED held
    BY <1>10 DEF ResetOne
  <2> QED
    BY <2>3, <2>4, QuietEvents
<1>11. ASSUME NEW p \in Reprocessors, AbortReprocess(p)
       PROVE  EventInv'
  BY <1>11, QuietEvents DEF AbortReprocess, pgVars
<1>12. ASSUME Tick \/ \E c \in Connections : LoseConnection(c)
       PROVE  EventInv'
  BY <1>12, QuietEvents DEF Tick, LoseConnection, pgVars, runVars
<1> QED
  BY <1>1, <1>2, <1>3, <1>4, <1>5, <1>6, <1>7, <1>8, <1>9, <1>10, <1>11, <1>12
     DEF Next, RunnerStep, WorkerStep

(***************************************************************************)
(* The counters of a batch run.                                            *)
(***************************************************************************)
\* ReportMatchesWrites for one run; what it has written is off its list.
TallyInv(b) ==
  /\ wrote[b] \cap todo[b] = {}
  /\ tally[b].succeeded <= Cardinality(wrote[b])
  /\ Cardinality(wrote[b]) <= tally[b].succeeded + (IF b \in dead THEN 1 ELSE 0)
  /\ tally[b].processed = tally[b].succeeded + tally[b].failed
  /\ tally[b].processed + Cardinality(todo[b]) <= Cardinality(Docs)

BatchInv == \A b \in Batches : TallyInv(b)

\* Sets of documents are finite, and lose or gain one with one document.
LEMMA DocSets ==
  ASSUME NEW S \in SUBSET Docs
  PROVE  /\ IsFiniteSet(S) /\ Cardinality(S) \in Nat /\ Cardinality(S) <= Cardinality(Docs)
         /\ \A d \in S : Cardinality(S \ {d}) = Cardinality(S) - 1
         /\ \A d \in Docs \ S : Cardinality(S \cup {d}) = Cardinality(S) + 1
         /\ Cardinality({}) = 0
<1>1. IsFiniteSet(S) /\ Cardinality(S) <= Cardinality(Docs)
  BY FinitelyManyDocs, FS_Subset
<1>2. Cardinality(S) \in Nat
  BY <1>1, FS_CardinalityType
<1>3. \A d \in S : Cardinality(S \ {d}) = Cardinality(S) - 1
  BY <1>1, FS_RemoveElement
<1>4. \A d \in Docs \ S : Cardinality(S \cup {d}) = Cardinality(S) + 1
  BY <1>1, FS_AddElement
<1> QED
  BY <1>1, <1>2, <1>3, <1>4, FS_EmptySet

\* A step that leaves a run's list, counters and writes alone, and does not bring
\* its connection back.
LEMMA QuietTally ==
  ASSUME Inv1, BatchInv, UNCHANGED wrote, UNCHANGED tally,
         \A b \in Batches : todo'[b] = todo[b] /\ (b \in dead => b \in dead')
  PROVE  BatchInv'
<1>1. ASSUME NEW b \in Batches
      PROVE  TallyInv(b)'
  <2>1. /\ wrote[b] \in SUBSET Docs
        /\ tally[b] \in [processed : Nat, succeeded : Nat, failed : Nat]
    BY DEF Inv1, TypeOK, RunType, HistoryType
  <2>2. Cardinality(wrote[b]) \in Nat /\ tally[b].succeeded \in Nat
    BY <2>1, DocSets
  <2> QED
    BY <2>2 DEF BatchInv, TallyInv
<1> QED
  BY <1>1 DEF BatchInv

\* The end of a turn: counted as failed without a write; as succeeded with it; or
\* as failed with a write, by a run that loses its connection.
LEMMA TurnTally ==
  ASSUME Inv1, BatchInv, NEW r \in Runners, NEW d \in todo[r], EndTurn(r, d),
         NEW stored, stored = (IF r \in Batches THEN [wrote EXCEPT ![r] = @ \cup {d}] ELSE wrote),
         \/ CountFailed(r) /\ wrote' = wrote /\ dead' = dead
         \/ CountSucceeded(r) /\ wrote' = stored /\ dead' = dead
         \/ CountFailed(r) /\ wrote' \in {wrote, stored} /\ r \notin dead /\ dead' = dead \cup {r}
  PROVE  BatchInv'
<1> USE DEF Inv1
<1>r. r \in Connections /\ Batches \subseteq Connections
  BY DEF Connections, Runners
<1>t. /\ todo \in [Connections -> SUBSET Docs] /\ wrote \in [Batches -> SUBSET Docs]
      /\ tally \in [Batches -> [processed : Nat, succeeded : Nat, failed : Nat]]
  BY DEF TypeOK, RunType, HistoryType
<1>1. ASSUME NEW b \in Batches, b # r
      PROVE  TallyInv(b)'
  <2>1. /\ todo'[b] = todo[b] /\ wrote'[b] = wrote[b] /\ tally'[b] = tally[b]
        /\ b \in dead' <=> b \in dead
    BY <1>r, <1>t, <1>1 DEF EndTurn, CountFailed, CountSucceeded
  <2> QED
    BY <2>1 DEF BatchInv, TallyInv
<1>2. CASE r \in Batches
  <2>1. todo'[r] = todo[r] \ {d} /\ d \in Docs /\ d \notin wrote[r] /\ TallyInv(r)
    BY <1>r, <1>t, <1>2 DEF EndTurn, BatchInv, TallyInv
  <2>2. /\ Cardinality(todo[r]) \in Nat /\ Cardinality(wrote[r]) \in Nat /\ Cardinality(Docs) \in Nat
        /\ Cardinality(todo'[r]) = Cardinality(todo[r]) - 1
        /\ Cardinality(wrote[r] \cup {d}) = Cardinality(wrote[r]) + 1
    BY <1>r, <1>t, <1>2, <2>1, DocSets
  <2>3. /\ tally[r].processed \in Nat /\ tally[r].succeeded \in Nat /\ tally[r].failed \in Nat
    BY <1>t, <1>2
  <2>4. ASSUME CountFailed(r), wrote' = wrote, r \in dead => r \in dead'
        PROVE  TallyInv(r)'
    <3>1. tally'[r] = Counted(tally[r], 0, 1)
      BY <1>2, <2>4 DEF CountFailed
    <3>2. /\ tally'[r].processed = tally[r].processed + 1
          /\ tally'[r].succeeded = tally[r].succeeded + 0
          /\ tally'[r].failed = tally[r].failed + 1
      BY <3>1 DEF Counted
    <3>3. wrote'[r] \cap todo'[r] = {} /\ wrote'[r] = wrote[r]
      BY <2>1, <2>4 DEF TallyInv
    <3> QED
      BY <2>1, <2>2, <2>3, <2>4, <3>2, <3>3 DEF TallyInv
  <2>5. ASSUME CountSucceeded(r), wrote' = [wrote EXCEPT ![r] = @ \cup {d}], dead' = dead
        PROVE  TallyInv(r)'
    <3>1. tally'[r] = Counted(tally[r], 1, 0)
      BY <1>2, <2>5 DEF CountSucceeded
    <3>2. /\ tally'[r].processed = tally[r].processed + 1
          /\ tally'[r].succeeded = tally[r].succeeded + 1
          /\ tally'[r].failed = tally[r].failed + 0
      BY <3>1 DEF Counted
    <3>3. wrote'[r] = wrote[r] \cup {d}
      BY <1>t, <1>2, <2>5
    <3>4. wrote'[r] \cap todo'[r] = {}
      BY <2>1, <3>3 DEF TallyInv
    <3>5. Cardinality(wrote'[r]) = Cardinality(wrote[r]) + 1
      BY <2>2, <3>3
    <3> QED
      BY <2>1, <2>2, <2>3, <2>5, <3>2, <3>4, <3>5 DEF TallyInv
  <2>6. ASSUME CountFailed(r), wrote' = [wrote EXCEPT ![r] = @ \cup {d}],
               r \notin dead, r \in dead'
        PROVE  TallyInv(r)'
    <3>1. tally'[r] = Counted(tally[r], 0, 1)
      BY <1>2, <2>6 DEF CountFailed
    <3>2. /\ tally'[r].processed = tally[r].processed + 1
          /\ tally'[r].succeeded = tally[r].succeeded + 0
          /\ tally'[r].failed = tally[r].failed + 1
      BY <3>1 DEF Counted
    <3>3. wrote'[r] = wrote[r] \cup {d}
      BY <1>t, <1>2, <2>6
    <3>4. wrote'[r] \cap todo'[r] = {}
      BY <2>1, <3>3 DEF TallyInv
    <3>5. Cardinality(wrote'[r]) = Cardinality(wrote[r]) + 1
      BY <2>2, <3>3
    <3> QED
      BY <2>1, <2>2, <2>3, <2>6, <3>2, <3>4, <3>5 DEF TallyInv
  <2>7. TallyInv(r)'
    BY <1>2, <2>4, <2>5, <2>6
  <2> QED
    BY <1>1, <2>7 DEF BatchInv
<1>3. CASE r \notin Batches
  BY <1>1, <1>3 DEF BatchInv
<1> QED
  BY <1>2, <1>3

LEMMA TallyStep ==
  ASSUME Inv1, BatchInv, Next
  PROVE  BatchInv'
<1> USE DEF Inv1, RunInv
<1>t. /\ todo \in [Connections -> SUBSET Docs] /\ wrote \in [Batches -> SUBSET Docs]
      /\ tally \in [Batches -> [processed : Nat, succeeded : Nat, failed : Nat]]
  BY DEF TypeOK, RunType, HistoryType
<1>r. /\ Runners \subseteq Connections /\ Batches \subseteq Connections
      /\ Workers \cap Batches = {} /\ Reprocessors \cap Batches = {}
  BY ProcessesDisjoint DEF Connections, Runners
<1>1. ASSUME NEW r \in Runners, GetContent(r)
      PROVE  BatchInv'
  <2>f. UNCHANGED <<wrote, dead>>
    BY <1>1 DEF GetContent, Select, connVars
  <2>1. CASE UNCHANGED <<todo, tally>>
    BY <2>f, <2>1, QuietTally
  <2>2. CASE \E d \in Oldest(todo[r]) : EndTurn(r, d) /\ CountFailed(r)
    BY <2>f, <2>2, TurnTally DEF Oldest
  <2> QED
    BY <1>1, <2>1, <2>2 DEF GetContent
<1>2. ASSUME NEW r \in Runners, ProcessReturns(r)
      PROVE  BatchInv'
  BY <1>2, QuietTally DEF ProcessReturns, historyVars, connVars
<1>3. ASSUME NEW r \in Runners, ProcessRaises(r)
      PROVE  BatchInv'
  <2>1. cur[r] \in todo[r]
    BY <1>3 DEF ProcessRaises, RunnerInv
  <2> QED
    BY <1>3, <2>1, TurnTally DEF ProcessRaises, historyVars, connVars
<1>4. ASSUME NEW r \in Runners, StoreResult(r) \/ StoreResultUnanswered(r)
      PROVE  BatchInv'
  <2> DEFINE stored == IF r \in Batches THEN [wrote EXCEPT ![r] = @ \cup {cur[r]}] ELSE wrote
  <2>1. cur[r] \in todo[r] /\ EndTurn(r, cur[r])
    BY <1>4 DEF StoreResult, StoreResultUnanswered, RunnerInv
  <2>2. \/ CountFailed(r) /\ wrote' = wrote /\ dead' = dead
        \/ CountSucceeded(r) /\ wrote' = stored /\ dead' = dead
        \/ CountFailed(r) /\ wrote' \in {wrote, stored} /\ r \notin dead /\ dead' = dead \cup {r}
    BY <1>4
       DEF StoreResult, StoreResultUnanswered, WriteState, CommitState, NoteStored, connVars
  <2> QED
    BY <2>1, <2>2, TurnTally
<1>5. ASSUME NEW d \in Docs, Ingest(d) \/ IngestDuplicate(d) \/ Publish(d) \/ PublishLost(d)
      PROVE  BatchInv'
  BY <1>5, QuietTally
     DEF Ingest, IngestDuplicate, Publish, PublishLost, runVars, historyVars, connVars
<1>6. ASSUME NEW x \in Docs \cup {Malformed}, Enqueue(x)
      PROVE  BatchInv'
  BY <1>6, QuietTally DEF Enqueue, runVars, historyVars, connVars
<1>7. ASSUME NEW b \in Batches, StartBatch(b) \/ CrashBatch(b)
      PROVE  BatchInv'
  <2>1. ASSUME NEW c \in Batches, c # b
        PROVE  TallyInv(c)'
    <3>1. /\ todo'[c] = todo[c] /\ wrote'[c] = wrote[c] /\ tally'[c] = tally[c]
          /\ c \in dead' <=> c \in dead
      BY <1>r, <1>t, <1>7, <2>1 DEF StartBatch, CrashBatch, Connect
    <3> QED
      BY <3>1 DEF BatchInv, TallyInv
  <2>2. wrote'[b] = {} /\ tally'[b] = ZeroTally /\ todo'[b] \subseteq Docs
    <3>1. wrote'[b] = {} /\ tally'[b] = ZeroTally
      BY <1>t, <1>7 DEF StartBatch, CrashBatch
    <3>2. CASE StartBatch(b)
      <4>1. PICK T \in {Pending} \cup UNION {OldestN(Pending, n) : n \in 1 .. Cardinality(Docs)} :
              todo' = [todo EXCEPT ![b] = T]
        BY <3>2 DEF StartBatch
      <4> QED
        BY <1>r, <1>t, <3>1, <4>1, FetchedArePending DEF Pending
    <3>3. CASE CrashBatch(b)
      BY <1>r, <1>t, <3>1, <3>3 DEF CrashBatch
    <3> QED
      BY <1>7, <3>2, <3>3
  <2>3. Cardinality({}) = 0 /\ Cardinality(todo'[b]) <= Cardinality(Docs) /\ Cardinality(todo'[b]) \in Nat
    BY <2>2, DocSets
  <2>4. TallyInv(b)'
    BY <2>2, <2>3 DEF TallyInv, ZeroTally
  <2> QED
    BY <2>1, <2>4 DEF BatchInv
<1>8. ASSUME NEW w \in Workers,
             \/ WorkerStep(w) \/ StartWorker(w) \/ StopWorker(w) \/ CrashWorker(w)
             \/ ReadEventFails(w) \/ SettleFails(w)
      PROVE  BatchInv'
  <2>1. UNCHANGED <<wrote, tally>>
    BY <1>8 DEF WorkerStep, ReadEvent, ReadNothing, PopNothing, PopJob, Resolve, Settle, FinishPoll,
                StartWorker, StopWorker, CrashWorker, Abandon, ReadEventFails, SettleFails, Deliver,
                historyVars
  <2>2. \A b \in Batches : todo'[b] = todo[b] /\ (b \in dead => b \in dead')
    BY <1>8, <1>r, <1>t DEF WorkerStep, ReadEvent, ReadNothing, PopNothing, PopJob, Resolve, Settle,
                FinishPoll, StartWorker, StopWorker, CrashWorker, Abandon, ReadEventFails,
                SettleFails, Deliver, Connect, Select, connVars
  <2> QED
    BY <2>1, <2>2, QuietTally
<1>9. ASSUME NEW p \in Reprocessors, NEW since \in Time, StartReprocess(p, since)
      PROVE  BatchInv'
  <2>1. /\ UNCHANGED <<wrote, tally>>
        /\ \A b \in Batches : todo'[b] = todo[b] /\ (b \in dead => b \in dead')
    BY <1>9, <1>r, <1>t DEF StartReprocess, historyVars
  <2> QED
    BY <2>1, QuietTally
<1>10. ASSUME NEW p \in Reprocessors, ResetOne(p) \/ AbortReprocess(p)
       PROVE  BatchInv'
  <2>1. /\ UNCHANGED <<wrote, tally>>
        /\ \A b \in Batches : todo'[b] = todo[b] /\ (b \in dead => b \in dead')
    BY <1>10, <1>r, <1>t DEF ResetOne, AbortReprocess, WriteState, Connect, historyVars
  <2> QED
    BY <2>1, QuietTally
<1>11. ASSUME Tick \/ \E c \in Connections : LoseConnection(c)
       PROVE  BatchInv'
  BY <1>11, QuietTally DEF Tick, LoseConnection, runVars, historyVars, connVars
<1> QED
  BY <1>1, <1>2, <1>3, <1>4, <1>5, <1>6, <1>7, <1>8, <1>9, <1>10, <1>11 DEF Next, RunnerStep

(***************************************************************************)
(* Theorems.                                                               *)
(***************************************************************************)
THEOREM Inv1Invariant == Spec => []Inv1
<1>1. Init => Inv1
  <2> SUFFICES ASSUME Init PROVE Inv1
    OBVIOUS
  <2>1. PgType /\ ConnType /\ HistoryType /\ clock \in Time /\ disruptions \in 0 .. MaxDisruptions
    BY ParametersTyped
       DEF Init, PgType, ConnType, HistoryType, DocState, Time, NoTxn
  <2>2. StreamType /\ queue \in Seq(Docs \cup {Malformed})
    BY DEF Init, StreamType
  <2>3. ZeroTally \in [processed : Nat, succeeded : Nat, failed : Nat] /\ NoMessage \in Messages
    BY DEF ZeroTally, Messages
  <2>4. RunType
    BY <2>3 DEF Init, RunType, WorkerPCs, Off
  <2>5. RunInv
    BY DEF Init, RunInv, RunnerInv, MessageInv, OnlyRowsAreExtracted, Connections, Runners
  <2> QED
    BY <2>1, <2>2, <2>4, <2>5 DEF Inv1, TypeOK
<1>2. Inv1 /\ [Next]_vars => Inv1'
  <2> SUFFICES ASSUME Inv1, [Next]_vars PROVE Inv1'
    OBVIOUS
  <2>1. CASE Next
    BY <2>1, TypeStep, RunInvStep DEF Inv1
  <2>2. CASE UNCHANGED vars
    <3>1. /\ UNCHANGED <<pgVars, streamVars, runVars, connVars, historyVars>>
          /\ UNCHANGED <<queue, clock, disruptions>>
      BY <2>2 DEF vars, pgVars, streamVars, runVars, connVars, historyVars
    <3>2. TypeOK'
      BY <3>1, Frame DEF Inv1, TypeOK
    <3>3. RunInv'
      BY <3>1 DEF Inv1, RunInv, RunnerInv, MessageInv, OnlyRowsAreExtracted, Row, runVars, pgVars
    <3> QED
      BY <3>2, <3>3 DEF Inv1
  <2> QED
    BY <2>1, <2>2
<1> QED
  BY <1>1, <1>2, PTL DEF Spec

\* Every state of DocumentExtraction is well typed.
THEOREM TypeCorrect == Spec => []TypeOK
<1>1. Inv1 => TypeOK
  BY DEF Inv1
<1> QED
  BY <1>1, Inv1Invariant, PTL

\* What a runner or a reprocess run has on its list is a row of the table.
THEOREM OnlyRows == Spec => []OnlyRowsAreExtracted
<1>1. Inv1 => OnlyRowsAreExtracted
  BY DEF Inv1, RunInv
<1> QED
  BY <1>1, Inv1Invariant, PTL
THEOREM EventInvariant == Spec => []EventInv
<1>1. Init => EventInv
  <2> SUFFICES ASSUME Init PROVE EventInv
    OBVIOUS
  <2>1. Undelivered = {} /\ Delivered = {}
    BY DEF Init, Undelivered, Delivered
  <2>2. PlaceInv
    BY <2>1 DEF Init, PlaceInv
  <2> QED
    BY <2>2 DEF Init, EventInv, NoRepeats, OneConsumer, HandledEventIsPending, NoMessage, None
<1>2. Inv1 /\ EventInv /\ [Next]_vars => EventInv'
  <2> SUFFICES ASSUME Inv1, EventInv, UNCHANGED vars PROVE EventInv'
    BY EventStep
  <2> QED
    BY DEF vars, EventInv, PlaceInv, NoRepeats, OneConsumer, HandledEventIsPending, Undelivered,
           Delivered
<1> QED
  BY <1>1, <1>2, Inv1Invariant, PTL DEF Spec

\* A worker acknowledges last: an event that is being handled is pending.
THEOREM HandledPending == Spec => []HandledEventIsPending
<1>1. EventInv => HandledEventIsPending
  BY DEF EventInv
<1> QED
  BY <1>1, EventInvariant, PTL

\* No event is in two places, and none that ingestion created is nowhere.
THEOREM EventConserved == Spec => []EventInOnePlace
<1>1. Inv1 /\ EventInv => EventInOnePlace
  <2> SUFFICES ASSUME Inv1, EventInv PROVE EventInOnePlace
    OBVIOUS
  <2> DEFINE Places == <<outbox, Undelivered, Delivered, orphaned, acked, dropped>>
  <2>1. /\ outbox \subseteq Docs /\ Undelivered \subseteq Docs /\ Delivered \subseteq Docs
        /\ orphaned \subseteq Docs /\ acked \subseteq Docs /\ dropped \subseteq Docs
    BY DEF Inv1, TypeOK, StreamType, Undelivered, Delivered
  <2>2. \A i, j \in 1 .. 6 : i # j => Places[i] \cap Places[j] = {}
    <3>1. ASSUME NEW i \in 1 .. 6, NEW j \in 1 .. 6, i < j
          PROVE  Places[i] \cap Places[j] = {}
      BY <2>1, <3>1 DEF EventInv, PlaceInv
    <3> HIDE DEF Places
    <3>2. ASSUME NEW i \in 1 .. 6, NEW j \in 1 .. 6, i # j
          PROVE  Places[i] \cap Places[j] = {}
      <4>1. i < j \/ j < i
        BY <3>2
      <4> QED
        BY <3>1, <4>1
    <3> QED
      BY <3>2
  <2>3. UNION {Places[i] : i \in 1 .. 6} =
          outbox \cup Undelivered \cup Delivered \cup orphaned \cup acked \cup dropped
    <3>1. {Places[i] : i \in 1 .. 6} = {outbox, Undelivered, Delivered, orphaned, acked, dropped}
      OBVIOUS
    <3> QED
      BY <3>1
  <2>4. EventsEnabled =>
          {d \in Docs : docs[d] # "absent"} =
            outbox \cup Undelivered \cup Delivered \cup orphaned \cup acked \cup dropped
    BY <2>1 DEF EventInv, PlaceInv
  <2> HIDE DEF Places
  <2>5. /\ EventsEnabled => {d \in Docs : docs[d] # "absent"} = UNION {Places[i] : i \in 1 .. 6}
    BY <2>3, <2>4
  <2> QED
    BY <2>2, <2>5 DEF EventInOnePlace, Places, EventInv, NoRepeats, OneConsumer
<1> QED
  BY <1>1, Inv1Invariant, EventInvariant, PTL
\* The report of a batch run agrees with what it wrote, whatever failed.
THEOREM ReportCorrect == Spec => []ReportMatchesWrites
<1>1. Init => BatchInv
  <2> SUFFICES ASSUME Init PROVE BatchInv
    OBVIOUS
  <2>1. Cardinality({}) = 0 /\ Cardinality(Docs) \in Nat
    BY DocSets
  <2>2. Batches \subseteq Connections
    BY DEF Connections, Runners
  <2> QED
    BY <2>1, <2>2 DEF Init, BatchInv, TallyInv, ZeroTally
<1>2. Inv1 /\ BatchInv /\ [Next]_vars => BatchInv'
  <2> SUFFICES ASSUME Inv1, BatchInv, UNCHANGED vars PROVE BatchInv'
    BY TallyStep
  <2> QED
    BY DEF vars, BatchInv, TallyInv
<1>3. BatchInv => ReportMatchesWrites
  BY DEF BatchInv, TallyInv, ReportMatchesWrites
<1> QED
  BY <1>1, <1>2, <1>3, Inv1Invariant, PTL DEF Spec

(***************************************************************************)
(* What an acknowledgement says of the document.                           *)
(***************************************************************************)
\* A runner has a document in its hands between the read and the write of its
\* state only, and a worker has the one its message names.
HoldInv ==
  /\ \A r \in Runners : pc[r] \notin {"process", "store"} => cur[r] = None
  /\ \A w \in Workers : pc[w] \in {"content", "process", "store"} => todo[w] \subseteq {held[w].doc}

\* AckedThenExtracted of one document.
Extracted(d) == docs[d] = "pending" => d \in unread \/ \E r \in Runners : cur[r] = d

\* Without a disruption every connection works, and what AckedThenExtracted says
\* of an acknowledged event holds already when its worker is about to send it.
AckInv ==
  disruptions = 0 =>
    /\ dead = {}
    /\ \A d \in acked : Extracted(d)
    /\ \A w \in Workers : pc[w] = "settle" /\ held[w].kind = "event" => Extracted(held[w].doc)

\* A step that moves no document between a runner's hands and its list.
LEMMA QuietHold ==
  ASSUME Inv1, HoldInv, NEW p \in Connections,
         \A q \in Connections \ {p} : pc'[q] = pc[q] /\ todo'[q] = todo[q],
         \A r \in Runners \ {p} : cur'[r] = cur[r],
         \A w \in Workers \ {p} : held'[w] = held[w],
         p \in Runners => pc'[p] \notin {"content", "process", "store"} /\ cur'[p] = None
  PROVE  HoldInv'
<1>1. Runners \subseteq Connections /\ Workers \subseteq Runners
  BY DEF Connections, Runners
<1> QED
  BY <1>1 DEF HoldInv

LEMMA HoldStep ==
  ASSUME Inv1, HoldInv, Next
  PROVE  HoldInv'
<1> USE DEF Inv1
<1>r. /\ Runners \subseteq Connections /\ Workers \subseteq Connections /\ Workers \subseteq Runners
      /\ Batches \subseteq Connections /\ Batches \subseteq Runners /\ Reprocessors \subseteq Connections
      /\ Reprocessors \cap Runners = {}
  BY ProcessesDisjoint DEF Connections, Runners
<1>t. /\ pc \in [Connections -> WorkerPCs \cup ReprocessPCs]
      /\ held \in [Workers -> Messages] /\ todo \in [Connections -> SUBSET Docs]
      /\ cur \in [Runners -> Docs \cup {None}]
  BY DEF TypeOK, RunType
<1>e. ASSUME NEW r \in Runners, NEW d, EndTurn(r, d), UNCHANGED held, pc[r] \in {"content", "process", "store"}
      PROVE  HoldInv'
  <2>1. /\ pc'[r] \in {"content", "settle", "idle"} /\ cur'[r] = None /\ todo'[r] \subseteq todo[r]
        /\ \A p \in Connections \ {r} : pc'[p] = pc[p] /\ todo'[p] = todo[p]
        /\ \A p \in Runners \ {r} : cur'[p] = cur[p]
    BY <1>e, <1>r, <1>t DEF EndTurn, AfterDocument
  <2> QED
    BY <1>e, <1>r, <2>1 DEF HoldInv
<1>1. ASSUME NEW r \in Runners, GetContent(r)
      PROVE  HoldInv'
  <2>1. PICK d \in Oldest(todo[r]) :
          \/ /\ cur' = [cur EXCEPT ![r] = d] /\ pc' = [pc EXCEPT ![r] = "process"]
             /\ UNCHANGED <<todo, held>>
          \/ EndTurn(r, d) /\ UNCHANGED held
    BY <1>1 DEF GetContent
  <2>2. CASE EndTurn(r, d) /\ UNCHANGED held
    BY <1>1, <1>e, <2>2 DEF GetContent
  <2>3. CASE /\ cur' = [cur EXCEPT ![r] = d] /\ pc' = [pc EXCEPT ![r] = "process"]
             /\ UNCHANGED <<todo, held>>
    BY <1>1, <1>r, <1>t, <2>3 DEF GetContent, HoldInv
  <2> QED
    BY <2>1, <2>2, <2>3
<1>2. ASSUME NEW r \in Runners, ProcessReturns(r)
      PROVE  HoldInv'
  BY <1>2, <1>r, <1>t DEF ProcessReturns, HoldInv
<1>3. ASSUME NEW r \in Runners, StoreResult(r) \/ StoreResultUnanswered(r) \/ ProcessRaises(r)
      PROVE  HoldInv'
  BY <1>3, <1>e DEF StoreResult, StoreResultUnanswered, ProcessRaises
<1>4. ASSUME NEW b \in Batches, StartBatch(b)
      PROVE  HoldInv'
  <2>1. PICK T \in {Pending} \cup UNION {OldestN(Pending, n) : n \in 1 .. Cardinality(Docs)} :
          /\ todo' = [todo EXCEPT ![b] = T]
          /\ pc' = [pc EXCEPT ![b] = IF T = {} THEN "idle" ELSE "content"]
    BY <1>4 DEF StartBatch
  <2>2. pc[b] = "idle" /\ UNCHANGED <<cur, held>>
    BY <1>4 DEF StartBatch
  <2>3. b \notin Workers
    BY ProcessesDisjoint
  <2> QED
    BY <1>r, <1>t, <2>1, <2>2, <2>3 DEF HoldInv
<1>5. ASSUME NEW b \in Batches, CrashBatch(b)
      PROVE  HoldInv'
  BY <1>5, <1>r, <1>t, QuietHold DEF CrashBatch
<1>6. ASSUME NEW w \in Workers,
             \/ StartWorker(w) \/ ReadEvent(w) \/ ReadNothing(w) \/ PopNothing(w) \/ PopJob(w)
             \/ Settle(w) \/ SettleFails(w)
      PROVE  HoldInv'
  <2>1. /\ pc[w] \notin {"content", "process", "store"} /\ UNCHANGED <<todo, cur>>
        /\ pc'[w] \notin {"content", "process", "store"}
        /\ \A p \in Connections \ {w} : pc'[p] = pc[p]
        /\ \A v \in Workers \ {w} : held'[v] = held[v]
    BY <1>6, <1>r, <1>t
       DEF StartWorker, Off, ReadEvent, Deliver, ReadNothing, PopNothing, PopJob, Settle, SettleFails,
           FinishPoll, Goto
  <2> QED
    BY <1>r, <2>1, QuietHold DEF HoldInv
<1>7. ASSUME NEW w \in Workers, Resolve(w)
      PROVE  HoldInv'
  <2>1. /\ pc[w] = "resolve" /\ UNCHANGED <<cur, held>>
        /\ \A p \in Connections \ {w} : pc'[p] = pc[p] /\ todo'[p] = todo[p]
        /\ \/ pc'[w] = "content" /\ todo'[w] = {held[w].doc}
           \/ pc'[w] = "settle"
    BY <1>7, <1>r, <1>t DEF Resolve, Goto
  <2> QED
    BY <1>r, <2>1 DEF HoldInv
<1>8. ASSUME NEW w \in Workers, StopWorker(w) \/ CrashWorker(w)
      PROVE  HoldInv'
  BY <1>8, <1>r, <1>t, QuietHold DEF StopWorker, CrashWorker, Abandon, Goto
<1>9. ASSUME NEW w \in Workers, ReadEventFails(w)
      PROVE  HoldInv'
  BY <1>9 DEF ReadEventFails, Deliver, HoldInv
<1>10. ASSUME NEW p \in Reprocessors,
              \/ \E since \in Time : StartReprocess(p, since)
              \/ ResetOne(p) \/ AbortReprocess(p)
       PROVE  HoldInv'
  <2>1. /\ UNCHANGED <<cur, held>>
        /\ \A q \in Connections \ {p} : pc'[q] = pc[q] /\ todo'[q] = todo[q]
    BY <1>10, <1>r, <1>t DEF StartReprocess, ResetOne, AbortReprocess
  <2> QED
    BY <1>r, <2>1, QuietHold
<1>11. ASSUME UNCHANGED runVars
       PROVE  HoldInv'
  BY <1>11 DEF runVars, HoldInv
<1>12. ASSUME NEW d \in Docs, Ingest(d) \/ IngestDuplicate(d) \/ Publish(d) \/ PublishLost(d)
       PROVE  HoldInv'
  BY <1>11, <1>12 DEF Ingest, IngestDuplicate, Publish, PublishLost
<1>13. ASSUME NEW x \in Docs \cup {Malformed}, Enqueue(x)
       PROVE  HoldInv'
  BY <1>11, <1>13 DEF Enqueue
<1>14. ASSUME Tick \/ \E c \in Connections : LoseConnection(c)
       PROVE  HoldInv'
  BY <1>11, <1>14 DEF Tick, LoseConnection
<1> QED
  BY <1>1, <1>2, <1>3, <1>4, <1>5, <1>6, <1>7, <1>8, <1>9, <1>10, <1>12, <1>13, <1>14
     DEF Next, RunnerStep, WorkerStep

\* Without a disruption no step puts an ingested document that was extracted, is
\* to be read again, or is in a runner's hands, back among the forgotten ones.
LEMMA ExtractedStays ==
  ASSUME Inv1, HoldInv, Next, disruptions' = 0, dead = {},
         NEW d \in Docs, docs[d] # "absent", Extracted(d)
  PROVE  Extracted(d)'
<1> USE DEF Inv1
<1>r. Batches \subseteq Runners /\ Workers \subseteq Runners
  BY DEF Runners
<1>t. /\ docs \in [Docs -> DocState] /\ cur \in [Runners -> Docs \cup {None}]
      /\ disruptions \in Nat
  BY DEF TypeOK, PgType, RunType
<1>d. ~Disrupt
  BY <1>t DEF Disrupt
<1>1. ASSUME docs'[d] = docs[d], d \in unread => d \in unread',
             \A r \in Runners : cur[r] = d => cur'[r] = d
      PROVE  Extracted(d)'
  BY <1>1 DEF Extracted
<1>2. ASSUME NEW r \in Runners, GetContent(r)
      PROVE  Extracted(d)'
  <2>1. PICK e \in Oldest(todo[r]) : cur' = [cur EXCEPT ![r] = e] /\ unread' = unread \ {e}
    BY <1>2 DEF GetContent
  <2>2. cur[r] = None \/ cur[r] = d
    BY <1>2 DEF GetContent, HoldInv
  <2>3. CASE cur[r] = d /\ cur[r] # None
    BY <1>2, <2>3 DEF GetContent, HoldInv
  <2>4. CASE cur[r] = None
    <3>1. docs' = docs /\ cur'[r] = e /\ \A q \in Runners \ {r} : cur'[q] = cur[q]
      BY <1>2, <1>t, <2>1 DEF GetContent, pgVars
    <3> QED
      BY <2>1, <2>4, <3>1, <1>t, ParametersTyped DEF Extracted, None
  <2> QED
    BY <2>2, <2>3, <2>4
<1>3. ASSUME NEW r \in Runners, ProcessReturns(r)
      PROVE  Extracted(d)'
  BY <1>1, <1>3 DEF ProcessReturns, pgVars, historyVars
<1>4. ASSUME NEW r \in Runners, StoreResult(r)
      PROVE  Extracted(d)'
  <2>1. job[r] \in Terminal
    BY <1>4 DEF StoreResult, StoreResultUnanswered, RunInv, RunnerInv
  <2>2. /\ docs' = [docs EXCEPT ![cur[r]] = job[r]] /\ unread' = unread
        /\ cur' = [cur EXCEPT ![r] = None]
    BY <1>4 DEF StoreResult, StoreResultUnanswered, WriteState, CommitState, EndTurn
  <2>3. CASE cur[r] = d
    BY <1>t, <2>1, <2>2, <2>3 DEF Extracted, Terminal
  <2>4. CASE cur[r] # d
    BY <1>t, <1>1, <2>2, <2>4
  <2> QED
    BY <2>3, <2>4
<1>5. ASSUME NEW p \in Reprocessors, ResetOne(p)
      PROVE  Extracted(d)'
  <2>1. PICK e \in todo[p] : docs' = [docs EXCEPT ![e] = "pending"] /\ unread' = unread \cup {e}
    BY <1>5 DEF ResetOne, WriteState, CommitState
  <2>2. UNCHANGED cur
    BY <1>5 DEF ResetOne
  <2>3. CASE e = d
    BY <2>1, <2>3 DEF Extracted
  <2>4. CASE e # d
    BY <1>t, <1>1, <2>1, <2>2, <2>4
  <2> QED
    BY <2>3, <2>4
<1>6. ASSUME NEW e \in Docs, Ingest(e) \/ IngestDuplicate(e) \/ Publish(e)
      PROVE  Extracted(d)'
  BY <1>1, <1>6, <1>t DEF Ingest, IngestDuplicate, Publish, pgVars, runVars, historyVars
<1>7. ASSUME NEW w \in Workers, WorkerStep(w) \/ StartWorker(w)
      PROVE  Extracted(d)'
  BY <1>1, <1>7
     DEF WorkerStep, ReadEvent, Deliver, ReadNothing, PopNothing, PopJob, Resolve, Settle, FinishPoll,
         StartWorker, pgVars, historyVars
<1>8. ASSUME UNCHANGED <<docs, unread, cur>>
      PROVE  Extracted(d)'
  BY <1>1, <1>8
<1>9. ASSUME NEW b \in Batches, StartBatch(b)
      PROVE  Extracted(d)'
  BY <1>8, <1>9 DEF StartBatch, pgVars
<1>10. ASSUME NEW p \in Reprocessors,
              AbortReprocess(p) \/ \E since \in Time : StartReprocess(p, since)
       PROVE  Extracted(d)'
  BY <1>8, <1>10 DEF AbortReprocess, StartReprocess, pgVars, historyVars
<1>11. ASSUME Tick \/ \E x \in Docs \cup {Malformed} : Enqueue(x)
       PROVE  Extracted(d)'
  BY <1>8, <1>11 DEF Tick, Enqueue, pgVars, runVars, historyVars
<1> QED
  BY <1>d, <1>2, <1>3, <1>4, <1>5, <1>6, <1>7, <1>9, <1>10, <1>11
     DEF Next, RunnerStep, PublishLost, ProcessRaises, StoreResultUnanswered, CrashBatch, StopWorker,
         CrashWorker, ReadEventFails, SettleFails, LoseConnection

LEMMA AckStep ==
  ASSUME Inv1, EventInv, HoldInv, AckInv, Next
  PROVE  AckInv'
<1> SUFFICES ASSUME disruptions' = 0
             PROVE  /\ dead' = {}
                    /\ \A d \in acked' : Extracted(d)'
                    /\ \A w \in Workers : pc'[w] = "settle" /\ held'[w].kind = "event" =>
                                            Extracted(held[w].doc)'
  BY DEF AckInv, Extracted
<1> USE DEF Inv1
<1>r. Runners \subseteq Connections /\ Batches \subseteq Runners /\ Workers \subseteq Runners
  BY DEF Connections, Runners
<1>t. /\ docs \in [Docs -> DocState] /\ cur \in [Runners -> Docs \cup {None}]
      /\ disruptions \in Nat /\ acked \subseteq Docs /\ held \in [Workers -> Messages]
      /\ pc \in [Connections -> WorkerPCs \cup ReprocessPCs] /\ todo \in [Connections -> SUBSET Docs]
      /\ pel \in [Workers -> SUBSET Docs]
  BY DEF TypeOK, PgType, RunType, StreamType
<1>d. ~Disrupt /\ disruptions = 0
  <2>1. ~Disrupt
    BY <1>t DEF Disrupt
  <2>2. disruptions' = disruptions
    BY <2>1
       DEF Next, RunnerStep, GetContent, ProcessReturns, StoreResult, StoreResultUnanswered, WorkerStep,
           ReadEvent, ReadNothing, PopNothing, PopJob, Resolve, Settle, StartWorker, StartBatch,
           StartReprocess, ResetOne, AbortReprocess, Ingest, IngestDuplicate, Publish, PublishLost, Enqueue, Tick,
           ProcessRaises, CrashBatch, StopWorker, CrashWorker, ReadEventFails, SettleFails,
           LoseConnection
  <2> QED
    BY <2>1, <2>2
<1>1. /\ dead = {}
      /\ \A d \in acked : Extracted(d)
      /\ \A w \in Workers : pc[w] = "settle" /\ held[w].kind = "event" => Extracted(held[w].doc)
  BY <1>d DEF AckInv
<1>2. dead' = {}
  BY <1>d, <1>1
     DEF Next, RunnerStep, GetContent, ProcessReturns, StoreResult, StoreResultUnanswered, WriteState,
         Select, WorkerStep, ReadEvent, Deliver, ReadNothing, PopNothing, PopJob, Resolve, Settle,
         FinishPoll, StartWorker,
         Connect, StartBatch, StartReprocess, ResetOne, AbortReprocess, Ingest, IngestDuplicate,
         Publish, PublishLost, Enqueue, Tick, ProcessRaises, CrashBatch, StopWorker, CrashWorker,
         ReadEventFails, SettleFails, LoseConnection, connVars
\* Neither an acknowledged document nor that of a message is absent.
<1>3. /\ \A d \in acked : d \in Docs /\ docs[d] # "absent"
      /\ \A w \in Workers : held[w].kind = "event" => held[w].doc \in Docs /\ docs[held[w].doc] # "absent"
  BY <1>t, HeldEvent DEF EventInv, PlaceInv, HandledEventIsPending, Delivered
<1>4. \A d \in Docs : docs[d] # "absent" /\ Extracted(d) => Extracted(d)'
  BY <1>1, ExtractedStays
<1>5. \A d \in acked' : d \in acked \/ \E w \in Workers : /\ pc[w] = "settle" /\ held[w].kind = "event"
                                                          /\ d = held[w].doc
  BY <1>d
     DEF Next, RunnerStep, GetContent, ProcessReturns, StoreResult, StoreResultUnanswered, WorkerStep,
         ReadEvent, Deliver, ReadNothing, PopNothing, PopJob, Resolve, Settle, FinishPoll, StartWorker,
         StartBatch, StartReprocess, ResetOne, AbortReprocess, Ingest, IngestDuplicate,
         Publish, PublishLost, Enqueue, Tick, ProcessRaises, CrashBatch, StopWorker, CrashWorker,
         ReadEventFails, SettleFails, LoseConnection, streamVars
<1>6. \A d \in acked' : Extracted(d)'
  BY <1>1, <1>3, <1>4, <1>5
\* A worker that comes to its acknowledgement has found its document out of
\* PENDING, or has just stored its result.
<1>7. ASSUME NEW w \in Workers, pc'[w] = "settle", held'[w].kind = "event"
      PROVE  Extracted(held[w].doc)'
  <2>1. CASE pc[w] = "settle" /\ held'[w] = held[w]
    BY <1>1, <1>3, <1>4, <1>7, <2>1
  <2>2. CASE Resolve(w)
    <3>1. held' = held /\ docs' = docs /\ held[w].doc \notin Pending
      BY <1>1, <1>7, <1>r, <1>t, <2>2 DEF Resolve, Goto, pgVars
    <3> QED
      BY <1>3, <1>7, <3>1 DEF Pending, Extracted
  <2>3. CASE StoreResult(w)
    <3>1. /\ pc[w] = "store" /\ held' = held /\ cur[w] \in todo[w] /\ job[w] \in Terminal
          /\ docs' = [docs EXCEPT ![cur[w]] = job[w]]
      BY <1>1, <2>3 DEF StoreResult, StoreResultUnanswered, WriteState, CommitState, RunInv, RunnerInv, Runners
    <3>2. cur[w] = held[w].doc
      BY <3>1 DEF HoldInv
    <3>3. docs'[held'[w].doc] \in Terminal
      BY <1>3, <1>7, <1>t, <3>1, <3>2
    <3> QED
      BY <3>3 DEF Extracted, Terminal
  <2>4. ASSUME NEW q \in Connections, pc'[q] # "settle" \/ q # w,
               \A p \in Connections \ {q} : pc'[p] = pc[p],
               \A v \in Workers \ {q} : held'[v] = held[v]
        PROVE  pc[w] = "settle" /\ held'[w] = held[w]
    BY <1>7, <1>r, <2>4
  <2>5. CASE UNCHANGED <<pc, held>>
    BY <1>7, <2>1, <2>5
  <2>6. ASSUME NEW r \in Runners, RunnerStep(r), ~StoreResult(w)
        PROVE  pc[w] = "settle" /\ held'[w] = held[w]
    <3>1. CASE GetContent(r) \/ ProcessReturns(r)
      <4>1. pc' = [pc EXCEPT ![r] = pc'[r]] /\ pc'[r] # "settle" /\ UNCHANGED held
        BY <1>1, <1>r, <1>t, <3>1 DEF GetContent, ProcessReturns
      <4> QED
        BY <1>r, <1>t, <2>4, <4>1
    <3>2. CASE StoreResult(r)
      <4>1. r # w /\ pc' = [pc EXCEPT ![r] = pc'[r]] /\ UNCHANGED held
        BY <1>r, <1>t, <2>6, <3>2 DEF StoreResult, StoreResultUnanswered, EndTurn
      <4> QED
        BY <1>r, <1>t, <2>4, <4>1
    <3> QED
      BY <2>6, <3>1, <3>2 DEF RunnerStep
  <2>7. ASSUME NEW v \in Workers, WorkerStep(v) \/ StartWorker(v), ~Resolve(w)
        PROVE  pc[w] = "settle" /\ held'[w] = held[w]
    <3>1. /\ v # w \/ pc'[v] # "settle"
          /\ \A p \in Connections \ {v} : pc'[p] = pc[p]
          /\ \A u \in Workers \ {v} : held'[u] = held[u]
      BY <1>r, <1>t, <2>7
         DEF WorkerStep, ReadEvent, Deliver, ReadNothing, PopNothing, PopJob, Resolve, Settle,
             FinishPoll, StartWorker, Goto
    <3> QED
      BY <1>r, <2>4, <3>1
  <2>8. ASSUME NEW b \in Batches, StartBatch(b)
        PROVE  pc[w] = "settle" /\ held'[w] = held[w]
    <3>1. b # w
      BY ProcessesDisjoint
    <3> QED
      BY <1>r, <1>t, <2>4, <2>8, <3>1 DEF StartBatch
  <2>9. ASSUME NEW p \in Reprocessors,
               \/ \E since \in Time : StartReprocess(p, since)
               \/ ResetOne(p) \/ AbortReprocess(p)
        PROVE  pc[w] = "settle" /\ held'[w] = held[w]
    <3>1. p # w /\ p \in Connections
      BY ProcessesDisjoint DEF Connections
    <3>2. UNCHANGED held /\ \A q \in Connections \ {p} : pc'[q] = pc[q]
      BY <1>t, <2>9 DEF StartReprocess, ResetOne, AbortReprocess
    <3> QED
      BY <2>4, <3>1, <3>2
  <2>10. ASSUME \/ \E d \in Docs : Ingest(d) \/ IngestDuplicate(d) \/ Publish(d)
                \/ \E x \in Docs \cup {Malformed} : Enqueue(x)
                \/ Tick
         PROVE  UNCHANGED <<pc, held>>
    BY <2>10 DEF Ingest, IngestDuplicate, Publish, Enqueue, Tick, runVars
  <2> QED
    BY <1>d, <1>7, <2>1, <2>2, <2>3, <2>5, <2>6, <2>7, <2>8, <2>9, <2>10
       DEF Next, PublishLost, ProcessRaises, StoreResultUnanswered, CrashBatch, StopWorker,
           CrashWorker, ReadEventFails, SettleFails, LoseConnection
<1> QED
  BY <1>2, <1>6, <1>7

\* Without a failed call or a stopped process an acknowledged document is not
\* left PENDING, unless it was put back by a reprocess run or is being extracted.
THEOREM AckedExtracted == Spec => []AckedThenExtracted
<1>1. Init => HoldInv /\ AckInv
  <2>1. ASSUME Init PROVE HoldInv
    BY <2>1 DEF Init, HoldInv, Connections, Runners
  <2>2. ASSUME Init PROVE AckInv
    BY <2>2 DEF Init, AckInv, NoMessage, None
  <2> QED
    BY <2>1, <2>2
<1>2. Inv1 /\ EventInv /\ HoldInv /\ AckInv /\ [Next]_vars => HoldInv' /\ AckInv'
  <2> SUFFICES ASSUME HoldInv, AckInv, UNCHANGED vars PROVE HoldInv' /\ AckInv'
    BY HoldStep, AckStep
  <2> QED
    BY DEF vars, HoldInv, AckInv, Extracted
<1>3. AckInv => AckedThenExtracted
  BY DEF AckInv, AckedThenExtracted, Extracted
<1> QED
  BY <1>1, <1>2, <1>3, Inv1Invariant, EventInvariant, PTL DEF Spec

(***************************************************************************)
(* Termination: how much a run, or a worker's poll, has still to do at     *)
(* most.                                                                   *)
(***************************************************************************)
\* Between two polls, or two runs, a process has nothing to do.
Busy(c) == pc[c] \notin {"idle"} \cup Off

\* The stage of the poll or run; in its loop, the documents left on its list,
\* and for a runner what is left to do with the one it has.
Stage(c) ==
  CASE pc[c] = "blpop" -> 4
    [] pc[c] = "resolve" -> 3
    [] pc[c] \in {"content", "process", "store", "reset"} -> 2
    [] pc[c] = "settle" -> 1
    [] OTHER -> 0
DocsLeft(c) == IF Stage(c) = 2 THEN Cardinality(todo[c]) ELSE 0
CallsLeft(c) == CASE pc[c] = "content" -> 2 [] pc[c] = "process" -> 1 [] OTHER -> 0
Rank(c) == <<Stage(c), DocsLeft(c), CallsLeft(c)>>

\* The lexicographic order.
Lower(a, b) ==
  \/ a[1] < b[1]
  \/ a[1] = b[1] /\ a[2] < b[2]
  \/ a[1] = b[1] /\ a[2] = b[2] /\ a[3] < b[3]

\* The steps fairness promises a process that is busy.
Progress(c) ==
  \/ c \in Runners /\ RunnerStep(c)
  \/ c \in Workers /\ Busy(c) /\ WorkerStep(c)
  \/ c \in Reprocessors /\ (ResetOne(c) \/ AbortReprocess(c))

Ranked == \A c \in Connections : Rank(c) \in Nat \X Nat \X Nat
Descends ==
  \A c \in Connections : /\ Progress(c) => Lower(Rank(c)', Rank(c))
                         /\ Busy(c) /\ Rank(c)' # Rank(c) => Lower(Rank(c)', Rank(c))
AlwaysDescends == [][Descends]_vars

\* The steps of a poll or a run once it has begun.
Own(c) ==
  \/ c \in Runners /\ (RunnerStep(c) \/ ProcessRaises(c) \/ StoreResultUnanswered(c))
  \/ c \in Batches /\ CrashBatch(c)
  \/ c \in Workers /\ (PopNothing(c) \/ PopJob(c) \/ Resolve(c) \/ Settle(c) \/ SettleFails(c)
                         \/ CrashWorker(c))
  \/ c \in Reprocessors /\ (ResetOne(c) \/ AbortReprocess(c))

LEMMA RankTypes ==
  ASSUME TypeOK, NEW c \in Connections
  PROVE  Rank(c) \in Nat \X Nat \X Nat
<1>1. todo[c] \in SUBSET Docs
  BY DEF TypeOK, RunType
<1>2. Cardinality(todo[c]) \in Nat
  BY <1>1, DocSets
<1>3. Stage(c) \in Nat /\ CallsLeft(c) \in Nat
  BY DEF Stage, CallsLeft
<1> QED
  BY <1>2, <1>3 DEF Rank, DocsLeft

\* Every step of a poll or a run ends a stage, a document, or a call.
LEMMA OwnLowers ==
  ASSUME Inv1, NEW c \in Connections, Own(c), Busy(c)
  PROVE  Lower(Rank(c)', Rank(c))
<1> USE DEF Inv1
<1>t. /\ pc \in [Connections -> WorkerPCs \cup ReprocessPCs]
      /\ todo \in [Connections -> SUBSET Docs] /\ todo[c] \in SUBSET Docs
      /\ Cardinality(todo[c]) \in Nat
      /\ \A d \in todo[c] : Cardinality(todo[c] \ {d}) < Cardinality(todo[c])
  <2>1. /\ pc \in [Connections -> WorkerPCs \cup ReprocessPCs]
        /\ todo \in [Connections -> SUBSET Docs] /\ todo[c] \in SUBSET Docs
    BY DEF TypeOK, RunType
  <2> QED
    BY <2>1, DocSets
<1>s. ASSUME Stage(c)' < Stage(c) PROVE Lower(Rank(c)', Rank(c))
  BY <1>s DEF Rank, Lower
<1>d. ASSUME Stage(c) = 2, NEW d \in todo[c], todo'[c] = todo[c] \ {d},
             pc'[c] \in {"content", "reset", "settle", "idle"}
      PROVE  Lower(Rank(c)', Rank(c))
  <2>1. CASE Stage(c)' = 2
    <3>1. DocsLeft(c)' < DocsLeft(c)
      BY <1>t, <1>d, <2>1 DEF DocsLeft
    <3> QED
      BY <1>d, <2>1, <3>1 DEF Rank, Lower
  <2>2. CASE Stage(c)' # 2
    BY <1>d, <1>s, <2>2 DEF Stage
  <2> QED
    BY <2>1, <2>2
<1>c. ASSUME pc[c] \in {"content", "process"}, todo'[c] = todo[c],
             pc'[c] = IF pc[c] = "content" THEN "process" ELSE "store"
      PROVE  Lower(Rank(c)', Rank(c))
  <2>1. Stage(c) = 2 /\ Stage(c)' = 2 /\ CallsLeft(c)' < CallsLeft(c)
    BY <1>c DEF Stage, CallsLeft
  <2>2. DocsLeft(c)' = DocsLeft(c)
    BY <1>c, <2>1 DEF DocsLeft
  <2> QED
    BY <2>1, <2>2 DEF Rank, Lower
<1>e. ASSUME c \in Runners, NEW d \in todo[c], EndTurn(c, d), pc[c] \in {"content", "process", "store"}
      PROVE  Lower(Rank(c)', Rank(c))
  <2>1. Stage(c) = 2
    BY <1>e DEF Stage
  <2>2. todo'[c] = todo[c] \ {d} /\ pc'[c] \in {"content", "settle", "idle"}
    BY <1>t, <1>e DEF EndTurn, AfterDocument
  <2> QED
    BY <1>d, <2>1, <2>2
<1>1. CASE c \in Runners /\ GetContent(c)
  <2>1. PICK d \in Oldest(todo[c]) :
          \/ pc' = [pc EXCEPT ![c] = "process"] /\ UNCHANGED todo
          \/ EndTurn(c, d)
    BY <1>1 DEF GetContent
  <2>2. pc[c] = "content" /\ d \in todo[c]
    BY <1>1, <2>1 DEF GetContent, Oldest
  <2>3. CASE pc' = [pc EXCEPT ![c] = "process"] /\ UNCHANGED todo
    <3>1. pc[c] = "content" /\ pc'[c] = "process" /\ todo'[c] = todo[c]
      BY <1>t, <2>2, <2>3
    <3> QED
      BY <1>c, <3>1
  <2>4. CASE EndTurn(c, d)
    BY <1>1, <1>e, <2>2, <2>4
  <2> QED
    BY <2>1, <2>3, <2>4
<1>2. CASE c \in Runners /\ ProcessReturns(c)
  BY <1>2, <1>t, <1>c DEF ProcessReturns
<1>3. CASE c \in Runners /\ (StoreResult(c) \/ StoreResultUnanswered(c) \/ ProcessRaises(c))
  <2>1. pc[c] \in {"process", "store"} /\ EndTurn(c, cur[c])
    BY <1>3 DEF StoreResult, StoreResultUnanswered, ProcessRaises
  <2>2. cur[c] \in todo[c]
    BY <1>3, <2>1 DEF RunInv, RunnerInv
  <2> QED
    BY <1>3, <1>e, <2>1, <2>2
<1>4. CASE c \in Reprocessors /\ ResetOne(c)
  <2>1. PICK d \in todo[c] : /\ todo' = [todo EXCEPT ![c] = @ \ {d}]
                             /\ pc' = [pc EXCEPT ![c] = IF todo[c] = {d} THEN "idle" ELSE "reset"]
    BY <1>4 DEF ResetOne
  <2>2. Stage(c) = 2
    BY <1>4 DEF ResetOne, Stage
  <2>3. todo'[c] = todo[c] \ {d} /\ pc'[c] \in {"reset", "idle"}
    BY <1>t, <2>1
  <2> QED
    BY <1>d, <2>2, <2>3
<1>5. CASE \/ c \in Batches /\ CrashBatch(c)
           \/ c \in Reprocessors /\ AbortReprocess(c)
           \/ c \in Workers /\ CrashWorker(c)
  <2>1. pc'[c] \in {"idle", "down"}
    BY <1>5, <1>t DEF CrashBatch, AbortReprocess, CrashWorker, Off, Abandon, Goto
  <2>2. pc[c] \in (WorkerPCs \cup ReprocessPCs) \ {"idle", "down", "stopped"}
    BY <1>t DEF Busy, Off
  <2>3. Stage(c)' < Stage(c)
    BY <2>1, <2>2 DEF Stage, WorkerPCs, Off, ReprocessPCs
  <2> QED
    BY <1>s, <2>3
<1>6. CASE c \in Workers /\ (PopNothing(c) \/ PopJob(c) \/ Resolve(c) \/ Settle(c) \/ SettleFails(c))
  <2>1. \/ pc[c] = "blpop" /\ pc'[c] \in {"idle", "resolve"}
        \/ pc[c] = "resolve" /\ pc'[c] \in {"content", "settle"}
        \/ pc[c] = "settle" /\ pc'[c] = "idle"
    BY <1>6, <1>t DEF PopNothing, PopJob, Resolve, Settle, SettleFails, FinishPoll, Goto
  <2>2. Stage(c)' < Stage(c)
    BY <2>1 DEF Stage
  <2> QED
    BY <1>s, <2>2
<1> QED
  BY <1>1, <1>2, <1>3, <1>4, <1>5, <1>6 DEF Own, RunnerStep

\* No other step touches the place or the list of a busy process.
LEMMA OthersLeave ==
  ASSUME Inv1, Next, NEW c \in Connections, Busy(c), ~Own(c)
  PROVE  pc'[c] = pc[c] /\ todo'[c] = todo[c]
<1>t. /\ pc \in [Connections -> WorkerPCs \cup ReprocessPCs] /\ todo \in [Connections -> SUBSET Docs]
      /\ c \in Runners \/ c \in Reprocessors
      /\ Runners \subseteq Connections
  BY DEF Inv1, TypeOK, RunType, Connections
<1>1. ASSUME UNCHANGED runVars
      PROVE  pc'[c] = pc[c] /\ todo'[c] = todo[c]
  BY <1>1 DEF runVars
<1>2. ASSUME NEW p \in Connections, p # c,
             \/ p \in Runners /\ (RunnerStep(p) \/ ProcessRaises(p) \/ StoreResultUnanswered(p))
             \/ p \in Batches /\ (StartBatch(p) \/ CrashBatch(p))
             \/ p \in Workers /\ (WorkerStep(p) \/ StartWorker(p) \/ StopWorker(p) \/ CrashWorker(p)
                                    \/ ReadEventFails(p) \/ SettleFails(p))
             \/ p \in Reprocessors /\ ((\E since \in Time : StartReprocess(p, since))
                                         \/ ResetOne(p) \/ AbortReprocess(p))
      PROVE  pc'[c] = pc[c] /\ todo'[c] = todo[c]
  <2>1. CASE p \in Runners /\ (RunnerStep(p) \/ ProcessRaises(p) \/ StoreResultUnanswered(p))
    BY <1>2, <1>t, <2>1
       DEF RunnerStep, GetContent, ProcessReturns, StoreResult, StoreResultUnanswered, ProcessRaises,
           EndTurn
  <2>2. CASE p \in Batches /\ (StartBatch(p) \/ CrashBatch(p))
    BY <1>2, <1>t, <2>2 DEF StartBatch, CrashBatch
  <2>3. CASE p \in Workers /\ (WorkerStep(p) \/ StartWorker(p) \/ StopWorker(p) \/ CrashWorker(p)
                                \/ ReadEventFails(p) \/ SettleFails(p))
    BY <1>2, <1>t, <2>3 DEF WorkerStep, ReadEvent, ReadNothing, PopNothing, PopJob, Resolve, Settle,
       StartWorker, StopWorker, CrashWorker, ReadEventFails, SettleFails, Abandon, Deliver,
       FinishPoll, Goto
  <2>4. CASE p \in Reprocessors /\ ((\E since \in Time : StartReprocess(p, since))
                                      \/ ResetOne(p) \/ AbortReprocess(p))
    BY <1>2, <1>t, <2>4 DEF StartReprocess, ResetOne, AbortReprocess
  <2> QED
    BY <1>2, <2>1, <2>2, <2>3, <2>4
<1>3. \/ UNCHANGED runVars
      \/ \E p \in Connections \ {c} :
             \/ p \in Runners /\ (RunnerStep(p) \/ ProcessRaises(p) \/ StoreResultUnanswered(p))
             \/ p \in Batches /\ (StartBatch(p) \/ CrashBatch(p))
             \/ p \in Workers /\ (WorkerStep(p) \/ StartWorker(p) \/ StopWorker(p) \/ CrashWorker(p)
                                    \/ ReadEventFails(p) \/ SettleFails(p))
             \/ p \in Reprocessors /\ ((\E since \in Time : StartReprocess(p, since))
                                         \/ ResetOne(p) \/ AbortReprocess(p))
      \/ c \in Workers /\ ReadEventFails(c)
  <2>1. Batches \subseteq Connections /\ Workers \subseteq Connections /\ Reprocessors \subseteq Connections
    BY DEF Connections, Runners
  <2>2. ASSUME \/ c \in Batches /\ StartBatch(c)
               \/ c \in Workers /\ (ReadEvent(c) \/ ReadNothing(c) \/ StartWorker(c) \/ StopWorker(c))
               \/ c \in Reprocessors /\ \E since \in Time : StartReprocess(c, since)
        PROVE  FALSE
    BY <2>2 DEF Busy, Off, StartBatch, ReadEvent, Deliver, ReadNothing, StartWorker, StopWorker,
       StartReprocess
  <2>3. ASSUME \/ \E d \in Docs : Ingest(d) \/ IngestDuplicate(d) \/ Publish(d) \/ PublishLost(d)
               \/ \E x \in Docs \cup {Malformed} : Enqueue(x)
               \/ \E p \in Connections : LoseConnection(p)
               \/ Tick
        PROVE  UNCHANGED runVars
    BY <2>3 DEF Ingest, IngestDuplicate, Publish, PublishLost, Enqueue, LoseConnection, Tick
  <2> QED
    BY <1>t, <2>1, <2>2, <2>3 DEF Next, Own, WorkerStep
<1>4. ASSUME c \in Workers, ReadEventFails(c)
      PROVE  pc'[c] = pc[c] /\ todo'[c] = todo[c]
  BY <1>4 DEF ReadEventFails, Deliver
<1> QED
  BY <1>1, <1>2, <1>3, <1>4

\* No run and no poll goes on for ever: its list of documents runs out, as do
\* the calls for each, whatever fails and whatever the other processes do; and
\* nothing puts a document on the list of a run that has begun.
THEOREM RunsRunOut == Spec => []Ranked /\ AlwaysDescends
<1>1. Inv1 => Ranked
  BY RankTypes DEF Ranked, Inv1
<1>2. Inv1 /\ [Next]_vars => [Descends]_vars
  <2> SUFFICES ASSUME Inv1, Next, NEW c \in Connections
               PROVE  /\ Progress(c) => Lower(Rank(c)', Rank(c))
                      /\ Busy(c) /\ Rank(c)' # Rank(c) => Lower(Rank(c)', Rank(c))
    BY DEF Descends
  <2>1. Progress(c) => Own(c) /\ Busy(c)
    BY DEF Progress, Own, Busy, Off, RunnerStep, WorkerStep, ReadEvent, Deliver, ReadNothing, GetContent,
       ProcessReturns, StoreResult, StoreResultUnanswered, ResetOne, AbortReprocess
  <2>2. Own(c) /\ Busy(c) => Lower(Rank(c)', Rank(c))
    BY OwnLowers
  <2>3. Busy(c) /\ ~Own(c) => Rank(c)' = Rank(c)
    BY OthersLeave DEF Rank, Stage, DocsLeft, CallsLeft
  <2> QED
    BY <2>1, <2>2, <2>3
<1> QED
  BY <1>1, <1>2, Inv1Invariant, PTL DEF Spec, AlwaysDescends
=============================================================================
