------------------------- MODULE DocumentExtraction -------------------------
(***************************************************************************)
(* How a document travels from extraction_state PENDING to a terminal      *)
(* state.  Four kinds of process share the PostgreSQL table rag.documents  *)
(* and two Redis structures, and nothing locks a document:                 *)
(*                                                                         *)
(*   - ingestion commits a PENDING row, then hands a document-ingested     *)
(*     event to a fire-and-forget task that XADDs it to the event stream;  *)
(*   - extraction workers read the stream through a consumer group, and    *)
(*     the list queue:extraction when the stream is empty;                 *)
(*   - batch runs (CLI `extract pending`, API POST /extract/pending) take  *)
(*     every PENDING document the query returned and go through the list;  *)
(*   - reprocess runs (CLI `extract reprocess`) reset documents to PENDING.*)
(*                                                                         *)
(* A worker and a batch run execute the same loop (ExtractPendingUseCase): *)
(* read the content, await the orchestrator, write the job's state back.   *)
(* Every database statement is one step, so the loops interleave at each   *)
(* of them.  The orchestrator's run is one step with three outcomes here;  *)
(* ExtractionOrchestrator details it.                                      *)
(*                                                                         *)
(* Time.  A BEFORE UPDATE trigger stamps updated_at with NOW(), which in   *)
(* PostgreSQL is the start of the connection's transaction.  psycopg2      *)
(* opens one at the first statement and keeps it open until a commit, so   *)
(* txn[c] remembers when connection c's transaction began.                 *)
(***************************************************************************)
EXTENDS Integers, Sequences, FiniteSets

CONSTANTS
  Docs,            \* the doc_ids that ingestion may hand out
  Workers,         \* extraction worker processes
  Batches,         \* batch extraction runs (CLI process or API request)
  Reprocessors,    \* reprocess runs (CLI process)
  Malformed,       \* a list entry that is not JSON with a UUID doc_id
  EventsEnabled,   \* config.enable_ingest_events
  StreamMaxLen,    \* maxlen of the XADD
  MaxQueue,        \* bound: length of queue:extraction
  MaxClock,        \* bound: the clock runs from 0 to MaxClock
  MaxDisruptions   \* bound: stops, crashes and failed calls in a behaviour

Runners == Workers \cup Batches
Connections == Runners \cup Reprocessors

ASSUME ProcessesDisjoint ==
  /\ Workers \cap Batches = {}
  /\ Workers \cap Reprocessors = {}
  /\ Batches \cap Reprocessors = {}

ASSUME FinitelyManyDocs == IsFiniteSet(Docs)

ASSUME ParametersTyped ==
  /\ Malformed \notin Docs
  /\ "none" \notin Docs
  /\ EventsEnabled \in BOOLEAN
  /\ StreamMaxLen \in Nat \ {0}
  /\ MaxQueue \in Nat
  /\ MaxClock \in Nat
  /\ MaxDisruptions \in Nat

VARIABLES
  docs,        \* row of each doc_id: its extraction_state, or why it has no row
  ingestedAt,  \* ingested_at of each row
  updatedAt,   \* updated_at of each row
  outbox,      \* doc_ids whose publish task has been created and not yet run
  stream,      \* stream entries not yet delivered to the consumer group
  pel,         \* entries pending under the name of each running worker
  orphaned,    \* entries pending under consumer names no process has any more
  acked,       \* acknowledged entries
  dropped,     \* events that never reached the group: publish lost, or trimmed
  queue,       \* Redis list queue:extraction
  pc,          \* program counter of every process
  held,        \* message a worker is handling
  todo,        \* documents a run has fetched and not yet gone through
  cur,         \* document in a runner's hands
  job,         \* state of the job process_document returned
  tally,       \* the counters a batch run's execute returns (a worker only logs them)
  txn,         \* start of a connection's open transaction
  dead,        \* connections that no longer serve statements
  clock,
  disruptions,
  \* History variables: no action reads them.
  modifiedAt,  \* when each row was really written last
  unread,      \* documents reset by reprocess whose content nobody has read since
  wrote        \* documents the current run of a batch has stored as completed

pgVars == <<docs, ingestedAt, updatedAt, modifiedAt>>
streamVars == <<outbox, stream, pel, orphaned, acked, dropped>>
runVars == <<pc, held, todo, cur, job, tally>>
historyVars == <<unread, wrote>>
connVars == <<txn, dead>>

(***************************************************************************)
(* Values.                                                                 *)
(***************************************************************************)
Terminal == {"completed", "failed"}

\* "absent": not ingested.  "duplicate": the id was handed out, but the INSERT
\* was skipped because a row with the same content_hash exists.
DocState == {"absent", "duplicate", "pending"} \cup Terminal
Row(d) == docs[d] \in {"pending"} \cup Terminal
Pending == {d \in Docs : docs[d] = "pending"}

None == "none"
NoTxn == -1
Time == 0 .. MaxClock
ZeroTally == [processed |-> 0, succeeded |-> 0, failed |-> 0]
NoMessage == [kind |-> None]
Event(d) == [kind |-> "event", doc |-> d]
ListJob(d) == [kind |-> "list", doc |-> d]
Messages == {NoMessage} \cup {Event(d) : d \in Docs} \cup {ListJob(d) : d \in Docs}

\* The documents of S the database returns first: ORDER BY ingested_at ASC,
\* documents with the same ingested_at in any order.
Oldest(S) == {d \in S : \A e \in S : ingestedAt[d] <= ingestedAt[e]}

\* What `ORDER BY ingested_at ASC LIMIT n` may return of S.
OldestN(S, n) ==
  {T \in SUBSET S : /\ Cardinality(T) <= n
                    /\ T # S => Cardinality(T) = n
                    /\ \A d \in T, e \in S \ T : ingestedAt[d] <= ingestedAt[e]}

Init ==
  /\ docs = [d \in Docs |-> "absent"]
  /\ ingestedAt = [d \in Docs |-> 0]
  /\ updatedAt = [d \in Docs |-> 0]
  /\ outbox = {}
  /\ stream = <<>>
  /\ pel = [w \in Workers |-> {}]
  /\ orphaned = {}
  /\ acked = {}
  /\ dropped = {}
  /\ queue = <<>>
  /\ pc = [p \in Connections |-> IF p \in Workers THEN "down" ELSE "idle"]
  /\ held = [w \in Workers |-> NoMessage]
  /\ todo = [p \in Connections |-> {}]
  /\ cur = [r \in Runners |-> None]
  /\ job = [r \in Runners |-> None]
  /\ tally = [b \in Batches |-> ZeroTally]
  /\ txn = [c \in Connections |-> NoTxn]
  /\ dead = {}
  /\ clock = 0
  /\ disruptions = 0
  /\ modifiedAt = [d \in Docs |-> 0]
  /\ unread = {}
  /\ wrote = [b \in Batches |-> {}]

(***************************************************************************)
(* Connections.                                                            *)
(***************************************************************************)
\* NOW() as connection c sees it.
TxnStart(c) == IF txn[c] = NoTxn THEN clock ELSE txn[c]

\* A SELECT: it opens a transaction if none is open and commits nothing.
Select(c) ==
  /\ c \notin dead
  /\ txn' = [txn EXCEPT ![c] = TxnStart(c)]
  /\ UNCHANGED dead

\* One UPDATE, stamped by the trigger, and its commit, at the server.
CommitState(c, d, s) ==
  /\ c \notin dead
  /\ docs' = [docs EXCEPT ![d] = s]
  /\ updatedAt' = [updatedAt EXCEPT ![d] = TxnStart(c)]
  /\ modifiedAt' = [modifiedAt EXCEPT ![d] = clock]
  /\ txn' = [txn EXCEPT ![c] = NoTxn]
  /\ UNCHANGED ingestedAt

\* update_document returns.
WriteState(c, d, s) == CommitState(c, d, s) /\ UNCHANGED dead

\* A new connection.
Connect(c) ==
  /\ txn' = [txn EXCEPT ![c] = NoTxn]
  /\ dead' = dead \ {c}

Disrupt ==
  /\ disruptions < MaxDisruptions
  /\ disruptions' = disruptions + 1

(***************************************************************************)
(* Ingestion.                                                              *)
(***************************************************************************)
\* document_store.create commits the row; the callback then creates the task
\* that will publish the event (inside a running loop nothing waits for it).
Ingest(d) ==
  /\ docs[d] = "absent"
  /\ docs' = [docs EXCEPT ![d] = "pending"]
  /\ ingestedAt' = [ingestedAt EXCEPT ![d] = clock]
  /\ updatedAt' = [updatedAt EXCEPT ![d] = clock]
  /\ modifiedAt' = [modifiedAt EXCEPT ![d] = clock]
  /\ outbox' = IF EventsEnabled THEN outbox \cup {d} ELSE outbox
  /\ UNCHANGED <<stream, pel, orphaned, acked, dropped, queue, runVars, connVars,
                 clock, disruptions, historyVars>>

\* The content is already stored under another doc_id: create returns without
\* a row, and the callback runs all the same, with the id that was not stored.
IngestDuplicate(d) ==
  /\ docs[d] = "absent"
  /\ \E e \in Docs : Row(e)
  /\ docs' = [docs EXCEPT ![d] = "duplicate"]
  /\ outbox' = IF EventsEnabled THEN outbox \cup {d} ELSE outbox
  /\ UNCHANGED <<ingestedAt, updatedAt, modifiedAt, stream, pel, orphaned, acked,
                 dropped, queue,
                 runVars, connVars, clock, disruptions, historyVars>>

\* XADD with an approximate MAXLEN: Redis may drop the oldest entries beyond it.
Publish(d) ==
  /\ d \in outbox
  /\ outbox' = outbox \ {d}
  /\ \/ /\ stream' = Append(stream, d)
        /\ UNCHANGED dropped
     \/ /\ Len(stream) >= StreamMaxLen
        /\ stream' = Append(Tail(stream), d)
        /\ dropped' = dropped \cup {Head(stream)}
  /\ UNCHANGED <<pgVars, pel, orphaned, acked, queue, runVars, connVars, clock,
                 disruptions, historyVars>>

\* The task is cancelled when asyncio.run returns, or the XADD raises: nobody
\* awaits the task, so the event is gone.
PublishLost(d) ==
  /\ Disrupt
  /\ d \in outbox
  /\ outbox' = outbox \ {d}
  /\ dropped' = dropped \cup {d}
  /\ UNCHANGED <<pgVars, stream, pel, orphaned, acked, queue, runVars, connVars, clock,
                 historyVars>>

\* Someone pushes a job on queue:extraction (no code in the repository does).
Enqueue(x) ==
  /\ Len(queue) < MaxQueue
  /\ queue' = Append(queue, x)
  /\ UNCHANGED <<pgVars, streamVars, runVars, connVars, clock, disruptions, historyVars>>

(***************************************************************************)
(* The extraction loop, shared by workers and batch runs.                  *)
(***************************************************************************)
\* Where a runner goes when `rest` is what is left of its list.
AfterDocument(r, rest) ==
  IF rest # {} THEN "content" ELSE IF r \in Workers THEN "settle" ELSE "idle"

\* The runner is done with its current document, whatever became of it.
EndTurn(r, d) ==
  /\ todo' = [todo EXCEPT ![r] = @ \ {d}]
  /\ pc' = [pc EXCEPT ![r] = AfterDocument(r, todo[r] \ {d})]
  /\ cur' = [cur EXCEPT ![r] = None]
  /\ job' = [job EXCEPT ![r] = None]

\* The counters of a batch run after one more document.
Counted(t, succeeded, failed) ==
  [processed |-> t.processed + 1, succeeded |-> t.succeeded + succeeded, failed |-> t.failed + failed]

CountFailed(r) ==
  tally' = [b \in Batches |-> IF b = r THEN Counted(tally[b], 0, 1) ELSE tally[b]]

CountSucceeded(r) ==
  tally' = [b \in Batches |-> IF b = r THEN Counted(tally[b], 1, 0) ELSE tally[b]]

\* A batch run has stored its document as completed.
NoteStored(r) ==
  wrote' = IF r \in Batches /\ job[r] = "completed"
           THEN [wrote EXCEPT ![r] = @ \cup {cur[r]}] ELSE wrote

\* Mutant: a read that raises is tried again on the same connection.
GetContent_Retries(r) ==
  /\ pc[r] = "content"
  /\ \E d \in Oldest(todo[r]) :
       \/ /\ Select(r)
          /\ cur' = [cur EXCEPT ![r] = d]
          /\ pc' = [pc EXCEPT ![r] = "process"]
          /\ unread' = unread \ {d}
       \/ /\ r \in dead
          /\ UNCHANGED <<cur, pc, connVars, unread>>
  /\ UNCHANGED <<pgVars, streamVars, queue, held, todo, job, tally, clock, disruptions, wrote>>

\* content = document_store.get_content(doc.doc_id)
GetContent(r) ==
  /\ pc[r] = "content"
  /\ \E d \in Oldest(todo[r]) :
       \/ /\ Select(r)
          /\ cur' = [cur EXCEPT ![r] = d]
          /\ pc' = [pc EXCEPT ![r] = "process"]
          /\ unread' = unread \ {d}
          /\ UNCHANGED <<todo, job, tally>>
       \/ /\ r \in dead
          /\ EndTurn(r, d)
          /\ CountFailed(r)
          /\ UNCHANGED <<connVars, unread>>
  /\ UNCHANGED <<pgVars, streamVars, queue, held, clock, disruptions, wrote>>

\* Mutant: the job comes back before its last transition.
ProcessReturns_Unfinished(r) ==
  /\ pc[r] = "process"
  /\ job' = [job EXCEPT ![r] = "tier_c_done"]
  /\ pc' = [pc EXCEPT ![r] = "store"]
  /\ UNCHANGED <<pgVars, streamVars, queue, held, todo, cur, tally, connVars, clock,
                 disruptions, historyVars>>

\* job = await orchestrator.process_document(doc.doc_id, content)
ProcessReturns(r) ==
  /\ pc[r] = "process"
  /\ \E outcome \in Terminal : job' = [job EXCEPT ![r] = outcome]
  /\ pc' = [pc EXCEPT ![r] = "store"]
  /\ UNCHANGED <<pgVars, streamVars, queue, held, todo, cur, tally, connVars, clock,
                 disruptions, historyVars>>

\* process_document raises: Redis failed where the orchestrator does not catch.
ProcessRaises(r) ==
  /\ Disrupt
  /\ pc[r] = "process"
  /\ EndTurn(r, cur[r])
  /\ CountFailed(r)
  /\ UNCHANGED <<pgVars, streamVars, queue, held, connVars, clock, historyVars>>

\* Mutant: succeeded is counted before the write instead of after it.
StoreResult_CountsFirst(r) ==
  /\ pc[r] = "store"
  /\ IF job[r] = "completed" THEN CountSucceeded(r) ELSE CountFailed(r)
  /\ \/ WriteState(r, cur[r], job[r]) /\ NoteStored(r)
     \/ /\ r \in dead
        /\ UNCHANGED <<pgVars, connVars, wrote>>
  /\ EndTurn(r, cur[r])
  /\ UNCHANGED <<streamVars, queue, held, clock, disruptions, unread>>

\* document_store.update_document(updated_doc): written unconditionally.
StoreResult(r) ==
  /\ pc[r] = "store"
  /\ \/ /\ WriteState(r, cur[r], job[r])
        /\ IF job[r] = "completed" THEN CountSucceeded(r) ELSE CountFailed(r)
        /\ NoteStored(r)
     \/ /\ r \in dead
        /\ CountFailed(r)
        /\ UNCHANGED <<pgVars, connVars, wrote>>
  /\ EndTurn(r, cur[r])
  /\ UNCHANGED <<streamVars, queue, held, clock, disruptions, unread>>

\* The connection is lost between the commit at the server and its answer:
\* update_document raises, and a document that is stored counts as failed.
StoreResultUnanswered(r) ==
  /\ Disrupt
  /\ pc[r] = "store"
  /\ CommitState(r, cur[r], job[r])
  /\ dead' = dead \cup {r}
  /\ NoteStored(r)
  /\ CountFailed(r)
  /\ EndTurn(r, cur[r])
  /\ UNCHANGED <<streamVars, queue, held, clock, unread>>

(***************************************************************************)
(* Batch runs.                                                             *)
(***************************************************************************)
\* pending_docs = document_store.query_pending(limit) on a connection of its
\* own; with nothing pending the run returns three zeros at once.
StartBatch(b) ==
  /\ pc[b] = "idle"
  /\ \E T \in {Pending} \cup UNION {OldestN(Pending, n) : n \in 1 .. Cardinality(Docs)} :
       /\ todo' = [todo EXCEPT ![b] = T]
       /\ pc' = [pc EXCEPT ![b] = IF T = {} THEN "idle" ELSE "content"]
       /\ txn' = [txn EXCEPT ![b] = IF T = {} THEN NoTxn ELSE clock]
  /\ dead' = dead \ {b}
  /\ tally' = [tally EXCEPT ![b] = ZeroTally]
  /\ wrote' = [wrote EXCEPT ![b] = {}]
  /\ UNCHANGED <<pgVars, streamVars, queue, held, cur, job, clock, disruptions, unread>>

\* The CLI is killed or the API process dies: no report.
CrashBatch(b) ==
  /\ Disrupt
  /\ pc[b] # "idle"
  /\ pc' = [pc EXCEPT ![b] = "idle"]
  /\ todo' = [todo EXCEPT ![b] = {}]
  /\ cur' = [cur EXCEPT ![b] = None]
  /\ job' = [job EXCEPT ![b] = None]
  /\ tally' = [tally EXCEPT ![b] = ZeroTally]
  /\ wrote' = [wrote EXCEPT ![b] = {}]
  /\ Connect(b)
  /\ UNCHANGED <<pgVars, streamVars, queue, held, clock, unread>>

(***************************************************************************)
(* Workers.                                                                *)
(***************************************************************************)
Goto(w, label) == pc' = [pc EXCEPT ![w] = label]

\* A worker that is not running: "down" after a crash, or before compose first
\* starts it; "stopped" by hand, which compose leaves alone.
Off == {"down", "stopped"}

\* main: the group is created at 0-0 unless it exists; the consumer name is new.
StartWorker(w) ==
  /\ pc[w] \in Off
  /\ Goto(w, "idle")
  /\ Connect(w)
  /\ UNCHANGED <<pgVars, streamVars, queue, held, todo, cur, job, tally, clock,
                 disruptions, historyVars>>

\* Mutant: the consumer is deleted on the way out, its pending entries with it.
Abandon_DeletesConsumer(w) ==
  /\ pel' = [pel EXCEPT ![w] = {}]
  /\ held' = [held EXCEPT ![w] = NoMessage]
  /\ todo' = [todo EXCEPT ![w] = {}]
  /\ cur' = [cur EXCEPT ![w] = None]
  /\ job' = [job EXCEPT ![w] = None]
  /\ Connect(w)
  /\ UNCHANGED <<pgVars, outbox, stream, orphaned, acked, dropped, queue, tally, clock,
                 historyVars>>

\* The process is gone: what is pending under its name is nobody's any more.
Abandon(w) ==
  /\ orphaned' = orphaned \cup pel[w]
  /\ pel' = [pel EXCEPT ![w] = {}]
  /\ held' = [held EXCEPT ![w] = NoMessage]
  /\ todo' = [todo EXCEPT ![w] = {}]
  /\ cur' = [cur EXCEPT ![w] = None]
  /\ job' = [job EXCEPT ![w] = None]
  /\ Connect(w)
  /\ UNCHANGED <<pgVars, outbox, stream, acked, dropped, queue, tally, clock, historyVars>>

\* `docker compose stop`: SIGTERM sets _stop_flag; run looks at it only between
\* two polls.
StopWorker(w) ==
  /\ Disrupt
  /\ pc[w] = "idle"
  /\ Goto(w, "stopped")
  /\ Abandon(w)

CrashWorker(w) ==
  /\ Disrupt
  /\ pc[w] \notin Off
  /\ Goto(w, "down")
  /\ Abandon(w)

\* Mutant: XREADGROUP with NOACK.
Deliver_NoAck(w) ==
  /\ EventsEnabled
  /\ pc[w] = "idle"
  /\ stream # <<>>
  /\ stream' = Tail(stream)
  /\ acked' = acked \cup {Head(stream)}
  /\ UNCHANGED <<pgVars, outbox, pel, orphaned, dropped, queue, todo, cur, job, tally,
                 connVars, clock, historyVars>>

\* XREADGROUP: the group hands the oldest undelivered entry to the consumer.
Deliver(w) ==
  /\ EventsEnabled
  /\ pc[w] = "idle"
  /\ stream # <<>>
  /\ stream' = Tail(stream)
  /\ pel' = [pel EXCEPT ![w] = @ \cup {Head(stream)}]
  /\ UNCHANGED <<pgVars, outbox, orphaned, acked, dropped, queue, todo, cur, job, tally,
                 connVars, clock, historyVars>>

\* XREADGROUP ">" COUNT 1 returns the next entry.
ReadEvent(w) ==
  /\ Deliver(w)
  /\ held' = [held EXCEPT ![w] = Event(Head(stream))]
  /\ Goto(w, "resolve")
  /\ UNCHANGED disruptions

\* The group delivers the entry, but the reply is lost or does not parse:
\* poll_once swallows the exception and nothing ever reads the entry again.
ReadEventFails(w) ==
  /\ Disrupt
  /\ Deliver(w)
  /\ UNCHANGED <<pc, held>>

\* Mutant: a poll may turn to the list although the stream has entries.
ReadNothing_SkipsStream(w) ==
  /\ pc[w] = "idle"
  /\ Goto(w, "blpop")
  /\ UNCHANGED <<pgVars, streamVars, queue, held, todo, cur, job, tally, connVars, clock,
                 disruptions, historyVars>>

\* The read returns nothing (or there is no consumer): poll the list next.
ReadNothing(w) ==
  /\ pc[w] = "idle"
  /\ EventsEnabled => stream = <<>>
  /\ Goto(w, "blpop")
  /\ UNCHANGED <<pgVars, streamVars, queue, held, todo, cur, job, tally, connVars, clock,
                 disruptions, historyVars>>

\* BLPOP times out.
PopNothing(w) ==
  /\ pc[w] = "blpop"
  /\ queue = <<>>
  /\ Goto(w, "idle")
  /\ UNCHANGED <<pgVars, streamVars, queue, held, todo, cur, job, tally, connVars, clock,
                 disruptions, historyVars>>

\* BLPOP takes the job off the list; a malformed one is logged and forgotten.
PopJob(w) ==
  /\ pc[w] = "blpop"
  /\ queue # <<>>
  /\ queue' = Tail(queue)
  /\ \/ /\ Head(queue) = Malformed
        /\ Goto(w, "idle")
        /\ UNCHANGED held
     \/ /\ Head(queue) # Malformed
        /\ Goto(w, "resolve")
        /\ held' = [held EXCEPT ![w] = ListJob(Head(queue))]
  /\ UNCHANGED <<pgVars, streamVars, todo, cur, job, tally, connVars, clock,
                 disruptions, historyVars>>

\* Mutant: only the first pending document is fetched and compared.
Resolve_FirstOnly(w) ==
  /\ pc[w] = "resolve"
  /\ Select(w)
  /\ \E T \in OldestN(Pending, 1) :
       /\ todo' = [todo EXCEPT ![w] = T \cap {held[w].doc}]
       /\ Goto(w, IF held[w].doc \in T THEN "content" ELSE "settle")
  /\ UNCHANGED <<pgVars, streamVars, queue, held, cur, job, tally, clock, disruptions,
                 historyVars>>

\* Mutant: the document is taken from the message, not from the table.
Resolve_TrustsMessage(w) ==
  /\ pc[w] = "resolve"
  /\ Select(w)
  /\ todo' = [todo EXCEPT ![w] = {held[w].doc}]
  /\ Goto(w, "content")
  /\ UNCHANGED <<pgVars, streamVars, queue, held, cur, job, tally, clock, disruptions,
                 historyVars>>

\* Mutant: the ids are compared as text and UUID, so that none is ever found.
Resolve_NeverFinds(w) ==
  /\ pc[w] = "resolve"
  /\ Select(w)
  /\ Goto(w, "settle")
  /\ UNCHANGED <<pgVars, streamVars, queue, held, todo, cur, job, tally, clock, disruptions,
                 historyVars>>

\* SingleDocExtractorAdapter.execute: look the document up among the pending
\* ones.  Not there, or the query raises: the caller logs and goes on.
Resolve(w) ==
  /\ pc[w] = "resolve"
  /\ \/ /\ Select(w)
        /\ held[w].doc \in Pending
        /\ todo' = [todo EXCEPT ![w] = {held[w].doc}]
        /\ Goto(w, "content")
     \/ /\ Select(w)
        /\ held[w].doc \notin Pending
        /\ Goto(w, "settle")
        /\ UNCHANGED todo
     \/ /\ w \in dead
        /\ Goto(w, "settle")
        /\ UNCHANGED <<todo, connVars>>
  /\ UNCHANGED <<pgVars, streamVars, queue, held, cur, job, tally, clock, disruptions,
                 historyVars>>

FinishPoll(w) ==
  /\ pc[w] = "settle"
  /\ Goto(w, "idle")
  /\ held' = [held EXCEPT ![w] = NoMessage]
  /\ UNCHANGED <<pgVars, outbox, stream, orphaned, dropped, queue, todo, cur, job,
                 tally, connVars,
                 clock, historyVars>>

\* The end of _process_stream_events: XACK, whatever became of the extraction.
\* A list job needs no acknowledgement.
Settle(w) ==
  /\ FinishPoll(w)
  /\ IF held[w].kind = "event"
     THEN /\ acked' = acked \cup {held[w].doc}
          /\ pel' = [pel EXCEPT ![w] = @ \ {held[w].doc}]
     ELSE UNCHANGED <<acked, pel>>
  /\ UNCHANGED disruptions

\* The XACK raises: poll_once swallows it and the entry stays pending.
SettleFails(w) ==
  /\ Disrupt
  /\ held[w].kind = "event"
  /\ FinishPoll(w)
  /\ UNCHANGED <<acked, pel>>

(***************************************************************************)
(* Reprocess runs.                                                         *)
(***************************************************************************)
\* query_by_date(since): the rows whose stamp is not older than `since`.
ModifiedSince(since) == {d \in Docs : Row(d) /\ updatedAt[d] >= since}

\* ReprocessUseCase.execute up to its loop; `since` may not be in the future.
StartReprocess(p, since) ==
  /\ pc[p] = "idle"
  /\ since <= clock
  /\ todo' = [todo EXCEPT ![p] = ModifiedSince(since)]
  /\ pc' = [pc EXCEPT ![p] = IF ModifiedSince(since) = {} THEN "idle" ELSE "reset"]
  /\ txn' = [txn EXCEPT ![p] = IF ModifiedSince(since) = {} THEN NoTxn ELSE clock]
  /\ dead' = dead \ {p}
  /\ UNCHANGED <<pgVars, streamVars, queue, held, cur, job, tally, clock, disruptions,
                 historyVars>>

\* One turn of the loop: update_document with PENDING, in its own transaction.
\* (The list is ordered by updated_at as it was; any order is allowed here.  A
\* commit whose answer is lost is this step and then AbortReprocess.)
ResetOne(p) ==
  /\ pc[p] = "reset"
  /\ \E d \in todo[p] :
       /\ WriteState(p, d, "pending")
       /\ unread' = unread \cup {d}
       /\ todo' = [todo EXCEPT ![p] = @ \ {d}]
       /\ pc' = [pc EXCEPT ![p] = IF todo[p] = {d} THEN "idle" ELSE "reset"]
  /\ UNCHANGED <<streamVars, queue, held, cur, job, tally, clock, disruptions, wrote>>

\* A statement raises or the process dies: the documents left keep their state.
AbortReprocess(p) ==
  /\ pc[p] = "reset"
  /\ \/ Disrupt
     \/ p \in dead /\ UNCHANGED disruptions
  /\ pc' = [pc EXCEPT ![p] = "idle"]
  /\ todo' = [todo EXCEPT ![p] = {}]
  /\ Connect(p)
  /\ UNCHANGED <<pgVars, streamVars, queue, held, cur, job, tally, clock, historyVars>>

(***************************************************************************)
(* Environment.                                                            *)
(***************************************************************************)
\* PostgreSQL drops the connection: psycopg2 raises on every later statement,
\* and nothing reconnects before the process (worker) or the run ends.
LoseConnection(c) ==
  /\ Disrupt
  /\ pc[c] \notin (IF c \in Workers THEN Off ELSE {"idle"})
  /\ c \notin dead
  /\ dead' = dead \cup {c}
  /\ txn' = [txn EXCEPT ![c] = NoTxn]
  /\ UNCHANGED <<pgVars, streamVars, queue, runVars, clock, historyVars>>

Tick ==
  /\ clock < MaxClock
  /\ clock' = clock + 1
  /\ UNCHANGED <<pgVars, streamVars, queue, runVars, connVars, disruptions, historyVars>>

(***************************************************************************)
(* Specification.                                                          *)
(***************************************************************************)
RunnerStep(r) ==
  \/ GetContent(r)
  \/ ProcessReturns(r)
  \/ StoreResult(r)

Restart(w) == pc[w] = "down" /\ StartWorker(w)

WorkerStep(w) ==
  \/ ReadEvent(w)
  \/ ReadNothing(w)
  \/ PopNothing(w)
  \/ PopJob(w)
  \/ Resolve(w)
  \/ Settle(w)

Next ==
  \/ \E d \in Docs : Ingest(d) \/ IngestDuplicate(d) \/ Publish(d) \/ PublishLost(d)
  \/ \E x \in Docs \cup {Malformed} : Enqueue(x)
  \/ \E r \in Runners : RunnerStep(r) \/ ProcessRaises(r) \/ StoreResultUnanswered(r)
  \/ \E b \in Batches : StartBatch(b) \/ CrashBatch(b)
  \/ \E w \in Workers : WorkerStep(w) \/ StartWorker(w)
  \/ \E w \in Workers : StopWorker(w) \/ CrashWorker(w) \/ ReadEventFails(w) \/ SettleFails(w)
  \/ \E p \in Reprocessors : \E since \in Time : StartReprocess(p, since)
  \/ \E p \in Reprocessors : ResetOne(p) \/ AbortReprocess(p)
  \/ \E c \in Connections : LoseConnection(c)
  \/ Tick

vars == <<docs, ingestedAt, updatedAt, outbox, stream, pel, orphaned, acked, dropped, queue,
          pc, held, todo, cur, job, tally, txn, dead, clock, disruptions,
          modifiedAt, unread, wrote>>

Spec == Init /\ [][Next]_vars

\* What the processes' own loops justify: a started process keeps taking steps,
\* the event loop runs a created task, and compose (restart: unless-stopped)
\* restarts a worker that died, not one that was stopped.
Fairness ==
  /\ \A d \in Docs : WF_vars(Publish(d))
  /\ \A r \in Runners : WF_vars(RunnerStep(r))
  /\ \A w \in Workers : WF_vars(WorkerStep(w)) /\ WF_vars(Restart(w))
  /\ \A p \in Reprocessors : WF_vars(ResetOne(p) \/ AbortReprocess(p))

FairSpec == Spec /\ Fairness

(***************************************************************************)
(* Properties.                                                             *)
(***************************************************************************)
WorkerPCs == Off \cup {"idle", "blpop", "resolve", "content", "process", "store", "settle"}
BatchPCs == {"idle", "content", "process", "store"}
ReprocessPCs == {"idle", "reset"}

PgType ==
  /\ docs \in [Docs -> DocState]
  /\ ingestedAt \in [Docs -> Time]
  /\ updatedAt \in [Docs -> Time]
  /\ modifiedAt \in [Docs -> Time]

StreamType ==
  /\ outbox \subseteq Docs
  /\ stream \in Seq(Docs)
  /\ pel \in [Workers -> SUBSET Docs]
  /\ orphaned \subseteq Docs
  /\ acked \subseteq Docs
  /\ dropped \subseteq Docs

RunType ==
  /\ pc \in [Connections -> WorkerPCs \cup ReprocessPCs]
  /\ held \in [Workers -> Messages]
  /\ todo \in [Connections -> SUBSET Docs]
  /\ cur \in [Runners -> Docs \cup {None}]
  /\ job \in [Runners -> Terminal \cup {None}]
  /\ tally \in [Batches -> [processed : Nat, succeeded : Nat, failed : Nat]]

ConnType ==
  /\ txn \in [Connections -> Time \cup {NoTxn}]
  /\ dead \subseteq Connections

HistoryType ==
  /\ unread \subseteq Docs
  /\ wrote \in [Batches -> SUBSET Docs]

\* Type invariant.
TypeOK ==
  /\ PgType /\ StreamType /\ RunType /\ ConnType /\ HistoryType
  /\ queue \in Seq(Docs \cup {Malformed})
  /\ clock \in Time
  /\ disruptions \in 0 .. MaxDisruptions

\* Documents whose event is still undelivered; pending under a running consumer.
Undelivered == {stream[i] : i \in 1 .. Len(stream)}
Delivered == UNION {pel[w] : w \in Workers}

\* Every event ingestion handed to a publish task is in exactly one place: its
\* task, the undelivered part of the stream, the pending list of one consumer
\* (running or not), the acknowledged entries, or among those known to be lost.
\* No interleaving of reads, crashes, restarts and XACKs duplicates an entry or
\* loses it between two of these places.
EventInOnePlace ==
  LET Places == <<outbox, Undelivered, Delivered, orphaned, acked, dropped>>
  IN  /\ \A i, j \in 1 .. 6 : i # j => Places[i] \cap Places[j] = {}
      /\ \A i, j \in 1 .. Len(stream) : i # j => stream[i] # stream[j]
      /\ \A v, w \in Workers : v # w => pel[v] \cap pel[w] = {}
      /\ EventsEnabled =>
           {d \in Docs : docs[d] # "absent"} = UNION {Places[i] : i \in 1 .. 6}

\* The worker acknowledges last: as long as an event is being handled it is
\* pending in Redis under the name of the worker that handles it, so a crash
\* at any point of the extraction leaves a trace of the event.
HandledEventIsPending ==
  \A w \in Workers : held[w].kind = "event" => held[w].doc \in pel[w]

\* An acknowledged event whose document is still PENDING, although no call
\* failed and no process was stopped, means that a reprocess run put the
\* document back: either nobody has read it since, or a runner has it now.
AckedThenExtracted ==
  \A d \in acked :
    docs[d] = "pending" /\ disruptions = 0 =>
      d \in unread \/ \E r \in Runners : cur[r] = d

\* The counters a batch run reports against the database, whatever failed on
\* the way: no document counts as succeeded that is not stored as completed; at
\* most one that is stored counts as failed, and only by a run that has lost its
\* connection (with the answer to that commit); each is counted once.
ReportMatchesWrites ==
  \A b \in Batches :
    /\ tally[b].succeeded <= Cardinality(wrote[b])
    /\ Cardinality(wrote[b]) <= tally[b].succeeded + (IF b \in dead THEN 1 ELSE 0)
    /\ tally[b].processed = tally[b].succeeded + tally[b].failed
    /\ tally[b].processed + Cardinality(todo[b]) <= Cardinality(Docs)

\* A document in a runner's hands, or on its list, has a row: an event for a
\* duplicate's doc_id, or a job for an unknown one, never gets that far.
OnlyRowsAreExtracted ==
  \A p \in Connections : \A d \in todo[p] : Row(d)

\* Documentation of the reprocess query: "Documents modified since the
\* specified date".  Every row really written at or after the date is selected.
ReprocessSelectsModified ==
  [][\A p \in Reprocessors, since \in Time :
       StartReprocess(p, since) =>
         \A d \in Docs : Row(d) /\ modifiedAt[d] >= since => d \in todo'[p]]_vars

\* Documentation of ReprocessUseCase: it "queues documents for re-extraction".
\* A document that was reset stays PENDING until somebody reads it again.
ResetLeadsToReextraction ==
  \A d \in unread : docs[d] = "pending"

\* Every batch run ends, whatever fails on the way; so does every reprocess run.
RunsEnd ==
  \A p \in Batches \cup Reprocessors : pc[p] # "idle" ~> pc[p] = "idle"

\* Every published event leaves the stream, even if workers crash and whenever
\* they are stopped and started again, unless all are stopped for good.
StreamDrains ==
  \A d \in Docs :
    d \in Undelivered ~> d \notin Undelivered \/ [](\A w \in Workers : pc[w] = "stopped")

\* With events enabled an ingested document reaches a terminal state by itself,
\* unless its event was lost, a call failed or a process was stopped on the way.
IngestedIsExtracted ==
  \A d \in Docs :
    d \in outbox /\ docs[d] = "pending" ~>
      docs[d] \in Terminal \/ d \in dropped \/ disruptions > 0
=============================================================================
