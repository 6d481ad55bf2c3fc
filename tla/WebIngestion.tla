---------------------------- MODULE WebIngestion ----------------------------
(***************************************************************************)
(* IngestWebUseCase.execute, run by POST /ingest (a background task of the *)
(* API process, with a record in rag.ingestion_jobs) and by the CLI        *)
(* (without one): crawl, and for every page normalise, chunk and store the *)
(* document in PostgreSQL; embed and upsert the chunks to Qdrant when      *)
(* enough have piled up and once more at the end.                          *)
(*                                                                         *)
(* The two stores share no transaction.  A document is committed with its  *)
(* page, its chunks reach Qdrant in batches afterwards, and any exception  *)
(* in between leaves what was written and ends the job as FAILED.  Jobs    *)
(* run at the same time and may crawl the same pages: PostgreSQL keeps one *)
(* row per content_hash, whereas doc_id and chunk_id are fresh UUIDs.      *)
(*                                                                         *)
(* A write that raises may have been applied.  Embedding changes no store: *)
(* when it fails, the upsert fails before its first batch.                 *)
(***************************************************************************)
EXTENDS Naturals, Sequences, FiniteSets

CONSTANTS
  Jobs,            \* runs of the use case
  ApiJobs,         \* those started by POST /ingest
  Contents,        \* contents of pages (their content_hash)
  Pages,           \* what crawling the job's URL returns
  ChunkCount,      \* number of chunks the chunker cuts a content into
  FlushThreshold,  \* ingest_flush_threshold
  BatchSize,       \* batch_size of QdrantWriter
  MaxFailures      \* bound: exceptions and crashes in a behaviour

ASSUME IngestionAssumption ==
  /\ ApiJobs \subseteq Jobs
  /\ Pages \in [Jobs -> Seq(Contents)]
  /\ ChunkCount \in [Contents -> Nat]
  /\ FlushThreshold \in Nat \ {0}
  /\ BatchSize \in Nat \ {0}
  /\ MaxFailures \in Nat

VARIABLES
  pc,         \* where each job is
  job,        \* the job object in memory
  record,     \* its row in rag.ingestion_jobs
  buffer,     \* all_chunks: chunks not flushed yet
  upserted,   \* how many of them the running flush has written
  stored,     \* doc_id of the row that holds each content
  points,     \* chunk_ids in Qdrant
  failures

localVars == <<job, buffer, upserted>>
vars == <<pc, localVars, record, stored, points, failures>>

None == "none"
NewJob == [state |-> "pending", pages |-> 0, chunks |-> 0]
NoDoc == <<>>
NoRecord == [state |-> None, pages |-> 0, chunks |-> 0]

(***************************************************************************)
(* A document is named by its job and page, a chunk by its position too.   *)
(***************************************************************************)
PagesOf(j) == 1 .. Len(Pages[j])
ContentOf(j, i) == Pages[j][i]
DocIds == Jobs \X Nat
ChunkIds == Jobs \X Nat \X Nat
ChunksOf(j, i) == [k \in 1 .. ChunkCount[ContentOf(j, i)] |-> <<j, i, k>>]
Indexed(j, i) == \A k \in 1 .. ChunkCount[ContentOf(j, i)] : <<j, i, k>> \in points

Init ==
  /\ pc = [j \in Jobs |-> "new"]
  /\ job = [j \in Jobs |-> NewJob]
  /\ record = [j \in Jobs |-> NoRecord]
  /\ buffer = [j \in Jobs |-> <<>>]
  /\ upserted = [j \in Jobs |-> 0]
  /\ stored = [c \in Contents |-> NoDoc]
  /\ points = {}
  /\ failures = 0

Goto(j, label) == pc' = [pc EXCEPT ![j] = label]

Fail ==
  /\ failures < MaxFailures
  /\ failures' = failures + 1

\* The SQL statement on the job's row raises, before or after its commit.
RecordFails(j, r) == \E x \in {record[j], r} : record' = [record EXCEPT ![j] = x]

(***************************************************************************)
(* POST /ingest and the CLI.                                               *)
(***************************************************************************)
\* The row is committed as PENDING and the background task queued.
Accept(j) ==
  /\ pc[j] = "new"
  /\ j \in ApiJobs
  /\ record' = [record EXCEPT ![j] = NewJob]
  /\ Goto(j, "queued")
  /\ UNCHANGED <<localVars, stored, points, failures>>

\* The request fails: the INSERT raises, or what comes after it
\* (get_ingest_use_case), and no task is queued.
Refuse(j) ==
  /\ Fail
  /\ pc[j] = "new"
  /\ j \in ApiJobs
  /\ RecordFails(j, NewJob)
  /\ Goto(j, "refused")
  /\ UNCHANGED <<localVars, stored, points>>

RunCli(j) ==
  /\ pc[j] = "new"
  /\ j \notin ApiJobs
  /\ Goto(j, "queued")
  /\ UNCHANGED <<localVars, record, stored, points, failures>>

(***************************************************************************)
(* execute.                                                                *)
(***************************************************************************)
\* _transition_to_failed: every except block ends the job.  The lists of the
\* interrupted run are dropped.
FailJob(j) ==
  /\ Fail
  /\ job' = [job EXCEPT ![j].state = "failed"]
  /\ buffer' = [buffer EXCEPT ![j] = <<>>]
  /\ upserted' = [upserted EXCEPT ![j] = 0]
  /\ Goto(j, "report")

\* _transition_to_running (in memory only), then the crawl.
Load(j) ==
  /\ pc[j] = "queued"
  /\ job' = [job EXCEPT ![j].state = "running"]
  /\ Goto(j, "pages")
  /\ UNCHANGED <<buffer, upserted, record, stored, points, failures>>

LoadFails(j) ==
  /\ pc[j] = "queued"
  /\ FailJob(j)
  /\ UNCHANGED <<record, stored, points>>

NextPage(j) == job[j].pages + 1

\* document_store.create: row and content in one transaction, or nothing if
\* the content is stored already, whichever doc_id it has.
Create(j) ==
  LET c == ContentOf(j, NextPage(j))
  IN  stored' = [stored EXCEPT ![c] = IF @ = NoDoc THEN <<j, NextPage(j)>> ELSE @]

\* _process_document and its place in the loop.  The chunks carry the new
\* doc_id even if no row was inserted for it.
ReadPage(j) ==
  LET all == buffer[j] \o ChunksOf(j, NextPage(j))
  IN  /\ pc[j] = "pages"
      /\ NextPage(j) \in PagesOf(j)
      /\ Create(j)
      /\ buffer' = [buffer EXCEPT ![j] = all]
      /\ job' = [job EXCEPT ![j].pages = @ + 1]
      /\ Goto(j, IF Len(all) >= FlushThreshold THEN "flush" ELSE "pages")
      /\ UNCHANGED <<upserted, record, points, failures>>

\* Mutant: when create raises, the chunks go on without it.
ReadPageFails_Continues(j) ==
  /\ Fail
  /\ pc[j] = "pages"
  /\ NextPage(j) \in PagesOf(j)
  /\ buffer' = [buffer EXCEPT ![j] = @ \o ChunksOf(j, NextPage(j))]
  /\ job' = [job EXCEPT ![j].pages = @ + 1]
  /\ UNCHANGED <<pc, upserted, record, stored, points>>

\* Normalising or chunking raises, or create does, with its commit applied or not.
ReadPageFails(j) ==
  /\ pc[j] = "pages"
  /\ NextPage(j) \in PagesOf(j)
  /\ Create(j) \/ UNCHANGED stored
  /\ FailJob(j)
  /\ UNCHANGED <<record, points>>

\* After the last page: if all_chunks is not empty, flush it.
FinalFlush(j) ==
  /\ pc[j] = "pages"
  /\ NextPage(j) \notin PagesOf(j)
  /\ buffer[j] # <<>>
  /\ Goto(j, "flush")
  /\ UNCHANGED <<localVars, record, stored, points, failures>>

\* One batch of upsert_batch_async: chunks[start_idx:end_idx].
BatchEnd(j) ==
  IF upserted[j] + BatchSize < Len(buffer[j]) THEN upserted[j] + BatchSize ELSE Len(buffer[j])

Batch(j) == {buffer[j][i] : i \in upserted[j] + 1 .. BatchEnd(j)}

\* Mutant: chunks_created grows with every batch instead of every flush.
UpsertBatch_CountsTwice(j) ==
  /\ pc[j] = "flush"
  /\ points' = points \cup Batch(j)
  /\ job' = [job EXCEPT ![j].chunks = @ + Len(buffer[j])]
  /\ IF BatchEnd(j) < Len(buffer[j])
     THEN /\ upserted' = [upserted EXCEPT ![j] = BatchEnd(j)]
          /\ UNCHANGED <<pc, buffer>>
     ELSE /\ upserted' = [upserted EXCEPT ![j] = 0]
          /\ buffer' = [buffer EXCEPT ![j] = <<>>]
          /\ Goto(j, "pages")
  /\ UNCHANGED <<record, stored, failures>>

\* Mutant: the batches never get past the first.
UpsertBatch_SameBatch(j) ==
  /\ pc[j] = "flush"
  /\ points' = points \cup Batch(j)
  /\ IF BatchEnd(j) < Len(buffer[j])
     THEN UNCHANGED <<pc, job, buffer, upserted>>
     ELSE /\ upserted' = [upserted EXCEPT ![j] = 0]
          /\ job' = [job EXCEPT ![j].chunks = @ + Len(buffer[j])]
          /\ buffer' = [buffer EXCEPT ![j] = <<>>]
          /\ Goto(j, "pages")
  /\ UNCHANGED <<record, stored, failures>>

\* The last batch ends the flush: the chunks are counted and the list renewed.
UpsertBatch(j) ==
  /\ pc[j] = "flush"
  /\ points' = points \cup Batch(j)
  /\ IF BatchEnd(j) < Len(buffer[j])
     THEN /\ upserted' = [upserted EXCEPT ![j] = BatchEnd(j)]
          /\ UNCHANGED <<pc, job, buffer>>
     ELSE /\ upserted' = [upserted EXCEPT ![j] = 0]
          /\ job' = [job EXCEPT ![j].chunks = @ + Len(buffer[j])]
          /\ buffer' = [buffer EXCEPT ![j] = <<>>]
          /\ Goto(j, "pages")
  /\ UNCHANGED <<record, stored, failures>>

\* Embedding or an upsert raises: the batches before it stay.
UpsertFails(j) ==
  /\ pc[j] = "flush"
  /\ points' \in {points, points \cup Batch(j)}
  /\ FailJob(j)
  /\ UNCHANGED <<record, stored>>

\* Mutant: the job completes without the last flush.
Complete_NoFinalFlush(j) ==
  /\ pc[j] = "pages"
  /\ NextPage(j) \notin PagesOf(j)
  /\ job' = [job EXCEPT ![j].state = "completed"]
  /\ Goto(j, "report")
  /\ UNCHANGED <<buffer, upserted, record, stored, points, failures>>

\* Mutant: the job is reported as it is.
Complete_StillRunning(j) ==
  /\ pc[j] = "pages"
  /\ NextPage(j) \notin PagesOf(j)
  /\ buffer[j] = <<>>
  /\ Goto(j, "report")
  /\ UNCHANGED <<localVars, record, stored, points, failures>>

Complete(j) ==
  /\ pc[j] = "pages"
  /\ NextPage(j) \notin PagesOf(j)
  /\ buffer[j] = <<>>
  /\ job' = [job EXCEPT ![j].state = "completed"]
  /\ Goto(j, "report")
  /\ UNCHANGED <<buffer, upserted, record, stored, points, failures>>

(***************************************************************************)
(* _execute_ingestion_job after execute, and crashes.                      *)
(***************************************************************************)
\* Mutant: the row is updated for a failed job only.
Report_FailedOnly(j) ==
  /\ pc[j] = "report"
  /\ record' = IF j \in ApiJobs /\ job[j].state = "failed"
               THEN [record EXCEPT ![j] = job[j]] ELSE record
  /\ Goto(j, "done")
  /\ UNCHANGED <<localVars, stored, points, failures>>

\* job_store.update; the CLI prints the job.
Report(j) ==
  /\ pc[j] = "report"
  /\ record' = IF j \in ApiJobs THEN [record EXCEPT ![j] = job[j]] ELSE record
  /\ Goto(j, "done")
  /\ UNCHANGED <<localVars, stored, points, failures>>

\* The UPDATE raises: it is logged, and the row stays as it is.
ReportFails(j) ==
  /\ Fail
  /\ pc[j] = "report"
  /\ j \in ApiJobs
  /\ RecordFails(j, job[j])
  /\ Goto(j, "done")
  /\ UNCHANGED <<localVars, stored, points>>

Running(j) == pc[j] \in {"queued", "pages", "flush", "report"}

\* The process dies; background tasks are not resumed.
Crash(j) ==
  /\ Fail
  /\ Running(j)
  /\ Goto(j, "dead")
  /\ UNCHANGED <<localVars, record, stored, points>>

(***************************************************************************)
(* Specification.                                                          *)
(***************************************************************************)
Step(j) ==
  Load(j) \/ ReadPage(j) \/ FinalFlush(j) \/ UpsertBatch(j) \/ Complete(j) \/ Report(j)

Failure(j) ==
  Refuse(j) \/ LoadFails(j) \/ ReadPageFails(j) \/ UpsertFails(j) \/ ReportFails(j) \/ Crash(j)

Next == \E j \in Jobs : Accept(j) \/ RunCli(j) \/ Step(j) \/ Failure(j)

Spec == Init /\ [][Next]_vars

\* A queued background task is run, and the calls it makes return or raise
\* (HTTP clients and psycopg2 have timeouts or fail with their connection).
FairSpec == Spec /\ \A j \in Jobs : WF_vars(Step(j))

(***************************************************************************)
(* Properties.                                                             *)
(***************************************************************************)
JobObject == [state : {"pending", "running", "completed", "failed"}, pages : Nat, chunks : Nat]
PointsOf(j) == {p \in points : p[1] = j}

\* Type invariant.  RUNNING is a state of the job object, never of its row.
TypeOK ==
  /\ pc \in [Jobs -> {"new", "queued", "pages", "flush", "report", "done", "refused", "dead"}]
  /\ job \in [Jobs -> JobObject]
  /\ record \in [Jobs -> {r \in JobObject : r.state # "running"} \cup {NoRecord}]
  /\ buffer \in [Jobs -> Seq(ChunkIds)]
  /\ upserted \in [Jobs -> Nat]
  /\ stored \in [Contents -> DocIds \cup {NoDoc}]
  /\ points \subseteq ChunkIds
  /\ failures \in 0 .. MaxFailures

\* A job reported as COMPLETED has been ingested as a whole: every page's
\* content is stored, every chunk of every page is in Qdrant, and the counts
\* the API shows are the true ones, whatever other jobs and flushes did.
CompletedIsIndexed ==
  \A j \in Jobs :
    record[j].state = "completed" =>
      /\ \A i \in PagesOf(j) : Indexed(j, i) /\ stored[ContentOf(j, i)] # NoDoc
      /\ record[j].pages = Len(Pages[j])

\* The counts of a reported job never exceed what is in the stores, and those of
\* a COMPLETED one are exact: a flush that failed half-way is not counted.
CountsAreTrue ==
  \A j \in Jobs :
    /\ record[j].chunks <= Cardinality(PointsOf(j))
    /\ record[j].state = "completed" => record[j].chunks = Cardinality(PointsOf(j))

\* A vector never exists without its content in PostgreSQL: the document is
\* committed before its chunks are flushed, on every path.
PointsAreStored ==
  \A p \in points : stored[ContentOf(p[1], p[2])] # NoDoc

\* Every job that was started ends, whatever fails on the way.
JobsEnd ==
  \A j \in Jobs : Running(j) ~> pc[j] \in {"done", "dead"}

\* An accepted job's row gets a final state, unless something failed on the way.
JobsSettle ==
  \A j \in ApiJobs :
    pc[j] = "queued" ~> record[j].state \in {"completed", "failed"} \/ failures > 0

\* Specified for ingesting a URL again: duplicate content is skipped, or its
\* chunks are updated.  Qdrant then holds one copy of every content.
OneCopyPerContent ==
  \A p, q \in points :
    ContentOf(p[1], p[2]) = ContentOf(q[1], q[2]) /\ p[3] = q[3] => p = q
=============================================================================
