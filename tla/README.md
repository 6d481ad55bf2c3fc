# Formal model of Taboot

Taboot ingests documents into PostgreSQL and Qdrant, extracts entities and
relations from them in three tiers, and answers questions from a graph and a
vector store. This directory holds TLA+ models of the parts where several
processes share state or where a failure in the middle matters, the TLC runs
that check them on small instances, and TLAPS proofs about the models for every
value of their constants. Paths below are relative to the repository.

## 1. Inventory

### Ingestion

| component | state | operations | hard behaviour |
|---|---|---|---|
| `IngestWebUseCase` (`packages/core/use_cases/ingest_web.py`) | job object, list of chunks not flushed yet | `execute`: crawl, then per page normalise, chunk, store; flush at a threshold and at the end | two stores without a common transaction; any exception ends the job half-way; two jobs on the same pages |
| job store and API (`apps/api/routes/ingest.py`, `packages/ingest/postgres_job_store.py`) | `rag.ingestion_jobs` | `POST /ingest` inserts PENDING and queues a background task, which updates the row once, at the end | the task dies with the process; the final update may fail |
| document store (`packages/clients/postgres_document_store.py`) | `rag.documents`, `rag.document_content` | `create`, `query_pending`, `query_by_date`, `get_content`, `update_document` | deduplication by content hash; unconditional update; transactions left open; a trigger that stamps `updated_at` |
| vector writer, embedder (`packages/vector/writer.py`, `packages/ingest/embedder.py`) | points of a collection | batched embedding and upsert | batch bounds; failure between two batches |
| event dispatch and publisher (`packages/ingest/services/document_events.py`, `packages/ingest/adapters/`) | Redis stream with a consumer group | fire-and-forget task, `XADD MAXLEN`, `XREADGROUP`, `XACK` | lost tasks, trimmed entries, entries pending under a dead consumer |
| the other commands (`github`, `elasticsearch`, `youtube`, `reddit`, `gmail`, `docker-compose`, `swag`) with their readers and writers | none of their own | read a source; store documents, embed and write chunks, or parse a file and write nodes and edges | no job record: a failure leaves what was written; a second run relies on derived ids and `MERGE`; edges whose ends are missing are not made; nobody asks what became of the last statement |

### Extraction

| component | state | operations | hard behaviour |
|---|---|---|---|
| worker (`apps/worker/main.py`) | consumer name, current message | read the stream, else `BLPOP` the list `queue:extraction`; resolve the id; extract; acknowledge | order of work and acknowledgement, stop and crash in the middle, restart under a new name |
| `ExtractPendingUseCase` | documents fetched, counters | query PENDING rows; per document read, extract, write back | runs in the worker, the CLI and the API on the same rows without a lock |
| `ReprocessUseCase` | documents selected | query by date, reset each to PENDING | races with runs that hold the row |
| `ExtractionOrchestrator` | job object, `extraction_job:{id}` in Redis | tiers A, B, C; record rewritten after each; up to three attempts | writes that raise but were applied; resuming after a failure in any tier |
| Tier C client | response cache in Redis, shared | look up, call (with retries), cache, in batches | partial failure of a batch; two calls on the same text |
| Tier A, Tier B | none | pattern matchers, window selector | pure functions |

### Accounts and set-up

| component | state | operations | hard behaviour |
|---|---|---|---|
| initialisation (`taboot init`, `POST /init`, `packages/common/db_schema.py`, `packages/graph/constraints.py`, `packages/vector/collections.py`) | constraints, collection, tables, `schema_versions` | health checks, statements one by one, `create_schema` in one transaction, record of a failure in another | no lock: two starts, two builds with different files; a swallowed error in an aborted transaction; a trigger that cannot be created twice; results of statements that are not read |
| user lifecycle (`packages-ts/user-lifecycle`, `packages-ts/db`, the erase and restore routes, the clean-up script) | `User` and what cascades from it, `Verification`, audit log | soft delete, restore, erase, clean up after retention | lists and addresses read long before they are used; DELETE and audit entry apart; pages without an order |

### The rest

Graph migrations (`packages/graph/migrations`), alias switch
(`packages/vector/migrations`), dead letter queue, batched graph writer, async
PostgreSQL adapter: written, but called by nothing. Retrieval, status, metrics,
API wiring, web pages: stateless or read-only. The tools of the MCP server
raise `NotImplementedError`. `PROJECT.json` lists every component with its status,
and the hazards of the code at their lines.

### How the parts interact

    POST /ingest, CLI ──> IngestWebUseCase ──> rag.documents (PENDING) ──┐
            │                    │ └─> Qdrant                            │
    rag.ingestion_jobs           └─> publish task ──> Redis stream       │
                                                        │                │
    clients ──> queue:extraction ──────────────> ExtractionWorker        │
                                                        │                │
    CLI / API extract pending ──────────> ExtractPendingUseCase <────────┤
                                                │    writes the state back
                                       ExtractionOrchestrator            │
                                        (record, cache in Redis)         │
    CLI extract reprocess ──────────────> ReprocessUseCase ──> PENDING ──┘

    CLI ingest github, elasticsearch ──> rag.documents (PENDING), Qdrant
    CLI ingest youtube, reddit, gmail ─> Qdrant
    CLI ingest docker-compose ─────────> Neo4j   (swag: refused by it)
    CLI init, POST /init ──────────────> Neo4j, Qdrant, PostgreSQL schemas

## 2. Plan

Order of work, most important behaviour first:

1. `DocumentExtraction` — the life of a document from PENDING to a final state
   over rows, stream and list. *Done, with proofs.*
2. `ExtractionOrchestrator` and its abstract specification `ExtractionJob` —
   what one step "extract" of the first module is inside. *Done, with
   proofs, refinement included.*
3. `WebIngestion` — the jobs that produce the documents. *Done, with proofs.*
4. `SystemInit` — what has to be there before any of it: starts that race on
   constraints, collection and schema. *Done, with proofs.*
5. `UserLifecycle` — soft delete, restore, erasure, the clean-up job and its audit
   log. *Done, with proofs.*
6. `SourceIngestion` — the commands that fill the same stores without a job.
   *Done, with proofs.*
7. Proofs of all safety properties of the runs, and for every component a proof
   that each of its processes has only so many steps. *Done.*
8. Wanted next: an abstract specification of the row of an ingestion job, as
   `ExtractionJob` is one of the job record, with `WebIngestion` shown to implement
   it. The migration runner and the alias switch of the vector collections follow
   when the program calls them.

The modules do not
share variables: `DocumentExtraction` takes ingestion as the action `Ingest` (a
PENDING row and a publish task, what `WebIngestion`'s `ReadPage` does to the
row) and the orchestrator as one step with three outcomes, completed, failed, or
raised, which are those of `ExtractionJob`.

## 3. Modules

| module | what it is |
|---|---|
| `DocumentExtraction` | worker, stream, list, pending extraction, reprocess, rows |
| `ExtractionOrchestrator` | `process_document`, Tier C client, cache, job record |
| `ExtractionJob` | what a reader of a job record may rely on |
| `WebIngestion` | ingestion jobs, document rows, points, job rows |
| `SystemInit` | starts of the command and the endpoint, the three stores they prepare, the version record |
| `UserLifecycle` | users' rows, audit log, clean-up runs, erase and restore requests |
| `SourceIngestion` | the seven other ingestion commands, document rows, points, graph |
| `MC...` | instances of these for TLC |
| `..._proofs` | theorems about them |

### DocumentExtraction

One process per worker, per batch run (CLI or API) and per reprocess run, each
with a program counter `pc` and a PostgreSQL connection. State and code:

* `docs`, `ingestedAt`, `updatedAt` are columns of `rag.documents`; a doc_id that
  ingestion handed out although the content existed is `"duplicate"`: it has an
  event and no row. `modifiedAt`, `unread`, `wrote` are history variables.
* `outbox` holds publish tasks created and not run, `stream` the entries no
  consumer has read, `pel` and `orphaned` the pending entries of running and of
  gone consumers, `acked` and `dropped` where entries end.
* `Ingest` is `document_store.create` with the callback that follows it,
  `Publish` the XADD with its trim, `Deliver` the XREADGROUP, `Settle` the XACK
  of all entries of the read with the worker's loop around it.
* A statement of the use case per action: `GetContent`, `ProcessReturns` or
  `ProcessRaises`, `StoreResult`; `EndTurn` is what the loop does next.
  `StoreResultUnanswered` is the commit that is applied while its answer is lost
  with the connection: the row is written, `update_document` raises, and the run
  counts a failure. `CommitState` is what happens at the server in both.
* `txn[c]` is the start of the transaction connection `c` has open: psycopg2
  opens one with the first statement and only a commit ends it. `updatedAt` is
  set from it, because the trigger uses `NOW()`.
* Failures: `LoseConnection`, raised statements, tasks lost, stop and crash of a
  worker or run; `MaxDisruptions` bounds their number. A worker that died is
  `"down"`, one that was stopped by hand `"stopped"`: both may be started, the
  first only is restarted by itself (`Restart`).

Abstracted: ids and contents are model values; the count of entries per read is
one (`count=1` is the worker's call); idle waits are stutters.

### ExtractionOrchestrator

One process per call of `process_document`, with its job object `mem`, the record
in Redis, `results`, `calls` and `answer` of the window in hand, and the shared
`cache`. `UpdateState` is a SET that succeeds, or raises with or without having
been applied, in which case the attempt fails; `FailAttempt` is the `except`
block. A window's text is a model value; an answer is with or without triples
(an answer that is not JSON is parsed to the empty one). The windows Tier B would
select are a constant.

`Promise` maps a call to `ExtractionJob`: `status` is the program counter until
the call has ended and the state of the job it returned afterwards, `retries` the
job's, `shown` the state in the record. The property `KeepsPromise` is the
abstract specification under that mapping.

### WebIngestion

One process per job. `job` is the object in memory, `record` its row, `buffer`
the list `all_chunks`, `upserted` the offset of the running flush. `ReadPage` is
`_process_document` with the loop around it: the row (one per content), the
chunks (named by job, page and position, because `doc_id` and `chunk_id` are
fresh UUIDs), the counter, and whether the threshold is reached. `UpsertBatch` is
one batch of `upsert_batch_async`; with the last, the flush ends and is counted.
Each failing twin (`LoadFails`, `ReadPageFails`, `UpsertFails`) has the effects
that may precede the exception, and ends in `_transition_to_failed`. `Report` is
`job_store.update`.

Abstracted: the crawl's result (`Pages`) and the chunker's (`ChunkCount`) are
constants; a crash stops one job, where that of the API process stops all its
jobs: such a crash is a sequence of crashes here. The steps of two jobs in one
event loop interleave only at flushes; API processes and CLI runs side by side
make them interleave everywhere, which is what the model allows. Rate limiting and
URL validation may refuse a request before its row is written: nothing happens
then, so they have no action.

### SystemInit

One process per start (`Starters`; those in `CommandLine` check health first and
exit when something is down, the endpoint checks last and only says so) and per
`taboot schema version`. `next` is the statement of `neo4j-constraints.cypher`
to run, `collection` the Qdrant collection, `objects` the tables of schema `rag`
with their trigger, `versionTable` and `rows` the table `schema_versions`.

* `ReadVersion` is `get_current_version`; without the table the SELECT raises,
  the error is swallowed and the transaction is aborted: `ExecuteInAborted` is
  the next `cursor.execute`. `CompareChecksum` is the second SELECT.
* `ApplySchema` is the file, the record and the commit. The file takes locks that
  make another start wait, so it is one action. `TriggerExists` is the statement
  that fails when the objects are there (`CREATE TRIGGER` knows no `IF NOT
  EXISTS`).
* `RecordFailure` is the second transaction; `CommitFails`, `RecordFailureFails`,
  `Crash` and the other failures are bounded by `MaxFaults`.
* `create_constraints` does not consume the result of `session.run`. The driver
  fetches it before it sends the next statement, which raises the error there
  (`StatementFails`); that of the last statement is fetched when the session
  closes, and dropped: `LastAnswerUnread`, after which the start goes on. The
  history variable `unread` holds the starts to which this has happened.

A fresh database, one with the version table only, one that `psql` has filled from
the file, one of a release that recorded no version, and one with an earlier
version are the initial states. The statements of the file are one step: no property
looks at a single table.

### UserLifecycle

One process per clean-up run, erase request, restore request and request of the
user's own browser. `deletedAt`, `email`, `logins` (sessions, accounts, two-factor
rows) and `tokens` (verification rows) are what erasure and clean-up touch; `audits`
holds the HARD_DELETE entries, each with the run and the position in its list.
`Preview`, `Confirm`, `Decline` are the script's `main`; `Count`, `FetchPage`,
`DeleteUser`, `AuditRemoval`, `RemovalFails` are `cleanupDeletedUsersService`. A
page is any choice of due rows, because the query has no order. `BeginErase` reads
the address, `Erase` is the transaction. better-auth is external: a request is
checked against the session, and writes later. `SoftDelete` follows
`docs/SOFT_DELETE_CONTEXT.md`: what the extension passes to the query is taken to
update the row. The clock counts days; `raced` is a history variable.
Step 6 of the erasure, which rewrites what the user's older audit entries say, is
left out: no variable holds their text, and no property speaks of it.

### SourceIngestion

One process per command. A document command tries its branches (one for sources
that have none) up to `MaxRetries` times, and per document stores it
(`rows`, GitHub and Elasticsearch only) and collects its chunks, then embeds all
and writes them in batches. Chunk and document ids are what decides whether a
second run adds anything: GitHub derives both from branch, path and content,
Elasticsearch the document's from the content, the others draw them. A graph command
parses its file into `writes`, the set of statements it has still to run: services in
phase 1, relationships in phase 2; within a phase the order makes no difference (it is
that of the file). `Apply` says what `MERGE`, `MATCH` and `SET` make of the graph. As
in `SystemInit`, no result is consumed: `StatementFails` is an error met at the next
statement, `LastAnswerUnread` one that the closing session drops, after which the
command reports success; `unheard` remembers that statement. A `swag` command parses
its file and is refused at its first statement (`WriteProxies`), because
`swag_writer.py` sets `p.metadata` to a map and no Neo4j property holds one; what
would come after it has no behaviour and is left out. YouTube, Reddit and Gmail never
write to PostgreSQL. An Elasticsearch command that meets a `ValueError` ends as
`"ignored"`: exit code 0, whatever was stored.

Abstracted: texts and images are opaque values; a GitHub item is the `path` in the
reader library's metadata.

## 4. Runs

| run | instance | what it shows |
|---|---|---|
| `extraction_safety` | 2 documents, a worker, a batch run, a reprocess run, stream of 1, 2 disruptions | `TypeOK`; `EventInOnePlace`: an event is in one place of the pipeline, no interleaving of reads, crashes and restarts duplicates or loses it; `HandledEventIsPending`; `AckedThenExtracted`: with no failure, an acknowledged event's document is extracted or was reset since; `ReportMatchesWrites`: counts against rows, with a commit whose answer is lost as the one difference; `OnlyRowsAreExtracted` |
| `extraction_live` | 1 document, a worker, a batch run, list of 1, clock 0..1, 2 disruptions | `StreamDrains`, unless all workers stay stopped, and `IngestedIsExtracted`, under `FairSpec` |
| `extraction_ends` | 2 documents, a batch run and a reprocess run, 2 disruptions, under `FairSpec` | `RunsEnd`: every batch and reprocess run ends, and a document that fails does not keep it from the other |
| `extraction_lost_reset` | 1 document, batch and reprocess, no disruption | violated: a reset is overwritten (finding) |
| `extraction_stale_stamp` | 2 documents, worker and reprocess, clock 0..1 | violated: a reset is stamped with the time of the run's query, and a second reprocess run misses the document (finding) |
| `orchestrator_shared` | 2 calls, windows `<<x1, x2>>` and `<<x2, x2>>`, 3 attempts as in the code, 2 calls of the model per window (3 in the code) | `TypeOK`, `RecordMatchesOutcome`, `CompletedIsAnswered`, `AnswersAreReused`, the refinement `KeepsPromise`, and `CallsEnd` |
| `ingest_jobs` | 2 API jobs and a CLI run over shared pages with 3, 1 and 0 chunks, threshold 3, batches of 2, 2 failures | `TypeOK`, `CompletedIsIndexed`, `CountsAreTrue`, `PointsAreStored`, `JobsEnd`, `JobsSettle` |
| `ingest_duplicates` | 2 API jobs on one page | violated: the second job's chunks duplicate the first's (finding) |
| `system_init` | command and endpoint of one build, a command of another build with the same version, a viewer, 5 initial databases, 2 statements, 2 connection attempts, 2 faults | `TypeOK`; `InitializedIsComplete`: success means all three stores are ready, also when it rests on the record of another start, but for the last constraint of a start in `unread`; `RecordedIsApplied`; `InitializedIsOwnFile`; `SecondRunKeepsRecord`: who may lose a recorded success; `FreshStaysFresh`; `StartsEnd` |
| `init_fresh` | one command, a fresh database, no fault | violated: the first start of a fresh deployment fails (finding) |
| `user_lifecycle` | 2 users, a clean-up, a dry run, an erasure, a restore and a browser request, pages of 1, 2 faults | `TypeOK`; `RemovedWasDue`: a row removed although not due was changed after it was listed; `AuditTellsRemovals`; `ReportAddsUp`; `ErasureIsComplete`; `CleanupsEnd` |
| `source_ingestion` | 2 commands of any kind and a third that declares a service; contents of 3, 1 and 0 chunks, batches of 2, 2 attempts, 1 fault | `TypeOK`; `VectorsHaveContent`; `DoneIsIndexed`; `DoneIsInGraph`: every node and edge of the file, but for a last statement that failed unheard; `RerunAddsNothing`: a repeated GitHub run stores no copies, however the earlier ones ended, and a repetition of a complete run adds nothing; `RunsEnd` |

Bounds, and why they are enough. Two documents are the least with an order (the
query sorts by `ingested_at`) and with a duplicate; one worker and one batch run
are two runners on one row, and the worker meets its own past under another
consumer name after a crash. A stream of one entry makes the trim happen at the
second event. Two disruptions allow a failure in the recovery from a failure.
The clock needs two values to tell a stamp from a later modification. Two calls
with a window in common, one of which meets a text twice, are the sharing the
cache can see. In ingestion, three chunks with a threshold of three and batches
of two give a flush in the middle, a flush at the end, a flush of two batches, and
a last batch that is not full; the page without chunks completes a job without a
final flush. Initialisation needs two builds for a checksum that differs and two
starts of one build for a race; two faults let a failure be followed by one of its
record. One service stands for all that a health check asks: that one is down decides. In the user lifecycle a page of one makes the offset matter with two users;
one day passes, which is the distance between due and not due; a second clean-up
beside the first was run on smaller instances (one user; two users with pages of
two) with the same result, and the proofs cover any number. In
`source_ingestion` three chunks in batches of two end with a batch that is not
full, a repository whose default branch is `trunk` has neither of the usual
branches, and the third command supplies the other end of edges before, between
and after the statements of the others; the same with 2 faults (574,679 states) was
checked once and takes too long to repeat. `extraction_ends` leaves out workers,
events and the list, which neither kind of run looks at, so that two documents fit;
`extraction_live` has one, because a worker handles one at a time. Every invariant has a mutant in the module that a run must catch,
so none holds for want of the interesting case.

Deadlock is checked in the extraction runs (a stopped worker or a run can be started again); the
calls of the orchestrator, the jobs and commands of ingestion, starts and clean-ups
all end, and so do these models.

### Fairness

* A runner that can take its next statement takes it, a worker polls, a
  reprocess run proceeds: each is a loop of its own process; statements answer or
  raise.
* `Restart` is weakly fair: `docker-compose.yaml:3` restarts a worker that died
  (`restart: unless-stopped`). A worker that was stopped by hand stays so until
  somebody starts it, which nobody has to: `StreamDrains` excuses the case that all
  workers are stopped for ever.
* `Publish` is weakly fair per document: the event loop runs a created task
  unless the process ends, which is `PublishLost`.
* `Step(j)` in the orchestrator and in the ingestion of pages: a coroutine that is
  not waiting is run, and HTTP, PostgreSQL and Redis calls return or raise.
* `Step` of a start, a clean-up and a command: the process makes its calls, each of
  which returns or raises, and the question of the clean-up script gets an answer
  (its prompt needs a terminal or is declined). Nobody has to start them.
* No fairness on failures, ingestion, requests, batch runs or resets: nobody has
  to start them. Hence `IngestedIsExtracted` needs events enabled, and excuses
  documents whose event was lost or that met a failure.

## 5. Proofs

TLAPS checks all theorems for every value of the constants that satisfies the
modules' assumptions (`ProcessesDisjoint`, `FinitelyManyDocs`, `ParametersTyped`,
`OrchestratorAssumption`, `IngestionAssumption`, `InitAssumption`,
`LifecycleAssumption`, `SourceAssumption`), which type the constants, keep kinds of
processes apart, and say of a database that existed before the first start that
what it recorded as applied is there.

* `DocumentExtraction_proofs`. `Inv1` (types; what a runner at each `pc` has in
  hand; ids in messages; lists hold rows only) is inductive by itself and gives
  `TypeCorrect` and `OnlyRows`. On top of it `EventInv` (places are disjoint and
  cover all published events; the stream has no repetition; one consumer per
  entry; a handled event is pending) gives `HandledPending` and `EventConserved`.
  It needs the lists of `Inv1`: an action that moves an event is disjoint from
  all others only if the message in hand is the one in `pel`. `BatchInv` (per
  batch run: counters against `wrote`, `todo` and the document in hand are
  disjoint; a stored document is counted as failed only by a run whose connection is
  dead, and such a run stores nothing more) gives `ReportCorrect`. `AckedExtracted` rests on `HoldInv` (a runner has
  a document in hand between read and write only, and a worker the one its
  message names) and `AckInv`: without a disruption no connection is dead, and
  what holds of an acknowledged event holds when its worker is about to send the
  acknowledgement. A document becomes pending again only by a reset, which puts it
  into `unread`; it leaves that set only into a runner's hands, and these only
  with its state written.
* `ExtractionOrchestrator_proofs`. The invariant relates, at each `pc`, the job
  object, the record, the length of `results` and the cache: the first
  `Len(results)` windows are cached, and a record that says completed belongs to
  a call whose windows all are. The four invariants follow. `Refinement` maps
  every action to one of `ExtractionJob` or to a stutter, under that invariant.
* `WebIngestion_proofs`. `Inv` is a conjunction over the jobs. Everything turns
  on `Made(j)`, the chunks of the pages read so far: the buffer holds them each
  once and the places a flush has still to write are not in Qdrant
  (`BufferInv`); until the job ends every one is in Qdrant or among those places
  (`CoverInv`); and Qdrant holds as many of them as were counted, plus the offset
  of the running flush (`CountInv`, where a batch of distinct chunks adds its
  length). `StageInv` ties the row to the job object, `PageInv` the pages read to
  their rows. A step of one job leaves the conjuncts of the others alone
  (`OthersKeepInv`), because its batches hold its own chunks only and rows are
  never deleted. The four invariants of the run follow, for any pages, threshold,
  batch size and number of failures.
* `SystemInit_proofs`. `Inv` says, for each label of a start, what it has behind
  it: the statements before `next`, but for the last of a start in `unread`, the
  collection (`StoresInv`), and, once it
  compares or is past the schema, tables that exist (`SchemaInv`); a success in the
  record and a shown record mean tables too (`DatabaseInv`, `ViewInv`). `OwnFile`
  survives other builds because a file is applied only while there are no
  tables, and the record of a failure keeps the checksum of the row it replaces.
  `RecordsAreKept` needs `KeepInv`: without a fault, a start that saw its own
  version applies or records a failure only if the checksum differs. It and
  `FreshStays` are action properties.
* `UserLifecycle_proofs`. Per run: where it is and what it has processed
  (`PlaceInv`), that a user was listed only when due on the day the run started
  (`ListInv`), and that each processed position has an entry of the run or a
  failure, successes being no more than entries (`AuditInv`, where the position in
  an entry tells two removals of one user apart). `ErasureIsComplete` is
  inductive with them and with `EraserInv` (the address read is kept): restoring
  and deleting touch `deletedAt` only, and a request that overlaps an erasure is
  in `raced`.
* `SourceIngestion_proofs`. Per run: the label against the kind of command
  (`PlaceInv`), all chunks before `sent` in Qdrant (`ChunkInv`), and the content of
  each document read stored, its chunks among those of the run (`ReadInv`). Every
  chunk in hand has its content if it must (`HasContent`), which the batches
  carry into Qdrant: `ContentIsStored`. A run that is done has read all its
  documents and sent all its chunks: `Indexing`, for any batch size.
* `SourceIngestion_graph_proofs`. `WritesInv`: the statements in `writes` are some of
  the command's own, and each of its own that is not among them has had its whole
  effect on the graph (`Applied`) or is the one in `unheard`, of which there is none
  while statements are left. A statement that is run has its whole effect because
  the nodes its `MATCH` needs are there: their statements are of an earlier phase,
  so they are not left, so they have been applied (`AllHeard`). Nothing is ever taken
  out of the graph, which keeps effects against other commands. `GraphIsWritten` is
  the case of no statement left. `Idempotence` has two halves. For the graph, a
  repeated statement has been applied, so `Apply` adds nothing. For vectors,
  `ChunksInv` says that a run's chunks are those of its documents, and a chunk of a
  GitHub run is a function of branch, path, content and position only (`GithubCopies`),
  so that one with the document and place of another is that one: this half
  needs no completed run.

Assumptions beyond types: no document has the name of the absent one (`"none" \notin
Docs`); a compose file has each service name once (its services are the keys of a
mapping) and finitely many services, dependencies and ports.

### Termination

Each proof module (for `SourceIngestion`, the graph one) also proves a theorem
`...RunOut`: per process a `Rank`, a tuple of naturals under the lexicographic order
`Lower`, such that every step weak fairness promises that process lowers it, and no
step, of the process itself, of others, or a failure, ever raises it (`Descends`).

| theorem | what runs out |
|---|---|
| `RunsRunOut` | stages of a poll or run, documents on its list, calls for the one in hand; between two polls, or two batch runs, a process has nothing to do (`Busy`) |
| `CallsRunOut` | attempts, stages of an attempt, windows without an answer, calls of the model for this window |
| `JobsRunOut` | stages, pages, chunks of the buffer |
| `StartsRunOut` | stages, attempts to connect or statements |
| `CleanupsRunOut` | stages, users to list, statements for those listed; needs that a list never has more entries than there are users, although the pages have no order (`ListsFit`) |
| `SourcesRunOut` | stages, attempts, documents, chunks, statements; and `WritesGoOn`: a command with statements left has a next one, so that the phases never wait for each other |

This is the half of `RunsEnd`, `CallsEnd`, `JobsEnd`, `StartsEnd` and `CleanupsEnd` that
is about states and steps: since `Lower` is well-founded, no job, command, start,
clean-up, call, poll or run goes on for ever, whatever the values of the constants
and whatever fails or interferes. A worker starts a new poll as often as it likes:
in `DocumentExtraction` the rank speaks of a process while it is `Busy`.

### Model-checked only

The other half, that a process does not stop before it is done, is about fairness
and ENABLED, which the prover does not handle. So the liveness properties
themselves (`RunsEnd` of both modules that have one, `StreamDrains`, `IngestedIsExtracted`,
`CallsEnd`, `JobsEnd`, `JobsSettle`, `StartsEnd`, `CleanupsEnd`) are checked by TLC
on the instances of section 4. Every other property of a passing run is a theorem. No
module here uses a RECURSIVE operator.

## 6. What the models found

The four runs that expect a violation each state a sentence of the
repository's documents that the code does not keep; `PROJECT.json` quotes the
sentence and the line. Noted while reading, without a run:

* `apps/api/routes/ingest.py:229-231` says a job whose task failed "should
  already be FAILED"; a row whose final update fails stays PENDING for ever (the
  model has the behaviour, `JobsSettle` excuses it), and RUNNING is never written
  to it although data-model.md describes it as a state of the row.
* `apps/worker/main.py` reads new entries only (`>`); nothing claims entries left
  pending by a consumer that is gone (`orphaned`).
* Nothing in the repository pushes to `queue:extraction`, and ingestion events
  are off by default (`enable_ingest_events`): then only batch runs extract.
* `create_schema` on tables without their record (the file run by `psql`, an older
  release, a record replaced by that of a failure) fails for ever: the file
  creates its trigger unconditionally.
* A failed start of another build replaces the recorded success of the same version;
  the next start of the first build then fails at the trigger
  (`SecondRunKeepsRecord` says who can do it).
* A user restored after a clean-up has listed the row is removed all the same; the
  model has the behaviour, and `RemovedWasDue` excuses exactly this.
* The same content under another path, branch or source gives chunks whose doc_id
  is no row's. Chunks of YouTube, Reddit and Gmail are copied by every run.
* data-model.md:331-335 and `orchestrator.py:96-98` list the states of an extraction
  job, `tier_c_done` before `completed`. `_update_state` writes the job it is given,
  into which the caller copies COMPLETED and FAILED only (`orchestrator.py:288-293`):
  the record goes from pending to completed, as the record of
  `ExtractionOrchestrator` and `ExtractionJob` does.
* `constraints.py:118` says of `create_constraints` that it raises "If any constraint
  statement fails to execute"; the failure of the last is dropped when the session
  closes, and the start reports success (`LastAnswerUnread`, which
  `InitializedIsComplete` excuses). The docker-compose command does the same.
* spec.md:98 wants SWAG configurations in the graph; the command fails at its first
  statement, which the unit tests do not see because they mock the session.
* A document whose commit was applied while its answer was lost is stored and counted
  as failed. Those after it meet a dead connection: they are not stored, and count as
  failed, too.
* `DeadLetterQueue` is documented as the end of a failed job, and not called.

## 7. Not modelled

Parsing of texts, normalisation, chunking, embedding, matching and prompting,
ranking and synthesis (functions of their input: the models let them return or
raise); the window selector, whose only hazard is arithmetic on a word count;
authentication, CSRF, rate limiting and pages of the web application; metrics,
logging, command lines. The migration runner, the alias switch, the Tailscale and
UniFi readers, the dead letter queue, the batched writer and the async adapter are
called by nothing. `PROJECT.json` gives the reason for each component.
