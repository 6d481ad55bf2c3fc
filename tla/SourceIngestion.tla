--------------------------- MODULE SourceIngestion ---------------------------
(***************************************************************************)
(* The ingestion commands but that of the web: `taboot ingest github`,     *)
(* `elasticsearch`, `youtube`, `reddit` and `gmail` read documents into    *)
(* PostgreSQL and Qdrant, `docker-compose` parses a file into nodes and    *)
(* edges of Neo4j, and `swag` would if its first statement could run.      *)
(*                                                                         *)
(* A command is one sequential run without a job or a record of its own,   *)
(* but runs of the same or of other commands share the stores.  The        *)
(* document commands differ where a second run shows it: what is stored in *)
(* PostgreSQL at all, and which ids are derived from the content and which *)
(* are drawn anew.  docker-compose commits every statement by itself, a    *)
(* relationship whose ends are not there is silently not made, and what    *)
(* became of the last statement is not asked.                              *)
(*                                                                         *)
(* Texts and images are opaque.  What a reader makes of a file is modelled *)
(* by the rules that decide which nodes and edges come out.                *)
(***************************************************************************)
EXTENDS Integers, FiniteSets, Sequences

CONSTANTS
  Runs,
  Downloads,  \* commands that ingest documents, with what their source holds
  Files,      \* docker-compose commands, with the parsed YAML
  Configs,    \* swag commands, and whether their file can be parsed
  MayRun,     \* the commands a run may be started with
  Items,      \* files, index entries, videos, posts, e-mails
  Texts,
  ChunkCount, \* chunks of a text
  MaxRetries, \* max_retries of the readers
  BatchSize,  \* batch_size of QdrantWriter
  MaxFaults   \* bound: failures in a behaviour

None == "none"
Branches == {"main", "master"} \cup UNION {DOMAIN c.branches : c \in Downloads}
Commands == Downloads \cup Files \cup Configs
NoCommand == [kind |-> None]

ASSUME SourceAssumption ==
  /\ Runs \cap (Branches \cup {"content"}) = {}
  /\ None \notin Items
  /\ MayRun \in [Runs -> SUBSET Commands]
  /\ ChunkCount \in [Texts -> Nat]
  /\ MaxRetries \in Nat \ {0}
  /\ BatchSize \in Nat \ {0}
  /\ MaxFaults \in Nat
  /\ \A c \in Downloads :
       /\ c.kind \in {"github", "elasticsearch", "youtube", "reddit", "gmail"}
       /\ c.limit \in Nat
       /\ c.default \in DOMAIN c.branches
       /\ \A b \in DOMAIN c.branches : c.branches[b] \in Seq([item : Items, text : Texts])
  /\ \A f \in Files :
       /\ f.kind = "docker-compose"
       /\ IsFiniteSet(f.services)
       /\ \A s, t \in f.services : s.name = t.name => s = t
       /\ \A s \in f.services : s.isMapping => IsFiniteSet(s.dependsOn) /\ IsFiniteSet(s.ports)
  /\ \A c \in Configs : c.kind = "swag" /\ c.isValid \in BOOLEAN

VARIABLES
  pc,
  command, \* what the run was started with
  tries,   \* calls to the source
  toTry,   \* branches_to_try, of one "branch" for the other sources
  branch,  \* the one that was loaded
  at,      \* documents processed
  chunks,  \* all_chunks
  sent,    \* how many of them upsert_batch has sent
  writes,  \* statements still to be run for what a graph command has parsed
  unheard, \* history: the statement whose failure was dropped with the session
  rows,    \* rag.documents: content_hash to doc_id
  points,  \* Qdrant
  graph,   \* Neo4j
  faults

readerVars == <<command, tries, toTry, branch>>
runVars == <<at, chunks, sent, writes, unheard>>
stores == <<rows, points, graph>>
vars == <<pc, readerVars, runVars, stores, faults>>

NoRow == <<>>
EmptyGraph == [images |-> [n \in {} |-> None], depends |-> {}, binds |-> {}]

\* A statement merges a service node, or an edge.  It runs after those of the
\* earlier phases; within one their order makes no difference.
Statement == [phase |-> 0, images |-> [n \in {} |-> None], depends |-> {}, binds |-> {}]
Precedes(v, w) == v.phase < w.phase

Init ==
  /\ pc = [r \in Runs |-> "new"]
  /\ command = [r \in Runs |-> NoCommand]
  /\ tries = [r \in Runs |-> 0]
  /\ toTry = [r \in Runs |-> <<>>]
  /\ branch = [r \in Runs |-> None]
  /\ at = [r \in Runs |-> 0]
  /\ chunks = [r \in Runs |-> <<>>]
  /\ sent = [r \in Runs |-> 0]
  /\ writes = [r \in Runs |-> {}]
  /\ unheard = [r \in Runs |-> Statement]
  /\ rows = [t \in Texts |-> NoRow]
  /\ points = {}
  /\ graph = EmptyGraph
  /\ faults = 0

KindOf(r) == command[r].kind
Goto(r, label) == pc' = [pc EXCEPT ![r] = label]

Fault ==
  /\ faults < MaxFaults
  /\ faults' = faults + 1

(***************************************************************************)
(* Reading a source.                                                       *)
(***************************************************************************)
Begin(r, kind) ==
  /\ pc[r] = "new"
  /\ \E c \in Downloads \cap MayRun[r] :
       /\ c.kind = kind
       /\ command' = [command EXCEPT ![r] = c]
       /\ toTry' = [toTry EXCEPT ![r] = <<c.default>>]
  /\ Goto(r, "load")
  /\ UNCHANGED <<tries, branch, runVars, stores, faults>>

\* The default branch is asked for; the other sources have one place.
BeginGithub(r) == Begin(r, "github")
BeginElasticsearch(r) == Begin(r, "elasticsearch")
BeginYoutube(r) == Begin(r, "youtube")
BeginReddit(r) == Begin(r, "reddit")
BeginGmail(r) == Begin(r, "gmail")

\* _get_default_branch swallows its error, and both usual names are tried.
BeginWithoutDefault(r) ==
  /\ Fault
  /\ pc[r] = "new"
  /\ \E c \in Downloads \cap MayRun[r] :
       /\ c.kind = "github"
       /\ command' = [command EXCEPT ![r] = c]
       /\ toTry' = [toTry EXCEPT ![r] = <<"main", "master">>]
  /\ Goto(r, "load")
  /\ UNCHANGED <<tries, branch, runVars, stores>>

\* All branches in turn, MaxRetries times.
BranchTried(r) == toTry[r][(tries[r] % Len(toTry[r])) + 1]
HasBranch(r) == BranchTried(r) \in DOMAIN command[r].branches

Load(r) ==
  /\ pc[r] = "load"
  /\ HasBranch(r)
  /\ branch' = [branch EXCEPT ![r] = BranchTried(r)]
  /\ Goto(r, "read")
  /\ UNCHANGED <<command, tries, toTry, runVars, stores, faults>>

\* Mutant: only the last attempt counts.
TryAgain_NotCounted(r) ==
  /\ pc[r] = "load"
  /\ UNCHANGED tries
  /\ Goto(r, IF Len(toTry[r]) > 1 THEN "load" ELSE "failed")
  /\ UNCHANGED <<command, toTry, branch, runVars, stores>>

\* Mutant: the attempts are compared after the last one.
TryAgain_OneMore(r) ==
  /\ pc[r] = "load"
  /\ tries' = [tries EXCEPT ![r] = @ + 1]
  /\ Goto(r, IF tries[r] < MaxRetries * Len(toTry[r]) THEN "load" ELSE "failed")
  /\ UNCHANGED <<command, toTry, branch, runVars, stores>>

\* The error of the last attempt is raised; there is no pause before the others.
TryAgain(r) ==
  /\ pc[r] = "load"
  /\ tries' = [tries EXCEPT ![r] = @ + 1]
  /\ Goto(r, IF tries[r] + 1 < MaxRetries * Len(toTry[r]) THEN "load" ELSE "failed")
  /\ UNCHANGED <<command, toTry, branch, runVars, stores>>

BranchMissing(r) ==
  /\ pc[r] = "load"
  /\ ~HasBranch(r)
  /\ TryAgain(r)
  /\ UNCHANGED faults

LoadFails(r) ==
  /\ pc[r] = "load"
  /\ HasBranch(r)
  /\ Fault
  /\ TryAgain(r)

\* docs[:limit]; that of YouTube is the number of videos.
Docs(r) ==
  LET all == command[r].branches[branch[r]]
      n == IF command[r].limit < Len(all) THEN command[r].limit ELSE Len(all)
  IN  SubSeq(all, 1, n)

(***************************************************************************)
(* Storing the documents.                                                  *)
(***************************************************************************)
IsStored(r) == KindOf(r) \in {"github", "elasticsearch"}

\* uuid5 of branch, path and content.
GithubDocId(r, d) == <<branch[r], d.item, d.text>>

\* uuid5 of the content.
ElasticsearchDocId(d) == <<"content", None, d.text>>

\* uuid4.
DrawnDocId(r, i, d) == <<r, i, d.text>>

DocId(r, i) ==
  LET d == Docs(r)[i]
  IN  CASE KindOf(r) = "github" -> GithubDocId(r, d)
        [] KindOf(r) = "elasticsearch" -> ElasticsearchDocId(d)
        [] OTHER -> DrawnDocId(r, i, d)

\* Mutant: every chunk gets a uuid4.
Chunk_Fresh(r, i, k) == [doc |-> DocId(r, i), position |-> k, drawn |-> <<r, i>>]

\* The id of a GitHub chunk is uuid5 of its document and position, that of the
\* others a uuid4, which makes it one of this run.
Chunk(r, i, k) ==
  [doc |-> DocId(r, i), position |-> k,
   drawn |-> IF KindOf(r) = "github" THEN <<>> ELSE <<r, i>>]

ChunksOf(r, i) == [k \in 1 .. ChunkCount[Docs(r)[i].text] |-> Chunk(r, i, k)]

\* PostgresDocumentStore.create, committed: ON CONFLICT (content_hash) DO
\* NOTHING keeps the document that was there, under its id.
Store(r, i) ==
  LET t == Docs(r)[i].text
  IN  IF IsStored(r) /\ rows[t] = NoRow
      THEN rows' = [rows EXCEPT ![t] = DocId(r, i)]
      ELSE UNCHANGED rows

\* Mutant: create is called after the loop, for its last document.
ReadDocument_StoresLast(r) ==
  LET i == at[r] + 1
  IN  /\ pc[r] = "read"
      /\ i <= Len(Docs(r))
      /\ IF i = Len(Docs(r)) THEN Store(r, i) ELSE UNCHANGED rows
      /\ chunks' = [chunks EXCEPT ![r] = @ \o ChunksOf(r, i)]
      /\ at' = [at EXCEPT ![r] = i]
      /\ UNCHANGED <<pc, readerVars, sent, writes, unheard, points, graph, faults>>

\* Normalise, chunk, store.
ReadDocument(r) ==
  LET i == at[r] + 1
  IN  /\ pc[r] = "read"
      /\ i <= Len(Docs(r))
      /\ Store(r, i)
      /\ chunks' = [chunks EXCEPT ![r] = @ \o ChunksOf(r, i)]
      /\ at' = [at EXCEPT ![r] = i]
      /\ UNCHANGED <<pc, readerVars, sent, writes, unheard, points, graph, faults>>

\* The command of Elasticsearch takes any ValueError for "nothing found" and
\* exits with 0: that of a chunk its model refuses, which is before the store,
\* too, after other documents were stored.
ReadFails(r) ==
  /\ Fault
  /\ pc[r] = "read"
  /\ at[r] < Len(Docs(r))
  /\ \/ Goto(r, "failed") /\ (Store(r, at[r] + 1) \/ UNCHANGED rows)
     \/ KindOf(r) = "elasticsearch" /\ Goto(r, "ignored") /\ UNCHANGED rows
  /\ UNCHANGED <<readerVars, runVars, points, graph>>

FinishReading(r, kind, next) ==
  /\ pc[r] = "read"
  /\ KindOf(r) = kind
  /\ at[r] = Len(Docs(r))
  /\ Goto(r, next)
  /\ UNCHANGED <<readerVars, runVars, stores, faults>>

\* "Nothing to do."
FinishGithub(r) == FinishReading(r, "github", IF chunks[r] = <<>> THEN "done" ELSE "embed")

\* No document: a ValueError.
FinishElasticsearch(r) ==
  FinishReading(r, "elasticsearch", IF Docs(r) = <<>> THEN "ignored" ELSE "embed")

FinishYoutube(r) == FinishReading(r, "youtube", IF chunks[r] = <<>> THEN "done" ELSE "embed")

\* These two go on with nothing, too.
FinishReddit(r) == FinishReading(r, "reddit", "embed")
FinishGmail(r) == FinishReading(r, "gmail", "embed")

(***************************************************************************)
(* Embedding and writing the vectors.                                      *)
(***************************************************************************)
\* embed_texts of all chunks at once.
Embed(r) ==
  /\ pc[r] = "embed"
  /\ Goto(r, "upsert")
  /\ UNCHANGED <<readerVars, runVars, stores, faults>>

BatchEnd(r) == IF sent[r] + BatchSize < Len(chunks[r]) THEN sent[r] + BatchSize ELSE Len(chunks[r])
Batch(r) == {chunks[r][j] : j \in sent[r] + 1 .. BatchEnd(r)}

\* Mutant: num_batches is rounded down.
UpsertBatch_RoundedDown(r) ==
  /\ pc[r] = "upsert"
  /\ IF sent[r] + BatchSize <= Len(chunks[r])
     THEN /\ points' = points \cup Batch(r)
          /\ sent' = [sent EXCEPT ![r] = BatchEnd(r)]
          /\ UNCHANGED pc
     ELSE /\ Goto(r, "done")
          /\ UNCHANGED <<points, sent>>
  /\ UNCHANGED <<readerVars, at, chunks, writes, unheard, rows, graph, faults>>

\* One of num_batches calls of upsert; without chunks there is none.
UpsertBatch(r) ==
  /\ pc[r] = "upsert"
  /\ points' = points \cup Batch(r)
  /\ sent' = [sent EXCEPT ![r] = BatchEnd(r)]
  /\ Goto(r, IF BatchEnd(r) = Len(chunks[r]) THEN "done" ELSE "upsert")
  /\ UNCHANGED <<readerVars, at, chunks, writes, unheard, rows, graph, faults>>

\* QdrantWriteError, with the batch written or not.
UpsertFails(r) ==
  /\ Fault
  /\ pc[r] = "upsert"
  /\ points' \in {points, points \cup Batch(r)}
  /\ Goto(r, "failed")
  /\ UNCHANGED <<readerVars, runVars, rows, graph>>

\* f where it is defined, g elsewhere.
Over(f, g) == [x \in DOMAIN f \cup DOMAIN g |-> IF x \in DOMAIN f THEN f[x] ELSE g[x]]

\* MERGE and SET of services, and MERGE of edges between nodes that MATCH finds.
Apply(g, w) ==
  LET images == Over(w.images, g.images)
  IN  [images |-> images,
       depends |-> g.depends \cup {d \in w.depends : d[1] \in DOMAIN images /\ d[2] \in DOMAIN images},
       binds |-> g.binds \cup {b \in w.binds : b[1] \in DOMAIN images}]

(***************************************************************************)
(* docker-compose: a file is a set of services with their image, the names *)
(* they depend on and their port mappings.                                 *)
(***************************************************************************)
\* A service that is no mapping is skipped with a warning.
Declared(f) == {s \in f.services : s.isMapping}

\* _parse_port_mapping: what it cannot read is skipped, a number out of range
\* raises InvalidPortError, and nothing at all is written.
PortInfo(s) == {p \in s.ports : p.readable}
PortsAreValid(f) == \A s \in Declared(f) : \A p \in PortInfo(s) : p.port \in 1 .. 65535

ServiceWrites(f, phase) ==
  {[Statement EXCEPT !.phase = phase, !.images = [n \in {s.name} |-> s.image]] : s \in Declared(f)}

DependsWrites(s, phase) ==
  {[Statement EXCEPT !.phase = phase, !.depends = {<<s.name, n>>}] : n \in s.dependsOn}

BindsWrites(s, phase) ==
  {[Statement EXCEPT !.phase = phase, !.binds = {<<s.name, p.port, p.protocol>>}] : p \in PortInfo(s)}

RelationWrites(f, phase) ==
  UNION {DependsWrites(s, phase) \cup BindsWrites(s, phase) : s \in Declared(f)}

\* Mutant: relationships are written before the services.
ComposeWrites_RelationsFirst(f) == ServiceWrites(f, 2) \cup RelationWrites(f, 1)

\* _write_to_neo4j: a statement, and so a transaction, each.
ComposeWrites(f) == ServiceWrites(f, 1) \cup RelationWrites(f, 2)

(***************************************************************************)
(* Writing the graph.                                                      *)
(***************************************************************************)
\* The whole file is parsed before anything is written.
Parse(r, c, label, statements) ==
  /\ pc[r] = "new"
  /\ command' = [command EXCEPT ![r] = c]
  /\ writes' = [writes EXCEPT ![r] = statements]
  /\ Goto(r, label)
  /\ UNCHANGED <<tries, toTry, branch, at, chunks, sent, unheard, stores, faults>>

ParseCompose(r) ==
  \E f \in Files \cap MayRun[r] :
    IF PortsAreValid(f)
    THEN Parse(r, f, "write", ComposeWrites(f))
    ELSE Parse(r, f, "failed", {})

\* A brace without its match or a proxy_pass without a host is a SwagReaderError.
ParseSwag(r) ==
  \E c \in Configs \cap MayRun[r] : Parse(r, c, IF c.isValid THEN "proxies" ELSE "failed", {})

\* write_proxies sets p.metadata to a map, which no property can hold: Neo4j
\* refuses the first batch, of the one proxy, and IngestSwagError ends the run.
WriteProxies(r) ==
  /\ pc[r] = "proxies"
  /\ Goto(r, "failed")
  /\ UNCHANGED <<readerVars, runVars, stores, faults>>

NextStatements(r) == {w \in writes[r] : \A v \in writes[r] : ~Precedes(v, w)}

RunStatement(r) ==
  /\ pc[r] = "write"
  /\ \E w \in NextStatements(r) :
       /\ graph' = Apply(graph, w)
       /\ writes' = [writes EXCEPT ![r] = @ \ {w}]
  /\ UNCHANGED <<pc, readerVars, at, chunks, sent, unheard, rows, points, faults>>

FinishWriting(r) ==
  /\ pc[r] = "write"
  /\ writes[r] = {}
  /\ Goto(r, "done")
  /\ UNCHANGED <<readerVars, runVars, stores, faults>>

\* The statement was committed and its answer lost: no result is consumed, but
\* the session fetches it before the next statement, and raises there.
StatementFails(r) ==
  /\ Fault
  /\ pc[r] = "write"
  /\ \E w \in NextStatements(r) : graph' = Apply(graph, w)
  /\ Goto(r, "failed")
  /\ UNCHANGED <<readerVars, runVars, rows, points>>

\* After the last statement it is fetched when the session closes, which drops
\* the error: the command goes on as if the statement had been committed.
LastAnswerUnread(r) ==
  /\ Fault
  /\ pc[r] = "write"
  /\ \E w \in writes[r] :
       /\ writes[r] = {w}
       /\ graph' \in {graph, Apply(graph, w)}
       /\ unheard' = [unheard EXCEPT ![r] = w]
  /\ writes' = [writes EXCEPT ![r] = {}]
  /\ UNCHANGED <<pc, readerVars, at, chunks, sent, rows, points>>

Ended == {"done", "ignored", "failed"}

\* A call raises before it has an effect, or the process dies.
Fail(r) ==
  /\ Fault
  /\ pc[r] \notin Ended \cup {"new"}
  /\ Goto(r, "failed")
  /\ UNCHANGED <<readerVars, runVars, stores>>

(***************************************************************************)
(* Specification.                                                          *)
(***************************************************************************)
Step(r) ==
  \/ Load(r) \/ BranchMissing(r) \/ ReadDocument(r)
  \/ FinishGithub(r) \/ FinishElasticsearch(r) \/ FinishYoutube(r)
  \/ FinishReddit(r) \/ FinishGmail(r)
  \/ Embed(r) \/ UpsertBatch(r) \/ WriteProxies(r) \/ RunStatement(r) \/ FinishWriting(r)

Failure(r) ==
  \/ LoadFails(r) \/ ReadFails(r) \/ UpsertFails(r)
  \/ StatementFails(r) \/ LastAnswerUnread(r) \/ Fail(r)

Next ==
  \E r \in Runs :
    \/ BeginGithub(r) \/ BeginWithoutDefault(r) \/ BeginElasticsearch(r)
    \/ BeginYoutube(r) \/ BeginReddit(r) \/ BeginGmail(r)
    \/ ParseCompose(r) \/ ParseSwag(r)
    \/ Step(r) \/ Failure(r)

Spec == Init /\ [][Next]_vars

\* A command that runs makes its calls, and each returns or raises.
FairSpec == Spec /\ \A r \in Runs : WF_vars(Step(r))

(***************************************************************************)
(* Properties.                                                             *)
(***************************************************************************)
StoredIds == (Branches \cup {"content"}) \X (Items \cup {None}) \X Texts
DrawnIds == Runs \X Nat \X Texts
Points == [doc : StoredIds \cup DrawnIds, position : Nat, drawn : {<<>>} \cup (Runs \X Nat)]

\* Type invariant.
TypeOK ==
  /\ pc \in [Runs -> {"new", "load", "read", "embed", "upsert", "proxies", "write"} \cup Ended]
  /\ command \in [Runs -> Commands \cup {NoCommand}]
  /\ toTry \in [Runs -> Seq(Branches)]
  /\ tries \in [Runs -> Nat]
  /\ \A r \in Runs : tries[r] <= MaxRetries * Len(toTry[r])
  /\ branch \in [Runs -> Branches \cup {None}]
  /\ at \in [Runs -> Nat]
  /\ chunks \in [Runs -> Seq(Points)]
  /\ sent \in [Runs -> Nat]
  /\ rows \in [Texts -> StoredIds \cup {NoRow}]
  /\ points \subseteq Points
  /\ faults \in 0 .. MaxFaults

\* A vector of a source that is to be extracted (GitHub, Elasticsearch) never
\* exists without its content in PostgreSQL, under whatever document id it was
\* stored first, and whichever of the runs failed in between.
TextOf(p) == p.doc[3]
ToBeExtracted(p) == p.drawn = <<>> \/ p.doc[1] = "content"

VectorsHaveContent ==
  \A p \in points : ToBeExtracted(p) => rows[TextOf(p)] # NoRow

\* A document command that says it is complete has every chunk of every
\* document it loaded in Qdrant, and the contents it stores in PostgreSQL.
IsDownload(r) == command[r] \in Downloads

DoneIsIndexed ==
  \A r \in Runs : pc[r] = "done" /\ IsDownload(r) =>
    \A i \in 1 .. Len(Docs(r)) :
      /\ IsStored(r) => rows[Docs(r)[i].text] # NoRow
      /\ \A k \in 1 .. ChunkCount[Docs(r)[i].text] : Chunk(r, i, k) \in points

\* A docker-compose command that says it is complete has every node of its file
\* in the graph and every edge between services the file declares, but for what
\* its last statement was to make when its failure was dropped with the session.
ServiceNames(f) == {s.name : s \in Declared(f)}

FileIsInGraph(f, lost) ==
  \A s \in Declared(f) :
    /\ s.name \in DOMAIN graph.images \cup DOMAIN lost.images
    /\ \A n \in s.dependsOn \cap ServiceNames(f) : <<s.name, n>> \in graph.depends \cup lost.depends
    /\ \A p \in PortInfo(s) : <<s.name, p.port, p.protocol>> \in graph.binds \cup lost.binds

DoneIsInGraph ==
  \A r \in Runs : pc[r] = "done" /\ command[r] \in Files => FileIsInGraph(command[r], unheard[r])

\* A GitHub run never stores a chunk a second time, however the runs before it
\* ended; and a docker-compose command, or a GitHub run, that repeats a complete
\* one adds nothing to what that left, whatever runs beside it: no row, no
\* point, no node, and no edge but to a service that another file has declared
\* meanwhile, or that statement whose failure the first run dropped.
StoresCopy(p) ==
  /\ p \notin points
  /\ \E old \in points : old.doc = p.doc /\ old.position = p.position

Moves(r) ==
  pc'[r] # pc[r] \/ at'[r] # at[r] \/ sent'[r] # sent[r] \/ writes'[r] # writes[r]

Repeats(r, q) ==
  /\ r # q
  /\ command[r] = command[q] /\ branch[r] = branch[q]
  /\ pc[q] = "done"
  /\ KindOf(r) \in {"github", "docker-compose"}

AddsNothingTo(f, made) ==
  /\ UNCHANGED <<rows, points>>
  /\ DOMAIN graph.images' \subseteq DOMAIN graph.images \cup DOMAIN made.images
  /\ graph.binds' \subseteq graph.binds \cup made.binds
  /\ \A d \in graph.depends' \ (graph.depends \cup made.depends) :
       f \in Files /\ d[2] \notin ServiceNames(f)

RerunAddsNothing ==
  [][/\ \A r \in Runs : KindOf(r) = "github" /\ Moves(r) => \A p \in points' : ~StoresCopy(p)
     /\ \A r, q \in Runs : Repeats(r, q) /\ Moves(r) => AddsNothingTo(command[r], unheard[q])]_vars

\* Every command ends, whatever branches are missing and calls fail.
RunsEnd == \A r \in Runs : pc[r] # "new" ~> pc[r] \in Ended
=============================================================================
