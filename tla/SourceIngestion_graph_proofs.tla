--------------------- MODULE SourceIngestion_graph_proofs ---------------------
(***************************************************************************)
(* Theorems about what the commands of SourceIngestion leave in the graph, *)
(* about running a command again, and about the steps a command has left,  *)
(* for any files, batch sizes and failures, and any number of runs beside  *)
(* each other.                                                             *)
(***************************************************************************)
EXTENDS SourceIngestion_proofs, FiniteSetTheorems

(***************************************************************************)
(* The statements of a docker-compose command.                             *)
(***************************************************************************)
NoNodes(w) == DOMAIN w.images = {}

IsService(w, s) == w.phase = 1 /\ DOMAIN w.images = {s.name} /\ w.depends = {} /\ w.binds = {}
IsDepends(w, s, n) ==
  w.phase = 2 /\ NoNodes(w) /\ w.depends = {<<s.name, n>>} /\ w.binds = {}
IsBinds(w, s, p) ==
  w.phase = 2 /\ NoNodes(w) /\ w.depends = {} /\ w.binds = {<<s.name, p.port, p.protocol>>}

\* A docker-compose command writes a node for each service it declares, then
\* the edges of each.
LEMMA ComposeStatements ==
  ASSUME NEW f \in Files
  PROVE  /\ \A w \in ComposeWrites(f) : \E s \in Declared(f) :
              \/ IsService(w, s)
              \/ \E n \in s.dependsOn : IsDepends(w, s, n)
              \/ \E p \in PortInfo(s) : IsBinds(w, s, p)
         /\ \A s \in Declared(f) :
              /\ \E w \in ComposeWrites(f) : IsService(w, s)
              /\ \A n \in s.dependsOn : \E w \in ComposeWrites(f) : IsDepends(w, s, n)
              /\ \A p \in PortInfo(s) : \E w \in ComposeWrites(f) : IsBinds(w, s, p)
<1> DEFINE V(s) == [Statement EXCEPT !.phase = 1, !.images = [n \in {s.name} |-> s.image]]
           D(s, n) == [Statement EXCEPT !.phase = 2, !.depends = {<<s.name, n>>}]
           B(s, p) == [Statement EXCEPT !.phase = 2, !.binds = {<<s.name, p.port, p.protocol>>}]
<1>1. \A s : IsService(V(s), s)
  BY DEF Statement, IsService
<1>2. \A s, n : IsDepends(D(s, n), s, n)
  BY DEF Statement, IsDepends, NoNodes
<1>3. \A s, p : IsBinds(B(s, p), s, p)
  BY DEF Statement, IsBinds, NoNodes
<1>4. /\ ServiceWrites(f, 1) = {V(s) : s \in Declared(f)}
      /\ \A s : DependsWrites(s, 2) = {D(s, n) : n \in s.dependsOn}
      /\ \A s : BindsWrites(s, 2) = {B(s, p) : p \in PortInfo(s)}
  BY DEF ServiceWrites, DependsWrites, BindsWrites
<1>5. \A w : w \in ComposeWrites(f) <=>
        \/ w \in ServiceWrites(f, 1)
        \/ \E s \in Declared(f) : w \in DependsWrites(s, 2) \/ w \in BindsWrites(s, 2)
  BY DEF ComposeWrites, RelationWrites
<1> HIDE DEF V, D, B
<1> QED
  BY <1>1, <1>2, <1>3, <1>4, <1>5

\* That none of them is, and none could run after.
LEMMA StatementIsNone ==
  ASSUME NEW f \in Files, NEW w \in ComposeWrites(f)
  PROVE  w # Statement /\ (w.phase = 1 \/ w.phase = 2)
<1>1. w.phase = 1 \/ w.phase = 2
  BY ComposeStatements DEF IsService, IsDepends, IsBinds
<1>2. Statement.phase = 0
  BY DEF Statement
<1> QED
  BY <1>1, <1>2

\* What Apply makes of a graph.
LEMMA ApplyFacts ==
  ASSUME NEW g, NEW w
  PROVE  LET h == Apply(g, w)
         IN  /\ DOMAIN h.images = DOMAIN g.images \cup DOMAIN w.images
             /\ h.depends = g.depends \cup
                  {d \in w.depends : d[1] \in DOMAIN h.images /\ d[2] \in DOMAIN h.images}
             /\ h.binds = g.binds \cup {b \in w.binds : b[1] \in DOMAIN h.images}
<1>1. DOMAIN Over(w.images, g.images) = DOMAIN g.images \cup DOMAIN w.images
  BY DEF Over
<1>2. Apply(g, w).images = Over(w.images, g.images)
  BY DEF Apply
<1> QED
  BY <1>1, <1>2 DEF Apply

(***************************************************************************)
(* The inductive invariant of the graph.                                   *)
(***************************************************************************)
\* What a statement has left in the graph: its node, its binding, and its
\* dependency if the file declares both ends.
Applied(f, w) ==
  /\ DOMAIN w.images \subseteq DOMAIN graph.images
  /\ w.binds \subseteq graph.binds
  /\ \A d \in w.depends : d[2] \in ServiceNames(f) => d \in graph.depends

\* The statements of a command that are not left to be run have been applied,
\* but for the one nobody heard of, which is the last.
HasRun(r, w) == Applied(command[r], w) \/ w = unheard[r]

WritesInv(r) ==
  /\ pc[r] = "write" => command[r] \in Files
  /\ pc[r] = "new" \/ (pc[r] = "write" /\ writes[r] # {}) => unheard[r] = Statement
  /\ pc[r] \in {"write", "done"} /\ command[r] \in Files =>
       /\ writes[r] \subseteq ComposeWrites(command[r])
       /\ \A w \in ComposeWrites(command[r]) \ writes[r] : HasRun(r, w)
  /\ pc[r] = "done" /\ command[r] \in Files => writes[r] = {}

GraphInv == DOMAIN writes = Runs /\ DOMAIN unheard = Runs /\ \A r \in Runs : WritesInv(r)

\* The graph only grows.
Grows ==
  /\ DOMAIN graph.images \subseteq DOMAIN graph.images'
  /\ graph.depends \subseteq graph.depends'
  /\ graph.binds \subseteq graph.binds'

LEMMA ApplyGrows ==
  ASSUME NEW w, graph' = Apply(graph, w)
  PROVE  Grows
  BY ApplyFacts DEF Grows

LEMMA AppliedStays ==
  ASSUME NEW c, NEW w, Applied(c, w), Grows
  PROVE  Applied(c, w)'
  BY DEF Applied, Grows, ServiceNames, Declared

\* The graph changes by a statement of a run that writes.
LEMMA GraphSteps ==
  ASSUME NEW r \in Runs, StepOf(r)
  PROVE  \/ UNCHANGED graph
         \/ /\ pc[r] = "write"
            /\ \E w \in writes[r] : graph' = Apply(graph, w)
  BY DEF StepOf, BeginOf, BeginGithub, BeginElasticsearch, BeginYoutube, BeginReddit, BeginGmail,
     Begin, BeginWithoutDefault, ParseCompose, ParseSwag, Parse, Step, Failure, Load,
     BranchMissing, LoadFails, TryAgain, ReadDocument, ReadFails, FinishGithub,
     FinishElasticsearch, FinishYoutube, FinishReddit, FinishGmail, FinishReading, Embed,
     UpsertBatch, UpsertFails, WriteProxies, RunStatement, FinishWriting, StatementFails, LastAnswerUnread, Fail, stores,
     NextStatements

LEMMA GraphGrows ==
  ASSUME NEW r \in Runs, StepOf(r)
  PROVE  Grows
<1>1. CASE UNCHANGED graph
  BY <1>1 DEF Grows
<1> QED
  BY <1>1, GraphSteps, ApplyGrows

\* The next statement of a docker-compose command, some of whose statements are
\* left, finds the services of the file, and leaves all it says.
LEMMA ComposeApplies ==
  ASSUME NEW f \in Files, NEW left, NEW w \in left \cap ComposeWrites(f),
         \A v \in left : ~Precedes(v, w),
         \A v \in ComposeWrites(f) \ left : Applied(f, v),
         graph' = Apply(graph, w)
  PROVE  Applied(f, w)'
<1> DEFINE after == DOMAIN graph'.images
<1>1. ServiceNames(f)' = ServiceNames(f)
  BY DEF ServiceNames, Declared
<1>2. /\ after = DOMAIN graph.images \cup DOMAIN w.images
      /\ graph'.depends = graph.depends \cup {d \in w.depends : d[1] \in after /\ d[2] \in after}
      /\ graph'.binds = graph.binds \cup {b \in w.binds : b[1] \in after}
  BY ApplyFacts
<1>3. after = DOMAIN graph'.images
  OBVIOUS
<1> HIDE DEF after
\* A relation is preceded by the services.
<1>4. ASSUME NEW s \in Declared(f), w.phase = 2
      PROVE  s.name \in after
  <2>1. PICK v \in ComposeWrites(f) : IsService(v, s)
    BY ComposeStatements
  <2>2. v \notin left
    BY <1>4, <2>1 DEF IsService, Precedes
  <2>3. s.name \in DOMAIN graph.images
    BY <2>1, <2>2 DEF Applied, IsService
  <2> QED
    BY <1>2, <2>3
<1>5. PICK s \in Declared(f) :
        \/ IsService(w, s)
        \/ \E n \in s.dependsOn : IsDepends(w, s, n)
        \/ \E p \in PortInfo(s) : IsBinds(w, s, p)
  BY ComposeStatements
<1>6. CASE IsService(w, s)
  BY <1>1, <1>2, <1>3, <1>6 DEF IsService, Applied
<1>7. CASE \E n \in s.dependsOn : IsDepends(w, s, n)
  <2>1. PICK n \in s.dependsOn : IsDepends(w, s, n)
    BY <1>7
  <2>2. s.name \in after
    BY <1>4, <2>1 DEF IsDepends
  <2>3. n \in ServiceNames(f) => n \in after
    BY <1>4, <2>1 DEF IsDepends, ServiceNames
  <2>4. \A d \in w.depends : d[1] = s.name /\ d[2] = n
    BY <2>1 DEF IsDepends
  <2> QED
    BY <1>1, <1>2, <1>3, <2>1, <2>2, <2>3, <2>4 DEF IsDepends, NoNodes, Applied
<1>8. CASE \E p \in PortInfo(s) : IsBinds(w, s, p)
  <2>1. PICK p \in PortInfo(s) : IsBinds(w, s, p)
    BY <1>8
  <2>2. s.name \in after
    BY <1>4, <2>1 DEF IsBinds
  <2>3. \A b \in w.binds : b[1] = s.name
    BY <2>1 DEF IsBinds
  <2> QED
    BY <1>1, <1>2, <1>3, <2>1, <2>2, <2>3 DEF IsBinds, NoNodes, Applied
<1> QED
  BY <1>5, <1>6, <1>7, <1>8

\* As long as one is left, none of them is unheard of.
LEMMA AllHeard ==
  ASSUME NEW r \in Runs, pc[r] = "write", WritesInv(r), writes[r] # {}
  PROVE  /\ command[r] \in Files /\ writes[r] \subseteq ComposeWrites(command[r])
         /\ \A w \in ComposeWrites(command[r]) \ writes[r] : Applied(command[r], w)
<1>1. command[r] \in Files /\ unheard[r] = Statement
  BY DEF WritesInv
<1>2. /\ writes[r] \subseteq ComposeWrites(command[r])
      /\ \A w \in ComposeWrites(command[r]) \ writes[r] : HasRun(r, w)
  BY <1>1 DEF WritesInv
<1> QED
  BY <1>1, <1>2, StatementIsNone DEF HasRun

\* A step of another run leaves what a run has written.
LEMMA OthersWrites ==
  ASSUME TypeOK, DOMAIN writes = Runs, DOMAIN unheard = Runs,
         NEW r \in Runs, RunInv(r), StepOf(r), NEW q \in Runs, q # r, WritesInv(q)
  PROVE  WritesInv(q)' /\ writes'[q] = writes[q]
<1>1. pc'[q] = pc[q] /\ command'[q] = command[q]
  BY OthersFrame
<1>2. writes'[q] = writes[q] /\ unheard'[q] = unheard[q]
  BY DEF StepOf, BeginOf, BeginGithub, BeginElasticsearch, BeginYoutube, BeginReddit, BeginGmail,
     Begin, BeginWithoutDefault, ParseCompose, ParseSwag, Parse, Step, Failure, Load,
     BranchMissing, LoadFails, TryAgain, ReadDocument, ReadFails, FinishGithub,
     FinishElasticsearch, FinishYoutube, FinishReddit, FinishGmail, FinishReading, Embed,
     UpsertBatch, UpsertFails, WriteProxies, RunStatement, FinishWriting, StatementFails, LastAnswerUnread, Fail, runVars
<1>3. Grows
  BY GraphGrows
<1>4. ASSUME NEW w, HasRun(q, w) PROVE HasRun(q, w)'
  BY <1>1, <1>2, <1>3, <1>4 DEF HasRun, Applied, Grows, ServiceNames, Declared
<1> QED
  BY <1>1, <1>2, <1>4 DEF WritesInv

\* So does its own: it parses, runs a statement, loses the answer to its last
\* one, finishes, or has nothing to do with the graph any more.
LEMMA OwnWrites ==
  ASSUME TypeOK, DOMAIN writes = Runs, DOMAIN unheard = Runs,
         NEW r \in Runs, RunInv(r), StepOf(r), WritesInv(r)
  PROVE  WritesInv(r)'
<1>0. /\ pc \in [Runs -> PCs] /\ DOMAIN command = Runs
      /\ PlaceInv(r)
  BY DEF TypeOK, PCs, RunInv
<1>1. CASE ParseCompose(r)
  <2>1. PICK f \in Files :
          /\ command' = [command EXCEPT ![r] = f]
          /\ \/ writes' = [writes EXCEPT ![r] = ComposeWrites(f)] /\ pc' = [pc EXCEPT ![r] = "write"]
             \/ pc' = [pc EXCEPT ![r] = "failed"]
          /\ pc[r] = "new" /\ unheard' = unheard
    BY <1>1 DEF ParseCompose, Parse, Goto
  <2>2. command'[r] = f /\ unheard'[r] = Statement
    BY <1>0, <2>1 DEF WritesInv
  <2>3. \/ pc'[r] = "write" /\ writes'[r] = ComposeWrites(f)
        \/ pc'[r] = "failed"
    BY <1>0, <2>1
  <2> QED
    BY <2>2, <2>3 DEF WritesInv
<1>2. CASE RunStatement(r)
  <2>1. PICK w \in NextStatements(r) :
          graph' = Apply(graph, w) /\ writes' = [writes EXCEPT ![r] = @ \ {w}]
    BY <1>2 DEF RunStatement
  <2>2. /\ pc[r] = "write" /\ pc' = pc /\ command' = command /\ unheard' = unheard
        /\ writes'[r] = writes[r] \ {w}
        /\ w \in writes[r] /\ \A v \in writes[r] : ~Precedes(v, w)
    BY <1>2, <2>1 DEF RunStatement, readerVars, NextStatements
  <2>3. /\ command[r] \in Files /\ writes[r] \subseteq ComposeWrites(command[r])
        /\ \A v \in ComposeWrites(command[r]) \ writes[r] : Applied(command[r], v)
        /\ unheard[r] = Statement
    BY <2>2, AllHeard DEF WritesInv
  <2>4. Applied(command[r], w)'
    <3>1. w \in writes[r] \cap ComposeWrites(command[r])
      BY <2>2, <2>3
    <3> QED
      BY <2>1, <2>2, <2>3, <3>1, ComposeApplies
  <2>5. ASSUME NEW v, Applied(command[r], v) PROVE Applied(command[r], v)'
    BY <2>1, <2>2, <2>5, ApplyGrows DEF Applied, Grows, ServiceNames, Declared
  <2>6. \A v \in ComposeWrites(command[r]) \ writes'[r] : Applied(command[r], v)'
    BY <2>2, <2>3, <2>4, <2>5
  <2> QED
    BY <2>2, <2>3, <2>6 DEF WritesInv, HasRun
<1>3. CASE LastAnswerUnread(r)
  <2>1. PICK w \in writes[r] :
          /\ writes[r] = {w}
          /\ unheard' = [unheard EXCEPT ![r] = w]
          /\ graph' = graph \/ graph' = Apply(graph, w)
    BY <1>3 DEF LastAnswerUnread
  <2>2. /\ pc[r] = "write" /\ pc' = pc /\ command' = command
        /\ writes'[r] = {} /\ unheard'[r] = w
    BY <1>3, <2>1 DEF LastAnswerUnread, readerVars
  <2>3. /\ command[r] \in Files
        /\ \A v \in ComposeWrites(command[r]) \ {w} : Applied(command[r], v)
    BY <2>1, <2>2, AllHeard
  <2>4. Grows
    BY <2>1, ApplyGrows DEF Grows
  <2>5. ASSUME NEW v, Applied(command[r], v) PROVE Applied(command[r], v)'
    BY <2>2, <2>4, <2>5 DEF Applied, Grows, ServiceNames, Declared
  <2>6. \A v \in ComposeWrites(command[r]) : HasRun(r, v)'
    BY <2>2, <2>3, <2>5 DEF HasRun
  <2> QED
    BY <2>2, <2>3, <2>6 DEF WritesInv
<1>4. CASE FinishWriting(r)
  <2>1. /\ pc[r] = "write" /\ pc'[r] = "done" /\ writes[r] = {}
        /\ UNCHANGED <<command, writes, unheard, graph>>
    BY <1>0, <1>4 DEF FinishWriting, Goto, readerVars, runVars, stores
  <2> QED
    BY <2>1 DEF WritesInv, HasRun, Applied, ServiceNames, Declared
<1>5. ASSUME pc'[r] \notin {"new", "write"}, pc'[r] = "done" => command'[r] \in Downloads
      PROVE  WritesInv(r)'
  BY <1>5, GraphCommands DEF WritesInv
<1>6. CASE BeginOf(r)
  BY <1>0, <1>5, <1>6, BeginFacts
<1>7. CASE ParseSwag(r) \/ WriteProxies(r)
  BY <1>0, <1>5, <1>7 DEF ParseSwag, Parse, WriteProxies, Goto
<1>8. CASE Load(r) \/ BranchMissing(r) \/ LoadFails(r)
  BY <1>0, <1>5, <1>8 DEF Load, BranchMissing, LoadFails, TryAgain, Goto
<1>9. CASE ReadDocument(r)
  BY <1>0, <1>5, <1>9 DEF ReadDocument
<1>10. CASE FinishOf(r) \/ Embed(r) \/ UpsertBatch(r)
  <2>1. /\ pc[r] \in {"read", "embed", "upsert"} /\ command' = command
        /\ pc'[r] \in {"done", "ignored", "embed", "upsert"}
    BY <1>0, <1>10 DEF FinishOf, FinishGithub, FinishElasticsearch, FinishYoutube, FinishReddit,
       FinishGmail, FinishReading, Embed, UpsertBatch, Goto, readerVars
  <2> QED
    BY <1>0, <1>5, <2>1 DEF PlaceInv, Loaded
<1>11. CASE ReadFails(r) \/ UpsertFails(r) \/ StatementFails(r) \/ Fail(r)
  BY <1>0, <1>5, <1>11 DEF ReadFails, UpsertFails, StatementFails, Fail, Goto
<1> QED
  BY <1>1, <1>2, <1>3, <1>4, <1>6, <1>7, <1>8, <1>9, <1>10, <1>11
     DEF StepOf, Step, Failure, FinishOf

LEMMA GraphInit == Init => GraphInv
  BY DEF Init, GraphInv, WritesInv

LEMMA GraphStep == Inv /\ GraphInv /\ [Next]_vars => GraphInv'
<1> SUFFICES ASSUME Inv, GraphInv, [Next]_vars PROVE GraphInv'
  OBVIOUS
<1>1. CASE UNCHANGED vars
  <2>1. UNCHANGED <<pc, command, writes, unheard, graph>>
    BY <1>1 DEF vars, readerVars, runVars, stores
  <2> QED
    BY <2>1 DEF GraphInv, WritesInv, HasRun, Applied, ServiceNames, Declared
<1>2. ASSUME NEW r \in Runs, StepOf(r) PROVE GraphInv'
  <2>1. /\ TypeOK /\ RunInv(r) /\ DOMAIN writes = Runs /\ DOMAIN unheard = Runs
        /\ \A q \in Runs : WritesInv(q)
    BY DEF Inv, GraphInv
  <2>2. DOMAIN writes' = Runs /\ DOMAIN unheard' = Runs
    BY <1>2, <2>1 DEF StepOf, BeginOf, BeginGithub, BeginElasticsearch, BeginYoutube, BeginReddit,
       BeginGmail, Begin, BeginWithoutDefault, ParseCompose, ParseSwag, Parse, Step, Failure, Load,
       BranchMissing, LoadFails, TryAgain, ReadDocument, ReadFails, FinishGithub,
       FinishElasticsearch, FinishYoutube, FinishReddit, FinishGmail, FinishReading, Embed,
       UpsertBatch, UpsertFails, WriteProxies, RunStatement, FinishWriting, StatementFails,
       LastAnswerUnread, Fail, runVars
  <2>3. WritesInv(r)'
    BY <1>2, <2>1, OwnWrites
  <2>4. ASSUME NEW q \in Runs, q # r PROVE WritesInv(q)'
    BY <1>2, <2>1, <2>4, OthersWrites
  <2> QED
    BY <2>2, <2>3, <2>4 DEF GraphInv
<1> QED
  BY <1>1, <1>2 DEF Next, StepOf, BeginOf

\* The statements a docker-compose command no longer has to run have all had
\* their effect, whatever other commands write meanwhile, but for the last one
\* if its failure was dropped with the session.
THEOREM GraphInvariance == Spec => []GraphInv
  BY GraphInit, GraphStep, Invariance, PTL DEF Spec

\* When every statement but a lost one has been applied, the graph says what
\* the file said.
LEMMA FileApplied ==
  ASSUME NEW f \in Files, NEW lost, \A w \in ComposeWrites(f) : Applied(f, w) \/ w = lost
  PROVE  FileIsInGraph(f, lost)
<1> SUFFICES ASSUME NEW s \in Declared(f)
             PROVE  /\ s.name \in DOMAIN graph.images \cup DOMAIN lost.images
                    /\ \A n \in s.dependsOn \cap ServiceNames(f) :
                         <<s.name, n>> \in graph.depends \cup lost.depends
                    /\ \A p \in PortInfo(s) :
                         <<s.name, p.port, p.protocol>> \in graph.binds \cup lost.binds
  BY DEF FileIsInGraph
<1>1. s.name \in DOMAIN graph.images \cup DOMAIN lost.images
  <2>1. PICK w \in ComposeWrites(f) : IsService(w, s)
    BY ComposeStatements
  <2> QED
    BY <2>1 DEF IsService, Applied
<1>2. ASSUME NEW n \in s.dependsOn, n \in ServiceNames(f)
      PROVE  <<s.name, n>> \in graph.depends \cup lost.depends
  <2>1. PICK w \in ComposeWrites(f) : IsDepends(w, s, n)
    BY ComposeStatements
  <2>2. <<s.name, n>>[2] = n
    OBVIOUS
  <2> QED
    BY <1>2, <2>1, <2>2 DEF IsDepends, Applied
<1>3. ASSUME NEW p \in PortInfo(s)
      PROVE  <<s.name, p.port, p.protocol>> \in graph.binds \cup lost.binds
  <2>1. PICK w \in ComposeWrites(f) : IsBinds(w, s, p)
    BY ComposeStatements
  <2> QED
    BY <2>1 DEF IsBinds, Applied
<1> QED
  BY <1>1, <1>2, <1>3

\* A docker-compose command that reports success has left everything its file
\* says in Neo4j, but for what a last statement that failed unheard was to make:
\* no edge is lost because its nodes were not there yet, however its statements
\* fell between those of others.
THEOREM GraphIsWritten == Spec => []DoneIsInGraph
<1>1. GraphInv => DoneIsInGraph
  BY FileApplied DEF GraphInv, WritesInv, HasRun, DoneIsInGraph
<1> QED
  BY <1>1, GraphInvariance, PTL

(***************************************************************************)
(* Running a command again.                                                *)
(***************************************************************************)
\* The chunks of a run are those of its documents, and nothing else; and what is
\* in Qdrant is a chunk of GitHub, whose id follows from its document and place,
\* or of a document that GitHub has not.
IsChunkOf(r, p) ==
  \E i \in 1 .. Len(Docs(r)) : \E k \in 1 .. ChunkCount[Docs(r)[i].text] : p = Chunk(r, i, k)
OwnChunks(r) == Loaded(r) => \A j \in 1 .. Len(chunks[r]) : IsChunkOf(r, chunks[r][j])
NotOfGithub(p) == p.drawn # <<>> => p.doc[2] = None \/ p.doc[1] \in Runs
ChunksInv ==
  /\ \A r \in Runs : OwnChunks(r)
  /\ \A p \in points : NotOfGithub(p)

LEMMA SameChunks ==
  ASSUME NEW r \in Runs, command'[r] = command[r], branch'[r] = branch[r],
         chunks'[r] = chunks[r], OwnChunks(r), Loaded(r)' => Loaded(r)
  PROVE  OwnChunks(r)'
<1>1. /\ Docs(r)' = Docs(r)
      /\ \A i, k : Chunk(r, i, k)' = Chunk(r, i, k)
  BY SameDocuments
<1> QED
  BY <1>1 DEF OwnChunks, IsChunkOf

LEMMA ReadChunks ==
  ASSUME TypeOK, NEW r \in Runs, RunInv(r), OwnChunks(r), ReadDocument(r)
  PROVE  OwnChunks(r)'
<1> DEFINE i == at[r] + 1
           n == ChunkCount[Docs(r)[i].text]
           m == Len(chunks[r])
<1>1. /\ pc[r] = "read" /\ i \in 1 .. Len(Docs(r))
      /\ command[r] \in Downloads /\ branch[r] \in DOMAIN command[r].branches
      /\ Len(chunks'[r]) = m + n
      /\ \A j \in 1 .. m : chunks'[r][j] = chunks[r][j]
      /\ \A k \in 1 .. n : chunks'[r][m + k] = Chunk(r, i, k)
  BY ReadFacts DEF RunInv
<1>2. UNCHANGED readerVars
  BY DEF ReadDocument
<1>3. Docs(r)' = Docs(r) /\ \A l, k : Chunk(r, l, k)' = Chunk(r, l, k)
  BY <1>2, SameDocuments DEF readerVars
<1>4. m \in Nat /\ n \in Nat
  BY <1>1, DocsTypes DEF TypeOK
<1> HIDE DEF m
<1>5. ASSUME NEW j \in 1 .. m + n PROVE IsChunkOf(r, chunks'[r][j])
  <2>1. CASE j \in 1 .. m
    BY <1>1, <2>1 DEF OwnChunks, Loaded, m
  <2>2. CASE j \notin 1 .. m
    <3>1. j - m \in 1 .. n /\ m + (j - m) = j
      BY <1>4, <1>5, <2>2
    <3> QED
      BY <1>1, <3>1 DEF IsChunkOf
  <2> QED
    BY <2>1, <2>2
<1> QED
  BY <1>1, <1>3, <1>5 DEF OwnChunks, IsChunkOf

LEMMA OwnChunksStep ==
  ASSUME Inv, ChunksInv, [Next]_vars, NEW r \in Runs
  PROVE  OwnChunks(r)'
<1>0. TypeOK /\ RunInv(r) /\ PlaceInv(r) /\ OwnChunks(r)
  BY DEF Inv, RunInv, ChunksInv
<1>1. CASE UNCHANGED vars
  <2>1. UNCHANGED <<pc, command, branch, chunks>>
    BY <1>1 DEF vars, readerVars, runVars
  <2>2. IsDownload(r)' = IsDownload(r)
    BY <2>1 DEF IsDownload
  <2> QED
    BY <1>0, <2>1, <2>2, SameChunks DEF Loaded
<1>2. ASSUME NEW t \in Runs, StepOf(t), t # r PROVE OwnChunks(r)'
  <2>1. /\ pc'[r] = pc[r] /\ command'[r] = command[r] /\ branch'[r] = branch[r]
        /\ chunks'[r] = chunks[r]
    BY <1>2, OthersFrame DEF Inv
  <2>2. IsDownload(r)' = IsDownload(r)
    BY <2>1 DEF IsDownload
  <2> QED
    BY <1>0, <2>1, <2>2, SameChunks DEF Loaded
<1>3. ASSUME StepOf(r) PROVE OwnChunks(r)'
  <2>0. pc \in [Runs -> PCs] /\ DOMAIN command = Runs
    BY <1>0 DEF TypeOK, PCs
  <2>1. CASE \/ BeginOf(r) \/ ParseCompose(r) \/ ParseSwag(r) \/ BranchMissing(r) \/ LoadFails(r)
             \/ WriteProxies(r) \/ ReadFails(r) \/ UpsertFails(r) \/ StatementFails(r) \/ Fail(r)
    <3>1. pc'[r] \in {"load", "write", "proxies", "failed", "ignored"}
      BY <1>0, <2>0, <2>1, BeginFacts, ParseFacts DEF BranchMissing, LoadFails, TryAgain,
         WriteProxies, ReadFails, UpsertFails, StatementFails, Fail, Goto
    <3> QED
      BY <3>1 DEF OwnChunks, Loaded
  <2>2. CASE Load(r)
    <3>1. chunks'[r] = <<>> /\ Len(<<>>) = 0
      BY <1>0, <2>2 DEF Load, runVars, PlaceInv
    <3> QED
      BY <3>1 DEF OwnChunks
  <2>3. CASE ReadDocument(r)
    BY <1>0, <2>3, ReadChunks
  <2>4. CASE FinishOf(r) \/ Embed(r) \/ UpsertBatch(r)
    <3>1. UNCHANGED <<readerVars, chunks>> /\ pc[r] \in {"read", "embed", "upsert"}
      BY <2>4 DEF FinishOf, FinishGithub, FinishElasticsearch, FinishYoutube, FinishReddit,
         FinishGmail, FinishReading, Embed, UpsertBatch, runVars
    <3> QED
      BY <1>0, <3>1, SameChunks DEF readerVars, Loaded
  <2>5. CASE RunStatement(r) \/ LastAnswerUnread(r) \/ FinishWriting(r)
    <3>1. pc[r] = "write" /\ pc'[r] \in {"write", "done"} /\ command' = command
      BY <2>0, <2>5 DEF RunStatement, LastAnswerUnread, FinishWriting, Goto, readerVars
    <3> QED
      BY <1>0, <3>1 DEF OwnChunks, Loaded, IsDownload, PlaceInv
  <2> QED
    BY <1>3, <2>1, <2>2, <2>3, <2>4, <2>5 DEF StepOf, Step, Failure, FinishOf
<1> QED
  BY <1>1, <1>2, <1>3 DEF Next, StepOf, BeginOf

\* Qdrant changes by a batch of a run that writes vectors.
LEMMA PointsSteps ==
  ASSUME NEW r \in Runs, StepOf(r)
  PROVE  \/ UNCHANGED points
         \/ pc[r] = "upsert" /\ points \subseteq points' /\ points' \subseteq points \cup Batch(r)
  BY DEF StepOf, BeginOf, BeginGithub, BeginElasticsearch, BeginYoutube, BeginReddit, BeginGmail,
     Begin, BeginWithoutDefault, ParseCompose, ParseSwag, Parse, Step, Failure, Load,
     BranchMissing, LoadFails, TryAgain, ReadDocument, ReadFails, FinishGithub,
     FinishElasticsearch, FinishYoutube, FinishReddit, FinishGmail, FinishReading, Embed,
     UpsertBatch, UpsertFails, WriteProxies, RunStatement, FinishWriting, StatementFails, LastAnswerUnread, Fail, stores

LEMMA ChunksStep == Inv /\ ChunksInv /\ [Next]_vars => ChunksInv'
<1> SUFFICES ASSUME Inv, ChunksInv, [Next]_vars, NEW p \in points' PROVE NotOfGithub(p)
  BY OwnChunksStep DEF ChunksInv, NotOfGithub
<1>1. CASE p \in points
  BY <1>1 DEF ChunksInv
<1>2. CASE p \notin points
  <2>1. PICK r \in Runs : pc[r] = "upsert" /\ p \in Batch(r)
    <3>1. ~UNCHANGED vars
      BY <1>2 DEF vars, stores
    <3>2. PICK r \in Runs : StepOf(r)
      BY <3>1 DEF Next, StepOf, BeginOf
    <3> QED
      BY <1>2, <3>2, PointsSteps
  <2>2. Loaded(r) /\ sent[r] <= Len(chunks[r]) /\ OwnChunks(r)
    BY <2>1 DEF Inv, RunInv, ChunkInv, Loaded, ChunksInv
  <2>3. PICK j \in 1 .. Len(chunks[r]) : p = chunks[r][j]
    BY <2>1, <2>2, BatchTypes DEF Inv
  <2>4. PICK i \in 1 .. Len(Docs(r)) : \E k : p = Chunk(r, i, k)
    BY <2>2, <2>3 DEF OwnChunks, IsChunkOf
  <2>5. CASE KindOf(r) = "github"
    BY <2>4, <2>5 DEF Chunk, NotOfGithub
  <2>6. CASE KindOf(r) = "elasticsearch"
    BY <2>4, <2>6 DEF Chunk, DocId, ElasticsearchDocId, NotOfGithub
  <2>7. CASE KindOf(r) \notin {"github", "elasticsearch"}
    BY <2>4, <2>7 DEF Chunk, DocId, DrawnDocId, NotOfGithub
  <2> QED
    BY <2>5, <2>6, <2>7
<1> QED
  BY <1>1, <1>2

THEOREM ChunksInvariance == Spec => []ChunksInv
<1>1. Init => ChunksInv
  BY DEF Init, ChunksInv, OwnChunks, Loaded
<1> QED
  BY <1>1, ChunksStep, Invariance, PTL DEF Spec

\* PostgreSQL changes by the next document of a run that reads.
LEMMA RowsSteps ==
  ASSUME NEW r \in Runs, StepOf(r), TypeOK
  PROVE  \/ UNCHANGED rows
         \/ pc[r] = "read" /\ at[r] < Len(Docs(r)) /\ Store(r, at[r] + 1)
<1>1. CASE ReadDocument(r)
  <2>1. at[r] + 1 <= Len(Docs(r)) /\ at[r] \in Nat
    BY <1>1 DEF ReadDocument, TypeOK
  <2> QED
    BY <1>1, <2>1 DEF ReadDocument
<1>2. CASE ReadFails(r)
  BY <1>2 DEF ReadFails
<1>3. ReadDocument(r) \/ ReadFails(r) \/ UNCHANGED rows
  BY DEF StepOf, BeginOf, BeginGithub, BeginElasticsearch, BeginYoutube, BeginReddit, BeginGmail,
     Begin, BeginWithoutDefault, ParseCompose, ParseSwag, Parse, Step, Failure, Load,
     BranchMissing, LoadFails, TryAgain, FinishGithub,
     FinishElasticsearch, FinishYoutube, FinishReddit, FinishGmail, FinishReading, Embed,
     UpsertBatch, UpsertFails, WriteProxies, RunStatement, FinishWriting, StatementFails,
     LastAnswerUnread, Fail, stores
<1> QED
  BY <1>1, <1>2, <1>3

\* Two runs of a GitHub command on one branch give their chunks the same ids.
LEMMA GithubIds ==
  ASSUME NEW r \in Runs, NEW q \in Runs, command[r] = command[q], branch[r] = branch[q],
         KindOf(r) = "github"
  PROVE  Docs(r) = Docs(q) /\ \A i, k : Chunk(r, i, k) = Chunk(q, i, k)
<1>1. Docs(r) = Docs(q) /\ KindOf(q) = "github"
  BY DEF Docs, KindOf
<1>2. ASSUME NEW i PROVE DocId(r, i) = DocId(q, i)
  BY <1>1 DEF DocId, GithubDocId
<1> QED
  BY <1>1, <1>2 DEF Chunk

\* A chunk of GitHub that is there already is the same point.
LEMMA GithubCopies ==
  ASSUME Inv, ChunksInv, NEW r \in Runs, StepOf(r), KindOf(r) = "github",
         NEW p \in points'
  PROVE  ~StoresCopy(p)
<1> SUFFICES ASSUME p \notin points, NEW old \in points, old.doc = p.doc, old.position = p.position
             PROVE  FALSE
  BY DEF StoresCopy
<1>1. pc[r] = "upsert" /\ p \in Batch(r)
  BY PointsSteps
<1>2. /\ Loaded(r) /\ command[r] \in Downloads /\ branch[r] \in DOMAIN command[r].branches
      /\ sent[r] <= Len(chunks[r]) /\ OwnChunks(r)
  BY <1>1 DEF Inv, RunInv, PlaceInv, ChunkInv, Loaded, ChunksInv
<1>3. PICK j \in 1 .. Len(chunks[r]) : p = chunks[r][j]
  BY <1>1, <1>2, BatchTypes DEF Inv
<1>4. PICK i \in 1 .. Len(Docs(r)) : \E k : p = Chunk(r, i, k)
  BY <1>2, <1>3 DEF OwnChunks, IsChunkOf
<1>5. PICK k : p = [doc |-> GithubDocId(r, Docs(r)[i]), position |-> k, drawn |-> <<>>]
  BY <1>4 DEF Chunk, DocId
<1>6. Docs(r)[i].item \in Items /\ branch[r] \in Branches
  BY <1>2, <1>4, DocsTypes, CommandTypes
<1>7. old.doc[1] \notin Runs /\ old.doc[2] # None
  BY <1>5, <1>6, SourceAssumption DEF GithubDocId
<1>8. old.drawn = <<>>
  BY <1>7 DEF ChunksInv, NotOfGithub
<1>9. old \in Points
  BY DEF Inv, TypeOK
<1>10. old = [doc |-> old.doc, position |-> old.position, drawn |-> old.drawn]
  BY <1>9 DEF Points
<1> QED
  BY <1>5, <1>8, <1>10

\* No step of a repeated command adds a point, nor a row.
LEMMA RerunPoints ==
  ASSUME Inv, ChunksInv, NEW r \in Runs, StepOf(r), NEW q \in Runs, Repeats(r, q)
  PROVE  UNCHANGED <<rows, points>>
<1>1. ASSUME Loaded(r)
      PROVE  /\ Docs(r) = Docs(q) /\ \A i, k : Chunk(r, i, k) = Chunk(q, i, k)
             /\ \A i \in 1 .. Len(Docs(q)) :
                  /\ rows[Docs(q)[i].text] # NoRow
                  /\ \A k \in 1 .. ChunkCount[Docs(q)[i].text] : Chunk(q, i, k) \in points
  <2>1. command[r] \in Downloads
    BY <1>1 DEF Inv, RunInv, PlaceInv
  <2>2. KindOf(r) = "github" /\ KindOf(q) = "github"
    BY <2>1, CommandTypes DEF Repeats, KindOf
  <2> QED
    BY <2>1, <2>2, GithubIds, IndexedIfInv DEF Repeats, DoneIsIndexed, IsDownload, IsStored
<1>2. UNCHANGED points
  <2>1. CASE UNCHANGED points
    BY <2>1
  <2>2. CASE pc[r] = "upsert" /\ points \subseteq points' /\ points' \subseteq points \cup Batch(r)
    <3>1. Loaded(r) /\ sent[r] <= Len(chunks[r]) /\ OwnChunks(r)
      BY <2>2 DEF Inv, RunInv, ChunkInv, Loaded, ChunksInv
    <3>2. ASSUME NEW p \in Batch(r) PROVE p \in points
      <4>1. PICK j \in 1 .. Len(chunks[r]) : p = chunks[r][j]
        BY <3>1, BatchTypes DEF Inv
      <4>2. IsChunkOf(r, p)
        BY <3>1, <4>1 DEF OwnChunks
      <4> QED
        BY <1>1, <3>1, <4>2 DEF IsChunkOf
    <3> QED
      BY <2>2, <3>2
  <2> QED
    BY <2>1, <2>2, PointsSteps
<1>3. UNCHANGED rows
  <2>1. CASE UNCHANGED rows
    BY <2>1
  <2>2. CASE pc[r] = "read" /\ at[r] < Len(Docs(r)) /\ Store(r, at[r] + 1)
    <3>1. /\ Loaded(r) /\ at[r] \in Nat
          /\ command[r] \in Downloads /\ branch[r] \in DOMAIN command[r].branches
      BY <2>2 DEF Loaded, Inv, TypeOK, RunInv, PlaceInv
    <3>2. at[r] + 1 \in 1 .. Len(Docs(r))
      BY <2>2, <3>1, DocsTypes
    <3> QED
      BY <1>1, <2>2, <3>1, <3>2 DEF Store
  <2> QED
    BY <2>1, <2>2, RowsSteps DEF Inv
<1> QED
  BY <1>2, <1>3

\* Nor a node or an edge between what its file declares, but what the run before
\* it lost unheard.
LEMMA RerunGraph ==
  ASSUME Inv, GraphInv, NEW r \in Runs, StepOf(r), NEW q \in Runs, Repeats(r, q)
  PROVE  LET made == unheard[q]
         IN  /\ DOMAIN graph.images' \subseteq DOMAIN graph.images \cup DOMAIN made.images
             /\ graph.binds' \subseteq graph.binds \cup made.binds
             /\ \A d \in graph.depends' \ (graph.depends \cup made.depends) :
                  command[r] \in Files /\ d[2] \notin ServiceNames(command[r])
<1>1. CASE UNCHANGED graph
  BY <1>1
<1>2. CASE pc[r] = "write" /\ \E w \in writes[r] : graph' = Apply(graph, w)
  <2>1. PICK w \in writes[r] : graph' = Apply(graph, w)
    BY <1>2
  <2>2. command[r] \in Files /\ w \in ComposeWrites(command[r])
    BY <1>2 DEF GraphInv, WritesInv
  <2>3. Applied(command[r], w) \/ w = unheard[q]
    BY <2>2 DEF GraphInv, WritesInv, HasRun, Repeats
  <2>4. /\ DOMAIN graph'.images = DOMAIN graph.images \cup DOMAIN w.images
        /\ graph'.depends \subseteq graph.depends \cup w.depends
        /\ graph'.binds \subseteq graph.binds \cup w.binds
    BY <2>1, ApplyFacts
  <2> QED
    BY <2>2, <2>3, <2>4 DEF Applied
<1> QED
  BY <1>1, <1>2, GraphSteps

\* A GitHub or docker-compose command may be run again, at any time and beside
\* anything: what it writes is what a completed run of it has written, or what
\* that lost unheard; and a GitHub run makes no copies of what a failed one left.
THEOREM Idempotence == Spec => RerunAddsNothing
<1> DEFINE Same ==
      /\ \A r \in Runs : KindOf(r) = "github" /\ Moves(r) => \A p \in points' : ~StoresCopy(p)
      /\ \A r, q \in Runs : Repeats(r, q) /\ Moves(r) => AddsNothingTo(command[r], unheard[q])
<1>1. Inv /\ GraphInv /\ ChunksInv /\ [Next]_vars => [Same]_vars
  <2> SUFFICES ASSUME Inv, GraphInv, ChunksInv, Next, NEW r \in Runs, Moves(r)
               PROVE  StepOf(r)
    BY GithubCopies, RerunPoints, RerunGraph DEF AddsNothingTo
  <2>1. PICK t \in Runs : StepOf(t)
    BY DEF Next, StepOf, BeginOf
  <2>2. ASSUME t # r PROVE FALSE
    <3>1. pc'[r] = pc[r] /\ at'[r] = at[r] /\ sent'[r] = sent[r]
      BY <2>1, <2>2, OthersFrame DEF Inv
    <3>2. writes'[r] = writes[r]
      BY <2>1, <2>2, OthersWrites DEF Inv, GraphInv
    <3> QED
      BY <3>1, <3>2 DEF Moves
  <2> QED
    BY <2>1, <2>2
<1> HIDE DEF Same
<1>2. Spec => [][Same]_vars
  BY <1>1, Invariance, GraphInvariance, ChunksInvariance, PTL DEF Spec
<1> QED
  BY <1>2 DEF RerunAddsNothing, Same

(***************************************************************************)
(* Termination: how much a run has still to do at most.                    *)
(***************************************************************************)
LEMMA FiniteImage ==
  ASSUME NEW S, IsFiniteSet(S), NEW f, DOMAIN f = S
  PROVE  IsFiniteSet({f[x] : x \in S})
<1> DEFINE T == {f[x] : x \in S}
           g == [x \in S |-> f[x]]
<1>1. g \in Surjection(S, T)
  BY DEF Surjection
<1> QED
  BY <1>1, FS_Surjection

LEMMA ComposeFinite ==
  ASSUME NEW f \in Files
  PROVE  IsFiniteSet(ComposeWrites(f))
<1> DEFINE V == [s \in Declared(f) |->
                   [Statement EXCEPT !.phase = 1, !.images = [n \in {s.name} |-> s.image]]]
           R == [s \in Declared(f) |-> DependsWrites(s, 2) \cup BindsWrites(s, 2)]
<1>1. IsFiniteSet(Declared(f))
  BY SourceAssumption, FS_Subset DEF Declared
<1>2. IsFiniteSet(ServiceWrites(f, 1))
  <2>1. ServiceWrites(f, 1) = {V[s] : s \in Declared(f)}
    BY DEF ServiceWrites
  <2> HIDE DEF V
  <2>2. DOMAIN V = Declared(f)
    BY DEF V
  <2> QED
    BY <1>1, <2>1, <2>2, FiniteImage
<1>3. ASSUME NEW s \in Declared(f) PROVE IsFiniteSet(R[s])
  <2> DEFINE D == [n \in s.dependsOn |-> [Statement EXCEPT !.phase = 2, !.depends = {<<s.name, n>>}]]
             B == [p \in PortInfo(s) |->
                     [Statement EXCEPT !.phase = 2, !.binds = {<<s.name, p.port, p.protocol>>}]]
  <2>1. IsFiniteSet(s.dependsOn) /\ IsFiniteSet(PortInfo(s))
    BY SourceAssumption, FS_Subset DEF Declared, PortInfo
  <2>2. DependsWrites(s, 2) = {D[n] : n \in s.dependsOn} /\ BindsWrites(s, 2) = {B[p] : p \in PortInfo(s)}
    BY DEF DependsWrites, BindsWrites
  <2>3. DOMAIN D = s.dependsOn /\ DOMAIN B = PortInfo(s)
    OBVIOUS
  <2> HIDE DEF D, B
  <2>4. IsFiniteSet(DependsWrites(s, 2)) /\ IsFiniteSet(BindsWrites(s, 2))
    BY <2>1, <2>2, <2>3, FiniteImage
  <2>5. R[s] = DependsWrites(s, 2) \cup BindsWrites(s, 2)
    OBVIOUS
  <2> QED
    BY <2>4, <2>5, FS_Union
<1>4. IsFiniteSet(RelationWrites(f, 2))
  <2>1. RelationWrites(f, 2) = UNION {R[s] : s \in Declared(f)}
    BY DEF RelationWrites
  <2>2. DOMAIN R = Declared(f)
    OBVIOUS
  <2> HIDE DEF R
  <2>3. IsFiniteSet({R[s] : s \in Declared(f)})
    BY <1>1, <2>2, FiniteImage
  <2> QED
    BY <1>3, <2>1, <2>3, FS_UNION
<1> QED
  BY <1>2, <1>4, FS_Union DEF ComposeWrites

\* As long as there are statements left, one of them is next: the services are,
\* and then the relationships.
LEMMA SomeStatementIsNext ==
  ASSUME NEW r \in Runs, WritesInv(r), pc[r] = "write", writes[r] # {}
  PROVE  NextStatements(r) # {}
<1>1. \A w \in writes[r] : w.phase = 1 \/ w.phase = 2
  BY AllHeard, StatementIsNone
<1>2. PICK w \in writes[r] : w.phase = 1 \/ \A v \in writes[r] : v.phase = 2
  BY <1>1
<1>3. \A v \in writes[r] : ~Precedes(v, w)
  BY <1>1, <1>2 DEF Precedes
<1> QED
  BY <1>3 DEF NextStatements

\* The stage of the run, and what is left of the loop it is in: attempts to
\* load, documents to read, chunks to write, or statements to run.
Stage(r) ==
  CASE pc[r] = "new" -> 5
    [] pc[r] = "load" -> 4
    [] pc[r] = "read" -> 3
    [] pc[r] = "embed" -> 2
    [] pc[r] \in {"upsert", "proxies", "write"} -> 1
    [] OTHER -> 0
Left(r) ==
  CASE pc[r] = "load" -> MaxRetries * Len(toTry[r]) - tries[r]
    [] pc[r] = "read" -> Len(Docs(r)) - at[r]
    [] pc[r] = "upsert" -> Len(chunks[r]) - sent[r]
    [] pc[r] = "write" -> Cardinality(writes[r])
    [] OTHER -> 0
Rank(r) == <<Stage(r), Left(r)>>

\* The lexicographic order.
Lower(a, b) == a[1] < b[1] \/ (a[1] = b[1] /\ a[2] < b[2])

Ranked == \A r \in Runs : Rank(r) \in Nat \X Nat
Descends ==
  \A r \in Runs : /\ Step(r) => Lower(Rank(r)', Rank(r))
                  /\ Rank(r)' # Rank(r) => Lower(Rank(r)', Rank(r))
AlwaysDescends == [][Descends]_vars

\* A run that has statements left can run one of them.
WritesGoOn == \A r \in Runs : pc[r] = "write" /\ writes[r] # {} => NextStatements(r) # {}

LEMMA FiniteWrites ==
  ASSUME NEW r \in Runs, WritesInv(r), pc[r] = "write"
  PROVE  IsFiniteSet(writes[r]) /\ Cardinality(writes[r]) \in Nat
<1>1. command[r] \in Files /\ writes[r] \subseteq ComposeWrites(command[r])
  BY DEF WritesInv
<1> QED
  BY <1>1, ComposeFinite, FS_Subset, FS_CardinalityType

LEMMA RankTypes ==
  ASSUME Inv, GraphInv, NEW r \in Runs
  PROVE  Rank(r) \in Nat \X Nat
<1>1. /\ tries[r] \in Nat /\ at[r] \in Nat /\ toTry[r] \in Seq(Branches)
      /\ PlaceInv(r) /\ sent[r] <= Len(chunks[r]) /\ WritesInv(r)
  BY DEF Inv, TypeOK, RunInv, ChunkInv, GraphInv
<1>2. Stage(r) \in Nat
  BY DEF Stage
<1>3. CASE pc[r] = "load"
  <2>1. MaxRetries * Len(toTry[r]) \in Nat /\ tries[r] < MaxRetries * Len(toTry[r])
    BY <1>1, <1>3, Attempts DEF PlaceInv
  <2>2. MaxRetries * Len(toTry[r]) - tries[r] \in Nat
    BY <1>1, <2>1
  <2> QED
    BY <1>2, <1>3, <2>2 DEF Rank, Left
<1>4. CASE pc[r] = "read"
  <2>1. Len(Docs(r)) \in Nat /\ at[r] <= Len(Docs(r))
    BY <1>1, <1>4, DocsTypes DEF PlaceInv, Loaded
  <2> QED
    BY <1>1, <1>2, <1>4, <2>1 DEF Rank, Left
<1>5. CASE pc[r] = "upsert"
  <2>1. Len(chunks[r]) \in Nat /\ sent[r] \in Nat
    BY <1>1, BatchTypes DEF Inv
  <2> QED
    BY <1>1, <1>2, <1>5, <2>1 DEF Rank, Left
<1>6. CASE pc[r] = "write"
  BY <1>1, <1>2, <1>6, FiniteWrites DEF Rank, Left
<1>7. CASE pc[r] \notin {"load", "read", "upsert", "write"}
  BY <1>2, <1>7 DEF Rank, Left
<1> QED
  BY <1>3, <1>4, <1>5, <1>6, <1>7

\* Every step of the run but those of its loops ends a stage.
LEMMA StepLowers ==
  ASSUME Inv, GraphInv, NEW r \in Runs, StepOf(r)
  PROVE  Lower(Rank(r)', Rank(r))
<1>1. /\ pc \in [Runs -> PCs] /\ TypeOK /\ PlaceInv(r) /\ WritesInv(r)
      /\ DOMAIN tries = Runs /\ DOMAIN at = Runs /\ DOMAIN sent = Runs /\ DOMAIN writes = Runs
      /\ tries[r] \in Nat /\ at[r] \in Nat /\ toTry[r] \in Seq(Branches)
      /\ sent[r] <= Len(chunks[r])
  BY DEF Inv, TypeOK, PCs, RunInv, ChunkInv, GraphInv
<1>2. ASSUME Stage(r)' < Stage(r) PROVE Lower(Rank(r)', Rank(r))
  BY <1>2 DEF Rank, Lower
<1>3. ASSUME Stage(r)' = Stage(r), Left(r)' < Left(r) PROVE Lower(Rank(r)', Rank(r))
  BY <1>3 DEF Rank, Lower
<1>4. CASE BeginOf(r) \/ ParseCompose(r) \/ ParseSwag(r)
  <2>1. pc[r] = "new" /\ pc'[r] \in {"load", "write", "proxies", "failed"}
    BY <1>1, <1>4, BeginFacts, ParseFacts
  <2>2. Stage(r)' < Stage(r)
    BY <2>1 DEF Stage
  <2> QED
    BY <1>2, <2>2
<1>5. CASE Load(r) \/ FinishOf(r) \/ Embed(r) \/ WriteProxies(r) \/ FinishWriting(r)
  <2>1. \/ pc[r] = "load" /\ pc'[r] = "read"
        \/ pc[r] = "read" /\ pc'[r] \in {"done", "ignored", "embed"}
        \/ pc[r] = "embed" /\ pc'[r] = "upsert"
        \/ pc[r] = "proxies" /\ pc'[r] = "failed"
        \/ pc[r] = "write" /\ pc'[r] = "done"
    BY <1>1, <1>5 DEF Load, FinishOf, FinishGithub, FinishElasticsearch, FinishYoutube,
       FinishReddit, FinishGmail, FinishReading, Embed, WriteProxies, FinishWriting, Goto
  <2>2. Stage(r)' < Stage(r)
    BY <2>1 DEF Stage
  <2> QED
    BY <1>2, <2>2
<1>6. CASE ReadFails(r) \/ UpsertFails(r) \/ StatementFails(r) \/ Fail(r)
  <2>1. /\ pc[r] \in {"load", "read", "embed", "upsert", "proxies", "write"}
        /\ pc'[r] \in {"failed", "ignored"}
    BY <1>1, <1>6 DEF ReadFails, UpsertFails, StatementFails, Fail, Goto, PCs, Ended
  <2>2. Stage(r)' < Stage(r)
    BY <2>1 DEF Stage
  <2> QED
    BY <1>2, <2>2
<1>7. CASE BranchMissing(r) \/ LoadFails(r)
  <2>1. /\ pc[r] = "load" /\ toTry' = toTry /\ tries'[r] = tries[r] + 1
        /\ pc'[r] = IF tries[r] + 1 < MaxRetries * Len(toTry[r]) THEN "load" ELSE "failed"
    BY <1>1, <1>7 DEF BranchMissing, LoadFails, TryAgain, Goto
  <2>2. CASE pc'[r] = "failed"
    <3>1. Stage(r)' < Stage(r)
      BY <2>1, <2>2 DEF Stage
    <3> QED
      BY <1>2, <3>1
  <2>3. CASE pc'[r] = "load"
    <3>1. Stage(r)' = Stage(r)
      BY <2>1, <2>3 DEF Stage
    <3> DEFINE m == MaxRetries * Len(toTry[r])
    <3>2. Left(r) = m - tries[r] /\ Left(r)' = m - (tries[r] + 1)
      BY <2>1, <2>3 DEF Left
    <3>3. m \in Nat
      BY <1>1, Attempts
    <3> HIDE DEF m
    <3> QED
      BY <1>1, <1>3, <3>1, <3>2, <3>3
  <2> QED
    BY <2>1, <2>2, <2>3
<1>8. CASE ReadDocument(r)
  <2>1. /\ pc[r] = "read" /\ pc' = pc /\ at'[r] = at[r] + 1
        /\ command'[r] = command[r] /\ branch'[r] = branch[r]
    BY <1>1, <1>8 DEF ReadDocument, readerVars
  <2>2. Docs(r)' = Docs(r) /\ Len(Docs(r)) \in Nat
    BY <1>1, <2>1, SameDocuments, DocsTypes DEF PlaceInv, Loaded
  <2>3. Stage(r)' = Stage(r) /\ Left(r)' < Left(r)
    BY <1>1, <2>1, <2>2 DEF Stage, Left
  <2> QED
    BY <1>3, <2>3
<1>9. CASE UpsertBatch(r)
  <2>1. /\ pc[r] = "upsert" /\ chunks' = chunks /\ sent'[r] = BatchEnd(r)
        /\ pc'[r] = IF BatchEnd(r) = Len(chunks[r]) THEN "done" ELSE "upsert"
    BY <1>1, <1>9 DEF UpsertBatch, Goto
  <2>2. CASE pc'[r] = "done"
    <3>1. Stage(r)' < Stage(r)
      BY <2>1, <2>2 DEF Stage
    <3> QED
      BY <1>2, <3>1
  <2>3. CASE pc'[r] = "upsert"
    <3>1. /\ Len(chunks[r]) \in Nat /\ sent[r] \in Nat /\ BatchEnd(r) \in Nat
          /\ sent[r] < BatchEnd(r) /\ BatchEnd(r) <= Len(chunks[r])
      BY <1>1, <2>1, <2>3, BatchTypes, SourceAssumption DEF BatchEnd
    <3>2. Stage(r)' = Stage(r) /\ Left(r)' < Left(r)
      BY <2>1, <2>3, <3>1 DEF Stage, Left
    <3> QED
      BY <1>3, <3>2
  <2> QED
    BY <2>1, <2>2, <2>3
<1>10. CASE RunStatement(r) \/ LastAnswerUnread(r)
  <2>1. PICK w \in writes[r] : writes'[r] = writes[r] \ {w}
    BY <1>1, <1>10 DEF RunStatement, LastAnswerUnread, NextStatements
  <2>2. pc[r] = "write" /\ pc' = pc
    BY <1>10 DEF RunStatement, LastAnswerUnread
  <2>3. writes'[r] = writes[r] \ {w} /\ IsFiniteSet(writes[r]) /\ Cardinality(writes[r]) \in Nat
    BY <1>1, <2>1, <2>2, FiniteWrites
  <2>4. Cardinality(writes'[r]) = Cardinality(writes[r]) - 1
    BY <2>3, FS_RemoveElement
  <2>5. Stage(r)' = Stage(r) /\ Left(r)' < Left(r)
    BY <2>2, <2>3, <2>4 DEF Stage, Left
  <2> QED
    BY <1>3, <2>5
<1> QED
  BY <1>4, <1>5, <1>6, <1>7, <1>8, <1>9, <1>10 DEF StepOf, Step, Failure, FinishOf

\* No command goes on for ever: its attempts, documents, batches and statements
\* run out, whatever fails and whatever the others do; and one that has
\* statements left is never without a next one.
THEOREM SourcesRunOut == Spec => [](Ranked /\ WritesGoOn) /\ AlwaysDescends
<1>1. Inv /\ GraphInv => Ranked
  BY RankTypes DEF Ranked
<1>2. GraphInv => WritesGoOn
  BY SomeStatementIsNext DEF GraphInv, WritesGoOn
<1>3. Inv /\ GraphInv /\ [Next]_vars => [Descends]_vars
  <2> SUFFICES ASSUME Inv, GraphInv, Next, NEW r \in Runs
               PROVE  /\ Step(r) => Lower(Rank(r)', Rank(r))
                      /\ Rank(r)' # Rank(r) => Lower(Rank(r)', Rank(r))
    BY DEF Descends
  <2>1. StepOf(r) => Lower(Rank(r)', Rank(r))
    BY StepLowers
  <2>2. ASSUME NEW q \in Runs, q # r, StepOf(q) PROVE Rank(r)' = Rank(r)
    <3>1. TypeOK /\ RunInv(q) /\ WritesInv(r) /\ DOMAIN writes = Runs /\ DOMAIN unheard = Runs
      BY DEF Inv, GraphInv
    <3>2. /\ pc'[r] = pc[r] /\ toTry'[r] = toTry[r] /\ tries'[r] = tries[r] /\ at'[r] = at[r]
          /\ chunks'[r] = chunks[r] /\ sent'[r] = sent[r] /\ writes'[r] = writes[r]
          /\ command'[r] = command[r] /\ branch'[r] = branch[r]
      BY <2>2, <3>1, OthersFrame, OthersWrites
    <3>3. Docs(r)' = Docs(r)
      BY <3>2, SameDocuments
    <3> QED
      BY <3>2, <3>3 DEF Rank, Stage, Left
  <2> QED
    BY <2>1, <2>2 DEF Next, StepOf, BeginOf, Step
<1> QED
  BY <1>1, <1>2, <1>3, Invariance, GraphInvariance, PTL DEF Spec, AlwaysDescends
===============================================================================
