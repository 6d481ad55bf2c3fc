-------------------------- MODULE SystemInit_proofs --------------------------
(***************************************************************************)
(* Theorems about SystemInit, for any starts of any schema files, any      *)
(* number of statements and of failures, and any database found at first.  *)
(***************************************************************************)
EXTENDS SystemInit, TLAPS

(***************************************************************************)
(* The inductive invariant, start by start.                                *)
(***************************************************************************)
\* After the schema the command is done; the endpoint has a check left.
SchemaDone(s) == pc[s] = "initialized" \/ (pc[s] = "check" /\ s \notin CommandLine)

\* Neo4j and Qdrant are ready for this start.
Neo4jDone(s) ==
  \/ pc[s] \in {"collection", "version", "aborted", "compare", "apply", "record"}
  \/ SchemaDone(s)
QdrantDone(s) == Neo4jDone(s) /\ pc[s] # "collection"

\* Every statement had its effect, but that the start did not read what became
\* of the last one.
StatementsRun(s) ==
  /\ 1 .. Statements - 1 \subseteq constraints
  /\ Statements \in constraints \/ s \in unread

StoresInv(s) ==
  /\ pc[s] = "new" \/ (pc[s] = "check" /\ s \in CommandLine) => attempt[s] = 0 /\ next[s] = 1
  /\ pc[s] = "connect" => attempt[s] < ConnectAttempts /\ next[s] = 1
  /\ pc[s] = "constraints" => next[s] <= Statements /\ 1 .. next[s] - 1 \subseteq constraints
  /\ Neo4jDone(s) => StatementsRun(s)
  /\ QdrantDone(s) => collection

\* A start that finds its own version recorded finds its tables too.
SchemaInv(s) ==
  /\ pc[s] = "compare" => objects /\ versionTable /\ rows[VersionOf(s)] # NoRow
  /\ pc[s] = "apply" => versionTable
  /\ SchemaDone(s) => objects /\ rows[VersionOf(s)].checksum = ChecksumOf(s)

\* Without a fault, a start that saw its own version recorded goes on to
\* record a failure only if the file it has is another one.
KeepInv(s) ==
  faults = 0 /\ seen[s] = VersionOf(s) =>
    /\ pc[s] # "aborted"
    /\ pc[s] \in {"apply", "record"} =>
         /\ objects
         /\ rows[VersionOf(s)] # NoRow
         /\ rows[VersionOf(s)].checksum # ChecksumOf(s)

StartInv(s) == StoresInv(s) /\ SchemaInv(s) /\ KeepInv(s)

ViewInv(w) ==
  /\ pc[w] = "details" => objects /\ seen[w] \in Versions
  /\ shown[w] # NoRow => objects

DatabaseInv ==
  \A v \in Versions :
    /\ rows[v] # NoRow => versionTable
    /\ rows[v].status = "success" => objects

Inv ==
  /\ TypeOK
  /\ DatabaseInv
  /\ \A s \in Starters : StartInv(s)
  /\ \A w \in Viewers : ViewInv(w)

StepOf(s) == Begin(s) \/ Step(s) \/ Failure(s)

PCs == {"new", "check", "connect", "constraints", "collection", "version", "aborted",
        "compare", "apply", "record", "details", "viewed"} \cup Ended

(***************************************************************************)
(* Types.                                                                  *)
(***************************************************************************)
\* The row that Record writes.
LEMMA RowTypes ==
  /\ NoRow \in RowType
  /\ \A status \in {"success", "failed"}, k \in Checksums \cup {None}, n \in Nat :
       [status |-> status, checksum |-> k, at |-> n] \in RowType
  BY DEF NoRow, RowType

LEMMA FileTypes ==
  ASSUME NEW s \in Starters
  PROVE  /\ VersionOf(s) \in Versions /\ VersionOf(s) # None
         /\ ChecksumOf(s) \in Checksums /\ ChecksumOf(s) # None
  BY InitAssumption DEF VersionOf, ChecksumOf

\* What is written to schema_versions: an apply or the record of a failure.
LEMMA RecordTypes ==
  ASSUME TypeOK, NEW v \in Versions, NEW status \in {"success", "failed"},
         NEW k \in Checksums \cup {None}, Record(v, status, k)
  PROVE  /\ clock' \in Nat
         /\ rows' \in [Versions -> RowType]
         /\ rows'[v] = [status |-> status, checksum |-> k, at |-> clock + 1]
         /\ \A w \in Versions \ {v} : rows'[w] = rows[w]
         /\ rows'[v] # NoRow
<1> DEFINE row == [status |-> status, checksum |-> k, at |-> clock + 1]
<1>1. clock' = clock + 1 /\ clock \in Nat /\ rows' = [rows EXCEPT ![v] = row]
  BY DEF Record, TypeOK
<1>2. row \in RowType
  BY <1>1, RowTypes
<1>3. rows \in [Versions -> RowType]
  BY DEF TypeOK
<1>4. row.status # None
  BY DEF None
<1> HIDE DEF row
<1>5. row # NoRow
  BY <1>4 DEF NoRow
<1>6. /\ rows' \in [Versions -> RowType]
      /\ rows'[v] = row
      /\ \A w \in Versions \ {v} : rows'[w] = rows[w]
  BY <1>1, <1>2, <1>3
<1> QED
  BY <1>1, <1>5, <1>6 DEF row

LEMMA TypeStep ==
  ASSUME TypeOK, \A s \in Starters : StartInv(s), \A w \in Viewers : ViewInv(w), [Next]_vars
  PROVE  TypeOK'
<1>1. /\ pc \in [Starters \cup Viewers -> PCs]
      /\ attempt \in [Starters -> 0 .. ConnectAttempts]
      /\ next \in [Starters -> 1 .. Statements + 1]
      /\ seen \in [Starters \cup Viewers -> Versions \cup {None}]
      /\ unhealthy \in [Starters -> SUBSET Services]
      /\ unread \subseteq Starters
      /\ constraints \subseteq 1 .. Statements
      /\ rows \in [Versions -> RowType]
      /\ clock \in Nat
      /\ shown \in [Viewers -> RowType]
      /\ faults \in 0 .. MaxFaults
  BY DEF TypeOK, PCs
<1>2. /\ Statements \in Nat \ {0} /\ ConnectAttempts \in Nat \ {0} /\ MaxFaults \in Nat
  BY InitAssumption
<1>3. \A p \in Starters \cup Viewers, l \in PCs : [pc EXCEPT ![p] = l] \in [Starters \cup Viewers -> PCs]
  BY <1>1
<1>4. Fault => faults' \in 0 .. MaxFaults
  BY <1>1, <1>2 DEF Fault
<1>a. CASE UNCHANGED vars
  BY <1>a DEF TypeOK, vars, localVars, stores, database
<1>b. ASSUME NEW s \in Starters, StepOf(s)
      PROVE  TypeOK'
  <2>1. CASE \/ Begin(s) \/ CheckHealthy(s) \/ Connect(s) \/ CreateCollection(s)
             \/ ExecuteInAborted(s) \/ TriggerExists(s) \/ CompareChecksum(s)
    <3>1. pc' \in [Starters \cup Viewers -> PCs]
      BY <2>1, <1>3 DEF Begin, CheckHealthy, Connect, CreateCollection, ExecuteInAborted,
         TriggerExists, CompareChecksum, Finish, Goto, PCs, Ended
    <3>2. unhealthy' \in [Starters -> SUBSET Services]
      BY <2>1, <1>1 DEF Begin, CheckHealthy, Connect, CreateCollection, ExecuteInAborted,
         TriggerExists, CompareChecksum, localVars
    <3>3. /\ UNCHANGED <<next, seen, unread, constraints, database, shown, faults>>
          /\ collection' \in {collection, TRUE}
          /\ attempt' \in {attempt, [attempt EXCEPT ![s] = 0]}
      BY <2>1 DEF Begin, CheckHealthy, Connect, CreateCollection, ExecuteInAborted,
         TriggerExists, CompareChecksum, localVars, stores
    <3>4. attempt' \in [Starters -> 0 .. ConnectAttempts]
      BY <3>3, <1>1, <1>2
    <3> QED
      BY <3>1, <3>2, <3>3, <3>4 DEF TypeOK, PCs, database
  <2>2. CASE RunStatement(s)
    <3>1. next[s] \in 1 .. Statements
      BY <2>2, <1>1, <1>2 DEF RunStatement, StartInv, StoresInv
    <3>2. pc' \in [Starters \cup Viewers -> PCs]
      BY <2>2, <1>3 DEF RunStatement, Goto, PCs
    <3>3. next[s] + 1 \in 1 .. Statements + 1
      BY <3>1, <1>2
    <3>4. next' \in [Starters -> 1 .. Statements + 1]
      BY <2>2, <1>1, <3>3 DEF RunStatement
    <3>5. constraints' \subseteq 1 .. Statements
      BY <2>2, <1>1, <3>1 DEF RunStatement
    <3> QED
      BY <2>2, <3>2, <3>4, <3>5 DEF RunStatement, TypeOK, PCs, database
  <2>3. CASE ReadVersion(s)
    <3>1. seen' \in [Starters \cup Viewers -> Versions \cup {None}]
      BY <2>3, <1>1 DEF ReadVersion
    <3>2. pc' \in [Starters \cup Viewers -> PCs]
      BY <2>3, <1>3 DEF ReadVersion, Goto, PCs
    <3> QED
      BY <2>3, <3>1, <3>2 DEF ReadVersion, TypeOK, PCs, stores, database
  <2>4. CASE ApplySchema(s)
    <3>1. Record(VersionOf(s), "success", ChecksumOf(s))
      BY <2>4 DEF ApplySchema, ApplyEffect
    <3>2. clock' \in Nat /\ rows' \in [Versions -> RowType]
      BY <3>1, FileTypes, RecordTypes
    <3>3. pc' \in [Starters \cup Viewers -> PCs]
      BY <2>4, <1>3 DEF ApplySchema, Finish, Goto, PCs, Ended
    <3> QED
      BY <2>4, <3>2, <3>3 DEF ApplySchema, ApplyEffect, TypeOK, PCs, localVars
  <2>5. CASE CommitFails(s)
    <3>1. clock' \in Nat /\ rows' \in [Versions -> RowType] /\ objects' \in BOOLEAN /\ versionTable' \in BOOLEAN
      <4>1. CASE UNCHANGED database
        BY <4>1, <1>1 DEF database, TypeOK
      <4>2. CASE ApplyEffect(s)
        BY <4>2, FileTypes, RecordTypes DEF ApplyEffect
      <4> QED
        BY <2>5, <4>1, <4>2 DEF CommitFails
    <3>2. pc' \in [Starters \cup Viewers -> PCs]
      BY <2>5, <1>3 DEF CommitFails, Goto, PCs, Ended
    <3> QED
      BY <2>5, <1>4, <3>1, <3>2 DEF CommitFails, TypeOK, PCs, localVars
  <2>6. CASE RecordFailure(s)
    <3>1. clock' \in Nat /\ rows' \in [Versions -> RowType] /\ objects' \in BOOLEAN /\ versionTable' \in BOOLEAN
      <4>1. CASE ~versionTable
        BY <2>6, <4>1, <1>1 DEF RecordFailure, database, TypeOK
      <4>2. CASE versionTable
        <5>1. (IF rows[VersionOf(s)] = NoRow THEN ChecksumOf(s) ELSE rows[VersionOf(s)].checksum)
                \in Checksums \cup {None}
          BY <1>1, FileTypes DEF RowType
        <5>2. /\ Record(VersionOf(s), "failed",
                   IF rows[VersionOf(s)] = NoRow THEN ChecksumOf(s) ELSE rows[VersionOf(s)].checksum)
              /\ UNCHANGED <<versionTable, objects>>
          BY <2>6, <4>2 DEF RecordFailure
        <5> QED
          BY <5>1, <5>2, FileTypes, RecordTypes DEF TypeOK
      <4> QED
        BY <4>1, <4>2 DEF TypeOK
    <3>2. pc' \in [Starters \cup Viewers -> PCs]
      BY <2>6, <1>3 DEF RecordFailure, Goto, PCs, Ended
    <3> QED
      BY <2>6, <3>1, <3>2 DEF RecordFailure, TypeOK, PCs, localVars
  <2>7. CASE CheckUnhealthy(s)
    <3>1. unhealthy' \in [Starters -> SUBSET Services]
      BY <2>7, <1>1 DEF CheckUnhealthy
    <3>2. pc' \in [Starters \cup Viewers -> PCs]
      BY <2>7, <1>3 DEF CheckUnhealthy, Goto, PCs, Ended
    <3> QED
      BY <2>7, <1>4, <3>1, <3>2 DEF CheckUnhealthy, TypeOK, PCs, stores, database
  <2>8. CASE ConnectFails(s)
    <3>1. attempt[s] < ConnectAttempts
      BY <2>8 DEF ConnectFails, StartInv, StoresInv
    <3>2. attempt' \in [Starters -> 0 .. ConnectAttempts]
      BY <2>8, <1>1, <1>2, <3>1 DEF ConnectFails
    <3>3. pc' \in [Starters \cup Viewers -> PCs]
      BY <2>8, <1>3 DEF ConnectFails, Goto, PCs, Ended
    <3> QED
      BY <2>8, <1>4, <3>2, <3>3 DEF ConnectFails, TypeOK, PCs, stores, database
  <2>9. CASE StatementFails(s)
    <3>1. next[s] \in 1 .. Statements
      BY <2>9, <1>1, <1>2 DEF StatementFails, StartInv, StoresInv
    <3>2. constraints' \subseteq 1 .. Statements
      BY <2>9, <1>1, <3>1 DEF StatementFails
    <3>3. pc' \in [Starters \cup Viewers -> PCs]
      BY <2>9, <1>3 DEF StatementFails, Goto, PCs, Ended
    <3> QED
      BY <2>9, <1>4, <3>2, <3>3 DEF StatementFails, TypeOK, PCs, localVars, database
  <2>10. CASE \/ CollectionFails(s) \/ ReadVersionFails(s) \/ StatementRaises(s)
              \/ RecordFailureFails(s) \/ Crash(s)
    <3>1. \E label \in {"failed", "aborted", "record", "dead"} : pc' = [pc EXCEPT ![s] = label]
      <4>1. CASE ReadVersionFails(s)
        BY <4>1 DEF ReadVersionFails
      <4> QED
        BY <2>10, <4>1 DEF CollectionFails, StatementRaises, RecordFailureFails, Crash, Goto
    <3>3. pc' \in [Starters \cup Viewers -> PCs]
      BY <3>1, <1>3 DEF PCs, Ended
    <3>2. /\ UNCHANGED <<localVars, constraints, database, shown>>
          /\ collection' \in {collection, TRUE}
          /\ Fault
      BY <2>10 DEF CollectionFails, ReadVersionFails, StatementRaises,
         RecordFailureFails, Crash, stores
    <3> QED
      BY <1>4, <3>3, <3>2 DEF TypeOK, PCs, localVars, database
  <2>11. CASE LastAnswerUnread(s)
    <3>1. next[s] \in 1 .. Statements
      BY <2>11, <1>1, <1>2 DEF LastAnswerUnread, StartInv, StoresInv
    <3>2. constraints' \subseteq 1 .. Statements
      BY <2>11, <1>1, <3>1 DEF LastAnswerUnread
    <3>3. next[s] + 1 \in 1 .. Statements + 1
      BY <3>1, <1>2
    <3>4. next' \in [Starters -> 1 .. Statements + 1]
      BY <2>11, <1>1, <3>3 DEF LastAnswerUnread
    <3>5. unread' \subseteq Starters
      BY <2>11, <1>1 DEF LastAnswerUnread
    <3>6. pc' \in [Starters \cup Viewers -> PCs]
      BY <2>11, <1>3 DEF LastAnswerUnread, Goto, PCs
    <3> QED
      BY <2>11, <1>4, <3>2, <3>4, <3>5, <3>6 DEF LastAnswerUnread, TypeOK, PCs, database
  <2> QED
    BY <1>b, <2>1, <2>2, <2>3, <2>4, <2>5, <2>6, <2>7, <2>8, <2>9, <2>10, <2>11
       DEF StepOf, Step, Failure
<1>c. ASSUME NEW w \in Viewers, ViewVersion(w) \/ ViewDetails(w)
      PROVE  TypeOK'
  <2>1. CASE ViewVersion(w)
    <3>1. seen' \in [Starters \cup Viewers -> Versions \cup {None}]
      BY <2>1, <1>1 DEF ViewVersion
    <3>2. pc' \in [Starters \cup Viewers -> PCs]
      BY <2>1, <1>3 DEF ViewVersion, Goto, PCs
    <3> QED
      BY <2>1, <3>1, <3>2 DEF ViewVersion, TypeOK, PCs, stores, database
  <2>2. CASE ViewDetails(w)
    <3>1. seen[w] \in Versions
      BY <2>2 DEF ViewDetails, ViewInv
    <3>2. shown' \in [Viewers -> RowType]
      BY <2>2, <1>1, <3>1 DEF ViewDetails
    <3>3. pc' \in [Starters \cup Viewers -> PCs]
      BY <2>2, <1>3 DEF ViewDetails, Goto, PCs
    <3> QED
      BY <2>2, <3>2, <3>3 DEF ViewDetails, TypeOK, PCs, localVars, stores, database
  <2> QED
    BY <1>c, <2>1, <2>2
<1> QED
  BY <1>a, <1>b, <1>c DEF Next, StepOf

(***************************************************************************)
(* What no step takes back.                                                *)
(***************************************************************************)
\* A row that exists keeps its checksum: only a start that finds no tables
\* writes another one.
LEMMA RowsKept ==
  ASSUME TypeOK, NEW s \in Starters, NEW v \in Versions,
         \/ UNCHANGED database
         \/ ~objects /\ ApplyEffect(s)
         \/ RecordFailure(s)
  PROVE  /\ rows[v] # NoRow => rows'[v] # NoRow
         /\ objects => objects'
         /\ versionTable => versionTable'
         /\ objects /\ rows[v] # NoRow => rows'[v].checksum = rows[v].checksum
<1> DEFINE V == VersionOf(s)
<1>1. V \in Versions /\ ChecksumOf(s) \in Checksums
  BY FileTypes
<1>2. CASE UNCHANGED database
  BY <1>2 DEF database
<1>3. CASE ~objects /\ ApplyEffect(s)
  BY <1>3, <1>1, RecordTypes DEF ApplyEffect
<1>4. CASE RecordFailure(s) /\ versionTable
  <2> DEFINE k == IF rows[V] = NoRow THEN ChecksumOf(s) ELSE rows[V].checksum
  <2>1. k \in Checksums \cup {None}
    BY <1>1 DEF TypeOK, RowType
  <2>2. Record(V, "failed", k) /\ UNCHANGED <<versionTable, objects>>
    BY <1>4 DEF RecordFailure
  <2>3. /\ rows'[V] = [status |-> "failed", checksum |-> k, at |-> clock + 1]
        /\ \A w \in Versions \ {V} : rows'[w] = rows[w]
        /\ rows'[V] # NoRow
    BY <2>1, <2>2, <1>1, RecordTypes
  <2>4. rows'[V].checksum = k
    BY <2>3
  <2>5. CASE v = V
    BY <2>5, <2>2, <2>3, <2>4
  <2>6. CASE v # V
    BY <2>6, <2>2, <2>3
  <2> QED
    BY <2>5, <2>6
<1>5. CASE RecordFailure(s) /\ ~versionTable
  BY <1>5 DEF RecordFailure, database
<1> QED
  BY <1>2, <1>3, <1>4, <1>5

\* The stores only grow, and the rest of the record with them.
LEMMA Monotone ==
  ASSUME TypeOK, NEW s \in Starters, StepOf(s), NEW v \in Versions
  PROVE  /\ constraints \subseteq constraints'
         /\ collection => collection'
         /\ unread \subseteq unread'
         /\ objects => objects'
         /\ versionTable => versionTable'
         /\ faults' # 0 \/ faults' = faults
         /\ rows[v] # NoRow => rows'[v] # NoRow
         /\ objects /\ rows[v] # NoRow => rows'[v].checksum = rows[v].checksum
<1>1. /\ constraints \subseteq constraints'
      /\ collection => collection'
      /\ unread \subseteq unread'
  BY DEF StepOf, Begin, Step, Failure, CheckHealthy, Connect, RunStatement, CreateCollection,
     ReadVersion, ExecuteInAborted, CompareChecksum, ApplySchema, TriggerExists, RecordFailure,
     CheckUnhealthy, ConnectFails, StatementFails, LastAnswerUnread, CollectionFails, ReadVersionFails,
     StatementRaises, CommitFails, RecordFailureFails, Crash, localVars, stores, TypeOK
<1>2. Fault => faults' # 0
  BY InitAssumption DEF Fault, TypeOK
<1>3. faults' # 0 \/ faults' = faults
  BY <1>2 DEF StepOf, Begin, Step, Failure, CheckHealthy, Connect, RunStatement, CreateCollection,
     ReadVersion, ExecuteInAborted, CompareChecksum, ApplySchema, TriggerExists, RecordFailure,
     CheckUnhealthy, ConnectFails, StatementFails, LastAnswerUnread, CollectionFails, ReadVersionFails,
     StatementRaises, CommitFails, RecordFailureFails, Crash
<1>4. \/ UNCHANGED database
      \/ ~objects /\ ApplyEffect(s)
      \/ RecordFailure(s)
  BY DEF StepOf, Begin, Step, Failure, CheckHealthy, Connect, RunStatement, CreateCollection,
     ReadVersion, ExecuteInAborted, CompareChecksum, ApplySchema, TriggerExists,
     CheckUnhealthy, ConnectFails, StatementFails, LastAnswerUnread, CollectionFails, ReadVersionFails,
     StatementRaises, CommitFails, RecordFailureFails, Crash, stores
<1> QED
  BY <1>1, <1>3, <1>4, RowsKept

\* A step of one start is its own: no other start or viewer moves.
LEMMA Others ==
  ASSUME TypeOK, NEW s \in Starters, StepOf(s), NEW q \in Starters \cup Viewers, q # s
  PROVE  /\ pc'[q] = pc[q]
         /\ seen'[q] = seen[q]
         /\ q \in Starters => attempt'[q] = attempt[q] /\ next'[q] = next[q]
         /\ shown' = shown
<1>1. \E l \in PCs : pc' = [pc EXCEPT ![s] = l]
  <2>1. CASE ReadVersionFails(s)
    BY <2>1 DEF ReadVersionFails, PCs, Ended
  <2> QED
    BY <2>1 DEF StepOf, Begin, Step, Failure, CheckHealthy, Connect, RunStatement,
     CreateCollection, ReadVersion, ExecuteInAborted, CompareChecksum, ApplySchema,
     TriggerExists, RecordFailure, CheckUnhealthy, ConnectFails, StatementFails, LastAnswerUnread,
     CollectionFails, StatementRaises, CommitFails, RecordFailureFails, Crash, Finish, Goto,
     PCs, Ended
<1>2. /\ seen' = seen \/ \E x \in Versions \cup {None} : seen' = [seen EXCEPT ![s] = x]
      /\ attempt' \in {attempt, [attempt EXCEPT ![s] = 0], [attempt EXCEPT ![s] = @ + 1]}
      /\ next' = next \/ next' = [next EXCEPT ![s] = @ + 1]
      /\ shown' = shown
  BY DEF StepOf, Begin, Step, Failure, CheckHealthy, Connect, RunStatement,
     CreateCollection, ReadVersion, ExecuteInAborted, CompareChecksum, ApplySchema,
     TriggerExists, RecordFailure, CheckUnhealthy, ConnectFails, StatementFails, LastAnswerUnread,
     CollectionFails, ReadVersionFails, StatementRaises, CommitFails, RecordFailureFails,
     Crash, localVars, stores
<1>3. pc'[q] = pc[q]
  BY <1>1 DEF TypeOK
<1>4. seen'[q] = seen[q]
  BY <1>2 DEF TypeOK
<1>5. ASSUME q \in Starters PROVE attempt'[q] = attempt[q] /\ next'[q] = next[q]
  BY <1>2, <1>5 DEF TypeOK
<1> QED
  BY <1>2, <1>3, <1>4, <1>5

(***************************************************************************)
(* The invariant is kept.                                                  *)
(***************************************************************************)
LEMMA OthersKeep ==
  ASSUME TypeOK, TypeOK', NEW s \in Starters, StepOf(s),
         NEW q \in Starters, q # s, StartInv(q)
  PROVE  StartInv(q)'
<1> DEFINE V == VersionOf(q)
<1>1. /\ pc'[q] = pc[q] /\ seen'[q] = seen[q]
      /\ attempt'[q] = attempt[q] /\ next'[q] = next[q]
  BY Others
<1>2. /\ V \in Versions /\ VersionOf(q)' = V
      /\ ChecksumOf(q)' = ChecksumOf(q) /\ ChecksumOf(q) # None
  BY FileTypes DEF VersionOf, ChecksumOf
<1>3. /\ constraints \subseteq constraints'
      /\ collection => collection'
      /\ unread \subseteq unread'
      /\ objects => objects'
      /\ versionTable => versionTable'
      /\ faults' # 0 \/ faults' = faults
      /\ rows[V] # NoRow => rows'[V] # NoRow
      /\ objects /\ rows[V] # NoRow => rows'[V].checksum = rows[V].checksum
  BY <1>2, Monotone
<1>4. StatementsRun(q) => StatementsRun(q)'
  BY <1>3 DEF StatementsRun
<1>5. StoresInv(q)'
  BY <1>1, <1>3, <1>4 DEF StartInv, StoresInv, StatementsRun, QdrantDone, Neo4jDone, SchemaDone
<1>6. rows[V].checksum = ChecksumOf(q) => rows[V] # NoRow
  BY <1>2 DEF NoRow
<1>7. SchemaInv(q)'
  BY <1>1, <1>2, <1>3, <1>6 DEF StartInv, SchemaInv, SchemaDone
<1>8. KeepInv(q)'
  BY <1>1, <1>2, <1>3 DEF StartInv, KeepInv
<1> QED
  BY <1>5, <1>7, <1>8 DEF StartInv

\* Once a start has failed, or died, or given up, nothing is asked of it.
LEMMA EndedKeeps ==
  ASSUME NEW s \in Starters, pc'[s] \in {"failed", "dead"}
  PROVE  StartInv(s)'
  BY DEF StartInv, StoresInv, StatementsRun, SchemaInv, KeepInv, SchemaDone, Neo4jDone, QdrantDone

LEMMA ReadVersionKeeps ==
  ASSUME Inv, NEW s \in Starters, ReadVersion(s)
  PROVE  StartInv(s)'
<1> DEFINE V == VersionOf(s)
<1>1. PICK v \in Versions \cup {None} :
        /\ IsCurrentVersion(v)
        /\ seen' = [seen EXCEPT ![s] = v]
        /\ Goto(s, IF ~versionTable THEN "aborted"
                  ELSE IF v = VersionOf(s) THEN "compare" ELSE "apply")
  BY DEF ReadVersion
<1>2. V \in Versions /\ V # None /\ VersionOf(s)' = V
  BY FileTypes DEF VersionOf
<1>3. /\ seen'[s] = v
      /\ pc'[s] = IF ~versionTable THEN "aborted" ELSE IF v = V THEN "compare" ELSE "apply"
  BY <1>1 DEF Goto, Inv, TypeOK
<1>4. UNCHANGED <<attempt, next, unread, stores, faults>> /\ pc[s] = "version"
  BY DEF ReadVersion
<1>5. v = V => rows[V] # NoRow /\ objects
  BY <1>1, <1>2 DEF IsCurrentVersion, Successes, Inv, DatabaseInv, NoRow, None
<1>6. ~versionTable => v # V
  BY <1>2, <1>5 DEF Inv, DatabaseInv
<1>7. StoresInv(s)'
  BY <1>3, <1>4 DEF Inv, StartInv, StoresInv, StatementsRun, SchemaDone, Neo4jDone, QdrantDone, stores
<1>8. SchemaInv(s)'
  BY <1>2, <1>3, <1>4, <1>5 DEF SchemaInv, SchemaDone, stores, database
<1>9. KeepInv(s)'
  BY <1>2, <1>3, <1>4, <1>6 DEF KeepInv
<1> QED
  BY <1>7, <1>8, <1>9 DEF StartInv

LEMMA CompareKeeps ==
  ASSUME Inv, NEW s \in Starters, CompareChecksum(s)
  PROVE  StartInv(s)'
<1> DEFINE V == VersionOf(s)
<1>1. V \in Versions /\ VersionOf(s)' = V /\ ChecksumOf(s)' = ChecksumOf(s)
  BY FileTypes DEF VersionOf, ChecksumOf
<1>2. pc[s] = "compare" /\ UNCHANGED <<localVars, stores, faults>>
  BY DEF CompareChecksum
<1>3. pc'[s] = IF rows[V].checksum # ChecksumOf(s) THEN "apply"
               ELSE IF s \in CommandLine THEN "initialized" ELSE "check"
  BY DEF CompareChecksum, Finish, Goto, Inv, TypeOK
<1>4. objects /\ versionTable /\ rows[V] # NoRow
  BY <1>2 DEF Inv, StartInv, SchemaInv
<1>5. StoresInv(s)'
  BY <1>2, <1>3 DEF Inv, StartInv, StoresInv, StatementsRun, SchemaDone, Neo4jDone, QdrantDone, stores,
     localVars
<1>6. SchemaInv(s)'
  BY <1>1, <1>2, <1>3, <1>4 DEF SchemaInv, SchemaDone, stores, database
<1>7. KeepInv(s)'
  BY <1>1, <1>2, <1>3, <1>4 DEF KeepInv, stores, database, localVars
<1> QED
  BY <1>5, <1>6, <1>7 DEF StartInv

LEMMA ApplyKeeps ==
  ASSUME Inv, NEW s \in Starters, ApplySchema(s)
  PROVE  StartInv(s)'
<1> DEFINE V == VersionOf(s)
<1>1. V \in Versions /\ VersionOf(s)' = V /\ ChecksumOf(s)' = ChecksumOf(s)
  BY FileTypes DEF VersionOf, ChecksumOf
<1>2. pc[s] = "apply" /\ UNCHANGED <<localVars, constraints, collection, faults>>
  BY DEF ApplySchema
<1>3. objects' /\ rows'[V].checksum = ChecksumOf(s)
  <2>1. objects' /\ Record(V, "success", ChecksumOf(s))
    BY DEF ApplySchema, ApplyEffect
  <2>2. rows'[V] = [status |-> "success", checksum |-> ChecksumOf(s), at |-> clock + 1]
    BY <2>1, FileTypes, RecordTypes DEF Inv
  <2> QED
    BY <2>1, <2>2
<1>4. pc'[s] = IF s \in CommandLine THEN "initialized" ELSE "check"
  BY DEF ApplySchema, Finish, Goto, Inv, TypeOK
<1>5. StoresInv(s)'
  BY <1>2, <1>4 DEF Inv, StartInv, StoresInv, StatementsRun, SchemaDone, Neo4jDone, QdrantDone, localVars
<1>6. SchemaInv(s)'
  BY <1>1, <1>3, <1>4 DEF SchemaInv, SchemaDone
<1>7. KeepInv(s)'
  BY <1>4 DEF KeepInv
<1> QED
  BY <1>5, <1>6, <1>7 DEF StartInv

\* Neo4j: when the last statement has run they have all run.
LEMMA RunStatementKeeps ==
  ASSUME Inv, NEW s \in Starters, RunStatement(s)
  PROVE  StartInv(s)'
<1>1. /\ pc[s] = "constraints"
      /\ next[s] \in 1 .. Statements
      /\ 1 .. next[s] - 1 \subseteq constraints
      /\ constraints \subseteq 1 .. Statements
      /\ Statements \in Nat \ {0}
  BY InitAssumption DEF RunStatement, Inv, TypeOK, StartInv, StoresInv
<1>2. /\ constraints' = constraints \cup {next[s]}
      /\ next'[s] = next[s] + 1
      /\ pc'[s] = IF next[s] < Statements THEN "constraints" ELSE "collection"
  BY DEF RunStatement, Goto, Inv, TypeOK
<1>3. 1 .. next'[s] - 1 \subseteq constraints'
  BY <1>1, <1>2
<1>4. next[s] < Statements => next'[s] <= Statements
  BY <1>1, <1>2
<1>5. ASSUME ~(next[s] < Statements) PROVE StatementsRun(s)'
  <2>1. next[s] = Statements
    BY <1>1, <1>5
  <2>2. 1 .. Statements - 1 \subseteq constraints' /\ Statements \in constraints'
    BY <1>1, <1>2, <2>1
  <2> QED
    BY <2>2 DEF StatementsRun
<1>6. StoresInv(s)'
  BY <1>2, <1>3, <1>4, <1>5 DEF StoresInv, StatementsRun, SchemaDone, Neo4jDone, QdrantDone
<1>7. SchemaInv(s)' /\ KeepInv(s)'
  BY <1>2 DEF SchemaInv, SchemaDone, KeepInv
<1> QED
  BY <1>6, <1>7 DEF StartInv

\* The last one may be missing, and the start is one of those that do not know.
LEMMA LastAnswerKeeps ==
  ASSUME Inv, NEW s \in Starters, LastAnswerUnread(s)
  PROVE  StartInv(s)'
<1>1. /\ pc[s] = "constraints"
      /\ next[s] = Statements
      /\ 1 .. Statements - 1 \subseteq constraints
  BY DEF LastAnswerUnread, Inv, StartInv, StoresInv
<1>2. constraints \subseteq constraints' /\ s \in unread' /\ pc'[s] = "collection"
  BY DEF LastAnswerUnread, Goto, Inv, TypeOK
<1>3. StatementsRun(s)'
  BY <1>1, <1>2 DEF StatementsRun
<1>4. StoresInv(s)'
  BY <1>2, <1>3 DEF StoresInv, StatementsRun, SchemaDone, Neo4jDone, QdrantDone
<1>5. SchemaInv(s)' /\ KeepInv(s)'
  BY <1>2 DEF SchemaInv, SchemaDone, KeepInv
<1> QED
  BY <1>4, <1>5 DEF StartInv

LEMMA OwnStepKeeps ==
  ASSUME Inv, TypeOK', NEW s \in Starters, StepOf(s)
  PROVE  StartInv(s)'
<1> DEFINE V == VersionOf(s)
<1>0. /\ V \in Versions /\ VersionOf(s)' = V /\ ChecksumOf(s)' = ChecksumOf(s)
      /\ StartInv(s)
      /\ pc \in [Starters \cup Viewers -> PCs]
      /\ attempt \in [Starters -> 0 .. ConnectAttempts]
      /\ next \in [Starters -> 1 .. Statements + 1]
      /\ Statements \in Nat \ {0} /\ ConnectAttempts \in Nat \ {0}
  BY FileTypes, InitAssumption DEF VersionOf, ChecksumOf, Inv, TypeOK, PCs
<1>1. CASE Begin(s)
  BY <1>0, <1>1 DEF Begin, Goto, StartInv, StoresInv, StatementsRun, SchemaInv, KeepInv, SchemaDone,
     Neo4jDone, QdrantDone, localVars
<1>2. CASE CheckHealthy(s) \/ CheckUnhealthy(s)
  <2>1. /\ pc[s] = "check"
        /\ UNCHANGED <<attempt, next, seen, unread, stores>>
        /\ pc'[s] = IF s \notin CommandLine THEN "initialized"
                    ELSE IF CheckHealthy(s) THEN "connect" ELSE "failed"
    BY <1>2, <1>0 DEF CheckHealthy, CheckUnhealthy, Goto
  <2>2. StoresInv(s)'
    BY <1>0, <2>1 DEF StartInv, StoresInv, StatementsRun, SchemaDone, Neo4jDone, QdrantDone, stores
  <2>3. SchemaInv(s)' /\ KeepInv(s)'
    BY <1>0, <2>1 DEF StartInv, SchemaInv, SchemaDone, KeepInv, stores, database
  <2> QED
    BY <2>2, <2>3 DEF StartInv
<1>3. CASE Connect(s)
  BY <1>0, <1>3 DEF Connect, Goto, StartInv, StoresInv, StatementsRun, SchemaInv, KeepInv, SchemaDone,
     Neo4jDone, QdrantDone, localVars
<1>4. CASE ConnectFails(s)
  <2>1. /\ pc[s] = "connect" /\ next'[s] = next[s] /\ attempt'[s] = attempt[s] + 1
        /\ pc'[s] = IF attempt[s] + 1 < ConnectAttempts THEN "connect" ELSE "failed"
    BY <1>4, <1>0 DEF ConnectFails, Goto
  <2> QED
    BY <1>0, <2>1 DEF StartInv, StoresInv, StatementsRun, SchemaInv, KeepInv, SchemaDone, Neo4jDone, QdrantDone
<1>5. CASE CreateCollection(s)
  <2>1. /\ pc[s] = "collection" /\ pc'[s] = "version" /\ collection'
        /\ UNCHANGED <<localVars, constraints>>
    BY <1>5, <1>0 DEF CreateCollection, Goto
  <2>2. StatementsRun(s)'
    BY <1>0, <2>1 DEF StartInv, StoresInv, StatementsRun, Neo4jDone, localVars
  <2>3. StoresInv(s)'
    BY <2>1, <2>2 DEF StoresInv, SchemaDone, Neo4jDone, QdrantDone
  <2>4. SchemaInv(s)' /\ KeepInv(s)'
    BY <2>1 DEF SchemaInv, SchemaDone, KeepInv
  <2> QED
    BY <2>3, <2>4 DEF StartInv
<1>6. CASE ReadVersionFails(s)
  <2>1. /\ pc[s] = "version" /\ UNCHANGED <<localVars, stores>>
        /\ pc'[s] \in {"aborted", "failed"}
        /\ faults' # 0
    BY <1>6, <1>0, InitAssumption DEF ReadVersionFails, Fault, Inv, TypeOK
  <2> QED
    BY <1>0, <2>1 DEF StartInv, StoresInv, StatementsRun, SchemaInv, KeepInv, SchemaDone, Neo4jDone, QdrantDone,
       localVars, stores
<1>7. CASE ExecuteInAborted(s)
  BY <1>0, <1>7 DEF ExecuteInAborted, Goto, StartInv, StoresInv, StatementsRun, SchemaInv, KeepInv, SchemaDone,
     Neo4jDone, QdrantDone, localVars, stores, database
<1>8. CASE TriggerExists(s)
  BY <1>0, <1>8 DEF TriggerExists, Goto, StartInv, StoresInv, StatementsRun, SchemaInv, KeepInv, SchemaDone,
     Neo4jDone, QdrantDone, localVars, stores, database
<1>9. CASE StatementRaises(s)
  <2>1. /\ pc[s] \in {"compare", "apply"} /\ UNCHANGED <<localVars, stores>>
        /\ pc'[s] = "record" /\ faults' # 0
    BY <1>9, <1>0, InitAssumption DEF StatementRaises, Fault, Goto, Inv, TypeOK
  <2> QED
    BY <1>0, <2>1 DEF StartInv, StoresInv, StatementsRun, SchemaInv, KeepInv, SchemaDone, Neo4jDone, QdrantDone,
       localVars, stores
<1>10. CASE \/ StatementFails(s) \/ CollectionFails(s) \/ CommitFails(s) \/ RecordFailure(s)
            \/ RecordFailureFails(s) \/ Crash(s)
  <2>1. pc'[s] \in {"failed", "dead"}
    BY <1>10, <1>0 DEF StatementFails, LastAnswerUnread, CollectionFails, CommitFails, RecordFailure,
       RecordFailureFails, Crash, Goto
  <2> QED
    BY <2>1, EndedKeeps
<1> QED
  BY <1>1, <1>2, <1>3, <1>4, <1>5, <1>6, <1>7, <1>8, <1>9, <1>10, RunStatementKeeps,
     LastAnswerKeeps, ReadVersionKeeps, CompareKeeps, ApplyKeeps DEF StepOf, Step, Failure

\* The record of a success is written with the tables, in one transaction.
LEMMA DatabaseKeeps ==
  ASSUME Inv, NEW s \in Starters, StepOf(s)
  PROVE  DatabaseInv'
<1> DEFINE V == VersionOf(s)
<1>1. V \in Versions /\ ChecksumOf(s) \in Checksums
  BY FileTypes
<1>2. CASE UNCHANGED database
  BY <1>2 DEF database, Inv, DatabaseInv
<1>3. CASE ApplyEffect(s)
  BY <1>3 DEF ApplyEffect, DatabaseInv
<1>4. CASE RecordFailure(s) /\ versionTable
  <2> DEFINE k == IF rows[V] = NoRow THEN ChecksumOf(s) ELSE rows[V].checksum
  <2>1. k \in Checksums \cup {None}
    BY <1>1 DEF Inv, TypeOK, RowType
  <2>2. Record(V, "failed", k) /\ UNCHANGED <<versionTable, objects>>
    BY <1>4 DEF RecordFailure
  <2>3. /\ rows'[V] = [status |-> "failed", checksum |-> k, at |-> clock + 1]
        /\ \A w \in Versions \ {V} : rows'[w] = rows[w]
    BY <2>1, <2>2, <1>1, RecordTypes DEF Inv
  <2>4. rows'[V].status # "success"
    BY <2>3
  <2> QED
    BY <1>4, <2>2, <2>3, <2>4 DEF Inv, DatabaseInv
<1>5. CASE RecordFailure(s) /\ ~versionTable
  BY <1>5 DEF RecordFailure, database, Inv, DatabaseInv
<1>6. \/ UNCHANGED database
      \/ ApplyEffect(s)
      \/ RecordFailure(s)
  BY DEF StepOf, Begin, Step, Failure, CheckHealthy, Connect, RunStatement, CreateCollection,
     ReadVersion, ExecuteInAborted, CompareChecksum, ApplySchema, TriggerExists,
     CheckUnhealthy, ConnectFails, StatementFails, LastAnswerUnread, CollectionFails, ReadVersionFails,
     StatementRaises, CommitFails, RecordFailureFails, Crash, stores
<1> QED
  BY <1>2, <1>3, <1>4, <1>5, <1>6

\* A viewer reads, and writes nothing but what it shows.
LEMMA ViewerKeeps ==
  ASSUME Inv, NEW w \in Viewers, ViewVersion(w) \/ ViewDetails(w)
  PROVE  /\ DatabaseInv'
         /\ \A s \in Starters : StartInv(s)'
         /\ \A x \in Viewers : ViewInv(x)'
<1>1. UNCHANGED <<attempt, next, unread, stores, faults>>
  BY DEF ViewVersion, ViewDetails, localVars
<1>2. DatabaseInv'
  BY <1>1 DEF Inv, DatabaseInv, stores, database
<1>3. ASSUME NEW p \in Starters \cup Viewers, p # w
      PROVE  pc'[p] = pc[p] /\ seen'[p] = seen[p]
  BY <1>3 DEF ViewVersion, ViewDetails, Goto, localVars, Inv, TypeOK
<1>4. ASSUME NEW s \in Starters PROVE StartInv(s)'
  <2>1. pc'[s] = pc[s] /\ seen'[s] = seen[s] /\ StartInv(s)
    BY <1>3, InitAssumption DEF Inv
  <2>2. VersionOf(s)' = VersionOf(s) /\ ChecksumOf(s)' = ChecksumOf(s)
    BY DEF VersionOf, ChecksumOf
  <2> QED
    BY <1>1, <2>1, <2>2 DEF StartInv, StoresInv, StatementsRun, SchemaInv, KeepInv, SchemaDone, Neo4jDone,
       QdrantDone, stores, database
<1>5. ASSUME NEW x \in Viewers PROVE ViewInv(x)'
  <2>1. CASE x # w
    <3>1. shown'[x] = shown[x]
      BY <2>1 DEF ViewVersion, ViewDetails, Inv, TypeOK
    <3> QED
      BY <1>1, <1>3, <2>1, <3>1 DEF Inv, ViewInv, stores, database
  <2>2. CASE x = w /\ ViewVersion(w)
    <3>1. PICK v \in Versions \cup {None} :
            /\ IsCurrentVersion(v)
            /\ seen' = [seen EXCEPT ![w] = v]
            /\ Goto(w, IF v = None THEN "viewed" ELSE "details")
      BY <2>2 DEF ViewVersion
    <3>2. pc'[w] = "details" => v \in Versions /\ seen'[w] = v
      BY <3>1 DEF Goto, Inv, TypeOK
    <3>3. v \in Versions => objects
      BY <3>1, InitAssumption DEF IsCurrentVersion, Successes, Inv, DatabaseInv
    <3>4. shown' = shown
      BY <2>2 DEF ViewVersion
    <3> QED
      BY <1>1, <2>2, <3>2, <3>3, <3>4 DEF Inv, ViewInv, stores, database
  <2>3. CASE x = w /\ ViewDetails(w)
    <3>1. pc[w] = "details" /\ pc'[w] = "viewed"
      BY <2>3 DEF ViewDetails, Goto, Inv, TypeOK
    <3> QED
      BY <1>1, <2>3, <3>1 DEF Inv, ViewInv, stores, database
  <2> QED
    BY <2>1, <2>2, <2>3
<1> QED
  BY <1>2, <1>4, <1>5

LEMMA InvInit == Init => Inv
<1> SUFFICES ASSUME Init PROVE Inv
  OBVIOUS
<1>1. PICK d \in InitialDatabases :
        versionTable = d.versionTable /\ objects = d.objects /\ rows = d.rows
  BY DEF Init
<1>2. /\ d \in [versionTable : BOOLEAN, objects : BOOLEAN, rows : [Versions -> RowType]]
      /\ \A v \in Versions : /\ d.rows[v] # NoRow => d.versionTable
                             /\ d.rows[v].status = "success" => d.objects
      /\ ConnectAttempts \in Nat \ {0} /\ Statements \in Nat \ {0} /\ MaxFaults \in Nat
  BY <1>1, InitAssumption
<1>3. TypeOK
  <2>1. /\ pc \in [Starters \cup Viewers -> PCs]
        /\ seen \in [Starters \cup Viewers -> Versions \cup {None}]
        /\ shown \in [Viewers -> RowType]
        /\ unhealthy \in [Starters -> SUBSET Services]
    BY RowTypes DEF Init, PCs
  <2>2. /\ attempt \in [Starters -> 0 .. ConnectAttempts]
        /\ next \in [Starters -> 1 .. Statements + 1]
        /\ faults \in 0 .. MaxFaults
        /\ clock \in Nat
    BY <1>2 DEF Init
  <2>3. /\ constraints \subseteq 1 .. Statements /\ collection \in BOOLEAN
        /\ versionTable \in BOOLEAN /\ objects \in BOOLEAN
        /\ rows \in [Versions -> RowType]
    BY <1>1, <1>2 DEF Init
  <2>4. unread \subseteq Starters
    BY DEF Init
  <2> QED
    BY <2>1, <2>2, <2>3, <2>4 DEF TypeOK, PCs
<1>4. DatabaseInv
  BY <1>1, <1>2 DEF DatabaseInv
<1>5. \A s \in Starters : StartInv(s)
  BY <1>2 DEF Init, StartInv, StoresInv, StatementsRun, SchemaInv, KeepInv, SchemaDone, Neo4jDone, QdrantDone
<1>6. \A w \in Viewers : ViewInv(w)
  BY DEF Init, ViewInv
<1> QED
  BY <1>3, <1>4, <1>5, <1>6 DEF Inv

LEMMA InvStep == Inv /\ [Next]_vars => Inv'
<1> SUFFICES ASSUME Inv, [Next]_vars PROVE Inv'
  OBVIOUS
<1>1. TypeOK'
  BY TypeStep DEF Inv
<1>2. CASE UNCHANGED vars
  BY <1>1, <1>2 DEF vars, localVars, stores, database, Inv, DatabaseInv, StartInv, StoresInv, StatementsRun,
     SchemaInv, KeepInv, SchemaDone, Neo4jDone, QdrantDone, ViewInv, VersionOf, ChecksumOf
<1>3. ASSUME NEW s \in Starters, StepOf(s)
      PROVE  Inv'
  <2>1. \A q \in Starters : StartInv(q)'
    BY <1>1, <1>3, OthersKeep, OwnStepKeeps DEF Inv
  <2>2. ASSUME NEW w \in Viewers PROVE ViewInv(w)'
    <3>1. pc'[w] = pc[w] /\ seen'[w] = seen[w] /\ shown' = shown
      BY <1>3, Others, InitAssumption DEF Inv
    <3>2. objects => objects'
      BY <1>3, FileTypes, Monotone DEF Inv
    <3> QED
      BY <3>1, <3>2 DEF Inv, ViewInv
  <2> QED
    BY <1>1, <1>3, <2>1, <2>2, DatabaseKeeps DEF Inv
<1>4. ASSUME NEW w \in Viewers, ViewVersion(w) \/ ViewDetails(w)
      PROVE  Inv'
  BY <1>1, <1>4, ViewerKeeps DEF Inv
<1> QED
  BY <1>2, <1>3, <1>4 DEF Next, StepOf

(***************************************************************************)
(* Theorems.                                                               *)
(***************************************************************************)
\* The strengthened invariant holds in every state: what a start has behind it
\* in each of its places.
THEOREM Invariance == Spec => []Inv
  BY InvInit, InvStep, PTL DEF Spec

\* Type correctness: in particular no start runs a statement beyond the file
\* or makes more attempts to connect than Neo4jClient allows.
THEOREM Typed == Spec => []TypeOK
<1>1. Inv => TypeOK
  BY DEF Inv
<1> QED
  BY <1>1, Invariance, PTL

\* However many starts race, fail or die, one that reports success leaves the
\* collection, the tables and the constraints behind, all but the last of them
\* for certain: the last is missing only if this start has itself dropped the
\* error of its statement.
THEOREM Completeness == Spec => []InitializedIsComplete
<1>1. Inv => InitializedIsComplete
  BY DEF Inv, StartInv, StoresInv, StatementsRun, SchemaInv, InitializedIsComplete, SchemaDone, Neo4jDone,
     QdrantDone
<1> QED
  BY <1>1, Invariance, PTL

\* A version is recorded, or shown by the command line, only where the tables
\* exist.
THEOREM RecordsAreTrue == Spec => []RecordedIsApplied
<1>1. Inv => RecordedIsApplied
  BY DEF Inv, DatabaseInv, ViewInv, RecordedIsApplied, Successes
<1> QED
  BY <1>1, Invariance, PTL

\* A start that reports success has the schema of its own file recorded.
THEOREM OwnFile == Spec => []InitializedIsOwnFile
<1>1. Inv => InitializedIsOwnFile
  BY DEF Inv, StartInv, SchemaInv, SchemaDone, InitializedIsOwnFile
<1> QED
  BY <1>1, Invariance, PTL

\* A recorded success is overwritten by nothing but a fault, a start that had
\* read the version before, or one with another file of that version.
THEOREM RecordsAreKept == Spec => SecondRunKeepsRecord
<1> DEFINE Kept == \A v \in Versions : RecordLost(v) =>
             \E s \in Starters :
               /\ pc[s] = "record" /\ VersionOf(s) = v
               /\ seen[s] # v \/ rows[v].checksum # ChecksumOf(s) \/ faults > 0
<1>1. Inv /\ [Next]_vars => [Kept]_vars
  <2> SUFFICES ASSUME Inv, Next, NEW v \in Versions, RecordLost(v)
               PROVE  \E s \in Starters :
                        /\ pc[s] = "record" /\ VersionOf(s) = v
                        /\ seen[s] # v \/ rows[v].checksum # ChecksumOf(s) \/ faults > 0
    OBVIOUS
  <2>1. rows[v].status = "success" /\ rows'[v].status # "success"
    BY DEF RecordLost, Successes
  <2>2. PICK s \in Starters : StepOf(s)
    BY <2>1 DEF Next, StepOf, ViewVersion, ViewDetails, stores, database
  <2>3. UNCHANGED database \/ ApplyEffect(s) \/ (RecordFailure(s) /\ versionTable)
    BY <2>2 DEF StepOf, Begin, Step, Failure, CheckHealthy, Connect, RunStatement,
       CreateCollection, ReadVersion, ExecuteInAborted, CompareChecksum, ApplySchema,
       TriggerExists, RecordFailure, CheckUnhealthy, ConnectFails, StatementFails, LastAnswerUnread,
       CollectionFails, ReadVersionFails, StatementRaises, CommitFails, RecordFailureFails,
       Crash, stores
  <2>4. ~UNCHANGED database
    BY <2>1 DEF database
  <2>5. ~ApplyEffect(s)
    <3>1. SUFFICES ASSUME ApplyEffect(s) PROVE FALSE
      OBVIOUS
    <3> DEFINE r == [status |-> "success", checksum |-> ChecksumOf(s), at |-> clock + 1]
    <3>2. rows' = [rows EXCEPT ![VersionOf(s)] = r]
      BY <3>1 DEF ApplyEffect, Record
    <3>3. rows'[v] = rows[v] \/ rows'[v] = r
      BY <3>2 DEF Inv, TypeOK
    <3>4. r.status = "success"
      OBVIOUS
    <3> QED
      BY <2>1, <3>3, <3>4
  <2>6. RecordFailure(s) /\ versionTable
    BY <2>3, <2>4, <2>5
  <2>7. VersionOf(s) = v
    <3>1. rows' = rows \/ \E r : rows' = [rows EXCEPT ![VersionOf(s)] = r]
      BY <2>6 DEF RecordFailure, Record
    <3> QED
      BY <2>1, <3>1 DEF Inv, TypeOK
  <2>8. faults = 0 \/ faults > 0
    BY DEF Inv, TypeOK
  <2>9. pc[s] = "record"
    BY <2>6 DEF RecordFailure
  <2> QED
    BY <2>7, <2>8, <2>9 DEF Inv, StartInv, KeepInv
<1>2. Spec => [][Kept]_vars
  BY <1>1, Invariance, PTL DEF Spec
<1> QED
  BY <1>2 DEF SecondRunKeepsRecord

\* A database without schema_versions never gets it, nor the tables.
THEOREM FreshStays == Spec => FreshStaysFresh
<1>1. Inv /\ [Next]_vars => [~versionTable => UNCHANGED database]_vars
  <2> SUFFICES ASSUME Inv, Next, ~versionTable
               PROVE  UNCHANGED database
    OBVIOUS
  <2>1. ASSUME NEW s \in Starters PROVE ~(pc[s] = "apply")
    BY DEF Inv, StartInv, SchemaInv
  <2> QED
    BY <2>1 DEF Next, Begin, Step, Failure, CheckHealthy, Connect, RunStatement,
       CreateCollection, ReadVersion, ExecuteInAborted, CompareChecksum, ApplySchema,
       TriggerExists, RecordFailure, CheckUnhealthy, ConnectFails, StatementFails, LastAnswerUnread,
       CollectionFails, ReadVersionFails, StatementRaises, CommitFails, RecordFailureFails,
       Crash, ViewVersion, ViewDetails, stores
<1>2. Spec => [][~versionTable => UNCHANGED database]_vars
  BY <1>1, Invariance, PTL DEF Spec
<1> QED
  BY <1>2 DEF FreshStaysFresh

(***************************************************************************)
(* Termination: how much a start has still to do at most.                  *)
(***************************************************************************)
\* The stage of the start, and what is left of the loop it may be in: attempts
\* to connect, or statements to run.  The endpoint checks health at the end.
Stage(s) ==
  CASE pc[s] = "new" -> 9
    [] pc[s] = "check" -> IF s \in CommandLine THEN 8 ELSE 1
    [] pc[s] = "connect" -> 7
    [] pc[s] = "constraints" -> 6
    [] pc[s] = "collection" -> 5
    [] pc[s] = "version" -> 4
    [] pc[s] \in {"aborted", "compare"} -> 3
    [] pc[s] = "apply" -> 2
    [] pc[s] \in Ended -> 0
    [] OTHER -> 1
Left(s) ==
  CASE pc[s] = "connect" -> ConnectAttempts - attempt[s]
    [] pc[s] = "constraints" -> Statements - next[s]
    [] OTHER -> 0
Rank(s) == <<Stage(s), Left(s)>>

\* The lexicographic order.
Lower(a, b) == a[1] < b[1] \/ (a[1] = b[1] /\ a[2] < b[2])

Ranked == \A s \in Starters : Rank(s) \in Nat \X Nat
Descends ==
  \A s \in Starters : /\ Step(s) => Lower(Rank(s)', Rank(s))
                      /\ Rank(s)' # Rank(s) => Lower(Rank(s)', Rank(s))
AlwaysDescends == [][Descends]_vars

LEMMA RankTypes ==
  ASSUME Inv, NEW s \in Starters
  PROVE  Rank(s) \in Nat \X Nat
<1>1. /\ attempt[s] \in Nat /\ next[s] \in Nat /\ ConnectAttempts \in Nat /\ Statements \in Nat
      /\ pc[s] = "connect" => attempt[s] < ConnectAttempts
      /\ pc[s] = "constraints" => next[s] <= Statements
  BY InitAssumption DEF Inv, TypeOK, StartInv, StoresInv
<1>2. Stage(s) \in Nat
  BY DEF Stage, Ended
<1>3. Left(s) \in Nat
  BY <1>1 DEF Left
<1> QED
  BY <1>2, <1>3 DEF Rank

\* Every step of the start but those of its two loops ends a stage.
LEMMA StepLowers ==
  ASSUME Inv, NEW s \in Starters, StepOf(s)
  PROVE  Lower(Rank(s)', Rank(s))
<1>1. /\ pc \in [Starters \cup Viewers -> PCs]
      /\ DOMAIN attempt = Starters /\ DOMAIN next = Starters
      /\ attempt[s] \in Nat /\ next[s] \in Nat /\ ConnectAttempts \in Nat /\ Statements \in Nat
  BY InitAssumption DEF Inv, TypeOK, PCs
<1>2. ASSUME Stage(s)' < Stage(s) PROVE Lower(Rank(s)', Rank(s))
  BY <1>2 DEF Rank, Lower
<1>3. CASE Begin(s) \/ CheckHealthy(s) \/ CheckUnhealthy(s) \/ Connect(s) \/ CreateCollection(s)
  <2>1. Stage(s)' < Stage(s)
    BY <1>1, <1>3 DEF Ended, Begin, CheckHealthy, CheckUnhealthy, Connect, CreateCollection, Goto, Stage
  <2> QED
    BY <1>2, <2>1
<1>4. CASE ReadVersion(s) \/ ReadVersionFails(s)
  <2>1. pc[s] = "version" /\ pc'[s] \in {"aborted", "compare", "apply", "failed"}
    BY <1>1, <1>4 DEF ReadVersion, ReadVersionFails, Goto
  <2>2. Stage(s)' < Stage(s)
    BY <2>1 DEF Stage, Ended
  <2> QED
    BY <1>2, <2>2
<1>5. CASE ExecuteInAborted(s) \/ CompareChecksum(s) \/ ApplySchema(s) \/ TriggerExists(s)
           \/ StatementRaises(s)
  <2>1. \/ pc[s] \in {"aborted", "compare", "apply"} /\ pc'[s] = "record"
        \/ pc[s] = "compare" /\ pc'[s] = "apply"
        \/ pc[s] \in {"compare", "apply"}
           /\ pc'[s] = IF s \in CommandLine THEN "initialized" ELSE "check"
    BY <1>1, <1>5 DEF ExecuteInAborted, CompareChecksum, ApplySchema, TriggerExists,
       StatementRaises, Goto, Finish
  <2>2. Stage(s)' < Stage(s)
    BY <2>1 DEF Stage, Ended
  <2> QED
    BY <1>2, <2>2
<1>6. CASE StatementFails(s) \/ CollectionFails(s) \/ CommitFails(s) \/ RecordFailure(s)
           \/ RecordFailureFails(s) \/ Crash(s)
  <2>1. pc'[s] \in {"failed", "dead"} /\ pc[s] \notin Ended
    BY <1>1, <1>6 DEF StatementFails, LastAnswerUnread, CollectionFails, CommitFails, RecordFailure,
       RecordFailureFails, Crash, Goto, Ended
  <2>2. Stage(s)' < Stage(s)
    BY <2>1 DEF Stage, Ended
  <2> QED
    BY <1>2, <2>2
<1>7. CASE ConnectFails(s)
  <2>1. /\ pc[s] = "connect" /\ attempt'[s] = attempt[s] + 1
        /\ pc'[s] = IF attempt[s] + 1 < ConnectAttempts THEN "connect" ELSE "failed"
    BY <1>1, <1>7 DEF ConnectFails, Goto
  <2>2. CASE pc'[s] = "connect"
    <3>1. Stage(s)' = Stage(s) /\ Left(s)' < Left(s)
      BY <1>1, <2>1, <2>2 DEF Stage, Left, Ended
    <3> QED
      BY <3>1 DEF Rank, Lower
  <2>3. CASE pc'[s] = "failed"
    <3>1. Stage(s)' < Stage(s)
      BY <2>1, <2>3 DEF Stage, Ended
    <3> QED
      BY <1>2, <3>1
  <2> QED
    BY <2>1, <2>2, <2>3
<1>8. CASE RunStatement(s)
  <2>1. /\ pc[s] = "constraints" /\ next'[s] = next[s] + 1
        /\ pc'[s] = IF next[s] < Statements THEN "constraints" ELSE "collection"
    BY <1>1, <1>8 DEF RunStatement, Goto
  <2>2. CASE pc'[s] = "constraints"
    <3>1. Stage(s)' = Stage(s) /\ Left(s)' < Left(s)
      BY <1>1, <2>1, <2>2 DEF Stage, Left, Ended
    <3> QED
      BY <3>1 DEF Rank, Lower
  <2>3. CASE pc'[s] = "collection"
    <3>1. Stage(s)' < Stage(s)
      BY <2>1, <2>3 DEF Stage, Ended
    <3> QED
      BY <1>2, <3>1
  <2> QED
    BY <2>1, <2>2, <2>3
<1>9. CASE LastAnswerUnread(s)
  <2>1. pc[s] = "constraints" /\ pc'[s] = "collection"
    BY <1>1, <1>9 DEF LastAnswerUnread, Goto
  <2>2. Stage(s)' < Stage(s)
    BY <2>1 DEF Stage, Ended
  <2> QED
    BY <1>2, <2>2
<1> QED
  BY <1>3, <1>4, <1>5, <1>6, <1>7, <1>8, <1>9 DEF StepOf, Step, Failure

\* No start goes on for ever, whatever fails in it and whatever the others do:
\* it never turns back to an earlier stage, its attempts to connect and the
\* statements of the file run out, and no other start delays it.
THEOREM StartsRunOut == Spec => []Ranked /\ AlwaysDescends
<1>1. Inv => Ranked
  BY RankTypes DEF Ranked
<1>2. Inv /\ [Next]_vars => [Descends]_vars
  <2> SUFFICES ASSUME Inv, Next, NEW s \in Starters
               PROVE  /\ Step(s) => Lower(Rank(s)', Rank(s))
                      /\ Rank(s)' # Rank(s) => Lower(Rank(s)', Rank(s))
    BY DEF Descends
  <2>1. StepOf(s) => Lower(Rank(s)', Rank(s))
    BY StepLowers
  <2>2. ASSUME NEW q \in Starters, q # s, StepOf(q) PROVE Rank(s)' = Rank(s)
    <3>1. pc'[s] = pc[s] /\ attempt'[s] = attempt[s] /\ next'[s] = next[s]
      BY <2>2, Others DEF Inv
    <3> QED
      BY <3>1 DEF Rank, Stage, Left
  <2>3. ASSUME NEW w \in Viewers, ViewVersion(w) \/ ViewDetails(w) PROVE Rank(s)' = Rank(s)
    <3>1. pc'[s] = pc[s] /\ UNCHANGED <<attempt, next>>
      BY <2>3, InitAssumption DEF ViewVersion, ViewDetails, Goto, localVars, Inv, TypeOK
    <3> QED
      BY <3>1 DEF Rank, Stage, Left
  <2> QED
    BY <2>1, <2>2, <2>3 DEF Next, Step, StepOf
<1> QED
  BY <1>1, <1>2, Invariance, PTL DEF Spec, AlwaysDescends
=============================================================================
