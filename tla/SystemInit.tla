------------------------------ MODULE SystemInit ------------------------------
(***************************************************************************)
(* Initialisation: `taboot init` and POST /init create the constraints of  *)
(* Neo4j, the collection of Qdrant and the schema of PostgreSQL, one after *)
(* the other and without a lock, so that several starts (of the command,   *)
(* of the API, of two builds with different schema files) interleave.      *)
(*                                                                         *)
(* Neo4j commits every statement by itself and Qdrant refuses a second     *)
(* collection with 409, which is accepted.  create_schema runs one         *)
(* transaction: it reads the last version applied with success, compares   *)
(* checksums, and skips, or executes the whole file and records it in      *)
(* schema_versions.  A failure is rolled back and recorded by a second     *)
(* transaction.  Two facts of the file and of PostgreSQL decide what       *)
(* happens: CREATE TRIGGER has no IF NOT EXISTS, so that the file cannot   *)
(* be executed over itself, and a statement that fails (the SELECT on a    *)
(* missing schema_versions, whose error get_current_version swallows)      *)
(* aborts the transaction, so that the next one fails too.                 *)
(*                                                                         *)
(* `taboot schema version` reads the record in two statements meanwhile.   *)
(***************************************************************************)
EXTENDS Naturals, FiniteSets

CONSTANTS
  Starters,         \* runs of the command and of the endpoint
  CommandLine,      \* those of the command
  Viewers,          \* runs of `taboot schema version`
  Services,         \* services of check_system_health
  Versions,
  Checksums,
  FileOf,           \* the schema file of the starter's build
  Statements,       \* number of statements of neo4j-constraints.cypher
  ConnectAttempts,  \* max_attempts of Neo4jClient.connect
  InitialDatabases, \* what PostgreSQL holds before the first start
  MaxFaults         \* bound: failures and crashes in a behaviour

None == "none"
RowType == [status : {None, "success", "failed"}, checksum : Checksums \cup {None}, at : Nat]
NoRow == [status |-> None, checksum |-> None, at |-> 0]

ASSUME InitAssumption ==
  /\ CommandLine \subseteq Starters
  /\ Starters \cap Viewers = {}
  /\ None \notin Versions \cup Checksums
  /\ FileOf \in [Starters -> [version : Versions, checksum : Checksums]]
  /\ Statements \in Nat \ {0}
  /\ ConnectAttempts \in Nat \ {0}
  /\ InitialDatabases \subseteq
       [versionTable : BOOLEAN, objects : BOOLEAN, rows : [Versions -> RowType]]
  /\ \A d \in InitialDatabases : \A v \in Versions :
       /\ d.rows[v] # NoRow => d.versionTable
       /\ d.rows[v].status = "success" => d.objects
  /\ MaxFaults \in Nat

VARIABLES
  pc,           \* where each start and each viewer is
  attempt,      \* attempts to connect to Neo4j, while it connects
  next,         \* the constraint statement to run next
  seen,         \* current_version as it was read
  unhealthy,    \* services the last health check found down
  unread,       \* starts that closed their session over a failed statement (history)
  constraints,  \* statements Neo4j has executed
  collection,   \* the collection exists in Qdrant
  versionTable, \* schema_versions exists
  objects,      \* the tables of schema rag and their trigger exist
  rows,         \* schema_versions
  clock,        \* applied_at of its last write
  shown,        \* the record a viewer prints
  faults

localVars == <<attempt, next, seen, unhealthy, unread>>
database == <<versionTable, objects, rows, clock>>
stores == <<constraints, collection, database>>
vars == <<pc, localVars, stores, shown, faults>>

VersionOf(s) == FileOf[s].version
ChecksumOf(s) == FileOf[s].checksum

Init ==
  /\ pc = [p \in Starters \cup Viewers |-> "new"]
  /\ attempt = [s \in Starters |-> 0]
  /\ next = [s \in Starters |-> 1]
  /\ seen = [p \in Starters \cup Viewers |-> None]
  /\ unhealthy = [s \in Starters |-> {}]
  /\ unread = {}
  /\ constraints = {}
  /\ collection = FALSE
  /\ \E d \in InitialDatabases :
       versionTable = d.versionTable /\ objects = d.objects /\ rows = d.rows
  /\ clock = 1
  /\ shown = [w \in Viewers |-> NoRow]
  /\ faults = 0

Goto(p, label) == pc' = [pc EXCEPT ![p] = label]

Fault ==
  /\ faults < MaxFaults
  /\ faults' = faults + 1

(***************************************************************************)
(* Health, Neo4j and Qdrant.                                               *)
(***************************************************************************)
\* The command checks health before it starts, the endpoint when it is done.
Begin(s) ==
  /\ pc[s] = "new"
  /\ Goto(s, IF s \in CommandLine THEN "check" ELSE "connect")
  /\ UNCHANGED <<localVars, stores, shown, faults>>

\* check_system_health: all services answered.
CheckHealthy(s) ==
  /\ pc[s] = "check"
  /\ unhealthy' = [unhealthy EXCEPT ![s] = {}]
  /\ Goto(s, IF s \in CommandLine THEN "connect" ELSE "initialized")
  /\ UNCHANGED <<attempt, next, seen, unread, stores, shown, faults>>

\* Some did not: the command exits, the endpoint only says so.
CheckUnhealthy(s) ==
  /\ Fault
  /\ pc[s] = "check"
  /\ \E down \in SUBSET Services \ {{}} : unhealthy' = [unhealthy EXCEPT ![s] = down]
  /\ Goto(s, IF s \in CommandLine THEN "failed" ELSE "initialized")
  /\ UNCHANGED <<attempt, next, seen, unread, stores, shown>>

Connect(s) ==
  /\ pc[s] = "connect"
  /\ attempt' = [attempt EXCEPT ![s] = 0]
  /\ Goto(s, "constraints")
  /\ UNCHANGED <<next, seen, unhealthy, unread, stores, shown, faults>>

\* Neo4jClient.connect is tried again until its attempts are used up.
ConnectFails(s) ==
  /\ Fault
  /\ pc[s] = "connect"
  /\ attempt' = [attempt EXCEPT ![s] = @ + 1]
  /\ Goto(s, IF attempt[s] + 1 < ConnectAttempts THEN "connect" ELSE "failed")
  /\ UNCHANGED <<next, seen, unhealthy, unread, stores, shown>>

\* Mutant: the loop ends one statement early.
RunStatement_OffByOne(s) ==
  /\ pc[s] = "constraints"
  /\ constraints' = constraints \cup {next[s]}
  /\ next' = [next EXCEPT ![s] = @ + 1]
  /\ Goto(s, IF next[s] + 1 < Statements THEN "constraints" ELSE "collection")
  /\ UNCHANGED <<attempt, seen, unhealthy, unread, collection, database, shown, faults>>

\* Mutant: the loop runs one statement too many.
RunStatement_Beyond(s) ==
  /\ pc[s] = "constraints"
  /\ constraints' = constraints \cup {next[s]}
  /\ next' = [next EXCEPT ![s] = @ + 1]
  /\ Goto(s, IF next[s] <= Statements THEN "constraints" ELSE "collection")
  /\ UNCHANGED <<attempt, seen, unhealthy, unread, collection, database, shown, faults>>

\* session.run of one statement, IF NOT EXISTS, in a transaction of its own.
RunStatement(s) ==
  /\ pc[s] = "constraints"
  /\ constraints' = constraints \cup {next[s]}
  /\ next' = [next EXCEPT ![s] = @ + 1]
  /\ Goto(s, IF next[s] < Statements THEN "constraints" ELSE "collection")
  /\ UNCHANGED <<attempt, seen, unhealthy, unread, collection, database, shown, faults>>

\* ConstraintCreationError: the statements before it stay, and it may have run.
\* Its result is not consumed, so that an error that comes after the answer to
\* RUN, as one of the commit, is raised by the next session.run.
StatementFails(s) ==
  /\ Fault
  /\ pc[s] = "constraints"
  /\ constraints' \in {constraints, constraints \cup {next[s]}}
  /\ Goto(s, "failed")
  /\ UNCHANGED <<localVars, collection, database, shown>>

\* No session.run follows the last statement: such an error of it is met by
\* Session.close, which drops it, and apply_constraints reports success.
LastAnswerUnread(s) ==
  /\ Fault
  /\ pc[s] = "constraints"
  /\ next[s] = Statements
  /\ constraints' \in {constraints, constraints \cup {next[s]}}
  /\ next' = [next EXCEPT ![s] = @ + 1]
  /\ unread' = unread \cup {s}
  /\ Goto(s, "collection")
  /\ UNCHANGED <<attempt, seen, unhealthy, collection, database, shown>>

\* Created, or 409: it existed already.
CreateCollection(s) ==
  /\ pc[s] = "collection"
  /\ collection' = TRUE
  /\ Goto(s, "version")
  /\ UNCHANGED <<localVars, constraints, database, shown, faults>>

CollectionFails(s) ==
  /\ Fault
  /\ pc[s] = "collection"
  /\ collection' \in {collection, TRUE}
  /\ Goto(s, "failed")
  /\ UNCHANGED <<localVars, constraints, database, shown>>

(***************************************************************************)
(* create_schema.                                                          *)
(***************************************************************************)
Successes == {v \in Versions : rows[v].status = "success"}

\* Mutant: a failed record counts as applied.
IsCurrentVersion_AnyStatus(v) ==
  \/ v \in Versions /\ rows[v] # NoRow /\ \A w \in Versions : rows[w].at <= rows[v].at
  \/ v = None /\ \A w \in Versions : rows[w] = NoRow

\* SELECT version ... status = 'success' ORDER BY applied_at DESC LIMIT 1.
IsCurrentVersion(v) ==
  \/ v \in Successes /\ \A w \in Successes : rows[w].at <= rows[v].at
  \/ v = None /\ Successes = {}

\* Mutant: the statement that failed on the missing table does not abort the
\* transaction, as with a savepoint.
ReadVersion_Savepoint(s) ==
  /\ pc[s] = "version"
  /\ \E v \in Versions \cup {None} :
       /\ IsCurrentVersion(v)
       /\ seen' = [seen EXCEPT ![s] = v]
       /\ Goto(s, IF v = VersionOf(s) THEN "compare" ELSE "apply")
  /\ UNCHANGED <<attempt, next, unhealthy, unread, stores, shown, faults>>

\* get_current_version, on a connection of its own.
ReadVersion(s) ==
  /\ pc[s] = "version"
  /\ \E v \in Versions \cup {None} :
       /\ IsCurrentVersion(v)
       /\ seen' = [seen EXCEPT ![s] = v]
       /\ Goto(s, IF ~versionTable THEN "aborted"
                  ELSE IF v = VersionOf(s) THEN "compare" ELSE "apply")
  /\ UNCHANGED <<attempt, next, unhealthy, unread, stores, shown, faults>>

\* The SELECT raises for another reason, and None is returned all the same;
\* or there is no connection, which ends create_schema at once.
ReadVersionFails(s) ==
  /\ Fault
  /\ pc[s] = "version"
  /\ pc' \in {[pc EXCEPT ![s] = label] : label \in {"aborted", "failed"}}
  /\ UNCHANGED <<localVars, stores, shown>>

\* The next statement of an aborted transaction raises.
ExecuteInAborted(s) ==
  /\ pc[s] = "aborted"
  /\ Goto(s, "record")
  /\ UNCHANGED <<localVars, stores, shown, faults>>

\* What follows create_schema.
Finish(s) == Goto(s, IF s \in CommandLine THEN "initialized" ELSE "check")

\* Mutant: the version alone decides that nothing is to be done.
CompareChecksum_VersionOnly(s) ==
  /\ pc[s] = "compare"
  /\ Finish(s)
  /\ UNCHANGED <<localVars, stores, shown, faults>>

\* Mutant: the schema is applied whatever the checksums are.
CompareChecksum_Always(s) ==
  /\ pc[s] = "compare"
  /\ Goto(s, "apply")
  /\ UNCHANGED <<localVars, stores, shown, faults>>

\* SELECT checksum ... WHERE version = %s, whatever its status is by now.
CompareChecksum(s) ==
  /\ pc[s] = "compare"
  /\ IF rows[VersionOf(s)].checksum = ChecksumOf(s)
     THEN Finish(s)
     ELSE Goto(s, "apply")
  /\ UNCHANGED <<localVars, stores, shown, faults>>

\* INSERT ... ON CONFLICT (version) DO UPDATE: applied_at is NOW().
Record(v, status, checksum) ==
  /\ clock' = clock + 1
  /\ rows' = [rows EXCEPT ![v] = [status |-> status, checksum |-> checksum, at |-> clock + 1]]

ApplyEffect(s) ==
  /\ objects' = TRUE
  /\ versionTable' = TRUE
  /\ Record(VersionOf(s), "success", ChecksumOf(s))

\* The whole file, the record and the commit; a start that finds another one
\* in the middle of it waits for its end.
ApplySchema(s) ==
  /\ pc[s] = "apply"
  /\ ~objects
  /\ ApplyEffect(s)
  /\ Finish(s)
  /\ UNCHANGED <<localVars, constraints, collection, shown, faults>>

\* Mutant: the start tries again.
TriggerExists_Retries(s) ==
  /\ pc[s] = "apply"
  /\ objects
  /\ Goto(s, "version")
  /\ UNCHANGED <<localVars, stores, shown, faults>>

\* CREATE TRIGGER update_documents_updated_at: it exists already.
TriggerExists(s) ==
  /\ pc[s] = "apply"
  /\ objects
  /\ Goto(s, "record")
  /\ UNCHANGED <<localVars, stores, shown, faults>>

\* A statement raises, the SELECT of the checksum or one of the file: rollback.
StatementRaises(s) ==
  /\ Fault
  /\ pc[s] \in {"compare", "apply"}
  /\ Goto(s, "record")
  /\ UNCHANGED <<localVars, stores, shown>>

\* The connection is lost at the commit, which may have been applied; so is
\* the rollback of the except block, and nothing is recorded.
CommitFails(s) ==
  /\ Fault
  /\ pc[s] = "apply"
  /\ ~objects
  /\ ApplyEffect(s) \/ UNCHANGED database
  /\ Goto(s, "failed")
  /\ UNCHANGED <<localVars, constraints, collection, shown>>

\* The record of the failure replaces that of a success of the same version,
\* but for its checksum.  Without the table the INSERT fails, which is ignored.
RecordFailure(s) ==
  /\ pc[s] = "record"
  /\ IF versionTable
     THEN LET v == VersionOf(s)
          IN  /\ Record(v, "failed", IF rows[v] = NoRow THEN ChecksumOf(s) ELSE rows[v].checksum)
              /\ UNCHANGED <<versionTable, objects>>
     ELSE UNCHANGED database
  /\ Goto(s, "failed")
  /\ UNCHANGED <<localVars, constraints, collection, shown, faults>>

RecordFailureFails(s) ==
  /\ Fault
  /\ pc[s] = "record"
  /\ Goto(s, "failed")
  /\ UNCHANGED <<localVars, stores, shown>>

Ended == {"initialized", "failed", "dead"}

\* The process of a start dies; PostgreSQL rolls its transaction back.
Crash(s) ==
  /\ Fault
  /\ pc[s] \notin Ended \cup {"new"}
  /\ Goto(s, "dead")
  /\ UNCHANGED <<localVars, stores, shown>>

(***************************************************************************)
(* get_schema_version_details.                                             *)
(***************************************************************************)
ViewVersion(w) ==
  /\ pc[w] = "new"
  /\ \E v \in Versions \cup {None} :
       /\ IsCurrentVersion(v)
       /\ seen' = [seen EXCEPT ![w] = v]
       /\ Goto(w, IF v = None THEN "viewed" ELSE "details")
  /\ UNCHANGED <<attempt, next, unhealthy, unread, stores, shown, faults>>

\* The row of that version as it is now.
ViewDetails(w) ==
  /\ pc[w] = "details"
  /\ shown' = [shown EXCEPT ![w] = rows[seen[w]]]
  /\ Goto(w, "viewed")
  /\ UNCHANGED <<localVars, stores, faults>>

(***************************************************************************)
(* Specification.                                                          *)
(***************************************************************************)
Step(s) ==
  \/ CheckHealthy(s) \/ Connect(s) \/ RunStatement(s) \/ CreateCollection(s)
  \/ ReadVersion(s) \/ ExecuteInAborted(s) \/ CompareChecksum(s)
  \/ ApplySchema(s) \/ TriggerExists(s) \/ RecordFailure(s)

Failure(s) ==
  \/ CheckUnhealthy(s) \/ ConnectFails(s) \/ StatementFails(s) \/ LastAnswerUnread(s)
  \/ CollectionFails(s) \/ ReadVersionFails(s) \/ StatementRaises(s) \/ CommitFails(s)
  \/ RecordFailureFails(s) \/ Crash(s)

Next ==
  \/ \E s \in Starters : Begin(s) \/ Step(s) \/ Failure(s)
  \/ \E w \in Viewers : ViewVersion(w) \/ ViewDetails(w)

Spec == Init /\ [][Next]_vars

\* A start that runs makes its calls, and each returns or raises.
FairSpec == Spec /\ \A s \in Starters : WF_vars(Step(s))

(***************************************************************************)
(* Properties.                                                             *)
(***************************************************************************)
\* Type invariant.
TypeOK ==
  /\ pc \in [Starters \cup Viewers ->
              {"new", "check", "connect", "constraints", "collection", "version", "aborted",
               "compare", "apply", "record", "details", "viewed"} \cup Ended]
  /\ attempt \in [Starters -> 0 .. ConnectAttempts]
  /\ next \in [Starters -> 1 .. Statements + 1]
  /\ seen \in [Starters \cup Viewers -> Versions \cup {None}]
  /\ unhealthy \in [Starters -> SUBSET Services]
  /\ unread \subseteq Starters
  /\ constraints \subseteq 1 .. Statements
  /\ collection \in BOOLEAN
  /\ versionTable \in BOOLEAN
  /\ objects \in BOOLEAN
  /\ rows \in [Versions -> RowType]
  /\ clock \in Nat
  /\ shown \in [Viewers -> RowType]
  /\ faults \in 0 .. MaxFaults

\* A start that reports success, by applying the schema or because it trusts
\* the record of another one, leaves all three stores ready: the collection, the
\* tables, and every constraint, but that the last one may be missing where this
\* very start closed its session over the failure of that statement.
InitializedIsComplete ==
  \A s \in Starters : pc[s] = "initialized" =>
    /\ collection /\ objects
    /\ 1 .. Statements - 1 \subseteq constraints
    /\ Statements \in constraints \/ s \in unread

\* Whatever starts raced, failed or crashed, the record and the tables agree,
\* so that skipping because of the record is safe; and `taboot schema version`,
\* whose second read may see a failed record, still shows no version of a
\* database without tables.
RecordedIsApplied ==
  Successes # {} \/ (\E w \in Viewers : shown[w] # NoRow) => objects

\* The schema a start reports is that of its own file, not one of the same
\* version with another content.
InitializedIsOwnFile ==
  \A s \in Starters :
    pc[s] = "initialized" => rows[VersionOf(s)].checksum = ChecksumOf(s)

\* A recorded success is lost (and every later start then fails, for the
\* trigger exists) only to a start that had read the version before, or has
\* another file of that version, or to a fault: never to a plain second run.
RecordLost(v) == v \in Successes /\ v \notin Successes'

SecondRunKeepsRecord ==
  [][\A v \in Versions : RecordLost(v) =>
        \E s \in Starters :
          /\ pc[s] = "record" /\ VersionOf(s) = v
          /\ seen[s] # v \/ rows[v].checksum # ChecksumOf(s) \/ faults > 0]_vars

\* A database without schema_versions stays without it, whoever starts and how
\* often: the SELECT that fails takes the transaction that would create the
\* table with it.
FreshStaysFresh ==
  [][~versionTable => UNCHANGED database]_vars

\* Initialisation completes on a fresh deployment when nothing fails, which is
\* what the handler of get_current_version is there for.
FreshStartSucceeds ==
  faults = 0 /\ ~versionTable /\ ~objects => \A s \in Starters : pc[s] # "failed"

\* Every start ends, whatever the others do.
StartsEnd ==
  \A s \in Starters : pc[s] # "new" ~> pc[s] \in Ended
=============================================================================
