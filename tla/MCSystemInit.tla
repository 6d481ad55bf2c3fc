---------------------------- MODULE MCSystemInit ----------------------------
(* Instances of SystemInit for TLC. *)
EXTENDS SystemInit, TLC

CONSTANTS cli, api, old, viewer, neo4j, qdrant, v1, v2, k1, k2, k3

\* The command and the endpoint of one build, and a start of another build,
\* whose file has the same version and a changed text.
ThreeStarters == {cli, api, old}
OneViewer == {viewer}
TwoVersions == {v1, v2}
ThreeChecksums == {k1, k2, k3}
SameVersion ==
  (cli :> [version |-> v2, checksum |-> k2]) @@ (api :> [version |-> v2, checksum |-> k2])
    @@ (old :> [version |-> v2, checksum |-> k3])

\* Nothing; schema_versions alone, in schema public, after schema rag was
\* dropped; the file run by psql; the tables of a release that did not record
\* versions; an earlier version with its record.
NoRows == [v \in TwoVersions |-> NoRow]
Database(table, made, recorded) == [versionTable |-> table, objects |-> made, rows |-> recorded]
AllDatabases ==
  { Database(FALSE, FALSE, NoRows), Database(TRUE, FALSE, NoRows),
    Database(TRUE, TRUE, NoRows), Database(FALSE, TRUE, NoRows),
    Database(TRUE, TRUE,
      [NoRows EXCEPT ![v1] = [status |-> "success", checksum |-> k1, at |-> 1]]) }

\* The first start of a fresh deployment.
OneFile == cli :> [version |-> v2, checksum |-> k2]
OneStarter == {cli}
FreshDatabase == { Database(FALSE, FALSE, NoRows) }
=============================================================================
