-------------------------- MODULE MCSourceIngestion --------------------------
(* Commands that share texts and services, for model checking. *)
EXTENDS SourceIngestion, TLC

CONSTANTS r1, r2, r3, readme, guide, i1, i2, empty, note, up

\* One branch of documents for what is not a repository.
Feed(kind, docs, limit) ==
  [kind |-> kind, branches |-> "branch" :> docs, default |-> "branch", limit |-> limit]
Doc(item, text) == [item |-> item, text |-> text]

MCDownloads ==
  { [kind |-> "github", default |-> "master", limit |-> 3,
     branches |-> "master" :> <<Doc(readme, up), Doc(guide, empty)>>],
    [kind |-> "github", default |-> "trunk", limit |-> 1,
     branches |-> "trunk" :> <<Doc(readme, note), Doc(guide, up)>>],
    Feed("elasticsearch", <<Doc(i1, note), Doc(i2, up)>>, 2),
    Feed("elasticsearch", <<>>, 2),
    Feed("youtube", <<>>, 2),
    Feed("reddit", <<>>, 2),
    Feed("gmail", <<Doc(i1, note)>>, 2) }

Mapping(name, dependsOn, ports) ==
  [name |-> name, isMapping |-> TRUE, image |-> "image of " \o name,
   dependsOn |-> dependsOn, ports |-> ports]
Scalar(name) == [name |-> name, isMapping |-> FALSE]
Port(n) == [readable |-> TRUE, port |-> n, protocol |-> "tcp"]
Compose(services) == [kind |-> "docker-compose", services |-> services]

Cache == Compose({Mapping("cache", {}, {Port(65535)})})

MCFiles ==
  { Cache,
    Compose({Mapping("web", {"db", "cache"}, {Port(80), [readable |-> FALSE]}),
             Scalar("old"), Mapping("db", {}, {})}),
    Compose({Mapping("db", {}, {Port(65536)})}) }

Swag(isValid) == [kind |-> "swag", isValid |-> isValid]

MCConfigs == {Swag(TRUE), Swag(FALSE)}

\* Two runs of anything, beside a third that adds what they depend on.
MCMayRun ==
  [r \in Runs |-> IF r = r3 THEN {Cache, Swag(TRUE)} ELSE Commands]

MCChunkCount == (up :> 3) @@ (note :> 1) @@ (empty :> 0)
=============================================================================
