--------------------------- MODULE MCWebIngestion ---------------------------
(* Instances of WebIngestion for TLC. *)
EXTENDS WebIngestion, TLC

CONSTANTS api, again, cli, c1, c2, c3

AllJobs == {api, again, cli}
Requests == {api, again}
TwoJobs == {api, again}
ThreeContents == {c1, c2, c3}

\* The crawls share pages; a page of three chunks needs more than one batch,
\* and c3 normalises to nothing, so that it has no chunks.
SharedPages == (api :> <<c1, c2, c3>>) @@ (again :> <<c2>>) @@ (cli :> <<c2, c1>>)
SamePage == (api :> <<c2>>) @@ (again :> <<c2>>)
UnevenChunks == (c1 :> 3) @@ (c2 :> 1) @@ (c3 :> 0)
=============================================================================
