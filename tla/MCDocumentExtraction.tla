------------------------ MODULE MCDocumentExtraction ------------------------
(* Instances of DocumentExtraction for TLC. *)
EXTENDS DocumentExtraction, TLC

CONSTANTS d1, d2, w1, w2, b1, p1

MCDocs == {d1, d2}
OneDoc == {d1}
OneWorker == {w1}
TwoWorkers == {w1, w2}
OneBatch == {b1}
OneReprocessor == {p1}
Nobody == {}

\* Documents, and workers, are interchangeable in the safety runs.
Symmetry == Permutations(MCDocs) \cup Permutations(TwoWorkers)
=============================================================================
