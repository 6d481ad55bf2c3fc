---------------------- MODULE MCExtractionOrchestrator ----------------------
(* Instances of ExtractionOrchestrator for TLC. *)
EXTENDS ExtractionOrchestrator, TLC

CONSTANTS j1, j2, x1, x2

TwoJobs == {j1, j2}
TwoTexts == {x1, x2}

\* Two documents share a window; one of them repeats it.
SharedWindows == (j1 :> <<x1, x2>>) @@ (j2 :> <<x2, x2>>)
=============================================================================
