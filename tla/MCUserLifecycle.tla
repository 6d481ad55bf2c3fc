--------------------------- MODULE MCUserLifecycle ---------------------------
(* Instances of UserLifecycle for TLC. *)
EXTENDS UserLifecycle, TLC

CONSTANTS ann, ben, cron, manual, erase, restore, browser

TwoUsers == {ann, ben}

\* Ann's requests overlap, while Ben is only there to be listed with her.
AboutAnn == (erase :> ann) @@ (restore :> ann) @@ (browser :> ann)
=============================================================================
