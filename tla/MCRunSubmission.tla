--------------------------- MODULE MCRunSubmission ---------------------------
(* An instance of RunSubmission for TLC. *)
EXTENDS RunSubmission

CONSTANT r1

OneRun  == {r1}

AllResults == {"refused", "queued", "submitted"}
==============================================================================
