------------------------------- MODULE MCFiles -------------------------------
(* An instance of Files for TLC. *)
EXTENDS Files

CONSTANTS r1, r2, t1, t2

TwoJobs    == {r1, r2}
Silent     == {r2}   \* as at a disconnect
LongRuns   == {r1}
TwoTasks == {t1, t2}
OneAnswer  == {t2}
Chunks     == [j \in LongRuns |-> t1]
==============================================================================
