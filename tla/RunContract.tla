----------------------------- MODULE RunContract -----------------------------
(***************************************************************************)
(* What the timer promises, with no timer in it: a run is on one course     *)
(* from its start to its end, and it is recorded as finished only after     *)
(* every checkpoint zone of that course and, in order, every stage zone.    *)
(***************************************************************************)
EXTENDS Zones, Sequences

CONSTANT NoCourse

VARIABLES
  onCourse,   \* the course being run, NoCourse between runs
  passed,     \* the zones passed since the start of the run
  finished    \* the courses of the finished runs, in order

contractVars == <<onCourse, passed, finished>>

Init == onCourse = NoCourse /\ passed = {} /\ finished = <<>>

Start(c) ==
  /\ onCourse = NoCourse
  /\ onCourse' = c
  /\ passed' = {}
  /\ UNCHANGED finished

Pass(z) ==
  /\ onCourse # NoCourse
  /\ z \in Required(onCourse)
  /\ InOrder(z, passed)
  /\ passed' = passed \cup {z}
  /\ UNCHANGED <<onCourse, finished>>

Abandon ==
  /\ onCourse' = NoCourse
  /\ UNCHANGED <<passed, finished>>

Finish ==
  /\ onCourse # NoCourse
  /\ Required(onCourse) \subseteq passed
  /\ onCourse' = NoCourse
  /\ finished' = Append(finished, onCourse)
  /\ UNCHANGED passed

Next ==
  \/ \E c \in Courses : Start(c)
  \/ \E z \in MapZones : Pass(z)
  \/ Abandon
  \/ Finish

Spec == Init /\ [][Next]_contractVars
==============================================================================
