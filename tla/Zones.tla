-------------------------------- MODULE Zones --------------------------------
(***************************************************************************)
(* The timer zones of a map, as the mapping API leaves them after           *)
(* round_start: every course has a start zone, an end zone, checkpoint      *)
(* zones numbered from 1, and stage zones.  The code checks that checkpoint *)
(* numbers are consecutive; it does not check stage numbers, so StageNums   *)
(* is a parameter: maps whose zones are recognised by entity name number    *)
(* them from 2 (stage 1 is the start zone), the FGD asks mappers to number  *)
(* them from 1.                                                             *)
(***************************************************************************)
EXTENDS Integers, FiniteSets

CONSTANTS
  Courses,     \* the courses of the map
  CpCount,     \* CpCount[c]: BhopCourseDescriptor::checkpointCount
  StageNums    \* StageNums[c]: the numbers on the stage zones of c

ASSUME ZonesAssumption ==
  /\ IsFiniteSet(Courses) /\ Courses # {}
  /\ CpCount \in [Courses -> Nat]
  /\ StageNums \in [Courses -> SUBSET (Nat \ {0})]
  /\ \A c \in Courses : IsFiniteSet(StageNums[c])

\* BhopCourseDescriptor::stageCount: how many stage zones were counted.
StageCount(c) == Cardinality(StageNums[c])

Zone(k, c, n) == [kind |-> k, course |-> c, num |-> n]
CpZones(c)    == {Zone("cp", c, n) : n \in 1..CpCount[c]}
StageZones(c) == {Zone("stage", c, n) : n \in StageNums[c]}
ZonesOf(c)    == {Zone("start", c, 0), Zone("end", c, 0)} \cup CpZones(c) \cup StageZones(c)
MapZones      == UNION {ZonesOf(c) : c \in Courses}

\* What a complete run of c goes through.  A stage zone numbered 1 is where
\* the run starts, so it asks nothing of the player.
Required(c) == CpZones(c) \cup {z \in StageZones(c) : z.num > 1}

\* Stages are taken in the order of their numbers, checkpoints in any order.
InOrder(z, passed) ==
  z.kind = "stage" => \A y \in Required(z.course) :
                         y.kind = "stage" /\ y.num < z.num => y \in passed
==============================================================================
