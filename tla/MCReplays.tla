------------------------------ MODULE MCReplays ------------------------------
(* An instance of Replays for TLC: three runs of a group, one of them damaged and
   one short, and manual replays of another map, all on the disk from the start but
   the fastest run. *)
EXTENDS Replays

CONSTANTS r1, r2, r3, m1, m2, main, old, wpn, spd, p, vnl, m128

Runs     == {r1, r2, r3}
AllFiles == Runs \cup {m1, m2}
Saved    == AllFiles \ {r1}
H(kind, time) ==
  [kind |-> kind, player |-> p, group |-> main, time |-> time, stamp |-> time,
   styled |-> FALSE, reported |-> FALSE]
Headers == [f \in AllFiles |->
  H(IF f \in Runs THEN "run" ELSE "manual",
    CASE f = r1 -> 1 [] f = r2 -> 2 [] f = r3 -> 3 [] f = m1 -> 4 [] f = m2 -> 5)]

\* The player stands, walks and stands; one server tick is missing.
T(k, moved, teleports) ==
  [serverTick |-> k, plain |-> [y \in {wpn} |-> k % 2], checkpoint |-> teleports,
   pre |-> [y \in {spd} |-> moved], post |-> [y \in {spd} |-> 1 - moved]]
Ticks6 == <<T(1, 0, 0), T(2, 0, 0), T(3, 1, 1), T(4, 0, 1), T(5, 0, 1), T(7, 0, 0)>>
E(type, k, course, time, m) == [type |-> type, serverTick |-> k, course |-> course, time |-> time, mode |-> m]
Events6 == <<E("MODE", 1, NoCourse, 0, vnl), E("START", 1, main, 0, NoMode), E("PAUSE", 2, NoCourse, 1, NoMode),
             E("RESUME", 3, NoCourse, 1, NoMode), E("END", 4, main, 2, NoMode), E("START", 4, main, 0, NoMode),
             E("START", 4, old, 0, NoMode), E("STOP", 5, NoCourse, 1, NoMode), E("PAUSE", 5, NoCourse, 1, NoMode),
             E("TELEPORT", 7, NoCourse, 0, NoMode)>>
R(map, damaged) == [map |-> map, ticks |-> Ticks6, events |-> Events6, damaged |-> damaged]
ShortRun == [map |-> "current", ticks |-> SubSeq(Ticks6, 1, 4), events |-> SubSeq(Events6, 1, 4), damaged |-> "none"]
Recordings == [f \in AllFiles |->
  CASE f = r1 -> R("current", "none") [] f = r2 -> ShortRun
    [] f = r3 -> R("current", "events") [] OTHER -> R("other", "none")]

OnePlayer == {p}
Known  == {main}
Played == {vnl, m128}
AllCourses == {main, old, NoCourse}
AllModes   == Played \cup {NoMode}
OneField == {wpn}
OneMove  == {spd}
TwoValues == {0, 1}
YoungAndOld == {4}
LongOrTwice == {[asked |-> {r1, r3, m2}, loads |-> 1, curtime |-> 7], [asked |-> {r1, r2}, loads |-> 2, curtime |-> 1]}
==============================================================================
