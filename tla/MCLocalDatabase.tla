---------------------------- MODULE MCLocalDatabase ----------------------------
(* An instance of LocalDatabase for TLC: a map made for the mapping API whose *)
(* first course has a route split, an older map with a bonus, and one whose   *)
(* bonus misses a checkpoint and is removed.                                  *)
EXTENDS LocalDatabase

CONSTANTS api, old, broken, tick128, css

TheModes    == <<tick128, css>>
TheMaps     == {api, old, broken}
Zone(t, c, n)  == [type |-> t, named |-> "", course |-> c, num |-> n]
Named(p, n)    == [type |-> "disabled", named |-> p, course |-> "", num |-> n]
Versions    == [m \in TheMaps |-> IF m = api THEN "good" ELSE "none"]
Declared    == [m \in TheMaps |->
  IF m = api THEN <<[id |-> 2, name |-> "Second", target |-> "c2", hammer |-> 12],
                    [id |-> 1, name |-> "Main", target |-> "c1", hammer |-> 11]>>
  ELSE <<>>]
Spawned     == [m \in TheMaps |->
  CASE m = api -> <<Zone("start", "c1", 0), Zone("cp", "c1", 1), Zone("cp", "c1", 1), Zone("cp", "c1", 2),
                    Zone("stage", "c2", 2), Zone("other", "", 0), Zone("end", "c1", 0)>>
    [] m = old -> <<Named("stage", 1), Named("stage", 2), Named("cp", 1), Named("end", 0),
                    Named("bonus_start", 1), Named("bonus_cp", 1), Named("", 0)>>
    [] m = broken -> <<Named("start", 0), Named("bonus_start", 1), Named("bonus_cp", 2),
                       Named("bonus_start", 2), Named("stop", 0)>>]
Bonuses     == <<"B1", "B2">>
==============================================================================
