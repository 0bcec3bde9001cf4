--------------------------- MODULE MCGlobalService ---------------------------
(* An instance of GlobalService for TLC. *)
EXTENDS GlobalService

CONSTANTS p1, m1, m2, r1

OnePlayer  == {p1}
OneMap     == {m1}
TwoMaps    == {m1, m2}
OneRecord  == {r1}
AllCodes   == {"normal", "policy", "other", "error", "refused"}
==============================================================================
