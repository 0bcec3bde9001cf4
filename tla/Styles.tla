------------------------------- MODULE Styles -------------------------------
(***************************************************************************)
(* Styles: the nine style plugins.  A style has a long and a short name and *)
(* a list of the styles it excludes, by either name; some set the server's  *)
(* sv_maxvelocity or the player's gravity before each movement, some remove *)
(* inputs from the player's command before it is used.                      *)
(*                                                                          *)
(* A command holds analog values and subtick moves.  The moves are a set:   *)
(* the styles remove moves and keep the order of the others.                *)
(***************************************************************************)
EXTENDS Integers, FiniteSets

None == 0  \* a style that leaves a setting alone

\* Load registers the names and the list; Pause and Unload take them back, and
\* Unpause registers the names without a list.
OnlyW    == [long |-> "OnlyW", short |-> "OW", listed |-> {"HSW", "SW"}, maxVel |-> None, gravity |-> None]
HSW      == [long |-> "HalfSideways", short |-> "HSW", listed |-> {"SW", "OnlyW"}, maxVel |-> None, gravity |-> None]
SW       == [long |-> "Sideways", short |-> "SW", listed |-> {"HSW", "OnlyW"}, maxVel |-> None, gravity |-> None]
LowGrav  == [long |-> "LowGrav", short |-> "LG", listed |-> {"HG"}, maxVel |-> None, gravity |-> 50]
HighGrav == [long |-> "HighGrav", short |-> "HG", listed |-> {"LG"}, maxVel |-> None, gravity |-> 150]
Vel3500  == [long |-> "3500vel", short |-> "3500vel", listed |-> {"5000vel", "10000vel"}, maxVel |-> 3500, gravity |-> None]
Vel5000  == [long |-> "5000vel", short |-> "5kvel", listed |-> {"3500vel", "10000vel"}, maxVel |-> 5000, gravity |-> None]
Vel10000 == [long |-> "10000vel", short |-> "10kvel", listed |-> {"5000vel", "3500vel"}, maxVel |-> 10000, gravity |-> None]
TAS      == [long |-> "TAS", short |-> "TAS", listed |-> {}, maxVel |-> None, gravity |-> None]

AllStyles == {OnlyW, HSW, SW, LowGrav, HighGrav, Vel3500, Vel5000, Vel10000, TAS}

\* ApplyModeSettings tells the styles that set sv_maxvelocity by "*vel".
NamedVel == {"3500vel", "5kvel", "10kvel"}

Excludes(s, t) == {t.long, t.short} \cap s.listed # {}

------------------------------------------------------------------------------
(* What the styles do to a command. *)

Forwards == {"forward", "back"}
Sides    == {"left", "right"}
Keys     == Forwards \cup Sides \cup {"jump"}

Moves   == [button : SUBSET Keys]
Command == [moves : SUBSET Moves, forward : -1..1, left : -1..1]

\* Two of the styles match a move's button with ==, the third with &.
OnlyWFilter(c) ==
  [moves   |-> {m \in c.moves : m.button \notin {{"left"}, {"right"}, {"back"}}},
   forward |-> IF c.forward < 0 THEN 0 ELSE c.forward,
   left    |-> 0]

SWFilter(c) ==
  [c EXCEPT !.moves = {m \in c.moves : m.button \notin {{"left"}, {"right"}}}, !.left = 0]

HasForwardBack(c) == c.forward # 0 \/ \E m \in c.moves : m.button \cap Forwards # {}
HasSide(c)        == c.left # 0 \/ \E m \in c.moves : m.button \cap Sides # {}

HSWFilter(c) ==
  CASE HasSide(c) /\ ~HasForwardBack(c) ->
         [c EXCEPT !.moves = {m \in c.moves : m.button \cap Sides = {}}, !.left = 0]
    [] HasForwardBack(c) /\ ~HasSide(c) ->
         [c EXCEPT !.moves = {m \in c.moves : m.button \cap Forwards = {}}, !.forward = 0]
    [] OTHER -> c

Filtered(s, c) ==
  CASE s = OnlyW -> OnlyWFilter(c)
    [] s = SW    -> SWFilter(c)
    [] s = HSW   -> HSWFilter(c)
    [] OTHER     -> c
==============================================================================
