------------------------------ MODULE Movement ------------------------------
(***************************************************************************)
(* Movement: the hooks around the game's movement code, and what the        *)
(* player, his mode, his styles and the timer keep from them.               *)
(*                                                                          *)
(* The game simulates the players one after another in every tick, and in a *)
(* simulation processes any number of movements.  The settings it moves     *)
(* them with are the server's, so that they are set before each movement.   *)
(* The game's own functions are nondeterministic: they take the ground from *)
(* a player or give it to him, and move him onto a ladder or off it.        *)
(***************************************************************************)
EXTENDS Styles

CONSTANTS
  Players,
  Roaming,    \* those who leave the ground; the others only walk (a bound)
  Mode,       \* Mode[p]: the mode of p, which Session changes
  Wardrobe,   \* Wardrobe[p]: the styles p may add (a bound)
  CourseVels, \* the maxVel of the courses
  NoCourse, Nobody

ASSUME MovementAssumption ==
  /\ Roaming \subseteq Players /\ Nobody \notin Players
  /\ Wardrobe \in [Players -> SUBSET AllStyles]
  /\ CourseVels \subseteq Nat /\ NoCourse \notin CourseVels

VARIABLES
  player,       \* player[p]: the record below
  modeCvars,    \* whose values the mode convars hold
  maxVelocity,  \* sv_maxvelocity
  place,        \* who is simulated, and where the game is in it
  due           \* the players still to be simulated in this tick

vars == <<player, modeCvars, maxVelocity, place, due>>

Stages == {"simulated", "started", "placed", "climbed", "jumped", "moved", "ended"}
Moving == Stages \ {"simulated"}

PlayerRecord ==
  [onGround : BOOLEAN, previousOnGround : BOOLEAN,
   moveType : {"walk", "ladder", "noclip"}, lastKnownMoveType : {"walk", "ladder", "noclip"},
   walkMoved : BOOLEAN, oldWalkMoved : BOOLEAN, inPerf : BOOLEAN,
   ignoreNextCategorizePosition : BOOLEAN,
   inNoclip : BOOLEAN,       \* the noclip service's
   validJump : BOOLEAN,      \* the timer's
   invalidated : BOOLEAN,    \* lastInvalidateTime is this tick's
   course : CourseVels \cup {NoCourse},
   styles : SUBSET AllStyles,
   gravity : {50, 100, 150},
   heard : {"ground", "air"},  \* auxiliary: the last ground event the services heard
   takeoff : {"none", "perf", "jump", "fall", "ladder"},  \* auxiliary: how he left the ground
   \* auxiliary: carried since his last contact with the ground or a ladder: teleported
   \* while the code had him in contact, or flown or teleported in the air
   carried : {"no", "lifted", "flown"}]

TypeOK ==
  /\ player \in [Players -> PlayerRecord]
  /\ modeCvars \in {Mode[p] : p \in Players} \cup {NoCourse}
  /\ maxVelocity \in Nat
  /\ place \in [who : Players \cup {Nobody}, at : Stages \cup {"rest"}]
  /\ due \subseteq Players

Fresh(ground, known) ==
  [onGround |-> ground, previousOnGround |-> FALSE, moveType |-> "walk", lastKnownMoveType |-> known,
   walkMoved |-> FALSE, oldWalkMoved |-> FALSE, inPerf |-> FALSE, ignoreNextCategorizePosition |-> FALSE,
   inNoclip |-> FALSE, validJump |-> FALSE, invalidated |-> FALSE,
   course |-> NoCourse, styles |-> {}, gravity |-> 100,
   heard |-> "air", takeoff |-> "none", carried |-> "no"]

Rest == [who |-> Nobody, at |-> "rest"]

Init ==
  /\ player = [p \in Players |-> Fresh(p \notin Roaming, "walk")]
  /\ modeCvars = NoCourse /\ maxVelocity = 3500
  /\ place = Rest /\ due = Players

------------------------------------------------------------------------------
(* What a handler does to a player. *)

InvalidateJump(r) == [r EXCEPT !.validJump = FALSE, !.invalidated = TRUE]

HasValidMoveType(r) == r.moveType # "noclip"

OnStartTouchGround(r) == [r EXCEPT !.heard = "ground"]

OnStopTouchGround(r) ==
  LET h == [r EXCEPT !.heard = "air"]
  IN  IF HasValidMoveType(r) /\ ~r.invalidated THEN [h EXCEPT !.validJump = TRUE]
      ELSE InvalidateJump(h)

OnChangeMoveType_AnyWalk(r, old) ==  \* mutant
  IF r.moveType = "walk" /\ ~r.invalidated THEN [r EXCEPT !.validJump = TRUE] ELSE InvalidateJump(r)
OnChangeMoveType(r, old) ==
  IF old = "ladder" /\ r.moveType = "walk" /\ ~r.invalidated THEN [r EXCEPT !.validJump = TRUE]
  ELSE InvalidateJump(r)

SetMoveType(r, new) ==
  IF r.moveType = new THEN r ELSE OnChangeMoveType([r EXCEPT !.moveType = new], r.moveType)

RegisterTakeoff(r, how) == [r EXCEPT !.takeoff = how]
RegisterLanding(r) == [r EXCEPT !.inPerf = FALSE, !.takeoff = "none", !.carried = "no"]

\* The ground was found or lost since it was last looked at.
GroundEvents(r, old) ==
  CASE r.onGround /\ ~old -> OnStartTouchGround(RegisterLanding(r))
    [] old /\ ~r.onGround -> OnStopTouchGround(RegisterTakeoff(r, "fall"))
    [] OTHER              -> r

Airborne(r) ==
  ~r.onGround /\ ~r.previousOnGround /\ r.moveType # "ladder" /\ r.lastKnownMoveType # "ladder"

OnTeleport(r) == [InvalidateJump(r) EXCEPT !.carried = IF @ = "flown" \/ Airborne(r) THEN "flown" ELSE "lifted"]

HandleNoclip(r) ==
  CASE r.inNoclip                             -> SetMoveType(r, "noclip")
    [] ~r.inNoclip /\ r.moveType = "noclip"   -> SetMoveType(r, "walk")
    [] OTHER                                  -> r

Velocities(r) == {s.maxVel : s \in {s \in r.styles : s.short \in NamedVel}}
Gravities(r)  == {s.gravity : s \in r.styles} \ {None}

Becomes(p, r) == player' = [player EXCEPT ![p] = r]
At(p, from, to) ==
  place = [who |-> p, at |-> from] /\ place' = [who |-> p, at |-> to]

------------------------------------------------------------------------------
(* Between two simulations. *)

NextTick ==
  /\ place = Rest /\ due = {}
  /\ due' = Players
  /\ player' = [p \in Players |-> [player[p] EXCEPT !.invalidated = FALSE]]
  /\ UNCHANGED <<modeCvars, maxVelocity, place>>

\* What commands and the engine do to a player at rest: a held teleport or a
\* removed entity changes the ground flag.
Rests(p, r) ==
  /\ place = Rest
  /\ Becomes(p, r)
  /\ UNCHANGED <<modeCvars, maxVelocity, place, due>>

ToggleNoclip(p) == p \in Roaming /\ Rests(p, [player[p] EXCEPT !.inNoclip = ~@])
GroundFlag(p)   == p \in Roaming /\ Rests(p, [player[p] EXCEPT !.onGround = ~@])

AddStyle(p, s) ==
  /\ s \in Wardrobe[p] \ player[p].styles
  /\ \A t \in player[p].styles : ~Excludes(s, t)
  /\ Rests(p, [player[p] EXCEPT !.styles = @ \cup {s}])

\* The style's Cleanup gives the gravity back.
RemoveStyle(p, s) ==
  /\ s \in player[p].styles
  /\ Rests(p, [player[p] EXCEPT !.styles = @ \ {s}, !.gravity = IF s.gravity = None THEN @ ELSE 100])

\* Another player takes the slot; the move type last known stays.
Reset(p) ==
  \E ground \in BOOLEAN :
    /\ p \notin Roaming => ground
    /\ Rests(p, Fresh(ground, player[p].lastKnownMoveType))

\* A trigger, at any time: a start zone sets the course, others teleport.
Touch(p) ==
  /\ \/ \E c \in CourseVels : Becomes(p, [player[p] EXCEPT !.course = c])
     \/ p \in Roaming /\ Becomes(p, OnTeleport(player[p]))
  /\ UNCHANGED <<modeCvars, maxVelocity, place, due>>

------------------------------------------------------------------------------
(* A simulation. *)

PhysicsSimulate(p) ==
  /\ place = Rest /\ p \in due
  /\ place' = [who |-> p, at |-> "simulated"]
  /\ due' = due \ {p}
  /\ LET r == player[p]
         h == IF r.moveType # r.lastKnownMoveType THEN OnChangeMoveType(r, r.lastKnownMoveType) ELSE r
     IN  Becomes(p, HandleNoclip(h))
  /\ UNCHANGED <<modeCvars, maxVelocity>>

OnProcessMovement_NoGroundCheck(r) == [r EXCEPT !.walkMoved = FALSE]  \* mutant
OnProcessMovement(r) == GroundEvents([r EXCEPT !.walkMoved = FALSE], r.previousOnGround)

\* ApplyModeSettings sets sv_maxvelocity unless a style will, and the styles
\* set it, or the gravity, after it.
MaxVelocity_CourseOnly(r) == IF r.course # NoCourse THEN {r.course} ELSE {maxVelocity}  \* mutant
MaxVelocity(r) ==
  CASE Velocities(r) # {}                           -> Velocities(r)
    [] Velocities(r) = {} /\ r.course # NoCourse    -> {r.course}
    [] OTHER                                        -> {maxVelocity}

ProcessMovement(p) ==
  /\ At(p, "simulated", "started")
  /\ modeCvars' = Mode[p]
  /\ maxVelocity' \in MaxVelocity(player[p])
  /\ \E g \in IF Gravities(player[p]) = {} THEN {player[p].gravity} ELSE Gravities(player[p]) :
       Becomes(p, [OnProcessMovement(player[p]) EXCEPT !.gravity = g])
  /\ UNCHANGED due

\* A hook inside a movement.
Hook(p, from, to, r) ==
  /\ At(p, from, to)
  /\ Becomes(p, r)
  /\ UNCHANGED <<modeCvars, maxVelocity, due>>

Categorized(r, ground) ==
  LET g == GroundEvents([r EXCEPT !.onGround = ground], r.onGround)
  IN  IF g.moveType = "noclip" /\ ~ground THEN [g EXCEPT !.carried = "flown"] ELSE g

\* Water's fix for the game has one call skipped.
CategorizePosition(p) ==
  \E step \in {<<"started", "placed">>, <<"moved", "ended">>} :
    IF player[p].ignoreNextCategorizePosition
    THEN Hook(p, step[1], step[2], [player[p] EXCEPT !.ignoreNextCategorizePosition = FALSE])
    ELSE \E ground \in IF p \in Roaming THEN BOOLEAN ELSE {TRUE} :
           Hook(p, step[1], step[2], Categorized(player[p], ground))

\* The game's LadderMove says whether he is on a ladder, and may push him off.
LadderMove(p) ==
  LET r == player[p]
      off == OnChangeMoveType(RegisterTakeoff([r EXCEPT !.moveType = "walk"], "ladder"), "ladder")
      on  == [r EXCEPT !.moveType = "ladder"]
  IN  \/ Hook(p, "placed", "climbed", r)
      \/ r.moveType = "ladder" /\ Hook(p, "placed", "climbed", off)
      \/ /\ r.moveType = "walk" /\ p \in Roaming
         /\ Hook(p, "placed", "climbed",
                 IF r.onGround THEN on ELSE OnChangeMoveType(RegisterLanding(on), "walk"))

OnJumpLegacy(p) ==
  LET r == player[p]
      perf == r.moveType # "ladder" /\ ~r.oldWalkMoved
  IN  /\ p \in Roaming /\ r.onGround /\ r.moveType # "noclip"
      /\ Hook(p, "climbed", "jumped",
              OnStopTouchGround(RegisterTakeoff([r EXCEPT !.onGround = FALSE, !.inPerf = perf],
                                                IF perf THEN "perf" ELSE "jump")))

\* On the ground, in the water, and otherwise: in the air, on a ladder, in noclip.
WalkMove(p) ==
  /\ player[p].onGround /\ player[p].moveType = "walk"
  /\ Hook(p, "climbed", "moved", [player[p] EXCEPT !.walkMoved = TRUE])
WaterMove(p) ==
  /\ p \in Roaming /\ player[p].moveType = "walk"
  /\ \E from \in {"climbed", "jumped"} :
       Hook(p, from, "moved", [player[p] EXCEPT !.ignoreNextCategorizePosition = TRUE])
AirMove(p) ==
  /\ ~(player[p].onGround /\ player[p].moveType = "walk")
  /\ \E from \in {"climbed", "jumped"} : Hook(p, from, "moved", player[p])

ProcessMovementPost(p) ==
  LET r == player[p]
  IN  Hook(p, "ended", "simulated",
           [r EXCEPT !.inPerf = @ /\ ~r.onGround /\ r.moveType = "walk",
                     !.oldWalkMoved = r.walkMoved,
                     !.previousOnGround = r.onGround])

PhysicsSimulatePost(p) ==
  /\ place = [who |-> p, at |-> "simulated"]
  /\ place' = Rest
  /\ Becomes(p, [player[p] EXCEPT !.lastKnownMoveType = player[p].moveType])
  /\ UNCHANGED <<modeCvars, maxVelocity, due>>

Simulation(p) ==
  \/ PhysicsSimulate(p) \/ ProcessMovement(p) \/ CategorizePosition(p) \/ LadderMove(p)
  \/ OnJumpLegacy(p) \/ WalkMove(p) \/ WaterMove(p) \/ AirMove(p)
  \/ ProcessMovementPost(p) \/ PhysicsSimulatePost(p)

Next ==
  \/ NextTick
  \/ \E p \in Players :
       \/ ToggleNoclip(p) \/ GroundFlag(p) \/ Reset(p) \/ Touch(p)
       \/ \E s \in AllStyles : AddStyle(p, s) \/ RemoveStyle(p, s)
       \/ Simulation(p)

Spec == Init /\ [][Next]_vars

------------------------------------------------------------------------------
(* Properties *)

Processes(p) == place.who = p /\ place.at \in Moving

\* While a movement is processed the timer, the mode, the styles and the
\* triggers have heard whether the player is on the ground; when none is, they
\* have heard what the last one left.
GroundEventsHeard ==
  \A p \in Players : LET r == player[p]
                     IN  r.heard = IF (IF Processes(p) THEN r.onGround ELSE r.previousOnGround)
                                   THEN "ground" ELSE "air"

\* A player in the air may start the timer (TimerStart's guards) neither off a
\* perf, nor after he flew or was teleported in the air without touching the ground
\* or a ladder since, nor in the tick of any teleport.  What remains is a teleport
\* off the ground or off a ladder: the code sees him leave it only afterwards, and
\* from the next tick on takes that for a jump of his own.
MayStart(r) == HasValidMoveType(r) /\ (r.onGround \/ r.validJump) /\ ~r.inPerf
StartIsEarned ==
  \A p \in Players : LET r == player[p]
                     IN  MayStart(r) /\ ~r.onGround =>
                           /\ r.takeoff # "perf" /\ r.carried # "flown"
                           /\ r.carried = "lifted" => ~r.invalidated

\* A movement is processed with the player's own settings, whoever moved before
\* him and whatever styles he has left: his mode's convars, the speed limit and
\* the gravity of his styles, and without such a style the normal gravity.  It says
\* nothing of the limit of his course.
OwnSettings ==
  \A p \in Players : Processes(p) =>
    /\ modeCvars = Mode[p]
    /\ Velocities(player[p]) \subseteq {maxVelocity}
    /\ player[p].gravity = IF Gravities(player[p]) = {} THEN 100 ELSE CHOOSE g \in Gravities(player[p]) : TRUE
==============================================================================
