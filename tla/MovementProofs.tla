--------------------------- MODULE MovementProofs ---------------------------
(***************************************************************************)
(* What holds of every movement, what the styles promise of every command,  *)
(* and 128t of every tick.                                                  *)
(*                                                                          *)
(* The invariant is a conjunction over the players, and a step of one       *)
(* player leaves what it says of the others.  Of a player it says what the  *)
(* services heard of the ground, why a jump may be used, and which settings *)
(* his movement has.  It is first shown of each handler as a function of    *)
(* the player's record, then of each step.                                  *)
(***************************************************************************)
EXTENDS Movement, ModeTicks, TLAPS

------------------------------------------------------------------------------
(* The styles and the ticks. *)

\* OnlyW leaves no subtick move of the keys it forbids, no analog value to the
\* sides and none backwards, and touches no other move
\* (BhopOnlyWStyleService::OnSetupMove).
THEOREM OnlyWForward ==
  ASSUME NEW c \in Command
  PROVE  /\ OnlyWFilter(c) \in Command
         /\ OnlyWFilter(c).left = 0 /\ OnlyWFilter(c).forward >= 0
         /\ \A m \in c.moves : m \in OnlyWFilter(c).moves <=> m.button \notin {{"left"}, {"right"}, {"back"}}
BY DEF Command, Moves, OnlyWFilter

\* After HSW's filter a command goes to a side exactly if it goes forward or
\* back, in its analog values and its subtick moves together
\* (BhopHalfSidewaysStyleService::OnSetupMove).
THEOREM HSWHalfSideways ==
  ASSUME NEW c \in Command
  PROVE  HasSide(HSWFilter(c)) <=> HasForwardBack(HSWFilter(c))
<1> DEFINE d == HSWFilter(c)
<1>1. CASE HasSide(c) /\ ~HasForwardBack(c)
  <2>1. d = [c EXCEPT !.moves = {m \in c.moves : m.button \cap Sides = {}}, !.left = 0]
    BY <1>1 DEF HSWFilter
  <2>2. d.moves = {m \in c.moves : m.button \cap Sides = {}} /\ d.left = 0 /\ d.forward = c.forward
    BY <2>1 DEF Command
  <2>3. ~HasSide(d)
    BY <2>2 DEF HasSide
  <2>4. ~HasForwardBack(d)
    BY <1>1, <2>2 DEF HasForwardBack
  <2> QED
    BY <2>3, <2>4
<1>2. CASE HasForwardBack(c) /\ ~HasSide(c)
  <2>1. d = [c EXCEPT !.moves = {m \in c.moves : m.button \cap Forwards = {}}, !.forward = 0]
    BY <1>2 DEF HSWFilter
  <2>2. d.moves = {m \in c.moves : m.button \cap Forwards = {}} /\ d.forward = 0 /\ d.left = c.left
    BY <2>1 DEF Command
  <2>3. ~HasForwardBack(d)
    BY <2>2 DEF HasForwardBack
  <2>4. ~HasSide(d)
    BY <1>2, <2>2 DEF HasSide
  <2> QED
    BY <2>3, <2>4
<1>3. CASE HasSide(c) <=> HasForwardBack(c)
  <2>1. d = c
    BY <1>3 DEF HSWFilter
  <2> QED
    BY <1>3, <2>1
<1> QED
  BY <1>1, <1>2, <1>3

\* What the slots may hold when a tick begins.
Ahead(s, t) == \A i \in 1..4 : s[i] <= 2 * t - 1 + 2 * (i - 1)

\* The four slots take the middles of the four ticks after this one.
LEMMA AfterTickFills ==
  ASSUME NEW t \in Nat, NEW s \in Slots,
         s[1] <= 2 * t + 1, s[2] <= 2 * t + 3, s[3] <= 2 * t + 5, s[4] <= 2 * t + 7
  PROVE  AfterTick(s, t) = [i \in 1..4 |-> 2 * (t + i) - 1]
<1>1. PICK w1 \in Int, w2 \in Int, w3 \in Int, w4 \in Int, w5 \in Int :
        w1 = 2 * t + 1 /\ w2 = w1 + 2 /\ w3 = w2 + 2 /\ w4 = w3 + 2 /\ w5 = w4 + 2
  OBVIOUS
<1>2. PICK s1 : s1 = [s EXCEPT ![1] = w1]
  OBVIOUS
<1>3. PICK s2 : s2 = [s1 EXCEPT ![2] = w2]
  OBVIOUS
<1>4. PICK s3 : s3 = [s2 EXCEPT ![3] = w3]
  OBVIOUS
<1>5. PICK s4 : s4 = [s3 EXCEPT ![4] = w4]
  OBVIOUS
<1>6. s[1] <= w1 /\ s[2] <= w2 /\ s[3] <= w3 /\ s[4] <= w4
  BY <1>1
<1>7. Fill(1, [slots |-> s, when |-> w1]) = [slots |-> s1, when |-> w2] /\ s1 \in Slots
  BY <1>1, <1>2, <1>6 DEF Fill, Slots
<1>8. Fill(2, [slots |-> s1, when |-> w2]) = [slots |-> s2, when |-> w3] /\ s2 \in Slots
  <2>1. s1[2] <= w2
    BY <1>2, <1>6 DEF Slots
  <2>2. s1 \in Slots /\ w3 = w2 + 2
    BY <1>1, <1>7
  <2> QED
    BY <2>1, <2>2, <1>3 DEF Fill, Slots
<1>9. Fill(3, [slots |-> s2, when |-> w3]) = [slots |-> s3, when |-> w4] /\ s3 \in Slots
  <2>1. s2[3] <= w3
    BY <1>2, <1>3, <1>6 DEF Slots
  <2>2. s2 \in Slots /\ w4 = w3 + 2
    BY <1>1, <1>8
  <2> QED
    BY <2>1, <2>2, <1>4 DEF Fill, Slots
<1>10. Fill(4, [slots |-> s3, when |-> w4]) = [slots |-> s4, when |-> w5] /\ s4 \in Slots
  <2>1. s3[4] <= w4
    BY <1>2, <1>3, <1>4, <1>6 DEF Slots
  <2>2. s3 \in Slots /\ w5 = w4 + 2
    BY <1>1, <1>9
  <2> QED
    BY <2>1, <2>2, <1>5 DEF Fill, Slots
<1>11. AfterTick(s, t) = s4
  BY <1>1, <1>7, <1>8, <1>9, <1>10 DEF AfterTick
<1>12. s4[1] = w1 /\ s4[2] = w2 /\ s4[3] = w3 /\ s4[4] = w4
  BY <1>2, <1>3, <1>4, <1>5 DEF Slots
<1>13. \A i \in 1..4 : s4[i] = 2 * (t + i) - 1
  BY <1>1, <1>12
<1> QED
  BY <1>10, <1>11, <1>13 DEF Slots

\* In 128t, from slots that are no further ahead than a tick leaves them, every
\* tick is divided in its middle, and the next one will be: no tick is left out
\* (Bhop128tModeService::OnPhysicsSimulate, OnPhysicsSimulatePost).
THEOREM EveryTickDivided ==
  ASSUME NEW t \in Nat, NEW s \in Slots, Ahead(s, t)
  PROVE  /\ Divided(BeforeTick(s, t), t)
         /\ Ahead(Tick128(s, t), t + 1)
         /\ Tick128(s, t) \in Slots
         /\ Divided(Tick128(s, t), t + 1)
<1>1. PICK b \in Slots : b = BeforeTick(s, t)
  <2>1. \A i \in 1..4 : s[i] \in Int /\ 2 * t - 1 \in Int
    BY DEF Slots
  <2> QED
    BY <2>1 DEF BeforeTick, Slots
<1>2. b[1] = 2 * t - 1 /\ \A i \in 2..4 : b[i] = s[i]
  <2>1. s[1] <= 2 * t - 1
    BY DEF Ahead
  <2> QED
    BY <1>1, <2>1 DEF BeforeTick, Slots
<1>3. b[1] <= 2 * t + 1 /\ b[2] <= 2 * t + 3 /\ b[3] <= 2 * t + 5 /\ b[4] <= 2 * t + 7
  BY <1>2 DEF Ahead, Slots
<1>4. Tick128(s, t) = [i \in 1..4 |-> 2 * (t + i) - 1]
  BY <1>1, <1>3, AfterTickFills DEF Tick128
<1>5. Divided(BeforeTick(s, t), t)
  BY <1>1, <1>2 DEF Divided
<1>6. Ahead(Tick128(s, t), t + 1) /\ Tick128(s, t) \in Slots
  BY <1>4 DEF Ahead, Slots
<1>7. Divided(Tick128(s, t), t + 1)
  BY <1>4 DEF Divided
<1> QED
  BY <1>5, <1>6, <1>7

------------------------------------------------------------------------------
(* A player. *)

\* The services have heard of the ground.
Heard(r, on) == r.heard = IF on THEN "ground" ELSE "air"

\* Who flew, was teleported in the air or is in a perf is in the air, and cannot use the
\* jump; nobody can in a tick that took it from him.
Earned(r) ==
  /\ r.carried = "flown" => r.moveType # "ladder" /\ r.heard = "air" /\ (r.moveType = "walk" => ~r.validJump)
  /\ r.takeoff = "perf" =>
       r.moveType # "ladder" /\ r.heard = "air" /\ (r.moveType = "walk" => r.inPerf \/ ~r.validJump)
  /\ r.validJump => ~r.invalidated

\* Between two simulations: the one who takes a slot over may find the ladder of
\* the player before him in lastKnownMoveType, which would give him the jump.
Settled(r) == r.lastKnownMoveType = "ladder" /\ r.moveType = "walk" => r.carried # "flown" /\ r.takeoff # "perf"

\* inside: a movement of his is processed; settled: he is not simulated.
Good(r, inside, settled) ==
  /\ r \in PlayerRecord
  /\ Heard(r, IF inside THEN r.onGround ELSE r.previousOnGround)
  /\ Earned(r)
  /\ settled => Settled(r)

\* What a movement leaves of him.
SameDress(n, r) == n.styles = r.styles /\ n.gravity = r.gravity

\* What Good tells of a player.
SameMotion(n, r) ==
  /\ n.onGround = r.onGround /\ n.previousOnGround = r.previousOnGround
  /\ n.moveType = r.moveType /\ n.lastKnownMoveType = r.lastKnownMoveType
  /\ n.inPerf = r.inPerf /\ n.validJump = r.validJump
  /\ n.heard = r.heard /\ n.takeoff = r.takeoff /\ n.carried = r.carried
  /\ n.invalidated => r.invalidated

\* A change Good does not tell of.
LEMMA Still ==
  ASSUME NEW r, NEW n \in PlayerRecord, NEW a \in BOOLEAN, NEW b \in BOOLEAN, Good(r, a, b), SameMotion(n, r)
  PROVE  Good(n, a, b)
BY DEF Good, SameMotion, Heard, Earned, Settled

\* What the handlers set that Good does not tell of.
LEMMA Flags ==
  ASSUME NEW r \in PlayerRecord, NEW b \in BOOLEAN
  PROVE  /\ [r EXCEPT !.invalidated = b] \in PlayerRecord
         /\ [r EXCEPT !.inNoclip = b] \in PlayerRecord
         /\ [r EXCEPT !.walkMoved = b] \in PlayerRecord
         /\ [r EXCEPT !.ignoreNextCategorizePosition = b] \in PlayerRecord
<1>1. [r EXCEPT !.invalidated = b] \in PlayerRecord
  BY DEF PlayerRecord
<1>2. [r EXCEPT !.inNoclip = b] \in PlayerRecord
  BY DEF PlayerRecord
<1>3. [r EXCEPT !.walkMoved = b] \in PlayerRecord
  BY DEF PlayerRecord
<1>4. [r EXCEPT !.ignoreNextCategorizePosition = b] \in PlayerRecord
  BY DEF PlayerRecord
<1> QED
  BY <1>1, <1>2, <1>3, <1>4

LEMMA FlagsStill ==
  ASSUME NEW r \in PlayerRecord, NEW b \in BOOLEAN
  PROVE  /\ ~b => SameMotion([r EXCEPT !.invalidated = b], r)
         /\ SameDress([r EXCEPT !.invalidated = b], r)
         /\ SameMotion([r EXCEPT !.inNoclip = b], r) /\ SameDress([r EXCEPT !.inNoclip = b], r)
         /\ SameMotion([r EXCEPT !.walkMoved = b], r) /\ SameDress([r EXCEPT !.walkMoved = b], r)
         /\ SameMotion([r EXCEPT !.ignoreNextCategorizePosition = b], r)
         /\ SameDress([r EXCEPT !.ignoreNextCategorizePosition = b], r)
BY DEF PlayerRecord, SameMotion, SameDress

\* The combinations of fields the handlers set.
LEMMA Puts ==
  ASSUME NEW r \in PlayerRecord, NEW a \in BOOLEAN, NEW b \in BOOLEAN,
         NEW c \in {"no", "lifted", "flown"}
  PROVE  /\ [r EXCEPT !.validJump = a] \in PlayerRecord
         /\ [r EXCEPT !.validJump = a, !.invalidated = b] \in PlayerRecord
         /\ [r EXCEPT !.validJump = a, !.invalidated = b, !.carried = c] \in PlayerRecord
         /\ [r EXCEPT !.inPerf = a, !.takeoff = "none", !.carried = c] \in PlayerRecord
         /\ [r EXCEPT !.heard = "air", !.validJump = a] \in PlayerRecord
         /\ [r EXCEPT !.heard = "air", !.validJump = a, !.invalidated = b] \in PlayerRecord
         /\ [r EXCEPT !.onGround = a, !.inPerf = b] \in PlayerRecord
<1>1. [r EXCEPT !.validJump = a] \in PlayerRecord
  BY DEF PlayerRecord
<1>2. [r EXCEPT !.validJump = a, !.invalidated = b] \in PlayerRecord
  BY DEF PlayerRecord
<1>3. [r EXCEPT !.validJump = a, !.invalidated = b, !.carried = c] \in PlayerRecord
  BY ZenonT(60) DEF PlayerRecord
<1>4. [r EXCEPT !.inPerf = a, !.takeoff = "none", !.carried = c] \in PlayerRecord
  BY ZenonT(60) DEF PlayerRecord
<1>5. [r EXCEPT !.heard = "air", !.validJump = a] \in PlayerRecord
  BY ZenonT(60) DEF PlayerRecord
<1>6. [r EXCEPT !.heard = "air", !.validJump = a, !.invalidated = b] \in PlayerRecord
  BY ZenonT(60) DEF PlayerRecord
<1>7. [r EXCEPT !.onGround = a, !.inPerf = b] \in PlayerRecord
  BY DEF PlayerRecord
<1> QED
  BY <1>1, <1>2, <1>3, <1>4, <1>5, <1>6, <1>7

\* Between two simulations the flag may change; what was heard is compared with the
\* flag the last movement left.
LEMMA GroundFlagged ==
  ASSUME NEW r, NEW b \in BOOLEAN, Good(r, FALSE, TRUE), NEW n, n = [r EXCEPT !.onGround = b]
  PROVE  Good(n, FALSE, TRUE) /\ SameDress(n, r)
<1>1. r \in PlayerRecord
  BY DEF Good
<1>2. n \in PlayerRecord
  BY <1>1 DEF PlayerRecord
<1>3. /\ n.previousOnGround = r.previousOnGround /\ n.moveType = r.moveType
      /\ n.lastKnownMoveType = r.lastKnownMoveType /\ n.inPerf = r.inPerf /\ n.validJump = r.validJump
      /\ n.heard = r.heard /\ n.takeoff = r.takeoff /\ n.carried = r.carried /\ n.invalidated = r.invalidated
  BY <1>1 DEF PlayerRecord
<1>4. SameDress(n, r)
  BY <1>1 DEF PlayerRecord, SameDress
<1> QED
  BY <1>2, <1>3, <1>4 DEF Good, Heard, Earned, Settled

\* A teleport in the air takes the jump (BhopTimerService::OnTeleport).
LEMMA Teleported ==
  ASSUME NEW r, NEW a \in BOOLEAN, NEW b \in BOOLEAN, Good(r, a, b), NEW n, n = OnTeleport(r)
  PROVE  Good(n, a, b) /\ SameDress(n, r)
<1>1. r \in PlayerRecord
  BY DEF Good
<1>2. PICK v \in {"no", "lifted", "flown"} : v = IF r.carried = "flown" \/ Airborne(r) THEN "flown" ELSE "lifted"
  BY Zenon
<1>3. n = [r EXCEPT !.validJump = FALSE, !.invalidated = TRUE, !.carried = v]
  <2>1. n = [InvalidateJump(r) EXCEPT !.carried = IF InvalidateJump(r).carried = "flown" \/ Airborne(r) THEN "flown" ELSE "lifted"]
    BY DEF OnTeleport
  <2>2. InvalidateJump(r).carried = r.carried
    BY <1>1 DEF InvalidateJump, PlayerRecord
  <2> QED
    BY <1>2, <2>1, <2>2, Zenon DEF InvalidateJump
<1>4. n \in PlayerRecord
  BY <1>1, <1>2, <1>3, Puts, ZenonT(60)
<1>5. /\ n.previousOnGround = r.previousOnGround /\ n.moveType = r.moveType /\ n.onGround = r.onGround
      /\ n.lastKnownMoveType = r.lastKnownMoveType /\ n.inPerf = r.inPerf /\ n.validJump = FALSE
      /\ n.heard = r.heard /\ n.takeoff = r.takeoff /\ n.carried = v
  BY <1>1, <1>3 DEF PlayerRecord
<1>6. SameDress(n, r)
  BY <1>1, <1>3 DEF PlayerRecord, SameDress
<1>7. r.heard \in {"ground", "air"} /\ r.onGround \in BOOLEAN /\ r.previousOnGround \in BOOLEAN
  BY <1>1 DEF PlayerRecord
<1>8. Airborne(r) => r.heard = "air" /\ r.moveType # "ladder" /\ r.lastKnownMoveType # "ladder"
  BY <1>7 DEF Airborne, Good, Heard
<1> QED
  BY <1>2, <1>4, <1>5, <1>6, <1>8 DEF Good, Heard, Earned, Settled

\* A jump off a ladder counts, every other change of the move type takes it
\* (BhopTimerService::OnChangeMoveType).
LEMMA ChangedMoveType ==
  ASSUME NEW r \in PlayerRecord, NEW old, NEW n, n = OnChangeMoveType(r, old)
  PROVE  /\ n \in PlayerRecord /\ SameDress(n, r)
         /\ n.onGround = r.onGround /\ n.previousOnGround = r.previousOnGround
         /\ n.moveType = r.moveType /\ n.lastKnownMoveType = r.lastKnownMoveType
         /\ n.inPerf = r.inPerf /\ n.heard = r.heard /\ n.carried = r.carried /\ n.takeoff = r.takeoff
         /\ n.inNoclip = r.inNoclip
         /\ n.validJump => old = "ladder" /\ r.moveType = "walk" /\ ~n.invalidated
<1>1. CASE old = "ladder" /\ r.moveType = "walk" /\ ~r.invalidated
  <2>1. n = [r EXCEPT !.validJump = TRUE]
    BY <1>1 DEF OnChangeMoveType
  <2>2. n \in PlayerRecord
    BY <2>1, ZenonT(60) DEF PlayerRecord
  <2> QED
    BY <1>1, <2>1, <2>2 DEF PlayerRecord, SameDress
<1>2. CASE ~(old = "ladder" /\ r.moveType = "walk" /\ ~r.invalidated)
  <2>1. n = [r EXCEPT !.validJump = FALSE, !.invalidated = TRUE]
    BY <1>2 DEF OnChangeMoveType, InvalidateJump
  <2>2. n \in PlayerRecord
    BY <2>1, Puts
  <2> QED
    BY <2>1, <2>2 DEF PlayerRecord, SameDress
<1> QED
  BY <1>1, <1>2

\* What leaving the ground changes (BhopTimerService::OnStopTouchGround).
LEMMA LeftGround ==
  ASSUME NEW r \in PlayerRecord, NEW n, n = OnStopTouchGround(r)
  PROVE  /\ n \in PlayerRecord /\ SameDress(n, r)
         /\ n.onGround = r.onGround /\ n.previousOnGround = r.previousOnGround
         /\ n.moveType = r.moveType /\ n.lastKnownMoveType = r.lastKnownMoveType
         /\ n.inPerf = r.inPerf /\ n.heard = "air" /\ n.carried = r.carried /\ n.takeoff = r.takeoff
         /\ n.validJump => ~n.invalidated
<1>1. CASE HasValidMoveType(r) /\ ~r.invalidated
  <2>1. n = [r EXCEPT !.heard = "air", !.validJump = TRUE]
    BY <1>1 DEF OnStopTouchGround
  <2>2. n \in PlayerRecord
    BY <2>1, ZenonT(60) DEF PlayerRecord
  <2> QED
    BY <1>1, <2>1, <2>2 DEF PlayerRecord, SameDress
<1>2. CASE ~(HasValidMoveType(r) /\ ~r.invalidated)
  <2>1. n = [r EXCEPT !.heard = "air", !.validJump = FALSE, !.invalidated = TRUE]
    BY <1>2 DEF OnStopTouchGround, InvalidateJump
  <2>2. n \in PlayerRecord
    BY <2>1, Puts
  <2> QED
    BY <2>1, <2>2 DEF PlayerRecord, SameDress
<1> QED
  BY <1>1, <1>2

\* What landing changes (BhopPlayer::RegisterLanding).
LEMMA Landed ==
  ASSUME NEW r \in PlayerRecord, NEW n, n = RegisterLanding(r)
  PROVE  /\ n \in PlayerRecord /\ SameDress(n, r)
         /\ n.onGround = r.onGround /\ n.previousOnGround = r.previousOnGround
         /\ n.moveType = r.moveType /\ n.lastKnownMoveType = r.lastKnownMoveType
         /\ n.heard = r.heard /\ n.carried # "flown" /\ n.takeoff = "none" /\ n.validJump = r.validJump
         /\ n.invalidated = r.invalidated
<1>1. n \in PlayerRecord
  BY Puts DEF RegisterLanding
<1> QED
  BY <1>1 DEF PlayerRecord, RegisterLanding, SameDress

\* GroundEvents leaves the services with the ground they would hear of now.
LEMMA GroundHeard ==
  ASSUME NEW r \in PlayerRecord, NEW old \in BOOLEAN, Heard(r, old), Earned(r), NEW n, n = GroundEvents(r, old)
  PROVE  /\ Good(n, TRUE, FALSE) /\ SameDress(n, r)
         /\ n.onGround = r.onGround /\ n.moveType = r.moveType
<1>0. r.onGround \in BOOLEAN
  BY DEF PlayerRecord
<1>1. CASE r.onGround /\ ~old
  <2>1. PICK l : l = RegisterLanding(r)
    OBVIOUS
  <2>2. n = [l EXCEPT !.heard = "ground"]
    BY <1>1, <2>1 DEF GroundEvents, OnStartTouchGround
  <2>3. /\ l \in PlayerRecord /\ SameDress(l, r)
        /\ l.onGround = r.onGround /\ l.moveType = r.moveType /\ l.carried # "flown" /\ l.takeoff = "none"
        /\ l.validJump = r.validJump /\ l.invalidated = r.invalidated
    BY <2>1, Landed
  <2>4. n \in PlayerRecord
    BY <2>2, <2>3 DEF PlayerRecord
  <2>5. n.heard = "ground" /\ n.onGround = l.onGround /\ n.moveType = l.moveType
        /\ n.carried = l.carried /\ n.takeoff = l.takeoff /\ SameDress(n, l)
        /\ n.validJump = l.validJump /\ n.invalidated = l.invalidated
    BY <2>2, <2>3 DEF PlayerRecord, SameDress
  <2>6. Good(n, TRUE, FALSE)
    BY <1>1, <2>3, <2>4, <2>5 DEF Good, Heard, Earned
  <2> QED
    BY <2>3, <2>5, <2>6 DEF SameDress
<1>2. CASE old /\ ~r.onGround
  <2>1. PICK l : l = RegisterTakeoff(r, "fall")
    OBVIOUS
  <2>2. n = OnStopTouchGround(l)
    BY <1>2, <2>1 DEF GroundEvents
  <2>3. l \in PlayerRecord
    BY <2>1 DEF PlayerRecord, RegisterTakeoff
  <2>4. /\ SameDress(l, r) /\ l.onGround = r.onGround /\ l.moveType = r.moveType /\ l.carried = r.carried
        /\ l.takeoff = "fall"
    BY <2>1 DEF PlayerRecord, RegisterTakeoff, SameDress
  <2>5. /\ n \in PlayerRecord /\ SameDress(n, l)
        /\ n.onGround = l.onGround /\ n.moveType = l.moveType
        /\ n.heard = "air" /\ n.carried = l.carried /\ n.takeoff = l.takeoff /\ (n.validJump => ~n.invalidated)
    BY <2>2, <2>3, LeftGround
  <2>6. r.carried # "flown"
    BY <1>2 DEF Heard, Earned, PlayerRecord
  <2>7. Good(n, TRUE, FALSE)
    BY <1>2, <2>4, <2>5, <2>6 DEF Good, Heard, Earned
  <2> QED
    BY <2>4, <2>5, <2>7 DEF SameDress
<1>3. CASE r.onGround = old
  <2>1. n = r
    BY <1>3 DEF GroundEvents
  <2> QED
    BY <1>0, <1>3, <2>1 DEF Good, SameDress
<1> QED
  BY <1>0, <1>1, <1>2, <1>3

\* A player who lets a ladder go has neither flown nor kept a perf.
LEMMA Ladder ==
  ASSUME NEW r, Good(r, TRUE, FALSE), r.moveType = "ladder",
         NEW n, n = OnChangeMoveType(RegisterTakeoff([r EXCEPT !.moveType = "walk"], "ladder"), "ladder")
  PROVE  Good(n, TRUE, FALSE) /\ SameDress(n, r)
<1>1. r \in PlayerRecord
  BY DEF Good
<1>2. PICK w : w = [[r EXCEPT !.moveType = "walk"] EXCEPT !.takeoff = "ladder"]
  OBVIOUS
<1>3. w \in PlayerRecord
  BY <1>1, <1>2, ZenonT(60) DEF PlayerRecord
<1>4. /\ SameDress(w, r) /\ w.onGround = r.onGround /\ w.previousOnGround = r.previousOnGround
      /\ w.heard = r.heard /\ w.carried = r.carried /\ w.takeoff = "ladder"
  BY <1>1, <1>2 DEF PlayerRecord, SameDress
<1>5. /\ n \in PlayerRecord /\ SameDress(n, w) /\ n.onGround = w.onGround /\ n.heard = w.heard
      /\ n.carried = w.carried /\ n.takeoff = w.takeoff /\ (n.validJump => ~n.invalidated)
  <2>1. PICK old : old = "ladder"
    OBVIOUS
  <2>2. n = OnChangeMoveType(w, old)
    BY <1>2, <2>1 DEF RegisterTakeoff
  <2> QED
    BY <1>3, <2>2, ChangedMoveType
<1>6. r.carried # "flown"
  BY DEF Good, Earned
<1>7. Good(n, TRUE, FALSE)
  BY <1>4, <1>5, <1>6 DEF Good, Heard, Earned
<1> QED
  BY <1>4, <1>5, <1>7 DEF SameDress

\* A player takes a ladder, from the ground or from the air.
LEMMA OntoLadder ==
  ASSUME NEW r, Good(r, TRUE, FALSE), NEW on, on = [r EXCEPT !.moveType = "ladder"]
  PROVE  /\ on \in PlayerRecord /\ SameDress(on, r)
         /\ on.onGround = r.onGround /\ on.heard = r.heard
         /\ r.onGround => Good(on, TRUE, FALSE)
<1>1. r \in PlayerRecord
  BY DEF Good
<1>2. on \in PlayerRecord
  BY <1>1 DEF PlayerRecord
<1>3. /\ SameDress(on, r) /\ on.onGround = r.onGround
      /\ on.heard = r.heard /\ on.carried = r.carried /\ on.takeoff = r.takeoff
      /\ on.validJump = r.validJump /\ on.invalidated = r.invalidated
  BY <1>1 DEF PlayerRecord, SameDress
<1>4. r.onGround => r.heard = "ground" /\ r.carried # "flown" /\ r.takeoff # "perf"
               /\ (r.validJump => ~r.invalidated)
  BY DEF Good, Heard, Earned
<1>5. r.onGround => Good(on, TRUE, FALSE)
  BY <1>2, <1>3, <1>4 DEF Good, Heard, Earned
<1> QED
  BY <1>2, <1>3, <1>5

LEMMA CaughtLadder ==
  ASSUME NEW on \in PlayerRecord, Heard(on, on.onGround), NEW old,
         NEW n, n = OnChangeMoveType(RegisterLanding(on), old)
  PROVE  Good(n, TRUE, FALSE) /\ SameDress(n, on)
<1>1. PICK l : l = RegisterLanding(on)
  OBVIOUS
<1>2. /\ l \in PlayerRecord /\ SameDress(l, on) /\ l.onGround = on.onGround
      /\ l.heard = on.heard /\ l.carried # "flown" /\ l.takeoff = "none"
  BY <1>1, Landed
<1>3. n = OnChangeMoveType(l, old)
  BY <1>1
<1>4. /\ n \in PlayerRecord /\ SameDress(n, l) /\ n.onGround = l.onGround
      /\ n.heard = l.heard /\ n.carried = l.carried /\ n.takeoff = l.takeoff /\ (n.validJump => ~n.invalidated)
  BY <1>2, <1>3, ChangedMoveType
<1>5. Good(n, TRUE, FALSE)
  BY <1>2, <1>4 DEF Good, Heard, Earned
<1> QED
  BY <1>2, <1>4, <1>5 DEF SameDress

\* A jump may be a perf, which keeps inPerf as long as he walks through the air.
LEMMA JumpedOff ==
  ASSUME NEW r, Good(r, TRUE, FALSE), r.onGround, r.moveType # "noclip",
         NEW perf \in BOOLEAN, perf => r.moveType # "ladder",
         NEW how \in {"perf", "jump"}, how = "perf" => perf,
         NEW n, n = OnStopTouchGround(RegisterTakeoff([r EXCEPT !.onGround = FALSE, !.inPerf = perf], how))
  PROVE Good(n, TRUE, FALSE) /\ SameDress(n, r)
<1>1. r \in PlayerRecord
  BY DEF Good
<1>2. PICK w : w = [[r EXCEPT !.onGround = FALSE, !.inPerf = perf] EXCEPT !.takeoff = how]
  OBVIOUS
<1>3. PICK v : v = [r EXCEPT !.onGround = FALSE, !.inPerf = perf]
  OBVIOUS
<1>4. v \in PlayerRecord
  BY <1>1, <1>3, Puts
<1>5. w = [v EXCEPT !.takeoff = how] /\ w \in PlayerRecord
  <2>1. w = [v EXCEPT !.takeoff = how]
    BY <1>2, <1>3
  <2> QED
    BY <1>4, <2>1 DEF PlayerRecord
<1>6. /\ SameDress(v, r) /\ ~v.onGround /\ v.moveType = r.moveType
      /\ v.inPerf = perf /\ v.carried = r.carried
  BY <1>1, <1>3 DEF PlayerRecord, SameDress
<1>7. /\ SameDress(w, v) /\ w.onGround = v.onGround /\ w.moveType = v.moveType
      /\ w.inPerf = v.inPerf /\ w.carried = v.carried /\ w.takeoff = how
  BY <1>4, <1>5 DEF PlayerRecord, SameDress
<1>8. /\ n \in PlayerRecord /\ SameDress(n, w) /\ n.onGround = w.onGround /\ n.moveType = w.moveType
      /\ n.inPerf = w.inPerf /\ n.heard = "air" /\ n.carried = w.carried /\ n.takeoff = w.takeoff
      /\ (n.validJump => ~n.invalidated)
  BY <1>2, <1>5, LeftGround, ZenonT(60) DEF RegisterTakeoff
<1>9. r.carried # "flown"
  BY DEF Good, Heard, Earned
<1>10. Good(n, TRUE, FALSE)
  BY <1>6, <1>7, <1>8, <1>9 DEF Good, Heard, Earned
<1> QED
  BY <1>6, <1>7, <1>8, <1>10 DEF SameDress

\* The game looks for the ground under him (CategorizePosition).
LEMMA CategorizedGood ==
  ASSUME NEW r, Good(r, TRUE, FALSE), NEW ground \in BOOLEAN, NEW n, n = Categorized(r, ground)
  PROVE  Good(n, TRUE, FALSE) /\ SameDress(n, r)
<1>1. r \in PlayerRecord /\ r.onGround \in BOOLEAN
  BY DEF Good, PlayerRecord
<1>2. PICK f : f = [r EXCEPT !.onGround = ground]
  OBVIOUS
<1>3. f \in PlayerRecord
  BY <1>1, <1>2 DEF PlayerRecord
<1>4. /\ SameDress(f, r) /\ f.onGround = ground /\ f.moveType = r.moveType /\ f.heard = r.heard
      /\ f.carried = r.carried /\ f.takeoff = r.takeoff /\ f.inPerf = r.inPerf /\ f.validJump = r.validJump
      /\ f.invalidated = r.invalidated
  BY <1>1, <1>2 DEF PlayerRecord, SameDress
<1>5. Heard(f, r.onGround) /\ Earned(f)
  BY <1>4 DEF Good, Heard, Earned
<1>6. PICK g : g = GroundEvents(f, r.onGround)
  OBVIOUS
<1>7. /\ Good(g, TRUE, FALSE) /\ SameDress(g, f) /\ g.onGround = ground /\ g.moveType = r.moveType
  BY <1>1, <1>3, <1>4, <1>5, <1>6, GroundHeard
<1>8. CASE g.moveType = "noclip" /\ ~ground
  <2>1. n = [g EXCEPT !.carried = "flown"]
    BY <1>2, <1>6, <1>8 DEF Categorized
  <2>2. g \in PlayerRecord
    BY <1>7 DEF Good
  <2>3. n \in PlayerRecord
    BY <2>1, <2>2, ZenonT(60) DEF PlayerRecord
  <2>4. /\ SameDress(n, g) /\ n.onGround = g.onGround /\ n.moveType = g.moveType /\ n.heard = g.heard
        /\ n.takeoff = g.takeoff /\ n.inPerf = g.inPerf /\ n.validJump = g.validJump
        /\ n.invalidated = g.invalidated
    BY <2>1, <2>2 DEF PlayerRecord, SameDress
  <2>5. Good(n, TRUE, FALSE)
    BY <1>7, <1>8, <2>3, <2>4 DEF Good, Heard, Earned
  <2> QED
    BY <1>4, <1>7, <2>4, <2>5 DEF SameDress
<1>9. CASE ~(g.moveType = "noclip" /\ ~ground)
  <2>1. n = g
    BY <1>2, <1>6, <1>9 DEF Categorized
  <2> QED
    BY <1>4, <1>7, <2>1 DEF SameDress
<1> QED
  BY <1>8, <1>9

\* What a movement leaves for the next one (BhopPlayer::OnProcessMovementPost).
LEMMA Posted ==
  ASSUME NEW r, Good(r, TRUE, FALSE),
         NEW n, n = [r EXCEPT !.inPerf = @ /\ ~r.onGround /\ r.moveType = "walk",
                              !.oldWalkMoved = r.walkMoved,
                              !.previousOnGround = r.onGround]
  PROVE Good(n, FALSE, FALSE) /\ SameDress(n, r)
<1>1. r \in PlayerRecord /\ r.onGround \in BOOLEAN /\ r.walkMoved \in BOOLEAN
  BY DEF Good, PlayerRecord
<1>2. PICK perf \in BOOLEAN : perf = (r.inPerf /\ ~r.onGround /\ r.moveType = "walk")
  BY Zenon
<1>3. \A a, b, c \in BOOLEAN : 
        [r EXCEPT !.inPerf = a, !.oldWalkMoved = b, !.previousOnGround = c] \in PlayerRecord
  BY <1>1, ZenonT(60) DEF PlayerRecord
<1>4. n = [r EXCEPT !.inPerf = perf, !.oldWalkMoved = r.walkMoved, !.previousOnGround = r.onGround]
  BY <1>2
<1>5. n \in PlayerRecord
  BY <1>1, <1>3, <1>4, ZenonT(60)
<1>6. /\ SameDress(n, r) /\ n.onGround = r.onGround /\ n.previousOnGround = r.onGround
      /\ n.moveType = r.moveType /\ n.inPerf = perf /\ n.validJump = r.validJump
      /\ n.heard = r.heard /\ n.takeoff = r.takeoff /\ n.carried = r.carried /\ n.invalidated = r.invalidated
  BY <1>1, <1>4, ZenonT(60) DEF PlayerRecord, SameDress
<1>7. r.heard = "air" => ~r.onGround
  BY DEF Good, Heard
<1> QED
  BY <1>2, <1>5, <1>6, <1>7 DEF Good, Heard, Earned

\* What a simulation leaves (BhopPlayer::OnPhysicsSimulatePost).
LEMMA Rested ==
  ASSUME NEW r, Good(r, FALSE, FALSE), NEW n, n = [r EXCEPT !.lastKnownMoveType = r.moveType]
  PROVE Good(n, FALSE, TRUE) /\ SameDress(n, r)
<1>1. r \in PlayerRecord /\ r.moveType \in {"walk", "ladder", "noclip"}
  BY DEF Good, PlayerRecord
<1>2. \A m \in {"walk", "ladder", "noclip"} : [r EXCEPT !.lastKnownMoveType = m] \in PlayerRecord
  BY <1>1 DEF PlayerRecord
<1>3. n \in PlayerRecord
  BY <1>1, <1>2
<1>4. /\ SameDress(n, r) /\ n.previousOnGround = r.previousOnGround
      /\ n.moveType = r.moveType /\ n.lastKnownMoveType = r.moveType
      /\ n.inPerf = r.inPerf /\ n.validJump = r.validJump
      /\ n.heard = r.heard /\ n.takeoff = r.takeoff /\ n.carried = r.carried /\ n.invalidated = r.invalidated
  BY <1>1 DEF PlayerRecord, SameDress
<1> QED
  BY <1>3, <1>4 DEF Good, Heard, Earned, Settled

\* Noclip turned on or off (BhopNoclipService::HandleNoclip).
LEMMA MoveTypeSet ==
  ASSUME NEW r, Good(r, FALSE, FALSE), NEW new \in {"walk", "noclip"}, r.moveType = "noclip" \/ new = "noclip",
         NEW n, n = SetMoveType(r, new)
  PROVE  Good(n, FALSE, FALSE) /\ SameDress(n, r)
<1>1. r \in PlayerRecord
  BY DEF Good
<1>2. CASE r.moveType = new
  <2>1. n = r
    BY <1>2 DEF SetMoveType
  <2> QED
    BY <2>1 DEF SameDress
<1>3. CASE r.moveType # new
  <2>1. PICK w : w = [r EXCEPT !.moveType = new]
    OBVIOUS
  <2>2. n = OnChangeMoveType(w, r.moveType)
    BY <1>3, <2>1 DEF SetMoveType
  <2>3. w \in PlayerRecord
    BY <1>1, <2>1 DEF PlayerRecord
  <2>4. /\ SameDress(w, r) /\ w.previousOnGround = r.previousOnGround /\ w.moveType = new
        /\ w.heard = r.heard /\ w.takeoff = r.takeoff /\ w.carried = r.carried
    BY <1>1, <2>1 DEF PlayerRecord, SameDress
  <2>5. /\ n \in PlayerRecord /\ SameDress(n, w) /\ n.previousOnGround = w.previousOnGround
        /\ n.moveType = w.moveType /\ n.heard = w.heard /\ n.carried = w.carried /\ n.takeoff = w.takeoff
        /\ n.validJump => r.moveType = "ladder" /\ w.moveType = "walk" /\ ~n.invalidated
    BY <2>2, <2>3, ChangedMoveType
  <2>6. n.moveType = "walk" => ~n.validJump
    BY <1>3, <2>4, <2>5
  <2>7. n.heard = "ground" => n.carried # "flown" /\ n.takeoff # "perf"
    BY <2>4, <2>5 DEF Good, Earned
  <2>8. n.moveType # "ladder" /\ n.heard \in {"ground", "air"}
    BY <2>4, <2>5 DEF PlayerRecord
  <2>9. Good(n, FALSE, FALSE)
    BY <2>4, <2>5, <2>6, <2>7, <2>8 DEF Good, Heard, Earned
  <2> QED
    BY <2>4, <2>5, <2>9 DEF SameDress
<1> QED
  BY <1>2, <1>3

\* The start of a simulation (BhopPlayer::OnPhysicsSimulate).
LEMMA Simulated ==
  ASSUME NEW r, Good(r, FALSE, TRUE),
         NEW h, h = IF r.moveType # r.lastKnownMoveType THEN OnChangeMoveType(r, r.lastKnownMoveType) ELSE r,
         NEW n, n = HandleNoclip(h)
  PROVE  Good(n, FALSE, FALSE) /\ SameDress(n, r)
<1>1. r \in PlayerRecord
  BY DEF Good
<1>2. Good(h, FALSE, FALSE) /\ SameDress(h, r)
  <2>1. CASE r.moveType = r.lastKnownMoveType
    BY <2>1 DEF Good, SameDress
  <2>2. CASE r.moveType # r.lastKnownMoveType
    <3>1. h = OnChangeMoveType(r, r.lastKnownMoveType)
      BY <2>2
    <3>2. /\ h \in PlayerRecord /\ SameDress(h, r) /\ h.previousOnGround = r.previousOnGround
          /\ h.moveType = r.moveType /\ h.heard = r.heard /\ h.carried = r.carried /\ h.takeoff = r.takeoff
          /\ h.validJump => r.lastKnownMoveType = "ladder" /\ r.moveType = "walk" /\ ~h.invalidated
      BY <1>1, <3>1, ChangedMoveType
    <3>3. h.validJump => h.carried # "flown" /\ h.takeoff # "perf"
      BY <3>2 DEF Good, Settled
    <3>4. Good(h, FALSE, FALSE)
      BY <3>2, <3>3 DEF Good, Heard, Earned
    <3> QED
      BY <3>2, <3>4
  <2> QED
    BY <2>1, <2>2
<1>3. CASE h.inNoclip
  <2>1. n = SetMoveType(h, "noclip")
    BY <1>3 DEF HandleNoclip
  <2>2. Good(n, FALSE, FALSE) /\ SameDress(n, h)
    BY <1>2, <2>1, MoveTypeSet
  <2> QED
    BY <1>2, <2>2 DEF SameDress
<1>4. CASE ~h.inNoclip /\ h.moveType = "noclip"
  <2>1. n = SetMoveType(h, "walk")
    BY <1>4 DEF HandleNoclip
  <2>2. Good(n, FALSE, FALSE) /\ SameDress(n, h)
    BY <1>2, <1>4, <2>1, MoveTypeSet
  <2> QED
    BY <1>2, <2>2 DEF SameDress
<1>5. CASE ~h.inNoclip /\ h.moveType # "noclip"
  <2>1. n = h
    BY <1>5 DEF HandleNoclip
  <2> QED
    BY <1>2, <2>1
<1> QED
  BY <1>3, <1>4, <1>5

\* The start of a movement (BhopPlayer::OnProcessMovement).
LEMMA Processed ==
  ASSUME NEW r, Good(r, FALSE, FALSE), NEW n, n = OnProcessMovement(r)
  PROVE  Good(n, TRUE, FALSE) /\ SameDress(n, r)
<1>1. r \in PlayerRecord /\ r.previousOnGround \in BOOLEAN
  BY DEF Good, PlayerRecord
<1>2. PICK w : w = [r EXCEPT !.walkMoved = FALSE]
  OBVIOUS
<1>3. w \in PlayerRecord /\ SameMotion(w, r) /\ SameDress(w, r)
  <2>1. PICK b \in BOOLEAN : b = FALSE
    OBVIOUS
  <2>2. w = [r EXCEPT !.walkMoved = b]
    BY <1>2, <2>1
  <2> QED
    BY <1>1, <2>2, Flags, FlagsStill
<1>4. Heard(w, r.previousOnGround) /\ Earned(w)
  BY <1>3 DEF Good, SameMotion, Heard, Earned
<1>5. n = GroundEvents(w, r.previousOnGround)
  BY <1>2 DEF OnProcessMovement
<1>6. Good(n, TRUE, FALSE) /\ SameDress(n, w)
  BY <1>1, <1>3, <1>4, <1>5, GroundHeard
<1> QED
  BY <1>3, <1>6 DEF SameDress

------------------------------------------------------------------------------
(* His styles. *)

\* No two styles were added against each other's list.
Compatible(styles) == \A s, t \in styles : s # t => ~Excludes(s, t) \/ ~Excludes(t, s)

\* The gravity is normal or that of a style he wears: it is given back with the style.
Weighs(r) == r.gravity = 100 \/ r.gravity \in Gravities(r)

\* The three styles that set the speed limit exclude each other.
LEMMA SpeedStyles ==
  /\ \A s \in AllStyles : s.maxVel \in Nat /\ s.gravity \in {None, 50, 150}
  /\ \A s \in AllStyles : s.short \in NamedVel => s \in {Vel3500, Vel5000, Vel10000}
  /\ \A s, t \in {Vel3500, Vel5000, Vel10000} : s # t => Excludes(s, t)
<1>1. \A s \in AllStyles : s.maxVel \in Nat /\ s.gravity \in {None, 50, 150}
  BY DEF AllStyles, OnlyW, HSW, SW, LowGrav, HighGrav, Vel3500, Vel5000, Vel10000, TAS, None
<1>2. \A s \in AllStyles : s.short \in NamedVel => s \in {Vel3500, Vel5000, Vel10000}
  BY DEF AllStyles, NamedVel, OnlyW, HSW, SW, LowGrav, HighGrav, Vel3500, Vel5000, Vel10000, TAS
<1>3. \A s, t \in {Vel3500, Vel5000, Vel10000} : s # t => Excludes(s, t)
  BY DEF Excludes, Vel3500, Vel5000, Vel10000, None
<1> QED
  BY <1>1, <1>2, <1>3

\* So do the two that set the gravity.
LEMMA GravityStyles ==
  /\ \A s \in AllStyles : s.gravity # None => s \in {LowGrav, HighGrav}
  /\ \A s, t \in {LowGrav, HighGrav} : s # t => Excludes(s, t)
<1>1. \A s \in AllStyles : s.gravity # None => s \in {LowGrav, HighGrav}
  BY DEF AllStyles, OnlyW, HSW, SW, LowGrav, HighGrav, Vel3500, Vel5000, Vel10000, TAS, None
<1>2. \A s, t \in {LowGrav, HighGrav} : s # t => Excludes(s, t)
  BY DEF Excludes, LowGrav, HighGrav, None
<1> QED
  BY <1>1, <1>2

\* Compatible styles set at most one limit and one gravity.
LEMMA OneSetting ==
  ASSUME NEW r \in PlayerRecord, Compatible(r.styles)
  PROVE  /\ Velocities(r) \subseteq Nat /\ Gravities(r) \subseteq {50, 150}
         /\ \A v, w \in Velocities(r) : v = w
         /\ \A g, h \in Gravities(r) : g = h
<1>1. r.styles \subseteq AllStyles
  BY DEF PlayerRecord
<1>2. Velocities(r) \subseteq Nat /\ Gravities(r) \subseteq {50, 150}
  BY <1>1, SpeedStyles DEF Velocities, Gravities
<1>3. ASSUME NEW v \in Velocities(r), NEW w \in Velocities(r)
      PROVE  v = w
  <2>1. PICK s \in r.styles : v = s.maxVel /\ s.short \in NamedVel
    BY DEF Velocities
  <2>2. PICK t \in r.styles : w = t.maxVel /\ t.short \in NamedVel
    BY DEF Velocities
  <2>3. s # t => Excludes(s, t) /\ Excludes(t, s)
    BY <1>1, <2>1, <2>2, SpeedStyles
  <2> QED
    BY <2>1, <2>2, <2>3 DEF Compatible
<1>4. ASSUME NEW g \in Gravities(r), NEW h \in Gravities(r)
      PROVE  g = h
  <2>1. PICK s \in r.styles : g = s.gravity /\ s.gravity # None
    BY DEF Gravities
  <2>2. PICK t \in r.styles : h = t.gravity /\ t.gravity # None
    BY DEF Gravities
  <2>3. s # t => Excludes(s, t) /\ Excludes(t, s)
    BY <1>1, <2>1, <2>2, GravityStyles
  <2> QED
    BY <2>1, <2>2, <2>3 DEF Compatible
<1> QED
  BY <1>2, <1>3, <1>4

LEMMA SameDressed ==
  ASSUME NEW r, NEW n, SameDress(n, r)
  PROVE  /\ Compatible(r.styles) => Compatible(n.styles)
         /\ Weighs(r) => Weighs(n)
         /\ Velocities(n) = Velocities(r) /\ Gravities(n) = Gravities(r) /\ n.gravity = r.gravity
BY DEF SameDress, Weighs, Velocities, Gravities

------------------------------------------------------------------------------
(* The invariant. *)

\* A movement is processed with the mode, the speed limit and the gravity of p.
Set(p) ==
  Processes(p) =>
    /\ modeCvars = Mode[p]
    /\ Velocities(player[p]) \subseteq {maxVelocity}
    /\ Gravities(player[p]) # {} => player[p].gravity \in Gravities(player[p])

MovementInv ==
  /\ TypeOK
  /\ place = Rest \/ (place.who \in Players /\ place.at \in Stages)
  /\ \A p \in Players :
       /\ Good(player[p], Processes(p), place.who # p)
       /\ Compatible(player[p].styles) /\ Weighs(player[p])
       /\ Set(p)

LEMMA Initial == Init => MovementInv
<1> SUFFICES ASSUME Init
             PROVE  MovementInv
  OBVIOUS
<1>1. \A ground \in BOOLEAN : Fresh(ground, "walk") \in PlayerRecord
  BY DEF Fresh, PlayerRecord
<1>2. TypeOK
  <2>1. \A p \in Players : Fresh(p \notin Roaming, "walk") \in PlayerRecord
    BY <1>1, Zenon
  <2>2. player \in [Players -> PlayerRecord]
    BY <2>1 DEF Init
  <2> QED
    BY <2>2 DEF Init, TypeOK, Rest
<1>3. place = Rest
  BY DEF Init
<1>4. ASSUME NEW p \in Players
      PROVE  /\ Good(player[p], Processes(p), place.who # p)
             /\ Compatible(player[p].styles) /\ Weighs(player[p])
             /\ Set(p)
  <2>1. PICK ground \in BOOLEAN : player[p] = Fresh(ground, "walk")
    BY DEF Init
  <2>2. ~Processes(p) /\ place.who # p
    BY <1>3, MovementAssumption DEF Processes, Rest
  <2>3. Good(player[p], Processes(p), place.who # p)
    BY <1>1, <2>1, <2>2 DEF Good, Heard, Earned, Settled, Fresh
  <2>4. Compatible(player[p].styles) /\ Weighs(player[p])
    BY <2>1 DEF Compatible, Weighs, Fresh
  <2> QED
    BY <2>2, <2>3, <2>4 DEF Set
<1> QED
  BY <1>2, <1>3, <1>4 DEF MovementInv

\* A step of p, and what the others keep of it.
LEMMA StepOf ==
  ASSUME MovementInv, NEW p \in Players, NEW n, Becomes(p, n),
         \/ place.who \in {p, Nobody} /\ place'.who \in {p, Nobody}
         \/ UNCHANGED <<modeCvars, maxVelocity, place>>,
         modeCvars' \in {Mode[q] : q \in Players} \cup {NoCourse}, maxVelocity' \in Nat, due' \subseteq Players,
         place' = Rest \/ (place' \in [who : Players, at : Stages]),
         Good(n, Processes(p)', (place.who # p)'), Compatible(n.styles), Weighs(n), Set(p)'
  PROVE  MovementInv'
<1>1. player \in [Players -> PlayerRecord] /\ n \in PlayerRecord
  BY DEF MovementInv, TypeOK, Good
<1>2. player' = [player EXCEPT ![p] = n]
  BY DEF Becomes
<1>3. player' \in [Players -> PlayerRecord] /\ player'[p] = n /\ \A q \in Players \ {p} : player'[q] = player[q]
  BY <1>1, <1>2
<1>4. place' \in [who : Players \cup {Nobody}, at : Stages \cup {"rest"}]
  BY DEF Rest
<1>5. TypeOK'
  BY <1>3, <1>4 DEF TypeOK
<1>6. (place = Rest \/ (place.who \in Players /\ place.at \in Stages))'
  OBVIOUS
<1>7. ASSUME NEW q \in Players, q # p
      PROVE  /\ Good(player'[q], Processes(q)', (place.who # q)')
             /\ Compatible(player'[q].styles) /\ Weighs(player'[q])
             /\ Set(q)'
  <2>1. player'[q] = player[q]
    BY <1>3, <1>7
  <2>2. /\ Good(player[q], Processes(q), place.who # q) /\ Compatible(player[q].styles)
        /\ Weighs(player[q]) /\ Set(q)
    BY DEF MovementInv
  <2>3. CASE place.who \in {p, Nobody} /\ place'.who \in {p, Nobody}
    <3>1. place.who # q /\ place'.who # q
      BY <1>7, <2>3, MovementAssumption
    <3>2. ~Processes(q) /\ ~Processes(q)'
      BY <3>1 DEF Processes
    <3>3. Good(player[q], FALSE, TRUE)
      BY <2>2, <3>1, <3>2 DEF Good
    <3>4. Good(player'[q], Processes(q)', (place.who # q)')
      BY <2>1, <3>1, <3>2, <3>3 DEF Good
    <3> QED
      BY <2>1, <2>2, <3>2, <3>4 DEF Set
  <2>4. CASE UNCHANGED <<modeCvars, maxVelocity, place>>
    <3>1. (Processes(q)' <=> Processes(q)) /\ ((place.who # q)' <=> place.who # q)
      BY <2>4 DEF Processes
    <3>2. Good(player'[q], Processes(q)', (place.who # q)')
      BY <2>1, <2>2, <3>1 DEF Good
    <3>3. Set(q)'
      BY <2>1, <2>2, <2>4, <3>1 DEF Set
    <3> QED
      BY <2>1, <2>2, <3>2, <3>3
  <2> QED
    BY <2>3, <2>4
<1>8. ASSUME NEW q \in Players
      PROVE  /\ Good(player'[q], Processes(q)', (place.who # q)')
             /\ Compatible(player'[q].styles) /\ Weighs(player'[q])
             /\ Set(q)'
  BY <1>3, <1>7
<1> QED
  BY <1>5, <1>6, <1>8 DEF MovementInv

\* At rest.
LEMMA RestStep ==
  ASSUME MovementInv, NEW p \in Players, NEW n, Rests(p, n),
         Good(n, FALSE, TRUE), Compatible(n.styles), Weighs(n)
  PROVE  MovementInv'
<1>1. place = Rest /\ place' = Rest /\ Becomes(p, n) /\ UNCHANGED <<modeCvars, maxVelocity, place, due>>
  BY DEF Rests
<1>2. ~Processes(p)' /\ (place.who # p)'
  BY <1>1, MovementAssumption DEF Processes, Rest
<1>3. Good(n, Processes(p)', (place.who # p)')
  BY <1>2 DEF Good
<1>4. Set(p)'
  BY <1>2 DEF Set
<1>5. modeCvars \in {Mode[q] : q \in Players} \cup {NoCourse} /\ maxVelocity \in Nat /\ due \subseteq Players
  BY DEF MovementInv, TypeOK
<1> QED
  BY <1>1, <1>3, <1>4, <1>5, StepOf

\* In a movement.
LEMMA HookStep ==
  ASSUME MovementInv, NEW p \in Players, NEW n, NEW from \in Moving, NEW to \in Stages, Hook(p, from, to, n),
         Good(player[p], TRUE, FALSE) => Good(n, to \in Moving, FALSE) /\ SameDress(n, player[p])
  PROVE  MovementInv'
<1>1. /\ place = [who |-> p, at |-> from] /\ place' = [who |-> p, at |-> to]
      /\ Becomes(p, n) /\ UNCHANGED <<modeCvars, maxVelocity, due>>
  BY DEF Hook, At
<1>2. Processes(p) /\ place.who = p /\ place'.who = p
  BY <1>1 DEF Processes
<1>3. Good(player[p], TRUE, FALSE) /\ Compatible(player[p].styles) /\ Weighs(player[p]) /\ Set(p)
  BY <1>2 DEF MovementInv, Good
<1>4. Good(n, to \in Moving, FALSE) /\ SameDress(n, player[p])
  BY <1>3
<1>5. (Processes(p)' <=> to \in Moving) /\ ~(place.who # p)'
  BY <1>1 DEF Processes
<1>6. Good(n, Processes(p)', (place.who # p)')
  BY <1>4, <1>5 DEF Good
<1>7. Compatible(n.styles) /\ Weighs(n)
  BY <1>3, <1>4, SameDressed
<1>8. Set(p)'
  <2>1. player'[p] = n
    BY <1>1 DEF MovementInv, TypeOK, Becomes
  <2>2. /\ modeCvars = Mode[p] /\ Velocities(player[p]) \subseteq {maxVelocity}
        /\ Gravities(player[p]) # {} => player[p].gravity \in Gravities(player[p])
    BY <1>2, <1>3 DEF Set
  <2>3. /\ Velocities(n) = Velocities(player[p]) /\ Gravities(n) = Gravities(player[p])
        /\ n.gravity = player[p].gravity
    BY <1>4, SameDressed
  <2>4. /\ modeCvars' = Mode[p] /\ Velocities(player'[p]) \subseteq {maxVelocity'}
        /\ Gravities(player'[p]) # {} => player'[p].gravity \in Gravities(player'[p])
    BY <1>1, <2>1, <2>2, <2>3
  <2>5. (Velocities(player[p]))' = Velocities(player'[p]) /\ (Gravities(player[p]))' = Gravities(player'[p])
    BY DEF Velocities, Gravities
  <2> QED
    BY <2>4, <2>5 DEF Set
<1>9. modeCvars \in {Mode[q] : q \in Players} \cup {NoCourse} /\ maxVelocity \in Nat /\ due \subseteq Players
  BY DEF MovementInv, TypeOK
<1> QED
  BY <1>1, <1>2, <1>6, <1>7, <1>8, <1>9, StepOf

------------------------------------------------------------------------------
(* The steps. *)

LEMMA TickStep == MovementInv /\ NextTick => MovementInv'
<1> SUFFICES ASSUME MovementInv, NextTick
             PROVE  MovementInv'
  OBVIOUS
<1>1. /\ player' = [p \in Players |-> [player[p] EXCEPT !.invalidated = FALSE]]
      /\ due' = Players /\ UNCHANGED <<modeCvars, maxVelocity, place>>
  BY DEF NextTick
<1>2. ASSUME NEW p \in Players
      PROVE  /\ Good(player'[p], Processes(p), place.who # p) /\ SameDress(player'[p], player[p])
  <2>1. player[p] \in PlayerRecord /\ Good(player[p], Processes(p), place.who # p)
    BY DEF MovementInv, Good
  <2>2. PICK no \in BOOLEAN : no = FALSE
    OBVIOUS
  <2>3. player'[p] = [player[p] EXCEPT !.invalidated = no]
    BY <1>1, <2>2
  <2>4. player'[p] \in PlayerRecord /\ SameMotion(player'[p], player[p]) /\ SameDress(player'[p], player[p])
    BY <2>1, <2>2, <2>3, Flags, FlagsStill
  <2>5. PICK a \in BOOLEAN, b \in BOOLEAN : a = Processes(p) /\ b = (place.who # p)
    BY Zenon DEF Processes
  <2>6. Good(player[p], a, b)
    BY <2>1, <2>5 DEF Good
  <2>7. Good(player'[p], a, b)
    BY <2>4, <2>6, Still
  <2> QED
    BY <2>4, <2>5, <2>7 DEF Good
<1>3. TypeOK'
  <2>1. player' \in [Players -> PlayerRecord]
    BY <1>1, <1>2 DEF Good
  <2> QED
    BY <1>1, <2>1 DEF MovementInv, TypeOK
<1>4. ASSUME NEW p \in Players
      PROVE  /\ Good(player[p], Processes(p), place.who # p)'
             /\ Compatible(player'[p].styles) /\ Weighs(player'[p]) /\ Set(p)'
  <2>1. ~Processes(p)
    BY MovementAssumption DEF NextTick, Processes, Rest
  <2>2. ~Processes(p)' /\ ((place.who # p)' <=> place.who # p)
    BY <1>1, <2>1 DEF Processes
  <2>3. Compatible(player[p].styles) /\ Weighs(player[p])
    BY DEF MovementInv
  <2>4. Good(player'[p], Processes(p)', (place.who # p)')
    BY <1>2, <2>1, <2>2 DEF Good
  <2> QED
    BY <1>2, <2>2, <2>3, <2>4, SameDressed DEF Set
<1>5. (place = Rest \/ (place.who \in Players /\ place.at \in Stages))'
  BY <1>1 DEF MovementInv, NextTick
<1> QED
  BY <1>3, <1>4, <1>5 DEF MovementInv

LEMMA FlagStep == ASSUME MovementInv, NEW p \in Players, ToggleNoclip(p) \/ GroundFlag(p)
                  PROVE  MovementInv'
<1>1. place = Rest
  BY DEF ToggleNoclip, GroundFlag, Rests
<1>2. player[p] \in PlayerRecord /\ Good(player[p], FALSE, TRUE)
      /\ Compatible(player[p].styles) /\ Weighs(player[p])
  <2>1. ~Processes(p) /\ place.who # p
    BY <1>1, MovementAssumption DEF Processes, Rest
  <2> QED
    BY <2>1 DEF MovementInv, Good
<1>3. CASE ToggleNoclip(p)
  <2>1. PICK on \in BOOLEAN : on = ~player[p].inNoclip
    BY Zenon
  <2>2. PICK n : n = [player[p] EXCEPT !.inNoclip = on]
    OBVIOUS
  <2>3. Rests(p, n)
    BY <1>3, <2>1, <2>2 DEF ToggleNoclip
  <2>4. n \in PlayerRecord /\ SameMotion(n, player[p]) /\ SameDress(n, player[p])
    BY <1>2, <2>2, Flags, FlagsStill
  <2>5. Good(n, FALSE, TRUE)
    BY <1>2, <2>4, Still
  <2> QED
    BY <1>2, <2>3, <2>4, <2>5, RestStep, SameDressed
<1>4. CASE GroundFlag(p)
  <2>1. PICK on \in BOOLEAN : on = ~player[p].onGround
    BY Zenon
  <2>2. PICK n : n = [player[p] EXCEPT !.onGround = on]
    OBVIOUS
  <2>3. Rests(p, n)
    BY <1>4, <2>1, <2>2 DEF GroundFlag
  <2>4. Good(n, FALSE, TRUE) /\ SameDress(n, player[p])
    BY <1>2, <2>2, GroundFlagged
  <2> QED
    BY <1>2, <2>3, <2>4, RestStep, SameDressed
<1> QED
  BY <1>3, <1>4

LEMMA StyleStep == ASSUME MovementInv, NEW p \in Players, NEW s \in AllStyles, AddStyle(p, s) \/ RemoveStyle(p, s)
                   PROVE  MovementInv'
<1> DEFINE r == player[p]
<1>1. place = Rest
  BY DEF AddStyle, RemoveStyle, Rests
<1>2. r \in PlayerRecord /\ Good(r, FALSE, TRUE) /\ Compatible(r.styles) /\ Weighs(r)
  <2>1. ~Processes(p) /\ place.who # p
    BY <1>1, MovementAssumption DEF Processes, Rest
  <2> QED
    BY <2>1 DEF MovementInv, Good
<1>3. r.styles \subseteq AllStyles /\ r.gravity \in {50, 100, 150}
  BY <1>2 DEF PlayerRecord
<1>5. CASE AddStyle(p, s)
  <2>1. PICK worn : worn = r.styles \cup {s}
    OBVIOUS
  <2>2. worn \in SUBSET AllStyles
    BY <1>3, <2>1
  <2>3. PICK n : n = [r EXCEPT !.styles = worn, !.gravity = r.gravity]
    OBVIOUS
  <2>4. n = [r EXCEPT !.styles = worn]
    BY <1>2, <2>3 DEF PlayerRecord
  <2>5. Rests(p, n)
    BY <1>5, <2>1, <2>4 DEF AddStyle
  <2>6. Good(n, FALSE, TRUE) /\ n.styles = worn /\ n.gravity = r.gravity
    <3>1. n \in PlayerRecord
      BY <1>2, <1>3, <2>2, <2>3, ZenonT(60) DEF PlayerRecord
    <3>2. SameMotion(n, r) /\ n.styles = worn /\ n.gravity = r.gravity
      BY <1>2, <2>3 DEF PlayerRecord, SameMotion
    <3> QED
      BY <1>2, <3>1, <3>2, Still
  <2>7. Compatible(worn)
    BY <1>2, <1>5, <2>1 DEF Compatible, AddStyle
  <2>8. Weighs(n)
    BY <1>2, <2>1, <2>6 DEF Weighs, Gravities
  <2> QED
    BY <2>5, <2>6, <2>7, <2>8, RestStep
<1>6. CASE RemoveStyle(p, s)
  <2>1. PICK worn : worn = r.styles \ {s}
    OBVIOUS
  <2>2. worn \in SUBSET AllStyles
    BY <1>3, <2>1
  <2>3. PICK g \in {50, 100, 150} : g = IF s.gravity = None THEN r.gravity ELSE 100
    BY <1>3
  <2>4. PICK n : n = [r EXCEPT !.styles = worn, !.gravity = g]
    OBVIOUS
  <2>5. Rests(p, n)
    BY <1>6, <2>1, <2>3, <2>4 DEF RemoveStyle
  <2>6. Good(n, FALSE, TRUE) /\ n.styles = worn /\ n.gravity = g
    <3>1. n \in PlayerRecord
      BY <1>2, <2>2, <2>4, ZenonT(60) DEF PlayerRecord
    <3>2. SameMotion(n, r) /\ n.styles = worn /\ n.gravity = g
      BY <1>2, <2>4 DEF PlayerRecord, SameMotion
    <3> QED
      BY <1>2, <3>1, <3>2, Still, ZenonT(60)
  <2>7. Compatible(worn)
    BY <1>2, <2>1 DEF Compatible
  <2>8. Weighs(n)
    <3>1. CASE s.gravity = None
      <4>1. g = r.gravity
        BY <2>3, <3>1
      <4>2. Gravities(n) = Gravities(r)
        BY <2>1, <2>6, <3>1 DEF Gravities
      <4> QED
        BY <1>2, <2>6, <4>1, <4>2 DEF Weighs
    <3>2. CASE s.gravity # None
      BY <2>3, <2>6, <3>2 DEF Weighs
    <3> QED
      BY <3>1, <3>2
  <2> QED
    BY <2>5, <2>6, <2>7, <2>8, RestStep
<1> QED
  BY <1>5, <1>6

LEMMA ResetStep == ASSUME MovementInv, NEW p \in Players, Reset(p)
                   PROVE  MovementInv'
<1>1. PICK ground \in BOOLEAN : Rests(p, Fresh(ground, player[p].lastKnownMoveType))
  BY DEF Reset
<1>2. PICK known \in {"walk", "ladder", "noclip"} : known = player[p].lastKnownMoveType
  BY DEF MovementInv, TypeOK, PlayerRecord
<1>3. PICK n : n = Fresh(ground, known)
  OBVIOUS
<1>4. n \in PlayerRecord
  BY <1>3 DEF Fresh, PlayerRecord
<1>5. /\ n.previousOnGround = FALSE /\ n.heard = "air" /\ n.carried = "no" /\ n.takeoff = "none" /\ ~n.validJump
      /\ n.styles = {} /\ n.gravity = 100
  BY <1>3 DEF Fresh
<1>6. Good(n, FALSE, TRUE) /\ Compatible(n.styles) /\ Weighs(n)
  BY <1>4, <1>5 DEF Good, Heard, Earned, Settled, Compatible, Weighs
<1>7. Rests(p, n)
  BY <1>1, <1>2, <1>3
<1> QED
  BY <1>6, <1>7, RestStep

LEMMA TouchStep == ASSUME MovementInv, NEW p \in Players, Touch(p)
                   PROVE  MovementInv'
<1> DEFINE r == player[p]
<1>1. PICK a \in BOOLEAN, b \in BOOLEAN : a = Processes(p) /\ b = (place.who # p)
  BY Zenon DEF Processes
<1>2. /\ r \in PlayerRecord /\ Good(r, a, b) /\ Compatible(r.styles) /\ Weighs(r) /\ Set(p)
  BY <1>1 DEF MovementInv, Good
<1>3. UNCHANGED <<modeCvars, maxVelocity, place, due>>
  BY DEF Touch
<1>4. PICK n : Becomes(p, n) /\ Good(n, a, b) /\ SameDress(n, r)
  <2>1. CASE \E c \in CourseVels : Becomes(p, [player[p] EXCEPT !.course = c])
    <3>1. PICK c \in CourseVels : Becomes(p, [player[p] EXCEPT !.course = c])
      BY <2>1
    <3>2. PICK n : n = [r EXCEPT !.course = c]
      OBVIOUS
    <3>3. n \in PlayerRecord
      BY <1>2, <3>2 DEF PlayerRecord
    <3>4. SameMotion(n, r) /\ SameDress(n, r)
      BY <1>2, <3>2 DEF PlayerRecord, SameMotion, SameDress
    <3>5. Good(n, a, b)
      BY <1>2, <3>3, <3>4, Still
    <3> QED
      BY <3>1, <3>2, <3>4, <3>5
  <2>2. CASE Becomes(p, OnTeleport(player[p]))
    BY <1>2, <2>2, Teleported
  <2> QED
    BY <2>1, <2>2 DEF Touch
<1>5. (Processes(p)' <=> a) /\ ((place.who # p)' <=> b)
  BY <1>1, <1>3 DEF Processes
<1>6. Good(n, Processes(p)', (place.who # p)')
  BY <1>4, <1>5 DEF Good
<1>7. Compatible(n.styles) /\ Weighs(n)
  BY <1>2, <1>4, SameDressed
<1>8. Set(p)'
  <2>1. player'[p] = n
    BY <1>4 DEF MovementInv, TypeOK, Becomes
  <2>2. /\ Velocities(n) = Velocities(player[p]) /\ Gravities(n) = Gravities(player[p])
        /\ n.gravity = player[p].gravity
    BY <1>4, SameDressed
  <2>3. (Velocities(player[p]))' = Velocities(player'[p]) /\ (Gravities(player[p]))' = Gravities(player'[p])
    BY DEF Velocities, Gravities
  <2>4. Processes(p)' <=> Processes(p)
    BY <1>1, <1>5
  <2> QED
    BY <1>2, <1>3, <2>1, <2>2, <2>3, <2>4 DEF Set
<1>9. /\ modeCvars \in {Mode[q] : q \in Players} \cup {NoCourse} /\ maxVelocity \in Nat /\ due \subseteq Players
      /\ place = Rest \/ place \in [who : Players, at : Stages]
  BY DEF MovementInv, TypeOK
<1> QED
  BY <1>3, <1>4, <1>6, <1>7, <1>8, <1>9, StepOf

LEMMA SimulateStep == ASSUME MovementInv, NEW p \in Players, PhysicsSimulate(p)
                      PROVE  MovementInv'
<1> DEFINE r == player[p]
<1>1. /\ place = Rest /\ place' = [who |-> p, at |-> "simulated"] /\ due' = due \ {p}
      /\ UNCHANGED <<modeCvars, maxVelocity>>
  BY DEF PhysicsSimulate
<1>2. PICK h : h = IF r.moveType # r.lastKnownMoveType THEN OnChangeMoveType(r, r.lastKnownMoveType) ELSE r
  OBVIOUS
<1>3. PICK n : n = HandleNoclip(h)
  OBVIOUS
<1>4. Becomes(p, n)
  BY <1>2, <1>3 DEF PhysicsSimulate
<1>5. Good(r, FALSE, TRUE) /\ Compatible(r.styles) /\ Weighs(r)
  <2>1. ~Processes(p) /\ place.who # p
    BY <1>1, MovementAssumption DEF Processes, Rest
  <2> QED
    BY <2>1 DEF MovementInv, Good
<1>6. Good(n, FALSE, FALSE) /\ SameDress(n, r)
  BY <1>2, <1>3, <1>5, Simulated
<1>7. ~Processes(p)' /\ ~(place.who # p)'
  BY <1>1 DEF Processes, Moving
<1>8. Good(n, Processes(p)', (place.who # p)')
  BY <1>6, <1>7 DEF Good
<1>9. Compatible(n.styles) /\ Weighs(n)
  BY <1>5, <1>6, SameDressed
<1>10. Set(p)'
  BY <1>7 DEF Set
<1>11. modeCvars \in {Mode[q] : q \in Players} \cup {NoCourse} /\ maxVelocity \in Nat /\ due \subseteq Players
  BY DEF MovementInv, TypeOK
<1>12. place.who \in {p, Nobody} /\ place'.who \in {p, Nobody} /\ place' \in [who : Players, at : Stages]
  BY <1>1 DEF Rest, Stages
<1> QED
  BY <1>1, <1>4, <1>8, <1>9, <1>10, <1>11, <1>12, StepOf

\* A movement begins with the settings of the player (ProcessMovement).
LEMMA ProcessStep == ASSUME MovementInv, NEW p \in Players, ProcessMovement(p)
                     PROVE  MovementInv'
<1> DEFINE r == player[p]
<1>1. /\ place = [who |-> p, at |-> "simulated"] /\ place' = [who |-> p, at |-> "started"]
      /\ modeCvars' = Mode[p] /\ maxVelocity' \in MaxVelocity(r) /\ UNCHANGED due
  BY DEF ProcessMovement, At
<1>2. PICK g \in IF Gravities(r) = {} THEN {r.gravity} ELSE Gravities(r) :
        Becomes(p, [OnProcessMovement(r) EXCEPT !.gravity = g])
  BY DEF ProcessMovement
<1>3. r \in PlayerRecord /\ Good(r, FALSE, FALSE) /\ Compatible(r.styles) /\ Weighs(r)
  <2>1. ~Processes(p) /\ place.who = p
    BY <1>1 DEF Processes, Moving
  <2> QED
    BY <2>1 DEF MovementInv, Good
<1>4. PICK m : m = OnProcessMovement(r)
  OBVIOUS
<1>5. Good(m, TRUE, FALSE) /\ SameDress(m, r) /\ m \in PlayerRecord
  BY <1>3, <1>4, Processed DEF Good
<1>6. /\ Velocities(r) \subseteq Nat /\ Gravities(r) \subseteq {50, 150}
      /\ \A v, w \in Velocities(r) : v = w
  BY <1>3, OneSetting
<1>7. g \in {50, 100, 150}
  <2>1. r.gravity \in {50, 100, 150}
    BY <1>3 DEF PlayerRecord
  <2> QED
    BY <1>2, <1>6, <2>1
<1>8. PICK n : n = [m EXCEPT !.gravity = g]
  OBVIOUS
<1>9. n \in PlayerRecord /\ SameMotion(n, m) /\ n.styles = m.styles /\ n.gravity = g
  BY <1>5, <1>7, <1>8 DEF PlayerRecord, SameMotion
<1>10. Good(n, TRUE, FALSE)
  BY <1>5, <1>9, Still
<1>11. n.styles = r.styles
  BY <1>5, <1>9 DEF SameDress
<1>12. Compatible(n.styles) /\ Weighs(n)
  <2>1. Gravities(n) = Gravities(r)
    BY <1>11 DEF Gravities
  <2>2. Weighs(n)
    BY <1>2, <1>3, <1>9, <2>1 DEF Weighs
  <2> QED
    BY <1>3, <1>11, <2>2
<1>13. Becomes(p, n)
  BY <1>2, <1>4, <1>8
<1>14. maxVelocity' \in Nat
  <2>1. maxVelocity \in Nat /\ r.course \in CourseVels \cup {NoCourse}
    BY <1>3 DEF MovementInv, TypeOK, PlayerRecord
  <2> QED
    BY <1>1, <1>6, <2>1, MovementAssumption DEF MaxVelocity
<1>15. Processes(p)' /\ ~(place.who # p)'
  BY <1>1 DEF Processes, Moving, Stages
<1>16. Good(n, Processes(p)', (place.who # p)')
  BY <1>10, <1>15 DEF Good
<1>17. Set(p)'
  <2>1. player'[p] = n
    BY <1>13 DEF MovementInv, TypeOK, Becomes
  <2>2. Velocities(n) \subseteq {maxVelocity'}
    <3>1. Velocities(n) = Velocities(r)
      BY <1>11 DEF Velocities
    <3>2. Velocities(r) # {} => maxVelocity' \in Velocities(r)
      BY <1>1 DEF MaxVelocity
    <3> QED
      BY <1>6, <3>1, <3>2
  <2>3. Gravities(n) # {} => n.gravity \in Gravities(n)
    <3>1. Gravities(n) = Gravities(r)
      BY <1>11 DEF Gravities
    <3> QED
      BY <1>2, <1>9, <3>1
  <2>4. (Velocities(player[p]))' = Velocities(player'[p]) /\ (Gravities(player[p]))' = Gravities(player'[p])
    BY DEF Velocities, Gravities
  <2> QED
    BY <1>1, <2>1, <2>2, <2>3, <2>4 DEF Set
<1>18. modeCvars' \in {Mode[q] : q \in Players} \cup {NoCourse} /\ due' \subseteq Players
  BY <1>1 DEF MovementInv, TypeOK
<1>19. place.who \in {p, Nobody} /\ place'.who \in {p, Nobody} /\ place' \in [who : Players, at : Stages]
  BY <1>1 DEF Stages
<1> QED
  BY <1>12, <1>13, <1>14, <1>16, <1>17, <1>18, <1>19, StepOf

LEMMA CategorizeStep == ASSUME MovementInv, NEW p \in Players, CategorizePosition(p)
                        PROVE  MovementInv'
<1>1. PICK from \in {"started", "moved"}, to \in {"placed", "ended"} :
        \/ Hook(p, from, to, [player[p] EXCEPT !.ignoreNextCategorizePosition = FALSE])
        \/ \E ground \in BOOLEAN : Hook(p, from, to, Categorized(player[p], ground))
  <2>1. PICK step \in {<<"started", "placed">>, <<"moved", "ended">>} :
          \/ Hook(p, step[1], step[2], [player[p] EXCEPT !.ignoreNextCategorizePosition = FALSE])
          \/ \E ground \in BOOLEAN : Hook(p, step[1], step[2], Categorized(player[p], ground))
    BY Zenon DEF CategorizePosition
  <2>2. step[1] \in {"started", "moved"} /\ step[2] \in {"placed", "ended"}
    BY <2>1
  <2> QED
    BY <2>1, <2>2, Zenon
<1>2. from \in Moving /\ to \in Moving /\ to \in Stages
  BY DEF Moving, Stages
<1>3. CASE Hook(p, from, to, [player[p] EXCEPT !.ignoreNextCategorizePosition = FALSE])
  <2>1. PICK no \in BOOLEAN : no = FALSE
    OBVIOUS
  <2>2. PICK n : n = [player[p] EXCEPT !.ignoreNextCategorizePosition = no]
    OBVIOUS
  <2>3. Hook(p, from, to, n)
    BY <1>3, <2>1, <2>2
  <2>4. ASSUME Good(player[p], TRUE, FALSE)
        PROVE  Good(n, to \in Moving, FALSE) /\ SameDress(n, player[p])
    <3>1. player[p] \in PlayerRecord
      BY <2>4 DEF Good
    <3>2. n \in PlayerRecord /\ SameMotion(n, player[p]) /\ SameDress(n, player[p])
      BY <2>2, <3>1, Flags, FlagsStill
    <3>3. Good(n, TRUE, FALSE)
      BY <2>4, <3>2, Still
    <3> QED
      BY <1>2, <3>2, <3>3 DEF Good
  <2> QED
    BY <1>2, <2>3, <2>4, HookStep
<1>4. CASE \E ground \in BOOLEAN : Hook(p, from, to, Categorized(player[p], ground))
  <2>1. PICK ground \in BOOLEAN : Hook(p, from, to, Categorized(player[p], ground))
    BY <1>4
  <2>2. PICK n : n = Categorized(player[p], ground)
    OBVIOUS
  <2>3. Hook(p, from, to, n)
    BY <2>1, <2>2
  <2>4. Good(player[p], TRUE, FALSE) => Good(n, TRUE, FALSE) /\ SameDress(n, player[p])
    BY <2>2, CategorizedGood
  <2>5. Good(player[p], TRUE, FALSE) => Good(n, to \in Moving, FALSE) /\ SameDress(n, player[p])
    BY <1>2, <2>4 DEF Good
  <2> QED
    BY <1>2, <2>3, <2>5, HookStep
<1> QED
  BY <1>1, <1>3, <1>4

\* A hook that keeps what the services have heard of the ground.
LEMMA InnerStep ==
  ASSUME MovementInv, NEW p \in Players, NEW n,
         NEW from \in {"placed", "climbed", "jumped"}, NEW to \in {"climbed", "jumped", "moved"},
         Hook(p, from, to, n),
         Good(player[p], TRUE, FALSE) => Good(n, TRUE, FALSE) /\ SameDress(n, player[p])
  PROVE  MovementInv'
<1>1. from \in Moving /\ to \in Moving /\ to \in Stages
  BY DEF Moving, Stages
<1>2. Good(player[p], TRUE, FALSE) => Good(n, to \in Moving, FALSE) /\ SameDress(n, player[p])
  BY <1>1 DEF Good
<1> QED
  BY <1>1, <1>2, HookStep

LEMMA LadderStep == ASSUME MovementInv, NEW p \in Players, LadderMove(p)
                    PROVE  MovementInv'
<1> DEFINE r == player[p]
<1>1. PICK on : on = [r EXCEPT !.moveType = "ladder"]
  OBVIOUS
<1>2. PICK off : off = OnChangeMoveType(RegisterTakeoff([r EXCEPT !.moveType = "walk"], "ladder"), "ladder")
  OBVIOUS
<1>3. PICK caught : caught = OnChangeMoveType(RegisterLanding(on), "walk")
  OBVIOUS
<1>4. CASE Hook(p, "placed", "climbed", r)
  <2>1. SameDress(r, r)
    BY DEF SameDress
  <2> QED
    BY <1>4, <2>1, InnerStep
<1>5. CASE r.moveType = "ladder" /\ Hook(p, "placed", "climbed", off)
  <2>1. Good(r, TRUE, FALSE) => Good(off, TRUE, FALSE) /\ SameDress(off, r)
    BY <1>2, <1>5, Ladder
  <2> QED
    BY <1>5, <2>1, InnerStep
<1>6. CASE r.onGround /\ Hook(p, "placed", "climbed", on)
  <2>1. Good(r, TRUE, FALSE) => Good(on, TRUE, FALSE) /\ SameDress(on, r)
    BY <1>1, <1>6, OntoLadder
  <2> QED
    BY <1>6, <2>1, InnerStep
<1>7. CASE ~r.onGround /\ Hook(p, "placed", "climbed", caught)
  <2>1. ASSUME Good(r, TRUE, FALSE)
        PROVE  Good(caught, TRUE, FALSE) /\ SameDress(caught, r)
    <3>1. /\ on \in PlayerRecord /\ SameDress(on, r)
          /\ on.onGround = r.onGround /\ on.heard = r.heard
      BY <1>1, <2>1, OntoLadder
    <3>2. Heard(on, on.onGround)
      BY <2>1, <3>1 DEF Good, Heard
    <3>3. Good(caught, TRUE, FALSE) /\ SameDress(caught, on)
      BY <1>3, <3>1, <3>2, CaughtLadder
    <3> QED
      BY <3>1, <3>3 DEF SameDress
  <2> QED
    BY <1>7, <2>1, InnerStep
<1>8. \/ Hook(p, "placed", "climbed", r)
      \/ r.moveType = "ladder" /\ Hook(p, "placed", "climbed", off)
      \/ Hook(p, "placed", "climbed", IF r.onGround THEN on ELSE caught)
  BY <1>1, <1>2, <1>3 DEF LadderMove
<1> QED
  BY <1>4, <1>5, <1>6, <1>7, <1>8

LEMMA JumpStep == ASSUME MovementInv, NEW p \in Players, OnJumpLegacy(p)
                  PROVE  MovementInv'
<1> DEFINE r == player[p]
<1>1. PICK perf \in BOOLEAN : perf = (r.moveType # "ladder" /\ ~r.oldWalkMoved)
  BY Zenon
<1>2. PICK how \in {"perf", "jump"} : how = IF perf THEN "perf" ELSE "jump"
  OBVIOUS
<1>3. PICK n : n = OnStopTouchGround(RegisterTakeoff([r EXCEPT !.onGround = FALSE, !.inPerf = perf], how))
  OBVIOUS
<1>4. r.onGround /\ r.moveType # "noclip" /\ Hook(p, "climbed", "jumped", n)
  BY <1>1, <1>2, <1>3 DEF OnJumpLegacy
<1>5. Good(r, TRUE, FALSE) => Good(n, TRUE, FALSE) /\ SameDress(n, r)
  BY <1>1, <1>2, <1>3, <1>4, JumpedOff
<1> QED
  BY <1>4, <1>5, InnerStep

LEMMA MoveStep == ASSUME MovementInv, NEW p \in Players, WalkMove(p) \/ WaterMove(p) \/ AirMove(p)
                  PROVE  MovementInv'
<1> DEFINE r == player[p]
<1>1. PICK yes \in BOOLEAN : yes = TRUE
  OBVIOUS
<1>2. CASE WalkMove(p)
  <2>1. PICK n : n = [r EXCEPT !.walkMoved = yes]
    OBVIOUS
  <2>2. Hook(p, "climbed", "moved", n)
    BY <1>1, <1>2, <2>1 DEF WalkMove
  <2>3. ASSUME Good(r, TRUE, FALSE)
        PROVE  Good(n, TRUE, FALSE) /\ SameDress(n, r)
    <3>1. n \in PlayerRecord /\ SameMotion(n, r) /\ SameDress(n, r)
      BY <2>1, <2>3, Flags, FlagsStill DEF Good
    <3> QED
      BY <2>3, <3>1, Still
  <2> QED
    BY <2>2, <2>3, InnerStep
<1>3. CASE WaterMove(p)
  <2>1. PICK n : n = [r EXCEPT !.ignoreNextCategorizePosition = yes]
    OBVIOUS
  <2>2. PICK from \in {"climbed", "jumped"} : Hook(p, from, "moved", n)
    BY <1>1, <1>3, <2>1 DEF WaterMove
  <2>3. ASSUME Good(r, TRUE, FALSE)
        PROVE  Good(n, TRUE, FALSE) /\ SameDress(n, r)
    <3>1. n \in PlayerRecord /\ SameMotion(n, r) /\ SameDress(n, r)
      BY <2>1, <2>3, Flags, FlagsStill DEF Good
    <3> QED
      BY <2>3, <3>1, Still
  <2> QED
    BY <2>2, <2>3, InnerStep
<1>4. CASE AirMove(p)
  <2>1. PICK from \in {"climbed", "jumped"} : Hook(p, from, "moved", r)
    BY <1>4 DEF AirMove
  <2>2. SameDress(r, r)
    BY DEF SameDress
  <2> QED
    BY <2>1, <2>2, InnerStep
<1> QED
  BY <1>2, <1>3, <1>4

LEMMA PostStep == ASSUME MovementInv, NEW p \in Players, ProcessMovementPost(p)
                  PROVE  MovementInv'
<1> DEFINE r == player[p]
<1>1. PICK n : n = [r EXCEPT !.inPerf = @ /\ ~r.onGround /\ r.moveType = "walk",
                             !.oldWalkMoved = r.walkMoved,
                             !.previousOnGround = r.onGround]
  OBVIOUS
<1>2. Hook(p, "ended", "simulated", n)
  BY <1>1 DEF ProcessMovementPost
<1>3. "ended" \in Moving /\ "simulated" \in Stages /\ "simulated" \notin Moving
  BY DEF Moving, Stages
<1>4. Good(r, TRUE, FALSE) => Good(n, FALSE, FALSE) /\ SameDress(n, r)
  BY <1>1, Posted
<1>5. Good(r, TRUE, FALSE) => Good(n, "simulated" \in Moving, FALSE) /\ SameDress(n, r)
  BY <1>3, <1>4 DEF Good
<1> QED
  BY <1>2, <1>3, <1>5, HookStep

LEMMA RestedStep == ASSUME MovementInv, NEW p \in Players, PhysicsSimulatePost(p)
                    PROVE  MovementInv'
<1> DEFINE r == player[p]
<1>1. PICK n : n = [r EXCEPT !.lastKnownMoveType = r.moveType]
  OBVIOUS
<1>2. /\ place = [who |-> p, at |-> "simulated"] /\ place' = Rest /\ Becomes(p, n)
      /\ UNCHANGED <<modeCvars, maxVelocity, due>>
  BY <1>1 DEF PhysicsSimulatePost
<1>3. Good(r, FALSE, FALSE) /\ Compatible(r.styles) /\ Weighs(r)
  <2>1. ~Processes(p) /\ place.who = p
    BY <1>2 DEF Processes, Moving
  <2> QED
    BY <2>1 DEF MovementInv, Good
<1>4. Good(n, FALSE, TRUE) /\ SameDress(n, r)
  BY <1>1, <1>3, Rested
<1>5. ~Processes(p)' /\ (place.who # p)'
  BY <1>2, MovementAssumption DEF Processes, Rest
<1>6. Good(n, Processes(p)', (place.who # p)')
  BY <1>4, <1>5 DEF Good
<1>7. Compatible(n.styles) /\ Weighs(n)
  BY <1>3, <1>4, SameDressed
<1>8. Set(p)'
  BY <1>5 DEF Set
<1>9. modeCvars \in {Mode[q] : q \in Players} \cup {NoCourse} /\ maxVelocity \in Nat /\ due \subseteq Players
  BY DEF MovementInv, TypeOK
<1>10. place.who \in {p, Nobody} /\ place'.who \in {p, Nobody}
  BY <1>2 DEF Rest
<1> QED
  BY <1>2, <1>6, <1>7, <1>8, <1>9, <1>10, StepOf

LEMMA Stutter == MovementInv /\ UNCHANGED vars => MovementInv'
<1> SUFFICES ASSUME MovementInv, UNCHANGED vars
             PROVE  MovementInv'
  OBVIOUS
<1> QED
  BY DEF MovementInv, TypeOK, vars, Set, Processes, Velocities, Gravities

\* The invariant holds whatever the game makes of a movement, for any players, modes,
\* courses and wardrobes; its first part is that every variable has its type.
THEOREM MovementIsSteady == Spec => []MovementInv
<1>1. ASSUME MovementInv, Next
      PROVE  MovementInv'
  <2>1. CASE NextTick
    BY <1>1, <2>1, TickStep
  <2>2. ASSUME NEW p \in Players,
               \/ ToggleNoclip(p) \/ GroundFlag(p) \/ Reset(p) \/ Touch(p)
               \/ \E s \in AllStyles : AddStyle(p, s) \/ RemoveStyle(p, s)
               \/ Simulation(p)
        PROVE  MovementInv'
    <3>1. CASE ToggleNoclip(p) \/ GroundFlag(p)
      BY <1>1, <3>1, FlagStep
    <3>2. CASE Reset(p)
      BY <1>1, <3>2, ResetStep
    <3>3. CASE Touch(p)
      BY <1>1, <3>3, TouchStep
    <3>4. CASE \E s \in AllStyles : AddStyle(p, s) \/ RemoveStyle(p, s)
      BY <1>1, <3>4, StyleStep
    <3>5. CASE Simulation(p)
      <4>1. CASE PhysicsSimulate(p)
        BY <1>1, <4>1, SimulateStep
      <4>2. CASE ProcessMovement(p)
        BY <1>1, <4>2, ProcessStep
      <4>3. CASE CategorizePosition(p)
        BY <1>1, <4>3, CategorizeStep
      <4>4. CASE LadderMove(p)
        BY <1>1, <4>4, LadderStep
      <4>5. CASE OnJumpLegacy(p)
        BY <1>1, <4>5, JumpStep
      <4>6. CASE WalkMove(p) \/ WaterMove(p) \/ AirMove(p)
        BY <1>1, <4>6, MoveStep
      <4>7. CASE ProcessMovementPost(p)
        BY <1>1, <4>7, PostStep
      <4>8. CASE PhysicsSimulatePost(p)
        BY <1>1, <4>8, RestedStep
      <4> QED
        BY <3>5, <4>1, <4>2, <4>3, <4>4, <4>5, <4>6, <4>7, <4>8 DEF Simulation
    <3> QED
      BY <2>2, <3>1, <3>2, <3>3, <3>4, <3>5
  <2> QED
    BY <1>1, <2>1, <2>2 DEF Next
<1>2. MovementInv /\ [Next]_vars => MovementInv'
  BY <1>1, Stutter
<1> QED
  BY Initial, <1>2, PTL DEF Spec

\* The timer, the mode, the styles and the triggers have heard whether a player is on
\* the ground while his movement is processed (GroundEvents, at the start of a movement
\* and around CategorizePosition).
THEOREM GroundIsHeard == Spec => []GroundEventsHeard
<1>1. MovementInv => GroundEventsHeard
  BY DEF MovementInv, Good, Heard, GroundEventsHeard
<1> QED
  BY <1>1, MovementIsSteady, PTL

\* Nobody starts the timer in the air off a perf, after he flew or was teleported in the
\* air without touching the ground or a ladder since, or in the tick of a teleport; one
\* off the ground or a ladder is not excluded (validJump, inPerf, lastInvalidateTime:
\* the guards of TimerStart, OnStopTouchGround, OnChangeMoveType).
THEOREM StartsAreEarned == Spec => []StartIsEarned
<1>1. MovementInv => StartIsEarned
  <2> SUFFICES ASSUME MovementInv, NEW p \in Players, MayStart(player[p]), ~player[p].onGround
               PROVE  /\ player[p].takeoff # "perf" /\ player[p].carried # "flown"
                      /\ player[p].carried = "lifted" => ~player[p].invalidated
    BY DEF StartIsEarned
  <2>1. player[p] \in PlayerRecord /\ Earned(player[p])
    BY DEF MovementInv, Good
  <2>2. player[p].moveType \in {"walk", "ladder"} /\ player[p].validJump /\ ~player[p].inPerf
    BY <2>1 DEF MayStart, HasValidMoveType, PlayerRecord
  <2> QED
    BY <2>1, <2>2 DEF Earned
<1> QED
  BY <1>1, MovementIsSteady, PTL

\* Each movement is processed with its own player's mode and with the speed limit and
\* the gravity of his styles (ApplyModeSettings, the OnProcessMovement of the styles).
THEOREM SettingsAreOwn == Spec => []OwnSettings
<1>1. MovementInv => OwnSettings
  <2> SUFFICES ASSUME MovementInv, NEW p \in Players, Processes(p)
               PROVE  /\ modeCvars = Mode[p]
                      /\ Velocities(player[p]) \subseteq {maxVelocity}
                      /\ player[p].gravity = IF Gravities(player[p]) = {} THEN 100
                                             ELSE CHOOSE g \in Gravities(player[p]) : TRUE
    BY DEF OwnSettings
  <2>1. /\ player[p] \in PlayerRecord /\ Compatible(player[p].styles) /\ Weighs(player[p]) /\ Set(p)
    BY DEF MovementInv, Good
  <2>2. \A g, h \in Gravities(player[p]) : g = h
    BY <2>1, OneSetting
  <2>3. CASE Gravities(player[p]) = {}
    BY <2>1, <2>3 DEF Weighs, Set
  <2>4. CASE Gravities(player[p]) # {}
    <3>1. player[p].gravity \in Gravities(player[p])
      BY <2>1, <2>4 DEF Set
    <3>2. (CHOOSE g \in Gravities(player[p]) : TRUE) \in Gravities(player[p])
      BY <2>4
    <3>3. player[p].gravity = CHOOSE g \in Gravities(player[p]) : TRUE
      BY <2>2, <3>1, <3>2
    <3> QED
      BY <2>1, <2>4, <3>3 DEF Set
  <2> QED
    BY <2>3, <2>4
<1> QED
  BY <1>1, MovementIsSteady, PTL
==============================================================================
