------------------------------ MODULE ModeTicks ------------------------------
(***************************************************************************)
(* ModeTicks: how the two modes divide a tick.  The game divides a tick at  *)
(* the times in four slots of the movement services; 128t keeps the middle  *)
(* of every tick in them, Source the middle of one tick in 32, which it     *)
(* calls double.  Inputs are moved back to the start of the tick or of its  *)
(* second half.  Times count half ticks, and `when` quarters of a tick.     *)
(***************************************************************************)
EXTENDS Integers

Slots == [1..4 -> Int]

Doubles(t) == (t * 2) % 64 < 2

\* OnPhysicsSimulate: the middle of this tick goes into the first slot that
\* holds an earlier time, unless a slot before it has it.
BeforeTick(s, t) ==
  LET middle == 2 * t - 1
      first  == {i \in 1..4 : s[i] <= middle /\ \A j \in 1..(i - 1) : s[j] > middle}
  IN  [i \in 1..4 |-> IF i \in first THEN middle ELSE s[i]]

\* OnPhysicsSimulatePost: the middle of the next tick, and of those after it as
\* the loop goes on to the other slots.
Fill(i, state) ==
  IF state.slots[i] > state.when THEN state
  ELSE [slots |-> [state.slots EXCEPT ![i] = state.when], when |-> state.when + 2]
AfterTick(s, t) ==
  Fill(4, Fill(3, Fill(2, Fill(1, [slots |-> s, when |-> 2 * t + 1])))).slots

Tick128(s, t)    == AfterTick(BeforeTick(s, t), t)
TickSource(s, t) == IF Doubles(t) THEN Tick128(s, t) ELSE s

\* The ticks the game divides.
Divided(s, t) == \E i \in 1..4 : s[i] = 2 * t - 1

\* OnSetupMove, for the moves that are not attacks.
When128(when)       == IF when >= 2 THEN 2 ELSE 0
WhenSource(when, t) == IF Doubles(t) THEN When128(when) ELSE 0
==============================================================================
