----------------------------- MODULE MCMovement -----------------------------
(* An instance of Movement for TLC, and checks of the styles and the modes. *)
EXTENDS Movement, ModeTicks

CONSTANTS p, q, tick128, source

TwoPlayers == {p, q}
OneRoams   == {p}
Modes      == [x \in Players |-> IF x = p THEN tick128 ELSE source]
Styles     == [x \in Players |-> IF x = p THEN {LowGrav} ELSE {Vel5000}]
OneCourse  == {6000}

\* Two styles exclude each other or neither does, by whichever name they list;
\* and compatible styles set at most one speed limit and one gravity.
ASSUME \A s, t \in AllStyles : Excludes(s, t) <=> Excludes(t, s)
ASSUME \A s, t \in AllStyles : s # t /\ s.maxVel # None /\ t.maxVel # None => Excludes(s, t)
ASSUME \A s, t \in AllStyles : s # t /\ s.gravity # None /\ t.gravity # None => Excludes(s, t)
\* ApplyModeSettings knows the styles that set the limit by their short names.
ASSUME \A s \in AllStyles : s.short \in NamedVel <=> s.maxVel # None

\* A style's filter leaves nothing to remove.
FewMoves == {[button |-> b] : b \in {{"forward"}, {"back"}, {"left"}, {"jump"}, {"left", "back"}}}
Commands == [moves : SUBSET FewMoves, forward : -1..1, left : -1..1]
ASSUME \A s \in AllStyles, c \in Commands : Filtered(s, Filtered(s, c)) = Filtered(s, c)

\* 128t divides every tick.  Source means to divide one in 32, but its slots
\* divide the four after it as well.
Last128(t)    == [i \in 1..4 |-> 2 * (t + i) - 1]
LastSource(t) == Last128((t \div 32) * 32)
ASSUME \A t \in 1..100 : Tick128(Last128(t - 1), t) = Last128(t) /\ Divided(Last128(t - 1), t)
ASSUME \A t \in 1..100 : TickSource(LastSource(t - 1), t) = LastSource(t)
ASSUME \A t \in 1..100 : Doubles(t) <=> t % 32 = 0
ASSUME \A t \in 1..100 : ~Doubles(t) => (Divided(LastSource(t), t) <=> t % 32 \in 1..4)
ASSUME \A when \in 0..3, t \in 0..100 : WhenSource(when, t) <= When128(when) /\ When128(when) <= when
==============================================================================
