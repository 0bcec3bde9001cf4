----------------------------- MODULE MCRecorder -----------------------------
(* An instance of Recorder for TLC, and the checks of Ring and of ReplayData  *)
(* over bounded inputs.                                                       *)
EXTENDS Recorder

CONSTANTS a, b, knife, None, NoName

TwoRecorders == {a, b}
OneWeapon    == {knife}
Symmetry     == Permutations(TwoRecorders)

\* One recorder through two flushes with three commands, or two that share the
\* queue of the writes.
AloneOrTwo == {[recorders |-> {r}, ticks |-> 4, cmds |-> 3] : r \in TwoRecorders}
              \cup {[recorders |-> TwoRecorders, ticks |-> 3, cmds |-> 2]}

------------------------------------------------------------------------------
(* Ring: every member function does to Contents what it promises, for every   *)
(* ring of a few slots.                                                       *)

Items == {a, b}
AllRings == {r \in UNION {Rings(Items, capacity) : capacity \in 1..3} : IsRing(r, Items)}

ASSUME EmptyRingIsEmpty ==
  \A capacity \in 1..3 :
    IsRing(EmptyRing(capacity, a), Items) /\ Contents(EmptyRing(capacity, a)) = <<>>

ASSUME RingKeepsItsPromises ==
  \A r \in AllRings :
    LET c == Contents(r)
    IN  /\ Len(c) = GetReadAvailable(r) /\ GetReadAvailable(r) + GetWriteAvailable(r) = r.capacity
        /\ \A x \in Items : /\ IsRing(Write(r, x), Items)
                            /\ Contents(Write(r, x)) = Suffix(Append(c, x), r.capacity)
        /\ \A n \in 0..4 :
             /\ IsRing(Advance(r, n), Items)
             /\ Contents(Advance(r, n)) = SubSeq(c, n + 1, Len(c))
             /\ \A offset \in 0..4 :
                  Peek(r, n, offset) = SubSeq(c, offset + 1, Least(offset + n, Len(c)))
             /\ WriteToFile(r, n, 0) = Suffix(c, n)
             /\ \A k \in 1..3 : IsPrefix(WriteToFile(r, n, k), Suffix(c, n))
        /\ \A size \in 1..4 : /\ IsRing(Resize(r, size, a), Items)
                              /\ Contents(Resize(r, size, a)) = SubSeq(c, 1, Least(size, Len(c)))

------------------------------------------------------------------------------
(* ReplayData, with rings that hold every event of the window.                *)

D == INSTANCE ReplayData WITH Window <- 2, TickCapacity <- 2, EventCapacity <- 16, MaxSubtickMoves <- 2

Histories(modes, styles, others, length) ==
  UNION {[1..k -> [mode : modes, styles : styles, others : others] \cup {None}] : k \in 1..length}

\* A replay gives the player's mode and styles at each of its ticks.
ASSUME ReplaysPlayBack ==
  \A history \in Histories({a, b}, {<<>>, <<a>>, <<b, a>>}, 0..1, 3)
                \cup Histories({a, b}, {<<>>, <<b, a>>}, {0}, 5) :
    \A n \in 0..Len(history), k \in 1..2 : D!PlaysBack(history, n, k)

\* Trimming leaves the commands of the window.
ASSUME CommandsAreTrimmed ==
  \A ticks \in UNION {[1..k -> 0..4] : k \in 0..3} :
    LET cmds == [i \in DOMAIN ticks |-> [tick |-> FoldLeft(LAMBDA x, y : x + y, 0, SubSeq(ticks, 1, i))]]
    IN  \A at \in 0..8 : D!TrimOldCommands(cmds, at) = SelectSeq(cmds, LAMBDA c : c.tick + 2 >= at)

\* Subtick moves come back from the flat storage, without those over the limit.
ASSUME MovesComeBack ==
  \A counts \in UNION {[1..k -> 0..3] : k \in 0..3} :
    LET data == [i \in DOMAIN counts |->
                  [numSubtickMoves |-> counts[i], moves |-> [j \in 1..3 |-> <<i, j>>]]]
        packed == D!Packed(data)
    IN  D!UnpackSubtickData(packed.counts, packed.moves) =
          [i \in DOMAIN counts |->
             LET k == Least(counts[i], 2)
             IN  [numSubtickMoves |-> k, moves |-> SubSeq(data[i].moves, 1, k)]]
==============================================================================
