----------------------------- MODULE ReplayData -----------------------------
(***************************************************************************)
(* ReplayData: how the mode and the styles of a player reach a replay, and  *)
(* how subtick moves are stored in it.                                      *)
(*                                                                          *)
(* The recording service s of a player keeps the events of the last minutes *)
(* and, for what was before them, the earliest mode and styles.  A recorder *)
(* starts with base events for its first tick, copies the events since, and *)
(* receives the later ones.  The operators are functions of s, and Recording*)
(* is what a whole history of ticks leaves; that a replay plays the modes   *)
(* and styles back (PlaysBack) is checked for every short history.          *)
(***************************************************************************)
EXTENDS Naturals, Sequences, SequencesExt, Ring

CONSTANTS
  None,          \* an optional without a value
  NoName,        \* the empty name of a clear-only event
  Window,        \* ticks that TrimOldData keeps (two minutes)
  TickCapacity, EventCapacity,  \* of the circular recorder's rings
  MaxSubtickMoves  \* MAX_SUBTICK_MOVES

------------------------------------------------------------------------------
(* Events. *)

ModeEvent(tick, mode) == [tick |-> tick, type |-> "mode", name |-> mode, clear |-> FALSE]
StyleEvent(tick, style, clear) == [tick |-> tick, type |-> "style", name |-> style, clear |-> clear]
\* A timer or teleport event, which InsertEvent puts between the others.
OtherEvent(tick) == [tick |-> tick, type |-> "other", name |-> NoName, clear |-> FALSE]

\* The first event of a list of styles clears those before.
StyleEvents(tick, styles) ==
  IF styles = <<>> THEN <<StyleEvent(tick, NoName, TRUE)>>
  ELSE [i \in DOMAIN styles |-> StyleEvent(tick, styles[i], i = 1)]

\* lastKnownMode, lastKnownStyles, and the circular recorder's members.
NewService ==
  [mode |-> None, styles |-> <<>>, events |-> <<>>, ticks |-> <<>>,
   earliestMode |-> None, earliestStyles |-> None]

InsertEvents(s, events) == [s EXCEPT !.events = Suffix(@ \o events, EventCapacity)]

\* The events CheckModeStyles inserts at a tick of a player p = [mode, styles].
Changes(s, p, tick) ==
  (IF s.mode = p.mode THEN <<>> ELSE <<ModeEvent(tick, p.mode)>>)
  \o (IF s.styles = p.styles THEN <<>> ELSE StyleEvents(tick, p.styles))

CheckModeStyles(s, p, tick) ==
  [InsertEvents(s, Changes(s, p, tick)) EXCEPT
     !.mode = p.mode, !.styles = p.styles,
     !.earliestMode = IF @ = None THEN p.mode ELSE @,
     !.earliestStyles = IF @ = None THEN p.styles ELSE @]

\* An event leaves the ring for the earliest mode and styles (the name of a
\* clear-only event as if it were a style's).
Trimmed(s, e) ==
  CASE e.type = "mode"  -> [s EXCEPT !.earliestMode = e.name]
    [] e.type = "style" -> [s EXCEPT !.earliestStyles = Append(IF e.clear THEN <<>> ELSE @, e.name)]
    [] OTHER -> s

IsOld(x, now) == x.tick + Window < now

\* The number of old ones before the first that is not.
OldOnes(s, now) == Len(SelectSeq(s, LAMBDA x : IsOld(x, now)))

TrimOldEvents(s, now) ==
  LET n == OldOnes(s.events, now)
  IN  [FoldLeft(Trimmed, s, SubSeq(s.events, 1, n)) EXCEPT
         !.events = SubSeq(@, n + 1, Len(@))]

TrimOldCommands(cmds, now) == SubSeq(cmds, OldOnes(cmds, now) + 1, Len(cmds))

\* OnPhysicsSimulatePost of a living player, after p.others other events.
LiveTick(s, p, tick) ==
  LET before == InsertEvents(s, [i \in 1..p.others |-> OtherEvent(tick)])
      ticked == [before EXCEPT !.ticks = Suffix(Append(@, tick), TickCapacity)]
  IN  TrimOldEvents(CheckModeStyles(ticked, p, tick), tick)

\* What a history leaves: history[t] is the player at tick t, None when dead.
Recording(history) ==
  FoldLeft(LAMBDA s, t : IF history[t] = None THEN s ELSE LiveTick(s, history[t], t),
           NewService, [t \in DOMAIN history |-> t])

------------------------------------------------------------------------------
(* The events of a recorder. *)

At(e, tick) == [e EXCEPT !.tick = tick]

BaseMode(s, before) ==
  LET modes == SelectSeq(before, LAMBDA e : e.type = "mode")
  IN  IF modes = <<>> THEN <<ModeEvent(0, s.earliestMode)>> ELSE <<At(Last(modes), 0)>>

\* The last list of styles that began before the earliest tick: from its first
\* event as long as events of styles of the same tick follow.
BaseStyles(s, before) ==
  LET starts == {i \in DOMAIN before : before[i].type = "style" /\ before[i].clear}
      first  == CHOOSE i \in starts : \A j \in starts : j <= i
      joins(i) == s.events[i].type = "style" /\ s.events[i].tick = s.events[first].tick
      last   == CHOOSE i \in first..Len(s.events) :
                  /\ \A j \in first..i : joins(j)
                  /\ i < Len(s.events) => ~joins(i + 1)
  IN  IF starts = {}
      THEN [i \in DOMAIN s.earliestStyles |-> StyleEvent(0, s.earliestStyles[i], i = 1)]
      ELSE <<At(s.events[first], 0)>> \o SubSeq(s.events, first + 1, last)

\* Recorder's constructor: the events for the last k ticks.
FirstEvents(s, k) ==
  LET ticks    == Suffix(s.ticks, k)
      before   == SelectSeq(s.events, LAMBDA e : e.tick < ticks[1])
  IN  IF ticks = <<>> THEN <<>>
      ELSE BaseMode(s, before) \o BaseStyles(s, before)
           \o SubSeq(s.events, Len(before) + 1, Len(s.events))

\* What it is handed later: whatever later ticks insert.
LaterEvents(history, from) ==
  LET run == FoldLeft(
        LAMBDA x, t :
          IF history[t] = None THEN x
          ELSE [s |-> LiveTick(x.s, history[t], t),
                events |-> IF t < from THEN x.events
                           ELSE x.events \o [i \in 1..history[t].others |-> OtherEvent(t)]
                                \o Changes(x.s, history[t], t)],
        [s |-> NewService, events |-> <<>>], [t \in DOMAIN history |-> t])
  IN  run.events

------------------------------------------------------------------------------
(* Playing it back. *)

Handled(x, e) ==
  CASE e.type = "mode"  -> [x EXCEPT !.mode = e.name]
    [] e.type = "style" -> [x EXCEPT !.styles =
         (IF e.clear THEN <<>> ELSE @) \o (IF e.name = NoName THEN <<>> ELSE <<e.name>>)]
    [] OTHER -> x

\* The bot's mode and styles when the events up to a tick have been handled.
Played(events, tick) ==
  FoldLeft(Handled, [mode |-> None, styles |-> <<>>],
           SelectSeq(events, LAMBDA e : e.tick <= tick))

\* A recorder that copies the k last ticks of the first n of a history plays the
\* mode and the styles its player had at each of its ticks, whatever the circular
\* recorder dropped before -- if those ticks are not older than what it keeps of
\* the events, as they are of a player who was dead for longer.
PlaysBack(history, n, k) ==
  LET s == Recording(SubSeq(history, 1, n))
      copied == Suffix(s.ticks, k)
      events == FirstEvents(s, k) \o LaterEvents(history, n + 1)
      later  == {t \in n + 1..Len(history) : history[t] # None}
      fresh  == {t \in ToSet(copied) : \A e \in 1..n : history[e] # None => t + Window >= e}
  IN  copied # <<>> => \A t \in later \cup fresh :
        Played(events, t) = [mode |-> history[t].mode, styles |-> history[t].styles]

------------------------------------------------------------------------------
(* Subtick moves. *)

\* A structure of moves: at most MaxSubtickMoves of n are there.
Counted(sd) == Least(sd.numSubtickMoves, MaxSubtickMoves)

\* PushData: the counts, and the moves of all structures one after the other.
Packed(data) ==
  [counts |-> [i \in DOMAIN data |-> Counted(data[i])],
   moves  |-> FoldLeft(LAMBDA all, sd : all \o SubSeq(sd.moves, 1, Counted(sd)), <<>>, data)]

UnpackSubtickData(counts, moves) ==
  LET offset(i) == FoldLeft(LAMBDA x, c : x + c, 0, SubSeq(counts, 1, i - 1))
  IN  [i \in DOMAIN counts |->
        [numSubtickMoves |-> counts[i], moves |-> SubSeq(moves, offset(i) + 1, offset(i) + counts[i])]]
==============================================================================
