---------------------------- MODULE Compression ----------------------------
(***************************************************************************)
(* The delta coding of a replay's sections.  A tick (or a command) is        *)
(* written as the set of its fields that differ from what the reader would  *)
(* assume, with their values: the change flags and the bytes after them.    *)
(* What is assumed comes from the previous tick, except for the movement    *)
(* data: pre is compared with the previous post, post with its own pre.     *)
(*                                                                          *)
(* The order of the fields in the buffer and zstd are abstracted: writer    *)
(* and reader list the fields in the same order.                            *)
(***************************************************************************)
EXTENDS Naturals, Sequences

CONSTANTS
  Width,      \* serverTick is counted modulo this: 2^32 in the code
  Plain,      \* the other top-level fields of TickData, and those of CmdData
  Motion,     \* the fields of MovementData
  Values,     \* what the fields hold
  ZeroValue   \* what {} gives them

ASSUME CompressionAssumption ==
  /\ Width \in Nat \ {0}
  /\ ZeroValue \in Values

ServerTicks  == 0..(Width - 1)
MovementData == [Motion -> Values]
TickData == [serverTick : ServerTicks, plain : [Plain -> Values], checkpoint : Values,
             pre : MovementData, post : MovementData]
CmdData  == [serverTick : ServerTicks, gameTime : ServerTicks, plain : [Plain -> Values]]

Still     == [x \in Motion |-> ZeroValue]
EmptyTick == [serverTick |-> 0, plain |-> [x \in Plain |-> ZeroValue], checkpoint |-> ZeroValue,
              pre |-> Still, post |-> Still]

\* What a section holds of the fields of new that differ from those of old.
Changes(new, old) ==
  LET changed == {x \in DOMAIN new : new[x] # old[x]} IN [x \in changed |-> new[x]]

\* The first element is written whole: i == 0 || current != previous.
Whole(new) == new

\* Copy from the previous, then read what changed.
Patched(old, changes) ==
  [x \in DOMAIN old |-> IF x \in DOMAIN changes THEN changes[x] ELSE old[x]]

\* A counter that is written only when it did not grow by one.
CounterChange(new, old, first) ==
  IF new = (IF first THEN 0 ELSE (old + 1) % Width) THEN {} ELSE {new}

Counter(changes, old, first) ==
  IF changes # {} THEN CHOOSE n \in changes : TRUE
  ELSE IF first THEN 0 ELSE (old + 1) % Width

------------------------------------------------------------------------------
\* The loop of WriteTickDataCompressed for one tick: old is the one before it,
\* EmptyTick for the first.
WriteTick_PreFromPre(new, old, first) ==   \* mutant: pre is compared with the previous pre
  [serverTick |-> CounterChange(new.serverTick, old.serverTick, first),
   plain      |-> IF first THEN Whole(new.plain) ELSE Changes(new.plain, old.plain),
   checkpoint |-> IF first \/ new.checkpoint # old.checkpoint THEN {new.checkpoint} ELSE {},
   pre        |-> Changes(new.pre, old.pre),
   post       |-> Changes(new.post, new.pre)]
WriteTick(new, old, first) ==
  [serverTick |-> CounterChange(new.serverTick, old.serverTick, first),
   plain      |-> IF first THEN Whole(new.plain) ELSE Changes(new.plain, old.plain),
   checkpoint |-> IF first \/ new.checkpoint # old.checkpoint THEN {new.checkpoint} ELSE {},
   pre        |-> Changes(new.pre, old.post),
   post       |-> Changes(new.post, new.pre)]

\* The loop of DecodeTickDataBuffer for one tick.
ReadTick(written, old, first) ==
  LET pre == Patched(old.post, written.pre)
  IN  [serverTick |-> Counter(written.serverTick, old.serverTick, first),
       plain      |-> Patched(old.plain, written.plain),
       checkpoint |-> IF written.checkpoint # {} THEN CHOOSE c \in written.checkpoint : TRUE
                      ELSE old.checkpoint,
       pre        |-> pre,
       post       |-> Patched(pre, written.post)]

\* The loop of WriteCmdDataCompressed: here two counters are expected to grow.
WriteCmd(new, old, first) ==
  [serverTick |-> CounterChange(new.serverTick, old.serverTick, first),
   gameTime   |-> CounterChange(new.gameTime, old.gameTime, first),
   plain      |-> IF first THEN Whole(new.plain) ELSE Changes(new.plain, old.plain)]

\* The loop of ReadCmdDataCompressed.
ReadCmd(written, old, first) ==
  [serverTick |-> Counter(written.serverTick, old.serverTick, first),
   gameTime   |-> Counter(written.gameTime, old.gameTime, first),
   plain      |-> Patched(old.plain, written.plain)]

------------------------------------------------------------------------------
\* The sections.  The writer compares with the recorded ticks, the reader
\* with those it has read so far.
WriteTickDataCompressed(ticks) ==
  [i \in 1..Len(ticks) |-> IF i = 1 THEN WriteTick(ticks[1], EmptyTick, TRUE)
                           ELSE WriteTick(ticks[i], ticks[i - 1], FALSE)]

ReadTickDataCompressed(section) ==
  LET read[i \in 1..Len(section)] ==
        IF i = 1 THEN ReadTick(section[1], EmptyTick, TRUE)
        ELSE ReadTick(section[i], read[i - 1], FALSE)
  IN  [i \in 1..Len(section) |-> read[i]]
==============================================================================
