------------------------------ MODULE Recorder ------------------------------
(***************************************************************************)
(* Recorder: how a player's ticks and commands reach a replay.  The last    *)
(* ticks and commands are kept in a circular recorder.  A recorder starts   *)
(* with a copy of them when the timer starts, receives what follows, and    *)
(* moves what it holds to a temporary chunk on the disk whenever it holds   *)
(* FlushInterval ticks.  Some ticks after the timer ended it is handed to a *)
(* thread, which reads the chunks back, joins them with the remainder, and  *)
(* removes them when it destroys the recorder.                              *)
(*                                                                          *)
(* A subtick record is modelled by the number of the tick or command whose  *)
(* moves it counts.  The writes are done by AsyncFileIO in the order they   *)
(* were queued; waiting for them (Drain) is the guard pending = <<>>.       *)
(***************************************************************************)
EXTENDS Integers, Sequences, FiniteSets, SequencesExt, Ring

CONSTANTS
  Recorders,      \* each used once
  Weapons,        \* indices of the player's weapons
  FlushInterval,  \* FLUSH_INTERVAL_TICKS
  Copied,         \* ticks a run's recorder copies from the circular recorder
  RingTicks, RingCmds,  \* capacities of the circular recorder
  Breather,       \* ticks from the timer's end to the end of the recording
  WriteMayFail,   \* whether a chunk may fail to reach the disk
  MaxTick, MaxCmd, \* bounds: ticks, command numbers
  Bounds          \* those of a behaviour: sets of the recorders it uses, and of
                  \* how many ticks and commands: [recorders, ticks, cmds]

ASSUME RecorderAssumption ==
  /\ IsFiniteSet(Recorders) /\ WriteMayFail \in BOOLEAN
  /\ FlushInterval \in Nat \ {0} /\ RingTicks \in Nat \ {0} /\ RingCmds \in Nat \ {0}
  /\ Copied \in Nat /\ Breather \in Nat /\ MaxTick \in Nat /\ MaxCmd \in Nat
  /\ Bounds \subseteq [recorders : SUBSET Recorders, ticks : 0..MaxTick, cmds : 0..MaxCmd]

VARIABLES
  now,          \* the server's tick
  last,         \* lastCmdNumReceived
  ring,         \* circularRecording
  here,         \* whether the slot has a player
  state, mem, chunks, table, stop,  \* each recorder, and what it holds
  pending,      \* the chunk writes AsyncFileIO has to do
  disk,         \* the chunks on the disk
  replay,       \* replay[r]: what the thread wrote
  want,         \* auxiliary: want[r]: all that was pushed to r
  bound         \* those of this behaviour, one of Bounds

player    == <<now, last, ring, here>>
recorders == <<state, mem, chunks, table, stop>>
vars == <<player, recorders, pending, disk, replay, want, bound>>

Ticks == [n : 0..MaxTick, weapon : Weapons]
Cmds  == [n : 1..MaxCmd, tick : 0..MaxTick]
Garbage == MaxTick + 1  \* what lies behind the end of subtickCounts
Data == [ticks : Seq(Ticks), subs : Seq(0..Garbage), cmds : Seq(Cmds), csubs : Seq(1..MaxCmd)]
Nothing == [ticks |-> <<>>, subs |-> <<>>, cmds |-> <<>>, csubs |-> <<>>]
Chunk == [of : Recorders, i : Nat, data : Data]

TypeOK ==
  /\ now \in 0..MaxTick
  /\ last \in 0..MaxCmd
  /\ ring \in Data /\ here \in BOOLEAN
  /\ state \in [Recorders -> {"none", "recording", "breather", "writing", "written", "gone"}]
  /\ mem \in [Recorders -> Data] /\ want \in [Recorders -> Data] /\ replay \in [Recorders -> Data]
  /\ chunks \in [Recorders -> Nat]
  /\ table \in [Recorders -> SUBSET Weapons]
  /\ stop \in [Recorders -> 0..MaxTick + Breather]
  /\ pending \in Seq(Chunk) /\ disk \subseteq Chunk

Init ==
  /\ now = 0 /\ last = 0
  /\ ring = Nothing /\ here = TRUE
  /\ state = [r \in Recorders |-> "none"]
  /\ mem = [r \in Recorders |-> Nothing] /\ want = mem /\ replay = mem
  /\ chunks = [r \in Recorders |-> 0] /\ table = [r \in Recorders |-> {}]
  /\ stop = [r \in Recorders |-> 0]
  /\ pending = <<>> /\ disk = {}
  /\ bound \in Bounds

Active == {r \in Recorders : state[r] \in {"recording", "breather"}}  \* runRecorders

------------------------------------------------------------------------------
(* The data a recorder starts with, and flushes. *)

\* How many commands came before a tick.
CmdsBefore(tick) == Cardinality({i \in DOMAIN ring.cmds : ring.cmds[i].tick < tick})

\* The last k ticks, and the commands that came with them or later.
CopyRing(k) ==
  LET ticks == Suffix(ring.ticks, k)
      first == CmdsBefore(ticks[1].n)
  IN  IF ticks = <<>> THEN Nothing
      ELSE [ticks |-> ticks, subs |-> Suffix(ring.subs, k),
            cmds |-> SubSeq(ring.cmds, first + 1, Len(ring.cmds)),
            csubs |-> SubSeq(ring.csubs, first + 1, Len(ring.csubs))]

\* A chunk holds as many subtick counts as ticks, whatever the vector's size.
ChunkOf(d) ==
  [d EXCEPT !.subs = [i \in 1..Len(d.ticks) |-> IF i <= Len(d.subs) THEN d.subs[i] ELSE Garbage]]

\* PushData: of a tick, of its subtick data, and of commands with theirs.
PushTick(d, tick) == [d EXCEPT !.ticks = Append(@, tick)]
PushSubs(d, n)    == [d EXCEPT !.subs = Append(@, n)]
PushCmds(d, cmds, csubs) == [d EXCEPT !.cmds = @ \o cmds, !.csubs = @ \o csubs]

\* PushData(TickData) flushes what the recorder holds when that is enough.
Flushes(d) == Len(d.ticks) >= FlushInterval
FlushChunkToDisk(d) == Nothing

------------------------------------------------------------------------------
(* The player's events. *)

Recording == \E r \in Recorders : state[r] = "recording"

\* OnTimerStart, from a recording timer that was stopped.
OnTimerStart(r) ==
  /\ here /\ ~Recording /\ state[r] = "none"
  /\ state' = [state EXCEPT ![r] = "recording"]
  /\ mem' = [mem EXCEPT ![r] = CopyRing(Copied)]
  /\ want' = [want EXCEPT ![r] = CopyRing(Copied)]
  /\ UNCHANGED <<player, chunks, table, stop, pending, disk, replay>>

OnTimerEnd(r) ==
  /\ state[r] = "recording"
  /\ state' = [state EXCEPT ![r] = "breather"]
  /\ stop' = [stop EXCEPT ![r] = now + Breather]
  /\ UNCHANGED <<player, mem, chunks, table, pending, disk, replay, want>>

\* ~Recorder: CleanupTempFiles waits for the writes if anything was flushed.
Destroys_WithoutDrain(R) ==  \* mutant
  /\ disk' = {c \in disk : c.of \notin R}
  /\ mem' = [r \in Recorders |-> IF r \in R THEN Nothing ELSE mem[r]]
  /\ want' = [r \in Recorders |-> IF r \in R THEN Nothing ELSE want[r]]
  /\ chunks' = [r \in Recorders |-> IF r \in R THEN 0 ELSE chunks[r]]
Destroys(R) ==
  /\ (\E r \in R : chunks[r] > 0) => pending = <<>>
  /\ disk' = {c \in disk : c.of \notin R}
  /\ mem' = [r \in Recorders |-> IF r \in R THEN Nothing ELSE mem[r]]
  /\ want' = [r \in Recorders |-> IF r \in R THEN Nothing ELSE want[r]]
  /\ chunks' = [r \in Recorders |-> IF r \in R THEN 0 ELSE chunks[r]]

OnTimerStop(r) ==
  /\ state[r] = "recording"
  /\ Destroys({r})
  /\ state' = [state EXCEPT ![r] = "gone"]
  /\ UNCHANGED <<player, table, stop, pending, replay>>

\* CopyWeaponsToRecorder looks at the ticks in memory.
CopyWeapons(R) ==
  table' = [r \in Recorders |->
    IF r \in R THEN {t.weapon : t \in ToSet(mem[r].ticks)} ELSE table[r]]

\* RecordCommand: a batch may repeat commands that were received before.
Accepted_All(lo, hi) == [i \in 1..(hi - lo + 1) |-> lo + i - 1]  \* mutant
Accepted(lo, hi) ==
  LET first == IF lo > last THEN lo ELSE last + 1
  IN  [i \in 1..(hi - first + 1) |-> first + i - 1]

RecordCommand(lo, hi) ==
  LET new == [i \in DOMAIN Accepted(lo, hi) |-> [n |-> Accepted(lo, hi)[i], tick |-> now]]
      pushed(d) == PushCmds(d, new, Accepted(lo, hi))
  IN  /\ here /\ lo <= hi /\ new # <<>>
      /\ ring' = [ring EXCEPT !.cmds = Suffix(@ \o new, RingCmds),
                              !.csubs = Suffix(@ \o Accepted(lo, hi), RingCmds)]
      /\ mem'  = [r \in Recorders |-> IF r \in Active THEN pushed(mem[r]) ELSE mem[r]]
      /\ want' = [r \in Recorders |-> IF r \in Active THEN pushed(want[r]) ELSE want[r]]
      /\ last' = hi
      /\ UNCHANGED <<now, here, state, chunks, table, stop, pending, disk, replay>>

------------------------------------------------------------------------------
(* OnPhysicsSimulatePost. *)

Due == {r \in Recorders : state[r] = "breather" /\ now >= stop[r]}

\* A dead player's tick only checks the recorders.
DeadTick ==
  /\ here /\ now < MaxTick
  /\ now' = now + 1
  /\ state' = [r \in Recorders |-> IF r \in Due THEN "writing" ELSE state[r]]
  /\ CopyWeapons(Due)
  /\ UNCHANGED <<last, ring, here, mem, chunks, stop, pending, disk, replay, want>>

\* The tick data is pushed, and flushed where that is due, then its subtick
\* data.  The checkpoints CheckCheckpoints enters after that are in a structure
\* the next OnPhysicsSimulate clears: they reach no tick, and are left out.
Tick(w) ==
  LET tick == [n |-> now, weapon |-> w]
      R == Active \ Due
      flushed == {r \in R : Flushes(PushTick(mem[r], tick))}
      write(r) == [of |-> r, i |-> chunks[r], data |-> ChunkOf(PushTick(mem[r], tick))]
  IN  /\ here /\ now < MaxTick
      /\ now' = now + 1
      /\ state' = [r \in Recorders |-> IF r \in Due THEN "writing" ELSE state[r]]
      /\ CopyWeapons(Due)
      /\ ring' = [ring EXCEPT !.ticks = Suffix(Append(@, tick), RingTicks),
                              !.subs = Suffix(Append(@, now), RingTicks)]
      /\ mem' = [r \in Recorders |->
           CASE r \in flushed -> PushSubs(FlushChunkToDisk(PushTick(mem[r], tick)), now)
             [] r \in R \ flushed -> PushSubs(PushTick(mem[r], tick), now)
             [] OTHER -> mem[r]]
      /\ chunks' = [r \in Recorders |-> IF r \in flushed THEN chunks[r] + 1 ELSE chunks[r]]
      /\ \E order \in SetToSeqs(flushed) :
           pending' = pending \o [k \in DOMAIN order |-> write(order[k])]
      /\ want' = [r \in Recorders |->
           IF r \in R THEN PushSubs(PushTick(want[r], tick), now) ELSE want[r]]
      /\ UNCHANGED <<last, here, stop, disk, replay>>

------------------------------------------------------------------------------
(* Saving and dropping what is recorded. *)

\* !rpsave and the anticheat write the circular recorder as a replay.
SaveRing(r) ==
  /\ here /\ state[r] = "none"
  /\ state' = [state EXCEPT ![r] = "writing"]
  /\ mem' = [mem EXCEPT ![r] = CopyRing(RingTicks)]
  /\ want' = [want EXCEPT ![r] = CopyRing(RingTicks)]
  /\ table' = [table EXCEPT ![r] = {t.weapon : t \in ToSet(ring.ticks)}]
  /\ UNCHANGED <<player, chunks, stop, pending, disk, replay>>

\* OnClientDisconnect writes the runs that ended and drops the one that did not.
OnClientDisconnect ==
  LET ended   == {r \in Recorders : state[r] = "breather"}
      dropped == Active \ ended
  IN  /\ here /\ here' = FALSE
      /\ Destroys(dropped)
      /\ state' = [r \in Recorders |->
           IF r \in ended THEN "writing" ELSE IF r \in dropped THEN "gone" ELSE state[r]]
      /\ CopyWeapons(ended)
      /\ ring' = Nothing
      /\ UNCHANGED <<now, last, stop, pending, replay>>

\* Reset, when the map changes and for a player who joins: all is dropped.
Reset ==
  /\ Destroys(Active)
  /\ state' = [r \in Recorders |-> IF r \in Active THEN "gone" ELSE state[r]]
  /\ ring' = Nothing /\ last' = 0 /\ here' = TRUE
  /\ UNCHANGED <<now, table, stop, pending, replay>>

------------------------------------------------------------------------------
(* The other threads. *)

\* AsyncFileIO writes a chunk, or fails to and tells nobody.
WriteChunk ==
  /\ pending # <<>>
  /\ \E ok \in {TRUE, ~WriteMayFail} :
       disk' = IF ok THEN disk \cup {Head(pending)} ELSE disk
  /\ pending' = Tail(pending)
  /\ UNCHANGED <<player, recorders, replay, want>>

\* LoadFlushedChunks: the chunks that can be read, in order, then the rest.
Loaded(r) ==
  LET data(i) == LET found == {c \in disk : c.of = r /\ c.i = i}
                 IN  IF found = {} THEN Nothing ELSE (CHOOSE c \in found : TRUE).data
      part(i) == IF i <= chunks[r] THEN data(i - 1) ELSE mem[r]
      parts == 1..chunks[r] + 1
  IN  [ticks |-> FlattenSeq([i \in parts |-> part(i).ticks]),
       subs  |-> FlattenSeq([i \in parts |-> part(i).subs]),
       cmds  |-> FlattenSeq([i \in parts |-> part(i).cmds]),
       csubs |-> FlattenSeq([i \in parts |-> part(i).csubs])]

WriteToMemory_WithoutDrain(r) ==  \* mutant
  /\ state[r] = "writing"
  /\ replay' = [replay EXCEPT ![r] = Loaded(r)]
  /\ state' = [state EXCEPT ![r] = "written"]
  /\ UNCHANGED <<player, mem, chunks, table, stop, pending, disk, want>>
WriteToMemory(r) ==
  /\ state[r] = "writing"
  /\ chunks[r] > 0 => pending = <<>>
  /\ replay' = [replay EXCEPT ![r] = Loaded(r)]
  /\ state' = [state EXCEPT ![r] = "written"]
  /\ UNCHANGED <<player, mem, chunks, table, stop, pending, disk, want>>

\* The thread destroys the recorder.
Release(r) ==
  /\ state[r] = "written"
  /\ Destroys({r})
  /\ state' = [state EXCEPT ![r] = "gone"]
  /\ replay' = [replay EXCEPT ![r] = Nothing]
  /\ table' = [table EXCEPT ![r] = {}] /\ stop' = [stop EXCEPT ![r] = 0]
  /\ UNCHANGED <<player, pending>>

Next ==
  /\ \/ \E r \in bound.recorders :
          OnTimerStart(r) \/ OnTimerEnd(r) \/ OnTimerStop(r) \/ SaveRing(r)
          \/ WriteToMemory(r) \/ Release(r)
     \/ \E lo, hi \in 1..bound.cmds : RecordCommand(lo, hi)
     \/ now < bound.ticks /\ (DeadTick \/ \E w \in Weapons : Tick(w))
     \/ OnClientDisconnect \/ Reset
     \/ WriteChunk
  /\ UNCHANGED bound

Spec == Init /\ [][Next]_vars

------------------------------------------------------------------------------
(* Properties *)

Written(r) == state[r] = "written"

Numbers(s) == [i \in DOMAIN s |-> s[i].n]

OnDisk(r) == \A i \in 1..chunks[r] : \E c \in disk : c.of = r /\ c.i = i - 1

\* A replay none of whose chunks the disk refused holds every tick and command
\* pushed to its recorder, in order, through any number of flushes.
ReplayComplete ==
  \A r \in Recorders : Written(r) /\ OnDisk(r) =>
    Numbers(replay[r].ticks) = Numbers(want[r].ticks) /\ replay[r].cmds = want[r].cmds

\* The commands of a replay are in the order they were given, without those the
\* client sent again, and each has its own subtick moves, chunk missing or not.
CommandsMatch ==
  \A r \in Recorders : Written(r) =>
    /\ \A i, j \in DOMAIN replay[r].cmds : i < j => replay[r].cmds[i].n < replay[r].cmds[j].n
    /\ replay[r].csubs = Numbers(replay[r].cmds)

\* No temporary chunk of a recorder that was destroyed is, or will be, on the disk.
NoChunkLeft ==
  \A r \in Recorders : state[r] = "gone" => \A c \in disk \cup ToSet(pending) : c.of # r

==============================================================================
