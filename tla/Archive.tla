------------------------------- MODULE Archive -------------------------------
(***************************************************************************)
(* ReplayWatcher: a thread that lists the replays on the disk every five     *)
(* seconds for the game's thread, marks those to archive with the time, and  *)
(* removes a marked one when its retention is over.                          *)
(*                                                                          *)
(* A scan is one step: only the watcher removes a replay, and a file that    *)
(* appears while the directory is read is seen now or in the next scan.      *)
(* Time is counted in retentions.                                            *)
(***************************************************************************)
EXTENDS Naturals, FiniteSets, FiniteSetsExt

CONSTANTS
  Files,      \* replay files, each with the UUID of its replay
  Header,     \* [Files -> headers]: kind, player, group, time, stamp, styled, reported
  MaxPer,     \* maxRunReplaysPerGroup, at least 2
  MaxManual,  \* maxManualReplays, at least 2
  MaxNow,     \* bound: retentions that go by
  MaxStops    \* bound: times the watcher is stopped, by an unload or a crash

NotArchived == MaxNow + 1

\* group stands for the map, the mode and the course of a run, time for the
\* run's time and stamp for when the replay was written.
ASSUME ArchiveAssumption ==
  /\ MaxPer \in Nat /\ MaxManual \in Nat /\ MaxNow \in Nat /\ MaxStops \in Nat
  /\ \A f \in Files :
       /\ Header[f].kind \in {"run", "manual", "cheater"}
       /\ Header[f].time \in Nat /\ Header[f].stamp \in Nat
       /\ Header[f].styled \in BOOLEAN /\ Header[f].reported \in BOOLEAN
  /\ \A f, g \in Files : f # g => Header[f].time # Header[g].time /\ Header[f].stamp # Header[g].stamp

VARIABLES
  disk,           \* the replays in BHOP_REPLAY_PATH
  arrived,        \* those that have ever been: a UUID is not used twice
  archivedIndex,  \* when each was marked
  savedIndex,     \* the same in archive_index.txt
  archiveDirty,
  listed,         \* cheaterReplays, runReplays and manualReplays
  now,
  watching,       \* the watcher's thread: off, starting, or in its loop
  stops

watchVars == <<disk, arrived, archivedIndex, savedIndex, archiveDirty, listed, now, watching, stops>>

ArchiveInit(onDisk) ==
  /\ disk = onDisk /\ arrived = onDisk
  /\ archivedIndex = [f \in Files |-> NotArchived] /\ savedIndex = archivedIndex
  /\ archiveDirty = FALSE
  /\ listed = {} /\ now = 0 /\ watching = "off" /\ stops = 0

------------------------------------------------------------------------------
OfKind(fs, kind) == {f \in fs : Header[f].kind = kind}
Marked(f) == archivedIndex[f] # NotArchived

\* Unstyled runs of the same player on the same map, mode and course.
SameGroup(f, g) ==
  ~Header[g].styled /\ Header[g].player = Header[f].player /\ Header[g].group = Header[f].group

\* A reported cheater's replay, a styled run and a run that MaxPer of its
\* group are faster than.
Faster(f, fs) == {g \in OfKind(fs, "run") : SameGroup(f, g) /\ Header[g].time < Header[f].time}
ToArchive_OneLess(fs) ==   \* mutant: one run too few is kept
  {f \in OfKind(fs, "run") : Cardinality(Faster(f, fs)) + 1 >= MaxPer}
ToArchive(fs) ==
  {f \in OfKind(fs, "cheater") : Header[f].reported} \cup
  {f \in OfKind(fs, "run") : Header[f].styled \/ Cardinality(Faster(f, fs)) >= MaxPer}

\* Each player keeps the newest manual replays.
Newer(f, fs) ==
  {g \in OfKind(fs, "manual") : Header[g].player = Header[f].player /\ Header[g].stamp > Header[f].stamp}
TooMany(fs) == {f \in OfKind(fs, "manual") : Cardinality(Newer(f, fs)) >= MaxManual}

\* The age is counted from the mark that was found, not from one of this scan.
Expired(f) == Marked(f) /\ now - archivedIndex[f] >= 1

ScanReplays ==
  LET gone == {f \in disk : Expired(f)}
      kept == disk \ gone
      new  == {f \in ToArchive(kept) : ~Marked(f)}
  IN  /\ archivedIndex' = [f \in Files |-> IF f \in new THEN now
                                           ELSE IF f \in gone THEN NotArchived ELSE archivedIndex[f]]
      /\ disk' = kept \ TooMany(kept)
      /\ listed' = disk'

\* Start and LoadArchiveIndex, in a new process.
Start ==
  /\ watching = "off"
  /\ watching' = "starting"
  /\ archivedIndex' = savedIndex
  /\ archiveDirty' = FALSE
  /\ listed' = {}
  /\ UNCHANGED <<disk, arrived, savedIndex, now, stops>>

\* The first scan saves nothing.
FirstScan ==
  /\ watching = "starting"
  /\ watching' = "loop"
  /\ ScanReplays
  /\ archiveDirty' = (archivedIndex' # archivedIndex)
  /\ UNCHANGED <<arrived, savedIndex, now, stops>>

\* Every five seconds: a scan, and the index saved if it changed.
WatchLoop ==
  /\ watching = "loop"
  /\ ScanReplays
  /\ savedIndex' = IF archiveDirty \/ archivedIndex' # archivedIndex THEN archivedIndex' ELSE savedIndex
  /\ archiveDirty' = FALSE
  /\ UNCHANGED <<arrived, now, watching, stops>>

\* Stop, or a crash of the server: what was not saved is lost.
StopWatching ==
  /\ watching = "loop"
  /\ stops < MaxStops
  /\ stops' = stops + 1
  /\ watching' = "off"
  /\ UNCHANGED <<disk, arrived, archivedIndex, savedIndex, archiveDirty, listed, now>>

\* A replay is written by the run submission, a command or the anticheat.
Arrives ==
  /\ \E f \in Files \ arrived : disk' = disk \cup {f} /\ arrived' = arrived \cup {f}
  /\ UNCHANGED <<archivedIndex, savedIndex, archiveDirty, listed, now, watching, stops>>

\* What the watcher removed was not worth keeping, by what is left: MaxPer faster
\* runs of the same player, map, mode and course, MaxManual newer replays of the
\* same player.  It rests on every scan since the run was marked, and on the
\* index that survives a restart.
Spared(f, fs) ==
  CASE Header[f].kind = "run"    -> ~Header[f].styled => Cardinality(Faster(f, fs)) >= MaxPer
    [] Header[f].kind = "manual" -> Cardinality(Newer(f, fs)) >= MaxManual
    [] OTHER                     -> Header[f].reported

TimePasses ==
  /\ now < MaxNow
  /\ now' = now + 1
  /\ UNCHANGED <<disk, arrived, archivedIndex, savedIndex, archiveDirty, listed, watching, stops>>
==============================================================================
