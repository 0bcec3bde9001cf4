-------------------------- MODULE ReplayFileWriter --------------------------
(***************************************************************************)
(* ReplayFileWriter: a thread for each replay serializes it, hands its      *)
(* callback to the game's thread, counts itself out of m_activeThreads and  *)
(* wakes Stop if it was the last; then its recorder is destroyed, which     *)
(* removes what it had flushed to the disk.  The game's thread runs the     *)
(* callbacks once a frame; at unload it calls Stop and destroys the writer  *)
(* and AsyncFileIO.                                                         *)
(*                                                                          *)
(* The count is atomic but not kept under m_shutdownMutex: Stop's reading   *)
(* of it and its going to sleep are two steps to the threads.               *)
(***************************************************************************)
EXTENDS Integers, Sequences, FiniteSets

CONSTANTS
  Jobs,    \* the replays, each queued at most once
  ToFile,  \* those QueueWriteToFile writes to the disk
  Quiet,   \* those of them queued without a callback, as at a disconnect
  Long     \* the recordings that flushed chunks to temporary files

ASSUME WriterAssumption ==
  IsFiniteSet(Jobs) /\ ToFile \subseteq Jobs /\ Quiet \subseteq ToFile /\ Long \subseteq Jobs

VARIABLES
  active,     \* m_activeThreads
  thread,     \* thread[j]: where the thread of j is
  result,     \* result[j]: what its serialization returned
  completed,  \* m_completedCallbacks
  delivered,  \* auxiliary: the callbacks run, in order
  files,      \* the recordings whose temporary files exist
  game        \* where the game's thread is

vars == <<active, thread, result, completed, delivered, files, game>>

Places  == {"none", "working", "pushing", "finishing", "notifying", "releasing", "ended"}
Counted == {"working", "pushing", "finishing"}
Callback == [job : Jobs, ok : BOOLEAN]

TypeOK ==
  /\ active \in Nat
  /\ thread \in [Jobs -> Places]
  /\ result \in [Jobs -> BOOLEAN]
  /\ completed \in Seq(Callback)
  /\ delivered \in Seq(Callback)
  /\ files \subseteq Long
  /\ game \in {"playing", "checking", "entering", "sleeping", "stopped", "unloaded"}

Init ==
  /\ active = 0
  /\ thread = [j \in Jobs |-> "none"] /\ result = [j \in Jobs |-> FALSE]
  /\ completed = <<>> /\ delivered = <<>>
  /\ files = Long
  /\ game = "playing"

Moves(j, from, to) == thread[j] = from /\ thread' = [thread EXCEPT ![j] = to]

------------------------------------------------------------------------------
(* The game's thread. *)

Queue_CountedLater(j) ==  \* mutant
  /\ game = "playing" /\ Moves(j, "none", "working")
  /\ active' = IF thread = [k \in Jobs |-> "none"] THEN active ELSE active + 1
  /\ UNCHANGED <<result, completed, delivered, files, game>>
\* QueueWrite and QueueWriteToFile: the thread is counted before it runs.
Queue(j) ==
  /\ game = "playing"
  /\ Moves(j, "none", "working")
  /\ active' = active + 1
  /\ UNCHANGED <<result, completed, delivered, files, game>>

RunFrame ==
  /\ game = "playing" /\ completed # <<>>
  /\ delivered' = delivered \o completed
  /\ completed' = <<>>
  /\ UNCHANGED <<active, thread, result, files, game>>

GameGoes(from, to) ==
  /\ game = from /\ game' = to
  /\ UNCHANGED <<active, thread, result, completed, delivered, files>>

\* Stop: reads the count; sleeps if a thread is left; reads it again if woken.
Stop       == GameGoes("playing", "checking")
StopLeaves == active = 0 /\ GameGoes("checking", "stopped")
StopEnters == active # 0 /\ GameGoes("checking", "entering")
StopSleeps == GameGoes("entering", "sleeping")
StopWakes  == GameGoes("sleeping", "checking")  \* for nothing

\* Shutdown deletes the writer, and the unload goes on to AsyncFileIO::Cleanup.
Unload == GameGoes("stopped", "unloaded")

------------------------------------------------------------------------------
(* The thread of j. *)

\* WriteToMemory returns true; WriteToFile may fail to write, and removes the
\* temporary files when it did not.
Work(j) ==
  /\ Moves(j, "working", IF j \in Quiet THEN "finishing" ELSE "pushing")
  /\ \E ok \in BOOLEAN :
       /\ j \notin ToFile => ok
       /\ result' = [result EXCEPT ![j] = ok]
       /\ files' = IF j \in ToFile /\ ok THEN files \ {j} ELSE files
  /\ UNCHANGED <<active, completed, delivered, game>>

Push_OnSuccess(j) ==  \* mutant
  /\ Moves(j, "pushing", "finishing")
  /\ completed' = IF result[j] THEN Append(completed, [job |-> j, ok |-> TRUE]) ELSE completed
  /\ UNCHANGED <<active, result, delivered, files, game>>
Push(j) ==
  /\ Moves(j, "pushing", "finishing")
  /\ completed' = Append(completed, [job |-> j, ok |-> result[j]])
  /\ UNCHANGED <<active, result, delivered, files, game>>

CountOut(j) ==
  /\ Moves(j, "finishing", IF active = 1 THEN "notifying" ELSE "releasing")
  /\ active' = active - 1
  /\ UNCHANGED <<result, completed, delivered, files, game>>

Notify(j) ==
  /\ Moves(j, "notifying", "releasing")
  /\ game' = IF game = "sleeping" THEN "checking" ELSE game
  /\ UNCHANGED <<active, result, completed, delivered, files>>

\* The thread's function is destroyed with its recorder: CleanupTempFiles.
Release(j) ==
  /\ Moves(j, "releasing", "ended")
  /\ files' = files \ {j}
  /\ UNCHANGED <<active, result, completed, delivered, game>>

ThreadStep(j) == Work(j) \/ Push(j) \/ CountOut(j) \/ Notify(j) \/ Release(j)
StopStep == StopLeaves \/ StopEnters \/ StopSleeps \/ Unload

Next ==
  \/ \E j \in Jobs : Queue(j) \/ ThreadStep(j)
  \/ RunFrame \/ Stop \/ StopWakes
  \/ StopStep

Spec == Init /\ [][Next]_vars

------------------------------------------------------------------------------
(* Properties *)

\* Stop does not return while a replay is being serialized or has still to be
\* handed over, so the writer is not destroyed under a thread at work.
StopWaits == game \in {"stopped", "unloaded"} => \A j \in Jobs : thread[j] \notin Counted
==============================================================================
