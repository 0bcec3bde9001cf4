----------------------------- MODULE AsyncFileIO -----------------------------
(***************************************************************************)
(* AsyncFileIO: one thread that renames, reads and writes files for the     *)
(* game's thread, which queues tasks and takes their results once a frame.  *)
(* The threads that serialize replays wait for the queue to be drained, and *)
(* so does the game's thread when it drops a long recording.                *)
(*                                                                          *)
(* Each critical section is one step.  A thread that waits on a condition   *)
(* variable sleeps until it is notified, or wakes for nothing.  The fences  *)
(* between an unlock and the notification after it are steps too.           *)
(***************************************************************************)
EXTENDS Naturals, Sequences, SequencesExt

CONSTANTS
  Tasks,       \* the tasks, each queued once
  Answered,    \* those with a callback: reads, and renames that ask
  Threads,     \* the threads that serialize replays
  Game,        \* the game's thread
  NoTask

Callers == Threads \cup {Game}

VARIABLES
  taskQueue, task, processing, terminate,  \* task: what the worker holds
  completed,                               \* the results RunFrame will take
  worker,   \* the worker's place in ThreadRun
  pc,       \* pc[c]: each caller's place in its call
  done,     \* auxiliary: the tasks processed, in order
  delivered,  \* auxiliary: the callbacks run, in order
  calls     \* auxiliary: calls[c], 0 or one more than the tasks c's Drain waits for

vars == <<taskQueue, task, processing, terminate, completed, worker, pc, done, delivered, calls>>

TypeOK ==
  /\ taskQueue \in Seq(Tasks)
  /\ task \in Tasks \cup {NoTask}
  /\ processing \in BOOLEAN /\ terminate \in BOOLEAN
  /\ completed \in Seq(Tasks)
  /\ worker \in {"waiting", "asleep", "processing", "processed", "notifying", "exited"}
  /\ pc \in [Callers -> {"idle", "notify", "draining", "sleeping", "stopping", "joining", "stopped"}]
  /\ done \in Seq(Tasks)
  /\ delivered \in Seq(Tasks)
  /\ calls \in [Callers -> Nat]

Init ==
  /\ taskQueue = <<>> /\ task = NoTask /\ processing = FALSE /\ terminate = FALSE
  /\ completed = <<>>
  /\ worker = "waiting"
  /\ pc = [c \in Callers |-> "idle"]
  /\ done = <<>> /\ delivered = <<>> /\ calls = [c \in Callers |-> 0]

Holding == IF task = NoTask THEN <<>> ELSE <<task>>
Goes(c, from, to) == pc[c] = from /\ pc' = [pc EXCEPT ![c] = to]

------------------------------------------------------------------------------
(* The game's thread. *)

\* EnqueueTask, under the lock; the worker is notified after it.
Enqueue(t) ==
  /\ Goes(Game, "idle", "notify")
  /\ t \notin ToSet(done \o Holding \o taskQueue)
  /\ taskQueue' = Append(taskQueue, t)
  /\ UNCHANGED <<task, processing, terminate, completed, worker, done, delivered, calls>>

Wakes == worker' = IF worker = "asleep" THEN "waiting" ELSE worker

EnqueueNotifies ==
  /\ Goes(Game, "notify", "idle")
  /\ Wakes
  /\ UNCHANGED <<taskQueue, task, processing, terminate, completed, done, delivered, calls>>

\* RunFrame takes the results and runs their callbacks.
RunFrame ==
  /\ pc[Game] = "idle" /\ completed # <<>>
  /\ delivered' = delivered \o completed
  /\ completed' = <<>>
  /\ UNCHANGED <<taskQueue, task, processing, terminate, worker, pc, done, calls>>

\* Stop: terminate is set under the lock, the worker notified and joined.
Stop ==
  /\ Goes(Game, "idle", "stopping")
  /\ terminate' = TRUE
  /\ UNCHANGED <<taskQueue, task, processing, completed, worker, done, delivered, calls>>

StopNotifies ==
  /\ Goes(Game, "stopping", "joining")
  /\ Wakes
  /\ UNCHANGED <<taskQueue, task, processing, terminate, completed, done, delivered, calls>>

StopJoins ==
  /\ Goes(Game, "joining", "stopped")
  /\ worker = "exited"
  /\ UNCHANGED <<taskQueue, task, processing, terminate, completed, worker, done, delivered, calls>>

------------------------------------------------------------------------------
(* Drain, by any caller. *)

Drained_QueueOnly == taskQueue = <<>>  \* mutant
Drained == taskQueue = <<>> /\ ~processing

DrainCalled(c) ==
  /\ Goes(c, "idle", "draining")
  /\ calls' = [calls EXCEPT ![c] = Len(done) + Len(Holding) + Len(taskQueue) + 1]
  /\ UNCHANGED <<taskQueue, task, processing, terminate, completed, worker, done, delivered>>

DrainReturns(c) ==
  /\ Drained
  /\ Goes(c, "draining", "idle")
  /\ calls' = [calls EXCEPT ![c] = 0]
  /\ UNCHANGED <<taskQueue, task, processing, terminate, completed, worker, done, delivered>>

DrainSleeps(c) ==
  /\ ~Drained
  /\ Goes(c, "draining", "sleeping")
  /\ UNCHANGED <<taskQueue, task, processing, terminate, completed, worker, done, delivered, calls>>

\* A wait may end without a notification.
DrainWakes(c) ==
  /\ Goes(c, "sleeping", "draining")
  /\ UNCHANGED <<taskQueue, task, processing, terminate, completed, worker, done, delivered, calls>>

------------------------------------------------------------------------------
(* ThreadRun. *)

Sleeps ==
  /\ worker = "waiting"
  /\ ~terminate /\ taskQueue = <<>>
  /\ worker' = "asleep"
  /\ UNCHANGED <<taskQueue, task, processing, terminate, completed, pc, done, delivered, calls>>

WorkerWakes ==
  /\ worker = "asleep"
  /\ worker' = "waiting"
  /\ UNCHANGED <<taskQueue, task, processing, terminate, completed, pc, done, delivered, calls>>

Takes ==
  /\ worker = "waiting"
  /\ taskQueue # <<>>
  /\ task' = Head(taskQueue)
  /\ taskQueue' = Tail(taskQueue)
  /\ processing' = TRUE
  /\ worker' = "processing"
  /\ UNCHANGED <<terminate, completed, pc, done, delivered, calls>>

\* Leaves with an empty queue, so that the flush after the loop has no task.
Exits ==
  /\ worker = "waiting"
  /\ terminate /\ taskQueue = <<>>
  /\ worker' = "exited"
  /\ UNCHANGED <<taskQueue, task, processing, terminate, completed, pc, done, delivered, calls>>

Processes ==
  /\ worker = "processing"
  /\ done' = Append(done, task)
  /\ task' = NoTask
  /\ completed' = IF task \in Answered THEN Append(completed, task) ELSE completed
  /\ worker' = "processed"
  /\ UNCHANGED <<taskQueue, processing, terminate, pc, delivered, calls>>

Clears ==
  /\ worker = "processed"
  /\ processing' = FALSE
  /\ worker' = "notifying"
  /\ UNCHANGED <<taskQueue, task, terminate, completed, pc, done, delivered, calls>>

Notifies_One ==  \* mutant
  /\ worker = "notifying" /\ worker' = "waiting"
  /\ LET sleepers == {c \in Callers : pc[c] = "sleeping"}
     IN  IF sleepers = {} THEN UNCHANGED pc
         ELSE \E c \in sleepers : pc' = [pc EXCEPT ![c] = "draining"]
  /\ UNCHANGED <<taskQueue, task, processing, terminate, completed, done, delivered, calls>>
Notifies ==
  /\ worker = "notifying"
  /\ pc' = [c \in Callers |-> IF pc[c] = "sleeping" THEN "draining" ELSE pc[c]]
  /\ worker' = "waiting"
  /\ UNCHANGED <<taskQueue, task, processing, terminate, completed, done, delivered, calls>>

Worker == Sleeps \/ Takes \/ Exits \/ Processes \/ Clears \/ Notifies

GameThread == EnqueueNotifies \/ RunFrame \/ StopNotifies \/ StopJoins

------------------------------------------------------------------------------
(* Properties *)

\* The worker's loop and Drain keep the promise of FileQueue, with a task in
\* hand counted as still queued until it is processed.
FQ == INSTANCE FileQueue WITH queue <- Holding \o taskQueue, stopped <- pc[Game] = "stopped"
KeepsQueue == FQ!Spec
==============================================================================
