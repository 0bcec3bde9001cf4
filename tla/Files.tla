-------------------------------- MODULE Files --------------------------------
(***************************************************************************)
(* Files: the replay file writer and the file IO together, from the game's  *)
(* frames to the unload.  The thread of a long recording waits for the file *)
(* IO before it reads the chunks back, and again before it removes them:    *)
(* at the end of its serialization when that wrote the replay, and after    *)
(* the thread counted itself out when it did not.  At the unload the writer *)
(* is stopped, then the file IO, whose Drain the last of the threads may    *)
(* still be in: what becomes of it then is undefined, so that it may never  *)
(* come back.                                                               *)
(***************************************************************************)
EXTENDS ReplayFileWriter, SequencesExt

CONSTANTS
  Tasks,     \* the tasks of the file IO
  Answered,  \* those with a callback: reads, and renames that ask
  Chunk,     \* Chunk[j]: the task that writes what the recording j flushed
  Game, NoTask

ASSUME FilesAssumption ==
  /\ Answered \subseteq Tasks /\ NoTask \notin Tasks /\ Game \notin Jobs
  /\ Chunk \in [Long -> Tasks \ Answered]

VARIABLES
  taskQueue, task, processing, terminate, results, worker, pc, done, answers, calls,
  drains     \* auxiliary: drains[j]: how often the thread of j has drained in this place

IO == INSTANCE AsyncFileIO WITH Threads <- Long, completed <- results, delivered <- answers

ioVars    == <<taskQueue, task, processing, terminate, results, worker, pc, done, answers, calls>>
filesVars == <<vars, ioVars, drains>>

FilesInit == Init /\ IO!Init /\ drains = [j \in Jobs |-> 0]

InFrame == game = "playing" /\ pc[Game] = "idle"
Deleted == pc[Game] = "stopped"
Queued  == ToSet(done \o IO!Holding \o taskQueue)

------------------------------------------------------------------------------
(* The game's thread. *)

\* A recording is queued when it is over, after the chunks it flushed.
QueueReplay(j) ==
  /\ InFrame /\ Queue(j)
  /\ j \in Long => Chunk[j] \in Queued
  /\ UNCHANGED <<ioVars, drains>>

QueueTask(t) == InFrame /\ IO!Enqueue(t) /\ UNCHANGED <<vars, drains>>

\* A frame runs the callbacks of the writer, and then those of the file IO.
WriterFrame == InFrame /\ RunFrame /\ UNCHANGED <<ioVars, drains>>
IOFrame     == game = "playing" /\ IO!RunFrame /\ UNCHANGED <<vars, drains>>

\* A long recording is dropped.
DropRecording == InFrame /\ IO!DrainCalled(Game) /\ UNCHANGED <<vars, drains>>

GameWaits ==
  /\ IO!EnqueueNotifies \/ IO!DrainReturns(Game) \/ IO!DrainSleeps(Game)
  /\ UNCHANGED <<vars, drains>>

\* Plugin::Unload.
StopWriter  == InFrame /\ Stop /\ UNCHANGED <<ioVars, drains>>
WriterStops == StopStep /\ UNCHANGED <<ioVars, drains>>
StopIO      == game = "unloaded" /\ IO!Stop /\ UNCHANGED <<vars, drains>>
IOStops     == (IO!StopNotifies \/ IO!StopJoins) /\ UNCHANGED <<vars, drains>>

------------------------------------------------------------------------------
(* The threads of the writer. *)

\* How often a thread drains before it is done with a place.
Needs(j) ==
  CASE j \in Long /\ thread[j] = "working"                    -> IF j \in ToFile THEN 1..2 ELSE {1}
    [] j \in Long /\ thread[j] = "releasing" /\ j \in files   -> {1}
    [] OTHER                                                  -> {0}

DrainCalled(j) ==
  /\ ~Deleted /\ \E n \in Needs(j) : drains[j] < n
  /\ IO!DrainCalled(j)
  /\ UNCHANGED <<vars, drains>>

DrainEnds(j) ==
  \/ IO!DrainReturns(j) /\ drains' = [drains EXCEPT ![j] = @ + 1] /\ UNCHANGED vars
  \/ IO!DrainSleeps(j) /\ UNCHANGED <<vars, drains>>

\* WriteToFile drains a second time if it could write.
ThreadAdvances(j) ==
  /\ j \in Long => pc[j] = "idle"
  /\ ThreadStep(j)
  /\ Deleted \/ drains[j] \in Needs(j)
  /\ (thread[j] = "working" /\ j \in Long) => (drains[j] = 2 <=> j \notin files')
  /\ drains' = [drains EXCEPT ![j] = 0]
  /\ UNCHANGED ioVars

Thread(j) == ThreadAdvances(j) \/ (j \in Long /\ (DrainCalled(j) \/ DrainEnds(j)))

\* A wait may end without a notification.
WakesForNothing ==
  \/ StopWakes /\ UNCHANGED <<ioVars, drains>>
  \/ (IO!WorkerWakes \/ \E c \in IO!Callers : IO!DrainWakes(c)) /\ UNCHANGED <<vars, drains>>

IOWorker == IO!Worker /\ UNCHANGED <<vars, drains>>

FilesNext ==
  \/ \E j \in Jobs : QueueReplay(j) \/ Thread(j)
  \/ \E t \in Tasks : QueueTask(t)
  \/ WriterFrame \/ IOFrame \/ DropRecording \/ GameWaits
  \/ StopWriter \/ WriterStops \/ StopIO \/ IOStops
  \/ IOWorker \/ WakesForNothing

\* Threads that can run do, until the file IO is deleted under them; and every
\* frame runs the callbacks, however often the game's thread waits in between.
\* Nobody needs to queue, to drop, to unload or to wake for nothing.
FilesFairness ==
  /\ WF_filesVars(IOWorker)
  /\ \A j \in Jobs : WF_filesVars(~Deleted /\ Thread(j))
  /\ WF_filesVars(GameWaits \/ IOStops \/ StopIO)
  /\ WF_filesVars(WriterStops)
  /\ SF_filesVars(WriterFrame) /\ SF_filesVars(IOFrame)

FilesSpec == FilesInit /\ [][FilesNext]_filesVars /\ FilesFairness

------------------------------------------------------------------------------
(* Properties *)

\* The file IO keeps its promise to all of them: in order, nothing left undone
\* when it is stopped, and a Drain only returns when what was queued is done.
KeepsQueue == IO!KeepsQueue

\* A Drain returns, whoever else waits: no wakeup is lost; and once the writer
\* is stopped the file IO stops too.
WaitsReturn ==
  /\ \A c \in IO!Callers : pc[c] \in {"draining", "sleeping"} ~> (pc[c] = "idle" \/ Deleted)
  /\ game = "unloaded" ~> Deleted

\* What was queued is finished with.  A replay's temporary files are removed,
\* even when it could not be written, and the callback of a replay or a task
\* runs, unless the plugin is unloaded first.
QueuedIsFinished ==
  /\ \A j \in Jobs : thread[j] = "working" ~>
       /\ j \notin files \/ Deleted
       /\ j \in Quiet \/ game # "playing" \/ \E i \in DOMAIN delivered : delivered[i].job = j
  /\ \A t \in Answered : t \in ToSet(taskQueue) ~> (t \in ToSet(answers) \/ game # "playing")
==============================================================================
