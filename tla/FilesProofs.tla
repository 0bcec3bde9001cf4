----------------------------- MODULE FilesProofs -----------------------------
(***************************************************************************)
(* The replay file writer, the file IO, the coding of what a file holds, the *)
(* watcher of the files and the bot that plays them, for any replays and     *)
(* tasks.                                                                    *)
(*                                                                           *)
(* Stop waits for every thread that serializes a replay.  The invariant is   *)
(* that m_activeThreads is the number of threads that have not counted       *)
(* themselves out, which every step of QueueWrite and of a thread keeps;     *)
(* Stop returns when the count is zero.                                      *)
(*                                                                           *)
(* The file IO implements FileQueue.  The invariant ties m_processing and    *)
(* the task in hand to the worker's place, bounds what each Drain waits for  *)
(* by what was queued, and says that the worker only leaves when the game's  *)
(* thread is past queueing, with nothing left.                               *)
(*                                                                           *)
(* What the writer leaves out of a section, the reader puts back: one tick   *)
(* or command after another, and so, by the least tick that were read        *)
(* otherwise, a whole section of ticks.  Hence the bot plays what was        *)
(* recorded (PlayInv).                                                       *)
(*                                                                           *)
(* What the watcher has marked, in memory or in the saved index, is worth    *)
(* less than what is on the disk (ArchiveInv): what arrives only adds to it, *)
(* and what is removed leaves as many that are better.                       *)
(*                                                                           *)
(* The time that the bot shows (TimeInv): the loops over the events are      *)
(* steps, one event each.  Played, the events up to the tick are behind and  *)
(* the time shown is the time since the run's start less the ticks it was    *)
(* held; a frame adds a tick to both sides.  Sought, total and since count   *)
(* the same ticks from the events alone, which takes that no tick is missing *)
(* while a run is on (Timeable).                                             *)
(***************************************************************************)
EXTENDS Files, Replays, FiniteSetTheorems, SequenceTheorems, WellFoundedInduction, TLAPS

CountedJobs == {j \in Jobs : thread[j] \in Counted}

IInv ==
  /\ TypeOK
  /\ active = Cardinality(CountedJobs)
  /\ game \in {"stopped", "unloaded"} => CountedJobs = {}

USE WriterAssumption

\* The counted threads are finitely many, so their number is a natural.
LEMMA CountedFinite == IsFiniteSet(CountedJobs) /\ Cardinality(CountedJobs) \in Nat
  <1>1. CountedJobs \subseteq Jobs  BY DEF CountedJobs
  <1> QED  BY <1>1, FS_Subset, FS_CardinalityType

\* A thread that moves between two counted places leaves the set as it is.
LEMMA CountedSame ==
  ASSUME TypeOK, NEW j \in Jobs, NEW to \in Places,
         thread' = [thread EXCEPT ![j] = to], thread[j] \in Counted <=> to \in Counted
  PROVE  CountedJobs' = CountedJobs
  BY DEF CountedJobs, TypeOK

\* Sequences of callbacks: what the steps make of them are such sequences.
LEMMA AppendCallback ==
  ASSUME NEW s \in Seq(Callback), NEW c \in Callback PROVE Append(s, c) \in Seq(Callback)
  OBVIOUS
LEMMA ConcatCallbacks ==
  ASSUME NEW s \in Seq(Callback), NEW t \in Seq(Callback) PROVE s \o t \in Seq(Callback)
  OBVIOUS

------------------------------------------------------------------------------

LEMMA InitIInv == Init => IInv
  <1> SUFFICES ASSUME Init PROVE IInv  OBVIOUS
  <1>1. TypeOK  BY DEF Init, TypeOK, Places
  <1>2. CountedJobs = {}  BY DEF Init, CountedJobs, Counted
  <1>3. Cardinality({}) = 0  BY FS_EmptySet
  <1> QED  BY <1>1, <1>2, <1>3 DEF Init, IInv

\* QueueWrite counts the thread it starts, and only while the game plays.
LEMMA QueueIInv == ASSUME IInv, NEW j \in Jobs, Queue(j) PROVE IInv'
  <1> USE DEF IInv
  <1>1. TypeOK'
    <2>1. active' \in Nat  BY DEF TypeOK, Queue
    <2>2. thread' \in [Jobs -> Places]  BY DEF TypeOK, Queue, Moves, Places
    <2> QED  BY <2>1, <2>2 DEF TypeOK, Queue
  <1>2. j \notin CountedJobs  BY DEF CountedJobs, Counted, Queue, Moves
  <1>3. CountedJobs' = CountedJobs \cup {j}
    BY DEF CountedJobs, Counted, Queue, Moves, TypeOK
  <1>4. Cardinality(CountedJobs') = Cardinality(CountedJobs) + 1
    BY <1>2, <1>3, CountedFinite, FS_AddElement
  <1>5. game' = "playing"  BY DEF Queue
  <1> QED  BY <1>1, <1>4, <1>5 DEF Queue

\* What the game's thread does leaves the threads alone, and it passes Stop
\* only when the count, and so the set, is empty.
LEMMA GameIInv ==
  ASSUME IInv, RunFrame \/ Stop \/ StopWakes \/ StopStep
  PROVE  IInv'
  <1> USE DEF IInv
  <1>0. thread' = thread /\ active' = active
    BY DEF RunFrame, Stop, StopWakes, StopStep, StopLeaves, StopEnters, StopSleeps, Unload, GameGoes
  <1>1. CountedJobs' = CountedJobs  BY <1>0 DEF CountedJobs
  <1>2. TypeOK'
    <2>1. CASE RunFrame
      <3>1. delivered' \in Seq(Callback)  BY <2>1, ConcatCallbacks DEF RunFrame, TypeOK
      <3>2. completed' \in Seq(Callback)  BY <2>1 DEF RunFrame
      <3> QED  BY <2>1, <3>1, <3>2 DEF RunFrame, TypeOK
    <2>2. CASE Stop \/ StopWakes \/ StopStep
      BY <2>2 DEF Stop, StopWakes, StopStep, StopLeaves, StopEnters, StopSleeps, Unload, GameGoes, TypeOK
    <2> QED  BY <2>1, <2>2
  <1>3. game' \in {"stopped", "unloaded"} => CountedJobs = {}
    <2>1. CASE RunFrame \/ Stop \/ StopWakes \/ StopEnters \/ StopSleeps
      BY <2>1 DEF RunFrame, Stop, StopWakes, StopEnters, StopSleeps, GameGoes
    <2>2. CASE StopLeaves
      BY <2>2, CountedFinite, FS_EmptySet DEF StopLeaves, GameGoes
    <2>3. CASE Unload  BY <2>3 DEF Unload, GameGoes
    <2> QED  BY <2>1, <2>2, <2>3 DEF StopStep
  <1> QED  BY <1>0, <1>1, <1>2, <1>3

\* A thread stays counted while it serializes and hands its callback over.
LEMMA WorkIInv == ASSUME IInv, NEW j \in Jobs, Work(j) \/ Push(j) PROVE IInv'
  <1> USE DEF IInv
  <1>0. game' = game /\ active' = active  BY DEF Work, Push
  <1>1. PICK to \in {"pushing", "finishing"} :
          thread' = [thread EXCEPT ![j] = to] /\ thread[j] \in {"working", "pushing"}
    BY DEF Work, Push, Moves
  <1>2. CountedJobs' = CountedJobs
    BY <1>1, CountedSame DEF Counted, Places
  <1>3. TypeOK'
    <2>1. thread' \in [Jobs -> Places]  BY <1>1 DEF TypeOK, Places
    <2>2. CASE Work(j)
      <3>1. result' \in [Jobs -> BOOLEAN] /\ files' \subseteq Long  BY <2>2 DEF Work, TypeOK
      <3> QED  BY <2>1, <2>2, <3>1 DEF Work, TypeOK
    <2>3. CASE Push(j)
      <3>1. [job |-> j, ok |-> result[j]] \in Callback  BY DEF TypeOK, Callback
      <3>2. completed' \in Seq(Callback)  BY <2>3, <3>1, AppendCallback DEF Push, TypeOK
      <3> QED  BY <2>1, <2>3, <3>2 DEF Push, TypeOK
    <2> QED  BY <2>2, <2>3
  <1> QED  BY <1>0, <1>2, <1>3

\* It counts itself out once.
LEMMA CountOutIInv == ASSUME IInv, NEW j \in Jobs, CountOut(j) PROVE IInv'
  <1> USE DEF IInv
  <1>1. j \in CountedJobs  BY DEF CountedJobs, Counted, CountOut, Moves
  <1>2. CountedJobs' = CountedJobs \ {j}
    BY DEF CountedJobs, Counted, CountOut, Moves, TypeOK
  <1>3. Cardinality(CountedJobs') = Cardinality(CountedJobs) - 1
    BY <1>1, <1>2, CountedFinite, FS_RemoveElement
  <1>4. active' = Cardinality(CountedJobs')  BY <1>3 DEF CountOut
  <1>5. active' \in Nat
    <2>1. IsFiniteSet(CountedJobs')  BY <1>2, CountedFinite, FS_Subset
    <2> QED  BY <1>4, <2>1, FS_CardinalityType
  <1>6. thread' \in [Jobs -> Places]  BY DEF CountOut, Moves, TypeOK, Places
  <1>7. TypeOK'  BY <1>5, <1>6 DEF CountOut, TypeOK
  <1>8. game' = game  BY DEF CountOut
  <1> QED  BY <1>2, <1>4, <1>7, <1>8

\* What it does afterwards does not concern the count.
LEMMA NotifyIInv == ASSUME IInv, NEW j \in Jobs, Notify(j) \/ Release(j) PROVE IInv'
  <1> USE DEF IInv
  <1>0. active' = active /\ (game' \in {"stopped", "unloaded"} => game' = game)
    BY DEF Notify, Release
  <1>1. PICK to \in {"releasing", "ended"} :
          thread' = [thread EXCEPT ![j] = to] /\ thread[j] \in {"notifying", "releasing"}
    BY DEF Notify, Release, Moves
  <1>2. CountedJobs' = CountedJobs
    BY <1>1, CountedSame DEF Counted, Places
  <1>3. TypeOK'
    <2>1. thread' \in [Jobs -> Places]  BY <1>1 DEF TypeOK, Places
    <2> QED  BY <2>1 DEF Notify, Release, TypeOK
  <1> QED  BY <1>0, <1>2, <1>3

------------------------------------------------------------------------------

LEMMA NextIInv == IInv /\ [Next]_vars => IInv'
  <1> SUFFICES ASSUME IInv, [Next]_vars PROVE IInv'  OBVIOUS
  <1>1. ASSUME NEW j \in Jobs, Queue(j) PROVE IInv'  BY <1>1, QueueIInv
  <1>2. ASSUME NEW j \in Jobs, ThreadStep(j) PROVE IInv'
    BY <1>2, WorkIInv, CountOutIInv, NotifyIInv DEF ThreadStep
  <1>3. CASE RunFrame \/ Stop \/ StopWakes \/ StopStep  BY <1>3, GameIInv
  <1>4. CASE UNCHANGED vars  BY <1>4 DEF IInv, TypeOK, CountedJobs, vars
  <1> QED  BY <1>1, <1>2, <1>3, <1>4 DEF Next

\* The variables keep their types; m_activeThreads is never negative.
THEOREM TypeCorrect == Spec => []TypeOK
  <1>1. IInv => TypeOK  BY DEF IInv
  <1> QED  BY <1>1, InitIInv, NextIInv, PTL DEF Spec

\* When Stop has returned, no thread serializes a replay or has one to hand over.
THEOREM StopWaitsHolds == Spec => []StopWaits
  <1>1. IInv => StopWaits  BY DEF IInv, StopWaits, CountedJobs
  <1> QED  BY <1>1, InitIInv, NextIInv, PTL DEF Spec

------------------------------------------------------------------------------
(* The file IO. *)

USE FilesAssumption

\* m_processing and the task in hand follow the worker's place; a Drain waits
\* for no more than was queued; who is past queueing has set m_terminate.
IOInv ==
  /\ IO!TypeOK
  /\ task # NoTask <=> worker = "processing"
  /\ processing <=> worker \in {"processing", "processed"}
  /\ \A c \in IO!Callers :
       /\ calls[c] > 0 <=> pc[c] \in {"draining", "sleeping"}
       /\ calls[c] <= Len(done) + Len(IO!Holding) + Len(taskQueue) + 1
  /\ terminate <=> pc[Game] \in {"stopping", "joining", "stopped"}
  /\ worker = "exited" => terminate /\ taskQueue = <<>>
  /\ pc[Game] = "stopped" => worker = "exited"

\* A step keeps the invariant and is one of FileQueue, or a stutter.
Keeps == IOInv' /\ [IO!FQ!Next]_(IO!FQ!vars)

\* What the worker holds is a sequence of at most one task.
LEMMA HoldingType ==
  ASSUME IOInv
  PROVE  /\ IO!Holding \in Seq(Tasks) /\ Len(IO!Holding) \in Nat
         /\ task = NoTask => IO!Holding = <<>>
         /\ task # NoTask => IO!Holding = <<task>> /\ Len(IO!Holding) = 1
  BY DEF IO!Holding, IOInv, IO!TypeOK

LEMMA GameCalls == Game \in IO!Callers
  BY DEF IO!Callers

\* A step that leaves these alone is not seen by FileQueue.
LEMMA SameQueue ==
  ASSUME UNCHANGED <<taskQueue, task, done, calls>>, UNCHANGED (pc[Game] = "stopped")
  PROVE  UNCHANGED IO!FQ!vars
  BY DEF IO!FQ!vars, IO!Holding

\* The worker is not gone yet, since the game's thread is not past queueing.
LEMMA EnqueueKeeps == ASSUME IOInv, NEW t \in Tasks, IO!Enqueue(t) PROVE Keeps
  <1> USE HoldingType, GameCalls
  <1>1. taskQueue \in Seq(Tasks) /\ taskQueue' = Append(taskQueue, t)
    BY DEF IOInv, IO!TypeOK, IO!Enqueue
  <1>2. IO!Holding \o Append(taskQueue, t) = Append(IO!Holding \o taskQueue, t)  BY <1>1
  <1>3. IO!Holding' = IO!Holding  BY DEF IO!Enqueue, IO!Holding
  <1>4. pc[Game] = "idle" /\ pc' = [pc EXCEPT ![Game] = "notify"] /\ pc'[Game] = "notify"
    BY DEF IOInv, IO!TypeOK, IO!Enqueue, IO!Goes
  <1>5. IO!FQ!Enqueue(t)  BY <1>1, <1>2, <1>3, <1>4 DEF IO!Enqueue, IO!FQ!Enqueue
  <1>6. taskQueue' \in Seq(Tasks) /\ Len(taskQueue') = Len(taskQueue) + 1  BY <1>1
  <1>7. worker # "exited" /\ ~terminate  BY <1>4 DEF IOInv
  <1>8. IO!TypeOK'  BY <1>4, <1>6 DEF IOInv, IO!TypeOK, IO!Enqueue
  <1>9. IOInv'
    BY <1>3, <1>4, <1>6, <1>7, <1>8 DEF IOInv, IO!TypeOK, IO!Enqueue
  <1> QED  BY <1>5, <1>9 DEF IO!FQ!Next, Keeps

\* The other steps of the game's thread: only the last ends the queue.
LEMMA RunFrameKeeps == ASSUME IOInv, IO!RunFrame PROVE Keeps
  <1>1. /\ results \in Seq(Tasks) /\ answers \in Seq(Tasks)
        /\ results' = <<>> /\ answers' = answers \o results
        /\ UNCHANGED <<taskQueue, task, processing, terminate, worker, pc, done, calls>>
    BY DEF IOInv, IO!TypeOK, IO!RunFrame
  <1>2. results' \in Seq(Tasks) /\ answers' \in Seq(Tasks)  BY <1>1
  <1>3. IO!Holding' = IO!Holding  BY <1>1 DEF IO!Holding
  <1>4. IO!TypeOK'  BY <1>1, <1>2 DEF IOInv, IO!TypeOK
  <1>5. IOInv'  BY <1>1, <1>3, <1>4 DEF IOInv
  <1> QED  BY <1>1, <1>5, SameQueue DEF Keeps

LEMMA GameKeeps ==
  ASSUME IOInv, IO!EnqueueNotifies \/ IO!Stop \/ IO!StopNotifies PROVE Keeps
  <1> USE HoldingType, GameCalls
  <1>1. PICK to \in {"idle", "stopping", "joining"} :
           /\ pc' = [pc EXCEPT ![Game] = to]
           /\ pc[Game] \notin {"draining", "sleeping", "stopped"}
           /\ (to = "idle" <=> pc[Game] = "notify")
           /\ (to = "joining" <=> pc[Game] = "stopping")
           /\ terminate' = (terminate \/ to = "stopping")
    BY DEF IOInv, IO!TypeOK, IO!EnqueueNotifies, IO!Stop, IO!StopNotifies, IO!Goes
  <1>2. UNCHANGED <<taskQueue, task, done, calls, processing>>
    BY DEF IO!EnqueueNotifies, IO!Stop, IO!StopNotifies
  <1>3. worker' = worker \/ (worker = "asleep" /\ worker' = "waiting")
    BY DEF IO!EnqueueNotifies, IO!Stop, IO!StopNotifies, IO!Wakes
  <1>5. results' \in Seq(Tasks) /\ answers' \in Seq(Tasks)
    BY DEF IO!EnqueueNotifies, IO!Stop, IO!StopNotifies, IOInv, IO!TypeOK
  <1>7. IO!TypeOK'  BY <1>1, <1>2, <1>3, <1>5 DEF IOInv, IO!TypeOK
  <1>8. IO!Holding' = IO!Holding  BY <1>2 DEF IO!Holding
  <1>9. IOInv'  BY <1>1, <1>2, <1>3, <1>7, <1>8 DEF IOInv, IO!TypeOK
  <1>10. pc'[Game] # "stopped"  BY <1>1 DEF IOInv, IO!TypeOK
  <1> QED  BY <1>1, <1>2, <1>9, <1>10, SameQueue DEF Keeps

LEMMA JoinKeeps == ASSUME IOInv, IO!StopJoins PROVE Keeps
  <1> USE HoldingType, GameCalls
  <1>1. taskQueue = <<>> /\ task = NoTask  BY DEF IOInv, IO!StopJoins
  <1>2. IO!Holding = <<>> /\ IO!Holding' = <<>>  BY <1>1 DEF IO!StopJoins, IO!Holding
  <1>3. <<>> \o <<>> = <<>>  OBVIOUS
  <1>4. pc[Game] = "joining" /\ pc' = [pc EXCEPT ![Game] = "stopped"] /\ pc'[Game] = "stopped"
    BY DEF IOInv, IO!TypeOK, IO!StopJoins, IO!Goes
  <1>5. IO!FQ!Stop  BY <1>1, <1>2, <1>3, <1>4 DEF IO!StopJoins, IO!FQ!Stop
  <1>6. IO!TypeOK'  BY <1>4 DEF IOInv, IO!TypeOK, IO!StopJoins
  <1>7. IOInv'  BY <1>2, <1>4, <1>6 DEF IOInv, IO!TypeOK, IO!StopJoins
  <1> QED  BY <1>5, <1>7 DEF IO!FQ!Next, Keeps

\* Drain waits for what is queued at the call, the task in hand included.
LEMMA DrainCalledKeeps == ASSUME IOInv, NEW c \in IO!Callers, IO!DrainCalled(c) PROVE Keeps
  <1> USE HoldingType, GameCalls
  <1>0. taskQueue \in Seq(Tasks) /\ done \in Seq(Tasks) /\ calls[c] = 0
    <2>1. pc[c] = "idle"  BY DEF IO!DrainCalled, IO!Goes
    <2>2. calls[c] \in Nat /\ ~(calls[c] > 0)  BY <2>1 DEF IOInv, IO!TypeOK
    <2> QED  BY <2>2 DEF IOInv, IO!TypeOK
  <1>1. Len(done) + Len(IO!Holding \o taskQueue) + 1
          = Len(done) + Len(IO!Holding) + Len(taskQueue) + 1
    BY <1>0
  <1>2. /\ pc[c] = "idle" /\ pc' = [pc EXCEPT ![c] = "draining"]
        /\ calls' = [calls EXCEPT ![c] = Len(done) + Len(IO!Holding) + Len(taskQueue) + 1]
        /\ UNCHANGED <<taskQueue, task, processing, terminate, results, worker, done, answers>>
    BY DEF IO!DrainCalled, IO!Goes
  <1>3. IO!Holding' = IO!Holding  BY <1>2 DEF IO!Holding
  <1>4. UNCHANGED (pc[Game] = "stopped")  BY <1>2 DEF IOInv, IO!TypeOK
  <1>5. IO!FQ!Drain(c)  BY <1>0, <1>1, <1>2, <1>3, <1>4 DEF IO!FQ!Drain
  <1>6. IO!TypeOK'  BY <1>0, <1>2 DEF IOInv, IO!TypeOK
  <1>7. IOInv'  BY <1>0, <1>2, <1>3, <1>6 DEF IOInv, IO!TypeOK
  <1> QED  BY <1>5, <1>7 DEF IO!FQ!Next, Keeps

\* It returns when nothing is queued or in hand, so all it waits for is done.
LEMMA DrainReturnsKeeps == ASSUME IOInv, NEW c \in IO!Callers, IO!DrainReturns(c) PROVE Keeps
  <1> USE HoldingType, GameCalls
  <1>1. /\ pc[c] = "draining" /\ pc' = [pc EXCEPT ![c] = "idle"]
        /\ calls' = [calls EXCEPT ![c] = 0]
        /\ UNCHANGED <<taskQueue, task, processing, terminate, results, worker, done, answers>>
        /\ taskQueue = <<>> /\ ~processing
    BY DEF IO!DrainReturns, IO!Goes, IO!Drained
  <1>2. Len(taskQueue) = 0 /\ Len(IO!Holding) = 0 /\ calls[c] > 0  BY <1>1 DEF IOInv
  <1>3. IO!Holding' = IO!Holding  BY <1>1 DEF IO!Holding
  <1>4. UNCHANGED (pc[Game] = "stopped")  BY <1>1 DEF IOInv, IO!TypeOK
  <1>5. Len(done) + 1 >= calls[c]  BY <1>2 DEF IOInv, IO!TypeOK
  <1>6. IO!FQ!DrainReturns(c)  BY <1>1, <1>2, <1>3, <1>4, <1>5 DEF IO!FQ!DrainReturns
  <1>7. IO!TypeOK'  BY <1>1 DEF IOInv, IO!TypeOK
  <1>8. IOInv'  BY <1>1, <1>2, <1>3, <1>7 DEF IOInv, IO!TypeOK
  <1> QED  BY <1>6, <1>8 DEF IO!FQ!Next, Keeps

\* In between it sleeps and wakes.
LEMMA DrainWaitsKeeps ==
  ASSUME IOInv, NEW c \in IO!Callers, IO!DrainSleeps(c) \/ IO!DrainWakes(c) PROVE Keeps
  <1> USE HoldingType, GameCalls
  <1>1. PICK to \in {"draining", "sleeping"} :
           pc[c] \in {"draining", "sleeping"} /\ pc' = [pc EXCEPT ![c] = to]
    BY DEF IO!DrainSleeps, IO!DrainWakes, IO!Goes
  <1>2. UNCHANGED <<taskQueue, task, processing, terminate, results, worker, done, answers, calls>>
    BY DEF IO!DrainSleeps, IO!DrainWakes
  <1>3. IO!Holding' = IO!Holding  BY <1>2 DEF IO!Holding
  <1>4. UNCHANGED (pc[Game] = "stopped")  BY <1>1 DEF IOInv, IO!TypeOK
  <1>5. IO!TypeOK'  BY <1>1, <1>2 DEF IOInv, IO!TypeOK
  <1>6. IOInv'  BY <1>1, <1>2, <1>3, <1>5 DEF IOInv, IO!TypeOK
  <1> QED  BY <1>2, <1>4, <1>6, SameQueue DEF Keeps

\* The worker: a task it takes is still the first to be done.
LEMMA TakesKeeps == ASSUME IOInv, IO!Takes PROVE Keeps
  <1> USE HoldingType, GameCalls
  <1>1. /\ taskQueue \in Seq(Tasks) /\ taskQueue # <<>> /\ worker = "waiting"
        /\ task' = Head(taskQueue) /\ taskQueue' = Tail(taskQueue)
        /\ processing' = TRUE /\ worker' = "processing"
        /\ UNCHANGED <<terminate, results, pc, done, answers, calls>>
    BY DEF IOInv, IO!TypeOK, IO!Takes
  <1>2. IO!Holding = <<>>  BY <1>1 DEF IOInv
  <1>3. task' \in Tasks /\ Tail(taskQueue) \in Seq(Tasks) /\ Len(taskQueue') = Len(taskQueue) - 1
    BY <1>1
  <1>4. IO!Holding' = <<Head(taskQueue)>>  BY <1>1, <1>3 DEF IO!Holding
  <1>5. <<>> \o taskQueue = <<Head(taskQueue)>> \o Tail(taskQueue)  BY <1>1
  <1>6. UNCHANGED IO!FQ!vars  BY <1>1, <1>2, <1>4, <1>5 DEF IO!FQ!vars
  <1>7. Len(IO!Holding) = 0 /\ Len(IO!Holding') = 1  BY <1>2, <1>4
  <1>8. IO!TypeOK'  BY <1>1, <1>3 DEF IOInv, IO!TypeOK
  <1>9. IOInv'  BY <1>1, <1>3, <1>7, <1>8 DEF IOInv, IO!TypeOK
  <1> QED  BY <1>6, <1>9 DEF Keeps

LEMMA ProcessesKeeps == ASSUME IOInv, IO!Processes PROVE Keeps
  <1> USE HoldingType, GameCalls
  <1>1. /\ taskQueue \in Seq(Tasks) /\ worker = "processing" /\ task # NoTask /\ task \in Tasks
        /\ done \in Seq(Tasks) /\ done' = Append(done, task)
        /\ task' = NoTask /\ worker' = "processed"
        /\ results' = IF task \in Answered THEN Append(results, task) ELSE results
        /\ UNCHANGED <<taskQueue, processing, terminate, pc, answers, calls>>
    BY DEF IOInv, IO!TypeOK, IO!Processes
  <1>2. IO!Holding = <<task>> /\ Len(IO!Holding) = 1  BY <1>1
  <1>3. IO!Holding' = <<>> /\ Len(IO!Holding') = 0  BY <1>1 DEF IO!Holding
  <1>4. DEFINE q == <<task>> \o taskQueue
  <1>5. q # <<>> /\ Head(q) = task /\ Tail(q) = <<>> \o taskQueue  BY <1>1
  <1>6. IO!FQ!Process  BY <1>1, <1>2, <1>3, <1>5 DEF IO!FQ!Process
  <1>7. done' \in Seq(Tasks) /\ results' \in Seq(Tasks) /\ Len(done') = Len(done) + 1
    BY <1>1 DEF IOInv, IO!TypeOK
  <1>8. IO!TypeOK'  BY <1>1, <1>7 DEF IOInv, IO!TypeOK
  <1>9. IOInv'  BY <1>1, <1>2, <1>3, <1>7, <1>8 DEF IOInv, IO!TypeOK
  <1> QED  BY <1>6, <1>9 DEF IO!FQ!Next, Keeps

\* Going to sleep, waking, leaving and clearing m_processing change no queue.
LEMMA WorkerKeeps ==
  ASSUME IOInv, IO!Sleeps \/ IO!WorkerWakes \/ IO!Exits \/ IO!Clears PROVE Keeps
  <1> USE HoldingType, GameCalls
  <1>1. UNCHANGED <<taskQueue, task, terminate, results, pc, done, answers, calls>>
    BY DEF IO!Sleeps, IO!WorkerWakes, IO!Exits, IO!Clears
  <1>2. IO!Holding' = IO!Holding  BY <1>1 DEF IO!Holding
  <1>3. IO!TypeOK'
    BY <1>1 DEF IOInv, IO!TypeOK, IO!Sleeps, IO!WorkerWakes, IO!Exits, IO!Clears
  <1>4. IOInv'
    BY <1>1, <1>2, <1>3 DEF IOInv, IO!TypeOK, IO!Sleeps, IO!WorkerWakes, IO!Exits, IO!Clears
  <1> QED  BY <1>1, <1>4, SameQueue DEF Keeps

LEMMA NotifiesKeeps == ASSUME IOInv, IO!Notifies PROVE Keeps
  <1> USE HoldingType, GameCalls
  <1>1. /\ UNCHANGED <<taskQueue, task, processing, terminate, results, done, answers, calls>>
        /\ pc' = [c \in IO!Callers |-> IF pc[c] = "sleeping" THEN "draining" ELSE pc[c]]
        /\ worker = "notifying" /\ worker' = "waiting"
    BY DEF IO!Notifies
  <1>2. IO!Holding' = IO!Holding  BY <1>1 DEF IO!Holding
  <1>3. IO!TypeOK'  BY <1>1 DEF IOInv, IO!TypeOK
  <1>4. IOInv'  BY <1>1, <1>2, <1>3 DEF IOInv, IO!TypeOK
  <1>5. UNCHANGED (pc[Game] = "stopped")  BY <1>1
  <1> QED  BY <1>1, <1>4, <1>5, SameQueue DEF Keeps

LEMMA InitKeeps == FilesInit => IOInv /\ IO!FQ!Init
  <1> SUFFICES ASSUME FilesInit PROVE IOInv /\ IO!FQ!Init  OBVIOUS
  <1>1. IO!Init  BY DEF FilesInit
  <1>2. IO!TypeOK
    <2>1. calls \in [IO!Callers -> Nat]  BY <1>1 DEF IO!Init
    <2>2. <<>> \in Seq(Tasks)  OBVIOUS
    <2>3. pc \in [IO!Callers -> {"idle"}]  BY <1>1 DEF IO!Init
    <2> QED  BY <1>1, <2>1, <2>2, <2>3 DEF IO!Init, IO!TypeOK
  <1>3. IO!Holding = <<>>  BY <1>1 DEF IO!Init, IO!Holding
  <1>4. IOInv  BY <1>1, <1>2, <1>3, GameCalls DEF IOInv, IO!Init
  <1>5. IO!FQ!Init  BY <1>1, <1>3, GameCalls DEF IO!FQ!Init, IO!Init
  <1> QED  BY <1>4, <1>5

LEMMA SameIO == ASSUME IOInv, UNCHANGED ioVars PROVE Keeps
  <1>1. IO!Holding' = IO!Holding  BY DEF IO!Holding, ioVars
  <1>2. IO!TypeOK'  BY DEF IOInv, IO!TypeOK, ioVars
  <1>3. IOInv'  BY <1>1, <1>2 DEF IOInv, ioVars
  <1> QED  BY <1>3, SameQueue DEF Keeps, ioVars

LEMMA NextKeeps == ASSUME IOInv, [FilesNext]_filesVars PROVE Keeps
  <1>1. ASSUME NEW j \in Jobs, QueueReplay(j) \/ ThreadAdvances(j) PROVE Keeps
    BY <1>1, SameIO DEF QueueReplay, ThreadAdvances
  <1>2. ASSUME NEW j \in Long, DrainCalled(j) \/ DrainEnds(j) PROVE Keeps
    <2>1. j \in IO!Callers  BY DEF IO!Callers
    <2> QED
      BY <1>2, <2>1, DrainCalledKeeps, DrainReturnsKeeps, DrainWaitsKeeps
         DEF DrainCalled, DrainEnds
  <1>3. ASSUME NEW t \in Tasks, QueueTask(t) PROVE Keeps  BY <1>3, EnqueueKeeps DEF QueueTask
  <1>4. CASE WriterFrame \/ StopWriter \/ WriterStops
    BY <1>4, SameIO DEF WriterFrame, StopWriter, WriterStops
  <1>5. CASE IOFrame \/ StopIO \/ IOStops
    BY <1>5, RunFrameKeeps, GameKeeps, JoinKeeps DEF IOFrame, StopIO, IOStops
  <1>6. CASE DropRecording \/ GameWaits
    BY <1>6, GameCalls, GameKeeps, DrainCalledKeeps, DrainReturnsKeeps, DrainWaitsKeeps
       DEF DropRecording, GameWaits
  <1>7. CASE IOWorker
    BY <1>7, WorkerKeeps, TakesKeeps, ProcessesKeeps, NotifiesKeeps DEF IOWorker, IO!Worker
  <1>8. CASE WakesForNothing
    BY <1>8, SameIO, WorkerKeeps, DrainWaitsKeeps DEF WakesForNothing
  <1>9. CASE UNCHANGED filesVars  BY <1>9, SameIO DEF filesVars
  <1> QED  BY <1>1, <1>2, <1>3, <1>4, <1>5, <1>6, <1>7, <1>8, <1>9 DEF FilesNext, Thread

\* The file IO implements FileQueue, whatever the replays, the tasks and their
\* callbacks: tasks are done in the order they were queued, Drain returns when
\* all that was queued before it is done, and Stop leaves nothing to do.
THEOREM QueueIsKept == FilesSpec => KeepsQueue
  <1>1. IOInv /\ [FilesNext]_filesVars => IOInv' /\ [IO!FQ!Next]_(IO!FQ!vars)
    BY NextKeeps DEF Keeps
  <1> QED  BY InitKeeps, <1>1, PTL DEF FilesSpec, KeepsQueue, IO!KeepsQueue, IO!FQ!Spec

\* With the file IO beside it the writer does nothing it does not do alone, so
\* that Stop waits for its threads though they wait for the file IO.
THEOREM WriterIsKept == FilesSpec => Spec /\ []StopWaits
  <1>1. FilesInit => Init  BY DEF FilesInit
  <1>2. [FilesNext]_filesVars => [Next]_vars
    <2> SUFFICES ASSUME [FilesNext]_filesVars PROVE [Next]_vars  OBVIOUS
    <2>1. ASSUME NEW j \in Jobs, QueueReplay(j) \/ Thread(j) PROVE [Next]_vars
      BY <2>1 DEF QueueReplay, Thread, ThreadAdvances, DrainCalled, DrainEnds, Next
    <2>2. ASSUME NEW t \in Tasks, QueueTask(t) PROVE UNCHANGED vars  BY <2>2 DEF QueueTask
    <2>3. CASE WriterFrame \/ StopWriter \/ WriterStops
      BY <2>3 DEF WriterFrame, StopWriter, WriterStops, Next
    <2>4. CASE IOFrame \/ DropRecording \/ GameWaits \/ StopIO \/ IOStops \/ IOWorker
      BY <2>4 DEF IOFrame, DropRecording, GameWaits, StopIO, IOStops, IOWorker
    <2>5. CASE WakesForNothing  BY <2>5 DEF WakesForNothing, Next
    <2>6. CASE UNCHANGED filesVars  BY <2>6 DEF filesVars
    <2> QED  BY <2>1, <2>2, <2>3, <2>4, <2>5, <2>6 DEF FilesNext
  <1> QED  BY <1>1, <1>2, StopWaitsHolds, PTL DEF FilesSpec, Spec

------------------------------------------------------------------------------
(* The coding of ticks and commands. *)

\* Copying what did not change and reading what did gives the new fields, for
\* every section of them: top-level fields, pre and post.
LEMMA PatchedIsNew ==
  ASSUME NEW F, NEW new \in [F -> Values], NEW old \in [F -> Values]
  PROVE  Patched(old, Changes(new, old)) = new
  <1> DEFINE changed == {x \in DOMAIN new : new[x] # old[x]}
  <1>1. /\ Changes(new, old) = [x \in changed |-> new[x]]
        /\ DOMAIN Changes(new, old) = changed
    BY DEF Changes
  <1>2. \A x \in F : Patched(old, Changes(new, old))[x] = new[x]
    BY <1>1 DEF Patched
  <1>3. /\ DOMAIN Patched(old, Changes(new, old)) = F
        /\ Patched(old, Changes(new, old)) = [x \in F |-> Patched(old, Changes(new, old))[x]]
    BY DEF Patched
  <1> QED  BY <1>2, <1>3

\* A first element is written whole and depends on nothing.
LEMMA PatchedIsWhole ==
  ASSUME NEW F, NEW new \in [F -> Values], NEW old \in [F -> Values]
  PROVE  Patched(old, Whole(new)) = new
  <1>1. \A x \in F : Patched(old, Whole(new))[x] = new[x]  BY DEF Patched, Whole
  <1>2. Patched(old, Whole(new)) = [x \in F |-> Patched(old, Whole(new))[x]]  BY DEF Patched
  <1> QED  BY <1>1, <1>2

\* A counter that grew by one, round the width, is not written and still read.
LEMMA CounterIsNew ==
  ASSUME NEW new \in ServerTicks, NEW old \in ServerTicks, NEW first \in BOOLEAN
  PROVE  Counter(CounterChange(new, old, first), old, first) = new
  <1> DEFINE expected == IF first THEN 0 ELSE (old + 1) % Width
  <1>1. CASE new = expected
    <2>1. CounterChange(new, old, first) = {}  BY <1>1 DEF CounterChange
    <2> QED  BY <1>1, <2>1 DEF Counter
  <1>2. CASE new # expected
    <2>1. CounterChange(new, old, first) = {new}  BY <1>2 DEF CounterChange
    <2>2. (CHOOSE n \in {new} : TRUE) = new  OBVIOUS
    <2> QED  BY <2>1, <2>2 DEF Counter
  <1> QED  BY <1>1, <1>2

------------------------------------------------------------------------------
\* The ticks' codec: after any tick, and as the first one, a tick is read as it
\* was recorded.  The movement data makes two steps: pre is patched from the
\* previous post, and post from the pre that was just read.
THEOREM TickRoundTrip ==
  ASSUME NEW new \in TickData, NEW old \in TickData, NEW first \in BOOLEAN,
         first => old = EmptyTick
  PROVE  ReadTick(WriteTick(new, old, first), old, first) = new
  <1> DEFINE w == WriteTick(new, old, first)
             r == ReadTick(w, old, first)
  <1>1. /\ w.serverTick = CounterChange(new.serverTick, old.serverTick, first)
        /\ w.plain = IF first THEN Whole(new.plain) ELSE Changes(new.plain, old.plain)
        /\ w.checkpoint = IF first \/ new.checkpoint # old.checkpoint THEN {new.checkpoint} ELSE {}
        /\ w.pre = Changes(new.pre, old.post)
        /\ w.post = Changes(new.post, new.pre)
    BY DEF WriteTick
  <1>2. /\ new.serverTick \in ServerTicks /\ old.serverTick \in ServerTicks
        /\ new.plain \in [Plain -> Values] /\ old.plain \in [Plain -> Values]
        /\ new.pre \in [Motion -> Values] /\ new.post \in [Motion -> Values]
        /\ old.post \in [Motion -> Values]
    BY DEF TickData, MovementData
  <1>3. r.serverTick = new.serverTick
    BY <1>1, <1>2, CounterIsNew DEF ReadTick
  <1>4. r.plain = new.plain
    <2>1. r.plain = Patched(old.plain, w.plain)  BY DEF ReadTick
    <2> QED  BY <1>1, <1>2, <2>1, PatchedIsNew, PatchedIsWhole
  <1>5. r.checkpoint = new.checkpoint
    <2>1. (CHOOSE c \in {new.checkpoint} : TRUE) = new.checkpoint  OBVIOUS
    <2> QED  BY <1>1, <2>1 DEF ReadTick
  <1>6. r.pre = new.pre
    BY <1>1, <1>2, PatchedIsNew DEF ReadTick
  <1>7. r.post = new.post
    <2>1. r.post = Patched(r.pre, w.post)  BY DEF ReadTick
    <2> QED  BY <1>1, <1>2, <1>6, <2>1, PatchedIsNew
  <1>8. r = [serverTick |-> r.serverTick, plain |-> r.plain, checkpoint |-> r.checkpoint,
             pre |-> r.pre, post |-> r.post]
    BY DEF ReadTick
  <1> QED  BY <1>3, <1>4, <1>5, <1>6, <1>7, <1>8 DEF TickData

\* The commands' codec, where the game time is a counter too.
THEOREM CmdRoundTrip ==
  ASSUME NEW new \in CmdData, NEW old \in CmdData, NEW first \in BOOLEAN
  PROVE  ReadCmd(WriteCmd(new, old, first), old, first) = new
  <1> DEFINE w == WriteCmd(new, old, first)
             r == ReadCmd(w, old, first)
  <1>1. /\ w.serverTick = CounterChange(new.serverTick, old.serverTick, first)
        /\ w.gameTime = CounterChange(new.gameTime, old.gameTime, first)
        /\ w.plain = IF first THEN Whole(new.plain) ELSE Changes(new.plain, old.plain)
    BY DEF WriteCmd
  <1>2. /\ new.serverTick \in ServerTicks /\ old.serverTick \in ServerTicks
        /\ new.gameTime \in ServerTicks /\ old.gameTime \in ServerTicks
        /\ new.plain \in [Plain -> Values] /\ old.plain \in [Plain -> Values]
    BY DEF CmdData
  <1>3. r.serverTick = new.serverTick /\ r.gameTime = new.gameTime
    BY <1>1, <1>2, CounterIsNew DEF ReadCmd
  <1>4. r.plain = new.plain
    <2>1. r.plain = Patched(old.plain, w.plain)  BY DEF ReadCmd
    <2> QED  BY <1>1, <1>2, <2>1, PatchedIsNew, PatchedIsWhole
  <1>5. r = [serverTick |-> r.serverTick, gameTime |-> r.gameTime, plain |-> r.plain]
    BY DEF ReadCmd
  <1> QED  BY <1>3, <1>4, <1>5 DEF CmdData

\* A set of natural numbers has a least element.
LEMMA LeastNatural ==
  ASSUME NEW T, T \subseteq Nat, T # {} PROVE \E x \in T : \A y \in T : x <= y
<1> DEFINE R == OpToRel(<, Nat)
<1>1. IsWellFoundedOn(R, Nat)
  BY NatLessThanWellFounded
<1>2. \A x, y \in Nat : <<y, x>> \in R <=> y < x
  BY DEF OpToRel
<1> HIDE DEF R
<1>3. PICK x \in T : \A y \in T : ~(<<y, x>> \in R)
  BY <1>1, WFMin
<1>4. \A y \in T : ~(y < x) /\ y \in Nat /\ x \in Nat
  BY <1>2, <1>3
<1> QED BY <1>4

\* Induction from 0 up to n, over a set.
LEMMA UpTo ==
  ASSUME NEW n \in Nat, NEW S, 0 \in S, \A i \in S : i \in 0..n - 1 => i + 1 \in S
  PROVE  \A i \in 0..n : i \in S
<1> SUFFICES ASSUME (0..n) \ S # {} PROVE FALSE
  OBVIOUS
<1>0. (0..n) \ S \subseteq Nat
  OBVIOUS
<1>1. PICK x \in (0..n) \ S : \A y \in (0..n) \ S : x <= y
  BY <1>0, LeastNatural
<1>2. x # 0 /\ x - 1 \in 0..n - 1 /\ x - 1 \in 0..n /\ ~(x <= x - 1)
  BY <1>1
<1>3. x - 1 \in S
  BY <1>1, <1>2
<1>4. (x - 1) + 1 = x
  BY <1>1
<1> QED BY <1>1, <1>2, <1>3, <1>4

\* Max is the maximum of a set of indices.
LEMMA MaxOf ==
  ASSUME NEW n \in Nat, NEW s \in SUBSET (1..n), s # {}
  PROVE  Max(s) \in s /\ \A x \in s : Max(s) >= x
<1>0. \A x \in s : n - x \in Nat
  OBVIOUS
<1>1. {n - x : x \in s} \subseteq Nat /\ {n - x : x \in s} # {}
  BY <1>0
<1>2. PICK y \in {n - x : x \in s} : \A z \in {n - x : x \in s} : y <= z
  BY <1>1, LeastNatural
<1>3. PICK m \in s : y = n - m
  BY <1>2
<1>4. \A x \in s : n - m <= n - x /\ x \in Nat /\ m \in Nat
  BY <1>2, <1>3
<1>5. \A x \in s : m >= x
  BY <1>4
<1> QED BY <1>5 DEF Max

------------------------------------------------------------------------------
(* The two loops over a replay's events. *)

\* An event as the bot plays it, or as it is processed again in a seek.
Apply(seek, s, e, target) == IF seek THEN Reprocess(s, e, target) ELSE Handle(s, e)

ApplyAll(seek, s, es, target) ==
  IF seek THEN FoldLeft(LAMBDA y, e : Reprocess(y, e, target), s, es) ELSE FoldLeft(Handle, s, es)

\* f is what the folds compute over the sets of the first n indices.
Rec(f, seek, a, es, target, n) ==
  f = [s \in SUBSET (1..n) |->
         IF s = {} THEN a ELSE Apply(seek, f[s \ {Max(s)}], es[Max(s)], target)]

LEMMA RecExists ==
  ASSUME NEW seek, NEW a, NEW es, NEW target, NEW len \in Nat
  PROVE  \E f : Rec(f, seek, a, es, target, len)
<1> DEFINE S == {n \in Nat : \E f : Rec(f, seek, a, es, target, n)}
<1>1. 0 \in S
  <2>1. SUBSET (1..0) = {{}}
    OBVIOUS
  <2>2. Rec([s \in SUBSET (1..0) |-> a], seek, a, es, target, 0)
    BY <2>1 DEF Rec
  <2> QED BY <2>2
<1>2. ASSUME NEW n \in S PROVE n + 1 \in S
  <2>1. n \in Nat /\ n + 1 \in Nat
    OBVIOUS
  <2>2. PICK f : Rec(f, seek, a, es, target, n)
    OBVIOUS
  <2> DEFINE g == [s \in SUBSET (1..(n + 1)) |->
                     IF n + 1 \in s THEN Apply(seek, f[s \ {n + 1}], es[n + 1], target) ELSE f[s]]
  <2>3. ASSUME NEW s \in SUBSET (1..(n + 1))
        PROVE  g[s] = IF s = {} THEN a ELSE Apply(seek, g[s \ {Max(s)}], es[Max(s)], target)
    <3>1. CASE n + 1 \in s
      <4>1. Max(s) \in s /\ \A x \in s : Max(s) >= x
        BY <2>1, <3>1, MaxOf
      <4>2. Max(s) = n + 1
        <5>1. Max(s) \in 1..(n + 1) /\ Max(s) >= n + 1
          BY <3>1, <4>1
        <5> QED BY <2>1, <5>1
      <4>3. s \ {n + 1} \in SUBSET (1..n) /\ s \ {n + 1} \in SUBSET (1..(n + 1))
        BY <2>1
      <4>4. g[s \ {n + 1}] = f[s \ {n + 1}]
        BY <4>3
      <4> HIDE DEF g
      <4>5. g[s] = Apply(seek, f[s \ {n + 1}], es[n + 1], target)
        BY <3>1 DEF g
      <4> QED BY <3>1, <4>2, <4>4, <4>5
    <3>2. CASE n + 1 \notin s
      <4>1. s \in SUBSET (1..n)
        BY <2>1, <3>2
      <4>2. g[s] = f[s]
        BY <3>2
      <4>3. f[s] = IF s = {} THEN a ELSE Apply(seek, f[s \ {Max(s)}], es[Max(s)], target)
        BY <2>2, <4>1 DEF Rec
      <4>4. s \ {Max(s)} \in SUBSET (1..(n + 1)) /\ n + 1 \notin s \ {Max(s)}
        BY <3>2
      <4>5. g[s \ {Max(s)}] = f[s \ {Max(s)}]
        BY <4>4
      <4> HIDE DEF g
      <4> QED BY <4>2, <4>3, <4>5
    <3> QED BY <3>1, <3>2
  <2>4. g = [s \in SUBSET (1..(n + 1)) |-> g[s]]
    OBVIOUS
  <2> HIDE DEF g
  <2>5. Rec(g, seek, a, es, target, n + 1)
    BY <2>3, <2>4 DEF Rec
  <2> QED BY <2>1, <2>5
<1>3. \A i \in 0..len : i \in S
  BY <1>1, <1>2, UpTo
<1> QED BY <1>3

\* f[n] is what the first n events make of s.
Steps(f, seek, s, es, target) ==
  /\ f[0] = s /\ ApplyAll(seek, s, es, target) = f[Len(es)]
  /\ \A n \in 1..Len(es) : f[n] = Apply(seek, f[n - 1], es[n], target)

\* The loops apply one event after another.
LEMMA AppliedInSteps ==
  ASSUME NEW seek \in BOOLEAN, NEW a, NEW T, NEW es \in Seq(T), NEW target
  PROVE  \E f : Steps(f, seek, a, es, target)
<1> DEFINE D == 1..Len(es)
<1>1. D = DOMAIN es /\ Len(es) \in Nat
  OBVIOUS
<1> DEFINE iter == CHOOSE f : Rec(f, seek, a, es, target, Len(es))
<1>2. Rec(iter, seek, a, es, target, Len(es))
  BY <1>1, RecExists
<1>3. ApplyAll(seek, a, es, target) = iter[D]
  <2>1. CASE seek
    BY <1>1, <2>1 DEF ApplyAll, FoldLeft, MapThenFoldSet, Rec, Apply
  <2>2. CASE ~seek
    BY <1>1, <2>2 DEF ApplyAll, FoldLeft, MapThenFoldSet, Rec, Apply
  <2> QED BY <2>1, <2>2
<1> HIDE DEF iter
<1> DEFINE g == [n \in 0..Len(es) |-> iter[1..n]]
<1>4. g[0] = a
  <2>1. 1..0 = {} /\ {} \in SUBSET (1..Len(es)) /\ 0 \in 0..Len(es)
    BY <1>1
  <2> QED BY <1>2, <2>1 DEF Rec
<1>5. ASSUME NEW n \in 1..Len(es) PROVE g[n] = Apply(seek, g[n - 1], es[n], target)
  <2>1. n \in Nat /\ n - 1 \in 0..Len(es) /\ n \in 0..Len(es)
    BY <1>1
  <2>2. 1..n \in SUBSET (1..Len(es)) /\ 1..n # {} /\ n \in 1..n
    BY <1>1
  <2>3. Max(1..n) \in 1..n /\ \A x \in 1..n : Max(1..n) >= x
    BY <2>1, <2>2, MaxOf
  <2>4. Max(1..n) = n
    BY <2>1, <2>2, <2>3
  <2>5. (1..n) \ {n} = 1..(n - 1)
    BY <2>1
  <2>6. iter[1..n] = Apply(seek, iter[1..(n - 1)], es[n], target)
    BY <1>2, <2>2, <2>4, <2>5 DEF Rec
  <2> QED BY <2>1, <2>6
<1>6. ApplyAll(seek, a, es, target) = g[Len(es)]
  BY <1>1, <1>3
<1> HIDE DEF g
<1> QED BY <1>4, <1>5, <1>6 DEF Steps

------------------------------------------------------------------------------
(* The section of a replay's ticks. *)

LEMMA EmptyTickIs == EmptyTick \in TickData
<1>1. 0 \in ServerTicks /\ ZeroValue \in Values
  BY CompressionAssumption DEF ServerTicks
<1>2. [x \in Plain |-> ZeroValue] \in [Plain -> Values] /\ Still \in MovementData
  BY <1>1 DEF Still, MovementData
<1> QED BY <1>1, <1>2 DEF EmptyTick, TickData

\* What ReadTickDataCompressed computes from a section, tick after tick.
Reads(read, section) ==
  read = [i \in 1..Len(section) |-> IF i = 1 THEN ReadTick(section[1], EmptyTick, TRUE)
                                    ELSE ReadTick(section[i], read[i - 1], FALSE)]

\* A whole section is read back as it was recorded: DecodeTickDataBuffer undoes
\* WriteTickDataCompressed, for any ticks.
THEOREM SectionRoundTrip ==
  ASSUME NEW ticks \in Seq(TickData)
  PROVE  ReadTickDataCompressed(WriteTickDataCompressed(ticks)) = ticks
<1> DEFINE w == WriteTickDataCompressed(ticks)
           L == Len(ticks)
<1>1. /\ L \in Nat /\ Len(w) = L
      /\ \A i \in 1..L : /\ ticks[i] \in TickData
                         /\ w[i] = IF i = 1 THEN WriteTick(ticks[1], EmptyTick, TRUE)
                                   ELSE WriteTick(ticks[i], ticks[i - 1], FALSE)
  BY DEF WriteTickDataCompressed
<1> HIDE DEF w
<1>2. ASSUME NEW i \in 1..L
      PROVE  IF i = 1 THEN ReadTick(w[1], EmptyTick, TRUE) = ticks[1]
             ELSE ReadTick(w[i], ticks[i - 1], FALSE) = ticks[i]
  <2>1. CASE i = 1
    <3>1. ticks[1] \in TickData /\ w[1] = WriteTick(ticks[1], EmptyTick, TRUE)
      BY <1>1, <2>1
    <3>2. \A y \in BOOLEAN : ReadTick(WriteTick(ticks[1], EmptyTick, y), EmptyTick, y) = ticks[1]
      BY <3>1, EmptyTickIs, TickRoundTrip
    <3> QED BY <2>1, <3>1, <3>2
  <2>2. CASE i # 1
    <3>1. i - 1 \in 1..L
      BY <1>1, <2>2
    <3>2. w[i] = WriteTick(ticks[i], ticks[i - 1], FALSE) /\ ticks[i] \in TickData /\ ticks[i - 1] \in TickData
      BY <1>1, <2>2, <3>1
    <3> QED BY <2>2, <3>2, TickRoundTrip
  <2> QED BY <2>1, <2>2
<1>3. Reads(ticks, w)
  <2>1. ticks = [i \in 1..L |-> ticks[i]]
    OBVIOUS
  <2>2. \A i \in 1..L : ticks[i] = IF i = 1 THEN ReadTick(w[1], EmptyTick, TRUE)
                                   ELSE ReadTick(w[i], ticks[i - 1], FALSE)
    BY <1>2
  <2> QED BY <1>1, <2>1, <2>2 DEF Reads
<1>4. ASSUME NEW read, Reads(read, w) PROVE \A i \in 1..L : read[i] = ticks[i]
  <2> DEFINE S == {i \in 0..L : i # 0 => read[i] = ticks[i]}
  <2>0. \A i \in 1..L : read[i] = IF i = 1 THEN ReadTick(w[1], EmptyTick, TRUE)
                                  ELSE ReadTick(w[i], read[i - 1], FALSE)
    BY <1>1, <1>4 DEF Reads
  <2>1. 0 \in S
    BY <1>1
  <2>2. ASSUME NEW i \in S, i \in 0..(L - 1) PROVE i + 1 \in S
    <3>1. i + 1 \in 1..L /\ i + 1 \in 0..L /\ (i + 1) - 1 = i /\ i \in Nat /\ (i + 1 = 1 <=> i = 0)
      BY <1>1, <2>2
    <3>2. CASE i = 0
      <4>1. i + 1 = 1 /\ 1 \in 1..L
        BY <3>1, <3>2
      <4>2. read[1] = ReadTick(w[1], EmptyTick, TRUE)
        BY <2>0, <4>1
      <4>3. ReadTick(w[1], EmptyTick, TRUE) = ticks[1]
        BY <1>2, <4>1
      <4> QED BY <3>1, <4>1, <4>2, <4>3
    <3>3. CASE i # 0
      <4>1. read[i] = ticks[i]
        BY <2>2, <3>3
      <4>2. read[i + 1] = ReadTick(w[i + 1], read[i], FALSE)
        BY <2>0, <3>1, <3>3
      <4>3. ReadTick(w[i + 1], ticks[i], FALSE) = ticks[i + 1]
        BY <1>2, <3>1, <3>3
      <4> QED BY <3>1, <4>1, <4>2, <4>3
    <3> QED BY <3>2, <3>3
  <2>3. \A i \in 0..L : i \in S
    <3> HIDE DEF S
    <3> QED BY <1>1, <2>1, <2>2, UpTo
  <2> QED BY <1>1, <2>3
<1> DEFINE read == CHOOSE r : Reads(r, w)
<1>5. Reads(read, w)
  BY <1>3
<1>6. ReadTickDataCompressed(w) = [i \in 1..Len(w) |-> read[i]]
  BY DEF ReadTickDataCompressed, Reads
<1> HIDE DEF read
<1>7. \A i \in 1..L : read[i] = ticks[i]
  BY <1>4, <1>5
<1>8. ticks = [i \in 1..L |-> ticks[i]]
  OBVIOUS
<1> QED BY <1>1, <1>6, <1>7, <1>8 DEF w

LEMMA TicksAre ==
  ASSUME NEW f \in Files PROVE Ticks(f) = Recording[f].ticks
BY ReplaysAssumption, SectionRoundTrip DEF WellFormed, Ticks

------------------------------------------------------------------------------
(* Loading and playing. *)

Stages == {"none", "open", "header", "ticks", "weapons", "events", "valid", "invalid", "done"}

\* The sections that are read when the thread is at a place.
ReadBy(at) ==
  CASE at = "ticks"   -> {"header"}
    [] at = "weapons" -> {"header", "ticks"}
    [] at = "events"  -> {"header", "ticks", "weapons"}
    [] at \in {"valid", "done"} -> {"header", "ticks", "weapons", "events"}
    [] OTHER -> {}

\* What was read was not damaged, and is what was recorded.
ReadWell(t) ==
  /\ t.at \in Stages /\ (t.at # "none" => t.file \in Files)
  /\ ReadBy(t.at) # {} => Recording[t.file].damaged \notin ReadBy(t.at)
  /\ t.at \in {"weapons", "events", "valid", "done"} => t.ticks = Recording[t.file].ticks

\* A replay that is played, with the bot or without, is a recording of this map.
PlaysWell(r) ==
  r.playing =>
    /\ r.file \in Files /\ Recording[r.file].damaged = "none" /\ Recording[r.file].map = "current"
    /\ r.ticks = Recording[r.file].ticks
    /\ r.tick \in DOMAIN r.ticks

\* The fields of a replay.
Shaped(r) ==
  r = [file |-> r.file, ticks |-> r.ticks, playing |-> r.playing, replayPaused |-> r.replayPaused,
       tick |-> r.tick, event |-> r.event, course |-> r.course, startTime |-> r.startTime, paused |-> r.paused, checkpoint |-> r.checkpoint]

PlayInv ==
  /\ loadThread = [at |-> loadThread.at, file |-> loadThread.file, ticks |-> loadThread.ticks]
  /\ load = [state |-> load.state, cancel |-> load.cancel, asker |-> load.asker,
             completed |-> load.completed]
  /\ ReadWell(loadThread)
  /\ load.state = "Completed" => load.completed.at = "done" /\ ReadWell(load.completed)
  /\ Shaped(replay) /\ replay.event \in Nat \ {0} /\ PlaysWell(replay)
  /\ bound \in Bounds

\* What an event leaves alone: all but the run, its time and its pause.
Beside(s, r) ==
  /\ Shaped(s)
  /\ s.file = r.file /\ s.ticks = r.ticks /\ s.playing = r.playing /\ s.replayPaused = r.replayPaused
  /\ s.tick = r.tick /\ s.event = r.event /\ s.checkpoint = r.checkpoint

Fits(seek, s, r) ==
  /\ Beside(s.replay, r)
  /\ s = IF seek THEN [replay |-> s.replay, mode |-> s.mode, active |-> s.active, since |-> s.since,
                       total |-> s.total]
         ELSE [replay |-> s.replay, mode |-> s.mode]

\* Fields that are set at once are set one after another.
LEMMA StartedIs ==
  ASSUME NEW s, Shaped(s), NEW e
  PROVE  Started(s, e) =
           [file |-> s.file, ticks |-> s.ticks, playing |-> s.playing,
            replayPaused |-> s.replayPaused, tick |-> s.tick, event |-> s.event,
            course |-> e.course, startTime |-> curtime - e.time, paused |-> FALSE,
            checkpoint |-> s.checkpoint]
<1>0. PICK no, at : no = FALSE /\ at = curtime - e.time
  OBVIOUS
<1> DEFINE w == [s EXCEPT !.course = e.course]
           x == [w EXCEPT !.startTime = at]
           z == [x EXCEPT !.paused = no]
<1>1. w = [file |-> s.file, ticks |-> s.ticks, playing |-> s.playing,
          replayPaused |-> s.replayPaused, tick |-> s.tick, event |-> s.event,
          course |-> e.course, startTime |-> s.startTime,
          paused |-> s.paused, checkpoint |-> s.checkpoint]
  BY DEF Shaped
<1>2. Started(s, e) = z
  BY <1>0 DEF Started
<1> HIDE DEF w
<1>3. x = [file |-> s.file, ticks |-> s.ticks, playing |-> s.playing,
          replayPaused |-> s.replayPaused, tick |-> s.tick, event |-> s.event,
          course |-> e.course, startTime |-> at, paused |-> s.paused,
          checkpoint |-> s.checkpoint]
  BY <1>1
<1> HIDE DEF x
<1>5. z = [file |-> s.file, ticks |-> s.ticks, playing |-> s.playing,
          replayPaused |-> s.replayPaused, tick |-> s.tick, event |-> s.event,
          course |-> e.course, startTime |-> at, paused |-> no,
          checkpoint |-> s.checkpoint]
  BY <1>3
<1> QED BY <1>0, <1>2, <1>5

LEMMA EndedIs ==
  ASSUME NEW s, Shaped(s)
  PROVE  Ended(s) =
           [file |-> s.file, ticks |-> s.ticks, playing |-> s.playing,
            replayPaused |-> s.replayPaused, tick |-> s.tick, event |-> s.event,
            course |-> NoCourse, startTime |-> 0, paused |-> s.paused,
            checkpoint |-> s.checkpoint]
<1>0. PICK no : no = 0
  OBVIOUS
<1> DEFINE w == [s EXCEPT !.course = NoCourse]
           x == [w EXCEPT !.startTime = no]
<1>1. w = [file |-> s.file, ticks |-> s.ticks, playing |-> s.playing,
          replayPaused |-> s.replayPaused, tick |-> s.tick, event |-> s.event,
          course |-> NoCourse, startTime |-> s.startTime,
          paused |-> s.paused, checkpoint |-> s.checkpoint]
  BY DEF Shaped
<1>2. Ended(s) = x
  BY <1>0 DEF Ended
<1> HIDE DEF w
<1>3. x = [file |-> s.file, ticks |-> s.ticks, playing |-> s.playing,
          replayPaused |-> s.replayPaused, tick |-> s.tick, event |-> s.event,
          course |-> NoCourse, startTime |-> no, paused |-> s.paused,
          checkpoint |-> s.checkpoint]
  BY <1>1
<1> QED BY <1>0, <1>2, <1>3

LEMMA BesideStays ==
  ASSUME NEW s, NEW r, Beside(s, r), NEW e, NEW b
  PROVE  Beside(Started(s, e), r) /\ Beside(Ended(s), r) /\ Beside([s EXCEPT !.paused = b], r)
<1>0. Shaped(s)
  BY DEF Beside
<1> DEFINE u == Started(s, e)
           v == Ended(s)
<1>1. u =
        [file |-> s.file, ticks |-> s.ticks, playing |-> s.playing,
         replayPaused |-> s.replayPaused, tick |-> s.tick, event |-> s.event,
         course |-> e.course, startTime |-> curtime - e.time, paused |-> FALSE,
         checkpoint |-> s.checkpoint]
  BY <1>0, StartedIs
<1>2. v =
        [file |-> s.file, ticks |-> s.ticks, playing |-> s.playing,
         replayPaused |-> s.replayPaused, tick |-> s.tick, event |-> s.event,
         course |-> NoCourse, startTime |-> 0, paused |-> s.paused,
         checkpoint |-> s.checkpoint]
  BY <1>0, EndedIs
<1>3. [s EXCEPT !.paused = b] =
        [file |-> s.file, ticks |-> s.ticks, playing |-> s.playing,
         replayPaused |-> s.replayPaused, tick |-> s.tick, event |-> s.event,
         course |-> s.course, startTime |-> s.startTime, paused |-> b,
         checkpoint |-> s.checkpoint]
  BY <1>0 DEF Shaped
<1> HIDE DEF u, v
<1>4. Beside(u, r)
  BY <1>1 DEF Beside, Shaped
<1>5. Beside(v, r)
  BY <1>2 DEF Beside, Shaped
<1>6. Beside([s EXCEPT !.paused = b], r)
  BY <1>3 DEF Beside, Shaped
<1> QED BY <1>4, <1>5, <1>6 DEF u, v

\* The run after an event.
RunAfter(x, e, p) ==
  p = x \/ (\E d : p = Started(x, d)) \/ p = Ended(x) \/ \E b : p = [x EXCEPT !.paused = b]

LEMMA AppliedFits ==
  ASSUME NEW seek \in BOOLEAN, NEW s, NEW r, NEW e, NEW target, Fits(seek, s, r)
  PROVE  Fits(seek, Apply(seek, s, e, target), r)
<1>0. ASSUME NEW p, RunAfter(s.replay, e, p) PROVE Beside(p, r)
  <2> PICK x : x = s.replay
    OBVIOUS
  <2>0. Beside(x, r)
    BY DEF Fits
  <2>a. \A d, b : Beside(Started(x, d), r) /\ Beside(Ended(x), r) /\ Beside([x EXCEPT !.paused = b], r)
    BY ONLY <2>0, BesideStays
  <2>1. CASE p = s.replay
    BY <2>0, <2>1
  <2>2. CASE \E d : p = Started(s.replay, d)
    BY <2>a, <2>2
  <2>3. CASE p = Ended(s.replay)
    BY <2>a, <2>3
  <2>4. CASE \E b : p = [s.replay EXCEPT !.paused = b]
    BY <2>a, <2>4
  <2> QED BY <1>0, <2>1, <2>2, <2>3, <2>4 DEF RunAfter
<1>1. CASE ~seek
  <2> DEFINE h == Handle(s, e)
             x == s.replay
  <2>0. s = [replay |-> s.replay, mode |-> s.mode]
    BY <1>1 DEF Fits
  <2>1. h = [replay |-> h.replay, mode |-> h.mode] /\ RunAfter(x, e, h.replay)
    <3>1. CASE e.type = "START"
      BY <2>0, <3>1 DEF Handle, RunAfter
    <3>2. CASE e.type = "END"
      BY <2>0, <3>2 DEF Handle, RunAfter
    <3>3. CASE e.type = "STOP"
      BY <2>0, <3>3 DEF Handle, RunAfter
    <3>4. CASE e.type = "PAUSE"
      BY <2>0, <3>4 DEF Handle, RunAfter
    <3>5. CASE e.type = "RESUME"
      BY <2>0, <3>5 DEF Handle, RunAfter
    <3>6. CASE e.type = "MODE"
      BY <2>0, <3>6 DEF Handle, RunAfter
    <3>7. CASE e.type \notin {"START", "END", "STOP", "PAUSE", "RESUME", "MODE"}
      BY <2>0, <3>7 DEF Handle, RunAfter
    <3> QED BY <3>1, <3>2, <3>3, <3>4, <3>5, <3>6, <3>7
  <2> HIDE DEF h
  <2>2. Beside(h.replay, r)
    BY <1>0, <2>1
  <2>3. Fits(FALSE, h, r)
    BY <2>1, <2>2 DEF Fits
  <2> QED BY <1>1, <2>3 DEF Apply, h
<1>2. CASE seek
  <2> DEFINE h == Reprocess(s, e, target)
             x == s.replay
  <2>0. s = [replay |-> s.replay, mode |-> s.mode, active |-> s.active, since |-> s.since, total |-> s.total]
    BY <1>2 DEF Fits
  <2>1. /\ h = [replay |-> h.replay, mode |-> h.mode, active |-> h.active, since |-> h.since, total |-> h.total]
        /\ RunAfter(x, e, h.replay)
    <3>1. CASE e.type = "START" /\ e.course \in KnownCourses
      <4> DEFINE d == [e EXCEPT !.time = @ + GameTime(s.replay, target) - e.serverTick]
      <4>1. h = [s EXCEPT !.replay = Started(@, d), !.active = TRUE, !.since = -1, !.total = 0]
        BY <3>1 DEF Reprocess
      <4> HIDE DEF d
      <4> QED BY <2>0, <4>1 DEF RunAfter
    <3>2. CASE e.type \in {"END", "STOP"}
      BY <2>0, <3>2 DEF Reprocess, RunAfter
    <3>4. CASE e.type = "PAUSE"
      BY <2>0, <3>4 DEF Reprocess, RunAfter
    <3>5. CASE e.type = "RESUME"
      BY <2>0, <3>5 DEF Reprocess, RunAfter
    <3>6. CASE e.type = "MODE"
      BY <2>0, <3>6 DEF Reprocess, RunAfter
    <3>7. CASE /\ e.type \notin {"END", "STOP", "PAUSE", "RESUME", "MODE"}
               /\ ~(e.type = "START" /\ e.course \in KnownCourses)
      BY <2>0, <3>7 DEF Reprocess, RunAfter
    <3> QED BY <3>1, <3>2, <3>4, <3>5, <3>6, <3>7
  <2> HIDE DEF h
  <2>2. Beside(h.replay, r)
    BY <1>0, <2>1
  <2>3. Fits(TRUE, h, r)
    BY <2>1, <2>2 DEF Fits
  <2> QED BY <1>2, <2>3 DEF Apply, h
<1> QED BY <1>1, <1>2

LEMMA AllAppliedFit ==
  ASSUME NEW seek \in BOOLEAN, NEW T, NEW es \in Seq(T), NEW target, NEW s, NEW r, Fits(seek, s, r)
  PROVE  Fits(seek, ApplyAll(seek, s, es, target), r)
<1>1. PICK f : Steps(f, seek, s, es, target)
  BY AppliedInSteps
<1>0. Len(es) \in Nat
  OBVIOUS
<1> DEFINE S == {n \in 0..Len(es) : Fits(seek, f[n], r)}
<1>2. 0 \in S
  BY <1>0, <1>1 DEF Steps
<1>3. ASSUME NEW i \in S, i \in 0..(Len(es) - 1) PROVE i + 1 \in S
  <2>1. i + 1 \in 1..Len(es) /\ (i + 1) - 1 = i
    BY <1>3
  <2>2. f[i + 1] = Apply(seek, f[i], es[i + 1], target)
    BY <1>1, <2>1 DEF Steps
  <2> QED BY <2>1, <2>2, AppliedFits
<1>4. \A i \in 0..Len(es) : i \in S
  <2> HIDE DEF S
  <2> QED BY <1>0, <1>2, <1>3, UpTo
<1> QED BY <1>0, <1>1, <1>4 DEF Steps

\* The events of a replay are in order: those by a server tick are the first ones.
LEMMA EventsByIs ==
  ASSUME NEW f \in Files, NEW k \in Nat
  PROVE  /\ EventsBy(f, k) \in 0..Len(Events(f))
         /\ \A i \in 1..Len(Events(f)) : Events(f)[i].serverTick <= k <=> i <= EventsBy(f, k)
<1> DEFINE E == Events(f)
           I == {i \in 1..Len(E) : E[i].serverTick <= k}
<1>a. WellFormed(Recording[f])
  BY ReplaysAssumption
<1>b. ServerTicks \subseteq Nat
  BY CompressionAssumption DEF ServerTicks
<1>c. /\ E \in Seq(Event) /\ Len(E) \in Nat /\ DOMAIN E = 1..Len(E)
      /\ \A i, j \in DOMAIN E : i < j => E[i].serverTick <= E[j].serverTick
  BY <1>a DEF WellFormed, Events
<1>d. \A i \in 1..Len(E) : E[i] \in Event
  BY <1>c, ElementOfSeq
<1>1. /\ Len(E) \in Nat /\ I \in SUBSET (1..Len(E))
      /\ \A i \in 1..Len(E) : E[i].serverTick \in Nat
      /\ \A i, j \in 1..Len(E) : i < j => E[i].serverTick <= E[j].serverTick
  BY <1>b, <1>c, <1>d DEF Event
<1>2. EventsBy(f, k) = IF I # {} THEN Max(I) ELSE 0
  BY DEF EventsBy, SelectLastInSeq
<1>3. I # {} => Max(I) \in I /\ \A x \in I : Max(I) >= x
  BY <1>1, MaxOf
<1> HIDE DEF E
<1>4. CASE I = {}
  BY <1>1, <1>2, <1>4 DEF E
<1>5. CASE I # {}
  <2>1. EventsBy(f, k) \in 1..Len(E) /\ E[EventsBy(f, k)].serverTick <= k
    BY <1>2, <1>3, <1>5
  <2>2. ASSUME NEW i \in 1..Len(E), E[i].serverTick <= k PROVE i <= EventsBy(f, k)
    BY <1>1, <1>2, <1>3, <1>5, <2>2
  <2>3. ASSUME NEW i \in 1..Len(E), i <= EventsBy(f, k) PROVE E[i].serverTick <= k
    <3> DEFINE m == EventsBy(f, k)
    <3>1. i = m \/ i < m
      BY <2>1, <2>3
    <3>2. E[i].serverTick <= E[m].serverTick
      BY <1>1, <2>1, <3>1
    <3> QED BY <1>1, <2>1, <3>2
  <2> QED BY <1>1, <2>1, <2>2, <2>3 DEF E
<1> QED BY <1>4, <1>5

\* The events of a recording, and its ticks.
LEMMA RecordingIs ==
  ASSUME NEW f \in Files
  PROVE  /\ Events(f) \in Seq(Event) /\ Len(Events(f)) \in Nat
         /\ \A i \in 1..Len(Events(f)) : Events(f)[i] \in Event /\ Events(f)[i].serverTick \in Nat
         /\ Recording[f].ticks \in Seq(TickData) /\ DOMAIN Recording[f].ticks = 1..Len(Recording[f].ticks)
         /\ Len(Recording[f].ticks) \in Nat \ {0}
         /\ \A t \in 1..Len(Recording[f].ticks) :
              Recording[f].ticks[t] \in TickData /\ Recording[f].ticks[t].serverTick \in Nat
<1>1. WellFormed(Recording[f])
  BY ReplaysAssumption
<1>2. ServerTicks \subseteq Nat
  BY CompressionAssumption DEF ServerTicks
<1> DEFINE E == Events(f)
           K == Recording[f].ticks
<1>3. E \in Seq(Event) /\ Len(E) \in Nat /\ K \in Seq(TickData) /\ K # <<>> /\ Len(K) \in Nat
  BY <1>1 DEF WellFormed, Events
<1> HIDE DEF E, K
<1>4. /\ \A i \in 1..Len(E) : E[i] \in Event
      /\ \A t \in 1..Len(K) : K[t] \in TickData
      /\ DOMAIN K = 1..Len(K) /\ Len(K) # 0
  BY <1>3, ElementOfSeq
<1>5. /\ \A i \in 1..Len(E) : E[i].serverTick \in Nat
      /\ \A t \in 1..Len(K) : K[t].serverTick \in Nat
  BY <1>2, <1>4 DEF Event, TickData
<1> QED BY <1>3, <1>4, <1>5 DEF E, K

\* A part of the events.
LEMMA EventsFrom ==
  ASSUME NEW f \in Files, NEW m \in Nat \ {0}, NEW n \in 0..Len(Events(f))
  PROVE  LET es == SubSeq(Events(f), m, n)
         IN  /\ es \in Seq(Event) /\ Len(es) = IF m <= n THEN n - m + 1 ELSE 0
             /\ \A i \in 1..Len(es) : es[i] = Events(f)[m + i - 1]
<1>1. Len(Events(f)) \in Nat /\ \A i \in 1..Len(Events(f)) : Events(f)[i] \in Event
  BY RecordingIs
<1>2. m \in Int /\ n \in Int /\ \A i \in m..n : i \in 1..Len(Events(f))
  BY <1>1
<1> DEFINE es == SubSeq(Events(f), m, n)
<1>3. /\ es \in Seq(Event) /\ Len(es) = IF m <= n THEN n - m + 1 ELSE 0
      /\ \A i \in 1..n - m + 1 : es[i] = Events(f)[m + i - 1]
  BY <1>1, <1>2, SubSeqProperties
<1> HIDE DEF es
<1>4. \A i \in 1..Len(es) : i \in 1..n - m + 1
  BY <1>2, <1>3
<1> QED BY <1>3, <1>4 DEF es

\* What CheckEvents makes of a replay that is played.
LEMMA CheckEventsIs ==
  ASSUME NEW r, Shaped(r), r.playing, PlaysWell(r), r.event \in Nat \ {0}
  PROVE  /\ Due(r) \in Seq(Event) /\ Len(Due(r)) \in Nat
         /\ LET x == ApplyAll(FALSE, [replay |-> r, mode |-> mode], Due(r), 0)
                s == CheckEvents(r)
            IN  /\ Fits(FALSE, x, r)
                /\ s = [replay |-> [x.replay EXCEPT !.event = @ + Len(Due(r))], mode |-> x.mode]
<1>0. /\ r.file \in Files /\ r.tick \in 1..Len(r.ticks) /\ r.ticks = Recording[r.file].ticks
      /\ r.ticks[r.tick].serverTick \in Nat
  BY RecordingIs DEF PlaysWell
<1>1. Due(r) \in Seq(Event) /\ Len(Due(r)) \in Nat
  <2> DEFINE n == EventsBy(r.file, r.ticks[r.tick].serverTick)
             due == SubSeq(Events(r.file), r.event, n)
  <2>1. n \in 0..Len(Events(r.file))
    BY <1>0, EventsByIs
  <2> HIDE DEF n
  <2>2. due \in Seq(Event)
    BY <1>0, <2>1, EventsFrom
  <2>3. Len(due) \in Nat
    <3> HIDE DEF due
    <3> QED BY <2>2
  <2> QED BY <2>2, <2>3 DEF Due, n
<1> DEFINE a == [replay |-> r, mode |-> mode]
           x == ApplyAll(FALSE, a, Due(r), 0)
<1>2. Fits(FALSE, a, r)
  BY DEF Fits, Beside
<1>3. Fits(FALSE, x, r)
  BY <1>1, <1>2, AllAppliedFit
<1>4. CheckEvents(r) = [x EXCEPT !.replay.event = @ + Len(Due(r))]
  BY DEF CheckEvents, ApplyAll
<1> HIDE DEF x
<1>5. x = [replay |-> x.replay, mode |-> x.mode]
  BY <1>3 DEF Fits
<1>6. CheckEvents(r) = [replay |-> [x.replay EXCEPT !.event = @ + Len(Due(r))], mode |-> x.mode]
  BY <1>4, <1>5
<1> QED BY <1>1, <1>3, <1>6 DEF x

\* What a seek makes of a replay that is played.
LEMMA ReprocessIs ==
  ASSUME NEW r, Shaped(r), r.playing, PlaysWell(r), NEW target \in DOMAIN r.ticks
  PROVE  LET E     == Events(r.file)
             n     == EventsBy(r.file, r.ticks[target].serverTick)
             past  == SubSeq(E, 1, n)
             back  == target <= r.tick \/ r.tick = 1
             start == [replay |-> r, mode |-> IF back THEN DefaultMode ELSE mode,
                       active |-> FALSE, since |-> -1, total |-> 0]
             x     == ApplyAll(TRUE, start, past, target)
             more  == IF Len(past) < Len(E) /\ x.since # -1 /\ x.active
                      THEN GameTime(r, target) - GameTime(r, x.since) ELSE 0
         IN  /\ n \in 0..Len(E) /\ past \in Seq(Event) /\ Len(past) = n
             /\ \A i \in 1..n : past[i] = E[i]
             /\ Fits(TRUE, x, r)
             /\ ReprocessEventsUpToTick(r, target) =
                  [replay |-> [x.replay EXCEPT !.event = n + 1, !.startTime = IF @ > 0 THEN @ + x.total + more ELSE @,
                                               !.checkpoint = r.ticks[target].checkpoint],
                   mode |-> x.mode]
<1> DEFINE E     == Events(r.file)
           n     == EventsBy(r.file, r.ticks[target].serverTick)
           past  == SubSeq(E, 1, n)
           back  == target <= r.tick \/ r.tick = 1
           start == [replay |-> r, mode |-> IF back THEN DefaultMode ELSE mode,
                     active |-> FALSE, since |-> -1, total |-> 0]
           x     == ApplyAll(TRUE, start, past, target)
<1>0. r.file \in Files /\ r.ticks[target].serverTick \in Nat /\ Len(E) \in Nat
  BY RecordingIs DEF PlaysWell
<1>1. n \in 0..Len(E)
  BY <1>0, EventsByIs
<1>2. past \in Seq(Event) /\ Len(past) = n /\ \A i \in 1..n : past[i] = E[i]
  <2> HIDE DEF n
  <2>1. 1 \in Nat \ {0} /\ n \in Nat
    BY <1>0, <1>1
  <2>2. /\ past \in Seq(Event) /\ Len(past) = IF 1 <= n THEN n - 1 + 1 ELSE 0
        /\ \A i \in 1..Len(past) : past[i] = E[1 + i - 1]
    BY <1>0, <1>1, <2>1, EventsFrom
  <2> HIDE DEF past, E
  <2>3. Len(past) = n
    BY <2>1, <2>2
  <2>4. \A i \in 1..n : 1 + i - 1 = i
    BY <2>1
  <2> QED BY <2>2, <2>3, <2>4
<1>3. Fits(TRUE, start, r)
  BY DEF Fits, Beside
<1>4. Fits(TRUE, x, r)
  <2> HIDE DEF start, past
  <2> QED BY <1>2, <1>3, AllAppliedFit
<1>5. ReprocessEventsUpToTick(r, target) =
        LET more == IF Len(past) < Len(E) /\ x.since # -1 /\ x.active
                    THEN GameTime(r, target) - GameTime(r, x.since) ELSE 0
        IN  [replay |-> [x.replay EXCEPT !.event = Len(past) + 1, !.startTime = IF @ > 0 THEN @ + x.total + more ELSE @,
                                         !.checkpoint = r.ticks[target].checkpoint],
             mode |-> x.mode]
  BY DEF ReprocessEventsUpToTick, ApplyAll
<1> HIDE DEF x, past, n, start, E, back
<1>6. Len(past) = n
  BY <1>2
<1>7. ReprocessEventsUpToTick(r, target) =
        LET more == IF Len(past) < Len(E) /\ x.since # -1 /\ x.active
                    THEN GameTime(r, target) - GameTime(r, x.since) ELSE 0
        IN  [replay |-> [x.replay EXCEPT !.event = n + 1, !.startTime = IF @ > 0 THEN @ + x.total + more ELSE @,
                                         !.checkpoint = r.ticks[target].checkpoint],
             mode |-> x.mode]
  BY <1>5, <1>6
<1> QED BY <1>1, <1>2, <1>4, <1>7 DEF x, past, n, start, E, back

------------------------------------------------------------------------------
(* What is played is what was recorded. *)

LEMMA PlayInvAtFirst == ReplaysInit => PlayInv
<1> SUFFICES ASSUME ReplaysInit PROVE PlayInv
  OBVIOUS
<1>1. loadThread = NoThread /\ load = Idle /\ replay = Empty /\ bound \in Bounds
  BY DEF ReplaysInit, PlayInit
<1>2. ReadBy("none") = {}
  BY DEF ReadBy
<1>3. ReadWell(loadThread)
  BY <1>1, <1>2 DEF ReadWell, NoThread, Stages
<1>4. Shaped(replay) /\ replay.event = 1 /\ replay.playing = FALSE
  BY <1>1 DEF Shaped, Empty
<1>5. PlaysWell(replay)
  BY <1>4 DEF PlaysWell
<1>6. /\ loadThread = [at |-> loadThread.at, file |-> loadThread.file, ticks |-> loadThread.ticks]
      /\ load = [state |-> load.state, cancel |-> load.cancel, asker |-> load.asker,
                 completed |-> load.completed]
      /\ load.state = "Idle"
  BY <1>1 DEF NoThread, Idle
<1> QED BY <1>1, <1>3, <1>4, <1>5, <1>6 DEF PlayInv

\* Reading one section more, undamaged, keeps what was read well.
LEMMA ReadOn ==
  ASSUME NEW t, t = [at |-> t.at, file |-> t.file, ticks |-> t.ticks], ReadWell(t), t.at \in DOMAIN After,
         t.at = "open" \/ t.at # Recording[t.file].damaged
  PROVE  LET u == [at |-> After[t.at], file |-> t.file,
                   ticks |-> IF t.at = "ticks" THEN Ticks(t.file) ELSE t.ticks]
         IN  /\ [t EXCEPT !.at = After[@], !.ticks = IF t.at = "ticks" THEN Ticks(t.file) ELSE @] = u
             /\ ReadWell(u)
<1> DEFINE read == IF t.at = "ticks" THEN Ticks(t.file) ELSE t.ticks
           u == [at |-> After[t.at], file |-> t.file, ticks |-> read]
<1>1. [t EXCEPT !.at = After[@], !.ticks = IF t.at = "ticks" THEN Ticks(t.file) ELSE @] = u
  <2> DEFINE y == [t EXCEPT !.at = After[@]]
  <2>1. y = [at |-> After[t.at], file |-> t.file, ticks |-> t.ticks]
    OBVIOUS
  <2>2. [t EXCEPT !.at = After[@], !.ticks = IF t.at = "ticks" THEN Ticks(t.file) ELSE @]
          = [y EXCEPT !.ticks = read]
    OBVIOUS
  <2> HIDE DEF y, read
  <2> QED BY <2>1, <2>2
<1>2. /\ t.at \in {"open", "header", "ticks", "weapons", "events"} /\ t.file \in Files
      /\ ReadBy(t.at) # {} => Recording[t.file].damaged \notin ReadBy(t.at)
      /\ t.at \in {"weapons", "events"} => t.ticks = Recording[t.file].ticks
  BY DEF ReadWell, After
<1>3. t.at = "ticks" => read = Recording[t.file].ticks
  BY <1>2, TicksAre
<1>4. ReadWell(u)
  <2>1. CASE t.at = "open"
    BY <1>2, <2>1 DEF ReadWell, ReadBy, After, Stages
  <2>2. CASE t.at = "header"
    BY <1>2, <2>2 DEF ReadWell, ReadBy, After, Stages
  <2>3. CASE t.at = "ticks"
    <3> HIDE DEF read
    <3> QED BY <1>2, <1>3, <2>3 DEF ReadWell, ReadBy, After, Stages
  <2>4. CASE t.at = "weapons"
    BY <1>2, <2>4 DEF ReadWell, ReadBy, After, Stages
  <2>5. CASE t.at = "events"
    BY <1>2, <2>5 DEF ReadWell, ReadBy, After, Stages
  <2> QED BY <1>2, <2>1, <2>2, <2>3, <2>4, <2>5
<1> QED BY <1>1, <1>4

\* One field that is set.
LEMMA FieldSet ==
  ASSUME NEW s, Shaped(s), NEW v
  PROVE
    /\ [s EXCEPT !.file = v] =
         [file |-> v, ticks |-> s.ticks, playing |-> s.playing,
          replayPaused |-> s.replayPaused, tick |-> s.tick, event |-> s.event,
          course |-> s.course, startTime |-> s.startTime,
          paused |-> s.paused, checkpoint |-> s.checkpoint]
    /\ [s EXCEPT !.ticks = v] =
         [file |-> s.file, ticks |-> v, playing |-> s.playing,
          replayPaused |-> s.replayPaused, tick |-> s.tick, event |-> s.event,
          course |-> s.course, startTime |-> s.startTime,
          paused |-> s.paused, checkpoint |-> s.checkpoint]
    /\ [s EXCEPT !.playing = v] =
         [file |-> s.file, ticks |-> s.ticks, playing |-> v,
          replayPaused |-> s.replayPaused, tick |-> s.tick, event |-> s.event,
          course |-> s.course, startTime |-> s.startTime,
          paused |-> s.paused, checkpoint |-> s.checkpoint]
    /\ [s EXCEPT !.replayPaused = v] =
         [file |-> s.file, ticks |-> s.ticks, playing |-> s.playing,
          replayPaused |-> v, tick |-> s.tick, event |-> s.event,
          course |-> s.course, startTime |-> s.startTime,
          paused |-> s.paused, checkpoint |-> s.checkpoint]
    /\ [s EXCEPT !.tick = v] =
         [file |-> s.file, ticks |-> s.ticks, playing |-> s.playing,
          replayPaused |-> s.replayPaused, tick |-> v, event |-> s.event,
          course |-> s.course, startTime |-> s.startTime,
          paused |-> s.paused, checkpoint |-> s.checkpoint]
    /\ [s EXCEPT !.event = v] =
         [file |-> s.file, ticks |-> s.ticks, playing |-> s.playing,
          replayPaused |-> s.replayPaused, tick |-> s.tick, event |-> v,
          course |-> s.course, startTime |-> s.startTime,
          paused |-> s.paused, checkpoint |-> s.checkpoint]
    /\ [s EXCEPT !.startTime = v] =
         [file |-> s.file, ticks |-> s.ticks, playing |-> s.playing,
          replayPaused |-> s.replayPaused, tick |-> s.tick, event |-> s.event,
          course |-> s.course, startTime |-> v,
          paused |-> s.paused, checkpoint |-> s.checkpoint]
    /\ [s EXCEPT !.checkpoint = v] =
         [file |-> s.file, ticks |-> s.ticks, playing |-> s.playing,
          replayPaused |-> s.replayPaused, tick |-> s.tick, event |-> s.event,
          course |-> s.course, startTime |-> s.startTime,
          paused |-> s.paused, checkpoint |-> v]
BY DEF Shaped

\* A tick that is played leaves the replay as it was but for the run and the place.
LEMMA PlayedOn ==
  ASSUME NEW r, Shaped(r), r.playing, PlaysWell(r), r.event \in Nat \ {0}
  PROVE  LET s    == CheckEvents([r EXCEPT !.checkpoint = r.ticks[r.tick].checkpoint])
             last == r.tick = Len(r.ticks)
             u    == [HoldTime(s.replay) EXCEPT !.tick = @ + 1, !.playing = ~last]
         IN  Shaped(u) /\ u.event \in Nat \ {0} /\ PlaysWell(u)
<1> DEFINE v == [r EXCEPT !.checkpoint = r.ticks[r.tick].checkpoint]
           x == ApplyAll(FALSE, [replay |-> v, mode |-> mode], Due(v), 0)
           d == Len(Due(v))
           s == CheckEvents(v)
           last == r.tick = Len(r.ticks)
           w == HoldTime(s.replay)
           u == [w EXCEPT !.tick = @ + 1, !.playing = ~last]
<1>1. /\ v.playing = r.playing /\ v.event = r.event /\ v.file = r.file /\ v.ticks = r.ticks /\ v.tick = r.tick
      /\ Shaped(v)
  <2> DEFINE c == r.ticks[r.tick].checkpoint
  <2> HIDE DEF c
  <2>1. v = [r EXCEPT !.checkpoint = c]
    BY DEF c
  <2>2. v = [file |-> r.file, ticks |-> r.ticks, playing |-> r.playing, replayPaused |-> r.replayPaused,
             tick |-> r.tick, event |-> r.event, course |-> r.course, startTime |-> r.startTime, paused |-> r.paused, checkpoint |-> c]
    BY <2>1, FieldSet
  <2> HIDE DEF v
  <2> QED BY <2>2 DEF Shaped
<1>2. PlaysWell(v)
  BY <1>1 DEF PlaysWell
<1> HIDE DEF v
<1>3. d \in Nat /\ Fits(FALSE, x, v) /\ s = [replay |-> [x.replay EXCEPT !.event = @ + d], mode |-> x.mode]
  BY <1>1, <1>2, CheckEventsIs
<1> HIDE DEF x, d, s
<1>4. /\ Shaped(x.replay) /\ x.replay.file = r.file /\ x.replay.ticks = r.ticks
      /\ x.replay.tick = r.tick /\ x.replay.event = r.event
  BY <1>1, <1>3 DEF Fits, Beside
<1>5. /\ Shaped(s.replay) /\ s.replay.file = r.file /\ s.replay.ticks = r.ticks
      /\ s.replay.tick = r.tick /\ s.replay.event = r.event + d
  BY <1>3, <1>4 DEF Shaped
<1>6. /\ Shaped(w) /\ w.file = r.file /\ w.ticks = r.ticks /\ w.tick = r.tick /\ w.event = r.event + d
  BY <1>5 DEF HoldTime, Shaped
<1> HIDE DEF w
<1>7. PICK b : b = ~last
  OBVIOUS
<1>8. u = [[w EXCEPT !.tick = @ + 1] EXCEPT !.playing = b]
  BY <1>7
<1>9. /\ Shaped(u) /\ u.file = r.file /\ u.ticks = r.ticks /\ u.tick = r.tick + 1 /\ u.event = r.event + d
      /\ u.playing = b
  <2> DEFINE y == [w EXCEPT !.tick = @ + 1]
             z == [y EXCEPT !.playing = b]
  <2>1. y = [file |-> w.file, ticks |-> w.ticks, playing |-> w.playing, replayPaused |-> w.replayPaused,
             tick |-> w.tick + 1, event |-> w.event, course |-> w.course, startTime |-> w.startTime, paused |-> w.paused, checkpoint |-> w.checkpoint]
    BY <1>6 DEF Shaped
  <2> HIDE DEF y
  <2>2. z = [file |-> w.file, ticks |-> w.ticks, playing |-> b, replayPaused |-> w.replayPaused,
             tick |-> w.tick + 1, event |-> w.event, course |-> w.course, startTime |-> w.startTime, paused |-> w.paused, checkpoint |-> w.checkpoint]
    BY <2>1
  <2>3. u = z
    BY <1>8 DEF y
  <2> HIDE DEF u, z
  <2> QED BY <1>6, <2>2, <2>3 DEF Shaped
<1> HIDE DEF u
<1>10. u.event \in Nat \ {0}
  BY <1>3, <1>9
<1>11. PlaysWell(u)
  <2>1. /\ r.file \in Files /\ Recording[r.file].damaged = "none" /\ Recording[r.file].map = "current"
        /\ r.ticks = Recording[r.file].ticks /\ r.tick \in 1..Len(r.ticks) /\ Len(r.ticks) \in Nat
        /\ DOMAIN r.ticks = 1..Len(r.ticks)
    BY RecordingIs DEF PlaysWell
  <2>2. b => r.tick # Len(r.ticks)
    BY <1>7
  <2>3. r.tick # Len(r.ticks) => r.tick + 1 \in 1..Len(r.ticks)
    BY <2>1
  <2> QED BY <1>9, <2>1, <2>2, <2>3 DEF PlaysWell
<1> QED BY <1>9, <1>10, <1>11 DEF u, w, s, v, last

\* A seek starts from the beginning.
LEMMA ResetIs ==
  ASSUME NEW r
  PROVE  ResetReplayState(r) =
           [file |-> r.file, ticks |-> r.ticks, playing |-> r.playing, replayPaused |-> FALSE, tick |-> r.tick,
            event |-> 1, course |-> NoCourse, startTime |-> 0, paused |-> FALSE,
            checkpoint |-> ZeroValue]
<1> DEFINE q == ResetReplayState(r)
<1> DEFINE v == [Empty EXCEPT !.file = r.file]
           w == [v EXCEPT !.ticks = r.ticks]
           x == [w EXCEPT !.playing = r.playing]
           y == [x EXCEPT !.tick = r.tick]
<1>0. Shaped(Empty)
  BY DEF Empty, Shaped
<1>1. v = [file |-> r.file, ticks |-> Empty.ticks, playing |-> Empty.playing,
           replayPaused |-> Empty.replayPaused, tick |-> Empty.tick, event |-> Empty.event,
           course |-> Empty.course, startTime |-> Empty.startTime,
           paused |-> Empty.paused, checkpoint |-> Empty.checkpoint]
  BY <1>0, FieldSet
<1>2. q = y
  BY DEF ResetReplayState
<1> HIDE DEF v
<1>3. Shaped(v)
  BY <1>1 DEF Shaped
<1>4. w = [file |-> v.file, ticks |-> r.ticks, playing |-> v.playing, replayPaused |-> v.replayPaused,
           tick |-> v.tick, event |-> v.event, course |-> v.course, startTime |-> v.startTime, paused |-> v.paused, checkpoint |-> v.checkpoint]
  BY <1>3, FieldSet
<1> HIDE DEF w
<1>5. Shaped(w)
  BY <1>4 DEF Shaped
<1>6. x = [file |-> w.file, ticks |-> w.ticks, playing |-> r.playing, replayPaused |-> w.replayPaused,
           tick |-> w.tick, event |-> w.event, course |-> w.course, startTime |-> w.startTime, paused |-> w.paused, checkpoint |-> w.checkpoint]
  BY <1>5, FieldSet
<1> HIDE DEF x
<1>7. Shaped(x)
  BY <1>6 DEF Shaped
<1>8. y = [file |-> x.file, ticks |-> x.ticks, playing |-> x.playing, replayPaused |-> x.replayPaused,
           tick |-> r.tick, event |-> x.event, course |-> x.course, startTime |-> x.startTime, paused |-> x.paused, checkpoint |-> x.checkpoint]
  <2> DEFINE T(n) == [file |-> x.file, ticks |-> x.ticks, playing |-> x.playing, replayPaused |-> x.replayPaused,
                      tick |-> n, event |-> x.event, course |-> x.course, startTime |-> x.startTime, paused |-> x.paused, checkpoint |-> x.checkpoint]
  <2>1. \A n : [x EXCEPT !.tick = n] = T(n)
    BY ONLY <1>7, FieldSet
  <2> QED BY ONLY <2>1
<1> HIDE DEF y, q
<1>9. q = [file |-> r.file, ticks |-> r.ticks, playing |-> r.playing, replayPaused |-> Empty.replayPaused,
           tick |-> r.tick, event |-> Empty.event, course |-> Empty.course, startTime |-> Empty.startTime, paused |-> Empty.paused, checkpoint |-> Empty.checkpoint]
  BY <1>1, <1>2, <1>4, <1>6, <1>8
<1>10. /\ Empty.replayPaused = FALSE /\ Empty.event = 1 /\ Empty.course = NoCourse /\ Empty.startTime = 0
        /\ Empty.paused = FALSE /\ Empty.checkpoint = ZeroValue
  BY DEF Empty
<1> QED BY <1>9, <1>10 DEF q

\* A replay that was loaded is at its first tick, before its first event.
LEMMA LoadedIs ==
  ASSUME NEW c
  PROVE  LET r == [Empty EXCEPT !.file = c.file, !.ticks = c.ticks]
             p == [r EXCEPT !.playing = TRUE]
         IN  /\ Shaped(r) /\ r.file = c.file /\ r.ticks = c.ticks /\ r.event = 1 /\ r.tick = 1
             /\ r.playing = FALSE
             /\ Shaped(p) /\ p.file = c.file /\ p.ticks = c.ticks /\ p.event = 1 /\ p.tick = 1
             /\ p.startTime = 0
<1> DEFINE r == [Empty EXCEPT !.file = c.file, !.ticks = c.ticks]
           v == [Empty EXCEPT !.file = c.file]
           p == [r EXCEPT !.playing = TRUE]
<1>3. Shaped(Empty) /\ Empty.event = 1 /\ Empty.tick = 1 /\ Empty.playing = FALSE /\ Empty.startTime = 0
  BY DEF Shaped, Empty
<1>4. v = [file |-> c.file, ticks |-> Empty.ticks, playing |-> Empty.playing,
           replayPaused |-> Empty.replayPaused, tick |-> Empty.tick, event |-> Empty.event,
           course |-> Empty.course, startTime |-> Empty.startTime,
           paused |-> Empty.paused, checkpoint |-> Empty.checkpoint]
  BY <1>3, FieldSet
<1>5. r = [v EXCEPT !.ticks = c.ticks]
  OBVIOUS
<1> HIDE DEF v
<1>6. Shaped(v) /\ v.file = c.file /\ v.event = 1 /\ v.tick = 1 /\ v.playing = FALSE /\ v.startTime = 0
  BY <1>3, <1>4 DEF Shaped
<1> HIDE DEF r
<1>7. r = [file |-> v.file, ticks |-> c.ticks, playing |-> v.playing, replayPaused |-> v.replayPaused,
           tick |-> v.tick, event |-> v.event, course |-> v.course, startTime |-> v.startTime, paused |-> v.paused, checkpoint |-> v.checkpoint]
  BY <1>5, <1>6, FieldSet
<1>8. /\ Shaped(r) /\ r.file = c.file /\ r.ticks = c.ticks /\ r.event = 1 /\ r.tick = 1 /\ r.playing = FALSE
      /\ r.startTime = 0
  BY <1>6, <1>7 DEF Shaped
<1>9. PICK yes : yes = TRUE
  OBVIOUS
<1>10. p = [file |-> r.file, ticks |-> r.ticks, playing |-> yes, replayPaused |-> r.replayPaused,
            tick |-> r.tick, event |-> r.event, course |-> r.course, startTime |-> r.startTime, paused |-> r.paused, checkpoint |-> r.checkpoint]
  BY <1>8, <1>9, FieldSet
<1> HIDE DEF p
<1>11. /\ Shaped(p) /\ p.file = c.file /\ p.ticks = c.ticks /\ p.event = 1 /\ p.tick = 1 /\ p.startTime = 0
  BY <1>8, <1>10 DEF Shaped
<1> QED BY <1>8, <1>11 DEF p, r

\* A seek leaves the recording and goes to one of its ticks.
LEMMA SoughtTo ==
  ASSUME NEW r, Shaped(r), r.playing, PlaysWell(r), NEW target \in DOMAIN r.ticks
  PROVE  LET q == ResetReplayState(r)
             s == IF bot THEN ReprocessEventsUpToTick(q, target) ELSE [replay |-> q, mode |-> mode]
             u == [s.replay EXCEPT !.tick = target]
         IN  Shaped(u) /\ u.event \in Nat \ {0} /\ PlaysWell(u)
<1> DEFINE q == ResetReplayState(r)
           s == IF bot THEN ReprocessEventsUpToTick(q, target) ELSE [replay |-> q, mode |-> mode]
           u == [s.replay EXCEPT !.tick = target]
<1>0. /\ r.file \in Files /\ Recording[r.file].damaged = "none" /\ Recording[r.file].map = "current"
      /\ r.ticks = Recording[r.file].ticks /\ r.tick \in DOMAIN r.ticks
  BY DEF PlaysWell
<1>1. q = [file |-> r.file, ticks |-> r.ticks, playing |-> r.playing, replayPaused |-> FALSE, tick |-> r.tick,
           event |-> 1, course |-> NoCourse, startTime |-> 0, paused |-> FALSE,
           checkpoint |-> ZeroValue]
  BY ResetIs
<1> HIDE DEF q
<1>2. /\ Shaped(q) /\ q.playing /\ q.file = r.file /\ q.ticks = r.ticks /\ q.tick = r.tick /\ q.event = 1
      /\ PlaysWell(q) /\ target \in DOMAIN q.ticks
  BY <1>0, <1>1 DEF Shaped, PlaysWell
<1>3. /\ Shaped(s.replay) /\ s.replay.file = r.file /\ s.replay.ticks = r.ticks /\ s.replay.event \in Nat \ {0}
  <2>1. CASE ~bot
    BY <1>2, <2>1
  <2>2. CASE bot
    <3> DEFINE E     == Events(q.file)
               n     == EventsBy(q.file, q.ticks[target].serverTick)
               past  == SubSeq(E, 1, n)
               back  == target <= q.tick \/ q.tick = 1
               start == [replay |-> q, mode |-> IF back THEN DefaultMode ELSE mode,
                         active |-> FALSE, since |-> -1, total |-> 0]
               x     == ApplyAll(TRUE, start, past, target)
               more  == IF Len(past) < Len(E) /\ x.since # -1 /\ x.active
                        THEN GameTime(q, target) - GameTime(q, x.since) ELSE 0
               c     == q.ticks[target].checkpoint
    <3>1. /\ n \in 0..Len(E) /\ Fits(TRUE, x, q)
          /\ ReprocessEventsUpToTick(q, target) =
               [replay |-> [x.replay EXCEPT !.event = n + 1, !.startTime = IF @ > 0 THEN @ + x.total + more ELSE @, !.checkpoint = c],
                mode |-> x.mode]
      BY ONLY <1>2, ReprocessIs, ZenonT(30)
    <3>2. Len(E) \in Nat
      BY <1>0, <1>2, RecordingIs
    <3> HIDE DEF E, n, past, back, start, x, more, c
    <3>3. s.replay = [x.replay EXCEPT !.event = n + 1, !.startTime = IF @ > 0 THEN @ + x.total + more ELSE @, !.checkpoint = c]
      BY <2>2, <3>1
    <3>4. Beside(x.replay, q)
      BY <3>1 DEF Fits
    <3>5. Shaped(x.replay) /\ x.replay.file = r.file /\ x.replay.ticks = r.ticks
      BY <1>2, <3>4 DEF Beside
    <3> DEFINE y == [x.replay EXCEPT !.event = n + 1]
               z == [y EXCEPT !.startTime = IF @ > 0 THEN @ + x.total + more ELSE @]
    <3>6. y = [file |-> r.file, ticks |-> r.ticks, playing |-> x.replay.playing,
               replayPaused |-> x.replay.replayPaused, tick |-> x.replay.tick, event |-> n + 1,
               course |-> x.replay.course, startTime |-> x.replay.startTime,
               paused |-> x.replay.paused, checkpoint |-> x.replay.checkpoint]
      BY <3>5 DEF Shaped
    <3>7. s.replay = [z EXCEPT !.checkpoint = c]
      BY <3>3
    <3> HIDE DEF y
    <3>8. /\ Shaped(z) /\ z.file = r.file /\ z.ticks = r.ticks /\ z.event = n + 1
      BY <3>6 DEF Shaped
    <3> HIDE DEF z
    <3>9. Shaped(s.replay) /\ s.replay.file = r.file /\ s.replay.ticks = r.ticks /\ s.replay.event = n + 1
      BY <3>7, <3>8 DEF Shaped
    <3> QED BY <3>1, <3>2, <3>9
  <2> QED BY <2>1, <2>2
<1> HIDE DEF s
<1>4. Shaped(u) /\ u.file = r.file /\ u.ticks = r.ticks /\ u.tick = target /\ u.event \in Nat \ {0}
  BY <1>3 DEF Shaped
<1> HIDE DEF u
<1>5. PlaysWell(u)
  BY <1>0, <1>4 DEF PlaysWell
<1> QED BY <1>4, <1>5 DEF u, s, q
LEMMA PlayInvKept == PlayInv /\ [ReplaysNext]_allVars => PlayInv'
<1> SUFFICES ASSUME PlayInv, [ReplaysNext]_allVars PROVE PlayInv'
  OBVIOUS
<1>0. /\ loadThread = [at |-> loadThread.at, file |-> loadThread.file, ticks |-> loadThread.ticks]
      /\ load = [state |-> load.state, cancel |-> load.cancel, asker |-> load.asker,
                 completed |-> load.completed]
      /\ ReadWell(loadThread) /\ (load.state = "Completed" => load.completed.at = "done" /\ ReadWell(load.completed))
      /\ Shaped(replay) /\ replay.event \in Nat \ {0} /\ PlaysWell(replay)
      /\ bound \in Bounds /\ bound' = bound
  BY DEF PlayInv, ReplaysNext, LoadReplay, CancelReplayLoad, ReadSection, HandleAsyncResult, StoreResult,
         ProcessAsyncLoadCompletion, OnPhysicsSimulatePost, FramesWithoutBot, NavigateReplay, ToggleReplayPause,
         OnRoundStart, MapBegins, PlayerLeaves, Watcher, Restart, allVars
<1>t. ReadBy("none") = {} /\ ReadBy("open") = {} /\ ReadBy("invalid") = {} /\ ReadBy("valid") = ReadBy("done")
  BY DEF ReadBy
<1>1. CASE LoadReplay
  <2>1. PICK p \in present, f \in bound.asked :
          /\ load' = [state |-> "Loading", cancel |-> FALSE, asker |-> p, completed |-> NoThread]
          /\ loadThread' = [at |-> "open", file |-> f, ticks |-> <<>>]
    BY <1>1 DEF LoadReplay
  <2>2. f \in Files /\ replay' = replay
    BY <1>0, <1>1, ReplaysAssumption DEF LoadReplay, playVars
  <2>3. ReadWell(loadThread')
    BY <1>t, <2>1, <2>2 DEF ReadWell, Stages
  <2> QED BY <1>0, <2>1, <2>2, <2>3 DEF PlayInv
<1>2. CASE CancelReplayLoad
  <2>1. load' = [load EXCEPT !.cancel = TRUE] /\ loadThread' = loadThread /\ replay' = replay
    BY <1>2 DEF CancelReplayLoad, playVars
  <2>2. load' = [state |-> load.state, cancel |-> TRUE, asker |-> load.asker,
                 completed |-> load.completed]
    BY <1>0, <2>1
  <2> QED BY <1>0, <2>1, <2>2 DEF PlayInv
<1>3. CASE ReadSection
  <2>0. /\ load' = load /\ replay' = replay /\ loadThread.at \in DOMAIN After
        /\ \/ Fails
           \/ /\ loadThread.at = "open" \/ loadThread.at # Recording[loadThread.file].damaged
              /\ loadThread' = [loadThread EXCEPT !.at = After[@],
                                  !.ticks = IF loadThread.at = "ticks" THEN Ticks(loadThread.file) ELSE @]
    BY <1>3 DEF ReadSection, playVars
  <2>1. CASE Fails
    <3>1. loadThread' = [at |-> "invalid", file |-> loadThread.file, ticks |-> loadThread.ticks]
      BY <1>0, <2>1 DEF Fails
    <3>2. loadThread.file \in Files
      BY <1>0, <2>0 DEF ReadWell, After
    <3>3. ReadWell(loadThread')
      BY <1>t, <3>1, <3>2 DEF ReadWell, Stages
    <3> QED BY <1>0, <2>0, <3>1, <3>3 DEF PlayInv
  <2>2. CASE ~Fails
    <3> DEFINE u == [at |-> After[loadThread.at], file |-> loadThread.file,
                     ticks |-> IF loadThread.at = "ticks" THEN Ticks(loadThread.file) ELSE loadThread.ticks]
    <3>1. loadThread' = u /\ ReadWell(u)
      BY <1>0, <2>0, <2>2, ReadOn
    <3>2. u = [at |-> u.at, file |-> u.file, ticks |-> u.ticks]
      OBVIOUS
    <3> HIDE DEF u
    <3> QED BY <1>0, <2>0, <3>1, <3>2 DEF PlayInv
  <2> QED BY <2>1, <2>2
<1>4. CASE HandleAsyncResult
  <2>0. replay' = replay /\ loadThread.at \in {"valid", "invalid"}
    BY <1>4 DEF HandleAsyncResult, playVars
  <2>1. CASE load.cancel \/ loadThread.at = "invalid"
    <3>1. load' = [load EXCEPT !.state = "Failed"] /\ loadThread' = NoThread
      BY <1>4, <2>1 DEF HandleAsyncResult
    <3>2. load' = [state |-> "Failed", cancel |-> load.cancel, asker |-> load.asker,
                   completed |-> load.completed]
      BY <1>0, <3>1
    <3>3. ReadWell(loadThread')
      BY <1>t, <3>1 DEF ReadWell, NoThread, Stages
    <3> QED BY <1>0, <2>0, <3>1, <3>2, <3>3 DEF PlayInv, NoThread
  <2>2. CASE ~(load.cancel \/ loadThread.at = "invalid")
    <3>1. load' = load /\ loadThread' = [loadThread EXCEPT !.at = "done"] /\ loadThread.at = "valid"
      BY <1>4, <2>0, <2>2 DEF HandleAsyncResult
    <3>2. loadThread' = [at |-> "done", file |-> loadThread.file, ticks |-> loadThread.ticks]
      BY <1>0, <3>1
    <3>3. ReadWell(loadThread')
      BY <1>0, <1>t, <3>1, <3>2 DEF ReadWell, Stages
    <3> QED BY <1>0, <2>0, <3>1, <3>2, <3>3 DEF PlayInv
  <2> QED BY <2>1, <2>2
<1>5. CASE StoreResult
  <2>1. /\ load' = [load EXCEPT !.completed = loadThread, !.state = "Completed"]
        /\ loadThread' = NoThread /\ replay' = replay /\ loadThread.at = "done"
    BY <1>5 DEF StoreResult, playVars
  <2> DEFINE w == [load EXCEPT !.completed = loadThread]
  <2>2. w = [state |-> load.state, cancel |-> load.cancel, asker |-> load.asker,
             completed |-> loadThread]
    BY <1>0
  <2>3. load' = [w EXCEPT !.state = "Completed"]
    BY <2>1
  <2> HIDE DEF w
  <2>4. load' = [state |-> "Completed", cancel |-> load.cancel, asker |-> load.asker,
                 completed |-> loadThread]
    BY <2>2, <2>3
  <2>5. ReadWell(loadThread')
    BY <1>t, <2>1 DEF ReadWell, NoThread, Stages
  <2> QED BY <1>0, <2>1, <2>4, <2>5 DEF PlayInv, NoThread
<1>7. CASE ProcessAsyncLoadCompletion
  <2>1. load' = [load EXCEPT !.state = "Idle", !.completed = NoThread] /\ loadThread' = loadThread
    BY <1>7 DEF ProcessAsyncLoadCompletion
  <2> DEFINE w == [load EXCEPT !.state = "Idle"]
  <2>2. w = [state |-> "Idle", cancel |-> load.cancel, asker |-> load.asker,
             completed |-> load.completed]
    BY <1>0
  <2>3. load' = [w EXCEPT !.completed = NoThread]
    BY <2>1
  <2> HIDE DEF w
  <2>4. load' = [state |-> "Idle", cancel |-> load.cancel, asker |-> load.asker,
                 completed |-> NoThread]
    BY <2>2, <2>3
  <2>5. Shaped(replay') /\ replay'.event \in Nat \ {0} /\ PlaysWell(replay')
    <3>1. CASE load.state # "Completed"
      BY <1>0, <1>7, <3>1 DEF ProcessAsyncLoadCompletion
    <3>2. CASE load.state = "Completed"
      <4> DEFINE c == load.completed
                 r == [Empty EXCEPT !.file = c.file, !.ticks = c.ticks]
                 p == [r EXCEPT !.playing = TRUE]
      <4>1. OnLoaded(r)
        BY <1>7, <3>2 DEF ProcessAsyncLoadCompletion
      <4>2. /\ c.file \in Files /\ c.ticks = Recording[c.file].ticks
            /\ Recording[c.file].damaged = "none"
        <5>1. ReadBy("done") = {"header", "ticks", "weapons", "events"}
          BY DEF ReadBy
        <5>2. c.at = "done" /\ ReadWell(c)
          BY <1>0, <3>2
        <5>3. c.file \in Files /\ c.ticks = Recording[c.file].ticks /\ Recording[c.file].damaged \notin ReadBy("done")
          BY <5>1, <5>2 DEF ReadWell
        <5>4. Recording[c.file].damaged \in ToSet(Sections) \cup {"none"}
          BY <5>3, ReplaysAssumption DEF WellFormed
        <5>5. ToSet(Sections) = {"header", "ticks", "weapons", "events"}
          BY DEF ToSet, Sections
        <5> QED BY <5>1, <5>3, <5>4, <5>5
      <4>3. /\ Shaped(r) /\ r.file = c.file /\ r.ticks = c.ticks /\ r.event = 1 /\ r.tick = 1 /\ r.playing = FALSE
            /\ Shaped(p) /\ p.file = c.file /\ p.ticks = c.ticks /\ p.event = 1 /\ p.tick = 1
        BY LoadedIs
      <4> HIDE DEF c, r
      <4>4. CASE replay' = r
        BY <4>3, <4>4 DEF PlaysWell
      <4>5. CASE replay' # r
        <5>1. replay' = p /\ Recording[r.file].map = "current"
          BY <4>1, <4>5 DEF OnLoaded
        <5>2. 1 \in DOMAIN c.ticks
          BY <4>2, RecordingIs
        <5> HIDE DEF p
        <5> QED BY <4>2, <4>3, <5>1, <5>2 DEF PlaysWell
      <4> QED BY <4>4, <4>5
    <3> QED BY <3>1, <3>2
  <2> QED BY <1>0, <2>1, <2>4, <2>5 DEF PlayInv
<1>8. CASE OnPhysicsSimulatePost
  <2>1. load' = load /\ loadThread' = loadThread /\ replay.playing
    BY <1>8 DEF OnPhysicsSimulatePost, loadVars
  <2>2. Shaped(replay') /\ replay'.event \in Nat \ {0} /\ PlaysWell(replay')
    <3>1. CASE replay.replayPaused
      <4>1. replay' = HoldTime(replay)
        BY <1>8, <3>1 DEF OnPhysicsSimulatePost
      <4>2. replay' = replay \/ replay' = [replay EXCEPT !.startTime = @ + Interval]
        BY <4>1 DEF HoldTime
      <4>3. CASE replay' = replay
        BY <1>0, <4>3
      <4>4. CASE replay' = [replay EXCEPT !.startTime = @ + Interval]
        <5>1. PICK k : k = replay.startTime + Interval
          OBVIOUS
        <5>2. replay' = [file |-> replay.file, ticks |-> replay.ticks, playing |-> replay.playing,
                         replayPaused |-> replay.replayPaused, tick |-> replay.tick, event |-> replay.event,
                         course |-> replay.course, startTime |-> k,
                         paused |-> replay.paused, checkpoint |-> replay.checkpoint]
          BY <1>0, <4>4, <5>1, FieldSet
        <5> QED BY <1>0, <5>2 DEF Shaped, PlaysWell
      <4> QED BY <4>2, <4>3, <4>4
    <3>2. CASE ~replay.replayPaused
      <4>1. replay' = [HoldTime(CheckEvents([replay EXCEPT !.checkpoint = replay.ticks[replay.tick].checkpoint]).replay)
                         EXCEPT !.tick = @ + 1, !.playing = ~(replay.tick = Len(replay.ticks))]
        BY <1>8, <3>2 DEF OnPhysicsSimulatePost
      <4> QED BY <1>0, <2>1, <4>1, PlayedOn
    <3> QED BY <3>1, <3>2
  <2> QED BY <1>0, <2>1, <2>2 DEF PlayInv
<1>9. CASE NavigateReplay
  <2>1. load' = load /\ loadThread' = loadThread /\ replay.playing
    BY <1>9 DEF NavigateReplay, loadVars
  <2>2. PICK target \in DOMAIN replay.ticks :
          LET r == ResetReplayState(replay)
              s == IF bot THEN ReprocessEventsUpToTick(r, target) ELSE [replay |-> r, mode |-> mode]
          IN  replay' = [s.replay EXCEPT !.tick = target]
    BY <1>9 DEF NavigateReplay
  <2>3. Shaped(replay') /\ replay'.event \in Nat \ {0} /\ PlaysWell(replay')
    BY <1>0, <2>1, <2>2, SoughtTo
  <2> QED BY <1>0, <2>1, <2>3 DEF PlayInv
<1>10. CASE ToggleReplayPause
  <2>1. load' = load /\ loadThread' = loadThread /\ replay' = [replay EXCEPT !.replayPaused = ~@]
    BY <1>10 DEF ToggleReplayPause, loadVars
  <2>2. PICK b : b = ~replay.replayPaused
    OBVIOUS
  <2>3. replay' = [file |-> replay.file, ticks |-> replay.ticks, playing |-> replay.playing,
                   replayPaused |-> b, tick |-> replay.tick, event |-> replay.event,
                   course |-> replay.course, startTime |-> replay.startTime,
                   paused |-> replay.paused, checkpoint |-> replay.checkpoint]
    BY <1>0, <2>1, <2>2, FieldSet
  <2>4. Shaped(replay') /\ replay'.event = replay.event /\ PlaysWell(replay')
    BY <1>0, <2>3 DEF Shaped, PlaysWell
  <2> QED BY <1>0, <2>1, <2>4 DEF PlayInv
<1>11. CASE Restart
  <2>1. loadThread' = NoThread /\ load' = Idle /\ replay' = Empty
    BY <1>11 DEF Restart
  <2>2. ReadWell(loadThread')
    BY <1>t, <2>1 DEF ReadWell, NoThread, Stages
  <2>3. Shaped(replay') /\ replay'.event = 1 /\ replay'.playing = FALSE
    BY <2>1 DEF Shaped, Empty
  <2>4. PlaysWell(replay')
    BY <2>3 DEF PlaysWell
  <2>5. /\ loadThread' = [at |-> loadThread'.at, file |-> loadThread'.file, ticks |-> loadThread'.ticks]
        /\ load' = [state |-> load'.state, cancel |-> load'.cancel, asker |-> load'.asker, completed |-> load'.completed]
        /\ load'.state = "Idle"
    BY <2>1 DEF NoThread, Idle
  <2> QED BY <1>0, <2>2, <2>3, <2>4, <2>5 DEF PlayInv
<1>12. CASE FramesWithoutBot \/ OnRoundStart \/ MapBegins \/ PlayerLeaves \/ Watcher \/ UNCHANGED allVars
  <2>1. load' = load /\ loadThread' = loadThread /\ replay' = replay
    BY <1>12 DEF FramesWithoutBot, OnRoundStart, MapBegins, PlayerLeaves, Watcher, allVars, loadVars, playVars
  <2> QED BY <1>0, <2>1 DEF PlayInv
<1> QED BY <1>1, <1>2, <1>3, <1>4, <1>5, <1>7, <1>8, <1>9, <1>10, <1>11, <1>12 DEF ReplaysNext

\* Whatever is loaded, cancelled, damaged or removed meanwhile, the thread has
\* read well what it has read, and a replay that is played is one of this map,
\* undamaged, at one of its ticks.
THEOREM ReplaysInvariant == ReplaysSpec => []PlayInv
<1>1. ReplaysInit => PlayInv
  BY PlayInvAtFirst
<1>2. PlayInv /\ [ReplaysNext]_allVars => PlayInv'
  BY PlayInvKept
<1> QED BY <1>1, <1>2, PTL DEF ReplaysSpec

\* The bot on the server plays an undamaged replay of this map with every tick as
\* it was recorded, through the codec of its file.
THEOREM PlaysTheRecording == ReplaysSpec => []PlaybackIsRecording
<1>1. PlayInv => PlaybackIsRecording
  BY DEF PlayInv, PlaysWell, PlaybackIsRecording
<1> QED BY <1>1, ReplaysInvariant, PTL
------------------------------------------------------------------------------
(* What the watcher keeps. *)

\* Of the files that a file is behind, as many stay as are needed, whichever go
\* that have that many before them themselves: those with the fewest before them.
LEMMA EnoughStay ==
  ASSUME NEW fs, IsFiniteSet(fs), NEW Before,
         \A f \in fs : Before[f] \subseteq fs /\ f \notin Before[f],
         \A f, g \in fs : g \in Before[f] => Before[g] \subseteq Before[f],
         NEW K \in Nat, NEW gone \in SUBSET fs, \A g \in gone : Cardinality(Before[g]) >= K,
         NEW f \in fs, Cardinality(Before[f]) >= K
  PROVE  Cardinality(Before[f] \ gone) >= K
<1>1. ASSUME NEW g \in fs PROVE IsFiniteSet(Before[g]) /\ Cardinality(Before[g]) \in Nat
  BY FS_Subset, FS_CardinalityType
<1> DEFINE D == {g \in Before[f] : ~(Cardinality(Before[g]) >= K)}
           R == Before[f] \ D
           N == {Cardinality(Before[g]) : g \in R}
<1>2. /\ Before[f] \subseteq fs /\ D \subseteq Before[f] /\ D \subseteq Before[f] \ gone
      /\ IsFiniteSet(Before[f]) /\ IsFiniteSet(D) /\ Cardinality(D) \in Nat
  <2>1. Before[f] \subseteq fs /\ D \subseteq Before[f] \ gone /\ IsFiniteSet(Before[f])
    BY <1>1
  <2> HIDE DEF D
  <2> QED BY <2>1, FS_Subset, FS_CardinalityType
<1>3. Cardinality(D) >= K
  <2> SUFFICES ASSUME ~(Cardinality(D) >= K) PROVE FALSE
    OBVIOUS
  <2>1. R # {}
    <3> HIDE DEF D
    <3> SUFFICES ASSUME R = {} PROVE FALSE
      OBVIOUS
    <3>1. D = Before[f]
      BY <1>2
    <3> QED BY <3>1
  <2>2. N \subseteq Nat /\ N # {}
    BY <1>1, <1>2, <2>1
  <2>3. PICK k \in N : \A y \in N : k <= y
    <3> HIDE DEF N
    <3> QED BY <2>2, LeastNatural
  <2>4. PICK g \in R : k = Cardinality(Before[g])
    BY <2>3
  <2>5. g \in fs /\ Before[g] \subseteq Before[f]
    BY <1>2
  <2>6. ASSUME NEW h \in Before[g] PROVE h \in D
    <3>1. h \in fs /\ h \in Before[f] /\ Before[h] \subseteq Before[g] /\ h \notin Before[h]
      BY <2>5
    <3>2. Cardinality(Before[h]) <= Cardinality(Before[g]) /\ Cardinality(Before[h]) # Cardinality(Before[g])
      <4>1. IsFiniteSet(Before[g]) /\ Before[h] \in SUBSET Before[g] /\ Before[g] # Before[h]
        BY <1>1, <2>5, <3>1
      <4> QED BY <4>1, FS_Subset
    <3>3. h \notin R
      <4> SUFFICES ASSUME h \in R PROVE FALSE
        OBVIOUS
      <4>1. k <= Cardinality(Before[h])
        BY <2>3
      <4> QED BY <1>1, <2>4, <2>5, <3>1, <3>2, <4>1
    <3> QED BY <3>1, <3>3
  <2>7. Cardinality(Before[g]) <= Cardinality(D)
    <3> HIDE DEF D
    <3> QED BY <1>2, <2>6, FS_Subset
  <2>8. Cardinality(Before[g]) >= K
    OBVIOUS
  <2> HIDE DEF D, R, N
  <2> QED BY <1>1, <1>2, <2>5, <2>7, <2>8
<1>4. IsFiniteSet(Before[f] \ gone) /\ Cardinality(D) <= Cardinality(Before[f] \ gone)
      /\ Cardinality(Before[f] \ gone) \in Nat
  <2> HIDE DEF D
  <2>1. IsFiniteSet(Before[f] \ gone)
    BY <1>2, FS_Subset
  <2> QED BY <1>2, <2>1, FS_Subset, FS_CardinalityType
<1> HIDE DEF D
<1> QED BY <1>2, <1>3, <1>4

\* What is worth a mark: a run or a cheater's replay that was on the disk, and
\* that is worth less than what is on it.
WorthLess(f) == f \in arrived /\ (f \in disk => Header[f].kind # "manual" /\ Spared(f, disk))

ArchiveInv ==
  /\ disk \subseteq arrived /\ arrived \subseteq Files /\ IsFiniteSet(disk)
  /\ \A f \in Files : archivedIndex[f] # NotArchived \/ savedIndex[f] # NotArchived => WorthLess(f)

LEMMA KindIs ==
  ASSUME NEW f \in Files
  PROVE  /\ Header[f].kind \in {"run", "manual", "cheater"}
         /\ Header[f].time \in Nat /\ Header[f].stamp \in Nat
         /\ MaxPer \in Nat /\ MaxManual \in Nat
BY ArchiveAssumption

\* More replays on the disk leave a replay behind as many as before.
LEMMA SparedGrows ==
  ASSUME NEW fs \in SUBSET Files, NEW more \in SUBSET Files, fs \subseteq more, IsFiniteSet(more),
         NEW f \in Files, Spared(f, fs)
  PROVE  Spared(f, more)
<1>1. /\ Faster(f, fs) \subseteq Faster(f, more) /\ IsFiniteSet(Faster(f, more))
      /\ Newer(f, fs) \subseteq Newer(f, more) /\ IsFiniteSet(Newer(f, more))
  <2>1. Faster(f, more) \subseteq more /\ Newer(f, more) \subseteq more
    BY DEF Faster, Newer, OfKind
  <2>2. Faster(f, fs) \subseteq Faster(f, more) /\ Newer(f, fs) \subseteq Newer(f, more)
    BY DEF Faster, Newer, OfKind
  <2> QED BY <2>1, <2>2, FS_Subset
<1>2. /\ Cardinality(Faster(f, fs)) <= Cardinality(Faster(f, more))
      /\ Cardinality(Newer(f, fs)) <= Cardinality(Newer(f, more))
      /\ Cardinality(Faster(f, fs)) \in Nat /\ Cardinality(Faster(f, more)) \in Nat
      /\ Cardinality(Newer(f, fs)) \in Nat /\ Cardinality(Newer(f, more)) \in Nat
  BY <1>1, FS_Subset, FS_CardinalityType
<1>3. Header[f].kind \in {"run", "manual", "cheater"} /\ MaxPer \in Nat /\ MaxManual \in Nat
  BY KindIs
<1>4. CASE Header[f].kind = "run"
  BY <1>2, <1>3, <1>4 DEF Spared
<1>5. CASE Header[f].kind = "manual"
  BY <1>2, <1>3, <1>5 DEF Spared
<1>6. CASE Header[f].kind = "cheater"
  BY <1>6 DEF Spared
<1> QED BY <1>3, <1>4, <1>5, <1>6

\* Removing replays that are spared themselves leaves a replay behind enough.
LEMMA SparedStays ==
  ASSUME NEW fs \in SUBSET Files, IsFiniteSet(fs), NEW gone \in SUBSET fs,
         \A g \in gone : Spared(g, fs), NEW f \in fs, Spared(f, fs)
  PROVE  Spared(f, fs \ gone)
<1>3. Header[f].kind \in {"run", "manual", "cheater"} /\ MaxPer \in Nat /\ MaxManual \in Nat
  BY KindIs
<1>4. CASE Header[f].kind = "run" /\ ~Header[f].styled
  <2> DEFINE us == {g \in fs : Header[g].kind = "run" /\ ~Header[g].styled}
             B  == [g \in us |-> Faster(g, fs)]
             ug == gone \cap us
  <2>1. IsFiniteSet(us)
    BY FS_Subset
  <2>2. ASSUME NEW g \in us
        PROVE  /\ B[g] = Faster(g, fs) /\ B[g] \subseteq us /\ g \notin B[g]
               /\ \A h \in us : h \in B[g] => B[h] \subseteq B[g]
    <3>1. B[g] = Faster(g, fs) /\ \A h \in us : B[h] = Faster(h, fs)
      OBVIOUS
    <3> HIDE DEF B
    <3>2. B[g] \subseteq us
      BY <3>1 DEF Faster, SameGroup, OfKind
    <3>3. \A h \in us : Header[h].time \in Nat
      BY KindIs
    <3>4. g \notin B[g]
      BY <3>1, <3>3 DEF Faster
    <3>5. ASSUME NEW h \in us, h \in B[g], NEW k \in B[h] PROVE k \in B[g]
      <4>1. h \in Faster(g, fs) /\ k \in Faster(h, fs)
        BY <3>1, <3>5
      <4>2. /\ k \in OfKind(fs, "run") /\ SameGroup(h, k) /\ SameGroup(g, h)
            /\ Header[k].time < Header[h].time /\ Header[h].time < Header[g].time
        BY <4>1 DEF Faster
      <4>3. SameGroup(g, k)
        BY <4>2 DEF SameGroup
      <4>4. Header[k].time \in Nat
        BY <4>2, KindIs DEF OfKind
      <4>5. Header[k].time < Header[g].time
        BY <3>3, <4>2, <4>4
      <4> QED BY <3>1, <4>2, <4>3, <4>5 DEF Faster
    <3> QED BY <3>1, <3>2, <3>4, <3>5
  <2>3. f \in us /\ Cardinality(B[f]) >= MaxPer
    BY <1>4, <2>2 DEF Spared
  <2>4. ug \in SUBSET us /\ \A g \in ug : Cardinality(B[g]) >= MaxPer
    BY <2>2 DEF Spared
  <2>5. Cardinality(B[f] \ ug) >= MaxPer
    <3> HIDE DEF us, B, ug
    <3> QED BY <1>3, <2>1, <2>2, <2>3, <2>4, EnoughStay
  <2>6. B[f] \ ug = Faster(f, fs \ gone)
    BY <2>2, <2>3 DEF Faster, SameGroup, OfKind
  <2> QED BY <1>4, <2>5, <2>6 DEF Spared
<1>5. CASE Header[f].kind = "manual"
  <2> DEFINE us == {g \in fs : Header[g].kind = "manual"}
             B  == [g \in us |-> Newer(g, fs)]
             ug == gone \cap us
  <2>1. IsFiniteSet(us)
    BY FS_Subset
  <2>2. ASSUME NEW g \in us
        PROVE  /\ B[g] = Newer(g, fs) /\ B[g] \subseteq us /\ g \notin B[g]
               /\ \A h \in us : h \in B[g] => B[h] \subseteq B[g]
    <3>1. B[g] = Newer(g, fs) /\ \A h \in us : B[h] = Newer(h, fs)
      OBVIOUS
    <3> HIDE DEF B
    <3>2. B[g] \subseteq us
      BY <3>1 DEF Newer, OfKind
    <3>3. \A h \in us : Header[h].stamp \in Nat
      BY KindIs
    <3>4. g \notin B[g]
      BY <3>1, <3>3 DEF Newer
    <3>5. ASSUME NEW h \in us, h \in B[g], NEW k \in B[h] PROVE k \in B[g]
      <4>1. h \in Newer(g, fs) /\ k \in Newer(h, fs)
        BY <3>1, <3>5
      <4>2. /\ k \in OfKind(fs, "manual") /\ Header[k].player = Header[h].player /\ Header[h].player = Header[g].player
            /\ Header[k].stamp > Header[h].stamp /\ Header[h].stamp > Header[g].stamp
        BY <4>1 DEF Newer
      <4>4. Header[k].stamp \in Nat
        BY <4>2, KindIs DEF OfKind
      <4>5. Header[k].stamp > Header[g].stamp
        BY <3>3, <4>2, <4>4
      <4> QED BY <3>1, <4>2, <4>5 DEF Newer
    <3> QED BY <3>1, <3>2, <3>4, <3>5
  <2>3. f \in us /\ Cardinality(B[f]) >= MaxManual
    BY <1>5, <2>2 DEF Spared
  <2>4. ug \in SUBSET us /\ \A g \in ug : Cardinality(B[g]) >= MaxManual
    BY <2>2 DEF Spared
  <2>5. Cardinality(B[f] \ ug) >= MaxManual
    <3> HIDE DEF us, B, ug
    <3> QED BY <1>3, <2>1, <2>2, <2>3, <2>4, EnoughStay
  <2>6. B[f] \ ug = Newer(f, fs \ gone)
    BY <2>2, <2>3 DEF Newer, OfKind
  <2> QED BY <1>5, <2>5, <2>6 DEF Spared
<1>6. CASE Header[f].kind = "run" /\ Header[f].styled
  BY <1>6 DEF Spared
<1>7. CASE Header[f].kind = "cheater"
  BY <1>7 DEF Spared
<1> QED BY <1>3, <1>4, <1>5, <1>6, <1>7

\* A scan: what it removes is spared by what it leaves, and so is what it marks.
LEMMA ScanSpares ==
  ASSUME ArchiveInv, ScanReplays
  PROVE  /\ disk' \subseteq disk
         /\ \A f \in disk \ disk' : Spared(f, disk')
         /\ \A f \in Files :
              archivedIndex[f] # NotArchived \/ savedIndex[f] # NotArchived \/ archivedIndex'[f] # NotArchived =>
                f \in arrived /\ (f \in disk' => Header[f].kind # "manual" /\ Spared(f, disk'))
<1> DEFINE gone == {f \in disk : Expired(f)}
           kept == disk \ gone
           many == TooMany(kept)
           left == kept \ many
<1>0. /\ disk \in SUBSET Files /\ disk \subseteq arrived /\ IsFiniteSet(disk)
      /\ \A f \in Files : archivedIndex[f] # NotArchived \/ savedIndex[f] # NotArchived => WorthLess(f)
  BY DEF ArchiveInv
<1>1. /\ disk' = left
      /\ \A f \in Files : archivedIndex'[f] # NotArchived =>
                            archivedIndex[f] # NotArchived \/ f \in ToArchive(kept)
  BY <1>0 DEF ScanReplays, Marked
<1>2. gone \in SUBSET disk /\ \A g \in gone : Header[g].kind # "manual" /\ Spared(g, disk)
  BY <1>0 DEF Expired, Marked, WorthLess
<1>3. many \in SUBSET kept /\ \A g \in many : Header[g].kind = "manual" /\ Spared(g, kept)
  BY DEF TooMany, OfKind, Spared
<1> HIDE DEF gone, many
<1>4. kept \in SUBSET Files /\ IsFiniteSet(kept) /\ left \in SUBSET kept
  BY <1>0, FS_Subset
<1>5. ASSUME NEW f \in disk, Spared(f, disk) PROVE Spared(f, kept)
  BY <1>0, <1>2, <1>5, SparedStays
<1>6. ASSUME NEW f \in kept, Spared(f, kept) PROVE Spared(f, left)
  BY <1>3, <1>4, <1>6, SparedStays
<1>7. ASSUME NEW f \in Files, Header[f].kind # "manual", Spared(f, kept) PROVE Spared(f, left)
  <2>1. Faster(f, left) = Faster(f, kept)
    BY <1>3 DEF Faster, OfKind
  <2> QED BY <1>7, <2>1 DEF Spared
<1>8. ASSUME NEW f \in disk \ left PROVE Spared(f, left)
  <2>1. CASE f \in gone
    BY <1>0, <1>2, <1>5, <1>7, <2>1
  <2>2. CASE f \in many
    BY <1>3, <1>6, <2>2
  <2> QED BY <2>1, <2>2
<1>9. ASSUME NEW f \in Files,
             archivedIndex[f] # NotArchived \/ savedIndex[f] # NotArchived \/ archivedIndex'[f] # NotArchived
      PROVE  f \in arrived /\ (f \in left => Header[f].kind # "manual" /\ Spared(f, left))
  <2>1. CASE archivedIndex[f] # NotArchived \/ savedIndex[f] # NotArchived
    <3>1. WorthLess(f)
      BY <1>0, <2>1
    <3> QED BY <1>5, <1>7, <3>1 DEF WorthLess
  <2>2. CASE ~(archivedIndex[f] # NotArchived \/ savedIndex[f] # NotArchived)
    <3>1. f \in ToArchive(kept)
      BY <1>1, <1>9, <2>2
    <3>2. f \in kept /\ Header[f].kind # "manual" /\ Spared(f, kept)
      BY <3>1 DEF ToArchive, OfKind, Spared
    <3> QED BY <1>0, <1>7, <3>2
  <2> QED BY <2>1, <2>2
<1> HIDE DEF kept, left
<1> QED BY <1>1, <1>4, <1>8, <1>9 DEF kept, left

\* Every step keeps the invariant, and removes what is spared.
LEMMA ArchiveInvKept ==
  ArchiveInv /\ [ReplaysNext]_allVars => ArchiveInv' /\ \A f \in disk \ disk' : Spared(f, disk')
<1> SUFFICES ASSUME ArchiveInv, [ReplaysNext]_allVars
             PROVE  ArchiveInv' /\ \A f \in disk \ disk' : Spared(f, disk')
  OBVIOUS
<1>0. /\ disk \subseteq arrived /\ arrived \subseteq Files /\ IsFiniteSet(disk)
      /\ \A f \in Files : archivedIndex[f] # NotArchived \/ savedIndex[f] # NotArchived => WorthLess(f)
  BY DEF ArchiveInv
<1>1. CASE FirstScan \/ WatchLoop
  <2>1. ScanReplays /\ arrived' = arrived
        /\ \A f \in Files : savedIndex'[f] # NotArchived =>
                              savedIndex[f] # NotArchived \/ archivedIndex'[f] # NotArchived
    BY <1>1 DEF FirstScan, WatchLoop
  <2>2. /\ disk' \subseteq disk
        /\ \A f \in disk \ disk' : Spared(f, disk')
        /\ \A f \in Files :
             archivedIndex[f] # NotArchived \/ savedIndex[f] # NotArchived \/ archivedIndex'[f] # NotArchived =>
               f \in arrived /\ (f \in disk' => Header[f].kind # "manual" /\ Spared(f, disk'))
    BY <2>1, ScanSpares
  <2>3. IsFiniteSet(disk')
    BY <1>0, <2>2, FS_Subset
  <2>4. ASSUME NEW f \in Files, archivedIndex'[f] # NotArchived \/ savedIndex'[f] # NotArchived PROVE WorthLess(f)'
    <3>1. f \in arrived /\ (f \in disk' => Header[f].kind # "manual" /\ Spared(f, disk'))
      BY <2>1, <2>2, <2>4
    <3> QED BY <2>1, <3>1 DEF WorthLess, Spared, Faster, Newer, OfKind, SameGroup
  <2> QED BY <1>0, <2>1, <2>2, <2>3, <2>4 DEF ArchiveInv
<1>2. CASE Arrives
  <2>1. PICK f \in Files \ arrived : disk' = disk \cup {f} /\ arrived' = arrived \cup {f}
    BY <1>2 DEF Arrives
  <2>2. archivedIndex' = archivedIndex /\ savedIndex' = savedIndex
    BY <1>2 DEF Arrives
  <2>3. IsFiniteSet(disk')
    BY <1>0, <2>1, FS_AddElement
  <2>4. ASSUME NEW g \in Files, archivedIndex'[g] # NotArchived \/ savedIndex'[g] # NotArchived PROVE WorthLess(g)'
    <3>1. WorthLess(g)
      BY <1>0, <2>2, <2>4
    <3>2. g \in arrived /\ g \in arrived' /\ g # f
      BY <2>1, <3>1 DEF WorthLess
    <3>3. CASE g \notin disk
      BY <2>1, <3>2, <3>3 DEF WorthLess
    <3>4. CASE g \in disk
      <4>1. Header[g].kind # "manual" /\ Spared(g, disk)
        BY <3>1, <3>4 DEF WorthLess
      <4>2. disk \in SUBSET Files /\ disk' \in SUBSET Files /\ disk \subseteq disk'
        BY <1>0, <2>1
      <4>3. Spared(g, disk')
        BY <2>3, <4>1, <4>2, SparedGrows
      <4> QED BY <3>2, <4>1, <4>3 DEF WorthLess, Spared, Faster, Newer, OfKind, SameGroup
    <3> QED BY <3>3, <3>4
  <2> QED BY <1>0, <2>1, <2>3, <2>4 DEF ArchiveInv
<1>3. CASE ~(FirstScan \/ WatchLoop \/ Arrives)
  <2>1. disk' = disk /\ arrived' = arrived
    BY <1>3 DEF ReplaysNext, LoadReplay, CancelReplayLoad, ReadSection, HandleAsyncResult, StoreResult,
         ProcessAsyncLoadCompletion, OnPhysicsSimulatePost, FramesWithoutBot, NavigateReplay, ToggleReplayPause, OnRoundStart, MapBegins,
         PlayerLeaves, Watcher, Restart, Start, TimePasses, StopWatching, allVars, watchVars
  <2>2. /\ savedIndex' = savedIndex
        /\ archivedIndex' = archivedIndex \/ archivedIndex' = savedIndex
    BY <1>3 DEF ReplaysNext, LoadReplay, CancelReplayLoad, ReadSection, HandleAsyncResult, StoreResult,
         ProcessAsyncLoadCompletion, OnPhysicsSimulatePost, FramesWithoutBot, NavigateReplay, ToggleReplayPause, OnRoundStart, MapBegins,
         PlayerLeaves, Watcher, Restart, Start, TimePasses, StopWatching, allVars, watchVars
  <2>3. ASSUME NEW f \in Files PROVE WorthLess(f)' <=> WorthLess(f)
    BY <2>1 DEF WorthLess, Spared, Faster, Newer, OfKind, SameGroup
  <2>4. \A f \in Files : archivedIndex'[f] # NotArchived \/ savedIndex'[f] # NotArchived => WorthLess(f)'
    BY <1>0, <2>2, <2>3
  <2> QED BY <1>0, <2>1, <2>4 DEF ArchiveInv
<1> QED BY <1>1, <1>2, <1>3

\* Whatever arrives, expires and restarts, what is marked to be archived is worth
\* less than what stays.
THEOREM ArchiveInvariant == ReplaysSpec => []ArchiveInv
<1>1. ReplaysInit => ArchiveInv
  <2> SUFFICES ASSUME ReplaysInit PROVE ArchiveInv
    OBVIOUS
  <2>1. disk = OnDisk /\ arrived = OnDisk /\ \A f \in Files : archivedIndex[f] = NotArchived /\ savedIndex[f] = NotArchived
    BY DEF ReplaysInit, ArchiveInit
  <2> QED BY <2>1, ReplaysAssumption DEF ArchiveInv
<1>2. ArchiveInv /\ [ReplaysNext]_allVars => ArchiveInv'
  BY ArchiveInvKept
<1> QED BY <1>1, <1>2, PTL DEF ReplaysSpec

\* A replay that the watcher removes has as many better ones of its player left
\* as are kept, whatever the order of its scans, its restarts and its marks.
THEOREM TheFastestAreKept == ReplaysSpec => FastestKept
<1>1. ArchiveInv /\ [ReplaysNext]_allVars => [\A f \in disk \ disk' : Spared(f, disk')]_allVars
  BY ArchiveInvKept
<1> QED BY <1>1, ArchiveInvariant, PTL DEF ReplaysSpec, FastestKept
------------------------------------------------------------------------------
(* The run that is shown. *)

\* By the first b events of a replay, the run that event s began is on.
OnFrom(f, b, s) ==
  /\ s \in 1..b /\ Begins(Events(f)[s])
  /\ \A k \in (s + 1)..b : ~Begins(Events(f)[k]) /\ ~Stops(Events(f)[k])

\* It is held by the first b events,
HeldAfter(f, b, s) ==
  \E k \in (s + 1)..b : /\ Events(f)[k].type = "PAUSE"
                        /\ \A n \in (k + 1)..b : Events(f)[n].type # "RESUME"

\* and was by those there were at tick t.
HeldAt(f, b, s, t) ==
  \E k \in (s + 1)..b :
    /\ Events(f)[k].type = "PAUSE" /\ Events(f)[k].serverTick <= Recording[f].ticks[t].serverTick
    /\ \A n \in (k + 1)..b : Events(f)[n].serverTick <= Recording[f].ticks[t].serverTick
                               => Events(f)[n].type # "RESUME"
Held(f, b, s, i) == {t \in 1..Len(Recording[f].ticks) : t < i /\ HeldAt(f, b, s, t)}

ModeIs(f, b, m) ==
  \A n \in 1..b :
    /\ Events(f)[n].type = "MODE" /\ Events(f)[n].mode \in KnownModes
    /\ \A k \in (n + 1)..b : Events(f)[k].type # "MODE"
    => m = Events(f)[n].mode

\* The tick of an event.
FirstAt(f, k) == TickAt(Recording[f], Events(f)[k].serverTick)

\* The order of the ticks and the events of a recording.
LEMMA OrderIs ==
  ASSUME NEW f \in Files
  PROVE  /\ \A i, j \in 1..Len(Recording[f].ticks) :
              i <= j <=> Recording[f].ticks[i].serverTick <= Recording[f].ticks[j].serverTick
         /\ \A i, j \in 1..Len(Events(f)) : i <= j => Events(f)[i].serverTick <= Events(f)[j].serverTick
         /\ \A i \in 1..Len(Events(f)) : \E t \in 1..Len(Recording[f].ticks) :
              Recording[f].ticks[t].serverTick = Events(f)[i].serverTick
<1> DEFINE E == Events(f)
           K == Recording[f].ticks
<1>1. WellFormed(Recording[f])
  BY ReplaysAssumption
<1>2. /\ \A i, j \in DOMAIN K : i < j => K[i].serverTick < K[j].serverTick
      /\ \A i, j \in DOMAIN E : i < j => E[i].serverTick <= E[j].serverTick
      /\ \A i \in DOMAIN E : \E t \in DOMAIN K : K[t].serverTick = E[i].serverTick
  BY <1>1 DEF WellFormed, Events
<1>3. /\ Len(E) \in Nat /\ Len(K) \in Nat /\ DOMAIN E = 1..Len(E) /\ DOMAIN K = 1..Len(K)
      /\ \A i \in 1..Len(E) : E[i].serverTick \in Nat
      /\ \A t \in 1..Len(K) : K[t].serverTick \in Nat
  <2>1. E \in Seq(Event)
    BY RecordingIs
  <2> QED BY <2>1, RecordingIs
<1> HIDE DEF E, K
<1>4. ASSUME NEW i \in 1..Len(K), NEW j \in 1..Len(K) PROVE i <= j <=> K[i].serverTick <= K[j].serverTick
  <2>1. i < j \/ i = j \/ j < i
    BY <1>3
  <2> QED BY <1>2, <1>3, <2>1
<1>5. ASSUME NEW i \in 1..Len(E), NEW j \in 1..Len(E), i <= j PROVE E[i].serverTick <= E[j].serverTick
  <2>1. i < j \/ i = j
    BY <1>3, <1>5
  <2> QED BY <1>2, <1>3, <2>1
<1> QED BY <1>2, <1>3, <1>4, <1>5 DEF E, K

\* TickAt is the tick of an event, the first that is not before it.
LEMMA FirstIs ==
  ASSUME NEW f \in Files, NEW k \in 1..Len(Events(f))
  PROVE  /\ FirstAt(f, k) \in 1..Len(Recording[f].ticks)
         /\ Recording[f].ticks[FirstAt(f, k)].serverTick = Events(f)[k].serverTick
         /\ \A r : r.ticks = Recording[f].ticks => TickAt(r, Events(f)[k].serverTick) = FirstAt(f, k)
         /\ FirstAt(f, k) = Min({t \in DOMAIN Recording[f].ticks :
                                   Recording[f].ticks[t].serverTick >= Events(f)[k].serverTick})
<1> DEFINE K == Recording[f].ticks
           c == Events(f)[k].serverTick
           I == {t \in 1..Len(K) : K[t].serverTick >= c}
<1>1. /\ Len(K) \in Nat /\ DOMAIN K = 1..Len(K) /\ c \in Nat
      /\ \A t \in 1..Len(K) : K[t].serverTick \in Nat
  BY RecordingIs
<1>2. \A i, j \in 1..Len(K) : i <= j <=> K[i].serverTick <= K[j].serverTick
  BY OrderIs
<1>3. PICK t \in 1..Len(K) : K[t].serverTick = c
  BY OrderIs
<1>4. \A r : r.ticks = K => TickAt(r, c) = IF I # {} THEN Min(I) ELSE 0
  BY DEF TickAt, SelectInSeq
<1>5. FirstAt(f, k) = IF I # {} THEN Min(I) ELSE 0
  BY <1>4 DEF FirstAt
<1> HIDE DEF K, c
<1>6. t \in I /\ \A y \in I : t <= y
  BY <1>1, <1>2, <1>3
<1>7. Min(I) = t
  <2>1. Min(I) \in I /\ \A y \in I : Min(I) <= y
    BY <1>6 DEF Min
  <2>2. Min(I) <= t /\ t <= Min(I) /\ Min(I) \in Nat /\ t \in Nat
    BY <1>1, <1>6, <2>1
  <2> QED BY <2>2
<1>8. I = {x \in DOMAIN K : K[x].serverTick >= c}
  BY <1>1
<1> QED BY <1>3, <1>4, <1>5, <1>6, <1>7, <1>8 DEF K, c

\* What an event makes of the run that is on.
LEMMA OnNext ==
  ASSUME NEW f \in Files, NEW b \in Nat, b + 1 \in 1..Len(Events(f)), NEW s
  PROVE  /\ Begins(Events(f)[b + 1]) => (OnFrom(f, b + 1, s) <=> s = b + 1) /\ ~HeldAfter(f, b + 1, b + 1)
         /\ Stops(Events(f)[b + 1]) => ~OnFrom(f, b + 1, s)
         /\ ~Begins(Events(f)[b + 1]) /\ ~Stops(Events(f)[b + 1]) => (OnFrom(f, b + 1, s) <=> OnFrom(f, b, s))
<1> DEFINE e == Events(f)[b + 1]
<1>1. ~(Begins(e) /\ Stops(e))
  BY DEF Begins, Stops
<1>2. CASE Begins(e)
  <2>1. s = b + 1 => OnFrom(f, b + 1, s)
    BY <1>2 DEF OnFrom
  <2>2. OnFrom(f, b + 1, s) => s = b + 1
    <3> SUFFICES ASSUME OnFrom(f, b + 1, s), s # b + 1 PROVE FALSE
      OBVIOUS
    <3>1. b + 1 \in (s + 1)..(b + 1)
      BY DEF OnFrom
    <3> QED BY <1>2, <3>1 DEF OnFrom
  <2>3. ~HeldAfter(f, b + 1, b + 1)
    BY DEF HeldAfter
  <2> QED BY <1>1, <1>2, <2>1, <2>2, <2>3
<1>3. CASE Stops(e)
  <2> SUFFICES ASSUME OnFrom(f, b + 1, s) PROVE FALSE
    BY <1>1, <1>3
  <2>1. s = b + 1 \/ b + 1 \in (s + 1)..(b + 1)
    BY DEF OnFrom
  <2> QED BY <1>1, <1>3, <2>1 DEF OnFrom
<1>4. CASE ~Begins(e) /\ ~Stops(e)
  <2>1. ASSUME OnFrom(f, b + 1, s) PROVE OnFrom(f, b, s)
    <3>1. s # b + 1
      BY <1>4, <2>1 DEF OnFrom
    <3>2. s \in 1..b /\ \A k \in (s + 1)..b : k \in (s + 1)..(b + 1)
      BY <2>1, <3>1 DEF OnFrom
    <3> QED BY <2>1, <3>2 DEF OnFrom
  <2>2. ASSUME OnFrom(f, b, s) PROVE OnFrom(f, b + 1, s)
    <3>1. s \in 1..(b + 1) /\ \A k \in (s + 1)..(b + 1) : k \in (s + 1)..b \/ k = b + 1
      BY <2>2 DEF OnFrom
    <3> QED BY <1>4, <2>2, <3>1 DEF OnFrom
  <2> QED BY <1>4, <2>1, <2>2
<1> QED BY <1>2, <1>3, <1>4

\* What an event makes of a hold.
LEMMA HeldNext ==
  ASSUME NEW f \in Files, NEW b \in Nat, b + 1 \in 1..Len(Events(f)), NEW s \in 1..b
  PROVE  /\ Events(f)[b + 1].type = "PAUSE" => HeldAfter(f, b + 1, s)
         /\ Events(f)[b + 1].type = "RESUME" => ~HeldAfter(f, b + 1, s)
         /\ Events(f)[b + 1].type \notin {"PAUSE", "RESUME"} => (HeldAfter(f, b + 1, s) <=> HeldAfter(f, b, s))
<1> DEFINE E == Events(f)
<1>0. /\ b + 1 \in (s + 1)..(b + 1) /\ ((b + 1) + 1)..(b + 1) = {}
      /\ \A k \in (s + 1)..b : k \in (s + 1)..(b + 1) /\ b + 1 \in (k + 1)..(b + 1)
                               /\ \A n \in (k + 1)..b : n \in (k + 1)..(b + 1)
      /\ \A k \in (s + 1)..(b + 1) : k \in (s + 1)..b \/ k = b + 1
      /\ \A k \in (s + 1)..(b + 1) : \A n \in (k + 1)..(b + 1) : n \in (k + 1)..b \/ n = b + 1
  OBVIOUS
<1> HIDE DEF E
<1>1. CASE E[b + 1].type = "PAUSE"
  BY <1>0, <1>1 DEF HeldAfter, E
<1>2. CASE E[b + 1].type = "RESUME"
  BY <1>0, <1>2 DEF HeldAfter, E
<1>3. CASE E[b + 1].type \notin {"PAUSE", "RESUME"}
  <2>1. HeldAfter(f, b, s) => HeldAfter(f, b + 1, s)
    BY <1>0, <1>3 DEF HeldAfter, E
  <2>2. HeldAfter(f, b + 1, s) => HeldAfter(f, b, s)
    BY <1>0, <1>3 DEF HeldAfter, E
  <2> QED BY <1>3, <2>1, <2>2 DEF E
<1> QED BY <1>1, <1>2, <1>3 DEF E

\* The hold of a tick is that of the events there were by it.
LEMMA HeldAtIs ==
  ASSUME NEW f \in Files, NEW b \in Nat, NEW c \in 0..Len(Events(f)), b <= c, NEW s \in Nat,
         NEW t \in 1..Len(Recording[f].ticks)
  PROVE  /\ (\A k \in (b + 1)..c : ~(Events(f)[k].serverTick <= Recording[f].ticks[t].serverTick))
              => (HeldAt(f, c, s, t) <=> HeldAt(f, b, s, t))
         /\ (\A k \in 1..c : Events(f)[k].serverTick <= Recording[f].ticks[t].serverTick)
              => (HeldAt(f, c, s, t) <=> HeldAfter(f, c, s))
<1> DEFINE E == Events(f)
           By(k) == E[k].serverTick <= Recording[f].ticks[t].serverTick
<1>1. ASSUME \A k \in (b + 1)..c : ~By(k) PROVE HeldAt(f, c, s, t) <=> HeldAt(f, b, s, t)
  <2>0. /\ \A k \in (s + 1)..b : k \in (s + 1)..c
        /\ \A k \in (s + 1)..c : By(k) => k \in (s + 1)..b
        /\ \A k \in (s + 1)..c : \A n \in (k + 1)..c : By(n) => n \in (k + 1)..b
        /\ \A k \in (s + 1)..c : \A n \in (k + 1)..b : n \in (k + 1)..c
    <3>1. c \in Nat
      BY RecordingIs
    <3> HIDE DEF By
    <3> QED BY <1>1, <3>1
  <2>1. HeldAt(f, c, s, t) => HeldAt(f, b, s, t)
    <3> SUFFICES ASSUME HeldAt(f, c, s, t) PROVE HeldAt(f, b, s, t)
      OBVIOUS
    <3>1. PICK k \in (s + 1)..c : /\ E[k].type = "PAUSE" /\ By(k)
                                  /\ \A n \in (k + 1)..c : By(n) => E[n].type # "RESUME"
      BY DEF HeldAt
    <3>2. k \in (s + 1)..b /\ \A n \in (k + 1)..b : By(n) => E[n].type # "RESUME"
      BY <2>0, <3>1
    <3> QED BY <3>1, <3>2 DEF HeldAt
  <2>2. HeldAt(f, b, s, t) => HeldAt(f, c, s, t)
    <3> SUFFICES ASSUME HeldAt(f, b, s, t) PROVE HeldAt(f, c, s, t)
      OBVIOUS
    <3>1. PICK k \in (s + 1)..b : /\ E[k].type = "PAUSE" /\ By(k)
                                  /\ \A n \in (k + 1)..b : By(n) => E[n].type # "RESUME"
      BY DEF HeldAt
    <3>2. k \in (s + 1)..c /\ \A n \in (k + 1)..c : By(n) => E[n].type # "RESUME"
      BY <2>0, <3>1
    <3> QED BY <3>1, <3>2 DEF HeldAt
  <2> QED BY <2>1, <2>2
<1>2. ASSUME \A k \in 1..c : By(k) PROVE HeldAt(f, c, s, t) <=> HeldAfter(f, c, s)
  <2>1. \A k \in (s + 1)..c : k \in 1..c /\ \A n \in (k + 1)..c : n \in 1..c
    BY RecordingIs
  <2>2. \A k \in (s + 1)..c : By(k) /\ \A n \in (k + 1)..c : By(n)
    <3> HIDE DEF By
    <3> QED BY <1>2, <2>1
  <2>3. HeldAt(f, c, s, t) <=>
          \E k \in (s + 1)..c : /\ E[k].type = "PAUSE" /\ By(k)
                                /\ \A n \in (k + 1)..c : By(n) => E[n].type # "RESUME"
    BY DEF HeldAt
  <2> HIDE DEF By, E
  <2>4. HeldAt(f, c, s, t) <=>
          \E k \in (s + 1)..c : /\ E[k].type = "PAUSE"
                                /\ \A n \in (k + 1)..c : E[n].type # "RESUME"
    BY <2>2, <2>3
  <2> QED BY <2>4 DEF HeldAfter, E
<1> QED BY <1>1, <1>2

LEMMA HeldIsFinite ==
  ASSUME NEW f \in Files, NEW b, NEW s, NEW i
  PROVE  IsFiniteSet(Held(f, b, s, i)) /\ Cardinality(Held(f, b, s, i)) \in Nat
<1>1. IsFiniteSet(1..Len(Recording[f].ticks))
  BY RecordingIs, FS_Interval
<1>2. Held(f, b, s, i) \subseteq 1..Len(Recording[f].ticks)
  BY DEF Held
<1> QED BY <1>1, <1>2, FS_Subset, FS_CardinalityType

LEMMA NoneHeld ==
  ASSUME NEW f \in Files, NEW b \in Nat, NEW s \in Nat, s >= b, NEW i
  PROVE  Cardinality(Held(f, b, s, i)) = 0
<1>1. (s + 1)..b = {}
  OBVIOUS
<1>2. Held(f, b, s, i) = {}
  BY <1>1 DEF Held, HeldAt
<1> QED BY <1>2, FS_EmptySet

\* From the b events there were before tick T to the c that there are by it ...
NewAt(f, b, c, T) ==
  /\ \A k \in 1..c : Events(f)[k].serverTick <= Recording[f].ticks[T].serverTick
  /\ \A k \in (b + 1)..c : \A t \in 1..(T - 1) :
       ~(Events(f)[k].serverTick <= Recording[f].ticks[t].serverTick)
\* ... the held ticks grow by those from T on, if T is held.
HeldGrows(f, b, c, s, T, j) ==
  Cardinality(Held(f, c, s, j)) = Cardinality(Held(f, b, s, T)) + IF HeldAfter(f, c, s) THEN j - T ELSE 0

\* From the events there were before a tick to those there are by it: the
\* ticks that were held stay, and those from this one on are held as it is.
LEMMA HeldOn ==
  ASSUME NEW f \in Files, NEW b \in Nat, NEW c \in 0..Len(Events(f)), b <= c, NEW s \in Nat,
         NEW T \in 1..Len(Recording[f].ticks), NEW j \in T..(Len(Recording[f].ticks) + 1), NewAt(f, b, c, T)
  PROVE  HeldGrows(f, b, c, s, T, j)
<1> USE DEF NewAt
<1> DEFINE L == Len(Recording[f].ticks)
           st(t) == Recording[f].ticks[t].serverTick
           more == IF HeldAfter(f, c, s) THEN T..(j - 1) ELSE {}
<1>1. /\ L \in Nat /\ c \in Nat /\ T \in Nat /\ j \in Nat
      /\ \A k \in 1..c : k \in 1..Len(Events(f)) /\ Events(f)[k].serverTick \in Nat
      /\ \A t \in 1..L : st(t) \in Nat
  BY RecordingIs
<1>2. \A x, y \in 1..L : x <= y <=> st(x) <= st(y)
  BY OrderIs
<1>3. ASSUME NEW t \in 1..L, t < T PROVE HeldAt(f, c, s, t) <=> HeldAt(f, b, s, t)
  <2>1. t \in 1..(T - 1)
    BY <1>1, <1>3
  <2> QED BY <2>1, HeldAtIs
<1>4. ASSUME NEW t \in 1..L, t >= T PROVE HeldAt(f, c, s, t) <=> HeldAfter(f, c, s)
  <2>1. st(T) <= st(t)
    BY <1>1, <1>2, <1>4
  <2>2. \A k \in 1..c : Events(f)[k].serverTick <= st(t)
    <3> HIDE DEF st
    <3>1. \A k \in 1..c : Events(f)[k].serverTick <= st(T)
      BY DEF st
    <3> QED BY <1>1, <1>4, <2>1, <3>1
  <2> QED BY <1>1, <2>2, HeldAtIs
<1>5. Held(f, c, s, j) = Held(f, b, s, T) \cup more
  <2>1. ASSUME NEW t \in 1..L PROVE t \in Held(f, c, s, j) <=> t \in Held(f, b, s, T) \cup more
    <3>1. CASE t < T
      <4>1. t < j /\ t \notin more
        BY <1>1, <3>1
      <4> QED BY <1>3, <3>1, <4>1 DEF Held
    <3>2. CASE t >= T
      <4>1. ~(t < T) /\ (t < j <=> t \in T..(j - 1))
        BY <1>1, <3>2
      <4> QED BY <1>4, <3>2, <4>1 DEF Held
    <3> QED BY <1>1, <3>1, <3>2
  <2>2. Held(f, c, s, j) \subseteq 1..L /\ Held(f, b, s, T) \subseteq 1..L /\ more \subseteq 1..L
    <3>1. T..(j - 1) \subseteq 1..L
      BY <1>1
    <3> QED BY <3>1 DEF Held
  <2> HIDE DEF more
  <2> QED BY <2>1, <2>2
<1>6. Held(f, b, s, T) \cap more = {}
  BY <1>1 DEF Held
<1>7. IsFiniteSet(more) /\ Cardinality(more) = IF HeldAfter(f, c, s) THEN j - T ELSE 0
  <2>1. IsFiniteSet(T..(j - 1)) /\ Cardinality(T..(j - 1)) = IF T > j - 1 THEN 0 ELSE (j - 1) - T + 1
    <3> PICK hi : hi = j - 1
      OBVIOUS
    <3>1. T \in Int /\ hi \in Int
      BY <1>1
    <3>2. IsFiniteSet(T..hi) /\ Cardinality(T..hi) = IF T > hi THEN 0 ELSE hi - T + 1
      BY ONLY <3>1, FS_Interval
    <3> QED BY <3>2
  <2>2. (IF T > j - 1 THEN 0 ELSE (j - 1) - T + 1) = j - T
    BY <1>1
  <2> QED BY <2>1, <2>2, FS_EmptySet
<1>8. Cardinality(Held(f, c, s, j)) = Cardinality(Held(f, b, s, T)) + Cardinality(more) - Cardinality({})
  <2> HIDE DEF more
  <2> QED BY <1>5, <1>6, <1>7, HeldIsFinite, FS_Union
<1>9. Cardinality({}) = 0 /\ Cardinality(Held(f, b, s, T)) \in Nat
  BY FS_EmptySet, HeldIsFinite
<1> HIDE DEF more
<1> QED BY <1>1, <1>7, <1>8, <1>9 DEF HeldGrows

\* No tick is missing while a run is on.
LEMMA NoGap ==
  ASSUME NEW f \in Files, Recording[f].map = "current", NEW b \in 0..Len(Events(f)), NEW s, OnFrom(f, b, s),
         NEW j \in FirstAt(f, s)..Len(Recording[f].ticks),
         \A k \in 1..Len(Events(f)) : \A t \in 1..(j - 1) :
           Events(f)[k].serverTick <= Recording[f].ticks[t].serverTick => k <= b
  PROVE  Recording[f].ticks[j].serverTick = Events(f)[s].serverTick + (j - FirstAt(f, s))
<1> DEFINE E == Events(f)
           L == Len(Recording[f].ticks)
           st(t) == Recording[f].ticks[t].serverTick
           first == FirstAt(f, s)
<1>1. /\ L \in Nat /\ b \in Nat /\ Len(E) \in Nat /\ DOMAIN E = 1..Len(E)
      /\ \A t \in 1..L : st(t) \in Nat
      /\ \A k \in 1..Len(E) : E[k].serverTick \in Nat
  <2>1. E \in Seq(Event)
    BY RecordingIs
  <2> QED BY <2>1, RecordingIs
<1>2. s \in 1..b /\ s \in 1..Len(E) /\ Begins(E[s]) /\ \A k \in (s + 1)..b : ~Stops(E[k])
  BY <1>1 DEF OnFrom
<1>3. first \in 1..L /\ st(first) = E[s].serverTick
  BY <1>2, FirstIs
<1>4. ASSUME NEW t \in first..(j - 1) PROVE st(t + 1) = st(t) + 1
  <2>0. t \in 1..(j - 1) /\ t \in 1..L /\ t \in 1..(L - 1) /\ first <= t
    BY <1>1, <1>3
  <2>1. E[s].serverTick <= st(t)
    <3>1. st(first) <= st(t)
      BY <1>3, <2>0, OrderIs
    <3> QED BY <1>3, <3>1
  <2>2. \/ st(t + 1) = st(t) + Interval
        \/ \A i \in DOMAIN E : Begins(E[i]) /\ E[i].serverTick <= st(t) =>
             \E k \in (i + 1)..Len(E) : Stops(E[k]) /\ E[k].serverTick <= st(t)
    <3>1. Timeable(Recording[f])
      BY ReplaysAssumption
    <3> QED BY <2>0, <3>1 DEF Timeable, Events
  <2>3. CASE st(t + 1) = st(t) + Interval
    BY <2>3 DEF Interval
  <2>4. CASE \A i \in DOMAIN E : Begins(E[i]) /\ E[i].serverTick <= st(t) =>
               \E k \in (i + 1)..Len(E) : Stops(E[k]) /\ E[k].serverTick <= st(t)
    <3>1. PICK k \in (s + 1)..Len(E) : Stops(E[k]) /\ E[k].serverTick <= st(t)
      BY <1>1, <1>2, <2>1, <2>4
    <3>2. k \in 1..Len(E)
      BY <1>1, <1>2
    <3>3. k <= b
      BY <2>0, <3>1, <3>2
    <3>4. k \in (s + 1)..b
      BY <1>1, <1>2, <3>3
    <3> QED BY <1>2, <3>1, <3>4
  <2> QED BY <2>2, <2>3, <2>4
<1> HIDE DEF st, first, L
<1> DEFINE S == {n \in 0..(j - first) : st(first + n) = st(first) + n}
<1>5. j - first \in Nat /\ j \in Nat /\ first \in Nat /\ j <= L
  BY <1>1, <1>3 DEF first, L
<1>6. 0 \in S
  BY <1>1, <1>3, <1>5
<1>7. ASSUME NEW i \in S, i \in 0..(j - first - 1) PROVE i + 1 \in S
  <2>1. first + i \in first..(j - 1) /\ first + i \in 1..L /\ (first + i) + 1 = first + (i + 1) /\ i + 1 \in 0..(j - first)
    <3>1. i \in Int /\ 0 <= i /\ i <= j - first - 1 /\ first \in 1..L /\ L \in Nat
      BY <1>1, <1>3, <1>7
    <3> QED BY ONLY <1>5, <3>1
  <2>2. st(first + (i + 1)) = st(first + i) + 1
    BY <1>4, <2>1
  <2>3. st(first + i) = st(first) + i /\ st(first) \in Nat /\ i \in Nat
    BY <1>1, <1>3, <1>7
  <2>4. st(first + (i + 1)) = st(first) + (i + 1)
    BY <2>2, <2>3
  <2> QED BY <2>1, <2>4
<1>8. \A i \in 0..(j - first) : i \in S
  <2> HIDE DEF S
  <2> QED BY <1>5, <1>6, <1>7, UpTo
<1>9. st(first + (j - first)) = st(first) + (j - first) /\ first + (j - first) = j
  BY <1>5, <1>8
<1> QED BY <1>3, <1>9 DEF st, first

\* The run that is shown is the one that is on by the first b events, and so is
\* the mode.
Shows(f, b, run, m) ==
  /\ (\A u \in 1..b : ~OnFrom(f, b, u)) => run.startTime = 0
  /\ \A u \in 1..b : OnFrom(f, b, u) =>
       /\ run.course = Events(f)[u].course
       /\ run.paused <=> HeldAfter(f, b, u)
  /\ ModeIs(f, b, m)

\* What an event does to the run: q is p after it.
Turned(p, e, q) ==
  /\ Begins(e) => q.course = e.course /\ q.paused = FALSE
  /\ Stops(e) => q.startTime = 0
  /\ ~Begins(e) /\ ~Stops(e) =>
       /\ q.startTime = p.startTime /\ q.course = p.course
       /\ q.paused <=> IF e.type = "PAUSE" THEN TRUE ELSE IF e.type = "RESUME" THEN FALSE ELSE p.paused
ModeAfter(m, e) == IF e.type = "MODE" THEN Switched(m, e.mode) ELSE m

LEMMA ModeNext ==
  ASSUME NEW f \in Files, NEW b \in Nat, b + 1 \in 1..Len(Events(f)), NEW m, ModeIs(f, b, m)
  PROVE  ModeIs(f, b + 1, ModeAfter(m, Events(f)[b + 1]))
<1> DEFINE E == Events(f)
           e == E[b + 1]
           w == ModeAfter(m, e)
<1> SUFFICES ASSUME NEW n \in 1..(b + 1), E[n].type = "MODE", E[n].mode \in KnownModes,
                    \A k \in (n + 1)..(b + 1) : E[k].type # "MODE"
             PROVE  w = E[n].mode
  BY DEF ModeIs
<1>1. CASE n = b + 1
  BY <1>1 DEF ModeAfter, Switched
<1>2. CASE n # b + 1
  <2>1. n \in 1..b /\ b + 1 \in (n + 1)..(b + 1) /\ \A k \in (n + 1)..b : k \in (n + 1)..(b + 1)
    BY <1>2
  <2>2. e.type # "MODE" /\ m = E[n].mode
    BY <2>1 DEF ModeIs
  <2> QED BY <2>2 DEF ModeAfter
<1> QED BY <1>1, <1>2

LEMMA ShowsNext ==
  ASSUME NEW f \in Files, NEW b \in Nat, b + 1 \in 1..Len(Events(f)), NEW p, NEW q, NEW m, Shows(f, b, p, m),
         Turned(p, Events(f)[b + 1], q)
  PROVE  Shows(f, b + 1, q, ModeAfter(m, Events(f)[b + 1]))
<1> DEFINE e == Events(f)[b + 1]
           c == b + 1
<1>0. ModeIs(f, c, ModeAfter(m, e))
  BY ModeNext DEF Shows
<1>1. CASE Begins(e)
  <2>1. OnFrom(f, c, c) /\ ~HeldAfter(f, c, c) /\ \A u : OnFrom(f, c, u) => u = c
    BY <1>1, OnNext
  <2>2. c \in 1..c
    OBVIOUS
  <2>3. q.course = e.course /\ q.paused = FALSE
    BY <1>1 DEF Turned
  <2> HIDE DEF c, e
  <2> QED BY <1>0, <2>1, <2>2, <2>3 DEF Shows, c, e
<1>2. CASE Stops(e)
  <2>1. \A u : ~OnFrom(f, c, u)
    BY <1>2, OnNext
  <2>2. q.startTime = 0
    BY <1>2 DEF Turned
  <2> QED BY <1>0, <2>1, <2>2 DEF Shows
<1>3. CASE ~Begins(e) /\ ~Stops(e)
  <2>1. \A u : OnFrom(f, c, u) <=> OnFrom(f, b, u)
    BY <1>3, OnNext
  <2>2. q.startTime = p.startTime /\ q.course = p.course
        /\ (q.paused <=> IF e.type = "PAUSE" THEN TRUE ELSE IF e.type = "RESUME" THEN FALSE ELSE p.paused)
    BY <1>3 DEF Turned
  <2>3. (\A u \in 1..c : ~OnFrom(f, c, u)) => q.startTime = 0
    <3>1. \A u \in 1..b : u \in 1..c
      OBVIOUS
    <3> QED BY <2>1, <2>2, <3>1 DEF Shows
  <2>4. ASSUME NEW u \in 1..c, OnFrom(f, c, u)
        PROVE  q.course = Events(f)[u].course /\ (q.paused <=> HeldAfter(f, c, u))
    <3>1. OnFrom(f, b, u) /\ u \in 1..b
      BY <2>1, <2>4 DEF OnFrom
    <3>2. p.course = Events(f)[u].course /\ (p.paused <=> HeldAfter(f, b, u))
      BY <3>1 DEF Shows
    <3>3. /\ e.type = "PAUSE" => HeldAfter(f, c, u)
          /\ e.type = "RESUME" => ~HeldAfter(f, c, u)
          /\ e.type \notin {"PAUSE", "RESUME"} => (HeldAfter(f, c, u) <=> HeldAfter(f, b, u))
      BY <3>1, HeldNext
    <3> HIDE DEF c, e
    <3>4. q.paused <=> HeldAfter(f, c, u)
      BY <2>2, <3>2, <3>3
    <3> QED BY <2>2, <3>2, <3>4
  <2> QED BY <1>0, <2>3, <2>4 DEF Shows
<1> QED BY <1>1, <1>2, <1>3

LEMMA EventIs ==
  ASSUME NEW f \in Files, NEW k \in 1..Len(Events(f))
  PROVE  /\ Events(f)[k] \in Event
         /\ Events(f)[k] = [type |-> Events(f)[k].type, serverTick |-> Events(f)[k].serverTick,
                            course |-> Events(f)[k].course, time |-> Events(f)[k].time, mode |-> Events(f)[k].mode]
         /\ Events(f)[k].type \in EventTypes /\ Events(f)[k].time \in Nat /\ Events(f)[k].serverTick \in Nat
<1>1. Events(f)[k] \in Event /\ Events(f)[k].serverTick \in Nat
  BY RecordingIs
<1> QED BY <1>1 DEF Event

LEMMA FieldPaused ==
  ASSUME NEW s, Shaped(s), NEW v
  PROVE  [s EXCEPT !.paused = v] =
         [file |-> s.file, ticks |-> s.ticks, playing |-> s.playing,
          replayPaused |-> s.replayPaused, tick |-> s.tick, event |-> s.event,
          course |-> s.course, startTime |-> s.startTime,
          paused |-> v, checkpoint |-> s.checkpoint]
BY DEF Shaped

\* The end of a run is that of the run that is on.
LEMMA EndsTheRun ==
  ASSUME NEW f \in Files, Recording[f].map = "current", NEW b \in Nat, b + 1 \in 1..Len(Events(f)),
         Events(f)[b + 1].type = "END"
  PROVE  /\ Events(f)[b + 1].course \in KnownCourses
         /\ \A u : OnFrom(f, b, u) => Events(f)[u].course = Events(f)[b + 1].course
<1> DEFINE E == Events(f)
<1>0. Len(E) \in Nat /\ DOMAIN E = 1..Len(E)
  <2>1. E \in Seq(Event)
    BY RecordingIs
  <2> QED BY <2>1
<1>1. WellFormed(Recording[f]) /\ Timeable(Recording[f])
  BY ReplaysAssumption
<1>2. E[b + 1].course \in KnownCourses
  BY <1>0, <1>1 DEF Timeable, Events
<1>3. PICK s \in 1..((b + 1) - 1) : /\ E[s].type = "START" /\ E[s].course = E[b + 1].course
                                    /\ \A k \in (s + 1)..((b + 1) - 1) : E[k].type # "START"
  <2>1. \A i \in DOMAIN E : E[i].type = "END" =>
          \E s \in 1..(i - 1) : /\ E[s].type = "START" /\ E[s].course = E[i].course
                                /\ \A k \in (s + 1)..(i - 1) : E[k].type # "START"
    BY <1>1 DEF WellFormed, Events
  <2> QED BY <1>0, <2>1
<1>4. Begins(E[s]) /\ s \in 1..b
  BY <1>2, <1>3 DEF Begins
<1>5. ASSUME NEW u, OnFrom(f, b, u) PROVE u = s
  <2>1. u \in 1..b /\ E[u].type = "START"
    BY <1>5 DEF OnFrom, Begins
  <2>2. ~(u < s)
    <3>1. u < s => s \in (u + 1)..b
      BY <1>4, <2>1
    <3> QED BY <1>4, <1>5, <3>1 DEF OnFrom
  <2>3. ~(s < u)
    <3>1. s < u => u \in (s + 1)..((b + 1) - 1)
      BY <1>4, <2>1
    <3> QED BY <1>3, <2>1, <3>1
  <2> QED BY <1>4, <2>1, <2>2, <2>3
<1> QED BY <1>2, <1>3, <1>5

\* HandleTimerEvent and HandleModeChangeEvent do to the run what an event does.
LEMMA HandleTurns ==
  ASSUME NEW f \in Files, Recording[f].map = "current", NEW b \in Nat, b + 1 \in 1..Len(Events(f)),
         NEW s, NEW r, Fits(FALSE, s, r), Shows(f, b, s.replay, s.mode)
  PROVE  LET e == Events(f)[b + 1]
             h == Handle(s, e)
         IN  /\ Turned(s.replay, e, h.replay) /\ h.mode = ModeAfter(s.mode, e)
             /\ h.replay.startTime = IF Begins(e) THEN curtime - e.time ELSE IF Stops(e) THEN 0 ELSE s.replay.startTime
<1> DEFINE e == Events(f)[b + 1]
           h == Handle(s, e)
           p == s.replay
<1>0. s = [replay |-> s.replay, mode |-> s.mode] /\ Shaped(p) /\ e.type \in EventTypes
  BY EventIs DEF Fits, Beside
<1> HIDE DEF e, p
<1>1. CASE e.type = "START"
  <2>1. CASE e.course \in KnownCourses
    <3>1. h = [replay |-> Started(p, e), mode |-> s.mode]
      BY <1>0, <1>1, <2>1 DEF Handle, p
    <3>2. Started(p, e) = [file |-> p.file, ticks |-> p.ticks, playing |-> p.playing,
            replayPaused |-> p.replayPaused, tick |-> p.tick, event |-> p.event,
            course |-> e.course, startTime |-> curtime - e.time, paused |-> FALSE,
            checkpoint |-> p.checkpoint]
      BY <1>0, StartedIs
    <3>3. Begins(e) /\ ~Stops(e)
      BY <1>1, <2>1 DEF Begins, Stops
    <3> HIDE DEF h
    <3>4. h.replay.course = e.course /\ h.replay.paused = FALSE
          /\ h.replay.startTime = curtime - e.time /\ h.mode = s.mode
      BY <3>1, <3>2
    <3> QED BY <1>1, <3>3, <3>4 DEF Turned, ModeAfter, h, e, p
  <2>2. CASE e.course \notin KnownCourses
    <3>1. h = s
      BY <1>1, <2>2 DEF Handle
    <3>2. ~Begins(e) /\ ~Stops(e)
      BY <1>1, <2>2 DEF Begins, Stops
    <3> QED BY <1>1, <3>1, <3>2 DEF Turned, ModeAfter, e, p
  <2> QED BY <2>1, <2>2
<1>2. CASE e.type \in {"END", "STOP"}
  <2>0. ~Begins(e) /\ Stops(e)
    BY <1>2 DEF Begins, Stops
  <2>1. CASE p.startTime = 0
    <3>1. h = s
      BY <1>2, <2>1 DEF Handle, p
    <3> QED BY <1>2, <2>0, <2>1, <3>1 DEF Turned, ModeAfter, e, p
  <2>2. CASE p.startTime # 0
    <3>1. PICK u \in 1..b : OnFrom(f, b, u)
      BY <2>2 DEF Shows, p
    <3>2. p.course = Events(f)[u].course
      BY <3>1 DEF Shows, p
    <3>3. e.type = "END" => e.course \in KnownCourses /\ e.course = p.course
      BY <3>1, <3>2, EndsTheRun DEF e
    <3>4. h = [replay |-> Ended(p), mode |-> s.mode]
      BY <1>0, <1>2, <2>2, <3>3 DEF Handle, p
    <3>5. Ended(p) = [file |-> p.file, ticks |-> p.ticks, playing |-> p.playing,
            replayPaused |-> p.replayPaused, tick |-> p.tick, event |-> p.event,
            course |-> NoCourse, startTime |-> 0, paused |-> p.paused,
            checkpoint |-> p.checkpoint]
      BY <1>0, EndedIs
    <3> HIDE DEF h
    <3>6. h.replay.startTime = 0 /\ h.mode = s.mode
      BY <3>4, <3>5
    <3> QED BY <1>2, <2>0, <3>6 DEF Turned, ModeAfter, h, e, p
  <2> QED BY <2>1, <2>2
<1>3. CASE e.type \in {"PAUSE", "RESUME"}
  <2>0. ~Begins(e) /\ ~Stops(e)
    BY <1>3 DEF Begins, Stops
  <2>1. PICK v : v = (e.type = "PAUSE")
    OBVIOUS
  <2>2. h = [replay |-> [p EXCEPT !.paused = v], mode |-> s.mode]
    BY <1>0, <1>3, <2>1 DEF Handle, p
  <2>3. [p EXCEPT !.paused = v] = [file |-> p.file, ticks |-> p.ticks, playing |-> p.playing,
          replayPaused |-> p.replayPaused, tick |-> p.tick, event |-> p.event,
          course |-> p.course, startTime |-> p.startTime,
          paused |-> v, checkpoint |-> p.checkpoint]
    BY <1>0, FieldPaused
  <2> HIDE DEF h
  <2>4. /\ h.replay.course = p.course /\ h.replay.paused = v
        /\ h.replay.startTime = p.startTime /\ h.mode = s.mode
    BY <2>2, <2>3
  <2>5. h.replay.paused <=> e.type = "PAUSE"
    BY <2>1, <2>4
  <2> QED BY <1>3, <2>0, <2>4, <2>5 DEF Turned, ModeAfter, h, e, p
<1>4. CASE e.type = "MODE"
  <2>0. ~Begins(e) /\ ~Stops(e)
    BY <1>4 DEF Begins, Stops
  <2>1. h = [replay |-> p, mode |-> Switched(s.mode, e.mode)]
    BY <1>0, <1>4 DEF Handle, p
  <2> QED BY <1>4, <2>0, <2>1 DEF Turned, ModeAfter, e, p
<1>5. CASE e.type = "TELEPORT"
  <2>0. ~Begins(e) /\ ~Stops(e)
    BY <1>5 DEF Begins, Stops
  <2>1. h = s
    BY <1>5 DEF Handle
  <2> QED BY <1>5, <2>0, <2>1 DEF Turned, ModeAfter, e, p
<1> QED BY <1>0, <1>1, <1>2, <1>3, <1>4, <1>5 DEF EventTypes

\* By event n of those that are due from b on: a run that began among them shows
\* the time it began with, another the time it had.
PlaysOn(f, n, b, r, s) ==
  /\ Shows(f, n, s.replay, s.mode)
  /\ \A u \in 1..n : OnFrom(f, n, u) =>
       s.replay.startTime = IF u > b THEN curtime - Events(f)[u].time ELSE r.startTime

LEMMA PlayedThrough ==
  ASSUME NEW f \in Files, Recording[f].map = "current", NEW b \in Nat, NEW n \in 0..Len(Events(f)), b <= n,
         NEW es \in Seq(Event), Len(es) = n - b, \A j \in 1..Len(es) : es[j] = Events(f)[b + j],
         NEW a, NEW r, Fits(FALSE, a, r), PlaysOn(f, b, b, r, a)
  PROVE  PlaysOn(f, n, b, r, ApplyAll(FALSE, a, es, 0))
<1> DEFINE L == Len(es)
<1>0. L \in Nat /\ n \in Nat /\ b + L = n /\ Len(Events(f)) \in Nat /\ n <= Len(Events(f))
  BY RecordingIs
<1>1. PICK g : Steps(g, FALSE, a, es, 0)
  BY AppliedInSteps
<1> DEFINE S == {j \in 0..L : Fits(FALSE, g[j], r) /\ PlaysOn(f, b + j, b, r, g[j])}
<1>2. 0 \in S
  <2>1. g[0] = a /\ b + 0 = b /\ 0 \in 0..L
    BY <1>0, <1>1 DEF Steps
  <2> QED BY <2>1
<1>3. ASSUME NEW i \in S, i \in 0..(L - 1) PROVE i + 1 \in S
  <2> DEFINE c == b + i
             e == Events(f)[c + 1]
             h == Handle(g[i], e)
  <2>0. /\ i + 1 \in 1..L /\ (i + 1) - 1 = i /\ c \in Nat /\ c + 1 = b + (i + 1) /\ c >= b
        /\ c + 1 \in 1..Len(Events(f)) /\ i + 1 \in 0..L
    BY <1>0, <1>3
  <2>1. g[i + 1] = Apply(FALSE, g[i], es[i + 1], 0) /\ es[i + 1] = e
    <3>1. g[i + 1] = Apply(FALSE, g[(i + 1) - 1], es[i + 1], 0)
      BY <1>1, <2>0 DEF Steps
    <3>2. es[i + 1] = Events(f)[b + (i + 1)]
      BY <2>0
    <3> HIDE DEF c
    <3> QED BY <2>0, <3>1, <3>2
  <2>2. Fits(FALSE, g[i], r) /\ Shows(f, c, g[i].replay, g[i].mode)
        /\ \A u \in 1..c : OnFrom(f, c, u) =>
             g[i].replay.startTime = IF u > b THEN curtime - Events(f)[u].time ELSE r.startTime
    BY DEF PlaysOn
  <2>3. g[i + 1] = h /\ Fits(FALSE, g[i + 1], r)
    <3>1. Fits(FALSE, Apply(FALSE, g[i], e, 0), r)
      <4> HIDE DEF e
      <4> QED BY <2>2, AppliedFits
    <3>2. Apply(FALSE, g[i], e, 0) = h
      BY DEF Apply
    <3> HIDE DEF h, e
    <3> QED BY <2>1, <3>1, <3>2
  <2>4. /\ Turned(g[i].replay, e, h.replay) /\ h.mode = ModeAfter(g[i].mode, e)
        /\ h.replay.startTime = IF Begins(e) THEN curtime - e.time ELSE IF Stops(e) THEN 0 ELSE g[i].replay.startTime
    <3> PICK k, x : k = c /\ x = g[i]
      OBVIOUS
    <3>1. k \in Nat /\ k + 1 \in 1..Len(Events(f)) /\ Fits(FALSE, x, r) /\ Shows(f, k, x.replay, x.mode)
      BY <2>0, <2>2
    <3>2. /\ Turned(x.replay, Events(f)[k + 1], Handle(x, Events(f)[k + 1]).replay)
          /\ Handle(x, Events(f)[k + 1]).mode = ModeAfter(x.mode, Events(f)[k + 1])
          /\ Handle(x, Events(f)[k + 1]).replay.startTime =
               IF Begins(Events(f)[k + 1]) THEN curtime - Events(f)[k + 1].time
               ELSE IF Stops(Events(f)[k + 1]) THEN 0 ELSE x.replay.startTime
      BY ONLY f \in Files, Recording[f].map = "current", <3>1, HandleTurns
    <3> QED BY <3>2
  <2> HIDE DEF h
  <2>5. Shows(f, c + 1, h.replay, h.mode)
    <3>0. PICK p, q, m : p = g[i].replay /\ q = h.replay /\ m = g[i].mode
      OBVIOUS
    <3>1. Shows(f, c, p, m) /\ Turned(p, Events(f)[c + 1], q)
      BY <2>2, <2>4, <3>0
    <3>2. c \in Nat /\ c + 1 \in 1..Len(Events(f))
      BY <2>0
    <3> HIDE DEF c
    <3>3. Shows(f, c + 1, q, ModeAfter(m, Events(f)[c + 1]))
      BY ONLY f \in Files, <3>1, <3>2, ShowsNext
    <3> QED BY <2>4, <3>0, <3>3
  <2>6. ASSUME NEW u \in 1..(c + 1), OnFrom(f, c + 1, u)
        PROVE  h.replay.startTime = IF u > b THEN curtime - Events(f)[u].time ELSE r.startTime
    <3>1. /\ Begins(e) => (OnFrom(f, c + 1, u) <=> u = c + 1)
          /\ Stops(e) => ~OnFrom(f, c + 1, u)
          /\ ~Begins(e) /\ ~Stops(e) => (OnFrom(f, c + 1, u) <=> OnFrom(f, c, u))
      <4> PICK k : k = c
        OBVIOUS
      <4>1. k \in Nat /\ k + 1 \in 1..Len(Events(f))
        BY <2>0
      <4>2. /\ Begins(Events(f)[k + 1]) => (OnFrom(f, k + 1, u) <=> u = k + 1)
            /\ Stops(Events(f)[k + 1]) => ~OnFrom(f, k + 1, u)
            /\ ~Begins(Events(f)[k + 1]) /\ ~Stops(Events(f)[k + 1]) => (OnFrom(f, k + 1, u) <=> OnFrom(f, k, u))
        BY ONLY f \in Files, <4>1, OnNext
      <4> QED BY <4>2
    <3>2. CASE Begins(e)
      <4>1. u = c + 1 /\ u > b
        BY <1>0, <2>0, <2>6, <3>1, <3>2
      <4> QED BY <2>4, <3>2, <4>1
    <3>3. CASE ~Begins(e)
      <4>1. OnFrom(f, c, u) /\ ~Stops(e)
        BY <2>6, <3>1, <3>3
      <4>2. u \in 1..c
        BY <4>1 DEF OnFrom
      <4> QED BY <2>2, <2>4, <3>3, <4>1, <4>2
    <3> QED BY <3>2, <3>3
  <2>7. PlaysOn(f, c + 1, b, r, h)
    BY <2>5, <2>6 DEF PlaysOn
  <2> QED BY <2>0, <2>3, <2>7
<1>4. \A i \in 0..L : i \in S
  <2> HIDE DEF S
  <2> QED BY <1>0, <1>2, <1>3, UpTo
<1>5. ApplyAll(FALSE, a, es, 0) = g[L]
  BY <1>1 DEF Steps
<1>6. L \in S
  <2> HIDE DEF S, L
  <2> QED BY <1>0, <1>4
<1>7. PlaysOn(f, b + L, b, r, g[L])
  BY <1>6
<1> HIDE DEF L
<1> QED BY <1>0, <1>5, <1>7

\* What a startTime shows by clock c of a run whose whole time is given and how long
\* it was held, if the map was g old when the replay was begun.
HasTime(startTime, c, g, whole, held) ==
  /\ startTime \in Int
  /\ g > whole => startTime > 0
  /\ startTime > 0 => c - startTime = whole - held

LEMMA HasTimeAtFirst ==
  ASSUME NEW c \in Nat, NEW g \in Nat, g <= c, NEW whole \in Nat
  PROVE  HasTime(c - whole, c, g, whole, 0)
BY DEF HasTime

LEMMA HasTimeNext ==
  ASSUME NEW s, NEW c \in Nat, NEW g \in Nat, NEW whole \in Int, NEW held \in Int, HasTime(s, c, g, whole, held)
  PROVE  /\ HasTime(s, c + 1, g, whole + 1, held)
         /\ HasTime(IF s > 0 THEN s + 1 ELSE s, c + 1, g, whole + 1, held + 1)
         /\ HasTime(IF s > 0 THEN s + 1 ELSE s, c + 1, g, whole, held)
BY DEF HasTime

LEMMA HasTimeSought ==
  ASSUME NEW c \in Nat, NEW g \in Nat, g <= c, NEW whole \in Int, NEW held \in Nat, NEW s, s = c - whole
  PROVE  HasTime(IF s > 0 THEN s + held ELSE s, c, g, whole, held)
<1>0. s \in Int /\ (g > whole => s > 0)
  OBVIOUS
<1>1. CASE s > 0
  BY <1>0, <1>1 DEF HasTime
<1>2. CASE ~(s > 0)
  BY <1>0, <1>2 DEF HasTime
<1> QED BY <1>1, <1>2

\* What carrying the time along leaves alone.
LEMMA HoldTimeIs ==
  ASSUME NEW r, Shaped(r)
  PROVE  LET w == HoldTime(r)
         IN  /\ Shaped(w) /\ w.file = r.file /\ w.ticks = r.ticks /\ w.playing = r.playing /\ w.tick = r.tick
             /\ w.event = r.event /\ w.course = r.course /\ w.paused = r.paused /\ w.replayPaused = r.replayPaused
             /\ w.startTime = IF r.startTime > 0 /\ (r.replayPaused \/ r.paused) THEN r.startTime + 1 ELSE r.startTime
<1> DEFINE w == HoldTime(r)
<1>1. CASE r.startTime > 0 /\ (r.replayPaused \/ r.paused)
  <2>1. PICK v : v = r.startTime + 1
    OBVIOUS
  <2>2. w = [r EXCEPT !.startTime = v]
    BY <1>1, <2>1 DEF HoldTime, Interval
  <2> HIDE DEF w
  <2>3. w = [file |-> r.file, ticks |-> r.ticks, playing |-> r.playing, replayPaused |-> r.replayPaused,
             tick |-> r.tick, event |-> r.event, course |-> r.course, startTime |-> v,
             paused |-> r.paused, checkpoint |-> r.checkpoint]
    BY <2>2, FieldSet
  <2> QED BY <1>1, <2>1, <2>3 DEF Shaped, w
<1>2. CASE ~(r.startTime > 0 /\ (r.replayPaused \/ r.paused))
  BY <1>2 DEF HoldTime
<1> QED BY <1>1, <1>2

\* At tick i, by the first b events: none of them is after the tick, those before
\* it are among them, and the run shown has the time it had.
ShownWell(f, b, i, run, m, c, g) ==
  /\ b \in 0..Len(Events(f))
  /\ \A k \in 1..b : Events(f)[k].serverTick <= Recording[f].ticks[i].serverTick
  /\ \A k \in 1..Len(Events(f)) : \A t \in 1..(i - 1) :
       Events(f)[k].serverTick <= Recording[f].ticks[t].serverTick => k <= b
  /\ Shows(f, b, run, m)
  /\ \A u \in 1..b : OnFrom(f, b, u) =>
       HasTime(run.startTime, c, g, Events(f)[u].time + (i - FirstAt(f, u)), Cardinality(Held(f, b, u, i)))

\* A tick goes by.
LEMMA FrameOn ==
  ASSUME NEW f \in Files, NEW i \in 1..Len(Recording[f].ticks), i + 1 \in 1..Len(Recording[f].ticks),
         NEW b \in Nat, NEW n \in 0..Len(Events(f)), b <= n,
         \A k \in 1..Len(Events(f)) :
           Events(f)[k].serverTick <= Recording[f].ticks[i].serverTick <=> k <= n,
         NEW r, NEW m, NEW g \in Nat, g <= curtime, curtime \in Nat, ShownWell(f, b, i, r, m, curtime, g), NEW s, PlaysOn(f, n, b, r, s), Shaped(s.replay),
         ~s.replay.replayPaused, NEW q,
         q.course = s.replay.course, q.paused = s.replay.paused,
         q.startTime = HoldTime(s.replay).startTime
  PROVE  ShownWell(f, n, i + 1, q, s.mode, curtime + 1, g)
<1> DEFINE E == Events(f)
           st(t) == Recording[f].ticks[t].serverTick
           L == Len(Recording[f].ticks)
<1>0. /\ Len(E) \in Nat /\ L \in Nat /\ n \in Nat /\ i \in Nat
      /\ \A t \in 1..L : st(t) \in Nat
      /\ \A k \in 1..Len(E) : E[k].serverTick \in Nat /\ E[k].time \in Nat
  <2>1. \A k \in 1..Len(E) : E[k].time \in Nat
    BY EventIs
  <2> QED BY <2>1, RecordingIs
<1>1. \A x, y \in 1..L : x <= y <=> st(x) <= st(y)
  BY OrderIs
<1>2. Shows(f, n, q, s.mode)
  <2>1. s.replay.startTime = 0 => q.startTime = 0
    BY HoldTimeIs
  <2> QED BY <2>1 DEF PlaysOn, Shows
<1>3. ASSUME NEW k \in 1..n PROVE E[k].serverTick <= st(i + 1) /\ E[k].serverTick <= st(i)
  <2>1. k \in 1..Len(E) /\ k <= n
    BY <1>0
  <2>2. E[k].serverTick <= st(i) /\ st(i) <= st(i + 1) /\ st(i) \in Nat /\ st(i + 1) \in Nat /\ E[k].serverTick \in Nat
    BY <1>0, <1>1, <2>1
  <2> HIDE DEF st, E
  <2> QED BY <2>2
<1>4. ASSUME NEW k \in 1..Len(E), NEW t \in 1..((i + 1) - 1), E[k].serverTick <= st(t) PROVE k <= n
  <2>1. t \in 1..L /\ t <= i
    BY <1>0
  <2>2. st(t) <= st(i) /\ st(t) \in Nat /\ st(i) \in Nat /\ E[k].serverTick \in Nat
    BY <1>0, <1>1, <2>1
  <2>3. E[k].serverTick <= st(i)
    <3> HIDE DEF st, E
    <3> QED BY <1>4, <2>2
  <2> QED BY <2>3
<1>5. ASSUME NEW u \in 1..n, OnFrom(f, n, u)
      PROVE  HasTime(q.startTime, curtime + 1, g, E[u].time + ((i + 1) - FirstAt(f, u)),
                     Cardinality(Held(f, n, u, i + 1)))
  <2> DEFINE was == Cardinality(Held(f, b, u, i))
             first == FirstAt(f, u)
             S == s.replay.startTime
  <2>1. s.replay.paused <=> HeldAfter(f, n, u)
    BY <1>5 DEF PlaysOn, Shows
  <2>2. S = IF u > b THEN curtime - E[u].time ELSE r.startTime
    BY <1>5 DEF PlaysOn
  <2>3. q.startTime = IF S > 0 /\ HeldAfter(f, n, u) THEN S + 1 ELSE S
    BY <2>1, HoldTimeIs
  <2>4. Cardinality(Held(f, n, u, i + 1)) = was + IF HeldAfter(f, n, u) THEN (i + 1) - i ELSE 0
    <3>1. \A k \in (b + 1)..n : \A t \in 1..(i - 1) : ~(E[k].serverTick <= st(t))
      <4>1. \A k \in 1..Len(E) : \A t \in 1..(i - 1) : E[k].serverTick <= st(t) => k <= b
        BY DEF ShownWell
      <4>2. \A k \in (b + 1)..n : k \in 1..Len(E) /\ ~(k <= b)
        BY <1>0
      <4> HIDE DEF st, E
      <4> QED BY <4>1, <4>2
    <3>2. \A k \in 1..n : E[k].serverTick <= st(i)
      BY <1>3
    <3>3. NewAt(f, b, n, i)
      BY <3>1, <3>2 DEF NewAt
    <3>4. u \in Nat /\ i + 1 \in i..(L + 1) /\ n \in 0..Len(Events(f))
      BY <1>0
    <3>5. HeldGrows(f, b, n, u, i, i + 1)
      BY ONLY <3>3, <3>4, HeldOn, f \in Files, b \in Nat, b <= n, i \in 1..Len(Recording[f].ticks)
    <3> QED BY <3>5 DEF HeldGrows
  <2>5. was \in Nat /\ first \in Nat
    <3>1. u \in 1..Len(E)
      BY <1>0
    <3>2. was \in Nat
      BY HeldIsFinite
    <3>3. first \in 1..L
      BY <3>1, FirstIs
    <3> QED BY <1>0, <3>2, <3>3
  <2>6. HasTime(S, curtime, g, E[u].time + (i - first), was)
    <3>1. CASE u > b
      <4>1. was = 0
        BY <3>1, NoneHeld
      <4>2. first = i
        <5>1. u \in 1..Len(E) /\ ~(u <= b)
          BY <1>0, <3>1
        <5>2. first \in 1..L /\ st(first) = E[u].serverTick
          BY <5>1, FirstIs
        <5>3. first <= i
          <6>1. st(first) <= st(i)
            BY <1>3, <5>2
          <6> QED BY <1>1, <5>2, <6>1
        <5>4. ~(first \in 1..(i - 1))
          <6>1. \A t \in 1..(i - 1) : ~(E[u].serverTick <= st(t))
            BY <5>1 DEF ShownWell
          <6>2. E[u].serverTick <= st(first)
            BY <1>0, <5>2
          <6> HIDE DEF st, E, first
          <6> QED BY <6>1, <6>2
        <5> QED BY <1>0, <5>2, <5>3, <5>4
      <4>3. E[u].time \in Nat
        BY <1>0
      <4>4. HasTime(curtime - E[u].time, curtime, g, E[u].time, 0)
        <5> PICK whole : whole = E[u].time
          OBVIOUS
        <5>1. HasTime(curtime - whole, curtime, g, whole, 0)
          BY <4>3, HasTimeAtFirst
        <5> QED BY <5>1
      <4> HIDE DEF was, first, S, E
      <4>5. E[u].time + (i - first) = E[u].time
        BY <1>0, <4>2, <4>3
      <4> QED BY <2>2, <3>1, <4>1, <4>4, <4>5
    <3>2. CASE ~(u > b)
      <4>1. u \in 1..b
        BY <3>2
      <4>2. OnFrom(f, b, u)
        <5>1. \A k \in (u + 1)..b : k \in (u + 1)..n
          BY <1>0
        <5> QED BY <1>5, <4>1, <5>1 DEF OnFrom
      <4>3. HasTime(r.startTime, curtime, g, E[u].time + (i - first), was)
        BY <4>1, <4>2 DEF ShownWell
      <4> QED BY <2>2, <3>2, <4>3
    <3> QED BY <3>1, <3>2
  <2>7. E[u].time \in Nat
    BY <1>0
  <2> HIDE DEF was, first
  <2>8. Cardinality(Held(f, n, u, i + 1)) = was + IF HeldAfter(f, n, u) THEN 1 ELSE 0
    BY <1>0, <2>4
  <2>9. HasTime(q.startTime, curtime + 1, g, E[u].time + ((i + 1) - first),
                was + IF HeldAfter(f, n, u) THEN 1 ELSE 0)
    <3> PICK whole, s0 : whole = E[u].time + (i - first) /\ s0 = S
      OBVIOUS
    <3>1. /\ HasTime(s0, curtime + 1, g, whole + 1, was)
          /\ HasTime(IF s0 > 0 THEN s0 + 1 ELSE s0, curtime + 1, g, whole + 1, was + 1)
      <4>1. whole \in Int /\ was \in Int
        BY <1>0, <2>5, <2>7
      <4>2. HasTime(s0, curtime, g, whole, was)
        BY <2>6
      <4> QED BY <4>1, <4>2, HasTimeNext
    <3>2. E[u].time + ((i + 1) - first) = whole + 1 /\ was + 0 = was
      BY <1>0, <2>5, <2>7
    <3>3. CASE HeldAfter(f, n, u)
      <4>1. q.startTime = IF s0 > 0 THEN s0 + 1 ELSE s0
        BY <2>3, <3>3
      <4> QED BY <3>1, <3>2, <3>3, <4>1
    <3>4. CASE ~HeldAfter(f, n, u)
      <4>1. q.startTime = s0
        BY <2>3, <3>4
      <4> QED BY <3>1, <3>2, <3>4, <4>1
    <3> QED BY <3>3, <3>4
  <2> QED BY <2>8, <2>9 DEF first
<1> QED BY <1>2, <1>3, <1>4, <1>5 DEF ShownWell

\* The fields of a run that is shown, its place and its mode are all that
\* ShownWell looks at.
LEMMA PlayedShown ==
  ASSUME NEW r, Shaped(r), r.playing, PlaysWell(r), r.event \in Nat \ {0}, ~r.replayPaused,
         r.tick # Len(r.ticks), curtime \in Nat, NEW age \in Nat, age <= curtime,
         ShownWell(r.file, r.event - 1, r.tick, r, mode, curtime, age)
  PROVE  LET s    == CheckEvents([r EXCEPT !.checkpoint = r.ticks[r.tick].checkpoint])
             last == r.tick = Len(r.ticks)
             u    == [HoldTime(s.replay) EXCEPT !.tick = @ + 1, !.playing = ~last]
         IN  ShownWell(u.file, u.event - 1, u.tick, u, s.mode, curtime + 1, age)
<1> DEFINE f == r.file
           i == r.tick
           b == r.event - 1
           n == EventsBy(f, r.ticks[i].serverTick)
           k == r.ticks[r.tick].checkpoint
           v == [r EXCEPT !.checkpoint = k]
           a == [replay |-> v, mode |-> mode]
           es == Due(v)
           x == ApplyAll(FALSE, a, es, 0)
           s == CheckEvents(v)
           last == r.tick = Len(r.ticks)
           w == HoldTime(s.replay)
           u == [w EXCEPT !.tick = @ + 1, !.playing = ~last]
<1>1. v = [file |-> r.file, ticks |-> r.ticks, playing |-> r.playing, replayPaused |-> r.replayPaused,
           tick |-> r.tick, event |-> r.event, course |-> r.course, startTime |-> r.startTime, paused |-> r.paused, checkpoint |-> k]
  <2> HIDE DEF k
  <2> QED BY FieldSet
<1> HIDE DEF k, v
<1>2. /\ v.playing = r.playing /\ v.event = r.event /\ v.file = f /\ v.ticks = r.ticks /\ v.tick = r.tick
      /\ v.course = r.course /\ v.paused = r.paused /\ v.startTime = r.startTime
      /\ v.replayPaused = r.replayPaused /\ Shaped(v)
  BY <1>1 DEF Shaped
<1>3. PlaysWell(v)
  BY <1>2 DEF PlaysWell
<1>4. /\ f \in Files /\ Recording[f].map = "current" /\ r.ticks = Recording[f].ticks
      /\ i \in 1..Len(Recording[f].ticks) /\ Len(Recording[f].ticks) \in Nat
      /\ Recording[f].ticks[i].serverTick \in Nat
  BY RecordingIs DEF PlaysWell
<1>5. /\ n \in 0..Len(Events(f)) /\ Len(Events(f)) \in Nat
      /\ \A j \in 1..Len(Events(f)) : Events(f)[j].serverTick <= Recording[f].ticks[i].serverTick <=> j <= n
  BY <1>4, EventsByIs, RecordingIs
<1>6. b \in 0..Len(Events(f)) /\ b <= n
  <2>1. b \in 0..Len(Events(f)) /\ \A j \in 1..b : Events(f)[j].serverTick <= Recording[f].ticks[i].serverTick
    BY DEF ShownWell
  <2>2. b # 0 => b \in 1..b /\ b \in 1..Len(Events(f))
    BY <1>5, <2>1
  <2>3. b # 0 => b <= n
    BY <1>5, <2>1, <2>2
  <2> QED BY <1>5, <2>1, <2>3
<1>7. Due(v) \in Seq(Event) /\ Len(Due(v)) = n - b /\ \A j \in 1..Len(Due(v)) : Due(v)[j] = Events(f)[b + j]
  <2> DEFINE m == r.event
             due == SubSeq(Events(f), m, n)
  <2>1. Due(v) = due
    BY <1>2 DEF Due
  <2>2. m \in Nat \ {0} /\ m = b + 1
    OBVIOUS
  <2> HIDE DEF n, m
  <2>3. /\ due \in Seq(Event) /\ Len(due) = IF m <= n THEN n - m + 1 ELSE 0
        /\ \A j \in 1..Len(due) : due[j] = Events(f)[m + j - 1]
    <3>1. f \in Files /\ n \in 0..Len(Events(f))
      BY <1>4, <1>5
    <3>2. \A g \in Files : \A c \in Nat \ {0} : \A h \in 0..Len(Events(g)) :
            LET part == SubSeq(Events(g), c, h)
            IN  /\ part \in Seq(Event) /\ Len(part) = IF c <= h THEN h - c + 1 ELSE 0
                /\ \A j \in 1..Len(part) : part[j] = Events(g)[c + j - 1]
      BY EventsFrom
    <3> HIDE DEF f
    <3> QED BY ONLY <2>2, <3>1, <3>2
  <2> HIDE DEF due
  <2>4. Len(due) = n - b /\ \A j \in 1..Len(due) : m + j - 1 = b + j
    <3>1. n \in Nat /\ b \in Nat /\ b <= n /\ m = b + 1 /\ Len(due) = IF m <= n THEN n - m + 1 ELSE 0
      BY <1>5, <1>6, <2>2, <2>3
    <3> HIDE DEF b
    <3>2. Len(due) = n - b
      BY ONLY <3>1
    <3>3. \A j \in 1..Len(due) : m + j - 1 = b + j
      BY ONLY <3>1, <3>2
    <3> QED BY <3>2, <3>3
  <2> QED BY <2>1, <2>3, <2>4
<1>8. /\ Fits(FALSE, x, v)
      /\ s = [replay |-> [x.replay EXCEPT !.event = @ + Len(Due(v))], mode |-> x.mode]
  <2> HIDE DEF n, b
  <2> QED BY <1>2, <1>3, CheckEventsIs
<1>9. PlaysOn(f, n, b, r, x)
  <2>1. Fits(FALSE, a, v)
    BY <1>2 DEF Fits, Beside
  <2>2. PlaysOn(f, b, b, r, a)
    <3>1. Shows(f, b, r, mode)
      BY DEF ShownWell
    <3>2. Shows(f, b, v, mode)
      BY <1>2, <3>1 DEF Shows
    <3>3. \A y \in 1..b : ~(y > b)
      BY <1>6
    <3> QED BY <1>2, <3>2, <3>3 DEF PlaysOn
  <2>3. PlaysOn(f, b, b, v, a)
    BY <1>2, <2>2 DEF PlaysOn
  <2>4. PlaysOn(f, n, b, v, x)
    <3>1. b \in Nat
      BY <1>6
    <3> HIDE DEF n, b, a, es
    <3>2. es \in Seq(Event) /\ Len(es) = n - b /\ \A j \in 1..Len(es) : es[j] = Events(f)[b + j]
      BY <1>7 DEF es
    <3> QED BY <1>4, <1>5, <1>6, <2>1, <2>3, <3>1, <3>2, PlayedThrough
  <2> QED BY <1>2, <2>4 DEF PlaysOn
<1>10. /\ Shaped(x.replay) /\ x.replay.file = f /\ x.replay.tick = i /\ x.replay.event = r.event
       /\ x.replay.replayPaused = r.replayPaused
  BY <1>2, <1>8 DEF Fits, Beside
<1> HIDE DEF x, s, n
<1> DEFINE y == x.replay
           d == Len(Due(v))
<1>11. s.replay = [y EXCEPT !.event = y.event + d] /\ s.mode = x.mode
  BY <1>8
<1>12. [y EXCEPT !.event = y.event + d] =
         [file |-> y.file, ticks |-> y.ticks, playing |-> y.playing, replayPaused |-> y.replayPaused,
          tick |-> y.tick, event |-> y.event + d, course |-> y.course, startTime |-> y.startTime, paused |-> y.paused, checkpoint |-> y.checkpoint]
  <2> HIDE DEF d, y
  <2> QED BY <1>10, FieldSet DEF y
<1> DEFINE z == s.replay
<1> HIDE DEF d, z
<1>13. /\ Shaped(z) /\ z.file = f /\ z.tick = i /\ z.event = r.event + d /\ z.replayPaused = r.replayPaused
       /\ z.course = y.course /\ z.paused = y.paused /\ z.startTime = y.startTime
  BY <1>10, <1>11, <1>12 DEF Shaped, z
<1>15. /\ Shaped(w) /\ w.file = f /\ w.tick = i /\ w.event = r.event + d
       /\ w.course = y.course /\ w.paused = y.paused
  <2>1. w = HoldTime(z)
    BY DEF z
  <2> HIDE DEF w
  <2> QED BY <1>13, <2>1, HoldTimeIs
<1> HIDE DEF w
<1>16. PICK c : c = ~last
  OBVIOUS
<1>17. /\ u.file = f /\ u.tick = i + 1 /\ u.event = r.event + d
       /\ u.course = y.course /\ u.paused = y.paused /\ u.startTime = w.startTime
  <2> DEFINE g == [w EXCEPT !.tick = w.tick + 1]
             h == [g EXCEPT !.playing = c]
  <2>1. u = h
    BY <1>16
  <2>2. g = [file |-> w.file, ticks |-> w.ticks, playing |-> w.playing, replayPaused |-> w.replayPaused,
             tick |-> w.tick + 1, event |-> w.event, course |-> w.course, startTime |-> w.startTime, paused |-> w.paused, checkpoint |-> w.checkpoint]
    <3>1. PICK t : t = w.tick + 1
      OBVIOUS
    <3>2. [w EXCEPT !.tick = t] =
            [file |-> w.file, ticks |-> w.ticks, playing |-> w.playing, replayPaused |-> w.replayPaused,
             tick |-> t, event |-> w.event, course |-> w.course, startTime |-> w.startTime, paused |-> w.paused, checkpoint |-> w.checkpoint]
      BY ONLY <1>15, FieldSet, ZenonT(30)
    <3> QED BY <3>1, <3>2
  <2> HIDE DEF g
  <2>3. h = [file |-> w.file, ticks |-> w.ticks, playing |-> c, replayPaused |-> w.replayPaused,
             tick |-> w.tick + 1, event |-> w.event, course |-> w.course, startTime |-> w.startTime, paused |-> w.paused, checkpoint |-> w.checkpoint]
    BY <2>2
  <2> HIDE DEF h, u
  <2> QED BY <1>15, <2>1, <2>3
<1> HIDE DEF u
<1>18. PlaysOn(f, n, b, r, s)
  BY <1>9, <1>11, <1>13 DEF PlaysOn, Shows, z
<1>19. ShownWell(f, n, i + 1, u, s.mode, curtime + 1, age)
  <2>1. i + 1 \in 1..Len(Recording[f].ticks)
    <3>1. i # Len(Recording[f].ticks)
      BY <1>4
    <3> QED BY <1>4, <3>1
  <2>2. b \in Nat
    BY <1>6
  <2>3. Shaped(s.replay) /\ ~s.replay.replayPaused
    BY <1>13 DEF z
  <2>4. u.course = s.replay.course /\ u.paused = s.replay.paused
        /\ u.startTime = HoldTime(s.replay).startTime
    BY <1>13, <1>17 DEF z, w
  <2>5. ShownWell(f, b, i, r, mode, curtime, age)
    OBVIOUS
  <2> HIDE DEF f, i, b
  <2> QED BY <1>4, <1>5, <1>6, <1>18, <2>1, <2>2, <2>3, <2>4, <2>5, FrameOn
<1>20. u.event - 1 = n
  BY <1>5, <1>6, <1>7, <1>17 DEF d
<1>21. ShownWell(u.file, u.event - 1, u.tick, u, s.mode, curtime + 1, age)
  BY <1>17, <1>19, <1>20
<1> QED BY <1>21 DEF u, w, s, v, k

\* What an event at tick T does to the loop's variables.
Reworked(target, r, T, e, x, h) ==
  /\ Turned(x.replay, e, h.replay) /\ h.mode = ModeAfter(x.mode, e)
  /\ Begins(e) => /\ h.active = TRUE /\ h.since = -1 /\ h.total = 0
                  /\ h.replay.startTime = curtime - (e.time + GameTime(r, target) - e.serverTick)
  /\ Stops(e) => h.active = FALSE
  /\ ~Begins(e) /\ ~Stops(e) => h.active = x.active /\ h.replay.startTime = x.replay.startTime
  /\ e.type = "PAUSE" => h.total = x.total /\ h.since = IF x.active /\ x.since = -1 THEN T ELSE x.since
  /\ e.type = "RESUME" =>
       /\ h.since = IF x.active THEN -1 ELSE x.since
       /\ h.total = IF x.active /\ x.since # -1
                    THEN x.total + GameTime(r, T) - GameTime(r, x.since) ELSE x.total
  /\ ~Begins(e) /\ ~Stops(e) /\ e.type \notin {"PAUSE", "RESUME"} =>
       h.since = x.since /\ h.total = x.total

\* ReprocessEventsUpToTick does to the run what an event does, and counts its pauses.
LEMMA ReprocessTurns ==
  ASSUME NEW f \in Files, NEW b \in Nat, b + 1 \in 1..Len(Events(f)), NEW target,
         NEW x, NEW r, r.ticks = Recording[f].ticks, Fits(TRUE, x, r), Shows(f, b, x.replay, x.mode)
  PROVE  Reworked(target, r, FirstAt(f, b + 1), Events(f)[b + 1], x, Reprocess(x, Events(f)[b + 1], target))
<1> DEFINE e == Events(f)[b + 1]
           T == FirstAt(f, b + 1)
           h == Reprocess(x, e, target)
           p == x.replay
<1> SUFFICES Reworked(target, r, T, e, x, h)
  OBVIOUS
<1>0. /\ x = [replay |-> x.replay, mode |-> x.mode, active |-> x.active, since |-> x.since, total |-> x.total]
      /\ Shaped(p) /\ e.type \in EventTypes
  BY EventIs DEF Fits, Beside
<1>e. e = [type |-> e.type, serverTick |-> e.serverTick, course |-> e.course, time |-> e.time, mode |-> e.mode]
  BY EventIs
<1>t. TickAt(x.replay, e.serverTick) = T /\ \A i : GameTime(x.replay, i) = GameTime(r, i)
  <2>1. x.replay.ticks = Recording[f].ticks /\ x.replay.ticks = r.ticks
    BY DEF Fits, Beside
  <2> QED BY <2>1, FirstIs DEF GameTime
<1> HIDE DEF e, p, T
<1>1. CASE Begins(e)
  <2> DEFINE c == e.time + GameTime(r, target) - e.serverTick
             g == [e EXCEPT !.time = c]
  <2>0. e.type = "START" /\ e.course \in KnownCourses /\ ~Stops(e)
    BY <1>1 DEF Begins, Stops
  <2>1. h = [x EXCEPT !.replay = Started(p, g), !.active = TRUE, !.since = -1, !.total = 0]
    <3>1. [e EXCEPT !.time = @ + GameTime(x.replay, target) - e.serverTick] = g
      BY <1>t
    <3> HIDE DEF g
    <3> QED BY <2>0, <3>1 DEF Reprocess, p
  <2>2. g.course = e.course /\ g.time = c
    <3> HIDE DEF c
    <3> QED BY <1>e
  <2> HIDE DEF g, c
  <2>3. Started(p, g) = [file |-> p.file, ticks |-> p.ticks, playing |-> p.playing,
          replayPaused |-> p.replayPaused, tick |-> p.tick, event |-> p.event,
          course |-> g.course, startTime |-> curtime - g.time, paused |-> FALSE,
          checkpoint |-> p.checkpoint]
    BY <1>0, StartedIs
  <2> DEFINE q == Started(p, g)
  <2> HIDE DEF q
  <2>4. q.course = e.course /\ q.paused = FALSE /\ q.startTime = curtime - c
    BY <2>2, <2>3 DEF q
  <2>5. h = [replay |-> q, mode |-> x.mode, active |-> TRUE, since |-> -1, total |-> 0]
    <3>0. PICK yes, one : yes = TRUE /\ one = -1
      OBVIOUS
    <3> DEFINE x1 == [x EXCEPT !.replay = q]
               x2 == [x1 EXCEPT !.active = yes]
               x3 == [x2 EXCEPT !.since = one]
    <3>1. x1 = [replay |-> q, mode |-> x.mode, active |-> x.active, since |-> x.since, total |-> x.total]
      BY <1>0
    <3>2. h = [x3 EXCEPT !.total = 0]
      BY <2>1, <3>0 DEF q
    <3> HIDE DEF x1
    <3>3. x2 = [replay |-> q, mode |-> x.mode, active |-> yes, since |-> x.since, total |-> x.total]
      BY <3>1
    <3> HIDE DEF x2
    <3>4. x3 = [replay |-> q, mode |-> x.mode, active |-> yes, since |-> one, total |-> x.total]
      BY <3>3
    <3> HIDE DEF x3, h
    <3> QED BY <3>0, <3>2, <3>4
  <2> HIDE DEF h
  <2>6. h.replay = q /\ h.mode = x.mode /\ h.active = TRUE /\ h.since = -1 /\ h.total = 0
    BY <2>5
  <2> QED BY <1>1, <2>0, <2>4, <2>6 DEF Reworked, Turned, ModeAfter, p, c
<1>2. CASE Stops(e)
  <2>0. ~Begins(e) /\ e.type \in {"END", "STOP"}
    BY <1>2 DEF Begins, Stops
  <2>1. h = [x EXCEPT !.replay = Ended(p), !.active = FALSE, !.since = -1]
    BY <2>0 DEF Reprocess, p
  <2>2. Ended(p) = [file |-> p.file, ticks |-> p.ticks, playing |-> p.playing,
          replayPaused |-> p.replayPaused, tick |-> p.tick, event |-> p.event,
          course |-> NoCourse, startTime |-> 0, paused |-> p.paused,
          checkpoint |-> p.checkpoint]
    BY <1>0, EndedIs
  <2> DEFINE q == Ended(p)
  <2> HIDE DEF q
  <2>3. q.startTime = 0
    BY <2>2 DEF q
  <2>4. h.replay = q /\ h.mode = x.mode /\ h.active = FALSE
    <3>0. PICK no : no = FALSE
      OBVIOUS
    <3> DEFINE x1 == [x EXCEPT !.replay = q]
               x2 == [x1 EXCEPT !.active = no]
    <3>1. x1 = [replay |-> q, mode |-> x.mode, active |-> x.active, since |-> x.since, total |-> x.total]
      BY <1>0
    <3>2. h = [x2 EXCEPT !.since = -1]
      BY <2>1, <3>0 DEF q
    <3> HIDE DEF x1
    <3>3. x2 = [replay |-> q, mode |-> x.mode, active |-> no, since |-> x.since, total |-> x.total]
      BY <3>1
    <3> HIDE DEF x2, h
    <3> QED BY <3>0, <3>2, <3>3
  <2> HIDE DEF h
  <2> QED BY <1>2, <2>0, <2>3, <2>4 DEF Reworked, Turned, ModeAfter, p
<1>3. CASE e.type \in {"PAUSE", "RESUME"}
  <2>0. ~Begins(e) /\ ~Stops(e)
    BY <1>3 DEF Begins, Stops
  <2>1. PICK v : v = (e.type = "PAUSE")
    OBVIOUS
  <2> DEFINE q == [p EXCEPT !.paused = v]
             since == IF e.type = "PAUSE" THEN IF x.active /\ x.since = -1 THEN T ELSE x.since
                      ELSE IF x.active THEN -1 ELSE x.since
             total == IF e.type = "RESUME" /\ x.active /\ x.since # -1
                      THEN x.total + GameTime(r, T) - GameTime(r, x.since) ELSE x.total
  <2>2. q = [file |-> p.file, ticks |-> p.ticks, playing |-> p.playing,
          replayPaused |-> p.replayPaused, tick |-> p.tick, event |-> p.event,
          course |-> p.course, startTime |-> p.startTime,
          paused |-> v, checkpoint |-> p.checkpoint]
    BY <1>0, FieldPaused
  <2>3. h = [replay |-> q, mode |-> x.mode, active |-> x.active, since |-> since, total |-> total]
    <3>1. CASE e.type = "PAUSE"
      <4>0. v = TRUE
        BY <2>1, <3>1
      <4>1. h = [x EXCEPT !.replay = q, !.since = since]
        <5>1. h = [x EXCEPT !.replay.paused = TRUE,
                            !.since = IF x.active /\ @ = -1 THEN TickAt(x.replay, e.serverTick) ELSE @]
          BY <3>1 DEF Reprocess, Begins
        <5>2. h = [x EXCEPT !.replay.paused = TRUE, !.since = since]
          BY <1>t, <3>1, <5>1
        <5> HIDE DEF since, h
        <5> QED BY <4>0, <5>2 DEF p
      <4>2. total = x.total
        BY <3>1
      <4> DEFINE x1 == [x EXCEPT !.replay = q]
      <4> HIDE DEF since, q, h
      <4>3. x1 = [replay |-> q, mode |-> x.mode, active |-> x.active, since |-> x.since, total |-> x.total]
        BY <1>0
      <4>4. h = [x1 EXCEPT !.since = since]
        BY <4>1
      <4> HIDE DEF x1, total
      <4> QED BY <4>2, <4>3, <4>4
    <3>2. CASE e.type = "RESUME"
      <4>0. v = FALSE
        BY <2>1, <3>2
      <4> DEFINE x1 == [x EXCEPT !.replay.paused = FALSE]
                 x2 == [x1 EXCEPT !.since = IF x.active THEN -1 ELSE @]
                 x3 == [x2 EXCEPT !.total = IF x.active /\ x.since # -1
                          THEN @ + GameTime(x.replay, TickAt(x.replay, e.serverTick)) - GameTime(x.replay, x.since)
                          ELSE @]
      <4>1. h = x3
        BY <3>2 DEF Reprocess, Begins
      <4>2. x1 = [replay |-> q, mode |-> x.mode, active |-> x.active, since |-> x.since, total |-> x.total]
        <5>1. x1 = [x EXCEPT !.replay = q]
          BY <4>0 DEF p
        <5> HIDE DEF x1, q
        <5> QED BY <1>0, <5>1
      <4> HIDE DEF x1, q
      <4>3. x2 = [replay |-> q, mode |-> x.mode, active |-> x.active, since |-> since, total |-> x.total]
        <5>1. (IF x.active THEN -1 ELSE x1.since) = since
          BY <3>2, <4>2
        <5>2. x2 = [x1 EXCEPT !.since = since]
          <6> HIDE DEF since
          <6> QED BY <5>1
        <5> HIDE DEF since, x2
        <5> QED BY <4>2, <5>2
      <4> HIDE DEF x2
      <4>4. x3 = [replay |-> q, mode |-> x.mode, active |-> x.active, since |-> since, total |-> total]
        <5> HIDE DEF since
        <5>1. (IF x.active /\ x.since # -1
               THEN x2.total + GameTime(x.replay, TickAt(x.replay, e.serverTick)) - GameTime(x.replay, x.since)
               ELSE x2.total) = total
          BY <1>t, <3>2, <4>3
        <5>2. x3 = [x2 EXCEPT !.total = total]
          <6> HIDE DEF total
          <6> QED BY <5>1
        <5> HIDE DEF total, x3
        <5> QED BY <4>3, <5>2
      <4> HIDE DEF x3, h, since, total
      <4> QED BY <4>1, <4>4
    <3> QED BY <1>3, <3>1, <3>2
  <2> HIDE DEF h, q
  <2>4. /\ q.startTime = p.startTime /\ q.course = p.course /\ q.paused = v
    BY <2>2
  <2>5. /\ h.replay = q /\ h.mode = x.mode /\ h.active = x.active /\ h.since = since /\ h.total = total
    <3> HIDE DEF since, total
    <3> QED BY <2>3
  <2>6. q.paused <=> e.type = "PAUSE"
    BY <2>1, <2>4
  <2>7. Turned(p, e, h.replay)
    <3> HIDE DEF since, total
    <3> QED BY <1>3, <2>0, <2>4, <2>5, <2>6 DEF Turned
  <2>8. h.mode = ModeAfter(x.mode, e) /\ h.replay.startTime = p.startTime
    <3> HIDE DEF since, total
    <3> QED BY <1>3, <2>4, <2>5 DEF ModeAfter
  <2>9. /\ e.type = "PAUSE" => h.total = x.total /\ h.since = IF x.active /\ x.since = -1 THEN T ELSE x.since
        /\ e.type = "RESUME" =>
             /\ h.since = IF x.active THEN -1 ELSE x.since
             /\ h.total = IF x.active /\ x.since # -1
                          THEN x.total + GameTime(r, T) - GameTime(r, x.since) ELSE x.total
    BY <2>5
  <2> HIDE DEF since, total
  <2> QED BY <1>3, <2>0, <2>5, <2>7, <2>8, <2>9 DEF Reworked, p
<1>4. CASE e.type = "MODE"
  <2>0. ~Begins(e) /\ ~Stops(e)
    BY <1>4 DEF Begins, Stops
  <2>1. h = [replay |-> p, mode |-> Switched(x.mode, e.mode), active |-> x.active, since |-> x.since, total |-> x.total]
    BY <1>0, <1>4 DEF Reprocess, p
  <2> HIDE DEF h
  <2>2. h.replay = p /\ h.mode = Switched(x.mode, e.mode) /\ h.active = x.active /\ h.since = x.since /\ h.total = x.total
    BY <2>1
  <2> QED BY <1>4, <2>0, <2>2 DEF Reworked, Turned, ModeAfter, p
<1>5. CASE ~Begins(e) /\ ~Stops(e) /\ e.type \notin {"PAUSE", "RESUME", "MODE"}
  <2>1. h = x
    BY <1>0, <1>5 DEF Reprocess, Begins, Stops, EventTypes
  <2> HIDE DEF h
  <2> QED BY <1>5, <2>1 DEF Reworked, Turned, ModeAfter, p
<1> QED BY <1>1, <1>2, <1>3, <1>4, <1>5 DEF EventTypes

\* The run that event u began shows the time it began with and the time since; the
\* ticks it was held by event n are counted in total, and since the pause that
\* holds it.
Timing(f, n, target, x, u) ==
  /\ x.active = TRUE /\ x.since \in Int /\ x.total \in Int
  /\ x.since # -1 <=> HeldAfter(f, n, u)
  /\ x.since # -1 => x.since \in FirstAt(f, u)..FirstAt(f, n)
  /\ x.replay.startTime = curtime - (Events(f)[u].time
                          + (Recording[f].ticks[target].serverTick - Events(f)[u].serverTick))
  /\ \A j \in FirstAt(f, n)..Len(Recording[f].ticks) :
       Cardinality(Held(f, n, u, j)) = x.total + IF x.since # -1 THEN j - x.since ELSE 0

\* By event n of those that a seek goes through.
Seeks(f, n, target, x) ==
  /\ Shows(f, n, x.replay, x.mode)
  /\ (\A u \in 1..n : ~OnFrom(f, n, u)) => x.active = FALSE
  /\ \A u \in 1..n : OnFrom(f, n, u) => Timing(f, n, target, x, u)

LEMMA FirstsGrow ==
  ASSUME NEW f \in Files, NEW i \in 1..Len(Events(f)), NEW j \in 1..Len(Events(f)), i <= j
  PROVE  FirstAt(f, i) <= FirstAt(f, j)
<1>1. Events(f)[i].serverTick <= Events(f)[j].serverTick
  BY OrderIs
<1>2. /\ FirstAt(f, i) \in 1..Len(Recording[f].ticks) /\ FirstAt(f, j) \in 1..Len(Recording[f].ticks)
      /\ Recording[f].ticks[FirstAt(f, i)].serverTick = Events(f)[i].serverTick
      /\ Recording[f].ticks[FirstAt(f, j)].serverTick = Events(f)[j].serverTick
  BY FirstIs
<1> QED BY <1>1, <1>2, OrderIs

\* The ticks before the one of an event have the events before it at most.
LEMMA Earlier ==
  ASSUME NEW f \in Files, NEW c \in 1..Len(Events(f)), NEW k \in 1..Len(Events(f)),
         NEW t \in 1..(FirstAt(f, c) - 1), Events(f)[k].serverTick <= Recording[f].ticks[t].serverTick
  PROVE  k < c
<1> DEFINE L == Len(Recording[f].ticks)
           st(i) == Recording[f].ticks[i].serverTick
           T == FirstAt(f, c)
<1>1. T \in 1..L /\ st(T) = Events(f)[c].serverTick /\ L \in Nat
  BY FirstIs, RecordingIs
<1>2. t \in 1..L /\ ~(T <= t)
  BY <1>1
<1>3. ~(st(T) <= st(t)) /\ st(T) \in Nat /\ st(t) \in Nat /\ Events(f)[k].serverTick \in Nat
  BY <1>1, <1>2, OrderIs, RecordingIs
<1>4. ~(Events(f)[c].serverTick <= Events(f)[k].serverTick)
  <2> HIDE DEF st
  <2>1. Events(f)[k].serverTick <= st(t)
    BY DEF st
  <2> QED BY <1>1, <1>3, <2>1
<1>5. ~(c <= k)
  BY <1>4, OrderIs
<1>6. c \in Nat /\ k \in Nat
  OBVIOUS
<1> QED BY <1>5, <1>6

LEMMA SeekNext ==
  ASSUME NEW f \in Files, Recording[f].map = "current", NEW b \in Nat, b + 1 \in 1..Len(Events(f)),
         NEW target \in 1..Len(Recording[f].ticks), NEW r, r.ticks = Recording[f].ticks,
         NEW x, Fits(TRUE, x, r), Seeks(f, b, target, x)
  PROVE  Seeks(f, b + 1, target, Reprocess(x, Events(f)[b + 1], target))
<1> DEFINE L == Len(Recording[f].ticks)
           st(t) == Recording[f].ticks[t].serverTick
<1> PICK c, e, T, h : c = b + 1 /\ e = Events(f)[c] /\ T = FirstAt(f, c) /\ h = Reprocess(x, e, target)
  OBVIOUS
<1> SUFFICES Seeks(f, c, target, h)
  OBVIOUS
<1>0. c \in 1..Len(Events(f)) /\ c = b + 1 /\ c \in Nat /\ Len(Events(f)) \in Nat /\ b \in 0..Len(Events(f))
  BY RecordingIs
<1>r. Reworked(target, r, T, e, x, h)
  <2>1. Shows(f, b, x.replay, x.mode)
    BY DEF Seeks
  <2> QED BY <2>1, ReprocessTurns
<1>1. /\ Turned(x.replay, e, h.replay) /\ h.mode = ModeAfter(x.mode, e)
      /\ Begins(e) => /\ h.active = TRUE /\ h.since = -1 /\ h.total = 0
                      /\ h.replay.startTime = curtime - (e.time + GameTime(r, target) - e.serverTick)
      /\ Stops(e) => h.active = FALSE
      /\ ~Begins(e) /\ ~Stops(e) => h.active = x.active /\ h.replay.startTime = x.replay.startTime
      /\ e.type = "PAUSE" => h.total = x.total /\ h.since = IF x.active /\ x.since = -1 THEN T ELSE x.since
      /\ e.type = "RESUME" =>
           /\ h.since = IF x.active THEN -1 ELSE x.since
           /\ h.total = IF x.active /\ x.since # -1
                        THEN x.total + GameTime(r, T) - GameTime(r, x.since) ELSE x.total
      /\ ~Begins(e) /\ ~Stops(e) /\ e.type \notin {"PAUSE", "RESUME"} =>
           h.since = x.since /\ h.total = x.total
  BY <1>r DEF Reworked
<1>2. /\ L \in Nat /\ T \in 1..L /\ st(T) = e.serverTick /\ e.time \in Nat /\ e.serverTick \in Nat
      /\ \A t \in 1..L : st(t) \in Nat
  BY <1>0, FirstIs, RecordingIs, EventIs
<1>3. \A t \in 1..L : GameTime(r, t) = st(t)
  <2>1. \A t \in 1..L : st(t) \in Nat /\ GameTime(r, t) = st(t) * 1
    BY <1>2 DEF GameTime, Interval
  <2> QED BY <2>1
<1>4. /\ Begins(e) => (\A u : OnFrom(f, c, u) <=> u = c) /\ ~HeldAfter(f, c, c)
      /\ Stops(e) => \A u : ~OnFrom(f, c, u)
      /\ ~Begins(e) /\ ~Stops(e) => \A u : OnFrom(f, c, u) <=> OnFrom(f, b, u)
  <2>1. ASSUME NEW u
        PROVE  /\ Begins(e) => (OnFrom(f, c, u) <=> u = c) /\ ~HeldAfter(f, c, c)
               /\ Stops(e) => ~OnFrom(f, c, u)
               /\ ~Begins(e) /\ ~Stops(e) => (OnFrom(f, c, u) <=> OnFrom(f, b, u))
    BY OnNext
  <2> QED BY <2>1
<1>5. Shows(f, c, h.replay, h.mode)
  <2>0. PICK p, q, m : p = x.replay /\ q = h.replay /\ m = x.mode
    OBVIOUS
  <2>1. Shows(f, b, p, m) /\ Turned(p, Events(f)[b + 1], q)
    BY <1>1, <2>0 DEF Seeks
  <2>2. Shows(f, b + 1, q, ModeAfter(m, Events(f)[b + 1]))
    BY ONLY f \in Files, b \in Nat, b + 1 \in 1..Len(Events(f)), <2>1, ShowsNext
  <2> QED BY <1>1, <2>0, <2>2
<1>6. CASE Begins(e)
  <2>1. OnFrom(f, c, c) /\ c \in 1..c
    BY <1>0, <1>4, <1>6
  <2>2. h.replay.startTime = curtime - (e.time + (st(target) - e.serverTick))
    <3>1. GameTime(r, target) = st(target) /\ st(target) \in Nat
      BY <1>2, <1>3
    <3>2. e.time + GameTime(r, target) - e.serverTick = e.time + (st(target) - e.serverTick)
      <4> HIDE DEF st
      <4> QED BY <1>2, <3>1
    <3> QED BY <1>1, <1>6, <3>2
  <2>3. \A j : Cardinality(Held(f, c, c, j)) = 0
    BY <1>0, NoneHeld
  <2>4. h.active = TRUE /\ h.since = -1 /\ h.total = 0 /\ ~HeldAfter(f, c, c)
    BY <1>1, <1>4, <1>6
  <2>5. Timing(f, c, target, h, c)
    <3> QED BY <2>2, <2>3, <2>4 DEF Timing
  <2>6. \A u : OnFrom(f, c, u) => u = c
    BY <1>4, <1>6
  <2> QED BY <1>5, <2>1, <2>5, <2>6 DEF Seeks
<1>7. CASE Stops(e)
  <2>1. h.active = FALSE /\ \A u : ~OnFrom(f, c, u)
    BY <1>1, <1>4, <1>7
  <2> QED BY <1>5, <2>1 DEF Seeks
<1>8. CASE ~Begins(e) /\ ~Stops(e)
  <2>1. (\A u \in 1..c : ~OnFrom(f, c, u)) => h.active = FALSE
    <3>1. \A u \in 1..b : u \in 1..c
      OBVIOUS
    <3> QED BY <1>1, <1>4, <1>8, <3>1 DEF Seeks
  <2>2. ASSUME NEW u \in 1..c, OnFrom(f, c, u) PROVE Timing(f, c, target, h, u)
    <3> DEFINE first == FirstAt(f, u)
    <3>1. OnFrom(f, b, u) /\ u \in 1..b
      BY <1>4, <1>8, <2>2 DEF OnFrom
    <3>2. /\ x.active = TRUE /\ x.since \in Int /\ x.total \in Int
          /\ x.since # -1 <=> HeldAfter(f, b, u)
          /\ x.since # -1 => x.since \in first..FirstAt(f, b)
          /\ x.replay.startTime = curtime - (Events(f)[u].time + (st(target) - Events(f)[u].serverTick))
          /\ \A j \in FirstAt(f, b)..L :
               Cardinality(Held(f, b, u, j)) = x.total + IF x.since # -1 THEN j - x.since ELSE 0
      BY <3>1 DEF Seeks, Timing
    <3>3. /\ FirstAt(f, b) <= T /\ first <= FirstAt(f, b) /\ first \in 1..L /\ FirstAt(f, b) \in 1..L
          /\ st(first) = Events(f)[u].serverTick /\ Events(f)[u].serverTick \in Nat
      <4>1. b \in 1..Len(Events(f)) /\ u \in 1..Len(Events(f)) /\ b <= c /\ u <= b
        BY <1>0, <3>1
      <4> QED BY <1>0, <4>1, FirstsGrow, FirstIs, RecordingIs
    <3>4. ASSUME NEW j \in T..L
          PROVE  Cardinality(Held(f, c, u, j)) = Cardinality(Held(f, b, u, T)) + IF HeldAfter(f, c, u) THEN j - T ELSE 0
      <4>1. \A k \in 1..c : Events(f)[k].serverTick <= st(T)
        <5>1. \A k \in 1..c : k \in 1..Len(Events(f)) /\ k <= c
          BY <1>0
        <5> QED BY <1>0, <1>2, <5>1, OrderIs
      <4>2. \A k \in (b + 1)..c : \A t \in 1..(T - 1) : ~(Events(f)[k].serverTick <= st(t))
        <5>1. ASSUME NEW k \in (b + 1)..c, NEW t \in 1..(T - 1), Events(f)[k].serverTick <= st(t) PROVE FALSE
          <6>1. k = c
            BY <1>0
          <6>2. c < c
            BY <1>0, <5>1, <6>1, Earlier
          <6> QED BY <1>0, <6>2
        <5> QED BY <5>1
      <4>3. c \in 0..Len(Events(f)) /\ b <= c /\ u \in Nat /\ j \in T..(L + 1)
        BY <1>0, <1>2, <3>1
      <4>4. b \in Nat /\ T \in 1..L
        BY <1>2
      <4>5. NewAt(f, b, c, T)
        BY <4>1, <4>2 DEF NewAt
      <4>6. HeldGrows(f, b, c, u, T, j)
        BY ONLY f \in Files, <4>3, <4>4, <4>5, HeldOn
      <4> QED BY <4>6 DEF HeldGrows
    <3>5. Cardinality(Held(f, b, u, T)) = x.total + IF x.since # -1 THEN T - x.since ELSE 0
      <4>1. T \in FirstAt(f, b)..L
        BY <1>2, <3>3
      <4> QED BY <3>2, <4>1
    <3>6. ASSUME NEW j \in first..T PROVE st(j) = st(first) + (j - first)
      <4>1. j \in first..L
        BY <1>2, <3>3
      <4>2. ASSUME NEW k \in 1..Len(Events(f)), NEW t \in 1..(j - 1), Events(f)[k].serverTick <= st(t) PROVE k <= b
        <5>1. t \in 1..(T - 1)
          BY <1>2, <3>3
        <5>2. k < c
          BY <1>0, <4>2, <5>1, Earlier
        <5> QED BY <1>0, <5>2
      <4>3. st(j) = Events(f)[u].serverTick + (j - first)
        BY <1>0, <3>1, <4>1, <4>2, NoGap
      <4> QED BY <3>3, <4>3
    <3>a. x.since # -1 => x.since \in first..T /\ x.since \in 1..L
      <4> HIDE DEF first, L
      <4>1. x.since # -1 => x.since \in first..FirstAt(f, b)
        BY <3>2
      <4>2. first \in Int /\ T \in Int /\ L \in Int /\ FirstAt(f, b) \in Int /\ FirstAt(f, b) <= T
            /\ 1 <= first /\ T <= L
        BY <1>2, <3>3
      <4> QED BY ONLY <4>1, <4>2
    <3>7. x.since # -1 => GameTime(r, T) - GameTime(r, x.since) = T - x.since
      <4> SUFFICES ASSUME x.since # -1 PROVE GameTime(r, T) - GameTime(r, x.since) = T - x.since
        OBVIOUS
      <4> DEFINE s == x.since
      <4>1. s \in first..T /\ T \in first..T /\ s \in 1..L
        <5>1. first <= T /\ T \in Int /\ first \in Int
          BY <1>2, <3>3
        <5> QED BY <3>a, <5>1
      <4>2. st(s) = st(first) + (s - first) /\ st(T) = st(first) + (T - first) /\ st(first) \in Nat
        BY <1>2, <3>3, <3>6, <4>1
      <4>3. GameTime(r, T) = st(T) /\ GameTime(r, s) = st(s)
        BY <1>2, <1>3, <4>1
      <4>4. s \in Int /\ T \in Int /\ first \in Int
        BY <1>2, <3>3, <4>1
      <4> HIDE DEF st, first, s
      <4> QED BY ONLY <4>2, <4>3, <4>4 DEF s
    <3>8. /\ e.type = "PAUSE" => HeldAfter(f, c, u)
          /\ e.type = "RESUME" => ~HeldAfter(f, c, u)
          /\ e.type \notin {"PAUSE", "RESUME"} => (HeldAfter(f, c, u) <=> HeldAfter(f, b, u))
      BY <1>0, <3>1, HeldNext
    <3>9. h.active = TRUE /\ h.replay.startTime = curtime - (Events(f)[u].time + (st(target) - Events(f)[u].serverTick))
      BY <1>1, <1>8, <3>2
    <3> DEFINE was == Cardinality(Held(f, b, u, T))
    <3> HIDE DEF first, was, st, L
    <3>10. /\ T \in Nat \ {0} /\ first \in Nat \ {0} /\ FirstAt(f, b) \in Nat
           /\ was = x.total + IF x.since # -1 THEN T - x.since ELSE 0
      <4>1. T \in Nat \ {0}
        BY <1>2
      <4>2. first \in Nat \ {0} /\ FirstAt(f, b) \in Nat
        BY <3>3
      <4> QED BY <4>1, <4>2, <3>5 DEF was
    <3>11. /\ h.since \in Int /\ h.total \in Int
           /\ h.since # -1 <=> HeldAfter(f, c, u)
           /\ h.since # -1 => h.since \in first..T
           /\ \A j \in T..L : was + (IF HeldAfter(f, c, u) THEN j - T ELSE 0)
                                = h.total + IF h.since # -1 THEN j - h.since ELSE 0
      <4>0. \A j \in T..L : j \in Int
        BY <1>2
      <4>1. CASE e.type = "PAUSE"
        <5>1. h.total = x.total /\ h.since = IF x.since = -1 THEN T ELSE x.since
          BY <1>1, <3>2, <4>1
        <5>2. HeldAfter(f, c, u) /\ T # -1 /\ T \in first..T
          BY <3>3, <3>8, <3>10, <4>1 DEF first
        <5>3. CASE x.since = -1
          <6>1. h.since = T /\ h.total = x.total /\ was = x.total
            BY <3>2, <3>10, <5>1, <5>3
          <6> QED BY <3>2, <3>10, <4>0, <5>2, <6>1
        <5>4. CASE x.since # -1
          <6>1. h.since = x.since /\ h.total = x.total /\ was = x.total + (T - x.since)
            BY <3>10, <5>1, <5>4
          <6>2. ASSUME NEW j \in T..L PROVE was + (j - T) = h.total + (j - h.since)
            <7>1. j \in Int /\ T \in Int /\ x.since \in Int /\ x.total \in Int
              BY <3>2, <3>10, <4>0
            <7> QED BY ONLY <6>1, <7>1
          <6> QED BY <3>2, <3>a, <5>2, <5>4, <6>1, <6>2
        <5> QED BY <5>3, <5>4
      <4>2. CASE e.type = "RESUME"
        <5>1. h.since = -1 /\ h.total = IF x.since # -1 THEN x.total + GameTime(r, T) - GameTime(r, x.since) ELSE x.total
          BY <1>1, <3>2, <4>2
        <5>2. h.total = IF x.since # -1 THEN x.total + (T - x.since) ELSE x.total
          <6>1. CASE x.since = -1
            BY <5>1, <6>1
          <6>2. CASE x.since # -1
            <7>1. x.since \in 1..L
              BY <3>a, <6>2
            <7>2. GameTime(r, T) \in Int /\ GameTime(r, x.since) \in Int
              BY <1>2, <1>3, <7>1
            <7> QED BY <3>2, <3>7, <3>10, <5>1, <6>2, <7>2
          <6> QED BY <6>1, <6>2
        <5> QED BY <3>2, <3>8, <3>10, <4>0, <4>2, <5>1, <5>2
      <4>3. CASE e.type \notin {"PAUSE", "RESUME"}
        <5>1. h.since = x.since /\ h.total = x.total
          BY <1>1, <1>8, <4>3
        <5>2. HeldAfter(f, c, u) <=> x.since # -1
          BY <3>2, <3>8, <4>3
        <5>3. CASE x.since = -1
          <6>1. h.since = -1 /\ h.total = x.total /\ was = x.total /\ ~HeldAfter(f, c, u)
            <7>1. was = x.total + 0 /\ x.total \in Int
              BY <3>2, <3>10, <5>3
            <7> QED BY <5>1, <5>2, <5>3, <7>1
          <6> QED BY <3>2, <3>10, <4>0, <6>1
        <5>4. CASE x.since # -1
          <6>1. h.since = x.since /\ h.total = x.total /\ was = x.total + (T - x.since) /\ HeldAfter(f, c, u)
            BY <3>10, <5>1, <5>2, <5>4
          <6>2. ASSUME NEW j \in T..L PROVE was + (j - T) = h.total + (j - h.since)
            <7>1. j \in Int /\ T \in Int /\ x.since \in Int /\ x.total \in Int
              BY <3>2, <3>10, <4>0
            <7> QED BY ONLY <6>1, <7>1
          <6> QED BY <3>2, <3>a, <5>4, <6>1, <6>2
        <5> QED BY <5>3, <5>4
      <4> QED BY <4>1, <4>2, <4>3
    <3>12. \A j \in T..L : Cardinality(Held(f, c, u, j)) = was + IF HeldAfter(f, c, u) THEN j - T ELSE 0
      BY <3>4 DEF was
    <3> QED BY <3>9, <3>11, <3>12 DEF first, st, L, Timing
  <2> QED BY <1>5, <2>1, <2>2 DEF Seeks
<1> QED BY <1>6, <1>7, <1>8

\* A seek from the beginning goes through the events one after another.
LEMMA SoughtThrough ==
  ASSUME NEW f \in Files, Recording[f].map = "current", NEW n \in 0..Len(Events(f)),
         NEW target \in 1..Len(Recording[f].ticks),
         NEW es \in Seq(Event), Len(es) = n, \A j \in 1..n : es[j] = Events(f)[j],
         NEW a, NEW r, r.ticks = Recording[f].ticks, Fits(TRUE, a, r), Seeks(f, 0, target, a)
  PROVE  Seeks(f, n, target, ApplyAll(TRUE, a, es, target))
<1>0. n \in Nat /\ Len(Events(f)) \in Nat /\ n <= Len(Events(f))
  BY RecordingIs
<1>1. PICK g : Steps(g, TRUE, a, es, target)
  BY AppliedInSteps
<1> DEFINE S == {j \in 0..n : Fits(TRUE, g[j], r) /\ Seeks(f, j, target, g[j])}
<1>2. 0 \in S
  <2>1. g[0] = a /\ 0 \in 0..n
    BY <1>0, <1>1 DEF Steps
  <2> QED BY <2>1
<1>3. ASSUME NEW i \in S, i \in 0..(n - 1) PROVE i + 1 \in S
  <2>0. /\ i + 1 \in 1..n /\ (i + 1) - 1 = i /\ i \in Nat /\ i + 1 \in 1..Len(Events(f)) /\ i + 1 \in 0..n
    BY <1>0, <1>3
  <2>1. g[i + 1] = Apply(TRUE, g[(i + 1) - 1], es[i + 1], target)
    BY <1>1, <2>0 DEF Steps
  <2>2. g[i + 1] = Apply(TRUE, g[i], Events(f)[i + 1], target)
    BY <2>0, <2>1
  <2>3. Fits(TRUE, g[i], r) /\ Seeks(f, i, target, g[i])
    OBVIOUS
  <2>4. Fits(TRUE, g[i + 1], r)
    <3> PICK e, x : e = Events(f)[i + 1] /\ x = g[i]
      OBVIOUS
    <3>1. Fits(TRUE, Apply(TRUE, x, e, target), r)
      BY <2>3, AppliedFits
    <3> QED BY <2>2, <3>1
  <2>5. g[i + 1] = Reprocess(g[i], Events(f)[i + 1], target)
    BY <2>2 DEF Apply
  <2>6. Seeks(f, i + 1, target, g[i + 1])
    <3> PICK x : x = g[i]
      OBVIOUS
    <3>1. Seeks(f, i + 1, target, Reprocess(x, Events(f)[i + 1], target))
      BY <2>0, <2>3, SeekNext
    <3> QED BY <2>5, <3>1
  <2> QED BY <2>0, <2>4, <2>6
<1>4. \A i \in 0..n : i \in S
  <2> HIDE DEF S
  <2> QED BY <1>0, <1>2, <1>3, UpTo
<1>5. ApplyAll(TRUE, a, es, target) = g[n]
  BY <1>1 DEF Steps
<1>6. n \in S
  <2> HIDE DEF S
  <2> QED BY <1>0, <1>4
<1> QED BY <1>5, <1>6

\* A pause that holds the run that is on is over before the recording is.
LEMMA PauseEnds ==
  ASSUME NEW f \in Files, Recording[f].map = "current", NEW n \in 0..Len(Events(f)), NEW u,
         OnFrom(f, n, u), HeldAfter(f, n, u)
  PROVE  n < Len(Events(f))
<1> DEFINE E == Events(f)
<1>0. Len(E) \in Nat /\ n \in Nat /\ n <= Len(E) /\ DOMAIN E = 1..Len(E)
  <2>1. E \in Seq(Event)
    BY RecordingIs
  <2> QED BY <2>1, RecordingIs
<1>1. /\ u \in 1..n /\ Begins(E[u])
      /\ \A k \in (u + 1)..n : ~Begins(E[k]) /\ ~Stops(E[k])
  BY DEF OnFrom
<1>2. PICK k \in (u + 1)..n : E[k].type = "PAUSE" /\ \A j \in (k + 1)..n : E[j].type # "RESUME"
  BY DEF HeldAfter
<1>3. Timeable(Recording[f])
  BY ReplaysAssumption
<1>4. \/ \E j \in (k + 1)..Len(E) : E[j].type = "RESUME" \/ Stops(E[j]) \/ Begins(E[j])
      \/ \E j \in 1..(k - 1) : Stops(E[j]) /\ \A i \in (j + 1)..(k - 1) : ~Begins(E[i])
  <2>1. k \in DOMAIN E
    BY <1>0, <1>1
  <2> QED BY <1>2, <1>3, <2>1 DEF Timeable, Events
<1>5. ASSUME NEW j \in 1..(k - 1), Stops(E[j]), \A i \in (j + 1)..(k - 1) : ~Begins(E[i]) PROVE FALSE
  <2>1. ~(Begins(E[j]) /\ Stops(E[j]))
    BY DEF Begins, Stops
  <2>2. CASE j < u
    <3>1. u \in (j + 1)..(k - 1)
      BY <1>1, <2>2
    <3> QED BY <1>1, <1>5, <3>1
  <2>3. CASE j = u
    BY <1>1, <1>5, <2>1, <2>3
  <2>4. CASE j > u
    <3>1. j \in (u + 1)..n
      BY <1>0, <1>1, <2>4
    <3> QED BY <1>1, <1>5, <3>1
  <2> QED BY <1>1, <2>2, <2>3, <2>4
<1>6. PICK j \in (k + 1)..Len(E) : E[j].type = "RESUME" \/ Stops(E[j]) \/ Begins(E[j])
  BY <1>4, <1>5
<1>7. ~(j \in (k + 1)..n)
  <2> SUFFICES ASSUME j \in (k + 1)..n PROVE FALSE
    OBVIOUS
  <2>1. j \in (u + 1)..n
    BY <1>0, <1>1
  <2> QED BY <1>1, <1>2, <1>6, <2>1
<1> QED BY <1>0, <1>1, <1>6, <1>7

\* At the tick that a seek goes to, the run has the time it had when recorded.
LEMMA SoughtShown ==
  ASSUME NEW f \in Files, Recording[f].map = "current", NEW target \in 1..Len(Recording[f].ticks),
         NEW n \in 0..Len(Events(f)),
         \A k \in 1..Len(Events(f)) :
           Events(f)[k].serverTick <= Recording[f].ticks[target].serverTick <=> k <= n,
         NEW x, Seeks(f, n, target, x), NEW more,
         more = IF n < Len(Events(f)) /\ x.since # -1 /\ x.active
                THEN Recording[f].ticks[target].serverTick - Recording[f].ticks[x.since].serverTick ELSE 0,
         NEW c \in Nat, c = curtime, NEW g \in Nat, g <= c, NEW q, q.course = x.replay.course, q.paused = x.replay.paused,
         q.startTime = IF x.replay.startTime > 0 THEN x.replay.startTime + x.total + more ELSE x.replay.startTime
  PROVE  ShownWell(f, n, target, q, x.mode, c, g)
<1> DEFINE E == Events(f)
           st(t) == Recording[f].ticks[t].serverTick
           L == Len(Recording[f].ticks)
<1>0. /\ Len(E) \in Nat /\ L \in Nat /\ n \in Nat /\ n <= Len(E)
      /\ \A t \in 1..L : st(t) \in Nat
      /\ \A k \in 1..Len(E) : E[k].serverTick \in Nat /\ E[k].time \in Nat
  <2>1. \A k \in 1..Len(E) : E[k].time \in Nat
    BY EventIs
  <2> QED BY <2>1, RecordingIs
<1>1. \A i, j \in 1..L : i <= j <=> st(i) <= st(j)
  BY OrderIs
<1>2. Shows(f, n, q, x.mode)
  <2>1. x.replay.startTime = 0 => q.startTime = 0
    OBVIOUS
  <2> QED BY <2>1 DEF Seeks, Shows
<1>3. \A k \in 1..n : k \in 1..Len(E) /\ E[k].serverTick <= st(target)
  BY <1>0
<1>4. ASSUME NEW k \in 1..Len(E), NEW t \in 1..(target - 1), E[k].serverTick <= st(t) PROVE k <= n
  <2>1. t \in 1..L /\ t <= target
    BY <1>0
  <2>2. st(t) <= st(target) /\ st(t) \in Nat /\ st(target) \in Nat /\ E[k].serverTick \in Nat
    BY <1>0, <1>1, <2>1
  <2>3. E[k].serverTick <= st(target)
    <3> HIDE DEF st, E
    <3> QED BY <1>4, <2>2
  <2> QED BY <2>3
<1>5. ASSUME NEW u \in 1..n, OnFrom(f, n, u)
      PROVE  HasTime(q.startTime, c, g, E[u].time + (target - FirstAt(f, u)), Cardinality(Held(f, n, u, target)))
  <2> DEFINE first == FirstAt(f, u)
             last == FirstAt(f, n)
             held == Cardinality(Held(f, n, u, target))
  <2>1. /\ x.active = TRUE /\ x.since \in Int /\ x.total \in Int
        /\ x.since # -1 <=> HeldAfter(f, n, u)
        /\ x.since # -1 => x.since \in first..last
        /\ x.replay.startTime = c - (E[u].time + (st(target) - E[u].serverTick))
        /\ \A j \in last..L : Cardinality(Held(f, n, u, j)) = x.total + IF x.since # -1 THEN j - x.since ELSE 0
    BY <1>5 DEF Seeks, Timing
  <2>2. /\ first \in 1..L /\ last \in 1..L /\ last <= target /\ st(first) = E[u].serverTick
        /\ E[u].serverTick \in Nat /\ E[u].time \in Nat /\ first <= last
    <3>1. u \in 1..Len(E) /\ n \in 1..Len(E) /\ u <= n /\ n \in 1..n
      BY <1>0
    <3>2. first \in 1..L /\ last \in 1..L /\ st(first) = E[u].serverTick /\ st(last) = E[n].serverTick
      BY <3>1, FirstIs
    <3>3. E[n].serverTick <= st(target)
      BY <1>3, <3>1
    <3>4. st(last) <= st(target)
      BY <3>2, <3>3
    <3>5. last <= target
      BY <1>1, <3>2, <3>4
    <3>6. first <= last
      BY <3>1, FirstsGrow
    <3> QED BY <1>0, <3>1, <3>2, <3>5, <3>6
  <2>3. ASSUME NEW j \in first..target PROVE st(j) = E[u].serverTick + (j - first)
    <3>1. j \in first..L
      BY <1>0, <2>2
    <3>2. ASSUME NEW k \in 1..Len(E), NEW t \in 1..(j - 1), E[k].serverTick <= st(t) PROVE k <= n
      <4>1. t \in 1..(target - 1)
        BY <2>2
      <4> QED BY <1>4, <3>2, <4>1
    <3> QED BY <1>5, <3>1, <3>2, NoGap
  <2>4. st(target) = E[u].serverTick + (target - first)
    <3>1. target \in first..target
      BY <2>2
    <3> QED BY <2>3, <3>1
  <2>5. held = x.total + IF x.since # -1 THEN target - x.since ELSE 0
    <3>1. target \in last..L
      BY <1>0, <2>2
    <3> QED BY <2>1, <3>1
  <2>6. more = IF x.since # -1 THEN target - x.since ELSE 0
    <3>1. CASE x.since = -1
      BY <3>1
    <3>2. CASE x.since # -1
      <4>1. n < Len(E)
        BY <1>5, <2>1, <3>2, PauseEnds
      <4>2. more = st(target) - st(x.since)
        BY <2>1, <3>2, <4>1
      <4>3. x.since \in first..target
        <5>1. x.since \in first..last
          BY <2>1, <3>2
        <5> HIDE DEF first, last
        <5> QED BY <2>2, <5>1
      <4>4. st(x.since) = E[u].serverTick + (x.since - first)
        BY <2>3, <4>3
      <4>5. first \in Int /\ target \in Int /\ x.since \in Int /\ E[u].serverTick \in Int
        BY <2>1, <2>2
      <4> HIDE DEF first, st, E
      <4>6. more = target - x.since
        BY ONLY <2>4, <4>2, <4>4, <4>5
      <4> QED BY <3>2, <4>6
    <3> QED BY <3>1, <3>2
  <2>7. /\ first \in Int /\ target \in Int /\ x.since \in Int /\ x.total \in Int /\ E[u].serverTick \in Int
        /\ E[u].time \in Int
    BY <2>1, <2>2
  <2>8. x.replay.startTime = c - (E[u].time + (target - first))
    <3>1. st(target) - E[u].serverTick = target - first
      <4> PICK a, b, d : a = st(target) /\ b = E[u].serverTick /\ d = first
        OBVIOUS
      <4>1. a = b + (target - d) /\ b \in Int /\ d \in Int /\ target \in Int
        BY <2>4, <2>7
      <4>2. a - b = target - d
        BY ONLY <4>1
      <4> QED BY <4>2
    <3> QED BY <2>1, <3>1
  <2> HIDE DEF first, E, held
  <2> PICK whole, total, s : whole = E[u].time + (target - first) /\ total = x.total /\ s = x.replay.startTime
    OBVIOUS
  <2>9. more \in Int /\ held = total + more /\ held \in Nat
    <3>0. held \in Nat
      BY HeldIsFinite DEF held
    <3>1. PICK v : v = IF x.since # -1 THEN target - x.since ELSE 0
      OBVIOUS
    <3>2. v \in Int
      BY <2>7, <3>1
    <3>3. more = v /\ held = total + v
      BY <2>5, <2>6, <3>1
    <3> QED BY ONLY <3>0, <3>2, <3>3
  <2>10. whole \in Int /\ total \in Int /\ s = c - whole
    BY <2>7, <2>8
  <2>11. q.startTime = IF s > 0 THEN s + total + more ELSE s
    OBVIOUS
  <2>12. HasTime(IF s > 0 THEN s + held ELSE s, c, g, whole, held)
    BY ONLY c \in Nat, g \in Nat, g <= c, <2>9, <2>10, HasTimeSought
  <2>13. q.startTime = IF s > 0 THEN s + held ELSE s
    <3>1. s \in Int
      BY <2>10
    <3> QED BY <2>9, <2>10, <2>11, <3>1
  <2> QED BY <2>12, <2>13 DEF first, E, held
<1> QED BY <1>2, <1>3, <1>4, <1>5 DEF ShownWell

\* A replay at its first tick shows no run.
LEMMA ShownAtFirst ==
  ASSUME NEW f \in Files, NEW run, run.startTime = 0, NEW m, NEW c, NEW g
  PROVE  ShownWell(f, 0, 1, run, m, c, g)
<1>1. Len(Events(f)) \in Nat
  BY RecordingIs
<1>2. 1..0 = {} /\ 1..(1 - 1) = {} /\ 0 \in 0..Len(Events(f))
  BY <1>1
<1>3. Shows(f, 0, run, m)
  BY <1>2 DEF Shows, ModeIs
<1> QED BY <1>2, <1>3 DEF ShownWell

\* A seek with the bot shows the run as it was at the tick it goes to.
LEMMA SoughtTime ==
  ASSUME NEW r, Shaped(r), r.playing, PlaysWell(r), NEW target \in DOMAIN r.ticks,
         curtime \in Nat, NEW g \in Nat, g <= curtime
  PROVE  LET s == ReprocessEventsUpToTick(ResetReplayState(r), target)
             u == [s.replay EXCEPT !.tick = target]
         IN  ShownWell(u.file, u.event - 1, u.tick, u, s.mode, curtime, g)
<1> DEFINE f     == r.file
           E     == Events(f)
           q     == ResetReplayState(r)
           n     == EventsBy(q.file, q.ticks[target].serverTick)
           past  == SubSeq(Events(q.file), 1, n)
           back  == target <= q.tick \/ q.tick = 1
           start == [replay |-> q, mode |-> IF back THEN DefaultMode ELSE mode,
                     active |-> FALSE, since |-> -1, total |-> 0]
           x     == ApplyAll(TRUE, start, past, target)
           more  == IF Len(past) < Len(Events(q.file)) /\ x.since # -1 /\ x.active
                    THEN GameTime(q, target) - GameTime(q, x.since) ELSE 0
           c     == q.ticks[target].checkpoint
           s     == ReprocessEventsUpToTick(q, target)
           u     == [s.replay EXCEPT !.tick = target]
<1>0. /\ f \in Files /\ Recording[f].map = "current" /\ Recording[f].damaged = "none"
      /\ r.ticks = Recording[f].ticks /\ r.tick \in DOMAIN r.ticks
      /\ target \in 1..Len(Recording[f].ticks) /\ Recording[f].ticks[target].serverTick \in Nat
  BY RecordingIs DEF PlaysWell
<1>1. q = [file |-> r.file, ticks |-> r.ticks, playing |-> r.playing, replayPaused |-> FALSE, tick |-> r.tick,
           event |-> 1, course |-> NoCourse, startTime |-> 0, paused |-> FALSE,
           checkpoint |-> ZeroValue]
  BY ResetIs
<1> HIDE DEF q
<1>2. /\ Shaped(q) /\ q.playing /\ q.file = f /\ q.ticks = r.ticks /\ q.tick = r.tick /\ q.event = 1
      /\ PlaysWell(q) /\ target \in DOMAIN q.ticks /\ q.startTime = 0
  BY <1>0, <1>1 DEF Shaped, PlaysWell
<1>3. /\ n \in 0..Len(Events(q.file)) /\ past \in Seq(Event) /\ Len(past) = n
      /\ \A i \in 1..n : past[i] = Events(q.file)[i]
      /\ Fits(TRUE, x, q)
      /\ s = [replay |-> [x.replay EXCEPT !.event = n + 1, !.startTime = IF @ > 0 THEN @ + x.total + more ELSE @, !.checkpoint = c],
              mode |-> x.mode]
  BY ONLY <1>2, ReprocessIs, ZenonT(30)
<1>4. Seeks(f, 0, target, start)
  <2>1. ShownWell(f, 0, 1, q, start.mode, curtime, g)
    BY <1>0, <1>2, ShownAtFirst
  <2>2. Shows(f, 0, start.replay, start.mode) /\ start.active = FALSE
    BY <2>1 DEF ShownWell
  <2>3. 1..0 = {}
    OBVIOUS
  <2> HIDE DEF start
  <2> QED BY <2>2, <2>3 DEF Seeks
<1>5. Fits(TRUE, start, q)
  BY <1>2 DEF Fits, Beside
<1>6. Seeks(f, n, target, x)
  <2> HIDE DEF n, past, start
  <2>1. /\ n \in 0..Len(Events(f)) /\ past \in Seq(Event) /\ Len(past) = n
        /\ \A i \in 1..n : past[i] = Events(f)[i]
    BY <1>2, <1>3
  <2>2. q.ticks = Recording[f].ticks
    BY <1>0, <1>2
  <2> HIDE DEF f
  <2> QED BY <1>0, <1>4, <1>5, <2>1, <2>2, SoughtThrough
<1>7. \A k \in 1..Len(E) : E[k].serverTick <= Recording[f].ticks[target].serverTick <=> k <= n
  BY <1>0, <1>2, EventsByIs
<1>8. more = IF n < Len(E) /\ x.since # -1 /\ x.active
             THEN Recording[f].ticks[target].serverTick - Recording[f].ticks[x.since].serverTick ELSE 0
  <2>1. GameTime(q, target) = Recording[f].ticks[target].serverTick
    BY <1>0, <1>2 DEF GameTime, Interval
  <2>2. CASE n < Len(E) /\ x.since # -1 /\ x.active
    <3>1. \E v \in 1..n : OnFrom(f, n, v)
      BY <1>6, <2>2 DEF Seeks
    <3>2. PICK v \in 1..n : OnFrom(f, n, v)
      BY <3>1
    <3>3. x.since \in FirstAt(f, v)..FirstAt(f, n)
      BY <1>6, <2>2, <3>2 DEF Seeks, Timing
    <3>4. FirstAt(f, v) \in 1..Len(Recording[f].ticks) /\ FirstAt(f, n) \in 1..Len(Recording[f].ticks)
      <4>1. v \in 1..Len(E) /\ n \in 1..Len(E)
        <5>1. n \in 0..Len(E) /\ Len(E) \in Nat
          BY <1>0, <1>2, <1>3, RecordingIs
        <5> HIDE DEF n, E
        <5> QED BY <3>2, <5>1
      <4> QED BY <1>0, <4>1, FirstIs
    <3>5. x.since \in 1..Len(Recording[f].ticks)
      <4> PICK i, lo, hi, k : i = x.since /\ lo = FirstAt(f, v) /\ hi = FirstAt(f, n) /\ k = Len(Recording[f].ticks)
        OBVIOUS
      <4>1. i \in lo..hi /\ lo \in 1..k /\ hi \in 1..k /\ k \in Nat
        BY <1>0, <3>3, <3>4, RecordingIs
      <4>2. i \in 1..k
        BY ONLY <4>1
      <4> QED BY <4>2
    <3>6. Recording[f].ticks[x.since].serverTick \in Nat
      BY <1>0, <3>5, RecordingIs
    <3>7. GameTime(q, x.since) = Recording[f].ticks[x.since].serverTick
      <4> PICK i : i = x.since
        OBVIOUS
      <4>1. GameTime(q, i) = Recording[f].ticks[i].serverTick * 1 /\ Recording[f].ticks[i].serverTick \in Nat
        BY <1>0, <1>2, <3>6 DEF GameTime, Interval
      <4>2. GameTime(q, i) = Recording[f].ticks[i].serverTick
        BY ONLY <4>1
      <4> QED BY <4>2
    <3>8. Len(past) < Len(Events(q.file))
      BY <1>2, <1>3, <2>2
    <3> HIDE DEF x, n, past
    <3> QED BY <2>1, <2>2, <3>7, <3>8
  <2>3. CASE ~(n < Len(E) /\ x.since # -1 /\ x.active)
    <3>1. ~(Len(past) < Len(Events(q.file)) /\ x.since # -1 /\ x.active)
      <4> HIDE DEF x, n, past
      <4> QED BY <1>2, <1>3, <2>3
    <3> HIDE DEF x, n, past
    <3> QED BY <2>3, <3>1
  <2> QED BY <2>2, <2>3
<1> HIDE DEF n, past, back, start, x, more, c, s
<1>9. Shaped(x.replay) /\ x.replay.file = f /\ s.mode = x.mode
  BY <1>2, <1>3 DEF Fits, Beside
<1>10. /\ u.file = f /\ u.event = n + 1 /\ u.tick = target
       /\ u.course = x.replay.course /\ u.paused = x.replay.paused
       /\ u.startTime = IF x.replay.startTime > 0 THEN x.replay.startTime + x.total + more
                        ELSE x.replay.startTime
  <2> PICK p, i, e : p = x.replay /\ i = n + 1 /\ e = IF x.replay.startTime > 0 THEN x.replay.startTime + x.total + more ELSE x.replay.startTime
    OBVIOUS
  <2> DEFINE y == [p EXCEPT !.event = i]
             z == [y EXCEPT !.startTime = e]
             w == [z EXCEPT !.checkpoint = c]
  <2>1. s.replay = w
    BY <1>3
  <2>2. y = [file |-> p.file, ticks |-> p.ticks, playing |-> p.playing, replayPaused |-> p.replayPaused,
             tick |-> p.tick, event |-> i, course |-> p.course, startTime |-> p.startTime, paused |-> p.paused, checkpoint |-> p.checkpoint]
    <3>1. Shaped(p)
      BY <1>9
    <3> QED BY ONLY <3>1, FieldSet
  <2> HIDE DEF y
  <2>3. Shaped(y)
    BY <2>2 DEF Shaped
  <2>4. z = [file |-> y.file, ticks |-> y.ticks, playing |-> y.playing, replayPaused |-> y.replayPaused,
             tick |-> y.tick, event |-> y.event, course |-> y.course, startTime |-> e, paused |-> y.paused, checkpoint |-> y.checkpoint]
    BY <2>3, FieldSet
  <2> HIDE DEF z
  <2>5. Shaped(z)
    BY <2>4 DEF Shaped
  <2>6. w = [file |-> z.file, ticks |-> z.ticks, playing |-> z.playing, replayPaused |-> z.replayPaused,
             tick |-> z.tick, event |-> z.event, course |-> z.course, startTime |-> z.startTime, paused |-> z.paused, checkpoint |-> c]
    BY <2>5, FieldSet
  <2> HIDE DEF w
  <2>7. Shaped(w)
    BY <2>6 DEF Shaped
  <2>8. u = [file |-> w.file, ticks |-> w.ticks, playing |-> w.playing, replayPaused |-> w.replayPaused,
             tick |-> target, event |-> w.event, course |-> w.course, startTime |-> w.startTime, paused |-> w.paused, checkpoint |-> w.checkpoint]
    <3> PICK t : t = target
      OBVIOUS
    <3>1. [w EXCEPT !.tick = t] =
            [file |-> w.file, ticks |-> w.ticks, playing |-> w.playing, replayPaused |-> w.replayPaused,
             tick |-> t, event |-> w.event, course |-> w.course, startTime |-> w.startTime, paused |-> w.paused, checkpoint |-> w.checkpoint]
      BY ONLY <2>7, FieldSet
    <3> QED BY <2>1, <3>1
  <2> HIDE DEF u
  <2> QED BY <1>9, <2>2, <2>4, <2>6, <2>8
<1> HIDE DEF u
<1>11. ShownWell(f, n, target, u, s.mode, curtime, g)
  <2>1. n \in 0..Len(E)
    BY <1>2, <1>3
  <2>2. ShownWell(f, n, target, u, x.mode, curtime, g)
    <3> HIDE DEF f
    <3> QED BY <1>0, <1>6, <1>7, <1>8, <1>10, <2>1, SoughtShown
  <2> QED BY <1>9, <2>2
<1>12. u.event - 1 = n
  BY <1>3, <1>2, <1>0, <1>10, RecordingIs
<1>13. ShownWell(u.file, u.event - 1, u.tick, u, s.mode, curtime, g)
  BY <1>10, <1>11, <1>12
<1> QED BY <1>13 DEF u, s, q

\* The bot shows the run that was on at its tick, with the time it had.
TimeInv ==
  /\ curtime \in Nat /\ began \in Nat
  /\ bot /\ replay.playing =>
       /\ began <= curtime
       /\ ShownWell(replay.file, replay.event - 1, replay.tick, replay, mode, curtime, began)

LEMMA TimeInvKept == PlayInv /\ TimeInv /\ [ReplaysNext]_allVars => TimeInv'
<1> SUFFICES ASSUME PlayInv, TimeInv, [ReplaysNext]_allVars
             PROVE  /\ curtime' \in Nat /\ began' \in Nat
                    /\ bot' /\ replay'.playing =>
                         /\ began' <= curtime'
                         /\ ShownWell(replay'.file, replay'.event - 1, replay'.tick, replay', mode', curtime', began')
  BY DEF TimeInv
<1>0. /\ Shaped(replay) /\ replay.event \in Nat \ {0} /\ PlaysWell(replay)
      /\ load.state = "Completed" => load.completed.at = "done" /\ ReadWell(load.completed)
      /\ curtime \in Nat /\ began \in Nat
  BY DEF PlayInv, TimeInv
<1>1. CASE replay' = replay /\ bot' = bot /\ mode' = mode /\ curtime' = curtime /\ began' = began
  BY <1>1 DEF TimeInv
<1>2. CASE ProcessAsyncLoadCompletion
  <2>0. curtime' = curtime
    BY <1>2 DEF ProcessAsyncLoadCompletion
  <2>1. CASE load.state # "Completed"
    <3>1. replay' = replay /\ bot' = bot /\ mode' = mode /\ began' = began
      BY <1>2, <2>1 DEF ProcessAsyncLoadCompletion
    <3> QED BY <1>1, <2>0, <3>1
  <2>2. CASE load.state = "Completed"
    <3> DEFINE c == load.completed
               r == [Empty EXCEPT !.file = c.file, !.ticks = c.ticks]
               p == [r EXCEPT !.playing = TRUE]
    <3>0. began' = curtime
      BY <1>2, <2>2 DEF ProcessAsyncLoadCompletion
    <3>1. OnLoaded(r)
      BY <1>2, <2>2 DEF ProcessAsyncLoadCompletion
    <3>2. c.file \in Files
      <4>1. ReadWell(c) /\ c.at = "done"
        BY <1>0, <2>2
      <4> QED BY <4>1 DEF ReadWell
    <3>3. r.playing = FALSE /\ p.file = c.file /\ p.event = 1 /\ p.tick = 1 /\ p.startTime = 0
      BY LoadedIs
    <3> HIDE DEF r
    <3>4. CASE ~replay'.playing
      BY <1>0, <2>0, <3>0, <3>4
    <3>5. CASE replay'.playing
      <4>1. replay' = p
        BY <3>1, <3>3, <3>5 DEF OnLoaded
      <4> HIDE DEF p
      <4>2. ShownWell(c.file, 0, 1, p, mode', curtime', began')
        BY <3>2, <3>3, ShownAtFirst
      <4>3. p.event - 1 = 0
        BY <3>3
      <4> QED BY <1>0, <2>0, <3>0, <3>3, <4>1, <4>2, <4>3
    <3> QED BY <3>4, <3>5
  <2> QED BY <2>1, <2>2
<1>3. CASE OnPhysicsSimulatePost
  <2>1. bot /\ replay.playing /\ curtime' = curtime + 1 /\ began' = began
    BY <1>3 DEF OnPhysicsSimulatePost, Interval
  <2>2. /\ began <= curtime /\ began' <= curtime' /\ curtime' \in Nat
        /\ ShownWell(replay.file, replay.event - 1, replay.tick, replay, mode, curtime, began)
    BY <1>0, <2>1 DEF TimeInv
  <2>3. CASE replay.replayPaused
    <3>1. replay' = HoldTime(replay) /\ mode' = mode
      BY <1>3, <2>3 DEF OnPhysicsSimulatePost
    <3>2. /\ replay'.file = replay.file /\ replay'.event = replay.event /\ replay'.tick = replay.tick
          /\ replay'.course = replay.course /\ replay'.paused = replay.paused
          /\ replay'.startTime = IF replay.startTime > 0 THEN replay.startTime + 1 ELSE replay.startTime
      BY <1>0, <2>3, <3>1, HoldTimeIs
    <3> PICK f, b, i, s : f = replay.file /\ b = replay.event - 1 /\ i = replay.tick /\ s = replay.startTime
      OBVIOUS
    <3>3. ShownWell(f, b, i, replay, mode, curtime, began)
      BY <2>2
    <3>4. Shows(f, b, replay', mode)
      BY <3>2, <3>3 DEF ShownWell, Shows
    <3>5. ASSUME NEW u \in 1..b, OnFrom(f, b, u)
          PROVE  HasTime(replay'.startTime, curtime + 1, began, Events(f)[u].time + (i - FirstAt(f, u)),
                         Cardinality(Held(f, b, u, i)))
      <4> PICK whole, held : whole = Events(f)[u].time + (i - FirstAt(f, u)) /\ held = Cardinality(Held(f, b, u, i))
        OBVIOUS
      <4>1. HasTime(s, curtime, began, whole, held)
        BY <3>3, <3>5 DEF ShownWell
      <4>2. whole \in Int /\ held \in Int
        <5>1. f \in Files /\ i \in 1..Len(Recording[f].ticks) /\ Len(Recording[f].ticks) \in Nat
          BY <1>0, <2>1, RecordingIs DEF PlaysWell
        <5>2. b \in 0..Len(Events(f)) /\ Len(Events(f)) \in Nat
          BY <3>3, <5>1, RecordingIs DEF ShownWell
        <5>3. u \in 1..Len(Events(f))
          BY <5>2
        <5>4. Events(f)[u].time \in Nat /\ FirstAt(f, u) \in 1..Len(Recording[f].ticks) /\ held \in Nat
          BY <5>1, <5>3, EventIs, FirstIs, HeldIsFinite
        <5>5. i \in Int /\ FirstAt(f, u) \in Int /\ Events(f)[u].time \in Int
          BY <5>1, <5>4
        <5> QED BY <5>4, <5>5
      <4>3. HasTime(IF s > 0 THEN s + 1 ELSE s, curtime + 1, began, whole, held)
        BY <1>0, <4>1, <4>2, HasTimeNext
      <4> QED BY <3>2, <4>3
    <3>6. ShownWell(f, b, i, replay', mode, curtime + 1, began)
      BY <3>3, <3>4, <3>5 DEF ShownWell
    <3> QED BY <1>0, <2>1, <2>2, <3>1, <3>2, <3>6
  <2>4. CASE ~replay.replayPaused
    <3> DEFINE s == CheckEvents([replay EXCEPT !.checkpoint = replay.ticks[replay.tick].checkpoint])
               last == replay.tick = Len(replay.ticks)
               u == [HoldTime(s.replay) EXCEPT !.tick = @ + 1, !.playing = ~last]
    <3>1. mode' = s.mode /\ bot' = ~last /\ replay' = u
      BY <1>3, <2>4 DEF OnPhysicsSimulatePost
    <3>2. CASE last
      BY <1>0, <2>1, <2>2, <3>1, <3>2
    <3>3. CASE ~last
      <4>1. ShownWell(u.file, u.event - 1, u.tick, u, s.mode, curtime + 1, began)
        BY <1>0, <2>1, <2>2, <2>4, <3>3, PlayedShown
      <4> HIDE DEF u, s
      <4> QED BY <1>0, <2>1, <2>2, <3>1, <4>1
    <3> QED BY <3>2, <3>3
  <2> QED BY <2>3, <2>4
<1>4. CASE NavigateReplay
  <2>1. replay.playing /\ bot' = bot /\ curtime' = curtime /\ began' = began
    BY <1>4 DEF NavigateReplay
  <2>2. CASE ~bot
    BY <1>0, <2>1, <2>2
  <2>3. CASE bot
    <3>1. PICK target \in DOMAIN replay.ticks :
            LET s == ReprocessEventsUpToTick(ResetReplayState(replay), target)
            IN  replay' = [s.replay EXCEPT !.tick = target] /\ mode' = s.mode
      BY <1>4, <2>3 DEF NavigateReplay
    <3> DEFINE s == ReprocessEventsUpToTick(ResetReplayState(replay), target)
               u == [s.replay EXCEPT !.tick = target]
    <3>2. began <= curtime
      BY <2>1, <2>3 DEF TimeInv
    <3>3. ShownWell(u.file, u.event - 1, u.tick, u, s.mode, curtime, began)
      BY <1>0, <2>1, <3>2, SoughtTime
    <3>4. replay' = u /\ mode' = s.mode
      BY <3>1
    <3> HIDE DEF u, s
    <3> QED BY <1>0, <2>1, <3>2, <3>3, <3>4
  <2> QED BY <2>2, <2>3
<1>5. CASE ToggleReplayPause
  <2>1. /\ bot' = bot /\ mode' = mode /\ curtime' = curtime /\ began' = began
        /\ replay.playing /\ replay' = [replay EXCEPT !.replayPaused = ~@]
    BY <1>5 DEF ToggleReplayPause
  <2>2. PICK b : b = ~replay.replayPaused
    OBVIOUS
  <2>3. replay' = [file |-> replay.file, ticks |-> replay.ticks, playing |-> replay.playing,
                   replayPaused |-> b, tick |-> replay.tick, event |-> replay.event,
                   course |-> replay.course, startTime |-> replay.startTime,
                   paused |-> replay.paused, checkpoint |-> replay.checkpoint]
    BY <1>0, <2>1, <2>2, FieldSet
  <2>4. /\ replay'.file = replay.file /\ replay'.event = replay.event /\ replay'.tick = replay.tick
        /\ replay'.course = replay.course /\ replay'.paused = replay.paused
        /\ replay'.startTime = replay.startTime
    BY <2>3
  <2>5. bot => began <= curtime /\ ShownWell(replay.file, replay.event - 1, replay.tick, replay, mode, curtime, began)
    BY <2>1 DEF TimeInv
  <2>6. bot => ShownWell(replay.file, replay.event - 1, replay.tick, replay', mode, curtime, began)
    BY <2>4, <2>5 DEF ShownWell, Shows
  <2> QED BY <1>0, <2>1, <2>4, <2>5, <2>6
<1>6. CASE OnRoundStart \/ MapBegins \/ Restart \/ FramesWithoutBot
  <2>1. curtime' \in Nat /\ began' \in Nat
    <3>1. Ages \subseteq Nat
      BY ReplaysAssumption
    <3>2. CASE FramesWithoutBot
      BY <1>0, <3>1, <3>2 DEF FramesWithoutBot
    <3>3. CASE OnRoundStart \/ MapBegins \/ Restart
      BY <1>0, <3>3 DEF OnRoundStart, MapBegins, Restart
    <3> QED BY <1>6, <3>2, <3>3
  <2>2. ~(bot' /\ replay'.playing)
    BY <1>6 DEF OnRoundStart, MapBegins, Restart, FramesWithoutBot
  <2> QED BY <2>1, <2>2
<1>7. CASE \/ LoadReplay \/ CancelReplayLoad \/ ReadSection \/ HandleAsyncResult \/ StoreResult
           \/ PlayerLeaves \/ Watcher \/ UNCHANGED allVars
  <2>1. replay' = replay /\ bot' = bot /\ mode' = mode /\ curtime' = curtime /\ began' = began
    BY <1>7 DEF LoadReplay, CancelReplayLoad, ReadSection, HandleAsyncResult, StoreResult,
                PlayerLeaves, Watcher, allVars, playVars
  <2> QED BY <1>1, <2>1
<1> QED BY <1>2, <1>3, <1>4, <1>5, <1>6, <1>7 DEF ReplaysNext

\* What LastOf finds among the first b events.
LEMMA LastOfIs ==
  ASSUME NEW f, NEW b \in Nat, f = replay.file, b = replay.event - 1, NEW types
  PROVE  LET Of(k) == Events(f)[k].type \in types /\ (Events(f)[k].type = "START" => Events(f)[k].course \in KnownCourses)
             last  == LastOf(types)
         IN  /\ last \in 0..b /\ (last # 0 => Of(last))
             /\ \A k \in 1..b : Of(k) => k <= last
<1> DEFINE Of(k) == Events(f)[k].type \in types /\ (Events(f)[k].type = "START" => Events(f)[k].course \in KnownCourses)
           at == {k \in 1..b : Of(k)}
<1>1. LastOf(types) = IF at = {} THEN 0 ELSE Max(at)
  BY DEF LastOf, Behind
<1>2. at # {} => Max(at) \in at /\ \A k \in at : Max(at) >= k
  <2>1. at \in SUBSET (1..b)
    OBVIOUS
  <2> QED BY <2>1, MaxOf
<1> SUFFICES /\ LastOf(types) \in 0..b /\ (LastOf(types) # 0 => Of(LastOf(types)))
             /\ \A k \in 1..b : Of(k) => k <= LastOf(types)
  OBVIOUS
<1> HIDE DEF Of
<1>3. CASE at = {}
  BY <1>1, <1>3
<1>4. CASE at # {}
  <2>1. Max(at) \in 1..b /\ Of(Max(at)) /\ \A k \in 1..b : Of(k) => Max(at) >= k
    BY <1>2, <1>4
  <2>2. LastOf(types) = Max(at)
    BY <1>1, <1>4
  <2> HIDE DEF at
  <2> QED BY <2>1, <2>2
<1> QED BY <1>3, <1>4

\* What is shown is what the property reads off the recording.
LEMMA ShownIsRecorded == PlayInv /\ TimeInv => TimeIsRecorded
<1> SUFFICES ASSUME PlayInv, TimeInv, bot, replay.playing PROVE TimeIsRecorded
  BY DEF TimeIsRecorded
<1> PICK f, b, i : f = replay.file /\ b = replay.event - 1 /\ i = replay.tick
  OBVIOUS
<1> DEFINE E == Events(f)
           L == Len(Recording[f].ticks)
           start == LastOf({"START"})
           end == LastOf({"END", "STOP"})
           on == start # 0 /\ end < start
           turn == LastOf({"MODE"})
<1>0. /\ f \in Files /\ b \in Nat /\ replay.ticks = Recording[f].ticks /\ DOMAIN replay.ticks = 1..L
      /\ b \in 0..Len(E) /\ Len(E) \in Nat /\ Shows(f, b, replay, mode)
      /\ \A u \in 1..b : OnFrom(f, b, u) =>
           HasTime(replay.startTime, curtime, began, E[u].time + (i - FirstAt(f, u)), Cardinality(Held(f, b, u, i)))
  <2>1. f \in Files /\ replay.ticks = Recording[f].ticks /\ b \in Nat
    BY DEF PlayInv, PlaysWell
  <2>2. ShownWell(f, b, i, replay, mode, curtime, began)
    BY DEF TimeInv
  <2> QED BY <2>1, <2>2, RecordingIs DEF ShownWell
<1>1. /\ start \in 0..b /\ end \in 0..b
      /\ start # 0 => Begins(E[start])
      /\ end # 0 => Stops(E[end])
      /\ \A k \in 1..b : (Begins(E[k]) => k <= start) /\ (Stops(E[k]) => k <= end)
  <2>1. /\ start \in 0..b
        /\ start # 0 => E[start].type = "START" /\ E[start].course \in KnownCourses
        /\ \A k \in 1..b : E[k].type = "START" /\ E[k].course \in KnownCourses => k <= start
    <3>1. \A k : E[k].type \in {"START"} <=> E[k].type = "START"
      OBVIOUS
    <3> QED BY <1>0, <3>1, LastOfIs
  <2>2. /\ end \in 0..b
        /\ end # 0 => E[end].type \in {"END", "STOP"}
        /\ \A k \in 1..b : E[k].type \in {"END", "STOP"} => k <= end
    <3>1. \A k : E[k].type \in {"END", "STOP"} => E[k].type # "START"
      OBVIOUS
    <3> QED BY <1>0, <3>1, LastOfIs
  <2> QED BY <2>1, <2>2 DEF Begins, Stops
<1>2. /\ turn \in 0..b
      /\ turn # 0 => E[turn].type = "MODE"
      /\ \A k \in 1..b : E[k].type = "MODE" => k <= turn
  <2>1. \A k : E[k].type \in {"MODE"} <=> E[k].type = "MODE"
    OBVIOUS
  <2> QED BY <1>0, <2>1, LastOfIs
<1> HIDE DEF start, end, turn
<1>3. turn # 0 => mode = Switched(mode, E[turn].mode)
  <2> SUFFICES ASSUME turn # 0, E[turn].mode \in KnownModes PROVE mode = E[turn].mode
    BY DEF Switched
  <2>1. turn \in 1..b /\ \A k \in (turn + 1)..b : k \in 1..b /\ ~(k <= turn)
    BY <1>0, <1>2
  <2>2. \A k \in (turn + 1)..b : E[k].type # "MODE"
    BY <1>2, <2>1
  <2> QED BY <1>0, <1>2, <2>1, <2>2 DEF Shows, ModeIs
<1>4. CASE on
  <2>1. start \in 1..b /\ Begins(E[start]) /\ end < start
    BY <1>0, <1>1, <1>4
  <2>2. OnFrom(f, b, start)
    <3>1. \A k \in (start + 1)..b : k \in 1..b /\ ~(k <= start) /\ ~(k <= end)
      BY <1>0, <1>1, <2>1
    <3> QED BY <1>1, <2>1, <3>1 DEF OnFrom
  <2>3. /\ replay.course = E[start].course
        /\ HasTime(replay.startTime, curtime, began, E[start].time + (i - FirstAt(f, start)),
                   Cardinality(Held(f, b, start, i)))
    BY <1>0, <2>1, <2>2 DEF Shows
  <2>4. HeldTicks(start, i) = Held(f, b, start, i)
    <3>1. \A t \in 1..L :
            HeldAt(f, b, start, t) <=>
              \E k \in Behind : /\ k > start /\ E[k].type = "PAUSE" /\ E[k].serverTick <= replay.ticks[t].serverTick
                                /\ \A n \in Behind : n > k /\ E[n].serverTick <= replay.ticks[t].serverTick
                                                       => E[n].type # "RESUME"
      <4>1. Behind = 1..b
        BY DEF Behind
      <4>2. \A k \in 1..b : k > start <=> k \in (start + 1)..b
        BY <1>0, <2>1
      <4>3. \A k \in (start + 1)..b : k \in 1..b
        BY <1>0, <2>1
      <4>4. \A k, n \in 1..b : n > k <=> n \in (k + 1)..b
        BY <1>0
      <4>5. \A k \in 1..b : \A n \in (k + 1)..b : n \in 1..b
        BY <1>0
      <4> HIDE DEF E
      <4> SUFFICES ASSUME NEW t \in 1..L
                   PROVE  HeldAt(f, b, start, t) <=>
                            \E k \in 1..b :
                              /\ k > start /\ E[k].type = "PAUSE" /\ E[k].serverTick <= Recording[f].ticks[t].serverTick
                              /\ \A n \in 1..b : n > k /\ E[n].serverTick <= Recording[f].ticks[t].serverTick
                                                   => E[n].type # "RESUME"
        BY <1>0, <4>1
      <4> DEFINE By(n) == E[n].serverTick <= Recording[f].ticks[t].serverTick
      <4>6. HeldAt(f, b, start, t) <=>
              \E k \in (start + 1)..b : /\ E[k].type = "PAUSE" /\ By(k)
                                        /\ \A n \in (k + 1)..b : By(n) => E[n].type # "RESUME"
        BY DEF HeldAt, E
      <4> HIDE DEF By
      <4>7. ASSUME NEW k \in 1..b
            PROVE  (\A n \in (k + 1)..b : By(n) => E[n].type # "RESUME")
                     <=> \A n \in 1..b : n > k /\ By(n) => E[n].type # "RESUME"
        BY <4>4, <4>5
      <4>8. HeldAt(f, b, start, t) <=>
              \E k \in 1..b : /\ k > start /\ E[k].type = "PAUSE" /\ By(k)
                              /\ \A n \in 1..b : n > k /\ By(n) => E[n].type # "RESUME"
        BY <4>2, <4>3, <4>6, <4>7
      <4> QED BY <4>8 DEF By
    <3> QED BY <1>0, <3>1 DEF HeldTicks, Held
  <2>5. FirstAt(f, start) = Min({t \in DOMAIN replay.ticks : replay.ticks[t].serverTick >= E[start].serverTick})
    <3>1. start \in 1..Len(E)
      BY <1>0, <2>1
    <3> QED BY <1>0, <3>1, FirstIs
  <2> QED BY <1>3, <1>4, <2>3, <2>4, <2>5 DEF HasTime, TimeIsRecorded, start, end, turn
<1>5. CASE ~on
  <2>1. ASSUME NEW u \in 1..b, OnFrom(f, b, u) PROVE FALSE
    <3>1. Begins(E[u]) /\ u <= start /\ \A k \in (u + 1)..b : ~Begins(E[k]) /\ ~Stops(E[k])
      BY <1>1, <2>1 DEF OnFrom
    <3>2. start = u
      <4>1. start # 0 /\ start \in Nat
        BY <1>0, <1>1, <3>1
      <4>2. ~(start \in (u + 1)..b)
        BY <1>1, <3>1, <4>1
      <4> QED BY <1>0, <1>1, <3>1, <4>1, <4>2
    <3>3. end >= u /\ end # 0
      BY <1>0, <1>1, <1>5, <3>2
    <3>4. Stops(E[end]) /\ end # u
      BY <1>1, <3>1, <3>3 DEF Begins, Stops
    <3>5. end \in (u + 1)..b
      BY <1>0, <1>1, <3>3, <3>4
    <3> QED BY <3>1, <3>4, <3>5
  <2>2. replay.startTime = 0
    BY <1>0, <2>1 DEF Shows
  <2> QED BY <1>3, <1>5, <2>2 DEF TimeIsRecorded, start, end, turn
<1> QED BY <1>4, <1>5

\* Of a well-formed recording that can be timed, the bot shows the run that was on,
\* played through or reached by seeking, with the time it had at that tick: unless
\* the map was not as old as the run when the replay was begun and the startTime of
\* a seek is not positive.
THEOREM TheTimeIsRecorded == ReplaysSpec => []TimeIsRecorded
<1>1. ReplaysInit => TimeInv
  BY DEF ReplaysInit, PlayInit, TimeInv
<1>2. PlayInv /\ TimeInv /\ [ReplaysNext]_allVars => TimeInv'
  BY TimeInvKept
<1>3. PlayInv /\ TimeInv => TimeIsRecorded
  BY ShownIsRecorded
<1> QED BY <1>1, <1>2, <1>3, ReplaysInvariant, PTL DEF ReplaysSpec
==============================================================================
