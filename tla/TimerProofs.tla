----------------------------- MODULE TimerProofs -----------------------------
(***************************************************************************)
(* What holds of the timer, whatever the map, its courses, its zones and    *)
(* the bounds of the model: its types; that recorders follow it and every   *)
(* submission has its own; and, with the saved locations beside it, that a  *)
(* course is known while it runs.                                           *)
(*                                                                          *)
(* The timer's two counters are moreover as good as the zones themselves,   *)
(* on maps of any courses and with starts inside a tick, unless one of two  *)
(* things happens to a run: a finished run is complete, however its zones   *)
(* are numbered, and the timer implements RunContract.  Neither may be left *)
(* out: with a run that another course's start zone takes over, or one that *)
(* enters a checkpoint in the tick it started inside, TLC finds an          *)
(* incomplete finished run.                                                 *)
(***************************************************************************)
EXTENDS Saveloc, FiniteSetTheorems, TLAPS

\* A zone of the map belongs to a course, and its number is one of that
\* course's; in particular a checkpoint has its place in cpZoneTimes.
LEMMA ZoneFields ==
  ASSUME NEW z \in MapZones
  PROVE  /\ z.course \in Courses
         /\ z.num \in Nat
         /\ z.kind = "cp" => z.num \in Cps /\ z.num \in 1..CpCount[z.course] /\ z = Zone("cp", z.course, z.num)
         /\ z.kind = "stage" => z.num \in StageNums[z.course] /\ z = Zone("stage", z.course, z.num)
  BY ZonesAssumption, TimerAssumption
     DEF MapZones, ZonesOf, CpZones, StageZones, Zone, Cps

\* A started timer's variables have their types.
LEMMA TimerStartType ==
  ASSUME TypeOK, NEW c \in Courses, TimerStart(c)
  PROVE  /\ timerRunning' \in BOOLEAN
         /\ currentTime' \in -1..(MaxTime + Tick)
         /\ currentCourse' \in Courses \cup {NoCourse}
         /\ reached' \in Nat /\ cpTimes' \in [Cps -> Int] /\ currentStage' \in Nat
         /\ activeRecs' \in Nat /\ savedRecs' \in Nat /\ runUUID' \in Nat
         /\ submissions' \in Seq(Submission)
         /\ startedOn' \in Courses \cup {NoCourse} /\ passed' \subseteq MapZones
  <1>1. CpCount[c] \in Nat
    BY ZonesAssumption
  <1>2. cpTimes' \in [Cps -> Int]
    BY <1>1 DEF TypeOK, TimerStart, Cps, Invalid
  <1>3. currentTime' \in -1..(MaxTime + Tick)
    BY TimerAssumption DEF TimerStart, Tick
  <1> QED
    BY <1>2, <1>3 DEF TypeOK, TimerStart

\* So do those of a timer that has ended a run.
LEMMA TimerEndType ==
  ASSUME TypeOK, timerRunning, currentTime <= MaxTime, TimerEnd
  PROVE  /\ timerRunning' \in BOOLEAN
         /\ currentTime' \in -1..(MaxTime + Tick)
         /\ reached' \in Nat /\ cpTimes' \in [Cps -> Int] /\ currentStage' \in Nat
         /\ activeRecs' \in Nat /\ savedRecs' \in Nat /\ runUUID' \in Nat
         /\ submissions' \in Seq(Submission)
  <1>1. NewRunUUID \in Nat
    BY DEF NewRunUUID, TypeOK
  <1>2. submissions' \in Seq(Submission)
    BY <1>1 DEF TypeOK, TimerEnd, Submission
  <1>3. currentTime' \in -1..(MaxTime + Tick)
    BY TimerAssumption DEF TypeOK, TimerEnd, Tick
  <1>4. reached' \in Nat /\ cpTimes' \in [Cps -> Int] /\ currentStage' \in Nat /\ timerRunning' \in BOOLEAN
    BY DEF TypeOK, TimerEnd
  <1>5. activeRecs' \in Nat /\ savedRecs' \in Nat /\ runUUID' \in Nat
    BY <1>1 DEF TypeOK, TimerEnd
  <1> QED
    BY <1>2, <1>3, <1>4, <1>5

\* What may stop the timer: it is stopped, or left as it was.
LEMMA StopOrKeep ==
  ASSUME TypeOK, TimerStop \/ UNCHANGED <<timerRunning, activeRecs, currentStage>>
  PROVE  /\ timerRunning' \in BOOLEAN /\ activeRecs' \in Nat /\ currentStage' \in Nat
         /\ timerRunning' => timerRunning
  <1>1. CASE StopRunning
    BY <1>1 DEF StopRunning
  <1>2. CASE UNCHANGED <<timerRunning, activeRecs, currentStage>>
    BY <1>2 DEF TypeOK
  <1> QED
    BY <1>1, <1>2 DEF TimerStop

------------------------------------------------------------------------------
\* While it runs the clock stays within the bound of OnPhysicsSimulatePost, so
\* the tick added by TimerEnd stays within the type.
TypeInv == TypeOK /\ (timerRunning => currentTime <= MaxTime)

\* Every step of the timer preserves the types.
LEMMA TypeStep ==
  ASSUME TypeInv, [Next]_vars
  PROVE  TypeInv'
  <1> USE DEF TypeInv
  <1>1. ASSUME NEW z \in MapZones, StartZoneStartTouch(z) PROVE TypeInv'
    BY <1>1, ZoneFields
       DEF TypeOK, StartZoneStartTouch, Enter, countVars, recVars, auxVars
  <1>2. ASSUME NEW z \in MapZones, StartZoneTouch(z) PROVE TypeInv'
    BY <1>2, ZoneFields
       DEF TypeOK, StartZoneTouch, zoneVars, countVars, recVars, auxVars
  <1>3. ASSUME NEW z \in MapZones, StartZoneEndTouch(z) PROVE TypeInv'
    <2> /\ z.course \in Courses
        /\ alive' \in BOOLEAN /\ touchedGround' \in BOOLEAN /\ paused' \in BOOLEAN
        /\ touching' \subseteq MapZones
      BY <1>3, ZoneFields DEF TypeOK, StartZoneEndTouch
    <2>1. CASE TimerStart(z.course)
      <3>1. currentTime' <= MaxTime
        BY <2>1, TimerAssumption DEF TimerStart
      <3> QED
        BY <2>1, <3>1, TimerStartType DEF TypeOK
    <2>2. CASE UNCHANGED <<timerRunning, currentTime, currentCourse, countVars, recVars, auxVars>>
      BY <2>2 DEF TypeOK, countVars, recVars, auxVars
    <2> QED
      BY <1>3, <2>1, <2>2 DEF StartZoneEndTouch
  <1>4. ASSUME NEW z \in MapZones, CheckpointZoneStartTouch(z) PROVE TypeInv'
    <2>1. cpTimes' \in [Cps -> Int] /\ reached' \in Nat
      BY <1>4, ZoneFields DEF TypeOK, CheckpointZoneStartTouch
    <2>2. passed' \subseteq MapZones
      BY <1>4 DEF TypeOK, CheckpointZoneStartTouch, Credit
    <2> QED
      BY <1>4, <2>1, <2>2 DEF TypeOK, CheckpointZoneStartTouch, Enter, recVars
  <1>5. ASSUME NEW z \in MapZones, StageZoneStartTouch(z) PROVE TypeInv'
    <2>1. passed' \subseteq MapZones
      BY <1>5 DEF TypeOK, StageZoneStartTouch, Credit
    <2> QED
      BY <1>5, <2>1 DEF TypeOK, StageZoneStartTouch, Enter, recVars
  <1>6. ASSUME NEW z \in MapZones, EndZoneStartTouch(z) PROVE TypeInv'
    <2>1. CASE CanEnd(z.course) /\ TimerEnd
      <3>1. timerRunning /\ currentTime <= MaxTime
        BY <2>1 DEF CanEnd
      <3>2. timerRunning' = FALSE /\ currentCourse' = currentCourse
        BY <2>1 DEF TimerEnd
      <3> QED
        BY <1>6, <2>1, <3>1, <3>2, TimerEndType DEF TypeOK, EndZoneStartTouch, Enter, auxVars
    <2>2. CASE UNCHANGED <<timerRunning, currentTime, currentCourse, countVars, recVars>>
      BY <1>6, <2>2 DEF TypeOK, EndZoneStartTouch, Enter, countVars, recVars, auxVars
    <2> QED
      BY <1>6, <2>1, <2>2 DEF EndZoneStartTouch
  <1>7. ASSUME NEW z \in MapZones, OtherZoneEndTouch(z) PROVE TypeInv'
    BY <1>7 DEF TypeOK, OtherZoneEndTouch, countVars, recVars, auxVars
  <1>8. CASE OnPhysicsSimulatePost
    <2>1. currentTime' \in -1..(MaxTime + Tick) /\ currentTime' <= MaxTime
      BY <1>8, TimerAssumption DEF TypeOK, OnPhysicsSimulatePost, Tick
    <2> QED
      BY <1>8, <2>1 DEF TypeOK, OnPhysicsSimulatePost, zoneVars, countVars, recVars, auxVars
  <1>9. CASE OnStartTouchGround
    BY <1>9 DEF TypeOK, OnStartTouchGround, countVars, recVars, auxVars
  <1>10. CASE StopTheTimer
    BY <1>10 DEF TypeOK, StopTheTimer, StopRunning, zoneVars, auxVars
  <1>11. CASE BonusCommand
    BY <1>11 DEF TypeOK, BonusCommand, zoneVars, recVars, auxVars
  <1>19. CASE StageTeleport
    <2>1. currentStage' \in Nat
      BY <1>19, ZonesAssumption DEF StageTeleport
    <2>2. CASE timerRunning' = FALSE /\ activeRecs' = 0
      BY <1>19, <2>1, <2>2 DEF TypeOK, StageTeleport, zoneVars, auxVars
    <2>3. CASE UNCHANGED <<timerRunning, activeRecs>>
      BY <1>19, <2>1, <2>3 DEF TypeOK, StageTeleport, zoneVars, auxVars
    <2> QED
      BY <1>19, <2>2, <2>3 DEF StageTeleport
  <1>12. CASE Pause
    BY <1>12 DEF TypeOK, Pause, zoneVars, countVars, recVars, auxVars
  <1>13. CASE Resume
    BY <1>13 DEF TypeOK, Resume, zoneVars, countVars, recVars, auxVars
  <1>14. CASE OnPlayerDeath
    BY <1>14, StopOrKeep DEF TypeOK, OnPlayerDeath, auxVars
  <1>15. CASE JoinSpectators
    <2>1. TimerStop \/ UNCHANGED <<timerRunning, activeRecs, currentStage>>
      BY <1>15 DEF JoinSpectators
    <2> QED
      BY <1>15, <2>1, StopOrKeep DEF TypeOK, JoinSpectators, auxVars
  <1>16. CASE Respawn
    <2>1. TimerStop \/ UNCHANGED <<timerRunning, activeRecs, currentStage>>
      BY <1>16 DEF Respawn
    <2> QED
      BY <1>16, <2>1, StopOrKeep DEF TypeOK, Respawn, auxVars
  <1>17. CASE OnClientDisconnect
    <2>1. currentTime' \in -1..(MaxTime + Tick)
      BY <1>17, TimerAssumption DEF OnClientDisconnect, Tick
    <2> QED
      BY <1>17, <2>1 DEF TypeOK, OnClientDisconnect, auxVars
  <1>18. CASE UNCHANGED vars
    BY <1>18 DEF TypeOK, vars, zoneVars, countVars, recVars, auxVars
  <1> QED
    BY <1>1, <1>2, <1>3, <1>4, <1>5, <1>6, <1>7, <1>8, <1>9, <1>10, <1>11, <1>12, <1>13,
       <1>14, <1>15, <1>16, <1>17, <1>18, <1>19 DEF Next, PlayerNext

LEMMA InitType ==
  ASSUME Init
  PROVE  TypeInv
  <1>1. cpTimes \in [Cps -> Int]
    BY DEF Init, Invalid
  <1>2. currentTime \in -1..(MaxTime + Tick)
    BY TimerAssumption DEF Init, Tick
  <1>3. submissions \in Seq(Submission)
    BY DEF Init
  <1> QED
    BY <1>1, <1>2, <1>3, TimerAssumption DEF Init, TypeInv, TypeOK

\* Type correctness of the timer: in particular the counters stay natural
\* numbers and the clock within its bounds, on every map.
THEOREM TypeCorrect == Spec => []TypeOK
  <1>1. Init => TypeInv
    BY InitType
  <1>2. TypeInv /\ [Next]_vars => TypeInv'
    BY TypeStep
  <1>3. TypeInv => TypeOK
    BY DEF TypeInv
  <1> QED
    BY <1>1, <1>2, <1>3, PTL DEF Spec

------------------------------------------------------------------------------
(* Recorders and submissions.  Whatever happens, it is one of four things to *)
(* the recorders: the timer starts, ends a run, stops, or is left alone.     *)

RecStarts ==
  /\ ~timerRunning /\ timerRunning' = TRUE
  /\ activeRecs' = activeRecs + 1
  /\ UNCHANGED <<savedRecs, submissions>>

RecStops ==
  /\ timerRunning' = FALSE
  /\ activeRecs' = 0
  /\ UNCHANGED <<savedRecs, submissions>>

RecKeeps == UNCHANGED <<timerRunning, activeRecs, savedRecs, submissions>>

LEMMA FourOutcomes ==
  ASSUME [Next]_vars
  PROVE  RecStarts \/ (timerRunning /\ TimerEnd) \/ RecStops \/ RecKeeps
  <1> USE DEF RecKeeps
  <1>1. ASSUME NEW z \in MapZones, StartZoneEndTouch(z) PROVE RecStarts \/ RecKeeps
    BY <1>1 DEF StartZoneEndTouch, TimerStart, RecStarts, recVars
  <1>2. ASSUME NEW z \in MapZones, EndZoneStartTouch(z) PROVE (timerRunning /\ TimerEnd) \/ RecKeeps
    BY <1>2 DEF EndZoneStartTouch, CanEnd, recVars
  <1>3. ASSUME NEW z \in MapZones,
               \/ StartZoneStartTouch(z) \/ StartZoneTouch(z) \/ CheckpointZoneStartTouch(z)
               \/ StageZoneStartTouch(z) \/ OtherZoneEndTouch(z)
        PROVE  RecKeeps
    BY <1>3 DEF StartZoneStartTouch, StartZoneTouch, CheckpointZoneStartTouch, StageZoneStartTouch,
                OtherZoneEndTouch, recVars
  <1>4. CASE OnPhysicsSimulatePost \/ OnStartTouchGround \/ BonusCommand \/ Pause \/ Resume
    BY <1>4 DEF OnPhysicsSimulatePost, OnStartTouchGround, BonusCommand, Pause, Resume, recVars
  <1>5. CASE StopTheTimer
    BY <1>5 DEF StopTheTimer, StopRunning, RecStops
  <1>10. CASE StageTeleport
    BY <1>10 DEF StageTeleport, RecStops
  <1>6. TimerStop /\ UNCHANGED <<savedRecs, submissions>> => RecStops \/ RecKeeps
    BY DEF TimerStop, StopRunning, RecStops
  <1>7. CASE OnPlayerDeath \/ JoinSpectators \/ Respawn
    BY <1>6, <1>7 DEF OnPlayerDeath, JoinSpectators, Respawn
  <1>8. CASE OnClientDisconnect
    BY <1>8 DEF OnClientDisconnect, RecStops
  <1>9. CASE UNCHANGED vars
    BY <1>9 DEF vars, recVars
  <1> QED
    BY <1>1, <1>2, <1>3, <1>4, <1>5, <1>7, <1>8, <1>9, <1>10 DEF Next, PlayerNext

RecInv == TypeInv /\ RecorderFollowsTimer /\ SubmissionsHaveReplays

LEMMA RecStep ==
  ASSUME RecInv, [Next]_vars
  PROVE  RecInv'
  <1>1. TypeInv'
    BY TypeStep DEF RecInv
  <1>2. activeRecs \in Nat /\ savedRecs \in Nat /\ submissions \in Seq(Submission)
    BY DEF RecInv, TypeInv, TypeOK
  <1>3. CASE RecStarts
    BY <1>1, <1>3 DEF RecInv, RecStarts, RecorderFollowsTimer, SubmissionsHaveReplays
  <1>4. CASE timerRunning /\ TimerEnd
    <2>1. timerRunning' = FALSE /\ activeRecs' = 0 /\ savedRecs' = savedRecs + 1
      BY <1>4 DEF RecInv, RecorderFollowsTimer, TimerEnd
    <2>2. NewRunUUID = savedRecs + 1
      BY <1>4 DEF RecInv, RecorderFollowsTimer, NewRunUUID
    <2> DEFINE s == [uuid |-> savedRecs + 1, course |-> currentCourse, on |-> startedOn, passed |-> passed]
    <2>3. submissions' = Append(submissions, s)
      BY <1>4, <2>2 DEF TimerEnd
    <2>4. /\ DOMAIN submissions' = 1..(Len(submissions) + 1)
          /\ \A i \in DOMAIN submissions : submissions'[i] = submissions[i]
          /\ submissions'[Len(submissions) + 1].uuid = savedRecs + 1
      BY <1>2, <2>3
    <2>5. \A i \in DOMAIN submissions : submissions[i].uuid \in 1..savedRecs
      BY DEF RecInv, SubmissionsHaveReplays
    <2>6. DOMAIN submissions = 1..Len(submissions) /\ Len(submissions) \in Nat
      BY <1>2
    <2>7. \A i \in DOMAIN submissions' : i \in DOMAIN submissions \/ i = Len(submissions) + 1
      BY <2>4, <2>6
    <2>8. \A i \in DOMAIN submissions' : submissions'[i].uuid \in 1..savedRecs'
      BY <1>2, <2>1, <2>4, <2>5, <2>7
    <2>9. \A i \in DOMAIN submissions : submissions'[i].uuid # submissions'[Len(submissions) + 1].uuid
      BY <1>2, <2>4, <2>5
    <2>10. \A i, j \in DOMAIN submissions' : submissions'[i].uuid = submissions'[j].uuid => i = j
      BY <2>4, <2>7, <2>9 DEF RecInv, SubmissionsHaveReplays
    <2> QED
      BY <1>1, <2>1, <2>8, <2>10 DEF RecInv, RecorderFollowsTimer, SubmissionsHaveReplays
  <1>5. CASE RecStops
    BY <1>1, <1>5 DEF RecInv, RecStops, RecorderFollowsTimer, SubmissionsHaveReplays
  <1>6. CASE RecKeeps
    BY <1>1, <1>6 DEF RecInv, RecKeeps, RecorderFollowsTimer, SubmissionsHaveReplays
  <1> QED
    BY <1>3, <1>4, <1>5, <1>6, FourOutcomes

LEMMA RecInvariant == Spec => []RecInv
  <1>1. Init => RecInv
    <2>1. Init => TypeInv
      BY InitType
    <2> QED
      BY <2>1 DEF Init, RecInv, RecorderFollowsTimer, SubmissionsHaveReplays
  <1>2. RecInv /\ [Next]_vars => RecInv'
    BY RecStep
  <1> QED
    BY <1>1, <1>2, PTL DEF Spec

\* One recorder while the timer runs, none otherwise, on every map.
THEOREM OneRecorder == Spec => []RecorderFollowsTimer
  <1>1. RecInv => RecorderFollowsTimer
    BY DEF RecInv
  <1> QED
    BY <1>1, RecInvariant, PTL

\* Every submission has its own recorder, on every map.
THEOREM ReplayPerSubmission == Spec => []SubmissionsHaveReplays
  <1>1. RecInv => SubmissionsHaveReplays
    BY DEF RecInv
  <1> QED
    BY <1>1, RecInvariant, PTL

------------------------------------------------------------------------------
(* The saved locations.  Before the player has been on a course nothing has *)
(* a positive time: neither the clock nor what SetTime could set it to.     *)

CourseInv ==
  \/ currentCourse # NoCourse
  \/ /\ ~timerRunning /\ ~(currentTime > 0)
     /\ \A cp \in checkpoints : ~(cp.time > 0)
     /\ undo # NoUndo => ~(undo.time > 0)

\* The timer alone starts, and its clock runs, on a course only.
LEMMA RunsOnCourse ==
  ASSUME PlayerNext
  PROVE  \/ currentCourse' \in Courses
         \/ /\ currentCourse' = currentCourse
            /\ timerRunning' => timerRunning
            /\ timerRunning \/ currentTime' = currentTime
  <1> DEFINE Goal == \/ currentCourse' \in Courses
                     \/ /\ currentCourse' = currentCourse
                        /\ timerRunning' => timerRunning
                        /\ timerRunning \/ currentTime' = currentTime
  <1>1. ASSUME NEW z \in MapZones,
               StartZoneStartTouch(z) \/ StartZoneTouch(z) \/ StartZoneEndTouch(z)
        PROVE  Goal
    BY <1>1, ZoneFields DEF StartZoneStartTouch, StartZoneTouch, StartZoneEndTouch, TimerStart
  <1>2. ASSUME NEW z \in MapZones,
               \/ CheckpointZoneStartTouch(z) \/ StageZoneStartTouch(z)
               \/ EndZoneStartTouch(z) \/ OtherZoneEndTouch(z)
        PROVE  Goal
    BY <1>2 DEF CheckpointZoneStartTouch, StageZoneStartTouch, EndZoneStartTouch, CanEnd, TimerEnd,
                OtherZoneEndTouch
  <1>3. CASE \/ OnPhysicsSimulatePost \/ OnStartTouchGround \/ StopTheTimer
             \/ BonusCommand \/ StageTeleport \/ Pause \/ Resume
    BY <1>3 DEF OnPhysicsSimulatePost, OnStartTouchGround, StopTheTimer, StopRunning, BonusCommand,
                StageTeleport, Pause, Resume
  <1>4. CASE OnPlayerDeath \/ JoinSpectators \/ Respawn
    BY <1>4 DEF OnPlayerDeath, JoinSpectators, Respawn, TimerStop, StopRunning
  <1> QED
    BY <1>1, <1>2, <1>3, <1>4 DEF PlayerNext

\* A teleport to a saved place starts the timer only if its time is positive.
LEMMA TeleportOnCourse ==
  ASSUME CourseInv, NEW cp, cp.time > 0 => currentCourse # NoCourse,
         NEW respawn \in BOOLEAN, DoTeleport(cp, respawn)
  PROVE  CourseInv'
  <1>1. currentCourse' = currentCourse /\ checkpoints' = checkpoints
    BY DEF DoTeleport
  <1>2. CASE currentCourse # NoCourse
    BY <1>1, <1>2 DEF CourseInv
  <1>3. CASE currentCourse = NoCourse
    <2>1. ~timerRunning' /\ ~(currentTime' > 0)
      BY <1>3 DEF CourseInv, DoTeleport, SetTime
    <2>2. ~(undo'.time > 0)
      BY <1>3 DEF CourseInv, DoTeleport
    <2> QED
      BY <1>1, <1>3, <2>1, <2>2 DEF CourseInv
  <1> QED
    BY <1>2, <1>3

LEMMA CourseStep ==
  ASSUME CourseInv, [SNext]_allVars
  PROVE  CourseInv'
  <1>1. CASE TimerStep
    <2>1. CASE currentCourse' \in Courses
      BY <2>1, TimerAssumption DEF CourseInv
    <2>2. CASE /\ currentCourse' = currentCourse
               /\ timerRunning' => timerRunning
               /\ timerRunning \/ currentTime' = currentTime
      BY <1>1, <2>2 DEF CourseInv, TimerStep, saveVars
    <2> QED
      BY <1>1, <2>1, <2>2, RunsOnCourse DEF TimerStep
  <1>2. CASE Move \/ SetStartPosition \/ UNCHANGED allVars
    BY <1>2 DEF CourseInv, Move, SetStartPosition, allVars, vars, saveVars
  <1>3. CASE SetCheckpoint
    BY <1>3 DEF CourseInv, SetCheckpoint, vars
  <1>4. CASE TpToCheckpoint
    <2>1. PICK cp \in checkpoints : DoTeleport(cp, FALSE)
      BY <1>4 DEF TpToCheckpoint
    <2> QED
      BY <2>1, TeleportOnCourse DEF CourseInv
  <1>5. CASE UndoTeleport
    BY <1>5, TeleportOnCourse DEF CourseInv, UndoTeleport
  <1>6. CASE RestartCommand
    <2>1. /\ ~timerRunning' /\ undo'.time = 0
          /\ UNCHANGED <<currentTime, currentCourse, checkpoints>>
      BY <1>6 DEF RestartCommand
    <2> QED
      BY <2>1 DEF CourseInv
  <1>7. CASE StopTrigger
    BY <1>7 DEF CourseInv, StopTrigger, TimerStop, StopRunning, ResetCheckpoints
  <1>8. CASE Disconnect
    BY <1>8 DEF CourseInv, Disconnect, OnClientDisconnect, ResetCheckpoints
  <1> QED
    BY <1>1, <1>2, <1>3, <1>4, <1>5, <1>6, <1>7, <1>8 DEF SNext

\* Whatever was saved and wherever the player teleports, the timer runs on a
\* course: the run submission and the recording service can rely on it.
THEOREM CourseIsKnown == SSpec => []CourseKnown
  <1>1. SInit => CourseInv
    BY DEF SInit, Init, CourseInv
  <1>2. CourseInv /\ [SNext]_allVars => CourseInv'
    BY CourseStep
  <1>3. CourseInv => CourseKnown
    BY DEF CourseInv, CourseKnown
  <1> QED
    BY <1>1, <1>2, <1>3, PTL DEF SSpec


------------------------------------------------------------------------------
(* Undisturbed runs. *)

\* No start zone of another course is touched in a run, and no checkpoint is
\* counted before the end of the tick the run started inside, when the time is
\* still negative: to cpZoneTimes it would not have been reached.
SameCourse  == timerRunning /\ timerRunning' => currentCourse' = currentCourse
NotTooEarly == timerRunning /\ currentTime < 0 => reached' = reached
Undisturbed == SameCourse /\ NotTooEarly

\* The checkpoints of c that cpZoneTimes has a time for.
Timed(c) == {n \in 1..CpCount[c] : cpTimes[n] >= 0}

(* What the counters stand for while the timer runs.  Stages are taken one  *)
(* by one from 1, or from 0 after !bonus, so every number up to the current *)
(* stage is that of a stage zone the run went through.                      *)
CountersTell ==
  timerRunning =>
    /\ currentCourse = startedOn /\ startedOn \in Courses
    /\ reached = Cardinality(Timed(startedOn))
    /\ \A n \in Timed(startedOn) : Zone("cp", startedOn, n) \in passed
    /\ 2..currentStage \subseteq StageNums[startedOn]
    /\ \A n \in 2..currentStage : Zone("stage", startedOn, n) \in passed

RunInv == TypeInv /\ CountersTell /\ RunComplete

LEMMA TimedFinite ==
  ASSUME TypeOK, NEW c \in Courses
  PROVE  /\ CpCount[c] \in Nat
         /\ IsFiniteSet(1..CpCount[c]) /\ Cardinality(1..CpCount[c]) = CpCount[c]
         /\ IsFiniteSet(Timed(c)) /\ Cardinality(Timed(c)) \in Nat
         /\ Cardinality(Timed(c)) = CpCount[c] => Timed(c) = 1..CpCount[c]
  <1>1. CpCount[c] \in Nat
    BY ZonesAssumption
  <1>2. IsFiniteSet(1..CpCount[c]) /\ Cardinality(1..CpCount[c]) = CpCount[c]
    BY <1>1, FS_Interval, SMTT(30)
  <1>3. Timed(c) \subseteq 1..CpCount[c]
    BY DEF Timed
  <1> QED
    BY <1>1, <1>2, <1>3, FS_Subset, FS_CardinalityType

\* A run that TimerEnd accepts went through every zone asked of it.
LEMMA CountersComplete ==
  ASSUME TypeOK, CountersTell, NEW c, CanEnd(c)
  PROVE  currentCourse = startedOn /\ startedOn \in Courses /\ Required(startedOn) \subseteq passed
  <1>1. timerRunning /\ c = currentCourse /\ currentCourse = startedOn /\ startedOn \in Courses
    BY DEF CanEnd, CountersTell
  <1>2. CpZones(startedOn) \subseteq passed
    <2>1. Timed(startedOn) = 1..CpCount[startedOn]
      BY <1>1, TimedFinite DEF CanEnd, MissedCheckpoint, CountersTell
    <2> QED
      BY <1>1, <2>1 DEF CpZones, CountersTell
  <1>3. \A z \in StageZones(startedOn) : z.num > 1 => z \in passed
    <2>1. IsFiniteSet(StageNums[startedOn]) /\ StageNums[startedOn] \subseteq Nat \ {0}
      BY <1>1, ZonesAssumption
    <2>2. CASE StageCount(startedOn) > 0
      <3>1. StageCount(startedOn) \in Nat /\ currentStage \in Nat /\ currentStage - 1 = StageCount(startedOn)
        BY <1>1, <2>1, <2>2, FS_CardinalityType DEF CanEnd, MissedStage, StageCount, TypeOK
      <3>2. IsFiniteSet(2..currentStage) /\ Cardinality(2..currentStage) = StageCount(startedOn)
        BY <3>1, FS_Interval
      <3>3. 2..currentStage = StageNums[startedOn]
        BY <1>1, <2>1, <3>2, FS_Subset DEF CountersTell, StageCount
      <3> QED
        BY <1>1, <3>3 DEF CountersTell, StageZones, Zone
    <2>3. CASE ~(StageCount(startedOn) > 0)
      <3>1. Cardinality(StageNums[startedOn]) = 0
        BY <2>1, <2>3, FS_CardinalityType DEF StageCount
      <3>2. StageNums[startedOn] = {}
        BY <2>1, <3>1, FS_EmptySet
      <3> QED
        BY <3>2 DEF StageZones
    <2> QED
      BY <2>2, <2>3
  <1> QED
    BY <1>1, <1>2, <1>3 DEF Required

\* What credits a zone, for a run whose start is known.
LEMMA CreditPasses ==
  ASSUME NEW z \in MapZones, Credit(z)
  PROVE  /\ passed \subseteq passed'
         /\ timerRunning /\ startedOn \in Courses /\ z \in Required(startedOn) /\ InOrder(z, passed)
            => z \in passed'
  BY TimerAssumption DEF Credit

LEMMA StartTells ==
  ASSUME TypeOK, NEW c \in Courses, TimerStart(c)
  PROVE  CountersTell'
  <1>1. CpCount[c] \in Nat /\ CpCount[c] <= MaxCp /\ MaxCp \in Nat
    BY ZonesAssumption, TimerAssumption
  <1>2. \A n \in 1..CpCount[c] : cpTimes'[n] = Invalid
    BY <1>1 DEF TimerStart, Cps
  <1>3. Timed(c)' = {}
    BY <1>2 DEF Timed, Invalid
  <1>4. Cardinality(Timed(c)') = 0
    BY <1>3, FS_EmptySet
  <1>5. 2..(currentStage') = {}
    BY DEF TimerStart
  <1> QED
    BY <1>3, <1>4, <1>5 DEF TimerStart, CountersTell

LEMMA CheckpointTells ==
  ASSUME NotTooEarly, TypeOK, CountersTell, NEW z \in MapZones, CheckpointZoneStartTouch(z)
  PROVE  CountersTell'
  <1> SUFFICES ASSUME timerRunning'
               PROVE  CountersTell'
    BY DEF CountersTell
  <1>1. /\ timerRunning /\ startedOn \in Courses /\ currentCourse = startedOn
        /\ UNCHANGED <<timerRunning, currentCourse, startedOn, currentTime, currentStage>>
    BY DEF CheckpointZoneStartTouch, CountersTell
  <1>2. passed \subseteq passed'
    BY CreditPasses DEF CheckpointZoneStartTouch
  <1>3. CASE z.course = currentCourse /\ cpTimes[z.num] < 0
    <2>1. z.num \in 1..CpCount[startedOn] /\ z.num \in Cps /\ z = Zone("cp", startedOn, z.num)
      BY <1>1, <1>3, ZoneFields DEF CheckpointZoneStartTouch
    <2>2. cpTimes' = [cpTimes EXCEPT ![z.num] = currentTime] /\ reached' = reached + 1
      BY <1>1, <1>3 DEF CheckpointZoneStartTouch
    <2>3. cpTimes'[z.num] >= 0 /\ \A n \in Cps : n # z.num => cpTimes'[n] = cpTimes[n]
      <3>1. cpTimes'[z.num] = currentTime /\ currentTime \in Int
        BY <2>1, <2>2 DEF TypeOK
      <3>2. reached \in Nat /\ ~(currentTime < 0)
        BY <1>1, <2>2 DEF NotTooEarly, TypeOK
      <3> QED
        BY <2>1, <2>2, <3>1, <3>2 DEF TypeOK
    <2>4. 1..CpCount[startedOn] \subseteq Cps
      BY <1>1, ZonesAssumption, TimerAssumption DEF Cps
    <2>5. Timed(startedOn)' = Timed(startedOn) \cup {z.num}
      BY <1>1, <2>1, <2>3, <2>4 DEF Timed
    <2>6. z.num \notin Timed(startedOn)
      BY <1>3, <2>1, <2>4 DEF Timed, TypeOK
    <2>7. Cardinality(Timed(startedOn)') = Cardinality(Timed(startedOn)) + 1
      BY <1>1, <2>5, <2>6, TimedFinite, FS_AddElement
    <2>8. z \in passed'
      <3>1. z \in Required(startedOn) /\ InOrder(z, passed)
        BY <2>1 DEF Required, CpZones, InOrder, CheckpointZoneStartTouch
      <3> QED
        BY <1>1, <3>1, CreditPasses DEF CheckpointZoneStartTouch
    <2> QED
      BY <1>1, <1>2, <2>1, <2>2, <2>5, <2>7, <2>8 DEF CountersTell
  <1>4. CASE ~(z.course = currentCourse /\ cpTimes[z.num] < 0)
    <2>1. UNCHANGED <<cpTimes, reached>>
      BY <1>1, <1>4 DEF CheckpointZoneStartTouch
    <2>2. Timed(startedOn)' = Timed(startedOn)
      BY <1>1, <2>1 DEF Timed
    <2> QED
      BY <1>1, <1>2, <2>1, <2>2 DEF CountersTell
  <1> QED
    BY <1>3, <1>4

LEMMA StageTells ==
  ASSUME TypeOK, CountersTell, NEW z \in MapZones, StageZoneStartTouch(z)
  PROVE  CountersTell'
  <1> SUFFICES ASSUME timerRunning'
               PROVE  CountersTell'
    BY DEF CountersTell
  <1>1. /\ timerRunning /\ startedOn \in Courses /\ currentCourse = startedOn
        /\ UNCHANGED <<timerRunning, currentCourse, startedOn, currentTime, cpTimes, reached>>
    BY DEF StageZoneStartTouch, CountersTell
  <1>2. passed \subseteq passed'
    BY CreditPasses DEF StageZoneStartTouch
  <1>3. Timed(startedOn)' = Timed(startedOn)
    BY <1>1 DEF Timed
  <1>4. currentStage \in Nat
    BY DEF TypeOK
  <1>5. CASE z.course = currentCourse /\ z.num = currentStage + 1
    <2>1. currentStage' = currentStage + 1
      BY <1>1, <1>5 DEF StageZoneStartTouch
    <2>2. z.num \in StageNums[startedOn] /\ z = Zone("stage", startedOn, z.num)
      BY <1>1, <1>5, ZoneFields DEF StageZoneStartTouch
    <2>3. z.num > 1 => z \in passed'
      <3> SUFFICES ASSUME z.num > 1 PROVE z \in passed'
        OBVIOUS
      <3>1. z \in Required(startedOn)
        BY <2>2 DEF Required, StageZones
      <3>2. ASSUME NEW y \in Required(startedOn), y.kind = "stage", y.num < z.num PROVE y \in passed
        <4>1. y.num \in StageNums[startedOn] /\ y = Zone("stage", startedOn, y.num) /\ y.num > 1
          BY <3>2 DEF Required, CpZones, StageZones, Zone
        <4>2. y.num \in 2..currentStage
          BY <1>1, <1>4, <1>5, <3>2, <4>1, ZonesAssumption
        <4> QED
          BY <1>1, <4>1, <4>2 DEF CountersTell
      <3>3. InOrder(z, passed)
        BY <1>1, <1>5, <3>2 DEF InOrder
      <3> QED
        BY <1>1, <3>1, <3>3, CreditPasses DEF StageZoneStartTouch
    <2>4. \A n \in 2..currentStage' : n \in 2..currentStage \/ (n = z.num /\ n > 1)
      BY <1>4, <1>5, <2>1
    <2> QED
      BY <1>1, <1>2, <1>3, <2>2, <2>3, <2>4 DEF CountersTell
  <1>6. CASE ~(z.course = currentCourse /\ z.num = currentStage + 1)
    <2>1. currentStage' = currentStage
      BY <1>1, <1>6 DEF StageZoneStartTouch
    <2> QED
      BY <1>1, <1>2, <1>3, <2>1 DEF CountersTell
  <1> QED
    BY <1>5, <1>6

\* Every other step keeps what the counters count and what the run passed, or
\* leaves the timer stopped.
RunKept ==
  /\ UNCHANGED <<startedOn, passed, reached, cpTimes>>
  /\ timerRunning' => /\ timerRunning
                      /\ currentStage' = currentStage \/ currentStage' = 0

LEMMA KeptTells ==
  ASSUME SameCourse, TypeOK, TypeOK', CountersTell, RunKept
  PROVE  CountersTell'
  <1> SUFFICES ASSUME timerRunning'
               PROVE  CountersTell'
    BY DEF CountersTell
  <1>1. /\ timerRunning /\ startedOn \in Courses /\ currentCourse' = startedOn
        /\ startedOn' = startedOn /\ passed' = passed /\ reached' = reached
    BY DEF RunKept, CountersTell, SameCourse
  <1>2. Timed(startedOn)' = Timed(startedOn)
    BY <1>1 DEF RunKept, Timed
  <1>3. 2..currentStage' \subseteq 2..currentStage
    BY DEF RunKept, TypeOK
  <1> QED
    BY <1>1, <1>2, <1>3 DEF CountersTell

\* The steps that count something of the run, through zone z.
Counts(z) ==
  \/ StartZoneEndTouch(z) /\ ~timerRunning /\ TimerStart(z.course)
  \/ CheckpointZoneStartTouch(z)
  \/ StageZoneStartTouch(z)
  \/ EndZoneStartTouch(z) /\ CanEnd(z.course) /\ TimerEnd

LEMMA KeptSteps ==
  ASSUME TypeOK, [Next]_vars
  PROVE  (\E z \in MapZones : Counts(z)) \/ (RunKept /\ UNCHANGED submissions)
  <1>1. ASSUME NEW z \in MapZones, StartZoneStartTouch(z) \/ StartZoneTouch(z)
        PROVE  RunKept /\ UNCHANGED submissions
    BY <1>1, ZoneFields DEF RunKept, TypeOK, StartZoneStartTouch, StartZoneTouch, countVars, recVars, auxVars
  <1>2. ASSUME NEW z \in MapZones, StartZoneEndTouch(z)
        PROVE  (~timerRunning /\ TimerStart(z.course)) \/ (RunKept /\ UNCHANGED submissions)
    BY <1>2 DEF RunKept, TypeOK, StartZoneEndTouch, countVars, recVars, auxVars
  <1>3. ASSUME NEW z \in MapZones, EndZoneStartTouch(z)
        PROVE  (CanEnd(z.course) /\ TimerEnd) \/ (RunKept /\ UNCHANGED submissions)
    BY <1>3 DEF RunKept, TypeOK, EndZoneStartTouch, countVars, recVars, auxVars
  <1>4. ASSUME NEW z \in MapZones, OtherZoneEndTouch(z) PROVE RunKept /\ UNCHANGED submissions
    BY <1>4 DEF RunKept, TypeOK, OtherZoneEndTouch, countVars, recVars, auxVars
  <1>5. CASE OnPhysicsSimulatePost
    BY <1>5 DEF RunKept, TypeOK, OnPhysicsSimulatePost, Tick, countVars, recVars, auxVars
  <1>6. CASE OnStartTouchGround \/ Pause \/ Resume
    BY <1>6 DEF RunKept, TypeOK, OnStartTouchGround, Pause, Resume, countVars, recVars, auxVars
  <1>7. CASE BonusCommand
    BY <1>7 DEF RunKept, TypeOK, BonusCommand, recVars, auxVars
  <1>14. CASE StageTeleport
    BY <1>14 DEF RunKept, StageTeleport, zoneVars, auxVars
  <1>8. CASE StopTheTimer \/ OnClientDisconnect
    BY <1>8 DEF RunKept, TypeOK, StopTheTimer, StopRunning, OnClientDisconnect, auxVars
  <1>9. TimerStop => \/ timerRunning' = FALSE
                     \/ UNCHANGED <<timerRunning, currentStage>>
    BY DEF TimerStop, StopRunning
  <1>10. CASE OnPlayerDeath \/ JoinSpectators \/ Respawn
    BY <1>9, <1>10 DEF RunKept, TypeOK, OnPlayerDeath, JoinSpectators, Respawn, auxVars
  <1>11. CASE UNCHANGED vars
    BY <1>11 DEF RunKept, TypeOK, vars, countVars, recVars, auxVars
  <1>12. ASSUME NEW z \in MapZones,
                \/ StartZoneStartTouch(z) \/ StartZoneTouch(z) \/ StartZoneEndTouch(z)
                \/ CheckpointZoneStartTouch(z) \/ StageZoneStartTouch(z) \/ EndZoneStartTouch(z)
                \/ OtherZoneEndTouch(z)
         PROVE  Counts(z) \/ (RunKept /\ UNCHANGED submissions)
    BY <1>1, <1>2, <1>3, <1>4, <1>12 DEF Counts
  <1>13. CASE \E z \in MapZones :
                \/ StartZoneStartTouch(z) \/ StartZoneTouch(z) \/ StartZoneEndTouch(z)
                \/ CheckpointZoneStartTouch(z) \/ StageZoneStartTouch(z) \/ EndZoneStartTouch(z)
                \/ OtherZoneEndTouch(z)
    BY <1>12, <1>13
  <1> QED
    BY <1>5, <1>6, <1>7, <1>8, <1>10, <1>11, <1>13, <1>14 DEF Next, PlayerNext

LEMMA RunStep ==
  ASSUME RunInv, [Next]_vars, [Undisturbed]_vars
  PROVE  RunInv'
  <1> USE DEF RunInv
  <1>0. SameCourse /\ NotTooEarly
    BY DEF Undisturbed, SameCourse, NotTooEarly, vars, countVars
  <1>1. TypeInv' /\ TypeOK /\ TypeOK' /\ CountersTell /\ RunComplete
    BY TypeStep DEF TypeInv
  <1>2. ASSUME NEW z \in MapZones, TimerStart(z.course) PROVE RunInv'
    BY <1>1, <1>2, ZoneFields, StartTells DEF TimerStart, RunComplete
  <1>3. ASSUME NEW z \in MapZones, CheckpointZoneStartTouch(z) PROVE RunInv'
    BY <1>0, <1>1, <1>3, CheckpointTells DEF CheckpointZoneStartTouch, recVars, RunComplete
  <1>4. ASSUME NEW z \in MapZones, StageZoneStartTouch(z) PROVE RunInv'
    BY <1>1, <1>4, StageTells DEF StageZoneStartTouch, recVars, RunComplete
  <1>5. ASSUME NEW z \in MapZones, EndZoneStartTouch(z), CanEnd(z.course), TimerEnd PROVE RunInv'
    <2>1. currentCourse = startedOn /\ Required(startedOn) \subseteq passed
      BY <1>1, <1>5, CountersComplete
    <2> DEFINE s == [uuid |-> NewRunUUID, course |-> currentCourse, on |-> startedOn, passed |-> passed]
    <2>2. submissions' = Append(submissions, s) /\ ~timerRunning'
      BY <1>5 DEF TimerEnd
    <2>3. submissions \in Seq(Submission)
      BY <1>1 DEF TypeOK
    <2>4. \A i \in DOMAIN submissions' :
             (i \in DOMAIN submissions /\ submissions'[i] = submissions[i]) \/ submissions'[i] = s
      BY <2>2, <2>3
    <2>5. RunComplete'
      BY <1>1, <2>1, <2>4 DEF RunComplete
    <2> QED
      BY <1>1, <2>2, <2>5 DEF CountersTell
  <1>6. CASE RunKept /\ UNCHANGED submissions
    BY <1>0, <1>1, <1>6, KeptTells DEF RunComplete
  <1> QED
    BY <1>1, <1>2, <1>3, <1>4, <1>5, <1>6, KeptSteps DEF Counts

LEMMA RunInit ==
  ASSUME Init
  PROVE  RunInv
  <1>1. ~timerRunning /\ submissions = <<>>
    BY DEF Init
  <1> QED
    BY <1>1, InitType DEF RunInv, CountersTell, RunComplete

\* On any map and with starts inside a tick, as long as no run is disturbed
\* (Undisturbed: bhop_timer.cpp:98, trigger/callbacks.cpp:344), every finished run
\* went through every checkpoint zone and, in order, every stage zone.
THEOREM RunsAreComplete == Spec /\ [][Undisturbed]_vars => []RunComplete
  <1>1. Init => RunInv
    BY RunInit
  <1>2. RunInv /\ [Next]_vars /\ [Undisturbed]_vars => RunInv'
    BY RunStep
  <1>3. RunInv => RunComplete
    BY DEF RunInv
  <1> QED
    BY <1>1, <1>2, <1>3, PTL DEF Spec

------------------------------------------------------------------------------
(* The refinement. *)

contractFinished == [i \in DOMAIN submissions |-> submissions[i].course]

LEMMA SameRequired ==
  /\ \A c : Contract!Required(c) = Required(c)
  /\ \A z, p : Contract!InOrder(z, p) <=> InOrder(z, p)
  /\ Contract!MapZones = MapZones
  BY DEF Contract!Required, Required, Contract!InOrder, InOrder, Contract!MapZones, MapZones,
         Contract!ZonesOf, ZonesOf, Contract!CpZones, CpZones, Contract!StageZones, StageZones,
         Contract!Zone, Zone

\* A finished run is one more course at the end of the finished ones.
LEMMA FinishedGrows ==
  ASSUME submissions \in Seq(Submission), TimerEnd
  PROVE  contractFinished' = Append(contractFinished, currentCourse)
  <1> DEFINE s == [uuid |-> NewRunUUID, course |-> currentCourse, on |-> startedOn, passed |-> passed]
             n == Len(submissions)
             T == Courses \cup {NoCourse}
  <1>1. submissions' = Append(submissions, s)
    BY DEF TimerEnd
  <1>2. n \in Nat /\ DOMAIN submissions = 1..n /\ DOMAIN submissions' = 1..(n + 1)
    BY <1>1
  <1>3. \A i \in 1..(n + 1) : submissions'[i] = IF i \in 1..n THEN submissions[i] ELSE s
    BY <1>1, <1>2
  <1>4. contractFinished' = [i \in 1..(n + 1) |-> IF i \in 1..n THEN submissions[i].course ELSE currentCourse]
    BY <1>2, <1>3 DEF contractFinished
  <1>5. contractFinished \in Seq(T) /\ Len(contractFinished) = n
    <2>1. \A i \in 1..n : submissions[i] \in Submission
      BY <1>2
    <2>2. \A i \in 1..n : submissions[i].course \in T
      BY <2>1 DEF Submission
    <2> QED
      BY <1>2, <2>2 DEF contractFinished
  <1>6. Append(contractFinished, currentCourse) =
          [i \in 1..(n + 1) |-> IF i \in 1..n THEN submissions[i].course ELSE currentCourse]
    BY <1>2, <1>5 DEF contractFinished
  <1> QED
    BY <1>4, <1>6

LEMMA ContractStep ==
  ASSUME RunInv, RunInv', [Next]_vars, [Undisturbed]_vars
  PROVE  [Contract!Next]_(Contract!contractVars)
  <1>0. SameCourse
    BY DEF Undisturbed, SameCourse, vars
  <1>1. TypeOK /\ CountersTell /\ RunComplete
    BY DEF RunInv, TypeInv
  <1>2. timerRunning \in BOOLEAN /\ submissions \in Seq(Submission) /\ NoCourse \notin Courses
    BY <1>1, TimerAssumption DEF TypeOK
  <1>3. UNCHANGED submissions => UNCHANGED contractFinished
    BY DEF contractFinished
  <1>4. ASSUME NEW z \in MapZones, ~timerRunning, TimerStart(z.course)
        PROVE  Contract!Start(z.course)
    BY <1>3, <1>4 DEF TimerStart, Contract!Start, contractFinished
  <1>5. ASSUME NEW z \in MapZones, Credit(z),
               UNCHANGED <<timerRunning, currentCourse, submissions, startedOn>>
        PROVE  Contract!Pass(z) \/ UNCHANGED Contract!contractVars
    <2>1. CASE timerRunning /\ startedOn # NoCourse /\ z \in Required(startedOn) /\ InOrder(z, passed)
      <3>1. currentCourse = startedOn
        BY <1>1, <2>1 DEF CountersTell
      <3> QED
        BY <1>3, <1>5, <2>1, <3>1, SameRequired DEF Credit, Contract!Pass, contractFinished
    <2>2. CASE ~(timerRunning /\ startedOn # NoCourse /\ z \in Required(startedOn) /\ InOrder(z, passed))
      <3>1. UNCHANGED passed
        BY <1>5, <2>2 DEF Credit
      <3> QED
        BY <1>3, <1>5, <3>1 DEF Contract!contractVars, contractFinished
    <2> QED
      BY <2>1, <2>2
  <1>6. ASSUME NEW z \in MapZones, EndZoneStartTouch(z), CanEnd(z.course), TimerEnd
        PROVE  Contract!Finish
    <2>1. currentCourse = startedOn /\ startedOn \in Courses /\ Required(startedOn) \subseteq passed
      BY <1>1, <1>6, CountersComplete
    <2>2. timerRunning /\ ~timerRunning' /\ UNCHANGED passed
      BY <1>6 DEF CanEnd, TimerEnd, EndZoneStartTouch, auxVars
    <2>3. contractFinished' = Append(contractFinished, currentCourse)
      BY <1>2, <1>6, FinishedGrows
    <2> QED
      BY <1>2, <2>1, <2>2, <2>3, SameRequired DEF Contract!Finish, contractFinished
  <1>7. ASSUME RunKept, UNCHANGED submissions
        PROVE  Contract!Abandon \/ UNCHANGED Contract!contractVars
    <2>1. CASE timerRunning'
      <3>1. timerRunning /\ currentCourse \in Courses /\ currentCourse' = currentCourse
        BY <1>0, <1>1, <1>7, <2>1 DEF RunKept, CountersTell, SameCourse
      <3> QED
        BY <1>3, <1>7, <2>1, <3>1 DEF RunKept, Contract!contractVars, contractFinished
    <2>2. CASE ~timerRunning'
      BY <1>3, <1>7, <2>2 DEF RunKept, Contract!Abandon, contractFinished
    <2> QED
      BY <2>1, <2>2
  <1>8. ASSUME NEW z \in MapZones, Counts(z) PROVE Contract!Next \/ UNCHANGED Contract!contractVars
    <2>1. z.course \in Courses /\ z \in Contract!MapZones
      BY ZoneFields, SameRequired
    <2>2. CASE ~timerRunning /\ TimerStart(z.course)
      BY <1>4, <2>1, <2>2 DEF Contract!Next
    <2>3. CASE CheckpointZoneStartTouch(z) \/ StageZoneStartTouch(z)
      BY <1>5, <2>1, <2>3 DEF Contract!Next, CheckpointZoneStartTouch, StageZoneStartTouch, recVars
    <2>4. CASE EndZoneStartTouch(z) /\ CanEnd(z.course) /\ TimerEnd
      BY <1>6, <2>4 DEF Contract!Next
    <2> QED
      BY <1>8, <2>2, <2>3, <2>4 DEF Counts
  <1> QED
    BY <1>1, <1>7, <1>8, KeptSteps DEF Contract!Next

\* On any map and with starts inside a tick, as long as no run is disturbed, the
\* timer implements the contract of a run.
THEOREM TimerKeepsContract == Spec /\ [][Undisturbed]_vars => KeepsContract
  <1>1. Init => RunInv
    BY RunInit
  <1>2. RunInv /\ [Next]_vars /\ [Undisturbed]_vars => RunInv'
    BY RunStep
  <1>3. Init => Contract!Init
    BY DEF Init, Contract!Init
  <1>4. RunInv /\ RunInv' /\ [Next]_vars /\ [Undisturbed]_vars => [Contract!Next]_(Contract!contractVars)
    BY ContractStep
  <1> QED
    BY <1>1, <1>2, <1>3, <1>4, PTL DEF Spec, KeepsContract, Contract!Spec
==============================================================================
