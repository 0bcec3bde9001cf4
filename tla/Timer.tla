-------------------------------- MODULE Timer --------------------------------
(***************************************************************************)
(* BhopTimerService of one player, with what listens to it: the trigger     *)
(* service that feeds it zone touches, the recording service that keeps a   *)
(* run recorder per run, and the run submissions it creates.                *)
(*                                                                          *)
(* Physics is the environment: whether the player is on the ground, has     *)
(* just teleported, noclipped or bunny-hopped, or is still in a pause       *)
(* cooldown is a nondeterministic input of the action whose guard reads it. *)
(* Time is counted in half ticks, so that a start inside a tick (an offset  *)
(* of -1) can be told from a start on a tick (an offset of 0).              *)
(***************************************************************************)
EXTENDS Zones, Sequences

CONSTANTS
  NoCourse,       \* course GUID 0
  MaxCp,          \* capacity of cpZoneTimes
  StartOffsets,   \* curtime - server curtime, in half ticks, at a start
  StageCommand,   \* whether players type !bonus and !stage
  MaxTime,        \* bound: half ticks a run lasts
  MaxRuns,        \* bound: finished runs
  MaxReached      \* bound: checkpoint counter

Tick == 2         \* ENGINE_FIXED_TICK_INTERVAL
Invalid == -2     \* invalidTime: any negative number is "not reached"
Cps == 1..MaxCp

ASSUME TimerAssumption ==
  /\ NoCourse \notin Courses
  /\ MaxCp \in Nat
  /\ \A c \in Courses : CpCount[c] <= MaxCp
  /\ StartOffsets \subseteq {-1, 0}
  /\ StageCommand \in BOOLEAN
  /\ MaxTime \in Nat /\ MaxRuns \in Nat /\ MaxReached \in Nat

VARIABLES
  alive,          \* the pawn is alive
  touching,       \* triggerTrackers: the zones being touched
  touchedGround,  \* touchedGroundSinceTouchingStartZone
  timerRunning,
  currentTime,
  currentCourse,  \* currentCourseGUID
  reached,        \* reachedCheckpoints
  cpTimes,        \* cpZoneTimes: the whole storage of the fixed vector
  currentStage,
  paused,
  activeRecs,     \* run recorders without a desiredStopTime
  savedRecs,      \* recorders ended by OnTimerEnd: their UUIDs are 1..savedRecs
  runUUID,        \* currentRunUUID, 0 when invalid
  submissions,    \* RunSubmission::Create calls, in order
  \* auxiliary: where the run physically started and what it went through
  startedOn, passed

zoneVars  == <<alive, touching, touchedGround>>
countVars == <<reached, cpTimes, currentStage>>
recVars   == <<activeRecs, savedRecs, runUUID, submissions>>
auxVars   == <<startedOn, passed>>
vars == <<zoneVars, timerRunning, currentTime, currentCourse, countVars, paused,
          recVars, auxVars>>

Submission == [uuid : Nat, course : Courses \cup {NoCourse}, on : Courses \cup {NoCourse},
               passed : SUBSET MapZones]

\* The type of every variable.
TypeOK ==
  /\ alive \in BOOLEAN
  /\ touching \subseteq MapZones
  /\ touchedGround \in BOOLEAN
  /\ timerRunning \in BOOLEAN
  /\ currentTime \in -1..(MaxTime + Tick)
  /\ currentCourse \in Courses \cup {NoCourse}
  /\ reached \in Nat
  /\ cpTimes \in [Cps -> Int]
  /\ currentStage \in Nat
  /\ paused \in BOOLEAN
  /\ activeRecs \in Nat
  /\ savedRecs \in Nat
  /\ runUUID \in Nat
  /\ submissions \in Seq(Submission)
  /\ startedOn \in Courses \cup {NoCourse}
  /\ passed \subseteq MapZones

Init ==
  /\ alive = FALSE
  /\ touching = {}
  /\ touchedGround = FALSE
  /\ timerRunning = FALSE
  /\ currentTime = 0
  /\ currentCourse = NoCourse
  /\ reached = 0
  /\ cpTimes \in [Cps -> {Invalid, 0}]   \* storage nobody has written yet
  /\ currentStage = 0
  /\ paused = FALSE
  /\ activeRecs = 0
  /\ savedRecs = 0
  /\ runUUID = 0
  /\ submissions = <<>>
  /\ startedOn = NoCourse
  /\ passed = {}

------------------------------------------------------------------------------
(* The timer's own operations, used by the actions below. *)

\* Mutant: the checkpoints of the previous run stay counted.
TimerStart_KeepsCount(c) ==
  /\ timerRunning' = TRUE
  /\ currentTime' \in StartOffsets
  /\ reached' = reached
  /\ cpTimes' = [n \in Cps |-> IF n <= CpCount[c] THEN Invalid ELSE cpTimes[n]]
  /\ currentStage' = IF StageCount(c) > 0 THEN 1 ELSE 0
  /\ currentCourse' = c
  /\ activeRecs' = activeRecs + 1
  /\ runUUID' = 0
  /\ startedOn' = c
  /\ passed' = {}
  /\ UNCHANGED <<savedRecs, submissions>>

\* SetCourse, then OnTimerStartPost: a recorder is pushed and the run UUID
\* becomes invalid.
TimerStart(c) ==
  /\ timerRunning' = TRUE
  /\ currentTime' \in StartOffsets
  /\ reached' = 0
  /\ cpTimes' = [n \in Cps |-> IF n <= CpCount[c] THEN Invalid ELSE cpTimes[n]]
  /\ currentStage' = IF StageCount(c) > 0 THEN 1 ELSE 0
  /\ currentCourse' = c
  /\ activeRecs' = activeRecs + 1
  /\ runUUID' = 0
  /\ startedOn' = c
  /\ passed' = {}
  /\ UNCHANGED <<savedRecs, submissions>>

\* Mutant: OnTimerStopped forgets the recorders.
StopRunning_KeepsRecorder ==
  /\ timerRunning' = FALSE
  /\ activeRecs' = activeRecs
  /\ currentStage' = 0

\* OnTimerStopped drops every recorder that is still recording a run.
StopRunning ==
  /\ timerRunning' = FALSE
  /\ activeRecs' = 0
  /\ currentStage' = 0

TimerStop ==
  IF timerRunning THEN StopRunning
  ELSE UNCHANGED <<timerRunning, activeRecs, currentStage>>

\* The conditions TimerEnd refuses a run for, with a missed zone message.
MissedStage_LastStage(c) == StageCount(c) > 0 /\ currentStage # StageCount(c)  \* mutant: off by one
MissedStage(c)      == StageCount(c) > 0 /\ currentStage - 1 # StageCount(c)
MissedCheckpoint(c) == reached # CpCount[c]
CanEnd(c) ==
  /\ timerRunning /\ c = currentCourse
  /\ ~MissedStage(c) /\ ~MissedCheckpoint(c)

\* Each recorder still recording gets a fresh UUID; the last one becomes the
\* run's, and the submission takes whatever the run UUID then is.
NewRunUUID_TooEarly == runUUID   \* mutant: the submission is created before OnTimerEndPost
NewRunUUID == IF activeRecs = 0 THEN runUUID ELSE savedRecs + activeRecs
TimerEnd ==
  /\ Len(submissions) < MaxRuns
  /\ currentTime' = currentTime + Tick
  /\ timerRunning' = FALSE
  /\ activeRecs' = 0
  /\ savedRecs' = savedRecs + activeRecs
  /\ runUUID' = NewRunUUID
  /\ submissions' = Append(submissions, [uuid |-> NewRunUUID, course |-> currentCourse,
                                         on |-> startedOn, passed |-> passed])
  /\ currentStage' = 0
  /\ UNCHANGED <<currentCourse, reached, cpTimes>>

\* Auxiliary: zone z is entered while a run is on.
Credit(z) ==
  passed' = IF timerRunning /\ startedOn # NoCourse /\ z \in Required(startedOn) /\ InOrder(z, passed)
            THEN passed \cup {z} ELSE passed

------------------------------------------------------------------------------
(* Zone touches, dispatched by OnMappingApiTrigger{StartTouch,Touch,EndTouch}Post. *)

Enter(z) ==
  /\ alive
  /\ z \in MapZones \ touching
  /\ touching' = touching \cup {z}

\* A start zone: remember the ground, then Touch follows and sets the course.
StartZoneStartTouch(z) ==
  /\ Enter(z) /\ z.kind = "start"
  /\ touchedGround' \in BOOLEAN
  /\ currentCourse' = z.course
  /\ UNCHANGED <<alive, timerRunning, currentTime, countVars, paused, recVars, auxVars>>

\* Touch fires again on every tick spent in the zone, running or not.
StartZoneTouch(z) ==
  /\ z \in touching /\ z.kind = "start"
  /\ currentCourse' = z.course
  /\ UNCHANGED <<zoneVars, timerRunning, currentTime, countVars, paused, recVars, auxVars>>

\* Leaving the start zone starts the run unless one is on, the player is
\* dead, or the physics of the start refuses it.
StartZoneEndTouch(z) ==
  /\ z \in touching /\ z.kind = "start"
  /\ touching' = touching \ {z}
  /\ \E engineAllows \in BOOLEAN :
       IF touchedGround /\ ~timerRunning /\ alive /\ engineAllows
       THEN TimerStart(z.course)
       ELSE UNCHANGED <<timerRunning, currentTime, currentCourse, countVars, recVars, auxVars>>
  /\ UNCHANGED <<alive, touchedGround, paused>>

\* Mutant: a checkpoint entered twice counts twice.
CheckpointZoneStartTouch_Again(z) ==
  /\ Enter(z) /\ z.kind = "cp"
  /\ IF timerRunning /\ z.course = currentCourse
     THEN /\ reached < MaxReached
          /\ cpTimes' = [cpTimes EXCEPT ![z.num] = currentTime]
          /\ reached' = reached + 1
     ELSE UNCHANGED <<cpTimes, reached>>
  /\ Credit(z)
  /\ UNCHANGED <<alive, touchedGround, timerRunning, currentTime, currentCourse, currentStage,
                 paused, recVars, startedOn>>

CheckpointZoneStartTouch(z) ==
  /\ Enter(z) /\ z.kind = "cp"
  /\ IF timerRunning /\ z.course = currentCourse /\ cpTimes[z.num] < 0
     THEN /\ reached < MaxReached
          /\ cpTimes' = [cpTimes EXCEPT ![z.num] = currentTime]
          /\ reached' = reached + 1
     ELSE UNCHANGED <<cpTimes, reached>>
  /\ Credit(z)
  /\ UNCHANGED <<alive, touchedGround, timerRunning, currentTime, currentCourse, currentStage,
                 paused, recVars, startedOn>>

\* A stage further than the next one is refused, the current one ignored.
StageZoneStartTouch(z) ==
  /\ Enter(z) /\ z.kind = "stage"
  /\ currentStage' = IF timerRunning /\ z.course = currentCourse /\ z.num = currentStage + 1
                     THEN currentStage + 1 ELSE currentStage
  /\ Credit(z)
  /\ UNCHANGED <<alive, touchedGround, timerRunning, currentTime, currentCourse, reached, cpTimes,
                 paused, recVars, startedOn>>

EndZoneStartTouch(z) ==
  /\ Enter(z) /\ z.kind = "end"
  /\ IF CanEnd(z.course) THEN TimerEnd
     ELSE UNCHANGED <<timerRunning, currentTime, currentCourse, countVars, recVars>>
  /\ UNCHANGED <<alive, touchedGround, paused, auxVars>>

\* Any other zone is left: only stage end times, which are not modelled, change.
OtherZoneEndTouch(z) ==
  /\ z \in touching /\ z.kind # "start"
  /\ touching' = touching \ {z}
  /\ UNCHANGED <<alive, touchedGround, timerRunning, currentTime, currentCourse, countVars, paused,
                 recVars, auxVars>>

------------------------------------------------------------------------------
(* The game frame and the events of the player's life. *)

OnPhysicsSimulatePost ==
  /\ alive /\ timerRunning /\ ~paused
  /\ currentTime + Tick <= MaxTime
  /\ currentTime' = currentTime + Tick
  /\ UNCHANGED <<zoneVars, timerRunning, currentCourse, countVars, paused, recVars, auxVars>>

OnStartTouchGround ==
  /\ alive
  /\ touchedGround' = TRUE
  /\ UNCHANGED <<alive, touching, timerRunning, currentTime, currentCourse, countVars, paused,
                 recVars, auxVars>>

\* Everything that calls TimerStop and nothing else of the timer: noclip, a
\* mode or style change, a stop trigger, a teleport to a start zone, round start.
StopTheTimer ==
  /\ timerRunning
  /\ StopRunning
  /\ UNCHANGED <<zoneVars, currentTime, currentCourse, reached, cpTimes, paused, savedRecs, runUUID,
                 submissions, auxVars>>

\* !bonus resets the stage shown on the HUD, and does not stop the timer.
BonusCommand ==
  /\ StageCommand
  /\ currentStage' = 0
  /\ UNCHANGED <<zoneVars, timerRunning, currentTime, currentCourse, reached, cpTimes, paused,
                 recVars, auxVars>>

\* !stage stops the timer, then shows the stage it teleports to.
StageTeleport ==
  /\ StageCommand
  /\ IF timerRunning THEN timerRunning' = FALSE /\ activeRecs' = 0
     ELSE UNCHANGED <<timerRunning, activeRecs>>
  /\ \E c \in Courses : currentStage' \in StageNums[c]
  /\ UNCHANGED <<zoneVars, currentTime, currentCourse, reached, cpTimes, paused, savedRecs, runUUID,
                 submissions, auxVars>>

\* Pause and Resume may be refused by a cooldown or in mid-air: then nothing changes.
Pause ==
  /\ alive /\ ~paused
  /\ paused' = TRUE
  /\ UNCHANGED <<zoneVars, timerRunning, currentTime, currentCourse, countVars, recVars, auxVars>>

\* Resume, and OnChangeMoveType when the player escapes MOVETYPE_NONE.
Resume ==
  /\ paused
  /\ paused' = FALSE
  /\ UNCHANGED <<zoneVars, timerRunning, currentTime, currentCourse, countVars, recVars, auxVars>>

OnPlayerDeath ==
  /\ alive
  /\ alive' = FALSE
  /\ TimerStop
  /\ UNCHANGED <<touching, touchedGround, currentTime, currentCourse, reached, cpTimes, paused,
                 savedRecs, runUUID, submissions, auxVars>>

\* JoinTeam(SPECTATOR): a run that could not be paused is stopped, any other
\* goes on, paused, while its player watches others.
JoinSpectators ==
  /\ alive
  /\ alive' = FALSE
  /\ \E canPause \in BOOLEAN :
       IF ~paused /\ ~canPause THEN TimerStop
       ELSE UNCHANGED <<timerRunning, activeRecs, currentStage>>
  /\ paused' = TRUE
  /\ UNCHANGED <<touching, touchedGround, currentTime, currentCourse, reached, cpTimes,
                 savedRecs, runUUID, submissions, auxVars>>

\* JoinTeam(CT) of a dead player: spawning resumes, and without a saved
\* position to go back to, the run is stopped.
Respawn ==
  /\ ~alive
  /\ alive' = TRUE
  /\ paused' = FALSE
  /\ \E restorePos \in BOOLEAN :
       IF restorePos THEN UNCHANGED <<timerRunning, activeRecs, currentStage>> ELSE TimerStop
  /\ UNCHANGED <<touching, touchedGround, currentTime, currentCourse, reached, cpTimes,
                 savedRecs, runUUID, submissions, auxVars>>

\* Mutant: the last recorder is erased without looking whether there is one.

\* TimerStop, the recorders are written and dropped, then Reset of the player's
\* services.  The checkpoint counters are not reset.
OnClientDisconnect ==
  /\ alive' = FALSE
  /\ touching' = {}
  /\ touchedGround' = FALSE
  /\ timerRunning' = FALSE
  /\ activeRecs' = 0
  /\ currentStage' = IF timerRunning THEN 0 ELSE currentStage
  /\ currentTime' = 0
  /\ currentCourse' = NoCourse
  /\ paused' = FALSE
  /\ runUUID' = 0
  /\ UNCHANGED <<reached, cpTimes, savedRecs, submissions, auxVars>>

------------------------------------------------------------------------------
PlayerNext ==
  \/ \E z \in MapZones :
       \/ StartZoneStartTouch(z) \/ StartZoneTouch(z) \/ StartZoneEndTouch(z)
       \/ CheckpointZoneStartTouch(z) \/ StageZoneStartTouch(z) \/ EndZoneStartTouch(z)
       \/ OtherZoneEndTouch(z)
  \/ OnPhysicsSimulatePost \/ OnStartTouchGround
  \/ StopTheTimer \/ BonusCommand \/ StageTeleport \/ Pause \/ Resume
  \/ OnPlayerDeath \/ JoinSpectators \/ Respawn

Next == PlayerNext \/ OnClientDisconnect

Spec == Init /\ [][Next]_vars

------------------------------------------------------------------------------
(* Properties *)

\* A finished run went through every checkpoint zone and, in order, every
\* stage zone of the course it is submitted for, and it is submitted for the
\* course it was started on: TimerEnd only compares two counters.
RunComplete ==
  \A i \in DOMAIN submissions :
    /\ submissions[i].course = submissions[i].on
    /\ Required(submissions[i].course) \subseteq submissions[i].passed

\* A run is being recorded exactly while the timer runs: one recorder, pushed
\* by OnTimerStartPost and ended or dropped when the timer stops, whichever of
\* the timer's many exits is taken.
RecorderFollowsTimer == activeRecs = IF timerRunning THEN 1 ELSE 0

\* Every submission carries the UUID of a recorder that will be saved, and no
\* two submissions carry the same one.
SubmissionsHaveReplays ==
  /\ \A i \in DOMAIN submissions : submissions[i].uuid \in 1..savedRecs
  /\ \A i, j \in DOMAIN submissions : submissions[i].uuid = submissions[j].uuid => i = j

\* Reaching the end of the course after every zone of it ends the run: no
\* "missed a zone" message is shown to a player who missed none, unless !bonus
\* took the stage away.
CompleteRunEnds ==
  [][\A c \in Courses :
       /\ timerRunning /\ currentCourse = c /\ startedOn = c
       /\ Required(c) \subseteq passed
       /\ currentStage = 0 => StageCount(c) = 0
       /\ Zone("end", c, 0) \in touching' \ touching
       => ~timerRunning']_vars

\* The run the player is on, as the timer sees it, keeps the contract.
Contract == INSTANCE RunContract WITH
  onCourse <- IF timerRunning THEN currentCourse ELSE NoCourse,
  finished <- [i \in DOMAIN submissions |-> submissions[i].course]
KeepsContract == Contract!Spec
==============================================================================
