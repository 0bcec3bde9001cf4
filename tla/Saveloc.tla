------------------------------- MODULE Saveloc -------------------------------
(***************************************************************************)
(* BhopCheckpointService composed with the timer: saved locations, undo,    *)
(* the custom start position, and the one place outside the timer that      *)
(* writes timerRunning -- SetTime, called by DoTeleport when the player     *)
(* already stands where the teleport leads.                                 *)
(*                                                                          *)
(* tpCount is not a variable: every caller of ResetCheckpoints resets it    *)
(* together with the undo data, so tpCount > 0 is undo # NoUndo.            *)
(***************************************************************************)
EXTENDS Timer

CONSTANTS
  Positions, StartPos, NoUndo,
  Tas,       \* the player has the TAS style
  MaxRecs    \* bound: run recorders started and neither ended nor dropped

ASSUME SavelocAssumption ==
  /\ StartPos \in Positions
  /\ Tas \in BOOLEAN
  /\ MaxRecs \in Nat

VARIABLES
  pos,           \* the player's origin
  checkpoints,   \* the saved locations: current, previous and next reach them all
  undo,          \* undoTeleportData
  customStart    \* hasCustomStartPosition: set in the start zone, at StartPos

saveVars == <<checkpoints, undo>>
allVars == <<vars, pos, saveVars, customStart>>

SavedTimes == -1..(MaxTime + Tick)
Checkpoint == [pos : Positions, time : SavedTimes]
Undo       == [pos : Positions, time : SavedTimes, onGround : BOOLEAN]

SavelocTypeOK ==
  /\ TypeOK
  /\ pos \in Positions
  /\ checkpoints \subseteq Checkpoint
  /\ undo \in Undo \cup {NoUndo}
  /\ customStart \in BOOLEAN

SInit == Init /\ pos \in Positions /\ checkpoints = {} /\ undo = NoUndo /\ customStart = FALSE

ResetCheckpoints_KeepsSaved == checkpoints' = checkpoints /\ undo' = NoUndo   \* mutant: no purge
ResetCheckpoints == checkpoints' = {} /\ undo' = NoUndo

SetTime(t) ==
  /\ currentTime' = t
  /\ timerRunning' = (t > 0)

\* The undo data is taken before the clock is set.
DoTeleport(cp, respawn) ==
  /\ undo' \in [pos : {pos}, time : {IF respawn THEN 0 ELSE currentTime}, onGround : BOOLEAN]
  /\ pos' = cp.pos
  /\ UNCHANGED <<checkpoints, customStart>>
  /\ UNCHANGED <<zoneVars, currentCourse, countVars, paused, recVars, auxVars>>
  /\ IF pos = cp.pos /\ ~respawn THEN SetTime(cp.time) ELSE UNCHANGED <<timerRunning, currentTime>>

------------------------------------------------------------------------------
\* A step of the timer: TimerStart resets the checkpoints.
TimerStep ==
  /\ PlayerNext
  /\ activeRecs' <= MaxRecs
  /\ IF ~timerRunning /\ timerRunning' THEN ResetCheckpoints ELSE UNCHANGED saveVars
  /\ UNCHANGED <<pos, customStart>>

Move ==
  /\ alive
  /\ pos' \in Positions \ {pos}
  /\ UNCHANGED <<vars, saveVars, customStart>>

SetCheckpoint ==
  /\ alive
  /\ checkpoints' = checkpoints \cup {[pos |-> pos, time |-> currentTime]}
  /\ UNCHANGED <<vars, pos, undo, customStart>>

SetStartPosition ==
  /\ alive /\ pos = StartPos
  /\ \E z \in touching : z.kind = "start"
  /\ customStart' = TRUE
  /\ UNCHANGED <<vars, pos, saveVars>>

\* !tp, !prevcp, !nextcp: refused unless the player has the TAS style.
TpToCheckpoint ==
  /\ alive /\ Tas
  /\ \E cp \in checkpoints : DoTeleport(cp, FALSE)

\* !undo asks for a saved location and a teleport from the ground, not for the style.
UndoTeleport ==
  /\ alive
  /\ checkpoints # {} /\ undo # NoUndo /\ undo.onGround
  /\ DoTeleport(undo, FALSE)

\* !r with a custom start position: stop, reset the stage, then teleport there.
\* The timer stops before the undo data is taken.
RestartCommand ==
  /\ alive /\ customStart
  /\ timerRunning' = FALSE
  /\ activeRecs' = IF timerRunning THEN 0 ELSE activeRecs
  /\ currentStage' = 0
  /\ undo' \in [pos : {pos}, time : {0}, onGround : BOOLEAN]
  /\ pos' = StartPos
  /\ UNCHANGED <<zoneVars, currentTime, currentCourse, reached, cpTimes, paused, savedRecs, runUUID,
                 submissions, auxVars, checkpoints, customStart>>

\* A stop or reset trigger also purges the saved locations.
StopTrigger ==
  /\ alive
  /\ TimerStop
  /\ ResetCheckpoints
  /\ UNCHANGED <<zoneVars, currentTime, currentCourse, reached, cpTimes, paused, savedRecs, runUUID,
                 submissions, auxVars, pos, customStart>>

Disconnect ==
  /\ OnClientDisconnect
  /\ ResetCheckpoints
  /\ customStart' = FALSE
  /\ UNCHANGED pos

SNext ==
  \/ TimerStep \/ Move \/ SetCheckpoint \/ SetStartPosition
  \/ TpToCheckpoint \/ UndoTeleport \/ RestartCommand \/ StopTrigger \/ Disconnect

SSpec == SInit /\ [][SNext]_allVars

------------------------------------------------------------------------------
\* While the timer runs there is a course: the run submission asserts it and
\* the recording service dereferences it.  SetTime can start the timer with no
\* zone touched, so this rests on every reset clearing the saved times.
CourseKnown == timerRunning => currentCourse # NoCourse
==============================================================================
