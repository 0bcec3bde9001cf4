----------------------------- MODULE Comparison -----------------------------
(***************************************************************************)
(* Comparison: what a run is compared with.  The timer caches, for a mode   *)
(* and a course (a key), the server's and the world's record and a player's *)
(* own bests, and compares a run with the best of them that the player      *)
(* prefers and that is there when the run starts.                           *)
(*                                                                          *)
(* p is the timer service of one player with the caches: cache[type][key]   *)
(* is a PB or None.  The operators are the functions of bhop_timer.cpp on   *)
(* it.  A time is a number of    *)
(* ticks, 0 where the code has no time.                                     *)
(***************************************************************************)
EXTENDS Integers, Sequences, SequencesExt

CONSTANTS
  None, Empty, Broken,  \* no value, empty metadata, metadata that is no JSON
  Keys,                 \* modes with courses
  MaxZones              \* BHOP_MAX_CHECKPOINT_ZONES, BHOP_MAX_STAGE_ZONES

\* CompareType
COMPARE_NONE == 0
COMPARE_SPB  == 1  \* the player's best on the server
COMPARE_GPB  == 2  \* and of the global API
COMPARE_SR   == 3  \* the server's record
COMPARE_WR   == 4  \* the world's
COMPARETYPE_COUNT == 5
Cached == COMPARE_SPB..COMPARE_WR

NoTimes == [i \in 1..MaxZones |-> 0]
NewPB   == [time |-> 0, cps |-> NoTimes, stages |-> NoTimes]

------------------------------------------------------------------------------
(* The caches. *)

\* The times of an array of the metadata, for as many zones as the course has.
WithTimes(old, array, zones) ==
  IF array = None THEN old
  ELSE [i \in DOMAIN old |-> IF i > zones THEN old[i] ELSE IF i <= Len(array) THEN array[i] ELSE 0]

\* InsertRecordToCache and InsertPBToCache: row = [key, time, metadata].  Without
\* metadata the times of the zones stay those of the record before.
Inserted(cache, row, course) ==
  LET old == IF cache[row.key] = None THEN NewPB ELSE cache[row.key]
      pb  == [old EXCEPT !.time = row.time]
  IN  [cache EXCEPT ![row.key] =
         IF row.metadata \in {Empty, Broken} THEN pb
         ELSE [pb EXCEPT !.cps = WithTimes(@, row.metadata.cps, course.cps),
                         !.stages = WithTimes(@, row.metadata.stages, course.stages)]]

\* The callbacks of UpdateLocalRecordCache and UpdateLocalPBCache: rows of an
\* unknown mode or course are passed over.
Answered(cache, rows, known) ==
  FoldLeft(LAMBDA c, row : IF row.key \in DOMAIN known THEN Inserted(c, row, known[row.key]) ELSE c,
           cache, rows)

NoCache == [k \in Keys |-> None]

\* ClearRecordCache, and ClearPBCache for every player: the global bests stay.
ClearRecordCache(p) ==
  [p EXCEPT !.cache = [@ EXCEPT ![COMPARE_SR] = NoCache, ![COMPARE_WR] = NoCache, ![COMPARE_SPB] = NoCache]]

\* What a finished run writes as its metadata: the times of the course's zones.
\* Only the checkpoints' member is made an array before there is an element.
GetCurrentRunMetadata(cps, stages) == [cps |-> cps, stages |-> IF stages = <<>> THEN None ELSE stages]

------------------------------------------------------------------------------
(* The target. *)

GetCompareTarget(p, type, key) == IF type \in Cached THEN p.cache[type][key] ELSE None

\* From the preferred type down.
CurrentType(p, key) ==
  LET there == {t \in 1..p.preferred : GetCompareTarget(p, t, key) # None}
  IN  IF there = {} THEN COMPARE_NONE ELSE CHOOSE t \in there : \A u \in there : u <= t

UpdateCurrentCompareType(p, key) == [p EXCEPT !.current = CurrentType(p, key)]

\* The key is that of the timer's course, None without one.
SetCompareTarget(p, type) ==
  LET q == [p EXCEPT !.preferred = type]
  IN  IF p.key = None THEN q ELSE UpdateCurrentCompareType(q, p.key)

\* Any integer may be stored as the preference; a CompareType has eight bits.
OnPlayerPreferencesLoaded(p, stored) ==
  [p EXCEPT !.preferred = IF stored > COMPARETYPE_COUNT THEN COMPARE_GPB ELSE stored % 256]

------------------------------------------------------------------------------
(* The run. *)

\* The part of TimerStart.
TimerStart(p, key) ==
  UpdateCurrentCompareType([p EXCEPT !.key = key, !.running = TRUE, !.time = 0, !.announce = TRUE], key)

\* CheckMissedTime: said counts the messages.
CheckMissedTime(p) ==
  LET pb == GetCompareTarget(p, p.current, p.key)
  IN  IF p.key = None \/ ~p.running \/ ~p.announce \/ p.styled THEN p
      ELSE IF pb # None /\ pb.time > 0 /\ p.time > pb.time
           THEN [p EXCEPT !.announce = FALSE, !.said = @ + 1]
           ELSE p

\* OnPhysicsSimulatePost of a running timer.
OnPhysicsSimulatePost(p) ==
  IF p.running THEN CheckMissedTime([p EXCEPT !.time = @ + 1]) ELSE p

\* The difference ShowCheckpointText shows (None: none), and ShowStageText for
\* `stages'.
Shown(p, part, zone, time) ==
  LET pb == GetCompareTarget(p, p.current, p.key)
  IN  IF p.key = None \/ p.styled \/ pb = None \/ pb[part][zone] = 0 THEN None
      ELSE <<time, pb[part][zone]>>

NewPlayer ==
  [cache |-> [t \in Cached |-> NoCache], preferred |-> COMPARE_GPB, current |-> COMPARE_GPB,
   key |-> None, running |-> FALSE, time |-> 0, announce |-> TRUE, styled |-> FALSE, said |-> 0]
==============================================================================
