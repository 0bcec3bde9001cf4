------------------------------- MODULE MCTimer -------------------------------
(* An instance of Timer for TLC, and the checks of Comparison over bounded    *)
(* inputs.                                                                    *)
EXTENDS Timer, SequencesExt

CONSTANTS main,   \* a course
          None, Empty, Broken

\* One course recognised by entity names: two checkpoints, stages s2 and s3.
MainOnly    == {main}
MainCp      == [c \in {main} |-> 2]
MainStages  == [c \in {main} |-> {2, 3}]

WholeTicks  == {0}

------------------------------------------------------------------------------
(* Comparison.                                                                *)

C == INSTANCE Comparison WITH Keys <- {main}, MaxZones <- 3

Best(time) == [C!NewPB EXCEPT !.time = time]

\* The players with bests in any of the caches.
WithCaches == {[C!NewPlayer EXCEPT !.cache = [t \in C!Cached |-> [k \in {main} |-> c[t]]]] :
                 c \in [C!Cached -> {None, Best(2)}]}

\* Whatever number the preference is, a run that starts is compared with the
\* highest type up to it that has a time, and with nothing if there is none.
ASSUME HighestIsCompared ==
  \A p \in WithCaches, stored \in -260..260 :
    LET q == C!TimerStart(C!OnPlayerPreferencesLoaded(p, stored), main)
        wanted == IF stored > 5 THEN 2 ELSE stored % 256
        there == {t \in 1..4 : t <= wanted /\ p.cache[t][main] # None}
    IN  /\ q.current = (IF there = {} THEN 0 ELSE CHOOSE t \in there : \A u \in there : u <= t)
        /\ C!GetCompareTarget(q, q.current, main) = None <=> there = {}

\* Calls in any order: a run starts, a tick goes by, a best comes in or the
\* preference changes, the caches are cleared.
Calls == {"start", "tick", "spb", "sr", "wants sr", "wants none", "clear"}
Call(p, call) ==
  LET put(type, time) ==
        [p EXCEPT !.cache[type] = C!Answered(@, <<[key |-> main, time |-> time, metadata |-> Empty]>>,
                                             [k \in {main} |-> [cps |-> 2, stages |-> 2]])]
  IN  CASE call = "start" -> [C!TimerStart(p, main) EXCEPT !.said = 0]
        [] call = "tick" -> C!OnPhysicsSimulatePost(p)
        [] call = "spb" -> put(C!COMPARE_SPB, 2)
        [] call = "sr" -> put(C!COMPARE_SR, 1)
        [] call = "wants sr" -> C!SetCompareTarget(p, C!COMPARE_SR)
        [] call = "wants none" -> C!SetCompareTarget(p, C!COMPARE_NONE)
        [] call = "clear" -> C!ClearRecordCache(p)

\* A run is told at most once that it missed the time, and not before it did;
\* while neither the preference nor the caches change, it is told when it does.
ASSUME MissedOnce ==
  \A calls \in UNION {[1..k -> Calls] : k \in 0..5} :
    LET p == FoldLeft(Call, C!NewPlayer, calls)
    IN  /\ p.said <= 1
        /\ p.said = 1 => p.time > 1 /\ ~p.announce
        /\ \A n \in 1..Len(calls) :
             /\ calls[n] = "start" /\ \A m \in n + 1..Len(calls) : calls[m] = "tick"
             /\ LET pb == C!GetCompareTarget(p, p.current, main)
                IN  pb # None /\ Len(calls) - n > pb.time
             => p.said = 1

\* A record gives back the times of the run that set it, for the zones the course
\* has; one without metadata keeps those of the record before it.
ASSUME TimesComeBack ==
  \A cps \in [1..2 -> 0..2], stages \in {<<>>, <<1>>, <<1, 2, 2>>}, zones \in 0..2 :
    LET course == [k \in {main} |-> [cps |-> zones, stages |-> 2]]
        row == [key |-> main, time |-> 3, metadata |-> C!GetCurrentRunMetadata(cps, stages)]
        p == [C!TimerStart(C!NewPlayer, main) EXCEPT
                !.cache[C!COMPARE_SPB] = C!Answered(@, <<row, [row EXCEPT !.key = None]>>, course),
                !.current = C!COMPARE_SPB]
        bare == C!Answered(p.cache[C!COMPARE_SPB], <<[row EXCEPT !.metadata = Broken, !.time = 1]>>, course)
    IN  /\ \A i \in 1..2 : C!Shown(p, "cps", i, 5) =
             IF i <= zones /\ cps[i] > 0 THEN <<5, cps[i]>> ELSE None
        /\ \A i \in 1..2 : C!Shown(p, "stages", i, 5) = IF i <= Len(stages) THEN <<5, stages[i]>> ELSE None
        /\ bare[main] = [p.cache[C!COMPARE_SPB][main] EXCEPT !.time = 1]
==============================================================================
