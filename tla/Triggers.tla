------------------------------- MODULE Triggers -------------------------------
(***************************************************************************)
(* BhopTriggerService of one player: the list of triggers the player is     *)
(* touching, kept by the plugin in place of the engine, the mapping API     *)
(* events fired from it, and the pushes that push triggers schedule.        *)
(*                                                                          *)
(* A tick runs OnPhysicsSimulate, then the movement in two halves, then     *)
(* OnPhysicsSimulatePost.  Time is counted in half ticks; the tick's end is *)
(* an even time.  Which triggers a trace hits, and in which order, is an    *)
(* input: the player may move, be teleported, die or noclip at any point.   *)
(***************************************************************************)
EXTENDS Integers, Sequences, SequencesExt, FiniteSets

CONSTANTS
  Trigs,        \* the trigger entities of the map
  Kind,         \* Kind[t]: "plain" (no BhopTrigger), "zone", "push", or "teleport" at once
  Conds,        \* Conds[t]: pushConditions, of {"start", "touch", "end", "jump"}
  Delay,        \* Delay[t]: push.delay, in half ticks
  Cooldown,     \* Cooldown[t]: push.cooldown, in half ticks
  CancelOnTp,   \* the triggers with push.cancelOnTeleport
  Mortal,       \* the triggers map logic may kill
  Filtered,     \* the triggers whose filter may start or stop passing
  Overlaps,     \* the sets of triggers one trace may hit together
  MaxTime       \* bound: half ticks

ASSUME TriggersAssumption ==
  /\ Kind \in [Trigs -> {"plain", "zone", "push", "teleport"}]
  /\ Conds \in [Trigs -> SUBSET {"start", "touch", "end", "jump"}]
  /\ Delay \in [Trigs -> Nat] /\ Cooldown \in [Trigs -> Nat]
  /\ Overlaps \subseteq SUBSET Trigs /\ \A h \in Overlaps : IsFiniteSet(h)
  /\ CancelOnTp \subseteq Trigs /\ Mortal \subseteq Trigs /\ Filtered \subseteq Trigs

VARIABLES
  svc,      \* the service: [trackers, pushes], and the auxiliary [depth, last, hit]
  world,    \* [exists, passes]: the living entities, the ones whose filter passes
  player,   \* [alive, noclip]
  now,      \* server time, in half ticks
  phase     \* "idle", "start" of a tick, "half" or "whole" of its movement done

triggersVars == <<svc, world, player, now, phase>>

\* No time of a push.
Never == -1

HasBhopTrigger(t) == Kind[t] # "plain"
Tracker(t)  == [trig |-> t, touched |-> FALSE, mapi |-> FALSE]
Push(t, at) == [src |-> t, at |-> at, applied |-> FALSE]
Tracked(s)    == {s.trackers[i].trig : i \in DOMAIN s.trackers}
Started(s, t) == \E i \in DOMAIN s.trackers : s.trackers[i].trig = t /\ s.trackers[i].mapi
Sources(s)    == {p.src : p \in s.pushes}

\* A trigger has at most one tracker and one event.
OneEach(s) ==
  /\ \A i, j \in DOMAIN s.trackers : s.trackers[i].trig = s.trackers[j].trig => i = j
  /\ \A p, q \in s.pushes : p.src = q.src => p = q

\* The type of every variable, and what IndexOf and AddPushEvent rely on.
TriggersTypeOK ==
  /\ svc \in [trackers : Seq([trig : Trigs, touched : BOOLEAN, mapi : BOOLEAN]),
              pushes : SUBSET [src : Trigs, at : Nat, applied : BOOLEAN],
              depth : [Trigs -> Int], last : [Trigs -> Nat \cup {Never}], hit : SUBSET Trigs]
  /\ OneEach(svc)
  /\ world \in [exists : SUBSET Trigs, passes : SUBSET Trigs]
  /\ player \in [alive : BOOLEAN, noclip : BOOLEAN]
  /\ now \in Nat /\ phase \in {"idle", "start", "half", "whole"}

\* Auxiliary: the mapping API starts of t less its ends, the time of its last
\* push, and what the last trace of UpdateTriggerTouchList hit.
TriggersInit ==
  /\ svc = [trackers |-> <<>>, pushes |-> {},
            depth |-> [t \in Trigs |-> 0], last |-> [t \in Trigs |-> Never], hit |-> {}]
  /\ world = [exists |-> Trigs, passes |-> Trigs]
  /\ player = [alive |-> TRUE, noclip |-> FALSE]
  /\ now = 0
  /\ phase = "idle"

------------------------------------------------------------------------------
(* Push events. *)

\* An event is found by its source: a trigger has one at a time, and their order
\* is that of the velocities they add.
AddPushEvents(s, ts, time) ==
  [s EXCEPT !.pushes = @ \cup {Push(t, time + Delay[t]) : t \in ts \ Sources(s)}]

AddPushEvent(s, t, time) == AddPushEvents(s, {t}, time)

\* Mutant: an event is forgotten as soon as it was applied.
CleanupPushEvents_NoCooldown(s, time, frametime) ==
  [s EXCEPT !.pushes = {p \in @ : ~(p.applied /\ time - frametime >= p.at)}]

CleanupPushEvents(s, time, frametime) ==
  [s EXCEPT !.pushes = {p \in @ : ~(p.applied /\ time - frametime >= p.at + Cooldown[p.src])}]

\* The frame that ends at time applies what fell due inside it.
Due(p, time, frametime) == time - frametime < p.at /\ p.at <= time /\ ~p.applied

ApplyPushes(s, time, frametime) ==
  LET due == {p \in s.pushes : Due(p, time, frametime)}
  IN  [s EXCEPT !.pushes = (@ \ due) \cup {[p EXCEPT !.applied = TRUE] : p \in due},
                !.last = [t \in Trigs |-> IF \E p \in due : p.src = t
                                          THEN (CHOOSE p \in due : p.src = t).at ELSE @[t]]]

CancelPushes(s) == [s EXCEPT !.pushes = {p \in @ : p.src \notin CancelOnTp}]

------------------------------------------------------------------------------
(* The mapping API's events.  What a zone, a stop or a reset trigger does to *)
(* the timer is in the module Timer.                                         *)

MapiStart(s, t, time) ==
  LET e == [s EXCEPT !.depth[t] = @ + 1]
  IN  IF Kind[t] = "push" /\ "start" \in Conds[t] THEN AddPushEvent(e, t, time) ELSE e

\* A teleport trigger that moves the player during the movement calls OnTeleport.
TouchTeleportTrigger(s, moving) == IF moving THEN CancelPushes(s) ELSE s
TouchPushTrigger(s, t, time)    == IF "touch" \in Conds[t] THEN AddPushEvent(s, t, time) ELSE s

MapiTouch(s, t, time, moving) ==
  CASE Kind[t] = "push"     -> TouchPushTrigger(s, t, time)
    [] Kind[t] = "teleport" -> TouchTeleportTrigger(s, moving)
    [] OTHER                -> s

MapiEnd(s, t, time) ==
  LET e == [s EXCEPT !.depth[t] = @ - 1]
  IN  IF Kind[t] = "push" /\ "end" \in Conds[t] THEN AddPushEvent(e, t, time) ELSE e

IndexOf(s, t) == CHOOSE i \in DOMAIN s.trackers : s.trackers[i].trig = t
SetMapi(s, t, b) == [s EXCEPT !.trackers[IndexOf(s, t)].mapi = b]
IsMapi(s, t) == s.trackers[IndexOf(s, t)].mapi
Passes(t) == t \in world.passes
Forget(s, t) == [s EXCEPT !.trackers = RemoveAt(@, IndexOf(s, t))]

OnTriggerStartTouchPost(s, t, time) ==
  IF HasBhopTrigger(t) /\ Passes(t) THEN MapiStart(SetMapi(s, t, TRUE), t, time) ELSE s

\* A filter lost inside is an end touch, a filter won inside a late start touch.
OnTriggerTouchPost(s, t, time, moving) ==
  IF ~HasBhopTrigger(t) THEN s
  ELSE IF ~Passes(t)
       THEN IF IsMapi(s, t) THEN MapiEnd(SetMapi(s, t, FALSE), t, time) ELSE s
       ELSE LET e == IF IsMapi(s, t) THEN s ELSE MapiStart(SetMapi(s, t, TRUE), t, time)
            IN  MapiTouch(e, t, time, moving)

\* Mutant: the end is fired whether or not the start was.
OnTriggerEndTouchPost_Always(s, t, time) == IF HasBhopTrigger(t) THEN MapiEnd(s, t, time) ELSE s

OnTriggerEndTouchPost(s, t, time) ==
  IF HasBhopTrigger(t) /\ IsMapi(s, t) THEN MapiEnd(s, t, time) ELSE s

------------------------------------------------------------------------------
(* Touches.  Zones are touched on whole ticks only: OnTriggerStartTouchPre,   *)
(* OnTriggerTouchPre and OnTriggerEndTouchPre ask the player's mode.          *)

ModeAllows(t, time) == Kind[t] = "zone" => time % 2 = 0

Touch(s, t, time, moving, silent) ==
  IF t \notin Tracked(s) THEN s
  ELSE IF (s.trackers[IndexOf(s, t)].touched /\ ~HasBhopTrigger(t)) \/ ~ModeAllows(t, time) THEN s
  ELSE LET e == IF silent THEN s ELSE [s EXCEPT !.trackers[IndexOf(s, t)].touched = TRUE]
       IN  OnTriggerTouchPost(e, t, time, moving)

StartTouch(s, t, time, moving) ==
  IF t \in Tracked(s) \/ ~ModeAllows(t, time) THEN s
  ELSE LET e == [s EXCEPT !.trackers = Append(@, Tracker(t))]
       IN  Touch(OnTriggerStartTouchPost(e, t, time), t, time, moving, TRUE)

EndTouch(s, t, time, moving) ==
  IF t \notin Tracked(s) \/ ~ModeAllows(t, time) THEN s
  ELSE LET e == IF HasBhopTrigger(t) THEN s ELSE Touch(s, t, time, moving, FALSE)
       IN  Forget(OnTriggerEndTouchPost(e, t, time), t)

\* "The trigger mysteriously disappeared": its end is fired from the tracker alone.
Vanish(s, t, time) == Forget(IF HasBhopTrigger(t) THEN MapiEnd(s, t, time) ELSE s, t)

\* What OnPhysicsSimulate, TouchAll and EndTouchAll do with a living trigger.
Visit(s, t, body, time, moving) ==
  CASE body = "clear" -> [s EXCEPT !.trackers[IndexOf(s, t)].touched = FALSE]
    [] body = "touch" -> Touch(s, t, time, moving, FALSE)
    [] body = "end"   -> EndTouch(s, t, time, moving)

\* A forward loop over the trackers whose body may remove the current one:
\* a vanished trigger steps the index back, EndTouch does not.
VisitOne(r, body, time, moving) ==
  IF r.i > Len(r.s.trackers) THEN r
  ELSE LET t == r.s.trackers[r.i].trig
       IN  IF t \in world.exists THEN [s |-> Visit(r.s, t, body, time, moving), i |-> r.i + 1]
           ELSE [s |-> Vanish(r.s, t, time), i |-> r.i]

ForEach(s, body, time, moving) ==
  LET after[n \in 0..Len(s.trackers)] ==
        IF n = 0 THEN [s |-> s, i |-> 1] ELSE VisitOne(after[n - 1], body, time, moving)
  IN  after[Len(s.trackers)].s

EndTouchAll(s, time, moving) == ForEach(s, "end", time, moving)
TouchAll(s, time, moving)    == ForEach(s, "touch", time, moving)

\* Mutant: what is no longer hit is kept until the engine reports it.
EndUnhit_Keep(s, hits, time, moving) == s

\* The backward loop of UpdateTriggerTouchList: nothing is skipped.
EndOne(s, t, hits, time, moving) ==
  IF t \notin world.exists THEN Vanish(s, t, time)
  ELSE IF t \notin ToSet(hits) THEN EndTouch(s, t, time, moving) ELSE s

Backwards(s) == [n \in 1..Len(s.trackers) |-> s.trackers[Len(s.trackers) + 1 - n].trig]

EndUnhit(s, hits, time, moving) ==
  LET after[n \in 0..Len(s.trackers)] ==
        IF n = 0 THEN s ELSE EndOne(after[n - 1], Backwards(s)[n], hits, time, moving)
  IN  after[Len(s.trackers)]

\* What a trace hit is touched if it is new, and touched again if it is not.
TouchOne(s, t, time, moving, again) ==
  IF t \notin Tracked(s) THEN StartTouch(s, t, time, moving)
  ELSE IF again /\ HasBhopTrigger(t) THEN Touch(s, t, time, moving, FALSE) ELSE s

TouchHits(s, hits, time, moving, again) ==
  LET after[n \in 0..Len(hits)] ==
        IF n = 0 THEN s ELSE TouchOne(after[n - 1], hits[n], time, moving, again)
  IN  after[Len(hits)]

UpdateTriggerTouchList(s, hits, time, moving) ==
  IF ~player.alive \/ player.noclip THEN EndTouchAll(s, time, moving)
  ELSE TouchHits(EndUnhit([s EXCEPT !.hit = ToSet(hits)], hits, time, moving), hits, time, moving, TRUE)

\* The living triggers a trace reports, in any order.
Hits == UNION {SetToSeqs(h \cap world.exists) : h \in Overlaps}

------------------------------------------------------------------------------
(* The tick. *)

\* The server's time is the end of the tick from here on.
OnPhysicsSimulate ==
  /\ phase = "idle" /\ now + 2 <= MaxTime
  /\ now' = now + 2
  /\ svc' = ForEach(svc, "clear", now + 2, FALSE)
  /\ phase' = "start"
  /\ player' = [player EXCEPT !.noclip = @ /\ player.alive]   \* HandleMoveCollision
  /\ UNCHANGED world

\* The time of the movement being processed, and whether there is one.
MoveTime == IF phase = "start" THEN now - 1 ELSE now
Moving   == phase \in {"start", "half"} /\ player.alive

\* The mode traces along the path of the player: only new triggers are touched.
TouchTriggersAlongPath ==
  /\ Moving /\ ~player.noclip
  /\ \E hits \in Hits : svc' = TouchHits(svc, hits, MoveTime, TRUE, FALSE)
  /\ UNCHANGED <<world, player, now, phase>>

\* The player jumps off the ground.
OnStopTouchGround ==
  /\ Moving
  /\ LET jumped == {t \in Tracked(svc) \cap world.exists : Kind[t] = "push" /\ "jump" \in Conds[t]}
     IN  svc' = AddPushEvents(svc, jumped, MoveTime)
  /\ UNCHANGED <<world, player, now, phase>>

\* The end of a half: the mode updates the list, then the pushes are applied.
OnProcessMovementPost ==
  /\ Moving
  /\ \E hits \in Hits :
       svc' = CleanupPushEvents(
                ApplyPushes(UpdateTriggerTouchList(svc, hits, MoveTime, TRUE), MoveTime, 1),
                MoveTime, 1)
  /\ phase' = IF phase = "start" THEN "half" ELSE "whole"
  /\ UNCHANGED <<world, player, now>>

\* Dead players do not move.
NoMovement ==
  /\ phase \in {"start", "half"} /\ ~player.alive
  /\ phase' = "whole"
  /\ UNCHANGED <<svc, world, player, now>>

OnPhysicsSimulatePost ==
  /\ phase = "whole"
  /\ \E hits \in Hits :
       LET touched == TouchAll(UpdateTriggerTouchList(svc, hits, now, FALSE), now, FALSE)
       IN  svc' = CleanupPushEvents(ApplyPushes(touched, now, 2), now, 2)
  /\ phase' = "idle"
  /\ UNCHANGED <<world, player, now>>

------------------------------------------------------------------------------
(* Between them. *)

OnTeleport ==
  /\ svc' = CancelPushes(svc) /\ svc' # svc
  /\ UNCHANGED <<world, player, now, phase>>

\* Map logic kills a trigger, or changes what its filter passes.
TriggerKilled ==
  /\ \E t \in Mortal \cap world.exists : world' = [world EXCEPT !.exists = @ \ {t}]
  /\ UNCHANGED <<svc, player, now, phase>>

FilterChanges ==
  /\ \E t \in Filtered :
       world' = [world EXCEPT !.passes = IF t \in @ THEN @ \ {t} ELSE @ \cup {t}]
  /\ UNCHANGED <<svc, player, now, phase>>

ToggleNoclip ==
  /\ player.alive /\ phase = "idle"
  /\ player' = [player EXCEPT !.noclip = ~@]
  /\ UNCHANGED <<svc, world, now, phase>>

DieOrSpawn ==
  /\ player.alive \/ phase = "idle"
  /\ player' = [player EXCEPT !.alive = ~@]
  /\ UNCHANGED <<svc, world, now, phase>>

\* Reset, when the player of the slot leaves.
Reset ==
  /\ phase = "idle"
  /\ svc' = [svc EXCEPT !.trackers = <<>>, !.pushes = {}, !.depth = [t \in Trigs |-> 0],
                        !.last = [t \in Trigs |-> Never], !.hit = {}]
  /\ player' = [alive |-> TRUE, noclip |-> FALSE]
  /\ UNCHANGED <<world, now, phase>>

Tick == OnPhysicsSimulate \/ OnProcessMovementPost \/ NoMovement \/ OnPhysicsSimulatePost

TriggersNext ==
  \/ Tick \/ TouchTriggersAlongPath \/ OnStopTouchGround \/ OnTeleport
  \/ TriggerKilled \/ FilterChanges \/ ToggleNoclip \/ DieOrSpawn \/ Reset

TriggersSpec == TriggersInit /\ [][TriggersNext]_triggersVars

------------------------------------------------------------------------------
\* Mapping API starts and ends of a living trigger alternate, and the tracker
\* knows which came last, however touches, filters and the list's loops mix.
EventsAreSymmetric ==
  \A t \in world.exists : svc.depth[t] = IF Started(svc, t) THEN 1 ELSE 0

\* A trigger pushes the player at most once per cooldown, unless a teleport
\* may cancel its events, and with them the memory of the last push.
PushCooldown ==
  [][\A t \in Trigs \ CancelOnTp :
       svc'.last[t] = svc.last[t] \/ Never \in {svc.last[t], svc'.last[t]}
       \/ svc'.last[t] >= svc.last[t] + Cooldown[t]]_triggersVars

\* A tick leaves a living player touching exactly what was hit, and a dead or
\* noclipping one at most half of what was touched: the loop skips the rest.
TouchListFollowsPlayer ==
  [][phase = "whole" /\ phase' = "idle" =>
       IF player.alive /\ ~player.noclip THEN Tracked(svc') = svc'.hit
       ELSE Len(svc'.trackers) <= Len(svc.trackers) \div 2]_triggersVars
==============================================================================
