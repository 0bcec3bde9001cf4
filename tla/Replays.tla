------------------------------- MODULE Replays -------------------------------
(***************************************************************************)
(* The replay system: the loading of a replay by a thread of its own, the    *)
(* bot that plays it tick by tick, the commands that seek in it, and the     *)
(* watcher of the files (Archive).                                          *)
(*                                                                          *)
(* The file of a replay holds what the recorder was given, coded by          *)
(* Compression.  The bot's body, weapons and commands are copied from the    *)
(* tick data and left out; so are the texts of the events and the times of   *)
(* the last split, checkpoint and stage, which only word messages.          *)
(***************************************************************************)
EXTENDS Archive, Compression, SequencesExt

CONSTANTS
  Players, NoPlayer, NoFile, NoCourse, NoMode,
  Recording,     \* [Files -> recordings]: map, ticks, events, damaged section
  OnDisk,        \* the files there are at first
  KnownCourses,  \* those of the current map
  KnownModes,
  Courses,       \* what recordings name, among them NoCourse and NoMode
  Modes,
  DefaultMode,   \* 128tick
  Bounds,        \* sets of the files that loads are asked for, of how many loads
                 \* and of how old the map may get: [asked, loads, curtime]
  Ages           \* bound: of the map, when frames without a bot end

Sections == <<"header", "ticks", "weapons", "events">>

EventTypes == {"START", "END", "STOP", "PAUSE", "RESUME", "MODE", "TELEPORT"}
Interval == 1   \* ENGINE_FIXED_TICK_INTERVAL
Event == [type : EventTypes, serverTick : ServerTicks, course : Courses, time : Nat, mode : Modes]

\* How the recorder writes: ticks in order of time; events in order, each at a
\* tick; a run ends on the course it started on.
WellFormed(r) ==
  /\ r.damaged \in ToSet(Sections) \cup {"none"}
  /\ r.ticks \in Seq(TickData) /\ r.ticks # <<>> /\ r.events \in Seq(Event)
  /\ \A i, j \in DOMAIN r.ticks : i < j => r.ticks[i].serverTick < r.ticks[j].serverTick
  /\ \A i, j \in DOMAIN r.events : i < j => r.events[i].serverTick <= r.events[j].serverTick
  /\ \A i \in DOMAIN r.events :
       /\ \E t \in DOMAIN r.ticks : r.ticks[t].serverTick = r.events[i].serverTick
       /\ r.events[i].type = "END" =>
            \E s \in 1..(i - 1) :
              /\ r.events[s].type = "START" /\ r.events[s].course = r.events[i].course
              /\ \A k \in (s + 1)..(i - 1) : r.events[k].type # "START"

Begins(e) == e.type = "START" /\ e.course \in KnownCourses
Stops(e)  == e.type \in {"END", "STOP"}

\* What the time shown needs besides: the map has the courses that runs ended on,
\* a pause in a run is over before the recording is, and no tick is missing
\* while a run is on.
Timeable(r) ==
  /\ \A i \in DOMAIN r.events :
       /\ r.events[i].type = "END" => r.events[i].course \in KnownCourses
       /\ r.events[i].type = "PAUSE" =>
            \/ \E j \in (i + 1)..Len(r.events) :
                 r.events[j].type = "RESUME" \/ Stops(r.events[j]) \/ Begins(r.events[j])
            \/ \E j \in 1..(i - 1) : /\ Stops(r.events[j])
                                     /\ \A k \in (j + 1)..(i - 1) : ~Begins(r.events[k])
  /\ \A t \in 1..(Len(r.ticks) - 1) :
       \/ r.ticks[t + 1].serverTick = r.ticks[t].serverTick + Interval
       \/ \A i \in DOMAIN r.events :
            Begins(r.events[i]) /\ r.events[i].serverTick <= r.ticks[t].serverTick =>
              \E j \in (i + 1)..Len(r.events) :
                Stops(r.events[j]) /\ r.events[j].serverTick <= r.ticks[t].serverTick

ASSUME ReplaysAssumption ==
  /\ \A f \in Files : WellFormed(Recording[f]) /\ (Recording[f].map = "current" => Timeable(Recording[f]))
  /\ OnDisk \subseteq Files /\ IsFiniteSet(OnDisk)
  /\ Bounds \subseteq [asked : SUBSET Files, loads : Nat, curtime : Nat] /\ Ages \subseteq Nat
  /\ DefaultMode \in KnownModes

VARIABLES
  load,      \* g_loadStatus and g_cancelLoad
  loadThread, \* g_loadThread: the section it is at, its file and result
  replay,    \* g_currentReplay
  bot,       \* the replay bot is on the server
  mode,      \* and its mode
  curtime,   \* the clock of the map, in ticks
  began,     \* history: its time when the replay was begun
  present,   \* the players
  loads,     \* bound: how many there were
  bound      \* those of this behaviour, one of Bounds

playVars == <<replay, bot, mode, curtime, began>>
loadVars == <<load, loadThread>>
allVars  == <<watchVars, loadVars, playVars, present, loads, bound>>

\* FreeReplayData: *replay = {}.  A startTime of 0 is that of no run.
Empty == [file |-> NoFile, ticks |-> <<>>, playing |-> FALSE, replayPaused |-> FALSE, tick |-> 1,
          event |-> 1, course |-> NoCourse, startTime |-> 0, paused |-> FALSE, checkpoint |-> ZeroValue]

NoThread == [at |-> "none", file |-> NoFile, ticks |-> <<>>]
Idle == [state |-> "Idle", cancel |-> FALSE, asker |-> NoPlayer, completed |-> NoThread]

PlayInit ==
  /\ load = Idle /\ loadThread = NoThread
  /\ replay = Empty /\ bot = FALSE /\ mode = DefaultMode /\ curtime = 1 /\ began = 1
  /\ present = Players /\ loads = 0 /\ bound \in Bounds

\* The part of a recording that is read from its file.
Ticks(f)  == ReadTickDataCompressed(WriteTickDataCompressed(Recording[f].ticks))
Events(f) == Recording[f].events

------------------------------------------------------------------------------
(* Loading *)

\* !replay: by the whole UUID, or by a part of it that one listed replay matches.
\* PrepareAsyncLoad drops the result and the callbacks of a load that ended in
\* this frame.
LoadReplay ==
  /\ loads < bound.loads
  /\ load.state # "Loading"
  /\ \E p \in present, f \in bound.asked :
       /\ loads' = loads + 1
       /\ load' = [state |-> "Loading", cancel |-> FALSE, asker |-> p, completed |-> NoThread]
       /\ loadThread' = [at |-> "open", file |-> f, ticks |-> <<>>]
  /\ UNCHANGED <<playVars, present, bound, watchVars>>

\* !rpcancelload: told "Loading Cancelled", whatever the thread still does.
CancelReplayLoad ==
  /\ load.state = "Loading"
  /\ load' = [load EXCEPT !.cancel = TRUE]
  /\ UNCHANGED <<loadThread, playVars, present, loads, bound, watchVars>>

\* The thread opens the file, then reads section by section; before each it
\* looks at g_cancelLoad.
After == [open |-> "header", header |-> "ticks", ticks |-> "weapons", weapons |-> "events", events |-> "valid"]

Fails == loadThread' = [loadThread EXCEPT !.at = "invalid"]
ReadSection ==
  /\ loadThread.at \in DOMAIN After
  /\ IF \/ loadThread.at = "open" /\ loadThread.file \notin disk
        \/ loadThread.at # "open" /\ (load.cancel \/ loadThread.at = Recording[loadThread.file].damaged)
     THEN Fails
     ELSE loadThread' = [loadThread EXCEPT !.at = After[@],
                                       !.ticks = IF loadThread.at = "ticks" THEN Ticks(loadThread.file) ELSE @]
  /\ UNCHANGED <<load, playVars, present, loads, bound, watchVars>>

\* HandleAsyncResult: the flag is looked at once more, then a failure sets the
\* state (and its message, for the player), a success the result before the state.
HandleAsyncResult ==
  /\ loadThread.at \in {"valid", "invalid"}
  /\ IF load.cancel \/ loadThread.at = "invalid"
     THEN load' = [load EXCEPT !.state = "Failed"] /\ loadThread' = NoThread
     ELSE load' = load /\ loadThread' = [loadThread EXCEPT !.at = "done"]
  /\ UNCHANGED <<playVars, present, loads, bound, watchVars>>

StoreResult ==
  /\ loadThread.at = "done"
  /\ load' = [load EXCEPT !.completed = loadThread, !.state = "Completed"]
  /\ loadThread' = NoThread
  /\ UNCHANGED <<playVars, present, loads, bound, watchVars>>

\* The success callback: the asker must still be there and the replay be one of
\* this map.  Spawning the bot may fail; a bot that is there is kept.
OnLoaded(r) ==
  IF load.asker \in present /\ Recording[r.file].map = "current"
  THEN /\ bot' \in {bot, TRUE}
       /\ replay' = [r EXCEPT !.playing = TRUE]
  ELSE replay' = r /\ bot' = bot

\* Once a frame.  A completed load replaces the current replay whatever becomes
\* of the callback.
ProcessAsyncLoadCompletion ==
  /\ load.state \in {"Completed", "Failed"}
  /\ IF load.state = "Completed"
     THEN OnLoaded([Empty EXCEPT !.file = load.completed.file, !.ticks = load.completed.ticks])
     ELSE UNCHANGED <<replay, bot>>
  /\ mode' = IF bot' # bot THEN DefaultMode ELSE mode
  /\ began' = IF load.state = "Completed" THEN curtime ELSE began
  /\ load' = [load EXCEPT !.state = "Idle", !.completed = NoThread]
  /\ UNCHANGED <<loadThread, curtime, present, loads, bound, watchVars>>

------------------------------------------------------------------------------
(* Playing *)

Switched(m, to) == IF to \in KnownModes THEN to ELSE m

\* HandleTimerEvent and HandleModeChangeEvent on s = [replay, mode].
Started(r, e) == [r EXCEPT !.course = e.course, !.startTime = curtime - e.time, !.paused = FALSE]
Ended(r) == [r EXCEPT !.course = NoCourse, !.startTime = 0]
Handle(s, e) ==
  CASE e.type = "START"  -> IF e.course \in KnownCourses THEN [s EXCEPT !.replay = Started(@, e)] ELSE s
    [] e.type = "END"    -> IF /\ e.course \in KnownCourses /\ s.replay.startTime # 0
                               /\ e.course = s.replay.course
                            THEN [s EXCEPT !.replay = Ended(@)] ELSE s
    [] e.type = "STOP"   -> IF s.replay.startTime # 0 THEN [s EXCEPT !.replay = Ended(@)] ELSE s
    [] e.type = "PAUSE"  -> [s EXCEPT !.replay.paused = TRUE]
    [] e.type = "RESUME" -> [s EXCEPT !.replay.paused = FALSE]
    [] e.type = "MODE"   -> [s EXCEPT !.mode = Switched(@, e.mode)]
    [] OTHER             -> s

\* How many of a replay's events there were by a server tick: they are in order.
EventsBy(f, serverTick) == SelectLastInSeq(Events(f), LAMBDA e : e.serverTick <= serverTick)

\* CheckEvents: the events up to the tick's, from currentEvent on.
Due(r) == SubSeq(Events(r.file), r.event, EventsBy(r.file, r.ticks[r.tick].serverTick))
CheckEvents(r) ==
  LET due == Due(r)
      s   == FoldLeft(Handle, [replay |-> r, mode |-> mode], due)
  IN  [s EXCEPT !.replay.event = @ + Len(due)]

\* startTime is carried along while a pause, of the run or of the replay,
\* holds the time: one that is not positive is taken for none.
HoldTime(r) == IF r.startTime > 0 /\ (r.replayPaused \/ r.paused) THEN [r EXCEPT !.startTime = @ + Interval] ELSE r

OnPhysicsSimulatePost ==
  /\ bot /\ replay.playing
  /\ curtime < bound.curtime /\ curtime' = curtime + Interval
  /\ IF replay.replayPaused THEN replay' = HoldTime(replay) /\ UNCHANGED <<bot, mode>>
     ELSE LET s    == CheckEvents([replay EXCEPT !.checkpoint = replay.ticks[replay.tick].checkpoint])
              last == replay.tick = Len(replay.ticks)
          IN  /\ mode' = s.mode
              /\ bot' = ~last
              /\ replay' = [HoldTime(s.replay) EXCEPT !.tick = @ + 1, !.playing = ~last]
  /\ UNCHANGED <<began, loadVars, present, loads, bound, watchVars>>

\* The frames of the map go on without a bot.
FramesWithoutBot ==
  /\ ~(bot /\ replay.playing)
  /\ curtime' \in {t \in Ages : curtime < t /\ t <= bound.curtime}
  /\ UNCHANGED <<replay, bot, mode, began, loadVars, present, loads, bound, watchVars>>

------------------------------------------------------------------------------
(* Seeking *)

ResetReplayState(r) ==
  [Empty EXCEPT !.file = r.file, !.ticks = r.ticks, !.playing = r.playing, !.tick = r.tick]

\* The first tick that is not before an event's.
TickAt_After(r, serverTick) ==   \* mutant: the first tick after it
  SelectInSeq(r.ticks, LAMBDA t : t.serverTick > serverTick)
TickAt(r, serverTick) == SelectInSeq(r.ticks, LAMBDA t : t.serverTick >= serverTick)
GameTime(r, i) == r.ticks[i].serverTick * Interval

\* One event of ReprocessEventsUpToTick.  x is the replay and the mode with the
\* variables of the loop: the time paused so far, and where a pause began.
Reprocess(x, e, target) ==
  CASE e.type = "START" /\ e.course \in KnownCourses ->
         [x EXCEPT !.replay = Started(@, [e EXCEPT !.time = @ + GameTime(x.replay, target) - e.serverTick]),
                   !.active = TRUE, !.since = -1, !.total = 0]
    [] e.type \in {"END", "STOP"} -> [x EXCEPT !.replay = Ended(@), !.active = FALSE, !.since = -1]
    [] e.type = "PAUSE" ->
         [x EXCEPT !.replay.paused = TRUE, !.since = IF x.active /\ @ = -1 THEN TickAt(x.replay, e.serverTick) ELSE @]
    [] e.type = "RESUME" ->
         [x EXCEPT !.replay.paused = FALSE, !.since = IF x.active THEN -1 ELSE @,
                   !.total = IF x.active /\ x.since # -1
                             THEN @ + GameTime(x.replay, TickAt(x.replay, e.serverTick)) - GameTime(x.replay, x.since)
                             ELSE @]
    [] e.type = "MODE" -> [x EXCEPT !.mode = Switched(@, e.mode)]
    [] OTHER -> x

\* The replay was reset before, so currentEvent is the first: every event up to
\* the target is processed again, forward or backward.  A pause that extends
\* past the target is counted when an event follows it; none is where the run's
\* startTime is not positive, as on a map that is younger than the run.
ReprocessEventsUpToTick(r, target) ==
  LET past  == SubSeq(Events(r.file), 1, EventsBy(r.file, r.ticks[target].serverTick))
      back  == target <= r.tick \/ r.tick = 1
      start == [replay |-> r, mode |-> IF back THEN DefaultMode ELSE mode,
                active |-> FALSE, since |-> -1, total |-> 0]
      x     == FoldLeft(LAMBDA y, e : Reprocess(y, e, target), start, past)
      more  == IF Len(past) < Len(Events(r.file)) /\ x.since # -1 /\ x.active
               THEN GameTime(r, target) - GameTime(r, x.since) ELSE 0
  IN  [replay |-> [x.replay EXCEPT !.event = Len(past) + 1,
                                   !.startTime = IF @ > 0 THEN @ + x.total + more ELSE @,
                                   !.checkpoint = r.ticks[target].checkpoint],
       mode |-> x.mode]

\* !rpgoto, !rpseek and !rpgototick, absolute or relative: a tick of the replay.
\* Without the bot the replay is reset and nothing is processed.
NavigateReplay ==
  /\ present # {} /\ replay.playing
  /\ \E target \in DOMAIN replay.ticks :
       LET r == ResetReplayState(replay)
           s == IF bot THEN ReprocessEventsUpToTick(r, target) ELSE [replay |-> r, mode |-> mode]
       IN  replay' = [s.replay EXCEPT !.tick = target] /\ mode' = s.mode
  /\ UNCHANGED <<bot, curtime, began, loadVars, present, loads, bound, watchVars>>

\* !rppause
ToggleReplayPause ==
  /\ present # {} /\ replay.playing
  /\ replay' = [replay EXCEPT !.replayPaused = ~@]
  /\ UNCHANGED <<bot, mode, curtime, began, loadVars, present, loads, bound, watchVars>>

\* A new round kicks the bot, and so may a command of the server: the replay is
\* still said to be playing.
OnRoundStart ==
  /\ bot
  /\ bot' = FALSE
  /\ UNCHANGED <<replay, mode, curtime, began, loadVars, present, loads, bound, watchVars>>

\* The map begins anew, without the bot, and with it its clock.
MapBegins ==
  /\ bot' = FALSE /\ curtime' = 1
  /\ UNCHANGED <<replay, mode, began, loadVars, present, loads, bound, watchVars>>

PlayerLeaves ==
  /\ \E p \in present : present' = present \ {p}
  /\ UNCHANGED <<loadVars, playVars, loads, bound, watchVars>>

------------------------------------------------------------------------------
Watcher == (Start \/ FirstScan \/ WatchLoop \/ Arrives \/ TimePasses)
           /\ UNCHANGED <<loadVars, playVars, present, loads, bound>>

\* A restart of the server takes the replay system with it.
Restart ==
  /\ StopWatching
  /\ load' = Idle /\ loadThread' = NoThread
  /\ replay' = Empty /\ bot' = FALSE /\ mode' = DefaultMode /\ curtime' = 1 /\ began' = 1
  /\ UNCHANGED <<present, loads, bound>>

ReplaysInit == ArchiveInit(OnDisk) /\ PlayInit

ReplaysNext ==
  \/ LoadReplay \/ CancelReplayLoad
  \/ ReadSection \/ HandleAsyncResult \/ StoreResult
  \/ ProcessAsyncLoadCompletion
  \/ OnPhysicsSimulatePost \/ FramesWithoutBot \/ NavigateReplay \/ ToggleReplayPause \/ OnRoundStart \/ MapBegins
  \/ PlayerLeaves \/ Watcher \/ Restart

ReplaysSpec == ReplaysInit /\ [][ReplaysNext]_allVars

------------------------------------------------------------------------------
(* What has happened by tick i of a recording, read off the recording itself:
   the references for what the bot shows. *)

\* The events that playing has come to: those before currentEvent.
Behind == 1..(replay.event - 1)
LastOf(types) ==
  LET at == {k \in Behind : /\ Events(replay.file)[k].type \in types
                            /\ Events(replay.file)[k].type = "START" =>
                                 Events(replay.file)[k].course \in KnownCourses}
  IN  IF at = {} THEN 0 ELSE Max(at)

\* Ticks from the start up to i that were spent in a pause begun after the start.
HeldTicks(start, i) ==
  {t \in DOMAIN replay.ticks : t < i /\
     \E k \in Behind :
       /\ k > start /\ Events(replay.file)[k].type = "PAUSE"
       /\ Events(replay.file)[k].serverTick <= replay.ticks[t].serverTick
       /\ \A n \in Behind : n > k /\ Events(replay.file)[n].serverTick <= replay.ticks[t].serverTick
                              => Events(replay.file)[n].type # "RESUME"}

\* The bot on the server plays an undamaged replay of this map, with every tick
\* as it was recorded: whatever was loaded, cancelled or removed meanwhile.
PlaybackIsRecording ==
  bot /\ replay.playing =>
    /\ Recording[replay.file].damaged = "none" /\ Recording[replay.file].map = "current"
    /\ replay.ticks = Recording[replay.file].ticks
    /\ replay.tick \in DOMAIN replay.ticks

\* Played through or reached by seeking, in any order and with any pauses of the
\* replay: the run shown is the one that was on, with the time it had at that
\* tick, and the bot has the mode it was run in.  Where the map was not yet as old
\* as the run when the replay was begun, a seek may give a startTime that is not
\* positive; then, and only then, the time may be another.
TimeIsRecorded ==
  bot /\ replay.playing =>
    LET start == LastOf({"START"})
        on    == start # 0 /\ LastOf({"END", "STOP"}) < start
        e     == Events(replay.file)[start]
        i     == replay.tick
        first == Min({t \in DOMAIN replay.ticks : replay.ticks[t].serverTick >= e.serverTick})
        whole == e.time + (i - first)
    IN  /\ replay.startTime # 0 => on
        /\ on => /\ replay.course = e.course
                 /\ began > whole => replay.startTime > 0
                 /\ replay.startTime > 0 =>
                      curtime - replay.startTime = whole - Cardinality(HeldTicks(start, i))
        /\ LastOf({"MODE"}) # 0 => mode = Switched(mode, Events(replay.file)[LastOf({"MODE"})].mode)

\* The watcher's promise, on the whole system.
FastestKept == [][\A f \in disk \ disk' : Spared(f, disk')]_allVars
==============================================================================
