# A verification of cs2bhop

cs2bhop is a plugin for a Counter-Strike 2 server: it times players who run
maps of bunny-hop courses, records their runs as replays, stores them in a
database and reports them to a global service. This directory holds TLA+
models of the parts of it that keep state over many steps, the TLC
configurations that check them, and TLAPS proofs of what matters most.
Paths below are relative to `src/src/bhop/` unless they start with `src/`.

## The system

All of the game's logic runs on one thread, which the engine calls once a tick
and once a frame. Four kinds of other threads exist: that of the WebSocket, the
worker of AsyncFileIO, one thread per replay being serialized, and those of
the database library. They hand callbacks to the game's thread.

| Component | State | Operations | Talks to |
|---|---|---|---|
| timer (`timer/bhop_timer.*`) | running, time, course, counters of checkpoints and stages, pause, caches of bests and records | start, end, stop, pause, resume, zone touches, each tick | zones call it; listeners (recording, quiet, HUD) are called by it; it creates submissions |
| trigger service (`trigger/`) | the triggers a player touches, what was fired for each, scheduled pushes | start, touch, end, per tick | engine, timer |
| mapping API (`mappingapi/`) | the courses of the map, their counts and database ids; the triggers of the round | entities spawn, round start | trigger service, database |
| checkpoint service (`checkpoint/`) | saved locations, undo, custom start | save, load, undo, teleport | sets the timer's time |
| movement (`src/src/movement/`) | ground, ladder and jump flags of a player, from this movement and the last | hooks around the game's movement | timer, modes, styles, triggers |
| modes, styles (`mode/`, `style/`) | registries with database ids and conflicts, a player's mode and styles | register, unregister, switch, add, remove; settings and filters per movement | timer, database, options |
| options, profile (`option/`, `profile/`) | preferences, how far they are loaded, the rating shown | load from two places, set, save at the disconnect | database, API, modes, styles |
| recording service (`recording/bhop_recording.*`, `recorders.cpp`, `buffer.cpp`, `events.cpp`) | circular recorder, run recorders, events, weapons | each tick and command, timer events, flush, save | writer, AsyncFileIO |
| circular buffer (`src/src/utils/circularfifobuffer.h`) | array, two positions, count | write, peek, read, advance, resize | recording service |
| replay file writer (`recording/filewriter.cpp`) | count of threads, completed callbacks | queue, frame, stop | recorder, submission |
| AsyncFileIO (`src/src/utils/async_file_io.*`) | task queue, flags, results | queue, drain, frame, stop | recorder, submission |
| replay system (`replays/`) | files found, archive index, the load, the replay and its timer, the bot | scan, archive, load, cancel, play, seek | files, API names of courses and modes |
| run submission (`timer/submission.*`) | one state machine per finished run | API answer, replay, timeouts, database answer, collection | API, database, files |
| global API (`global/`) | connection state, current map, two callback queues | connect, handshake, join, leave, map, record | WebSocket, submission |
| database (`db/`) | connection, migrations, set-up flags, transactions of an external library | setup, save, rename, queries | everything with an id |
| timer queries (`timer/queries/`) | requests that wait for up to three answers | per frame | database, API |
| the rest | presentation, zone editing, telemetry | | |

`PROJECT.json` lists every component with what is modelled of it, and every
hazard with its line. What is hard:

* *order of answers*: a run's replay, the API's answer, two timeouts and two
  database transactions; the preferences of two places and the player's own
  choices; the ids of a map's courses and the next map; in any order;
* *threads*: the WebSocket's thread writes a state the game's thread also
  writes; Stop and Drain wait on condition variables; the watcher and a load
  work on files and replays the game's thread uses;
* *zones and commands*: a timer with a dozen ways to start, stop and change its
  course, and counters in place of the set of zones passed;
* *lists that change while they are walked*, with entities that vanish;
* *flags compared one tick later*: ground, ladders, jumps;
* *boundaries*: the flush interval, half ticks, stage numbers, a full ring;
* *lifetimes*: players who leave, plugins that go, maps that change and a server
  that unloads between any two of these steps.

## What makes each part correct

* timer: a finished run went through its course's zones, on one course, and a
  complete run can be finished; exactly one recorder follows a running timer,
  and every submission has a replay; a run is compared with the best the
  player wants that is there, and told once that it missed it.
* triggers and movement: what the timer hears matches what the player does:
  starts and ends of touches alternate, nobody stays in a zone he left, and a
  start in the air comes from a jump that was earned.
* maps: a course counts its zones once, and carries the id of its own row.
* a player's choices stay chosen, whatever is loaded late, and no two of his
  styles exclude each other; a movement runs under its own settings.
* run submission: a run is inserted once, its row and its file end up with one
  name, and it is announced and collected whatever does not answer.
* global API: one hello per connection, the API knows who plays and what map
  is played, a connection is completed, a record sent is answered once.
* AsyncFileIO: a queue, in order, whose Drain means what it says, and a Stop
  that leaves nothing undone.
* replay file writer: Stop waits; what was queued is finished.
* recorder: a replay is what was recorded, whatever was flushed meanwhile.
* replay system: the bot plays what was recorded, a seek arrives where playing
  would have, and the fastest replays are kept.
* queries: nothing waits for an answer that nobody will give.

## Modules

| Module | Models | State and actions |
|---|---|---|
| `Zones` | courses and zones as the timer sees them | the counts of a course; the zone touches it gives rise to |
| `Timer` | timer, zone dispatch, timer listeners, creation of recorders and submissions | one action per zone callback, command and tick; physics is an input |
| `RunContract` | what a run is, with no timer (abstract) | refined by `Timer` |
| `Comparison` | caches of bests and records, compare target, missed time | operators on the record of a player; checked over sequences of calls |
| `Saveloc` | checkpoint service, EXTENDS `Timer` | save, teleport, undo, custom start |
| `Triggers` | touch list, mapping API events, pushes | a tick is five steps in the order of the hooks; what a trace hits is an input; the loops that lose their place are loops |
| `Movement`, `Styles`, `ModeTicks` | the movement hooks of several players, what styles do to settings and inputs, how modes divide ticks | one step per hook; the game's own movement is nondeterministic; filters and slots are operators |
| `MappingApi`, `LocalDatabase` | entities, courses and round starts as operators on a map; the connection, migrations and the queue of transactions | one action per hook of a map change and per answer; any query may fail |
| `Session` | a slot and the players who take it: options, modes, styles, rating, and the plugins | one action per answer, command and hook; the functions that call each other are operators on `pl` |
| `Queries` | requests for times, EXTENDS `LocalDatabase` | create, one action per answer, CheckRequests; the map may change and the player leave |
| `RunSubmission` | submissions, with the API, the database, the file tasks and the recorder's breather as they answer | one action per callback; CheckAll as one action |
| `GlobalService` | the service's handlers on two threads | a handler of the WebSocket is split where the other thread can cut in (`pc`); the two callback queues are sequences |
| `FileQueue` | what AsyncFileIO promises (abstract) | refined by `AsyncFileIO`, in `Files` |
| `AsyncFileIO` | worker, Drain, RunFrame, Stop | one step per critical section; a thread on a condition variable sleeps until notified, or wakes for nothing |
| `ReplayFileWriter` | the serializing threads, their count, Stop, unload | evaluation of the predicate and the wait are two steps, since the count is not under the mutex |
| `Files` | the two together, from frames to the unload | EXTENDS the writer, INSTANCEs the file IO: a thread of the writer is one that drains |
| `Ring` | CFIFOCircularBuffer | operators, one per member function |
| `Recorder` | circular recorder, recorders, chunks, threads that put a replay together | one action per event; a tick pushes, flushes and counts in one action |
| `ReplayData` | mode and style events, trimming, flat storage of subtick moves | operators; checked over every short history |
| `Compression` | delta coding of ticks and commands | operators; used by `Replays` |
| `Archive`, `Replays` | the watcher's thread; loads, bot, playback, seeking | the scan is one step; a load is a step per section, so that a cancel can cut in |
| `TimerProofs`, `SubmissionProofs`, `GlobalProofs`, `FilesProofs`, `SessionProofs`, `MovementProofs`, `RecorderProofs`, `MapProofs` | theorems | |
| `MC...` | instances for TLC, and checks of operators over bounded inputs (named ASSUMEs) | |

Variables keep the names of the source's fields. Auxiliary variables (what was
really passed, wanted, done) are marked as such; no action's guard reads them.
Definitions marked *mutant* are not used by the specifications: each is a
plausible error in the definition whose name it extends, and `PROJECT.json`
says which property finds it.

## Runs

| Run | Shows | Bounds | States |
|---|---|---|---|
| Timer | RunComplete, CompleteRunEnds, one recorder per running timer, a replay per submission, refinement of RunContract; what a run is compared with (ASSUMEs) | one course, two checkpoints and two stages, the stage commands; runs of one tick, two of them; sequences of five calls | 455,424 |
| Saveloc | the timer never runs without a course, with the saved locations of a TAS player | two positions, one course | 63,232 |
| Triggers | starts and ends alternate, the list is what the player touches, cooldowns | five triggers of four kinds, one that may vanish, four overlaps; two ticks | 367,316 |
| Movement | ground events, earned starts, settings of mode and styles; filters and ticks of modes (ASSUMEs) | two players of two modes, one of whom leaves the ground; a style of gravity and one of speed | 2,250,208 |
| MapSetup | ids of courses, modes and styles, counts of zones, nothing forgotten | three maps (with the mapping API, without, broken), two loaded, two rounds each, one failed query or unloaded plugin | 484,420 |
| Session | choices, conflicts, rating | two players in one slot, two modes, two exclusive styles; two commands, failures or unloads | 1,841,572 |
| Queries | no request waits for nobody | two maps, one player, one mode, one request of any kind, one mishap | 1,550,674 |
| Submission | a run is inserted, announced and collected, its names agree, and nothing is collected before it is saved | one run, with every answer or none, a leave and a map change | 3,608 |
| Global | one hello per connection, the API knows the players and the map, the handshake completes, records are answered | three connections, enough for a callback of the first to meet the third; one player who rejoins, two maps that start in any state but HandshakeInitiated, one record | 1,140,052 |
| Files | refinement of FileQueue, Stop waits, waits return, callbacks run | two replays, one on disk and the other silent, two tasks | 58,238 |
| Recorder | complete replays, no chunk left, commands in order; the ring, events and subtick moves (ASSUMEs) | a flush every second tick: one recorder with two chunks, a remainder and three commands in four ticks, or two that share the write queue with two commands each in three ticks (`bound`); rings of two, so that the third of either is dropped; a disk that fails | 1,993,817 |
| Replays | the bot plays what was recorded, the time after any seek, the fastest are kept | five files, one retention, one stop of the watcher; one load on a map up to seven ticks old, so that a seek meets maps younger and older than the run, or two loads of different recordings while the clock stands | 487,424 |

A bound is a CONSTANT that appears in a guard (MaxTime, MaxRuns, MaxOpens,
MaxTick, ...). They are small because what goes wrong here needs few steps of
many kinds: each was chosen as the least at which every action fires and every
mutant is found. Bounds that are real in the code (FLUSH_INTERVAL_TICKS, the
capacities of the rings, MaxCp) are parameters of their own.
`CHECK_DEADLOCK FALSE` is given where the system ends or a bound stops it.
The type invariants are not among the properties of the runs: those of Timer,
RunSubmission, GlobalService, ReplayFileWriter, Recorder, LocalDatabase and
Triggers are theorems, those of Movement, Session and Queries are parts of the
invariants their theorems rest on, and the others were checked by TLC apart from
the runs.

## Deviations

Places where the code is not what a comment, a message or its own purpose says.
The first table is of statements TLC refutes when they are added to the run
named, with the constants named; the properties of the runs leave out exactly
these cases, by a constant or in their statement.

| Statement | Run | Because |
|---|---|---|
| a run ends on the course it began on (`src/translations/cs2bhop-timer.phrases.txt:205`; RunComplete, KeepsContract) | Timer, two courses | touching another course's start zone sets the course of the run under way (`trigger/callbacks.cpp:344`) |
| a checkpoint counts once (RunComplete, `timer/bhop_timer.cpp:98`) | Timer, `StartOffsets` with -1 | a checkpoint entered in the tick the run started inside has a negative time, that of one not reached |
| a complete run ends (CompleteRunEnds; `src/mapping_api/game/csgo_core/csgo_internal.fgd:33`, "Stage numbers must be sequential, starting from 1.") | Timer, `StageNums` from 1 | TimerEnd asks for `currentStage - 1 == stageCount` (`timer/bhop_timer.cpp:279`): the last of n stages has to be n + 1 |
| SubmissionsHaveReplays (`timer/bhop_timer.cpp:330`) | Saveloc, `Tas = FALSE`, `MaxTime = 2` | an undo to where the player stands calls SetTime (`timer/bhop_timer.h:249`), which starts the timer with no recorder |
| every replay has the name of its row (`timer/submission.cpp:290`) | Submission | a player who leaves in the breather has the replay written under the local name, and the submission never hears of it (`recording/events.cpp:266`) |
| every record that was queued is answered (`global/bhop_global.h:130`) | Submission, `MapChanges = FALSE` | a record queued during the handshake is given up in the next frame (`global/bhop_global.h:181`), and its submission waits without a timeout |
| every run is inserted (`timer/submission.cpp:183`) | Submission | a map change clears a submission that waits for the API (`src/src/utils/hooks.cpp:709`) |
| an open connection sends its hello (`global/bhop_global.h:258`) | Global | the connection opens before Init stores Initialized (`global/bhop_global.cpp:146`); or a reconnection meets the handshake of the connection before |
| Disconnected is final (`global/bhop_global.h:268`) | Global | the two handshake callbacks store their state whatever it is (`global/bhop_global.cpp:571`) |
| a socket exists unless the state is Uninitialized (`global/bhop_global.h:298`) | Global, `Configured = FALSE` | Init returns early in Disconnected (`global/bhop_global.cpp:99`) |
| MapIsCurrent | Global, `AnyTime = TRUE` | a map that starts between the hello and its answer is never sent |
| Stop of the writer returns (`recording/bhop_recording.h:216`) | Files | the count reaches zero between Stop's check and its sleep, without the mutex (`recording/filewriter.cpp:29`) |
| no thread is left after Stop (the same line) | Files | the thread that made the count zero still notifies, and destroys its recorder, whose destructor drains a file IO that is deleted by then |
| a chunk's ticks have their own subtick counts (`recording/recorders.cpp:227`) | Recorder | the chunk is flushed between a tick and its count (`recording/bhop_recording.h:131`), so that from then on the counts are those of the tick before |
| the weapon table has every weapon (`recording/bhop_recording.cpp:487`) | Recorder, two weapons | only ticks still in memory are looked at |
| the checkpoints are embedded (`recording/bhop_recording.h:310`) | Recorder | CheckCheckpoints writes to tick data that was already pushed (`recording/events.cpp:322`) |
| starts and ends are symmetric (`trigger/callbacks.cpp:105`), of triggers that were killed too | Triggers | of what vanished only the end that was due is fired; modifiers keep what they had set |
| EndTouchAll ends every touch | Triggers | it walks forward while EndTouch removes (`trigger/bhop_trigger.cpp:197`): every second one is left until the next update |
| conflicting styles are never both active | Session | Unpause registers a style again without its list of conflicts |
| a mode or style keeps its id | MapSetup | RegisterMode and RegisterStyle overwrite the whole info (`mode/bhop_mode_manager.cpp:188`); UpdateModeDatabaseID adds an unknown mode with id -1, its names in the wrong fields and the id lost (`mode/bhop_mode_manager.cpp:115`) |

The second list was read from the code while modelling it.

*Maps and courses.* stageXor is computed and never checked
(`mappingapi/bhop_mappingapi.cpp:947`), stageCount counts triggers and not
stages, and the first invalid course ends the loop over the courses (line 1023).
Between the answers of SetupMap and SetupCourses a run is saved under the course
ids of the map before; an answer of the map before enters its ids into courses
of the same name until the new answer comes; a SetupCourses that fails is never
tried again. A course descriptor without a maximum velocity is refused
(`mappingapi/bhop_mappingapi.cpp:507`), which the module counts among those
without a name. An unknown driver leaves a null connection
(`db/setup_database.cpp:44`).

*Movement.* A vel style's Cleanup announces 3500 while the course's limit is in
force until a start zone is touched, and touching one announces the course's
limit with a vel style on (`trigger/callbacks.cpp:353`); a player with neither
is moved under what the player before him left in sv_maxvelocity. A modifier's
gravity is not taken back at its end. The gravity styles act while paused, which
`trigger/mapping_api.cpp:14` denies. Who is teleported off a ladder or off the
ground into the air has a valid jump from the next tick on, when his leaving it
is noticed (`timer/bhop_timer.cpp:694`, :706); StartIsEarned allows that.
lastKnownMoveType outlives a Reset; grabbing a ladder from the ground fires no OnChangeMoveType. tpmVelocity is
multiplied with itself in `mode/bhop_mode.cpp:553`. After a double tick the
slots of Source divide the next five ticks, where a comment speaks of two in 64.
Commands are recorded before the styles filter them.

*Preferences and plugins.* isSetUp outlives a disconnect: the next player of the
slot who leaves before his preferences came overwrites them with none
(`db/save_prefs.cpp:10`). The server's default styles mark the preference as
the user's own, so that the API's does not override it
(`option/bhop_option.cpp:210`). A player authorized before the database is ready
is never set up. UnregisterMode and UnregisterStyle use one `i` for two nested
loops. RemoveStyle and ClearStyles leave the timer running. RequestRating keeps
the mode it asked for before if the API is not available.

*Queries.* The course "1" of a failed first-course query is assigned to the
parameter, not to the request (`timer/queries/base_request.cpp:238`). A local
answer to a run with styles never counts as received. The statuses are
uninitialized when the arguments are bad. `p` and `player` are documented
(`src/translations`) and not accepted (`timer/queries/base_request.h:25`). A
refused global query waits for the timeout. A style's database id is used as
the index of a bit (`timer/submission.cpp:154`).

*Bests.* ClearPBCache clears the local cache only, though course guids are used
again on every map: the global bests of the map before, and of the slot's previous
player, are compared with. A player set up before the courses have ids gets no
bests. A record without metadata keeps the zone times of the one before it, with
the new time. A preference of 5 is let through (`timer/bhop_timer.cpp:1350`) and
works as the highest type.

*Replays.* A load asked for between the end of another and the next frame drops
that one's result and callback; a completed load replaces the current replay
even if its player is gone; the state Failed is stored before its message; a
cancel after the last check is lost. OnRoundStart leaves playingReplay set with
no bot. The loading thread is detached and not joined at unload. In a seek an
end is applied whatever course is run, known or not, and when played only that
of the course that is run, stopTick is compared as an index though a
server tick was stored, a pause with no later event is not counted, and seeking
forward replays from the start. startTime is both the time and whether a run is
on: a seek sets it to the clock less the time of the run, which on a map younger
than the run is not positive, so that pauses are no longer held nor deducted
(`replays/playback.cpp:156`, :174; `replays/events.cpp:328`, :491) and the time
runs through them; at exactly 0 no run is shown and its end is not heard
(`replays/data.cpp:123`). A replay without ticks is accepted and then
indexed at 0. The watcher may archive both of two equal times, underflows when
the clock goes back, loses what it marked if stopped before its next loop, never
un-archives, and shows one row more than the limit.

*Recording.* On respawning after more than two minutes, TrimOldData drops events
that the ring's older ticks still need. BhopRecordingService::Reset leaves
earliestMode and earliestStyles of the map before. Weapons that were only in
flushed chunks are missing. A full event ring loses mode and style events
without updating what was before them. Resize to a smaller ring keeps the
oldest elements, and to none divides by zero.

## Fairness

* `RunSubmission`: frames are run and the clock advances (CheckAll, TimePasses),
  a recorder's breather ends, its thread finishes and a callback the game's
  thread was given runs. Nothing is assumed of the API and the database.
* `GlobalService`: the game's thread runs its callbacks, the network's thread
  opens and receives, and the API reads; connections that close need not open
  again unless the code asks for it.
* `Files`: the worker, each thread and the game's own waits go on when they can
  (weak fairness), as the system schedules threads; the two RunFrames are
  strongly fair, because they are called every frame: a game's thread that
  drains in every frame still passes by them. Once the file IO is deleted under
  a thread that drains, nothing is assumed of that thread. Waking for nothing,
  queuing and unloading are never assumed.

The other modules state safety only: their properties are about what may be
true when, and what they wait for (a database, a player) owes nothing.

## Proofs

Every theorem is of `Spec` or of an operator, on instances of any size; where a
hypothesis is needed beyond the named assumptions on the constants, it is named
here. The invariants were checked by TLC on the instance of their run first.

* `TimerProofs`. TypeCorrect, OneRecorder and ReplayPerSubmission, on every map
  and for every value of the bounds: RecInv is the types and the two properties
  together, because TimerEnd gives its submission a new UUID only if exactly one
  recorder is active while the timer runs. RunsAreComplete and TimerKeepsContract
  hold on maps of any courses and with starts inside a tick, as long as no step
  disturbs a run (Undisturbed): SameCourse, that no start zone of another course
  is touched in a run, and NotTooEarly, that no checkpoint is counted while the
  time is negative, which is the rest of the tick the run started in. These two
  steps are the first two deviations above; their invariant CountersTell says what
  each counter stands for: the checkpoint counter is the cardinality of the set of
  checkpoints with a time, and each stage number up to the current one is that of
  a stage passed. CourseIsKnown is about Saveloc, whose steps are the timer's and
  those of the checkpoint service: whatever is saved, undone or loaded, a running
  timer has a course.
* `SubmissionProofs`, for any runs. InsertedOnceHolds: OnceInv adds to the
  property that a run with an insert has localSubmitted set as long as its
  submission lives, and that a run whose record was not offered to the API yet
  has neither submission nor insert; Start, the API's answer, the replay and
  CheckAll may each be the one that inserts. CollectedAreSaved: SavedInv says
  what each flag of a live submission stands for (announced once, inserted if
  wanted, a file or a write of it queued), so that what lets CheckAll delete it
  also says that nothing is left to do; the walk that deletes is followed one
  submission at a time. NamesAlwaysAgree, provided that no UPDATE fails
  ("update" is not in Fails): for each run there is one name to which every
  rename, UPDATE and write on its way leads (NamesInv). An UPDATE that fails
  leaves the local name in the row, and nobody tries again.
* `GlobalProofs`. OneHelloHolds: the hello is sent in one step and the state
  stored in the next, so the invariant HelloInv adds that while the state is
  Connected, and no hello was just sent, the connection has not been greeted and
  none is in flight. PlayersAreKnown, for any players and any number of
  connections: whoever plays is known to the API, or a message that tells it is on
  its way, is being sent, or waits in whenConnected, where a callback that an
  earlier connection left behind cannot lose it. MapStaysCurrent asks that no step
  changes the map in the state HandshakeInitiated (MapWaits), the only one in
  which a map that starts is never announced (see Deviations); maps may start in
  all others, also while the hello is still to be sent. There is one token of the
  handshake (asking, hello on its way, answer on its way, answer being handled),
  the messages before it say nothing of maps, and after it the last of the map
  messages on their way names the current map.
* `FilesProofs`. StopWaitsHolds: m_activeThreads is the number of threads that
  have not counted themselves out, a fact about cardinalities of a finite set.
  QueueIsKept: AsyncFileIO implements FileQueue, where the task in the worker's
  hand is still the head of the queue; the invariant ties m_processing to the
  worker's place, bounds what each Drain waits for by what was queued, and says
  that the worker leaves only with nothing left. WriterIsKept: each step of the
  composition is one of the writer's or leaves it alone.
* `SessionProofs`. ChoiceIsKept, StylesNeverConflict and RatingShownFits, from one
  invariant, SessionIsSteady. A choice is made in one step and loaded over in
  others, so what is still to be loaded has to leave the fields alone that
  were set; the functions that call each other are followed on the record `pl`,
  one lemma for each. The assumption asks that conflicts are mutual, as the
  server's styles declare them; a style registered again without its list is
  excepted (see Deviations).
* `MovementProofs`. GroundIsHeard, StartsAreEarned and SettingsAreOwn for any
  number of players (settings of mode and styles; of starts in the air, those that
  StartIsEarned names), from MovementIsSteady, which says between which hooks of
  whose movement the global settings are whose. OnlyWForward and HSWHalfSideways
  for any command, and EveryTickDivided for 128t and any slots.
* `RecorderProofs`, for any recorders, weapons, capacities and intervals.
  RecorderTypes, NoChunkStays, CommandsAreMatched and ReplaysAreComplete, from
  RecorderInv: what was pushed to a recorder can be cut into as many pieces as it
  flushed, and the rest (Divided); each of its chunks, queued or on the disk, is
  the piece of its number, and the memory holds the rest. It says nothing of
  chunks that are missing, so a write that fails keeps it, and a recorder that
  flushed nothing has no chunk. Pieces joined with some left out are the commands
  with some left out (Thinned), still in order; with none left out they are all of
  it. That a recorder's chunks are gone for good when it is destroyed, and all read
  when the replay is put together, is what the two waits for the writes are for.
  For a ring of any capacity and elements, Write leaves a ring that holds the last
  `capacity` elements of what was written (WriteKeepsLatest), and Advance drops
  the oldest (AdvanceDropsOldest): the Suffix by which Recorder writes to its ring.
* `FilesProofs` also holds the codec's TickRoundTrip and CmdRoundTrip, for any
  fields, values and counter width: what is read after any tick is what was
  recorded. The counter's three ways of being written are three lemmas. A whole
  section of ticks comes back, of any length (SectionRoundTrip): the first tick
  that were read otherwise is read after one that was not.
* `FilesProofs`, the replay system, for any well-formed recordings and any loads,
  cancels, seeks, pauses and maps beginning anew at any age. PlaysTheRecording,
  from PlayInv: what the loading thread holds at each section, what a completed
  load holds and what is played are the same undamaged recording.
  TheFastestAreKept, from ArchiveInv: what is marked, in memory or in the index
  that survives a stop, has as many better replays on the disk as are kept; what
  arrives adds to them, and whatever a scan removes, enough of them stay: those
  with the fewest better than they (EnoughStay). TheTimeIsRecorded, from TimeInv:
  the bot is at an event, the run that is on is the one those before it say, and,
  while startTime is positive, its time is the time since its start less the ticks
  on which it was held; startTime is positive if the map was older than the run
  when the replay was begun (`began`). Playing adds a tick to both sides; seeking
  counts the same ticks from the events alone, one event after another. It is a
  theorem of the recordings named Timeable, to which the module's assumption
  limits those of the map that is played: the map has the courses that runs end
  on, a pause in a run is over before the recording is, and no tick is missing
  while a run is on. Outside it the code plays and seeks differently (see
  Deviations), so TheTimeIsRecorded says nothing of such recordings; the proofs of
  the two others do not use it.
* `MapProofs`, the database: DatabaseTypes, PluginsAlwaysHaveIds,
  NothingIsForgotten and IdsAreAlwaysOfTheMap, for any maps, entities, modes,
  styles and failures, from DatabaseInv. Each of these properties speaks of the
  time when the answers are in; the invariant says that until then they are on
  their way: a plugin without an id and a map without a row are asked for in the
  queue, or will be when the database becomes ready (PluginsAsked, SetUpAsked,
  ReadyFirst); the last question for courses in the queue is of the map that is
  played, so that a late answer of the map before is written over (CoursesAsked,
  LastIsOurs); and a migration is alone in the queue (Alone). The operators of the
  mapping API are folds over descriptors and entities, which are shown to keep
  courses well formed by induction over a set of numbers. RequestsWaitForAnswers:
  QueryInvariant shows that requests put queries into the queue and take answers
  from it without disturbing any of this, and that each request that waits for
  the database has its own query there.
* `MapProofs`, the triggers: EventsAlternate, PushesCoolDown and ListFollowsPlayer,
  for any triggers, filters, delays and cooldowns and any hits, from TriggersInv:
  what the mapping API was told of a living trigger, starts less ends, is what its
  tracker says; and the trigger's push event, applied or not, remembers its last
  push until it has cooled down, from the time of the movement under way on, so
  that no other event is made meanwhile. A loop whose body removes what it walks
  over is followed step by step (VisitOneGoesOn): the index and the length of the
  list together never exceed the length it began with, which is why EndTouchAll
  ends at least half of the list; the backward loop visits every tracker, and the
  zones may be ended because the time is even.

Only model-checked: everything about liveness and fairness, and ENABLED, which
are out of TLAPS's reach; the checks of operators over every short sequence
(Comparison, ReplayData, Ring's other functions); and CountsMatchZones of
LocalDatabase, which is true of well-formed maps only: on a map that numbers its
zones beyond the limit, names a stage twice or has an invalid course before the
others it fails, as the code does. The library's induction theorems take
operators, which the provers cannot instantiate; where a proof needs an
induction, it is over a set of numbers, whose least counterexample is refuted.
Assumptions on constants are named and evaluated by TLC.

## Not modelled, and why

* Positions, velocities, trigger geometry and the movement of a mode are real
  arithmetic of the engine; what depends on them is an input.
* SQL, JSON, protobuf and zstd encodings, texts and menus: wording and layout,
  or external libraries.
* HUD, quiet, beams, tips, FOV, language, telemetry, anticheat and the editing
  of zones: presentation, or counters nothing else reads.
* Writers of gravity other than a mode's and a style's: pausing and resuming
  (`timer/bhop_timer.cpp:512`, :604) and a modifier trigger
  (`trigger/mapping_api.cpp:17`); OwnSettings is of the others. The updates of the
  touch list by the mode in a movement (`mode/bhop_mode.cpp:44`, :573, :628):
  Triggers has the one of the tick.
* Heartbeat threads and Cleanup of the global service: their races are
  accesses to a deleted socket, of which a model says no more than that.
* Stage split times, goto and spectators, the time limit; style events during
  playback; weapons and the bot's body: left out of modules that model their
  components otherwise.

## Plan

Done, in this order: Timer, RunContract, Saveloc; RunSubmission; GlobalService;
AsyncFileIO, FileQueue; ReplayFileWriter; Recorder; proofs of the timer, the
service and the writer; Triggers; MappingApi and LocalDatabase; Session; Queries;
Archive, Compression and Replays; Movement, Styles and ModeTicks; Files; Ring and
ReplayData; Comparison; proofs of the ring, the codec and the styles; of the
file queue's refinement, Saveloc, Session, Movement, the names and the collection
of RunSubmission, the players and maps of GlobalService, the recorder, the local
database, the queries and the triggers; of the replay system.

Next, most important first:

1. Triggers composed with Timer, so that the zones a player is in are those of
   the touch list.
2. Heartbeats and Cleanup in GlobalService; stage split times in Timer.
