----------------------------- MODULE LocalDatabase -----------------------------
(***************************************************************************)
(* The local database as the plugin sets it up: the connection and its      *)
(* migrations, then at every map the map's row, and the rows of its         *)
(* courses, whose ids the courses of the mapping API receive.               *)
(*                                                                          *)
(* So are the ids of the modes and styles, whose plugins may be loaded      *)
(* before or after the database is there, unloaded and loaded again.        *)
(*                                                                          *)
(* A query is queued in the connection and answered in a later frame, in    *)
(* the order of the queue, or fails; a failure is only logged.  What the    *)
(* database holds is abstracted to the ids it gives out: a map's id is the  *)
(* map itself, a course's id is its map's with its name.                    *)
(***************************************************************************)
EXTENDS MappingApi

CONSTANTS
  MaxLoads,      \* bound: maps started
  MaxRounds,     \* bound: rounds of a map
  MaxMishaps,    \* bound: queries that fail, plugins unloaded
  Plugins,       \* the modes and the styles, as sequences of infos list them
  BuiltIn        \* the mode that is no plugin of its own

ASSUME LocalDatabaseAssumption ==
  /\ MaxLoads \in Nat /\ MaxRounds \in Nat /\ MaxMishaps \in Nat
  /\ Plugins \in Seq(ToSet(Plugins)) /\ BuiltIn \in ToSet(Plugins)

VARIABLES
  server,    \* [map, phase, round, loads]; auxiliary, clean: no query failed on this map
  db,        \* [conn, ready, mapSetUp, mapID, coursesSetUp], and what it holds: rows of courses, names of plugins
  queue,     \* the queries the connection has not answered
  infos,     \* modeInfos and styleInfos: name -> [listed, loaded, hasID]; auxiliary,
             \* lost: the plugin was loaded again, or its query failed
  mishaps    \* auxiliary: what failed or was unloaded

vars == <<mapi, server, db, queue, infos, mishaps>>

Conns == {"connecting", "up", "destroyed"}
\* What a query needs to be answered: the map of SetupMap, the map's id and
\* the names of SetupCourses.
Txn(kind, map, names) == [kind |-> kind, map |-> map, names |-> names]
TxnKinds == {"migrations", "migrate", "map", "courses", "insert", "fetch"}
Names == ToSet(Plugins)

\* The types, and what the mapping API relies on: a pointer of g_sortedCourses
\* is to a slot, and a course descriptor in use has an id or none.
TypeOK ==
  /\ mapi.version \in {"none", "good", "bad"}
  /\ {mapi.loaded, mapi.fatal, mapi.starting} \subseteq BOOLEAN
  /\ mapi.count \in 0..MaxCourses
  /\ ToSet(mapi.sorted) \subseteq 1..MaxCourses
  /\ \A c \in ToSet(Sorted(mapi)) : c.cps \in Nat /\ c.stages \in Nat /\ c.guid \in 1..MaxCourses
  /\ server.map \in Maps \cup {NoMap} /\ server.phase \in {"none", "loading", "active"}
  /\ db.conn \in Conns /\ {db.ready, db.mapSetUp, db.coursesSetUp} \subseteq BOOLEAN
  /\ db.mapID \in Maps \cup {NoMap}
  /\ \A n \in Names : infos[n].loaded => infos[n].listed
  /\ \A q \in ToSet(queue) : q.kind \in TxnKinds => q.map \in Maps \cup {NoMap}

\* Init of the plugin connects: SetupDatabase with a valid configuration.
Init ==
  /\ mapi = Fresh
  /\ server = [map |-> NoMap, phase |-> "none", round |-> 0, loads |-> 0, clean |-> TRUE]
  /\ db = [conn |-> "connecting", ready |-> FALSE, mapSetUp |-> FALSE, mapID |-> NoMap,
           coursesSetUp |-> FALSE, rows |-> {}, names |-> {}]
  /\ queue = <<>>
  /\ \E here \in SUBSET (Names \ {BuiltIn}) :
       infos = [n \in Names |-> [listed |-> n \in here \cup {BuiltIn}, loaded |-> n \in here \cup {BuiltIn},
                                 hasID |-> FALSE, lost |-> FALSE]]
  /\ mishaps = 0

CourseNames(a) == {c.name : c \in ToSet(Sorted(a))}

\* SetupMap and SetupCourses: the flag is cleared and the query queued.
SetupMap(d, q, m) ==
  [d |-> [d EXCEPT !.mapSetUp = FALSE],
   q |-> IF d.ready THEN Append(q, Txn("map", m, {})) ELSE q]

SetupCourses(d, q, a) ==
  [d |-> [d EXCEPT !.coursesSetUp = FALSE], q |-> Append(q, Txn("courses", d.mapID, CourseNames(a)))]

SetupLocalCourses(d, q, a) == IF d.mapSetUp THEN SetupCourses(d, q, a) ELSE [d |-> d, q |-> q]

------------------------------------------------------------------------------
(* The engine's events. *)

StartupServer ==
  /\ server.loads < MaxLoads
  /\ \E m \in Maps :
       server' = [map |-> m, phase |-> "loading", round |-> 0, loads |-> server.loads + 1,
                  clean |-> TRUE]
  /\ mapi' = Fresh
  /\ UNCHANGED <<db, queue, infos, mishaps>>

LoadingSpawnGroup ==
  /\ server.phase = "loading"
  /\ mapi' = OnCreateLoadingSpawnGroup(mapi, server.map) /\ mapi' # mapi
  /\ UNCHANGED <<server, db, queue, infos, mishaps>>

ActivateServer ==
  /\ server.phase = "loading" /\ mapi.loaded
  /\ server' = [server EXCEPT !.phase = "active"]
  /\ LET r == SetupMap(db, queue, server.map) IN db' = r.d /\ queue' = r.q
  /\ UNCHANGED <<mapi, infos, mishaps>>

\* A round may be restarted before it began.
RoundPreStart ==
  /\ server.phase = "active" /\ server.round < MaxRounds
  /\ server' = [server EXCEPT !.round = @ + 1]
  /\ mapi' = OnSpawn(OnRoundPreStart(mapi), Entities[server.map])
  /\ UNCHANGED <<db, queue, infos, mishaps>>

RoundStart ==
  /\ mapi.starting
  /\ UNCHANGED <<server, infos, mishaps>>
  /\ mapi' = OnRoundStart(mapi)
  /\ LET r == SetupLocalCourses(db, queue, mapi') IN db' = r.d /\ queue' = r.q

\* Entities that a map spawns during the round.
LateSpawn ==
  /\ server.phase = "active" /\ ~mapi.starting /\ server.round > 0
  /\ mapi' = OnSpawn(mapi, Entities[server.map])
  /\ Len(mapi'.triggers) <= Len(Entities[server.map]) + 1    \* bound
  /\ mapi' # mapi
  /\ UNCHANGED <<server, db, queue, infos, mishaps>>

------------------------------------------------------------------------------
(* The connection's answers. *)

OnDatabaseConnected ==
  /\ db.conn = "connecting"
  /\ \/ /\ db' = [db EXCEPT !.conn = "up"]
        /\ queue' = <<Txn("migrations", NoMap, {})>>           \* RunMigrations
     \/ db' = [db EXCEPT !.conn = "destroyed"] /\ queue' = queue
  /\ UNCHANGED <<mapi, server, infos, mishaps>>

Answered(kind) == db.conn = "up" /\ queue # <<>> /\ Head(queue).kind = kind

\* Mutant: only what the database has already is read, a new plugin is not entered.
OnDatabaseSetup_NoInsert == <<Txn("fetch", NoMap, {})>>

EnterMissing(q, n) ==
  IF infos[n].listed /\ ~infos[n].hasID THEN Append(q, Txn("insert", NoMap, {n})) ELSE q

\* The listeners of the mode and the style manager: the ids that are missing.
OnDatabaseSetup ==
  LET asked[i \in 0..Len(Plugins)] ==
        IF i = 0 THEN <<>> ELSE EnterMissing(asked[i - 1], Plugins[i])
  IN  Append(asked[Len(Plugins)], Txn("fetch", NoMap, {}))

\* Mutant: the map that is already there is forgotten.
DatabaseReady_NoMap(d, q) == [d |-> [d EXCEPT !.ready = TRUE], q |-> q \o OnDatabaseSetup]

\* onSuccess of the migrations.  The map may already be there.
DatabaseReady(d, q) ==
  LET r == SetupMap([d EXCEPT !.ready = TRUE], q, server.map)
  IN  [r EXCEPT !.q = @ \o OnDatabaseSetup]

Destroy == /\ db' = [db EXCEPT !.conn = "destroyed"]
           /\ queue' = <<>>

\* There are more migrations than this plugin knows, one that differs, all, or
\* some are left to apply.
CheckMigrations ==
  /\ Answered("migrations")
  /\ UNCHANGED <<mapi, server, infos, mishaps>>
  /\ \/ db' = db /\ queue' = Tail(queue)
     \/ Destroy
     \/ LET r == DatabaseReady(db, Tail(queue)) IN db' = r.d /\ queue' = r.q
     \/ db' = db /\ queue' = Append(Tail(queue), Txn("migrate", NoMap, {}))

Migrated ==
  /\ Answered("migrate")
  /\ UNCHANGED <<mapi, server, infos, mishaps>>
  /\ \/ LET r == DatabaseReady(db, Tail(queue)) IN db' = r.d /\ queue' = r.q
     \/ Destroy

\* Mutant: the answer is taken for that of the current map.
MapMatches_Any(q) == TRUE

MapMatches(q) == q.map = server.map

\* The callback of SetupMap, with OnMapSetup.
MapAnswered ==
  /\ Answered("map")
  /\ UNCHANGED <<mapi, server, infos, mishaps>>
  /\ IF ~MapMatches(Head(queue)) THEN db' = db /\ queue' = Tail(queue)
     ELSE LET r == SetupLocalCourses([db EXCEPT !.mapID = Head(queue).map, !.mapSetUp = TRUE],
                                     Tail(queue), mapi)
          IN  db' = r.d /\ queue' = r.q

\* SetupCourses inserts what is missing and finds every row of the map, now or
\* from earlier; its callback enters each by its name.
CoursesAnswered ==
  /\ Answered("courses")
  /\ UNCHANGED <<server, infos, mishaps>>
  /\ LET q == Head(queue)
     IN  db' = [db EXCEPT !.coursesSetUp = TRUE, !.rows = @ \cup {<<q.map, n>> : n \in q.names}]
  /\ mapi' = UpdateCourseLocalIDs(mapi, {r \in db'.rows : r[1] = Head(queue).map})
  /\ queue' = Tail(queue)

\* OnGenericTxnFailure.
QueryFails ==
  /\ db.conn = "up" /\ queue # <<>> /\ mishaps < MaxMishaps
  /\ Head(queue).kind \in TxnKinds \ {"migrate"}
  /\ queue' = Tail(queue)
  /\ mishaps' = mishaps + 1
  /\ infos' = [n \in Names |-> [infos[n] EXCEPT !.lost = @ \/ n \in Head(queue).names]]
  /\ server' = [server EXCEPT !.clean = FALSE]
  /\ UNCHANGED <<mapi, db>>

\* The rows of the modes and styles: one is inserted and found, or all are read.
InsertAnswered ==
  /\ Answered("insert")
  /\ db' = [db EXCEPT !.names = @ \cup Head(queue).names]
  /\ infos' = [n \in Names |-> [infos[n] EXCEPT !.hasID = @ \/ n \in Head(queue).names]]
  /\ queue' = Tail(queue)
  /\ UNCHANGED <<mapi, server, mishaps>>

FetchAnswered ==
  /\ Answered("fetch")
  /\ infos' = [n \in Names |-> [infos[n] EXCEPT !.hasID = @ \/ (infos[n].listed /\ n \in db.names)]]
  /\ queue' = Tail(queue)
  /\ UNCHANGED <<mapi, server, db, mishaps>>

------------------------------------------------------------------------------
(* Plugins that come and go.                                                *)

\* RegisterMode and RegisterStyle overwrite the whole entry, the database's id included, and
\* ask for the id only if there was no entry.
Register ==
  \E n \in Names :
    /\ ~infos[n].loaded
    /\ infos' = [infos EXCEPT ![n] = [listed |-> TRUE, loaded |-> TRUE, hasID |-> FALSE, lost |-> @.listed]]
    /\ queue' = IF ~infos[n].listed /\ db.ready THEN Append(queue, Txn("insert", NoMap, {n})) ELSE queue
    /\ UNCHANGED <<mapi, server, db, mishaps>>

Unregister ==
  /\ mishaps < MaxMishaps
  /\ \E n \in Names \ {BuiltIn} : infos[n].loaded /\ infos' = [infos EXCEPT ![n].loaded = FALSE]
  /\ mishaps' = mishaps + 1
  /\ UNCHANGED <<mapi, server, db, queue>>

Answer == InsertAnswered \/ FetchAnswered \/ OnDatabaseConnected \/ CheckMigrations \/ Migrated \/ MapAnswered \/ CoursesAnswered

Next ==
  \/ StartupServer \/ LoadingSpawnGroup \/ ActivateServer
  \/ RoundPreStart \/ RoundStart \/ LateSpawn
  \/ Answer \/ QueryFails
  \/ Register \/ Unregister

Spec == Init /\ [][Next]_vars

------------------------------------------------------------------------------
Settled == /\ server.phase = "active" /\ ~mapi.starting
           /\ db.mapSetUp /\ db.coursesSetUp
           /\ \A q \in ToSet(queue) : q.kind # "courses"

HasItsId(c) == c.localID = <<server.map, c.name>>

\* A map that is set up is the one that is played, and once its courses are set
\* up and nothing is pending each that is found by its name carries the id of its
\* own row, whatever maps came and went while queries were on their way.  (After
\* a failure the answer to an older query sets the flag of the courses again.)
\* Not found are a second course of the same name, and one that moved to the slot
\* of a removed course while g_sortedCourses comes upon its old slot first.
IdsAreOfTheMap ==
  server.phase = "active" /\ db.mapSetUp =>
    /\ db.mapID = server.map
    /\ Settled /\ server.clean =>
         \A i \in 1..MaxCourses : IsFirstOfName(mapi, i) => HasItsId(mapi.slots[i])

\* Outside the start of a round the courses of a well-formed map count each of
\* its checkpoints and stages once, whatever spawned late and however often
\* the round was restarted: what the timer asks of a run.
CountsMatchZones ==
  server.round > 0 /\ ~mapi.starting /\ server.map \in WellFormed =>
    \A c \in CoursesOf(mapi) :
      /\ c.cps = Cardinality(Numbers(server.map, c, "cp"))
      /\ c.stages = Cardinality(Numbers(server.map, c, "stage"))

\* Once its answers are in, every mode and style that is loaded has its id in the database,
\* whether it was loaded before the database was ready or after; unless it was loaded again,
\* which loses the id, or its query failed.
PluginsHaveIds ==
  db.ready /\ (\A q \in ToSet(queue) : q.kind \notin {"insert", "fetch"}) =>
    \A n \in Names : infos[n].loaded => infos[n].hasID \/ infos[n].lost

\* When nothing is asked of a database that is ready, and nothing failed on this map, the map
\* and its courses are set up: in whatever order the database became ready, the map started
\* and the round began, nobody waits for an id that no query asks for.
NothingForgotten ==
  (server.phase = "active" /\ ~mapi.starting /\ db.ready /\ queue = <<>> /\ server.clean) => Settled
==============================================================================
