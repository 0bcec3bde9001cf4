------------------------------- MODULE Queries -------------------------------
(***************************************************************************)
(* The commands that ask for times: !pb, !spb, !ctop and !sr.  A request    *)
(* asks the local database, the API or both; its answers, and that to the   *)
(* question for a map's first course, find it by its uid, if it is still    *)
(* there.  It is replied to when no answer is missing, or after five        *)
(* seconds with what there is.  Meanwhile maps start, plugins come and go   *)
(* and the player may leave.                                                *)
(*                                                                          *)
(* The tables, their limits and the texts are left out.                     *)
(***************************************************************************)
EXTENDS LocalDatabase

CONSTANTS
  Users,
  ApiModes,      \* the modes DecodeModeString knows
  MaxRequests    \* bound: requests made

ASSUME QueriesAssumption == MaxRequests \in Nat /\ ApiModes \subseteq Names

VARIABLES
  users,       \* the players who are there, by user id
  available,   \* BhopGlobalService::IsAvailable
  requests,    \* BaseRequest::instances; auxiliary, local0 and sent: how it began, and whether the API was asked
  flights,     \* the uids whose message waits for the API's answer
  nextUid      \* idCount

queryVars == <<users, available, requests, flights, nextUid>>
allVars == <<vars, queryVars>>

Kinds == {"pb", "spb", "ctop", "sr"}
GlobalKinds == {"pb", "ctop"}          \* the commands that pass queryGlobal
PersonalKinds == {"pb", "spb"}
Done == {"disabled", "received"}
NoName == ""                           \* a course nobody named

QueryInit ==
  /\ Init
  /\ users = Users /\ available \in BOOLEAN
  /\ requests = {} /\ flights = {} /\ nextUid = 0

Asked(r, kind) == [kind |-> kind, map |-> r.map, names |-> {r.course}, uid |-> r.uid]
AnswerFor(kind, r) == \E q \in ToSet(queue) : q.kind = kind /\ q.uid = r.uid

------------------------------------------------------------------------------
(* BaseRequest::Init.                                                       *)

\* An argument that is no parameter: nothing is set up, and neither status is ever initialized;
\* it matters only whether it happens to read as enabled.
BadArguments(u, kind) ==
  {[uid |-> nextUid, user |-> u, personal |-> kind \in PersonalKinds, map |-> NoMap, course |-> NoName, first |-> FALSE,
    local |-> l, global |-> g, rankless |-> FALSE, valid |-> FALSE, reason |-> FALSE, sent |-> FALSE] :
   l, g \in {"enabled", "disabled"}}

\* The course: the one that was named; on this map the player's own or the first; on another the
\* first one of the database, or, the member being hidden by the parameter, none.
Courses(map, named, local) ==
  IF named # NoName THEN {[course |-> named, first |-> FALSE, ok |-> TRUE]}
  ELSE IF map = server.map
       THEN IF mapi.sorted = <<>> THEN {[course |-> NoName, first |-> FALSE, ok |-> FALSE]}
            ELSE {[course |-> c, first |-> FALSE, ok |-> TRUE] : c \in CourseNames(mapi)}
  ELSE {[course |-> NoName, first |-> local = "enabled", ok |-> TRUE]}

\* A mode that is named needs an id in the database; the player's own is taken as it is.
Prepared(u, kind, map, named, mode, own, rankless) ==
  LET local == IF db.ready THEN "enabled" ELSE "disabled"
      global == IF kind \in GlobalKinds /\ available THEN "enabled" ELSE "disabled"
      make(c) ==
        LET l == IF c.ok /\ ~own /\ ~infos[mode].hasID THEN "disabled" ELSE local
            g == IF c.ok /\ mode \notin ApiModes THEN "disabled" ELSE global
            ok == c.ok /\ (l = "enabled" \/ g = "enabled")
        IN  [uid |-> nextUid, user |-> u, personal |-> kind \in PersonalKinds, map |-> map, course |-> c.course, first |-> c.first,
             local |-> l, global |-> g, rankless |-> rankless, valid |-> ok, reason |-> ~ok, sent |-> FALSE]
  IN  {make(c) : c \in Courses(map, named, local)}

Create ==
  /\ nextUid < MaxRequests /\ server.map # NoMap
  /\ \E u \in users, kind \in Kinds, map \in Maps, named \in {NoName, Main},
        mode \in Names, own \in BOOLEAN, rankless \in BOOLEAN :
       /\ rankless => kind \in PersonalKinds
       /\ own => mode = BuiltIn
       /\ ~own => infos[mode].listed
       /\ \E r \in Prepared(u, kind, map, named, mode, own, rankless) \cup BadArguments(u, kind) :
            /\ requests' = requests \cup {r}
            /\ queue' = IF r.first THEN Append(queue, Asked(r, "first")) ELSE queue
  /\ nextUid' = nextUid + 1
  /\ UNCHANGED <<mapi, server, db, infos, mishaps, users, available, flights>>

------------------------------------------------------------------------------
(* CheckRequests, every frame: one instance of the loop.                    *)
Gone(r) == r.user \notin users

Asking(r) == ~r.first

\* QueryLocal looks at the player, but not whether the request is still valid.  PBRequest looks first.
QueryLocal(r) ==
  IF ~Asking(r) THEN r
  ELSE IF Gone(r) /\ (r.personal \/ r.local = "enabled")
       THEN [r EXCEPT !.valid = FALSE, !.local = IF @ = "enabled" /\ ~r.personal THEN "pending" ELSE @]
  ELSE IF r.local = "enabled" THEN [r EXCEPT !.local = "pending"] ELSE r

QueryGlobal(r) ==
  IF Asking(r) /\ r.global = "enabled" THEN [r EXCEPT !.global = "pending", !.sent = available] ELSE r

Complete(r) == r.local \in Done /\ r.global \in Done

\* Only a status nobody initialized asks a database that is gone, through a null pointer.
Crashes(r) == Asking(r) /\ r.local = "enabled" /\ ~Gone(r) /\ db.conn = "destroyed"

CheckRequests ==
  \E r \in requests, late \in BOOLEAN :
    /\ ~Crashes(r)
    /\ LET asked == QueryGlobal(QueryLocal(r))
           stays == asked.valid /\ ~Complete(asked) /\ ~late
       IN  /\ requests' = (requests \ {r}) \cup (IF stays THEN {asked} ELSE {})
           /\ queue' = IF r.local = "enabled" /\ asked.local = "pending" /\ ~Gone(r)
                       THEN Append(queue, Asked(asked, "times")) ELSE queue
           /\ flights' = IF asked.sent /\ ~r.sent THEN flights \cup {r.uid} ELSE flights
           /\ UNCHANGED <<mapi, server, db, infos, mishaps, users, available, nextUid>>

------------------------------------------------------------------------------
(* Answers.                                                                 *)
Find(uid) == {r \in requests : r.uid = uid}

Update(uid, F(_)) == requests' = {IF r.uid = uid THEN F(r) ELSE r : r \in requests}

\* The map has courses in the database or none.
FirstCourseAnswered ==
  /\ Answered("first")
  /\ LET q == Head(queue)
         there == {row[2] : row \in {row \in db.rows : row[1] = q.map}}
     IN  \/ \E c \in there : Update(q.uid, LAMBDA r : [r EXCEPT !.first = FALSE, !.course = c])
         \/ there = {} /\ Update(q.uid, LAMBDA r : [r EXCEPT !.first = FALSE, !.course = "1", !.local = "disabled"])
  /\ queue' = Tail(queue)
  /\ UNCHANGED <<mapi, server, db, infos, mishaps, users, available, flights, nextUid>>

\* The success callback of the rankless query fills in the time and leaves the status.
TimesReceived(r) == IF r.rankless THEN r ELSE [r EXCEPT !.local = "received"]

TimesAnswered ==
  /\ Answered("times")
  /\ Update(Head(queue).uid, TimesReceived)
  /\ queue' = Tail(queue)
  /\ UNCHANGED <<mapi, server, db, infos, mishaps, users, available, flights, nextUid>>

RequestFailed_Ignored(r) == r             \* mutant: a failure is only logged, like that of other queries
RequestFailed(r) == IF r.first THEN [r EXCEPT !.first = FALSE, !.course = "1", !.local = "disabled"]
                    ELSE [r EXCEPT !.local = "disabled"]

RequestFails ==
  /\ queue # <<>> /\ Head(queue).kind \in {"first", "times"} /\ mishaps < MaxMishaps
  /\ Update(Head(queue).uid, RequestFailed)
  /\ queue' = Tail(queue)
  /\ mishaps' = mishaps + 1
  /\ UNCHANGED <<mapi, server, db, infos, users, available, flights, nextUid>>

\* The API knows the map and the course, by its own names, or it does not.
GlobalAnswered ==
  \E uid \in flights :
    /\ flights' = flights \ {uid}
    /\ \/ \E c \in {r.course : r \in Find(uid)} \cup {Main} :
            Update(uid, LAMBDA r : [r EXCEPT !.global = "received", !.course = c])
       \/ Update(uid, LAMBDA r : [r EXCEPT !.global = "disabled"])
    /\ UNCHANGED <<vars, users, available, nextUid>>

\* The connection to the API closes, and what it was asked is not answered; or it opens.
Connection ==
  /\ available' = ~available
  /\ flights' = {}
  /\ mishaps < MaxMishaps /\ mishaps' = mishaps + 1
  /\ UNCHANGED <<mapi, server, db, queue, infos, users, requests, nextUid>>

Leave ==
  /\ \E u \in users : users' = users \ {u}
  /\ UNCHANGED <<vars, available, requests, flights, nextUid>>

QueryNext ==
  \/ Next /\ UNCHANGED queryVars
  \/ Create \/ CheckRequests \/ FirstCourseAnswered \/ TimesAnswered \/ RequestFails
  \/ GlobalAnswered \/ Connection \/ Leave

QuerySpec == QueryInit /\ [][QueryNext]_allVars

------------------------------------------------------------------------------
\* A request that waits for the database has a query there that will be answered or fail: no
\* answer is lost, whatever maps and plugins came meanwhile, and the five seconds are only for a
\* slow one.  Not so of a run with styles or of a cheater, whose answer does not count.
WaitsForAnAnswer ==
  \A r \in requests :
    /\ r.first => AnswerFor("first", r)
    /\ r.valid /\ r.local = "pending" /\ ~r.rankless => AnswerFor("times", r)

==============================================================================
