------------------------------ MODULE MapProofs ------------------------------
(***************************************************************************)
(* What the plugin knows of a map: the local database, the mapping API and  *)
(* the requests for times, for any maps, entities, modes, styles, players   *)
(* and failures; and the triggers a player touches, for any triggers,       *)
(* filters, delays and cooldowns.                                           *)
(*                                                                          *)
(* The invariant of the database says that whatever is still to be done is  *)
(* on its way: the id of a plugin that is loaded, the row of the map that   *)
(* is played and those of its courses, and what each request waits for, is  *)
(* there or is asked for in the queue (PluginsAsked, SetUpAsked,            *)
(* CoursesAsked, WaitsForAnAnswer).  Two of its parts are about the order   *)
(* of the queue: a migration is alone in it (Alone), and of several         *)
(* questions for courses the last one is of the map that is played          *)
(* (LastIsOurs), so that its answer is the one that stays.                  *)
(*                                                                          *)
(* The invariant of the triggers says that what a trigger's events left     *)
(* behind is what its tracker says, and that its push event remembers its   *)
(* last push until the cooldown is over.                                    *)
(*                                                                          *)
(* Both rest on loops: the folds over descriptors and entities that make    *)
(* the courses of a map, and those over the trackers, whose body may remove *)
(* the current one.  They are followed step by step, by induction on the    *)
(* number of steps (UpTo).                                                  *)
(***************************************************************************)
EXTENDS Queries, Triggers, FiniteSetTheorems, SequenceTheorems, WellFoundedInduction, TLAPS

------------------------------------------------------------------------------
(* Types. *)

MapIds == Maps \cup {NoMap}

\* The provers do not know that a literal is a string.
Text == STRING \cup {"", Main, "1"}

Course ==
  [id : Int, name : Text, target : Text, hammer : Int, guid : 0..MaxCourses,
   cps : Nat, stages : Nat, localID : {NoId} \cup (MapIds \X Text)]

TriggerType == [type : Types, course : Text, num : Int]

Mapi ==
  [loaded : BOOLEAN, version : {"none", "good", "bad"}, fatal : BOOLEAN, starting : BOOLEAN,
   slots : [1..MaxCourses -> Course], count : 0..MaxCourses, sorted : Seq(1..MaxCourses),
   triggers : Seq(TriggerType)]

\* A slot in use, or pointed to, is that of a course that was created.
Created(a) ==
  /\ \A i \in 1..a.count : a.slots[i].guid \in 1..MaxCourses
  /\ \A k \in ToSet(a.sorted) : a.slots[k].guid \in 1..MaxCourses

RequestKinds == {"first", "times"}
Query == [kind : TxnKinds, map : MapIds, names : SUBSET (Text \cup Names)]
         \cup [kind : RequestKinds, map : MapIds, names : SUBSET Text, uid : Nat]

ProperQuery ==
  {x \in Query : /\ x.kind = "courses" => x.names \subseteq Text
                 /\ x.kind = "insert" => x.names \subseteq Names}
ProperQueue(q) == q \in Seq(ProperQuery)

Server == [map : MapIds, phase : {"none", "loading", "active"}, round : Nat, loads : Nat, clean : BOOLEAN]
Db == [conn : Conns, ready : BOOLEAN, mapSetUp : BOOLEAN, mapID : MapIds, coursesSetUp : BOOLEAN,
       rows : SUBSET (MapIds \X Text), names : SUBSET Names]
Info == [listed : BOOLEAN, loaded : BOOLEAN, hasID : BOOLEAN, lost : BOOLEAN]

DatabaseType ==
  /\ mapi \in Mapi /\ Created(mapi)
  /\ server \in Server /\ db \in Db /\ ProperQueue(queue)
  /\ infos \in [Names -> Info]
  /\ server.phase # "none" => server.map \in Maps
  /\ \A n \in Names : infos[n].loaded => infos[n].listed

------------------------------------------------------------------------------
(* The invariants. *)

Migrating == {"migrations", "migrate"}

Without(q, kinds) == \A x \in ToSet(q) : x.kind \notin kinds

\* A query of the migrations is alone of its kind.
Alone(q) == \A i, j \in DOMAIN q : q[i].kind \in Migrating /\ q[j].kind \in Migrating => i = j

\* The database is set up once: when it is ready nothing is asked of the migrations.
SetUpOnce ==
  /\ db.ready => db.conn = "up" /\ Without(queue, Migrating)
  /\ Alone(queue)

Base == DatabaseType /\ SetUpOnce

\* The id of a plugin is there, or asked for.
AskedFor(q, n) == \E x \in ToSet(q) : x.kind = "insert" /\ n \in x.names

PluginsAsked ==
  db.ready => \A n \in Names : infos[n].loaded => infos[n].hasID \/ infos[n].lost \/ AskedFor(queue, n)

\* So is the row of the map, and then those of its courses.
MapAsked(q, m) == \E x \in ToSet(q) : x.kind = "map" /\ x.map = m
NoCourses(q) == Without(q, {"courses"})

SetUpAsked ==
  db.ready /\ server.phase = "active" /\ server.clean =>
    /\ db.mapSetUp \/ MapAsked(queue, server.map)
    /\ db.mapSetUp /\ ~mapi.starting => db.coursesSetUp \/ ~NoCourses(queue)

\* What is set up is the map that is played.
MapIsPlayed == db.mapSetUp /\ server.phase = "active" => db.mapID = server.map

\* What is asked for a map, and its answer, need a database that is ready.
ReadyFirst ==
  /\ db.mapSetUp => db.ready
  /\ ~db.ready => Without(queue, {"map"})

\* The last query for courses is that of the courses there are; after its answer
\* each that is found has its id.
LastIsOurs(q, m, names) ==
  \E i \in DOMAIN q :
    /\ q[i].kind = "courses" /\ q[i].map = m /\ names \subseteq q[i].names
    /\ \A j \in DOMAIN q : j > i => q[j].kind # "courses"

FoundHaveIds == \A i \in 1..MaxCourses : IsFirstOfName(mapi, i) => HasItsId(mapi.slots[i])

CoursesAsked ==
  db.mapSetUp /\ server.phase = "active" /\ server.clean /\ ~mapi.starting =>
    LastIsOurs(queue, server.map, CourseNames(mapi)) \/ (NoCourses(queue) /\ FoundHaveIds)

DatabaseInv ==
  Base /\ PluginsAsked /\ SetUpAsked /\ MapIsPlayed /\ ReadyFirst /\ CoursesAsked

------------------------------------------------------------------------------
(* Requests. *)
Request ==
  [uid : Nat, user : Users, personal : BOOLEAN, map : MapIds, course : Text, first : BOOLEAN,
   local : {"enabled", "disabled", "pending", "received"},
   global : {"enabled", "disabled", "pending", "received"},
   rankless : BOOLEAN, valid : BOOLEAN, reason : BOOLEAN, sent : BOOLEAN]

\* A request that is to ask the database was made when it was ready.
AsksReady ==
  \A r \in requests : r.first \/ (r.valid /\ r.local \in {"enabled", "pending"}) => db.ready

QueryTypes == nextUid \in Nat /\ users \subseteq Users /\ available \in BOOLEAN

RequestsInv == requests \subseteq Request /\ QueryTypes /\ AsksReady /\ WaitsForAnAnswer

------------------------------------------------------------------------------
(* Folds, by induction on the number of elements. *)

\* A set of natural numbers has a least element.
LEMMA LeastNatural ==
  ASSUME NEW T, T \subseteq Nat, T # {} PROVE \E x \in T : \A y \in T : x <= y
<1> DEFINE R == OpToRel(<, Nat)
<1>1. IsWellFoundedOn(R, Nat)
  BY NatLessThanWellFounded
<1>2. \A x, y \in Nat : <<y, x>> \in R <=> y < x
  BY DEF OpToRel
<1> HIDE DEF R
<1>3. PICK x \in T : \A y \in T : ~(<<y, x>> \in R)
  BY <1>1, WFMin
<1>4. \A y \in T : ~(y < x) /\ y \in Nat /\ x \in Nat
  BY <1>2, <1>3
<1> QED BY <1>4

\* Induction from 0 up to n, over a set.
LEMMA UpTo ==
  ASSUME NEW n \in Nat, NEW S, 0 \in S, \A i \in S : i \in 0..n - 1 => i + 1 \in S
  PROVE  \A i \in 0..n : i \in S
<1> SUFFICES ASSUME (0..n) \ S # {} PROVE FALSE
  OBVIOUS
<1>0. (0..n) \ S \subseteq Nat
  OBVIOUS
<1>1. PICK x \in (0..n) \ S : \A y \in (0..n) \ S : x <= y
  BY <1>0, LeastNatural
<1>2. x # 0 /\ x - 1 \in 0..n - 1 /\ x - 1 \in 0..n /\ ~(x <= x - 1)
  BY <1>1
<1>3. x - 1 \in S
  BY <1>1, <1>2
<1>4. (x - 1) + 1 = x
  BY <1>1
<1> QED BY <1>1, <1>2, <1>3, <1>4

\* f folds the first m elements by g, in S.
Folds(f, g, a, es, m) == f = [n \in 0..m |-> IF n = 0 THEN a ELSE g[<<f[n - 1], es[n]>>]]

LEMMA FoldExists ==
  ASSUME NEW S, NEW a \in S, NEW E, NEW es \in Seq(E), NEW g \in [S \X E -> S]
  PROVE  \E f \in [0..Len(es) -> S] : Folds(f, g, a, es, Len(es))
<1> DEFINE T == {m \in Nat : m <= Len(es) => \E f \in [0..m -> S] : Folds(f, g, a, es, m)}
           L == Len(es)
<1>0. L \in Nat
  OBVIOUS
<1>1. 0 \in T
  <2> DEFINE f == [n \in 0..0 |-> a]
  <2>1. f \in [0..0 -> S] /\ f = [n \in 0..0 |-> IF n = 0 THEN a ELSE g[<<f[n - 1], es[n]>>]]
    OBVIOUS
  <2> HIDE DEF f
  <2> QED BY <2>1 DEF Folds
<1>2. ASSUME NEW m \in T, m \in 0..L - 1 PROVE m + 1 \in T
  <2>1. m \in Nat /\ m <= L /\ m + 1 \in 1..L /\ es[m + 1] \in E
    BY <1>0, <1>2, ElementOfSeq
  <2>2. PICK f \in [0..m -> S] : Folds(f, g, a, es, m)
    BY <2>1
  <2> DEFINE h == [n \in 0..m + 1 |-> IF n = m + 1 THEN g[<<f[m], es[m + 1]>>] ELSE f[n]]
  <2>3. h \in [0..m + 1 -> S]
    <3>1. f[m] \in S /\ <<f[m], es[m + 1]>> \in S \X E
      BY <2>1
    <3>2. \A n \in 0..m + 1 : n # m + 1 => n \in 0..m
      BY <2>1
    <3> QED BY <3>1, <3>2
  <2>4. ASSUME NEW n \in 0..m + 1
        PROVE  h[n] = IF n = 0 THEN a ELSE g[<<h[n - 1], es[n]>>]
    <3>1. CASE n = m + 1
      <4>1. n # 0 /\ n - 1 = m /\ m \in 0..m + 1 /\ m # m + 1
        BY <2>1, <3>1
      <4>2. h[m] = f[m]
        BY <4>1
      <4> QED BY <3>1, <4>1, <4>2
    <3>2. CASE n # m + 1
      <4>1. n \in 0..m /\ (n # 0 => n - 1 \in 0..m /\ n - 1 \in 0..m + 1 /\ n - 1 # m + 1)
        BY <2>1, <3>2
      <4>2. h[n] = f[n] /\ (n # 0 => h[n - 1] = f[n - 1])
        BY <3>2, <4>1
      <4>3. f[n] = IF n = 0 THEN a ELSE g[<<f[n - 1], es[n]>>]
        BY <2>2, <4>1 DEF Folds
      <4> QED BY <4>1, <4>2, <4>3
    <3> QED BY <3>1, <3>2
  <2>5. h = [n \in 0..m + 1 |-> h[n]]
    OBVIOUS
  <2> HIDE DEF h
  <2>6. Folds(h, g, a, es, m + 1)
    BY <2>4, <2>5 DEF Folds
  <2> QED BY <2>1, <2>3, <2>6
<1>3. L \in T
  <2> HIDE DEF T
  <2>1. \A i \in 0..L : i \in T
    BY <1>0, <1>1, <1>2, UpTo
  <2> QED BY <1>0, <2>1
<1> QED BY <1>0, <1>3

\* A round's entities.
Spawns(f, a, es) == f = [n \in 0..Len(es) |-> IF n = 0 THEN a ELSE SpawnOne(f[n - 1], es[n])]

LEMMA OnSpawnStays ==
  ASSUME NEW S, NEW a \in S, NEW E, NEW es \in Seq(E), \A x \in S, e \in E : SpawnOne(x, e) \in S
  PROVE  OnSpawn(a, es) \in S
<1> DEFINE g == [p \in S \X E |-> SpawnOne(p[1], p[2])]
           L == Len(es)
<1>0. L \in Nat /\ \A n \in 1..L : es[n] \in E
  BY ElementOfSeq
<1>1. g \in [S \X E -> S] /\ \A x \in S, e \in E : g[<<x, e>>] = SpawnOne(x, e)
  OBVIOUS
<1> HIDE DEF g
<1>2. PICK h \in [0..L -> S] : Folds(h, g, a, es, L)
  BY <1>1, FoldExists
<1>3. Spawns(h, a, es)
  <2>1. ASSUME NEW n \in 0..L, n # 0 PROVE g[<<h[n - 1], es[n]>>] = SpawnOne(h[n - 1], es[n])
    <3>1. n - 1 \in 0..L /\ h[n - 1] \in S /\ es[n] \in E
      BY <1>0, <2>1
    <3> QED BY <1>1, <3>1
  <2> QED BY <1>2, <2>1 DEF Folds, Spawns
<1> DEFINE f == CHOOSE k : Spawns(k, a, es)
<1>4. Spawns(f, a, es)
  BY <1>3
<1>5. OnSpawn(a, es) = IF a.fatal THEN a ELSE f[L]
  BY DEF OnSpawn, Spawns
<1> HIDE DEF f
<1>6. \A n \in 0..L : f[n] \in S
  <2> DEFINE T == {n \in Nat : n <= L => f[n] \in S}
  <2>1. 0 \in T
    BY <1>0, <1>4 DEF Spawns
  <2>2. ASSUME NEW n \in T, n \in 0..L - 1 PROVE n + 1 \in T
    <3>1. n + 1 \in 0..L /\ n + 1 # 0 /\ (n + 1) - 1 = n /\ f[n] \in S /\ es[n + 1] \in E
      BY <1>0, <2>2
    <3>2. f[n + 1] = SpawnOne(f[n], es[n + 1])
      BY <1>4, <3>1 DEF Spawns
    <3> QED BY <3>1, <3>2
  <2> HIDE DEF T
  <2>3. \A n \in 0..L : n \in T
    BY <1>0, <2>1, <2>2, UpTo
  <2> QED BY <1>0, <2>3 DEF T
<1> QED BY <1>0, <1>5, <1>6

\* The courses a map declares.
Declares1(f, a, ds) ==
  f = [n \in 0..Len(ds) |-> IF n = 0 THEN a ELSE Mapi_OnInfoTargetSpawn(f[n - 1], ds[n])]

DeclaredBy(a, ds) == (CHOOSE f : Declares1(f, a, ds))[Len(ds)]

LEMMA DeclaredStay ==
  ASSUME NEW S, NEW a \in S, NEW E, NEW ds \in Seq(E),
         \A x \in S, e \in E : Mapi_OnInfoTargetSpawn(x, e) \in S
  PROVE  DeclaredBy(a, ds) \in S
<1> DEFINE g == [p \in S \X E |-> Mapi_OnInfoTargetSpawn(p[1], p[2])]
           L == Len(ds)
<1>0. L \in Nat /\ \A n \in 1..L : ds[n] \in E
  BY ElementOfSeq
<1>1. g \in [S \X E -> S] /\ \A x \in S, e \in E : g[<<x, e>>] = Mapi_OnInfoTargetSpawn(x, e)
  OBVIOUS
<1> HIDE DEF g
<1>2. PICK h \in [0..L -> S] : Folds(h, g, a, ds, L)
  BY <1>1, FoldExists
<1>3. Declares1(h, a, ds)
  <2>1. ASSUME NEW n \in 0..L, n # 0 PROVE g[<<h[n - 1], ds[n]>>] = Mapi_OnInfoTargetSpawn(h[n - 1], ds[n])
    <3>1. n - 1 \in 0..L /\ h[n - 1] \in S /\ ds[n] \in E
      BY <1>0, <2>1
    <3> QED BY <1>1, <3>1
  <2> QED BY <1>2, <2>1 DEF Folds, Declares1
<1> DEFINE f == CHOOSE k : Declares1(k, a, ds)
<1>4. Declares1(f, a, ds)
  BY <1>3
<1> HIDE DEF f
<1>5. \A n \in 0..L : f[n] \in S
  <2> DEFINE T == {n \in Nat : n <= L => f[n] \in S}
  <2>1. 0 \in T
    BY <1>0, <1>4 DEF Declares1
  <2>2. ASSUME NEW n \in T, n \in 0..L - 1 PROVE n + 1 \in T
    <3>1. n + 1 \in 0..L /\ n + 1 # 0 /\ (n + 1) - 1 = n /\ f[n] \in S /\ ds[n + 1] \in E
      BY <1>0, <2>2
    <3>2. f[n + 1] = Mapi_OnInfoTargetSpawn(f[n], ds[n + 1])
      BY <1>4, <3>1 DEF Declares1
    <3> QED BY <3>1, <3>2
  <2> HIDE DEF T
  <2>3. \A n \in 0..L : n \in T
    BY <1>0, <2>1, <2>2, UpTo
  <2> QED BY <1>0, <2>3 DEF T
<1>6. f[L] \in S
  BY <1>0, <1>5
<1> QED BY <1>6 DEF f, DeclaredBy

\* The queries that enter the missing modes and styles.
Asks(f, n) == f = [i \in 0..n |-> IF i = 0 THEN <<>> ELSE EnterMissing(f[i - 1], Plugins[i])]

\* They are of type Query, each enters a name, and every plugin that is missing is in one.
EntersMissing(q, n) ==
  /\ q \in Seq(ProperQuery)
  /\ \A x \in ToSet(q) : x.kind = "insert" /\ x.names \subseteq Names
  /\ \A i \in 1..n : infos[Plugins[i]].listed /\ ~infos[Plugins[i]].hasID =>
       \E x \in ToSet(q) : x.kind = "insert" /\ Plugins[i] \in x.names

------------------------------------------------------------------------------
(* Queues. *)

LEMMA ToSetStays ==
  ASSUME NEW S, NEW q \in Seq(S) PROVE ToSet(q) \subseteq S
<1>1. \A i \in DOMAIN q : q[i] \in S
  OBVIOUS
<1> QED BY <1>1 DEF ToSet

LEMMA AppendSet ==
  ASSUME NEW S, NEW q \in Seq(S), NEW x \in S
  PROVE  /\ Append(q, x) \in Seq(S)
         /\ Len(Append(q, x)) = Len(q) + 1 /\ Append(q, x)[Len(q) + 1] = x
         /\ \A i \in 1..Len(q) : Append(q, x)[i] = q[i]
         /\ ToSet(Append(q, x)) = ToSet(q) \cup {x}
<1>1. /\ Append(q, x) \in Seq(S)
      /\ Len(Append(q, x)) = Len(q) + 1 /\ Append(q, x)[Len(q) + 1] = x
      /\ \A i \in 1..Len(q) : Append(q, x)[i] = q[i]
  OBVIOUS
<1> DEFINE a == Append(q, x)
<1>2. Len(q) \in Nat /\ DOMAIN q = 1..Len(q) /\ DOMAIN a = 1..Len(q) + 1
  BY <1>1
<1> HIDE DEF a
<1>3. ToSet(a) = ToSet(q) \cup {x}
  <2>1. ASSUME NEW y \in ToSet(a) PROVE y \in ToSet(q) \cup {x}
    <3>1. PICK i \in 1..Len(q) + 1 : y = a[i]
      BY <1>2, <2>1 DEF ToSet
    <3>2. i = Len(q) + 1 \/ i \in 1..Len(q)
      BY <1>2
    <3> QED BY <1>1, <1>2, <3>1, <3>2 DEF ToSet, a
  <2>2. ASSUME NEW y \in ToSet(q) PROVE y \in ToSet(a)
    <3>1. PICK i \in 1..Len(q) : y = q[i]
      BY <1>2, <2>2 DEF ToSet
    <3>2. i \in 1..Len(q) + 1 /\ y = a[i]
      BY <1>1, <1>2, <3>1 DEF a
    <3> QED BY <1>2, <3>2 DEF ToSet
  <2>3. x \in ToSet(a)
    <3>1. Len(q) + 1 \in 1..Len(q) + 1 /\ a[Len(q) + 1] = x
      BY <1>1, <1>2 DEF a
    <3> QED BY <1>2, <3>1 DEF ToSet
  <2> QED BY <2>1, <2>2, <2>3
<1> QED BY <1>1, <1>3 DEF a

LEMMA TailSet ==
  ASSUME NEW S, NEW q \in Seq(S), q # <<>>
  PROVE  /\ Tail(q) \in Seq(S) /\ Len(Tail(q)) = Len(q) - 1 /\ Len(q) >= 1
         /\ Head(q) = q[1] /\ Head(q) \in S
         /\ \A i \in 1..Len(q) - 1 : Tail(q)[i] = q[i + 1]
         /\ ToSet(q) = {Head(q)} \cup ToSet(Tail(q))
<1>1. /\ Tail(q) \in Seq(S) /\ Len(Tail(q)) = Len(q) - 1 /\ Len(q) >= 1
      /\ Head(q) = q[1] /\ Head(q) \in S
      /\ \A i \in 1..Len(q) - 1 : Tail(q)[i] = q[i + 1]
  BY HeadTailProperties
<1> DEFINE t == Tail(q)
<1>2. Len(q) \in Nat /\ DOMAIN q = 1..Len(q) /\ DOMAIN t = 1..Len(q) - 1
  BY <1>1
<1>3. ToSet(q) = {Head(q)} \cup ToSet(t)
  <2> HIDE DEF t
  <2>1. ASSUME NEW y \in ToSet(q) PROVE y \in {Head(q)} \cup ToSet(t)
    <3>1. PICK i \in 1..Len(q) : y = q[i]
      BY <1>2, <2>1 DEF ToSet
    <3>2. CASE i = 1
      BY <1>1, <3>1, <3>2
    <3>3. CASE i # 1
      <4>1. i - 1 \in 1..Len(q) - 1 /\ (i - 1) + 1 = i
        BY <1>2, <3>3
      <4>2. t[i - 1] = q[i]
        BY <1>1, <4>1 DEF t
      <4> QED BY <1>2, <3>1, <4>1, <4>2 DEF ToSet
    <3> QED BY <3>2, <3>3
  <2>2. ASSUME NEW y \in ToSet(t) PROVE y \in ToSet(q)
    <3>1. PICK i \in 1..Len(q) - 1 : y = t[i]
      BY <1>2, <2>2 DEF ToSet
    <3>2. i + 1 \in 1..Len(q) /\ y = q[i + 1]
      BY <1>1, <1>2, <3>1 DEF t
    <3> QED BY <1>2, <3>2 DEF ToSet
  <2>3. 1 \in 1..Len(q)
    BY <1>1, <1>2
  <2>4. Head(q) \in ToSet(q)
    BY <1>1, <1>2, <2>3 DEF ToSet
  <2> QED BY <2>1, <2>2, <2>4
<1> QED BY <1>1, <1>3 DEF t

LEMMA ConcatSet ==
  ASSUME NEW S, NEW p \in Seq(S), NEW q \in Seq(S)
  PROVE  /\ p \o q \in Seq(S) /\ Len(p \o q) = Len(p) + Len(q)
         /\ \A i \in 1..Len(p) : (p \o q)[i] = p[i]
         /\ \A i \in 1..Len(p) + Len(q) : i > Len(p) => (p \o q)[i] = q[i - Len(p)]
         /\ ToSet(p \o q) = ToSet(p) \cup ToSet(q)
<1> DEFINE c == p \o q
<1>1. Len(p) \in Nat /\ Len(q) \in Nat /\ DOMAIN p = 1..Len(p) /\ DOMAIN q = 1..Len(q)
  OBVIOUS
<1>2. /\ c \in Seq(S) /\ Len(c) = Len(p) + Len(q)
      /\ \A i \in 1..Len(p) + Len(q) : c[i] = IF i <= Len(p) THEN p[i] ELSE q[i - Len(p)]
  BY ConcatProperties
<1>3. DOMAIN c = 1..Len(p) + Len(q)
  BY <1>2
<1> HIDE DEF c
<1>4. \A i \in 1..Len(p) : c[i] = p[i]
  BY <1>1, <1>2
<1>5. \A i \in 1..Len(p) + Len(q) : i > Len(p) => c[i] = q[i - Len(p)]
  BY <1>1, <1>2
<1>6. ToSet(c) = ToSet(p) \cup ToSet(q)
  <2>1. ASSUME NEW y \in ToSet(c) PROVE y \in ToSet(p) \cup ToSet(q)
    <3>1. PICK i \in 1..Len(p) + Len(q) : y = c[i]
      BY <1>3, <2>1 DEF ToSet
    <3>2. CASE i <= Len(p)
      <4>1. i \in 1..Len(p)
        BY <1>1, <3>2
      <4> QED BY <1>1, <1>4, <3>1, <4>1 DEF ToSet
    <3>3. CASE i > Len(p)
      <4>1. i - Len(p) \in 1..Len(q)
        BY <1>1, <3>3
      <4> QED BY <1>1, <1>5, <3>1, <3>3, <4>1 DEF ToSet
    <3> QED BY <1>1, <3>2, <3>3
  <2>2. ASSUME NEW y \in ToSet(p) PROVE y \in ToSet(c)
    <3>1. PICK i \in 1..Len(p) : y = p[i]
      BY <1>1, <2>2 DEF ToSet
    <3>2. i \in 1..Len(p) + Len(q)
      BY <1>1
    <3> QED BY <1>3, <1>4, <3>1, <3>2 DEF ToSet
  <2>3. ASSUME NEW y \in ToSet(q) PROVE y \in ToSet(c)
    <3>1. PICK i \in 1..Len(q) : y = q[i]
      BY <1>1, <2>3 DEF ToSet
    <3>2. i + Len(p) \in 1..Len(p) + Len(q) /\ i + Len(p) > Len(p) /\ (i + Len(p)) - Len(p) = i
      BY <1>1
    <3> QED BY <1>3, <1>5, <3>1, <3>2 DEF ToSet
  <2> QED BY <2>1, <2>2, <2>3
<1> QED BY <1>2, <1>4, <1>5, <1>6 DEF c

LEMMA TxnIs ==
  ASSUME NEW kind \in TxnKinds, NEW map \in MapIds, NEW names, names \subseteq Text \cup Names,
         kind = "courses" => names \subseteq Text, kind = "insert" => names \subseteq Names
  PROVE  /\ Txn(kind, map, names) \in ProperQuery
         /\ Txn(kind, map, names).kind = kind /\ Txn(kind, map, names).map = map
         /\ Txn(kind, map, names).names = names
<1>1. PICK x : x = Txn(kind, map, names)
  OBVIOUS
<1>2. x \in Query /\ x.kind = kind /\ x.map = map /\ x.names = names
  BY <1>1 DEF Txn, Query
<1>3. x \in ProperQuery
  BY <1>2 DEF ProperQuery
<1> QED BY <1>1, <1>2, <1>3

LEMMA QueryFields ==
  ASSUME NEW q \in ProperQuery
  PROVE  /\ q.kind \in TxnKinds \cup RequestKinds /\ q.map \in MapIds
         /\ q.kind \in TxnKinds => q.names \subseteq Text \cup Names
         /\ q.kind = "courses" => q.names \subseteq Text
         /\ q.kind = "insert" => q.names \subseteq Names
         /\ q.kind \in RequestKinds => q.uid \in Nat
<1>0. q \in Query /\ (q.kind = "courses" => q.names \subseteq Text)
      /\ (q.kind = "insert" => q.names \subseteq Names)
  BY DEF ProperQuery
<1>1. CASE q \in [kind : TxnKinds, map : MapIds, names : SUBSET (Text \cup Names)]
  BY <1>0, <1>1 DEF TxnKinds, RequestKinds
<1>2. CASE q \in [kind : RequestKinds, map : MapIds, names : SUBSET Text, uid : Nat]
  BY <1>0, <1>2 DEF TxnKinds, RequestKinds
<1> QED BY <1>0, <1>1, <1>2 DEF Query

LEMMA EnterMissingStays ==
  ASSUME NEW q \in Seq(ProperQuery), NEW n \in Names
  PROVE  EnterMissing(q, n) \in Seq(ProperQuery)
<1>1. NoMap \in MapIds /\ "insert" \in TxnKinds /\ {n} \subseteq Text \cup Names /\ {n} \subseteq Names
      /\ "insert" # "courses"
  BY DEF MapIds, TxnKinds
<1>2. Txn("insert", NoMap, {n}) \in ProperQuery
  BY <1>1, TxnIs
<1> QED BY <1>2, AppendSet DEF EnterMissing

LEMMA SetupAsks ==
  /\ OnDatabaseSetup \in Seq(ProperQuery)
  /\ \A q \in ToSet(OnDatabaseSetup) :
       q.kind \in {"insert", "fetch"} /\ (q.kind = "insert" => q.names \subseteq Names)
  /\ \A n \in Names : infos[n].listed /\ ~infos[n].hasID =>
       \E q \in ToSet(OnDatabaseSetup) : q.kind = "insert" /\ n \in q.names
<1> DEFINE g == [p \in Seq(ProperQuery) \X Names |-> EnterMissing(p[1], p[2])]
           L == Len(Plugins)
<1>0. Plugins \in Seq(Names) /\ L \in Nat /\ (\A i \in 1..L : Plugins[i] \in Names)
      /\ (\A n \in Names : \E i \in 1..L : n = Plugins[i])
  <2>1. Plugins \in Seq(Names)
    BY LocalDatabaseAssumption DEF Names
  <2> QED BY <2>1, ElementOfSeq DEF Names, ToSet
<1>1. g \in [Seq(ProperQuery) \X Names -> Seq(ProperQuery)]
      /\ \A q \in Seq(ProperQuery), n \in Names : g[<<q, n>>] = EnterMissing(q, n)
  BY EnterMissingStays
<1> HIDE DEF g
<1>2. <<>> \in Seq(ProperQuery)
  OBVIOUS
<1>3. PICK h \in [0..L -> Seq(ProperQuery)] : Folds(h, g, <<>>, Plugins, L)
  BY <1>0, <1>1, <1>2, FoldExists
<1>4. Asks(h, L)
  <2>1. ASSUME NEW n \in 0..L, n # 0 PROVE g[<<h[n - 1], Plugins[n]>>] = EnterMissing(h[n - 1], Plugins[n])
    <3>1. n - 1 \in 0..L /\ n \in 1..L
      BY <1>0, <2>1
    <3>2. Plugins[n] \in Names
      BY <1>0, <3>1
    <3>3. h[n - 1] \in Seq(ProperQuery)
      <4> HIDE DEF L
      <4> QED BY <1>3, <3>1
    <3> QED BY <1>1, <3>2, <3>3
  <2> QED BY <1>3, <2>1 DEF Folds, Asks
<1> DEFINE f == CHOOSE k : Asks(k, L)
           last == Txn("fetch", NoMap, {})
<1>5. Asks(f, L)
  BY <1>4
<1>6. OnDatabaseSetup = Append(f[L], last)
  BY DEF OnDatabaseSetup, Asks
<1> HIDE DEF f
<1>7. \A n \in 0..L : EntersMissing(f[n], n)
  <2> DEFINE T == {n \in Nat : n <= L => EntersMissing(f[n], n)}
  <2>1. 0 \in T
    <3>1. f[0] = <<>>
      BY <1>0, <1>5 DEF Asks
    <3>2. PICK q : q = f[0]
      OBVIOUS
    <3>3. q \in Seq(ProperQuery) /\ ToSet(q) = {}
      BY <3>1, <3>2 DEF ToSet
    <3>4. \A i \in 1..0 : FALSE
      OBVIOUS
    <3>5. EntersMissing(q, 0)
      BY <3>3, <3>4 DEF EntersMissing
    <3> QED BY <3>2, <3>5
  <2>2. ASSUME NEW n \in T, n \in 0..L - 1 PROVE n + 1 \in T
    <3>1. n \in Nat /\ n + 1 \in 1..L /\ n + 1 \in 0..L /\ n + 1 # 0 /\ (n + 1) - 1 = n
          /\ EntersMissing(f[n], n) /\ Plugins[n + 1] \in Names
      BY <1>0, <2>2
    <3>2. PICK q, p, x : q = f[n] /\ p = Plugins[n + 1] /\ x = Txn("insert", NoMap, {p})
      OBVIOUS
    <3>3. f[n + 1] = IF infos[p].listed /\ ~infos[p].hasID THEN Append(q, x) ELSE q
      BY <1>5, <3>1, <3>2, ZenonT(60) DEF Asks, EnterMissing
    <3>4. q \in Seq(ProperQuery) /\ x \in ProperQuery /\ x.kind = "insert" /\ x.names = {p} /\ {p} \subseteq Names
      <4>1. NoMap \in MapIds /\ "insert" \in TxnKinds /\ {p} \subseteq Text \cup Names
              /\ {p} \subseteq Names
        BY <3>1, <3>2 DEF MapIds, TxnKinds
      <4>2. q \in Seq(ProperQuery)
        BY <3>1, <3>2 DEF EntersMissing
      <4>3. "insert" # "courses"
        OBVIOUS
      <4>4. x \in ProperQuery /\ x.kind = "insert" /\ x.names = {p}
        BY <3>2, <4>1, <4>3, TxnIs
      <4> QED BY <4>1, <4>2, <4>4
    <3>5. Append(q, x) \in Seq(ProperQuery) /\ ToSet(Append(q, x)) = ToSet(q) \cup {x}
      BY <3>4, AppendSet
    <3>6. \A i \in 1..n + 1 : i \in 1..n \/ i = n + 1
      BY <3>1
    <3>7. CASE infos[p].listed /\ ~infos[p].hasID
      <4> DEFINE a == Append(q, x)
      <4>1. f[n + 1] = a
        BY <3>3, <3>7
      <4>2. a \in Seq(ProperQuery) /\ ToSet(a) = ToSet(q) \cup {x}
        BY <3>5
      <4> HIDE DEF a
      <4>3. \A y \in ToSet(a) : y.kind = "insert" /\ y.names \subseteq Names
        BY <4>2, <3>1, <3>2, <3>4 DEF EntersMissing
      <4>4. ASSUME NEW i \in 1..n + 1, infos[Plugins[i]].listed, ~infos[Plugins[i]].hasID
            PROVE  \E y \in ToSet(a) : y.kind = "insert" /\ Plugins[i] \in y.names
        <5>1. CASE i \in 1..n
          BY <4>2, <4>4, <5>1, <3>1, <3>2 DEF EntersMissing
        <5>2. CASE i = n + 1
          BY <4>2, <5>2, <3>2, <3>4
        <5> QED BY <3>6, <5>1, <5>2
      <4>5. EntersMissing(a, n + 1)
        BY <4>2, <4>3, <4>4 DEF EntersMissing
      <4> QED BY <4>1, <4>5, <3>1
    <3>8. CASE ~(infos[p].listed /\ ~infos[p].hasID)
      <4>1. f[n + 1] = q
        BY <3>3, <3>8
      <4>2. EntersMissing(q, n + 1)
        BY <3>1, <3>2, <3>4, <3>6, <3>8 DEF EntersMissing
      <4> QED BY <4>1, <4>2, <3>1
    <3> QED BY <3>7, <3>8
  <2> HIDE DEF T
  <2>3. \A n \in 0..L : n \in T
    BY <1>0, <2>1, <2>2, UpTo
  <2> QED BY <1>0, <2>3 DEF T
<1>8. EntersMissing(f[L], L)
  BY <1>0, <1>7
<1>9. PICK q : q = f[L]
  OBVIOUS
<1>10. q \in Seq(ProperQuery) /\ last \in ProperQuery /\ last.kind = "fetch"
  <2>1. NoMap \in MapIds /\ "fetch" \in TxnKinds /\ {} \subseteq Text \cup Names
    BY DEF MapIds, TxnKinds
  <2> QED BY <2>1, <1>8, <1>9, TxnIs DEF EntersMissing
<1> HIDE DEF last
<1>11. Append(q, last) \in Seq(ProperQuery) /\ ToSet(Append(q, last)) = ToSet(q) \cup {last}
  BY <1>10, AppendSet
<1>12. PICK s : s = Append(q, last)
  OBVIOUS
<1>13. \A y \in ToSet(q) : y.kind = "insert" /\ y.names \subseteq Names
  BY <1>8, <1>9 DEF EntersMissing
<1>14. \A n \in Names : infos[n].listed /\ ~infos[n].hasID =>
         \E y \in ToSet(q) : y.kind = "insert" /\ n \in y.names
  BY <1>0, <1>8, <1>9, SMTT(40) DEF EntersMissing
<1>15. OnDatabaseSetup = s /\ s \in Seq(ProperQuery) /\ ToSet(s) = ToSet(q) \cup {last}
  BY <1>6, <1>9, <1>11, <1>12
<1> QED BY <1>10, <1>13, <1>14, <1>15

------------------------------------------------------------------------------
(* The mapping API. *)

LEMMA Greatest ==
  ASSUME NEW n \in Nat, NEW T, T \subseteq 0..n, T # {}
  PROVE  Max(T) \in T /\ \A y \in T : Max(T) >= y
<1> DEFINE R == {n - x : x \in T}
<1>1. R \subseteq Nat /\ R # {}
  <2>1. \A x \in T : n - x \in Nat
    OBVIOUS
  <2> QED BY <2>1
<1> HIDE DEF R
<1>2. PICK r \in R : \A y \in R : r <= y
  BY <1>1, LeastNatural
<1>3. PICK m \in T : r = n - m
  BY <1>2 DEF R
<1>4. ASSUME NEW y \in T PROVE m >= y
  <2>1. n - y \in R
    BY DEF R
  <2>2. n - m <= n - y
    BY <1>2, <1>3, <2>1
  <2> QED BY <2>2
<1> QED BY <1>3, <1>4 DEF Max

LEMMA InsertAtStays ==
  ASSUME NEW S, NEW s \in Seq(S), NEW i \in 1..Len(s) + 1, NEW e \in S
  PROVE  InsertAt(s, i, e) \in Seq(S) /\ ToSet(InsertAt(s, i, e)) \subseteq ToSet(s) \cup {e}
<1>0. Len(s) \in Nat /\ DOMAIN s = 1..Len(s) /\ i \in Nat
  OBVIOUS
<1>1. PICK p, q, r : p = SubSeq(s, 1, i - 1) /\ q = <<e>> /\ r = SubSeq(s, i, Len(s))
  OBVIOUS
<1> DEFINE T == ToSet(s) \cup {e}
<1>2. p \in Seq(S) /\ p \in Seq(T)
  <2>1. /\ p \in Seq(S) /\ Len(p) = (IF 1 <= i - 1 THEN i - 1 - 1 + 1 ELSE 0)
        /\ \A k \in 1..i - 1 : p[k] = s[k]
    BY <1>0, <1>1
  <2>2. Len(p) = i - 1
    BY <1>0, <2>1
  <2>3. \A k \in 1..Len(p) : p[k] \in T
    <3>1. ASSUME NEW k \in 1..i - 1 PROVE p[k] \in T
      <4>1. k \in 1..Len(s) /\ p[k] = s[k]
        BY <1>0, <2>1
      <4> QED BY <1>0, <4>1 DEF ToSet
    <3> QED BY <2>2, <3>1
  <2> QED BY <2>1, <2>3
<1>3. q \in Seq(S) /\ q \in Seq(T)
  BY <1>1
<1>4. r \in Seq(S) /\ r \in Seq(T)
  <2>1. r \in Seq(S) /\ Len(r) = Len(s) - i + 1 /\ \A k \in 1..Len(s) - i + 1 : r[k] = s[i + k - 1]
    BY <1>0, <1>1
  <2>2. \A k \in 1..Len(r) : r[k] \in T
    <3>1. ASSUME NEW k \in 1..Len(s) - i + 1 PROVE r[k] \in T
      <4>1. i + k - 1 \in 1..Len(s) /\ r[k] = s[i + k - 1]
        BY <1>0, <2>1
      <4> QED BY <1>0, <4>1 DEF ToSet
    <3> QED BY <2>1, <3>1
  <2> QED BY <2>1, <2>2
<1> HIDE DEF T
<1>5. p \o q \in Seq(S) /\ p \o q \in Seq(T)
  BY <1>2, <1>3
<1>6. (p \o q) \o r \in Seq(S) /\ (p \o q) \o r \in Seq(T)
  BY <1>4, <1>5
<1>7. PICK x : x = (p \o q) \o r
  OBVIOUS
<1>8. InsertAt(s, i, e) = x
  BY <1>1, <1>7 DEF InsertAt
<1>9. ToSet(x) \subseteq T
  <2>1. \A k \in DOMAIN x : x[k] \in T
    BY <1>6, <1>7
  <2> QED BY <2>1 DEF ToSet
<1> QED BY <1>6, <1>7, <1>8, <1>9 DEF T

LEMMA MapiFields ==
  ASSUME NEW a \in Mapi
  PROVE  /\ a.loaded \in BOOLEAN /\ a.version \in {"none", "good", "bad"} /\ a.fatal \in BOOLEAN
         /\ a.starting \in BOOLEAN /\ a.slots \in [1..MaxCourses -> Course] /\ a.count \in 0..MaxCourses
         /\ a.sorted \in Seq(1..MaxCourses) /\ a.triggers \in Seq(TriggerType)
         /\ a = [loaded |-> a.loaded, version |-> a.version, fatal |-> a.fatal, starting |-> a.starting,
                 slots |-> a.slots, count |-> a.count, sorted |-> a.sorted, triggers |-> a.triggers]
BY DEF Mapi

LEMMA MapiIs ==
  ASSUME NEW a \in Mapi, NEW t \in Seq(TriggerType)
  PROVE  /\ [a EXCEPT !.triggers = t] \in Mapi
         /\ [a EXCEPT !.triggers = t] = [loaded |-> a.loaded, version |-> a.version, fatal |-> a.fatal,
                 starting |-> a.starting, slots |-> a.slots, count |-> a.count, sorted |-> a.sorted,
                 triggers |-> t]
BY DEF Mapi

LEMMA SizesAre == MaxCourses \in Nat \ {0} /\ MaxNum \in Nat
BY MappingApiAssumption

LEMMA BlankIs == Blank \in Course /\ Fresh \in Mapi /\ Created(Fresh) /\ Fresh.starting = FALSE
<1>1. Blank \in Course
  <2>1. PICK e, n : e = "" /\ n = NoId
    OBVIOUS
  <2>2. e \in Text
    BY <2>1 DEF Text
  <2>3. n \in {NoId} \cup (MapIds \X Text)
    BY <2>1
  <2>4. 0 \in 0..MaxCourses /\ 0 \in Nat /\ 0 \in Int /\ -1 \in Int
    BY SizesAre
  <2>5. Blank = [id |-> 0, name |-> e, target |-> e, hammer |-> -1, guid |-> 0, cps |-> 0, stages |-> 0,
                 localID |-> n]
    BY <2>1 DEF Blank
  <2> QED BY <2>2, <2>3, <2>4, <2>5 DEF Course
<1>2. PICK s : s = [i \in 1..MaxCourses |-> Blank]
  OBVIOUS
<1>3. s \in [1..MaxCourses -> Course]
  BY <1>1, <1>2
<1>4. <<>> \in Seq(1..MaxCourses) /\ <<>> \in Seq(TriggerType) /\ 0 \in 0..MaxCourses
  BY SizesAre
<1>5. Fresh = [loaded |-> FALSE, version |-> "none", fatal |-> FALSE, starting |-> FALSE,
               slots |-> s, count |-> 0, sorted |-> <<>>, triggers |-> <<>>]
  BY <1>2 DEF Fresh
<1>6. Fresh \in Mapi
  BY <1>3, <1>4, <1>5 DEF Mapi
<1>7. Created(Fresh)
  BY <1>5 DEF Created, ToSet
<1> QED BY <1>1, <1>5, <1>6, <1>7

Descriptor == [id : Int, name : Text, target : Text, hammer : Int]
Entity == [type : Types, named : Patterns, course : Text, num : Int]

\* What creating courses and spawning triggers leaves: the types, and whether the round starts.
Keeping(s) == {x \in Mapi : Created(x) /\ x.starting = s}

LEMMA CreateStays ==
  ASSUME NEW s, NEW a \in Keeping(s), NEW d \in Descriptor
  PROVE  Mapi_CreateCourse(a, d) \in Keeping(s)
<1>1. CASE Refused(a, d)
  BY <1>1 DEF Mapi_CreateCourse
<1>2. CASE ~Refused(a, d)
  <2>0. a \in Mapi /\ Created(a) /\ a.starting = s /\ a.count < MaxCourses
    BY <1>2, SizesAre, MapiFields DEF Refused, Keeping
  <2>1. PICK i, c : /\ i = a.count + 1
                    /\ c = [Blank EXCEPT !.id = d.id, !.name = d.name, !.target = d.target,
                                         !.hammer = d.hammer, !.guid = i]
    OBVIOUS
  <2>2. i \in 1..MaxCourses /\ i \in 0..MaxCourses
    BY <2>0, <2>1, SizesAre, MapiFields
  <2>3. c \in Course /\ c.guid = i
    <3>1. d.id \in Int /\ d.name \in Text /\ d.target \in Text /\ d.hammer \in Int
      BY DEF Descriptor
    <3>2. c = [id |-> d.id, name |-> d.name, target |-> d.target, hammer |-> d.hammer, guid |-> i,
               cps |-> 0, stages |-> 0, localID |-> NoId]
      BY <2>1 DEF Blank
    <3> QED BY <2>2, <3>1, <3>2 DEF Course
  <2>4. PICK sl : sl = [a.slots EXCEPT ![i] = c]
    OBVIOUS
  <2>5. sl \in [1..MaxCourses -> Course] /\ sl[i] = c /\ \A k \in 1..MaxCourses : k # i => sl[k] = a.slots[k]
    BY <2>0, <2>2, <2>3, <2>4, MapiFields
  <2>6. PICK b : b = [a EXCEPT !.count = i, !.slots[i] = c]
    OBVIOUS
  <2>7. b = [loaded |-> a.loaded, version |-> a.version, fatal |-> a.fatal, starting |-> a.starting,
             slots |-> sl, count |-> i, sorted |-> a.sorted, triggers |-> a.triggers]
    <3>1. a = [loaded |-> a.loaded, version |-> a.version, fatal |-> a.fatal, starting |-> a.starting,
               slots |-> a.slots, count |-> a.count, sorted |-> a.sorted, triggers |-> a.triggers]
      BY <2>0, MapiFields
    <3>2. PICK l, v, f, st, s0, n, so, tr : /\ l = a.loaded /\ v = a.version /\ f = a.fatal /\ st = a.starting
                                            /\ s0 = a.slots /\ n = a.count /\ so = a.sorted /\ tr = a.triggers
      OBVIOUS
    <3>3. a = [loaded |-> l, version |-> v, fatal |-> f, starting |-> st, slots |-> s0, count |-> n,
               sorted |-> so, triggers |-> tr]
      BY <3>1, <3>2
    <3>4. b = [a EXCEPT !.count = i, !.slots = sl]
      BY <2>4, <2>6, <3>3
    <3>5. b = [loaded |-> l, version |-> v, fatal |-> f, starting |-> st, slots |-> sl, count |-> i,
               sorted |-> so, triggers |-> tr]
      BY <3>3, <3>4
    <3> QED BY <3>2, <3>5
  <2>8. PICK before : before = {k \in DOMAIN a.sorted : b.slots[a.sorted[k]].id <= b.slots[i].id}
    OBVIOUS
  <2>9. PICK m : m = Max({0} \cup before)
    OBVIOUS
  <2>10. m \in 0..Len(a.sorted) /\ a.sorted \in Seq(1..MaxCourses)
    <3>1. a.sorted \in Seq(1..MaxCourses) /\ Len(a.sorted) \in Nat /\ DOMAIN a.sorted = 1..Len(a.sorted)
      BY <2>0, MapiFields
    <3>2. {0} \cup before \subseteq 0..Len(a.sorted) /\ {0} \cup before # {}
      BY <2>8, <3>1
    <3> QED BY <2>9, <3>1, <3>2, Greatest
  <2>11. PICK o : o = InsertAt(a.sorted, 1 + m, i)
    OBVIOUS
  <2>12. o \in Seq(1..MaxCourses) /\ ToSet(o) \subseteq ToSet(a.sorted) \cup {i}
    <3>1. 1 + m \in 1..Len(a.sorted) + 1
      BY <2>10
    <3> QED BY <2>2, <2>10, <2>11, <3>1, InsertAtStays
  <2>13. Mapi_CreateCourse(a, d) = [b EXCEPT !.sorted = o]
    <3>1. InsertSorted(b, i) = o
      BY <2>7, <2>8, <2>9, <2>11 DEF InsertSorted
    <3> QED BY <1>2, <2>1, <2>6, <3>1 DEF Mapi_CreateCourse, NewCourse
  <2>14. PICK e : e = [b EXCEPT !.sorted = o]
    OBVIOUS
  <2>15. e = [loaded |-> a.loaded, version |-> a.version, fatal |-> a.fatal, starting |-> a.starting,
              slots |-> sl, count |-> i, sorted |-> o, triggers |-> a.triggers]
    BY <2>7, <2>14
  <2>16. e \in Mapi
    BY <2>0, <2>2, <2>5, <2>12, <2>15, MapiFields DEF Mapi
  <2>17. Created(e)
    <3>1. ASSUME NEW k \in 1..i PROVE sl[k].guid \in 1..MaxCourses
      <4>1. k = i \/ k \in 1..a.count
        BY <2>0, <2>1, MapiFields
      <4>2. k \in 1..MaxCourses
        BY <2>2, SizesAre
      <4> QED BY <2>0, <2>2, <2>3, <2>5, <4>1, <4>2 DEF Created
    <3>2. ASSUME NEW k \in ToSet(o) PROVE sl[k].guid \in 1..MaxCourses
      <4>1. k = i \/ k \in ToSet(a.sorted)
        BY <2>12
      <4>2. k \in 1..MaxCourses
        <5>1. ToSet(o) \subseteq 1..MaxCourses
          BY <2>12, ToSetStays
        <5> QED BY <5>1
      <4> QED BY <2>0, <2>2, <2>3, <2>5, <4>1, <4>2 DEF Created
    <3> QED BY <2>15, <3>1, <3>2 DEF Created
  <2>18. e.starting = s
    BY <2>0, <2>15
  <2>19. e \in Keeping(s)
    BY <2>16, <2>17, <2>18 DEF Keeping
  <2> QED BY <2>13, <2>14, <2>19
<1> QED BY <1>1, <1>2

LEMMA AddTriggerStays ==
  ASSUME NEW s, NEW a \in Keeping(s), NEW t \in TriggerType
  PROVE  AddTrigger(a, t) \in Keeping(s) /\ \A y \in Mapi : y = AddTrigger(a, t) =>
           y.slots = a.slots /\ y.sorted = a.sorted /\ y.count = a.count
<1>1. a \in Mapi /\ Created(a) /\ a.starting = s
  BY DEF Keeping
<1>2. PICK ts : ts = Append(a.triggers, t)
  OBVIOUS
<1>3. ts \in Seq(TriggerType)
  BY <1>1, <1>2, MapiFields, AppendSet
<1>4. PICK y : y = [a EXCEPT !.triggers = ts]
  OBVIOUS
<1>5. AddTrigger(a, t) = y
  BY <1>2, <1>4 DEF AddTrigger
<1>6. y \in Mapi /\ y = [loaded |-> a.loaded, version |-> a.version, fatal |-> a.fatal, starting |-> a.starting,
                        slots |-> a.slots, count |-> a.count, sorted |-> a.sorted, triggers |-> ts]
  BY <1>1, <1>3, <1>4, MapiIs
<1>7. y.slots = a.slots /\ y.sorted = a.sorted /\ y.count = a.count /\ y.starting = s
  BY <1>1, <1>6
<1>8. Created(y)
  BY <1>1, <1>7 DEF Created
<1> QED BY <1>5, <1>6, <1>7, <1>8 DEF Keeping

ProperEntity ==
  {e \in Entity : /\ e.named \in {"bonus_start", "bonus_end"} => BonusName[e.num] \in Text
                  /\ e.named = "bonus_cp" => BonusName[1] \in Text}

LEMMA EntityFields ==
  ASSUME NEW e \in Entity
  PROVE  e.type \in Types /\ e.named \in Patterns /\ e.course \in Text /\ e.num \in Int
BY DEF Entity

LEMMA TriggerIs ==
  ASSUME NEW type \in Types, NEW course \in Text, NEW num \in Int
  PROVE  Trigger(type, course, num) \in TriggerType
BY DEF Trigger, TriggerType

LEMMA LiteralsAre == Main \in Text /\ "" \in Text /\ "1" \in Text
BY DEF Text, Main

LEMMA BonusStays ==
  ASSUME NEW s, NEW a \in Keeping(s), NEW n \in Int, BonusName[n] \in Text
  PROVE  Mapi_EnsureFakeBonusCourse(a, n) \in Keeping(s)
<1>1. PICK d : d = [id |-> n + 1, name |-> BonusName[n], target |-> BonusName[n], hammer |-> FakeHammerId(n)]
  OBVIOUS
<1>2. n + 1 \in Int
  OBVIOUS
<1>3. FakeHammerId(n) \in Int
  BY SMT DEF FakeHammerId
<1>4. d \in Descriptor
  BY <1>1, <1>2, <1>3 DEF Descriptor
<1> QED BY <1>1, <1>4, CreateStays DEF Mapi_EnsureFakeBonusCourse

LEMMA NamedStays ==
  ASSUME NEW s, NEW a \in Keeping(s), NEW e \in ProperEntity
  PROVE  NamedTrigger(a, e) \in Keeping(s)
<1>1. e \in Entity /\ e.num \in Int /\ e.named \in Patterns
  BY EntityFields DEF ProperEntity
<1>2. 0 \in Int /\ 1 \in Int
  OBVIOUS
<1>3. {"start", "end", "stop", "reset", "stage", "cp", "bonus_start", "bonus_end"} \subseteq Types
  BY DEF Types, ZoneTypes
<1>4. CASE e.named \in {"start", "end"}
  <2>1. e.named \in Types
    BY <1>3, <1>4
  <2>2. Trigger(e.named, Main, 0) \in TriggerType
    BY <1>2, <2>1, TriggerIs, LiteralsAre
  <2> QED BY <1>4, <2>2, AddTriggerStays DEF NamedTrigger
<1>5. CASE e.named \in {"stop", "reset"}
  <2>1. e.named \in Types
    BY <1>3, <1>5
  <2>2. Trigger(e.named, "", 0) \in TriggerType
    BY <1>2, <2>1, TriggerIs, LiteralsAre
  <2> QED BY <1>5, <2>2, AddTriggerStays DEF NamedTrigger
<1>6. CASE e.named = "stage"
  <2>1. PICK type : type = IF e.num = 1 THEN "start" ELSE "stage"
    OBVIOUS
  <2>2. type \in Types
    BY <1>3, <2>1
  <2>3. Trigger(type, Main, e.num) \in TriggerType
    BY <1>1, <2>2, TriggerIs, LiteralsAre
  <2> QED BY <1>6, <2>1, <2>3, AddTriggerStays DEF NamedTrigger
<1>7. CASE e.named = "cp"
  <2>1. "cp" \in Types
    BY <1>3
  <2>2. Trigger("cp", Main, e.num) \in TriggerType
    BY <1>1, <2>1, TriggerIs, LiteralsAre
  <2> QED BY <1>7, <2>2, AddTriggerStays DEF NamedTrigger
<1>8. CASE e.named \in {"bonus_start", "bonus_end"}
  <2>1. BonusName[e.num] \in Text /\ e.named \in Types
    BY <1>3, <1>8 DEF ProperEntity
  <2>2. Trigger(e.named, BonusName[e.num], 0) \in TriggerType
    BY <1>2, <2>1, TriggerIs
  <2>3. Mapi_EnsureFakeBonusCourse(a, e.num) \in Keeping(s)
    BY <1>1, <2>1, BonusStays
  <2> QED BY <1>8, <2>2, <2>3, AddTriggerStays DEF NamedTrigger
<1>9. CASE e.named = "bonus_cp"
  <2>1. BonusName[1] \in Text /\ "cp" \in Types
    BY <1>3, <1>9 DEF ProperEntity
  <2>2. Trigger("cp", BonusName[1], e.num) \in TriggerType
    BY <1>1, <2>1, TriggerIs
  <2>3. Mapi_EnsureFakeBonusCourse(a, 1) \in Keeping(s)
    BY <1>2, <2>1, BonusStays
  <2> QED BY <1>9, <2>2, <2>3, AddTriggerStays DEF NamedTrigger
<1>10. CASE e.named \notin {"start", "end", "stop", "reset", "stage", "cp", "bonus_start", "bonus_end",
            "bonus_cp"}
  BY <1>10 DEF NamedTrigger
<1> QED BY <1>4, <1>5, <1>6, <1>7, <1>8, <1>9, <1>10

\* A trigger leaves a course as it is, or creates one.
LEMMA SpawnStays ==
  ASSUME NEW s, NEW a \in Keeping(s), NEW e \in ProperEntity
  PROVE  SpawnOne(a, e) \in Keeping(s)
<1>1. e \in Entity /\ e.num \in Int /\ e.named \in Patterns /\ e.type \in Types /\ e.course \in Text
  BY EntityFields DEF ProperEntity
<1>2. 0 \in Int /\ Trigger(e.type, "", 0) \in TriggerType /\ Trigger(e.type, e.course, e.num) \in TriggerType
  <2>1. 0 \in Int
    OBVIOUS
  <2> QED BY <1>1, <2>1, TriggerIs, LiteralsAre
<1>3. AddTrigger(a, Trigger(e.type, "", 0)) \in Keeping(s)
      /\ AddTrigger(a, Trigger(e.type, e.course, e.num)) \in Keeping(s)
  BY <1>2, AddTriggerStays
<1>4. NamedTrigger(a, e) \in Keeping(s)
  BY NamedStays
<1>5. Mapi_OnTriggerMultipleSpawn(a, e) \in Keeping(s)
  <2>1. CASE ~a.starting
    BY <2>1 DEF Mapi_OnTriggerMultipleSpawn
  <2>2. CASE a.starting /\ e.type = "disabled"
    <3>1. Mapi_OnTriggerMultipleSpawn(a, e) = IF a.version = "none" THEN NamedTrigger(a, e) ELSE a
      BY <2>2 DEF Mapi_OnTriggerMultipleSpawn, ZoneTypes
    <3> QED BY <3>1, <1>4
  <2>3. CASE a.starting /\ e.type \in ZoneTypes
    <3>1. e.type # "disabled"
      BY <2>3 DEF ZoneTypes
    <3> QED BY <2>3, <3>1, <1>3 DEF Mapi_OnTriggerMultipleSpawn
  <2>4. CASE a.starting /\ e.type \in {"modifier", "push"}
    <3>1. e.type # "disabled" /\ e.type \notin ZoneTypes
      BY <2>4 DEF ZoneTypes
    <3> QED BY <2>4, <3>1, <1>3 DEF Mapi_OnTriggerMultipleSpawn
  <2>5. CASE a.starting /\ e.type # "disabled" /\ e.type \notin ZoneTypes /\ e.type \notin {"modifier", "push"}
    BY <2>5 DEF Mapi_OnTriggerMultipleSpawn
  <2> QED BY <2>1, <2>2, <2>3, <2>4, <2>5
<1> QED BY <1>3, <1>5 DEF SpawnOne

\* After the start of the round only triggers are added.
SameCourses(a) == {x \in Keeping(FALSE) : x.slots = a.slots /\ x.sorted = a.sorted /\ x.count = a.count}

LEMMA LateStays ==
  ASSUME NEW b, NEW a \in SameCourses(b), NEW e \in ProperEntity
  PROVE  SpawnOne(a, e) \in SameCourses(b)
<1>0. a \in Keeping(FALSE) /\ a.slots = b.slots /\ a.sorted = b.sorted /\ a.count = b.count
  BY DEF SameCourses
<1>1. CASE e.type = "other"
  <2>1. Trigger(e.type, "", 0) \in TriggerType
    <3>1. e.type \in Types /\ 0 \in Int
      BY EntityFields DEF ProperEntity
    <3> QED BY <3>1, TriggerIs, LiteralsAre
  <2>2. PICK y : y = AddTrigger(a, Trigger(e.type, "", 0))
    OBVIOUS
  <2>3. y \in Keeping(FALSE)
    BY <1>0, <2>1, <2>2, AddTriggerStays
  <2>4. y \in Mapi
    BY <2>3 DEF Keeping
  <2>5. y.slots = a.slots /\ y.sorted = a.sorted /\ y.count = a.count
    BY <1>0, <2>1, <2>2, <2>4, AddTriggerStays
  <2> QED BY <1>0, <1>1, <2>2, <2>3, <2>5 DEF SpawnOne, SameCourses
<1>2. CASE e.type # "other"
  <2>1. ~a.starting
    BY <1>0 DEF Keeping
  <2>2. SpawnOne(a, e) = a
    BY <1>2, <2>1 DEF SpawnOne, Mapi_OnTriggerMultipleSpawn
  <2> QED BY <2>2
<1> QED BY <1>1, <1>2

LEMMA EntitiesAre == \A m \in Maps : Entities[m] \in Seq(ProperEntity)
<1> SUFFICES ASSUME NEW m \in Maps PROVE Entities[m] \in Seq(ProperEntity)
  OBVIOUS
<1>1. PICK es : es = Entities[m]
  OBVIOUS
<1>2. es \in Seq([type : Types, named : Patterns, course : STRING, num : Int])
  BY <1>1, MappingApiAssumption
<1>3. ASSUME NEW i \in 1..Len(es) PROVE es[i] \in ProperEntity
  <2>1. es[i] \in [type : Types, named : Patterns, course : STRING, num : Int]
    BY <1>2, ElementOfSeq
  <2>2. es[i] \in Entity
    BY <2>1 DEF Entity, Text
  <2>3. es[i] \in ToSet(es)
    BY <1>2 DEF ToSet
  <2>4. /\ es[i].named \in {"bonus_start", "bonus_end"} => BonusName[es[i].num] \in STRING
        /\ es[i].named = "bonus_cp" => BonusName[1] \in STRING
    BY <1>1, <2>3, MappingApiAssumption
  <2> QED BY <2>2, <2>4 DEF ProperEntity, Text
<1>4. Len(es) \in Nat /\ es = [i \in 1..Len(es) |-> es[i]]
  BY <1>2
<1>5. es \in Seq(ProperEntity)
  BY <1>3, <1>4
<1> QED BY <1>1, <1>5

LEMMA DescriptorsAre == \A m \in Maps : Descriptors[m] \in Seq(Descriptor)
<1> SUFFICES ASSUME NEW m \in Maps PROVE Descriptors[m] \in Seq(Descriptor)
  OBVIOUS
<1>1. PICK ds : ds = Descriptors[m]
  OBVIOUS
<1>2. ds \in Seq([id : Int, name : STRING, target : STRING, hammer : Int])
  BY <1>1, MappingApiAssumption
<1>3. ASSUME NEW i \in 1..Len(ds) PROVE ds[i] \in Descriptor
  <2>1. ds[i] \in [id : Int, name : STRING, target : STRING, hammer : Int]
    BY <1>2, ElementOfSeq
  <2> QED BY <2>1 DEF Descriptor, Text
<1>4. Len(ds) \in Nat /\ ds = [i \in 1..Len(ds) |-> ds[i]]
  BY <1>2
<1>5. ds \in Seq(Descriptor)
  BY <1>3, <1>4
<1> QED BY <1>1, <1>5

\* The events of the engine.
LEMMA SpawnKeeps ==
  ASSUME NEW m \in Maps, NEW s, NEW a \in Keeping(s) PROVE OnSpawn(a, Entities[m]) \in Keeping(s)
BY EntitiesAre, SpawnStays, OnSpawnStays

LEMMA LateSpawnKeeps ==
  ASSUME NEW m \in Maps, NEW a \in Keeping(FALSE) PROVE OnSpawn(a, Entities[m]) \in SameCourses(a)
<1>1. a \in SameCourses(a)
  BY DEF SameCourses
<1> QED BY <1>1, EntitiesAre, LateStays, OnSpawnStays

LEMMA LoadingKeeps ==
  ASSUME NEW m \in Maps, NEW s, NEW a \in Keeping(s) PROVE OnCreateLoadingSpawnGroup(a, m) \in Keeping(s)
<1>0. a \in Mapi /\ Created(a) /\ a.starting = s /\ Version[m] \in {"none", "good", "bad"}
  BY MappingApiAssumption DEF Keeping
<1>1. PICK b, f : b = [a EXCEPT !.loaded = TRUE, !.version = Version[m]] /\ f = [b EXCEPT !.fatal = TRUE]
  OBVIOUS
<1>2. b \in Keeping(s) /\ f \in Keeping(s)
  <2>1. /\ b = [loaded |-> TRUE, version |-> Version[m], fatal |-> a.fatal, starting |-> a.starting,
                slots |-> a.slots, count |-> a.count, sorted |-> a.sorted, triggers |-> a.triggers]
        /\ f = [loaded |-> TRUE, version |-> Version[m], fatal |-> TRUE, starting |-> a.starting,
                slots |-> a.slots, count |-> a.count, sorted |-> a.sorted, triggers |-> a.triggers]
    <3>1. a = [loaded |-> a.loaded, version |-> a.version, fatal |-> a.fatal, starting |-> a.starting,
               slots |-> a.slots, count |-> a.count, sorted |-> a.sorted, triggers |-> a.triggers]
      BY <1>0, MapiFields
    <3>2. PICK l, v, w, c, st, s0, n, so, tr :
            /\ l = a.loaded /\ v = a.version /\ c = a.fatal /\ st = a.starting /\ s0 = a.slots
            /\ n = a.count /\ so = a.sorted /\ tr = a.triggers /\ w = Version[m]
      OBVIOUS
    <3>3. a = [loaded |-> l, version |-> v, fatal |-> c, starting |-> st, slots |-> s0, count |-> n,
               sorted |-> so, triggers |-> tr]
      BY <3>1, <3>2
    <3>4. b = [loaded |-> TRUE, version |-> w, fatal |-> c, starting |-> st, slots |-> s0, count |-> n,
               sorted |-> so, triggers |-> tr]
      BY <1>1, <3>2, <3>3
    <3>5. f = [loaded |-> TRUE, version |-> w, fatal |-> TRUE, starting |-> st, slots |-> s0, count |-> n,
               sorted |-> so, triggers |-> tr]
      <4>1. f = [b EXCEPT !.fatal = TRUE]
        BY <1>1
      <4> QED BY <4>1, <3>4
    <3> QED BY <3>2, <3>4, <3>5
  <2>2. b \in Mapi /\ f \in Mapi
    BY <1>0, <2>1, MapiFields DEF Mapi
  <2>3. b.starting = s /\ f.starting = s
    BY <1>0, <2>1
  <2>4. Created(b) /\ Created(f)
    BY <1>0, <2>1 DEF Created
  <2> QED BY <2>2, <2>3, <2>4 DEF Keeping
<1>3. PICK d : d = [id |-> 1, name |-> Main, target |-> Main, hammer |-> -1]
  OBVIOUS
<1>4. d \in Descriptor
  <2>1. 1 \in Int /\ -1 \in Int
    OBVIOUS
  <2> QED BY <1>3, <2>1, LiteralsAre DEF Descriptor
<1>5. Mapi_CreateCourse(b, d) \in Keeping(s)
  BY <1>2, <1>4, CreateStays
<1>6. \A x \in Keeping(s), y \in Descriptor : Mapi_OnInfoTargetSpawn(x, y) \in Keeping(s)
  BY CreateStays DEF Mapi_OnInfoTargetSpawn
<1>7. DeclaredBy(b, Descriptors[m]) \in Keeping(s)
  BY <1>2, <1>6, DescriptorsAre, DeclaredStay
<1>8. OnCreateLoadingSpawnGroup(a, m) =
        IF a.loaded THEN a
        ELSE CASE Version[m] = "none" -> Mapi_CreateCourse(b, d)
               [] Version[m] = "bad"  -> f
               [] Version[m] = "good" -> DeclaredBy(b, Descriptors[m])
  BY <1>1, <1>3 DEF OnCreateLoadingSpawnGroup, DeclaredBy, Declares1
<1>9. CASE a.loaded
  BY <1>8, <1>9
<1>10. CASE ~a.loaded /\ Version[m] = "none"
  BY <1>5, <1>8, <1>10
<1>11. CASE ~a.loaded /\ Version[m] = "bad"
  BY <1>2, <1>8, <1>11
<1>12. CASE ~a.loaded /\ Version[m] = "good"
  BY <1>7, <1>8, <1>12
<1> QED BY <1>0, <1>9, <1>10, <1>11, <1>12

LEMMA PreStartKeeps == ASSUME NEW a \in Mapi, Created(a) PROVE OnRoundPreStart(a) \in Keeping(TRUE)
<1>1. PICK b : b = [a EXCEPT !.triggers = <<>>, !.starting = TRUE]
  OBVIOUS
<1>2. b = [loaded |-> a.loaded, version |-> a.version, fatal |-> a.fatal, starting |-> TRUE,
           slots |-> a.slots, count |-> a.count, sorted |-> a.sorted, triggers |-> <<>>]
  <2>1. a = [loaded |-> a.loaded, version |-> a.version, fatal |-> a.fatal, starting |-> a.starting,
             slots |-> a.slots, count |-> a.count, sorted |-> a.sorted, triggers |-> a.triggers]
    BY MapiFields
  <2>2. PICK l, v, c, st, s0, n, so, tr :
          /\ l = a.loaded /\ v = a.version /\ c = a.fatal /\ st = a.starting /\ s0 = a.slots
          /\ n = a.count /\ so = a.sorted /\ tr = a.triggers
    OBVIOUS
  <2>3. a = [loaded |-> l, version |-> v, fatal |-> c, starting |-> st, slots |-> s0, count |-> n,
             sorted |-> so, triggers |-> tr]
    BY <2>1, <2>2
  <2>4. b = [loaded |-> l, version |-> v, fatal |-> c, starting |-> TRUE, slots |-> s0, count |-> n,
             sorted |-> so, triggers |-> <<>>]
    BY <1>1, <2>3
  <2> QED BY <2>2, <2>4
<1>3. <<>> \in Seq(TriggerType)
  OBVIOUS
<1>4. b \in Mapi
  BY <1>2, <1>3, MapiFields DEF Mapi
<1>5. Created(b) /\ b.starting = TRUE
  BY <1>2 DEF Created
<1> QED BY <1>1, <1>4, <1>5 DEF Keeping, OnRoundPreStart

LEMMA Smallest ==
  ASSUME NEW T, T \subseteq Nat, T # {} PROVE Min(T) \in T /\ \A y \in T : Min(T) <= y
<1>1. PICK m \in T : \A y \in T : m <= y
  BY LeastNatural
<1> QED BY <1>1 DEF Min

LEMMA StagesAre ==
  ASSUME NEW a \in Mapi, NEW c PROVE Cardinality(StageTriggers(a, c)) \in Nat
<1>1. a.triggers \in Seq(TriggerType)
  BY MapiFields
<1>2. Len(a.triggers) \in Nat /\ DOMAIN a.triggers = 1..Len(a.triggers)
  BY <1>1
<1>3. IsFiniteSet(1..Len(a.triggers))
  BY <1>2, FS_Interval
<1>4. StageTriggers(a, c) \subseteq 1..Len(a.triggers)
  BY <1>2 DEF StageTriggers
<1>5. IsFiniteSet(StageTriggers(a, c))
  BY <1>3, <1>4, FS_Subset
<1> QED BY <1>5, FS_CardinalityType

\* A course is counted when it is valid.
LEMMA CountedStays ==
  ASSUME NEW a \in Mapi, NEW c \in Course, ~Invalid(a, c)
  PROVE  Counted(a, c) \in Course /\ Counted(a, c).guid = c.guid /\ Counted(a, c).name = c.name
<1>1. CpNums(a, c) \subseteq 0..MaxNum
  <2>1. CpNums(a, c) \subseteq Int
    <3>1. a.triggers \in Seq(TriggerType)
      BY MapiFields
    <3>2. ToSet(a.triggers) \subseteq TriggerType
      BY <3>1, ToSetStays
    <3>3. \A t \in TriggerType : t.num \in Int
      BY DEF TriggerType
    <3> QED BY <3>2, <3>3 DEF CpNums
  <2>2. \A n \in CpNums(a, c) : n >= 1 /\ n < MaxNum
    BY DEF Invalid, InRange
  <2> QED BY <2>1, <2>2, SizesAre
<1>2. MaxCp(a, c) \in Nat
  <2>1. CASE CpNums(a, c) = {}
    BY <2>1 DEF MaxCp
  <2>2. CASE CpNums(a, c) # {}
    <3>1. Max(CpNums(a, c)) \in CpNums(a, c)
      BY <1>1, <2>2, SizesAre, Greatest
    <3> QED BY <1>1, <2>2, <3>1 DEF MaxCp
  <2> QED BY <2>1, <2>2
<1>3. Cardinality(StageTriggers(a, c)) \in Nat
  BY StagesAre
<1>4. PICK k, n, d : k = MaxCp(a, c) /\ n = Cardinality(StageTriggers(a, c)) /\ d = Counted(a, c)
  OBVIOUS
<1>5. d = [c EXCEPT !.cps = k, !.stages = n]
  BY <1>4 DEF Counted
<1>6. k \in Nat /\ n \in Nat
  BY <1>2, <1>3, <1>4
<1>7. d \in Course /\ d.guid = c.guid /\ d.name = c.name
  BY <1>5, <1>6 DEF Course
<1> QED BY <1>4, <1>7

LEMMA RoundStartKeeps ==
  ASSUME NEW a \in Mapi, Created(a) PROVE OnRoundStart(a) \in Keeping(FALSE)
<1>0. a.slots \in [1..MaxCourses -> Course] /\ a.count \in 0..MaxCourses /\ DOMAIN a.slots = 1..MaxCourses
  BY MapiFields
<1>1. PICK bad : bad = {i \in 1..a.count : Invalid(a, a.slots[i])}
  OBVIOUS
<1>2. PICK last : last = IF bad = {} THEN a.count ELSE Min(bad) - 1
  OBVIOUS
<1>3. /\ last \in 0..a.count
      /\ \A i \in 1..MaxCourses : i <= last => i \in 1..a.count /\ i \notin bad
      /\ bad # {} => last + 1 \in 1..a.count
  <2>1. bad \subseteq Nat /\ bad \subseteq 1..a.count
    BY <1>1
  <2>2. CASE bad = {}
    BY <1>0, <1>2, <2>2, SizesAre
  <2>3. CASE bad # {}
    <3>1. PICK m : m = Min(bad)
      OBVIOUS
    <3>2. m \in bad /\ \A y \in bad : m <= y
      BY <2>1, <2>3, <3>1, Smallest
    <3>3. last = m - 1 /\ m \in 1..a.count
      BY <1>2, <2>1, <2>3, <3>1, <3>2
    <3> QED BY <1>0, <3>2, <3>3, SizesAre
  <2> QED BY <2>2, <2>3
<1>4. PICK sl : sl = [i \in DOMAIN a.slots |-> IF i <= last THEN Counted(a, a.slots[i]) ELSE a.slots[i]]
  OBVIOUS
<1>5. ASSUME NEW i \in 1..MaxCourses PROVE sl[i] \in Course /\ sl[i].guid = a.slots[i].guid
  <2>1. a.slots[i] \in Course
    BY <1>0
  <2>2. CASE i <= last
    <3>1. ~Invalid(a, a.slots[i])
      BY <1>1, <1>3, <2>2
    <3>2. sl[i] = Counted(a, a.slots[i])
      BY <1>0, <1>4, <2>2
    <3> QED BY <2>1, <3>1, <3>2, CountedStays
  <2>3. CASE ~(i <= last)
    BY <1>0, <1>4, <2>1, <2>3
  <2> QED BY <2>2, <2>3
<1>6. sl \in [1..MaxCourses -> Course]
  <2>1. sl = [i \in 1..MaxCourses |-> sl[i]]
    BY <1>0, <1>4
  <2> QED BY <1>5, <2>1
<1>7. PICK b : b = [a EXCEPT !.starting = FALSE, !.slots = sl]
  OBVIOUS
<1>8. b = [loaded |-> a.loaded, version |-> a.version, fatal |-> a.fatal, starting |-> FALSE,
           slots |-> sl, count |-> a.count, sorted |-> a.sorted, triggers |-> a.triggers]
  <2>1. a = [loaded |-> a.loaded, version |-> a.version, fatal |-> a.fatal, starting |-> a.starting,
             slots |-> a.slots, count |-> a.count, sorted |-> a.sorted, triggers |-> a.triggers]
    BY MapiFields
  <2>2. PICK l, v, c, st, s0, n, so, tr :
          /\ l = a.loaded /\ v = a.version /\ c = a.fatal /\ st = a.starting /\ s0 = a.slots
          /\ n = a.count /\ so = a.sorted /\ tr = a.triggers
    OBVIOUS
  <2>3. a = [loaded |-> l, version |-> v, fatal |-> c, starting |-> st, slots |-> s0, count |-> n,
             sorted |-> so, triggers |-> tr]
    BY <2>1, <2>2
  <2>4. b = [loaded |-> l, version |-> v, fatal |-> c, starting |-> FALSE, slots |-> sl, count |-> n,
             sorted |-> so, triggers |-> tr]
    BY <1>7, <2>3
  <2> QED BY <2>2, <2>4
<1>9. OnRoundStart(a) = IF bad = {} THEN b ELSE FastRemove(b, last + 1)
  BY <1>1, <1>2, <1>4, <1>7 DEF OnRoundStart
<1>10. ASSUME NEW k \in 1..a.count \cup ToSet(a.sorted)
       PROVE  k \in 1..MaxCourses /\ a.slots[k].guid \in 1..MaxCourses
  <2>1. a.sorted \in Seq(1..MaxCourses)
    BY MapiFields
  <2>2. ToSet(a.sorted) \subseteq 1..MaxCourses
    BY <2>1, ToSetStays
  <2>3. 1..a.count \subseteq 1..MaxCourses
    BY <1>0, SizesAre
  <2> QED BY <2>2, <2>3 DEF Created
<1>11. b \in Mapi
  BY <1>6, <1>8, MapiFields DEF Mapi
<1>12. Created(b)
  BY <1>5, <1>8, <1>10 DEF Created
<1>13. CASE bad = {}
  <2>1. b.starting = FALSE
    BY <1>8
  <2> QED BY <1>9, <1>11, <1>12, <1>13, <2>1 DEF Keeping
<1>14. CASE bad # {}
  <2>1. PICK i, n : i = last + 1 /\ n = a.count - 1
    OBVIOUS
  <2>2. i \in 1..MaxCourses /\ n \in 0..MaxCourses /\ a.count \in 1..MaxCourses /\ a.count \in 1..a.count
        /\ 1..n \subseteq 1..a.count
    BY <1>0, <1>3, <1>14, <2>1, SizesAre
  <2>3. PICK t : t = [sl EXCEPT ![i] = sl[a.count]]
    OBVIOUS
  <2>4. t \in [1..MaxCourses -> Course] /\ t[i] = sl[a.count] /\ \A k \in 1..MaxCourses : k # i => t[k] = sl[k]
    BY <1>6, <2>2, <2>3
  <2>5. PICK e : e = [b EXCEPT !.slots[i] = b.slots[b.count], !.count = @ - 1]
    OBVIOUS
  <2>6. e = [loaded |-> a.loaded, version |-> a.version, fatal |-> a.fatal, starting |-> FALSE,
             slots |-> t, count |-> n, sorted |-> a.sorted, triggers |-> a.triggers]
    <3>1. PICK l, v, c, m, so, tr :
            /\ l = a.loaded /\ v = a.version /\ c = a.fatal
            /\ m = a.count /\ so = a.sorted /\ tr = a.triggers
      OBVIOUS
    <3>2. b = [loaded |-> l, version |-> v, fatal |-> c, starting |-> FALSE, slots |-> sl, count |-> m,
               sorted |-> so, triggers |-> tr]
      BY <1>8, <3>1
    <3>3. b.slots = sl /\ b.count = m
      BY <3>2
    <3>4. e = [b EXCEPT !.slots = t, !.count = n]
      BY <2>1, <2>3, <2>5, <3>1, <3>2, <3>3
    <3>5. e = [loaded |-> l, version |-> v, fatal |-> c, starting |-> FALSE, slots |-> t, count |-> n,
               sorted |-> so, triggers |-> tr]
      BY <3>2, <3>4
    <3> QED BY <3>1, <3>5
  <2>7. e \in Mapi
    BY <2>2, <2>4, <2>6, MapiFields DEF Mapi
  <2>8. ASSUME NEW k \in 1..MaxCourses, a.slots[k].guid \in 1..MaxCourses PROVE t[k].guid \in 1..MaxCourses
    <3>1. CASE k = i
      <4>1. a.slots[a.count].guid \in 1..MaxCourses
        BY <1>10, <2>2
      <4>2. t[k].guid = a.slots[a.count].guid
        BY <1>5, <2>2, <2>4, <3>1
      <4> QED BY <4>1, <4>2
    <3>2. CASE k # i
      BY <1>5, <2>4, <2>8, <3>2
    <3> QED BY <3>1, <3>2
  <2>9. Created(e)
    BY <1>10, <2>2, <2>6, <2>8 DEF Created
  <2>10. e.starting = FALSE
    BY <2>6
  <2>11. FastRemove(b, i) = e
    BY <2>5 DEF FastRemove
  <2> QED BY <1>9, <1>14, <2>1, <2>7, <2>9, <2>10, <2>11 DEF Keeping
<1> QED BY <1>13, <1>14

\* An answer enters ids only, and each into the course that is found.
LEMMA UpdateKeeps ==
  ASSUME NEW s, NEW a \in Keeping(s), NEW rows, rows \subseteq MapIds \X Text,
         NEW b, b = UpdateCourseLocalIDs(a, rows)
  PROVE  /\ b \in Keeping(s) /\ b.sorted = a.sorted
         /\ \A i \in 1..MaxCourses :
              /\ b.slots[i].name = a.slots[i].name
              /\ IsFirstOfName(a, i) /\ (\E r \in rows : r[2] = a.slots[i].name) =>
                   b.slots[i].localID \in rows /\ b.slots[i].localID[2] = a.slots[i].name
<1>0. a \in Mapi /\ Created(a) /\ a.starting = s
  BY DEF Keeping
<1>1. a.slots \in [1..MaxCourses -> Course] /\ DOMAIN a.slots = 1..MaxCourses /\ a.sorted \in Seq(1..MaxCourses)
  BY <1>0, MapiFields
<1> DEFINE mine(i) == {r \in rows : r[2] = a.slots[i].name}
<1>2. PICK sl : sl = [i \in DOMAIN a.slots |->
         IF IsFirstOfName(a, i) /\ mine(i) # {} THEN [a.slots[i] EXCEPT !.localID = CHOOSE r \in mine(i) : TRUE]
         ELSE a.slots[i]]
  OBVIOUS
<1>3. ASSUME NEW i \in 1..MaxCourses
      PROVE  /\ sl[i] \in Course /\ sl[i].guid = a.slots[i].guid /\ sl[i].name = a.slots[i].name
             /\ IsFirstOfName(a, i) /\ mine(i) # {} => sl[i].localID \in mine(i)
  <2>1. a.slots[i] \in Course
    BY <1>1
  <2>2. CASE IsFirstOfName(a, i) /\ mine(i) # {}
    <3>1. PICK r : r = CHOOSE x \in mine(i) : TRUE
      OBVIOUS
    <3>2. r \in mine(i)
      BY <2>2, <3>1
    <3>3. PICK c, d : c = a.slots[i] /\ d = [c EXCEPT !.localID = r]
      OBVIOUS
    <3>4. sl[i] = d
      BY <1>1, <1>2, <2>2, <3>1, <3>3
    <3>5. r \in MapIds \X Text
      BY <3>2
    <3>6. c \in Course
      BY <2>1, <3>3
    <3>7. d \in Course /\ d.guid = c.guid /\ d.name = c.name /\ d.localID = r
      BY <3>3, <3>5, <3>6 DEF Course
    <3> QED BY <3>2, <3>3, <3>4, <3>7
  <2>3. CASE ~(IsFirstOfName(a, i) /\ mine(i) # {})
    <3>1. sl[i] = a.slots[i]
      BY <1>1, <1>2, <2>3
    <3> QED BY <2>1, <2>3, <3>1
  <2> QED BY <2>2, <2>3
<1>4. sl \in [1..MaxCourses -> Course]
  <2>1. sl = [i \in 1..MaxCourses |-> sl[i]]
    BY <1>1, <1>2
  <2> QED BY <1>3, <2>1
<1>5. b = [a EXCEPT !.slots = sl]
  BY <1>2 DEF UpdateCourseLocalIDs
<1>6. b = [loaded |-> a.loaded, version |-> a.version, fatal |-> a.fatal, starting |-> a.starting,
           slots |-> sl, count |-> a.count, sorted |-> a.sorted, triggers |-> a.triggers]
  BY <1>0, <1>5, MapiFields
<1>7. b \in Mapi
  BY <1>0, <1>4, <1>6, MapiFields DEF Mapi
<1>8. Created(b)
  <2>1. a.count \in 0..MaxCourses
    BY <1>0, MapiFields
  <2>2. ASSUME NEW k \in 1..a.count \cup ToSet(a.sorted)
        PROVE  k \in 1..MaxCourses /\ a.slots[k].guid \in 1..MaxCourses
    <3>1. ToSet(a.sorted) \subseteq 1..MaxCourses
      BY <1>1, ToSetStays
    <3>2. 1..a.count \subseteq 1..MaxCourses
      BY <2>1, SizesAre
    <3> QED BY <1>0, <3>1, <3>2 DEF Created
  <2>3. \A k \in 1..MaxCourses : sl[k].guid = a.slots[k].guid
    BY <1>3
  <2>4. b.slots = sl /\ b.count = a.count /\ b.sorted = a.sorted
    BY <1>6
  <2> QED BY <2>2, <2>3, <2>4 DEF Created
<1>9. b \in Keeping(s) /\ b.sorted = a.sorted /\ b.slots = sl
  BY <1>0, <1>6, <1>7, <1>8 DEF Keeping
<1>10. ASSUME NEW i \in 1..MaxCourses
       PROVE  /\ b.slots[i].name = a.slots[i].name
              /\ IsFirstOfName(a, i) /\ (\E r \in rows : r[2] = a.slots[i].name) =>
                   b.slots[i].localID \in rows /\ b.slots[i].localID[2] = a.slots[i].name
  BY <1>3, <1>9
<1> QED BY <1>9, <1>10

\* Who is found, and the names, depend on the pointers and the names only.
LEMMA NamesStay ==
  ASSUME NEW a \in Mapi, NEW b \in Mapi, b.sorted = a.sorted,
         \A i \in 1..MaxCourses : b.slots[i].name = a.slots[i].name
  PROVE  /\ CourseNames(b) = CourseNames(a)
         /\ \A i \in 1..MaxCourses : IsFirstOfName(b, i) <=> IsFirstOfName(a, i)
<1>1. a.sorted \in Seq(1..MaxCourses)
  BY MapiFields
<1>2. PICK so, x, y : so = a.sorted /\ x = Sorted(a) /\ y = Sorted(b)
  OBVIOUS
<1>3. so \in Seq(1..MaxCourses) /\ DOMAIN so = 1..Len(so) /\ Len(so) \in Nat
  BY <1>1, <1>2
<1>4. ASSUME NEW k \in 1..Len(so) PROVE so[k] \in 1..MaxCourses
  BY <1>3, ElementOfSeq
<1>5. x = [k \in 1..Len(so) |-> a.slots[so[k]]] /\ y = [k \in 1..Len(so) |-> b.slots[so[k]]]
  BY <1>2, <1>3 DEF Sorted
<1>6. \A k \in 1..Len(so) : x[k].name = y[k].name
  BY <1>4, <1>5
<1>7. CourseNames(b) = CourseNames(a)
  <2>1. DOMAIN x = 1..Len(so) /\ DOMAIN y = 1..Len(so)
    BY <1>5
  <2>2. CourseNames(a) = {x[k].name : k \in 1..Len(so)} /\ CourseNames(b) = {y[k].name : k \in 1..Len(so)}
    BY <1>2, <2>1 DEF CourseNames, ToSet
  <2> QED BY <1>6, <2>2
<1>8. ASSUME NEW i \in 1..MaxCourses PROVE IsFirstOfName(b, i) <=> IsFirstOfName(a, i)
  <2>1. \A k \in 1..Len(so) : \A j \in 1..k - 1 : j \in 1..Len(so)
    BY <1>3
  <2> QED BY <1>2, <1>3, <1>6, <2>1 DEF IsFirstOfName
<1> QED BY <1>7, <1>8

LEMMA FoundName ==
  ASSUME NEW a \in Mapi, NEW i \in 1..MaxCourses, IsFirstOfName(a, i)
  PROVE  a.slots[i].name \in CourseNames(a)
<1>1. PICK k \in DOMAIN a.sorted : a.sorted[k] = i
  BY DEF IsFirstOfName
<1>2. Sorted(a)[k] = a.slots[i] /\ k \in DOMAIN Sorted(a)
  BY <1>1 DEF Sorted
<1> QED BY <1>2 DEF CourseNames, ToSet

LEMMA CourseNamesAre == ASSUME NEW a \in Mapi PROVE CourseNames(a) \subseteq Text
<1>1. a.sorted \in Seq(1..MaxCourses) /\ a.slots \in [1..MaxCourses -> Course]
  BY MapiFields
<1>2. ASSUME NEW k \in DOMAIN a.sorted PROVE a.slots[a.sorted[k]].name \in Text
  <2>1. a.sorted[k] \in 1..MaxCourses
    <3>1. a.sorted[k] \in ToSet(a.sorted)
      BY DEF ToSet
    <3> QED BY <1>1, <3>1, ToSetStays
  <2>2. a.slots[a.sorted[k]] \in Course
    BY <1>1, <2>1
  <2> QED BY <2>2 DEF Course
<1> QED BY <1>2 DEF CourseNames, Sorted, ToSet

------------------------------------------------------------------------------
(* What an answer and a new query leave of the queue. *)

\* q asks for maps and courses no less than p, in the same order.
AsksSame(p, q) ==
  /\ \A m : MapAsked(p, m) => MapAsked(q, m)
  /\ NoCourses(p) <=> NoCourses(q)
  /\ Without(p, {"map"}) => Without(q, {"map"})
  /\ \A m, names : LastIsOurs(p, m, names) => LastIsOurs(q, m, names)

LEMMA LastStays ==
  ASSUME NEW S, NEW q \in Seq(S), NEW x \in S, x.kind # "courses", NEW m, NEW names, LastIsOurs(q, m, names)
  PROVE  LastIsOurs(Append(q, x), m, names)
<1>1. PICK a : a = Append(q, x)
  OBVIOUS
<1>2. PICK i \in DOMAIN q : /\ q[i].kind = "courses" /\ q[i].map = m /\ names \subseteq q[i].names
                            /\ \A j \in DOMAIN q : j > i => q[j].kind # "courses"
  BY DEF LastIsOurs
<1>3. Len(a) = Len(q) + 1 /\ a[Len(q) + 1] = x /\ \A k \in 1..Len(q) : a[k] = q[k]
  BY <1>1, AppendSet
<1>4. a \in Seq(S)
  BY <1>1, AppendSet
<1>5. Len(q) \in Nat /\ DOMAIN q = 1..Len(q) /\ DOMAIN a = 1..Len(q) + 1
  BY <1>3, <1>4
<1>6. i \in DOMAIN a /\ a[i] = q[i]
  BY <1>3, <1>5
<1>7. \A j \in DOMAIN a : j > i => a[j].kind # "courses"
  BY <1>2, <1>3, <1>5
<1>8. LastIsOurs(a, m, names)
  BY <1>2, <1>6, <1>7 DEF LastIsOurs
<1> QED BY <1>1, <1>8

LEMMA AppendKeeps ==
  ASSUME NEW S, NEW q \in Seq(S), NEW x \in S
  PROVE  /\ Alone(q) /\ x.kind \notin Migrating => Alone(Append(q, x))
         /\ Without(q, Migrating) => Alone(Append(q, x))
         /\ \A m, names : x.kind = "courses" /\ x.map = m /\ names \subseteq x.names
            => LastIsOurs(Append(q, x), m, names)
<1>0. PICK a : a = Append(q, x)
  OBVIOUS
<1>1. /\ a \in Seq(S) /\ Len(a) = Len(q) + 1 /\ a[Len(q) + 1] = x
      /\ \A i \in 1..Len(q) : a[i] = q[i]
      /\ ToSet(a) = ToSet(q) \cup {x}
  BY <1>0, AppendSet
<1>2. Len(q) \in Nat /\ DOMAIN q = 1..Len(q) /\ DOMAIN a = 1..Len(q) + 1
  BY <1>1
<1>3. ASSUME NEW i \in DOMAIN a PROVE i = Len(q) + 1 \/ i \in DOMAIN q
  BY <1>2
<1>4. ASSUME NEW i \in DOMAIN q PROVE i \in DOMAIN a /\ a[i] = q[i] /\ q[i] \in ToSet(q) /\ i < Len(q) + 1
  BY <1>1, <1>2 DEF ToSet
<1>5. Alone(q) /\ x.kind \notin Migrating => Alone(a)
  BY <1>1, <1>3, <1>4 DEF Alone
<1>6. Without(q, Migrating) => Alone(a)
  BY <1>1, <1>3, <1>4 DEF Alone, Without

<1>8. ASSUME NEW m, NEW names, x.kind = "courses", x.map = m, names \subseteq x.names
      PROVE  LastIsOurs(a, m, names)
  <2>1. Len(q) + 1 \in DOMAIN a /\ \A j \in DOMAIN a : ~(j > Len(q) + 1)
    BY <1>2
  <2> QED BY <1>1, <1>8, <2>1 DEF LastIsOurs
<1> QED BY <1>0, <1>5, <1>6, <1>8

LEMMA TailKeeps ==
  ASSUME NEW S, NEW q \in Seq(S), q # <<>>, NEW t, t = Tail(q)
  PROVE  /\ t \in Seq(S) /\ Head(q) \in S /\ ToSet(q) = {Head(q)} \cup ToSet(t)
         /\ Alone(q) => Alone(t)
         /\ Alone(q) /\ Head(q).kind \in Migrating => Without(t, Migrating)
         /\ Head(q).kind # "courses" => \A m, names : LastIsOurs(q, m, names) => LastIsOurs(t, m, names)
         /\ \A m, names : LastIsOurs(q, m, names) =>
              \/ LastIsOurs(t, m, names)
              \/ NoCourses(t) /\ Head(q).map = m /\ names \subseteq Head(q).names
<1>1. /\ t \in Seq(S) /\ Len(t) = Len(q) - 1 /\ Len(q) >= 1
      /\ Head(q) = q[1] /\ Head(q) \in S
      /\ \A i \in 1..Len(q) - 1 : t[i] = q[i + 1]
      /\ ToSet(q) = {Head(q)} \cup ToSet(t)
  BY TailSet
<1>2. Len(q) \in Nat /\ DOMAIN q = 1..Len(q) /\ DOMAIN t = 1..Len(q) - 1
  BY <1>1
<1>3. ASSUME NEW i \in DOMAIN t PROVE i + 1 \in DOMAIN q /\ t[i] = q[i + 1] /\ i \in Nat /\ i + 1 # 1
  BY <1>1, <1>2
<1>4. ASSUME NEW i \in DOMAIN q, i # 1 PROVE i - 1 \in DOMAIN t /\ t[i - 1] = q[i] /\ i \in Nat
  <2>1. i - 1 \in 1..Len(q) - 1 /\ (i - 1) + 1 = i
    BY <1>2, <1>4
  <2> QED BY <1>1, <1>2, <2>1
<1>5. Alone(q) => Alone(t)
  <2>1. ASSUME Alone(q), NEW i \in DOMAIN t, NEW j \in DOMAIN t, t[i].kind \in Migrating, t[j].kind \in Migrating
        PROVE  i = j
    <3>1. i + 1 = j + 1
      BY <1>3, <2>1 DEF Alone
    <3> QED BY <1>3, <3>1
  <2> QED BY <2>1 DEF Alone
<1>6. ASSUME Alone(q), Head(q).kind \in Migrating PROVE Without(t, Migrating)
  <2>1. ASSUME NEW i \in DOMAIN t PROVE t[i].kind \notin Migrating
    <3>1. 1 \in DOMAIN q
      BY <1>1, <1>2
    <3> QED BY <1>1, <1>3, <1>6, <3>1 DEF Alone
  <2> QED BY <2>1 DEF Without, ToSet
<1>7. ASSUME NEW m, NEW names, LastIsOurs(q, m, names)
      PROVE  \/ LastIsOurs(t, m, names)
             \/ NoCourses(t) /\ Head(q).kind = "courses" /\ Head(q).map = m /\ names \subseteq Head(q).names
  <2>1. PICK i \in DOMAIN q : /\ q[i].kind = "courses" /\ q[i].map = m /\ names \subseteq q[i].names
                              /\ \A j \in DOMAIN q : j > i => q[j].kind # "courses"
    BY <1>7 DEF LastIsOurs
  <2>2. CASE i = 1
    <3>1. \A j \in DOMAIN t : t[j].kind # "courses"
      <4>1. \A j \in DOMAIN t : j + 1 > 1
        BY <1>3
      <4> QED BY <1>3, <2>1, <2>2, <4>1
    <3>2. NoCourses(t)
      BY <3>1 DEF NoCourses, Without, ToSet
    <3> QED BY <1>1, <2>1, <2>2, <3>2
  <2>3. CASE i # 1
    <3>1. i - 1 \in DOMAIN t /\ t[i - 1] = q[i] /\ i \in Nat
      BY <1>4, <2>3
    <3>2. ASSUME NEW j \in DOMAIN t, j > i - 1 PROVE t[j].kind # "courses"
      <4>1. j + 1 > i /\ j + 1 \in DOMAIN q /\ t[j] = q[j + 1]
        BY <1>3, <3>1, <3>2
      <4> QED BY <2>1, <4>1
    <3> QED BY <2>1, <3>1, <3>2 DEF LastIsOurs
  <2> QED BY <2>2, <2>3
<1> QED BY <1>1, <1>5, <1>6, <1>7

LEMMA ConcatKeeps ==
  ASSUME NEW S, NEW p \in Seq(S), NEW s \in Seq(S), Without(s, Migrating), Alone(p)
  PROVE  Alone(p \o s)
<1>0. PICK a : a = p \o s
  OBVIOUS
<1>1. /\ a \in Seq(S) /\ Len(a) = Len(p) + Len(s)
      /\ \A i \in 1..Len(p) : a[i] = p[i]
      /\ \A i \in 1..Len(p) + Len(s) : i > Len(p) => a[i] = s[i - Len(p)]
      /\ ToSet(a) = ToSet(p) \cup ToSet(s)
  BY <1>0, ConcatSet
<1>2. Len(p) \in Nat /\ Len(s) \in Nat /\ DOMAIN p = 1..Len(p) /\ DOMAIN s = 1..Len(s)
      /\ DOMAIN a = 1..Len(p) + Len(s)
  BY <1>1
<1>3. ASSUME NEW i \in DOMAIN a, a[i].kind \in Migrating PROVE i \in DOMAIN p /\ a[i] = p[i]
  <2>1. CASE i > Len(p)
    <3>1. i - Len(p) \in DOMAIN s /\ a[i] = s[i - Len(p)]
      BY <1>1, <1>2, <2>1
    <3> QED BY <1>3, <3>1 DEF Without, ToSet
  <2>2. CASE ~(i > Len(p))
    <3>1. i \in 1..Len(p)
      BY <1>2, <2>2
    <3> QED BY <1>1, <1>2, <3>1
  <2> QED BY <2>1, <2>2
<1>4. Alone(a)
  BY <1>3 DEF Alone
<1> QED BY <1>0, <1>4

LEMMA AppendAsksSame ==
  ASSUME NEW S, NEW q \in Seq(S), NEW x \in S, x.kind \notin {"map", "courses"}
  PROVE  AsksSame(q, Append(q, x))
<1>1. PICK a : a = Append(q, x)
  OBVIOUS
<1>2. ToSet(a) = ToSet(q) \cup {x}
  BY <1>1, AppendSet
<1>3. ASSUME NEW m, NEW names, LastIsOurs(q, m, names) PROVE LastIsOurs(a, m, names)
  BY <1>1, <1>3, LastStays
<1> QED BY <1>1, <1>2, <1>3 DEF AsksSame, MapAsked, NoCourses, Without

LEMMA TailAsksSame ==
  ASSUME NEW S, NEW q \in Seq(S), q # <<>>, Head(q).kind \notin {"map", "courses"}
  PROVE  AsksSame(q, Tail(q))
<1>1. PICK t : t = Tail(q)
  OBVIOUS
<1>2. ToSet(q) = {Head(q)} \cup ToSet(t)
  BY <1>1, TailKeeps
<1>3. \A m, names : LastIsOurs(q, m, names) => LastIsOurs(t, m, names)
  BY <1>1, TailKeeps
<1> QED BY <1>1, <1>2, <1>3 DEF AsksSame, MapAsked, NoCourses, Without

------------------------------------------------------------------------------
(* The record of the database. *)

\* The fields of d.
DbIs(d, conn, ready, mapSetUp, mapID, coursesSetUp, rows, names) ==
  /\ d \in Db
  /\ d.conn = conn /\ d.ready = ready /\ d.mapSetUp = mapSetUp /\ d.mapID = mapID
  /\ d.coursesSetUp = coursesSetUp /\ d.rows = rows /\ d.names = names

LEMMA DbFields ==
  ASSUME NEW d \in Db
  PROVE  /\ d.conn \in Conns /\ d.ready \in BOOLEAN /\ d.mapSetUp \in BOOLEAN /\ d.mapID \in MapIds
         /\ d.coursesSetUp \in BOOLEAN /\ d.rows \subseteq MapIds \X Text /\ d.names \subseteq Names
         /\ d = [conn |-> d.conn, ready |-> d.ready, mapSetUp |-> d.mapSetUp, mapID |-> d.mapID,
                 coursesSetUp |-> d.coursesSetUp, rows |-> d.rows, names |-> d.names]
BY DEF Db

\* The updates that are made.
LEMMA DbUpdates ==
  ASSUME NEW d \in Db, NEW conn \in Conns, NEW map \in MapIds, NEW rows, rows \subseteq MapIds \X Text,
         NEW names, names \subseteq Names
  PROVE  /\ DbIs([d EXCEPT !.conn = conn],
                 conn, d.ready, d.mapSetUp, d.mapID, d.coursesSetUp, d.rows, d.names)
         /\ DbIs([d EXCEPT !.ready = TRUE],
                 d.conn, TRUE, d.mapSetUp, d.mapID, d.coursesSetUp, d.rows, d.names)
         /\ DbIs([d EXCEPT !.mapSetUp = FALSE],
                 d.conn, d.ready, FALSE, d.mapID, d.coursesSetUp, d.rows, d.names)
         /\ DbIs([d EXCEPT !.coursesSetUp = FALSE],
                 d.conn, d.ready, d.mapSetUp, d.mapID, FALSE, d.rows, d.names)
         /\ DbIs([d EXCEPT !.mapID = map, !.mapSetUp = TRUE],
                 d.conn, d.ready, TRUE, map, d.coursesSetUp, d.rows, d.names)
         /\ DbIs([d EXCEPT !.coursesSetUp = TRUE, !.rows = rows],
                 d.conn, d.ready, d.mapSetUp, d.mapID, TRUE, rows, d.names)
         /\ DbIs([d EXCEPT !.names = names],
                 d.conn, d.ready, d.mapSetUp, d.mapID, d.coursesSetUp, d.rows, names)
<1>1. PICK c, r, m, i, s, w, n : /\ c = d.conn /\ r = d.ready /\ m = d.mapSetUp /\ i = d.mapID
                                 /\ s = d.coursesSetUp /\ w = d.rows /\ n = d.names
  OBVIOUS
<1>2. PICK t, f : t = TRUE /\ f = FALSE
  OBVIOUS
<1>3. d = [conn |-> c, ready |-> r, mapSetUp |-> m, mapID |-> i, coursesSetUp |-> s, rows |-> w, names |-> n]
  BY <1>1, DbFields
<1>4. /\ c \in Conns /\ r \in BOOLEAN /\ m \in BOOLEAN /\ i \in MapIds /\ s \in BOOLEAN
      /\ w \subseteq MapIds \X Text /\ n \subseteq Names /\ t \in BOOLEAN /\ f \in BOOLEAN
  BY <1>1, <1>2, DbFields
<1>5. DbIs([d EXCEPT !.conn = conn], conn, r, m, i, s, w, n)
  <2>1. PICK e : e = [d EXCEPT !.conn = conn]
    OBVIOUS
  <2>2. e = [conn |-> conn, ready |-> r, mapSetUp |-> m, mapID |-> i,
             coursesSetUp |-> s, rows |-> w, names |-> n]
    BY <1>3, <2>1
  <2>3. DbIs(e, conn, r, m, i, s, w, n)
    BY <1>4, <2>2 DEF DbIs, Db
  <2> QED BY <2>1, <2>3
<1>6. DbIs([d EXCEPT !.ready = t], c, t, m, i, s, w, n)
  <2>1. PICK e : e = [d EXCEPT !.ready = t]
    OBVIOUS
  <2>2. e = [conn |-> c, ready |-> t, mapSetUp |-> m, mapID |-> i,
             coursesSetUp |-> s, rows |-> w, names |-> n]
    BY <1>3, <2>1
  <2>3. DbIs(e, c, t, m, i, s, w, n)
    BY <1>4, <2>2 DEF DbIs, Db
  <2> QED BY <2>1, <2>3
<1>7. DbIs([d EXCEPT !.mapSetUp = f], c, r, f, i, s, w, n)
  <2>1. PICK e : e = [d EXCEPT !.mapSetUp = f]
    OBVIOUS
  <2>2. e = [conn |-> c, ready |-> r, mapSetUp |-> f, mapID |-> i,
             coursesSetUp |-> s, rows |-> w, names |-> n]
    BY <1>3, <2>1
  <2>3. DbIs(e, c, r, f, i, s, w, n)
    BY <1>4, <2>2 DEF DbIs, Db
  <2> QED BY <2>1, <2>3
<1>8. DbIs([d EXCEPT !.coursesSetUp = f], c, r, m, i, f, w, n)
  <2>1. PICK e : e = [d EXCEPT !.coursesSetUp = f]
    OBVIOUS
  <2>2. e = [conn |-> c, ready |-> r, mapSetUp |-> m, mapID |-> i,
             coursesSetUp |-> f, rows |-> w, names |-> n]
    BY <1>3, <2>1
  <2>3. DbIs(e, c, r, m, i, f, w, n)
    BY <1>4, <2>2 DEF DbIs, Db
  <2> QED BY <2>1, <2>3
<1>9. DbIs([d EXCEPT !.mapID = map, !.mapSetUp = t], c, r, t, map, s, w, n)
  <2>1. PICK e : e = [d EXCEPT !.mapID = map, !.mapSetUp = t]
    OBVIOUS
  <2>2. e = [conn |-> c, ready |-> r, mapSetUp |-> t, mapID |-> map,
             coursesSetUp |-> s, rows |-> w, names |-> n]
    BY <1>3, <2>1
  <2>3. DbIs(e, c, r, t, map, s, w, n)
    BY <1>4, <2>2 DEF DbIs, Db
  <2> QED BY <2>1, <2>3
<1>10. DbIs([d EXCEPT !.coursesSetUp = t, !.rows = rows], c, r, m, i, t, rows, n)
  <2>1. PICK e : e = [d EXCEPT !.coursesSetUp = t, !.rows = rows]
    OBVIOUS
  <2>2. e = [conn |-> c, ready |-> r, mapSetUp |-> m, mapID |-> i,
             coursesSetUp |-> t, rows |-> rows, names |-> n]
    BY <1>3, <2>1
  <2>3. DbIs(e, c, r, m, i, t, rows, n)
    BY <1>4, <2>2 DEF DbIs, Db
  <2> QED BY <2>1, <2>3
<1>11. DbIs([d EXCEPT !.names = names], c, r, m, i, s, w, names)
  <2>1. PICK e : e = [d EXCEPT !.names = names]
    OBVIOUS
  <2>2. e = [conn |-> c, ready |-> r, mapSetUp |-> m, mapID |-> i,
             coursesSetUp |-> s, rows |-> w, names |-> names]
    BY <1>3, <2>1
  <2>3. DbIs(e, c, r, m, i, s, w, names)
    BY <1>4, <2>2 DEF DbIs, Db
  <2> QED BY <2>1, <2>3
<1> QED BY <1>1, <1>2, <1>5, <1>6, <1>7, <1>8, <1>9, <1>10, <1>11

\* SetupMap and SetupCourses, of a proper queue.
LEMMA SetupMapIs ==
  ASSUME NEW d \in Db, NEW q, NEW m \in MapIds
  PROVE  DbIs(SetupMap(d, q, m).d, d.conn, d.ready, FALSE, d.mapID, d.coursesSetUp, d.rows, d.names)
<1>1. SetupMap(d, q, m).d = [d EXCEPT !.mapSetUp = FALSE]
  BY DEF SetupMap
<1>2. DbIs([d EXCEPT !.mapSetUp = FALSE], d.conn, d.ready, FALSE, d.mapID, d.coursesSetUp, d.rows, d.names)
  BY DbFields, DbUpdates
<1> QED BY <1>1, <1>2

LEMMA SetupMapAsks ==
  ASSUME NEW d \in Db, NEW q, NEW m \in MapIds
  PROVE  \E x \in ProperQuery : /\ x.kind = "map" /\ x.map = m
                                /\ SetupMap(d, q, m).q = IF d.ready THEN Append(q, x) ELSE q
<1>1. PICK x : x = Txn("map", m, {})
  OBVIOUS
<1>2. x \in ProperQuery /\ x.kind = "map" /\ x.map = m
  <2>1. "map" \in TxnKinds /\ {} \subseteq Text \cup Names /\ "map" # "courses" /\ "map" # "insert"
    BY DEF TxnKinds
  <2> QED BY <1>1, <2>1, TxnIs
<1>3. SetupMap(d, q, m).q = IF d.ready THEN Append(q, x) ELSE q
  BY <1>1 DEF SetupMap
<1> QED BY <1>2, <1>3

LEMMA SetupCoursesIs ==
  ASSUME NEW d \in Db, NEW q, ProperQueue(q), NEW a \in Mapi
  PROVE  /\ d.mapSetUp =>
              DbIs(SetupLocalCourses(d, q, a).d, d.conn, d.ready, d.mapSetUp, d.mapID, FALSE, d.rows, d.names)
         /\ ~d.mapSetUp => SetupLocalCourses(d, q, a).d = d
         /\ \E x \in ProperQuery : /\ x.kind = "courses" /\ x.map = d.mapID /\ x.names = CourseNames(a)
                                   /\ SetupLocalCourses(d, q, a).q = IF d.mapSetUp THEN Append(q, x) ELSE q
<1>1. PICK x : x = Txn("courses", d.mapID, CourseNames(a))
  OBVIOUS
<1>2. x \in ProperQuery /\ x.kind = "courses" /\ x.map = d.mapID /\ x.names = CourseNames(a)
  <2>1. "courses" \in TxnKinds /\ CourseNames(a) \subseteq Text /\ d.mapID \in MapIds /\ "courses" # "insert"
    BY CourseNamesAre, DbFields DEF TxnKinds
  <2> QED BY <1>1, <2>1, TxnIs
<1>3. /\ SetupLocalCourses(d, q, a).d = IF d.mapSetUp THEN [d EXCEPT !.coursesSetUp = FALSE] ELSE d
      /\ SetupLocalCourses(d, q, a).q = IF d.mapSetUp THEN Append(q, x) ELSE q
  BY <1>1 DEF SetupLocalCourses, SetupCourses
<1>4. DbIs([d EXCEPT !.coursesSetUp = FALSE], d.conn, d.ready, d.mapSetUp, d.mapID, FALSE, d.rows, d.names)
  BY DbFields, DbUpdates
<1> QED BY <1>2, <1>3, <1>4

------------------------------------------------------------------------------
(* The types, and that the database is set up once, at every step. *)

LEMMA BaseNow ==
  ASSUME Base
  PROVE  /\ mapi \in Mapi /\ Created(mapi) /\ mapi \in Keeping(mapi.starting)
         /\ server \in Server /\ db \in Db /\ queue \in Seq(ProperQuery)
         /\ infos \in [Names -> Info] /\ server.map \in MapIds
         /\ server.phase # "none" => server.map \in Maps
         /\ \A n \in Names : infos[n].loaded => infos[n].listed
         /\ db.ready => db.conn = "up" /\ Without(queue, Migrating)
         /\ Alone(queue)
BY DEF Base, DatabaseType, SetUpOnce, ProperQueue, Server, Keeping

\* Such a step.
BaseNext ==
  /\ mapi' \in Mapi /\ Created(mapi') /\ server' \in Server /\ db' \in Db /\ queue' \in Seq(ProperQuery)
  /\ infos' \in [Names -> Info]
  /\ server'.phase # "none" => server'.map \in Maps
  /\ \A n \in Names : infos'[n].loaded => infos'[n].listed
  /\ db'.ready => db'.conn = "up" /\ Without(queue', Migrating)
  /\ Alone(queue')

LEMMA BaseThen == ASSUME BaseNext PROVE Base'
BY DEF BaseNext, Base, DatabaseType, SetUpOnce, ProperQueue

\* The database stays ready, and what requests ask of it stays asked.
Steady ==
  db.ready => db'.ready /\ \A x \in ToSet(queue) : x.kind \in RequestKinds => x \in ToSet(queue')

LEMMA ServerFields ==
  ASSUME NEW s \in Server
  PROVE  s = [map |-> s.map, phase |-> s.phase, round |-> s.round, loads |-> s.loads, clean |-> s.clean]
         /\ s.map \in MapIds /\ s.phase \in {"none", "loading", "active"} /\ s.round \in Nat /\ s.loads \in Nat
         /\ s.clean \in BOOLEAN
BY DEF Server

LEMMA StartupServerTypes == ASSUME Base, StartupServer PROVE Base' /\ Steady
<1>1. PICK m \in Maps : server' = [map |-> m, phase |-> "loading", round |-> 0, loads |-> server.loads + 1,
                                         clean |-> TRUE]
  BY DEF StartupServer
<1>2. mapi' = Fresh /\ UNCHANGED <<db, queue, infos>>
  BY DEF StartupServer
<1>3. server' \in Server /\ server'.map \in Maps
  <2>1. server.loads + 1 \in Nat /\ m \in MapIds /\ 0 \in Nat
    BY BaseNow, ServerFields DEF MapIds
  <2> QED BY <1>1, <2>1 DEF Server
<1>4. BaseNext
  BY <1>2, <1>3, BaseNow, BlankIs DEF BaseNext
<1> QED BY <1>2, <1>4, BaseThen DEF Steady

LEMMA LoadingSpawnGroupTypes == ASSUME Base, LoadingSpawnGroup PROVE Base' /\ Steady
<1>1. server.map \in Maps /\ mapi \in Keeping(mapi.starting)
  BY BaseNow DEF LoadingSpawnGroup
<1>2. mapi' \in Keeping(mapi.starting)
  BY <1>1, LoadingKeeps DEF LoadingSpawnGroup
<1>3. UNCHANGED <<server, db, queue, infos>>
  BY DEF LoadingSpawnGroup
<1>4. BaseNext
  BY <1>2, <1>3, BaseNow DEF BaseNext, Keeping
<1> QED BY <1>3, <1>4, BaseThen DEF Steady

LEMMA ActivateServerTypes == ASSUME Base, ActivateServer PROVE Base' /\ Steady
<1>0. db \in Db /\ ProperQueue(queue) /\ server.map \in MapIds /\ queue \in Seq(ProperQuery) /\ Alone(queue)
  BY BaseNow DEF ProperQueue
<1>1. PICK x \in ProperQuery :
        /\ x.kind = "map" /\ x.map = server.map
        /\ SetupMap(db, queue, server.map).q = IF db.ready THEN Append(queue, x) ELSE queue
  BY <1>0, SetupMapAsks
<1>2. db' \in Db /\ db'.ready = db.ready /\ db'.conn = db.conn
  <2>1. DbIs(SetupMap(db, queue, server.map).d, db.conn, db.ready, FALSE, db.mapID, db.coursesSetUp, db.rows,
        db.names)
    BY <1>0, SetupMapIs
  <2>2. db' = SetupMap(db, queue, server.map).d
    BY DEF ActivateServer
  <2> QED BY <2>1, <2>2 DEF DbIs
<1>3. UNCHANGED <<mapi, infos>> /\ server.phase = "loading" /\ server' = [server EXCEPT !.phase = "active"]
  BY DEF ActivateServer
<1>4. server' \in Server /\ server'.map \in Maps
  BY <1>3, BaseNow DEF Server
<1>5. PICK a : a = Append(queue, x)
  OBVIOUS
<1>6. a \in Seq(ProperQuery) /\ ToSet(a) = ToSet(queue) \cup {x} /\ (Alone(queue) => Alone(a))
  <2>1. x.kind \notin Migrating
    BY <1>1 DEF Migrating
  <2> QED BY <1>0, <1>1, <1>2, <1>5, <2>1, AppendKeeps, AppendSet
<1>7. queue' = IF db.ready THEN a ELSE queue
  BY <1>1, <1>5 DEF ActivateServer
<1>8. BaseNext
  <2>1. db.ready => Without(queue', Migrating)
    BY <1>1, <1>6, <1>7, BaseNow DEF Without, Migrating
  <2> QED BY <1>2, <1>3, <1>4, <1>6, <1>7, <2>1, BaseNow DEF BaseNext
<1> QED BY <1>2, <1>6, <1>7, <1>8, BaseThen DEF Steady

LEMMA RoundPreStartTypes == ASSUME Base, RoundPreStart PROVE Base' /\ Steady /\ mapi'.starting = TRUE
<1>1. server.map \in Maps /\ mapi \in Mapi /\ Created(mapi)
  BY BaseNow DEF RoundPreStart
<1>2. mapi' \in Keeping(TRUE)
  BY <1>1, PreStartKeeps, SpawnKeeps DEF RoundPreStart
<1>3. UNCHANGED <<db, queue, infos>> /\ server' = [server EXCEPT !.round = @ + 1]
  BY DEF RoundPreStart
<1>4. server' \in Server /\ server'.map = server.map /\ server'.phase = server.phase
  BY <1>3, BaseNow DEF Server
<1>5. BaseNext
  BY <1>1, <1>2, <1>3, <1>4, BaseNow DEF BaseNext, Keeping
<1> QED BY <1>2, <1>3, <1>5, BaseThen DEF Steady, Keeping

LEMMA RoundStartTypes == ASSUME Base, RoundStart PROVE Base' /\ Steady /\ mapi'.starting = FALSE
<1>1. mapi' \in Keeping(FALSE) /\ mapi' \in Mapi
  BY BaseNow, RoundStartKeeps DEF RoundStart, Keeping
<1>0. db \in Db /\ ProperQueue(queue) /\ queue \in Seq(ProperQuery) /\ Alone(queue)
  BY BaseNow DEF ProperQueue
<1>2. PICK x \in ProperQuery :
        /\ x.kind = "courses" /\ x.map = db.mapID /\ x.names = CourseNames(mapi')
        /\ SetupLocalCourses(db, queue, mapi').q = IF db.mapSetUp THEN Append(queue, x) ELSE queue
  BY <1>0, <1>1, SetupCoursesIs
<1>3. db' \in Db /\ db'.ready = db.ready /\ db'.conn = db.conn
  <2>1. /\ db.mapSetUp => DbIs(SetupLocalCourses(db, queue, mapi').d, db.conn, db.ready, db.mapSetUp, db.mapID,
                               FALSE, db.rows, db.names)
        /\ ~db.mapSetUp => SetupLocalCourses(db, queue, mapi').d = db
    BY <1>0, <1>1, SetupCoursesIs, ZenonT(60)
  <2>2. db' = SetupLocalCourses(db, queue, mapi').d
    BY DEF RoundStart
  <2> QED BY <1>0, <2>1, <2>2 DEF DbIs
<1>4. UNCHANGED <<server, infos>>
  BY DEF RoundStart
<1>5. PICK a : a = Append(queue, x)
  OBVIOUS
<1>6. a \in Seq(ProperQuery) /\ ToSet(a) = ToSet(queue) \cup {x} /\ (Alone(queue) => Alone(a))
  <2>1. x.kind \notin Migrating
    BY <1>2 DEF Migrating
  <2> QED BY <1>0, <1>1, <1>2, <1>5, <2>1, AppendKeeps, AppendSet
<1>7. queue' = IF db.mapSetUp THEN a ELSE queue
  BY <1>2, <1>5 DEF RoundStart
<1>8. BaseNext
  <2>1. db.ready => Without(queue', Migrating)
    BY <1>2, <1>6, <1>7, BaseNow DEF Without, Migrating
  <2> QED BY <1>1, <1>3, <1>4, <1>6, <1>7, <2>1, BaseNow DEF BaseNext, Keeping
<1> QED BY <1>1, <1>3, <1>6, <1>7, <1>8, BaseThen DEF Steady, Keeping

LEMMA LateSpawnTypes ==
  ASSUME Base, LateSpawn PROVE Base' /\ Steady /\ mapi' \in SameCourses(mapi) /\ mapi \in Mapi
<1>1. server.map \in Maps /\ mapi \in Mapi /\ Created(mapi) /\ mapi.starting = FALSE
  BY BaseNow, MapiFields DEF LateSpawn
<1>2. mapi \in Keeping(FALSE)
  BY <1>1 DEF Keeping
<1>3. mapi' \in SameCourses(mapi)
  BY <1>1, <1>2, LateSpawnKeeps DEF LateSpawn
<1>4. UNCHANGED <<server, db, queue, infos>>
  BY DEF LateSpawn
<1>5. BaseNext
  BY <1>3, <1>4, BaseNow DEF BaseNext, SameCourses, Keeping
<1> QED BY <1>1, <1>3, <1>4, <1>5, BaseThen DEF Steady

\* What the first query leaves when it is answered or fails.
LEMMA Popped ==
  ASSUME Base, queue # <<>>, NEW t, t = Tail(queue)
  PROVE  /\ t \in Seq(ProperQuery) /\ Head(queue) \in ProperQuery /\ ToSet(queue) = {Head(queue)} \cup ToSet(t)
         /\ Alone(t) /\ (db.ready => Without(t, Migrating))
         /\ Head(queue).kind \in Migrating => Without(t, Migrating) /\ ~db.ready
         /\ Head(queue).kind \in TxnKinds => \A x \in ToSet(queue) : x.kind \in RequestKinds => x \in ToSet(t)
<1>1. queue \in Seq(ProperQuery) /\ Alone(queue) /\ (db.ready => Without(queue, Migrating))
  BY BaseNow
<1>2. /\ t \in Seq(ProperQuery) /\ Head(queue) \in ProperQuery /\ ToSet(queue) = {Head(queue)} \cup ToSet(t)
      /\ Alone(queue) => Alone(t)
      /\ Alone(queue) /\ Head(queue).kind \in Migrating => Without(t, Migrating)
  BY <1>1, TailKeeps, ZenonT(60)
<1>3. Head(queue).kind \in TxnKinds => Head(queue).kind \notin RequestKinds
  BY DEF TxnKinds, RequestKinds
<1> QED BY <1>1, <1>2, <1>3 DEF Without

\* What is asked of the database once it is ready.
LEMMA ReadyIs ==
  ASSUME Base, NEW q, ProperQueue(q), Without(q, Migrating)
  PROVE  /\ DbIs(DatabaseReady(db, q).d, db.conn, TRUE, FALSE, db.mapID, db.coursesSetUp, db.rows, db.names)
         /\ ProperQueue(DatabaseReady(db, q).q) /\ Alone(DatabaseReady(db, q).q)
         /\ Without(DatabaseReady(db, q).q, Migrating)
         /\ MapAsked(DatabaseReady(db, q).q, server.map)
         /\ \A n \in Names : infos[n].loaded => infos[n].hasID \/ AskedFor(DatabaseReady(db, q).q, n)
<1>1. PICK d, r, s : d = [db EXCEPT !.ready = TRUE] /\ r = SetupMap(d, q, server.map) /\ s = OnDatabaseSetup
  OBVIOUS
<1>2. DbIs(d, db.conn, TRUE, db.mapSetUp, db.mapID, db.coursesSetUp, db.rows, db.names)
  <2>1. db \in Db
    BY BaseNow
  <2>2. DbIs([db EXCEPT !.ready = TRUE], db.conn, TRUE, db.mapSetUp, db.mapID, db.coursesSetUp, db.rows, db.names)
    BY <2>1, DbFields, DbUpdates
  <2> QED BY <1>1, <2>2
<1>3. d \in Db /\ d.ready = TRUE /\ server.map \in MapIds
  BY <1>2, BaseNow DEF DbIs
<1>4. DbIs(r.d, db.conn, TRUE, FALSE, db.mapID, db.coursesSetUp, db.rows, db.names)
  <2>1. DbIs(SetupMap(d, q, server.map).d, d.conn, d.ready, FALSE, d.mapID, d.coursesSetUp, d.rows, d.names)
    BY <1>3, SetupMapIs
  <2> QED BY <1>1, <1>2, <2>1 DEF DbIs
<1>5. PICK x \in ProperQuery : x.kind = "map" /\ x.map = server.map /\ r.q = Append(q, x)
  <2>1. PICK x \in ProperQuery : /\ x.kind = "map" /\ x.map = server.map
                                 /\ SetupMap(d, q, server.map).q = IF d.ready THEN Append(q, x) ELSE q
    BY <1>3, SetupMapAsks
  <2> QED BY <1>1, <1>3, <2>1
<1>6. PICK p, a : p = Append(q, x) /\ a = p \o s
  OBVIOUS
<1>7. p \in Seq(ProperQuery) /\ ToSet(p) = ToSet(q) \cup {x} /\ Alone(p)
  BY <1>5, <1>6, AppendSet, AppendKeeps DEF ProperQueue
<1>8. /\ s \in Seq(ProperQuery)
      /\ \A y \in ToSet(s) : y.kind \in {"insert", "fetch"}
      /\ \A n \in Names : infos[n].listed /\ ~infos[n].hasID => AskedFor(s, n)
  <2>1. s \in Seq(ProperQuery) /\ \A y \in ToSet(s) : y.kind \in {"insert", "fetch"}
    BY <1>1, SetupAsks
  <2>2. \A n \in Names : infos[n].listed /\ ~infos[n].hasID =>
          \E y \in ToSet(s) : y.kind = "insert" /\ n \in y.names
    BY <1>1, SetupAsks
  <2> QED BY <2>1, <2>2 DEF AskedFor
<1>9. Without(s, Migrating)
  BY <1>8 DEF Without, Migrating
<1>10. a \in Seq(ProperQuery) /\ ToSet(a) = ToSet(p) \cup ToSet(s) /\ Alone(a)
  <2>1. p \in Seq(ProperQuery) /\ s \in Seq(ProperQuery) /\ Without(s, Migrating) /\ Alone(p)
    BY <1>7, <1>8, <1>9
  <2>2. p \o s \in Seq(ProperQuery) /\ ToSet(p \o s) = ToSet(p) \cup ToSet(s)
    BY <2>1, ConcatSet
  <2>3. Alone(p \o s)
    BY <2>1, ConcatKeeps
  <2> QED BY <1>6, <2>2, <2>3
<1>11. Without(a, Migrating)
  BY <1>5, <1>7, <1>9, <1>10 DEF Without, Migrating
<1>12. MapAsked(a, server.map)
  BY <1>5, <1>7, <1>10 DEF MapAsked
<1>13. \A n \in Names : infos[n].loaded => infos[n].hasID \/ AskedFor(a, n)
  BY <1>8, <1>10, BaseNow DEF AskedFor
<1>14. DatabaseReady(db, q).d = r.d /\ DatabaseReady(db, q).q = a
  <2>1. PICK e : e = r.d
    OBVIOUS
  <2>2. r = [d |-> e, q |-> p]
    BY <1>1, <1>5, <1>6, <2>1 DEF SetupMap
  <2>3. DatabaseReady(db, q) = [r EXCEPT !.q = @ \o s]
    BY <1>1 DEF DatabaseReady
  <2>4. DatabaseReady(db, q) = [d |-> e, q |-> a]
    BY <1>6, <2>2, <2>3
  <2> QED BY <2>1, <2>4
<1> QED BY <1>4, <1>10, <1>11, <1>12, <1>13, <1>14 DEF ProperQueue

LEMMA OnDatabaseConnectedTypes ==
  ASSUME Base, OnDatabaseConnected PROVE Base' /\ Steady /\ ~db.ready /\ ~db'.ready
<1>0. db \in Db /\ ~db.ready
  BY BaseNow DEF OnDatabaseConnected
<1>1. UNCHANGED <<mapi, server, infos>>
  BY DEF OnDatabaseConnected
<1>2. CASE db' = [db EXCEPT !.conn = "up"] /\ queue' = <<Txn("migrations", NoMap, {})>>
  <2>1. PICK x : x = Txn("migrations", NoMap, {})
    OBVIOUS
  <2>2. x \in ProperQuery
    <3>1. NoMap \in MapIds /\ "migrations" \in TxnKinds /\ {} \subseteq Text \cup Names /\ {} \subseteq Names
      BY DEF MapIds, TxnKinds
    <3> QED BY <2>1, <3>1, TxnIs
  <2>3. queue' \in Seq(ProperQuery) /\ Alone(queue')
    BY <1>2, <2>1, <2>2 DEF Alone
  <2>4. db' \in Db /\ db'.ready = db.ready
    <3>1. "up" \in Conns
      BY DEF Conns
    <3> QED BY <1>0, <1>2, <3>1 DEF Db
  <2> QED BY <1>0, <1>1, <2>3, <2>4, BaseNow, BaseThen DEF BaseNext, Steady
<1>3. CASE db' = [db EXCEPT !.conn = "destroyed"] /\ queue' = queue
  <2>1. db' \in Db /\ db'.ready = db.ready
    <3>1. "destroyed" \in Conns
      BY DEF Conns
    <3> QED BY <1>0, <1>3, <3>1 DEF Db
  <2> QED BY <1>0, <1>1, <1>3, <2>1, BaseNow, BaseThen DEF BaseNext, Steady
<1> QED BY <1>2, <1>3 DEF OnDatabaseConnected

\* The three ends of the migrations.
LEMMA DestroyTypes ==
  ASSUME Base, ~db.ready, Destroy, UNCHANGED <<mapi, server, infos>>
  PROVE  Base' /\ Steady /\ ~db'.ready
<1>1. db' \in Db /\ db'.ready = db.ready
  <2>1. "destroyed" \in Conns
    BY DEF Conns
  <2> QED BY <2>1, BaseNow DEF Db, Destroy
<1>2. queue' \in Seq(ProperQuery) /\ Alone(queue')
  BY DEF Destroy, Alone
<1> QED BY <1>1, <1>2, BaseNow, BaseThen DEF BaseNext, Steady

LEMMA ReadyTypes ==
  ASSUME Base, ~db.ready, db.conn = "up", NEW q, ProperQueue(q), Without(q, Migrating),
         UNCHANGED <<mapi, server, infos>>,
         db' = DatabaseReady(db, q).d, queue' = DatabaseReady(db, q).q
  PROVE  Base' /\ Steady /\ db'.mapSetUp = FALSE
<1>1. DbIs(db', db.conn, TRUE, FALSE, db.mapID, db.coursesSetUp, db.rows, db.names)
  BY ReadyIs
<1>2. ProperQueue(queue') /\ Alone(queue') /\ Without(queue', Migrating)
  BY ReadyIs
<1> QED BY <1>1, <1>2, BaseNow, BaseThen DEF BaseNext, Steady, DbIs, ProperQueue

LEMMA CheckMigrationsTypes == ASSUME Base, CheckMigrations PROVE Base' /\ Steady /\ ~db.ready
<1>0. PICK t : t = Tail(queue)
  OBVIOUS
<1>1. UNCHANGED <<mapi, server, infos>> /\ queue # <<>> /\ Head(queue).kind \in Migrating /\ db.conn = "up"
  BY DEF CheckMigrations, Answered, Migrating
<1>2. t \in Seq(ProperQuery) /\ Alone(t) /\ Without(t, Migrating) /\ ~db.ready
  BY <1>0, <1>1, Popped
<1>3. CASE db' = db /\ queue' = Tail(queue)
  BY <1>0, <1>1, <1>2, <1>3, BaseNow, BaseThen DEF BaseNext, Steady
<1>4. CASE Destroy
  BY <1>1, <1>2, <1>4, DestroyTypes
<1>5. CASE LET r == DatabaseReady(db, Tail(queue)) IN db' = r.d /\ queue' = r.q
  BY <1>0, <1>1, <1>2, <1>5, ReadyTypes DEF ProperQueue
<1>6. CASE db' = db /\ queue' = Append(Tail(queue), Txn("migrate", NoMap, {}))
  <2>1. PICK x, a : x = Txn("migrate", NoMap, {}) /\ a = Append(t, x)
    OBVIOUS
  <2>2. x \in ProperQuery
    <3>1. NoMap \in MapIds /\ "migrate" \in TxnKinds /\ {} \subseteq Text \cup Names /\ {} \subseteq Names
      BY DEF MapIds, TxnKinds
    <3> QED BY <2>1, <3>1, TxnIs
  <2>3. a \in Seq(ProperQuery) /\ Alone(a)
    BY <1>2, <2>1, <2>2, AppendSet, AppendKeeps
  <2> QED BY <1>0, <1>1, <1>2, <1>6, <2>1, <2>3, BaseNow, BaseThen DEF BaseNext, Steady
<1> QED BY <1>2, <1>3, <1>4, <1>5, <1>6 DEF CheckMigrations

LEMMA MigratedTypes == ASSUME Base, Migrated PROVE Base' /\ Steady /\ ~db.ready
<1>0. PICK t : t = Tail(queue)
  OBVIOUS
<1>1. UNCHANGED <<mapi, server, infos>> /\ queue # <<>> /\ Head(queue).kind \in Migrating /\ db.conn = "up"
  BY DEF Migrated, Answered, Migrating
<1>2. t \in Seq(ProperQuery) /\ Alone(t) /\ Without(t, Migrating) /\ ~db.ready
  BY <1>0, <1>1, Popped
<1>3. CASE Destroy
  BY <1>1, <1>2, <1>3, DestroyTypes
<1>4. CASE LET r == DatabaseReady(db, Tail(queue)) IN db' = r.d /\ queue' = r.q
  BY <1>0, <1>1, <1>2, <1>4, ReadyTypes DEF ProperQueue
<1> QED BY <1>2, <1>3, <1>4 DEF Migrated

LEMMA MapAnsweredTypes == ASSUME Base, MapAnswered PROVE Base' /\ Steady
<1>0. PICK t : t = Tail(queue)
  OBVIOUS
<1>1. UNCHANGED <<mapi, server, infos>> /\ queue # <<>> /\ Head(queue).kind = "map" /\ db.conn = "up"
  BY DEF MapAnswered, Answered
<1>2. /\ t \in Seq(ProperQuery) /\ Alone(t) /\ (db.ready => Without(t, Migrating))
      /\ Head(queue) \in ProperQuery
      /\ \A x \in ToSet(queue) : x.kind \in RequestKinds => x \in ToSet(t)
  <2>1. Head(queue).kind \in TxnKinds
    BY <1>1 DEF TxnKinds
  <2> QED BY <1>0, <1>1, <2>1, Popped
<1>3. CASE ~MapMatches(Head(queue))
  <2>1. db' = db /\ queue' = t
    BY <1>0, <1>3 DEF MapAnswered
  <2> QED BY <1>1, <1>2, <2>1, BaseNow, BaseThen DEF BaseNext, Steady
<1>4. CASE MapMatches(Head(queue))
  <2>1. PICK d : d = [db EXCEPT !.mapID = Head(queue).map, !.mapSetUp = TRUE]
    OBVIOUS
  <2>2. DbIs(d, db.conn, db.ready, TRUE, Head(queue).map, db.coursesSetUp, db.rows, db.names)
    <3>1. db \in Db /\ Head(queue).map \in MapIds
      BY <1>2, BaseNow, QueryFields
    <3>2. DbIs([db EXCEPT !.mapID = Head(queue).map, !.mapSetUp = TRUE],
               db.conn, db.ready, TRUE, Head(queue).map, db.coursesSetUp, db.rows, db.names)
      BY <3>1, DbFields, DbUpdates
    <3> QED BY <2>1, <3>2
  <2>3. d \in Db /\ d.mapSetUp = TRUE /\ mapi \in Mapi
    BY <2>2, BaseNow DEF DbIs
  <2>4. db' = SetupLocalCourses(d, t, mapi).d /\ queue' = SetupLocalCourses(d, t, mapi).q
    BY <1>0, <1>4, <2>1 DEF MapAnswered
  <2>5. DbIs(db', d.conn, d.ready, d.mapSetUp, d.mapID, FALSE, d.rows, d.names)
    BY <1>2, <2>3, <2>4, SetupCoursesIs DEF ProperQueue
  <2>6. PICK x \in ProperQuery : x.kind = "courses" /\ queue' = Append(t, x)
    <3>1. PICK x \in ProperQuery : /\ x.kind = "courses" /\ x.map = d.mapID /\ x.names = CourseNames(mapi)
                                   /\ SetupLocalCourses(d, t, mapi).q = IF d.mapSetUp THEN Append(t, x) ELSE t
      BY <1>2, <2>3, SetupCoursesIs DEF ProperQueue
    <3> QED BY <2>3, <2>4, <3>1
  <2>7. PICK a : a = Append(t, x)
    OBVIOUS
  <2>8. a \in Seq(ProperQuery) /\ ToSet(a) = ToSet(t) \cup {x} /\ Alone(a)
    <3>1. x.kind \notin Migrating
      BY <2>6 DEF Migrating
    <3> QED BY <1>2, <2>6, <2>7, <3>1, AppendSet, AppendKeeps
  <2>9. db' \in Db /\ db'.ready = db.ready /\ db'.conn = db.conn
    BY <2>2, <2>5 DEF DbIs
  <2>10. db.ready => Without(a, Migrating)
    BY <1>2, <2>6, <2>8 DEF Without, Migrating
  <2> QED BY <1>1, <1>2, <2>6, <2>7, <2>8, <2>9, <2>10, BaseNow, BaseThen DEF BaseNext, Steady
<1> QED BY <1>3, <1>4

LEMMA CoursesAnsweredTypes ==
  ASSUME Base, CoursesAnswered
  PROVE  /\ Base' /\ Steady
         /\ DbIs(db', db.conn, db.ready, db.mapSetUp, db.mapID, TRUE,
                 db.rows \cup {<<Head(queue).map, n>> : n \in Head(queue).names}, db.names)
         /\ mapi' = UpdateCourseLocalIDs(mapi, {r \in db'.rows : r[1] = Head(queue).map})
<1>0. PICK t, rows : t = Tail(queue) /\ rows = db.rows \cup {<<Head(queue).map, n>> : n \in Head(queue).names}
  OBVIOUS
<1>1. UNCHANGED <<server, infos>> /\ queue # <<>> /\ Head(queue).kind = "courses" /\ db.conn = "up" /\ queue' = t
  BY <1>0 DEF CoursesAnswered, Answered
<1>2. /\ t \in Seq(ProperQuery) /\ Alone(t) /\ (db.ready => Without(t, Migrating))
      /\ Head(queue) \in ProperQuery
      /\ \A x \in ToSet(queue) : x.kind \in RequestKinds => x \in ToSet(t)
  <2>1. Head(queue).kind \in TxnKinds
    BY <1>1 DEF TxnKinds
  <2> QED BY <1>0, <1>1, <2>1, Popped
<1>3. db \in Db /\ Head(queue).map \in MapIds /\ Head(queue).names \subseteq Text
  BY <1>1, <1>2, BaseNow, QueryFields
<1>4. rows \subseteq MapIds \X Text
  BY <1>0, <1>3, DbFields
<1>5. DbIs(db', db.conn, db.ready, db.mapSetUp, db.mapID, TRUE, rows, db.names)
  <2>1. DbIs([db EXCEPT !.coursesSetUp = TRUE, !.rows = rows],
             db.conn, db.ready, db.mapSetUp, db.mapID, TRUE, rows, db.names)
    BY <1>3, <1>4, DbFields, DbUpdates
  <2>2. db' = [db EXCEPT !.coursesSetUp = TRUE, !.rows = rows]
    <3>1. db' = [db EXCEPT !.coursesSetUp = TRUE,
                         !.rows = @ \cup {<<Head(queue).map, n>> : n \in Head(queue).names}]
      BY DEF CoursesAnswered
    <3>2. PICK c, r, m, i, s, w, n : /\ c = db.conn /\ r = db.ready /\ m = db.mapSetUp /\ i = db.mapID
                                     /\ s = db.coursesSetUp /\ w = db.rows /\ n = db.names
      OBVIOUS
    <3>3. db = [conn |-> c, ready |-> r, mapSetUp |-> m, mapID |-> i, coursesSetUp |-> s, rows |-> w, names |-> n]
      BY <1>3, <3>2, DbFields
    <3> QED BY <1>0, <3>1, <3>2, <3>3
  <2> QED BY <2>1, <2>2
<1>6. db' \in Db /\ db'.ready = db.ready /\ db'.conn = db.conn /\ db'.rows = rows
  BY <1>5 DEF DbIs
<1>7. mapi' = UpdateCourseLocalIDs(mapi, {r \in db'.rows : r[1] = Head(queue).map})
  BY DEF CoursesAnswered
<1>8. mapi' \in Mapi /\ Created(mapi')
  <2>1. {r \in db'.rows : r[1] = Head(queue).map} \subseteq MapIds \X Text /\ mapi \in Keeping(mapi.starting)
    BY <1>4, <1>6, BaseNow
  <2>2. mapi' \in Keeping(mapi.starting)
    BY <1>7, <2>1, UpdateKeeps
  <2> QED BY <2>2 DEF Keeping
<1>9. BaseNext
  BY <1>1, <1>2, <1>6, <1>8, BaseNow DEF BaseNext
<1> QED BY <1>0, <1>1, <1>2, <1>5, <1>6, <1>7, <1>9, BaseThen DEF Steady

\* Entries that keep all but their ids, which are found or lost.
SameInfos(found, lost) ==
  /\ infos' \in [Names -> Info]
  /\ \A n \in Names : /\ infos'[n].loaded = infos[n].loaded /\ infos'[n].listed = infos[n].listed
                      /\ infos'[n].hasID <=> infos[n].hasID \/ n \in found
                      /\ infos'[n].lost <=> infos[n].lost \/ n \in lost

LEMMA QueryFailsTypes ==
  ASSUME Base, QueryFails
  PROVE  /\ Base' /\ Steady /\ UNCHANGED <<mapi, db>> /\ server'.clean = FALSE
         /\ SameInfos({}, Head(queue).names)
<1>0. PICK t : t = Tail(queue)
  OBVIOUS
<1>1. /\ UNCHANGED <<mapi, db>> /\ queue # <<>> /\ Head(queue).kind \in TxnKinds /\ queue' = t
      /\ server' = [server EXCEPT !.clean = FALSE]
      /\ infos' = [n \in Names |-> [infos[n] EXCEPT !.lost = @ \/ n \in Head(queue).names]]
  BY <1>0 DEF QueryFails
<1>2. /\ t \in Seq(ProperQuery) /\ Alone(t) /\ (db.ready => Without(t, Migrating))
      /\ \A x \in ToSet(queue) : x.kind \in RequestKinds => x \in ToSet(t)
  BY <1>0, <1>1, Popped
<1>3. server' \in Server /\ server'.map = server.map /\ server'.phase = server.phase /\ server'.clean = FALSE
  BY <1>1, BaseNow DEF Server
<1>4. SameInfos({}, Head(queue).names)
  <2>1. ASSUME NEW n \in Names
        PROVE  /\ infos'[n] \in Info
               /\ infos'[n].loaded = infos[n].loaded /\ infos'[n].listed = infos[n].listed
               /\ infos'[n].hasID <=> infos[n].hasID \/ n \in {}
               /\ infos'[n].lost <=> infos[n].lost \/ n \in Head(queue).names
    <3>1. PICK b : b = (infos[n].lost \/ n \in Head(queue).names)
      OBVIOUS
    <3>2. PICK i, e : i = infos[n] /\ e = infos'[n]
      OBVIOUS
    <3>3. e = [i EXCEPT !.lost = b] /\ i \in Info /\ b \in BOOLEAN
      BY <1>1, <3>1, <3>2, BaseNow
    <3>4. e \in Info /\ e.hasID = i.hasID /\ e.lost = b /\ e.loaded = i.loaded /\ e.listed = i.listed
      BY <3>3 DEF Info
    <3> QED BY <3>1, <3>2, <3>3, <3>4
  <2>2. infos' = [n \in Names |-> infos'[n]]
    BY <1>1
  <2> QED BY <2>1, <2>2 DEF SameInfos
<1>5. BaseNext
  BY <1>1, <1>2, <1>3, <1>4, BaseNow DEF BaseNext, SameInfos
<1> QED BY <1>1, <1>2, <1>3, <1>4, <1>5, BaseThen DEF Steady

LEMMA InsertAnsweredTypes ==
  ASSUME Base, InsertAnswered
  PROVE  /\ Base' /\ Steady /\ UNCHANGED <<mapi, server>> /\ SameInfos(Head(queue).names, {})
         /\ db'.ready = db.ready /\ db'.mapSetUp = db.mapSetUp /\ db'.mapID = db.mapID
         /\ db'.coursesSetUp = db.coursesSetUp
<1>0. PICK t, names : t = Tail(queue) /\ names = db.names \cup Head(queue).names
  OBVIOUS
<1>1. /\ UNCHANGED <<mapi, server>> /\ queue # <<>> /\ Head(queue).kind = "insert" /\ queue' = t
      /\ infos' = [n \in Names |-> [infos[n] EXCEPT !.hasID = @ \/ n \in Head(queue).names]]
  BY <1>0 DEF InsertAnswered, Answered
<1>2. /\ t \in Seq(ProperQuery) /\ Alone(t) /\ (db.ready => Without(t, Migrating))
      /\ Head(queue) \in ProperQuery
      /\ \A x \in ToSet(queue) : x.kind \in RequestKinds => x \in ToSet(t)
  <2>1. Head(queue).kind \in TxnKinds
    BY <1>1 DEF TxnKinds
  <2> QED BY <1>0, <1>1, <2>1, Popped
<1>3. db \in Db /\ names \subseteq Names
  BY <1>0, <1>1, <1>2, BaseNow, QueryFields, DbFields
<1>4. DbIs(db', db.conn, db.ready, db.mapSetUp, db.mapID, db.coursesSetUp, db.rows, names)
  <2>1. DbIs([db EXCEPT !.names = names], db.conn, db.ready, db.mapSetUp, db.mapID, db.coursesSetUp, db.rows,
        names)
    BY <1>3, DbFields, DbUpdates
  <2>2. db' = [db EXCEPT !.names = @ \cup Head(queue).names]
    BY DEF InsertAnswered
  <2>3. db' = [db EXCEPT !.names = names]
    BY <1>0, <1>3, <2>2 DEF Db
  <2> QED BY <2>1, <2>3
<1>5. SameInfos(Head(queue).names, {})
  <2>1. ASSUME NEW n \in Names
        PROVE  /\ infos'[n] \in Info
               /\ infos'[n].loaded = infos[n].loaded /\ infos'[n].listed = infos[n].listed
               /\ infos'[n].hasID <=> infos[n].hasID \/ n \in Head(queue).names
               /\ infos'[n].lost <=> infos[n].lost \/ n \in {}
    <3>1. PICK b : b = (infos[n].hasID \/ n \in Head(queue).names)
      OBVIOUS
    <3>2. PICK i, e : i = infos[n] /\ e = infos'[n]
      OBVIOUS
    <3>3. e = [i EXCEPT !.hasID = b] /\ i \in Info /\ b \in BOOLEAN
      BY <1>1, <3>1, <3>2, BaseNow
    <3>4. e \in Info /\ e.hasID = b /\ e.lost = i.lost /\ e.loaded = i.loaded /\ e.listed = i.listed
      BY <3>3 DEF Info
    <3> QED BY <3>1, <3>2, <3>3, <3>4
  <2>2. infos' = [n \in Names |-> infos'[n]]
    BY <1>1
  <2> QED BY <2>1, <2>2 DEF SameInfos
<1>6. db' \in Db /\ db'.ready = db.ready /\ db'.conn = db.conn
  BY <1>4 DEF DbIs
<1>7. BaseNext
  BY <1>1, <1>2, <1>5, <1>6, BaseNow DEF BaseNext, SameInfos
<1> QED BY <1>1, <1>2, <1>4, <1>5, <1>7, BaseThen DEF Steady, DbIs

LEMMA FetchAnsweredTypes ==
  ASSUME Base, FetchAnswered
  PROVE  /\ Base' /\ Steady /\ UNCHANGED <<mapi, server, db>>
         /\ \E found : SameInfos(found, {})
<1>0. PICK t, found : t = Tail(queue) /\ found = {n \in Names : infos[n].listed /\ n \in db.names}
  OBVIOUS
<1>1. /\ UNCHANGED <<mapi, server, db>> /\ queue # <<>> /\ Head(queue).kind = "fetch" /\ queue' = t
      /\ infos' = [n \in Names |-> [infos[n] EXCEPT !.hasID = @ \/ (infos[n].listed /\ n \in db.names)]]
  BY <1>0 DEF FetchAnswered, Answered
<1>2. /\ t \in Seq(ProperQuery) /\ Alone(t) /\ (db.ready => Without(t, Migrating))
      /\ \A x \in ToSet(queue) : x.kind \in RequestKinds => x \in ToSet(t)
  <2>1. Head(queue).kind \in TxnKinds
    BY <1>1 DEF TxnKinds
  <2> QED BY <1>0, <1>1, <2>1, Popped
<1>3. SameInfos(found, {})
  <2>1. ASSUME NEW n \in Names
        PROVE  /\ infos'[n] \in Info
               /\ infos'[n].loaded = infos[n].loaded /\ infos'[n].listed = infos[n].listed
               /\ infos'[n].hasID <=> infos[n].hasID \/ n \in found
               /\ infos'[n].lost <=> infos[n].lost \/ n \in {}
    <3>1. PICK b : b = (infos[n].hasID \/ (infos[n].listed /\ n \in db.names))
      OBVIOUS
    <3>2. PICK i, e : i = infos[n] /\ e = infos'[n]
      OBVIOUS
    <3>3. e = [i EXCEPT !.hasID = b] /\ i \in Info /\ b \in BOOLEAN
      BY <1>1, <3>1, <3>2, BaseNow
    <3>4. e \in Info /\ e.hasID = b /\ e.lost = i.lost /\ e.loaded = i.loaded /\ e.listed = i.listed
      BY <3>3 DEF Info
    <3>5. b <=> infos[n].hasID \/ n \in found
      BY <1>0, <3>1
    <3> QED BY <3>2, <3>3, <3>4, <3>5
  <2>2. infos' = [n \in Names |-> infos'[n]]
    BY <1>1
  <2> QED BY <2>1, <2>2 DEF SameInfos
<1>4. BaseNext
  BY <1>1, <1>2, <1>3, BaseNow DEF BaseNext, SameInfos
<1> QED BY <1>1, <1>2, <1>3, <1>4, BaseThen DEF Steady

LEMMA RegisterTypes ==
  ASSUME Base, Register
  PROVE  Base' /\ Steady
<1>1. PICK n \in Names :
        /\ ~infos[n].loaded
        /\ infos' = [infos EXCEPT ![n] = [listed |-> TRUE, loaded |-> TRUE, hasID |-> FALSE, lost |-> @.listed]]
        /\ queue' = IF ~infos[n].listed /\ db.ready THEN Append(queue, Txn("insert", NoMap, {n})) ELSE queue
  BY DEF Register
<1>2. UNCHANGED <<mapi, server, db>>
  BY DEF Register
<1>3. PICK x : x = Txn("insert", NoMap, {n})
  OBVIOUS
<1>4. PICK a : a = Append(queue, x)
  OBVIOUS
<1>5. x \in ProperQuery /\ x.kind = "insert" /\ x.names = {n}
  <2>1. NoMap \in MapIds /\ "insert" \in TxnKinds /\ {n} \subseteq Text \cup Names /\ {n} \subseteq Names
        /\ "insert" # "courses"
    BY DEF MapIds, TxnKinds
  <2> QED BY <1>3, <2>1, TxnIs
<1>6. a \in Seq(ProperQuery) /\ ToSet(a) = ToSet(queue) \cup {x} /\ Alone(a)
  <2>1. x.kind \notin Migrating /\ queue \in Seq(ProperQuery) /\ Alone(queue)
    BY <1>5, BaseNow DEF Migrating
  <2>2. a \in Seq(ProperQuery) /\ ToSet(a) = ToSet(queue) \cup {x}
    BY <1>4, <1>5, <2>1, AppendSet
  <2>3. Alone(a)
    BY <1>4, <1>5, <2>1, AppendKeeps
  <2> QED BY <2>2, <2>3
<1>7. db.ready => Without(queue, Migrating) /\ Without(a, Migrating)
  BY <1>5, <1>6, BaseNow DEF Without, Migrating
<1>8. queue' = IF ~infos[n].listed /\ db.ready THEN a ELSE queue
  BY <1>1, <1>3, <1>4
<1>9. infos' \in [Names -> Info] /\ \A k \in Names : infos'[k].loaded => infos'[k].listed
  <2>1. PICK i, b : b = infos[n].listed /\ i = [listed |-> TRUE, loaded |-> TRUE, hasID |-> FALSE, lost |-> b]
    OBVIOUS
  <2>2. i \in Info /\ i.listed = TRUE
    BY <2>1, BaseNow DEF Info
  <2>3. infos' = [infos EXCEPT ![n] = i]
    BY <1>1, <2>1, BaseNow
  <2> QED BY <2>2, <2>3, BaseNow
<1>10. BaseNext
  BY <1>2, <1>6, <1>7, <1>8, <1>9, BaseNow DEF BaseNext
<1> QED BY <1>2, <1>6, <1>8, <1>10, BaseThen DEF Steady

LEMMA UnregisterTypes ==
  ASSUME Base, Unregister
  PROVE  /\ Base' /\ Steady /\ UNCHANGED <<mapi, server, db, queue>>
         /\ \A n \in Names : infos'[n].loaded => infos[n].loaded /\ infos'[n].hasID = infos[n].hasID
                                                 /\ infos'[n].lost = infos[n].lost
<1>1. PICK n \in Names : infos' = [infos EXCEPT ![n].loaded = FALSE]
  BY DEF Unregister
<1>2. UNCHANGED <<mapi, server, db, queue>>
  BY DEF Unregister
<1>3. PICK i : i = [infos[n] EXCEPT !.loaded = FALSE]
  OBVIOUS
<1>4. i \in Info /\ i.loaded = FALSE
  BY <1>3, BaseNow DEF Info
<1>5. infos' = [infos EXCEPT ![n] = i]
  BY <1>1, <1>3, BaseNow
<1>6. infos' \in [Names -> Info] /\ \A k \in Names : (k = n => infos'[k] = i) /\ (k # n => infos'[k] = infos[k])
  BY <1>4, <1>5, BaseNow
<1>7. BaseNext
  BY <1>2, <1>4, <1>6, BaseNow DEF BaseNext
<1> QED BY <1>2, <1>4, <1>6, <1>7, BaseThen DEF Steady

LEMMA NextTypes == ASSUME Base, Next PROVE Base' /\ Steady
BY StartupServerTypes, LoadingSpawnGroupTypes, ActivateServerTypes, RoundPreStartTypes, RoundStartTypes,
   LateSpawnTypes, OnDatabaseConnectedTypes, CheckMigrationsTypes, MigratedTypes, MapAnsweredTypes,
   CoursesAnsweredTypes, QueryFailsTypes, InsertAnsweredTypes, FetchAnsweredTypes, RegisterTypes,
   UnregisterTypes DEF Next, Answer

------------------------------------------------------------------------------
(* The rest of the invariant, step by step. *)

Rest == PluginsAsked /\ SetUpAsked /\ MapIsPlayed /\ ReadyFirst /\ CoursesAsked

\* Nothing happens to the map, its courses, and the queries for them.
LEMMA FrameKeeps ==
  ASSUME SetUpAsked, MapIsPlayed, ReadyFirst, CoursesAsked, UNCHANGED <<mapi, server>>,
         db'.ready = db.ready, db'.mapSetUp = db.mapSetUp, db'.mapID = db.mapID,
         db'.coursesSetUp = db.coursesSetUp,
         AsksSame(queue, queue')
  PROVE  SetUpAsked' /\ MapIsPlayed' /\ ReadyFirst' /\ CoursesAsked'
<1>0. UNCHANGED mapi /\ UNCHANGED server
  OBVIOUS
<1>1. SetUpAsked'
  BY <1>0 DEF SetUpAsked, AsksSame
<1>2. MapIsPlayed'
  BY <1>0 DEF MapIsPlayed
<1>3. ReadyFirst'
  BY DEF ReadyFirst, AsksSame
<1>4. FoundHaveIds => FoundHaveIds'
  BY <1>0 DEF FoundHaveIds, HasItsId
<1>5. CoursesAsked'
  BY <1>0, <1>4 DEF CoursesAsked, AsksSame
<1> QED BY <1>1, <1>2, <1>3, <1>5

LEMMA PluginsFrame ==
  ASSUME PluginsAsked, UNCHANGED infos, db'.ready => db.ready,
         \A x \in ToSet(queue) : x.kind = "insert" => x \in ToSet(queue')
  PROVE  PluginsAsked'
<1>1. \A n \in Names : AskedFor(queue, n) => AskedFor(queue', n)
  BY DEF AskedFor
<1> QED BY <1>1 DEF PluginsAsked

LEMMA StartupServerKeeps == ASSUME Base, Rest, StartupServer PROVE Rest'
<1>1. server'.phase = "loading" /\ UNCHANGED db /\ UNCHANGED queue /\ UNCHANGED infos
  BY DEF StartupServer
<1>2. PluginsAsked'
  BY <1>1, PluginsFrame DEF Rest
<1>3. SetUpAsked' /\ MapIsPlayed' /\ CoursesAsked'
  BY <1>1 DEF SetUpAsked, MapIsPlayed, CoursesAsked
<1>4. ReadyFirst'
  BY <1>1 DEF Rest, ReadyFirst
<1> QED BY <1>2, <1>3, <1>4 DEF Rest

LEMMA LoadingSpawnGroupKeeps == ASSUME Base, Rest, LoadingSpawnGroup PROVE Rest'
<1>1. server.phase = "loading" /\ UNCHANGED server /\ UNCHANGED db /\ UNCHANGED queue /\ UNCHANGED infos
  BY DEF LoadingSpawnGroup
<1>2. PluginsAsked'
  BY <1>1, PluginsFrame DEF Rest
<1>3. SetUpAsked' /\ MapIsPlayed' /\ CoursesAsked'
  BY <1>1 DEF SetUpAsked, MapIsPlayed, CoursesAsked
<1>4. ReadyFirst'
  BY <1>1 DEF Rest, ReadyFirst
<1> QED BY <1>2, <1>3, <1>4 DEF Rest

LEMMA ActivateServerKeeps == ASSUME Base, Rest, ActivateServer PROVE Rest'
<1>0. db \in Db /\ server.map \in MapIds /\ queue \in Seq(ProperQuery)
  BY BaseNow
<1>1. PICK x \in ProperQuery :
        /\ x.kind = "map" /\ x.map = server.map
        /\ SetupMap(db, queue, server.map).q = IF db.ready THEN Append(queue, x) ELSE queue
  BY <1>0, SetupMapAsks
<1>2. db'.ready = db.ready /\ db'.mapSetUp = FALSE
  <2>1. DbIs(SetupMap(db, queue, server.map).d, db.conn, db.ready, FALSE, db.mapID, db.coursesSetUp, db.rows,
        db.names)
    BY <1>0, SetupMapIs
  <2>2. db' = SetupMap(db, queue, server.map).d
    BY DEF ActivateServer
  <2> QED BY <2>1, <2>2 DEF DbIs
<1>3. UNCHANGED infos /\ server' = [server EXCEPT !.phase = "active"]
  BY DEF ActivateServer
<1>4. server'.map = server.map
  BY <1>3, BaseNow DEF Server
<1>5. PICK a : a = Append(queue, x)
  OBVIOUS
<1>6. ToSet(a) = ToSet(queue) \cup {x}
  BY <1>0, <1>1, <1>5, AppendSet
<1>7. queue' = IF db.ready THEN a ELSE queue
  BY <1>1, <1>5 DEF ActivateServer
<1>8. PluginsAsked'
  BY <1>2, <1>3, <1>6, <1>7, PluginsFrame DEF Rest
<1>9. SetUpAsked'
  BY <1>1, <1>2, <1>4, <1>6, <1>7 DEF SetUpAsked, MapAsked
<1>10. MapIsPlayed' /\ CoursesAsked'
  BY <1>2 DEF MapIsPlayed, CoursesAsked
<1>11. ReadyFirst'
  BY <1>2, <1>7 DEF Rest, ReadyFirst
<1> QED BY <1>8, <1>9, <1>10, <1>11 DEF Rest

LEMMA RoundPreStartKeeps == ASSUME Base, Rest, RoundPreStart PROVE Rest'
<1>1. mapi'.starting = TRUE
  BY RoundPreStartTypes
<1>2. UNCHANGED db /\ UNCHANGED queue /\ UNCHANGED infos /\ server' = [server EXCEPT !.round = @ + 1]
  BY DEF RoundPreStart
<1>3. server'.map = server.map /\ server'.phase = server.phase /\ server'.clean = server.clean
  BY <1>2, BaseNow DEF Server
<1>4. PluginsAsked'
  BY <1>2, PluginsFrame DEF Rest
<1>5. SetUpAsked' /\ MapIsPlayed' /\ CoursesAsked'
  BY <1>1, <1>2, <1>3 DEF Rest, SetUpAsked, MapIsPlayed, CoursesAsked
<1>6. ReadyFirst'
  BY <1>2 DEF Rest, ReadyFirst
<1> QED BY <1>4, <1>5, <1>6 DEF Rest

\* The courses are asked for once the map is set up.
LEMMA CoursesAreAsked ==
  ASSUME NEW d \in Db, d.mapSetUp, NEW q \in Seq(ProperQuery), NEW a \in Mapi
  PROVE  /\ ToSet(q) \subseteq ToSet(SetupLocalCourses(d, q, a).q)
         /\ \A y \in ToSet(SetupLocalCourses(d, q, a).q) : y.kind = "map" => y \in ToSet(q)
         /\ ~NoCourses(SetupLocalCourses(d, q, a).q)
         /\ LastIsOurs(SetupLocalCourses(d, q, a).q, d.mapID, CourseNames(a))
<1>1. PICK x \in ProperQuery : /\ x.kind = "courses" /\ x.map = d.mapID /\ x.names = CourseNames(a)
                               /\ SetupLocalCourses(d, q, a).q = IF d.mapSetUp THEN Append(q, x) ELSE q
  BY SetupCoursesIs DEF ProperQueue
<1>2. PICK s : s = SetupLocalCourses(d, q, a).q
  OBVIOUS
<1>3. s = Append(q, x)
  BY <1>1, <1>2
<1>4. ToSet(s) = ToSet(q) \cup {x}
  BY <1>1, <1>3, AppendSet
<1>5. LastIsOurs(s, d.mapID, CourseNames(a))
  BY <1>1, <1>3, AppendKeeps
<1>6. ~NoCourses(s)
  BY <1>1, <1>4 DEF NoCourses, Without
<1> QED BY <1>1, <1>2, <1>4, <1>5, <1>6

LEMMA RoundStartAsks == ASSUME Base, Rest, RoundStart PROVE Rest'
<1>0. db \in Db /\ queue \in Seq(ProperQuery) /\ mapi' \in Mapi
  BY BaseNow, RoundStartTypes DEF Base, DatabaseType
<1>1. PICK s, d : s = SetupLocalCourses(db, queue, mapi').q /\ d = SetupLocalCourses(db, queue, mapi').d
  OBVIOUS
<1>2. UNCHANGED server /\ UNCHANGED infos /\ queue' = s /\ db' = d /\ mapi'.starting = FALSE
  BY <1>1, RoundStartTypes DEF RoundStart
<1>3. CASE ~db.mapSetUp
  <2>1. s = queue /\ d = db
    BY <1>1, <1>3 DEF SetupLocalCourses
  <2>2. PluginsAsked'
    BY <1>2, <2>1, PluginsFrame DEF Rest
  <2>3. SetUpAsked' /\ MapIsPlayed' /\ CoursesAsked' /\ ReadyFirst'
    BY <1>2, <1>3, <2>1 DEF Rest, SetUpAsked, MapIsPlayed, CoursesAsked, ReadyFirst
  <2> QED BY <2>2, <2>3 DEF Rest
<1>4. CASE db.mapSetUp
  <2>1. /\ ToSet(queue) \subseteq ToSet(s) /\ ~NoCourses(s)
        /\ \A y \in ToSet(s) : y.kind = "map" => y \in ToSet(queue)
        /\ LastIsOurs(s, db.mapID, CourseNames(mapi'))
    BY <1>0, <1>1, <1>4, CoursesAreAsked
  <2>2. d.ready = db.ready /\ d.mapSetUp = db.mapSetUp /\ d.mapID = db.mapID
    <3>1. DbIs(d, db.conn, db.ready, db.mapSetUp, db.mapID, FALSE, db.rows, db.names)
      BY <1>0, <1>1, <1>4, SetupCoursesIs DEF ProperQueue
    <3> QED BY <3>1 DEF DbIs
  <2>3. PluginsAsked'
    BY <1>2, <2>1, <2>2, PluginsFrame DEF Rest
  <2>4. SetUpAsked'
    BY <1>2, <1>4, <2>1, <2>2 DEF SetUpAsked
  <2>5. MapIsPlayed'
    BY <1>2, <2>2 DEF Rest, MapIsPlayed
  <2>6. ReadyFirst'
    BY <1>2, <2>1, <2>2 DEF Rest, ReadyFirst, Without
  <2>7. CoursesAsked'
    <3>1. server'.phase = "active" => db.mapID = server'.map
      BY <1>2, <1>4 DEF Rest, MapIsPlayed
    <3> QED BY <1>2, <2>1, <3>1 DEF CoursesAsked
  <2> QED BY <2>3, <2>4, <2>5, <2>6, <2>7 DEF Rest
<1> QED BY <1>3, <1>4

LEMMA LateSpawnAsks == ASSUME Base, Rest, LateSpawn PROVE Rest'
<1>1. mapi' \in SameCourses(mapi) /\ mapi \in Mapi
  BY LateSpawnTypes
<1>2. mapi' \in Mapi /\ mapi'.starting = FALSE /\ mapi'.slots = mapi.slots /\ mapi'.sorted = mapi.sorted
  BY <1>1 DEF SameCourses, Keeping
<1>3. UNCHANGED server /\ UNCHANGED db /\ UNCHANGED queue /\ UNCHANGED infos /\ ~mapi.starting
  BY DEF LateSpawn
<1>4. CourseNames(mapi') = CourseNames(mapi)
      /\ \A i \in 1..MaxCourses : IsFirstOfName(mapi', i) <=> IsFirstOfName(mapi, i)
  BY <1>1, <1>2, NamesStay
<1>5. FoundHaveIds => FoundHaveIds'
  BY <1>2, <1>3, <1>4 DEF FoundHaveIds, HasItsId
<1>6. PluginsAsked'
  BY <1>3, PluginsFrame DEF Rest
<1>7. SetUpAsked' /\ MapIsPlayed' /\ ReadyFirst'
  BY <1>2, <1>3 DEF Rest, SetUpAsked, MapIsPlayed, ReadyFirst
<1>8. CoursesAsked'
  BY <1>2, <1>3, <1>4, <1>5 DEF Rest, CoursesAsked
<1> QED BY <1>6, <1>7, <1>8 DEF Rest

\* As long as the database is not ready.
LEMMA NotReadyKeeps ==
  ASSUME Base, Rest, ~db.ready, db'.ready = db.ready, db'.mapSetUp = db.mapSetUp,
         UNCHANGED <<mapi, server, infos>>, Without(queue', {"map"})
  PROVE  Rest'
<1>1. ~db.mapSetUp
  BY DEF Rest, ReadyFirst
<1> QED BY <1>1 DEF Rest, PluginsAsked, SetUpAsked, MapIsPlayed, ReadyFirst, CoursesAsked

LEMMA ConnSame ==
  ASSUME Base, NEW c \in Conns, db' = [db EXCEPT !.conn = c]
  PROVE  db'.ready = db.ready /\ db'.mapSetUp = db.mapSetUp
BY BaseNow DEF Db

LEMMA OnDatabaseConnectedKeeps == ASSUME Base, Rest, OnDatabaseConnected PROVE Rest'
<1>1. ~db.ready /\ UNCHANGED <<mapi, server, infos>>
  BY OnDatabaseConnectedTypes DEF OnDatabaseConnected
<1>2. Without(queue, {"map"})
  BY <1>1 DEF Rest, ReadyFirst
<1>3. CASE db' = [db EXCEPT !.conn = "up"] /\ queue' = <<Txn("migrations", NoMap, {})>>
  <2>1. Without(queue', {"map"})
    <3>1. PICK x : x = Txn("migrations", NoMap, {})
      OBVIOUS
    <3>2. x.kind = "migrations" /\ queue' = <<x>>
      BY <1>3, <3>1 DEF Txn
    <3>3. ToSet(queue') = {x}
      BY <3>2 DEF ToSet
    <3> QED BY <3>2, <3>3 DEF Without
  <2>2. "up" \in Conns
    BY DEF Conns
  <2> QED BY <1>1, <1>3, <2>1, <2>2, ConnSame, NotReadyKeeps
<1>4. CASE db' = [db EXCEPT !.conn = "destroyed"] /\ queue' = queue
  <2>1. "destroyed" \in Conns
    BY DEF Conns
  <2> QED BY <1>1, <1>2, <1>4, <2>1, ConnSame, NotReadyKeeps
<1> QED BY <1>3, <1>4 DEF OnDatabaseConnected

LEMMA DestroyKeeps == ASSUME Base, Rest, ~db.ready, Destroy, UNCHANGED <<mapi, server, infos>> PROVE Rest'
<1>1. "destroyed" \in Conns /\ db' = [db EXCEPT !.conn = "destroyed"] /\ Without(queue', {"map"})
  BY DEF Conns, Destroy, Without, ToSet
<1> QED BY <1>1, ConnSame, NotReadyKeeps

LEMMA ReadyKeeps ==
  ASSUME Base, NEW q, ProperQueue(q), Without(q, Migrating), UNCHANGED <<mapi, server, infos>>,
         db' = DatabaseReady(db, q).d, queue' = DatabaseReady(db, q).q
  PROVE  Rest'
<1>1. db'.ready = TRUE /\ db'.mapSetUp = FALSE
  <2>1. DbIs(db', db.conn, TRUE, FALSE, db.mapID, db.coursesSetUp, db.rows, db.names)
    BY ReadyIs
  <2> QED BY <2>1 DEF DbIs
<1>2. MapAsked(queue', server'.map)
  BY ReadyIs
<1>3. \A n \in Names : infos[n].loaded => infos[n].hasID \/ AskedFor(queue', n)
  BY ReadyIs
<1>4. PluginsAsked'
  BY <1>3 DEF PluginsAsked
<1> QED BY <1>1, <1>2, <1>4 DEF Rest, SetUpAsked, MapIsPlayed, ReadyFirst, CoursesAsked

LEMMA MigrationsKeep == ASSUME Base, Rest, CheckMigrations \/ Migrated PROVE Rest'
<1>0. PICK t : t = Tail(queue)
  OBVIOUS
<1>1. UNCHANGED <<mapi, server, infos>> /\ queue # <<>> /\ Head(queue).kind \in Migrating
  BY DEF CheckMigrations, Migrated, Answered, Migrating
<1>2. t \in Seq(ProperQuery) /\ Without(t, Migrating) /\ ~db.ready /\ ToSet(t) \subseteq ToSet(queue)
  BY <1>0, <1>1, Popped
<1>3. Without(t, {"map"})
  BY <1>2 DEF Rest, ReadyFirst, Without
<1>4. CASE db' = db /\ queue' = Tail(queue)
  BY <1>0, <1>1, <1>2, <1>3, <1>4, NotReadyKeeps
<1>5. CASE Destroy
  BY <1>1, <1>2, <1>5, DestroyKeeps
<1>6. CASE LET r == DatabaseReady(db, Tail(queue)) IN db' = r.d /\ queue' = r.q
  BY <1>0, <1>1, <1>2, <1>6, ReadyKeeps DEF ProperQueue
<1>7. CASE db' = db /\ queue' = Append(Tail(queue), Txn("migrate", NoMap, {}))
  <2>1. PICK x : x = Txn("migrate", NoMap, {})
    OBVIOUS
  <2>2. x \in ProperQuery /\ x.kind = "migrate"
    <3>1. NoMap \in MapIds /\ "migrate" \in TxnKinds /\ {} \subseteq Text \cup Names /\ {} \subseteq Names
      BY DEF MapIds, TxnKinds
    <3> QED BY <2>1, <3>1, TxnIs
  <2>3. queue' = Append(t, x)
    BY <1>0, <1>7, <2>1
  <2>4. ToSet(queue') = ToSet(t) \cup {x}
    BY <1>2, <2>2, <2>3, AppendSet
  <2>5. Without(queue', {"map"})
    BY <1>3, <2>2, <2>4 DEF Without
  <2> QED BY <1>1, <1>2, <1>7, <2>5, NotReadyKeeps
<1> QED BY <1>4, <1>5, <1>6, <1>7 DEF CheckMigrations, Migrated

LEMMA MapAnsweredKeeps == ASSUME Base, Rest, MapAnswered PROVE Rest'
<1>0. PICK t, h : t = Tail(queue) /\ h = Head(queue)
  OBVIOUS
<1>1. UNCHANGED mapi /\ UNCHANGED server /\ UNCHANGED infos /\ queue # <<>> /\ h.kind = "map"
  BY <1>0 DEF MapAnswered, Answered
<1>2. t \in Seq(ProperQuery) /\ h \in ProperQuery /\ ToSet(queue) = {h} \cup ToSet(t)
  BY <1>0, <1>1, Popped
<1>3. \A m, names : LastIsOurs(queue, m, names) => LastIsOurs(t, m, names)
  <2>1. queue \in Seq(ProperQuery) /\ Head(queue).kind # "courses"
    BY <1>0, <1>1, BaseNow
  <2> QED BY <1>0, <1>1, <2>1, TailKeeps
<1>4. db.ready /\ NoCourses(queue) <=> db.ready /\ NoCourses(t)
  BY <1>1, <1>2 DEF NoCourses, Without
<1>5. db.ready
  BY <1>1, <1>2 DEF Rest, ReadyFirst, Without
<1>6. CASE h.map # server.map
  <2>1. db' = db /\ queue' = t
    BY <1>0, <1>6 DEF MapAnswered, MapMatches
  <2>2. PluginsAsked'
    BY <1>1, <1>2, <2>1, PluginsFrame DEF Rest
  <2>3. SetUpAsked'
    BY <1>1, <1>2, <1>4, <1>5, <1>6, <2>1 DEF Rest, SetUpAsked, MapAsked
  <2>4. MapIsPlayed' /\ ReadyFirst'
    BY <1>1, <1>5, <2>1 DEF Rest, MapIsPlayed, ReadyFirst
  <2>5. FoundHaveIds => FoundHaveIds'
    BY <1>1 DEF FoundHaveIds, HasItsId
  <2>6. CoursesAsked'
    BY <1>1, <1>3, <1>4, <1>5, <2>1, <2>5 DEF Rest, CoursesAsked
  <2> QED BY <2>2, <2>3, <2>4, <2>6 DEF Rest
<1>7. CASE h.map = server.map
  <2>1. PICK d : d = [db EXCEPT !.mapID = h.map, !.mapSetUp = TRUE]
    OBVIOUS
  <2>2. DbIs(d, db.conn, db.ready, TRUE, h.map, db.coursesSetUp, db.rows, db.names)
    <3>1. db \in Db /\ h.map \in MapIds
      BY <1>2, BaseNow, QueryFields
    <3>2. DbIs([db EXCEPT !.mapID = h.map, !.mapSetUp = TRUE],
               db.conn, db.ready, TRUE, h.map, db.coursesSetUp, db.rows, db.names)
      BY <3>1, DbFields, DbUpdates
    <3> QED BY <2>1, <3>2
  <2>3. d \in Db /\ d.mapSetUp /\ d.mapID = server.map /\ d.ready = db.ready /\ mapi \in Mapi
    BY <1>7, <2>2, BaseNow DEF DbIs
  <2>4. db' = SetupLocalCourses(d, t, mapi).d /\ queue' = SetupLocalCourses(d, t, mapi).q
    BY <1>0, <1>7, <2>1 DEF MapAnswered, MapMatches
  <2>5. db'.ready = db.ready /\ db'.mapSetUp = d.mapSetUp /\ db'.mapID = server.map
    <3>1. DbIs(db', d.conn, d.ready, d.mapSetUp, d.mapID, FALSE, d.rows, d.names)
      BY <1>2, <2>3, <2>4, SetupCoursesIs DEF ProperQueue
    <3> QED BY <2>3, <3>1 DEF DbIs
  <2>6. /\ ToSet(t) \subseteq ToSet(queue') /\ ~NoCourses(queue')
        /\ LastIsOurs(queue', server.map, CourseNames(mapi))
    BY <1>2, <2>3, <2>4, CoursesAreAsked
  <2>7. PluginsAsked'
    BY <1>1, <1>2, <2>5, <2>6, PluginsFrame DEF Rest
  <2>8. SetUpAsked' /\ MapIsPlayed' /\ ReadyFirst'
    BY <1>1, <1>5, <2>3, <2>5, <2>6 DEF SetUpAsked, MapIsPlayed, ReadyFirst
  <2>9. CoursesAsked'
    BY <1>1, <2>6 DEF CoursesAsked
  <2> QED BY <2>7, <2>8, <2>9 DEF Rest
<1> QED BY <1>6, <1>7

\* The answer to the last query for courses gives each that is found its id.
LEMMA CoursesAnsweredKeeps == ASSUME Base, Rest, CoursesAnswered PROVE Rest'
<1>0. PICK t, h, rows : /\ t = Tail(queue) /\ h = Head(queue)
                        /\ rows = db.rows \cup {<<h.map, n>> : n \in h.names}
  OBVIOUS
<1>1. UNCHANGED server /\ UNCHANGED infos /\ queue # <<>> /\ h.kind = "courses" /\ queue' = t
  BY <1>0 DEF CoursesAnswered, Answered
<1>2. t \in Seq(ProperQuery) /\ h \in ProperQuery /\ ToSet(queue) = {h} \cup ToSet(t)
  BY <1>0, <1>1, Popped
<1>3. \A m, names : LastIsOurs(queue, m, names) =>
        LastIsOurs(t, m, names) \/ (NoCourses(t) /\ h.map = m /\ names \subseteq h.names)
  <2>1. queue \in Seq(ProperQuery)
    BY BaseNow
  <2> QED BY <1>0, <1>1, <2>1, TailKeeps
<1>4. /\ db'.ready = db.ready /\ db'.mapSetUp = db.mapSetUp /\ db'.mapID = db.mapID
      /\ db'.coursesSetUp = TRUE /\ db'.rows = rows
  BY <1>0, CoursesAnsweredTypes DEF DbIs
<1>5. PICK mine : mine = {r \in rows : r[1] = h.map}
  OBVIOUS
<1>6. mapi' = UpdateCourseLocalIDs(mapi, mine)
  BY <1>0, <1>4, <1>5, CoursesAnsweredTypes
<1>7. mine \subseteq MapIds \X Text /\ mapi \in Mapi /\ mapi \in Keeping(mapi.starting)
  <2>1. rows \subseteq MapIds \X Text
    <3>1. db'.rows \subseteq MapIds \X Text
      BY CoursesAnsweredTypes, DbFields DEF DbIs
    <3> QED BY <1>4, <3>1
  <2> QED BY <1>5, <2>1, BaseNow
<1>8. /\ mapi' \in Keeping(mapi.starting) /\ mapi'.sorted = mapi.sorted
      /\ \A i \in 1..MaxCourses :
           /\ mapi'.slots[i].name = mapi.slots[i].name
           /\ IsFirstOfName(mapi, i) /\ (\E r \in mine : r[2] = mapi.slots[i].name) =>
                mapi'.slots[i].localID \in mine /\ mapi'.slots[i].localID[2] = mapi.slots[i].name
  BY <1>6, <1>7, UpdateKeeps
<1>9. mapi' \in Mapi /\ mapi'.starting = mapi.starting
  BY <1>8 DEF Keeping
<1>10. CourseNames(mapi') = CourseNames(mapi)
       /\ \A i \in 1..MaxCourses : IsFirstOfName(mapi', i) <=> IsFirstOfName(mapi, i)
  BY <1>7, <1>8, <1>9, NamesStay
<1>11. PluginsAsked'
  BY <1>1, <1>2, <1>4, PluginsFrame DEF Rest
<1>12. SetUpAsked'
  BY <1>1, <1>2, <1>4, <1>9 DEF Rest, SetUpAsked, MapAsked
<1>13. MapIsPlayed' /\ ReadyFirst'
  BY <1>1, <1>2, <1>4 DEF Rest, MapIsPlayed, ReadyFirst, Without
<1>14. CoursesAsked'
  <2>1. SUFFICES ASSUME db.mapSetUp, server.phase = "active", server.clean, ~mapi.starting
                 PROVE  LastIsOurs(t, server.map, CourseNames(mapi)) \/ (NoCourses(t) /\ FoundHaveIds')
    BY <1>1, <1>4, <1>9, <1>10 DEF CoursesAsked
  <2>2. LastIsOurs(queue, server.map, CourseNames(mapi))
    <3>1. ~NoCourses(queue)
      BY <1>1, <1>2 DEF NoCourses, Without
    <3> QED BY <2>1, <3>1 DEF Rest, CoursesAsked
  <2>3. CASE NoCourses(t) /\ h.map = server.map /\ CourseNames(mapi) \subseteq h.names
    <3>1. ASSUME NEW i \in 1..MaxCourses, IsFirstOfName(mapi', i)
          PROVE  mapi'.slots[i].localID = <<server.map, mapi'.slots[i].name>>
      <4>1. IsFirstOfName(mapi, i) /\ mapi'.slots[i].name = mapi.slots[i].name
        BY <1>8, <1>10, <3>1
      <4>2. mapi.slots[i].name \in h.names
        BY <1>7, <2>3, <4>1, FoundName
      <4>3. PICK r : r = <<h.map, mapi.slots[i].name>>
        OBVIOUS
      <4>4. r \in mine /\ r[2] = mapi.slots[i].name
        BY <1>0, <1>5, <4>2, <4>3
      <4>5. PICK id : id = mapi'.slots[i].localID
        OBVIOUS
      <4>6. id \in mine /\ id[2] = mapi.slots[i].name
        BY <1>8, <4>1, <4>4, <4>5
      <4>7. id \in MapIds \X Text /\ id[1] = server.map
        BY <1>5, <1>7, <2>3, <4>6
      <4> QED BY <4>1, <4>5, <4>6, <4>7
    <3>2. FoundHaveIds'
      BY <1>1, <3>1 DEF FoundHaveIds, HasItsId
    <3> QED BY <2>3, <3>2
  <2> QED BY <1>3, <2>2, <2>3
<1> QED BY <1>11, <1>12, <1>13, <1>14 DEF Rest

LEMMA QueryFailsKeeps == ASSUME Base, Rest, QueryFails PROVE Rest'
<1>0. PICK t, h : t = Tail(queue) /\ h = Head(queue)
  OBVIOUS
<1>1. /\ UNCHANGED mapi /\ UNCHANGED db /\ server'.clean = FALSE /\ queue # <<>> /\ queue' = t
      /\ server' = [server EXCEPT !.clean = FALSE] /\ SameInfos({}, h.names)
  BY <1>0, QueryFailsTypes DEF QueryFails
<1>2. server'.map = server.map /\ server'.phase = server.phase
  BY <1>1, BaseNow DEF Server
<1>3. ToSet(queue) = {h} \cup ToSet(t)
  BY <1>0, <1>1, Popped
<1>4. \A n \in Names : AskedFor(queue, n) => n \in h.names \/ AskedFor(t, n)
  BY <1>3 DEF AskedFor
<1>5. PluginsAsked'
  BY <1>1, <1>4 DEF Rest, PluginsAsked, SameInfos
<1>6. SetUpAsked' /\ MapIsPlayed' /\ CoursesAsked'
  BY <1>1, <1>2 DEF Rest, SetUpAsked, MapIsPlayed, CoursesAsked
<1>7. ReadyFirst'
  BY <1>1, <1>3 DEF Rest, ReadyFirst, Without
<1> QED BY <1>5, <1>6, <1>7 DEF Rest

LEMMA InsertAnsweredKeeps == ASSUME Base, Rest, InsertAnswered PROVE Rest'
<1>0. PICK t, h : t = Tail(queue) /\ h = Head(queue)
  OBVIOUS
<1>1. queue # <<>> /\ h.kind = "insert" /\ queue' = t /\ queue \in Seq(ProperQuery)
  BY <1>0, BaseNow DEF InsertAnswered, Answered
<1>2. /\ UNCHANGED <<mapi, server>> /\ SameInfos(h.names, {})
      /\ db'.ready = db.ready /\ db'.mapSetUp = db.mapSetUp /\ db'.mapID = db.mapID
      /\ db'.coursesSetUp = db.coursesSetUp
  BY <1>0, InsertAnsweredTypes
<1>3. ToSet(queue) = {h} \cup ToSet(t)
  BY <1>0, <1>1, Popped
<1>4. \A n \in Names : AskedFor(queue, n) => n \in h.names \/ AskedFor(t, n)
  BY <1>3 DEF AskedFor
<1>5. PluginsAsked'
  BY <1>1, <1>2, <1>4 DEF Rest, PluginsAsked, SameInfos
<1>6. AsksSame(queue, queue')
  BY <1>0, <1>1, TailAsksSame
<1> QED BY <1>2, <1>5, <1>6, FrameKeeps DEF Rest

LEMMA FetchAnsweredKeeps == ASSUME Base, Rest, FetchAnswered PROVE Rest'
<1>0. PICK t, h : t = Tail(queue) /\ h = Head(queue)
  OBVIOUS
<1>1. queue # <<>> /\ h.kind = "fetch" /\ queue' = t /\ queue \in Seq(ProperQuery)
  BY <1>0, BaseNow DEF FetchAnswered, Answered
<1>2. PICK found : SameInfos(found, {})
  BY FetchAnsweredTypes
<1>3. UNCHANGED <<mapi, server, db>>
  BY DEF FetchAnswered
<1>4. ToSet(queue) = {h} \cup ToSet(t)
  BY <1>0, <1>1, Popped
<1>5. \A n \in Names : AskedFor(queue, n) => AskedFor(t, n)
  BY <1>1, <1>4 DEF AskedFor
<1>6. PluginsAsked'
  BY <1>1, <1>2, <1>3, <1>5 DEF Rest, PluginsAsked, SameInfos
<1>7. AsksSame(queue, queue')
  BY <1>0, <1>1, TailAsksSame
<1> QED BY <1>3, <1>6, <1>7, FrameKeeps DEF Rest

LEMMA RegisterKeeps == ASSUME Base, Rest, Register PROVE Rest'
<1>1. PICK n \in Names :
        /\ ~infos[n].loaded
        /\ infos' = [infos EXCEPT ![n] = [listed |-> TRUE, loaded |-> TRUE, hasID |-> FALSE, lost |-> @.listed]]
        /\ queue' = IF ~infos[n].listed /\ db.ready THEN Append(queue, Txn("insert", NoMap, {n})) ELSE queue
  BY DEF Register
<1>2. UNCHANGED <<mapi, server, db>> /\ UNCHANGED db
  BY DEF Register
<1>3. PICK x : x = Txn("insert", NoMap, {n})
  OBVIOUS
<1>4. x \in ProperQuery /\ x.kind = "insert" /\ x.names = {n} /\ x.kind \notin {"map", "courses"}
  <2>1. NoMap \in MapIds /\ "insert" \in TxnKinds /\ {n} \subseteq Text \cup Names /\ {n} \subseteq Names
        /\ "insert" # "courses"
    BY DEF MapIds, TxnKinds
  <2> QED BY <1>3, <2>1, TxnIs
<1>5. PICK a : a = Append(queue, x)
  OBVIOUS
<1>6. queue \in Seq(ProperQuery)
  BY BaseNow
<1>7. ToSet(a) = ToSet(queue) \cup {x}
  BY <1>4, <1>5, <1>6, AppendSet
<1>8. queue' = IF ~infos[n].listed /\ db.ready THEN a ELSE queue
  BY <1>1, <1>3, <1>5
<1>9. \A k \in Names : AskedFor(queue, k) => AskedFor(queue', k)
  BY <1>7, <1>8 DEF AskedFor
<1>10. ~infos[n].listed /\ db.ready => AskedFor(queue', n)
  BY <1>4, <1>7, <1>8 DEF AskedFor
<1>11. \A k \in Names : k # n => infos'[k] = infos[k]
  BY <1>1, BaseNow
<1>12. infos'[n].lost = infos[n].listed
  <2>1. PICK i, b : b = infos[n].listed /\ i = [listed |-> TRUE, loaded |-> TRUE, hasID |-> FALSE, lost |-> b]
    OBVIOUS
  <2>2. infos' = [infos EXCEPT ![n] = i]
    BY <1>1, <2>1, BaseNow
  <2> QED BY <2>1, <2>2, BaseNow
<1>13. PluginsAsked'
  BY <1>2, <1>9, <1>10, <1>11, <1>12 DEF Rest, PluginsAsked
<1>14. AsksSame(queue, queue')
  <2>1. AsksSame(queue, a)
    BY <1>4, <1>5, <1>6, AppendAsksSame
  <2>2. AsksSame(queue, queue)
    BY DEF AsksSame
  <2> QED BY <1>8, <2>1, <2>2
<1> QED BY <1>2, <1>13, <1>14, FrameKeeps DEF Rest

LEMMA UnregisterKeeps == ASSUME Base, Rest, Unregister PROVE Rest'
<1>1. /\ UNCHANGED <<mapi, server, db, queue>>
      /\ \A n \in Names : infos'[n].loaded => infos[n].loaded /\ infos'[n].hasID = infos[n].hasID
                                              /\ infos'[n].lost = infos[n].lost
  BY UnregisterTypes
<1>2. UNCHANGED db /\ UNCHANGED queue
  BY <1>1
<1>3. PluginsAsked'
  BY <1>1, <1>2 DEF Rest, PluginsAsked
<1>4. AsksSame(queue, queue')
  BY <1>2 DEF AsksSame
<1> QED BY <1>1, <1>3, <1>4, FrameKeeps DEF Rest

LEMMA NextKeeps == ASSUME Base, Rest, Next PROVE Rest'
BY StartupServerKeeps, LoadingSpawnGroupKeeps, ActivateServerKeeps, RoundPreStartKeeps, RoundStartAsks,
   LateSpawnAsks, OnDatabaseConnectedKeeps, MigrationsKeep, MapAnsweredKeeps, CoursesAnsweredKeeps,
   QueryFailsKeeps, InsertAnsweredKeeps, FetchAnsweredKeeps, RegisterKeeps, UnregisterKeeps DEF Next, Answer

LEMMA InitIs == ASSUME Init PROVE Base /\ Rest
<1>1. PICK here \in SUBSET (Names \ {BuiltIn}) :
        infos = [n \in Names |-> [listed |-> n \in here \cup {BuiltIn}, loaded |-> n \in here \cup {BuiltIn},
                                  hasID |-> FALSE, lost |-> FALSE]]
  BY DEF Init
<1>2. infos \in [Names -> Info] /\ \A n \in Names : infos[n].loaded => infos[n].listed
  <2>1. ASSUME NEW n \in Names PROVE infos[n] \in Info /\ (infos[n].loaded => infos[n].listed)
    <3>1. PICK b : b = (n \in here \cup {BuiltIn})
      OBVIOUS
    <3>2. infos[n] = [listed |-> b, loaded |-> b, hasID |-> FALSE, lost |-> FALSE]
      BY <1>1, <3>1
    <3>3. b \in BOOLEAN
      BY <3>1
    <3> QED BY <3>2, <3>3 DEF Info
  <2>2. infos = [n \in Names |-> infos[n]]
    BY <1>1
  <2> QED BY <2>1, <2>2
<1>3. server \in Server /\ server.phase = "none"
  BY DEF Init, Server, MapIds
<1>4. db \in Db /\ db.ready = FALSE /\ db.mapSetUp = FALSE
  BY DEF Init, Db, Conns, MapIds
<1>5. ProperQueue(queue) /\ Alone(queue) /\ Without(queue, {"map"})
  BY DEF Init, ProperQueue, Alone, Without, ToSet
<1>6. mapi \in Mapi /\ Created(mapi)
  BY BlankIs DEF Init
<1>7. Base
  BY <1>2, <1>3, <1>4, <1>5, <1>6 DEF Base, DatabaseType, SetUpOnce
<1>8. Rest
  BY <1>4, <1>5 DEF Rest, PluginsAsked, SetUpAsked, MapIsPlayed, ReadyFirst, CoursesAsked
<1> QED BY <1>7, <1>8

------------------------------------------------------------------------------
(* The properties. *)

\* A step, or none.
LEMMA StepKeeps == ASSUME DatabaseInv, [Next]_vars PROVE DatabaseInv'
<1>1. Base /\ Rest
  BY DEF DatabaseInv, Rest
<1>2. CASE Next
  <2>1. Base' /\ Rest'
    BY <1>1, <1>2, NextTypes, NextKeeps
  <2> QED BY <2>1 DEF DatabaseInv, Rest
<1>3. CASE UNCHANGED vars
  <2>1. UNCHANGED mapi /\ UNCHANGED server /\ UNCHANGED db /\ UNCHANGED queue /\ UNCHANGED infos
    BY <1>3 DEF vars
  <2>2. Base'
    BY <1>1, <2>1 DEF Base, DatabaseType, SetUpOnce
  <2>3. PluginsAsked' /\ SetUpAsked' /\ MapIsPlayed' /\ ReadyFirst'
    BY <1>1, <2>1 DEF Rest, PluginsAsked, SetUpAsked, MapIsPlayed, ReadyFirst
  <2>4. FoundHaveIds => FoundHaveIds'
    BY <2>1 DEF FoundHaveIds, HasItsId
  <2>5. CoursesAsked'
    BY <1>1, <2>1, <2>4 DEF Rest, CoursesAsked
  <2> QED BY <2>2, <2>3, <2>5 DEF DatabaseInv
<1> QED BY <1>2, <1>3

LEMMA BaseTypes == ASSUME Base PROVE TypeOK
<1>1. mapi \in Mapi /\ Created(mapi) /\ server \in Server /\ db \in Db /\ queue \in Seq(ProperQuery)
  BY BaseNow
<1>2. /\ mapi.version \in {"none", "good", "bad"}
      /\ {mapi.loaded, mapi.fatal, mapi.starting} \subseteq BOOLEAN
      /\ mapi.count \in 0..MaxCourses
  BY <1>1, MapiFields
<1>3. ToSet(mapi.sorted) \subseteq 1..MaxCourses
  BY <1>1, MapiFields, ToSetStays
<1>4. \A c \in ToSet(Sorted(mapi)) : c.cps \in Nat /\ c.stages \in Nat /\ c.guid \in 1..MaxCourses
  <2>1. ASSUME NEW k \in DOMAIN mapi.sorted
        PROVE  LET c == mapi.slots[mapi.sorted[k]] IN c.cps \in Nat /\ c.stages \in Nat
               /\ c.guid \in 1..MaxCourses
    <3>1. mapi.sorted[k] \in ToSet(mapi.sorted)
      BY DEF ToSet
    <3>2. mapi.slots[mapi.sorted[k]] \in Course
      BY <1>1, <1>3, <3>1, MapiFields
    <3> QED BY <1>1, <3>1, <3>2 DEF Course, Created
  <2> QED BY <2>1 DEF Sorted, ToSet
<1>5. server.map \in Maps \cup {NoMap} /\ server.phase \in {"none", "loading", "active"}
  BY <1>1, ServerFields DEF MapIds
<1>6. db.conn \in Conns /\ {db.ready, db.mapSetUp, db.coursesSetUp} \subseteq BOOLEAN
      /\ db.mapID \in Maps \cup {NoMap}
  BY <1>1, DbFields DEF MapIds
<1>7. \A q \in ToSet(queue) : q.kind \in TxnKinds => q.map \in Maps \cup {NoMap}
  <2>1. ToSet(queue) \subseteq ProperQuery
    BY <1>1, ToSetStays
  <2> QED BY <2>1, QueryFields DEF MapIds
<1>8. \A n \in Names : infos[n].loaded => infos[n].listed
  BY BaseNow
<1> QED BY <1>2, <1>3, <1>4, <1>5, <1>6, <1>7, <1>8 DEF TypeOK

\* The invariant of the local database: the queue holds what is still to be done.
THEOREM DatabaseInvariant == Spec => []DatabaseInv
<1>1. Init => DatabaseInv
  BY InitIs DEF DatabaseInv, Rest
<1>2. DatabaseInv /\ [Next]_vars => DatabaseInv'
  BY StepKeeps
<1> QED BY <1>1, <1>2, PTL DEF Spec

\* The state of the database, the server and the mapping API has its types, for any
\* maps, entities, plugins, failures and numbers of courses.
THEOREM DatabaseTypes == Spec => []TypeOK
<1>1. DatabaseInv => TypeOK
  BY BaseTypes DEF DatabaseInv
<1> QED BY <1>1, DatabaseInvariant, PTL

\* Every mode and style that is loaded has its id once its answers are in, or it lost it.
THEOREM PluginsAlwaysHaveIds == Spec => []PluginsHaveIds
<1>1. DatabaseInv => PluginsHaveIds
  BY DEF DatabaseInv, PluginsAsked, AskedFor, PluginsHaveIds
<1> QED BY <1>1, DatabaseInvariant, PTL

\* When nothing is asked and nothing failed, the map and its courses are set up.
THEOREM NothingIsForgotten == Spec => []NothingForgotten
<1>1. ASSUME DatabaseInv PROVE NothingForgotten
  <2>1. SUFFICES ASSUME server.phase = "active", ~mapi.starting, db.ready, queue = <<>>, server.clean
                 PROVE  Settled
    BY DEF NothingForgotten
  <2>2. ToSet(queue) = {}
    BY <2>1 DEF ToSet
  <2>3. ~MapAsked(queue, server.map) /\ NoCourses(queue)
    BY <2>2 DEF MapAsked, NoCourses, Without
  <2>4. db.mapSetUp /\ db.coursesSetUp
    BY <1>1, <2>1, <2>3 DEF DatabaseInv, SetUpAsked
  <2> QED BY <2>1, <2>2, <2>4 DEF Settled
<1> QED BY <1>1, DatabaseInvariant, PTL

\* The map that is set up is the one that is played, and its courses have the ids of their
\* own rows, whatever maps came and went while the queries were on their way.
THEOREM IdsAreAlwaysOfTheMap == Spec => []IdsAreOfTheMap
<1>1. ASSUME DatabaseInv PROVE IdsAreOfTheMap
  <2>1. SUFFICES ASSUME server.phase = "active", db.mapSetUp
                 PROVE  db.mapID = server.map /\ (Settled /\ server.clean => FoundHaveIds)
    BY DEF IdsAreOfTheMap, FoundHaveIds
  <2>2. db.mapID = server.map
    BY <1>1, <2>1 DEF DatabaseInv, MapIsPlayed
  <2>3. ASSUME Settled, server.clean PROVE FoundHaveIds
    <3>1. ~LastIsOurs(queue, server.map, CourseNames(mapi))
      BY <2>3 DEF Settled, LastIsOurs, ToSet
    <3> QED BY <1>1, <2>1, <2>3, <3>1 DEF DatabaseInv, CoursesAsked, Settled
  <2> QED BY <2>2, <2>3
<1> QED BY <1>1, DatabaseInvariant, PTL

------------------------------------------------------------------------------
(* Requests. *)

Statuses == {"enabled", "disabled", "pending", "received"}

LEMMA RequestFields ==
  ASSUME NEW r \in Request
  PROVE  /\ r.uid \in Nat /\ r.user \in Users /\ r.personal \in BOOLEAN /\ r.map \in MapIds /\ r.course \in Text
         /\ r.first \in BOOLEAN /\ r.local \in Statuses /\ r.global \in Statuses /\ r.rankless \in BOOLEAN
         /\ r.valid \in BOOLEAN /\ r.reason \in BOOLEAN /\ r.sent \in BOOLEAN
BY DEF Request, Statuses

\* x is r with other values in some of the fields that change.
MadeOf(x, r, course, first, local, global, valid, sent) ==
  x = [uid |-> r.uid, user |-> r.user, personal |-> r.personal, map |-> r.map, course |-> course, first |-> first,
       local |-> local, global |-> global, rankless |-> r.rankless, valid |-> valid, reason |-> r.reason,
       sent |-> sent]

\* The same, of the fields that the rest is about.
Becomes(x, r, course, first, local, valid) ==
  /\ x \in Request /\ x.uid = r.uid /\ x.user = r.user /\ x.map = r.map /\ x.rankless = r.rankless
  /\ x.course = course /\ x.first = first /\ x.local = local /\ x.valid = valid

LEMMA MadeBecomes ==
  ASSUME NEW r \in Request, NEW course \in Text, NEW first \in BOOLEAN, NEW local \in Statuses,
         NEW global \in Statuses, NEW valid \in BOOLEAN, NEW sent \in BOOLEAN,
         NEW x, MadeOf(x, r, course, first, local, global, valid, sent)
  PROVE  Becomes(x, r, course, first, local, valid)
<1>1. PICK u, us, p, m, ra, re :
        u = r.uid /\ us = r.user /\ p = r.personal /\ m = r.map /\ ra = r.rankless /\ re = r.reason
  OBVIOUS
<1>2. u \in Nat /\ us \in Users /\ p \in BOOLEAN /\ m \in MapIds /\ ra \in BOOLEAN /\ re \in BOOLEAN
  BY <1>1, RequestFields
<1>3. x = [uid |-> u, user |-> us, personal |-> p, map |-> m, course |-> course, first |-> first,
           local |-> local, global |-> global, rankless |-> ra, valid |-> valid, reason |-> re, sent |-> sent]
  BY <1>1 DEF MadeOf
<1>4. x \in Request
  BY <1>2, <1>3 DEF Request, Statuses
<1>5. /\ x.uid = u /\ x.user = us /\ x.map = m /\ x.rankless = ra
      /\ x.course = course /\ x.first = first /\ x.local = local /\ x.valid = valid
  BY <1>3
<1> QED BY <1>1, <1>4, <1>5 DEF Becomes

LEMMA RequestParts ==
  ASSUME NEW r \in Request
  PROVE  \E u, us, p, m, co, fi, lo, gl, ra, va, re, se :
           /\ u = r.uid /\ us = r.user /\ p = r.personal /\ m = r.map /\ co = r.course /\ fi = r.first
           /\ lo = r.local /\ gl = r.global /\ ra = r.rankless /\ va = r.valid /\ re = r.reason /\ se = r.sent
           /\ r = [uid |-> u, user |-> us, personal |-> p, map |-> m, course |-> co, first |-> fi, local |-> lo,
                   global |-> gl, rankless |-> ra, valid |-> va, reason |-> re, sent |-> se]
<1>1. PICK u, us, p, m, co, fi, lo, gl, ra, va, re, se :
        /\ u = r.uid /\ us = r.user /\ p = r.personal /\ m = r.map /\ co = r.course /\ fi = r.first
        /\ lo = r.local /\ gl = r.global /\ ra = r.rankless /\ va = r.valid /\ re = r.reason /\ se = r.sent
  OBVIOUS
<1>2. r = [uid |-> u, user |-> us, personal |-> p, map |-> m, course |-> co, first |-> fi, local |-> lo,
           global |-> gl, rankless |-> ra, valid |-> va, reason |-> re, sent |-> se]
  BY <1>1 DEF Request
<1> QED BY <1>1, <1>2

\* What the code does to a request.
LEMMA LocalUpdate ==
  ASSUME NEW r \in Request, NEW local \in Statuses, NEW x,
         x = [r EXCEPT !.local = local]
  PROVE  Becomes(x, r, r.course, r.first, local, r.valid)
<1>1. PICK u, us, p, m, co, fi, lo, gl, ra, va, re, se :
        /\ u = r.uid /\ us = r.user /\ p = r.personal /\ m = r.map /\ co = r.course /\ fi = r.first
        /\ lo = r.local /\ gl = r.global /\ ra = r.rankless /\ va = r.valid /\ re = r.reason /\ se = r.sent
        /\ r = [uid |-> u, user |-> us, personal |-> p, map |-> m, course |-> co, first |-> fi, local |-> lo,
                global |-> gl, rankless |-> ra, valid |-> va, reason |-> re, sent |-> se]
  BY RequestParts
<1>2. x = [uid |-> u, user |-> us, personal |-> p, map |-> m, course |-> co, first |-> fi, local |-> local,
           global |-> gl, rankless |-> ra, valid |-> va, reason |-> re, sent |-> se]
  BY <1>1
<1>3. MadeOf(x, r, r.course, r.first, local, r.global, r.valid, r.sent)
  BY <1>1, <1>2 DEF MadeOf
<1> QED BY <1>3, RequestFields, MadeBecomes

LEMMA InvalidUpdate ==
  ASSUME NEW r \in Request, NEW f, f = FALSE, NEW local \in Statuses, NEW x,
         x = [r EXCEPT !.valid = f, !.local = local]
  PROVE  Becomes(x, r, r.course, r.first, local, f)
<1>1. PICK u, us, p, m, co, fi, lo, gl, ra, va, re, se :
        /\ u = r.uid /\ us = r.user /\ p = r.personal /\ m = r.map /\ co = r.course /\ fi = r.first
        /\ lo = r.local /\ gl = r.global /\ ra = r.rankless /\ va = r.valid /\ re = r.reason /\ se = r.sent
        /\ r = [uid |-> u, user |-> us, personal |-> p, map |-> m, course |-> co, first |-> fi, local |-> lo,
                global |-> gl, rankless |-> ra, valid |-> va, reason |-> re, sent |-> se]
  BY RequestParts
<1>2. x = [uid |-> u, user |-> us, personal |-> p, map |-> m, course |-> co, first |-> fi, local |-> local,
           global |-> gl, rankless |-> ra, valid |-> f, reason |-> re, sent |-> se]
  BY <1>1
<1>3. MadeOf(x, r, r.course, r.first, local, r.global, f, r.sent)
  BY <1>1, <1>2 DEF MadeOf
<1>4. f \in BOOLEAN
  OBVIOUS
<1> QED BY <1>3, <1>4, RequestFields, MadeBecomes

LEMMA GlobalUpdate ==
  ASSUME NEW r \in Request, NEW global \in Statuses, NEW sent \in BOOLEAN, NEW x,
         x = [r EXCEPT !.global = global, !.sent = sent]
  PROVE  Becomes(x, r, r.course, r.first, r.local, r.valid)
<1>1. PICK u, us, p, m, co, fi, lo, gl, ra, va, re, se :
        /\ u = r.uid /\ us = r.user /\ p = r.personal /\ m = r.map /\ co = r.course /\ fi = r.first
        /\ lo = r.local /\ gl = r.global /\ ra = r.rankless /\ va = r.valid /\ re = r.reason /\ se = r.sent
        /\ r = [uid |-> u, user |-> us, personal |-> p, map |-> m, course |-> co, first |-> fi, local |-> lo,
                global |-> gl, rankless |-> ra, valid |-> va, reason |-> re, sent |-> se]
  BY RequestParts
<1>2. x = [uid |-> u, user |-> us, personal |-> p, map |-> m, course |-> co, first |-> fi, local |-> lo,
           global |-> global, rankless |-> ra, valid |-> va, reason |-> re, sent |-> sent]
  BY <1>1
<1>3. MadeOf(x, r, r.course, r.first, r.local, global, r.valid, sent)
  BY <1>1, <1>2 DEF MadeOf
<1> QED BY <1>3, RequestFields, MadeBecomes

LEMMA ReceivedUpdate ==
  ASSUME NEW r \in Request, NEW global \in Statuses, NEW course \in Text, NEW x,
         x = [r EXCEPT !.global = global, !.course = course]
  PROVE  Becomes(x, r, course, r.first, r.local, r.valid)
<1>1. PICK u, us, p, m, co, fi, lo, gl, ra, va, re, se :
        /\ u = r.uid /\ us = r.user /\ p = r.personal /\ m = r.map /\ co = r.course /\ fi = r.first
        /\ lo = r.local /\ gl = r.global /\ ra = r.rankless /\ va = r.valid /\ re = r.reason /\ se = r.sent
        /\ r = [uid |-> u, user |-> us, personal |-> p, map |-> m, course |-> co, first |-> fi, local |-> lo,
                global |-> gl, rankless |-> ra, valid |-> va, reason |-> re, sent |-> se]
  BY RequestParts
<1>2. x = [uid |-> u, user |-> us, personal |-> p, map |-> m, course |-> course, first |-> fi, local |-> lo,
           global |-> global, rankless |-> ra, valid |-> va, reason |-> re, sent |-> se]
  BY <1>1
<1>3. MadeOf(x, r, course, r.first, r.local, global, r.valid, r.sent)
  BY <1>1, <1>2 DEF MadeOf
<1> QED BY <1>3, RequestFields, MadeBecomes

LEMMA RefusedUpdate ==
  ASSUME NEW r \in Request, NEW global \in Statuses, NEW x,
         x = [r EXCEPT !.global = global]
  PROVE  Becomes(x, r, r.course, r.first, r.local, r.valid)
<1>1. PICK u, us, p, m, co, fi, lo, gl, ra, va, re, se :
        /\ u = r.uid /\ us = r.user /\ p = r.personal /\ m = r.map /\ co = r.course /\ fi = r.first
        /\ lo = r.local /\ gl = r.global /\ ra = r.rankless /\ va = r.valid /\ re = r.reason /\ se = r.sent
        /\ r = [uid |-> u, user |-> us, personal |-> p, map |-> m, course |-> co, first |-> fi, local |-> lo,
                global |-> gl, rankless |-> ra, valid |-> va, reason |-> re, sent |-> se]
  BY RequestParts
<1>2. x = [uid |-> u, user |-> us, personal |-> p, map |-> m, course |-> co, first |-> fi, local |-> lo,
           global |-> global, rankless |-> ra, valid |-> va, reason |-> re, sent |-> se]
  BY <1>1
<1>3. MadeOf(x, r, r.course, r.first, r.local, global, r.valid, r.sent)
  BY <1>1, <1>2 DEF MadeOf
<1> QED BY <1>3, RequestFields, MadeBecomes

LEMMA CourseUpdate ==
  ASSUME NEW r \in Request, NEW f, f = FALSE, NEW course \in Text, NEW x,
         x = [r EXCEPT !.first = f, !.course = course]
  PROVE  Becomes(x, r, course, f, r.local, r.valid)
<1>1. PICK u, us, p, m, co, fi, lo, gl, ra, va, re, se :
        /\ u = r.uid /\ us = r.user /\ p = r.personal /\ m = r.map /\ co = r.course /\ fi = r.first
        /\ lo = r.local /\ gl = r.global /\ ra = r.rankless /\ va = r.valid /\ re = r.reason /\ se = r.sent
        /\ r = [uid |-> u, user |-> us, personal |-> p, map |-> m, course |-> co, first |-> fi, local |-> lo,
                global |-> gl, rankless |-> ra, valid |-> va, reason |-> re, sent |-> se]
  BY RequestParts
<1>2. x = [uid |-> u, user |-> us, personal |-> p, map |-> m, course |-> course, first |-> f, local |-> lo,
           global |-> gl, rankless |-> ra, valid |-> va, reason |-> re, sent |-> se]
  BY <1>1
<1>3. MadeOf(x, r, course, f, r.local, r.global, r.valid, r.sent)
  BY <1>1, <1>2 DEF MadeOf
<1>4. f \in BOOLEAN
  OBVIOUS
<1> QED BY <1>3, <1>4, RequestFields, MadeBecomes

LEMMA NoCourseUpdate ==
  ASSUME NEW r \in Request, NEW f, f = FALSE, NEW course \in Text, NEW local \in Statuses, NEW x,
         x = [r EXCEPT !.first = f, !.course = course, !.local = local]
  PROVE  Becomes(x, r, course, f, local, r.valid)
<1>1. PICK u, us, p, m, co, fi, lo, gl, ra, va, re, se :
        /\ u = r.uid /\ us = r.user /\ p = r.personal /\ m = r.map /\ co = r.course /\ fi = r.first
        /\ lo = r.local /\ gl = r.global /\ ra = r.rankless /\ va = r.valid /\ re = r.reason /\ se = r.sent
        /\ r = [uid |-> u, user |-> us, personal |-> p, map |-> m, course |-> co, first |-> fi, local |-> lo,
                global |-> gl, rankless |-> ra, valid |-> va, reason |-> re, sent |-> se]
  BY RequestParts
<1>2. x = [uid |-> u, user |-> us, personal |-> p, map |-> m, course |-> course, first |-> f, local |-> local,
           global |-> gl, rankless |-> ra, valid |-> va, reason |-> re, sent |-> se]
  BY <1>1
<1>3. MadeOf(x, r, course, f, local, r.global, r.valid, r.sent)
  BY <1>1, <1>2 DEF MadeOf
<1>4. f \in BOOLEAN
  OBVIOUS
<1> QED BY <1>3, <1>4, RequestFields, MadeBecomes

\* What RequestsInv says of one request.
Served(r) ==
  /\ r \in Request
  /\ r.first \/ (r.valid /\ r.local \in {"enabled", "pending"}) => db.ready
  /\ r.first => AnswerFor("first", r)
  /\ r.valid /\ r.local = "pending" /\ ~r.rankless => AnswerFor("times", r)

LEMMA AllServed == RequestsInv <=> (\A r \in requests : Served(r)) /\ QueryTypes
BY DEF RequestsInv, AsksReady, WaitsForAnAnswer, Served

LEMMA AllServedNext ==
  ASSUME \A r \in requests' : Served(r)', QueryTypes' PROVE RequestsInv'
BY DEF RequestsInv, AsksReady, WaitsForAnAnswer, Served

\* s is what became of r, and needs no more than it.
Follows(s, r) ==
  /\ s \in Request /\ s.uid = r.uid /\ s.rankless = r.rankless /\ (s.first => r.first) /\ (s.valid => r.valid)
  /\ s.local \in {"enabled", "pending"} => s.local = r.local

\* The query x is what s waits for.
Needs(s, x) ==
  \/ x.kind = "first" /\ s.first
  \/ x.kind = "times" /\ s.valid /\ s.local = "pending" /\ ~s.rankless

LEMMA ServedStays ==
  ASSUME NEW r, Served(r), NEW s, Follows(s, r), db.ready => db'.ready,
         db.ready => \A x \in ToSet(queue) : x.uid = r.uid /\ Needs(s, x) => x \in ToSet(queue')
  PROVE  Served(s)'
<1>1. s \in Request /\ s.uid = r.uid /\ s.rankless = r.rankless
  BY DEF Follows
<1>2. (s.first \/ (s.valid /\ s.local \in {"enabled", "pending"}) => db.ready)'
  BY DEF Follows, Served
<1>3. s.first => AnswerFor("first", s)'
  <2>1. SUFFICES ASSUME s.first PROVE AnswerFor("first", s)'
    OBVIOUS
  <2>2. PICK x \in ToSet(queue) : x.kind = "first" /\ x.uid = r.uid
    BY <2>1 DEF Follows, Served, AnswerFor
  <2>3. x \in ToSet(queue')
    BY <2>1, <2>2 DEF Follows, Served, Needs
  <2> QED BY <1>1, <2>2, <2>3 DEF AnswerFor
<1>4. s.valid /\ s.local = "pending" /\ ~s.rankless => AnswerFor("times", s)'
  <2>1. SUFFICES ASSUME s.valid, s.local = "pending", ~s.rankless PROVE AnswerFor("times", s)'
    OBVIOUS
  <2>2. r.valid /\ r.local = "pending" /\ ~r.rankless
    BY <2>1 DEF Follows
  <2>3. PICK x \in ToSet(queue) : x.kind = "times" /\ x.uid = r.uid
    BY <2>2 DEF Served, AnswerFor
  <2>4. x \in ToSet(queue')
    BY <2>1, <2>2, <2>3 DEF Served, Needs
  <2> QED BY <1>1, <2>3, <2>4 DEF AnswerFor
<1> QED BY <1>1, <1>2, <1>3, <1>4 DEF Served

LEMMA FollowsItself == ASSUME NEW r \in Request PROVE Follows(r, r)
BY DEF Follows

\* A step of the local database.
LEMMA DatabaseServes ==
  ASSUME RequestsInv, Steady, UNCHANGED queryVars PROVE RequestsInv'
<1>1. UNCHANGED users /\ UNCHANGED requests /\ UNCHANGED nextUid /\ UNCHANGED available
  BY DEF queryVars
<1>2. ASSUME NEW r \in requests PROVE Served(r)'
  <2>1. Served(r) /\ r \in Request
    BY AllServed DEF Served
  <2>2. db.ready => \A x \in ToSet(queue) : x.uid = r.uid /\ Needs(r, x) => x \in ToSet(queue')
    BY DEF Steady, Needs, RequestKinds
  <2> QED BY <2>1, <2>2, FollowsItself, ServedStays DEF Steady
<1>3. QueryTypes'
  BY <1>1, AllServed DEF QueryTypes
<1> QED BY <1>1, <1>2, <1>3, AllServedNext

\* Types of what is put into the queue for a request.
LEMMA AskedIs ==
  ASSUME NEW r \in Request, NEW kind \in RequestKinds
  PROVE  Asked(r, kind) \in ProperQuery /\ Asked(r, kind).kind = kind /\ Asked(r, kind).uid = r.uid
<1>1. PICK x : x = Asked(r, kind)
  OBVIOUS
<1>2. r.uid \in Nat /\ r.map \in MapIds /\ {r.course} \subseteq Text
  BY RequestFields
<1>3. x = [kind |-> kind, map |-> r.map, names |-> {r.course}, uid |-> r.uid]
  BY <1>1 DEF Asked
<1>4. x \in [kind : RequestKinds, map : MapIds, names : SUBSET Text, uid : Nat]
  BY <1>2, <1>3
<1>5. x \in ProperQuery
  BY <1>3, <1>4 DEF ProperQuery, Query, RequestKinds
<1> QED BY <1>1, <1>3, <1>5

\* The queue with one more such query, or with one less.
LEMMA BaseAsks ==
  ASSUME Base, UNCHANGED <<mapi, server, db, infos>>, NEW x \in ProperQuery, x.kind \in RequestKinds,
         queue' = queue \/ queue' = Append(queue, x)
  PROVE  Base' /\ ToSet(queue) \subseteq ToSet(queue')
<1>1. queue \in Seq(ProperQuery) /\ x.kind \notin Migrating /\ Alone(queue)
  BY BaseNow DEF RequestKinds, Migrating
<1>2. PICK a : a = Append(queue, x)
  OBVIOUS
<1>3. a \in Seq(ProperQuery) /\ ToSet(a) = ToSet(queue) \cup {x}
  BY <1>1, <1>2, AppendSet
<1>4. Alone(a)
  BY <1>1, <1>2, AppendKeeps
<1>5. queue' \in Seq(ProperQuery) /\ Alone(queue') /\ ToSet(queue) \subseteq ToSet(queue')
      /\ (db.ready => Without(queue', Migrating))
  BY <1>1, <1>2, <1>3, <1>4, BaseNow DEF Without
<1>6. BaseNext
  BY <1>5, BaseNow DEF BaseNext
<1> QED BY <1>5, <1>6, BaseThen

LEMMA BaseAnswers ==
  ASSUME Base, UNCHANGED <<mapi, server, db, infos>>, queue # <<>>, queue' = Tail(queue)
  PROVE  Base' /\ Head(queue) \in ProperQuery /\ ToSet(queue) = {Head(queue)} \cup ToSet(queue')
<1>1. /\ queue' \in Seq(ProperQuery) /\ Head(queue) \in ProperQuery
      /\ ToSet(queue) = {Head(queue)} \cup ToSet(queue')
      /\ Alone(queue') /\ (db.ready => Without(queue', Migrating))
  BY Popped
<1>2. BaseNext
  BY <1>1, BaseNow DEF BaseNext
<1> QED BY <1>1, <1>2, BaseThen

LEMMA BaseFrame == ASSUME Base, UNCHANGED <<mapi, server, db, queue, infos>> PROVE Base'
<1>1. BaseNext
  BY BaseNow DEF BaseNext
<1> QED BY <1>1, BaseThen

------------------------------------------------------------------------------
\* The first query is answered, for the request of its uid if it is still there.
LEMMA AnswerServes ==
  ASSUME Base, RequestsInv, UNCHANGED <<mapi, server, db, infos, users, available, nextUid>>, queue # <<>>,
         queue' = Tail(queue), NEW f, NEW h, h = Head(queue), h.kind \in RequestKinds,
         requests' = {IF r.uid = h.uid THEN f[r] ELSE r : r \in requests},
         \A r \in requests : r.uid = h.uid => Follows(f[r], r) /\ ~Needs(f[r], h)
  PROVE  Base' /\ RequestsInv'
<1>1. Base' /\ ToSet(queue) = {h} \cup ToSet(queue')
  BY BaseAnswers
<1>2. ASSUME NEW r \in requests, NEW s, s = IF r.uid = h.uid THEN f[r] ELSE r PROVE Served(s)'
  <2>1. Served(r) /\ r \in Request
    BY AllServed DEF Served
  <2>2. Follows(s, r)
    BY <1>2, <2>1, FollowsItself
  <2>3. \A x \in ToSet(queue) : x.uid = r.uid /\ Needs(s, x) => x \in ToSet(queue')
    BY <1>1, <1>2
  <2> QED BY <2>1, <2>2, <2>3, ServedStays
<1>3. \A s \in requests' : Served(s)'
  BY <1>2
<1>4. QueryTypes'
  BY AllServed DEF QueryTypes
<1> QED BY <1>1, <1>3, <1>4, AllServedNext

LEMMA FirstCourseServes == ASSUME Base, RequestsInv, FirstCourseAnswered PROVE Base' /\ RequestsInv'
<1>0. PICK h, there, no :
        h = Head(queue) /\ there = {row[2] : row \in {row \in db.rows : row[1] = h.map}} /\ no = FALSE
  OBVIOUS
<1>1. /\ UNCHANGED <<mapi, server, db, infos, users, available, nextUid>> /\ queue # <<>> /\ queue' = Tail(queue)
      /\ h.kind = "first" /\ h.kind \in RequestKinds
  BY <1>0 DEF FirstCourseAnswered, Answered, RequestKinds
<1>2. requests \subseteq Request
  BY DEF RequestsInv
<1>3. there \subseteq Text
  <2>1. db.rows \subseteq MapIds \X Text
    BY BaseNow, DbFields
  <2> QED BY <1>0, <2>1
<1>4. ASSUME NEW c \in {row[2] : row \in {row \in db.rows : row[1] = Head(queue).map}},
             Update(Head(queue).uid, LAMBDA r : [r EXCEPT !.first = FALSE, !.course = c])
      PROVE  Base' /\ RequestsInv'
  <2>1. PICK f : f = [r \in requests |-> [r EXCEPT !.first = no, !.course = c]]
    OBVIOUS
  <2>2. requests' = {IF r.uid = h.uid THEN f[r] ELSE r : r \in requests}
    <3>1. requests' = {IF r.uid = h.uid THEN [r EXCEPT !.first = no, !.course = c] ELSE r : r \in requests}
      BY <1>0, <1>4 DEF Update
    <3> QED BY <2>1, <3>1
  <2>3. ASSUME NEW r \in requests PROVE Follows(f[r], r) /\ ~Needs(f[r], h)
    <3>1. PICK x : x = f[r]
      OBVIOUS
    <3>2. x = [r EXCEPT !.first = no, !.course = c] /\ r \in Request /\ c \in Text
      BY <1>0, <1>2, <1>3, <1>4, <2>1, <3>1
    <3>3. Becomes(x, r, c, no, r.local, r.valid)
      BY <1>0, <3>2, CourseUpdate
    <3> QED BY <1>0, <1>1, <3>1, <3>3 DEF Becomes, Follows, Needs
  <2> QED BY <1>0, <1>1, <2>2, <2>3, AnswerServes
<1>5. ASSUME Update(Head(queue).uid, LAMBDA r : [r EXCEPT !.first = FALSE, !.course = "1", !.local = "disabled"])
      PROVE  Base' /\ RequestsInv'
  <2>1. PICK one : one = "1"
    OBVIOUS
  <2>2. PICK f : f = [r \in requests |-> [r EXCEPT !.first = no, !.course = one, !.local = "disabled"]]
    OBVIOUS
  <2>3. requests' = {IF r.uid = h.uid THEN f[r] ELSE r : r \in requests}
    <3>1. requests' = {IF r.uid = h.uid THEN [r EXCEPT !.first = no, !.course = one, !.local = "disabled"]
                                                          ELSE r : r \in requests}
      BY <1>0, <1>5, <2>1 DEF Update
    <3> QED BY <2>2, <3>1
  <2>4. ASSUME NEW r \in requests PROVE Follows(f[r], r) /\ ~Needs(f[r], h)
    <3>1. PICK x : x = f[r]
      OBVIOUS
    <3>2. x = [r EXCEPT !.first = no, !.course = one, !.local = "disabled"] /\ r \in Request
      BY <1>2, <2>2, <3>1
    <3>3. "disabled" \in Statuses /\ one \in Text
      BY <2>1, LiteralsAre DEF Statuses
    <3>4. Becomes(x, r, one, no, "disabled", r.valid)
      BY <1>0, <3>2, <3>3, NoCourseUpdate
    <3> QED BY <1>0, <1>1, <3>1, <3>4 DEF Becomes, Follows, Needs
  <2> QED BY <1>0, <1>1, <2>3, <2>4, AnswerServes
<1>6. LET q == Head(queue)
          at == {row[2] : row \in {row \in db.rows : row[1] = q.map}}
      IN  \/ \E c \in at : Update(q.uid, LAMBDA r : [r EXCEPT !.first = FALSE, !.course = c])
          \/ at = {} /\ Update(q.uid, LAMBDA r : [r EXCEPT !.first = FALSE, !.course = "1", !.local = "disabled"])
  BY Zenon DEF FirstCourseAnswered
<1> QED BY <1>4, <1>5, <1>6, Zenon

LEMMA TimesServe == ASSUME Base, RequestsInv, TimesAnswered PROVE Base' /\ RequestsInv'
<1>0. PICK h, f : h = Head(queue) /\ f = [r \in requests |-> TimesReceived(r)]
  OBVIOUS
<1>1. /\ UNCHANGED <<mapi, server, db, infos, users, available, nextUid>> /\ queue # <<>> /\ queue' = Tail(queue)
      /\ h.kind = "times" /\ h.kind \in RequestKinds
  BY <1>0 DEF TimesAnswered, Answered, RequestKinds
<1>2. requests' = {IF r.uid = h.uid THEN f[r] ELSE r : r \in requests}
  BY <1>0 DEF TimesAnswered, Update
<1>3. ASSUME NEW r \in requests PROVE Follows(f[r], r) /\ ~Needs(f[r], h)
  <2>1. r \in Request /\ f[r] = IF r.rankless THEN r ELSE [r EXCEPT !.local = "received"]
    BY <1>0 DEF RequestsInv, TimesReceived
  <2>2. CASE r.rankless
    BY <1>1, <2>1, <2>2, FollowsItself DEF Needs
  <2>3. CASE ~r.rankless
    <3>1. PICK x : x = f[r]
      OBVIOUS
    <3>2. "received" \in Statuses
      BY DEF Statuses
    <3>3. Becomes(x, r, r.course, r.first, "received", r.valid)
      BY <2>1, <2>3, <3>1, <3>2, LocalUpdate
    <3> QED BY <1>1, <3>1, <3>3 DEF Becomes, Follows, Needs
  <2> QED BY <2>2, <2>3
<1> QED BY <1>0, <1>1, <1>2, <1>3, AnswerServes

LEMMA FailureServes == ASSUME Base, RequestsInv, RequestFails PROVE Base' /\ RequestsInv'
<1>0. PICK h, f : h = Head(queue) /\ f = [r \in requests |-> RequestFailed(r)]
  OBVIOUS
<1>1. /\ UNCHANGED <<mapi, server, db, infos, users, available, nextUid>> /\ queue # <<>> /\ queue' = Tail(queue)
      /\ h.kind \in RequestKinds
  BY <1>0 DEF RequestFails, RequestKinds
<1>2. requests' = {IF r.uid = h.uid THEN f[r] ELSE r : r \in requests}
  BY <1>0 DEF RequestFails, Update
<1>3. ASSUME NEW r \in requests PROVE Follows(f[r], r) /\ ~Needs(f[r], h)
  <2>1. PICK x, one, no : x = f[r] /\ one = "1" /\ no = FALSE
    OBVIOUS
  <2>2. r \in Request /\ x = IF r.first THEN [r EXCEPT !.first = no, !.course = one, !.local = "disabled"]
                                        ELSE [r EXCEPT !.local = "disabled"]
    BY <1>0, <2>1 DEF RequestsInv, RequestFailed
  <2>3. "disabled" \in Statuses /\ one \in Text
    BY <2>1, LiteralsAre DEF Statuses
  <2>4. CASE r.first
    <3>1. Becomes(x, r, one, no, "disabled", r.valid)
      BY <2>1, <2>2, <2>3, <2>4, NoCourseUpdate
    <3> QED BY <1>1, <2>1, <3>1 DEF Becomes, Follows, Needs
  <2>5. CASE ~r.first
    <3>1. Becomes(x, r, r.course, r.first, "disabled", r.valid)
      BY <2>2, <2>3, <2>5, LocalUpdate
    <3> QED BY <1>1, <2>1, <2>5, <3>1 DEF Becomes, Follows, Needs
  <2> QED BY <2>4, <2>5
<1> QED BY <1>0, <1>1, <1>2, <1>3, AnswerServes

\* The API's answer is none of the database's.
LEMMA GlobalServes == ASSUME Base, RequestsInv, GlobalAnswered PROVE Base' /\ RequestsInv'
<1>0. PICK uid \in flights :
        \/ \E c \in {r.course : r \in Find(uid)} \cup {Main} :
             Update(uid, LAMBDA r : [r EXCEPT !.global = "received", !.course = c])
        \/ Update(uid, LAMBDA r : [r EXCEPT !.global = "disabled"])
  BY DEF GlobalAnswered
<1>1. UNCHANGED vars /\ UNCHANGED users /\ UNCHANGED available /\ UNCHANGED nextUid
  BY DEF GlobalAnswered
<1>2. UNCHANGED <<mapi, server, db, queue, infos>> /\ UNCHANGED db /\ UNCHANGED queue
  BY <1>1 DEF vars
<1>3. requests \subseteq Request
  BY DEF RequestsInv
<1>4. \A s \in requests' : \E r \in requests : Follows(s, r)
  <2>1. "received" \in Statuses /\ "disabled" \in Statuses
    BY DEF Statuses
  <2>2. ASSUME NEW c \in {r.course : r \in Find(uid)} \cup {Main},
               Update(uid, LAMBDA r : [r EXCEPT !.global = "received", !.course = c]),
               NEW s \in requests'
        PROVE  \E r \in requests : Follows(s, r)
    <3>1. c \in Text
      BY <1>3, RequestFields, LiteralsAre DEF Find
    <3>2. requests' = {IF r.uid = uid THEN [r EXCEPT !.global = "received", !.course = c] ELSE r : r \in requests}
      BY <2>2 DEF Update
    <3>3. PICK r \in requests : s = IF r.uid = uid THEN [r EXCEPT !.global = "received", !.course = c] ELSE r
      BY <2>2, <3>2
    <3>4. CASE r.uid # uid
      BY <1>3, <3>3, <3>4, FollowsItself
    <3>5. CASE r.uid = uid
      <4>1. Becomes(s, r, c, r.first, r.local, r.valid)
        BY <1>3, <2>1, <3>1, <3>3, <3>5, ReceivedUpdate
      <4> QED BY <4>1 DEF Becomes, Follows
    <3> QED BY <3>4, <3>5
  <2>3. ASSUME Update(uid, LAMBDA r : [r EXCEPT !.global = "disabled"]), NEW s \in requests'
        PROVE  \E r \in requests : Follows(s, r)
    <3>1. requests' = {IF r.uid = uid THEN [r EXCEPT !.global = "disabled"] ELSE r : r \in requests}
      BY <2>3 DEF Update
    <3>2. PICK r \in requests : s = IF r.uid = uid THEN [r EXCEPT !.global = "disabled"] ELSE r
      BY <2>3, <3>1
    <3>3. CASE r.uid # uid
      BY <1>3, <3>2, <3>3, FollowsItself
    <3>4. CASE r.uid = uid
      <4>1. Becomes(s, r, r.course, r.first, r.local, r.valid)
        BY <1>3, <2>1, <3>2, <3>4, RefusedUpdate
      <4> QED BY <4>1 DEF Becomes, Follows
    <3> QED BY <3>3, <3>4
  <2> QED BY <1>0, <2>2, <2>3
<1>5. ASSUME NEW s \in requests' PROVE Served(s)'
  <2>1. PICK r \in requests : Follows(s, r)
    BY <1>4
  <2>2. Served(r)
    BY AllServed
  <2> QED BY <1>2, <2>1, <2>2, ServedStays
<1>6. QueryTypes'
  BY <1>1, AllServed DEF QueryTypes
<1> QED BY <1>2, <1>5, <1>6, AllServedNext, BaseFrame

LEMMA LeaveServes == ASSUME Base, RequestsInv, Connection \/ Leave PROVE Base' /\ RequestsInv'
<1>1. UNCHANGED <<mapi, server, db, queue, infos>> /\ UNCHANGED requests /\ UNCHANGED nextUid
      /\ users' \subseteq users
      /\ (available' = available \/ available' = ~available)
  BY DEF Connection, Leave, vars
<1>2. UNCHANGED db /\ UNCHANGED queue
  BY <1>1
<1>3. ASSUME NEW r \in requests' PROVE Served(r)'
  <2>1. Served(r) /\ r \in Request
    BY <1>1, <1>3, AllServed DEF Served
  <2> QED BY <1>2, <2>1, FollowsItself, ServedStays
<1>4. QueryTypes'
  BY <1>1, AllServed DEF QueryTypes
<1> QED BY <1>1, <1>3, <1>4, AllServedNext, BaseFrame

------------------------------------------------------------------------------
\* A request that is made asks the database only if it is ready.
LEMMA CoursesAre ==
  ASSUME Base, NEW map \in Maps, NEW named \in Text, NEW local, NEW c \in Courses(map, named, local)
  PROVE  c.course \in Text /\ c.first \in BOOLEAN /\ c.ok \in BOOLEAN /\ (c.first => local = "enabled")
<1>1. NoName \in Text /\ CourseNames(mapi) \subseteq Text
  BY BaseNow, CourseNamesAre, LiteralsAre DEF NoName
<1>2. PICK n, f, k : c = [course |-> n, first |-> f, ok |-> k] /\ n \in Text /\ f \in BOOLEAN /\ k \in BOOLEAN
                     /\ (f => local = "enabled")
  <2>1. CASE named # NoName
    BY <2>1 DEF Courses
  <2>2. CASE named = NoName /\ map = server.map /\ mapi.sorted = <<>>
    BY <1>1, <2>2 DEF Courses
  <2>3. CASE named = NoName /\ map = server.map /\ mapi.sorted # <<>>
    <3>1. PICK n \in CourseNames(mapi) : c = [course |-> n, first |-> FALSE, ok |-> TRUE]
      BY <2>3 DEF Courses
    <3> QED BY <1>1, <3>1
  <2>4. CASE named = NoName /\ map # server.map
    <3>1. PICK f : f = (local = "enabled")
      OBVIOUS
    <3>2. c = [course |-> NoName, first |-> f, ok |-> TRUE]
      BY <2>4, <3>1 DEF Courses
    <3> QED BY <1>1, <3>1, <3>2
  <2> QED BY <2>1, <2>2, <2>3, <2>4
<1> QED BY <1>2

LEMMA PreparedIs ==
  ASSUME Base, nextUid \in Nat, NEW u \in Users, NEW kind, NEW map \in Maps, NEW named \in Text,
         NEW mode \in Names, NEW own \in BOOLEAN, NEW rankless \in BOOLEAN,
         NEW r \in Prepared(u, kind, map, named, mode, own, rankless)
  PROVE  r \in Request /\ r.uid = nextUid /\ r.local \in {"enabled", "disabled"}
         /\ (r.first \/ r.local = "enabled" => db.ready)
<1>1. PICK local, global, personal :
        /\ local = (IF db.ready THEN "enabled" ELSE "disabled")
        /\ global = (IF kind \in GlobalKinds /\ available THEN "enabled" ELSE "disabled")
        /\ personal = (kind \in PersonalKinds)
  OBVIOUS
<1>2. PICK c \in Courses(map, named, local) :
        LET l == IF c.ok /\ ~own /\ ~infos[mode].hasID THEN "disabled" ELSE local
            g == IF c.ok /\ mode \notin ApiModes THEN "disabled" ELSE global
            ok == c.ok /\ (l = "enabled" \/ g = "enabled")
        IN  r = [uid |-> nextUid, user |-> u, personal |-> personal, map |-> map, course |-> c.course,
                 first |-> c.first, local |-> l, global |-> g, rankless |-> rankless, valid |-> ok,
                 reason |-> ~ok, sent |-> FALSE]
  BY <1>1 DEF Prepared
<1>3. c.course \in Text /\ c.first \in BOOLEAN /\ c.ok \in BOOLEAN /\ (c.first => local = "enabled")
  BY CoursesAre
<1>4. PICK l, g, ok, not, co, fi, no :
        /\ l = (IF c.ok /\ ~own /\ ~infos[mode].hasID THEN "disabled" ELSE local)
        /\ g = (IF c.ok /\ mode \notin ApiModes THEN "disabled" ELSE global)
        /\ ok = (c.ok /\ (l = "enabled" \/ g = "enabled")) /\ not = ~ok
        /\ co = c.course /\ fi = c.first /\ no = FALSE
  OBVIOUS
<1>5. r = [uid |-> nextUid, user |-> u, personal |-> personal, map |-> map, course |-> co, first |-> fi,
           local |-> l, global |-> g, rankless |-> rankless, valid |-> ok, reason |-> not, sent |-> no]
  BY <1>2, <1>4
<1>6. /\ l \in {"enabled", "disabled"} /\ g \in {"enabled", "disabled"} /\ personal \in BOOLEAN /\ map \in MapIds
      /\ co \in Text /\ fi \in BOOLEAN /\ ok \in BOOLEAN /\ not \in BOOLEAN /\ no \in BOOLEAN
  <2>1. l \in {"enabled", "disabled"} /\ g \in {"enabled", "disabled"}
    BY <1>1, <1>4
  <2>2. ok \in BOOLEAN /\ not \in BOOLEAN
    BY <1>4
  <2>3. personal \in BOOLEAN
    BY <1>1
  <2>4. no \in BOOLEAN
    BY <1>4
  <2>5. map \in MapIds /\ co \in Text /\ fi \in BOOLEAN
    BY <1>3, <1>4 DEF MapIds
  <2> QED BY <2>1, <2>2, <2>3, <2>4, <2>5
<1>7. r \in Request
  BY <1>5, <1>6 DEF Request
<1>8. r.uid = nextUid /\ r.local = l /\ r.first = fi
  BY <1>5
<1>9. fi \/ l = "enabled" => db.ready
  BY <1>1, <1>3, <1>4
<1> QED BY <1>6, <1>7, <1>8, <1>9

\* A request whose arguments are bad is never valid, whatever its statuses are.
LEMMA BadIs ==
  ASSUME nextUid \in Nat, NEW u \in Users, NEW kind, NEW r \in BadArguments(u, kind)
  PROVE  r \in Request /\ r.uid = nextUid /\ r.local \in {"enabled", "disabled"} /\ r.first = FALSE
         /\ r.valid = FALSE
<1>1. PICK personal, no : personal = (kind \in PersonalKinds) /\ no = FALSE
  OBVIOUS
<1>2. PICK l \in {"enabled", "disabled"}, g \in {"enabled", "disabled"} :
        r = [uid |-> nextUid, user |-> u, personal |-> personal, map |-> NoMap, course |-> NoName, first |-> no,
             local |-> l, global |-> g, rankless |-> no, valid |-> no, reason |-> no, sent |-> no]
  <2>1. PICK l \in {"enabled", "disabled"}, g \in {"enabled", "disabled"} :
          r = [uid |-> nextUid, user |-> u, personal |-> kind \in PersonalKinds, map |-> NoMap, course |-> NoName,
               first |-> FALSE, local |-> l, global |-> g, rankless |-> FALSE, valid |-> FALSE, reason |-> FALSE,
               sent |-> FALSE]
    BY DEF BadArguments
  <2> QED BY <1>1, <2>1
<1>3. personal \in BOOLEAN /\ no \in BOOLEAN
  <2>1. personal \in BOOLEAN
    BY <1>1
  <2>2. no \in BOOLEAN
    BY <1>1
  <2> QED BY <2>1, <2>2
<1>4. NoName \in Text /\ NoMap \in MapIds
  BY LiteralsAre DEF NoName, MapIds
<1>5. r \in Request
  BY <1>2, <1>3, <1>4 DEF Request
<1> QED BY <1>1, <1>2, <1>5

\* One more request, and what it asks.
LEMMA CreateServes == ASSUME Base, RequestsInv, Create PROVE Base' /\ RequestsInv'
<1>1. PICK u \in users, kind \in Kinds, map \in Maps, named \in {NoName, Main}, mode \in Names,
           own \in BOOLEAN, rankless \in BOOLEAN :
        \E r \in Prepared(u, kind, map, named, mode, own, rankless) \cup BadArguments(u, kind) :
          /\ requests' = requests \cup {r}
          /\ queue' = IF r.first THEN Append(queue, Asked(r, "first")) ELSE queue
  BY DEF Create
<1>2. PICK r \in Prepared(u, kind, map, named, mode, own, rankless) \cup BadArguments(u, kind) :
        /\ requests' = requests \cup {r}
        /\ queue' = IF r.first THEN Append(queue, Asked(r, "first")) ELSE queue
  BY <1>1
<1>3. /\ UNCHANGED <<mapi, server, db, infos>> /\ UNCHANGED users /\ UNCHANGED available /\ UNCHANGED db
      /\ nextUid' = nextUid + 1
  BY DEF Create
<1>4. u \in Users /\ nextUid \in Nat /\ named \in Text
  BY AllServed, LiteralsAre DEF NoName, QueryTypes
<1>5. r \in Request /\ r.uid = nextUid /\ r.local \in {"enabled", "disabled"}
      /\ (r.first \/ (r.valid /\ r.local = "enabled") => db.ready)
  <2>1. CASE r \in Prepared(u, kind, map, named, mode, own, rankless)
    BY <1>4, <2>1, PreparedIs
  <2>2. CASE r \in BadArguments(u, kind)
    BY <1>4, <2>2, BadIs
  <2> QED BY <2>1, <2>2
<1>6. PICK x : x = Asked(r, "first")
  OBVIOUS
<1>7. x \in ProperQuery /\ x.kind = "first" /\ x.uid = r.uid /\ x.kind \in RequestKinds
  <2>1. "first" \in RequestKinds
    BY DEF RequestKinds
  <2> QED BY <1>5, <1>6, <2>1, AskedIs
<1>8. queue' = queue \/ queue' = Append(queue, x)
  BY <1>2, <1>6
<1>9. Base' /\ ToSet(queue) \subseteq ToSet(queue')
  BY <1>3, <1>7, <1>8, BaseAsks
<1>10. r.first => AnswerFor("first", r)'
  <2>1. SUFFICES ASSUME r.first PROVE x \in ToSet(queue')
    BY <1>7 DEF AnswerFor
  <2>2. queue \in Seq(ProperQuery) /\ queue' = Append(queue, x)
    BY <1>2, <1>6, <2>1, BaseNow
  <2> QED BY <1>7, <2>2, AppendSet
<1>11. Served(r)'
  BY <1>3, <1>5, <1>10 DEF Served
<1>12. ASSUME NEW s \in requests PROVE Served(s)'
  <2>1. Served(s) /\ s \in Request
    BY AllServed DEF Served
  <2> QED BY <1>3, <1>9, <2>1, FollowsItself, ServedStays
<1>13. QueryTypes'
  BY <1>3, <1>4, AllServed DEF QueryTypes
<1> QED BY <1>2, <1>9, <1>11, <1>12, <1>13, AllServedNext

------------------------------------------------------------------------------
\* What CheckRequests makes of a request: it stays served, or it waits for what is asked now.
LEMMA LocalIs ==
  ASSUME NEW r \in Request
  PROVE  LET s == QueryLocal(r)
         IN  /\ s \in Request /\ s.uid = r.uid /\ s.rankless = r.rankless /\ s.first = r.first
             /\ (s.valid => r.valid)
             /\ \/ s.local = r.local
                \/ r.local = "enabled" /\ s.local = "pending" /\ (s.valid => ~Gone(r) /\ ~r.first)
<1>1. PICK s, no : s = QueryLocal(r) /\ no = FALSE
  OBVIOUS
<1>2. r.first \in BOOLEAN /\ r.local \in Statuses /\ "pending" \in Statuses /\ "enabled" # "pending"
  BY RequestFields DEF Statuses
<1>3. CASE r.first
  BY <1>1, <1>3 DEF QueryLocal, Asking
<1>4. CASE ~r.first /\ Gone(r) /\ (r.personal \/ r.local = "enabled")
  <2>1. PICK l : l = IF r.local = "enabled" /\ ~r.personal THEN "pending" ELSE r.local
    OBVIOUS
  <2>2. s = [r EXCEPT !.valid = no, !.local = l]
    BY <1>1, <1>4, <2>1 DEF QueryLocal, Asking
  <2>3. l \in Statuses
    BY <1>2, <2>1
  <2>4. Becomes(s, r, r.course, r.first, l, no)
    BY <1>1, <2>2, <2>3, InvalidUpdate
  <2> QED BY <1>1, <2>1, <2>4 DEF Becomes
<1>5. CASE ~r.first /\ ~(Gone(r) /\ (r.personal \/ r.local = "enabled")) /\ r.local = "enabled"
  <2>1. s = [r EXCEPT !.local = "pending"]
    BY <1>1, <1>5 DEF QueryLocal, Asking
  <2>2. Becomes(s, r, r.course, r.first, "pending", r.valid)
    BY <1>2, <2>1, LocalUpdate
  <2> QED BY <1>1, <1>5, <2>2 DEF Becomes
<1>6. CASE ~r.first /\ ~(Gone(r) /\ (r.personal \/ r.local = "enabled")) /\ r.local # "enabled"
  BY <1>1, <1>6 DEF QueryLocal, Asking
<1> QED BY <1>3, <1>4, <1>5, <1>6

LEMMA GlobalIs ==
  ASSUME NEW r \in Request, available \in BOOLEAN
  PROVE  LET s == QueryGlobal(r)
         IN  /\ s \in Request /\ s.uid = r.uid /\ s.rankless = r.rankless /\ s.first = r.first
             /\ s.valid = r.valid
             /\ s.local = r.local
<1>1. PICK s : s = QueryGlobal(r)
  OBVIOUS
<1>2. CASE Asking(r) /\ r.global = "enabled"
  <2>1. s = [r EXCEPT !.global = "pending", !.sent = available]
    BY <1>1, <1>2 DEF QueryGlobal
  <2>2. "pending" \in Statuses
    BY DEF Statuses
  <2>3. Becomes(s, r, r.course, r.first, r.local, r.valid)
    BY <2>1, <2>2, GlobalUpdate
  <2> QED BY <1>1, <2>3 DEF Becomes
<1>3. CASE ~(Asking(r) /\ r.global = "enabled")
  BY <1>1, <1>3 DEF QueryGlobal
<1> QED BY <1>2, <1>3

------------------------------------------------------------------------------
\* One turn of the loop over the requests: what waits for the database is what was asked.
LEMMA CheckServes == ASSUME Base, RequestsInv, CheckRequests PROVE Base' /\ RequestsInv'
<1>1. PICK r \in requests, late \in BOOLEAN :
        LET asked == QueryGlobal(QueryLocal(r))
            stays == asked.valid /\ ~Complete(asked) /\ ~late
        IN  /\ requests' = (requests \ {r}) \cup (IF stays THEN {asked} ELSE {})
            /\ queue' = IF r.local = "enabled" /\ asked.local = "pending" /\ ~Gone(r)
                        THEN Append(queue, Asked(asked, "times")) ELSE queue
  BY DEF CheckRequests
<1>2. PICK s : s = QueryGlobal(QueryLocal(r))
  OBVIOUS
<1>3. /\ requests' \subseteq requests \cup {s}
      /\ queue' = IF r.local = "enabled" /\ s.local = "pending" /\ ~Gone(r)
                  THEN Append(queue, Asked(s, "times")) ELSE queue
  BY <1>1, <1>2
<1>4. /\ UNCHANGED <<mapi, server, db, infos>> /\ UNCHANGED users /\ UNCHANGED available /\ UNCHANGED db
      /\ UNCHANGED nextUid
  BY DEF CheckRequests
<1>5. Served(r) /\ r \in Request /\ available \in BOOLEAN
  BY AllServed DEF Served, QueryTypes
<1>6. PICK o : o = QueryLocal(r)
  OBVIOUS
<1>7. /\ o \in Request /\ o.uid = r.uid /\ o.rankless = r.rankless /\ o.first = r.first /\ (o.valid => r.valid)
      /\ \/ o.local = r.local
         \/ r.local = "enabled" /\ o.local = "pending" /\ (o.valid => ~Gone(r) /\ ~r.first)
  BY <1>5, <1>6, LocalIs
<1>8. /\ s \in Request /\ s.uid = o.uid /\ s.rankless = o.rankless /\ s.first = o.first /\ s.valid = o.valid
      /\ s.local = o.local
  BY <1>2, <1>5, <1>6, <1>7, GlobalIs
<1>9. PICK x : x = Asked(s, "times")
  OBVIOUS
<1>10. x \in ProperQuery /\ x.kind = "times" /\ x.uid = s.uid /\ x.kind \in RequestKinds
  <2>1. "times" \in RequestKinds
    BY DEF RequestKinds
  <2> QED BY <1>8, <1>9, <2>1, AskedIs
<1>11. Base' /\ ToSet(queue) \subseteq ToSet(queue')
  <2>1. queue' = queue \/ queue' = Append(queue, x)
    BY <1>3, <1>9
  <2> QED BY <1>4, <1>10, <2>1, BaseAsks
<1>12. ASSUME NEW t \in requests PROVE Served(t)'
  <2>1. Served(t) /\ t \in Request
    BY AllServed DEF Served
  <2> QED BY <1>4, <1>11, <2>1, FollowsItself, ServedStays
<1>13. Served(s)'
  <2>1. CASE s.local = r.local
    <3>1. Follows(s, r)
      BY <1>7, <1>8, <2>1 DEF Follows
    <3> QED BY <1>4, <1>5, <1>11, <3>1, ServedStays
  <2>2. CASE s.local # r.local
    <3>1. r.local = "enabled" /\ s.local = "pending" /\ (s.valid => r.valid /\ ~Gone(r) /\ ~s.first)
      BY <1>7, <1>8, <2>2
    <3>2. s.first \/ s.valid => db'.ready
      BY <1>4, <1>5, <1>7, <1>8, <3>1 DEF Served
    <3>3. s.first => AnswerFor("first", s)'
      BY <1>5, <1>7, <1>8, <1>11 DEF Served, AnswerFor
    <3>4. s.valid => AnswerFor("times", s)'
      <4>1. SUFFICES ASSUME s.valid PROVE x \in ToSet(queue')
        BY <1>10 DEF AnswerFor
      <4>2. queue \in Seq(ProperQuery) /\ queue' = Append(queue, x)
        BY <1>3, <1>9, <3>1, <4>1, BaseNow
      <4> QED BY <1>10, <4>2, AppendSet
    <3> QED BY <1>8, <3>2, <3>3, <3>4 DEF Served
  <2> QED BY <2>1, <2>2
<1>14. QueryTypes'
  BY <1>4, AllServed DEF QueryTypes
<1>15. \A t \in requests' : Served(t)'
  BY <1>3, <1>12, <1>13
<1> QED BY <1>11, <1>14, <1>15, AllServedNext

------------------------------------------------------------------------------
(* The requests, beside whatever the maps and the plugins do. *)

QueryInv == DatabaseInv /\ RequestsInv

\* None of the requests' steps touches what the database's own invariant is about, but the queue.
LEMMA RequestStepServes ==
  ASSUME Base, RequestsInv,
         \/ Create \/ CheckRequests \/ FirstCourseAnswered \/ TimesAnswered \/ RequestFails
         \/ GlobalAnswered \/ Connection \/ Leave
  PROVE  Base' /\ RequestsInv'
<1>1. CASE Create
  BY <1>1, CreateServes
<1>2. CASE CheckRequests
  BY <1>2, CheckServes
<1>3. CASE FirstCourseAnswered
  BY <1>3, FirstCourseServes
<1>4. CASE TimesAnswered
  BY <1>4, TimesServe
<1>5. CASE RequestFails
  BY <1>5, FailureServes
<1>6. CASE GlobalAnswered
  BY <1>6, GlobalServes
<1>7. CASE Connection \/ Leave
  BY <1>7, LeaveServes
<1> QED BY <1>1, <1>2, <1>3, <1>4, <1>5, <1>6, <1>7

LEMMA QueryStepServes == ASSUME Base, RequestsInv, [QueryNext]_allVars PROVE Base' /\ RequestsInv'
<1>1. CASE Next /\ UNCHANGED queryVars
  BY <1>1, NextTypes, DatabaseServes
<1>2. CASE UNCHANGED allVars
  <2>1. UNCHANGED vars /\ UNCHANGED queryVars
    BY <1>2 DEF allVars
  <2>2. UNCHANGED <<mapi, server, db, queue, infos>> /\ UNCHANGED db /\ UNCHANGED queue
    BY <2>1 DEF vars
  <2>3. Base'
    BY <2>2, BaseFrame
  <2>4. Steady
    BY <2>2 DEF Steady
  <2> QED BY <2>1, <2>3, <2>4, DatabaseServes
<1>3. CASE \/ Create \/ CheckRequests \/ FirstCourseAnswered \/ TimesAnswered \/ RequestFails
           \/ GlobalAnswered \/ Connection \/ Leave
  BY <1>3, RequestStepServes
<1> QED BY <1>1, <1>2, <1>3 DEF QueryNext

\* They put one query of their own at the end of the queue, or take one from its head.
LEMMA RequestStepAsks ==
  ASSUME Base,
         \/ Create \/ CheckRequests \/ FirstCourseAnswered \/ TimesAnswered \/ RequestFails
         \/ GlobalAnswered \/ Connection \/ Leave
  PROVE  /\ UNCHANGED <<mapi, server, db, infos>>
         /\ \/ queue' = queue
            \/ \E x : x.kind \in RequestKinds /\ queue' = Append(queue, x)
            \/ queue # <<>> /\ Head(queue).kind \in RequestKinds /\ queue' = Tail(queue)
<1>1. CASE Create
  <2>1. PICK r : queue' = IF r.first THEN Append(queue, Asked(r, "first")) ELSE queue
    BY <1>1 DEF Create
  <2>2. Asked(r, "first").kind \in RequestKinds
    BY DEF Asked, RequestKinds
  <2>3. UNCHANGED <<mapi, server, db, infos>>
    BY <1>1 DEF Create
  <2> QED BY <2>1, <2>2, <2>3
<1>2. CASE CheckRequests
  <2>1. PICK r, s : queue' = IF r.local = "enabled" /\ s.local = "pending" /\ ~Gone(r)
                             THEN Append(queue, Asked(s, "times")) ELSE queue
    BY <1>2 DEF CheckRequests
  <2>2. Asked(s, "times").kind \in RequestKinds
    BY DEF Asked, RequestKinds
  <2>3. UNCHANGED <<mapi, server, db, infos>>
    BY <1>2 DEF CheckRequests
  <2> QED BY <2>1, <2>2, <2>3
<1>3. CASE FirstCourseAnswered
  BY <1>3 DEF FirstCourseAnswered, Answered, RequestKinds
<1>4. CASE TimesAnswered
  BY <1>4 DEF TimesAnswered, Answered, RequestKinds
<1>5. CASE RequestFails
  BY <1>5 DEF RequestFails, RequestKinds
<1>6. CASE GlobalAnswered
  <2>1. UNCHANGED vars
    BY <1>6 DEF GlobalAnswered
  <2> QED BY <2>1 DEF vars
<1>7. CASE Connection
  BY <1>7 DEF Connection
<1>8. CASE Leave
  <2>1. UNCHANGED vars
    BY <1>8 DEF Leave
  <2> QED BY <2>1 DEF vars
<1> QED BY <1>1, <1>2, <1>3, <1>4, <1>5, <1>6, <1>7, <1>8

LEMMA RequestStepKeeps ==
  ASSUME Base, Rest,
         \/ Create \/ CheckRequests \/ FirstCourseAnswered \/ TimesAnswered \/ RequestFails
         \/ GlobalAnswered \/ Connection \/ Leave
  PROVE  Rest'
<1>1. /\ UNCHANGED <<mapi, server, db, infos>>
      /\ \/ queue' = queue
         \/ \E x : x.kind \in RequestKinds /\ queue' = Append(queue, x)
         \/ queue # <<>> /\ Head(queue).kind \in RequestKinds /\ queue' = Tail(queue)
  BY RequestStepAsks
<1>2. queue \in Seq(ProperQuery)
  BY BaseNow
<1>3. AsksSame(queue, queue') /\ \A y \in ToSet(queue) : y.kind = "insert" => y \in ToSet(queue')
  <2>1. CASE queue' = queue
    BY <2>1 DEF AsksSame
  <2>2. CASE \E x : x.kind \in RequestKinds /\ queue' = Append(queue, x)
    <3>1. PICK x : x.kind \in RequestKinds /\ queue' = Append(queue, x)
      BY <2>2
    <3>2. PICK S : S = ProperQuery \cup {x}
      OBVIOUS
    <3>3. queue \in Seq(S) /\ x \in S
      BY <1>2, <3>2
    <3>4. x.kind \notin {"map", "courses"}
      BY <3>1 DEF RequestKinds
    <3>5. AsksSame(queue, Append(queue, x))
      BY <3>3, <3>4, AppendAsksSame
    <3>6. ToSet(Append(queue, x)) = ToSet(queue) \cup {x}
      BY <3>3, AppendSet
    <3> QED BY <3>1, <3>5, <3>6
  <2>3. CASE queue # <<>> /\ Head(queue).kind \in RequestKinds /\ queue' = Tail(queue)
    <3>1. Head(queue).kind \notin {"map", "courses", "insert"}
      BY <2>3 DEF RequestKinds
    <3>2. AsksSame(queue, Tail(queue))
      BY <1>2, <2>3, <3>1, TailAsksSame
    <3>3. ToSet(queue) = {Head(queue)} \cup ToSet(queue')
      BY <2>3, Popped
    <3> QED BY <2>3, <3>1, <3>2, <3>3
  <2> QED BY <1>1, <2>1, <2>2, <2>3
<1>4. UNCHANGED infos /\ UNCHANGED db /\ UNCHANGED <<mapi, server>>
  BY <1>1
<1>5. SetUpAsked' /\ MapIsPlayed' /\ ReadyFirst' /\ CoursesAsked'
  BY <1>3, <1>4, FrameKeeps DEF Rest
<1>6. PluginsAsked'
  BY <1>3, <1>4, PluginsFrame DEF Rest
<1> QED BY <1>5, <1>6 DEF Rest

LEMMA QueryStep == ASSUME QueryInv, [QueryNext]_allVars PROVE QueryInv'
<1>1. Base /\ Rest /\ RequestsInv /\ DatabaseInv
  BY DEF QueryInv, DatabaseInv, Rest
<1>2. RequestsInv'
  BY <1>1, QueryStepServes
<1>3. DatabaseInv'
  <2>1. CASE Next \/ UNCHANGED allVars
    <3>1. [Next]_vars
      BY <2>1 DEF allVars
    <3> QED BY <1>1, <3>1, StepKeeps
  <2>2. CASE \/ Create \/ CheckRequests \/ FirstCourseAnswered \/ TimesAnswered \/ RequestFails
             \/ GlobalAnswered \/ Connection \/ Leave
    <3>1. Base' /\ Rest'
      BY <1>1, <2>2, RequestStepServes, RequestStepKeeps
    <3> QED BY <3>1 DEF DatabaseInv, Rest
  <2> QED BY <2>1, <2>2 DEF QueryNext
<1> QED BY <1>2, <1>3 DEF QueryInv

LEMMA QueryInitIs == ASSUME QueryInit PROVE QueryInv
<1>1. Base /\ Rest
  BY InitIs DEF QueryInit
<1>2. requests = {} /\ QueryTypes
  BY DEF QueryInit, QueryTypes
<1>3. RequestsInv
  BY <1>2 DEF RequestsInv, AsksReady, WaitsForAnAnswer
<1> QED BY <1>1, <1>3 DEF QueryInv, DatabaseInv, Rest

\* The requests disturb nothing of the database's invariant, and keep one of their own.
THEOREM QueryInvariant == QuerySpec => []QueryInv
<1>1. QueryInit => QueryInv
  BY QueryInitIs
<1>2. QueryInv /\ [QueryNext]_allVars => QueryInv'
  BY QueryStep
<1> QED BY <1>1, <1>2, PTL DEF QuerySpec

\* A request that waits for the database has its query there, for any players, maps, plugins,
\* failures and numbers of requests.
THEOREM RequestsWaitForAnswers == QuerySpec => []WaitsForAnAnswer
<1>1. QueryInv => WaitsForAnAnswer
  BY DEF QueryInv, RequestsInv
<1> QED BY <1>1, QueryInvariant, PTL


------------------------------------------------------------------------------
(* The triggers of a player. *)

TrackerType == [trig : Trigs, touched : BOOLEAN, mapi : BOOLEAN]
PushType    == [src : Trigs, at : Nat, applied : BOOLEAN]

Service ==
  [trackers : Seq(TrackerType), pushes : SUBSET PushType,
   depth : [Trigs -> Int], last : [Trigs -> Nat \cup {Never}], hit : SUBSET Trigs]

\* What a trigger's events left behind is what its tracker says.
EventsFit(s) ==
  /\ \A i \in DOMAIN s.trackers : s.trackers[i].mapi => HasBhopTrigger(s.trackers[i].trig)
  /\ \A t \in Trigs \cap world.exists : s.depth[t] = IF Started(s, t) THEN 1 ELSE 0

\* The last push of a trigger is remembered by its event until it may push again, from c on.
CoolsDown(s, t, c) ==
  /\ \A p \in s.pushes : p.src = t =>
       IF p.applied THEN p.at = s.last[t] ELSE p.at >= s.last[t] + Cooldown[t]
  /\ t \notin Sources(s) => s.last[t] + Cooldown[t] <= c

PushesFit(s, c) ==
  \A t \in Trigs \ CancelOnTp : s.last[t] # Never => CoolsDown(s, t, c)

\* Trackers and events are found by their triggers.
OneTracker(s) == \A i, j \in DOMAIN s.trackers : s.trackers[i].trig = s.trackers[j].trig => i = j
OnePush(s)    == \A p, q \in s.pushes : p.src = q.src => p = q

Touches(s)    == OneTracker(s) /\ EventsFit(s)
Pushing(s, c) == OnePush(s) /\ PushesFit(s, c)
Fine(s, c)    == s \in Service /\ Touches(s) /\ Pushing(s, c)

\* What a change leaves alone.
Kept(s, e)        == e.last = s.last /\ e.hit = s.hit
SameTouches(s, e) == e.trackers = s.trackers /\ e.depth = s.depth
SameTrigs(s, e)   ==
  Len(e.trackers) = Len(s.trackers) /\ \A i \in 1..Len(s.trackers) : e.trackers[i].trig = s.trackers[i].trig

\* Times.
LEMMA TriggerConstants ==
  /\ Delay \in [Trigs -> Nat] /\ Cooldown \in [Trigs -> Nat]
  /\ Never \notin Nat /\ Never \in Int
BY TriggersAssumption DEF Never

LEMMA TouchesKept ==
  ASSUME NEW s, NEW e, Touches(s), SameTouches(s, e) PROVE Touches(e)
BY DEF Touches, SameTouches, OneTracker, EventsFit, Started

LEMMA AddPushEventsFits ==
  ASSUME NEW c \in Nat, NEW s \in Service, Pushing(s, c),
         NEW ts, ts \subseteq Trigs, NEW time \in Nat, c <= time
  PROVE  LET e == AddPushEvents(s, ts, time)
         IN  e \in Service /\ Pushing(e, c) /\ Kept(s, e) /\ SameTouches(s, e)
<1> DEFINE new == {Push(t, time + Delay[t]) : t \in ts \ Sources(s)}
           e == [s EXCEPT !.pushes = @ \cup new]
<1>1. \A p \in new : /\ p \in PushType /\ p.src \in Trigs /\ p.src \notin Sources(s) /\ ~p.applied
                     /\ p.at >= c /\ p = Push(p.src, time + Delay[p.src])
  <2> SUFFICES ASSUME NEW t \in ts \ Sources(s)
               PROVE  LET p == Push(t, time + Delay[t])
                      IN  p \in PushType /\ p.src = t /\ t \in Trigs /\ ~p.applied /\ p.at >= c
    OBVIOUS
  <2>1. time + Delay[t] \in Nat /\ time + Delay[t] >= c /\ t \in Trigs
    BY TriggerConstants
  <2> QED BY <2>1 DEF Push, PushType
<1>2. e \in Service /\ e.pushes = s.pushes \cup new /\ Kept(s, e) /\ SameTouches(s, e) /\ e.last = s.last
  BY <1>1 DEF Service, Kept, SameTouches
<1>3. OnePush(e)
  BY <1>1, <1>2 DEF Pushing, OnePush, Sources
<1>4. ASSUME NEW t \in Trigs \ CancelOnTp, s.last[t] # Never PROVE CoolsDown(e, t, c)
  <2>1. CoolsDown(s, t, c) /\ s.last[t] \in Nat /\ Cooldown[t] \in Nat
    BY <1>4, TriggerConstants DEF Pushing, PushesFit, Service
  <2>2. \A p \in s.pushes : p.src = t =>
          IF p.applied THEN p.at = s.last[t] ELSE p.at >= s.last[t] + Cooldown[t]
    BY <2>1 DEF CoolsDown
  <2>3. \A p \in new : p.src = t => ~p.applied /\ p.at >= s.last[t] + Cooldown[t]
    <3> SUFFICES ASSUME NEW p \in new, p.src = t PROVE p.at >= s.last[t] + Cooldown[t]
      BY <1>1
    <3>1. s.last[t] + Cooldown[t] <= c /\ p.at \in Nat
      BY <1>1, <2>1 DEF CoolsDown, PushType
    <3> QED BY <1>1, <2>1, <3>1
  <2>4. t \notin Sources(e) => t \notin Sources(s)
    BY <1>2 DEF Sources
  <2> HIDE DEF e, new
  <2> QED BY <1>2, <2>1, <2>2, <2>3, <2>4 DEF CoolsDown
<1>5. Pushing(e, c)
  BY <1>2, <1>3, <1>4 DEF Pushing, PushesFit
<1>6. AddPushEvents(s, ts, time) = e
  BY DEF AddPushEvents
<1> QED BY <1>2, <1>5, <1>6

LEMMA CancelPushesFits ==
  ASSUME NEW c \in Nat, NEW s \in Service, Pushing(s, c)
  PROVE  LET e == CancelPushes(s)
         IN  e \in Service /\ Pushing(e, c) /\ Kept(s, e) /\ SameTouches(s, e)
<1> DEFINE e == [s EXCEPT !.pushes = {p \in s.pushes : p.src \notin CancelOnTp}]
<1>1. /\ e \in Service /\ e.pushes = {p \in s.pushes : p.src \notin CancelOnTp}
      /\ Kept(s, e) /\ SameTouches(s, e) /\ e.last = s.last
  BY DEF Service, Kept, SameTouches
<1>2. CancelPushes(s) = e
  BY DEF CancelPushes, Service
<1> HIDE DEF e
<1>3. ASSUME NEW t \in Trigs \ CancelOnTp, s.last[t] # Never PROVE CoolsDown(e, t, c)
  <2>1. CoolsDown(s, t, c)
    BY <1>3 DEF Pushing, PushesFit
  <2>2. t \notin Sources(e) => t \notin Sources(s)
    BY <1>1 DEF Sources
  <2> QED BY <1>1, <2>1, <2>2 DEF CoolsDown
<1> QED BY <1>1, <1>2, <1>3 DEF Pushing, OnePush, PushesFit

LEMMA CleanupFits ==
  ASSUME NEW c \in Nat, NEW s \in Service, Pushing(s, c), NEW time \in Nat, NEW f \in Nat, time - f <= c
  PROVE  LET e == CleanupPushEvents(s, time, f)
         IN  e \in Service /\ Pushing(e, c) /\ Kept(s, e) /\ SameTouches(s, e)
<1> DEFINE old == {p \in s.pushes : p.applied /\ time - f >= p.at + Cooldown[p.src]}
           e == [s EXCEPT !.pushes = @ \ old]
<1>1. /\ e \in Service /\ e.pushes = s.pushes \ old
      /\ Kept(s, e) /\ SameTouches(s, e) /\ e.last = s.last
  BY DEF Service, Kept, SameTouches
<1>2. CleanupPushEvents(s, time, f) = e
  BY DEF CleanupPushEvents
<1>0. \A p \in old : p \in s.pushes /\ p.applied /\ time - f >= p.at + Cooldown[p.src]
  OBVIOUS
<1> HIDE DEF e, old
<1>3. ASSUME NEW t \in Trigs \ CancelOnTp, s.last[t] # Never PROVE CoolsDown(e, t, c)
  <2>1. CoolsDown(s, t, c) /\ s.last[t] \in Nat /\ Cooldown[t] \in Nat
    BY <1>3, TriggerConstants DEF Pushing, PushesFit, Service
  <2>2. t \notin Sources(e) => s.last[t] + Cooldown[t] <= c
    <3> SUFFICES ASSUME t \notin Sources(e), t \in Sources(s) PROVE s.last[t] + Cooldown[t] <= c
      BY <2>1 DEF CoolsDown
    <3>1. PICK p \in old : p.src = t
      BY <1>1 DEF Sources
    <3>2. p.at = s.last[t]
      BY <1>0, <2>1, <3>1 DEF CoolsDown
    <3> QED BY <1>0, <2>1, <3>1, <3>2
  <2> QED BY <1>1, <2>1, <2>2 DEF CoolsDown
<1> QED BY <1>1, <1>2, <1>3 DEF Pushing, OnePush, PushesFit

\* What is pushed again was not pushed for its cooldown.
Cooled(s, e) ==
  \A t \in Trigs \ CancelOnTp :
    e.last[t] = s.last[t] \/ s.last[t] = Never \/ e.last[t] >= s.last[t] + Cooldown[t]

LEMMA ApplyPushesFits ==
  ASSUME NEW c \in Nat, NEW s \in Service, Pushing(s, c), NEW time \in Nat, NEW f \in Nat
  PROVE  LET e == ApplyPushes(s, time, f)
         IN  e \in Service /\ Pushing(e, c) /\ Cooled(s, e) /\ SameTouches(s, e) /\ e.hit = s.hit
<1> DEFINE due == {p \in s.pushes : Due(p, time, f)}
           done == {[p EXCEPT !.applied = TRUE] : p \in due}
           last == [t \in Trigs |-> IF \E p \in due : p.src = t
                                    THEN (CHOOSE p \in due : p.src = t).at ELSE s.last[t]]
           e == [s EXCEPT !.pushes = (s.pushes \ due) \cup done, !.last = last]
<1>0. /\ due \subseteq s.pushes /\ \A p \in due : ~p.applied
      /\ s.pushes \subseteq PushType /\ s.last \in [Trigs -> Nat \cup {Never}]
  BY DEF Due, Service
<1>1. \A q \in done : \E p \in due : q.src = p.src /\ q.at = p.at /\ q.applied /\ q \in PushType
                                     /\ q = [p EXCEPT !.applied = TRUE]
  BY <1>0 DEF PushType
<1>2. \A p \in due : last[p.src] = p.at
  <2> SUFFICES ASSUME NEW p \in due PROVE last[p.src] = p.at
    OBVIOUS
  <2>1. p.src \in Trigs /\ \A q \in due : q.src = p.src => q = p
    BY <1>0 DEF PushType, Pushing, OnePush
  <2> QED BY <2>1
<1>3. \A t \in Trigs : last[t] = s.last[t] \/ \E p \in due : p.src = t /\ last[t] = p.at
  <2> SUFFICES ASSUME NEW t \in Trigs, NEW p \in due, p.src = t PROVE last[t] = p.at
    OBVIOUS
  <2> HIDE DEF last, due
  <2> QED BY <1>2
<1>4. last \in [Trigs -> Nat \cup {Never}]
  <2> SUFFICES ASSUME NEW t \in Trigs PROVE last[t] \in Nat \cup {Never}
    OBVIOUS
  <2> HIDE DEF last, due
  <2> QED BY <1>0, <1>3 DEF PushType
<1> HIDE DEF last, due, done
<1>5. /\ e \in Service /\ e.pushes = (s.pushes \ due) \cup done /\ e.last = last
      /\ SameTouches(s, e) /\ e.hit = s.hit
  <2>1. (s.pushes \ due) \cup done \in SUBSET PushType
    BY <1>0, <1>1
  <2> QED BY <1>4, <2>1 DEF Service, SameTouches
<1>6. ApplyPushes(s, time, f) = e
  BY DEF ApplyPushes, last, due, done, Service
<1> HIDE DEF e
<1>7. OnePush(e)
  <2>1. \A p, q \in s.pushes : p.src = q.src => p = q
    BY DEF Pushing, OnePush
  <2> SUFFICES ASSUME NEW p \in e.pushes, NEW q \in e.pushes, p.src = q.src PROVE p = q
    BY DEF OnePush
  <2>2. CASE p \in done /\ q \in done
    <3>1. PICK p1 \in due : p.src = p1.src /\ p = [p1 EXCEPT !.applied = TRUE]
      BY <1>1, <2>2
    <3>2. PICK q1 \in due : q.src = q1.src /\ q = [q1 EXCEPT !.applied = TRUE]
      BY <1>1, <2>2
    <3>3. p1 = q1
      BY <1>0, <2>1, <3>1, <3>2
    <3> QED BY <3>1, <3>2, <3>3
  <2>3. CASE p \in done /\ q \notin done
    BY <1>0, <1>1, <1>5, <2>1, <2>3
  <2>4. CASE p \notin done /\ q \in done
    BY <1>0, <1>1, <1>5, <2>1, <2>4
  <2>5. CASE p \notin done /\ q \notin done
    BY <1>5, <2>1, <2>5
  <2> QED BY <2>2, <2>3, <2>4, <2>5
<1>8. ASSUME NEW t \in Trigs \ CancelOnTp, s.last[t] # Never
      PROVE  e.last[t] = s.last[t] \/ e.last[t] >= s.last[t] + Cooldown[t]
  <2>1. CoolsDown(s, t, c)
    BY <1>8 DEF Pushing, PushesFit
  <2> QED BY <1>0, <1>3, <1>5, <2>1 DEF CoolsDown
<1>9. ASSUME NEW t \in Trigs \ CancelOnTp, e.last[t] # Never PROVE CoolsDown(e, t, c)
  <2>1. CASE \E p \in due : p.src = t
    <3>1. PICK p \in due : p.src = t
      BY <2>1
    <3>2. e.last[t] = p.at
      BY <1>2, <1>5, <3>1
    <3>3. \A q \in s.pushes : q.src = t => q = p
      BY <1>0, <3>1 DEF Pushing, OnePush
    <3>4. t \in Sources(e)
      <4>1. [p EXCEPT !.applied = TRUE] \in e.pushes
        BY <1>5, <3>1 DEF done
      <4> QED BY <1>0, <3>1, <4>1 DEF Sources, PushType
    <3>5. \A q \in e.pushes : q.src = t => q.applied /\ q.at = p.at
      BY <1>0, <1>1, <1>5, <3>1, <3>3
    <3> QED BY <3>2, <3>4, <3>5 DEF CoolsDown
  <2>2. CASE ~\E p \in due : p.src = t
    <3>1. e.last[t] = s.last[t]
      BY <1>3, <1>5, <2>2
    <3>2. CoolsDown(s, t, c)
      BY <1>9, <3>1 DEF Pushing, PushesFit
    <3>3. \A q \in e.pushes : q.src = t => q \in s.pushes
      BY <1>1, <1>5, <2>2
    <3>4. t \notin Sources(e) => t \notin Sources(s)
      BY <1>5, <2>2 DEF Sources
    <3> QED BY <3>1, <3>2, <3>3, <3>4 DEF CoolsDown
  <2> QED BY <2>1, <2>2
<1>10. Cooled(s, e)
  BY <1>8 DEF Cooled
<1> QED BY <1>5, <1>6, <1>7, <1>9, <1>10 DEF Pushing, PushesFit

------------------------------------------------------------------------------
(* Events of one trigger. *)

LEMMA MapiStartFits ==
  ASSUME NEW c \in Nat, NEW s \in Service, Pushing(s, c), NEW t \in Trigs, NEW time \in Nat, c <= time
  PROVE  LET e == MapiStart(s, t, time)
         IN  /\ e \in Service /\ Pushing(e, c) /\ Kept(s, e)
             /\ e.trackers = s.trackers /\ e.depth = [s.depth EXCEPT ![t] = @ + 1]
<1> DEFINE d == [s.depth EXCEPT ![t] = @ + 1]
           a == [s EXCEPT !.depth = d]
<1>0. d \in [Trigs -> Int]
  BY DEF Service
<1> HIDE DEF d
<1>1. /\ a \in Service /\ a.depth = d /\ a.trackers = s.trackers
      /\ a.pushes = s.pushes /\ a.last = s.last /\ a.hit = s.hit
  BY <1>0 DEF Service
<1>2. MapiStart(s, t, time) = IF Kind[t] = "push" /\ "start" \in Conds[t] THEN AddPushEvent(a, t, time) ELSE a
  BY DEF MapiStart, d, Service
<1> HIDE DEF a
<1>3. Pushing(a, c)
  BY <1>1 DEF Pushing, OnePush, PushesFit, CoolsDown, Sources
<1>4. LET e == AddPushEvent(a, t, time)
      IN  e \in Service /\ Pushing(e, c) /\ Kept(a, e) /\ SameTouches(a, e)
  BY <1>1, <1>3, AddPushEventsFits DEF AddPushEvent
<1> QED BY <1>1, <1>2, <1>3, <1>4 DEF Kept, SameTouches, d

LEMMA MapiEndFits ==
  ASSUME NEW c \in Nat, NEW s \in Service, Pushing(s, c), NEW t \in Trigs, NEW time \in Nat, c <= time
  PROVE  LET e == MapiEnd(s, t, time)
         IN  /\ e \in Service /\ Pushing(e, c) /\ Kept(s, e)
             /\ e.trackers = s.trackers /\ e.depth = [s.depth EXCEPT ![t] = @ - 1]
<1> DEFINE d == [s.depth EXCEPT ![t] = @ - 1]
           a == [s EXCEPT !.depth = d]
<1>0. d \in [Trigs -> Int]
  BY DEF Service
<1> HIDE DEF d
<1>1. /\ a \in Service /\ a.depth = d /\ a.trackers = s.trackers
      /\ a.pushes = s.pushes /\ a.last = s.last /\ a.hit = s.hit
  BY <1>0 DEF Service
<1>2. MapiEnd(s, t, time) = IF Kind[t] = "push" /\ "end" \in Conds[t] THEN AddPushEvent(a, t, time) ELSE a
  BY DEF MapiEnd, d, Service
<1> HIDE DEF a
<1>3. Pushing(a, c)
  BY <1>1 DEF Pushing, OnePush, PushesFit, CoolsDown, Sources
<1>4. LET e == AddPushEvent(a, t, time)
      IN  e \in Service /\ Pushing(e, c) /\ Kept(a, e) /\ SameTouches(a, e)
  BY <1>1, <1>3, AddPushEventsFits DEF AddPushEvent
<1> QED BY <1>1, <1>2, <1>3, <1>4 DEF Kept, SameTouches, d

LEMMA MapiTouchFits ==
  ASSUME NEW c \in Nat, NEW s \in Service, Pushing(s, c), NEW t \in Trigs, NEW time \in Nat, c <= time,
         NEW moving
  PROVE  LET e == MapiTouch(s, t, time, moving)
         IN  e \in Service /\ Pushing(e, c) /\ Kept(s, e) /\ SameTouches(s, e)
<1>0. Kept(s, s) /\ SameTouches(s, s)
  BY DEF Kept, SameTouches
<1>1. LET e == AddPushEvent(s, t, time)
      IN  e \in Service /\ Pushing(e, c) /\ Kept(s, e) /\ SameTouches(s, e)
  BY AddPushEventsFits DEF AddPushEvent
<1>2. LET e == CancelPushes(s)
      IN  e \in Service /\ Pushing(e, c) /\ Kept(s, e) /\ SameTouches(s, e)
  BY CancelPushesFits
<1>3. MapiTouch(s, t, time, moving) \in {s, AddPushEvent(s, t, time), CancelPushes(s)}
  BY DEF MapiTouch, TouchPushTrigger, TouchTeleportTrigger
<1> QED BY <1>0, <1>1, <1>2, <1>3

\* The tracker of a trigger.
LEMMA IndexIs ==
  ASSUME NEW s \in Service, NEW t, t \in Tracked(s)
  PROVE  IndexOf(s, t) \in 1..Len(s.trackers) /\ s.trackers[IndexOf(s, t)].trig = t
BY DEF IndexOf, Tracked, Service

LEMMA TrackedAre ==
  ASSUME NEW s \in Service
  PROVE  /\ Len(s.trackers) \in Nat /\ DOMAIN s.trackers = 1..Len(s.trackers) /\ Tracked(s) \subseteq Trigs
         /\ \A i \in 1..Len(s.trackers) : s.trackers[i] \in TrackerType /\ s.trackers[i].trig \in Tracked(s)
<1>1. s.trackers \in Seq(TrackerType)
  BY DEF Service
<1>2. \A i \in 1..Len(s.trackers) : s.trackers[i] \in TrackerType
  BY <1>1, ElementOfSeq
<1> QED BY <1>1, <1>2 DEF Tracked, TrackerType

\* One field of one tracker is changed.
MapiSet(s, e, t, b) ==
  /\ SameTrigs(s, e) /\ Kept(s, e) /\ e.depth = s.depth /\ e.pushes = s.pushes
  /\ \A u : Started(e, u) <=> IF u = t THEN b = TRUE ELSE Started(s, u)
  /\ \A i \in 1..Len(s.trackers) :
       e.trackers[i].mapi = IF s.trackers[i].trig = t THEN b ELSE s.trackers[i].mapi

LEMMA SetMapiIs ==
  ASSUME NEW s \in Service, OneTracker(s), NEW t, t \in Tracked(s), NEW b \in BOOLEAN
  PROVE  SetMapi(s, t, b) \in Service /\ MapiSet(s, SetMapi(s, t, b), t, b)
<1> DEFINE i == IndexOf(s, t)
           k == s.trackers
           h == [k EXCEPT ![i].mapi = b]
           e == [s EXCEPT !.trackers = h]
<1>1. i \in 1..Len(k) /\ k[i].trig = t /\ Len(k) \in Nat /\ k \in Seq(TrackerType)
      /\ \A j \in 1..Len(k) : k[j] \in TrackerType
  BY IndexIs, TrackedAre DEF Service
<1>2. SetMapi(s, t, b) = e
  BY DEF SetMapi, Service
<1> HIDE DEF i
<1>3. /\ h \in Seq(TrackerType) /\ Len(h) = Len(k)
      /\ \A j \in 1..Len(k) : h[j] = IF j = i THEN [k[i] EXCEPT !.mapi = b] ELSE k[j]
  BY <1>1 DEF TrackerType
<1>4. \A j \in 1..Len(k) : h[j].trig = k[j].trig /\ h[j].mapi = IF k[j].trig = t THEN b ELSE k[j].mapi
  <2> SUFFICES ASSUME NEW j \in 1..Len(k)
               PROVE  h[j].trig = k[j].trig /\ h[j].mapi = IF k[j].trig = t THEN b ELSE k[j].mapi
    OBVIOUS
  <2>1. k[j].trig = t => j = i
    BY <1>1 DEF OneTracker
  <2>2. k[j] \in TrackerType /\ k[i] \in TrackerType
    BY <1>1
  <2> HIDE DEF h
  <2> QED BY <1>1, <1>3, <2>1, <2>2 DEF TrackerType
<1> HIDE DEF h
<1>5. /\ e \in Service /\ e.trackers = h /\ e.depth = s.depth /\ e.pushes = s.pushes
      /\ e.last = s.last /\ e.hit = s.hit
  BY <1>3 DEF Service
<1>6. DOMAIN h = 1..Len(k) /\ DOMAIN k = 1..Len(k)
  BY <1>1, <1>3
<1> HIDE DEF e
<1>7. ASSUME NEW u PROVE Started(e, u) <=> IF u = t THEN b = TRUE ELSE Started(s, u)
  <2>1. Started(e, u) <=> \E j \in 1..Len(k) : k[j].trig = u /\ h[j].mapi
    BY <1>4, <1>5, <1>6 DEF Started
  <2>2. Started(s, u) <=> \E j \in 1..Len(k) : k[j].trig = u /\ k[j].mapi
    BY <1>6 DEF Started
  <2>3. CASE u = t
    BY <1>1, <1>4, <2>1, <2>3
  <2>4. CASE u # t
    BY <1>4, <2>1, <2>2, <2>4
  <2> QED BY <2>3, <2>4
<1> QED BY <1>2, <1>3, <1>4, <1>5, <1>7 DEF SameTrigs, Kept, MapiSet

LEMMA IsMapiIs ==
  ASSUME NEW s \in Service, OneTracker(s), NEW t, t \in Tracked(s)
  PROVE  IsMapi(s, t) <=> Started(s, t)
<1>1. IndexOf(s, t) \in 1..Len(s.trackers) /\ s.trackers[IndexOf(s, t)].trig = t
  BY IndexIs
<1>2. DOMAIN s.trackers = 1..Len(s.trackers)
  BY TrackedAre
<1>3. \A j \in 1..Len(s.trackers) : s.trackers[j].trig = t => j = IndexOf(s, t)
  BY <1>1, <1>2 DEF OneTracker
<1> QED BY <1>1, <1>2, <1>3 DEF IsMapi, Started

LEMMA SameTrigsTracked ==
  ASSUME NEW s \in Service, NEW e \in Service, SameTrigs(s, e)
  PROVE  Tracked(e) = Tracked(s) /\ (OneTracker(s) => OneTracker(e))
<1>1. /\ DOMAIN s.trackers = 1..Len(s.trackers) /\ DOMAIN e.trackers = 1..Len(s.trackers)
      /\ \A i \in 1..Len(s.trackers) : e.trackers[i].trig = s.trackers[i].trig
  BY TrackedAre DEF SameTrigs
<1> QED BY <1>1 DEF Tracked, OneTracker

LEMMA SameTrigsTransitive ==
  ASSUME NEW s, NEW e, NEW g, SameTrigs(s, e), SameTrigs(e, g) PROVE SameTrigs(s, g)
BY DEF SameTrigs

\* A start is fired for a trigger that was not started.
LEMMA StartIsFine ==
  ASSUME NEW c \in Nat, NEW s, Fine(s, c), NEW t, t \in Tracked(s), HasBhopTrigger(t), ~Started(s, t),
         NEW time \in Nat, c <= time
  PROVE  LET e == MapiStart(SetMapi(s, t, TRUE), t, time)
         IN  Fine(e, c) /\ Kept(s, e) /\ SameTrigs(s, e)
<1>0. s \in Service /\ OneTracker(s) /\ EventsFit(s) /\ Pushing(s, c) /\ t \in Trigs
  BY TrackedAre DEF Fine, Touches
<1>f. PICK yes \in BOOLEAN : yes = TRUE
  OBVIOUS
<1> DEFINE a == SetMapi(s, t, yes)
           e == MapiStart(a, t, time)
<1>a. a \in Service /\ MapiSet(s, a, t, yes)
  BY <1>0, <1>f, SetMapiIs
<1> HIDE DEF a
<1>1. /\ a \in Service /\ SameTrigs(s, a) /\ Kept(s, a) /\ a.depth = s.depth /\ a.pushes = s.pushes
      /\ \A u : Started(a, u) <=> IF u = t THEN yes = TRUE ELSE Started(s, u)
      /\ \A i \in 1..Len(s.trackers) :
           a.trackers[i].mapi = IF s.trackers[i].trig = t THEN yes ELSE s.trackers[i].mapi
  BY <1>a DEF MapiSet
<1>2. Pushing(a, c)
  BY <1>0, <1>1 DEF Kept, Pushing, OnePush, PushesFit, CoolsDown, Sources
<1>3. /\ e \in Service /\ Pushing(e, c) /\ Kept(a, e)
      /\ e.trackers = a.trackers /\ e.depth = [a.depth EXCEPT ![t] = @ + 1]
  BY <1>0, <1>1, <1>2, MapiStartFits
<1> HIDE DEF e
<1>4. SameTrigs(s, e) /\ Kept(s, e)
  BY <1>1, <1>3 DEF SameTrigs, Kept
<1>5. OneTracker(e)
  BY <1>0, <1>3, <1>4, SameTrigsTracked
<1>6. EventsFit(e)
  <2>1. \A u : Started(e, u) <=> u = t \/ Started(s, u)
    <3>1. \A u : Started(e, u) <=> Started(a, u)
      BY <1>3 DEF Started
    <3> QED BY <1>f, <1>1, <3>1
  <2>2. ASSUME NEW u \in Trigs \cap world.exists PROVE e.depth[u] = IF Started(e, u) THEN 1 ELSE 0
    <3>1. s.depth[u] = IF Started(s, u) THEN 1 ELSE 0
      BY <1>0 DEF EventsFit
    <3>2. e.depth[u] = IF u = t THEN s.depth[u] + 1 ELSE s.depth[u]
      BY <1>0, <1>1, <1>3 DEF Service
    <3> QED BY <2>1, <3>1, <3>2
  <2>3. ASSUME NEW i \in DOMAIN e.trackers, e.trackers[i].mapi PROVE HasBhopTrigger(e.trackers[i].trig)
    <3>1. i \in 1..Len(s.trackers) /\ i \in DOMAIN s.trackers /\ e.trackers[i].trig = s.trackers[i].trig
      BY <1>0, <1>3, <1>4, <2>3, TrackedAre DEF SameTrigs
    <3>2. s.trackers[i].trig = t \/ s.trackers[i].mapi
      BY <1>f, <1>1, <1>3, <2>3, <3>1
    <3> QED BY <1>0, <3>1, <3>2 DEF EventsFit
  <2> QED BY <2>2, <2>3 DEF EventsFit
<1>7. Fine(e, c) /\ Kept(s, e) /\ SameTrigs(s, e)
  BY <1>3, <1>4, <1>5, <1>6 DEF Fine, Touches
<1>8. e = MapiStart(SetMapi(s, t, TRUE), t, time)
  BY <1>f DEF e, a
<1> QED BY <1>7, <1>8

\* An end is fired for one that was.
LEMMA EndIsFine ==
  ASSUME NEW c \in Nat, NEW s, Fine(s, c), NEW t, t \in Tracked(s), Started(s, t), NEW time \in Nat, c <= time
  PROVE  LET e == MapiEnd(SetMapi(s, t, FALSE), t, time)
         IN  Fine(e, c) /\ Kept(s, e) /\ SameTrigs(s, e)
<1>0. s \in Service /\ OneTracker(s) /\ EventsFit(s) /\ Pushing(s, c) /\ t \in Trigs
  BY TrackedAre DEF Fine, Touches
<1>f. PICK no \in BOOLEAN : no = FALSE
  OBVIOUS
<1> DEFINE a == SetMapi(s, t, no)
           e == MapiEnd(a, t, time)
<1>a. a \in Service /\ MapiSet(s, a, t, no)
  BY <1>0, <1>f, SetMapiIs
<1> HIDE DEF a
<1>1. /\ a \in Service /\ SameTrigs(s, a) /\ Kept(s, a) /\ a.depth = s.depth /\ a.pushes = s.pushes
      /\ \A u : Started(a, u) <=> IF u = t THEN no = TRUE ELSE Started(s, u)
      /\ \A i \in 1..Len(s.trackers) :
           a.trackers[i].mapi = IF s.trackers[i].trig = t THEN no ELSE s.trackers[i].mapi
  BY <1>a DEF MapiSet
<1>2. Pushing(a, c)
  BY <1>0, <1>1 DEF Kept, Pushing, OnePush, PushesFit, CoolsDown, Sources
<1>3. /\ e \in Service /\ Pushing(e, c) /\ Kept(a, e)
      /\ e.trackers = a.trackers /\ e.depth = [a.depth EXCEPT ![t] = @ - 1]
  <2>1. a \in Service /\ t \in Trigs /\ Pushing(a, c)
    BY <1>0, <1>1, <1>2
  <2>2. LET x == MapiEnd(a, t, time)
        IN  /\ x \in Service /\ Pushing(x, c) /\ Kept(a, x)
            /\ x.trackers = a.trackers /\ x.depth = [a.depth EXCEPT ![t] = @ - 1]
    BY ONLY c \in Nat, time \in Nat, c <= time, <2>1, MapiEndFits
  <2> QED BY <2>2
<1> HIDE DEF e
<1>4. SameTrigs(s, e) /\ Kept(s, e)
  BY <1>1, <1>3 DEF SameTrigs, Kept
<1>5. OneTracker(e)
  BY <1>0, <1>3, <1>4, SameTrigsTracked
<1>6. EventsFit(e)
  <2>1. \A u : Started(e, u) <=> u # t /\ Started(s, u)
    <3>1. \A u : Started(e, u) <=> Started(a, u)
      BY <1>3 DEF Started
    <3> QED BY <1>f, <1>1, <3>1
  <2>2. ASSUME NEW u \in Trigs \cap world.exists PROVE e.depth[u] = IF Started(e, u) THEN 1 ELSE 0
    <3>1. s.depth[u] = IF Started(s, u) THEN 1 ELSE 0
      BY <1>0 DEF EventsFit
    <3>2. e.depth[u] = IF u = t THEN s.depth[u] - 1 ELSE s.depth[u]
      BY <1>0, <1>1, <1>3 DEF Service
    <3> QED BY <2>1, <3>1, <3>2
  <2>3. ASSUME NEW i \in DOMAIN e.trackers, e.trackers[i].mapi PROVE HasBhopTrigger(e.trackers[i].trig)
    <3>1. i \in 1..Len(s.trackers) /\ i \in DOMAIN s.trackers /\ e.trackers[i].trig = s.trackers[i].trig
      BY <1>0, <1>3, <1>4, <2>3, TrackedAre DEF SameTrigs
    <3>2. s.trackers[i].mapi
      BY <1>f, <1>1, <1>3, <2>3, <3>1
    <3> QED BY <1>0, <3>1, <3>2 DEF EventsFit
  <2> QED BY <2>2, <2>3 DEF EventsFit
<1>7. Fine(e, c) /\ Kept(s, e) /\ SameTrigs(s, e)
  BY <1>3, <1>4, <1>5, <1>6 DEF Fine, Touches
<1>8. e = MapiEnd(SetMapi(s, t, FALSE), t, time)
  BY <1>f DEF e, a
<1> QED BY <1>7, <1>8

\* What is the same but for pushes of its own stays fine.
LEMMA StaysFine ==
  ASSUME NEW c \in Nat, NEW s, Fine(s, c), NEW e \in Service, Pushing(e, c), Kept(s, e), SameTouches(s, e)
  PROVE  Fine(e, c) /\ Kept(s, e) /\ SameTrigs(s, e)
<1>1. Touches(e)
  BY TouchesKept DEF Fine
<1> QED BY <1>1 DEF Fine, SameTouches, SameTrigs

LEMMA ItselfIsSame ==
  ASSUME NEW s PROVE Kept(s, s) /\ SameTrigs(s, s)
BY DEF Kept, SameTrigs

LEMMA StartTouchPostIsFine ==
  ASSUME NEW c \in Nat, NEW s, Fine(s, c), NEW t, t \in Tracked(s), ~Started(s, t), NEW time \in Nat, c <= time
  PROVE  LET e == OnTriggerStartTouchPost(s, t, time)
         IN  Fine(e, c) /\ Kept(s, e) /\ SameTrigs(s, e)
<1>1. CASE HasBhopTrigger(t) /\ Passes(t)
  BY <1>1, StartIsFine DEF OnTriggerStartTouchPost
<1>2. CASE ~(HasBhopTrigger(t) /\ Passes(t))
  BY <1>2, ItselfIsSame DEF OnTriggerStartTouchPost
<1> QED BY <1>1, <1>2

LEMMA TouchPostIsFine ==
  ASSUME NEW c \in Nat, NEW s, Fine(s, c), NEW t, t \in Tracked(s), NEW time \in Nat, c <= time, NEW moving
  PROVE  LET e == OnTriggerTouchPost(s, t, time, moving)
         IN  Fine(e, c) /\ Kept(s, e) /\ SameTrigs(s, e)
<1>0. s \in Service /\ OneTracker(s) /\ t \in Trigs /\ (IsMapi(s, t) <=> Started(s, t))
  BY TrackedAre, IsMapiIs DEF Fine, Touches
<1>1. CASE ~HasBhopTrigger(t) \/ (~Passes(t) /\ ~Started(s, t))
  BY <1>0, <1>1, ItselfIsSame DEF OnTriggerTouchPost
<1>2. CASE HasBhopTrigger(t) /\ ~Passes(t) /\ Started(s, t)
  <2>1. OnTriggerTouchPost(s, t, time, moving) = MapiEnd(SetMapi(s, t, FALSE), t, time)
    BY <1>0, <1>2 DEF OnTriggerTouchPost
  <2> QED BY <1>2, <2>1, EndIsFine
<1>3. CASE HasBhopTrigger(t) /\ Passes(t)
  <2> DEFINE a == IF IsMapi(s, t) THEN s ELSE MapiStart(SetMapi(s, t, TRUE), t, time)
             e == MapiTouch(a, t, time, moving)
  <2>1. Fine(a, c) /\ Kept(s, a) /\ SameTrigs(s, a)
    BY <1>0, <1>3, StartIsFine, ItselfIsSame
  <2>2. OnTriggerTouchPost(s, t, time, moving) = e
    BY <1>3 DEF OnTriggerTouchPost
  <2> HIDE DEF a
  <2>3. e \in Service /\ Pushing(e, c) /\ Kept(a, e) /\ SameTouches(a, e)
    BY <1>0, <2>1, MapiTouchFits DEF Fine
  <2> HIDE DEF e
  <2>4. Fine(e, c) /\ SameTrigs(a, e)
    BY <2>1, <2>3, StaysFine
  <2>5. Kept(s, e) /\ SameTrigs(s, e)
    BY <2>1, <2>3, <2>4 DEF Kept, SameTrigs
  <2> QED BY <2>2, <2>4, <2>5
<1> QED BY <1>1, <1>2, <1>3

\* The field that says that a tracker was touched in this tick.
SetTouched(s, t, b) == [s EXCEPT !.trackers[IndexOf(s, t)].touched = b]

LEMMA SetTouchedIsFine ==
  ASSUME NEW c \in Nat, NEW s, Fine(s, c), NEW t, t \in Tracked(s), NEW b \in BOOLEAN
  PROVE  LET e == SetTouched(s, t, b)
         IN  Fine(e, c) /\ Kept(s, e) /\ SameTrigs(s, e)
<1> DEFINE i == IndexOf(s, t)
           k == s.trackers
           h == [k EXCEPT ![i].touched = b]
           e == [s EXCEPT !.trackers = h]
<1>0. s \in Service /\ OneTracker(s) /\ EventsFit(s) /\ Pushing(s, c)
  BY DEF Fine, Touches
<1>1. i \in 1..Len(k) /\ Len(k) \in Nat /\ k \in Seq(TrackerType)
      /\ \A j \in 1..Len(k) : k[j] \in TrackerType
  BY <1>0, IndexIs, TrackedAre DEF Service
<1>2. SetTouched(s, t, b) = e
  BY <1>0 DEF SetTouched, Service
<1> HIDE DEF i
<1>3. /\ h \in Seq(TrackerType) /\ Len(h) = Len(k)
      /\ \A j \in 1..Len(k) : h[j] = IF j = i THEN [k[i] EXCEPT !.touched = b] ELSE k[j]
  BY <1>1 DEF TrackerType
<1>4. \A j \in 1..Len(k) : h[j].trig = k[j].trig /\ h[j].mapi = k[j].mapi
  BY <1>1, <1>3 DEF TrackerType
<1> HIDE DEF h
<1>5. /\ e \in Service /\ e.trackers = h /\ e.depth = s.depth /\ e.pushes = s.pushes
      /\ e.last = s.last /\ e.hit = s.hit
  BY <1>0, <1>3 DEF Service
<1>6. DOMAIN h = 1..Len(k) /\ DOMAIN k = 1..Len(k)
  BY <1>1, <1>3
<1> HIDE DEF e
<1>7. \A u : Started(e, u) <=> Started(s, u)
  BY <1>4, <1>5, <1>6 DEF Started
<1>8. OneTracker(e) /\ EventsFit(e)
  BY <1>0, <1>4, <1>5, <1>6, <1>7 DEF OneTracker, EventsFit
<1>9. Pushing(e, c)
  BY <1>0, <1>5 DEF Pushing, OnePush, PushesFit, CoolsDown, Sources
<1> QED BY <1>2, <1>3, <1>4, <1>5, <1>8, <1>9 DEF Fine, Touches, Kept, SameTrigs

LEMMA TouchIsFine ==
  ASSUME NEW c \in Nat, NEW s, Fine(s, c), NEW t, NEW time \in Nat, c <= time, NEW moving, NEW silent
  PROVE  LET e == Touch(s, t, time, moving, silent)
         IN  Fine(e, c) /\ Kept(s, e) /\ SameTrigs(s, e)
<1> DEFINE a == IF silent THEN s ELSE SetTouched(s, t, TRUE)
           e == OnTriggerTouchPost(a, t, time, moving)
<1>1. Touch(s, t, time, moving, silent) = s
      \/ (t \in Tracked(s) /\ Touch(s, t, time, moving, silent) = e)
  BY DEF Touch, SetTouched
<1>2. ASSUME t \in Tracked(s) PROVE Fine(e, c) /\ Kept(s, e) /\ SameTrigs(s, e)
  <2>1. Fine(a, c) /\ Kept(s, a) /\ SameTrigs(s, a)
    BY <1>2, SetTouchedIsFine, ItselfIsSame
  <2> HIDE DEF a
  <2>2. t \in Tracked(a)
    BY <1>2, <2>1, SameTrigsTracked DEF Fine
  <2>3. Fine(e, c) /\ Kept(a, e) /\ SameTrigs(a, e)
    BY <2>1, <2>2, TouchPostIsFine
  <2> QED BY <2>1, <2>3 DEF Kept, SameTrigs
<1> HIDE DEF e
<1> QED BY <1>1, <1>2, ItselfIsSame

\* A sequence without one of its elements.
LEMMA RemoveAtIs ==
  ASSUME NEW T, NEW q \in Seq(T), NEW i \in 1..Len(q)
  PROVE  /\ RemoveAt(q, i) \in Seq(T) /\ Len(RemoveAt(q, i)) = Len(q) - 1
         /\ \A j \in 1..Len(q) - 1 : RemoveAt(q, i)[j] = IF j < i THEN q[j] ELSE q[j + 1]
<1> DEFINE a == SubSeq(q, 1, i - 1)
           b == SubSeq(q, i + 1, Len(q))
<1>0. Len(q) \in Nat /\ \A j \in 1..Len(q) : q[j] \in T
  BY ElementOfSeq
<1>1. a \in Seq(T) /\ Len(a) = i - 1 /\ \A j \in 1..i - 1 : a[j] = q[j]
  BY <1>0
<1>2. b \in Seq(T) /\ Len(b) = Len(q) - i /\ \A j \in 1..Len(q) - i : b[j] = q[i + j]
  BY <1>0
<1>3. RemoveAt(q, i) = a \o b
  BY DEF RemoveAt
<1> HIDE DEF a, b
<1>4. a \o b \in Seq(T) /\ Len(a \o b) = Len(q) - 1
  <2>1. a \o b \in Seq(T) /\ Len(a \o b) = Len(a) + Len(b)
    BY <1>1, <1>2, ConcatProperties
  <2> QED BY <1>0, <1>1, <1>2, <2>1
<1>5. ASSUME NEW j \in 1..Len(q) - 1 PROVE (a \o b)[j] = IF j < i THEN q[j] ELSE q[j + 1]
  <2>1. CASE j < i
    BY <1>0, <1>1, <1>2, <2>1
  <2>2. CASE ~(j < i)
    <3>1. (a \o b)[j] = b[j - (i - 1)] /\ j - (i - 1) \in 1..Len(q) - i
      BY <1>0, <1>1, <1>2, <2>2
    <3>2. i + (j - (i - 1)) = j + 1
      BY <1>0
    <3> QED BY <1>2, <2>2, <3>1, <3>2
  <2> QED BY <2>1, <2>2
<1> QED BY <1>3, <1>4, <1>5

\* The tracker of t is removed.
Forgotten(s, e, t) ==
  /\ Kept(s, e) /\ e.depth = s.depth /\ e.pushes = s.pushes
  /\ Len(e.trackers) = Len(s.trackers) - 1 /\ Tracked(e) = Tracked(s) \ {t} /\ OneTracker(e)
  /\ \A u : Started(e, u) <=> u # t /\ Started(s, u)
  /\ \A j \in 1..Len(e.trackers) : \E k \in 1..Len(s.trackers) : e.trackers[j] = s.trackers[k]

LEMMA ForgetIs ==
  ASSUME NEW s \in Service, OneTracker(s), NEW t, t \in Tracked(s)
  PROVE  Forget(s, t) \in Service /\ Forgotten(s, Forget(s, t), t)
<1> DEFINE i == IndexOf(s, t)
           k == s.trackers
           h == RemoveAt(k, i)
           e == [s EXCEPT !.trackers = h]
<1>1. i \in 1..Len(k) /\ k[i].trig = t /\ Len(k) \in Nat /\ k \in Seq(TrackerType)
      /\ \A j \in 1..Len(k) : k[j] \in TrackerType
  BY IndexIs, TrackedAre DEF Service
<1>2. Forget(s, t) = e
  BY DEF Forget, Service
<1> HIDE DEF i
<1>3. /\ h \in Seq(TrackerType) /\ Len(h) = Len(k) - 1
      /\ \A j \in 1..Len(k) - 1 : h[j] = IF j < i THEN k[j] ELSE k[j + 1]
  BY <1>1, RemoveAtIs
<1> HIDE DEF h
<1>4. /\ e \in Service /\ e.trackers = h /\ e.depth = s.depth /\ e.pushes = s.pushes
      /\ e.last = s.last /\ e.hit = s.hit
  BY <1>3 DEF Service
<1>5. DOMAIN h = 1..Len(k) - 1 /\ DOMAIN k = 1..Len(k)
  BY <1>1, <1>3
<1> HIDE DEF e
<1> DEFINE old(j) == IF j < i THEN j ELSE j + 1
<1>6. \A j \in 1..Len(k) - 1 : old(j) \in 1..Len(k) /\ old(j) # i /\ h[j] = k[old(j)]
  BY <1>1, <1>3
<1>7. \A j, m \in 1..Len(k) - 1 : old(j) = old(m) => j = m
  BY <1>1
<1>8. \A m \in 1..Len(k) : m # i => \E j \in 1..Len(k) - 1 : old(j) = m
  <2> SUFFICES ASSUME NEW m \in 1..Len(k), m # i PROVE \E j \in 1..Len(k) - 1 : old(j) = m
    OBVIOUS
  <2>1. CASE m < i
    BY <1>1, <2>1
  <2>2. CASE m > i
    <3>1. m - 1 \in 1..Len(k) - 1 /\ old(m - 1) = m
      BY <1>1, <2>2
    <3> QED BY <3>1
  <2> QED BY <1>1, <2>1, <2>2
<1> HIDE DEF old
<1>9. \A m \in 1..Len(k) : k[m].trig = t <=> m = i
  BY <1>1, <1>5 DEF OneTracker
<1>10. OneTracker(e)
  <2> SUFFICES ASSUME NEW j \in 1..Len(k) - 1, NEW m \in 1..Len(k) - 1, h[j].trig = h[m].trig PROVE j = m
    BY <1>4, <1>5 DEF OneTracker
  <2>0. \A x, y \in 1..Len(k) : k[x].trig = k[y].trig => x = y
    BY <1>5 DEF OneTracker
  <2>1. /\ old(j) \in 1..Len(k) /\ h[j] = k[old(j)]
        /\ old(m) \in 1..Len(k) /\ h[m] = k[old(m)]
    BY <1>6
  <2>2. old(j) = old(m)
    BY <2>0, <2>1
  <2> QED BY <1>7, <2>2
<1>11. Tracked(e) = Tracked(s) \ {t}
  <2>1. Tracked(e) = {h[j].trig : j \in 1..Len(k) - 1}
    BY <1>4, <1>5 DEF Tracked
  <2>2. Tracked(s) = {k[j].trig : j \in 1..Len(k)}
    BY <1>5 DEF Tracked
  <2>3. ASSUME NEW u \in Tracked(e) PROVE u \in Tracked(s) \ {t}
    <3>1. PICK j \in 1..Len(k) - 1 : u = h[j].trig
      BY <2>1
    <3> QED BY <1>6, <1>9, <2>2, <3>1
  <2>4. ASSUME NEW u \in Tracked(s) \ {t} PROVE u \in Tracked(e)
    <3>1. PICK m \in 1..Len(k) : u = k[m].trig
      BY <2>2
    <3>2. PICK j \in 1..Len(k) - 1 : old(j) = m
      BY <1>1, <1>8, <3>1
    <3> QED BY <1>6, <2>1, <3>1, <3>2
  <2> QED BY <2>3, <2>4
<1>12. ASSUME NEW u PROVE Started(e, u) <=> u # t /\ Started(s, u)
  <2>1. Started(e, u) <=> \E j \in 1..Len(k) - 1 : h[j].trig = u /\ h[j].mapi
    BY <1>4, <1>5 DEF Started
  <2>2. Started(s, u) <=> \E j \in 1..Len(k) : k[j].trig = u /\ k[j].mapi
    BY <1>5 DEF Started
  <2>3. ASSUME Started(e, u) PROVE u # t /\ Started(s, u)
    <3>1. PICK j \in 1..Len(k) - 1 : h[j].trig = u /\ h[j].mapi
      BY <2>1, <2>3
    <3> QED BY <1>6, <1>9, <2>2, <3>1
  <2>4. ASSUME u # t, Started(s, u) PROVE Started(e, u)
    <3>1. PICK m \in 1..Len(k) : k[m].trig = u /\ k[m].mapi
      BY <2>2, <2>4
    <3>2. PICK j \in 1..Len(k) - 1 : old(j) = m
      BY <1>1, <1>8, <2>4, <3>1
    <3> QED BY <1>6, <2>1, <3>1, <3>2
  <2> QED BY <2>3, <2>4
<1>13. \A j \in 1..Len(e.trackers) : \E m \in 1..Len(s.trackers) : e.trackers[j] = s.trackers[m]
  BY <1>3, <1>4, <1>6
<1> QED BY <1>2, <1>3, <1>4, <1>10, <1>11, <1>12, <1>13 DEF Forgotten, Kept

\* What is left of a trigger that ended.
Dropped(s, e, t) ==
  Kept(s, e) /\ Len(e.trackers) = Len(s.trackers) - 1 /\ Tracked(e) = Tracked(s) \ {t}

LEMMA ForgottenIsFine ==
  ASSUME NEW c \in Nat, NEW s \in Service, OneTracker(s), Pushing(s, c), NEW t, t \in Tracked(s),
         \A i \in DOMAIN s.trackers : s.trackers[i].mapi => HasBhopTrigger(s.trackers[i].trig),
         \A u \in Trigs \cap world.exists :
           s.depth[u] = IF u # t /\ Started(s, u) THEN 1 ELSE 0
  PROVE  Fine(Forget(s, t), c) /\ Dropped(s, Forget(s, t), t)
<1> DEFINE e == Forget(s, t)
<1>1. e \in Service /\ Forgotten(s, e, t)
  BY ForgetIs
<1> HIDE DEF e
<1>2. DOMAIN e.trackers = 1..Len(e.trackers) /\ DOMAIN s.trackers = 1..Len(s.trackers)
  BY <1>1, TrackedAre
<1>3. EventsFit(e)
  BY <1>1, <1>2 DEF Forgotten, EventsFit
<1>4. Pushing(e, c)
  BY <1>1 DEF Forgotten, Kept, Pushing, OnePush, PushesFit, CoolsDown, Sources
<1> QED BY <1>1, <1>3, <1>4 DEF Fine, Touches, Forgotten, Dropped, e

\* The end of a trigger fires what is due and forgets it.
LEMMA EndedIsFine ==
  ASSUME NEW c \in Nat, NEW s, Fine(s, c), NEW t, t \in Tracked(s), NEW time \in Nat, c <= time
  PROVE  LET e == Forget(OnTriggerEndTouchPost(s, t, time), t)
         IN  Fine(e, c) /\ Dropped(s, e, t)
<1>0. /\ s \in Service /\ OneTracker(s) /\ EventsFit(s) /\ Pushing(s, c) /\ t \in Trigs
      /\ (IsMapi(s, t) <=> Started(s, t))
  BY TrackedAre, IsMapiIs DEF Fine, Touches
<1>1. Started(s, t) => HasBhopTrigger(t)
  BY <1>0 DEF EventsFit, Started
<1>2. CASE Started(s, t)
  <2> DEFINE a == MapiEnd(s, t, time)
  <2>1. OnTriggerEndTouchPost(s, t, time) = a
    BY <1>0, <1>1, <1>2 DEF OnTriggerEndTouchPost
  <2>2. /\ a \in Service /\ Pushing(a, c) /\ Kept(s, a)
        /\ a.trackers = s.trackers /\ a.depth = [s.depth EXCEPT ![t] = @ - 1]
    BY <1>0, MapiEndFits
  <2> HIDE DEF a
  <2>3. OneTracker(a) /\ t \in Tracked(a) /\ Tracked(a) = Tracked(s) /\ \A u : Started(a, u) <=> Started(s, u)
    BY <1>0, <2>2 DEF OneTracker, Tracked, Started
  <2>4. ASSUME NEW u \in Trigs \cap world.exists
        PROVE  a.depth[u] = IF u # t /\ Started(a, u) THEN 1 ELSE 0
    <3>1. s.depth[u] = IF Started(s, u) THEN 1 ELSE 0
      BY <1>0 DEF EventsFit
    <3>2. a.depth[u] = IF u = t THEN s.depth[u] - 1 ELSE s.depth[u]
      BY <1>0, <2>2 DEF Service
    <3> QED BY <1>2, <2>3, <3>1, <3>2
  <2>5. \A i \in DOMAIN a.trackers : a.trackers[i].mapi => HasBhopTrigger(a.trackers[i].trig)
    BY <1>0, <2>2 DEF EventsFit
  <2>6. Fine(Forget(a, t), c) /\ Dropped(a, Forget(a, t), t)
    BY <2>2, <2>3, <2>4, <2>5, ForgottenIsFine
  <2> QED BY <2>1, <2>2, <2>3, <2>6 DEF Dropped, Kept
<1>3. CASE ~Started(s, t)
  <2>1. OnTriggerEndTouchPost(s, t, time) = s
    BY <1>0, <1>3 DEF OnTriggerEndTouchPost
  <2>2. \A u \in Trigs \cap world.exists : s.depth[u] = IF u # t /\ Started(s, u) THEN 1 ELSE 0
    BY <1>0, <1>3 DEF EventsFit
  <2>3. \A i \in DOMAIN s.trackers : s.trackers[i].mapi => HasBhopTrigger(s.trackers[i].trig)
    BY <1>0 DEF EventsFit
  <2> QED BY <1>0, <2>1, <2>2, <2>3, ForgottenIsFine
<1> QED BY <1>2, <1>3

LEMMA EndTouchIsFine ==
  ASSUME NEW c \in Nat, NEW s, Fine(s, c), NEW t, NEW time \in Nat, c <= time, NEW moving
  PROVE  LET e == EndTouch(s, t, time, moving)
         IN  /\ Fine(e, c)
             /\ IF t \in Tracked(s) /\ ModeAllows(t, time) THEN Dropped(s, e, t) ELSE e = s
<1>1. CASE ~(t \in Tracked(s) /\ ModeAllows(t, time))
  BY <1>1 DEF EndTouch
<1>2. CASE t \in Tracked(s) /\ ModeAllows(t, time)
  <2> DEFINE a == IF HasBhopTrigger(t) THEN s ELSE Touch(s, t, time, moving, FALSE)
             e == Forget(OnTriggerEndTouchPost(a, t, time), t)
  <2>1. Fine(a, c) /\ Kept(s, a) /\ SameTrigs(s, a)
    BY TouchIsFine, ItselfIsSame
  <2>2. EndTouch(s, t, time, moving) = e
    BY <1>2 DEF EndTouch
  <2> HIDE DEF a
  <2>3. Tracked(a) = Tracked(s)
    BY <2>1, SameTrigsTracked DEF Fine
  <2>4. Fine(e, c) /\ Dropped(a, e, t)
    BY <1>2, <2>1, <2>3, EndedIsFine
  <2> HIDE DEF e
  <2>5. Dropped(s, e, t)
    BY <2>1, <2>3, <2>4 DEF Dropped, Kept, SameTrigs
  <2> QED BY <1>2, <2>2, <2>4, <2>5
<1> QED BY <1>1, <1>2

LEMMA VanishIsFine ==
  ASSUME NEW c \in Nat, NEW s, Fine(s, c), NEW t, t \in Tracked(s), t \notin world.exists,
         NEW time \in Nat, c <= time
  PROVE  Fine(Vanish(s, t, time), c) /\ Dropped(s, Vanish(s, t, time), t)
<1>0. s \in Service /\ OneTracker(s) /\ EventsFit(s) /\ Pushing(s, c) /\ t \in Trigs
  BY TrackedAre DEF Fine, Touches
<1> DEFINE a == IF HasBhopTrigger(t) THEN MapiEnd(s, t, time) ELSE s
<1>1. Vanish(s, t, time) = Forget(a, t)
  BY DEF Vanish
<1>2. /\ a \in Service /\ Pushing(a, c) /\ Kept(s, a) /\ a.trackers = s.trackers
      /\ \A u \in Trigs : u # t => a.depth[u] = s.depth[u]
  <2>1. CASE HasBhopTrigger(t)
    <3>1. /\ a \in Service /\ Pushing(a, c) /\ Kept(s, a)
          /\ a.trackers = s.trackers /\ a.depth = [s.depth EXCEPT ![t] = @ - 1]
      BY <1>0, <2>1, MapiEndFits
    <3> QED BY <1>0, <3>1 DEF Service
  <2>2. CASE ~HasBhopTrigger(t)
    BY <1>0, <2>2, ItselfIsSame
  <2> QED BY <2>1, <2>2
<1> HIDE DEF a
<1>3. OneTracker(a) /\ t \in Tracked(a) /\ Tracked(a) = Tracked(s) /\ \A u : Started(a, u) <=> Started(s, u)
  BY <1>0, <1>2 DEF OneTracker, Tracked, Started
<1>4. ASSUME NEW u \in Trigs \cap world.exists
      PROVE  a.depth[u] = IF u # t /\ Started(a, u) THEN 1 ELSE 0
  BY <1>0, <1>2, <1>3 DEF EventsFit
<1>5. \A i \in DOMAIN a.trackers : a.trackers[i].mapi => HasBhopTrigger(a.trackers[i].trig)
  BY <1>0, <1>2 DEF EventsFit
<1>6. Fine(Forget(a, t), c) /\ Dropped(a, Forget(a, t), t)
  BY <1>2, <1>3, <1>4, <1>5, ForgottenIsFine
<1> QED BY <1>1, <1>2, <1>3, <1>6 DEF Dropped, Kept

\* A new tracker.
Joined(s, e, t) == Kept(s, e) /\ Tracked(e) = Tracked(s) \cup {t}

LEMMA AppendedIsFine ==
  ASSUME NEW c \in Nat, NEW s, Fine(s, c), NEW t \in Trigs, t \notin Tracked(s)
  PROVE  LET e == [s EXCEPT !.trackers = Append(@, Tracker(t))]
         IN  Fine(e, c) /\ Joined(s, e, t) /\ ~Started(e, t)
<1> DEFINE k == s.trackers
           h == Append(k, Tracker(t))
           e == [s EXCEPT !.trackers = h]
           n == Len(k) + 1
<1>0. /\ s \in Service /\ OneTracker(s) /\ EventsFit(s) /\ Pushing(s, c)
      /\ k \in Seq(TrackerType) /\ Len(k) \in Nat /\ DOMAIN k = 1..Len(k)
  BY TrackedAre DEF Fine, Touches, Service
<1>1. Tracker(t) \in TrackerType /\ Tracker(t).trig = t /\ ~Tracker(t).mapi
  BY DEF Tracker, TrackerType
<1>2. /\ h \in Seq(TrackerType) /\ DOMAIN h = 1..n /\ h[n].trig = t /\ ~h[n].mapi
      /\ \A j \in 1..Len(k) : h[j] = k[j]
  BY <1>0, <1>1
<1>3. \A j \in 1..n : j \in 1..Len(k) \/ j = n
  BY <1>0
<1>4. n \in 1..n /\ n \notin 1..Len(k) /\ \A j \in 1..Len(k) : j \in 1..n
  BY <1>0
<1> HIDE DEF h, n
<1>5. /\ e \in Service /\ e.trackers = h /\ e.depth = s.depth /\ e.pushes = s.pushes
      /\ e.last = s.last /\ e.hit = s.hit
  BY <1>0, <1>2 DEF Service
<1>6. [s EXCEPT !.trackers = Append(@, Tracker(t))] = e
  BY <1>0 DEF h, Service
<1> HIDE DEF e
<1>7. \A j \in 1..Len(k) : k[j].trig # t
  BY <1>0 DEF Tracked
<1>8. \A u : Started(e, u) <=> Started(s, u)
  <2>1. \A u : Started(e, u) <=> \E j \in 1..n : h[j].trig = u /\ h[j].mapi
    BY <1>2, <1>5 DEF Started
  <2>2. \A u : Started(s, u) <=> \E j \in 1..Len(k) : k[j].trig = u /\ k[j].mapi
    BY <1>0 DEF Started
  <2> QED BY <1>2, <1>3, <1>4, <2>1, <2>2
<1>9. ~Started(s, t)
  BY <1>0, <1>7 DEF Started
<1>10. OneTracker(e)
  BY <1>0, <1>2, <1>3, <1>5, <1>7 DEF OneTracker
<1>11. EventsFit(e)
  <2>1. \A j \in 1..n : h[j].mapi => HasBhopTrigger(h[j].trig)
    BY <1>0, <1>2, <1>3 DEF EventsFit
  <2> QED BY <1>0, <1>2, <1>5, <1>8, <2>1 DEF EventsFit
<1>12. Pushing(e, c)
  BY <1>0, <1>5 DEF Pushing, OnePush, PushesFit, CoolsDown, Sources
<1>13. Tracked(e) = Tracked(s) \cup {t}
  <2>1. Tracked(e) = {h[j].trig : j \in 1..n} /\ Tracked(s) = {k[j].trig : j \in 1..Len(k)}
    BY <1>0, <1>2, <1>5 DEF Tracked
  <2> QED BY <1>2, <1>3, <1>4, <2>1
<1> QED BY <1>5, <1>6, <1>8, <1>9, <1>10, <1>11, <1>12, <1>13 DEF Fine, Touches, Joined, Kept

LEMMA StartTouchIsFine ==
  ASSUME NEW c \in Nat, NEW s, Fine(s, c), NEW t \in Trigs, NEW time \in Nat, c <= time, NEW moving
  PROVE  LET e == StartTouch(s, t, time, moving)
         IN  /\ Fine(e, c)
             /\ IF t \in Tracked(s) \/ ~ModeAllows(t, time) THEN e = s ELSE Joined(s, e, t)
<1>1. CASE t \in Tracked(s) \/ ~ModeAllows(t, time)
  BY <1>1 DEF StartTouch
<1>2. CASE ~(t \in Tracked(s) \/ ~ModeAllows(t, time))
  <2> DEFINE a == [s EXCEPT !.trackers = Append(@, Tracker(t))]
             b == OnTriggerStartTouchPost(a, t, time)
             e == Touch(b, t, time, moving, TRUE)
  <2>1. Fine(a, c) /\ Joined(s, a, t) /\ ~Started(a, t)
    BY <1>2, AppendedIsFine
  <2>2. StartTouch(s, t, time, moving) = e
    BY <1>2 DEF StartTouch
  <2> HIDE DEF a
  <2>3. Fine(b, c) /\ Kept(a, b) /\ SameTrigs(a, b)
    BY <2>1, StartTouchPostIsFine DEF Joined
  <2> HIDE DEF b
  <2>4. Fine(e, c) /\ Kept(b, e) /\ SameTrigs(b, e)
    BY <2>3, TouchIsFine
  <2> HIDE DEF e
  <2>5. Tracked(b) = Tracked(a) /\ Tracked(e) = Tracked(b)
    BY <2>1, <2>3, <2>4, SameTrigsTracked DEF Fine
  <2>6. Joined(s, e, t)
    BY <2>1, <2>3, <2>4, <2>5 DEF Joined, Kept
  <2> QED BY <1>2, <2>2, <2>4, <2>6
<1> QED BY <1>1, <1>2

------------------------------------------------------------------------------
(* The loops over trackers and hits: Q says what holds after n steps. *)

After(Q, n, e) == e \in Service /\ <<n, e>> \in Q

\* Over what a trace hit.
Hitting(f, s, hits, time, moving, again) ==
  f = [n \in 0..Len(hits) |-> IF n = 0 THEN s ELSE TouchOne(f[n - 1], hits[n], time, moving, again)]

KeepsHitting(Q, s, hits, time, moving, again) ==
  /\ <<0, s>> \in Q
  /\ \A n \in 1..Len(hits), x \in Service : <<n - 1, x>> \in Q =>
       /\ TouchOne(x, hits[n], time, moving, again) \in Service
       /\ <<n, TouchOne(x, hits[n], time, moving, again)>> \in Q

LEMMA TouchHitsKeep ==
  ASSUME NEW Q, NEW s \in Service, NEW hits \in Seq(Trigs), NEW time, NEW moving, NEW again,
         KeepsHitting(Q, s, hits, time, moving, again)
  PROVE  After(Q, Len(hits), TouchHits(s, hits, time, moving, again))
<1> DEFINE L == Len(hits)
           S == Service
           a == s
           es == hits
           g == [p \in S \X Trigs |-> LET y == TouchOne(p[1], p[2], time, moving, again)
                                      IN IF y \in S THEN y ELSE a]
<1>0. L \in Nat /\ a \in S /\ es \in Seq(Trigs) /\ Len(es) = L /\ \A n \in 1..L : es[n] \in Trigs
  BY ElementOfSeq
<1>k. /\ <<0, a>> \in Q
      /\ \A n \in 1..Len(hits), x \in Service : <<n - 1, x>> \in Q =>
           /\ TouchOne(x, hits[n], time, moving, again) \in Service
           /\ <<n, TouchOne(x, hits[n], time, moving, again)>> \in Q
  BY DEF KeepsHitting
<1>1. /\ g \in [S \X Trigs -> S]
      /\ \A x \in S, e \in Trigs : TouchOne(x, e, time, moving, again) \in S =>
             g[<<x, e>>] = TouchOne(x, e, time, moving, again)
  BY <1>0
<1> HIDE DEF g, S
<1>2. PICK h \in [0..L -> S] : Folds(h, g, a, es, L)
  BY <1>0, <1>1, FoldExists
<1>3. Hitting(h, s, hits, time, moving, again)
  <2> DEFINE T == {n \in Nat : n <= L => <<n, h[n]>> \in Q}
  <2>1. 0 \in T
    BY <1>0, <1>k, <1>2 DEF Folds
  <2>2. ASSUME NEW n \in T, n \in 0..L - 1
        PROVE  n + 1 \in T /\ h[n + 1] = TouchOne(h[n], hits[n + 1], time, moving, again)
    <3>0. /\ n + 1 \in 0..L /\ n + 1 \in 1..L /\ n + 1 # 0 /\ (n + 1) - 1 = n
          /\ n \in 0..L /\ n <= L /\ n + 1 \in Nat
      BY <1>0, <2>2
    <3>1. h[n] \in S /\ <<n, h[n]>> \in Q /\ es[n + 1] \in Trigs
      BY <1>0, <2>2, <3>0
    <3>2. h[n + 1] = g[<<h[n], es[n + 1]>>]
      BY <1>2, <3>0, <3>1 DEF Folds
    <3>3. /\ TouchOne(h[n], hits[n + 1], time, moving, again) \in S
          /\ <<n + 1, TouchOne(h[n], hits[n + 1], time, moving, again)>> \in Q
      BY <1>k, <3>0, <3>1 DEF S
    <3>4. g[<<h[n], es[n + 1]>>] = TouchOne(h[n], hits[n + 1], time, moving, again)
      BY <1>1, <3>1, <3>3
    <3>5. h[n + 1] = TouchOne(h[n], hits[n + 1], time, moving, again)
      BY <3>2, <3>4
    <3>6. <<n + 1, h[n + 1]>> \in Q
      BY <3>3, <3>5
    <3> QED BY <3>0, <3>5, <3>6
  <2> HIDE DEF T
  <2>3. \A n \in 0..L : n \in T
    BY <1>0, <2>1, <2>2, UpTo
  <2>4. \A n \in 1..L : h[n] = TouchOne(h[n - 1], hits[n], time, moving, again)
    <3> SUFFICES ASSUME NEW n \in 1..L PROVE h[n] = TouchOne(h[n - 1], hits[n], time, moving, again)
      OBVIOUS
    <3>1. n - 1 \in 0..L - 1 /\ n - 1 \in 0..L /\ (n - 1) + 1 = n
      BY <1>0
    <3> QED BY <2>2, <2>3, <3>1
  <2>5. h[0] = a /\ h = [n \in 0..L |-> h[n]] /\ \A n \in 0..L : n # 0 => n \in 1..L
    BY <1>0, <1>2 DEF Folds
  <2>6. h = [n \in 0..L |-> IF n = 0 THEN a ELSE TouchOne(h[n - 1], hits[n], time, moving, again)]
    BY <2>4, <2>5
  <2> QED BY <2>6 DEF Hitting
<1> DEFINE f == CHOOSE k : Hitting(k, s, hits, time, moving, again)
<1>4. Hitting(f, s, hits, time, moving, again)
  BY <1>3
<1>5. TouchHits(s, hits, time, moving, again) = f[L]
  BY DEF TouchHits, Hitting
<1> HIDE DEF f
<1>6. <<L, f[L]>> \in Q /\ f[L] \in S
  <2> DEFINE T == {n \in Nat : n <= L => f[n] \in S /\ <<n, f[n]>> \in Q}
  <2>1. 0 \in T
    <3>1. f[0] = a
      BY <1>0, <1>4 DEF Hitting
    <3> QED BY <1>0, <1>k, <3>1
  <2>2. ASSUME NEW n \in T, n \in 0..L - 1 PROVE n + 1 \in T
    <3>1. /\ n + 1 \in 0..L /\ n + 1 \in 1..L /\ n + 1 # 0 /\ (n + 1) - 1 = n
          /\ f[n] \in S /\ <<n, f[n]>> \in Q
      BY <1>0, <2>2
    <3>2. f[n + 1] = TouchOne(f[n], hits[n + 1], time, moving, again)
      BY <1>4, <3>1 DEF Hitting
    <3> QED BY <1>k, <3>1, <3>2 DEF S
  <2> HIDE DEF T
  <2>3. \A n \in 0..L : n \in T
    BY <1>0, <2>1, <2>2, UpTo
  <2> QED BY <1>0, <2>3 DEF T
<1> QED BY <1>5, <1>6 DEF S, After

\* The triggers of the trackers, last first.
LEMMA BackwardsIs ==
  ASSUME NEW s \in Service
  PROVE  /\ Len(s.trackers) \in Nat /\ Backwards(s) \in Seq(Trigs) /\ Len(Backwards(s)) = Len(s.trackers)
         /\ \A n \in 1..Len(s.trackers) :
              /\ Backwards(s)[n] = s.trackers[Len(s.trackers) + 1 - n].trig
              /\ Len(s.trackers) + 1 - n \in 1..Len(s.trackers) /\ Backwards(s)[n] \in Trigs
<1> DEFINE L == Len(s.trackers)
<1>1. L \in Nat /\ \A i \in 1..L : s.trackers[i].trig \in Trigs
  BY TrackedAre
<1>2. \A n \in 1..L : L + 1 - n \in 1..L
  BY <1>1
<1>3. Backwards(s) = [n \in 1..L |-> s.trackers[L + 1 - n].trig]
  BY DEF Backwards
<1> HIDE DEF L
<1>4. Backwards(s) \in [1..L -> Trigs]
  BY <1>1, <1>2, <1>3
<1>5. Backwards(s) \in Seq(Trigs) /\ Len(Backwards(s)) = L
  BY <1>1, <1>4
<1> QED BY <1>1, <1>2, <1>3, <1>4, <1>5 DEF L

\* Backwards over the trackers.
Leaving(f, s, hits, time, moving) ==
  f = [n \in 0..Len(s.trackers) |-> IF n = 0 THEN s ELSE EndOne(f[n - 1], Backwards(s)[n], hits, time, moving)]

KeepsLeaving(Q, s, hits, time, moving) ==
  /\ <<0, s>> \in Q
  /\ \A n \in 1..Len(s.trackers), x \in Service : <<n - 1, x>> \in Q =>
       /\ EndOne(x, Backwards(s)[n], hits, time, moving) \in Service
       /\ <<n, EndOne(x, Backwards(s)[n], hits, time, moving)>> \in Q

LEMMA EndUnhitKeeps ==
  ASSUME NEW Q, NEW s \in Service, NEW hits, NEW time, NEW moving,
         KeepsLeaving(Q, s, hits, time, moving)
  PROVE  After(Q, Len(s.trackers), EndUnhit(s, hits, time, moving))
<1> DEFINE L == Len(s.trackers)
           S == Service
           a == s
           es == Backwards(s)
           g == [p \in S \X Trigs |-> LET y == EndOne(p[1], p[2], hits, time, moving) IN IF y \in S THEN y ELSE a]
<1>0. L \in Nat /\ a \in S /\ es \in Seq(Trigs) /\ Len(es) = L /\ \A n \in 1..L : es[n] \in Trigs
  BY BackwardsIs
<1>k. /\ <<0, a>> \in Q
      /\ \A n \in 1..Len(s.trackers), x \in Service : <<n - 1, x>> \in Q =>
           /\ EndOne(x, Backwards(s)[n], hits, time, moving) \in Service
           /\ <<n, EndOne(x, Backwards(s)[n], hits, time, moving)>> \in Q
  BY DEF KeepsLeaving
<1>1. /\ g \in [S \X Trigs -> S]
      /\ \A x \in S, e \in Trigs : EndOne(x, e, hits, time, moving) \in S =>
             g[<<x, e>>] = EndOne(x, e, hits, time, moving)
  BY <1>0
<1> HIDE DEF g, S
<1>2. PICK h \in [0..L -> S] : Folds(h, g, a, es, L)
  BY <1>0, <1>1, FoldExists
<1>3. Leaving(h, s, hits, time, moving)
  <2> DEFINE T == {n \in Nat : n <= L => <<n, h[n]>> \in Q}
  <2>1. 0 \in T
    BY <1>0, <1>k, <1>2 DEF Folds
  <2>2. ASSUME NEW n \in T, n \in 0..L - 1
        PROVE  n + 1 \in T /\ h[n + 1] = EndOne(h[n], Backwards(s)[n + 1], hits, time, moving)
    <3>0. /\ n + 1 \in 0..L /\ n + 1 \in 1..L /\ n + 1 # 0 /\ (n + 1) - 1 = n
          /\ n \in 0..L /\ n <= L /\ n + 1 \in Nat
      BY <1>0, <2>2
    <3>1. h[n] \in S /\ <<n, h[n]>> \in Q /\ es[n + 1] \in Trigs
      BY <1>0, <2>2, <3>0
    <3>2. h[n + 1] = g[<<h[n], es[n + 1]>>]
      BY <1>2, <3>0, <3>1 DEF Folds
    <3>3. /\ EndOne(h[n], Backwards(s)[n + 1], hits, time, moving) \in S
          /\ <<n + 1, EndOne(h[n], Backwards(s)[n + 1], hits, time, moving)>> \in Q
      BY <1>k, <3>0, <3>1 DEF S
    <3>4. g[<<h[n], es[n + 1]>>] = EndOne(h[n], Backwards(s)[n + 1], hits, time, moving)
      BY <1>1, <3>1, <3>3
    <3>5. h[n + 1] = EndOne(h[n], Backwards(s)[n + 1], hits, time, moving)
      BY <3>2, <3>4
    <3>6. <<n + 1, h[n + 1]>> \in Q
      BY <3>3, <3>5
    <3> QED BY <3>0, <3>5, <3>6
  <2> HIDE DEF T
  <2>3. \A n \in 0..L : n \in T
    BY <1>0, <2>1, <2>2, UpTo
  <2>4. \A n \in 1..L : h[n] = EndOne(h[n - 1], Backwards(s)[n], hits, time, moving)
    <3> SUFFICES ASSUME NEW n \in 1..L PROVE h[n] = EndOne(h[n - 1], Backwards(s)[n], hits, time, moving)
      OBVIOUS
    <3>1. n - 1 \in 0..L - 1 /\ n - 1 \in 0..L /\ (n - 1) + 1 = n
      BY <1>0
    <3> QED BY <2>2, <2>3, <3>1
  <2>5. h[0] = a /\ h = [n \in 0..L |-> h[n]] /\ \A n \in 0..L : n # 0 => n \in 1..L
    BY <1>0, <1>2 DEF Folds
  <2>6. h = [n \in 0..L |-> IF n = 0 THEN a ELSE EndOne(h[n - 1], Backwards(s)[n], hits, time, moving)]
    BY <2>4, <2>5
  <2> QED BY <2>6 DEF Leaving
<1> DEFINE f == CHOOSE k : Leaving(k, s, hits, time, moving)
<1>4. Leaving(f, s, hits, time, moving)
  BY <1>3
<1>5. EndUnhit(s, hits, time, moving) = f[L]
  BY DEF EndUnhit, Leaving
<1> HIDE DEF f
<1>6. <<L, f[L]>> \in Q /\ f[L] \in S
  <2> DEFINE T == {n \in Nat : n <= L => f[n] \in S /\ <<n, f[n]>> \in Q}
  <2>1. 0 \in T
    <3>1. f[0] = a
      BY <1>0, <1>4 DEF Leaving
    <3> QED BY <1>0, <1>k, <3>1
  <2>2. ASSUME NEW n \in T, n \in 0..L - 1 PROVE n + 1 \in T
    <3>1. /\ n + 1 \in 0..L /\ n + 1 \in 1..L /\ n + 1 # 0 /\ (n + 1) - 1 = n
          /\ f[n] \in S /\ <<n, f[n]>> \in Q
      BY <1>0, <2>2
    <3>2. f[n + 1] = EndOne(f[n], Backwards(s)[n + 1], hits, time, moving)
      BY <1>4, <3>1 DEF Leaving
    <3> QED BY <1>k, <3>1, <3>2 DEF S
  <2> HIDE DEF T
  <2>3. \A n \in 0..L : n \in T
    BY <1>0, <2>1, <2>2, UpTo
  <2> QED BY <1>0, <2>3 DEF T
<1> QED BY <1>5, <1>6 DEF S, After

\* Forwards over the trackers.
Place == [s : Service, i : Nat]
AfterPlace(Q, n, e) == \E x \in Place : x.s = e /\ <<n, x>> \in Q

Visiting(f, s, body, time, moving) ==
  f = [n \in 0..Len(s.trackers) |-> IF n = 0 THEN [s |-> s, i |-> 1] ELSE VisitOne(f[n - 1], body, time, moving)]

KeepsVisiting(Q, s, body, time, moving) ==
  /\ <<0, [s |-> s, i |-> 1]>> \in Q
  /\ \A n \in 1..Len(s.trackers), x \in Place : <<n - 1, x>> \in Q =>
       VisitOne(x, body, time, moving) \in Place /\ <<n, VisitOne(x, body, time, moving)>> \in Q

LEMMA ForEachKeeps ==
  ASSUME NEW Q, NEW s \in Service, NEW body, NEW time, NEW moving,
         KeepsVisiting(Q, s, body, time, moving)
  PROVE  AfterPlace(Q, Len(s.trackers), ForEach(s, body, time, moving))
<1> DEFINE L == Len(s.trackers)
           S == Place
           a == [s |-> s, i |-> 1]
           es == [n \in 1..L |-> n]
           g == [p \in S \X Nat |-> LET y == VisitOne(p[1], body, time, moving) IN IF y \in S THEN y ELSE a]
<1>0. L \in Nat /\ a \in S /\ es \in Seq(Nat) /\ Len(es) = L /\ \A n \in 1..L : es[n] \in Nat
  BY TrackedAre DEF Place
<1>k. /\ <<0, a>> \in Q
      /\ \A n \in 1..Len(s.trackers), x \in Place : <<n - 1, x>> \in Q =>
           VisitOne(x, body, time, moving) \in Place /\ <<n, VisitOne(x, body, time, moving)>> \in Q
  BY DEF KeepsVisiting
<1>1. /\ g \in [S \X Nat -> S]
      /\ \A x \in S, e \in Nat : VisitOne(x, body, time, moving) \in S =>
             g[<<x, e>>] = VisitOne(x, body, time, moving)
  BY <1>0
<1> HIDE DEF g, S
<1>2. PICK h \in [0..L -> S] : Folds(h, g, a, es, L)
  BY <1>0, <1>1, FoldExists
<1>3. Visiting(h, s, body, time, moving)
  <2> DEFINE T == {n \in Nat : n <= L => <<n, h[n]>> \in Q}
  <2>1. 0 \in T
    BY <1>0, <1>k, <1>2 DEF Folds
  <2>2. ASSUME NEW n \in T, n \in 0..L - 1
        PROVE  n + 1 \in T /\ h[n + 1] = VisitOne(h[n], body, time, moving)
    <3>0. /\ n + 1 \in 0..L /\ n + 1 \in 1..L /\ n + 1 # 0 /\ (n + 1) - 1 = n
          /\ n \in 0..L /\ n <= L /\ n + 1 \in Nat
      BY <1>0, <2>2
    <3>1. h[n] \in S /\ <<n, h[n]>> \in Q /\ es[n + 1] \in Nat
      BY <1>0, <2>2, <3>0
    <3>2. h[n + 1] = g[<<h[n], es[n + 1]>>]
      BY <1>2, <3>0, <3>1 DEF Folds
    <3>3. VisitOne(h[n], body, time, moving) \in S /\ <<n + 1, VisitOne(h[n], body, time, moving)>> \in Q
      BY <1>k, <3>0, <3>1 DEF S
    <3>4. g[<<h[n], es[n + 1]>>] = VisitOne(h[n], body, time, moving)
      BY <1>1, <3>1, <3>3
    <3>5. h[n + 1] = VisitOne(h[n], body, time, moving)
      BY <3>2, <3>4
    <3>6. <<n + 1, h[n + 1]>> \in Q
      BY <3>3, <3>5
    <3> QED BY <3>0, <3>5, <3>6
  <2> HIDE DEF T
  <2>3. \A n \in 0..L : n \in T
    BY <1>0, <2>1, <2>2, UpTo
  <2>4. \A n \in 1..L : h[n] = VisitOne(h[n - 1], body, time, moving)
    <3> SUFFICES ASSUME NEW n \in 1..L PROVE h[n] = VisitOne(h[n - 1], body, time, moving)
      OBVIOUS
    <3>1. n - 1 \in 0..L - 1 /\ n - 1 \in 0..L /\ (n - 1) + 1 = n
      BY <1>0
    <3> QED BY <2>2, <2>3, <3>1
  <2>5. h[0] = a /\ h = [n \in 0..L |-> h[n]] /\ \A n \in 0..L : n # 0 => n \in 1..L
    BY <1>0, <1>2 DEF Folds
  <2>6. h = [n \in 0..L |-> IF n = 0 THEN a ELSE VisitOne(h[n - 1], body, time, moving)]
    BY <2>4, <2>5
  <2> QED BY <2>6 DEF Visiting
<1> DEFINE f == CHOOSE k : Visiting(k, s, body, time, moving)
<1>4. Visiting(f, s, body, time, moving)
  BY <1>3
<1>5. ForEach(s, body, time, moving) = f[L].s
  BY DEF ForEach, Visiting
<1> HIDE DEF f
<1>6. <<L, f[L]>> \in Q /\ f[L] \in S
  <2> DEFINE T == {n \in Nat : n <= L => f[n] \in S /\ <<n, f[n]>> \in Q}
  <2>1. 0 \in T
    <3>1. f[0] = a
      BY <1>0, <1>4 DEF Visiting
    <3> QED BY <1>0, <1>k, <3>1
  <2>2. ASSUME NEW n \in T, n \in 0..L - 1 PROVE n + 1 \in T
    <3>1. /\ n + 1 \in 0..L /\ n + 1 \in 1..L /\ n + 1 # 0 /\ (n + 1) - 1 = n
          /\ f[n] \in S /\ <<n, f[n]>> \in Q
      BY <1>0, <2>2
    <3>2. f[n + 1] = VisitOne(f[n], body, time, moving)
      BY <1>4, <3>1 DEF Visiting
    <3> QED BY <1>k, <3>1, <3>2 DEF S
  <2> HIDE DEF T
  <2>3. \A n \in 0..L : n \in T
    BY <1>0, <2>1, <2>2, UpTo
  <2> QED BY <1>0, <2>3 DEF T
<1> QED BY <1>5, <1>6 DEF S, AfterPlace

Even(time) == time % 2 = 0

LEMMA EvenAllows == ASSUME NEW time, Even(time), NEW t PROVE ModeAllows(t, time)
BY DEF Even, ModeAllows

LEMMA TouchOneIsFine ==
  ASSUME NEW c \in Nat, NEW s, Fine(s, c), NEW t \in Trigs, NEW time \in Nat, c <= time,
         NEW moving, NEW again
  PROVE  LET e == TouchOne(s, t, time, moving, again)
         IN  /\ Fine(e, c) /\ Kept(s, e) /\ Tracked(s) \subseteq Tracked(e)
             /\ Tracked(e) \subseteq Tracked(s) \cup {t}
             /\ Even(time) => t \in Tracked(e)
<1>1. CASE t \notin Tracked(s)
  <2> DEFINE e == StartTouch(s, t, time, moving)
  <2>1. /\ Fine(e, c)
        /\ IF t \in Tracked(s) \/ ~ModeAllows(t, time) THEN e = s ELSE Joined(s, e, t)
    BY StartTouchIsFine
  <2>2. TouchOne(s, t, time, moving, again) = e
    BY <1>1 DEF TouchOne
  <2> HIDE DEF e
  <2> QED BY <1>1, <2>1, <2>2, EvenAllows, ItselfIsSame DEF Joined
<1>2. CASE t \in Tracked(s)
  <2> DEFINE e == Touch(s, t, time, moving, FALSE)
  <2>1. Fine(e, c) /\ Kept(s, e) /\ SameTrigs(s, e)
    BY TouchIsFine
  <2>2. TouchOne(s, t, time, moving, again) \in {e, s}
    BY <1>2 DEF TouchOne
  <2> HIDE DEF e
  <2>3. Tracked(e) = Tracked(s)
    BY <2>1, SameTrigsTracked DEF Fine
  <2> QED BY <1>2, <2>1, <2>2, <2>3, ItselfIsSame
<1> QED BY <1>1, <1>2

\* After a trace the player touches what it hit.
HitSoFar(s, x, hits, time, c, n) ==
  /\ Fine(x, c) /\ Kept(s, x)
  /\ Tracked(s) \subseteq Tracked(x) /\ Tracked(x) \subseteq Tracked(s) \cup ToSet(hits)
  /\ Even(time) => \A m \in 1..n : hits[m] \in Tracked(x)

LEMMA TouchHitsIsFine ==
  ASSUME NEW c \in Nat, NEW s, Fine(s, c), NEW hits \in Seq(Trigs), NEW time \in Nat, c <= time,
         NEW moving, NEW again
  PROVE  LET e == TouchHits(s, hits, time, moving, again)
         IN  /\ Fine(e, c) /\ Kept(s, e) /\ Tracked(e) \subseteq Tracked(s) \cup ToSet(hits)
             /\ Even(time) => ToSet(hits) \subseteq Tracked(e)
<1> DEFINE Q == {q \in Nat \X Service : HitSoFar(s, q[2], hits, time, c, q[1])}
           L == Len(hits)
<1>0. s \in Service /\ L \in Nat /\ DOMAIN hits = 1..L /\ \A n \in 1..L : hits[n] \in Trigs
  BY ElementOfSeq DEF Fine
<1>1. \A n \in Nat, x \in Service : <<n, x>> \in Q <=> HitSoFar(s, x, hits, time, c, n)
  OBVIOUS
<1> HIDE DEF Q, L
<1>2. <<0, s>> \in Q
  <2>1. HitSoFar(s, s, hits, time, c, 0)
    BY ItselfIsSame DEF HitSoFar
  <2> QED BY <1>0, <1>1, <2>1
<1>3. ASSUME NEW n \in 1..L, NEW x \in Service, <<n - 1, x>> \in Q
      PROVE  /\ TouchOne(x, hits[n], time, moving, again) \in Service
             /\ <<n, TouchOne(x, hits[n], time, moving, again)>> \in Q
  <2> DEFINE e == TouchOne(x, hits[n], time, moving, again)
  <2>1. n \in Nat /\ n - 1 \in Nat /\ \A m \in 1..n : m = n \/ m \in 1..n - 1
    BY <1>0
  <2>2. HitSoFar(s, x, hits, time, c, n - 1)
    BY <1>1, <1>3, <2>1
  <2>3. /\ Fine(e, c) /\ Kept(x, e) /\ Tracked(x) \subseteq Tracked(e)
        /\ Tracked(e) \subseteq Tracked(x) \cup {hits[n]}
        /\ Even(time) => hits[n] \in Tracked(e)
    BY <1>0, <2>2, TouchOneIsFine DEF HitSoFar
  <2> HIDE DEF e
  <2>4. HitSoFar(s, e, hits, time, c, n)
    <3>1. Kept(s, e)
      BY <2>2, <2>3 DEF HitSoFar, Kept
    <3>2. hits[n] \in ToSet(hits)
      BY <1>0 DEF ToSet
    <3> QED BY <2>1, <2>2, <2>3, <3>1, <3>2 DEF HitSoFar
  <2> QED BY <1>1, <2>1, <2>3, <2>4 DEF Fine, e
<1> DEFINE x == TouchHits(s, hits, time, moving, again)
<1>4. x \in Service /\ <<L, x>> \in Q
  <2>1. KeepsHitting(Q, s, hits, time, moving, again)
    BY <1>2, <1>3 DEF KeepsHitting, L
  <2>2. After(Q, Len(hits), x)
    BY <1>0, <2>1, TouchHitsKeep
  <2> QED BY <2>2 DEF After, L
<1> HIDE DEF x
<1>5. HitSoFar(s, x, hits, time, c, L)
  BY <1>0, <1>1, <1>4
<1>6. Even(time) => ToSet(hits) \subseteq Tracked(x)
  BY <1>0, <1>5 DEF HitSoFar, ToSet
<1> QED BY <1>5, <1>6 DEF HitSoFar, x

LEMMA EndOneIsFine ==
  ASSUME NEW c \in Nat, NEW s, Fine(s, c), NEW t, t \in Tracked(s), NEW hits, NEW time \in Nat, c <= time,
         NEW moving
  PROVE  LET e == EndOne(s, t, hits, time, moving)
         IN  /\ Fine(e, c) /\ Kept(s, e) /\ Tracked(s) \ {t} \subseteq Tracked(e)
             /\ Tracked(e) \subseteq Tracked(s)
             /\ Even(time) /\ t \in Tracked(e) => t \in ToSet(hits) \cap world.exists
<1>1. CASE t \notin world.exists
  <2>1. EndOne(s, t, hits, time, moving) = Vanish(s, t, time)
    BY <1>1 DEF EndOne
  <2> QED BY <1>1, <2>1, VanishIsFine DEF Dropped
<1>2. CASE t \in world.exists /\ t \notin ToSet(hits)
  <2> DEFINE e == EndTouch(s, t, time, moving)
  <2>1. EndOne(s, t, hits, time, moving) = e
    BY <1>2 DEF EndOne
  <2>2. /\ Fine(e, c)
        /\ IF t \in Tracked(s) /\ ModeAllows(t, time) THEN Dropped(s, e, t) ELSE e = s
    BY EndTouchIsFine
  <2> HIDE DEF e
  <2> QED BY <2>1, <2>2, EvenAllows, ItselfIsSame DEF Dropped
<1>3. CASE t \in world.exists /\ t \in ToSet(hits)
  BY <1>3, ItselfIsSame DEF EndOne
<1> QED BY <1>1, <1>2, <1>3

\* What is not hit is touched no more.
LeftSoFar(s, x, hits, time, c, n) ==
  /\ Fine(x, c) /\ Kept(s, x) /\ Tracked(x) \subseteq Tracked(s)
  /\ \A m \in n + 1..Len(s.trackers) : Backwards(s)[m] \in Tracked(x)
  /\ Even(time) => \A u \in Tracked(x) : u \in ToSet(hits) \cap world.exists
                                         \/ \E m \in n + 1..Len(s.trackers) : u = Backwards(s)[m]

LEMMA EndUnhitIsFine ==
  ASSUME NEW c \in Nat, NEW s, Fine(s, c), NEW hits, NEW time \in Nat, c <= time, NEW moving
  PROVE  LET e == EndUnhit(s, hits, time, moving)
         IN  /\ Fine(e, c) /\ Kept(s, e) /\ Tracked(e) \subseteq Tracked(s)
             /\ Even(time) => Tracked(e) \subseteq ToSet(hits) \cap world.exists
<1> DEFINE Q == {q \in Nat \X Service : LeftSoFar(s, q[2], hits, time, c, q[1])}
           L == Len(s.trackers)
           b == Backwards(s)
<1>0. s \in Service /\ L \in Nat /\ DOMAIN s.trackers = 1..L /\ OneTracker(s)
  BY TrackedAre DEF Fine, Touches
<1>b. /\ \A n \in 1..L : b[n] = s.trackers[L + 1 - n].trig /\ L + 1 - n \in 1..L
      /\ \A i \in 1..L : s.trackers[i].trig \in Tracked(s)
  BY <1>0, BackwardsIs, TrackedAre
<1>1. \A n \in Nat, x \in Service : <<n, x>> \in Q <=> LeftSoFar(s, x, hits, time, c, n)
  OBVIOUS
<1>d. \A m, n \in 1..L : b[m] = b[n] => m = n
  <2> SUFFICES ASSUME NEW m \in 1..L, NEW n \in 1..L, b[m] = b[n] PROVE m = n
    OBVIOUS
  <2>0. \A x, y \in 1..L : s.trackers[x].trig = s.trackers[y].trig => x = y
    BY <1>0 DEF OneTracker
  <2>2. /\ L + 1 - m \in 1..L /\ b[m] = s.trackers[L + 1 - m].trig
        /\ L + 1 - n \in 1..L /\ b[n] = s.trackers[L + 1 - n].trig
    BY <1>b
  <2>1. L + 1 - m = L + 1 - n
    BY <2>0, <2>2
  <2> QED BY <1>0, <2>1
<1>u. \A u \in Tracked(s) : \E m \in 1..L : u = b[m]
  <2> SUFFICES ASSUME NEW i \in 1..L PROVE \E m \in 1..L : s.trackers[i].trig = b[m]
    BY <1>0 DEF Tracked
  <2>1. L + 1 - i \in 1..L /\ L + 1 - (L + 1 - i) = i
    BY <1>0
  <2> QED BY <1>b, <2>1
<1> HIDE DEF Q
<1>2. <<0, s>> \in Q
  <2> HIDE DEF L, b
  <2>0. 0 + 1..Len(s.trackers) = 1..L
    BY <1>0 DEF L
  <2>1. LeftSoFar(s, s, hits, time, c, 0)
    BY <1>0, <1>b, <1>u, <2>0, ItselfIsSame DEF LeftSoFar, b
  <2> QED BY <1>0, <1>1, <2>1
<1> HIDE DEF L
<1>3. ASSUME NEW n \in 1..L, NEW x \in Service, <<n - 1, x>> \in Q
      PROVE  /\ EndOne(x, b[n], hits, time, moving) \in Service
             /\ <<n, EndOne(x, b[n], hits, time, moving)>> \in Q
  <2> DEFINE e == EndOne(x, b[n], hits, time, moving)
  <2>1. /\ n \in Nat /\ n - 1 \in Nat /\ n \in n - 1 + 1..L
        /\ \A m \in n + 1..L : m # n /\ m \in n - 1 + 1..L /\ m \in 1..L
        /\ \A m \in n - 1 + 1..L : m = n \/ m \in n + 1..L
    BY <1>0
  <2>2. /\ LeftSoFar(s, x, hits, time, c, n - 1)
    BY <1>1, <1>3, <2>1
  <2>3. /\ Fine(x, c) /\ Kept(s, x) /\ Tracked(x) \subseteq Tracked(s)
        /\ \A m \in n - 1 + 1..L : b[m] \in Tracked(x)
        /\ Even(time) => \A u \in Tracked(x) : u \in ToSet(hits) \cap world.exists
                                               \/ \E m \in n - 1 + 1..L : u = b[m]
    BY <2>2 DEF LeftSoFar, L
  <2>4. /\ Fine(e, c) /\ Kept(x, e) /\ Tracked(x) \ {b[n]} \subseteq Tracked(e)
        /\ Tracked(e) \subseteq Tracked(x)
        /\ Even(time) /\ b[n] \in Tracked(e) => b[n] \in ToSet(hits) \cap world.exists
    BY <2>1, <2>3, EndOneIsFine
  <2> HIDE DEF e, b
  <2>5. Kept(s, e)
    BY <2>3, <2>4 DEF Kept
  <2>6. \A m \in n + 1..L : b[m] \in Tracked(e)
    BY <1>d, <2>1, <2>3, <2>4
  <2>7. ASSUME Even(time), NEW u \in Tracked(e)
        PROVE  u \in ToSet(hits) \cap world.exists \/ \E m \in n + 1..L : u = b[m]
    BY <2>1, <2>3, <2>4, <2>7
  <2>8. LeftSoFar(s, e, hits, time, c, n)
    BY <2>3, <2>4, <2>5, <2>6, <2>7 DEF LeftSoFar, L, b
  <2> QED BY <1>1, <2>1, <2>4, <2>8 DEF Fine, e
<1> DEFINE x == EndUnhit(s, hits, time, moving)
<1>4. x \in Service /\ <<L, x>> \in Q
  <2>1. KeepsLeaving(Q, s, hits, time, moving)
    BY <1>2, <1>3 DEF KeepsLeaving, L
  <2>2. After(Q, Len(s.trackers), x)
    BY <1>0, <2>1, EndUnhitKeeps
  <2> QED BY <2>2 DEF After, L
<1> HIDE DEF x
<1>5. LeftSoFar(s, x, hits, time, c, L)
  BY <1>0, <1>1, <1>4
<1>6. ~\E m \in L + 1..Len(s.trackers) : TRUE
  BY <1>0 DEF L
<1> QED BY <1>5, <1>6 DEF LeftSoFar, x

\* One step of a loop over the trackers.
LEMMA VisitIsFine ==
  ASSUME NEW c \in Nat, NEW s, Fine(s, c), NEW t, t \in Tracked(s), NEW body \in {"clear", "touch", "end"},
         NEW time \in Nat, c <= time, NEW moving
  PROVE  LET e == Visit(s, t, body, time, moving)
         IN  /\ Fine(e, c)
             /\ body # "end" => Kept(s, e) /\ SameTrigs(s, e)
             /\ body = "end" => Dropped(s, e, t) \/ (~Even(time) /\ e = s)
<1>1. CASE body = "clear"
  <2>1. PICK no \in BOOLEAN : no = FALSE
    OBVIOUS
  <2>2. Visit(s, t, body, time, moving) = SetTouched(s, t, no)
    BY <1>1, <2>1 DEF Visit, SetTouched
  <2> QED BY <1>1, <2>2, SetTouchedIsFine
<1>2. CASE body = "touch"
  <2>1. Visit(s, t, body, time, moving) = Touch(s, t, time, moving, FALSE)
    BY <1>2 DEF Visit
  <2> QED BY <1>2, <2>1, TouchIsFine
<1>3. CASE body = "end"
  <2> DEFINE e == EndTouch(s, t, time, moving)
  <2>1. Visit(s, t, body, time, moving) = e
    BY <1>3 DEF Visit
  <2>2. /\ Fine(e, c)
        /\ IF t \in Tracked(s) /\ ModeAllows(t, time) THEN Dropped(s, e, t) ELSE e = s
    BY EndTouchIsFine
  <2> HIDE DEF e
  <2> QED BY <1>3, <2>1, <2>2, EvenAllows
<1> QED BY <1>1, <1>2, <1>3

\* How far a loop over the trackers is: what is touched is not changed if all
\* triggers live; a loop that ends touches has removed as many as it passed.
EndedSoFar(s, r, n) ==
  /\ Len(r.s.trackers) + r.i - 1 <= Len(s.trackers)
  /\ r.i > Len(r.s.trackers) \/ Len(r.s.trackers) = Len(s.trackers) - n

SeenSoFar(s, r, body, time, c, n) ==
  /\ Fine(r.s, c) /\ Kept(s, r.s) /\ Tracked(r.s) \subseteq Tracked(s)
  /\ r.i \in Nat \ {0} /\ Len(r.s.trackers) <= Len(s.trackers)
  /\ body # "end" /\ Tracked(s) \subseteq world.exists => Tracked(r.s) = Tracked(s)
  /\ body = "end" /\ Even(time) => EndedSoFar(s, r, n)

LEMMA OneLess ==
  \A i, j, k, l, m \in Int : j + i - 1 <= k /\ j = k - (m - 1) /\ l = j - 1 =>
    l + (i + 1) - 1 <= k /\ l + i - 1 <= k /\ l = k - m
OBVIOUS

\* One tracker less, and the index where it was or one further.
LEMMA EndsOneMore ==
  ASSUME NEW s, NEW r, NEW e, NEW n \in Nat \ {0}, EndedSoFar(s, r, n - 1), ~(r.i > Len(r.s.trackers)),
         r.i \in Nat, Len(s.trackers) \in Nat, Len(r.s.trackers) \in Nat, Len(e.s.trackers) \in Nat,
         Len(e.s.trackers) = Len(r.s.trackers) - 1, e.i = r.i \/ e.i = r.i + 1
  PROVE  EndedSoFar(s, e, n)
<1> DEFINE i == r.i
           j == Len(r.s.trackers)
           k == Len(s.trackers)
           l == Len(e.s.trackers)
<1>1. j + i - 1 <= k /\ j = k - (n - 1) /\ l = j - 1
  BY DEF EndedSoFar
<1>2. i \in Int /\ j \in Int /\ k \in Int /\ l \in Int /\ n \in Int /\ (e.i = i \/ e.i = i + 1)
  OBVIOUS
<1>3. SUFFICES l + e.i - 1 <= k /\ l = k - n
  BY DEF EndedSoFar
<1> HIDE DEF i, j, k, l
<1>4. l + (i + 1) - 1 <= k /\ l + i - 1 <= k /\ l = k - n
  BY <1>1, <1>2, OneLess
<1> QED BY <1>2, <1>4

LEMMA VisitOneGoesOn ==
  ASSUME NEW c \in Nat, NEW s \in Service, NEW r \in Place, NEW body \in {"clear", "touch", "end"},
         NEW time \in Nat, c <= time, NEW moving, NEW n \in Nat \ {0}, SeenSoFar(s, r, body, time, c, n - 1)
  PROVE  LET e == VisitOne(r, body, time, moving)
         IN  e \in Place /\ SeenSoFar(s, e, body, time, c, n)
<1> DEFINE e == VisitOne(r, body, time, moving)
           t == r.s.trackers[r.i].trig
           g == Visit(r.s, t, body, time, moving)
           v == Vanish(r.s, t, time)
<1>0. /\ Fine(r.s, c) /\ Kept(s, r.s) /\ Tracked(r.s) \subseteq Tracked(s)
      /\ r.i \in Nat \ {0} /\ r.s \in Service
      /\ Len(s.trackers) \in Nat /\ Len(r.s.trackers) \in Nat /\ Len(r.s.trackers) <= Len(s.trackers)
  BY TrackedAre DEF SeenSoFar, Place
<1>1. CASE r.i > Len(r.s.trackers)
  <2>1. e = r
    BY <1>1 DEF VisitOne
  <2> QED BY <1>0, <1>1, <2>1 DEF SeenSoFar, EndedSoFar
<1>2. CASE ~(r.i > Len(r.s.trackers)) /\ t \in world.exists
  <2>1. e = [s |-> g, i |-> r.i + 1]
    BY <1>2 DEF VisitOne
  <2>2. t \in Tracked(r.s)
    BY <1>0, <1>2, TrackedAre
  <2>3. /\ Fine(g, c)
        /\ body # "end" => Kept(r.s, g) /\ SameTrigs(r.s, g)
        /\ body = "end" => Dropped(r.s, g, t) \/ (~Even(time) /\ g = r.s)
    BY <1>0, <2>2, VisitIsFine
  <2> HIDE DEF g, t
  <2>4. g \in Service /\ Len(g.trackers) \in Nat
    BY <2>3, TrackedAre DEF Fine
  <2>5. e \in Place /\ e.s = g /\ e.i = r.i + 1 /\ e.i \in Nat \ {0}
    BY <1>0, <2>1, <2>4 DEF Place
  <2>6. CASE body # "end"
    <3>1. Kept(s, g) /\ Tracked(g) = Tracked(r.s) /\ Len(g.trackers) = Len(r.s.trackers)
      BY <1>0, <2>3, <2>4, <2>6, SameTrigsTracked DEF Kept, SameTrigs
    <3> QED BY <1>0, <2>3, <2>5, <2>6, <3>1 DEF SeenSoFar
  <2>7. CASE body = "end" /\ g = r.s /\ ~Even(time)
    BY <1>0, <2>3, <2>5, <2>7 DEF SeenSoFar
  <2>8. CASE body = "end" /\ Dropped(r.s, g, t)
    <3>1. Kept(s, g) /\ Tracked(g) \subseteq Tracked(s) /\ Len(g.trackers) = Len(r.s.trackers) - 1
      BY <1>0, <2>8 DEF Kept, Dropped
    <3>2. ASSUME Even(time) PROVE EndedSoFar(s, e, n)
      <4>1. EndedSoFar(s, r, n - 1)
        BY <2>8, <3>2 DEF SeenSoFar
      <4> HIDE DEF e
      <4>2. /\ r.i \in Nat /\ Len(e.s.trackers) \in Nat /\ e.i = r.i + 1
            /\ Len(e.s.trackers) = Len(r.s.trackers) - 1
        BY <1>0, <2>4, <2>5, <3>1
      <4> QED BY <1>0, <1>2, <4>1, <4>2, EndsOneMore
    <3> QED BY <1>0, <2>3, <2>4, <2>5, <2>8, <3>1, <3>2 DEF SeenSoFar
  <2> QED BY <2>3, <2>6, <2>7, <2>8
<1>3. CASE ~(r.i > Len(r.s.trackers)) /\ t \notin world.exists
  <2>1. e = [s |-> v, i |-> r.i]
    BY <1>3 DEF VisitOne
  <2>2. t \in Tracked(r.s)
    BY <1>0, <1>3, TrackedAre
  <2>3. Fine(v, c) /\ Dropped(r.s, v, t)
    BY <1>0, <1>3, <2>2, VanishIsFine
  <2>t. ~(Tracked(s) \subseteq world.exists)
    BY <1>0, <1>3, <2>2
  <2> HIDE DEF v, t
  <2>4. v \in Service /\ Len(v.trackers) \in Nat
    BY <2>3, TrackedAre DEF Fine
  <2>5. e \in Place /\ e.s = v /\ e.i = r.i
    BY <1>0, <2>1, <2>4 DEF Place
  <2>6. Kept(s, v) /\ Tracked(v) \subseteq Tracked(s) /\ Len(v.trackers) = Len(r.s.trackers) - 1
    BY <1>0, <2>3 DEF Kept, Dropped
  <2>7. ASSUME body = "end", Even(time) PROVE EndedSoFar(s, e, n)
    <3>1. EndedSoFar(s, r, n - 1)
      BY <2>7 DEF SeenSoFar
    <3> HIDE DEF e
    <3>2. /\ r.i \in Nat /\ Len(e.s.trackers) \in Nat /\ e.i = r.i
          /\ Len(e.s.trackers) = Len(r.s.trackers) - 1
      BY <1>0, <2>4, <2>5, <2>6
    <3> QED BY <1>0, <1>3, <3>1, <3>2, EndsOneMore
  <2> QED BY <1>0, <2>3, <2>4, <2>5, <2>6, <2>7, <2>t DEF SeenSoFar
<1> QED BY <1>1, <1>2, <1>3

LEMMA HalfOf == ASSUME NEW i \in Nat, NEW j \in Nat, i + i <= j PROVE i <= j \div 2
OBVIOUS

Visited(s, e, body, time, c) ==
  /\ Fine(e, c) /\ Kept(s, e) /\ Tracked(e) \subseteq Tracked(s)
  /\ Len(e.trackers) <= Len(s.trackers)
  /\ body # "end" /\ Tracked(s) \subseteq world.exists => Tracked(e) = Tracked(s)
  /\ body = "end" /\ Even(time) => Len(e.trackers) <= Len(s.trackers) \div 2

LEMMA ForEachIsFine ==
  ASSUME NEW c \in Nat, NEW s, Fine(s, c), NEW body \in {"clear", "touch", "end"},
         NEW time \in Nat, c <= time, NEW moving
  PROVE  Visited(s, ForEach(s, body, time, moving), body, time, c)
<1> DEFINE Q == {q \in Nat \X Place : SeenSoFar(s, q[2], body, time, c, q[1])}
           L == Len(s.trackers)
           a == [s |-> s, i |-> 1]
<1>0. s \in Service /\ L \in Nat
  BY TrackedAre DEF Fine
<1>1. \A n \in Nat, x \in Place : <<n, x>> \in Q <=> SeenSoFar(s, x, body, time, c, n)
  OBVIOUS
<1> HIDE DEF Q
<1>2. <<0, a>> \in Q
  <2>1. a \in Place /\ a.s = s /\ a.i = 1
    BY <1>0 DEF Place
  <2> HIDE DEF a
  <2>2. SeenSoFar(s, a, body, time, c, 0)
    BY <1>0, <2>1, ItselfIsSame DEF SeenSoFar, EndedSoFar
  <2> QED BY <1>1, <2>1, <2>2
<1>3. ASSUME NEW n \in 1..L, NEW x \in Place, <<n - 1, x>> \in Q
      PROVE  VisitOne(x, body, time, moving) \in Place /\ <<n, VisitOne(x, body, time, moving)>> \in Q
  <2>1. n \in Nat \ {0} /\ n - 1 \in Nat
    BY <1>0
  <2>2. SeenSoFar(s, x, body, time, c, n - 1)
    BY <1>1, <1>3, <2>1
  <2>3. LET e == VisitOne(x, body, time, moving)
        IN  e \in Place /\ SeenSoFar(s, e, body, time, c, n)
    BY <1>0, <2>1, <2>2, VisitOneGoesOn
  <2> QED BY <1>1, <2>1, <2>3
<1>4. PICK x \in Place : x.s = ForEach(s, body, time, moving) /\ <<L, x>> \in Q
  <2>1. KeepsVisiting(Q, s, body, time, moving)
    BY <1>2, <1>3 DEF KeepsVisiting
  <2>2. AfterPlace(Q, L, ForEach(s, body, time, moving))
    BY <1>0, <2>1, ForEachKeeps
  <2> QED BY <2>2 DEF AfterPlace
<1>5. SeenSoFar(s, x, body, time, c, L) /\ Len(x.s.trackers) \in Nat /\ x.i \in Nat
  BY <1>0, <1>1, <1>4, TrackedAre DEF Place
<1>6. ASSUME body = "end", Even(time) PROVE Len(x.s.trackers) <= L \div 2
  <2>1. /\ Len(x.s.trackers) + x.i - 1 <= L
        /\ x.i > Len(x.s.trackers) \/ Len(x.s.trackers) = L - L
    BY <1>5, <1>6 DEF SeenSoFar, EndedSoFar
  <2>2. Len(x.s.trackers) + Len(x.s.trackers) <= L
    BY <1>0, <1>5, <2>1
  <2> QED BY <1>0, <1>5, <2>2, HalfOf
<1> QED BY <1>4, <1>5, <1>6 DEF SeenSoFar, Visited

------------------------------------------------------------------------------
(* The tick. *)

\* A trace hits finitely many living triggers.
LEMMA HitsAre ==
  ASSUME NEW hits \in Hits
  PROVE  hits \in Seq(Trigs) /\ ToSet(hits) \subseteq world.exists
<1>1. PICK h \in Overlaps : hits \in SetToSeqs(h \cap world.exists)
  BY DEF Hits
<1> DEFINE H == h \cap world.exists
           n == Cardinality(H)
<1>2. IsFiniteSet(H) /\ H \subseteq Trigs
  BY <1>1, TriggersAssumption, FS_Subset
<1>3. n \in Nat
  BY <1>2, FS_CardinalityType
<1>4. hits \in [1..n -> H]
  BY <1>1 DEF SetToSeqs
<1> HIDE DEF n, H
<1>5. hits \in [1..n -> Trigs] /\ DOMAIN hits = 1..n /\ \A i \in 1..n : hits[i] \in H
  BY <1>2, <1>4
<1>6. hits \in Seq(Trigs)
  BY <1>3, <1>5
<1>7. ToSet(hits) \subseteq H
  BY <1>5 DEF ToSet
<1> QED BY <1>6, <1>7 DEF H

WithHit(s, h) == [s EXCEPT !.hit = h]

LEMMA SetHitIsFine ==
  ASSUME NEW c \in Nat, NEW s, Fine(s, c), NEW h, h \subseteq Trigs
  PROVE  Fine(WithHit(s, h), c) /\ WithHit(s, h).last = s.last /\ WithHit(s, h).hit = h
<1> DEFINE e == [s EXCEPT !.hit = h]
<1>1. s \in Service /\ Touches(s) /\ Pushing(s, c)
  BY DEF Fine
<1>2. /\ e \in Service /\ e.trackers = s.trackers /\ e.depth = s.depth /\ e.pushes = s.pushes
      /\ e.last = s.last /\ e.hit = h
  BY <1>1 DEF Service
<1> HIDE DEF e
<1>3. Touches(e)
  BY <1>1, <1>2, TouchesKept DEF SameTouches
<1>4. Pushing(e, c)
  BY <1>1, <1>2 DEF Pushing, OnePush, PushesFit, CoolsDown, Sources
<1> QED BY <1>2, <1>3, <1>4 DEF Fine, WithHit, e

\* What a movement, or the end of a tick, makes of the list.
Updated(s, e, hits, time) ==
  /\ e.last = s.last
  /\ Even(time) =>
       IF player.alive /\ ~player.noclip THEN e.hit = ToSet(hits) /\ Tracked(e) = ToSet(hits)
       ELSE Len(e.trackers) <= Len(s.trackers) \div 2

LEMMA UpdateIsFine ==
  ASSUME NEW c \in Nat, NEW s, Fine(s, c), NEW hits \in Hits, NEW time \in Nat, c <= time, NEW moving
  PROVE  LET e == UpdateTriggerTouchList(s, hits, time, moving)
         IN  Fine(e, c) /\ Updated(s, e, hits, time)
<1>0. hits \in Seq(Trigs) /\ ToSet(hits) \subseteq world.exists /\ ToSet(hits) \subseteq Trigs
  <2>1. hits \in Seq(Trigs) /\ ToSet(hits) \subseteq world.exists
    BY HitsAre
  <2>2. \A i \in DOMAIN hits : hits[i] \in Trigs
    BY <2>1, ElementOfSeq
  <2> QED BY <2>1, <2>2 DEF ToSet
<1>1. CASE ~player.alive \/ player.noclip
  <2> DEFINE e == ForEach(s, "end", time, moving)
  <2>1. UpdateTriggerTouchList(s, hits, time, moving) = e
    BY <1>1 DEF UpdateTriggerTouchList, EndTouchAll
  <2>2. PICK body \in {"clear", "touch", "end"} : body = "end"
    OBVIOUS
  <2>3. Visited(s, ForEach(s, body, time, moving), body, time, c)
    BY ForEachIsFine
  <2>4. Fine(e, c) /\ Kept(s, e) /\ (Even(time) => Len(e.trackers) <= Len(s.trackers) \div 2)
    BY <2>2, <2>3 DEF Visited
  <2> HIDE DEF e
  <2> QED BY <1>1, <2>1, <2>4 DEF Updated, Kept
<1>2. CASE player.alive /\ ~player.noclip
  <2> DEFINE a == WithHit(s, ToSet(hits))
             b == EndUnhit(a, hits, time, moving)
             e == TouchHits(b, hits, time, moving, TRUE)
  <2>1. UpdateTriggerTouchList(s, hits, time, moving) = e
    BY <1>2 DEF UpdateTriggerTouchList, WithHit
  <2>2. Fine(a, c) /\ a.last = s.last /\ a.hit = ToSet(hits)
    BY <1>0, SetHitIsFine
  <2> HIDE DEF a
  <2>3. /\ Fine(b, c) /\ Kept(a, b)
        /\ Even(time) => Tracked(b) \subseteq ToSet(hits) \cap world.exists
    BY <2>2, EndUnhitIsFine
  <2> HIDE DEF b
  <2>4. /\ Fine(e, c) /\ Kept(b, e) /\ Tracked(e) \subseteq Tracked(b) \cup ToSet(hits)
        /\ Even(time) => ToSet(hits) \subseteq Tracked(e)
    BY <1>0, <2>3, TouchHitsIsFine
  <2> HIDE DEF e
  <2>5. e.last = s.last /\ e.hit = ToSet(hits)
    BY <2>2, <2>3, <2>4 DEF Kept
  <2> QED BY <1>2, <2>1, <2>3, <2>4, <2>5 DEF Updated
<1> QED BY <1>1, <1>2

\* Pushes are applied and cleaned up.
Push2(s, time, f) == CleanupPushEvents(ApplyPushes(s, time, f), time, f)

LEMMA PushedIsFine ==
  ASSUME NEW c \in Nat, NEW s, Fine(s, c), NEW time \in Nat, NEW f \in Nat, time - f <= c
  PROVE  LET e == Push2(s, time, f)
         IN  Fine(e, c) /\ Cooled(s, e) /\ e.hit = s.hit /\ e.trackers = s.trackers
<1> DEFINE a == ApplyPushes(s, time, f)
           e == CleanupPushEvents(a, time, f)
<1>1. s \in Service /\ Touches(s) /\ Pushing(s, c)
  BY DEF Fine
<1>2. a \in Service /\ Pushing(a, c) /\ Cooled(s, a) /\ SameTouches(s, a) /\ a.hit = s.hit
  BY <1>1, ApplyPushesFits
<1> HIDE DEF a
<1>3. e \in Service /\ Pushing(e, c) /\ Kept(a, e) /\ SameTouches(a, e)
  BY <1>2, CleanupFits
<1> HIDE DEF e
<1>4. Touches(e)
  BY <1>1, <1>2, <1>3, TouchesKept DEF SameTouches
<1> QED BY <1>2, <1>3, <1>4 DEF Fine, Cooled, Kept, SameTouches, Push2, a, e

\* Later, more has cooled down.
LEMMA FineLater ==
  ASSUME NEW c \in Nat, NEW s, Fine(s, c), NEW d \in Nat, c <= d PROVE Fine(s, d)
<1>1. s \in Service /\ PushesFit(s, c)
  BY DEF Fine, Pushing
<1>2. ASSUME NEW t \in Trigs \ CancelOnTp, s.last[t] # Never PROVE CoolsDown(s, t, d)
  <2>1. CoolsDown(s, t, c) /\ s.last[t] \in Nat /\ Cooldown[t] \in Nat
    BY <1>1, <1>2, TriggerConstants DEF PushesFit, Service
  <2>2. s.last[t] + Cooldown[t] <= c => s.last[t] + Cooldown[t] <= d
    BY <2>1
  <2> QED BY <2>1, <2>2 DEF CoolsDown
<1> QED BY <1>2 DEF Fine, Pushing, PushesFit

------------------------------------------------------------------------------
(* The invariant. *)

WorldTypes ==
  /\ world \in [exists : SUBSET Trigs, passes : SUBSET Trigs]
  /\ player \in [alive : BOOLEAN, noclip : BOOLEAN]
  /\ now \in Nat /\ phase \in {"idle", "start", "half", "whole"}
  /\ Even(now) /\ (phase = "start" => now > 0)

\* MoveTime is the least time of the pushes to come.
TriggersInv == WorldTypes /\ MoveTime \in Nat /\ Fine(svc, MoveTime)

LEMMA FineNext ==
  ASSUME NEW e, NEW c, Fine(e, c), svc' = e, MoveTime' = c, world'.exists \subseteq world.exists
  PROVE  Fine(svc, MoveTime)'
BY DEF Fine, Touches, Pushing, EventsFit, PushesFit, OneTracker, OnePush, CoolsDown, Sources, Service, Started

\* What the invariant says of times.
LEMMA TimesAre ==
  ASSUME TriggersInv
  PROVE  /\ MoveTime \in Nat /\ MoveTime <= now /\ now \in Nat /\ Even(now)
         /\ phase # "start" => MoveTime = now
         /\ phase = "start" => now - 1 = MoveTime
BY DEF TriggersInv, WorldTypes, MoveTime

\* Pushes stay cooled down in a step that changes the service.
Cools == Cooled(svc, svc')

LEMMA KeptCools ==
  ASSUME NEW s, NEW e, e.last = s.last PROVE Cooled(s, e)
BY DEF Cooled

\* A step that leaves the world and the time alone.
LEMMA SameWorldStep ==
  ASSUME TriggersInv, NEW e, Fine(e, MoveTime), svc' = e, UNCHANGED <<world, player, now, phase>>
  PROVE  TriggersInv'
<1>0. world' = world /\ player' = player /\ now' = now /\ phase' = phase
  OBVIOUS
<1>1. WorldTypes' /\ MoveTime' = MoveTime
  BY <1>0 DEF TriggersInv, WorldTypes, MoveTime
<1>2. Fine(svc, MoveTime)'
  BY <1>0, <1>1, FineNext
<1> QED BY <1>1, <1>2 DEF TriggersInv

\* A step that leaves the service alone.
LEMMA SameServiceStep ==
  ASSUME TriggersInv, svc' = svc, WorldTypes', MoveTime' \in Nat, MoveTime <= MoveTime',
         world'.exists \subseteq world.exists
  PROVE  TriggersInv' /\ Cools
<1>1. Fine(svc, MoveTime')
  BY FineLater DEF TriggersInv
<1>2. Fine(svc, MoveTime)'
  BY <1>1, FineNext
<1> QED BY <1>2 DEF TriggersInv, Cools, Cooled

LEMMA SimulateStep ==
  ASSUME TriggersInv, OnPhysicsSimulate PROVE TriggersInv' /\ Cools
<1> DEFINE e == ForEach(svc, "clear", now + 2, FALSE)
<1>0. /\ phase = "idle" /\ now' = now + 2 /\ svc' = e /\ phase' = "start" /\ world' = world
      /\ player' = [player EXCEPT !.noclip = @ /\ player.alive]
  BY DEF OnPhysicsSimulate
<1>1. PICK body \in {"clear", "touch", "end"} : body = "clear"
  OBVIOUS
<1>2. now + 2 \in Nat /\ MoveTime <= now + 2 /\ Fine(svc, MoveTime) /\ MoveTime = now /\ now \in Nat
  BY <1>0, TimesAre DEF TriggersInv
<1>3. Visited(svc, ForEach(svc, body, now + 2, FALSE), body, now + 2, MoveTime)
  BY <1>2, ForEachIsFine
<1>4. Fine(e, MoveTime) /\ Kept(svc, e)
  BY <1>1, <1>3 DEF Visited
<1> HIDE DEF e
<1>5. MoveTime' = now + 1
  BY <1>0, <1>2 DEF MoveTime
<1>6. Fine(e, now + 1)
  BY <1>2, <1>4, FineLater
<1>7. WorldTypes'
  <2>1. Even(now)'
    BY <1>0, <1>2, TimesAre DEF Even
  <2>2. player' \in [alive : BOOLEAN, noclip : BOOLEAN]
    BY <1>0 DEF TriggersInv, WorldTypes
  <2> QED BY <1>0, <1>2, <2>1, <2>2 DEF TriggersInv, WorldTypes
<1>8. Fine(svc, MoveTime)'
  BY <1>0, <1>5, <1>6, FineNext
<1>9. Cools
  BY <1>0, <1>4, KeptCools DEF Cools, Kept
<1> QED BY <1>2, <1>5, <1>7, <1>8, <1>9 DEF TriggersInv

LEMMA AlongPathStep ==
  ASSUME TriggersInv, TouchTriggersAlongPath PROVE TriggersInv' /\ Cools
<1>0. PICK hits \in Hits : svc' = TouchHits(svc, hits, MoveTime, TRUE, FALSE)
  BY DEF TouchTriggersAlongPath
<1>1. UNCHANGED <<world, player, now, phase>>
  BY DEF TouchTriggersAlongPath
<1> DEFINE e == TouchHits(svc, hits, MoveTime, TRUE, FALSE)
<1>2. hits \in Seq(Trigs) /\ MoveTime \in Nat /\ MoveTime <= MoveTime /\ Fine(svc, MoveTime)
  BY HitsAre, TimesAre DEF TriggersInv
<1>3. Fine(e, MoveTime) /\ Kept(svc, e)
  BY <1>2, TouchHitsIsFine
<1> HIDE DEF e
<1>4. svc' = e
  BY <1>0 DEF e
<1>5. Cools
  BY <1>3, <1>4, KeptCools DEF Cools, Kept
<1> QED BY <1>1, <1>3, <1>4, <1>5, SameWorldStep

LEMMA JumpStep ==
  ASSUME TriggersInv, OnStopTouchGround PROVE TriggersInv' /\ Cools
<1> DEFINE jumped == {t \in Tracked(svc) \cap world.exists : Kind[t] = "push" /\ "jump" \in Conds[t]}
           e == AddPushEvents(svc, jumped, MoveTime)
<1>0. svc' = e /\ UNCHANGED <<world, player, now, phase>>
  BY DEF OnStopTouchGround
<1>1. MoveTime \in Nat /\ MoveTime <= MoveTime /\ svc \in Service /\ Pushing(svc, MoveTime) /\ Fine(svc, MoveTime)
  BY TimesAre DEF TriggersInv, Fine
<1>2. jumped \subseteq Trigs
  BY <1>1, TrackedAre
<1> HIDE DEF jumped
<1>3. e \in Service /\ Pushing(e, MoveTime) /\ Kept(svc, e) /\ SameTouches(svc, e)
  BY <1>1, <1>2, AddPushEventsFits
<1> HIDE DEF e
<1>4. Fine(e, MoveTime)
  BY <1>1, <1>3, StaysFine
<1>5. Cools
  BY <1>0, <1>3, KeptCools DEF Cools, Kept
<1> QED BY <1>0, <1>4, <1>5, SameWorldStep

LEMMA TeleportStep ==
  ASSUME TriggersInv, OnTeleport PROVE TriggersInv' /\ Cools
<1> DEFINE e == CancelPushes(svc)
<1>0. svc' = e /\ UNCHANGED <<world, player, now, phase>>
  BY DEF OnTeleport
<1>1. MoveTime \in Nat /\ svc \in Service /\ Pushing(svc, MoveTime) /\ Fine(svc, MoveTime)
  BY TimesAre DEF TriggersInv, Fine
<1>3. e \in Service /\ Pushing(e, MoveTime) /\ Kept(svc, e) /\ SameTouches(svc, e)
  BY <1>1, CancelPushesFits
<1> HIDE DEF e
<1>4. Fine(e, MoveTime)
  BY <1>1, <1>3, StaysFine
<1>5. Cools
  BY <1>0, <1>3, KeptCools DEF Cools, Kept
<1> QED BY <1>0, <1>4, <1>5, SameWorldStep

LEMMA MovementPostStep ==
  ASSUME TriggersInv, OnProcessMovementPost PROVE TriggersInv' /\ Cools
<1>0. PICK hits \in Hits :
        svc' = CleanupPushEvents(
                 ApplyPushes(UpdateTriggerTouchList(svc, hits, MoveTime, TRUE), MoveTime, 1), MoveTime, 1)
  BY DEF OnProcessMovementPost
<1>1. /\ UNCHANGED <<world, player, now>> /\ phase \in {"start", "half"}
      /\ phase' = IF phase = "start" THEN "half" ELSE "whole"
  BY DEF OnProcessMovementPost, Moving
<1> DEFINE u == UpdateTriggerTouchList(svc, hits, MoveTime, TRUE)
           e == Push2(u, MoveTime, 1)
<1>2. /\ MoveTime \in Nat /\ MoveTime <= MoveTime /\ MoveTime - 1 <= MoveTime /\ now \in Nat /\ MoveTime <= now
      /\ Fine(svc, MoveTime)
  BY TimesAre DEF TriggersInv
<1>3. Fine(u, MoveTime) /\ u.last = svc.last
  <2>1. Fine(u, MoveTime) /\ Updated(svc, u, hits, MoveTime)
    BY <1>2, UpdateIsFine
  <2> QED BY <2>1 DEF Updated
<1>4. svc' = e
  BY <1>0 DEF Push2
<1> HIDE DEF u
<1>5. Fine(e, MoveTime) /\ Cooled(u, e)
  BY <1>2, <1>3, PushedIsFine
<1> HIDE DEF e
<1>6. Cools
  BY <1>3, <1>4, <1>5 DEF Cools, Cooled
<1>7. MoveTime' = now /\ WorldTypes'
  BY <1>1 DEF MoveTime, TriggersInv, WorldTypes, Even
<1>8. Fine(e, now)
  BY <1>2, <1>5, FineLater
<1>9. Fine(svc, MoveTime)'
  BY <1>1, <1>4, <1>7, <1>8, FineNext
<1> QED BY <1>2, <1>6, <1>7, <1>9 DEF TriggersInv

\* The end of a tick leaves the list that the player's place asks for.
Follows2 ==
  IF player.alive /\ ~player.noclip THEN Tracked(svc') = svc'.hit
  ELSE Len(svc'.trackers) <= Len(svc.trackers) \div 2

LEMMA SimulatePostStep ==
  ASSUME TriggersInv, OnPhysicsSimulatePost PROVE TriggersInv' /\ Cools /\ Follows2
<1>0. PICK hits \in Hits :
        svc' = CleanupPushEvents(
                 ApplyPushes(TouchAll(UpdateTriggerTouchList(svc, hits, now, FALSE), now, FALSE), now, 2), now, 2)
  BY DEF OnPhysicsSimulatePost
<1>1. UNCHANGED <<world, player, now>> /\ phase = "whole" /\ phase' = "idle"
  BY DEF OnPhysicsSimulatePost
<1> DEFINE u == UpdateTriggerTouchList(svc, hits, now, FALSE)
           v == ForEach(u, "touch", now, FALSE)
           e == Push2(v, now, 2)
<1>2. now \in Nat /\ now <= now /\ now - 2 <= now /\ Even(now) /\ Fine(svc, now) /\ MoveTime = now
  BY <1>1, TimesAre DEF TriggersInv
<1>3. Fine(u, now) /\ Updated(svc, u, hits, now)
  BY <1>2, UpdateIsFine
<1>4. svc' = e
  BY <1>0 DEF Push2, TouchAll
<1> HIDE DEF u
<1>5. PICK body \in {"clear", "touch", "end"} : body = "touch"
  OBVIOUS
<1>6. Visited(u, ForEach(u, body, now, FALSE), body, now, now)
  BY <1>2, <1>3, ForEachIsFine
<1>7. /\ Fine(v, now) /\ Kept(u, v) /\ Len(v.trackers) <= Len(u.trackers)
      /\ Tracked(u) \subseteq world.exists => Tracked(v) = Tracked(u)
  BY <1>5, <1>6 DEF Visited
<1> HIDE DEF v
<1>8. Fine(e, now) /\ Cooled(v, e) /\ e.hit = v.hit /\ e.trackers = v.trackers
  BY <1>2, <1>7, PushedIsFine
<1> HIDE DEF e
<1>9. Cools
  BY <1>3, <1>4, <1>7, <1>8 DEF Cools, Cooled, Updated, Kept
<1>10. Follows2
  <2>1. CASE player.alive /\ ~player.noclip
    <3>1. u.hit = ToSet(hits) /\ Tracked(u) = ToSet(hits) /\ ToSet(hits) \subseteq world.exists
      BY <1>2, <1>3, <2>1, HitsAre DEF Updated
    <3>2. Tracked(e) = Tracked(v)
      BY <1>8 DEF Tracked
    <3> QED BY <1>4, <1>7, <1>8, <2>1, <3>1, <3>2 DEF Follows2, Kept
  <2>2. CASE ~(player.alive /\ ~player.noclip)
    <3> DEFINE half == Len(svc.trackers) \div 2
    <3>1. Len(u.trackers) <= half /\ Len(v.trackers) <= Len(u.trackers)
      BY <1>2, <1>3, <1>7, <2>2 DEF Updated
    <3>2. Len(u.trackers) \in Nat /\ Len(v.trackers) \in Nat /\ half \in Int
      BY <1>2, <1>3, <1>7, TrackedAre DEF Fine
    <3> HIDE DEF half
    <3>3. Len(v.trackers) <= half
      BY <3>1, <3>2
    <3>4. Len(v.trackers) <= Len(svc.trackers) \div 2
      BY <3>3 DEF half
    <3> QED BY <1>4, <1>8, <2>2, <3>4 DEF Follows2
  <2> QED BY <2>1, <2>2
<1>11. MoveTime' = now /\ WorldTypes'
  BY <1>1 DEF MoveTime, TriggersInv, WorldTypes, Even
<1>12. Fine(svc, MoveTime)'
  BY <1>1, <1>4, <1>8, <1>11, FineNext
<1> QED BY <1>2, <1>9, <1>10, <1>11, <1>12 DEF TriggersInv

LEMMA NoMovementStep ==
  ASSUME TriggersInv, NoMovement PROVE TriggersInv' /\ Cools
<1>0. svc' = svc /\ UNCHANGED <<world, player, now>> /\ phase' = "whole"
  BY DEF NoMovement
<1>1. WorldTypes' /\ MoveTime' = now /\ now \in Nat
  BY <1>0 DEF TriggersInv, WorldTypes, MoveTime, Even
<1> QED BY <1>0, <1>1, TimesAre, SameServiceStep

LEMMA WorldStep ==
  ASSUME TriggersInv, TriggerKilled \/ FilterChanges \/ ToggleNoclip \/ DieOrSpawn
  PROVE  TriggersInv' /\ Cools
<1>0. svc' = svc /\ now' = now /\ phase' = phase
  BY DEF TriggerKilled, FilterChanges, ToggleNoclip, DieOrSpawn
<1>1. world \in [exists : SUBSET Trigs, passes : SUBSET Trigs] /\ player \in [alive : BOOLEAN, noclip : BOOLEAN]
  BY DEF TriggersInv, WorldTypes
<1>2. /\ world' \in [exists : SUBSET Trigs, passes : SUBSET Trigs] /\ world'.exists \subseteq world.exists
      /\ player' \in [alive : BOOLEAN, noclip : BOOLEAN]
  <2>1. CASE TriggerKilled
    BY <1>1, <2>1 DEF TriggerKilled
  <2>2. CASE FilterChanges
    BY <1>1, <2>2, TriggersAssumption DEF FilterChanges
  <2>3. CASE ToggleNoclip
    BY <1>1, <2>3 DEF ToggleNoclip
  <2>4. CASE DieOrSpawn
    BY <1>1, <2>4 DEF DieOrSpawn
  <2> QED BY <2>1, <2>2, <2>3, <2>4
<1>3. WorldTypes' /\ MoveTime' = MoveTime
  BY <1>0, <1>2 DEF TriggersInv, WorldTypes, MoveTime, Even
<1> QED BY <1>0, <1>2, <1>3, TimesAre, SameServiceStep

\* Nobody in the slot.
NoTriggers ==
  [trackers |-> <<>>, pushes |-> {}, depth |-> [t \in Trigs |-> 0], last |-> [t \in Trigs |-> Never], hit |-> {}]

LEMMA NoTriggersAreFine ==
  ASSUME NEW c \in Nat, NEW s, s = NoTriggers PROVE Fine(s, c) /\ \A t \in Trigs : s.last[t] = Never
<1>1. /\ s.trackers = <<>> /\ s.pushes = {} /\ s.depth = [t \in Trigs |-> 0]
      /\ s.last = [t \in Trigs |-> Never] /\ s.hit = {}
  BY DEF NoTriggers
<1>2. s \in Service
  <2>1. <<>> \in Seq(TrackerType) /\ [t \in Trigs |-> 0] \in [Trigs -> Int]
        /\ [t \in Trigs |-> Never] \in [Trigs -> Nat \cup {Never}]
    OBVIOUS
  <2> QED BY <2>1 DEF NoTriggers, Service
<1>3. Touches(s)
  BY <1>1 DEF Touches, OneTracker, EventsFit, Started
<1>4. Pushing(s, c)
  BY <1>1 DEF Pushing, OnePush, PushesFit
<1> QED BY <1>1, <1>2, <1>3, <1>4 DEF Fine

LEMMA ResetStep ==
  ASSUME TriggersInv, Reset PROVE TriggersInv' /\ \A t \in Trigs : svc'.last[t] = Never
<1>0. /\ svc' = [svc EXCEPT !.trackers = <<>>, !.pushes = {}, !.depth = [t \in Trigs |-> 0],
                            !.last = [t \in Trigs |-> Never], !.hit = {}]
      /\ player' = [alive |-> TRUE, noclip |-> FALSE] /\ UNCHANGED <<world, now, phase>>
  BY DEF Reset
<1>1. svc \in Service
  BY DEF TriggersInv, Fine
<1>2. svc' = NoTriggers
  BY <1>0, <1>1 DEF NoTriggers, Service
<1>3. WorldTypes' /\ MoveTime' = MoveTime /\ MoveTime \in Nat
  BY <1>0 DEF TriggersInv, WorldTypes, MoveTime, Even
<1>4. Fine(svc', MoveTime) /\ \A t \in Trigs : svc'.last[t] = Never
  BY <1>2, <1>3, NoTriggersAreFine
<1>5. Fine(svc, MoveTime)'
  BY <1>0, <1>3, <1>4, FineNext
<1> QED BY <1>3, <1>4, <1>5 DEF TriggersInv

LEMMA TriggersBegin == TriggersInit => TriggersInv
<1> SUFFICES ASSUME TriggersInit PROVE TriggersInv
  OBVIOUS
<1>0. svc = NoTriggers /\ world = [exists |-> Trigs, passes |-> Trigs] /\ now = 0 /\ phase = "idle"
      /\ player = [alive |-> TRUE, noclip |-> FALSE]
  BY DEF TriggersInit, NoTriggers
<1>1. WorldTypes /\ MoveTime = 0
  BY <1>0 DEF WorldTypes, MoveTime, Even
<1> QED BY <1>0, <1>1, NoTriggersAreFine DEF TriggersInv

\* What one step does: the invariant, cooled pushes, and the list at the end of a tick.
LEMMA TriggersStep ==
  ASSUME TriggersInv, [TriggersNext]_triggersVars
  PROVE  /\ TriggersInv'
         /\ Cools \/ \A t \in Trigs : svc'.last[t] = Never
         /\ phase = "whole" /\ phase' = "idle" => Follows2
<1>1. CASE OnPhysicsSimulate
  BY <1>1, SimulateStep DEF OnPhysicsSimulate
<1>2. CASE OnProcessMovementPost
  BY <1>2, MovementPostStep DEF OnProcessMovementPost
<1>3. CASE NoMovement
  BY <1>3, NoMovementStep DEF NoMovement
<1>4. CASE OnPhysicsSimulatePost
  BY <1>4, SimulatePostStep
<1>5. CASE TouchTriggersAlongPath
  BY <1>5, AlongPathStep DEF TouchTriggersAlongPath
<1>6. CASE OnStopTouchGround
  BY <1>6, JumpStep DEF OnStopTouchGround
<1>7. CASE OnTeleport
  BY <1>7, TeleportStep DEF OnTeleport
<1>8. CASE TriggerKilled \/ FilterChanges \/ ToggleNoclip \/ DieOrSpawn
  BY <1>8, WorldStep DEF TriggerKilled, FilterChanges, ToggleNoclip, DieOrSpawn
<1>9. CASE Reset
  BY <1>9, ResetStep DEF Reset
<1>10. CASE UNCHANGED triggersVars
  <2>1. svc' = svc /\ UNCHANGED <<world, player, now, phase>>
    BY <1>10 DEF triggersVars
  <2>2. Fine(svc, MoveTime)
    BY DEF TriggersInv
  <2>3. TriggersInv'
    BY <2>1, <2>2, SameWorldStep
  <2> QED BY <2>1, <2>3, KeptCools DEF Cools
<1> QED BY <1>1, <1>2, <1>3, <1>4, <1>5, <1>6, <1>7, <1>8, <1>9, <1>10 DEF TriggersNext, Tick

\* Whatever the player meets and the map logic does, what is remembered of his
\* triggers fits what was fired, and what was pushed is remembered until it cooled down.
THEOREM TriggersInvariant == TriggersSpec => []TriggersInv
<1>1. TriggersInv /\ [TriggersNext]_triggersVars => TriggersInv'
  BY TriggersStep
<1> QED BY <1>1, TriggersBegin, PTL DEF TriggersSpec

\* The list has one tracker for each trigger and the pushes one event, on which
\* the loops of the service rely.
THEOREM TriggerTypes == TriggersSpec => []TriggersTypeOK
<1>1. TriggersInv => TriggersTypeOK
  BY DEF TriggersInv, WorldTypes, TriggersTypeOK, Fine, Service, TrackerType, PushType, Touches, Pushing,
         OneEach, OneTracker, OnePush
<1> QED BY <1>1, TriggersInvariant, PTL

\* Starts and ends of a living trigger's events alternate, for any triggers, filters
\* and traces.
THEOREM EventsAlternate == TriggersSpec => []EventsAreSymmetric
<1>1. TriggersInv => EventsAreSymmetric
  BY DEF TriggersInv, WorldTypes, EventsAreSymmetric, Fine, Touches, EventsFit
<1> QED BY <1>1, TriggersInvariant, PTL

\* No trigger pushes again before its cooldown, unless a teleport may cancel it.
THEOREM PushesCoolDown == TriggersSpec => PushCooldown
<1> DEFINE A == \A t \in Trigs \ CancelOnTp :
                  svc'.last[t] = svc.last[t] \/ Never \in {svc.last[t], svc'.last[t]}
                  \/ svc'.last[t] >= svc.last[t] + Cooldown[t]
<1>1. TriggersInv /\ [TriggersNext]_triggersVars => A
  BY TriggersStep DEF Cools, Cooled
<1> HIDE DEF A
<1>2. TriggersSpec => [][A]_triggersVars
  BY <1>1, TriggersInvariant, PTL DEF TriggersSpec
<1> QED BY <1>2 DEF PushCooldown, A

\* At the end of a tick a living player touches what was hit, and one who is dead
\* or in noclip at most half of what he touched before.
THEOREM ListFollowsPlayer == TriggersSpec => TouchListFollowsPlayer
<1> DEFINE A == phase = "whole" /\ phase' = "idle" =>
                  IF player.alive /\ ~player.noclip THEN Tracked(svc') = svc'.hit
                  ELSE Len(svc'.trackers) <= Len(svc.trackers) \div 2
<1>1. TriggersInv /\ [TriggersNext]_triggersVars => A
  BY TriggersStep DEF Follows2
<1> HIDE DEF A
<1>2. TriggersSpec => [][A]_triggersVars
  BY <1>1, TriggersInvariant, PTL DEF TriggersSpec
<1> QED BY <1>2 DEF TouchListFollowsPlayer, A
==============================================================================
