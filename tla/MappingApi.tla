------------------------------ MODULE MappingApi ------------------------------
(***************************************************************************)
(* The mapping API: the courses a map declares, the triggers its entities   *)
(* spawn at every round, and what round_start makes of them.  Courses live  *)
(* in the slots of a fixed vector, g_sortedCourses holds pointers to slots. *)
(*                                                                          *)
(* A map is data: the version it was compiled with, its course descriptors  *)
(* and its triggers.  A trigger without a type, on a map without the        *)
(* mapping API, is recognised by what its name matches, here named.         *)
(* Positions, angles, names of files and messages are left out.             *)
(***************************************************************************)
EXTENDS Integers, Sequences, SequencesExt, FiniteSets, FiniteSetsExt

CONSTANTS
  Maps,         \* the maps of the server
  NoMap,        \* before the first one
  Version,      \* Version[m]: "none" (not compiled with the API), "good" or "bad"
  Descriptors,  \* Descriptors[m]: the course entities of m, a sequence
  Entities,     \* Entities[m]: the triggers of m in the order they spawn, a sequence
  BonusName,    \* BonusName[n]: the course made up for the bonus n
  MaxCourses,   \* BHOP_MAX_COURSE_COUNT
  MaxNum        \* BHOP_MAX_CHECKPOINT_ZONES and BHOP_MAX_STAGE_ZONES: numbers stay below

ZoneTypes == {"start", "end", "cp", "stage", "bonus_start", "bonus_end"}
Types     == ZoneTypes \cup {"disabled", "modifier", "push", "teleport", "stop", "reset", "other"}
Patterns  == {"", "start", "end", "stop", "reset", "stage", "cp", "bonus_start", "bonus_end", "bonus_cp"}
Main      == "Main"     \* BHOP_NO_MAPAPI_COURSE_NAME and its descriptor
NoId      == <<>>       \* localDatabaseID 0

ASSUME MappingApiAssumption ==
  /\ NoMap \notin Maps
  /\ Version \in [Maps -> {"none", "good", "bad"}]
  /\ Descriptors \in [Maps -> Seq([id : Int, name : STRING, target : STRING, hammer : Int])]
  /\ Entities \in [Maps -> Seq([type : Types, named : Patterns, course : STRING, num : Int])]
  /\ \A m \in Maps : \A e \in ToSet(Entities[m]) :
       /\ e.named \in {"bonus_start", "bonus_end"} => BonusName[e.num] \in STRING
       /\ e.named = "bonus_cp" => BonusName[1] \in STRING
  /\ MaxCourses \in Nat \ {0} /\ MaxNum \in Nat

VARIABLE mapi    \* g_mappingApi and g_sortedCourses

Blank == [id |-> 0, name |-> "", target |-> "", hammer |-> -1, guid |-> 0,
          cps |-> 0, stages |-> 0, localID |-> NoId]

\* ClearCourses and Init, when a server starts.
Fresh == [loaded |-> FALSE, version |-> "none", fatal |-> FALSE, starting |-> FALSE,
          slots |-> [i \in 1..MaxCourses |-> Blank], count |-> 0, sorted |-> <<>>, triggers |-> <<>>]

CoursesOf(a) == {a.slots[i] : i \in 1..a.count}
Sorted(a)    == [k \in DOMAIN a.sorted |-> a.slots[a.sorted[k]]]

\* The pointer goes behind the last one of a course number no greater.
InsertSorted(a, i) ==
  LET before == {k \in DOMAIN a.sorted : a.slots[a.sorted[k]].id <= a.slots[i].id}
  IN  InsertAt(a.sorted, 1 + Max({0} \cup before), i)

NewCourse(a, d, guid) ==
  LET i == a.count + 1
      b == [a EXCEPT !.count = i,
                     !.slots[i] = [Blank EXCEPT !.id = d.id, !.name = d.name, !.target = d.target,
                                                !.hammer = d.hammer, !.guid = guid]]
  IN  [b EXCEPT !.sorted = InsertSorted(b, i)]

\* A descriptor that repeats an entity or a name is refused.
Refused(a, d) == a.count >= MaxCourses \/ \E c \in CoursesOf(a) : c.hammer = d.hammer \/ c.target = d.target

Mapi_CreateCourse(a, d) == IF Refused(a, d) THEN a ELSE NewCourse(a, d, a.count + 1)

FakeHammerId(n) == -200000 - n

\* "B1" and so on, when the first trigger of the bonus spawns.
Mapi_EnsureFakeBonusCourse(a, n) ==
  Mapi_CreateCourse(a, [id |-> n + 1, name |-> BonusName[n], target |-> BonusName[n], hammer |-> FakeHammerId(n)])

\* One without a maximum velocity is refused like one without a name, by which
\* such a descriptor is modelled.
Mapi_OnInfoTargetSpawn(a, d) ==
  IF d.id <= 0 \/ d.name = "" \/ d.target = "" THEN a ELSE Mapi_CreateCourse(a, d)

\* Only the worldspawn of the first spawn group counts.
OnCreateLoadingSpawnGroup(a, m) ==
  LET b == [a EXCEPT !.loaded = TRUE, !.version = Version[m]]
      after[n \in 0..Len(Descriptors[m])] ==
        IF n = 0 THEN b ELSE Mapi_OnInfoTargetSpawn(after[n - 1], Descriptors[m][n])
  IN  IF a.loaded THEN a
      ELSE CASE Version[m] = "none" ->
                  Mapi_CreateCourse(b, [id |-> 1, name |-> Main, target |-> Main, hammer |-> -1])
             [] Version[m] = "bad"  -> [b EXCEPT !.fatal = TRUE]
             [] Version[m] = "good" -> after[Len(Descriptors[m])]

Trigger(type, course, num) == [type |-> type, course |-> course, num |-> num]
AddTrigger(a, t) == [a EXCEPT !.triggers = Append(@, t)]

\* A trigger_multiple known by its name.  "stage1_start" is the start zone, and
\* every checkpoint of a bonus belongs to the first one.
NamedTrigger(a, e) ==
  CASE e.named \in {"start", "end"} -> AddTrigger(a, Trigger(e.named, Main, 0))
    [] e.named \in {"stop", "reset"} -> AddTrigger(a, Trigger(e.named, "", 0))
    [] e.named = "stage" -> AddTrigger(a, Trigger(IF e.num = 1 THEN "start" ELSE "stage", Main, e.num))
    [] e.named = "cp" -> AddTrigger(a, Trigger("cp", Main, e.num))
    [] e.named \in {"bonus_start", "bonus_end"} ->
         AddTrigger(Mapi_EnsureFakeBonusCourse(a, e.num), Trigger(e.named, BonusName[e.num], 0))
    [] e.named = "bonus_cp" ->
         AddTrigger(Mapi_EnsureFakeBonusCourse(a, 1), Trigger("cp", BonusName[1], e.num))
    [] OTHER -> a

\* Only triggers that spawn between round_prestart and round_start are kept.
Mapi_OnTriggerMultipleSpawn(a, e) ==
  IF ~a.starting THEN a ELSE
  CASE e.type = "disabled" -> IF a.version = "none" THEN NamedTrigger(a, e) ELSE a
    [] e.type \in ZoneTypes ->
         IF e.course = "" \/ (e.type \in {"cp", "stage"} /\ e.num <= 0) THEN a
         ELSE AddTrigger(a, Trigger(e.type, e.course, e.num))
    [] e.type \in {"modifier", "push"} -> AddTrigger(a, Trigger(e.type, "", 0))
    [] OTHER -> a

\* Entities of another class (trigger_push, trigger_teleport and destinations)
\* are kept whenever they spawn.
SpawnOne(a, e) == IF e.type = "other" THEN AddTrigger(a, Trigger(e.type, "", 0))
                  ELSE Mapi_OnTriggerMultipleSpawn(a, e)

OnSpawn(a, entities) ==
  LET after[n \in 0..Len(entities)] == IF n = 0 THEN a ELSE SpawnOne(after[n - 1], entities[n])
  IN  IF a.fatal THEN a ELSE after[Len(entities)]

\* Mutant: the triggers of the last round are kept.
OnRoundPreStart_Keep(a) == [a EXCEPT !.starting = TRUE]

OnRoundPreStart(a) == [a EXCEPT !.triggers = <<>>, !.starting = TRUE]

\* The numbers of the checkpoint triggers of a course, and its stage triggers by their places.
CpNums(a, c) == {t.num : t \in {t \in ToSet(a.triggers) : t.type = "cp" /\ t.course = c.target}}
StageTriggers(a, c) == {i \in DOMAIN a.triggers : a.triggers[i].type = "stage" /\ a.triggers[i].course = c.target}
InRange(n) == n >= 1 /\ n < MaxNum
MaxCp(a, c) == IF CpNums(a, c) = {} THEN 0 ELSE Max(CpNums(a, c))

Invalid(a, c) ==
  \/ \E n \in CpNums(a, c) : ~InRange(n)
  \/ \E i \in StageTriggers(a, c) : ~InRange(a.triggers[i].num)
  \/ ~(1..MaxCp(a, c) \subseteq CpNums(a, c))

\* Checkpoints are counted by number, stages by trigger.
Counted(a, c) == [c EXCEPT !.cps = MaxCp(a, c), !.stages = Cardinality(StageTriggers(a, c))]

\* CUtlVector::FastRemove: the last one moves down, and its slot keeps its bytes.
FastRemove(a, i) == [a EXCEPT !.slots[i] = a.slots[a.count], !.count = @ - 1]

\* The first invalid course is removed and ends the loop over the courses;
\* g_sortedCourses keeps its pointers.
OnRoundStart(a) ==
  LET bad   == {i \in 1..a.count : Invalid(a, a.slots[i])}
      last  == IF bad = {} THEN a.count ELSE Min(bad) - 1
      b     == [a EXCEPT !.starting = FALSE,
                         !.slots = [i \in DOMAIN a.slots |-> IF i <= last THEN Counted(a, a.slots[i]) ELSE a.slots[i]]]
  IN  IF bad = {} THEN b ELSE FastRemove(b, last + 1)

\* Each row <<map, name>> is entered into the first course of its name.
IsFirstOfName(a, i) ==
  \E k \in DOMAIN a.sorted : /\ a.sorted[k] = i
                            /\ \A j \in 1..k - 1 : Sorted(a)[j].name # a.slots[i].name

UpdateCourseLocalIDs(a, rows) ==
  LET mine(i) == {r \in rows : r[2] = a.slots[i].name}
  IN  [a EXCEPT !.slots = [i \in DOMAIN a.slots |->
         IF IsFirstOfName(a, i) /\ mine(i) # {} THEN [a.slots[i] EXCEPT !.localID = CHOOSE r \in mine(i) : TRUE]
         ELSE a.slots[i]]]

------------------------------------------------------------------------------
\* What a map's author declared, for the properties: the zones of a course.
Declares(m, c, e, type) ==
  \/ e.type = type /\ e.course = c.target
  \/ e.type = "disabled" /\ Version[m] = "none" /\ c.target = Main /\ e.named = type /\ (type = "stage" => e.num # 1)
  \/ e.type = "disabled" /\ Version[m] = "none" /\ type = "cp" /\ e.named = "bonus_cp" /\ c.target = BonusName[1]

Numbers(m, c, type) == {e.num : e \in {e \in ToSet(Entities[m]) : Declares(m, c, e, type)}}

\* Every course the triggers of m belong to numbers its checkpoints from 1.
Consistent(m) ==
  \A target \in {d.target : d \in ToSet(Descriptors[m])} \cup {Main, BonusName[1]} :
    LET nums == Numbers(m, [target |-> target], "cp") IN nums = 1..Cardinality(nums)
WellFormed == {m \in Maps : Consistent(m)}
==============================================================================
