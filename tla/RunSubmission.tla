---------------------------- MODULE RunSubmission ----------------------------
(***************************************************************************)
(* RunSubmission: what becomes of a finished run.  The submission waits for *)
(* the API to name the run, inserts it in the local database, and writes    *)
(* its replay under the name the run ends up with; the replay is recorded   *)
(* for four more seconds and serialized on a thread.  The answers come in   *)
(* any order, or never, and two timeouts bound the wait.                    *)
(*                                                                          *)
(* A run is named "local" (localUUID) until it takes the API's name, "api". *)
(* The database and the file worker execute their queues in order.          *)
(***************************************************************************)
EXTENDS Naturals, Sequences, SequencesExt

CONSTANTS
  Runs,        \* the finished runs
  None,
  Results,     \* what SubmitRecord can return: "refused", "queued", "submitted"
  Styled,      \* whether runs can have styles
  Leaves,      \* whether players leave
  MapChanges,  \* whether the map changes
  Fails        \* what can fail: "insert" and "update" of a row

ASSUME SubmissionAssumption ==
  /\ None \notin Runs
  /\ Results \subseteq {"refused", "queued", "submitted"}
  /\ {Styled, Leaves, MapChanges} \subseteq BOOLEAN
  /\ Fails \subseteq {"insert", "update"}

VARIABLES
  submissions,  \* the static vector of submissions, as the runs they are of
  sub,          \* sub[r]: the fields of the submission of r, or None
  api,          \* what became of the record sent to the API
  replay,       \* the recorder of r, up to its serialization
  dbQueue, dbResults, rows,   \* transactions, their outcomes, the Times table
  ioQueue, files,             \* AsyncFileIO tasks, the replay files
  \* auxiliary: inserts queued, AnnounceRun calls, local at creation, deleted by Clear
  inserts, announced, wanted, cleared

dbVars == <<dbQueue, dbResults, rows>>
ioVars == <<ioQueue, files>>
auxVars == <<inserts, announced, wanted, cleared>>
vars == <<submissions, sub, api, replay, dbVars, ioVars, auxVars>>

UUIDs == {"local", "api"}

\* acked: the record id of the API's answer, if it came and if it has one.
Sub == [global : BOOLEAN, local : BOOLEAN, styled : BOOLEAN, pendingQueued : BOOLEAN,
        replayReady : BOOLEAN, acked : {"no", "empty", "id"}, finalized : BOOLEAN,
        runAnnounced : BOOLEAN, localSubmitted : BOOLEAN, localReceived : BOOLEAN,
        finalUUID : UUIDs,
        age : 0..2]   \* timeouts passed: timeout, then announcementTimeout

ASSUME NoneAssumption == None \notin Sub /\ None \notin UUIDs

Transaction == [op : {"insert", "update"}, run : Runs, uuid : UUIDs, asks : BOOLEAN]
Task        == [op : {"write", "rename"}, run : Runs, uuid : UUIDs]

TypeOK ==
  /\ submissions \in Seq(Runs)
  /\ sub \in [Runs -> Sub \cup {None}]
  /\ api \in [Runs -> {"idle", "queued", "sent", "answered", "lost"}]
  /\ replay \in [Runs -> {"none", "breather", "serializing", "done", "toFile", "onDisk"}]
  /\ dbQueue \in Seq(Transaction)
  /\ dbResults \in Seq([run : Runs, ok : BOOLEAN])
  /\ rows \in [Runs -> UUIDs \cup {None}]
  /\ ioQueue \in Seq(Task)
  /\ files \in [Runs -> SUBSET UUIDs]
  /\ inserts \in [Runs -> Nat]
  /\ announced \in [Runs -> Nat]
  /\ wanted \in [Runs -> BOOLEAN]
  /\ cleared \subseteq Runs

Init ==
  /\ submissions = <<>>
  /\ sub = [r \in Runs |-> None]
  /\ api = [r \in Runs |-> "idle"]
  /\ replay = [r \in Runs |-> "none"]
  /\ dbQueue = <<>> /\ dbResults = <<>> /\ rows = [r \in Runs |-> None]
  /\ ioQueue = <<>> /\ files = [r \in Runs |-> {}]
  /\ inserts = [r \in Runs |-> 0]
  /\ announced = [r \in Runs |-> 0]
  /\ wanted = [r \in Runs |-> FALSE]
  /\ cleared = {}

Alive(r) == sub[r] # None

------------------------------------------------------------------------------
(* Finalizing and inserting, as functions of a submission's fields. *)

\* SubmitLocal, on the fields: a styled run will get no answer.
Submitted(s) == [s EXCEPT !.localSubmitted = TRUE, !.local = s.local /\ ~s.styled]
Insert(r, s, u) == [op |-> "insert", run |-> r, uuid |-> u, asks |-> ~s.styled]

\* TryFinalize goes through once there is nothing to wait for.
Finalizes_NoTimeout(s) ==
  ~s.finalized /\ (s.global => s.acked # "no" \/ s.pendingQueued)  \* mutant
Finalizes(s) ==
  /\ ~s.finalized
  /\ s.global => s.acked # "no" \/ s.age >= 1 \/ s.pendingQueued

FinalUUID(s) == IF s.acked = "id" THEN "api" ELSE s.finalUUID
Inserts_Again(s) == Finalizes(s) /\ s.local  \* mutant
Inserts(s)   == Finalizes(s) /\ s.local /\ ~s.localSubmitted
TryFinalize(s) ==
  IF ~Finalizes(s) THEN s
  ELSE LET t == [s EXCEPT !.finalized = TRUE, !.finalUUID = FinalUUID(s)]
       IN  IF Inserts(s) THEN Submitted(t) ELSE t

\* The insert that TryFinalize of the submission s of r queues, if any.
FinalInsert(r, s) == IF Inserts(s) THEN <<Insert(r, s, FinalUUID(s))>> ELSE <<>>

------------------------------------------------------------------------------
(* RunSubmission::Create, at the end of a run. *)

\* The fields of the new submission, and what becomes of its record.
Created(result, local, styled) ==
  [global |-> result # "refused", local |-> local, styled |-> styled,
   pendingQueued |-> result = "queued", replayReady |-> FALSE, acked |-> "no",
   finalized |-> FALSE, runAnnounced |-> FALSE, localSubmitted |-> FALSE,
   localReceived |-> FALSE, finalUUID |-> "local", age |-> 0]
RecordBecomes == [refused |-> "lost", queued |-> "queued", submitted |-> "sent"]

Create(r) ==
  /\ replay[r] = "none" /\ ~Alive(r) /\ api[r] = "idle"
  /\ submissions' = Append(submissions, r)
  /\ replay' = [replay EXCEPT ![r] = "breather"]
  /\ \E result \in Results, local \in BOOLEAN, styled \in (IF Styled THEN BOOLEAN ELSE {FALSE}) :
       LET s == Created(result, local, styled)
           now == result = "refused" /\ local
       IN  /\ sub' = [sub EXCEPT ![r] = IF now THEN Submitted(s) ELSE s]
           /\ dbQueue' = IF now THEN Append(dbQueue, Insert(r, s, "local")) ELSE dbQueue
           /\ inserts' = [inserts EXCEPT ![r] = IF now THEN 1 ELSE 0]
           /\ api' = [api EXCEPT ![r] = RecordBecomes[result]]
           /\ wanted' = [wanted EXCEPT ![r] = local]
  /\ UNCHANGED <<dbResults, rows, ioVars, announced, cleared>>

\* The queued record is sent on the next frame, or not at all when the
\* handshake is still not completed by then.
SendQueued(r) ==
  /\ api[r] = "queued"
  /\ \E connected \in BOOLEAN : api' = [api EXCEPT ![r] = IF connected THEN "sent" ELSE "lost"]
  /\ UNCHANGED <<submissions, sub, replay, dbVars, ioVars, auxVars>>

\* OnAPIResponse before the submission is finalized: a replay already on its
\* way to the disk is renamed, and TryFinalize follows.
EarlyAnswer(r, s) ==
  LET renames == s.replayReady /\ s.acked = "id" /\ s.finalUUID # "api"
      t == IF renames THEN [s EXCEPT !.finalUUID = "api"] ELSE s
  IN  /\ ioQueue' = IF renames THEN Append(ioQueue, [op |-> "rename", run |-> r, uuid |-> "api"])
                    ELSE ioQueue
      /\ sub' = [sub EXCEPT ![r] = TryFinalize(t)]
      /\ dbQueue' = dbQueue \o FinalInsert(r, t)
      /\ inserts' = [inserts EXCEPT ![r] = @ + Len(FinalInsert(r, t))]

LateAnswer_KeepsRow(r, s) ==  \* mutant
  /\ sub' = [sub EXCEPT ![r] = [s EXCEPT !.finalUUID = FinalUUID(s)]]
  /\ ioQueue' = Append(ioQueue, [op |-> "rename", run |-> r, uuid |-> FinalUUID(s)])
  /\ UNCHANGED <<dbQueue, inserts>>

\* DoLateAPIResponse: the file and the row already have the local name.
LateAnswer(r, s) ==
  IF s.acked # "id"
  THEN sub' = [sub EXCEPT ![r] = s] /\ UNCHANGED <<ioQueue, dbQueue, inserts>>
  ELSE /\ sub' = [sub EXCEPT ![r] = [s EXCEPT !.finalUUID = "api"]]
       /\ ioQueue' = Append(ioQueue, [op |-> "rename", run |-> r, uuid |-> "api"])
       /\ dbQueue' = IF s.localSubmitted
                     THEN Append(dbQueue, [op |-> "update", run |-> r, uuid |-> "api", asks |-> FALSE])
                     ELSE dbQueue
       /\ UNCHANGED inserts

\* The API's answer; nobody is left to take it when the submission is gone.
ApiAnswers(r) ==
  /\ api[r] = "sent"
  /\ api' = [api EXCEPT ![r] = "answered"]
  /\ IF ~Alive(r) THEN UNCHANGED <<sub, ioQueue, dbQueue, inserts>>
     ELSE \E id \in {"empty", "id"} :
            LET s == [sub[r] EXCEPT !.acked = id, !.pendingQueued = FALSE]
            IN  IF s.finalized THEN LateAnswer(r, s) ELSE EarlyAnswer(r, s)
  /\ UNCHANGED <<submissions, replay, dbResults, rows, files, announced, wanted, cleared>>

------------------------------------------------------------------------------
(* The replay. *)

\* CheckRecorders: the breather is over, a thread takes the recorder.
EndBreather(r) ==
  /\ replay[r] = "breather"
  /\ replay' = [replay EXCEPT ![r] = "serializing"]
  /\ UNCHANGED <<submissions, sub, api, dbVars, ioVars, auxVars>>

\* OnReplayReady (WriteToMemory always succeeds): the write is queued under the name known by now.
ReplayReady(r) ==
  /\ replay[r] = "serializing"
  /\ replay' = [replay EXCEPT ![r] = "done"]
  /\ IF ~Alive(r) THEN UNCHANGED <<sub, ioQueue, dbQueue, inserts>>
     ELSE LET s == [sub[r] EXCEPT !.replayReady = TRUE, !.finalUUID = FinalUUID(sub[r])]
          IN  /\ ioQueue' = Append(ioQueue, [op |-> "write", run |-> r, uuid |-> s.finalUUID])
              /\ sub' = [sub EXCEPT ![r] = TryFinalize(s)]
              /\ dbQueue' = dbQueue \o FinalInsert(r, s)
              /\ inserts' = [inserts EXCEPT ![r] = @ + Len(FinalInsert(r, s))]
  /\ UNCHANGED <<submissions, api, dbResults, rows, files, announced, wanted, cleared>>

\* The player leaves during the breather: a thread writes the replay itself,
\* under the local name, and calls nobody back.
OnClientDisconnect(r) ==
  /\ Leaves
  /\ replay[r] = "breather"
  /\ replay' = [replay EXCEPT ![r] = "toFile"]
  /\ UNCHANGED <<submissions, sub, api, dbVars, ioVars, auxVars>>

WriteToFile(r) ==
  /\ replay[r] = "toFile"
  /\ replay' = [replay EXCEPT ![r] = "onDisk"]
  /\ files' = [files EXCEPT ![r] = @ \cup {"local"}]
  /\ UNCHANGED <<submissions, sub, api, dbVars, ioQueue, auxVars>>

------------------------------------------------------------------------------
(* The database and the file worker, and the frame's callbacks. *)

DbExecutes ==
  /\ dbQueue # <<>>
  /\ LET t == Head(dbQueue)
     IN  \E ok \in (IF t.op \in Fails THEN BOOLEAN ELSE {TRUE}) :
           /\ rows' = IF ok /\ (t.op = "insert" \/ rows[t.run] = "local")
                      THEN [rows EXCEPT ![t.run] = t.uuid] ELSE rows
           /\ dbResults' = IF t.asks THEN Append(dbResults, [run |-> t.run, ok |-> ok]) ELSE dbResults
  /\ dbQueue' = Tail(dbQueue)
  /\ UNCHANGED <<submissions, sub, api, replay, ioVars, auxVars>>

\* onSuccess and onFailure of SubmitLocal.
DbAnswers ==
  /\ dbResults # <<>>
  /\ LET a == Head(dbResults)
     IN  sub' = IF ~Alive(a.run) THEN sub
                ELSE IF a.ok THEN [sub EXCEPT ![a.run].localReceived = TRUE]
                ELSE [sub EXCEPT ![a.run].local = FALSE]
  /\ dbResults' = Tail(dbResults)
  /\ UNCHANGED <<submissions, api, replay, dbQueue, rows, ioVars, auxVars>>

\* A rename of a file that is not there fails, and nothing follows.
FileTask ==
  /\ ioQueue # <<>>
  /\ LET t == Head(ioQueue)
     IN  files' = IF t.op = "write" THEN [files EXCEPT ![t.run] = @ \cup {t.uuid}]
                  ELSE IF "local" \in files[t.run]
                  THEN [files EXCEPT ![t.run] = (@ \ {"local"}) \cup {t.uuid}]
                  ELSE files
  /\ ioQueue' = Tail(ioQueue)
  /\ UNCHANGED <<submissions, sub, api, replay, dbVars, auxVars>>

------------------------------------------------------------------------------
(* CheckAll: every frame, every submission in order. *)

WaitsLocal(s)  == s.local /\ ~s.localReceived
WaitsGlobal(s) == s.global /\ s.acked = "no"
Waiting(s)     == WaitsLocal(s) \/ WaitsGlobal(s)

Announces_WhenAnswered(s) == ~s.runAnnounced /\ ~Waiting(s)  \* mutant
Announces(s) ==
  /\ ~s.runAnnounced
  /\ ~Waiting(s) \/ (~s.pendingQueued /\ s.finalized /\ s.age = 2)

Collects_BeforeReplay(s) ==  \* mutant
  ~s.pendingQueued /\ s.finalized /\ (~Waiting(s) \/ s.age = 2)
Collects(s) ==
  /\ ~s.pendingQueued /\ s.finalized /\ s.replayReady
  /\ ~Waiting(s) \/ s.age = 2

CheckAll ==
  /\ submissions # <<>>
  /\ LET checked == [r \in Runs |-> IF Alive(r) THEN TryFinalize(sub[r]) ELSE None]
         kept(r) == ~Collects(checked[r])
         queued  == FlattenSeq([i \in DOMAIN submissions |->
                                  FinalInsert(submissions[i], sub[submissions[i]])])
         remaining == FlattenSeq([i \in DOMAIN submissions |->
                                    IF kept(submissions[i]) THEN <<submissions[i]>> ELSE <<>>])
     IN  /\ submissions' = remaining
         /\ sub' = [r \in Runs |->
                      IF ~Alive(r) \/ ~kept(r) THEN None
                      ELSE [checked[r] EXCEPT !.runAnnounced = @ \/ Announces(checked[r])]]
         /\ announced' = [r \in Runs |-> IF Alive(r) /\ Announces(checked[r])
                                         THEN announced[r] + 1 ELSE announced[r]]
         /\ dbQueue' = dbQueue \o queued
         /\ inserts' = [r \in Runs |-> IF Alive(r) THEN inserts[r] + Len(FinalInsert(r, sub[r]))
                                       ELSE inserts[r]]
  /\ UNCHANGED <<api, replay, dbResults, rows, ioVars, wanted, cleared>>

\* A timeout passes for the submission of r; those created earlier come first.
TimePasses(r) ==
  /\ Alive(r) /\ sub[r].age < 2
  /\ \A i, j \in DOMAIN submissions :
       submissions[j] = r /\ i < j => sub[submissions[i]].age > sub[r].age
  /\ sub' = [sub EXCEPT ![r].age = @ + 1]
  /\ UNCHANGED <<submissions, api, replay, dbVars, ioVars, auxVars>>

\* ActivateServer: Clear, and the recorders are reset.
MapChange ==
  /\ MapChanges
  /\ submissions # <<>>
  /\ submissions' = <<>>
  /\ sub' = [r \in Runs |-> None]
  /\ replay' = [r \in Runs |-> IF replay[r] = "breather" THEN "done" ELSE replay[r]]
  /\ cleared' = cleared \cup ToSet(submissions)
  /\ UNCHANGED <<api, dbVars, ioVars, inserts, announced, wanted>>

------------------------------------------------------------------------------
Next ==
  \/ \E r \in Runs :
       \/ Create(r) \/ SendQueued(r) \/ ApiAnswers(r)
       \/ EndBreather(r) \/ ReplayReady(r)
       \/ OnClientDisconnect(r) \/ WriteToFile(r)
       \/ TimePasses(r)
  \/ DbExecutes \/ DbAnswers \/ FileTask
  \/ CheckAll \/ MapChange

Spec == Init /\ [][Next]_vars

\* The server keeps running frames and its clock advances; the recorder's
\* breather ends, its thread finishes, and a queued callback runs.  Nothing is
\* asked of the API or of the database: they may never answer.
Fairness ==
  /\ WF_vars(CheckAll)
  /\ \A r \in Runs : /\ WF_vars(TimePasses(r))
                     /\ WF_vars(SendQueued(r))
                     /\ WF_vars(EndBreather(r))
                     /\ WF_vars(ReplayReady(r))
LiveSpec == Spec /\ Fairness

------------------------------------------------------------------------------
(* Properties *)

Pending(r) ==
  \/ \E i \in DOMAIN dbQueue : dbQueue[i].run = r
  \/ \E i \in DOMAIN ioQueue : ioQueue[i].run = r

\* Once nothing about a run is queued, the run has the same name in the
\* database and on the disk, whichever of the API's answer, the replay and the
\* timeouts came first: the replay of a record is found by the record's id.
NamesAgreeFor(r) == ~Pending(r) /\ rows[r] # None /\ files[r] # {} => files[r] = {rows[r]}

\* NamesAgree leaves out the replays written because their player left.
NamesAgree == \A r \in Runs : replay[r] # "onDisk" => NamesAgreeFor(r)

\* A run is inserted at most once, by Start or by one of the three callers of
\* TryFinalize.
InsertedOnce == \A r \in Runs : inserts[r] <= 1

\* A submission that CheckAll deletes left nothing undone: its run was
\* announced once, inserted if it could be, and its replay given to the disk.
CollectedRunsAreSaved ==
  \A r \in Runs :
    ~Alive(r) /\ api[r] # "idle" /\ r \notin cleared =>
      /\ announced[r] = 1
      /\ inserts[r] = IF wanted[r] THEN 1 ELSE 0
      /\ files[r] # {} \/ \E i \in DOMAIN ioQueue : ioQueue[i].run = r /\ ioQueue[i].op = "write"

\* Unless its record was queued for the API, every finished run is announced,
\* even if nobody answers or until the map changes, and no submission whose
\* replay is written stays forever.
SubmissionsEnd ==
  \A r \in Runs :
    /\ (Alive(r) /\ ~sub[r].pendingQueued) ~> (announced[r] > 0 \/ r \in cleared)
    /\ (Alive(r) /\ sub[r].replayReady /\ ~sub[r].pendingQueued) ~> ~Alive(r)

\* Every run the database can take is given to it, unless the map changes.
LocalRunsAreInserted ==
  \A r \in Runs : (Alive(r) /\ wanted[r]) ~> (inserts[r] > 0 \/ r \in cleared)

==============================================================================
