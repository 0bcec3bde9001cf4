--------------------------- MODULE SubmissionProofs ---------------------------
(***************************************************************************)
(* Proofs about RunSubmission, for any runs and whatever is answered, lost, *)
(* late or left.                                                            *)
(*                                                                          *)
(* A run is inserted at most once: localSubmitted, which SubmitLocal sets   *)
(* and nothing clears, is set as soon as an insert is queued.  What was     *)
(* counted of a run is told by the fields of its submission, so that it can *)
(* be collected only with everything done (SavedInv).  And whatever is      *)
(* queued for a run, its row and its file settle under the name the         *)
(* submission ends up with (NamesInv).                                      *)
(***************************************************************************)
EXTENDS RunSubmission, WellFoundedInduction, SequenceTheorems, TLAPS

(* At most one insert. *)

\* The types this rests on.
FieldTypes ==
  /\ sub \in [Runs -> Sub \cup {None}]
  /\ inserts \in [Runs -> Nat]
  /\ api \in [Runs -> {"idle", "queued", "sent", "answered", "lost"}]

\* An insert was queued at most once, and only if localSubmitted tells so.
CountedOnce ==
  \A r \in Runs :
    /\ inserts[r] <= 1
    /\ Alive(r) /\ ~sub[r].localSubmitted => inserts[r] = 0
    /\ api[r] = "idle" => ~Alive(r) /\ inserts[r] = 0

OnceInv == FieldTypes /\ CountedOnce

\* SubmitLocal sets localSubmitted.
LEMMA SubmittedType ==
  ASSUME NEW s \in Sub
  PROVE  Submitted(s) \in Sub /\ Submitted(s).localSubmitted
  <1>1. (s.local /\ ~s.styled) \in BOOLEAN  OBVIOUS
  <1>2. \A b \in BOOLEAN : /\ [s EXCEPT !.localSubmitted = TRUE, !.local = b] \in Sub
                           /\ [s EXCEPT !.localSubmitted = TRUE, !.local = b].localSubmitted
    BY DEF Sub
  <1> QED  BY <1>1, <1>2 DEF Submitted

\* A submission that is finalized queues an insert once: never if one was
\* queued before, and localSubmitted is set when it does.
LEMMA FinalizesOnce ==
  ASSUME NEW r \in Runs, NEW s \in Sub
  PROVE  /\ TryFinalize(s) \in Sub
         /\ Len(FinalInsert(r, s)) \in {0, 1}
         /\ s.localSubmitted => Len(FinalInsert(r, s)) = 0 /\ TryFinalize(s).localSubmitted
         /\ Len(FinalInsert(r, s)) = 1 => TryFinalize(s).localSubmitted
  <1>1. FinalUUID(s) \in UUIDs  BY DEF FinalUUID, Sub, UUIDs
  <1>2. TryFinalize(s) \in Sub
    <2> DEFINE t == [s EXCEPT !.finalized = TRUE, !.finalUUID = FinalUUID(s)]
    <2>1. t \in Sub
      <3>1. \A u \in UUIDs : [s EXCEPT !.finalized = TRUE, !.finalUUID = u] \in Sub  BY DEF Sub
      <3> QED  BY <1>1, <3>1
    <2>2. Submitted(t) \in Sub  BY <2>1, SubmittedType
    <2> QED  BY <2>1, <2>2 DEF TryFinalize
  <1>3. FinalInsert(r, s) = IF Inserts(s) THEN <<Insert(r, s, FinalUUID(s))>> ELSE <<>>
    BY DEF FinalInsert
  <1>4. Len(FinalInsert(r, s)) = IF Inserts(s) THEN 1 ELSE 0  BY <1>3
  <1>5. s.localSubmitted => ~Inserts(s)  BY DEF Inserts
  <1>6. s.localSubmitted => TryFinalize(s).localSubmitted  BY DEF TryFinalize, Submitted, Sub
  <1>7. Inserts(s) => TryFinalize(s).localSubmitted
    BY <1>1 DEF TryFinalize, Submitted, Inserts, Sub
  <1> QED  BY <1>2, <1>4, <1>5, <1>6, <1>7

\* No run has a submission at first.
LEMMA InitOnce == Init => OnceInv
  BY DEF Init, OnceInv, FieldTypes, CountedOnce, Alive

\* A step that finalizes a submission whose localSubmitted it left alone.
LEMMA FinalStepOnce ==
  ASSUME OnceInv, NEW r \in Runs, Alive(r), NEW s \in Sub,
         s.localSubmitted = sub[r].localSubmitted,
         sub' = [sub EXCEPT ![r] = TryFinalize(s)],
         inserts' = [inserts EXCEPT ![r] = @ + Len(FinalInsert(r, s))],
         api' = api \/ api' = [api EXCEPT ![r] = "answered"]
  PROVE  OnceInv'
  <1> DEFINE n == Len(FinalInsert(r, s))
             t == TryFinalize(s)
  <1>1. /\ t \in Sub /\ n \in {0, 1}
        /\ s.localSubmitted => n = 0 /\ t.localSubmitted
        /\ n = 1 => t.localSubmitted
    BY FinalizesOnce
  <1>2. /\ sub' = [sub EXCEPT ![r] = t]
        /\ inserts' = [inserts EXCEPT ![r] = @ + n]
    OBVIOUS
  <1> HIDE DEF n, t
  <1>3. FieldTypes'  BY <1>1, <1>2 DEF OnceInv, FieldTypes
  <1>4. CountedOnce'
    <2>1. inserts[r] \in Nat /\ inserts[r] <= 1  BY DEF OnceInv, FieldTypes, CountedOnce
    <2>2. ~s.localSubmitted => inserts[r] = 0  BY DEF OnceInv, CountedOnce
    <2>3. inserts'[r] <= 1 /\ (~t.localSubmitted => inserts'[r] = 0) /\ api[r] # "idle"
      BY <1>1, <1>2, <2>1, <2>2 DEF OnceInv, FieldTypes, CountedOnce
    <2> QED  BY <1>2, <2>3 DEF OnceInv, FieldTypes, CountedOnce, Alive
  <1> QED  BY <1>3, <1>4 DEF OnceInv

\* RunSubmission::Create inserts at once when the API refused the record.
LEMMA CreateOnce == ASSUME OnceInv, NEW r \in Runs, Create(r) PROVE OnceInv'
  <1> USE DEF OnceInv
  <1>1. PICK now \in BOOLEAN, s \in Sub, a \in {"queued", "sent", "lost"} :
          /\ sub' = [sub EXCEPT ![r] = IF now THEN Submitted(s) ELSE s]
          /\ inserts' = [inserts EXCEPT ![r] = IF now THEN 1 ELSE 0]
          /\ api' = [api EXCEPT ![r] = a]
    <2>1. PICK result \in Results, local \in BOOLEAN, styled \in (IF Styled THEN BOOLEAN ELSE {FALSE}) :
            /\ sub' = [sub EXCEPT ![r] = IF result = "refused" /\ local
                                        THEN Submitted(Created(result, local, styled))
                                        ELSE Created(result, local, styled)]
            /\ inserts' = [inserts EXCEPT ![r] = IF result = "refused" /\ local THEN 1 ELSE 0]
            /\ api' = [api EXCEPT ![r] = RecordBecomes[result]]
      BY DEF Create
    <2>2. styled \in BOOLEAN  OBVIOUS
    <2>3. (result # "refused") \in BOOLEAN /\ (result = "queued") \in BOOLEAN  OBVIOUS
    <2>4. Created(result, local, styled) \in Sub  BY <2>2, <2>3 DEF Created, Sub, UUIDs
    <2>5. RecordBecomes[result] \in {"queued", "sent", "lost"}
      BY SubmissionAssumption DEF RecordBecomes
    <2>6. (result = "refused" /\ local) \in BOOLEAN  OBVIOUS
    <2> QED  BY <2>1, <2>4, <2>5, <2>6
  <1>2. Submitted(s) \in Sub /\ Submitted(s).localSubmitted  BY SubmittedType
  <1>3. FieldTypes'  BY <1>1, <1>2 DEF FieldTypes
  <1>4. CountedOnce'
    <2>1. inserts[r] = 0  BY DEF Create, CountedOnce
    <2>2. s.localSubmitted \in BOOLEAN  BY DEF Sub
    <2> QED  BY <1>1, <1>2, <2>1, <2>2 DEF FieldTypes, CountedOnce, Alive
  <1> QED  BY <1>3, <1>4

\* The API's answer may finalize the submission, or come too late to insert.
LEMMA AnswerOnce == ASSUME OnceInv, NEW r \in Runs, ApiAnswers(r) PROVE OnceInv'
  <1> USE DEF OnceInv
  <1>1. api' = [api EXCEPT ![r] = "answered"] /\ api[r] = "sent"  BY DEF ApiAnswers
  <1>2. CASE ~Alive(r)
    BY <1>1, <1>2 DEF ApiAnswers, FieldTypes, CountedOnce, Alive
  <1>3. CASE Alive(r)
    <2>0. sub[r] \in Sub  BY <1>3 DEF Alive, FieldTypes
    <2>1. PICK id \in {"empty", "id"} :
            LET s == [sub[r] EXCEPT !.acked = id, !.pendingQueued = FALSE]
            IN  IF s.finalized THEN LateAnswer(r, s) ELSE EarlyAnswer(r, s)
      BY <1>3 DEF ApiAnswers
    <2> DEFINE s == [sub[r] EXCEPT !.acked = id, !.pendingQueued = FALSE]
    <2>2. s \in Sub /\ s.localSubmitted = sub[r].localSubmitted  BY <2>0 DEF Sub
    <2> HIDE DEF s
    <2>3. CASE s.finalized
      <3>1. LateAnswer(r, s)  BY <2>1, <2>3 DEF s
      <3>2. PICK t \in Sub : sub' = [sub EXCEPT ![r] = t] /\ t.localSubmitted = s.localSubmitted
        <4>1. [s EXCEPT !.finalUUID = "api"] \in Sub
              /\ [s EXCEPT !.finalUUID = "api"].localSubmitted = s.localSubmitted
          BY <2>2 DEF Sub, UUIDs
        <4>2. sub' = [sub EXCEPT ![r] = s] \/ sub' = [sub EXCEPT ![r] = [s EXCEPT !.finalUUID = "api"]]
          BY <3>1 DEF LateAnswer
        <4> QED  BY <2>2, <4>1, <4>2
      <3>3. inserts' = inserts  BY <3>1 DEF LateAnswer
      <3> QED  BY <1>1, <1>3, <2>2, <3>2, <3>3 DEF FieldTypes, CountedOnce, Alive
    <2>4. CASE ~s.finalized
      <3>1. EarlyAnswer(r, s)  BY <2>1, <2>4 DEF s
      <3>2. PICK t \in Sub : /\ t.localSubmitted = s.localSubmitted
                             /\ sub' = [sub EXCEPT ![r] = TryFinalize(t)]
                             /\ inserts' = [inserts EXCEPT ![r] = @ + Len(FinalInsert(r, t))]
        BY <3>1, <2>2 DEF EarlyAnswer, Sub, UUIDs
      <3> QED  BY <1>1, <1>3, <2>2, <3>2, FinalStepOnce
    <2> QED  BY <2>3, <2>4
  <1> QED  BY <1>2, <1>3

\* So may the replay.
LEMMA ReplayOnce == ASSUME OnceInv, NEW r \in Runs, ReplayReady(r) PROVE OnceInv'
  <1> USE DEF OnceInv
  <1>1. UNCHANGED api  BY DEF ReplayReady
  <1>2. CASE ~Alive(r)
    BY <1>1, <1>2 DEF ReplayReady, FieldTypes, CountedOnce, Alive
  <1>3. CASE Alive(r)
    <2>0. sub[r] \in Sub  BY <1>3 DEF Alive, FieldTypes
    <2> DEFINE s == [sub[r] EXCEPT !.replayReady = TRUE, !.finalUUID = FinalUUID(sub[r])]
    <2>1. s \in Sub /\ s.localSubmitted = sub[r].localSubmitted
      BY <2>0 DEF Sub, UUIDs, FinalUUID
    <2>2. /\ sub' = [sub EXCEPT ![r] = TryFinalize(s)]
          /\ inserts' = [inserts EXCEPT ![r] = @ + Len(FinalInsert(r, s))]
      BY <1>3 DEF ReplayReady
    <2> HIDE DEF s
    <2> QED  BY <1>1, <1>3, <2>1, <2>2, FinalStepOnce
  <1> QED  BY <1>2, <1>3

\* CheckAll may finalize every submission.
LEMMA CheckAllOnce == ASSUME OnceInv, CheckAll PROVE OnceInv'
  <1> USE DEF OnceInv
  <1> DEFINE checked == [r \in Runs |-> IF Alive(r) THEN TryFinalize(sub[r]) ELSE None]
             kept(r) == ~Collects(checked[r])
  <1>1. UNCHANGED api  BY DEF CheckAll
  <1>2. sub' = [r \in Runs |->
                  IF ~Alive(r) \/ ~kept(r) THEN None
                  ELSE [checked[r] EXCEPT !.runAnnounced = @ \/ Announces(checked[r])]]
    BY DEF CheckAll
  <1>3. inserts' = [r \in Runs |-> IF Alive(r) THEN inserts[r] + Len(FinalInsert(r, sub[r]))
                                   ELSE inserts[r]]
    BY DEF CheckAll
  <1>4. ASSUME NEW r \in Runs
        PROVE  /\ sub'[r] \in Sub \cup {None} /\ inserts'[r] \in Nat /\ inserts'[r] <= 1
               /\ sub'[r] # None /\ ~sub'[r].localSubmitted => inserts'[r] = 0
               /\ api[r] = "idle" => sub'[r] = None /\ inserts'[r] = 0
    <2>1. CASE ~Alive(r)  BY <1>2, <1>3, <2>1 DEF FieldTypes, CountedOnce, Alive
    <2>2. CASE Alive(r)
      <3>1. sub[r] \in Sub  BY <2>2 DEF Alive, FieldTypes
      <3>2. checked[r] = TryFinalize(sub[r])  BY <2>2
      <3>3. PICK b : sub'[r] = None \/ sub'[r] = [TryFinalize(sub[r]) EXCEPT !.runAnnounced = @ \/ b]
        BY <1>2, <3>2
      <3>4. /\ TryFinalize(sub[r]) \in Sub
            /\ \/ sub'[r] = None
               \/ sub'[r] \in Sub /\ sub'[r].localSubmitted = TryFinalize(sub[r]).localSubmitted
        BY <3>1, <3>3, FinalizesOnce, ZenonT(60) DEF Sub
      <3> DEFINE n == Len(FinalInsert(r, sub[r]))
                 t == TryFinalize(sub[r])
      <3>5. inserts'[r] = inserts[r] + n  BY <1>3, <2>2
      <3>6. n \in {0, 1} /\ (sub[r].localSubmitted => n = 0 /\ t.localSubmitted)
            /\ (n = 1 => t.localSubmitted)
        BY <3>1, FinalizesOnce
      <3>7. sub'[r] = None \/ (sub'[r] \in Sub /\ sub'[r].localSubmitted = t.localSubmitted)
        BY <3>4
      <3> HIDE DEF n, t
      <3>8. /\ inserts[r] \in Nat /\ inserts[r] <= 1 /\ api[r] # "idle"
            /\ ~sub[r].localSubmitted => inserts[r] = 0
        BY <2>2 DEF FieldTypes, CountedOnce
      <3>9. inserts'[r] \in Nat /\ inserts'[r] <= 1
        BY <3>5, <3>6, <3>8
      <3>10. sub'[r] # None /\ ~sub'[r].localSubmitted => ~sub[r].localSubmitted /\ n = 0
        BY <3>6, <3>7
      <3>11. sub'[r] # None /\ ~sub'[r].localSubmitted => inserts'[r] = 0
        BY <3>5, <3>8, <3>10
      <3> QED  BY <3>7, <3>8, <3>9, <3>11
    <2> QED  BY <2>1, <2>2
  <1>5. FieldTypes'  BY <1>1, <1>2, <1>3, <1>4 DEF FieldTypes
  <1>6. CountedOnce'  BY <1>1, <1>4 DEF CountedOnce, Alive
  <1> QED  BY <1>5, <1>6

\* A step that leaves the inserts alone, clears no localSubmitted, creates no
\* submission and takes no record back to idle keeps the invariant.
LEMMA OtherOnce ==
  ASSUME OnceInv, FieldTypes', UNCHANGED inserts,
         \A r \in Runs : sub'[r] = None \/ (Alive(r) /\ sub'[r].localSubmitted = sub[r].localSubmitted),
         \A r \in Runs : api'[r] = "idle" => api[r] = "idle"
  PROVE  OnceInv'
  BY DEF OnceInv, CountedOnce, Alive

\* Every step keeps the invariant.
LEMMA NextOnce == OnceInv /\ [Next]_vars => OnceInv'
  <1> SUFFICES ASSUME OnceInv, [Next]_vars PROVE OnceInv'  OBVIOUS
  <1> USE DEF auxVars, ioVars, dbVars
  <1>0. FieldTypes  BY DEF OnceInv
  <1>1. ASSUME NEW r \in Runs, Create(r) PROVE OnceInv'  BY <1>1, CreateOnce
  <1>2. ASSUME NEW r \in Runs, SendQueued(r) PROVE OnceInv'
    BY <1>0, <1>2, OtherOnce DEF SendQueued, FieldTypes, Alive
  <1>3. ASSUME NEW r \in Runs, ApiAnswers(r) PROVE OnceInv'  BY <1>3, AnswerOnce
  <1>4. ASSUME NEW r \in Runs, EndBreather(r) PROVE OnceInv'
    BY <1>0, <1>4, OtherOnce DEF EndBreather, FieldTypes, Alive
  <1>5. ASSUME NEW r \in Runs, ReplayReady(r) PROVE OnceInv'  BY <1>5, ReplayOnce
  <1>6. ASSUME NEW r \in Runs, OnClientDisconnect(r) PROVE OnceInv'
    BY <1>0, <1>6, OtherOnce DEF OnClientDisconnect, FieldTypes, Alive
  <1>7. ASSUME NEW r \in Runs, WriteToFile(r) PROVE OnceInv'
    BY <1>0, <1>7, OtherOnce DEF WriteToFile, FieldTypes, Alive
  <1>8. ASSUME NEW r \in Runs, TimePasses(r) PROVE OnceInv'
    <2>1. sub[r] \in Sub /\ sub[r].age + 1 \in 0..2
      BY <1>0, <1>8 DEF TimePasses, FieldTypes, Alive, Sub
    <2>2. [sub[r] EXCEPT !.age = @ + 1] \in Sub  BY <2>1 DEF Sub
    <2> QED  BY <1>0, <1>8, <2>1, <2>2, OtherOnce DEF TimePasses, FieldTypes, Alive, Sub
  <1>9. CASE DbExecutes  BY <1>0, <1>9, OtherOnce DEF DbExecutes, FieldTypes, Alive
  <1>10. CASE DbAnswers
    <2>1. UNCHANGED <<api, inserts>>  BY <1>10 DEF DbAnswers
    <2> DEFINE a == Head(dbResults)
    <2>2. sub' = IF ~Alive(a.run) THEN sub
                 ELSE IF a.ok THEN [sub EXCEPT ![a.run].localReceived = TRUE]
                 ELSE [sub EXCEPT ![a.run].local = FALSE]
      BY <1>10 DEF DbAnswers
    <2> HIDE DEF a
    <2>3. ASSUME NEW r \in Runs
          PROVE  /\ sub'[r] \in Sub \cup {None}
                 /\ sub'[r] = None \/ (Alive(r) /\ sub'[r].localSubmitted = sub[r].localSubmitted)
      <3>1. CASE sub'[r] = sub[r]  BY <1>0, <3>1 DEF FieldTypes, Alive
      <3>2. CASE sub'[r] # sub[r]
        <4>1. a.run = r /\ Alive(r)  BY <1>0, <2>2, <3>2 DEF FieldTypes
        <4>2. sub[r] \in Sub  BY <1>0, <4>1 DEF FieldTypes, Alive
        <4> QED  BY <1>0, <2>2, <4>1, <4>2 DEF FieldTypes, Sub
      <3> QED  BY <3>1, <3>2
    <2>4. FieldTypes'
      <3>1. DOMAIN sub' = Runs /\ sub' = [r \in Runs |-> sub'[r]]  BY <1>0, <2>2 DEF FieldTypes
      <3> QED  BY <1>0, <2>1, <2>3, <3>1 DEF FieldTypes
    <2> QED  BY <2>1, <2>3, <2>4, OtherOnce
  <1>11. CASE FileTask  BY <1>0, <1>11, OtherOnce DEF FileTask, FieldTypes, Alive
  <1>12. CASE CheckAll  BY <1>12, CheckAllOnce
  <1>13. CASE MapChange  BY <1>0, <1>13, OtherOnce DEF MapChange, FieldTypes, Alive
  <1>14. CASE UNCHANGED vars  BY <1>0, <1>14, OtherOnce DEF vars, FieldTypes, Alive
  <1> QED
    BY <1>1, <1>2, <1>3, <1>4, <1>5, <1>6, <1>7, <1>8, <1>9, <1>10, <1>11, <1>12, <1>13, <1>14
    DEF Next

\* A run is inserted in the local database at most once, whichever of Start,
\* the API's answer, the replay and CheckAll comes first.
THEOREM InsertedOnceHolds == Spec => []InsertedOnce
  <1>1. OnceInv => InsertedOnce  BY DEF OnceInv, CountedOnce, InsertedOnce
  <1> QED  BY InitOnce, NextOnce, <1>1, PTL DEF Spec

------------------------------------------------------------------------------
(* FlattenSeq, by induction on the number of sequences. *)

\* A set of natural numbers has a least element: < is well founded on Nat.
LEMMA LeastNatural ==
  ASSUME NEW T, T \subseteq Nat, T # {} PROVE \E x \in T : \A y \in T : x <= y
  <1> DEFINE R == OpToRel(<, Nat)
  <1>1. IsWellFoundedOn(R, Nat)  BY NatLessThanWellFounded
  <1>2. \A x, y \in Nat : <<y, x>> \in R <=> y < x  BY DEF OpToRel
  <1> HIDE DEF R
  <1>3. PICK x \in T : \A y \in T : ~(<<y, x>> \in R)  BY <1>1, WFMin
  <1>4. \A y \in T : ~(y < x) /\ y \in Nat /\ x \in Nat  BY <1>2, <1>3
  <1> QED  BY <1>4

\* Induction up to n, over a set instead of a predicate.
LEMMA UpTo ==
  ASSUME NEW n \in Nat, NEW S, 0 \in S, \A i \in S : i \in 0..(n - 1) => i + 1 \in S
  PROVE  \A i \in 0..n : i \in S
  <1> SUFFICES ASSUME (0..n) \ S # {} PROVE FALSE  OBVIOUS
  <1>0. (0..n) \ S \subseteq Nat  OBVIOUS
  <1>1. PICK x \in (0..n) \ S : \A y \in (0..n) \ S : x <= y  BY <1>0, LeastNatural
  <1>2. x # 0 /\ x - 1 \in 0..(n - 1) /\ x - 1 \in 0..n /\ ~(x <= x - 1)  BY <1>1
  <1>3. x - 1 \in S  BY <1>1, <1>2
  <1>4. (x - 1) + 1 = x  BY <1>1
  <1> QED  BY <1>1, <1>2, <1>3, <1>4

\* f[i] is the concatenation of the first i sequences.
Flat(f, seqs, n) == f = [i \in 1..n |-> IF i = 1 THEN seqs[i] ELSE f[i - 1] \o seqs[i]]

\* The function FlattenSeq chooses exists.
LEMMA FlatExists == ASSUME NEW seqs, NEW len \in Nat PROVE \E f : Flat(f, seqs, len)
  <1> DEFINE S == {n \in Nat : \E f : Flat(f, seqs, n)}
  <1>1. 0 \in S
    <2>1. Flat([i \in 1..0 |-> <<>>], seqs, 0)  BY DEF Flat
    <2> QED  BY <2>1
  <1>2. ASSUME NEW n \in S PROVE n + 1 \in S
    <2>1. n \in Nat /\ n + 1 \in Nat  OBVIOUS
    <2>2. PICK f : Flat(f, seqs, n)  OBVIOUS
    <2> DEFINE g == [i \in 1..(n + 1) |->
                       IF i = n + 1 THEN IF i = 1 THEN seqs[i] ELSE f[n] \o seqs[i] ELSE f[i]]
    <2>3. ASSUME NEW i \in 1..(n + 1) PROVE g[i] = IF i = 1 THEN seqs[i] ELSE g[i - 1] \o seqs[i]
      <3>1. CASE i = n + 1
        <4>1. i # 1 => g[i - 1] = f[n]  BY <2>1, <3>1
        <4> QED  BY <3>1, <4>1
      <3>2. CASE i # n + 1
        <4>1. i \in 1..n /\ (i # 1 => i - 1 \in 1..n)  BY <2>1, <3>2
        <4>2. g[i] = f[i] /\ (i # 1 => g[i - 1] = f[i - 1])  BY <2>1, <3>2, <4>1
        <4>3. f[i] = IF i = 1 THEN seqs[i] ELSE f[i - 1] \o seqs[i]  BY <2>2, <4>1 DEF Flat
        <4> QED  BY <4>1, <4>2, <4>3
      <3> QED  BY <3>1, <3>2
    <2>4. g = [i \in 1..(n + 1) |-> g[i]]  OBVIOUS
    <2> HIDE DEF g
    <2>5. Flat(g, seqs, n + 1)  BY <2>3, <2>4 DEF Flat
    <2> QED  BY <2>1, <2>5
  <1>3. \A i \in 0..len : i \in S  BY <1>1, <1>2, UpTo
  <1> QED  BY <1>3

\* m tells from which of the n sequences each element of q comes.
Gathers(q, seqs, n, m) ==
  /\ m \in [1..Len(q) -> 1..n]
  /\ \A i, j \in 1..Len(q) : m[i] = m[j] => i = j
  /\ \A i \in 1..Len(q) : seqs[m[i]] = <<q[i]>>
  /\ \A j \in 1..n : seqs[j] # <<>> => \E i \in 1..Len(q) : m[i] = j

\* FlattenSeq of sequences of one element or none keeps the elements, each once: the two loops of
\* CheckAll over the vector of submissions.
LEMMA Flattened ==
  ASSUME NEW T, NEW seqs \in Seq(Seq(T)), seqs # <<>>, \A i \in 1..Len(seqs) : Len(seqs[i]) <= 1
  PROVE  FlattenSeq(seqs) \in Seq(T) /\ \E m : Gathers(FlattenSeq(seqs), seqs, Len(seqs), m)
  <1> DEFINE f == CHOOSE g : Flat(g, seqs, Len(seqs))
  <1>1. Len(seqs) \in Nat /\ Len(seqs) # 0 /\ \A i \in 1..Len(seqs) : seqs[i] \in Seq(T)  OBVIOUS
  <1>2. Flat(f, seqs, Len(seqs))  BY <1>1, FlatExists
  <1>3. FlattenSeq(seqs) = f[Len(seqs)]  BY <1>1 DEF FlattenSeq, Flat
  <1> HIDE DEF f
  <1>4. \A i \in 1..Len(seqs) : f[i] = IF i = 1 THEN seqs[i] ELSE f[i - 1] \o seqs[i]
    BY <1>2 DEF Flat
  <1> DEFINE Good(i) == f[i] \in Seq(T) /\ \E m : Gathers(f[i], seqs, i, m)
             S == {0} \cup {i \in 1..Len(seqs) : Good(i)}
  <1>5. ASSUME NEW i \in S, i \in 0..(Len(seqs) - 1) PROVE i + 1 \in S
    <2>0. i + 1 \in 1..Len(seqs) /\ i \in Nat  BY <1>1, <1>5
    <2> DEFINE p == IF i = 0 THEN <<>> ELSE f[i]
               k == i + 1
               q == p \o seqs[k]
    <2>1. p \in Seq(T) /\ \E m : Gathers(p, seqs, i, m)
      <3>1. CASE i = 0
        <4>1. Gathers(<<>>, seqs, 0, [x \in 1..0 |-> 0])  BY DEF Gathers
        <4> QED  BY <3>1, <4>1
      <3> QED  BY <3>1
    <2>2. f[k] = q
      <3>1. seqs[k] \in Seq(T)  BY <1>1, <2>0
      <3>2. <<>> \o seqs[k] = seqs[k]  BY <3>1
      <3>3. CASE i = 0  BY <1>4, <2>0, <3>2, <3>3
      <3>4. CASE i # 0
        <4>1. k # 1 /\ k - 1 = i  BY <2>0, <3>4
        <4> QED  BY <1>4, <2>0, <3>4, <4>1
      <3> QED  BY <3>3, <3>4
    <2>3. PICK m : Gathers(p, seqs, i, m)  BY <2>1
    <2>4. seqs[k] \in Seq(T) /\ Len(seqs[k]) <= 1 /\ Len(seqs[k]) \in Nat /\ Len(p) \in Nat
      BY <1>1, <2>0, <2>1
    <2> HIDE DEF p
    <2>5. CASE seqs[k] = <<>>
      <3>1. q = p  BY <2>1, <2>5
      <3>2. \A j \in 1..k : j \in 1..i \/ j = k  BY <2>0
      <3>3. m \in [1..Len(p) -> 1..k]
        <4>1. 1..i \subseteq 1..k  BY <2>0
        <4> QED  BY <2>3, <4>1 DEF Gathers
      <3>4. Gathers(p, seqs, k, m)  BY <2>3, <2>5, <3>2, <3>3 DEF Gathers
      <3> QED  BY <2>0, <2>1, <2>2, <3>1, <3>4
    <2>6. CASE seqs[k] # <<>>
      <3>1. Len(seqs[k]) = 1
        <4> DEFINE l == Len(seqs[k])
        <4>1. l \in Nat \ {0}  BY <2>4, <2>6, EmptySeq, Zenon
        <4>2. l <= 1  BY <2>4, Zenon
        <4> HIDE DEF l
        <4>3. l = 1  BY <4>1, <4>2
        <4> QED  BY <4>3 DEF l
      <3>2. PICK e \in T : seqs[k] = <<e>>
        <4>1. seqs[k][1] \in T /\ seqs[k] = <<seqs[k][1]>>  BY <2>4, <3>1
        <4> QED  BY <4>1
      <3>3. /\ q \in Seq(T) /\ Len(q) = Len(p) + 1 /\ q[Len(p) + 1] = e
            /\ \A x \in 1..Len(p) : q[x] = p[x]
        BY <2>1, <2>4, <3>2
      <3> DEFINE w == [x \in 1..(Len(p) + 1) |-> IF x = Len(p) + 1 THEN k ELSE m[x]]
      <3> HIDE DEF q
      <3>4. \A x \in 1..(Len(p) + 1) : x = Len(p) + 1 \/ x \in 1..Len(p)  BY <2>4
      <3>5. /\ m \in [1..Len(p) -> 1..i] /\ \A x \in 1..Len(p) : m[x] # k /\ m[x] \in 1..k
        <4>1. m \in [1..Len(p) -> 1..i]  BY <2>3 DEF Gathers
        <4>2. \A y \in 1..i : y # k /\ y \in 1..k  BY <2>0
        <4> QED  BY <4>1, <4>2
      <3>6. /\ w[Len(p) + 1] = k /\ \A x \in 1..Len(p) : w[x] = m[x] /\ x # Len(p) + 1
            /\ w \in [1..(Len(p) + 1) -> 1..k]
        <4>1. k \in 1..k /\ Len(p) + 1 \in 1..(Len(p) + 1) /\ \A x \in 1..Len(p) : x # Len(p) + 1
          BY <2>0, <2>4
        <4>2. \A x \in 1..Len(p) : x \in 1..(Len(p) + 1)  BY <2>4
        <4>3. \A x \in 1..(Len(p) + 1) : w[x] \in 1..k  BY <3>4, <3>5, <4>1
        <4>4. w \in [1..(Len(p) + 1) -> 1..k]  BY <4>3
        <4> QED  BY <4>1, <4>2, <4>4
      <3> HIDE DEF w
      <3>7. ASSUME NEW x \in 1..(Len(p) + 1), NEW y \in 1..(Len(p) + 1), w[x] = w[y] PROVE x = y
        <4>1. CASE x = Len(p) + 1 \/ y = Len(p) + 1  BY <3>4, <3>5, <3>6, <3>7, <4>1
        <4>2. CASE x # Len(p) + 1 /\ y # Len(p) + 1
          <5>1. x \in 1..Len(p) /\ y \in 1..Len(p)  BY <3>4, <4>2
          <5>2. m[x] = m[y]  BY <3>6, <3>7, <5>1
          <5> QED  BY <2>3, <5>1, <5>2 DEF Gathers
        <4> QED  BY <4>1, <4>2
      <3>8. \A x \in 1..(Len(p) + 1) : seqs[w[x]] = <<q[x]>>
        BY <2>3, <3>2, <3>3, <3>4, <3>6 DEF Gathers
      <3>9. \A j \in 1..k : seqs[j] # <<>> => \E x \in 1..(Len(p) + 1) : w[x] = j
        <4> SUFFICES ASSUME NEW j \in 1..k, seqs[j] # <<>> PROVE \E x \in 1..(Len(p) + 1) : w[x] = j
          OBVIOUS
        <4>1. CASE j = k  BY <2>4, <3>6, <4>1, SMTT(30)
        <4>2. CASE j # k
          <5>1. j \in 1..i  BY <2>0, <4>2
          <5>2. PICK x \in 1..Len(p) : m[x] = j  BY <2>3, <5>1 DEF Gathers
          <5>3. x \in 1..(Len(p) + 1)  BY <2>4
          <5> QED  BY <3>6, <5>2, <5>3
        <4> QED  BY <4>1, <4>2
      <3>10. Gathers(q, seqs, k, w)  BY <3>3, <3>6, <3>7, <3>8, <3>9 DEF Gathers
      <3> QED  BY <2>0, <2>2, <3>3, <3>10
    <2> QED  BY <2>5, <2>6
  <1>6. \A i \in 0..Len(seqs) : i \in S
    <2> HIDE DEF S
    <2>1. 0 \in S  BY DEF S
    <2> QED  BY <1>1, <1>5, <2>1, UpTo
  <1>7. Good(Len(seqs))  BY <1>1, <1>6
  <1> QED  BY <1>3, <1>7

------------------------------------------------------------------------------
(* Collected runs are saved. *)

\* A write of the replay of r is queued.
WriteOf(r) == \E i \in DOMAIN ioQueue : ioQueue[i].run = r /\ ioQueue[i].op = "write"
\* The runs whose submission, if it is still there, was inserted: the database only hears of them.
Asking == {r \in Runs : api[r] # "idle" /\ (Alive(r) => sub[r].localSubmitted)}
\* The vector of submissions names those that are alive, each once.
Known == /\ \A r \in Runs : Alive(r) <=> r \in ToSet(submissions)
         /\ IsInjective(submissions)
\* Transactions and outcomes are of runs that asked for them.
Asked == /\ \A i \in 1..Len(dbQueue) : dbQueue[i].run \in Asking
         /\ \A i \in 1..Len(dbResults) : dbResults[i].run \in Asking
\* What the fields tell of the insert: it was possible if it was made, is if it was not, and has
\* been made once the submission is final.
Wished(s, want) == /\ IF s.localSubmitted THEN want ELSE s.local = want
                   /\ s.finalized => s.localSubmitted = want
OnDisk(r) == files[r] # {} \/ WriteOf(r)
\* A run is accounted for: as nothing before its end, by the fields of its submission while it lives,
\* and completely once it was collected.
Kept(r) ==
  /\ api[r] = "idle" => announced[r] = 0 /\ ~Alive(r) /\ inserts[r] = 0
  /\ Alive(r) =>
      /\ announced[r] = IF sub[r].runAnnounced THEN 1 ELSE 0
      /\ inserts[r] = IF sub[r].localSubmitted THEN 1 ELSE 0
      /\ Wished(sub[r], wanted[r])
      /\ sub[r].replayReady => OnDisk(r)
  /\ ~Alive(r) /\ api[r] # "idle" /\ r \notin cleared =>
      /\ announced[r] = 1
      /\ inserts[r] = IF wanted[r] THEN 1 ELSE 0
      /\ OnDisk(r)
SavedInv == TypeOK /\ Known /\ Asked /\ \A r \in Runs : Kept(r)

\* What TryFinalize changes, and the insert it queues.
LEMMA FinalizedFields ==
  ASSUME NEW r \in Runs, NEW s \in Sub
  PROVE  /\ TryFinalize(s) \in Sub
         /\ \A f \in {"runAnnounced", "replayReady", "acked", "age", "pendingQueued", "global", "styled",
                      "localReceived"} : TryFinalize(s)[f] = s[f]
         /\ TryFinalize(s).localSubmitted = (s.localSubmitted \/ Inserts(s))
         /\ TryFinalize(s).finalized = (s.finalized \/ Finalizes(s))
         /\ ~Inserts(s) => TryFinalize(s).local = s.local
         /\ TryFinalize(s).finalUUID = IF Finalizes(s) THEN FinalUUID(s) ELSE s.finalUUID
         /\ FinalInsert(r, s) \in Seq(Transaction)
         /\ FinalInsert(r, s) = IF Inserts(s) THEN <<Insert(r, s, FinalUUID(s))>> ELSE <<>>
  <1>1. TryFinalize(s) \in Sub  BY FinalizesOnce
  <1>2. FinalUUID(s) \in UUIDs  BY DEF FinalUUID, Sub, UUIDs
  <1> DEFINE t == [s EXCEPT !.finalized = TRUE, !.finalUUID = FinalUUID(s)]
             u == [t EXCEPT !.localSubmitted = TRUE, !.local = t.local /\ ~t.styled]
             F == {"runAnnounced", "replayReady", "acked", "age", "pendingQueued", "global", "styled",
                   "localReceived"}
  <1>3. /\ \A f \in F : t[f] = s[f]
        /\ t.localSubmitted = s.localSubmitted /\ t.finalized /\ t.local = s.local
        /\ t.finalUUID = FinalUUID(s)
    BY DEF Sub
  <1>4. /\ \A f \in F : u[f] = s[f]
        /\ u.localSubmitted /\ u.finalized /\ u.finalUUID = FinalUUID(s)
    BY DEF Sub
  <1>5. TryFinalize(s) = IF ~Finalizes(s) THEN s ELSE IF Inserts(s) THEN u ELSE t
    BY DEF TryFinalize, Submitted
  <1>6. Insert(r, s, FinalUUID(s)) \in Transaction  BY <1>2 DEF Insert, Transaction, Sub
  <1>7. Inserts(s) => Finalizes(s) /\ s.local /\ ~s.localSubmitted  BY DEF Inserts
  <1>8. s.localSubmitted \in BOOLEAN /\ s.finalized \in BOOLEAN  BY DEF Sub
  <1>9. Inserts(s) \in BOOLEAN /\ Finalizes(s) \in BOOLEAN /\ (Finalizes(s) => ~s.finalized)
    BY DEF Inserts, Finalizes, Sub
  <1> HIDE DEF t, u
  <1>10. /\ \A f \in F : TryFinalize(s)[f] = s[f]
         /\ TryFinalize(s).localSubmitted = (s.localSubmitted \/ Inserts(s))
         /\ TryFinalize(s).finalized = (s.finalized \/ Finalizes(s))
         /\ ~Inserts(s) => TryFinalize(s).local = s.local
         /\ TryFinalize(s).finalUUID = IF Finalizes(s) THEN FinalUUID(s) ELSE s.finalUUID
    BY <1>3, <1>4, <1>5, <1>7, <1>8, <1>9
  <1> QED  BY <1>1, <1>6, <1>10 DEF FinalInsert

\* A submission that is finalized has been inserted if it could be.
LEMMA FinalizedWishes ==
  ASSUME NEW r \in Runs, NEW s \in Sub, NEW want \in BOOLEAN, Wished(s, want)
  PROVE  Wished(TryFinalize(s), want)
  <1> DEFINE t == TryFinalize(s)
  <1>1. /\ t.localSubmitted = (s.localSubmitted \/ Inserts(s))
        /\ t.finalized = (s.finalized \/ Finalizes(s))
        /\ ~Inserts(s) => t.local = s.local
    BY FinalizedFields
  <1>2. s.localSubmitted \in BOOLEAN /\ s.finalized \in BOOLEAN /\ s.local \in BOOLEAN  BY DEF Sub
  <1>3. Inserts(s) <=> Finalizes(s) /\ s.local /\ ~s.localSubmitted  BY DEF Inserts
  <1>4. Finalizes(s) => ~s.finalized  BY DEF Finalizes
  <1> HIDE DEF t
  <1>5. Wished(t, want)
    <2>1. CASE Inserts(s)  BY <1>1, <1>2, <1>3, <1>4, <2>1 DEF Wished
    <2>2. CASE ~Inserts(s)
      <3>1. t.localSubmitted = s.localSubmitted /\ t.local = s.local  BY <1>1, <1>2, <2>2
      <3>2. CASE s.finalized  BY <3>1, <3>2 DEF Wished
      <3>3. CASE ~s.finalized  BY <1>1, <1>2, <1>3, <2>2, <3>1, <3>3 DEF Wished
      <3> QED  BY <3>2, <3>3
    <2> QED  BY <2>1, <2>2
  <1> QED  BY <1>5 DEF t

\* What Kept says of q depends on these.
Untouched(q) ==
  sub'[q] = sub[q] /\ api'[q] = api[q] /\ announced'[q] = announced[q] /\ inserts'[q] = inserts[q]
  /\ wanted'[q] = wanted[q]

\* A run whose submission and counts did not change is accounted for as before.
LEMMA UntouchedKept ==
  ASSUME SavedInv, NEW q \in Runs, Untouched(q), cleared' = cleared, OnDisk(q) => OnDisk(q)'
  PROVE  Kept(q)'
  BY DEF SavedInv, Kept, Untouched, Alive, Wished

\* A task appended to the file queue takes no write away.
LEMMA DiskKept ==
  ASSUME files' = files, ioQueue \in Seq(Task),
         ioQueue' = ioQueue \/ \E t \in Task : ioQueue' = Append(ioQueue, t), NEW q \in Runs, OnDisk(q)
  PROVE  OnDisk(q)'
  <1>1. CASE ioQueue' = ioQueue  BY <1>1 DEF OnDisk, WriteOf
  <1>2. ASSUME NEW t \in Task, ioQueue' = Append(ioQueue, t) PROVE OnDisk(q)'
    <2>1. /\ Len(ioQueue') = Len(ioQueue) + 1 /\ Len(ioQueue) \in Nat
          /\ \A i \in 1..Len(ioQueue) : ioQueue'[i] = ioQueue[i]
          /\ DOMAIN ioQueue = 1..Len(ioQueue) /\ DOMAIN ioQueue' = 1..Len(ioQueue')
      BY <1>2
    <2>2. \A i \in 1..Len(ioQueue) : i \in 1..Len(ioQueue')  BY <2>1
    <2> QED  BY <2>1, <2>2 DEF OnDisk, WriteOf
  <1> QED  BY <1>1, <1>2

\* No step takes a run out of Asking that leaves its submission.
LEMMA AskingKept ==
  ASSUME \A q \in Runs : api[q] # "idle" =>
           /\ api'[q] # "idle"
           /\ Alive(q)' => Alive(q) /\ (sub[q].localSubmitted => sub'[q].localSubmitted)
  PROVE  Asking \subseteq Asking'
  BY DEF Asking

\* The queues of the database keep to runs that asked for an insert.
LEMMA AskedKept ==
  ASSUME SavedInv, Asking \subseteq Asking',
         \A i \in 1..Len(dbQueue') : \/ dbQueue'[i].run \in Asking'
                                     \/ \E j \in 1..Len(dbQueue) : dbQueue'[i] = dbQueue[j],
         \A i \in 1..Len(dbResults') : \/ \E j \in 1..Len(dbResults) : dbResults'[i] = dbResults[j]
                                       \/ \E j \in 1..Len(dbQueue) : dbResults'[i].run = dbQueue[j].run
  PROVE  Asked'
  BY DEF SavedInv, Asked

\* RunSubmission::Create, which may insert at once.
LEMMA CreateSaved == ASSUME SavedInv, NEW r \in Runs, Create(r) PROVE SavedInv'
  <1>0. TypeOK /\ Known /\ Asked /\ \A q \in Runs : Kept(q)  BY DEF SavedInv
  <1>1. PICK now \in BOOLEAN, s \in Sub, l \in BOOLEAN, t \in Transaction,
             a \in {"queued", "sent", "lost"} :
          /\ sub' = [sub EXCEPT ![r] = IF now THEN Submitted(s) ELSE s]
          /\ dbQueue' = IF now THEN Append(dbQueue, t) ELSE dbQueue
          /\ inserts' = [inserts EXCEPT ![r] = IF now THEN 1 ELSE 0]
          /\ api' = [api EXCEPT ![r] = a]
          /\ wanted' = [wanted EXCEPT ![r] = l]
          /\ t.run = r /\ (now => l)
          /\ ~s.localSubmitted /\ ~s.finalized /\ ~s.runAnnounced /\ ~s.replayReady /\ s.local = l
    <2>1. PICK result \in Results, l \in BOOLEAN, styled \in (IF Styled THEN BOOLEAN ELSE {FALSE}) :
            LET s == Created(result, l, styled)
                now == result = "refused" /\ l
            IN  /\ sub' = [sub EXCEPT ![r] = IF now THEN Submitted(s) ELSE s]
                /\ dbQueue' = IF now THEN Append(dbQueue, Insert(r, s, "local")) ELSE dbQueue
                /\ inserts' = [inserts EXCEPT ![r] = IF now THEN 1 ELSE 0]
                /\ api' = [api EXCEPT ![r] = RecordBecomes[result]]
                /\ wanted' = [wanted EXCEPT ![r] = l]
      BY DEF Create
    <2> DEFINE s == Created(result, l, styled)
               now == result = "refused" /\ l
               t == Insert(r, s, "local")
    <2>2. styled \in BOOLEAN  OBVIOUS
    <2>3. (result # "refused") \in BOOLEAN /\ (result = "queued") \in BOOLEAN  OBVIOUS
    <2>4. s \in Sub /\ ~s.localSubmitted /\ ~s.finalized /\ ~s.runAnnounced /\ ~s.replayReady /\ s.local = l
      BY <2>2, <2>3 DEF Created, Sub, UUIDs
    <2>5. RecordBecomes[result] \in {"queued", "sent", "lost"}
      BY SubmissionAssumption DEF RecordBecomes
    <2>6. t \in Transaction /\ t.run = r  BY <2>4 DEF Insert, Transaction, UUIDs, Sub
    <2>7. now \in BOOLEAN /\ (now => l)  OBVIOUS
    <2>8. /\ sub' = [sub EXCEPT ![r] = IF now THEN Submitted(s) ELSE s]
          /\ dbQueue' = IF now THEN Append(dbQueue, t) ELSE dbQueue
          /\ inserts' = [inserts EXCEPT ![r] = IF now THEN 1 ELSE 0]
      BY <2>1
    <2> HIDE DEF s, now, t
    <2> QED  BY <2>1, <2>4, <2>5, <2>6, <2>7, <2>8
  <1> DEFINE x == IF now THEN Submitted(s) ELSE s
  <1>2. Submitted(s) \in Sub /\ Submitted(s).localSubmitted  BY SubmittedType
  <1>3. ~Submitted(s).finalized /\ ~Submitted(s).runAnnounced /\ ~Submitted(s).replayReady
    BY <1>1 DEF Submitted, Sub
  <1>4. /\ x \in Sub /\ x.localSubmitted = now /\ ~x.finalized /\ ~x.runAnnounced /\ ~x.replayReady
        /\ x.local = l \/ now
    BY <1>1, <1>2, <1>3 DEF Sub
  <1> HIDE DEF x
  <1>5. /\ replay[r] = "none" /\ ~Alive(r) /\ api[r] = "idle"
        /\ submissions' = Append(submissions, r)
        /\ replay' = [replay EXCEPT ![r] = "breather"]
        /\ UNCHANGED <<dbResults, rows, ioVars, announced, cleared>>
    BY DEF Create
  <1>6. sub' = [sub EXCEPT ![r] = x]  BY <1>1 DEF x
  <1>7. dbQueue' \in Seq(Transaction)  BY <1>0, <1>1 DEF TypeOK
  <1>8. TypeOK'  BY <1>0, <1>1, <1>4, <1>5, <1>6, <1>7 DEF TypeOK, ioVars
  <1>9. r # None /\ x # None  BY <1>4, SubmissionAssumption, NoneAssumption
  <1>10. Known'
    <2>1. submissions \in Seq(Runs) /\ r \notin ToSet(submissions) /\ IsInjective(submissions)
      BY <1>0, <1>5 DEF TypeOK, Known
    <2>2. /\ Len(submissions') = Len(submissions) + 1 /\ Len(submissions) \in Nat
          /\ submissions'[Len(submissions) + 1] = r
          /\ \A i \in 1..Len(submissions) : submissions'[i] = submissions[i]
          /\ DOMAIN submissions = 1..Len(submissions) /\ DOMAIN submissions' = 1..Len(submissions')
      BY <1>5, <2>1
    <2>3. \A i \in 1..Len(submissions') : i \in 1..Len(submissions) \/ i = Len(submissions) + 1
      BY <2>2
    <2>4. \A i \in 1..Len(submissions) : i \in 1..Len(submissions') /\ submissions[i] # r
      BY <2>1, <2>2 DEF ToSet
    <2>5. Len(submissions) + 1 \in 1..Len(submissions')  BY <2>2
    <2>6. ToSet(submissions') = ToSet(submissions) \cup {r}  BY <2>2, <2>3, <2>4, <2>5 DEF ToSet
    <2>7. IsInjective(submissions')  BY <2>1, <2>2, <2>3, <2>4 DEF IsInjective
    <2> QED  BY <1>0, <1>4, <1>6, <1>9, <2>6, <2>7 DEF Known, Alive, TypeOK
  <1>11. Asked'
    <2>1. Asking \subseteq Asking'
      <3>1. \A q \in Runs : api[q] # "idle" => api'[q] # "idle" /\ sub'[q] = sub[q]
        BY <1>0, <1>1, <1>5, <1>6 DEF TypeOK
      <3> QED  BY <3>1, AskingKept DEF Alive
    <2>2. now => r \in Asking'  BY <1>0, <1>1, <1>4, <1>6 DEF Asking, TypeOK
    <2>3. \A i \in 1..Len(dbQueue') : \/ dbQueue'[i].run \in Asking'
                                      \/ \E j \in 1..Len(dbQueue) : dbQueue'[i] = dbQueue[j]
      <3>1. CASE ~now  BY <1>1, <3>1
      <3>2. CASE now
        <4>1. dbQueue' = Append(dbQueue, t) /\ dbQueue \in Seq(Transaction)
          BY <1>0, <1>1, <3>2 DEF TypeOK
        <4>2. /\ Len(dbQueue') = Len(dbQueue) + 1 /\ Len(dbQueue) \in Nat
              /\ dbQueue'[Len(dbQueue) + 1] = t
              /\ \A i \in 1..Len(dbQueue) : dbQueue'[i] = dbQueue[i]
          BY <4>1
        <4>3. \A i \in 1..Len(dbQueue') : i \in 1..Len(dbQueue) \/ i = Len(dbQueue) + 1  BY <4>2
        <4> QED  BY <1>1, <2>2, <3>2, <4>2, <4>3
      <3> QED  BY <3>1, <3>2
    <2>4. dbResults' = dbResults  BY <1>5
    <2> QED  BY <2>1, <2>3, <2>4, AskedKept
  <1>12. ASSUME NEW q \in Runs PROVE Kept(q)'
    <2>1. CASE q # r
      <3>1. Untouched(q)  BY <1>0, <1>1, <1>5, <1>6, <2>1 DEF Untouched, TypeOK
      <3>2. OnDisk(q) => OnDisk(q)'  BY <1>5 DEF OnDisk, WriteOf, ioVars
      <3> QED  BY <1>5, <3>1, <3>2, UntouchedKept
    <2>2. CASE q = r
      <3>1. announced'[r] = 0 /\ inserts'[r] = IF now THEN 1 ELSE 0
        BY <1>0, <1>1, <1>5 DEF Kept, TypeOK
      <3>2. sub'[r] = x /\ wanted'[r] = l /\ api'[r] # "idle"  BY <1>0, <1>1, <1>6 DEF TypeOK
      <3>3. Wished(x, l)  BY <1>1, <1>4 DEF Wished
      <3> QED  BY <1>4, <1>9, <2>2, <3>1, <3>2, <3>3 DEF Kept, Alive
    <2> QED  BY <2>1, <2>2
  <1> QED  BY <1>8, <1>10, <1>11, <1>12 DEF SavedInv

\* A step that changes at most the age of a submission.
LEMMA QuietSaved ==
  ASSUME SavedInv, UNCHANGED <<submissions, dbVars, ioQueue, inserts, announced, wanted, cleared>>,
         NEW r \in Runs,
         sub' = sub \/ (Alive(r) /\ sub[r].age < 2 /\ sub' = [sub EXCEPT ![r].age = @ + 1]),
         \A q \in Runs : (api'[q] = "idle") = (api[q] = "idle"),
         \A q \in Runs : files[q] # {} => files'[q] # {},
         TypeOK'
  PROVE  SavedInv'
  <1>0. TypeOK /\ Known /\ Asked /\ \A q \in Runs : Kept(q)  BY DEF SavedInv
  <1>1. ASSUME NEW q \in Runs
        PROVE  /\ Alive(q)' = Alive(q)
               /\ Alive(q) => \A f \in {"runAnnounced", "localSubmitted", "local", "finalized",
                                        "replayReady"} :
                                sub'[q][f] = sub[q][f]
    <2>1. CASE sub' = sub  BY <2>1 DEF Alive
    <2>2. CASE Alive(r) /\ sub[r].age < 2 /\ sub' = [sub EXCEPT ![r].age = @ + 1]
      <3>1. sub[r] \in Sub  BY <1>0, <2>2 DEF TypeOK, Alive
      <3>2. [sub[r] EXCEPT !.age = @ + 1] \in Sub  BY <2>2, <3>1 DEF Sub
      <3>3. [sub[r] EXCEPT !.age = @ + 1] # None  BY <3>2, NoneAssumption
      <3>4. sub'[q] = IF q = r THEN [sub[r] EXCEPT !.age = @ + 1] ELSE sub[q]
        BY <1>0, <2>2 DEF TypeOK
      <3> QED  BY <2>2, <3>1, <3>3, <3>4 DEF Alive, Sub
    <2> QED  BY <2>1, <2>2
  <1>2. Known'  BY <1>0, <1>1 DEF Known
  <1>3. Asking \subseteq Asking'  BY <1>1, AskingKept
  <1>4. Asked'  BY <1>3, AskedKept DEF dbVars
  <1>5. ASSUME NEW q \in Runs PROVE Kept(q)'
    <2>1. OnDisk(q) => OnDisk(q)'  BY DEF OnDisk, WriteOf
    <2>2. Kept(q)  BY <1>0
    <2> QED  BY <1>1, <2>1, <2>2 DEF Kept, Wished
  <1> QED  BY <1>2, <1>4, <1>5 DEF SavedInv

SameWish(s, t) == \A f \in {"runAnnounced", "localSubmitted", "local", "finalized"} : t[f] = s[f]

\* A step of one submission that leaves what is counted alone but for the insert it queues.
LEMMA OneSaved ==
  ASSUME SavedInv, NEW r \in Runs, Alive(r), NEW t \in Sub, NEW n \in {0, 1},
         sub' = [sub EXCEPT ![r] = t],
         inserts' = [inserts EXCEPT ![r] = @ + n],
         t.runAnnounced = sub[r].runAnnounced,
         t.localSubmitted = (sub[r].localSubmitted \/ n = 1), n = 1 => ~sub[r].localSubmitted,
         Wished(t, wanted[r]),
         t.replayReady => OnDisk(r)',
         \A q \in Runs : OnDisk(q) => OnDisk(q)',
         api' = api \/ api' = [api EXCEPT ![r] = "answered"],
         UNCHANGED <<submissions, dbResults, announced, wanted, cleared>>,
         \A i \in 1..Len(dbQueue') : \/ \E j \in 1..Len(dbQueue) : dbQueue'[i] = dbQueue[j]
                                     \/ dbQueue'[i].run = r /\ t.localSubmitted,
         TypeOK'
  PROVE  SavedInv'
  <1>0. TypeOK /\ Known /\ Asked /\ \A q \in Runs : Kept(q)  BY DEF SavedInv
  <1>1. t # None /\ sub'[r] = t /\ \A q \in Runs \ {r} : sub'[q] = sub[q]
    BY <1>0, NoneAssumption DEF TypeOK
  <1>2. \A q \in Runs : (Alive(q)' <=> Alive(q))  BY <1>1 DEF Alive
  <1>3. Known'  BY <1>0, <1>2 DEF Known
  <1>4. sub[r] \in Sub /\ sub[r].localSubmitted \in BOOLEAN  BY <1>0 DEF TypeOK, Alive, Sub
  <1>5. api[r] # "idle"  BY <1>0 DEF Kept
  <1>6. \A q \in Runs : (api'[q] = "idle" <=> api[q] = "idle")  BY <1>0, <1>5 DEF TypeOK
  <1>7. Asking \subseteq Asking'  BY <1>1, <1>2, <1>4, <1>6, AskingKept
  <1>8. t.localSubmitted => r \in Asking'  BY <1>1, <1>5, <1>6 DEF Asking
  <1>9. Asked'  BY <1>7, <1>8, AskedKept
  <1>10. ASSUME NEW q \in Runs PROVE Kept(q)'
    <2>1. CASE q = r
      <3>1. inserts[r] = IF sub[r].localSubmitted THEN 1 ELSE 0  BY <1>0 DEF Kept
      <3>2. inserts'[r] = inserts[r] + n  BY <1>0 DEF TypeOK
      <3>3. inserts'[r] = IF t.localSubmitted THEN 1 ELSE 0
        <4>1. CASE n = 1
          <5>1. ~sub[r].localSubmitted /\ t.localSubmitted  BY <4>1
          <5>2. inserts[r] = 0 /\ inserts'[r] = 1  BY <3>1, <3>2, <4>1, <5>1
          <5> QED  BY <5>1, <5>2
        <4>2. CASE n = 0
          <5>1. t.localSubmitted = sub[r].localSubmitted  BY <1>4, <4>2
          <5>2. inserts'[r] = inserts[r]  BY <3>1, <3>2, <4>2
          <5> QED  BY <3>1, <5>1, <5>2
        <4> QED  BY <4>1, <4>2
      <3>4. announced'[r] = IF t.runAnnounced THEN 1 ELSE 0  BY <1>0 DEF Kept
      <3> QED  BY <1>1, <1>2, <1>5, <1>6, <2>1, <3>3, <3>4 DEF Kept
    <2>2. CASE q # r
      <3>1. inserts'[q] = inserts[q] /\ sub'[q] = sub[q]  BY <1>0, <1>1, <2>2 DEF TypeOK
      <3> QED  BY <1>0, <1>2, <1>6, <3>1 DEF Kept
    <2> QED  BY <2>1, <2>2
  <1> QED  BY <1>3, <1>9, <1>10 DEF SavedInv

\* What FinalInsert adds to the queue of the database.
LEMMA QueuedInsert ==
  ASSUME dbQueue \in Seq(Transaction), NEW r \in Runs, NEW s \in Sub,
         dbQueue' = dbQueue \o FinalInsert(r, s)
  PROVE  /\ dbQueue' \in Seq(Transaction)
         /\ ~Inserts(s) => dbQueue' = dbQueue /\ Len(FinalInsert(r, s)) = 0
         /\ Inserts(s) => /\ dbQueue' = Append(dbQueue, Insert(r, s, FinalUUID(s)))
                          /\ Len(FinalInsert(r, s)) = 1
         /\ \A i \in 1..Len(dbQueue') : \/ \E j \in 1..Len(dbQueue) : dbQueue'[i] = dbQueue[j]
                                        \/ dbQueue'[i].run = r /\ Inserts(s)
  <1>1. /\ FinalInsert(r, s) \in Seq(Transaction)
        /\ FinalInsert(r, s) = IF Inserts(s) THEN <<Insert(r, s, FinalUUID(s))>> ELSE <<>>
    BY FinalizedFields
  <1>2. CASE ~Inserts(s)
    <2>1. dbQueue' = dbQueue  BY <1>1, <1>2
    <2> QED  BY <1>1, <1>2, <2>1
  <1>3. CASE Inserts(s)
    <2> DEFINE t == Insert(r, s, FinalUUID(s))
    <2>1. t.run = r  BY DEF Insert
    <2>2. t \in Transaction
      <3>1. FinalInsert(r, s)[1] \in Transaction  BY <1>1, <1>3
      <3> QED  BY <1>1, <1>3, <3>1
    <2>3. FinalInsert(r, s) = <<t>>  BY <1>1, <1>3
    <2> HIDE DEF t
    <2>4. dbQueue' = Append(dbQueue, t)  BY <2>2, <2>3
    <2>5. /\ dbQueue' \in Seq(Transaction) /\ Len(dbQueue') = Len(dbQueue) + 1 /\ Len(dbQueue) \in Nat
          /\ dbQueue'[Len(dbQueue) + 1] = t
          /\ \A i \in 1..Len(dbQueue) : dbQueue'[i] = dbQueue[i]
      BY <2>2, <2>4
    <2>6. \A i \in 1..Len(dbQueue') : i \in 1..Len(dbQueue) \/ i = Len(dbQueue) + 1  BY <2>5
    <2>7. Len(<<t>>) = 1  OBVIOUS
    <2> QED  BY <1>3, <2>1, <2>3, <2>4, <2>5, <2>6, <2>7 DEF t
  <1> QED  BY <1>2, <1>3

\* A step that finalizes the submission of r.
LEMMA FinalStepSaved ==
  ASSUME SavedInv, NEW r \in Runs, Alive(r), NEW s \in Sub, SameWish(sub[r], s),
         sub' = [sub EXCEPT ![r] = TryFinalize(s)],
         dbQueue' = dbQueue \o FinalInsert(r, s),
         inserts' = [inserts EXCEPT ![r] = @ + Len(FinalInsert(r, s))],
         s.replayReady => OnDisk(r)',
         \A q \in Runs : OnDisk(q) => OnDisk(q)',
         api' = api \/ api' = [api EXCEPT ![r] = "answered"],
         UNCHANGED <<submissions, dbResults, rows, files, announced, wanted, cleared>>,
         replay' \in [Runs -> {"none", "breather", "serializing", "done", "toFile", "onDisk"}],
         ioQueue' \in Seq(Task)
  PROVE  SavedInv'
  <1>0. TypeOK /\ Kept(r)  BY DEF SavedInv
  <1> DEFINE t == TryFinalize(s)
             n == IF Inserts(s) THEN 1 ELSE 0
  <1>1. /\ t \in Sub /\ t.runAnnounced = s.runAnnounced /\ t.replayReady = s.replayReady
        /\ t.localSubmitted = (s.localSubmitted \/ Inserts(s))
    BY FinalizedFields
  <1>2. dbQueue \in Seq(Transaction)  BY <1>0 DEF TypeOK
  <1>3. /\ dbQueue' \in Seq(Transaction)
        /\ Len(FinalInsert(r, s)) = n
        /\ \A i \in 1..Len(dbQueue') : \/ \E j \in 1..Len(dbQueue) : dbQueue'[i] = dbQueue[j]
                                       \/ dbQueue'[i].run = r /\ Inserts(s)
    BY <1>2, QueuedInsert
  <1>4. Wished(s, wanted[r]) /\ wanted[r] \in BOOLEAN  BY <1>0 DEF Kept, SameWish, Wished, TypeOK
  <1>5. Wished(t, wanted[r])  BY <1>4, FinalizedWishes
  <1>6. Inserts(s) => ~s.localSubmitted  BY DEF Inserts
  <1>7. s.localSubmitted = sub[r].localSubmitted /\ s.runAnnounced = sub[r].runAnnounced
        /\ s.localSubmitted \in BOOLEAN
    BY DEF SameWish, Sub
  <1>8. n \in {0, 1} /\ (n = 1 <=> Inserts(s))  OBVIOUS
  <1> HIDE DEF t, n
  <1>9. sub' = [sub EXCEPT ![r] = t] /\ inserts' = [inserts EXCEPT ![r] = @ + n]  BY <1>3 DEF t
  <1>10. inserts' \in [Runs -> Nat] /\ sub' \in [Runs -> Sub \cup {None}]
         /\ api' \in [Runs -> {"idle", "queued", "sent", "answered", "lost"}]
    BY <1>0, <1>1, <1>8, <1>9 DEF TypeOK
  <1>11. TypeOK'  BY <1>0, <1>3, <1>10 DEF TypeOK
  <1>12. t.localSubmitted = (sub[r].localSubmitted \/ n = 1)  BY <1>1, <1>7, <1>8
  <1>13. \A i \in 1..Len(dbQueue') : \/ \E j \in 1..Len(dbQueue) : dbQueue'[i] = dbQueue[j]
                                     \/ dbQueue'[i].run = r /\ t.localSubmitted
    BY <1>1, <1>3
  <1> QED  BY <1>1, <1>5, <1>6, <1>7, <1>8, <1>9, <1>11, <1>12, <1>13, OneSaved

\* The API's answer, early or late.
LEMMA AnswerSaved == ASSUME SavedInv, NEW r \in Runs, ApiAnswers(r) PROVE SavedInv'
  <1>0. TypeOK /\ Known /\ Asked /\ \A q \in Runs : Kept(q)  BY DEF SavedInv
  <1>1. /\ api' = [api EXCEPT ![r] = "answered"] /\ api[r] = "sent"
        /\ UNCHANGED <<submissions, replay, dbResults, rows, files, announced, wanted, cleared>>
    BY DEF ApiAnswers
  <1>2. CASE ~Alive(r)
    <2>1. UNCHANGED <<sub, ioQueue, dbQueue, inserts>>  BY <1>2 DEF ApiAnswers
    <2>2. TypeOK'  BY <1>0, <1>1, <2>1 DEF TypeOK
    <2>3. \A q \in Runs : (api'[q] = "idle") = (api[q] = "idle")  BY <1>0, <1>1 DEF TypeOK
    <2> QED  BY <1>1, <2>1, <2>2, <2>3, QuietSaved DEF dbVars
  <1>3. CASE Alive(r)
    <2>0. sub[r] \in Sub  BY <1>0, <1>3 DEF Alive, TypeOK
    <2>1. PICK id \in {"empty", "id"} :
            LET s == [sub[r] EXCEPT !.acked = id, !.pendingQueued = FALSE]
            IN  IF s.finalized THEN LateAnswer(r, s) ELSE EarlyAnswer(r, s)
      BY <1>3 DEF ApiAnswers
    <2> DEFINE s == [sub[r] EXCEPT !.acked = id, !.pendingQueued = FALSE]
               task == [op |-> "rename", run |-> r, uuid |-> "api"]
    <2>2. s \in Sub /\ SameWish(sub[r], s) /\ s.replayReady = sub[r].replayReady
      BY <2>0 DEF Sub, SameWish
    <2>3. [s EXCEPT !.finalUUID = "api"] \in Sub /\ SameWish(s, [s EXCEPT !.finalUUID = "api"])
          /\ [s EXCEPT !.finalUUID = "api"].replayReady = s.replayReady
      BY <2>2 DEF Sub, UUIDs, SameWish
    <2>4. task \in Task  BY DEF Task, UUIDs
    <2>5. ioQueue \in Seq(Task) /\ dbQueue \in Seq(Transaction)  BY <1>0 DEF TypeOK
    <2> HIDE DEF s
    <2>6. ioQueue' = ioQueue \/ ioQueue' = Append(ioQueue, task)
      BY <2>1 DEF LateAnswer, EarlyAnswer, s
    <2> HIDE DEF task
    <2>7. \A q \in Runs : OnDisk(q) => OnDisk(q)'  BY <1>1, <2>4, <2>5, <2>6, DiskKept
    <2>8. ioQueue' \in Seq(Task)  BY <2>4, <2>5, <2>6
    <2>9. sub[r].replayReady => OnDisk(r)'  BY <1>0, <1>3, <2>7 DEF Kept
    <2>10. CASE ~s.finalized
      <3>1. EarlyAnswer(r, s)  BY <2>1, <2>10 DEF s
      <3>2. PICK t \in {s, [s EXCEPT !.finalUUID = "api"]} :
               /\ sub' = [sub EXCEPT ![r] = TryFinalize(t)]
               /\ dbQueue' = dbQueue \o FinalInsert(r, t)
               /\ inserts' = [inserts EXCEPT ![r] = @ + Len(FinalInsert(r, t))]
        BY <3>1 DEF EarlyAnswer
      <3>3. t \in Sub /\ SameWish(sub[r], t) /\ t.replayReady = sub[r].replayReady
        BY <2>2, <2>3 DEF SameWish
      <3> HIDE DEF s
      <3> QED  BY <1>0, <1>1, <1>3, <2>7, <2>8, <2>9, <3>2, <3>3, FinalStepSaved DEF TypeOK
    <2>11. CASE s.finalized
      <3>1. LateAnswer(r, s)  BY <2>1, <2>11 DEF s
      <3>2. PICK t \in {s, [s EXCEPT !.finalUUID = "api"]} : sub' = [sub EXCEPT ![r] = t]
        BY <3>1 DEF LateAnswer
      <3>3. t \in Sub /\ SameWish(sub[r], t) /\ t.replayReady = sub[r].replayReady
        BY <2>2, <2>3 DEF SameWish
      <3>4. inserts' = inserts  BY <3>1 DEF LateAnswer
      <3> DEFINE u == [op |-> "update", run |-> r, uuid |-> "api", asks |-> FALSE]
      <3>5. u \in Transaction /\ u.run = r  BY DEF Transaction, UUIDs
      <3>6. dbQueue' = dbQueue \/ (s.localSubmitted /\ dbQueue' = Append(dbQueue, u))
        BY <3>1 DEF LateAnswer
      <3> HIDE DEF u
      <3>7. /\ dbQueue' \in Seq(Transaction)
            /\ \A i \in 1..Len(dbQueue') : \/ \E j \in 1..Len(dbQueue) : dbQueue'[i] = dbQueue[j]
                                           \/ dbQueue'[i].run = r /\ s.localSubmitted
        <4>1. CASE dbQueue' = dbQueue  BY <2>5, <4>1
        <4>2. CASE s.localSubmitted /\ dbQueue' = Append(dbQueue, u)
          <5>1. /\ dbQueue' \in Seq(Transaction) /\ Len(dbQueue') = Len(dbQueue) + 1 /\ Len(dbQueue) \in Nat
                /\ dbQueue'[Len(dbQueue) + 1] = u
                /\ \A i \in 1..Len(dbQueue) : dbQueue'[i] = dbQueue[i]
            BY <2>5, <3>5, <4>2
          <5>2. \A i \in 1..Len(dbQueue') : i \in 1..Len(dbQueue) \/ i = Len(dbQueue) + 1  BY <5>1
          <5> QED  BY <3>5, <4>2, <5>1, <5>2
        <4> QED  BY <3>6, <4>1, <4>2
      <3>8. Wished(t, wanted[r])  BY <1>0, <1>3, <3>3 DEF Kept, Wished, SameWish
      <3>9. sub' \in [Runs -> Sub \cup {None}]
            /\ api' \in [Runs -> {"idle", "queued", "sent", "answered", "lost"}]
        BY <1>0, <1>1, <3>2, <3>3 DEF TypeOK
      <3>10. TypeOK'  BY <1>0, <1>1, <2>8, <3>4, <3>7, <3>9 DEF TypeOK
      <3> DEFINE n == 0
      <3>11. inserts' = [inserts EXCEPT ![r] = @ + n] /\ n \in {0, 1} /\ n # 1
        BY <1>0, <3>4 DEF TypeOK
      <3>12. t.localSubmitted = sub[r].localSubmitted /\ t.runAnnounced = sub[r].runAnnounced
             /\ t.localSubmitted = (sub[r].localSubmitted \/ n = 1) /\ t.localSubmitted = s.localSubmitted
        BY <2>2, <3>3 DEF SameWish, Sub
      <3> HIDE DEF n
      <3> QED
        BY <1>0, <1>1, <1>3, <2>7, <2>9, <3>2, <3>3, <3>7, <3>8, <3>10, <3>11, <3>12, OneSaved
    <2> QED  BY <2>10, <2>11
  <1> QED  BY <1>2, <1>3

\* OnReplayReady gives the replay to the disk.
LEMMA ReplaySaved == ASSUME SavedInv, NEW r \in Runs, ReplayReady(r) PROVE SavedInv'
  <1>0. TypeOK /\ Known /\ Asked /\ \A q \in Runs : Kept(q)  BY DEF SavedInv
  <1>1. /\ replay' = [replay EXCEPT ![r] = "done"]
        /\ UNCHANGED <<submissions, api, dbResults, rows, files, announced, wanted, cleared>>
    BY DEF ReplayReady
  <1>2. CASE ~Alive(r)
    <2>1. UNCHANGED <<sub, ioQueue, dbQueue, inserts>>  BY <1>2 DEF ReplayReady
    <2>2. TypeOK'  BY <1>0, <1>1, <2>1 DEF TypeOK
    <2> QED  BY <1>1, <2>1, <2>2, QuietSaved DEF dbVars
  <1>3. CASE Alive(r)
    <2>0. sub[r] \in Sub  BY <1>0, <1>3 DEF Alive, TypeOK
    <2> DEFINE s == [sub[r] EXCEPT !.replayReady = TRUE, !.finalUUID = FinalUUID(sub[r])]
               task == [op |-> "write", run |-> r, uuid |-> s.finalUUID]
    <2>1. s \in Sub /\ SameWish(sub[r], s)
      BY <2>0 DEF Sub, UUIDs, FinalUUID, SameWish
    <2>2. task \in Task  BY <2>1 DEF Task, Sub
    <2>3. /\ ioQueue' = Append(ioQueue, task)
          /\ sub' = [sub EXCEPT ![r] = TryFinalize(s)]
          /\ dbQueue' = dbQueue \o FinalInsert(r, s)
          /\ inserts' = [inserts EXCEPT ![r] = @ + Len(FinalInsert(r, s))]
      BY <1>3 DEF ReplayReady
    <2>4. task.run = r /\ task.op = "write"  OBVIOUS
    <2>5. ioQueue \in Seq(Task)  BY <1>0 DEF TypeOK
    <2> HIDE DEF s, task
    <2>6. /\ ioQueue' \in Seq(Task) /\ ioQueue'[Len(ioQueue) + 1] = task
          /\ Len(ioQueue) + 1 \in DOMAIN ioQueue'
      BY <2>2, <2>3, <2>5
    <2>7. OnDisk(r)'  BY <2>4, <2>6 DEF OnDisk, WriteOf
    <2>8. \A q \in Runs : OnDisk(q) => OnDisk(q)'  BY <1>1, <2>2, <2>3, <2>5, DiskKept
    <2>9. replay' \in [Runs -> {"none", "breather", "serializing", "done", "toFile", "onDisk"}]
      BY <1>0, <1>1 DEF TypeOK
    <2> QED  BY <1>1, <1>3, <2>1, <2>3, <2>6, <2>7, <2>8, <2>9, FinalStepSaved
  <1> QED  BY <1>2, <1>3

\* Steps that leave every submission, and all that is counted, alone.
LEMMA StillSaved ==
  ASSUME SavedInv, UNCHANGED <<submissions, sub, api, inserts, announced, wanted, cleared>>,
         \A q \in Runs : OnDisk(q) => OnDisk(q)', Asked', TypeOK'
  PROVE  SavedInv'
  BY DEF SavedInv, Kept, Wished, Alive, Known

\* The tail of a queue.
LEMMA TailOf ==
  ASSUME NEW T, NEW q \in Seq(T), q # <<>>
  PROVE  /\ Tail(q) \in Seq(T) /\ Head(q) \in T /\ Len(Tail(q)) = Len(q) - 1 /\ Len(q) \in Nat \ {0}
         /\ Head(q) = q[1]
         /\ \A i \in 1..Len(Tail(q)) : Tail(q)[i] = q[i + 1] /\ i + 1 \in 1..Len(q)
  OBVIOUS

\* The database executes a transaction.
LEMMA DbSaved == ASSUME SavedInv, DbExecutes PROVE SavedInv'
  <1>0. TypeOK /\ Known /\ Asked /\ \A q \in Runs : Kept(q)  BY DEF SavedInv
  <1> DEFINE t == Head(dbQueue)
  <1>1. PICK ok \in BOOLEAN :
          /\ rows' = IF ok /\ (t.op = "insert" \/ rows[t.run] = "local")
                     THEN [rows EXCEPT ![t.run] = t.uuid] ELSE rows
          /\ dbResults' = IF t.asks THEN Append(dbResults, [run |-> t.run, ok |-> ok]) ELSE dbResults
    BY DEF DbExecutes
  <1>2. /\ dbQueue # <<>> /\ dbQueue' = Tail(dbQueue)
        /\ UNCHANGED <<submissions, sub, api, replay, ioVars, auxVars>>
    BY DEF DbExecutes
  <1>3. /\ dbQueue \in Seq(Transaction) /\ dbResults \in Seq([run : Runs, ok : BOOLEAN])
        /\ rows \in [Runs -> UUIDs \cup {None}]
    BY <1>0 DEF TypeOK
  <1>4. /\ dbQueue' \in Seq(Transaction) /\ t \in Transaction /\ t = dbQueue[1] /\ 1 \in 1..Len(dbQueue)
        /\ \A i \in 1..Len(dbQueue') : dbQueue'[i] = dbQueue[i + 1] /\ i + 1 \in 1..Len(dbQueue)
    BY <1>2, <1>3, TailOf
  <1> HIDE DEF t
  <1>5. t.run \in Runs /\ t.uuid \in UUIDs  BY <1>4 DEF Transaction
  <1>6. rows' \in [Runs -> UUIDs \cup {None}]  BY <1>1, <1>3, <1>5
  <1> DEFINE a == [run |-> t.run, ok |-> ok]
  <1>7. a \in [run : Runs, ok : BOOLEAN] /\ a.run = t.run  BY <1>5
  <1>8. dbResults' = dbResults \/ dbResults' = Append(dbResults, a)  BY <1>1
  <1> HIDE DEF a
  <1>9. /\ dbResults' \in Seq([run : Runs, ok : BOOLEAN])
        /\ \A i \in 1..Len(dbResults') : \/ \E j \in 1..Len(dbResults) : dbResults'[i] = dbResults[j]
                                         \/ \E j \in 1..Len(dbQueue) : dbResults'[i].run = dbQueue[j].run
    <2>1. CASE dbResults' = dbResults  BY <1>3, <2>1
    <2>2. CASE dbResults' = Append(dbResults, a)
      <3>1. /\ dbResults' \in Seq([run : Runs, ok : BOOLEAN])
            /\ Len(dbResults') = Len(dbResults) + 1 /\ Len(dbResults) \in Nat
            /\ dbResults'[Len(dbResults) + 1] = a
            /\ \A i \in 1..Len(dbResults) : dbResults'[i] = dbResults[i]
        BY <1>3, <1>7, <2>2
      <3>2. \A i \in 1..Len(dbResults') : i \in 1..Len(dbResults) \/ i = Len(dbResults) + 1  BY <3>1
      <3> QED  BY <1>4, <1>7, <3>1, <3>2
    <2> QED  BY <1>8, <2>1, <2>2
  <1>10. TypeOK'  BY <1>0, <1>2, <1>4, <1>6, <1>9 DEF TypeOK, ioVars, auxVars
  <1>11. Asking' = Asking  BY <1>2 DEF Asking, Alive
  <1>12. Asked'  BY <1>4, <1>9, <1>11, AskedKept
  <1>13. \A q \in Runs : OnDisk(q) => OnDisk(q)'  BY <1>2 DEF OnDisk, WriteOf, ioVars
  <1> QED  BY <1>2, <1>10, <1>12, <1>13, StillSaved DEF auxVars

\* The file worker executes a task: a write leaves a file, which no rename takes away.
LEMMA FileSaved == ASSUME SavedInv, FileTask PROVE SavedInv'
  <1>0. TypeOK /\ Known /\ Asked /\ \A q \in Runs : Kept(q)  BY DEF SavedInv
  <1> DEFINE t == Head(ioQueue)
  <1>1. /\ ioQueue # <<>> /\ ioQueue' = Tail(ioQueue)
        /\ files' = IF t.op = "write" THEN [files EXCEPT ![t.run] = @ \cup {t.uuid}]
                    ELSE IF "local" \in files[t.run]
                    THEN [files EXCEPT ![t.run] = (@ \ {"local"}) \cup {t.uuid}]
                    ELSE files
        /\ UNCHANGED <<submissions, sub, api, replay, dbVars, auxVars>>
    BY DEF FileTask
  <1>2. ioQueue \in Seq(Task) /\ files \in [Runs -> SUBSET UUIDs]  BY <1>0 DEF TypeOK
  <1>3. /\ ioQueue' \in Seq(Task) /\ t \in Task /\ t = ioQueue[1] /\ Len(ioQueue) \in Nat \ {0}
        /\ Len(ioQueue') = Len(ioQueue) - 1
        /\ \A i \in 1..Len(ioQueue') : ioQueue'[i] = ioQueue[i + 1]
    BY <1>1, <1>2, TailOf
  <1> HIDE DEF t
  <1>4. t.run \in Runs /\ t.uuid \in UUIDs  BY <1>3 DEF Task
  <1>5. files' \in [Runs -> SUBSET UUIDs]  BY <1>1, <1>2, <1>4
  <1>6. TypeOK'  BY <1>0, <1>1, <1>3, <1>5 DEF TypeOK, dbVars, auxVars
  <1>7. ASSUME NEW q \in Runs, OnDisk(q) PROVE OnDisk(q)'
    <2>1. CASE files[q] # {}
      <3>1. files'[q] # {}  BY <1>1, <1>2, <1>4, <2>1
      <3> QED  BY <3>1 DEF OnDisk
    <2>2. CASE WriteOf(q)
      <3>1. PICK i \in 1..Len(ioQueue) : ioQueue[i].run = q /\ ioQueue[i].op = "write"
        BY <1>2, <2>2 DEF WriteOf
      <3>2. CASE i = 1
        <4>1. files'[q] # {}  BY <1>1, <1>2, <1>3, <3>1, <3>2
        <4> QED  BY <4>1 DEF OnDisk
      <3>3. CASE i # 1
        <4>1. i - 1 \in 1..Len(ioQueue') /\ (i - 1) + 1 = i  BY <1>3, <3>3
        <4>2. ioQueue'[i - 1] = ioQueue[i] /\ i - 1 \in DOMAIN ioQueue'  BY <1>3, <4>1
        <4> QED  BY <3>1, <4>2 DEF OnDisk, WriteOf
      <3> QED  BY <3>2, <3>3
    <2> QED  BY <1>7, <2>1, <2>2 DEF OnDisk
  <1>8. Asked'  BY <1>0, <1>1 DEF Asked, Asking, Alive, dbVars
  <1> QED  BY <1>1, <1>6, <1>7, <1>8, StillSaved DEF auxVars

\* A map change clears every submission.
LEMMA MapSaved == ASSUME SavedInv, MapChange PROVE SavedInv'
  <1>0. TypeOK /\ Known /\ Asked /\ \A q \in Runs : Kept(q)  BY DEF SavedInv
  <1>1. /\ submissions' = <<>> /\ sub' = [r \in Runs |-> None]
        /\ replay' = [r \in Runs |-> IF replay[r] = "breather" THEN "done" ELSE replay[r]]
        /\ cleared' = cleared \cup ToSet(submissions)
        /\ UNCHANGED <<api, dbVars, ioVars, inserts, announced, wanted>>
    BY DEF MapChange
  <1>2. ToSet(submissions) \subseteq Runs  BY <1>0 DEF TypeOK, ToSet
  <1>3. TypeOK'  BY <1>0, <1>1, <1>2 DEF TypeOK, dbVars, ioVars
  <1>4. Known'  BY <1>1 DEF Known, ToSet, IsInjective, Alive
  <1>5. Asking \subseteq Asking'  BY <1>1 DEF Asking, Alive
  <1>6. Asked'  BY <1>0, <1>1, <1>5 DEF Asked, dbVars
  <1>7. ASSUME NEW q \in Runs PROVE Kept(q)'
    BY <1>0, <1>1 DEF Kept, Known, Alive, OnDisk, WriteOf, ioVars
  <1> QED  BY <1>3, <1>4, <1>6, <1>7 DEF SavedInv

\* The callback of the insert clears local only for a submission that was inserted.
LEMMA DbAnswersSaved == ASSUME SavedInv, DbAnswers PROVE SavedInv'
  <1>0. TypeOK /\ Known /\ Asked /\ \A q \in Runs : Kept(q)  BY DEF SavedInv
  <1> DEFINE a == Head(dbResults)
  <1>1. /\ dbResults # <<>> /\ dbResults' = Tail(dbResults)
        /\ sub' = IF ~Alive(a.run) THEN sub
                  ELSE IF a.ok THEN [sub EXCEPT ![a.run].localReceived = TRUE]
                  ELSE [sub EXCEPT ![a.run].local = FALSE]
        /\ UNCHANGED <<submissions, api, replay, dbQueue, rows, ioVars, auxVars>>
    BY DEF DbAnswers
  <1>2. dbResults \in Seq([run : Runs, ok : BOOLEAN])  BY <1>0 DEF TypeOK
  <1>3. /\ dbResults' \in Seq([run : Runs, ok : BOOLEAN]) /\ a \in [run : Runs, ok : BOOLEAN]
        /\ a = dbResults[1] /\ 1 \in 1..Len(dbResults)
        /\ \A i \in 1..Len(dbResults') : dbResults'[i] = dbResults[i + 1] /\ i + 1 \in 1..Len(dbResults)
    <2> DEFINE T == [run : Runs, ok : BOOLEAN]
    <2>1. dbResults \in Seq(T) /\ dbResults # <<>>  BY <1>1, <1>2
    <2> HIDE DEF T
    <2>2. /\ Tail(dbResults) \in Seq(T) /\ Head(dbResults) \in T /\ Len(dbResults) \in Nat \ {0}
          /\ Head(dbResults) = dbResults[1]
          /\ \A i \in 1..Len(Tail(dbResults)) :
               Tail(dbResults)[i] = dbResults[i + 1] /\ i + 1 \in 1..Len(dbResults)
      BY <2>1, TailOf
    <2> QED  BY <1>1, <2>2 DEF T
  <1> HIDE DEF a
  <1>4. a.run \in Asking /\ a.run \in Runs  BY <1>0, <1>3 DEF Asked
  <1>5. ASSUME NEW q \in Runs
        PROVE  /\ sub'[q] \in Sub \cup {None} /\ (Alive(q)' <=> Alive(q))
               /\ Alive(q) => /\ sub'[q].localSubmitted = sub[q].localSubmitted
                              /\ sub'[q].runAnnounced = sub[q].runAnnounced
                              /\ sub'[q].replayReady = sub[q].replayReady
                              /\ Wished(sub'[q], wanted[q])
    <2>1. CASE sub'[q] = sub[q]  BY <1>0, <2>1 DEF TypeOK, Alive, Kept
    <2>2. CASE sub'[q] # sub[q]
      <3>1. a.run = q /\ Alive(q) /\ sub[q] \in Sub  BY <1>0, <1>1, <2>2 DEF TypeOK, Alive
      <3> DEFINE s == sub[q]
      <3>2. PICK x \in {[s EXCEPT !.localReceived = TRUE], [s EXCEPT !.local = FALSE]} : sub'[q] = x
        BY <1>0, <1>1, <3>1 DEF TypeOK
      <3>3. /\ x \in Sub /\ x.localSubmitted = s.localSubmitted /\ x.runAnnounced = s.runAnnounced
            /\ x.replayReady = s.replayReady /\ x.finalized = s.finalized
        BY <3>1 DEF Sub
      <3>4. s.localSubmitted  BY <1>4, <3>1 DEF Asking
      <3>5. Wished(s, wanted[q])  BY <1>0, <3>1 DEF Kept
      <3>6. Wished(x, wanted[q])  BY <3>3, <3>4, <3>5 DEF Wished
      <3> QED  BY <3>1, <3>2, <3>3, <3>6, NoneAssumption DEF Alive
    <2> QED  BY <2>1, <2>2
  <1>6. sub' \in [Runs -> Sub \cup {None}]
    <2>1. DOMAIN sub' = Runs /\ sub' = [q \in Runs |-> sub'[q]]  BY <1>0, <1>1 DEF TypeOK
    <2> QED  BY <1>5, <2>1
  <1>7. TypeOK'  BY <1>0, <1>1, <1>3, <1>6 DEF TypeOK, ioVars, auxVars
  <1>8. Known'  BY <1>0, <1>1, <1>5 DEF Known
  <1>9. Asking \subseteq Asking'  BY <1>1, <1>5, AskingKept
  <1>10. Asked'  BY <1>1, <1>3, <1>9, AskedKept
  <1>11. ASSUME NEW q \in Runs PROVE Kept(q)'
    <2>1. OnDisk(q)' <=> OnDisk(q)  BY <1>1 DEF OnDisk, WriteOf, ioVars
    <2>2. Kept(q)  BY <1>0
    <2> QED  BY <1>1, <1>5, <2>1, <2>2 DEF Kept, auxVars
  <1> QED  BY <1>7, <1>8, <1>10, <1>11 DEF SavedInv

\* CheckAll keeps the submissions it does not collect.
LEMMA CheckedList ==
  ASSUME TypeOK, Known, CheckAll
  PROVE  /\ submissions' \in Seq(Runs) /\ IsInjective(submissions')
         /\ \A r \in Runs : r \in ToSet(submissions') <=> Alive(r) /\ ~Collects(TryFinalize(sub[r]))
  <1> DEFINE checked == [r \in Runs |-> IF Alive(r) THEN TryFinalize(sub[r]) ELSE None]
             keeps == {r \in Runs : ~Collects(checked[r])}
             seqs == [i \in DOMAIN submissions |->
                        IF submissions[i] \in keeps THEN <<submissions[i]>> ELSE <<>>]
  <1>1. submissions \in Seq(Runs) /\ submissions # <<>>  BY DEF TypeOK, CheckAll
  <1>2. /\ Len(submissions) \in Nat \ {0} /\ DOMAIN submissions = 1..Len(submissions)
        /\ \A i \in 1..Len(submissions) : submissions[i] \in Runs
    BY <1>1, EmptySeq
  <1>3. submissions' = FlattenSeq(seqs)
    <2>1. submissions' = FlattenSeq([i \in DOMAIN submissions |->
                             IF ~Collects(checked[submissions[i]]) THEN <<submissions[i]>> ELSE <<>>])
      BY DEF CheckAll
    <2>2. \A i \in DOMAIN submissions : ~Collects(checked[submissions[i]]) <=> submissions[i] \in keeps
      BY <1>2
    <2> HIDE DEF keeps, checked
    <2>3. [i \in DOMAIN submissions |->
             IF ~Collects(checked[submissions[i]]) THEN <<submissions[i]>> ELSE <<>>] = seqs
      BY <2>2
    <2> QED  BY <2>1, <2>3
  <1>4. \A r \in Runs : Alive(r) => (r \in keeps <=> ~Collects(TryFinalize(sub[r])))  OBVIOUS
  <1> HIDE DEF keeps, checked
  <1>5. \A i \in 1..Len(submissions) :
          seqs[i] \in Seq(Runs) /\ Len(seqs[i]) <= 1 /\ (seqs[i] # <<>> <=> submissions[i] \in keeps)
          /\ (seqs[i] # <<>> => seqs[i] = <<submissions[i]>>)
    BY <1>2
  <1>6. seqs \in Seq(Seq(Runs)) /\ Len(seqs) = Len(submissions)  BY <1>2, <1>5
  <1>7. seqs # <<>>  BY <1>2, <1>6, EmptySeq
  <1> HIDE DEF seqs
  <1> DEFINE list == FlattenSeq(seqs)
  <1>8. list \in Seq(Runs) /\ \E m : Gathers(list, seqs, Len(submissions), m)
    BY <1>5, <1>6, <1>7, Flattened
  <1> HIDE DEF list
  <1>9. PICK m : Gathers(list, seqs, Len(submissions), m)  BY <1>8
  <1>10. \A i \in 1..Len(list) : /\ m[i] \in 1..Len(submissions) /\ list[i] = submissions[m[i]]
                                 /\ list[i] \in keeps
    <2> SUFFICES ASSUME NEW i \in 1..Len(list)
                 PROVE  /\ m[i] \in 1..Len(submissions) /\ list[i] = submissions[m[i]]
                        /\ list[i] \in keeps
      OBVIOUS
    <2>1. m[i] \in 1..Len(submissions) /\ seqs[m[i]] = <<list[i]>>  BY <1>9 DEF Gathers
    <2>2. seqs[m[i]] # <<>>  BY <2>1
    <2>3. <<list[i]>> = <<submissions[m[i]]>> /\ submissions[m[i]] \in keeps  BY <1>5, <2>1, <2>2
    <2> QED  BY <2>1, <2>3
  <1>11. DOMAIN list = 1..Len(list)  BY <1>8
  <1>12. IsInjective(list)
    <2>1. IsInjective(submissions)  BY DEF Known
    <2>2. ASSUME NEW i \in 1..Len(list), NEW j \in 1..Len(list), list[i] = list[j] PROVE i = j
      <3>1. m[i] = m[j]  BY <1>2, <1>10, <2>1, <2>2 DEF IsInjective
      <3> QED  BY <1>9, <3>1 DEF Gathers
    <2> QED  BY <1>11, <2>2 DEF IsInjective
  <1>13. ASSUME NEW r \in Runs PROVE r \in ToSet(list) <=> Alive(r) /\ r \in keeps
    <2>1. Alive(r) <=> r \in ToSet(submissions)  BY DEF Known
    <2>2. ASSUME r \in ToSet(list) PROVE r \in ToSet(submissions) /\ r \in keeps
      <3>1. PICK i \in 1..Len(list) : list[i] = r  BY <1>11, <2>2 DEF ToSet
      <3> QED  BY <1>2, <1>10, <3>1 DEF ToSet
    <2>3. ASSUME r \in ToSet(submissions), r \in keeps PROVE r \in ToSet(list)
      <3>1. PICK j \in 1..Len(submissions) : submissions[j] = r  BY <1>2, <2>3 DEF ToSet
      <3>2. seqs[j] # <<>>  BY <1>5, <2>3, <3>1
      <3>3. PICK i \in 1..Len(list) : m[i] = j  BY <1>9, <3>2 DEF Gathers
      <3>4. list[i] = r  BY <1>10, <3>1, <3>3
      <3> QED  BY <1>11, <3>4 DEF ToSet
    <2> QED  BY <2>1, <2>2, <2>3
  <1> QED  BY <1>3, <1>4, <1>8, <1>12, <1>13 DEF list

\* CheckAll queues one insert for every submission that it finalizes and that can be inserted.
LEMMA CheckedQueue ==
  ASSUME TypeOK, Known, CheckAll
  PROVE  \E q \in Seq(Transaction) :
           /\ dbQueue' = dbQueue \o q
           /\ \A i \in 1..Len(q) : /\ q[i].run \in Runs /\ Alive(q[i].run) /\ Inserts(sub[q[i].run])
                                   /\ q[i] = Insert(q[i].run, sub[q[i].run], FinalUUID(sub[q[i].run]))
           /\ \A i, j \in 1..Len(q) : q[i].run = q[j].run => i = j
           /\ \A r \in Runs : Alive(r) /\ Inserts(sub[r]) => \E i \in 1..Len(q) : q[i].run = r
  <1> DEFINE seqs == [i \in DOMAIN submissions |-> FinalInsert(submissions[i], sub[submissions[i]])]
             q == FlattenSeq(seqs)
             t(r) == Insert(r, sub[r], FinalUUID(sub[r]))
  <1>1. submissions \in Seq(Runs) /\ submissions # <<>>  BY DEF TypeOK, CheckAll
  <1>2. /\ Len(submissions) \in Nat \ {0} /\ DOMAIN submissions = 1..Len(submissions)
        /\ \A i \in 1..Len(submissions) : submissions[i] \in Runs
    BY <1>1, EmptySeq
  <1>3. dbQueue' = dbQueue \o q  BY DEF CheckAll
  <1>4. \A i \in 1..Len(submissions) : Alive(submissions[i]) /\ sub[submissions[i]] \in Sub
    BY <1>2, ZenonT(60) DEF Known, ToSet, TypeOK, Alive
  <1>5. ASSUME NEW i \in 1..Len(submissions)
        PROVE  LET r == submissions[i] IN
               /\ seqs[i] \in Seq(Transaction)
               /\ seqs[i] = IF Inserts(sub[r]) THEN <<t(r)>> ELSE <<>>
               /\ t(r).run = r
    <2> DEFINE r == submissions[i]
    <2>1. r \in Runs /\ sub[r] \in Sub  BY <1>2, <1>4
    <2>2. seqs[i] = FinalInsert(r, sub[r])  BY <1>2
    <2>3. t(r).run = r  BY DEF Insert
    <2> HIDE DEF r, seqs
    <2>4. /\ FinalInsert(r, sub[r]) \in Seq(Transaction)
          /\ FinalInsert(r, sub[r]) = IF Inserts(sub[r]) THEN <<t(r)>> ELSE <<>>
      BY <2>1, FinalizedFields
    <2> QED  BY <2>2, <2>3, <2>4 DEF r
  <1> HIDE DEF t
  <1>8. \A i \in 1..Len(submissions) : seqs[i] \in Seq(Transaction) /\ Len(seqs[i]) <= 1
    <2> SUFFICES ASSUME NEW i \in 1..Len(submissions)
                 PROVE  seqs[i] \in Seq(Transaction) /\ Len(seqs[i]) <= 1
      OBVIOUS
    <2>1. PICK x : seqs[i] \in Seq(Transaction) /\ (seqs[i] = <<x>> \/ seqs[i] = <<>>)
      BY <1>5
    <2> HIDE DEF seqs
    <2>2. Len(<<x>>) = 1  OBVIOUS
    <2>3. CASE seqs[i] = <<x>>
      <3>1. Len(seqs[i]) = 1  BY <2>2, <2>3
      <3> QED  BY <2>1, <3>1
    <2>4. CASE seqs[i] = <<>>
      <3>1. Len(seqs[i]) = 0  BY <2>4
      <3> QED  BY <2>1, <3>1
    <2> QED  BY <2>1, <2>3, <2>4
  <1>6. seqs \in Seq(Seq(Transaction)) /\ Len(seqs) = Len(submissions)
    <2>1. seqs = [i \in 1..Len(submissions) |-> seqs[i]]  BY <1>2
    <2> HIDE DEF seqs
    <2> QED  BY <1>2, <1>8, <2>1
  <1>7. seqs # <<>>  BY <1>2, <1>6, EmptySeq
  <1> HIDE DEF seqs
  <1>9. q \in Seq(Transaction) /\ \E m : Gathers(q, seqs, Len(submissions), m)
    BY <1>6, <1>7, <1>8, Flattened
  <1> HIDE DEF q
  <1>10. PICK m : Gathers(q, seqs, Len(submissions), m)  BY <1>9
  <1>11. ASSUME NEW i \in 1..Len(q)
         PROVE  /\ m[i] \in 1..Len(submissions) /\ q[i].run = submissions[m[i]]
                /\ q[i] = t(submissions[m[i]]) /\ Inserts(sub[submissions[m[i]]])
    <2>1. m[i] \in 1..Len(submissions) /\ seqs[m[i]] = <<q[i]>>  BY <1>10 DEF Gathers
    <2>2. seqs[m[i]] # <<>>  BY <2>1
    <2>3. <<q[i]>> = <<t(submissions[m[i]])>> /\ Inserts(sub[submissions[m[i]]])
      BY <1>5, <2>1, <2>2
    <2>4. q[i] = t(submissions[m[i]])  BY <2>3
    <2> QED  BY <1>5, <2>1, <2>3, <2>4
  <1>12. \A i \in 1..Len(q) : /\ q[i].run \in Runs /\ Alive(q[i].run) /\ Inserts(sub[q[i].run])
                              /\ q[i] = t(q[i].run)
    BY <1>2, <1>4, <1>11
  <1>13. ASSUME NEW i \in 1..Len(q), NEW j \in 1..Len(q), q[i].run = q[j].run PROVE i = j
    <2>1. m[i] = m[j]  BY <1>2, <1>11, <1>13 DEF Known, IsInjective
    <2> QED  BY <1>10, <2>1 DEF Gathers
  <1>14. ASSUME NEW r \in Runs, Alive(r), Inserts(sub[r]) PROVE \E i \in 1..Len(q) : q[i].run = r
    <2>1. PICK j \in 1..Len(submissions) : submissions[j] = r  BY <1>2, <1>14 DEF Known, ToSet
    <2>2. seqs[j] = <<t(r)>>  BY <1>5, <1>14, <2>1
    <2>3. seqs[j] # <<>>  BY <2>2
    <2>4. PICK i \in 1..Len(q) : m[i] = j  BY <1>10, <2>3 DEF Gathers
    <2> QED  BY <1>11, <2>1, <2>4
  <1> QED  BY <1>3, <1>9, <1>12, <1>13, <1>14 DEF t

\* What CheckAll does to one submission: it is finalized, announced, and collected.
LEMMA CheckedOne ==
  ASSUME TypeOK, CheckAll, NEW r \in Runs
  PROVE  /\ ~Alive(r) => sub'[r] = None /\ announced'[r] = announced[r] /\ inserts'[r] = inserts[r]
         /\ Alive(r) => LET t == TryFinalize(sub[r]) IN
              /\ t \in Sub
              /\ sub'[r] = IF Collects(t) THEN None
                           ELSE [t EXCEPT !.runAnnounced = @ \/ Announces(t)]
              /\ sub'[r] # None => sub'[r] \in Sub
              /\ Alive(r)' <=> ~Collects(t)
              /\ announced'[r] = IF Announces(t) THEN announced[r] + 1 ELSE announced[r]
              /\ inserts'[r] = inserts[r] + (IF Inserts(sub[r]) THEN 1 ELSE 0)
  <1> DEFINE checked == [q \in Runs |-> IF Alive(q) THEN TryFinalize(sub[q]) ELSE None]
             kept(q) == ~Collects(checked[q])
  <1>1. /\ sub' = [q \in Runs |->
                     IF ~Alive(q) \/ ~kept(q) THEN None
                     ELSE [checked[q] EXCEPT !.runAnnounced = @ \/ Announces(checked[q])]]
        /\ announced' = [q \in Runs |-> IF Alive(q) /\ Announces(checked[q])
                                        THEN announced[q] + 1 ELSE announced[q]]
        /\ inserts' = [q \in Runs |-> IF Alive(q) THEN inserts[q] + Len(FinalInsert(q, sub[q]))
                                      ELSE inserts[q]]
    BY DEF CheckAll
  <1>2. CASE ~Alive(r)  BY <1>1, <1>2
  <1>3. CASE Alive(r)
    <2> DEFINE t == TryFinalize(sub[r])
    <2>1. sub[r] \in Sub  BY <1>3 DEF TypeOK, Alive
    <2>2. /\ t \in Sub
          /\ FinalInsert(r, sub[r]) =
               IF Inserts(sub[r]) THEN <<Insert(r, sub[r], FinalUUID(sub[r]))>> ELSE <<>>
      BY <2>1, FinalizedFields
    <2>3. Len(FinalInsert(r, sub[r])) = IF Inserts(sub[r]) THEN 1 ELSE 0  BY <2>2
    <2>4. checked[r] = t  BY <1>3
    <2> HIDE DEF checked, t
    <2>5. (t.runAnnounced \/ Announces(t)) \in BOOLEAN  BY <2>2 DEF Sub
    <2>6. [t EXCEPT !.runAnnounced = @ \/ Announces(t)] \in Sub  BY <2>2, <2>5 DEF Sub
    <2>7. [t EXCEPT !.runAnnounced = @ \/ Announces(t)] # None  BY <2>6, NoneAssumption
    <2>8. sub'[r] = IF Collects(t) THEN None ELSE [t EXCEPT !.runAnnounced = @ \/ Announces(t)]
      BY <1>1, <1>3, <2>4
    <2>9. /\ announced'[r] = IF Announces(t) THEN announced[r] + 1 ELSE announced[r]
          /\ inserts'[r] = inserts[r] + Len(FinalInsert(r, sub[r]))
      BY <1>1, <1>3, <2>4
    <2> QED  BY <1>3, <2>2, <2>3, <2>6, <2>7, <2>8, <2>9 DEF t, Alive
  <1> QED  BY <1>2, <1>3

\* CheckAll keeps the types.
LEMMA CheckedTypes == ASSUME TypeOK, Known, CheckAll PROVE TypeOK'
  <1>1. UNCHANGED <<api, replay, dbResults, rows, ioVars, wanted, cleared>>  BY DEF CheckAll
  <1>2. PICK q \in Seq(Transaction) : dbQueue' = dbQueue \o q  BY CheckedQueue
  <1>3. dbQueue' \in Seq(Transaction)  BY <1>2 DEF TypeOK
  <1>4. submissions' \in Seq(Runs)  BY CheckedList
  <1>5. \A r \in Runs : /\ sub'[r] \in Sub \cup {None} /\ announced'[r] \in Nat /\ inserts'[r] \in Nat
    <2> SUFFICES ASSUME NEW r \in Runs
                 PROVE  /\ sub'[r] \in Sub \cup {None} /\ announced'[r] \in Nat /\ inserts'[r] \in Nat
      OBVIOUS
    <2>1. announced[r] \in Nat /\ inserts[r] \in Nat  BY DEF TypeOK
    <2>2. CASE ~Alive(r)  BY <2>1, <2>2, CheckedOne
    <2>3. CASE Alive(r)
      <3>1. PICK n \in {0, 1}, k \in {0, 1} : /\ announced'[r] = announced[r] + n
                                              /\ inserts'[r] = inserts[r] + k
        <4> DEFINE n == IF Announces(TryFinalize(sub[r])) THEN 1 ELSE 0
                   k == IF Inserts(sub[r]) THEN 1 ELSE 0
        <4>1. /\ announced'[r] = IF Announces(TryFinalize(sub[r])) THEN announced[r] + 1
                                 ELSE announced[r]
              /\ inserts'[r] = inserts[r] + k
          BY <2>3, CheckedOne
        <4>2. n \in {0, 1} /\ k \in {0, 1}  OBVIOUS
        <4>3. announced'[r] = announced[r] + n  BY <2>1, <4>1
        <4> HIDE DEF n, k
        <4> QED  BY <4>1, <4>2, <4>3
      <3>2. sub'[r] \in Sub \cup {None}  BY <2>3, CheckedOne
      <3> QED  BY <2>1, <3>1, <3>2
    <2> QED  BY <2>2, <2>3
  <1>6. /\ sub' = [r \in Runs |-> sub'[r]] /\ announced' = [r \in Runs |-> announced'[r]]
        /\ inserts' = [r \in Runs |-> inserts'[r]]
    BY DEF CheckAll
  <1>7. /\ sub' \in [Runs -> Sub \cup {None}] /\ announced' \in [Runs -> Nat] /\ inserts' \in [Runs -> Nat]
    BY <1>5, <1>6
  <1> QED  BY <1>1, <1>3, <1>4, <1>7 DEF TypeOK, ioVars

\* CheckAll collects no submission that is not announced, inserted and written.
LEMMA CheckAllSaved == ASSUME SavedInv, CheckAll PROVE SavedInv'
  <1>0. TypeOK /\ Known /\ Asked /\ \A q \in Runs : Kept(q)  BY DEF SavedInv
  <1>1. UNCHANGED <<api, replay, dbResults, rows, ioVars, wanted, cleared>>  BY DEF CheckAll
  <1>2. TypeOK'  BY <1>0, CheckedTypes
  <1>3. Known'
    <2>1. \A r \in Runs : Alive(r)' <=> Alive(r) /\ ~Collects(TryFinalize(sub[r]))
      BY <1>0, CheckedOne DEF Alive
    <2> QED  BY <1>0, <2>1, CheckedList DEF Known
  <1>4. ASSUME NEW r \in Runs, Alive(r)
        PROVE  LET t == TryFinalize(sub[r]) IN
               /\ sub[r] \in Sub /\ t \in Sub /\ Wished(t, wanted[r])
               /\ t.localSubmitted = (sub[r].localSubmitted \/ Inserts(sub[r]))
               /\ t.runAnnounced = sub[r].runAnnounced /\ t.replayReady = sub[r].replayReady
               /\ Alive(r)' => /\ sub'[r].localSubmitted = t.localSubmitted
                               /\ sub'[r].runAnnounced = (t.runAnnounced \/ Announces(t))
                               /\ sub'[r].replayReady = t.replayReady
                               /\ Wished(sub'[r], wanted[r])
    <2> DEFINE t == TryFinalize(sub[r])
    <2>1. sub[r] \in Sub /\ Wished(sub[r], wanted[r]) /\ wanted[r] \in BOOLEAN
      BY <1>0, <1>4 DEF TypeOK, Alive, Kept
    <2>2. /\ t \in Sub /\ t.localSubmitted = (sub[r].localSubmitted \/ Inserts(sub[r]))
          /\ t.runAnnounced = sub[r].runAnnounced /\ t.replayReady = sub[r].replayReady
      BY <2>1, FinalizedFields
    <2>3. Wished(t, wanted[r])  BY <2>1, FinalizedWishes
    <2>4. Alive(r)' => sub'[r] = [t EXCEPT !.runAnnounced = @ \/ Announces(t)]
      BY <1>0, <1>4, CheckedOne DEF Alive
    <2> HIDE DEF t
    <2>5. Alive(r)' => /\ sub'[r].localSubmitted = t.localSubmitted
                       /\ sub'[r].runAnnounced = (t.runAnnounced \/ Announces(t))
                       /\ sub'[r].replayReady = t.replayReady
                       /\ sub'[r].local = t.local /\ sub'[r].finalized = t.finalized
      BY <2>2, <2>4 DEF Sub
    <2>6. Alive(r)' => Wished(sub'[r], wanted[r])  BY <2>3, <2>5 DEF Wished
    <2> QED  BY <2>1, <2>2, <2>3, <2>5, <2>6 DEF t
  <1>5. Asking \subseteq Asking'
    <2>1. \A r \in Runs : Alive(r)' => Alive(r)  BY <1>0, CheckedOne DEF Alive
    <2> QED  BY <1>1, <1>4, <2>1, AskingKept
  <1>6. Asked'
    <2>1. PICK q \in Seq(Transaction) :
            /\ dbQueue' = dbQueue \o q
            /\ \A i \in 1..Len(q) : q[i].run \in Runs /\ Alive(q[i].run) /\ Inserts(sub[q[i].run])
      BY <1>0, CheckedQueue
    <2>2. \A i \in 1..Len(q) : q[i].run \in Asking'
      <3> SUFFICES ASSUME NEW i \in 1..Len(q) PROVE q[i].run \in Asking'  OBVIOUS
      <3> DEFINE r == q[i].run
      <3>1. r \in Runs /\ Alive(r) /\ Inserts(sub[r])  BY <2>1
      <3> HIDE DEF r
      <3>2. TryFinalize(sub[r]).localSubmitted  BY <1>4, <3>1
      <3>3. Alive(r)' => sub'[r].localSubmitted  BY <1>4, <3>1, <3>2
      <3>4. api'[r] # "idle"  BY <1>0, <1>1, <3>1 DEF Kept
      <3>5. r \in Asking'  BY <3>1, <3>3, <3>4 DEF Asking
      <3> QED  BY <3>5 DEF r
    <2>3. dbQueue \in Seq(Transaction)  BY <1>0 DEF TypeOK
    <2>4. /\ Len(dbQueue') = Len(dbQueue) + Len(q) /\ Len(dbQueue) \in Nat /\ Len(q) \in Nat
          /\ \A i \in 1..Len(dbQueue') :
               dbQueue'[i] = IF i <= Len(dbQueue) THEN dbQueue[i] ELSE q[i - Len(dbQueue)]
      BY <2>1, <2>3
    <2>5. ASSUME NEW i \in 1..Len(dbQueue')
          PROVE  dbQueue'[i].run \in Asking' \/ \E j \in 1..Len(dbQueue) : dbQueue'[i] = dbQueue[j]
      <3>1. CASE i <= Len(dbQueue)
        <4>1. i \in 1..Len(dbQueue)  BY <2>4, <3>1
        <4> QED  BY <2>4, <3>1, <4>1
      <3>2. CASE ~(i <= Len(dbQueue))
        <4>1. i - Len(dbQueue) \in 1..Len(q)  BY <2>4, <3>2
        <4> QED  BY <2>2, <2>4, <3>2, <4>1
      <3> QED  BY <3>1, <3>2
    <2> QED  BY <1>1, <1>5, <2>5, AskedKept
  <1>7. ASSUME NEW r \in Runs PROVE Kept(r)'
    <2>1. OnDisk(r)' <=> OnDisk(r)  BY <1>1 DEF OnDisk, WriteOf, ioVars
    <2>2. Kept(r)  BY <1>0
    <2>3. CASE ~Alive(r)
      <3>1. ~Alive(r)' /\ announced'[r] = announced[r] /\ inserts'[r] = inserts[r]
        BY <1>0, <2>3, CheckedOne DEF Alive
      <3> QED  BY <1>1, <2>1, <2>2, <2>3, <3>1 DEF Kept
    <2>4. CASE Alive(r)
      <3> DEFINE t == TryFinalize(sub[r])
      <3>1. /\ sub[r] \in Sub /\ t \in Sub /\ Wished(t, wanted[r])
            /\ t.localSubmitted = (sub[r].localSubmitted \/ Inserts(sub[r]))
            /\ t.runAnnounced = sub[r].runAnnounced /\ t.replayReady = sub[r].replayReady
            /\ Alive(r)' => /\ sub'[r].localSubmitted = t.localSubmitted
                            /\ sub'[r].runAnnounced = (t.runAnnounced \/ Announces(t))
                            /\ sub'[r].replayReady = t.replayReady
                            /\ Wished(sub'[r], wanted[r])
        BY <1>4, <2>4
      <3>2. /\ announced[r] = IF t.runAnnounced THEN 1 ELSE 0
            /\ inserts[r] = IF sub[r].localSubmitted THEN 1 ELSE 0
            /\ t.replayReady => OnDisk(r)
            /\ api[r] # "idle"
        BY <2>2, <2>4, <3>1 DEF Kept
      <3>3. /\ Alive(r)' <=> ~Collects(t)
            /\ announced'[r] = IF Announces(t) THEN announced[r] + 1 ELSE announced[r]
            /\ inserts'[r] = inserts[r] + (IF Inserts(sub[r]) THEN 1 ELSE 0)
        BY <1>0, <2>4, CheckedOne
      <3>4. Inserts(sub[r]) => ~sub[r].localSubmitted  BY DEF Inserts
      <3>5. Announces(t) => ~t.runAnnounced  BY DEF Announces
      <3>6. Collects(t) => /\ t.finalized /\ t.replayReady /\ (t.runAnnounced \/ Announces(t))
        BY DEF Collects, Announces
      <3>7. t.runAnnounced \in BOOLEAN /\ sub[r].localSubmitted \in BOOLEAN  BY <3>1 DEF Sub
      <3> HIDE DEF t
      <3>8. inserts'[r] = IF t.localSubmitted THEN 1 ELSE 0
        <4>1. CASE Inserts(sub[r])
          <5>1. t.localSubmitted  BY <3>1, <4>1
          <5>2. inserts[r] = 0  BY <3>2, <3>4, <4>1
          <5>3. inserts'[r] = inserts[r] + 1  BY <3>3, <4>1
          <5> QED  BY <5>1, <5>2, <5>3
        <4>2. CASE ~Inserts(sub[r])
          <5>1. t.localSubmitted = sub[r].localSubmitted /\ inserts'[r] = inserts[r]
            BY <3>1, <3>2, <3>3, <3>7, <4>2
          <5> QED  BY <3>2, <5>1
        <4> QED  BY <4>1, <4>2
      <3>9. announced'[r] = IF t.runAnnounced \/ Announces(t) THEN 1 ELSE 0
        <4>1. CASE Announces(t)  BY <3>2, <3>3, <3>5, <4>1
        <4>2. CASE ~Announces(t)
          <5>1. announced'[r] = announced[r]  BY <3>3, <4>2
          <5> QED  BY <3>2, <4>2, <5>1
        <4> QED  BY <4>1, <4>2
      <3>10. CASE Alive(r)'
        <4>1. inserts'[r] = IF sub'[r].localSubmitted THEN 1 ELSE 0  BY <3>1, <3>8, <3>10
        <4>2. announced'[r] = IF sub'[r].runAnnounced THEN 1 ELSE 0  BY <3>1, <3>9, <3>10
        <4> QED  BY <1>1, <2>1, <3>1, <3>2, <3>10, <4>1, <4>2 DEF Kept
      <3>11. CASE ~Alive(r)'
        <4>1. t.finalized /\ OnDisk(r) /\ announced'[r] = 1  BY <3>2, <3>3, <3>6, <3>9, <3>11
        <4>2. t.localSubmitted = wanted[r]  BY <3>1, <4>1 DEF Wished
        <4>3. inserts'[r] = IF wanted[r] THEN 1 ELSE 0  BY <3>8, <4>2
        <4> QED  BY <1>1, <2>1, <3>2, <3>11, <4>1, <4>3 DEF Kept
      <3> QED  BY <3>10, <3>11
    <2> QED  BY <2>3, <2>4
  <1> QED  BY <1>2, <1>3, <1>6, <1>7 DEF SavedInv

\* The invariant holds at first.
LEMMA InitSaved == Init => SavedInv
  BY DEF Init, SavedInv, TypeOK, Known, Asked, Kept, Alive, ToSet, IsInjective

\* Every step keeps the invariant.
LEMMA NextSaved == SavedInv /\ [Next]_vars => SavedInv'
  <1> SUFFICES ASSUME SavedInv, [Next]_vars PROVE SavedInv'  OBVIOUS
  <1> USE DEF auxVars, ioVars, dbVars
  <1>0. TypeOK  BY DEF SavedInv
  <1>1. ASSUME NEW r \in Runs, Create(r) PROVE SavedInv'  BY <1>1, CreateSaved
  <1>2. ASSUME NEW r \in Runs, SendQueued(r) PROVE SavedInv'
    <2>1. TypeOK' /\ \A q \in Runs : (api'[q] = "idle") = (api[q] = "idle")
      BY <1>0, <1>2 DEF SendQueued, TypeOK
    <2> QED  BY <1>2, <2>1, QuietSaved DEF SendQueued
  <1>3. ASSUME NEW r \in Runs, ApiAnswers(r) PROVE SavedInv'  BY <1>3, AnswerSaved
  <1>4. ASSUME NEW r \in Runs, EndBreather(r) PROVE SavedInv'
    <2>1. TypeOK'  BY <1>0, <1>4 DEF EndBreather, TypeOK
    <2> QED  BY <1>4, <2>1, QuietSaved DEF EndBreather
  <1>5. ASSUME NEW r \in Runs, ReplayReady(r) PROVE SavedInv'  BY <1>5, ReplaySaved
  <1>6. ASSUME NEW r \in Runs, OnClientDisconnect(r) PROVE SavedInv'
    <2>1. TypeOK'  BY <1>0, <1>6 DEF OnClientDisconnect, TypeOK
    <2> QED  BY <1>6, <2>1, QuietSaved DEF OnClientDisconnect
  <1>7. ASSUME NEW r \in Runs, WriteToFile(r) PROVE SavedInv'
    <2>1. TypeOK'  BY <1>0, <1>7 DEF WriteToFile, TypeOK, UUIDs
    <2>2. \A q \in Runs : files[q] # {} => files'[q] # {}  BY <1>0, <1>7 DEF WriteToFile, TypeOK
    <2> QED  BY <1>7, <2>1, <2>2, QuietSaved DEF WriteToFile
  <1>8. ASSUME NEW r \in Runs, TimePasses(r) PROVE SavedInv'
    <2>1. Alive(r) /\ sub[r].age < 2 /\ sub' = [sub EXCEPT ![r].age = @ + 1]
          /\ UNCHANGED <<submissions, api, replay, dbVars, ioVars, auxVars>>
      BY <1>8 DEF TimePasses
    <2>2. sub[r] \in Sub  BY <1>0, <2>1 DEF Alive, TypeOK
    <2>3. [sub[r] EXCEPT !.age = @ + 1] \in Sub  BY <2>1, <2>2 DEF Sub
    <2>4. TypeOK'  BY <1>0, <2>1, <2>3 DEF TypeOK
    <2> QED  BY <2>1, <2>4, QuietSaved
  <1>9. CASE DbExecutes  BY <1>9, DbSaved
  <1>10. CASE DbAnswers  BY <1>10, DbAnswersSaved
  <1>11. CASE FileTask  BY <1>11, FileSaved
  <1>12. CASE CheckAll  BY <1>12, CheckAllSaved
  <1>13. CASE MapChange  BY <1>13, MapSaved
  <1>14. CASE UNCHANGED vars
    <2>1. TypeOK'  BY <1>0, <1>14 DEF vars, TypeOK
    <2>2. Asked'  BY <1>14 DEF vars, SavedInv, Asked, Asking, Alive
    <2>3. \A q \in Runs : OnDisk(q) => OnDisk(q)'  BY <1>14 DEF vars, OnDisk, WriteOf
    <2> QED  BY <1>14, <2>1, <2>2, <2>3, StillSaved DEF vars
  <1> QED
    BY <1>1, <1>2, <1>3, <1>4, <1>5, <1>6, <1>7, <1>8, <1>9, <1>10, <1>11, <1>12, <1>13, <1>14
    DEF Next

\* The types of the state of the submissions hold forever.
THEOREM SubmissionTypes == Spec => []TypeOK
  <1>1. SavedInv => TypeOK  BY DEF SavedInv
  <1> QED  BY InitSaved, NextSaved, <1>1, PTL DEF Spec

\* CollectedRunsAreSaved: a submission that CheckAll deletes was announced once, inserted once if it
\* could be, and its replay given to the disk, whatever was answered, lost, timed out or left.
THEOREM CollectedAreSaved == Spec => []CollectedRunsAreSaved
  <1>1. SavedInv => CollectedRunsAreSaved
    BY DEF SavedInv, Kept, CollectedRunsAreSaved, OnDisk, WriteOf
  <1> QED  BY InitSaved, NextSaved, <1>1, PTL DEF Spec

------------------------------------------------------------------------------
(* The names agree. *)

\* The positions of a queue that are about r.
Items(queue, r) == {i \in 1..Len(queue) : queue[i].run = r}
\* Once the queue is executed, what r has now, a row or a file, if anything, is named u: what creates
\* it finds nothing there and names it u or is followed by what renames it.
Settles(queue, r, u, first, second, now) ==
  /\ \A i \in Items(queue, r) : queue[i].op = first =>
       /\ now = {}
       /\ queue[i].uuid = u \/ \E j \in Items(queue, r) : i < j /\ queue[j].op = second
  /\ \A i, j \in Items(queue, r) : queue[i].op = first /\ queue[j].op = first => i = j
  /\ \A i \in Items(queue, r) : queue[i].op = second => queue[i].uuid = "api" /\ u = "api"
  /\ \/ now \in {{}, {u}}
     \/ now = {"local"} /\ \E i \in Items(queue, r) : queue[i].op = second
Row(r) == IF rows[r] = None THEN {} ELSE {rows[r]}
\* The row and the file of r will both be named u.
Fate(r, u) ==
  /\ Settles(dbQueue, r, u, "insert", "update", Row(r))
  /\ replay[r] # "onDisk" => Settles(ioQueue, r, u, "write", "rename", files[r])
\* No file of r is written or about to be.
Unwritten(r) == files[r] = {} /\ \A i \in Items(ioQueue, r) : ioQueue[i].op # "write"
\* What the names of r depend on: u is the finalUUID of its submission, and some name after it.
Named(r) ==
  /\ inserts[r] = 0 => Items(dbQueue, r) = {} /\ rows[r] = None
  /\ replay[r] \in {"none", "breather", "serializing", "toFile"} => Unwritten(r)
  /\ api[r] = "idle" => replay[r] = "none" /\ Items(ioQueue, r) = {}
  /\ Alive(r) => /\ sub[r].replayReady <=> replay[r] = "done"
                 /\ sub[r].acked = "id" => sub[r].finalUUID = "api" /\ sub[r].finalized
                 /\ sub[r].localSubmitted /\ ~sub[r].finalized => api[r] = "lost"
  /\ \E u \in UUIDs : (Alive(r) => u = sub[r].finalUUID) /\ Fate(r, u)
NamesInv == SavedInv /\ \A r \in Runs : Named(r)

\* new is old followed by x, as far as r is concerned.
Joins(old, new, x, r) ==
  /\ Items(new, r) = Items(old, r) \cup {i + Len(old) : i \in Items(x, r)}
  /\ \A i \in Items(old, r) : new[i] = old[i]
  /\ \A i \in Items(x, r) : new[i + Len(old)] = x[i]

\* What a queue holds for r after another was appended to it.
LEMMA AddedItems ==
  ASSUME NEW T, NEW old \in Seq(T), NEW x \in Seq(T), NEW r
  PROVE  Joins(old, old \o x, x, r)
  <1> DEFINE new == old \o x
  <1>1. /\ Len(new) = Len(old) + Len(x) /\ Len(old) \in Nat /\ Len(x) \in Nat
        /\ \A i \in 1..Len(old) : new[i] = old[i] /\ i \in 1..Len(new)
        /\ \A i \in 1..Len(x) : new[i + Len(old)] = x[i] /\ i + Len(old) \in 1..Len(new)
    OBVIOUS
  <1>2. \A i \in 1..Len(new) : \/ i \in 1..Len(old)
                               \/ i - Len(old) \in 1..Len(x) /\ i = (i - Len(old)) + Len(old)
    BY <1>1
  <1> HIDE DEF new
  <1>3. Items(new, r) \subseteq Items(old, r) \cup {i + Len(old) : i \in Items(x, r)}
    <2> SUFFICES ASSUME NEW i \in 1..Len(new), new[i].run = r, i \notin Items(old, r)
                 PROVE  \E j \in Items(x, r) : i = j + Len(old)
      BY DEF Items
    <2>1. i \notin 1..Len(old)  BY <1>1 DEF Items
    <2>2. i - Len(old) \in 1..Len(x) /\ i = (i - Len(old)) + Len(old)  BY <1>2, <2>1
    <2>3. x[i - Len(old)].run = r  BY <1>1, <2>2
    <2> QED  BY <2>2, <2>3 DEF Items
  <1>4. Items(old, r) \cup {i + Len(old) : i \in Items(x, r)} \subseteq Items(new, r)
    BY <1>1 DEF Items
  <1>6. /\ \A i \in Items(old, r) : new[i] = old[i]
        /\ \A i \in Items(x, r) : new[i + Len(old)] = x[i]
    BY <1>1 DEF Items
  <1>5. Joins(old, new, x, r)  BY <1>3, <1>4, <1>6 DEF Joins
  <1> QED  BY <1>5 DEF new

\* new is old followed by t, as far as r is concerned.
Grows(old, new, t, r) ==
  /\ t.run # r => Items(new, r) = Items(old, r)
  /\ t.run = r => Items(new, r) = Items(old, r) \cup {Len(old) + 1}
  /\ \A i \in Items(old, r) : new[i] = old[i]
  /\ \A i \in Items(old, r) : i < Len(old) + 1
  /\ new[Len(old) + 1] = t

\* What a queue holds for r after an item was pushed.
LEMMA AddedItem ==
  ASSUME NEW T, NEW old \in Seq(T), NEW t \in T, NEW r
  PROVE  Grows(old, Append(old, t), t, r)
  <1> DEFINE new == Append(old, t)
  <1>1. /\ Len(new) = Len(old) + 1 /\ Len(old) \in Nat
        /\ \A i \in 1..Len(old) : new[i] = old[i]
        /\ new[Len(old) + 1] = t
    OBVIOUS
  <1> HIDE DEF new
  <1>2. \A i : i \in 1..Len(new) <=> i \in 1..Len(old) \/ i = Len(old) + 1  BY <1>1
  <1>3. \A i \in 1..Len(old) : i < Len(old) + 1  BY <1>1
  <1>4. Grows(old, new, t, r)  BY <1>1, <1>2, <1>3 DEF Items, Grows
  <1> QED  BY <1>4 DEF new

\* The two queues hold the same for r.
Alike(old, new, r) == Items(new, r) = Items(old, r) /\ \A i \in Items(old, r) : new[i] = old[i]

\* A queue whose items of r are the same settles the same.
LEMMA AlikeSettles ==
  ASSUME NEW old, NEW new, NEW r, Alike(old, new, r), NEW u, NEW first, NEW second, NEW now,
         Settles(old, r, u, first, second, now)
  PROVE  Settles(new, r, u, first, second, now)
  BY DEF Alike, Settles

\* An insert or a write under the name u is pushed.
LEMMA SettlesFirst ==
  ASSUME NEW old, NEW new, NEW r, NEW k, NEW u, NEW first, NEW second, first # second,
         Settles(old, r, u, first, second, {}),
         \A i \in Items(old, r) : old[i].op # first,
         Items(new, r) = Items(old, r) \cup {k}, \A i \in Items(old, r) : new[i] = old[i],
         new[k].op = first, new[k].uuid = u
  PROVE  Settles(new, r, u, first, second, {})
  BY DEF Settles

\* An update or a rename is pushed: whatever is there, it will be named "api".
LEMMA SettlesSecond ==
  ASSUME NEW old, NEW new, NEW r, NEW k, NEW u \in UUIDs, NEW first, NEW second, first # second, NEW now,
         Settles(old, r, u, first, second, now),
         Items(new, r) = Items(old, r) \cup {k}, \A i \in Items(old, r) : new[i] = old[i] /\ i < k,
         new[k].op = second, new[k].uuid = "api"
  PROVE  Settles(new, r, "api", first, second, now)
  <1>1. \A i \in Items(new, r) : new[i].op = first =>
          now = {} /\ \E j \in Items(new, r) : i < j /\ new[j].op = second
    BY DEF Settles
  <1>2. \A i, j \in Items(new, r) : new[i].op = first /\ new[j].op = first => i = j
    BY DEF Settles
  <1>3. \A i \in Items(new, r) : new[i].op = second => new[i].uuid = "api"  BY DEF Settles
  <1>4. now = {} \/ now = {"api"} \/ now = {"local"}  BY DEF Settles, UUIDs
  <1> QED  BY <1>1, <1>2, <1>3, <1>4 DEF Settles

\* Where nothing is written yet, the name may still change.
LEMMA SettlesNew ==
  ASSUME NEW queue, NEW r, NEW u, NEW v, NEW first, NEW second,
         Settles(queue, r, u, first, second, {}),
         \A i \in Items(queue, r) : queue[i].op # first,
         v = "api" \/ \A i \in Items(queue, r) : queue[i].op # second
  PROVE  Settles(queue, r, v, first, second, {})
  BY DEF Settles

\* The first item is executed: an insert or a write creates (or fails to), an update or a rename
\* renames.
LEMMA SettlesTail ==
  ASSUME NEW T, NEW queue \in Seq(T), queue # <<>>, NEW r, NEW u \in UUIDs, NEW first, NEW second,
         first # second, NEW now, NEW then,
         Settles(queue, r, u, first, second, now),
         LET t == Head(queue) IN
           /\ t.uuid \in UUIDs
           /\ t.run = r => t.op \in {first, second}
           /\ t.run # r => then = now
           /\ t.run = r /\ t.op = first => then = now \/ then = now \cup {t.uuid}
           /\ t.run = r /\ t.op = second =>
                then = IF "local" \in now THEN (now \ {"local"}) \cup {t.uuid} ELSE now
  PROVE  Settles(Tail(queue), r, u, first, second, then)
  <1> DEFINE t == Head(queue)
             new == Tail(queue)
  <1>1. /\ Len(new) = Len(queue) - 1 /\ Len(queue) \in Nat \ {0} /\ t = queue[1]
        /\ \A i \in 1..Len(new) : new[i] = queue[i + 1] /\ i + 1 \in 1..Len(queue)
    BY TailOf
  <1>2. \A i \in 1..Len(queue) : i = 1 \/ (i - 1 \in 1..Len(new) /\ (i - 1) + 1 = i)  BY <1>1
  <1>3. /\ t.uuid \in UUIDs
        /\ t.run = r => t.op \in {first, second}
        /\ t.run # r => then = now
        /\ t.run = r /\ t.op = first => then = now \/ then = now \cup {t.uuid}
        /\ t.run = r /\ t.op = second =>
             then = IF "local" \in now THEN (now \ {"local"}) \cup {t.uuid} ELSE now
    OBVIOUS
  <1> HIDE DEF t, new
  <1>4. \A i \in Items(new, r) :
          i + 1 \in Items(queue, r) /\ new[i] = queue[i + 1] /\ i + 1 # 1 /\ i \in Nat
    BY <1>1 DEF Items
  <1>5. \A j \in Items(queue, r) : j # 1 => j - 1 \in Items(new, r) /\ new[j - 1] = queue[j] /\ j \in Nat
    BY <1>1, <1>2 DEF Items
  <1>6. t.run = r => 1 \in Items(queue, r) /\ queue[1] = t  BY <1>1 DEF Items
  <1>7. ASSUME NEW i \in Items(new, r), new[i].op = first
        PROVE  /\ now = {} /\ then = {}
               /\ new[i].uuid = u \/ \E j \in Items(new, r) : i < j /\ new[j].op = second
    <2>1. /\ now = {}
          /\ queue[i + 1].uuid = u \/ \E j \in Items(queue, r) : i + 1 < j /\ queue[j].op = second
      BY <1>4, <1>7 DEF Settles
    <2>2. ~(t.run = r /\ t.op = first)  BY <1>4, <1>6, <1>7 DEF Settles
    <2>3. then = {}  BY <1>3, <2>1, <2>2
    <2>4. ASSUME NEW j \in Items(queue, r), i + 1 < j, queue[j].op = second
          PROVE  \E l \in Items(new, r) : i < l /\ new[l].op = second
      <3>1. j # 1 /\ i < j - 1  BY <1>4, <1>5, <2>4 DEF Items
      <3> QED  BY <1>5, <2>4, <3>1
    <2> QED  BY <1>4, <2>1, <2>3, <2>4
  <1>8. ASSUME NEW i \in Items(new, r), NEW j \in Items(new, r), new[i].op = first, new[j].op = first
        PROVE  i = j
    <2>1. i + 1 = j + 1  BY <1>4, <1>8 DEF Settles
    <2> QED  BY <1>4, <2>1
  <1>9. \A i \in Items(new, r) : new[i].op = second => new[i].uuid = "api" /\ u = "api"
    BY <1>4 DEF Settles
  <1>10. ASSUME NEW j \in Items(queue, r), queue[j].op = second, j # 1
         PROVE  \E i \in Items(new, r) : new[i].op = second
    BY <1>5, <1>10
  <1>11. \/ then \in {{}, {u}}
         \/ then = {"local"} /\ \E i \in Items(new, r) : new[i].op = second
    <2>1. CASE t.run # r
      <3>1. 1 \notin Items(queue, r)  BY <1>1, <2>1 DEF Items
      <3> QED  BY <1>3, <1>10, <2>1, <3>1 DEF Settles
    <2>2. CASE t.run = r /\ t.op = first
      <3>1. now = {} /\ (t.uuid = u \/ \E j \in Items(queue, r) : 1 < j /\ queue[j].op = second)
        BY <1>6, <2>2 DEF Settles
      <3>2. then = {} \/ then = {t.uuid}  BY <1>3, <2>2, <3>1
      <3>3. CASE t.uuid = u  BY <3>2, <3>3
      <3>4. CASE t.uuid # u
        <4>1. PICK j \in Items(queue, r) : 1 < j /\ queue[j].op = second  BY <3>1, <3>4
        <4>2. u = "api" /\ j # 1  BY <4>1 DEF Settles, Items
        <4>3. t.uuid = "local"  BY <1>3, <3>4, <4>2 DEF UUIDs
        <4> QED  BY <1>10, <3>2, <4>1, <4>2, <4>3
      <3> QED  BY <3>3, <3>4
    <2>3. CASE t.run = r /\ t.op = second
      <3>1. t.uuid = "api" /\ u = "api"  BY <1>6, <2>3 DEF Settles
      <3>2. now = {} \/ now = {"api"} \/ now = {"local"}  BY <3>1 DEF Settles
      <3>3. then = {} \/ then = {"api"}  BY <1>3, <2>3, <3>1, <3>2
      <3> QED  BY <3>1, <3>3
    <2> QED  BY <1>3, <2>1, <2>2, <2>3
  <1>12. Settles(new, r, u, first, second, then)
    BY <1>7, <1>8, <1>9, <1>11 DEF Settles
  <1> QED  BY <1>12 DEF new

\* What a queue holds for r after its head was taken.
LEMMA TailItems ==
  ASSUME NEW T, NEW queue \in Seq(T), queue # <<>>, NEW r
  PROVE  /\ \A i \in Items(Tail(queue), r) : i + 1 \in Items(queue, r) /\ Tail(queue)[i] = queue[i + 1]
         /\ Head(queue).run = r => 1 \in Items(queue, r) /\ queue[1] = Head(queue)
         /\ Head(queue) \in T
  BY TailOf DEF Items

\* A step that leaves what the names of q depend on alone.
LEMMA StillNamed ==
  ASSUME NEW q \in Runs, Named(q),
         Alike(dbQueue, dbQueue', q), Alike(ioQueue, ioQueue', q),
         rows'[q] = rows[q], files'[q] = files[q], inserts'[q] = inserts[q],
         api'[q] = "idle" => api[q] = "idle", api[q] = "lost" => api'[q] = "lost",
         Alive(q)' => /\ Alive(q)
                      /\ \A f \in {"replayReady", "acked", "finalUUID", "finalized", "localSubmitted"} :
                           sub'[q][f] = sub[q][f],
         \/ replay'[q] = replay[q]
         \/ replay[q] = "breather" /\ api[q] # "idle" /\ replay'[q] \in {"serializing", "toFile"}
         \/ replay[q] = "breather" /\ api[q] # "idle" /\ ~Alive(q)' /\ replay'[q] = "done"
  PROVE  Named(q)'
  <1>1. PICK u \in UUIDs : (Alive(q) => u = sub[q].finalUUID) /\ Fate(q, u)  BY DEF Named
  <1>2. Row(q)' = Row(q)  BY DEF Row
  <1>3. replay'[q] # "onDisk" => replay[q] # "onDisk"  OBVIOUS
  <1>4. Fate(q, u)'  BY <1>1, <1>2, <1>3, AlikeSettles DEF Fate
  <1>5. Alive(q)' => u = sub'[q].finalUUID  BY <1>1
  <1>6. Unwritten(q) => Unwritten(q)'  BY DEF Unwritten, Alike
  <1>7. /\ inserts'[q] = 0 => Items(dbQueue', q) = {} /\ rows'[q] = None
        /\ replay'[q] \in {"none", "breather", "serializing", "toFile"} => Unwritten(q)'
        /\ api'[q] = "idle" => replay'[q] = "none" /\ Items(ioQueue', q) = {}
    BY <1>6 DEF Named, Alike
  <1>8. Alive(q)' => /\ sub'[q].replayReady <=> replay'[q] = "done"
                     /\ sub'[q].acked = "id" => sub'[q].finalUUID = "api" /\ sub'[q].finalized
                     /\ sub'[q].localSubmitted /\ ~sub'[q].finalized => api'[q] = "lost"
    <2> SUFFICES ASSUME Alive(q)'
                 PROVE  /\ sub'[q].replayReady <=> replay'[q] = "done"
                        /\ sub'[q].acked = "id" => sub'[q].finalUUID = "api" /\ sub'[q].finalized
                        /\ sub'[q].localSubmitted /\ ~sub'[q].finalized => api'[q] = "lost"
      OBVIOUS
    <2>1. /\ sub'[q].replayReady = sub[q].replayReady /\ sub'[q].acked = sub[q].acked
          /\ sub'[q].finalUUID = sub[q].finalUUID /\ sub'[q].finalized = sub[q].finalized
          /\ sub'[q].localSubmitted = sub[q].localSubmitted
      OBVIOUS
    <2>2. replay'[q] = "done" <=> replay[q] = "done"  OBVIOUS
    <2> QED  BY <2>1, <2>2 DEF Named
  <1> QED  BY <1>1, <1>4, <1>5, <1>7, <1>8 DEF Named

\* A queue is like itself.
LEMMA AlikeSame == ASSUME NEW queue, NEW r PROVE Alike(queue, queue, r)
  BY DEF Alike

\* The rows of a submission that is finalized.
LEMMA FinalRows ==
  ASSUME NEW r \in Runs, NEW s \in Sub, NEW new, NEW k,
         inserts[r] = 0 => Items(dbQueue, r) = {} /\ rows[r] = None,
         Settles(dbQueue, r, s.finalUUID, "insert", "update", Row(r)),
         s.localSubmitted \/ inserts[r] = 0,
         Finalizes(s) /\ FinalUUID(s) # s.finalUUID => inserts[r] = 0,
         IF Inserts(s)
           THEN Items(new, r) = Items(dbQueue, r) \cup {k} /\ new[k] = Insert(r, s, FinalUUID(s))
           ELSE Items(new, r) = Items(dbQueue, r),
         \A i \in Items(dbQueue, r) : new[i] = dbQueue[i]
  PROVE  /\ Settles(new, r, TryFinalize(s).finalUUID, "insert", "update", Row(r))
         /\ inserts[r] = 0 /\ ~Inserts(s) => Items(new, r) = {}
  <1> DEFINE v == TryFinalize(s).finalUUID
  <1>1. v = IF Finalizes(s) THEN FinalUUID(s) ELSE s.finalUUID  BY FinalizedFields
  <1> HIDE DEF v
  <1>2. CASE Inserts(s)
    <2>1. inserts[r] = 0 /\ v = FinalUUID(s)  BY <1>1, <1>2 DEF Inserts
    <2>2. Items(dbQueue, r) = {} /\ Row(r) = {}  BY <2>1 DEF Row
    <2>3. Settles(dbQueue, r, v, "insert", "update", {})  BY <2>2 DEF Settles
    <2>4. new[k].op = "insert" /\ new[k].uuid = v  BY <1>2, <2>1 DEF Insert
    <2>5. Settles(new, r, v, "insert", "update", {})
      BY <1>2, <2>2, <2>3, <2>4, SettlesFirst
    <2> QED  BY <1>2, <2>2, <2>5 DEF v
  <1>3. CASE ~Inserts(s)
    <2>1. Alike(dbQueue, new, r)  BY <1>3 DEF Alike
    <2>2. Settles(dbQueue, r, v, "insert", "update", Row(r))
      <3>1. CASE inserts[r] = 0
        <4>1. Items(dbQueue, r) = {} /\ Row(r) = {}  BY <3>1 DEF Row
        <4> QED  BY <4>1 DEF Settles
      <3>2. CASE inserts[r] # 0  BY <1>1, <3>2
      <3> QED  BY <3>1, <3>2
    <2>3. Settles(new, r, v, "insert", "update", Row(r))  BY <2>1, <2>2, AlikeSettles
    <2> QED  BY <1>3, <2>3 DEF v
  <1> QED  BY <1>2, <1>3

\* A step that finalizes the submission of r, and where it leaves the queue of the others.
LEMMA FinalStepNamed ==
  ASSUME NamesInv, NEW r \in Runs, Alive(r), NEW s \in Sub,
         s.localSubmitted = sub[r].localSubmitted, s.finalized = sub[r].finalized,
         s.finalized /\ s.acked = "id" => s.finalUUID = "api",
         sub' = [sub EXCEPT ![r] = TryFinalize(s)],
         dbQueue' = dbQueue \o FinalInsert(r, s),
         inserts' = [inserts EXCEPT ![r] = @ + Len(FinalInsert(r, s))],
         rows' = rows,
         Settles(dbQueue, r, s.finalUUID, "insert", "update", Row(r)),
         Finalizes(s) /\ FinalUUID(s) # s.finalUUID => ~s.localSubmitted,
         replay'[r] # "onDisk" =>
           Settles(ioQueue', r, TryFinalize(s).finalUUID, "write", "rename", files'[r]),
         replay'[r] \in {"none", "breather", "serializing", "toFile"} => Unwritten(r)',
         s.replayReady <=> replay'[r] = "done",
         api'[r] # "idle", api[r] = "lost" => api'[r] = "lost"
  PROVE  Named(r)' /\ \A q \in Runs \ {r} : Alike(dbQueue, dbQueue', q)
  <1>0. TypeOK /\ Kept(r) /\ Named(r)  BY DEF NamesInv, SavedInv
  <1> DEFINE t == TryFinalize(s)
             n == Len(FinalInsert(r, s))
  <1>1. /\ t \in Sub /\ t.acked = s.acked /\ t.replayReady = s.replayReady
        /\ t.localSubmitted = (s.localSubmitted \/ Inserts(s))
        /\ t.finalized = (s.finalized \/ Finalizes(s))
        /\ t.finalUUID = IF Finalizes(s) THEN FinalUUID(s) ELSE s.finalUUID
        /\ FinalInsert(r, s) \in Seq(Transaction)
        /\ FinalInsert(r, s) = IF Inserts(s) THEN <<Insert(r, s, FinalUUID(s))>> ELSE <<>>
    BY FinalizedFields
  <1>2. dbQueue \in Seq(Transaction) /\ inserts[r] \in Nat  BY <1>0 DEF TypeOK
  <1>3. /\ ~Inserts(s) => dbQueue' = dbQueue /\ n = 0
        /\ Inserts(s) => dbQueue' = Append(dbQueue, Insert(r, s, FinalUUID(s))) /\ n = 1
    BY <1>2, QueuedInsert
  <1>4. Inserts(s) => Insert(r, s, FinalUUID(s)) \in Transaction
    <2>1. Inserts(s) => FinalInsert(r, s)[1] \in Transaction  BY <1>1
    <2>2. Inserts(s) => FinalInsert(r, s)[1] = Insert(r, s, FinalUUID(s))  BY <1>1
    <2> QED  BY <2>1, <2>2
  <1>5. inserts[r] = IF s.localSubmitted THEN 1 ELSE 0  BY <1>0 DEF Kept
  <1>6. Insert(r, s, FinalUUID(s)).run = r  BY DEF Insert
  <1> DEFINE k == Len(dbQueue) + 1
             a == Insert(r, s, FinalUUID(s))
  <1>7. ASSUME NEW q
        PROVE  /\ \A i \in Items(dbQueue, q) : dbQueue'[i] = dbQueue[i]
               /\ q # r \/ ~Inserts(s) => Items(dbQueue', q) = Items(dbQueue, q)
               /\ Inserts(s) => Items(dbQueue', r) = Items(dbQueue, r) \cup {k} /\ dbQueue'[k] = a
    <2>1. CASE ~Inserts(s)  BY <1>3, <2>1
    <2>2. CASE Inserts(s)
      <3> HIDE DEF a
      <3>1. a \in Transaction /\ dbQueue' = Append(dbQueue, a) /\ a.run = r
        BY <1>3, <1>4, <1>6, <2>2 DEF a
      <3>2. Grows(dbQueue, dbQueue', a, q) /\ Grows(dbQueue, dbQueue', a, r)
        BY <1>2, <3>1, AddedItem
      <3>3. k = Len(dbQueue) + 1  OBVIOUS
      <3> HIDE DEF k
      <3> QED  BY <2>2, <3>1, <3>2, <3>3 DEF Grows
    <2> QED  BY <2>1, <2>2
  <1> HIDE DEF k, n, t
  <1>8. Named(r)'
    <2>1. /\ Settles(dbQueue', r, t.finalUUID, "insert", "update", Row(r))
          /\ inserts[r] = 0 /\ ~Inserts(s) => Items(dbQueue', r) = {}
      <3>1. inserts[r] = 0 => Items(dbQueue, r) = {} /\ rows[r] = None  BY <1>0 DEF Named
      <3>2. s.localSubmitted \/ inserts[r] = 0  BY <1>5
      <3>3. Finalizes(s) /\ FinalUUID(s) # s.finalUUID => inserts[r] = 0  BY <1>5
      <3> HIDE DEF a
      <3>4. IF Inserts(s)
              THEN Items(dbQueue', r) = Items(dbQueue, r) \cup {k} /\ dbQueue'[k] = a
              ELSE Items(dbQueue', r) = Items(dbQueue, r)
        BY <1>7
      <3>5. \A i \in Items(dbQueue, r) : dbQueue'[i] = dbQueue[i]  BY <1>7
      <3> QED  BY <3>1, <3>2, <3>3, <3>4, <3>5, FinalRows DEF t, a
    <2>2. sub'[r] = t /\ inserts'[r] = inserts[r] + n  BY <1>0 DEF TypeOK, t, n
    <2>3. Alive(r)'  BY <1>1, <2>2, NoneAssumption DEF Alive
    <2>4. inserts'[r] = 0 => inserts[r] = 0 /\ ~Inserts(s)  BY <1>2, <1>3, <2>2
    <2>5. inserts'[r] = 0 => Items(dbQueue', r) = {} /\ rows'[r] = None
      BY <1>0, <2>1, <2>4 DEF Named
    <2>6. Row(r)' = Row(r)  BY DEF Row
    <2>7. Fate(r, t.finalUUID)'  BY <2>1, <2>6 DEF Fate, t
    <2>8. t.acked = "id" => t.finalUUID = "api" /\ t.finalized
      <3>1. CASE Finalizes(s)  BY <1>1, <3>1 DEF FinalUUID
      <3>2. CASE ~Finalizes(s)  BY <1>1, <3>2 DEF Finalizes
      <3> QED  BY <3>1, <3>2
    <2>9. t.localSubmitted /\ ~t.finalized => api'[r] = "lost"
      <3>1. Inserts(s) => Finalizes(s)  BY DEF Inserts
      <3>2. s.localSubmitted \in BOOLEAN /\ s.finalized \in BOOLEAN  BY DEF Sub
      <3>3. t.localSubmitted /\ ~t.finalized => s.localSubmitted /\ ~s.finalized
        BY <1>1, <3>1, <3>2
      <3>4. s.localSubmitted /\ ~s.finalized => api[r] = "lost"  BY <1>0 DEF Named
      <3> QED  BY <3>3, <3>4
    <2>10. t.finalUUID \in UUIDs  BY <1>1 DEF Sub
    <2> QED  BY <1>1, <2>2, <2>3, <2>5, <2>7, <2>8, <2>9, <2>10 DEF Named
  <1>9. \A q \in Runs \ {r} : Alike(dbQueue, dbQueue', q)  BY <1>7 DEF Alike
  <1> QED  BY <1>8, <1>9

\* The API's answer: before the submission is final its name is still free, or a replay on its way
\* is renamed; afterwards both the file and the row are.
LEMMA AnswerNamed == ASSUME NamesInv, NEW r \in Runs, ApiAnswers(r) PROVE \A q \in Runs : Named(q)'
  <1>0. TypeOK /\ \A q \in Runs : Kept(q) /\ Named(q)  BY DEF NamesInv, SavedInv
  <1>1. /\ api' = [api EXCEPT ![r] = "answered"] /\ api[r] = "sent"
        /\ UNCHANGED <<submissions, replay, dbResults, rows, files, announced, wanted, cleared>>
    BY DEF ApiAnswers
  <1>2. \A q \in Runs : /\ (api'[q] = "idle" => api[q] = "idle") /\ (api[q] = "lost" => api'[q] = "lost")
                        /\ replay'[q] = replay[q] /\ rows'[q] = rows[q] /\ files'[q] = files[q]
    BY <1>0, <1>1 DEF TypeOK
  <1>3. CASE ~Alive(r)
    <2>1. UNCHANGED <<sub, ioQueue, dbQueue, inserts>>  BY <1>3 DEF ApiAnswers
    <2> QED  BY <1>0, <1>2, <2>1, AlikeSame, StillNamed DEF Alive
  <1>4. CASE Alive(r)
    <2>0. sub[r] \in Sub  BY <1>0, <1>4 DEF Alive, TypeOK
    <2>1. PICK id \in {"empty", "id"} :
            LET s == [sub[r] EXCEPT !.acked = id, !.pendingQueued = FALSE]
            IN  IF s.finalized THEN LateAnswer(r, s) ELSE EarlyAnswer(r, s)
      BY <1>4 DEF ApiAnswers
    <2> DEFINE s == [sub[r] EXCEPT !.acked = id, !.pendingQueued = FALSE]
               task == [op |-> "rename", run |-> r, uuid |-> "api"]
    <2>2. /\ s \in Sub /\ s.localSubmitted = sub[r].localSubmitted /\ s.finalized = sub[r].finalized
          /\ s.replayReady = sub[r].replayReady /\ s.finalUUID = sub[r].finalUUID /\ s.acked = id
      BY <2>0 DEF Sub
    <2>3. /\ [s EXCEPT !.finalUUID = "api"] \in Sub
          /\ \A f \in {"localSubmitted", "finalized", "replayReady", "acked"} :
               [s EXCEPT !.finalUUID = "api"][f] = s[f]
          /\ [s EXCEPT !.finalUUID = "api"].finalUUID = "api"
      BY <2>2 DEF Sub, UUIDs
    <2>4. task \in Task /\ task.op = "rename" /\ task.run = r /\ task.uuid = "api"
      BY DEF Task, UUIDs
    <2>5. ioQueue \in Seq(Task) /\ dbQueue \in Seq(Transaction)  BY <1>0 DEF TypeOK
    <2> HIDE DEF s, task
    <2>6. PICK u \in UUIDs : u = s.finalUUID /\ Fate(r, u)  BY <1>0, <1>4, <2>2 DEF Named
    <2>7. ASSUME ioQueue' = Append(ioQueue, task)
          PROVE  /\ \A q \in Runs \ {r} : Alike(ioQueue, ioQueue', q)
                 /\ replay[r] # "onDisk" => Settles(ioQueue', r, "api", "write", "rename", files[r])
                 /\ Unwritten(r) => Unwritten(r)'
      <3> DEFINE k == Len(ioQueue) + 1
      <3>0. k = Len(ioQueue) + 1  OBVIOUS
      <3> HIDE DEF k
      <3>1. \A q : /\ task.run # q => Items(ioQueue', q) = Items(ioQueue, q)
                   /\ task.run = q => Items(ioQueue', q) = Items(ioQueue, q) \cup {k}
                   /\ \A i \in Items(ioQueue, q) : ioQueue'[i] = ioQueue[i] /\ i < k
                   /\ ioQueue'[k] = task
        <4>1. \A q : Grows(ioQueue, ioQueue', task, q)  BY <2>4, <2>5, <2>7, AddedItem
        <4> QED  BY <3>0, <4>1 DEF Grows
      <3>2. \A q \in Runs \ {r} : Alike(ioQueue, ioQueue', q)  BY <2>4, <3>1 DEF Alike
      <3>3. replay[r] # "onDisk" => Settles(ioQueue, r, u, "write", "rename", files[r])
        BY <2>6 DEF Fate
      <3>4. replay[r] # "onDisk" => Settles(ioQueue', r, "api", "write", "rename", files[r])
        BY <2>4, <3>1, <3>3, SettlesSecond
      <3>5. Unwritten(r) => Unwritten(r)'  BY <1>1, <2>4, <3>1 DEF Unwritten
      <3> QED  BY <3>2, <3>4, <3>5
    <2>8. CASE ~s.finalized
      <3>1. EarlyAnswer(r, s)  BY <2>1, <2>8 DEF s
      <3> DEFINE renames == s.replayReady /\ s.acked = "id" /\ s.finalUUID # "api"
                 t == IF renames THEN [s EXCEPT !.finalUUID = "api"] ELSE s
      <3>2. /\ ioQueue' = IF renames THEN Append(ioQueue, task) ELSE ioQueue
            /\ sub' = [sub EXCEPT ![r] = TryFinalize(t)]
            /\ dbQueue' = dbQueue \o FinalInsert(r, t)
            /\ inserts' = [inserts EXCEPT ![r] = @ + Len(FinalInsert(r, t))]
        BY <3>1 DEF EarlyAnswer, task
      <3>3. /\ t \in Sub /\ t.localSubmitted = sub[r].localSubmitted /\ t.finalized = sub[r].finalized
            /\ t.replayReady = sub[r].replayReady /\ t.acked = id
            /\ t.finalUUID = IF renames THEN "api" ELSE s.finalUUID
        BY <2>2, <2>3
      <3>4. ~sub[r].localSubmitted  BY <1>0, <1>1, <1>4, <2>2, <2>8 DEF Named
      <3>5. inserts[r] = 0 /\ Items(dbQueue, r) = {} /\ Row(r) = {}
        BY <1>0, <1>4, <3>4 DEF Kept, Named, Row
      <3>6. Settles(dbQueue, r, t.finalUUID, "insert", "update", Row(r))  BY <3>5 DEF Settles
      <3> HIDE DEF t
      <3>7. TryFinalize(t).finalUUID = IF Finalizes(t) THEN FinalUUID(t) ELSE t.finalUUID
        BY <3>3, FinalizedFields
      <3>8. \/ renames /\ TryFinalize(t).finalUUID = "api"
            \/ ~renames /\ TryFinalize(t).finalUUID = u
            \/ ~renames /\ TryFinalize(t).finalUUID = "api" /\ ~s.replayReady
        BY <2>2, <2>6, <3>3, <3>7 DEF FinalUUID
      <3>9. replay[r] # "onDisk" =>
              Settles(ioQueue', r, TryFinalize(t).finalUUID, "write", "rename", files[r])
        <4> SUFFICES ASSUME replay[r] # "onDisk"
                     PROVE  Settles(ioQueue', r, TryFinalize(t).finalUUID, "write", "rename", files[r])
          OBVIOUS
        <4>1. Settles(ioQueue, r, u, "write", "rename", files[r])  BY <2>6 DEF Fate
        <4>2. CASE renames  BY <2>7, <3>2, <3>8, <4>2
        <4>3. CASE ~renames /\ TryFinalize(t).finalUUID = u  BY <3>2, <4>1, <4>3
        <4>4. CASE ~renames /\ TryFinalize(t).finalUUID = "api" /\ ~s.replayReady
          <5>1. replay[r] # "done"  BY <1>0, <1>4, <2>2, <4>4 DEF Named
          <5>2. replay[r] \in {"none", "breather", "serializing", "toFile"}
            BY <1>0, <5>1 DEF TypeOK
          <5>3. Unwritten(r)  BY <1>0, <5>2 DEF Named
          <5> QED  BY <3>2, <4>1, <4>4, <5>3, SettlesNew DEF Unwritten
        <4> QED  BY <3>8, <4>2, <4>3, <4>4
      <3>10. Unwritten(r) => Unwritten(r)'
        <4>1. ~renames => ioQueue' = ioQueue  BY <3>2
        <4> QED  BY <1>1, <2>7, <3>2, <4>1 DEF Unwritten
      <3>11. \A q \in Runs \ {r} : Alike(ioQueue, ioQueue', q)  BY <2>7, <3>2, AlikeSame
      <3>12. Named(r)' /\ \A q \in Runs \ {r} : Alike(dbQueue, dbQueue', q)
        <4>1. replay'[r] \in {"none", "breather", "serializing", "toFile"} => Unwritten(r)'
          BY <1>0, <1>1, <3>10 DEF Named
        <4>2. t.replayReady <=> replay'[r] = "done"  BY <1>0, <1>1, <1>4, <3>3 DEF Named
        <4>3. api'[r] # "idle" /\ (api[r] = "lost" => api'[r] = "lost")  BY <1>0, <1>1 DEF TypeOK
        <4>4. t.finalized /\ t.acked = "id" => t.finalUUID = "api"  BY <2>2, <2>8, <3>3
        <4>5. replay'[r] # "onDisk" =>
                Settles(ioQueue', r, TryFinalize(t).finalUUID, "write", "rename", files'[r])
          BY <1>1, <3>9
        <4> QED
          BY <1>1, <1>4, <3>2, <3>3, <3>4, <3>6, <4>1, <4>2, <4>3, <4>4, <4>5, FinalStepNamed
      <3>13. ASSUME NEW q \in Runs \ {r} PROVE Named(q)'
        <4>1. sub'[q] = sub[q] /\ inserts'[q] = inserts[q]  BY <1>0, <3>2 DEF TypeOK
        <4> QED  BY <1>0, <1>2, <3>11, <3>12, <4>1, StillNamed DEF Alive
      <3> QED  BY <3>12, <3>13
    <2>9. CASE s.finalized
      <3>1. LateAnswer(r, s)  BY <2>1, <2>9 DEF s
      <3>2. inserts' = inserts  BY <3>1 DEF LateAnswer
      <3>3. CASE id # "id"
        <4>1. sub' = [sub EXCEPT ![r] = s] /\ UNCHANGED <<ioQueue, dbQueue>>
          BY <2>2, <3>1, <3>3 DEF LateAnswer
        <4>2. Named(r)'
          <5>1. sub'[r] = s /\ Alive(r)'  BY <1>0, <2>2, <4>1, NoneAssumption DEF TypeOK, Alive
          <5>2. Row(r)' = Row(r) /\ (Unwritten(r)' <=> Unwritten(r))
            BY <1>1, <4>1 DEF Row, Unwritten
          <5>3. Fate(r, u)'  BY <1>2, <2>6, <4>1, <5>2 DEF Fate
          <5>4. s.replayReady <=> replay'[r] = "done"  BY <1>0, <1>2, <1>4, <2>2 DEF Named
          <5> QED
            BY <1>0, <1>2, <2>2, <2>6, <2>9, <3>2, <3>3, <4>1, <5>1, <5>2, <5>3, <5>4 DEF Named
        <4>3. ASSUME NEW q \in Runs \ {r} PROVE Named(q)'
          <5>1. sub'[q] = sub[q] /\ inserts'[q] = inserts[q]  BY <1>0, <3>2, <4>1 DEF TypeOK
          <5> QED  BY <1>0, <1>2, <4>1, <5>1, AlikeSame, StillNamed DEF Alive
        <4> QED  BY <4>2, <4>3
      <3>4. CASE id = "id"
        <4> DEFINE t == [s EXCEPT !.finalUUID = "api"]
                   a == [op |-> "update", run |-> r, uuid |-> "api", asks |-> FALSE]
        <4>1. /\ sub' = [sub EXCEPT ![r] = t]
              /\ ioQueue' = Append(ioQueue, task)
              /\ dbQueue' = IF s.localSubmitted THEN Append(dbQueue, a) ELSE dbQueue
          BY <2>2, <3>1, <3>4 DEF LateAnswer, task
        <4>2. a \in Transaction /\ a.run = r /\ a.op = "update" /\ a.uuid = "api"
          BY DEF Transaction, UUIDs
        <4>3. /\ t \in Sub /\ t.localSubmitted = sub[r].localSubmitted /\ t.finalized
              /\ t.replayReady = sub[r].replayReady /\ t.acked = "id" /\ t.finalUUID = "api"
          BY <2>2, <2>3, <2>9, <3>4
        <4> HIDE DEF a, t
        <4>4. Settles(dbQueue, r, u, "insert", "update", Row(r))  BY <2>6 DEF Fate
        <4>5. /\ \A q \in Runs \ {r} : Alike(dbQueue, dbQueue', q)
              /\ Settles(dbQueue', r, "api", "insert", "update", Row(r))
              /\ inserts[r] = 0 => Items(dbQueue', r) = {}
          <5>1. CASE s.localSubmitted
            <6> DEFINE k == Len(dbQueue) + 1
            <6>0. k = Len(dbQueue) + 1  OBVIOUS
            <6> HIDE DEF k
            <6>1. dbQueue' = Append(dbQueue, a)  BY <4>1, <5>1
            <6>2. \A q : /\ a.run # q => Items(dbQueue', q) = Items(dbQueue, q)
                         /\ a.run = q => Items(dbQueue', q) = Items(dbQueue, q) \cup {k}
                         /\ \A i \in Items(dbQueue, q) : dbQueue'[i] = dbQueue[i] /\ i < k
                         /\ dbQueue'[k] = a
              <7>1. \A q : Grows(dbQueue, dbQueue', a, q)  BY <2>5, <4>2, <6>1, AddedItem
              <7> QED  BY <6>0, <7>1 DEF Grows
            <6>3. \A q \in Runs \ {r} : Alike(dbQueue, dbQueue', q)  BY <4>2, <6>2 DEF Alike
            <6>4. Settles(dbQueue', r, "api", "insert", "update", Row(r))
              BY <4>2, <4>4, <6>2, SettlesSecond
            <6>5. inserts[r] # 0
              <7>1. inserts[r] = IF sub[r].localSubmitted THEN 1 ELSE 0  BY <1>0, <1>4 DEF Kept
              <7>2. sub[r].localSubmitted  BY <2>2, <5>1
              <7> QED  BY <7>1, <7>2
            <6> QED  BY <6>3, <6>4, <6>5
          <5>2. CASE ~s.localSubmitted
            <6>1. inserts[r] = 0  BY <1>0, <1>4, <2>2, <5>2 DEF Kept
            <6>2. Items(dbQueue, r) = {} /\ Row(r) = {}  BY <1>0, <6>1 DEF Named, Row
            <6>3. dbQueue' = dbQueue  BY <4>1, <5>2
            <6>4. Settles(dbQueue, r, "api", "insert", "update", Row(r))  BY <6>2 DEF Settles
            <6> QED  BY <6>2, <6>3, <6>4, AlikeSame
          <5> QED  BY <5>1, <5>2
        <4>6. Named(r)'
          <5>1. sub'[r] = t /\ Alive(r)'  BY <1>0, <4>1, <4>3, NoneAssumption DEF TypeOK, Alive
          <5>2. Row(r)' = Row(r)  BY <1>1 DEF Row
          <5>3. Fate(r, "api")'  BY <1>2, <2>7, <4>1, <4>5, <5>2 DEF Fate
          <5>4. replay'[r] \in {"none", "breather", "serializing", "toFile"} => Unwritten(r)'
            BY <1>0, <1>2, <2>7, <4>1 DEF Named
          <5>5. t.replayReady <=> replay'[r] = "done"  BY <1>0, <1>2, <1>4, <4>3 DEF Named
          <5>6. inserts'[r] = 0 => Items(dbQueue', r) = {} /\ rows'[r] = None
            BY <1>0, <1>2, <3>2, <4>5 DEF Named
          <5>7. api'[r] # "idle"  BY <1>0, <1>1 DEF TypeOK
          <5>8. "api" \in UUIDs  BY DEF UUIDs
          <5> QED  BY <4>3, <5>1, <5>3, <5>4, <5>5, <5>6, <5>7, <5>8 DEF Named
        <4>7. ASSUME NEW q \in Runs \ {r} PROVE Named(q)'
          <5>1. sub'[q] = sub[q] /\ inserts'[q] = inserts[q]  BY <1>0, <3>2, <4>1 DEF TypeOK
          <5> QED  BY <1>0, <1>2, <2>7, <4>1, <4>5, <5>1, StillNamed DEF Alive
        <4> QED  BY <4>6, <4>7
      <3> QED  BY <3>3, <3>4
    <2> QED  BY <2>8, <2>9
  <1> QED  BY <1>3, <1>4

\* The replay is written under the name known by then.
LEMMA ReplayNamed == ASSUME NamesInv, NEW r \in Runs, ReplayReady(r) PROVE \A q \in Runs : Named(q)'
  <1>0. TypeOK /\ \A q \in Runs : Kept(q) /\ Named(q)  BY DEF NamesInv, SavedInv
  <1>1. /\ replay[r] = "serializing" /\ replay' = [replay EXCEPT ![r] = "done"]
        /\ UNCHANGED <<submissions, api, dbResults, rows, files, announced, wanted, cleared>>
    BY DEF ReplayReady
  <1>2. replay'[r] = "done" /\ \A q \in Runs \ {r} : replay'[q] = replay[q]
    BY <1>0, <1>1 DEF TypeOK
  <1>3. api[r] # "idle" /\ Unwritten(r)  BY <1>0, <1>1 DEF Named
  <1>4. CASE ~Alive(r)
    <2>1. UNCHANGED <<sub, ioQueue, dbQueue, inserts>>  BY <1>4 DEF ReplayReady
    <2>2. ASSUME NEW q \in Runs \ {r} PROVE Named(q)'
      BY <1>0, <1>1, <1>2, <2>1, AlikeSame, StillNamed DEF Alive
    <2>3. Named(r)'
      <3>1. PICK u \in UUIDs : Fate(r, u)  BY <1>0 DEF Named
      <3>2. Row(r)' = Row(r)  BY <1>1 DEF Row
      <3>3. Fate(r, u)'  BY <1>1, <1>2, <2>1, <3>1, <3>2 DEF Fate
      <3>4. ~Alive(r)'  BY <1>4, <2>1 DEF Alive
      <3> QED  BY <1>0, <1>1, <1>2, <1>3, <2>1, <3>3, <3>4 DEF Named
    <2> QED  BY <2>2, <2>3
  <1>5. CASE Alive(r)
    <2>0. sub[r] \in Sub  BY <1>0, <1>5 DEF Alive, TypeOK
    <2> DEFINE s == [sub[r] EXCEPT !.replayReady = TRUE, !.finalUUID = FinalUUID(sub[r])]
               task == [op |-> "write", run |-> r, uuid |-> s.finalUUID]
    <2>1. FinalUUID(sub[r]) = sub[r].finalUUID /\ FinalUUID(sub[r]) \in UUIDs
      BY <1>0, <1>5, <2>0 DEF FinalUUID, Named, Sub
    <2>2. /\ s \in Sub /\ s.localSubmitted = sub[r].localSubmitted /\ s.finalized = sub[r].finalized
          /\ s.finalUUID = sub[r].finalUUID /\ s.acked = sub[r].acked /\ s.replayReady
      BY <2>0, <2>1 DEF Sub
    <2>3. task \in Task /\ task.op = "write" /\ task.run = r /\ task.uuid = s.finalUUID
      BY <2>2 DEF Task, Sub
    <2>4. /\ ioQueue' = Append(ioQueue, task)
          /\ sub' = [sub EXCEPT ![r] = TryFinalize(s)]
          /\ dbQueue' = dbQueue \o FinalInsert(r, s)
          /\ inserts' = [inserts EXCEPT ![r] = @ + Len(FinalInsert(r, s))]
      BY <1>5 DEF ReplayReady
    <2>5. ioQueue \in Seq(Task)  BY <1>0 DEF TypeOK
    <2> HIDE DEF s, task
    <2>6. PICK u \in UUIDs : u = s.finalUUID /\ Fate(r, u)  BY <1>0, <1>5, <2>2 DEF Named
    <2>7. TryFinalize(s).finalUUID = u
      <3>1. s.acked = "id" => s.finalUUID = "api"  BY <1>0, <1>5, <2>2 DEF Named
      <3>2. FinalUUID(s) = u  BY <2>6, <3>1 DEF FinalUUID
      <3> QED  BY <2>2, <2>6, <3>2, FinalizedFields
    <2>8. \A q : Grows(ioQueue, ioQueue', task, q)  BY <2>3, <2>4, <2>5, AddedItem
    <2>9. Settles(ioQueue', r, u, "write", "rename", files[r])
      <3>1. files[r] = {} /\ \A i \in Items(ioQueue, r) : ioQueue[i].op # "write"
        BY <1>3 DEF Unwritten
      <3>2. Settles(ioQueue, r, u, "write", "rename", {})  BY <1>1, <2>6, <3>1 DEF Fate
      <3> DEFINE k == Len(ioQueue) + 1
      <3>3. /\ Items(ioQueue', r) = Items(ioQueue, r) \cup {k} /\ ioQueue'[k] = task
            /\ \A i \in Items(ioQueue, r) : ioQueue'[i] = ioQueue[i]
        BY <2>3, <2>8 DEF Grows
      <3> HIDE DEF k
      <3>4. Settles(ioQueue', r, u, "write", "rename", {})
        BY <2>3, <2>6, <3>1, <3>2, <3>3, SettlesFirst
      <3> QED  BY <3>1, <3>4
    <2>10. \A q \in Runs \ {r} : Alike(ioQueue, ioQueue', q)  BY <2>3, <2>8 DEF Grows, Alike
    <2>11. Named(r)' /\ \A q \in Runs \ {r} : Alike(dbQueue, dbQueue', q)
      <3>1. Settles(dbQueue, r, s.finalUUID, "insert", "update", Row(r))  BY <2>6 DEF Fate
      <3>2. s.finalized /\ s.acked = "id" => s.finalUUID = "api"  BY <1>0, <1>5, <2>2 DEF Named
      <3>3. Finalizes(s) /\ FinalUUID(s) # s.finalUUID => ~s.localSubmitted
        BY <1>0, <1>5, <2>2 DEF Named, FinalUUID
      <3>4. replay'[r] # "onDisk" =>
              Settles(ioQueue', r, TryFinalize(s).finalUUID, "write", "rename", files'[r])
        BY <1>1, <2>7, <2>9
      <3>5. replay'[r] \notin {"none", "breather", "serializing", "toFile"}  BY <1>2
      <3> QED
        BY <1>1, <1>2, <1>3, <1>5, <2>2, <2>4, <3>1, <3>2, <3>3, <3>4, <3>5, FinalStepNamed
    <2>12. ASSUME NEW q \in Runs \ {r} PROVE Named(q)'
      <3>1. sub'[q] = sub[q] /\ inserts'[q] = inserts[q]  BY <1>0, <2>4 DEF TypeOK
      <3> QED  BY <1>0, <1>1, <1>2, <2>10, <2>11, <3>1, StillNamed DEF Alive
    <2> QED  BY <2>11, <2>12
  <1> QED  BY <1>4, <1>5

\* A new submission has nothing written, unless its record was refused and it is inserted at once.
LEMMA CreateNamed == ASSUME NamesInv, NEW r \in Runs, Create(r) PROVE \A q \in Runs : Named(q)'
  <1>0. TypeOK /\ \A q \in Runs : Kept(q) /\ Named(q)  BY DEF NamesInv, SavedInv
  <1>1. /\ replay[r] = "none" /\ ~Alive(r) /\ api[r] = "idle"
        /\ submissions' = Append(submissions, r)
        /\ replay' = [replay EXCEPT ![r] = "breather"]
        /\ UNCHANGED <<dbResults, rows, ioVars, announced, cleared>>
    BY DEF Create
  <1>2. PICK now \in BOOLEAN, s \in Sub, t \in Transaction, a \in {"queued", "sent", "lost"} :
          /\ sub' = [sub EXCEPT ![r] = IF now THEN Submitted(s) ELSE s]
          /\ dbQueue' = IF now THEN Append(dbQueue, t) ELSE dbQueue
          /\ inserts' = [inserts EXCEPT ![r] = IF now THEN 1 ELSE 0]
          /\ api' = [api EXCEPT ![r] = a]
          /\ t.run = r /\ t.op = "insert" /\ t.uuid = "local" /\ (now => a = "lost")
          /\ ~s.localSubmitted /\ ~s.finalized /\ ~s.replayReady /\ s.acked = "no" /\ s.finalUUID = "local"
    <2>1. PICK result \in Results, l \in BOOLEAN, styled \in (IF Styled THEN BOOLEAN ELSE {FALSE}) :
            LET s == Created(result, l, styled)
                now == result = "refused" /\ l
            IN  /\ sub' = [sub EXCEPT ![r] = IF now THEN Submitted(s) ELSE s]
                /\ dbQueue' = IF now THEN Append(dbQueue, Insert(r, s, "local")) ELSE dbQueue
                /\ inserts' = [inserts EXCEPT ![r] = IF now THEN 1 ELSE 0]
                /\ api' = [api EXCEPT ![r] = RecordBecomes[result]]
                /\ wanted' = [wanted EXCEPT ![r] = l]
      BY DEF Create
    <2> DEFINE s == Created(result, l, styled)
               now == result = "refused" /\ l
               t == Insert(r, s, "local")
    <2>2. styled \in BOOLEAN  OBVIOUS
    <2>3. (result # "refused") \in BOOLEAN /\ (result = "queued") \in BOOLEAN  OBVIOUS
    <2>4. /\ s \in Sub /\ ~s.localSubmitted /\ ~s.finalized /\ ~s.replayReady
          /\ s.acked = "no" /\ s.finalUUID = "local"
      BY <2>2, <2>3 DEF Created, Sub, UUIDs
    <2>5. RecordBecomes[result] \in {"queued", "sent", "lost"} /\ (now => RecordBecomes[result] = "lost")
      BY SubmissionAssumption DEF RecordBecomes
    <2>6. t \in Transaction /\ t.run = r /\ t.op = "insert" /\ t.uuid = "local"
      BY <2>4 DEF Insert, Transaction, UUIDs, Sub
    <2>7. now \in BOOLEAN  OBVIOUS
    <2>8. /\ sub' = [sub EXCEPT ![r] = IF now THEN Submitted(s) ELSE s]
          /\ dbQueue' = IF now THEN Append(dbQueue, t) ELSE dbQueue
          /\ inserts' = [inserts EXCEPT ![r] = IF now THEN 1 ELSE 0]
      BY <2>1
    <2> HIDE DEF s, now, t
    <2> QED  BY <2>1, <2>4, <2>5, <2>6, <2>7, <2>8
  <1> DEFINE x == IF now THEN Submitted(s) ELSE s
  <1>3. Submitted(s) \in Sub /\ Submitted(s).localSubmitted  BY SubmittedType
  <1>4. /\ ~Submitted(s).finalized /\ ~Submitted(s).replayReady /\ Submitted(s).acked = "no"
        /\ Submitted(s).finalUUID = "local"
    BY <1>2 DEF Submitted, Sub
  <1>5. /\ x \in Sub /\ x.localSubmitted = now /\ ~x.finalized /\ ~x.replayReady
        /\ x.acked = "no" /\ x.finalUUID = "local"
    BY <1>2, <1>3, <1>4 DEF Sub
  <1>6. sub' = [sub EXCEPT ![r] = x]  BY <1>2 DEF x
  <1> HIDE DEF x
  <1>7. dbQueue \in Seq(Transaction)  BY <1>0 DEF TypeOK
  <1>8. /\ inserts[r] = 0 /\ Items(dbQueue, r) = {} /\ rows[r] = None
        /\ Items(ioQueue, r) = {} /\ files[r] = {}
    BY <1>0, <1>1 DEF Kept, Named, Unwritten
  <1>9. /\ \A q \in Runs \ {r} : Alike(dbQueue, dbQueue', q)
        /\ Settles(dbQueue', r, "local", "insert", "update", {})
        /\ ~now => Items(dbQueue', r) = {}
    <2>1. Settles(dbQueue, r, "local", "insert", "update", {})  BY <1>8 DEF Settles
    <2>2. CASE ~now
      <3>1. dbQueue' = dbQueue  BY <1>2, <2>2
      <3> QED  BY <1>8, <2>1, <3>1, AlikeSame
    <2>3. CASE now
      <3>1. dbQueue' = Append(dbQueue, t)  BY <1>2, <2>3
      <3>2. \A q : Grows(dbQueue, dbQueue', t, q)  BY <1>7, <3>1, AddedItem
      <3> DEFINE k == Len(dbQueue) + 1
      <3>3. /\ Items(dbQueue', r) = Items(dbQueue, r) \cup {k} /\ dbQueue'[k] = t
            /\ \A i \in Items(dbQueue, r) : dbQueue'[i] = dbQueue[i]
        BY <1>2, <3>2 DEF Grows
      <3> HIDE DEF k
      <3>4. Settles(dbQueue', r, "local", "insert", "update", {})
        BY <1>2, <1>8, <2>1, <3>3, SettlesFirst, ZenonT(60)
      <3>5. \A q \in Runs \ {r} : Alike(dbQueue, dbQueue', q)  BY <1>2, <3>2 DEF Grows, Alike
      <3> QED  BY <2>3, <3>4, <3>5
    <2> QED  BY <2>2, <2>3
  <1>10. Named(r)'
    <2>1. /\ sub'[r] = x /\ replay'[r] = "breather" /\ api'[r] = a /\ rows'[r] = None /\ files'[r] = {}
          /\ Items(ioQueue', r) = {} /\ inserts'[r] = IF now THEN 1 ELSE 0
      BY <1>0, <1>1, <1>2, <1>6, <1>8 DEF TypeOK, ioVars
    <2>2. Row(r)' = {}  BY <2>1 DEF Row
    <2>3. Settles(ioQueue', r, "local", "write", "rename", {})  BY <2>1 DEF Settles
    <2>4. Fate(r, "local")'  BY <1>9, <2>1, <2>2, <2>3 DEF Fate
    <2>5. Unwritten(r)'  BY <2>1 DEF Unwritten
    <2>6. "local" \in UUIDs  BY DEF UUIDs
    <2>7. inserts'[r] = 0 => Items(dbQueue', r) = {}  BY <1>9, <2>1
    <2> QED  BY <1>2, <1>5, <2>1, <2>4, <2>5, <2>6, <2>7 DEF Named
  <1>11. ASSUME NEW q \in Runs \ {r} PROVE Named(q)'
    <2>1. sub'[q] = sub[q] /\ inserts'[q] = inserts[q] /\ api'[q] = api[q] /\ replay'[q] = replay[q]
      BY <1>0, <1>1, <1>2, <1>6 DEF TypeOK
    <2>2. ioQueue' = ioQueue /\ rows' = rows /\ files' = files  BY <1>1 DEF ioVars
    <2> QED  BY <1>0, <1>9, <2>1, <2>2, AlikeSame, StillNamed DEF Alive
  <1> QED  BY <1>10, <1>11

\* CheckAll inserts under the name the submission has, as one with an answer is final.
LEMMA CheckAllNamed == ASSUME NamesInv, CheckAll PROVE \A q \in Runs : Named(q)'
  <1>0. TypeOK /\ Known /\ \A q \in Runs : Kept(q) /\ Named(q)  BY DEF NamesInv, SavedInv
  <1>1. UNCHANGED <<api, replay, dbResults, rows, ioVars, wanted, cleared>>  BY DEF CheckAll
  <1>2. PICK q \in Seq(Transaction) :
          /\ dbQueue' = dbQueue \o q
          /\ \A i \in 1..Len(q) : /\ q[i].run \in Runs /\ Alive(q[i].run) /\ Inserts(sub[q[i].run])
                                  /\ q[i] = Insert(q[i].run, sub[q[i].run], FinalUUID(sub[q[i].run]))
          /\ \A i, j \in 1..Len(q) : q[i].run = q[j].run => i = j
          /\ \A r \in Runs : Alive(r) /\ Inserts(sub[r]) => \E i \in 1..Len(q) : q[i].run = r
    BY <1>0, CheckedQueue
  <1>3. dbQueue \in Seq(Transaction)  BY <1>0 DEF TypeOK
  <1>4. ASSUME NEW r \in Runs
        PROVE  /\ Items(dbQueue', r) = Items(dbQueue, r) \cup {i + Len(dbQueue) : i \in Items(q, r)}
               /\ \A i \in Items(dbQueue, r) : dbQueue'[i] = dbQueue[i]
               /\ \A i \in Items(q, r) : dbQueue'[i + Len(dbQueue)] = q[i]
    <2>1. Joins(dbQueue, dbQueue', q, r)  BY <1>2, <1>3, AddedItems
    <2> QED  BY <2>1 DEF Joins
  <1> SUFFICES ASSUME NEW r \in Runs PROVE Named(r)'  OBVIOUS
  <1>5. Named(r) /\ Kept(r)  BY <1>0
  <1>6. /\ replay'[r] = replay[r] /\ rows'[r] = rows[r] /\ files'[r] = files[r] /\ api'[r] = api[r]
        /\ ioQueue' = ioQueue
    BY <1>1 DEF ioVars
  <1>7. Alike(ioQueue, ioQueue', r)  BY <1>6, AlikeSame
  <1>8. CASE ~Alive(r)
    <2>1. Items(q, r) = {}  BY <1>2, <1>8 DEF Items
    <2>2. Alike(dbQueue, dbQueue', r)  BY <1>4, <2>1 DEF Alike
    <2>3. ~Alive(r)' /\ inserts'[r] = inserts[r]  BY <1>0, <1>8, CheckedOne DEF Alive
    <2> QED  BY <1>5, <1>6, <1>7, <2>2, <2>3, StillNamed
  <1>9. CASE Alive(r)
    <2> DEFINE s == sub[r]
               t == TryFinalize(s)
    <2>1. s \in Sub  BY <1>0, <1>9 DEF TypeOK, Alive
    <2>2. /\ t \in Sub /\ t.acked = s.acked /\ t.replayReady = s.replayReady
          /\ t.localSubmitted = (s.localSubmitted \/ Inserts(s))
          /\ t.finalized = (s.finalized \/ Finalizes(s))
          /\ t.finalUUID = IF Finalizes(s) THEN FinalUUID(s) ELSE s.finalUUID
      BY <2>1, FinalizedFields
    <2>3. /\ sub'[r] = IF Collects(t) THEN None ELSE [t EXCEPT !.runAnnounced = @ \/ Announces(t)]
          /\ Alive(r)' <=> ~Collects(t)
          /\ inserts'[r] = inserts[r] + (IF Inserts(s) THEN 1 ELSE 0)
      BY <1>0, <1>9, CheckedOne
    <2> HIDE DEF t
    <2>4. Alive(r)' => \A f \in {"replayReady", "acked", "finalUUID", "finalized", "localSubmitted"} :
                         sub'[r][f] = t[f]
      BY <2>2, <2>3 DEF Sub
    <2>5. /\ s.replayReady <=> replay[r] = "done"
          /\ s.acked = "id" => s.finalUUID = "api" /\ s.finalized
          /\ s.localSubmitted /\ ~s.finalized => api[r] = "lost"
      BY <1>5, <1>9 DEF Named
    <2>6. t.finalUUID = s.finalUUID /\ (Finalizes(s) => FinalUUID(s) = s.finalUUID)
      BY <2>2, <2>5 DEF FinalUUID
    <2>7. Fate(r, s.finalUUID) /\ s.finalUUID \in UUIDs  BY <1>5, <1>9 DEF Named
    <2>8. inserts[r] = (IF s.localSubmitted THEN 1 ELSE 0) /\ api[r] # "idle"
      BY <1>5, <1>9 DEF Kept
    <2> HIDE DEF s
    <2>9. PICK k : IF Inserts(s)
                     THEN /\ Items(dbQueue', r) = Items(dbQueue, r) \cup {k}
                          /\ dbQueue'[k] = Insert(r, s, FinalUUID(s))
                     ELSE Items(dbQueue', r) = Items(dbQueue, r)
      <3>1. CASE ~Inserts(s)
        <4>1. Items(q, r) = {}  BY <1>2, <3>1 DEF Items, s
        <4> QED  BY <1>4, <3>1, <4>1
      <3>2. CASE Inserts(s)
        <4>1. PICK i \in 1..Len(q) : q[i].run = r  BY <1>2, <1>9, <3>2 DEF s
        <4>2. Items(q, r) = {i}  BY <1>2, <4>1 DEF Items
        <4>3. dbQueue'[i + Len(dbQueue)] = Insert(r, s, FinalUUID(s))
          BY <1>2, <1>4, <4>1, <4>2 DEF s
        <4>4. Items(dbQueue', r) = Items(dbQueue, r) \cup {i + Len(dbQueue)}  BY <1>4, <4>2
        <4> QED  BY <3>2, <4>3, <4>4
      <3> QED  BY <3>1, <3>2
    <2>10. /\ Settles(dbQueue', r, t.finalUUID, "insert", "update", Row(r))
           /\ inserts[r] = 0 /\ ~Inserts(s) => Items(dbQueue', r) = {}
      <3>1. inserts[r] = 0 => Items(dbQueue, r) = {} /\ rows[r] = None  BY <1>5 DEF Named
      <3>2. s.localSubmitted \/ inserts[r] = 0  BY <2>8
      <3>3. Settles(dbQueue, r, s.finalUUID, "insert", "update", Row(r))  BY <2>7 DEF Fate
      <3>4. \A i \in Items(dbQueue, r) : dbQueue'[i] = dbQueue[i]  BY <1>4
      <3> QED  BY <2>1, <2>6, <2>9, <3>1, <3>2, <3>3, <3>4, FinalRows DEF t
    <2>11. Row(r)' = Row(r)  BY <1>6 DEF Row
    <2>20. PICK v \in UUIDs : v = t.finalUUID /\ v = s.finalUUID  BY <2>6, <2>7
    <2>12. Fate(r, v)'
      <3>1. Settles(dbQueue', r, v, "insert", "update", Row(r)')  BY <2>10, <2>11, <2>20
      <3>2. Fate(r, v)  BY <2>7, <2>20
      <3> QED  BY <1>6, <3>1, <3>2 DEF Fate
    <2>13. inserts'[r] = 0 => inserts[r] = 0 /\ ~Inserts(s)
      <3>1. CASE Inserts(s)
        <4>1. inserts'[r] = inserts[r] + 1 /\ inserts[r] \in Nat  BY <1>0, <2>3, <3>1 DEF TypeOK, s
        <4> QED  BY <4>1
      <3>2. CASE ~Inserts(s)
        <4>1. inserts'[r] = inserts[r] + 0 /\ inserts[r] \in Nat  BY <1>0, <2>3, <3>2 DEF TypeOK, s
        <4> QED  BY <3>2, <4>1
      <3> QED  BY <3>1, <3>2
    <2>14. inserts'[r] = 0 => Items(dbQueue', r) = {} /\ rows'[r] = None
      BY <1>5, <1>6, <2>10, <2>13 DEF Named
    <2>15. replay'[r] \in {"none", "breather", "serializing", "toFile"} => Unwritten(r)'
      BY <1>5, <1>6 DEF Named, Unwritten
    <2>16. t.acked = "id" => t.finalUUID = "api" /\ t.finalized  BY <2>2, <2>5, <2>6
    <2>17. t.localSubmitted /\ ~t.finalized => api'[r] = "lost"
      <3>1. Inserts(s) => Finalizes(s)  BY DEF Inserts
      <3>2. s.localSubmitted \in BOOLEAN /\ s.finalized \in BOOLEAN  BY <2>1 DEF Sub
      <3>3. t.localSubmitted /\ ~t.finalized => s.localSubmitted /\ ~s.finalized
        BY <2>2, <3>1, <3>2
      <3> QED  BY <1>6, <2>5, <3>3
    <2>18. Alive(r)' => /\ sub'[r].finalUUID = t.finalUUID
                        /\ sub'[r].replayReady <=> replay'[r] = "done"
                        /\ sub'[r].acked = "id" => sub'[r].finalUUID = "api" /\ sub'[r].finalized
                        /\ sub'[r].localSubmitted /\ ~sub'[r].finalized => api'[r] = "lost"
      <3> SUFFICES ASSUME Alive(r)'
                   PROVE  /\ sub'[r].finalUUID = t.finalUUID
                          /\ sub'[r].replayReady <=> replay'[r] = "done"
                          /\ sub'[r].acked = "id" => sub'[r].finalUUID = "api" /\ sub'[r].finalized
                          /\ sub'[r].localSubmitted /\ ~sub'[r].finalized => api'[r] = "lost"
        OBVIOUS
      <3>1. /\ sub'[r].replayReady = t.replayReady /\ sub'[r].acked = t.acked
            /\ sub'[r].finalUUID = t.finalUUID /\ sub'[r].finalized = t.finalized
            /\ sub'[r].localSubmitted = t.localSubmitted
        BY <2>4
      <3>2. t.replayReady <=> replay'[r] = "done"  BY <1>6, <2>2, <2>5
      <3> QED  BY <2>16, <2>17, <3>1, <3>2
    <2>19. api'[r] # "idle"  BY <1>6, <2>8
    <2>21. Alive(r)' => v = sub'[r].finalUUID  BY <2>18, <2>20
    <2> QED  BY <2>12, <2>14, <2>15, <2>18, <2>19, <2>21 DEF Named
  <1> QED  BY <1>8, <1>9

\* The database executes a transaction; updates do not fail.
LEMMA DbNamed ==
  ASSUME NamesInv, "update" \notin Fails, DbExecutes PROVE \A q \in Runs : Named(q)'
  <1>0. TypeOK /\ \A q \in Runs : Named(q)  BY DEF NamesInv, SavedInv
  <1> DEFINE t == Head(dbQueue)
  <1>1. PICK ok \in BOOLEAN :
          /\ t.op = "update" => ok
          /\ rows' = IF ok /\ (t.op = "insert" \/ rows[t.run] = "local")
                     THEN [rows EXCEPT ![t.run] = t.uuid] ELSE rows
    BY DEF DbExecutes
  <1>2. /\ dbQueue # <<>> /\ dbQueue' = Tail(dbQueue)
        /\ UNCHANGED <<submissions, sub, api, replay, ioVars, auxVars>>
    BY DEF DbExecutes
  <1>3. dbQueue \in Seq(Transaction) /\ rows \in [Runs -> UUIDs \cup {None}]  BY <1>0 DEF TypeOK
  <1>4. t \in Transaction  BY <1>2, <1>3, TailItems
  <1>5. t.run \in Runs /\ t.uuid \in UUIDs /\ t.op \in {"insert", "update"}
    BY <1>4 DEF Transaction
  <1> SUFFICES ASSUME NEW q \in Runs PROVE Named(q)'  OBVIOUS
  <1>6. /\ \A i \in Items(dbQueue', q) : i + 1 \in Items(dbQueue, q)
        /\ t.run = q => 1 \in Items(dbQueue, q)
    BY <1>2, <1>3, TailItems
  <1>7. PICK u \in UUIDs : (Alive(q) => u = sub[q].finalUUID) /\ Fate(q, u)  BY <1>0 DEF Named
  <1>8. Settles(dbQueue, q, u, "insert", "update", Row(q))  BY <1>7 DEF Fate
  <1> HIDE DEF t
  <1>9. /\ t.run # q => Row(q)' = Row(q) /\ rows'[q] = rows[q]
        /\ t.run = q /\ t.op = "insert" => Row(q)' = Row(q) \/ Row(q)' = Row(q) \cup {t.uuid}
        /\ t.run = q /\ t.op = "update" =>
             Row(q)' = IF "local" \in Row(q) THEN (Row(q) \ {"local"}) \cup {t.uuid} ELSE Row(q)
    <2>1. CASE t.run # q
      <3>1. rows'[q] = rows[q]  BY <1>1, <1>3, <1>5, <2>1
      <3> QED  BY <2>1, <3>1 DEF Row
    <2>2. CASE t.run = q /\ t.op = "insert"
      <3>1. 1 \in Items(dbQueue, q) /\ dbQueue[1].op = "insert"
        BY <1>2, <1>3, <1>6, <2>2, TailItems DEF t
      <3>2. Row(q) = {}  BY <1>8, <3>1 DEF Settles
      <3>3. rows'[q] = rows[q] \/ rows'[q] = t.uuid  BY <1>1, <1>3, <2>2
      <3>4. t.uuid # None  BY <1>5, NoneAssumption
      <3> QED  BY <2>2, <3>2, <3>3, <3>4 DEF Row
    <2>3. CASE t.run = q /\ t.op = "update"
      <3>1. rows'[q] = IF rows[q] = "local" THEN t.uuid ELSE rows[q]  BY <1>1, <1>3, <2>3
      <3>2. t.uuid # None /\ "local" # None  BY <1>5, NoneAssumption DEF UUIDs
      <3> QED  BY <2>3, <3>1, <3>2 DEF Row
    <2> QED  BY <1>5, <2>1, <2>2, <2>3
  <1>10. Settles(dbQueue', q, u, "insert", "update", Row(q)')
    <2> DEFINE now == Row(q)
               then == Row(q)'
    <2>1. /\ t.run # q => then = now
          /\ t.run = q /\ t.op = "insert" => then = now \/ then = now \cup {t.uuid}
          /\ t.run = q /\ t.op = "update" =>
               then = IF "local" \in now THEN (now \ {"local"}) \cup {t.uuid} ELSE now
      BY <1>9
    <2>2. Settles(dbQueue, q, u, "insert", "update", now)  BY <1>8
    <2> HIDE DEF now, then
    <2>3. Settles(Tail(dbQueue), q, u, "insert", "update", then)
      BY <1>2, <1>3, <1>5, <2>1, <2>2, SettlesTail DEF t
    <2> QED  BY <1>2, <2>3 DEF then
  <1>11. Fate(q, u)'  BY <1>2, <1>7, <1>10 DEF Fate, ioVars
  <1>12. inserts'[q] = 0 => Items(dbQueue', q) = {} /\ rows'[q] = None
    <2>1. inserts[q] = 0 => Items(dbQueue, q) = {} /\ rows[q] = None  BY <1>0 DEF Named
    <2> QED  BY <1>2, <1>6, <1>9, <2>1 DEF auxVars
  <1>13. /\ replay'[q] \in {"none", "breather", "serializing", "toFile"} => Unwritten(q)'
         /\ api'[q] = "idle" => replay'[q] = "none" /\ Items(ioQueue', q) = {}
         /\ Alive(q)' => /\ sub'[q].replayReady <=> replay'[q] = "done"
                         /\ sub'[q].acked = "id" => sub'[q].finalUUID = "api" /\ sub'[q].finalized
                         /\ sub'[q].localSubmitted /\ ~sub'[q].finalized => api'[q] = "lost"
                         /\ u = sub'[q].finalUUID
    BY <1>0, <1>2, <1>7 DEF Named, Unwritten, Alive, ioVars
  <1> QED  BY <1>11, <1>12, <1>13 DEF Named

\* The file worker executes a task.
LEMMA FileNamed == ASSUME NamesInv, FileTask PROVE \A q \in Runs : Named(q)'
  <1>0. TypeOK /\ \A q \in Runs : Named(q)  BY DEF NamesInv, SavedInv
  <1> DEFINE t == Head(ioQueue)
  <1>1. /\ ioQueue # <<>> /\ ioQueue' = Tail(ioQueue)
        /\ files' = IF t.op = "write" THEN [files EXCEPT ![t.run] = @ \cup {t.uuid}]
                    ELSE IF "local" \in files[t.run]
                    THEN [files EXCEPT ![t.run] = (@ \ {"local"}) \cup {t.uuid}]
                    ELSE files
        /\ UNCHANGED <<submissions, sub, api, replay, dbVars, auxVars>>
    BY DEF FileTask
  <1>2. ioQueue \in Seq(Task) /\ files \in [Runs -> SUBSET UUIDs]  BY <1>0 DEF TypeOK
  <1>3. t \in Task  BY <1>1, <1>2, TailItems
  <1>4. t.run \in Runs /\ t.uuid \in UUIDs /\ t.op \in {"write", "rename"}  BY <1>3 DEF Task
  <1> SUFFICES ASSUME NEW q \in Runs PROVE Named(q)'  OBVIOUS
  <1>5. /\ \A i \in Items(ioQueue', q) : i + 1 \in Items(ioQueue, q) /\ ioQueue'[i] = ioQueue[i + 1]
        /\ t.run = q => 1 \in Items(ioQueue, q) /\ ioQueue[1] = t
    BY <1>1, <1>2, TailItems
  <1>6. PICK u \in UUIDs : (Alive(q) => u = sub[q].finalUUID) /\ Fate(q, u)  BY <1>0 DEF Named
  <1> DEFINE now == files[q]
             then == files'[q]
  <1>7. /\ t.run # q => then = now
        /\ t.run = q /\ t.op = "write" => then = now \cup {t.uuid}
        /\ t.run = q /\ t.op = "rename" =>
             then = IF "local" \in now THEN (now \ {"local"}) \cup {t.uuid} ELSE now
    <2> HIDE DEF t
    <2>1. CASE t.run # q  BY <1>1, <1>2, <2>1
    <2>2. CASE t.run = q  BY <1>1, <1>2, <1>4, <2>2
    <2> QED  BY <2>1, <2>2
  <1> HIDE DEF now, then
  <1>8. replay[q] # "onDisk" => Settles(ioQueue', q, u, "write", "rename", then)
    <2>1. replay[q] # "onDisk" => Settles(ioQueue, q, u, "write", "rename", now)
      BY <1>6 DEF Fate, now
    <2>2. replay[q] # "onDisk" => Settles(Tail(ioQueue), q, u, "write", "rename", then)
      BY <1>1, <1>2, <1>4, <1>7, <2>1, SettlesTail
    <2> QED  BY <1>1, <2>2
  <1>9. Row(q)' = Row(q)  BY <1>1 DEF Row, dbVars
  <1>10. Fate(q, u)'  BY <1>1, <1>6, <1>8, <1>9 DEF Fate, dbVars, then
  <1> HIDE DEF t
  <1>11. Unwritten(q) => Unwritten(q)'
    <2> SUFFICES ASSUME Unwritten(q) PROVE Unwritten(q)'  OBVIOUS
    <2>1. now = {} /\ \A i \in Items(ioQueue, q) : ioQueue[i].op # "write"  BY DEF Unwritten, now
    <2>2. \A i \in Items(ioQueue', q) : ioQueue'[i].op # "write"  BY <1>5, <2>1
    <2>3. then = {}  BY <1>4, <1>5, <1>7, <2>1
    <2> QED  BY <2>2, <2>3 DEF Unwritten, then
  <1>12. Items(ioQueue, q) = {} => Items(ioQueue', q) = {}  BY <1>5
  <1>13. inserts'[q] = 0 => Items(dbQueue', q) = {} /\ rows'[q] = None
    BY <1>0, <1>1 DEF Named, dbVars, auxVars
  <1>14. /\ replay'[q] \in {"none", "breather", "serializing", "toFile"} => Unwritten(q)'
         /\ api'[q] = "idle" => replay'[q] = "none" /\ Items(ioQueue', q) = {}
         /\ Alive(q)' => /\ sub'[q].replayReady <=> replay'[q] = "done"
                         /\ sub'[q].acked = "id" => sub'[q].finalUUID = "api" /\ sub'[q].finalized
                         /\ sub'[q].localSubmitted /\ ~sub'[q].finalized => api'[q] = "lost"
                         /\ u = sub'[q].finalUUID
    BY <1>0, <1>1, <1>6, <1>11, <1>12 DEF Named, Alive
  <1> QED  BY <1>10, <1>13, <1>14 DEF Named

\* The names agree at first.
LEMMA InitNamed == Init => \A r \in Runs : Named(r)
  <1> SUFFICES ASSUME Init, NEW r \in Runs PROVE Named(r)  OBVIOUS
  <1>1. /\ dbQueue = <<>> /\ ioQueue = <<>> /\ rows[r] = None /\ files[r] = {} /\ replay[r] = "none"
        /\ ~Alive(r)
    BY DEF Init, Alive
  <1>2. Items(dbQueue, r) = {} /\ Items(ioQueue, r) = {} /\ Row(r) = {}  BY <1>1 DEF Items, Row
  <1>3. Fate(r, "local")  BY <1>1, <1>2 DEF Fate, Settles
  <1> QED  BY <1>1, <1>2, <1>3 DEF Named, Unwritten, UUIDs

\* Every step keeps the invariant.
LEMMA NextNamed ==
  ASSUME "update" \notin Fails PROVE NamesInv /\ [Next]_vars => NamesInv'
  <1> SUFFICES ASSUME NamesInv, [Next]_vars PROVE NamesInv'  OBVIOUS
  <1>0. TypeOK /\ SavedInv /\ \A q \in Runs : Kept(q) /\ Named(q)  BY DEF NamesInv, SavedInv
  <1>s. SavedInv'  BY <1>0, NextSaved
  <1> SUFFICES \A q \in Runs : Named(q)'  BY <1>s DEF NamesInv
  <1> USE DEF auxVars, ioVars, dbVars
  <1>1. ASSUME NEW r \in Runs, Create(r) PROVE \A q \in Runs : Named(q)'  BY <1>1, CreateNamed
  <1>2. ASSUME NEW r \in Runs, SendQueued(r) PROVE \A q \in Runs : Named(q)'
    <2>1. \A q \in Runs : (api'[q] = "idle" => api[q] = "idle") /\ (api[q] = "lost" => api'[q] = "lost")
      BY <1>0, <1>2 DEF SendQueued, TypeOK
    <2> QED  BY <1>0, <1>2, <2>1, AlikeSame, StillNamed DEF SendQueued, Alive
  <1>3. ASSUME NEW r \in Runs, ApiAnswers(r) PROVE \A q \in Runs : Named(q)'  BY <1>3, AnswerNamed
  <1>4. ASSUME NEW r \in Runs, EndBreather(r) PROVE \A q \in Runs : Named(q)'
    <2>1. replay[r] = "breather" /\ api[r] # "idle"  BY <1>0, <1>4 DEF EndBreather, Named
    <2>2. \A q \in Runs : replay'[q] = replay[q] \/ (q = r /\ replay'[q] = "serializing")
      BY <1>0, <1>4 DEF EndBreather, TypeOK
    <2> QED  BY <1>0, <1>4, <2>1, <2>2, AlikeSame, StillNamed DEF EndBreather, Alive
  <1>5. ASSUME NEW r \in Runs, ReplayReady(r) PROVE \A q \in Runs : Named(q)'  BY <1>5, ReplayNamed
  <1>6. ASSUME NEW r \in Runs, OnClientDisconnect(r) PROVE \A q \in Runs : Named(q)'
    <2>1. replay[r] = "breather" /\ api[r] # "idle"  BY <1>0, <1>6 DEF OnClientDisconnect, Named
    <2>2. \A q \in Runs : replay'[q] = replay[q] \/ (q = r /\ replay'[q] = "toFile")
      BY <1>0, <1>6 DEF OnClientDisconnect, TypeOK
    <2> QED  BY <1>0, <1>6, <2>1, <2>2, AlikeSame, StillNamed DEF OnClientDisconnect, Alive
  <1>7. ASSUME NEW r \in Runs, WriteToFile(r) PROVE \A q \in Runs : Named(q)'
    <2>1. /\ replay[r] = "toFile" /\ replay' = [replay EXCEPT ![r] = "onDisk"]
          /\ files' = [files EXCEPT ![r] = @ \cup {"local"}]
          /\ UNCHANGED <<submissions, sub, api, dbVars, ioQueue, auxVars>>
      BY <1>7 DEF WriteToFile
    <2>2. \A q \in Runs \ {r} : replay'[q] = replay[q] /\ files'[q] = files[q]
      BY <1>0, <2>1 DEF TypeOK
    <2>3. \A q \in Runs \ {r} : Named(q)'  BY <1>0, <2>1, <2>2, AlikeSame, StillNamed DEF Alive
    <2>4. Named(r)'
      <3>1. PICK u \in UUIDs : (Alive(r) => u = sub[r].finalUUID) /\ Fate(r, u)  BY <1>0 DEF Named
      <3>2. replay'[r] = "onDisk" /\ api[r] # "idle"  BY <1>0, <2>1 DEF TypeOK, Named
      <3>3. Row(r)' = Row(r)  BY <2>1 DEF Row
      <3>4. Fate(r, u)'  BY <2>1, <3>1, <3>2, <3>3 DEF Fate
      <3>5. Alive(r)' <=> Alive(r)  BY <2>1 DEF Alive
      <3> QED  BY <1>0, <2>1, <3>1, <3>2, <3>4, <3>5 DEF Named
    <2> QED  BY <2>3, <2>4
  <1>8. ASSUME NEW r \in Runs, TimePasses(r) PROVE \A q \in Runs : Named(q)'
    <2>1. Alive(r) /\ sub' = [sub EXCEPT ![r].age = @ + 1]
          /\ UNCHANGED <<submissions, api, replay, dbVars, ioVars, auxVars>>
      BY <1>8 DEF TimePasses
    <2>2. sub[r] \in Sub  BY <1>0, <2>1 DEF Alive, TypeOK
    <2>3. ASSUME NEW q \in Runs, Alive(q)'
          PROVE  /\ Alive(q)
                 /\ \A f \in {"replayReady", "acked", "finalUUID", "finalized", "localSubmitted"} :
                      sub'[q][f] = sub[q][f]
      <3>1. CASE q = r  BY <1>0, <2>1, <2>2, <3>1 DEF TypeOK, Sub
      <3>2. CASE q # r  BY <1>0, <2>1, <2>3, <3>2 DEF TypeOK, Alive
      <3> QED  BY <3>1, <3>2
    <2> QED  BY <1>0, <2>1, <2>3, AlikeSame, StillNamed
  <1>9. CASE DbExecutes  BY <1>9, DbNamed
  <1>10. CASE DbAnswers
    <2> DEFINE a == Head(dbResults)
    <2>1. /\ sub' = IF ~Alive(a.run) THEN sub
                    ELSE IF a.ok THEN [sub EXCEPT ![a.run].localReceived = TRUE]
                    ELSE [sub EXCEPT ![a.run].local = FALSE]
          /\ UNCHANGED <<submissions, api, replay, dbQueue, rows, ioVars, auxVars>>
      BY <1>10 DEF DbAnswers
    <2> HIDE DEF a
    <2>2. ASSUME NEW q \in Runs, Alive(q)'
          PROVE  /\ Alive(q)
                 /\ \A f \in {"replayReady", "acked", "finalUUID", "finalized", "localSubmitted"} :
                      sub'[q][f] = sub[q][f]
      <3>1. CASE sub'[q] = sub[q]  BY <2>2, <3>1 DEF Alive
      <3>2. CASE sub'[q] # sub[q]
        <4>1. a.run = q /\ Alive(q)  BY <1>0, <2>1, <3>2 DEF TypeOK
        <4>2. sub[q] \in Sub  BY <1>0, <4>1 DEF Alive, TypeOK
        <4> QED  BY <1>0, <2>1, <4>1, <4>2 DEF TypeOK, Sub
      <3> QED  BY <3>1, <3>2
    <2> QED  BY <1>0, <2>1, <2>2, AlikeSame, StillNamed
  <1>11. CASE FileTask  BY <1>11, FileNamed
  <1>12. CASE CheckAll  BY <1>12, CheckAllNamed
  <1>13. CASE MapChange
    <2>1. /\ sub' = [r \in Runs |-> None]
          /\ replay' = [r \in Runs |-> IF replay[r] = "breather" THEN "done" ELSE replay[r]]
          /\ UNCHANGED <<api, dbVars, ioVars, inserts>>
      BY <1>13 DEF MapChange
    <2>2. ASSUME NEW q \in Runs
          PROVE  /\ ~Alive(q)'
                 /\ \/ replay'[q] = replay[q]
                    \/ replay[q] = "breather" /\ api[q] # "idle" /\ replay'[q] = "done"
      <3>1. replay[q] = "breather" => api[q] # "idle"  BY <1>0 DEF Named
      <3> QED  BY <2>1, <3>1 DEF Alive
    <2> QED  BY <1>0, <2>1, <2>2, AlikeSame, StillNamed
  <1>14. CASE UNCHANGED vars
    BY <1>0, <1>14, AlikeSame, StillNamed DEF vars, Alive
  <1> QED
    BY <1>1, <1>2, <1>3, <1>4, <1>5, <1>6, <1>7, <1>8, <1>9, <1>10, <1>11, <1>12, <1>13, <1>14
    DEF Next

\* With nothing queued both names are the one they were to become.
LEMMA NamedAgrees == NamesInv => NamesAgree
  <1> SUFFICES ASSUME NamesInv, NEW r \in Runs, replay[r] # "onDisk", ~Pending(r), rows[r] # None,
                      files[r] # {}
               PROVE  files[r] = {rows[r]}
    BY DEF NamesAgree, NamesAgreeFor
  <1>1. PICK u \in UUIDs : Fate(r, u)  BY DEF NamesInv, Named
  <1>2. dbQueue \in Seq(Transaction) /\ ioQueue \in Seq(Task)  BY DEF NamesInv, SavedInv, TypeOK
  <1>3. Items(dbQueue, r) = {} /\ Items(ioQueue, r) = {}  BY <1>2 DEF Pending, Items
  <1>4. Row(r) = {rows[r]}  BY DEF Row
  <1>5. Row(r) \in {{}, {u}} /\ files[r] \in {{}, {u}}  BY <1>1, <1>3 DEF Fate, Settles
  <1> QED  BY <1>4, <1>5

\* NamesAgree: as long as updates of a row do not fail, the row and the replay file of a run end up
\* under the same name, whichever of the API's answer, the replay, the insert and the timeouts
\* comes first (RunSubmission::OnAPIResponse, DoLateAPIResponse and OnReplayReady).
THEOREM NamesAlwaysAgree == ASSUME "update" \notin Fails PROVE Spec => []NamesAgree
  <1>1. Init => NamesInv  BY InitSaved, InitNamed DEF NamesInv
  <1> QED  BY <1>1, NextNamed, NamedAgrees, PTL DEF Spec
==============================================================================
