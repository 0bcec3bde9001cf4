---------------------------- MODULE SessionProofs ----------------------------
(***************************************************************************)
(* Proofs about Session, for every number of players, modes, styles,       *)
(* connections and failures.                                                *)
(*                                                                          *)
(* The operators that call one another map healthy services to healthy      *)
(* ones, and fit services, those in which what was chosen is in force, to  *)
(* fit ones; the loop of AddStyles is followed style by style, by induction *)
(* on the indices of its list.                                              *)
(***************************************************************************)
EXTENDS Session, WellFoundedInduction, SequenceTheorems, TLAPS

\* A set of natural numbers has a least element: < is well founded on Nat.
LEMMA LeastNatural ==
  ASSUME NEW T, T \subseteq Nat, T # {} PROVE \E x \in T : \A y \in T : x <= y
  <1> DEFINE R == OpToRel(<, Nat)
  <1>1. IsWellFoundedOn(R, Nat)  BY NatLessThanWellFounded
  <1>2. \A x, y \in Nat : <<y, x>> \in R <=> y < x  BY DEF OpToRel
  <1> HIDE DEF R
  <1>3. PICK x \in T : \A y \in T : ~(<<y, x>> \in R)  BY <1>1, WFMin
  <1>4. \A y \in T : ~(y < x) /\ y \in Nat /\ x \in Nat  BY <1>2, <1>3
  <1> QED  BY <1>4

\* Induction up to n, over a set instead of a predicate, which the provers can instantiate.
LEMMA UpTo ==
  ASSUME NEW n \in Nat, NEW S, 0 \in S, \A i \in S : i \in 0..(n - 1) => i + 1 \in S
  PROVE  \A i \in 0..n : i \in S
  <1> SUFFICES ASSUME (0..n) \ S # {} PROVE FALSE  OBVIOUS
  <1>0. (0..n) \ S \subseteq Nat  OBVIOUS
  <1>1. PICK x \in (0..n) \ S : \A y \in (0..n) \ S : x <= y  BY <1>0, LeastNatural
  <1>2. x # 0 /\ x - 1 \in 0..(n - 1) /\ x - 1 \in 0..n /\ ~(x <= x - 1)  BY <1>1
  <1>3. x - 1 \in S  BY <1>1, <1>2
  <1>4. (x - 1) + 1 = x  BY <1>1
  <1> QED  BY <1>1, <1>2, <1>3, <1>4

\* FiniteSetsExt's Max is the maximum of a set of indices.
LEMMA MaxOf ==
  ASSUME NEW n \in Nat, NEW s \in SUBSET (1..n), s # {}
  PROVE  Max(s) \in s /\ \A x \in s : Max(s) >= x
  <1>0. \A x \in s : n - x \in Nat  OBVIOUS
  <1>1. {n - x : x \in s} \subseteq Nat /\ {n - x : x \in s} # {}  BY <1>0
  <1>2. PICK y \in {n - x : x \in s} : \A z \in {n - x : x \in s} : y <= z  BY <1>1, LeastNatural
  <1>3. PICK m \in s : y = n - m  BY <1>2
  <1>4. \A x \in s : n - m <= n - x /\ x \in Nat /\ m \in Nat  BY <1>2, <1>3
  <1>5. \A x \in s : m >= x  BY <1>4
  <1> QED  BY <1>5 DEF Max

\* f is the function the fold of AddStyles computes over the sets of indices up to n.
Rec(f, p, list, up, n) ==
  f = [s \in SUBSET (1..n) |-> IF s = {} THEN p ELSE AddStyle(f[s \ {Max(s)}], list[Max(s)], up)]

\* The function that MapThenFoldSet chooses for the fold of AddStyles exists.
LEMMA FoldExists ==
  ASSUME NEW p, NEW list, NEW up, NEW len \in Nat
  PROVE  \E f : Rec(f, p, list, up, len)
  <1> DEFINE S == {n \in Nat : \E f : Rec(f, p, list, up, n)}
  <1>1. 0 \in S
    <2>1. SUBSET (1..0) = {{}}  OBVIOUS
    <2>2. Rec([s \in SUBSET (1..0) |-> p], p, list, up, 0)  BY <2>1 DEF Rec
    <2> QED  BY <2>2
  <1>2. ASSUME NEW n \in S PROVE n + 1 \in S
    <2>1. n \in Nat /\ n + 1 \in Nat OBVIOUS
    <2>2. PICK f : Rec(f, p, list, up, n)  OBVIOUS
    <2> DEFINE g == [s \in SUBSET (1..(n + 1)) |->
                       IF n + 1 \in s THEN AddStyle(f[s \ {n + 1}], list[n + 1], up) ELSE f[s]]
    <2>3. ASSUME NEW s \in SUBSET (1..(n + 1))
          PROVE  g[s] = IF s = {} THEN p ELSE AddStyle(g[s \ {Max(s)}], list[Max(s)], up)
      <3>1. CASE n + 1 \in s
        <4>1. Max(s) \in s /\ \A x \in s : Max(s) >= x  BY <2>1, <3>1, MaxOf
        <4>2. Max(s) = n + 1
          <5>1. Max(s) \in 1..(n + 1) /\ Max(s) >= n + 1  BY <3>1, <4>1
          <5> QED  BY <2>1, <5>1
        <4>3. s \ {n + 1} \in SUBSET (1..n) /\ s \ {n + 1} \in SUBSET (1..(n + 1))  BY <2>1
        <4>4. g[s \ {n + 1}] = f[s \ {n + 1}]  BY <4>3
        <4> HIDE DEF g
        <4>5. g[s] = AddStyle(f[s \ {n + 1}], list[n + 1], up)  BY <3>1 DEF g
        <4> QED  BY <3>1, <4>2, <4>4, <4>5
      <3>2. CASE n + 1 \notin s
        <4>1. s \in SUBSET (1..n)  BY <2>1, <3>2
        <4>2. g[s] = f[s]  BY <3>2
        <4>3. f[s] = IF s = {} THEN p ELSE AddStyle(f[s \ {Max(s)}], list[Max(s)], up)
          BY <2>2, <4>1 DEF Rec
        <4>4. s \ {Max(s)} \in SUBSET (1..(n + 1)) /\ n + 1 \notin s \ {Max(s)}  BY <3>2
        <4>5. g[s \ {Max(s)}] = f[s \ {Max(s)}]  BY <4>4
        <4> HIDE DEF g
        <4> QED  BY <4>2, <4>3, <4>5
      <3> QED  BY <3>1, <3>2
    <2>4. g = [s \in SUBSET (1..(n + 1)) |-> g[s]]  OBVIOUS
    <2> HIDE DEF g
    <2>5. Rec(g, p, list, up, n + 1)  BY <2>3, <2>4 DEF Rec
    <2> QED  BY <2>1, <2>5
  <1>3. \A i \in 0..len : i \in S  BY <1>1, <1>2, UpTo
  <1> QED  BY <1>3

\* f[n] is the record after the first n styles of the list.
Steps(f, p, list, up) ==
  /\ f[0] = p /\ AddStyles(p, list, up) = f[Len(list)]
  /\ \A n \in 1..Len(list) : f[n] = AddStyle(f[n - 1], list[n], up)

\* AddStyles, the loop of bhop_style_manager.cpp over a list of names, adds the styles one
\* after another, in the order of the list.
LEMMA AddStylesSteps ==
  ASSUME NEW T, NEW p, NEW list \in Seq(T), NEW up
  PROVE  \E f : Steps(f, p, list, up)
  <1> DEFINE D == 1..Len(list)
  <1>1. D = DOMAIN list /\ Len(list) \in Nat  OBVIOUS
  <1> DEFINE iter == CHOOSE f : Rec(f, p, list, up, Len(list))
  <1>2. Rec(iter, p, list, up, Len(list))  BY <1>1, FoldExists
  <1>3. AddStyles(p, list, up) = iter[D]
    BY <1>1 DEF AddStyles, FoldLeft, MapThenFoldSet, Rec
  <1> HIDE DEF iter
  <1> DEFINE g == [n \in 0..Len(list) |-> iter[1..n]]
  <1>4. g[0] = p
    <2>1. 1..0 = {} /\ {} \in SUBSET (1..Len(list)) /\ 0 \in 0..Len(list)  BY <1>1
    <2> QED  BY <1>2, <2>1 DEF Rec
  <1>5. ASSUME NEW n \in 1..Len(list) PROVE g[n] = AddStyle(g[n - 1], list[n], up)
    <2>1. n \in Nat /\ n - 1 \in 0..Len(list) /\ n \in 0..Len(list)  BY <1>1
    <2>2. 1..n \in SUBSET (1..Len(list)) /\ 1..n # {} /\ n \in 1..n  BY <1>1
    <2>3. Max(1..n) \in 1..n /\ \A x \in 1..n : Max(1..n) >= x  BY <2>1, <2>2, MaxOf
    <2>4. Max(1..n) = n  BY <2>1, <2>2, <2>3
    <2>5. (1..n) \ {n} = 1..(n - 1)  BY <2>1
    <2>6. iter[1..n] = AddStyle(iter[1..(n - 1)], list[n], up)  BY <1>2, <2>2, <2>4, <2>5 DEF Rec
    <2> QED  BY <2>1, <2>6
  <1>6. AddStyles(p, list, up) = g[Len(list)]  BY <1>1, <1>3
  <1> HIDE DEF g
  <1> QED  BY <1>4, <1>5, <1>6 DEF Steps

\* What every AddStyle keeps, AddStyles keeps.
LEMMA AddStylesStay ==
  ASSUME NEW T, NEW list \in Seq(T), NEW up, NEW G, NEW p \in G,
         \A q \in G, s \in T : AddStyle(q, s, up) \in G
  PROVE  AddStyles(p, list, up) \in G
  <1>1. PICK f : Steps(f, p, list, up)  BY AddStylesSteps
  <1>0. Len(list) \in Nat  OBVIOUS
  <1> DEFINE S == {n \in 0..Len(list) : f[n] \in G}
  <1>2. 0 \in S  BY <1>0, <1>1 DEF Steps
  <1>3. ASSUME NEW i \in S, i \in 0..(Len(list) - 1) PROVE i + 1 \in S
    <2>1. i + 1 \in 1..Len(list) /\ (i + 1) - 1 = i /\ list[i + 1] \in T  BY <1>3
    <2> QED  BY <1>1, <2>1 DEF Steps
  <1>4. \A i \in 0..Len(list) : i \in S  BY <1>0, <1>2, <1>3, UpTo
  <1> QED  BY <1>0, <1>1, <1>4 DEF Steps

------------------------------------------------------------------------------
\* The types of the state.
Users       == [player : Players, id : Nat]
StoredPrefs == [preferredMode : Modes \cup {Unset}, preferredStyles : {Unset} \cup Seq(Styles)]
Services    == [mode : Modes, styles : Seq(Styles), timerRunning : BOOLEAN, early : BOOLEAN,
                prefs : StoredPrefs, userSet : SUBSET Keys, dataState : Nat, currentState : Nat,
                currentRating : Ratings \cup {Unset}, desiredMode : Modes \cup {Unset},
                undecided : BOOLEAN, asked : SUBSET Ratings]

\* The rating shown is that of the user; it and the mode asked for are those of the mode played,
\* unless the mode was switched when nothing could be asked.
RatingFits(p) ==
  /\ p.currentRating # Unset => user # NoUser /\ p.currentRating.player = user.player
  /\ ~p.undecided => /\ p.desiredMode \in {Unset, p.mode}
                     /\ p.currentRating # Unset => p.currentRating.mode = p.mode

Compatible(list) == \A s, t \in ToSet(list) : s # t => s \notin Conflicts[t]

StylesFit(p) == IsInjective(p.styles) /\ (~hist.relisted => Compatible(p.styles))

\* What every step keeps of the services, whatever was chosen.
Healthy == {p \in Services : RatingFits(p) /\ StylesFit(p)}

Jobs == [kind : {"setup", "save"}, user : Users, prefs : StoredPrefs]
Histories == [chosen : StoredPrefs, unplugged : BOOLEAN, relisted : BOOLEAN, joins : Nat, events : Nat]

Typed ==
  /\ user \in Users \cup {NoUser}
  /\ authed \in BOOLEAN /\ ingame \in BOOLEAN
  /\ user = NoUser => ~authed
  /\ loaded \subseteq Modes \cup Styles /\ DefaultMode \in loaded
  /\ listed \in [Styles -> SUBSET Styles]
  /\ rows \in [Players -> StoredPrefs] /\ api \in [Players -> StoredPrefs]
  /\ jobs \in Seq(Jobs)
  /\ acks \subseteq Players
  /\ hist \in Histories
\* A loaded style lists what its plugin passes, until one registered without its list.
ListsKept == ~hist.relisted => \A s \in Styles \cap loaded : listed[s] = Conflicts[s]

\* Appending a new style keeps a list injective and adds that style.
LEMMA AppendedStyles ==
  ASSUME NEW list \in Seq(Styles), NEW s \in Styles, s \notin ToSet(list), IsInjective(list)
  PROVE  /\ Append(list, s) \in Seq(Styles) /\ IsInjective(Append(list, s))
         /\ ToSet(Append(list, s)) = ToSet(list) \cup {s}
  <1> DEFINE l == Append(list, s)
  <1>1. /\ l \in Seq(Styles) /\ Len(l) = Len(list) + 1 /\ l[Len(list) + 1] = s /\ Len(list) \in Nat
        /\ \A i \in 1..Len(list) : l[i] = list[i]
    OBVIOUS
  <1>2. DOMAIN list = 1..Len(list) /\ DOMAIN l = 1..(Len(list) + 1)  BY <1>1
  <1>3. \A i \in 1..(Len(list) + 1) : i \in 1..Len(list) \/ i = Len(list) + 1  BY <1>1
  <1> HIDE DEF l
  <1>4. \A i \in 1..Len(list) : l[i] # s  BY <1>1, <1>2 DEF ToSet
  <1>5. IsInjective(l)  BY <1>1, <1>2, <1>3, <1>4 DEF IsInjective
  <1>6. ToSet(l) = ToSet(list) \cup {s}  BY <1>1, <1>2, <1>3 DEF ToSet
  <1> QED  BY <1>1, <1>5, <1>6 DEF l

\* RemoveFirst keeps a list injective and adds nothing.
LEMMA RemovedStyles ==
  ASSUME NEW list \in Seq(Styles), NEW s, IsInjective(list)
  PROVE  /\ RemoveFirst(list, s) \in Seq(Styles) /\ IsInjective(RemoveFirst(list, s))
         /\ ToSet(RemoveFirst(list, s)) \subseteq ToSet(list)
  <1>1. CASE ~ \E i \in 1..Len(list) : list[i] = s  BY <1>1 DEF RemoveFirst
  <1>2. CASE \E i \in 1..Len(list) : list[i] = s
    <2> DEFINE I == {i \in 1..Len(list) : list[i] = s}
               j == Min(I)
    <2>1. Len(list) \in Nat /\ I \subseteq Nat /\ I # {}  BY <1>2
    <2>2. j \in I  BY <2>1, LeastNatural DEF Min
    <2>3. RemoveFirst(list, s) = RemoveAt(list, j)  BY <1>2, <2>1 DEF RemoveFirst, SelectInSeq
    <2>4. j \in 1..Len(list)  BY <2>2
    <2> HIDE DEF j
    <2> DEFINE q == RemoveAt(list, j)
    <2>5. /\ q \in Seq(Styles) /\ Len(q) = Len(list) - 1
          /\ \A i \in 1..(Len(list) - 1) : q[i] = IF i < j THEN list[i] ELSE list[i + 1]
      <3> DEFINE a == SubSeq(list, 1, j - 1)
                 b == SubSeq(list, j + 1, Len(list))
      <3>1. /\ a \in Seq(Styles) /\ Len(a) = j - 1
            /\ \A i \in 1..(j - 1) : a[i] = list[i]
        BY <2>1, <2>4
      <3>2. /\ b \in Seq(Styles) /\ Len(b) = Len(list) - j
            /\ \A i \in 1..(Len(list) - j) : b[i] = list[j + i]
        BY <2>1, <2>4
      <3>3. q = a \o b  BY DEF RemoveAt
      <3> HIDE DEF a, b, q
      <3>4. q \in Seq(Styles) /\ Len(q) = Len(list) - 1
        <4>1. a \in Seq(Styles) /\ b \in Seq(Styles)  BY <3>1, <3>2
        <4>2. a \o b \in Seq(Styles) /\ Len(a \o b) = Len(a) + Len(b)  BY <4>1
        <4> QED  BY <2>1, <2>4, <3>1, <3>2, <3>3, <4>2
      <3>5. ASSUME NEW i \in 1..(Len(list) - 1) PROVE q[i] = IF i < j THEN list[i] ELSE list[i + 1]
        <4>1. CASE i < j
          <5>1. i \in 1..Len(a)  BY <2>4, <3>1, <4>1
          <5> QED  BY <3>1, <3>2, <3>3, <4>1, <5>1
        <4>2. CASE ~(i < j)
          <5>1. i - (j - 1) \in 1..(Len(list) - j) /\ i > Len(a) /\ i <= Len(a) + Len(b)
                /\ j + (i - (j - 1)) = i + 1
            BY <2>1, <2>4, <3>1, <3>2, <4>2
          <5>2. q[i] = b[i - Len(a)]  BY <2>1, <2>4, <3>1, <3>2, <3>3, <5>1
          <5> QED  BY <3>1, <3>2, <4>2, <5>1, <5>2
        <4> QED  BY <4>1, <4>2
      <3> QED  BY <3>4, <3>5
    <2>6. DOMAIN q = 1..(Len(list) - 1) /\ DOMAIN list = 1..Len(list)  BY <2>5
    <2> HIDE DEF q
    <2>7. \A i \in 1..(Len(list) - 1) : i \in 1..Len(list) /\ i + 1 \in 1..Len(list)  BY <2>1
    <2>8. IsInjective(q)
      <3> SUFFICES ASSUME NEW a \in 1..(Len(list) - 1), NEW b \in 1..(Len(list) - 1), q[a] = q[b]
                   PROVE  a = b
        BY <2>6 DEF IsInjective
      <3> DEFINE at(i) == IF i < j THEN i ELSE i + 1
      <3>1. at(a) \in 1..Len(list) /\ at(b) \in 1..Len(list)  BY <2>7
      <3>2. q[a] = list[at(a)] /\ q[b] = list[at(b)]  BY <2>5
      <3> HIDE DEF at
      <3>3. at(a) = at(b)  BY <2>6, <3>1, <3>2 DEF IsInjective
      <3> QED  BY <2>4, <3>3 DEF at
    <2>9. ToSet(q) \subseteq ToSet(list)  BY <2>5, <2>6, <2>7 DEF ToSet
    <2> QED  BY <2>3, <2>5, <2>8, <2>9 DEF q
  <1> QED  BY <1>1, <1>2

\* AddStyle keeps the services healthy, as the list of the style added is the plugin's and
\* conflicts are mutual; it leaves the mode, the rating and the preferred mode alone.
LEMMA AddedStyle ==
  ASSUME Typed, ListsKept, NEW p \in Healthy, NEW s \in Styles, NEW up \in BOOLEAN
  PROVE  /\ AddStyle(p, s, up) \in Healthy
         /\ AddStyle(p, s, up).mode = p.mode
         /\ AddStyle(p, s, up).currentRating = p.currentRating
         /\ AddStyle(p, s, up).prefs.preferredMode = p.prefs.preferredMode
         /\ p.userSet \subseteq AddStyle(p, s, up).userSet
         /\ ~up => AddStyle(p, s, up).prefs = p.prefs
  <1> DEFINE q == [p EXCEPT !.styles = Append(@, s), !.timerRunning = FALSE]
             r == [q EXCEPT !.prefs["preferredStyles"] = q.styles, !.userSet = @ \cup {"preferredStyles"}]
  <1>0. p \in Services /\ RatingFits(p) /\ StylesFit(p)  BY DEF Healthy
  <1>1. CASE s \in ToSet(p.styles) \/ s \notin loaded \/ Conflicting(p, s)
    BY <1>0, <1>1 DEF AddStyle
  <1>2. CASE s \notin ToSet(p.styles) /\ s \in loaded /\ ~Conflicting(p, s)
    <2>1. AddStyle(p, s, up) = IF up THEN r ELSE q
      BY <1>2 DEF AddStyle, UpdateStyles, SetPreference
    <2>2. p.styles \in Seq(Styles) /\ IsInjective(p.styles)  BY <1>0 DEF Services, StylesFit
    <2>3. /\ Append(p.styles, s) \in Seq(Styles) /\ IsInjective(Append(p.styles, s))
          /\ ToSet(Append(p.styles, s)) = ToSet(p.styles) \cup {s}
      BY <1>2, <2>2, AppendedStyles
    <2>4. ASSUME ~hist.relisted PROVE Compatible(Append(p.styles, s))
      <3>1. Compatible(p.styles) /\ listed[s] = Conflicts[s]
        BY <1>0, <1>2, <2>4 DEF StylesFit, ListsKept
      <3>2. \A t \in ToSet(p.styles) : t \in Styles  BY <2>2 DEF ToSet
      <3>3. \A t \in ToSet(p.styles) : t \notin Conflicts[s] /\ s \notin Conflicts[t]
        BY <1>2, <3>1, <3>2, SessionAssumption DEF Conflicting
      <3> QED  BY <2>3, <3>1, <3>3 DEF Compatible
    <2>5. q \in Services /\ r \in Services
      BY <1>0, <2>3 DEF Services, StoredPrefs, Keys
    <2>6. RatingFits(q) /\ RatingFits(r)  BY <1>0 DEF RatingFits, Services
    <2>7. StylesFit(q) /\ StylesFit(r)  BY <1>0, <2>3, <2>4 DEF StylesFit, Services
    <2>8. q \in Healthy /\ r \in Healthy  BY <2>5, <2>6, <2>7 DEF Healthy
    <2>9. /\ q.mode = p.mode /\ q.currentRating = p.currentRating /\ q.prefs = p.prefs
          /\ p.userSet \subseteq q.userSet
      BY <1>0 DEF Services, StoredPrefs
    <2>10. /\ r.mode = p.mode /\ r.currentRating = p.currentRating
           /\ r.prefs.preferredMode = p.prefs.preferredMode
           /\ p.userSet \subseteq r.userSet
      BY <1>0 DEF Services, StoredPrefs
    <2> HIDE DEF q, r
    <2> QED  BY <2>1, <2>8, <2>9, <2>10
  <1> QED  BY <1>1, <1>2

\* What the operations on styles leave alone.
Alike(p, q) == /\ q.mode = p.mode /\ q.currentRating = p.currentRating
               /\ q.prefs.preferredMode = p.prefs.preferredMode /\ p.userSet \subseteq q.userSet

\* So does AddStyles.
LEMMA AddedStyles ==
  ASSUME Typed, ListsKept, NEW p \in Healthy, NEW list \in Seq(Styles), NEW up \in BOOLEAN
  PROVE  AddStyles(p, list, up) \in Healthy /\ Alike(p, AddStyles(p, list, up))
  <1> DEFINE G == {q \in Healthy : Alike(p, q)}
  <1>1. p \in G  BY DEF Alike
  <1>2. ASSUME NEW q \in G, NEW s \in Styles PROVE AddStyle(q, s, up) \in G
    BY AddedStyle DEF Alike
  <1> HIDE DEF G
  <1>3. AddStyles(p, list, up) \in G  BY <1>1, <1>2, AddStylesStay
  <1> QED  BY <1>3 DEF G

\* UpdateStyles stores the list as a preference and nothing else.
LEMMA UpdatedStyles ==
  ASSUME NEW p \in Healthy, NEW list \in Seq(Styles), NEW up \in BOOLEAN,
         StylesFit([p EXCEPT !.styles = list])
  PROVE  /\ UpdateStyles([p EXCEPT !.styles = list], up) \in Healthy
         /\ Alike(p, UpdateStyles([p EXCEPT !.styles = list], up))
  BY
  DEF UpdateStyles, SetPreference, Healthy, Services, StoredPrefs, Keys, RatingFits, StylesFit, Alike

\* ClearStyles keeps the services healthy.
LEMMA ClearedStyles ==
  ASSUME NEW p \in Healthy, NEW up \in BOOLEAN
  PROVE  ClearStyles(p, up) \in Healthy /\ Alike(p, ClearStyles(p, up))
  <1>1. <<>> \in Seq(Styles) /\ IsInjective(<<>>) /\ Compatible(<<>>)
    BY DEF IsInjective, Compatible, ToSet
  <1>2. p \in Services  BY DEF Healthy
  <1>3. StylesFit([p EXCEPT !.styles = <<>>])  BY <1>1, <1>2 DEF StylesFit, Services
  <1> QED  BY <1>1, <1>3, UpdatedStyles DEF ClearStyles

\* RemoveStyle keeps the services healthy.
LEMMA RemovedStyle ==
  ASSUME NEW p \in Healthy, NEW s, NEW up \in BOOLEAN
  PROVE  RemoveStyle(p, s, up) \in Healthy /\ Alike(p, RemoveStyle(p, s, up))
  <1> DEFINE l == RemoveFirst(p.styles, s)
  <1>1. p \in Services /\ StylesFit(p)  BY DEF Healthy
  <1>2. p.styles \in Seq(Styles) /\ IsInjective(p.styles)  BY <1>1 DEF Services, StylesFit
  <1>3. l \in Seq(Styles) /\ IsInjective(l) /\ ToSet(l) \subseteq ToSet(p.styles)
    BY <1>2, RemovedStyles
  <1>4. RemoveStyle(p, s, up) = IF s \in ToSet(p.styles) THEN UpdateStyles([p EXCEPT !.styles = l], up) ELSE p
    BY DEF RemoveStyle
  <1> HIDE DEF l
  <1>5. StylesFit([p EXCEPT !.styles = l])
    BY <1>1, <1>3 DEF StylesFit, Services, Compatible
  <1> QED  BY <1>3, <1>4, <1>5, UpdatedStyles DEF Alike

\* RequestRating asks for the mode that is played, and touches nothing but the request.
LEMMA RequestedRating ==
  ASSUME Typed, NEW p \in Healthy
  PROVE  /\ RequestRating(p) \in Healthy
         /\ RequestRating(p) = [p EXCEPT !.desiredMode = RequestRating(p).desiredMode,
                                         !.asked = RequestRating(p).asked]
  <1>1. p \in Services /\ StylesFit(p) /\ RatingFits(p)  BY DEF Healthy
  <1>2. CASE ~CanRequest(p)  BY <1>1, <1>2 DEF RequestRating, Services
  <1>3. CASE CanRequest(p)
    <2>1. user.player \in Players /\ p.mode \in ApiModes /\ p.mode \in Modes
      BY <1>1, <1>3 DEF CanRequest, Typed, Users, Services
    <2> DEFINE a == p.asked \cup (IF p.styles = <<>> THEN {[player |-> user.player, mode |-> p.mode]} ELSE {})
               r == [p EXCEPT !.desiredMode = p.mode, !.asked = a]
    <2>2. RequestRating(p) = r  BY <1>1, <1>3 DEF RequestRating, Services
    <2>3. a \in SUBSET Ratings  BY <1>1, <2>1 DEF Services, Ratings
    <2> HIDE DEF a
    <2>4. r \in Services /\ RatingFits(r) /\ StylesFit(r)
      BY <1>1, <2>1, <2>3 DEF Services, RatingFits, StylesFit
    <2> QED  BY <1>1, <2>2, <2>4 DEF Healthy, Services
  <1> QED  BY <1>2, <1>3

\* ResetRating leaves no rating, and a request for the mode played or none.
LEMMA ResetRated ==
  ASSUME Typed, NEW p \in Services, StylesFit(p)
  PROVE  /\ ResetRating(p) \in Healthy
         /\ ResetRating(p).currentRating = Unset
         /\ \A f \in {"mode", "styles", "timerRunning", "prefs", "userSet"} : ResetRating(p)[f] = p[f]
  <1> DEFINE r == [p EXCEPT !.currentRating = Unset, !.undecided = ~CanRequest(p)]
             a == p.asked \cup (IF p.styles = <<>> THEN {[player |-> user.player, mode |-> p.mode]} ELSE {})
             d == [r EXCEPT !.desiredMode = r.mode, !.asked = a]
  <1>1. CanRequest(r) <=> CanRequest(p)  BY DEF CanRequest, Services
  <1>2. r \in Services /\ StylesFit(r)  BY DEF Services, StylesFit
  <1>3. CASE ~CanRequest(p)
    <2>1. ResetRating(p) = r  BY <1>1, <1>3 DEF ResetRating, RequestRating
    <2>2. RatingFits(r)  BY <1>3 DEF RatingFits, Services
    <2>3. r.currentRating = Unset /\ \A f \in {"mode", "styles", "timerRunning", "prefs", "userSet"} : r[f] = p[f]
      BY DEF Services
    <2> HIDE DEF r
    <2> QED  BY <1>2, <2>1, <2>2, <2>3 DEF Healthy
  <1>4. CASE CanRequest(p)
    <2>1. ResetRating(p) = d  BY <1>1, <1>4 DEF ResetRating, RequestRating, Services
    <2>2. user.player \in Players /\ p.mode \in ApiModes /\ p.mode \in Modes
      BY <1>4 DEF CanRequest, Typed, Users, Services
    <2>3. a \in SUBSET Ratings  BY <2>2 DEF Services, Ratings
    <2> HIDE DEF a
    <2>4. d \in Services /\ RatingFits(d) /\ StylesFit(d)
      BY <2>2, <2>3 DEF Services, RatingFits, StylesFit
    <2>5. d.currentRating = Unset /\ \A f \in {"mode", "styles", "timerRunning", "prefs", "userSet"} : d[f] = p[f]
      BY DEF Services
    <2> HIDE DEF d
    <2> QED  BY <2>1, <2>4, <2>5 DEF Healthy
  <1> QED  BY <1>3, <1>4

\* SwitchToMode: what it changes, and that a switch to a mode that is loaded drops the rating.
LEMMA SwitchedMode ==
  ASSUME Typed, NEW p \in Healthy, NEW m \in Modes, NEW force \in BOOLEAN, NEW up \in BOOLEAN
  PROVE  LET q == SwitchToMode(p, m, force, up)
         IN /\ q \in Healthy /\ q.styles = p.styles /\ q.prefs.preferredStyles = p.prefs.preferredStyles
            /\ p.userSet \subseteq q.userSet
            /\ q.mode = IF m \in loaded THEN m ELSE p.mode
            /\ q.prefs.preferredMode # p.prefs.preferredMode => q.prefs.preferredMode = q.mode
            /\ up => q = p \/ (q.prefs.preferredMode = q.mode /\ "preferredMode" \in q.userSet)
            /\ ~up => q.prefs = p.prefs
            /\ force /\ m \in loaded => q.currentRating = Unset
            /\ q = p \/ q.currentRating = Unset
  <1> DEFINE base == [p EXCEPT !.mode = m, !.timerRunning = FALSE]
             s == ResetRating(base)
             u == [s EXCEPT !.prefs["preferredMode"] = m, !.userSet = @ \cup {"preferredMode"}]
  <1>1. p \in Services /\ StylesFit(p)  BY DEF Healthy
  <1>2. base \in Services /\ StylesFit(base) /\ base.mode = m /\ base.styles = p.styles /\ base.prefs = p.prefs
        /\ base.userSet = p.userSet
    BY <1>1 DEF Services, StylesFit
  <1> HIDE DEF base
  <1>3. /\ s \in Healthy /\ s.currentRating = Unset
        /\ s.mode = m /\ s.styles = p.styles /\ s.prefs = p.prefs /\ s.userSet = p.userSet
    BY <1>2, ResetRated
  <1>4. SwitchToMode(p, m, force, up) = IF (~force /\ p.mode = m) \/ m \notin loaded THEN p
                                        ELSE IF up THEN u ELSE s
    BY DEF SwitchToMode, SetPreference, base
  <1> HIDE DEF s
  <1>5. /\ u \in Healthy /\ u.currentRating = Unset /\ u.mode = m /\ u.styles = p.styles
        /\ u.prefs.preferredStyles = p.prefs.preferredStyles /\ u.prefs.preferredMode = m
        /\ p.userSet \subseteq u.userSet /\ "preferredMode" \in u.userSet
    <2>1. s \in Services /\ RatingFits(s) /\ StylesFit(s)  BY <1>3 DEF Healthy
    <2>2. u \in Services  BY <2>1 DEF Services, StoredPrefs, Keys
    <2>3. /\ u.mode = s.mode /\ u.styles = s.styles /\ u.currentRating = s.currentRating
          /\ u.desiredMode = s.desiredMode /\ u.undecided = s.undecided
          /\ u.prefs.preferredStyles = s.prefs.preferredStyles /\ u.prefs.preferredMode = m
          /\ u.userSet = s.userSet \cup {"preferredMode"}
      BY <2>1 DEF Services, StoredPrefs
    <2> HIDE DEF u
    <2>4. RatingFits(u) /\ StylesFit(u)  BY <2>1, <2>3 DEF RatingFits, StylesFit
    <2> QED  BY <1>3, <2>2, <2>3, <2>4 DEF Healthy
  <1> HIDE DEF u
  <1> QED  BY <1>3, <1>4, <1>5

\* Until a plugin is unloaded every one is there, with its list.
Plugged == ~hist.unplugged => Modes \cup Styles \subseteq loaded /\ ~hist.relisted
\* What was chosen is in force, and marked as set by the user.
ChosenInForce(p) ==
  /\ \A k \in Keys : hist.chosen[k] # Unset => k \in p.userSet /\ p.prefs[k] = hist.chosen[k]
  /\ hist.chosen.preferredMode # Unset => p.mode = hist.chosen.preferredMode
  /\ hist.chosen.preferredStyles # Unset => p.styles = hist.chosen.preferredStyles
Fit == {p \in Healthy : ~hist.unplugged => ChosenInForce(p)}

\* Styles without conflicts that are added to an empty list again give the same list, when every
\* plugin is loaded: RefreshStyles and the loading of preferences lose none and reorder none.
LEMMA ReaddedStyles ==
  ASSUME Typed, ListsKept, Modes \cup Styles \subseteq loaded, ~hist.relisted,
         NEW p \in Healthy, p.styles = <<>>, NEW up \in BOOLEAN,
         NEW list \in Seq(Styles), IsInjective(list), Compatible(list)
  PROVE  /\ AddStyles(p, list, up).styles = list
         /\ AddStyles(p, list, up).prefs.preferredStyles =
              IF up /\ list # <<>> THEN list ELSE p.prefs.preferredStyles
  <1>1. PICK f : Steps(f, p, list, up)  BY AddStylesSteps
  <1>0. Len(list) \in Nat /\ DOMAIN list = 1..Len(list)  OBVIOUS
  <1> DEFINE front(n) == SubSeq(list, 1, n)
             Added(q, n) == /\ q \in Healthy /\ q.styles = front(n)
                            /\ q.prefs.preferredStyles =
                                 IF up /\ n # 0 THEN front(n) ELSE p.prefs.preferredStyles
             S == {n \in 0..Len(list) : Added(f[n], n)}
  <1>2. 0 \in S
    <2>1. front(0) = <<>>  OBVIOUS
    <2>2. f[0] = p /\ 0 \in 0..Len(list)  BY <1>0, <1>1 DEF Steps
    <2> HIDE DEF front
    <2>3. Added(f[0], 0)  BY <2>1, <2>2
    <2> QED  BY <2>2, <2>3
  <1>3. ASSUME NEW i \in S, i \in 0..(Len(list) - 1) PROVE i + 1 \in S
    <2>1. /\ i + 1 \in 1..Len(list) /\ (i + 1) - 1 = i /\ i + 1 \in 0..Len(list) /\ i + 1 # 0
          /\ list[i + 1] \in Styles /\ i \in Nat /\ i < Len(list)
      BY <1>0, <1>3
    <2> DEFINE s == list[i + 1]
               q == f[i]
    <2>2. q \in Healthy /\ q.styles = front(i)
          /\ q.prefs.preferredStyles = IF up /\ i # 0 THEN front(i) ELSE p.prefs.preferredStyles
      BY <1>3
    <2>3. f[i + 1] = AddStyle(q, s, up)  BY <1>1, <2>1 DEF Steps
    <2>4. /\ front(i) \in Seq(Styles) /\ Len(front(i)) = i
          /\ \A j \in 1..i : front(i)[j] = list[j]
          /\ front(i + 1) = Append(front(i), s)
      BY <1>0, <2>1
    <2>5. ToSet(front(i)) = {list[j] : j \in 1..i}
      <3> HIDE DEF front
      <3>1. DOMAIN front(i) = 1..i  BY <2>1, <2>4
      <3> QED  BY <2>4, <3>1 DEF ToSet
    <2>6. \A j \in 1..i : j \in DOMAIN list /\ j # i + 1 /\ i + 1 \in DOMAIN list  BY <1>0, <2>1
    <2> HIDE DEF front, S
    <2>7. \A j \in 1..i : list[j] # s /\ list[j] \in ToSet(list) /\ s \in ToSet(list)
      BY <2>6 DEF IsInjective, ToSet
    <2>8. \A j \in 1..i : list[j] \notin Conflicts[s]
      BY <2>7 DEF Compatible
    <2>9. s \notin ToSet(q.styles) /\ s \in loaded /\ ~Conflicting(q, s)
      <3>1. s \in loaded /\ listed[s] = Conflicts[s]  BY <2>1 DEF ListsKept
      <3> QED  BY <2>2, <2>5, <2>7, <2>8, <3>1 DEF Conflicting
    <2>10. AddStyle(q, s, up) = UpdateStyles([q EXCEPT !.styles = Append(@, s), !.timerRunning = FALSE], up)
      BY <2>9 DEF AddStyle
    <2>11. q \in Services  BY <2>2 DEF Healthy
    <2>12. /\ AddStyle(q, s, up).styles = front(i + 1)
           /\ AddStyle(q, s, up).prefs.preferredStyles =
                IF up THEN front(i + 1) ELSE q.prefs.preferredStyles
      <3> DEFINE a == [q EXCEPT !.styles = Append(@, s), !.timerRunning = FALSE]
                 b == SetPreference(a, "preferredStyles", a.styles)
      <3>1. a.styles = front(i + 1) /\ a.prefs = q.prefs  BY <2>2, <2>4, <2>11 DEF Services
      <3>2. b.styles = a.styles /\ b.prefs.preferredStyles = a.styles
        BY <2>11 DEF SetPreference, Services, StoredPrefs
      <3>3. AddStyle(q, s, up) = IF up THEN b ELSE a  BY <2>10 DEF UpdateStyles
      <3> HIDE DEF a, b
      <3> QED  BY <3>1, <3>2, <3>3
    <2>13. AddStyle(q, s, up) \in Healthy  BY <2>1, <2>2, AddedStyle
    <2> QED  BY <2>1, <2>2, <2>3, <2>12, <2>13 DEF S
  <1>4. \A i \in 0..Len(list) : i \in S
    <2> HIDE DEF S
    <2> QED  BY <1>0, <1>2, <1>3, UpTo
  <1>5. Added(f[Len(list)], Len(list))  BY <1>0, <1>4
  <1>6. front(Len(list)) = list  BY <1>0
  <1>7. Len(list) # 0 <=> list # <<>>  BY <1>0
  <1> HIDE DEF front
  <1> QED  BY <1>1, <1>5, <1>6, <1>7 DEF Steps

\* The invariant of all but the services.
Steady == Typed /\ ListsKept /\ Plugged

\* The listener of the mode manager keeps the mode the player chose.
LEMMA LoadedModes ==
  ASSUME Steady, NEW p \in Fit PROVE ModesLoaded(p) \in Fit
  <1> DEFINE m == Preference(p, "preferredMode", DefaultMode)
             q == SwitchToMode(p, m, FALSE, TRUE)
  <1>1. p \in Healthy /\ p \in Services  BY DEF Fit, Healthy
  <1>2. m \in Modes  BY <1>1, SessionAssumption DEF Preference, Services, StoredPrefs
  <1> HIDE DEF m
  <1>3. /\ q \in Healthy /\ q.styles = p.styles /\ q.prefs.preferredStyles = p.prefs.preferredStyles
        /\ p.userSet \subseteq q.userSet
        /\ q.mode = IF m \in loaded THEN m ELSE p.mode
        /\ q.prefs.preferredMode # p.prefs.preferredMode => q.prefs.preferredMode = q.mode
    BY <1>1, <1>2, SwitchedMode DEF Steady
  <1> HIDE DEF q
  <1>4. ASSUME ChosenInForce(p) PROVE ChosenInForce(q)
    <2>1. CASE hist.chosen.preferredMode # Unset
      <3>1. p.prefs.preferredMode = hist.chosen.preferredMode /\ p.mode = hist.chosen.preferredMode
        BY <1>4, <2>1 DEF ChosenInForce, Keys
      <3>2. m = p.mode  BY <2>1, <3>1 DEF Preference, m
      <3>3. q.mode = p.mode /\ q.prefs.preferredMode = p.prefs.preferredMode  BY <1>3, <3>1, <3>2
      <3> QED  BY <1>3, <1>4, <3>3 DEF ChosenInForce, Keys
    <2>2. CASE hist.chosen.preferredMode = Unset
      BY <1>3, <1>4, <2>2 DEF ChosenInForce, Keys
    <2> QED  BY <2>1, <2>2
  <1>5. q \in Fit  BY <1>3, <1>4 DEF Fit
  <1> QED  BY <1>5 DEF ModesLoaded, q, m

\* Clearing the styles and adding them again keeps the styles the player chose.
LEMMA ReloadedStyles ==
  ASSUME Steady, NEW p \in Fit, NEW up \in BOOLEAN, NEW list \in Seq(Styles),
         ~hist.unplugged /\ hist.chosen.preferredStyles # Unset => list = p.styles
  PROVE  AddStyles(ClearStyles(p, FALSE), list, up) \in Fit
  <1> DEFINE c == ClearStyles(p, FALSE)
             q == AddStyles(c, list, up)
  <1>1. p \in Healthy /\ p \in Services /\ StylesFit(p)  BY DEF Fit, Healthy
  <1>2. c \in Healthy /\ Alike(p, c)  BY <1>1, ClearedStyles
  <1>3. c.styles = <<>> /\ c.prefs = p.prefs  BY <1>1 DEF ClearStyles, UpdateStyles, Services
  <1> HIDE DEF c
  <1>4. q \in Healthy /\ Alike(c, q)  BY <1>2, AddedStyles DEF Steady
  <1>5. ASSUME ~hist.unplugged, ChosenInForce(p) PROVE ChosenInForce(q)
    <2>1. CASE hist.chosen.preferredStyles # Unset
      <3>1. list = p.styles /\ p.styles = p.prefs.preferredStyles /\ p.styles = hist.chosen.preferredStyles
            /\ "preferredStyles" \in p.userSet
        BY <1>5, <2>1 DEF ChosenInForce, Keys
      <3>2. IsInjective(list) /\ Compatible(list) /\ Modes \cup Styles \subseteq loaded /\ ~hist.relisted
        BY <1>1, <1>5, <3>1 DEF StylesFit, Steady, Plugged
      <3>3. q.styles = list /\ q.prefs.preferredStyles = IF up /\ list # <<>> THEN list ELSE c.prefs.preferredStyles
        BY <1>2, <1>3, <3>2, ReaddedStyles DEF Steady
      <3> HIDE DEF q
      <3> QED  BY <1>2, <1>3, <1>4, <1>5, <3>1, <3>3 DEF ChosenInForce, Keys, Alike
    <2>2. CASE hist.chosen.preferredStyles = Unset
      <3> HIDE DEF q
      <3> QED  BY <1>2, <1>3, <1>4, <1>5, <2>2 DEF ChosenInForce, Keys, Alike
    <2> QED  BY <2>1, <2>2
  <1> HIDE DEF q
  <1>6. q \in Fit  BY <1>4, <1>5 DEF Fit
  <1> QED  BY <1>6 DEF q, c

\* Applying the preferences keeps what the player chose.
LEMMA AppliedPreferences ==
  ASSUME Steady, NEW p \in Fit PROVE Apply(p) \in Fit
  <1> DEFINE a == ModesLoaded(p)
             list == Preference(a, "preferredStyles", DefaultStyles)
             b == StylesLoaded(a)
  <1>1. a \in Fit  BY LoadedModes
  <1> HIDE DEF a
  <1>2. a \in Services /\ (~hist.unplugged => ChosenInForce(a))  BY <1>1 DEF Fit, Healthy
  <1>3. list \in Seq(Styles)  BY <1>2, SessionAssumption DEF Preference, Services, StoredPrefs
  <1>4. ~hist.unplugged /\ hist.chosen.preferredStyles # Unset => list = a.styles
    BY <1>2 DEF Preference, ChosenInForce, Keys
  <1>5. AddStyles(ClearStyles(a, FALSE), list, TRUE) \in Fit  BY <1>1, <1>3, <1>4, ReloadedStyles
  <1>6. b \in Fit  BY <1>1, <1>5 DEF StylesLoaded
  <1>7. Apply(p) = [b EXCEPT !.currentState = p.dataState]
    BY DEF Apply, OnPlayerPreferencesLoaded, a
  <1> HIDE DEF b
  <1>8. p.dataState \in Nat /\ b \in Services  BY <1>6 DEF Fit, Healthy, Services
  <1> DEFINE c == [b EXCEPT !.currentState = p.dataState]
  <1>9. c \in Services /\ \A f \in DOMAIN b \ {"currentState"} : c[f] = b[f]  BY <1>8 DEF Services
  <1>10. DOMAIN b = {"mode", "styles", "timerRunning", "early", "prefs", "userSet", "dataState",
                     "currentState", "currentRating", "desiredMode", "undecided", "asked"}
    BY <1>8 DEF Services
  <1> HIDE DEF c
  <1>11. c \in Fit  BY <1>6, <1>9, <1>10 DEF Fit, Healthy, RatingFits, StylesFit, ChosenInForce
  <1> QED  BY <1>7, <1>11 DEF c

\* Merging an answer keeps the preferences the player set: excludeKeys.
LEMMA MergedPreferences ==
  ASSUME Steady, NEW p \in Fit, NEW source \in StoredPrefs, NEW d \in Nat
  PROVE  [MergePreferences(p, source) EXCEPT !.dataState = d] \in Fit
  <1> DEFINE k == [x \in Keys |-> IF source[x] # Unset /\ x \notin p.userSet THEN source[x] ELSE p.prefs[x]]
             q == [p EXCEPT !.prefs = k, !.dataState = d]
  <1>1. p \in Services /\ RatingFits(p) /\ StylesFit(p) /\ (~hist.unplugged => ChosenInForce(p))
    BY DEF Fit, Healthy
  <1>2. [MergePreferences(p, source) EXCEPT !.dataState = d] = q
    BY <1>1 DEF MergePreferences, Services
  <1>3. p.prefs \in StoredPrefs  BY <1>1 DEF Services
  <1>4. k \in StoredPrefs  BY <1>3 DEF StoredPrefs, Keys
  <1>5. ~hist.unplugged => \A x \in Keys : hist.chosen[x] # Unset => k[x] = hist.chosen[x]
    BY <1>1 DEF ChosenInForce
  <1> HIDE DEF k
  <1>6. /\ q \in Services /\ q.mode = p.mode /\ q.styles = p.styles /\ q.prefs = k /\ q.userSet = p.userSet
        /\ q.currentRating = p.currentRating /\ q.desiredMode = p.desiredMode /\ q.undecided = p.undecided
    BY <1>1, <1>4 DEF Services
  <1> HIDE DEF q
  <1>7. RatingFits(q) /\ StylesFit(q) /\ (~hist.unplugged => ChosenInForce(q))
    BY <1>1, <1>5, <1>6 DEF RatingFits, StylesFit, ChosenInForce
  <1> QED  BY <1>2, <1>6, <1>7 DEF Fit, Healthy

\* An answer of the database or the API keeps what the player chose.
LEMMA AnsweredPreferences ==
  ASSUME Steady, NEW p \in Fit, NEW source \in StoredPrefs
  PROVE  InitializeLocalPrefs(p, source) \in Fit /\ InitializeGlobalPrefs(p, source) \in Fit
  <1>1. LocalData \in Nat /\ GlobalData \in Nat  BY DEF LocalData, GlobalData
  <1> QED
    BY <1>1, MergedPreferences, AppliedPreferences DEF InitializeLocalPrefs, InitializeGlobalPrefs

\* So does entering the game, which refreshes the mode and the styles.
LEMMA ActivePlayer ==
  ASSUME Steady, NEW p \in Fit
  PROVE  OptionsActive(RefreshStyles(SwitchToMode(p, p.mode, TRUE, FALSE))) \in Fit
  <1> DEFINE q == SwitchToMode(p, p.mode, TRUE, FALSE)
  <1>1. p \in Healthy /\ p.mode \in Modes  BY DEF Fit, Healthy, Services
  <1>2. /\ q \in Healthy /\ q.styles = p.styles /\ q.mode = p.mode
        /\ p.userSet \subseteq q.userSet /\ q.prefs = p.prefs
    BY <1>1, SwitchedMode DEF Steady
  <1> HIDE DEF q
  <1>3. q \in Fit  BY <1>2 DEF Fit, ChosenInForce
  <1>4. q.styles \in Seq(Styles)  BY <1>2 DEF Healthy, Services
  <1>5. RefreshStyles(q) \in Fit  BY <1>3, <1>4, ReloadedStyles DEF RefreshStyles
  <1>6. OptionsActive(RefreshStyles(q)) \in Fit  BY <1>5, AppliedPreferences DEF OptionsActive
  <1> QED  BY <1>6 DEF q

\* No preferences are preferences.
LEMMA NothingStored == NoPrefs \in StoredPrefs
  <1>1. NoPrefs = [preferredMode |-> Unset, preferredStyles |-> Unset]  BY DEF NoPrefs, Keys
  <1> QED  BY <1>1 DEF StoredPrefs

\* Reset leaves no rating, so that the next player of the slot is not shown his predecessor's.
LEMMA Forgotten ==
  ASSUME Steady, NEW p \in Healthy
  PROVE  Reset(p) \in Healthy /\ Reset(p).currentRating = Unset
  <1> DEFINE f == [p EXCEPT !.prefs = NoPrefs, !.userSet = {}, !.dataState = NoData, !.currentState = NoData,
                            !.timerRunning = FALSE, !.early = TRUE]
             m == SwitchToMode(f, DefaultMode, TRUE, FALSE)
             c == ClearStyles(m, FALSE)
  <1>1. p \in Services /\ RatingFits(p) /\ StylesFit(p)  BY DEF Healthy
  <1>2. NoPrefs \in StoredPrefs  BY NothingStored
  <1>3. f \in Services /\ RatingFits(f) /\ StylesFit(f)
    BY <1>1, <1>2 DEF Services, NoData, RatingFits, StylesFit
  <1>4. f \in Healthy  BY <1>3 DEF Healthy
  <1>5. Reset(p) = AddStyles(c, DefaultStyles, TRUE)  BY DEF Reset
  <1> HIDE DEF f
  <1>6. m \in Healthy /\ m.currentRating = Unset
    BY <1>4, SwitchedMode, SessionAssumption DEF Steady, Typed
  <1> HIDE DEF m
  <1>7. c \in Healthy /\ c.currentRating = Unset  BY <1>6, ClearedStyles DEF Alike
  <1> HIDE DEF c
  <1>8. DefaultStyles \in Seq(Styles)  BY SessionAssumption
  <1>9. Reset(p) \in Healthy /\ Alike(c, Reset(p))  BY <1>5, <1>7, <1>8, AddedStyles DEF Steady
  <1> QED  BY <1>7, <1>9 DEF Alike

StyleChosen(p, q) == q = p \/ (q.prefs.preferredStyles = q.styles /\ "preferredStyles" \in q.userSet)
\* A command that changes the styles stores them as the preference.
LEMMA ChosenStyles ==
  ASSUME NEW p \in Healthy, NEW s
  PROVE  /\ StyleChosen(p, AddStyle(p, s, TRUE))
         /\ StyleChosen(p, RemoveStyle(p, s, TRUE))
         /\ StyleChosen(p, ClearStyles(p, TRUE))
  <1>1. p \in Services  BY DEF Healthy
  <1>2. ASSUME NEW q \in {[p EXCEPT !.styles = Append(@, s), !.timerRunning = FALSE],
                          [p EXCEPT !.styles = RemoveFirst(@, s)], [p EXCEPT !.styles = <<>>]}
        PROVE  StyleChosen(p, UpdateStyles(q, TRUE))
    <2>1. DOMAIN q = DOMAIN p /\ q.prefs = p.prefs /\ q.userSet = p.userSet  BY <1>1 DEF Services
    <2>2. "preferredStyles" \in DOMAIN q.prefs /\ {"prefs", "userSet", "styles"} \subseteq DOMAIN q
      BY <1>1, <2>1 DEF Services, StoredPrefs
    <2> HIDE <1>2
    <2>3. UpdateStyles(q, TRUE).prefs.preferredStyles = q.styles /\ UpdateStyles(q, TRUE).styles = q.styles
          /\ "preferredStyles" \in UpdateStyles(q, TRUE).userSet
      BY <2>2 DEF UpdateStyles, SetPreference
    <2> QED  BY <2>3 DEF StyleChosen
  <1> QED  BY <1>2 DEF AddStyle, RemoveStyle, ClearStyles, StyleChosen

\* What a command did is stored as the preference.
Carried(p) ==
  /\ p \in Healthy /\ pl.userSet \subseteq p.userSet
  /\ \/ p = pl
     \/ /\ p.styles = pl.styles /\ p.prefs.preferredStyles = pl.prefs.preferredStyles
        /\ p.prefs.preferredMode = p.mode /\ "preferredMode" \in p.userSet
     \/ /\ p.mode = pl.mode /\ p.prefs.preferredMode = pl.prefs.preferredMode
        /\ p.prefs.preferredStyles = p.styles /\ "preferredStyles" \in p.userSet

\* Every command stores what it changes as the preference.
LEMMA CarriedOut ==
  ASSUME Steady, pl \in Fit
  PROVE  /\ \A m \in Modes : Carried(SwitchToMode(pl, m, FALSE, TRUE))
         /\ \A s \in Styles : /\ Carried(AddStyle(pl, s, TRUE)) /\ Carried(RemoveStyle(pl, s, TRUE))
                              /\ Carried(ToggleStyle(pl, s))
         /\ Carried(ClearStyles(pl, TRUE))
  <1>0. pl \in Healthy /\ Typed /\ ListsKept  BY DEF Fit, Steady
  <1>1. ASSUME NEW m \in Modes PROVE Carried(SwitchToMode(pl, m, FALSE, TRUE))
    <2> DEFINE q == SwitchToMode(pl, m, FALSE, TRUE)
    <2>1. /\ q \in Healthy /\ q.styles = pl.styles /\ q.prefs.preferredStyles = pl.prefs.preferredStyles
          /\ pl.userSet \subseteq q.userSet
          /\ q = pl \/ (q.prefs.preferredMode = q.mode /\ "preferredMode" \in q.userSet)
      BY <1>0, SwitchedMode
    <2> HIDE DEF q
    <2>2. Carried(q)  BY <2>1 DEF Carried
    <2> QED  BY <2>2 DEF q
  <1>2. ASSUME NEW q \in Healthy, Alike(pl, q), StyleChosen(pl, q) PROVE Carried(q)
    BY <1>2 DEF Alike, StyleChosen, Carried
  <1>3. ASSUME NEW s \in Styles PROVE Carried(AddStyle(pl, s, TRUE))
    <2> DEFINE q == AddStyle(pl, s, TRUE)
    <2>1. q \in Healthy /\ Alike(pl, q)  BY <1>0, AddedStyle DEF Alike
    <2>2. StyleChosen(pl, q)  BY <1>0, ChosenStyles
    <2> HIDE DEF q
    <2>3. Carried(q)  BY <1>2, <2>1, <2>2
    <2> QED  BY <2>3 DEF q
  <1>4. ASSUME NEW s \in Styles PROVE Carried(RemoveStyle(pl, s, TRUE))
    <2>1. StyleChosen(pl, RemoveStyle(pl, s, TRUE))  BY <1>0, ChosenStyles
    <2> QED  BY <1>0, <1>2, <2>1, RemovedStyle
  <1>5. Carried(ClearStyles(pl, TRUE))
    <2>1. StyleChosen(pl, ClearStyles(pl, TRUE))  BY <1>0, ChosenStyles
    <2> QED  BY <1>0, <1>2, <2>1, ClearedStyles
  <1> QED  BY <1>1, <1>3, <1>4, <1>5 DEF ToggleStyle

\* A command keeps the invariant, and what it changes is what was chosen.
LEMMA Commanded ==
  ASSUME Steady, pl \in Fit, Command PROVE Steady' /\ pl' \in Fit'
  <1>1. PICK p : Carried(p) /\ pl' = p /\ hist' = [hist EXCEPT !.chosen = Choice(p), !.events = @ + 1]
    BY CarriedOut, ZenonT(60) DEF Command
  <1>2. UNCHANGED <<user, authed, ingame, loaded, listed, rows, api, jobs, acks>>
    BY DEF Command, connVars, dbVars, apiVars
  <1>3. /\ pl \in Services /\ p \in Services /\ p \in Healthy /\ RatingFits(p) /\ StylesFit(p)
        /\ ~hist.unplugged => ChosenInForce(pl)
    BY <1>1 DEF Fit, Healthy, Carried
  <1> DEFINE c == Choice(p)
  <1>4. /\ hist' = [hist EXCEPT !.chosen = c, !.events = @ + 1]
        /\ hist \in Histories
    BY <1>1 DEF Steady, Typed
  <1>5. c \in StoredPrefs
    <2>1. p.prefs \in StoredPrefs  BY <1>3 DEF Services
    <2> QED  BY <1>4, <2>1 DEF Choice, StoredPrefs, Keys, Histories
  <1>6. ~hist.unplugged =>
          /\ \A k \in Keys : c[k] # Unset => k \in p.userSet /\ p.prefs[k] = c[k]
          /\ c.preferredMode # Unset => p.mode = c.preferredMode
          /\ c.preferredStyles # Unset => p.styles = c.preferredStyles
    BY <1>1, <1>3 DEF ChosenInForce, Choice, Keys, Carried
  <1> HIDE DEF c
  <1>7. /\ hist' \in Histories
        /\ hist'.chosen = c /\ hist'.unplugged = hist.unplugged /\ hist'.relisted = hist.relisted
    <2>1. hist.events + 1 \in Nat  BY <1>4 DEF Histories
    <2>2. hist' = [hist EXCEPT !.chosen = c, !.events = hist.events + 1]  BY <1>4 DEF Histories
    <2> QED  BY <1>4, <1>5, <2>1, <2>2 DEF Histories
  <1>8. Steady'  BY <1>2, <1>7 DEF Steady, Typed, ListsKept, Plugged
  <1>9. p \in Healthy'
    BY <1>2, <1>3, <1>7 DEF Healthy, Services, StoredPrefs, RatingFits, StylesFit
  <1>10. ~hist'.unplugged => ChosenInForce(p)'
    BY <1>1, <1>6, <1>7 DEF ChosenInForce
  <1> QED  BY <1>1, <1>8, <1>9, <1>10 DEF Fit

\* Services stay fit as long as neither the user nor what the history says of plugins and
\* choices changes.
LEMMA SameFit ==
  ASSUME UNCHANGED user, hist' \in Histories, hist'.chosen = hist.chosen,
         hist'.unplugged = hist.unplugged, hist'.relisted = hist.relisted, NEW p \in Fit
  PROVE  p \in Fit'
  BY
  DEF Fit, Healthy, Services, StoredPrefs, Ratings, RatingFits, StylesFit, Compatible, ChosenInForce

\* The connection's steps keep the invariant.
LEMMA SteadyConnection ==
  ASSUME Steady, pl \in Fit,
         (\E p \in Players : Connect(p) \/ PlayerJoinAck(p)) \/ OnAuthorized \/ OnPlayerActive
         \/ ClientDisconnect \/ TimerStart \/ ActiveCheck
  PROVE  Steady' /\ pl' \in Fit'
  <1>0. /\ pl \in Services /\ pl \in Healthy /\ RatingFits(pl) /\ StylesFit(pl) /\ hist \in Histories
        /\ ~hist.unplugged => ChosenInForce(pl)
    BY DEF Fit, Healthy, Steady, Typed
  <1>1. ASSUME NEW p \in Players, Connect(p) PROVE Steady' /\ pl' \in Fit'
    <2>1. /\ user = NoUser /\ pl.currentRating = Unset  BY <1>0, <1>1 DEF Connect, RatingFits
    <2>2. hist' \in Histories /\ hist'.chosen = hist.chosen /\ hist'.unplugged = hist.unplugged
          /\ hist'.relisted = hist.relisted
      BY <1>0, <1>1 DEF Connect, Histories
    <2>3. user' \in Users
      BY <1>0, <1>1 DEF Connect, Users, Histories
    <2>4. Steady'
      BY <1>1, <2>2, <2>3 DEF Connect, Steady, Typed, ListsKept, Plugged, dbVars, apiVars
    <2>5. pl' = pl  BY <1>1 DEF Connect
    <2>6. RatingFits(pl)'  BY <1>0, <2>1, <2>5 DEF RatingFits
    <2>7. StylesFit(pl)' /\ (~hist'.unplugged => ChosenInForce(pl)')
      BY <1>0, <2>2, <2>5 DEF StylesFit, ChosenInForce
    <2> QED  BY <1>0, <2>4, <2>5, <2>6, <2>7 DEF Fit, Healthy, Services
  <1>2. ASSUME NEW p \in Players, PlayerJoinAck(p) PROVE Steady' /\ pl' \in Fit'
    <2>1. Steady'  BY <1>2 DEF PlayerJoinAck, connVars, dbVars, Steady, Typed, ListsKept, Plugged
    <2>2. api[p] \in StoredPrefs  BY DEF Steady, Typed
    <2>3. pl' \in Fit  BY <1>2, <2>2, AnsweredPreferences DEF PlayerJoinAck
    <2>4. user' = user /\ hist' = hist  BY <1>2 DEF PlayerJoinAck, connVars
    <2> QED  BY <1>0, <2>1, <2>3, <2>4, SameFit
  <1>3. CASE OnAuthorized
    <2>1. user \in Users  BY <1>3 DEF OnAuthorized, Steady, Typed
    <2>2. NoPrefs \in StoredPrefs  BY NothingStored
    <2>3. jobs' \in Seq(Jobs)
      <3>1. [kind |-> "setup", user |-> user, prefs |-> NoPrefs] \in Jobs  BY <2>1, <2>2 DEF Jobs
      <3> QED  BY <1>3, <3>1 DEF OnAuthorized, SetupClient, Steady, Typed
    <2>4. acks' \subseteq Players  BY <1>3, <2>1 DEF OnAuthorized, Users, Steady, Typed
    <2>5. Steady'  BY <1>3, <2>3, <2>4 DEF OnAuthorized, Steady, Typed, ListsKept, Plugged
    <2> QED  BY <1>0, <1>3, <2>5, SameFit DEF OnAuthorized
  <1>4. CASE OnPlayerActive
    <2>1. Steady'  BY <1>4 DEF OnPlayerActive, dbVars, apiVars, Steady, Typed, ListsKept, Plugged
    <2>2. pl' \in Fit  BY <1>4, ActivePlayer DEF OnPlayerActive
    <2> QED  BY <1>0, <1>4, <2>1, <2>2, SameFit DEF OnPlayerActive
  <1>5. CASE ClientDisconnect
    <2>1. user \in Users  BY <1>5 DEF ClientDisconnect, Steady, Typed
    <2>2. pl.prefs \in StoredPrefs  BY <1>0 DEF Services
    <2>3. jobs' \in Seq(Jobs)
      <3>1. [kind |-> "save", user |-> user, prefs |-> pl.prefs] \in Jobs  BY <2>1, <2>2 DEF Jobs
      <3> QED  BY <1>5, <3>1 DEF ClientDisconnect, SavePrefs, Steady, Typed
    <2>4. api' \in [Players -> StoredPrefs]
      BY <1>5, <2>1, <2>2 DEF ClientDisconnect, Steady, Typed, Users
    <2>5. hist' \in Histories /\ hist'.chosen = NoPrefs /\ hist'.unplugged = hist.unplugged
          /\ hist'.relisted = hist.relisted
      BY <1>0, <1>5, NothingStored DEF ClientDisconnect, NothingChosen, Histories
    <2>6. Steady'
      BY <1>5, <2>3, <2>4, <2>5 DEF ClientDisconnect, Steady, Typed, ListsKept, Plugged
    <2>7. pl' \in Healthy /\ pl'.currentRating = Unset
      BY <1>0, <1>5, Forgotten DEF ClientDisconnect
    <2>8. pl' \in Services /\ RatingFits(pl') /\ StylesFit(pl')  BY <2>7 DEF Healthy
    <2>9. RatingFits(pl)' /\ StylesFit(pl)'  BY <2>5, <2>7, <2>8 DEF RatingFits, StylesFit
    <2>10. ChosenInForce(pl)'  BY <2>5 DEF ChosenInForce, NoPrefs, Keys
    <2> QED  BY <2>6, <2>8, <2>9, <2>10 DEF Fit, Healthy, Services
  <1>6. CASE TimerStart \/ ActiveCheck
    <2>1. Steady'
      BY <1>6
      DEF TimerStart, ActiveCheck, connVars, dbVars, apiVars, Steady, Typed, ListsKept, Plugged
    <2>2. pl' \in Services /\ \A f \in DOMAIN pl \ {"timerRunning", "early"} : pl'[f] = pl[f]
      BY <1>0, <1>6 DEF TimerStart, ActiveCheck, Services
    <2>3. pl' \in Fit
      BY <1>0, <2>2 DEF Fit, Healthy, Services, RatingFits, StylesFit, ChosenInForce
    <2> QED  BY <1>0, <1>6, <2>1, <2>3, SameFit DEF TimerStart, ActiveCheck, connVars
  <1> QED  BY <1>1, <1>2, <1>3, <1>4, <1>5, <1>6

\* The answers' steps keep the invariant.
LEMMA SteadyAnswers ==
  ASSUME Steady, pl \in Fit,
         RefreshRating \/ ClientSetup \/ PrefsSaved \/ OnGenericTxnFailure \/ DatabaseReady \/ Connection
         \/ \E r \in pl.asked : RatingAnswered(r)
  PROVE  Steady' /\ pl' \in Fit'
  <1>0. /\ pl \in Services /\ pl \in Healthy /\ RatingFits(pl) /\ StylesFit(pl) /\ hist \in Histories
        /\ ~hist.unplugged => ChosenInForce(pl)
    BY DEF Fit, Healthy, Steady, Typed
  <1>1. CASE RefreshRating
    <2>1. Steady'
      BY <1>1 DEF RefreshRating, connVars, dbVars, apiVars, Steady, Typed, ListsKept, Plugged
    <2> DEFINE q == RequestRating(pl)
    <2>2. q \in Healthy /\ q = [pl EXCEPT !.desiredMode = q.desiredMode, !.asked = q.asked]
      BY <1>0, RequestedRating DEF Steady
    <2> HIDE DEF q
    <2>3. q.styles = pl.styles /\ q.mode = pl.mode /\ q.prefs = pl.prefs /\ q.userSet = pl.userSet
      BY <1>0, <2>2 DEF Services
    <2>4. q \in Fit  BY <1>0, <2>2, <2>3 DEF Fit, ChosenInForce
    <2>5. pl' \in Fit  BY <1>1, <2>4 DEF RefreshRating, q
    <2> QED  BY <1>0, <1>1, <2>1, <2>5, SameFit DEF RefreshRating, connVars
  <1>2. CASE ClientSetup
    <2>1. Tail(jobs) \in Seq(Jobs) /\ Head(jobs) \in Jobs  BY <1>2 DEF ClientSetup, Steady, Typed
    <2>2. rows[Head(jobs).user.player] \in StoredPrefs  BY <2>1 DEF Steady, Typed, Jobs, Users
    <2>3. pl' \in Fit  BY <1>2, <2>2, AnsweredPreferences DEF ClientSetup
    <2>4. Steady'
      BY <1>2, <2>1 DEF ClientSetup, connVars, apiVars, Steady, Typed, ListsKept, Plugged
    <2> QED  BY <1>0, <1>2, <2>3, <2>4, SameFit DEF ClientSetup, connVars
  <1>3. CASE PrefsSaved
    <2>1. Tail(jobs) \in Seq(Jobs) /\ Head(jobs) \in Jobs  BY <1>3 DEF PrefsSaved, Steady, Typed
    <2>2. rows' \in [Players -> StoredPrefs]
      BY <1>3, <2>1 DEF PrefsSaved, Steady, Typed, Jobs, Users
    <2>3. Steady'
      BY <1>3, <2>1, <2>2 DEF PrefsSaved, connVars, apiVars, Steady, Typed, ListsKept, Plugged
    <2> QED  BY <1>0, <1>3, <2>3, SameFit DEF PrefsSaved, connVars
  <1>4. CASE OnGenericTxnFailure \/ Connection
    <2>0. jobs \in Seq(Jobs)  BY DEF Steady, Typed
    <2>1. jobs' \in Seq(Jobs)
      <3>1. CASE OnGenericTxnFailure  BY <2>0, <3>1 DEF OnGenericTxnFailure
      <3>2. CASE Connection  BY <2>0, <3>2 DEF Connection, dbVars
      <3> QED  BY <1>4, <3>1, <3>2
    <2>2. /\ hist' \in Histories /\ hist'.chosen = hist.chosen /\ hist'.unplugged = hist.unplugged
          /\ hist'.relisted = hist.relisted
      BY <1>0, <1>4 DEF OnGenericTxnFailure, Connection, Histories
    <2>3. UNCHANGED <<user, authed, ingame, pl, loaded, listed, rows, api, acks>>
      BY <1>4 DEF OnGenericTxnFailure, Connection, connVars, dbVars, apiVars
    <2>4. Steady'  BY <2>1, <2>2, <2>3 DEF Steady, Typed, ListsKept, Plugged
    <2> QED  BY <2>2, <2>3, <2>4, SameFit
  <1>5. CASE DatabaseReady
    <2>1. Steady'  BY <1>5 DEF DatabaseReady, connVars, apiVars, Steady, Typed, ListsKept, Plugged
    <2> QED  BY <1>0, <1>5, <2>1, SameFit DEF DatabaseReady, connVars
  <1>6. ASSUME NEW r \in pl.asked, RatingAnswered(r) PROVE Steady' /\ pl' \in Fit'
    <2>1. Steady'
      BY <1>6 DEF RatingAnswered, connVars, dbVars, apiVars, Steady, Typed, ListsKept, Plugged
    <2>2. r \in Ratings /\ r.mode \in Modes /\ r.mode # Unset
      BY <1>0, SessionAssumption DEF Services, Ratings
    <2>3. RatingOf(r) => user # NoUser /\ r.player = user.player /\ pl.desiredMode = r.mode
      BY DEF RatingOf, Steady, Typed
    <2> DEFINE c == IF RatingOf(r) THEN r ELSE pl.currentRating
    <2>4. pl' = [pl EXCEPT !.asked = pl.asked \ {r}, !.currentRating = c]
      BY <1>0, <1>6 DEF RatingAnswered, Services
    <2>5. c \in Ratings \cup {Unset}  BY <1>0, <2>2 DEF Services
    <2>6. RatingFits([pl EXCEPT !.currentRating = c])
      BY <1>0, <2>2, <2>3 DEF RatingFits, Services
    <2> HIDE DEF c
    <2>7. /\ pl' \in Services /\ pl'.currentRating = c
          /\ \A f \in DOMAIN pl \ {"asked", "currentRating"} : pl'[f] = pl[f]
      BY <1>0, <2>4, <2>5 DEF Services
    <2>8. RatingFits(pl')
      BY <1>0, <2>6, <2>7 DEF RatingFits, Services
    <2>9. pl' \in Fit  BY <1>0, <2>7, <2>8 DEF Fit, Healthy, Services, StylesFit, ChosenInForce
    <2> QED  BY <1>0, <1>6, <2>1, <2>9, SameFit DEF RatingAnswered, connVars
  <1> QED  BY <1>1, <1>2, <1>3, <1>4, <1>5, <1>6

\* The plugins' steps keep the invariant.
LEMMA SteadyPlugins ==
  ASSUME Steady, pl \in Fit,
         (\E s \in Styles : UnregisterStyle(s) \/ RegisterStyle(s))
         \/ \E m \in Modes : UnregisterMode(m) \/ RegisterMode(m)
  PROVE  Steady' /\ pl' \in Fit'
  <1>0. /\ pl \in Services /\ pl \in Healthy /\ RatingFits(pl) /\ StylesFit(pl) /\ hist \in Histories
        /\ ~hist.unplugged => ChosenInForce(pl)
    BY DEF Fit, Healthy, Steady, Typed
  <1>1. ASSUME NEW s \in Styles, UnregisterStyle(s) PROVE Steady' /\ pl' \in Fit'
    <2>1. /\ hist' \in Histories /\ hist'.unplugged /\ hist'.relisted = hist.relisted
      <3>1. hist' = [hist EXCEPT !.events = hist.events + 1, !.unplugged = TRUE]
        BY <1>0, <1>1 DEF UnregisterStyle, Histories
      <3>2. hist.events + 1 \in Nat  BY <1>0 DEF Histories
      <3> QED  BY <1>0, <3>1, <3>2 DEF Histories
    <2>2. listed' \in [Styles -> SUBSET Styles] /\ \A t \in Styles \ {s} : listed'[t] = listed[t]
      BY <1>1 DEF UnregisterStyle, Steady, Typed
    <2>3. DefaultMode \in loaded'  BY <1>1, SessionAssumption DEF UnregisterStyle, Steady, Typed
    <2>4. Steady'
      BY <1>1, <2>1, <2>2, <2>3
      DEF UnregisterStyle, connVars, dbVars, apiVars, Steady, Typed, ListsKept, Plugged
    <2>5. pl' \in Healthy  BY <1>0, <1>1, RemovedStyle DEF UnregisterStyle
    <2>6. user' = user  BY <1>1 DEF UnregisterStyle, connVars
    <2> QED
      BY <2>1, <2>4, <2>5, <2>6
      DEF Fit, Healthy, Services, StoredPrefs, Ratings, RatingFits, StylesFit, Compatible
  <1>2. ASSUME NEW s \in Styles, RegisterStyle(s) PROVE Steady' /\ pl' \in Fit'
    <2>1. /\ hist' \in Histories /\ hist'.chosen = hist.chosen /\ hist'.unplugged = hist.unplugged
          /\ hist'.relisted = (hist.relisted \/ listed'[s] # Conflicts[s])
      BY <1>0, <1>2 DEF RegisterStyle, Histories
    <2>2. /\ listed' \in [Styles -> SUBSET Styles] /\ \A t \in Styles \ {s} : listed'[t] = listed[t]
      BY <1>2, SessionAssumption DEF RegisterStyle, Steady, Typed
    <2>3. hist.unplugged  BY <1>2 DEF RegisterStyle, Steady, Plugged
    <2>4. Steady'
      BY <1>2, <2>1, <2>2, <2>3
      DEF RegisterStyle, connVars, dbVars, apiVars, Steady, Typed, ListsKept, Plugged
    <2>5. user' = user /\ pl' = pl  BY <1>2 DEF RegisterStyle, connVars
    <2> QED
      BY <1>0, <2>1, <2>3, <2>4, <2>5
      DEF Fit, Healthy, Services, StoredPrefs, Ratings, RatingFits, StylesFit, Compatible
  <1>3. ASSUME NEW m \in Modes, UnregisterMode(m) PROVE Steady' /\ pl' \in Fit'
    <2>1. /\ hist' \in Histories /\ hist'.unplugged /\ hist'.relisted = hist.relisted
      <3>1. hist' = [hist EXCEPT !.events = hist.events + 1, !.unplugged = TRUE]
        BY <1>0, <1>3 DEF UnregisterMode, Histories
      <3>2. hist.events + 1 \in Nat  BY <1>0 DEF Histories
      <3> QED  BY <1>0, <3>1, <3>2 DEF Histories
    <2>2. Steady'
      BY <1>3, <2>1
      DEF UnregisterMode, connVars, dbVars, apiVars, Steady, Typed, ListsKept, Plugged
    <2>3. SwitchToMode(pl, DefaultMode, FALSE, TRUE) \in Healthy
      BY <1>0, SwitchedMode, SessionAssumption DEF Steady
    <2>4. pl' \in Healthy /\ user' = user  BY <1>0, <1>3, <2>3 DEF UnregisterMode, connVars
    <2> QED
      BY <2>1, <2>2, <2>4
      DEF Fit, Healthy, Services, StoredPrefs, Ratings, RatingFits, StylesFit, Compatible
  <1>4. ASSUME NEW m \in Modes, RegisterMode(m) PROVE Steady' /\ pl' \in Fit'
    <2>1. hist.unplugged  BY <1>4 DEF RegisterMode, Steady, Plugged
    <2>2. m \notin Styles  BY SessionAssumption
    <2>3. Steady'
      BY <1>4, <2>1, <2>2
      DEF RegisterMode, connVars, dbVars, apiVars, Steady, Typed, ListsKept, Plugged
    <2> QED  BY <1>0, <1>4, <2>3, SameFit DEF RegisterMode, connVars
  <1> QED  BY <1>1, <1>2, <1>3, <1>4

SessionInv == Steady /\ pl \in Fit

\* The invariant holds at first.
LEMMA InitSteady == Init => SessionInv
  <1> SUFFICES ASSUME Init PROVE Steady /\ pl \in Fit  BY DEF SessionInv
  <1>1. Rows \in [Players -> StoredPrefs] /\ ApiPrefs \in [Players -> StoredPrefs]
    <2>1. BoundedSeq(Styles, Len(StyleOrder)) \subseteq Seq(Styles)
      BY SeqDef DEF BoundedSeq, SeqOf
    <2>2. Prefs \subseteq StoredPrefs  BY <2>1 DEF Prefs, StoredPrefs
    <2> QED  BY <2>2, SessionAssumption
  <1>2. hist \in Histories /\ hist.chosen = NoPrefs /\ ~hist.relisted
    BY NothingStored DEF Init, NewHistory, NothingChosen, Histories
  <1>3. Steady
    <2>1. jobs \in Seq(Jobs)  BY DEF Init
    <2>2. DefaultMode \in loaded /\ listed \in [Styles -> SUBSET Styles]
      BY SessionAssumption DEF Init
    <2> QED  BY <1>1, <1>2, <2>1, <2>2 DEF Init, Steady, Typed, ListsKept, Plugged
  <1>4. <<>> \in Seq(Styles) /\ IsInjective(<<>>) /\ Compatible(<<>>)
    BY DEF IsInjective, Compatible, ToSet
  <1>5. pl \in Services /\ RatingFits(pl) /\ StylesFit(pl)
    BY <1>4, NothingStored, SessionAssumption
    DEF Init, NewServices, Services, NoData, RatingFits, StylesFit
  <1>6. ChosenInForce(pl)  BY <1>2 DEF ChosenInForce, NoPrefs, Keys
  <1> QED  BY <1>3, <1>5, <1>6 DEF Fit, Healthy

\* Every step keeps the invariant.
LEMMA NextSteady == SessionInv /\ [Next]_vars => SessionInv'
  <1> SUFFICES ASSUME Steady, pl \in Fit, [Next]_vars PROVE Steady' /\ pl' \in Fit'
    BY DEF SessionInv
  <1>1. CASE UNCHANGED vars
    <2>1. Steady'  BY <1>1 DEF vars, Steady, Typed, ListsKept, Plugged
    <2>2. hist \in Histories  BY DEF Steady, Typed
    <2> QED  BY <1>1, <2>1, <2>2, SameFit DEF vars
  <1>2. CASE Next
    BY <1>2, SteadyConnection, SteadyAnswers, SteadyPlugins, Commanded DEF Next
  <1> QED  BY <1>1, <1>2

\* The invariant of the session: the services of the slot are well formed, their styles are
\* injective and free of conflicts, the rating is that of the player and of his mode, and what
\* the player chose is in force and protected by userSet.
THEOREM SessionIsSteady == Spec => []SessionInv
  BY InitSteady, NextSteady, PTL DEF Spec

\* NoConflicts: no sequence of commands, preferences, refreshes, disconnections and plugins that
\* come and go makes two incompatible styles active, unless a plugin registered again without its
\* list (BhopStyleManager::AddStyle and RegisterStyle).
THEOREM StylesNeverConflict == Spec => []NoConflicts
  <1>1. SessionInv => NoConflicts
    BY DEF SessionInv, Fit, Healthy, StylesFit, Compatible, NoConflicts
  <1> QED  BY <1>1, SessionIsSteady, PTL

\* RatingOfMode: the rating shown is that of the player in the slot, whoever had the slot when the
\* answer was asked for, and of the mode played (BhopProfileService).
THEOREM RatingShownFits == Spec => []RatingOfMode
  <1>1. SessionInv => RatingOfMode
    BY DEF SessionInv, Fit, Healthy, RatingFits, RatingOfMode
  <1> QED  BY <1>1, SessionIsSteady, PTL

\* ChoiceKept: no late answer of the database or the API overrides what the player chose by a
\* command (BhopOptionService::MergePreferences and the two listeners).
THEOREM ChoiceIsKept == Spec => []ChoiceKept
  <1>1. SessionInv => ChoiceKept
    BY DEF SessionInv, Fit, ChosenInForce, ChoiceKept
  <1> QED  BY <1>1, SessionIsSteady, PTL
==============================================================================
