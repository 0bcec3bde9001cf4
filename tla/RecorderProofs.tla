--------------------------- MODULE RecorderProofs ---------------------------
(***************************************************************************)
(* The recorder, for any recorders, weapons, capacities and intervals, and  *)
(* the ring its circular recorder is made of, for every capacity and every  *)
(* kind of element.                                                         *)
(*                                                                          *)
(* The invariant: all that was pushed to a recorder can be cut into as many *)
(* pieces as it flushed chunks, and the rest.  A chunk, queued or on the    *)
(* disk, holds the piece of its number, and the memory holds the rest       *)
(* (Divided, for the ticks and for the commands).  Nothing is said of the   *)
(* chunks that are missing, so it survives every write the disk refuses;    *)
(* what the thread joins is then all of it with some pieces left out, and   *)
(* all of it when none is.                                                  *)
(***************************************************************************)
EXTENDS Recorder, FiniteSetTheorems, SequenceTheorems, WellFoundedInduction, TLAPS

------------------------------------------------------------------------------
(* The ring.  The positions go round the array: Forward's arithmetic is in  *)
(* the first three lemmas, and the theorems use nothing else of it.         *)

LEMMA ForwardWraps ==
  ASSUME NEW c \in Nat \ {0}, NEW r \in 0..c - 1, NEW k \in 0..c
  PROVE  /\ Forward(r, k, c) = IF r + k < c THEN r + k ELSE r + k - c
         /\ Forward(r, k, c) \in 0..c - 1
<1>1. CASE r + k < c
  BY <1>1, SMT DEF Forward
<1>2. CASE r + k >= c
  BY <1>2, SMT DEF Forward
<1> QED BY <1>1, <1>2

\* Two offsets of a ring never share a slot.
LEMMA SlotsDiffer ==
  ASSUME NEW c \in Nat \ {0}, NEW r \in 0..c - 1, NEW i \in 0..c - 1, NEW j \in 0..c - 1, i # j
  PROVE  Forward(r, i, c) # Forward(r, j, c)
<1>1. i \in 0..c /\ j \in 0..c
  OBVIOUS
<1>2. Forward(r, i, c) = IF r + i < c THEN r + i ELSE r + i - c
  BY <1>1, ForwardWraps
<1>3. Forward(r, j, c) = IF r + j < c THEN r + j ELSE r + j - c
  BY <1>1, ForwardWraps
<1> QED BY <1>2, <1>3

\* Going on twice is going on by the sum, where that is once round at most.
LEMMA Shifted ==
  ASSUME NEW c \in Nat \ {0}, NEW r \in 0..c - 1, NEW n \in 0..c, NEW i \in 0..c, n + i <= c
  PROVE  Forward(Forward(r, n, c), i, c) = Forward(r, n + i, c)
<1>1. n + i \in 0..c
  OBVIOUS
<1>2. /\ Forward(r, n, c) \in 0..c - 1
      /\ Forward(r, n, c) = IF r + n < c THEN r + n ELSE r + n - c
  BY ForwardWraps
<1>3. Forward(r, n + i, c) = IF r + (n + i) < c THEN r + (n + i) ELSE r + (n + i) - c
  BY <1>1, ForwardWraps
<1>4. Forward(Forward(r, n, c), i, c) =
        IF Forward(r, n, c) + i < c THEN Forward(r, n, c) + i ELSE Forward(r, n, c) + i - c
  BY <1>2, ForwardWraps
<1> QED BY <1>2, <1>3, <1>4

LEMMA RingType ==
  ASSUME NEW S, NEW b, IsRing(b, S)
  PROVE  /\ b.capacity \in Nat \ {0}
         /\ b.readPos \in 0..b.capacity - 1 /\ b.writePos \in 0..b.capacity - 1
         /\ b.count \in 0..b.capacity /\ b.slots \in [0..b.capacity - 1 -> S]
         /\ b.writePos = Forward(b.readPos, b.count, b.capacity)
BY DEF IsRing, Rings

LEMMA ContentsType ==
  ASSUME NEW S, NEW b, IsRing(b, S)
  PROVE  /\ Contents(b) \in Seq(S)
         /\ Len(Contents(b)) = b.count
         /\ \A i \in 1..b.count : Contents(b)[i] = Slot(b, i - 1)
<1>1. ASSUME NEW i \in 1..b.count PROVE Slot(b, i - 1) \in S
  <2>1. i - 1 \in 0..b.capacity
    BY RingType
  <2>2. Forward(b.readPos, i - 1, b.capacity) \in 0..b.capacity - 1
    BY <2>1, RingType, ForwardWraps
  <2> QED BY <2>2, RingType DEF Slot
<1>2. b.count \in Nat
  BY RingType
<1> QED BY <1>1, <1>2 DEF Contents

\* Write: the ring stays a ring, and holds the last `capacity' elements of what
\* it held and the new one (what the recorder's ticks and commands rely on).
THEOREM WriteKeepsLatest ==
  ASSUME NEW S, NEW b, IsRing(b, S), NEW x \in S
  PROVE  /\ IsRing(Write(b, x), S)
         /\ Contents(Write(b, x)) = Suffix(Append(Contents(b), x), b.capacity)
<1> DEFINE c == b.capacity
           w == Write(b, x)
           app == Append(Contents(b), x)
<1>1. /\ c \in Nat \ {0} /\ b.readPos \in 0..c - 1 /\ b.writePos \in 0..c - 1
      /\ b.count \in 0..c /\ b.slots \in [0..c - 1 -> S]
      /\ b.writePos = Forward(b.readPos, b.count, c)
  BY RingType
<1>2. w = [slots    |-> [b.slots EXCEPT ![b.writePos] = x],
           capacity |-> c,
           readPos  |-> IF b.count < c THEN b.readPos ELSE Forward(b.readPos, 1, c),
           writePos |-> Forward(b.writePos, 1, c),
           count    |-> IF b.count < c THEN b.count + 1 ELSE b.count]
  BY DEF Write
<1> HIDE DEF w
<1>3. Forward(b.writePos, 1, c) \in 0..c - 1 /\ Forward(b.readPos, 1, c) \in 0..c - 1 /\ 1 \in 0..c
  <2>1. 1 \in 0..c
    BY <1>1
  <2> QED BY <2>1, <1>1, ForwardWraps
<1>4. w \in Rings(S, c) /\ w.capacity = c
  BY <1>1, <1>2, <1>3 DEF Rings
<1>5. Contents(b) \in Seq(S) /\ Len(Contents(b)) = b.count
      /\ \A i \in 1..b.count : Contents(b)[i] = Slot(b, i - 1)
  BY ContentsType
<1>6. app \in Seq(S) /\ Len(app) = b.count + 1 /\ app[b.count + 1] = x
      /\ \A i \in 1..b.count : app[i] = Slot(b, i - 1)
  BY <1>1, <1>5
<1> HIDE DEF app
<1>7. \A j \in 0..c - 1 : w.slots[j] = IF j = b.writePos THEN x ELSE b.slots[j]
  BY <1>1, <1>2
<1>8. CASE b.count < c
  <2>1. w.writePos = Forward(w.readPos, w.count, c)
    <3>1. b.count \in 0..c /\ b.count + 1 <= c
      BY <1>1, <1>8
    <3>2. Forward(Forward(b.readPos, b.count, c), 1, c) = Forward(b.readPos, b.count + 1, c)
      BY <1>1, <1>3, <3>1, Shifted
    <3> QED BY <3>2, <1>1, <1>2, <1>8
  <2>2. ASSUME NEW i \in 1..b.count + 1 PROVE Slot(w, i - 1) = app[i]
    <3>1. Slot(w, i - 1) = w.slots[Forward(b.readPos, i - 1, c)]
      BY <1>2, <1>8 DEF Slot
    <3>2. CASE i = b.count + 1
      <4>1. i - 1 = b.count
        BY <1>1, <3>2
      <4> QED BY <4>1, <1>1, <1>6, <1>7, <3>1, <3>2
    <3>3. CASE i # b.count + 1
      <4>1. i - 1 \in 0..c - 1 /\ b.count \in 0..c - 1 /\ i - 1 # b.count /\ i \in 1..b.count
        BY <3>3, <1>1, <1>8
      <4>2. Forward(b.readPos, i - 1, c) # b.writePos
        BY <4>1, <1>1, SlotsDiffer
      <4>3. Forward(b.readPos, i - 1, c) \in 0..c - 1
        <5>1. i - 1 \in 0..c
          BY <4>1, <1>1
        <5> QED BY <5>1, <1>1, ForwardWraps
      <4> QED BY <4>1, <4>2, <4>3, <3>1, <1>6, <1>7 DEF Slot
    <3> QED BY <3>2, <3>3
  <2>3. Contents(w) = [i \in 1..b.count + 1 |-> app[i]]
    <3>1. w.count = b.count + 1
      BY <1>2, <1>8
    <3> QED BY <3>1, <2>2 DEF Contents
  <2>4. app = [i \in 1..b.count + 1 |-> app[i]]
    BY <1>1, <1>6
  <2>5. Suffix(app, c) = app
    <3>1. ~(Len(app) > c)
      BY <1>1, <1>6, <1>8
    <3>2. SubSeq(app, 1, Len(app)) = app
      BY <1>6
    <3> QED BY <3>1, <3>2 DEF Suffix
  <2> QED BY <1>1, <1>4, <2>1, <2>3, <2>4, <2>5 DEF IsRing, w, app
<1>9. CASE b.count = c
  <2>1. b.writePos = b.readPos
    BY <1>1, <1>9, ForwardWraps
  <2>2. w.writePos = Forward(w.readPos, w.count, c)
    <3>1. c \in 0..c
      BY <1>1
    <3>2. Forward(Forward(b.readPos, 1, c), c, c) = Forward(b.readPos, 1, c)
      <4> DEFINE r == Forward(b.readPos, 1, c)
      <4>1. r \in 0..c - 1
        BY <1>3
      <4> HIDE DEF r
      <4>2. Forward(r, c, c) = IF r + c < c THEN r + c ELSE r + c - c
        BY <1>1, <3>1, <4>1, ForwardWraps
      <4>3. Forward(r, c, c) = r
        BY <1>1, <4>1, <4>2
      <4> QED BY <4>3 DEF r
    <3>3. w.count = c /\ w.readPos = Forward(b.readPos, 1, c) /\ w.writePos = Forward(b.writePos, 1, c)
      BY <1>1, <1>2, <1>9
    <3> QED BY <2>1, <3>2, <3>3
  <2>3. ASSUME NEW i \in 1..c PROVE Slot(w, i - 1) = app[i + 1]
    <3>1. Slot(w, i - 1) = w.slots[Forward(b.readPos, i, c)]
      <4>1. i - 1 \in 0..c /\ 1 + (i - 1) <= c /\ 1 + (i - 1) = i
        BY <1>1
      <4>2. Forward(Forward(b.readPos, 1, c), i - 1, c) = Forward(b.readPos, 1 + (i - 1), c)
        BY <4>1, <1>1, <1>3, Shifted
      <4>3. w.readPos = Forward(b.readPos, 1, c) /\ w.capacity = c
        BY <1>1, <1>2, <1>9
      <4> QED BY <4>1, <4>2, <4>3 DEF Slot
    <3>2. CASE i = c
      <4>1. Forward(b.readPos, i, c) = b.writePos
        BY <3>2, <1>1, <1>9
      <4> QED BY <4>1, <3>1, <3>2, <1>1, <1>6, <1>7, <1>9
    <3>3. CASE i # c
      <4>1. i \in 0..c - 1 /\ 0 \in 0..c - 1 /\ 0 \in 0..c /\ i # 0 /\ i + 1 \in 1..b.count
        BY <3>3, <1>1, <1>9
      <4>2. Forward(b.readPos, 0, c) = b.writePos
        <5>1. b.readPos + 0 < c /\ b.readPos + 0 = b.readPos
          BY <1>1
        <5> QED BY <2>1, <4>1, <5>1, <1>1, ForwardWraps
      <4>3. Forward(b.readPos, i, c) # b.writePos
        BY <4>1, <4>2, <1>1, SlotsDiffer
      <4>4. Forward(b.readPos, i, c) \in 0..c - 1
        <5>1. i \in 0..c
          BY <4>1, <1>1
        <5> QED BY <5>1, <1>1, ForwardWraps
      <4>5. app[i + 1] = Slot(b, (i + 1) - 1)
        BY <4>1, <1>6
      <4>6. (i + 1) - 1 = i
        OBVIOUS
      <4> QED BY <4>3, <4>4, <4>5, <4>6, <3>1, <1>7 DEF Slot
    <3> QED BY <3>2, <3>3
  <2>4. Contents(w) = [i \in 1..c |-> app[i + 1]]
    <3>1. w.count = c
      BY <1>1, <1>2, <1>9
    <3> QED BY <3>1, <2>3 DEF Contents
  <2>5. Suffix(app, c) = [i \in 1..c |-> app[i + 1]]
    <3>1. Len(app) = c + 1 /\ c \in Nat
      BY <1>1, <1>6, <1>9
    <3>2. Len(app) > c /\ Len(app) - c + 1 = 2
      BY <3>1
    <3>3. Suffix(app, c) = SubSeq(app, 2, c + 1)
      BY <3>1, <3>2 DEF Suffix
    <3>4. SubSeq(app, 2, c + 1) = [i \in 1..c |-> app[i + 1]]
      BY <1>6, <3>1
    <3> QED BY <3>3, <3>4
  <2> QED BY <1>1, <1>4, <2>2, <2>4, <2>5 DEF IsRing, w, app
<1> QED BY <1>1, <1>8, <1>9

\* Advance: the oldest elements go, the others stay in order (what the trimming
\* of old commands and events, and Reset, rely on).
THEOREM AdvanceDropsOldest ==
  ASSUME NEW S, NEW b, IsRing(b, S), NEW n \in Nat
  PROVE  /\ IsRing(Advance(b, n), S)
         /\ Contents(Advance(b, n)) = SubSeq(Contents(b), Least(n, b.count) + 1, b.count)
<1> DEFINE c == b.capacity
           m == Least(n, b.count)
           w == Advance(b, n)
<1>1. /\ c \in Nat \ {0} /\ b.readPos \in 0..c - 1 /\ b.writePos \in 0..c - 1
      /\ b.count \in 0..c /\ b.slots \in [0..c - 1 -> S]
      /\ b.writePos = Forward(b.readPos, b.count, c)
  BY RingType
<1>2. m \in 0..b.count /\ m \in 0..c /\ b.count - m \in 0..c /\ m + (b.count - m) = b.count
  BY <1>1 DEF Least
<1>3. w = [slots |-> b.slots, capacity |-> c, readPos |-> Forward(b.readPos, m, c),
           writePos |-> b.writePos, count |-> b.count - m]
  BY DEF Advance
<1> HIDE DEF w, m
<1>4. Forward(b.readPos, m, c) \in 0..c - 1
  BY <1>1, <1>2, ForwardWraps
<1>5. w \in Rings(S, c) /\ w.capacity = c
  BY <1>1, <1>2, <1>3, <1>4 DEF Rings
<1>6. w.writePos = Forward(w.readPos, w.count, c)
  <2>1. m + (b.count - m) <= c
    BY <1>1, <1>2
  <2>2. Forward(Forward(b.readPos, m, c), b.count - m, c) = Forward(b.readPos, m + (b.count - m), c)
    BY <2>1, <1>1, <1>2, Shifted
  <2> QED BY <2>2, <1>1, <1>2, <1>3
<1>7. Contents(b) \in Seq(S) /\ Len(Contents(b)) = b.count
      /\ \A i \in 1..b.count : Contents(b)[i] = Slot(b, i - 1)
  BY ContentsType
<1>8. SubSeq(Contents(b), m + 1, b.count) = [i \in 1..(b.count - m) |-> Contents(b)[i + m]]
  BY <1>1, <1>2, <1>7
<1>9. ASSUME NEW i \in 1..(b.count - m) PROVE Slot(w, i - 1) = Contents(b)[i + m]
  <2>1. i - 1 \in 0..c /\ m + (i - 1) <= c /\ i + m \in 1..b.count /\ m + (i - 1) = (i + m) - 1
    BY <1>1, <1>2
  <2>2. Forward(Forward(b.readPos, m, c), i - 1, c) = Forward(b.readPos, m + (i - 1), c)
    BY <2>1, <1>1, <1>2, Shifted
  <2>3. Slot(w, i - 1) = b.slots[Forward(b.readPos, m + (i - 1), c)]
    BY <2>2, <1>3 DEF Slot
  <2>4. Contents(b)[i + m] = b.slots[Forward(b.readPos, (i + m) - 1, c)]
    BY <2>1, <1>7 DEF Slot
  <2> QED BY <2>1, <2>3, <2>4
<1>10. Contents(w) = SubSeq(Contents(b), m + 1, b.count)
  <2>1. w.count = b.count - m
    BY <1>3
  <2> QED BY <2>1, <1>8, <1>9 DEF Contents
<1> QED BY <1>1, <1>5, <1>6, <1>10 DEF IsRing, w, m

------------------------------------------------------------------------------
(* FlattenSeq, by induction on the number of sequences. *)

\* A set of natural numbers has a least element.
LEMMA LeastNatural ==
  ASSUME NEW T, T \subseteq Nat, T # {} PROVE \E x \in T : \A y \in T : x <= y
  <1> DEFINE R == OpToRel(<, Nat)
  <1>1. IsWellFoundedOn(R, Nat)  BY NatLessThanWellFounded
  <1>2. \A x, y \in Nat : <<y, x>> \in R <=> y < x  BY DEF OpToRel
  <1> HIDE DEF R
  <1>3. PICK x \in T : \A y \in T : ~(<<y, x>> \in R)  BY <1>1, WFMin
  <1>4. \A y \in T : ~(y < x) /\ y \in Nat /\ x \in Nat  BY <1>2, <1>3
  <1> QED  BY <1>4

\* Induction up to n, over a set.
LEMMA UpTo ==
  ASSUME NEW n \in Nat, NEW S, 1 \in S, \A i \in S : i \in 1..(n - 1) => i + 1 \in S
  PROVE  \A i \in 1..n : i \in S
  <1> SUFFICES ASSUME (1..n) \ S # {} PROVE FALSE  OBVIOUS
  <1>0. (1..n) \ S \subseteq Nat  OBVIOUS
  <1>1. PICK x \in (1..n) \ S : \A y \in (1..n) \ S : x <= y  BY <1>0, LeastNatural
  <1>2. x # 1 /\ x - 1 \in 1..(n - 1) /\ x - 1 \in 1..n /\ ~(x <= x - 1)  BY <1>1
  <1>3. x - 1 \in S  BY <1>1, <1>2
  <1>4. (x - 1) + 1 = x  BY <1>1
  <1> QED  BY <1>1, <1>2, <1>3, <1>4

\* f[i] is the concatenation of the first i sequences.
Flat(f, seqs, n) == f = [i \in 1..n |-> IF i = 1 THEN seqs[i] ELSE f[i - 1] \o seqs[i]]

\* The function that FlattenSeq chooses exists.
LEMMA FlatExists == ASSUME NEW seqs, NEW len \in Nat \ {0} PROVE \E f : Flat(f, seqs, len)
  <1> DEFINE S == {n \in Nat : \E f : Flat(f, seqs, n)}
  <1>1. 1 \in S
    <2> DEFINE g == [i \in 1..1 |-> seqs[1]]
    <2>1. g = [i \in 1..1 |-> IF i = 1 THEN seqs[i] ELSE g[i - 1] \o seqs[i]]  OBVIOUS
    <2> HIDE DEF g
    <2> QED  BY <2>1 DEF Flat
  <1>2. ASSUME NEW n \in S, n \in 1..(len - 1) PROVE n + 1 \in S
    <2>1. n \in Nat /\ n + 1 \in Nat /\ n # 0  BY <1>2
    <2>2. PICK f : Flat(f, seqs, n)  OBVIOUS
    <2> DEFINE g == [i \in 1..(n + 1) |-> IF i = n + 1 THEN f[n] \o seqs[i] ELSE f[i]]
    <2>3. ASSUME NEW i \in 1..(n + 1) PROVE g[i] = IF i = 1 THEN seqs[i] ELSE g[i - 1] \o seqs[i]
      <3>1. CASE i = n + 1
        <4>1. i # 1 /\ g[i - 1] = f[n]  BY <2>1, <3>1
        <4> QED  BY <3>1, <4>1
      <3>2. CASE i # n + 1
        <4>1. i \in 1..n /\ (i # 1 => i - 1 \in 1..n)  BY <2>1, <3>2
        <4>2. g[i] = f[i] /\ (i # 1 => g[i - 1] = f[i - 1])  BY <2>1, <3>2, <4>1
        <4>3. f[i] = IF i = 1 THEN seqs[i] ELSE f[i - 1] \o seqs[i]  BY <2>2, <4>1 DEF Flat
        <4> QED  BY <4>1, <4>2, <4>3
      <3> QED  BY <3>1, <3>2
    <2>4. g = [i \in 1..(n + 1) |-> g[i]]  OBVIOUS
    <2> HIDE DEF g
    <2>5. Flat(g, seqs, n + 1)  BY <2>3, <2>4 DEF Flat
    <2> QED  BY <2>1, <2>5
  <1>3. \A i \in 1..len : i \in S
    <2> HIDE DEF S
    <2> QED  BY <1>1, <1>2, UpTo
  <1> QED  BY <1>3

\* f[i] joins the first i sequences, and q all of them.
Sums(f, q, seqs, n, T) ==
  /\ f[1] = seqs[1] /\ q = f[n]
  /\ \A i \in 2..n : f[i] = f[i - 1] \o seqs[i]
  /\ \A i \in 1..n : f[i] \in Seq(T)

\* What FlattenSeq returns, one sequence after the other.
LEMMA FlattenSteps ==
  ASSUME NEW n \in Nat \ {0}, NEW T, NEW seqs \in [1..n -> Seq(T)]
  PROVE  \E f : Sums(f, FlattenSeq(seqs), seqs, n, T)
  <1> DEFINE f == CHOOSE g : Flat(g, seqs, n)
             S == {i \in 1..n : f[i] \in Seq(T)}
  <1>1. Len(seqs) = n /\ n # 0  OBVIOUS
  <1>2. Flat(f, seqs, n)  BY <1>1, FlatExists
  <1>3. FlattenSeq(seqs) = f[n]  BY <1>1 DEF FlattenSeq, Flat
  <1> HIDE DEF f
  <1>4. f[1] = seqs[1] /\ \A i \in 2..n : f[i] = f[i - 1] \o seqs[i]
    <2>1. \A i \in 1..n : f[i] = IF i = 1 THEN seqs[i] ELSE f[i - 1] \o seqs[i]
      BY <1>2 DEF Flat
    <2>2. 1 \in 1..n /\ \A i \in 2..n : i \in 1..n /\ i # 1  BY <1>1
    <2> QED  BY <2>1, <2>2
  <1>5. 1 \in S  BY <1>4
  <1>6. ASSUME NEW i \in S, i \in 1..(n - 1) PROVE i + 1 \in S
    <2>1. i + 1 \in 2..n /\ (i + 1) - 1 = i /\ i + 1 \in 1..n  BY <1>6
    <2>2. f[i + 1] = f[i] \o seqs[i + 1]  BY <1>4, <2>1
    <2>3. f[i] \in Seq(T) /\ seqs[i + 1] \in Seq(T)  BY <2>1
    <2>4. f[i] \o seqs[i + 1] \in Seq(T)  BY <2>3, ConcatProperties
    <2> QED  BY <2>1, <2>2, <2>4
  <1>7. \A i \in 1..n : i \in S
    <2> HIDE DEF S
    <2> QED  BY <1>5, <1>6, UpTo
  <1> QED  BY <1>3, <1>4, <1>7 DEF Sums

------------------------------------------------------------------------------
(* Sequences that were cut into pieces. *)

\* s is whole's first n elements with some left out.
Thinned(s, whole, n) ==
  \E m \in [1..Len(s) -> 1..n] :
    /\ \A i, j \in 1..Len(s) : i < j => m[i] < m[j]
    /\ \A i \in 1..Len(s) : s[i] = whole[m[i]]

LEMMA NothingThinned == ASSUME NEW whole PROVE Thinned(<<>>, whole, 0)
  <1> DEFINE l == Len(<<>>)
  <1>1. l = 0  OBVIOUS
  <1> HIDE DEF l
  <1>2. [i \in 1..0 |-> 0] \in [1..l -> 1..0] /\ \A i \in 1..l : FALSE  BY <1>1
  <1> QED  BY <1>2 DEF Thinned, l

\* The next piece is left out.
LEMMA ThinnedLonger ==
  ASSUME NEW s, NEW whole, NEW a \in Nat, NEW b \in Nat, a <= b, Thinned(s, whole, a)
  PROVE  Thinned(s, whole, b)
  <1>1. PICK m \in [1..Len(s) -> 1..a] :
          /\ \A i, j \in 1..Len(s) : i < j => m[i] < m[j]
          /\ \A i \in 1..Len(s) : s[i] = whole[m[i]]
    BY DEF Thinned
  <1>2. m \in [1..Len(s) -> 1..b]
    <2>1. \A i \in 1..a : i \in 1..b  OBVIOUS
    <2> QED  BY <2>1
  <1> QED  BY <1>1, <1>2 DEF Thinned

\* The next piece is added.
LEMMA ThinnedPiece ==
  ASSUME NEW T, NEW s \in Seq(T), NEW whole \in Seq(T), NEW a \in Nat, NEW b \in Nat,
         a <= b, b <= Len(whole), Thinned(s, whole, a)
  PROVE  Thinned(s \o SubSeq(whole, a + 1, b), whole, b)
  <1>1. PICK m \in [1..Len(s) -> 1..a] :
          /\ \A i, j \in 1..Len(s) : i < j => m[i] < m[j]
          /\ \A i \in 1..Len(s) : s[i] = whole[m[i]]
    BY DEF Thinned
  <1>2. PICK t : t = SubSeq(whole, a + 1, b)  OBVIOUS
  <1>3. t \in Seq(T) /\ Len(t) = b - a /\ \A i \in 1..Len(t) : t[i] = whole[a + i]
    BY <1>2, SubSeqProperties
  <1>4. PICK q : q = s \o t  OBVIOUS
  <1>5. /\ Len(q) = Len(s) + (b - a) /\ Len(s) \in Nat
        /\ \A i \in 1..Len(s) : q[i] = s[i]
        /\ \A i \in 1..Len(q) : i \notin 1..Len(s) => i - Len(s) \in 1..Len(t) /\ q[i] = t[i - Len(s)]
    <2>1. /\ Len(q) = Len(s) + Len(t) /\ Len(s) \in Nat /\ Len(t) \in Nat
          /\ \A i \in 1..Len(s) + Len(t) : q[i] = IF i <= Len(s) THEN s[i] ELSE t[i - Len(s)]
      <3>1. Len(s) \in Nat /\ Len(t) \in Nat  BY <1>3
      <3>2. /\ Len(s \o t) = Len(s) + Len(t)
            /\ \A i \in 1..Len(s) + Len(t) : (s \o t)[i] = IF i <= Len(s) THEN s[i] ELSE t[i - Len(s)]
        BY ZenonT(60), <1>3, ConcatProperties
      <3> QED  BY <1>4, <3>1, <3>2
    <2>2. \A i \in 1..Len(s) : i \in 1..Len(s) + Len(t) /\ i <= Len(s)  BY <2>1
    <2>3. \A i \in 1..Len(s) + Len(t) : i \notin 1..Len(s) => ~(i <= Len(s)) /\ i - Len(s) \in 1..Len(t)
      BY <2>1
    <2> QED  BY <1>3, <2>1, <2>2, <2>3
  <1> DEFINE w == [i \in 1..Len(q) |-> IF i \in 1..Len(s) THEN m[i] ELSE a + (i - Len(s))]
  <1>6. \A i \in 1..Len(q) : w[i] \in 1..b /\ q[i] = whole[w[i]]
    <2> TAKE i \in 1..Len(q)
    <2>1. CASE i \in 1..Len(s)
      <3>1. w[i] = m[i] /\ m[i] \in 1..a /\ q[i] = s[i]  BY <1>1, <1>5, <2>1
      <3>2. m[i] \in 1..b  BY <3>1
      <3> QED  BY <1>1, <2>1, <3>1, <3>2
    <2>2. CASE i \notin 1..Len(s)
      <3>1. i - Len(s) \in 1..Len(t) /\ q[i] = t[i - Len(s)] /\ w[i] = a + (i - Len(s))  BY <1>5, <2>2
      <3> QED  BY <1>3, <3>1
    <2> QED  BY <2>1, <2>2
  <1>7. \A i, j \in 1..Len(q) : i < j => w[i] < w[j]
    <2> SUFFICES ASSUME NEW i \in 1..Len(q), NEW j \in 1..Len(q), i < j PROVE w[i] < w[j]  OBVIOUS
    <2>1. CASE i \in 1..Len(s) /\ j \in 1..Len(s)  BY <1>1, <2>1
    <2>2. CASE i \in 1..Len(s) /\ j \notin 1..Len(s)
      <3>1. w[i] \in 1..a  BY <1>1, <2>2
      <3>2. w[j] = a + (j - Len(s)) /\ j > Len(s)  BY <1>5, <2>2
      <3> QED  BY <1>5, <3>1, <3>2
    <2>3. CASE i \notin 1..Len(s)
      <3>1. j \notin 1..Len(s)  BY <1>5, <2>3
      <3> QED  BY <1>5, <2>3, <3>1
    <2> QED  BY <2>1, <2>2, <2>3
  <1>8. w \in [1..Len(q) -> 1..b]  BY <1>6
  <1> HIDE DEF w
  <1> QED  BY <1>2, <1>4, <1>6, <1>7, <1>8 DEF Thinned

LEMMA WholePiece ==
  ASSUME NEW T, NEW whole \in Seq(T), NEW a \in Nat, NEW b \in Nat, a <= b, b <= Len(whole)
  PROVE  SubSeq(whole, 1, a) \o SubSeq(whole, a + 1, b) = SubSeq(whole, 1, b)
  OBVIOUS

\* The places where a sequence was cut, and what was cut from it.
Cuts(n, whole) == {cut \in [0..n -> 0..Len(whole)] : cut[0] = 0 /\ \A i \in 1..n : cut[i - 1] <= cut[i]}
Piece(whole, cut, i) == SubSeq(whole, cut[i - 1] + 1, cut[i])

\* Pieces that are joined again, some of them missing or none.
SomePieces(seqs, n, whole, cut) == \A i \in 1..n : seqs[i] = <<>> \/ seqs[i] = Piece(whole, cut, i)
Rejoins(q, seqs, n, whole, cut, T) ==
  /\ q \in Seq(T) /\ Thinned(q, whole, cut[n])
  /\ (\A i \in 1..n : seqs[i] = Piece(whole, cut, i)) => q = SubSeq(whole, 1, cut[n])

LEMMA PiecesJoined ==
  ASSUME NEW T, NEW whole \in Seq(T), NEW n \in Nat \ {0}, NEW cut \in Cuts(n, whole),
         NEW seqs \in [1..n -> Seq(T)], SomePieces(seqs, n, whole, cut)
  PROVE  Rejoins(FlattenSeq(seqs), seqs, n, whole, cut, T)
  <1>0. PICK f : Sums(f, FlattenSeq(seqs), seqs, n, T)  BY FlattenSteps
  <1>1. /\ f[1] = seqs[1] /\ FlattenSeq(seqs) = f[n]
        /\ \A i \in 2..n : f[i] = f[i - 1] \o seqs[i]
        /\ \A i \in 1..n : f[i] \in Seq(T)
    BY <1>0 DEF Sums
  <1>2. /\ cut[0] = 0 /\ \A i \in 0..n : cut[i] \in Nat /\ cut[i] <= Len(whole)
        /\ \A i \in 1..n : cut[i - 1] \in Nat /\ cut[i] \in Nat /\ cut[i - 1] <= cut[i] /\ cut[i] <= Len(whole)
    BY DEF Cuts
  <1> DEFINE All(i) == \A j \in 1..i : seqs[j] = Piece(whole, cut, j)
             Good(i) == /\ Thinned(f[i], whole, cut[i])
                        /\ All(i) => f[i] = SubSeq(whole, 1, cut[i])
             S == {i \in 1..n : Good(i)}
  \* Adding the i-th sequence to those before it.
  <1>3. ASSUME NEW i \in 1..n, NEW s \in Seq(T), Thinned(s, whole, cut[i - 1])
        PROVE  Thinned(s \o seqs[i], whole, cut[i])
    <2>0. PICK a \in Nat, b \in Nat : a = cut[i - 1] /\ b = cut[i] /\ a <= b /\ b <= Len(whole)
      BY <1>2
    <2>1. CASE seqs[i] = <<>>
      <3>1. s \o seqs[i] = s  BY <2>1
      <3>2. Thinned(s, whole, b)  BY <1>3, <2>0, ThinnedLonger
      <3> QED  BY <2>0, <3>1, <3>2
    <2>2. CASE seqs[i] = Piece(whole, cut, i)
      <3>1. Thinned(s \o SubSeq(whole, a + 1, b), whole, b)  BY <1>3, <2>0, ThinnedPiece
      <3> QED  BY <2>0, <2>2, <3>1 DEF Piece
    <2> QED  BY <2>1, <2>2 DEF SomePieces
  <1>4. ASSUME NEW i \in 1..n, seqs[i] = Piece(whole, cut, i)
        PROVE  SubSeq(whole, 1, cut[i - 1]) \o seqs[i] = SubSeq(whole, 1, cut[i])
    <2>1. PICK a \in Nat, b \in Nat : a = cut[i - 1] /\ b = cut[i] /\ a <= b /\ b <= Len(whole)
      BY <1>2
    <2>2. SubSeq(whole, 1, a) \o SubSeq(whole, a + 1, b) = SubSeq(whole, 1, b)  BY <2>1, WholePiece
    <2> QED  BY <1>4, <2>1, <2>2 DEF Piece
  <1>5. 1 \in S
    <2>0. 1 \in 1..n /\ 1 - 1 = 0  OBVIOUS
    <2>1. <<>> \o seqs[1] = seqs[1] /\ <<>> \in Seq(T)
      BY <2>0, ConcatEmptySeq
    <2>2. Thinned(<<>>, whole, cut[1 - 1])  BY <1>2, NothingThinned
    <2>3. Thinned(f[1], whole, cut[1])  BY <1>1, <1>3, <2>0, <2>1, <2>2
    <2>4. All(1) => f[1] = SubSeq(whole, 1, cut[1])
      <3>1. SubSeq(whole, 1, cut[0]) = <<>>  BY <1>2
      <3>2. All(1) => seqs[1] = Piece(whole, cut, 1)  BY <2>0
      <3> QED  BY <1>1, <1>4, <2>0, <2>1, <3>1, <3>2
    <2> QED  BY <2>0, <2>3, <2>4
  <1>6. ASSUME NEW i \in S, i \in 1..(n - 1) PROVE i + 1 \in S
    <2> DEFINE k == i + 1
    <2>1. k \in 2..n /\ k \in 1..n /\ k - 1 = i /\ i \in 1..n  BY <1>6
    <2>2. f[k] = f[i] \o seqs[k] /\ f[i] \in Seq(T)  BY <1>1, <2>1
    <2> HIDE DEF k
    <2>3. Thinned(f[k], whole, cut[k])  BY <1>3, <2>1, <2>2
    <2>4. ASSUME All(k) PROVE f[k] = SubSeq(whole, 1, cut[k])
      <3>1. seqs[k] = Piece(whole, cut, k)  BY <2>1, <2>4
      <3>2. All(i)
        <4>1. \A j \in 1..i : j \in 1..k  BY <2>1
        <4> QED  BY <2>4, <4>1
      <3> QED  BY <1>4, <2>1, <2>2, <3>1, <3>2
    <2> QED  BY <2>1, <2>3, <2>4 DEF k
  <1>7. \A i \in 1..n : i \in S
    <2> HIDE DEF S
    <2> QED  BY <1>5, <1>6, UpTo
  <1> QED  BY <1>1, <1>7 DEF Rejoins

------------------------------------------------------------------------------
(* Commands. *)

LEMMA NumbersType ==
  ASSUME NEW s \in Seq(Cmds)
  PROVE  Numbers(s) \in Seq(1..MaxCmd) /\ Len(Numbers(s)) = Len(s) /\ \A i \in 1..Len(s) : Numbers(s)[i] = s[i].n
  <1>1. \A c \in Cmds : c.n \in 1..MaxCmd  BY DEF Cmds
  <1>2. \A i \in 1..Len(s) : s[i].n \in 1..MaxCmd
    <2>1. \A i \in 1..Len(s) : s[i] \in Cmds  OBVIOUS
    <2> QED  BY <1>1, <2>1
  <1>3. Numbers(s) = [i \in 1..Len(s) |-> s[i].n] /\ Len(s) \in Nat  BY DEF Numbers
  <1> QED  BY <1>2, <1>3

LEMMA NumbersAdded ==
  ASSUME NEW s \in Seq(Cmds), NEW t \in Seq(Cmds)
  PROVE  Numbers(s \o t) = Numbers(s) \o Numbers(t)
  <1>1. PICK q : q = s \o t  OBVIOUS
  <1>2. q \in Seq(Cmds)  BY <1>1
  <1>3. PICK k : k = Numbers(s) \o Numbers(t)  OBVIOUS
  <1>4. /\ k \in Seq(1..MaxCmd) /\ Len(k) = Len(s) + Len(t) /\ Len(s) \in Nat /\ Len(t) \in Nat
        /\ \A i \in 1..Len(s) + Len(t) : k[i] = IF i <= Len(s) THEN Numbers(s)[i] ELSE Numbers(t)[i - Len(s)]
    <2>1. PICK a, b : a = Numbers(s) /\ b = Numbers(t)  OBVIOUS
    <2>2. /\ a \in Seq(1..MaxCmd) /\ Len(a) = Len(s) /\ Len(s) \in Nat
          /\ b \in Seq(1..MaxCmd) /\ Len(b) = Len(t) /\ Len(t) \in Nat
      BY <2>1, NumbersType
    <2>3. /\ a \o b \in Seq(1..MaxCmd) /\ Len(a \o b) = Len(a) + Len(b)
          /\ \A i \in 1..Len(a) + Len(b) : (a \o b)[i] = IF i <= Len(a) THEN a[i] ELSE b[i - Len(a)]
      BY <2>2, ConcatProperties
    <2> QED  BY <1>3, <2>1, <2>2, <2>3
  <1>5. /\ Len(q) = Len(s) + Len(t)
        /\ \A i \in 1..Len(s) + Len(t) : q[i] = IF i <= Len(s) THEN s[i] ELSE t[i - Len(s)]
    BY <1>1, ConcatProperties
  <1>6. \A i \in 1..Len(q) : k[i] = q[i].n
    <2> TAKE i \in 1..Len(q)
    <2>1. CASE i <= Len(s)
      <3>1. i \in 1..Len(s) /\ i \in 1..Len(s) + Len(t)  BY <1>4, <1>5, <2>1
      <3> QED  BY <1>4, <1>5, <2>1, <3>1, NumbersType
    <2>2. CASE ~(i <= Len(s))
      <3>1. i - Len(s) \in 1..Len(t) /\ i \in 1..Len(s) + Len(t)  BY <1>4, <1>5, <2>2
      <3> QED  BY <1>4, <1>5, <2>2, <3>1, NumbersType
    <2> QED  BY <2>1, <2>2
  <1>7. Len(k) = Len(q) /\ Numbers(q) \in Seq(1..MaxCmd) /\ Len(Numbers(q)) = Len(q)
        /\ \A i \in 1..Len(q) : Numbers(q)[i] = q[i].n
    BY <1>2, <1>4, <1>5, NumbersType
  <1>8. k = Numbers(q)  BY <1>4, <1>6, <1>7
  <1> QED  BY <1>1, <1>3, <1>8

\* The numbers of commands that are joined.
LEMMA NumbersJoined ==
  ASSUME NEW n \in Nat \ {0}, NEW seqs \in [1..n -> Seq(Cmds)], NEW numbers \in [1..n -> Seq(1..MaxCmd)],
         \A i \in 1..n : numbers[i] = Numbers(seqs[i])
  PROVE  FlattenSeq(numbers) = Numbers(FlattenSeq(seqs)) /\ FlattenSeq(numbers) \in Seq(1..MaxCmd)
  <1>1. PICK f : Sums(f, FlattenSeq(seqs), seqs, n, Cmds)  BY FlattenSteps
  <1>2. PICK g : Sums(g, FlattenSeq(numbers), numbers, n, 1..MaxCmd)  BY FlattenSteps
  <1> DEFINE S == {i \in 1..n : g[i] = Numbers(f[i])}
  <1>3. 1 \in S  BY <1>1, <1>2 DEF Sums
  <1>4. ASSUME NEW i \in S, i \in 1..(n - 1) PROVE i + 1 \in S
    <2> DEFINE k == i + 1
    <2>1. k \in 2..n /\ k \in 1..n /\ k - 1 = i /\ i \in 1..n  BY <1>4
    <2> HIDE DEF k
    <2>2. f[k] = f[i] \o seqs[k] /\ g[k] = g[i] \o numbers[k]  BY <1>1, <1>2, <2>1 DEF Sums
    <2>3. f[i] \in Seq(Cmds) /\ seqs[k] \in Seq(Cmds)  BY <1>1, <2>1 DEF Sums
    <2>4. g[i] = Numbers(f[i]) /\ numbers[k] = Numbers(seqs[k])  BY <2>1
    <2>5. Numbers(f[i] \o seqs[k]) = Numbers(f[i]) \o Numbers(seqs[k])  BY <2>3, NumbersAdded
    <2> QED  BY <2>1, <2>2, <2>4, <2>5 DEF k
  <1>5. \A i \in 1..n : i \in S
    <2> HIDE DEF S
    <2> QED  BY <1>3, <1>4, UpTo
  <1> QED  BY <1>1, <1>2, <1>5 DEF Sums

\* Commands in the order they were given, and none later than the n-th.
Increasing(cmds) == \A i, j \in DOMAIN cmds : i < j => cmds[i].n < cmds[j].n
AtMost(cmds, n) == \A i \in DOMAIN cmds : cmds[i].n <= n

LEMMA ThinnedIncreasing ==
  ASSUME NEW s \in Seq(Cmds), NEW whole \in Seq(Cmds), Increasing(whole), Thinned(s, whole, Len(whole))
  PROVE  Increasing(s)
  <1>1. PICK m \in [1..Len(s) -> 1..Len(whole)] :
          /\ \A i, j \in 1..Len(s) : i < j => m[i] < m[j]
          /\ \A i \in 1..Len(s) : s[i] = whole[m[i]]
    BY DEF Thinned
  <1>2. DOMAIN s = 1..Len(s) /\ DOMAIN whole = 1..Len(whole)  OBVIOUS
  <1>3. ASSUME NEW i \in 1..Len(s), NEW j \in 1..Len(s), i < j PROVE s[i].n < s[j].n
    <2>1. m[i] \in DOMAIN whole /\ m[j] \in DOMAIN whole /\ m[i] < m[j]  BY <1>1, <1>2, <1>3
    <2>2. whole[m[i]].n < whole[m[j]].n  BY <2>1 DEF Increasing
    <2> QED  BY <1>1, <2>2
  <1> QED  BY <1>2, <1>3 DEF Increasing

\* The end of a sequence of commands.
LEMMA EndOf ==
  ASSUME NEW s \in Seq(Cmds), NEW k \in 1..Len(s) + 1
  PROVE  LET e == SubSeq(s, k, Len(s))
         IN  /\ e \in Seq(Cmds) /\ (Increasing(s) => Increasing(e))
             /\ \A n \in Nat : AtMost(s, n) => AtMost(e, n)
             /\ SubSeq(Numbers(s), k, Len(s)) = Numbers(e)
  <1>1. PICK e : e = SubSeq(s, k, Len(s))  OBVIOUS
  <1>2. Len(s) \in Nat /\ DOMAIN s = 1..Len(s)  OBVIOUS
  <1>3. /\ e \in Seq(Cmds) /\ Len(e) = Len(s) - k + 1
        /\ \A i \in 1..Len(s) - k + 1 : e[i] = s[k + i - 1]
    <2>1. \A i \in k..Len(s) : s[i] \in Cmds  BY <1>2
    <2> QED  BY <1>1, <1>2, <2>1, SubSeqProperties
  <1>4. DOMAIN e = 1..Len(e) /\ \A i \in DOMAIN e : k + i - 1 \in DOMAIN s /\ e[i] = s[k + i - 1]
    <2>1. DOMAIN e = 1..Len(e)  BY <1>3
    <2>2. \A i \in 1..Len(e) : k + i - 1 \in 1..Len(s) /\ i \in 1..Len(s) - k + 1  BY <1>2, <1>3
    <2> QED  BY <1>2, <1>3, <2>1, <2>2
  <1>5. Increasing(s) => Increasing(e)
    <2> SUFFICES ASSUME Increasing(s), NEW i \in DOMAIN e, NEW j \in DOMAIN e, i < j PROVE e[i].n < e[j].n
      BY DEF Increasing
    <2>1. k + i - 1 < k + j - 1  BY <1>2, <1>4
    <2> QED  BY <1>4, <2>1 DEF Increasing
  <1>6. \A n \in Nat : AtMost(s, n) => AtMost(e, n)  BY <1>4 DEF AtMost
  <1>7. SubSeq(Numbers(s), k, Len(s)) = Numbers(e)
    <2>1. PICK q : q = Numbers(s)  OBVIOUS
    <2>2. q \in Seq(1..MaxCmd) /\ Len(q) = Len(s) /\ \A i \in 1..Len(s) : q[i] = s[i].n  BY <2>1, NumbersType
    <2>3. PICK d : d = SubSeq(q, k, Len(s))  OBVIOUS
    <2>4. /\ d \in Seq(1..MaxCmd) /\ Len(d) = Len(s) - k + 1
          /\ \A i \in 1..Len(s) - k + 1 : d[i] = q[k + i - 1]
      <3>0. \A i \in 1..Len(s) : q[i] \in 1..MaxCmd  BY <2>2, ElementOfSeq
      <3>1. \A i \in k..Len(s) : q[i] \in 1..MaxCmd
        <4>1. \A i \in k..Len(s) : i \in 1..Len(s)  BY <1>2
        <4> QED  BY <3>0, <4>1
      <3> QED  BY <1>2, <2>3, <3>1, SubSeqProperties
    <2>5. PICK f : f = Numbers(e)  OBVIOUS
    <2>6. f \in Seq(1..MaxCmd) /\ Len(f) = Len(e) /\ \A i \in 1..Len(e) : f[i] = e[i].n
      BY <1>3, <2>5, NumbersType
    <2>7. \A i \in 1..Len(e) : d[i] = f[i]
      <3> TAKE i \in 1..Len(e)
      <3>1. k + i - 1 \in 1..Len(s) /\ i \in 1..Len(s) - k + 1 /\ e[i] = s[k + i - 1]  BY <1>2, <1>4
      <3> QED  BY <2>2, <2>4, <2>6, <3>1
    <2>8. d = f  BY <1>3, <2>4, <2>6, <2>7
    <2> QED  BY <2>1, <2>3, <2>5, <2>8
  <1> QED  BY <1>1, <1>3, <1>5, <1>6, <1>7

------------------------------------------------------------------------------
(* What was pushed to a recorder, its chunks and what is left in memory. *)

\* whole was cut n times; the rest is what follows the last cut, and parts are
\* pairs of the number of a piece and the piece.
Divided(whole, n, rest, parts) ==
  \E cut \in Cuts(n, whole) :
    /\ rest = SubSeq(whole, cut[n] + 1, Len(whole))
    /\ \A p \in parts : p[1] \in 0..n - 1 /\ p[2] = Piece(whole, cut, p[1] + 1)

LEMMA DividedWhole == ASSUME NEW T, NEW whole \in Seq(T) PROVE Divided(whole, 0, whole, {})
  <1> DEFINE cut == [i \in 0..0 |-> 0]
  <1>1. cut \in Cuts(0, whole) /\ cut[0] = 0  BY DEF Cuts
  <1>2. whole = SubSeq(whole, 0 + 1, Len(whole))  OBVIOUS
  <1> QED  BY <1>1, <1>2 DEF Divided

LEMMA DividedFewer ==
  ASSUME NEW whole, NEW n, NEW rest, NEW parts, NEW fewer, fewer \subseteq parts, Divided(whole, n, rest, parts)
  PROVE  Divided(whole, n, rest, fewer)
  BY DEF Divided

LEMMA DividedNone ==
  ASSUME NEW whole, NEW rest, NEW parts, Divided(whole, 0, rest, parts) PROVE parts = {}
  BY DEF Divided

\* More is pushed.
LEMMA DividedMore ==
  ASSUME NEW T, NEW whole \in Seq(T), NEW n \in Nat, NEW rest, NEW parts, NEW x \in Seq(T),
         Divided(whole, n, rest, parts)
  PROVE  Divided(whole \o x, n, rest \o x, parts)
  <1>1. PICK cut \in Cuts(n, whole) :
          /\ rest = SubSeq(whole, cut[n] + 1, Len(whole))
          /\ \A p \in parts : p[1] \in 0..n - 1 /\ p[2] = Piece(whole, cut, p[1] + 1)
    BY DEF Divided
  <1>2. PICK longer : longer = whole \o x  OBVIOUS
  <1>3. /\ longer \in Seq(T) /\ Len(longer) = Len(whole) + Len(x) /\ Len(whole) \in Nat /\ Len(x) \in Nat
        /\ \A i \in 1..Len(whole) : longer[i] = whole[i]
        /\ \A i \in 1..Len(x) : longer[Len(whole) + i] = x[i]
    <2>1. /\ longer \in Seq(T) /\ Len(longer) = Len(whole) + Len(x)
          /\ \A i \in 1..Len(whole) + Len(x) : longer[i] = IF i <= Len(whole) THEN whole[i] ELSE x[i - Len(whole)]
      BY <1>2, ConcatProperties
    <2>2. Len(whole) \in Nat /\ Len(x) \in Nat  OBVIOUS
    <2>3. \A i \in 1..Len(whole) : i \in 1..Len(whole) + Len(x) /\ i <= Len(whole)  BY <2>2
    <2>4. \A i \in 1..Len(x) : /\ Len(whole) + i \in 1..Len(whole) + Len(x) /\ ~(Len(whole) + i <= Len(whole))
                               /\ (Len(whole) + i) - Len(whole) = i
      BY <2>2
    <2> QED  BY <2>1, <2>2, <2>3, <2>4
  <1>4. /\ cut \in [0..n -> 0..Len(whole)] /\ cut[0] = 0 /\ \A i \in 1..n : cut[i - 1] <= cut[i]
        /\ \A i \in 0..n : cut[i] \in 0..Len(whole) /\ cut[i] \in 0..Len(longer)
    <2>1. cut \in [0..n -> 0..Len(whole)] /\ cut[0] = 0 /\ \A i \in 1..n : cut[i - 1] <= cut[i]
      BY DEF Cuts
    <2>2. \A i \in 0..n : cut[i] \in 0..Len(whole)  BY <2>1
    <2>3. \A i \in 0..Len(whole) : i \in 0..Len(longer)  BY <1>3
    <2> QED  BY <2>1, <2>2, <2>3
  <1>5. cut \in Cuts(n, longer)  BY <1>4 DEF Cuts
  \* A piece of whole is the same piece of the longer one.
  <1>6. ASSUME NEW a \in 0..Len(whole), NEW b \in 0..Len(whole)
        PROVE  SubSeq(longer, a + 1, b) = SubSeq(whole, a + 1, b)
    <2>1. \A i \in (a + 1)..b : i \in 1..Len(whole) /\ longer[i] = whole[i] /\ whole[i] \in T
      <3>1. \A i \in (a + 1)..b : i \in 1..Len(whole)  BY <1>3
      <3>2. \A i \in 1..Len(whole) : whole[i] \in T  OBVIOUS
      <3> QED  BY <1>3, <3>1, <3>2
    <2> DEFINE s == SubSeq(longer, a + 1, b)
               t == SubSeq(whole, a + 1, b)
    <2>2. /\ s \in Seq(T) /\ Len(s) = IF a + 1 <= b THEN b - (a + 1) + 1 ELSE 0
          /\ \A i \in 1..b - (a + 1) + 1 : s[i] = longer[(a + 1) + i - 1]
      <3>1. \A i \in (a + 1)..b : longer[i] \in T  BY <2>1
      <3>2. a + 1 \in Int /\ b \in Int  BY <1>3
      <3> QED  BY <3>1, <3>2, SubSeqProperties
    <2>3. /\ t \in Seq(T) /\ Len(t) = IF a + 1 <= b THEN b - (a + 1) + 1 ELSE 0
          /\ \A i \in 1..b - (a + 1) + 1 : t[i] = whole[(a + 1) + i - 1]
      <3>1. a + 1 \in Int /\ b \in Int  BY <1>3
      <3> QED  BY <2>1, <3>1, SubSeqProperties
    <2> HIDE DEF s, t
    <2>4. \A i \in 1..Len(s) : s[i] = t[i]
      <3> TAKE i \in 1..Len(s)
      <3>1. i \in 1..b - (a + 1) + 1 /\ (a + 1) + i - 1 \in (a + 1)..b  BY <1>3, <2>2
      <3> QED  BY <2>1, <2>2, <2>3, <3>1
    <2>5. s = t  BY SMTT(40), <2>2, <2>3, <2>4
    <2> QED  BY <2>5 DEF s, t
  <1>7. \A p \in parts : p[1] \in 0..n - 1 /\ p[2] = Piece(longer, cut, p[1] + 1)
    <2> TAKE p \in parts
    <2>1. PICK k : k = p[1] + 1  OBVIOUS
    <2>2. p[1] \in 0..n - 1 /\ p[2] = Piece(whole, cut, k)  BY <1>1, <2>1
    <2>3. k \in 0..n /\ k - 1 \in 0..n  BY <2>1, <2>2
    <2>4. cut[k] \in 0..Len(whole) /\ cut[k - 1] \in 0..Len(whole)  BY <1>4, <2>3
    <2>5. Piece(longer, cut, k) = Piece(whole, cut, k)  BY <1>6, <2>4 DEF Piece
    <2> QED  BY <2>1, <2>2, <2>5
  <1>8. rest \o x = SubSeq(longer, cut[n] + 1, Len(longer))
    <2>1. PICK a \in 0..Len(whole) : a = cut[n]  BY <1>4
    <2>2. SubSeq(longer, a + 1, Len(whole)) \o SubSeq(longer, Len(whole) + 1, Len(longer))
            = SubSeq(longer, a + 1, Len(longer))
      <3>1. /\ a + 1 \in 1..Len(longer) + 1 /\ Len(whole) \in (a + 1) - 1..Len(longer)
            /\ Len(longer) \in Len(whole)..Len(longer)
        BY <1>3
      <3> QED  BY <1>3, <3>1, ConcatAdjacentSubSeq
    <2>3. SubSeq(longer, Len(whole) + 1, Len(longer)) = x
      <3> DEFINE e == SubSeq(longer, Len(whole) + 1, Len(longer))
      <3>1. /\ e \in Seq(T)
            /\ Len(e) = IF Len(whole) + 1 <= Len(longer) THEN Len(longer) - (Len(whole) + 1) + 1 ELSE 0
            /\ \A i \in 1..Len(longer) - (Len(whole) + 1) + 1 : e[i] = longer[(Len(whole) + 1) + i - 1]
        <4>1. \A i \in (Len(whole) + 1)..Len(longer) : i \in 1..Len(longer)  BY <1>3
        <4>2. \A i \in 1..Len(longer) : longer[i] \in T  BY <1>3
        <4>3. Len(whole) + 1 \in Int /\ Len(longer) \in Int  BY <1>3
        <4> QED  BY <4>1, <4>2, <4>3, SubSeqProperties
      <3> HIDE DEF e
      <3>2. Len(e) = Len(x)  BY <1>3, <3>1
      <3>3. \A i \in 1..Len(x) : e[i] = x[i]
        <4> TAKE i \in 1..Len(x)
        <4>1. i \in 1..Len(longer) - (Len(whole) + 1) + 1 /\ (Len(whole) + 1) + i - 1 = Len(whole) + i  BY <1>3
        <4> QED  BY <1>3, <3>1, <4>1
      <3>4. e = x  BY <3>1, <3>2, <3>3, SeqEqual
      <3> QED  BY <3>4 DEF e
    <2>4. SubSeq(longer, a + 1, Len(whole)) = rest
      <3>1. Len(whole) \in 0..Len(whole)  BY <1>3
      <3> QED  BY <1>1, <1>6, <2>1, <3>1
    <2> QED  BY <2>1, <2>2, <2>3, <2>4
  <1> QED  BY <1>2, <1>5, <1>7, <1>8 DEF Divided

\* What is left in memory becomes a piece.
LEMMA DividedAgain ==
  ASSUME NEW T, NEW whole \in Seq(T), NEW n \in Nat, NEW rest, NEW parts, Divided(whole, n, rest, parts)
  PROVE  \A new : (\A p \in new : p \in parts \/ p = <<n, rest>>) => Divided(whole, n + 1, <<>>, new)
  <1> SUFFICES ASSUME NEW new, \A p \in new : p \in parts \/ p = <<n, rest>>
               PROVE  Divided(whole, n + 1, <<>>, new)
    OBVIOUS
  <1>1. PICK cut \in Cuts(n, whole) :
          /\ rest = SubSeq(whole, cut[n] + 1, Len(whole))
          /\ \A p \in parts : p[1] \in 0..n - 1 /\ p[2] = Piece(whole, cut, p[1] + 1)
    BY DEF Divided
  <1>2. /\ cut \in [0..n -> 0..Len(whole)] /\ cut[0] = 0 /\ \A i \in 1..n : cut[i - 1] <= cut[i]
        /\ \A i \in 0..n : cut[i] \in 0..Len(whole)
        /\ Len(whole) \in Nat
    BY DEF Cuts
  <1> DEFINE c == [i \in 0..n + 1 |-> IF i = n + 1 THEN Len(whole) ELSE cut[i]]
  <1>3. c[n + 1] = Len(whole) /\ \A i \in 0..n : c[i] = cut[i]  OBVIOUS
  <1>4. \A i \in 0..n + 1 : c[i] \in 0..Len(whole)
    <2>1. \A i \in 0..n + 1 : i = n + 1 \/ i \in 0..n  OBVIOUS
    <2> QED  BY <1>2, <1>3, <2>1
  <1>5. c \in [0..n + 1 -> 0..Len(whole)]  BY <1>4
  <1> HIDE DEF c
  <1>6. \A i \in 1..n + 1 : c[i - 1] <= c[i]
    <2> TAKE i \in 1..n + 1
    <2>1. CASE i = n + 1
      <3>1. i - 1 = n /\ n \in 0..n  BY <2>1
      <3>2. c[i - 1] = cut[n] /\ cut[n] \in 0..Len(whole)  BY <1>2, <1>3, <3>1
      <3> QED  BY <1>2, <1>3, <2>1, <3>2
    <2>2. CASE i # n + 1
      <3>1. i \in 1..n /\ i \in 0..n /\ i - 1 \in 0..n  BY <2>2
      <3>2. c[i] = cut[i] /\ c[i - 1] = cut[i - 1]  BY <1>3, <3>1
      <3> QED  BY <1>2, <3>1, <3>2
    <2> QED  BY <2>1, <2>2
  <1>7. c \in Cuts(n + 1, whole)
    <2>1. c[0] = 0  BY <1>2, <1>3
    <2> QED  BY <1>5, <1>6, <2>1 DEF Cuts
  <1>8. SubSeq(whole, c[n + 1] + 1, Len(whole)) = <<>>
    BY <1>2, <1>3, SubSeqEmpty
  <1>9. \A p \in new : p[1] \in 0..(n + 1) - 1 /\ p[2] = Piece(whole, c, p[1] + 1)
    <2> TAKE p \in new
    <2>1. CASE p \in parts
      <3>1. p[1] \in 0..n - 1 /\ p[2] = Piece(whole, cut, p[1] + 1)  BY <1>1, <2>1
      <3>2. p[1] \in 0..n /\ p[1] + 1 \in 0..n /\ (p[1] + 1) - 1 = p[1] /\ p[1] \in 0..(n + 1) - 1  BY <3>1
      <3>3. c[p[1] + 1] = cut[p[1] + 1] /\ c[p[1]] = cut[p[1]]  BY <1>3, <3>2
      <3> QED  BY <3>1, <3>2, <3>3 DEF Piece
    <2>2. CASE p = <<n, rest>>
      <3>1. p[1] = n /\ p[2] = rest /\ (n + 1) - 1 = n /\ n \in 0..(n + 1) - 1 /\ n \in 0..n  BY <2>2
      <3>2. c[n] = cut[n] /\ c[n + 1] = Len(whole)  BY <1>3, <3>1
      <3> QED  BY <1>1, <3>1, <3>2 DEF Piece
    <2> QED  BY <2>1, <2>2
  <1> QED  BY <1>7, <1>8, <1>9 DEF Divided

\* The pieces that are found, and the rest.
Pieces(seqs, n, rest, parts) ==
  seqs[n + 1] = rest /\ \A i \in 1..n : seqs[i] = <<>> \/ <<i - 1, seqs[i]>> \in parts
Joins(q, seqs, n, parts, whole, T) ==
  /\ q \in Seq(T) /\ Thinned(q, whole, Len(whole))
  /\ (\A i \in 1..n : <<i - 1, seqs[i]>> \in parts) => q = whole

LEMMA DividedJoined ==
  ASSUME NEW T, NEW whole \in Seq(T), NEW n \in Nat, NEW rest, NEW parts, Divided(whole, n, rest, parts),
         NEW seqs \in [1..n + 1 -> Seq(T)], Pieces(seqs, n, rest, parts)
  PROVE  Joins(FlattenSeq(seqs), seqs, n, parts, whole, T)
  <1>0. seqs[n + 1] = rest /\ \A i \in 1..n : seqs[i] = <<>> \/ <<i - 1, seqs[i]>> \in parts
    BY DEF Pieces
  <1> DEFINE new == parts \cup {<<n, rest>>}
  <1>1. PICK k \in Nat \ {0} : k = n + 1  OBVIOUS
  <1>2. Divided(whole, k, <<>>, new)  BY <1>1, DividedAgain
  <1>3. PICK cut \in Cuts(k, whole) :
          /\ <<>> = SubSeq(whole, cut[k] + 1, Len(whole))
          /\ \A p \in new : p[1] \in 0..k - 1 /\ p[2] = Piece(whole, cut, p[1] + 1)
    BY <1>2 DEF Divided
  <1>4. cut[k] \in 0..Len(whole) /\ Len(whole) \in Nat  BY DEF Cuts
  <1>5. cut[k] = Len(whole)
    <2>1. \A i \in (cut[k] + 1)..Len(whole) : whole[i] \in T  BY <1>4
    <2>2. Len(SubSeq(whole, cut[k] + 1, Len(whole))) =
            IF cut[k] + 1 <= Len(whole) THEN Len(whole) - (cut[k] + 1) + 1 ELSE 0
      BY <1>4, <2>1, SubSeqProperties
    <2>3. Len(SubSeq(whole, cut[k] + 1, Len(whole))) = 0
      <3>1. PICK e : e = <<>>  OBVIOUS
      <3>2. Len(e) = 0  BY <3>1
      <3> QED  BY <1>3, <3>1, <3>2
    <2>4. ~(cut[k] + 1 <= Len(whole))
      <3> SUFFICES ASSUME cut[k] + 1 <= Len(whole) PROVE FALSE  OBVIOUS
      <3>1. Len(whole) - (cut[k] + 1) + 1 = 0  BY <2>2, <2>3
      <3> QED  BY <1>4, <3>1
    <2> QED  BY <1>4, <2>4
  <1>6. ASSUME NEW i \in 1..k, <<i - 1, seqs[i]>> \in new PROVE seqs[i] = Piece(whole, cut, i)
    <2>1. PICK p : p = <<i - 1, seqs[i]>>  OBVIOUS
    <2>2. p[1] = i - 1 /\ p[2] = seqs[i] /\ p \in new  BY <1>6, <2>1
    <2> QED  BY <1>3, <2>2
  <1>7. <<k - 1, seqs[k]>> \in new  BY <1>0, <1>1
  <1>8. \A i \in 1..k : i \in 1..n \/ i = k  BY <1>1
  <1>9. \A i \in 1..k : seqs[i] = <<>> \/ seqs[i] = Piece(whole, cut, i)  BY <1>0, <1>6, <1>7, <1>8
  <1>10. /\ FlattenSeq(seqs) \in Seq(T) /\ Thinned(FlattenSeq(seqs), whole, cut[k])
         /\ (\A i \in 1..k : seqs[i] = Piece(whole, cut, i)) => FlattenSeq(seqs) = SubSeq(whole, 1, cut[k])
    <2>1. PICK f \in [1..k -> Seq(T)] : f = seqs  BY <1>1
    <2>2. SomePieces(f, k, whole, cut)  BY <1>9, <2>1 DEF SomePieces
    <2>3. Rejoins(FlattenSeq(f), f, k, whole, cut, T)  BY <2>2, PiecesJoined
    <2> QED  BY <2>1, <2>3 DEF Rejoins
  <1>11. SubSeq(whole, 1, Len(whole)) = whole  OBVIOUS
  <1> QED  BY <1>5, <1>6, <1>7, <1>8, <1>10, <1>11 DEF Joins

------------------------------------------------------------------------------
(* The data of a recorder, and what is copied to it. *)

LEMMA FunctionIsSeq == ASSUME NEW D, NEW m \in Nat, NEW x \in [1..m -> D] PROVE x \in Seq(D)
  OBVIOUS

LEMMA PushTickFields ==
  ASSUME NEW d \in Data, NEW tick \in Ticks
  PROVE  /\ PushTick(d, tick) \in Data /\ PushTick(d, tick).ticks = d.ticks \o <<tick>>
         /\ PushTick(d, tick).cmds = d.cmds /\ PushTick(d, tick).csubs = d.csubs
  <1>1. PICK x : x = Append(d.ticks, tick)  OBVIOUS
  <1>2. x \in Seq(Ticks) /\ x = d.ticks \o <<tick>>  BY <1>1 DEF Data
  <1>3. PICK e : e = [d EXCEPT !.ticks = x]  OBVIOUS
  <1>4. e = PushTick(d, tick)  BY <1>1, <1>3 DEF PushTick
  <1>5. e \in Data /\ e.ticks = x /\ e.cmds = d.cmds /\ e.csubs = d.csubs  BY <1>2, <1>3 DEF Data
  <1> QED  BY <1>2, <1>4, <1>5

LEMMA PushSubsFields ==
  ASSUME NEW d \in Data, NEW n \in 0..Garbage
  PROVE  /\ PushSubs(d, n) \in Data /\ PushSubs(d, n).ticks = d.ticks
         /\ PushSubs(d, n).cmds = d.cmds /\ PushSubs(d, n).csubs = d.csubs
  <1>1. PICK x : x = Append(d.subs, n)  OBVIOUS
  <1>2. x \in Seq(0..Garbage)  BY <1>1 DEF Data
  <1>3. PICK e : e = [d EXCEPT !.subs = x]  OBVIOUS
  <1>4. e = PushSubs(d, n)  BY <1>1, <1>3 DEF PushSubs
  <1>5. e \in Data /\ e.ticks = d.ticks /\ e.cmds = d.cmds /\ e.csubs = d.csubs  BY <1>2, <1>3 DEF Data
  <1> QED  BY <1>4, <1>5

LEMMA PushCmdsFields ==
  ASSUME NEW d \in Data, NEW new \in Seq(Cmds), NEW nums \in Seq(1..MaxCmd)
  PROVE  /\ PushCmds(d, new, nums) \in Data /\ PushCmds(d, new, nums).ticks = d.ticks
         /\ PushCmds(d, new, nums).cmds = d.cmds \o new /\ PushCmds(d, new, nums).csubs = d.csubs \o nums
  <1>1. PICK x, y : x = d.cmds \o new /\ y = d.csubs \o nums  OBVIOUS
  <1>2. x \in Seq(Cmds) /\ y \in Seq(1..MaxCmd)
    <2>1. d.cmds \in Seq(Cmds) /\ d.csubs \in Seq(1..MaxCmd)  BY DEF Data
    <2> QED  BY <1>1, <2>1, ConcatProperties
  <1>3. PICK e : e = [d EXCEPT !.cmds = x, !.csubs = y]  OBVIOUS
  <1>4. e = PushCmds(d, new, nums)  BY <1>1, <1>3 DEF PushCmds
  <1>5. e \in Data /\ e.ticks = d.ticks /\ e.cmds = x /\ e.csubs = y  BY <1>2, <1>3 DEF Data
  <1> QED  BY <1>1, <1>4, <1>5

LEMMA ChunkOfFields ==
  ASSUME NEW d \in Data
  PROVE  /\ ChunkOf(d) \in Data /\ ChunkOf(d).ticks = d.ticks
         /\ ChunkOf(d).cmds = d.cmds /\ ChunkOf(d).csubs = d.csubs
  <1>1. PICK x : x = [i \in 1..Len(d.ticks) |-> IF i <= Len(d.subs) THEN d.subs[i] ELSE Garbage]  OBVIOUS
  <1>2. x \in Seq(0..Garbage)
    <2>1. Len(d.ticks) \in Nat /\ Len(d.subs) \in Nat /\ d.subs \in Seq(0..Garbage)  BY DEF Data
    <2>2. \A i \in 1..Len(d.subs) : d.subs[i] \in 0..Garbage  BY <2>1, ElementOfSeq
    <2>3. Garbage \in 0..Garbage  BY RecorderAssumption DEF Garbage
    <2>4. \A i \in 1..Len(d.ticks) : i <= Len(d.subs) => i \in 1..Len(d.subs)  BY <2>1
    <2>5. \A i \in 1..Len(d.ticks) : x[i] \in 0..Garbage  BY <1>1, <2>2, <2>3, <2>4
    <2>6. PICK m, D : m \in Nat /\ m = Len(d.ticks) /\ D = 0..Garbage  BY <2>1
    <2>7. x \in [1..m -> D]  BY <1>1, <2>5, <2>6
    <2>8. x \in Seq(D)  BY <2>6, <2>7, FunctionIsSeq
    <2> QED  BY <2>6, <2>8
  <1>3. PICK e : e = [d EXCEPT !.subs = x]  OBVIOUS
  <1>4. e = ChunkOf(d)  BY <1>1, <1>3 DEF ChunkOf
  <1>5. e \in Data /\ e.ticks = d.ticks /\ e.cmds = d.cmds /\ e.csubs = d.csubs  BY <1>2, <1>3 DEF Data
  <1> QED  BY <1>4, <1>5

LEMMA NothingFields ==
  /\ Nothing \in Data /\ Nothing.ticks = <<>> /\ Nothing.cmds = <<>> /\ Nothing.csubs = <<>>
  BY DEF Nothing, Data

\* A suffix is an end.
LEMMA SuffixIsEnd ==
  ASSUME NEW T, NEW s \in Seq(T), NEW k \in Nat
  PROVE  \E i \in 1..Len(s) + 1 : /\ Suffix(s, k) = SubSeq(s, i, Len(s)) /\ Suffix(s, k) \in Seq(T)
                                  /\ i = IF Len(s) > k THEN Len(s) - k + 1 ELSE 1
  <1>1. PICK i : i = IF Len(s) > k THEN Len(s) - k + 1 ELSE 1  OBVIOUS
  <1>2. i \in 1..Len(s) + 1 /\ Len(s) \in Nat  BY <1>1
  <1>3. Suffix(s, k) = SubSeq(s, i, Len(s))  BY <1>1 DEF Suffix
  <1>4. \A j \in i..Len(s) : s[j] \in T
    <2>1. \A j \in i..Len(s) : j \in 1..Len(s)  BY <1>2
    <2> QED  BY <2>1, ElementOfSeq
  <1>5. SubSeq(s, i, Len(s)) \in Seq(T)
    <2>1. i \in Int /\ Len(s) \in Int  BY <1>2
    <2> QED  BY <1>4, <2>1, SubSeqProperties
  <1> QED  BY <1>1, <1>2, <1>3, <1>5

\* Commands in order, none after n, each with its own subtick moves.
Fit(cmds, csubs, n) == Increasing(cmds) /\ AtMost(cmds, n) /\ csubs = Numbers(cmds)

LEMMA SuffixFits ==
  ASSUME NEW s \in Seq(Cmds), NEW csubs, NEW n \in Nat, NEW k \in Nat, Fit(s, csubs, n)
  PROVE  /\ Suffix(s, k) \in Seq(Cmds) /\ Suffix(csubs, k) \in Seq(1..MaxCmd)
         /\ Fit(Suffix(s, k), Suffix(csubs, k), n)
  <1>1. PICK i \in 1..Len(s) + 1 : /\ Suffix(s, k) = SubSeq(s, i, Len(s)) /\ Suffix(s, k) \in Seq(Cmds)
                                  /\ i = IF Len(s) > k THEN Len(s) - k + 1 ELSE 1
    BY SuffixIsEnd
  <1>2. csubs = Numbers(s) /\ csubs \in Seq(1..MaxCmd) /\ Len(csubs) = Len(s)  BY NumbersType DEF Fit
  <1>3. Suffix(csubs, k) \in Seq(1..MaxCmd)  BY <1>2, SuffixIsEnd
  <1>4. Suffix(csubs, k) = SubSeq(csubs, i, Len(s))  BY <1>1, <1>2 DEF Suffix
  <1>5. PICK e : e = SubSeq(s, i, Len(s))  OBVIOUS
  <1>6. /\ Increasing(s) => Increasing(e)
        /\ AtMost(s, n) => AtMost(e, n)
        /\ SubSeq(Numbers(s), i, Len(s)) = Numbers(e)
    BY <1>5, EndOf
  <1> QED  BY <1>1, <1>2, <1>3, <1>4, <1>5, <1>6 DEF Fit

\* The numbers of the commands of a batch that are new.
LEMMA AcceptedFields ==
  ASSUME last \in Nat, NEW lo \in 1..MaxCmd, NEW hi \in 1..MaxCmd
  PROVE  /\ Accepted(lo, hi) \in Seq(1..MaxCmd)
         /\ \A i \in DOMAIN Accepted(lo, hi) : Accepted(lo, hi)[i] > last /\ Accepted(lo, hi)[i] <= hi
         /\ \A i, j \in DOMAIN Accepted(lo, hi) : i < j => Accepted(lo, hi)[i] < Accepted(lo, hi)[j]
         /\ hi <= last => Accepted(lo, hi) = <<>>
  <1>1. PICK first : first = IF lo > last THEN lo ELSE last + 1  OBVIOUS
  <1>2. first \in Nat /\ first > last /\ first >= 1 /\ MaxCmd \in Nat  BY <1>1, RecorderAssumption
  <1>3. PICK s : s = [i \in 1..(hi - first + 1) |-> first + i - 1]  OBVIOUS
  <1>4. s = Accepted(lo, hi)  BY <1>1, <1>3 DEF Accepted
  <1>5. DOMAIN s = 1..(hi - first + 1) /\ \A i \in DOMAIN s : s[i] = first + i - 1  BY <1>3
  <1>6. \A i \in DOMAIN s : s[i] \in 1..MaxCmd /\ s[i] > last /\ s[i] <= hi  BY <1>2, <1>5
  <1>7. \A i, j \in DOMAIN s : i < j => s[i] < s[j]  BY <1>2, <1>5
  <1>8. s \in Seq(1..MaxCmd)
    <2>1. CASE hi - first + 1 < 0
      <3>1. 1..(hi - first + 1) = 1..0  BY <1>2, <2>1
      <3>2. s \in [1..0 -> 1..MaxCmd]  BY <1>3, <3>1
      <3> QED  BY <3>2
    <2>2. CASE hi - first + 1 >= 0
      <3>1. PICK m, D : m \in Nat /\ m = hi - first + 1 /\ D = 1..MaxCmd  BY <1>2, <2>2
      <3>2. s \in [1..m -> D]  BY <1>3, <1>5, <1>6, <3>1
      <3>3. s \in Seq(D)  BY <3>1, <3>2, FunctionIsSeq
      <3> QED  BY <3>1, <3>3
    <2> QED  BY <1>2, <2>1, <2>2
  <1>9. hi <= last => s = <<>>
    <2> SUFFICES ASSUME hi <= last PROVE s = <<>>  OBVIOUS
    <2>1. 1..(hi - first + 1) = {}  BY <1>2
    <2>2. DOMAIN s = 1..Len(s) /\ Len(s) \in Nat  BY <1>8
    <2>3. Len(s) = 0
      <3>1. ~(1 \in DOMAIN s)  BY <1>5, <2>1
      <3> QED  BY <2>2, <3>1
    <2> QED  BY <1>8, <2>3, EmptySeq
  <1> QED  BY <1>4, <1>6, <1>7, <1>8, <1>9

\* New commands after the old ones.
LEMMA CommandsAdded ==
  ASSUME NEW s \in Seq(Cmds), NEW new \in Seq(Cmds), NEW m \in Nat, NEW n \in Nat, m <= n,
         Increasing(s), AtMost(s, m), Increasing(new), AtMost(new, n), \A i \in DOMAIN new : new[i].n > m
  PROVE  s \o new \in Seq(Cmds) /\ Increasing(s \o new) /\ AtMost(s \o new, n)
  <1>1. PICK q : q = s \o new  OBVIOUS
  <1>2. /\ q \in Seq(Cmds) /\ Len(q) = Len(s) + Len(new) /\ Len(s) \in Nat /\ Len(new) \in Nat
        /\ \A i \in 1..Len(s) + Len(new) : q[i] = IF i <= Len(s) THEN s[i] ELSE new[i - Len(s)]
    <2>1. Len(s) \in Nat /\ Len(new) \in Nat  OBVIOUS
    <2> QED  BY <1>1, <2>1, ConcatProperties
  <1>3. DOMAIN q = 1..Len(q) /\ DOMAIN s = 1..Len(s) /\ DOMAIN new = 1..Len(new)  BY <1>2
  <1>4. \A i \in DOMAIN q : \/ i \in DOMAIN s /\ q[i] = s[i] /\ i <= Len(s)
                            \/ i - Len(s) \in DOMAIN new /\ q[i] = new[i - Len(s)] /\ i > Len(s)
    BY <1>2, <1>3
  <1>5. \A c \in Cmds : c.n \in Nat  BY DEF Cmds
  <1>6. (\A i \in DOMAIN s : s[i].n \in Nat) /\ (\A i \in DOMAIN new : new[i].n \in Nat)
    <2>1. (\A i \in DOMAIN s : s[i] \in Cmds) /\ (\A i \in DOMAIN new : new[i] \in Cmds)
      BY <1>3, ElementOfSeq
    <2> QED  BY <1>5, <2>1
  <1>7. ASSUME NEW i \in DOMAIN q, NEW j \in DOMAIN q, i < j PROVE q[i].n < q[j].n
    <2>1. CASE j <= Len(s)
      <3>1. i \in DOMAIN s /\ j \in DOMAIN s /\ q[i] = s[i] /\ q[j] = s[j]  BY <1>2, <1>3, <1>4, <1>7, <2>1
      <3> QED  BY <1>7, <3>1 DEF Increasing
    <2>2. CASE j > Len(s) /\ i <= Len(s)
      <3>1. q[i] = s[i] /\ i \in DOMAIN s /\ q[j] = new[j - Len(s)] /\ j - Len(s) \in DOMAIN new
        BY <1>2, <1>3, <1>4, <2>2
      <3>2. s[i].n <= m /\ new[j - Len(s)].n > m  BY <3>1 DEF AtMost
      <3> QED  BY <1>6, <3>1, <3>2
    <2>3. CASE i > Len(s)
      <3>1. /\ q[i] = new[i - Len(s)] /\ i - Len(s) \in DOMAIN new
            /\ q[j] = new[j - Len(s)] /\ j - Len(s) \in DOMAIN new /\ i - Len(s) < j - Len(s)
        BY <1>2, <1>3, <1>4, <1>7, <2>3
      <3> QED  BY <3>1 DEF Increasing
    <2> QED  BY <1>2, <1>3, <2>1, <2>2, <2>3
  <1>8. ASSUME NEW i \in DOMAIN q PROVE q[i].n <= n
    <2>1. CASE i \in DOMAIN s /\ q[i] = s[i]
      <3>1. s[i].n <= m /\ s[i].n \in Nat  BY <1>6, <2>1 DEF AtMost
      <3> QED  BY <2>1, <3>1
    <2>2. CASE i - Len(s) \in DOMAIN new /\ q[i] = new[i - Len(s)]  BY <2>2 DEF AtMost
    <2> QED  BY <1>4, <2>1, <2>2
  <1> QED  BY <1>1, <1>2, <1>7, <1>8 DEF Increasing, AtMost

\* What a recorder starts with, if the ring is as it should be.
LEMMA CopyRingFits ==
  ASSUME ring \in Data, NEW n \in Nat, NEW k \in Nat, Fit(ring.cmds, ring.csubs, n)
  PROVE  CopyRing(k) \in Data /\ Fit(CopyRing(k).cmds, CopyRing(k).csubs, n)
  <1>1. PICK ticks : ticks = Suffix(ring.ticks, k)  OBVIOUS
  <1>2. PICK first : first = CmdsBefore(ticks[1].n)  OBVIOUS
  <1>3. PICK d : d = [ticks |-> ticks, subs |-> Suffix(ring.subs, k),
                      cmds  |-> SubSeq(ring.cmds, first + 1, Len(ring.cmds)),
                      csubs |-> SubSeq(ring.csubs, first + 1, Len(ring.csubs))]
    OBVIOUS
  <1>4. CopyRing(k) = IF ticks = <<>> THEN Nothing ELSE d
    BY <1>1, <1>2, <1>3 DEF CopyRing
  <1>5. /\ ring.ticks \in Seq(Ticks) /\ ring.subs \in Seq(0..Garbage)
        /\ ring.cmds \in Seq(Cmds) /\ ring.csubs \in Seq(1..MaxCmd)
    BY DEF Data
  <1>6. ticks \in Seq(Ticks) /\ Suffix(ring.subs, k) \in Seq(0..Garbage)
    <2>1. Suffix(ring.ticks, k) \in Seq(Ticks)  BY <1>5, SuffixIsEnd
    <2>2. Suffix(ring.subs, k) \in Seq(0..Garbage)  BY <1>5, SuffixIsEnd
    <2> QED  BY <1>1, <2>1, <2>2
  <1>7. first \in 0..Len(ring.cmds)
    <2> DEFINE before == {i \in DOMAIN ring.cmds : ring.cmds[i].tick < ticks[1].n}
    <2>1. DOMAIN ring.cmds = 1..Len(ring.cmds) /\ Len(ring.cmds) \in Nat  BY <1>5
    <2>2. PICK l \in Nat : l = Len(ring.cmds)  BY <2>1
    <2>3. IsFiniteSet(1..l) /\ Cardinality(1..l) = l  BY FS_Interval
    <2>4. before \subseteq 1..l  BY <2>1, <2>2
    <2>5. Cardinality(before) \in Nat /\ Cardinality(before) <= l
      <3> HIDE DEF before
      <3>1. IsFiniteSet(before) /\ Cardinality(before) <= Cardinality(1..l)  BY <2>3, <2>4, FS_Subset
      <3> QED  BY <2>3, <3>1, FS_CardinalityType
    <2> QED  BY <1>2, <2>2, <2>5 DEF CmdsBefore
  <1>8. PICK j \in 1..Len(ring.cmds) + 1 : j = first + 1  BY <1>5, <1>7
  <1>9. PICK e : e = SubSeq(ring.cmds, j, Len(ring.cmds))  OBVIOUS
  <1>10. /\ e \in Seq(Cmds) /\ (Increasing(ring.cmds) => Increasing(e))
         /\ AtMost(ring.cmds, n) => AtMost(e, n)
         /\ SubSeq(Numbers(ring.cmds), j, Len(ring.cmds)) = Numbers(e)
    BY <1>5, <1>9, EndOf
  <1>11. Len(ring.csubs) = Len(ring.cmds) /\ ring.csubs = Numbers(ring.cmds)
    BY <1>5, NumbersType DEF Fit
  <1>12. d.cmds = e /\ d.csubs = Numbers(e)  BY <1>3, <1>8, <1>9, <1>10, <1>11
  <1>13. Fit(d.cmds, d.csubs, n)  BY <1>10, <1>12 DEF Fit
  <1>14. d \in Data
    <2>1. Numbers(e) \in Seq(1..MaxCmd)  BY <1>10, NumbersType
    <2>2. PICK b, x, y : /\ b = Suffix(ring.subs, k) /\ x = SubSeq(ring.cmds, first + 1, Len(ring.cmds))
                         /\ y = SubSeq(ring.csubs, first + 1, Len(ring.csubs))
      OBVIOUS
    <2>3. d = [ticks |-> ticks, subs |-> b, cmds |-> x, csubs |-> y]  BY <1>3, <2>2
    <2>4. x = e /\ y = Numbers(e)  BY <1>12, <2>3
    <2> QED  BY <1>6, <1>10, <2>1, <2>2, <2>3, <2>4 DEF Data
  <1>15. Fit(Nothing.cmds, Nothing.csubs, n)
    BY NothingFields DEF Fit, Increasing, AtMost, Numbers
  <1> QED  BY <1>4, <1>13, <1>14, <1>15, NothingFields

------------------------------------------------------------------------------
(* A recorder: what was pushed to it, its data and its chunks. *)

TickParts(C) == {<<c.i, c.data.ticks>> : c \in C}
CmdParts(C)  == {<<c.i, c.data.cmds>> : c \in C}

Holds(all, n, d, C) ==
  /\ Divided(all.ticks, n, d.ticks, TickParts(C)) /\ Divided(all.cmds, n, d.cmds, CmdParts(C))
  /\ Increasing(all.cmds)
  /\ d.csubs = Numbers(d.cmds) /\ \A c \in C : c.data.csubs = Numbers(c.data.cmds)

LEMMA HoldsCopy ==
  ASSUME NEW d \in Data, Increasing(d.cmds), d.csubs = Numbers(d.cmds) PROVE Holds(d, 0, d, {})
  <1>1. TickParts({}) = {} /\ CmdParts({}) = {}  BY DEF TickParts, CmdParts
  <1>2. d.ticks \in Seq(Ticks) /\ d.cmds \in Seq(Cmds)  BY DEF Data
  <1>3. Divided(d.ticks, 0, d.ticks, {}) /\ Divided(d.cmds, 0, d.cmds, {})  BY <1>2, DividedWhole
  <1> QED  BY <1>1, <1>3 DEF Holds

LEMMA HoldsFewer ==
  ASSUME NEW all, NEW n, NEW d, NEW C, NEW D, D \subseteq C, Holds(all, n, d, C) PROVE Holds(all, n, d, D)
  <1>1. TickParts(D) \subseteq TickParts(C) /\ CmdParts(D) \subseteq CmdParts(C)  BY DEF TickParts, CmdParts
  <1>2. Divided(all.ticks, n, d.ticks, TickParts(D))  BY <1>1, DividedFewer DEF Holds
  <1>3. Divided(all.cmds, n, d.cmds, CmdParts(D))  BY <1>1, DividedFewer DEF Holds
  <1> QED  BY <1>2, <1>3 DEF Holds

LEMMA HoldsNone ==
  ASSUME NEW all, NEW d, NEW C, Holds(all, 0, d, C) PROVE C = {}
  <1>1. TickParts(C) = {}  BY DividedNone DEF Holds
  <1> QED  BY <1>1 DEF TickParts

\* Subtick moves are pushed.
LEMMA HoldsSubs ==
  ASSUME NEW all \in Data, NEW n, NEW d \in Data, NEW C, NEW k \in 0..Garbage, Holds(all, n, d, C)
  PROVE  Holds(PushSubs(all, k), n, PushSubs(d, k), C)
  BY PushSubsFields DEF Holds

\* A tick is pushed.
LEMMA HoldsTick ==
  ASSUME NEW all \in Data, NEW n \in Nat, NEW d \in Data, NEW C, NEW tick \in Ticks, Holds(all, n, d, C)
  PROVE  Holds(PushTick(all, tick), n, PushTick(d, tick), C)
  <1>1. PICK x : x = <<tick>>  OBVIOUS
  <1>2. x \in Seq(Ticks) /\ all.ticks \in Seq(Ticks)  BY <1>1 DEF Data
  <1>3. Divided(all.ticks \o x, n, d.ticks \o x, TickParts(C))  BY <1>2, DividedMore DEF Holds
  <1> QED  BY <1>1, <1>3, PushTickFields DEF Holds

\* Commands are pushed.
LEMMA HoldsCmds ==
  ASSUME NEW all \in Data, NEW n \in Nat, NEW d \in Data, NEW C,
         NEW new \in Seq(Cmds), NEW nums \in Seq(1..MaxCmd),
         Holds(all, n, d, C), nums = Numbers(new), Increasing(all.cmds \o new)
  PROVE  Holds(PushCmds(all, new, nums), n, PushCmds(d, new, nums), C)
  <1>1. all.cmds \in Seq(Cmds) /\ d.cmds \in Seq(Cmds)  BY DEF Data
  <1>2. Divided(all.cmds \o new, n, d.cmds \o new, CmdParts(C))  BY <1>1, DividedMore DEF Holds
  <1>3. d.csubs \o nums = Numbers(d.cmds \o new)  BY <1>1, NumbersAdded DEF Holds
  <1> QED  BY ZenonT(60), <1>2, <1>3, PushCmdsFields DEF Holds

\* A chunk is flushed.
LEMMA HoldsFlush ==
  ASSUME NEW all \in Data, NEW n \in Nat, NEW d \in Data, NEW C, NEW D, Holds(all, n, d, C),
         \A c \in D : c \in C \/ (c.i = n /\ c.data = ChunkOf(d))
  PROVE  Holds(all, n + 1, Nothing, D)
  <1>1. all.ticks \in Seq(Ticks) /\ all.cmds \in Seq(Cmds)  BY DEF Data
  <1>2. \A p \in TickParts(D) : p \in TickParts(C) \/ p = <<n, d.ticks>>
    BY ChunkOfFields DEF TickParts
  <1>3. \A p \in CmdParts(D) : p \in CmdParts(C) \/ p = <<n, d.cmds>>
    BY ChunkOfFields DEF CmdParts
  <1>4. Divided(all.ticks, n + 1, <<>>, TickParts(D))  BY <1>1, <1>2, DividedAgain DEF Holds
  <1>5. Divided(all.cmds, n + 1, <<>>, CmdParts(D))  BY <1>1, <1>3, DividedAgain DEF Holds
  <1>6. Nothing.csubs = Numbers(Nothing.cmds)  BY NothingFields DEF Numbers
  <1>7. \A c \in D : c.data.csubs = Numbers(c.data.cmds)  BY ChunkOfFields DEF Holds
  <1> QED  BY <1>4, <1>5, <1>6, <1>7, NothingFields DEF Holds

\* What the thread reads back.
LEMMA HoldsLoaded ==
  ASSUME NEW r \in Recorders, mem[r] \in Data, want[r] \in Data, chunks[r] \in Nat, disk \subseteq Chunk,
         NEW C, \A c \in disk : c.of = r => c \in C, Holds(want[r], chunks[r], mem[r], C)
  PROVE  /\ Loaded(r) \in Data /\ Increasing(Loaded(r).cmds) /\ Loaded(r).csubs = Numbers(Loaded(r).cmds)
         /\ OnDisk(r) => Loaded(r).ticks = want[r].ticks /\ Loaded(r).cmds = want[r].cmds
  <1> DEFINE found(i) == {c \in disk : c.of = r /\ c.i = i}
             data(i) == IF found(i) = {} THEN Nothing ELSE (CHOOSE c \in found(i) : TRUE).data
             part(i) == IF i <= chunks[r] THEN data(i - 1) ELSE mem[r]
  <1>1. PICK n \in Nat : n = chunks[r]  OBVIOUS
  <1>2. ASSUME NEW i \in 1..n
        PROVE  \/ part(i) = Nothing /\ found(i - 1) = {}
               \/ \E c \in C : c \in disk /\ c.i = i - 1 /\ c.data = part(i)
    <2>1. part(i) = data(i - 1)  BY <1>1
    <2>2. CASE found(i - 1) = {}  BY <2>1, <2>2
    <2>3. CASE found(i - 1) # {}
      <3>1. PICK c : c = CHOOSE x \in found(i - 1) : TRUE  OBVIOUS
      <3>2. c \in found(i - 1)  BY <2>3, <3>1
      <3>3. part(i) = c.data  BY <2>1, <2>3, <3>1
      <3> QED  BY <3>2, <3>3
    <2> QED  BY <2>2, <2>3
  <1>3. part(n + 1) = mem[r]  BY <1>1
  <1>4. \A c \in disk : c.data \in Data  BY DEF Chunk
  <1>5. OnDisk(r) => \A i \in 1..n : found(i - 1) # {}  BY <1>1 DEF OnDisk
  <1>6. Loaded(r) = [ticks |-> FlattenSeq([i \in 1..chunks[r] + 1 |-> part(i).ticks]),
                     subs  |-> FlattenSeq([i \in 1..chunks[r] + 1 |-> part(i).subs]),
                     cmds  |-> FlattenSeq([i \in 1..chunks[r] + 1 |-> part(i).cmds]),
                     csubs |-> FlattenSeq([i \in 1..chunks[r] + 1 |-> part(i).csubs])]
    BY DEF Loaded
  <1>7. PICK a, b, x, y : /\ a = [i \in 1..n + 1 |-> part(i).ticks] /\ b = [i \in 1..n + 1 |-> part(i).subs]
                          /\ x = [i \in 1..n + 1 |-> part(i).cmds] /\ y = [i \in 1..n + 1 |-> part(i).csubs]
    OBVIOUS
  <1>8. Loaded(r) = [ticks |-> FlattenSeq(a), subs |-> FlattenSeq(b),
                     cmds |-> FlattenSeq(x), csubs |-> FlattenSeq(y)]
    BY <1>1, <1>6, <1>7
  <1> DEFINE Missing(i) == part(i) = Nothing /\ found(i - 1) = {}
             Read(i) == \E c \in C : c \in disk /\ c.i = i - 1 /\ c.data = part(i)
  <1>9. (\A i \in 1..n : Missing(i) \/ Read(i)) /\ (OnDisk(r) => \A i \in 1..n : Read(i))
    BY <1>2, <1>5
  <1>10. \A i \in 1..n + 1 : i \in 1..n \/ i = n + 1  OBVIOUS
  <1>11. \A i \in 1..n + 1 : part(i) \in Data
    <2>1. \A i \in 1..n : part(i) \in Data  BY <1>4, <1>9, NothingFields
    <2> QED  BY <1>3, <1>10, <2>1
  <1> HIDE DEF part, Missing, Read
  <1>12. \A i \in 1..n + 1 : /\ a[i] = part(i).ticks /\ b[i] = part(i).subs
                             /\ x[i] = part(i).cmds /\ y[i] = part(i).csubs
    BY <1>7
  <1>13. /\ a \in [1..n + 1 -> Seq(Ticks)] /\ b \in [1..n + 1 -> Seq(0..Garbage)]
         /\ x \in [1..n + 1 -> Seq(Cmds)] /\ y \in [1..n + 1 -> Seq(1..MaxCmd)]
    <2>1. \A i \in 1..n + 1 : /\ part(i).ticks \in Seq(Ticks) /\ part(i).subs \in Seq(0..Garbage)
                              /\ part(i).cmds \in Seq(Cmds) /\ part(i).csubs \in Seq(1..MaxCmd)
      BY <1>11 DEF Data
    <2> QED  BY <1>7, <2>1
  <1>14. want[r].ticks \in Seq(Ticks) /\ want[r].cmds \in Seq(Cmds)  BY DEF Data
  <1>15. n + 1 \in 1..n + 1 /\ \A i \in 1..n : i \in 1..n + 1  OBVIOUS
  <1>16. /\ FlattenSeq(a) \in Seq(Ticks)
         /\ (\A i \in 1..n : Read(i)) => FlattenSeq(a) = want[r].ticks
    <2>1. a[n + 1] = mem[r].ticks  BY <1>3, <1>12, <1>15
    <2>2. \A i \in 1..n : /\ Read(i) => <<i - 1, a[i]>> \in TickParts(C)
                          /\ Missing(i) => a[i] = <<>>
      BY <1>12, <1>15, NothingFields DEF TickParts, Missing, Read
    <2>3. \A i \in 1..n : a[i] = <<>> \/ <<i - 1, a[i]>> \in TickParts(C)  BY <1>9, <2>2
    <2>4. Divided(want[r].ticks, n, mem[r].ticks, TickParts(C))  BY <1>1 DEF Holds
    <2>5. /\ FlattenSeq(a) \in Seq(Ticks) /\ Thinned(FlattenSeq(a), want[r].ticks, Len(want[r].ticks))
          /\ (\A i \in 1..n : <<i - 1, a[i]>> \in TickParts(C)) => FlattenSeq(a) = want[r].ticks
      <3>1. PICK whole \in Seq(Ticks), s \in [1..n + 1 -> Seq(Ticks)] : whole = want[r].ticks /\ s = a
        BY <1>13, <1>14
      <3>2. PICK rest, P : rest = mem[r].ticks /\ P = TickParts(C)  OBVIOUS
      <3>3. Divided(whole, n, rest, P) /\ Pieces(s, n, rest, P)
        BY <2>1, <2>3, <2>4, <3>1, <3>2 DEF Pieces
      <3>4. Joins(FlattenSeq(s), s, n, P, whole, Ticks)  BY <3>3, DividedJoined
      <3> QED  BY <3>1, <3>2, <3>4 DEF Joins
    <2> QED  BY <2>2, <2>5
  <1>17. /\ FlattenSeq(x) \in Seq(Cmds) /\ Increasing(FlattenSeq(x))
         /\ (\A i \in 1..n : Read(i)) => FlattenSeq(x) = want[r].cmds
    <2>1. x[n + 1] = mem[r].cmds  BY <1>3, <1>12, <1>15
    <2>2. \A i \in 1..n : /\ Read(i) => <<i - 1, x[i]>> \in CmdParts(C)
                          /\ Missing(i) => x[i] = <<>>
      BY <1>12, <1>15, NothingFields DEF CmdParts, Missing, Read
    <2>3. \A i \in 1..n : x[i] = <<>> \/ <<i - 1, x[i]>> \in CmdParts(C)  BY <1>9, <2>2
    <2>4. Divided(want[r].cmds, n, mem[r].cmds, CmdParts(C))  BY <1>1 DEF Holds
    <2>5. /\ FlattenSeq(x) \in Seq(Cmds) /\ Thinned(FlattenSeq(x), want[r].cmds, Len(want[r].cmds))
          /\ (\A i \in 1..n : <<i - 1, x[i]>> \in CmdParts(C)) => FlattenSeq(x) = want[r].cmds
      <3>1. PICK whole \in Seq(Cmds), s \in [1..n + 1 -> Seq(Cmds)] : whole = want[r].cmds /\ s = x
        BY <1>13, <1>14
      <3>2. PICK rest, P : rest = mem[r].cmds /\ P = CmdParts(C)  OBVIOUS
      <3>3. Divided(whole, n, rest, P) /\ Pieces(s, n, rest, P)
        BY <2>1, <2>3, <2>4, <3>1, <3>2 DEF Pieces
      <3>4. Joins(FlattenSeq(s), s, n, P, whole, Cmds)  BY <3>3, DividedJoined
      <3> QED  BY <3>1, <3>2, <3>4 DEF Joins
    <2>6. Increasing(FlattenSeq(x))  BY <1>14, <2>5, ThinnedIncreasing DEF Holds
    <2> QED  BY <2>2, <2>5, <2>6
  <1>18. FlattenSeq(y) = Numbers(FlattenSeq(x)) /\ FlattenSeq(y) \in Seq(1..MaxCmd)
    <2>1. \A i \in 1..n + 1 : y[i] = Numbers(x[i])
      <3>1. \A i \in 1..n : Missing(i) => part(i).csubs = Numbers(part(i).cmds)
        BY NothingFields DEF Numbers, Missing
      <3>2. \A i \in 1..n : Read(i) => part(i).csubs = Numbers(part(i).cmds)  BY DEF Holds, Read
      <3>3. part(n + 1).csubs = Numbers(part(n + 1).cmds)  BY <1>3 DEF Holds
      <3> QED  BY <1>9, <1>10, <1>12, <3>1, <3>2, <3>3
    <2>2. PICK m \in Nat \ {0} : m = n + 1  OBVIOUS
    <2> QED  BY <1>13, <2>1, <2>2, NumbersJoined
  <1>19. FlattenSeq(b) \in Seq(0..Garbage)
    <2>1. PICK m \in Nat \ {0} : m = n + 1  OBVIOUS
    <2>2. PICK f : Sums(f, FlattenSeq(b), b, m, 0..Garbage)  BY <1>13, <2>1, FlattenSteps
    <2> QED  BY <2>1, <2>2 DEF Sums
  <1>20. Loaded(r) \in Data
    <2>1. PICK e, f, g, h : e = FlattenSeq(a) /\ f = FlattenSeq(b) /\ g = FlattenSeq(x) /\ h = FlattenSeq(y)
      OBVIOUS
    <2>2. Loaded(r) = [ticks |-> e, subs |-> f, cmds |-> g, csubs |-> h]  BY <1>8, <2>1
    <2>3. e \in Seq(Ticks) /\ f \in Seq(0..Garbage) /\ g \in Seq(Cmds) /\ h \in Seq(1..MaxCmd)
      BY <1>16, <1>17, <1>18, <1>19, <2>1
    <2> QED  BY <2>2, <2>3 DEF Data
  <1> QED  BY <1>8, <1>9, <1>16, <1>17, <1>18, <1>20

------------------------------------------------------------------------------
(* The invariant, and what keeps it for one recorder. *)

DiskOf(r)    == {c \in disk : c.of = r}
PendingOf(r) == {c \in ToSet(pending) : c.of = r}
Chunks(r)    == DiskOf(r) \cup PendingOf(r)

\* What the thread put together.
Restored(r) ==
  /\ PendingOf(r) = {}
  /\ Increasing(replay[r].cmds) /\ replay[r].csubs = Numbers(replay[r].cmds)
  /\ OnDisk(r) => replay[r].ticks = want[r].ticks /\ replay[r].cmds = want[r].cmds

Kept(r) ==
  /\ Holds(want[r], chunks[r], mem[r], Chunks(r))
  /\ state[r] \in {"none", "gone"} => chunks[r] = 0
  /\ r \in Active => AtMost(want[r].cmds, last)
  /\ Written(r) => Restored(r)

RecorderInv ==
  /\ TypeOK
  /\ Fit(ring.cmds, ring.csubs, last)
  /\ \A r \in Recorders : Kept(r)

Same(r) == /\ state'[r] = state[r] /\ chunks'[r] = chunks[r] /\ want'[r] = want[r]
           /\ mem'[r] = mem[r] /\ replay'[r] = replay[r]
SameChunks(r) == DiskOf(r)' = DiskOf(r) /\ PendingOf(r)' = PendingOf(r)

LEMMA OnDiskOf == ASSUME NEW r PROVE OnDisk(r) <=> \A i \in 1..chunks[r] : \E c \in DiskOf(r) : c.i = i - 1
  BY DEF OnDisk, DiskOf

\* A recorder that a step does not touch.
LEMMA KeptSame ==
  ASSUME NEW r \in Recorders, Kept(r), Same(r), SameChunks(r),
         r \in Active' => (AtMost(want[r].cmds, last) => AtMost(want[r].cmds, last'))
  PROVE  Kept(r)'
  <1>1. Holds(want[r], chunks[r], mem[r], Chunks(r))'  BY DEF Kept, Same, SameChunks, Chunks
  <1>2. (r \in Active)' <=> r \in Active  BY DEF Active, Same
  <1>3. OnDisk(r)' <=> OnDisk(r)
    <2>1. OnDisk(r)' <=> \A i \in 1..chunks'[r] : \E c \in DiskOf(r)' : c.i = i - 1  BY DEF OnDisk, DiskOf
    <2> QED  BY <2>1, OnDiskOf DEF Same, SameChunks
  <1>4. Restored(r) => Restored(r)'  BY <1>3 DEF Restored, Same, SameChunks
  <1>5. Written(r)' <=> Written(r)  BY DEF Written, Same
  <1> QED  BY <1>1, <1>2, <1>4, <1>5 DEF Kept, Same

\* A recorder that is in use, and one that is gone.
LEMMA KeptInUse ==
  ASSUME NEW r \in Recorders, state'[r] \in {"recording", "breather", "writing"},
         Holds(want'[r], chunks'[r], mem'[r], Chunks(r)'), r \in Active' => AtMost(want'[r].cmds, last')
  PROVE  Kept(r)'
  BY DEF Kept, Written

LEMMA KeptGone ==
  ASSUME NEW r \in Recorders, state'[r] \in {"none", "gone"}, chunks'[r] = 0,
         mem'[r] = Nothing, want'[r] = Nothing,
         Chunks(r)' = {}
  PROVE  Kept(r)'
  <1>1. Increasing(Nothing.cmds) /\ Nothing.csubs = Numbers(Nothing.cmds)
    BY NothingFields DEF Increasing, Numbers
  <1>2. Holds(Nothing, 0, Nothing, {})  BY <1>1, NothingFields, HoldsCopy
  <1>3. ~(r \in Active)' /\ ~Written(r)'  BY DEF Active, Written
  <1> QED  BY <1>2, <1>3 DEF Kept

\* What destroying recorders leaves.
Destroyed(R) ==
  /\ disk' \subseteq Chunk /\ mem' \in [Recorders -> Data] /\ want' \in [Recorders -> Data]
  /\ chunks' \in [Recorders -> Nat]
  /\ \A r \in R : mem'[r] = Nothing /\ want'[r] = Nothing /\ chunks'[r] = 0 /\ Chunks(r)' = {}
  /\ \A r \in Recorders \ R :
       mem'[r] = mem[r] /\ want'[r] = want[r] /\ chunks'[r] = chunks[r] /\ SameChunks(r)

LEMMA DestroysWell ==
  ASSUME RecorderInv, NEW R, R \subseteq Recorders, Destroys(R), pending' = pending PROVE Destroyed(R)
  <1>1. disk \subseteq Chunk /\ mem \in [Recorders -> Data] /\ want \in [Recorders -> Data]
        /\ chunks \in [Recorders -> Nat]
    BY DEF RecorderInv, TypeOK
  <1>2. disk' = {c \in disk : c.of \notin R}  BY DEF Destroys
  <1>3. /\ disk' \subseteq Chunk /\ mem' \in [Recorders -> Data] /\ want' \in [Recorders -> Data]
        /\ chunks' \in [Recorders -> Nat]
    BY <1>1, <1>2, NothingFields DEF Destroys
  <1>4. ASSUME NEW r \in R
        PROVE  mem'[r] = Nothing /\ want'[r] = Nothing /\ chunks'[r] = 0 /\ Chunks(r)' = {}
    <2>1. mem'[r] = Nothing /\ want'[r] = Nothing /\ chunks'[r] = 0  BY DEF Destroys
    <2>2. DiskOf(r)' = {}  BY <1>2 DEF DiskOf
    <2>3. PendingOf(r)' = {}
      <3>1. CASE chunks[r] > 0
        <4>1. pending = <<>>  BY <3>1 DEF Destroys
        <4>2. ToSet(pending') = {}  BY <4>1 DEF ToSet
        <4> QED  BY <4>2 DEF PendingOf
      <3>2. CASE ~(chunks[r] > 0)
        <4>1. chunks[r] = 0  BY <1>1, <3>2
        <4>2. Chunks(r) = {}  BY <4>1, HoldsNone DEF RecorderInv, Kept
        <4> QED  BY <4>2 DEF Chunks, PendingOf
      <3> QED  BY <3>1, <3>2
    <2> QED  BY <2>1, <2>2, <2>3 DEF Chunks
  <1>5. ASSUME NEW r \in Recorders \ R
        PROVE  mem'[r] = mem[r] /\ want'[r] = want[r] /\ chunks'[r] = chunks[r] /\ SameChunks(r)
    <2>1. mem'[r] = mem[r] /\ want'[r] = want[r] /\ chunks'[r] = chunks[r]  BY DEF Destroys
    <2>2. DiskOf(r)' = DiskOf(r)  BY <1>2 DEF DiskOf
    <2>3. PendingOf(r)' = PendingOf(r)  BY DEF PendingOf
    <2> QED  BY <2>1, <2>2, <2>3 DEF SameChunks
  <1> QED  BY <1>3, <1>4, <1>5 DEF Destroyed

------------------------------------------------------------------------------
(* Every step keeps the invariant. *)

LEMMA WeaponsOf == ASSUME NEW s \in Seq(Ticks) PROVE {t.weapon : t \in ToSet(s)} \subseteq Weapons
  <1>1. \A i \in DOMAIN s : s[i] \in Ticks  OBVIOUS
  <1> QED  BY <1>1 DEF ToSet, Ticks

LEMMA TablesType ==
  ASSUME RecorderInv, NEW R, CopyWeapons(R) PROVE table' \in [Recorders -> SUBSET Weapons]
  <1>1. table \in [Recorders -> SUBSET Weapons] /\ mem \in [Recorders -> Data]  BY DEF RecorderInv, TypeOK
  <1> DEFINE used(q) == {t.weapon : t \in ToSet(mem[q].ticks)}
  <1>2. \A q \in Recorders : used(q) \subseteq Weapons
    <2>1. \A q \in Recorders : mem[q].ticks \in Seq(Ticks)  BY <1>1 DEF Data
    <2> QED  BY <2>1, WeaponsOf
  <1>3. table' = [q \in Recorders |-> IF q \in R THEN used(q) ELSE table[q]]  BY DEF CopyWeapons
  <1> HIDE DEF used
  <1> QED  BY <1>1, <1>2, <1>3

LEMMA InitKeeps == ASSUME Init PROVE RecorderInv
  <1>1. TypeOK
    <2>1. <<>> \in Seq(Chunk) /\ {} \subseteq Chunk  OBVIOUS
    <2>2. /\ state \in [Recorders -> {"none", "recording", "breather", "writing", "written", "gone"}]
          /\ chunks \in [Recorders -> Nat] /\ table \in [Recorders -> SUBSET Weapons]
      BY DEF Init
    <2>3. stop \in [Recorders -> 0..MaxTick + Breather] /\ now \in 0..MaxTick /\ last \in 0..MaxCmd
      BY RecorderAssumption DEF Init
    <2>4. ring \in Data /\ here \in BOOLEAN /\ mem \in [Recorders -> Data]  BY NothingFields DEF Init
    <2>5. want \in [Recorders -> Data] /\ replay \in [Recorders -> Data]  BY <2>4 DEF Init
    <2>6. pending \in Seq(Chunk) /\ disk \subseteq Chunk  BY <2>1 DEF Init
    <2> QED  BY <2>2, <2>3, <2>4, <2>5, <2>6 DEF TypeOK
  <1>2. Fit(Nothing.cmds, Nothing.csubs, 0)  BY NothingFields DEF Fit, Increasing, AtMost, Numbers
  <1>3. ASSUME NEW r \in Recorders PROVE Kept(r)
    <2>1. Chunks(r) = {}
      <3>1. ToSet(pending) = {}  BY DEF Init, ToSet
      <3> QED  BY <3>1 DEF Init, Chunks, DiskOf, PendingOf
    <2>2. mem[r] = Nothing /\ want[r] = Nothing /\ chunks[r] = 0 /\ state[r] = "none"  BY DEF Init
    <2>3. Holds(Nothing, 0, Nothing, {})  BY <1>2, NothingFields, HoldsCopy DEF Fit
    <2>4. r \notin Active /\ ~Written(r)  BY <2>2 DEF Active, Written
    <2> QED  BY <2>1, <2>2, <2>3, <2>4 DEF Kept
  <1>4. Fit(ring.cmds, ring.csubs, last)  BY <1>2 DEF Init
  <1> QED  BY <1>1, <1>3, <1>4 DEF RecorderInv

\* What the invariant says of the variables' types.
LEMMA Typed ==
  ASSUME RecorderInv
  PROVE  /\ now \in 0..MaxTick /\ last \in 0..MaxCmd /\ last \in Nat
         /\ ring \in Data /\ here \in BOOLEAN
         /\ state \in [Recorders -> {"none", "recording", "breather", "writing", "written", "gone"}]
         /\ mem \in [Recorders -> Data] /\ want \in [Recorders -> Data] /\ replay \in [Recorders -> Data]
         /\ chunks \in [Recorders -> Nat] /\ table \in [Recorders -> SUBSET Weapons]
         /\ stop \in [Recorders -> 0..MaxTick + Breather]
         /\ pending \in Seq(Chunk) /\ disk \subseteq Chunk
         /\ MaxTick \in Nat /\ MaxCmd \in Nat /\ Breather \in Nat
  <1>1. MaxTick \in Nat /\ MaxCmd \in Nat /\ Breather \in Nat  BY RecorderAssumption
  <1> QED  BY <1>1 DEF RecorderInv, TypeOK

LEMMA ChunksSame ==
  ASSUME pending' = pending, disk' = disk, NEW r PROVE SameChunks(r) /\ Chunks(r)' = Chunks(r)
  BY DEF SameChunks, Chunks, DiskOf, PendingOf

\* A recorder that is new starts with a copy of the ring.
LEMMA CopyKeeps ==
  ASSUME RecorderInv, NEW r \in Recorders, state[r] = "none", NEW k \in Nat, NEW s \in {"recording", "writing"},
         state' = [state EXCEPT ![r] = s], mem' = [mem EXCEPT ![r] = CopyRing(k)],
         want' = [want EXCEPT ![r] = CopyRing(k)], table' \in [Recorders -> SUBSET Weapons],
         UNCHANGED <<player, chunks, stop, pending, disk, replay>>
  PROVE  RecorderInv'
  <1>0. UNCHANGED <<now, last, ring, here>> /\ UNCHANGED <<chunks, stop, pending, disk, replay>>  BY DEF player
  <1>1. PICK d : d = CopyRing(k)  OBVIOUS
  <1>2. d \in Data /\ Fit(d.cmds, d.csubs, last)  BY <1>1, Typed, CopyRingFits DEF RecorderInv
  <1>3. TypeOK'  BY <1>0, <1>1, <1>2, Typed DEF TypeOK
  <1>4. Kept(r)'
    <2>1. chunks[r] = 0 /\ Chunks(r) = {}  BY HoldsNone DEF RecorderInv, Kept
    <2>2. state'[r] = s /\ mem'[r] = d /\ want'[r] = d /\ chunks'[r] = 0 /\ Chunks(r)' = {}
      BY <1>0, <1>1, <2>1, Typed, ChunksSame
    <2>3. Holds(d, 0, d, {})  BY <1>2, HoldsCopy DEF Fit
    <2> QED  BY <1>0, <1>2, <2>2, <2>3, KeptInUse DEF Fit
  <1>5. ASSUME NEW q \in Recorders, q # r PROVE Kept(q)'
    <2>1. Same(q) /\ SameChunks(q)  BY <1>0, <1>5, Typed, ChunksSame DEF Same
    <2> QED  BY <1>0, <2>1, KeptSame DEF RecorderInv
  <1> QED  BY <1>0, <1>3, <1>4, <1>5 DEF RecorderInv

LEMMA StartKeeps == ASSUME RecorderInv, NEW r \in Recorders, OnTimerStart(r) PROVE RecorderInv'
  <1>1. table' \in [Recorders -> SUBSET Weapons]  BY Typed DEF OnTimerStart
  <1>2. Copied \in Nat  BY RecorderAssumption
  <1>3. UNCHANGED <<player, chunks, stop, pending, disk, replay>>  BY DEF OnTimerStart
  <1> QED  BY <1>1, <1>2, <1>3, CopyKeeps DEF OnTimerStart

LEMMA SaveRingKeeps == ASSUME RecorderInv, NEW r \in Recorders, SaveRing(r) PROVE RecorderInv'
  <1>1. PICK used : used = {t.weapon : t \in ToSet(ring.ticks)}  OBVIOUS
  <1>2. used \subseteq Weapons
    <2>1. ring.ticks \in Seq(Ticks)  BY Typed DEF Data
    <2> QED  BY <1>1, <2>1, WeaponsOf
  <1>3. table' = [table EXCEPT ![r] = used]  BY <1>1 DEF SaveRing
  <1>4. table' \in [Recorders -> SUBSET Weapons]  BY <1>2, <1>3, Typed
  <1>5. RingTicks \in Nat  BY RecorderAssumption
  <1>6. UNCHANGED <<player, chunks, stop, pending, disk, replay>>  BY DEF SaveRing
  <1> QED  BY <1>4, <1>5, <1>6, CopyKeeps DEF SaveRing

LEMMA EndKeeps == ASSUME RecorderInv, NEW r \in Recorders, OnTimerEnd(r) PROVE RecorderInv'
  <1>0. /\ UNCHANGED <<now, last, ring, here>> /\ UNCHANGED <<mem, chunks, table, pending, disk, replay, want>>
        /\ state[r] = "recording" /\ state' = [state EXCEPT ![r] = "breather"]
        /\ stop' = [stop EXCEPT ![r] = now + Breather]
    BY DEF OnTimerEnd, player
  <1>1. TypeOK'  BY <1>0, Typed DEF TypeOK
  <1>2. Kept(r)'
    <2>1. r \in Active  BY <1>0 DEF Active
    <2>2. state'[r] = "breather" /\ Chunks(r)' = Chunks(r)  BY <1>0, Typed, ChunksSame
    <2>3. Holds(want[r], chunks[r], mem[r], Chunks(r)) /\ AtMost(want[r].cmds, last)
      BY <2>1 DEF RecorderInv, Kept
    <2> QED  BY <1>0, <2>2, <2>3, KeptInUse
  <1>3. ASSUME NEW q \in Recorders, q # r PROVE Kept(q)'
    <2>1. Same(q) /\ SameChunks(q)  BY <1>0, <1>3, Typed, ChunksSame DEF Same
    <2> QED  BY <1>0, <2>1, KeptSame DEF RecorderInv
  <1> QED  BY <1>0, <1>1, <1>2, <1>3 DEF RecorderInv

\* Recorders R are destroyed, E are handed to the thread and the others are left.
LEMMA DestroyingKeeps ==
  ASSUME RecorderInv, NEW R, NEW E, R \subseteq Recorders, Destroys(R), pending' = pending,
         E \subseteq Active, E \cap R = {},
         state' = [q \in Recorders |-> IF q \in E THEN "writing" ELSE IF q \in R THEN "gone" ELSE state[q]],
         TypeOK', Fit(ring'.cmds, ring'.csubs, last'),
         \A q \in Recorders \ (R \cup E) : q \in Active => last' = last,
         \A q \in Recorders \ R : replay'[q] = replay[q]
  PROVE  RecorderInv'
  <1>1. Destroyed(R)  BY DestroysWell
  <1>2. ASSUME NEW q \in R PROVE Kept(q)'
    <2>1. q \in Recorders /\ state'[q] = "gone"  BY <1>2
    <2>2. chunks'[q] = 0 /\ mem'[q] = Nothing /\ want'[q] = Nothing /\ Chunks(q)' = {}  BY <1>1 DEF Destroyed
    <2> QED  BY <2>1, <2>2, KeptGone
  <1>3. ASSUME NEW q \in E PROVE Kept(q)'
    <2>1. q \in Recorders /\ q \notin R /\ state'[q] = "writing"  BY <1>3 DEF Active
    <2>2. mem'[q] = mem[q] /\ want'[q] = want[q] /\ chunks'[q] = chunks[q] /\ Chunks(q)' = Chunks(q)
      BY <1>1, <2>1 DEF Destroyed, SameChunks, Chunks
    <2>3. Holds(want[q], chunks[q], mem[q], Chunks(q))  BY <2>1 DEF RecorderInv, Kept
    <2>4. ~(q \in Active)'  BY <2>1 DEF Active
    <2> QED  BY <2>1, <2>2, <2>3, <2>4, KeptInUse
  <1>4. ASSUME NEW q \in Recorders \ (R \cup E) PROVE Kept(q)'
    <2>1. Same(q) /\ SameChunks(q)  BY <1>1 DEF Destroyed, Same
    <2>2. (q \in Active)' <=> q \in Active  BY <2>1 DEF Active, Same
    <2>3. Kept(q)  BY DEF RecorderInv
    <2> QED  BY <2>1, <2>2, <2>3, KeptSame
  <1> QED  BY <1>2, <1>3, <1>4 DEF RecorderInv

LEMMA StopKeeps == ASSUME RecorderInv, NEW r \in Recorders, OnTimerStop(r) PROVE RecorderInv'
  <1>0. /\ UNCHANGED <<now, last, ring, here>> /\ UNCHANGED <<table, stop, pending, replay>>
        /\ state' = [state EXCEPT ![r] = "gone"] /\ Destroys({r})
    BY DEF OnTimerStop, player
  <1>1. PICK R : R = {r} /\ R \subseteq Recorders  OBVIOUS
  <1>2. Destroyed(R)  BY <1>0, <1>1, DestroysWell
  <1>3. state' \in [Recorders -> {"none", "recording", "breather", "writing", "written", "gone"}]
    BY <1>0, Typed
  <1>4. TypeOK'  BY <1>0, <1>2, <1>3, Typed DEF TypeOK, Destroyed
  <1>5. state' = [q \in Recorders |-> IF q \in {} THEN "writing" ELSE IF q \in R THEN "gone" ELSE state[q]]
    BY <1>0, <1>1, Typed
  <1>6. Fit(ring'.cmds, ring'.csubs, last')  BY <1>0 DEF RecorderInv
  <1>7. {} \subseteq Active /\ {} \cap R = {}  OBVIOUS
  <1> QED  BY <1>0, <1>1, <1>4, <1>5, <1>6, <1>7, DestroyingKeeps

LEMMA ReleaseKeeps == ASSUME RecorderInv, NEW r \in Recorders, Release(r) PROVE RecorderInv'
  <1>0. /\ UNCHANGED <<now, last, ring, here>> /\ UNCHANGED pending
        /\ state' = [state EXCEPT ![r] = "gone"] /\ Destroys({r})
        /\ replay' = [replay EXCEPT ![r] = Nothing]
        /\ table' = [table EXCEPT ![r] = {}] /\ stop' = [stop EXCEPT ![r] = 0]
    BY DEF Release, player
  <1>1. PICK R : R = {r} /\ R \subseteq Recorders  OBVIOUS
  <1>2. Destroyed(R)  BY <1>0, <1>1, DestroysWell
  <1>3. /\ state' \in [Recorders -> {"none", "recording", "breather", "writing", "written", "gone"}]
        /\ replay' \in [Recorders -> Data] /\ table' \in [Recorders -> SUBSET Weapons]
        /\ stop' \in [Recorders -> 0..MaxTick + Breather]
    <2>1. replay' \in [Recorders -> Data]  BY <1>0, Typed, NothingFields
    <2>2. table' \in [Recorders -> SUBSET Weapons]  BY <1>0, Typed
    <2>3. stop' \in [Recorders -> 0..MaxTick + Breather]  BY <1>0, Typed
    <2> QED  BY <1>0, <2>1, <2>2, <2>3, Typed
  <1>4. TypeOK'  BY <1>0, <1>2, <1>3, Typed DEF TypeOK, Destroyed
  <1>5. state' = [q \in Recorders |-> IF q \in {} THEN "writing" ELSE IF q \in R THEN "gone" ELSE state[q]]
    BY <1>0, <1>1, Typed
  <1>6. Fit(ring'.cmds, ring'.csubs, last')  BY <1>0 DEF RecorderInv
  <1>7. {} \subseteq Active /\ {} \cap R = {}  OBVIOUS
  <1>8. \A q \in Recorders \ R : replay'[q] = replay[q]  BY <1>0, <1>1, Typed
  <1> QED  BY <1>0, <1>1, <1>4, <1>5, <1>6, <1>7, <1>8, DestroyingKeeps

LEMMA ResetKeeps == ASSUME RecorderInv, Reset PROVE RecorderInv'
  <1>0. /\ UNCHANGED <<now, table, stop, pending, replay>>
        /\ state' = [q \in Recorders |-> IF q \in Active THEN "gone" ELSE state[q]] /\ Destroys(Active)
        /\ ring' = Nothing /\ last' = 0 /\ here' = TRUE
    BY DEF Reset
  <1>1. PICK R : R = Active /\ R \subseteq Recorders  BY DEF Active
  <1>2. Destroyed(R)  BY <1>0, <1>1, DestroysWell
  <1>3. state' \in [Recorders -> {"none", "recording", "breather", "writing", "written", "gone"}]
    BY <1>0, <1>1, Typed
  <1>4. TypeOK'  BY <1>0, <1>2, <1>3, Typed, NothingFields DEF TypeOK, Destroyed
  <1>5. state' = [q \in Recorders |-> IF q \in {} THEN "writing" ELSE IF q \in R THEN "gone" ELSE state[q]]
    BY <1>0, <1>1, Typed
  <1>6. Fit(ring'.cmds, ring'.csubs, last')  BY <1>0, NothingFields DEF Fit, Increasing, AtMost, Numbers
  <1>7. {} \subseteq Active /\ {} \cap R = {}  OBVIOUS
  <1> QED  BY <1>0, <1>1, <1>4, <1>5, <1>6, <1>7, DestroyingKeeps

LEMMA DisconnectKeeps == ASSUME RecorderInv, OnClientDisconnect PROVE RecorderInv'
  <1>1. PICK E : E = {q \in Recorders : state[q] = "breather"}  OBVIOUS
  <1>2. PICK R : R = Active \ E  OBVIOUS
  <1>0. /\ UNCHANGED <<now, last, stop, pending, replay>> /\ Destroys(R) /\ CopyWeapons(E)
        /\ state' = [q \in Recorders |-> IF q \in E THEN "writing" ELSE IF q \in R THEN "gone" ELSE state[q]]
        /\ ring' = Nothing /\ here' = FALSE
    BY <1>1, <1>2 DEF OnClientDisconnect
  <1>3. R \subseteq Recorders /\ E \subseteq Active /\ E \cap R = {}  BY <1>1, <1>2 DEF Active
  <1>4. Destroyed(R)  BY <1>0, <1>3, DestroysWell
  <1>5. state' \in [Recorders -> {"none", "recording", "breather", "writing", "written", "gone"}]
    BY <1>0, Typed
  <1>6. table' \in [Recorders -> SUBSET Weapons]  BY <1>0, TablesType
  <1>7. TypeOK'  BY <1>0, <1>4, <1>5, <1>6, Typed, NothingFields DEF TypeOK, Destroyed
  <1>8. Fit(ring'.cmds, ring'.csubs, last')  BY <1>0, NothingFields DEF Fit, Increasing, AtMost, Numbers
  <1> QED  BY <1>0, <1>3, <1>7, <1>8, DestroyingKeeps

LEMMA DeadTickKeeps == ASSUME RecorderInv, DeadTick PROVE RecorderInv'
  <1>0. /\ UNCHANGED <<last, ring, here>> /\ UNCHANGED <<mem, chunks, stop, pending, disk, replay, want>>
        /\ now < MaxTick /\ now' = now + 1 /\ CopyWeapons(Due)
        /\ state' = [q \in Recorders |-> IF q \in Due THEN "writing" ELSE state[q]]
    BY DEF DeadTick
  <1>1. state' \in [Recorders -> {"none", "recording", "breather", "writing", "written", "gone"}]
    BY <1>0, Typed
  <1>2. table' \in [Recorders -> SUBSET Weapons]  BY <1>0, TablesType
  <1>3. now' \in 0..MaxTick  BY <1>0, Typed
  <1>4. TypeOK'  BY <1>0, <1>1, <1>2, <1>3, Typed DEF TypeOK
  <1>5. ASSUME NEW q \in Recorders PROVE Kept(q)'
    <2>1. SameChunks(q) /\ Chunks(q)' = Chunks(q)  BY <1>0, ChunksSame
    <2>2. CASE q \in Due
      <3>1. state'[q] = "writing"  BY <1>0, <2>2
      <3>2. ~(q \in Active)'  BY <3>1 DEF Active
      <3>3. Holds(want[q], chunks[q], mem[q], Chunks(q))  BY DEF RecorderInv, Kept
      <3> QED  BY <1>0, <2>1, <3>1, <3>2, <3>3, KeptInUse
    <2>3. CASE q \notin Due
      <3>1. Same(q)  BY <1>0, <2>3 DEF Same
      <3> QED  BY <1>0, <2>1, <3>1, KeptSame DEF RecorderInv
    <2> QED  BY <2>2, <2>3
  <1> QED  BY <1>0, <1>4, <1>5 DEF RecorderInv

LEMMA CommandKeeps ==
  ASSUME RecorderInv, NEW lo \in 1..MaxCmd, NEW hi \in 1..MaxCmd, RecordCommand(lo, hi) PROVE RecorderInv'
  <1>1. PICK nums : nums = Accepted(lo, hi)  OBVIOUS
  <1>2. PICK new : new = [i \in DOMAIN nums |-> [n |-> nums[i], tick |-> now]]  OBVIOUS
  <1>0. /\ UNCHANGED <<now, here, state, chunks, table, stop, pending, disk, replay>>
        /\ new # <<>> /\ last' = hi
        /\ ring' = [ring EXCEPT !.cmds = Suffix(@ \o new, RingCmds), !.csubs = Suffix(@ \o nums, RingCmds)]
        /\ mem'  = [q \in Recorders |-> IF q \in Active THEN PushCmds(mem[q], new, nums) ELSE mem[q]]
        /\ want' = [q \in Recorders |-> IF q \in Active THEN PushCmds(want[q], new, nums) ELSE want[q]]
    BY <1>1, <1>2 DEF RecordCommand
  <1>3. PICK m \in Nat : m = last  BY Typed
  <1>4. /\ nums \in Seq(1..MaxCmd) /\ (hi <= m => nums = <<>>)
        /\ \A i \in DOMAIN nums : nums[i] > m /\ nums[i] <= hi
        /\ \A i, j \in DOMAIN nums : i < j => nums[i] < nums[j]
    BY <1>1, <1>3, AcceptedFields
  <1>5. new \in Seq(Cmds) /\ DOMAIN new = DOMAIN nums /\ \A i \in DOMAIN new : new[i].n = nums[i]
    <2>1. PICK l \in Nat : l = Len(nums) /\ DOMAIN nums = 1..l  BY <1>4
    <2>2. \A i \in 1..l : nums[i] \in 1..MaxCmd  BY <1>4, <2>1, ElementOfSeq
    <2>3. now \in 0..MaxTick  BY Typed
    <2>4. \A i \in 1..l : [n |-> nums[i], tick |-> now] \in Cmds  BY <2>2, <2>3 DEF Cmds
    <2>5. new \in [1..l -> Cmds]  BY <1>2, <2>1, <2>4
    <2>6. new \in Seq(Cmds)  BY <2>5, FunctionIsSeq
    <2> QED  BY <1>2, <2>1, <2>6
  <1>6. nums = Numbers(new)
    <2>1. nums = [i \in DOMAIN nums |-> nums[i]]  BY <1>4
    <2> QED  BY <1>5, <2>1 DEF Numbers
  <1>7. m <= hi
    <2>1. nums # <<>>
      <3> SUFFICES ASSUME nums = <<>> PROVE FALSE  OBVIOUS
      <3>1. new \in Seq(Cmds) /\ Len(new) = 0  BY <1>5
      <3> QED  BY <1>0, <3>1, EmptySeq
    <2> QED  BY <1>3, <1>4, <2>1
  <1>8. Increasing(new) /\ AtMost(new, hi) /\ \A i \in DOMAIN new : new[i].n > m
    BY <1>4, <1>5 DEF Increasing, AtMost
  \* What the new commands are added to.
  <1>9. ASSUME NEW s \in Seq(Cmds), Increasing(s), AtMost(s, m)
        PROVE  s \o new \in Seq(Cmds) /\ Increasing(s \o new) /\ AtMost(s \o new, hi)
    BY <1>5, <1>7, <1>8, <1>9, CommandsAdded
  <1>10. ring' \in Data /\ Fit(ring'.cmds, ring'.csubs, hi)
    <2>1. ring \in Data /\ ring.cmds \in Seq(Cmds) /\ Fit(ring.cmds, ring.csubs, m)
      BY <1>3, Typed DEF Data, RecorderInv
    <2>2. PICK s, t : s = ring.cmds \o new /\ t = ring.csubs \o nums  OBVIOUS
    <2>3. s \in Seq(Cmds) /\ Increasing(s) /\ AtMost(s, hi)  BY <1>9, <2>1, <2>2 DEF Fit
    <2>4. t = Numbers(s)  BY <1>5, <1>6, <2>1, <2>2, NumbersAdded DEF Fit
    <2>5. PICK x, y : x = Suffix(s, RingCmds) /\ y = Suffix(t, RingCmds)  OBVIOUS
    <2>6. x \in Seq(Cmds) /\ y \in Seq(1..MaxCmd) /\ Fit(x, y, hi)
      <3>1. RingCmds \in Nat  BY RecorderAssumption
      <3>2. Fit(s, t, hi)  BY <2>3, <2>4 DEF Fit
      <3> QED  BY <2>3, <2>5, <3>1, <3>2, SuffixFits
    <2>7. PICK e : e = [ring EXCEPT !.cmds = x, !.csubs = y]  OBVIOUS
    <2>8. e \in Data /\ e.cmds = x /\ e.csubs = y  BY <2>1, <2>6, <2>7 DEF Data
    <2>9. ring' = e  BY <1>0, <2>2, <2>5, <2>7
    <2> QED  BY <2>6, <2>8, <2>9
  <1>11. /\ \A q \in Recorders : q \in Active => mem'[q] = PushCmds(mem[q], new, nums)
         /\ \A q \in Recorders : q \in Active => want'[q] = PushCmds(want[q], new, nums)
         /\ \A q \in Recorders : q \notin Active => mem'[q] = mem[q] /\ want'[q] = want[q]
    BY <1>0
  <1>12. \A q \in Recorders : mem'[q] \in Data /\ want'[q] \in Data
    <2> TAKE q \in Recorders
    <2>1. mem[q] \in Data /\ want[q] \in Data  BY Typed
    <2> QED  BY <1>4, <1>5, <1>11, <2>1, PushCmdsFields
  <1>13. TypeOK'
    <2>1. mem' \in [Recorders -> Data] /\ want' \in [Recorders -> Data]  BY <1>0, <1>12
    <2>2. last' \in 0..MaxCmd  BY <1>0, Typed
    <2> QED  BY <1>0, <1>10, <2>1, <2>2, Typed DEF TypeOK
  <1>14. ASSUME NEW q \in Recorders PROVE Kept(q)'
    <2>1. SameChunks(q) /\ Chunks(q)' = Chunks(q)  BY <1>0, ChunksSame
    <2>2. CASE q \in Active
      <3>1. mem[q] \in Data /\ want[q] \in Data /\ chunks[q] \in Nat /\ want[q].cmds \in Seq(Cmds)
        BY Typed DEF Data
      <3>2. Holds(want[q], chunks[q], mem[q], Chunks(q)) /\ AtMost(want[q].cmds, m) /\ Increasing(want[q].cmds)
        BY <1>3, <2>2 DEF RecorderInv, Kept, Holds
      <3>3. Increasing(want[q].cmds \o new) /\ AtMost(want[q].cmds \o new, hi)  BY <1>9, <3>1, <3>2
      <3>4. Holds(PushCmds(want[q], new, nums), chunks[q], PushCmds(mem[q], new, nums), Chunks(q))
        BY <1>4, <1>5, <1>6, <3>1, <3>2, <3>3, HoldsCmds
      <3>5. AtMost(want'[q].cmds, last')  BY <1>0, <1>4, <1>5, <1>11, <2>2, <3>1, <3>3, PushCmdsFields
      <3>6. state'[q] \in {"recording", "breather", "writing"}  BY <1>0, <2>2 DEF Active
      <3> QED  BY <1>0, <1>11, <2>1, <2>2, <3>4, <3>5, <3>6, KeptInUse
    <2>3. CASE q \notin Active
      <3>1. Same(q)  BY <1>0, <1>11, <2>3 DEF Same
      <3>2. ~(q \in Active)'  BY <1>0, <2>3 DEF Active
      <3> QED  BY <2>1, <3>1, <3>2, KeptSame DEF RecorderInv
    <2> QED  BY <2>2, <2>3
  <1> QED  BY <1>0, <1>10, <1>13, <1>14 DEF RecorderInv

LEMMA WriteToMemoryKeeps == ASSUME RecorderInv, NEW r \in Recorders, WriteToMemory(r) PROVE RecorderInv'
  <1>0. /\ UNCHANGED <<now, last, ring, here>> /\ UNCHANGED <<mem, chunks, table, stop, pending, disk, want>>
        /\ state[r] = "writing" /\ (chunks[r] > 0 => pending = <<>>)
        /\ replay' = [replay EXCEPT ![r] = Loaded(r)] /\ state' = [state EXCEPT ![r] = "written"]
    BY DEF WriteToMemory, player
  <1>1. PICK d : d = Loaded(r)  OBVIOUS
  <1>2. mem[r] \in Data /\ want[r] \in Data /\ chunks[r] \in Nat /\ disk \subseteq Chunk  BY Typed
  <1>3. Holds(want[r], chunks[r], mem[r], Chunks(r))  BY DEF RecorderInv, Kept
  <1>4. /\ d \in Data /\ Increasing(d.cmds) /\ d.csubs = Numbers(d.cmds)
        /\ OnDisk(r) => d.ticks = want[r].ticks /\ d.cmds = want[r].cmds
    <2>1. \A c \in disk : c.of = r => c \in Chunks(r)  BY DEF Chunks, DiskOf
    <2> QED  BY <1>1, <1>2, <1>3, <2>1, HoldsLoaded
  <1>5. PendingOf(r) = {}
    <2>1. CASE chunks[r] > 0
      <3>1. ToSet(pending) = {}  BY <1>0, <2>1 DEF ToSet
      <3> QED  BY <3>1 DEF PendingOf
    <2>2. CASE ~(chunks[r] > 0)
      <3>1. chunks[r] = 0  BY <1>2, <2>2
      <3>2. Chunks(r) = {}  BY <1>3, <3>1, HoldsNone
      <3> QED  BY <3>2 DEF Chunks
    <2> QED  BY <2>1, <2>2
  <1>6. replay' = [replay EXCEPT ![r] = d]  BY <1>0, <1>1
  <1>7. TypeOK'
    <2>1. state' \in [Recorders -> {"none", "recording", "breather", "writing", "written", "gone"}]
      BY <1>0, Typed
    <2>2. replay' \in [Recorders -> Data]  BY <1>4, <1>6, Typed
    <2> QED  BY <1>0, <2>1, <2>2, Typed DEF TypeOK
  <1>8. Kept(r)'
    <2>1. state'[r] = "written" /\ replay'[r] = d  BY <1>0, <1>6, Typed
    <2>2. SameChunks(r) /\ Chunks(r)' = Chunks(r)  BY <1>0, ChunksSame
    <2>3. ~(r \in Active)'  BY <2>1 DEF Active
    <2>4. OnDisk(r)' <=> OnDisk(r)  BY <1>0 DEF OnDisk
    <2>5. Restored(r)'  BY <1>0, <1>4, <1>5, <2>1, <2>2, <2>4 DEF Restored, SameChunks
    <2> QED  BY <1>0, <1>3, <2>1, <2>2, <2>3, <2>5 DEF Kept
  <1>9. ASSUME NEW q \in Recorders, q # r PROVE Kept(q)'
    <2>1. Same(q) /\ SameChunks(q)  BY <1>0, <1>6, <1>9, Typed, ChunksSame DEF Same
    <2> QED  BY <1>0, <2>1, KeptSame DEF RecorderInv
  <1> QED  BY <1>0, <1>7, <1>8, <1>9 DEF RecorderInv

LEMMA WriteChunkKeeps == ASSUME RecorderInv, WriteChunk PROVE RecorderInv'
  <1>0. /\ UNCHANGED <<now, last, ring, here>> /\ UNCHANGED <<state, mem, chunks, table, stop, replay, want>>
        /\ pending # <<>> /\ pending' = Tail(pending)
    BY DEF WriteChunk, player, recorders
  <1>1. PICK x : x = Head(pending)  OBVIOUS
  <1>2. pending \in Seq(Chunk)  BY Typed
  <1>3. x \in Chunk /\ pending' \in Seq(Chunk) /\ x \in ToSet(pending) /\ ToSet(pending') \subseteq ToSet(pending)
    <2>1. Len(pending) \in Nat /\ Len(pending) # 0 /\ DOMAIN pending = 1..Len(pending)  BY <1>0, <1>2, EmptySeq
    <2>2. 1 \in DOMAIN pending /\ x = pending[1]  BY <1>1, <2>1
    <2>3. x \in Chunk /\ x \in ToSet(pending)  BY <1>2, <2>1, <2>2, ElementOfSeq DEF ToSet
    <2>4. /\ pending' \in Seq(Chunk) /\ Len(pending') = Len(pending) - 1
          /\ \A i \in 1..Len(pending') : pending'[i] = pending[i + 1]
      BY <1>0, <1>2, HeadTailProperties
    <2>5. DOMAIN pending' = 1..Len(pending')  BY <2>4
    <2>6. \A i \in DOMAIN pending' : i + 1 \in DOMAIN pending /\ pending'[i] = pending[i + 1]
      BY <2>1, <2>4, <2>5
    <2>7. ToSet(pending') \subseteq ToSet(pending)  BY <2>6 DEF ToSet
    <2> QED  BY <2>3, <2>4, <2>7
  <1>4. disk \subseteq disk' /\ disk' \subseteq disk \cup {x}  BY <1>1 DEF WriteChunk
  <1>5. TypeOK'
    <2>1. disk' \subseteq Chunk  BY <1>3, <1>4, Typed
    <2> QED  BY <1>0, <1>3, <2>1, Typed DEF TypeOK
  <1>6. ASSUME NEW q \in Recorders PROVE Kept(q)'
    <2>0. Kept(q)  BY DEF RecorderInv
    <2>1. Chunks(q)' \subseteq Chunks(q)  BY <1>3, <1>4 DEF Chunks, DiskOf, PendingOf
    <2>2. Holds(want[q], chunks[q], mem[q], Chunks(q)')  BY <2>0, <2>1, HoldsFewer DEF Kept
    <2>3. (q \in Active)' <=> q \in Active  BY <1>0 DEF Active
    <2>4. ASSUME Written(q) PROVE Restored(q)'
      <3>1. Restored(q) /\ PendingOf(q) = {}  BY <2>0, <2>4 DEF Kept, Restored
      <3>2. x.of # q  BY <1>3, <3>1 DEF PendingOf
      <3>3. PendingOf(q)' = {}  BY <1>3, <3>1 DEF PendingOf
      <3>4. OnDisk(q)' <=> OnDisk(q)  BY <1>0, <1>4, <3>2 DEF OnDisk
      <3> QED  BY <1>0, <3>1, <3>3, <3>4 DEF Restored
    <2>5. Written(q)' <=> Written(q)  BY <1>0 DEF Written
    <2> QED  BY <1>0, <2>0, <2>2, <2>3, <2>4, <2>5 DEF Kept
  <1> QED  BY <1>0, <1>5, <1>6 DEF RecorderInv

\* The chunks Tick queues, one for each recorder in R.
InOrder(w, order) == [k \in DOMAIN order |-> w[order[k]]]
Queued(w, R) ==
  /\ pending' \in Seq(Chunk) /\ ToSet(pending) \subseteq ToSet(pending')
  /\ \A c \in ToSet(pending') : c \in ToSet(pending) \/ \E q \in R : c = w[q]

LEMMA QueuedChunks ==
  ASSUME pending \in Seq(Chunk), NEW R, R \subseteq Recorders, NEW w, \A q \in R : w[q] \in Chunk,
         NEW order \in SetToSeqs(R), pending' = pending \o InOrder(w, order)
  PROVE  Queued(w, R)
  <1>1. PICK m \in Nat : m = Cardinality(R)
    <2>1. IsFiniteSet(R)
      <3>1. R \in SUBSET Recorders /\ IsFiniteSet(Recorders)  BY RecorderAssumption
      <3> QED  BY <3>1, FS_Subset
    <2> QED  BY <2>1, FS_CardinalityType
  <1>2. order \in [1..m -> R]  BY <1>1 DEF SetToSeqs
  <1>3. PICK new : new = [k \in DOMAIN order |-> w[order[k]]]  OBVIOUS
  <1>4. new = [k \in 1..m |-> w[order[k]]]  BY <1>2, <1>3
  <1>5. \A k \in 1..m : order[k] \in R /\ new[k] = w[order[k]] /\ new[k] \in Chunk  BY <1>2, <1>4
  <1>6. new \in [1..m -> Chunk]  BY <1>4, <1>5
  <1>7. new \in Seq(Chunk) /\ Len(new) = m
    <2>1. new \in Seq(Chunk)  BY <1>6, FunctionIsSeq
    <2>2. DOMAIN new = 1..m  BY <1>6
    <2> QED  BY <2>1, <2>2
  <1>8. pending' = pending \o new  BY <1>3 DEF InOrder
  <1>9. PICK q \in Seq(Chunk), l \in Nat : q = pending /\ l = Len(q)  OBVIOUS
  <1>10. /\ pending' \in Seq(Chunk) /\ Len(pending') = l + m
         /\ \A i \in 1..l + m : pending'[i] = IF i <= l THEN q[i] ELSE new[i - l]
    <2>1. /\ q \o new \in Seq(Chunk) /\ Len(q \o new) = l + m
          /\ \A i \in 1..l + m : (q \o new)[i] = IF i <= l THEN q[i] ELSE new[i - l]
      BY ZenonT(60), <1>7, <1>9, ConcatProperties
    <2> QED  BY <1>8, <1>9, <2>1
  <1>11. DOMAIN pending' = 1..l + m /\ DOMAIN pending = 1..l  BY <1>9, <1>10
  <1>12. ToSet(pending) \subseteq ToSet(pending')
    <2>1. \A i \in 1..l : i \in 1..l + m /\ pending'[i] = pending[i]  BY <1>9, <1>10
    <2> QED  BY <1>11, <2>1 DEF ToSet
  <1>13. ASSUME NEW i \in 1..l + m PROVE pending'[i] \in ToSet(pending) \/ \E x \in R : pending'[i] = w[x]
    <2>1. CASE i <= l
      <3>1. i \in 1..l /\ pending'[i] = pending[i]  BY <1>9, <1>10, <2>1
      <3> QED  BY <1>11, <3>1 DEF ToSet
    <2>2. CASE ~(i <= l)
      <3>1. i - l \in 1..m /\ pending'[i] = new[i - l]  BY <1>10, <2>2
      <3> QED  BY <1>5, <3>1
    <2> QED  BY <2>1, <2>2
  <1>14. \A c \in ToSet(pending') : c \in ToSet(pending) \/ \E x \in R : c = w[x]
    BY ZenonT(60), <1>11, <1>13 DEF ToSet
  <1> QED  BY <1>10, <1>12, <1>14 DEF Queued

LEMMA TickKeeps == ASSUME RecorderInv, NEW w \in Weapons, Tick(w) PROVE RecorderInv'
  <1>1. PICK tick : tick = [n |-> now, weapon |-> w]  OBVIOUS
  <1>2. PICK R : R = Active \ Due  OBVIOUS
  <1>3. PICK F : F = {r \in R : Flushes(PushTick(mem[r], tick))}  OBVIOUS
  <1>4. PICK write : write =
          [r \in Recorders |-> [of |-> r, i |-> chunks[r], data |-> ChunkOf(PushTick(mem[r], tick))]]
    OBVIOUS
  <1>5. F \subseteq R /\ R \subseteq Active /\ R \subseteq Recorders /\ F \subseteq Recorders /\ R \cap Due = {}
        /\ Due \subseteq Active
    BY <1>2, <1>3 DEF Active, Due
  <1>6. ASSUME NEW r \in Recorders
        PROVE  /\ write[r] = [of |-> r, i |-> chunks[r], data |-> ChunkOf(PushTick(mem[r], tick))]
               /\ write[r].of = r /\ write[r].i = chunks[r] /\ write[r].data = ChunkOf(PushTick(mem[r], tick))
    <2>1. PICK i, d : i = chunks[r] /\ d = ChunkOf(PushTick(mem[r], tick))  OBVIOUS
    <2>2. write[r] = [of |-> r, i |-> i, data |-> d]  BY <1>4, <2>1
    <2>3. write[r].of = r /\ write[r].i = i /\ write[r].data = d  BY <2>2
    <2> QED  BY <2>1, <2>2, <2>3
  <1>0. /\ UNCHANGED <<last, here, stop, disk, replay>>
        /\ now < MaxTick /\ now' = now + 1 /\ CopyWeapons(Due)
        /\ state' = [r \in Recorders |-> IF r \in Due THEN "writing" ELSE state[r]]
        /\ ring' = [ring EXCEPT !.ticks = Suffix(Append(@, tick), RingTicks),
                                !.subs = Suffix(Append(@, now), RingTicks)]
        /\ mem' = [r \in Recorders |->
             CASE r \in F -> PushSubs(FlushChunkToDisk(PushTick(mem[r], tick)), now)
               [] r \in R \ F -> PushSubs(PushTick(mem[r], tick), now)
               [] OTHER -> mem[r]]
        /\ chunks' = [r \in Recorders |-> IF r \in F THEN chunks[r] + 1 ELSE chunks[r]]
        /\ want' = [r \in Recorders |-> IF r \in R THEN PushSubs(PushTick(want[r], tick), now) ELSE want[r]]
    BY <1>1, <1>2, <1>3 DEF Tick
  <1>7. PICK order \in SetToSeqs(F) : pending' = pending \o [k \in DOMAIN order |-> write[order[k]]]
    <2>1. \A order \in SetToSeqs(F) : \A k \in DOMAIN order : order[k] \in Recorders
      BY <1>5 DEF SetToSeqs
    <2>2. \E order \in SetToSeqs(F) : pending' = pending \o [k \in DOMAIN order |->
            [of |-> order[k], i |-> chunks[order[k]], data |-> ChunkOf(PushTick(mem[order[k]], tick))]]
      BY <1>1, <1>2, <1>3 DEF Tick
    <2>3. \A order \in SetToSeqs(F) : [k \in DOMAIN order |-> write[order[k]]] = [k \in DOMAIN order |->
            [of |-> order[k], i |-> chunks[order[k]], data |-> ChunkOf(PushTick(mem[order[k]], tick))]]
      BY <1>6, <2>1
    <2> QED  BY <2>2, <2>3
  <1>8. tick \in Ticks /\ now \in 0..Garbage
    <2>1. now \in 0..MaxTick /\ MaxTick \in Nat  BY Typed
    <2> QED  BY <1>1, <2>1 DEF Ticks, Garbage
  <1>9. \A r \in Recorders : mem[r] \in Data /\ want[r] \in Data /\ chunks[r] \in Nat  BY Typed
  <1>10. \A r \in F : write[r] \in Chunk
    <2> TAKE r \in F
    <2>1. PICK i, d : i = chunks[r] /\ d = ChunkOf(PushTick(mem[r], tick))  OBVIOUS
    <2>2. r \in Recorders /\ i \in Nat /\ d \in Data
      BY <1>5, <1>8, <1>9, <2>1, PushTickFields, ChunkOfFields
    <2>3. write[r] = [of |-> r, i |-> i, data |-> d]  BY <1>6, <2>1, <2>2
    <2> QED  BY <2>2, <2>3 DEF Chunk
  <1>11. /\ pending' \in Seq(Chunk) /\ ToSet(pending) \subseteq ToSet(pending')
         /\ \A c \in ToSet(pending') : c \in ToSet(pending) \/ \E q \in F : c = write[q]
    <2>1. pending \in Seq(Chunk)  BY Typed
    <2>2. F \subseteq Recorders /\ \A r \in F : write[r] \in Chunk  BY <1>5, <1>10
    <2>3. pending' = pending \o InOrder(write, order)  BY <1>7 DEF InOrder
    <2>4. Queued(write, F)  BY <2>1, <2>2, <2>3, QueuedChunks
    <2> QED  BY <2>4 DEF Queued
  \* What a recorder holds now.
  <1>12. ASSUME NEW r \in Recorders
         PROVE  /\ r \in F => mem'[r] = PushSubs(Nothing, now) /\ chunks'[r] = chunks[r] + 1
                /\ r \in R \ F => mem'[r] = PushSubs(PushTick(mem[r], tick), now) /\ chunks'[r] = chunks[r]
                /\ r \in R => want'[r] = PushSubs(PushTick(want[r], tick), now)
                /\ r \notin R => mem'[r] = mem[r] /\ chunks'[r] = chunks[r] /\ want'[r] = want[r]
                /\ state'[r] = IF r \in Due THEN "writing" ELSE state[r]
    BY <1>0, <1>5 DEF FlushChunkToDisk
  <1>13. \A r \in Recorders : mem'[r] \in Data /\ want'[r] \in Data /\ chunks'[r] \in Nat
    <2> TAKE r \in Recorders
    <2>1. PushTick(mem[r], tick) \in Data /\ PushTick(want[r], tick) \in Data  BY <1>8, <1>9, PushTickFields
    <2>2. /\ PushSubs(Nothing, now) \in Data /\ PushSubs(PushTick(mem[r], tick), now) \in Data
          /\ PushSubs(PushTick(want[r], tick), now) \in Data
      BY <1>8, <2>1, NothingFields, PushSubsFields
    <2>3. CASE r \in F  BY <1>5, <1>9, <1>12, <2>2, <2>3
    <2>4. CASE r \in R \ F  BY <1>9, <1>12, <2>2, <2>4
    <2>5. CASE r \notin R  BY <1>9, <1>12, <2>5
    <2> QED  BY <2>3, <2>4, <2>5
  <1>14. ring' \in Data /\ Fit(ring'.cmds, ring'.csubs, last')
    <2>1. ring \in Data /\ ring.ticks \in Seq(Ticks) /\ ring.subs \in Seq(0..Garbage)  BY Typed DEF Data
    <2>2. PICK s, t : s = Append(ring.ticks, tick) /\ t = Append(ring.subs, now)  OBVIOUS
    <2>3. s \in Seq(Ticks) /\ t \in Seq(0..Garbage)  BY <1>8, <2>1, <2>2
    <2>4. PICK x, y : x = Suffix(s, RingTicks) /\ y = Suffix(t, RingTicks)  OBVIOUS
    <2>5. x \in Seq(Ticks) /\ y \in Seq(0..Garbage)
      <3>1. RingTicks \in Nat  BY RecorderAssumption
      <3>2. x \in Seq(Ticks)  BY <2>3, <2>4, <3>1, SuffixIsEnd
      <3>3. y \in Seq(0..Garbage)  BY <2>3, <2>4, <3>1, SuffixIsEnd
      <3> QED  BY <3>2, <3>3
    <2>6. PICK e : e = [ring EXCEPT !.ticks = x, !.subs = y]  OBVIOUS
    <2>7. e \in Data /\ e.cmds = ring.cmds /\ e.csubs = ring.csubs  BY <2>1, <2>5, <2>6 DEF Data
    <2>8. ring' = e  BY <1>0, <2>2, <2>4, <2>6
    <2>9. last' = last  BY <1>0
    <2> QED  BY <2>7, <2>8, <2>9 DEF RecorderInv
  <1>15. TypeOK'
    <2>1. mem' \in [Recorders -> Data] /\ want' \in [Recorders -> Data] /\ chunks' \in [Recorders -> Nat]
      BY <1>0, <1>13
    <2>2. state' \in [Recorders -> {"none", "recording", "breather", "writing", "written", "gone"}]
      BY <1>0, Typed
    <2>3. table' \in [Recorders -> SUBSET Weapons]  BY <1>0, TablesType
    <2>4. now' \in 0..MaxTick  BY <1>0, Typed
    <2>5. /\ last' \in 0..MaxCmd /\ here' \in BOOLEAN /\ stop' \in [Recorders -> 0..MaxTick + Breather]
          /\ disk' \subseteq Chunk /\ replay' \in [Recorders -> Data]
      BY <1>0, Typed
    <2> QED  BY <1>11, <1>14, <2>1, <2>2, <2>3, <2>4, <2>5 DEF TypeOK
  <1>16. ASSUME NEW r \in Recorders PROVE DiskOf(r)' = DiskOf(r)  BY <1>0 DEF DiskOf
  <1>17. ASSUME NEW r \in Recorders
         PROVE  \A c \in Chunks(r)' : c \in Chunks(r) \/ (r \in F /\ c = write[r])
    <2>1. \A q \in F : write[q].of = q  BY <1>5, <1>6
    <2>2. \A c \in PendingOf(r)' : c \in PendingOf(r) \/ (r \in F /\ c = write[r])
      BY <1>11, <2>1 DEF PendingOf
    <2> QED  BY <1>16, <2>2 DEF Chunks
  <1>18. ASSUME NEW r \in Recorders, r \notin F PROVE SameChunks(r) /\ Chunks(r)' = Chunks(r)
    <2>1. \A q \in F : write[q].of = q  BY <1>5, <1>6
    <2>2. PendingOf(r)' = PendingOf(r)  BY <1>11, <1>18, <2>1 DEF PendingOf
    <2> QED  BY <1>16, <2>2 DEF SameChunks, Chunks
  <1>19. ASSUME NEW r \in R PROVE Kept(r)'
    <2>1. r \in Recorders /\ r \in Active /\ r \notin Due  BY <1>5
    <2>2. Holds(want[r], chunks[r], mem[r], Chunks(r)) /\ AtMost(want[r].cmds, last)
      BY <2>1 DEF RecorderInv, Kept
    <2>0. PICK n \in Nat : n = chunks[r]  BY <1>9, <2>1
    <2>3. PICK all, d : all = PushTick(want[r], tick) /\ d = PushTick(mem[r], tick)  OBVIOUS
    <2>4. all \in Data /\ d \in Data /\ all.cmds = want[r].cmds
      BY <1>8, <1>9, <2>1, <2>3, PushTickFields
    <2>5. Holds(all, n, d, Chunks(r))  BY <1>8, <1>9, <2>0, <2>1, <2>2, <2>3, HoldsTick
    <2>6. state'[r] \in {"recording", "breather", "writing"}  BY <1>12, <2>1 DEF Active
    <2>7. want'[r] = PushSubs(all, now)  BY <1>12, <2>1, <2>3
    <2>8. AtMost(want'[r].cmds, last')
      <3>1. want'[r].cmds = want[r].cmds  BY <1>8, <2>4, <2>7, PushSubsFields
      <3> QED  BY <1>0, <2>2, <3>1
    <2>9. Holds(want'[r], chunks'[r], mem'[r], Chunks(r)')
      <3>1. CASE r \in F
        <4>1. mem'[r] = PushSubs(Nothing, now) /\ chunks'[r] = n + 1  BY <1>12, <2>0, <2>1, <3>1
        <4>2. write[r].i = n /\ write[r].data = ChunkOf(d)  BY <1>6, <2>0, <2>1, <2>3
        <4>3. \A c \in Chunks(r)' : c \in Chunks(r) \/ (c.i = n /\ c.data = ChunkOf(d))
          BY <1>17, <2>1, <4>2
        <4>4. Holds(all, n + 1, Nothing, Chunks(r)')  BY <2>4, <2>5, <4>3, HoldsFlush
        <4>5. Holds(PushSubs(all, now), n + 1, PushSubs(Nothing, now), Chunks(r)')
          BY <1>8, <2>4, <4>4, NothingFields, HoldsSubs
        <4> QED  BY <2>7, <4>1, <4>5
      <3>2. CASE r \notin F
        <4>1. mem'[r] = PushSubs(d, now) /\ chunks'[r] = n  BY <1>12, <2>0, <2>1, <2>3, <3>2
        <4>2. Chunks(r)' = Chunks(r)  BY <1>18, <2>1, <3>2
        <4>3. Holds(PushSubs(all, now), n, PushSubs(d, now), Chunks(r))  BY <1>8, <2>4, <2>5, HoldsSubs
        <4> QED  BY <2>7, <4>1, <4>2, <4>3
      <3> QED  BY <3>1, <3>2
    <2> QED  BY <2>1, <2>6, <2>8, <2>9, KeptInUse
  <1>20. ASSUME NEW r \in Recorders, r \notin R PROVE Kept(r)'
    <2>1. r \notin F /\ mem'[r] = mem[r] /\ chunks'[r] = chunks[r] /\ want'[r] = want[r]
      BY <1>5, <1>12, <1>20
    <2>2. SameChunks(r) /\ Chunks(r)' = Chunks(r)  BY <1>18, <2>1
    <2>3. CASE r \in Due
      <3>1. state'[r] = "writing"  BY <1>12, <2>3
      <3>2. ~(r \in Active)'  BY <3>1 DEF Active
      <3>3. Holds(want[r], chunks[r], mem[r], Chunks(r))  BY DEF RecorderInv, Kept
      <3> QED  BY <2>1, <2>2, <3>1, <3>2, <3>3, KeptInUse
    <2>4. CASE r \notin Due
      <3>1. Same(r)  BY <1>0, <1>12, <2>1, <2>4 DEF Same
      <3> QED  BY <1>0, <2>2, <3>1, KeptSame DEF RecorderInv
    <2> QED  BY <2>3, <2>4
  <1> QED  BY <1>14, <1>15, <1>19, <1>20 DEF RecorderInv

LEMMA StepsKeep == ASSUME RecorderInv, bound \in Bounds, [Next]_vars PROVE RecorderInv'
  <1>0. bound.recorders \subseteq Recorders /\ \A k \in 1..bound.cmds : k \in 1..MaxCmd  BY RecorderAssumption
  <1>1. CASE \E r \in bound.recorders : OnTimerStart(r)  BY <1>0, <1>1, StartKeeps
  <1>2. CASE \E r \in bound.recorders : OnTimerEnd(r)  BY <1>0, <1>2, EndKeeps
  <1>3. CASE \E r \in bound.recorders : OnTimerStop(r)  BY <1>0, <1>3, StopKeeps
  <1>4. CASE \E r \in bound.recorders : SaveRing(r)  BY <1>0, <1>4, SaveRingKeeps
  <1>5. CASE \E r \in bound.recorders : WriteToMemory(r)  BY <1>0, <1>5, WriteToMemoryKeeps
  <1>6. CASE \E r \in bound.recorders : Release(r)  BY <1>0, <1>6, ReleaseKeeps
  <1>7. CASE \E lo, hi \in 1..bound.cmds : RecordCommand(lo, hi)  BY <1>0, <1>7, CommandKeeps
  <1>8. CASE \E w \in Weapons : Tick(w)  BY <1>8, TickKeeps
  <1>9. CASE DeadTick  BY <1>9, DeadTickKeeps
  <1>10. CASE OnClientDisconnect  BY <1>10, DisconnectKeeps
  <1>11. CASE Reset  BY <1>11, ResetKeeps
  <1>12. CASE WriteChunk  BY <1>12, WriteChunkKeeps
  <1>13. CASE UNCHANGED vars
    <2>1. /\ UNCHANGED <<now, last, ring, here>> /\ UNCHANGED <<state, mem, chunks, table, stop>>
          /\ UNCHANGED <<pending, disk, replay, want>>
      BY <1>13 DEF vars, player, recorders
    <2>2. TypeOK'  BY <2>1 DEF RecorderInv, TypeOK
    <2>3. ASSUME NEW q \in Recorders PROVE Kept(q)'
      <3>1. Same(q) /\ SameChunks(q)  BY <2>1, ChunksSame DEF Same
      <3> QED  BY <2>1, <3>1, KeptSame DEF RecorderInv
    <2> QED  BY <2>1, <2>2, <2>3 DEF RecorderInv
  <1> QED  BY <1>1, <1>2, <1>3, <1>4, <1>5, <1>6, <1>7, <1>8, <1>9, <1>10, <1>11, <1>12, <1>13 DEF Next

LEMMA AlwaysKept == Spec => []RecorderInv
  <1>1. Init => RecorderInv /\ bound \in Bounds  BY InitKeeps DEF Init
  <1>2. RecorderInv /\ bound \in Bounds /\ [Next]_vars => (RecorderInv /\ bound \in Bounds)'
    BY StepsKeep DEF Next, vars
  <1> QED  BY <1>1, <1>2, PTL DEF Spec

\* Every variable of the recorder keeps its type: each subtick count, command
\* number and tick that reaches a ring, a recorder, a chunk or a replay is one
\* the program can record (bhop_recording.h).
THEOREM RecorderTypes == Spec => []TypeOK
  <1>1. RecorderInv => TypeOK  BY DEF RecorderInv
  <1> QED  BY <1>1, AlwaysKept, PTL

\* No temporary chunk of a recorder that was destroyed is, or will be, on the
\* disk: ~Recorder waits for the writes whenever it flushed one.
THEOREM NoChunkStays == Spec => []NoChunkLeft
  <1>1. RecorderInv => NoChunkLeft
    <2> SUFFICES ASSUME RecorderInv, NEW r \in Recorders, state[r] = "gone",
                        NEW c \in disk \cup ToSet(pending)
                 PROVE  c.of # r
      BY DEF NoChunkLeft
    <2>1. Holds(want[r], 0, mem[r], Chunks(r))  BY DEF RecorderInv, Kept
    <2>2. Chunks(r) = {}  BY <2>1, HoldsNone
    <2> QED  BY <2>2 DEF Chunks, DiskOf, PendingOf
  <1> QED  BY <1>1, AlwaysKept, PTL

\* The commands of a replay are in the order they were given, none of them
\* twice, and each has its own subtick moves, whichever chunks the disk lost.
THEOREM CommandsAreMatched == Spec => []CommandsMatch
  <1>1. RecorderInv => CommandsMatch
    <2> SUFFICES ASSUME RecorderInv, NEW r \in Recorders, Written(r)
                 PROVE  /\ Increasing(replay[r].cmds)
                        /\ replay[r].csubs = Numbers(replay[r].cmds)
      BY DEF CommandsMatch, Increasing
    <2> QED  BY DEF RecorderInv, Kept, Restored
  <1> QED  BY <1>1, AlwaysKept, PTL

\* A replay whose chunks all reached the disk holds every tick and command that
\* was pushed to its recorder, in order, however often it was flushed.
THEOREM ReplaysAreComplete == Spec => []ReplayComplete
  <1>1. RecorderInv => ReplayComplete
    <2> SUFFICES ASSUME RecorderInv, NEW r \in Recorders, Written(r), OnDisk(r)
                 PROVE  /\ Numbers(replay[r].ticks) = Numbers(want[r].ticks)
                        /\ replay[r].cmds = want[r].cmds
      BY DEF ReplayComplete
    <2> QED  BY DEF RecorderInv, Kept, Restored
  <1> QED  BY <1>1, AlwaysKept, PTL

==============================================================================
