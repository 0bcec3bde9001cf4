-------------------------------- MODULE Ring --------------------------------
(***************************************************************************)
(* Ring: CFIFOCircularBuffer, in which the circular recorder keeps a        *)
(* player's last ticks, commands and events.  A ring is a record of an      *)
(* array, the positions to read and to write, and the number of elements.   *)
(* Contents is what it promises to hold, oldest element first; the other    *)
(* operators are its member functions, as functions of a ring.              *)
(***************************************************************************)
EXTENDS Naturals, Sequences

\* The last k elements of s, or all of them.
Suffix(s, k) == SubSeq(s, IF Len(s) > k THEN Len(s) - k + 1 ELSE 1, Len(s))

Rings(S, capacity) ==
  [slots : [0..capacity - 1 -> S], capacity : {capacity},
   readPos : 0..capacity - 1, writePos : 0..capacity - 1, count : 0..capacity]

\* n positions on from pos, round the array.
Forward(pos, n, capacity) == (pos + n) % capacity

\* The rings that the member functions leave.
IsRing(b, S) ==
  /\ b.capacity \in Nat \ {0}
  /\ b \in Rings(S, b.capacity)
  /\ b.writePos = Forward(b.readPos, b.count, b.capacity)

\* The constructor: `garbage' is what make_unique puts into the slots.
EmptyRing(capacity, garbage) ==
  [slots |-> [i \in 0..capacity - 1 |-> garbage], capacity |-> capacity,
   readPos |-> 0, writePos |-> 0, count |-> 0]

Slot(b, offset) == b.slots[Forward(b.readPos, offset, b.capacity)]

\* What the ring holds, the oldest element first.
Contents(b) == [i \in 1..b.count |-> Slot(b, i - 1)]

\* Write, and GetNextWriteRef for an x that its caller fills in: a full ring
\* loses its oldest element.
Write(b, x) ==
  [slots    |-> [b.slots EXCEPT ![b.writePos] = x],
   capacity |-> b.capacity,
   readPos  |-> IF b.count < b.capacity THEN b.readPos ELSE Forward(b.readPos, 1, b.capacity),
   writePos |-> Forward(b.writePos, 1, b.capacity),
   count    |-> IF b.count < b.capacity THEN b.count + 1 ELSE b.count]

Least(a, b) == IF a <= b THEN a ELSE b

\* The elements Peek copies to its caller, PeekSingle's element with n = 1.
Peek(b, n, offset) ==
  IF offset >= b.count THEN <<>>
  ELSE [i \in 1..Least(n, b.count - offset) |-> Slot(b, offset + i - 1)]

\* The oldest n elements go; Read is Advance by the one it returns.
Advance(b, n) ==
  [slots    |-> b.slots,
   capacity |-> b.capacity,
   readPos  |-> Forward(b.readPos, Least(n, b.count), b.capacity),
   writePos |-> b.writePos,
   count    |-> b.count - Least(n, b.count)]

GetReadAvailable(b)  == b.count
GetWriteAvailable(b) == b.capacity - b.count

\* A smaller ring keeps the oldest elements, where Write would keep the latest.
Resize(b, size, garbage) ==
  LET n == Least(b.count, size)
  IN  IF size = b.capacity THEN b
      ELSE [slots |-> [i \in 0..size - 1 |-> IF i < n THEN Slot(b, i) ELSE garbage],
            capacity |-> size, readPos |-> 0, writePos |-> n % size, count |-> n]

\* The elements WriteToFile writes, when the disk refuses the k-th (0: none).
WriteToFile(b, n, k) ==
  LET m == Least(n, b.count)
  IN  [i \in 1..(IF k \in 1..m THEN k - 1 ELSE m) |-> Slot(b, b.count - m + i - 1)]
==============================================================================
