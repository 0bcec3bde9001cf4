------------------------------ MODULE FileQueue ------------------------------
(***************************************************************************)
(* FileQueue: what AsyncFileIO promises.  Tasks are done one at a time in   *)
(* the order they were queued, and Drain returns only when every task       *)
(* queued before the call is done.  It stops with nothing left to do.       *)
(***************************************************************************)
EXTENDS Naturals, Sequences

CONSTANTS Tasks, Callers

VARIABLES
  queue, done,  \* the tasks to do, and those done, in order
  calls,        \* calls[c]: 0, or one more than the tasks Drain must see done
  stopped

vars == <<queue, done, calls, stopped>>

Init == queue = <<>> /\ done = <<>> /\ calls = [c \in Callers |-> 0] /\ stopped = FALSE

Enqueue(t) == ~stopped /\ queue' = Append(queue, t) /\ UNCHANGED <<done, calls, stopped>>

Process ==
  /\ queue # <<>>
  /\ done' = Append(done, Head(queue))
  /\ queue' = Tail(queue)
  /\ UNCHANGED <<calls, stopped>>

Drain(c) ==
  /\ calls[c] = 0
  /\ calls' = [calls EXCEPT ![c] = Len(done) + Len(queue) + 1]
  /\ UNCHANGED <<queue, done, stopped>>

DrainReturns(c) ==
  /\ calls[c] > 0 /\ Len(done) + 1 >= calls[c]
  /\ calls' = [calls EXCEPT ![c] = 0]
  /\ UNCHANGED <<queue, done, stopped>>

Stop == queue = <<>> /\ stopped' = TRUE /\ UNCHANGED <<queue, done, calls>>

Next ==
  \/ \E t \in Tasks : Enqueue(t)
  \/ Process \/ Stop
  \/ \E c \in Callers : Drain(c) \/ DrainReturns(c)

Spec == Init /\ [][Next]_vars
==============================================================================
