---------------------------- MODULE BoundedQueue ----------------------------
(***************************************************************************)
(* What the ring of tables waiting to be reclaimed promises: candidates    *)
(* leave in the order they came, at most Cap of them wait, and one that    *)
(* finds the queue full is counted, never lost silently.                   *)
(***************************************************************************)
EXTENDS Naturals, Sequences

CONSTANTS
  Values,      \* what may be queued
  Cap,         \* how many may wait
  CounterMod   \* modulus of the counter of rejected candidates

VARIABLES
  q,           \* the candidates that wait, oldest first
  drops        \* how many were rejected

Init == q = <<>> /\ drops = 0

Enqueue(v) ==
  /\ Len(q) < Cap
  /\ q' = Append(q, v)
  /\ UNCHANGED drops

Reject ==
  /\ Len(q) = Cap
  /\ drops' = (drops + 1) % CounterMod
  /\ UNCHANGED q

Dequeue ==
  /\ q # <<>>
  /\ q' = Tail(q)
  /\ UNCHANGED drops

Next == (\E v \in Values : Enqueue(v)) \/ Reject \/ Dequeue

Spec == Init /\ [][Next]_<<q, drops>>
=============================================================================
