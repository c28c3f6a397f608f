------------------------------ MODULE BurstQueue ------------------------------
(***************************************************************************)
(* What a ring promises to the threads that share it: objects are put in   *)
(* and taken out several at a time, each such step is atomic, and they     *)
(* leave in the order in which they came.                                  *)
(***************************************************************************)
EXTENDS Naturals, Sequences

CONSTANTS User, Room

VARIABLES
  items,  \* the objects in the ring
  held    \* what a thread has taken and not yet returned to its caller

BurstInit == items = <<>> /\ held = [t \in User |-> <<>>]

PutSome ==
  /\ Len(items') \in Len(items) + 1 .. Room
  /\ SubSeq(items', 1, Len(items)) = items
  /\ UNCHANGED held

TakeSome(t) == \E n \in 1 .. Len(items) :
  /\ held[t] = <<>>
  /\ held' = [held EXCEPT ![t] = SubSeq(items, 1, n)]
  /\ items' = SubSeq(items, n + 1, Len(items))

Deliver(t) == held' = [held EXCEPT ![t] = <<>>] /\ UNCHANGED items

BurstSpec ==
  BurstInit /\ [][PutSome \/ \E t \in User : TakeSome(t) \/ Deliver(t)]_<<items, held>>
=============================================================================
