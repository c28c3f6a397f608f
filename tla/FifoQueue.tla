------------------------------ MODULE FifoQueue ------------------------------
(***************************************************************************)
(* What a queue of at most Capacity elements promises: the elements leave  *)
(* in the order in which they came.  A push on a full queue displaces the  *)
(* oldest element.                                                         *)
(***************************************************************************)
EXTENDS Naturals, Sequences

CONSTANTS Element, Capacity

VARIABLE items

FifoInit == items = <<>>

Put == \E v \in Element :
  items' = Append(IF Len(items) < Capacity THEN items ELSE Tail(items), v)

Take == items # <<>> /\ items' = Tail(items)

Empty == items' = <<>>

FifoSpec == FifoInit /\ [][Put \/ Take \/ Empty]_items
=============================================================================
