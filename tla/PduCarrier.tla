------------------------------ MODULE PduCarrier ------------------------------
(***************************************************************************)
(* What the encapsulator promises to the PDUs it is given: each of them is *)
(* carried completely, once, and in the order of arrival.                  *)
(***************************************************************************)
EXTENDS Naturals, Sequences

CONSTANT Item

VARIABLES
  waiting,  \* the PDUs that are not completely packed yet
  carried   \* the PDUs that are

CarrierInit == waiting = <<>> /\ carried = <<>>

Accept == \E p \in Item : waiting' = Append(waiting, p) /\ UNCHANGED carried

Carry ==
  /\ waiting # <<>>
  /\ carried' = Append(carried, Head(waiting))
  /\ waiting' = Tail(waiting)

CarrierSpec == CarrierInit /\ [][Accept \/ Carry]_<<waiting, carried>>
=============================================================================
