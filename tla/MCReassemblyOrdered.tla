------------------------- MODULE MCReassemblyOrdered -------------------------
(* The two channels that keep some order, for one instance: which of them it is *)
(* is chosen at the beginning.                                                  *)
EXTENDS MCReassembly

VARIABLE channel

\* Each channel has its fragment IDs, so that time stamps may be the same.
CatalogOrdered == CatalogFifo \cup CatalogWindow

NextOrdered ==
  /\ \/ channel = "lossy" /\ \E f \in CatalogFifo : InOrder(f) /\ Arrive(f)
     \/ channel = "window" /\ \E f \in CatalogWindow : InWindow(f) /\ Arrive(f)
     \/ Background
  /\ UNCHANGED channel

SpecOrdered ==
  CInit /\ channel \in {"lossy", "window"} /\ [][NextOrdered]_<<cvars, channel>>
=============================================================================
