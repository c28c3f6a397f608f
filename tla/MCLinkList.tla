----------------------------- MODULE MCLinkList -----------------------------
(* LinkList with lists and nodes that are all alike. *)
EXTENDS LinkList, TLC

Alike == Permutations(Node) \cup Permutations(List)
=============================================================================
