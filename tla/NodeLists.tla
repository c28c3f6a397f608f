------------------------------ MODULE NodeLists ------------------------------
(***************************************************************************)
(* What list_template.c promises: every list is a sequence of nodes, every *)
(* node is in one list, in the hands of the caller, or not allocated, and  *)
(* each function puts nodes in and takes nodes out where it says it does.  *)
(***************************************************************************)
EXTENDS Naturals, Sequences, SequencesExt

CONSTANTS List, Node

VARIABLES
  contents,  \* the nodes of every list, in order
  held,      \* the nodes taken out of a list and not freed
  call       \* the function called last, with its arguments

NodeInit == contents = [l \in List |-> <<>>] /\ held = {} /\ call = <<>>

InNoList(n) == \A k \in List : n \notin {contents[k][i] : i \in DOMAIN contents[k]}

\* A node, new or held, becomes the last one.
Push(l, n) ==
  /\ InNoList(n)
  /\ contents' = [contents EXCEPT ![l] = Append(@, n)]
  /\ held' = held \ {n}
  /\ call' = <<"Push_List", l, n>>

\* A node comes behind the pos-th one, or behind the last when there is no such node.
Insert(l, pos, n, by) ==
  /\ InNoList(n)
  /\ contents' = [contents EXCEPT ![l] =
                    InsertAt(@, (IF pos > Len(@) THEN Len(@) ELSE pos) + 1, n)]
  /\ held' = held \ {n}
  /\ call' = <<by, l, pos, n>>

InsertNew(l, pos, n) == n \notin held /\ Insert(l, pos, n, "Insert_Node")
InsertHeld(l, pos, n) == n \in held /\ Insert(l, pos, n, "Insert_Exist_Node")

\* The pos-th node leaves its list; the caller has it, or it is freed.
TakeOut(l, pos, to) ==
  /\ contents' = [contents EXCEPT ![l] = RemoveAt(@, pos)]
  /\ held' = IF to = "held" THEN held \cup {contents[l][pos]} ELSE held

RemovePos(l, pos, to) == TakeOut(l, pos, to) /\ call' = <<"Remove_Node_pos", l, pos, to>>

RemovePoint(l, pos, to) ==
  TakeOut(l, pos, to) /\ call' = <<"Remove_Node_point", l, contents[l][pos], to>>

\* The first node goes to the caller.
Pop(l) ==
  /\ contents[l] # <<>>
  /\ contents' = [contents EXCEPT ![l] = Tail(@)]
  /\ held' = held \cup {Head(contents[l])}
  /\ call' = <<"Pop_List", l>>

\* The nodes of one list follow those of another.
Link(d, s) ==
  /\ contents' = [contents EXCEPT ![d] = @ \o contents[s], ![s] = <<>>]
  /\ call' = <<"Linked_List", d, s>>
  /\ UNCHANGED held

\* The nodes of a list are freed.
Clear(l) ==
  /\ contents' = [contents EXCEPT ![l] = <<>>]
  /\ call' = <<"Clear_List", l>>
  /\ UNCHANGED held

\* A held node is freed.
Free(n) == held' = held \ {n} /\ call' = <<"free", n>> /\ UNCHANGED contents

NodeNext ==
  \/ \E l \in List, n \in Node :
       \/ Push(l, n)
       \/ \E pos \in 0 .. Len(contents[l]) + 1 : InsertNew(l, pos, n) \/ InsertHeld(l, pos, n)
  \/ \E l \in List :
       \/ \E pos \in DOMAIN contents[l], to \in {"held", "free"} :
            RemovePos(l, pos, to) \/ RemovePoint(l, pos, to)
       \/ Pop(l) \/ Clear(l)
       \/ \E s \in List \ {l} : Link(l, s)
  \/ \E n \in held : Free(n)

NodeSpec == NodeInit /\ [][NodeNext]_<<contents, held, call>>
=============================================================================
