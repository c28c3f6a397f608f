------------------------------- MODULE LinkList -------------------------------
(***************************************************************************)
(* list_template.c: the doubly linked lists that order the reassembly      *)
(* buffers.  A list has a head node that holds no data; tail is NULL in a  *)
(* new list.  Every operation walks and changes the pointers as the code   *)
(* does; a list that is in use is never passed as NULL.  call is history:  *)
(* the function called last and its arguments, for the refinement.         *)
(***************************************************************************)
EXTENDS Naturals, FiniteSets, Sequences

CONSTANTS
  List,          \* the lists
  Node,          \* bound: the nodes malloc can return
  NULL,
  AppendByInsert \* TRUE: the Insert functions are also called with pos >= size

ASSUME ListAssumption ==
  /\ IsFiniteSet(Node) /\ NULL \notin Node \cup List
  /\ List \cap Node = {} /\ AppendByInsert \in BOOLEAN

VARIABLES
  next, pre,  \* the fields of every node; the head node of a list is named by the list
  tail, size, \* the fields of every list
  alloc,      \* where a node is: "free", "list", or "held" by the caller
  call        \* history: the last call

lists == <<next, pre, tail, size, alloc>>
lvars == <<next, pre, tail, size, alloc, call>>

\* The process followed a NULL pointer, and is no more.
Died == <<"SIGSEGV">>

\* Init_List, for every list; decapsulate.c never frees one.
Init_List ==
  /\ next = [p \in Node \cup List |-> NULL]
  /\ pre = [p \in Node \cup List |-> NULL]
  /\ tail = [l \in List |-> NULL]
  /\ size = [l \in List |-> 0]
  /\ alloc = [n \in Node |-> "free"]
  /\ call = <<>>

-----------------------------------------------------------------------------
(* Reading *)

\* Get_Node: the pos-th node, the head node for 0.
Get_Node(l, pos) ==
  LET walk[i \in 0 .. pos] ==
        IF i = 0 THEN l ELSE IF walk[i - 1] = NULL THEN NULL ELSE next[walk[i - 1]]
  IN  walk[pos]

-----------------------------------------------------------------------------
(* Putting nodes in *)

\* The Insert functions link n behind the pos-th node.  The test for the last
\* position comes after size++, and so never holds: tail stays.
InsertBehind(l, pos, n) ==
  LET cur == Get_Node(l, pos) IN
  /\ next' = [next EXCEPT ![n] = next[cur], ![cur] = n]
  /\ pre' = IF next[cur] = NULL THEN [pre EXCEPT ![n] = cur]
            ELSE [pre EXCEPT ![next[cur]] = n, ![n] = cur]
  /\ size' = [size EXCEPT ![l] = @ + 1]
  /\ alloc' = [alloc EXCEPT ![n] = "list"]
  /\ UNCHANGED tail

\* A position beyond the list is its end.
Clipped(l, pos) == IF pos > size[l] THEN size[l] ELSE pos

\* Insert_Node, with a new node.  At the end of the list it writes to the pre of
\* the node behind the last one, which is NULL.
Insert_Node(l, pos, n) ==
  /\ alloc[n] = "free"
  /\ pos < size[l] \/ AppendByInsert
  /\ IF Clipped(l, pos) < size[l]
     THEN InsertBehind(l, pos, n) /\ call' = <<"Insert_Node", l, pos, n>>
     ELSE UNCHANGED lists /\ call' = Died

\* Insert_Exist_Node, with a node that was removed before.
Insert_Exist_Node(l, pos, n) ==
  /\ alloc[n] = "held"
  /\ pos < size[l] \/ AppendByInsert
  /\ InsertBehind(l, Clipped(l, pos), n)
  /\ call' = <<"Insert_Exist_Node", l, pos, n>>

\* Mutant of Push_List: behind the head node.
Push_List_Front(l, n) ==
  /\ alloc[n] # "list"
  /\ pre' = IF next[l] = NULL THEN [pre EXCEPT ![n] = l]
            ELSE [pre EXCEPT ![next[l]] = n, ![n] = l]
  /\ next' = [next EXCEPT ![n] = next[l], ![l] = n]
  /\ tail' = [tail EXCEPT ![l] = IF next[l] = NULL THEN n ELSE @]
  /\ size' = [size EXCEPT ![l] = @ + 1]
  /\ alloc' = [alloc EXCEPT ![n] = "list"]
  /\ call' = <<"Push_List", l, n>>

\* Push_List: behind tail, or behind the head node when tail is NULL.  The caller
\* allocates the node (init_decap_mem) or has removed it from a list.
Push_List(l, n) ==
  /\ alloc[n] # "list"
  /\ LET last == IF tail[l] = NULL THEN l ELSE tail[l] IN
     /\ pre' = [pre EXCEPT ![n] = last]
     /\ next' = [next EXCEPT ![last] = n, ![n] = NULL]
  /\ tail' = [tail EXCEPT ![l] = n]
  /\ size' = [size EXCEPT ![l] = @ + 1]
  /\ alloc' = [alloc EXCEPT ![n] = "list"]
  /\ call' = <<"Push_List", l, n>>

\* Linked_List: the nodes of s go behind the last node of d.
Linked_List(d, s) ==
  /\ size[s] # 0
  /\ LET last == IF tail[d] = NULL THEN d ELSE tail[d] IN
     /\ pre' = [pre EXCEPT ![next[s]] = last]
     /\ next' = [next EXCEPT ![last] = next[s], ![tail[s]] = NULL, ![s] = NULL]
  /\ tail' = [tail EXCEPT ![d] = tail[s], ![s] = NULL]
  /\ size' = [size EXCEPT ![d] = (IF tail[d] = NULL THEN 0 ELSE @) + size[s], ![s] = 0]
  /\ UNCHANGED alloc
  /\ call' = <<"Linked_List", d, s>>

-----------------------------------------------------------------------------
(* Taking nodes out *)

\* Where a removed node goes: Remove hands it to the caller, Delete frees it.
Gone == {"held", "free"}

\* Remove_Node_pos, and Delete_Node_pos, which calls it.
Remove_Node_pos(l, pos, to) ==
  /\ pos \in 1 .. size[l]
  /\ LET cur == Get_Node(l, pos)
         prv == Get_Node(l, pos - 1)
     IN  /\ next' = [next EXCEPT ![prv] = next[cur]]
         /\ IF next[cur] # NULL
            THEN pre' = [pre EXCEPT ![next[cur]] = prv] /\ UNCHANGED tail
            ELSE tail' = [tail EXCEPT ![l] = IF prv = l THEN NULL ELSE prv] /\ UNCHANGED pre
         /\ alloc' = [alloc EXCEPT ![cur] = to]
  /\ size' = [size EXCEPT ![l] = @ - 1]
  /\ call' = <<"Remove_Node_pos", l, pos, to>>

\* Mutant of Remove_Node_point: the successor keeps its pre.
Remove_Node_point_OldPre(l, n, to) ==
  /\ \E i \in 1 .. size[l] : Get_Node(l, i) = n
  /\ IF next[n] # NULL THEN UNCHANGED tail ELSE tail' = [tail EXCEPT ![l] = pre[n]]
  /\ UNCHANGED pre
  /\ next' = [next EXCEPT ![pre[n]] = next[n], ![n] = NULL]
  /\ size' = [size EXCEPT ![l] = @ - 1]
  /\ alloc' = [alloc EXCEPT ![n] = to]
  /\ call' = <<"Remove_Node_point", l, n, to>>

\* Remove_Node_point, and Delete_Node_point: no walk, the node is unlinked by its
\* own pointers.  When it was the only one, tail becomes the head node, not NULL.
Remove_Node_point(l, n, to) ==
  /\ \E i \in 1 .. size[l] : Get_Node(l, i) = n
  /\ IF next[n] # NULL
     THEN pre' = [pre EXCEPT ![next[n]] = pre[n]] /\ UNCHANGED tail
     ELSE tail' = [tail EXCEPT ![l] = pre[n]] /\ UNCHANGED pre
  /\ next' = [next EXCEPT ![pre[n]] = next[n], ![n] = NULL]
  /\ size' = [size EXCEPT ![l] = @ - 1]
  /\ alloc' = [alloc EXCEPT ![n] = to]
  /\ call' = <<"Remove_Node_point", l, n, to>>

\* Pop_List: the first node; the last one takes tail with it.
Pop_List(l) ==
  /\ size[l] > 0
  /\ LET n == next[l] IN
     /\ alloc' = [alloc EXCEPT ![n] = "held"]
     /\ IF size[l] > 1
        THEN /\ next' = [next EXCEPT ![l] = next[n]]
             /\ pre' = [pre EXCEPT ![next[n]] = l]
             /\ UNCHANGED tail
        ELSE /\ next' = [next EXCEPT ![l] = NULL, ![tail[l]] = NULL]
             /\ pre' = [pre EXCEPT ![tail[l]] = NULL]
             /\ tail' = [tail EXCEPT ![l] = NULL]
  /\ size' = [size EXCEPT ![l] = @ - 1]
  /\ call' = <<"Pop_List", l>>

\* The nodes that the loop of Clear_List and Free_List reaches.
Reached(l) == {Get_Node(l, i) : i \in 1 .. Cardinality(Node)} \ {NULL}

\* Clear_List; Free_List followed by Init_List (init_queue) comes to the same.
Clear_List(l) ==
  /\ alloc' = [n \in Node |-> IF n \in Reached(l) THEN "free" ELSE alloc[n]]
  /\ next' = [next EXCEPT ![l] = NULL]
  /\ pre' = [pre EXCEPT ![l] = NULL]
  /\ tail' = [tail EXCEPT ![l] = NULL]
  /\ size' = [size EXCEPT ![l] = 0]
  /\ call' = <<"Clear_List", l>>

\* The caller frees a node it removed.
FreeHeld(n) ==
  /\ alloc[n] = "held"
  /\ alloc' = [alloc EXCEPT ![n] = "free"]
  /\ UNCHANGED <<next, pre, tail, size>>
  /\ call' = <<"free", n>>

\* Positions beyond the end are all alike.
ListNext ==
  /\ call # Died
  /\ \/ \E l \in List, n \in Node :
          \/ Push_List(l, n)
          \/ \E pos \in 0 .. size[l] + 1 : Insert_Node(l, pos, n) \/ Insert_Exist_Node(l, pos, n)
          \/ \E to \in Gone : Remove_Node_point(l, n, to)
     \/ \E l \in List :
          \/ Pop_List(l) \/ Clear_List(l)
          \/ \E pos \in 1 .. size[l], to \in Gone : Remove_Node_pos(l, pos, to)
          \/ \E s \in List \ {l} : Linked_List(l, s)
     \/ \E n \in Node : FreeHeld(n)

ListSpec == Init_List /\ [][ListNext]_lvars

-----------------------------------------------------------------------------
(* Properties *)

\* The nodes of a list in the order of next.
Chain(l) == [i \in 1 .. Cardinality(Reached(l)) |-> Get_Node(l, i)]

\* Walking back over pre meets the same nodes as walking over next, size counts
\* them and tail is the last: Remove_Node_point trusts pre, Push_List trusts tail.
DoublyLinked ==
  \A l \in List :
    LET c == Chain(l) IN
    /\ size[l] = Len(c)
    /\ \A i \in 1 .. Len(c) : pre[c[i]] = (IF i = 1 THEN l ELSE c[i - 1])
    /\ IF c = <<>> THEN tail[l] \in {NULL, l} ELSE tail[l] = c[Len(c)]

\* Any sequence of calls, the ones that leave tail at the head node included,
\* does to the lists what each call would do to sequences: a push goes to the end,
\* a pop takes the first, an insertion and a removal act at the position or on the
\* node they are given.  No node is lost by one list or shared by two.
Abstract == INSTANCE NodeLists WITH
  contents <- [l \in List |-> Chain(l)], held <- {n \in Node : alloc[n] = "held"}
ActsAsSequences == Abstract!NodeSpec

=============================================================================
