------------------------------- MODULE RteRing -------------------------------
(***************************************************************************)
(* rte_ring.h and rte_ring_generic.h: the ring through which the router's  *)
(* threads hand mbufs to each other, and which holds the free mbufs of a   *)
(* pool.  Any number of threads enqueue and dequeue at once: a thread      *)
(* reserves slots by moving a head with compare-and-set, copies, and then  *)
(* waits for the threads that reserved before it to move the tail.         *)
(*                                                                         *)
(* A step of the model is one access to the shared fields.  x86 keeps the  *)
(* order of the loads and of the stores, and the compare-and-set is a      *)
(* fence, so the interleavings of these steps are the executions.          *)
(***************************************************************************)
EXTENDS Integers, Sequences

CONSTANTS
  Producer,  \* the threads that enqueue
  Consumer,  \* the threads that dequeue; a thread may do both
  Size,      \* r->size, a power of two (524288 here)
  IndexMod,  \* 2^32: the indices are uint32_t
  Start,     \* the indices at which a run begins
  SpEnq,     \* values of RING_F_SP_ENQ; create_ring leaves it FALSE
  ScDeq,     \* values of RING_F_SC_DEQ
  MaxBurst,  \* bound: objects per call
  MaxObjs    \* bound: objects enqueued; below IndexMod, so that no index comes
             \* round while a thread stands between its load and its
             \* compare-and-set

ASSUME RingAssumption ==
  /\ Size \in Nat \ {0, 1} /\ IndexMod \in Nat /\ IndexMod % Size = 0 /\ IndexMod >= 2 * Size
  /\ Start \subseteq 0 .. IndexMod - 1
  /\ SpEnq \subseteq BOOLEAN /\ ScDeq \subseteq BOOLEAN
  /\ MaxBurst \in Nat \ {0} /\ MaxObjs \in 0 .. IndexMod - 1

Thread == Producer \cup Consumer
Capacity == Size - 1
Side == {"prod", "cons"}
Index == 0 .. IndexMod - 1
Obj == 1 .. MaxObjs

VARIABLES
  ht,    \* prod and cons: the rte_ring_headtail of the two sides
  slot,  \* the table of pointers behind the structure
  th,    \* the call each thread is in
  next   \* the objects below next have been given to an enqueue

rvars == <<ht, slot, th, next>>

IdleThread == [pc |-> "idle", side |-> "prod", fixed |-> TRUE, max |-> 0, n |-> 0, old |-> 0,
               objs |-> <<>>]

\* rte_ring_create.
RingInit ==
  /\ \E s \in Start, sp \in SpEnq, sc \in ScDeq :
       ht = [d \in Side |-> [head |-> s, tail |-> s, single |-> IF d = "prod" THEN sp ELSE sc]]
  /\ slot = [s \in 0 .. Size - 1 |-> 0]
  /\ th = [t \in Thread |-> IdleThread]
  /\ next = 1

-----------------------------------------------------------------------------
(* The calls *)

\* A single-producer or single-consumer side is used by one thread at a time.
Permitted(t, d) ==
  ht[d].single => \A u \in Thread \ {t} : th[u].pc = "idle" \/ th[u].side # d

\* A call begins.
Call(t, d, fixed, n, objs) ==
  /\ th[t].pc = "idle"
  /\ Permitted(t, d)
  /\ th' = [th EXCEPT ![t] = [IdleThread EXCEPT !.pc = "head", !.side = d, !.fixed = fixed,
                                                !.max = n, !.objs = objs]]
  /\ UNCHANGED <<ht, slot>>

\* The caller's table: objects that are nowhere else.
Fresh(n) == [i \in 1 .. n |-> next + i - 1]

Enqueue(t, fixed, n) ==
  /\ next + n - 1 <= MaxObjs
  /\ next' = next + n
  /\ Call(t, "prod", fixed, n, Fresh(n))

Dequeue(t, fixed, n) == Call(t, "cons", fixed, n, <<>>) /\ UNCHANGED next

\* All or nothing.
rte_ring_enqueue_bulk(t) == \E n \in 2 .. MaxBurst : Enqueue(t, TRUE, n)
rte_ring_dequeue_bulk(t) == \E n \in 2 .. MaxBurst : Dequeue(t, TRUE, n)
\* One object.
rte_ring_enqueue(t) == Enqueue(t, TRUE, 1)
rte_ring_dequeue(t) == Dequeue(t, TRUE, 1)
\* As many as possible; for one object, the same as the bulk call.
rte_ring_enqueue_burst(t) == \E n \in 2 .. MaxBurst : Enqueue(t, FALSE, n)
rte_ring_dequeue_burst(t) == \E n \in 2 .. MaxBurst : Dequeue(t, FALSE, n)

-----------------------------------------------------------------------------
(* Their steps *)

\* Mutant of FreeEntries: all slots are used.
FreeEntriesAll(old) == (Size + ht["cons"].tail - old) % IndexMod

\* __rte_ring_move_prod_head: the room seen from a producer's old head.
FreeEntries(old) == (Capacity + ht["cons"].tail - old) % IndexMod

\* __rte_ring_move_cons_head: the objects seen from a consumer's old head.
UsedEntries(old) == (ht["prod"].tail - old) % IndexMod

\* *old_head = r->prod.head, or r->cons.head; n is the requested number again.
LoadHead(t) ==
  /\ th[t].pc = "head"
  /\ th' = [th EXCEPT ![t].pc = "room", ![t].old = ht[th[t].side].head, ![t].n = th[t].max]
  /\ UNCHANGED <<ht, slot, next>>

\* The tail of the other side is read; with n = 0 the call returns 0.
LoadRoom(t) ==
  /\ th[t].pc = "room"
  /\ \E e \in {IF th[t].side = "prod" THEN FreeEntries(th[t].old) ELSE UsedEntries(th[t].old)} :
       \E n \in {IF th[t].max <= e THEN th[t].max ELSE IF th[t].fixed THEN 0 ELSE e} :
         th' = [th EXCEPT ![t] = IF n = 0 THEN IdleThread ELSE [@ EXCEPT !.pc = "cas", !.n = n]]
  /\ UNCHANGED <<ht, slot, next>>

\* Mutant of New: the index grows beyond 32 bits.
NewUnwrapped(t) == th[t].old + th[t].n

\* *new_head.
New(t) == (th[t].old + th[t].n) % IndexMod

\* Mutant of Cas: the head is stored although it moved.
CasUnchecked(t) ==
  /\ th[t].pc = "cas"
  /\ ht' = [ht EXCEPT ![th[t].side].head = New(t)]
  /\ th' = [th EXCEPT ![t].pc = "copy"]
  /\ UNCHANGED <<slot, next>>

\* Mutant of Cas: the next attempt keeps the old head.
CasWithStaleHead(t) ==
  /\ th[t].pc = "cas"
  /\ LET d == th[t].side IN
     IF ht[d].single \/ ht[d].head = th[t].old
     THEN /\ ht' = [ht EXCEPT ![d].head = New(t)]
          /\ th' = [th EXCEPT ![t].pc = "copy"]
     ELSE /\ th' = [th EXCEPT ![t].pc = "room"]
          /\ UNCHANGED ht
  /\ UNCHANGED <<slot, next>>

\* rte_atomic32_cmpset of the head, or a store when the side is single.
\* What the call asked for is not needed any more.
Cas(t) ==
  /\ th[t].pc = "cas"
  /\ LET d == th[t].side IN
     IF ht[d].single \/ ht[d].head = th[t].old
     THEN /\ ht' = [ht EXCEPT ![d].head = New(t)]
          /\ th' = [th EXCEPT ![t].pc = "copy", ![t].max = 0, ![t].fixed = TRUE]
     ELSE /\ th' = [th EXCEPT ![t].pc = "head"]
          /\ UNCHANGED ht
  /\ UNCHANGED <<slot, next>>

\* The slot of the i-th object after index a.
SlotAt(a, i) == (a + i - 1) % Size

\* ENQUEUE_PTRS, which goes back to slot 0 at the end of the table.
ENQUEUE_PTRS(t) ==
  /\ th[t].pc = "copy" /\ th[t].side = "prod"
  /\ slot' = [s \in 0 .. Size - 1 |->
                IF \E i \in 1 .. th[t].n : SlotAt(th[t].old, i) = s
                THEN th[t].objs[CHOOSE i \in 1 .. th[t].n : SlotAt(th[t].old, i) = s]
                ELSE slot[s]]
  /\ th' = [th EXCEPT ![t].pc = "tail"]
  /\ UNCHANGED <<ht, next>>

\* DEQUEUE_PTRS.
DEQUEUE_PTRS(t) ==
  /\ th[t].pc = "copy" /\ th[t].side = "cons"
  /\ th' = [th EXCEPT ![t].pc = "tail",
                      ![t].objs = [i \in 1 .. th[t].n |-> slot[SlotAt(th[t].old, i)]]]
  /\ UNCHANGED <<ht, slot, next>>

\* Mutant of update_tail: the tail is stored without waiting.
update_tail_NoWait(t) ==
  /\ th[t].pc = "tail"
  /\ ht' = [ht EXCEPT ![th[t].side].tail = New(t)]
  /\ th' = [th EXCEPT ![t] = IdleThread]
  /\ UNCHANGED <<slot, next>>

\* The tail is moved when the threads that reserved earlier have moved it, and
\* the call returns n.
update_tail(t) ==
  /\ th[t].pc = "tail"
  /\ LET d == th[t].side IN
     /\ ht[d].single \/ ht[d].tail = th[t].old
     /\ ht' = [ht EXCEPT ![d].tail = New(t)]
  /\ th' = [th EXCEPT ![t] = IdleThread]
  /\ UNCHANGED <<slot, next>>

\* __rte_ring_do_enqueue and __rte_ring_do_dequeue after the call.
Step(t) ==
  LoadHead(t) \/ LoadRoom(t) \/ Cas(t) \/ ENQUEUE_PTRS(t) \/ DEQUEUE_PTRS(t) \/ update_tail(t)

RingNext ==
  \/ \E t \in Producer :
       rte_ring_enqueue(t) \/ rte_ring_enqueue_bulk(t) \/ rte_ring_enqueue_burst(t)
  \/ \E t \in Consumer :
       rte_ring_dequeue(t) \/ rte_ring_dequeue_bulk(t) \/ rte_ring_dequeue_burst(t)
  \/ \E t \in Thread : Step(t)

\* Every thread goes on with the call it is in.
RingSpec == RingInit /\ [][RingNext]_rvars /\ \A t \in Thread : WF_rvars(Step(t))

-----------------------------------------------------------------------------
(* Properties *)

\* Every field has its type.
RingTypeOK ==
  /\ ht \in [Side -> [head: Index, tail: Index, single: BOOLEAN]]
  /\ slot \in [0 .. Size - 1 -> Obj \cup {0}]
  /\ th \in [Thread -> [pc: {"idle", "head", "room", "cas", "copy", "tail"}, side: Side,
                        fixed: BOOLEAN, max: Nat, n: Nat, old: Index, objs: Seq(Obj)]]
  /\ next \in 1 .. MaxObjs + 1

\* How far index b is ahead of index a.
Ahead(a, b) == (b - a) % IndexMod

\* The four indices never overtake each other, modulo 2^32: cons.tail, cons.head,
\* prod.tail, prod.head, and at most capacity slots from the first to the last.
\* A producer that passes cons.tail overwrites what a consumer still copies.
IndicesOrdered ==
  LET p == ht["prod"]
      c == ht["cons"]
  IN  Ahead(c.tail, c.head) + Ahead(c.head, p.tail) + Ahead(p.tail, p.head) <= Capacity

\* The threads that have reserved slots of one side have reserved disjoint ones,
\* between the tail and the head of that side.
ReservedApart ==
  \A t \in Thread : th[t].pc \in {"copy", "tail"} =>
    LET d == th[t].side IN
    /\ Ahead(ht[d].tail, th[t].old) + th[t].n <= Ahead(ht[d].tail, ht[d].head)
    /\ \A u \in Thread \ {t} : (th[u].pc \in {"copy", "tail"} /\ th[u].side = d) =>
         \/ Ahead(ht[d].tail, th[t].old) + th[t].n <= Ahead(ht[d].tail, th[u].old)
         \/ Ahead(ht[d].tail, th[u].old) + th[u].n <= Ahead(ht[d].tail, th[t].old)

\* The objects from index a to index b.
Span(a, b) == [i \in 1 .. Ahead(a, b) |-> slot[SlotAt(a, i)]]

\* The ring is a queue whose enqueues take effect when prod.tail moves and whose
\* dequeues take effect when cons.head moves: no object is lost, doubled,
\* overtaken or overwritten while it is copied.
Abstract == INSTANCE BurstQueue WITH
  User <- Thread, Room <- Capacity,
  items <- Span(ht["cons"].head, ht["prod"].tail),
  held <- [t \in Thread |->
             IF th[t].side = "cons" /\ th[t].pc = "copy" THEN Span(th[t].old, New(t))
             ELSE IF th[t].side = "cons" /\ th[t].pc = "tail" THEN th[t].objs ELSE <<>>]
ActsAsBurstQueue == Abstract!BurstSpec

\* A call returns: the wait in update_tail ends, whatever order the threads
\* reserved in.
CallsReturn == \A t \in Thread : (th[t].pc # "idle") ~> (th[t].pc = "idle")
=============================================================================
