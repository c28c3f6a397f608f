--------------------------- MODULE FragmentIdQueue ---------------------------
(***************************************************************************)
(* The circular queue and its client.  fragment.c pushes only IDs that     *)
(* allocate_fragmentID found unused, hence that are not in the queue, and  *)
(* fetch_pdu_fragment overwrites the head with -1 before it pops it.       *)
(***************************************************************************)
EXTENDS CircularQueue

VARIABLE queue

\* The fragment IDs: the queue is created with as many cells as there are IDs.
ID == 0 .. QueueMaxSize - 1

QInit == queue = InitCircleQueue

\* Push by run_fragment.
PushUnused(v) ==
  /\ \A n \in 1 .. queue.size : Contents(queue)[n] # v
  /\ queue' = Push(queue, v)

\* SetElement and Pop by fetch_pdu_fragment after the last fragment.
PopFetched ==
  /\ ~ IsEmpty(queue)
  /\ queue' = Pop(SetElement(queue, 0, -1))

NextIds == (\E v \in ID : PushUnused(v)) \/ PopFetched
SpecIds == QInit /\ [][NextIds]_queue

-----------------------------------------------------------------------------
\* The fields stay in range.
QueueTypeOK ==
  /\ queue.size \in 0 .. QueueMaxSize
  /\ queue.head \in -1 .. QueueMaxSize - 1
  /\ queue.tail \in -1 .. QueueMaxSize - 1
  /\ queue.cell \in [Slot -> ID \cup {-1}]

\* The IDs in the queue are distinct, so that the queue never has to hold more
\* of them than it has cells, and a cell that is not in use holds the initial 0
\* or the -1 of a finished ID: get_fragmentID on an empty queue, which reads
\* the last cell, finds no ID but 0.
IdsDistinct ==
  /\ \A m, n \in 1 .. queue.size : Contents(queue)[m] = Contents(queue)[n] => m = n
  /\ \A s \in Slot : queue.cell[s] \in {0, -1} \/ \E n \in 1 .. queue.size : At(queue, n - 1) = s

\* The queue behaves as a FIFO queue: IDs leave it in the order in which their
\* PDUs were cut.
Fifo == INSTANCE FifoQueue WITH items <- Contents(queue), Element <- ID, Capacity <- QueueMaxSize
ActsAsFifo == Fifo!FifoSpec
=============================================================================
