---------------------------- MODULE CircularQueue ----------------------------
(***************************************************************************)
(* circular_queue.c: the ring of 16-bit values in which fragment.c keeps   *)
(* the fragment IDs whose PDUs are being sent.  A queue is a record of the *)
(* fields of CIRCULAR_QUEUE; cell is the array at pQueueStart.             *)
(***************************************************************************)
EXTENDS Integers, Sequences

CONSTANT QueueMaxSize    \* 256: the argument of InitCircleQueue

ASSUME QueueMaxSizeAssumption == QueueMaxSize \in Nat \ {0, 1}

Slot == 0 .. QueueMaxSize - 1

InitCircleQueue ==
  [head |-> -1, tail |-> -1, size |-> 0, cell |-> [s \in Slot |-> 0]]

IsFull(q) == q.size >= QueueMaxSize
IsEmpty(q) == q.size = 0

\* Push on a queue that has room: the first element also places the head.
PushRoom(q) ==
  [q EXCEPT !.head = IF @ = -1 THEN 0 ELSE @,
            !.tail = IF @ + 1 >= QueueMaxSize THEN 0 ELSE @ + 1,
            !.size = @ + 1]

\* Push on a full queue: both ends move by one when the tail wraps, and by two
\* when it does not.
PushFull(q) ==
  IF q.tail + 1 >= QueueMaxSize
  THEN [q EXCEPT !.head = 1, !.tail = 0]
  ELSE [q EXCEPT !.head = @ + 2, !.tail = @ + 2]

\* The two ends of the queue after a push.
Moved(q) == IF IsFull(q) THEN PushFull(q) ELSE PushRoom(q)

\* Mutant of Push: the value goes in front of the others.
PushInFront(q, v) ==
  LET h == IF q.head <= 0 THEN QueueMaxSize - 1 ELSE q.head - 1
  IN  IF IsEmpty(q) THEN [PushRoom(q) EXCEPT !.cell[0] = v]
      ELSE [q EXCEPT !.head = h, !.size = @ + 1, !.cell[h] = v]

\* The value is written at the tail; a tail beyond the array writes outside of
\* it, which leaves the cells as they are.
Push(q, v) ==
  LET m == Moved(q)
  IN  IF m.tail \in Slot THEN [m EXCEPT !.cell[m.tail] = v] ELSE m

\* Mutant of Pop: the head does not wrap.
PopWithoutWrap(q) ==
  IF q.size > 1 THEN [q EXCEPT !.size = @ - 1, !.head = @ + 1]
  ELSE [q EXCEPT !.size = 0, !.head = -1, !.tail = -1]

Pop(q) ==
  IF q.size > 1
  THEN [q EXCEPT !.size = @ - 1,
                 !.head = IF @ + 1 >= QueueMaxSize THEN 0 ELSE @ + 1]
  ELSE [q EXCEPT !.size = 0, !.head = -1, !.tail = -1]

Clear(q) == InitCircleQueue

\* The cell of position pos.  The sum is unsigned, so the head -1 of an empty
\* queue makes position 0 the last cell (for the power of two QueueMaxSize is).
At(q, pos) == (q.head + pos + QueueMaxSize) % QueueMaxSize

GetElement(q, pos) == q.cell[At(q, pos)]
\* Mutant of SetElement: nothing is written.
SetNothing(q, pos, v) == q

SetElement(q, pos, v) == [q EXCEPT !.cell[At(q, pos)] = v]

\* TraverseQueue: the values from the head to the tail.
Contents(q) == [n \in 1 .. q.size |-> GetElement(q, n - 1)]
=============================================================================
