------------------------ MODULE FragmentIdQueueProofs ------------------------
(* The circular queue of fragment IDs is a FIFO queue of distinct IDs, for    *)
(* every QueueMaxSize.                                                        *)
EXTENDS FragmentIdQueue, FiniteSetTheorems, TLAPS

-----------------------------------------------------------------------------
(* Positions *)

\* An index below twice the length of the array, brought back into it.
Wrap(x) == IF x >= QueueMaxSize THEN x - QueueMaxSize ELSE x

\* Position pos of a queue that is not empty.
LEMMA AtIsWrap ==
  ASSUME NEW q, q.head \in Slot, NEW pos \in Slot
  PROVE  At(q, pos) = Wrap(q.head + pos) /\ At(q, pos) \in Slot
<1> DEFINE N == QueueMaxSize
           a == q.head + pos
<1>1. N \in Nat \ {0} /\ a \in 0 .. N + N - 2
  BY QueueMaxSizeAssumption DEF Slot
<1>2. At(q, pos) = (a + N) % N
  BY DEF At
<1> HIDE DEF N, a
<1>3. CASE a < N
  <2>1. (a + N) % N = a
    BY <1>1, <1>3
  <2>2. QED
    BY <1>1, <1>2, <1>3, <2>1 DEF Wrap, Slot, N, a
<1>4. CASE a >= N
  <2> DEFINE b == a - N
  <2>1. b \in 0 .. N - 1 /\ a + N = b + N + N
    BY <1>1, <1>4
  <2> HIDE DEF b
  <2>2. (b + N + N) % N = b
    BY <1>1, <2>1
  <2>3. QED
    BY <1>1, <1>2, <1>4, <2>1, <2>2 DEF Wrap, Slot, N, a, b
<1>5. QED
  BY <1>1, <1>3, <1>4

\* Two positions of the queue are two cells.
LEMMA WrapInjective ==
  ASSUME NEW h \in Slot, NEW m \in Slot, NEW n \in Slot, Wrap(h + m) = Wrap(h + n)
  PROVE  m = n
BY QueueMaxSizeAssumption DEF Wrap, Slot

\* A position is a cell.
LEMMA WrapSlot ==
  ASSUME NEW h \in Slot, NEW m \in Slot
  PROVE  Wrap(h + m) \in Slot
BY QueueMaxSizeAssumption DEF Wrap, Slot

\* The position after h is n cells before the one n + 1 cells after h, which is not h.
LEMMA WrapNext ==
  ASSUME NEW h \in Slot, NEW n \in 0 .. QueueMaxSize - 2
  PROVE  /\ Wrap(h + 1) \in Slot /\ Wrap(h + 1) = IF h + 1 >= QueueMaxSize THEN 0 ELSE h + 1
         /\ Wrap(Wrap(h + 1) + n) = Wrap(h + (n + 1))
         /\ Wrap(h + (n + 1)) \in Slot /\ Wrap(h + (n + 1)) # h
<1> DEFINE N == QueueMaxSize
<1>1. N \in Nat \ {0, 1} /\ h \in 0 .. N - 1 /\ n \in 0 .. N - 2
  BY QueueMaxSizeAssumption DEF Slot
<1> HIDE DEF N
<1>2. CASE h + 1 >= N
  BY <1>1, <1>2 DEF Wrap, Slot, N
<1>3. CASE h + 1 < N
  BY <1>1, <1>3 DEF Wrap, Slot, N
<1>4. QED
  BY <1>1, <1>2, <1>3

-----------------------------------------------------------------------------
(* The inductive invariant *)

QueueType ==
  [head: -1 .. QueueMaxSize - 1, tail: -1 .. QueueMaxSize - 1, size: 0 .. QueueMaxSize,
   cell: [Slot -> ID \cup {-1}]]

\* The value at position n, counted from 0.
Value(q, n) == q.cell[Wrap(q.head + n)]

\* The tail is the position of the last element, both ends are -1 when there is
\* none.
Shape(q) ==
  IF q.size = 0 THEN q.head = -1 /\ q.tail = -1
  ELSE q.head \in Slot /\ q.tail = Wrap(q.head + q.size - 1)

\* The elements are distinct IDs, and the other cells hold what InitCircleQueue or
\* fetch_pdu_fragment left there.
Elements(q) ==
  /\ \A n \in 0 .. q.size - 1 : Value(q, n) \in ID
  /\ \A m, n \in 0 .. q.size - 1 : Value(q, m) = Value(q, n) => m = n
  /\ \A s \in Slot : q.cell[s] \in {0, -1} \/ \E n \in 0 .. q.size - 1 : Wrap(q.head + n) = s

QueueInv(q) == q \in QueueType /\ Shape(q) /\ Elements(q)

\* The fields of a queue.
LEMMA QueueFields ==
  ASSUME NEW q \in QueueType
  PROVE  /\ q.head \in -1 .. QueueMaxSize - 1 /\ q.tail \in -1 .. QueueMaxSize - 1
         /\ q.size \in 0 .. QueueMaxSize /\ q.cell \in [Slot -> ID \cup {-1}]
BY DEF QueueType

\* Contents, in terms of Value.
LEMMA ContentsValue ==
  ASSUME NEW q, QueueInv(q)
  PROVE  /\ Contents(q) = [n \in 1 .. q.size |-> Value(q, n - 1)]
         /\ Contents(q) \in Seq(ID) /\ Len(Contents(q)) = q.size
         /\ \A n \in 1 .. q.size : Contents(q)[n] = Value(q, n - 1)
<1>1. q.size \in 0 .. QueueMaxSize /\ QueueMaxSize \in Nat
  BY QueueFields, QueueMaxSizeAssumption DEF QueueInv
<1>2. \A n \in 1 .. q.size : q.head \in Slot /\ n - 1 \in Slot /\ n - 1 \in 0 .. q.size - 1
  BY <1>1 DEF QueueInv, Shape, Slot
<1>3. \A n \in 1 .. q.size : GetElement(q, n - 1) = Value(q, n - 1) /\ Value(q, n - 1) \in ID
  BY <1>2, AtIsWrap DEF GetElement, Value, QueueInv, Elements
<1>4. \A n \in 1 .. q.size : Contents(q)[n] = Value(q, n - 1)
  BY <1>3 DEF Contents
<1>5. Contents(q) = [n \in 1 .. q.size |-> Value(q, n - 1)]
  BY <1>3 DEF Contents
<1>6. QED
  BY <1>1, <1>3, <1>4, <1>5

\* The initial queue.
LEMMA InitInv == QueueInv(InitCircleQueue) /\ Contents(InitCircleQueue) = <<>>
<1> DEFINE q == InitCircleQueue
<1>1. q \in QueueType
  BY QueueMaxSizeAssumption DEF InitCircleQueue, QueueType, ID, Slot
<1>2. Shape(q) /\ q.size = 0
  BY DEF InitCircleQueue, Shape
<1>3. Elements(q)
  BY DEF InitCircleQueue, Elements
<1>4. QueueInv(q)
  BY <1>1, <1>2, <1>3 DEF QueueInv
<1> HIDE DEF q
<1>5. Contents(q) \in Seq(ID) /\ Len(Contents(q)) = 0
  BY <1>2, <1>4, ContentsValue
<1>6. QED
  BY <1>4, <1>5 DEF q

-----------------------------------------------------------------------------
(* Push and Pop *)

\* A full queue holds every ID: run_fragment has none left to push.
LEMMA FullHasAll ==
  ASSUME NEW q, QueueInv(q), IsFull(q), NEW v \in ID
  PROVE  \E n \in 0 .. q.size - 1 : Value(q, n) = v
<1>1. QueueMaxSize \in Nat \ {0, 1} /\ q.size = QueueMaxSize
  BY QueueFields, QueueMaxSizeAssumption DEF QueueInv, IsFull
<1> SUFFICES ASSUME \A n \in 0 .. q.size - 1 : Value(q, n) # v PROVE FALSE
  OBVIOUS
<1> DEFINE f == [n \in Slot |-> Value(q, n)]
<1>2. f \in [Slot -> ID \ {v}]
  BY <1>1 DEF QueueInv, Elements, Slot
<1>3. IsFiniteSet(Slot) /\ Cardinality(Slot) = QueueMaxSize /\ ID = Slot
  <2>1. 0 \in Int /\ QueueMaxSize - 1 \in Int /\ ~ (0 > QueueMaxSize - 1)
    BY <1>1
  <2>2. QED
    BY <1>1, <2>1, FS_Interval DEF Slot, ID
<1>4. IsFiniteSet(ID \ {v}) /\ Cardinality(ID \ {v}) = QueueMaxSize - 1
  BY <1>3, FS_RemoveElement
<1>5. Cardinality(ID \ {v}) < Cardinality(Slot)
  BY <1>1, <1>3, <1>4
<1> HIDE DEF f
<1>6. PICK x, y \in Slot : x # y /\ f[x] = f[y]
  BY <1>2, <1>3, <1>4, <1>5, FS_PigeonHole
<1>7. QED
  BY <1>1, <1>6 DEF f, QueueInv, Elements, Slot

\* Push appends an ID that is not in the queue.
LEMMA PushInv ==
  ASSUME NEW q, QueueInv(q), NEW v \in ID, \A n \in 0 .. q.size - 1 : Value(q, n) # v
  PROVE  /\ QueueInv(Push(q, v)) /\ q.size < QueueMaxSize
         /\ Contents(Push(q, v)) = Append(Contents(q), v)
<1> DEFINE N == QueueMaxSize
           m == PushRoom(q)
           p == Push(q, v)
           h == IF q.head = -1 THEN 0 ELSE q.head
           t == IF q.tail + 1 >= N THEN 0 ELSE q.tail + 1
<1>1. /\ N \in Nat \ {0, 1} /\ q.size \in 0 .. N
      /\ q.head \in -1 .. N - 1 /\ q.tail \in -1 .. N - 1
      /\ q.cell \in [Slot -> ID \cup {-1}]
  BY QueueFields, QueueMaxSizeAssumption DEF QueueInv
<1>2. ~ IsFull(q) /\ q.size < N
  BY <1>1, FullHasAll DEF IsFull
<1>3. h \in Slot /\ t \in Slot /\ t = Wrap(h + q.size)
  <2>1. CASE q.size = 0
    BY <1>1, <2>1 DEF QueueInv, Shape, Slot, Wrap
  <2>2. CASE q.size # 0
    <3>1. q.head \in 0 .. N - 1 /\ q.tail = Wrap(q.head + q.size - 1)
      BY <2>2 DEF QueueInv, Shape, Slot
    <3>2. h = q.head
      BY <1>1, <3>1
    <3>3. t = Wrap(q.head + q.size)
      BY <1>1, <1>2, <2>2, <3>1 DEF Wrap
    <3>4. t \in 0 .. N - 1
      BY <1>1
    <3>5. QED
      BY <3>1, <3>2, <3>3, <3>4 DEF Slot
  <2>3. QED
    BY <2>1, <2>2
<1>4. m = [q EXCEPT !.head = h, !.tail = t, !.size = q.size + 1]
  BY DEF PushRoom
<1> HIDE DEF m, h, t
<1>5. m.head = h /\ m.tail = t /\ m.size = q.size + 1 /\ m.cell = q.cell /\ m \in QueueType
  <2>1. h \in -1 .. N - 1 /\ t \in -1 .. N - 1 /\ q.size + 1 \in 0 .. N
    BY <1>1, <1>2, <1>3 DEF Slot
  <2>2. q \in QueueType
    BY DEF QueueInv
  <2>3. QED
    BY <1>4, <2>1, <2>2 DEF QueueType
<1>6. p = [m EXCEPT !.cell[t] = v]
  BY <1>2, <1>3, <1>5 DEF Push, Moved, m
<1> HIDE DEF p
<1>7. [q.cell EXCEPT ![t] = v] \in [Slot -> ID \cup {-1}]
  BY <1>1, <1>3
<1>8. /\ p \in QueueType /\ p.head = h /\ p.tail = t /\ p.size = q.size + 1
      /\ p.cell = [q.cell EXCEPT ![t] = v]
  BY <1>5, <1>6, <1>7 DEF QueueType
<1>9. Value(p, q.size) = v
  BY <1>1, <1>3, <1>8 DEF Value
<1>10. ASSUME NEW n \in 0 .. q.size - 1
       PROVE  Value(p, n) = Value(q, n) /\ Wrap(h + n) = Wrap(q.head + n) /\ Wrap(h + n) # t
  <2>1. h = q.head
    BY <1>1 DEF h, QueueInv, Shape, Slot
  <2>2. n \in Slot /\ q.size \in Slot /\ n # q.size
    BY <1>1, <1>2 DEF Slot
  <2>3. Wrap(h + n) # t /\ Wrap(h + n) \in Slot
    BY <1>3, <2>2, WrapInjective, WrapSlot
  <2>4. QED
    BY <1>1, <1>8, <2>1, <2>3 DEF Value
<1>11. Shape(p)
  BY <1>1, <1>3, <1>8 DEF Shape
<1>12. \A n \in 0 .. p.size - 1 : n = q.size \/ n \in 0 .. q.size - 1
  BY <1>1, <1>8
<1>13. \A n \in 0 .. q.size - 1 : Value(q, n) \in ID /\ Value(q, n) # v
  BY DEF QueueInv, Elements
<1>14. \A n \in 0 .. p.size - 1 : Value(p, n) \in ID
  BY <1>9, <1>10, <1>12, <1>13
<1>15. ASSUME NEW a \in 0 .. p.size - 1, NEW b \in 0 .. p.size - 1, Value(p, a) = Value(p, b)
       PROVE  a = b
  <2>1. CASE a \in 0 .. q.size - 1 /\ b \in 0 .. q.size - 1
    BY <1>10, <1>15, <2>1 DEF QueueInv, Elements
  <2>2. CASE a = q.size \/ b = q.size
    BY <1>9, <1>10, <1>12, <1>13, <1>15, <2>2
  <2>3. QED
    BY <1>12, <2>1, <2>2
<1>16. ASSUME NEW s \in Slot
       PROVE  p.cell[s] \in {0, -1} \/ \E n \in 0 .. p.size - 1 : Wrap(p.head + n) = s
  <2>1. q.size \in 0 .. p.size - 1 /\ \A n \in 0 .. q.size - 1 : n \in 0 .. p.size - 1
    BY <1>1, <1>8
  <2>2. CASE s = t
    BY <1>3, <1>8, <2>1, <2>2
  <2>3. CASE s # t
    <3>1. p.cell[s] = q.cell[s]
      BY <1>1, <1>3, <1>8, <2>3
    <3>2. q.cell[s] \in {0, -1} \/ \E n \in 0 .. q.size - 1 : Wrap(q.head + n) = s
      BY DEF QueueInv, Elements
    <3>3. QED
      BY <1>8, <1>10, <2>1, <3>1, <3>2
  <2>4. QED
    BY <2>2, <2>3
<1>17. QueueInv(p)
  BY <1>8, <1>11, <1>14, <1>15, <1>16 DEF QueueInv, Elements
<1>18. Contents(p) = Append(Contents(q), v)
  <2>1. /\ Contents(p) \in Seq(ID) /\ Len(Contents(p)) = q.size + 1
        /\ Contents(q) \in Seq(ID) /\ Len(Contents(q)) = q.size
    BY <1>8, <1>17, ContentsValue
  <2>2. \A n \in 1 .. q.size + 1 : Contents(p)[n] = Value(p, n - 1)
    BY <1>8, <1>17, ContentsValue
  <2>3. \A n \in 1 .. q.size : Contents(q)[n] = Value(q, n - 1)
    BY ContentsValue
  <2>4. \A n \in 1 .. q.size : n - 1 \in 0 .. q.size - 1 /\ n \in 1 .. q.size + 1
    BY <1>1
  <2>5. \A n \in 1 .. q.size : Contents(p)[n] = Contents(q)[n]
    BY <1>10, <2>2, <2>3, <2>4
  <2>6. Contents(p)[q.size + 1] = v
    BY <1>1, <1>9, <2>2
  <2> HIDE DEF N
  <2>7. QED
    BY <1>1, <2>1, <2>5, <2>6
<1>19. QED
  BY <1>2, <1>17, <1>18 DEF p, N

\* Pop, after the head has been overwritten with -1, removes the first element.
LEMMA PopInv ==
  ASSUME NEW q, QueueInv(q), ~ IsEmpty(q)
  PROVE  LET p == Pop(SetElement(q, 0, -1))
         IN  QueueInv(p) /\ Contents(q) # <<>> /\ Contents(p) = Tail(Contents(q))
<1> DEFINE N == QueueMaxSize
           c == [q.cell EXCEPT ![q.head] = -1]
           r == SetElement(q, 0, -1)
           p == Pop(r)
           h == Wrap(q.head + 1)
<1>1. /\ N \in Nat \ {0, 1} /\ q.size \in 1 .. N /\ q.cell \in [Slot -> ID \cup {-1}]
      /\ q.head \in Slot /\ q.tail \in -1 .. N - 1 /\ q.tail = Wrap(q.head + q.size - 1)
  BY QueueFields, QueueMaxSizeAssumption DEF QueueInv, IsEmpty, Shape
<1>2. At(q, 0) = q.head
  <2>1. 0 \in Slot /\ Wrap(q.head + 0) = q.head
    BY <1>1 DEF Slot, Wrap
  <2>2. QED
    BY <1>1, <2>1, AtIsWrap
<1>3. c \in [Slot -> ID \cup {-1}]
  BY <1>1
<1>4. h \in Slot /\ h = IF q.head + 1 >= N THEN 0 ELSE q.head + 1
  BY <1>1 DEF Slot, Wrap
<1>5. r = [q EXCEPT !.cell = c]
  BY <1>2 DEF SetElement
<1> HIDE DEF c, h
<1>6. /\ r \in QueueType /\ r.head = q.head /\ r.tail = q.tail /\ r.size = q.size
      /\ r.cell = c
  BY <1>3, <1>5 DEF QueueInv, QueueType
<1> HIDE DEF r
<1>7. p = IF q.size > 1 THEN [r EXCEPT !.size = q.size - 1, !.head = h]
          ELSE [r EXCEPT !.size = 0, !.head = -1, !.tail = -1]
  BY <1>4, <1>6 DEF Pop
<1> HIDE DEF p
<1>8. q.size - 1 \in 0 .. N /\ h \in -1 .. N - 1 /\ -1 \in -1 .. N - 1 /\ 0 \in 0 .. N
  BY <1>1, <1>4 DEF Slot
<1>9. /\ p \in QueueType /\ p.cell = c /\ p.size = q.size - 1
      /\ p.head = IF q.size > 1 THEN h ELSE -1
      /\ p.tail = IF q.size > 1 THEN q.tail ELSE -1
  <2>1. CASE q.size > 1
    BY <1>6, <1>7, <1>8, <2>1 DEF QueueType
  <2>2. CASE ~ (q.size > 1)
    <3>1. q.size = 1
      BY <1>1, <2>2
    <3>2. p = [r EXCEPT !.size = 0, !.head = -1, !.tail = -1] /\ q.size - 1 = 0
      BY <1>7, <2>2, <3>1
    <3>3. /\ p \in QueueType /\ p.cell = r.cell /\ p.size = 0
          /\ p.head = -1 /\ p.tail = -1
      BY <1>6, <1>8, <3>2 DEF QueueType
    <3>4. QED
      BY <1>6, <2>2, <3>2, <3>3
  <2>3. QED
    BY <2>1, <2>2
<1>10. Shape(p)
  <2>1. CASE q.size > 1
    <3> DEFINE n == q.size - 2
    <3>1. n \in 0 .. N - 2 /\ h + (q.size - 1) - 1 = h + n /\ q.head + q.size - 1 = q.head + (n + 1)
      <4>1. q.size \in Int /\ h \in Int /\ q.head \in Int
        BY <1>1, <1>8 DEF Slot
      <4>2. n \in 0 .. N - 2
        BY <1>1, <2>1
      <4>3. QED
        BY <4>1, <4>2
    <3> HIDE DEF n
    <3>2. Wrap(h + (q.size - 1) - 1) = Wrap(q.head + q.size - 1)
      BY <1>1, <3>1, WrapNext DEF h
    <3>3. QED
      BY <1>1, <1>4, <1>9, <2>1, <3>2 DEF Shape
  <2>2. CASE ~ (q.size > 1)
    BY <1>1, <1>9, <2>2 DEF Shape
  <2>3. QED
    BY <2>1, <2>2
<1>11. ASSUME NEW n \in 0 .. q.size - 2
       PROVE  /\ n + 1 \in 0 .. q.size - 1 /\ n \in 0 .. p.size - 1
              /\ Wrap(p.head + n) = Wrap(q.head + (n + 1))
              /\ Value(p, n) = Value(q, n + 1)
  <2>1. q.size > 1 /\ p.head = h
    BY <1>1, <1>9
  <2>2. n \in 0 .. QueueMaxSize - 2
    BY <1>1
  <2>3. Wrap(h + n) = Wrap(q.head + (n + 1)) /\ Wrap(q.head + (n + 1)) \in Slot
    BY <1>1, <2>2, WrapNext DEF h
  <2>4. Wrap(q.head + (n + 1)) # q.head
    BY <1>1, <2>2, WrapNext
  <2>5. c[Wrap(q.head + (n + 1))] = q.cell[Wrap(q.head + (n + 1))]
    BY <1>1, <2>3, <2>4 DEF c
  <2>6. QED
    BY <1>1, <1>9, <2>1, <2>3, <2>5 DEF Value
<1>12. \A n \in 0 .. p.size - 1 : n \in 0 .. q.size - 2
  BY <1>1, <1>9
<1>13. \A n \in 0 .. p.size - 1 : Value(p, n) \in ID
  BY <1>11, <1>12 DEF QueueInv, Elements
<1>14. ASSUME NEW a \in 0 .. p.size - 1, NEW b \in 0 .. p.size - 1, Value(p, a) = Value(p, b)
       PROVE  a = b
  <2>1. a + 1 \in 0 .. q.size - 1 /\ b + 1 \in 0 .. q.size - 1
        /\ Value(q, a + 1) = Value(q, b + 1)
    BY <1>11, <1>12, <1>14
  <2>2. a + 1 = b + 1
    BY <2>1 DEF QueueInv, Elements
  <2>3. a \in Int /\ b \in Int
    BY <1>1, <1>9
  <2>4. QED
    BY <2>2, <2>3
<1>15. ASSUME NEW s \in Slot
       PROVE  p.cell[s] \in {0, -1} \/ \E n \in 0 .. p.size - 1 : Wrap(p.head + n) = s
  <2>1. CASE s = q.head
    BY <1>1, <1>9, <2>1 DEF c
  <2>2. CASE s # q.head
    <3>1. p.cell[s] = q.cell[s]
      BY <1>1, <1>9, <2>2 DEF c
    <3>2. CASE q.cell[s] \in {0, -1}
      BY <3>1, <3>2
    <3>3. CASE \E n \in 0 .. q.size - 1 : Wrap(q.head + n) = s
      <4>1. PICK n \in 0 .. q.size - 1 : Wrap(q.head + n) = s
        BY <3>3
      <4>2. n # 0
        BY <1>1, <2>2, <4>1 DEF Wrap, Slot
      <4>3. n - 1 \in 0 .. q.size - 2 /\ (n - 1) + 1 = n
        BY <1>1, <4>2
      <4>4. Wrap(p.head + (n - 1)) = s /\ n - 1 \in 0 .. p.size - 1
        BY <1>11, <4>1, <4>3
      <4>5. QED
        BY <4>4
    <3>4. QED
      BY <3>2, <3>3 DEF QueueInv, Elements
  <2>3. QED
    BY <2>1, <2>2
<1>16. QueueInv(p)
  BY <1>9, <1>10, <1>13, <1>14, <1>15 DEF QueueInv, Elements
<1>17. /\ Contents(p) \in Seq(ID) /\ Len(Contents(p)) = q.size - 1
       /\ Contents(q) \in Seq(ID) /\ Len(Contents(q)) = q.size
  BY <1>9, <1>16, ContentsValue
<1>18. ASSUME NEW n \in 1 .. q.size - 1 PROVE Contents(p)[n] = Contents(q)[n + 1]
  <2>1. n \in 1 .. p.size /\ n - 1 \in 0 .. q.size - 2 /\ n + 1 \in 1 .. q.size
        /\ (n - 1) + 1 = (n + 1) - 1
    BY <1>1, <1>9
  <2>2. Contents(p)[n] = Value(p, n - 1)
    BY <1>16, <2>1, ContentsValue
  <2>3. Contents(q)[n + 1] = Value(q, (n + 1) - 1)
    BY <2>1, ContentsValue
  <2>4. Value(p, n - 1) = Value(q, (n - 1) + 1)
    BY <1>11, <2>1
  <2>5. QED
    BY <2>1, <2>2, <2>3, <2>4
<1>19. Contents(p) = Tail(Contents(q)) /\ Contents(q) # <<>>
  BY <1>1, <1>17, <1>18
<1>20. QED
  BY <1>16, <1>19 DEF p, r

\* The guard of Push by run_fragment, in terms of Value.
LEMMA UnusedValue ==
  ASSUME NEW q, QueueInv(q), NEW v, \A n \in 1 .. q.size : Contents(q)[n] # v
  PROVE  \A n \in 0 .. q.size - 1 : Value(q, n) # v
<1> SUFFICES ASSUME NEW n \in 0 .. q.size - 1 PROVE Value(q, n) # v
  OBVIOUS
<1>1. q.size \in Nat
  BY QueueFields, QueueMaxSizeAssumption DEF QueueInv
<1>2. n + 1 \in 1 .. q.size /\ (n + 1) - 1 = n
  BY <1>1
<1>3. Contents(q)[n + 1] = Value(q, (n + 1) - 1)
  BY <1>2, ContentsValue
<1>4. QED
  BY <1>2, <1>3

\* Every step of the client appends an unused ID or removes the first one.
LEMMA QueueStep ==
  ASSUME QueueInv(queue), [NextIds]_queue
  PROVE  /\ QueueInv(queue')
         /\ \/ /\ Len(Contents(queue)) < QueueMaxSize
               /\ \E v \in ID : Contents(queue') = Append(Contents(queue), v)
            \/ Contents(queue) # <<>> /\ Contents(queue') = Tail(Contents(queue))
            \/ Contents(queue') = Contents(queue)
<1>1. ASSUME NEW v \in ID, PushUnused(v)
      PROVE  /\ QueueInv(queue') /\ Len(Contents(queue)) < QueueMaxSize
             /\ Contents(queue') = Append(Contents(queue), v)
  <2>1. \A n \in 0 .. queue.size - 1 : Value(queue, n) # v
    BY <1>1, UnusedValue DEF PushUnused
  <2>2. QED
    BY <1>1, <2>1, PushInv, ContentsValue DEF PushUnused
<1>2. CASE PopFetched
  BY <1>2, PopInv DEF PopFetched
<1>3. QED
  BY <1>1, <1>2 DEF NextIds

-----------------------------------------------------------------------------
(* Theorems *)

\* The inductive invariant.
LEMMA QueueInvariant == SpecIds => []QueueInv(queue)
<1>1. QInit => QueueInv(queue)
  BY InitInv DEF QInit
<1>2. QueueInv(queue) /\ [NextIds]_queue => QueueInv(queue)'
  BY QueueStep
<1>3. QED
  BY <1>1, <1>2, PTL DEF SpecIds

\* The fields of the circular queue stay in range: Push never wraps a full queue
\* and never writes beyond the array.
THEOREM QueueInRange == SpecIds => []QueueTypeOK
<1>1. QueueInv(queue) => QueueTypeOK
  BY QueueFields DEF QueueInv, QueueTypeOK
<1>2. QED
  BY <1>1, QueueInvariant, PTL

\* No fragment ID is in the queue twice, and the cells not in use hold no ID that
\* get_fragmentID could mistake for one.
THEOREM IdsStayDistinct == SpecIds => []IdsDistinct
<1>1. QueueInv(queue) => IdsDistinct
  <2> SUFFICES ASSUME QueueInv(queue) PROVE IdsDistinct
    OBVIOUS
  <2>1. queue.size \in 0 .. QueueMaxSize /\ QueueMaxSize \in Nat
    BY QueueFields, QueueMaxSizeAssumption DEF QueueInv
  <2>2. ASSUME NEW m \in 1 .. queue.size, NEW n \in 1 .. queue.size,
               Contents(queue)[m] = Contents(queue)[n]
        PROVE  m = n
    <3>1. m - 1 \in 0 .. queue.size - 1 /\ n - 1 \in 0 .. queue.size - 1
      BY <2>1
    <3>2. Value(queue, m - 1) = Value(queue, n - 1)
      BY <2>2, ContentsValue
    <3>3. m - 1 = n - 1
      BY <3>1, <3>2 DEF QueueInv, Elements
    <3>4. QED
      BY <2>1, <3>3
  <2>3. ASSUME NEW s \in Slot
        PROVE  \/ queue.cell[s] \in {0, -1}
               \/ \E n \in 1 .. queue.size : At(queue, n - 1) = s
    <3>1. CASE \E n \in 0 .. queue.size - 1 : Wrap(queue.head + n) = s
      <4>1. PICK n \in 0 .. queue.size - 1 : Wrap(queue.head + n) = s
        BY <3>1
      <4>2. queue.head \in Slot /\ n \in Slot /\ n + 1 \in 1 .. queue.size /\ (n + 1) - 1 = n
        BY <2>1 DEF QueueInv, Shape, Slot
      <4>3. At(queue, (n + 1) - 1) = s
        BY <4>1, <4>2, AtIsWrap
      <4>4. QED
        BY <4>2, <4>3
    <3>2. QED
      BY <3>1 DEF QueueInv, Elements
  <2>4. QED
    BY <2>2, <2>3 DEF IdsDistinct
<1>2. QED
  BY <1>1, QueueInvariant, PTL

\* The circular queue implements a FIFO queue of at most QueueMaxSize IDs.
THEOREM QueueIsFifo == SpecIds => ActsAsFifo
<1>1. QInit => Fifo!FifoInit
  BY InitInv DEF QInit, Fifo!FifoInit
<1>2. QueueInv(queue) /\ [NextIds]_queue
        => [Fifo!Put \/ Fifo!Take \/ Fifo!Empty]_(Contents(queue))
  <2> SUFFICES ASSUME QueueInv(queue), [NextIds]_queue
               PROVE  [Fifo!Put \/ Fifo!Take \/ Fifo!Empty]_(Contents(queue))
    OBVIOUS
  <2>1. CASE /\ Len(Contents(queue)) < QueueMaxSize
             /\ \E v \in ID : Contents(queue') = Append(Contents(queue), v)
    BY <2>1 DEF Fifo!Put
  <2>2. CASE Contents(queue) # <<>> /\ Contents(queue') = Tail(Contents(queue))
    BY <2>2 DEF Fifo!Take
  <2>3. QED
    BY <2>1, <2>2, QueueStep
<1>3. QED
  BY <1>1, <1>2, QueueInvariant, PTL DEF SpecIds, ActsAsFifo, Fifo!FifoSpec
=============================================================================
