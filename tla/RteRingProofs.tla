---------------------------- MODULE RteRingProofs ----------------------------
(* The ring of DPDK for every size and every number of threads: its indices   *)
(* stay in order, the slots that threads have reserved are disjoint, and the  *)
(* ring implements the queue of module BurstQueue.                            *)
(*                                                                            *)
(* The indices are 32-bit numbers that wrap.  The proofs measure every index  *)
(* from s, the value at which all four started: Pos(s, x) is how many objects *)
(* have passed index x, a number that does not wrap, because fewer than       *)
(* IndexMod objects are ever enqueued.                                        *)
EXTENDS RteRing, FiniteSetTheorems, TLAPS

-----------------------------------------------------------------------------
(* Arithmetic *)

\* The quotient and the remainder.
LEMMA DivMod ==
  ASSUME NEW N \in Int, N > 0, NEW a \in Int
  PROVE  a \div N \in Int /\ a % N \in 0 .. N - 1 /\ a = N * (a \div N) + (a % N)
<1>1. a \div N \in Int /\ a % N \in 0 .. N - 1
  OBVIOUS
<1>2. a = N * (a \div N) + (a % N)
  BY Z3
<1>3. QED
  BY <1>1, <1>2

\* They are unique.
LEMMA ModUnique ==
  ASSUME NEW N \in Int, N > 0, NEW a \in Int, NEW q \in Int, NEW r \in Int,
         0 <= r, r < N, a = N * q + r
  PROVE  r = a % N
OBVIOUS

\* Numbers that differ by a multiple of N have the same remainder.
LEMMA ModShift ==
  ASSUME NEW N \in Int, N > 0, NEW a \in Int, NEW k \in Int
  PROVE  (a + N * k) % N = a % N
<1> DEFINE q == a \div N
           r == a % N
<1>1. q \in Int /\ r \in 0 .. N - 1 /\ a = N * q + r
  BY DivMod
<1> HIDE DEF q, r
<1>2. a + N * k = N * (q + k) + r /\ q + k \in Int /\ a + N * k \in Int
  BY <1>1
<1>3. r = (a + N * k) % N
  BY <1>1, <1>2, ModUnique
<1>4. QED
  BY <1>3 DEF r

\* Numbers that differ by less than N have different remainders.
LEMMA ModApart ==
  ASSUME NEW N \in Int, N > 0, NEW a \in Int, NEW b \in Int, a <= b, b < a + N, a % N = b % N
  PROVE  a = b
<1> DEFINE q == a \div N
           p == b \div N
           r == a % N
<1>1. q \in Int /\ p \in Int /\ r \in 0 .. N - 1 /\ a = N * q + r /\ b = N * p + r
  BY DivMod
<1> HIDE DEF q, p, r
<1>2. b - a = N * (p - q) + 0 /\ b - a \in Int /\ p - q \in Int /\ b - a \in 0 .. N - 1
  BY <1>1
<1>3. 0 = (b - a) % N
  BY <1>2, ModUnique
<1>4. (b - a) % N = b - a
  BY <1>2
<1>5. QED
  BY <1>2, <1>3, <1>4

\* The constants of the ring.
LEMMA RingConstants ==
  /\ Size \in Nat /\ Size >= 2 /\ Capacity \in Nat /\ Capacity = Size - 1
  /\ IndexMod \in Nat /\ IndexMod > Capacity /\ IndexMod > 0 /\ MaxObjs \in Nat /\ MaxObjs < IndexMod
  /\ \A x \in Index : x \in Int /\ 0 <= x /\ x < IndexMod
  /\ \A x \in Int : 0 <= x /\ x < IndexMod => x \in Index
<1>1. Size \in Nat /\ Size >= 2 /\ IndexMod \in Nat /\ IndexMod >= 2 * Size
  BY RingAssumption
<1>2. Capacity \in Nat /\ Capacity = Size - 1 /\ IndexMod > Capacity /\ IndexMod > 0
  BY <1>1 DEF Capacity
<1>3. MaxObjs \in Nat /\ MaxObjs < IndexMod
  BY <1>1, RingAssumption
<1>4. (\A x \in Index : x \in Int /\ 0 <= x /\ x < IndexMod)
      /\ (\A x \in Int : 0 <= x /\ x < IndexMod => x \in Index)
  BY <1>1 DEF Index
<1>5. QED
  BY <1>1, <1>2, <1>3, <1>4

\* How many objects have passed index x of a ring that started at s.
Pos(s, x) == Ahead(s, x)

\* Two indices, by their size.
LEMMA AheadCases ==
  ASSUME NEW a \in Index, NEW b \in Index
  PROVE  Ahead(a, b) \in Index /\ Ahead(a, b) = IF b >= a THEN b - a ELSE b - a + IndexMod
<1> DEFINE M == IndexMod
           d == b - a
<1>1. M \in Nat /\ M > 0 /\ a \in 0 .. M - 1 /\ b \in 0 .. M - 1
  BY RingConstants DEF Index
<1> HIDE DEF M
<1>2. CASE b >= a
  <2>1. d \in 0 .. M - 1 /\ d % M = d
    BY <1>1, <1>2
  <2>2. QED
    BY <1>2, <2>1 DEF Ahead, Index, M
<1>3. CASE b < a
  <2>1. d + M \in 0 .. M - 1
    BY <1>1, <1>3
  <2>2. ((d + M) - M) % M = d + M /\ (d + M) - M = d
    BY <1>1, <2>1
  <2>3. QED
    BY <1>1, <1>3, <2>1, <2>2 DEF Ahead, Index, M
<1>4. QED
  BY <1>1, <1>2, <1>3

\* Positions.
LEMMA PosFacts ==
  ASSUME NEW s \in Index, NEW a \in Index, NEW b \in Index
  PROVE  /\ Pos(s, a) \in Nat /\ Pos(s, a) < IndexMod
         /\ Pos(s, a) = Pos(s, b) => a = b
         /\ Ahead(a, b) \in Nat
         /\ Pos(s, a) <= Pos(s, b) => Ahead(a, b) = Pos(s, b) - Pos(s, a)
<1>1. /\ Ahead(s, a) = IF a >= s THEN a - s ELSE a - s + IndexMod
      /\ Ahead(s, b) = IF b >= s THEN b - s ELSE b - s + IndexMod
      /\ Ahead(a, b) = IF b >= a THEN b - a ELSE b - a + IndexMod
      /\ Ahead(s, a) \in Index /\ Ahead(s, b) \in Index /\ Ahead(a, b) \in Index
  BY AheadCases
<1>2. /\ a \in Int /\ 0 <= a /\ a < IndexMod /\ b \in Int /\ 0 <= b /\ b < IndexMod
      /\ s \in Int /\ 0 <= s /\ s < IndexMod /\ IndexMod \in Nat
  BY RingConstants
<1>3. Ahead(s, a) \in Nat /\ Ahead(s, a) < IndexMod /\ Ahead(a, b) \in Nat
  BY <1>1, RingConstants
<1>4. Ahead(s, a) = Ahead(s, b) => a = b
  BY <1>1, <1>2
<1>5. Ahead(s, a) <= Ahead(s, b) => Ahead(a, b) = Ahead(s, b) - Ahead(s, a)
  BY <1>1, <1>2
<1>6. QED
  BY <1>3, <1>4, <1>5 DEF Pos

\* An index that moves on.
LEMMA PosPlus ==
  ASSUME NEW s \in Index, NEW a \in Index, NEW n \in Nat, Pos(s, a) + n < IndexMod
  PROVE  (a + n) % IndexMod \in Index /\ Pos(s, (a + n) % IndexMod) = Pos(s, a) + n
<1> DEFINE M == IndexMod
           b == (a + n) % M
<1>1. /\ M \in Nat /\ M > 0 /\ a \in 0 .. M - 1 /\ s \in 0 .. M - 1
      /\ Pos(s, a) = IF a >= s THEN a - s ELSE a - s + M
  BY RingConstants, AheadCases DEF Index, Pos
<1> HIDE DEF M
<1>2. CASE a + n < M
  <2>1. b = a + n
    BY <1>1, <1>2
  <2>2. b \in 0 .. M - 1
    BY <1>1, <1>2, <2>1
  <2>3. b \in Index /\ Pos(s, b) = IF b >= s THEN b - s ELSE b - s + M
    BY <2>2, AheadCases DEF Index, Pos, M
  <2>4. QED
    BY <1>1, <1>2, <2>1, <2>3 DEF M
<1>3. CASE a + n >= M
  <2>1. a + n - M \in 0 .. M - 1
    BY <1>1, <1>3 DEF M
  <2>2. ((a + n - M) + M) % M = a + n - M /\ (a + n - M) + M = a + n
    BY <1>1, <2>1
  <2>3. b = a + n - M
    BY <2>2
  <2>4. b \in Index /\ Pos(s, b) = IF b >= s THEN b - s ELSE b - s + M
    BY <1>1, <2>1, <2>3, AheadCases DEF Index, Pos, M
  <2>5. QED
    BY <1>1, <1>3, <2>1, <2>3, <2>4 DEF M
<1>4. QED
  BY <1>1, <1>2, <1>3 DEF M

\* The room that a producer with an old head computes is not more than there is.
LEMMA FreeBound ==
  ASSUME NEW s \in Index, NEW c \in Index, NEW o \in Index,
         Pos(s, o) <= Pos(s, c) + Capacity
  PROVE  /\ (Capacity + c - o) % IndexMod \in Nat
         /\ Pos(s, o) + ((Capacity + c - o) % IndexMod) <= Pos(s, c) + Capacity
<1> DEFINE M == IndexMod
           C == Capacity
           x == C + c - o
           v == C + Pos(s, c) - Pos(s, o)
<1>1. /\ M \in Nat /\ M > 0 /\ C \in Nat /\ C < M
      /\ c \in 0 .. M - 1 /\ o \in 0 .. M - 1 /\ s \in 0 .. M - 1
      /\ Pos(s, c) = IF c >= s THEN c - s ELSE c - s + M
      /\ Pos(s, o) = IF o >= s THEN o - s ELSE o - s + M
  BY RingConstants, AheadCases DEF Index, Pos
<1> HIDE DEF M, C
<1>2. Pos(s, c) \in 0 .. M - 1 /\ Pos(s, o) \in 0 .. M - 1
  BY <1>1
<1>3. v >= 0 /\ v \in Int /\ x \in Int /\ v < M + M /\ x \in {v, v - M, v + M}
  BY <1>1, <1>2 DEF C
<1> HIDE DEF x, v
<1>4. x = v + M * 0 \/ x = v + M * (-1) \/ x = v + M * 1
  BY <1>1, <1>3
<1>5. x % M = v % M
  BY <1>1, <1>3, <1>4, ModShift
<1>6. v % M \in Nat /\ v % M <= v
  <2>1. CASE v < M
    <3>1. v \in 0 .. M - 1
      BY <1>1, <1>3, <2>1
    <3>2. v % M = v
      BY <1>1, <3>1
    <3>3. QED
      BY <1>3, <3>1, <3>2
  <2>2. CASE v >= M
    <3>1. v % M \in 0 .. M - 1
      BY <1>1, <1>3
    <3>2. QED
      BY <1>1, <1>3, <2>2, <3>1
  <2>3. QED
    BY <1>1, <1>3, <2>1, <2>2
<1>7. Pos(s, o) + v = Pos(s, c) + C
  BY <1>1, <1>2 DEF v
<1>8. QED
  BY <1>2, <1>3, <1>5, <1>6, <1>7 DEF x, M, C

\* The slot of an index, by position.
LEMMA SlotPos ==
  ASSUME NEW s \in Index, NEW a \in Index, NEW i \in Nat
  PROVE  SlotAt(a, i) = (s + Pos(s, a) + i - 1) % Size /\ SlotAt(a, i) \in 0 .. Size - 1
<1>1. /\ Size \in Int /\ Size > 0 /\ IndexMod \in Int /\ IndexMod % Size = 0
      /\ a \in Int /\ s \in Int
  BY RingConstants, RingAssumption
<1> DEFINE k == IndexMod \div Size
<1>2. k \in Int /\ IndexMod = Size * k + (IndexMod % Size)
  BY <1>1, DivMod
<1> HIDE DEF k
<1>3. IndexMod = Size * k
  BY <1>1, <1>2
<1>4. Pos(s, a) = a - s \/ Pos(s, a) = a - s + IndexMod
  BY AheadCases DEF Pos
<1>5. s + Pos(s, a) + i - 1 = a + i - 1 \/ s + Pos(s, a) + i - 1 = (a + i - 1) + Size * k
  BY <1>1, <1>2, <1>3, <1>4
<1>6. ((a + i - 1) + Size * k) % Size = (a + i - 1) % Size
  <2> DEFINE x == a + i - 1
  <2>1. x \in Int
    BY <1>1
  <2> HIDE DEF x
  <2>2. (x + Size * k) % Size = x % Size
    BY <1>1, <1>2, <2>1, ModShift
  <2>3. QED
    BY <2>2 DEF x
<1>7. (a + i - 1) % Size \in 0 .. Size - 1
  BY <1>1
<1>8. QED
  BY <1>5, <1>6, <1>7 DEF SlotAt

\* Positions less than Size apart are different slots.
LEMMA SlotApart ==
  ASSUME NEW s \in Index, NEW p \in Nat, NEW q \in Nat, p < q, q < p + Size
  PROVE  (s + p) % Size # (s + q) % Size
<1>1. Size \in Int /\ Size > 0 /\ s \in Int
  BY RingConstants
<1>2. s + p \in Int /\ s + q \in Int /\ s + p <= s + q /\ s + q < (s + p) + Size /\ s + p # s + q
  BY <1>1
<1>3. QED
  BY <1>1, <1>2, ModApart

-----------------------------------------------------------------------------
(* The inductive invariant *)

Waiting == {"head", "room", "cas"}
Reserved == {"copy", "tail"}

CallType ==
  [pc: {"idle", "head", "room", "cas", "copy", "tail"}, side: Side, fixed: BOOLEAN,
   max: Nat, n: Nat, old: Index, objs: Seq(Obj)]
HtType == [Side -> [head: Index, tail: Index, single: BOOLEAN]]
SlotType == [0 .. Size - 1 -> Obj \cup {0}]

\* How far the head of side d may go.
Lim(s, hts, d) ==
  IF d = "prod" THEN Pos(s, hts["cons"].tail) + Capacity ELSE Pos(s, hts["prod"].tail)

\* The four indices are in order.
Ordered(s, hts) ==
  \A d \in Side : /\ Pos(s, hts[d].tail) <= Pos(s, hts[d].head)
                  /\ Pos(s, hts[d].head) <= Lim(s, hts, d)

\* What a call in progress knows.  An old head may be stale, but what was computed
\* from it stays within the limit, which only grows; a reservation lies between
\* the tail and the head of its side.
CallOK(s, hts, slots, h) ==
  /\ h.pc \in Waiting => h.max >= 1 /\ (h.side = "prod" => Len(h.objs) = h.max)
  /\ h.pc \in {"room", "cas"} => Pos(s, h.old) <= Pos(s, hts[h.side].head)
  /\ h.pc = "cas" =>
       1 <= h.n /\ h.n <= h.max /\ Pos(s, h.old) + h.n <= Lim(s, hts, h.side)
  /\ h.pc \in Reserved =>
       /\ 1 <= h.n /\ Pos(s, hts[h.side].tail) <= Pos(s, h.old)
       /\ Pos(s, h.old) + h.n <= Pos(s, hts[h.side].head)
  /\ h.pc = "copy" /\ h.side = "prod" => h.n <= Len(h.objs)
  /\ h.pc = "tail" /\ h.side = "prod" => \A i \in 1 .. h.n : slots[SlotAt(h.old, i)] # 0

\* Two reservations of one side do not overlap.
Disjoint(s, h, g) ==
  h.pc \in Reserved /\ g.pc \in Reserved /\ h.side = g.side =>
    Pos(s, h.old) + h.n <= Pos(s, g.old) \/ Pos(s, g.old) + g.n <= Pos(s, h.old)

\* What the caller alone on a single side knows without a compare-and-set.
Undisturbed(s, e, h) ==
  /\ h.pc \in {"room", "cas"} => h.old = e.head
  /\ h.pc \in Waiting => e.tail = e.head
  /\ h.pc \in Reserved => h.old = e.tail /\ Pos(s, h.old) + h.n = Pos(s, e.head)

\* A thread that uses a single side is alone there.
Alone(s, hts, ths, t) ==
  hts[ths[t].side].single /\ ths[t].pc # "idle" =>
    /\ \A u \in Thread \ {t} : ths[u].pc = "idle" \/ ths[u].side # ths[t].side
    /\ Undisturbed(s, hts[ths[t].side], ths[t])

\* A single side that nobody uses has no reservation.
Unused(hts, ths) ==
  \A d \in Side :
    hts[d].single /\ (\A t \in Thread : ths[t].pc = "idle" \/ ths[t].side # d)
      => hts[d].tail = hts[d].head

\* Every slot up to prod.tail has been written.
Stored(s, hts, slots) ==
  \A p \in Nat : p < Pos(s, hts["prod"].tail) => slots[(s + p) % Size] # 0

\* h is an enqueue that has not reserved its slots.
ToCome(h) == h.pc \in Waiting /\ h.side = "prod"

\* Its objects, an interval.
ObjsOf(h) == {o \in Obj : \E i \in 1 .. Len(h.objs) : h.objs[i] = o}

\* The objects that are still to be put in the ring.
Pending(ths) == {o \in Obj : \E t \in Thread : ToCome(ths[t]) /\ o \in ObjsOf(ths[t])}

\* The callers' tables hold distinct objects, and no more slots have been reserved
\* than objects are gone from them: fewer than IndexMod.
Supplied(s, hts, ths, nx) ==
  /\ \A t \in Thread : ToCome(ths[t]) =>
       /\ ObjsOf(ths[t]) \subseteq 1 .. nx - 1
       /\ Cardinality(ObjsOf(ths[t])) = ths[t].max
       /\ \A u \in Thread \ {t} : ToCome(ths[u]) => ObjsOf(ths[t]) \cap ObjsOf(ths[u]) = {}
  /\ Pos(s, hts["prod"].head) + Cardinality(Pending(ths)) <= nx - 1

Apart(s, ths) == \A t \in Thread : \A u \in Thread \ {t} : Disjoint(s, ths[t], ths[u])

RingInv(s) ==
  /\ RingTypeOK
  /\ Ordered(s, ht)
  /\ \A t \in Thread : CallOK(s, ht, slot, th[t])
  /\ Apart(s, th)
  /\ \A t \in Thread : Alone(s, ht, th, t)
  /\ Unused(ht, th)
  /\ Stored(s, ht, slot)
  /\ Supplied(s, ht, th, next)

\* The types of the fields.
LEMMA CallFields ==
  ASSUME NEW h \in CallType
  PROVE  /\ h.pc \in {"idle", "head", "room", "cas", "copy", "tail"} /\ h.side \in Side
         /\ h.max \in Nat /\ h.n \in Nat /\ h.old \in Index /\ h.objs \in Seq(Obj)
         /\ Len(h.objs) \in Nat
BY DEF CallType

LEMMA HtFields ==
  ASSUME NEW hts \in HtType, NEW d \in Side
  PROVE  hts[d].head \in Index /\ hts[d].tail \in Index
BY DEF HtType

\* The type invariant in those terms.
LEMMA TypeParts ==
  RingTypeOK <=> /\ ht \in HtType /\ slot \in SlotType
                 /\ th \in [Thread -> CallType] /\ next \in 1 .. MaxObjs + 1
BY DEF RingTypeOK, HtType, SlotType, CallType

\* The sides.
LEMMA Sides == "prod" \in Side /\ "cons" \in Side /\ \A d \in Side : d = "prod" \/ d = "cons"
BY DEF Side

\* Limits are numbers, and grow with the tails.
LEMMA LimFacts ==
  ASSUME NEW s \in Index, NEW hts \in HtType, NEW d \in Side
  PROVE  /\ Lim(s, hts, d) \in Nat
         /\ \A g \in HtType : (\A e \in Side : Pos(s, hts[e].tail) <= Pos(s, g[e].tail))
                                => Lim(s, hts, d) <= Lim(s, g, d)
<1>1. \A g \in HtType, e \in Side : Pos(s, g[e].tail) \in Nat
  BY HtFields, PosFacts
<1>2. Capacity \in Nat
  BY RingConstants
<1>3. QED
  BY <1>1, <1>2, Sides DEF Lim

\* A call that another thread is in is not disturbed when the indices grow and no
\* slot is emptied, as long as the tail stays behind its reservation.
LEMMA CallMono ==
  ASSUME NEW s \in Index, NEW hts \in HtType, NEW g \in HtType, NEW sl, NEW sl2,
         NEW h \in CallType, CallOK(s, hts, sl, h),
         \A e \in Side : /\ Pos(s, hts[e].tail) <= Pos(s, g[e].tail)
                         /\ Pos(s, hts[e].head) <= Pos(s, g[e].head),
         h.pc \in Reserved => Pos(s, g[h.side].tail) <= Pos(s, h.old),
         \A x \in 0 .. Size - 1 : sl[x] # 0 => sl2[x] # 0
  PROVE  CallOK(s, g, sl2, h)
<1>1. /\ h.side \in Side /\ h.n \in Nat /\ h.old \in Index /\ Pos(s, h.old) \in Nat
  BY CallFields, PosFacts
<1>2. /\ Pos(s, g[h.side].tail) \in Nat /\ Pos(s, g[h.side].head) \in Nat
      /\ Pos(s, hts[h.side].tail) \in Nat /\ Pos(s, hts[h.side].head) \in Nat
  BY <1>1, HtFields, PosFacts
<1>3. /\ Lim(s, hts, h.side) \in Nat /\ Lim(s, g, h.side) \in Nat
      /\ Lim(s, hts, h.side) <= Lim(s, g, h.side)
  BY <1>1, LimFacts
<1>4. Pos(s, hts[h.side].head) <= Pos(s, g[h.side].head)
  BY <1>1
<1>5. h.pc \in {"room", "cas"} => Pos(s, h.old) <= Pos(s, g[h.side].head)
  BY <1>1, <1>2, <1>4 DEF CallOK
<1>6. h.pc = "cas" => 1 <= h.n /\ h.n <= h.max /\ Pos(s, h.old) + h.n <= Lim(s, g, h.side)
  BY <1>1, <1>3 DEF CallOK
<1>7. h.pc \in Reserved =>
        /\ 1 <= h.n /\ Pos(s, g[h.side].tail) <= Pos(s, h.old)
        /\ Pos(s, h.old) + h.n <= Pos(s, g[h.side].head)
  BY <1>1, <1>2, <1>4 DEF CallOK
<1>8. \A i \in 1 .. h.n : SlotAt(h.old, i) \in 0 .. Size - 1
  BY <1>1, SlotPos
<1>9. h.pc = "tail" /\ h.side = "prod" => \A i \in 1 .. h.n : sl2[SlotAt(h.old, i)] # 0
  BY <1>8 DEF CallOK
<1>10. QED
  BY <1>5, <1>6, <1>7, <1>9 DEF CallOK

-----------------------------------------------------------------------------
(* The objects still to come *)

\* Sets of objects are finite.
LEMMA ObjsFinite ==
  /\ \A A : A \subseteq Obj => IsFiniteSet(A) /\ Cardinality(A) \in Nat
  /\ \A A, B : A \subseteq B /\ B \subseteq Obj => Cardinality(A) <= Cardinality(B)
  /\ \A A, B : A \subseteq Obj /\ B \subseteq Obj
                 => Cardinality(A \cup B) <= Cardinality(A) + Cardinality(B)
  /\ \A A, B, C : C \subseteq B /\ B \subseteq Obj /\ A \subseteq B \ C
                    => Cardinality(A) + Cardinality(C) <= Cardinality(B)
<1>1. IsFiniteSet(Obj)
  BY FS_Interval, RingConstants DEF Obj
<1>2. \A A : A \subseteq Obj => IsFiniteSet(A) /\ Cardinality(A) \in Nat
  BY <1>1, FS_Subset, FS_CardinalityType
<1>3. \A A, B : A \subseteq B /\ B \subseteq Obj => Cardinality(A) <= Cardinality(B)
  BY <1>2, FS_Subset
<1>4. ASSUME NEW A, NEW B, A \subseteq Obj, B \subseteq Obj
      PROVE  Cardinality(A \cup B) <= Cardinality(A) + Cardinality(B)
  <2>1. A \cap B \subseteq Obj /\ A \cup B \subseteq Obj
    BY <1>4
  <2>2. /\ IsFiniteSet(A) /\ IsFiniteSet(B) /\ Cardinality(A) \in Nat /\ Cardinality(B) \in Nat
        /\ Cardinality(A \cap B) \in Nat
    BY <1>2, <1>4, <2>1
  <2>3. Cardinality(A \cup B) = Cardinality(A) + Cardinality(B) - Cardinality(A \cap B)
    BY <2>2, FS_Union
  <2>4. QED
    BY <2>2, <2>3
<1>5. ASSUME NEW A, NEW B, NEW C, C \subseteq B, B \subseteq Obj, A \subseteq B \ C
      PROVE  Cardinality(A) + Cardinality(C) <= Cardinality(B)
  <2>1. B \ C \subseteq Obj /\ C \subseteq Obj /\ A \subseteq Obj /\ B \cap C = C
    BY <1>5
  <2>2. /\ IsFiniteSet(B) /\ Cardinality(A) \in Nat /\ Cardinality(C) \in Nat
        /\ Cardinality(B) \in Nat /\ Cardinality(B \ C) \in Nat
    BY <1>2, <1>5, <2>1
  <2>3. Cardinality(B \ C) = Cardinality(B) - Cardinality(C)
    BY <2>1, <2>2, FS_Difference
  <2>4. Cardinality(A) <= Cardinality(B \ C)
    BY <1>3, <1>5, <2>1
  <2>5. QED
    BY <2>2, <2>3, <2>4
<1>6. QED
  BY <1>2, <1>3, <1>4, <1>5

\* A step of thread t that does not move prod.head and starts no enqueue leaves
\* no more objects to come than there were.
LEMMA SuppliedStep ==
  ASSUME NEW s \in Index, NEW hts, NEW g, NEW ths, NEW ths2, NEW nx,
         Supplied(s, hts, ths, nx), NEW t \in Thread,
         \A u \in Thread \ {t} : ths2[u] = ths[u],
         ToCome(ths2[t]) => /\ ToCome(ths[t]) /\ ths2[t].objs = ths[t].objs
                            /\ ths2[t].max = ths[t].max,
         Pos(s, g["prod"].head) = Pos(s, hts["prod"].head),
         Pos(s, hts["prod"].head) \in Nat, nx \in Nat
  PROVE  Supplied(s, g, ths2, nx)
<1>1. ASSUME NEW u \in Thread, ToCome(ths2[u])
      PROVE  ToCome(ths[u]) /\ ObjsOf(ths2[u]) = ObjsOf(ths[u]) /\ ths2[u].max = ths[u].max
  <2>1. CASE u = t
    BY <1>1, <2>1 DEF ObjsOf
  <2>2. CASE u # t
    BY <1>1, <2>2
  <2>3. QED
    BY <2>1, <2>2
<1>2. Pending(ths2) \subseteq Pending(ths) /\ Pending(ths) \subseteq Obj
  BY <1>1 DEF Pending
<1>3. /\ Cardinality(Pending(ths2)) <= Cardinality(Pending(ths))
      /\ Cardinality(Pending(ths2)) \in Nat /\ Cardinality(Pending(ths)) \in Nat
  BY <1>2, ObjsFinite
<1>4. Pos(s, g["prod"].head) + Cardinality(Pending(ths2)) <= nx - 1
  BY <1>3 DEF Supplied
<1>5. ASSUME NEW u \in Thread, ToCome(ths2[u])
      PROVE  /\ ObjsOf(ths2[u]) \subseteq 1 .. nx - 1
             /\ Cardinality(ObjsOf(ths2[u])) = ths2[u].max
             /\ \A v \in Thread \ {u} : ToCome(ths2[v]) => ObjsOf(ths2[u]) \cap ObjsOf(ths2[v]) = {}
  BY <1>1, <1>5 DEF Supplied
<1>6. QED
  BY <1>4, <1>5 DEF Supplied

\* When thread t reserves slots for n of its objects, or for all of them, prod.head
\* moves by as much.
LEMMA SuppliedReserve ==
  ASSUME NEW s \in Index, NEW hts, NEW g, NEW ths, NEW ths2, NEW nx \in Nat,
         Supplied(s, hts, ths, nx), NEW t \in Thread,
         \A u \in Thread \ {t} : ths2[u] = ths[u],
         ToCome(ths[t]), ~ ToCome(ths2[t]), ths[t].max \in Nat,
         NEW n \in Nat, n <= ths[t].max,
         Pos(s, g["prod"].head) = Pos(s, hts["prod"].head) + n,
         Pos(s, hts["prod"].head) \in Nat
  PROVE  Supplied(s, g, ths2, nx)
<1>1. \A u \in Thread : ToCome(ths2[u]) => u # t /\ ToCome(ths[u]) /\ ths2[u] = ths[u]
  OBVIOUS
<1> DEFINE A == Pending(ths2)
           B == Pending(ths)
           C == ObjsOf(ths[t])
<1>2. C \subseteq B /\ B \subseteq Obj
  BY DEF Pending, ObjsOf
<1>3. ASSUME NEW o \in A PROVE o \in B \ C
  <2>1. PICK u \in Thread : ToCome(ths2[u]) /\ o \in ObjsOf(ths2[u])
    BY <1>3 DEF Pending
  <2>2. u # t /\ ToCome(ths[u]) /\ o \in ObjsOf(ths[u])
    BY <1>1, <2>1
  <2>3. o \in B
    BY <2>2 DEF Pending, ObjsOf
  <2>4. C \cap ObjsOf(ths[u]) = {}
    BY <2>2 DEF Supplied
  <2>5. QED
    BY <2>2, <2>3, <2>4
<1> HIDE DEF A, B, C
<1>4. Cardinality(A) + Cardinality(C) <= Cardinality(B) /\ A \subseteq Obj /\ C \subseteq Obj
  BY <1>2, <1>3, ObjsFinite
<1>5. Cardinality(A) \in Nat /\ Cardinality(B) \in Nat /\ Cardinality(C) = ths[t].max
  BY <1>2, <1>4, ObjsFinite DEF Supplied, C
<1>6. Pos(s, hts["prod"].head) + Cardinality(B) <= nx - 1
  BY DEF Supplied, B
<1>7. Pos(s, g["prod"].head) + Cardinality(A) <= nx - 1
  BY <1>4, <1>5, <1>6
<1>8. ASSUME NEW u \in Thread, ToCome(ths2[u])
      PROVE  /\ ObjsOf(ths2[u]) \subseteq 1 .. nx - 1
             /\ Cardinality(ObjsOf(ths2[u])) = ths2[u].max
             /\ \A v \in Thread \ {u} : ToCome(ths2[v]) => ObjsOf(ths2[u]) \cap ObjsOf(ths2[v]) = {}
  BY <1>1, <1>8 DEF Supplied
<1>9. QED
  BY <1>7, <1>8 DEF Supplied, A

-----------------------------------------------------------------------------
(* A step of one thread *)

\* What remains to be shown of a step of a thread that is in a call: only what
\* concerns that thread and what it has changed.
LEMMA StepFrame ==
  ASSUME NEW s \in Index, RingInv(s), NEW t \in Thread, th[t].pc # "idle",
         NEW r \in CallType, th' = [th EXCEPT ![t] = r],
         r.side = th[t].side \/ r.pc = "idle",
         ht' \in HtType, slot' \in SlotType, UNCHANGED next,
         \A d \in Side : ht'[d].single = ht[d].single,
         \A d \in Side : d # th[t].side => ht'[d] = ht[d],
         \A x \in 0 .. Size - 1 : slot[x] # 0 => slot'[x] # 0,
         Ordered(s, ht'),
         \A d \in Side : /\ Pos(s, ht[d].tail) <= Pos(s, ht'[d].tail)
                         /\ Pos(s, ht[d].head) <= Pos(s, ht'[d].head),
         CallOK(s, ht', slot', r),
         \A u \in Thread \ {t} : th[u].pc \in Reserved /\ th[u].side = th[t].side =>
                                   Pos(s, ht'[th[t].side].tail) <= Pos(s, th[u].old),
         \A u \in Thread \ {t} : Disjoint(s, r, th[u]),
         ht[th[t].side].single /\ r.pc # "idle" => Undisturbed(s, ht'[th[t].side], r),
         ht[th[t].side].single /\ r.pc = "idle" => ht'[th[t].side].tail = ht'[th[t].side].head,
         Stored(s, ht', slot'),
         Supplied(s, ht', th', next')
  PROVE  RingInv(s)'
<1> DEFINE d == th[t].side
<1>1. /\ ht \in HtType /\ slot \in SlotType /\ th \in [Thread -> CallType]
      /\ next \in 1 .. MaxObjs + 1
  BY TypeParts DEF RingInv
<1>2. th' \in [Thread -> CallType] /\ th'[t] = r /\ \A u \in Thread \ {t} : th'[u] = th[u]
  BY <1>1
<1>3. RingTypeOK'
  BY <1>1, <1>2 DEF RingTypeOK, HtType, SlotType, CallType
<1>4. d \in Side /\ \A u \in Thread : th[u] \in CallType /\ th[u].side \in Side
  BY <1>1, CallFields
<1>5. ASSUME NEW u \in Thread PROVE CallOK(s, ht', slot', th'[u])
  <2>1. CASE u = t
    BY <1>2, <2>1
  <2>2. CASE u # t
    <3>1. th[u].pc \in Reserved => Pos(s, ht'[th[u].side].tail) <= Pos(s, th[u].old)
      <4>1. CASE th[u].side = d
        BY <2>2, <4>1
      <4>2. CASE th[u].side # d
        BY <1>4, <4>2 DEF RingInv, CallOK
      <4>3. QED
        BY <4>1, <4>2
    <3>2. CallOK(s, ht, slot, th[u])
      BY DEF RingInv
    <3>3. CallOK(s, ht', slot', th[u])
      BY <1>1, <1>4, <3>1, <3>2, CallMono
    <3>4. QED
      BY <1>2, <2>2, <3>3
  <2>3. QED
    BY <2>1, <2>2
<1>6. Apart(s, th')
  <2> SUFFICES ASSUME NEW u \in Thread, NEW v \in Thread \ {u} PROVE Disjoint(s, th'[u], th'[v])
    BY DEF Apart
  <2>1. CASE u = t
    BY <1>2, <2>1
  <2>2. CASE v = t
    <3>1. Disjoint(s, r, th[u]) /\ th'[v] = r /\ th'[u] = th[u]
      BY <1>2, <2>2
    <3>2. QED
      BY <3>1 DEF Disjoint
  <2>3. CASE u # t /\ v # t
    BY <1>2, <2>3 DEF RingInv, Apart
  <2>4. QED
    BY <2>1, <2>2, <2>3
<1>7. ASSUME NEW u \in Thread PROVE Alone(s, ht', th', u)
  <2> SUFFICES ASSUME ht'[th'[u].side].single, th'[u].pc # "idle"
               PROVE  /\ \A v \in Thread \ {u} : th'[v].pc = "idle" \/ th'[v].side # th'[u].side
                      /\ Undisturbed(s, ht'[th'[u].side], th'[u])
    BY DEF Alone
  <2>1. Alone(s, ht, th, t) /\ Alone(s, ht, th, u)
    BY DEF RingInv
  <2>2. CASE u = t
    <3>1. th'[u] = r /\ r.side = d /\ ht[d].single
      BY <1>2, <1>4, <2>2
    <3>2. \A v \in Thread \ {t} : th[v].pc = "idle" \/ th[v].side # d
      BY <2>1, <3>1 DEF Alone
    <3>3. QED
      BY <1>2, <2>2, <3>1, <3>2
  <2>3. CASE u # t
    <3>1. th'[u] = th[u] /\ ht[th[u].side].single /\ th[u].pc # "idle"
      BY <1>2, <1>4, <2>3
    <3>2. th[u].side # d
      BY <2>1, <2>3, <3>1 DEF Alone
    <3>3. ht'[th[u].side] = ht[th[u].side]
      BY <1>4, <3>2
    <3>4. \A v \in Thread \ {u} : th[v].pc = "idle" \/ th[v].side # th[u].side
      BY <2>1, <3>1 DEF Alone
    <3>5. \A v \in Thread \ {u} : th'[v].pc = "idle" \/ th'[v].side # th[u].side
      BY <1>2, <3>2, <3>4
    <3>6. Undisturbed(s, ht[th[u].side], th[u])
      BY <2>1, <3>1 DEF Alone
    <3>7. QED
      BY <3>1, <3>3, <3>5, <3>6
  <2>4. QED
    BY <2>2, <2>3
<1>8. Unused(ht', th')
  <2> SUFFICES ASSUME NEW e \in Side, ht'[e].single,
                      \A u \in Thread : th'[u].pc = "idle" \/ th'[u].side # e
               PROVE  ht'[e].tail = ht'[e].head
    BY DEF Unused
  <2>1. CASE e = d
    BY <1>2, <2>1
  <2>2. CASE e # d
    <3>1. ht'[e] = ht[e] /\ \A u \in Thread : th[u].pc = "idle" \/ th[u].side # e
      BY <1>2, <2>2
    <3>2. QED
      BY <3>1 DEF RingInv, Unused
  <2>3. QED
    BY <2>1, <2>2
<1>9. QED
  BY <1>3, <1>5, <1>6, <1>7, <1>8 DEF RingInv

-----------------------------------------------------------------------------
(* The calls *)

\* A call that begins.
LEMMA CallFrame ==
  ASSUME NEW s \in Index, RingInv(s), NEW t \in Thread, th[t].pc = "idle",
         NEW r \in CallType, th' = [th EXCEPT ![t] = r], r.pc = "head", r.max >= 1,
         r.side = "prod" => Len(r.objs) = r.max,
         Permitted(t, r.side), UNCHANGED <<ht, slot>>, next' \in 1 .. MaxObjs + 1,
         Supplied(s, ht, th', next')
  PROVE  RingInv(s)'
<1> DEFINE d == r.side
<1>1. /\ ht \in HtType /\ slot \in SlotType /\ th \in [Thread -> CallType] /\ d \in Side
  BY TypeParts, CallFields DEF RingInv
<1>2. th' \in [Thread -> CallType] /\ th'[t] = r /\ \A u \in Thread \ {t} : th'[u] = th[u]
  BY <1>1
<1>3. RingTypeOK'
  BY <1>1, <1>2 DEF RingTypeOK, HtType, SlotType, CallType
<1>4. \A u \in Thread : CallOK(s, ht', slot', th'[u])
  <2>1. CallOK(s, ht, slot, r)
    BY DEF CallOK, Waiting, Reserved
  <2>2. QED
    BY <1>2, <2>1 DEF RingInv
<1>5. Apart(s, th')
  <2>1. \A g : Disjoint(s, r, g) /\ Disjoint(s, g, r)
    BY DEF Disjoint, Reserved
  <2>2. QED
    BY <1>2, <2>1 DEF RingInv, Apart
<1>6. ASSUME NEW u \in Thread PROVE Alone(s, ht', th', u)
  <2> SUFFICES ASSUME ht[th'[u].side].single, th'[u].pc # "idle"
               PROVE  /\ \A v \in Thread \ {u} : th'[v].pc = "idle" \/ th'[v].side # th'[u].side
                      /\ Undisturbed(s, ht[th'[u].side], th'[u])
    BY DEF Alone
  <2>1. CASE u = t
    <3>1. \A v \in Thread \ {t} : th[v].pc = "idle" \/ th[v].side # d
      BY <1>2, <2>1 DEF Permitted
    <3>2. \A v \in Thread : th[v].pc = "idle" \/ th[v].side # d
      BY <3>1
    <3>3. ht[d].tail = ht[d].head
      BY <1>1, <1>2, <2>1, <3>2 DEF RingInv, Unused
    <3>4. QED
      BY <1>2, <2>1, <3>1, <3>3 DEF Undisturbed, Reserved
  <2>2. CASE u # t
    <3>1. th'[u] = th[u] /\ Alone(s, ht, th, u)
      BY <1>2, <2>2 DEF RingInv
    <3>2. th[u].side # d
      BY <2>2, <3>1 DEF Permitted
    <3>3. QED
      BY <1>2, <3>1, <3>2 DEF Alone
  <2>3. QED
    BY <2>1, <2>2
<1>7. Unused(ht', th')
  <2> SUFFICES ASSUME NEW e \in Side, ht[e].single,
                      \A u \in Thread : th'[u].pc = "idle" \/ th'[u].side # e
               PROVE  ht[e].tail = ht[e].head
    BY DEF Unused
  <2>1. \A u \in Thread : th[u].pc = "idle" \/ th[u].side # e
    BY <1>2
  <2>2. QED
    BY <2>1 DEF RingInv, Unused
<1>8. QED
  BY <1>3, <1>4, <1>5, <1>6, <1>7 DEF RingInv

\* A burst is a number of objects.
LEMMA BurstNat == \A n \in 2 .. MaxBurst : n \in Nat /\ n >= 1
BY RingAssumption

\* rte_ring_enqueue and its variants.
LEMMA EnqueueStep ==
  ASSUME NEW s \in Index, RingInv(s), NEW t \in Thread, NEW fixed \in BOOLEAN,
         NEW n \in Nat, n >= 1, Enqueue(t, fixed, n)
  PROVE  RingInv(s)'
<1> DEFINE objs == Fresh(n)
           r == [IdleThread EXCEPT !.pc = "head", !.side = "prod", !.fixed = fixed,
                                   !.max = n, !.objs = objs]
           S == next .. next + n - 1
<1>1. /\ th \in [Thread -> CallType] /\ next \in Nat /\ next >= 1 /\ next + n - 1 <= MaxObjs
      /\ next' = next + n /\ MaxObjs \in Nat /\ ht \in HtType
  BY TypeParts, RingConstants DEF RingInv, Enqueue
<1>2. /\ objs \in Seq(Obj) /\ Len(objs) = n /\ DOMAIN objs = 1 .. n
      /\ \A i \in 1 .. n : objs[i] = next + i - 1
  <2>1. \A i \in 1 .. n : next + i - 1 \in Obj
    BY <1>1 DEF Obj
  <2>2. QED
    BY <2>1 DEF Fresh
<1> HIDE DEF objs
<1>3. /\ r \in CallType /\ r.pc = "head" /\ r.side = "prod" /\ r.max = n /\ r.objs = objs
  <2>1. 0 \in Index
    BY RingConstants
  <2>2. QED
    BY <1>2, <2>1, Sides DEF IdleThread, CallType
<1>4. th[t].pc = "idle" /\ Permitted(t, "prod") /\ th' = [th EXCEPT ![t] = r] /\ UNCHANGED <<ht, slot>>
  BY DEF Enqueue, Call, objs
<1> HIDE DEF r
<1>5. th'[t] = r /\ \A u \in Thread \ {t} : th'[u] = th[u]
  BY <1>1, <1>4
<1>6. next' \in 1 .. MaxObjs + 1
  BY <1>1
<1>7. ObjsOf(r) = S /\ S \subseteq Obj /\ Cardinality(S) = n
  <2>1. S \subseteq Obj
    BY <1>1 DEF Obj
  <2>2. Cardinality(S) = n
    <3>1. next + n - 1 \in Int /\ next \in Int /\ ~ (next > next + n - 1)
      BY <1>1
    <3>2. Cardinality(S) = (next + n - 1) - next + 1
      BY <3>1, FS_Interval
    <3>3. QED
      BY <1>1, <3>2
  <2>3. ASSUME NEW o \in S PROVE o \in ObjsOf(r)
    <3>1. o - next + 1 \in 1 .. n /\ next + (o - next + 1) - 1 = o
      BY <1>1
    <3>2. objs[o - next + 1] = o
      BY <1>2, <3>1
    <3>3. QED
      BY <1>2, <1>3, <2>1, <3>1, <3>2 DEF ObjsOf
  <2>4. ASSUME NEW o \in ObjsOf(r) PROVE o \in S
    <3>1. PICK i \in 1 .. n : objs[i] = o
      BY <1>2, <1>3 DEF ObjsOf
    <3>2. QED
      BY <1>1, <1>2, <3>1
  <2>5. QED
    BY <2>1, <2>2, <2>3, <2>4
<1>8. \A u \in Thread : ToCome(th[u]) => ObjsOf(th[u]) \subseteq 1 .. next - 1
  BY DEF RingInv, Supplied
<1>9. \A u \in Thread : ToCome(th[u]) => ObjsOf(th[u]) \cap S = {}
  <2>1. (1 .. next - 1) \cap S = {}
    BY <1>1
  <2>2. QED
    BY <1>8, <2>1
<1>10. 1 .. next - 1 \subseteq 1 .. next' - 1 /\ S \subseteq 1 .. next' - 1
  BY <1>1
<1>11. Pos(s, ht["prod"].head) + Cardinality(Pending(th')) <= next' - 1
  <2>1. Pending(th') \subseteq Pending(th) \cup S /\ Pending(th) \subseteq Obj
    BY <1>5, <1>7 DEF Pending
  <2>2. /\ Cardinality(Pending(th')) <= Cardinality(Pending(th) \cup S)
        /\ Cardinality(Pending(th) \cup S) <= Cardinality(Pending(th)) + n
        /\ Cardinality(Pending(th')) \in Nat /\ Cardinality(Pending(th)) \in Nat
        /\ Cardinality(Pending(th) \cup S) \in Nat
    <3>1. Pending(th) \cup S \subseteq Obj /\ Pending(th') \subseteq Obj
      BY <1>7, <2>1 DEF Pending
    <3>2. QED
      BY <1>7, <2>1, <3>1, ObjsFinite
  <2>3. Pos(s, ht["prod"].head) \in Nat
    BY <1>1, Sides, HtFields, PosFacts
  <2>4. Pos(s, ht["prod"].head) + Cardinality(Pending(th)) <= next - 1
    BY DEF RingInv, Supplied
  <2>5. QED
    BY <1>1, <2>2, <2>3, <2>4
<1>12. ASSUME NEW u \in Thread, ToCome(th'[u])
       PROVE  /\ ObjsOf(th'[u]) \subseteq 1 .. next' - 1
              /\ Cardinality(ObjsOf(th'[u])) = th'[u].max
              /\ \A v \in Thread \ {u} : ToCome(th'[v]) => ObjsOf(th'[u]) \cap ObjsOf(th'[v]) = {}
  <2>1. CASE u = t
    BY <1>3, <1>5, <1>7, <1>9, <1>10, <2>1
  <2>2. CASE u # t
    <3>1. ToCome(th[u]) /\ th'[u] = th[u]
      BY <1>5, <1>12, <2>2
    <3>2. /\ ObjsOf(th[u]) \subseteq 1 .. next' - 1
          /\ Cardinality(ObjsOf(th[u])) = th[u].max
      BY <1>8, <1>10, <3>1 DEF RingInv, Supplied
    <3>3. ASSUME NEW v \in Thread \ {u}, ToCome(th'[v]) PROVE ObjsOf(th[u]) \cap ObjsOf(th'[v]) = {}
      <4>1. CASE v = t
        BY <1>5, <1>7, <1>9, <3>1, <4>1
      <4>2. CASE v # t
        BY <1>5, <3>1, <3>3, <4>2 DEF RingInv, Supplied
      <4>3. QED
        BY <4>1, <4>2
    <3>4. QED
      BY <3>1, <3>2, <3>3
  <2>3. QED
    BY <2>1, <2>2
<1>13. Supplied(s, ht, th', next')
  BY <1>11, <1>12 DEF Supplied
<1>14. r.max >= 1 /\ (r.side = "prod" => Len(r.objs) = r.max)
  BY <1>2, <1>3
<1>15. QED
  BY <1>3, <1>4, <1>6, <1>13, <1>14, CallFrame

\* rte_ring_dequeue and its variants.
LEMMA DequeueStep ==
  ASSUME NEW s \in Index, RingInv(s), NEW t \in Thread, NEW fixed \in BOOLEAN,
         NEW n \in Nat, n >= 1, Dequeue(t, fixed, n)
  PROVE  RingInv(s)'
<1> DEFINE r == [IdleThread EXCEPT !.pc = "head", !.side = "cons", !.fixed = fixed,
                                   !.max = n, !.objs = <<>>]
<1>1. /\ th \in [Thread -> CallType] /\ next \in 1 .. MaxObjs + 1 /\ ht \in HtType
  BY TypeParts DEF RingInv
<1>2. /\ r \in CallType /\ r.pc = "head" /\ r.side = "cons" /\ r.max = n
  <2>1. 0 \in Index /\ <<>> \in Seq(Obj)
    BY RingConstants
  <2>2. QED
    BY <2>1, Sides DEF IdleThread, CallType
<1>3. /\ th[t].pc = "idle" /\ Permitted(t, "cons") /\ th' = [th EXCEPT ![t] = r]
      /\ UNCHANGED <<ht, slot, next>>
  BY DEF Dequeue, Call
<1> HIDE DEF r
<1>4. th'[t] = r /\ \A u \in Thread \ {t} : th'[u] = th[u]
  BY <1>1, <1>3
<1>5. ~ ToCome(r)
  BY <1>2 DEF ToCome
<1>6. Pos(s, ht["prod"].head) \in Nat /\ next \in Nat
  BY <1>1, Sides, HtFields, PosFacts, RingConstants
<1>7. Supplied(s, ht, th', next')
  <2>1. Supplied(s, ht, th, next) /\ next' = next /\ ~ ToCome(th'[t])
    BY <1>3, <1>4, <1>5 DEF RingInv
  <2>2. Supplied(s, ht, th', next)
    BY <1>4, <1>6, <2>1, SuppliedStep
  <2>3. QED
    BY <2>1, <2>2
<1>8. QED
  BY <1>1, <1>2, <1>3, <1>7, CallFrame

-----------------------------------------------------------------------------
(* The steps of a call *)

\* Facts that every step needs.
LEMMA StepFacts ==
  ASSUME NEW s \in Index, RingInv(s), NEW t \in Thread
  PROVE  /\ ht \in HtType /\ slot \in SlotType /\ th \in [Thread -> CallType]
         /\ next \in Nat /\ th[t] \in CallType
         /\ th[t].side \in Side /\ CallOK(s, ht, slot, th[t]) /\ Alone(s, ht, th, t)
         /\ \A d \in Side : /\ ht[d].head \in Index /\ ht[d].tail \in Index
                            /\ Pos(s, ht[d].head) \in Nat /\ Pos(s, ht[d].tail) \in Nat
                            /\ Lim(s, ht, d) \in Nat
                            /\ Pos(s, ht[d].tail) <= Pos(s, ht[d].head)
                            /\ Pos(s, ht[d].head) <= Lim(s, ht, d)
         /\ Supplied(s, ht, th, next)
<1>1. /\ ht \in HtType /\ slot \in SlotType /\ th \in [Thread -> CallType]
      /\ next \in 1 .. MaxObjs + 1
  BY TypeParts DEF RingInv
<1>2. th[t] \in CallType /\ th[t].side \in Side /\ next \in Nat
  BY <1>1, CallFields, RingConstants
<1>3. \A d \in Side : /\ ht[d].head \in Index /\ ht[d].tail \in Index
                      /\ Pos(s, ht[d].head) \in Nat /\ Pos(s, ht[d].tail) \in Nat
                      /\ Lim(s, ht, d) \in Nat
  BY <1>1, HtFields, PosFacts, LimFacts
<1>4. QED
  BY <1>1, <1>2, <1>3 DEF RingInv, Ordered

\* A step that leaves the indices and the table alone.
LEMMA LocalFrame ==
  ASSUME NEW s \in Index, RingInv(s), NEW t \in Thread, th[t].pc \in Waiting,
         NEW r \in CallType, th' = [th EXCEPT ![t] = r], UNCHANGED <<ht, slot, next>>,
         \/ r.pc = "idle"
         \/ r.pc \in Waiting /\ r.side = th[t].side /\ r.objs = th[t].objs /\ r.max = th[t].max,
         CallOK(s, ht, slot, r),
         r.pc \in {"room", "cas"} /\ ht[th[t].side].single => r.old = ht[th[t].side].head
  PROVE  RingInv(s)'
<1>1. /\ ht \in HtType /\ slot \in SlotType /\ th \in [Thread -> CallType]
      /\ next \in Nat /\ Alone(s, ht, th, t) /\ Supplied(s, ht, th, next)
      /\ Pos(s, ht["prod"].head) \in Nat
  BY StepFacts, Sides
<1>2. th'[t] = r /\ \A u \in Thread \ {t} : th'[u] = th[u]
  BY <1>1
<1>3. ToCome(th'[t]) => /\ ToCome(th[t]) /\ th'[t].objs = th[t].objs
                        /\ th'[t].max = th[t].max
  BY <1>2 DEF ToCome, Waiting
<1>4. Supplied(s, ht, th', next)
  BY <1>1, <1>2, <1>3, SuppliedStep
<1>5. th[t].pc # "idle" /\ r.pc \notin Reserved
  BY DEF Waiting, Reserved
<1>6. ht[th[t].side].single =>
        ht[th[t].side].tail = ht[th[t].side].head
  BY <1>1, <1>5 DEF Alone, Undisturbed
<1>7. ht[th[t].side].single /\ r.pc # "idle" => Undisturbed(s, ht[th[t].side], r)
  BY <1>5, <1>6 DEF Undisturbed
<1>8. \A u \in Thread \ {t} : Disjoint(s, r, th[u])
  BY <1>5 DEF Disjoint
<1>9. \A u \in Thread \ {t} : th[u].pc \in Reserved /\ th[u].side = th[t].side =>
        Pos(s, ht[th[t].side].tail) <= Pos(s, th[u].old)
  BY DEF RingInv, CallOK
<1>10. Ordered(s, ht) /\ Stored(s, ht, slot)
  BY DEF RingInv
<1>11. \A d \in Side : Pos(s, ht[d].tail) \in Nat /\ Pos(s, ht[d].head) \in Nat
  BY StepFacts
<1>12. \A d \in Side : /\ Pos(s, ht[d].tail) <= Pos(s, ht'[d].tail)
                       /\ Pos(s, ht[d].head) <= Pos(s, ht'[d].head)
  BY <1>11
<1>13. QED
  BY <1>1, <1>4, <1>5, <1>6, <1>7, <1>8, <1>9, <1>10, <1>12, StepFrame

\* The head is read.
LEMMA LoadHeadStep ==
  ASSUME NEW s \in Index, RingInv(s), NEW t \in Thread, LoadHead(t)
  PROVE  RingInv(s)'
<1> DEFINE h == th[t]
           r == [h EXCEPT !.pc = "room", !.old = ht[h.side].head, !.n = h.max]
<1>1. /\ h \in CallType /\ CallOK(s, ht, slot, h) /\ h.pc = "head" /\ h.side \in Side
      /\ ht[h.side].head \in Index /\ Pos(s, ht[h.side].head) \in Nat /\ h.max \in Nat
  BY StepFacts, CallFields DEF LoadHead
<1>2. /\ r \in CallType /\ r.pc = "room" /\ r.side = h.side /\ r.max = h.max
      /\ r.objs = h.objs /\ r.old = ht[h.side].head
  BY <1>1 DEF CallType
<1>3. th' = [th EXCEPT ![t] = r] /\ UNCHANGED <<ht, slot, next>>
  BY DEF LoadHead
<1> HIDE DEF r
<1>4. CallOK(s, ht, slot, r)
  BY <1>1, <1>2 DEF CallOK, Waiting, Reserved
<1>5. h.pc \in Waiting /\ r.pc \in Waiting
  BY <1>1, <1>2 DEF Waiting
<1>6. QED
  BY <1>2, <1>3, <1>4, <1>5, LocalFrame

\* The room, or the number of objects, is computed.
LEMMA LoadRoomStep ==
  ASSUME NEW s \in Index, RingInv(s), NEW t \in Thread, LoadRoom(t)
  PROVE  RingInv(s)'
<1> DEFINE h == th[t]
           e == IF h.side = "prod" THEN FreeEntries(h.old) ELSE UsedEntries(h.old)
           n == IF h.max <= e THEN h.max ELSE IF h.fixed THEN 0 ELSE e
           r == IF n = 0 THEN IdleThread ELSE [h EXCEPT !.pc = "cas", !.n = n]
<1>1. /\ h \in CallType /\ CallOK(s, ht, slot, h) /\ h.pc = "room" /\ h.side \in Side
      /\ h.max \in Nat /\ h.old \in Index /\ Alone(s, ht, th, t) /\ ht \in HtType
      /\ th \in [Thread -> CallType]
  BY StepFacts, CallFields DEF LoadRoom
<1>2. /\ \A d \in Side : /\ ht[d].head \in Index /\ ht[d].tail \in Index
                         /\ Pos(s, ht[d].head) \in Nat /\ Pos(s, ht[d].tail) \in Nat
                         /\ Lim(s, ht, d) \in Nat
                         /\ Pos(s, ht[d].head) <= Lim(s, ht, d)
      /\ Pos(s, h.old) \in Nat /\ Pos(s, h.old) <= Pos(s, ht[h.side].head)
  BY <1>1, StepFacts, PosFacts DEF CallOK
<1>3. th' = [th EXCEPT ![t] = r] /\ UNCHANGED <<ht, slot, next>>
  <2>1. th' = [th EXCEPT ![t] = IF n = 0 THEN IdleThread ELSE [@ EXCEPT !.pc = "cas", !.n = n]]
    BY DEF LoadRoom
  <2> HIDE DEF n
  <2>2. QED
    BY <2>1 DEF LoadRoom
<1>4. e \in Nat /\ Pos(s, h.old) + e <= Lim(s, ht, h.side)
  <2>1. CASE h.side = "prod"
    <3>1. Pos(s, h.old) <= Pos(s, ht["cons"].tail) + Capacity
      BY <1>2, <2>1, Sides DEF Lim
    <3>2. ht["cons"].tail \in Index
      BY <1>2, Sides
    <3>3. /\ FreeEntries(h.old) \in Nat
          /\ Pos(s, h.old) + FreeEntries(h.old) <= Pos(s, ht["cons"].tail) + Capacity
      BY <1>1, <3>1, <3>2, FreeBound DEF FreeEntries
    <3>4. QED
      BY <2>1, <3>3 DEF Lim
  <2>2. CASE h.side = "cons"
    <3>1. ht["prod"].tail \in Index /\ Pos(s, ht["prod"].tail) \in Nat
      BY <1>2, Sides
    <3>2. Pos(s, h.old) <= Pos(s, ht["prod"].tail) /\ h.side # "prod"
      BY <1>2, <2>2, Sides, <3>1 DEF Lim
    <3>3. UsedEntries(h.old) = Ahead(h.old, ht["prod"].tail)
      BY DEF UsedEntries, Ahead
    <3>4. /\ UsedEntries(h.old) \in Nat
          /\ UsedEntries(h.old) = Pos(s, ht["prod"].tail) - Pos(s, h.old)
      BY <1>1, <3>1, <3>2, <3>3, PosFacts
    <3>5. QED
      BY <1>2, <3>1, <3>2, <3>4 DEF Lim
  <2>3. QED
    BY <1>1, <2>1, <2>2, Sides
<1> HIDE DEF e
<1>5. n \in Nat /\ n <= h.max /\ n <= e
  BY <1>1, <1>4
<1> HIDE DEF n
<1>6. CASE n = 0
  <2>1. r = IdleThread /\ IdleThread \in CallType /\ IdleThread.pc = "idle"
    <3>1. 0 \in Index /\ <<>> \in Seq(Obj)
      BY RingConstants
    <3>2. QED
      BY <1>6, <3>1, Sides DEF IdleThread, CallType
  <2>2. CallOK(s, ht, slot, IdleThread)
    BY <2>1 DEF CallOK, Waiting, Reserved
  <2>3. h.pc \in Waiting
    BY <1>1 DEF Waiting
  <2>4. QED
    BY <1>3, <2>1, <2>2, <2>3, LocalFrame
<1>7. CASE n # 0
  <2>1. /\ r \in CallType /\ r.pc = "cas" /\ r.side = h.side /\ r.max = h.max
        /\ r.objs = h.objs /\ r.old = h.old /\ r.n = n
    BY <1>1, <1>5, <1>7 DEF CallType
  <2> HIDE DEF r
  <2>2. Pos(s, h.old) + n <= Lim(s, ht, h.side)
    BY <1>1, <1>2, <1>4, <1>5
  <2>3. CallOK(s, ht, slot, r)
    BY <1>1, <1>2, <1>5, <1>7, <2>1, <2>2 DEF CallOK, Waiting, Reserved
  <2>4. h.pc \in Waiting /\ r.pc \in Waiting
    BY <1>1, <2>1 DEF Waiting
  <2>5. ht[h.side].single => r.old = ht[h.side].head
    BY <1>1, <2>1 DEF Alone, Undisturbed
  <2>6. QED
    BY <1>3, <2>1, <2>3, <2>4, <2>5, LocalFrame
<1>8. QED
  BY <1>6, <1>7

\* What a thread that is about to reserve finds: its head is the head of the side
\* and the new head does not wrap past the start.
LEMMA CasFacts ==
  ASSUME NEW s \in Index, RingInv(s), NEW t \in Thread, th[t].pc = "cas",
         ht[th[t].side].single \/ ht[th[t].side].head = th[t].old
  PROVE  LET h == th[t]
             d == h.side
         IN  /\ h.old = ht[d].head /\ h.n \in Nat /\ 1 <= h.n /\ h.n <= h.max
             /\ New(t) \in Index /\ Pos(s, New(t)) = Pos(s, ht[d].head) + h.n
             /\ Pos(s, New(t)) <= Lim(s, ht, d)
<1> DEFINE h == th[t]
           d == h.side
<1>1. /\ h \in CallType /\ CallOK(s, ht, slot, h) /\ d \in Side /\ Alone(s, ht, th, t)
      /\ h.n \in Nat /\ h.max \in Nat /\ h.old \in Index /\ Supplied(s, ht, th, next)
      /\ next \in 1 .. MaxObjs + 1 /\ MaxObjs \in Nat /\ MaxObjs < IndexMod
      /\ th \in [Thread -> CallType] /\ IndexMod \in Nat
  BY StepFacts, CallFields, TypeParts, RingConstants DEF RingInv
<1>2. h.old = ht[d].head
  BY <1>1 DEF Alone, Undisturbed
<1>3. 1 <= h.n /\ h.n <= h.max /\ Pos(s, h.old) + h.n <= Lim(s, ht, d) /\ Pos(s, h.old) \in Nat
  BY <1>1, PosFacts DEF CallOK
<1>4. Pos(s, h.old) + h.n < IndexMod
  <2>1. CASE d = "prod"
    <3>1. ToCome(h)
      BY <2>1 DEF ToCome, Waiting
    <3>2. ObjsOf(h) \subseteq Pending(th) /\ Pending(th) \subseteq Obj
      BY <3>1 DEF Pending, ObjsOf
    <3>3. /\ Cardinality(ObjsOf(h)) <= Cardinality(Pending(th)) /\ Cardinality(ObjsOf(h)) = h.max
          /\ Cardinality(Pending(th)) \in Nat
      BY <1>1, <3>1, <3>2, ObjsFinite DEF Supplied
    <3>4. Pos(s, h.old) + Cardinality(Pending(th)) <= next - 1
      BY <1>1, <1>2, <2>1 DEF Supplied
    <3>5. QED
      BY <1>1, <1>3, <3>3, <3>4
  <2>2. CASE d = "cons"
    <3>1. ht["prod"].tail \in Index
      BY StepFacts, Sides
    <3>2. Pos(s, ht["prod"].tail) < IndexMod /\ Pos(s, ht["prod"].tail) \in Nat
      BY <3>1, PosFacts
    <3>3. Lim(s, ht, d) = Pos(s, ht["prod"].tail)
      BY <2>2 DEF Lim
    <3>4. QED
      BY <1>1, <1>3, <3>2, <3>3
  <2>3. QED
    BY <1>1, <2>1, <2>2, Sides
<1>5. New(t) \in Index /\ Pos(s, New(t)) = Pos(s, h.old) + h.n
  BY <1>1, <1>4, PosPlus DEF New
<1>6. QED
  BY <1>1, <1>2, <1>3, <1>5

\* The compare-and-set of the head.
LEMMA CasStep ==
  ASSUME NEW s \in Index, RingInv(s), NEW t \in Thread, Cas(t)
  PROVE  RingInv(s)'
<1> DEFINE h == th[t]
           d == h.side
<1>1. /\ h \in CallType /\ CallOK(s, ht, slot, h) /\ h.pc = "cas" /\ d \in Side
      /\ h.max \in Nat /\ h.old \in Index /\ Alone(s, ht, th, t) /\ ht \in HtType
      /\ th \in [Thread -> CallType] /\ slot \in SlotType /\ next \in Nat
      /\ Supplied(s, ht, th, next) /\ UNCHANGED <<slot, next>> /\ h.pc \in Waiting
  BY StepFacts, CallFields DEF Cas, Waiting
<1>2. CASE ht[d].single \/ ht[d].head = h.old
  <2> DEFINE r == [h EXCEPT !.pc = "copy", !.max = 0, !.fixed = TRUE]
             x == New(t)
  <2>1. /\ h.old = ht[d].head /\ h.n \in Nat /\ 1 <= h.n /\ h.n <= h.max
        /\ x \in Index /\ Pos(s, x) = Pos(s, ht[d].head) + h.n /\ Pos(s, x) <= Lim(s, ht, d)
    BY <1>1, <1>2, CasFacts
  <2>2. /\ th' = [th EXCEPT ![t] = r] /\ ht' = [ht EXCEPT ![d].head = x]
    <3>1. th' = [th EXCEPT ![t].pc = "copy", ![t].max = 0, ![t].fixed = TRUE]
      BY <1>2 DEF Cas
    <3>2. th' = [th EXCEPT ![t] = r]
      BY <1>1, <3>1
    <3>3. QED
      BY <1>2, <3>2 DEF Cas
  <2>3. /\ r \in CallType /\ r.pc = "copy" /\ r.side = d /\ r.objs = h.objs
        /\ r.old = h.old /\ r.n = h.n
    BY <1>1 DEF CallType
  <2> HIDE DEF r, x
  <2>4. /\ ht' \in HtType /\ ht'[d].head = x /\ \A e \in Side : ht'[e].tail = ht[e].tail
        /\ \A e \in Side : e # d => ht'[e] = ht[e]
        /\ \A e \in Side : ht'[e].single = ht[e].single
    <3>1. ht' = [ht EXCEPT ![d].head = x] /\ ht \in HtType /\ d \in Side /\ x \in Index
      BY <1>1, <2>1, <2>2
    <3> HIDE DEF d
    <3>2. QED
      BY <3>1 DEF HtType
  <2>5. \A e \in Side : /\ Pos(s, ht[e].head) \in Nat /\ Pos(s, ht[e].tail) \in Nat
                        /\ Pos(s, ht[e].tail) <= Pos(s, ht[e].head)
                        /\ Pos(s, ht[e].head) <= Lim(s, ht, e)
    BY StepFacts
  <2>6. \A e \in Side : Lim(s, ht', e) = Lim(s, ht, e)
    BY <2>4, Sides DEF Lim
  <2>7. Pos(s, ht[d].head) <= Pos(s, ht'[d].head)
    BY <1>1, <2>1, <2>4, <2>5
  <2>8. Ordered(s, ht')
    <3> SUFFICES ASSUME NEW e \in Side
                 PROVE  /\ Pos(s, ht'[e].tail) <= Pos(s, ht'[e].head)
                        /\ Pos(s, ht'[e].head) <= Lim(s, ht', e)
      BY DEF Ordered
    <3>1. CASE e = d
      BY <1>1, <2>1, <2>4, <2>5, <2>6, <3>1
    <3>2. CASE e # d
      BY <2>4, <2>5, <2>6, <3>2
    <3>3. QED
      BY <3>1, <3>2
  <2>9. \A e \in Side : /\ Pos(s, ht[e].tail) <= Pos(s, ht'[e].tail)
                        /\ Pos(s, ht[e].head) <= Pos(s, ht'[e].head)
    <3> SUFFICES ASSUME NEW e \in Side PROVE /\ Pos(s, ht[e].tail) <= Pos(s, ht'[e].tail)
                                             /\ Pos(s, ht[e].head) <= Pos(s, ht'[e].head)
      OBVIOUS
    <3>1. Pos(s, ht[e].head) \in Nat /\ Pos(s, ht[e].tail) \in Nat
      BY <2>5
    <3>2. CASE e = d
      BY <2>4, <2>7, <3>1, <3>2
    <3>3. CASE e # d
      BY <2>4, <3>1, <3>3
    <3>4. QED
      BY <3>2, <3>3
  <2>10. CallOK(s, ht', slot', r)
    <3>1. Pos(s, ht'[d].tail) <= Pos(s, r.old) /\ Pos(s, r.old) + r.n <= Pos(s, ht'[d].head)
      BY <1>1, <2>1, <2>3, <2>4, <2>5
    <3>2. d = "prod" => r.n <= Len(r.objs)
      BY <1>1, <2>1, <2>3 DEF CallOK
    <3>3. QED
      BY <2>1, <2>3, <3>1, <3>2 DEF CallOK, Waiting, Reserved
  <2>11. \A u \in Thread \ {t} : th[u].pc \in Reserved /\ th[u].side = d =>
           /\ Pos(s, ht[d].tail) <= Pos(s, th[u].old)
           /\ Pos(s, th[u].old) + th[u].n <= Pos(s, ht[d].head)
    BY DEF RingInv, CallOK
  <2>12. \A u \in Thread \ {t} : th[u].pc \in Reserved /\ th[u].side = d =>
           Pos(s, ht'[d].tail) <= Pos(s, th[u].old)
    BY <1>1, <2>4, <2>11
  <2>13. \A u \in Thread \ {t} : Disjoint(s, r, th[u])
    BY <2>1, <2>3, <2>11 DEF Disjoint
  <2>14. ht[d].single => Undisturbed(s, ht'[d], r)
    <3>1. ht[d].single => ht[d].tail = ht[d].head
      BY <1>1 DEF Alone, Undisturbed
    <3>2. QED
      BY <1>1, <2>1, <2>3, <2>4, <3>1 DEF Undisturbed, Waiting
  <2>15. Stored(s, ht', slot')
    BY <1>1, <2>4, Sides DEF RingInv, Stored
  <2>16. \A u \in Thread \ {t} : th'[u] = th[u]
    BY <1>1, <2>2
  <2>17. ~ ToCome(th'[t])
    BY <1>1, <2>2, <2>3 DEF ToCome, Waiting
  <2>18. Pos(s, ht["prod"].head) \in Nat
    BY <2>5, Sides
  <2>19. Supplied(s, ht', th', next')
    <3>1. CASE d = "prod"
      <4>1. ToCome(th[t])
        BY <1>1, <3>1 DEF ToCome
      <4>2. Pos(s, ht'["prod"].head) = Pos(s, ht["prod"].head) + h.n
        BY <2>1, <2>4, <3>1
      <4>3. Supplied(s, ht', th', next)
        BY <1>1, <2>1, <2>16, <2>17, <2>18, <4>1, <4>2, SuppliedReserve
      <4>4. QED
        BY <1>1, <4>3
    <3>2. CASE d # "prod"
      <4>1. Pos(s, ht'["prod"].head) = Pos(s, ht["prod"].head)
        BY <2>4, <3>2, Sides
      <4>2. Supplied(s, ht', th', next)
        BY <1>1, <2>16, <2>17, <2>18, <4>1, SuppliedStep
      <4>3. QED
        BY <1>1, <4>2
    <3>3. QED
      BY <3>1, <3>2
  <2>20. h.pc # "idle" /\ r.pc # "idle"
    BY <1>1, <2>3
  <2>21. slot' \in SlotType /\ \A y \in 0 .. Size - 1 : slot[y] # 0 => slot'[y] # 0
    BY <1>1
  <2>22. QED
    BY <1>1, <2>2, <2>3, <2>4, <2>8, <2>9, <2>10, <2>12, <2>13, <2>14, <2>15, <2>19, <2>20,
       <2>21, StepFrame
<1>3. CASE ~ (ht[d].single \/ ht[d].head = h.old)
  <2> DEFINE r == [h EXCEPT !.pc = "head"]
  <2>1. /\ r \in CallType /\ r.pc = "head" /\ r.side = d /\ r.objs = h.objs /\ r.max = h.max
    BY <1>1 DEF CallType
  <2>2. th' = [th EXCEPT ![t] = r] /\ UNCHANGED <<ht, slot, next>>
    BY <1>1, <1>3 DEF Cas
  <2> HIDE DEF r
  <2>3. CallOK(s, ht, slot, r)
    BY <1>1, <2>1 DEF CallOK, Waiting, Reserved
  <2>4. h.pc \in Waiting /\ r.pc \in Waiting
    BY <1>1, <2>1 DEF Waiting
  <2>5. QED
    BY <2>1, <2>2, <2>3, <2>4, LocalFrame
<1>4. QED
  BY <1>2, <1>3

\* Copying and giving the slots free: nothing that waits is changed.
LEMMA CopyFrame ==
  ASSUME NEW s \in Index, RingInv(s), NEW t \in Thread, th[t].pc = "copy",
         NEW r \in CallType, th' = [th EXCEPT ![t] = r], UNCHANGED <<ht, next>>,
         r.pc = "tail", r.side = th[t].side, r.old = th[t].old, r.n = th[t].n,
         slot' \in SlotType, \A x \in 0 .. Size - 1 : slot[x] # 0 => slot'[x] # 0,
         r.side = "prod" => \A i \in 1 .. r.n : slot'[SlotAt(r.old, i)] # 0
  PROVE  RingInv(s)'
<1> DEFINE h == th[t]
           d == h.side
<1>1. /\ h \in CallType /\ CallOK(s, ht, slot, h) /\ d \in Side /\ Alone(s, ht, th, t)
      /\ ht \in HtType /\ th \in [Thread -> CallType] /\ next \in Nat
      /\ Supplied(s, ht, th, next)
  BY StepFacts
<1>2. \A e \in Side : Pos(s, ht[e].tail) \in Nat /\ Pos(s, ht[e].head) \in Nat
  BY StepFacts
<1>3. \A e \in Side : /\ Pos(s, ht[e].tail) <= Pos(s, ht'[e].tail)
                      /\ Pos(s, ht[e].head) <= Pos(s, ht'[e].head)
  BY <1>2
<1>4. CallOK(s, ht, slot', r)
  BY <1>1 DEF CallOK, Waiting, Reserved
<1>5. \A u \in Thread \ {t} : th[u].pc \in Reserved /\ th[u].side = d =>
        Pos(s, ht[d].tail) <= Pos(s, th[u].old)
  BY DEF RingInv, CallOK
<1>6. \A u \in Thread \ {t} : Disjoint(s, r, th[u])
  BY DEF RingInv, Apart, Disjoint, Reserved
<1>7. ht[d].single => Undisturbed(s, ht[d], r)
  BY <1>1 DEF Alone, Undisturbed, Waiting, Reserved
<1>8. Stored(s, ht, slot')
  <2> SUFFICES ASSUME NEW p \in Nat, p < Pos(s, ht["prod"].tail) PROVE slot'[(s + p) % Size] # 0
    BY DEF Stored
  <2>1. (s + p) % Size \in 0 .. Size - 1
    BY RingConstants
  <2>2. slot[(s + p) % Size] # 0
    BY DEF RingInv, Stored
  <2>3. QED
    BY <2>1, <2>2
<1>9. (\A u \in Thread \ {t} : th'[u] = th[u]) /\ ~ ToCome(th'[t])
  BY <1>1 DEF ToCome, Waiting
<1>10. Supplied(s, ht, th', next)
  BY <1>1, <1>2, <1>9, Sides, SuppliedStep
<1>11. Ordered(s, ht)
  BY DEF RingInv
<1>12. QED
  BY <1>1, <1>3, <1>4, <1>5, <1>6, <1>7, <1>8, <1>10, <1>11, StepFrame

\* A producer writes its slots.
LEMMA EnqueuePtrsStep ==
  ASSUME NEW s \in Index, RingInv(s), NEW t \in Thread, ENQUEUE_PTRS(t)
  PROVE  RingInv(s)'
<1> DEFINE h == th[t]
           r == [h EXCEPT !.pc = "tail"]
<1>1. /\ h \in CallType /\ CallOK(s, ht, slot, h) /\ h.pc = "copy" /\ h.side = "prod"
      /\ h.n \in Nat /\ h.old \in Index /\ h.objs \in Seq(Obj) /\ slot \in SlotType
      /\ Len(h.objs) \in Nat
  BY StepFacts, CallFields DEF ENQUEUE_PTRS
<1>2. h.n <= Len(h.objs)
  BY <1>1 DEF CallOK
<1>3. ASSUME NEW i \in 1 .. h.n PROVE h.objs[i] \in Obj /\ h.objs[i] # 0
  <2>1. i \in 1 .. Len(h.objs)
    BY <1>1, <1>2
  <2>2. h.objs[i] \in Obj
    BY <1>1, <2>1
  <2>3. QED
    BY <2>2, RingConstants DEF Obj
<1>4. ASSUME NEW i \in 1 .. h.n PROVE SlotAt(h.old, i) \in 0 .. Size - 1
  <2>1. i \in Nat
    BY <1>1
  <2>2. QED
    BY <1>1, <2>1, SlotPos
<1> DEFINE j(x) == CHOOSE i \in 1 .. h.n : SlotAt(h.old, i) = x
<1>5. \A x : (\E i \in 1 .. h.n : SlotAt(h.old, i) = x) => j(x) \in 1 .. h.n
  OBVIOUS
<1>6. slot' = [x \in 0 .. Size - 1 |->
                 IF \E i \in 1 .. h.n : SlotAt(h.old, i) = x THEN h.objs[j(x)] ELSE slot[x]]
  BY DEF ENQUEUE_PTRS
<1> HIDE DEF j
<1>7. \A x \in 0 .. Size - 1 :
        /\ (\E i \in 1 .. h.n : SlotAt(h.old, i) = x) => slot'[x] \in Obj /\ slot'[x] # 0
        /\ ~ (\E i \in 1 .. h.n : SlotAt(h.old, i) = x) => slot'[x] = slot[x]
  BY <1>3, <1>5, <1>6
<1>8. slot' \in SlotType
  BY <1>1, <1>6, <1>7 DEF SlotType
<1>9. (\A x \in 0 .. Size - 1 : slot[x] # 0 => slot'[x] # 0)
      /\ \A i \in 1 .. h.n : slot'[SlotAt(h.old, i)] # 0
  BY <1>4, <1>7
<1>10. /\ r \in CallType /\ r.pc = "tail" /\ r.side = h.side /\ r.old = h.old /\ r.n = h.n
  BY <1>1 DEF CallType
<1>11. th' = [th EXCEPT ![t] = r] /\ UNCHANGED <<ht, next>>
  BY DEF ENQUEUE_PTRS
<1> HIDE DEF r
<1>12. QED
  BY <1>1, <1>8, <1>9, <1>10, <1>11, CopyFrame

\* What a consumer reads has been written.
LEMMA ReadsObjects ==
  ASSUME NEW s \in Index, RingInv(s), NEW t \in Thread, th[t].pc = "copy", th[t].side = "cons",
         NEW i \in 1 .. th[t].n
  PROVE  slot[SlotAt(th[t].old, i)] \in Obj
<1> DEFINE h == th[t]
<1>1. /\ h \in CallType /\ CallOK(s, ht, slot, h) /\ h.n \in Nat /\ h.old \in Index
      /\ slot \in SlotType /\ Pos(s, h.old) \in Nat
  BY StepFacts, CallFields, PosFacts
<1>2. /\ Pos(s, ht["prod"].tail) \in Nat /\ Pos(s, ht["cons"].head) \in Nat
      /\ Pos(s, ht["cons"].head) <= Pos(s, ht["prod"].tail)
  BY StepFacts, Sides DEF Lim
<1>3. Pos(s, h.old) + h.n <= Pos(s, ht["cons"].head)
  BY <1>1 DEF CallOK, Reserved
<1> DEFINE p == Pos(s, h.old) + i - 1
<1>4. p \in Nat /\ p < Pos(s, ht["prod"].tail) /\ s + Pos(s, h.old) + i - 1 = s + p /\ i \in Nat
  BY <1>1, <1>2, <1>3, RingConstants
<1> HIDE DEF p
<1>5. slot[(s + p) % Size] # 0
  BY <1>4 DEF RingInv, Stored
<1>6. SlotAt(h.old, i) = (s + p) % Size /\ SlotAt(h.old, i) \in 0 .. Size - 1
  BY <1>1, <1>4, SlotPos
<1>7. QED
  BY <1>1, <1>5, <1>6 DEF SlotType

\* A consumer reads its slots.
LEMMA DequeuePtrsStep ==
  ASSUME NEW s \in Index, RingInv(s), NEW t \in Thread, DEQUEUE_PTRS(t)
  PROVE  RingInv(s)'
<1> DEFINE h == th[t]
           objs == [i \in 1 .. h.n |-> slot[SlotAt(h.old, i)]]
           r == [h EXCEPT !.pc = "tail", !.objs = objs]
<1>1. /\ h \in CallType /\ h.pc = "copy" /\ h.side = "cons" /\ h.n \in Nat /\ slot \in SlotType
  BY StepFacts, CallFields DEF DEQUEUE_PTRS
<1>2. objs \in Seq(Obj)
  BY <1>1, ReadsObjects
<1>3. th' = [th EXCEPT ![t] = r] /\ UNCHANGED <<ht, slot, next>>
  BY DEF DEQUEUE_PTRS
<1> HIDE DEF objs
<1>4. /\ r \in CallType /\ r.pc = "tail" /\ r.side = h.side /\ r.old = h.old /\ r.n = h.n
  BY <1>1, <1>2 DEF CallType
<1> HIDE DEF r
<1>5. slot' \in SlotType /\ (\A x \in 0 .. Size - 1 : slot[x] # 0 => slot'[x] # 0)
  BY <1>1, <1>3
<1>6. r.side # "prod"
  BY <1>1, <1>4
<1>7. QED
  BY <1>1, <1>3, <1>4, <1>5, <1>6, CopyFrame

\* What a thread that is about to move the tail finds: its reservation is the first.
LEMMA TailFacts ==
  ASSUME NEW s \in Index, RingInv(s), NEW t \in Thread, update_tail(t)
  PROVE  LET h == th[t]
             d == h.side
         IN  /\ h.old = ht[d].tail /\ h.n \in Nat /\ 1 <= h.n
             /\ New(t) \in Index /\ Pos(s, New(t)) = Pos(s, ht[d].tail) + h.n
             /\ Pos(s, New(t)) <= Pos(s, ht[d].head)
<1> DEFINE h == th[t]
           d == h.side
<1>1. /\ h \in CallType /\ CallOK(s, ht, slot, h) /\ d \in Side /\ Alone(s, ht, th, t)
      /\ h.n \in Nat /\ h.old \in Index /\ h.pc = "tail" /\ Pos(s, h.old) \in Nat
  BY StepFacts, CallFields, PosFacts DEF update_tail
<1>2. h.old = ht[d].tail
  BY <1>1 DEF Alone, Undisturbed, Reserved, update_tail
<1>3. 1 <= h.n /\ Pos(s, h.old) + h.n <= Pos(s, ht[d].head)
  BY <1>1 DEF CallOK, Reserved
<1>4. ht[d].head \in Index
  BY <1>1, StepFacts
<1>5. Pos(s, ht[d].head) < IndexMod /\ Pos(s, ht[d].head) \in Nat /\ IndexMod \in Nat
  BY <1>4, PosFacts, RingConstants
<1>6. Pos(s, h.old) + h.n < IndexMod
  BY <1>1, <1>3, <1>5
<1>7. New(t) \in Index /\ Pos(s, New(t)) = Pos(s, h.old) + h.n
  BY <1>1, <1>6, PosPlus DEF New
<1>8. QED
  BY <1>1, <1>2, <1>3, <1>7

\* The tail is moved.
LEMMA UpdateTailStep ==
  ASSUME NEW s \in Index, RingInv(s), NEW t \in Thread, update_tail(t)
  PROVE  RingInv(s)'
<1> DEFINE h == th[t]
           d == h.side
           x == New(t)
<1>1. /\ h \in CallType /\ CallOK(s, ht, slot, h) /\ h.pc = "tail" /\ d \in Side
      /\ h.old \in Index /\ Alone(s, ht, th, t) /\ ht \in HtType
      /\ th \in [Thread -> CallType] /\ slot \in SlotType /\ next \in Nat
      /\ Supplied(s, ht, th, next) /\ UNCHANGED <<slot, next>>
  BY StepFacts, CallFields DEF update_tail
<1>2. /\ h.old = ht[d].tail /\ h.n \in Nat /\ 1 <= h.n
      /\ x \in Index /\ Pos(s, x) = Pos(s, ht[d].tail) + h.n /\ Pos(s, x) <= Pos(s, ht[d].head)
  BY TailFacts
<1>3. ht' = [ht EXCEPT ![d].tail = x] /\ th' = [th EXCEPT ![t] = IdleThread]
  BY DEF update_tail
<1>4. IdleThread \in CallType /\ IdleThread.pc = "idle"
  <2>1. 0 \in Index /\ <<>> \in Seq(Obj)
    BY RingConstants
  <2>2. QED
    BY <2>1, Sides DEF IdleThread, CallType
<1> HIDE DEF x
<1>5. /\ ht' \in HtType /\ ht'[d].tail = x /\ \A e \in Side : ht'[e].head = ht[e].head
      /\ \A e \in Side : e # d => ht'[e] = ht[e]
      /\ \A e \in Side : ht'[e].single = ht[e].single
  <2>1. ht \in HtType /\ d \in Side /\ x \in Index
    BY <1>1, <1>2
  <2> HIDE DEF d
  <2>2. QED
    BY <1>3, <2>1 DEF HtType
<1>6. \A e \in Side : /\ Pos(s, ht[e].head) \in Nat /\ Pos(s, ht[e].tail) \in Nat
                      /\ Pos(s, ht[e].tail) <= Pos(s, ht[e].head)
                      /\ Pos(s, ht[e].head) <= Lim(s, ht, e)
  BY StepFacts
<1>7. ASSUME NEW e \in Side
      PROVE  /\ Pos(s, ht[e].tail) <= Pos(s, ht'[e].tail)
             /\ Pos(s, ht[e].head) <= Pos(s, ht'[e].head)
  <2>1. Pos(s, ht[e].head) \in Nat /\ Pos(s, ht[e].tail) \in Nat
    BY <1>6
  <2>2. CASE e = d
    BY <1>2, <1>5, <2>1, <2>2
  <2>3. CASE e # d
    BY <1>5, <2>1, <2>3
  <2>4. QED
    BY <2>2, <2>3
<1>8. \A e \in Side : Lim(s, ht, e) \in Nat /\ Lim(s, ht', e) \in Nat
                      /\ Lim(s, ht, e) <= Lim(s, ht', e)
  BY <1>1, <1>5, <1>7, LimFacts
<1>9. Ordered(s, ht')
  <2> SUFFICES ASSUME NEW e \in Side
               PROVE  /\ Pos(s, ht'[e].tail) <= Pos(s, ht'[e].head)
                      /\ Pos(s, ht'[e].head) <= Lim(s, ht', e)
    BY DEF Ordered
  <2>1. Pos(s, ht'[e].head) <= Lim(s, ht', e)
    BY <1>5, <1>6, <1>8
  <2>2. CASE e = d
    BY <1>2, <1>5, <2>1, <2>2
  <2>3. CASE e # d
    BY <1>5, <1>6, <2>1, <2>3
  <2>4. QED
    BY <2>2, <2>3
<1>10. CallOK(s, ht', slot', IdleThread)
  BY <1>4 DEF CallOK, Waiting, Reserved
<1>11. ASSUME NEW u \in Thread \ {t}, th[u].pc \in Reserved, th[u].side = d
       PROVE  Pos(s, ht'[d].tail) <= Pos(s, th[u].old)
  <2>1. /\ th[u] \in CallType /\ th[u].n \in Nat /\ th[u].old \in Index
        /\ Pos(s, th[u].old) \in Nat /\ CallOK(s, ht, slot, th[u])
    BY StepFacts, CallFields, PosFacts
  <2>2. 1 <= th[u].n /\ Pos(s, ht[d].tail) <= Pos(s, th[u].old)
    BY <1>11, <2>1 DEF CallOK
  <2>3. \/ Pos(s, h.old) + h.n <= Pos(s, th[u].old)
        \/ Pos(s, th[u].old) + th[u].n <= Pos(s, h.old)
    BY <1>1, <1>11 DEF RingInv, Apart, Disjoint, Reserved
  <2>4. Pos(s, ht[d].tail) \in Nat
    BY <1>1, <1>6
  <2>5. QED
    BY <1>2, <1>5, <2>1, <2>2, <2>3, <2>4
<1>12. \A u \in Thread \ {t} : Disjoint(s, IdleThread, th[u])
  BY <1>4 DEF Disjoint, Reserved
<1>13. ht[d].single => ht'[d].tail = ht'[d].head
  <2> SUFFICES ASSUME ht[d].single PROVE x = ht[d].head
    BY <1>1, <1>5
  <2>1. Pos(s, h.old) + h.n = Pos(s, ht[d].head)
    BY <1>1 DEF Alone, Undisturbed, Reserved
  <2>2. Pos(s, x) = Pos(s, ht[d].head) /\ ht[d].head \in Index
    BY <1>1, <1>2, <2>1, StepFacts
  <2>3. QED
    BY <1>2, <2>2, PosFacts
<1>14. Stored(s, ht', slot')
  <2>1. CASE d # "prod"
    BY <1>1, <1>5, <2>1, Sides DEF RingInv, Stored
  <2>2. CASE d = "prod"
    <3> SUFFICES ASSUME NEW p \in Nat, p < Pos(s, x) PROVE slot[(s + p) % Size] # 0
      BY <1>1, <1>5, <2>2 DEF Stored
    <3>1. Pos(s, ht[d].tail) \in Nat
      BY <1>1, <1>6
    <3>2. CASE p < Pos(s, ht[d].tail)
      BY <2>2, <3>2 DEF RingInv, Stored
    <3>3. CASE p >= Pos(s, ht[d].tail)
      <4> DEFINE i == p - Pos(s, ht[d].tail) + 1
      <4>1. i \in 1 .. h.n /\ i \in Nat /\ s + Pos(s, h.old) + i - 1 = s + p
        BY <1>2, <3>1, <3>3, RingConstants
      <4> HIDE DEF i
      <4>2. slot[SlotAt(h.old, i)] # 0
        BY <1>1, <2>2, <4>1 DEF CallOK
      <4>3. SlotAt(h.old, i) = (s + Pos(s, h.old) + i - 1) % Size
        BY <1>1, <4>1, SlotPos
      <4>4. QED
        BY <4>1, <4>2, <4>3
    <3>4. QED
      BY <3>1, <3>2, <3>3
  <2>3. QED
    BY <2>1, <2>2
<1>15. (\A u \in Thread \ {t} : th'[u] = th[u]) /\ ~ ToCome(th'[t])
  BY <1>1, <1>3, <1>4 DEF ToCome, Waiting
<1>16. Supplied(s, ht', th', next')
  <2>1. Pos(s, ht'["prod"].head) = Pos(s, ht["prod"].head) /\ Pos(s, ht["prod"].head) \in Nat
    BY <1>5, <1>6, Sides
  <2>2. Supplied(s, ht', th', next)
    BY <1>1, <1>15, <2>1, SuppliedStep
  <2>3. QED
    BY <1>1, <2>2
<1>17. slot' \in SlotType /\ \A y \in 0 .. Size - 1 : slot[y] # 0 => slot'[y] # 0
  BY <1>1
<1>18. h.pc # "idle"
  BY <1>1
<1>19. QED
  BY <1>1, <1>3, <1>4, <1>5, <1>7, <1>9, <1>10, <1>11, <1>12, <1>13, <1>14, <1>16, <1>17,
     <1>18, StepFrame

-----------------------------------------------------------------------------
(* Theorems *)

\* The ring starts with its four indices at s.
LEMMA RingInitInv == RingInit => \E s \in Index : RingInv(s)
<1> SUFFICES ASSUME RingInit PROVE \E s \in Index : RingInv(s)
  OBVIOUS
<1>1. PICK s \in Start, sp \in SpEnq, sc \in ScDeq :
        ht = [d \in Side |-> [head |-> s, tail |-> s, single |-> IF d = "prod" THEN sp ELSE sc]]
  BY DEF RingInit
<1>2. s \in Index
  BY RingAssumption DEF Index
<1>3. /\ \A d \in Side : ht[d].head = s /\ ht[d].tail = s
      /\ \A t \in Thread : th[t] = IdleThread /\ next = 1
  BY <1>1 DEF RingInit
<1>4. IdleThread \in CallType /\ IdleThread.pc = "idle"
  <2>1. 0 \in Index /\ <<>> \in Seq(Obj)
    BY RingConstants
  <2>2. QED
    BY <2>1, Sides DEF IdleThread, CallType
<1>5. RingTypeOK
  <2>1. ht \in HtType
    <3>1. sp \in BOOLEAN /\ sc \in BOOLEAN
      BY RingAssumption
    <3>2. \A d \in Side : (IF d = "prod" THEN sp ELSE sc) \in BOOLEAN
      BY <3>1
    <3>3. QED
      BY <1>1, <1>2, <3>2 DEF HtType
  <2>2. slot \in SlotType
    BY DEF RingInit, SlotType
  <2>3. th \in [Thread -> CallType]
    BY <1>4 DEF RingInit
  <2>4. next \in 1 .. MaxObjs + 1
    BY RingConstants DEF RingInit
  <2>5. QED
    BY <2>1, <2>2, <2>3, <2>4, TypeParts
<1>6. Pos(s, s) = 0 /\ Capacity \in Nat
  BY <1>2, AheadCases, RingConstants DEF Pos
<1>7. Ordered(s, ht)
  BY <1>3, <1>6, Sides DEF Ordered, Lim
<1>8. \A t \in Thread : CallOK(s, ht, slot, th[t]) /\ Alone(s, ht, th, t)
  BY <1>3, <1>4 DEF CallOK, Alone, Waiting, Reserved
<1>9. Apart(s, th) /\ Unused(ht, th)
  BY <1>3, <1>4 DEF Apart, Disjoint, Unused, Reserved
<1>10. Stored(s, ht, slot)
  BY <1>3, <1>6, Sides DEF Stored
<1>11. Supplied(s, ht, th, next)
  <2>1. \A t \in Thread : ~ ToCome(th[t])
    BY <1>3, <1>4 DEF ToCome, Waiting
  <2>2. Pending(th) = {}
    BY <2>1 DEF Pending
  <2>3. Cardinality(Pending(th)) = 0
    BY <2>2, FS_EmptySet
  <2>4. Pos(s, ht["prod"].head) = 0 /\ next = 1
    BY <1>3, <1>6, Sides DEF RingInit
  <2>5. QED
    BY <2>1, <2>3, <2>4 DEF Supplied
<1>12. QED
  BY <1>2, <1>5, <1>7, <1>8, <1>9, <1>10, <1>11 DEF RingInv

\* Every step keeps the invariant.
LEMMA RingStep == ASSUME NEW s \in Index, RingInv(s), [RingNext]_rvars PROVE RingInv(s)'
<1>1. ASSUME NEW t \in Producer,
             rte_ring_enqueue(t) \/ rte_ring_enqueue_bulk(t) \/ rte_ring_enqueue_burst(t)
      PROVE  RingInv(s)'
  <2>1. t \in Thread
    BY DEF Thread
  <2>2. \E n \in Nat, f \in BOOLEAN : n >= 1 /\ Enqueue(t, f, n)
    <3>1. CASE rte_ring_enqueue(t)
      <4>1. Enqueue(t, TRUE, 1)
        BY <3>1 DEF rte_ring_enqueue
      <4>2. 1 \in Nat /\ 1 >= 1 /\ TRUE \in BOOLEAN
        OBVIOUS
      <4>3. QED
        BY <4>1, <4>2
    <3>2. CASE rte_ring_enqueue_bulk(t)
      <4>1. PICK n \in 2 .. MaxBurst : Enqueue(t, TRUE, n)
        BY <3>2 DEF rte_ring_enqueue_bulk
      <4>2. n \in Nat /\ n >= 1 /\ TRUE \in BOOLEAN
        BY BurstNat
      <4>3. QED
        BY <4>1, <4>2
    <3>3. CASE rte_ring_enqueue_burst(t)
      <4>1. PICK n \in 2 .. MaxBurst : Enqueue(t, FALSE, n)
        BY <3>3 DEF rte_ring_enqueue_burst
      <4>2. n \in Nat /\ n >= 1 /\ FALSE \in BOOLEAN
        BY BurstNat
      <4>3. QED
        BY <4>1, <4>2
    <3>4. QED
      BY <1>1, <3>1, <3>2, <3>3
  <2>3. QED
    BY <2>1, <2>2, EnqueueStep
<1>2. ASSUME NEW t \in Consumer,
             rte_ring_dequeue(t) \/ rte_ring_dequeue_bulk(t) \/ rte_ring_dequeue_burst(t)
      PROVE  RingInv(s)'
  <2>1. t \in Thread
    BY DEF Thread
  <2>2. \E n \in Nat, f \in BOOLEAN : n >= 1 /\ Dequeue(t, f, n)
    <3>1. CASE rte_ring_dequeue(t)
      <4>1. Dequeue(t, TRUE, 1)
        BY <3>1 DEF rte_ring_dequeue
      <4>2. 1 \in Nat /\ 1 >= 1 /\ TRUE \in BOOLEAN
        OBVIOUS
      <4>3. QED
        BY <4>1, <4>2
    <3>2. CASE rte_ring_dequeue_bulk(t)
      <4>1. PICK n \in 2 .. MaxBurst : Dequeue(t, TRUE, n)
        BY <3>2 DEF rte_ring_dequeue_bulk
      <4>2. n \in Nat /\ n >= 1 /\ TRUE \in BOOLEAN
        BY BurstNat
      <4>3. QED
        BY <4>1, <4>2
    <3>3. CASE rte_ring_dequeue_burst(t)
      <4>1. PICK n \in 2 .. MaxBurst : Dequeue(t, FALSE, n)
        BY <3>3 DEF rte_ring_dequeue_burst
      <4>2. n \in Nat /\ n >= 1 /\ FALSE \in BOOLEAN
        BY BurstNat
      <4>3. QED
        BY <4>1, <4>2
    <3>4. QED
      BY <1>2, <3>1, <3>2, <3>3
  <2>3. QED
    BY <2>1, <2>2, DequeueStep
<1>3. ASSUME NEW t \in Thread, Step(t) PROVE RingInv(s)'
  BY <1>3, LoadHeadStep, LoadRoomStep, CasStep, EnqueuePtrsStep, DequeuePtrsStep, UpdateTailStep
     DEF Step
<1>4. CASE UNCHANGED rvars
  BY <1>4 DEF rvars, RingInv, RingTypeOK
<1>5. QED
  BY <1>1, <1>2, <1>3, <1>4 DEF RingNext

\* The inductive invariant.
LEMMA RingInvariant == RingSpec => [](\E s \in Index : RingInv(s))
<1>1. (\E s \in Index : RingInv(s)) /\ [RingNext]_rvars => (\E s \in Index : RingInv(s))'
  BY RingStep
<1>2. QED
  BY <1>1, RingInitInv, PTL DEF RingSpec

\* Every field of the ring and of the calls in progress has its type; in particular
\* a consumer returns only objects that a producer stored.
THEOREM RingTypes == RingSpec => []RingTypeOK
<1>1. (\E s \in Index : RingInv(s)) => RingTypeOK
  BY DEF RingInv
<1>2. QED
  BY <1>1, RingInvariant, PTL

\* With any number of threads and any interleaving of their accesses, a producer
\* never passes cons.tail by more than the capacity and no head or tail overtakes
\* the next one.
THEOREM RingIndicesOrdered == RingSpec => []IndicesOrdered
<1>1. ASSUME NEW s \in Index, RingInv(s) PROVE IndicesOrdered
  <2> DEFINE pt == ht["prod"].tail
             ph == ht["prod"].head
             ct == ht["cons"].tail
             ch == ht["cons"].head
  <2>1. /\ pt \in Index /\ ph \in Index /\ ct \in Index /\ ch \in Index
        /\ Pos(s, pt) \in Nat /\ Pos(s, ph) \in Nat /\ Pos(s, ct) \in Nat /\ Pos(s, ch) \in Nat
        /\ Pos(s, ct) <= Pos(s, ch) /\ Pos(s, ch) <= Lim(s, ht, "cons")
        /\ Pos(s, pt) <= Pos(s, ph) /\ Pos(s, ph) <= Lim(s, ht, "prod")
    BY <1>1, Sides, HtFields, PosFacts, TypeParts DEF RingInv, Ordered
  <2>2. Pos(s, ch) <= Pos(s, pt) /\ Pos(s, ph) <= Pos(s, ct) + Capacity /\ Capacity \in Nat
    BY <2>1, RingConstants DEF Lim
  <2> HIDE DEF pt, ph, ct, ch
  <2>3. /\ Ahead(ct, ch) = Pos(s, ch) - Pos(s, ct) /\ Ahead(ch, pt) = Pos(s, pt) - Pos(s, ch)
        /\ Ahead(pt, ph) = Pos(s, ph) - Pos(s, pt)
    BY <2>1, <2>2, PosFacts
  <2>4. Ahead(ct, ch) + Ahead(ch, pt) + Ahead(pt, ph) <= Capacity
    BY <2>1, <2>2, <2>3
  <2>5. QED
    BY <2>4 DEF IndicesOrdered, pt, ph, ct, ch
<1>2. (\E s \in Index : RingInv(s)) => IndicesOrdered
  BY <1>1
<1>3. QED
  BY <1>2, RingInvariant, PTL

\* The slots that the threads of one side have reserved are disjoint, and lie
\* between the tail and the head of that side.
THEOREM ReservationsApart == RingSpec => []ReservedApart
<1>1. ASSUME NEW s \in Index, RingInv(s) PROVE ReservedApart
  <2> SUFFICES ASSUME NEW t \in Thread, th[t].pc \in {"copy", "tail"}
               PROVE  LET d == th[t].side IN
                      /\ Ahead(ht[d].tail, th[t].old) + th[t].n <= Ahead(ht[d].tail, ht[d].head)
                      /\ \A u \in Thread \ {t} : (th[u].pc \in {"copy", "tail"} /\ th[u].side = d) =>
                           \/ Ahead(ht[d].tail, th[t].old) + th[t].n <= Ahead(ht[d].tail, th[u].old)
                           \/ Ahead(ht[d].tail, th[u].old) + th[u].n <= Ahead(ht[d].tail, th[t].old)
    BY DEF ReservedApart
  <2> DEFINE d == th[t].side
             a == ht[d].tail
  <2>1. /\ d \in Side /\ a \in Index /\ ht[d].head \in Index
        /\ Pos(s, a) \in Nat /\ Pos(s, ht[d].head) \in Nat /\ Pos(s, a) <= Pos(s, ht[d].head)
    BY <1>1, StepFacts
  <2>2. ASSUME NEW u \in Thread, th[u].pc \in {"copy", "tail"}, th[u].side = d
        PROVE  /\ th[u].n \in Nat /\ Pos(s, th[u].old) \in Nat
               /\ Ahead(a, th[u].old) = Pos(s, th[u].old) - Pos(s, a)
               /\ Pos(s, th[u].old) + th[u].n <= Pos(s, ht[d].head)
    <3>1. th[u] \in CallType /\ th[u].n \in Nat /\ th[u].old \in Index /\ CallOK(s, ht, slot, th[u])
      BY <1>1, StepFacts, CallFields
    <3>2. Pos(s, a) <= Pos(s, th[u].old) /\ Pos(s, th[u].old) + th[u].n <= Pos(s, ht[d].head)
      BY <2>2, <3>1 DEF CallOK, Reserved
    <3>3. QED
      BY <2>1, <3>1, <3>2, PosFacts
  <2>3. Ahead(a, ht[d].head) = Pos(s, ht[d].head) - Pos(s, a)
    BY <2>1, PosFacts
  <2>4. Ahead(a, th[t].old) + th[t].n <= Ahead(a, ht[d].head)
    BY <2>1, <2>2, <2>3
  <2>5. ASSUME NEW u \in Thread \ {t}, th[u].pc \in {"copy", "tail"}, th[u].side = d
        PROVE  \/ Ahead(a, th[t].old) + th[t].n <= Ahead(a, th[u].old)
               \/ Ahead(a, th[u].old) + th[u].n <= Ahead(a, th[t].old)
    <3>1. Disjoint(s, th[t], th[u])
      BY <1>1 DEF RingInv, Apart
    <3>2. \/ Pos(s, th[t].old) + th[t].n <= Pos(s, th[u].old)
          \/ Pos(s, th[u].old) + th[u].n <= Pos(s, th[t].old)
      BY <2>5, <3>1 DEF Disjoint, Reserved
    <3>3. QED
      BY <2>1, <2>2, <2>5, <3>2
  <2>6. QED
    BY <2>4, <2>5
<1>2. (\E s \in Index : RingInv(s)) => ReservedApart
  BY <1>1
<1>3. QED
  BY <1>2, RingInvariant, PTL

-----------------------------------------------------------------------------
(* The ring implements the queue of module BurstQueue *)

\* The objects from index a to index b of a table.
SpanOf(slots, a, b) == [i \in 1 .. Ahead(a, b) |-> slots[SlotAt(a, i)]]

\* The objects in the ring.
Items(hts, slots) == SpanOf(slots, hts["cons"].head, hts["prod"].tail)

\* What a call has taken and not yet returned.
HeldBy(slots, h) ==
  IF h.side = "cons" /\ h.pc = "copy" THEN SpanOf(slots, h.old, (h.old + h.n) % IndexMod)
  ELSE IF h.side = "cons" /\ h.pc = "tail" THEN h.objs ELSE <<>>
Held(slots, ths) == [t \in Thread |-> HeldBy(slots, ths[t])]

\* The objects of a span, by position.
LEMMA SpanFacts ==
  ASSUME NEW s \in Index, NEW a \in Index, NEW b \in Index, NEW slots \in SlotType,
         Pos(s, a) <= Pos(s, b)
  PROVE  /\ Pos(s, b) - Pos(s, a) \in Nat
         /\ SpanOf(slots, a, b) \in Seq(Obj \cup {0})
         /\ SpanOf(slots, a, b) =
              [i \in 1 .. Pos(s, b) - Pos(s, a) |-> slots[(s + Pos(s, a) + i - 1) % Size]]
         /\ Len(SpanOf(slots, a, b)) = Pos(s, b) - Pos(s, a)
<1>1. /\ Pos(s, b) \in Nat /\ Pos(s, a) \in Nat /\ Ahead(a, b) = Pos(s, b) - Pos(s, a)
      /\ Ahead(a, b) \in Nat
  BY PosFacts
<1>2. \A i \in 1 .. Ahead(a, b) : /\ SlotAt(a, i) = (s + Pos(s, a) + i - 1) % Size
                                  /\ SlotAt(a, i) \in 0 .. Size - 1
  BY <1>1, SlotPos
<1>3. \A i \in 1 .. Ahead(a, b) : slots[SlotAt(a, i)] \in Obj \cup {0}
  BY <1>2 DEF SlotType
<1>4. SpanOf(slots, a, b) \in Seq(Obj \cup {0}) /\ Len(SpanOf(slots, a, b)) = Ahead(a, b)
  BY <1>1, <1>3 DEF SpanOf
<1>5. SpanOf(slots, a, b) =
        [i \in 1 .. Ahead(a, b) |-> slots[(s + Pos(s, a) + i - 1) % Size]]
  BY <1>2 DEF SpanOf
<1>6. QED
  BY <1>1, <1>4, <1>5

\* A span is cut in two.
LEMMA SpanSplit ==
  ASSUME NEW s \in Index, NEW a \in Index, NEW b \in Index, NEW c \in Index,
         NEW slots \in SlotType, Pos(s, a) <= Pos(s, c), Pos(s, c) <= Pos(s, b)
  PROVE  LET w == SpanOf(slots, a, b)
             n == Pos(s, c) - Pos(s, a)
         IN  /\ n \in 0 .. Len(w)
             /\ SubSeq(w, 1, n) = SpanOf(slots, a, c)
             /\ SubSeq(w, n + 1, Len(w)) = SpanOf(slots, c, b)
<1> DEFINE w == SpanOf(slots, a, b)
           pa == Pos(s, a)
           pb == Pos(s, b)
           pc == Pos(s, c)
           n == pc - pa
           f(q) == slots[(s + q - 1) % Size]
<1>1. pa \in Nat /\ pb \in Nat /\ pc \in Nat /\ pa <= pc /\ pc <= pb /\ s \in Int
  BY PosFacts, RingConstants
<1>2. /\ w \in Seq(Obj \cup {0}) /\ Len(w) = pb - pa
      /\ w = [i \in 1 .. pb - pa |-> f(pa + i)]
      /\ SpanOf(slots, a, c) = [i \in 1 .. pc - pa |-> f(pa + i)]
      /\ SpanOf(slots, c, b) = [i \in 1 .. pb - pc |-> f(pc + i)]
  <2>1. \A q \in Nat, i \in Nat : s + (q + i) - 1 = s + q + i - 1
    BY <1>1
  <2>2. Pos(s, a) <= Pos(s, b)
    BY <1>1
  <2>3. /\ w \in Seq(Obj \cup {0}) /\ Len(w) = pb - pa
        /\ w = [i \in 1 .. pb - pa |-> slots[(s + pa + i - 1) % Size]]
    BY <2>2, SpanFacts
  <2>4. SpanOf(slots, a, c) = [i \in 1 .. pc - pa |-> slots[(s + pa + i - 1) % Size]]
    BY SpanFacts
  <2>5. SpanOf(slots, c, b) = [i \in 1 .. pb - pc |-> slots[(s + pc + i - 1) % Size]]
    BY SpanFacts
  <2>6. /\ \A i \in 1 .. pb - pa : s + (pa + i) - 1 = s + pa + i - 1
        /\ \A i \in 1 .. pc - pa : s + (pa + i) - 1 = s + pa + i - 1
        /\ \A i \in 1 .. pb - pc : s + (pc + i) - 1 = s + pc + i - 1
    BY <1>1
  <2>7. QED
    BY <2>3, <2>4, <2>5, <2>6
<1> HIDE DEF w, pa, pb, pc, f
<1>3. n \in 0 .. Len(w) /\ n \in Nat /\ Len(w) \in Nat
  BY <1>1, <1>2
<1>4. SubSeq(w, 1, n) = [i \in 1 .. n |-> w[i]]
  <2>1. 1 + n - 1 = n
    BY <1>3
  <2>2. \A i \in 1 .. n : i + 1 - 1 = i
    BY <1>3
  <2>3. SubSeq(w, 1, n) = [i \in 1 .. (1 + n - 1) |-> w[i + 1 - 1]]
    BY <1>2, <1>3
  <2>4. QED
    BY <2>1, <2>2, <2>3
<1>5. SubSeq(w, n + 1, Len(w)) = [i \in 1 .. pb - pc |-> w[i + n]]
  BY <1>1, <1>2, <1>3
<1>6. \A i \in 1 .. n : w[i] = f(pa + i)
  BY <1>1, <1>2
<1>7. \A i \in 1 .. pb - pc : w[i + n] = f(pc + i)
  <2> SUFFICES ASSUME NEW i \in 1 .. pb - pc PROVE w[i + n] = f(pc + i)
    OBVIOUS
  <2>1. i + n \in 1 .. pb - pa /\ pa + (i + n) = pc + i
    BY <1>1
  <2>2. QED
    BY <1>2, <2>1
<1>8. SubSeq(w, 1, n) = SpanOf(slots, a, c)
  BY <1>2, <1>4, <1>6
<1>9. SubSeq(w, n + 1, Len(w)) = SpanOf(slots, c, b)
  BY <1>2, <1>5, <1>7
<1>10. QED
  BY <1>3, <1>8, <1>9 DEF w, pa, pc

\* A span does not depend on the other slots.
LEMMA SpanSame ==
  ASSUME NEW s \in Index, NEW a \in Index, NEW b \in Index,
         NEW slots \in SlotType, NEW slots2 \in SlotType, Pos(s, a) <= Pos(s, b),
         \A p \in Nat : Pos(s, a) <= p /\ p < Pos(s, b)
                          => slots2[(s + p) % Size] = slots[(s + p) % Size]
  PROVE  SpanOf(slots2, a, b) = SpanOf(slots, a, b)
<1>1. Pos(s, a) \in Nat /\ Pos(s, b) \in Nat /\ s \in Int
  BY PosFacts, RingConstants
<1>2. /\ SpanOf(slots, a, b) =
           [i \in 1 .. Pos(s, b) - Pos(s, a) |-> slots[(s + Pos(s, a) + i - 1) % Size]]
      /\ SpanOf(slots2, a, b) =
           [i \in 1 .. Pos(s, b) - Pos(s, a) |-> slots2[(s + Pos(s, a) + i - 1) % Size]]
  BY SpanFacts
<1>3. ASSUME NEW i \in 1 .. Pos(s, b) - Pos(s, a)
      PROVE  slots2[(s + Pos(s, a) + i - 1) % Size] = slots[(s + Pos(s, a) + i - 1) % Size]
  <2> DEFINE p == Pos(s, a) + i - 1
  <2>1. /\ p \in Nat /\ Pos(s, a) <= p /\ p < Pos(s, b) /\ s + Pos(s, a) + i - 1 = s + p
    BY <1>1
  <2> HIDE DEF p
  <2>2. QED
    BY <2>1
<1>4. QED
  BY <1>2, <1>3

\* The queue's variables in these terms, before and after a step.
LEMMA QueueState ==
  /\ Span(ht["cons"].head, ht["prod"].tail) = Items(ht, slot)
  /\ Span(ht["cons"].head, ht["prod"].tail)' = Items(ht', slot')
  /\ [t \in Thread |->
        IF th[t].side = "cons" /\ th[t].pc = "copy" THEN Span(th[t].old, New(t))
        ELSE IF th[t].side = "cons" /\ th[t].pc = "tail" THEN th[t].objs ELSE <<>>]
       = Held(slot, th)
  /\ [t \in Thread |->
        IF th[t].side = "cons" /\ th[t].pc = "copy" THEN Span(th[t].old, New(t))
        ELSE IF th[t].side = "cons" /\ th[t].pc = "tail" THEN th[t].objs ELSE <<>>]'
       = Held(slot', th')
BY DEF Items, Held, HeldBy, SpanOf, Span, New

\* A call that has nothing in its hands.
LEMMA EmptyHands ==
  ASSUME NEW slots, NEW h, h.pc \notin Reserved \/ h.side # "cons"
  PROVE  HeldBy(slots, h) = <<>>
BY DEF HeldBy, Reserved

\* One call changes, and the table where no call looks.
LEMMA HeldUpdate ==
  ASSUME NEW t \in Thread, th \in [Thread -> CallType], NEW r, th' = [th EXCEPT ![t] = r],
         \A u \in Thread \ {t} : HeldBy(slot', th[u]) = HeldBy(slot, th[u])
  PROVE  Held(slot', th') = [Held(slot, th) EXCEPT ![t] = HeldBy(slot', r)]
BY DEF Held

\* A step that neither moves cons.head or prod.tail nor writes a slot, of a call
\* whose hands are as full as before.
LEMMA Unseen ==
  ASSUME NEW t \in Thread, th \in [Thread -> CallType], NEW r, th' = [th EXCEPT ![t] = r],
         slot' = slot, HeldBy(slot, r) = HeldBy(slot, th[t]),
         ht'["cons"].head = ht["cons"].head, ht'["prod"].tail = ht["prod"].tail
  PROVE  Items(ht', slot') = Items(ht, slot) /\ Held(slot', th') = Held(slot, th)
<1>1. Items(ht', slot') = Items(ht, slot)
  BY DEF Items
<1>2. Held(slot', th') = [Held(slot, th) EXCEPT ![t] = HeldBy(slot, r)]
  BY HeldUpdate
<1>3. Held(slot, th)[t] = HeldBy(slot, th[t]) /\ DOMAIN Held(slot, th) = Thread
  BY DEF Held
<1>4. QED
  BY <1>1, <1>2, <1>3 DEF Held

\* The ring changes, seen as a queue.
QueueSame == Items(ht', slot') = Items(ht, slot) /\ Held(slot', th') = Held(slot, th)
QueueGrows ==
  /\ Len(Items(ht', slot')) \in Len(Items(ht, slot)) + 1 .. Capacity
  /\ SubSeq(Items(ht', slot'), 1, Len(Items(ht, slot))) = Items(ht, slot)
  /\ Held(slot', th') = Held(slot, th)
QueueTaken(t) ==
  \E n \in 1 .. Len(Items(ht, slot)) :
    /\ Held(slot, th)[t] = <<>>
    /\ Held(slot', th') = [Held(slot, th) EXCEPT ![t] = SubSeq(Items(ht, slot), 1, n)]
    /\ Items(ht', slot') = SubSeq(Items(ht, slot), n + 1, Len(Items(ht, slot)))
QueueHanded(t) ==
  /\ Held(slot', th') = [Held(slot, th) EXCEPT ![t] = <<>>]
  /\ Items(ht', slot') = Items(ht, slot)

\* The calls and the steps before the compare-and-set.
LEMMA QuietSteps ==
  ASSUME NEW s \in Index, RingInv(s), NEW t \in Thread,
         \/ \E d, f, n, objs : Call(t, d, f, n, objs)
         \/ LoadHead(t) \/ LoadRoom(t)
  PROVE  QueueSame
<1>1. th \in [Thread -> CallType]
  BY StepFacts
<1>2. CASE \E d, f, n, objs : Call(t, d, f, n, objs)
  <2>1. PICK d, f, n, objs : Call(t, d, f, n, objs)
    BY <1>2
  <2> DEFINE r == [IdleThread EXCEPT !.pc = "head", !.side = d, !.fixed = f, !.max = n,
                                     !.objs = objs]
  <2>2. th[t].pc = "idle" /\ th' = [th EXCEPT ![t] = r] /\ UNCHANGED <<ht, slot>>
    BY <2>1, Zenon DEF Call
  <2>3. r.pc = "head"
    BY DEF IdleThread
  <2> HIDE DEF r
  <2>4. HeldBy(slot, r) = <<>> /\ HeldBy(slot, th[t]) = <<>>
    BY <2>2, <2>3, EmptyHands DEF Reserved
  <2>5. QED
    BY <1>1, <2>2, <2>4, Unseen DEF QueueSame
<1>3. CASE LoadHead(t)
  <2> DEFINE r == [th[t] EXCEPT !.pc = "room", !.old = ht[th[t].side].head, !.n = th[t].max]
  <2>1. r.pc = "room"
    BY <1>1 DEF CallType
  <2>2. th[t].pc = "head" /\ th' = [th EXCEPT ![t] = r] /\ UNCHANGED <<ht, slot>>
    BY <1>3 DEF LoadHead
  <2> HIDE DEF r
  <2>3. HeldBy(slot, r) = <<>> /\ HeldBy(slot, th[t]) = <<>>
    BY <2>1, <2>2, EmptyHands DEF Reserved
  <2>4. QED
    BY <1>1, <2>2, <2>3, Unseen DEF QueueSame
<1>4. CASE LoadRoom(t)
  <2>1. th[t].pc = "room" /\ UNCHANGED <<ht, slot>>
    BY <1>4 DEF LoadRoom
  <2> DEFINE e == IF th[t].side = "prod" THEN FreeEntries(th[t].old) ELSE UsedEntries(th[t].old)
             n == IF th[t].max <= e THEN th[t].max ELSE IF th[t].fixed THEN 0 ELSE e
  <2>2. th' = [th EXCEPT ![t] = IF n = 0 THEN IdleThread
                                ELSE [@ EXCEPT !.pc = "cas", !.n = n]]
    BY <1>4 DEF LoadRoom
  <2> HIDE DEF n
  <2> DEFINE r == IF n = 0 THEN IdleThread ELSE [th[t] EXCEPT !.pc = "cas", !.n = n]
  <2>3. r.pc \in {"idle", "cas"}
    BY <1>1 DEF CallType, IdleThread
  <2>4. th' = [th EXCEPT ![t] = r]
    BY <2>2
  <2> HIDE DEF r
  <2>5. HeldBy(slot, r) = <<>> /\ HeldBy(slot, th[t]) = <<>>
    BY <2>1, <2>3, EmptyHands DEF Reserved
  <2>6. QED
    BY <1>1, <2>1, <2>4, <2>5, Unseen DEF QueueSame
<1>5. QED
  BY <1>2, <1>3, <1>4

\* The compare-and-set: a dequeue takes effect when cons.head moves.
LEMMA CasTakes ==
  ASSUME NEW s \in Index, RingInv(s), NEW t \in Thread, Cas(t)
  PROVE  QueueSame \/ QueueTaken(t)
<1> DEFINE h == th[t]
           d == h.side
<1>1. /\ th \in [Thread -> CallType] /\ h \in CallType /\ d \in Side /\ h.pc = "cas"
      /\ ht \in HtType /\ slot \in SlotType /\ slot' = slot /\ h.old \in Index
      /\ h.n \in Nat
  BY StepFacts, CallFields DEF Cas
<1>2. HeldBy(slot, h) = <<>>
  BY <1>1, EmptyHands DEF Reserved
<1>3. CASE ~ (ht[d].single \/ ht[d].head = h.old)
  <2> DEFINE r == [h EXCEPT !.pc = "head"]
  <2>1. r.pc = "head"
    BY <1>1 DEF CallType
  <2>2. th' = [th EXCEPT ![t] = r] /\ ht' = ht
    BY <1>3 DEF Cas
  <2> HIDE DEF r
  <2>3. HeldBy(slot, r) = <<>>
    BY <2>1, EmptyHands DEF Reserved
  <2>4. QED
    BY <1>1, <1>2, <2>2, <2>3, Unseen DEF QueueSame
<1>4. CASE ht[d].single \/ ht[d].head = h.old
  <2> DEFINE r == [h EXCEPT !.pc = "copy", !.max = 0, !.fixed = TRUE]
             b == New(t)
             c == ht["cons"].head
             p == ht["prod"].tail
  <2>1. r.pc = "copy" /\ r.side = d /\ r.old = h.old /\ r.n = h.n
    BY <1>1 DEF CallType
  <2>2. th' = [th EXCEPT ![t] = r] /\ ht' = [ht EXCEPT ![d].head = b]
    BY <1>4 DEF Cas
  <2>3. /\ h.old = ht[d].head /\ h.n \in Nat /\ 1 <= h.n
        /\ b \in Index /\ Pos(s, b) = Pos(s, ht[d].head) + h.n
        /\ Pos(s, b) <= Lim(s, ht, d)
    BY <1>1, <1>4, CasFacts
  <2> HIDE DEF r
  <2>4. CASE d = "prod"
    <3>1. HeldBy(slot, r) = <<>>
      BY <2>1, <2>4, EmptyHands
    <3>2. ht'["cons"] = ht["cons"] /\ ht'["prod"].tail = ht["prod"].tail
      BY <1>1, <2>2, <2>4, Sides DEF HtType
    <3>3. QED
      BY <1>1, <1>2, <2>2, <3>1, <3>2, Unseen DEF QueueSame
  <2>5. CASE d = "cons"
    <3>1. /\ Pos(s, c) <= Pos(s, b) /\ Pos(s, b) <= Pos(s, p) /\ c \in Index /\ p \in Index
          /\ Pos(s, c) \in Nat /\ h.n = Pos(s, b) - Pos(s, c)
      <4>1. c \in Index /\ p \in Index /\ Pos(s, c) \in Nat
        BY StepFacts, Sides
      <4>2. Pos(s, b) <= Pos(s, p)
        BY <2>3, <2>5 DEF Lim
      <4>3. Pos(s, b) = Pos(s, c) + h.n
        BY <2>3, <2>5
      <4>4. QED
        BY <2>3, <4>1, <4>2, <4>3
    <3>2. ht'["cons"].head = b /\ ht'["prod"].tail = p
      BY <1>1, <2>2, <2>5, Sides DEF HtType
    <3> DEFINE w == Items(ht, slot)
    <3>3. /\ h.n \in 1 .. Len(w) /\ SubSeq(w, 1, h.n) = SpanOf(slot, c, b)
          /\ SubSeq(w, h.n + 1, Len(w)) = SpanOf(slot, b, p)
      <4>1. /\ w = SpanOf(slot, c, p) /\ s \in Index /\ slot \in SlotType
            /\ b \in Index /\ c \in Index /\ p \in Index
            /\ Pos(s, c) <= Pos(s, b) /\ Pos(s, b) <= Pos(s, p)
        BY <1>1, <2>3, <3>1 DEF Items
      <4> HIDE DEF b, c, p, w
      <4>2. LET n == Pos(s, b) - Pos(s, c) IN
            /\ n \in 0 .. Len(w)
            /\ SubSeq(w, 1, n) = SpanOf(slot, c, b)
            /\ SubSeq(w, n + 1, Len(w)) = SpanOf(slot, b, p)
        BY ONLY <4>1, SpanSplit
      <4>3. h.n \in Nat /\ 1 <= h.n /\ h.n = Pos(s, b) - Pos(s, c)
        BY ONLY <2>3, <3>1
      <4> HIDE DEF h
      <4>4. h.n \in 1 .. Len(w)
        BY ONLY <4>2, <4>3
      <4>5. QED
        BY ONLY <4>2, <4>3, <4>4
    <3>4. Items(ht', slot') = SubSeq(w, h.n + 1, Len(w))
      BY <1>1, <3>2, <3>3 DEF Items
    <3>5. HeldBy(slot, r) = SubSeq(w, 1, h.n)
      BY <2>1, <2>3, <2>5, <3>3 DEF HeldBy, New
    <3>6. Held(slot', th') = [Held(slot, th) EXCEPT ![t] = SubSeq(w, 1, h.n)]
      BY <1>1, <2>2, <3>5, HeldUpdate
    <3>7. Held(slot, th)[t] = <<>>
      BY <1>2 DEF Held
    <3>8. QED
      BY <3>3, <3>4, <3>6, <3>7 DEF QueueTaken
  <2>6. QED
    BY <1>1, <2>4, <2>5, Sides
<1>5. QED
  BY <1>3, <1>4

\* A producer writes only slots that are beyond prod.tail and not yet those of an
\* object that a consumer has reserved or may reserve.
LEMMA WritesAhead ==
  ASSUME NEW s \in Index, RingInv(s), NEW t \in Thread, ENQUEUE_PTRS(t),
         NEW p \in Nat, Pos(s, ht["cons"].tail) <= p, p < Pos(s, ht["prod"].tail)
  PROVE  slot'[(s + p) % Size] = slot[(s + p) % Size]
<1> DEFINE h == th[t]
           pt == Pos(s, ht["prod"].tail)
           ph == Pos(s, ht["prod"].head)
           ct == Pos(s, ht["cons"].tail)
           x == (s + p) % Size
<1>1. /\ h \in CallType /\ h.pc = "copy" /\ h.side = "prod" /\ CallOK(s, ht, slot, h)
      /\ h.n \in Nat /\ h.old \in Index /\ Pos(s, h.old) \in Nat
  BY StepFacts, CallFields, PosFacts DEF ENQUEUE_PTRS
<1>2. pt \in Nat /\ ph \in Nat /\ ct \in Nat /\ ph <= ct + Capacity
  BY StepFacts, Sides DEF Lim
<1>3. pt <= Pos(s, h.old) /\ Pos(s, h.old) + h.n <= ph
  BY <1>1 DEF CallOK, Reserved
<1>4. x \in 0 .. Size - 1
  BY RingConstants
<1>5. ASSUME NEW i \in 1 .. h.n PROVE SlotAt(h.old, i) # x
  <2> DEFINE q == Pos(s, h.old) + i - 1
  <2>1. /\ q \in Nat /\ p < q /\ q < p + Size /\ s + Pos(s, h.old) + i - 1 = s + q /\ i \in Nat
    BY <1>1, <1>2, <1>3, RingConstants
  <2> HIDE DEF q
  <2>2. (s + p) % Size # (s + q) % Size
    BY <2>1, SlotApart
  <2>3. SlotAt(h.old, i) = (s + q) % Size
    BY <1>1, <2>1, SlotPos
  <2>4. QED
    BY <2>2, <2>3
<1> DEFINE j(y) == CHOOSE i \in 1 .. h.n : SlotAt(h.old, i) = y
<1>6. slot' = [y \in 0 .. Size - 1 |->
                 IF \E i \in 1 .. h.n : SlotAt(h.old, i) = y THEN h.objs[j(y)] ELSE slot[y]]
  BY DEF ENQUEUE_PTRS
<1> HIDE DEF j, x
<1>7. QED
  BY <1>4, <1>5, <1>6 DEF x

\* The copies are not seen.
LEMMA CopiesUnseen ==
  ASSUME NEW s \in Index, RingInv(s), NEW t \in Thread, ENQUEUE_PTRS(t) \/ DEQUEUE_PTRS(t)
  PROVE  QueueSame
<1> DEFINE h == th[t]
<1>1. /\ th \in [Thread -> CallType] /\ h \in CallType /\ h.pc = "copy" /\ slot \in SlotType
      /\ ht' = ht /\ h.n \in Nat /\ h.old \in Index
  BY StepFacts, CallFields DEF ENQUEUE_PTRS, DEQUEUE_PTRS
<1>2. CASE ENQUEUE_PTRS(t)
  <2> DEFINE r == [h EXCEPT !.pc = "tail"]
  <2>1. h.side = "prod" /\ r.side = "prod"
    BY <1>1, <1>2 DEF ENQUEUE_PTRS, CallType
  <2>2. th' = [th EXCEPT ![t] = r]
    BY <1>2 DEF ENQUEUE_PTRS
  <2> HIDE DEF r
  <2>3. HeldBy(slot', r) = <<>> /\ HeldBy(slot, h) = <<>>
    BY <2>1, EmptyHands
  <2>4. slot' \in SlotType
    <3>1. RingInv(s)'
      BY <1>2, EnqueuePtrsStep
    <3>2. QED
      BY <3>1 DEF RingInv, RingTypeOK, SlotType
  <2>5. \A p \in Nat : Pos(s, ht["cons"].tail) <= p /\ p < Pos(s, ht["prod"].tail)
                         => slot'[(s + p) % Size] = slot[(s + p) % Size]
    BY <1>2, WritesAhead
  <2>6. /\ ht["cons"].head \in Index /\ ht["prod"].tail \in Index
        /\ Pos(s, ht["cons"].tail) <= Pos(s, ht["cons"].head)
        /\ Pos(s, ht["cons"].head) <= Pos(s, ht["prod"].tail)
        /\ Pos(s, ht["cons"].tail) \in Nat /\ Pos(s, ht["cons"].head) \in Nat
        /\ Pos(s, ht["prod"].tail) \in Nat
    BY StepFacts, Sides DEF Lim
  <2>7. Items(ht', slot') = Items(ht, slot)
    <3>1. \A p \in Nat : Pos(s, ht["cons"].head) <= p /\ p < Pos(s, ht["prod"].tail)
                           => slot'[(s + p) % Size] = slot[(s + p) % Size]
      BY <2>5, <2>6
    <3>2. SpanOf(slot', ht["cons"].head, ht["prod"].tail)
            = SpanOf(slot, ht["cons"].head, ht["prod"].tail)
      BY <1>1, <2>4, <2>6, <3>1, SpanSame
    <3>3. QED
      BY <1>1, <3>2 DEF Items
  <2>8. ASSUME NEW u \in Thread \ {t} PROVE HeldBy(slot', th[u]) = HeldBy(slot, th[u])
    <3>1. CASE th[u].side = "cons" /\ th[u].pc = "copy"
      <4> DEFINE g == th[u]
                 b == (g.old + g.n) % IndexMod
      <4>1. /\ g.n \in Nat /\ g.old \in Index /\ CallOK(s, ht, slot, g) /\ Pos(s, g.old) \in Nat
        BY StepFacts, CallFields, PosFacts
      <4>2. /\ Pos(s, ht["cons"].tail) <= Pos(s, g.old)
            /\ Pos(s, g.old) + g.n <= Pos(s, ht["cons"].head)
        BY <3>1, <4>1 DEF CallOK, Reserved
      <4>3. Pos(s, ht["cons"].head) < IndexMod /\ IndexMod \in Nat
        BY <2>6, PosFacts, RingConstants
      <4>4. Pos(s, g.old) + g.n < IndexMod
        BY <2>6, <4>1, <4>2, <4>3
      <4>5. b \in Index /\ Pos(s, b) = Pos(s, g.old) + g.n
        BY <4>1, <4>4, PosPlus
      <4> HIDE DEF b, g
      <4>6. Pos(s, g.old) <= Pos(s, b) /\ Pos(s, b) <= Pos(s, ht["prod"].tail)
        BY <2>6, <4>1, <4>2, <4>5
      <4>7. \A p \in Nat : Pos(s, g.old) <= p /\ p < Pos(s, b)
                             => slot'[(s + p) % Size] = slot[(s + p) % Size]
        BY <2>5, <2>6, <4>1, <4>2, <4>5, <4>6
      <4>8. SpanOf(slot', g.old, b) = SpanOf(slot, g.old, b)
        BY <1>1, <2>4, <4>1, <4>5, <4>6, <4>7, SpanSame
      <4>9. QED
        BY <3>1, <4>8 DEF HeldBy, b, g
    <3>2. QED
      BY <3>1 DEF HeldBy
  <2>9. Held(slot', th') = [Held(slot, th) EXCEPT ![t] = HeldBy(slot', r)]
    BY <1>1, <2>2, <2>8, HeldUpdate
  <2>10. Held(slot, th)[t] = <<>>
    BY <2>3 DEF Held
  <2>11. QED
    BY <2>3, <2>7, <2>9, <2>10 DEF Held, QueueSame
<1>3. CASE DEQUEUE_PTRS(t)
  <2> DEFINE objs == [i \in 1 .. h.n |-> slot[SlotAt(h.old, i)]]
             r == [h EXCEPT !.pc = "tail", !.objs = objs]
             b == (h.old + h.n) % IndexMod
  <2>1. h.side = "cons" /\ th' = [th EXCEPT ![t] = r] /\ slot' = slot
    BY <1>3 DEF DEQUEUE_PTRS
  <2> HIDE DEF objs
  <2>2. r.pc = "tail" /\ r.side = "cons" /\ r.objs = objs
    BY <1>1, <2>1 DEF CallType
  <2>3. /\ Pos(s, h.old) + h.n <= Pos(s, ht["cons"].head) /\ Pos(s, h.old) \in Nat
        /\ Pos(s, ht["cons"].head) < IndexMod /\ Pos(s, ht["cons"].head) \in Nat
        /\ IndexMod \in Nat
    <3>1. CallOK(s, ht, slot, h) /\ ht["cons"].head \in Index
      BY StepFacts, Sides
    <3>2. Pos(s, h.old) + h.n <= Pos(s, ht["cons"].head)
      BY <1>1, <2>1, <3>1 DEF CallOK, Reserved
    <3>3. QED
      BY <1>1, <3>1, <3>2, PosFacts, RingConstants
  <2>4. Pos(s, h.old) + h.n < IndexMod
    BY <1>1, <2>3
  <2>5. b \in Index /\ Pos(s, b) = Pos(s, h.old) + h.n
    BY <1>1, <2>4, PosPlus
  <2> HIDE DEF b, r
  <2>6. Ahead(h.old, b) = h.n
    <3>1. Pos(s, h.old) <= Pos(s, b)
      BY <1>1, <2>3, <2>5
    <3>2. Ahead(h.old, b) = Pos(s, b) - Pos(s, h.old)
      BY <1>1, <2>5, <3>1, PosFacts
    <3>3. QED
      BY <1>1, <2>3, <2>5, <3>2
  <2>7. SpanOf(slot, h.old, b) = objs
    BY <2>6 DEF SpanOf, objs
  <2>8. HeldBy(slot, r) = HeldBy(slot, h)
    BY <1>1, <2>1, <2>2, <2>7 DEF HeldBy, b
  <2>9. QED
    BY <1>1, <2>1, <2>8, Unseen DEF QueueSame
<1>4. QED
  BY <1>2, <1>3

\* An enqueue takes effect when prod.tail moves, and a dequeue ends when cons.tail does.
LEMMA TailShows ==
  ASSUME NEW s \in Index, RingInv(s), NEW t \in Thread, update_tail(t)
  PROVE  QueueGrows \/ QueueHanded(t)
<1> DEFINE h == th[t]
           d == h.side
           b == New(t)
           c == ht["cons"].head
           p == ht["prod"].tail
<1>1. /\ th \in [Thread -> CallType] /\ h \in CallType /\ d \in Side /\ h.pc = "tail"
      /\ ht \in HtType /\ slot \in SlotType /\ slot' = slot
      /\ th' = [th EXCEPT ![t] = IdleThread] /\ ht' = [ht EXCEPT ![d].tail = b]
  BY StepFacts, CallFields DEF update_tail
<1>2. /\ h.n \in Nat /\ 1 <= h.n /\ b \in Index /\ Pos(s, b) = Pos(s, ht[d].tail) + h.n
      /\ Pos(s, b) <= Pos(s, ht[d].head)
  BY TailFacts
<1> HIDE DEF b
<1>3. HeldBy(slot, IdleThread) = <<>>
  <2>1. IdleThread.side = "prod"
    BY DEF IdleThread
  <2>2. QED
    BY <2>1, EmptyHands
<1>4. Held(slot', th') = [Held(slot, th) EXCEPT ![t] = <<>>]
  <2>1. \A u \in Thread \ {t} : HeldBy(slot', th[u]) = HeldBy(slot, th[u])
    BY <1>1
  <2>2. Held(slot', th') = [Held(slot, th) EXCEPT ![t] = HeldBy(slot', IdleThread)]
    BY <1>1, <2>1, HeldUpdate
  <2>3. QED
    BY <1>1, <1>3, <2>2
<1>5. CASE d = "cons"
  <2>1. ht'["cons"].head = c /\ ht'["prod"].tail = p
    BY <1>1, <1>5, Sides DEF HtType
  <2>2. Items(ht', slot') = Items(ht, slot)
    BY <1>1, <2>1 DEF Items
  <2>3. QED
    BY <1>4, <2>2 DEF QueueHanded
<1>6. CASE d = "prod"
  <2>1. ht'["cons"].head = c /\ ht'["prod"].tail = b
    BY <1>1, <1>6, Sides DEF HtType
  <2>2. /\ c \in Index /\ p \in Index /\ Pos(s, c) \in Nat /\ Pos(s, p) \in Nat
        /\ Pos(s, c) <= Pos(s, p) /\ Pos(s, b) = Pos(s, p) + h.n
        /\ Pos(s, b) <= Pos(s, c) + Capacity /\ Pos(s, b) \in Nat
    <3>1. /\ Pos(s, ht["prod"].head) <= Pos(s, ht["cons"].tail) + Capacity
          /\ Pos(s, ht["cons"].tail) <= Pos(s, c) /\ Pos(s, c) <= Pos(s, p)
          /\ Pos(s, ht["cons"].tail) \in Nat /\ Pos(s, ht["prod"].head) \in Nat
          /\ Pos(s, c) \in Nat /\ Pos(s, p) \in Nat /\ c \in Index /\ p \in Index
          /\ Capacity \in Nat
      BY StepFacts, Sides, RingConstants DEF Lim
    <3>2. Pos(s, b) = Pos(s, p) + h.n /\ Pos(s, b) <= Pos(s, ht["prod"].head)
      BY <1>2, <1>6
    <3>3. QED
      BY <1>2, <3>1, <3>2
  <2> DEFINE w == SpanOf(slot, c, b)
  <2>3. /\ Items(ht, slot) = SpanOf(slot, c, p) /\ Items(ht', slot') = w
    BY <1>1, <2>1 DEF Items
  <2>4. Pos(s, p) <= Pos(s, b) /\ Pos(s, c) <= Pos(s, b)
    BY <1>2, <2>2
  <2>5. Len(w) = Pos(s, b) - Pos(s, c) /\ Len(Items(ht, slot)) = Pos(s, p) - Pos(s, c)
    BY <1>1, <1>2, <2>2, <2>3, <2>4, SpanFacts
  <2>6. SubSeq(w, 1, Len(Items(ht, slot))) = Items(ht, slot)
    <3>1. LET n == Pos(s, p) - Pos(s, c) IN SubSeq(w, 1, n) = SpanOf(slot, c, p)
      BY <1>1, <1>2, <2>2, <2>4, SpanSplit
    <3>2. QED
      BY <2>3, <2>5, <3>1
  <2>7. Len(w) \in Len(Items(ht, slot)) + 1 .. Capacity
    <3>1. /\ Pos(s, b) - Pos(s, c) \in Nat /\ Pos(s, b) - Pos(s, c) <= Capacity
          /\ Pos(s, b) - Pos(s, c) >= Pos(s, p) - Pos(s, c) + 1
          /\ Pos(s, p) - Pos(s, c) \in Nat /\ Capacity \in Nat
      BY <1>2, <2>2, <2>4, RingConstants
    <3>2. QED
      BY <2>5, <3>1
  <2>8. Held(slot', th') = Held(slot, th)
    <3>1. Held(slot, th)[t] = <<>>
      BY <1>1, <1>6, EmptyHands DEF Held
    <3>2. QED
      BY <1>4, <3>1 DEF Held
  <2>9. QED
    BY <2>3, <2>6, <2>7, <2>8 DEF QueueGrows
<1>7. QED
  BY <1>1, <1>5, <1>6, Sides

\* Every step of the ring is a step of the queue, or none.
LEMMA QueueStep ==
  ASSUME NEW s \in Index, RingInv(s), [RingNext]_rvars
  PROVE  QueueSame \/ QueueGrows \/ \E t \in Thread : QueueTaken(t) \/ QueueHanded(t)
<1>1. ASSUME NEW t \in Producer,
             rte_ring_enqueue(t) \/ rte_ring_enqueue_bulk(t) \/ rte_ring_enqueue_burst(t)
      PROVE  QueueSame
  <2>1. \E d, f, n, objs : Call(t, d, f, n, objs)
    BY <1>1 DEF rte_ring_enqueue, rte_ring_enqueue_bulk, rte_ring_enqueue_burst, Enqueue
  <2>2. QED
    BY <2>1, QuietSteps DEF Thread
<1>2. ASSUME NEW t \in Consumer,
             rte_ring_dequeue(t) \/ rte_ring_dequeue_bulk(t) \/ rte_ring_dequeue_burst(t)
      PROVE  QueueSame
  <2>1. \E d, f, n, objs : Call(t, d, f, n, objs)
    BY <1>2 DEF rte_ring_dequeue, rte_ring_dequeue_bulk, rte_ring_dequeue_burst, Dequeue
  <2>2. QED
    BY <2>1, QuietSteps DEF Thread
<1>3. ASSUME NEW t \in Thread, Step(t)
      PROVE  QueueSame \/ QueueGrows \/ \E u \in Thread : QueueTaken(u) \/ QueueHanded(u)
  BY <1>3, QuietSteps, CasTakes, CopiesUnseen, TailShows DEF Step
<1>4. CASE UNCHANGED rvars
  BY <1>4 DEF rvars, QueueSame
<1>5. QED
  BY <1>1, <1>2, <1>3, <1>4 DEF RingNext

\* The ring implements the queue of BurstQueue, whatever the threads do between
\* their accesses: an enqueue of several objects appears at once when prod.tail
\* moves, a dequeue takes its objects at once when cons.head moves, and no object
\* is lost, doubled, overtaken or overwritten before it is copied.
THEOREM RingIsBurstQueue == RingSpec => ActsAsBurstQueue
<1> DEFINE items == Span(ht["cons"].head, ht["prod"].tail)
           held == [t \in Thread |->
             IF th[t].side = "cons" /\ th[t].pc = "copy" THEN Span(th[t].old, New(t))
             ELSE IF th[t].side = "cons" /\ th[t].pc = "tail" THEN th[t].objs ELSE <<>>]
<1>1. RingInit => Abstract!BurstInit
  <2> SUFFICES ASSUME RingInit PROVE items = <<>> /\ held = [t \in Thread |-> <<>>]
    BY DEF Abstract!BurstInit
  <2>1. PICK s \in Index : RingInv(s)
    BY RingInitInv
  <2>2. /\ ht["cons"].head \in Index /\ ht["prod"].tail = ht["cons"].head /\ slot \in SlotType
    <3>1. ht \in HtType /\ slot \in SlotType
      BY <2>1, TypeParts DEF RingInv
    <3>2. PICK x \in Start, sp \in SpEnq, sc \in ScDeq :
               ht = [d \in Side |-> [head |-> x, tail |-> x,
                                                single |-> IF d = "prod" THEN sp ELSE sc]]
      BY DEF RingInit
    <3>3. ht["prod"].tail = ht["cons"].head
      BY <3>2, Sides
    <3>4. QED
      BY <3>1, <3>3, Sides, HtFields
  <2>3. Len(items) = 0 /\ items \in Seq(Obj \cup {0})
    BY <2>1, <2>2, SpanFacts, QueueState, PosFacts DEF Items
  <2>4. \A t \in Thread : th[t].side = "prod"
    BY DEF RingInit, IdleThread
  <2>5. QED
    BY <2>3, <2>4
<1>2. (\E s \in Index : RingInv(s)) /\ [RingNext]_rvars
        => [Abstract!PutSome \/ \E t \in Thread : Abstract!TakeSome(t) \/ Abstract!Deliver(t)]_<<items, held>>
  <2> SUFFICES ASSUME NEW s \in Index, RingInv(s), [RingNext]_rvars
               PROVE  [Abstract!PutSome \/ \E t \in Thread : Abstract!TakeSome(t) \/ Abstract!Deliver(t)]_<<items, held>>
    OBVIOUS
  <2>1. /\ items = Items(ht, slot) /\ items' = Items(ht', slot')
        /\ held = Held(slot, th) /\ held' = Held(slot', th')
    BY QueueState
  <2>2. CASE QueueSame
    BY <2>1, <2>2 DEF QueueSame
  <2>3. CASE QueueGrows
    BY <2>1, <2>3 DEF QueueGrows, Abstract!PutSome
  <2>4. ASSUME NEW t \in Thread, QueueTaken(t) PROVE Abstract!TakeSome(t)
    BY <2>1, <2>4 DEF QueueTaken, Abstract!TakeSome
  <2>5. ASSUME NEW t \in Thread, QueueHanded(t) PROVE Abstract!Deliver(t)
    BY <2>1, <2>5 DEF QueueHanded, Abstract!Deliver
  <2>6. QED
    BY <2>2, <2>3, <2>4, <2>5, QueueStep
<1>3. QED
  BY <1>1, <1>2, RingInvariant, PTL DEF RingSpec, ActsAsBurstQueue, Abstract!BurstSpec
=============================================================================
