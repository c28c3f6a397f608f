------------------------- MODULE EncapsulatorProofs -------------------------
(* The encapsulator for payloads and PDUs of any size and any number of IDs:   *)
(* the frame under construction is sound, an mbuf is freed once, and what is   *)
(* sent are whole PDUs and whole runs of fragments that can be told apart.     *)
EXTENDS Encapsulator, FiniteSetTheorems, WellFoundedInduction, TLAPS

-----------------------------------------------------------------------------
(* The inductive invariant *)

Size16 == 0 .. U16 - 1

CellType == [Slot -> Int]
QueueType ==
  [head: -1 .. QueueMaxSize - 1, tail: -1 .. QueueMaxSize - 1, size: 0 .. QueueMaxSize,
   cell: CellType]

EncType ==
  [max: Size16, used: Size16, usable: Size16, gse: Seq(Packet), buf: [FragId -> Buffer],
   queue: QueueType, last: FragId, cur: FragId \cup {NoId},
   count: [FragId -> 0 .. TimeStamps - 1], freed: [Pdu -> Nat], built: Seq(Packet),
   out: 0 .. EncapPool]

\* The nodes that read_enapsulate_buffer makes.
Whole == {u \in Node : /\ u.kind = "W" /\ u.size = u.plen /\ u.from = 0
                       /\ u.size \in 1 .. U16 - 1 /\ u.pdu \in Pdu}

\* What a middle fragment takes from a frame.
MiddleLength == 9 + MiddleSize

Closed(e) == e.max = 0 /\ e.used = 0 /\ e.usable = 0 /\ e.gse = <<>>

InUse(e) ==
  /\ e.max = Payload /\ e.used + e.usable = Payload
  /\ e.usable >= padding_threshold /\ e.gse # <<>>

\* No PDU is being sent in fragments.
Resting(e) ==
  /\ e.queue.size = 0 /\ e.queue.head = -1 /\ e.queue.tail = -1
  /\ \A i \in FragId : ~ e.buf[i].used

\* The PDU in buffer b has fragments that are not sent, and the first is.
Cut(b) ==
  /\ b.used /\ b.sent \in 1 .. b.total - 1
  /\ b.node \in Whole
  /\ b.middle = MiddleSize
  /\ (13 + b.end) % U16 <= MiddleLength
  /\ b.end \in Size16
  /\ b.end < U16 - CRC => b.start + b.middle * (b.total - 2) + b.end = b.node.plen

\* The PDU with ID i is being sent in fragments.  The next fragment fits: the
\* frame is new, or it has one middle fragment of half a payload.
SendingId(e, i) ==
  /\ e.queue.size = 1 /\ e.queue.head = 0 /\ e.queue.tail = 0 /\ e.queue.cell[0] = i
  /\ Cut(e.buf[i])
  /\ \A j \in FragId \ {i} : ~ e.buf[j].used
  /\ e.cur = i
  /\ e.max = 0 \/ (e.usable = Payload - MiddleLength /\ Payload > GSE_MAX_SIZE)

Sending(e) == \E i \in FragId : SendingId(e, i)

EncInv ==
  /\ arrived \in 0 .. MaxPdus /\ ring \in Seq(Whole) /\ idle \in 0 .. IdleLoops - 1
  /\ enc \in EncType
  /\ Closed(enc) \/ InUse(enc)
  /\ Resting(enc) \/ Sending(enc)

-----------------------------------------------------------------------------
(* Numbers *)

\* 16-bit arithmetic: adding 2^16 does not change a 16-bit number.
LEMMA FullTurn ==
  ASSUME NEW x \in Int, 0 <= x, x < U16
  PROVE  (x + U16) % U16 = x
BY Z3 DEF U16

LEMMA NoTurn ==
  ASSUME NEW x \in Int, 0 <= x, x < U16
  PROVE  x % U16 = x
BY Z3 DEF U16

LEMMA TwoPow16 == U16 \in Nat /\ U16 >= 16
BY DEF U16

\* 16-bit sums and differences that do not wrap.
LEMMA SizeFacts ==
  /\ 0 \in Size16 /\ U16 \in Nat
  /\ \A a \in Nat : a % U16 \in Size16
  /\ \A a, b \in Size16 : b <= a => (a + U16 - b) % U16 = a - b /\ a - b \in Size16
  /\ \A a, b \in Size16 : a + b < U16 => (a + b) % U16 = a + b /\ a + b \in Size16
<1>1. U16 \in Nat /\ U16 > 0
  BY DEF U16
<1>2. 0 \in Size16
  BY <1>1 DEF Size16
<1>3. \A a \in Nat : a % U16 \in Size16
  BY <1>1, SMTT(30) DEF Size16
<1>4. ASSUME NEW a \in Size16, NEW b \in Size16, b <= a
      PROVE  (a + U16 - b) % U16 = a - b /\ a - b \in Size16
  <2>1. a - b \in 0 .. U16 - 1 /\ a + U16 - b = (a - b) + U16
    BY <1>1, <1>4 DEF Size16
  <2>2. \A x \in Int : 0 <= x /\ x < U16 => (x + U16) % U16 = x
    BY FullTurn
  <2>3. a - b \in Int /\ 0 <= a - b /\ a - b < U16
    BY <1>1, <2>1
  <2>4. QED
    BY <2>1, <2>2, <2>3 DEF Size16
<1>5. ASSUME NEW a \in Size16, NEW b \in Size16, a + b < U16
      PROVE  (a + b) % U16 = a + b /\ a + b \in Size16
  <2>1. a + b \in 0 .. U16 - 1
    BY <1>1, <1>5 DEF Size16
  <2>2. a + b \in Int /\ 0 <= a + b
    BY <1>1, <1>5 DEF Size16
  <2>3. (a + b) % U16 = a + b
    BY <1>5, <2>2, NoTurn
  <2>4. QED
    BY <2>1, <2>3 DEF Size16
<1>6. QED
  BY <1>1, <1>2, <1>3, <1>4, <1>5

\* The constants, and what follows for the sizes of fragments.
LEMMA ConstantFacts ==
  /\ Payload \in Size16 /\ Payload \in Nat /\ Payload < U16 /\ Payload # 0 /\ GSE_MAX_SIZE \in Nat
  /\ padding_threshold \in Nat /\ padding_threshold >= 16 /\ Payload >= 4 * padding_threshold
  /\ IdleLoops \in Nat \ {0} /\ MaxPdus \in Nat /\ EncapPool \in Nat \ {0}
  /\ TimeStamps \in Nat \ {0, 1} /\ QueueMaxSize \in Nat /\ QueueMaxSize >= 2
  /\ 0 \in FragId /\ NoId \notin FragId
  /\ MiddleSize \in 1 .. U16 - 1
  /\ MiddleLength = 9 + MiddleSize /\ MiddleLength \in Nat /\ MiddleLength >= 12
  /\ 2 * MiddleLength <= Payload + MiddleLength - 6
  /\ Payload <= GSE_MAX_SIZE => Payload - MiddleLength < padding_threshold
  /\ Payload > GSE_MAX_SIZE => /\ MiddleLength <= Payload - MiddleLength
                               /\ Payload - 2 * MiddleLength < padding_threshold
<1>1. /\ Payload \in Nat /\ Payload < U16 /\ GSE_MAX_SIZE \in Nat /\ padding_threshold \in Nat
      /\ padding_threshold >= 16 /\ Payload >= 4 * padding_threshold /\ Payload # 0
      /\ IdleLoops \in Nat \ {0} /\ MaxPdus \in Nat /\ EncapPool \in Nat \ {0}
      /\ TimeStamps \in Nat \ {0, 1}
  <2>1. /\ Payload \in Nat /\ GSE_MAX_SIZE \in Nat /\ padding_threshold \in Nat /\ MaxPdus \in Nat
        /\ IdleLoops \in Nat \ {0} /\ EncapPool \in Nat \ {0} /\ TimeStamps \in Nat \ {0, 1}
    BY EncapsulatorAssumption
  <2>2. padding_threshold >= 16
    BY <2>1, EncapsulatorAssumption DEF M_HEADER, SEQ_EXT
  <2>3. Payload >= 4 * padding_threshold /\ Payload < U16
    <3>1. Payload \in 4 * padding_threshold .. U16 - 1 /\ U16 \in Nat
      <4>1. U16 \in Nat
        BY DEF U16
      <4>2. QED
        BY <4>1, EncapsulatorAssumption
    <3>2. QED
      BY <3>1, <2>1
  <2>4. QED
    BY <2>1, <2>2, <2>3
<1>2. QueueMaxSize \in Nat /\ QueueMaxSize >= 2
  BY QueueMaxSizeAssumption
<1>3. 0 \in FragId /\ NoId \notin FragId
  BY <1>2 DEF FragId, Slot, NoId
<1>4. Payload \in Size16
  BY <1>1, SizeFacts DEF Size16
<1>5. Payload \div 2 \in Nat /\ 2 * (Payload \div 2) <= Payload /\ Payload <= 2 * (Payload \div 2) + 1
  BY <1>1
<1>6. MiddleSize = (IF Payload <= GSE_MAX_SIZE THEN Payload ELSE Payload \div 2) - 15
  BY <1>1, <1>5 DEF MiddleSize, M_HEADER, SEQ_EXT
<1>7. MiddleSize \in 1 .. U16 - 1
  BY <1>1, <1>5, <1>6, SizeFacts
<1>8. MiddleLength = 9 + MiddleSize
  BY DEF MiddleLength
<1>9. MiddleLength \in Nat /\ MiddleLength >= 12 /\ 2 * MiddleLength <= Payload + MiddleLength - 6
  BY <1>1, <1>5, <1>6, <1>7, <1>8
<1>10. Payload <= GSE_MAX_SIZE => Payload - MiddleLength < padding_threshold
  BY <1>1, <1>6, <1>8
<1>11. Payload > GSE_MAX_SIZE => /\ MiddleLength <= Payload - MiddleLength
                                 /\ Payload - 2 * MiddleLength < padding_threshold
  BY <1>1, <1>5, <1>6, <1>8
<1>12. QED
  BY <1>1, <1>2, <1>3, <1>4, <1>7, <1>8, <1>9, <1>10, <1>11

\* The length of a packet of one PDU or fragment.
LEMMA Lengths ==
  ASSUME NEW u \in Node
  PROVE  /\ gse_total_length(u, 1) \in Size16
         /\ u.kind = "W" => gse_total_length(u, 1) = (4 + u.size) % U16
         /\ u.kind = "S" => gse_total_length(u, 1) = (11 + u.size) % U16
         /\ u.kind = "M" => gse_total_length(u, 1) = (9 + u.size) % U16
         /\ u.kind = "E" => gse_total_length(u, 1) = (13 + u.size) % U16
<1>1. u.size \in Nat /\ u.kind \in {"W", "S", "M", "E"}
  BY DEF Node
<1>2. /\ u.kind = "W" => Header(u, 1) + Datafield(u, 1) = 4 + u.size
      /\ u.kind = "S" => Header(u, 1) + Datafield(u, 1) = 11 + u.size
      /\ u.kind = "M" => Header(u, 1) + Datafield(u, 1) = 9 + u.size
      /\ u.kind = "E" => Header(u, 1) + Datafield(u, 1) = 13 + u.size
  BY <1>1 DEF Header, Datafield, CRC, SEQ_EXT
<1>3. Header(u, 1) + Datafield(u, 1) \in Nat
  BY <1>1, <1>2
<1>4. QED
  BY <1>1, <1>2, <1>3, SizeFacts DEF gse_total_length

-----------------------------------------------------------------------------
(* The operations on the frame *)

\* The fields of the encapsulator.
LEMMA EncFields ==
  ASSUME NEW e \in EncType
  PROVE  /\ e.max \in Size16 /\ e.used \in Size16 /\ e.usable \in Size16
         /\ e.gse \in Seq(Packet) /\ e.built \in Seq(Packet)
         /\ e.buf \in [FragId -> Buffer] /\ e.queue \in QueueType /\ e.last \in FragId
         /\ e.cur \in FragId \cup {NoId} /\ e.count \in [FragId -> 0 .. TimeStamps - 1]
         /\ e.freed \in [Pdu -> Nat] /\ e.out \in 0 .. EncapPool
BY DEF EncType

\* The packet of u.
PacketOf(e, u) == [node |-> u, n |-> 1, ts |-> IF u.kind = "W" THEN 0 ELSE e.count[u.id]]

\* e and f agree on everything but the frame, what was built, and what was freed.
SameRest(e, f) ==
  /\ f.buf = e.buf /\ f.queue = e.queue /\ f.last = e.last
  /\ f.cur = e.cur /\ f.count = e.count

\* The time stamp that a fragment with ID i gets.
NextStamp(e, i) ==
  LET c == IF e.cur \in {NoId, i} THEN e.count[i] ELSE e.count[i] + 1
  IN  IF c >= TimeStamps THEN 0 ELSE c

\* A node that may be put in a frame.
Packable(u) == u \in Node /\ (u.kind # "W" => u.id \in FragId)

LEMMA OpenedFacts ==
  ASSUME NEW e \in EncType, Closed(e) \/ InUse(e)
  PROVE  LET o == Opened(e) IN
         /\ o \in EncType /\ SameRest(e, o) /\ o.freed = e.freed /\ o.built = e.built
         /\ o.out = e.out /\ o.gse = e.gse
         /\ o.max = Payload /\ o.used + o.usable = Payload
         /\ o.usable >= padding_threshold
         /\ o.usable = IF e.max = 0 THEN Payload ELSE e.usable
         /\ o.used = e.used
<1>1. CASE e.max = 0
  <2> DEFINE o == [e EXCEPT !.max = Payload, !.used = 0, !.usable = Payload]
  <2>1. o \in EncType
    BY ConstantFacts, SizeFacts DEF EncType
  <2>2. /\ SameRest(e, o) /\ o.freed = e.freed /\ o.built = e.built /\ o.out = e.out /\ o.gse = e.gse
        /\ o.max = Payload /\ o.used = 0 /\ o.usable = Payload
    BY DEF EncType, SameRest
  <2>3. e.used = 0
    BY <1>1, ConstantFacts DEF Closed, InUse
  <2>4. Opened(e) = o
    BY <1>1 DEF Opened
  <2> HIDE DEF o
  <2>5. QED
    BY <1>1, <2>1, <2>2, <2>3, <2>4, ConstantFacts
<1>2. CASE e.max # 0
  <2>1. InUse(e)
    BY <1>2 DEF Closed
  <2>2. QED
    BY <1>2, <2>1 DEF Opened, InUse, SameRest
<1>3. QED
  BY <1>1, <1>2

LEMMA StampedFacts ==
  ASSUME NEW e \in EncType, NEW u, Packable(u)
  PROVE  LET s == Stamped(e, u) IN
         /\ s \in EncType
         /\ s.buf = e.buf /\ s.queue = e.queue /\ s.last = e.last
         /\ s.freed = e.freed /\ s.built = e.built /\ s.out = e.out /\ s.gse = e.gse
         /\ s.max = e.max /\ s.used = e.used /\ s.usable = e.usable
         /\ u.kind = "W" => s = e
         /\ u.kind # "W" => /\ s.cur = u.id
                            /\ s.count = [e.count EXCEPT ![u.id] = NextStamp(e, u.id)]
                            /\ e.cur = u.id => s.count = e.count
<1>1. CASE u.kind = "W"
  BY <1>1 DEF Stamped
<1>2. CASE u.kind # "W"
  <2> DEFINE c == IF e.cur \in {NoId, u.id} THEN e.count[u.id] ELSE e.count[u.id] + 1
             d == IF c >= TimeStamps THEN 0 ELSE c
             s == [e EXCEPT !.cur = u.id, !.count[u.id] = d]
  <2>1. u.id \in FragId /\ e.count[u.id] \in 0 .. TimeStamps - 1
    BY <1>2, EncFields DEF Packable
  <2>2. d \in 0 .. TimeStamps - 1
    BY <2>1, ConstantFacts
  <2>3. Stamped(e, u) = s
    BY <1>2 DEF Stamped
  <2>7. d = NextStamp(e, u.id)
    BY DEF NextStamp
  <2>8. e.cur = u.id => d = e.count[u.id]
    BY <2>1, ConstantFacts
  <2> HIDE DEF d
  <2>4. s \in EncType
    BY <2>1, <2>2 DEF EncType
  <2>5. /\ s.buf = e.buf /\ s.queue = e.queue /\ s.last = e.last
        /\ s.freed = e.freed /\ s.built = e.built /\ s.out = e.out /\ s.gse = e.gse
        /\ s.max = e.max /\ s.used = e.used /\ s.usable = e.usable /\ s.cur = u.id
        /\ s.count = [e.count EXCEPT ![u.id] = d]
    BY DEF EncType
  <2> HIDE DEF s
  <2>9. e.cur = u.id => [e.count EXCEPT ![u.id] = d] = e.count
    BY <2>1, <2>8, EncFields
  <2>6. QED
    BY <1>2, <2>3, <2>4, <2>5, <2>7, <2>9
<1>3. QED
  BY <1>1, <1>2

\* A packet that fits takes its length from what is usable.
LEMMA GroupedFacts ==
  ASSUME NEW e \in EncType, e.used + e.usable = Payload,
         NEW u, Packable(u), gse_total_length(u, 1) <= e.usable
  PROVE  LET g == Grouped(e, u, 1)
             len == gse_total_length(u, 1)
         IN  /\ g \in EncType /\ SameRest(e, g)
             /\ g.freed = e.freed /\ g.built = e.built /\ g.out = e.out
             /\ g.max = e.max /\ g.usable = e.usable - len /\ g.used = e.used + len
             /\ g.gse = Append(e.gse, PacketOf(e, u)) /\ PacketOf(e, u) \in Packet
<1> DEFINE len == gse_total_length(u, 1)
           a == (e.usable + U16 - len) % U16
           b == (e.used + len) % U16
           k == PacketOf(e, u)
           g == [e EXCEPT !.usable = a, !.used = b, !.gse = Append(@, k)]
<1>1. len \in Size16 /\ e.used \in Size16 /\ e.usable \in Size16
  BY Lengths, EncFields DEF Packable
<1>2. e.used + len < U16
  BY <1>1, ConstantFacts, SizeFacts DEF Size16
<1>3. a = e.usable - len /\ b = e.used + len /\ a \in Size16 /\ b \in Size16
  BY <1>1, <1>2, SizeFacts
<1>4. k \in Packet
  <2>1. u.kind # "W" => e.count[u.id] \in 0 .. TimeStamps - 1
    BY EncFields DEF Packable
  <2>2. 0 \in 0 .. TimeStamps - 1
    BY ConstantFacts
  <2>3. QED
    BY <2>1, <2>2 DEF PacketOf, Packet, Packable
<1>5. Grouped(e, u, 1) = g
  BY DEF Grouped, PacketOf
<1> HIDE DEF a, b, k
<1>6. Append(e.gse, k) \in Seq(Packet)
  BY <1>4, EncFields
<1>7. g \in EncType
  BY <1>3, <1>6 DEF EncType
<1>8. /\ SameRest(e, g) /\ g.freed = e.freed /\ g.built = e.built /\ g.out = e.out
      /\ g.max = e.max /\ g.usable = a /\ g.used = b /\ g.gse = Append(e.gse, k)
  BY DEF EncType, SameRest
<1> HIDE DEF g
<1>9. QED
  BY <1>3, <1>4, <1>5, <1>7, <1>8 DEF k

\* The mbufs that a frame gives back are counted.
LEMMA FreesNat ==
  ASSUME NEW g \in Seq(Packet), NEW p
  PROVE  Frees(g, p) \in Nat
<1> DEFINE D == (DOMAIN g) \X (1 .. 2)
           S == {k \in D : /\ g[k[1]].node.pdu = p /\ g[k[1]].node.kind \in {"W", "E"}
                           /\ k[2] <= g[k[1]].n}
<1>1. IsFiniteSet(DOMAIN g) /\ IsFiniteSet(1 .. 2)
  <2>1. DOMAIN g = 1 .. Len(g) /\ Len(g) \in Int /\ 1 \in Int /\ 2 \in Int
    OBVIOUS
  <2>2. QED
    BY <2>1, FS_Interval
<1>2. IsFiniteSet(D)
  BY <1>1, FS_Product
<1>3. IsFiniteSet(S)
  BY <1>2, FS_Subset
<1>4. Frees(g, p) = Cardinality(S)
  BY DEF Frees
<1> HIDE DEF S
<1>5. QED
  BY <1>3, <1>4, FS_CardinalityType

\* A frame that is finished is closed; what it held is built.
LEMMA MakeFrameFacts ==
  ASSUME NEW e \in EncType, e.gse # <<>>, e.used <= e.max
  PROVE  LET m == make_frame(e) IN
         /\ m \in EncType /\ SameRest(e, m) /\ Closed(m)
         /\ m.built = e.built \o e.gse
         /\ m.freed = [p \in Pdu |-> e.freed[p] + Frees(e.gse, p)]
<1> DEFINE fr == [p \in Pdu |-> e.freed[p] + Frees(e.gse, p)]
           bu == e.built \o e.gse
           ou == IF e.out < EncapPool THEN e.out + 1 ELSE e.out
           m == [e EXCEPT !.max = 0, !.used = 0, !.usable = 0, !.gse = <<>>,
                          !.freed = fr, !.built = bu, !.out = ou]
<1>1. make_frame(e) = m
  BY DEF make_frame
<1>2. fr \in [Pdu -> Nat]
  BY EncFields, FreesNat
<1>3. bu \in Seq(Packet)
  BY EncFields
<1>4. ou \in 0 .. EncapPool
  BY EncFields, ConstantFacts
<1> HIDE DEF fr, bu, ou
<1>5. m \in EncType
  <2>1. <<>> \in Seq(Packet)
    OBVIOUS
  <2>2. QED
    BY <1>2, <1>3, <1>4, <2>1, SizeFacts DEF EncType
<1>6. SameRest(e, m) /\ Closed(m) /\ m.built = bu /\ m.freed = fr
  BY DEF EncType, SameRest, Closed
<1> HIDE DEF m
<1>7. QED
  BY <1>1, <1>5, <1>6 DEF fr, bu

-----------------------------------------------------------------------------
(* The queue of fragment IDs never holds more than one *)

LEMMA QueueFields ==
  ASSUME NEW q \in QueueType
  PROVE  /\ q.head \in -1 .. QueueMaxSize - 1 /\ q.tail \in -1 .. QueueMaxSize - 1
         /\ q.size \in 0 .. QueueMaxSize /\ q.cell \in CellType
BY DEF QueueType

\* The first element of a queue that begins at the first cell.
LEMMA HeadOfOne ==
  ASSUME NEW q, q.head = 0
  PROVE  At(q, 0) = 0 /\ GetElement(q, 0) = q.cell[0]
<1>1. QueueMaxSize \in Nat \ {0}
  BY ConstantFacts
<1>2. \A n \in Nat \ {0} : (0 + 0 + n) % n = 0
  OBVIOUS
<1>3. At(q, 0) = (0 + 0 + QueueMaxSize) % QueueMaxSize
  BY DEF At
<1>4. QED
  BY <1>1, <1>2, <1>3 DEF GetElement

LEMMA PushOnEmpty ==
  ASSUME NEW q \in QueueType, q.size = 0, q.head = -1, q.tail = -1, NEW i \in FragId
  PROVE  LET r == Push(q, i) IN
         /\ r \in QueueType /\ r.size = 1 /\ r.head = 0 /\ r.tail = 0 /\ r.cell[0] = i
<1> DEFINE c == [q.cell EXCEPT ![0] = i]
           m == [q EXCEPT !.head = 0, !.tail = 0, !.size = 1]
           r == [m EXCEPT !.cell = c]
<1>1. QueueMaxSize \in Nat /\ QueueMaxSize >= 2 /\ 0 \in Slot /\ i \in Int
  BY ConstantFacts DEF FragId, Slot
<1>2. ~ IsFull(q)
  BY <1>1 DEF IsFull
<1>3. Moved(q) = [q EXCEPT !.head = IF @ = -1 THEN 0 ELSE @,
                           !.tail = IF @ + 1 >= QueueMaxSize THEN 0 ELSE @ + 1,
                           !.size = @ + 1]
  BY <1>2 DEF Moved, PushRoom
<1>4. Moved(q) = m
  BY <1>1, <1>3 DEF QueueType
<1>5. m.tail = 0 /\ m.cell = q.cell
  BY DEF QueueType
<1>6. Push(q, i) = [m EXCEPT !.cell[0] = i]
  BY <1>1, <1>4, <1>5 DEF Push
<1>7. [m EXCEPT !.cell[0] = i] = r
  BY <1>5
<1>8. c \in CellType /\ c[0] = i
  BY <1>1, QueueFields DEF CellType
<1> HIDE DEF c
<1>9. r \in QueueType /\ r.size = 1 /\ r.head = 0 /\ r.tail = 0 /\ r.cell = c
  <2>1. 0 \in -1 .. QueueMaxSize - 1 /\ 1 \in 0 .. QueueMaxSize
    BY <1>1
  <2>2. m \in QueueType /\ m.size = 1 /\ m.head = 0 /\ m.tail = 0
    BY <2>1 DEF QueueType
  <2> HIDE DEF m
  <2>3. QED
    BY <1>8, <2>2 DEF QueueType
<1> HIDE DEF r, m
<1>10. QED
  BY <1>6, <1>7, <1>8, <1>9

LEMMA PopOne ==
  ASSUME NEW q \in QueueType, q.size = 1, q.head = 0
  PROVE  LET r == Pop(SetElement(q, 0, -1)) IN
         r \in QueueType /\ r.size = 0 /\ r.head = -1 /\ r.tail = -1
<1> DEFINE c == [q.cell EXCEPT ![0] = -1]
           s == [q EXCEPT !.cell = c]
           r == [s EXCEPT !.size = 0, !.head = -1, !.tail = -1]
<1>1. QueueMaxSize \in Nat /\ QueueMaxSize >= 2
  BY ConstantFacts
<1>2. SetElement(q, 0, -1) = s
  BY HeadOfOne DEF SetElement
<1>3. c \in CellType
  <2>1. q.cell \in [Slot -> Int] /\ -1 \in Int
    BY QueueFields DEF CellType
  <2>2. QED
    BY <2>1 DEF CellType
<1> HIDE DEF c
<1>4. s.size = 1
  BY DEF QueueType
<1>5. Pop(s) = r
  BY <1>4 DEF Pop
<1>6. r \in QueueType /\ r.size = 0 /\ r.head = -1 /\ r.tail = -1
  <2>1. -1 \in -1 .. QueueMaxSize - 1 /\ 0 \in 0 .. QueueMaxSize
    BY <1>1
  <2>2. s \in QueueType
    BY <1>3 DEF QueueType
  <2> HIDE DEF s
  <2>3. QED
    BY <2>1, <2>2 DEF QueueType
<1> HIDE DEF r, s
<1>7. QED
  BY <1>2, <1>5, <1>6

\* When no PDU is being sent in fragments, none is found.
LEMMA NothingToFetch ==
  ASSUME NEW e, Resting(e)
  PROVE  ~ Fetchable(e)
BY DEF Resting, Fetchable

\* When one is, its ID is found.
LEMMA ToFetch ==
  ASSUME NEW e \in EncType, NEW i \in FragId, SendingId(e, i)
  PROVE  /\ GetElement(e.queue, 0) = i /\ Fetchable(e)
         /\ e.buf[i].sent \in Nat /\ e.buf[i].total \in Nat /\ e.buf[i].sent < e.buf[i].total
<1>1. GetElement(e.queue, 0) = i
  BY HeadOfOne DEF SendingId
<1>2. e.buf[i] \in Buffer
  BY EncFields
<1>3. e.buf[i].sent \in Nat /\ e.buf[i].total \in Nat
  BY <1>2 DEF Buffer
<1>4. e.buf[i].used /\ e.buf[i].sent < e.buf[i].total
  BY <1>3 DEF SendingId, Cut
<1>5. QED
  BY <1>1, <1>3, <1>4 DEF Fetchable

-----------------------------------------------------------------------------
(* What a PDU or fragment does to the encapsulator.  Every case puts one       *)
(* packet in the frame, and then may finish the frame.                         *)

\* g is e with packet k in the frame.
Receives(e, g, k) ==
  /\ g \in EncType /\ g.max = Payload /\ g.used + g.usable = Payload
  /\ k \in Packet /\ k.n = 1 /\ g.used = e.used + gse_total_length(k.node, 1)
  /\ g.gse = Append(e.gse, k) /\ g.built = e.built /\ g.freed = e.freed

\* The frame with the packet is one that encapsulate_frame accepts.
LEMMA ReceivesFits ==
  ASSUME NEW e \in EncType, NEW g, NEW k, Receives(e, g, k)
  PROVE  g \in EncType /\ g.gse # <<>> /\ g.used <= g.max
<1>1. /\ g \in EncType /\ g.max = Payload /\ g.used + g.usable = Payload
      /\ k \in Packet /\ g.gse = Append(e.gse, k)
  BY DEF Receives
<1>2. g.gse # <<>>
  BY <1>1, EncFields
<1>3. g.used \in Nat /\ g.usable \in Nat /\ Payload \in Nat
  BY <1>1, EncFields, ConstantFacts, SizeFacts DEF Size16
<1>4. QED
  BY <1>1, <1>2, <1>3

\* f is g, or g with the frame finished, which it is when there is no room.
Leaves(g, f) ==
  IF g.usable < padding_threshold THEN f = make_frame(g) ELSE f = g

LEMMA LeavesFacts ==
  ASSUME NEW g \in EncType, NEW f, g.max = Payload, g.used + g.usable = Payload, g.gse # <<>>,
         Leaves(g, f)
  PROVE  /\ f \in EncType /\ SameRest(g, f)
         /\ Closed(f) \/ InUse(f)
         /\ f.max = 0 \/ (f.usable = g.usable /\ g.usable >= padding_threshold)
         /\ g.usable < padding_threshold => f.max = 0
<1>1. CASE g.usable < padding_threshold
  <2>1. g.used <= g.max
    <3>1. g.used \in Nat /\ g.usable \in Nat /\ Payload \in Nat
      BY EncFields, ConstantFacts, SizeFacts DEF Size16
    <3>2. QED
      BY <3>1
  <2>2. f = make_frame(g)
    BY <1>1 DEF Leaves
  <2>3. QED
    BY <2>1, <2>2, MakeFrameFacts DEF Closed
<1>2. CASE ~ (g.usable < padding_threshold)
  <2>1. f = g /\ g.usable >= padding_threshold
    BY <1>2, EncFields, ConstantFacts DEF Leaves, Size16
  <2>2. QED
    BY <1>2, <2>1 DEF InUse, SameRest
<1>3. QED
  BY <1>1, <1>2

\* A packet that fits.
LEMMA PackWholeEffect ==
  ASSUME NEW o \in EncType, o.max = Payload, o.used + o.usable = Payload,
         NEW u, Packable(u), PackWhole(o, u)
  PROVE  \E g : /\ Receives(o, g, PacketOf(o, u)) /\ SameRest(o, g) /\ Leaves(g, enc')
                /\ g.usable = o.usable - gse_total_length(u, 1)
<1> DEFINE g == Grouped(o, u, 1)
<1>1. gse_total_length(u, 1) <= o.usable
  BY Lengths, EncFields DEF PackWhole, Packable, Size16
<1>2. Receives(o, g, PacketOf(o, u)) /\ SameRest(o, g) /\ g.usable = o.usable - gse_total_length(u, 1)
  <2>1. /\ g \in EncType /\ SameRest(o, g) /\ g.freed = o.freed /\ g.built = o.built
        /\ g.max = o.max /\ g.usable = o.usable - gse_total_length(u, 1)
        /\ g.used = o.used + gse_total_length(u, 1)
        /\ g.gse = Append(o.gse, PacketOf(o, u)) /\ PacketOf(o, u) \in Packet
    BY <1>1, GroupedFacts
  <2>2. PacketOf(o, u).n = 1 /\ PacketOf(o, u).node = u
    BY DEF PacketOf
  <2>3. g.used + g.usable = Payload
    <3>1. o.used \in Int /\ o.usable \in Int /\ gse_total_length(u, 1) \in Int
      BY Lengths, EncFields DEF Packable, Size16
    <3>2. QED
      BY <2>1, <3>1
  <2> HIDE DEF g
  <2>4. QED
    BY <2>1, <2>2, <2>3 DEF Receives
<1>3. Leaves(g, enc')
  BY DEF PackWhole, Leaves
<1>4. QED
  BY <1>2, <1>3

\* The quotient and the remainder.
LEMMA DivMod ==
  ASSUME NEW N \in Int, N > 0, NEW a \in Int
  PROVE  a \div N \in Int /\ a % N \in 0 .. N - 1 /\ a = N * (a \div N) + (a % N)
<1>1. a \div N \in Int /\ a % N \in 0 .. N - 1
  OBVIOUS
<1>2. a = N * (a \div N) + (a % N)
  BY Z3
<1>3. QED
  BY <1>1, <1>2

\* A product with a positive factor has the sign of the other.
LEMMA SignOfProduct ==
  ASSUME NEW N \in Int, N > 0, NEW q \in Int, NEW r \in 0 .. N - 1, N * q + r > 0
  PROVE  q \in Nat
<1>1. q < 0 => N * q <= -N
  BY Z3
<1>2. QED
  BY <1>1

\* How run_fragment cuts a PDU that does not fit.
LEMMA CutSizes ==
  ASSUME NEW o, o.usable \in Nat, padding_threshold <= o.usable, o.usable <= Payload,
         NEW u \in Whole, o.usable < gse_total_length(u, 1)
  PROVE  LET b == FragmentBuffer(o, u) IN
         /\ b \in Buffer /\ b.used /\ b.node = u /\ b.sent = 0 /\ b.total >= 2
         /\ b.start = o.usable - 11 /\ b.middle = MiddleSize /\ b.end \in Size16
         /\ (13 + b.end) % U16 <= MiddleLength
         /\ b.end < U16 - CRC => b.start + b.middle * (b.total - 2) + b.end = b.node.plen
<1> DEFINE M == MiddleSize
           R == Remaining(o, u)
           q == R \div M
           r == R % M
           end == (r + U16 - 4) % U16
           total == q + (IF r > 0 THEN 1 ELSE 0) + 1
           b == FragmentBuffer(o, u)
<1>1. /\ M \in 1 .. U16 - 1 /\ U16 \in Nat /\ o.usable \in Nat /\ o.usable >= 16
      /\ MiddleLength = 9 + M /\ MiddleLength < U16 /\ MiddleLength >= 12
  BY ConstantFacts, SizeFacts
<1>2. u.size \in 1 .. U16 - 1 /\ u.kind = "W" /\ u \in Node /\ u.size = u.plen
  BY DEF Whole
<1>3. gse_total_length(u, 1) = (4 + u.size) % U16
  BY <1>2, Lengths
<1>4. o.usable < 4 + u.size
  <2>1. CASE 4 + u.size < U16
    <3>1. (4 + u.size) % U16 = 4 + u.size
      BY <1>2, <2>1, SizeFacts DEF Size16
    <3>2. QED
      BY <1>3, <3>1
  <2>2. CASE 4 + u.size >= U16
    <3> DEFINE x == 4 + u.size - U16
    <3>1. x \in Int /\ 0 <= x /\ x < U16 /\ x <= 3 /\ 4 + u.size = x + U16
      BY <1>1, <1>2, <2>2
    <3> HIDE DEF x
    <3>2. (x + U16) % U16 = x
      BY <3>1, FullTurn
    <3>3. QED
      BY <1>1, <1>3, <3>1, <3>2
  <2>3. QED
    BY <1>1, <1>2, <2>1, <2>2
<1>5. StartSize(o) = o.usable - 11 /\ R = u.size + 4 - (o.usable - 11) /\ R \in Int /\ R >= 12
  BY <1>1, <1>2, <1>4 DEF Remaining, StartSize, CRC, S_HEADER, SEQ_EXT
<1>6. b = [used |-> TRUE, node |-> u, sent |-> 0, start |-> o.usable - 11, middle |-> M,
           end |-> end, total |-> total]
  BY <1>5 DEF FragmentBuffer, CRC
<1> HIDE DEF R, M, b
<1>7. q \in Int /\ r \in 0 .. M - 1 /\ R = M * q + r
  <2>1. M \in Int /\ M > 0 /\ R \in Int
    BY <1>1, <1>5
  <2>2. QED
    BY <2>1, DivMod
<1> HIDE DEF q, r
<1>8. q \in Nat
  <2>1. M \in Int /\ M > 0 /\ M * q + r > 0
    BY <1>1, <1>5, <1>7
  <2>2. QED
    BY <1>7, <2>1, SignOfProduct
<1>9. r = 0 => q >= 1
  <2>1. M * 0 = 0
    BY <1>1
  <2>2. QED
    BY <1>5, <1>7, <1>8, <2>1
<1>10. end \in Size16 /\ (13 + end) % U16 = 9 + r
       /\ (r >= 4 => end = r - 4) /\ (r < 4 => end >= U16 - 4)
  <2>1. r \in Int /\ 0 <= r /\ r < U16 - 9 /\ U16 >= 4
    BY <1>1, <1>7, TwoPow16
  <2>2. CASE r >= 4
    <3>1. r - 4 \in Int /\ 0 <= r - 4 /\ r - 4 < U16 /\ r + U16 - 4 = (r - 4) + U16
      BY <1>1, <2>1, <2>2
    <3>2. end = r - 4
      BY <3>1, FullTurn
    <3> HIDE DEF end
    <3>3. 13 + end = 9 + r /\ 9 + r \in Int /\ 0 <= 9 + r /\ 9 + r < U16
      BY <1>1, <2>1, <3>2
    <3>4. (13 + end) % U16 = 9 + r
      BY <3>3, NoTurn
    <3>5. QED
      BY <1>1, <2>1, <2>2, <3>2, <3>4 DEF Size16
  <2>3. CASE r < 4
    <3>1. r + U16 - 4 \in Int /\ 0 <= r + U16 - 4 /\ r + U16 - 4 < U16
      BY <1>1, <2>1, <2>3
    <3>2. end = r + U16 - 4
      BY <3>1, NoTurn
    <3> HIDE DEF end
    <3>3. 13 + end = (9 + r) + U16 /\ 9 + r \in Int /\ 0 <= 9 + r /\ 9 + r < U16
      BY <1>1, <2>1, <3>2
    <3>4. (13 + end) % U16 = 9 + r
      BY <3>3, FullTurn
    <3>5. QED
      BY <1>1, <2>1, <2>3, <3>1, <3>2, <3>4 DEF Size16
  <2>4. QED
    BY <2>1, <2>2, <2>3
<1> HIDE DEF end
<1>11. total \in Nat /\ total >= 2 /\ (r > 0 => total - 2 = q)
  BY <1>1, <1>7, <1>8, <1>9
<1> HIDE DEF total
<1>12. b \in Buffer
  BY <1>1, <1>2, <1>6, <1>10, <1>11 DEF Buffer, Size16
<1>13. end < U16 - 4 => o.usable - 11 + M * (total - 2) + end = u.plen
  <2>1. ASSUME end < U16 - 4 PROVE o.usable - 11 + M * (total - 2) + end = u.plen
    <3>1. r >= 4
      BY <1>1, <1>7, <1>10, <2>1 DEF Size16
    <3>2. total - 2 = q /\ end = r - 4
      BY <1>7, <1>10, <1>11, <3>1
    <3>3. M * (total - 2) = R - r
      BY <1>1, <1>5, <1>7, <1>8, <3>2
    <3>4. QED
      BY <1>1, <1>2, <1>5, <1>7, <3>2, <3>3
  <2>2. QED
    BY <2>1
<1>14. (13 + end) % U16 <= MiddleLength
  BY <1>1, <1>7, <1>10
<1>15. QED
  BY <1>6, <1>10, <1>11, <1>12, <1>13, <1>14 DEF M, b, CRC

\* The start fragment of u with ID i, which takes all the room of o.
StartOf(o, u, i) ==
  [pdu |-> u.pdu, plen |-> u.plen, kind |-> "S", id |-> i, seq |-> 0, size |-> o.usable - 11,
   from |-> 0]

StartPacket(o, u, i) == [node |-> StartOf(o, u, i), n |-> 1, ts |-> NextStamp(o, i)]

\* A PDU that does not fit is cut, its start fragment fills the frame, and the
\* frame is sent.
LEMMA CutEffect ==
  ASSUME NEW o \in EncType, o.max = Payload, o.used + o.usable = Payload,
         o.usable >= padding_threshold, Resting(o),
         NEW u \in Whole, o.usable < gse_total_length(u, 1), fragment_process(o, u)
  PROVE  \E i \in allocate_fragmentID(o) : \E g :
           /\ i \in FragId
           /\ Receives(o, g, StartPacket(o, u, i)) /\ enc' = make_frame(g) /\ g.usable = 0
           /\ g.cur = i /\ g.count = [o.count EXCEPT ![i] = NextStamp(o, i)]
           /\ g.last = i
           /\ g.buf[i].node = u /\ g.buf[i].sent = 1 /\ g.buf[i].start = o.usable - 11
           /\ enc' \in EncType /\ SendingId(enc', i) /\ Closed(enc')
<1>1. /\ o.usable \in Nat /\ o.used \in Nat /\ o.usable >= 16 /\ o.usable <= Payload
      /\ Payload \in Nat
  <2>1. o.usable \in 0 .. U16 - 1 /\ o.used \in 0 .. U16 - 1
    BY EncFields DEF Size16
  <2>2. U16 \in Nat /\ Payload \in Nat /\ padding_threshold \in Nat /\ padding_threshold >= 16
    BY ConstantFacts, SizeFacts
  <2>3. QED
    BY <2>1, <2>2
<1>2. Unused(o) # {}
  BY ConstantFacts DEF Resting, Unused
<1>3. PICK i \in allocate_fragmentID(o) : \E f :
        /\ f = [o EXCEPT !.last = i, !.buf[i] = FragmentBuffer(o, u), !.queue = Push(@, i)]
        /\ \E v \in {IF Fetchable(f) THEN Fetched(f) ELSE u},
              x \in {IF Fetchable(f) THEN Taken(f) ELSE f} :
             \E h \in {Grouped(Stamped(x, v), v, 1)} : enc' = make_frame(h)
  BY <1>2 DEF fragment_process, do_fragment
<1>33. PICK f :
        /\ f = [o EXCEPT !.last = i, !.buf[i] = FragmentBuffer(o, u), !.queue = Push(@, i)]
        /\ \E v \in {IF Fetchable(f) THEN Fetched(f) ELSE u},
              x \in {IF Fetchable(f) THEN Taken(f) ELSE f} :
             \E h \in {Grouped(Stamped(x, v), v, 1)} : enc' = make_frame(h)
  BY <1>3
<1>4. i \in FragId
  BY DEF allocate_fragmentID, Unused
<1> DEFINE b == FragmentBuffer(o, u)
<1>5. /\ b \in Buffer /\ b.used /\ b.node = u /\ b.sent = 0 /\ b.total >= 2
      /\ b.start = o.usable - 11 /\ b.middle = MiddleSize /\ b.end \in Size16
      /\ (13 + b.end) % U16 <= MiddleLength
      /\ b.end < U16 - CRC => b.start + b.middle * (b.total - 2) + b.end = b.node.plen
  BY <1>1, CutSizes
<1> HIDE DEF b
<1> DEFINE q == Push(o.queue, i)
<1>6. q \in QueueType /\ q.size = 1 /\ q.head = 0 /\ q.tail = 0 /\ q.cell[0] = i
  BY <1>4, EncFields, PushOnEmpty DEF Resting
<1> HIDE DEF q
<1> DEFINE bu == [o.buf EXCEPT ![i] = b]
<1>7. bu \in [FragId -> Buffer] /\ bu[i] = b /\ \A j \in FragId \ {i} : ~ bu[j].used
  BY <1>4, <1>5, EncFields DEF Resting
<1>8. f = [o EXCEPT !.last = i, !.buf = bu, !.queue = q]
  BY <1>33 DEF b, q
<1> HIDE DEF bu
<1>9. /\ f \in EncType /\ f.last = i /\ f.buf = bu /\ f.queue = q
      /\ f.max = o.max /\ f.used = o.used /\ f.usable = o.usable /\ f.gse = o.gse
      /\ f.built = o.built /\ f.freed = o.freed /\ f.cur = o.cur /\ f.count = o.count
  BY <1>4, <1>6, <1>7, <1>8 DEF EncType
<1>10. GetElement(f.queue, 0) = i
  BY <1>6, <1>9, HeadOfOne
<1>11. b.sent + 1 = 1 /\ b.total \in Nat /\ ~ (b.sent + 1 >= b.total) /\ b.sent < b.total
  BY <1>5 DEF Buffer
<1>12. Fetchable(f)
  BY <1>4, <1>5, <1>7, <1>9, <1>10, <1>11 DEF Fetchable
<1> DEFINE b1 == [b EXCEPT !.sent = 1]
           bx == [bu EXCEPT ![i] = b1]
<1>13. b1 \in Buffer /\ b1.used /\ b1.node = u /\ b1.sent = 1 /\ b1.total = b.total
       /\ b1.start = b.start /\ b1.middle = b.middle /\ b1.end = b.end
  BY <1>5 DEF Buffer
<1>14. Taken(f) = [f EXCEPT !.buf[i].sent = @ + 1]
  BY <1>7, <1>9, <1>10, <1>11 DEF Taken
<1>15. [f EXCEPT !.buf[i].sent = @ + 1] = [f EXCEPT !.buf = bx]
  BY <1>4, <1>7, <1>9, <1>11
<1> HIDE DEF b1
<1>16. bx \in [FragId -> Buffer] /\ bx[i] = b1 /\ \A j \in FragId \ {i} : ~ bx[j].used
  BY <1>4, <1>7, <1>13
<1> HIDE DEF bx
<1> DEFINE x == [f EXCEPT !.buf = bx]
<1>17. /\ x \in EncType /\ x.last = i /\ x.buf = bx /\ x.queue = q
       /\ x.max = o.max /\ x.used = o.used /\ x.usable = o.usable /\ x.gse = o.gse
       /\ x.built = o.built /\ x.freed = o.freed /\ x.cur = o.cur /\ x.count = o.count
  BY <1>9, <1>16 DEF EncType
<1>18. x = Taken(f)
  BY <1>14, <1>15
<1> HIDE DEF x
<1> DEFINE v == StartOf(o, u, i)
<1>19. Fetched(f) = v
  <2>1. u.from = 0
    BY DEF Whole
  <2>2. b.node.from + 0 = 0
    BY <1>5, <2>1
  <2>3. QED
    BY <1>5, <1>7, <1>9, <1>10, <2>2 DEF Fetched, StartOf
<1>20. v \in Node /\ v.kind = "S" /\ v.id = i /\ v.size = o.usable - 11 /\ Packable(v)
  <2>1. u.pdu \in Nat /\ u.plen \in Nat
    BY DEF Whole, Node
  <2>2. QED
    BY <1>1, <1>4, <2>1 DEF StartOf, Node, Packable
<1> HIDE DEF v
<1> DEFINE s == Stamped(x, v)
<1>21. /\ s \in EncType
       /\ s.buf = x.buf /\ s.queue = x.queue /\ s.last = x.last
       /\ s.freed = x.freed /\ s.built = x.built /\ s.out = x.out /\ s.gse = x.gse
       /\ s.max = x.max /\ s.used = x.used /\ s.usable = x.usable
       /\ s.cur = i /\ s.count = [x.count EXCEPT ![i] = NextStamp(x, i)]
  BY <1>17, <1>20, StampedFacts
<1> HIDE DEF s
<1>22. gse_total_length(v, 1) = o.usable
  <2>1. gse_total_length(v, 1) = (11 + (o.usable - 11)) % U16
    BY <1>20, Lengths
  <2>2. 11 + (o.usable - 11) = o.usable /\ o.usable \in Int /\ 0 <= o.usable /\ o.usable < U16
    BY <1>1, ConstantFacts, SizeFacts
  <2>3. QED
    BY <2>1, <2>2, NoTurn
<1> DEFINE g == Grouped(s, v, 1)
<1>23. /\ g \in EncType /\ SameRest(s, g) /\ g.freed = s.freed /\ g.built = s.built
       /\ g.max = Payload /\ g.usable = 0 /\ g.used = Payload
       /\ g.gse = Append(s.gse, PacketOf(s, v)) /\ PacketOf(s, v) \in Packet
  <2>1. s.used + s.usable = Payload /\ gse_total_length(v, 1) <= s.usable
    BY <1>1, <1>17, <1>21, <1>22
  <2>2. /\ g \in EncType /\ SameRest(s, g) /\ g.freed = s.freed /\ g.built = s.built
        /\ g.max = s.max /\ g.usable = s.usable - gse_total_length(v, 1)
        /\ g.used = s.used + gse_total_length(v, 1)
        /\ g.gse = Append(s.gse, PacketOf(s, v)) /\ PacketOf(s, v) \in Packet
    BY <1>20, <1>21, <2>1, GroupedFacts
  <2> HIDE DEF g
  <2>3. QED
    BY <1>1, <1>17, <1>21, <1>22, <2>2
<1>24. enc' = make_frame(g)
  <2>1. enc' = make_frame(Grouped(Stamped(x, v), v, 1))
    BY <1>33, <1>12, <1>18, <1>19
  <2>2. QED
    BY <2>1 DEF g, s
<1> HIDE DEF g
<1>25. PacketOf(s, v) = StartPacket(o, u, i)
  <2>1. NextStamp(x, i) = NextStamp(o, i)
    BY <1>17 DEF NextStamp
  <2>2. s.count[i] = NextStamp(o, i)
    BY <1>4, <1>17, <1>21, <2>1, EncFields
  <2>3. QED
    BY <1>20, <2>2 DEF PacketOf, StartPacket, v
<1>26. Receives(o, g, StartPacket(o, u, i))
  <2>1. StartPacket(o, u, i).n = 1 /\ StartPacket(o, u, i).node = v
    BY DEF StartPacket, v
  <2>2. g.used + g.usable = Payload /\ g.used = o.used + gse_total_length(v, 1)
    BY <1>1, <1>22, <1>23
  <2>3. QED
    BY <1>17, <1>21, <1>23, <1>25, <2>1, <2>2 DEF Receives
<1>27. g.cur = i /\ g.count = [o.count EXCEPT ![i] = NextStamp(o, i)] /\ g.last = i
       /\ g.buf = bx /\ g.queue = q
  <2>1. NextStamp(x, i) = NextStamp(o, i)
    BY <1>17 DEF NextStamp
  <2>2. QED
    BY <1>17, <1>21, <1>23, <2>1 DEF SameRest
<1>28. enc' \in EncType /\ SameRest(g, enc') /\ Closed(enc')
  <2>1. g.gse # <<>>
    <3>1. s.gse \in Seq(Packet)
      BY <1>21, EncFields
    <3>2. QED
      BY <1>23, <3>1
  <2>2. g.used <= g.max
    BY <1>1, <1>23
  <2>3. QED
    BY <1>23, <1>24, <2>1, <2>2, MakeFrameFacts
<1>29. Cut(b1)
  <2>1. b1.sent \in 1 .. b1.total - 1
    BY <1>5, <1>11, <1>13
  <2>2. QED
    BY <1>5, <1>13, <2>1 DEF Cut
<1>30. SendingId(enc', i)
  BY <1>6, <1>16, <1>27, <1>28, <1>29 DEF SendingId, SameRest, Closed
<1>31. g.buf[i].node = u /\ g.buf[i].sent = 1 /\ g.buf[i].start = o.usable - 11
  BY <1>5, <1>13, <1>16, <1>27
<1>32. QED
  BY <1>4, <1>23, <1>24, <1>26, <1>27, <1>28, <1>30, <1>31

\* f is e, up to its fragment buffers and its queue.
SameFrame(e, f) ==
  /\ f.max = e.max /\ f.used = e.used /\ f.usable = e.usable /\ f.gse = e.gse
  /\ f.built = e.built /\ f.freed = e.freed /\ f.out = e.out
  /\ f.last = e.last /\ f.cur = e.cur /\ f.count = e.count

\* Buffer c is b with one more fragment sent.
OneMoreSent(b, c) ==
  /\ c.used = b.used /\ c.node = b.node /\ c.sent = b.sent + 1 /\ c.total = b.total
  /\ c.start = b.start /\ c.middle = b.middle /\ c.end = b.end

\* The last fragment gives the ID up.
LEMMA TakenLast ==
  ASSUME NEW e \in EncType, NEW i \in FragId, SendingId(e, i),
         e.buf[i].sent = e.buf[i].total - 1
  PROVE  LET t == Taken(e) IN t \in EncType /\ SameFrame(e, t) /\ Resting(t)
<1>1. /\ GetElement(e.queue, 0) = i /\ e.buf[i].sent \in Nat /\ e.buf[i].total \in Nat
  BY ToFetch
<1>2. e.buf[i] \in Buffer /\ e.buf \in [FragId -> Buffer]
  BY EncFields
<1> DEFINE b == e.buf[i]
           b1 == [b EXCEPT !.sent = @ + 1]
           b2 == [b1 EXCEPT !.used = FALSE]
           bu == [e.buf EXCEPT ![i] = b2]
           q == Pop(SetElement(e.queue, 0, -1))
           t == [e EXCEPT !.buf = bu, !.queue = q]
<1>3. q \in QueueType /\ q.size = 0 /\ q.head = -1 /\ q.tail = -1
  BY EncFields, PopOne DEF SendingId
<1> HIDE DEF q
<1>4. b1 \in Buffer
  BY <1>1, <1>2 DEF Buffer
<1> HIDE DEF b1
<1>5. b2 \in Buffer /\ ~ b2.used
  BY <1>4 DEF Buffer
<1>6. [e.buf EXCEPT ![i].sent = @ + 1] = [e.buf EXCEPT ![i] = b1]
  BY <1>2 DEF b1
<1>7. [[e.buf EXCEPT ![i] = b1] EXCEPT ![i].used = FALSE] = bu
  BY <1>2, <1>4
<1> HIDE DEF b2
<1>8. bu \in [FragId -> Buffer] /\ \A j \in FragId : ~ bu[j].used
  BY <1>2, <1>5 DEF SendingId
<1>9. Taken(e) = [e EXCEPT !.buf[i].sent = @ + 1, !.buf[i].used = FALSE, !.queue = q]
  <2>1. e.buf[i].sent + 1 >= e.buf[i].total
    BY <1>1
  <2>2. QED
    BY <1>1, <2>1 DEF Taken, q
<1>10. [e EXCEPT !.buf[i].sent = @ + 1, !.buf[i].used = FALSE, !.queue = q]
         = [e EXCEPT !.buf = [[e.buf EXCEPT ![i].sent = @ + 1] EXCEPT ![i].used = FALSE], !.queue = q]
  BY DEF EncType
<1>11. Taken(e) = t
  BY <1>6, <1>7, <1>9, <1>10
<1> HIDE DEF bu
<1>12. t \in EncType /\ SameFrame(e, t) /\ t.buf = bu /\ t.queue = q
  BY <1>3, <1>8 DEF EncType, SameFrame
<1> HIDE DEF t
<1>13. Resting(t)
  BY <1>3, <1>8, <1>12 DEF Resting
<1>14. QED
  BY <1>11, <1>12, <1>13

\* Any other leaves it.
LEMMA TakenOther ==
  ASSUME NEW e \in EncType, NEW i \in FragId, SendingId(e, i),
         e.buf[i].sent # e.buf[i].total - 1
  PROVE  LET t == Taken(e) IN
         /\ t \in EncType /\ SameFrame(e, t) /\ SendingId(t, i)
         /\ OneMoreSent(e.buf[i], t.buf[i])
<1>1. /\ GetElement(e.queue, 0) = i /\ e.buf[i].sent \in Nat /\ e.buf[i].total \in Nat
      /\ e.buf[i].sent < e.buf[i].total
  BY ToFetch
<1>2. e.buf[i] \in Buffer /\ e.buf \in [FragId -> Buffer]
  BY EncFields
<1> DEFINE b == e.buf[i]
           b1 == [b EXCEPT !.sent = @ + 1]
           bu == [e.buf EXCEPT ![i] = b1]
           t == [e EXCEPT !.buf = bu]
<1>3. b1 \in Buffer /\ OneMoreSent(b, b1)
  BY <1>1, <1>2 DEF Buffer, OneMoreSent
<1>4. [e.buf EXCEPT ![i].sent = @ + 1] = bu
  BY <1>2
<1> HIDE DEF b1
<1>5. bu \in [FragId -> Buffer] /\ bu[i] = b1 /\ \A j \in FragId \ {i} : bu[j] = e.buf[j]
  BY <1>2, <1>3
<1>6. ~ (b.sent + 1 >= b.total)
  BY <1>1
<1>7. Taken(e) = [e EXCEPT !.buf[i].sent = @ + 1]
  BY <1>1, <1>6 DEF Taken
<1>8. [e EXCEPT !.buf[i].sent = @ + 1] = [e EXCEPT !.buf = [e.buf EXCEPT ![i].sent = @ + 1]]
  BY DEF EncType
<1>9. Taken(e) = t
  BY <1>4, <1>7, <1>8
<1> HIDE DEF bu
<1>10. t \in EncType /\ SameFrame(e, t) /\ t.buf = bu /\ t.queue = e.queue
  BY <1>5 DEF EncType, SameFrame
<1> HIDE DEF t
<1>11. Cut(b1)
  <2>1. b1.sent \in 1 .. b1.total - 1
    BY <1>1, <1>3, <1>6 DEF SendingId, Cut, OneMoreSent
  <2>2. QED
    BY <1>3, <2>1 DEF SendingId, Cut, OneMoreSent
<1>12. SendingId(t, i)
  BY <1>5, <1>10, <1>11 DEF SendingId, SameFrame
<1>13. QED
  BY <1>3, <1>5, <1>9, <1>10, <1>12

\* The fragment that comes next.
LEMMA FetchedFacts ==
  ASSUME NEW e \in EncType, NEW i \in FragId, SendingId(e, i)
  PROVE  LET u == Fetched(e)
             b == e.buf[i]
         IN  /\ Packable(u) /\ u.kind \in {"M", "E"}
             /\ u.pdu = b.node.pdu /\ u.plen = b.node.plen /\ u.id = i /\ u.seq = b.sent
             /\ u.from = b.start + b.middle * (b.sent - 1)
             /\ u.kind = (IF b.sent = b.total - 1 THEN "E" ELSE "M")
             /\ u.size = (IF b.sent = b.total - 1 THEN b.end ELSE b.middle)
             /\ gse_total_length(u, 1) <= MiddleLength
             /\ u.kind = "M" => gse_total_length(u, 1) = MiddleLength
<1> DEFINE u == Fetched(e)
           b == e.buf[i]
<1>1. GetElement(e.queue, 0) = i
  BY ToFetch
<1>2. /\ b.sent \in 1 .. b.total - 1 /\ b.node \in Whole /\ b.middle = MiddleSize
      /\ (13 + b.end) % U16 <= MiddleLength
  BY DEF SendingId, Cut
<1>3. b \in Buffer
  BY EncFields
<1> HIDE DEF b
<1>4. /\ b.sent \in Nat /\ b.sent >= 1 /\ b.start \in Nat /\ b.middle \in Nat /\ b.end \in Nat
      /\ b.node.pdu \in Nat /\ b.node.plen \in Nat /\ b.node.from = 0
  BY <1>2, <1>3 DEF Buffer, Whole, Node
<1> DEFINE kind == IF b.sent = b.total - 1 THEN "E" ELSE "M"
           size == IF b.sent = b.total - 1 THEN b.end ELSE b.middle
           from == b.start + b.middle * (b.sent - 1)
<1>5. b.sent # 0
  BY <1>4
<1>6. u = [pdu |-> b.node.pdu, plen |-> b.node.plen, kind |-> kind, id |-> i, seq |-> b.sent,
           size |-> CASE kind = "S" -> b.start [] kind = "M" -> b.middle [] kind = "E" -> b.end,
           from |-> b.node.from + (b.start + b.middle * (b.sent - 1))]
  BY <1>1, <1>5 DEF Fetched, b
<1> HIDE DEF u
<1>7. b.sent - 1 \in Nat
  BY <1>4
<1>8. b.middle * (b.sent - 1) \in Nat
  BY <1>4, <1>7
<1>9. from \in Nat /\ b.node.from + (b.start + b.middle * (b.sent - 1)) = from
  BY <1>4, <1>8
<1> HIDE DEF from
<1>10. (CASE kind = "S" -> b.start [] kind = "M" -> b.middle [] kind = "E" -> b.end) = size
  OBVIOUS
<1>11. u = [pdu |-> b.node.pdu, plen |-> b.node.plen, kind |-> kind, id |-> i, seq |-> b.sent,
            size |-> size, from |-> from]
  BY <1>6, <1>9, <1>10
<1>12. kind \in {"M", "E"} /\ size \in Nat
  BY <1>4
<1>13. u \in Node
  BY <1>4, <1>9, <1>11, <1>12 DEF Node
<1>14. Packable(u)
  BY <1>11, <1>13 DEF Packable
<1>15. u.kind = "M" => gse_total_length(u, 1) = MiddleLength
  <2>1. ASSUME u.kind = "M" PROVE gse_total_length(u, 1) = MiddleLength
    <3>1. u.size = MiddleSize
      BY <1>2, <1>11, <2>1
    <3>2. gse_total_length(u, 1) = (9 + MiddleSize) % U16
      BY <1>13, <2>1, <3>1, Lengths
    <3>3. 9 + MiddleSize \in Int /\ 0 <= 9 + MiddleSize /\ 9 + MiddleSize < U16
      BY ConstantFacts, SizeFacts
    <3>4. QED
      BY <3>2, <3>3, NoTurn, ConstantFacts
  <2>2. QED
    BY <2>1
<1>16. u.kind = "E" => gse_total_length(u, 1) <= MiddleLength
  <2>1. ASSUME u.kind = "E" PROVE gse_total_length(u, 1) <= MiddleLength
    <3>1. u.size = b.end
      BY <1>11, <2>1
    <3>2. gse_total_length(u, 1) = (13 + b.end) % U16
      BY <1>13, <2>1, <3>1, Lengths
    <3>3. QED
      BY <1>2, <3>2
  <2>2. QED
    BY <2>1
<1>17. gse_total_length(u, 1) <= MiddleLength
  BY <1>11, <1>12, <1>15, <1>16, ConstantFacts
<1>18. QED
  BY <1>11, <1>12, <1>14, <1>15, <1>17 DEF from, u, b

\* A fragment that waits is put in the frame, where there is room for it.
LEMMA DrainEffect ==
  ASSUME NEW e \in EncType, Closed(e) \/ InUse(e), NEW i \in FragId, SendingId(e, i),
         encapsulate_isl_bb(Taken(e), Fetched(e))
  PROVE  LET b == e.buf[i]
             u == Fetched(e)
         IN  /\ \E g : /\ Receives(e, g, [node |-> u, n |-> 1, ts |-> e.count[i]])
                       /\ Leaves(g, enc')
                       /\ g.cur = i /\ g.count = e.count /\ g.last = e.last
             /\ enc' \in EncType
             /\ Closed(enc') \/ InUse(enc')
             /\ IF u.kind = "E" THEN Resting(enc')
                ELSE SendingId(enc', i) /\ OneMoreSent(b, enc'.buf[i])
<1> DEFINE b == e.buf[i]
           u == Fetched(e)
           t == Taken(e)
           len == gse_total_length(u, 1)
<1>1. /\ Packable(u) /\ u.kind \in {"M", "E"} /\ u.id = i
      /\ u.kind = (IF b.sent = b.total - 1 THEN "E" ELSE "M")
      /\ len <= MiddleLength /\ (u.kind = "M" => len = MiddleLength)
  BY FetchedFacts
<1>2. /\ t \in EncType /\ SameFrame(e, t)
      /\ IF u.kind = "E" THEN Resting(t) ELSE SendingId(t, i) /\ OneMoreSent(b, t.buf[i])
  BY <1>1, TakenLast, TakenOther
<1>3. e.cur = i /\ (e.max = 0 \/ (e.usable = Payload - MiddleLength /\ Payload > GSE_MAX_SIZE))
  BY DEF SendingId
<1>4. encapsulate_isl_bb(t, u)
  OBVIOUS
<1>5. len \in Nat
  BY <1>1, Lengths, SizeFacts DEF Packable, Size16
<1> HIDE DEF u, t, len, b
<1>6. Closed(t) \/ InUse(t)
  BY <1>2 DEF SameFrame, Closed, InUse
<1> DEFINE o == Stamped(Opened(t), u)
<1>7. /\ o \in EncType /\ o.buf = t.buf /\ o.queue = t.queue /\ o.last = e.last
      /\ o.freed = e.freed /\ o.built = e.built /\ o.gse = e.gse
      /\ o.max = Payload /\ o.used + o.usable = Payload /\ o.used = e.used
      /\ o.usable = (IF e.max = 0 THEN Payload ELSE e.usable)
      /\ o.cur = i /\ o.count = e.count
  <2> DEFINE p == Opened(t)
  <2>1. /\ p \in EncType /\ SameRest(t, p) /\ p.freed = t.freed /\ p.built = t.built
        /\ p.gse = t.gse /\ p.max = Payload /\ p.used + p.usable = Payload /\ p.used = t.used
        /\ p.usable = (IF t.max = 0 THEN Payload ELSE t.usable)
    BY <1>2, <1>6, OpenedFacts
  <2> HIDE DEF p
  <2>2. p.cur = i /\ u.kind # "W"
    BY <1>1, <1>2, <1>3, <2>1 DEF SameRest, SameFrame
  <2>3. /\ Stamped(p, u) \in EncType
        /\ Stamped(p, u).buf = p.buf /\ Stamped(p, u).queue = p.queue /\ Stamped(p, u).last = p.last
        /\ Stamped(p, u).freed = p.freed /\ Stamped(p, u).built = p.built
        /\ Stamped(p, u).gse = p.gse /\ Stamped(p, u).max = p.max
        /\ Stamped(p, u).used = p.used /\ Stamped(p, u).usable = p.usable
        /\ Stamped(p, u).cur = i /\ Stamped(p, u).count = p.count
    <3>1. Packable(u) /\ p.cur = u.id /\ p \in EncType
      BY <1>1, <2>1, <2>2
    <3>2. QED
      BY <1>1, <2>2, <3>1, StampedFacts, ZenonT(60)
  <2>4. o = Stamped(p, u)
    BY DEF p
  <2> HIDE DEF o
  <2>5. QED
    BY <1>2, <2>1, <2>3, <2>4 DEF SameRest, SameFrame
<1>8. PackWhole(o, u) \/ PackPart(o, u)
  BY <1>4 DEF encapsulate_isl_bb
<1> HIDE DEF o
<1>9. len <= o.usable /\ o.usable \in Nat
  BY <1>1, <1>3, <1>5, <1>7, ConstantFacts
<1>10. PackWhole(o, u)
  BY <1>5, <1>8, <1>9 DEF PackPart, len
<1>11. PICK g : /\ Receives(o, g, PacketOf(o, u)) /\ SameRest(o, g) /\ Leaves(g, enc')
                /\ g.usable = o.usable - len
  BY <1>1, <1>7, <1>10, PackWholeEffect DEF len
<1>12. PacketOf(o, u) = [node |-> u, n |-> 1, ts |-> e.count[i]]
  BY <1>1, <1>7 DEF PacketOf
<1>13. Receives(e, g, [node |-> u, n |-> 1, ts |-> e.count[i]])
  BY <1>7, <1>11, <1>12 DEF Receives
<1>14. g.cur = i /\ g.count = e.count /\ g.last = e.last /\ g.buf = t.buf /\ g.queue = t.queue
  BY <1>7, <1>11 DEF SameRest
<1>15. g.gse # <<>>
  <2>1. e.gse \in Seq(Packet)
    BY EncFields
  <2>2. QED
    BY <1>13, <2>1 DEF Receives
<1>16. /\ enc' \in EncType /\ SameRest(g, enc')
       /\ Closed(enc') \/ InUse(enc')
       /\ enc'.max = 0 \/ (enc'.usable = g.usable /\ g.usable >= padding_threshold)
       /\ g.usable < padding_threshold => enc'.max = 0
  <2>1. g \in EncType /\ g.max = Payload /\ g.used + g.usable = Payload /\ Leaves(g, enc')
    BY <1>11 DEF Receives
  <2>2. QED
    BY <1>15, <2>1, LeavesFacts
<1>17. CASE u.kind = "E"
  <2>1. Resting(enc')
    BY <1>2, <1>14, <1>16, <1>17 DEF Resting, SameRest
  <2>2. QED
    BY <1>11, <1>13, <1>14, <1>16, <1>17, <2>1 DEF u
<1>18. CASE u.kind # "E"
  <2>1. len = MiddleLength /\ SendingId(t, i) /\ OneMoreSent(b, t.buf[i])
    BY <1>1, <1>2, <1>18
  <2>2. enc'.max = 0 \/ (enc'.usable = Payload - MiddleLength /\ Payload > GSE_MAX_SIZE)
    <3>1. g.usable = o.usable - MiddleLength
      BY <1>11, <2>1
    <3>2. QED
      BY <1>3, <1>7, <1>9, <1>16, <3>1, ConstantFacts
  <2>3. SendingId(enc', i)
    BY <1>14, <1>16, <2>1, <2>2 DEF SendingId, SameRest
  <2>4. OneMoreSent(b, enc'.buf[i])
    BY <1>14, <1>16, <2>1 DEF SameRest
  <2>5. QED
    BY <1>11, <1>13, <1>14, <1>16, <1>18, <2>3, <2>4 DEF u, b
<1>19. QED
  BY <1>17, <1>18

\* A whole PDU fits ...
Packs(e, u, f) ==
  /\ \E g : /\ Receives(e, g, [node |-> u, n |-> 1, ts |-> 0])
            /\ Leaves(g, f)
            /\ g.cur = e.cur /\ g.count = e.count /\ g.last = e.last
  /\ Resting(f)

\* ... or its start fragment is sent with the frame.
Cuts(e, u, f, i) ==
  /\ i \in allocate_fragmentID(e)
  /\ \E g : /\ Receives(e, g, StartPacket(Opened(e), u, i))
            /\ f = make_frame(g)
            /\ g.cur = i /\ g.count = [e.count EXCEPT ![i] = NextStamp(e, i)] /\ g.last = i
            /\ g.buf[i].node = u /\ g.buf[i].sent = 1 /\ g.buf[i].start = Opened(e).usable - 11
  /\ SendingId(f, i)

LEMMA WholeEffect ==
  ASSUME NEW e \in EncType, Closed(e) \/ InUse(e), Resting(e), NEW u \in Whole,
         encapsulate_isl_bb(e, u)
  PROVE  /\ enc' \in EncType
         /\ Closed(enc') \/ InUse(enc')
         /\ Packs(e, u, enc') \/ \E i \in FragId : Cuts(e, u, enc', i)
<1> DEFINE o == Opened(e)
<1>1. /\ o \in EncType /\ SameRest(e, o) /\ o.freed = e.freed /\ o.built = e.built
      /\ o.gse = e.gse /\ o.max = Payload /\ o.used + o.usable = Payload /\ o.used = e.used
      /\ o.usable >= padding_threshold
  BY OpenedFacts
<1>2. u.kind = "W" /\ u \in Node /\ Packable(u)
  BY DEF Whole, Packable
<1>3. Stamped(o, u) = o
  BY <1>2 DEF Stamped
<1>4. PackWhole(o, u) \/ PackPart(o, u)
  BY <1>3 DEF encapsulate_isl_bb
<1>5. Resting(o)
  BY <1>1 DEF Resting, SameRest
<1>6. e.gse \in Seq(Packet)
  BY EncFields
<1>7. CASE PackWhole(o, u)
  <2>1. PICK g : /\ Receives(o, g, PacketOf(o, u)) /\ SameRest(o, g) /\ Leaves(g, enc')
    BY <1>1, <1>2, <1>7, PackWholeEffect
  <2>2. PacketOf(o, u) = [node |-> u, n |-> 1, ts |-> 0]
    BY <1>2 DEF PacketOf
  <2> HIDE DEF o
  <2>3. Receives(e, g, [node |-> u, n |-> 1, ts |-> 0])
    BY <1>1, <2>1, <2>2 DEF Receives
  <2>4. g.cur = e.cur /\ g.count = e.count /\ g.last = e.last /\ g.buf = e.buf /\ g.queue = e.queue
    BY <1>1, <2>1 DEF SameRest
  <2>5. g \in EncType /\ g.max = Payload /\ g.used + g.usable = Payload /\ g.gse # <<>>
    BY <1>6, <2>3, SMTT(30) DEF Receives
  <2>6. enc' \in EncType /\ SameRest(g, enc') /\ (Closed(enc') \/ InUse(enc'))
    BY <2>1, <2>5, LeavesFacts
  <2>7. Resting(enc')
    BY <2>4, <2>6 DEF Resting, SameRest
  <2>8. QED
    BY <2>1, <2>3, <2>4, <2>6, <2>7 DEF Packs
<1>8. CASE PackPart(o, u)
  <2>1. o.usable < gse_total_length(u, 1) /\ fragment_process(o, u)
    <3>1. ~ (o.usable < padding_threshold)
      BY <1>1, EncFields, ConstantFacts DEF Size16
    <3> HIDE DEF o
    <3>2. QED
      BY <1>8, <3>1 DEF PackPart
  <2>2. PICK i \in allocate_fragmentID(o) : \E g :
           /\ i \in FragId
           /\ Receives(o, g, StartPacket(o, u, i)) /\ enc' = make_frame(g) /\ g.usable = 0
           /\ g.cur = i /\ g.count = [o.count EXCEPT ![i] = NextStamp(o, i)]
           /\ g.last = i
           /\ g.buf[i].node = u /\ g.buf[i].sent = 1 /\ g.buf[i].start = o.usable - 11
           /\ enc' \in EncType /\ SendingId(enc', i) /\ Closed(enc')
    BY <1>1, <1>5, <2>1, CutEffect
  <2>3. PICK g :
           /\ i \in FragId
           /\ Receives(o, g, StartPacket(o, u, i)) /\ enc' = make_frame(g)
           /\ g.cur = i /\ g.count = [o.count EXCEPT ![i] = NextStamp(o, i)]
           /\ g.last = i
           /\ g.buf[i].node = u /\ g.buf[i].sent = 1 /\ g.buf[i].start = o.usable - 11
           /\ enc' \in EncType /\ SendingId(enc', i) /\ Closed(enc')
    BY <2>2
  <2> HIDE DEF o
  <2>4. NextStamp(o, i) = NextStamp(e, i) /\ o.count = e.count
    BY <1>1 DEF NextStamp, SameRest
  <2>5. allocate_fragmentID(o) = allocate_fragmentID(e)
    BY <1>1 DEF allocate_fragmentID, Unused, SameRest
  <2>6. Receives(e, g, StartPacket(o, u, i))
    BY <1>1, <2>3 DEF Receives
  <2>7. Cuts(e, u, enc', i)
    BY <2>2, <2>3, <2>4, <2>5, <2>6 DEF Cuts, o
  <2>8. QED
    BY <2>3, <2>7
<1>9. QED
  BY <1>4, <1>7, <1>8

-----------------------------------------------------------------------------
(* The invariant holds *)

\* Forcing a frame out.
LEMMA ForceEffect ==
  ASSUME NEW e \in EncType, Closed(e) \/ InUse(e)
  PROVE  LET f == force_send(e) IN
         /\ f \in EncType /\ SameRest(e, f)
         /\ f = e \/ f = make_frame(e)
         /\ f = e => e.gse = <<>>
         /\ Closed(f)
<1>1. CASE e.gse = <<>>
  BY <1>1 DEF force_send, InUse, SameRest
<1>2. CASE e.gse # <<>>
  <2>1. InUse(e)
    BY <1>2 DEF Closed
  <2>2. e.used <= e.max
    <3>1. e.used \in Nat /\ e.usable \in Nat /\ Payload \in Nat
      BY EncFields, ConstantFacts, SizeFacts DEF Size16
    <3>2. QED
      BY <2>1, <3>1 DEF InUse
  <2>3. force_send(e) = make_frame(e)
    BY <1>2 DEF force_send
  <2>4. make_frame(e) \in EncType /\ SameRest(e, make_frame(e)) /\ Closed(make_frame(e))
    BY <1>2, <2>2, MakeFrameFacts
  <2>5. make_frame(e) # e
    BY <1>2, <2>4 DEF Closed
  <2>6. QED
    BY <2>3, <2>4, <2>5
<1>3. QED
  BY <1>1, <1>2

\* No packet of the encapsulator changes when the sending thread takes a frame.
LEMMA SentFrame ==
  ASSUME NEW e \in EncType, e.out > 0
  PROVE  LET f == [e EXCEPT !.out = @ - 1] IN
         /\ f \in EncType /\ SameRest(e, f) /\ f.max = e.max /\ f.used = e.used
         /\ f.usable = e.usable /\ f.gse = e.gse /\ f.built = e.built /\ f.freed = e.freed
<1>1. e.out - 1 \in 0 .. EncapPool
  BY EncFields, ConstantFacts
<1>2. QED
  BY <1>1 DEF EncType, SameRest

LEMMA EncInitInv == EInit => EncInv
<1> SUFFICES ASSUME EInit PROVE EncInv
  OBVIOUS
<1>1. arrived \in 0 .. MaxPdus /\ ring \in Seq(Whole) /\ idle \in 0 .. IdleLoops - 1
  BY ConstantFacts DEF EInit
<1>2. FreeBuffer \in Buffer /\ ~ FreeBuffer.used
  BY ConstantFacts DEF FreeBuffer, Buffer, WholeNode, Node, NoId
<1>3. InitCircleQueue \in QueueType
  BY ConstantFacts DEF InitCircleQueue, QueueType, CellType
<1>4. Closed(enc) /\ Resting(enc)
  BY <1>2 DEF EInit, Closed, Resting, InitCircleQueue
<1>5. enc \in EncType
  <2>1. <<>> \in Seq(Packet)
    OBVIOUS
  <2>2. 0 \in 0 .. TimeStamps - 1 /\ 0 \in 0 .. EncapPool
    BY ConstantFacts
  <2>3. QED
    BY <1>2, <1>3, <2>1, <2>2, ConstantFacts, SizeFacts DEF EInit, EncType
<1>6. QED
  BY <1>1, <1>4, <1>5 DEF EncInv

LEMMA EncStep == EncInv /\ [ENext]_evars => EncInv'
<1> SUFFICES ASSUME EncInv, [ENext]_evars PROVE EncInv'
  OBVIOUS
<1> USE DEF EncInv
<1>1. CASE enqueue_encap_ring
  <2>1. PICK n \in PduSize : ring' = Append(ring, WholeNode(arrived + 1, n))
    BY <1>1 DEF enqueue_encap_ring
  <2>2. n \in 1 .. U16 - 1 /\ n \in Nat
    BY <2>1, EncapsulatorAssumption, SizeFacts
  <2>3. arrived + 1 \in Pdu /\ arrived + 1 \in Nat /\ arrived' = arrived + 1
    BY <1>1, ConstantFacts DEF enqueue_encap_ring, Pdu
  <2>4. WholeNode(arrived + 1, n) \in Whole
    BY <2>2, <2>3 DEF Whole, WholeNode, Node
  <2>5. ring' \in Seq(Whole)
    BY <2>1, <2>4
  <2>6. arrived' \in 0 .. MaxPdus
    BY <1>1, <2>3, ConstantFacts DEF Pdu
  <2>7. QED
    BY <1>1, <2>5, <2>6 DEF enqueue_encap_ring
<1>2. CASE DrainFragment
  <2>1. Fetchable(enc) /\ encapsulate_isl_bb(Taken(enc), Fetched(enc))
    BY <1>2 DEF DrainFragment
  <2>2. PICK i \in FragId : SendingId(enc, i)
    BY <2>1, NothingToFetch DEF Sending
  <2>3. /\ enc' \in EncType
        /\ Closed(enc') \/ InUse(enc')
        /\ Resting(enc') \/ SendingId(enc', i)
    BY <2>1, <2>2, DrainEffect
  <2>4. QED
    BY <1>2, <2>2, <2>3 DEF DrainFragment, Sending
<1>3. CASE EncapsulateWhole
  <2>1. Resting(enc)
    BY <1>3, ToFetch DEF EncapsulateWhole, Sending
  <2>2. ring # <<>> /\ ring' = Tail(ring) /\ Head(ring) \in Whole /\ Tail(ring) \in Seq(Whole)
    BY <1>3 DEF EncapsulateWhole
  <2>3. encapsulate_isl_bb(enc, Head(ring)) /\ idle' = 0 /\ arrived' = arrived
    BY <1>3 DEF EncapsulateWhole
  <2>4. /\ enc' \in EncType
        /\ Closed(enc') \/ InUse(enc')
        /\ Packs(enc, Head(ring), enc') \/ \E i \in FragId : Cuts(enc, Head(ring), enc', i)
    BY <2>1, <2>2, <2>3, WholeEffect
  <2>5. Resting(enc') \/ Sending(enc')
    BY <2>4 DEF Packs, Cuts, Sending
  <2>6. 0 \in 0 .. IdleLoops - 1
    BY ConstantFacts
  <2>7. QED
    BY <2>2, <2>3, <2>4, <2>5, <2>6
<1>4. CASE Idle
  <2>1. idle' = (idle + 1) % IdleLoops /\ ring' = ring /\ arrived' = arrived
        /\ (enc' = force_send(enc) \/ enc' = enc)
    BY <1>4 DEF Idle
  <2>2. idle' \in 0 .. IdleLoops - 1
    BY <2>1, ConstantFacts
  <2>3. Resting(enc)
    BY <1>4, ToFetch DEF Idle, Sending
  <2>4. enc' \in EncType /\ SameRest(enc, enc') /\ (Closed(enc') \/ InUse(enc'))
    <3>1. CASE enc' = enc
      BY <3>1 DEF SameRest
    <3>2. CASE enc' = force_send(enc)
      BY <3>2, ForceEffect
    <3>3. QED
      BY <2>1, <3>1, <3>2
  <2>5. Resting(enc')
    BY <2>3, <2>4 DEF Resting, SameRest
  <2>6. QED
    BY <2>1, <2>2, <2>4, <2>5
<1>5. CASE snd_bbframe_thread
  <2>1. enc' = [enc EXCEPT !.out = @ - 1] /\ enc.out > 0 /\ UNCHANGED <<arrived, ring, idle>>
    BY <1>5 DEF snd_bbframe_thread
  <2>2. /\ enc' \in EncType /\ SameRest(enc, enc') /\ enc'.max = enc.max /\ enc'.used = enc.used
        /\ enc'.usable = enc.usable /\ enc'.gse = enc.gse
    BY <2>1, SentFrame
  <2>3. Closed(enc') \/ InUse(enc')
    BY <2>2 DEF Closed, InUse
  <2>4. Resting(enc') \/ Sending(enc')
    BY <2>2 DEF Resting, Sending, SendingId, SameRest
  <2>5. QED
    BY <2>1, <2>2, <2>3, <2>4
<1>6. CASE UNCHANGED evars
  BY <1>6, ZenonT(60) DEF evars, Closed, InUse, Resting, Sending, SendingId, Cut
<1>7. QED
  BY <1>1, <1>2, <1>3, <1>4, <1>5, <1>6 DEF ENext, encapsulate_thread

LEMMA EncInvariant == ESpec => []EncInv
BY EncInitInv, EncStep, PTL DEF ESpec

\* Type correctness: every field of the encapsulator, and every packet and fragment
\* buffer, has its type, for payloads and PDUs of any size.
THEOREM EncapsulatorTypes == ESpec => []ETypeOK
<1>1. EncInv => ETypeOK
  <2> SUFFICES ASSUME EncInv PROVE ETypeOK
    OBVIOUS
  <2>1. ring \in Seq(Node)
    BY DEF EncInv, Whole
  <2>2. {enc.max, enc.used, enc.usable} \subseteq 0 .. U16 - 1
    BY EncFields DEF EncInv, Size16
  <2>3. QED
    BY <2>1, <2>2, EncFields DEF EncInv, ETypeOK
<1>2. QED
  BY <1>1, EncInvariant, PTL

\* A frame that stays open has packets and room above the padding threshold: the
\* branch of encapsulate_isl_bb that puts a PDU twice in its group is never taken,
\* and no 16-bit size wraps.
THEOREM FramesAreSound == ESpec => []FrameSound
<1>1. EncInv => FrameSound
  BY DEF EncInv, Closed, InUse, FrameSound
<1>2. QED
  BY <1>1, EncInvariant, PTL

-----------------------------------------------------------------------------
(* Every mbuf is freed once *)

\* The packets that give their PDU's mbuf back.
Final(k) == k.node.kind \in {"W", "E"}

\* Of the PDUs 1 .. b that were taken from the ring: none is freed twice, and those
\* in the frame are not freed and have at most one final packet there.
Account(e, b) ==
  /\ \A p \in Pdu : e.freed[p] \in {0, 1} /\ (p > b => e.freed[p] = 0)
  /\ \A j \in DOMAIN e.gse : /\ e.gse[j].n = 1 /\ e.gse[j].node.pdu \in 1 .. b
                             /\ e.freed[e.gse[j].node.pdu] = 0
  /\ \A j, l \in DOMAIN e.gse :
       Final(e.gse[j]) /\ Final(e.gse[l]) /\ e.gse[j].node.pdu = e.gse[l].node.pdu => j = l

\* PDU p is not freed, and will not be by the frame.
Unfinished(e, b, p) ==
  /\ p \in 1 .. b /\ e.freed[p] = 0
  /\ \A j \in DOMAIN e.gse : Final(e.gse[j]) => e.gse[j].node.pdu # p

\* The PDUs that were taken from the ring.
Begun == arrived - Len(ring)

FreedInv ==
  /\ Begun \in 0 .. MaxPdus
  /\ \A j \in 1 .. Len(ring) : ring[j].pdu = Begun + j
  /\ Account(enc, Begun)
  /\ \A i \in FragId : enc.buf[i].used => Unfinished(enc, Begun, enc.buf[i].node.pdu)

\* A packet of a PDU that is not finished may join the frame.
LEMMA AccountReceives ==
  ASSUME NEW b \in 0 .. MaxPdus, NEW e \in EncType, Account(e, b), NEW g, NEW k, Receives(e, g, k),
         Unfinished(e, b, k.node.pdu)
  PROVE  /\ Account(g, b)
         /\ ~ Final(k) => Unfinished(g, b, k.node.pdu)
<1>1. /\ g.freed = e.freed /\ g.gse = Append(e.gse, k) /\ k.n = 1 /\ k \in Packet
      /\ e.gse \in Seq(Packet)
  BY EncFields DEF Receives
<1> DEFINE n == Len(e.gse) + 1
<1>2. /\ DOMAIN g.gse = 1 .. n /\ DOMAIN e.gse = 1 .. n - 1 /\ n \in Nat /\ g.gse[n] = k
      /\ \A j \in 1 .. n - 1 : g.gse[j] = e.gse[j]
  BY <1>1
<1> HIDE DEF n
<1>3. \A j \in DOMAIN g.gse : j = n \/ (j \in DOMAIN e.gse /\ g.gse[j] = e.gse[j])
  BY <1>2
<1>4. n \in DOMAIN g.gse => g.gse[n] = k
  BY <1>2
<1>5. Account(g, b)
  <2>1. \A p \in Pdu : g.freed[p] \in {0, 1} /\ (p > b => g.freed[p] = 0)
    BY <1>1 DEF Account
  <2>2. ASSUME NEW j \in DOMAIN g.gse
        PROVE  /\ g.gse[j].n = 1 /\ g.gse[j].node.pdu \in 1 .. b
               /\ g.freed[g.gse[j].node.pdu] = 0
    <3>1. CASE j = n
      <4>1. g.gse[j] = k
        BY <1>4, <2>2, <3>1
      <4>2. QED
        BY <1>1, <4>1 DEF Unfinished
    <3>2. CASE j \in DOMAIN e.gse /\ g.gse[j] = e.gse[j]
      BY <1>1, <3>2 DEF Account
    <3>3. QED
      BY <1>3, <3>1, <3>2
  <2>3. ASSUME NEW j \in DOMAIN g.gse, NEW l \in DOMAIN g.gse,
               Final(g.gse[j]), Final(g.gse[l]), g.gse[j].node.pdu = g.gse[l].node.pdu
        PROVE  j = l
    <3>1. ASSUME NEW x \in DOMAIN e.gse, g.gse[x] = e.gse[x], Final(g.gse[x])
          PROVE  g.gse[x].node.pdu # k.node.pdu
      BY <3>1 DEF Unfinished
    <3>2. CASE j = n /\ l # n
      BY <1>3, <1>4, <2>3, <3>1, <3>2
    <3>3. CASE l = n /\ j # n
      BY <1>3, <1>4, <2>3, <3>1, <3>3
    <3>4. CASE j # n /\ l # n
      <4>1. j \in DOMAIN e.gse /\ l \in DOMAIN e.gse /\ g.gse[j] = e.gse[j] /\ g.gse[l] = e.gse[l]
        BY <1>3, <3>4
      <4>2. QED
        BY <2>3, <4>1 DEF Account
    <3>5. QED
      BY <3>2, <3>3, <3>4
  <2>4. QED
    BY <2>1, <2>2, <2>3 DEF Account
<1>6. ~ Final(k) => Unfinished(g, b, k.node.pdu)
  BY <1>1, <1>3, <1>4 DEF Unfinished
<1>7. QED
  BY <1>5, <1>6

\* What the frame frees: the PDUs that have a final packet in it.
LEMMA FreesOne ==
  ASSUME NEW b, NEW e \in EncType, Account(e, b), NEW p \in Pdu
  PROVE  /\ Frees(e.gse, p) \in {0, 1}
         /\ Frees(e.gse, p) = 1 => \E j \in DOMAIN e.gse : Final(e.gse[j]) /\ e.gse[j].node.pdu = p
<1> DEFINE S == {k \in (DOMAIN e.gse) \X (1 .. 2) :
                   /\ e.gse[k[1]].node.pdu = p /\ e.gse[k[1]].node.kind \in {"W", "E"}
                   /\ k[2] <= e.gse[k[1]].n}
<1>1. Frees(e.gse, p) = Cardinality(S)
  BY DEF Frees
<1>2. \A k \in S : /\ k = <<k[1], 1>> /\ k[1] \in DOMAIN e.gse
                   /\ Final(e.gse[k[1]]) /\ e.gse[k[1]].node.pdu = p
  <2> SUFFICES ASSUME NEW k \in S
               PROVE  /\ k = <<k[1], 1>> /\ k[1] \in DOMAIN e.gse
                      /\ Final(e.gse[k[1]]) /\ e.gse[k[1]].node.pdu = p
    OBVIOUS
  <2>1. k \in (DOMAIN e.gse) \X (1 .. 2) /\ k[2] <= e.gse[k[1]].n
    OBVIOUS
  <2>2. k = <<k[1], k[2]>> /\ k[1] \in DOMAIN e.gse /\ k[2] \in 1 .. 2
    BY <2>1
  <2>3. e.gse[k[1]].n = 1
    BY <2>2 DEF Account
  <2>4. k[2] = 1
    BY <2>1, <2>2, <2>3
  <2>5. QED
    BY <2>2, <2>4 DEF Final
<1>3. CASE S = {}
  <2>1. Cardinality(S) = 0
    BY <1>3, FS_EmptySet
  <2> HIDE DEF S
  <2>2. Frees(e.gse, p) = 0
    BY ONLY <1>1, <2>1
  <2>3. QED
    BY ONLY <2>2
<1>4. CASE S # {}
  <2>1. PICK k \in S : TRUE
    BY <1>4
  <2> HIDE DEF S
  <2>2. \A l \in S : l = k
    BY <1>2, <2>1 DEF Account
  <2>3. S = {k}
    BY <2>1, <2>2
  <2>4. Cardinality(S) = 1
    BY <2>3, FS_Singleton
  <2>5. QED
    BY <1>1, <1>2, <2>1, <2>4
<1>5. QED
  BY <1>3, <1>4

\* Finishing the frame.
LEMMA AccountFinished ==
  ASSUME NEW b \in 0 .. MaxPdus, NEW e \in EncType, Account(e, b), e.gse # <<>>, e.used <= e.max
  PROVE  /\ Account(make_frame(e), b)
         /\ \A p : Unfinished(e, b, p) => Unfinished(make_frame(e), b, p)
<1> DEFINE m == make_frame(e)
<1>1. m.gse = <<>> /\ m.freed = [p \in Pdu |-> e.freed[p] + Frees(e.gse, p)]
  BY MakeFrameFacts DEF Closed
<1>2. DOMAIN m.gse = {}
  BY <1>1
<1>3. \A p \in Pdu : m.freed[p] = e.freed[p] + Frees(e.gse, p)
  BY <1>1
<1>4. ASSUME NEW p \in Pdu PROVE m.freed[p] \in {0, 1} /\ (p > b => m.freed[p] = 0)
  <2>1. Frees(e.gse, p) = 1 => e.freed[p] = 0 /\ p \in 1 .. b
    <3>1. ASSUME Frees(e.gse, p) = 1 PROVE e.freed[p] = 0 /\ p \in 1 .. b
      <4>1. PICK j \in DOMAIN e.gse : e.gse[j].node.pdu = p
        BY <3>1, FreesOne
      <4>2. QED
        BY <4>1 DEF Account
    <3>2. QED
      BY <3>1
  <2>2. e.freed[p] \in {0, 1} /\ (p > b => e.freed[p] = 0) /\ Frees(e.gse, p) \in {0, 1}
    BY FreesOne DEF Account
  <2> HIDE DEF m
  <2>3. m.freed[p] = e.freed[p] + Frees(e.gse, p)
    BY <1>3
  <2>4. p \in Int /\ b \in Int
    BY DEF Pdu
  <2>5. QED
    BY <2>1, <2>2, <2>3, <2>4
<1>5. ASSUME NEW p, Unfinished(e, b, p) PROVE Unfinished(m, b, p)
  <2>1. p \in Pdu /\ p \in 1 .. b /\ e.freed[p] = 0
    BY <1>5, ConstantFacts DEF Unfinished, Pdu
  <2>2. Frees(e.gse, p) = 0
    BY <1>5, <2>1, FreesOne DEF Unfinished
  <2>3. m.freed[p] = 0
    BY <1>3, <2>1, <2>2
  <2>4. QED
    BY <1>2, <2>1, <2>3 DEF Unfinished
<1> HIDE DEF m
<1>6. Account(m, b)
  BY <1>2, <1>4 DEF Account
<1>7. QED
  BY <1>5, <1>6 DEF m

\* A state with a new packet is left as it is or with the frame finished.
LEMMA AccountLeaves ==
  ASSUME NEW b \in 0 .. MaxPdus, NEW e \in EncType, NEW g, NEW k, NEW f,
         Receives(e, g, k), Account(g, b), Leaves(g, f) \/ f = make_frame(g)
  PROVE  /\ Account(f, b) /\ SameRest(g, f)
         /\ \A p : Unfinished(g, b, p) => Unfinished(f, b, p)
<1>1. g \in EncType /\ g.gse # <<>>
  BY ReceivesFits
<1>2. g.used <= g.max
  BY ReceivesFits
<1>3. CASE f = make_frame(g)
  BY <1>1, <1>2, <1>3, AccountFinished, MakeFrameFacts
<1>4. CASE f = g
  BY <1>4 DEF SameRest
<1>5. QED
  BY <1>3, <1>4 DEF Leaves

LEMMA FreedStep == EncInv /\ FreedInv /\ [ENext]_evars => FreedInv'
<1> SUFFICES ASSUME EncInv, FreedInv, [ENext]_evars PROVE FreedInv'
  OBVIOUS
<1> DEFINE b == Begun
<1>1. /\ arrived \in 0 .. MaxPdus /\ MaxPdus \in Nat /\ ring \in Seq(Whole) /\ enc \in EncType
      /\ b \in 0 .. MaxPdus /\ Len(ring) \in Nat /\ b = arrived - Len(ring)
      /\ \A j \in 1 .. Len(ring) : ring[j].pdu = b + j
      /\ Account(enc, b)
      /\ \A i \in FragId : enc.buf[i].used => Unfinished(enc, b, enc.buf[i].node.pdu)
  BY ConstantFacts DEF EncInv, FreedInv, Begun
<1>2. CASE enqueue_encap_ring
  <2>1. PICK n \in PduSize : ring' = Append(ring, WholeNode(arrived + 1, n))
    BY <1>2 DEF enqueue_encap_ring
  <2>2. /\ Len(ring') = Len(ring) + 1 /\ ring'[Len(ring) + 1] = WholeNode(arrived + 1, n)
        /\ \A j \in 1 .. Len(ring) : ring'[j] = ring[j]
    BY <1>1, <2>1
  <2>3. arrived' = arrived + 1 /\ enc' = enc
    BY <1>2 DEF enqueue_encap_ring
  <2>4. Begun' = b
    BY <1>1, <2>2, <2>3 DEF Begun
  <2>5. WholeNode(arrived + 1, n).pdu = b + (Len(ring) + 1)
    BY <1>1 DEF WholeNode
  <2> HIDE DEF b
  <2>6. \A j \in 1 .. Len(ring') : ring'[j].pdu = b + j
    <3>1. ASSUME NEW j \in 1 .. Len(ring') PROVE ring'[j].pdu = b + j
      <4>1. CASE j = Len(ring) + 1
        BY <2>2, <2>5, <4>1
      <4>2. CASE j # Len(ring) + 1
        <5>1. j \in 1 .. Len(ring)
          BY <1>1, <2>2, <4>2
        <5>2. QED
          BY <1>1, <2>2, <5>1
      <4>3. QED
        BY <4>1, <4>2
    <3>2. QED
      BY <3>1
  <2>7. QED
    BY <1>1, <2>3, <2>4, <2>6 DEF FreedInv
<1>3. CASE DrainFragment
  <2>1. Fetchable(enc) /\ encapsulate_isl_bb(Taken(enc), Fetched(enc)) /\ Begun' = b /\ ring' = ring
    BY <1>3 DEF DrainFragment, Begun
  <2>2. PICK i \in FragId : SendingId(enc, i)
    BY <2>1, NothingToFetch DEF EncInv, Sending
  <2> DEFINE u == Fetched(enc)
             k == [node |-> u, n |-> 1, ts |-> enc.count[i]]
  <2>3. u.pdu = enc.buf[i].node.pdu /\ u.kind \in {"M", "E"}
    BY <1>1, <2>2, FetchedFacts
  <2>4. /\ \E g : Receives(enc, g, k) /\ Leaves(g, enc')
        /\ IF u.kind = "E" THEN Resting(enc')
           ELSE SendingId(enc', i) /\ OneMoreSent(enc.buf[i], enc'.buf[i])
    BY <1>1, <2>1, <2>2, DrainEffect DEF EncInv
  <2> HIDE DEF u, b
  <2>5. PICK g : Receives(enc, g, k) /\ Leaves(g, enc')
    BY <2>4
  <2>6. Unfinished(enc, b, k.node.pdu)
    BY <1>1, <2>2, <2>3 DEF SendingId, Cut
  <2>7. Account(g, b) /\ (~ Final(k) => Unfinished(g, b, u.pdu))
    BY <1>1, <2>5, <2>6, AccountReceives
  <2>8. Account(enc', b) /\ (~ Final(k) => Unfinished(enc', b, u.pdu))
    <3> HIDE DEF k
    <3>1. Account(enc', b) /\ \A p : Unfinished(g, b, p) => Unfinished(enc', b, p)
      BY <1>1, <2>5, <2>7, AccountLeaves
    <3>2. QED
      BY <2>7, <3>1
  <2>9. \A l \in FragId : enc'.buf[l].used => Unfinished(enc', b, enc'.buf[l].node.pdu)
    <3>1. CASE u.kind = "E"
      BY <2>4, <3>1 DEF Resting
    <3>2. CASE u.kind # "E"
      <4>1. ~ Final(k)
        BY <2>3, <3>2 DEF Final
      <4>2. enc'.buf[i].node.pdu = u.pdu /\ \A l \in FragId \ {i} : ~ enc'.buf[l].used
        BY <2>3, <2>4, <3>2 DEF SendingId, OneMoreSent
      <4>3. QED
        BY <2>8, <4>1, <4>2
    <3>3. QED
      BY <3>1, <3>2
  <2>10. QED
    BY <1>1, <2>1, <2>8, <2>9 DEF FreedInv
<1>4. CASE EncapsulateWhole
  <2>1. Resting(enc)
    BY <1>4, ToFetch DEF EncapsulateWhole, EncInv, Sending
  <2> DEFINE u == Head(ring)
  <2>2. ring # <<>> /\ ring' = Tail(ring) /\ arrived' = arrived /\ encapsulate_isl_bb(enc, u)
    BY <1>4 DEF EncapsulateWhole
  <2>3. /\ Len(ring) >= 1 /\ Len(ring') = Len(ring) - 1 /\ u = ring[1] /\ u \in Whole
        /\ \A j \in 1 .. Len(ring') : ring'[j] = ring[j + 1]
    BY <1>1, <2>2
  <2>4. Packs(enc, u, enc') \/ \E i \in FragId : Cuts(enc, u, enc', i)
    BY <1>1, <2>1, <2>2, <2>3, WholeEffect DEF EncInv
  <2>5. b + 1 \in 0 .. MaxPdus /\ Begun' = b + 1 /\ u.pdu = b + 1
    BY <1>1, <2>2, <2>3 DEF Begun
  <2>6. \A j \in 1 .. Len(ring') : ring'[j].pdu = b + 1 + j
    <3>1. ASSUME NEW j \in 1 .. Len(ring') PROVE ring'[j].pdu = b + 1 + j
      <4>1. j + 1 \in 1 .. Len(ring) /\ ring'[j] = ring[j + 1]
        BY <1>1, <2>3
      <4>2. ring[j + 1].pdu = b + (j + 1)
        BY <1>1, <4>1
      <4>3. QED
        BY <1>1, <4>1, <4>2
    <3>2. QED
      BY <3>1
  <2> HIDE DEF u, b
  <2>7. Account(enc, b + 1) /\ Unfinished(enc, b + 1, u.pdu)
    <3>1. b + 1 \in Pdu /\ b + 1 \in 1 .. b + 1 /\ b + 1 > b /\ b + 1 \notin 1 .. b
      BY <1>1, <2>5 DEF Pdu
    <3>2. \A x \in 1 .. b : x \in 1 .. b + 1
      BY <1>1
    <3>3. \A p \in Pdu : p > b + 1 => p > b
      BY <1>1 DEF Pdu
    <3>4. Account(enc, b + 1)
      BY <1>1, <3>2, <3>3 DEF Account
    <3>5. enc.freed[b + 1] = 0
      BY <1>1, <3>1 DEF Account
    <3>6. \A j \in DOMAIN enc.gse : enc.gse[j].node.pdu # b + 1
      BY <1>1, <3>1 DEF Account
    <3>7. QED
      BY <2>5, <3>1, <3>4, <3>5, <3>6 DEF Unfinished
  <2>8. CASE Packs(enc, u, enc')
    <3> DEFINE k == [node |-> u, n |-> 1, ts |-> 0]
    <3>1. PICK g : Receives(enc, g, k) /\ Leaves(g, enc')
      BY <2>8 DEF Packs
    <3>2. Account(g, b + 1)
      BY <1>1, <2>5, <2>7, <3>1, AccountReceives
    <3>3. Account(enc', b + 1)
      BY <1>1, <2>5, <3>1, <3>2, AccountLeaves
    <3>4. QED
      BY <2>5, <2>6, <2>8, <3>3 DEF FreedInv, Packs, Resting
  <2>9. ASSUME NEW i \in FragId, Cuts(enc, u, enc', i) PROVE FreedInv'
    <3> DEFINE k == StartPacket(Opened(enc), u, i)
    <3>1. PICK g : Receives(enc, g, k) /\ enc' = make_frame(g) /\ g.buf[i].node = u
      BY <2>9 DEF Cuts
    <3>2. k.node.pdu = u.pdu /\ ~ Final(k)
      BY DEF StartPacket, StartOf, Final
    <3> HIDE DEF k
    <3>3. Account(g, b + 1) /\ Unfinished(g, b + 1, u.pdu)
      <4>1. /\ enc \in EncType /\ b + 1 \in 0 .. MaxPdus /\ Account(enc, b + 1)
            /\ Receives(enc, g, k) /\ Unfinished(enc, b + 1, k.node.pdu)
        BY <1>1, <2>5, <2>7, <3>1, <3>2
      <4>2. Account(g, b + 1) /\ (~ Final(k) => Unfinished(g, b + 1, k.node.pdu))
        BY ONLY <4>1, AccountReceives
      <4>3. QED
        BY ONLY <3>2, <4>2
    <3>4. Account(enc', b + 1) /\ Unfinished(enc', b + 1, u.pdu) /\ SameRest(g, enc')
      BY <1>1, <2>5, <3>1, <3>3, AccountLeaves
    <3>5. enc'.buf[i].node = u /\ \A l \in FragId \ {i} : ~ enc'.buf[l].used
      BY <2>9, <3>1, <3>4 DEF Cuts, SameRest, SendingId
    <3>6. \A l \in FragId : enc'.buf[l].used => Unfinished(enc', b + 1, enc'.buf[l].node.pdu)
      BY <3>4, <3>5
    <3>7. QED
      BY <2>5, <2>6, <3>4, <3>6 DEF FreedInv
  <2>10. QED
    BY <2>4, <2>8, <2>9
<1>5. CASE Idle
  <2>1. Begun' = b /\ ring' = ring /\ (enc' = force_send(enc) \/ enc' = enc)
    BY <1>5 DEF Idle, Begun
  <2>2. CASE enc' = enc
    BY <1>1, <2>1, <2>2 DEF FreedInv
  <2>3. CASE enc' = make_frame(enc) /\ enc.gse # <<>>
    <3>1. enc.used <= enc.max
      <4>1. InUse(enc)
        BY <2>3 DEF EncInv, Closed
      <4>2. enc.used \in Nat /\ enc.usable \in Nat /\ Payload \in Nat
        BY <1>1, EncFields, ConstantFacts, SizeFacts DEF Size16
      <4>3. QED
        BY <4>1, <4>2 DEF InUse
    <3>2. Account(enc', b) /\ SameRest(enc, enc')
          /\ \A p : Unfinished(enc, b, p) => Unfinished(enc', b, p)
      BY <1>1, <2>3, <3>1, AccountFinished, MakeFrameFacts
    <3> HIDE DEF b
    <3>3. QED
      BY <1>1, <2>1, <3>2 DEF FreedInv, SameRest
  <2>4. QED
    BY <2>1, <2>2, <2>3 DEF force_send
<1>6. CASE snd_bbframe_thread
  <2>1. enc' = [enc EXCEPT !.out = @ - 1] /\ enc.out > 0 /\ ring' = ring /\ Begun' = b
    BY <1>6 DEF snd_bbframe_thread, Begun
  <2>2. SameRest(enc, enc') /\ enc'.gse = enc.gse /\ enc'.freed = enc.freed
    BY <1>1, <2>1, SentFrame
  <2> HIDE DEF b
  <2>3. Account(enc', b) /\ \A p : Unfinished(enc, b, p) => Unfinished(enc', b, p)
    BY <1>1, <2>2 DEF Account, Unfinished
  <2>4. QED
    BY <1>1, <2>1, <2>2, <2>3 DEF FreedInv, SameRest
<1>7. CASE UNCHANGED evars
  BY <1>1, <1>7 DEF evars, FreedInv, Begun
<1>8. QED
  BY <1>2, <1>3, <1>4, <1>5, <1>6, <1>7 DEF ENext, encapsulate_thread

\* An mbuf is freed at most once, and then no packet of the frame and no fragment
\* buffer refers to its PDU.
THEOREM MbufsFreedOnce == ESpec => []FreedOnce
<1>1. EInit => FreedInv
  <2> SUFFICES ASSUME EInit PROVE FreedInv
    OBVIOUS
  <2>1. /\ ring = <<>> /\ arrived = 0 /\ enc.gse = <<>> /\ enc.freed = [p \in Pdu |-> 0]
        /\ \A i \in FragId : ~ enc.buf[i].used
    BY DEF EInit, FreeBuffer
  <2>2. Begun = 0 /\ 0 \in 0 .. MaxPdus /\ Len(ring) = 0 /\ DOMAIN enc.gse = {}
    <3>1. Len(ring) = 0 /\ DOMAIN enc.gse = {}
      BY <2>1
    <3>2. Begun = 0 /\ 0 \in 0 .. MaxPdus
      <4>1. Begun = 0 - 0
        BY <2>1, <3>1 DEF Begun
      <4>2. MaxPdus \in Nat
        BY ConstantFacts
      <4>3. QED
        BY <4>1, <4>2
    <3>3. QED
      BY <3>1, <3>2
  <2>3. Account(enc, 0)
    BY <2>1, <2>2 DEF Account
  <2>4. QED
    BY <2>1, <2>2, <2>3 DEF FreedInv
<1>2. EncInv /\ FreedInv => FreedOnce
  <2> SUFFICES ASSUME EncInv, FreedInv, NEW p \in Pdu
               PROVE  /\ enc.freed[p] <= 1
                      /\ enc.freed[p] = 1 =>
                           /\ \A k \in 1 .. Len(enc.gse) : enc.gse[k].node.pdu # p
                           /\ \A i \in FragId : enc.buf[i].used => enc.buf[i].node.pdu # p
    BY DEF FreedOnce
  <2>1. DOMAIN enc.gse = 1 .. Len(enc.gse)
    BY EncFields DEF EncInv
  <2>2. enc.freed[p] \in {0, 1}
    BY DEF FreedInv, Account
  <2>3. QED
    BY <2>1, <2>2 DEF FreedInv, Account, Unfinished
<1>3. QED
  BY <1>1, <1>2, EncInvariant, FreedStep, PTL DEF ESpec

-----------------------------------------------------------------------------
(* What every step does to the stream of packets: nothing, or one packet more *)

StreamOf(e) == e.built \o e.gse

\* One sequence of packets after another, and a longer one.
LEMMA AppendToSecond ==
  ASSUME NEW s \in Seq(Packet), NEW r \in Seq(Packet), NEW x \in Packet
  PROVE  s \o Append(r, x) = Append(s \o r, x)
OBVIOUS

LEMMA StreamReceives ==
  ASSUME NEW e \in EncType, NEW g, NEW k, Receives(e, g, k)
  PROVE  StreamOf(g) = Append(StreamOf(e), k)
<1>1. e.built \in Seq(Packet) /\ e.gse \in Seq(Packet) /\ k \in Packet
  BY EncFields DEF Receives
<1>2. g.built = e.built /\ g.gse = Append(e.gse, k)
  BY DEF Receives
<1>3. e.built \o Append(e.gse, k) = Append(e.built \o e.gse, k)
  BY <1>1, AppendToSecond
<1>4. QED
  BY <1>2, <1>3, Zenon DEF StreamOf

\* A finished frame leaves the stream as it is.
LEMMA StreamFinished ==
  ASSUME NEW e \in EncType, e.gse # <<>>, e.used <= e.max
  PROVE  StreamOf(make_frame(e)) = StreamOf(e)
<1>1. make_frame(e).built = e.built \o e.gse /\ make_frame(e).gse = <<>>
  BY MakeFrameFacts DEF Closed
<1>2. e.built \in Seq(Packet) /\ e.gse \in Seq(Packet)
  BY EncFields
<1>3. QED
  BY <1>1, <1>2 DEF StreamOf

LEMMA StreamLeaves ==
  ASSUME NEW e \in EncType, NEW g, NEW k, NEW f, Receives(e, g, k),
         Leaves(g, f) \/ f = make_frame(g)
  PROVE  StreamOf(f) = Append(StreamOf(e), k) /\ SameRest(g, f)
<1>1. g \in EncType /\ g.gse # <<>> /\ StreamOf(g) = Append(StreamOf(e), k)
  <2>1. g.gse = Append(e.gse, k) /\ e.gse \in Seq(Packet) /\ g \in EncType
    BY EncFields DEF Receives
  <2>2. g.gse # <<>>
    BY <2>1
  <2>3. QED
    BY <2>1, <2>2, StreamReceives
<1>2. g.used <= g.max
  BY ReceivesFits
<1>3. CASE f = make_frame(g)
  BY <1>1, <1>2, <1>3, StreamFinished, MakeFrameFacts
<1>4. CASE f = g
  BY <1>1, <1>4 DEF SameRest
<1>5. QED
  BY <1>3, <1>4 DEF Leaves

\* No packet ...
Quiet(e, f) == StreamOf(f) = StreamOf(e) /\ SameRest(e, f)

\* ... a whole PDU ...
WholeSent(e, f) ==
  \E u \in Whole :
    /\ Resting(e) /\ Resting(f)
    /\ StreamOf(f) = Append(StreamOf(e), [node |-> u, n |-> 1, ts |-> 0])
    /\ f.cur = e.cur /\ f.count = e.count /\ f.last = e.last

\* ... the start fragment of one ...
StartSent(e, f, i) ==
  \E u \in Whole, o \in EncType :
    /\ Resting(e) /\ SendingId(f, i) /\ i \in allocate_fragmentID(e)
    /\ o.cur = e.cur /\ o.count = e.count
    /\ StreamOf(f) = Append(StreamOf(e), StartPacket(o, u, i))
    /\ f.cur = i /\ f.last = i /\ f.count = [e.count EXCEPT ![i] = NextStamp(e, i)]
    /\ f.buf[i].node = u /\ f.buf[i].sent = 1 /\ f.buf[i].start = o.usable - 11

\* ... or another fragment of the PDU that is being sent.
NextSent(e, f, i) ==
  /\ SendingId(e, i)
  /\ StreamOf(f) = Append(StreamOf(e), [node |-> Fetched(e), n |-> 1, ts |-> e.count[i]])
  /\ f.cur = i /\ f.last = e.last /\ f.count = e.count
  /\ IF Fetched(e).kind = "E" THEN Resting(f)
     ELSE SendingId(f, i) /\ OneMoreSent(e.buf[i], f.buf[i])

LEMMA StreamSteps ==
  ASSUME EncInv, [ENext]_evars
  PROVE  \/ Quiet(enc, enc')
         \/ WholeSent(enc, enc')
         \/ \E i \in FragId : StartSent(enc, enc', i) \/ NextSent(enc, enc', i)
<1>1. enc \in EncType /\ (Closed(enc) \/ InUse(enc)) /\ ring \in Seq(Whole)
  BY DEF EncInv
<1>2. CASE enqueue_encap_ring \/ UNCHANGED evars
  BY <1>2 DEF enqueue_encap_ring, evars, Quiet, SameRest
<1>3. CASE DrainFragment
  <2>1. Fetchable(enc) /\ encapsulate_isl_bb(Taken(enc), Fetched(enc))
    BY <1>3 DEF DrainFragment
  <2>2. PICK i \in FragId : SendingId(enc, i)
    BY <2>1, NothingToFetch DEF EncInv, Sending
  <2> DEFINE k == [node |-> Fetched(enc), n |-> 1, ts |-> enc.count[i]]
  <2>3. /\ \E g : Receives(enc, g, k) /\ Leaves(g, enc') /\ g.cur = i /\ g.count = enc.count
                  /\ g.last = enc.last
        /\ IF Fetched(enc).kind = "E" THEN Resting(enc')
           ELSE SendingId(enc', i) /\ OneMoreSent(enc.buf[i], enc'.buf[i])
    BY <1>1, <2>1, <2>2, DrainEffect
  <2> HIDE DEF k
  <2>4. PICK g : Receives(enc, g, k) /\ Leaves(g, enc') /\ g.cur = i /\ g.count = enc.count
                 /\ g.last = enc.last
    BY <2>3
  <2>5. StreamOf(enc') = Append(StreamOf(enc), k) /\ SameRest(g, enc')
    BY <1>1, <2>4, StreamLeaves
  <2>6. NextSent(enc, enc', i)
    BY <2>2, <2>3, <2>4, <2>5 DEF NextSent, SameRest, k
  <2>7. QED
    BY <2>6
<1>4. CASE EncapsulateWhole
  <2>1. Resting(enc)
    BY <1>4, ToFetch DEF EncapsulateWhole, EncInv, Sending
  <2> DEFINE u == Head(ring)
  <2>2. u \in Whole /\ encapsulate_isl_bb(enc, u)
    BY <1>1, <1>4 DEF EncapsulateWhole
  <2> HIDE DEF u
  <2>3. Packs(enc, u, enc') \/ \E i \in FragId : Cuts(enc, u, enc', i)
    BY <1>1, <2>1, <2>2, WholeEffect
  <2>4. CASE Packs(enc, u, enc')
    <3> DEFINE k == [node |-> u, n |-> 1, ts |-> 0]
    <3>1. PICK g : Receives(enc, g, k) /\ Leaves(g, enc') /\ g.cur = enc.cur /\ g.count = enc.count
                   /\ g.last = enc.last
      BY <2>4 DEF Packs
    <3> HIDE DEF k
    <3>2. StreamOf(enc') = Append(StreamOf(enc), k) /\ SameRest(g, enc')
      BY <1>1, <3>1, StreamLeaves
    <3>3. WholeSent(enc, enc')
      BY <2>1, <2>2, <2>4, <3>1, <3>2 DEF WholeSent, Packs, SameRest, k
    <3>4. QED
      BY <3>3
  <2>5. ASSUME NEW i \in FragId, Cuts(enc, u, enc', i) PROVE StartSent(enc, enc', i)
    <3> DEFINE o == Opened(enc)
               k == StartPacket(o, u, i)
    <3>1. PICK g : /\ Receives(enc, g, k) /\ enc' = make_frame(g)
                   /\ g.cur = i /\ g.count = [enc.count EXCEPT ![i] = NextStamp(enc, i)] /\ g.last = i
                   /\ g.buf[i].node = u /\ g.buf[i].sent = 1 /\ g.buf[i].start = o.usable - 11
      BY <2>5 DEF Cuts
    <3>2. o \in EncType /\ o.cur = enc.cur /\ o.count = enc.count
      BY <1>1, OpenedFacts DEF SameRest
    <3> HIDE DEF k
    <3>3. StreamOf(enc') = Append(StreamOf(enc), k) /\ SameRest(g, enc')
      BY <1>1, <3>1, StreamLeaves
    <3> HIDE DEF o
    <3>4. SendingId(enc', i) /\ i \in allocate_fragmentID(enc)
      BY <2>5 DEF Cuts
    <3>5. /\ enc'.cur = i /\ enc'.last = i
          /\ enc'.count = [enc.count EXCEPT ![i] = NextStamp(enc, i)]
          /\ enc'.buf[i].node = u /\ enc'.buf[i].sent = 1 /\ enc'.buf[i].start = o.usable - 11
      BY <3>1, <3>3 DEF SameRest
    <3>6. QED
      BY <2>1, <2>2, <3>2, <3>3, <3>4, <3>5 DEF StartSent, k
  <2>6. QED
    BY <2>3, <2>4, <2>5
<1>5. CASE Idle
  <2>1. enc' = force_send(enc) \/ enc' = enc
    BY <1>5 DEF Idle
  <2>2. CASE enc' = enc
    BY <2>2 DEF Quiet, SameRest
  <2>3. CASE enc' = make_frame(enc) /\ enc.gse # <<>>
    <3>1. enc.used <= enc.max
      <4>1. InUse(enc)
        BY <1>1, <2>3 DEF Closed
      <4>2. enc.used \in Nat /\ enc.usable \in Nat /\ Payload \in Nat
        BY <1>1, EncFields, ConstantFacts, SizeFacts DEF Size16
      <4>3. QED
        BY <4>1, <4>2 DEF InUse
    <3>2. StreamOf(enc') = StreamOf(enc) /\ SameRest(enc, enc')
      BY <1>1, <2>3, <3>1, StreamFinished, MakeFrameFacts
    <3>3. QED
      BY <3>2 DEF Quiet
  <2>4. QED
    BY <2>1, <2>2, <2>3 DEF force_send
<1>6. CASE snd_bbframe_thread
  <2>1. enc' = [enc EXCEPT !.out = @ - 1] /\ enc.out > 0
    BY <1>6 DEF snd_bbframe_thread
  <2>2. SameRest(enc, enc') /\ enc'.gse = enc.gse /\ enc'.built = enc.built
    BY <1>1, <2>1, SentFrame
  <2>3. QED
    BY <2>2 DEF Quiet, StreamOf
<1>7. QED
  BY <1>2, <1>3, <1>4, <1>5, <1>6 DEF ENext, encapsulate_thread

-----------------------------------------------------------------------------
(* The time stamps *)

IsStart(s, j, i) == s[j].node.kind = "S" /\ s[j].node.id = i

\* Packet j of s is the last start fragment with ID i.
Latest(s, j, i) == IsStart(s, j, i) /\ \A l \in j + 1 .. Len(s) : ~ IsStart(s, l, i)

\* The time stamps of ID i continue from the last one given; cur is the last ID that
\* was given out.
StampsOf(e, s) ==
  /\ \A i \in FragId, j \in 1 .. Len(s) : Latest(s, j, i) => s[j].ts = e.count[i]
  /\ e.cur = NoId => \A j \in 1 .. Len(s) : s[j].node.kind # "S"
  /\ e.cur # NoId => e.cur = e.last

Differ(s) ==
  \A j, k \in 1 .. Len(s) :
    (/\ j < k /\ s[j].node.kind = "S" /\ IsStart(s, k, s[j].node.id)
     /\ \A l \in j + 1 .. k - 1 : ~ IsStart(s, l, s[j].node.id))
    => s[j].ts # s[k].ts

StampInv == StampsOf(enc, StreamOf(enc)) /\ Differ(StreamOf(enc))

\* When no ID is in use, the one given out is not the last one.
LEMMA AnotherId ==
  ASSUME NEW e \in EncType, Resting(e), NEW i \in allocate_fragmentID(e)
  PROVE  i # e.last
<1> DEFINE N == QueueMaxSize
           After(x) == (x + N - e.last - 1) % N
<1>1. N \in Nat /\ N >= 2 /\ e.last \in 0 .. N - 1 /\ FragId = 0 .. N - 1
  BY EncFields, ConstantFacts DEF FragId, Slot
<1>2. Unused(e) = FragId
  BY DEF Unused, Resting
<1>3. \A j \in FragId : After(i) <= After(j)
  BY <1>2 DEF allocate_fragmentID
<1> HIDE DEF N
<1>4. \A a \in Nat, b \in Nat : a < b => a % b = a
  OBVIOUS
<1>5. PICK j \in FragId : After(j) = 0
  <2>1. CASE e.last + 1 < N
    <3>1. e.last + 1 \in FragId /\ (e.last + 1) + N - e.last - 1 = N
      BY <1>1, <2>1
    <3>2. N % N = 0
      BY <1>1
    <3>3. QED
      BY <3>1, <3>2
  <2>2. CASE e.last + 1 = N
    <3>1. 0 \in FragId /\ 0 + N - e.last - 1 = 0
      BY <1>1, <2>2
    <3>2. 0 % N = 0
      BY <1>1, <1>4
    <3>3. QED
      BY <3>1, <3>2
  <2>3. e.last + 1 < N \/ e.last + 1 = N
    BY <1>1
  <2> HIDE DEF After
  <2>4. QED
    BY <2>1, <2>2, <2>3
<1>6. After(e.last) = N - 1
  <2>1. e.last + N - e.last - 1 = N - 1 /\ N - 1 \in Nat /\ N - 1 < N
    BY <1>1
  <2>2. (N - 1) % N = N - 1
    BY <1>1, <1>4, <2>1
  <2>3. QED
    BY <2>1, <2>2
<1> HIDE DEF After
<1>7. QED
  BY <1>1, <1>3, <1>5, <1>6

\* One packet more.
LEMMA LongerStream ==
  ASSUME NEW s \in Seq(Packet), NEW k \in Packet
  PROVE  LET r == Append(s, k)
             n == Len(s) + 1
         IN  /\ r \in Seq(Packet) /\ Len(r) = n /\ n \in Nat /\ r[n] = k
             /\ \A j \in 1 .. n - 1 : j \in 1 .. Len(s) /\ r[j] = s[j]
             /\ \A j \in 1 .. n : j = n \/ j \in 1 .. n - 1
OBVIOUS

\* A packet that is not a start fragment leaves the time stamps.
LEMMA StampOther ==
  ASSUME NEW e, NEW f, NEW s \in Seq(Packet), NEW k \in Packet, StampsOf(e, s), Differ(s),
         k.node.kind # "S", f.cur = e.cur, f.last = e.last, f.count = e.count
  PROVE  StampsOf(f, Append(s, k)) /\ Differ(Append(s, k))
<1> DEFINE r == Append(s, k)
           n == Len(s) + 1
<1>1. /\ Len(r) = n /\ n \in Nat /\ r[n] = k
      /\ \A j \in 1 .. n - 1 : j \in 1 .. Len(s) /\ r[j] = s[j]
      /\ \A j \in 1 .. n : j = n \/ j \in 1 .. n - 1
      /\ Len(s) \in Nat
  BY LongerStream
<1>7. n = Len(s) + 1
  OBVIOUS
<1> HIDE DEF r, n
<1>2. \A i : ~ IsStart(r, n, i)
  BY <1>1 DEF IsStart
<1>3. \A i : \A j \in 1 .. n - 1 : IsStart(r, j, i) <=> IsStart(s, j, i)
  BY <1>1 DEF IsStart
<1>4. \A i, j \in 1 .. n : r[j].node.kind = "S" => j \in 1 .. n - 1 /\ s[j].node.kind = "S"
  BY <1>1
<1>5. StampsOf(f, r)
  <2>1. ASSUME NEW i \in FragId, NEW j \in 1 .. n, Latest(r, j, i) PROVE r[j].ts = f.count[i]
    <3>1. j \in 1 .. n - 1
      BY <1>1, <1>2, <2>1 DEF Latest
    <3>2. \A l \in j + 1 .. Len(s) : l \in j + 1 .. Len(r) /\ l \in 1 .. n - 1
      BY <1>1, <1>7, <3>1
    <3>3. Latest(s, j, i)
      BY <1>3, <2>1, <3>1, <3>2 DEF Latest
    <3>4. QED
      BY <1>1, <3>1, <3>3 DEF StampsOf
  <2>2. QED
    BY <1>1, <1>4, <2>1 DEF StampsOf
<1>6. Differ(r)
  <2>1. ASSUME NEW j \in 1 .. n, NEW l \in 1 .. n, j < l, r[j].node.kind = "S",
               IsStart(r, l, r[j].node.id),
               \A x \in j + 1 .. l - 1 : ~ IsStart(r, x, r[j].node.id)
        PROVE  r[j].ts # r[l].ts
    <3>1. l \in 1 .. n - 1 /\ j \in 1 .. n - 1
      BY <1>1, <1>2, <1>4, <2>1
    <3>2. \A x \in j + 1 .. l - 1 : x \in 1 .. n - 1
      BY <1>1, <3>1
    <3>3. r[j] = s[j] /\ r[l] = s[l] /\ j \in 1 .. Len(s) /\ l \in 1 .. Len(s)
      BY <1>1, <3>1
    <3>4. IsStart(s, l, s[j].node.id) /\ \A x \in j + 1 .. l - 1 : ~ IsStart(s, x, s[j].node.id)
      BY <1>3, <2>1, <3>1, <3>2, <3>3
    <3>5. QED
      BY <2>1, <3>3, <3>4 DEF Differ
  <2>2. QED
    BY <1>1, <2>1 DEF Differ
<1>8. QED
  BY <1>5, <1>6 DEF r

\* A start fragment has a time stamp that differs from the one before with its ID.
LEMMA StampStart ==
  ASSUME NEW e \in EncType, NEW f, NEW s \in Seq(Packet), NEW k \in Packet, NEW i \in FragId,
         StampsOf(e, s), Differ(s), k.node.kind = "S", k.node.id = i, i # e.last,
         k.ts = NextStamp(e, i), f.cur = i, f.last = i,
         f.count = [e.count EXCEPT ![i] = NextStamp(e, i)]
  PROVE  StampsOf(f, Append(s, k)) /\ Differ(Append(s, k))
<1> DEFINE r == Append(s, k)
           n == Len(s) + 1
<1>1. /\ Len(r) = n /\ n \in Nat /\ r[n] = k
      /\ \A j \in 1 .. n - 1 : j \in 1 .. Len(s) /\ r[j] = s[j]
      /\ \A j \in 1 .. n : j = n \/ j \in 1 .. n - 1
      /\ Len(s) \in Nat
  BY LongerStream
<1>2. n = Len(s) + 1
  OBVIOUS
<1> HIDE DEF r, n
<1>3. \A x : IsStart(r, n, x) <=> x = i
  BY <1>1 DEF IsStart
<1>4. \A x : \A j \in 1 .. n - 1 : IsStart(r, j, x) <=> IsStart(s, j, x)
  BY <1>1 DEF IsStart
<1>5. e.count \in [FragId -> 0 .. TimeStamps - 1] /\ e.count[i] \in 0 .. TimeStamps - 1
  BY EncFields
<1>6. f.count[i] = NextStamp(e, i) /\ \A x \in FragId \ {i} : f.count[x] = e.count[x]
  BY <1>5
<1>7. i # NoId
  BY ConstantFacts
<1>8. StampsOf(f, r)
  <2>1. ASSUME NEW x \in FragId, NEW j \in 1 .. n, Latest(r, j, x) PROVE r[j].ts = f.count[x]
    <3>1. CASE j = n
      <4>1. x = i
        BY <1>3, <2>1, <3>1 DEF Latest
      <4>2. QED
        BY <1>1, <1>6, <3>1, <4>1
    <3>2. CASE j \in 1 .. n - 1
      <4>1. n \in j + 1 .. Len(r)
        BY <1>1, <3>2
      <4>2. x # i
        BY <1>3, <2>1, <4>1 DEF Latest
      <4>3. \A l \in j + 1 .. Len(s) : l \in j + 1 .. Len(r) /\ l \in 1 .. n - 1
        BY <1>1, <1>2, <3>2
      <4>4. Latest(s, j, x)
        BY <1>4, <2>1, <3>2, <4>3 DEF Latest
      <4>5. s[j].ts = e.count[x] /\ r[j] = s[j]
        BY <1>1, <3>2, <4>4 DEF StampsOf
      <4>6. QED
        BY <1>6, <4>2, <4>5
    <3>3. QED
      BY <1>1, <3>1, <3>2
  <2>2. QED
    BY <1>1, <1>7, <2>1 DEF StampsOf
<1>9. ASSUME NEW j \in 1 .. n - 1, s[j].node.kind = "S", s[j].node.id = i,
             \A x \in j + 1 .. n - 1 : ~ IsStart(s, x, i)
      PROVE  s[j].ts # k.ts
  <2>1. j \in 1 .. Len(s) /\ n - 1 = Len(s)
    BY <1>1, <1>2
  <2>2. Latest(s, j, i)
    BY <1>9, <2>1 DEF Latest, IsStart
  <2>3. s[j].ts = e.count[i]
    BY <2>1, <2>2 DEF StampsOf
  <2>4. e.cur # NoId /\ e.cur # i
    BY <1>9, <2>1 DEF StampsOf
  <2>5. NextStamp(e, i) # e.count[i]
    BY <1>5, <2>4, ConstantFacts DEF NextStamp
  <2>6. QED
    BY <2>3, <2>5
<1>10. Differ(r)
  <2>1. ASSUME NEW j \in 1 .. n, NEW l \in 1 .. n, j < l, r[j].node.kind = "S",
               IsStart(r, l, r[j].node.id),
               \A x \in j + 1 .. l - 1 : ~ IsStart(r, x, r[j].node.id)
        PROVE  r[j].ts # r[l].ts
    <3>1. j \in 1 .. n - 1 /\ r[j] = s[j] /\ j \in 1 .. Len(s)
      BY <1>1, <2>1
    <3>2. CASE l = n
      <4>1. s[j].node.id = i
        BY <1>3, <2>1, <3>1, <3>2
      <4>2. \A x \in j + 1 .. n - 1 : ~ IsStart(s, x, i)
        <5>1. \A x \in j + 1 .. n - 1 : x \in 1 .. n - 1
          BY <1>1, <3>1
        <5>2. QED
          BY <1>4, <2>1, <3>1, <3>2, <4>1, <5>1
      <4>3. QED
        BY <1>1, <1>9, <2>1, <3>1, <3>2, <4>1, <4>2
    <3>3. CASE l \in 1 .. n - 1
      <4>1. \A x \in j + 1 .. l - 1 : x \in 1 .. n - 1
        BY <1>1, <3>1, <3>3
      <4>2. r[l] = s[l] /\ l \in 1 .. Len(s)
        BY <1>1, <3>3
      <4>3. IsStart(s, l, s[j].node.id) /\ \A x \in j + 1 .. l - 1 : ~ IsStart(s, x, s[j].node.id)
        BY <1>4, <2>1, <3>1, <3>3, <4>1
      <4>4. QED
        BY <2>1, <3>1, <4>2, <4>3 DEF Differ
    <3>4. QED
      BY <1>1, <3>2, <3>3
  <2>2. QED
    BY <1>1, <2>1 DEF Differ
<1>11. QED
  BY <1>8, <1>10 DEF r

\* The stream is a sequence of packets, before and after a step.
LEMMA StreamType ==
  ASSUME NEW e \in EncType
  PROVE  StreamOf(e) \in Seq(Packet)
BY EncFields DEF StreamOf

\* The fragment that follows is a packet.
LEMMA FetchedPacket ==
  ASSUME NEW e \in EncType, NEW i \in FragId, SendingId(e, i)
  PROVE  [node |-> Fetched(e), n |-> 1, ts |-> e.count[i]] \in Packet
<1>1. Fetched(e) \in Node /\ e.count[i] \in 0 .. TimeStamps - 1
  BY FetchedFacts, EncFields DEF Packable
<1>2. QED
  BY <1>1 DEF Packet

\* So is a start fragment.
LEMMA StartIsPacket ==
  ASSUME NEW e \in EncType, NEW f \in EncType, NEW i \in FragId, NEW u \in Whole, NEW o \in EncType,
         o.cur = e.cur, o.count = e.count, SendingId(f, i), f.buf[i].start = o.usable - 11
  PROVE  StartPacket(o, u, i) \in Packet /\ NextStamp(o, i) = NextStamp(e, i)
<1>1. f.buf[i] \in Buffer
  BY EncFields
<1>2. o.usable - 11 \in Nat /\ u.pdu \in Nat /\ u.plen \in Nat
  BY <1>1 DEF Buffer, Whole, Node
<1>3. StartOf(o, u, i) \in Node
  BY <1>2 DEF StartOf, Node
<1>4. e.count[i] \in 0 .. TimeStamps - 1 /\ TimeStamps \in Nat \ {0}
  BY EncFields, ConstantFacts
<1>5. NextStamp(o, i) = NextStamp(e, i)
  BY DEF NextStamp
<1>6. NextStamp(e, i) \in 0 .. TimeStamps - 1
  BY <1>4 DEF NextStamp
<1>7. QED
  BY <1>3, <1>5, <1>6 DEF StartPacket, Packet

LEMMA StampStep == EncInv /\ EncInv' /\ StampInv /\ [ENext]_evars => StampInv'
<1> SUFFICES ASSUME EncInv, EncInv', StampInv, [ENext]_evars PROVE StampInv'
  OBVIOUS
<1> DEFINE s == StreamOf(enc)
<1>1. /\ enc \in EncType /\ enc' \in EncType /\ s \in Seq(Packet)
      /\ StampsOf(enc, s) /\ Differ(s)
  BY StreamType DEF EncInv, StampInv
<1>2. CASE Quiet(enc, enc')
  <2>1. StreamOf(enc') = s /\ enc'.cur = enc.cur /\ enc'.last = enc.last /\ enc'.count = enc.count
    BY <1>2 DEF Quiet, SameRest
  <2> HIDE DEF s
  <2>2. StampsOf(enc', s)
    BY <1>1, <2>1 DEF StampsOf
  <2>3. QED
    BY <1>1, <2>1, <2>2 DEF StampInv
<1>3. CASE WholeSent(enc, enc')
  <2> HIDE DEF s
  <2>1. PICK u \in Whole :
          /\ StreamOf(enc') = Append(s, [node |-> u, n |-> 1, ts |-> 0])
          /\ enc'.cur = enc.cur /\ enc'.count = enc.count /\ enc'.last = enc.last
    BY <1>3 DEF WholeSent, s
  <2> DEFINE k == [node |-> u, n |-> 1, ts |-> 0]
  <2>2. k \in Packet /\ k.node.kind # "S"
    BY ConstantFacts DEF Packet, Whole
  <2> HIDE DEF k
  <2>3. StampsOf(enc', Append(s, k)) /\ Differ(Append(s, k))
    BY <1>1, <2>1, <2>2, StampOther
  <2>4. QED
    BY <2>1, <2>3 DEF StampInv, k
<1>4. ASSUME NEW i \in FragId, StartSent(enc, enc', i) PROVE StampInv'
  <2> HIDE DEF s
  <2>1. PICK u \in Whole, o \in EncType :
          /\ Resting(enc) /\ SendingId(enc', i) /\ i \in allocate_fragmentID(enc)
          /\ o.cur = enc.cur /\ o.count = enc.count
          /\ StreamOf(enc') = Append(s, StartPacket(o, u, i))
          /\ enc'.cur = i /\ enc'.last = i
          /\ enc'.count = [enc.count EXCEPT ![i] = NextStamp(enc, i)]
          /\ enc'.buf[i].start = o.usable - 11
    BY <1>4 DEF StartSent, s
  <2> DEFINE k == StartPacket(o, u, i)
  <2>2. k \in Packet /\ NextStamp(o, i) = NextStamp(enc, i)
    BY <1>1, <2>1, StartIsPacket
  <2>3. k.node.kind = "S" /\ k.node.id = i /\ k.ts = NextStamp(enc, i)
    BY <2>2 DEF StartPacket, StartOf
  <2>4. i # enc.last
    BY <1>1, <2>1, AnotherId
  <2> HIDE DEF k
  <2>5. StampsOf(enc', Append(s, k)) /\ Differ(Append(s, k))
    BY <1>1, <2>1, <2>2, <2>3, <2>4, StampStart
  <2>6. QED
    BY <2>1, <2>5 DEF StampInv, k
<1>5. ASSUME NEW i \in FragId, NextSent(enc, enc', i) PROVE StampInv'
  <2> DEFINE k == [node |-> Fetched(enc), n |-> 1, ts |-> enc.count[i]]
  <2>1. SendingId(enc, i) /\ StreamOf(enc') = Append(s, k)
        /\ enc'.cur = i /\ enc'.last = enc.last /\ enc'.count = enc.count
    BY <1>5 DEF NextSent
  <2>2. k \in Packet /\ k.node.kind # "S"
    BY <1>1, <2>1, FetchedPacket, FetchedFacts
  <2>3. enc.cur = i
    BY <2>1 DEF SendingId
  <2> HIDE DEF k, s
  <2>4. StampsOf(enc', Append(s, k)) /\ Differ(Append(s, k))
    BY <1>1, <2>1, <2>2, <2>3, StampOther
  <2>5. QED
    BY <2>1, <2>4 DEF StampInv
<1>6. QED
  BY <1>2, <1>3, <1>4, <1>5, StreamSteps

\* Two PDUs that use a fragment ID one after the other have different time stamps,
\* for any number of IDs and time stamps above one.
THEOREM StampsAlternate == ESpec => []TimeStampsDiffer
<1>1. EInit => StampInv
  <2> SUFFICES ASSUME EInit PROVE StampInv
    OBVIOUS
  <2>1. enc.built = <<>> /\ enc.gse = <<>> /\ enc.cur = NoId
    BY DEF EInit
  <2>2. StreamOf(enc) = <<>>
    BY <2>1 DEF StreamOf
  <2>3. \A j \in 1 .. Len(StreamOf(enc)) : FALSE
    BY <2>2
  <2>4. QED
    BY <2>1, <2>3 DEF StampInv, StampsOf, Differ
<1>2. StampInv => TimeStampsDiffer
  <2>1. Stream = StreamOf(enc)
    BY DEF Stream, StreamOf
  <2>2. QED
    BY <2>1 DEF StampInv, Differ, IsStart, TimeStampsDiffer
<1>3. EncInv /\ StampInv /\ [ENext]_evars => StampInv'
  BY EncStep, StampStep
<1>4. QED
  BY <1>1, <1>2, <1>3, EncInvariant, PTL DEF ESpec
-----------------------------------------------------------------------------
(* Runs of fragments *)

\* The remainder of every PDU being cut is as long as the CRC at least; otherwise the
\* size of the end fragment wraps (fragment.c:181).
EndsHoldCrc == \A i \in FragId : enc.buf[i].used => enc.buf[i].end < U16 - CRC

\* Packet x may come after packet y.
Continues(y, x) ==
  /\ x.node.kind \in {"M", "E"} /\ x.node.pdu = y.node.pdu /\ x.node.id = y.node.id
  /\ x.node.seq = y.node.seq + 1 /\ x.node.from = y.node.from + y.node.size
  /\ x.ts = y.ts

Begins(x) == x.node.kind \in {"W", "S"}

\* Packet x by itself.
Sound(x) ==
  /\ x.n = 1
  /\ x.node.kind = "W" => x.node.from = 0 /\ x.node.size = x.node.plen
  /\ x.node.kind = "S" => x.node.from = 0 /\ x.node.seq = 0
  /\ x.node.kind = "E" => x.node.from + x.node.size = x.node.plen

Open(x) == x.node.kind \in {"S", "M"}

Formed(s) ==
  \A k \in 1 .. Len(s) :
    /\ Sound(s[k])
    /\ IF k > 1 /\ Open(s[k - 1]) THEN Continues(s[k - 1], s[k]) ELSE Begins(s[k])

\* Packet x is the last one sent of the PDU in buffer b, which has ID i and time stamp c.
LastSent(x, b, i, c) ==
  /\ Open(x) /\ x.node.pdu = b.node.pdu /\ x.node.id = i /\ x.node.seq = b.sent - 1 /\ x.ts = c
  /\ x.node.from + x.node.size = b.start + b.middle * (b.sent - 1)

\* The last run is complete when no PDU is being sent in fragments, and otherwise it is
\* that PDU's.
EndOf(e, s) ==
  /\ Resting(e) => \A k \in 1 .. Len(s) : k = Len(s) => ~ Open(s[k])
  /\ \A i \in FragId :
       SendingId(e, i) => s # <<>> /\ LastSent(s[Len(s)], e.buf[i], i, e.count[i])

RunInv == Formed(StreamOf(enc)) /\ EndOf(enc, StreamOf(enc))

\* One packet more.
LEMMA FormedLonger ==
  ASSUME NEW s \in Seq(Packet), Formed(s), NEW x \in Packet, Sound(x),
         IF s # <<>> /\ Open(s[Len(s)]) THEN Continues(s[Len(s)], x) ELSE Begins(x)
  PROVE  Formed(Append(s, x))
<1> DEFINE r == Append(s, x)
           n == Len(s) + 1
<1>1. /\ Len(r) = n /\ n \in Nat /\ r[n] = x
      /\ \A j \in 1 .. n - 1 : j \in 1 .. Len(s) /\ r[j] = s[j]
      /\ \A j \in 1 .. n : j = n \/ j \in 1 .. n - 1
      /\ Len(s) \in Nat /\ n - 1 = Len(s)
  BY LongerStream
<1>2. s # <<>> <=> n > 1
  BY <1>1
<1> HIDE DEF r, n
<1>3. n > 1 => r[n - 1] = s[Len(s)]
  BY <1>1
<1>4. IF n > 1 /\ Open(r[n - 1]) THEN Continues(r[n - 1], x) ELSE Begins(x)
  BY <1>2, <1>3
<1>5. ASSUME NEW k \in 1 .. n - 1
      PROVE  /\ Sound(r[k])
             /\ IF k > 1 /\ Open(r[k - 1]) THEN Continues(r[k - 1], r[k]) ELSE Begins(r[k])
  <2>1. k \in 1 .. Len(s) /\ r[k] = s[k]
    BY <1>1
  <2>2. k > 1 => r[k - 1] = s[k - 1]
    BY <1>1
  <2>3. QED
    BY <2>1, <2>2 DEF Formed
<1>6. QED
  BY <1>1, <1>4, <1>5 DEF Formed, r

\* A stream never ends both ways.
LEMMA OneState ==
  ASSUME NEW e
  PROVE  /\ \A i \in FragId : ~ (Resting(e) /\ SendingId(e, i))
         /\ \A i, j \in FragId : SendingId(e, i) /\ SendingId(e, j) => i = j
<1>1. \A i \in FragId : SendingId(e, i) => e.queue.size = 1 /\ e.queue.cell[0] = i
  BY DEF SendingId
<1>2. Resting(e) => e.queue.size = 0
  BY DEF Resting
<1>3. QED
  BY <1>1, <1>2

LEMMA RunStep ==
  EncInv /\ EncInv' /\ EndsHoldCrc /\ RunInv /\ [ENext]_evars => RunInv'
<1> SUFFICES ASSUME EncInv, EncInv', EndsHoldCrc, RunInv, [ENext]_evars PROVE RunInv'
  OBVIOUS
<1> DEFINE s == StreamOf(enc)
<1>1. enc \in EncType /\ enc' \in EncType /\ s \in Seq(Packet) /\ Formed(s) /\ EndOf(enc, s)
  BY StreamType DEF EncInv, RunInv
<1> HIDE DEF s
<1>2. ASSUME NEW x \in Packet
      PROVE  Append(s, x) # <<>> /\ Len(Append(s, x)) \in Nat /\ Append(s, x)[Len(Append(s, x))] = x
  BY <1>1, LongerStream
<1>3. CASE Quiet(enc, enc')
  <2>1. /\ StreamOf(enc') = s /\ enc'.buf = enc.buf /\ enc'.queue = enc.queue
        /\ enc'.cur = enc.cur /\ enc'.count = enc.count
    BY <1>3 DEF Quiet, SameRest, s
  <2>2. Resting(enc') <=> Resting(enc)
    BY <2>1 DEF Resting
  <2>3. \E i \in FragId : TRUE
    BY EncFields, <1>1
  <2>4. Resting(enc) \/ Sending(enc)
    BY DEF EncInv
  <2>5. CASE Resting(enc)
    <3>1. \A i \in FragId : ~ SendingId(enc', i)
      BY <2>2, <2>5, OneState
    <3>2. QED
      BY <1>1, <2>1, <2>5, <3>1 DEF RunInv, EndOf
  <2>6. ASSUME NEW i \in FragId, SendingId(enc, i) PROVE RunInv'
    <3>1. ~ Resting(enc')
      BY <2>2, <2>6, OneState
    <3>2. \A j \in FragId : SendingId(enc', j) => j = i
      BY <2>1, <2>6 DEF SendingId
    <3>3. s # <<>> /\ LastSent(s[Len(s)], enc'.buf[i], i, enc'.count[i])
      BY <1>1, <2>1, <2>6 DEF EndOf
    <3>4. QED
      BY <1>1, <2>1, <3>1, <3>2, <3>3 DEF RunInv, EndOf
  <2>7. QED
    BY <2>4, <2>5, <2>6 DEF Sending
<1>4. ASSUME Resting(enc) PROVE ~ (s # <<>> /\ Open(s[Len(s)]))
  <2>1. s # <<>> => Len(s) \in 1 .. Len(s)
    BY <1>1
  <2>2. QED
    BY <1>1, <1>4, <2>1 DEF EndOf
<1>5. CASE WholeSent(enc, enc')
  <2>1. PICK u \in Whole :
          /\ Resting(enc) /\ Resting(enc')
          /\ StreamOf(enc') = Append(s, [node |-> u, n |-> 1, ts |-> 0])
    BY <1>5 DEF WholeSent, s
  <2> DEFINE x == [node |-> u, n |-> 1, ts |-> 0]
  <2>2. x \in Packet /\ Sound(x) /\ Begins(x) /\ ~ Open(x)
    BY ConstantFacts DEF Packet, Whole, Sound, Begins, Open
  <2> HIDE DEF x
  <2>3. Formed(Append(s, x))
    BY <1>1, <1>4, <2>1, <2>2, FormedLonger
  <2>4. EndOf(enc', Append(s, x))
    BY <1>2, <2>1, <2>2, OneState DEF EndOf
  <2>5. QED
    BY <2>1, <2>3, <2>4 DEF RunInv, x
<1>6. ASSUME NEW i \in FragId, StartSent(enc, enc', i) PROVE RunInv'
  <2>1. PICK u \in Whole, o \in EncType :
          /\ Resting(enc) /\ SendingId(enc', i)
          /\ o.cur = enc.cur /\ o.count = enc.count
          /\ StreamOf(enc') = Append(s, StartPacket(o, u, i))
          /\ enc'.count = [enc.count EXCEPT ![i] = NextStamp(enc, i)]
          /\ enc'.buf[i].node = u /\ enc'.buf[i].sent = 1 /\ enc'.buf[i].start = o.usable - 11
    BY <1>6 DEF StartSent, s
  <2> DEFINE x == StartPacket(o, u, i)
             b == enc'.buf[i]
  <2>2. x \in Packet /\ NextStamp(o, i) = NextStamp(enc, i)
    BY <1>1, <2>1, StartIsPacket
  <2>3. Sound(x) /\ Begins(x) /\ Open(x)
    BY DEF StartPacket, StartOf, Sound, Begins, Open
  <2>4. enc'.count[i] = NextStamp(enc, i)
    BY <1>1, <2>1, EncFields
  <2>5. b \in Buffer
    BY <1>1, EncFields
  <2>6. b.start \in Nat /\ b.middle \in Nat
    BY <2>5 DEF Buffer
  <2>7. /\ x.node.pdu = u.pdu /\ x.node.id = i /\ x.node.seq = 0 /\ x.ts = enc'.count[i]
        /\ x.node.from = 0 /\ x.node.size = b.start
    BY <2>1, <2>2, <2>4 DEF StartPacket, StartOf
  <2>8. b.node = u /\ b.sent = 1
    BY <2>1
  <2> HIDE DEF x, b
  <2>9. x.node.from + x.node.size = b.start + b.middle * (b.sent - 1)
    BY <2>6, <2>7, <2>8
  <2>10. LastSent(x, b, i, enc'.count[i])
    BY <2>3, <2>7, <2>8, <2>9 DEF LastSent
  <2>11. Formed(Append(s, x))
    BY <1>1, <1>4, <2>1, <2>2, <2>3, FormedLonger
  <2>12. EndOf(enc', Append(s, x))
    <3>1. ~ Resting(enc') /\ \A j \in FragId : SendingId(enc', j) => j = i
      BY <2>1, OneState
    <3>2. QED
      BY <1>2, <2>2, <2>10, <3>1 DEF EndOf, b
  <2>13. QED
    BY <2>1, <2>11, <2>12 DEF RunInv, x
<1>7. ASSUME NEW i \in FragId, NextSent(enc, enc', i) PROVE RunInv'
  <2> DEFINE x == [node |-> Fetched(enc), n |-> 1, ts |-> enc.count[i]]
             b == enc.buf[i]
             c == enc'.buf[i]
             y == s[Len(s)]
  <2>1. /\ SendingId(enc, i) /\ StreamOf(enc') = Append(s, x) /\ enc'.count = enc.count
        /\ IF x.node.kind = "E" THEN Resting(enc') ELSE SendingId(enc', i) /\ OneMoreSent(b, c)
    BY <1>7 DEF NextSent, s
  <2>2. x \in Packet
    BY <1>1, <2>1, FetchedPacket
  <2>3. /\ x.node.kind \in {"M", "E"} /\ x.node.pdu = b.node.pdu /\ x.node.plen = b.node.plen
        /\ x.node.id = i /\ x.node.seq = b.sent /\ x.n = 1 /\ x.ts = enc.count[i]
        /\ x.node.from = b.start + b.middle * (b.sent - 1)
        /\ x.node.kind = (IF b.sent = b.total - 1 THEN "E" ELSE "M")
        /\ x.node.size = (IF b.sent = b.total - 1 THEN b.end ELSE b.middle)
    BY <1>1, <2>1, FetchedFacts
  <2>4. b \in Buffer /\ Cut(b)
    BY <1>1, <2>1, EncFields DEF SendingId
  <2>5. b.end < U16 - CRC
    BY <2>4 DEF EndsHoldCrc, Cut
  <2>6. s # <<>> /\ LastSent(y, b, i, enc.count[i])
    BY <1>1, <2>1 DEF EndOf
  <2> HIDE DEF x, b, c, y
  <2>7. /\ b.sent \in Nat /\ b.total \in Nat /\ b.start \in Nat /\ b.middle \in Nat
        /\ b.end \in Nat /\ b.sent - 1 \in Int
    BY <2>4 DEF Buffer
  <2>8. x.node.kind = "E" => x.node.from + x.node.size = x.node.plen
    <3>1. SUFFICES ASSUME x.node.kind = "E" PROVE x.node.from + x.node.size = x.node.plen
      OBVIOUS
    <3>2. b.sent = b.total - 1
      BY <2>3, <3>1
    <3>3. b.sent - 1 = b.total - 2
      BY <2>7, <3>2
    <3>4. b.start + b.middle * (b.total - 2) + b.end = b.node.plen
      BY <2>4, <2>5 DEF Cut
    <3>5. x.node.from = b.start + b.middle * (b.total - 2) /\ x.node.size = b.end
      BY <2>3, <3>2, <3>3
    <3>6. QED
      BY <2>3, <3>4, <3>5
  <2>9. Sound(x)
    BY <2>3, <2>8 DEF Sound
  <2>10. Open(y) /\ Continues(y, x)
    <3>1. y.node.seq = b.sent - 1 /\ (b.sent - 1) + 1 = b.sent
      BY <2>6, <2>7 DEF LastSent
    <3>2. QED
      BY <2>3, <2>6, <3>1 DEF LastSent, Continues
  <2>11. Formed(Append(s, x))
    BY <1>1, <2>2, <2>6, <2>9, <2>10, FormedLonger DEF y
  <2>12. CASE x.node.kind = "E"
    <3>1. Resting(enc') /\ ~ Open(x)
      BY <2>1, <2>12 DEF Open
    <3>2. EndOf(enc', Append(s, x))
      BY <1>2, <2>2, <3>1, OneState DEF EndOf
    <3>3. QED
      BY <2>1, <2>11, <3>2 DEF RunInv
  <2>13. CASE x.node.kind = "M"
    <3>1. SendingId(enc', i) /\ OneMoreSent(b, c)
      BY <2>1, <2>13
    <3>2. c.sent - 1 = b.sent /\ c.node = b.node /\ c.start = b.start /\ c.middle = b.middle
      BY <2>7, <3>1 DEF OneMoreSent
    <3>3. x.node.size = b.middle
      BY <2>3, <2>13
    <3>4. x.node.from + x.node.size = c.start + c.middle * (c.sent - 1)
      <4>1. \A m, k \in Int : m * (k - 1) + m = m * k
        OBVIOUS
      <4>2. b.middle * (b.sent - 1) + b.middle = b.middle * b.sent /\ b.middle * (b.sent - 1) \in Int
        BY <2>7, <4>1
      <4>3. QED
        BY <2>3, <2>7, <3>2, <3>3, <4>2
    <3>5. LastSent(x, c, i, enc'.count[i])
      BY <2>1, <2>3, <2>13, <3>2, <3>4 DEF LastSent, Open
    <3>6. ~ Resting(enc') /\ \A j \in FragId : SendingId(enc', j) => j = i
      BY <3>1, OneState
    <3>7. EndOf(enc', Append(s, x))
      BY <1>2, <2>2, <3>5, <3>6 DEF EndOf, c
    <3>8. QED
      BY <2>1, <2>11, <3>7 DEF RunInv
  <2>14. QED
    BY <2>3, <2>12, <2>13
<1>8. QED
  BY <1>3, <1>5, <1>6, <1>7, StreamSteps

\* What is sent are whole PDUs and runs of fragments that carry a PDU from its first to
\* its last byte, as long as no remainder is shorter than the CRC.
THEOREM RunsAreWhole == ESpec /\ []EndsHoldCrc => []StreamWellFormed
<1>1. EInit => RunInv
  <2> SUFFICES ASSUME EInit PROVE RunInv
    OBVIOUS
  <2>1. /\ enc.built = <<>> /\ enc.gse = <<>> /\ enc.queue = InitCircleQueue
    BY DEF EInit
  <2>2. StreamOf(enc) = <<>>
    BY <2>1 DEF StreamOf
  <2>3. \A j \in 1 .. Len(StreamOf(enc)) : FALSE
    BY <2>2
  <2>4. \A i \in FragId : ~ SendingId(enc, i)
    BY <2>1 DEF InitCircleQueue, SendingId
  <2>5. QED
    BY <2>3, <2>4 DEF RunInv, Formed, EndOf
<1>2. RunInv => StreamWellFormed
  <2>1. Stream = StreamOf(enc)
    BY DEF Stream, StreamOf
  <2>2. QED
    BY <2>1 DEF RunInv, Formed, Sound, Open, Continues, Begins, StreamWellFormed
<1>3. QED
  BY <1>1, <1>2, EncInvariant, RunStep, PTL DEF ESpec
-----------------------------------------------------------------------------
(* The length of a frame *)

\* A set of numbers has a least one.
LEMMA LeastNumber ==
  ASSUME NEW T \in SUBSET Nat, T # {}
  PROVE  \E x \in T : \A y \in T : x <= y
<1> DEFINE R == {ss \in Nat \X Nat : ss[1] < ss[2]}
<1>1. IsWellFoundedOn(R, Nat)
  BY NatLessThanWellFounded, Zenon DEF OpToRel
<1> HIDE DEF R
<1>2. PICK x \in T : \A y \in T : ~ (<<y, x>> \in R)
  BY <1>1, WFMin
<1>3. ASSUME NEW y \in T PROVE x <= y
  <2>1. <<y, x>> \notin R /\ x \in Nat /\ y \in Nat
    BY <1>2
  <2>2. ~ (y < x)
    BY <2>1 DEF R
  <2>3. QED
    BY <2>1, <2>2
<1>4. QED
  BY <1>3

\* The length of packet k of s, and f[k], the length of its first k packets.
LengthAt(s, k) == gse_total_length(s[k].node, s[k].n)

Adds(f, s) ==
  f = [k \in 0 .. Len(s) |-> IF k = 0 THEN 0 ELSE f[k - 1] + LengthAt(s, k)]

SumInv == \E f : Adds(f, enc.gse) /\ f[Len(enc.gse)] = enc.used

\* The lengths are determined by the packets.
LEMMA AddsOnce ==
  ASSUME NEW s \in Seq(Packet), NEW f, NEW g, Adds(f, s), Adds(g, s)
  PROVE  f = g
<1> DEFINE N == Len(s)
           Bad == {k \in 0 .. N : f[k] # g[k]}
<1>1. /\ DOMAIN f = 0 .. N /\ DOMAIN g = 0 .. N
      /\ f = [k \in 0 .. N |-> f[k]] /\ g = [k \in 0 .. N |-> g[k]]
  BY Zenon DEF Adds
<1>2. \A k \in 0 .. N : /\ f[k] = IF k = 0 THEN 0 ELSE f[k - 1] + LengthAt(s, k)
                        /\ g[k] = IF k = 0 THEN 0 ELSE g[k - 1] + LengthAt(s, k)
  BY Zenon DEF Adds
<1>3. N \in Nat
  OBVIOUS
<1>4. Bad = {}
  <2> SUFFICES ASSUME Bad # {} PROVE FALSE
    OBVIOUS
  <2>1. Bad \in SUBSET Nat
    OBVIOUS
  <2>2. PICK n \in Bad : \A y \in Bad : n <= y
    BY <2>1, LeastNumber
  <2>3. n \in 0 .. N /\ f[n] # g[n]
    OBVIOUS
  <2> HIDE DEF N
  <2>4. n # 0
    BY <1>2, <2>3
  <2>5. n - 1 \in 0 .. N /\ n - 1 < n /\ n - 1 \in Int /\ n \in Int
    BY <1>3, <2>3, <2>4
  <2>6. n - 1 \notin Bad
    BY <2>2, <2>5
  <2>7. f[n - 1] = g[n - 1]
    BY <2>5, <2>6
  <2>8. QED
    BY <1>2, <2>3, <2>4, <2>7
<1> HIDE DEF N
<1>5. \A k \in 0 .. N : f[k] = g[k]
  BY <1>4
<1>6. QED
  BY <1>1, <1>5

\* One packet more.
LEMMA AddsLonger ==
  ASSUME NEW s \in Seq(Packet), NEW x \in Packet, NEW f, Adds(f, s)
  PROVE  \E h : /\ Adds(h, Append(s, x))
                /\ h[Len(Append(s, x))] = f[Len(s)] + gse_total_length(x.node, x.n)
<1> DEFINE r == Append(s, x)
           n == Len(s) + 1
           L == gse_total_length(x.node, x.n)
<1>1. /\ Len(r) = n /\ n \in Nat /\ r[n] = x
      /\ \A j \in 1 .. n - 1 : j \in 1 .. Len(s) /\ r[j] = s[j]
      /\ Len(s) \in Nat /\ n - 1 = Len(s) /\ n # 0
  BY LongerStream
<1> HIDE DEF r, n
<1>2. \A k \in 0 .. n - 1 : f[k] = IF k = 0 THEN 0 ELSE f[k - 1] + LengthAt(s, k)
  <2>1. \A k \in 0 .. Len(s) : f[k] = IF k = 0 THEN 0 ELSE f[k - 1] + LengthAt(s, k)
    BY Zenon DEF Adds
  <2>2. QED
    BY <1>1, <2>1
<1>3. LengthAt(r, n) = L /\ \A k \in 1 .. n - 1 : LengthAt(r, k) = LengthAt(s, k)
  BY <1>1 DEF LengthAt
<1> HIDE DEF L
<1> DEFINE h == [k \in 0 .. n |-> IF k = n THEN f[n - 1] + L ELSE f[k]]
<1>4. h[n] = f[n - 1] + L /\ \A k \in 0 .. n - 1 : h[k] = f[k]
  BY <1>1
<1>5. DOMAIN h = 0 .. n /\ h = [k \in 0 .. n |-> h[k]]
  OBVIOUS
<1> HIDE DEF h
<1>6. ASSUME NEW k \in 0 .. n PROVE h[k] = IF k = 0 THEN 0 ELSE h[k - 1] + LengthAt(r, k)
  <2>1. CASE k = n
    <3>1. n - 1 \in 0 .. n - 1
      BY <1>1
    <3>2. QED
      BY <1>1, <1>3, <1>4, <2>1, <3>1
  <2>2. CASE k = 0
    <3>1. 0 \in 0 .. n - 1
      BY <1>1
    <3>2. f[0] = 0
      BY <1>2, <3>1
    <3>3. QED
      BY <1>4, <2>2, <3>1, <3>2
  <2>3. CASE k # n /\ k # 0
    <3>1. k \in 1 .. n - 1 /\ k \in 0 .. n - 1 /\ k - 1 \in 0 .. n - 1
      BY <1>1, <2>3
    <3>2. h[k] = f[k - 1] + LengthAt(s, k)
      BY <1>2, <1>4, <2>3, <3>1
    <3>3. QED
      BY <1>3, <1>4, <2>3, <3>1, <3>2
  <2>4. QED
    BY <2>1, <2>2, <2>3
<1>7. [k \in 0 .. n |-> h[k]] = [k \in 0 .. n |-> IF k = 0 THEN 0 ELSE h[k - 1] + LengthAt(r, k)]
  BY <1>6
<1>8. Adds(h, r)
  BY <1>1, <1>5, <1>7, Zenon DEF Adds
<1>9. QED
  BY <1>1, <1>4, <1>8 DEF r, L

\* What a step does to the frame: nothing, or one packet more, or it is finished.
LEMMA FrameLeaves ==
  ASSUME NEW e \in EncType, NEW g, NEW k, NEW f, Receives(e, g, k),
         Leaves(g, f) \/ f = make_frame(g)
  PROVE  \/ f.gse = <<>> /\ f.used = 0
         \/ /\ k \in Packet /\ f.gse = Append(e.gse, k)
            /\ f.used = e.used + gse_total_length(k.node, k.n)
<1>1. /\ g \in EncType /\ g.gse = Append(e.gse, k) /\ k \in Packet /\ e.gse \in Seq(Packet)
      /\ g.used = e.used + gse_total_length(k.node, k.n)
  BY EncFields DEF Receives
<1>2. g.gse # <<>>
  BY <1>1
<1>3. g.used <= g.max
  BY ReceivesFits
<1>4. CASE f = make_frame(g)
  BY <1>1, <1>2, <1>3, <1>4, MakeFrameFacts DEF Closed
<1>5. CASE f = g
  BY <1>1, <1>5
<1>6. QED
  BY <1>4, <1>5 DEF Leaves

LEMMA FrameSteps ==
  ASSUME EncInv, [ENext]_evars
  PROVE  \/ enc'.gse = enc.gse /\ enc'.used = enc.used
         \/ enc'.gse = <<>> /\ enc'.used = 0
         \/ \E k \in Packet : /\ enc'.gse = Append(enc.gse, k)
                              /\ enc'.used = enc.used + gse_total_length(k.node, k.n)
<1>1. enc \in EncType /\ (Closed(enc) \/ InUse(enc)) /\ ring \in Seq(Whole)
  BY DEF EncInv
<1>2. CASE enqueue_encap_ring \/ UNCHANGED evars
  BY <1>2 DEF enqueue_encap_ring, evars
<1>3. CASE DrainFragment
  <2>1. Fetchable(enc) /\ encapsulate_isl_bb(Taken(enc), Fetched(enc))
    BY <1>3 DEF DrainFragment
  <2>2. PICK i \in FragId : SendingId(enc, i)
    BY <2>1, NothingToFetch DEF EncInv, Sending
  <2> DEFINE k == [node |-> Fetched(enc), n |-> 1, ts |-> enc.count[i]]
  <2>3. \E g : /\ Receives(enc, g, k) /\ Leaves(g, enc')
               /\ g.cur = i /\ g.count = enc.count /\ g.last = enc.last
    BY <1>1, <2>1, <2>2, DrainEffect
  <2> HIDE DEF k
  <2>4. PICK g : Receives(enc, g, k) /\ Leaves(g, enc')
    BY <2>3
  <2>5. QED
    BY <1>1, <2>4, FrameLeaves
<1>4. CASE EncapsulateWhole
  <2>1. Resting(enc)
    BY <1>4, ToFetch DEF EncapsulateWhole, EncInv, Sending
  <2> DEFINE u == Head(ring)
  <2>2. u \in Whole /\ encapsulate_isl_bb(enc, u)
    BY <1>1, <1>4 DEF EncapsulateWhole
  <2> HIDE DEF u
  <2>3. Packs(enc, u, enc') \/ \E i \in FragId : Cuts(enc, u, enc', i)
    BY <1>1, <2>1, <2>2, WholeEffect
  <2>4. PICK k, g : Receives(enc, g, k) /\ (Leaves(g, enc') \/ enc' = make_frame(g))
    <3>1. CASE Packs(enc, u, enc')
      BY <3>1 DEF Packs
    <3>2. ASSUME NEW i \in FragId, Cuts(enc, u, enc', i)
          PROVE  \E k, g : Receives(enc, g, k) /\ enc' = make_frame(g)
      BY <3>2 DEF Cuts
    <3>3. QED
      BY <2>3, <3>1, <3>2
  <2>5. QED
    BY <1>1, <2>4, FrameLeaves
<1>5. CASE Idle
  <2>1. enc' = force_send(enc) \/ enc' = enc
    BY <1>5 DEF Idle
  <2>2. CASE enc' = force_send(enc)
    <3>1. Closed(enc')
      BY <1>1, <2>2, ForceEffect
    <3>2. QED
      BY <3>1 DEF Closed
  <2>3. QED
    BY <2>1, <2>2
<1>6. CASE snd_bbframe_thread
  <2>1. enc' = [enc EXCEPT !.out = @ - 1] /\ enc.out > 0
    BY <1>6 DEF snd_bbframe_thread
  <2>2. QED
    BY <1>1, <2>1, SentFrame
<1>7. QED
  BY <1>2, <1>3, <1>4, <1>5, <1>6 DEF ENext, encapsulate_thread

\* A frame without packets has length 0.
LEMMA NoLength ==
  ASSUME NEW e, e.gse = <<>>, e.used = 0
  PROVE  \E f : Adds(f, e.gse) /\ f[Len(e.gse)] = e.used
<1> DEFINE f == [k \in 0 .. 0 |-> 0]
<1>1. Len(<<>>) = 0
  OBVIOUS
<1>2. Adds(f, <<>>)
  BY <1>1 DEF Adds
<1>3. f[0] = 0
  OBVIOUS
<1>4. QED
  BY <1>1, <1>2, <1>3

\* The length of a frame is that of the packets in it.
THEOREM LengthsAddUp == ESpec => []UsedIsContents
<1>1. EInit => SumInv
  <2> SUFFICES ASSUME EInit PROVE SumInv
    OBVIOUS
  <2>1. enc.gse = <<>> /\ enc.used = 0
    BY DEF EInit
  <2>2. QED
    BY <2>1, NoLength DEF SumInv
<1>2. EncInv /\ SumInv /\ [ENext]_evars => SumInv'
  <2> SUFFICES ASSUME EncInv, SumInv, [ENext]_evars PROVE SumInv'
    OBVIOUS
  <2>1. enc.gse \in Seq(Packet)
    BY EncFields DEF EncInv
  <2>2. PICK f : Adds(f, enc.gse) /\ f[Len(enc.gse)] = enc.used
    BY DEF SumInv
  <2>3. CASE enc'.gse = enc.gse /\ enc'.used = enc.used
    BY <2>2, <2>3 DEF SumInv, Adds, LengthAt
  <2>4. CASE enc'.gse = <<>> /\ enc'.used = 0
    BY <2>4, NoLength DEF SumInv
  <2>5. ASSUME NEW k \in Packet, enc'.gse = Append(enc.gse, k),
               enc'.used = enc.used + gse_total_length(k.node, k.n)
        PROVE  SumInv'
    <3>1. PICK h : /\ Adds(h, Append(enc.gse, k))
                   /\ h[Len(Append(enc.gse, k))] = f[Len(enc.gse)] + gse_total_length(k.node, k.n)
      BY <2>1, <2>2, AddsLonger
    <3>2. h[Len(enc'.gse)] = enc'.used
      BY <2>2, <2>5, <3>1
    <3>3. QED
      BY <2>5, <3>1, <3>2 DEF SumInv
  <2>6. QED
    BY <2>3, <2>4, <2>5, FrameSteps
<1>3. EncInv /\ SumInv => UsedIsContents
  <2> SUFFICES ASSUME EncInv, SumInv PROVE UsedIsContents
    OBVIOUS
  <2>1. enc.gse \in Seq(Packet)
    BY EncFields DEF EncInv
  <2>2. PICK f : Adds(f, enc.gse) /\ f[Len(enc.gse)] = enc.used
    BY DEF SumInv
  <2> DEFINE sum == CHOOSE g : Adds(g, enc.gse)
  <2>3. Adds(sum, enc.gse)
    BY <2>2
  <2>4. sum[Len(enc.gse)] = enc.used
    BY <2>1, <2>2, <2>3, AddsOnce
  <2>5. QED
    BY <2>4 DEF UsedIsContents, Adds, LengthAt
<1>4. QED
  BY <1>1, <1>2, <1>3, EncInvariant, PTL DEF ESpec
=============================================================================
