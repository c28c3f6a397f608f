---------------------------- MODULE Encapsulator ----------------------------
(***************************************************************************)
(* The encapsulation thread's work on ring 1 (encapsulate.c,               *)
(* encapsulate_gse.c, encapsulate_frame.c, fragment.c): PDUs received on   *)
(* port 1 are packed as GSE packets into BBFrames.  A PDU that does not    *)
(* fit in what is left of the frame is cut into fragments: the first fills *)
(* the frame, the others wait in fragment_buffer under a fragment ID and   *)
(* are fetched before the next PDU is dequeued.  A finished frame is       *)
(* copied to an mbuf of its own for the sending thread, and the mbufs of   *)
(* the PDUs that end in it are given back.                                 *)
(*                                                                         *)
(* Every PDU is given the broadcast address by read_enapsulate_buffer, so  *)
(* no GSE packet carries a label, and all use the configured modcod, whose *)
(* payload is Payload.                                                     *)
(***************************************************************************)
EXTENDS CircularQueue, FiniteSets

CONSTANTS
  MaxPdus,           \* bound: how many PDUs arrive
  PduSize,           \* the data lengths of the mbufs that arrive
  Payload,           \* map_modcod_payload: 7264 for modcod 28 of base.conf
  padding_threshold, \* 16 in base.conf
  GSE_MAX_SIZE,      \* 4095
  TimeStamps,        \* 8192: the time stamp counters wrap here
  IdleLoops,         \* 100: empty polls of the ring before a frame is forced out
  EncapPool          \* mbufs of encap_pktmbuf_pool: 128000

S_HEADER == 7     \* GSE_HEADER_LENGTH_FRAGMENT_PDU_S2, for broadcast
M_HEADER == 11    \* GSE_HEADER_LENGTH_FRAGMENT_PDU_M1
SEQ_EXT == 4      \* the extension header with time stamp and sequence number
CRC == 4
U16 == 65536
NoId == -1

ASSUME EncapsulatorAssumption ==
  /\ {MaxPdus, Payload, padding_threshold, GSE_MAX_SIZE} \subseteq Nat
  /\ PduSize \subseteq 1 .. U16 - 1
  /\ {IdleLoops, EncapPool} \subseteq Nat \ {0} /\ TimeStamps \in Nat \ {0, 1}
  /\ padding_threshold >= M_HEADER + SEQ_EXT + 1
  /\ Payload \in 4 * padding_threshold .. U16 - 1

Pdu == 1 .. MaxPdus
FragId == Slot          \* FRAGMENT_MAX_NUM = QueueMaxSize = 256

VARIABLES
  arrived,   \* the number of PDUs that arrived; PDU p is in the p-th mbuf
  ring,      \* encap_ring[1]
  idle,      \* loop_count[1]
  enc        \* the encapsulator: encap_param[1], frame_payload[1] and statics

evars == <<arrived, ring, idle, enc>>

-----------------------------------------------------------------------------
(* Nodes and packets *)

\* read_enapsulate_buffer: the node of a whole PDU.
WholeNode(p, n) ==
  [pdu |-> p, plen |-> n, size |-> n, from |-> 0, kind |-> "W", id |-> NoId, seq |-> 0]

\* The bytes of the GSE header of a packet with n copies of u in its PDU group:
\* fixed header and protocol type, the fragment ID of a fragment and the total
\* length of a start fragment.  Only a group of one PDU is a fragment.
Header(u, n) ==
  4 + (IF n = 1 /\ u.kind # "W" THEN 1 ELSE 0) + (IF n = 1 /\ u.kind = "S" THEN 2 ELSE 0)

\* calc_datafield_length: the PDUs, each with a length field when there are
\* several, the CRC of an end fragment, and the extension headers (a sequence
\* number per fragment, a PDU_CONCAT header for two whole PDUs).
Datafield(u, n) ==
  (IF n = 1 THEN u.size + (IF u.kind = "E" THEN CRC ELSE 0) ELSE n * (u.size + 2))
    + (IF u.kind # "W" THEN n * SEQ_EXT ELSE IF n = 2 THEN 2 ELSE 0)

gse_total_length(u, n) == (Header(u, n) + Datafield(u, n)) % U16

-----------------------------------------------------------------------------
(* The frame under construction *)

\* init_frame_payload, for a frame that is not in use.
Opened(e) ==
  IF e.max = 0 THEN [e EXCEPT !.max = Payload, !.used = 0, !.usable = Payload] ELSE e

\* Mutant of Stamped: the counter never advances.
StampedOnce(e, u) == IF u.kind = "W" THEN e ELSE [e EXCEPT !.cur = u.id]

\* update_pdu_group: a fragment whose ID differs from the last one seen begins
\* a new time stamp of its ID; the very first fragment does not.
Stamped(e, u) ==
  IF u.kind = "W" THEN e
  ELSE LET c == IF e.cur \in {NoId, u.id} THEN e.count[u.id] ELSE e.count[u.id] + 1
       IN  [e EXCEPT !.cur = u.id, !.count[u.id] = IF c >= TimeStamps THEN 0 ELSE c]

\* Mutant of Grouped: the frame is charged for the data field only.
GroupedWithoutHeader(e, u, n) ==
  LET len == Datafield(u, n)
  IN  [e EXCEPT !.usable = (@ + U16 - len) % U16, !.used = (@ + len) % U16,
                !.gse = Append(@, [node |-> u, n |-> n,
                                   ts |-> IF u.kind = "W" THEN 0 ELSE e.count[u.id]])]

\* update_gse_group: the PDU group with n copies of u becomes a GSE packet.
Grouped(e, u, n) ==
  LET len == gse_total_length(u, n)
  IN  [e EXCEPT !.usable = (@ + U16 - len) % U16, !.used = (@ + len) % U16,
                !.gse = Append(@, [node |-> u, n |-> n,
                                   ts |-> IF u.kind = "W" THEN 0 ELSE e.count[u.id]])]

\* Mutant of Frees: every fragment gives the mbuf back.
FreesWithFragments(g, p) == Cardinality({k \in DOMAIN g : g[k].node.pdu = p})

\* write_codeblock frees the mbuf of a whole PDU and of a PDU whose end fragment
\* is in the frame, once per copy.
Frees(g, p) ==
  Cardinality({k \in (DOMAIN g) \X (1 .. 2) :
                 /\ g[k[1]].node.pdu = p
                 /\ g[k[1]].node.kind \in {"W", "E"}
                 /\ k[2] <= g[k[1]].n})

\* make_frame: encapsulate_frame refuses a frame without packets or with more
\* data than payload, before anything is freed; write_codeblock drops the frame
\* when the pool of frame mbufs is empty, after everything is freed.  The frame
\* is closed in every case.
make_frame(e) ==
  LET ok == e.gse # <<>> /\ e.used <= e.max
  IN  [e EXCEPT !.max = 0, !.used = 0, !.usable = 0, !.gse = <<>>,
                !.freed = IF ok THEN [p \in Pdu |-> @[p] + Frees(e.gse, p)] ELSE @,
                !.built = IF ok THEN @ \o e.gse ELSE @,
                !.out   = IF ok /\ @ < EncapPool THEN @ + 1 ELSE @]

\* Mutant of force_send: a frame with a single packet is kept waiting.
force_send_Several(e) == IF Len(e.gse) > 1 THEN make_frame(e) ELSE e

\* force_send; the PDU group it adds first is empty.
force_send(e) == IF e.gse # <<>> THEN make_frame(e) ELSE e

-----------------------------------------------------------------------------
(* Fragmentation *)

Unused(e) == {i \in FragId : ~ e.buf[i].used}

\* The first unused ID after the last one given out, cyclically, as a set that
\* is empty when there is none.
allocate_fragmentID(e) ==
  LET After(i) == (i + QueueMaxSize - e.last - 1) % QueueMaxSize
  IN  {i \in Unused(e) : \A j \in Unused(e) : After(i) <= After(j)}

MiddleSize ==
  (IF Payload <= GSE_MAX_SIZE THEN Payload ELSE Payload \div 2) - M_HEADER - SEQ_EXT

\* What a start fragment that fills the frame can carry (the usable payload of a
\* frame without packets is its maximum).
StartSize(e) == e.usable - S_HEADER - SEQ_EXT

\* Mutant of Remaining: the CRC is forgotten.
RemainingWithoutCrc(e, u) == u.size - StartSize(e)

\* The PDU with its CRC, without the start fragment.
Remaining(e, u) == u.size + CRC - StartSize(e)

\* run_fragment's record for u.  end_size is kept without the CRC, in 16 bits.
FragmentBuffer(e, u) ==
  LET end == Remaining(e, u) % MiddleSize
  IN  [used |-> TRUE, node |-> u, sent |-> 0, start |-> StartSize(e), middle |-> MiddleSize,
       end |-> (end + U16 - CRC) % U16,
       total |-> Remaining(e, u) \div MiddleSize + (IF end > 0 THEN 1 ELSE 0) + 1]

\* The encapsulator after u is cut, as a set of one state; nothing happens when
\* no ID is unused.
do_fragment(e, u) ==
  IF Unused(e) = {} THEN {e}
  ELSE {[e EXCEPT !.last = i, !.buf[i] = FragmentBuffer(e, u), !.queue = Push(@, i)] :
          i \in allocate_fragmentID(e)}

\* fetch_pdu_fragment finds a fragment: the ID at the head of the queue is a
\* valid one, in use, and not all its fragments are sent.
Fetchable(e) ==
  LET i == GetElement(e.queue, 0)
  IN  i \in FragId /\ e.buf[i].used /\ e.buf[i].sent < e.buf[i].total

\* The fragment it returns ...
Fetched(e) ==
  LET i == GetElement(e.queue, 0)
      b == e.buf[i]
      kind == IF b.sent = 0 THEN "S" ELSE IF b.sent = b.total - 1 THEN "E" ELSE "M"
  IN  [pdu |-> b.node.pdu, plen |-> b.node.plen, kind |-> kind, id |-> i, seq |-> b.sent,
       size |-> CASE kind = "S" -> b.start [] kind = "M" -> b.middle [] kind = "E" -> b.end,
       from |-> b.node.from + (IF b.sent = 0 THEN 0 ELSE b.start + b.middle * (b.sent - 1))]

\* ... and what it leaves behind: the ID is given up with the last fragment.
Taken(e) ==
  LET i == GetElement(e.queue, 0)
      b == e.buf[i]
  IN  IF b.sent + 1 >= b.total
      THEN [e EXCEPT !.buf[i].sent = @ + 1, !.buf[i].used = FALSE,
                     !.queue = Pop(SetElement(@, 0, -1))]
      ELSE [e EXCEPT !.buf[i].sent = @ + 1]

\* fragment_process: cut u, put a fetched fragment in the frame and send it.
\* When nothing can be fetched, u itself stays in using_pdu.
fragment_process(e, u) ==
  \E f \in do_fragment(e, u) :
    \E v \in {IF Fetchable(f) THEN Fetched(f) ELSE u},
       g \in {IF Fetchable(f) THEN Taken(f) ELSE f} :
      \E h \in {Grouped(Stamped(g, v), v, 1)} : enc' = make_frame(h)

-----------------------------------------------------------------------------
(* encapsulate_isl_bb, for the encapsulator in state e and a whole PDU or a  *)
(* fragment u.  o is e with the frame opened.                                *)

\* Mutant of PackWhole: a full frame is not sent.
PackWholeAndWait(o, u) ==
  /\ o.usable >= gse_total_length(u, 1)
  /\ enc' = Grouped(o, u, 1)

\* The packet fits; a frame left with less than the padding threshold is sent.
PackWhole(o, u) ==
  /\ o.usable >= gse_total_length(u, 1)
  /\ \E g \in {Grouped(o, u, 1)} :
       enc' = IF g.usable < padding_threshold THEN make_frame(g) ELSE g

\* Mutant of PackPart: the frame is sent without a part of u, which is lost.
PackPartLosesPdu(o, u) ==
  /\ o.usable < gse_total_length(u, 1)
  /\ enc' = make_frame(o)

\* It does not: u is cut.  A frame already below the padding threshold is sent
\* first; update_pdu_group then runs a second time, so that the PDU group holds
\* u twice.
PackPart(o, u) ==
  /\ o.usable < gse_total_length(u, 1)
  /\ \E r \in {IF o.usable < padding_threshold THEN Opened(make_frame(o)) ELSE o} :
       IF o.usable < padding_threshold /\ r.usable >= gse_total_length(u, 2)
       THEN enc' = Grouped(r, u, 2)
       ELSE fragment_process(r, u)

encapsulate_isl_bb(e, u) ==
  \E o \in {Stamped(Opened(e), u)} : PackWhole(o, u) \/ PackPart(o, u)

-----------------------------------------------------------------------------
(* The threads *)

\* A buffer no ID uses, as init_encap_mem leaves it.
FreeBuffer ==
  [used |-> FALSE, node |-> WholeNode(0, 0), sent |-> 0, start |-> 0, middle |-> 0,
   end |-> 0, total |-> 0]

EInit ==
  /\ arrived = 0
  /\ ring = <<>>
  /\ idle = 0
  /\ enc = [max |-> 0, used |-> 0, usable |-> 0, gse |-> <<>>,
            buf |-> [i \in FragId |-> FreeBuffer], queue |-> InitCircleQueue, last |-> 0,
            cur |-> NoId, count |-> [i \in FragId |-> 0],
            freed |-> [p \in Pdu |-> 0], built |-> <<>>, out |-> 0]

\* The decapsulation thread puts a PDU received on port 1 on the ring.
enqueue_encap_ring ==
  /\ arrived < MaxPdus
  /\ arrived' = arrived + 1
  /\ \E n \in PduSize : ring' = Append(ring, WholeNode(arrived + 1, n))
  /\ UNCHANGED <<idle, enc>>

\* get_frag_pkt succeeds: the fragments that wait go first.
DrainFragment ==
  /\ Fetchable(enc)
  /\ \E e \in {Taken(enc)}, u \in {Fetched(enc)} : encapsulate_isl_bb(e, u)
  /\ UNCHANGED <<arrived, ring, idle>>

\* No fragment waits: get_whole_pkt takes a PDU from the ring.
EncapsulateWhole ==
  /\ ~ Fetchable(enc)
  /\ ring # <<>>
  /\ encapsulate_isl_bb(enc, Head(ring))
  /\ ring' = Tail(ring)
  /\ idle' = 0
  /\ UNCHANGED arrived

\* Mutant of Idle: the loop count is not reset when the frame is forced out.
IdleWithoutReset ==
  /\ ~ Fetchable(enc)
  /\ ring = <<>>
  /\ idle' = idle + 1
  /\ enc' = IF idle' = IdleLoops THEN force_send(enc) ELSE enc
  /\ UNCHANGED <<arrived, ring>>

\* The ring is empty: every IdleLoops-th time the frame is sent as it is.
Idle ==
  /\ ~ Fetchable(enc)
  /\ ring = <<>>
  /\ idle' = (idle + 1) % IdleLoops
  /\ enc' = IF idle' = 0 THEN force_send(enc) ELSE enc
  /\ UNCHANGED <<arrived, ring>>

encapsulate_thread == DrainFragment \/ EncapsulateWhole \/ Idle

\* snd_bbframe_thread sends a frame and frees its mbuf.
snd_bbframe_thread ==
  /\ enc.out > 0
  /\ enc' = [enc EXCEPT !.out = @ - 1]
  /\ UNCHANGED <<arrived, ring, idle>>

ENext == enqueue_encap_ring \/ encapsulate_thread \/ snd_bbframe_thread

ESpec == EInit /\ [][ENext]_evars

\* Both threads loop for ever.
EFairSpec == ESpec /\ WF_evars(encapsulate_thread) /\ WF_evars(snd_bbframe_thread)

-----------------------------------------------------------------------------
(* Properties *)

Node == [pdu: Nat, plen: Nat, size: Nat, from: Nat, kind: {"W", "S", "M", "E"},
         id: FragId \cup {NoId}, seq: Nat]
Packet == [node: Node, n: {1, 2}, ts: 0 .. TimeStamps - 1]
Buffer == [used: BOOLEAN, node: Node, sent: Nat, start: Nat, middle: Nat, end: Nat, total: Nat]

\* Every field has its type.
ETypeOK ==
  /\ arrived \in 0 .. MaxPdus
  /\ ring \in Seq(Node)
  /\ idle \in 0 .. IdleLoops - 1
  /\ {enc.max, enc.used, enc.usable} \subseteq 0 .. U16 - 1
  /\ enc.gse \in Seq(Packet) /\ enc.built \in Seq(Packet)
  /\ enc.buf \in [FragId -> Buffer]
  /\ enc.last \in FragId /\ enc.cur \in FragId \cup {NoId}
  /\ enc.count \in [FragId -> 0 .. TimeStamps - 1]
  /\ enc.freed \in [Pdu -> Nat]
  /\ enc.out \in 0 .. EncapPool

\* The frame is closed, or it holds packets and still has room above the padding
\* threshold.  So the branch of encapsulate_isl_bb that puts a PDU twice into
\* its group is never taken, and no 16-bit size underflows.
FrameSound ==
  \/ enc.max = 0 /\ enc.used = 0 /\ enc.usable = 0 /\ enc.gse = <<>>
  \/ /\ enc.max = Payload
     /\ enc.used + enc.usable = Payload
     /\ enc.usable >= padding_threshold
     /\ enc.gse # <<>>

\* used_payload is the length of the packets in the frame, which become the data
\* field length of the BBHeader.
UsedIsContents ==
  LET sum[k \in 0 .. Len(enc.gse)] ==
        IF k = 0 THEN 0 ELSE sum[k - 1] + gse_total_length(enc.gse[k].node, enc.gse[k].n)
  IN  enc.used = sum[Len(enc.gse)]

\* All packets, in the order in which they are built; a frame without an mbuf is lost later.
Stream == enc.built \o enc.gse

\* The stream consists of whole PDUs and of complete runs of fragments of one
\* PDU, numbered from 0 under one ID and time stamp, that carry its bytes from
\* the first to the last; only the last run may still be incomplete.
StreamWellFormed ==
  \A k \in 1 .. Len(Stream) :
    LET u == Stream[k].node IN
    /\ Stream[k].n = 1
    /\ u.kind = "W" => u.from = 0 /\ u.size = u.plen
    /\ u.kind = "S" => u.from = 0 /\ u.seq = 0
    /\ u.kind = "E" => u.from + u.size = u.plen
    /\ IF k > 1 /\ Stream[k - 1].node.kind \in {"S", "M"}
       THEN LET v == Stream[k - 1].node IN
            /\ u.kind \in {"M", "E"} /\ u.pdu = v.pdu /\ u.id = v.id
            /\ u.seq = v.seq + 1 /\ u.from = v.from + v.size
            /\ Stream[k].ts = Stream[k - 1].ts
       ELSE u.kind \in {"W", "S"}

\* Two PDUs that use a fragment ID one after the other have different time
\* stamps: the receiver can tell their fragments apart.
TimeStampsDiffer ==
  \A j, k \in 1 .. Len(Stream) :
    LET u == Stream[j].node
        v == Stream[k].node
    IN  (/\ j < k /\ u.kind = "S" /\ v.kind = "S" /\ u.id = v.id
         /\ \A l \in j + 1 .. k - 1 : Stream[l].node.kind = "S" => Stream[l].node.id # u.id)
        => Stream[j].ts # Stream[k].ts

\* An mbuf is freed at most once, and then no packet and no fragment buffer
\* refers to it any more.
FreedOnce ==
  \A p \in Pdu :
    /\ enc.freed[p] <= 1
    /\ enc.freed[p] = 1 =>
         /\ \A k \in 1 .. Len(enc.gse) : enc.gse[k].node.pdu # p
         /\ \A i \in FragId : enc.buf[i].used => enc.buf[i].node.pdu # p

\* Every PDU that arrives is completely packed into finished frames and its mbuf
\* given back: a frame that is not full does not wait for ever.
AllFlushed == \A p \in Pdu : (arrived >= p) ~> (enc.freed[p] = 1)

\* The PDUs being cut and those on the ring.
InFlight == [k \in 1 .. enc.queue.size |-> enc.buf[GetElement(enc.queue, k - 1)].node.pdu]
            \o [k \in 1 .. Len(ring) |-> ring[k].pdu]
\* The PDUs whose last byte is packed.
Packed == LET last == SelectSeq(Stream, LAMBDA k : k.node.kind \in {"W", "E"})
          IN  [k \in 1 .. Len(last) |-> last[k].node.pdu]

\* The encapsulator carries every PDU completely, once and in order.
Carrier == INSTANCE PduCarrier WITH Item <- Pdu, waiting <- InFlight, carried <- Packed
CarriesInOrder == Carrier!CarrierSpec
=============================================================================
