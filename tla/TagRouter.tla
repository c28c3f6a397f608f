------------------------------ MODULE TagRouter ------------------------------
(***************************************************************************)
(* The routers of the TAG_ROUTE build: a packet from a host gets a router  *)
(* header with the identifiers of all routers on its way, every router     *)
(* looks up the next one in its mapping table (router.c) and hands the     *)
(* packet to the encapsulation thread, which sends it alone, inside GSE    *)
(* frames, or packed with others (encapsulate.c); the next router's        *)
(* decapsulation thread takes it out again (decapsulate.c).                *)
(***************************************************************************)
EXTENDS Integers, Sequences, SequencesExt, FiniteSetsExt

CONSTANTS
  Router,       \* identifiers (local_id)
  Port,         \* the netcards of a router
  RouterConf,   \* the lines of router.conf: sequences of identifiers
  MappingConf,  \* the lines of mapping_tbl.conf: local, next, port and type
  DstId,        \* dst_id of base.conf, for the routers that have a host
  Cable,        \* what a port is connected to: <<router, port>>, or "host"
  HostPort,     \* the port of a router behind which its host is
  PktLen,       \* lengths of the packets of hosts
  ROUTER_HEADER_LEN, L2L1_MSG_HEADER, PDU_BUFFER_SIZE,
  HeaderSizeRead, \* what encapsulate_pdu may read as router_header_size[router_table_id]
  RingSize,     \* bound: entries of a ring
  MaxPackets    \* bound: packets that hosts send

ASSUME TagAssumption ==
  /\ Router \subseteq Nat \ {0} /\ Port \subseteq Nat
  /\ PktLen \subseteq Nat \ {0} /\ RingSize \in Nat \ {0} /\ MaxPackets \in Nat
  /\ HeaderSizeRead \subseteq 0 .. 2^16 - 1

-----------------------------------------------------------------------------
(* The tables *)

\* read_router_string: the lines that begin with local_id.
router_table == [r \in Router |-> SelectSeq(RouterConf, LAMBDA line : line[1] = r)]

\* Mutant of PktType: m_rtn_pdu is taken at its word.
PktTypeRtn(word) ==
  CASE word \in {"isl", "bb", "fwd_bb"} -> "gse"
    [] word = "m_fwd_pdu" -> "multi_fwd"
    [] word = "m_rtn_pdu" -> "multi_rtn"
    [] word \in {"fwd_pdu", "rtn_pdu"} -> "tunnel"

\* The words of the pkt_type column; m_rtn_pdu becomes MULTI_FWD_PDU_PACK.
PktType(word) ==
  CASE word \in {"isl", "bb", "fwd_bb"} -> "gse"
    [] word \in {"m_fwd_pdu", "m_rtn_pdu"} -> "multi_fwd"
    [] word \in {"fwd_pdu", "rtn_pdu"} -> "tunnel"

\* read_mapping_tbl_string: the lines that begin with local_id.
mapping_table ==
  [r \in Router |->
     LET own == SelectSeq(MappingConf, LAMBDA line : line.local = r)
     IN  [i \in DOMAIN own |-> [next |-> own[i].next, port |-> own[i].port,
                                type |-> PktType(own[i].type)]]]

Mapping(r) == DOMAIN mapping_table[r]

\* Mutant of get_mapping_index: the last router is meant, not the next one.
get_mapping_index_last(r, cur_id, next_hop_id, last_id) ==
  LET found == {i \in Mapping(r) : mapping_table[r][i].next = last_id}
  IN  IF cur_id = r /\ found # {} THEN Min(found) ELSE 1

\* get_mapping_index: the entry of the next hop; the first entry when the packet
\* is not for this router or there is none.  last_id is not used.
get_mapping_index(r, cur_id, next_hop_id, last_id) ==
  LET found == {i \in Mapping(r) : mapping_table[r][i].next = next_hop_id}
  IN  IF cur_id = r /\ found # {} THEN Min(found) ELSE 1

\* decide_router_table_by_dst_id: the first table that ends at dst_id, 0 if none.
decide_router_table_by_dst_id(r) ==
  LET found == {i \in DOMAIN router_table[r] : Last(router_table[r][i]) = DstId[r]}
  IN  IF found = {} THEN 0 ELSE Min(found)

-----------------------------------------------------------------------------
VARIABLES
  router_header, \* the headers prepared for the tables of each router: cur, d, seg
  wire,          \* the frames on the way to each port
  rcv,           \* rcv_ring of each port
  enc,           \* encap_ring of each mapping entry
  buf,           \* pdu_buffer of each mapping entry
  sent,          \* the packets that hosts sent: origin of each
  delivered,     \* the packets that reached a host, in order
  dropped,       \* the packets given back: a full ring, no table, no mbuf, too long
  left,          \* the packets whose mbuf encapsulate_pdu neither uses nor frees
  overrun        \* a packet was written beyond pdu_buffer

vars == <<router_header, wire, rcv, enc, buf, sent, delivered, dropped, left, overrun>>

DIRECTION_RTN == 1

\* init_router_header: CUR_ENTRY is 0 (cur_entry of base.conf), segments are
\* stored in network order.
init_router_header(r) ==
  [i \in DOMAIN router_table[r] |->
     [cur |-> 0, d |-> DIRECTION_RTN, seg |-> router_table[r][i], net |-> TRUE]]

Init ==
  /\ router_header = [r \in Router |-> init_router_header(r)]
  /\ wire = [r \in Router |-> [p \in Port |-> <<>>]]
  /\ rcv = [r \in Router |-> [p \in Port |-> <<>>]]
  /\ enc = [r \in Router |-> [i \in Mapping(r) |-> <<>>]]
  /\ buf = [r \in Router |-> [i \in Mapping(r) |-> <<>>]]
  /\ sent = <<>> /\ delivered = <<>> /\ dropped = {} /\ left = {} /\ overrun = FALSE

\* The length of a router header.
HeaderSize(h) == ROUTER_HEADER_LEN + 2 * Len(h.seg)

\* The k-th segment, counted from 0, as the code reads it: only right in host order.
Segment(h, k) == IF h.net THEN -1 ELSE h.seg[k + 1]

\* ntohs or htons of all segments, in place.
Swapped(h) == [h EXCEPT !.net = ~@]

LAST_ENTRY(h) == Len(h.seg) - 1

\* What a port sends out.
Put(w, r, port, frame) ==
  IF Cable[<<r, port>>] = "host" THEN w
  ELSE [w EXCEPT ![Cable[<<r, port>>][1]][Cable[<<r, port>>][2]] = Append(@, frame)]

-----------------------------------------------------------------------------
(* Receiving *)

\* A host sends an IP packet.
HostSends(r, len) ==
  /\ Len(sent) < MaxPackets
  /\ sent' = Append(sent, r)
  /\ wire' = [wire EXCEPT ![r][HostPort[r]] =
                Append(@, [type |-> "ip", pkts |-> <<[id |-> Len(sent) + 1, len |-> len]>>])]
  /\ UNCHANGED <<router_header, rcv, enc, buf, delivered, dropped, left, overrun>>

Ids(frames) == {p.id : p \in UNION {ToSet(f.pkts) : f \in ToSet(frames)}}

\* receive_msg_thread: the thread of a port, once router_startup_flag is 1.  A
\* frame is lost when the ring is full.
receive_msg_thread(r, port) ==
  /\ wire[r][port] # <<>>
  /\ wire' = [wire EXCEPT ![r][port] = Tail(@)]
  /\ IF Len(rcv[r][port]) < RingSize
     THEN /\ rcv' = [rcv EXCEPT ![r][port] = Append(@, Head(wire[r][port]))]
          /\ UNCHANGED dropped
     ELSE /\ dropped' = dropped \cup Ids(<<Head(wire[r][port])>>)
          /\ UNCHANGED rcv
  /\ UNCHANGED <<router_header, enc, buf, sent, delivered, left, overrun>>

-----------------------------------------------------------------------------
(* Routing *)

\* Mutant of router_func: the segments stay in host order.
router_func_host(r, p) ==
  LET q == Swapped(p)
      next == Segment(q, IF q.cur = LAST_ENTRY(q) THEN q.cur ELSE q.cur + 1)
  IN  [to |-> get_mapping_index(r, Segment(q, q.cur), next, Segment(q, LAST_ENTRY(q))),
       pkt |-> [q EXCEPT !.cur = @ + 1, !.via = Append(@, r)]]

\* router_func: the entry for the next router on the way, the entry for this one
\* at the end of it; CUR_ENTRY moves on.
router_func(r, p) ==
  LET q == Swapped(p)
      next == Segment(q, IF q.cur = LAST_ENTRY(q) THEN q.cur ELSE q.cur + 1)
  IN  [to |-> get_mapping_index(r, Segment(q, q.cur), next, Segment(q, LAST_ENTRY(q))),
       pkt |-> Swapped([q EXCEPT !.cur = @ + 1, !.via = Append(@, r)])]

\* The packets ps are routed one after the other; a full ring costs a packet.  The
\* packets lost had no mbuf.
Route(r, ps, lost) ==
  \E out \in {[k \in DOMAIN ps |-> router_func(r, ps[k])]} :
  \E for \in {[i \in Mapping(r) |-> SelectSeq(out, LAMBDA f : f.to = i)]} :
  \E fit \in {[i \in Mapping(r) |-> Min({RingSize - Len(enc[r][i]), Len(for[i])})]} :
    /\ enc' = [enc EXCEPT ![r] = [i \in Mapping(r) |->
                                    @[i] \o [k \in 1 .. fit[i] |-> for[i][k].pkt]]]
    /\ dropped' = dropped \cup lost
           \cup UNION {{for[i][k].pkt.id : k \in fit[i] + 1 .. Len(for[i])} : i \in Mapping(r)}

\* prepare_l2l1_pdu: the header of the table is put before the packet of a host;
\* its D field becomes the port of the next hop.  The packet is copied through 4096
\* bytes of the stack without a test of its length: what a longer one does to the
\* thread is not defined, and here it is copied whole.
prepare_l2l1_pdu(r, p) ==
  \E t \in {decide_router_table_by_dst_id(r)} :
    \/ /\ t = 0
       /\ dropped' = dropped \cup {p.id}
       /\ UNCHANGED <<router_header, enc>>
    \/ /\ t # 0
       /\ \E h \in {router_header[r][t]} :
          LET next == h.seg[IF h.cur = LAST_ENTRY(h) THEN h.cur + 1 ELSE h.cur + 2] IN
          \E d \in {mapping_table[r][get_mapping_index(r, r, next, LAST_ENTRY(h))].port} :
            /\ router_header' = [router_header EXCEPT ![r][t].d = d]
            /\ Route(r, <<[id |-> p.id, len |-> p.len + HeaderSize(h), cur |-> h.cur, d |-> d,
                           seg |-> h.seg, net |-> h.net, via |-> <<>>]>>, {})

\* decapsulate_pdu takes the packets out of a frame one by one (FWD direction) and
\* gives up when the pool of the decapsulation is empty.
decapsulate_pdu(r, pkts) ==
  \E n \in 0 .. Len(pkts) :
    Route(r, SubSeq(pkts, 1, n), {pkts[k].id : k \in n + 1 .. Len(pkts)})

\* process_frame_header, dispatch_decap_pkt and what they call, for the first
\* frame of a ring.  A packet of a host is prepared and then handled like a
\* tunnelled one; decapsulate_gse is here what it promises, with its one packet
\* per frame the same as decapsulate_pdu.
dispatch_decap_pkt(r, port) ==
  \E f \in {Head(rcv[r][port])} :
    \/ f.type = "ip" /\ prepare_l2l1_pdu(r, f.pkts[1])
    \/ f.type = "tunnel" /\ Route(r, f.pkts, {}) /\ UNCHANGED router_header
    \/ f.type \in {"multi", "gse"} /\ decapsulate_pdu(r, f.pkts) /\ UNCHANGED router_header

decapsulate_thread(r, port) ==
  /\ rcv[r][port] # <<>>
  /\ dispatch_decap_pkt(r, port)
  /\ rcv' = [rcv EXCEPT ![r][port] = Tail(@)]
  /\ UNCHANGED <<wire, buf, sent, delivered, left, overrun>>

-----------------------------------------------------------------------------
(* Sending *)

\* get_encap_mbuf finds no mbuf in the pool: what the frame f carries is lost.
Lost(f) == dropped' = dropped \cup Ids(<<f>>) /\ UNCHANGED wire

\* A packet that a pdu_buffer cannot hold is given back.
TooLong(p) == p.len >= PDU_BUFFER_SIZE

\* snd_single_pdu: at the end of the way the header is taken off and the packet
\* goes to the host, otherwise it goes on with its header.
snd_single_pdu(r, i) ==
  LET p == Head(enc[r][i])
      port == mapping_table[r][i].port
      last_id == Segment(Swapped(p), LAST_ENTRY(p))
      f == [type |-> "tunnel", pkts |-> <<p>>]
  IN  /\ mapping_table[r][i].type = "tunnel"
      /\ \/ /\ ~ TooLong(p)
            /\ wire' = Put(wire, r, port, f)
            /\ delivered' = IF Cable[<<r, port>>] = "host"
                            THEN Append(delivered,
                                        [id |-> p.id, via |-> p.via, bare |-> last_id = r])
                            ELSE delivered
            /\ UNCHANGED dropped
         \/ Lost(f) /\ UNCHANGED delivered
      /\ UNCHANGED <<buf, left, overrun>>

\* A frame is sent on the port of an entry that is not a tunnel.
Transmit(r, i, f) ==
  \/ wire' = Put(wire, r, mapping_table[r][i].port, f) /\ UNCHANGED dropped
  \/ Lost(f)

\* encapsulate_isl_bb: the link carries whole packets in order (PduCarrier).
encapsulate_isl_bb(r, i) ==
  /\ mapping_table[r][i].type = "gse"
  /\ Transmit(r, i, [type |-> "gse", pkts |-> <<Head(enc[r][i])>>])
  /\ UNCHANGED <<buf, delivered, left, overrun>>

\* The bytes in pdu_buffer: every packet is preceded by its length.
Offset(b) ==
  LET upTo[k \in 0 .. Len(b)] == IF k = 0 THEN 0 ELSE upTo[k - 1] + b[k].len + 2
  IN  upTo[Len(b)]

\* update_frame_payload keeps the room in 16 bits.  It takes off the 2 bytes of the
\* length, which the test below does not ask for: the room comes round when a packet
\* leaves one byte by the test.
usable_payload(b) == (PDU_BUFFER_SIZE - L2L1_MSG_HEADER - Offset(b)) % 2^16

\* pdu_buffer gets the contents b.
Fill(r, i, b) ==
  /\ buf' = [buf EXCEPT ![r][i] = b]
  /\ overrun' = (Offset(b) > PDU_BUFFER_SIZE)

\* The buffer of an entry is sent as one frame.
Flush(r, i) == Transmit(r, i, [type |-> "multi", pkts |-> buf[r][i]])

\* Mutant of encapsulate_pdu: the packet that did not fit goes with the old buffer.
encapsulate_pdu_lost(r, i) ==
  LET p == Head(enc[r][i]) IN
  /\ mapping_table[r][i].type \in {"multi_fwd", "multi_rtn"}
  /\ \E size \in HeaderSizeRead :
       IF usable_payload(buf[r][i]) > p.len + size
       THEN Fill(r, i, Append(buf[r][i], p)) /\ UNCHANGED <<wire, dropped>>
       ELSE Fill(r, i, <<>>) /\ Flush(r, i)
  /\ UNCHANGED <<delivered, left>>

\* Mutant of encapsulate_pdu: the packet that does not fit is sent at once.
encapsulate_pdu_overtakes(r, i) ==
  LET p == Head(enc[r][i]) IN
  /\ mapping_table[r][i].type \in {"multi_fwd", "multi_rtn"}
  /\ \E size \in HeaderSizeRead :
       IF usable_payload(buf[r][i]) > p.len + size
       THEN Fill(r, i, Append(buf[r][i], p)) /\ UNCHANGED <<wire, dropped>>
       ELSE Transmit(r, i, [type |-> "multi", pkts |-> <<p>>]) /\ UNCHANGED <<buf, overrun>>
  /\ UNCHANGED <<delivered, left>>

\* encapsulate_pdu: a packet is added, or the buffer is sent and the packet begins
\* the next one; when the buffer is empty the packet is neither added nor freed.
\* router_table_id is not set for the FWD direction, and indexes a table unchecked:
\* the size in the test is whatever number is there.  The mbuf is freed before its
\* data_len is read for the last time; a pool hands out its mbufs in turn, so that it
\* is still the same.
encapsulate_pdu(r, i) ==
  LET p == Head(enc[r][i])
      b == buf[r][i]
  IN  /\ mapping_table[r][i].type \in {"multi_fwd", "multi_rtn"}
      /\ \/ /\ TooLong(p)
            /\ dropped' = dropped \cup {p.id}
            /\ UNCHANGED <<wire, buf, left, overrun>>
         \/ /\ ~ TooLong(p)
            /\ \E size \in HeaderSizeRead :
                 \/ /\ usable_payload(b) > p.len + size
                    /\ Fill(r, i, Append(b, p))
                    /\ UNCHANGED <<wire, dropped, left>>
                 \/ /\ usable_payload(b) <= p.len + size
                    /\ b # <<>>
                    /\ Flush(r, i) /\ Fill(r, i, <<p>>)
                    /\ UNCHANGED left
                 \/ /\ usable_payload(b) <= p.len + size
                    /\ b = <<>>
                    /\ left' = left \cup {p.id}
                    /\ UNCHANGED <<wire, dropped, buf, overrun>>
      /\ UNCHANGED delivered

\* encapsulate_thread, one turn of a ring that holds a packet.
encapsulate_thread(r, i) ==
  /\ enc[r][i] # <<>>
  /\ snd_single_pdu(r, i) \/ encapsulate_isl_bb(r, i) \/ encapsulate_pdu(r, i)
  /\ enc' = [enc EXCEPT ![r][i] = Tail(@)]
  /\ UNCHANGED <<router_header, rcv, sent>>

\* 100 turns without a packet: encapsulate_pdu(NULL) sends what is in the buffer.
ForceSend(r, i) ==
  /\ enc[r][i] = <<>> /\ buf[r][i] # <<>>
  /\ mapping_table[r][i].type = "multi_fwd"
  /\ Flush(r, i) /\ Fill(r, i, <<>>)
  /\ UNCHANGED <<router_header, rcv, enc, sent, delivered, left>>

\* A step of one of the threads.  What a program does that has written beyond a
\* buffer is not defined: the model ends there.
Threads ==
  /\ ~ overrun
  /\ \/ \E r \in Router, port \in Port :
          receive_msg_thread(r, port) \/ decapsulate_thread(r, port)
     \/ \E r \in Router : \E i \in Mapping(r) : encapsulate_thread(r, i) \/ ForceSend(r, i)

Next == (\E r \in DOMAIN HostPort, len \in PktLen : HostSends(r, len)) \/ Threads

\* While a thread has something to do, some thread goes on; hosts need not send.
Spec == Init /\ [][Next]_vars /\ WF_vars(Threads)

-----------------------------------------------------------------------------
(* Properties *)

\* All packets that stand in a ring, in a buffer or on a wire after a header was
\* put before them.
Routed ==
  UNION {ToSet(enc[r][i]) \cup ToSet(buf[r][i]) : <<r, i>> \in
           {<<r, i>> \in Router \X (1 .. Len(MappingConf)) : i \in Mapping(r)}}
  \cup UNION {UNION {ToSet(f.pkts) : f \in {g \in ToSet(wire[r][p]) \cup ToSet(rcv[r][p]) :
                                              g.type # "ip"}} : <<r, p>> \in Router \X Port}

\* Between two routers the segments are in network order, CUR_ENTRY counts the
\* routers that have handled the packet, and the direction is not the one that
\* encapsulate_pdu and decapsulate_pdu treat differently.
HeadersSound ==
  \A p \in Routed :
    /\ p.net /\ p.cur = Len(p.via) /\ p.cur <= Len(p.seg)
    /\ p.via = SubSeq(p.seg, 1, p.cur)
    /\ p.d # DIRECTION_RTN

\* The way that the configuration of the sender's router names.
Way(id) == router_table[sent[id]][decide_router_table_by_dst_id(sent[id])]

\* A packet reaches a host only at the end of the configured way, after exactly
\* the routers on it, and without its router header.
WayFollowed ==
  \A k \in DOMAIN delivered : delivered[k].via = Way(delivered[k].id) /\ delivered[k].bare

\* The packets that are somewhere between two hosts.
Underway ==
  {p.id : p \in Routed}
    \cup UNION {Ids(wire[r][p]) \cup Ids(rcv[r][p]) : <<r, p>> \in Router \X Port}

\* What becomes of a packet: it is delivered, given back where the code logs it, or
\* left by encapsulate_pdu.
Ended(id) == id \in dropped \cup left \/ \E k \in DOMAIN delivered : delivered[k].id = id

\* No packet is forgotten: it is underway or has come to one of its ends, never two of
\* them, and is delivered once.  The only mbufs that are never freed are those that
\* encapsulate_pdu leaves.
NothingForgotten ==
  \A id \in DOMAIN sent :
    /\ id \in Underway \/ Ended(id)
    /\ ~ (id \in Underway /\ Ended(id)) /\ ~ (id \in dropped /\ id \in left)
    /\ \A k, l \in DOMAIN delivered : delivered[k].id = id /\ delivered[l].id = id => k = l

\* Packets of one host are not overtaken by later ones, packed or not.
InOrder ==
  \A k, l \in DOMAIN delivered :
    k < l /\ sent[delivered[k].id] = sent[delivered[l].id] => delivered[k].id < delivered[l].id

\* Every packet a host sends comes to one of its ends, as long as no buffer is overrun:
\* no packet waits in a pdu_buffer for a next one that never comes.
AllArrive ==
  \A id \in 1 .. MaxPackets : (id \in DOMAIN sent) ~> (overrun \/ Ended(id))
=============================================================================
