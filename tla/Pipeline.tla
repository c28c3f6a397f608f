------------------------------ MODULE Pipeline ------------------------------
(***************************************************************************)
(* The threads of the router and the mbufs that pass through them:         *)
(*                                                                         *)
(*   port 0 -> recv 0 -> rcv_ring[0] -+-> decap -> encap_ring[0] -> encap  *)
(*                                    |              -> port 1             *)
(*   port 1 -> recv 1 -> rcv_ring[1] -+-> decap -> encap_ring[1] -> encap  *)
(*                                    -> snd_bb_ring -> snd -> port 0      *)
(*                                                                         *)
(* Each thread step makes one visible change of a shared ring or pool, or  *)
(* takes an mbuf from one and puts it on another.  Rings hold more entries *)
(* (8192 * 64) than there are mbufs, so an enqueue does not fail.  How     *)
(* PDUs are cut and frames are filled is module Encapsulator's subject,    *)
(* and which buffer a fragment goes to is module Reassembly's: here a      *)
(* frame may be full at any PDU, and a fragment may find any buffer.       *)
(***************************************************************************)
EXTENDS Mbuf, Integers, FiniteSets, SequencesExt

CONSTANTS
  RcvMbuf, DecapMbuf, EncapMbuf,  \* the pools: 12800, 20480 and 128000 mbufs
  None,         \* no mbuf
  Traffic,      \* what may arrive: [port, type, len, pdus]
  MaxPackets,   \* bound: how many packets arrive
  IdleLoops,    \* 100: empty polls of ring 1 before an open frame is sent
  MaxCuts       \* bound: into how many frames a PDU reaches after the first

Port == 0 .. 1
Pools == {RcvMbuf, DecapMbuf, EncapMbuf}
AllMbufs == UNION Pools

\* A GSE packet of a frame: a whole PDU, the first fragment of one or another fragment;
\* len and proto are those of the PDU, as its first header gives them.
Pdu == [kind: {"whole", "start", "more"}, len: Nat, proto: STRING]

ASSUME PipelineAssumption ==
  /\ \A P \in Pools : IsFiniteSet(P) /\ P # {}
  /\ RcvMbuf \cap DecapMbuf = {} /\ RcvMbuf \cap EncapMbuf = {} /\ DecapMbuf \cap EncapMbuf = {}
  /\ None \notin AllMbufs
  /\ MaxPackets \in Nat /\ {MaxCuts, IdleLoops} \subseteq Nat \ {0}
  /\ Traffic \subseteq [port: Port, type: STRING, len: Nat,
                        pdus: Seq(Pdu)]

ETHER_HDR == 14
L2L1_MSG_HEADER == 24       \* with the Ethernet header
PDU_BUFFER_SIZE == 8192 - 256
CRC32_LEN == 4
FrameSize == 7350           \* of modcod 28 with its headers, FIFO_ITEM_SIZE at most

\* A packet of port 1 whose type was read in its Ethernet header has one, and is one PDU.
ASSUME TrafficAssumption ==
  \A t \in Traffic :
    t.port = 1 /\ t.type \in {"IPv4", "ARP"} => t.len >= ETHER_HDR /\ Len(t.pdus) = 1

VARIABLES
  free,      \* the three pools
  buf,       \* the mbufs
  rcv_ring, encap_ring, snd_bb_ring,   \* the rings; of snd_bb_ring only [1] is used
  recv,      \* the mbuf in the hands of each receive thread
  decap,     \* the decapsulation thread, and the mbufs its frag_info holds
  enc,       \* the encapsulation thread
  snd,       \* the mbuf in the hands of the sending thread
  threads,   \* how many threads create_multi_threads has created
  got, sent  \* history: the packets received, the PDUs sent per port

vars == <<free, buf, rcv_ring, encap_ring, snd_bb_ring, recv, decap, enc, snd, threads,
          got, sent>>
rings == <<rcv_ring, encap_ring, snd_bb_ring>>

PoolOf(m) == CHOOSE P \in Pools : m \in P

\* rte_pktmbuf_free: m->pool says where it belongs.
Freed(f, m) == [f EXCEPT ![PoolOf(m)] = Put(@, m)]

\* rte_pktmbuf_free of several mbufs, one after the other.
FreedAll(f, s) ==
  LET after[k \in 0 .. Len(s)] == IF k = 0 THEN f ELSE Freed(after[k - 1], s[k])
  IN  after[Len(s)]

-----------------------------------------------------------------------------
(* main, create_multi_threads *)

Init ==
  /\ free = [P \in Pools |-> SetToSeq(P)]
  /\ buf = [m \in AllMbufs |-> NewMbuf]
  /\ rcv_ring = [p \in Port |-> <<>>]
  /\ encap_ring = [p \in Port |-> <<>>]
  /\ snd_bb_ring = <<>>
  /\ recv = [p \in Port |-> None]
  /\ decap = [turn |-> 0, frame |-> None, next |-> 1, held |-> <<>>]
  /\ enc = [turn |-> 0, idle |-> 0, open |-> <<>>, rest |-> None, cuts |-> 0, built |-> <<>>,
            emit |-> FALSE,
            pdu |-> None, send |-> None]
  /\ snd = None
  /\ threads = 0
  /\ got = <<>>
  /\ sent = [p \in Port |-> <<>>]

\* A pool of n threads of one function, each with its number in the pool.
thread_pool_init(n, thread_fun) == [i \in 1 .. n |-> <<thread_fun, i - 1>>]

\* The pools in the order in which they are set up, with base.conf's numbers.
create_multi_threads ==
  thread_pool_init(1, "decapsulate_thread") \o thread_pool_init(1, "encapsulate_thread")
    \o thread_pool_init(2, "receive_msg_thread") \o thread_pool_init(1, "snd_bbframe_thread")

\* Thread i of a pool has been created.
Running(thread_fun, i) == \E k \in 1 .. threads : create_multi_threads[k] = <<thread_fun, i>>

\* A thread runs as soon as it is created.  (When one cannot be created the process
\* exits, as it does from the console: nothing is drained or kept.)
threadpool_spawn_thread ==
  /\ threads < Len(create_multi_threads)
  /\ threads' = threads + 1
  /\ UNCHANGED <<free, buf, rings, recv, decap, enc, snd, got, sent>>

-----------------------------------------------------------------------------
(* receive_msg_thread *)

\* The packet t as the n-th one, its PDUs named <<n, k>>.
Stamp(t, n) ==
  [port |-> t.port, type |-> t.type, len |-> t.len,
   pdus |-> [k \in DOMAIN t.pdus |->
               [id |-> <<n, k>>, kind |-> t.pdus[k].kind, len |-> t.pdus[k].len,
                proto |-> t.pdus[k].proto]]]

\* read_pcap: the packet is lost when no mbuf is free or it does not fit in one.
read_pcap(p) ==
  /\ Running("receive_msg_thread", p)
  /\ recv[p] = None
  /\ Len(got) < MaxPackets
  /\ \E t \in {s \in Traffic : s.port = p} :
       LET pkt == Stamp(t, Len(got) + 1) IN
       /\ got' = Append(got, pkt)
       /\ \/ /\ free[RcvMbuf] = <<>>
             /\ UNCHANGED <<free, buf, recv>>
          \/ \E m \in Get(free[RcvMbuf]) :
               LET b == Reset(buf[m]) IN
               IF CanAppend(b, pkt.len)
               THEN /\ buf' = [buf EXCEPT ![m] = [Appended(b, pkt.len) EXCEPT !.data = pkt]]
                    /\ free' = [free EXCEPT ![RcvMbuf] = Tail(@)]
                    /\ recv' = [recv EXCEPT ![p] = m]
               ELSE /\ buf' = [buf EXCEPT ![m] = b]
                    /\ free' = Freed([free EXCEPT ![RcvMbuf] = Tail(@)], m)
                    /\ UNCHANGED recv
  /\ UNCHANGED <<rings, decap, enc, snd, threads, sent>>

\* Messages of the L2-L1 protocol, by the Ethernet type 0x9101.
Is9101(type) == type \in {"frame", "bad_crc", "indication", "bad_length", "unknown"}

\* On port 0 everything but 0x9101 is dropped.
receive_msg_thread(p) ==
  /\ recv[p] # None
  /\ IF p = 0 /\ ~ Is9101(buf[recv[p]].data.type)
     THEN /\ free' = Freed(free, recv[p])
          /\ UNCHANGED rcv_ring
     ELSE /\ rcv_ring' = [rcv_ring EXCEPT ![p] = Append(@, recv[p])]
          /\ UNCHANGED free
  /\ recv' = [recv EXCEPT ![p] = None]
  /\ UNCHANGED <<buf, encap_ring, snd_bb_ring, decap, enc, snd, threads, got, sent>>

-----------------------------------------------------------------------------
(* decapsulate_thread: the rings in turn, one mbuf at a time *)

\* process_frame_header and dispatch_decap_pkt for the mbuf m of ring i: a frame
\* is opened, an IPv4 or ARP packet goes to the encapsulation ring of its port
\* without its Ethernet header, everything else is given back.
process_frame_header(m, i) ==
  LET type == buf[m].data.type IN
  \/ /\ type = "frame"
     /\ decap' = [decap EXCEPT !.frame = m, !.next = 1]
     /\ UNCHANGED <<free, buf, encap_ring>>
  \/ /\ type \in {"IPv4", "ARP"}
     /\ buf' = [buf EXCEPT ![m] = [Adjusted(@, ETHER_HDR) EXCEPT !.proto = type]]
     /\ encap_ring' = [encap_ring EXCEPT ![i] = Append(@, m)]
     /\ decap' = [decap EXCEPT !.turn = 1 - i]
     /\ UNCHANGED free
  \/ /\ type = "indication"
     /\ buf' = [buf EXCEPT ![m] = Adjusted(@, L2L1_MSG_HEADER)]
     /\ free' = Freed(free, m)
     /\ decap' = [decap EXCEPT !.turn = 1 - i]
     /\ UNCHANGED encap_ring
  \/ /\ type \notin {"frame", "IPv4", "ARP", "indication"}
     /\ free' = Freed(free, m)
     /\ decap' = [decap EXCEPT !.turn = 1 - i]
     /\ UNCHANGED <<buf, encap_ring>>

\* dequeue_rcv_ring on the ring whose turn it is.
DecapPoll ==
  LET i == decap.turn IN
  /\ Running("decapsulate_thread", 0)
  /\ decap.frame = None
  /\ \/ /\ rcv_ring[i] = <<>>
        /\ decap' = [decap EXCEPT !.turn = 1 - i]
        /\ UNCHANGED <<free, buf, rcv_ring, encap_ring>>
     \/ /\ rcv_ring[i] # <<>>
        /\ process_frame_header(Head(rcv_ring[i]), i)
        /\ rcv_ring' = [rcv_ring EXCEPT ![i] = Tail(@)]
  /\ UNCHANGED <<snd_bb_ring, recv, enc, snd, threads, got, sent>>

\* Mutant of InMbuf: the protocol type is not put in the private area.
InMbuf_KeepsProtocol(m, d) == [Appended(Reset(buf[m]), d.len) EXCEPT !.data = <<d>>]

\* What an mbuf m of the decapsulation pool becomes for the PDU that d begins.
InMbuf(m, d) == [Appended(Reset(buf[m]), d.len) EXCEPT !.data = <<d>>, !.proto = d.proto]

\* The thread goes on behind a GSE packet; frag_info then holds h.
Passed(h) == [decap EXCEPT !.next = @ + 1, !.held = h]

Enqueued(m) == [encap_ring EXCEPT ![0] = Append(@, m)]

\* get_single_pdu: a control message is not taken, without an mbuf a PDU is lost,
\* and one that is longer than the mbuf is refused.
get_single_pdu(d) ==
  /\ d.kind = "whole"
  /\ decap' = Passed(decap.held)
  /\ \/ /\ d.proto = "CTRL" \/ free[DecapMbuf] = <<>>
        /\ UNCHANGED <<free, buf, encap_ring>>
     \/ /\ d.proto # "CTRL"
        /\ \E m \in Get(free[DecapMbuf]) :
             IF CanAppend(Reset(buf[m]), d.len)
             THEN /\ free' = [free EXCEPT ![DecapMbuf] = Tail(@)]
                  /\ buf' = [buf EXCEPT ![m] = InMbuf(m, d)]
                  /\ encap_ring' = Enqueued(m)
             ELSE /\ free' = Freed([free EXCEPT ![DecapMbuf] = Tail(@)], m)
                  /\ buf' = [buf EXCEPT ![m] = Reset(@)]
                  /\ UNCHANGED encap_ring

\* The pools and frag_info after a fragment has met none or one unfinished PDU that
\* it makes the thread give up.  (A buffer that is overwritten keeps its mbuf in held.)
GivenUp ==
  {<<free, decap.held>>} \cup
    {<<Freed(free, decap.held[k]), RemoveAt(decap.held, k)>> : k \in DOMAIN decap.held}

\* start_reassemble_pdu, and finish_reassemble_pdu when the other fragments are there
\* already: the fragment is ignored or finds no mbuf; or an unfinished PDU may make
\* room, and an mbuf that is long enough, with the CRC, is kept for the PDU, goes to
\* the encapsulation ring or is given back by finish_reassemble_pdu.
start_reassemble_pdu(d) ==
  /\ d.kind = "start"
  /\ \/ /\ decap' = Passed(decap.held)
        /\ UNCHANGED <<free, buf, encap_ring>>
     \/ \E g \in GivenUp : \E m \in Get(g[1][DecapMbuf]) :
          LET taken == [g[1] EXCEPT ![DecapMbuf] = Tail(@)] IN
          IF CanAppend(Reset(buf[m]), d.len + CRC32_LEN)
          THEN /\ buf' = [buf EXCEPT ![m] = InMbuf(m, d)]
               /\ \/ free' = taken /\ decap' = Passed(Append(g[2], m)) /\ UNCHANGED encap_ring
                  \/ free' = taken /\ decap' = Passed(g[2]) /\ encap_ring' = Enqueued(m)
                  \/ free' = Freed(taken, m) /\ decap' = Passed(g[2]) /\ UNCHANGED encap_ring
          ELSE /\ buf' = [buf EXCEPT ![m] = [Reset(@) EXCEPT !.proto = d.proto]]
               /\ free' = Freed(taken, m)
               /\ decap' = Passed(g[2])
               /\ UNCHANGED encap_ring

\* keep_reassemble_pdu and finish_reassemble_pdu: the fragment is stored, or an
\* unfinished PDU is given up (lengths or CRC do not agree), or one is complete: the
\* CRC tells that it is the PDU of this fragment.
keep_reassemble_pdu(d) ==
  /\ d.kind = "more"
  /\ \/ /\ \E g \in GivenUp : free' = g[1] /\ decap' = Passed(g[2])
        /\ UNCHANGED <<buf, encap_ring>>
     \/ \E k \in DOMAIN decap.held : \E m \in {decap.held[k]} :
          /\ buf[m].data[1].len = d.len /\ buf[m].data[1].proto = d.proto
          /\ buf' = [buf EXCEPT ![m].data = <<d>>]
          /\ decap' = Passed(RemoveAt(decap.held, k))
          /\ encap_ring' = Enqueued(m)
          /\ UNCHANGED free

\* decapsulate_gse takes the GSE packets out of the frame one by one; at the end of
\* the frame its mbuf is given back.
decapsulate_gse ==
  LET pdus == buf[decap.frame].data.pdus IN
  /\ decap.frame # None
  /\ \/ /\ decap.next <= Len(pdus)
        /\ \E d \in {pdus[decap.next]} :
             get_single_pdu(d) \/ start_reassemble_pdu(d) \/ keep_reassemble_pdu(d)
     \/ /\ decap.next > Len(pdus)
        /\ free' = Freed(free, decap.frame)
        /\ decap' = [decap EXCEPT !.frame = None, !.turn = 1 - @]
        /\ UNCHANGED <<buf, encap_ring>>
  /\ UNCHANGED <<rcv_ring, snd_bb_ring, recv, enc, snd, threads, got, sent>>

decapsulate_thread == DecapPoll \/ decapsulate_gse

-----------------------------------------------------------------------------
(* encapsulate_thread: ring 0 to port 1, ring 1 into frames *)

\* The thread is at the top of its loop.
AtPoll == Running("encapsulate_thread", 0) /\ ~ enc.emit /\ enc.pdu = None

\* The PDU in an mbuf of encap_ring[1]: the packet without its Ethernet header,
\* of the protocol type in the private area.
PduIn(m) == [id |-> buf[m].data.pdus[1].id, len |-> buf[m].data_len, proto |-> buf[m].proto]

\* Mutant of Close: the frame is not emptied.
CloseKeepsOpen(e, s, f) ==
  /\ enc' = [e EXCEPT !.built = [k \in DOMAIN s |-> PduIn(s[k])], !.emit = TRUE]
  /\ free' = FreedAll(f, s)

\* write_codeblock copies the PDUs that end in the frame and frees their mbufs.
Close(e, s, f) ==
  /\ enc' = [e EXCEPT !.built = [k \in DOMAIN s |-> PduIn(s[k])], !.emit = TRUE, !.open = <<>>]
  /\ free' = FreedAll(f, s)

\* get_whole_pkt and encapsulate_isl_bb for the mbuf m: it is added to the frame,
\* which may then be full, or only its beginning is, and the rest has to wait.
EncapsulateWhole(m, e) ==
  \/ enc' = [e EXCEPT !.open = Append(@, m)] /\ UNCHANGED free
  \/ Close(e, Append(e.open, m), free)
  \/ \E n \in 1 .. MaxCuts : Close([e EXCEPT !.rest = m, !.cuts = n], e.open, free)

\* get_frag_pkt: the next fragment fills a frame, or the last one ends the PDU.
EncapsulateFragment ==
  /\ AtPoll
  /\ enc.turn = 1
  /\ enc.rest # None
  /\ \/ /\ enc.cuts > 1
        /\ Close([enc EXCEPT !.cuts = @ - 1], enc.open, free)
     \/ /\ enc.cuts = 1
        /\ \E e \in {[enc EXCEPT !.rest = None, !.cuts = 0]} :
             \/ enc' = [e EXCEPT !.open = Append(@, enc.rest)] /\ UNCHANGED free
             \/ Close(e, Append(e.open, enc.rest), free)
  /\ UNCHANGED <<buf, rings, recv, decap, snd, threads, got, sent>>

\* Mutant of FlushIdle: an open frame waits for more PDUs.
FlushIdleNever(e) == enc' = e /\ UNCHANGED free

\* loop_count[1] has come round: an open frame is sent as it is.
FlushIdle(e) ==
  IF e.idle = 0 /\ e.open # <<>> THEN Close(e, e.open, free) ELSE enc' = e /\ UNCHANGED free

\* dequeue_encap_ring on ring 1; after IdleLoops empty polls an open frame is sent.
EncapPoll1 ==
  /\ AtPoll
  /\ enc.turn = 1
  /\ enc.rest = None
  /\ \/ /\ encap_ring[1] # <<>>
        /\ EncapsulateWhole(Head(encap_ring[1]), [enc EXCEPT !.turn = 0, !.idle = 0])
        /\ encap_ring' = [encap_ring EXCEPT ![1] = Tail(@)]
     \/ /\ encap_ring[1] = <<>>
        /\ FlushIdle([enc EXCEPT !.turn = 0, !.idle = (@ + 1) % IdleLoops])
        /\ UNCHANGED encap_ring
  /\ UNCHANGED <<buf, rcv_ring, snd_bb_ring, recv, decap, snd, threads, got, sent>>

\* write_codeblock, continued: the frame gets an mbuf and goes to the sending
\* thread, or is lost when there is none.
write_codeblock ==
  /\ enc.emit
  /\ enc' = [enc EXCEPT !.emit = FALSE, !.built = <<>>]
  /\ \/ /\ free[EncapMbuf] = <<>>
        /\ UNCHANGED <<free, buf, snd_bb_ring>>
     \/ \E m \in Get(free[EncapMbuf]) :
          /\ free' = [free EXCEPT ![EncapMbuf] = Tail(@)]
          /\ buf' = [buf EXCEPT ![m] = [Appended(Reset(@), FrameSize) EXCEPT !.data = enc.built]]
          /\ snd_bb_ring' = Append(snd_bb_ring, m)
  /\ UNCHANGED <<rcv_ring, encap_ring, recv, decap, snd, threads, got, sent>>

\* dequeue_encap_ring on ring 0; snd_single_pdu drops a PDU that is too long.
EncapPoll0 ==
  /\ AtPoll
  /\ enc.turn = 0
  /\ \/ /\ encap_ring[0] = <<>>
        /\ enc' = [enc EXCEPT !.turn = 1]
        /\ UNCHANGED <<free, encap_ring>>
     \/ /\ encap_ring[0] # <<>>
        /\ encap_ring' = [encap_ring EXCEPT ![0] = Tail(@)]
        /\ \E m \in {Head(encap_ring[0])} :
             IF buf[m].data_len >= PDU_BUFFER_SIZE
             THEN free' = Freed(free, m) /\ enc' = [enc EXCEPT !.turn = 1]
             ELSE enc' = [enc EXCEPT !.pdu = m] /\ UNCHANGED free
  /\ UNCHANGED <<buf, rcv_ring, snd_bb_ring, recv, decap, snd, threads, got, sent>>

\* The PDU in an mbuf of encap_ring[0].
PduOut(m) == [id |-> buf[m].data[1].id, len |-> buf[m].data_len, proto |-> buf[m].proto]

\* snd_single_pdu copies the PDU behind an Ethernet header, whose type is in
\* the private area, into an mbuf of the frame pool; without one it is lost.
CopyPdu ==
  /\ enc.pdu # None
  /\ enc.send = None
  /\ \/ /\ free[EncapMbuf] = <<>>
        /\ free' = Freed(free, enc.pdu)
        /\ enc' = [enc EXCEPT !.pdu = None, !.turn = 1]
        /\ UNCHANGED buf
     \/ \E m \in Get(free[EncapMbuf]) :
          /\ free' = [free EXCEPT ![EncapMbuf] = Tail(@)]
          /\ buf' = [buf EXCEPT ![m] = [Appended(Reset(@), buf[enc.pdu].data_len + ETHER_HDR)
                                          EXCEPT !.data = <<PduOut(enc.pdu)>>]]
          /\ enc' = [enc EXCEPT !.send = m]
  /\ UNCHANGED <<rings, recv, decap, snd, threads, got, sent>>

\* snd_pkt repeats the packet until port 1 accepts it; both mbufs are given back.
SendPdu ==
  /\ enc.send # None
  /\ sent' = [sent EXCEPT ![1] = @ \o buf[enc.send].data]
  /\ free' = FreedAll(free, <<enc.send, enc.pdu>>)
  /\ enc' = [enc EXCEPT !.pdu = None, !.send = None, !.turn = 1]
  /\ UNCHANGED <<buf, rings, recv, decap, snd, threads, got>>

encapsulate_thread ==
  EncapsulateFragment \/ EncapPoll1 \/ write_codeblock \/ EncapPoll0 \/ CopyPdu

-----------------------------------------------------------------------------
(* snd_bbframe_thread *)

\* dequeue_snd_bb_ring.
snd_bbframe_thread ==
  /\ Running("snd_bbframe_thread", 0)
  /\ snd = None
  /\ snd_bb_ring # <<>>
  /\ snd' = Head(snd_bb_ring)
  /\ snd_bb_ring' = Tail(snd_bb_ring)
  /\ UNCHANGED <<free, buf, rcv_ring, encap_ring, recv, decap, enc, threads, got, sent>>

\* snd_pkt repeats the packet until port 0 accepts it; the mbuf is given back.
SendFrame ==
  /\ snd # None
  /\ sent' = [sent EXCEPT ![0] = @ \o buf[snd].data]
  /\ free' = Freed(free, snd)
  /\ snd' = None
  /\ UNCHANGED <<buf, rings, recv, decap, enc, threads, got>>

Next ==
  \/ threadpool_spawn_thread
  \/ \E p \in Port : read_pcap(p) \/ receive_msg_thread(p)
  \/ decapsulate_thread \/ encapsulate_thread \/ SendPdu
  \/ snd_bbframe_thread \/ SendFrame

\* The threads are scheduled.  Nothing says that a device accepts a packet: a thread
\* may stay in snd_pkt for ever.
Fairness ==
  /\ WF_vars(threadpool_spawn_thread)
  /\ \A p \in Port : WF_vars(receive_msg_thread(p))
  /\ WF_vars(decapsulate_thread)
  /\ WF_vars(encapsulate_thread)
  /\ WF_vars(snd_bbframe_thread)

Spec == Init /\ [][Next]_vars /\ Fairness

-----------------------------------------------------------------------------
(* Properties *)

\* What is in the hands of a thread, as a sequence.
Hand(m) == IF m = None THEN <<>> ELSE <<m>>

\* The mbufs on the rings and in the hands of the threads, with repetitions.
InUse ==
  Hand(recv[0]) \o Hand(recv[1]) \o Hand(decap.frame) \o Hand(enc.rest) \o Hand(enc.pdu)
    \o Hand(enc.send) \o Hand(snd) \o enc.open
    \o rcv_ring[0] \o rcv_ring[1] \o encap_ring[0] \o encap_ring[1] \o snd_bb_ring

\* Every mbuf is in its own pool, on one ring, in the hands of one thread or taken
\* for one unfinished PDU, and nowhere twice: nothing is freed twice or used after it
\* is freed, by whichever thread, whether a PDU is lost, refused for its length,
\* given up in reassembly or complete.
EachInOnePlace ==
  LET all == InUse \o free[RcvMbuf] \o free[DecapMbuf] \o free[EncapMbuf] \o decap.held IN
  /\ Len(all) = Cardinality(AllMbufs)
  /\ ToSet(all) = AllMbufs
  /\ \A P \in Pools : ToSet(free[P]) \subseteq P

\* The data of an mbuf lie inside its buffer, and an mbuf about to be sent holds
\* as many bytes as its reader takes from it.
DataInside ==
  /\ \A m \in AllMbufs : buf[m].data_off + buf[m].data_len <= BUF_LEN
                         /\ buf[m].pkt_len = buf[m].data_len
  /\ \A m \in (ToSet(snd_bb_ring) \cup {snd}) \ {None} : buf[m].data_len = FrameSize
  /\ enc.send # None => buf[enc.send].data_len = buf[enc.pdu].data_len + ETHER_HDR

\* The PDU <<n, k>> as it was received, whole or complete with this fragment; without
\* its Ethernet header when it came as a packet of port 1.
Received(id) ==
  LET pkt == got[id[1]] IN
  IF pkt.type = "frame"
  THEN [id |-> id, len |-> pkt.pdus[id[2]].len, proto |-> pkt.pdus[id[2]].proto]
  ELSE [id |-> id, len |-> pkt.len - ETHER_HDR, proto |-> pkt.type]

\* One PDU was received before another on the same port.
Earlier(a, b) ==
  got[a[1]].port = got[b[1]].port => a[1] < b[1] \/ (a[1] = b[1] /\ a[2] < b[2])

\* What is sent is what was received, with its length and protocol type although
\* mbufs are reused without being cleared, at most once and in the order of its
\* port; only packets of port 1 are sent in frames to port 0.
SentAsReceived ==
  \A p \in Port :
    /\ \A k \in DOMAIN sent[p] : sent[p][k] = Received(sent[p][k].id)
    /\ \A j, k \in DOMAIN sent[p] : j < k => Earlier(sent[p][j].id, sent[p][k].id)
    /\ p = 0 => \A k \in DOMAIN sent[0] : got[sent[0][k].id[1]].port = 1

\* When packets stop arriving, what the router still holds is given back, whatever
\* waits in an open frame, for its turn among the rings or in snd_pkt; only unfinished
\* PDUs keep their mbufs.  It takes that port 1 accepts packets, for both directions,
\* since one thread builds the frames and sends to port 1; a port 0 that refuses for
\* ever keeps mbufs of the frame pool and nothing else.
AllGivenBack ==
  WF_vars(SendPdu) =>
    /\ <>[](ToSet(free[RcvMbuf]) = RcvMbuf
             /\ ToSet(free[DecapMbuf]) = DecapMbuf \ ToSet(decap.held))
    /\ WF_vars(SendFrame) => <>[](ToSet(free[EncapMbuf]) = EncapMbuf)
=============================================================================
