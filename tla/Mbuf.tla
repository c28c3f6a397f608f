-------------------------------- MODULE Mbuf --------------------------------
(***************************************************************************)
(* The packet buffers of rte_mbuf.h as the program uses them: direct, of   *)
(* one segment, with one reference.  An mbuf is where its data begin       *)
(* (data_off), how many bytes there are (data_len, pkt_len), the private   *)
(* area behind the structure (proto: protocol_type of Mbuf_Private_Header) *)
(* and what the data are.                                                  *)
(***************************************************************************)
EXTENDS Naturals, Sequences

HEADROOM == 128     \* RTE_PKTMBUF_HEADROOM
BUF_LEN == 8192     \* the data room of all three pools, headroom included

\* An mbuf that was never used.
NewMbuf == [data_off |-> HEADROOM, data_len |-> 0, pkt_len |-> 0, proto |-> "none", data |-> <<>>]

\* rte_pktmbuf_reset on allocation: the private area and the bytes stay as the
\* last user left them.
Reset(b) == [b EXCEPT !.data_off = HEADROOM, !.data_len = 0, !.pkt_len = 0]

Headroom(b) == b.data_off

\* Mutant of Tailroom: the headroom is not counted.
TailroomWithHeadroom(b) == BUF_LEN - b.data_len

Tailroom(b) == BUF_LEN - Headroom(b) - b.data_len

\* rte_pktmbuf_append returns an address.
CanAppend(b, len) == len <= Tailroom(b)

\* The mbuf afterwards; without tailroom it is not modified.
Appended(b, len) ==
  IF CanAppend(b, len) THEN [b EXCEPT !.data_len = @ + len, !.pkt_len = @ + len] ELSE b

\* rte_pktmbuf_adj; an mbuf with less data is not modified.
Adjusted(b, len) ==
  IF len <= b.data_len
  THEN [b EXCEPT !.data_off = @ + len, !.data_len = @ - len, !.pkt_len = @ - len]
  ELSE b

-----------------------------------------------------------------------------
(* A mempool without cache is a ring of free mbufs. *)

\* rte_mempool_get: the mbuf at the head, as a set that is empty when the pool is.
Get(pool) == IF pool = <<>> THEN {} ELSE {Head(pool)}

\* rte_mempool_put, after rte_pktmbuf_prefree_seg found the only reference.
Put(pool, m) == Append(pool, m)
=============================================================================
