----------------------------- MODULE Reassembly -----------------------------
(***************************************************************************)
(* Reassembly of fragmented PDUs in the decapsulation thread               *)
(* (decapsulate.c).  A GSE fragment names a fragment ID, a time stamp that *)
(* tells successive PDUs of that ID apart, and a sequence number.  Every   *)
(* (port, fragment ID) has FRAG_BUFFER_NUM buffers, the FRAG_INFO records, *)
(* and a list of buffer indexes that is rotated whenever a fragment finds  *)
(* no buffer carrying its time stamp.  A start fragment takes an mbuf from *)
(* the decapsulation pool; a complete PDU whose length and CRC are right   *)
(* leaves through encap_ring[0], from which the encapsulation thread sends *)
(* it and gives the mbuf back.                                             *)
(*                                                                         *)
(* The specification is open: any fragment of Fragment may arrive at any   *)
(* time, any number of times.  The modules that extend it restrict the     *)
(* arrivals to what a particular channel can do.                           *)
(***************************************************************************)
EXTENDS Naturals, Sequences

CONSTANTS
  FragId,          \* the (port, fragment ID) pairs in use
  FRAG_BUFFER_NUM, \* buffers per pair: 2 in define_const.h
  FRAG_MAX_NUM,    \* fragments a buffer can hold: 6 in define_const.h
  Fragment,        \* the fragments that can arrive, see FragmentType
  Mbuf,            \* the mbufs of decap_pktmbuf_pool
  Null,            \* the NULL pointer / the empty fragment cell
  Tailroom,        \* rte_pktmbuf_tailroom of a fresh mbuf
  RingSize,        \* capacity of encap_ring[0]
  Threshold,       \* frag_timeout_threshold_us (in seconds): 5
  CheckPeriod,     \* check_frag_timeout_period of base.conf: 2
  TimerStarted     \* whether time_creator runs: FALSE in this build

U16 == 65536
Word == 0 .. U16 - 1      \* uint16_t
Buffer == 0 .. FRAG_BUFFER_NUM - 1
FragSeq == 0 .. FRAG_MAX_NUM - 1
Pdu == {f.pdu : f \in Fragment}

(***************************************************************************)
(* What decapsulate_gse has parsed of a fragment when it hands it over:    *)
(* the key, time stamp and sequence number, whether it is a start, middle  *)
(* or end fragment, its length (an end fragment carries 4 bytes of CRC)    *)
(* and, for a start, the length announced for the whole PDU.  "pdu" is the *)
(* identity of the PDU the sender cut it from: the data it carries.        *)
(***************************************************************************)
FragmentType ==
  [id: FragId, ts: Nat, seq: FragSeq, kind: {"S", "M", "E"},
   len: Word \ 0 .. 4, plen: Word, pdu: Pdu]

ASSUME ConstantsAssumption ==
  /\ FRAG_BUFFER_NUM \in Nat \ {0}
  /\ FRAG_MAX_NUM \in Nat \ {0}
  /\ FRAG_MAX_NUM < U16
  /\ Fragment \subseteq FragmentType
  /\ Null \notin Mbuf \cup Fragment
  /\ {Tailroom, RingSize, Threshold, CheckPeriod} \subseteq Nat
  /\ TimerStarted \in BOOLEAN

VARIABLES
  info,      \* g_frag_info: one FRAG_INFO per key and buffer
  list,      \* frag_buffer_index_list: the buffer indexes of a key, in order
  free,      \* the mbufs in the pool
  ring,      \* encap_ring[0]
  delivered, \* history: how often each PDU was put on the ring
  elapsed    \* get_cur_time_s() - pre_time in decapsulate_thread

vars == <<info, list, free, ring, delivered, elapsed>>

-----------------------------------------------------------------------------
(***************************************************************************)
(* FRAG_INFO.  frag[s] is the fragment stored for sequence number s, Null  *)
(* when frag_len[s] is 0 (the bytes a reset leaves in data_addr are never  *)
(* read, because their length is 0).  age stands for t0_us: 0 when t0_us   *)
(* is 0, otherwise one more than the seconds since t0_us, up to the        *)
(* timeout.  pdu_type is not kept: it starts as IP_PACKET and is only ever *)
(* assigned the three types finish_reassemble_pdu accepts.                 *)
(***************************************************************************)
FragInfo ==
  [ts: Nat, num: Word, max: FragSeq, rlen: Word, end: BOOLEAN,
   age: 0 .. Threshold + 1, frag: [FragSeq -> Fragment \cup {Null}],
   plen: Word, ptr: Mbuf \cup {Null}]

\* reset_frag_info: a buffer after init_frag_info or reset_frag_info.
Reset ==
  [ts |-> 0, num |-> 0, max |-> 0, rlen |-> 0, end |-> FALSE, age |-> 0,
   frag |-> [s \in FragSeq |-> Null], plen |-> 0, ptr |-> Null]

Init ==
  /\ info = [k \in FragId |-> [i \in Buffer |-> Reset]]
  /\ list = [k \in FragId |-> [n \in 1 .. FRAG_BUFFER_NUM |-> n - 1]]
  /\ free = Mbuf
  /\ ring = <<>>
  /\ delivered = [p \in Pdu |-> 0]
  /\ elapsed = 0

\* Mutants of Rotate: the index is not pushed back; the list is left alone.
RotateWithoutPush(q) == Tail(q)
RotateNothing(q) == q

\* Remove_Node_point followed by Push_List: the head goes to the tail.
Rotate(q) == Append(Tail(q), Head(q))

\* A buffer of f's key already carries f's time stamp.
Known(f) == \E i \in Buffer : info[f.id][i].ts = f.ts

\* The buffer f goes to: the first that carries its time stamp, or else the
\* one at the head of the list.
Located(f, i) ==
  IF Known(f)
  THEN info[f.id][i].ts = f.ts /\ \A j \in Buffer : j < i => info[f.id][j].ts # f.ts
  ELSE i = Head(list[f.id])

\* Mutant of Store: a reset that forgets ptr_pdu.
StoreKeepingPtr(f, i, s) ==
  /\ info' = [info EXCEPT ![f.id][i] = [s EXCEPT !.ptr = IF @ = Null THEN info[f.id][i].ptr ELSE @]]
  /\ list' = [list EXCEPT ![f.id] = IF Known(f) THEN @ ELSE Rotate(@)]

\* Buffer i of f's key becomes s; a buffer taken from the list is rotated.
Store(f, i, s) ==
  /\ info' = [info EXCEPT ![f.id][i] = s]
  /\ list' = [list EXCEPT ![f.id] = IF Known(f) THEN @ ELSE Rotate(@)]

\* Mutant of Owned: the mbuf is not freed.
OwnedByNobody(s) == {}

\* What rte_pktmbuf_free(s.ptr), called when ptr_pdu is not NULL, gives back.
Owned(s) == {s.ptr} \ {Null}

\* The end fragment is there and as many fragments as the highest sequence
\* number asks for.
Complete(s) == s.end /\ s.num = s.max + 1

\* t0_us is taken when the count of received fragments is 1.
Timed(s) == [s EXCEPT !.age = IF s.num = 1 THEN 1 ELSE @]

-----------------------------------------------------------------------------
(* finish_reassemble_pdu *)

\* offset: the bytes of the first n fragments.
Offset(s) ==
  LET sum[n \in 0 .. FRAG_MAX_NUM] ==
        IF n = 0 THEN 0
        ELSE sum[n - 1] + (IF s.frag[n - 1] = Null THEN 0 ELSE s.frag[n - 1].len)
  IN  sum[s.num]

\* Mutants of CrcMatches: only the presence of the fragments is tested; the
\* CRC of the last fragment is taken for that of the PDU.
CrcOfAnything(s) == \A n \in 0 .. s.num - 1 : s.frag[n] # Null
CrcOfLastFragment(s) ==
  /\ \A n \in 0 .. s.num - 1 : s.frag[n] # Null
  /\ s.frag[s.num - 1].kind = "E"

\* crc32_lookup_table over the copied bytes equals the last 4 bytes of the
\* last fragment: exactly when the copied fragments are those of one PDU, in
\* order, up to its end (the CRC is taken to detect everything else).
CrcMatches(s) ==
  LET last == s.frag[s.num - 1] IN
  /\ \A n \in 0 .. s.num - 1 : s.frag[n] # Null
  /\ last.kind = "E"
  /\ \A n \in 0 .. s.num - 1 : s.frag[n].pdu = last.pdu /\ s.frag[n].seq = n

\* The checks a complete buffer must pass to be handed on.
Valid(s) ==
  /\ s.ptr # Null
  /\ s.plen >= s.rlen
  /\ Offset(s) = s.plen + 4
  /\ CrcMatches(s)

\* finish_reassemble_pdu on buffer i of f's key, whose contents are s; pool is
\* the pool at that moment.  The buffer is reset on every path, the mbuf goes
\* to the ring or back to the pool.
finish_reassemble_pdu(f, i, s, pool) ==
  /\ Store(f, i, Reset)
  /\ \/ /\ Valid(s)
        /\ Len(ring) < RingSize
        /\ ring' = Append(ring, [mbuf |-> s.ptr, num |-> s.num, frag |-> s.frag])
        /\ delivered' = [delivered EXCEPT ![s.frag[0].pdu] = @ + 1]
        /\ free' = pool
     \/ /\ ~ (Valid(s) /\ Len(ring) < RingSize)
        /\ free' = pool \cup Owned(s)
        /\ UNCHANGED <<ring, delivered>>

\* The end of start_reassemble_pdu and keep_reassemble_pdu: finish a complete
\* PDU, otherwise keep the buffer and start its timer.
Conclude(f, i, s, pool) ==
  \/ Complete(s) /\ finish_reassemble_pdu(f, i, s, pool)
  \/ /\ ~ Complete(s)
     /\ Store(f, i, Timed(s))
     /\ free' = pool
     /\ UNCHANGED <<ring, delivered>>

-----------------------------------------------------------------------------
(* start_reassemble_pdu *)

\* The buffer holds fragments of a PDU with another time stamp.
Conflict(s, f) == s.num > 0 /\ s.ts # f.ts

\* The buffer already holds a first fragment under this time stamp.
Repeated(s, f) == s.num > 0 /\ s.ts = f.ts /\ s.frag[0] # Null

\* The buffer after the conflict handling.  A repeated start resets the
\* buffer and then still decrements the 16-bit fragment count.
Cleared(s, f) ==
  IF Conflict(s, f) THEN Reset
  ELSE IF Repeated(s, f) THEN [Reset EXCEPT !.num = U16 - 1]
  ELSE s

\* The start fragment is entered in the cleared buffer s.
Entered(s, f) ==
  [s EXCEPT !.rlen = (@ + f.len) % U16, !.num = (@ + 1) % U16,
            !.frag[0] = f, !.plen = f.plen, !.ts = f.ts]

\* A start fragment with a sequence number other than 0 is ignored.
IgnoreStart(f) ==
  /\ f.kind = "S"
  /\ f.seq # 0
  /\ UNCHANGED vars

start_reassemble_pdu(f) ==
  /\ f.kind = "S"
  /\ f.seq = 0
  /\ \E i \in Buffer :
       /\ Located(f, i)
       /\ LET old  == info[f.id][i]
              s    == Entered(Cleared(old, f), f)
              pool == free \cup (IF Conflict(old, f) \/ Repeated(old, f)
                                 THEN Owned(old) ELSE {})
          IN  \/ /\ pool = {}                       \* rte_pktmbuf_alloc fails
                 /\ Store(f, i, s)
                 /\ free' = pool
                 /\ UNCHANGED <<ring, delivered>>
              \/ /\ pool # {}
                 /\ Tailroom < f.plen + 4           \* the PDU is too long
                 /\ Store(f, i, Reset)
                 /\ free' = pool
                 /\ UNCHANGED <<ring, delivered>>
              \/ /\ Tailroom >= f.plen + 4
                 /\ \E m \in pool : Conclude(f, i, [s EXCEPT !.ptr = m], pool \ {m})
  /\ UNCHANGED elapsed

-----------------------------------------------------------------------------
(* keep_reassemble_pdu, for middle and end fragments *)

\* A fragment received before under this number is taken out of the counts.
Replaced(s, f) ==
  IF s.frag[f.seq] # Null /\ s.num > 0
  THEN [s EXCEPT !.num = @ - 1, !.rlen = (@ + U16 - s.frag[f.seq].len) % U16]
  ELSE s

\* The length is added, without the 4 bytes of CRC of an end fragment.
Lengthened(s, f) ==
  [s EXCEPT !.rlen = (@ + (IF f.kind = "E" THEN f.len - 4 ELSE f.len)) % U16,
            !.end  = @ \/ f.kind = "E"]

\* More has been received than the start fragment announced.
Overrun(s) == s.plen > 0 /\ s.plen < s.rlen

\* The fragment is entered.
Kept(s, f) ==
  [s EXCEPT !.max = IF f.seq > @ THEN f.seq ELSE @, !.num = (@ + 1) % U16,
            !.frag[f.seq] = f, !.ts = f.ts]

keep_reassemble_pdu(f) ==
  /\ f.kind \in {"M", "E"}
  /\ \E i \in Buffer :
       /\ Located(f, i)
       /\ LET s == Lengthened(Replaced(info[f.id][i], f), f)
          IN  \/ /\ Overrun(s)
                 /\ Store(f, i, Reset)
                 /\ free' = free \cup Owned(s)
                 /\ UNCHANGED <<ring, delivered>>
              \/ ~ Overrun(s) /\ Conclude(f, i, Kept(s, f), free)
  /\ UNCHANGED elapsed

\* decapsulate_gse hands fragment f to the reassembly.
Receive(f) == IgnoreStart(f) \/ start_reassemble_pdu(f) \/ keep_reassemble_pdu(f)

-----------------------------------------------------------------------------
(* The other activities *)

\* The buffer of key k that fragment_timeout looks at has timed out.
Expired(k) == info[k][Head(list[k])].age > Threshold

\* fragment_timeout, called by decapsulate_thread when more than CheckPeriod
\* seconds have passed since the last call.  Only the buffer at the head of
\* each list is looked at.
fragment_timeout ==
  /\ elapsed > CheckPeriod
  /\ elapsed' = 0
  /\ info' = [k \in FragId |-> [i \in Buffer |->
                IF Expired(k) /\ i = Head(list[k]) THEN Reset ELSE info[k][i]]]
  /\ list' = [k \in FragId |-> IF Expired(k) THEN Rotate(list[k]) ELSE list[k]]
  /\ free' = free \cup UNION {Owned(info[k][Head(list[k])]) :
                                k \in {kk \in FragId : Expired(kk)}}
  /\ UNCHANGED <<ring, delivered>>

\* A second passes: gettimeofday advances, and g_u32_now_time with it when
\* time_creator runs.
Tick ==
  /\ info' = [k \in FragId |-> [i \in Buffer |->
                [info[k][i] EXCEPT !.age = IF @ \in 1 .. Threshold THEN @ + 1 ELSE @]]]
  /\ elapsed' = IF TimerStarted /\ elapsed <= CheckPeriod THEN elapsed + 1 ELSE elapsed
  /\ UNCHANGED <<list, free, ring, delivered>>

\* The encapsulation thread dequeues a PDU from ring 0; snd_single_pdu sends it
\* on port 1 and frees the mbuf.
snd_single_pdu ==
  /\ ring # <<>>
  /\ free' = free \cup {Head(ring).mbuf}
  /\ ring' = Tail(ring)
  /\ UNCHANGED <<info, list, delivered, elapsed>>

Next ==
  \/ \E f \in Fragment : Receive(f)
  \/ fragment_timeout
  \/ Tick
  \/ snd_single_pdu

Spec == Init /\ [][Next]_vars

-----------------------------------------------------------------------------
(* Properties of the open specification *)

\* Every variable has its type; in particular the index list of a key always
\* holds FRAG_BUFFER_NUM buffer indexes and the 16-bit counters stay in range.
TypeOK ==
  /\ info \in [FragId -> [Buffer -> FragInfo]]
  /\ list \in [FragId -> [1 .. FRAG_BUFFER_NUM -> Buffer]]
  /\ free \subseteq Mbuf
  /\ ring \in Seq([mbuf: Mbuf, num: Nat, frag: [FragSeq -> Fragment \cup {Null}]])
  /\ delivered \in [Pdu -> Nat]
  /\ elapsed \in 0 .. CheckPeriod + 1

\* No mbuf has two owners: the pointers kept in the reassembly buffers are
\* distinct, none of them is in the pool or on the ring, and the ring holds no
\* mbuf twice or one that is free.  Breaking it means a double free, or two
\* PDUs written into one mbuf.
MbufUnique ==
  /\ \A k, l \in FragId : \A i, j \in Buffer :
       info[k][i].ptr # Null /\ info[k][i].ptr = info[l][j].ptr => k = l /\ i = j
  /\ \A k \in FragId : \A i \in Buffer :
       /\ info[k][i].ptr \notin free
       /\ \A n \in 1 .. Len(ring) : info[k][i].ptr # ring[n].mbuf
  /\ \A n \in 1 .. Len(ring) :
       /\ ring[n].mbuf \notin free
       /\ \A m \in 1 .. Len(ring) : ring[m].mbuf = ring[n].mbuf => m = n
=============================================================================
