------------------------- MODULE ReassemblyChannel --------------------------
(***************************************************************************)
(* The reassembly of module Reassembly behind three channels, from the     *)
(* weakest to the strongest.  PDUs are numbered in the order in which the  *)
(* sender numbers them per fragment ID; arrived counts how often each      *)
(* fragment reached decapsulate_gse.                                       *)
(***************************************************************************)
EXTENDS Reassembly

CONSTANT MaxArrivals    \* bound: how often a channel may deliver a fragment

ASSUME MaxArrivalsAssumption == MaxArrivals \in Nat \ {0}

\* The fragments that can arrive are those that a sender cuts from PDUs: a number
\* belongs to one fragment of a PDU, and the end fragment has the highest.
ASSUME CutAssumption ==
  \A f, g \in Fragment : f.pdu = g.pdu =>
    /\ f.seq = g.seq => f = g
    /\ f.kind = "E" => g.seq <= f.seq

\* PDUs are numbered in the order sent, and there are fewer of them per fragment ID
\* than time stamps: two PDUs of an ID differ in their time stamps.
ASSUME StampAssumption ==
  /\ Pdu \subseteq Nat
  /\ \A f, g \in Fragment : f.id = g.id /\ f.ts = g.ts => f.pdu = g.pdu

VARIABLE arrived

cvars == <<info, list, free, ring, delivered, elapsed, arrived>>

CInit == Init /\ arrived = [f \in Fragment |-> 0]

Arrive(f) ==
  /\ arrived[f] < MaxArrivals
  /\ Receive(f)
  /\ arrived' = [arrived EXCEPT ![f] = @ + 1]

\* The timeout check, the clock and the encapsulation thread.
Background ==
  /\ fragment_timeout \/ Tick \/ snd_single_pdu
  /\ UNCHANGED arrived

-----------------------------------------------------------------------------
(* Channels *)

\* Fragments are lost, reordered and repeated at will.
NextAny == (\E f \in Fragment : Arrive(f)) \/ Background
SpecAny == CInit /\ [][NextAny]_cvars

\* f is sent after g.
Before(g, f) == g.pdu < f.pdu \/ (g.pdu = f.pdu /\ g.seq < f.seq)

\* Fragments arrive in the order sent and at most once; any of them may be
\* lost.
InOrder(f) ==
  /\ arrived[f] = 0
  /\ \A g \in Fragment : arrived[g] > 0 => Before(g, f)

NextFifo == (\E f \in Fragment : InOrder(f) /\ Arrive(f)) \/ Background
SpecFifo == CInit /\ [][NextFifo]_cvars

\* Every fragment arrives once; fragments of FRAG_BUFFER_NUM consecutive PDUs
\* of one fragment ID may overtake each other, except that the PDUs begin to
\* arrive in the order sent.
InWindow(f) ==
  /\ arrived[f] = 0
  /\ \A g \in Fragment :
       /\ g.id = f.id /\ g.pdu + FRAG_BUFFER_NUM <= f.pdu => arrived[g] = 1
       /\ g.id = f.id /\ g.pdu < f.pdu
            => {h \in Fragment : h.pdu = g.pdu /\ arrived[h] = 1} # {}

NextWindow == (\E f \in Fragment : InWindow(f) /\ Arrive(f)) \/ Background
SpecWindow == CInit /\ [][NextWindow]_cvars

\* The decapsulation thread's loop calls fragment_timeout whenever its
\* condition holds, and time passes.
SpecTimed == SpecAny /\ WF_cvars(fragment_timeout /\ UNCHANGED arrived)
                     /\ WF_cvars(Tick /\ UNCHANGED arrived)
-----------------------------------------------------------------------------
(* Properties *)

FragmentsOf(p) == {f \in Fragment : f.pdu = p}

\* A PDU is never put on the ring more often than each of its fragments
\* arrived: a reset buffer keeps nothing that a late fragment could complete
\* a second time.
NoReplay ==
  \A p \in Pdu : \A f \in FragmentsOf(p) : delivered[p] <= arrived[f]

\* Whatever mixture of PDUs a buffer has held, a PDU on the ring consists of
\* all the fragments of one PDU, in order, and of nothing else.
DeliveredIntact ==
  \A n \in 1 .. Len(ring) : \E p \in Pdu :
    {ring[n].frag[s] : s \in 0 .. ring[n].num - 1} = FragmentsOf(p)

\* Every mbuf of the pool is free, on the ring or in a reassembly buffer: none
\* is lost to the program.
NoLeak ==
  Mbuf \subseteq free \cup {ring[n].mbuf : n \in 1 .. Len(ring)}
                      \cup {info[k][i].ptr : k \in FragId, i \in Buffer}

\* All fragments of p have arrived.
AllArrived(p) == \A f \in FragmentsOf(p) : arrived[f] > 0

\* A PDU all of whose fragments have arrived has been put on the ring, exactly
\* once, whatever is left in the buffers of the PDUs that lost a fragment or
\* that overlap with it.
ArrivedIsDelivered == \A p \in Pdu : AllArrived(p) => delivered[p] = 1

\* Comment in start_reassemble_pdu and keep_reassemble_pdu: all fragments must
\* be received within the timeout, "otherwise the PDU is discarded".
TimeoutDiscards ==
  \A k \in FragId : \A i \in Buffer :
    (info[k][i].age > Threshold) ~> (info[k][i].age = 0)
=============================================================================
