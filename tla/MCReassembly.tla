---------------------------- MODULE MCReassembly ----------------------------
(* Small instances of ReassemblyChannel. *)
EXTENDS ReassemblyChannel, TLC

MbufSymmetry == Permutations(Mbuf)

\* The fragments of PDU p on key k: lens are the lengths of the pieces, the
\* last of them including 4 bytes of CRC; plen is the announced PDU length.
Cut(k, p, ts, lens, plen) ==
  {[id |-> k, ts |-> ts, seq |-> s, len |-> lens[s + 1], pdu |-> p,
    kind |-> IF s = 0 THEN "S" ELSE IF s = Len(lens) - 1 THEN "E" ELSE "M",
    plen |-> IF s = 0 THEN plen ELSE 0] : s \in 0 .. Len(lens) - 1}

\* Two PDUs of the same shape, a start fragment numbered 1 and a start that
\* announces more than an mbuf holds.
CatalogAny ==
  Cut("a", 1, 1, <<10, 9>>, 15) \cup Cut("a", 2, 2, <<10, 9>>, 15)
    \cup {[id |-> "a", ts |-> 3, seq |-> 1, kind |-> "S", len |-> 10, plen |-> 15, pdu |-> 3],
          [id |-> "a", ts |-> 4, seq |-> 0, kind |-> "S", len |-> 10, plen |-> 99, pdu |-> 4]}

\* Four PDUs of one fragment ID, beginning with time stamp 0, and one of another.
CatalogFifo ==
  Cut("a", 1, 0, <<10, 10, 9>>, 25) \cup Cut("a", 2, 1, <<10, 10, 9>>, 25)
    \cup Cut("a", 3, 2, <<10, 10, 9>>, 25) \cup Cut("a", 4, 3, <<10, 9>>, 15)
    \cup Cut("b", 5, 1, <<10, 9>>, 15)

\* Four PDUs of a third ID.
CatalogWindow ==
  Cut("c", 6, 1, <<10, 10, 9>>, 25) \cup Cut("c", 7, 2, <<10, 10, 9>>, 25)
    \cup Cut("c", 8, 3, <<10, 9>>, 15) \cup Cut("c", 9, 4, <<10, 10, 9>>, 25)

CatalogOne == Cut("a", 1, 1, <<10, 9>>, 15)
=============================================================================
