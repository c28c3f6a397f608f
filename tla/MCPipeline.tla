----------------------------- MODULE MCPipeline -----------------------------
(* A small instance of Pipeline. *)
EXTENDS Pipeline

Packet(p, type, len, pdus) == [port |-> p, type |-> type, len |-> len, pdus |-> pdus]
Gse(kind, len, proto) == [kind |-> kind, len |-> len, proto |-> proto]

\* Frames on port 0 with PDUs whole and in fragments, and an IPv4 packet on port 1.
\* A first fragment is of a PDU that fits in an mbuf, but not with its CRC, and a
\* whole PDU of 65530 bytes has a GSE_Length less than its headers take.
Forwarded ==
  {Packet(0, "frame", 7350, <<Gse("start", 1500, "IPv4")>>),
   Packet(0, "frame", 7350,
          <<Gse("whole", 60, "CTRL"), Gse("start", 8062, "IPv4"), Gse("whole", 65530, "IPv6"),
            Gse("whole", 40, "IPv6"), Gse("more", 1500, "IPv4")>>),
   Packet(1, "IPv4", 1514, <<Gse("whole", 1500, "IPv4")>>)}

\* What is dropped: by the receive thread of port 0, by read_pcap because no mbuf
\* holds it, and by the decapsulation thread.
Dropped ==
  {Packet(0, "indication", 60, <<>>),
   Packet(0, "IPv4", 60, <<>>),
   Packet(1, "IPv4", 8114, <<Gse("whole", 8100, "IPv4")>>),
   Packet(1, "IPv6", 60, <<>>)}

MCTraffic == Forwarded \cup Dropped
=============================================================================
