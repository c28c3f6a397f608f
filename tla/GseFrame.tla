------------------------------ MODULE GseFrame ------------------------------
(***************************************************************************)
(* The wire format of a BBFrame: what the encapsulator writes              *)
(* (encapsulate_gse.c, encapsulate_frame.c) and what decapsulate_gse reads *)
(* back (decapsulate.c).  A frame is a BBHeader with a CRC, GSE packets    *)
(* one after the other and padding.  A packet's label is the address of    *)
(* its station, or says that the previous packet's label is meant.         *)
(*                                                                         *)
(* The sender is a peer that builds frames with this code and gives its    *)
(* PDUs the addresses of stations (this router itself gives them the       *)
(* broadcast address); the receiver is this router.  A frame may reach it  *)
(* with its BBHeader hit by a burst of errors.                             *)
(*                                                                         *)
(* Packets are records of header fields.  Sizes are in bytes.              *)
(***************************************************************************)
EXTENDS Naturals, Sequences, Crc8

CONSTANTS
  Prefix, Suffix,   \* the first and the last three bytes of addresses
  LocalPrefix, LocalSuffix,   \* local_mac[0]
  DataSize,         \* sizes of PDUs and of fragments
  Protocol,         \* protocol types of whole PDUs; CTRL is not forwarded
  FragSeq,          \* values of the FRAG_SEQUENCE extension header
  Payload,          \* map_modcod_payload
  LineErrors,       \* bits the line may invert in DFL; 0: none
  MaxPackets,       \* bound: packets sent
  MaxFrames         \* bound: frames sent

IP == "ip"              \* PROTOCOL_IPV4
CTRL == "ctrl"          \* PROTOCOL_CTRL
FRAG_SEQUENCE == "seq"  \* the extension header type 0x0202
BBHEADER == 10          \* sizeof(BBHEADER)
FIXED == 2              \* sizeof(GSE_FIXED_HEADER)
CRC == 4
U16 == 65536

\* DFL counts bits in 16 bits.
ASSUME GseFrameAssumption ==
  /\ LocalPrefix \in Prefix /\ LocalSuffix \in Suffix
  /\ DataSize \subseteq Nat \ {0} /\ FRAG_SEQUENCE \notin Protocol
  /\ Payload \in 1 .. (U16 \div 8) - 1 /\ LineErrors \subseteq 0 .. U16 - 1
  /\ MaxPackets \in Nat /\ MaxFrames \in Nat

\* An address of mac_length bytes; broadcast has no length of its own.
Address == [len: {6}, pre: Prefix, suf: Suffix] \cup [len: {3}, pre: Prefix, suf: {0}]
Broadcast == [len |-> 0, pre |-> 0, suf |-> 0]
Kind == {"W", "S", "M", "E"}   \* WHOLE_PDU, FRAG_START, FRAG_MIDDLE, FRAG_END

VARIABLES
  last,    \* last_mac_address and last_mac_length of the sender
  group,   \* the GSE group of the frame under construction
  line,    \* frames on their way
  rx,      \* the decapsulation thread: the frame it parses and how far it is
  prev,    \* previous_mac_info
  handed,  \* what decapsulate_gse has handed on
  meant,   \* what the frames that arrive undamaged carry for this station
  packets, frames   \* how many were sent

vars == <<last, group, line, rx, prev, handed, meant, packets, frames>>

-----------------------------------------------------------------------------
(* The sender *)

\* The label of address a after address l.
decide_label(a, l, null_frame) ==
  IF a = Broadcast THEN "BROADCAST"
  ELSE IF ~ null_frame /\ a = l THEN "REUSE"
  ELSE IF a.len = 6 THEN "6B" ELSE "3B"

LabelSize(lt) == CASE lt = "6B" -> 6 [] lt = "3B" -> 3 [] lt \in {"REUSE", "BROADCAST"} -> 0

\* A packet holds one PDU or one fragment: nothing asks for a concatenation of PDUs.
get_encapsulation_type(kind) == IF kind = "W" THEN "WHOLE" ELSE "FRAG"

\* calc_gse_variable_header_size: protocol type, fragment ID, total length, label.
calc_gse_variable_header_size(kind, lt) ==
  2 + (IF get_encapsulation_type(kind) = "WHOLE" THEN 0 ELSE 1)
    + (IF kind = "S" THEN 2 ELSE 0) + LabelSize(lt)

\* calc_ext_header_length: the FRAG_SEQUENCE header of a fragment, with next_type.
calc_ext_header_length(kind) == IF kind = "W" THEN 0 ELSE 4

\* The data, the CRC of an end fragment, and the extension headers.
calc_datafield_length(kind, size) ==
  size + (IF kind = "E" THEN CRC ELSE 0) + calc_ext_header_length(kind)

\* package_gse_fixed_header: the start and the end indicator of a packet.
Starts(kind) == kind \in {"W", "S"}
Ends(kind) == kind \in {"W", "E"}

\* calc_gse_length: everything behind the fixed header.
calc_gse_length(kind, size, lt) ==
  calc_gse_variable_header_size(kind, lt) + calc_datafield_length(kind, size)

\* encapsulate_gse with package_gse_variable_header and add_opt_extension_header:
\* the packet for one PDU or fragment.  at is where write_codeblock puts the data,
\* behind all headers; data is what it puts there.
Encapsulated(kind, size, proto, seq, a, lt) ==
  [start |-> Starts(kind), end |-> Ends(kind), label_type |-> lt,
   GSE_Length |-> calc_gse_length(kind, size, lt),
   protocol_type |-> IF kind = "W" THEN proto ELSE FRAG_SEQUENCE,
   label |-> a, seq |-> seq, next_type |-> proto,
   at |-> FIXED + calc_gse_variable_header_size(kind, lt) + calc_ext_header_length(kind),
   data |-> [pdu |-> packets + 1, size |-> size + (IF kind = "E" THEN CRC ELSE 0)]]

\* The bytes of the first k packets of g.
Bytes(g, k) ==
  LET sum[i \in 0 .. k] == IF i = 0 THEN 0 ELSE sum[i - 1] + FIXED + g[i].GSE_Length
  IN  sum[k]

\* The address that a later label may refer to.
update_last_label(a) == last' = a

\* encapsulate_isl_bb for a PDU or fragment that fits in the frame.  Encapsulator.tla
\* has the choice of the PDUs and fragments.
Pack ==
  /\ packets < MaxPackets
  /\ \E a \in Address \cup {Broadcast}, kind \in Kind, size \in DataSize, seq \in FragSeq :
     \E proto \in IF kind = "W" THEN Protocol ELSE {IP} :
       \E g \in {Append(group, Encapsulated(kind, size, proto, seq, a,
                                            decide_label(a, last, group = <<>>)))} :
         /\ Bytes(g, Len(g)) <= Payload
         /\ group' = g
         /\ update_last_label(a)
  /\ packets' = packets + 1
  /\ UNCHANGED <<line, rx, prev, handed, meant, frames>>

\* package_L2L1_Header: the size of the frame, padding included.
package_L2L1_Header == BBHEADER + Payload

\* init_BBHeader: MATYPE1 says a continuous generic single stream (01 1 0 0 0 00).
initialBBHeader == <<96, 0, 0, 0, 0, 0, 0, 0, 0>>

\* package_BBHeader: bytes 5 and 6 are the data field length in bits, the last is
\* the CRC of the others.
package_BBHeader(data_size) ==
  LET DFL == (8 * data_size) % U16
      h == [initialBBHeader EXCEPT ![5] = DFL \div 256, ![6] = DFL % 256]
  IN  Append(h, mcs_get_crc8(h))

\* Header h with the bits e inverted in bytes k and k + 1.
Damaged(h, k, e) ==
  [h EXCEPT ![k] = Xor[@][e \div 256], ![k + 1] = Xor[@][e % 256]]

\* A packet of the router's: for the local address, its prefix or all stations,
\* and not a control message.
Mine(g) ==
  /\ g.label \in {Broadcast, [len |-> 6, pre |-> LocalPrefix, suf |-> LocalSuffix],
                  [len |-> 3, pre |-> LocalPrefix, suf |-> 0]}
  /\ ~ (g.start /\ g.end /\ g.next_type = CTRL)

\* What is to be handed on of packet g.
Contents(g) ==
  [start |-> g.start, end |-> g.end, proto |-> IF g.start THEN g.next_type ELSE CTRL,
   seq |-> IF g.start /\ g.end THEN 0 ELSE g.seq, data |-> g.data]

\* make_frame; the line may damage DFL.
make_frame ==
  /\ group # <<>> /\ frames < MaxFrames
  /\ \E e \in LineErrors :
       /\ line' = Append(line, [KBCH_Length |-> package_L2L1_Header, gse |-> group,
                                BBHeader |-> Damaged(package_BBHeader(Bytes(group, Len(group))),
                                                     5, e)])
       /\ meant' = IF e = 0
                   THEN meant \o [k \in 1 .. Len(SelectSeq(group, Mine)) |->
                                    Contents(SelectSeq(group, Mine)[k])]
                   ELSE meant
  /\ group' = <<>>
  /\ frames' = frames + 1
  /\ UNCHANGED <<last, rx, prev, handed, packets>>

-----------------------------------------------------------------------------
(* The receiver *)

\* The CRC is right, and TS_GS, the two highest bits of MATYPE1, is 0 or 1.
identify_gs(h) == mcs_get_crc8(SubSeq(h, 1, BBHEADER - 1)) = h[BBHEADER] /\ h[1] < 128

\* process_frame_header: a frame that identify_gs refuses is freed.
process_frame_header ==
  /\ rx.gse = <<>> /\ line # <<>>
  /\ line' = Tail(line)
  /\ LET f == Head(line)
         DFL == 256 * f.BBHeader[5] + f.BBHeader[6]
     IN  rx' = IF identify_gs(f.BBHeader)
               THEN [gse |-> f.gse, offset |-> 0, bfirst_gse |-> TRUE,
                     frame_size |-> f.KBCH_Length,
                     padding_bytes |-> (f.KBCH_Length + U16 - BBHEADER - DFL \div 8) % U16]
               ELSE rx
  /\ UNCHANGED <<last, group, prev, handed, meant, packets, frames>>

\* equal_mac, for the first len bytes.
equal_mac(p, s, q, t, len) == p = q /\ (len = 6 => s = t)

\* Mutant of filter_address: a reused label is compared as 6 bytes.
filter_address_all(g, bfirst_gse) ==
  CASE g.label_type = "BROADCAST" -> TRUE
    [] g.label_type = "REUSE" ->
         /\ ~ bfirst_gse
         /\ \/ prev.label_type = "BROADCAST"
            \/ equal_mac(LocalPrefix, LocalSuffix, prev.pre, prev.suf, 6)
    [] OTHER -> equal_mac(g.label.pre, g.label.suf, LocalPrefix, LocalSuffix, g.label.len)

\* Whether the packet is for this station: the first of a frame must say so itself.
filter_address(g, bfirst_gse) ==
  CASE g.label_type = "BROADCAST" -> TRUE
    [] g.label_type = "REUSE" ->
         /\ ~ bfirst_gse
         /\ \/ prev.label_type = "BROADCAST"
            \/ equal_mac(LocalPrefix, LocalSuffix, prev.pre, prev.suf, prev.mac_length)
    [] OTHER -> equal_mac(g.label.pre, g.label.suf, LocalPrefix, LocalSuffix, g.label.len)

\* The label it remembers; three bytes overwrite only half of the address.
Remembered(g) ==
  CASE g.label_type = "REUSE" -> prev
    [] g.label_type = "BROADCAST" -> [prev EXCEPT !.label_type = "BROADCAST"]
    [] OTHER -> [label_type |-> g.label_type, mac_length |-> g.label.len, pre |-> g.label.pre,
                 suf |-> IF g.label.len = 6 THEN g.label.suf ELSE prev.suf]

\* The sizes decapsulate_gse_header takes from the indicators and the label type.
VarHeader(g) ==
  2 + (IF g.start /\ g.end THEN 0 ELSE 1) + (IF g.start /\ ~ g.end THEN 2 ELSE 0)
    + LabelSize(g.label_type)

\* get_extension_header_info, for the one type that is in use: H_LEN is 2.
ExtHeader(g) == IF g.protocol_type = FRAG_SEQUENCE THEN 4 ELSE 0

\* The packet as it is parsed: data at another place than the sender's is garbage.
Parsed(g) ==
  [start |-> g.start, end |-> g.end,
   proto |-> IF g.start THEN IF ExtHeader(g) > 0 THEN g.next_type ELSE g.protocol_type
             ELSE CTRL,
   seq |-> IF ExtHeader(g) > 0 THEN g.seq ELSE 0,
   data |-> [pdu |-> IF FIXED + VarHeader(g) + ExtHeader(g) = g.at THEN g.data.pdu ELSE 0,
             size |-> (g.GSE_Length + U16 - VarHeader(g) - ExtHeader(g)) % U16]]

\* get_single_pdu does not take a control message; fragments go to the reassembly.
Taken(g) == ~ (g.start /\ g.end /\ Parsed(g).proto = CTRL)

\* The packet that begins at byte n of the frame, as a set; it is empty when n is
\* not the beginning of a packet.
PacketAt(n) == {rx.gse[k + 1] : k \in {i \in 0 .. Len(rx.gse) - 1 : Bytes(rx.gse, i) = n}}

\* Mutant of More: the padding is not counted.
MoreAndPadding(n) == BBHEADER + n < rx.frame_size

\* The loop condition of decapsulate_gse.
More(n) == BBHEADER + n + rx.padding_bytes < rx.frame_size

Idle == [gse |-> <<>>, offset |-> 0, bfirst_gse |-> TRUE, frame_size |-> 0, padding_bytes |-> 0]

\* One round of the loop of decapsulate_gse; the frame is freed after the last one.
decapsulate_gse ==
  /\ rx.gse # <<>>
  /\ \E g \in PacketAt(rx.offset) :
       /\ handed' = IF filter_address(g, rx.bfirst_gse) /\ Taken(g)
                    THEN Append(handed, Parsed(g)) ELSE handed
       /\ prev' = IF rx.bfirst_gse /\ g.label_type = "REUSE" THEN prev ELSE Remembered(g)
       /\ \E n \in {rx.offset + FIXED + g.GSE_Length} :
            rx' = IF More(n)
                  THEN [rx EXCEPT !.offset = n,
                                  !.bfirst_gse = @ /\ ~ filter_address(g, rx.bfirst_gse)]
                  ELSE Idle
  /\ UNCHANGED <<last, group, line, meant, packets, frames>>

-----------------------------------------------------------------------------
Init ==
  /\ last = Broadcast /\ group = <<>> /\ line = <<>>
  /\ rx = Idle
  /\ prev = [label_type |-> "6B", mac_length |-> 0, pre |-> 0, suf |-> 0]
  /\ handed = <<>> /\ meant = <<>>
  /\ packets = 0 /\ frames = 0

decapsulate_thread == process_frame_header \/ decapsulate_gse

Next == Pack \/ make_frame \/ decapsulate_thread

\* The decapsulation thread loops for ever.
Spec == Init /\ [][Next]_vars /\ WF_vars(decapsulate_thread)

-----------------------------------------------------------------------------
(* Properties *)

\* What is handed on is what the sender meant for this station, in order and with
\* its protocol, sequence number, place and size, whatever frames are lost: the
\* label remembered from earlier packets and frames never lets in or keeps out a
\* packet wrongly.
HandsOnWhatIsMeant ==
  /\ Len(handed) <= Len(meant)
  /\ handed = SubSeq(meant, 1, Len(handed))
  /\ line = <<>> /\ rx.gse = <<>> => handed = meant

\* The bursts of at most eight bits in the header of n bytes of packets that
\* identify_gs does not see.
UnseenBursts ==
  [n \in 0 .. Payload |->
     {<<k, b, shift>> \in (1 .. BBHEADER - 1) \X {b \in Byte : b % 2 = 1} \X (0 .. 8) :
        identify_gs(Damaged(package_BBHeader(n), k, b * 2^shift))}]

\* Whatever the frame under construction holds, its header is refused when a burst of
\* errors hits it, wherever the burst lies: a wrong DFL would move the end of the
\* packets.
BurstsRefused == UnseenBursts[Bytes(group, Len(group))] = {}

\* Every frame is parsed to its end: the parser never takes padding or data for a
\* header, where it would stand still.
FramesEnd == []<>(line = <<>> /\ rx.gse = <<>>)
=============================================================================
