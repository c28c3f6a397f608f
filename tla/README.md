# A TLA+ verification of the fengtai GSE/BBFrame router

`fengtai` forwards packets between a satellite-style port 0, which carries
BBFrames full of GSE packets, and an Ethernet port 1, which carries IP.
PDUs from port 1 are packed into BBFrames and, when they do not fit, cut into
fragments; GSE fragments from port 0 are put together again and sent on port 1.
This directory models the parts of the program that carry that logic, checks
them with TLC on small instances and proves some of the results with TLAPS.
The repository has no tests; its comments (in Chinese) state what the code is
meant to do.

The build is x86, `-O0`, GNU C11, and defines only `cmdline`: where the code has
`#ifdef TAG_ROUTE`, the `#else` branch is the program, and every module but
`TagRouter` models that. `base.conf` gives one decapsulation, one encapsulation
and two receive threads and six rings of each kind. All pools are without cache,
with 8192 bytes of data room, and `MAX_PKT_BURST` is 1.

## 1. Inventory

| Component | State | Operations | Interaction |
|---|---|---|---|
| Receive threads 0 and 1 (`receive.c`, `router_libcap.c`) | receive pool, `rcv_ring[i]` | read a packet, filter by Ethernet type, enqueue | feed the decapsulation thread |
| Decapsulation thread (`decapsulate.c`) | `previous_mac_info`, round-robin index | `process_frame_header`, `decapsulate_gse`, `filter_address` | fragments to the reassembly, whole PDUs to `encap_ring[0]`, port 1 packets to `encap_ring[1]` |
| Reassembly (`decapsulate.c`) | `g_frag_info[port][ID][2]`, `frag_buffer_index_list`, decapsulation pool | `start_`, `keep_`, `finish_reassemble_pdu`, `fragment_timeout` | complete PDUs to `encap_ring[0]` |
| Encapsulation thread (`encapsulate.c`) | `encap_param`, `frame_payload`, `loop_count` | `get_frag_pkt`, `get_whole_pkt`, `encapsulate_isl_bb`, `fragment_process`, `make_frame`, `force_send`, `snd_single_pdu` | consumes both encap rings, produces `snd_bb_ring[1]` |
| GSE and frame packing (`encapsulate_gse.c`, `encapsulate_frame.c`) | PDU group, GSE group, last label, time stamp counters, encapsulation pool | `update_pdu_group`, `encapsulate_gse`, `encapsulate_frame`, `write_codeblock` | frees the PDUs' mbufs, allocates the frame's |
| Fragmentation (`fragment.c`) | `fragment_buffer[256]`, last ID given out | `run_fragment`, `allocate_fragmentID`, `fetch_pdu_fragment` | fragment ID queue |
| Circular queue (`circular_queue.c`) | head, tail, size, cells | `Push`, `Pop`, `Clear`, `GetElement`, `SetElement` | holds the IDs being sent |
| Sending thread (`encapsulate_frame.c`, `rcv_send.c`) | - | dequeue, `snd_pkt`, free | drains `snd_bb_ring` |
| Rings (`ring_queue.c`, `lib/include/rte_ring*.h`) | two heads, two tails, slots | enqueue and dequeue, single, bulk and burst | between all threads, and inside the pools |
| mbufs and pools (`lib/include/rte_mbuf.h`, `rte_mempool.h`) | data offset and length, free mbufs | alloc, free, append, adj | everywhere |
| Linked list (`list_template.c`) | list and node pointers | insert, remove, push, pop, link | index lists of the reassembly |
| Router headers (`router.c`, `encapsulate.c`, `decapsulate.c` under `TAG_ROUTE`) | routing and mapping tables, `pdu_buffer` | `router_func`, `encapsulate_pdu`, `decapsulate_pdu` | alternative build |
| Log (`system_log.c`) | file, line count, date, mutex, read-write lock | `router_printf`, `split_log`, `safe_rename` | called by every thread |
| CRC, configuration (`general_module.c`) | CRC tables, configuration | `mcs_get_crc8`, `crc32_lookup_table`, readers of the `.conf` files | headers, end fragments, start |
| Start-up, timer (`main.c`, `sys_thread.c`, `timer.c`) | thread pools, `g_u32_now_time` | create threads, `time_creator` | the clock of the timeout check |
| Statistics, pcap dump, tun, version | counters, files | I/O | none on forwarding |

What is hard here: fragments are lost, repeated and reordered between the two
ends, and the reassembly must keep apart PDUs that share an ID with two buffers
and a time stamp; mbufs change owner between pools, buffers, rings and threads,
with many error paths; several threads work on one ring without a lock; a label
refers to an earlier packet that the receiver may have lost; sizes are 16-bit
unsigned numbers; the encapsulator keeps a PDU alive over several frames; a
partly filled frame, an incomplete PDU, a packed packet or a call of the logger
may have to wait for something that never comes. What makes each component
correct is the list of properties in section 3; `PROJECT.json` lists the
hazards, each at its line.

## 2. Modules

| Module | Models |
|---|---|
| `Reassembly` | the reassembly, open: any fragment may arrive at any time |
| `ReassemblyChannel` | the reassembly behind three channels |
| `MCReassembly`, `MCReassemblyOrdered` | fragment catalogues for TLC, and the choice of a channel |
| `ReassemblyProofs`, `ReassemblyChannelProofs` | theorems about the two |
| `CircularQueue` | `circular_queue.c` as operators on a record |
| `FragmentIdQueue` | the circular queue as `fragment.c` uses it |
| `FifoQueue` | abstract specification of a bounded queue |
| `FragmentIdQueueProofs` | theorems about `FragmentIdQueue`, the refinement among them |
| `Encapsulator` | encapsulation thread on ring 1, fragmentation, frames, sending thread |
| `PduCarrier` | abstract specification: PDUs are carried completely, once, in order |
| `EncapsulatorProofs` | theorems about `Encapsulator` |
| `GseFrame` | the wire format: a sender's labels, lengths and headers, and the parser |
| `Crc8` | the CRC of the BBHeader, as computed |
| `Mbuf` | the mbuf and pool operations the program uses, as operators |
| `Pipeline`, `MCPipeline` | all threads, rings and pools, and the mbufs that pass through |
| `PipelineProofs` | theorems about `Pipeline` |
| `RteRing` | the DPDK ring, one access to shared memory per step |
| `BurstQueue` | abstract specification of a queue with bursts |
| `RteRingProofs` | theorems about `RteRing`, the refinement among them |
| `LinkList`, `MCLinkList` | `list_template.c` with its pointers |
| `NodeLists` | abstract specification: lists are sequences of nodes, with one action per function |
| `LinkListProofs` | theorems about `LinkList`, the refinement among them |
| `TagRouter`, `MCTagRouter` | several routers of the `TAG_ROUTE` build |
| `SystemLog` | `router_printf` in several threads |
| `SystemLogProofs` | theorems about `SystemLog` |

`Pipeline` composes the threads and abstracts what `Encapsulator`, `GseFrame` and
`Reassembly` have in detail (where a frame is full, which buffer a fragment goes to);
the rings of `Pipeline` are the atomic queues that `RteRing` is shown to
implement. `Reassembly` uses the lists as the sequences that `LinkList` is shown
to implement.

The mutants (`RotateWithoutPush`, `PopWithoutWrap`, ...) that stand before some
definitions are plausible wrong versions of them; each property of a passing run
is violated when one of them takes the definition's place.

### Reassembly

`info[k][i]` is `g_frag_info` for a (port, ID) pair `k` and buffer `i`. The 256
IDs and 8 ports become the set `FragId`. A fragment is the record that
`decapsulate_gse` has parsed when it calls the reassembly; its bytes are
abstracted to the PDU it was cut from. `frag_len[s]` and `data_addr[s]` become
`frag[s]`, which is `Null` when the length is 0. The 16-bit counters keep their
width, because one of them wraps (a repeated start fragment). `list` is the
index list; `Rotate` is the remove-and-push pair. `free` and `ring` are the pool
and `encap_ring[0]`, and `snd_single_pdu` is the encapsulation thread's end of
that ring. `age` and `elapsed` are the two clocks: `gettimeofday` for the
buffers, `g_u32_now_time` for the call of `fragment_timeout`. Each handler is
one action, with the early returns as disjuncts: `finish_reassemble_pdu` is part
of the action of the fragment that completes a PDU, as in the code.

The CRC-32 is taken to detect every mixture of fragments: `CrcMatches` holds
exactly when the copied fragments are those of one PDU in order. A fragment has a
sequence number below `FRAG_MAX_NUM` (6); the code does not check it (the field
has 3 bits) nor the length against `FRAG_MAX_LENGTH`, and what an access beyond
the arrays does is outside the model. So are end fragments without data besides
the CRC, for which the code would compute a length below zero.

### CircularQueue, FragmentIdQueue

A queue is a record with the fields of `CIRCULAR_QUEUE`. `Push`, `Pop` and
the others return the changed queue. `GetElement` on an empty queue reads the
last cell, as the unsigned arithmetic does for 256 cells. `FragmentIdQueue` puts
the queue under the discipline of `fragment.c` (an ID is pushed only when it is
unused, and the head is overwritten with -1 before it is popped). A push on a
full queue moves both ends by two when the tail does not wrap, and can write
beyond the array; `PushFull` says so, and the discipline never gets there.

### Encapsulator

`enc` is what the encapsulation thread keeps for ring 1: `max`, `used` and
`usable` are `FRAME_PAYLOAD`, `gse` the GSE group, `buf` and `queue` the
fragment buffers and the ID queue, `last`, `cur` and `count` the static
variables of `run_fragment` and `update_pdu_group`. `built` and `freed` are
history: the packets of the frames finished so far, those frames included that are
then lost for want of a frame mbuf, and how often the mbuf of a PDU was freed. The
properties of the stream of packets are about `built`. `out` counts the frame mbufs on their way to the sending thread.
A PDU group is the node it consists of and how often it was added: `Header` and
`Datafield` give the length that `update_pdu_group` computes. `PackWhole` and
`PackPart` are branches 1.1 and 1.2 of `encapsulate_isl_bb`; `DrainFragment`,
`EncapsulateWhole` and `Idle` are the three things a round of
`encapsulate_thread` can do on ring 1. Every PDU gets the broadcast address in
`read_enapsulate_buffer`, so no packet has a label. The 8-bit fragment count and
the 3-bit sequence number are not cut off: an mbuf of 8 KiB and the smallest
payload of the modcod table (1991 bytes) give at most six fragments.
`update_frame_payload` works on 16 bits in the model as in the code. The 8-bit
packet count `gse_num` is not cut off either: a frame of 7264 bytes holds at most
145 packets of the smallest Ethernet payload (46 bytes).

### GseFrame, Crc8

The sender is a peer that builds frames with this code and gives its PDUs the
addresses of stations; the receiver is this router. An address is a prefix and a
suffix of three bytes, because a three-byte label overwrites half of
`previous_mac_info`. A packet is a record of its header fields, with the offset
`at` which its data have in the sender's frame: the receiver computes an offset
from what it parses, and data found elsewhere are garbage (`Parsed`). The BBHeader
is its ten bytes. `DFL` counts bits in 16 bits, which needs a payload below 8192.
`LineErrors` is what the line may do to `DFL`; a damaged frame is dropped by
`identify_gs`, as a lost one would be. `crc8_table` is `mcs_init_crc8_table`, with
the 32-bit shifts cut to the 8 bits that are kept.

### Pipeline, Mbuf

An mbuf has a data offset, two lengths, the protocol type of its private area and
its contents; neither is cleared on reuse, in the model as in the code. A pool is
the sequence in which its mbufs come back (a ring without cache). One action per
thread step, with every error path that frees or keeps an mbuf: no mbuf, no room,
a refused Ethernet type, a frame without an mbuf, an unknown message. Threads begin
in the order of `create_multi_threads` and at once. Rings have 8192 * 64 entries,
more than there are mbufs, so enqueues do not fail. `cuts` says that a PDU may need
several frames; `open` holds the PDUs of the frame under construction.

A frame that arrives holds GSE packets: whole PDUs, first fragments and other ones.
`decapsulate_gse` takes them out one per step. `get_single_pdu` passes over a control
message before it asks for an mbuf, loses a PDU when there is none, and gives the
mbuf back when the PDU is longer than its tailroom (lines 1604, 1618 and 1645).
`start_reassemble_pdu` does the same for the total length and the CRC (line 1835).
`held` has the mbufs that were taken for PDUs not yet complete, in `frag_info`. Which
of them a fragment meets is `Reassembly`'s subject, so here it may be any: one may be
given up first (`GivenUp`), the fragment may be stored, or it completes its PDU,
which `finish_reassemble_pdu` sends on or gives back. An mbuf whose pointer is overwritten
after repeated first fragments (section 5) stays in `held` for ever.

`SendPdu` and `SendFrame` are `snd_pkt`, which repeats a refused packet for ever: they
are the steps in which a device accepts. Nothing says that they ever happen.

### RteRing

Every step reads or writes one shared field or moves one head with
compare-and-set: `LoadHead`, `LoadRoom`, `Cas`, the copy and `update_tail`. Indices
wrap at `IndexMod`, which stands for 2^32. x86 keeps the order of loads and of
stores, and a locked instruction is a fence, so interleavings are all there is.
A head that was read long ago can make `free_entries` nonsense; the
compare-and-set then fails. The index coming round between the load and the
compare-and-set is excluded by `MaxObjs < IndexMod`.

### LinkList

`next`, `pre`, `tail` and `size` per list and node, changed in the order of the
code. The operations are called as their comments demand: on an allocated node,
at an existing position. The comments of the two Insert functions also provide for a
position at or beyond the end, which becomes the end (`Clipped`); `AppendByInsert`
allows such calls. `Insert_Node` then follows a NULL pointer, after which nothing
happens any more (`Died`), and `Insert_Exist_Node` leaves `tail` behind. `call` has
the name of the last call and its arguments. `NodeLists` has the same variable, so
that a step of the one is the step of the same call in the other: a push that went to
the front, or a removal of another node than the one named, is no step of `NodeLists`.

### TagRouter

A packet is its length, its segment list (with the byte order it is in),
`CUR_ENTRY`, direction and the routers that handled it. Routers are connected by
`Cable`; `RouterConf` and `MappingConf` are the lines of `router.conf` and
`mapping_tbl.conf`. `buf[r][i]` is the `pdu_buffer` of mapping entry `i`, filled by
`encapsulate_pdu` and sent when it is full or the ring is empty. `router_table_id` is
not set in the FWD direction and indexes a table of 8 entries unchecked, so that the
test for room adds any 16-bit number that memory may hold (`HeaderSizeRead`). The room
itself, `usable_payload`, has 16 bits and comes round. A packet that does not pass the
test on an empty buffer is neither added nor freed: `left` has these. `overrun` says
that a packet was written beyond the `pdu_buffer`; what it overwrites is not modelled.
A packet of `PDU_BUFFER_SIZE` bytes or more is given back (`TooLong`) by
`encapsulate_pdu` and `snd_single_pdu`. Before that, `prepare_l2l1_pdu` has copied
it through an array of 4096 bytes without a test (`decapsulate.c` lines 639-640); what a
longer one does to the stack is not modelled.

### SystemLog

A thread's place in `router_printf` is its `pc`; `mutex`, `readers` and `writer`
are the locks; `calls` is the line count, `system_time` and `date` the two dates
that are compared; `lines` and `old` are the lines in `router.log` and those
elsewhere (renamed files, stdout). A rename that fails for ten seconds and a failing `fopen` are choices,
bounded by `MaxFails`.

## 3. Runs

| Run | Configuration | Shows |
|---|---|---|
| `any_channel` | `ReassemblyAny.cfg` | `TypeOK`, `MbufUnique`, `NoReplay`, `DeliveredIntact` with any losses, repetitions and orders |
| `ordered_channels` | `ReassemblyOrdered.cfg` | `ArrivedIsDelivered`, `NoLeak` when the channel only loses, and when it loses nothing but fragments of two PDUs overtake each other |
| `timer_not_started` | `ReassemblyNoTimer.cfg` | violation of `TimeoutDiscards`: no timeout ever happens in this build |
| `fragment_id_queue` | `FragmentIdQueue.cfg` | `QueueTypeOK`, `IdsDistinct`, and that the queue implements `FifoQueue` |
| `encapsulator` | `Encapsulator.cfg` | `ETypeOK`, `FrameSound`, `UsedIsContents`, `StreamWellFormed`, `TimeStampsDiffer`, `FreedOnce`, `AllFlushed`, and that the encapsulator implements `PduCarrier` |
| `gse_frame` | `GseFrame.cfg` | `HandsOnWhatIsMeant`, `BurstsRefused`, `FramesEnd` |
| `pipeline` | `Pipeline.cfg` | `EachInOnePlace`, `DataInside`, `SentAsReceived`, `AllGivenBack` |
| `rte_ring` | `RteRing.cfg` | `RingTypeOK`, `IndicesOrdered`, `ReservedApart`, `CallsReturn`, and that the ring implements `BurstQueue` |
| `link_list` | `LinkList.cfg` | `DoublyLinked`, and that the pointers implement `NodeLists`, without insertion at the end |
| `link_list_insert` | `LinkListInsert.cfg` | violation of `DoublyLinked`: `Insert_Exist_Node` at the end |
| `tag_network` | `TagRouter.cfg` | `HeadersSound`, `WayFollowed`, `NothingForgotten`, `InOrder`, `AllArrive` |
| `system_log` | `SystemLog.cfg` | `NoUseAfterClose`, `FileBounded`, `CallsReturn` |

The violations. `timer_not_started`: `fragment_timeout` is called when `get_cur_time_s` advances, which
only `time_creator` makes happen, and its `pthread_create` stands in an `#if 0`
block. The comments say that an incomplete PDU is discarded in time; it stays
until another PDU evicts it. The other runs have `TimerStarted` as they need it:
`any_channel` with the clock running, so that a timeout happens at every point,
`ordered_channels` as the build is.

`link_list_insert`: the comment at `list_template.c` line 100 says that a position that
is too large becomes the end of the list. The test for the last position stands behind
`size++` (line 124) and never holds, so `tail` keeps pointing at the node before, and
the next push loses the node. Nothing in the repository calls the function.

Bounds.

* `any_channel`: two PDUs of the same shape on one ID, each fragment up to twice,
  two mbufs, a ring of one place and both clocks: the smallest instance in which
  eviction, a failed allocation, a full ring and a timeout happen at every point
  of a reassembly. A start with a wrong number and one that announces too long a
  PDU are there for the two early returns.
* `ordered_channels`: on the channel that loses, four PDUs on one ID, the first with
  time stamp 0, so that both buffers are evicted twice, and one PDU on another ID; on
  the other channel four PDUs of two or three fragments on a third ID. `MaxArrivals`
  bounds repetitions. The mbufs are symmetric: no action compares them.
* `encapsulator`: four PDUs of sizes 70 (three fit in a frame of 230), 190, 216
  (leaves less than the padding threshold in an empty frame) and 226 (fills one to
  the last byte), which are cut when they come behind others; a `GSE_MAX_SIZE` of 150, so that long PDUs get middle fragments; two IDs and two
  time stamps, so that both wrap; two frame mbufs, so that frames are dropped for
  want of one.
* `gse_frame`: three packets in two frames, whole PDUs, all kinds of fragments,
  control messages, addresses of three and six bytes that agree in one half, and
  damage to either frame. A packet takes 9 to 24 bytes, so a frame of 40 holds up
  to three and ends with padding. `BurstsRefused` tries every burst of up to eight
  bits in the header of every frame that is built.
* `pipeline`: three packets out of the seven kinds of `MCTraffic`, two receive mbufs,
  two of the decapsulation, so that one may be held for an unfinished PDU while
  others pass, and one for frames; every allocation fails at some point and every
  mbuf is reused. The lengths are the real ones, with a whole PDU of 65530 bytes and
  a fragmented one that fits in an mbuf only without its CRC. Of fragments the length
  and the protocol type tell PDUs apart. An open frame is sent after one empty poll;
  that it is one hundred, and counted anew after a PDU, is in `encapsulator`.
* `rte_ring`: three threads, one of which enqueues and dequeues, four slots (three
  usable), bursts of two, each side single or multi, indices that wrap at 16 and
  start at 14, so that they do.
* `link_list`: two lists and three nodes; every operation in every order, without
  a bound on the number of calls. Nodes are symmetric, and so are lists: the model
  compares neither in order. `link_list_insert` has the same instance.
* `tag_network`: three routers in a row, three packets, rings of one place, so that
  enqueues fail. A packet of 6 bytes, with its router header, goes into a buffer of 60
  several times; behind one of 21 it passes the test for room and leaves less than none,
  so that the room comes round and a third packet is written beyond the buffer; one of
  50 is too long. The header size read is 0, a right one or the largest of 16 bits, with
  which the packet fits nowhere. The three kinds of links are in `MCTagRouter`. No next
  hop is reached through port 1, so that the direction, which `prepare_l2l1_pdu` sets to
  that port, is never `DIRECTION_RTN`.
* `system_log`: three threads, four lines, a file split after every line, a change
  of day, one failure. More threads add readers and no new kind of wait.

Deadlock checking is off where the model is fed a finite number of inputs and then
rests (`Reassembly*`, `GseFrame`, `TagRouter`, `SystemLog`), and on in the others.

Fairness. All threads are endless loops and the scheduler runs each of them:
`SpecTimed`, `EFairSpec`, `GseFrame!Spec`, `TagRouter!Spec`, `Pipeline!Spec` and
`RingSpec` have weak fairness of the threads' steps, and of time where a clock is
modelled. `Pipeline!Spec` assumes nothing of the devices: `snd_pkt` may repeat a packet
for ever. `AllGivenBack` states what then depends on which device: if port 1 goes on
accepting packets the receive pool comes back, and the decapsulation pool but for
unfinished PDUs; if port 0 does too, so does the frame pool. Without port 1 neither
direction moves, as one thread serves both. `RingSpec` is fair to
every thread inside a call; the wait of `update_tail` ends only because the thread
that reserved before is scheduled too. `SystemLog` adds strong fairness of taking
the mutex, which glibc does not promise in the letter: a thread that waits for a
mutex that is released again and again gets it some time. Nothing is assumed of
arrivals.

## 4. Proofs

Every theorem holds for all values of the constants that satisfy the named
assumptions of its modules. Seldom is a property inductive as it stands; what
follows names the invariant that is, and why the property needs it.

`ReassemblyProofs` (`Reassembly`; from `ConstantsAssumption`):

* `TypeCorrect`: `Spec => []TypeOK`. `TypeOK` is inductive; one lemma per
  operator on buffers and one per action. The 16-bit arithmetic is isolated in
  `ModWord` and `WordFacts`.
* `MbufOwnership`: `Spec => []MbufUnique`. `TypeOK /\ MbufUnique` is inductive: the
  type is needed to know that an index taken from a list is one. `BufferStep` does
  the work: a step that changes one buffer, and moves only what that buffer and
  the pool held, keeps every mbuf at one owner.

`ReassemblyChannelProofs` (`ReassemblyChannel`). `Effect` says what any fragment
does to the state: at most one buffer changes, it keeps only cells it had or the
fragment that came, and a delivery is of a buffer that `CrcMatches`.

* `OnlyWholePdus`: `SpecAny => []DeliveredIntact`, with `AllWhole` (every entry of
  the ring is a whole PDU) as the invariant. It uses `CutAssumption`: fragments of a
  PDU have different numbers and the end has the highest, as the sender cuts them.
* `NothingReplayed`: `SpecAny => []NoReplay`. `ReplayInv` counts: for each fragment,
  the buffers that hold it and the deliveries that contained it are together at
  most its arrivals (`Accounted`), and a fragment is only in the cell of its number
  (`Placed`). The property speaks of deliveries alone, and would not survive a step.
* `NothingLeaks`: `SpecFifo => []NoLeak`. The mbuf that `start_reassemble_pdu` drops
  when a buffer has `num = 0` and a `ptr` is the danger. `FifoInv` says that `num`
  is the number of filled cells and an mbuf comes with cell 0 (`Tidy`), that a
  buffer is not older than the last PDU that arrived (`Dated`), and that every mbuf
  is reachable. `StampAssumption` says that the PDUs of an ID differ in their time
  stamps, without which a restarted sender could meet its own time stamp.

`FragmentIdQueueProofs` (`CircularQueue`, `FragmentIdQueue`; any `QueueMaxSize` of
at least 2). `QueueInv` has the type, `Shape` (the tail is `size - 1` places after
the head, both wrapped) and `Elements` (the queue holds different IDs, the cells
outside hold none). `QueueInRange`, `IdsStayDistinct` and `QueueIsFifo` follow from
it. `FullHasAll` shows by cardinality that a full queue holds every ID, so that
nothing is pushed on it; the wrap is isolated in `Wrap` and its four lemmas.

`EncapsulatorProofs` (`Encapsulator`; from `EncapsulatorAssumption`: a payload of at
least four padding thresholds, PDUs of any 16-bit size, any number of IDs; the code
has 8192 time stamps, and at least two are assumed).

* `EncapsulatorTypes` (`ETypeOK`) and `FramesAreSound` (`FrameSound`) follow from
  `EncInv`: the frame is `Closed` or `InUse`, and the encapsulator is either `Resting`
  (the queue of IDs is empty, no buffer in use) or `Sending` the PDU of one ID, whose
  next fragment fits. `FrameSound` alone is not inductive: a fragment that did not fit
  would be cut again. It fits because the frame is new whenever a fragment is fetched,
  or holds one middle fragment of half a payload (`SendingId`), and `CutSizes`
  bounds the end fragment, also when its length wraps. The 16-bit arithmetic is in
  `FullTurn`, `NoTurn` and `SizeFacts`.
* `LengthsAddUp` (`UsedIsContents`): the invariant `SumInv` carries the lengths of the
  first packets as a function, which each step extends (`AddsLonger`) and which the packets
  determine (`AddsOnce`).
* `MbufsFreedOnce` (`FreedOnce`): `FreedInv` divides the PDUs into those with an end
  in the frame, those given back, and those unfinished; at most one is in a buffer.
* `StreamSteps` says what any step does to the stream of packets: nothing, a whole
  PDU, the start fragment of one, or the next fragment. From it come
  `StampsAlternate` (`TimeStampsDiffer`; `StampsOf` says that the last start fragment
  of an ID has the time stamp that the counter of the ID shows, and `AnotherId` that a
  new PDU never gets the last ID again, so that its counter advances) and
  `RunsAreWhole`: `ESpec /\ []EndsHoldCrc => []StreamWellFormed`. `EndOf` relates the
  last packet to the buffer: the next fragment begins where that one ended. The
  hypothesis is that no remainder of a PDU being cut is shorter than the CRC;
  where it is, the end fragment has a wrong length (section 5), and the property is
  false. The run has only sizes that satisfy it.

`RteRingProofs` (`RteRing`; any number of threads, `Size`, `IndexMod`). An index
wraps, so that "before" means nothing of two indices; `Pos(s, x)` is the number of
objects that passed index `x` since the start index `s`, and does not wrap because
`MaxObjs < IndexMod` objects are enqueued at all. That bound is the assumption the
ring itself rests on: a thread that sleeps between its load and its compare-and-set
while 2^32 objects pass would succeed with a stale head.

* `RingTypes`, `RingIndicesOrdered`, `ReservationsApart`: `RingInv` orders the
  indices (`Ordered`), says for each call what its values were read from (`CallOK`:
  a head read earlier is behind the head now, a room computed from it is right if the
  compare-and-set still succeeds), that reservations are disjoint, that slots
  between the consumer's tail and the producer's tail are stored, and that an object
  not yet stored is in the hands of one call. Disjointness alone is not inductive:
  `update_tail` hands slots to the other side.
* `RingIsBurstQueue`: `RingSpec => ActsAsBurstQueue`. Objects enter the abstract queue
  when `prod.tail` moves, leave it when `cons.head` moves, and are handed over when
  `cons.tail` does. `QuietSteps` lists the steps that stutter, `CasTakes`,
  `CopiesUnseen` and `TailShows` are the others.

`PipelineProofs` (`Pipeline`; pools of any size that have no mbuf in common, traffic
of any kind and length, frames with any GSE packets, any number of idle rounds). Only
`SentIsReceived` uses `TrafficAssumption`: a packet of port 1 whose type was read as
IPv4 or ARP in its Ethernet header has such a header and is one PDU. Nothing is
assumed of the lengths in a frame: a PDU, whole or in fragments, that does not fit in
an mbuf is refused by the two checks of the code, which the models have.

* `EveryMbufHasOnePlace`: `Spec => []EachInOnePlace`. `Placed` puts the seventeen places
  where an mbuf can be (rings, pools, hands of threads, the frame under construction,
  `held` for unfinished PDUs) in one tuple of lists, no mbuf twice in one or in two of
  them, and every mbuf of a pool in some of them. A thread's step takes mbufs off the
  front of a list and puts them at the end of another (`HandedOn`, `TakenFrom`,
  `FreedOne`), one lemma per action. An unfinished PDU may leave `held` from any place;
  `BroughtForward` reduces that to its front, since `Placed` does not depend on the
  order of `held` (`Permuted`). `FreedList`, for the PDUs of a finished frame, and
  `JoinAll`, which goes from the tuple to one long sequence without repetition, are
  inductions.
* `DataStayInside`: `Spec => []DataInside`. `Filled` adds to `Placed` that the data of
  every mbuf are inside its buffer (`Sound`), that an mbuf on its way to the
  decapsulation carries a packet of the traffic, a frame on its way to port 0 is
  `FrameSize` long and a PDU is shorter than `PDU_BUFFER_SIZE`. `HeldRight` says that
  an mbuf in `held` has the length and the protocol type of the PDU whose first
  fragment it was taken for. `Placed` is needed because writing to one mbuf must not
  change another place's: `SingleTakes`, `StartTakes` and `KeepTakes` say which mbufs
  the three functions of the decapsulation may write.
* `SentIsReceived`: `Spec => []SentAsReceived`. `Traced` names seventeen stages, the
  thirteen places where an mbuf is in use, the packets sent on either port, the frame
  being built and what remains in the frame being opened. It says what the mbufs of
  each place carry (`Right`), that the PDUs within a place are in order (`PlaceInv`),
  that those of a stage nearer the exit come before those behind it (`Chained`,
  `Ahead`), also between the two ways to port 1, and that the copy about to be sent
  has the PDU it was made of (`CopyInv`). The property alone is not inductive: what
  is sent next is in an mbuf that was used before. There is one lemma per action
  (`...Traced`); `PassedOn`, `Moved`, `Shrunk` and `SentOn` are the ways in which a
  step changes the stages, and `GrownTrace` adds a packet. `Placed` and `Filled` are
  used for the mbuf that is written. What `held` carries is not a stage, since PDUs
  leave it in any order; `HeldRight` gives the length and type with which one goes on,
  and the fragment that completes it its place in the order (`TakenOutTraced`).

`LinkListProofs` (`LinkList`; any lists and nodes, `AppendByInsert = FALSE`: both are
false where the Insert functions are called at the end, as nothing in the repository
does; run `link_list_insert`, and section 5).

* `PointersSound` (`DoublyLinked`): the invariant is that there is a function `c` from
  lists to sequences of nodes that the pointers represent (`Rep`): each pointer leads
  to the neighbour in `c`, a node is in one place of `c`, `tail` and `size` agree with
  it. `DoublyLinked` speaks of the walk from the head, which a pointer written in
  another list might change; that no node is in two places (`Apart`) excludes it. An
  operation on pointers is a change of `c` (`PutRep`, `TakeRep`, `JoinRep`,
  `ClearedRep`), and `ChainIs` shows by induction along the list that the walk finds
  `c` and nothing else.
* `ListsAreSequences` (`ActsAsSequences`): the same changes of `c` are the steps of
  `NodeLists`, each under the same call and the same arguments; `OnlyOne` says that
  `c` is determined by the pointers.

`SystemLogProofs` (`SystemLog`; any number of threads, `None` not among them):

* `LogNotUsedAfterClose`: `Spec => []NoUseAfterClose`. `Locks` derives from where a
  thread stands which locks it holds; reader and writer exclude each other.
* `LogFileBounded`: `Spec => []FileBounded`. `Counted` bounds the lines in the file
  together with those that threads have counted and will still write, per state of
  the thread that splits the file.

Induction over data is done by hand: the least number for which a statement fails
(`LeastNumber`, from the well-foundedness of `<` on `Nat`) leads to a smaller one.

Only model-checked:

* Liveness, which is out of the prover's reach: `TimeoutDiscards`, `AllFlushed`,
  `AllGivenBack`, `AllArrive`, `FramesEnd`, `CallsReturn`.
* `ArrivedIsDelivered`: it holds only for the order and the number of PDUs in flight
  of each catalogue, which has no short statement for all catalogues.
* `CarriesInOrder` of `Encapsulator`: the provers have no definition of `SelectSeq`,
  by which the refinement mapping finds the PDUs whose last byte is packed.
* `HeadersSound` and `WayFollowed` of `TagRouter`: they need that the routing and
  mapping tables agree with the cables, an assumption not yet stated for all tables (section 6).
* `GseFrame`: the parser against the sender's layout, for which the run's small set of
  packet kinds is complete up to lengths; `crc8_table` and `Bytes` compute by recursion.
  `NothingForgotten`, `InOrder` of `TagRouter` depend on the configured way.

## 5. What is not modelled, and known deviations

Not modelled: the CRC-32 as a computation, PDU concatenation and ISL frames, which
nothing requests or accepts, the branch for more than one encapsulation thread, the
ARP functions (`router_startup_flag` is always 1), parsing of command line and
configuration files, statistics, the pcap dump and the tun device, whose thread is
not started. The process ends at once: quitting sets `force_quit`, which the inner
loop of the sending thread ignores, and nothing is drained; the end of the console
input makes `show_console` loop without waiting. Chains, clones and caches of
mbufs are not used by the program. In `LinkList` node data and the functions that
only read are left out. Memory accesses outside arrays are named as hazards where
the control flow leads to them; their effect is not modelled.

Behaviour of the code that a reader of the models should know, and that the
instances of the runs either include or avoid as said:

* Reassembly. Time stamp 0 is also the mark of a reset buffer (line 1742;
  `ordered_channels` has it, in the place where it is harmless). A repeated start
  fragment makes the fragment count 0 or less than what is held, and a third one
  then loses an mbuf (lines 1767 and 1789): `NoLeak` is claimed for a
  channel that does not repeat. `fragment_timeout` only looks at the buffer at the
  head of each list (line 205).
* Encapsulation. When the rest of a PDU is shorter than the CRC, the length of the
  end fragment wraps (`fragment.c` line 181: a payload of 7264 bytes, a PDU of 3000
  and one of 4858). A whole PDU longer than 4095 bytes gets a length that its
  12-bit field cannot hold (`encapsulate.c` line 263). Both need sizes that the
  run does not have.
* GSE parsing. `previous_mac_info` is one global for all decapsulation threads,
  and the sender's last label one for all mappings: sound only with the one thread
  of `base.conf`. `var_header_size` is overwritten per extension header, so that
  one such header works; `get_pdu_concat_info` does not swap bytes.
* Pipeline. One encapsulation thread serves both directions, so that a device at port
  1 that refuses a packet for good stops port 0 as well, and in the end every pool is
  empty: `snd_pkt` has no way out (`rcv_send.c` line 299). Mbufs of PDUs that are never
  completed stay in `frag_info` until another PDU takes the buffer. The receive thread of port 1 does not
  filter frames. A packet of more than 8064 bytes is lost in `read_pcap`, IPv6 of
  port 1 in `process_frame_header`.
* Linked list. The Insert functions fail at the end of a list, which their comments
  provide for; nothing calls them. `Insert_Exist_Node` leaves `tail` behind (run
  `link_list_insert`). `Insert_Node` writes to `pCurrent->next->pre` (line 66) where
  there is no next node, in every empty list: with `AppendByInsert` TRUE the model
  reaches `Died` in its first step, which `NodeLists` does not have.
* Log. A thread that was preempted with yesterday's date splits the file once
  more; `safe_rename` retries when `i_ret > 0`, which `rename` never returns, and
  names have a resolution of one second.
* Tag routing. No Makefile defines `TAG_ROUTE`. Over links that pack packets the
  RTN direction does not work (a local `router_header` hides the global one, the
  header is counted twice, the segments stay in host order) and is left out;
  `router.h` is not in the repository. `get_mapping_index` falls back to entry 0
  for an unknown next router. A packet that does not pass the test on an empty buffer
  is neither sent nor freed (`left`); with an unlucky header size that may be any
  packet. The comment at `encapsulate.c` line 617 names what has to fit, "LEN +
  ROUTER_HEADER + PDU"; the test at line 619 asks for the packet and a header size that
  may be any number, but the room is then lowered by the packet and the two bytes of
  LEN. A packet that leaves one byte by the test makes the 16-bit room come round to
  65535, and packets are then written beyond `pdu_buffer`: the run reaches `overrun`,
  where the model ends, and `AllArrive` is claimed only until then. `prepare_l2l1_pdu` copies a packet of up to 8050 bytes into an
  array of 4096 (lines 626-640). `data_len` is read after the mbuf was freed
  (`encapsulate.c` line 642).
* CRC-8. Two threads may fill the table at the same time; both write the same
  values, and the flag is set last.

## 6. Plan

Done: the models and runs of section 3, and the theorems of section 4. Left:

1. `Encapsulator`: the step simulation of `PduCarrier`. The packed PDUs would be a
   history that grows with `StreamSteps`, to be related to `SelectSeq`, of which the
   provers have no definition.
2. `TagRouter`: `HeadersSound` and `WayFollowed`, from an assumption that the routing
   and mapping tables agree with the cables.
