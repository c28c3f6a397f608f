-------------------------- MODULE ReassemblyProofs --------------------------
(* Type correctness and mbuf ownership of the reassembly, for every channel. *)
EXTENDS Reassembly, TLAPS

-----------------------------------------------------------------------------
(* The buffer operators keep the type of FRAG_INFO. *)

\* 16-bit arithmetic stays within 16 bits.
LEMMA ModWord == \A a \in Nat : a % U16 \in Word
<1>1. U16 \in Nat /\ U16 > 0
  BY DEF U16
<1>2. QED
  BY <1>1, SMTT(30) DEF Word

\* Facts about 16-bit numbers that the proofs use without opening U16.
LEMMA WordFacts ==
  /\ 0 \in Word /\ U16 - 1 \in Word /\ U16 \in Nat
  /\ \A a \in Word : a \in Nat /\ a < U16
  /\ \A a, b \in Word : a + U16 - b \in Nat
  /\ \A a \in Word : a > 0 => a - 1 \in Word
  /\ \A a \in Word : a \notin 0 .. 4 => a - 4 \in Nat
<1>1. 0 \in Word /\ U16 - 1 \in Word /\ U16 \in Nat
  BY DEF U16, Word
<1>2. \A a \in Word : a \in Nat /\ a < U16
  BY <1>1 DEF Word
<1>3. ASSUME NEW a \in Word, NEW b \in Word PROVE a + U16 - b \in Nat
  <2>1. a \in Nat /\ b \in Nat /\ b < U16
    BY <1>2
  <2>2. QED
    BY <2>1 DEF U16
<1>4. \A a \in Word : a > 0 => a - 1 \in Word
  BY <1>1 DEF Word
<1>5. \A a \in Word : a \notin 0 .. 4 => a - 4 \in Nat
  BY <1>2
<1>6. QED
  BY <1>1, <1>2, <1>3, <1>4, <1>5

\* A reset buffer is a FRAG_INFO.
LEMMA ResetType == Reset \in FragInfo
BY ConstantsAssumption, WordFacts DEF Reset, FragInfo, FragSeq

\* A fragment has the fields decapsulate_gse extracts.
LEMMA FragmentFields ==
  ASSUME NEW f \in Fragment
  PROVE  /\ f.id \in FragId /\ f.ts \in Nat /\ f.seq \in FragSeq
         /\ f.kind \in {"S", "M", "E"}
         /\ f.len \in Word /\ f.len \notin 0 .. 4 /\ f.plen \in Word /\ f.pdu \in Pdu
BY ConstantsAssumption DEF FragmentType

\* So has a buffer.
LEMMA InfoFields ==
  ASSUME NEW s \in FragInfo
  PROVE  /\ s.ts \in Nat /\ s.num \in Word /\ s.max \in FragSeq /\ s.rlen \in Word
         /\ s.end \in BOOLEAN /\ s.age \in 0 .. Threshold + 1
         /\ s.frag \in [FragSeq -> Fragment \cup {Null}]
         /\ s.plen \in Word /\ s.ptr \in Mbuf \cup {Null}
BY DEF FragInfo

\* Clearing a buffer in start_reassemble_pdu keeps its type.
LEMMA ClearedType ==
  ASSUME NEW s \in FragInfo, NEW f \in Fragment
  PROVE  Cleared(s, f) \in FragInfo
<1>1. [Reset EXCEPT !.num = U16 - 1] \in FragInfo
  BY ResetType, WordFacts DEF FragInfo
<1>2. QED
  BY <1>1, ResetType DEF Cleared

\* Entering a start fragment keeps the type of the buffer and its mbuf.
LEMMA EnteredType ==
  ASSUME NEW s \in FragInfo, NEW f \in Fragment
  PROVE  Entered(s, f) \in FragInfo /\ Entered(s, f).ptr = s.ptr
<1>1. 0 \in FragSeq
  BY ConstantsAssumption DEF FragSeq
<1>2. [s.frag EXCEPT ![0] = f] \in [FragSeq -> Fragment \cup {Null}]
  BY <1>1, InfoFields
<1>3. (s.rlen + f.len) \in Nat /\ (s.num + 1) \in Nat
  BY FragmentFields, InfoFields, WordFacts
<1>4. (s.rlen + f.len) % U16 \in Word /\ (s.num + 1) % U16 \in Word
  BY <1>3, ModWord
<1>5. QED
  BY <1>2, <1>4, FragmentFields DEF Entered, FragInfo

\* Taking a repeated fragment out of the counts keeps the type and the mbuf.
LEMMA ReplacedType ==
  ASSUME NEW s \in FragInfo, NEW f \in Fragment
  PROVE  Replaced(s, f) \in FragInfo /\ Replaced(s, f).ptr = s.ptr
<1>1. CASE s.frag[f.seq] # Null /\ s.num > 0
  <2>1. s.frag[f.seq] \in Fragment
    BY <1>1, FragmentFields, InfoFields
  <2>2. s.frag[f.seq].len \in Word
    BY <2>1, FragmentFields
  <2>3. s.num - 1 \in Word
    BY <1>1, InfoFields, WordFacts
  <2>4. (s.rlen + U16 - s.frag[f.seq].len) % U16 \in Word
    BY <2>2, InfoFields, WordFacts, ModWord
  <2>5. QED
    BY <1>1, <2>3, <2>4 DEF Replaced, FragInfo
<1>2. CASE ~ (s.frag[f.seq] # Null /\ s.num > 0)
  BY <1>2 DEF Replaced
<1>3. QED
  BY <1>1, <1>2

\* Adding the length keeps the type and the mbuf.
LEMMA LengthenedType ==
  ASSUME NEW s \in FragInfo, NEW f \in Fragment
  PROVE  Lengthened(s, f) \in FragInfo /\ Lengthened(s, f).ptr = s.ptr
<1> DEFINE n == IF f.kind = "E" THEN f.len - 4 ELSE f.len
<1>1. s.rlen \in Nat /\ f.len \in Nat /\ f.len - 4 \in Nat
  BY FragmentFields, InfoFields, WordFacts
<1>2. s.rlen + n \in Nat
  BY <1>1
<1>3. (s.rlen + n) % U16 \in Word
  BY <1>2, ModWord
<1>4. (s.end \/ f.kind = "E") \in BOOLEAN
  OBVIOUS
<1>5. QED
  BY <1>3, <1>4 DEF Lengthened, FragInfo

\* Entering a middle or end fragment keeps the type and the mbuf.
LEMMA KeptType ==
  ASSUME NEW s \in FragInfo, NEW f \in Fragment
  PROVE  Kept(s, f) \in FragInfo /\ Kept(s, f).ptr = s.ptr
<1>1. [s.frag EXCEPT ![f.seq] = f] \in [FragSeq -> Fragment \cup {Null}]
  BY FragmentFields, InfoFields
<1>2. s.num + 1 \in Nat
  BY InfoFields, WordFacts
<1>3. (s.num + 1) % U16 \in Word
  BY <1>2, ModWord
<1>4. (IF f.seq > s.max THEN f.seq ELSE s.max) \in FragSeq
  BY FragmentFields, InfoFields
<1>5. QED
  BY <1>1, <1>3, <1>4, FragmentFields DEF Kept, FragInfo

\* Starting the timer keeps the type and the mbuf.
LEMMA TimedType ==
  ASSUME NEW s \in FragInfo
  PROVE  Timed(s) \in FragInfo /\ Timed(s).ptr = s.ptr
<1>1. (IF s.num = 1 THEN 1 ELSE s.age) \in 0 .. Threshold + 1
  BY ConstantsAssumption DEF FragInfo
<1>2. QED
  BY <1>1 DEF Timed, FragInfo

\* The mbuf pointer can be set to any mbuf.
LEMMA PtrType ==
  ASSUME NEW s \in FragInfo, NEW m \in Mbuf
  PROVE  [s EXCEPT !.ptr = m] \in FragInfo /\ [s EXCEPT !.ptr = m].ptr = m
BY DEF FragInfo

\* A free can give back mbufs only.
LEMMA OwnedType ==
  ASSUME NEW s \in FragInfo
  PROVE  Owned(s) \subseteq Mbuf
BY DEF Owned, FragInfo

\* Rotating an index list gives an index list; its head is a buffer index.
LEMMA RotateType ==
  ASSUME NEW q \in [1 .. FRAG_BUFFER_NUM -> Buffer]
  PROVE  Rotate(q) \in [1 .. FRAG_BUFFER_NUM -> Buffer] /\ Head(q) \in Buffer
<1>1. FRAG_BUFFER_NUM \in Nat /\ FRAG_BUFFER_NUM >= 1
  BY ConstantsAssumption
<1>2. q \in Seq(Buffer) /\ Len(q) = FRAG_BUFFER_NUM
  BY <1>1
<1>3. Head(q) \in Buffer
  BY <1>1, <1>2
<1>4. Tail(q) \in Seq(Buffer) /\ Len(Tail(q)) = FRAG_BUFFER_NUM - 1
  BY <1>1, <1>2
<1>5. Rotate(q) \in Seq(Buffer) /\ Len(Rotate(q)) = FRAG_BUFFER_NUM
  BY <1>1, <1>3, <1>4 DEF Rotate
<1>6. QED
  BY <1>3, <1>5

-----------------------------------------------------------------------------
(* Type correctness *)

\* What a step may do to one buffer: write a FRAG_INFO to it and rotate its
\* list; change pool, ring and history within their types.
LEMMA StoreType ==
  ASSUME TypeOK, NEW f \in Fragment, NEW i \in Buffer, NEW s \in FragInfo,
         Store(f, i, s)
  PROVE  /\ info' \in [FragId -> [Buffer -> FragInfo]]
         /\ list' \in [FragId -> [1 .. FRAG_BUFFER_NUM -> Buffer]]
<1>1. f.id \in FragId
  BY FragmentFields
<1>2. list[f.id] \in [1 .. FRAG_BUFFER_NUM -> Buffer]
  BY <1>1 DEF TypeOK
<1>3. Rotate(list[f.id]) \in [1 .. FRAG_BUFFER_NUM -> Buffer]
  BY <1>2, RotateType
<1>4. QED
  BY <1>1, <1>3 DEF TypeOK, Store

\* Conclude keeps all types.
LEMMA ConcludeType ==
  ASSUME TypeOK, NEW f \in Fragment, NEW i \in Buffer, NEW s \in FragInfo,
         NEW pool \in SUBSET Mbuf, Conclude(f, i, s, pool), UNCHANGED elapsed
  PROVE  TypeOK'
<1>1. CASE Complete(s) /\ finish_reassemble_pdu(f, i, s, pool)
  <2>1. /\ info' \in [FragId -> [Buffer -> FragInfo]]
        /\ list' \in [FragId -> [1 .. FRAG_BUFFER_NUM -> Buffer]]
    BY <1>1, StoreType, ResetType DEF finish_reassemble_pdu
  <2>2. CASE Valid(s) /\ free' = pool
             /\ ring' = Append(ring, [mbuf |-> s.ptr, num |-> s.num, frag |-> s.frag])
             /\ delivered' = [delivered EXCEPT ![s.frag[0].pdu] = @ + 1]
    <3> DEFINE Elem == [mbuf: Mbuf, num: Nat, frag: [FragSeq -> Fragment \cup {Null}]]
    <3>1. [mbuf |-> s.ptr, num |-> s.num, frag |-> s.frag] \in Elem
      BY <2>2, InfoFields, WordFacts DEF Valid
    <3>2. ring \in Seq(Elem)
      BY DEF TypeOK
    <3>3. ring' \in Seq(Elem)
      <4> HIDE DEF Elem
      <4> QED
        BY <2>2, <3>1, <3>2
    <3>4. delivered' \in [Pdu -> Nat]
      <4>1. delivered \in [Pdu -> Nat]
        BY DEF TypeOK
      <4>2. PICK p : delivered' = [delivered EXCEPT ![p] = @ + 1]
        BY <2>2
      <4>3. CASE p \in Pdu
        BY <4>1, <4>2, <4>3
      <4>4. CASE p \notin Pdu
        BY <4>1, <4>2, <4>4
      <4>5. QED
        BY <4>3, <4>4
    <3>5. QED
      BY <2>1, <2>2, <3>3, <3>4 DEF TypeOK
  <2>3. CASE free' = pool \cup Owned(s) /\ UNCHANGED <<ring, delivered>>
    BY <2>1, <2>3, OwnedType DEF TypeOK
  <2>4. QED
    BY <1>1, <2>2, <2>3 DEF finish_reassemble_pdu
<1>2. CASE /\ Store(f, i, Timed(s))
           /\ free' = pool
           /\ UNCHANGED <<ring, delivered>>
  <2>1. /\ info' \in [FragId -> [Buffer -> FragInfo]]
        /\ list' \in [FragId -> [1 .. FRAG_BUFFER_NUM -> Buffer]]
    BY <1>2, StoreType, TimedType
  <2>2. QED
    BY <1>2, <2>1 DEF TypeOK
<1>3. QED
  BY <1>1, <1>2 DEF Conclude

\* A start fragment keeps all types.
LEMMA StartType ==
  ASSUME TypeOK, NEW f \in Fragment, start_reassemble_pdu(f)
  PROVE  TypeOK'
<1>1. PICK i \in Buffer :
        LET old  == info[f.id][i]
            s    == Entered(Cleared(old, f), f)
            pool == free \cup (IF Conflict(old, f) \/ Repeated(old, f)
                               THEN Owned(old) ELSE {})
        IN  \/ /\ Store(f, i, s)
               /\ free' = pool
               /\ UNCHANGED <<ring, delivered>>
            \/ /\ Store(f, i, Reset)
               /\ free' = pool
               /\ UNCHANGED <<ring, delivered>>
            \/ \E m \in pool : Conclude(f, i, [s EXCEPT !.ptr = m], pool \ {m})
  BY DEF start_reassemble_pdu
<1> DEFINE old  == info[f.id][i]
           s    == Entered(Cleared(old, f), f)
           pool == free \cup (IF Conflict(old, f) \/ Repeated(old, f)
                              THEN Owned(old) ELSE {})
<1>2. old \in FragInfo
  BY FragmentFields DEF TypeOK
<1>3. s \in FragInfo
  BY <1>2, ClearedType, EnteredType
<1>4. pool \in SUBSET Mbuf
  BY <1>2, OwnedType DEF TypeOK
<1>5. UNCHANGED elapsed
  BY DEF start_reassemble_pdu
<1> HIDE DEF old, s, pool
<1>6. CASE Store(f, i, s) /\ free' = pool /\ UNCHANGED <<ring, delivered>>
  BY <1>3, <1>4, <1>5, <1>6, StoreType DEF TypeOK
<1>7. CASE Store(f, i, Reset) /\ free' = pool /\ UNCHANGED <<ring, delivered>>
  BY <1>4, <1>5, <1>7, StoreType, ResetType DEF TypeOK
<1>8. ASSUME NEW m \in pool, Conclude(f, i, [s EXCEPT !.ptr = m], pool \ {m})
      PROVE  TypeOK'
  <2>1. [s EXCEPT !.ptr = m] \in FragInfo
    BY <1>3, <1>4, PtrType
  <2>2. pool \ {m} \in SUBSET Mbuf
    BY <1>4
  <2>3. QED
    BY <1>5, <1>8, <2>1, <2>2, ConcludeType
<1>9. QED
  BY <1>1, <1>6, <1>7, <1>8 DEF old, s, pool

\* A middle or end fragment keeps all types.
LEMMA KeepType ==
  ASSUME TypeOK, NEW f \in Fragment, keep_reassemble_pdu(f)
  PROVE  TypeOK'
<1>1. PICK i \in Buffer :
        LET s == Lengthened(Replaced(info[f.id][i], f), f)
        IN  \/ /\ Store(f, i, Reset)
               /\ free' = free \cup Owned(s)
               /\ UNCHANGED <<ring, delivered>>
            \/ Conclude(f, i, Kept(s, f), free)
  BY DEF keep_reassemble_pdu
<1> DEFINE s == Lengthened(Replaced(info[f.id][i], f), f)
<1>2. info[f.id][i] \in FragInfo
  BY FragmentFields DEF TypeOK
<1>3. s \in FragInfo
  BY <1>2, ReplacedType, LengthenedType
<1>4. UNCHANGED elapsed
  BY DEF keep_reassemble_pdu
<1> HIDE DEF s
<1>5. CASE Store(f, i, Reset) /\ free' = free \cup Owned(s) /\ UNCHANGED <<ring, delivered>>
  BY <1>3, <1>4, <1>5, StoreType, ResetType, OwnedType DEF TypeOK
<1>6. CASE Conclude(f, i, Kept(s, f), free)
  <2>1. Kept(s, f) \in FragInfo /\ free \in SUBSET Mbuf
    BY <1>3, KeptType DEF TypeOK
  <2>2. QED
    BY <1>4, <1>6, <2>1, ConcludeType
<1>7. QED
  BY <1>1, <1>5, <1>6 DEF s

\* fragment_timeout keeps all types.
LEMMA TimeoutType ==
  ASSUME TypeOK, fragment_timeout
  PROVE  TypeOK'
<1>1. \A k \in FragId : Head(list[k]) \in Buffer
                        /\ Rotate(list[k]) \in [1 .. FRAG_BUFFER_NUM -> Buffer]
  BY RotateType DEF TypeOK
<1>2. info' \in [FragId -> [Buffer -> FragInfo]]
  BY ResetType DEF fragment_timeout, TypeOK
<1>3. list' \in [FragId -> [1 .. FRAG_BUFFER_NUM -> Buffer]]
  BY <1>1 DEF fragment_timeout, TypeOK
<1>4. \A k \in FragId : Owned(info[k][Head(list[k])]) \subseteq Mbuf
  BY <1>1, OwnedType DEF TypeOK
<1>5. free' \subseteq Mbuf
  BY <1>4 DEF fragment_timeout, TypeOK
<1>6. elapsed' \in 0 .. CheckPeriod + 1
  BY ConstantsAssumption DEF fragment_timeout
<1>7. QED
  BY <1>2, <1>3, <1>5, <1>6 DEF fragment_timeout, TypeOK

\* The passing of time keeps all types and every mbuf pointer.
LEMMA TickType ==
  ASSUME TypeOK, Tick
  PROVE  /\ TypeOK'
         /\ \A k \in FragId : \A i \in Buffer : info'[k][i].ptr = info[k][i].ptr
<1> DEFINE aged(s) == [s EXCEPT !.age = IF @ \in 1 .. Threshold THEN @ + 1 ELSE @]
<1>1. ASSUME NEW s \in FragInfo PROVE aged(s) \in FragInfo /\ aged(s).ptr = s.ptr
  <2>1. (IF s.age \in 1 .. Threshold THEN s.age + 1 ELSE s.age) \in 0 .. Threshold + 1
    BY ConstantsAssumption, InfoFields
  <2>2. QED
    BY <2>1 DEF FragInfo
<1>2. info' = [k \in FragId |-> [i \in Buffer |-> aged(info[k][i])]]
  BY DEF Tick
<1>3. \A k \in FragId : \A i \in Buffer : info[k][i] \in FragInfo
  BY DEF TypeOK
<1> HIDE DEF aged
<1>4. info' \in [FragId -> [Buffer -> FragInfo]]
  BY <1>1, <1>2, <1>3
<1>5. \A k \in FragId : \A i \in Buffer : info'[k][i].ptr = info[k][i].ptr
  BY <1>1, <1>2, <1>3
<1>6. elapsed' \in 0 .. CheckPeriod + 1
  BY ConstantsAssumption DEF Tick, TypeOK
<1>7. QED
  BY <1>4, <1>5, <1>6 DEF Tick, TypeOK

\* Sending a PDU keeps all types.
LEMMA SendType ==
  ASSUME TypeOK, snd_single_pdu
  PROVE  TypeOK'
<1> DEFINE Elem == [mbuf: Mbuf, num: Nat, frag: [FragSeq -> Fragment \cup {Null}]]
<1>1. ring \in Seq(Elem) /\ ring # <<>>
  BY DEF TypeOK, snd_single_pdu
<1>2. Head(ring) \in Elem /\ Tail(ring) \in Seq(Elem)
  <2> HIDE DEF Elem
  <2> QED
    BY <1>1
<1>3. QED
  BY <1>2 DEF TypeOK, snd_single_pdu

\* The initial state is well typed.
LEMMA TypeInit == Init => TypeOK
<1>1. [n \in 1 .. FRAG_BUFFER_NUM |-> n - 1] \in [1 .. FRAG_BUFFER_NUM -> Buffer]
  BY ConstantsAssumption DEF Buffer
<1>2. 0 \in 0 .. CheckPeriod + 1
  BY ConstantsAssumption
<1>3. QED
  BY <1>1, <1>2, ResetType DEF Init, TypeOK

\* Every step keeps the types.
LEMMA TypeStep == TypeOK /\ [Next]_vars => TypeOK'
<1> SUFFICES ASSUME TypeOK, [Next]_vars PROVE TypeOK'
  OBVIOUS
<1>1. ASSUME NEW f \in Fragment, Receive(f) PROVE TypeOK'
  <2>1. CASE IgnoreStart(f)
    BY <2>1 DEF IgnoreStart, vars, TypeOK
  <2>2. QED
    BY <1>1, <2>1, StartType, KeepType DEF Receive
<1>2. CASE UNCHANGED vars
  BY <1>2 DEF vars, TypeOK
<1>3. QED
  BY <1>1, <1>2, TimeoutType, TickType, SendType DEF Next

\* The reassembly is type correct whatever arrives: TypeOK holds in every
\* reachable state.
THEOREM TypeCorrect == Spec => []TypeOK
BY TypeInit, TypeStep, PTL DEF Spec

-----------------------------------------------------------------------------
(* Mbuf ownership *)

\* The ring holds mbufs.
LEMMA RingMbuf ==
  ASSUME TypeOK
  PROVE  \A n \in 1 .. Len(ring) : ring[n].mbuf \in Mbuf
<1> DEFINE Elem == [mbuf: Mbuf, num: Nat, frag: [FragSeq -> Fragment \cup {Null}]]
<1>1. ring \in Seq(Elem)
  BY DEF TypeOK
<1>2. \A n \in 1 .. Len(ring) : ring[n] \in Elem
  <2> HIDE DEF Elem
  <2> QED
    BY <1>1
<1>3. QED
  BY <1>2

\* A step that rewrites one buffer, moves mbufs only between that buffer, the
\* pool and the end of the ring, and leaves none of them in two places, keeps
\* MbufUnique.
LEMMA BufferStep ==
  ASSUME TypeOK, MbufUnique, NEW f \in Fragment, NEW i \in Buffer,
         NEW s \in FragInfo, Store(f, i, s),
         s.ptr \in {Null} \cup Owned(info[f.id][i]) \cup free,
         free' \subseteq free \cup Owned(info[f.id][i]),
         s.ptr \notin free',
         \/ ring' = ring
         \/ \E e \in [mbuf: Mbuf, num: Nat, frag: [FragSeq -> Fragment \cup {Null}]] :
              /\ ring' = Append(ring, e)
              /\ e.mbuf \in Owned(info[f.id][i]) \cup free
              /\ e.mbuf \notin free' \cup {s.ptr}
  PROVE  MbufUnique'
<1> DEFINE k == f.id
           old == info[k][i]
<1>0. k \in FragId
  BY FragmentFields
<1>1. \A l \in FragId : \A j \in Buffer :
        info'[l][j] = IF l = k /\ j = i THEN s ELSE info[l][j]
  BY <1>0 DEF Store, TypeOK
<1>2. Owned(old) \subseteq {old.ptr} /\ Null \notin Owned(old)
  BY DEF Owned
<1>3. Null \notin Mbuf /\ free \subseteq Mbuf
  BY ConstantsAssumption DEF TypeOK
\* Another buffer's mbuf is not the old buffer's, and not in the pool.
<1>4. ASSUME NEW l \in FragId, NEW j \in Buffer, ~ (l = k /\ j = i)
      PROVE  /\ info[l][j].ptr # Null => info[l][j].ptr \notin Owned(old) \cup free
             /\ info[l][j].ptr \notin free'
             /\ info[l][j].ptr # Null => info[l][j].ptr # s.ptr
  <2>1. info[l][j].ptr # Null => info[l][j].ptr # old.ptr
    BY <1>0, <1>4 DEF MbufUnique
  <2>2. info[l][j].ptr \notin free
    BY DEF MbufUnique
  <2>3. QED
    BY <1>2, <1>3, <2>1, <2>2
\* Nor is an mbuf on the ring.
<1>5. ASSUME NEW n \in 1 .. Len(ring)
      PROVE  ring[n].mbuf \notin Owned(old) \cup free
  <2>1. ring[n].mbuf # old.ptr /\ ring[n].mbuf \notin free
    BY <1>0 DEF MbufUnique
  <2>2. QED
    BY <1>2, <2>1
<1>6. ring \in Seq([mbuf: Mbuf, num: Nat, frag: [FragSeq -> Fragment \cup {Null}]])
  BY DEF TypeOK
<1>7. \A n \in 1 .. Len(ring) : ring[n].mbuf \in Mbuf
  BY RingMbuf
<1>8. \A l, ll \in FragId : \A j, jj \in Buffer :
        info'[l][j].ptr # Null /\ info'[l][j].ptr = info'[ll][jj].ptr => l = ll /\ j = jj
  <2> SUFFICES ASSUME NEW l \in FragId, NEW ll \in FragId,
                      NEW j \in Buffer, NEW jj \in Buffer,
                      info'[l][j].ptr # Null, info'[l][j].ptr = info'[ll][jj].ptr
               PROVE  l = ll /\ j = jj
    OBVIOUS
  <2>1. CASE l = k /\ j = i
    BY <1>1, <1>4, <2>1
  <2>2. CASE ll = k /\ jj = i
    BY <1>1, <1>4, <2>2
  <2>3. CASE ~ (l = k /\ j = i) /\ ~ (ll = k /\ jj = i)
    BY <1>1, <2>3 DEF MbufUnique
  <2>4. QED
    BY <2>1, <2>2, <2>3
<1>9. \A l \in FragId : \A j \in Buffer : info'[l][j].ptr \notin free'
  BY <1>1, <1>4
<1> HIDE DEF old, k
<1>10. CASE ring' = ring
  <2>1. \A l \in FragId : \A j \in Buffer : \A n \in 1 .. Len(ring) :
          info'[l][j].ptr # ring[n].mbuf
    <3> SUFFICES ASSUME NEW l \in FragId, NEW j \in Buffer, NEW n \in 1 .. Len(ring)
                 PROVE  info'[l][j].ptr # ring[n].mbuf
      OBVIOUS
    <3>1. info[l][j].ptr # ring[n].mbuf
      BY DEF MbufUnique
    <3>2. s.ptr # ring[n].mbuf
      BY <1>3, <1>5, <1>7 DEF old, k
    <3>3. QED
      BY <1>1, <3>1, <3>2
  <2>2. \A n \in 1 .. Len(ring) :
          /\ ring[n].mbuf \notin free'
          /\ \A m \in 1 .. Len(ring) : ring[m].mbuf = ring[n].mbuf => m = n
    BY <1>5 DEF MbufUnique, old, k
  <2>3. QED
    BY <1>8, <1>9, <1>10, <2>1, <2>2 DEF MbufUnique
<1>11. ASSUME NEW e \in [mbuf: Mbuf, num: Nat, frag: [FragSeq -> Fragment \cup {Null}]],
              ring' = Append(ring, e),
              e.mbuf \in Owned(old) \cup free,
              e.mbuf \notin free' \cup {s.ptr}
       PROVE  MbufUnique'
  <2>1. /\ Len(ring) \in Nat
        /\ Len(ring') = Len(ring) + 1
        /\ ring'[Len(ring) + 1] = e
        /\ \A n \in 1 .. Len(ring) : ring'[n] = ring[n]
    BY <1>6, <1>11
  <2>2. \A l \in FragId : \A j \in Buffer : info'[l][j].ptr # e.mbuf
    BY <1>1, <1>3, <1>4, <1>11 DEF old, k
  <2>3. \A n \in 1 .. Len(ring) : ring[n].mbuf # e.mbuf
    BY <1>5, <1>11
  <2>4. \A l \in FragId : \A j \in Buffer : \A n \in 1 .. Len(ring) :
          info'[l][j].ptr # ring[n].mbuf
    <3> SUFFICES ASSUME NEW l \in FragId, NEW j \in Buffer, NEW n \in 1 .. Len(ring)
                 PROVE  info'[l][j].ptr # ring[n].mbuf
      OBVIOUS
    <3>1. info[l][j].ptr # ring[n].mbuf
      BY DEF MbufUnique
    <3>2. s.ptr # ring[n].mbuf
      BY <1>3, <1>5, <1>7 DEF old, k
    <3>3. QED
      BY <1>1, <3>1, <3>2
  <2>5. \A n \in 1 .. Len(ring') : n = Len(ring) + 1 \/ n \in 1 .. Len(ring)
    BY <2>1
  <2>6. \A l \in FragId : \A j \in Buffer : \A n \in 1 .. Len(ring') :
          info'[l][j].ptr # ring'[n].mbuf
    BY <2>1, <2>2, <2>4, <2>5
  <2>7. \A n \in 1 .. Len(ring') : ring'[n].mbuf \notin free'
    BY <1>5, <1>11, <2>1, <2>5 DEF old, k
  <2>8. \A m, n \in 1 .. Len(ring') : ring'[m].mbuf = ring'[n].mbuf => m = n
    BY <2>1, <2>3, <2>5 DEF MbufUnique
  <2>9. QED
    BY <1>8, <1>9, <2>6, <2>7, <2>8 DEF MbufUnique
<1>12. QED
  BY <1>10, <1>11 DEF old, k

\* Concluding a fragment keeps MbufUnique when the buffer's mbuf and the pool
\* are what the buffer and the pool held before.
LEMMA ConcludeUnique ==
  ASSUME TypeOK, MbufUnique, NEW f \in Fragment, NEW i \in Buffer,
         NEW s \in FragInfo, NEW pool \in SUBSET Mbuf,
         s.ptr \in {Null} \cup Owned(info[f.id][i]) \cup free,
         pool \subseteq free \cup Owned(info[f.id][i]),
         s.ptr \notin pool,
         Conclude(f, i, s, pool)
  PROVE  MbufUnique'
<1>1. Reset.ptr = Null /\ Null \notin Mbuf /\ free \subseteq Mbuf
  BY ConstantsAssumption DEF Reset, TypeOK
<1>2. Owned(s) \subseteq Owned(info[f.id][i]) \cup free /\ Owned(s) \subseteq Mbuf
  BY OwnedType DEF Owned
<1>3. CASE Complete(s) /\ finish_reassemble_pdu(f, i, s, pool)
  <2>1. Store(f, i, Reset)
    BY <1>3 DEF finish_reassemble_pdu
  <2>2. CASE Valid(s) /\ free' = pool
             /\ ring' = Append(ring, [mbuf |-> s.ptr, num |-> s.num, frag |-> s.frag])
    <3> DEFINE e == [mbuf |-> s.ptr, num |-> s.num, frag |-> s.frag]
    <3>1. e \in [mbuf: Mbuf, num: Nat, frag: [FragSeq -> Fragment \cup {Null}]]
      BY <2>2, InfoFields, WordFacts DEF Valid
    <3>2. e.mbuf \in Owned(info[f.id][i]) \cup free /\ e.mbuf \notin free' \cup {Reset.ptr}
      BY <1>1, <2>2 DEF Valid
    <3>3. ring' = Append(ring, e)
      BY <2>2
    <3>4. free' \subseteq free \cup Owned(info[f.id][i]) /\ Reset.ptr \notin free'
      BY <1>1, <2>2
    <3> HIDE DEF e
    <3>5. QED
      BY <1>1, <2>1, <3>1, <3>2, <3>3, <3>4, BufferStep, ResetType
  <2>3. CASE free' = pool \cup Owned(s) /\ ring' = ring
    <3>1. free' \subseteq free \cup Owned(info[f.id][i]) /\ Reset.ptr \notin free'
      BY <1>1, <1>2, <2>3
    <3>2. QED
      BY <1>1, <2>1, <2>3, <3>1, BufferStep, ResetType
  <2>4. QED
    BY <1>3, <2>2, <2>3 DEF finish_reassemble_pdu
<1>4. CASE Store(f, i, Timed(s)) /\ free' = pool /\ ring' = ring
  BY <1>4, TimedType, BufferStep
<1>5. QED
  BY <1>3, <1>4 DEF Conclude

\* A start fragment keeps MbufUnique.
LEMMA StartUnique ==
  ASSUME TypeOK, MbufUnique, NEW f \in Fragment, start_reassemble_pdu(f)
  PROVE  MbufUnique'
<1>1. PICK i \in Buffer :
        LET old  == info[f.id][i]
            s    == Entered(Cleared(old, f), f)
            pool == free \cup (IF Conflict(old, f) \/ Repeated(old, f)
                               THEN Owned(old) ELSE {})
        IN  \/ /\ pool = {}
               /\ Store(f, i, s)
               /\ free' = pool
               /\ UNCHANGED <<ring, delivered>>
            \/ /\ Store(f, i, Reset)
               /\ free' = pool
               /\ UNCHANGED <<ring, delivered>>
            \/ \E m \in pool : Conclude(f, i, [s EXCEPT !.ptr = m], pool \ {m})
  BY DEF start_reassemble_pdu
<1> DEFINE old  == info[f.id][i]
           s    == Entered(Cleared(old, f), f)
           pool == free \cup (IF Conflict(old, f) \/ Repeated(old, f)
                              THEN Owned(old) ELSE {})
<1>2. old \in FragInfo
  BY FragmentFields DEF TypeOK
<1>3. s \in FragInfo
  BY <1>2, ClearedType, EnteredType
<1>4. pool \in SUBSET Mbuf /\ pool \subseteq free \cup Owned(old)
  BY <1>2, OwnedType DEF TypeOK
<1>5. s.ptr \in {Null} \cup Owned(old)
  <2>1. s.ptr = Cleared(old, f).ptr
    BY <1>2, ClearedType, EnteredType
  <2>2. Reset.ptr = Null /\ [Reset EXCEPT !.num = U16 - 1].ptr = Null
    BY DEF Reset
  <2>3. QED
    BY <2>1, <2>2 DEF Cleared, Owned
<1>6. Reset.ptr = Null /\ Null \notin Mbuf
  BY ConstantsAssumption DEF Reset
<1> HIDE DEF s, pool
<1>7. CASE pool = {} /\ Store(f, i, s) /\ free' = pool /\ UNCHANGED <<ring, delivered>>
  BY <1>3, <1>4, <1>5, <1>7, BufferStep
<1>8. CASE Store(f, i, Reset) /\ free' = pool /\ UNCHANGED <<ring, delivered>>
  BY <1>4, <1>6, <1>8, BufferStep, ResetType
<1>9. ASSUME NEW m \in pool, Conclude(f, i, [s EXCEPT !.ptr = m], pool \ {m})
      PROVE  MbufUnique'
  <2>1. [s EXCEPT !.ptr = m] \in FragInfo /\ [s EXCEPT !.ptr = m].ptr = m
    BY <1>3, <1>4, PtrType
  <2>2. pool \ {m} \in SUBSET Mbuf
    BY <1>4
  <2>3. QED
    BY <1>4, <1>9, <2>1, <2>2, ConcludeUnique
<1>10. QED
  BY <1>1, <1>7, <1>8, <1>9 DEF s, pool

\* A middle or end fragment keeps MbufUnique.
LEMMA KeepUnique ==
  ASSUME TypeOK, MbufUnique, NEW f \in Fragment, keep_reassemble_pdu(f)
  PROVE  MbufUnique'
<1>1. PICK i \in Buffer :
        LET s == Lengthened(Replaced(info[f.id][i], f), f)
        IN  \/ /\ Store(f, i, Reset)
               /\ free' = free \cup Owned(s)
               /\ UNCHANGED <<ring, delivered>>
            \/ Conclude(f, i, Kept(s, f), free)
  BY DEF keep_reassemble_pdu
<1> DEFINE old == info[f.id][i]
           s   == Lengthened(Replaced(old, f), f)
<1>2. f.id \in FragId /\ old \in FragInfo
  BY FragmentFields DEF TypeOK
<1>3. s \in FragInfo /\ s.ptr = old.ptr
  BY <1>2, ReplacedType, LengthenedType
<1>4. Owned(s) = Owned(old) /\ old.ptr \in {Null} \cup Owned(old)
  BY <1>3 DEF Owned
<1>5. old.ptr \notin free
  BY <1>2 DEF MbufUnique
<1>6. Reset.ptr = Null /\ Null \notin Mbuf /\ free \subseteq Mbuf /\ Owned(old) \subseteq Mbuf
  BY <1>2, ConstantsAssumption, OwnedType DEF Reset, TypeOK
<1> HIDE DEF s
<1>7. CASE Store(f, i, Reset) /\ free' = free \cup Owned(s) /\ UNCHANGED <<ring, delivered>>
  BY <1>4, <1>6, <1>7, BufferStep, ResetType
<1>8. CASE Conclude(f, i, Kept(s, f), free)
  <2>1. Kept(s, f) \in FragInfo /\ Kept(s, f).ptr = old.ptr
    BY <1>3, KeptType
  <2>2. QED
    BY <1>4, <1>5, <1>6, <1>8, <2>1, ConcludeUnique
<1>9. QED
  BY <1>1, <1>7, <1>8 DEF s

\* fragment_timeout keeps MbufUnique: the mbufs it frees belong to the buffers
\* it resets.
LEMMA TimeoutUnique ==
  ASSUME TypeOK, MbufUnique, fragment_timeout
  PROVE  MbufUnique'
<1> DEFINE hit(k, i) == Expired(k) /\ i = Head(list[k])
<1>1. \A k \in FragId : \A i \in Buffer :
        info'[k][i] = IF hit(k, i) THEN Reset ELSE info[k][i]
  BY DEF fragment_timeout
<1>2. \A k \in FragId : Head(list[k]) \in Buffer
  BY RotateType DEF TypeOK
<1>3. \A m \in free' : m \in free \/ \E k \in FragId : \E i \in Buffer :
                         hit(k, i) /\ m = info[k][i].ptr /\ m # Null
  BY <1>2 DEF fragment_timeout, Owned
<1>4. Reset.ptr = Null
  BY DEF Reset
<1>5. free' \subseteq Mbuf /\ Null \notin Mbuf
  BY TimeoutType, ConstantsAssumption DEF TypeOK
<1>6. ring' = ring
  BY DEF fragment_timeout
<1>7. \A n \in 1 .. Len(ring) : ring[n].mbuf \in Mbuf
  BY RingMbuf
<1> HIDE DEF hit
<1>8. \A k, l \in FragId : \A i, j \in Buffer :
        info'[k][i].ptr # Null /\ info'[k][i].ptr = info'[l][j].ptr => k = l /\ i = j
  BY <1>1, <1>4 DEF MbufUnique
<1>9. ASSUME NEW k \in FragId, NEW i \in Buffer PROVE info'[k][i].ptr \notin free'
  <2>1. CASE hit(k, i)
    BY <1>1, <1>4, <1>5, <2>1
  <2>2. CASE ~ hit(k, i)
    <3>1. info'[k][i] = info[k][i] /\ info[k][i].ptr \notin free
      BY <1>1, <2>2 DEF MbufUnique
    <3>2. ASSUME NEW l \in FragId, NEW j \in Buffer, hit(l, j), info[l][j].ptr # Null
          PROVE  info[l][j].ptr # info[k][i].ptr
      BY <2>2, <3>2 DEF MbufUnique
    <3>3. QED
      BY <1>3, <3>1, <3>2
  <2>3. QED
    BY <2>1, <2>2
<1>10. \A n \in 1 .. Len(ring) : ring[n].mbuf \notin free'
  BY <1>3 DEF MbufUnique
<1>11. \A k \in FragId : \A i \in Buffer : \A n \in 1 .. Len(ring) :
         info'[k][i].ptr # ring[n].mbuf
  BY <1>1, <1>4, <1>5, <1>7 DEF MbufUnique
<1>12. QED
  BY <1>6, <1>8, <1>9, <1>10, <1>11 DEF MbufUnique

\* Sending a PDU keeps MbufUnique.
LEMMA SendUnique ==
  ASSUME TypeOK, MbufUnique, snd_single_pdu
  PROVE  MbufUnique'
<1>1. ring \in Seq([mbuf: Mbuf, num: Nat, frag: [FragSeq -> Fragment \cup {Null}]])
      /\ ring # <<>>
  BY DEF TypeOK, snd_single_pdu
<1>2. /\ Len(ring) \in Nat \ {0}
      /\ Head(ring) = ring[1]
      /\ Len(Tail(ring)) = Len(ring) - 1
      /\ \A n \in 1 .. Len(ring) - 1 : Tail(ring)[n] = ring[n + 1]
  BY <1>1
<1>3. 1 \in 1 .. Len(ring) /\ \A n \in 1 .. Len(ring) - 1 : n + 1 \in 1 .. Len(ring)
  BY <1>2
<1>4. ring' = Tail(ring) /\ free' = free \cup {ring[1].mbuf} /\ info' = info
  BY <1>2 DEF snd_single_pdu
<1>5. \A n \in 1 .. Len(ring') : ring'[n] = ring[n + 1] /\ n + 1 \in 1 .. Len(ring) /\ n + 1 # 1
  BY <1>2, <1>3, <1>4
<1>6. \A k \in FragId : \A i \in Buffer :
        /\ info[k][i].ptr \notin free'
        /\ \A n \in 1 .. Len(ring') : info[k][i].ptr # ring'[n].mbuf
  BY <1>3, <1>4, <1>5 DEF MbufUnique
<1>7. \A n \in 1 .. Len(ring') : ring'[n].mbuf \notin free'
  BY <1>3, <1>4, <1>5 DEF MbufUnique
<1>8. ASSUME NEW m \in 1 .. Len(ring'), NEW n \in 1 .. Len(ring'), ring'[m].mbuf = ring'[n].mbuf
      PROVE  m = n
  <2>1. m + 1 = n + 1
    BY <1>5, <1>8 DEF MbufUnique
  <2>2. QED
    BY <2>1
<1>9. QED
  BY <1>4, <1>6, <1>7, <1>8 DEF MbufUnique

\* No mbuf ever has two owners, whatever fragments arrive in whatever order:
\* the reassembly never frees an mbuf twice, never frees one that is on the
\* ring and never assembles two PDUs into one mbuf.
THEOREM MbufOwnership == Spec => []MbufUnique
<1>1. Init => MbufUnique
  BY ConstantsAssumption DEF Init, MbufUnique, Reset
<1>2. TypeOK /\ MbufUnique /\ [Next]_vars => MbufUnique'
  <2> SUFFICES ASSUME TypeOK, MbufUnique, [Next]_vars PROVE MbufUnique'
    OBVIOUS
  <2>1. ASSUME NEW f \in Fragment, Receive(f) PROVE MbufUnique'
    <3>1. CASE IgnoreStart(f)
      BY <3>1 DEF IgnoreStart, vars, MbufUnique
    <3>2. QED
      BY <2>1, <3>1, StartUnique, KeepUnique DEF Receive
  <2>2. CASE Tick
    <3>1. \A k \in FragId : \A i \in Buffer : info'[k][i].ptr = info[k][i].ptr
      BY <2>2, TickType
    <3>2. QED
      BY <2>2, <3>1 DEF Tick, MbufUnique
  <2>3. CASE UNCHANGED vars
    BY <2>3 DEF vars, MbufUnique
  <2>4. QED
    BY <2>1, <2>2, <2>3, TimeoutUnique, SendUnique DEF Next
<1>3. QED
  BY <1>1, <1>2, TypeCorrect, PTL DEF Spec
=============================================================================
