----------------------- MODULE ReassemblyChannelProofs -----------------------
(* What the reassembly delivers, for every catalogue of fragments: whole PDUs *)
(* only, and none that is completed a second time from what a reset left      *)
(* behind.                                                                    *)
EXTENDS ReassemblyChannel, ReassemblyProofs, FiniteSetTheorems

-----------------------------------------------------------------------------
(* The channels restrict the open specification *)

\* A step of any channel is a step of module Reassembly.
LEMMA ChannelStep == [NextAny]_cvars => [Next]_vars
BY DEF NextAny, Arrive, Background, Next, cvars, vars

-----------------------------------------------------------------------------
(* What a fragment does to its buffer *)

\* s has nothing in its cells that the buffer old did not have, except f.
Within(s, old, f) ==
  \A n \in FragSeq : s.frag[n] \in {Null, old.frag[n]} \/ (n = f.seq /\ s.frag[n] = f)

\* Entering a start fragment adds nothing else.
LEMMA EnteredWithin ==
  ASSUME NEW old \in FragInfo, NEW f \in Fragment, f.seq = 0
  PROVE  Within(Entered(Cleared(old, f), f), old, f)
<1>1. 0 \in FragSeq
  BY ConstantsAssumption DEF FragSeq
<1>2. Cleared(old, f) \in FragInfo
  BY ClearedType
<1>3. Cleared(old, f).frag \in [FragSeq -> Fragment \cup {Null}]
  BY <1>2, InfoFields
<1>4. \A n \in FragSeq : Cleared(old, f).frag[n] \in {Null, old.frag[n]}
  BY DEF Cleared, Reset
<1>5. Entered(Cleared(old, f), f).frag = [Cleared(old, f).frag EXCEPT ![0] = f]
  BY <1>2 DEF Entered, FragInfo
<1>6. QED
  BY <1>1, <1>3, <1>4, <1>5 DEF Within

\* So does entering a middle or end fragment.
LEMMA KeptWithin ==
  ASSUME NEW old \in FragInfo, NEW f \in Fragment
  PROVE  Within(Kept(Lengthened(Replaced(old, f), f), f), old, f)
<1> DEFINE r == Replaced(old, f)
           s == Lengthened(r, f)
<1>1. r \in FragInfo /\ s \in FragInfo
  BY ReplacedType, LengthenedType
<1>2. r.frag = old.frag
  BY DEF Replaced, FragInfo
<1>3. s.frag = r.frag
  BY <1>1 DEF Lengthened, FragInfo
<1>4. Kept(s, f).frag = [s.frag EXCEPT ![f.seq] = f]
  BY <1>1 DEF Kept, FragInfo
<1>5. old.frag \in [FragSeq -> Fragment \cup {Null}] /\ f.seq \in FragSeq
  BY InfoFields, FragmentFields
<1>6. QED
  BY <1>2, <1>3, <1>4, <1>5 DEF Within

\* A buffer that passes the checks of finish_reassemble_pdu holds the fragments of
\* one PDU, each in its cell, and counts no others.
LEMMA ValidIsWhole ==
  ASSUME NEW s \in FragInfo, Complete(s), Valid(s)
  PROVE  /\ 0 \in 0 .. s.num - 1 /\ 0 .. s.num - 1 \subseteq FragSeq
         /\ s.frag[0] \in Fragment
         /\ \A g \in FragmentsOf(s.frag[0].pdu) : s.frag[g.seq] = g
         /\ {s.frag[n] : n \in 0 .. s.num - 1} = FragmentsOf(s.frag[0].pdu)
<1> DEFINE p == s.frag[0].pdu
           last == s.frag[s.num - 1]
<1>1. s.max \in Nat /\ s.num = s.max + 1 /\ s.max <= FRAG_MAX_NUM - 1 /\ FRAG_MAX_NUM \in Nat
  BY InfoFields, ConstantsAssumption DEF Complete, FragSeq
<1>2. 0 \in 0 .. s.num - 1 /\ 0 .. s.num - 1 \subseteq FragSeq /\ s.num - 1 \in 0 .. s.num - 1
  BY <1>1 DEF FragSeq
<1>3. \A n \in 0 .. s.num - 1 :
        s.frag[n] \in Fragment /\ s.frag[n].pdu = last.pdu /\ s.frag[n].seq = n
  BY <1>2, InfoFields DEF Valid, CrcMatches
<1>4. last.kind = "E" /\ last \in Fragment /\ last.pdu = p /\ last.seq = s.num - 1
  BY <1>2, <1>3 DEF Valid, CrcMatches
<1>5. ASSUME NEW g \in FragmentsOf(p) PROVE g.seq \in 0 .. s.num - 1 /\ s.frag[g.seq] = g
  <2>1. g \in Fragment /\ g.pdu = p
    BY DEF FragmentsOf
  <2>2. g.seq <= last.seq
    BY <1>4, <2>1, CutAssumption
  <2>3. g.seq \in FragSeq
    BY <2>1, FragmentFields
  <2>4. g.seq \in 0 .. s.num - 1
    BY <1>1, <1>4, <2>2, <2>3 DEF FragSeq
  <2>5. QED
    BY <1>2, <1>3, <2>1, <2>4, CutAssumption
<1>6. \A n \in 0 .. s.num - 1 : s.frag[n] \in FragmentsOf(p)
  BY <1>2, <1>3 DEF FragmentsOf
<1>7. {s.frag[n] : n \in 0 .. s.num - 1} = FragmentsOf(p)
  BY <1>5, <1>6
<1>8. QED
  BY <1>2, <1>3, <1>5, <1>7

\* What fragment f does to buffer i, to the ring and to the count of deliveries.
Effect(f, i) ==
  \/ /\ UNCHANGED <<ring, delivered>>
     /\ \E s \in FragInfo : Within(s, info[f.id][i], f) /\ Store(f, i, s)
  \/ \E z \in FragInfo :
       /\ Complete(z) /\ Valid(z) /\ Within(z, info[f.id][i], f)
       /\ Store(f, i, Reset)
       /\ ring' = Append(ring, [mbuf |-> z.ptr, num |-> z.num, frag |-> z.frag])
       /\ delivered' = [delivered EXCEPT ![z.frag[0].pdu] = @ + 1]

\* A reset buffer has nothing in its cells.
LEMMA ResetWithin == \A old, f : Within(Reset, old, f)
BY DEF Within, Reset

\* The end of start_reassemble_pdu and keep_reassemble_pdu.
LEMMA ConcludeEffect ==
  ASSUME NEW f \in Fragment, NEW i \in Buffer, NEW s \in FragInfo,
         Within(s, info[f.id][i], f), NEW pool, Conclude(f, i, s, pool)
  PROVE  Effect(f, i)
<1>1. CASE Complete(s) /\ finish_reassemble_pdu(f, i, s, pool)
  <2>1. CASE /\ Valid(s)
             /\ ring' = Append(ring, [mbuf |-> s.ptr, num |-> s.num, frag |-> s.frag])
             /\ delivered' = [delivered EXCEPT ![s.frag[0].pdu] = @ + 1]
    BY <1>1, <2>1 DEF Effect, finish_reassemble_pdu
  <2>2. CASE UNCHANGED <<ring, delivered>>
    BY <1>1, <2>2, ResetType, ResetWithin DEF Effect, finish_reassemble_pdu
  <2>3. QED
    BY <1>1, <2>1, <2>2 DEF finish_reassemble_pdu
<1>2. CASE Store(f, i, Timed(s)) /\ UNCHANGED <<ring, delivered>>
  <2>1. Timed(s) \in FragInfo /\ Timed(s).frag = s.frag
    BY TimedType DEF Timed, FragInfo
  <2>2. Within(Timed(s), info[f.id][i], f)
    BY <2>1 DEF Within
  <2>3. QED
    BY <1>2, <2>1, <2>2 DEF Effect
<1>3. QED
  BY <1>1, <1>2 DEF Conclude

\* A start fragment.
LEMMA StartEffect ==
  ASSUME TypeOK, NEW f \in Fragment, start_reassemble_pdu(f)
  PROVE  \E i \in Buffer : Effect(f, i)
<1>1. PICK i \in Buffer :
        LET old  == info[f.id][i]
            s    == Entered(Cleared(old, f), f)
            pool == free \cup (IF Conflict(old, f) \/ Repeated(old, f)
                               THEN Owned(old) ELSE {})
        IN  \/ /\ Store(f, i, s)
               /\ UNCHANGED <<ring, delivered>>
            \/ /\ Store(f, i, Reset)
               /\ UNCHANGED <<ring, delivered>>
            \/ \E m \in pool : Conclude(f, i, [s EXCEPT !.ptr = m], pool \ {m})
  BY DEF start_reassemble_pdu
<1> DEFINE old  == info[f.id][i]
           s    == Entered(Cleared(old, f), f)
           pool == free \cup (IF Conflict(old, f) \/ Repeated(old, f)
                              THEN Owned(old) ELSE {})
<1>2. old \in FragInfo
  BY FragmentFields DEF TypeOK
<1>3. s \in FragInfo /\ pool \subseteq Mbuf
  BY <1>2, ClearedType, EnteredType, OwnedType DEF TypeOK
<1>4. Within(s, old, f)
  BY <1>2, EnteredWithin DEF start_reassemble_pdu
<1> HIDE DEF s, pool
<1>5. CASE Store(f, i, s) /\ UNCHANGED <<ring, delivered>>
  BY <1>3, <1>4, <1>5 DEF Effect
<1>6. CASE Store(f, i, Reset) /\ UNCHANGED <<ring, delivered>>
  BY <1>6, ResetType, ResetWithin DEF Effect
<1>7. ASSUME NEW m \in pool, Conclude(f, i, [s EXCEPT !.ptr = m], pool \ {m})
      PROVE  Effect(f, i)
  <2>1. [s EXCEPT !.ptr = m] \in FragInfo /\ [s EXCEPT !.ptr = m].frag = s.frag
    BY <1>3, PtrType DEF FragInfo
  <2>2. Within([s EXCEPT !.ptr = m], old, f)
    BY <1>4, <2>1 DEF Within
  <2>3. QED
    BY <1>7, <2>1, <2>2, ConcludeEffect
<1>8. QED
  BY <1>1, <1>5, <1>6, <1>7 DEF s, pool

\* A middle or end fragment.
LEMMA KeepEffect ==
  ASSUME TypeOK, NEW f \in Fragment, keep_reassemble_pdu(f)
  PROVE  \E i \in Buffer : Effect(f, i)
<1>1. PICK i \in Buffer :
        LET s == Lengthened(Replaced(info[f.id][i], f), f)
        IN  \/ /\ Store(f, i, Reset)
               /\ UNCHANGED <<ring, delivered>>
            \/ Conclude(f, i, Kept(s, f), free)
  BY DEF keep_reassemble_pdu
<1> DEFINE s == Lengthened(Replaced(info[f.id][i], f), f)
<1>2. info[f.id][i] \in FragInfo
  BY FragmentFields DEF TypeOK
<1>3. Kept(s, f) \in FragInfo /\ Within(Kept(s, f), info[f.id][i], f)
  BY <1>2, ReplacedType, LengthenedType, KeptType, KeptWithin
<1>4. CASE Store(f, i, Reset) /\ UNCHANGED <<ring, delivered>>
  BY <1>4, ResetType, ResetWithin DEF Effect
<1>5. CASE Conclude(f, i, Kept(s, f), free)
  BY <1>3, <1>5, ConcludeEffect
<1>6. QED
  BY <1>1, <1>4, <1>5

\* A fragment that is not ignored changes one buffer.
LEMMA ReceiveEffect ==
  ASSUME TypeOK, NEW f \in Fragment, Receive(f)
  PROVE  UNCHANGED vars \/ \E i \in Buffer : Effect(f, i)
BY StartEffect, KeepEffect DEF Receive, IgnoreStart

-----------------------------------------------------------------------------
(* Only whole PDUs leave *)

\* The ring element e is all fragments of one PDU.
Whole(e) == \E p \in Pdu : {e.frag[s] : s \in 0 .. e.num - 1} = FragmentsOf(p)

\* So is every element of the ring.
AllWhole == \A n \in 1 .. Len(ring) : Whole(ring[n])

\* An element made from a buffer that passed the checks is whole.
LEMMA ValidWhole ==
  ASSUME NEW z \in FragInfo, Complete(z), Valid(z),
         NEW e, e.num = z.num, e.frag = z.frag
  PROVE  Whole(e)
<1> DEFINE A == {z.frag[n] : n \in 0 .. z.num - 1}
           B == {e.frag[n] : n \in 0 .. e.num - 1}
<1>1. z.frag[0].pdu \in Pdu /\ A = FragmentsOf(z.frag[0].pdu)
  BY ValidIsWhole, FragmentFields
<1>2. A = B
  OBVIOUS
<1>3. QED
  BY <1>1, <1>2 DEF Whole

\* A delivery appends a whole PDU.
LEMMA EffectWhole ==
  ASSUME TypeOK, AllWhole, NEW f \in Fragment, NEW i \in Buffer, Effect(f, i)
  PROVE  AllWhole'
<1>1. CASE UNCHANGED ring
  BY <1>1 DEF AllWhole
<1>2. ASSUME NEW z \in FragInfo, Complete(z), Valid(z),
             ring' = Append(ring, [mbuf |-> z.ptr, num |-> z.num, frag |-> z.frag])
      PROVE  AllWhole'
  <2> DEFINE Elem == [mbuf: Mbuf, num: Nat, frag: [FragSeq -> Fragment \cup {Null}]]
             e == [mbuf |-> z.ptr, num |-> z.num, frag |-> z.frag]
  <2>1. ring \in Seq(Elem) /\ e \in Elem
    BY <1>2, InfoFields, WordFacts DEF TypeOK, Valid
  <2>2. Whole(e)
    BY <1>2, ValidWhole
  <2> HIDE DEF Elem, e
  <2>3. /\ Len(ring) \in Nat /\ Len(ring') = Len(ring) + 1 /\ ring'[Len(ring) + 1] = e
        /\ \A n \in 1 .. Len(ring) : ring'[n] = ring[n]
    BY <1>2, <2>1 DEF e
  <2>4. QED
    BY <2>2, <2>3 DEF AllWhole
<1>3. QED
  BY <1>1, <1>2 DEF Effect

\* Whatever arrives, in whatever order and however often, a PDU on encap_ring[0]
\* consists of all fragments of one PDU and of nothing else.
THEOREM OnlyWholePdus == SpecAny => []DeliveredIntact
<1>1. CInit => TypeOK /\ AllWhole
  BY TypeInit DEF CInit, Init, AllWhole
<1>2. TypeOK /\ AllWhole /\ [NextAny]_cvars => TypeOK' /\ AllWhole'
  <2> SUFFICES ASSUME TypeOK, AllWhole, [NextAny]_cvars PROVE TypeOK' /\ AllWhole'
    OBVIOUS
  <2>1. TypeOK'
    BY ChannelStep, TypeStep
  <2>2. ASSUME NEW f \in Fragment, Receive(f) PROVE AllWhole'
    BY <2>2, ReceiveEffect, EffectWhole DEF vars, AllWhole
  <2>3. CASE UNCHANGED ring
    BY <2>1, <2>3 DEF AllWhole
  <2>4. CASE snd_single_pdu
    <3> DEFINE Elem == [mbuf: Mbuf, num: Nat, frag: [FragSeq -> Fragment \cup {Null}]]
    <3>1. ring \in Seq(Elem) /\ ring # <<>> /\ ring' = Tail(ring)
      BY <2>4 DEF TypeOK, snd_single_pdu
    <3> HIDE DEF Elem
    <3>2. \A n \in 1 .. Len(ring') : n + 1 \in 1 .. Len(ring) /\ ring'[n] = ring[n + 1]
      BY <3>1
    <3>3. QED
      BY <2>1, <3>2 DEF AllWhole
  <2>5. QED
    BY <2>1, <2>2, <2>3, <2>4 DEF NextAny, Arrive, Background, fragment_timeout, Tick, cvars
<1>3. AllWhole => DeliveredIntact
  BY DEF AllWhole, Whole, DeliveredIntact
<1>4. QED
  BY <1>1, <1>2, <1>3, PTL DEF SpecAny
-----------------------------------------------------------------------------
(* Nothing is delivered twice *)

\* The buffers that hold fragment g when the buffers are inf.
Holding(inf, g) == {j \in Buffer : inf[g.id][j].frag[g.seq] = g}

\* A fragment is in a buffer of its own key.
Placed ==
  \A k \in FragId : \A i \in Buffer : \A n \in FragSeq :
    info[k][i].frag[n] # Null => info[k][i].frag[n].id = k

\* Every arrival of a fragment accounts for one delivery of its PDU or for one
\* copy of it in a buffer.
Accounted ==
  \A g \in Fragment : delivered[g.pdu] + Cardinality(Holding(info, g)) <= arrived[g]

ReplayInv == TypeOK /\ arrived \in [Fragment -> Nat] /\ Placed /\ Accounted

\* Sets of buffers are finite.
LEMMA BuffersFinite ==
  /\ \A S : S \subseteq Buffer => IsFiniteSet(S) /\ Cardinality(S) \in Nat
  /\ \A S, T : S \subseteq T /\ T \subseteq Buffer => Cardinality(S) <= Cardinality(T)
  /\ \A S, T, i : S \subseteq T \cup {i} /\ T \subseteq Buffer /\ i \in Buffer
                    => Cardinality(S) <= Cardinality(T) + 1
  /\ \A S, T, i : S \subseteq T /\ T \subseteq Buffer /\ i \in T /\ i \notin S
                    => Cardinality(S) + 1 <= Cardinality(T)
<1>1. IsFiniteSet(Buffer)
  BY FS_Interval, ConstantsAssumption DEF Buffer
<1>2. \A S : S \subseteq Buffer => IsFiniteSet(S) /\ Cardinality(S) \in Nat
  BY <1>1, FS_Subset, FS_CardinalityType
<1>3. \A S, T : S \subseteq T /\ T \subseteq Buffer => Cardinality(S) <= Cardinality(T)
  BY <1>2, FS_Subset
<1>4. ASSUME NEW S, NEW T, NEW i, S \subseteq T \cup {i}, T \subseteq Buffer, i \in Buffer
      PROVE  Cardinality(S) <= Cardinality(T) + 1
  <2>1. T \cup {i} \subseteq Buffer /\ S \subseteq Buffer
    BY <1>4
  <2>2. Cardinality(S) <= Cardinality(T \cup {i})
    BY <1>3, <1>4, <2>1
  <2>3. IsFiniteSet(T) /\ Cardinality(T) \in Nat /\ Cardinality(S) \in Nat
    BY <1>2, <1>4, <2>1
  <2>4. Cardinality(T \cup {i}) = Cardinality(T) \/ Cardinality(T \cup {i}) = Cardinality(T) + 1
    BY <2>3, FS_AddElement
  <2>5. QED
    BY <2>2, <2>3, <2>4
<1>5. ASSUME NEW S, NEW T, NEW i, S \subseteq T, T \subseteq Buffer, i \in T, i \notin S
      PROVE  Cardinality(S) + 1 <= Cardinality(T)
  <2>1. S \subseteq T \ {i} /\ T \ {i} \subseteq Buffer /\ S \subseteq Buffer
    BY <1>5
  <2>2. Cardinality(S) <= Cardinality(T \ {i})
    BY <1>3, <2>1
  <2>3. IsFiniteSet(T) /\ Cardinality(T) \in Nat /\ Cardinality(S) \in Nat
    BY <1>2, <1>5, <2>1
  <2>4. Cardinality(T \ {i}) = Cardinality(T) - 1
    BY <1>5, <2>3, FS_RemoveElement
  <2>5. QED
    BY <2>2, <2>3, <2>4
<1>6. QED
  BY <1>2, <1>3, <1>4, <1>5

\* What buffer i holds after fragment f has changed it to s.
LEMMA StoreHolding ==
  ASSUME TypeOK, NEW f \in Fragment, NEW i \in Buffer, NEW s \in FragInfo,
         Within(s, info[f.id][i], f), Store(f, i, s), NEW g \in Fragment
  PROVE  /\ Holding(info', g) \subseteq Holding(info, g) \cup {i}
         /\ g # f => Holding(info', g) \subseteq Holding(info, g)
<1>1. g.id \in FragId /\ f.id \in FragId /\ g.seq \in FragSeq /\ g # Null
  BY FragmentFields, ConstantsAssumption
<1>2. info' = [info EXCEPT ![f.id][i] = s] /\ info \in [FragId -> [Buffer -> FragInfo]]
  BY DEF Store, TypeOK
<1>3. \A j \in Buffer : info'[g.id][j] = IF g.id = f.id /\ j = i THEN s ELSE info[g.id][j]
  BY <1>1, <1>2
<1>4. \A j \in Buffer : j # i => info'[g.id][j] = info[g.id][j]
  BY <1>3
<1>5. Holding(info', g) \subseteq Holding(info, g) \cup {i}
  BY <1>4 DEF Holding
<1>6. ASSUME g # f, NEW j \in Holding(info', g) PROVE j \in Holding(info, g)
  <2>1. j \in Buffer /\ info'[g.id][j].frag[g.seq] = g
    BY <1>6 DEF Holding
  <2>2. CASE g.id = f.id /\ j = i
    <3>1. s.frag[g.seq] = g
      BY <1>3, <2>1, <2>2
    <3>2. s.frag[g.seq] = info[f.id][i].frag[g.seq]
      BY <1>1, <1>6, <3>1 DEF Within
    <3>3. QED
      BY <2>1, <2>2, <3>1, <3>2 DEF Holding
  <2>3. CASE ~ (g.id = f.id /\ j = i)
    BY <1>3, <2>1, <2>3 DEF Holding
  <2>4. QED
    BY <2>2, <2>3
<1>7. QED
  BY <1>5, <1>6

\* The fragments stay with their keys.
LEMMA StorePlaced ==
  ASSUME TypeOK, Placed, NEW f \in Fragment, NEW i \in Buffer, NEW s \in FragInfo,
         Within(s, info[f.id][i], f), Store(f, i, s)
  PROVE  Placed'
<1>1. f.id \in FragId
  BY FragmentFields
<1>2. info' = [info EXCEPT ![f.id][i] = s] /\ info \in [FragId -> [Buffer -> FragInfo]]
  BY DEF Store, TypeOK
<1>3. \A k \in FragId : \A j \in Buffer :
        info'[k][j] = IF k = f.id /\ j = i THEN s ELSE info[k][j]
  BY <1>1, <1>2
<1>4. \A n \in FragSeq : s.frag[n] # Null => s.frag[n].id = f.id
  BY <1>1 DEF Within, Placed
<1>5. QED
  BY <1>3, <1>4 DEF Placed

\* An arrival keeps the account: it adds one copy, or its PDU is delivered and the
\* buffer that held the other fragments is emptied.
LEMMA EffectAccounted ==
  ASSUME ReplayInv, NEW f \in Fragment, NEW i \in Buffer, Effect(f, i),
         arrived' = [arrived EXCEPT ![f] = @ + 1]
  PROVE  Placed' /\ Accounted'
<1> USE DEF ReplayInv
<1>1. \A g \in Fragment : /\ g.pdu \in Pdu /\ delivered[g.pdu] \in Nat /\ arrived[g] \in Nat
                          /\ arrived'[g] = IF g = f THEN arrived[g] + 1 ELSE arrived[g]
                          /\ Holding(info, g) \subseteq Buffer
                          /\ Cardinality(Holding(info, g)) \in Nat
                          /\ delivered[g.pdu] + Cardinality(Holding(info, g)) <= arrived[g]
  BY FragmentFields, BuffersFinite DEF TypeOK, Holding, Accounted
<1>2. \A g : Holding(info', g) \subseteq Buffer /\ Cardinality(Holding(info', g)) \in Nat
  BY BuffersFinite DEF Holding
<1>3. CASE /\ UNCHANGED <<ring, delivered>>
           /\ \E s \in FragInfo : Within(s, info[f.id][i], f) /\ Store(f, i, s)
  <2>1. PICK s \in FragInfo : Within(s, info[f.id][i], f) /\ Store(f, i, s)
    BY <1>3
  <2>2. ASSUME NEW g \in Fragment
        PROVE  delivered'[g.pdu] + Cardinality(Holding(info', g)) <= arrived'[g]
    <3>1. CASE g = f
      <4>1. Cardinality(Holding(info', g)) <= Cardinality(Holding(info, g)) + 1
        BY <1>1, <2>1, StoreHolding, BuffersFinite
      <4>2. QED
        BY <1>1, <1>2, <1>3, <3>1, <4>1
    <3>2. CASE g # f
      <4>1. Cardinality(Holding(info', g)) <= Cardinality(Holding(info, g))
        BY <1>1, <2>1, <3>2, StoreHolding, BuffersFinite
      <4>2. QED
        BY <1>1, <1>2, <1>3, <3>2, <4>1
    <3>3. QED
      BY <3>1, <3>2
  <2>3. QED
    BY <2>1, <2>2, StorePlaced DEF Accounted
<1>4. ASSUME NEW z \in FragInfo, Complete(z), Valid(z), Within(z, info[f.id][i], f),
             Store(f, i, Reset),
             delivered' = [delivered EXCEPT ![z.frag[0].pdu] = @ + 1]
      PROVE  Placed' /\ Accounted'
  <2>1. Within(Reset, info[f.id][i], f) /\ Reset \in FragInfo
    BY ResetWithin, ResetType
  <2>2. /\ z.frag[0] \in Fragment
        /\ \A g \in FragmentsOf(z.frag[0].pdu) : z.frag[g.seq] = g
    BY <1>4, ValidIsWhole
  <2>3. \A g \in Fragment : delivered'[g.pdu] =
          IF g.pdu = z.frag[0].pdu THEN delivered[g.pdu] + 1 ELSE delivered[g.pdu]
    BY <1>1, <1>4, <2>2 DEF TypeOK
  <2>4. \A g \in Fragment : g.id = f.id => i \notin Holding(info', g)
    <3> SUFFICES ASSUME NEW g \in Fragment, g.id = f.id PROVE i \notin Holding(info', g)
      OBVIOUS
    <3>1. info'[f.id][i] = Reset
      BY <1>4, FragmentFields DEF Store, TypeOK
    <3>2. Reset.frag[g.seq] = Null /\ g # Null
      BY FragmentFields, ConstantsAssumption DEF Reset
    <3>3. QED
      BY <3>1, <3>2 DEF Holding
  <2>5. \A g \in Fragment : Holding(info', g) \subseteq Holding(info, g)
    <3> SUFFICES ASSUME NEW g \in Fragment PROVE Holding(info', g) \subseteq Holding(info, g)
      OBVIOUS
    <3>1. CASE g # f
      BY <1>4, <2>1, <3>1, StoreHolding
    <3>2. CASE g = f
      <4>1. Holding(info', g) \subseteq Holding(info, g) \cup {i}
        BY <1>4, <2>1, StoreHolding
      <4>2. QED
        BY <2>4, <3>2, <4>1
    <3>3. QED
      BY <3>1, <3>2
  <2>6. ASSUME NEW g \in Fragment
        PROVE  delivered'[g.pdu] + Cardinality(Holding(info', g)) <= arrived'[g]
    <3>1. Cardinality(Holding(info', g)) <= Cardinality(Holding(info, g))
      BY <1>1, <2>5, BuffersFinite
    <3>2. CASE g = f \/ g.pdu # z.frag[0].pdu
      BY <1>1, <1>2, <2>3, <3>1, <3>2
    <3>3. CASE g # f /\ g.pdu = z.frag[0].pdu
      <4>1. z.frag[g.seq] = g /\ g.seq \in FragSeq /\ g # Null
        BY <2>2, <3>3, FragmentFields, ConstantsAssumption DEF FragmentsOf
      <4>2. info[f.id][i].frag[g.seq] = g
        BY <1>4, <3>3, <4>1 DEF Within
      <4>3. g.id = f.id
        BY <4>1, <4>2, FragmentFields DEF Placed
      <4>4. i \in Holding(info, g) /\ i \notin Holding(info', g)
        BY <2>4, <4>2, <4>3 DEF Holding
      <4>5. Cardinality(Holding(info', g)) + 1 <= Cardinality(Holding(info, g))
        BY <1>1, <2>5, <4>4, BuffersFinite
      <4>6. QED
        BY <1>1, <1>2, <2>3, <3>3, <4>5
    <3>4. QED
      BY <3>2, <3>3
  <2>7. QED
    BY <1>4, <2>1, <2>6, StorePlaced DEF Accounted
<1>5. QED
  BY <1>3, <1>4 DEF Effect

\* The timeout and the clock put nothing in a cell.
LEMMA BackgroundCells ==
  ASSUME TypeOK, Background, NEW k \in FragId, NEW j \in Buffer, NEW n \in FragSeq
  PROVE  info'[k][j].frag[n] \in {Null, info[k][j].frag[n]}
<1>1. CASE fragment_timeout
  <2>1. info'[k][j] \in {Reset, info[k][j]}
    BY <1>1 DEF fragment_timeout
  <2>2. Reset.frag[n] = Null
    BY DEF Reset
  <2>3. QED
    BY <2>1, <2>2
<1>2. CASE Tick
  <2>1. info[k][j] \in FragInfo
    BY DEF TypeOK
  <2>2. info'[k][j].frag = info[k][j].frag
    BY <1>2, <2>1 DEF Tick, FragInfo
  <2>3. QED
    BY <2>2
<1>3. CASE snd_single_pdu
  BY <1>3 DEF snd_single_pdu
<1>4. QED
  BY <1>1, <1>2, <1>3 DEF Background

\* A step that puts nothing in a cell and delivers nothing keeps the account.
LEMMA QuietAccounted ==
  ASSUME ReplayInv, UNCHANGED <<delivered, arrived>>,
         \A k \in FragId : \A j \in Buffer : \A n \in FragSeq :
           info'[k][j].frag[n] \in {Null, info[k][j].frag[n]}
  PROVE  Placed' /\ Accounted'
<1>1. Placed'
  BY DEF ReplayInv, Placed
<1>2. ASSUME NEW g \in Fragment
      PROVE  delivered'[g.pdu] + Cardinality(Holding(info', g)) <= arrived'[g]
  <2>1. g.pdu \in Pdu /\ g.id \in FragId /\ g.seq \in FragSeq /\ g # Null
    BY FragmentFields, ConstantsAssumption
  <2>2. Holding(info', g) \subseteq Holding(info, g) /\ Holding(info, g) \subseteq Buffer
    BY <2>1 DEF Holding
  <2>3. /\ Cardinality(Holding(info', g)) <= Cardinality(Holding(info, g))
        /\ Cardinality(Holding(info', g)) \in Nat /\ Cardinality(Holding(info, g)) \in Nat
    BY <2>2, BuffersFinite
  <2>4. delivered[g.pdu] \in Nat /\ arrived[g] \in Nat
    BY <2>1 DEF ReplayInv, TypeOK
  <2>5. QED
    BY <2>3, <2>4 DEF ReplayInv, Accounted
<1>3. QED
  BY <1>1, <1>2 DEF Accounted

\* Whatever arrives, in whatever order and however often, a PDU is put on
\* encap_ring[0] at most as often as each of its fragments arrived.
THEOREM NothingReplayed == SpecAny => []NoReplay
<1>1. CInit => ReplayInv
  <2> SUFFICES ASSUME CInit PROVE ReplayInv
    OBVIOUS
  <2>1. TypeOK /\ arrived \in [Fragment -> Nat]
    BY TypeInit DEF CInit
  <2>2. \A k \in FragId : \A j \in Buffer : \A n \in FragSeq : info[k][j].frag[n] = Null
    BY DEF CInit, Init, Reset
  <2>3. Placed
    BY <2>2 DEF Placed
  <2>4. ASSUME NEW g \in Fragment
        PROVE  delivered[g.pdu] + Cardinality(Holding(info, g)) <= arrived[g]
    <3>1. g.pdu \in Pdu /\ g.id \in FragId /\ g.seq \in FragSeq /\ g # Null
      BY FragmentFields, ConstantsAssumption
    <3>2. Holding(info, g) = {}
      BY <2>2, <3>1 DEF Holding
    <3>3. delivered[g.pdu] = 0 /\ arrived[g] = 0
      BY <3>1 DEF CInit, Init
    <3>4. QED
      BY <3>2, <3>3, FS_EmptySet
  <2>5. QED
    BY <2>1, <2>3, <2>4 DEF ReplayInv, Accounted
<1>2. ReplayInv /\ [NextAny]_cvars => ReplayInv'
  <2> SUFFICES ASSUME ReplayInv, [NextAny]_cvars PROVE ReplayInv'
    OBVIOUS
  <2>1. TypeOK'
    BY ChannelStep, TypeStep DEF ReplayInv
  <2>2. ASSUME NEW f \in Fragment, Arrive(f) PROVE ReplayInv'
    <3>1. arrived' = [arrived EXCEPT ![f] = @ + 1] /\ Receive(f)
      BY <2>2 DEF Arrive
    <3>2. arrived' \in [Fragment -> Nat]
      BY <3>1 DEF ReplayInv
    <3>3. CASE \E i \in Buffer : Effect(f, i)
      BY <2>1, <3>1, <3>2, <3>3, EffectAccounted DEF ReplayInv
    <3>4. CASE UNCHANGED vars
      <4>1. Placed'
        BY <3>4 DEF ReplayInv, Placed, vars
      <4>2. ASSUME NEW g \in Fragment
            PROVE  delivered'[g.pdu] + Cardinality(Holding(info', g)) <= arrived'[g]
        <5>1. info' = info /\ delivered' = delivered
          BY <3>4 DEF vars
        <5>2. /\ delivered[g.pdu] + Cardinality(Holding(info, g)) <= arrived[g]
              /\ delivered[g.pdu] \in Nat /\ arrived[g] \in Nat
              /\ arrived'[g] \in {arrived[g], arrived[g] + 1}
          BY <3>1, FragmentFields DEF ReplayInv, Accounted, TypeOK
        <5>3. Cardinality(Holding(info, g)) \in Nat
          BY BuffersFinite DEF Holding
        <5>4. QED
          BY <5>1, <5>2, <5>3
      <4>3. QED
        BY <2>1, <3>2, <4>1, <4>2 DEF ReplayInv, Accounted
    <3>5. QED
      BY <3>1, <3>3, <3>4, ReceiveEffect DEF ReplayInv
  <2>3. CASE Background
    <3>1. UNCHANGED <<delivered, arrived>>
      BY <2>3 DEF Background, fragment_timeout, Tick, snd_single_pdu
    <3>2. QED
      BY <2>1, <2>3, <3>1, BackgroundCells, QuietAccounted DEF ReplayInv
  <2>4. CASE UNCHANGED cvars
    BY <2>1, <2>4, QuietAccounted DEF ReplayInv, cvars
  <2>5. QED
    BY <2>2, <2>3, <2>4 DEF NextAny
<1>3. ReplayInv => NoReplay
  <2> SUFFICES ASSUME ReplayInv, NEW p \in Pdu, NEW f \in FragmentsOf(p)
               PROVE  delivered[p] <= arrived[f]
    BY DEF NoReplay
  <2>1. f \in Fragment /\ f.pdu = p
    BY DEF FragmentsOf
  <2>2. delivered[p] \in Nat /\ arrived[f] \in Nat /\ Cardinality(Holding(info, f)) \in Nat
    BY <2>1, BuffersFinite DEF ReplayInv, TypeOK, Holding
  <2>3. QED
    BY <2>1, <2>2 DEF ReplayInv, Accounted
<1>4. QED
  BY <1>1, <1>2, <1>3, PTL DEF SpecAny

-----------------------------------------------------------------------------
(* No mbuf is lost when fragments arrive in order *)

\* The cells of s that hold a fragment.
Filled(s) == {n \in FragSeq : s.frag[n] # Null}

\* frag_num counts the cells in use, and a buffer that owns an mbuf has its start
\* fragment.  A repeated start breaks this: it leaves frag_num one too low.
Tidy(s) == s.num = Cardinality(Filled(s)) /\ (s.ptr # Null => s.frag[0] # Null)

\* A buffer of key k in use carries the time stamp of a fragment that arrived.
Dated(arr, k, s) ==
  s.num > 0 => \E h \in Fragment : arr[h] > 0 /\ h.id = k /\ h.ts = s.ts

AllTidy ==
  \A k \in FragId : \A j \in Buffer : Tidy(info[k][j]) /\ Dated(arrived, k, info[k][j])

\* mbuf m is in the pool, on the ring or in a buffer.
Reachable(m, fr, rg, inf) ==
  \/ m \in fr
  \/ \E n \in 1 .. Len(rg) : rg[n].mbuf = m
  \/ \E k \in FragId : \E j \in Buffer : inf[k][j].ptr = m

AllReachable == \A m \in Mbuf : Reachable(m, free, ring, info)

FifoInv == TypeOK /\ arrived \in [Fragment -> Nat] /\ AllTidy /\ AllReachable

\* Sets of cells are finite and smaller than a 16-bit counter can count.
LEMMA CellsFinite ==
  \A S : S \subseteq FragSeq =>
    IsFiniteSet(S) /\ Cardinality(S) \in Nat /\ Cardinality(S) < U16
<1>1. IsFiniteSet(FragSeq) /\ Cardinality(FragSeq) = FRAG_MAX_NUM
  <2>1. FRAG_MAX_NUM \in Nat \ {0}
    BY ConstantsAssumption
  <2>2. 0 \in Int /\ FRAG_MAX_NUM - 1 \in Int /\ ~ (0 > FRAG_MAX_NUM - 1)
    BY <2>1
  <2>3. QED
    BY <2>1, <2>2, FS_Interval DEF FragSeq
<1>2. ASSUME NEW S, S \subseteq FragSeq
      PROVE  IsFiniteSet(S) /\ Cardinality(S) \in Nat /\ Cardinality(S) < U16
  <2>1. IsFiniteSet(S) /\ Cardinality(S) <= Cardinality(FragSeq)
    BY <1>1, <1>2, FS_Subset
  <2>2. Cardinality(S) \in Nat
    BY <2>1, FS_CardinalityType
  <2>3. QED
    BY <1>1, <2>1, <2>2, ConstantsAssumption, WordFacts
<1>3. QED
  BY <1>2

\* A reset buffer is tidy.
LEMMA ResetTidy == Tidy(Reset) /\ Reset.num = 0 /\ Reset.ptr = Null
<1>1. Filled(Reset) = {} /\ Reset.num = 0 /\ Reset.ptr = Null
  BY DEF Filled, Reset
<1>2. QED
  BY <1>1, FS_EmptySet DEF Tidy

\* A tidy buffer that counts no fragment is empty and owns nothing.
LEMMA TidyEmpty ==
  ASSUME NEW s \in FragInfo, Tidy(s), s.num = 0
  PROVE  Filled(s) = {} /\ s.ptr = Null
<1>1. Filled(s) \subseteq FragSeq /\ 0 \in FragSeq
  BY ConstantsAssumption DEF Filled, FragSeq
<1>2. Filled(s) = {}
  BY <1>1, CellsFinite, FS_EmptySet DEF Tidy
<1>3. QED
  BY <1>1, <1>2 DEF Filled, Tidy

\* Entering the start fragment in an empty tidy buffer.
LEMMA EnteredTidy ==
  ASSUME NEW c \in FragInfo, NEW f \in Fragment, NEW m, Tidy(c), c.num = 0
  PROVE  /\ Tidy(Entered(c, f)) /\ Entered(c, f).ts = f.ts
         /\ Tidy([Entered(c, f) EXCEPT !.ptr = m]) /\ [Entered(c, f) EXCEPT !.ptr = m].ts = f.ts
<1> DEFINE s == Entered(c, f)
           u == [s EXCEPT !.ptr = m]
<1>1. 0 \in FragSeq /\ f # Null
  BY ConstantsAssumption DEF FragSeq
<1>2. /\ s.num = (c.num + 1) % U16 /\ s.frag = [c.frag EXCEPT ![0] = f] /\ s.ts = f.ts
      /\ u.num = s.num /\ u.frag = s.frag /\ u.ts = s.ts
  BY DEF Entered, FragInfo
<1>3. c.frag \in [FragSeq -> Fragment \cup {Null}]
  BY InfoFields
<1>4. s.frag[0] # Null /\ \A n \in FragSeq : n # 0 => s.frag[n] = c.frag[n]
  BY <1>1, <1>2, <1>3
<1>5. Filled(s) = {0} /\ Filled(u) = {0}
  <2>1. \A n \in FragSeq : c.frag[n] = Null
    BY TidyEmpty DEF Filled
  <2> HIDE DEF s, u
  <2>2. QED
    BY <1>1, <1>2, <1>4, <2>1 DEF Filled
<1>6. s.num = 1
  BY <1>2 DEF U16
<1>7. Cardinality({0}) = 1
  BY FS_Singleton
<1> HIDE DEF s, u
<1>8. QED
  BY <1>2, <1>4, <1>5, <1>6, <1>7 DEF Tidy, s, u

\* Entering a middle or end fragment in a tidy buffer.
LEMMA KeptTidy ==
  ASSUME NEW c \in FragInfo, NEW f \in Fragment, Tidy(c)
  PROVE  LET s == Lengthened(Replaced(c, f), f)
         IN  Tidy(Kept(s, f)) /\ Kept(s, f).ts = f.ts /\ Kept(s, f).ptr = c.ptr /\ s.ptr = c.ptr
<1> DEFINE r == Replaced(c, f)
           s == Lengthened(r, f)
           u == Kept(s, f)
<1>1. r \in FragInfo /\ s \in FragInfo /\ u \in FragInfo
  BY ReplacedType, LengthenedType, KeptType
<1>2. /\ r.frag = c.frag /\ r.ptr = c.ptr
      /\ r.num = IF c.frag[f.seq] # Null /\ c.num > 0 THEN c.num - 1 ELSE c.num
  BY DEF Replaced, FragInfo
<1>3. s.frag = r.frag /\ s.num = r.num /\ s.ptr = r.ptr
  BY <1>1 DEF Lengthened, FragInfo
<1>4. /\ u.frag = [s.frag EXCEPT ![f.seq] = f] /\ u.ptr = s.ptr /\ u.ts = f.ts
      /\ u.num = (s.num + 1) % U16
  BY <1>1 DEF Kept, FragInfo
<1>5. /\ c.frag \in [FragSeq -> Fragment \cup {Null}] /\ f.seq \in FragSeq /\ f # Null
      /\ 0 \in FragSeq
  BY InfoFields, FragmentFields, ConstantsAssumption DEF FragSeq
<1> HIDE DEF r, s, u
<1>6. Filled(u) = Filled(c) \cup {f.seq}
  BY <1>2, <1>3, <1>4, <1>5 DEF Filled
<1>7. Filled(c) \subseteq FragSeq /\ Filled(u) \subseteq FragSeq
  BY DEF Filled
<1>8. /\ IsFiniteSet(Filled(c)) /\ Cardinality(Filled(c)) \in Nat
      /\ Cardinality(Filled(u)) \in Nat /\ Cardinality(Filled(u)) < U16
  BY <1>7, CellsFinite
<1>9. u.num = Cardinality(Filled(u))
  <2>1. CASE f.seq \in Filled(c)
    <3>1. c.frag[f.seq] # Null /\ Filled(u) = Filled(c) /\ Filled(c) # {}
      BY <1>6, <2>1 DEF Filled
    <3>2. Cardinality(Filled(c)) # 0
      BY <1>8, <3>1, FS_EmptySet
    <3>3. u.num = Cardinality(Filled(u)) % U16
      BY <1>2, <1>3, <1>4, <1>8, <3>1, <3>2 DEF Tidy
    <3>4. QED
      BY <1>8, <3>3 DEF U16
  <2>2. CASE f.seq \notin Filled(c)
    <3>1. Cardinality(Filled(u)) = Cardinality(Filled(c)) + 1
      BY <1>6, <1>8, <2>2, FS_AddElement
    <3>2. c.frag[f.seq] = Null
      BY <1>5, <2>2 DEF Filled
    <3>3. u.num = Cardinality(Filled(u)) % U16
      BY <1>2, <1>3, <1>4, <3>1, <3>2 DEF Tidy
    <3>4. QED
      BY <1>8, <3>3 DEF U16
  <2>3. QED
    BY <2>1, <2>2
<1>10. u.ptr # Null => u.frag[0] # Null
  BY <1>2, <1>3, <1>4, <1>5 DEF Tidy
<1>11. QED
  BY <1>2, <1>3, <1>4, <1>9, <1>10 DEF Tidy, r, s, u

\* A buffer that becomes s2, with the pool and the ring that this leaves, loses
\* nothing if the pool and the buffer's old mbuf end up somewhere.
LEMMA StoreReachable ==
  ASSUME TypeOK, AllReachable, NEW f \in Fragment, NEW i \in Buffer, NEW s2 \in FragInfo,
         Store(f, i, s2),
         \A n \in 1 .. Len(ring) : n \in 1 .. Len(ring') /\ ring'[n].mbuf = ring[n].mbuf,
         \A m \in free \cup Owned(info[f.id][i]) :
           m \in free' \/ m = s2.ptr \/ \E n \in 1 .. Len(ring') : ring'[n].mbuf = m
  PROVE  AllReachable'
<1>1. f.id \in FragId /\ Null \notin Mbuf
  BY FragmentFields, ConstantsAssumption
<1>2. \A k \in FragId : \A j \in Buffer :
        info'[k][j] = IF k = f.id /\ j = i THEN s2 ELSE info[k][j]
  BY <1>1 DEF Store, TypeOK
<1>3. ASSUME NEW m \in Mbuf PROVE Reachable(m, free', ring', info')
  <2>1. Reachable(m, free, ring, info)
    BY DEF AllReachable
  <2>2. CASE m \in free \/ m = info[f.id][i].ptr
    <3>1. m \in free \cup Owned(info[f.id][i])
      BY <1>1, <2>2 DEF Owned
    <3>2. m \in free' \/ m = s2.ptr \/ \E n \in 1 .. Len(ring') : ring'[n].mbuf = m
      BY <3>1
    <3>3. m = s2.ptr => info'[f.id][i].ptr = m
      BY <1>1, <1>2
    <3>4. QED
      BY <1>1, <3>2, <3>3 DEF Reachable
  <2>3. CASE \E n \in 1 .. Len(ring) : ring[n].mbuf = m
    BY <2>3 DEF Reachable
  <2>4. CASE \E k \in FragId : \E j \in Buffer : info[k][j].ptr = m /\ ~ (k = f.id /\ j = i)
    <3>1. PICK k \in FragId, j \in Buffer : info[k][j].ptr = m /\ ~ (k = f.id /\ j = i)
      BY <2>4
    <3>2. info'[k][j].ptr = m
      BY <1>2, <3>1
    <3>3. QED
      BY <3>2 DEF Reachable
  <2>5. QED
    BY <2>1, <2>2, <2>3, <2>4 DEF Reachable
<1>4. QED
  BY <1>3 DEF AllReachable

\* A buffer that becomes a tidy one, dated by a fragment that has arrived.
LEMMA StoreTidy ==
  ASSUME TypeOK, arrived \in [Fragment -> Nat], AllTidy, NEW f \in Fragment,
         NEW i \in Buffer, NEW s2 \in FragInfo, Store(f, i, s2),
         arrived' = [arrived EXCEPT ![f] = @ + 1],
         Tidy(s2), s2.num = 0 \/ s2.ts = f.ts
  PROVE  AllTidy'
<1>1. f.id \in FragId
  BY FragmentFields
<1>2. \A k \in FragId : \A j \in Buffer :
        info'[k][j] = IF k = f.id /\ j = i THEN s2 ELSE info[k][j]
  BY <1>1 DEF Store, TypeOK
<1>3. arrived'[f] > 0 /\ \A h \in Fragment : arrived[h] > 0 => arrived'[h] > 0
  OBVIOUS
<1>4. \A k \in FragId, s \in FragInfo : Dated(arrived, k, s) => Dated(arrived', k, s)
  BY <1>3 DEF Dated
<1>5. Dated(arrived', f.id, s2)
  BY <1>3 DEF Dated
<1>6. ASSUME NEW k \in FragId, NEW j \in Buffer
      PROVE  Tidy(info'[k][j]) /\ Dated(arrived', k, info'[k][j])
  <2>1. CASE k = f.id /\ j = i
    BY <1>2, <1>5, <2>1
  <2>2. CASE ~ (k = f.id /\ j = i)
    <3>1. info'[k][j] = info[k][j] /\ info[k][j] \in FragInfo
      BY <1>2, <2>2 DEF TypeOK
    <3>2. QED
      BY <1>4, <3>1 DEF AllTidy
  <2>3. QED
    BY <2>1, <2>2
<1>7. QED
  BY <1>6 DEF AllTidy

\* The end of start_reassemble_pdu and keep_reassemble_pdu.
LEMMA ConcludeTidy ==
  ASSUME FifoInv, NEW f \in Fragment, NEW i \in Buffer, NEW s \in FragInfo, NEW pool,
         Tidy(s), s.ts = f.ts, Conclude(f, i, s, pool),
         arrived' = [arrived EXCEPT ![f] = @ + 1],
         \A m \in free \cup Owned(info[f.id][i]) : m \in pool \/ m = s.ptr
  PROVE  AllTidy' /\ AllReachable'
<1> USE DEF FifoInv
<1> DEFINE Elem == [mbuf: Mbuf, num: Nat, frag: [FragSeq -> Fragment \cup {Null}]]
<1>1. ring \in Seq(Elem)
  BY DEF TypeOK
<1>2. CASE Complete(s) /\ finish_reassemble_pdu(f, i, s, pool)
  <2>1. Store(f, i, Reset) /\ Reset \in FragInfo /\ Tidy(Reset) /\ Reset.num = 0
    BY <1>2, ResetType, ResetTidy DEF finish_reassemble_pdu
  <2>2. AllTidy'
    BY <2>1, StoreTidy
  <2>3. CASE /\ Valid(s) /\ free' = pool
             /\ ring' = Append(ring, [mbuf |-> s.ptr, num |-> s.num, frag |-> s.frag])
    <3> DEFINE e == [mbuf |-> s.ptr, num |-> s.num, frag |-> s.frag]
    <3>1. e \in Elem /\ e.mbuf = s.ptr
      BY <2>3, InfoFields, WordFacts DEF Valid
    <3> HIDE DEF Elem, e
    <3>2. /\ \A n \in 1 .. Len(ring) : n \in 1 .. Len(ring') /\ ring'[n] = ring[n]
          /\ Len(ring) + 1 \in 1 .. Len(ring') /\ ring'[Len(ring) + 1] = e
      BY <1>1, <2>3, <3>1 DEF e
    <3>3. \A m \in free \cup Owned(info[f.id][i]) :
            m \in free' \/ m = Reset.ptr \/ \E n \in 1 .. Len(ring') : ring'[n].mbuf = m
      BY <2>3, <3>1, <3>2
    <3>4. AllReachable'
      BY <2>1, <3>2, <3>3, StoreReachable
    <3>5. QED
      BY <2>2, <3>4
  <2>4. CASE free' = pool \cup Owned(s) /\ UNCHANGED ring
    <3>1. \A m \in free \cup Owned(info[f.id][i]) : m \in free'
      <4>1. s.ptr # Null => s.ptr \in free'
        BY <2>4 DEF Owned
      <4>2. \A m \in free \cup Owned(info[f.id][i]) : m # Null
        BY ConstantsAssumption DEF TypeOK, Owned
      <4>3. QED
        BY <2>4, <4>1, <4>2
    <3>2. AllReachable'
      BY <2>1, <2>4, <3>1, StoreReachable
    <3>3. QED
      BY <2>2, <3>2
  <2>5. QED
    BY <1>2, <2>3, <2>4 DEF finish_reassemble_pdu
<1>3. CASE Store(f, i, Timed(s)) /\ free' = pool /\ UNCHANGED ring
  <2>1. /\ Timed(s) \in FragInfo /\ Timed(s).frag = s.frag /\ Timed(s).ptr = s.ptr
        /\ Timed(s).num = s.num /\ Timed(s).ts = s.ts
    BY TimedType DEF Timed, FragInfo
  <2>2. Tidy(Timed(s))
    BY <2>1 DEF Tidy, Filled
  <2>3. AllTidy'
    BY <1>3, <2>1, <2>2, StoreTidy
  <2>4. AllReachable'
    BY <1>3, <2>1, StoreReachable
  <2>5. QED
    BY <2>3, <2>4
<1>4. QED
  BY <1>2, <1>3 DEF Conclude

\* A start fragment that arrives in order finds its time stamp in no buffer in
\* use: the buffer it takes is empty or is cleared.
LEMMA StartFresh ==
  ASSUME FifoInv, NEW f \in Fragment, f.seq = 0, InOrder(f), NEW i \in Buffer
  PROVE  LET old == info[f.id][i]
         IN  /\ ~ Repeated(old, f)
             /\ Tidy(Cleared(old, f)) /\ Cleared(old, f).num = 0
             /\ Conflict(old, f) \/ Owned(old) = {}
<1> DEFINE old == info[f.id][i]
<1>1. f.id \in FragId /\ old \in FragInfo /\ Tidy(old) /\ Dated(arrived, f.id, old)
  BY FragmentFields DEF FifoInv, TypeOK, AllTidy
<1>2. old.num \in Nat
  BY <1>1, InfoFields, WordFacts
<1>3. ~ (old.num > 0 /\ old.ts = f.ts)
  <2> SUFFICES ASSUME old.num > 0, old.ts = f.ts PROVE FALSE
    OBVIOUS
  <2>1. PICK h \in Fragment : arrived[h] > 0 /\ h.id = f.id /\ h.ts = f.ts
    BY <1>1 DEF Dated
  <2>2. h.pdu = f.pdu /\ Before(h, f)
    BY <2>1, StampAssumption DEF InOrder
  <2>3. h.pdu \in Nat /\ h.seq \in Nat
    <3>1. h.pdu \in Pdu /\ h.seq \in FragSeq
      BY FragmentFields
    <3>2. FRAG_MAX_NUM \in Nat /\ Pdu \subseteq Nat
      BY StampAssumption, ConstantsAssumption
    <3>3. h.pdu \in Nat
      BY <3>1, <3>2
    <3>4. h.seq \in Nat
      BY <3>1, <3>2 DEF FragSeq
    <3>5. QED
      BY <3>3, <3>4
  <2>4. QED
    BY <2>2, <2>3 DEF Before
<1>4. CASE Conflict(old, f)
  BY <1>3, <1>4, ResetTidy DEF Cleared, Repeated
<1>5. CASE ~ Conflict(old, f)
  <2>1. old.num = 0
    BY <1>2, <1>3, <1>5 DEF Conflict
  <2>2. Cleared(old, f) = old
    BY <1>3, <1>5 DEF Cleared, Repeated
  <2>3. Owned(old) = {}
    BY <1>1, <2>1, TidyEmpty DEF Owned
  <2>4. QED
    BY <1>1, <1>3, <2>1, <2>2, <2>3 DEF Repeated
<1>6. QED
  BY <1>4, <1>5

\* A start fragment.
LEMMA StartTidy ==
  ASSUME FifoInv, NEW f \in Fragment, InOrder(f), start_reassemble_pdu(f),
         arrived' = [arrived EXCEPT ![f] = @ + 1]
  PROVE  AllTidy' /\ AllReachable'
<1>1. PICK i \in Buffer :
        LET old  == info[f.id][i]
            s    == Entered(Cleared(old, f), f)
            pool == free \cup (IF Conflict(old, f) \/ Repeated(old, f)
                               THEN Owned(old) ELSE {})
        IN  \/ /\ pool = {}
               /\ Store(f, i, s)
               /\ free' = pool
               /\ UNCHANGED <<ring, delivered>>
            \/ /\ Store(f, i, Reset)
               /\ free' = pool
               /\ UNCHANGED <<ring, delivered>>
            \/ \E m \in pool : Conclude(f, i, [s EXCEPT !.ptr = m], pool \ {m})
  BY DEF start_reassemble_pdu
<1> DEFINE old  == info[f.id][i]
           s    == Entered(Cleared(old, f), f)
           pool == free \cup (IF Conflict(old, f) \/ Repeated(old, f)
                              THEN Owned(old) ELSE {})
<1>2. old \in FragInfo /\ TypeOK /\ arrived \in [Fragment -> Nat] /\ AllTidy /\ AllReachable
  BY FragmentFields DEF FifoInv, TypeOK
<1>3. /\ Cleared(old, f) \in FragInfo /\ s \in FragInfo /\ pool \subseteq Mbuf
      /\ s.ptr = Cleared(old, f).ptr
  BY <1>2, ClearedType, EnteredType, OwnedType DEF TypeOK
<1>4. /\ Tidy(Cleared(old, f)) /\ Cleared(old, f).num = 0
      /\ Conflict(old, f) \/ Owned(old) = {}
  BY StartFresh DEF start_reassemble_pdu
<1>5. Tidy(s) /\ s.ts = f.ts
  BY <1>3, <1>4, EnteredTidy
<1>6. \A m \in free \cup Owned(info[f.id][i]) : m \in pool
  BY <1>4
<1>7. \A m : Tidy([s EXCEPT !.ptr = m]) /\ [s EXCEPT !.ptr = m].ts = f.ts
  BY <1>3, <1>4, EnteredTidy
<1> HIDE DEF s, pool
<1>8. CASE Store(f, i, s) /\ free' = pool /\ UNCHANGED <<ring, delivered>>
  BY <1>2, <1>3, <1>5, <1>6, <1>8, StoreTidy, StoreReachable
<1>9. CASE Store(f, i, Reset) /\ free' = pool /\ UNCHANGED <<ring, delivered>>
  BY <1>2, <1>6, <1>9, ResetType, ResetTidy, StoreTidy, StoreReachable
<1>10. ASSUME NEW m \in pool, Conclude(f, i, [s EXCEPT !.ptr = m], pool \ {m})
       PROVE  AllTidy' /\ AllReachable'
  <2>1. [s EXCEPT !.ptr = m] \in FragInfo /\ [s EXCEPT !.ptr = m].ptr = m
    BY <1>3, PtrType DEF FragInfo
  <2>2. \A n \in free \cup Owned(info[f.id][i]) :
          n \in pool \ {m} \/ n = [s EXCEPT !.ptr = m].ptr
    BY <1>6, <2>1
  <2>3. QED
    BY <1>7, <1>10, <2>1, <2>2, ConcludeTidy
<1>11. QED
  BY <1>1, <1>8, <1>9, <1>10 DEF s, pool

\* A middle or end fragment.
LEMMA KeepTidy ==
  ASSUME FifoInv, NEW f \in Fragment, keep_reassemble_pdu(f),
         arrived' = [arrived EXCEPT ![f] = @ + 1]
  PROVE  AllTidy' /\ AllReachable'
<1>1. PICK i \in Buffer :
        LET s == Lengthened(Replaced(info[f.id][i], f), f)
        IN  \/ /\ Store(f, i, Reset)
               /\ free' = free \cup Owned(s)
               /\ UNCHANGED <<ring, delivered>>
            \/ Conclude(f, i, Kept(s, f), free)
  BY DEF keep_reassemble_pdu
<1> DEFINE old == info[f.id][i]
           s == Lengthened(Replaced(old, f), f)
<1>2. /\ old \in FragInfo /\ Tidy(old) /\ TypeOK /\ arrived \in [Fragment -> Nat]
      /\ AllTidy /\ AllReachable
  BY FragmentFields DEF FifoInv, TypeOK, AllTidy
<1>3. Kept(s, f) \in FragInfo
  BY <1>2, ReplacedType, LengthenedType, KeptType
<1>4. Tidy(Kept(s, f)) /\ Kept(s, f).ts = f.ts /\ Kept(s, f).ptr = old.ptr /\ s.ptr = old.ptr
  BY <1>2, KeptTidy
<1>5. \A m \in Owned(old) : m = old.ptr
  BY DEF Owned
<1>6. Owned(s) = Owned(old)
  BY <1>4 DEF Owned
<1> HIDE DEF s
<1>7. CASE Store(f, i, Reset) /\ free' = free \cup Owned(s) /\ UNCHANGED <<ring, delivered>>
  BY <1>2, <1>6, <1>7, ResetType, ResetTidy, StoreTidy, StoreReachable
<1>8. CASE Conclude(f, i, Kept(s, f), free)
  BY <1>3, <1>4, <1>5, <1>8, ConcludeTidy
<1>9. QED
  BY <1>1, <1>7, <1>8 DEF s

\* The timeout gives back the mbufs of the buffers it resets.
LEMMA TimeoutTidy ==
  ASSUME FifoInv, fragment_timeout, UNCHANGED arrived
  PROVE  AllTidy' /\ AllReachable'
<1>1. \A k \in FragId : \A j \in Buffer :
        info'[k][j] = IF Expired(k) /\ j = Head(list[k]) THEN Reset ELSE info[k][j]
  BY DEF fragment_timeout
<1>2. AllTidy'
  BY <1>1, ResetTidy DEF FifoInv, AllTidy, Dated
<1>3. ASSUME NEW m \in Mbuf PROVE Reachable(m, free', ring', info')
  <2>1. Reachable(m, free, ring, info)
    BY DEF FifoInv, AllReachable
  <2>2. CASE m \in free
    BY <2>2 DEF Reachable, fragment_timeout
  <2>3. CASE \E n \in 1 .. Len(ring) : ring[n].mbuf = m
    BY <2>3 DEF Reachable, fragment_timeout
  <2>4. ASSUME NEW k \in FragId, NEW j \in Buffer, info[k][j].ptr = m
        PROVE  Reachable(m, free', ring', info')
    <3>1. CASE Expired(k) /\ j = Head(list[k])
      <4>1. m \in Owned(info[k][Head(list[k])])
        BY <2>4, <3>1, ConstantsAssumption DEF Owned
      <4>2. m \in free'
        BY <3>1, <4>1 DEF fragment_timeout
      <4>3. QED
        BY <4>2 DEF Reachable
    <3>2. CASE ~ (Expired(k) /\ j = Head(list[k]))
      <4>1. info'[k][j].ptr = m
        BY <1>1, <2>4, <3>2
      <4>2. QED
        BY <4>1 DEF Reachable
    <3>3. QED
      BY <3>1, <3>2
  <2>5. QED
    BY <2>1, <2>2, <2>3, <2>4 DEF Reachable
<1>4. QED
  BY <1>2, <1>3 DEF AllReachable

\* The clock changes only ages.
LEMMA TickTidy ==
  ASSUME FifoInv, Tick, UNCHANGED arrived
  PROVE  AllTidy' /\ AllReachable'
<1>1. ASSUME NEW k \in FragId, NEW j \in Buffer
      PROVE  /\ info'[k][j].num = info[k][j].num /\ info'[k][j].frag = info[k][j].frag
             /\ info'[k][j].ptr = info[k][j].ptr /\ info'[k][j].ts = info[k][j].ts
  <2>1. info[k][j] \in FragInfo
    BY DEF FifoInv, TypeOK
  <2>2. QED
    BY <2>1 DEF Tick, FragInfo
<1>2. \A s, u : s.num = u.num /\ s.frag = u.frag /\ s.ptr = u.ptr /\ Tidy(u) => Tidy(s)
  BY DEF Tidy, Filled
<1>3. AllTidy'
  BY <1>1, <1>2 DEF FifoInv, AllTidy, Dated
<1>4. ASSUME NEW m \in Mbuf PROVE Reachable(m, free', ring', info')
  BY <1>1, SMTT(30) DEF FifoInv, AllReachable, Reachable, Tick
<1>5. QED
  BY <1>3, <1>4 DEF AllReachable

\* Sending gives the mbuf back to the pool.
LEMMA SendTidy ==
  ASSUME FifoInv, snd_single_pdu, UNCHANGED arrived
  PROVE  AllTidy' /\ AllReachable'
<1> DEFINE Elem == [mbuf: Mbuf, num: Nat, frag: [FragSeq -> Fragment \cup {Null}]]
<1>1. /\ ring \in Seq(Elem) /\ ring # <<>> /\ ring' = Tail(ring) /\ info' = info
      /\ free' = free \cup {Head(ring).mbuf}
  BY DEF FifoInv, TypeOK, snd_single_pdu
<1> HIDE DEF Elem
<1>2. \A n \in 1 .. Len(ring) : \/ ring[n] = Head(ring)
                                \/ n - 1 \in 1 .. Len(ring') /\ ring'[n - 1] = ring[n]
  BY <1>1
<1>3. ASSUME NEW m \in Mbuf PROVE Reachable(m, free', ring', info')
  <2>1. Reachable(m, free, ring, info)
    BY DEF FifoInv, AllReachable
  <2>2. CASE \E n \in 1 .. Len(ring) : ring[n].mbuf = m
    BY <1>1, <1>2, <2>2 DEF Reachable
  <2>3. QED
    BY <1>1, <2>1, <2>2 DEF Reachable
<1>4. AllTidy'
  BY <1>1 DEF FifoInv, AllTidy
<1>5. QED
  BY <1>3, <1>4 DEF AllReachable

\* On a channel that keeps the order and may lose fragments, every mbuf of the pool
\* is always free, on the ring or owned by a buffer.
THEOREM NothingLeaks == SpecFifo => []NoLeak
<1>1. CInit => FifoInv
  <2> SUFFICES ASSUME CInit PROVE FifoInv
    OBVIOUS
  <2>1. TypeOK /\ arrived \in [Fragment -> Nat]
    BY TypeInit DEF CInit
  <2>2. AllTidy
    BY ResetTidy DEF CInit, Init, AllTidy, Dated
  <2>3. AllReachable
    BY DEF CInit, Init, AllReachable, Reachable
  <2>4. QED
    BY <2>1, <2>2, <2>3 DEF FifoInv
<1>2. FifoInv /\ [NextFifo]_cvars => FifoInv'
  <2> SUFFICES ASSUME FifoInv, [NextFifo]_cvars PROVE FifoInv'
    OBVIOUS
  <2>1. TypeOK'
    <3>1. [NextAny]_cvars
      BY DEF NextFifo, NextAny
    <3>2. QED
      BY <3>1, ChannelStep, TypeStep DEF FifoInv
  <2>2. ASSUME NEW f \in Fragment, InOrder(f), Arrive(f) PROVE FifoInv'
    <3>1. arrived' = [arrived EXCEPT ![f] = @ + 1] /\ Receive(f)
      BY <2>2 DEF Arrive
    <3>2. arrived' \in [Fragment -> Nat]
      BY <3>1 DEF FifoInv
    <3>3. CASE start_reassemble_pdu(f) \/ keep_reassemble_pdu(f)
      BY <2>1, <2>2, <3>1, <3>2, <3>3, StartTidy, KeepTidy DEF FifoInv
    <3>4. CASE IgnoreStart(f)
      <4>1. \A h \in Fragment : arrived[h] > 0 => arrived'[h] > 0
        BY <3>1 DEF FifoInv
      <4>2. AllTidy'
        BY <3>4, <4>1 DEF FifoInv, AllTidy, Dated, IgnoreStart, vars
      <4>3. AllReachable'
        BY <3>4 DEF FifoInv, AllReachable, IgnoreStart, vars
      <4>4. QED
        BY <2>1, <3>2, <4>2, <4>3 DEF FifoInv
    <3>5. QED
      BY <3>1, <3>3, <3>4 DEF Receive
  <2>3. CASE Background
    BY <2>1, <2>3, TimeoutTidy, TickTidy, SendTidy DEF Background, FifoInv
  <2>4. CASE UNCHANGED cvars
    BY <2>1, <2>4 DEF FifoInv, AllTidy, AllReachable, cvars
  <2>5. QED
    BY <2>2, <2>3, <2>4 DEF NextFifo
<1>3. FifoInv => NoLeak
  BY DEF FifoInv, AllReachable, Reachable, NoLeak
<1>4. QED
  BY <1>1, <1>2, <1>3, PTL DEF SpecFifo
=============================================================================
