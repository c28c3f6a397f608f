--------------------------- MODULE PipelineProofs ---------------------------
(* The mbufs of the router for pools of every size, any traffic and any        *)
(* interleaving of the threads: each mbuf is in one place, its data lie inside *)
(* its buffer, and what is sent is what was received.                          *)
(*                                                                             *)
(* The seventeen places where an mbuf may be are put in one tuple, Lists; a    *)
(* step takes mbufs from some of these lists and puts them at the end of       *)
(* others.  What the mbufs carry is followed through these lists, the frame    *)
(* that is taken apart, the frame that is built and what was sent.             *)
EXTENDS Pipeline, FiniteSetTheorems, WellFoundedInduction, TLAPS

-----------------------------------------------------------------------------
(* Sequences and pools *)

\* A set of numbers has a least one: what the proofs by induction use.
LEMMA LeastNumber ==
  ASSUME NEW T \in SUBSET Nat, T # {}
  PROVE  \E x \in T : \A y \in T : x <= y
<1> DEFINE R == {ss \in Nat \X Nat : ss[1] < ss[2]}
<1>1. IsWellFoundedOn(R, Nat)
  BY NatLessThanWellFounded, Zenon DEF OpToRel
<1> HIDE DEF R
<1>2. PICK x \in T : \A y \in T : ~ (<<y, x>> \in R)
  BY <1>1, WFMin
<1>3. ASSUME NEW y \in T PROVE x <= y
  <2>1. <<y, x>> \notin R /\ x \in Nat /\ y \in Nat
    BY <1>2
  <2>2. ~ (y < x)
    BY <2>1 DEF R
  <2>3. QED
    BY <2>1, <2>2
<1>4. QED
  BY <1>3

\* The three pools.
LEMMA PoolFacts ==
  /\ Pools = {RcvMbuf, DecapMbuf, EncapMbuf}
  /\ RcvMbuf # DecapMbuf /\ RcvMbuf # EncapMbuf /\ DecapMbuf # EncapMbuf
  /\ None \notin AllMbufs
  /\ \A P \in Pools : P \subseteq AllMbufs /\ IsFiniteSet(P)
  /\ \A m \in AllMbufs : PoolOf(m) \in Pools /\ m \in PoolOf(m)
<1>1. RcvMbuf # {} /\ DecapMbuf # {} /\ EncapMbuf # {}
  BY PipelineAssumption DEF Pools
<1>2. RcvMbuf # DecapMbuf /\ RcvMbuf # EncapMbuf /\ DecapMbuf # EncapMbuf
  BY <1>1, PipelineAssumption
<1>3. \A m \in AllMbufs : PoolOf(m) \in Pools /\ m \in PoolOf(m)
  BY DEF AllMbufs, PoolOf
<1>4. QED
  BY <1>2, <1>3, PipelineAssumption DEF Pools, AllMbufs

\* The mbufs of all pools are finitely many.
LEMMA AllFinite == IsFiniteSet(AllMbufs)
<1>1. IsFiniteSet(RcvMbuf) /\ IsFiniteSet(DecapMbuf) /\ IsFiniteSet(EncapMbuf)
  BY PipelineAssumption DEF Pools
<1>2. IsFiniteSet((RcvMbuf \cup DecapMbuf) \cup EncapMbuf)
  BY <1>1, FS_Union
<1>3. AllMbufs = (RcvMbuf \cup DecapMbuf) \cup EncapMbuf
  BY DEF AllMbufs, Pools
<1>4. QED
  BY <1>2, <1>3

\* Each element once.
Once(s) == \A i, j \in DOMAIN s : s[i] = s[j] => i = j

\* A full pool.
LEMMA FullPool ==
  ASSUME NEW P, IsFiniteSet(P)
  PROVE  SetToSeq(P) \in Seq(P) /\ Once(SetToSeq(P)) /\ ToSet(SetToSeq(P)) = P
<1> DEFINE N == Cardinality(P)
           s == SetToSeq(P)
<1>1. N \in Nat /\ ExistsBijection(1 .. N, P)
  BY FS_CardinalityType
<1>2. \E f \in [1 .. N -> P] : IsInjective(f)
  BY <1>1 DEF ExistsBijection, Bijection, Injection
<1>3. s \in [1 .. N -> P] /\ IsInjective(s)
  BY <1>2 DEF SetToSeq
<1>4. s \in Injection(1 .. N, P) /\ IsFiniteSet(1 .. N) /\ Cardinality(1 .. N) = N
  BY <1>1, <1>3, FS_Interval DEF Injection
<1>5. s \in Surjection(1 .. N, P)
  BY <1>4, FS_Injection
<1>6. ToSet(s) = P
  BY <1>3, <1>5 DEF Surjection, ToSet
<1>7. s \in Seq(P)
  BY <1>1, <1>3
<1>8. QED
  BY <1>3, <1>6, <1>7 DEF IsInjective, Once

\* Freeing one mbuf after the other.
LEMMA FreedAllSteps ==
  ASSUME NEW f, NEW s, Len(s) \in Nat
  PROVE  \E g : /\ DOMAIN g = 0 .. Len(s) /\ g[0] = f /\ FreedAll(f, s) = g[Len(s)]
                /\ \A k \in 1 .. Len(s) : g[k] = Freed(g[k - 1], s[k])
<1> DEFINE N == Len(s)
           Good(n, g) == g = [k \in 0 .. n |-> IF k = 0 THEN f ELSE Freed(g[k - 1], s[k])]
           Bad == {n \in 0 .. N : \A g : ~ Good(n, g)}
<1>1. Bad = {}
  <2> SUFFICES ASSUME Bad # {} PROVE FALSE
    OBVIOUS
  <2>1. Bad \in SUBSET Nat
    OBVIOUS
  <2>2. PICK n \in Bad : \A y \in Bad : n <= y
    BY <2>1, LeastNumber
  <2>3. CASE n = 0
    <3> DEFINE g == [k \in 0 .. 0 |-> f]
    <3>1. Good(0, g)
      OBVIOUS
    <3>2. QED
      BY <2>2, <2>3, <3>1
  <2>4. CASE n # 0
    <3>1. n - 1 \in 0 .. N /\ n \in 1 .. N /\ n - 1 < n /\ n - 1 \notin Bad
      <4>1. n \in 0 .. N
        BY <2>2
      <4> HIDE DEF Bad
      <4>2. n - 1 \in 0 .. N /\ n \in 1 .. N /\ n - 1 < n
        BY <2>4, <4>1
      <4>3. n - 1 \in Bad => n <= n - 1
        BY <2>2
      <4>4. QED
        BY <4>2, <4>3
    <3>2. PICK g : Good(n - 1, g)
      BY <3>1
    <3> DEFINE h == [k \in 0 .. n |-> IF k = n THEN Freed(g[n - 1], s[n]) ELSE g[k]]
    <3> HIDE DEF Bad
    <3>3. \A k \in 0 .. n - 1 : h[k] = g[k] /\ g[k] = IF k = 0 THEN f ELSE Freed(g[k - 1], s[k])
      <4>1. \A k \in 0 .. n - 1 : h[k] = g[k]
        BY <3>1
      <4>2. \A k \in 0 .. n - 1 : g[k] = IF k = 0 THEN f ELSE Freed(g[k - 1], s[k])
        BY <3>2, Zenon
      <4>3. QED
        BY <4>1, <4>2
    <3>4. h[n] = Freed(h[n - 1], s[n])
      BY <3>1, <3>3
    <3>5. ASSUME NEW k \in 0 .. n
          PROVE  h[k] = IF k = 0 THEN f ELSE Freed(h[k - 1], s[k])
      <4>1. CASE k = n
        BY <2>4, <3>4, <4>1
      <4>2. CASE k = 0
        <5>1. 0 \in 0 .. n - 1
          BY <3>1
        <5>2. h[0] = f
          BY <3>3, <5>1
        <5>3. QED
          BY <4>2, <5>2
      <4>3. CASE k # n /\ k # 0
        <5>1. k \in 0 .. n - 1 /\ k - 1 \in 0 .. n - 1
          BY <3>1, <4>3
        <5>2. QED
          BY <3>3, <4>3, <5>1
      <4>4. QED
        BY <4>1, <4>2, <4>3
    <3>6. DOMAIN h = 0 .. n /\ h = [k \in 0 .. n |-> h[k]]
      OBVIOUS
    <3> HIDE DEF h
    <3>7. Good(n, h)
      BY <3>5, <3>6
    <3>8. QED
      BY <2>2, <3>7 DEF Bad
  <2>5. QED
    BY <2>3, <2>4
<1>2. \E g : Good(N, g)
  <2>1. N \in 0 .. N
    OBVIOUS
  <2>2. QED
    BY <1>1, <2>1
<1> DEFINE a == CHOOSE g : Good(N, g)
<1>3. Good(N, a)
  BY <1>2
<1>4. FreedAll(f, s) = a[N]
  BY DEF FreedAll
<1> HIDE DEF a
<1>5. DOMAIN a = 0 .. N /\ a[0] = f /\ \A k \in 1 .. N : a[k] = Freed(a[k - 1], s[k])
  <2>1. DOMAIN a = 0 .. N
    BY <1>3, Zenon
  <2>2. \A k \in 0 .. N : a[k] = IF k = 0 THEN f ELSE Freed(a[k - 1], s[k])
    BY <1>3, Zenon
  <2>3. 0 \in 0 .. N /\ \A k \in 1 .. N : k \in 0 .. N /\ k # 0
    OBVIOUS
  <2>4. QED
    BY <2>1, <2>2, <2>3
<1>6. QED
  BY <1>4, <1>5

-----------------------------------------------------------------------------
(* One place for every mbuf *)

\* All the places where an mbuf may be, in the order of EachInOnePlace.
Lists ==
  <<Hand(recv[0]), Hand(recv[1]), Hand(decap.frame), Hand(enc.rest), Hand(enc.pdu),
    Hand(enc.send), Hand(snd), enc.open, rcv_ring[0], rcv_ring[1],
    encap_ring[0], encap_ring[1], snd_bb_ring,
    free[RcvMbuf], free[DecapMbuf], free[EncapMbuf], decap.held>>
Place == 1 .. 17

\* The places outside the pools.
Used == (1 .. 13) \cup {17}

\* The place of the free mbufs of a pool.
PoolPlace(P) == IF P = RcvMbuf THEN 14 ELSE IF P = DecapMbuf THEN 15 ELSE 16

\* Every mbuf is in exactly one list, once, and free mbufs are in their own pool.
OnePlace(L) ==
  /\ L \in [Place -> Seq(AllMbufs)]
  /\ \A p, q \in Place : \A i \in 1 .. Len(L[p]), j \in 1 .. Len(L[q]) :
       L[p][i] = L[q][j] => p = q /\ i = j
  /\ \A m \in AllMbufs : \E p \in Place : \E i \in 1 .. Len(L[p]) : L[p][i] = m
  /\ \A P \in Pools : \A i \in 1 .. Len(L[PoolPlace(P)]) : L[PoolPlace(P)][i] \in P

\* The first mbuf of one list goes to the end of another.
Move(L, a, b) ==
  [k \in Place |-> IF k = a THEN Tail(L[a]) ELSE IF k = b THEN Append(L[b], Head(L[a])) ELSE L[k]]

\* Sequences after a move.
LEMMA MoveSeqs ==
  ASSUME NEW L \in [Place -> Seq(AllMbufs)], NEW a \in Place, NEW b \in Place, a # b,
         L[a] # <<>>
  PROVE  LET K == Move(L, a, b) IN
         /\ K \in [Place -> Seq(AllMbufs)]
         /\ Len(L[a]) \in Nat /\ Len(L[b]) \in Nat /\ Len(L[a]) >= 1 /\ L[a][1] \in AllMbufs
         /\ Len(K[a]) = Len(L[a]) - 1 /\ \A i \in 1 .. Len(K[a]) : K[a][i] = L[a][i + 1]
         /\ Len(K[b]) = Len(L[b]) + 1 /\ K[b][Len(L[b]) + 1] = L[a][1]
         /\ \A i \in 1 .. Len(L[b]) : K[b][i] = L[b][i]
         /\ \A p \in Place \ {a, b} : K[p] = L[p]
<1> DEFINE s == L[a]
           t == L[b]
           K == Move(L, a, b)
<1>1. s \in Seq(AllMbufs) /\ t \in Seq(AllMbufs) /\ s # <<>>
  OBVIOUS
<1>2. K[a] = Tail(s) /\ K[b] = Append(t, Head(s)) /\ \A p \in Place \ {a, b} : K[p] = L[p]
  BY DEF Move
<1>3. DOMAIN K = Place
  BY DEF Move
<1> HIDE DEF s, t, K
<1>4. /\ Len(s) \in Nat /\ Len(s) >= 1 /\ Head(s) = s[1] /\ s[1] \in AllMbufs
      /\ Tail(s) \in Seq(AllMbufs) /\ Len(Tail(s)) = Len(s) - 1
      /\ \A i \in 1 .. Len(Tail(s)) : Tail(s)[i] = s[i + 1]
  BY <1>1
<1>5. /\ Len(t) \in Nat /\ Append(t, Head(s)) \in Seq(AllMbufs)
      /\ Len(Append(t, Head(s))) = Len(t) + 1 /\ Append(t, Head(s))[Len(t) + 1] = s[1]
      /\ \A i \in 1 .. Len(t) : Append(t, Head(s))[i] = t[i]
  BY <1>1, <1>4
<1>6. \A p \in Place : K[p] \in Seq(AllMbufs)
  <2> SUFFICES ASSUME NEW p \in Place PROVE K[p] \in Seq(AllMbufs)
    OBVIOUS
  <2>1. CASE p \notin {a, b}
    BY <1>2, <2>1
  <2>2. CASE p \in {a, b}
    BY <1>2, <1>4, <1>5, <2>2
  <2>3. QED
    BY <2>1, <2>2
<1>7. K \in [Place -> Seq(AllMbufs)]
  <2>1. K = [p \in Place |-> K[p]]
    BY <1>3 DEF K, Move
  <2>2. QED
    BY <1>6, <2>1
<1>8. QED
  BY <1>2, <1>4, <1>5, <1>7 DEF s, t, K

\* Where an element of the new lists was before the move.
LEMMA MoveOne ==
  ASSUME NEW L, OnePlace(L), NEW a \in Place, NEW b \in Place, a # b, L[a] # <<>>,
         \A P \in Pools : b = PoolPlace(P) => Head(L[a]) \in P
  PROVE  OnePlace(Move(L, a, b))
<1> DEFINE K == Move(L, a, b)
           na == Len(L[a])
           nb == Len(L[b])
           was(p, i) == IF p = a THEN i + 1 ELSE IF p = b /\ i = nb + 1 THEN 1 ELSE i
           from(p, i) == IF p = b /\ i = nb + 1 THEN a ELSE p
<1>1. L \in [Place -> Seq(AllMbufs)] /\ \A p \in Place : Len(L[p]) \in Nat
  <2>1. L \in [Place -> Seq(AllMbufs)]
    BY DEF OnePlace
  <2>2. QED
    BY ONLY <2>1
<1>2. /\ K \in [Place -> Seq(AllMbufs)]
      /\ na \in Nat /\ nb \in Nat /\ na >= 1 /\ L[a][1] \in AllMbufs
      /\ Len(K[a]) = na - 1 /\ \A i \in 1 .. Len(K[a]) : K[a][i] = L[a][i + 1]
      /\ Len(K[b]) = nb + 1 /\ K[b][nb + 1] = L[a][1]
      /\ \A i \in 1 .. nb : K[b][i] = L[b][i]
      /\ \A p \in Place \ {a, b} : K[p] = L[p]
  BY <1>1, MoveSeqs
<1>3. L[a][1] = Head(L[a])
  BY <1>1
<1> HIDE DEF K, na, nb
<1>4. ASSUME NEW p \in Place, NEW i \in 1 .. Len(K[p])
      PROVE  /\ from(p, i) \in Place /\ was(p, i) \in 1 .. Len(L[from(p, i)])
             /\ K[p][i] = L[from(p, i)][was(p, i)] /\ i \in Nat /\ i >= 1
  <2>1. CASE p = a
    <3>1. i \in 1 .. na - 1 /\ K[a][i] = L[a][i + 1] /\ i + 1 \in 1 .. na
      BY <1>2, <2>1
    <3>2. QED
      BY <2>1, <3>1 DEF na
  <2>2. CASE p = b /\ i = nb + 1
    <3>1. 1 \in 1 .. na
      BY <1>2
    <3>2. QED
      BY <1>2, <2>2, <3>1 DEF na
  <2>3. CASE p = b /\ i # nb + 1
    <3>1. i \in 1 .. nb /\ K[b][i] = L[b][i]
      BY <1>2, <2>3
    <3>2. QED
      BY <2>3, <3>1 DEF nb
  <2>4. CASE p \notin {a, b}
    <3>1. K[p] = L[p]
      BY <1>2, <2>4
    <3>2. QED
      BY <1>1, <2>4, <3>1
  <2>5. QED
    BY <2>1, <2>2, <2>3, <2>4
<1>5. ASSUME NEW p \in Place, NEW q \in Place, NEW i \in 1 .. Len(K[p]), NEW j \in 1 .. Len(K[q]),
             K[p][i] = K[q][j]
      PROVE  p = q /\ i = j
  <2>1. from(p, i) = from(q, j) /\ was(p, i) = was(q, j)
    <3> DEFINE x == from(p, i)
               y == from(q, j)
               u == was(p, i)
               v == was(q, j)
    <3>1. /\ x \in Place /\ y \in Place /\ u \in 1 .. Len(L[x]) /\ v \in 1 .. Len(L[y])
          /\ L[x][u] = L[y][v]
      BY <1>4, <1>5
    <3> HIDE DEF x, y, u, v
    <3>2. x = y /\ u = v
      BY <3>1 DEF OnePlace
    <3>3. QED
      BY <3>2 DEF x, y, u, v
  <2>2. i \in Nat /\ j \in Nat /\ i >= 1 /\ j >= 1
    BY <1>4
  <2>3. QED
    BY <1>2, <2>1, <2>2
<1>6. ASSUME NEW m \in AllMbufs PROVE \E p \in Place : \E i \in 1 .. Len(K[p]) : K[p][i] = m
  <2>1. PICK p \in Place : \E i \in 1 .. Len(L[p]) : L[p][i] = m
    BY DEF OnePlace
  <2>2. PICK i \in 1 .. Len(L[p]) : L[p][i] = m
    BY <2>1
  <2>3. CASE p = a /\ i = 1
    <3>1. nb + 1 \in 1 .. Len(K[b]) /\ K[b][nb + 1] = m
      BY <1>2, <2>2, <2>3
    <3>2. QED
      BY <3>1
  <2>4. CASE p = a /\ i # 1
    <3>1. i \in 2 .. na
      BY <1>2, <2>2, <2>4 DEF na
    <3>2. i - 1 \in 1 .. Len(K[a]) /\ (i - 1) + 1 = i
      BY <1>2, <3>1
    <3>3. K[a][i - 1] = m
      BY <1>2, <2>2, <2>4, <3>2
    <3>4. QED
      BY <3>2, <3>3
  <2>5. CASE p = b
    <3>1. i \in 1 .. nb
      BY <2>2, <2>5 DEF nb
    <3>2. i \in 1 .. Len(K[b]) /\ K[b][i] = m
      BY <1>2, <2>2, <2>5, <3>1
    <3>3. QED
      BY <3>2
  <2>6. CASE p \notin {a, b}
    BY <1>2, <2>2, <2>6
  <2>7. QED
    BY <2>3, <2>4, <2>5, <2>6
<1>7. ASSUME NEW P \in Pools, NEW i \in 1 .. Len(K[PoolPlace(P)])
      PROVE  K[PoolPlace(P)][i] \in P
  <2> DEFINE p == PoolPlace(P)
  <2>1. p \in Place
    BY DEF PoolPlace, Place
  <2>2. K[p][i] = L[from(p, i)][was(p, i)] /\ was(p, i) \in 1 .. Len(L[from(p, i)])
    BY <1>4, <2>1
  <2> HIDE DEF p
  <2>3. CASE p = b /\ i = nb + 1
    BY <1>2, <1>3, <2>3 DEF p
  <2>4. CASE ~ (p = b /\ i = nb + 1)
    <3>1. from(p, i) = p
      BY <2>4
    <3>2. K[p][i] = L[p][was(p, i)] /\ was(p, i) \in 1 .. Len(L[p])
      BY <2>2, <3>1
    <3>3. QED
      BY <3>2 DEF OnePlace, p
  <2>5. QED
    BY <2>3, <2>4 DEF p
<1>8. QED
  BY <1>2, <1>5, <1>6, <1>7 DEF OnePlace, K

\* The pool a free mbuf goes back to is another place than where it was in use.
LEMMA PoolPlaces ==
  /\ PoolPlace(RcvMbuf) = 14 /\ PoolPlace(DecapMbuf) = 15 /\ PoolPlace(EncapMbuf) = 16
  /\ \A P \in Pools : PoolPlace(P) \in 14 .. 16
  /\ \A P, Q \in Pools : PoolPlace(P) = PoolPlace(Q) => P = Q
BY PoolFacts DEF PoolPlace

\* Freeing the mbuf at the head of a list moves it to its pool.
LEMMA MoveToPool ==
  ASSUME NEW L, OnePlace(L), NEW a \in Used, L[a] # <<>>
  PROVE  LET m == Head(L[a]) IN
         /\ m \in AllMbufs /\ PoolOf(m) \in Pools
         /\ OnePlace(Move(L, a, PoolPlace(PoolOf(m))))
<1> DEFINE m == Head(L[a])
           P == PoolOf(m)
<1>1. a \in Place /\ L[a] \in Seq(AllMbufs)
  <2>1. a \in Place
    BY DEF Place, Used
  <2>2. QED
    BY <2>1 DEF OnePlace
<1>2. m \in AllMbufs
  BY <1>1
<1>3. P \in Pools /\ m \in P /\ PoolPlace(P) \in Place /\ PoolPlace(P) # a
  BY <1>2, PoolFacts, PoolPlaces DEF Place, Used
<1>4. \A Q \in Pools : PoolPlace(P) = PoolPlace(Q) => m \in Q
  BY <1>3, PoolPlaces
<1> HIDE DEF P, m
<1>5. OnePlace(Move(L, a, PoolPlace(P)))
  BY <1>1, <1>3, <1>4, MoveOne DEF m
<1>6. QED
  BY <1>2, <1>3, <1>5 DEF m, P

\* Two sequences of one length are one when they agree everywhere.
LEMMA SeqEqual ==
  ASSUME NEW S, NEW x \in Seq(S), NEW y \in Seq(S), Len(x) = Len(y),
         \A i \in 1 .. Len(x) : x[i] = y[i]
  PROVE  x = y
OBVIOUS

\* Two families of lists are one when they agree everywhere.
LEMMA SameLists ==
  ASSUME NEW L, NEW K, L = [k \in Place |-> L[k]], K = [k \in Place |-> K[k]],
         \A k \in Place : L[k] = K[k]
  PROVE  L = K
OBVIOUS

\* The lists L with s at the place a and the pools f.
With(L, a, s, f) ==
  [k \in Place |-> IF k = a THEN s ELSE IF k = 14 THEN f[RcvMbuf]
                   ELSE IF k = 15 THEN f[DecapMbuf] ELSE IF k = 16 THEN f[EncapMbuf] ELSE L[k]]

\* rte_pktmbuf_free changes the pool of the mbuf, and no other.
LEMMA FreedPool ==
  ASSUME NEW f, DOMAIN f = Pools, NEW m \in AllMbufs
  PROVE  /\ DOMAIN Freed(f, m) = Pools
         /\ \A P \in Pools : Freed(f, m)[P] = IF P = PoolOf(m) THEN Append(f[P], m) ELSE f[P]
BY PoolFacts DEF Freed, Put

\* rte_pktmbuf_free of the first mbuf of a list.
LEMMA FreedOne ==
  ASSUME NEW L, NEW a \in Used, NEW s, s # <<>>, NEW f, DOMAIN f = Pools,
         OnePlace(With(L, a, s, f))
  PROVE  /\ DOMAIN Freed(f, Head(s)) = Pools
         /\ OnePlace(With(L, a, Tail(s), Freed(f, Head(s))))
<1> DEFINE X == With(L, a, s, f)
           m == Head(s)
           P == PoolOf(m)
           g == Freed(f, m)
           Y == With(L, a, Tail(s), g)
           M == Move(X, a, PoolPlace(P))
<1>1. a \in Place /\ a \notin {14, 15, 16} /\ {14, 15, 16} \subseteq Place
  BY DEF Place, Used
<1>2. X[a] = s /\ DOMAIN X = Place /\ X = [k \in Place |-> X[k]]
      /\ X[14] = f[RcvMbuf] /\ X[15] = f[DecapMbuf] /\ X[16] = f[EncapMbuf]
      /\ \A k \in Place : k \notin {a, 14, 15, 16} => X[k] = L[k]
  BY <1>1 DEF With
<1>3. Y[a] = Tail(s) /\ DOMAIN Y = Place /\ Y = [k \in Place |-> Y[k]]
      /\ Y[14] = g[RcvMbuf] /\ Y[15] = g[DecapMbuf] /\ Y[16] = g[EncapMbuf]
      /\ \A k \in Place : k \notin {a, 14, 15, 16} => Y[k] = L[k]
  BY <1>1 DEF With
<1> HIDE DEF X, Y
<1>4. m \in AllMbufs /\ P \in Pools /\ OnePlace(M)
  <2>1. X[a] # <<>> /\ OnePlace(X)
    BY <1>2 DEF X
  <2>2. QED
    BY <1>2, <2>1, MoveToPool
<1>5. DOMAIN g = Pools
      /\ \A Q \in Pools : g[Q] = IF Q = P THEN Append(f[Q], m) ELSE f[Q]
  BY <1>4, FreedPool
<1>6. PoolPlace(P) \in {14, 15, 16}
      /\ (PoolPlace(P) = 14 <=> P = RcvMbuf) /\ (PoolPlace(P) = 15 <=> P = DecapMbuf)
      /\ (PoolPlace(P) = 16 <=> P = EncapMbuf)
  BY <1>4, PoolFacts, PoolPlaces
<1>7. M = [k \in Place |-> M[k]] /\ DOMAIN M = Place /\ M[a] = Tail(X[a])
      /\ \A k \in Place : k # a => M[k] = IF k = PoolPlace(P) THEN Append(X[k], Head(X[a])) ELSE X[k]
  BY <1>2, <1>1, <1>6 DEF Move
<1> HIDE DEF M, P, g, m
<1>8. \A k \in Place : k \notin {14, 15, 16} => M[k] = Y[k]
  <2> SUFFICES ASSUME NEW k \in Place, k \notin {14, 15, 16} PROVE M[k] = Y[k]
    OBVIOUS
  <2>1. CASE k = a
    BY <1>2, <1>3, <1>7, <2>1
  <2>2. CASE k # a
    BY <1>2, <1>3, <1>6, <1>7, <2>2
  <2>3. QED
    BY <2>1, <2>2
<1>9. M[14] = Y[14]
  <2>1. RcvMbuf \in Pools
    BY PoolFacts
  <2>2. M[14] = IF P = RcvMbuf THEN Append(X[14], m) ELSE X[14]
    BY <1>2, <1>1, <1>6, <1>7 DEF m
  <2>3. QED
    BY <1>2, <1>3, <1>5, <2>1, <2>2
<1>10. M[15] = Y[15]
  <2>1. DecapMbuf \in Pools
    BY PoolFacts
  <2>2. M[15] = IF P = DecapMbuf THEN Append(X[15], m) ELSE X[15]
    BY <1>2, <1>1, <1>6, <1>7 DEF m
  <2>3. QED
    BY <1>2, <1>3, <1>5, <2>1, <2>2
<1>11. M[16] = Y[16]
  <2>1. EncapMbuf \in Pools
    BY PoolFacts
  <2>2. M[16] = IF P = EncapMbuf THEN Append(X[16], m) ELSE X[16]
    BY <1>2, <1>1, <1>6, <1>7 DEF m
  <2>3. QED
    BY <1>2, <1>3, <1>5, <2>1, <2>2
<1>12. M = Y
  <2>1. \A k \in Place : M[k] = Y[k]
    BY <1>8, <1>9, <1>10, <1>11
  <2>2. QED
    BY <1>3, <1>7, <2>1, SameLists
<1>13. QED
  BY <1>4, <1>5, <1>12 DEF Y, g, m

\* All mbufs of a list are freed, and each goes to its own pool.
LEMMA FreedList ==
  ASSUME NEW L, NEW a \in Used, NEW s \in Seq(AllMbufs), NEW f, DOMAIN f = Pools,
         OnePlace(With(L, a, s, f))
  PROVE  DOMAIN FreedAll(f, s) = Pools /\ OnePlace(With(L, a, <<>>, FreedAll(f, s)))
<1> DEFINE N == Len(s)
<1>1. N \in Nat
  OBVIOUS
<1>2. PICK g : /\ g[0] = f /\ FreedAll(f, s) = g[N]
               /\ \A k \in 1 .. N : g[k] = Freed(g[k - 1], s[k])
  BY <1>1, FreedAllSteps
<1> DEFINE rest(k) == SubSeq(s, k + 1, N)
           Good(k) == DOMAIN g[k] = Pools /\ OnePlace(With(L, a, rest(k), g[k]))
           Bad == {k \in 0 .. N : ~ Good(k)}
<1>3. rest(0) = s /\ rest(N) = <<>>
  OBVIOUS
<1>4. ASSUME NEW k \in 1 .. N
      PROVE  rest(k - 1) # <<>> /\ Head(rest(k - 1)) = s[k] /\ Tail(rest(k - 1)) = rest(k)
  <2>1. /\ rest(k - 1) \in Seq(AllMbufs) /\ Len(rest(k - 1)) = N - k + 1
        /\ \A i \in 1 .. Len(rest(k - 1)) : rest(k - 1)[i] = s[k - 1 + i]
    OBVIOUS
  <2>2. /\ rest(k) \in Seq(AllMbufs) /\ Len(rest(k)) = N - k
        /\ \A i \in 1 .. Len(rest(k)) : rest(k)[i] = s[k + i]
    OBVIOUS
  <2> DEFINE r == rest(k - 1)
  <2>3. k \in Nat /\ N \in Nat /\ k >= 1 /\ k <= N
    OBVIOUS
  <2> HIDE DEF rest, r, N
  <2>4. /\ r \in Seq(AllMbufs) /\ Len(r) = N - k + 1 /\ Len(r) >= 1
        /\ \A i \in 1 .. Len(r) : r[i] = s[k - 1 + i]
    BY <2>1, <2>3 DEF r
  <2>5. /\ r # <<>> /\ Head(r) = r[1] /\ Tail(r) \in Seq(AllMbufs) /\ Len(Tail(r)) = Len(r) - 1
        /\ \A i \in 1 .. Len(r) - 1 : Tail(r)[i] = r[i + 1]
    BY <2>4
  <2>6. \A i \in 1 .. N - k : i + 1 \in 1 .. Len(r) /\ k - 1 + (i + 1) = k + i
    BY <2>3, <2>4
  <2>7. /\ Tail(rest(k - 1)) \in Seq(AllMbufs) /\ Len(Tail(rest(k - 1))) = N - k
        /\ \A i \in 1 .. N - k : Tail(rest(k - 1))[i] = s[k + i]
    BY <2>3, <2>4, <2>5, <2>6 DEF r
  <2>8. rest(k - 1) # <<>> /\ Head(rest(k - 1)) = s[k]
    <3>1. 1 \in 1 .. Len(r) /\ k - 1 + 1 = k
      BY <2>3, <2>4
    <3>2. QED
      BY <2>4, <2>5, <3>1 DEF r
  <2>9. Tail(rest(k - 1)) = rest(k)
    <3> DEFINE x == Tail(rest(k - 1))
               y == rest(k)
    <3>1. /\ x \in Seq(AllMbufs) /\ y \in Seq(AllMbufs) /\ Len(x) = Len(y)
          /\ \A i \in 1 .. Len(x) : x[i] = y[i]
      BY <2>2, <2>7
    <3> HIDE DEF x, y
    <3>2. x = y
      BY <3>1, SeqEqual
    <3>3. QED
      BY <3>2 DEF x, y
  <2>10. QED
    BY <2>8, <2>9
<1>5. Good(0)
  BY <1>2, <1>3
<1>6. ASSUME NEW k \in 1 .. N, Good(k - 1) PROVE Good(k)
  <2>1. rest(k - 1) # <<>> /\ Head(rest(k - 1)) = s[k] /\ Tail(rest(k - 1)) = rest(k)
    BY <1>4
  <2>2. g[k] = Freed(g[k - 1], s[k])
    BY <1>2
  <2> DEFINE x == rest(k - 1)
             h == g[k - 1]
  <2>3. x # <<>> /\ DOMAIN h = Pools /\ OnePlace(With(L, a, x, h))
    BY <1>6, <2>1
  <2> HIDE DEF x, h
  <2>4. DOMAIN Freed(h, Head(x)) = Pools /\ OnePlace(With(L, a, Tail(x), Freed(h, Head(x))))
    BY <2>3, FreedOne
  <2>5. Freed(h, Head(x)) = g[k] /\ Tail(x) = rest(k)
    BY <2>1, <2>2 DEF x, h
  <2>6. QED
    BY <2>4, <2>5, Zenon
<1> HIDE DEF Good
<1>7. Bad = {}
  <2> SUFFICES ASSUME Bad # {} PROVE FALSE
    OBVIOUS
  <2>1. Bad \in SUBSET Nat
    OBVIOUS
  <2>2. PICK k \in Bad : \A y \in Bad : k <= y
    BY <2>1, LeastNumber
  <2>3. k \in 1 .. N /\ k - 1 \in 0 .. N /\ k - 1 < k
    BY <1>5, <2>2
  <2>4. Good(k - 1)
    BY <2>2, <2>3
  <2>5. QED
    BY <1>6, <2>2, <2>3, <2>4
<1>8. Good(N)
  BY <1>1, <1>7
<1>9. QED
  BY <1>2, <1>3, <1>8 DEF Good

\* A move that ends outside the pools.
LEMMA MoveTo ==
  ASSUME NEW L, OnePlace(L), NEW a \in Place, NEW b \in Used, a # b, L[a] # <<>>
  PROVE  OnePlace(Move(L, a, b))
<1>1. b \in Place /\ \A P \in Pools : b # PoolPlace(P)
  BY PoolPlaces DEF Place, Used
<1>2. QED
  BY <1>1, MoveOne

\* The lists L with s and t at the places a and b, and the pools f.
With2(L, a, s, b, t, f) ==
  [k \in Place |-> IF k = a THEN s ELSE IF k = b THEN t ELSE IF k = 14 THEN f[RcvMbuf]
                   ELSE IF k = 15 THEN f[DecapMbuf] ELSE IF k = 16 THEN f[EncapMbuf] ELSE L[k]]

\* An mbuf is handed on.
LEMMA HandedOn ==
  ASSUME NEW L, NEW a \in Used, NEW b \in Used, a # b, NEW s, s # <<>>, NEW t, NEW f,
         OnePlace(With2(L, a, s, b, t, f))
  PROVE  OnePlace(With2(L, a, Tail(s), b, Append(t, Head(s)), f))
<1> DEFINE X == With2(L, a, s, b, t, f)
           hd == Head(s)
           tl == Tail(s)
           ap == Append(t, hd)
           Y == With2(L, a, tl, b, ap, f)
           M == Move(X, a, b)
<1>1. a \in Place /\ b \in Place
  BY DEF Place, Used
<1>2. X[a] = s /\ X[b] = t
  BY <1>1 DEF With2
<1>3. OnePlace(M)
  BY <1>1, <1>2, MoveTo
<1>4. M = [k \in Place |-> IF k = a THEN tl ELSE IF k = b THEN ap ELSE X[k]]
  BY <1>2 DEF Move
<1> HIDE DEF M, tl, ap
<1>5. M = Y
  BY <1>4 DEF With2
<1>6. QED
  BY <1>3, <1>5 DEF tl, ap

\* An mbuf is taken from its pool.
LEMMA TakenFrom ==
  ASSUME NEW L, NEW b \in Used, NEW t, NEW f, DOMAIN f = Pools, NEW P \in Pools,
         f[P] # <<>>, OnePlace(With(L, b, t, f))
  PROVE  OnePlace(With(L, b, Append(t, Head(f[P])), [f EXCEPT ![P] = Tail(@)]))
<1> DEFINE X == With(L, b, t, f)
           hd == Head(f[P])
           tl == Tail(f[P])
           ap == Append(t, hd)
           g == [f EXCEPT ![P] = Tail(@)]
           Y == With(L, b, ap, g)
           a == PoolPlace(P)
           M == Move(X, a, b)
<1>1. b \in Place /\ a \in Place /\ a # b /\ b \notin {14, 15, 16} /\ {14, 15, 16} \subseteq Place
  BY PoolPlaces DEF Place, Used
<1>2. X[a] = f[P] /\ X[b] = t
  BY <1>1, PoolFacts, PoolPlaces DEF With
<1>3. OnePlace(M)
  BY <1>1, <1>2, MoveTo
<1>4. M = [k \in Place |-> IF k = a THEN tl ELSE IF k = b THEN ap ELSE X[k]]
  BY <1>2 DEF Move
<1>5. \A Q \in Pools : g[Q] = IF Q = P THEN tl ELSE f[Q]
  OBVIOUS
<1> HIDE DEF M, tl, ap, g, a
<1>6. \A k \in Place : M[k] = Y[k]
  <2> SUFFICES ASSUME NEW k \in Place PROVE M[k] = Y[k]
    OBVIOUS
  <2>1. CASE k \notin {14, 15, 16}
    <3>1. k # a
      BY <2>1, PoolPlaces DEF a
    <3>2. QED
      BY <1>4, <2>1, <3>1 DEF With
  <2>2. CASE k = 14
    <3>1. a = 14 <=> P = RcvMbuf
      BY PoolFacts, PoolPlaces DEF a
    <3>2. g[RcvMbuf] = IF P = RcvMbuf THEN tl ELSE f[RcvMbuf]
      BY <1>5, PoolFacts
    <3>3. QED
      BY <1>1, <1>4, <2>2, <3>1, <3>2 DEF With
  <2>3. CASE k = 15
    <3>1. a = 15 <=> P = DecapMbuf
      BY PoolFacts, PoolPlaces DEF a
    <3>2. g[DecapMbuf] = IF P = DecapMbuf THEN tl ELSE f[DecapMbuf]
      BY <1>5, PoolFacts
    <3>3. QED
      BY <1>1, <1>4, <2>3, <3>1, <3>2 DEF With
  <2>4. CASE k = 16
    <3>1. a = 16 <=> P = EncapMbuf
      BY PoolFacts, PoolPlaces DEF a
    <3>2. g[EncapMbuf] = IF P = EncapMbuf THEN tl ELSE f[EncapMbuf]
      BY <1>5, PoolFacts
    <3>3. QED
      BY <1>1, <1>4, <2>4, <3>1, <3>2 DEF With
  <2>5. QED
    BY <2>1, <2>2, <2>3, <2>4
<1>7. M = Y
  <2>1. M = [k \in Place |-> M[k]] /\ Y = [k \in Place |-> Y[k]]
    BY <1>4 DEF With
  <2>2. QED
    BY <1>6, <2>1, SameLists
<1>8. QED
  BY <1>3, <1>7 DEF tl, ap, g

\* Two sequences one after the other.
LEMMA Concatenated ==
  ASSUME NEW S, NEW x \in Seq(S), NEW y \in Seq(S)
  PROVE  /\ x \o y \in Seq(S) /\ Len(x \o y) = Len(x) + Len(y)
         /\ \A i \in 1 .. Len(x) + Len(y) : (x \o y)[i] = IF i <= Len(x) THEN x[i] ELSE y[i - Len(x)]
OBVIOUS

\* A sequence without its k-th element.
LEMMA RemovedAt ==
  ASSUME NEW S, NEW h \in Seq(S), NEW k \in 1 .. Len(h)
  PROVE  /\ RemoveAt(h, k) \in Seq(S) /\ Len(RemoveAt(h, k)) = Len(h) - 1
         /\ \A i \in 1 .. Len(h) - 1 : RemoveAt(h, k)[i] = IF i < k THEN h[i] ELSE h[i + 1]
<1> DEFINE x == SubSeq(h, 1, k - 1)
           y == SubSeq(h, k + 1, Len(h))
           n == Len(h)
<1>1. n \in Nat /\ k \in Nat /\ k >= 1 /\ k <= n
  OBVIOUS
<1>2. x \in Seq(S) /\ Len(x) = k - 1 /\ \A i \in 1 .. k - 1 : x[i] = h[i]
  BY <1>1
<1>3. y \in Seq(S) /\ Len(y) = n - k /\ \A i \in 1 .. n - k : y[i] = h[k + i]
  BY <1>1
<1>4. RemoveAt(h, k) = x \o y
  BY DEF RemoveAt
<1> HIDE DEF x, y, n
<1>5. /\ x \o y \in Seq(S) /\ Len(x \o y) = n - 1
      /\ \A i \in 1 .. n - 1 : (x \o y)[i] = IF i < k THEN x[i] ELSE y[i - k + 1]
  <2>1. x \o y \in Seq(S) /\ Len(x \o y) = Len(x) + Len(y)
        /\ \A i \in 1 .. Len(x) + Len(y) : (x \o y)[i] = IF i <= Len(x) THEN x[i] ELSE y[i - Len(x)]
    BY <1>2, <1>3, Concatenated
  <2>2. Len(x) + Len(y) = n - 1
    BY <1>1, <1>2, <1>3
  <2>3. \A i \in 1 .. n - 1 : (i <= Len(x) <=> i < k) /\ i - Len(x) = i - k + 1
    BY <1>1, <1>2
  <2>4. QED
    BY <2>1, <2>2, <2>3
<1>6. \A i \in 1 .. n - 1 : i < k => x[i] = h[i]
  BY <1>1, <1>2
<1>7. ASSUME NEW i \in 1 .. n - 1, ~ (i < k) PROVE y[i - k + 1] = h[i + 1]
  <2>1. i - k + 1 \in 1 .. n - k /\ k + (i - k + 1) = i + 1
    BY <1>1, <1>7
  <2>2. QED
    BY <1>3, <2>1
<1>8. QED
  BY <1>4, <1>5, <1>6, <1>7 DEF n

\* The elements of s in another order, was[i] being the old place of the i-th one.
Reordered(s, r, was) ==
  /\ r \in Seq(AllMbufs) /\ Len(r) = Len(s) /\ was \in [1 .. Len(r) -> 1 .. Len(r)]
  /\ \A i \in 1 .. Len(r) : r[i] = s[was[i]]
  /\ \A i, j \in 1 .. Len(r) : was[i] = was[j] => i = j
  /\ \A j \in 1 .. Len(r) : \E i \in 1 .. Len(r) : was[i] = j

\* The lists L with r at the place a.
WithOnly(L, a, r) == [k \in Place |-> IF k = a THEN r ELSE L[k]]

\* The mbufs of one list in another order.
LEMMA Permuted ==
  ASSUME NEW L, OnePlace(L), NEW a \in Place, NEW r, NEW was, Reordered(L[a], r, was)
  PROVE  OnePlace(WithOnly(L, a, r))
<1> DEFINE K == WithOnly(L, a, r)
<1>0. /\ r \in Seq(AllMbufs) /\ Len(r) = Len(L[a]) /\ was \in [1 .. Len(r) -> 1 .. Len(r)]
      /\ \A i \in 1 .. Len(r) : r[i] = L[a][was[i]]
      /\ \A i, j \in 1 .. Len(r) : was[i] = was[j] => i = j
      /\ \A j \in 1 .. Len(r) : \E i \in 1 .. Len(r) : was[i] = j
  BY DEF Reordered
<1>1. L \in [Place -> Seq(AllMbufs)]
      /\ \A p, q \in Place : \A i \in 1 .. Len(L[p]), j \in 1 .. Len(L[q]) :
           L[p][i] = L[q][j] => p = q /\ i = j
  BY DEF OnePlace
<1>2. K[a] = r /\ \A p \in Place : p # a => K[p] = L[p]
  BY DEF WithOnly
<1>3. K \in [Place -> Seq(AllMbufs)]
  BY <1>0, <1>1 DEF WithOnly
<1> HIDE DEF K
<1>4. ASSUME NEW p \in Place, NEW i \in 1 .. Len(K[p])
      PROVE  \E o \in 1 .. Len(L[p]) : K[p][i] = L[p][o] /\ (p = a => o = was[i]) /\ (p # a => o = i)
  <2>1. CASE p = a
    BY <1>0, <1>2, <2>1
  <2>2. CASE p # a
    BY <1>2, <2>2
  <2>3. QED
    BY <2>1, <2>2
<1>5. ASSUME NEW p \in Place, NEW q \in Place, NEW i \in 1 .. Len(K[p]), NEW j \in 1 .. Len(K[q]),
             K[p][i] = K[q][j]
      PROVE  p = q /\ i = j
  <2>1. PICK o \in 1 .. Len(L[p]) :
             K[p][i] = L[p][o] /\ (p = a => o = was[i]) /\ (p # a => o = i)
    BY <1>4
  <2>2. PICK u \in 1 .. Len(L[q]) :
             K[q][j] = L[q][u] /\ (q = a => u = was[j]) /\ (q # a => u = j)
    BY <1>4
  <2>3. p = q /\ o = u
    <3>1. L[p][o] = L[q][u]
      BY <1>5, <2>1, <2>2
    <3>2. QED
      BY <1>1, <3>1
  <2>4. CASE p = a
    <3>1. was[i] = was[j] /\ i \in 1 .. Len(r) /\ j \in 1 .. Len(r)
      BY <1>2, <2>1, <2>2, <2>3, <2>4
    <3>2. QED
      BY <1>0, <2>3, <3>1
  <2>5. CASE p # a
    BY <2>1, <2>2, <2>3, <2>5
  <2>6. QED
    BY <2>4, <2>5
<1>6. ASSUME NEW m \in AllMbufs PROVE \E p \in Place : \E i \in 1 .. Len(K[p]) : K[p][i] = m
  <2>1. PICK p \in Place : \E i \in 1 .. Len(L[p]) : L[p][i] = m
    BY DEF OnePlace
  <2>2. PICK j \in 1 .. Len(L[p]) : L[p][j] = m
    BY <2>1
  <2>3. CASE p # a
    BY <1>2, <2>2, <2>3
  <2>4. CASE p = a
    <3>1. PICK i \in 1 .. Len(r) : was[i] = j
      BY <1>0, <2>4
    <3>2. K[a][i] = m /\ i \in 1 .. Len(K[a])
      BY <1>0, <1>2, <2>2, <2>4, <3>1
    <3>3. QED
      BY <3>2
  <2>5. QED
    BY <2>3, <2>4
<1>7. ASSUME NEW P \in Pools, NEW i \in 1 .. Len(K[PoolPlace(P)])
      PROVE  K[PoolPlace(P)][i] \in P
  <2>1. PoolPlace(P) \in Place
    BY PoolPlaces DEF Place
  <2>2. PICK o \in 1 .. Len(L[PoolPlace(P)]) : K[PoolPlace(P)][i] = L[PoolPlace(P)][o]
    BY <1>4, <2>1
  <2>3. QED
    BY <2>2 DEF OnePlace
<1>8. OnePlace(K)
  BY <1>3, <1>5, <1>6, <1>7 DEF OnePlace
<1>9. QED
  BY <1>8 DEF K

\* The k-th mbuf of a list comes to its front.
LEMMA BroughtForward ==
  ASSUME NEW L, OnePlace(L), NEW a \in Place, NEW k \in 1 .. Len(L[a])
  PROVE  OnePlace(WithOnly(L, a, <<L[a][k]>> \o RemoveAt(L[a], k)))
<1> DEFINE h == L[a]
           n == Len(h)
           rm == RemoveAt(h, k)
           r == <<h[k]>> \o rm
           was == [i \in 1 .. n |-> IF i = 1 THEN k ELSE IF i <= k THEN i - 1 ELSE i]
<1>1. h \in Seq(AllMbufs) /\ n \in Nat /\ k \in Nat /\ 1 <= k /\ k <= n /\ h[k] \in AllMbufs
  BY DEF OnePlace
<1>2. /\ rm \in Seq(AllMbufs) /\ Len(rm) = n - 1
      /\ \A i \in 1 .. n - 1 : rm[i] = IF i < k THEN h[i] ELSE h[i + 1]
  BY <1>1, RemovedAt
<1> HIDE DEF h, rm, n
<1>3. /\ r \in Seq(AllMbufs) /\ Len(r) = n
      /\ r[1] = h[k] /\ \A i \in 2 .. n : r[i] = rm[i - 1]
  BY <1>1, <1>2
<1>4. was \in [1 .. n -> 1 .. n]
  BY <1>1
<1>5. \A i \in 2 .. n : i - 1 \in 1 .. n - 1 /\ (i - 1) + 1 = i /\ (i - 1 < k <=> i <= k)
  BY <1>1
<1>6. \A i \in 1 .. n : r[i] = h[was[i]]
  <2> SUFFICES ASSUME NEW i \in 1 .. n PROVE r[i] = h[was[i]]
    OBVIOUS
  <2>1. CASE i = 1
    BY <1>3, <2>1
  <2>2. CASE i \in 2 .. n
    <3>1. r[i] = rm[i - 1] /\ i - 1 \in 1 .. n - 1 /\ (i - 1) + 1 = i /\ (i - 1 < k <=> i <= k)
      BY <1>3, <1>5, <2>2
    <3>2. rm[i - 1] = IF i <= k THEN h[i - 1] ELSE h[i]
      BY <1>2, <3>1
    <3>3. was[i] = IF i <= k THEN i - 1 ELSE i
      BY <1>1, <2>2
    <3> HIDE DEF was, r
    <3>4. QED
      BY <3>1, <3>2, <3>3
  <2>3. i = 1 \/ i \in 2 .. n
    BY <1>1
  <2>4. QED
    BY ONLY <2>1, <2>2, <2>3
<1>7. \A i, j \in 1 .. n : was[i] = was[j] => i = j
  BY <1>1
<1>8. \A j \in 1 .. n : \E i \in 1 .. n : was[i] = j
  <2> SUFFICES ASSUME NEW j \in 1 .. n PROVE \E i \in 1 .. n : was[i] = j
    OBVIOUS
  <2>1. CASE j = k
    <3>1. 1 \in 1 .. n /\ was[1] = j
      BY <1>1, <2>1
    <3>2. QED
      BY <3>1
  <2>2. CASE j < k
    <3>1. j + 1 \in 1 .. n /\ was[j + 1] = j
      BY <1>1, <2>2
    <3>2. QED
      BY <3>1
  <2>3. CASE j > k
    <3>1. was[j] = j
      BY <1>1, <2>3
    <3>2. QED
      BY <3>1
  <2>4. QED
    BY <1>1, <2>1, <2>2, <2>3
<1> HIDE DEF was, r
<1>9. n = Len(h)
  BY DEF n
<1>10. Reordered(h, r, was)
  BY <1>3, <1>4, <1>6, <1>7, <1>8, <1>9 DEF Reordered
<1>11. OnePlace(WithOnly(L, a, r))
  BY <1>10, Permuted DEF h
<1>12. QED
  BY <1>11 DEF r, rm, h

\* The same for the mbuf in a hand: given back, or handed on.
LEMMA FreedHand ==
  ASSUME NEW L, NEW a \in Used, NEW m, NEW f, DOMAIN f = Pools, OnePlace(With(L, a, <<m>>, f))
  PROVE  DOMAIN Freed(f, m) = Pools /\ OnePlace(With(L, a, <<>>, Freed(f, m)))
<1> DEFINE s == <<m>>
<1>1. s # <<>> /\ Head(s) = m /\ Tail(s) = <<>> /\ OnePlace(With(L, a, s, f))
  OBVIOUS
<1> HIDE DEF s
<1>2. DOMAIN Freed(f, Head(s)) = Pools /\ OnePlace(With(L, a, Tail(s), Freed(f, Head(s))))
  BY <1>1, FreedOne
<1>3. QED
  BY <1>1, <1>2, Zenon

LEMMA HandedFrom ==
  ASSUME NEW L, NEW a \in Used, NEW b \in Used, a # b, NEW m, NEW t, NEW f,
         OnePlace(With2(L, a, <<m>>, b, t, f))
  PROVE  OnePlace(With2(L, a, <<>>, b, Append(t, m), f))
<1> DEFINE s == <<m>>
<1>1. s # <<>> /\ Head(s) = m /\ Tail(s) = <<>> /\ OnePlace(With2(L, a, s, b, t, f))
  OBVIOUS
<1> HIDE DEF s
<1>2. OnePlace(With2(L, a, Tail(s), b, Append(t, Head(s)), f))
  BY <1>1, HandedOn
<1>3. QED
  BY <1>1, <1>2, Zenon

-----------------------------------------------------------------------------
(* The invariant *)

EncFields == {"turn", "idle", "open", "rest", "cuts", "built", "emit", "pdu", "send"}

\* The variables have the fields and indices that the code gives them; a PDU that
\* is about to be sent has been copied from one.
Shape ==
  /\ DOMAIN free = Pools /\ DOMAIN recv = Port
  /\ DOMAIN rcv_ring = Port /\ DOMAIN encap_ring = Port
  /\ DOMAIN decap = {"turn", "frame", "next", "held"} /\ decap.turn \in Port
  /\ DOMAIN enc = EncFields
  /\ enc.turn \in Port
  /\ enc.send # None => enc.pdu # None

Placed == Shape /\ OnePlace(Lists)

\* What is in the lists are mbufs, and a hand is empty or holds one.
LEMMA InLists ==
  ASSUME Placed
  PROVE  /\ \A p \in Place : \A i \in 1 .. Len(Lists[p]) : Lists[p][i] \in AllMbufs
         /\ \A P \in Pools : free[P] \in Seq(AllMbufs)
         /\ \A q \in Port : /\ rcv_ring[q] \in Seq(AllMbufs) /\ encap_ring[q] \in Seq(AllMbufs)
                            /\ recv[q] # None => recv[q] \in AllMbufs
         /\ enc.open \in Seq(AllMbufs) /\ snd_bb_ring \in Seq(AllMbufs)
         /\ decap.held \in Seq(AllMbufs)
         /\ decap.frame # None => decap.frame \in AllMbufs
         /\ enc.rest # None => enc.rest \in AllMbufs
         /\ enc.pdu # None => enc.pdu \in AllMbufs
         /\ enc.send # None => enc.send \in AllMbufs
         /\ snd # None => snd \in AllMbufs
<1>1. \A p \in Place : Lists[p] \in Seq(AllMbufs)
  BY DEF Placed, OnePlace
<1>2. \A p \in Place : \A i \in 1 .. Len(Lists[p]) : Lists[p][i] \in AllMbufs
  BY <1>1
<1>3. \A m : Hand(m) \in Seq(AllMbufs) => (m # None => m \in AllMbufs)
  <2> SUFFICES ASSUME NEW m, Hand(m) \in Seq(AllMbufs), m # None PROVE m \in AllMbufs
    OBVIOUS
  <2>1. Hand(m) = <<m>>
    BY DEF Hand
  <2>2. <<m>> \in Seq(AllMbufs) /\ <<m>>[1] = m /\ Len(<<m>>) = 1
    BY <2>1
  <2>3. QED
    BY <2>2
<1>4. /\ Lists[1] = Hand(recv[0]) /\ Lists[2] = Hand(recv[1]) /\ Lists[3] = Hand(decap.frame)
      /\ Lists[4] = Hand(enc.rest) /\ Lists[5] = Hand(enc.pdu) /\ Lists[6] = Hand(enc.send)
      /\ Lists[7] = Hand(snd) /\ Lists[8] = enc.open
  BY DEF Lists
<1>5. /\ Lists[9] = rcv_ring[0] /\ Lists[10] = rcv_ring[1] /\ Lists[11] = encap_ring[0]
      /\ Lists[12] = encap_ring[1] /\ Lists[13] = snd_bb_ring /\ Lists[14] = free[RcvMbuf]
      /\ Lists[15] = free[DecapMbuf] /\ Lists[16] = free[EncapMbuf] /\ Lists[17] = decap.held
  BY DEF Lists
<1>6. 1 \in Place /\ 2 \in Place /\ 3 \in Place /\ 4 \in Place /\ 5 \in Place /\ 6 \in Place
      /\ 7 \in Place /\ 8 \in Place /\ 9 \in Place /\ 10 \in Place /\ 11 \in Place /\ 12 \in Place
      /\ 13 \in Place /\ 14 \in Place /\ 15 \in Place /\ 16 \in Place /\ 17 \in Place
  BY DEF Place
<1>7. \A q \in Port : q = 0 \/ q = 1
  BY DEF Port
<1>8. \A P \in Pools : free[P] \in Seq(AllMbufs)
  BY <1>1, <1>5, <1>6, PoolFacts
<1>9. \A q \in Port : rcv_ring[q] \in Seq(AllMbufs) /\ encap_ring[q] \in Seq(AllMbufs)
  BY <1>1, <1>5, <1>6, <1>7
<1>10. \A q \in Port : recv[q] # None => recv[q] \in AllMbufs
  BY <1>1, <1>3, <1>4, <1>6, <1>7
<1>11. /\ decap.frame # None => decap.frame \in AllMbufs
       /\ enc.rest # None => enc.rest \in AllMbufs
       /\ enc.pdu # None => enc.pdu \in AllMbufs
       /\ enc.send # None => enc.send \in AllMbufs
       /\ snd # None => snd \in AllMbufs
  BY <1>1, <1>3, <1>4, <1>6, Zenon
<1>12. enc.open \in Seq(AllMbufs) /\ snd_bb_ring \in Seq(AllMbufs) /\ decap.held \in Seq(AllMbufs)
  BY <1>1, <1>4, <1>5, <1>6
<1>13. QED
  BY <1>2, <1>8, <1>9, <1>10, <1>11, <1>12

\* An mbuf that a pool gives.
LEMMA Given ==
  ASSUME Placed, NEW P \in Pools, NEW m \in Get(free[P])
  PROVE  /\ free[P] # <<>> /\ m = Head(free[P]) /\ m \in AllMbufs /\ m # None
         /\ Append(<<>>, Head(free[P])) = <<m>>
<1>1. free[P] # <<>> /\ m = Head(free[P]) /\ free[P] \in Seq(AllMbufs)
  BY InLists DEF Get
<1>2. m \in AllMbufs
  BY <1>1
<1>3. QED
  BY <1>1, <1>2, PoolFacts

\* The receive thread p takes an mbuf for the packet, or loses the packet.
LEMMA PcapStep ==
  ASSUME Placed, NEW p \in Port, read_pcap(p)
  PROVE  Placed'
<1>1. /\ recv[p] = None /\ RcvMbuf \in Pools /\ p + 1 \in Used /\ (p = 0 \/ p = 1)
      /\ rcv_ring' = rcv_ring /\ encap_ring' = encap_ring /\ snd_bb_ring' = snd_bb_ring
      /\ decap' = decap /\ enc' = enc /\ snd' = snd
  BY PoolFacts DEF read_pcap, Port, rings, Used
<1>2. CASE UNCHANGED <<free, recv>>
  BY <1>1, <1>2 DEF Placed, Shape, Lists
<1> DEFINE f == [free EXCEPT ![RcvMbuf] = Tail(@)]
<1>3. ASSUME NEW m \in Get(free[RcvMbuf])
      PROVE  OnePlace(With(Lists, p + 1, <<m>>, f)) /\ DOMAIN f = Pools /\ m # None
  <2>1. Lists = With(Lists, p + 1, <<>>, free)
    BY <1>1, SMTT(30) DEF Lists, With, Hand, Place
  <2>2. OnePlace(With(Lists, p + 1, <<>>, free)) /\ DOMAIN free = Pools
    BY <2>1 DEF Placed, Shape
  <2>3. OnePlace(With(Lists, p + 1, Append(<<>>, Head(free[RcvMbuf])), f))
    BY <1>1, <2>2, Given, TakenFrom
  <2>4. QED
    BY <1>1, <2>2, <2>3, Given
<1> HIDE DEF f
<1>4. ASSUME NEW m \in Get(free[RcvMbuf]), free' = f, recv' = [recv EXCEPT ![p] = m]
      PROVE  Placed'
  <2>1. OnePlace(With(Lists, p + 1, <<m>>, f)) /\ m # None
    BY <1>3
  <2>2. /\ DOMAIN recv' = Port /\ recv'[0] = (IF p = 0 THEN m ELSE recv[0])
        /\ recv'[1] = IF p = 1 THEN m ELSE recv[1]
    BY <1>4 DEF Placed, Shape, Port
  <2>3. Lists' = With(Lists, p + 1, <<m>>, free')
    <3>1. CASE p = 0
      BY <1>1, <2>1, <2>2, <3>1, SMTT(30) DEF Lists, With, Hand, Place
    <3>2. CASE p = 1
      BY <1>1, <2>1, <2>2, <3>2, SMTT(30) DEF Lists, With, Hand, Place
    <3>3. QED
      BY <1>1, <3>1, <3>2
  <2>4. OnePlace(Lists')
    BY <1>4, <2>1, <2>3
  <2>5. Shape'
    BY <1>1, <1>3, <1>4, <2>2 DEF Placed, Shape
  <2>6. QED
    BY <2>4, <2>5 DEF Placed
<1>5. ASSUME NEW m \in Get(free[RcvMbuf]), free' = Freed(f, m), recv' = recv
      PROVE  Placed'
  <2>1. OnePlace(With(Lists, p + 1, <<m>>, f)) /\ DOMAIN f = Pools
    BY <1>3
  <2>2. DOMAIN Freed(f, m) = Pools /\ OnePlace(With(Lists, p + 1, <<>>, Freed(f, m)))
    BY <1>1, <2>1, FreedHand
  <2>3. Lists' = With(Lists, p + 1, <<>>, free')
    <3>1. CASE p = 0
      BY <1>1, <1>5, <3>1, SMTT(30) DEF Lists, With, Hand, Place
    <3>2. CASE p = 1
      BY <1>1, <1>5, <3>2, SMTT(30) DEF Lists, With, Hand, Place
    <3>3. QED
      BY <1>1, <3>1, <3>2
  <2>4. QED
    BY <1>1, <1>5, <2>2, <2>3 DEF Placed, Shape
<1>6. QED
  BY <1>2, <1>4, <1>5 DEF read_pcap, f

\* It gives the packet to the decapsulation thread or back to the pool.
LEMMA ReceiveStep ==
  ASSUME Placed, NEW p \in Port, receive_msg_thread(p)
  PROVE  Placed'
<1> DEFINE m == recv[p]
<1>1. /\ m # None /\ p + 1 \in Used /\ p + 9 \in Used /\ p + 1 # p + 9 /\ (p = 0 \/ p = 1)
      /\ encap_ring' = encap_ring /\ snd_bb_ring' = snd_bb_ring
      /\ decap' = decap /\ enc' = enc /\ snd' = snd
  BY DEF receive_msg_thread, Port, Used
<1>2. /\ DOMAIN recv' = Port /\ recv'[0] = (IF p = 0 THEN None ELSE recv[0])
      /\ recv'[1] = IF p = 1 THEN None ELSE recv[1]
  BY DEF receive_msg_thread, Placed, Shape, Port
<1>4. CASE free' = Freed(free, m) /\ rcv_ring' = rcv_ring
  <2>1. Lists = With(Lists, p + 1, <<m>>, free)
    <3>1. CASE p = 0
      BY <1>1, <3>1, SMTT(30) DEF Lists, With, Hand, Place
    <3>2. CASE p = 1
      BY <1>1, <3>2, SMTT(30) DEF Lists, With, Hand, Place
    <3>3. QED
      BY <1>1, <3>1, <3>2
  <2>2. OnePlace(With(Lists, p + 1, <<m>>, free)) /\ DOMAIN free = Pools
    BY <2>1 DEF Placed, Shape
  <2> HIDE DEF m
  <2>3. DOMAIN Freed(free, m) = Pools /\ OnePlace(With(Lists, p + 1, <<>>, Freed(free, m)))
    BY <1>1, <2>2, FreedHand
  <2>4. Lists' = With(Lists, p + 1, <<>>, free')
    <3>1. CASE p = 0
      BY <1>1, <1>2, <1>4, <3>1, SMTT(30) DEF Lists, With, Hand, Place
    <3>2. CASE p = 1
      BY <1>1, <1>2, <1>4, <3>2, SMTT(30) DEF Lists, With, Hand, Place
    <3>3. QED
      BY <1>1, <3>1, <3>2
  <2>5. QED
    BY <1>1, <1>2, <1>4, <2>3, <2>4 DEF Placed, Shape
<1>5. CASE free' = free /\ rcv_ring' = [rcv_ring EXCEPT ![p] = Append(@, m)]
  <2> DEFINE t == Append(rcv_ring[p], m)
  <2>1. Lists = With2(Lists, p + 1, <<m>>, p + 9, rcv_ring[p], free)
    <3>1. CASE p = 0
      BY <1>1, <3>1, SMTT(30) DEF Lists, With2, Hand, Place
    <3>2. CASE p = 1
      BY <1>1, <3>2, SMTT(30) DEF Lists, With2, Hand, Place
    <3>3. QED
      BY <1>1, <3>1, <3>2
  <2>2. OnePlace(With2(Lists, p + 1, <<m>>, p + 9, rcv_ring[p], free))
    BY <2>1 DEF Placed
  <2>3. /\ DOMAIN rcv_ring' = Port /\ rcv_ring'[0] = (IF p = 0 THEN t ELSE rcv_ring[0])
        /\ rcv_ring'[1] = (IF p = 1 THEN t ELSE rcv_ring[1])
        /\ free' = free
    BY <1>5 DEF Placed, Shape, Port
  <2> HIDE DEF m
  <2>4. OnePlace(With2(Lists, p + 1, <<>>, p + 9, Append(rcv_ring[p], m), free))
    BY <1>1, <2>2, HandedFrom
  <2> HIDE DEF t
  <2>5. Lists' = With2(Lists, p + 1, <<>>, p + 9, t, free)
    <3>1. CASE p = 0
      BY <1>1, <1>2, <2>3, <3>1, SMTT(30) DEF Lists, With2, Hand, Place
    <3>2. CASE p = 1
      BY <1>1, <1>2, <2>3, <3>2, SMTT(30) DEF Lists, With2, Hand, Place
    <3>3. QED
      BY <1>1, <3>1, <3>2
  <2>6. QED
    BY <1>1, <1>2, <1>5, <2>3, <2>4, <2>5 DEF Placed, Shape, t
<1>6. QED
  BY <1>4, <1>5 DEF receive_msg_thread

\* The decapsulation thread takes an mbuf from a ring: it opens a frame, passes a
\* packet on or gives the mbuf back.
LEMMA DecapPollStep ==
  ASSUME Placed, DecapPoll
  PROVE  Placed'
<1> DEFINE i == decap.turn
           s == rcv_ring[i]
           m == Head(s)
<1>1. /\ i \in Port /\ (i = 0 \/ i = 1) /\ 1 - i \in Port /\ i + 9 \in Used /\ i + 11 \in Used
      /\ 3 \in Used /\ i + 9 # 3 /\ i + 9 # i + 11
      /\ decap.frame = None /\ DOMAIN decap = {"turn", "frame", "next", "held"} /\ DOMAIN free = Pools
      /\ snd_bb_ring' = snd_bb_ring /\ recv' = recv /\ enc' = enc /\ snd' = snd
  BY DEF DecapPoll, Placed, Shape, Port, Used
<1>2. CASE /\ decap' = [decap EXCEPT !.turn = 1 - i]
           /\ UNCHANGED <<free, rcv_ring, encap_ring>>
  <2>1. decap'.frame = decap.frame /\ decap'.held = decap.held /\ DOMAIN decap' = DOMAIN decap /\ decap'.turn \in Port
    BY <1>1, <1>2
  <2>2. Lists' = Lists
    BY <1>1, <1>2, <2>1 DEF Lists
  <2>3. QED
    BY <1>1, <1>2, <2>1, <2>2 DEF Placed, Shape
<1>3. ASSUME s # <<>>, process_frame_header(m, i), rcv_ring' = [rcv_ring EXCEPT ![i] = Tail(@)]
      PROVE  Placed'
  <2> DEFINE tl == Tail(s)
  <2>1. /\ DOMAIN rcv_ring' = Port /\ rcv_ring'[0] = (IF i = 0 THEN tl ELSE rcv_ring[0])
        /\ rcv_ring'[1] = (IF i = 1 THEN tl ELSE rcv_ring[1])
    BY <1>1, <1>3 DEF Placed, Shape
  <2>2. CASE /\ decap' = [decap EXCEPT !.frame = m, !.next = 1]
             /\ free' = free /\ encap_ring' = encap_ring
    <3>1. decap'.frame = m /\ decap'.held = decap.held /\ DOMAIN decap' = DOMAIN decap /\ decap'.turn = i
      BY <1>1, <2>2
    <3>2. Lists = With2(Lists, i + 9, s, 3, <<>>, free)
      BY <1>1, SMTT(30) DEF Lists, With2, Hand, Place
    <3>3. OnePlace(With2(Lists, i + 9, s, 3, <<>>, free))
      BY <3>2 DEF Placed
    <3>4. m \in AllMbufs /\ m # None /\ Append(<<>>, m) = <<m>>
      <4>1. s \in Seq(AllMbufs)
        BY <1>1, InLists
      <4>2. m \in AllMbufs
        BY <1>3, <4>1
      <4>3. QED
        BY <4>2, PoolFacts
    <3> HIDE DEF i, s
    <3>5. OnePlace(With2(Lists, i + 9, tl, 3, Append(<<>>, m), free))
      BY <1>1, <1>3, <3>3, HandedOn
    <3> HIDE DEF tl, m
    <3>6. Lists' = With2(Lists, i + 9, tl, 3, <<m>>, free)
      <4>1. CASE i = 0
        BY <1>1, <2>1, <2>2, <3>1, <3>4, <4>1, SMTT(30) DEF Lists, With2, Hand, Place
      <4>2. CASE i = 1
        BY <1>1, <2>1, <2>2, <3>1, <3>4, <4>2, SMTT(30) DEF Lists, With2, Hand, Place
      <4>3. QED
        BY <1>1, <4>1, <4>2
    <3>7. OnePlace(Lists')
      BY <3>4, <3>5, <3>6
    <3>8. Shape'
      BY <1>1, <2>1, <2>2, <3>1 DEF Placed, Shape
    <3>9. QED
      BY <3>7, <3>8 DEF Placed
  <2>3. CASE /\ decap' = [decap EXCEPT !.turn = 1 - i]
             /\ free' = free /\ encap_ring' = [encap_ring EXCEPT ![i] = Append(@, m)]
    <3> DEFINE t == encap_ring[i]
               ap == Append(t, m)
    <3>1. decap'.frame = None /\ decap'.held = decap.held /\ DOMAIN decap' = DOMAIN decap /\ decap'.turn \in Port
      BY <1>1, <2>3
    <3>2. /\ DOMAIN encap_ring' = Port /\ encap_ring'[0] = (IF i = 0 THEN ap ELSE encap_ring[0])
          /\ encap_ring'[1] = (IF i = 1 THEN ap ELSE encap_ring[1]) /\ free' = free
      BY <1>1, <2>3 DEF Placed, Shape
    <3>3. Lists = With2(Lists, i + 9, s, i + 11, t, free)
      <4>1. CASE i = 0
        BY <4>1, SMTT(30) DEF Lists, With2, Hand, Place
      <4>2. CASE i = 1
        BY <4>2, SMTT(30) DEF Lists, With2, Hand, Place
      <4>3. QED
        BY <1>1, <4>1, <4>2
    <3>4. OnePlace(With2(Lists, i + 9, s, i + 11, t, free))
      BY <3>3 DEF Placed
    <3> HIDE DEF i, s, t
    <3>5. OnePlace(With2(Lists, i + 9, tl, i + 11, ap, free))
      BY <1>1, <1>3, <3>4, HandedOn
    <3> HIDE DEF tl, m, ap
    <3>6. Lists' = With2(Lists, i + 9, tl, i + 11, ap, free)
      <4>1. CASE i = 0
        BY <1>1, <2>1, <3>1, <3>2, <4>1, SMTT(30) DEF Lists, With2, Hand, Place
      <4>2. CASE i = 1
        BY <1>1, <2>1, <3>1, <3>2, <4>2, SMTT(30) DEF Lists, With2, Hand, Place
      <4>3. QED
        BY <1>1, <4>1, <4>2
    <3>7. OnePlace(Lists')
      BY <3>5, <3>6
    <3>8. Shape'
      BY <1>1, <2>1, <2>3, <3>1, <3>2 DEF Placed, Shape
    <3>9. QED
      BY <3>7, <3>8 DEF Placed
  <2>4. CASE /\ decap' = [decap EXCEPT !.turn = 1 - i]
             /\ free' = Freed(free, m) /\ encap_ring' = encap_ring
    <3>1. decap'.frame = None /\ decap'.held = decap.held /\ DOMAIN decap' = DOMAIN decap /\ decap'.turn \in Port
      BY <1>1, <2>4
    <3>2. Lists = With(Lists, i + 9, s, free)
      BY <1>1, SMTT(30) DEF Lists, With, Hand, Place
    <3>3. OnePlace(With(Lists, i + 9, s, free))
      BY <3>2 DEF Placed
    <3> HIDE DEF i, s
    <3>4. DOMAIN Freed(free, m) = Pools /\ OnePlace(With(Lists, i + 9, tl, Freed(free, m)))
      BY <1>1, <1>3, <3>3, FreedOne
    <3> HIDE DEF tl, m
    <3>5. Lists' = With(Lists, i + 9, tl, free')
      <4>1. CASE i = 0
        BY <1>1, <2>1, <2>4, <3>1, <4>1, SMTT(30) DEF Lists, With, Hand, Place
      <4>2. CASE i = 1
        BY <1>1, <2>1, <2>4, <3>1, <4>2, SMTT(30) DEF Lists, With, Hand, Place
      <4>3. QED
        BY <1>1, <4>1, <4>2
    <3>6. QED
      BY <1>1, <2>1, <2>4, <3>1, <3>4, <3>5 DEF Placed, Shape
  <2>5. QED
    BY <1>3, <2>2, <2>3, <2>4 DEF process_frame_header
<1>4. QED
  BY <1>2, <1>3 DEF DecapPoll

\* The lists with the mbufs h in frag_info, e on the encapsulation ring and the pools f.
InDecap(h, e, f) == With2(Lists, 17, h, 11, e, f)

\* What the decapsulation thread changes with a GSE packet.
LEMMA DecapLists ==
  ASSUME Placed, NEW h, decap' = Passed(h), DOMAIN free' = Pools, NEW e,
         DOMAIN encap_ring' = Port, encap_ring'[0] = e, encap_ring'[1] = encap_ring[1],
         UNCHANGED <<rcv_ring, snd_bb_ring, recv, enc, snd>>
  PROVE  Shape' /\ Lists' = InDecap(h, e, free')
<1>1. /\ decap'.frame = decap.frame /\ decap'.held = h /\ decap'.turn = decap.turn
      /\ DOMAIN decap' = {"turn", "frame", "next", "held"} /\ decap.turn \in Port
  BY DEF Passed, Placed, Shape
<1>2. encap_ring'[0] = e /\ encap_ring'[1] = encap_ring[1] /\ DOMAIN encap_ring' = Port
  OBVIOUS
<1>3. Shape'
  BY <1>1, <1>2 DEF Placed, Shape
<1>4. Lists' = With2(Lists, 17, h, 11, e, free')
  BY <1>1, <1>2, SMTT(30) DEF Lists, With2, Place
<1>5. QED
  BY <1>3, <1>4 DEF InDecap

\* An mbuf at the end of the encapsulation ring of port 1.
LEMMA EnqueuedIs ==
  ASSUME DOMAIN encap_ring = Port, NEW m
  PROVE  /\ DOMAIN Enqueued(m) = Port /\ Enqueued(m)[0] = Append(encap_ring[0], m)
         /\ Enqueued(m)[1] = encap_ring[1]
BY DEF Enqueued, Port

\* At first these are the lists themselves.
LEMMA DecapBefore == Lists = InDecap(decap.held, encap_ring[0], free)
BY SMTT(30) DEF InDecap, With2, Lists, Place

\* What is at the places that a GSE packet changes, and a change of the pools and one
\* of these places.
LEMMA DecapPlaces ==
  ASSUME NEW h, NEW e, NEW f
  PROVE  LET X == InDecap(h, e, f) IN
         /\ X[17] = h /\ X[11] = e /\ X[15] = f[DecapMbuf] /\ DOMAIN X = Place
         /\ X = With(X, 17, h, f) /\ X = With(X, 11, e, f)
         /\ \A x, g : With(X, 17, x, g) = InDecap(x, e, g) /\ With(X, 11, x, g) = InDecap(h, x, g)
         /\ 11 \in Used /\ 17 \in Used /\ 15 \in Place /\ 17 \in Place
<1> DEFINE X == InDecap(h, e, f)
<1>0. 11 \in Used /\ 17 \in Used /\ 11 \in Place /\ 15 \in Place /\ 17 \in Place
  BY DEF Used, Place
<1>1. X[17] = h /\ X[11] = e /\ X[15] = f[DecapMbuf] /\ DOMAIN X = Place
  BY <1>0 DEF InDecap, With2
<1>2. ASSUME NEW x, NEW g PROVE With(X, 17, x, g) = InDecap(x, e, g)
  BY DEF InDecap, With, With2
<1>3. ASSUME NEW x, NEW g PROVE With(X, 11, x, g) = InDecap(h, x, g)
  BY DEF InDecap, With, With2
<1>4. QED
  BY <1>0, <1>1, <1>2, <1>3

\* An unfinished PDU is given up.
LEMMA GivenUpStep ==
  ASSUME Placed, NEW g \in GivenUp
  PROVE  /\ DOMAIN g[1] = Pools /\ g[2] \in Seq(AllMbufs)
         /\ OnePlace(InDecap(g[2], encap_ring[0], g[1]))
<1> DEFINE h == decap.held
           e == encap_ring[0]
           X == InDecap(h, e, free)
<1>1. h \in Seq(AllMbufs) /\ DOMAIN free = Pools /\ OnePlace(X)
  BY InLists, DecapBefore DEF Placed, Shape
<1>2. CASE g = <<free, h>>
  BY <1>1, <1>2
<1>3. ASSUME NEW k \in 1 .. Len(h), g = <<Freed(free, h[k]), RemoveAt(h, k)>>
      PROVE  /\ DOMAIN g[1] = Pools /\ g[2] \in Seq(AllMbufs)
             /\ OnePlace(InDecap(g[2], e, g[1]))
  <2> DEFINE m == h[k]
             rm == RemoveAt(h, k)
             s == <<m>> \o rm
             Y == WithOnly(X, 17, s)
  <2>1. rm \in Seq(AllMbufs) /\ m \in AllMbufs
    BY <1>1, RemovedAt
  <2>2. /\ X[17] = h /\ 17 \in Place /\ 17 \in Used
        /\ \A x, f : With(X, 17, x, f) = InDecap(x, e, f)
    BY DecapPlaces
  <2> HIDE DEF X, rm, h, e
  <2>3. OnePlace(Y)
    <3>1. k \in 1 .. Len(X[17])
      BY <2>2
    <3>2. OnePlace(WithOnly(X, 17, <<X[17][k]>> \o RemoveAt(X[17], k)))
      BY <1>1, <2>2, <3>1, BroughtForward
    <3>3. QED
      BY <2>2, <3>2 DEF rm
  <2>4. Y = With(X, 17, s, free)
    BY DEF X, InDecap, With, With2, WithOnly
  <2>5. s # <<>> /\ Head(s) = m /\ Tail(s) = rm
    <3>1. s \in Seq(AllMbufs) /\ Len(s) = Len(rm) + 1 /\ s[1] = m
          /\ \A i \in 1 .. Len(rm) : s[i + 1] = rm[i]
      BY <2>1
    <3> HIDE DEF s, m
    <3>2. Len(rm) \in Nat /\ s # <<>> /\ Head(s) = m
      BY <2>1, <3>1
    <3>3. /\ Tail(s) \in Seq(AllMbufs) /\ Len(Tail(s)) = Len(rm)
          /\ \A i \in 1 .. Len(rm) : Tail(s)[i] = rm[i]
      BY <3>1, <3>2
    <3>4. Tail(s) = rm
      BY <2>1, <3>3, SeqEqual
    <3>5. QED
      BY <3>2, <3>4
  <2> HIDE DEF s, Y, m
  <2>6. OnePlace(With(X, 17, s, free))
    BY <2>3, <2>4
  <2>7. DOMAIN Freed(free, m) = Pools /\ OnePlace(With(X, 17, rm, Freed(free, m)))
    BY <1>1, <2>2, <2>5, <2>6, FreedOne
  <2>8. g[1] = Freed(free, m) /\ g[2] = rm
    BY <1>3 DEF m, rm
  <2>9. QED
    BY <2>1, <2>2, <2>7, <2>8
<1>4. g = <<free, h>> \/ \E k \in 1 .. Len(h) : g = <<Freed(free, h[k]), RemoveAt(h, k)>>
  BY <1>1 DEF GivenUp
<1>5. QED
  BY <1>2, <1>3, <1>4

\* The pools f without the mbuf that the decapsulation pool gives.
Drawn(f) == [f EXCEPT ![DecapMbuf] = Tail(@)]

\* An mbuf is taken from the pool for an unfinished PDU or for a whole one, or is given
\* back at once.
LEMMA TakenStep ==
  ASSUME NEW h, NEW e, NEW f, DOMAIN f = Pools, OnePlace(InDecap(h, e, f)),
         NEW m \in Get(f[DecapMbuf])
  PROVE  /\ DOMAIN Drawn(f) = Pools /\ DOMAIN Freed(Drawn(f), m) = Pools /\ m \in AllMbufs
         /\ OnePlace(InDecap(Append(h, m), e, Drawn(f)))
         /\ OnePlace(InDecap(h, Append(e, m), Drawn(f)))
         /\ OnePlace(InDecap(h, e, Freed(Drawn(f), m)))
<1> DEFINE X == InDecap(h, e, f)
           t == Drawn(f)
           q == f[DecapMbuf]
<1>1. /\ X[17] = h /\ X[11] = e /\ X[15] = q /\ DOMAIN X = Place
      /\ X = With(X, 17, h, f) /\ X = With(X, 11, e, f)
      /\ \A x, g : With(X, 17, x, g) = InDecap(x, e, g) /\ With(X, 11, x, g) = InDecap(h, x, g)
      /\ 11 \in Used /\ 17 \in Used /\ 15 \in Place
  BY DecapPlaces
<1>2. OnePlace(X) /\ q # <<>> /\ m = Head(q) /\ DecapMbuf \in Pools /\ DOMAIN t = Pools
  BY PoolFacts DEF Get, Drawn
<1> HIDE DEF X
<1>3. q \in Seq(AllMbufs) /\ m \in AllMbufs /\ m \in DecapMbuf
  <2>1. X[15] \in Seq(AllMbufs) /\ PoolPlace(DecapMbuf) = 15
    BY <1>1, <1>2, PoolPlaces DEF OnePlace
  <2>2. q \in Seq(AllMbufs) /\ Len(q) >= 1 /\ 1 \in 1 .. Len(q) /\ m = q[1]
    BY <1>1, <1>2, <2>1
  <2>3. q[1] \in DecapMbuf
    <3>1. \A i \in 1 .. Len(X[PoolPlace(DecapMbuf)]) : X[PoolPlace(DecapMbuf)][i] \in DecapMbuf
      BY <1>2 DEF OnePlace
    <3>2. PoolPlace(DecapMbuf) = 15 /\ X[15] = q
      BY <1>1, <2>1
    <3>3. QED
      BY <2>2, <3>1, <3>2
  <2>4. QED
    BY <2>2, <2>3
<1>4. OnePlace(With(X, 17, Append(h, m), t))
  <2>1. OnePlace(With(X, 17, h, f))
    BY <1>1, <1>2
  <2>2. QED
    BY <1>1, <1>2, <2>1, TakenFrom DEF Drawn
<1>5. OnePlace(With(X, 11, Append(e, m), t))
  <2>1. OnePlace(With(X, 11, e, f))
    BY <1>1, <1>2
  <2>2. QED
    BY <1>1, <1>2, <2>1, TakenFrom DEF Drawn
<1>6. PoolOf(m) = DecapMbuf
  <2>1. PoolOf(m) \in Pools /\ m \in PoolOf(m)
    BY <1>3, PoolFacts
  <2>2. \A P \in Pools : m \in P => P = DecapMbuf
    BY <1>3, PipelineAssumption DEF Pools
  <2>3. QED
    BY <2>1, <2>2
<1> DEFINE z == Freed(t, m)
           r == Append(Tail(q), m)
<1>t. t[DecapMbuf] = Tail(q) /\ t[RcvMbuf] = f[RcvMbuf] /\ t[EncapMbuf] = f[EncapMbuf]
  BY PoolFacts DEF Drawn
<1> HIDE DEF t
<1>7. /\ DOMAIN z = Pools /\ z[DecapMbuf] = r /\ z[RcvMbuf] = f[RcvMbuf]
      /\ z[EncapMbuf] = f[EncapMbuf]
  <2>1. /\ DOMAIN z = Pools
        /\ \A P \in Pools : z[P] = IF P = DecapMbuf THEN Append(t[P], m) ELSE t[P]
    <3>1. /\ DOMAIN z = Pools
          /\ \A P \in Pools : z[P] = IF P = PoolOf(m) THEN Append(t[P], m) ELSE t[P]
      BY <1>2, <1>3, FreedPool
    <3> HIDE DEF z
    <3>2. QED
      BY <1>6, <3>1
  <2>2. /\ RcvMbuf \in Pools /\ DecapMbuf \in Pools /\ EncapMbuf \in Pools
        /\ RcvMbuf # DecapMbuf /\ EncapMbuf # DecapMbuf
    BY PoolFacts
  <2> HIDE DEF z
  <2>3. QED
    BY <1>t, <2>1, <2>2
<1> DEFINE n == Len(q)
           was == [i \in 1 .. n |-> IF i = n THEN 1 ELSE i + 1]
<1>8. /\ n \in Nat /\ n >= 1 /\ m = q[1] /\ r \in Seq(AllMbufs) /\ Len(r) = n
      /\ \A i \in 1 .. n : r[i] = IF i = n THEN m ELSE q[i + 1]
  <2>1. n \in Nat /\ n >= 1 /\ m = q[1]
    BY <1>2, <1>3
  <2>2. Tail(q) \in Seq(AllMbufs) /\ Len(Tail(q)) = n - 1 /\ \A i \in 1 .. n - 1 : Tail(q)[i] = q[i + 1]
    BY <1>2, <1>3
  <2> DEFINE u == Tail(q)
  <2> HIDE DEF u, n
  <2>3. u \in Seq(AllMbufs) /\ Len(u) = n - 1 /\ \A i \in 1 .. n - 1 : u[i] = q[i + 1]
    BY <2>2 DEF u
  <2>4. /\ Append(u, m) \in Seq(AllMbufs) /\ Len(Append(u, m)) = n
        /\ \A i \in 1 .. n : Append(u, m)[i] = IF i = n THEN m ELSE u[i]
    BY <1>3, <2>1, <2>3
  <2>5. \A i \in 1 .. n : i # n => i \in 1 .. n - 1
    BY <2>1
  <2>6. QED
    BY <2>1, <2>3, <2>4, <2>5 DEF u
<1> HIDE DEF z, r, q, n
<1>9. was \in [1 .. n -> 1 .. n] /\ \A i \in 1 .. n : r[i] = q[was[i]]
  BY <1>8
<1>10. \A i, j \in 1 .. n : was[i] = was[j] => i = j
  BY <1>8
<1>11. \A j \in 1 .. n : \E i \in 1 .. n : was[i] = j
  <2> SUFFICES ASSUME NEW j \in 1 .. n PROVE \E i \in 1 .. n : was[i] = j
    OBVIOUS
  <2>1. CASE j = 1
    BY <1>8, <2>1
  <2>2. CASE j # 1
    <3>1. j - 1 \in 1 .. n /\ was[j - 1] = j
      BY <1>8, <2>2
    <3>2. QED
      BY <3>1
  <2>3. QED
    BY <2>1, <2>2
<1> HIDE DEF was
<1>12. InDecap(h, e, z) = WithOnly(X, 15, r)
  BY <1>7 DEF X, InDecap, With2, WithOnly
<1>13. X[15] = q /\ n = Len(X[15])
  BY <1>1 DEF n, q
<1>14. OnePlace(InDecap(h, e, z))
  <2>1. Reordered(q, r, was)
    BY <1>8, <1>9, <1>10, <1>11, <1>13 DEF Reordered
  <2>2. OnePlace(X) /\ 15 \in Place /\ X[15] = q
    BY <1>1, <1>2, <1>13
  <2>3. OnePlace(WithOnly(X, 15, r))
    BY <2>1, <2>2, Permuted
  <2>4. QED
    BY <1>12, <2>3
<1>15. QED
  BY <1>1, <1>2, <1>3, <1>4, <1>5, <1>7, <1>14 DEF z, t

\* Any of the unfinished PDUs may be looked at as the first one.
LEMMA HeldFirst ==
  ASSUME Placed, NEW k \in 1 .. Len(decap.held)
  PROVE  LET s == <<decap.held[k]>> \o RemoveAt(decap.held, k)
             Y == WithOnly(Lists, 17, s)
         IN  /\ OnePlace(Y) /\ Y = With2(Lists, 17, s, 11, encap_ring[0], free)
             /\ s # <<>> /\ Head(s) = decap.held[k] /\ Tail(s) = RemoveAt(decap.held, k)
<1> DEFINE h == decap.held
           e == encap_ring[0]
           X == InDecap(h, e, free)
           m == h[k]
           rm == RemoveAt(h, k)
           s == <<m>> \o rm
           Y == WithOnly(X, 17, s)
<1>1. h \in Seq(AllMbufs) /\ OnePlace(X) /\ Lists = X
  BY InLists, DecapBefore DEF Placed
<1>2. rm \in Seq(AllMbufs) /\ m \in AllMbufs
  BY <1>1, RemovedAt
<1>3. X[17] = h /\ 17 \in Place
  BY DecapPlaces
<1> HIDE DEF X, rm, h, e
<1>4. OnePlace(Y)
  <2>1. k \in 1 .. Len(X[17])
    BY <1>3 DEF h
  <2>2. OnePlace(WithOnly(X, 17, <<X[17][k]>> \o RemoveAt(X[17], k)))
    BY <1>1, <1>3, <2>1, BroughtForward
  <2>3. QED
    BY <1>3, <2>2 DEF rm
<1>5. Y = With2(Lists, 17, s, 11, e, free)
  BY DEF X, InDecap, With2, WithOnly
<1>6. s # <<>> /\ Head(s) = m /\ Tail(s) = rm
  <2>1. s \in Seq(AllMbufs) /\ Len(s) = Len(rm) + 1 /\ s[1] = m
        /\ \A i \in 1 .. Len(rm) : s[i + 1] = rm[i]
    BY <1>2
  <2> HIDE DEF s, m
  <2>2. Len(rm) \in Nat /\ s # <<>> /\ Head(s) = m
    BY <1>2, <2>1
  <2>3. /\ Tail(s) \in Seq(AllMbufs) /\ Len(Tail(s)) = Len(rm)
        /\ \A i \in 1 .. Len(rm) : Tail(s)[i] = rm[i]
    BY <2>1, <2>2
  <2>4. Tail(s) = rm
    BY <1>2, <2>3, SeqEqual
  <2>5. QED
    BY <2>2, <2>4
<1>7. Y = WithOnly(Lists, 17, s)
  BY <1>1
<1> HIDE DEF s, Y, m
<1>8. QED
  BY <1>4, <1>5, <1>6, <1>7 DEF s, h, e, m, rm

\* An unfinished PDU is complete and goes to the encapsulation ring.
LEMMA CompletedStep ==
  ASSUME Placed, NEW k \in 1 .. Len(decap.held)
  PROVE  OnePlace(InDecap(RemoveAt(decap.held, k), Append(encap_ring[0], decap.held[k]), free))
<1> DEFINE e == encap_ring[0]
           m == decap.held[k]
           rm == RemoveAt(decap.held, k)
           s == <<m>> \o rm
<1>1. /\ OnePlace(With2(Lists, 17, s, 11, e, free))
      /\ s # <<>> /\ Head(s) = m /\ Tail(s) = rm
  <2>1. /\ OnePlace(WithOnly(Lists, 17, s))
        /\ WithOnly(Lists, 17, s) = With2(Lists, 17, s, 11, e, free)
        /\ s # <<>> /\ Head(s) = m /\ Tail(s) = rm
    BY HeldFirst
  <2> HIDE DEF s, e, m, rm
  <2>2. QED
    BY <2>1
<1>2. 17 \in Used /\ 11 \in Used
  BY DecapPlaces
<1> HIDE DEF s, e, m, rm
<1>3. OnePlace(With2(Lists, 17, Tail(s), 11, Append(e, Head(s)), free))
  BY <1>1, <1>2, HandedOn
<1>4. QED
  BY <1>1, <1>3 DEF InDecap, e, m, rm

\* A whole PDU gets an mbuf and goes on, is not taken or is refused.
LEMMA SinglePduStep ==
  ASSUME Placed, NEW d, get_single_pdu(d), UNCHANGED <<rcv_ring, snd_bb_ring, recv, enc, snd>>
  PROVE  Placed'
<1> DEFINE h == decap.held
           e == encap_ring[0]
           t == [free EXCEPT ![DecapMbuf] = Tail(@)]
<1>1. /\ decap' = Passed(h) /\ DOMAIN free = Pools /\ DOMAIN encap_ring = Port
      /\ OnePlace(InDecap(h, e, free))
  <2>1. OnePlace(Lists) /\ DOMAIN free = Pools /\ DOMAIN encap_ring = Port
    BY DEF Placed, Shape
  <2>2. decap' = Passed(h)
    BY DEF get_single_pdu
  <2>3. QED
    BY <2>1, <2>2, DecapBefore
<1> HIDE DEF h
<1>2. CASE UNCHANGED <<free, encap_ring>>
  <2>1. Shape' /\ Lists' = InDecap(h, e, free')
    BY <1>1, <1>2, DecapLists
  <2>2. QED
    BY <1>1, <1>2, <2>1 DEF Placed
<1>3. ASSUME NEW m \in Get(free[DecapMbuf]), free' = t, encap_ring' = Enqueued(m)
      PROVE  Placed'
  <2>0. t = Drawn(free)
    BY DEF Drawn
  <2>2. /\ DOMAIN encap_ring' = Port /\ encap_ring'[0] = Append(e, m)
        /\ encap_ring'[1] = encap_ring[1]
    BY <1>1, <1>3, EnqueuedIs
  <2> HIDE DEF e, t
  <2>1. DOMAIN t = Pools /\ OnePlace(InDecap(h, Append(e, m), t))
    BY <1>1, <1>3, <2>0, TakenStep
  <2>3. Shape' /\ Lists' = InDecap(h, Append(e, m), t)
    BY <1>1, <1>3, <2>1, <2>2, DecapLists
  <2>4. QED
    BY <2>1, <2>3 DEF Placed
<1>4. ASSUME NEW m \in Get(free[DecapMbuf]), free' = Freed(t, m), encap_ring' = encap_ring
      PROVE  Placed'
  <2>0. t = Drawn(free) /\ encap_ring'[0] = e
    BY <1>4 DEF Drawn
  <2> HIDE DEF e, t
  <2>1. DOMAIN Freed(t, m) = Pools /\ OnePlace(InDecap(h, e, Freed(t, m)))
    BY <1>1, <1>4, <2>0, TakenStep
  <2>2. Shape' /\ Lists' = InDecap(h, e, Freed(t, m))
    BY <1>1, <1>4, <2>0, <2>1, DecapLists
  <2>3. QED
    BY <2>1, <2>2 DEF Placed
<1>5. QED
  BY <1>2, <1>3, <1>4 DEF get_single_pdu

\* The first fragment of a PDU gets an mbuf, which is kept, goes on or is given back.
LEMMA StartStep ==
  ASSUME Placed, NEW d, start_reassemble_pdu(d),
         UNCHANGED <<rcv_ring, snd_bb_ring, recv, enc, snd>>
  PROVE  Placed'
<1> DEFINE e == encap_ring[0]
<1>1. DOMAIN free = Pools /\ OnePlace(Lists) /\ DOMAIN encap_ring = Port
  BY DEF Placed, Shape
<1>2. CASE decap' = Passed(decap.held) /\ UNCHANGED <<free, encap_ring>>
  <2>1. Shape' /\ Lists' = InDecap(decap.held, e, free)
    BY <1>1, <1>2, DecapLists
  <2>2. QED
    BY <1>1, <2>1, DecapBefore DEF Placed
<1>3. ASSUME NEW g \in GivenUp, NEW m \in Get(g[1][DecapMbuf]),
             NEW t, t = [g[1] EXCEPT ![DecapMbuf] = Tail(@)],
             \/ free' = t /\ decap' = Passed(Append(g[2], m)) /\ UNCHANGED encap_ring
             \/ free' = t /\ decap' = Passed(g[2]) /\ encap_ring' = Enqueued(m)
             \/ free' = Freed(t, m) /\ decap' = Passed(g[2]) /\ UNCHANGED encap_ring
      PROVE  Placed'
  <2> DEFINE h == g[2]
             f == g[1]
  <2>1. DOMAIN f = Pools /\ OnePlace(InDecap(h, e, f))
    BY GivenUpStep
  <2> HIDE DEF h, f
  <2>2. /\ DOMAIN t = Pools /\ DOMAIN Freed(t, m) = Pools
        /\ OnePlace(InDecap(Append(h, m), e, t)) /\ OnePlace(InDecap(h, Append(e, m), t))
        /\ OnePlace(InDecap(h, e, Freed(t, m)))
    <3>1. m \in Get(f[DecapMbuf]) /\ t = Drawn(f)
      BY <1>3 DEF f, Drawn
    <3> HIDE DEF e
    <3>2. QED
      BY ONLY <2>1, <3>1, TakenStep
  <2>3. CASE free' = t /\ decap' = Passed(Append(h, m)) /\ UNCHANGED encap_ring
    <3>1. Shape' /\ Lists' = InDecap(Append(h, m), e, t)
      BY <1>1, <2>2, <2>3, DecapLists
    <3>2. QED
      BY <2>2, <3>1 DEF Placed
  <2>4. CASE free' = t /\ decap' = Passed(h) /\ encap_ring' = Enqueued(m)
    <3>1. /\ DOMAIN encap_ring' = Port /\ encap_ring'[0] = Append(e, m)
          /\ encap_ring'[1] = encap_ring[1]
      BY <1>1, <2>4, EnqueuedIs
    <3> HIDE DEF e
    <3>2. Shape' /\ Lists' = InDecap(h, Append(e, m), t)
      BY <1>1, <2>2, <2>4, <3>1, DecapLists
    <3>3. QED
      BY <2>2, <3>2 DEF Placed
  <2>5. CASE free' = Freed(t, m) /\ decap' = Passed(h) /\ UNCHANGED encap_ring
    <3>1. Shape' /\ Lists' = InDecap(h, e, Freed(t, m))
      BY <1>1, <2>2, <2>5, DecapLists
    <3>2. QED
      BY <2>2, <3>1 DEF Placed
  <2>6. QED
    BY <1>3, <2>3, <2>4, <2>5 DEF h
<1>4. QED
  BY <1>2, <1>3 DEF start_reassemble_pdu

\* Another fragment is stored, makes an unfinished PDU be given up or completes one.
LEMMA KeepStep ==
  ASSUME Placed, NEW d, keep_reassemble_pdu(d),
         UNCHANGED <<rcv_ring, snd_bb_ring, recv, enc, snd>>
  PROVE  Placed'
<1> DEFINE e == encap_ring[0]
<1>1. DOMAIN free = Pools /\ DOMAIN encap_ring = Port /\ decap.held \in Seq(AllMbufs)
  BY InLists DEF Placed, Shape
<1>2. ASSUME NEW g \in GivenUp, free' = g[1], decap' = Passed(g[2]), encap_ring' = encap_ring
      PROVE  Placed'
  <2>1. DOMAIN g[1] = Pools /\ OnePlace(InDecap(g[2], e, g[1]))
    BY GivenUpStep
  <2>2. Shape' /\ Lists' = InDecap(g[2], e, free')
    BY <1>1, <1>2, <2>1, DecapLists
  <2>3. QED
    BY <1>2, <2>1, <2>2 DEF Placed
<1>3. ASSUME NEW k \in 1 .. Len(decap.held), NEW m, m = decap.held[k],
             decap' = Passed(RemoveAt(decap.held, k)), encap_ring' = Enqueued(m), free' = free
      PROVE  Placed'
  <2>1. OnePlace(InDecap(RemoveAt(decap.held, k), Append(e, m), free))
    BY <1>3, CompletedStep
  <2>2. /\ DOMAIN encap_ring' = Port /\ encap_ring'[0] = Append(e, m)
        /\ encap_ring'[1] = encap_ring[1]
    BY <1>1, <1>3, EnqueuedIs
  <2> HIDE DEF e
  <2>3. Shape' /\ Lists' = InDecap(RemoveAt(decap.held, k), Append(e, m), free')
    BY <1>1, <1>3, <2>2, DecapLists
  <2>4. QED
    BY <1>3, <2>1, <2>3 DEF Placed
<1>4. DOMAIN decap.held = 1 .. Len(decap.held)
  BY <1>1
<1>5. QED
  BY <1>2, <1>3, <1>4 DEF keep_reassemble_pdu

\* The thread takes a GSE packet out of the frame, or gives the frame back.
LEMMA DecapGseStep ==
  ASSUME Placed, decapsulate_gse
  PROVE  Placed'
<1> DEFINE fr == decap.frame
<1>1. /\ decap.turn \in Port /\ 1 - decap.turn \in Port
      /\ fr # None /\ DOMAIN decap = {"turn", "frame", "next", "held"} /\ DOMAIN free = Pools
      /\ rcv_ring' = rcv_ring /\ snd_bb_ring' = snd_bb_ring /\ recv' = recv /\ enc' = enc
      /\ snd' = snd /\ 3 \in Used
  BY DEF decapsulate_gse, Placed, Shape, Port, Used
<1>2. ASSUME NEW d, get_single_pdu(d) \/ start_reassemble_pdu(d) \/ keep_reassemble_pdu(d)
      PROVE  Placed'
  BY <1>1, <1>2, SinglePduStep, StartStep, KeepStep
<1>4. CASE /\ free' = Freed(free, fr) /\ decap' = [decap EXCEPT !.frame = None, !.turn = 1 - @]
           /\ encap_ring' = encap_ring
  <2>1. decap'.frame = None /\ decap'.held = decap.held /\ DOMAIN decap' = DOMAIN decap
        /\ decap'.turn \in Port
    BY <1>1, <1>4
  <2>2. Lists = With(Lists, 3, <<fr>>, free)
    BY <1>1, SMTT(30) DEF Lists, With, Hand, Place
  <2>3. OnePlace(With(Lists, 3, <<fr>>, free))
    BY <2>2 DEF Placed
  <2> HIDE DEF fr
  <2>4. DOMAIN Freed(free, fr) = Pools /\ OnePlace(With(Lists, 3, <<>>, Freed(free, fr)))
    BY <1>1, <2>3, FreedHand
  <2>5. Lists' = With(Lists, 3, <<>>, free')
    BY <1>1, <1>4, <2>1, SMTT(30) DEF Lists, With, Hand, Place
  <2>6. QED
    BY <1>1, <1>4, <2>1, <2>4, <2>5 DEF Placed, Shape
<1>5. QED
  BY <1>2, <1>4 DEF decapsulate_gse

\* The sending thread takes a frame from its ring.
LEMMA SndTakeStep ==
  ASSUME Placed, snd_bbframe_thread
  PROVE  Placed'
<1> DEFINE s == snd_bb_ring
           m == Head(s)
           tl == Tail(s)
<1>1. /\ s # <<>> /\ snd = None /\ snd' = m /\ snd_bb_ring' = tl
      /\ 13 \in Used /\ 7 \in Used /\ 13 # 7
      /\ free' = free /\ rcv_ring' = rcv_ring /\ encap_ring' = encap_ring /\ recv' = recv
      /\ decap' = decap /\ enc' = enc
  BY DEF snd_bbframe_thread, Used
<1>2. m # None /\ Append(<<>>, m) = <<m>>
  <2>1. s \in Seq(AllMbufs)
    BY InLists
  <2>2. m \in AllMbufs
    BY <1>1, <2>1
  <2>3. QED
    BY <2>2, PoolFacts
<1>3. Lists = With2(Lists, 13, s, 7, <<>>, free)
  BY <1>1, SMTT(30) DEF Lists, With2, Hand, Place
<1> DEFINE t == <<>>
<1>4. OnePlace(With2(Lists, 13, s, 7, t, free))
  BY <1>3 DEF Placed
<1> HIDE DEF s, t
<1>5. OnePlace(With2(Lists, 13, tl, 7, Append(t, m), free))
  BY <1>1, <1>4, HandedOn
<1> HIDE DEF tl, m
<1>6. Lists' = With2(Lists, 13, tl, 7, <<m>>, free)
  BY <1>1, <1>2, SMTT(30) DEF Lists, With2, Hand, Place
<1>7. QED
  BY <1>1, <1>2, <1>5, <1>6 DEF Placed, Shape, t

\* It gives the mbuf of a frame back that it has sent.
LEMMA SndSendStep ==
  ASSUME Placed, SendFrame
  PROVE  Placed'
<1> DEFINE m == snd
<1>1. /\ snd # None /\ snd' = None /\ free' = Freed(free, m) /\ 7 \in Used /\ DOMAIN free = Pools
      /\ rcv_ring' = rcv_ring /\ encap_ring' = encap_ring /\ snd_bb_ring' = snd_bb_ring
      /\ recv' = recv /\ decap' = decap /\ enc' = enc
  BY DEF SendFrame, rings, Placed, Shape, Used
<1>2. Lists = With(Lists, 7, <<m>>, free)
  BY <1>1, SMTT(30) DEF Lists, With, Hand, Place
<1>3. OnePlace(With(Lists, 7, <<m>>, free))
  BY <1>2 DEF Placed
<1> HIDE DEF m
<1>4. DOMAIN Freed(free, m) = Pools /\ OnePlace(With(Lists, 7, <<>>, Freed(free, m)))
  BY <1>1, <1>3, FreedHand
<1>5. Lists' = With(Lists, 7, <<>>, free')
  BY <1>1, SMTT(30) DEF Lists, With, Hand, Place
<1>6. QED
  BY <1>1, <1>4, <1>5 DEF Placed, Shape

\* A frame gets its mbuf and goes to the sending thread, or is lost.
LEMMA WriteStep ==
  ASSUME Placed, write_codeblock
  PROVE  Placed'
<1> DEFINE s == snd_bb_ring
<1>1. /\ DOMAIN enc' = EncFields /\ enc'.turn = enc.turn /\ enc'.open = enc.open
      /\ enc'.rest = enc.rest /\ enc'.pdu = enc.pdu /\ enc'.send = enc.send
      /\ enc'.cuts = enc.cuts
  BY DEF write_codeblock, Placed, Shape, EncFields
<1>2. /\ rcv_ring' = rcv_ring /\ encap_ring' = encap_ring /\ recv' = recv /\ decap' = decap
      /\ snd' = snd /\ 13 \in Used /\ EncapMbuf \in Pools /\ DOMAIN free = Pools
  BY PoolFacts DEF write_codeblock, Placed, Shape, Used
<1>3. CASE UNCHANGED <<free, snd_bb_ring>>
  BY <1>1, <1>2, <1>3 DEF Placed, Shape, Lists
<1>4. ASSUME NEW m \in Get(free[EncapMbuf]), free' = [free EXCEPT ![EncapMbuf] = Tail(@)],
             snd_bb_ring' = Append(s, m)
      PROVE  Placed'
  <2> DEFINE f == [free EXCEPT ![EncapMbuf] = Tail(@)]
             ap == Append(s, m)
  <2>1. /\ free[EncapMbuf] # <<>> /\ m = Head(free[EncapMbuf]) /\ DOMAIN f = Pools
        /\ free' = f /\ snd_bb_ring' = ap
    BY <1>2, <1>4, Given
  <2>2. Lists = With(Lists, 13, s, free)
    BY SMTT(30) DEF Lists, With, Place
  <2>3. OnePlace(With(Lists, 13, s, free))
    BY <2>2 DEF Placed
  <2> HIDE DEF s
  <2>4. OnePlace(With(Lists, 13, ap, f))
    BY <1>2, <2>1, <2>3, TakenFrom
  <2> HIDE DEF f, ap
  <2>5. Lists' = With(Lists, 13, ap, f)
    BY <1>1, <1>2, <2>1, SMTT(30) DEF Lists, With, Place
  <2>6. QED
    BY <1>1, <1>2, <2>1, <2>4, <2>5 DEF Placed, Shape
<1>5. QED
  BY <1>3, <1>4 DEF write_codeblock

\* A PDU for port 1 is taken from its ring, or is too long and is given back.
LEMMA EncapPoll0Step ==
  ASSUME Placed, EncapPoll0
  PROVE  Placed'
<1> DEFINE s == encap_ring[0]
           m == Head(s)
           tl == Tail(s)
<1>1. /\ enc.pdu = None /\ enc.send = None /\ DOMAIN enc = EncFields
      /\ rcv_ring' = rcv_ring /\ snd_bb_ring' = snd_bb_ring /\ recv' = recv /\ decap' = decap
      /\ snd' = snd /\ 11 \in Used /\ 5 \in Used /\ 11 # 5 /\ DOMAIN free = Pools
  BY DEF EncapPoll0, AtPoll, Placed, Shape, Used
<1>2. /\ enc' = [enc EXCEPT !.turn = 1] => /\ DOMAIN enc' = EncFields /\ enc'.turn \in Port
                                           /\ enc'.open = enc.open /\ enc'.rest = enc.rest
                                           /\ enc'.pdu = None /\ enc'.send = None
      /\ enc' = [enc EXCEPT !.pdu = m] => /\ DOMAIN enc' = EncFields /\ enc'.turn = enc.turn
                                          /\ enc'.open = enc.open /\ enc'.rest = enc.rest
                                          /\ enc'.pdu = m /\ enc'.send = None
  BY <1>1 DEF EncFields, Port
<1>3. CASE enc' = [enc EXCEPT !.turn = 1] /\ UNCHANGED <<free, encap_ring>>
  <2>1. Lists' = Lists
    BY <1>1, <1>2, <1>3 DEF Lists
  <2>2. QED
    BY <1>1, <1>2, <1>3, <2>1 DEF Placed, Shape
<1>4. ASSUME s # <<>>, encap_ring' = [encap_ring EXCEPT ![0] = Tail(@)]
      PROVE  DOMAIN encap_ring' = Port /\ encap_ring'[0] = tl /\ encap_ring'[1] = encap_ring[1]
             /\ m \in AllMbufs /\ m # None /\ Append(<<>>, m) = <<m>>
  <2>1. DOMAIN encap_ring' = Port /\ encap_ring'[0] = tl /\ encap_ring'[1] = encap_ring[1]
    BY <1>4 DEF Placed, Shape, Port
  <2>2. s \in Seq(AllMbufs)
    BY InLists DEF Port
  <2>3. m \in AllMbufs
    BY <1>4, <2>2
  <2>4. QED
    BY <2>1, <2>3, PoolFacts
<1>5. ASSUME s # <<>>, encap_ring' = [encap_ring EXCEPT ![0] = Tail(@)],
             free' = Freed(free, m), enc' = [enc EXCEPT !.turn = 1]
      PROVE  Placed'
  <2>1. Lists = With(Lists, 11, s, free)
    BY SMTT(30) DEF Lists, With, Place
  <2>2. OnePlace(With(Lists, 11, s, free))
    BY <2>1 DEF Placed
  <2> HIDE DEF s
  <2>3. DOMAIN Freed(free, m) = Pools /\ OnePlace(With(Lists, 11, tl, Freed(free, m)))
    BY <1>1, <1>5, <2>2, FreedOne
  <2> HIDE DEF tl, m
  <2>4. /\ DOMAIN encap_ring' = Port /\ encap_ring'[0] = tl /\ encap_ring'[1] = encap_ring[1]
        /\ enc'.open = enc.open /\ enc'.rest = enc.rest
        /\ enc'.pdu = None /\ enc'.send = None /\ DOMAIN enc' = EncFields /\ enc'.turn \in Port
    BY <1>2, <1>4, <1>5
  <2>5. Lists' = With(Lists, 11, tl, free')
    BY <1>1, <2>4, SMTT(30) DEF Lists, With, Hand, Place
  <2>6. QED
    BY <1>1, <1>5, <2>3, <2>4, <2>5 DEF Placed, Shape
<1>6. ASSUME s # <<>>, encap_ring' = [encap_ring EXCEPT ![0] = Tail(@)],
             free' = free, enc' = [enc EXCEPT !.pdu = m]
      PROVE  Placed'
  <2> DEFINE t == <<>>
  <2>1. Lists = With2(Lists, 11, s, 5, t, free)
    BY <1>1, SMTT(30) DEF Lists, With2, Hand, Place
  <2>2. OnePlace(With2(Lists, 11, s, 5, t, free))
    BY <2>1 DEF Placed
  <2>3. DOMAIN encap_ring' = Port /\ encap_ring'[0] = tl /\ encap_ring'[1] = encap_ring[1]
        /\ m # None /\ Append(t, m) = <<m>> /\ free' = free
        /\ DOMAIN enc' = EncFields /\ enc'.turn = enc.turn /\ enc'.open = enc.open
        /\ enc'.rest = enc.rest /\ enc'.pdu = m /\ enc'.send = None
    BY <1>2, <1>4, <1>6
  <2> HIDE DEF s, t
  <2>4. OnePlace(With2(Lists, 11, tl, 5, Append(t, m), free))
    BY <1>1, <1>6, <2>2, HandedOn
  <2> HIDE DEF tl, m
  <2>5. Lists' = With2(Lists, 11, tl, 5, <<m>>, free)
    BY <1>1, <2>3, SMTT(30) DEF Lists, With2, Hand, Place
  <2>6. OnePlace(Lists')
    BY <2>3, <2>4, <2>5
  <2>7. Shape'
    BY <1>1, <1>2, <1>6, <2>3 DEF Placed, Shape
  <2>8. QED
    BY <2>6, <2>7 DEF Placed
<1>7. QED
  BY <1>3, <1>5, <1>6 DEF EncapPoll0

\* The PDU is copied into an mbuf, or lost and given back.
LEMMA CopyStep ==
  ASSUME Placed, CopyPdu
  PROVE  Placed'
<1> DEFINE m == enc.pdu
<1>1. /\ m # None /\ enc.send = None /\ DOMAIN enc = EncFields /\ EncapMbuf \in Pools
      /\ rcv_ring' = rcv_ring /\ encap_ring' = encap_ring /\ snd_bb_ring' = snd_bb_ring
      /\ recv' = recv /\ decap' = decap /\ snd' = snd /\ 5 \in Used /\ 6 \in Used
      /\ DOMAIN free = Pools
  BY PoolFacts DEF CopyPdu, rings, Placed, Shape, Used
<1>2. CASE free' = Freed(free, m) /\ enc' = [enc EXCEPT !.pdu = None, !.turn = 1]
  <2>1. /\ DOMAIN enc' = EncFields /\ enc'.turn \in Port /\ enc'.open = enc.open
        /\ enc'.rest = enc.rest /\ enc'.pdu = None /\ enc'.send = None
    BY <1>1, <1>2 DEF EncFields, Port
  <2>2. Lists = With(Lists, 5, <<m>>, free)
    BY <1>1, SMTT(30) DEF Lists, With, Hand, Place
  <2>3. OnePlace(With(Lists, 5, <<m>>, free))
    BY <2>2 DEF Placed
  <2> HIDE DEF m
  <2>4. DOMAIN Freed(free, m) = Pools /\ OnePlace(With(Lists, 5, <<>>, Freed(free, m)))
    BY <1>1, <2>3, FreedHand
  <2>5. Lists' = With(Lists, 5, <<>>, free')
    BY <1>1, <2>1, SMTT(30) DEF Lists, With, Hand, Place
  <2>6. QED
    BY <1>1, <1>2, <2>1, <2>4, <2>5 DEF Placed, Shape
<1>3. ASSUME NEW n \in Get(free[EncapMbuf]), free' = [free EXCEPT ![EncapMbuf] = Tail(@)],
             enc' = [enc EXCEPT !.send = n]
      PROVE  Placed'
  <2> DEFINE f == [free EXCEPT ![EncapMbuf] = Tail(@)]
             t == <<>>
  <2>1. /\ free[EncapMbuf] # <<>> /\ n = Head(free[EncapMbuf]) /\ DOMAIN f = Pools
        /\ free' = f /\ n # None /\ Append(t, Head(free[EncapMbuf])) = <<n>>
    BY <1>1, <1>3, Given
  <2>2. /\ DOMAIN enc' = EncFields /\ enc'.turn = enc.turn /\ enc'.open = enc.open
        /\ enc'.rest = enc.rest /\ enc'.pdu = enc.pdu /\ enc'.send = n
    BY <1>1, <1>3 DEF EncFields
  <2>3. Lists = With(Lists, 6, t, free)
    BY <1>1, SMTT(30) DEF Lists, With, Hand, Place
  <2>4. OnePlace(With(Lists, 6, t, free))
    BY <2>3 DEF Placed
  <2> HIDE DEF t
  <2>5. OnePlace(With(Lists, 6, Append(t, Head(free[EncapMbuf])), f))
    BY <1>1, <2>1, <2>4, TakenFrom
  <2> HIDE DEF f
  <2>6. Lists' = With(Lists, 6, <<n>>, f)
    BY <1>1, <2>1, <2>2, SMTT(30) DEF Lists, With, Hand, Place
  <2>7. OnePlace(Lists')
    BY <2>1, <2>5, <2>6
  <2>8. Shape'
    BY <1>1, <2>1, <2>2 DEF Placed, Shape
  <2>9. QED
    BY <2>7, <2>8 DEF Placed
<1>4. QED
  BY <1>2, <1>3 DEF CopyPdu

\* The copy has been sent; both mbufs are given back.
LEMMA SendPduStep ==
  ASSUME Placed, SendPdu
  PROVE  Placed'
<1> DEFINE m == enc.pdu
           n == enc.send
           L1 == With(Lists, 5, <<>>, free)
           s == <<n, m>>
<1>1. /\ m # None /\ n # None /\ m \in AllMbufs /\ n \in AllMbufs /\ DOMAIN enc = EncFields
      /\ rcv_ring' = rcv_ring /\ encap_ring' = encap_ring /\ snd_bb_ring' = snd_bb_ring
      /\ recv' = recv /\ decap' = decap /\ snd' = snd /\ 5 \in Used /\ 6 \in Used /\ 5 # 6
      /\ DOMAIN free = Pools /\ free' = FreedAll(free, s)
  BY InLists DEF SendPdu, rings, Placed, Shape, Used
<1>2. /\ DOMAIN enc' = EncFields /\ enc'.turn \in Port /\ enc'.open = enc.open
      /\ enc'.rest = enc.rest /\ enc'.pdu = None /\ enc'.send = None
  BY <1>1 DEF SendPdu, EncFields, Port
<1>3. Lists = With2(Lists, 5, <<m>>, 6, <<n>>, free)
  BY <1>1, SMTT(30) DEF Lists, With2, Hand, Place
<1>4. OnePlace(With2(Lists, 5, <<m>>, 6, <<n>>, free))
  BY <1>3 DEF Placed
<1>5. s \in Seq(AllMbufs) /\ Append(<<n>>, m) = s
  <2>1. s \in Seq(AllMbufs)
    BY <1>1
  <2>2. Append(<<n>>, m) = s
    <3> DEFINE x == Append(<<n>>, m)
    <3>1. x \in Seq(AllMbufs) /\ Len(x) = 2 /\ x[1] = n /\ x[2] = m
      BY <1>1
    <3>2. Len(s) = 2 /\ s[1] = n /\ s[2] = m
      OBVIOUS
    <3> HIDE DEF x, s, m, n
    <3>3. QED
      BY <2>1, <3>1, <3>2
  <2>3. QED
    BY <2>1, <2>2
<1> DEFINE t == <<n>>
<1>6. OnePlace(With2(Lists, 5, <<m>>, 6, t, free))
  BY <1>4
<1> HIDE DEF m, n, t, s
<1>7. OnePlace(With2(Lists, 5, <<>>, 6, Append(t, m), free))
  BY <1>1, <1>6, HandedFrom
<1>8. OnePlace(With2(Lists, 5, <<>>, 6, s, free))
  BY <1>5, <1>7 DEF t
<1>9. With2(Lists, 5, <<>>, 6, s, free) = With(L1, 6, s, free)
  BY DEF With, With2
<1>10. OnePlace(With(L1, 6, s, free))
  BY <1>8, <1>9
<1> HIDE DEF L1
<1>11. DOMAIN FreedAll(free, s) = Pools /\ OnePlace(With(L1, 6, <<>>, FreedAll(free, s)))
  BY <1>1, <1>5, <1>10, FreedList
<1>12. Lists' = With(L1, 6, <<>>, free')
  BY <1>1, <1>2, SMTT(30) DEF Lists, With, Hand, Place, L1
<1>13. QED
  BY <1>1, <1>2, <1>11, <1>12 DEF Placed, Shape

\* The mbufs that end in a frame, at the place 8, are given back when it is written.
LEMMA CloseStep ==
  ASSUME NEW L, NEW s, NEW e, DOMAIN e = EncFields, DOMAIN free = Pools,
         OnePlace(With(L, 8, s, free)), Close(e, s, free)
  PROVE  /\ DOMAIN free' = Pools /\ OnePlace(With(L, 8, <<>>, free'))
         /\ DOMAIN enc' = EncFields /\ enc'.turn = e.turn /\ enc'.open = <<>>
         /\ enc'.rest = e.rest /\ enc'.pdu = e.pdu /\ enc'.send = e.send
<1>1. s \in Seq(AllMbufs)
  <2>1. 8 \in Place
    BY DEF Place
  <2>2. With(L, 8, s, free)[8] = s
    BY <2>1 DEF With
  <2>3. QED
    BY <2>1, <2>2 DEF OnePlace
<1>2. DOMAIN FreedAll(free, s) = Pools /\ OnePlace(With(L, 8, <<>>, FreedAll(free, s)))
  BY <1>1, 8 \in Used, FreedList DEF Used
<1>3. free' = FreedAll(free, s)
  BY DEF Close
<1>4. /\ DOMAIN enc' = EncFields /\ enc'.turn = e.turn /\ enc'.open = <<>>
      /\ enc'.rest = e.rest /\ enc'.pdu = e.pdu /\ enc'.send = e.send
  BY DEF Close, EncFields
<1>5. QED
  BY <1>2, <1>3, <1>4

\* The mbuf m is added to the frame, which stays open or is written.
Added(e, m) ==
  \/ enc' = [e EXCEPT !.open = Append(@, m)] /\ UNCHANGED free
  \/ Close(e, Append(e.open, m), free)

\* The lists then, when m was taken from the place a.
LEMMA AddStep ==
  ASSUME Placed, NEW a \in {4, 12}, NEW z, NEW m, NEW e, DOMAIN e = EncFields,
         e.open = enc.open, OnePlace(With2(Lists, a, z, 8, Append(enc.open, m), free)),
         Added(e, m)
  PROVE  /\ DOMAIN free' = Pools /\ OnePlace(With2(Lists, a, z, 8, enc'.open, free'))
         /\ DOMAIN enc' = EncFields /\ enc'.turn = e.turn
         /\ enc'.rest = e.rest /\ enc'.pdu = e.pdu /\ enc'.send = e.send
<1> DEFINE ap == Append(enc.open, m)
           L1 == With(Lists, a, z, free)
<1>1. DOMAIN free = Pools
  BY DEF Placed, Shape
<1>2. CASE enc' = [e EXCEPT !.open = Append(@, m)] /\ free' = free
  <2>1. /\ DOMAIN enc' = EncFields /\ enc'.turn = e.turn /\ enc'.open = ap
        /\ enc'.rest = e.rest /\ enc'.pdu = e.pdu /\ enc'.send = e.send
    BY <1>2 DEF EncFields
  <2>2. QED
    BY <1>1, <1>2, <2>1
<1>3. CASE Close(e, Append(e.open, m), free)
  <2>1. Close(e, ap, free)
    BY <1>3
  <2> HIDE DEF ap
  <2>2. \A w, f : With2(Lists, a, z, 8, w, f) = With(L1, 8, w, f)
    BY DEF With, With2
  <2>3. OnePlace(With(L1, 8, ap, free))
    BY <2>2 DEF ap
  <2> HIDE DEF L1
  <2>4. /\ DOMAIN free' = Pools /\ OnePlace(With(L1, 8, <<>>, free'))
        /\ DOMAIN enc' = EncFields /\ enc'.turn = e.turn /\ enc'.open = <<>>
        /\ enc'.rest = e.rest /\ enc'.pdu = e.pdu /\ enc'.send = e.send
    BY <1>1, <2>1, <2>3, CloseStep
  <2>5. QED
    BY <2>2, <2>4
<1>4. QED
  BY <1>2, <1>3 DEF Added

\* The next fragment of a PDU fills a frame, or its last one is added to one.
LEMMA EncapFragmentStep ==
  ASSUME Placed, EncapsulateFragment
  PROVE  Placed'
<1> DEFINE m == enc.rest
           s == enc.open
<1>1. /\ m # None /\ enc.pdu = None /\ enc.send = None /\ enc.turn \in Port
      /\ DOMAIN enc = EncFields /\ DOMAIN free = Pools
      /\ rcv_ring' = rcv_ring /\ encap_ring' = encap_ring /\ snd_bb_ring' = snd_bb_ring
      /\ recv' = recv /\ decap' = decap /\ snd' = snd /\ 4 \in Used /\ 8 \in Used /\ 4 # 8
  BY DEF EncapsulateFragment, AtPoll, rings, Placed, Shape, Used
<1>2. CASE Close([enc EXCEPT !.cuts = @ - 1], enc.open, free)
  <2> DEFINE e == [enc EXCEPT !.cuts = @ - 1]
  <2>1. /\ DOMAIN e = EncFields /\ e.turn = enc.turn /\ e.rest = enc.rest /\ e.pdu = None
        /\ e.send = None
    BY <1>1 DEF EncFields
  <2>2. Lists = With(Lists, 8, s, free)
    BY SMTT(30) DEF Lists, With, Place
  <2>3. OnePlace(With(Lists, 8, s, free)) /\ Close(e, s, free)
    BY <1>2, <2>2 DEF Placed
  <2> HIDE DEF e, s
  <2>4. /\ DOMAIN free' = Pools /\ OnePlace(With(Lists, 8, <<>>, free'))
        /\ DOMAIN enc' = EncFields /\ enc'.turn = e.turn /\ enc'.open = <<>>
        /\ enc'.rest = e.rest /\ enc'.pdu = e.pdu /\ enc'.send = e.send
    BY <1>1, <2>1, <2>3, CloseStep
  <2>5. Lists' = With(Lists, 8, <<>>, free')
    BY <1>1, <2>1, <2>4, SMTT(30) DEF Lists, With, Hand, Place
  <2>6. QED
    BY <1>1, <2>1, <2>4, <2>5 DEF Placed, Shape
<1>3. ASSUME NEW e, e = [enc EXCEPT !.rest = None, !.cuts = 0], Added(e, m)
      PROVE  Placed'
  <2> DEFINE z == <<>>
  <2>1. /\ DOMAIN e = EncFields /\ e.turn = enc.turn /\ e.rest = None /\ e.pdu = None
        /\ e.send = None /\ e.open = enc.open
    BY <1>1, <1>3 DEF EncFields
  <2>2. Lists = With2(Lists, 4, <<m>>, 8, enc.open, free)
    BY <1>1, SMTT(30) DEF Lists, With2, Hand, Place
  <2>3. OnePlace(With2(Lists, 4, <<m>>, 8, enc.open, free))
    BY <2>2 DEF Placed
  <2> HIDE DEF m
  <2>4. OnePlace(With2(Lists, 4, z, 8, Append(enc.open, m), free))
    BY <1>1, <2>3, HandedFrom
  <2> HIDE DEF z
  <2>5. /\ DOMAIN free' = Pools /\ OnePlace(With2(Lists, 4, z, 8, enc'.open, free'))
        /\ DOMAIN enc' = EncFields /\ enc'.turn = e.turn
        /\ enc'.rest = e.rest /\ enc'.pdu = e.pdu /\ enc'.send = e.send
    <3>1. 4 \in {4, 12} /\ Added(e, m)
      BY <1>3
    <3>2. QED
      BY <2>1, <2>4, <3>1, AddStep
  <2>6. Lists' = With2(Lists, 4, z, 8, enc'.open, free')
    BY <1>1, <2>1, <2>5, SMTT(30) DEF Lists, With2, Hand, Place, z
  <2>7. QED
    BY <1>1, <2>1, <2>5, <2>6 DEF Placed, Shape
<1>4. QED
  BY <1>2, <1>3 DEF EncapsulateFragment, Added

\* A packet is taken from ring 1 and goes into the frame, or its rest has to wait;
\* when there is none an open frame may be written.
LEMMA EncapPoll1Step ==
  ASSUME Placed, EncapPoll1
  PROVE  Placed'
<1> DEFINE s == encap_ring[1]
           m == Head(s)
           tl == Tail(s)
<1>1. /\ enc.rest = None /\ enc.pdu = None /\ enc.send = None
      /\ DOMAIN enc = EncFields /\ DOMAIN free = Pools
      /\ rcv_ring' = rcv_ring /\ snd_bb_ring' = snd_bb_ring
      /\ recv' = recv /\ decap' = decap /\ snd' = snd
      /\ 4 \in Used /\ 8 \in Used /\ 12 \in Used /\ 12 # 8 /\ 12 # 4
  BY DEF EncapPoll1, AtPoll, Placed, Shape, Used
<1>2. ASSUME s = <<>>, FlushIdle([enc EXCEPT !.turn = 0, !.idle = (@ + 1) % IdleLoops]),
             encap_ring' = encap_ring
      PROVE  Placed'
  <2> DEFINE e == [enc EXCEPT !.turn = 0, !.idle = (@ + 1) % IdleLoops]
             w == enc.open
  <2>1. /\ DOMAIN e = EncFields /\ e.turn \in Port /\ e.rest = enc.rest /\ e.pdu = None
        /\ e.send = None /\ e.open = w
    BY <1>1 DEF EncFields, Port
  <2>2. Lists = With(Lists, 8, w, free)
    BY SMTT(30) DEF Lists, With, Place
  <2>3. OnePlace(With(Lists, 8, w, free))
    BY <2>2 DEF Placed
  <2> HIDE DEF e
  <2>4. CASE enc' = e /\ free' = free
    <3>1. Lists' = Lists
      BY <1>1, <1>2, <2>1, <2>4 DEF Lists
    <3>2. QED
      BY <1>1, <1>2, <2>1, <2>4, <3>1 DEF Placed, Shape
  <2>5. CASE Close(e, e.open, free)
    <3>1. Close(e, w, free)
      BY <2>1, <2>5
    <3> HIDE DEF w
    <3>2. /\ DOMAIN free' = Pools /\ OnePlace(With(Lists, 8, <<>>, free'))
          /\ DOMAIN enc' = EncFields /\ enc'.turn = e.turn /\ enc'.open = <<>>
          /\ enc'.rest = e.rest /\ enc'.pdu = e.pdu /\ enc'.send = e.send
      BY <1>1, <2>1, <2>3, <3>1, CloseStep
    <3>3. Lists' = With(Lists, 8, <<>>, free')
      BY <1>1, <1>2, <2>1, <3>2, SMTT(30) DEF Lists, With, Hand, Place
    <3>4. QED
      BY <1>1, <1>2, <2>1, <3>2, <3>3 DEF Placed, Shape
  <2>6. QED
    BY <1>2, <2>4, <2>5 DEF FlushIdle, e
<1>3. ASSUME s # <<>>, encap_ring' = [encap_ring EXCEPT ![1] = Tail(@)]
      PROVE  DOMAIN encap_ring' = Port /\ encap_ring'[1] = tl /\ encap_ring'[0] = encap_ring[0]
             /\ m \in AllMbufs /\ m # None /\ Append(<<>>, m) = <<m>>
  <2>1. DOMAIN encap_ring' = Port /\ encap_ring'[1] = tl /\ encap_ring'[0] = encap_ring[0]
    BY <1>3 DEF Placed, Shape, Port
  <2>2. s \in Seq(AllMbufs)
    BY InLists DEF Port
  <2>3. m \in AllMbufs
    BY <1>3, <2>2
  <2>4. QED
    BY <2>1, <2>3, PoolFacts
<1>4. ASSUME s # <<>>, encap_ring' = [encap_ring EXCEPT ![1] = Tail(@)],
             NEW e, e = [enc EXCEPT !.turn = 0, !.idle = 0], Added(e, m)
      PROVE  Placed'
  <2>1. /\ DOMAIN e = EncFields /\ e.turn \in Port /\ e.rest = None /\ e.pdu = None
        /\ e.send = None /\ e.open = enc.open
    BY <1>1, <1>4 DEF EncFields, Port
  <2>2. /\ DOMAIN encap_ring' = Port /\ encap_ring'[1] = tl /\ encap_ring'[0] = encap_ring[0]
    BY <1>3, <1>4
  <2>3. Lists = With2(Lists, 12, s, 8, enc.open, free)
    BY SMTT(30) DEF Lists, With2, Place
  <2>4. OnePlace(With2(Lists, 12, s, 8, enc.open, free))
    BY <2>3 DEF Placed
  <2> HIDE DEF s
  <2>5. OnePlace(With2(Lists, 12, tl, 8, Append(enc.open, m), free))
    BY <1>1, <1>4, <2>4, HandedOn
  <2> HIDE DEF tl, m
  <2>6. /\ DOMAIN free' = Pools /\ OnePlace(With2(Lists, 12, tl, 8, enc'.open, free'))
        /\ DOMAIN enc' = EncFields /\ enc'.turn = e.turn
        /\ enc'.rest = e.rest /\ enc'.pdu = e.pdu /\ enc'.send = e.send
    <3>1. 12 \in {4, 12} /\ Added(e, m)
      BY <1>4
    <3>2. QED
      BY <2>1, <2>5, <3>1, AddStep
  <2>7. Lists' = With2(Lists, 12, tl, 8, enc'.open, free')
    BY <1>1, <2>1, <2>2, <2>6, SMTT(30) DEF Lists, With2, Hand, Place
  <2>8. QED
    BY <1>1, <2>1, <2>2, <2>6, <2>7 DEF Placed, Shape
<1>5. ASSUME s # <<>>, encap_ring' = [encap_ring EXCEPT ![1] = Tail(@)], NEW n,
             Close([[enc EXCEPT !.turn = 0, !.idle = 0] EXCEPT !.rest = m, !.cuts = n],
                   enc.open, free)
      PROVE  Placed'
  <2> DEFINE e == [[enc EXCEPT !.turn = 0, !.idle = 0] EXCEPT !.rest = m, !.cuts = n]
             w == enc.open
             z == <<>>
             x == <<m>>
             L1 == With2(Lists, 12, tl, 4, x, free)
  <2>1. /\ DOMAIN e = EncFields /\ e.turn \in Port /\ e.rest = m /\ e.pdu = None
        /\ e.send = None
    BY <1>1 DEF EncFields, Port
  <2>2. /\ DOMAIN encap_ring' = Port /\ encap_ring'[1] = tl /\ encap_ring'[0] = encap_ring[0]
        /\ m # None /\ Append(z, m) = x
    BY <1>3, <1>5
  <2>3. Lists = With2(Lists, 12, s, 4, z, free)
    BY <1>1, SMTT(30) DEF Lists, With2, Hand, Place
  <2>4. OnePlace(With2(Lists, 12, s, 4, z, free)) /\ Close(e, w, free)
    BY <1>5, <2>3 DEF Placed
  <2> HIDE DEF s, z, e
  <2>5. OnePlace(With2(Lists, 12, tl, 4, Append(z, m), free))
    BY <1>1, <1>5, <2>4, HandedOn
  <2>6. OnePlace(L1)
    BY <2>2, <2>5
  <2> HIDE DEF tl, m, x
  <2>7. L1 = With(L1, 8, w, free)
    BY SMTT(30) DEF Lists, With, With2, Place
  <2>8. OnePlace(With(L1, 8, w, free))
    BY <2>6, <2>7
  <2> HIDE DEF L1, w
  <2>9. /\ DOMAIN free' = Pools /\ OnePlace(With(L1, 8, <<>>, free'))
        /\ DOMAIN enc' = EncFields /\ enc'.turn = e.turn /\ enc'.open = <<>>
        /\ enc'.rest = e.rest /\ enc'.pdu = e.pdu /\ enc'.send = e.send
    BY <1>1, <2>1, <2>4, <2>8, CloseStep
  <2>10. Lists' = With(L1, 8, <<>>, free')
    BY <1>1, <2>1, <2>2, <2>9, SMTT(30) DEF Lists, With, With2, Hand, Place, L1, x
  <2>11. QED
    BY <1>1, <2>1, <2>2, <2>9, <2>10 DEF Placed, Shape
<1>6. QED
  <2>1. CASE s = <<>>
    BY <1>2, <2>1 DEF EncapPoll1
  <2>2. CASE s # <<>>
    <3> DEFINE e == [enc EXCEPT !.turn = 0, !.idle = 0]
    <3>1. EncapsulateWhole(m, e) /\ encap_ring' = [encap_ring EXCEPT ![1] = Tail(@)]
      BY <2>2 DEF EncapPoll1
    <3>2. e.open = enc.open
      BY <1>1 DEF EncFields
    <3>3. CASE \E n \in 1 .. MaxCuts : Close([e EXCEPT !.rest = m, !.cuts = n], e.open, free)
      BY <1>5, <2>2, <3>1, <3>2, <3>3
    <3>4. CASE Added(e, m)
      BY <1>4, <2>2, <3>1, <3>4
    <3>5. QED
      BY <3>1, <3>3, <3>4 DEF EncapsulateWhole, Added
  <2>3. QED
    BY <2>1, <2>2

\* The configuration in which all mbufs are in their pools.
LEMMA InitPlaced == Init => Placed
<1> SUFFICES ASSUME Init PROVE Placed
  OBVIOUS
<1> DEFINE R == SetToSeq(RcvMbuf)
           D == SetToSeq(DecapMbuf)
           E == SetToSeq(EncapMbuf)
           L == Lists
<1>1. Shape
  BY DEF Init, Shape, EncFields, Port
<1>2. /\ free[RcvMbuf] = R /\ free[DecapMbuf] = D /\ free[EncapMbuf] = E
      /\ rcv_ring[0] = <<>> /\ rcv_ring[1] = <<>> /\ encap_ring[0] = <<>> /\ encap_ring[1] = <<>>
      /\ recv[0] = None /\ recv[1] = None
  BY PoolFacts DEF Init, Port
<1>3. /\ L[14] = R /\ L[15] = D /\ L[16] = E
      /\ \A p \in Place : p \notin {14, 15, 16} => L[p] = <<>>
  BY <1>2 DEF Init, Lists, Hand, Place
<1>4. /\ R \in Seq(RcvMbuf) /\ Once(R) /\ ToSet(R) = RcvMbuf
      /\ D \in Seq(DecapMbuf) /\ Once(D) /\ ToSet(D) = DecapMbuf
      /\ E \in Seq(EncapMbuf) /\ Once(E) /\ ToSet(E) = EncapMbuf
  BY FullPool, PoolFacts
<1>5. /\ RcvMbuf \subseteq AllMbufs /\ DecapMbuf \subseteq AllMbufs /\ EncapMbuf \subseteq AllMbufs
      /\ RcvMbuf \cap DecapMbuf = {} /\ RcvMbuf \cap EncapMbuf = {} /\ DecapMbuf \cap EncapMbuf = {}
      /\ AllMbufs = RcvMbuf \cup DecapMbuf \cup EncapMbuf
  BY PipelineAssumption, PoolFacts DEF AllMbufs
<1>6. L = [p \in Place |-> L[p]]
  BY SMTT(30) DEF Lists, Place
<1> HIDE DEF L, R, D, E
<1>7. R \in Seq(AllMbufs) /\ D \in Seq(AllMbufs) /\ E \in Seq(AllMbufs)
  BY <1>4, <1>5
<1>8. \A p \in Place : L[p] \in Seq(AllMbufs)
  <2> SUFFICES ASSUME NEW p \in Place PROVE L[p] \in Seq(AllMbufs)
    OBVIOUS
  <2>1. CASE p \notin {14, 15, 16}
    <3>1. L[p] = <<>>
      BY <1>3, <2>1
    <3>2. QED
      BY <3>1
  <2>2. CASE p \in {14, 15, 16}
    BY <1>3, <1>7, <2>2
  <2>3. QED
    BY <2>1, <2>2
<1>9. /\ Len(R) \in Nat /\ DOMAIN R = 1 .. Len(R) /\ \A i \in 1 .. Len(R) : R[i] \in RcvMbuf
      /\ Len(D) \in Nat /\ DOMAIN D = 1 .. Len(D) /\ \A i \in 1 .. Len(D) : D[i] \in DecapMbuf
      /\ Len(E) \in Nat /\ DOMAIN E = 1 .. Len(E) /\ \A i \in 1 .. Len(E) : E[i] \in EncapMbuf
  BY <1>4
<1>10. \A p \in Place : \A i \in 1 .. Len(L[p]) :
         \/ p = 14 /\ L[p] = R /\ R[i] \in RcvMbuf /\ i \in DOMAIN R
         \/ p = 15 /\ L[p] = D /\ D[i] \in DecapMbuf /\ i \in DOMAIN D
         \/ p = 16 /\ L[p] = E /\ E[i] \in EncapMbuf /\ i \in DOMAIN E
  <2> SUFFICES ASSUME NEW p \in Place, NEW i \in 1 .. Len(L[p])
               PROVE  \/ p = 14 /\ L[p] = R /\ R[i] \in RcvMbuf /\ i \in DOMAIN R
                      \/ p = 15 /\ L[p] = D /\ D[i] \in DecapMbuf /\ i \in DOMAIN D
                      \/ p = 16 /\ L[p] = E /\ E[i] \in EncapMbuf /\ i \in DOMAIN E
    OBVIOUS
  <2>1. CASE p \notin {14, 15, 16}
    BY <1>3, <2>1
  <2>2. CASE p \in {14, 15, 16}
    BY <1>3, <1>9, <2>2
  <2>3. QED
    BY <2>1, <2>2
<1>11. ASSUME NEW p \in Place, NEW q \in Place, NEW i \in 1 .. Len(L[p]), NEW j \in 1 .. Len(L[q]),
              L[p][i] = L[q][j]
       PROVE  p = q /\ i = j
  BY <1>4, <1>5, <1>10, <1>11 DEF Once
<1>12. ASSUME NEW m \in AllMbufs PROVE \E p \in Place : \E i \in 1 .. Len(L[p]) : L[p][i] = m
  <2>1. m \in ToSet(R) \/ m \in ToSet(D) \/ m \in ToSet(E)
    BY <1>4, <1>5
  <2>2. 14 \in Place /\ 15 \in Place /\ 16 \in Place
    BY DEF Place
  <2>3. QED
    BY <1>3, <1>9, <2>1, <2>2 DEF ToSet
<1>13. \A P \in Pools : \A i \in 1 .. Len(L[PoolPlace(P)]) : L[PoolPlace(P)][i] \in P
  BY <1>3, <1>9, PoolFacts, PoolPlaces
<1>14. OnePlace(L)
  <2>1. L \in [Place -> Seq(AllMbufs)]
    BY <1>6, <1>8
  <2>2. QED
    BY <1>11, <1>12, <1>13, <2>1 DEF OnePlace
<1>15. QED
  BY <1>1, <1>14 DEF Placed, L

\* Every step keeps every mbuf in one place.
LEMMA NextPlaced == Placed /\ [Next]_vars => Placed'
<1> SUFFICES ASSUME Placed, [Next]_vars PROVE Placed'
  OBVIOUS
<1>1. CASE threadpool_spawn_thread
  BY <1>1 DEF threadpool_spawn_thread, rings, Placed, Shape, Lists
<1>2. CASE \E p \in Port : read_pcap(p) \/ receive_msg_thread(p)
  BY <1>2, PcapStep, ReceiveStep
<1>3. CASE decapsulate_thread
  BY <1>3, DecapPollStep, DecapGseStep DEF decapsulate_thread
<1>4. CASE encapsulate_thread
  BY <1>4, EncapFragmentStep, EncapPoll1Step, WriteStep, EncapPoll0Step, CopyStep
  DEF encapsulate_thread
<1>5. CASE SendPdu
  BY <1>5, SendPduStep
<1>6. CASE snd_bbframe_thread
  BY <1>6, SndTakeStep
<1>7. CASE SendFrame
  BY <1>7, SndSendStep
<1>8. CASE UNCHANGED vars
  BY <1>8 DEF vars, Placed, Shape, Lists
<1>9. QED
  BY <1>1, <1>2, <1>3, <1>4, <1>5, <1>6, <1>7, <1>8 DEF Next

LEMMA AlwaysPlaced == Spec => []Placed
BY InitPlaced, NextPlaced, PTL DEF Spec

-----------------------------------------------------------------------------
(* From places to the sequence of all mbufs *)

\* The set of what is in the first k lists.
InFirst(L, k) == UNION {ToSet(L[p]) : p \in 1 .. k}

\* s holds what is in the first k lists, each mbuf once.
Joined(L, k, s) == s \in Seq(AllMbufs) /\ Once(s) /\ ToSet(s) = InFirst(L, k)

\* Two sequences without a common element, one behind the other.
LEMMA JoinTwo ==
  ASSUME NEW S, NEW s \in Seq(S), NEW t \in Seq(S), Once(s), Once(t), ToSet(s) \cap ToSet(t) = {}
  PROVE  s \o t \in Seq(S) /\ Once(s \o t) /\ ToSet(s \o t) = ToSet(s) \cup ToSet(t)
<1> DEFINE u == s \o t
           ns == Len(s)
           nt == Len(t)
<1>1. /\ ns \in Nat /\ nt \in Nat /\ DOMAIN s = 1 .. ns /\ DOMAIN t = 1 .. nt
      /\ u \in Seq(S) /\ DOMAIN u = 1 .. ns + nt
      /\ \A i \in 1 .. ns : u[i] = s[i]
      /\ \A i \in 1 .. nt : u[ns + i] = t[i]
  OBVIOUS
<1> HIDE DEF u, ns, nt
<1>2. ASSUME NEW i \in 1 .. ns + nt
      PROVE  \/ i \in DOMAIN s /\ u[i] = s[i] /\ u[i] \in ToSet(s)
             \/ i - ns \in DOMAIN t /\ u[i] = t[i - ns] /\ u[i] \in ToSet(t)
  <2>1. CASE i <= ns
    <3>1. i \in 1 .. ns
      BY <1>1, <2>1
    <3>2. QED
      BY <1>1, <3>1 DEF ToSet
  <2>2. CASE i > ns
    <3>1. i - ns \in 1 .. nt /\ ns + (i - ns) = i
      BY <1>1, <2>2
    <3>2. u[i] = t[i - ns]
      BY <1>1, <3>1
    <3>3. QED
      BY <1>1, <3>1, <3>2 DEF ToSet
  <2>3. QED
    BY <1>1, <2>1, <2>2
<1>3. ASSUME NEW i \in DOMAIN u, NEW j \in DOMAIN u, u[i] = u[j] PROVE i = j
  <2>1. i \in 1 .. ns + nt /\ j \in 1 .. ns + nt
    BY <1>1
  <2>2. CASE i \in DOMAIN s /\ j \in DOMAIN s /\ u[i] = s[i] /\ u[j] = s[j]
    BY <1>3, <2>2 DEF Once
  <2>3. CASE i - ns \in DOMAIN t /\ j - ns \in DOMAIN t /\ u[i] = t[i - ns] /\ u[j] = t[j - ns]
    <3>1. i - ns = j - ns
      BY <1>3, <2>3 DEF Once
    <3>2. QED
      BY <1>1, <2>1, <3>1
  <2>4. QED
    BY <1>2, <1>3, <2>1, <2>2, <2>3
<1>4. ToSet(u) \subseteq ToSet(s) \cup ToSet(t)
  <2>1. \A i \in DOMAIN u : u[i] \in ToSet(s) \cup ToSet(t)
    BY <1>1, <1>2
  <2>2. QED
    BY <2>1 DEF ToSet
<1>5. ToSet(s) \subseteq ToSet(u)
  <2>1. \A i \in DOMAIN s : i \in DOMAIN u /\ s[i] = u[i]
    BY <1>1
  <2>2. QED
    BY <2>1 DEF ToSet
<1>6. ToSet(t) \subseteq ToSet(u)
  <2>1. \A i \in DOMAIN t : ns + i \in DOMAIN u /\ t[i] = u[ns + i]
    BY <1>1
  <2>2. QED
    BY <2>1 DEF ToSet
<1>7. QED
  BY <1>1, <1>3, <1>4, <1>5, <1>6 DEF Once, u

\* One list more.
LEMMA JoinNext ==
  ASSUME NEW L, OnePlace(L), NEW k \in 1 .. 16, NEW s, Joined(L, k, s), NEW n, n = k + 1
  PROVE  Joined(L, n, s \o L[n])
<1> DEFINE t == L[n]
<1>1. n \in Place /\ t \in Seq(AllMbufs) /\ \A p \in 1 .. k : p \in Place /\ L[p] \in Seq(AllMbufs)
  <2>1. n \in Place /\ \A p \in 1 .. k : p \in Place
    BY DEF Place
  <2>2. QED
    BY <2>1 DEF OnePlace
<1>2. \A p \in Place : DOMAIN L[p] = 1 .. Len(L[p])
  BY DEF OnePlace
<1>3. Once(t)
  <2>1. \A i, j \in 1 .. Len(L[n]) : L[n][i] = L[n][j] => i = j
    BY <1>1 DEF OnePlace
  <2>2. DOMAIN t = 1 .. Len(L[n])
    BY <1>1, <1>2
  <2>3. QED
    BY <2>1, <2>2 DEF Once
<1>4. ASSUME NEW p \in 1 .. k PROVE ToSet(L[p]) \cap ToSet(t) = {}
  <2> SUFFICES ASSUME NEW i \in DOMAIN L[p], NEW j \in DOMAIN t, L[p][i] = t[j] PROVE FALSE
    BY DEF ToSet
  <2>1. p \in Place /\ i \in 1 .. Len(L[p]) /\ j \in 1 .. Len(L[n])
    BY <1>1, <1>2
  <2>2. p = n
    BY <1>1, <2>1 DEF OnePlace
  <2>3. QED
    BY <2>2
<1>5. ToSet(s) \cap ToSet(t) = {}
  BY <1>4 DEF Joined, InFirst
<1>6. s \o t \in Seq(AllMbufs) /\ Once(s \o t) /\ ToSet(s \o t) = ToSet(s) \cup ToSet(t)
  BY <1>1, <1>3, <1>5, JoinTwo DEF Joined
<1>7. InFirst(L, n) = InFirst(L, k) \cup ToSet(t)
  <2>1. \A p : p \in 1 .. n <=> p \in 1 .. k \/ p = n
    OBVIOUS
  <2> HIDE DEF t
  <2>2. QED
    BY <2>1 DEF InFirst, t
<1>8. QED
  BY <1>6, <1>7 DEF Joined

\* All lists.
LEMMA JoinAll ==
  ASSUME NEW L, OnePlace(L)
  PROVE  Joined(L, 17, L[1] \o L[2] \o L[3] \o L[4] \o L[5] \o L[6] \o L[7] \o L[8] \o L[9]
                         \o L[10] \o L[11] \o L[12] \o L[13] \o L[14] \o L[15] \o L[16] \o L[17])
<1> DEFINE s1 == L[1]
           s2 == s1 \o L[2]
           s3 == s2 \o L[3]
           s4 == s3 \o L[4]
           s5 == s4 \o L[5]
           s6 == s5 \o L[6]
           s7 == s6 \o L[7]
           s8 == s7 \o L[8]
           s9 == s8 \o L[9]
           s10 == s9 \o L[10]
           s11 == s10 \o L[11]
           s12 == s11 \o L[12]
           s13 == s12 \o L[13]
           s14 == s13 \o L[14]
           s15 == s14 \o L[15]
           s16 == s15 \o L[16]
           s17 == s16 \o L[17]
<1>1. Joined(L, 1, s1)
  <2>1. 1 \in Place
    BY DEF Place
  <2>2. L[1] \in Seq(AllMbufs) /\ DOMAIN L[1] = 1 .. Len(L[1])
    BY <2>1 DEF OnePlace
  <2>3. Once(L[1])
    <3>1. \A i, j \in 1 .. Len(L[1]) : L[1][i] = L[1][j] => i = j
      BY <2>1 DEF OnePlace
    <3>2. QED
      BY <2>2, <3>1 DEF Once
  <2>4. InFirst(L, 1) = ToSet(L[1])
    <3>1. \A p : p \in 1 .. 1 <=> p = 1
      OBVIOUS
    <3>2. QED
      BY <3>1 DEF InFirst
  <2>5. QED
    BY <2>2, <2>3, <2>4 DEF Joined
<1> HIDE DEF s1, s2, s3, s4, s5, s6, s7, s8, s9, s10, s11, s12, s13, s14, s15, s16, s17
<1>2. Joined(L, 2, s2)
  BY <1>1, 1 \in 1 .. 16, 2 = 1 + 1, JoinNext DEF s2
<1>3. Joined(L, 3, s3)
  BY <1>2, 2 \in 1 .. 16, 3 = 2 + 1, JoinNext DEF s3
<1>4. Joined(L, 4, s4)
  BY <1>3, 3 \in 1 .. 16, 4 = 3 + 1, JoinNext DEF s4
<1>5. Joined(L, 5, s5)
  BY <1>4, 4 \in 1 .. 16, 5 = 4 + 1, JoinNext DEF s5
<1>6. Joined(L, 6, s6)
  BY <1>5, 5 \in 1 .. 16, 6 = 5 + 1, JoinNext DEF s6
<1>7. Joined(L, 7, s7)
  BY <1>6, 6 \in 1 .. 16, 7 = 6 + 1, JoinNext DEF s7
<1>8. Joined(L, 8, s8)
  BY <1>7, 7 \in 1 .. 16, 8 = 7 + 1, JoinNext DEF s8
<1>9. Joined(L, 9, s9)
  BY <1>8, 8 \in 1 .. 16, 9 = 8 + 1, JoinNext DEF s9
<1>10. Joined(L, 10, s10)
  BY <1>9, 9 \in 1 .. 16, 10 = 9 + 1, JoinNext DEF s10
<1>11. Joined(L, 11, s11)
  BY <1>10, 10 \in 1 .. 16, 11 = 10 + 1, JoinNext DEF s11
<1>12. Joined(L, 12, s12)
  BY <1>11, 11 \in 1 .. 16, 12 = 11 + 1, JoinNext DEF s12
<1>13. Joined(L, 13, s13)
  BY <1>12, 12 \in 1 .. 16, 13 = 12 + 1, JoinNext DEF s13
<1>14. Joined(L, 14, s14)
  BY <1>13, 13 \in 1 .. 16, 14 = 13 + 1, JoinNext DEF s14
<1>15. Joined(L, 15, s15)
  BY <1>14, 14 \in 1 .. 16, 15 = 14 + 1, JoinNext DEF s15
<1>16. Joined(L, 16, s16)
  BY <1>15, 15 \in 1 .. 16, 16 = 15 + 1, JoinNext DEF s16
<1>17. Joined(L, 17, s17)
  BY <1>16, 16 \in 1 .. 16, 17 = 16 + 1, JoinNext DEF s17
<1>18. QED
  BY <1>17 DEF s1, s2, s3, s4, s5, s6, s7, s8, s9, s10, s11, s12, s13, s14, s15, s16, s17

\* A sequence that holds every element of a finite set once is as long as it is large.
LEMMA AllOnce ==
  ASSUME NEW S, IsFiniteSet(S), NEW s \in Seq(S), Once(s), ToSet(s) = S
  PROVE  Len(s) = Cardinality(S)
<1>1. Len(s) \in Nat /\ DOMAIN s = 1 .. Len(s) /\ s \in [1 .. Len(s) -> S]
  OBVIOUS
<1>2. s \in Bijection(1 .. Len(s), S)
  <2>1. s \in Injection(1 .. Len(s), S)
    BY <1>1 DEF Injection, IsInjective, Once
  <2>2. s \in Surjection(1 .. Len(s), S)
    BY <1>1 DEF Surjection, ToSet
  <2>3. QED
    BY <2>1, <2>2 DEF Bijection
<1>3. IsFiniteSet(1 .. Len(s)) /\ Cardinality(1 .. Len(s)) = Len(s)
  BY <1>1, FS_Interval
<1>4. QED
  BY <1>2, <1>3, FS_Bijection DEF ExistsBijection

\* The invariant in the words of the property.
LEMMA PlacedMeans == Placed => EachInOnePlace
<1> SUFFICES ASSUME Placed PROVE EachInOnePlace
  OBVIOUS
<1> DEFINE L == Lists
           all == InUse \o free[RcvMbuf] \o free[DecapMbuf] \o free[EncapMbuf] \o decap.held
<1>1. OnePlace(L)
  BY DEF Placed
<1>2. all = L[1] \o L[2] \o L[3] \o L[4] \o L[5] \o L[6] \o L[7] \o L[8] \o L[9]
              \o L[10] \o L[11] \o L[12] \o L[13] \o L[14] \o L[15] \o L[16] \o L[17]
  <2>1. /\ L[1] = Hand(recv[0]) /\ L[2] = Hand(recv[1]) /\ L[3] = Hand(decap.frame)
        /\ L[4] = Hand(enc.rest) /\ L[5] = Hand(enc.pdu) /\ L[6] = Hand(enc.send)
        /\ L[7] = Hand(snd) /\ L[8] = enc.open
    BY DEF Lists
  <2>2. /\ L[9] = rcv_ring[0] /\ L[10] = rcv_ring[1] /\ L[11] = encap_ring[0]
        /\ L[12] = encap_ring[1] /\ L[13] = snd_bb_ring /\ L[14] = free[RcvMbuf]
        /\ L[15] = free[DecapMbuf] /\ L[16] = free[EncapMbuf] /\ L[17] = decap.held
    BY DEF Lists
  <2> HIDE DEF L
  <2>3. QED
    BY <2>1, <2>2 DEF InUse
<1>3. \A P \in Pools : free[P] = L[PoolPlace(P)] /\ PoolPlace(P) \in Place
  <2>1. L[14] = free[RcvMbuf] /\ L[15] = free[DecapMbuf] /\ L[16] = free[EncapMbuf]
    BY DEF Lists
  <2>2. 14 \in Place /\ 15 \in Place /\ 16 \in Place
    BY DEF Place
  <2> HIDE DEF L
  <2>3. QED
    BY <2>1, <2>2, PoolFacts, PoolPlaces
<1> HIDE DEF L, all
<1>4. Joined(L, 17, all)
  BY <1>1, <1>2, JoinAll
<1>5. \A p \in Place : L[p] \in Seq(AllMbufs) /\ DOMAIN L[p] = 1 .. Len(L[p])
  BY <1>1 DEF OnePlace
<1>6. InFirst(L, 17) = AllMbufs
  <2>1. InFirst(L, 17) \subseteq AllMbufs
    <3>1. \A p \in Place : ToSet(L[p]) \subseteq AllMbufs
      BY <1>5 DEF ToSet
    <3>2. QED
      BY <3>1 DEF InFirst, Place
  <2>2. ASSUME NEW m \in AllMbufs PROVE m \in InFirst(L, 17)
    <3>1. PICK p \in Place : \E i \in 1 .. Len(L[p]) : L[p][i] = m
      BY <1>1 DEF OnePlace
    <3>2. m \in ToSet(L[p])
      BY <1>5, <3>1 DEF ToSet
    <3>3. QED
      BY <3>2 DEF InFirst, Place
  <2>3. QED
    BY <2>1, <2>2
<1>7. ToSet(all) = AllMbufs /\ Len(all) = Cardinality(AllMbufs)
  BY <1>4, <1>6, AllFinite, AllOnce DEF Joined
<1>8. \A P \in Pools : ToSet(free[P]) \subseteq P
  BY <1>1, <1>3, <1>5 DEF OnePlace, ToSet
<1>9. QED
  BY <1>7, <1>8 DEF EachInOnePlace, all

\* Whatever the threads do and in whatever order, every mbuf is in its own pool, on one
\* ring, in the hands of one thread or taken for one unfinished PDU: none is lost, freed
\* twice, or used by two threads, whether a PDU is taken, refused for its length, given
\* up in reassembly or has no mbuf.  For pools of every size and any traffic.
THEOREM EveryMbufHasOnePlace == Spec => []EachInOnePlace
BY AlwaysPlaced, PlacedMeans, PTL

-----------------------------------------------------------------------------
(* The data of the mbufs *)

BufFields == {"data_off", "data_len", "pkt_len", "proto", "data"}

\* The data of an mbuf lie inside its buffer.
Sound(b) ==
  /\ DOMAIN b = BufFields /\ b.data_off \in Nat /\ b.data_len \in Nat
  /\ b.data_off + b.data_len <= BUF_LEN /\ b.pkt_len = b.data_len

\* The operations of rte_mbuf.h keep them there.
LEMMA SoundReset ==
  ASSUME NEW b, Sound(b)
  PROVE  Sound(Reset(b)) /\ Reset(b).data_off = HEADROOM /\ Reset(b).data_len = 0
BY DEF Sound, Reset, BufFields, HEADROOM, BUF_LEN

LEMMA SoundAppended ==
  ASSUME NEW b, Sound(b), NEW len \in Nat
  PROVE  /\ Sound(Appended(b, len))
         /\ CanAppend(b, len) => Appended(b, len).data_len = b.data_len + len
BY DEF Sound, Appended, CanAppend, Tailroom, Headroom, BufFields, BUF_LEN

LEMMA SoundAdjusted ==
  ASSUME NEW b, Sound(b), NEW len \in Nat
  PROVE  Sound(Adjusted(b, len)) /\ Adjusted(b, len).data = b.data
BY DEF Sound, Adjusted, BufFields, BUF_LEN

LEMMA SoundData ==
  ASSUME NEW b, Sound(b), NEW d
  PROVE  /\ Sound([b EXCEPT !.data = d]) /\ [b EXCEPT !.data = d].data = d
         /\ [b EXCEPT !.data = d].data_len = b.data_len
BY DEF Sound, BufFields

LEMMA SoundProto ==
  ASSUME NEW b, Sound(b), NEW d
  PROVE  /\ Sound([b EXCEPT !.proto = d]) /\ [b EXCEPT !.proto = d].data = b.data
         /\ [b EXCEPT !.proto = d].data_len = b.data_len
BY DEF Sound, BufFields

\* Reset and filled with len bytes that fit.
LEMMA SoundFilled ==
  ASSUME NEW b, Sound(b), NEW len \in Nat, NEW d
  PROVE  /\ Sound([Appended(Reset(b), len) EXCEPT !.data = d])
         /\ [Appended(Reset(b), len) EXCEPT !.data = d].data = d
         /\ len <= BUF_LEN - HEADROOM => [Appended(Reset(b), len) EXCEPT !.data = d].data_len = len
<1> DEFINE r == Reset(b)
           a == Appended(r, len)
<1>1. Sound(r) /\ r.data_off = HEADROOM /\ r.data_len = 0
  BY SoundReset
<1> HIDE DEF r
<1>2. Sound(a) /\ (CanAppend(r, len) => a.data_len = r.data_len + len)
  BY <1>1, SoundAppended
<1>3. len <= BUF_LEN - HEADROOM => CanAppend(r, len)
  BY <1>1 DEF CanAppend, Tailroom, Headroom, HEADROOM, BUF_LEN
<1> HIDE DEF a
<1>4. /\ Sound([a EXCEPT !.data = d]) /\ [a EXCEPT !.data = d].data = d
      /\ [a EXCEPT !.data = d].data_len = a.data_len
  BY <1>2, SoundData
<1>5. QED
  BY <1>1, <1>2, <1>3, <1>4 DEF a, r

\* A GSE packet of a packet as it was received, and such a packet.
Carried == [id: Nat \X Nat, kind: {"whole", "start", "more"}, len: Nat, proto: STRING]
Packet == [port: Port, type: STRING, len: Nat, pdus: Seq(Carried)]
Carries(d) == d \in Packet

\* The mbufs with received packets, and those with frames to be sent.
InFront ==
  ({recv[0], recv[1], decap.frame} \cup ToSet(rcv_ring[0]) \cup ToSet(rcv_ring[1])) \ {None}
ToBeSent == (ToSet(snd_bb_ring) \cup {snd}) \ {None}

\* What the invariant DataInside needs to be inductive.
Filled ==
  /\ DOMAIN buf = AllMbufs
  /\ \A m \in AllMbufs : Sound(buf[m])
  /\ \A m \in InFront : Carries(buf[m].data)
  /\ \A m \in ToBeSent : buf[m].data_len = FrameSize
  /\ enc.pdu # None => buf[enc.pdu].data_len < PDU_BUFFER_SIZE
  /\ enc.send # None => buf[enc.send].data_len = buf[enc.pdu].data_len + ETHER_HDR
  /\ decap.next \in Nat \ {0} /\ got \in Seq(Packet)

\* Lists that differ from the places only in what is in the pools and in frag_info.
SameFront(X) == OnePlace(X) /\ \A p \in 1 .. 13 : X[p] = Lists[p]

\* What is in two different places is different.
LEMMA ApartIn ==
  ASSUME NEW X, SameFront(X)
  PROVE  /\ \A q \in 14 .. 17 : \A m \in ToSet(X[q]) :
              m \in AllMbufs /\ m \notin InFront /\ m \notin ToBeSent /\ m # enc.pdu /\ m # enc.send
         /\ \A q \in 14 .. 16 : \A m \in ToSet(X[q]) : m \notin ToSet(X[17])
         /\ \A q \in Port : \A m \in ToSet(rcv_ring[q]) :
              m \notin ToBeSent /\ m # enc.pdu /\ m # enc.send /\ m \notin ToSet(X[17])
<1> DEFINE L == X
           In(m, p) == \E i \in 1 .. Len(L[p]) : L[p][i] = m
<1>1. OnePlace(L)
  BY DEF SameFront
<1>2. /\ L[1] = Hand(recv[0]) /\ L[2] = Hand(recv[1]) /\ L[3] = Hand(decap.frame)
      /\ L[5] = Hand(enc.pdu) /\ L[6] = Hand(enc.send) /\ L[7] = Hand(snd)
      /\ L[9] = rcv_ring[0] /\ L[10] = rcv_ring[1] /\ L[13] = snd_bb_ring
  <2>1. \A p \in 1 .. 13 : X[p] = Lists[p]
    BY DEF SameFront
  <2>2. /\ Lists[1] = Hand(recv[0]) /\ Lists[2] = Hand(recv[1]) /\ Lists[3] = Hand(decap.frame)
        /\ Lists[5] = Hand(enc.pdu) /\ Lists[6] = Hand(enc.send) /\ Lists[7] = Hand(snd)
        /\ Lists[9] = rcv_ring[0] /\ Lists[10] = rcv_ring[1] /\ Lists[13] = snd_bb_ring
    BY DEF Lists
  <2>3. QED
    BY <2>1, <2>2
<1> HIDE DEF L
<1>3. \A m, k : L[k] = Hand(m) /\ m # None => In(m, k)
  <2> SUFFICES ASSUME NEW m, NEW k, L[k] = Hand(m), m # None PROVE In(m, k)
    OBVIOUS
  <2>1. L[k] = <<m>>
    BY DEF Hand
  <2>2. Len(L[k]) = 1 /\ L[k][1] = m
    BY <2>1
  <2>3. 1 \in 1 .. Len(L[k])
    BY <2>2
  <2>4. QED
    BY <2>2, <2>3
<1>4. \A p \in Place : \A m \in ToSet(L[p]) : m \in AllMbufs /\ m # None /\ In(m, p)
  <2>1. \A p \in Place : L[p] \in Seq(AllMbufs)
    BY <1>1 DEF OnePlace
  <2>2. QED
    BY <2>1, PoolFacts DEF ToSet
<1>5. \A p, q \in Place : \A m : In(m, p) /\ In(m, q) => p = q
  <2> SUFFICES ASSUME NEW p \in Place, NEW q \in Place, NEW m, In(m, p), In(m, q) PROVE p = q
    OBVIOUS
  <2>1. PICK i \in 1 .. Len(L[p]) : L[p][i] = m
    OBVIOUS
  <2>2. PICK j \in 1 .. Len(L[q]) : L[q][j] = m
    OBVIOUS
  <2>3. L[p][i] = L[q][j]
    BY <2>1, <2>2
  <2> HIDE DEF In
  <2>4. QED
    BY <1>1, <2>3 DEF OnePlace
<1>6. /\ 1 \in Place /\ 2 \in Place /\ 3 \in Place /\ 5 \in Place /\ 6 \in Place /\ 7 \in Place
      /\ 9 \in Place /\ 10 \in Place /\ 13 \in Place /\ 17 \in Place
      /\ \A q \in 14 .. 17 : q \in Place /\ q \notin {1, 2, 3, 5, 6, 7, 9, 10, 13}
      /\ \A q \in 14 .. 16 : q \in Place /\ q # 17
  BY DEF Place
<1> HIDE DEF In
<1>7. /\ recv[0] # None => In(recv[0], 1)
      /\ recv[1] # None => In(recv[1], 2)
      /\ decap.frame # None => In(decap.frame, 3)
      /\ enc.pdu # None => In(enc.pdu, 5)
      /\ enc.send # None => In(enc.send, 6)
      /\ snd # None => In(snd, 7)
  BY <1>2, <1>3
<1>8. \A m \in InFront : In(m, 1) \/ In(m, 2) \/ In(m, 3) \/ In(m, 9) \/ In(m, 10)
  BY <1>2, <1>4, <1>6, <1>7 DEF InFront
<1>9. \A m \in ToBeSent : In(m, 7) \/ In(m, 13)
  BY <1>2, <1>4, <1>6, <1>7 DEF ToBeSent
<1>10. ASSUME NEW q \in 14 .. 17, NEW m \in ToSet(L[q])
       PROVE  m \in AllMbufs /\ m \notin InFront /\ m \notin ToBeSent /\ m # enc.pdu /\ m # enc.send
  <2>1. In(m, q) /\ m # None /\ m \in AllMbufs
    BY <1>4, <1>6
  <2>2. \A p \in {1, 2, 3, 5, 6, 7, 9, 10, 13} : ~ In(m, p)
    BY <1>5, <1>6, <2>1
  <2>3. QED
    BY <1>7, <1>8, <1>9, <2>1, <2>2
<1>11. ASSUME NEW q \in 14 .. 16, NEW m \in ToSet(L[q]) PROVE m \notin ToSet(L[17])
  BY <1>4, <1>5, <1>6
<1>12. ASSUME NEW m, m # None, In(m, 9) \/ In(m, 10)
       PROVE  m \notin ToBeSent /\ m # enc.pdu /\ m # enc.send /\ m \notin ToSet(L[17])
  BY <1>4, <1>5, <1>6, <1>7, <1>9, <1>12
<1>13. \A q \in Port : \A m \in ToSet(rcv_ring[q]) : m # None /\ (In(m, 9) \/ In(m, 10))
  <2>1. \A m \in ToSet(rcv_ring[0]) : m # None /\ In(m, 9)
    BY <1>2, <1>4, <1>6
  <2>2. \A m \in ToSet(rcv_ring[1]) : m # None /\ In(m, 10)
    BY <1>2, <1>4, <1>6
  <2>3. QED
    BY <2>1, <2>2 DEF Port
<1>14. \A q \in Port : \A m \in ToSet(rcv_ring[q]) :
         m \notin ToBeSent /\ m # enc.pdu /\ m # enc.send /\ m \notin ToSet(L[17])
  BY <1>12, <1>13
<1>15. QED
  BY <1>10, <1>11, <1>14 DEF L

\* What is taken for unfinished PDUs.
Held == ToSet(decap.held)

\* So it is with the places themselves.
LEMMA Apart ==
  ASSUME Placed
  PROVE  /\ \A P \in Pools : \A m \in ToSet(free[P]) :
              /\ m \in AllMbufs /\ m \notin InFront /\ m \notin ToBeSent
              /\ m # enc.pdu /\ m # enc.send /\ m \notin Held
         /\ \A q \in Port : \A m \in ToSet(rcv_ring[q]) :
              m \notin ToBeSent /\ m # enc.pdu /\ m # enc.send /\ m \notin Held
<1> DEFINE L == Lists
<1>1. SameFront(L)
  BY DEF SameFront, Placed
<1>2. /\ L[14] = free[RcvMbuf] /\ L[15] = free[DecapMbuf] /\ L[16] = free[EncapMbuf]
      /\ L[17] = decap.held
  BY DEF Lists
<1>3. /\ 14 \in 14 .. 17 /\ 15 \in 14 .. 17 /\ 16 \in 14 .. 17
      /\ 14 \in 14 .. 16 /\ 15 \in 14 .. 16 /\ 16 \in 14 .. 16
  OBVIOUS
<1> HIDE DEF L
<1>4. /\ \A q \in 14 .. 17 : \A m \in ToSet(L[q]) :
           m \in AllMbufs /\ m \notin InFront /\ m \notin ToBeSent /\ m # enc.pdu /\ m # enc.send
      /\ \A q \in 14 .. 16 : \A m \in ToSet(L[q]) : m \notin ToSet(L[17])
      /\ \A q \in Port : \A m \in ToSet(rcv_ring[q]) :
           m \notin ToBeSent /\ m # enc.pdu /\ m # enc.send /\ m \notin ToSet(L[17])
  BY <1>1, ApartIn
<1>5. \A P \in Pools : \E q \in {14, 15, 16} : free[P] = L[q]
  BY <1>2, PoolFacts
<1>6. \A q \in {14, 15, 16} : q \in 14 .. 17 /\ q \in 14 .. 16
  BY <1>3
<1>7. QED
  BY <1>2, <1>4, <1>5, <1>6 DEF Held

\* What is in a sequence after something is added or taken.
LEMMA SetAfter ==
  ASSUME NEW S, NEW s \in Seq(S)
  PROVE  /\ \A m : ToSet(Append(s, m)) = ToSet(s) \cup {m}
         /\ s # <<>> => Head(s) \in ToSet(s) /\ ToSet(Tail(s)) \subseteq ToSet(s)
<1>1. Len(s) \in Nat /\ DOMAIN s = 1 .. Len(s)
  OBVIOUS
<1>2. ASSUME NEW m PROVE ToSet(Append(s, m)) = ToSet(s) \cup {m}
  <2>1. /\ DOMAIN Append(s, m) = 1 .. Len(s) + 1 /\ Append(s, m)[Len(s) + 1] = m
        /\ \A i \in 1 .. Len(s) : Append(s, m)[i] = s[i]
    OBVIOUS
  <2> DEFINE a == Append(s, m)
  <2> HIDE DEF a
  <2>2. \A i : i \in 1 .. Len(s) + 1 <=> i \in 1 .. Len(s) \/ i = Len(s) + 1
    BY <1>1
  <2>3. QED
    BY <1>1, <2>1, <2>2 DEF ToSet
<1>3. ASSUME s # <<>> PROVE Head(s) \in ToSet(s) /\ ToSet(Tail(s)) \subseteq ToSet(s)
  <2>1. 1 \in DOMAIN s /\ Head(s) = s[1]
    BY <1>3
  <2>2. \A i \in DOMAIN Tail(s) : i + 1 \in DOMAIN s /\ Tail(s)[i] = s[i + 1]
    BY <1>3
  <2>3. QED
    BY <2>1, <2>2 DEF ToSet
<1>4. QED
  BY <1>2, <1>3

\* An mbuf that a pool gives is nowhere else.
LEMMA GivenApart ==
  ASSUME Placed, NEW P \in Pools, NEW m \in Get(free[P])
  PROVE  /\ m \in AllMbufs /\ m \notin InFront /\ m \notin ToBeSent
         /\ m # enc.pdu /\ m # enc.send /\ m \notin Held
<1>1. free[P] # <<>> /\ m = Head(free[P]) /\ m \in AllMbufs /\ free[P] \in Seq(AllMbufs)
  BY Given, InLists
<1>2. m \in ToSet(free[P])
  BY <1>1, SetAfter
<1>3. QED
  BY <1>1, <1>2, Apart

\* Steps that modify no mbuf: none comes among the received or sent ones.
LEMMA KeptFilled ==
  ASSUME Filled, buf' = buf, InFront' \subseteq InFront, ToBeSent' \subseteq ToBeSent,
         enc'.pdu # None => buf[enc'.pdu].data_len < PDU_BUFFER_SIZE,
         enc'.send # None => enc'.send = enc.send /\ enc'.pdu = enc.pdu,
         decap'.next \in Nat \ {0}, got' = got
  PROVE  Filled'
BY DEF Filled

\* Steps that modify the mbuf m only.
LEMMA OtherFilled ==
  ASSUME Filled, NEW m \in AllMbufs, NEW b, Sound(b), buf' = [buf EXCEPT ![m] = b],
         m \notin InFront \/ b.data = buf[m].data,
         m \notin ToBeSent, m # enc.pdu, m # enc.send,
         \A n \in InFront' : n \in InFront \/ (n = m /\ Carries(b.data)),
         \A n \in ToBeSent' : n \in ToBeSent \/ (n = m /\ b.data_len = FrameSize),
         enc'.pdu = enc.pdu \/ enc'.pdu = None,
         \/ enc'.send = None
         \/ enc'.send = enc.send /\ enc'.pdu = enc.pdu /\ enc.pdu # None
         \/ enc'.send = m /\ enc'.pdu = enc.pdu /\ enc.pdu \in AllMbufs
            /\ b.data_len = buf[enc.pdu].data_len + ETHER_HDR,
         InFront \cup ToBeSent \subseteq AllMbufs,
         enc.pdu # None => enc.pdu \in AllMbufs, enc.send # None => enc.send \in AllMbufs,
         decap'.next \in Nat \ {0}, got' \in Seq(Packet)
  PROVE  Filled'
<1>1. DOMAIN buf' = AllMbufs /\ buf'[m] = b /\ \A n \in AllMbufs : n # m => buf'[n] = buf[n]
  BY DEF Filled
<1>2. \A n \in AllMbufs : Sound(buf'[n])
  BY <1>1 DEF Filled
<1>3. \A n \in InFront' : Carries(buf'[n].data)
  <2> SUFFICES ASSUME NEW n \in InFront' PROVE Carries(buf'[n].data)
    OBVIOUS
  <2>1. CASE n = m
    BY <1>1, <2>1 DEF Filled
  <2>2. CASE n # m
    BY <1>1, <2>2 DEF Filled
  <2>3. QED
    BY <2>1, <2>2
<1>4. \A n \in ToBeSent' : buf'[n].data_len = FrameSize
  BY <1>1 DEF Filled
<1>5. enc'.pdu # None => buf'[enc'.pdu].data_len < PDU_BUFFER_SIZE
  BY <1>1 DEF Filled
<1>6. enc'.send # None => buf'[enc'.send].data_len = buf'[enc'.pdu].data_len + ETHER_HDR
  BY <1>1 DEF Filled
<1>7. QED
  BY <1>1, <1>2, <1>3, <1>4, <1>5, <1>6 DEF Filled

\* What is received or to be sent are mbufs.
LEMMA SomeMbufs ==
  ASSUME Placed
  PROVE  InFront \cup ToBeSent \subseteq AllMbufs /\ None \notin AllMbufs
<1>1. \A s \in Seq(AllMbufs) : ToSet(s) \subseteq AllMbufs
  BY DEF ToSet
<1>2. QED
  BY <1>1, InLists, PoolFacts DEF InFront, ToBeSent, Port

\* The n-th packet, of the traffic that is assumed.
LEMMA StampCarries ==
  ASSUME NEW t \in Traffic, NEW n \in Nat
  PROVE  Stamp(t, n) \in Packet
<1> DEFINE e == [k \in DOMAIN t.pdus |->
                   [id |-> <<n, k>>, kind |-> t.pdus[k].kind, len |-> t.pdus[k].len,
                    proto |-> t.pdus[k].proto]]
           N == Len(t.pdus)
<1>1. t.len \in Nat /\ t.port \in Port /\ t.type \in STRING /\ t.pdus \in Seq(Pdu)
  BY PipelineAssumption
<1>2. /\ N \in Nat /\ DOMAIN t.pdus = 1 .. N
      /\ \A k \in 1 .. N : /\ t.pdus[k].kind \in {"whole", "start", "more"}
                            /\ t.pdus[k].len \in Nat /\ t.pdus[k].proto \in STRING
  <2> DEFINE s == t.pdus
  <2>1. s \in Seq(Pdu)
    BY <1>1
  <2>2. \A x \in Pdu : /\ x.kind \in {"whole", "start", "more"}
                        /\ x.len \in Nat /\ x.proto \in STRING
    BY DEF Pdu
  <2> HIDE DEF s
  <2>3. /\ Len(s) \in Nat /\ DOMAIN s = 1 .. Len(s)
        /\ \A k \in 1 .. Len(s) : s[k] \in Pdu
    BY <2>1
  <2>4. QED
    BY <2>2, <2>3 DEF s
<1>3. \A k \in 1 .. N : <<n, k>> \in Nat \X Nat
  BY <1>2
<1>4. e \in [1 .. N -> Carried]
  <2>1. ASSUME NEW k \in 1 .. N PROVE e[k] \in Carried
    <3> DEFINE x == <<n, k>>
               d == t.pdus[k]
    <3>1. x \in Nat \X Nat /\ d.kind \in {"whole", "start", "more"} /\ d.len \in Nat
          /\ d.proto \in STRING
      BY <1>2, <1>3
    <3>2. e[k] = [id |-> x, kind |-> d.kind, len |-> d.len, proto |-> d.proto]
      BY <1>2
    <3> HIDE DEF e, x, d
    <3>3. QED
      BY <3>1, <3>2 DEF Carried
  <2>2. DOMAIN e = 1 .. N /\ e = [k \in 1 .. N |-> e[k]]
    BY <1>2
  <2> HIDE DEF e
  <2>3. QED
    BY <2>1, <2>2
<1>5. e \in Seq(Carried)
  BY <1>2, <1>4
<1>6. Stamp(t, n) = [port |-> t.port, type |-> t.type, len |-> t.len, pdus |-> e]
  BY DEF Stamp
<1> HIDE DEF e
<1>7. QED
  BY <1>1, <1>5, <1>6 DEF Packet

\* A packet is put into a new mbuf.
LEMMA PcapFilled ==
  ASSUME Placed, Filled, NEW p \in Port, read_pcap(p)
  PROVE  Filled'
<1>1. /\ rcv_ring' = rcv_ring /\ snd_bb_ring' = snd_bb_ring /\ decap' = decap /\ enc' = enc
      /\ snd' = snd /\ (p = 0 \/ p = 1) /\ RcvMbuf \in Pools
  BY PoolFacts DEF read_pcap, rings, Port
<1>2. ToBeSent' = ToBeSent
  BY <1>1 DEF ToBeSent
<1>3. /\ InFront \cup ToBeSent \subseteq AllMbufs
      /\ enc.pdu # None => enc.pdu \in AllMbufs
      /\ enc.send # None => enc.send \in AllMbufs
      /\ enc.send # None => enc.pdu # None
  BY SomeMbufs, InLists DEF Placed, Shape
<1> DEFINE pkt(t) == Stamp(t, Len(got) + 1)
<1>4. ASSUME NEW t \in Traffic
      PROVE  pkt(t) \in Packet /\ pkt(t).len \in Nat /\ Append(got, pkt(t)) \in Seq(Packet)
  <2>1. got \in Seq(Packet)
    BY DEF Filled
  <2>2. pkt(t) \in Packet
    BY <2>1, StampCarries
  <2> HIDE DEF pkt
  <2>3. pkt(t).len \in Nat
    BY <2>2 DEF Packet
  <2>4. QED
    BY <2>1, <2>2, <2>3
<1>5. decap'.next \in Nat \ {0}
  BY <1>1 DEF Filled
<1> HIDE DEF pkt
<1>6. ASSUME NEW t \in Traffic, got' = Append(got, pkt(t)), UNCHANGED <<buf, recv>>
      PROVE  Filled'
  <2>1. InFront' = InFront
    BY <1>1, <1>6 DEF InFront
  <2>2. QED
    BY <1>1, <1>2, <1>4, <1>6, <2>1 DEF Filled
<1>7. ASSUME NEW t \in Traffic, got' = Append(got, pkt(t)), NEW m \in Get(free[RcvMbuf]),
             recv' = [recv EXCEPT ![p] = m],
             buf' = [buf EXCEPT ![m] = [Appended(Reset(buf[m]), pkt(t).len) EXCEPT !.data = pkt(t)]]
      PROVE  Filled'
  <2> DEFINE b == [Appended(Reset(buf[m]), pkt(t).len) EXCEPT !.data = pkt(t)]
  <2>1. m \in AllMbufs /\ m \notin InFront /\ m \notin ToBeSent /\ m # enc.pdu /\ m # enc.send
    BY <1>1, GivenApart
  <2>2. Sound(b) /\ b.data = pkt(t)
    <3> DEFINE x == buf[m]
               len == pkt(t).len
               d == pkt(t)
    <3>1. Sound(x) /\ len \in Nat
      BY <1>4, <2>1 DEF Filled
    <3>2. b = [Appended(Reset(x), len) EXCEPT !.data = d]
      OBVIOUS
    <3> HIDE DEF x, len, d, b
    <3>3. Sound(b) /\ b.data = d
      BY <3>1, <3>2, SoundFilled
    <3>4. QED
      BY <3>3 DEF d
  <2>3. \A n \in InFront' : n \in InFront \/ n = m
    BY <1>1, <1>7 DEF InFront, Placed, Shape, Port
  <2>4. buf' = [buf EXCEPT ![m] = b]
    BY <1>7
  <2> HIDE DEF b
  <2>5. got' \in Seq(Packet) /\ Carries(b.data)
    BY <1>4, <1>7, <2>2 DEF Carries
  <2>6. QED
    BY <1>1, <1>2, <1>3, <1>5, <2>1, <2>2, <2>3, <2>4, <2>5, OtherFilled
<1>8. ASSUME NEW t \in Traffic, got' = Append(got, pkt(t)), NEW m \in Get(free[RcvMbuf]),
             recv' = recv, buf' = [buf EXCEPT ![m] = Reset(buf[m])]
      PROVE  Filled'
  <2> DEFINE b == Reset(buf[m])
  <2>1. m \in AllMbufs /\ m \notin InFront /\ m \notin ToBeSent /\ m # enc.pdu /\ m # enc.send
    BY <1>1, GivenApart
  <2>2. Sound(b)
    BY <2>1, SoundReset DEF Filled
  <2>3. InFront' = InFront
    BY <1>1, <1>8 DEF InFront
  <2>4. buf' = [buf EXCEPT ![m] = b] /\ got' \in Seq(Packet)
    BY <1>4, <1>8
  <2> HIDE DEF b
  <2>5. QED
    BY <1>1, <1>2, <1>3, <1>5, <2>1, <2>2, <2>3, <2>4, OtherFilled
<1>9. QED
  BY <1>6, <1>7, <1>8 DEF read_pcap, pkt

\* A receive thread passes its mbuf on.
LEMMA ReceiveFilled ==
  ASSUME Placed, Filled, NEW p \in Port, receive_msg_thread(p)
  PROVE  Filled'
<1>1. /\ buf' = buf /\ snd_bb_ring' = snd_bb_ring /\ decap' = decap /\ enc' = enc /\ snd' = snd
      /\ got' = got /\ recv[p] # None /\ (p = 0 \/ p = 1)
  BY DEF receive_msg_thread, Port
<1>2. /\ recv'[0] = (IF p = 0 THEN None ELSE recv[0])
      /\ recv'[1] = (IF p = 1 THEN None ELSE recv[1])
  BY DEF receive_msg_thread, Placed, Shape, Port
<1>3. /\ \A m : ToSet(Append(rcv_ring[0], m)) = ToSet(rcv_ring[0]) \cup {m}
      /\ \A m : ToSet(Append(rcv_ring[1], m)) = ToSet(rcv_ring[1]) \cup {m}
  BY InLists, SetAfter DEF Port
<1>4. /\ rcv_ring'[0] = rcv_ring[0] \/ (p = 0 /\ rcv_ring'[0] = Append(rcv_ring[0], recv[0]))
      /\ rcv_ring'[1] = rcv_ring[1] \/ (p = 1 /\ rcv_ring'[1] = Append(rcv_ring[1], recv[1]))
  BY DEF receive_msg_thread, Placed, Shape, Port
<1>5. ToSet(rcv_ring'[0]) \subseteq ToSet(rcv_ring[0]) \cup {recv[0]}
      /\ ToSet(rcv_ring'[1]) \subseteq ToSet(rcv_ring[1]) \cup {recv[1]}
  BY <1>3, <1>4
<1>6. InFront' \subseteq InFront
  BY <1>1, <1>2, <1>5 DEF InFront
<1>7. ToBeSent' = ToBeSent
  BY <1>1 DEF ToBeSent
<1>8. QED
  BY <1>1, <1>6, <1>7, KeptFilled DEF Filled

\* The decapsulation thread cuts a header off.
LEMMA DecapPollFilled ==
  ASSUME Placed, Filled, DecapPoll
  PROVE  Filled'
<1> DEFINE i == decap.turn
           s == rcv_ring[i]
           m == Head(s)
<1>1. /\ i \in Port /\ (i = 0 \/ i = 1) /\ decap.frame = None
      /\ DOMAIN decap = {"turn", "frame", "next", "held"}
      /\ snd_bb_ring' = snd_bb_ring /\ recv' = recv /\ enc' = enc /\ snd' = snd /\ got' = got
  BY DEF DecapPoll, Placed, Shape, Port
<1>2. ToBeSent' = ToBeSent
  BY <1>1 DEF ToBeSent
<1>3. /\ InFront \cup ToBeSent \subseteq AllMbufs /\ None \notin AllMbufs
      /\ enc.pdu # None => enc.pdu \in AllMbufs
      /\ enc.send # None => enc.send \in AllMbufs
      /\ enc.send # None => enc.pdu # None
  BY SomeMbufs, InLists DEF Placed, Shape
<1>4. CASE decap' = [decap EXCEPT !.turn = 1 - i] /\ UNCHANGED <<buf, rcv_ring>>
  <2>1. decap'.frame = decap.frame /\ decap'.held = decap.held /\ decap'.next = decap.next
    BY <1>1, <1>4
  <2>2. InFront' = InFront
    BY <1>1, <1>4, <2>1 DEF InFront
  <2>3. QED
    BY <1>1, <1>2, <1>4, <2>1, <2>2, KeptFilled DEF Filled
<1>5. ASSUME s # <<>>, process_frame_header(m, i), rcv_ring' = [rcv_ring EXCEPT ![i] = Tail(@)]
      PROVE  Filled'
  <2>1. s \in Seq(AllMbufs)
    BY <1>1, InLists
  <2>2. m \in AllMbufs /\ m \in ToSet(s) /\ ToSet(Tail(s)) \subseteq ToSet(s)
    BY <1>5, <2>1, SetAfter
  <2>3. m \in InFront /\ m # None
    <3>1. ToSet(s) \subseteq ToSet(rcv_ring[0]) \cup ToSet(rcv_ring[1])
      BY <1>1
    <3>2. QED
      BY <1>3, <2>2, <3>1 DEF InFront
  <2>4. m \notin ToBeSent /\ m # enc.pdu /\ m # enc.send
    BY <1>1, <2>2, Apart
  <2>5. ToSet(rcv_ring'[0]) \subseteq ToSet(rcv_ring[0])
        /\ ToSet(rcv_ring'[1]) \subseteq ToSet(rcv_ring[1])
    <3>1. DOMAIN rcv_ring = Port
      BY DEF Placed, Shape
    <3>2. /\ rcv_ring'[0] = rcv_ring[0] \/ (i = 0 /\ rcv_ring'[0] = Tail(s))
          /\ rcv_ring'[1] = rcv_ring[1] \/ (i = 1 /\ rcv_ring'[1] = Tail(s))
      BY <1>1, <1>5, <3>1 DEF Port
    <3>3. QED
      BY <2>2, <3>2
  <2>6. decap'.frame \in {None, m} /\ decap'.next \in Nat \ {0}
    <3> DEFINE d1 == [decap EXCEPT !.frame = m, !.next = 1]
               d2 == [decap EXCEPT !.turn = 1 - i]
    <3>1. decap.next \in Nat \ {0}
      BY DEF Filled
    <3>2. d1.frame = m /\ d1.next = 1 /\ d2.frame = None /\ d2.next = decap.next
      BY <1>1
    <3>3. decap' = d1 \/ decap' = d2
      BY <1>5 DEF process_frame_header
    <3> HIDE DEF d1, d2, m
    <3>4. QED
      BY <3>1, <3>2, <3>3
  <2>7. InFront' \subseteq InFront
    BY <1>1, <2>3, <2>5, <2>6 DEF InFront
  <2>8. CASE buf' = buf
    BY <1>1, <1>2, <2>6, <2>7, <2>8, KeptFilled DEF Filled
  <2>9. ASSUME NEW b, buf' = [buf EXCEPT ![m] = b], Sound(b), b.data = buf[m].data
        PROVE  Filled'
    <3>1. got' \in Seq(Packet)
      BY <1>1 DEF Filled
    <3> HIDE DEF m
    <3>2. QED
      BY <1>1, <1>2, <1>3, <2>2, <2>4, <2>6, <2>7, <2>9, <3>1, OtherFilled
  <2>10. CASE buf' = [buf EXCEPT ![m] = [Adjusted(@, ETHER_HDR) EXCEPT !.proto = buf[m].data.type]]
    <3> DEFINE a == Adjusted(buf[m], ETHER_HDR)
               y == buf[m].data.type
               b == [a EXCEPT !.proto = y]
    <3>1. Sound(a) /\ a.data = buf[m].data
      BY <2>2, SoundAdjusted DEF Filled, ETHER_HDR
    <3> HIDE DEF a, y
    <3>2. Sound(b) /\ b.data = a.data
      BY <3>1, SoundProto
    <3>3. buf' = [buf EXCEPT ![m] = b]
      BY <2>10 DEF a, y
    <3> HIDE DEF b
    <3>4. QED
      BY <2>9, <3>1, <3>2, <3>3
  <2>11. CASE buf' = [buf EXCEPT ![m] = Adjusted(@, L2L1_MSG_HEADER)]
    <3> DEFINE b == Adjusted(buf[m], L2L1_MSG_HEADER)
    <3>1. Sound(b) /\ b.data = buf[m].data
      BY <2>2, SoundAdjusted DEF Filled, L2L1_MSG_HEADER
    <3>2. buf' = [buf EXCEPT ![m] = b]
      BY <2>11
    <3> HIDE DEF b
    <3>3. QED
      BY <2>9, <3>1, <3>2
  <2>12. QED
    BY <1>5, <2>8, <2>10, <2>11 DEF process_frame_header
<1>6. QED
  BY <1>4, <1>5 DEF DecapPoll

\* The mbuf b is of the GSE packet d.
Holds(b, d) == b.data = <<d>> /\ b.data_len = d.len /\ b.proto = d.proto

\* An mbuf in frag_info is filled for its PDU.
HeldRight == \A m \in Held : \E d \in Carried : Holds(buf[m], d)

\* m is the first in frag_info, or in the pool, when one arranges these so.
Taking(X, q, m) == SameFront(X) /\ q \in {15, 17} /\ X[q] # <<>> /\ m = Head(X[q])

\* What a GSE packet d may do to the mbufs: nothing, or m is modified, which may then be
\* held, if it was not before, or go on.
NoneTaken == buf' = buf /\ encap_ring' = encap_ring /\ Held' \subseteq Held
OneTaken(X, q, m, b, d) ==
  /\ Taking(X, q, m) /\ Sound(b) /\ buf' = [buf EXCEPT ![m] = b]
  /\ \A n \in Held' : (n \in Held /\ n # m) \/ (n = m /\ Holds(b, d))
  /\ encap_ring' = encap_ring \/ (encap_ring' = Enqueued(m) /\ Holds(b, d))
TakenBy(d) == \E X, q, m, b : OneTaken(X, q, m, b, d)

\* Such an mbuf is nowhere else.
LEMMA TakingApart ==
  ASSUME NEW X, NEW q, NEW m, Taking(X, q, m)
  PROVE  /\ m \in AllMbufs /\ m \notin InFront /\ m \notin ToBeSent /\ m # enc.pdu /\ m # enc.send
         /\ q = 15 => m \notin ToSet(X[17])
         /\ q = 17 => m \notin ToSet(Tail(X[17]))
<1>1. /\ SameFront(X) /\ OnePlace(X) /\ q \in {15, 17} /\ X[q] # <<>> /\ m = Head(X[q])
      /\ q \in Place
  BY DEF Taking, SameFront, Place
<1>2. X[q] \in Seq(AllMbufs)
  BY <1>1 DEF OnePlace
<1>3. m \in ToSet(X[q])
  BY <1>1, <1>2, SetAfter
<1>4. q \in 14 .. 17 /\ (q = 15 => q \in 14 .. 16)
  BY <1>1
<1>5. /\ m \in AllMbufs /\ m \notin InFront /\ m \notin ToBeSent /\ m # enc.pdu /\ m # enc.send
      /\ q = 15 => m \notin ToSet(X[17])
  BY <1>1, <1>3, <1>4, ApartIn
<1>6. ASSUME q = 17 PROVE m \notin ToSet(Tail(X[17]))
  <2> DEFINE t == X[17]
  <2>1. t \in Seq(AllMbufs) /\ t # <<>> /\ m = t[1]
    BY <1>1, <1>2, <1>6
  <2>2. \A i, j \in 1 .. Len(t) : t[i] = t[j] => i = j
    BY <1>1, <1>6 DEF OnePlace
  <2> HIDE DEF t
  <2>3. Len(t) \in Nat /\ 1 \in 1 .. Len(t) /\ DOMAIN Tail(t) = 1 .. Len(t) - 1
        /\ \A i \in 1 .. Len(t) - 1 : Tail(t)[i] = t[i + 1]
    BY <2>1
  <2>4. \A i \in 1 .. Len(t) - 1 : i + 1 \in 1 .. Len(t) /\ i + 1 # 1
    BY <2>3
  <2>5. \A i \in DOMAIN Tail(t) : Tail(t)[i] # m
    BY <2>1, <2>2, <2>3, <2>4
  <2>6. QED
    BY <2>5 DEF t, ToSet
<1>7. QED
  BY <1>5, <1>6

\* Without its k-th element a sequence has no more than before.
LEMMA FewerAfter ==
  ASSUME NEW S, NEW h \in Seq(S), NEW k \in 1 .. Len(h)
  PROVE  ToSet(RemoveAt(h, k)) \subseteq ToSet(h)
<1> DEFINE r == RemoveAt(h, k)
<1>1. /\ r \in Seq(S) /\ Len(r) = Len(h) - 1 /\ DOMAIN r = 1 .. Len(r)
      /\ \A i \in 1 .. Len(h) - 1 : r[i] = IF i < k THEN h[i] ELSE h[i + 1]
  <2>1. /\ r \in Seq(S) /\ Len(r) = Len(h) - 1
        /\ \A i \in 1 .. Len(h) - 1 : r[i] = IF i < k THEN h[i] ELSE h[i + 1]
    BY RemovedAt
  <2> HIDE DEF r
  <2>2. QED
    BY <2>1
<1> HIDE DEF r
<1>2. \A i \in 1 .. Len(h) - 1 : i \in DOMAIN h /\ i + 1 \in DOMAIN h
  OBVIOUS
<1>3. \A i \in DOMAIN r : \E j \in DOMAIN h : r[i] = h[j]
  BY <1>1, <1>2
<1>4. QED
  BY <1>3 DEF r, ToSet

\* The fields of decap behind a GSE packet.
LEMMA PassedFacts ==
  ASSUME Placed, NEW h, decap' = Passed(h)
  PROVE  /\ decap'.frame = decap.frame /\ decap'.next = decap.next + 1 /\ decap'.held = h
         /\ Held' = ToSet(h)
BY DEF Placed, Shape, Passed, Held

\* An mbuf from the pool, when an unfinished PDU may have been given up.
LEMMA DrawnTaking ==
  ASSUME Placed, NEW g \in GivenUp
  PROVE  /\ ToSet(g[2]) \subseteq Held
         /\ \A m \in Get(g[1][DecapMbuf]) :
              /\ Taking(InDecap(g[2], encap_ring[0], g[1]), 15, m)
              /\ m \notin ToSet(g[2])
<1> DEFINE e == encap_ring[0]
           X == InDecap(g[2], e, g[1])
<1>1. ToSet(g[2]) \subseteq Held
  <2>1. decap.held \in Seq(AllMbufs) /\ DOMAIN decap.held = 1 .. Len(decap.held)
    BY InLists
  <2>2. \/ g[2] = decap.held
        \/ \E k \in 1 .. Len(decap.held) : g[2] = RemoveAt(decap.held, k)
    BY <2>1 DEF GivenUp
  <2>3. \A k \in 1 .. Len(decap.held) : ToSet(RemoveAt(decap.held, k)) \subseteq ToSet(decap.held)
    BY <2>1, FewerAfter
  <2>4. QED
    BY <2>2, <2>3 DEF Held
<1>2. OnePlace(X)
  BY GivenUpStep
<1>3. \A p \in 1 .. 13 : X[p] = Lists[p]
  BY DEF InDecap, With2, Lists, Place
<1>4. X[15] = g[1][DecapMbuf] /\ X[17] = g[2]
  BY DecapPlaces
<1> HIDE DEF X
<1>5. ASSUME NEW m \in Get(g[1][DecapMbuf]) PROVE Taking(X, 15, m) /\ m \notin ToSet(g[2])
  <2>1. X[15] # <<>> /\ m = Head(X[15])
    BY <1>4 DEF Get
  <2>2. Taking(X, 15, m)
    BY <1>2, <1>3, <2>1 DEF Taking, SameFront
  <2>3. QED
    BY <1>4, <2>2, TakingApart
<1>6. QED
  BY <1>1, <1>5 DEF X

\* An mbuf of an unfinished PDU.
LEMMA HeldTaking ==
  ASSUME Placed, NEW k \in 1 .. Len(decap.held)
  PROVE  /\ ToSet(RemoveAt(decap.held, k)) \subseteq Held /\ decap.held[k] \in Held
         /\ decap.held[k] \notin ToSet(RemoveAt(decap.held, k))
         /\ \E X : Taking(X, 17, decap.held[k])
<1> DEFINE h == decap.held
           m == h[k]
           rm == RemoveAt(h, k)
           t == <<m>> \o rm
           Y == WithOnly(Lists, 17, t)
<1>1. h \in Seq(AllMbufs) /\ DOMAIN h = 1 .. Len(h)
  BY InLists
<1>2. ToSet(rm) \subseteq Held /\ m \in Held
  BY <1>1, FewerAfter DEF Held, ToSet
<1>3. OnePlace(Y) /\ t # <<>> /\ Head(t) = m /\ Tail(t) = rm
  BY HeldFirst
<1> HIDE DEF t, m, rm
<1>4. Y[17] = t /\ \A p \in 1 .. 13 : Y[p] = Lists[p]
  BY DEF WithOnly, Place
<1> HIDE DEF Y
<1>5. Taking(Y, 17, m)
  BY <1>3, <1>4 DEF Taking, SameFront
<1>6. m \notin ToSet(rm)
  BY <1>3, <1>4, <1>5, TakingApart
<1>7. QED
  BY <1>2, <1>5, <1>6 DEF m, rm, h

\* An mbuf that is filled for the PDU that d begins.
LEMMA InMbufHolds ==
  ASSUME NEW m, Sound(buf[m]), NEW d, d.len \in Nat
  PROVE  /\ Sound(InMbuf(m, d))
         /\ CanAppend(Reset(buf[m]), d.len) => Holds(InMbuf(m, d), d)
<1> DEFINE x == buf[m]
           len == d.len
           t == <<d>>
           a == [Appended(Reset(x), len) EXCEPT !.data = t]
           b == [a EXCEPT !.proto = d.proto]
<1>1. Sound(x) /\ len \in Nat
  OBVIOUS
<1>2. b = InMbuf(m, d)
  BY DEF InMbuf
<1> HIDE DEF x, t, len
<1>3. /\ Sound(a) /\ a.data = t
      /\ len <= BUF_LEN - HEADROOM => a.data_len = len
  BY <1>1, SoundFilled
<1>4. CanAppend(Reset(x), len) => len <= BUF_LEN - HEADROOM
  BY <1>1, SoundReset DEF CanAppend, Tailroom, Headroom, BUF_LEN, HEADROOM
<1> HIDE DEF a
<1>5. Sound(b) /\ b.data = a.data /\ b.data_len = a.data_len /\ b.proto = d.proto
  BY <1>3 DEF Sound, BufFields
<1> HIDE DEF b
<1>6. QED
  BY <1>2, <1>3, <1>4, <1>5 DEF x, len, t, Holds

\* A whole PDU.
LEMMA SingleTakes ==
  ASSUME Placed, Filled, NEW d \in Carried, get_single_pdu(d)
  PROVE  NoneTaken \/ TakenBy(d)
<1> DEFINE h == decap.held
           g == <<free, h>>
           X == InDecap(g[2], encap_ring[0], g[1])
<1>1. Held' = Held /\ d.len \in Nat
  BY PassedFacts DEF get_single_pdu, Held, Carried
<1>2. g \in GivenUp /\ g[1] = free /\ g[2] = h
  BY DEF GivenUp
<1>3. CASE UNCHANGED <<free, buf, encap_ring>>
  BY <1>1, <1>3 DEF NoneTaken
<1>4. ASSUME NEW m \in Get(free[DecapMbuf]), NEW b, Sound(b), buf' = [buf EXCEPT ![m] = b],
             encap_ring' = encap_ring \/ (encap_ring' = Enqueued(m) /\ Holds(b, d))
      PROVE  TakenBy(d)
  <2> HIDE DEF g
  <2>1. Taking(X, 15, m) /\ m \notin ToSet(h)
    BY <1>2, DrawnTaking
  <2>2. \A n \in Held' : n \in Held /\ n # m
    BY <1>1, <2>1 DEF Held
  <2> HIDE DEF X, h
  <2>3. OneTaken(X, 15, m, b, d)
    BY <1>4, <2>1, <2>2 DEF OneTaken
  <2>4. QED
    BY <2>3 DEF TakenBy
<1>5. ASSUME NEW m \in Get(free[DecapMbuf])
      PROVE  Sound(buf[m]) /\ Sound(InMbuf(m, d)) /\ Sound(Reset(buf[m]))
             /\ (CanAppend(Reset(buf[m]), d.len) => Holds(InMbuf(m, d), d))
  <2>1. DecapMbuf \in Pools
    BY PoolFacts
  <2>2. m \in AllMbufs
    BY <2>1, Given
  <2>3. Sound(buf[m])
    BY <2>2 DEF Filled
  <2>4. QED
    BY <1>1, <2>3, SoundReset, InMbufHolds
<1>6. ASSUME NEW m \in Get(free[DecapMbuf]), CanAppend(Reset(buf[m]), d.len),
             buf' = [buf EXCEPT ![m] = InMbuf(m, d)], encap_ring' = Enqueued(m)
      PROVE  TakenBy(d)
  BY <1>4, <1>5, <1>6
<1>7. ASSUME NEW m \in Get(free[DecapMbuf]), buf' = [buf EXCEPT ![m] = Reset(@)],
             encap_ring' = encap_ring
      PROVE  TakenBy(d)
  <2> DEFINE b == Reset(buf[m])
  <2>1. Sound(b) /\ buf' = [buf EXCEPT ![m] = b]
    BY <1>5, <1>7
  <2> HIDE DEF b
  <2>2. QED
    BY <1>4, <1>7, <2>1
<1>8. QED
  BY <1>3, <1>6, <1>7 DEF get_single_pdu

\* The first fragment of a PDU.
LEMMA StartTakes ==
  ASSUME Placed, Filled, NEW d \in Carried, start_reassemble_pdu(d)
  PROVE  NoneTaken \/ TakenBy(d)
<1>0. d.len \in Nat
  BY DEF Carried
<1>1. CASE decap' = Passed(decap.held) /\ UNCHANGED <<free, buf, encap_ring>>
  <2>1. Held' = Held
    BY <1>1, PassedFacts DEF Held
  <2>2. QED
    BY <1>1, <2>1 DEF NoneTaken
<1>2. ASSUME NEW g \in GivenUp, NEW m \in Get(g[1][DecapMbuf]), NEW b, Sound(b),
             buf' = [buf EXCEPT ![m] = b],
             \/ decap' = Passed(Append(g[2], m)) /\ encap_ring' = encap_ring /\ Holds(b, d)
             \/ decap' = Passed(g[2]) /\ encap_ring' = Enqueued(m) /\ Holds(b, d)
             \/ decap' = Passed(g[2]) /\ encap_ring' = encap_ring
      PROVE  TakenBy(d)
  <2> DEFINE X == InDecap(g[2], encap_ring[0], g[1])
             h == g[2]
  <2>1. Taking(X, 15, m) /\ m \notin ToSet(h) /\ ToSet(h) \subseteq Held /\ h \in Seq(AllMbufs)
    BY DrawnTaking, GivenUpStep
  <2>2. ToSet(Append(h, m)) = ToSet(h) \cup {m}
    BY <2>1, SetAfter
  <2> HIDE DEF X, h
  <2>3. \/ Held' = ToSet(h) \cup {m} /\ encap_ring' = encap_ring /\ Holds(b, d)
        \/ Held' = ToSet(h) /\ encap_ring' = Enqueued(m) /\ Holds(b, d)
        \/ Held' = ToSet(h) /\ encap_ring' = encap_ring
    <3>1. \A x : decap' = Passed(x) => Held' = ToSet(x)
      BY PassedFacts
    <3>2. \/ decap' = Passed(Append(h, m)) /\ encap_ring' = encap_ring /\ Holds(b, d)
          \/ decap' = Passed(h) /\ encap_ring' = Enqueued(m) /\ Holds(b, d)
          \/ decap' = Passed(h) /\ encap_ring' = encap_ring
      BY <1>2 DEF h
    <3>3. QED
      BY ONLY <2>2, <3>1, <3>2
  <2>4. \A n \in Held' : (n \in Held /\ n # m) \/ (n = m /\ Holds(b, d))
    BY ONLY <2>1, <2>3
  <2>5. OneTaken(X, 15, m, b, d)
    BY <1>2, <2>1, <2>3, <2>4 DEF OneTaken
  <2>6. QED
    BY <2>5 DEF TakenBy
<1>3. ASSUME NEW g \in GivenUp, NEW m \in Get(g[1][DecapMbuf])
      PROVE  /\ Sound(buf[m]) /\ Sound(InMbuf(m, d)) /\ Sound([Reset(buf[m]) EXCEPT !.proto = d.proto])
             /\ CanAppend(Reset(buf[m]), d.len + CRC32_LEN) => Holds(InMbuf(m, d), d)
  <2>1. m \in AllMbufs
    BY DrawnTaking, TakingApart
  <2>2. Sound(buf[m])
    BY <2>1 DEF Filled
  <2>3. Sound(InMbuf(m, d)) /\ (CanAppend(Reset(buf[m]), d.len) => Holds(InMbuf(m, d), d))
    BY <1>0, <2>2, InMbufHolds
  <2>4. CanAppend(Reset(buf[m]), d.len + CRC32_LEN) => CanAppend(Reset(buf[m]), d.len)
    <3> DEFINE r == Reset(buf[m])
    <3>1. Sound(r)
      BY <2>2, SoundReset
    <3> HIDE DEF r
    <3>2. QED
      BY <1>0, <3>1 DEF Sound, CanAppend, Tailroom, Headroom, BUF_LEN, CRC32_LEN, r
  <2>5. Sound([Reset(buf[m]) EXCEPT !.proto = d.proto])
    <3> DEFINE r == Reset(buf[m])
               c == d.proto
    <3>1. Sound(r)
      BY <2>2, SoundReset
    <3> HIDE DEF r, c
    <3>2. Sound([r EXCEPT !.proto = c])
      BY <3>1, SoundProto
    <3>3. QED
      BY <3>2 DEF r, c
  <2>6. QED
    BY <2>2, <2>3, <2>4, <2>5
<1>4. ASSUME NEW g \in GivenUp, NEW m \in Get(g[1][DecapMbuf]),
             CanAppend(Reset(buf[m]), d.len + CRC32_LEN), buf' = [buf EXCEPT ![m] = InMbuf(m, d)],
             \/ decap' = Passed(Append(g[2], m)) /\ encap_ring' = encap_ring
             \/ decap' = Passed(g[2]) /\ encap_ring' = Enqueued(m)
             \/ decap' = Passed(g[2]) /\ encap_ring' = encap_ring
      PROVE  TakenBy(d)
  <2> DEFINE b == InMbuf(m, d)
  <2>1. Sound(b) /\ Holds(b, d) /\ buf' = [buf EXCEPT ![m] = b]
    BY <1>3, <1>4
  <2> HIDE DEF b
  <2>2. QED
    BY <1>2, <1>4, <2>1
<1>5. ASSUME NEW g \in GivenUp, NEW m \in Get(g[1][DecapMbuf]),
             buf' = [buf EXCEPT ![m] = [Reset(@) EXCEPT !.proto = d.proto]],
             decap' = Passed(g[2]), encap_ring' = encap_ring
      PROVE  TakenBy(d)
  <2> DEFINE b == [Reset(buf[m]) EXCEPT !.proto = d.proto]
  <2>1. Sound(b) /\ buf' = [buf EXCEPT ![m] = b]
    BY <1>3, <1>5
  <2> HIDE DEF b
  <2>2. QED
    BY <1>2, <1>5, <2>1
<1>6. QED
  BY <1>1, <1>4, <1>5 DEF start_reassemble_pdu

\* Another fragment of a PDU.
LEMMA KeepTakes ==
  ASSUME Placed, Filled, HeldRight, NEW d \in Carried, keep_reassemble_pdu(d)
  PROVE  NoneTaken \/ TakenBy(d)
<1>1. ASSUME NEW g \in GivenUp, decap' = Passed(g[2]), UNCHANGED <<buf, encap_ring>>
      PROVE  NoneTaken
  <2>1. Held' = ToSet(g[2]) /\ ToSet(g[2]) \subseteq Held
    BY <1>1, PassedFacts, DrawnTaking
  <2>2. QED
    BY <1>1, <2>1 DEF NoneTaken
<1>2. ASSUME NEW k \in 1 .. Len(decap.held), NEW m, m = decap.held[k],
             buf[m].data[1].len = d.len, buf[m].data[1].proto = d.proto,
             buf' = [buf EXCEPT ![m].data = <<d>>],
             decap' = Passed(RemoveAt(decap.held, k)), encap_ring' = Enqueued(m)
      PROVE  TakenBy(d)
  <2> DEFINE x == buf[m]
             t == <<d>>
             b == [x EXCEPT !.data = t]
             h == RemoveAt(decap.held, k)
  <2>1. /\ ToSet(h) \subseteq Held /\ m \in Held /\ m \notin ToSet(h) /\ Held' = ToSet(h)
        /\ \E X : Taking(X, 17, m)
    BY <1>2, HeldTaking, PassedFacts
  <2>2. PICK X : Taking(X, 17, m)
    BY <2>1
  <2>3. Sound(x)
    <3>1. m \in AllMbufs
      BY <2>2, TakingApart
    <3>2. QED
      BY <3>1 DEF Filled
  <2>4. PICK c \in Carried : Holds(x, c)
    BY <2>1 DEF HeldRight
  <2>5. x.data_len = d.len /\ x.proto = d.proto
    <3>1. x.data = <<c>> /\ x.data_len = c.len /\ x.proto = c.proto
      BY <2>4 DEF Holds
    <3>2. x.data[1] = c
      BY <3>1
    <3>3. x.data[1].len = d.len /\ x.data[1].proto = d.proto
      BY <1>2
    <3> HIDE DEF x
    <3>4. QED
      BY <3>1, <3>2, <3>3
  <2>6. buf' = [buf EXCEPT ![m] = b]
    BY <1>2
  <2> HIDE DEF x, t, h
  <2>7. Sound(b) /\ b.data = t /\ b.data_len = x.data_len /\ b.proto = x.proto
    BY <2>3, SoundData DEF Sound, BufFields
  <2> HIDE DEF b
  <2>8. Holds(b, d)
    BY <2>5, <2>7 DEF Holds, t
  <2>9. \A n \in Held' : n \in Held /\ n # m
    BY <2>1
  <2>10. OneTaken(X, 17, m, b, d)
    BY <1>2, <2>2, <2>6, <2>7, <2>8, <2>9 DEF OneTaken
  <2>11. QED
    BY <2>10 DEF TakenBy
<1>3. DOMAIN decap.held = 1 .. Len(decap.held)
  <2>1. decap.held \in Seq(AllMbufs)
    BY InLists
  <2>2. QED
    BY <2>1
<1>4. QED
  BY <1>1, <1>2, <1>3 DEF keep_reassemble_pdu

\* The GSE packets of the frame that is open.
LEMMA FrameFacts ==
  ASSUME Filled, decap.frame # None
  PROVE  /\ buf[decap.frame].data \in Packet
         /\ decap.next <= Len(buf[decap.frame].data.pdus) =>
              buf[decap.frame].data.pdus[decap.next] \in Carried
<1> DEFINE t == buf[decap.frame].data
           u == t.pdus
<1>1. decap.frame \in InFront
  BY DEF InFront
<1>2. t \in Packet /\ decap.next \in Nat \ {0}
  BY <1>1 DEF Filled, Carries
<1> HIDE DEF t
<1>3. u \in Seq(Carried)
  BY <1>2 DEF Packet
<1> HIDE DEF u
<1>4. decap.next <= Len(u) => decap.next \in 1 .. Len(u)
  BY <1>2, <1>3
<1>5. decap.next <= Len(u) => u[decap.next] \in Carried
  BY <1>3, <1>4
<1>6. QED
  BY <1>2, <1>5 DEF t, u

\* What decapsulate_gse does: it takes a GSE packet out, or the frame is at its end.
LEMMA GseCases ==
  ASSUME Placed, Filled, HeldRight, decapsulate_gse
  PROVE  \/ /\ decap'.frame = decap.frame /\ decap'.next = decap.next + 1
            /\ decap.next <= Len(buf[decap.frame].data.pdus)
            /\ \/ NoneTaken
               \/ TakenBy(buf[decap.frame].data.pdus[decap.next])
         \/ /\ decap'.frame = None /\ decap'.next = decap.next /\ decap'.held = decap.held
            /\ UNCHANGED <<buf, encap_ring>>
<1> DEFINE pdus == buf[decap.frame].data.pdus
           d == pdus[decap.next]
<1>1. decap.frame # None /\ DOMAIN decap = {"turn", "frame", "next", "held"}
  BY DEF decapsulate_gse, Placed, Shape
<1>2. CASE /\ decap' = [decap EXCEPT !.frame = None, !.turn = 1 - @]
           /\ UNCHANGED <<buf, encap_ring>>
  BY <1>1, <1>2
<1>3. ASSUME decap.next <= Len(pdus),
             get_single_pdu(d) \/ start_reassemble_pdu(d) \/ keep_reassemble_pdu(d)
      PROVE  /\ decap'.frame = decap.frame /\ decap'.next = decap.next + 1
             /\ NoneTaken \/ TakenBy(d)
  <2>1. d \in Carried
    BY <1>1, <1>3, FrameFacts
  <2> HIDE DEF d, pdus
  <2>2. NoneTaken \/ TakenBy(d)
    BY <1>3, <2>1, SingleTakes, StartTakes, KeepTakes
  <2>3. \E h : decap' = Passed(h)
    BY <1>3 DEF get_single_pdu, start_reassemble_pdu, keep_reassemble_pdu
  <2>4. QED
    BY <2>2, <2>3, PassedFacts
<1>4. QED
  BY <1>2, <1>3 DEF decapsulate_gse

\* A GSE packet is taken out of a frame.
LEMMA DecapGseFilled ==
  ASSUME Placed, Filled, HeldRight, decapsulate_gse
  PROVE  Filled' /\ HeldRight'
<1>1. /\ rcv_ring' = rcv_ring /\ snd_bb_ring' = snd_bb_ring /\ recv' = recv /\ enc' = enc
      /\ snd' = snd /\ got' = got /\ decap.next \in Nat \ {0}
  BY DEF decapsulate_gse, Filled
<1>2. /\ InFront \cup ToBeSent \subseteq AllMbufs
      /\ enc.pdu # None => enc.pdu \in AllMbufs
      /\ enc.send # None => enc.send \in AllMbufs
      /\ enc.send # None => enc.pdu # None
  BY SomeMbufs, InLists DEF Placed, Shape
<1>3. ToBeSent' = ToBeSent
  BY <1>1 DEF ToBeSent
<1>4. decap'.frame \in {None, decap.frame} /\ decap'.next \in Nat \ {0}
  BY <1>1, GseCases
<1>5. InFront' \subseteq InFront
  BY <1>1, <1>4 DEF InFront
<1>6. CASE buf' = buf /\ Held' \subseteq Held
  <2>1. Filled'
    BY <1>1, <1>3, <1>4, <1>5, <1>6, KeptFilled DEF Filled
  <2>2. HeldRight'
    BY <1>6 DEF HeldRight
  <2>3. QED
    BY <2>1, <2>2
<1>7. ASSUME NEW d \in Carried, NEW X, NEW q, NEW m, NEW b, OneTaken(X, q, m, b, d)
      PROVE  Filled' /\ HeldRight'
  <2>1. /\ m \in AllMbufs /\ m \notin InFront /\ m \notin ToBeSent /\ m # enc.pdu /\ m # enc.send
        /\ Sound(b) /\ buf' = [buf EXCEPT ![m] = b] /\ got' \in Seq(Packet)
        /\ \A n \in Held' : (n \in Held /\ n # m) \/ (n = m /\ Holds(b, d))
    BY <1>1, <1>7, TakingApart DEF OneTaken, Filled
  <2>2. Filled'
    BY <1>1, <1>2, <1>3, <1>4, <1>5, <2>1, OtherFilled
  <2>3. \A n \in AllMbufs : buf'[n] = IF n = m THEN b ELSE buf[n]
    BY <2>1 DEF Filled
  <2>4. Held \subseteq AllMbufs
    BY InLists DEF Held, ToSet
  <2>5. HeldRight'
    BY <1>7, <2>1, <2>3, <2>4 DEF HeldRight
  <2>6. QED
    BY <2>2, <2>5
<1>8. QED
  <2> DEFINE d == buf[decap.frame].data.pdus[decap.next]
  <2>1. CASE NoneTaken \/ (buf' = buf /\ decap'.held = decap.held)
    BY <1>6, <2>1 DEF NoneTaken, Held
  <2>2. CASE decap.next <= Len(buf[decap.frame].data.pdus) /\ TakenBy(d)
    <3>1. d \in Carried
      BY <2>2, FrameFacts DEF decapsulate_gse
    <3> HIDE DEF d
    <3>2. QED
      BY <1>7, <2>2, <3>1 DEF TakenBy
  <2>3. QED
    BY <2>1, <2>2, GseCases

\* A frame is put into a new mbuf.
LEMMA WriteFilled ==
  ASSUME Placed, Filled, write_codeblock
  PROVE  Filled'
<1> DEFINE s == snd_bb_ring
<1>1. /\ enc'.pdu = enc.pdu /\ enc'.send = enc.send
      /\ rcv_ring' = rcv_ring /\ recv' = recv /\ decap' = decap
      /\ snd' = snd /\ got' = got /\ EncapMbuf \in Pools
  BY PoolFacts DEF write_codeblock, Placed, Shape, EncFields
<1>2. /\ InFront \cup ToBeSent \subseteq AllMbufs
      /\ enc.pdu # None => enc.pdu \in AllMbufs
      /\ enc.send # None => enc.send \in AllMbufs
      /\ enc.send # None => enc.pdu # None
  BY SomeMbufs, InLists DEF Placed, Shape
<1>3. InFront' = InFront
  BY <1>1 DEF InFront
<1>4. decap'.next \in Nat \ {0} /\ got' \in Seq(Packet)
  BY <1>1 DEF Filled
<1>5. CASE UNCHANGED <<buf, snd_bb_ring>>
  <2>1. ToBeSent' = ToBeSent
    BY <1>1, <1>5 DEF ToBeSent
  <2>2. QED
    BY <1>1, <1>3, <1>4, <1>5, <2>1, KeptFilled DEF Filled
<1>6. ASSUME NEW m \in Get(free[EncapMbuf]),
             buf' = [buf EXCEPT ![m] = [Appended(Reset(@), FrameSize) EXCEPT !.data = enc.built]],
             snd_bb_ring' = Append(s, m)
      PROVE  Filled'
  <2> DEFINE x == buf[m]
             d == enc.built
             b == [Appended(Reset(x), FrameSize) EXCEPT !.data = d]
  <2>1. m \in AllMbufs /\ m \notin InFront /\ m \notin ToBeSent /\ m # enc.pdu /\ m # enc.send
    BY <1>1, GivenApart
  <2>2. Sound(x)
    BY <2>1 DEF Filled
  <2>3. buf' = [buf EXCEPT ![m] = b]
    BY <1>6
  <2>4. FrameSize \in Nat /\ FrameSize <= BUF_LEN - HEADROOM
    BY DEF FrameSize, BUF_LEN, HEADROOM
  <2> HIDE DEF x, d
  <2>5. Sound(b) /\ b.data_len = FrameSize
    BY <2>2, <2>4, SoundFilled
  <2>6. ToSet(snd_bb_ring') = ToSet(snd_bb_ring) \cup {m}
    BY <1>6, InLists, SetAfter
  <2>7. \A n \in ToBeSent' : n \in ToBeSent \/ n = m
    BY <1>1, <2>6 DEF ToBeSent
  <2> HIDE DEF b
  <2>8. QED
    BY <1>1, <1>2, <1>3, <1>4, <2>1, <2>3, <2>5, <2>7, OtherFilled
<1>7. QED
  BY <1>5, <1>6 DEF write_codeblock

\* A PDU is copied into a new mbuf, behind an Ethernet header.
LEMMA CopyFilled ==
  ASSUME Placed, Filled, CopyPdu
  PROVE  Filled'
<1> DEFINE w == enc.pdu
<1>1. /\ w # None /\ enc.send = None /\ DOMAIN enc = EncFields
      /\ rcv_ring' = rcv_ring /\ snd_bb_ring' = snd_bb_ring /\ recv' = recv /\ decap' = decap
      /\ snd' = snd /\ got' = got /\ EncapMbuf \in Pools
  BY PoolFacts DEF CopyPdu, rings, Placed, Shape
<1>2. /\ InFront \cup ToBeSent \subseteq AllMbufs /\ w \in AllMbufs
  BY <1>1, SomeMbufs, InLists
<1>3. InFront' = InFront /\ ToBeSent' = ToBeSent
  BY <1>1 DEF InFront, ToBeSent
<1>4. decap'.next \in Nat \ {0} /\ got' \in Seq(Packet)
  BY <1>1 DEF Filled
<1>5. CASE buf' = buf /\ enc' = [enc EXCEPT !.pdu = None, !.turn = 1]
  <2>1. enc'.pdu = None /\ enc'.send = None
    BY <1>1, <1>5 DEF EncFields
  <2>2. QED
    BY <1>1, <1>3, <1>4, <1>5, <2>1, KeptFilled
<1>6. ASSUME NEW m \in Get(free[EncapMbuf]), enc' = [enc EXCEPT !.send = m],
             buf' = [buf EXCEPT ![m] = [Appended(Reset(@), buf[w].data_len + ETHER_HDR)
                                          EXCEPT !.data = <<PduOut(w)>>]]
      PROVE  Filled'
  <2> DEFINE x == buf[m]
             len == buf[w].data_len + ETHER_HDR
             d == <<PduOut(w)>>
             b == [Appended(Reset(x), len) EXCEPT !.data = d]
  <2>1. m \in AllMbufs /\ m \notin InFront /\ m \notin ToBeSent /\ m # enc.pdu /\ m # enc.send
    BY <1>1, GivenApart
  <2>2. Sound(x) /\ Sound(buf[w]) /\ buf[w].data_len < PDU_BUFFER_SIZE
    BY <1>1, <1>2, <2>1 DEF Filled
  <2>3. buf' = [buf EXCEPT ![m] = b]
    BY <1>6
  <2>4. len \in Nat /\ len <= BUF_LEN - HEADROOM
    BY <2>2 DEF Sound, PDU_BUFFER_SIZE, ETHER_HDR, BUF_LEN, HEADROOM
  <2>5. enc'.send = m /\ enc'.pdu = enc.pdu
    BY <1>1, <1>6 DEF EncFields
  <2> HIDE DEF x, d, len
  <2>6. Sound(b) /\ b.data_len = len
    BY <2>2, <2>4, SoundFilled
  <2> HIDE DEF b
  <2>7. b.data_len = buf[enc.pdu].data_len + ETHER_HDR
    BY <2>6 DEF len
  <2>8. QED
    BY <1>1, <1>2, <1>3, <1>4, <2>1, <2>3, <2>5, <2>6, <2>7, OtherFilled
<1>7. QED
  BY <1>5, <1>6 DEF CopyPdu

\* A PDU for port 1 is not longer than the buffer of the sending code.
LEMMA EncapPoll0Filled ==
  ASSUME Placed, Filled, EncapPoll0
  PROVE  Filled'
<1> DEFINE m == Head(encap_ring[0])
<1>1. /\ enc.pdu = None /\ enc.send = None /\ DOMAIN enc = EncFields
      /\ rcv_ring' = rcv_ring /\ snd_bb_ring' = snd_bb_ring /\ recv' = recv /\ decap' = decap
      /\ snd' = snd /\ got' = got /\ buf' = buf
  BY DEF EncapPoll0, AtPoll, Placed, Shape
<1>2. /\ enc' = [enc EXCEPT !.turn = 1]
         \/ (enc' = [enc EXCEPT !.pdu = m] /\ ~ (buf[m].data_len >= PDU_BUFFER_SIZE)
             /\ encap_ring[0] # <<>>)
  BY DEF EncapPoll0
<1>3. CASE enc' = [enc EXCEPT !.turn = 1]
  BY <1>1, <1>3 DEF EncFields, Filled, InFront, ToBeSent
<1>4. CASE /\ enc' = [enc EXCEPT !.pdu = m] /\ ~ (buf[m].data_len >= PDU_BUFFER_SIZE)
           /\ encap_ring[0] # <<>>
  <2>1. enc'.pdu = m /\ enc'.send = None
    BY <1>1, <1>4 DEF EncFields
  <2>2. buf[m].data_len < PDU_BUFFER_SIZE
    <3>1. encap_ring[0] \in Seq(AllMbufs)
      BY InLists DEF Port
    <3>2. m \in AllMbufs
      BY <1>4, <3>1
    <3>3. buf[m].data_len \in Nat
      BY <3>2 DEF Filled, Sound
    <3>4. QED
      BY <1>4, <3>3 DEF PDU_BUFFER_SIZE
  <2>3. InFront' = InFront /\ ToBeSent' = ToBeSent
    BY <1>1 DEF InFront, ToBeSent
  <2>4. QED
    BY <1>1, <2>1, <2>2, <2>3, KeptFilled DEF Filled
<1>5. QED
  BY <1>2, <1>3, <1>4

\* The other steps modify no mbuf, and take from the front and what is to be sent.
LEMMA OtherSteps ==
  ASSUME Placed, Filled,
         \/ threadpool_spawn_thread \/ EncapsulateFragment \/ EncapPoll1 \/ SendPdu
         \/ snd_bbframe_thread \/ SendFrame \/ UNCHANGED vars
  PROVE  Filled'
<1>1. DOMAIN enc = EncFields
  BY DEF Placed, Shape
<1>2. buf' = buf /\ got' = got /\ decap' = decap /\ rcv_ring' = rcv_ring /\ recv' = recv
  BY DEF threadpool_spawn_thread, EncapsulateFragment, EncapPoll1, SendPdu, snd_bbframe_thread,
         SendFrame, vars, rings
<1>3. InFront' = InFront
  BY <1>2 DEF InFront
<1>4. ToBeSent' \subseteq ToBeSent
  <2>1. CASE snd_bbframe_thread
    <3>1. snd_bb_ring \in Seq(AllMbufs) /\ snd_bb_ring # <<>>
      BY <2>1, InLists DEF snd_bbframe_thread
    <3>2. snd' = Head(snd_bb_ring) /\ snd_bb_ring' = Tail(snd_bb_ring)
      BY <2>1 DEF snd_bbframe_thread
    <3>3. Head(snd_bb_ring) \in ToSet(snd_bb_ring) /\ ToSet(Tail(snd_bb_ring)) \subseteq ToSet(snd_bb_ring)
      BY <3>1, SetAfter
    <3>4. QED
      BY <3>2, <3>3 DEF ToBeSent
  <2>2. CASE SendFrame
    <3>1. snd' = None /\ snd_bb_ring' = snd_bb_ring
      BY <2>2 DEF SendFrame, rings
    <3>2. QED
      BY <3>1 DEF ToBeSent
  <2>3. CASE threadpool_spawn_thread \/ EncapsulateFragment \/ EncapPoll1 \/ SendPdu \/ UNCHANGED vars
    <3>1. snd' = snd /\ snd_bb_ring' = snd_bb_ring
      BY <2>3 DEF threadpool_spawn_thread, EncapsulateFragment, EncapPoll1, SendPdu, vars, rings
    <3>2. QED
      BY <3>1 DEF ToBeSent
  <2>4. QED
    BY <2>1, <2>2, <2>3
<1>5. /\ enc'.pdu # None => buf[enc'.pdu].data_len < PDU_BUFFER_SIZE
      /\ enc'.send # None => enc'.send = enc.send /\ enc'.pdu = enc.pdu
  <2>1. ASSUME NEW e, DOMAIN e = EncFields, e.pdu = enc.pdu, e.send = enc.send, NEW s, Close(e, s, free)
        PROVE  enc'.pdu = enc.pdu /\ enc'.send = enc.send
    BY <2>1 DEF Close, EncFields
  <2>2. CASE EncapsulateFragment
    <3> DEFINE e1 == [enc EXCEPT !.cuts = @ - 1]
               e2 == [enc EXCEPT !.rest = None, !.cuts = 0]
    <3>1. DOMAIN e1 = EncFields /\ e1.pdu = enc.pdu /\ e1.send = enc.send
      BY <1>1 DEF EncFields
    <3>2. DOMAIN e2 = EncFields /\ e2.pdu = enc.pdu /\ e2.send = enc.send
      BY <1>1 DEF EncFields
    <3>3. \/ Close(e1, enc.open, free)
          \/ enc' = [e2 EXCEPT !.open = Append(@, enc.rest)]
          \/ Close(e2, Append(e2.open, enc.rest), free)
      BY <2>2 DEF EncapsulateFragment
    <3> HIDE DEF e1, e2
    <3>4. enc'.pdu = enc.pdu /\ enc'.send = enc.send
      <4>1. CASE enc' = [e2 EXCEPT !.open = Append(@, enc.rest)]
        BY <3>2, <4>1 DEF EncFields
      <4>2. QED
        BY <2>1, <3>1, <3>2, <3>3, <4>1
    <3>5. QED
      BY <3>4 DEF Filled
  <2>3. CASE EncapPoll1
    <3> DEFINE e1 == [enc EXCEPT !.turn = 0, !.idle = 0]
               e2 == [enc EXCEPT !.turn = 0, !.idle = (@ + 1) % IdleLoops]
               m == Head(encap_ring[1])
               e3(n) == [e1 EXCEPT !.rest = m, !.cuts = n]
    <3>1. DOMAIN e1 = EncFields /\ e1.pdu = enc.pdu /\ e1.send = enc.send
      BY <1>1 DEF EncFields
    <3>2. DOMAIN e2 = EncFields /\ e2.pdu = enc.pdu /\ e2.send = enc.send
      BY <1>1 DEF EncFields
    <3>3. \A n : DOMAIN e3(n) = EncFields /\ e3(n).pdu = enc.pdu /\ e3(n).send = enc.send
      BY <1>1 DEF EncFields
    <3>4. \/ enc' = [e1 EXCEPT !.open = Append(@, m)]
          \/ Close(e1, Append(e1.open, m), free)
          \/ \E n \in 1 .. MaxCuts : Close(e3(n), e1.open, free)
          \/ Close(e2, e2.open, free)
          \/ enc' = e2
      BY <2>3 DEF EncapPoll1, EncapsulateWhole, FlushIdle
    <3> HIDE DEF e1, e2, e3
    <3>5. enc'.pdu = enc.pdu /\ enc'.send = enc.send
      <4>1. CASE enc' = [e1 EXCEPT !.open = Append(@, m)]
        BY <3>1, <4>1 DEF EncFields
      <4>2. CASE \E n \in 1 .. MaxCuts : Close(e3(n), e1.open, free)
        BY <2>1, <3>3, <4>2
      <4>3. CASE Close(e1, Append(e1.open, m), free) \/ Close(e2, e2.open, free)
        BY <2>1, <3>1, <3>2, <4>3
      <4>4. CASE enc' = e2
        BY <3>2, <4>4
      <4>5. QED
        BY <3>4, <4>1, <4>2, <4>3, <4>4
    <3>6. QED
      BY <3>5 DEF Filled
  <2>4. CASE SendPdu
    <3>1. enc'.pdu = None /\ enc'.send = None
      BY <1>1, <2>4 DEF SendPdu, EncFields
    <3>2. QED
      BY <3>1
  <2>5. CASE threadpool_spawn_thread \/ snd_bbframe_thread \/ SendFrame \/ UNCHANGED vars
    <3>1. enc' = enc
      BY <2>5 DEF threadpool_spawn_thread, snd_bbframe_thread, SendFrame, vars
    <3>2. QED
      BY <3>1 DEF Filled
  <2>6. QED
    BY <2>2, <2>3, <2>4, <2>5
<1>6. QED
  BY <1>2, <1>3, <1>4, <1>5, KeptFilled DEF Filled

\* All mbufs are new in the beginning.
LEMMA InitFilled == Init => Filled /\ HeldRight
<1> SUFFICES ASSUME Init PROVE Filled /\ HeldRight
  OBVIOUS
<1>1. \A m \in AllMbufs : Sound(buf[m])
  BY DEF Init, NewMbuf, Sound, BufFields, HEADROOM, BUF_LEN
<1>2. InFront = {} /\ ToBeSent = {} /\ Held = {}
  <2>1. ToSet(<<>>) = {}
    BY DEF ToSet
  <2>2. QED
    BY <2>1 DEF Init, InFront, ToBeSent, Held, Port
<1>3. QED
  BY <1>1, <1>2 DEF Init, Filled, HeldRight

\* Nothing else modifies an mbuf in frag_info.
LEMMA HeldKept ==
  ASSUME Placed, Filled, HeldRight, decap'.held = decap.held,
         buf' = buf \/ \E m, b : m \notin Held /\ buf' = [buf EXCEPT ![m] = b]
  PROVE  HeldRight'
<1>1. Held' = Held
  BY DEF Held
<1>2. Held \subseteq DOMAIN buf
  BY InLists DEF Held, ToSet, Filled
<1>3. \A n \in Held : buf'[n] = buf[n]
  <2>1. ASSUME NEW m, NEW b, m \notin Held, buf' = [buf EXCEPT ![m] = b], NEW n \in Held
        PROVE  buf'[n] = buf[n]
    BY <1>2, <2>1
  <2>2. QED
    BY <2>1
<1>4. QED
  BY <1>1, <1>3 DEF HeldRight

LEMMA OthersHeld ==
  ASSUME Placed, Filled, HeldRight, [Next]_vars, ~ decapsulate_gse
  PROVE  HeldRight'
<1> DEFINE Aside == \E m, b : m \notin Held /\ buf' = [buf EXCEPT ![m] = b]
<1>1. ASSUME NEW P \in Pools, NEW m \in Get(free[P]), NEW b, buf' = [buf EXCEPT ![m] = b]
      PROVE  Aside
  BY <1>1, GivenApart
<1>2. RcvMbuf \in Pools /\ EncapMbuf \in Pools
  BY PoolFacts
<1>3. CASE \E p \in Port : read_pcap(p)
  <2> HIDE DEF Aside
  <2>1. decap' = decap
    BY <1>3 DEF read_pcap
  <2>2. \/ buf' = buf
        \/ \E m \in Get(free[RcvMbuf]) : \E b : buf' = [buf EXCEPT ![m] = b]
    BY <1>3 DEF read_pcap
  <2>3. buf' = buf \/ Aside
    BY <1>1, <1>2, <2>2
  <2>4. QED
    BY <2>1, <2>3, HeldKept DEF Aside
<1>4. CASE write_codeblock \/ CopyPdu
  <2> HIDE DEF Aside
  <2>1. decap' = decap
    BY <1>4 DEF write_codeblock, CopyPdu
  <2>2. \/ buf' = buf
        \/ \E m \in Get(free[EncapMbuf]) : \E b : buf' = [buf EXCEPT ![m] = b]
    BY <1>4 DEF write_codeblock, CopyPdu
  <2>3. buf' = buf \/ Aside
    BY <1>1, <1>2, <2>2
  <2>4. QED
    BY <2>1, <2>3, HeldKept DEF Aside
<1>5. CASE DecapPoll
  <2> DEFINE i == decap.turn
             s == rcv_ring[i]
  <2>1. i \in Port /\ s \in Seq(AllMbufs) /\ DOMAIN decap = {"turn", "frame", "next", "held"}
    BY InLists DEF Placed, Shape
  <2>2. decap'.held = decap.held
    BY <1>5, <2>1 DEF DecapPoll, process_frame_header
  <2>3. buf' = buf \/ (s # <<>> /\ \E b : buf' = [buf EXCEPT ![Head(s)] = b])
    BY <1>5 DEF DecapPoll, process_frame_header
  <2>4. s # <<>> => Head(s) \notin Held
    BY <2>1, SetAfter, Apart
  <2> HIDE DEF s
  <2>5. buf' = buf \/ Aside
    BY <2>3, <2>4
  <2>6. QED
    BY <2>2, <2>5, HeldKept
<1>6. CASE \/ threadpool_spawn_thread \/ EncapsulateFragment \/ EncapPoll1 \/ SendPdu
           \/ snd_bbframe_thread \/ SendFrame \/ EncapPoll0 \/ UNCHANGED vars
           \/ \E p \in Port : receive_msg_thread(p)
  <2>1. buf' = buf /\ decap' = decap
    BY <1>6 DEF threadpool_spawn_thread, EncapsulateFragment, EncapPoll1, SendPdu, EncapPoll0,
                snd_bbframe_thread, SendFrame, receive_msg_thread, vars
  <2>2. QED
    BY <2>1, HeldKept
<1>7. QED
  BY <1>3, <1>4, <1>5, <1>6 DEF Next, decapsulate_thread, encapsulate_thread

LEMMA NextFilled == Placed /\ Filled /\ HeldRight /\ [Next]_vars => Filled' /\ HeldRight'
<1> SUFFICES ASSUME Placed, Filled, HeldRight, [Next]_vars PROVE Filled' /\ HeldRight'
  OBVIOUS
<1>1. CASE decapsulate_gse
  BY <1>1, DecapGseFilled
<1>2. ASSUME ~ decapsulate_gse PROVE Filled' /\ HeldRight'
  <2>1. ASSUME NEW p \in Port, read_pcap(p) \/ receive_msg_thread(p) PROVE Filled'
    BY <2>1, PcapFilled, ReceiveFilled
  <2>2. DecapPoll => Filled'
    BY DecapPollFilled
  <2>3. encapsulate_thread => Filled'
    BY OtherSteps, WriteFilled, EncapPoll0Filled, CopyFilled DEF encapsulate_thread
  <2>4. threadpool_spawn_thread \/ SendPdu \/ snd_bbframe_thread \/ SendFrame \/ UNCHANGED vars
          => Filled'
    BY OtherSteps
  <2>5. Filled'
    BY <1>2, <2>1, <2>2, <2>3, <2>4 DEF Next, decapsulate_thread
  <2>6. HeldRight'
    BY <1>2, OthersHeld
  <2>7. QED
    BY <2>5, <2>6
<1>3. QED
  BY <1>1, <1>2

\* The data of every mbuf lie inside its buffer, whatever length a frame gives for a PDU
\* or a fragment: what does not fit is refused.  An mbuf about to be sent holds as many
\* bytes as are taken from it.  For pools of every size and any number of packets.
THEOREM DataStayInside == Spec => []DataInside
<1>1. Filled => DataInside
  BY DEF Filled, DataInside, Sound, ToBeSent
<1>2. QED
  BY <1>1, InitPlaced, NextPlaced, InitFilled, NextFilled, PTL DEF Spec

-----------------------------------------------------------------------------
(* What the mbufs carry *)

\* The places in use, 1 .. 13 of Lists, and where else PDUs are: those sent to port 0
\* (14) and to port 1 (15), in the frame that is built (16), and in the received frame,
\* still to be taken out (17).
Stage == 1 .. 17

\* The way from port 1 into frames to port 0, and the way of PDUs out of frames of port q to
\* port 1, counted from the end.  0: not on the way.
ToPort0(p) ==
  IF p = 14 THEN 1 ELSE IF p = 7 THEN 2 ELSE IF p = 13 THEN 3 ELSE IF p = 16 THEN 4
  ELSE IF p = 8 THEN 5 ELSE IF p = 4 THEN 6 ELSE IF p = 12 THEN 7 ELSE IF p = 10 THEN 8
  ELSE IF p = 2 THEN 9 ELSE 0
ToPort1(p, q) ==
  IF p = 15 THEN 1 ELSE IF p = 5 THEN 2 ELSE IF p = 11 THEN 3 ELSE IF p = 17 THEN 4
  ELSE IF p = 9 + q THEN 5 ELSE IF p = 1 + q THEN 6 ELSE 0

\* What is in stage a comes before what is in stage b.
Ahead(a, b) ==
  \/ ToPort0(a) # 0 /\ ToPort0(a) < ToPort0(b)
  \/ ToPort1(a, 0) # 0 /\ ToPort1(a, 0) < ToPort1(b, 0)
  \/ ToPort1(a, 1) # 0 /\ ToPort1(a, 1) < ToPort1(b, 1)

\* The PDUs of the packets gt.
Known(gt) == {x \in Nat \X Nat : x[1] \in 1 .. Len(gt) /\ x[2] \in 1 .. Len(gt[x[1]].pdus)}

\* Received, and Earlier of two sets of PDUs, for the packets gt.
ReceivedIn(gt, x) ==
  IF gt[x[1]].type = "frame"
  THEN [id |-> x, len |-> gt[x[1]].pdus[x[2]].len, proto |-> gt[x[1]].pdus[x[2]].proto]
  ELSE [id |-> x, len |-> gt[x[1]].len - ETHER_HDR, proto |-> gt[x[1]].type]
Before(A, B, gt) ==
  \A x \in A, y \in B :
    gt[x[1]].port = gt[y[1]].port => x[1] < y[1] \/ (x[1] = y[1] /\ x[2] < y[2])

\* PDUs as they were received, and those of port 1.
Genuine(gt) == {ReceivedIn(gt, x) : x \in Known(gt)}
Genuine1(gt) == {ReceivedIn(gt, x) : x \in {y \in Known(gt) : gt[y[1]].port = 1}}

\* The PDU in an mbuf of encap_ring[0], and in one of encap_ring[1].
OutOf(b) == [id |-> b.data[1].id, len |-> b.data_len, proto |-> b.proto]
InOf(b) == [id |-> b.data.pdus[1].id, len |-> b.data_len, proto |-> b.proto]

SeqIds(s) == {s[k].id : k \in 1 .. Len(s)}

\* An mbuf that carries a received packet.
Fresh(b, gt) ==
  \E n \in 1 .. Len(gt) : b.data = gt[n] /\ b.data_len = gt[n].len

\* The PDUs in an mbuf at a place.
IdsAt(p, b) ==
  IF p \in {1, 2, 9, 10} THEN SeqIds(b.data.pdus)
  ELSE IF p \in {5, 11} THEN {b.data[1].id}
  ELSE IF p \in {4, 8, 12} THEN {b.data.pdus[1].id}
  ELSE IF p \in {7, 13} THEN SeqIds(b.data) ELSE {}

\* PDUs in the order of their port.
Rising(s, gt) == \A j, k \in 1 .. Len(s) : j < k => Before({s[j].id}, {s[k].id}, gt)

\* What an mbuf at a place carries is what was received.
Right(p, b, gt) ==
  /\ p \in {1, 2, 3, 9, 10} => Fresh(b, gt)
  /\ p \in {1, 9} => b.data.port = 0
  /\ p \in {2, 10} => b.data.port = 1
  /\ p = 3 => b.data.type = "frame"
  /\ p = 9 => Is9101(b.data.type)
  /\ p \in {5, 11} => OutOf(b) \in Genuine(gt)
  /\ p \in {4, 8, 12} => InOf(b) \in Genuine1(gt)
  /\ p \in {7, 13} => b.data \in Seq(Genuine1(gt)) /\ Rising(b.data, gt)

\* The mbufs s at a place, and their PDUs.
PlaceInv(p, s, bf, gt) ==
  /\ \A k \in 1 .. Len(s) : Right(p, bf[s[k]], gt)
  /\ \A j, k \in 1 .. Len(s) : j < k => Before(IdsAt(p, bf[s[j]]), IdsAt(p, bf[s[k]]), gt)
IdsIn(p, s, bf) == UNION {IdsAt(p, bf[s[k]]) : k \in 1 .. Len(s)}

\* The PDUs in every stage.
Stages(L, bf, sn, bu, rm) ==
  [p \in Stage |-> IF p <= 13 THEN IdsIn(p, L[p], bf)
                   ELSE IF p = 14 THEN SeqIds(sn[0]) ELSE IF p = 15 THEN SeqIds(sn[1])
                   ELSE IF p = 16 THEN SeqIds(bu) ELSE rm]

Chained(T, gt) == \A a, b \in Stage : Ahead(a, b) => Before(T[a], T[b], gt)

Stamped(gt) == gt \in Seq(Packet) /\ \A n \in 1 .. Len(gt) : \E t \in Traffic : gt[n] = Stamp(t, n)

\* What is sent, and about to be sent in a frame.
SentInv(sn, bu, gt) ==
  /\ DOMAIN sn = Port /\ sn[0] \in Seq(Genuine1(gt)) /\ sn[1] \in Seq(Genuine(gt))
  /\ Rising(sn[0], gt) /\ Rising(sn[1], gt)
  /\ bu \in Seq(Genuine1(gt)) /\ Rising(bu, gt)

\* The mbuf about to be sent to port 1 has the PDU that was taken from encap_ring[0].
CopyInv(L, bf) ==
  L[6] # <<>> => L[5] # <<>> /\ bf[L[6][1]].data = <<OutOf(bf[L[5][1]])>>

\* All together, for the lists L, the mbufs bf, the PDUs sent sn, of the frame bu, and rm
\* that remain to be taken out.
Trace(L, bf, sn, bu, rm, gt) ==
  /\ Stamped(gt)
  /\ \A p \in 1 .. 13 : PlaceInv(p, L[p], bf, gt)
  /\ SentInv(sn, bu, gt)
  /\ rm \subseteq Known(gt)
  /\ CopyInv(L, bf)
  /\ Chained(Stages(L, bf, sn, bu, rm), gt)

\* The PDUs that are still in the frame fr.
Remainder(fr, next, bf) ==
  IF fr = None THEN {}
  ELSE {bf[fr].data.pdus[k].id : k \in {j \in 1 .. Len(bf[fr].data.pdus) : j >= next}}

\* What the invariant SentAsReceived needs to be inductive.
Traced ==
  Trace(Lists, buf, sent, enc.built, Remainder(decap.frame, decap.next, buf), got)

-----------------------------------------------------------------------------
(* Packets and PDUs *)

\* The n-th packet received.
LEMMA StampFacts ==
  ASSUME NEW t \in Traffic, NEW n \in Nat
  PROVE  LET g == Stamp(t, n) IN
         /\ g.port = t.port /\ g.port \in Port /\ g.type = t.type /\ g.len = t.len /\ g.len \in Nat
         /\ Len(g.pdus) = Len(t.pdus) /\ Len(g.pdus) \in Nat
         /\ \A k \in 1 .. Len(g.pdus) :
              /\ g.pdus[k] = [id |-> <<n, k>>, kind |-> t.pdus[k].kind, len |-> t.pdus[k].len,
                              proto |-> t.pdus[k].proto]
              /\ t.pdus[k].len \in Nat
<1> DEFINE s == t.pdus
           e == [k \in DOMAIN t.pdus |->
                   [id |-> <<n, k>>, kind |-> t.pdus[k].kind, len |-> t.pdus[k].len,
                    proto |-> t.pdus[k].proto]]
<1>1. t.len \in Nat /\ t.port \in Port /\ s \in Seq(Pdu)
  BY PipelineAssumption
<1>2. /\ Stamp(t, n).port = t.port /\ Stamp(t, n).type = t.type /\ Stamp(t, n).len = t.len
      /\ Stamp(t, n).pdus = e
  BY DEF Stamp
<1>3. \A x \in Pdu : x.len \in Nat
  BY DEF Pdu
<1>4. Len(s) \in Nat /\ DOMAIN s = 1 .. Len(s) /\ \A k \in 1 .. Len(s) : s[k] \in Pdu
  BY <1>1
<1>5. DOMAIN e = 1 .. Len(s) /\ Len(e) = Len(s)
  BY <1>4
<1>6. \A k \in 1 .. Len(s) :
        e[k] = [id |-> <<n, k>>, kind |-> t.pdus[k].kind, len |-> t.pdus[k].len,
                proto |-> t.pdus[k].proto]
  BY <1>4
<1> HIDE DEF e
<1>7. QED
  BY <1>1, <1>2, <1>3, <1>4, <1>5, <1>6

\* The packets received so far.
LEMMA PacketFacts ==
  ASSUME NEW gt, Stamped(gt)
  PROVE  /\ Len(gt) \in Nat
         /\ \A n \in 1 .. Len(gt) :
              /\ gt[n].len \in Nat /\ gt[n].port \in Port /\ Len(gt[n].pdus) \in Nat
              /\ \A k \in 1 .. Len(gt[n].pdus) : gt[n].pdus[k].id = <<n, k>>
              /\ \A k \in 1 .. Len(gt[n].pdus) : <<n, k>> \in Known(gt)
<1>1. Len(gt) \in Nat
  BY DEF Stamped
<1>2. ASSUME NEW n \in 1 .. Len(gt)
      PROVE  /\ gt[n].len \in Nat /\ gt[n].port \in Port /\ Len(gt[n].pdus) \in Nat
             /\ \A k \in 1 .. Len(gt[n].pdus) : gt[n].pdus[k].id = <<n, k>>
             /\ \A k \in 1 .. Len(gt[n].pdus) : <<n, k>> \in Known(gt)
  <2>1. PICK t \in Traffic : gt[n] = Stamp(t, n)
    BY DEF Stamped
  <2>2. n \in Nat
    BY <1>1
  <2>3. /\ gt[n].len \in Nat /\ gt[n].port \in Port /\ Len(gt[n].pdus) \in Nat
        /\ \A k \in 1 .. Len(gt[n].pdus) :
             gt[n].pdus[k] = [id |-> <<n, k>>, kind |-> t.pdus[k].kind, len |-> t.pdus[k].len,
                              proto |-> t.pdus[k].proto]
    BY <2>1, <2>2, StampFacts
  <2>4. ASSUME NEW k \in 1 .. Len(gt[n].pdus) PROVE gt[n].pdus[k].id = <<n, k>>
    <3> DEFINE x == gt[n].pdus[k]
               y == <<n, k>>
    <3>1. x = [id |-> y, kind |-> t.pdus[k].kind, len |-> t.pdus[k].len,
               proto |-> t.pdus[k].proto]
      BY <2>3
    <3> HIDE DEF x, y
    <3>2. x.id = y
      BY <3>1
    <3>3. QED
      BY <3>2 DEF x, y
  <2>5. ASSUME NEW k \in 1 .. Len(gt[n].pdus) PROVE <<n, k>> \in Known(gt)
    <3> DEFINE x == <<n, k>>
    <3>1. x[1] = n /\ x[2] = k /\ x \in Nat \X Nat
      BY <1>1, <2>3
    <3> HIDE DEF x
    <3>2. x \in Known(gt)
      BY <3>1 DEF Known
    <3>3. QED
      BY <3>2 DEF x
  <2>6. QED
    BY <2>3, <2>4, <2>5
<1>3. QED
  BY <1>1, <1>2

\* What a PDU as received is known by.
LEMMA GenuineFacts ==
  ASSUME NEW gt, Stamped(gt)
  PROVE  /\ Genuine1(gt) \subseteq Genuine(gt)
         /\ \A d \in Genuine(gt) : d.id \in Known(gt) /\ d = ReceivedIn(gt, d.id)
         /\ \A d \in Genuine1(gt) : d.id \in Known(gt) /\ gt[d.id[1]].port = 1
<1>1. Genuine1(gt) \subseteq Genuine(gt)
  BY DEF Genuine, Genuine1
<1>2. \A x : ReceivedIn(gt, x).id = x
  BY DEF ReceivedIn
<1>3. QED
  BY <1>1, <1>2 DEF Genuine, Genuine1

-----------------------------------------------------------------------------
(* Places and stages *)

\* Fewer PDUs are still in order.
LEMMA BeforeLess ==
  ASSUME NEW A, NEW B, NEW C, NEW D, NEW gt, C \subseteq A, D \subseteq B, Before(A, B, gt)
  PROVE  Before(C, D, gt)
BY DEF Before

\* No PDUs, and those of two sets.
LEMMA BeforeUnion ==
  ASSUME NEW A, NEW B, NEW C, NEW gt
  PROVE  /\ Before({}, A, gt) /\ Before(A, {}, gt)
         /\ Before(A, C, gt) /\ Before(B, C, gt) => Before(A \cup B, C, gt)
         /\ Before(A, B, gt) /\ Before(A, C, gt) => Before(A, B \cup C, gt)
BY DEF Before

\* Nothing at a place.
LEMMA PlaceEmpty ==
  ASSUME NEW p, NEW bf, NEW gt
  PROVE  PlaceInv(p, <<>>, bf, gt) /\ IdsIn(p, <<>>, bf) = {}
<1>1. Len(<<>>) = 0 /\ 1 .. 0 = {}
  OBVIOUS
<1>2. QED
  BY <1>1 DEF PlaceInv, IdsIn

\* The mbufs at a place are not modified.
SameMbufs(s, bf, cf) == \A k \in 1 .. Len(s) : cf[s[k]] = bf[s[k]]

\* What is known of the place is still true.
LEMMA PlaceKept ==
  ASSUME NEW p, NEW s, NEW bf, NEW cf, NEW gt, PlaceInv(p, s, bf, gt), SameMbufs(s, bf, cf)
  PROVE  PlaceInv(p, s, cf, gt) /\ IdsIn(p, s, cf) = IdsIn(p, s, bf)
<1>1. PlaceInv(p, s, cf, gt)
  BY DEF PlaceInv, SameMbufs
<1>2. IdsIn(p, s, cf) = IdsIn(p, s, bf)
  BY DEF IdsIn, SameMbufs
<1>3. QED
  BY <1>1, <1>2

\* The first one is taken from a place.
LEMMA PlaceTail ==
  ASSUME NEW p, NEW s \in Seq(AllMbufs), s # <<>>, NEW bf, NEW gt, PlaceInv(p, s, bf, gt)
  PROVE  /\ PlaceInv(p, Tail(s), bf, gt) /\ IdsIn(p, Tail(s), bf) \subseteq IdsIn(p, s, bf)
         /\ Right(p, bf[Head(s)], gt) /\ IdsAt(p, bf[Head(s)]) \subseteq IdsIn(p, s, bf)
         /\ Before(IdsAt(p, bf[Head(s)]), IdsIn(p, Tail(s), bf), gt)
<1> DEFINE r == Tail(s)
           N == Len(s)
           h == Head(s)
<1>1. /\ N \in Nat /\ N >= 1 /\ h = s[1] /\ Len(r) = N - 1
      /\ \A k \in 1 .. N - 1 : r[k] = s[k + 1]
  OBVIOUS
<1> HIDE DEF r, N, h
<1>2. 1 \in 1 .. N /\ \A k \in 1 .. N - 1 : k \in Nat /\ k + 1 \in 1 .. N /\ 1 < k + 1
  BY <1>1
<1>3. \A k \in 1 .. N : Right(p, bf[s[k]], gt)
  BY DEF PlaceInv, N
<1>4. \A j, k \in 1 .. N : j < k => Before(IdsAt(p, bf[s[j]]), IdsAt(p, bf[s[k]]), gt)
  BY DEF PlaceInv, N
<1>5. \A k \in 1 .. Len(r) : Right(p, bf[r[k]], gt)
  BY <1>1, <1>2, <1>3
<1>6. \A j, k \in 1 .. Len(r) : j < k => Before(IdsAt(p, bf[r[j]]), IdsAt(p, bf[r[k]]), gt)
  <2> SUFFICES ASSUME NEW j \in 1 .. Len(r), NEW k \in 1 .. Len(r), j < k
               PROVE  Before(IdsAt(p, bf[r[j]]), IdsAt(p, bf[r[k]]), gt)
    OBVIOUS
  <2>1. j + 1 \in 1 .. N /\ k + 1 \in 1 .. N /\ j + 1 < k + 1
    BY <1>1, <1>2
  <2>2. r[j] = s[j + 1] /\ r[k] = s[k + 1]
    BY <1>1
  <2>3. QED
    BY <1>4, <2>1, <2>2
<1>7. IdsIn(p, r, bf) \subseteq IdsIn(p, s, bf)
  <2> SUFFICES ASSUME NEW x \in IdsIn(p, r, bf) PROVE x \in IdsIn(p, s, bf)
    OBVIOUS
  <2>1. PICK k \in 1 .. Len(r) : x \in IdsAt(p, bf[r[k]])
    BY DEF IdsIn
  <2>2. k + 1 \in 1 .. N /\ r[k] = s[k + 1]
    BY <1>1, <1>2
  <2>3. QED
    BY <2>1, <2>2 DEF IdsIn, N
<1>8. Right(p, bf[h], gt) /\ IdsAt(p, bf[h]) \subseteq IdsIn(p, s, bf)
  BY <1>1, <1>2, <1>3 DEF IdsIn, N
<1>9. Before(IdsAt(p, bf[h]), IdsIn(p, r, bf), gt)
  <2>1. \A k \in 1 .. Len(r) : Before(IdsAt(p, bf[h]), IdsAt(p, bf[r[k]]), gt)
    BY <1>1, <1>2, <1>4
  <2>2. QED
    BY <2>1 DEF Before, IdsIn
<1>10. QED
  BY <1>5, <1>6, <1>7, <1>8, <1>9 DEF PlaceInv, r, h

\* One is put at the end.
LEMMA PlaceAppend ==
  ASSUME NEW p, NEW s, s \in Seq(AllMbufs), NEW m, NEW bf, NEW gt, PlaceInv(p, s, bf, gt),
         Right(p, bf[m], gt), Before(IdsIn(p, s, bf), IdsAt(p, bf[m]), gt)
  PROVE  /\ PlaceInv(p, Append(s, m), bf, gt)
         /\ IdsIn(p, Append(s, m), bf) = IdsIn(p, s, bf) \cup IdsAt(p, bf[m])
<1> DEFINE r == Append(s, m)
           N == Len(s)
<1>1. N \in Nat /\ Len(r) = N + 1 /\ r[N + 1] = m /\ \A k \in 1 .. N : r[k] = s[k]
  OBVIOUS
<1> HIDE DEF r, N
<1>2. \A k : k \in 1 .. N + 1 <=> k \in 1 .. N \/ k = N + 1
  BY <1>1
<1>3. \A k \in 1 .. N : Right(p, bf[s[k]], gt)
  BY DEF PlaceInv, N
<1>4. \A j, k \in 1 .. N : j < k => Before(IdsAt(p, bf[s[j]]), IdsAt(p, bf[s[k]]), gt)
  BY DEF PlaceInv, N
<1>5. \A k \in 1 .. Len(r) : Right(p, bf[r[k]], gt)
  BY <1>1, <1>2, <1>3
<1>6. \A j, k \in 1 .. Len(r) : j < k => Before(IdsAt(p, bf[r[j]]), IdsAt(p, bf[r[k]]), gt)
  <2> SUFFICES ASSUME NEW j \in 1 .. Len(r), NEW k \in 1 .. Len(r), j < k
               PROVE  Before(IdsAt(p, bf[r[j]]), IdsAt(p, bf[r[k]]), gt)
    OBVIOUS
  <2>1. j \in 1 .. N
    BY <1>1
  <2>2. CASE k \in 1 .. N
    BY <1>1, <1>4, <2>1, <2>2
  <2>3. CASE k = N + 1
    <3>1. IdsAt(p, bf[s[j]]) \subseteq IdsIn(p, s, bf)
      BY <2>1 DEF IdsIn, N
    <3>2. Before(IdsAt(p, bf[s[j]]), IdsAt(p, bf[m]), gt)
      BY <3>1 DEF Before
    <3>3. QED
      BY <1>1, <2>1, <2>3, <3>2
  <2>4. QED
    BY <1>1, <1>2, <2>2, <2>3
<1>7. IdsIn(p, r, bf) = IdsIn(p, s, bf) \cup IdsAt(p, bf[m])
  <2>1. ASSUME NEW x \in IdsIn(p, r, bf) PROVE x \in IdsIn(p, s, bf) \cup IdsAt(p, bf[m])
    <3>1. PICK k \in 1 .. Len(r) : x \in IdsAt(p, bf[r[k]])
      BY <2>1 DEF IdsIn
    <3>2. QED
      BY <1>1, <1>2, <3>1 DEF IdsIn, N
  <2>2. ASSUME NEW x \in IdsIn(p, s, bf) PROVE x \in IdsIn(p, r, bf)
    <3>1. PICK k \in 1 .. Len(s) : x \in IdsAt(p, bf[s[k]])
      BY <2>2 DEF IdsIn
    <3>2. k \in 1 .. Len(r) /\ r[k] = s[k]
      BY <1>1, <1>2, <3>1 DEF N
    <3>3. QED
      BY <3>1, <3>2 DEF IdsIn
  <2>3. ASSUME NEW x \in IdsAt(p, bf[m]) PROVE x \in IdsIn(p, r, bf)
    <3>1. N + 1 \in 1 .. Len(r) /\ r[N + 1] = m
      BY <1>1
    <3>2. QED
      BY <2>3, <3>1 DEF IdsIn
  <2>4. QED
    BY <2>1, <2>2, <2>3
<1>8. QED
  BY <1>5, <1>6, <1>7 DEF PlaceInv, r

\* No mbuf but m is modified.
Only(m, bf, cf) == \A x \in AllMbufs : x # m => cf[x] = bf[x]

\* An mbuf is in one place, and so only one place sees that it is modified.
LEMMA Untouched ==
  ASSUME NEW L, OnePlace(L), NEW q \in Place, L[q] # <<>>, NEW p \in Place, NEW bf, NEW cf,
         Only(Head(L[q]), bf, cf)
  PROVE  /\ p # q => SameMbufs(L[p], bf, cf)
         /\ L[p] # <<>> => SameMbufs(Tail(L[p]), bf, cf)
         /\ Head(L[q]) \in AllMbufs
<1> DEFINE s == L[p]
           t == L[q]
           m == Head(t)
<1>1. s \in Seq(AllMbufs) /\ t \in Seq(AllMbufs) /\ t # <<>>
  BY DEF OnePlace
<1>2. \A i \in 1 .. Len(s), j \in 1 .. Len(t) : s[i] = t[j] => p = q /\ i = j
  BY DEF OnePlace
<1>3. \A x \in AllMbufs : x # m => cf[x] = bf[x]
  BY DEF Only
<1> HIDE DEF s, t
<1>4. 1 \in 1 .. Len(t) /\ m = t[1] /\ m \in AllMbufs /\ \A k \in 1 .. Len(s) : s[k] \in AllMbufs
  BY <1>1
<1>5. s # <<>> => \A k \in 1 .. Len(Tail(s)) : k + 1 \in 1 .. Len(s) /\ k + 1 # 1 /\ Tail(s)[k] = s[k + 1]
  BY <1>1
<1> HIDE DEF m
<1>6. p # q => \A k \in 1 .. Len(s) : cf[s[k]] = bf[s[k]]
  BY <1>2, <1>3, <1>4
<1>7. s # <<>> => \A k \in 1 .. Len(Tail(s)) : cf[Tail(s)[k]] = bf[Tail(s)[k]]
  <2> SUFFICES ASSUME s # <<>>, NEW k \in 1 .. Len(Tail(s)) PROVE cf[Tail(s)[k]] = bf[Tail(s)[k]]
    OBVIOUS
  <2>1. k + 1 \in 1 .. Len(s) /\ k + 1 # 1 /\ Tail(s)[k] = s[k + 1]
    BY <1>5
  <2>2. s[k + 1] # m
    BY <1>2, <1>4, <2>1
  <2>3. QED
    BY <1>3, <1>4, <2>1, <2>2
<1>8. QED
  BY <1>4, <1>6, <1>7 DEF s, t, m, SameMbufs

\* A place loses its first mbuf, all or none.
Less(s, r) == r = s \/ r = <<>> \/ (s # <<>> /\ r = Tail(s))

\* What is known of a place that loses mbufs.
LEMMA PlaceLess ==
  ASSUME NEW L, OnePlace(L), NEW q \in Place, L[q] # <<>>, NEW p \in 1 .. 13, NEW bf, NEW cf,
         Only(Head(L[q]), bf, cf), NEW gt,
         PlaceInv(p, L[p], bf, gt), NEW r, Less(L[p], r), r = L[p] => p # q \/ cf = bf
  PROVE  PlaceInv(p, r, cf, gt) /\ IdsIn(p, r, cf) \subseteq IdsIn(p, L[p], bf)
<1>1. p \in Place /\ L[p] \in Seq(AllMbufs)
  <2>1. p \in Place
    BY DEF Place
  <2>2. QED
    BY <2>1 DEF OnePlace
<1>2. CASE r = <<>>
  BY <1>2, PlaceEmpty
<1>3. CASE r = L[p]
  <2>1. SameMbufs(L[p], bf, cf)
    <3>1. CASE p # q
      BY <1>1, <3>1, Untouched
    <3>2. CASE cf = bf
      BY <3>2 DEF SameMbufs
    <3>3. QED
      BY <1>3, <3>1, <3>2
  <2>2. QED
    BY <1>3, <2>1, PlaceKept
<1>4. CASE L[p] # <<>> /\ r = Tail(L[p])
  <2>1. PlaceInv(p, r, bf, gt) /\ IdsIn(p, r, bf) \subseteq IdsIn(p, L[p], bf)
    BY <1>1, <1>4, PlaceTail
  <2>2. SameMbufs(r, bf, cf)
    BY <1>1, <1>4, Untouched
  <2>3. QED
    BY <2>1, <2>2, PlaceKept
<1>5. QED
  BY <1>2, <1>3, <1>4 DEF Less

\* What is in the stages.
LEMMA StageFacts ==
  ASSUME NEW L, NEW bf, NEW sn, NEW bu, NEW rm
  PROVE  LET T == Stages(L, bf, sn, bu, rm) IN
         /\ \A p \in 1 .. 13 : T[p] = IdsIn(p, L[p], bf)
         /\ T[14] = SeqIds(sn[0]) /\ T[15] = SeqIds(sn[1]) /\ T[16] = SeqIds(bu) /\ T[17] = rm
<1> DEFINE T == Stages(L, bf, sn, bu, rm)
<1>1. ASSUME NEW p \in 1 .. 13 PROVE T[p] = IdsIn(p, L[p], bf)
  <2>1. p \in Stage /\ p <= 13
    BY DEF Stage
  <2>2. QED
    BY <2>1 DEF Stages
<1>2. T[14] = SeqIds(sn[0]) /\ T[15] = SeqIds(sn[1]) /\ T[16] = SeqIds(bu) /\ T[17] = rm
  <2>1. 14 \in Stage /\ 15 \in Stage /\ 16 \in Stage /\ 17 \in Stage
    BY DEF Stage
  <2>2. QED
    BY <2>1 DEF Stages
<1>3. QED
  BY <1>1, <1>2

\* The PDUs M come to stage a, and elsewhere none.
LEMMA Flow ==
  ASSUME NEW T, NEW U, NEW gt, Chained(T, gt), NEW a \in Stage, NEW M,
         \A b \in Stage : b # a => U[b] \subseteq T[b], U[a] \subseteq T[a] \cup M,
         \A b \in Stage : Ahead(b, a) => Before(T[b], M, gt),
         \A b \in Stage : Ahead(a, b) => Before(M, U[b], gt)
  PROVE  Chained(U, gt)
<1> SUFFICES ASSUME NEW x \in Stage, NEW y \in Stage, Ahead(x, y) PROVE Before(U[x], U[y], gt)
  BY DEF Chained
<1>1. Before(T[x], T[y], gt)
  BY DEF Chained
<1>2. x # y
  BY DEF Ahead, ToPort0, ToPort1
<1>3. CASE x # a /\ y # a
  BY <1>1, <1>3, BeforeLess
<1>4. CASE x = a
  <2>1. U[y] \subseteq T[y] /\ Before(M, U[y], gt)
    BY <1>2, <1>4
  <2>2. Before(T[a], U[y], gt)
    BY <1>1, <1>4, <2>1, BeforeLess
  <2>3. Before(T[a] \cup M, U[y], gt)
    BY <2>1, <2>2, BeforeUnion
  <2>4. QED
    BY <1>4, <2>3, BeforeLess
<1>5. CASE y = a
  <2>1. U[x] \subseteq T[x] /\ Before(T[x], M, gt)
    BY <1>2, <1>5
  <2>2. Before(T[x], T[a] \cup M, gt)
    BY <1>1, <1>5, <2>1, BeforeUnion
  <2>3. QED
    BY <1>5, <2>1, <2>2, BeforeLess
<1>6. QED
  BY <1>3, <1>4, <1>5

\* Stage c is right behind stage a.  (The rest of a PDU waits between ring and frame.)
Follows(a, c) ==
  /\ Ahead(a, c)
  /\ \A b \in Stage : Ahead(b, a) => Ahead(b, c)
  /\ \A b \in Stage : Ahead(a, b) => Ahead(c, b) \/ b = c \/ (a = 8 /\ b = 4)

\* The stages of the two ways, in turn.
LEMMA AllFollow ==
  /\ Follows(9, 1) /\ Follows(10, 2) /\ Follows(12, 10) /\ Follows(11, 17) /\ Follows(5, 11)
  /\ Follows(15, 5) /\ Follows(8, 12) /\ Follows(4, 12) /\ Follows(8, 4) /\ Follows(16, 8)
  /\ Follows(13, 16) /\ Follows(7, 13) /\ Follows(14, 7)
<1> USE DEF Follows, Ahead, ToPort0, ToPort1, Stage
<1>1. Follows(9, 1) /\ Follows(10, 2)
  OBVIOUS
<1>2. Follows(12, 10) /\ Follows(11, 17)
  OBVIOUS
<1>3. Follows(5, 11) /\ Follows(15, 5)
  OBVIOUS
<1>4. Follows(8, 12) /\ Follows(4, 12)
  OBVIOUS
<1>5. Follows(8, 4) /\ Follows(16, 8)
  OBVIOUS
<1>6. Follows(13, 16) /\ Follows(7, 13)
  OBVIOUS
<1>7. Follows(14, 7)
  OBVIOUS
<1> HIDE DEF Follows
<1>8. QED
  BY <1>1, <1>2, <1>3, <1>4, <1>5, <1>6, <1>7

\* The PDUs M come from stage c, right behind a.
LEMMA FlowFrom ==
  ASSUME NEW T, NEW U, NEW gt, Chained(T, gt), NEW a \in Stage, NEW c \in Stage, Follows(a, c),
         NEW M, M \subseteq T[c], Before(M, U[c], gt), a = 8 => U[4] = {},
         \A b \in Stage : b # a => U[b] \subseteq T[b], U[a] \subseteq T[a] \cup M
  PROVE  Chained(U, gt)
<1>1. \A b \in Stage : Ahead(b, c) => Before(T[b], M, gt)
  BY BeforeLess DEF Chained
<1>2. \A b \in Stage : Ahead(b, a) => Before(T[b], M, gt)
  BY <1>1 DEF Follows
<1>3. ASSUME NEW b \in Stage, Ahead(a, b) PROVE Before(M, U[b], gt)
  <2>1. b # a
    BY <1>3 DEF Ahead, ToPort0, ToPort1
  <2>2. CASE Ahead(c, b)
    <3>1. Before(T[c], T[b], gt) /\ U[b] \subseteq T[b]
      BY <2>1, <2>2 DEF Chained
    <3>2. QED
      BY <3>1, BeforeLess
  <2>3. CASE b = c
    BY <2>3
  <2>4. CASE a = 8 /\ b = 4
    BY <2>4, BeforeUnion
  <2>5. QED
    BY <1>3, <2>2, <2>3, <2>4 DEF Follows
<1>4. QED
  BY <1>2, <1>3, Flow

\* A step that takes the mbuf m from the front of q and puts it, as it is then, at the
\* end of place a; elsewhere nothing comes.
Moves(L, bf, bu, rm, K, cf, bv, rv, q, m, a) ==
  /\ q \in Place /\ L[q] # <<>> /\ m = Head(L[q]) /\ a \in 1 .. 13 /\ a # q
  /\ Only(m, bf, cf)
  /\ K[a] = Append(L[a], m) /\ \A p \in 1 .. 13 : p # a => Less(L[p], K[p])
  /\ q <= 13 => K[q] = Tail(L[q])
  /\ bv = bu \/ bv = <<>>
  /\ rv \subseteq rm

\* What such a step leaves at the places and in the stages.
LEMMA MovesFacts ==
  ASSUME NEW L, NEW bf, NEW sn, NEW bu, NEW rm, NEW gt, Trace(L, bf, sn, bu, rm, gt), OnePlace(L),
         NEW K, NEW cf, NEW bv, NEW rv, NEW q, NEW m, NEW a,
         Moves(L, bf, bu, rm, K, cf, bv, rv, q, m, a), Right(a, cf[m], gt),
         Before(IdsIn(a, L[a], bf), IdsAt(a, cf[m]), gt)
  PROVE  LET T == Stages(L, bf, sn, bu, rm)
             U == Stages(K, cf, sn, bv, rv) IN
         /\ \A p \in 1 .. 13 : PlaceInv(p, K[p], cf, gt)
         /\ SentInv(sn, bv, gt) /\ rv \subseteq Known(gt) /\ a \in Stage
         /\ \A b \in Stage : b # a => U[b] \subseteq T[b]
         /\ U[a] \subseteq T[a] \cup IdsAt(a, cf[m])
<1> DEFINE T == Stages(L, bf, sn, bu, rm)
           U == Stages(K, cf, sn, bv, rv)
           M == IdsAt(a, cf[m])
<1>1. /\ Stamped(gt) /\ \A p \in 1 .. 13 : PlaceInv(p, L[p], bf, gt)
      /\ SentInv(sn, bu, gt) /\ rm \subseteq Known(gt)
  BY DEF Trace
<1>2. /\ q \in Place /\ L[q] # <<>> /\ m = Head(L[q]) /\ a \in 1 .. 13 /\ a # q
      /\ Only(m, bf, cf) /\ K[a] = Append(L[a], m)
      /\ \A p \in 1 .. 13 : p # a => Less(L[p], K[p])
      /\ q <= 13 => K[q] = Tail(L[q])
      /\ bv = bu \/ bv = <<>>
      /\ rv \subseteq rm
  BY DEF Moves
<1>3. ASSUME NEW p \in 1 .. 13, p # a
      PROVE  PlaceInv(p, K[p], cf, gt) /\ IdsIn(p, K[p], cf) \subseteq IdsIn(p, L[p], bf)
  <2> DEFINE r == K[p]
  <2>1. PlaceInv(p, L[p], bf, gt) /\ Less(L[p], r) /\ Only(Head(L[q]), bf, cf)
    BY <1>1, <1>2, <1>3
  <2>2. r = L[p] => p # q \/ cf = bf
    <3>1. p = q => L[q] \in Seq(AllMbufs) /\ r = Tail(L[q])
      <4>1. L[q] \in Seq(AllMbufs)
        BY <1>2 DEF OnePlace
      <4>2. p <= 13
        OBVIOUS
      <4>3. QED
        BY <1>2, <4>1, <4>2
    <3>2. L[q] \in Seq(AllMbufs) => Len(Tail(L[q])) # Len(L[q])
      BY <1>2
    <3>3. QED
      BY <3>1, <3>2
  <2> HIDE DEF r
  <2>3. PlaceInv(p, r, cf, gt) /\ IdsIn(p, r, cf) \subseteq IdsIn(p, L[p], bf)
    BY <1>2, <2>1, <2>2, PlaceLess
  <2>4. QED
    BY <2>3 DEF r
<1>4. PlaceInv(a, K[a], cf, gt) /\ IdsIn(a, K[a], cf) = IdsIn(a, L[a], bf) \cup M
  <2> DEFINE s == L[a]
  <2>1. PlaceInv(a, s, bf, gt) /\ Before(IdsIn(a, s, bf), M, gt)
    BY <1>1, <1>2
  <2>2. a \in Place /\ s \in Seq(AllMbufs)
    <3>1. a \in Place
      BY <1>2 DEF Place
    <3>2. QED
      BY <3>1 DEF OnePlace
  <2>3. SameMbufs(s, bf, cf)
    <3>1. OnePlace(L) /\ q \in Place /\ L[q] # <<>> /\ a # q /\ Only(Head(L[q]), bf, cf)
      BY <1>2
    <3>2. SameMbufs(L[a], bf, cf)
      BY ONLY <2>2, <3>1, Untouched
    <3>3. QED
      BY <3>2
  <2> HIDE DEF s
  <2>4. PlaceInv(a, s, cf, gt) /\ IdsIn(a, s, cf) = IdsIn(a, s, bf)
    BY <2>1, <2>3, PlaceKept
  <2>5. Right(a, cf[m], gt) /\ Before(IdsIn(a, s, cf), IdsAt(a, cf[m]), gt)
    BY <2>1, <2>4
  <2>6. /\ PlaceInv(a, Append(s, m), cf, gt)
        /\ IdsIn(a, Append(s, m), cf) = IdsIn(a, s, cf) \cup IdsAt(a, cf[m])
    <3>1. s \in Seq(AllMbufs)
      BY <2>2
    <3>2. PlaceInv(a, s, cf, gt)
      BY <2>4
    <3> QED
      BY ONLY <2>5, <3>1, <3>2, PlaceAppend
  <2>7. QED
    BY <1>2, <2>4, <2>6 DEF s
<1>5. \A p \in 1 .. 13 : PlaceInv(p, K[p], cf, gt)
  BY <1>3, <1>4
<1>6. a \in Stage /\ \A b \in Stage : b \in 1 .. 13 \/ b \in {14, 15, 16, 17}
  BY <1>2 DEF Stage
<1>7. /\ \A b \in 1 .. 13 : T[b] = IdsIn(b, L[b], bf)
      /\ T[14] = SeqIds(sn[0]) /\ T[15] = SeqIds(sn[1]) /\ T[16] = SeqIds(bu) /\ T[17] = rm
  BY StageFacts
<1>8. /\ \A b \in 1 .. 13 : U[b] = IdsIn(b, K[b], cf)
      /\ U[14] = SeqIds(sn[0]) /\ U[15] = SeqIds(sn[1]) /\ U[16] = SeqIds(bv) /\ U[17] = rv
  BY StageFacts
<1>9. SeqIds(bv) \subseteq SeqIds(bu)
  BY <1>2 DEF SeqIds
<1>10. SentInv(sn, bv, gt) /\ rv \subseteq Known(gt)
  <2>1. bv \in Seq(Genuine1(gt)) /\ Rising(bv, gt)
    <3>1. CASE bv = <<>>
      <4>1. Len(bv) = 0 /\ bv \in Seq(Genuine1(gt))
        BY <3>1
      <4>2. QED
        BY <4>1 DEF Rising
    <3>2. CASE bv = bu
      BY <1>1, <3>2 DEF SentInv
    <3>3. QED
      BY <1>2, <3>1, <3>2
  <2>2. QED
    BY <1>1, <1>2, <2>1 DEF SentInv
<1> HIDE DEF T, U
<1>11. \A b \in Stage : b # a => U[b] \subseteq T[b]
  <2>1. \A b \in 1 .. 13 : b # a => U[b] \subseteq T[b]
    BY <1>3, <1>7, <1>8
  <2>2. rv \subseteq rm
    BY <1>2
  <2>3. \A b \in {14, 15, 16, 17} : U[b] \subseteq T[b]
    BY ONLY <1>7, <1>8, <1>9, <2>2
  <2>4. QED
    BY ONLY <1>6, <2>1, <2>3
<1>12. U[a] \subseteq T[a] \cup M
  BY <1>2, <1>4, <1>7, <1>8
<1>13. QED
  BY <1>5, <1>6, <1>10, <1>11, <1>12 DEF T, U

\* The PDUs in it come from stage c.
LEMMA Moved ==
  ASSUME NEW L, NEW bf, NEW sn, NEW bu, NEW rm, NEW gt, Trace(L, bf, sn, bu, rm, gt), OnePlace(L),
         NEW K, NEW cf, NEW bv, NEW rv, NEW q, NEW m, NEW a, NEW c \in Stage,
         Moves(L, bf, bu, rm, K, cf, bv, rv, q, m, a), Right(a, cf[m], gt), CopyInv(K, cf),
         Follows(a, c), IdsAt(a, cf[m]) \subseteq Stages(L, bf, sn, bu, rm)[c],
         Before(IdsAt(a, cf[m]), Stages(K, cf, sn, bv, rv)[c], gt), a = 8 => K[4] = <<>>
  PROVE  Trace(K, cf, sn, bv, rv, gt)
<1> DEFINE T == Stages(L, bf, sn, bu, rm)
           U == Stages(K, cf, sn, bv, rv)
           M == IdsAt(a, cf[m])
<1>1. Chained(T, gt) /\ Stamped(gt)
  BY DEF Trace
<1>2. a \in 1 .. 13 /\ a \in Stage
  BY DEF Moves, Stage
<1>3. Before(T[a], T[c], gt)
  BY <1>1, <1>2 DEF Chained, Follows
<1>4. T[a] = IdsIn(a, L[a], bf)
  BY <1>2, StageFacts, SMTT(30)
<1>5. U[4] = IdsIn(4, K[4], cf)
  BY StageFacts
<1>6. M \subseteq T[c] /\ Before(M, U[c], gt)
  OBVIOUS
<1>7. a = 8 => U[4] = {}
  BY <1>5, PlaceEmpty
<1> HIDE DEF T, U, M
<1>8. Before(IdsIn(a, L[a], bf), M, gt)
  BY <1>3, <1>4, <1>6, BeforeLess
<1>9. /\ \A p \in 1 .. 13 : PlaceInv(p, K[p], cf, gt)
      /\ SentInv(sn, bv, gt) /\ rv \subseteq Known(gt)
      /\ \A b \in Stage : b # a => U[b] \subseteq T[b]
      /\ U[a] \subseteq T[a] \cup M
  BY <1>8, MovesFacts DEF T, U, M
<1>10. Chained(U, gt)
  BY ONLY <1>1, <1>2, <1>6, <1>7, <1>9, Follows(a, c), c \in Stage, FlowFrom
<1>11. QED
  BY <1>1, <1>9, <1>10 DEF Trace, U

\* Only the places in use matter.
LEMMA SameTrace ==
  ASSUME NEW L, NEW bf, NEW sn, NEW bu, NEW rm, NEW gt, Trace(L, bf, sn, bu, rm, gt),
         NEW K, \A p \in 1 .. 13 : K[p] = L[p]
  PROVE  Trace(K, bf, sn, bu, rm, gt)
<1>1. CopyInv(L, bf) => CopyInv(K, bf)
  BY DEF CopyInv
<1>2. Stages(L, bf, sn, bu, rm) = Stages(K, bf, sn, bu, rm)
  <2>1. \A p \in Stage : p <= 13 => p \in 1 .. 13
    BY DEF Stage
  <2>2. QED
    BY <2>1 DEF Stages
<1>3. QED
  BY <1>1, <1>2 DEF Trace

\* A step by which mbufs leave the places, and nothing comes to any.
Shrinks(L, bf, bu, rm, K, cf, bv, rv, q, m) ==
  /\ q \in Place /\ L[q] # <<>> /\ m = Head(L[q]) /\ Only(m, bf, cf)
  /\ \A p \in 1 .. 13 : Less(L[p], K[p]) /\ (p = q => K[p] # L[p])
  /\ bv = bu \/ bv = <<>>
  /\ rv \subseteq rm

\* What is known of the mbufs is still true.
LEMMA Shrunk ==
  ASSUME NEW L, NEW bf, NEW sn, NEW bu, NEW rm, NEW gt, Trace(L, bf, sn, bu, rm, gt), OnePlace(L),
         NEW K, NEW cf, NEW bv, NEW rv, NEW q, NEW m,
         Shrinks(L, bf, bu, rm, K, cf, bv, rv, q, m), CopyInv(K, cf)
  PROVE  Trace(K, cf, sn, bv, rv, gt)
<1> DEFINE T == Stages(L, bf, sn, bu, rm)
           U == Stages(K, cf, sn, bv, rv)
<1>1. /\ Stamped(gt) /\ \A p \in 1 .. 13 : PlaceInv(p, L[p], bf, gt)
      /\ SentInv(sn, bu, gt) /\ rm \subseteq Known(gt) /\ Chained(T, gt)
  BY DEF Trace
<1>2. /\ q \in Place /\ L[q] # <<>> /\ m = Head(L[q]) /\ Only(Head(L[q]), bf, cf)
      /\ \A p \in 1 .. 13 : Less(L[p], K[p]) /\ (p = q => K[p] # L[p])
      /\ bv = bu \/ bv = <<>>
      /\ rv \subseteq rm
  BY DEF Shrinks
<1>3. ASSUME NEW p \in 1 .. 13
      PROVE  PlaceInv(p, K[p], cf, gt) /\ IdsIn(p, K[p], cf) \subseteq IdsIn(p, L[p], bf)
  <2> DEFINE r == K[p]
  <2>1. PlaceInv(p, L[p], bf, gt) /\ Less(L[p], r) /\ (r = L[p] => p # q \/ cf = bf)
    BY <1>1, <1>2
  <2> HIDE DEF r
  <2>2. PlaceInv(p, r, cf, gt) /\ IdsIn(p, r, cf) \subseteq IdsIn(p, L[p], bf)
    BY <1>2, <2>1, PlaceLess
  <2>3. QED
    BY <2>2 DEF r
<1>4. \A b \in Stage : b \in 1 .. 13 \/ b \in {14, 15, 16, 17}
  BY DEF Stage
<1>5. /\ \A b \in 1 .. 13 : T[b] = IdsIn(b, L[b], bf)
      /\ T[14] = SeqIds(sn[0]) /\ T[15] = SeqIds(sn[1]) /\ T[16] = SeqIds(bu) /\ T[17] = rm
  BY StageFacts
<1>6. /\ \A b \in 1 .. 13 : U[b] = IdsIn(b, K[b], cf)
      /\ U[14] = SeqIds(sn[0]) /\ U[15] = SeqIds(sn[1]) /\ U[16] = SeqIds(bv) /\ U[17] = rv
  BY StageFacts
<1>7. SeqIds(bv) \subseteq SeqIds(bu)
  BY <1>2 DEF SeqIds
<1>8. SentInv(sn, bv, gt) /\ rv \subseteq Known(gt)
  <2>1. bv \in Seq(Genuine1(gt)) /\ Rising(bv, gt)
    <3>1. CASE bv = <<>>
      <4>1. Len(bv) = 0 /\ bv \in Seq(Genuine1(gt))
        BY <3>1
      <4>2. QED
        BY <4>1 DEF Rising
    <3>2. CASE bv = bu
      BY <1>1, <3>2 DEF SentInv
    <3>3. QED
      BY <1>2, <3>1, <3>2
  <2>2. QED
    BY <1>1, <1>2, <2>1 DEF SentInv
<1> HIDE DEF T, U
<1>9. \A b \in Stage : U[b] \subseteq T[b]
  BY <1>2, <1>3, <1>4, <1>5, <1>6, <1>7
<1>10. Chained(U, gt)
  BY <1>1, <1>9, BeforeLess DEF Chained
<1>11. QED
  BY <1>1, <1>3, <1>8, <1>10 DEF Trace, U

\* A step that takes the PDUs out of the place c, which is then empty, to what is sent or
\* to the frame that is built, and modifies no mbuf.
Sends(L, bf, sn, bu, K, sv, bv, a, c) ==
  /\ a \in {14, 15, 16} /\ c \in 1 .. 13 /\ Follows(a, c)
  /\ \A p \in 1 .. 13 : K[p] = L[p] \/ K[p] = <<>>
  /\ K[c] = <<>>
  /\ a = 14 => SeqIds(sv[0]) \subseteq SeqIds(sn[0]) \cup IdsIn(c, L[c], bf)
  /\ a = 15 => SeqIds(sv[1]) \subseteq SeqIds(sn[1]) \cup IdsIn(c, L[c], bf)
  /\ a = 16 => SeqIds(bv) \subseteq SeqIds(bu) \cup IdsIn(c, L[c], bf)
  /\ a # 14 => sv[0] = sn[0]
  /\ a # 15 => sv[1] = sn[1]
  /\ a # 16 => bv = bu

\* What is known of the mbufs is still true.
LEMMA SentOn ==
  ASSUME NEW L, NEW bf, NEW sn, NEW bu, NEW rm, NEW gt, Trace(L, bf, sn, bu, rm, gt),
         NEW K, NEW sv, NEW bv, NEW a, NEW c, Sends(L, bf, sn, bu, K, sv, bv, a, c),
         SentInv(sv, bv, gt), CopyInv(K, bf)
  PROVE  Trace(K, bf, sv, bv, rm, gt)
<1>0. /\ a \in {14, 15, 16} /\ c \in 1 .. 13 /\ Follows(a, c)
      /\ \A p \in 1 .. 13 : K[p] = L[p] \/ K[p] = <<>>
      /\ K[c] = <<>>
      /\ a = 14 => SeqIds(sv[0]) \subseteq SeqIds(sn[0]) \cup IdsIn(c, L[c], bf)
      /\ a = 15 => SeqIds(sv[1]) \subseteq SeqIds(sn[1]) \cup IdsIn(c, L[c], bf)
      /\ a = 16 => SeqIds(bv) \subseteq SeqIds(bu) \cup IdsIn(c, L[c], bf)
      /\ a # 14 => sv[0] = sn[0]
      /\ a # 15 => sv[1] = sn[1]
      /\ a # 16 => bv = bu
  BY DEF Sends
<1> USE <1>0
<1> DEFINE T == Stages(L, bf, sn, bu, rm)
           U == Stages(K, bf, sv, bv, rm)
           M == IdsIn(c, L[c], bf)
<1>1. /\ Stamped(gt) /\ \A p \in 1 .. 13 : PlaceInv(p, L[p], bf, gt)
      /\ rm \subseteq Known(gt) /\ Chained(T, gt)
  BY DEF Trace
<1>2. \A p \in 1 .. 13 : PlaceInv(p, K[p], bf, gt) /\ IdsIn(p, K[p], bf) \subseteq IdsIn(p, L[p], bf)
  BY <1>1, PlaceEmpty
<1>3. IdsIn(c, K[c], bf) = {}
  BY PlaceEmpty
<1>4. /\ \A b \in Stage : b \in 1 .. 13 \/ b \in {14, 15, 16, 17}
      /\ a \in Stage /\ c \in Stage /\ a # 8
  BY DEF Stage
<1>5. /\ \A b \in 1 .. 13 : T[b] = IdsIn(b, L[b], bf)
      /\ T[14] = SeqIds(sn[0]) /\ T[15] = SeqIds(sn[1]) /\ T[16] = SeqIds(bu) /\ T[17] = rm
  BY StageFacts
<1>6. /\ \A b \in 1 .. 13 : U[b] = IdsIn(b, K[b], bf)
      /\ U[14] = SeqIds(sv[0]) /\ U[15] = SeqIds(sv[1]) /\ U[16] = SeqIds(bv) /\ U[17] = rm
  BY StageFacts
<1> HIDE DEF T, U
<1>7. \A b \in Stage : b # a => U[b] \subseteq T[b]
  <2>1. ASSUME NEW b \in 1 .. 13 PROVE U[b] \subseteq T[b]
    BY ONLY <1>2, <1>5, <1>6, <2>1
  <2>2. ASSUME NEW b \in {14, 15, 16, 17}, b # a PROVE U[b] \subseteq T[b]
    BY ONLY <1>0, <1>5, <1>6, <2>2, SMTT(30)
  <2>3. QED
    BY ONLY <1>4, <2>1, <2>2
<1>8. U[a] \subseteq T[a] \cup M
  BY <1>5, <1>6
<1>9. M \subseteq T[c] /\ Before(M, U[c], gt)
  BY <1>3, <1>5, <1>6, BeforeUnion
<1>10. a = 8 => U[4] = {}
  BY <1>4
<1> HIDE DEF M
<1>11. Chained(U, gt)
  BY ONLY <1>1, <1>4, <1>7, <1>8, <1>9, <1>10, Follows(a, c), FlowFrom
<1>12. QED
  BY <1>1, <1>2, <1>11 DEF Trace, U

-----------------------------------------------------------------------------
(* Another packet is received *)

\* The PDUs of an mbuf are PDUs of received packets, and of the port of their ring.
LEMMA RightIds ==
  ASSUME NEW gt, Stamped(gt), NEW p \in 1 .. 13, NEW b, Right(p, b, gt)
  PROVE  /\ IdsAt(p, b) \subseteq Known(gt)
         /\ p \in {1, 9} => \A x \in IdsAt(p, b) : gt[x[1]].port = 0
         /\ p \in {2, 10} => \A x \in IdsAt(p, b) : gt[x[1]].port = 1
<1>1. CASE p \in {1, 2, 9, 10}
  <2>1. PICK n \in 1 .. Len(gt) : b.data = gt[n]
    BY <1>1 DEF Right, Fresh
  <2>2. ASSUME NEW x \in SeqIds(b.data.pdus) PROVE x \in Known(gt) /\ x[1] = n
    <3>1. PICK k \in 1 .. Len(gt[n].pdus) : x = gt[n].pdus[k].id
      BY <2>1, <2>2 DEF SeqIds
    <3>2. x = <<n, k>> /\ <<n, k>> \in Known(gt)
      BY <3>1, PacketFacts
    <3>3. QED
      BY <3>2
  <2>3. IdsAt(p, b) = SeqIds(b.data.pdus)
    BY <1>1 DEF IdsAt
  <2>4. (p \in {1, 9} => gt[n].port = 0) /\ (p \in {2, 10} => gt[n].port = 1)
    BY <2>1 DEF Right
  <2>5. QED
    BY <2>2, <2>3, <2>4
<1>2. CASE p \in {5, 11}
  <2>1. OutOf(b) \in Genuine(gt) /\ IdsAt(p, b) = {OutOf(b).id}
    BY <1>2 DEF Right, IdsAt, OutOf
  <2>2. QED
    BY <1>2, <2>1, GenuineFacts
<1>3. CASE p \in {4, 8, 12}
  <2>1. InOf(b) \in Genuine1(gt) /\ IdsAt(p, b) = {InOf(b).id}
    BY <1>3 DEF Right, IdsAt, InOf
  <2>2. QED
    BY <1>3, <2>1, GenuineFacts
<1>4. CASE p \in {7, 13}
  <2>1. b.data \in Seq(Genuine1(gt)) /\ IdsAt(p, b) = SeqIds(b.data)
    BY <1>4 DEF Right, IdsAt
  <2>2. \A k \in 1 .. Len(b.data) : b.data[k] \in Genuine1(gt)
    BY <2>1
  <2>3. QED
    BY <1>4, <2>1, <2>2, GenuineFacts DEF SeqIds
<1>5. CASE p \in {3, 6}
  BY <1>5 DEF IdsAt
<1>6. QED
  BY <1>1, <1>2, <1>3, <1>4, <1>5

\* So are those of all the mbufs at a place.
LEMMA PlaceIds ==
  ASSUME NEW gt, Stamped(gt), NEW p \in 1 .. 13, NEW s, NEW bf, PlaceInv(p, s, bf, gt)
  PROVE  /\ IdsIn(p, s, bf) \subseteq Known(gt)
         /\ p \in {1, 9} => \A x \in IdsIn(p, s, bf) : gt[x[1]].port = 0
         /\ p \in {2, 10} => \A x \in IdsIn(p, s, bf) : gt[x[1]].port = 1
<1>1. \A k \in 1 .. Len(s) :
        /\ IdsAt(p, bf[s[k]]) \subseteq Known(gt)
        /\ p \in {1, 9} => \A x \in IdsAt(p, bf[s[k]]) : gt[x[1]].port = 0
        /\ p \in {2, 10} => \A x \in IdsAt(p, bf[s[k]]) : gt[x[1]].port = 1
  BY RightIds DEF PlaceInv
<1>2. QED
  BY <1>1 DEF IdsIn

\* And those that were sent, or are in the frame that is built.
LEMMA SeqIdsKnown ==
  ASSUME NEW gt, Stamped(gt), NEW s, s \in Seq(Genuine(gt)) \/ s \in Seq(Genuine1(gt))
  PROVE  SeqIds(s) \subseteq Known(gt) /\ \A k \in 1 .. Len(s) : s[k].id \in Known(gt)
<1>1. \A k \in 1 .. Len(s) : s[k] \in Genuine(gt)
  <2>1. CASE s \in Seq(Genuine(gt))
    BY <2>1
  <2>2. CASE s \in Seq(Genuine1(gt))
    <3>1. \A k \in 1 .. Len(s) : s[k] \in Genuine1(gt)
      BY <2>2
    <3>2. QED
      BY <3>1, GenuineFacts
  <2>3. QED
    BY <2>1, <2>2
<1>2. QED
  BY <1>1, GenuineFacts DEF SeqIds

\* And those of every stage.
LEMMA StagesKnown ==
  ASSUME NEW L, NEW bf, NEW sn, NEW bu, NEW rm, NEW gt, Trace(L, bf, sn, bu, rm, gt)
  PROVE  \A b \in Stage : Stages(L, bf, sn, bu, rm)[b] \subseteq Known(gt)
<1> DEFINE T == Stages(L, bf, sn, bu, rm)
<1>1. /\ Stamped(gt) /\ \A p \in 1 .. 13 : PlaceInv(p, L[p], bf, gt)
      /\ SentInv(sn, bu, gt) /\ rm \subseteq Known(gt)
  BY DEF Trace
<1>2. \A b \in Stage : b \in 1 .. 13 \/ b \in {14, 15, 16, 17}
  BY DEF Stage
<1>3. /\ \A b \in 1 .. 13 : T[b] = IdsIn(b, L[b], bf)
      /\ T[14] = SeqIds(sn[0]) /\ T[15] = SeqIds(sn[1]) /\ T[16] = SeqIds(bu) /\ T[17] = rm
  BY StageFacts
<1> HIDE DEF T
<1>4. \A b \in 1 .. 13 : T[b] \subseteq Known(gt)
  BY <1>1, <1>3, PlaceIds
<1>5. SeqIds(sn[0]) \subseteq Known(gt) /\ SeqIds(sn[1]) \subseteq Known(gt) /\ SeqIds(bu) \subseteq Known(gt)
  BY <1>1, SeqIdsKnown DEF SentInv
<1>6. QED
  BY <1>1, <1>2, <1>3, <1>4, <1>5 DEF T

\* The packets so far stay what they are.
Continues(gt, hd) ==
  /\ Stamped(hd) /\ Len(gt) \in Nat /\ Len(hd) = Len(gt) + 1
  /\ \A n \in 1 .. Len(gt) : hd[n] = gt[n] /\ n \in 1 .. Len(hd)
  /\ Known(gt) \subseteq Known(hd)
  /\ Genuine(gt) \subseteq Genuine(hd) /\ Genuine1(gt) \subseteq Genuine1(hd)
  /\ \A A, B \in SUBSET Known(gt) : Before(A, B, gt) => Before(A, B, hd)

\* Which is so when one more is received.
LEMMA Grown ==
  ASSUME NEW gt, Stamped(gt), NEW t \in Traffic, NEW hd, hd = Append(gt, Stamp(t, Len(gt) + 1))
  PROVE  Continues(gt, hd) /\ hd[Len(hd)] = Stamp(t, Len(hd))
<1> DEFINE N == Len(gt)
           g == Stamp(t, N + 1)
<1>1. gt \in Seq(Packet) /\ N \in Nat
  BY DEF Stamped
<1>2. g \in Packet
  BY <1>1, StampCarries
<1> HIDE DEF g
<1>3. /\ hd \in Seq(Packet) /\ Len(hd) = N + 1 /\ hd[N + 1] = g
      /\ \A n \in 1 .. N : hd[n] = gt[n]
  <2>1. hd = Append(gt, g)
    BY DEF g
  <2>2. QED
    BY <1>1, <1>2, <2>1
<1> HIDE DEF N
<1>4. \A n \in 1 .. N + 1 : n \in 1 .. N \/ n = N + 1
  BY <1>1
<1>5. \A n \in 1 .. N : n \in 1 .. N + 1
  BY <1>1
<1>6. Stamped(hd)
  <2>1. \A n \in 1 .. N : \E u \in Traffic : gt[n] = Stamp(u, n)
    BY DEF Stamped, N
  <2>2. QED
    BY <1>3, <1>4, <2>1 DEF Stamped, g
<1>7. \A x \in Known(gt) : x \in Nat \X Nat /\ x[1] \in 1 .. N /\ x[2] \in 1 .. Len(gt[x[1]].pdus)
  BY DEF Known, N
<1>8. Known(gt) \subseteq Known(hd)
  BY <1>3, <1>5, <1>7 DEF Known
<1>9. \A x \in Known(gt) : ReceivedIn(hd, x) = ReceivedIn(gt, x) /\ hd[x[1]] = gt[x[1]]
  BY <1>3, <1>7 DEF ReceivedIn
<1>10. Genuine(gt) \subseteq Genuine(hd)
  BY <1>8, <1>9 DEF Genuine
<1>11. Genuine1(gt) \subseteq Genuine1(hd)
  BY <1>8, <1>9 DEF Genuine1
<1>12. \A A, B \in SUBSET Known(gt) : Before(A, B, gt) => Before(A, B, hd)
  BY <1>9 DEF Before
<1>13. QED
  BY <1>1, <1>3, <1>5, <1>6, <1>8, <1>10, <1>11, <1>12 DEF N, g, Continues

\* And so what is known of the mbufs is still true.
LEMMA GrownTrace ==
  ASSUME NEW L, NEW bf, NEW sn, NEW bu, NEW rm, NEW gt, Trace(L, bf, sn, bu, rm, gt),
         NEW t \in Traffic, NEW hd, hd = Append(gt, Stamp(t, Len(gt) + 1))
  PROVE  Trace(L, bf, sn, bu, rm, hd)
<1> DEFINE T == Stages(L, bf, sn, bu, rm)
<1>1. /\ Stamped(gt) /\ \A p \in 1 .. 13 : PlaceInv(p, L[p], bf, gt)
      /\ SentInv(sn, bu, gt) /\ rm \subseteq Known(gt) /\ CopyInv(L, bf) /\ Chained(T, gt)
  BY DEF Trace
<1>2. /\ Stamped(hd)
      /\ \A n \in 1 .. Len(gt) : hd[n] = gt[n] /\ n \in 1 .. Len(hd)
      /\ Known(gt) \subseteq Known(hd)
      /\ Genuine(gt) \subseteq Genuine(hd) /\ Genuine1(gt) \subseteq Genuine1(hd)
      /\ \A A, B \in SUBSET Known(gt) : Before(A, B, gt) => Before(A, B, hd)
  <2>1. Continues(gt, hd)
    BY <1>1, Grown
  <2>2. QED
    BY <2>1 DEF Continues
<1>3. ASSUME NEW s, s \in Seq(Genuine(gt)) \/ s \in Seq(Genuine1(gt)), Rising(s, gt)
      PROVE  Rising(s, hd)
  <2>1. \A k \in 1 .. Len(s) : {s[k].id} \in SUBSET Known(gt)
    BY <1>1, <1>3, SeqIdsKnown
  <2>2. QED
    BY <1>2, <1>3, <2>1 DEF Rising
<1>4. /\ \A s : s \in Seq(Genuine(gt)) => s \in Seq(Genuine(hd))
      /\ \A s : s \in Seq(Genuine1(gt)) => s \in Seq(Genuine1(hd))
  BY <1>2
<1>5. SentInv(sn, bu, hd)
  BY <1>1, <1>3, <1>4 DEF SentInv
<1>6. ASSUME NEW p \in 1 .. 13, NEW b, Right(p, b, gt) PROVE Right(p, b, hd)
  <2>1. Fresh(b, gt) => Fresh(b, hd)
    BY <1>2 DEF Fresh
  <2>2. p \in {7, 13} => Rising(b.data, hd)
    BY <1>3, <1>6 DEF Right
  <2>3. QED
    BY <1>2, <1>4, <1>6, <2>1, <2>2 DEF Right
<1>7. ASSUME NEW p \in 1 .. 13 PROVE PlaceInv(p, L[p], bf, hd)
  <2> DEFINE s == L[p]
  <2>1. /\ \A k \in 1 .. Len(s) : Right(p, bf[s[k]], gt)
        /\ \A j, k \in 1 .. Len(s) : j < k => Before(IdsAt(p, bf[s[j]]), IdsAt(p, bf[s[k]]), gt)
    BY <1>1 DEF PlaceInv
  <2> HIDE DEF s
  <2>2. \A k \in 1 .. Len(s) : Right(p, bf[s[k]], hd)
    BY <1>6, <2>1
  <2>3. \A k \in 1 .. Len(s) : IdsAt(p, bf[s[k]]) \in SUBSET Known(gt)
    BY <1>1, <2>1, RightIds
  <2>4. \A j, k \in 1 .. Len(s) : j < k => Before(IdsAt(p, bf[s[j]]), IdsAt(p, bf[s[k]]), hd)
    BY <1>2, <2>1, <2>3
  <2>5. QED
    BY <2>2, <2>4 DEF PlaceInv, s
<1>8. \A b \in Stage : T[b] \in SUBSET Known(gt)
  BY StagesKnown
<1>9. Chained(T, hd)
  BY <1>1, <1>2, <1>8 DEF Chained
<1>10. QED
  BY <1>1, <1>2, <1>5, <1>7, <1>9 DEF Trace

-----------------------------------------------------------------------------
(* The steps *)

\* The places by their names in the code.
ListEqs ==
  /\ Lists[1] = Hand(recv[0]) /\ Lists[2] = Hand(recv[1]) /\ Lists[3] = Hand(decap.frame)
  /\ Lists[4] = Hand(enc.rest) /\ Lists[5] = Hand(enc.pdu) /\ Lists[6] = Hand(enc.send)
  /\ Lists[7] = Hand(snd) /\ Lists[8] = enc.open /\ Lists[9] = rcv_ring[0]
  /\ Lists[10] = rcv_ring[1] /\ Lists[11] = encap_ring[0] /\ Lists[12] = encap_ring[1]
  /\ Lists[13] = snd_bb_ring /\ Lists[14] = free[RcvMbuf] /\ Lists[15] = free[DecapMbuf]
  /\ Lists[16] = free[EncapMbuf]

\* So they are.
LEMMA ListFacts == ListEqs
BY DEF ListEqs, Lists

\* And after the step.
LEMMA ListFactsNext == ListEqs'
BY ListFacts, PTL

\* The decapsulation thread, while it takes a frame apart, leaves the other places alone.
LEMMA OutsideDecap ==
  ASSUME UNCHANGED <<rcv_ring, snd_bb_ring, recv, enc, snd>>, encap_ring'[1] = encap_ring[1]
  PROVE  \A p \in 1 .. 13 : p \notin {3, 11} => Lists'[p] = Lists[p]
<1> DEFINE L == Lists
           K == Lists'
<1>1. /\ K[1] = L[1] /\ K[2] = L[2] /\ K[4] = L[4] /\ K[5] = L[5] /\ K[6] = L[6]
      /\ K[7] = L[7] /\ K[8] = L[8] /\ K[9] = L[9] /\ K[10] = L[10] /\ K[12] = L[12]
      /\ K[13] = L[13]
  BY ListFacts, ListFactsNext DEF ListEqs
<1> HIDE DEF L, K
<1>2. \A p \in 1 .. 13 : p \notin {3, 11} => K[p] = L[p]
  BY ONLY <1>1
<1>3. QED
  BY <1>2 DEF L, K

\* What is in the hand of a thread.
LEMMA HandFacts ==
  /\ Hand(None) = <<>>
  /\ \A m : m # None => /\ Hand(m) # <<>> /\ Head(Hand(m)) = m /\ Hand(m)[1] = m
                        /\ Tail(Hand(m)) = <<>> /\ Append(Hand(None), m) = Hand(m)
BY DEF Hand

\* A place keeps its mbufs, loses all, or loses the first.
LEMMA LessFacts ==
  ASSUME NEW s
  PROVE  Less(s, s) /\ Less(s, <<>>) /\ (s # <<>> => Less(s, Tail(s)))
BY DEF Less

\* The PDU that is copied, and the frame that is open, are not the mbuf that is modified.
LEMMA Elsewhere ==
  ASSUME Placed, NEW q \in Place, Lists[q] # <<>>, NEW cf, Only(Head(Lists[q]), buf, cf)
  PROVE  /\ Head(Lists[q]) \in AllMbufs
         /\ q # 3 /\ decap.frame # None => cf[decap.frame] = buf[decap.frame]
         /\ q # 5 /\ enc.pdu # None => cf[enc.pdu] = buf[enc.pdu]
         /\ q # 6 /\ enc.send # None => cf[enc.send] = buf[enc.send]
<1> DEFINE L == Lists
<1>1. OnePlace(L)
  BY DEF Placed
<1>2. ASSUME NEW p \in Place, NEW m, m # None, L[p] = Hand(m), p # q PROVE cf[m] = buf[m]
  <2>1. Len(L[p]) = 1 /\ L[p][1] = m
    BY <1>2 DEF Hand
  <2>2. SameMbufs(L[p], buf, cf)
    BY <1>1, <1>2, Untouched
  <2>3. 1 \in 1 .. Len(L[p])
    BY <2>1
  <2>4. QED
    BY <2>1, <2>2, <2>3 DEF SameMbufs
<1>3. Head(L[q]) \in AllMbufs
  BY <1>1, Untouched
<1>4. L[3] = Hand(decap.frame) /\ L[5] = Hand(enc.pdu) /\ L[6] = Hand(enc.send)
  BY ListFacts DEF ListEqs
<1>5. 3 \in Place /\ 5 \in Place /\ 6 \in Place
  BY DEF Place
<1> HIDE DEF L
<1>6. QED
  BY <1>2, <1>3, <1>4, <1>5 DEF L

\* Therefore the copy is still one.
LEMMA CopyKept ==
  ASSUME Placed, CopyInv(Lists, buf), NEW q \in Place, Lists[q] # <<>>, NEW cf,
         Only(Head(Lists[q]), buf, cf), NEW K,
         \/ K[6] = <<>>
         \/ K[6] = Lists[6] /\ K[5] = Lists[5] /\ (q \notin {5, 6} \/ cf = buf)
  PROVE  CopyInv(K, cf)
<1> SUFFICES ASSUME K[6] # <<>> PROVE K[5] # <<>> /\ cf[K[6][1]].data = <<OutOf(cf[K[5][1]])>>
  BY DEF CopyInv
<1>1. K[6] = Lists[6] /\ K[5] = Lists[5] /\ Lists[6] # <<>> /\ (q \notin {5, 6} \/ cf = buf)
  OBVIOUS
<1>2. Lists[5] # <<>> /\ buf[Lists[6][1]].data = <<OutOf(buf[Lists[5][1]])>>
  BY <1>1 DEF CopyInv
<1>3. Lists[5] = Hand(enc.pdu) /\ Lists[6] = Hand(enc.send)
  BY ListFacts DEF ListEqs
<1>4. enc.pdu # None /\ enc.send # None /\ Lists[5][1] = enc.pdu /\ Lists[6][1] = enc.send
  BY <1>1, <1>2, <1>3, HandFacts
<1>5. cf[enc.pdu] = buf[enc.pdu] /\ cf[enc.send] = buf[enc.send]
  <2>1. CASE cf = buf
    BY <2>1
  <2>2. CASE q \notin {5, 6}
    BY <1>4, <2>2, Elsewhere
  <2>3. QED
    BY <1>1, <2>1, <2>2
<1>6. QED
  BY <1>1, <1>2, <1>4, <1>5

\* The invariant, with the state functions named.
LEMMA TracedMeans ==
  ASSUME Placed, Traced
  PROVE  /\ OnePlace(Lists) /\ CopyInv(Lists, buf) /\ Stamped(got)
         /\ \A p \in 1 .. 13 : PlaceInv(p, Lists[p], buf, got)
         /\ SentInv(sent, enc.built, got)
         /\ Trace(Lists, buf, sent, enc.built, Remainder(decap.frame, decap.next, buf), got)
BY DEF Placed, Traced, Trace

\* A receive thread passes its packet on, or drops it.
LEMMA ReceiveTraced ==
  ASSUME Placed, Traced, NEW p \in Port, receive_msg_thread(p)
  PROVE  Traced'
<1> DEFINE L == Lists
           K == Lists'
           m == recv[p]
           q == p + 1
           a == p + 9
           rm == Remainder(decap.frame, decap.next, buf)
<1>1. /\ m # None /\ (p = 0 \/ p = 1) /\ buf' = buf /\ encap_ring' = encap_ring
      /\ snd_bb_ring' = snd_bb_ring /\ decap' = decap /\ enc' = enc /\ snd' = snd
      /\ got' = got /\ sent' = sent
  BY DEF receive_msg_thread, Port
<1>2. /\ recv'[0] = (IF p = 0 THEN None ELSE recv[0])
      /\ recv'[1] = IF p = 1 THEN None ELSE recv[1]
  BY DEF receive_msg_thread, Placed, Shape, Port
<1>3. L[q] = Hand(m) /\ L[a] = rcv_ring[p]
  BY <1>1, ListFacts DEF ListEqs
<1>4. K[q] = Hand(None) /\ K[a] = rcv_ring'[p]
  BY <1>1, <1>2, ListFactsNext DEF ListEqs
<1>5. q \in 1 .. 13 /\ a \in 1 .. 13 /\ a # q /\ q \in Place /\ q \notin {5, 6} /\ q \in Stage
  BY <1>1 DEF Place, Stage
<1>6. q \in {1, 2} /\ (q = 1 <=> p = 0) /\ a \in {9, 10} /\ (a = 9 <=> p = 0)
  BY <1>1
<1>7. Only(m, buf, buf) /\ L[q] # <<>> /\ m = Head(L[q]) /\ K[q] = <<>> /\ Tail(L[q]) = <<>>
  BY <1>1, <1>3, <1>4, HandFacts DEF Only
<1>8. PlaceInv(q, L[q], buf, got) /\ OnePlace(L) /\ L[q] \in Seq(AllMbufs)
  BY <1>5, TracedMeans DEF OnePlace
<1>9. /\ Right(q, buf[m], got) /\ IdsAt(q, buf[m]) \subseteq IdsIn(q, L[q], buf)
  BY <1>7, <1>8, PlaceTail
<1>10. Traced' <=> Trace(K, buf, sent, enc.built, rm, got)
  BY <1>1 DEF Traced
<1>11. CASE rcv_ring' = rcv_ring
  <2>1. \A r \in 1 .. 13 : r # q => K[r] = L[r]
    BY <1>1, <1>2, <1>11, ListFacts, ListFactsNext DEF ListEqs
  <2>2. CopyInv(K, buf)
    BY <1>5, <1>7, <2>1, TracedMeans, CopyKept
  <2> HIDE DEF L, K, m, q, a, rm
  <2>3. Shrinks(L, buf, enc.built, rm, K, buf, enc.built, rm, q, m)
    BY <1>5, <1>7, <2>1, LessFacts DEF Shrinks
  <2>4. Trace(L, buf, sent, enc.built, rm, got)
    BY TracedMeans DEF L, rm
  <2>5. Trace(K, buf, sent, enc.built, rm, got)
    BY <1>8, <2>2, <2>3, <2>4, Shrunk
  <2>6. QED
    BY <1>10, <2>5
<1>12. ASSUME rcv_ring' = [rcv_ring EXCEPT ![p] = Append(@, m)], p = 0 => Is9101(buf[m].data.type)
       PROVE  Traced'
  <2>1. rcv_ring'[p] = Append(rcv_ring[p], m) /\ \A i \in Port : i # p => rcv_ring'[i] = rcv_ring[i]
    BY <1>12 DEF Placed, Shape
  <2>2. \A r \in 1 .. 13 : r # q /\ r # a => K[r] = L[r]
    <3>1. CASE p = 0
      <4>1. recv'[1] = recv[1] /\ rcv_ring'[1] = rcv_ring[1] /\ q = 1 /\ a = 9
        BY <1>2, <2>1, <3>1 DEF Port
      <4> HIDE DEF q, a
      <4>2. QED
        BY <1>1, <4>1, ListFacts, ListFactsNext DEF ListEqs
    <3>2. CASE p = 1
      <4>1. recv'[0] = recv[0] /\ rcv_ring'[0] = rcv_ring[0] /\ q = 2 /\ a = 10
        BY <1>2, <2>1, <3>2 DEF Port
      <4> HIDE DEF q, a
      <4>2. QED
        BY <1>1, <4>1, ListFacts, ListFactsNext DEF ListEqs
    <3>3. QED
      BY <1>1, <3>1, <3>2
  <2>3. K[a] = Append(L[a], m)
    BY <1>3, <1>4, <2>1
  <2>4. CopyInv(K, buf)
    BY <1>5, <1>6, <1>7, <2>2, TracedMeans, CopyKept
  <2>5. Right(a, buf[m], got) /\ IdsAt(a, buf[m]) = IdsAt(q, buf[m])
    BY <1>6, <1>9, <1>12 DEF Right, IdsAt
  <2>6. Follows(a, q)
    BY <1>1, AllFollow
  <2> HIDE DEF L, K, m, q, a, rm
  <2>7. Moves(L, buf, enc.built, rm, K, buf, enc.built, rm, q, m, a)
    BY <1>5, <1>7, <2>2, <2>3, LessFacts DEF Moves
  <2>8. Trace(L, buf, sent, enc.built, rm, got)
    BY TracedMeans DEF L, rm
  <2>9. IdsAt(a, buf[m]) \subseteq Stages(L, buf, sent, enc.built, rm)[q]
    BY <1>5, <1>9, <2>5, StageFacts
  <2>10. Before(IdsAt(a, buf[m]), Stages(K, buf, sent, enc.built, rm)[q], got)
    <3>1. Stages(K, buf, sent, enc.built, rm)[q] = IdsIn(q, K[q], buf)
      BY <1>5, StageFacts
    <3>2. QED
      BY <1>7, <3>1, PlaceEmpty, BeforeUnion
  <2>11. a # 8
    BY <1>6
  <2>12. Trace(K, buf, sent, enc.built, rm, got)
    BY <1>5, <1>8, <2>4, <2>5, <2>6, <2>7, <2>8, <2>9, <2>10, <2>11, Moved
  <2>13. QED
    BY <1>10, <2>12
<1>13. QED
  BY <1>11, <1>12 DEF receive_msg_thread

\* The PDUs still in a frame that is not modified.
LEMMA RemainderKept ==
  ASSUME NEW fr, NEW nx, NEW bf, NEW cf, fr # None => cf[fr] = bf[fr]
  PROVE  Remainder(fr, nx, cf) = Remainder(fr, nx, bf)
BY DEF Remainder

\* A PDU that was not yet known comes after all that were.
LEMMA NewIsLast ==
  ASSUME NEW gt, Stamped(gt), NEW hd, NEW A, A \subseteq Known(gt), NEW M,
         \A y \in M : y[1] = Len(gt) + 1
  PROVE  Before(A, M, hd)
<1>1. Len(gt) \in Nat
  BY DEF Stamped
<1>2. \A x \in A : x[1] \in 1 .. Len(gt)
  BY DEF Known
<1>3. QED
  BY <1>1, <1>2 DEF Before

\* A packet comes to a receive thread, or is lost.
LEMMA PcapTraced ==
  ASSUME Placed, Filled, Traced, NEW p \in Port, read_pcap(p)
  PROVE  Traced'
<1> DEFINE L == Lists
           K == Lists'
           a == p + 1
           rm == Remainder(decap.frame, decap.next, buf)
           pkt(t) == Stamp(t, Len(got) + 1)
<1>1. /\ recv[p] = None /\ (p = 0 \/ p = 1) /\ rcv_ring' = rcv_ring /\ encap_ring' = encap_ring
      /\ snd_bb_ring' = snd_bb_ring /\ decap' = decap /\ enc' = enc /\ snd' = snd /\ sent' = sent
  BY DEF read_pcap, Port, rings
<1>2. /\ OnePlace(L) /\ Stamped(got) /\ Trace(L, buf, sent, enc.built, rm, got)
  BY TracedMeans
<1>3. a \in 1 .. 13 /\ a \in {1, 2} /\ (a = 1 <=> p = 0) /\ L[a] = Hand(None) /\ L[a] = <<>>
  BY <1>1, ListFacts, HandFacts DEF ListEqs
<1>4. 14 \in Place /\ L[14] = free[RcvMbuf] /\ RcvMbuf \in Pools
  BY ListFacts, PoolFacts DEF ListEqs, Place
<1>5. ASSUME NEW t \in Traffic, got' = Append(got, pkt(t))
      PROVE  Continues(got, got') /\ got'[Len(got')] = pkt(t)
             /\ Trace(L, buf, sent, enc.built, rm, got')
  <2>1. Continues(got, got') /\ got'[Len(got')] = Stamp(t, Len(got'))
    BY <1>2, <1>5, Grown
  <2>2. Trace(L, buf, sent, enc.built, rm, got')
    BY <1>2, <1>5, GrownTrace
  <2>3. Len(got') = Len(got) + 1
    BY <2>1 DEF Continues
  <2>4. QED
    BY <2>1, <2>2, <2>3
<1>6. ASSUME NEW t \in Traffic, got' = Append(got, pkt(t)), UNCHANGED <<free, buf, recv>>
      PROVE  Traced'
  <2>1. K = L
    BY <1>1, <1>6 DEF Lists
  <2>2. Trace(L, buf, sent, enc.built, rm, got')
    BY <1>5, <1>6
  <2>3. QED
    BY <1>1, <1>6, <2>1, <2>2 DEF Traced
<1>7. ASSUME NEW m \in Get(free[RcvMbuf]), NEW b, buf' = [buf EXCEPT ![m] = b]
      PROVE  /\ L[14] # <<>> /\ m = Head(L[14]) /\ Only(m, buf, buf') /\ buf'[m] = b /\ m # None
             /\ Remainder(decap.frame, decap.next, buf') = rm
             /\ (Traced' <=> Trace(K, buf', sent, enc.built, rm, got'))
  <2>1. L[14] # <<>> /\ m = Head(L[14]) /\ m \in AllMbufs /\ m # None
    BY <1>4, Given
  <2>2. DOMAIN buf = AllMbufs
    BY DEF Filled
  <2>3. buf'[m] = b /\ Only(m, buf, buf')
    BY <1>7, <2>1, <2>2 DEF Only
  <2>4. decap.frame # None => buf'[decap.frame] = buf[decap.frame]
    BY <1>4, <2>1, <2>3, Elsewhere
  <2>5. Remainder(decap.frame, decap.next, buf') = rm
    BY <2>4, RemainderKept
  <2>6. Traced' <=> Trace(K, buf', sent, enc.built, rm, got')
    BY <1>1, <2>5 DEF Traced
  <2>7. QED
    BY <2>1, <2>3, <2>5, <2>6
<1>8. ASSUME NEW t \in Traffic, got' = Append(got, pkt(t)), NEW m \in Get(free[RcvMbuf]),
             recv' = recv, buf' = [buf EXCEPT ![m] = Reset(buf[m])]
      PROVE  Traced'
  <2>1. /\ L[14] # <<>> /\ m = Head(L[14]) /\ Only(m, buf, buf')
        /\ (Traced' <=> Trace(K, buf', sent, enc.built, rm, got'))
    BY <1>7, <1>8
  <2>2. \A r \in 1 .. 13 : K[r] = L[r] /\ r # 14
    <3>1. recv'[0] = recv[0] /\ recv'[1] = recv[1]
      BY <1>8
    <3>2. QED
      BY <1>1, <3>1, ListFacts, ListFactsNext DEF ListEqs
  <2>3. CopyInv(K, buf')
    <3>1. K[6] = L[6] /\ K[5] = L[5] /\ 14 \notin {5, 6}
      BY <2>2
    <3>2. QED
      BY <1>4, <2>1, <3>1, TracedMeans, CopyKept
  <2>4. Trace(L, buf, sent, enc.built, rm, got')
    BY <1>5, <1>8
  <2> HIDE DEF L, K, rm
  <2>5. Shrinks(L, buf, enc.built, rm, K, buf', enc.built, rm, 14, m)
    BY <1>4, <2>1, <2>2, LessFacts DEF Shrinks
  <2>6. Trace(K, buf', sent, enc.built, rm, got')
    BY <1>2, <2>3, <2>4, <2>5, Shrunk
  <2>7. QED
    BY <2>1, <2>6
<1>9. ASSUME NEW t \in Traffic, t.port = p, got' = Append(got, pkt(t)), NEW m \in Get(free[RcvMbuf]),
             recv' = [recv EXCEPT ![p] = m], CanAppend(Reset(buf[m]), pkt(t).len),
             buf' = [buf EXCEPT ![m] = [Appended(Reset(buf[m]), pkt(t).len) EXCEPT !.data = pkt(t)]]
      PROVE  Traced'
  <2> DEFINE b == [Appended(Reset(buf[m]), pkt(t).len) EXCEPT !.data = pkt(t)]
             g == got'
             n == Len(got) + 1
             M == IdsAt(a, b)
             T == Stages(L, buf, sent, enc.built, rm)
             U == Stages(K, buf', sent, enc.built, rm)
  <2>1. /\ L[14] # <<>> /\ m = Head(L[14]) /\ Only(m, buf, buf') /\ m # None /\ buf'[m] = b
        /\ (Traced' <=> Trace(K, buf', sent, enc.built, rm, got'))
    BY <1>7, <1>9
  <2>2. /\ recv'[0] = (IF p = 0 THEN m ELSE recv[0])
        /\ recv'[1] = (IF p = 1 THEN m ELSE recv[1])
    BY <1>9 DEF Placed, Shape, Port
  <2>3. K[a] = Append(L[a], m) /\ \A r \in 1 .. 13 : r # a => K[r] = L[r]
    <3>1. \A r \in 1 .. 13 : r # a => K[r] = L[r]
      BY <1>1, <2>2, ListFacts, ListFactsNext DEF ListEqs
    <3>2. K[a] = Hand(m)
      BY <1>1, <2>2, ListFactsNext DEF ListEqs
    <3>3. QED
      BY <1>3, <2>1, <3>1, <3>2, HandFacts
  <2>4. CopyInv(K, buf')
    <3>1. K[6] = L[6] /\ K[5] = L[5] /\ 14 \notin {5, 6}
      BY <1>3, <2>3
    <3>2. QED
      BY <1>4, <2>1, <3>1, TracedMeans, CopyKept
  <2>5. /\ Continues(got, g) /\ g[n] = pkt(t) /\ n \in 1 .. Len(g) /\ Stamped(g)
        /\ Trace(L, buf, sent, enc.built, rm, g)
    BY <1>5, <1>9 DEF Continues
  <2>6. b.data = pkt(t) /\ b.data_len = pkt(t).len /\ pkt(t).port = p
    <3> DEFINE x == buf[m]
               d == pkt(t)
               len == d.len
    <3>1. Sound(x) /\ len \in Nat /\ d.port = p
      <4>1. m \in AllMbufs /\ Len(got) + 1 \in Nat
        BY <1>2, <1>4, Given DEF Stamped
      <4>2. QED
        BY <1>9, <4>1, StampFacts DEF Filled
    <3>2. b = [Appended(Reset(x), len) EXCEPT !.data = d] /\ CanAppend(Reset(x), len)
      BY <1>9
    <3> HIDE DEF x, d, b
    <3>3. Sound(b) /\ b.data = d /\ (len <= BUF_LEN - HEADROOM => b.data_len = len)
      BY <3>1, <3>2, SoundFilled
    <3>4. Reset(x).data_off = HEADROOM /\ Reset(x).data_len = 0
      BY <3>1, SoundReset
    <3>5. len <= BUF_LEN - HEADROOM
      BY <3>2, <3>4 DEF CanAppend, Tailroom, Headroom, BUF_LEN, HEADROOM
    <3>6. QED
      BY <3>1, <3>3, <3>5 DEF d
  <2>7. Right(a, b, g)
    <3>1. b.data = g[n] /\ b.data_len = g[n].len
      BY <2>5, <2>6
    <3>2. Fresh(b, g)
      BY <2>5, <3>1 DEF Fresh
    <3>3. b.data.port = p
      BY <2>6
    <3> HIDE DEF b, g
    <3>4. QED
      BY <1>1, <1>3, <3>2, <3>3 DEF Right
  <2>8. \A y \in M : y[1] = n
    <3>1. M = SeqIds(g[n].pdus)
      BY <1>3, <2>5, <2>6 DEF IdsAt
    <3>2. \A k \in 1 .. Len(g[n].pdus) : g[n].pdus[k].id = <<n, k>>
      BY <2>5, PacketFacts
    <3>3. QED
      BY <3>1, <3>2 DEF SeqIds
  <2>9. \A x \in Stage : T[x] \subseteq Known(got)
    BY <1>2, StagesKnown
  <2> HIDE DEF L, K, rm, a, b, g, M, T, U
  <2>10. \A x \in Stage : Before(T[x], M, g)
    BY <1>2, <2>8, <2>9, NewIsLast DEF n
  <2>11. Moves(L, buf, enc.built, rm, K, buf', enc.built, rm, 14, m, a)
    BY <1>3, <1>4, <2>1, <2>3, LessFacts DEF Moves
  <2>12. Before(IdsIn(a, L[a], buf), IdsAt(a, buf'[m]), g) /\ Right(a, buf'[m], g)
    BY <1>3, <2>1, <2>7, PlaceEmpty, BeforeUnion
  <2>13. /\ \A r \in 1 .. 13 : PlaceInv(r, K[r], buf', g)
         /\ SentInv(sent, enc.built, g) /\ rm \subseteq Known(g) /\ a \in Stage
         /\ \A x \in Stage : x # a => U[x] \subseteq T[x]
         /\ U[a] \subseteq T[a] \cup M
    BY <1>2, <2>1, <2>5, <2>11, <2>12, MovesFacts DEF T, U, M
  <2>14. \A x \in Stage : ~ Ahead(a, x)
    BY <1>3 DEF Ahead, ToPort0, ToPort1, Stage
  <2>15. Chained(T, g)
    BY <2>5 DEF Trace, T
  <2>16. Chained(U, g)
    BY <2>10, <2>13, <2>14, <2>15, Flow
  <2>17. Trace(K, buf', sent, enc.built, rm, g)
    BY <2>4, <2>5, <2>13, <2>16 DEF Trace, U
  <2>18. QED
    BY <2>1, <2>17 DEF g
<1>10. QED
  BY <1>6, <1>8, <1>9 DEF read_pcap

\* The first mbuf of the place c goes to the place a in front of it, with no other PDUs.
Passes(L, bf, K, cf, a, c, m, gt) ==
  /\ a \in 1 .. 13 /\ c \in 1 .. 13 /\ Follows(a, c)
  /\ L[c] # <<>> /\ m = Head(L[c]) /\ Only(m, bf, cf)
  /\ K[a] = Append(L[a], m) /\ K[c] = Tail(L[c])
  /\ \A p \in 1 .. 13 : p # a /\ p # c => K[p] = L[p]
  /\ Right(c, bf[m], gt) => Right(a, cf[m], gt)
  /\ IdsAt(a, cf[m]) \subseteq IdsAt(c, bf[m])
  /\ a = 8 => K[4] = <<>>

\* What is known of the mbufs is still true.
LEMMA PassedOn ==
  ASSUME NEW L, NEW bf, NEW sn, NEW bu, NEW rm, NEW gt, Trace(L, bf, sn, bu, rm, gt), OnePlace(L),
         NEW K, NEW cf, NEW a, NEW c, NEW m, Passes(L, bf, K, cf, a, c, m, gt), CopyInv(K, cf)
  PROVE  Trace(K, cf, sn, bu, rm, gt)
<1>0. /\ a \in 1 .. 13 /\ c \in 1 .. 13 /\ Follows(a, c)
      /\ L[c] # <<>> /\ m = Head(L[c]) /\ Only(m, bf, cf)
      /\ K[a] = Append(L[a], m) /\ K[c] = Tail(L[c])
      /\ \A p \in 1 .. 13 : p # a /\ p # c => K[p] = L[p]
      /\ Right(c, bf[m], gt) => Right(a, cf[m], gt)
      /\ IdsAt(a, cf[m]) \subseteq IdsAt(c, bf[m])
      /\ a = 8 => K[4] = <<>>
  BY DEF Passes
<1> USE <1>0
<1>1. a # c
  BY DEF Follows, Ahead, ToPort0, ToPort1
<1>2. c \in Place /\ c \in Stage
  BY DEF Place, Stage
<1>3. L[c] \in Seq(AllMbufs)
  BY <1>2 DEF OnePlace
<1>4. PlaceInv(c, L[c], bf, gt)
  BY DEF Trace
<1>5. /\ Right(c, bf[m], gt) /\ IdsAt(c, bf[m]) \subseteq IdsIn(c, L[c], bf)
      /\ PlaceInv(c, Tail(L[c]), bf, gt)
      /\ Before(IdsAt(c, bf[m]), IdsIn(c, Tail(L[c]), bf), gt)
  BY <1>3, <1>4, PlaceTail
<1>6. Moves(L, bf, bu, rm, K, cf, bu, rm, c, m, a)
  BY <1>1, <1>2, LessFacts DEF Moves
<1>7. /\ Stages(L, bf, sn, bu, rm)[c] = IdsIn(c, L[c], bf)
      /\ Stages(K, cf, sn, bu, rm)[c] = IdsIn(c, K[c], cf)
  <2>1. c \in 1 .. 13
    OBVIOUS
  <2>2. Stages(L, bf, sn, bu, rm)[c] = IdsIn(c, L[c], bf)
    BY ONLY <2>1, StageFacts
  <2>3. Stages(K, cf, sn, bu, rm)[c] = IdsIn(c, K[c], cf)
    BY ONLY <2>1, StageFacts
  <2>4. QED
    BY <2>2, <2>3
<1>8. IdsIn(c, Tail(L[c]), cf) = IdsIn(c, Tail(L[c]), bf)
  <2> DEFINE r == Tail(L[c])
  <2>1. SameMbufs(r, bf, cf)
    <3>1. L[c] # <<>> /\ Only(Head(L[c]), bf, cf) /\ OnePlace(L) /\ c \in Place
      BY <1>2
    <3>2. QED
      BY ONLY <3>1, Untouched
  <2>2. PlaceInv(c, r, bf, gt)
    BY <1>5
  <2> HIDE DEF r
  <2>3. IdsIn(c, r, cf) = IdsIn(c, r, bf)
    BY ONLY <2>1, <2>2, PlaceKept
  <2>4. QED
    BY <2>3 DEF r
<1>9. Before(IdsAt(a, cf[m]), IdsIn(c, K[c], cf), gt)
  BY <1>5, <1>8, BeforeLess
<1>10. Right(a, cf[m], gt) /\ IdsAt(a, cf[m]) \subseteq IdsIn(c, L[c], bf)
  BY <1>5
<1>11. QED
  BY <1>2, <1>6, <1>7, <1>9, <1>10, Moved

\* The frame is closed: its PDUs, in their order, are those it was built of.
LEMMA Closed ==
  ASSUME NEW L, NEW bf, NEW sn, NEW bu, NEW rm, NEW gt, Trace(L, bf, sn, bu, rm, gt),
         NEW K, NEW bv, L[8] \in Seq(AllMbufs),
         K[8] = <<>>, \A p \in 1 .. 13 : p # 8 => K[p] = L[p],
         bv = [k \in DOMAIN L[8] |-> InOf(bf[L[8][k]])]
  PROVE  Trace(K, bf, sn, bv, rm, gt)
<1> DEFINE s == L[8]
           N == Len(s)
           x(k) == InOf(bf[s[k]])
<1>1. N \in Nat /\ DOMAIN s = 1 .. N
  <2>1. s \in Seq(AllMbufs)
    OBVIOUS
  <2> HIDE DEF s
  <2>2. QED
    BY <2>1
<1>2. SentInv(sn, bu, gt) /\ PlaceInv(8, s, bf, gt) /\ CopyInv(L, bf)
  BY DEF Trace
<1>3. CopyInv(K, bf)
  BY <1>2 DEF CopyInv
<1>4. \A k \in 1 .. N : x(k) \in Genuine1(gt) /\ IdsAt(8, bf[s[k]]) = {x(k).id}
  <2>1. \A k \in 1 .. N : Right(8, bf[s[k]], gt)
    BY <1>2 DEF PlaceInv
  <2>2. ASSUME NEW b, Right(8, b, gt)
        PROVE  InOf(b) \in Genuine1(gt) /\ IdsAt(8, b) = {InOf(b).id}
    BY ONLY <2>2 DEF Right, IdsAt, InOf
  <2> HIDE DEF s, N
  <2>3. QED
    BY <2>1, <2>2
<1>5. \A j, k \in 1 .. N : j < k => Before({x(j).id}, {x(k).id}, gt)
  BY <1>2, <1>4 DEF PlaceInv
<1>6. \A k \in 1 .. N : x(k).id \in IdsIn(8, s, bf)
  BY <1>4 DEF IdsIn
<1>7. bv = [k \in 1 .. N |-> x(k)]
  BY <1>1
<1> HIDE DEF s, N, x
<1>8. Len(bv) = N /\ \A k \in 1 .. N : bv[k] = x(k)
  <2>1. DOMAIN bv = 1 .. N /\ \A k \in 1 .. N : bv[k] = x(k)
    BY ONLY <1>7
  <2>2. QED
    BY ONLY <1>1, <1>7, <2>1
<1>9. bv \in Seq(Genuine1(gt))
  BY ONLY <1>1, <1>4, <1>7
<1>10. Rising(bv, gt)
  BY <1>5, <1>8 DEF Rising
<1>11. SeqIds(bv) \subseteq SeqIds(bu) \cup IdsIn(8, L[8], bf)
  <2>1. SeqIds(bv) \subseteq IdsIn(8, s, bf)
    BY ONLY <1>6, <1>8 DEF SeqIds
  <2>2. QED
    BY <2>1 DEF s
<1>12. SentInv(sn, bv, gt)
  BY <1>2, <1>9, <1>10 DEF SentInv
<1>13. Follows(16, 8)
  BY AllFollow
<1>14. \A p \in 1 .. 13 : K[p] = L[p] \/ K[p] = <<>>
  OBVIOUS
<1>15. Sends(L, bf, sn, bu, K, sn, bv, 16, 8)
  BY <1>11, <1>13, <1>14 DEF Sends
<1>16. Trace(L, bf, sn, bu, rm, gt)
  OBVIOUS
<1>17. QED
  BY ONLY <1>3, <1>12, <1>15, <1>16, SentOn

\* The sending thread takes a frame.
LEMMA SndTakeTraced ==
  ASSUME Placed, Traced, snd_bbframe_thread
  PROVE  Traced'
<1> DEFINE L == Lists
           K == Lists'
           m == Head(snd_bb_ring)
           rm == Remainder(decap.frame, decap.next, buf)
<1>1. /\ snd = None /\ snd_bb_ring # <<>> /\ snd' = m /\ snd_bb_ring' = Tail(snd_bb_ring)
      /\ UNCHANGED <<free, buf, rcv_ring, encap_ring, recv, decap, enc, got, sent>>
  BY DEF snd_bbframe_thread
<1>2. m \in AllMbufs /\ m # None
  BY <1>1, InLists, PoolFacts
<1>3. L[13] # <<>> /\ m = Head(L[13]) /\ K[13] = Tail(L[13])
  BY <1>1, ListFacts, ListFactsNext DEF ListEqs
<1>4. K[7] = Append(L[7], m)
  BY <1>1, <1>2, ListFacts, ListFactsNext, HandFacts DEF ListEqs
<1>5. \A p \in 1 .. 13 : p # 7 /\ p # 13 => K[p] = L[p]
  BY <1>1, ListFacts, ListFactsNext, SMTT(30) DEF ListEqs
<1>6. OnePlace(L) /\ CopyInv(L, buf) /\ Trace(L, buf, sent, enc.built, rm, got)
  BY TracedMeans
<1>7. Traced' <=> Trace(K, buf, sent, enc.built, rm, got)
  BY <1>1 DEF Traced
<1> HIDE DEF L, K, m, rm
<1>8. CopyInv(K, buf)
  BY <1>5, <1>6 DEF CopyInv
<1>9. (Right(13, buf[m], got) => Right(7, buf[m], got)) /\ IdsAt(7, buf[m]) = IdsAt(13, buf[m])
  BY DEF Right, IdsAt
<1>10. Follows(7, 13) /\ Only(m, buf, buf)
  BY AllFollow DEF Only
<1>11. Passes(L, buf, K, buf, 7, 13, m, got)
  BY <1>3, <1>4, <1>5, <1>9, <1>10 DEF Passes
<1>12. Trace(K, buf, sent, enc.built, rm, got)
  BY ONLY <1>6, <1>8, <1>11, PassedOn
<1>13. QED
  BY <1>7, <1>12

\* PDUs that come after those that were sent are sent.
LEMMA SentMore ==
  ASSUME NEW gt, Stamped(gt), NEW G, G \in {Genuine(gt), Genuine1(gt)}, NEW s \in Seq(G), NEW r \in Seq(G),
         Rising(s, gt), Rising(r, gt), Before(SeqIds(s), SeqIds(r), gt)
  PROVE  /\ s \o r \in Seq(G) /\ Rising(s \o r, gt) /\ SeqIds(s \o r) \subseteq SeqIds(s) \cup SeqIds(r)
<1> DEFINE z == s \o r
           M == Len(s)
           N == Len(r)
<1>1. /\ M \in Nat /\ N \in Nat /\ Len(z) = M + N /\ z \in Seq(G)
      /\ \A k \in 1 .. M : z[k] = s[k]
      /\ \A k \in 1 .. M + N : k > M => k - M \in 1 .. N /\ z[k] = r[k - M]
  OBVIOUS
<1> HIDE DEF z, M, N
<1>2. \A k \in 1 .. M : s[k].id \in SeqIds(s)
  BY DEF SeqIds, M
<1>3. \A k \in 1 .. N : r[k].id \in SeqIds(r)
  BY DEF SeqIds, N
<1>4. ASSUME NEW j \in 1 .. Len(z), NEW k \in 1 .. Len(z), j < k
      PROVE  Before({z[j].id}, {z[k].id}, gt)
  <2>1. CASE k <= M
    <3>1. j \in 1 .. M /\ k \in 1 .. M
      BY <1>1, <1>4, <2>1
    <3>2. QED
      BY <1>1, <1>4, <3>1 DEF Rising, M
  <2>2. CASE j <= M /\ k > M
    <3>1. j \in 1 .. M /\ k - M \in 1 .. N /\ z[j] = s[j] /\ z[k] = r[k - M]
      BY <1>1, <2>2
    <3>2. z[j].id \in SeqIds(s) /\ z[k].id \in SeqIds(r)
      BY <1>2, <1>3, <3>1
    <3>3. QED
      BY <3>2, BeforeLess
  <2>3. CASE j > M
    <3>1. k > M
      BY <1>1, <1>4, <2>3
    <3>2. /\ j - M \in 1 .. N /\ k - M \in 1 .. N /\ z[j] = r[j - M] /\ z[k] = r[k - M]
      BY <1>1, <2>3, <3>1
    <3>3. j - M < k - M
      BY <1>1, <1>4
    <3>4. QED
      BY <3>2, <3>3 DEF Rising, N
  <2>4. QED
    BY <1>1, <2>1, <2>2, <2>3
<1>5. ASSUME NEW y \in SeqIds(z) PROVE y \in SeqIds(s) \cup SeqIds(r)
  <2>1. PICK k \in 1 .. M + N : y = z[k].id
    BY <1>1, <1>5 DEF SeqIds
  <2>2. CASE k <= M
    <3>1. k \in 1 .. M
      BY <1>1, <2>2
    <3>2. QED
      BY <1>1, <1>2, <2>1, <3>1
  <2>3. CASE k > M
    BY <1>1, <1>3, <2>1, <2>3
  <2>4. QED
    BY <1>1, <2>2, <2>3
<1>6. QED
  BY <1>1, <1>4, <1>5 DEF Rising, z

\* A frame is sent to port 0.
LEMMA SndSendTraced ==
  ASSUME Placed, Traced, SendFrame
  PROVE  Traced'
<1> DEFINE L == Lists
           K == Lists'
           rm == Remainder(decap.frame, decap.next, buf)
           T == Stages(L, buf, sent, enc.built, rm)
           r == buf[snd].data
<1>1. /\ snd # None /\ sent' = [sent EXCEPT ![0] = @ \o r] /\ snd' = None
      /\ UNCHANGED <<buf, rcv_ring, encap_ring, snd_bb_ring, recv, decap, enc, got>>
  BY DEF SendFrame, rings
<1>2. L[7] = Hand(snd) /\ K[7] = <<>> /\ \A p \in 1 .. 13 : p # 7 => K[p] = L[p]
  BY <1>1, ListFacts, ListFactsNext, HandFacts DEF ListEqs
<1>3. /\ OnePlace(L) /\ CopyInv(L, buf) /\ Trace(L, buf, sent, enc.built, rm, got) /\ Stamped(got)
      /\ PlaceInv(7, L[7], buf, got) /\ SentInv(sent, enc.built, got) /\ Chained(T, got)
  BY TracedMeans DEF Trace
<1>4. Traced' <=> Trace(K, buf, sent', enc.built, rm, got)
  BY <1>1 DEF Traced
<1>5. T[14] = SeqIds(sent[0]) /\ T[7] = IdsIn(7, L[7], buf)
  BY StageFacts
<1>6. L[7] # <<>> /\ Head(L[7]) = snd /\ L[7] \in Seq(AllMbufs)
  <2>1. 7 \in Place
    BY DEF Place
  <2>2. QED
    BY <1>1, <1>2, <1>3, <2>1, HandFacts DEF OnePlace
<1>7. Right(7, buf[snd], got) /\ IdsAt(7, buf[snd]) \subseteq IdsIn(7, L[7], buf)
  BY <1>3, <1>6, PlaceTail
<1>8. r \in Seq(Genuine1(got)) /\ Rising(r, got) /\ SeqIds(r) \subseteq T[7]
  BY <1>5, <1>7 DEF Right, IdsAt
<1>9. Before(T[14], T[7], got)
  <2>1. Ahead(14, 7) /\ 14 \in Stage /\ 7 \in Stage
    BY AllFollow DEF Follows, Stage
  <2>2. QED
    BY <1>3, <2>1 DEF Chained
<1> HIDE DEF L, K, T, r, rm
<1>10. Before(SeqIds(sent[0]), SeqIds(r), got)
  BY <1>5, <1>8, <1>9, BeforeLess
<1> DEFINE s == sent[0]
<1>11. s \in Seq(Genuine1(got)) /\ Rising(s, got) /\ DOMAIN sent = Port
  BY <1>3 DEF SentInv
<1>12. sent'[0] = s \o r /\ sent'[1] = sent[1] /\ DOMAIN sent' = Port
  BY <1>1, <1>11 DEF Port
<1> HIDE DEF s
<1>13. /\ s \o r \in Seq(Genuine1(got)) /\ Rising(s \o r, got)
       /\ SeqIds(s \o r) \subseteq SeqIds(s) \cup SeqIds(r)
  BY <1>3, <1>8, <1>10, <1>11, SentMore DEF s
<1>14. SentInv(sent', enc.built, got)
  BY <1>3, <1>12, <1>13 DEF SentInv
<1>15. SeqIds(sent'[0]) \subseteq SeqIds(sent[0]) \cup IdsIn(7, L[7], buf)
  BY <1>5, <1>8, <1>12, <1>13 DEF s
<1>16. CopyInv(K, buf)
  BY <1>2, <1>3 DEF CopyInv
<1>17. Follows(14, 7) /\ \A p \in 1 .. 13 : K[p] = L[p] \/ K[p] = <<>>
  BY <1>2, AllFollow
<1>18. Sends(L, buf, sent, enc.built, K, sent', enc.built, 14, 7)
  BY <1>2, <1>12, <1>15, <1>17 DEF Sends
<1>19. Trace(K, buf, sent', enc.built, rm, got)
  BY ONLY <1>3, <1>14, <1>16, <1>18, SentOn
<1>20. QED
  BY <1>4, <1>19

\* The encapsulation thread takes a PDU for port 1, or drops it.
LEMMA EncapPoll0Traced ==
  ASSUME Placed, Filled, Traced, EncapPoll0
  PROVE  Traced'
<1> DEFINE L == Lists
           K == Lists'
           m == Head(encap_ring[0])
           rm == Remainder(decap.frame, decap.next, buf)
<1>1. /\ enc.pdu = None
      /\ UNCHANGED <<buf, rcv_ring, snd_bb_ring, recv, decap, snd, got, sent>>
  BY DEF EncapPoll0, AtPoll
<1>2. /\ OnePlace(L) /\ CopyInv(L, buf) /\ Trace(L, buf, sent, enc.built, rm, got)
  BY TracedMeans
<1>3. L[5] = <<>> /\ L[6] = <<>> /\ L[11] = encap_ring[0]
  <2>1. L[5] = <<>> /\ L[11] = encap_ring[0]
    BY <1>1, ListFacts, HandFacts DEF ListEqs
  <2>2. QED
    BY <1>2, <2>1 DEF CopyInv
<1>4. Traced' <=> Trace(K, buf, sent, enc'.built, rm, got)
  BY <1>1 DEF Traced
<1>5. /\ \A t : [enc EXCEPT !.turn = t].built = enc.built /\ [enc EXCEPT !.turn = t].open = enc.open
             /\ [enc EXCEPT !.turn = t].rest = enc.rest /\ [enc EXCEPT !.turn = t].send = enc.send
             /\ [enc EXCEPT !.turn = t].pdu = enc.pdu
      /\ \A t : [enc EXCEPT !.pdu = t].built = enc.built /\ [enc EXCEPT !.pdu = t].open = enc.open
             /\ [enc EXCEPT !.pdu = t].rest = enc.rest /\ [enc EXCEPT !.pdu = t].send = enc.send
             /\ [enc EXCEPT !.pdu = t].pdu = t
  BY DEF Placed, Shape
<1>6. CASE enc' = [enc EXCEPT !.turn = 1] /\ encap_ring' = encap_ring /\ free' = free
  <2>1. enc'.built = enc.built /\ enc'.open = enc.open /\ enc'.rest = enc.rest
        /\ enc'.send = enc.send /\ enc'.pdu = enc.pdu
    BY <1>5, <1>6
  <2>2. K = L
    BY <1>1, <1>6, <2>1 DEF Lists
  <2>3. QED
    BY <1>2, <1>4, <2>1, <2>2
<1>7. ASSUME encap_ring[0] # <<>>, encap_ring' = [encap_ring EXCEPT ![0] = Tail(@)]
      PROVE  /\ L[11] # <<>> /\ m = Head(L[11]) /\ K[11] = Tail(L[11]) /\ K[12] = L[12]
             /\ m \in AllMbufs /\ m # None
  <2>1. encap_ring'[0] = Tail(encap_ring[0]) /\ encap_ring'[1] = encap_ring[1]
    BY <1>7 DEF Placed, Shape, Port
  <2>2. encap_ring[0] \in Seq(AllMbufs)
    BY InLists DEF Port
  <2>3. m \in AllMbufs /\ m # None
    BY <1>7, <2>2, PoolFacts
  <2>4. QED
    BY <1>3, <1>7, <2>1, <2>3, ListFacts, ListFactsNext DEF ListEqs
<1>8. ASSUME encap_ring[0] # <<>>, encap_ring' = [encap_ring EXCEPT ![0] = Tail(@)],
             enc' = [enc EXCEPT !.turn = 1]
      PROVE  Traced'
  <2>1. L[11] # <<>> /\ m = Head(L[11]) /\ K[11] = Tail(L[11]) /\ K[12] = L[12] /\ m \in AllMbufs
    BY <1>7, <1>8
  <2>2. enc'.built = enc.built /\ enc'.open = enc.open /\ enc'.rest = enc.rest
        /\ enc'.send = enc.send /\ enc'.pdu = enc.pdu
    BY <1>5, <1>8
  <2>3. \A p \in 1 .. 13 : p # 11 => K[p] = L[p]
    BY <1>1, <2>1, <2>2, ListFacts, ListFactsNext, SMTT(30) DEF ListEqs
  <2>4. CopyInv(K, buf)
    BY <1>2, <2>3 DEF CopyInv
  <2>5. 11 \in Place
    BY DEF Place
  <2>6. Only(m, buf, buf)
    BY DEF Only
  <2>7. K[11] # L[11]
    <3>1. L[11] \in Seq(AllMbufs)
      BY <1>2, <2>5 DEF OnePlace
    <3> HIDE DEF L
    <3>2. Len(Tail(L[11])) # Len(L[11])
      BY <2>1, <3>1
    <3>3. QED
      BY <2>1, <3>2
  <2> HIDE DEF L, K, m, rm
  <2>8. Shrinks(L, buf, enc.built, rm, K, buf, enc.built, rm, 11, m)
    BY <2>1, <2>3, <2>5, <2>6, <2>7, LessFacts DEF Shrinks
  <2>9. Trace(K, buf, sent, enc.built, rm, got)
    BY ONLY <1>2, <2>4, <2>8, Shrunk
  <2>10. QED
    BY <1>4, <2>2, <2>9
<1>9. ASSUME encap_ring[0] # <<>>, encap_ring' = [encap_ring EXCEPT ![0] = Tail(@)],
             enc' = [enc EXCEPT !.pdu = m]
      PROVE  Traced'
  <2>1. L[11] # <<>> /\ m = Head(L[11]) /\ K[11] = Tail(L[11]) /\ K[12] = L[12] /\ m \in AllMbufs
        /\ m # None
    BY <1>7, <1>9
  <2>2. enc'.built = enc.built /\ enc'.open = enc.open /\ enc'.rest = enc.rest
        /\ enc'.send = enc.send /\ enc'.pdu = m
    BY <1>5, <1>9
  <2>3. \A p \in 1 .. 13 : p # 11 /\ p # 5 => K[p] = L[p]
    BY <1>1, <2>1, <2>2, ListFacts, ListFactsNext, SMTT(30) DEF ListEqs
  <2>4. K[5] = Append(L[5], m)
    BY <1>3, <2>1, <2>2, ListFactsNext, HandFacts DEF ListEqs
  <2>5. CopyInv(K, buf)
    BY <1>3, <2>3 DEF CopyInv
  <2>6. Only(m, buf, buf) /\ Follows(5, 11)
    BY AllFollow DEF Only
  <2>7. (Right(11, buf[m], got) => Right(5, buf[m], got)) /\ IdsAt(5, buf[m]) = IdsAt(11, buf[m])
    BY DEF Right, IdsAt
  <2> HIDE DEF L, K, m, rm
  <2>8. Passes(L, buf, K, buf, 5, 11, m, got)
    BY <2>1, <2>3, <2>4, <2>6, <2>7 DEF Passes
  <2>9. Trace(K, buf, sent, enc.built, rm, got)
    BY ONLY <1>2, <2>5, <2>8, PassedOn
  <2>10. QED
    BY <1>4, <2>2, <2>9
<1>10. QED
  BY <1>6, <1>8, <1>9 DEF EncapPoll0

\* The PDU is sent to port 1.
LEMMA SendPduTraced ==
  ASSUME Placed, Traced, SendPdu
  PROVE  Traced'
<1> DEFINE L == Lists
           K == Lists'
           rm == Remainder(decap.frame, decap.next, buf)
           T == Stages(L, buf, sent, enc.built, rm)
           r == buf[enc.send].data
           d == OutOf(buf[enc.pdu])
           s == sent[1]
<1>1. /\ enc.send # None /\ sent' = [sent EXCEPT ![1] = @ \o r]
      /\ enc' = [enc EXCEPT !.pdu = None, !.send = None, !.turn = 1]
      /\ UNCHANGED <<buf, rcv_ring, encap_ring, snd_bb_ring, recv, decap, snd, got>>
  BY DEF SendPdu, rings
<1>2. /\ enc'.pdu = None /\ enc'.send = None /\ enc'.rest = enc.rest /\ enc'.open = enc.open
      /\ enc'.built = enc.built
  BY <1>1 DEF Placed, Shape, EncFields
<1>3. enc.pdu # None
  BY <1>1 DEF Placed, Shape
<1>4. /\ L[5] = Hand(enc.pdu) /\ L[6] = Hand(enc.send) /\ K[5] = <<>> /\ K[6] = <<>>
      /\ \A p \in 1 .. 13 : p # 5 /\ p # 6 => K[p] = L[p]
  BY <1>1, <1>2, ListFacts, ListFactsNext, HandFacts DEF ListEqs
<1>5. /\ OnePlace(L) /\ CopyInv(L, buf) /\ Trace(L, buf, sent, enc.built, rm, got) /\ Stamped(got)
      /\ PlaceInv(5, L[5], buf, got) /\ SentInv(sent, enc.built, got) /\ Chained(T, got)
  BY TracedMeans DEF Trace
<1>6. Traced' <=> Trace(K, buf, sent', enc.built, rm, got)
  BY <1>1, <1>2 DEF Traced
<1>7. T[15] = SeqIds(s) /\ T[5] = IdsIn(5, L[5], buf)
  BY StageFacts
<1>8. L[5] # <<>> /\ Head(L[5]) = enc.pdu /\ L[5][1] = enc.pdu /\ L[5] \in Seq(AllMbufs)
  <2>1. 5 \in Place
    BY DEF Place
  <2>2. QED
    <3>1. L[5] # <<>> /\ Head(L[5]) = enc.pdu /\ L[5][1] = enc.pdu
      BY <1>3, <1>4, HandFacts
    <3>2. L[5] \in Seq(AllMbufs)
      BY <1>5, <2>1 DEF OnePlace
    <3>3. QED
      BY <3>1, <3>2
<1>9. r = <<d>>
  <2>1. L[6] # <<>> /\ L[6][1] = enc.send
    BY <1>1, <1>4, HandFacts
  <2>2. QED
    BY <1>5, <1>8, <2>1 DEF CopyInv
<1>10. Right(5, buf[enc.pdu], got) /\ IdsAt(5, buf[enc.pdu]) \subseteq IdsIn(5, L[5], buf)
  BY <1>5, <1>8, PlaceTail
<1>11. d \in Genuine(got) /\ d.id \in T[5]
  <2>1. IdsAt(5, buf[enc.pdu]) = {d.id}
    BY DEF IdsAt, OutOf
  <2>2. QED
    BY <1>7, <1>10, <2>1 DEF Right
<1>12. s \in Seq(Genuine(got)) /\ Rising(s, got) /\ DOMAIN sent = Port
  BY <1>5 DEF SentInv
<1>13. sent'[1] = s \o r /\ sent'[0] = sent[0] /\ DOMAIN sent' = Port
  BY <1>1, <1>12 DEF Port
<1>14. Before(T[15], T[5], got)
  <2>1. Ahead(15, 5) /\ 15 \in Stage /\ 5 \in Stage
    BY AllFollow DEF Follows, Stage
  <2>2. QED
    BY <1>5, <2>1 DEF Chained
<1> HIDE DEF L, K, T, r, rm, d, s
<1>15. r \in Seq(Genuine(got)) /\ Len(r) = 1 /\ r[1] = d
  BY <1>9, <1>11
<1>16. Rising(r, got) /\ SeqIds(r) = {d.id}
  BY <1>15 DEF Rising, SeqIds
<1>17. Before(SeqIds(s), SeqIds(r), got)
  BY <1>7, <1>11, <1>14, <1>16, BeforeLess
<1>18. /\ s \o r \in Seq(Genuine(got)) /\ Rising(s \o r, got)
       /\ SeqIds(s \o r) \subseteq SeqIds(s) \cup SeqIds(r)
  BY <1>5, <1>12, <1>15, <1>16, <1>17, SentMore
<1>19. SentInv(sent', enc.built, got)
  BY <1>5, <1>13, <1>18 DEF SentInv
<1>20. SeqIds(sent'[1]) \subseteq SeqIds(sent[1]) \cup IdsIn(5, L[5], buf)
  BY <1>7, <1>11, <1>13, <1>16, <1>18 DEF s
<1>21. CopyInv(K, buf)
  BY <1>4 DEF CopyInv
<1>22. Follows(15, 5) /\ \A p \in 1 .. 13 : K[p] = L[p] \/ K[p] = <<>>
  BY <1>4, AllFollow
<1>23. Sends(L, buf, sent, enc.built, K, sent', enc.built, 15, 5)
  BY <1>4, <1>13, <1>20, <1>22 DEF Sends
<1>24. Trace(K, buf, sent', enc.built, rm, got)
  BY ONLY <1>5, <1>19, <1>21, <1>23, SentOn
<1>25. QED
  BY <1>6, <1>24

\* An mbuf of a pool is used.
Taken(q, m, b) ==
  /\ q \in Place /\ Lists[q] # <<>> /\ m = Head(Lists[q]) /\ m \in AllMbufs /\ m # None
  /\ Only(m, buf, buf') /\ buf'[m] = b /\ Sound(buf[m])
  /\ \A nx : Remainder(decap.frame, nx, buf') = Remainder(decap.frame, nx, buf)
  /\ enc.pdu # None => buf'[enc.pdu] = buf[enc.pdu]
  /\ \A K : CopyInv(Lists, buf) /\ K[5] = Lists[5] /\ K[6] = Lists[6] => CopyInv(K, buf')

\* What was known of the others is still true.
LEMMA TakenTraced ==
  ASSUME Placed, Filled, NEW P \in Pools, NEW m \in Get(free[P]), NEW b, buf' = [buf EXCEPT ![m] = b],
         NEW q, q = PoolPlace(P)
  PROVE  Taken(q, m, b)
<1>1. q \in {14, 15, 16} /\ q \in Place /\ Lists[q] = free[P]
  BY ListFacts, PoolFacts DEF ListEqs, Place, PoolPlace
<1>2. Lists[q] # <<>> /\ m = Head(Lists[q]) /\ m \in AllMbufs /\ m # None
  BY <1>1, Given
<1>3. DOMAIN buf = AllMbufs /\ Sound(buf[m])
  BY <1>2 DEF Filled
<1>4. buf'[m] = b /\ Only(m, buf, buf')
  BY <1>2, <1>3 DEF Only
<1>5. Only(Head(Lists[q]), buf, buf')
  BY <1>2, <1>4
<1>6. /\ decap.frame # None => buf'[decap.frame] = buf[decap.frame]
      /\ enc.pdu # None => buf'[enc.pdu] = buf[enc.pdu]
  <2>1. q # 3 /\ q # 5
    BY <1>1
  <2>2. QED
    BY <1>1, <1>2, <1>5, <2>1, Elsewhere
<1>7. \A nx : Remainder(decap.frame, nx, buf') = Remainder(decap.frame, nx, buf)
  BY <1>6 DEF Remainder
<1>8. ASSUME NEW K, CopyInv(Lists, buf), K[5] = Lists[5], K[6] = Lists[6] PROVE CopyInv(K, buf')
  <2>1. q \notin {5, 6}
    BY <1>1
  <2>2. QED
    BY <1>1, <1>2, <1>5, <1>8, <2>1, CopyKept
<1>9. QED
  BY <1>1, <1>2, <1>3, <1>4, <1>6, <1>7, <1>8 DEF Taken

\* PDUs of the frame that is built, or of the one received, are lost.
LEMMA Fewer ==
  ASSUME NEW L, NEW bf, NEW sn, NEW bu, NEW rm, NEW gt, Trace(L, bf, sn, bu, rm, gt),
         NEW bv, bv = bu \/ bv = <<>>, NEW rv, rv \subseteq rm
  PROVE  Trace(L, bf, sn, bv, rv, gt)
<1> DEFINE T == Stages(L, bf, sn, bu, rm)
           U == Stages(L, bf, sn, bv, rv)
<1>1. /\ Stamped(gt) /\ \A p \in 1 .. 13 : PlaceInv(p, L[p], bf, gt)
      /\ SentInv(sn, bu, gt) /\ rm \subseteq Known(gt) /\ CopyInv(L, bf) /\ Chained(T, gt)
  BY DEF Trace
<1>2. \A b \in Stage : b \in 1 .. 13 \/ b \in {14, 15, 16, 17}
  BY DEF Stage
<1>3. /\ \A b \in 1 .. 13 : T[b] = IdsIn(b, L[b], bf)
      /\ T[14] = SeqIds(sn[0]) /\ T[15] = SeqIds(sn[1]) /\ T[16] = SeqIds(bu) /\ T[17] = rm
  BY StageFacts
<1>4. /\ \A b \in 1 .. 13 : U[b] = IdsIn(b, L[b], bf)
      /\ U[14] = SeqIds(sn[0]) /\ U[15] = SeqIds(sn[1]) /\ U[16] = SeqIds(bv) /\ U[17] = rv
  BY StageFacts
<1>5. SeqIds(bv) \subseteq SeqIds(bu)
  BY DEF SeqIds
<1>6. bv \in Seq(Genuine1(gt)) /\ Rising(bv, gt)
  <2>1. CASE bv = <<>>
    <3>1. Len(bv) = 0 /\ bv \in Seq(Genuine1(gt))
      BY <2>1
    <3>2. QED
      BY <3>1 DEF Rising
  <2>2. CASE bv = bu
    BY <1>1, <2>2 DEF SentInv
  <2>3. QED
    BY <2>1, <2>2
<1>7. SentInv(sn, bv, gt)
  BY <1>1, <1>6 DEF SentInv
<1> HIDE DEF T, U
<1>8. \A b \in Stage : U[b] \subseteq T[b]
  BY <1>2, <1>3, <1>4, <1>5
<1>9. Chained(U, gt)
  BY <1>1, <1>8, BeforeLess DEF Chained
<1>10. QED
  BY <1>1, <1>7, <1>9 DEF Trace, U

\* The PDU for port 1 is copied, or dropped.
LEMMA CopyTraced ==
  ASSUME Placed, Filled, Traced, CopyPdu
  PROVE  Traced'
<1> DEFINE L == Lists
           K == Lists'
           rm == Remainder(decap.frame, decap.next, buf)
<1>1. /\ enc.pdu # None /\ enc.send = None
      /\ UNCHANGED <<rcv_ring, encap_ring, snd_bb_ring, recv, decap, snd, got, sent>>
  BY DEF CopyPdu, rings
<1>2. /\ OnePlace(L) /\ CopyInv(L, buf) /\ Trace(L, buf, sent, enc.built, rm, got)
  BY TracedMeans
<1>3. L[5] = Hand(enc.pdu) /\ L[5] # <<>> /\ L[5][1] = enc.pdu /\ Head(L[5]) = enc.pdu /\ L[6] = <<>>
  BY <1>1, ListFacts, HandFacts DEF ListEqs
<1>4. CASE buf' = buf /\ enc' = [enc EXCEPT !.pdu = None, !.turn = 1]
  <2>1. enc'.pdu = None /\ enc'.send = None /\ enc'.rest = enc.rest /\ enc'.open = enc.open
        /\ enc'.built = enc.built
    BY <1>1, <1>4 DEF Placed, Shape, EncFields
  <2>2. K[5] = <<>> /\ \A p \in 1 .. 13 : p # 5 => K[p] = L[p]
    BY <1>1, <2>1, ListFacts, ListFactsNext, HandFacts DEF ListEqs
  <2>3. Traced' <=> Trace(K, buf, sent, enc.built, rm, got)
    BY <1>1, <1>4, <2>1 DEF Traced
  <2>4. 5 \in Place /\ Only(enc.pdu, buf, buf)
    BY DEF Place, Only
  <2> HIDE DEF L, K, rm
  <2>5. CopyInv(K, buf)
    BY <1>3, <2>2 DEF CopyInv
  <2>6. Shrinks(L, buf, enc.built, rm, K, buf, enc.built, rm, 5, enc.pdu)
    BY <1>3, <2>2, <2>4, LessFacts DEF Shrinks
  <2>7. Trace(K, buf, sent, enc.built, rm, got)
    BY ONLY <1>2, <2>5, <2>6, Shrunk
  <2>8. QED
    BY <2>3, <2>7
<1>5. ASSUME NEW m \in Get(free[EncapMbuf]), enc' = [enc EXCEPT !.send = m],
             buf' = [buf EXCEPT ![m] = [Appended(Reset(@), buf[enc.pdu].data_len + ETHER_HDR)
                                          EXCEPT !.data = <<PduOut(enc.pdu)>>]]
      PROVE  Traced'
  <2> DEFINE len == buf[enc.pdu].data_len + ETHER_HDR
             b == [Appended(Reset(buf[m]), len) EXCEPT !.data = <<PduOut(enc.pdu)>>]
             T == Stages(L, buf, sent, enc.built, rm)
             U == Stages(K, buf', sent, enc.built, rm)
  <2>1. EncapMbuf \in Pools /\ PoolPlace(EncapMbuf) = 16
    BY PoolFacts DEF PoolPlace
  <2>2. buf' = [buf EXCEPT ![m] = b]
    BY <1>5
  <2> HIDE DEF b
  <2>3. /\ 16 \in Place /\ L[16] # <<>> /\ m = Head(L[16]) /\ m \in AllMbufs /\ m # None
        /\ Only(m, buf, buf') /\ buf'[m] = b /\ Sound(buf[m])
        /\ Remainder(decap.frame, decap.next, buf') = rm
        /\ buf'[enc.pdu] = buf[enc.pdu]
    <3>1. Placed /\ Filled /\ m \in Get(free[EncapMbuf])
      OBVIOUS
    <3>2. Taken(16, m, b)
      BY ONLY <2>1, <2>2, <3>1, TakenTraced
    <3>3. QED
      BY <1>1, <3>2 DEF Taken
  <2>4. b.data = <<OutOf(buf[enc.pdu])>>
    <3>1. len \in Nat
      <4>1. Sound(buf[enc.pdu])
        BY <1>1, InLists DEF Filled
      <4>2. QED
        BY <4>1 DEF Sound, ETHER_HDR
    <3>2. b.data = <<PduOut(enc.pdu)>>
      BY <2>3, <3>1, SoundFilled DEF b
    <3>3. QED
      BY <3>2 DEF PduOut, OutOf
  <2>5. enc'.pdu = enc.pdu /\ enc'.send = m /\ enc'.rest = enc.rest /\ enc'.open = enc.open
        /\ enc'.built = enc.built
    BY <1>5 DEF Placed, Shape, EncFields
  <2>6. \A p \in 1 .. 13 : p # 6 => K[p] = L[p]
    BY <1>1, <2>5, ListFacts, ListFactsNext, HandFacts, SMTT(30) DEF ListEqs
  <2>7. K[6] = Append(L[6], m) /\ K[6][1] = m
    BY <1>3, <2>3, <2>5, ListFactsNext, HandFacts DEF ListEqs
  <2>8. Traced' <=> Trace(K, buf', sent, enc.built, rm, got)
    BY <1>1, <2>3, <2>5 DEF Traced
  <2>9. CopyInv(K, buf')
    BY <1>3, <2>3, <2>4, <2>6, <2>7 DEF CopyInv
  <2>10. Right(6, buf'[m], got) /\ IdsAt(6, buf'[m]) = {}
    BY DEF Right, IdsAt
  <2>11. Before(IdsIn(6, L[6], buf), IdsAt(6, buf'[m]), got)
    BY <2>10, BeforeUnion
  <2>12. Chained(T, got) /\ Stamped(got)
    BY <1>2 DEF Trace
  <2> HIDE DEF L, K, rm, T, U
  <2>13. Moves(L, buf, enc.built, rm, K, buf', enc.built, rm, 16, m, 6)
    BY <2>3, <2>6, <2>7, LessFacts, SMTT(30) DEF Moves
  <2>14. /\ \A p \in 1 .. 13 : PlaceInv(p, K[p], buf', got)
         /\ SentInv(sent, enc.built, got) /\ rm \subseteq Known(got)
         /\ \A x \in Stage : x # 6 => U[x] \subseteq T[x]
         /\ U[6] \subseteq T[6] \cup IdsAt(6, buf'[m])
    BY <1>2, <2>10, <2>11, <2>13, MovesFacts DEF T, U
  <2>15. \A x \in Stage : U[x] \subseteq T[x]
    BY <2>10, <2>14
  <2>16. Chained(U, got)
    BY <2>12, <2>15, BeforeLess DEF Chained
  <2>17. Trace(K, buf', sent, enc.built, rm, got)
    BY <2>9, <2>12, <2>14, <2>16 DEF Trace, U
  <2>18. QED
    BY <2>8, <2>17
<1>6. QED
  BY <1>4, <1>5 DEF CopyPdu

\* The frame goes to the sending thread, or is lost.
LEMMA WriteTraced ==
  ASSUME Placed, Filled, Traced, write_codeblock
  PROVE  Traced'
<1> DEFINE L == Lists
           K == Lists'
           rm == Remainder(decap.frame, decap.next, buf)
           bu == enc.built
<1>1. /\ enc' = [enc EXCEPT !.emit = FALSE, !.built = <<>>]
      /\ UNCHANGED <<rcv_ring, encap_ring, recv, decap, snd, got, sent>>
  BY DEF write_codeblock
<1>2. /\ OnePlace(L) /\ CopyInv(L, buf) /\ Trace(L, buf, sent, bu, rm, got)
      /\ SentInv(sent, bu, got) /\ Stamped(got)
  BY TracedMeans
<1>3. enc'.pdu = enc.pdu /\ enc'.send = enc.send /\ enc'.rest = enc.rest /\ enc'.open = enc.open
      /\ enc'.built = <<>>
  BY <1>1 DEF Placed, Shape, EncFields
<1>4. CASE UNCHANGED <<free, buf, snd_bb_ring>>
  <2>1. K = L
    BY <1>1, <1>3, <1>4 DEF Lists
  <2>2. Traced' <=> Trace(L, buf, sent, <<>>, rm, got)
    BY <1>1, <1>3, <1>4, <2>1 DEF Traced
  <2> HIDE DEF L, K, rm
  <2>3. Trace(L, buf, sent, <<>>, rm, got)
    BY <1>2, Fewer
  <2>4. QED
    BY <2>2, <2>3
<1>5. ASSUME NEW m \in Get(free[EncapMbuf]), snd_bb_ring' = Append(snd_bb_ring, m),
             buf' = [buf EXCEPT ![m] = [Appended(Reset(@), FrameSize) EXCEPT !.data = enc.built]]
      PROVE  Traced'
  <2> DEFINE b == [Appended(Reset(buf[m]), FrameSize) EXCEPT !.data = bu]
  <2>1. EncapMbuf \in Pools /\ PoolPlace(EncapMbuf) = 16
    BY PoolFacts DEF PoolPlace
  <2>2. buf' = [buf EXCEPT ![m] = b]
    BY <1>5
  <2> HIDE DEF b
  <2>3. /\ 16 \in Place /\ L[16] # <<>> /\ m = Head(L[16]) /\ m \in AllMbufs /\ m # None
        /\ Only(m, buf, buf') /\ buf'[m] = b /\ Sound(buf[m])
        /\ Remainder(decap.frame, decap.next, buf') = rm
        /\ (K[5] = L[5] /\ K[6] = L[6] => CopyInv(K, buf'))
    <3>1. Placed /\ Filled /\ m \in Get(free[EncapMbuf])
      OBVIOUS
    <3>2. Taken(16, m, b)
      BY ONLY <2>1, <2>2, <3>1, TakenTraced
    <3>3. QED
      BY <1>2, <3>2 DEF Taken
  <2>4. b.data = bu
    <3>1. FrameSize \in Nat
      BY DEF FrameSize
    <3>2. QED
      BY <2>3, <3>1, SoundFilled DEF b
  <2>5. \A p \in 1 .. 13 : p # 13 => K[p] = L[p]
    BY <1>1, <1>3, ListFacts, ListFactsNext, HandFacts DEF ListEqs
  <2>6. K[13] = Append(L[13], m)
    BY <1>5, ListFacts, ListFactsNext DEF ListEqs
  <2>7. Traced' <=> Trace(K, buf', sent, <<>>, rm, got)
    BY <1>1, <1>3, <2>3 DEF Traced
  <2>8. CopyInv(K, buf')
    BY <2>3, <2>5
  <2>9. Right(13, buf'[m], got) /\ IdsAt(13, buf'[m]) = SeqIds(bu)
    BY <1>2, <2>3, <2>4 DEF Right, IdsAt, SentInv
  <2> HIDE DEF L, K, rm
  <2>10. Moves(L, buf, bu, rm, K, buf', <<>>, rm, 16, m, 13)
    BY <2>3, <2>5, <2>6, LessFacts, SMTT(30) DEF Moves
  <2>11. Stages(L, buf, sent, bu, rm)[16] = SeqIds(bu)
    BY StageFacts
  <2>12. Stages(K, buf', sent, <<>>, rm)[16] = {}
    <3>1. SeqIds(<<>>) = {}
      BY DEF SeqIds
    <3>2. QED
      BY <3>1, StageFacts
  <2>13. Follows(13, 16) /\ 16 \in Stage /\ 13 # 8
    BY AllFollow DEF Stage
  <2>14. IdsAt(13, buf'[m]) \subseteq Stages(L, buf, sent, bu, rm)[16]
    BY <2>9, <2>11
  <2>15. Before(IdsAt(13, buf'[m]), Stages(K, buf', sent, <<>>, rm)[16], got)
    BY <2>12, BeforeUnion
  <2>16. Trace(K, buf', sent, <<>>, rm, got)
    BY ONLY <1>2, <2>8, <2>9, <2>10, <2>13, <2>14, <2>15, Moved
  <2>17. QED
    BY <2>7, <2>16
<1>6. QED
  BY <1>4, <1>5 DEF write_codeblock

\* An mbuf of the place c is added to the open frame.
LEMMA AddTraced ==
  ASSUME Placed, Traced, NEW c \in {4, 12}, Lists[c] # <<>>, c = 12 => Lists[4] = <<>>,
         NEW K, K[c] = Tail(Lists[c]), K[8] = Append(Lists[8], Head(Lists[c])),
         \A p \in 1 .. 13 : p # c /\ p # 8 => K[p] = Lists[p]
  PROVE  Trace(K, buf, sent, enc.built, Remainder(decap.frame, decap.next, buf), got)
<1> DEFINE L == Lists
           m == Head(L[c])
           rm == Remainder(decap.frame, decap.next, buf)
<1>1. OnePlace(L) /\ CopyInv(L, buf) /\ Trace(L, buf, sent, enc.built, rm, got)
  BY TracedMeans
<1>2. CopyInv(K, buf)
  BY <1>1 DEF CopyInv
<1>3. (Right(c, buf[m], got) => Right(8, buf[m], got)) /\ IdsAt(8, buf[m]) = IdsAt(c, buf[m])
  <2>1. ASSUME NEW b, NEW gt
        PROVE  (Right(c, b, gt) => Right(8, b, gt)) /\ IdsAt(8, b) = IdsAt(c, b)
    <3>1. c = 4 \/ c = 12
      OBVIOUS
    <3>2. QED
      BY ONLY <3>1 DEF Right, IdsAt
  <2> HIDE DEF m
  <2>2. QED
    BY <2>1
<1>4. Follows(8, c) /\ Only(m, buf, buf)
  BY AllFollow DEF Only
<1>5. K[4] = <<>>
  <2>1. L[4] # <<>> => Tail(L[4]) = <<>>
    BY ListFacts, HandFacts, SMTT(30) DEF ListEqs
  <2>2. c = 4 => K[4] = Tail(L[4]) /\ L[4] # <<>>
    OBVIOUS
  <2>3. c = 12 => K[4] = L[4] /\ L[4] = <<>>
    OBVIOUS
  <2>4. QED
    BY <2>1, <2>2, <2>3
<1> HIDE DEF L, m, rm
<1>6. Passes(L, buf, K, buf, 8, c, m, got)
  BY <1>3, <1>4, <1>5 DEF Passes, L, m
<1>7. Trace(K, buf, sent, enc.built, rm, got)
  BY ONLY <1>1, <1>2, <1>6, PassedOn
<1>8. QED
  BY <1>7 DEF rm

\* The rest of a PDU of encap_ring[1] waits.
LEMMA WaitTraced ==
  ASSUME Placed, Traced, Lists[12] # <<>>, Lists[4] = <<>>,
         NEW K, K[12] = Tail(Lists[12]), K[4] = Append(Lists[4], Head(Lists[12])),
         \A p \in 1 .. 13 : p # 12 /\ p # 4 => K[p] = Lists[p]
  PROVE  Trace(K, buf, sent, enc.built, Remainder(decap.frame, decap.next, buf), got)
<1> DEFINE L == Lists
           m == Head(L[12])
           rm == Remainder(decap.frame, decap.next, buf)
<1>1. OnePlace(L) /\ CopyInv(L, buf) /\ Trace(L, buf, sent, enc.built, rm, got)
  BY TracedMeans
<1>2. CopyInv(K, buf)
  BY <1>1 DEF CopyInv
<1>3. (Right(12, buf[m], got) => Right(4, buf[m], got)) /\ IdsAt(4, buf[m]) = IdsAt(12, buf[m])
  BY DEF Right, IdsAt
<1>4. Follows(4, 12) /\ Only(m, buf, buf)
  BY AllFollow DEF Only
<1> HIDE DEF L, m, rm
<1>5. Passes(L, buf, K, buf, 4, 12, m, got)
  BY <1>3, <1>4 DEF Passes, L, m
<1>6. Trace(K, buf, sent, enc.built, rm, got)
  BY ONLY <1>1, <1>2, <1>5, PassedOn
<1>7. QED
  BY <1>6 DEF rm

\* The frame is closed with the mbufs that are in place 8 of L.
LEMMA CloseTraced ==
  ASSUME NEW L, NEW rm, Trace(L, buf, sent, enc.built, rm, got), NEW e, DOMAIN e = EncFields,
         L[8] \in Seq(AllMbufs), Close(e, L[8], free),
         NEW K, K[8] = <<>>, \A p \in 1 .. 13 : p # 8 => K[p] = L[p]
  PROVE  Trace(K, buf, sent, enc'.built, rm, got)
<1> DEFINE s == L[8]
           bv == enc'.built
<1>1. enc' = [e EXCEPT !.built = [k \in DOMAIN s |-> PduIn(s[k])], !.emit = TRUE, !.open = <<>>]
  BY DEF Close
<1> DEFINE f == [k \in DOMAIN s |-> PduIn(s[k])]
<1>2. bv = f
  <2> HIDE DEF f
  <2>1. enc' = [e EXCEPT !.built = f, !.emit = TRUE, !.open = <<>>]
    BY <1>1 DEF f
  <2>2. QED
    BY <2>1 DEF EncFields
<1>3. \A k : PduIn(s[k]) = InOf(buf[s[k]])
  BY DEF PduIn, InOf
<1>4. f = [k \in DOMAIN s |-> InOf(buf[s[k]])]
  BY <1>3
<1>5. bv = [k \in DOMAIN L[8] |-> InOf(buf[L[8][k]])]
  BY <1>2, <1>4
<1> HIDE DEF bv
<1>6. Trace(K, buf, sent, bv, rm, got)
  BY <1>5, Closed
<1>7. QED
  BY <1>6 DEF bv

\* The first mbuf of the place c is added to the frame, which stays open or is closed.
LEMMA AddedTraced ==
  ASSUME Placed, Traced, NEW c \in {4, 12}, Lists[c] # <<>>, c = 12 => Lists[4] = <<>>,
         NEW m, m = Head(Lists[c]), NEW e, DOMAIN e = EncFields, e.open = enc.open, e.built = enc.built,
         Added(e, m), NEW K, K[c] = Tail(Lists[c]), K[8] = enc'.open,
         \A p \in 1 .. 13 : p # c /\ p # 8 => K[p] = Lists[p]
  PROVE  Trace(K, buf, sent, enc'.built, Remainder(decap.frame, decap.next, buf), got)
<1> DEFINE rm == Remainder(decap.frame, decap.next, buf)
           s == Append(enc.open, m)
           L1 == [p \in 1 .. 13 |-> IF p = 8 THEN s ELSE IF p = c THEN Tail(Lists[c]) ELSE Lists[p]]
<1>1. /\ L1[c] = Tail(Lists[c]) /\ L1[8] = s
      /\ \A p \in 1 .. 13 : p # c /\ p # 8 => L1[p] = Lists[p]
  BY SMTT(30) DEF L1
<1>2. Lists[8] = enc.open /\ c \in 1 .. 13 /\ c # 8
  BY ListFacts DEF ListEqs
<1> HIDE DEF L1
<1>3. L1[8] = Append(Lists[8], Head(Lists[c]))
  BY <1>1, <1>2
<1>4. Trace(L1, buf, sent, enc.built, rm, got)
  BY <1>1, <1>3, AddTraced
<1>5. s \in Seq(AllMbufs)
  <2>1. c \in Place
    BY DEF Place
  <2>2. Lists[c] \in Seq(AllMbufs)
    BY <2>1 DEF Placed, OnePlace
  <2>3. m \in AllMbufs /\ enc.open \in Seq(AllMbufs)
    BY <2>2, InLists
  <2>4. QED
    BY <2>3
<1>6. CASE enc' = [e EXCEPT !.open = Append(@, m)]
  <2>1. enc'.open = s /\ enc'.built = enc.built
    BY <1>6 DEF EncFields
  <2>2. \A p \in 1 .. 13 : K[p] = L1[p]
    BY <1>1, <1>2, <2>1
  <2> HIDE DEF s, rm
  <2>3. Trace(K, buf, sent, enc.built, rm, got)
    BY <1>4, <2>2, SameTrace
  <2>4. QED
    BY <2>1, <2>3 DEF rm
<1>7. CASE Close(e, Append(e.open, m), free)
  <2>1. enc'.open = <<>>
    BY <1>7 DEF Close, EncFields
  <2>2. K[8] = <<>> /\ \A p \in 1 .. 13 : p # 8 => K[p] = L1[p]
    BY <1>1, <1>2, <2>1
  <2>3. Close(e, L1[8], free) /\ L1[8] \in Seq(AllMbufs)
    BY <1>1, <1>5, <1>7
  <2> HIDE DEF s, rm
  <2>4. Trace(K, buf, sent, enc'.built, rm, got)
    BY ONLY <1>4, <2>2, <2>3, DOMAIN e = EncFields, CloseTraced
  <2>5. QED
    BY <2>4 DEF rm
<1>8. QED
  BY <1>6, <1>7 DEF Added

\* The rest of a PDU is added, or its next fragment.
LEMMA EncapFragmentTraced ==
  ASSUME Placed, Traced, EncapsulateFragment
  PROVE  Traced'
<1> DEFINE L == Lists
           K == Lists'
           m == enc.rest
           rm == Remainder(decap.frame, decap.next, buf)
<1>1. /\ m # None /\ DOMAIN enc = EncFields
      /\ UNCHANGED <<buf, rcv_ring, encap_ring, snd_bb_ring, recv, decap, snd, got, sent>>
  BY DEF EncapsulateFragment, rings, Placed, Shape
<1>2. Trace(L, buf, sent, enc.built, rm, got)
  BY TracedMeans
<1>3. Traced' <=> Trace(K, buf, sent, enc'.built, rm, got)
  BY <1>1 DEF Traced
<1>4. L[4] = Hand(m) /\ L[4] # <<>> /\ m = Head(L[4]) /\ Tail(L[4]) = <<>> /\ L[8] = enc.open
  BY <1>1, ListFacts, HandFacts DEF ListEqs
<1>5. ASSUME enc'.pdu = enc.pdu, enc'.send = enc.send
      PROVE  /\ \A p \in 1 .. 13 : p # 4 /\ p # 8 => K[p] = L[p]
             /\ K[4] = Hand(enc'.rest) /\ K[8] = enc'.open
  BY <1>1, <1>5, ListFacts, ListFactsNext DEF ListEqs
<1>6. CASE Close([enc EXCEPT !.cuts = @ - 1], enc.open, free)
  <2> DEFINE e == [enc EXCEPT !.cuts = @ - 1]
  <2>1. /\ DOMAIN e = EncFields /\ e.rest = enc.rest /\ e.pdu = enc.pdu /\ e.send = enc.send
    BY <1>1 DEF EncFields
  <2>2. Close(e, L[8], free) /\ L[8] \in Seq(AllMbufs)
    BY <1>4, <1>6, InLists
  <2> HIDE DEF e
  <2>3. enc'.open = <<>> /\ enc'.rest = e.rest /\ enc'.pdu = e.pdu /\ enc'.send = e.send
    BY <2>1, <2>2 DEF Close, EncFields
  <2>4. K[8] = <<>> /\ \A p \in 1 .. 13 : p # 8 => K[p] = L[p]
    BY <1>4, <1>5, <2>1, <2>3
  <2> HIDE DEF L, K, rm
  <2>5. Trace(K, buf, sent, enc'.built, rm, got)
    BY ONLY <1>2, <2>1, <2>2, <2>4, CloseTraced
  <2>6. QED
    BY <1>3, <2>5
<1>7. ASSUME NEW e, e = [enc EXCEPT !.rest = None, !.cuts = 0], Added(e, m)
      PROVE  Traced'
  <2>1. /\ DOMAIN e = EncFields /\ e.rest = None /\ e.pdu = enc.pdu /\ e.send = enc.send
        /\ e.open = enc.open /\ e.built = enc.built
    BY <1>1, <1>7 DEF EncFields
  <2>2. enc'.rest = e.rest /\ enc'.pdu = e.pdu /\ enc'.send = e.send
    <3>1. CASE enc' = [e EXCEPT !.open = Append(@, m)]
      BY <2>1, <3>1 DEF EncFields
    <3>2. CASE Close(e, Append(e.open, m), free)
      BY <2>1, <3>2 DEF EncFields, Close
    <3>3. QED
      BY <1>7, <3>1, <3>2 DEF Added
  <2>3. /\ \A p \in 1 .. 13 : p # 4 /\ p # 8 => K[p] = L[p]
        /\ K[4] = Tail(L[4]) /\ K[8] = enc'.open
    BY <1>4, <1>5, <2>1, <2>2, HandFacts
  <2>4. 4 \in {4, 12} /\ (4 = 12 => L[4] = <<>>) /\ Placed /\ Traced /\ Added(e, m)
    BY <1>7
  <2> HIDE DEF K, m
  <2>5. Trace(K, buf, sent, enc'.built, rm, got)
    BY ONLY <1>4, <2>1, <2>3, <2>4, AddedTraced
  <2>6. QED
    BY <1>3, <2>5
<1>8. QED
  BY <1>6, <1>7 DEF EncapsulateFragment, Added

\* A packet of port 1 is put into the frame, or an open frame is closed.
LEMMA EncapPoll1Traced ==
  ASSUME Placed, Traced, EncapPoll1
  PROVE  Traced'
<1> DEFINE L == Lists
           K == Lists'
           s == encap_ring[1]
           m == Head(s)
           rm == Remainder(decap.frame, decap.next, buf)
<1>1. /\ enc.rest = None /\ DOMAIN enc = EncFields
      /\ UNCHANGED <<buf, rcv_ring, snd_bb_ring, recv, decap, snd, got, sent>>
  BY DEF EncapPoll1, Placed, Shape
<1>2. Trace(L, buf, sent, enc.built, rm, got)
  BY TracedMeans
<1>3. Traced' <=> Trace(K, buf, sent, enc'.built, rm, got)
  BY <1>1 DEF Traced
<1>4. L[4] = <<>> /\ L[8] = enc.open /\ L[12] = s
  BY <1>1, ListFacts, HandFacts DEF ListEqs
<1>5. ASSUME enc'.pdu = enc.pdu, enc'.send = enc.send, encap_ring'[0] = encap_ring[0]
      PROVE  /\ \A p \in 1 .. 13 : p # 4 /\ p # 8 /\ p # 12 => K[p] = L[p]
             /\ K[4] = Hand(enc'.rest) /\ K[8] = enc'.open /\ K[12] = encap_ring'[1]
  BY <1>1, <1>5, ListFacts, ListFactsNext DEF ListEqs
<1>6. ASSUME FlushIdle([enc EXCEPT !.turn = 0, !.idle = (@ + 1) % IdleLoops]),
             encap_ring' = encap_ring
      PROVE  Traced'
  <2> DEFINE e == [enc EXCEPT !.turn = 0, !.idle = (@ + 1) % IdleLoops]
  <2>1. /\ DOMAIN e = EncFields /\ e.rest = enc.rest /\ e.pdu = enc.pdu /\ e.send = enc.send
        /\ e.open = enc.open /\ e.built = enc.built
    BY <1>1 DEF EncFields
  <2>2. (enc' = e /\ free' = free) \/ Close(e, e.open, free)
    BY <1>6 DEF FlushIdle
  <2> HIDE DEF e
  <2>3. CASE enc' = e
    <3>1. \A p \in 1 .. 13 : K[p] = L[p]
      BY <1>1, <1>4, <1>5, <1>6, <2>1, <2>3, HandFacts
    <3> HIDE DEF K, L, rm
    <3>2. Trace(K, buf, sent, enc.built, rm, got)
      BY <1>2, <3>1, SameTrace
    <3>3. QED
      BY <1>3, <2>1, <2>3, <3>2
  <2>4. CASE Close(e, e.open, free)
    <3>1. Close(e, L[8], free) /\ L[8] \in Seq(AllMbufs)
      BY <1>4, <2>1, <2>4, InLists
    <3>2. enc'.open = <<>> /\ enc'.rest = e.rest /\ enc'.pdu = e.pdu /\ enc'.send = e.send
      BY <2>1, <2>4 DEF Close, EncFields
    <3>3. K[8] = <<>> /\ \A p \in 1 .. 13 : p # 8 => K[p] = L[p]
      BY <1>1, <1>4, <1>5, <1>6, <2>1, <3>2, HandFacts
    <3> HIDE DEF L, K, rm
    <3>4. Trace(K, buf, sent, enc'.built, rm, got)
      BY ONLY <1>2, <2>1, <3>1, <3>3, CloseTraced
    <3>5. QED
      BY <1>3, <3>4
  <2>5. QED
    BY <2>2, <2>3, <2>4
<1>7. ASSUME s # <<>>, encap_ring' = [encap_ring EXCEPT ![1] = Tail(@)]
      PROVE  encap_ring'[1] = Tail(L[12]) /\ encap_ring'[0] = encap_ring[0] /\ m # None
             /\ L[12] # <<>> /\ m = Head(L[12])
  <2>1. encap_ring'[1] = Tail(s) /\ encap_ring'[0] = encap_ring[0]
    BY <1>7 DEF Placed, Shape, Port
  <2>2. s \in Seq(AllMbufs)
    BY InLists DEF Port
  <2>3. m \in AllMbufs
    BY <1>7, <2>2
  <2>4. QED
    BY <1>4, <1>7, <2>1, <2>3, PoolFacts
<1>8. ASSUME s # <<>>, encap_ring' = [encap_ring EXCEPT ![1] = Tail(@)],
             NEW e, e = [enc EXCEPT !.turn = 0, !.idle = 0], Added(e, m)
      PROVE  Traced'
  <2>1. /\ DOMAIN e = EncFields /\ e.rest = None /\ e.pdu = enc.pdu /\ e.send = enc.send
        /\ e.open = enc.open /\ e.built = enc.built
    BY <1>1, <1>8 DEF EncFields
  <2>2. enc'.rest = e.rest /\ enc'.pdu = e.pdu /\ enc'.send = e.send
    <3>1. CASE enc' = [e EXCEPT !.open = Append(@, m)]
      BY <2>1, <3>1 DEF EncFields
    <3>2. CASE Close(e, Append(e.open, m), free)
      BY <2>1, <3>2 DEF EncFields, Close
    <3>3. QED
      BY <1>8, <3>1, <3>2 DEF Added
  <2>3. encap_ring'[1] = Tail(L[12]) /\ encap_ring'[0] = encap_ring[0] /\ m = Head(L[12])
        /\ L[12] # <<>>
    BY <1>7, <1>8
  <2>4. /\ \A p \in 1 .. 13 : p # 12 /\ p # 8 => K[p] = L[p]
        /\ K[12] = Tail(L[12]) /\ K[8] = enc'.open
    BY <1>4, <1>5, <2>1, <2>2, <2>3, HandFacts
  <2>5. 12 \in {4, 12} /\ (12 = 12 => L[4] = <<>>) /\ Placed /\ Traced /\ Added(e, m)
    BY <1>4, <1>8
  <2> HIDE DEF K, m
  <2>6. Trace(K, buf, sent, enc'.built, rm, got)
    BY ONLY <2>1, <2>3, <2>4, <2>5, AddedTraced
  <2>7. QED
    BY <1>3, <2>6
<1>9. ASSUME s # <<>>, encap_ring' = [encap_ring EXCEPT ![1] = Tail(@)], NEW n,
             Close([[enc EXCEPT !.turn = 0, !.idle = 0] EXCEPT !.rest = m, !.cuts = n],
                   enc.open, free)
      PROVE  Traced'
  <2> DEFINE e == [[enc EXCEPT !.turn = 0, !.idle = 0] EXCEPT !.rest = m, !.cuts = n]
             L1 == [p \in 1 .. 13 |-> IF p = 12 THEN Tail(L[12]) ELSE IF p = 4 THEN Append(L[4], m)
                                      ELSE L[p]]
  <2>1. DOMAIN e = EncFields /\ e.rest = m /\ e.pdu = enc.pdu /\ e.send = enc.send
    BY <1>1 DEF EncFields
  <2>2. Close(e, enc.open, free)
    BY <1>9
  <2> HIDE DEF e
  <2>3. enc'.open = <<>> /\ enc'.rest = e.rest /\ enc'.pdu = e.pdu /\ enc'.send = e.send
    BY <2>1, <2>2 DEF Close, EncFields
  <2>4. encap_ring'[1] = Tail(L[12]) /\ encap_ring'[0] = encap_ring[0] /\ m = Head(L[12])
        /\ L[12] # <<>> /\ m # None
    BY <1>7, <1>9
  <2>5. /\ L1[12] = Tail(L[12]) /\ L1[4] = Append(L[4], m) /\ L1[8] = L[8]
        /\ \A p \in 1 .. 13 : p # 12 /\ p # 4 => L1[p] = L[p]
    BY DEF L1
  <2>6. K[12] = L1[12] /\ K[4] = L1[4] /\ K[8] = <<>>
    <3>1. Append(L[4], m) = Hand(m)
      BY <1>4, <2>4, HandFacts
    <3>2. QED
      BY <1>5, <2>1, <2>3, <2>4, <2>5, <3>1
  <2>7. \A p \in 1 .. 13 : p # 8 => K[p] = L1[p]
    BY <1>5, <2>1, <2>3, <2>4, <2>5, <2>6
  <2>8. Close(e, L1[8], free) /\ L1[8] \in Seq(AllMbufs)
    BY <1>4, <2>2, <2>5, InLists
  <2> HIDE DEF L1, K, m, rm
  <2>9. Trace(L1, buf, sent, enc.built, rm, got)
    <3>1. L[4] = <<>> /\ L1[4] = Append(L[4], Head(L[12])) /\ Placed /\ Traced
      BY <1>4, <2>4, <2>5
    <3>2. QED
      BY ONLY <2>4, <2>5, <3>1, WaitTraced DEF rm
  <2>10. Trace(K, buf, sent, enc'.built, rm, got)
    BY ONLY <2>1, <2>6, <2>7, <2>8, <2>9, CloseTraced
  <2>11. QED
    BY <1>3, <2>10
<1>10. QED
  <2>1. CASE s = <<>>
    BY <1>6, <2>1 DEF EncapPoll1
  <2>2. CASE s # <<>>
    <3> DEFINE e == [enc EXCEPT !.turn = 0, !.idle = 0]
    <3>1. EncapsulateWhole(m, e) /\ encap_ring' = [encap_ring EXCEPT ![1] = Tail(@)]
      BY <2>2 DEF EncapPoll1
    <3>2. e.open = enc.open
      BY <1>1 DEF EncFields
    <3>3. CASE \E n \in 1 .. MaxCuts : Close([e EXCEPT !.rest = m, !.cuts = n], e.open, free)
      BY <1>9, <2>2, <3>1, <3>2, <3>3
    <3>4. CASE Added(e, m)
      BY <1>8, <2>2, <3>1, <3>4
    <3>5. QED
      BY <3>1, <3>3, <3>4 DEF EncapsulateWhole, Added
  <2>3. QED
    BY <2>1, <2>2

-----------------------------------------------------------------------------
(* The decapsulation thread *)

\* A PDU of a received frame, whole or complete with this fragment.
LEMMA FramePdu ==
  ASSUME NEW gt, Stamped(gt), NEW n \in 1 .. Len(gt), gt[n].type = "frame",
         NEW k \in 1 .. Len(gt[n].pdus), NEW d, d = gt[n].pdus[k]
  PROVE  d.id = <<n, k>> /\ [id |-> d.id, len |-> d.len, proto |-> d.proto] \in Genuine(gt)
<1> DEFINE x == <<n, k>>
<1>1. d.id = x /\ x \in Known(gt) /\ x[1] = n /\ x[2] = k
  BY PacketFacts
<1> HIDE DEF x
<1>2. ReceivedIn(gt, x) = [id |-> x, len |-> d.len, proto |-> d.proto]
  BY <1>1 DEF ReceivedIn
<1>3. QED
  BY <1>1, <1>2 DEF Genuine, x

\* A packet of port 1.
LEMMA PacketPdu ==
  ASSUME NEW gt, Stamped(gt), NEW n \in 1 .. Len(gt), gt[n].port = 1, gt[n].type \in {"IPv4", "ARP"}
  PROVE  /\ gt[n].len >= ETHER_HDR /\ gt[n].len \in Nat /\ Len(gt[n].pdus) = 1
         /\ gt[n].pdus[1].id = <<n, 1>>
         /\ [id |-> <<n, 1>>, len |-> gt[n].len - ETHER_HDR, proto |-> gt[n].type] \in Genuine1(gt)
<1>1. PICK t \in Traffic : gt[n] = Stamp(t, n)
  BY DEF Stamped
<1>2. n \in Nat
  BY PacketFacts
<1>3. t.type = gt[n].type /\ t.port = 1 /\ t.len = gt[n].len /\ Len(gt[n].pdus) = Len(t.pdus)
  BY <1>1, <1>2, StampFacts
<1>4. gt[n].len >= ETHER_HDR /\ Len(gt[n].pdus) = 1
  BY <1>3, TrafficAssumption
<1>5. gt[n].len \in Nat /\ gt[n].pdus[1].id = <<n, 1>> /\ <<n, 1>> \in Known(gt)
  <2>1. 1 \in 1 .. Len(gt[n].pdus)
    BY <1>4
  <2>2. QED
    BY <2>1, PacketFacts
<1> DEFINE x == <<n, 1>>
<1>6. x[1] = n /\ x \in Known(gt)
  BY <1>5
<1> HIDE DEF x
<1>7. ReceivedIn(gt, x) = [id |-> x, len |-> gt[n].len - ETHER_HDR, proto |-> gt[n].type]
  BY <1>6 DEF ReceivedIn
<1>8. ReceivedIn(gt, x) \in Genuine1(gt)
  BY <1>6 DEF Genuine1
<1>9. QED
  BY <1>4, <1>5, <1>7, <1>8 DEF x

\* The mbuf that is taken for a GSE packet is not the frame, and not one being copied.
LEMMA TakingKept ==
  ASSUME Placed, Filled, NEW X, NEW q, NEW m, NEW b, NEW d, OneTaken(X, q, m, b, d)
  PROVE  /\ Only(m, buf, buf') /\ buf'[m] = b /\ m # None
         /\ decap.frame # None => buf'[decap.frame] = buf[decap.frame]
         /\ enc.pdu # None => buf'[enc.pdu] = buf[enc.pdu]
         /\ enc.send # None => buf'[enc.send] = buf[enc.send]
<1>1. /\ m \in AllMbufs /\ m \notin InFront /\ m # enc.pdu /\ m # enc.send
      /\ buf' = [buf EXCEPT ![m] = b] /\ DOMAIN buf = AllMbufs
  BY TakingApart DEF OneTaken, Filled
<1>2. \A n \in AllMbufs : buf'[n] = IF n = m THEN b ELSE buf[n]
  BY <1>1
<1>3. decap.frame # None => decap.frame \in AllMbufs /\ decap.frame # m
  BY <1>1, InLists DEF InFront
<1>4. (enc.pdu # None => enc.pdu \in AllMbufs) /\ (enc.send # None => enc.send \in AllMbufs)
  BY InLists
<1>5. m # None
  BY <1>1, PoolFacts
<1>6. QED
  BY <1>1, <1>2, <1>3, <1>4, <1>5 DEF Only

\* So what is copied remains a copy.
LEMMA CopyElsewhere ==
  ASSUME Placed, CopyInv(Lists, buf), NEW cf, NEW K, K[5] = Lists[5], K[6] = Lists[6],
         enc.pdu # None => cf[enc.pdu] = buf[enc.pdu],
         enc.send # None => cf[enc.send] = buf[enc.send]
  PROVE  CopyInv(K, cf)
<1> SUFFICES ASSUME K[6] # <<>> PROVE K[5] # <<>> /\ cf[K[6][1]].data = <<OutOf(cf[K[5][1]])>>
  BY DEF CopyInv
<1>1. Lists[5] # <<>> /\ buf[Lists[6][1]].data = <<OutOf(buf[Lists[5][1]])>>
  BY DEF CopyInv
<1>2. Lists[5] = Hand(enc.pdu) /\ Lists[6] = Hand(enc.send)
  BY ListFacts DEF ListEqs
<1>3. enc.pdu # None /\ enc.send # None /\ Lists[5][1] = enc.pdu /\ Lists[6][1] = enc.send
  BY <1>1, <1>2, HandFacts
<1>4. QED
  BY <1>1, <1>3

\* An mbuf is taken for the GSE packet d of the frame, and may go on with its PDU.
LEMMA TakenOutTraced ==
  ASSUME Placed, Filled, Traced, NEW X, NEW q, NEW m, NEW b, NEW d, OneTaken(X, q, m, b, d),
         NEW rv, LET rm == Remainder(decap.frame, decap.next, buf) IN
                 rv \subseteq rm /\ d.id \in rm /\ Before({d.id}, rv, got),
         [id |-> d.id, len |-> d.len, proto |-> d.proto] \in Genuine(got),
         \A p \in 1 .. 13 : p # 11 => Lists'[p] = Lists[p],
         Lists'[11] = encap_ring'[0], DOMAIN encap_ring = Port
  PROVE  Trace(Lists', buf', sent, enc.built, rv, got)
<1> DEFINE K == Lists'
           rm == Remainder(decap.frame, decap.next, buf)
           M == {d.id}
<1>1. /\ OnePlace(X) /\ q \in {15, 17} /\ q \in Place /\ X[q] # <<>> /\ m = Head(X[q])
      /\ \A p \in 1 .. 13 : X[p] = Lists[p]
  BY DEF OneTaken, Taking, SameFront, Place
<1>2. /\ CopyInv(Lists, buf) /\ Stamped(got) /\ Trace(Lists, buf, sent, enc.built, rm, got)
  BY TracedMeans
<1>3. rv \subseteq rm /\ d.id \in rm /\ Before(M, rv, got)
  OBVIOUS
<1>4. Only(m, buf, buf') /\ buf'[m] = b
  BY TakingKept
<1>5. \A p \in 1 .. 13 : p # 11 => K[p] = X[p]
  BY <1>1
<1>6. CopyInv(K, buf')
  <2>1. K[5] = Lists[5] /\ K[6] = Lists[6]
    OBVIOUS
  <2> HIDE DEF K
  <2>2. QED
    BY <1>2, <2>1, TakingKept, CopyElsewhere
<1> HIDE DEF K, rm, M
<1>7. Trace(X, buf, sent, enc.built, rm, got)
  BY <1>1, <1>2, SameTrace
<1>8. CASE encap_ring' = encap_ring
  <2>1. K[11] = X[11]
    BY <1>1, <1>8, ListFacts DEF ListEqs, K
  <2>2. Shrinks(X, buf, enc.built, rm, K, buf', enc.built, rv, q, m)
    BY <1>1, <1>3, <1>4, <1>5, <2>1, LessFacts DEF Shrinks
  <2>3. Trace(K, buf', sent, enc.built, rv, got)
    BY ONLY <1>1, <1>6, <1>7, <2>2, Shrunk
  <2>4. QED
    BY <2>3 DEF K
<1>9. CASE encap_ring' = Enqueued(m) /\ Holds(b, d)
  <2>1. K[11] = Append(X[11], m)
    <3>1. encap_ring'[0] = Append(encap_ring[0], m)
      BY ONLY <1>9, DOMAIN encap_ring = Port DEF Enqueued, Port
    <3>2. X[11] = encap_ring[0]
      BY <1>1, ListFacts DEF ListEqs
    <3>3. K[11] = encap_ring'[0]
      BY DEF K
    <3>4. QED
      BY ONLY <3>1, <3>2, <3>3
  <2>2. Moves(X, buf, enc.built, rm, K, buf', enc.built, rv, q, m, 11)
    BY <1>1, <1>3, <1>4, <1>5, <2>1, LessFacts DEF Moves
  <2>3. OutOf(buf'[m]) = [id |-> d.id, len |-> d.len, proto |-> d.proto] /\ IdsAt(11, buf'[m]) = M
    <3>1. buf'[m].data[1] = d /\ buf'[m].data_len = d.len /\ buf'[m].proto = d.proto
      BY <1>4, <1>9 DEF Holds
    <3>2. QED
      BY <3>1 DEF OutOf, IdsAt, M
  <2>4. Right(11, buf'[m], got)
    BY <2>3 DEF Right
  <2>5. Stages(X, buf, sent, enc.built, rm)[17] = rm /\ Stages(K, buf', sent, enc.built, rv)[17] = rv
    BY StageFacts
  <2>6. Follows(11, 17) /\ 17 \in Stage /\ 11 # 8
    BY AllFollow DEF Stage
  <2>7. /\ IdsAt(11, buf'[m]) \subseteq Stages(X, buf, sent, enc.built, rm)[17]
        /\ Before(IdsAt(11, buf'[m]), Stages(K, buf', sent, enc.built, rv)[17], got)
    BY <1>3, <2>3, <2>5 DEF M
  <2>8. Trace(K, buf', sent, enc.built, rv, got)
    BY ONLY <1>1, <1>6, <1>7, <2>2, <2>4, <2>6, <2>7, Moved
  <2>9. QED
    BY <2>8 DEF K
<1>10. QED
  BY <1>8, <1>9 DEF OneTaken

\* A GSE packet is taken out of the frame, and its PDU may be lost or wait for other
\* fragments; or the frame is at its end.
LEMMA DecapGseTraced ==
  ASSUME Placed, Filled, HeldRight, Traced, decapsulate_gse
  PROVE  Traced'
<1> DEFINE L == Lists
           K == Lists'
           f == decap.frame
           j == decap.next
           pdus == buf[f].data.pdus
           rm == Remainder(f, j, buf)
           rv == Remainder(f, j + 1, buf)
<1>1. /\ f # None /\ j \in Nat /\ j >= 1 /\ DOMAIN encap_ring = Port
      /\ UNCHANGED <<rcv_ring, snd_bb_ring, recv, enc, snd, got, sent>>
  BY DEF decapsulate_gse, Filled, Placed, Shape
<1>2. /\ OnePlace(L) /\ CopyInv(L, buf) /\ Trace(L, buf, sent, enc.built, rm, got)
      /\ Stamped(got) /\ PlaceInv(3, L[3], buf, got)
  BY TracedMeans
<1>3. L[3] = Hand(f) /\ L[3] # <<>> /\ f = Head(L[3]) /\ L[3] \in Seq(AllMbufs) /\ 3 \in Place
  <2>1. 3 \in Place
    BY DEF Place
  <2>2. QED
    <3>1. L[3] = Hand(f)
      BY ListFacts DEF ListEqs
    <3>2. L[3] # <<>> /\ f = Head(L[3])
      BY <1>1, <3>1, HandFacts
    <3>3. L[3] \in Seq(AllMbufs)
      BY <1>2, <2>1 DEF OnePlace
    <3>4. QED
      BY <2>1, <3>1, <3>2, <3>3
<1>4. Right(3, buf[f], got)
  BY <1>2, <1>3, PlaceTail
<1>5. PICK n \in 1 .. Len(got) : buf[f].data = got[n] /\ got[n].type = "frame"
  BY <1>4 DEF Right, Fresh
<1>6. Len(pdus) \in Nat /\ \A k \in 1 .. Len(pdus) : pdus[k].id = <<n, k>>
  BY <1>2, <1>5, PacketFacts
<1>7. /\ rm = {pdus[k].id : k \in {i \in 1 .. Len(pdus) : i >= j}}
      /\ rv = {pdus[k].id : k \in {i \in 1 .. Len(pdus) : i >= j + 1}}
  BY <1>1 DEF Remainder
<1>8. rv \subseteq rm
  <2>1. \A i \in 1 .. Len(pdus) : i >= j + 1 => i >= j
    BY <1>1, <1>6
  <2> HIDE DEF rv, rm, pdus
  <2>2. QED
    BY ONLY <1>7, <2>1
<1>9. CASE decap'.frame = f /\ decap'.next = j + 1 /\ NoneTaken
  <2>1. \A p \in 1 .. 13 : K[p] = L[p]
    <3>1. K[3] = L[3] /\ K[11] = L[11] /\ encap_ring'[1] = encap_ring[1]
      BY <1>9, ListFacts, ListFactsNext DEF ListEqs, NoneTaken
    <3>2. \A p \in 1 .. 13 : p \notin {3, 11} => K[p] = L[p]
      BY <1>1, <3>1, OutsideDecap
    <3> HIDE DEF K, L
    <3>3. QED
      BY ONLY <3>1, <3>2
  <2>2. Traced' <=> Trace(K, buf, sent, enc.built, rv, got)
    BY <1>1, <1>9 DEF Traced, NoneTaken
  <2> HIDE DEF L, K, rm, rv
  <2>3. Trace(L, buf, sent, enc.built, rv, got)
    BY <1>2, <1>8, Fewer
  <2>4. QED
    BY <2>1, <2>2, <2>3, SameTrace
<1>10. ASSUME decap'.frame = f, decap'.next = j + 1, j <= Len(pdus), NEW X, NEW q, NEW m, NEW b,
              OneTaken(X, q, m, b, pdus[j])
       PROVE  Traced'
  <2> DEFINE d == pdus[j]
             M == {d.id}
  <2>1. j \in 1 .. Len(pdus)
    BY <1>1, <1>6, <1>10
  <2>2. d.id = <<n, j>> /\ [id |-> d.id, len |-> d.len, proto |-> d.proto] \in Genuine(got)
    BY <1>2, <1>5, <2>1, FramePdu
  <2>3. d.id \in rm
    <3>1. j \in {i \in 1 .. Len(pdus) : i >= j}
      BY <1>1, <2>1
    <3> HIDE DEF pdus
    <3>2. QED
      BY ONLY <1>7, <3>1
  <2>4. Before(M, rv, got)
    <3>1. ASSUME NEW y \in rv PROVE n = y[1] /\ j < y[2]
      <4>1. PICK k \in 1 .. Len(pdus) : k >= j + 1 /\ y = pdus[k].id
        BY <1>7, <3>1
      <4>2. y = <<n, k>>
        BY ONLY <1>6, <4>1
      <4>3. QED
        BY <1>1, <1>6, <4>1, <4>2
    <3> HIDE DEF d
    <3>2. d.id[1] = n /\ d.id[2] = j
      BY ONLY <2>2
    <3> HIDE DEF rv
    <3>3. QED
      BY <3>1, <3>2 DEF Before
  <2>5. K[11] = encap_ring'[0] /\ encap_ring'[1] = encap_ring[1]
    <3>1. K[11] = encap_ring'[0]
      BY ListFactsNext DEF ListEqs
    <3>2. encap_ring' = encap_ring \/ encap_ring' = Enqueued(m)
      BY <1>10 DEF OneTaken
    <3>3. encap_ring'[1] = encap_ring[1]
      BY ONLY <1>1, <3>2 DEF Enqueued, Port
    <3>4. QED
      BY <3>1, <3>3
  <2>6. \A p \in 1 .. 13 : p # 11 => K[p] = L[p]
    <3>1. K[3] = L[3]
      BY <1>10, ListFacts, ListFactsNext DEF ListEqs
    <3>2. \A p \in 1 .. 13 : p \notin {3, 11} => K[p] = L[p]
      BY <1>1, <2>5, OutsideDecap
    <3> HIDE DEF K, L
    <3>3. QED
      BY ONLY <3>1, <3>2
  <2>7. Remainder(f, j + 1, buf') = rv
    <3>1. buf'[f] = buf[f]
      BY <1>1, <1>10, TakingKept
    <3> HIDE DEF f
    <3>2. QED
      BY ONLY <3>1 DEF Remainder, rv
  <2>8. Traced' <=> Trace(K, buf', sent, enc.built, rv, got)
    BY <1>1, <1>10, <2>7 DEF Traced
  <2> HIDE DEF rv, d
  <2>9. OneTaken(X, q, m, b, d)
    BY <1>10 DEF d
  <2>10. Trace(K, buf', sent, enc.built, rv, got)
    BY <1>1, <1>8, <2>2, <2>3, <2>4, <2>5, <2>6, <2>9, TakenOutTraced
  <2>11. QED
    BY <2>8, <2>10
<1>11. CASE decap'.frame = None /\ UNCHANGED <<buf, encap_ring>>
  <2>1. K[3] = <<>> /\ \A p \in 1 .. 13 : p # 3 => K[p] = L[p]
    <3>1. K[3] = <<>> /\ K[11] = L[11]
      BY <1>11, ListFacts, ListFactsNext, HandFacts DEF ListEqs
    <3>2. \A p \in 1 .. 13 : p \notin {3, 11} => K[p] = L[p]
      BY <1>1, <1>11, OutsideDecap
    <3> HIDE DEF K, L
    <3>3. QED
      BY ONLY <3>1, <3>2
  <2>2. Traced' <=> Trace(K, buf, sent, enc.built, {}, got)
    BY <1>1, <1>11 DEF Traced, Remainder
  <2>3. Only(f, buf, buf)
    BY DEF Only
  <2> HIDE DEF L, K, rm
  <2>4. CopyInv(K, buf)
    BY <1>2, <2>1 DEF CopyInv
  <2>5. Shrinks(L, buf, enc.built, rm, K, buf, enc.built, {}, 3, f)
    BY <1>3, <2>1, <2>3, LessFacts DEF Shrinks
  <2>6. Trace(K, buf, sent, enc.built, {}, got)
    BY ONLY <1>2, <2>4, <2>5, Shrunk
  <2>7. QED
    BY <2>2, <2>6
<1>12. QED
  BY <1>9, <1>10, <1>11, GseCases DEF TakenBy

\* A frame of ring c is opened: its PDUs are then those that remain to be taken out.
LEMMA Opened ==
  ASSUME NEW L, NEW bf, NEW sn, NEW bu, NEW gt, Trace(L, bf, sn, bu, {}, gt), OnePlace(L),
         NEW c \in {9, 10}, L[c] # <<>>, NEW m, m = Head(L[c]), bf[m].data.type = "frame",
         NEW K, L[3] = <<>>, K[3] = Append(L[3], m), K[c] = Tail(L[c]),
         \A p \in 1 .. 13 : p # 3 /\ p # c => K[p] = L[p]
  PROVE  Trace(K, bf, sn, bu, IdsAt(c, bf[m]), gt)
<1> DEFINE M == IdsAt(c, bf[m])
           T == Stages(L, bf, sn, bu, {})
           V == Stages(K, bf, sn, bu, {})
           U == Stages(K, bf, sn, bu, M)
<1>1. /\ Stamped(gt) /\ \A p \in 1 .. 13 : PlaceInv(p, L[p], bf, gt)
      /\ SentInv(sn, bu, gt) /\ CopyInv(L, bf) /\ Chained(T, gt)
  BY DEF Trace
<1>2. c \in 1 .. 13 /\ c \in Place /\ c \in Stage /\ c # 3
  BY DEF Place, Stage
<1>3. L[c] \in Seq(AllMbufs)
  BY <1>2 DEF OnePlace
<1>4. /\ Right(c, bf[m], gt) /\ M \subseteq IdsIn(c, L[c], bf)
      /\ Before(M, IdsIn(c, K[c], bf), gt)
  BY <1>1, <1>2, <1>3, PlaceTail
<1>5. Right(3, bf[m], gt) /\ IdsAt(3, bf[m]) = {}
  <2>1. ASSUME NEW b, Right(c, b, gt), b.data.type = "frame"
        PROVE  Right(3, b, gt) /\ IdsAt(3, b) = {}
    <3>1. c = 9 \/ c = 10
      OBVIOUS
    <3>2. QED
      BY ONLY <2>1, <3>1 DEF Right, IdsAt
  <2>2. QED
    BY <1>4, <2>1
<1>6. CopyInv(K, bf)
  <2>1. K[5] = L[5] /\ K[6] = L[6]
    OBVIOUS
  <2>2. QED
    BY <1>1, <2>1 DEF CopyInv
<1>7. /\ M \subseteq Known(gt)
      /\ c = 9 => \A x \in M : gt[x[1]].port = 0
      /\ c = 10 => \A x \in M : gt[x[1]].port = 1
  BY <1>1, <1>2, <1>4, RightIds
<1>8. Moves(L, bf, bu, {}, K, bf, bu, {}, c, m, 3)
  <2>1. Only(m, bf, bf)
    BY DEF Only
  <2>2. QED
    BY <1>2, <2>1, LessFacts DEF Moves
<1>9. Before(IdsIn(3, L[3], bf), IdsAt(3, bf[m]), gt)
  BY <1>5, BeforeUnion
<1>10. Trace(L, bf, sn, bu, {}, gt) /\ OnePlace(L)
  OBVIOUS
<1> HIDE DEF T, U, V, M
<1>11. /\ \A p \in 1 .. 13 : PlaceInv(p, K[p], bf, gt)
       /\ \A b \in Stage : b # 3 => V[b] \subseteq T[b]
       /\ V[3] \subseteq T[3] \cup IdsAt(3, bf[m])
  BY ONLY <1>5, <1>8, <1>9, <1>10, MovesFacts DEF T, V
<1>12. /\ \A b \in 1 .. 13 : V[b] = IdsIn(b, K[b], bf)
       /\ V[14] = SeqIds(sn[0]) /\ V[15] = SeqIds(sn[1]) /\ V[16] = SeqIds(bu)
  BY StageFacts DEF V
<1>13. /\ \A b \in 1 .. 13 : U[b] = IdsIn(b, K[b], bf)
       /\ U[14] = SeqIds(sn[0]) /\ U[15] = SeqIds(sn[1]) /\ U[16] = SeqIds(bu) /\ U[17] = M
  BY StageFacts DEF U
<1>14. \A b \in 1 .. 13 : T[b] = IdsIn(b, L[b], bf)
  BY StageFacts, SMTT(30) DEF T
<1>15. /\ 17 \in Stage /\ \A b \in Stage : b \in 1 .. 13 \/ b \in {14, 15, 16, 17}
  BY DEF Stage
<1>16. \A b \in Stage : b # 17 => U[b] \subseteq T[b]
  BY <1>5, <1>11, <1>12, <1>13, <1>15, SMTT(30)
<1>17. ASSUME NEW b \in Stage, Ahead(b, 17) PROVE Before(T[b], M, gt)
  <2>1. Ahead(b, c)
    BY <1>17 DEF Ahead, ToPort0, ToPort1
  <2>2. Before(T[b], T[c], gt)
    BY <1>1, <1>2, <2>1 DEF Chained
  <2>3. M \subseteq T[c]
    BY <1>2, <1>4, <1>14
  <2>4. QED
    BY <2>2, <2>3, BeforeLess
<1>18. ASSUME NEW b \in Stage, Ahead(17, b) PROVE Before(M, U[b], gt)
  <2>1. b \in {1, 2, 9, 10}
    BY <1>18 DEF Ahead, ToPort0, ToPort1
  <2>2. CASE b = c
    BY <1>2, <1>4, <1>13, <2>2
  <2>3. CASE b = c - 8
    <3>1. Ahead(c, b)
      BY <2>3 DEF Ahead, ToPort0, ToPort1
    <3>2. Before(T[c], T[b], gt)
      BY <1>1, <1>2, <3>1 DEF Chained
    <3>3. M \subseteq T[c] /\ U[b] \subseteq T[b]
      BY <1>2, <1>4, <1>14, <1>16, <2>1
    <3>4. QED
      BY <3>2, <3>3, BeforeLess
  <2>4. CASE b # c /\ b # c - 8
    <3>1. b \in 1 .. 13 /\ U[b] = IdsIn(b, K[b], bf) /\ PlaceInv(b, K[b], bf, gt)
      BY <1>11, <1>13, <2>1
    <3>2. /\ b \in {1, 9} => \A x \in U[b] : gt[x[1]].port = 0
          /\ b \in {2, 10} => \A x \in U[b] : gt[x[1]].port = 1
      BY <1>1, <3>1, PlaceIds
    <3>3. (c = 9 /\ b \in {2, 10}) \/ (c = 10 /\ b \in {1, 9})
      BY <2>1, <2>4
    <3>4. QED
      BY <1>7, <3>2, <3>3 DEF Before
  <2>5. QED
    BY <2>2, <2>3, <2>4
<1>19. U[17] \subseteq T[17] \cup M
  BY <1>13
<1>20. Chained(U, gt)
  BY ONLY <1>1, <1>15, <1>16, <1>17, <1>18, <1>19, Flow
<1>21. QED
  BY <1>1, <1>6, <1>7, <1>11, <1>20 DEF Trace, U, M

\* A received packet is opened, passed on or given back.
LEMMA DecapPollTraced ==
  ASSUME Placed, Filled, Traced, DecapPoll
  PROVE  Traced'
<1> DEFINE L == Lists
           K == Lists'
           i == decap.turn
           c == 9 + i
           m == Head(rcv_ring[i])
           type == buf[m].data.type
<1>1. /\ decap.frame = None /\ i \in {0, 1}
      /\ UNCHANGED <<snd_bb_ring, recv, enc, snd, got, sent>>
  BY DEF DecapPoll, Placed, Shape, Port
<1>2. /\ OnePlace(L) /\ CopyInv(L, buf) /\ Stamped(got) /\ Trace(L, buf, sent, enc.built, {}, got)
      /\ \A p \in 1 .. 13 : PlaceInv(p, L[p], buf, got)
  BY <1>1, TracedMeans DEF Remainder
<1>3. L[c] = rcv_ring[i] /\ L[3] = <<>> /\ c \in {9, 10} /\ c \in 1 .. 13 /\ c \in Place
  <2>1. L[9] = rcv_ring[0] /\ L[10] = rcv_ring[1] /\ L[3] = <<>>
    BY <1>1, ListFacts, HandFacts DEF ListEqs
  <2>2. QED
    BY <1>1, <2>1 DEF Place
<1>4. /\ \A t : [decap EXCEPT !.turn = t].frame = decap.frame
      /\ \A t : [decap EXCEPT !.frame = t, !.next = 1].frame = t
      /\ \A t : [decap EXCEPT !.frame = t, !.next = 1].next = 1
  BY DEF Placed, Shape
<1>5. ASSUME decap'.frame = None PROVE Traced' <=> Trace(K, buf', sent, enc.built, {}, got)
  BY <1>1, <1>5 DEF Traced, Remainder
<1>6. CASE decap' = [decap EXCEPT !.turn = 1 - i] /\ UNCHANGED <<free, buf, rcv_ring, encap_ring>>
  <2>1. decap'.frame = None
    BY <1>1, <1>4, <1>6
  <2>2. K = L
    BY <1>1, <1>6, <2>1, SMTT(30) DEF Lists
  <2>3. QED
    BY <1>2, <1>5, <1>6, <2>1, <2>2
<1>7. ASSUME rcv_ring[i] # <<>>, rcv_ring' = [rcv_ring EXCEPT ![i] = Tail(@)],
             process_frame_header(m, i)
      PROVE  Traced'
  <2>1. L[c] # <<>> /\ m = Head(L[c]) /\ L[c] \in Seq(AllMbufs) /\ m \in AllMbufs /\ m # None
    <3>1. L[c] # <<>> /\ m = Head(L[c])
      BY <1>3, <1>7
    <3>2. L[c] \in Seq(AllMbufs)
      BY <1>2, <1>3 DEF OnePlace
    <3> HIDE DEF L, c, m
    <3>3. m \in AllMbufs
      BY <3>1, <3>2
    <3>4. QED
      BY <3>1, <3>2, <3>3, PoolFacts
  <2>2. /\ rcv_ring'[i] = Tail(rcv_ring[i]) /\ \A k \in Port : k # i => rcv_ring'[k] = rcv_ring[k]
    BY <1>1, <1>7 DEF Placed, Shape, Port
  <2>3. K[c] = Tail(L[c]) /\ \A p \in {9, 10} : p # c => K[p] = L[p]
    BY <1>1, <1>3, <2>2, ListFacts, ListFactsNext DEF ListEqs, Port
  <2>4. \A p \in {1, 2, 4, 5, 6, 7, 8, 13} : K[p] = L[p]
    BY <1>1, ListFacts, ListFactsNext DEF ListEqs
  <2>5. K[3] = Hand(decap'.frame) /\ K[11] = encap_ring'[0] /\ K[12] = encap_ring'[1]
        /\ L[11] = encap_ring[0] /\ L[12] = encap_ring[1]
    BY ListFacts, ListFactsNext DEF ListEqs
  <2>6. Right(c, buf[m], got) /\ IdsAt(c, buf[m]) = SeqIds(buf[m].data.pdus)
    <3>1. PlaceInv(c, L[c], buf, got)
      BY <1>2, <1>3
    <3>2. Right(c, buf[m], got)
      BY <2>1, <3>1, PlaceTail
    <3>3. QED
      BY <1>3, <3>2, Zenon DEF IdsAt
  <2>7. DOMAIN buf = AllMbufs /\ Sound(buf[m])
    BY <2>1 DEF Filled
  <2>8. ASSUME NEW b, buf' = [buf EXCEPT ![m] = b] PROVE buf'[m] = b /\ Only(m, buf, buf')
    BY <2>1, <2>7, <2>8 DEF Only
  <2>9. ASSUME Only(m, buf, buf') PROVE CopyInv(K, buf')
    <3>1. K[6] = L[6] /\ K[5] = L[5] /\ c \notin {5, 6}
      BY <1>3, <2>4
    <3>2. QED
      BY <1>2, <1>3, <2>1, <2>9, <3>1, CopyKept
  <2>10. CASE type = "frame" /\ decap' = [decap EXCEPT !.frame = m, !.next = 1]
              /\ UNCHANGED <<free, buf, encap_ring>>
    <3>1. decap'.frame = m /\ decap'.held = decap.held /\ decap'.next = 1
      BY <1>4, <2>10
    <3>2. K[3] = Append(L[3], m)
      BY <1>3, <2>1, <2>5, <3>1, HandFacts
    <3>3. \A p \in 1 .. 13 : p # 3 /\ p # c => K[p] = L[p]
      BY <2>3, <2>4, <2>5, <2>10, SMTT(30)
    <3>4. Remainder(decap'.frame, decap'.next, buf') = IdsAt(c, buf[m])
      <4> DEFINE s == buf[m].data.pdus
      <4>1. Remainder(decap'.frame, decap'.next, buf')
              = {s[k].id : k \in {j \in 1 .. Len(s) : j >= 1}}
        BY <2>1, <2>10, <3>1 DEF Remainder
      <4>2. {j \in 1 .. Len(s) : j >= 1} = 1 .. Len(s)
        OBVIOUS
      <4>3. QED
        BY <2>6, <4>1, <4>2 DEF SeqIds
    <3>5. Traced' <=> Trace(K, buf, sent, enc.built, IdsAt(c, buf[m]), got)
      BY <1>1, <2>10, <3>4 DEF Traced
    <3>6. buf[m].data.type = "frame"
      BY <2>10
    <3> HIDE DEF L, K, c, m
    <3>7. Trace(K, buf, sent, enc.built, IdsAt(c, buf[m]), got)
      BY ONLY <1>2, <1>3, <2>1, <2>3, <3>2, <3>3, <3>6, Opened
    <3>8. QED
      BY <3>5, <3>7
  <2>11. CASE /\ type \in {"IPv4", "ARP"}
              /\ buf' = [buf EXCEPT ![m] = [Adjusted(@, ETHER_HDR) EXCEPT !.proto = type]]
              /\ encap_ring' = [encap_ring EXCEPT ![i] = Append(@, m)]
              /\ decap' = [decap EXCEPT !.turn = 1 - i]
    <3> DEFINE b == [Adjusted(buf[m], ETHER_HDR) EXCEPT !.proto = type]
    <3>1. c = 10 /\ i = 1
      <4>1. c # 9
        BY <2>6, <2>11 DEF Right, Is9101
      <4>2. QED
        BY <1>1, <1>3, <4>1
    <3>2. encap_ring'[1] = Append(encap_ring[1], m) /\ encap_ring'[0] = encap_ring[0]
      BY <2>11, <3>1 DEF Placed, Shape, Port
    <3>3. buf' = [buf EXCEPT ![m] = b]
      BY <2>11
    <3> HIDE DEF b
    <3>4. buf'[m] = b /\ Only(m, buf, buf') /\ CopyInv(K, buf')
      BY <2>8, <2>9, <3>3
    <3>5. decap'.frame = None
      BY <1>1, <1>4, <2>11
    <3>6. K[12] = Append(L[12], m) /\ \A p \in 1 .. 13 : p # 12 /\ p # 10 => K[p] = L[p]
      BY <1>3, <2>3, <2>4, <2>5, <3>1, <3>2, <3>5, HandFacts
    <3>7. PICK n \in 1 .. Len(got) : buf[m].data = got[n] /\ buf[m].data_len = got[n].len
      BY <1>3, <2>6 DEF Right, Fresh
    <3>8. got[n].port = 1 /\ got[n].type = type /\ got[n].type \in {"IPv4", "ARP"}
      BY <2>6, <2>11, <3>1, <3>7 DEF Right
    <3>9. /\ got[n].len >= ETHER_HDR /\ got[n].len \in Nat /\ Len(got[n].pdus) = 1
          /\ got[n].pdus[1].id = <<n, 1>>
          /\ [id |-> <<n, 1>>, len |-> got[n].len - ETHER_HDR, proto |-> got[n].type] \in Genuine1(got)
      BY <1>2, <3>8, PacketPdu
    <3>10. b.data = got[n] /\ b.data_len = got[n].len - ETHER_HDR /\ b.proto = got[n].type
      <4> DEFINE z == buf[m]
                 a == Adjusted(z, ETHER_HDR)
      <4>1. Sound(z) /\ z.data = got[n] /\ z.data_len >= ETHER_HDR /\ z.data_len = got[n].len
        BY <2>7, <3>7, <3>9
      <4>2. b = [a EXCEPT !.proto = type]
        BY DEF b
      <4> HIDE DEF z
      <4>3. /\ DOMAIN a = BufFields /\ a.data = got[n] /\ a.data_len = got[n].len - ETHER_HDR
        BY <4>1 DEF Adjusted, Sound, BufFields, ETHER_HDR
      <4> HIDE DEF a
      <4>4. QED
        BY <3>8, <4>2, <4>3 DEF BufFields
    <3>11. InOf(b) \in Genuine1(got) /\ IdsAt(12, b) = {<<n, 1>>}
      BY <3>9, <3>10, SMTT(30) DEF InOf, IdsAt
    <3>12. Right(12, b, got)
      BY <3>11 DEF Right
    <3>13. <<n, 1>> \in IdsAt(10, buf[m])
      <4>1. 1 \in 1 .. Len(buf[m].data.pdus) /\ buf[m].data.pdus[1].id = <<n, 1>>
        BY <3>7, <3>9
      <4>2. QED
        BY <2>6, <3>1, <4>1 DEF SeqIds
    <3>14. Follows(12, 10)
      BY AllFollow
    <3>15. L[10] # <<>> /\ m = Head(L[10]) /\ K[10] = Tail(L[10])
      BY <2>1, <2>3, <3>1
    <3> HIDE DEF L, K, m
    <3>16. Passes(L, buf, K, buf', 12, 10, m, got)
      BY <3>4, <3>6, <3>11, <3>12, <3>13, <3>14, <3>15, SMTT(30) DEF Passes
    <3>17. Trace(K, buf', sent, enc.built, {}, got)
      BY ONLY <1>2, <3>4, <3>16, PassedOn
    <3>18. QED
      BY <1>5, <3>5, <3>17
  <2>12. ASSUME Only(m, buf, buf'), encap_ring' = encap_ring, decap' = [decap EXCEPT !.turn = 1 - i]
         PROVE  Traced'
    <3>1. decap'.frame = None
      BY <1>1, <1>4, <2>12
    <3>2. \A p \in 1 .. 13 : p # c => K[p] = L[p]
      BY <1>3, <2>3, <2>4, <2>5, <2>12, <3>1, HandFacts
    <3>3. CopyInv(K, buf')
      BY <2>9, <2>12
    <3> HIDE DEF L, K, c, m
    <3>4. K[c] # L[c]
      <4>1. Len(Tail(L[c])) # Len(L[c])
        BY <2>1
      <4>2. QED
        BY <2>3, <4>1
    <3>5. Shrinks(L, buf, enc.built, {}, K, buf', enc.built, {}, c, m)
      BY <1>3, <2>1, <2>3, <2>12, <3>2, <3>4, LessFacts DEF Shrinks
    <3>6. Trace(K, buf', sent, enc.built, {}, got)
      BY ONLY <1>2, <3>3, <3>5, Shrunk
    <3>7. QED
      BY <1>5, <3>1, <3>6
  <2>13. CASE buf' = [buf EXCEPT ![m] = Adjusted(@, L2L1_MSG_HEADER)]
              /\ encap_ring' = encap_ring /\ decap' = [decap EXCEPT !.turn = 1 - i]
    BY <2>8, <2>12, <2>13
  <2>14. CASE UNCHANGED <<buf, encap_ring>> /\ decap' = [decap EXCEPT !.turn = 1 - i]
    <3>1. Only(m, buf, buf')
      BY <2>14 DEF Only
    <3>2. QED
      BY <2>12, <2>14, <3>1
  <2>15. QED
    BY <1>7, <2>10, <2>11, <2>13, <2>14 DEF process_frame_header
<1>8. QED
  BY <1>6, <1>7 DEF DecapPoll

-----------------------------------------------------------------------------
(* The result *)

\* Nothing is on its way in the beginning.
LEMMA InitTraced == Init => Traced
<1> SUFFICES ASSUME Init PROVE Traced
  OBVIOUS
<1> DEFINE L == Lists
           e == <<>>
<1>1. /\ got = e /\ sent = [p \in Port |-> e] /\ enc.built = e /\ enc.rest = None /\ enc.pdu = None
      /\ enc.send = None /\ enc.open = e /\ decap.frame = None /\ snd = None /\ snd_bb_ring = e
      /\ recv[0] = None /\ recv[1] = None /\ rcv_ring[0] = e /\ rcv_ring[1] = e
      /\ encap_ring[0] = e /\ encap_ring[1] = e
  BY DEF Init, Port
<1>2. \A p \in 1 .. 13 : L[p] = e
  BY <1>1, ListFacts, HandFacts, SMTT(30) DEF ListEqs
<1>3. Remainder(decap.frame, decap.next, buf) = {}
  BY <1>1 DEF Remainder
<1>4. Stamped(e) /\ \A S : e \in Seq(S)
  BY DEF Stamped
<1>5. Rising(e, e) /\ SeqIds(e) = {}
  BY DEF Rising, SeqIds
<1>6. DOMAIN sent = Port /\ sent[0] = e /\ sent[1] = e
  BY <1>1 DEF Port
<1>7. SentInv(sent, e, e)
  BY <1>4, <1>5, <1>6 DEF SentInv
<1>8. \A p \in 1 .. 13 : PlaceInv(p, L[p], buf, e) /\ IdsIn(p, L[p], buf) = {}
  BY <1>2, PlaceEmpty
<1>9. CopyInv(L, buf)
  BY <1>2 DEF CopyInv
<1> DEFINE T == Stages(L, buf, sent, e, {})
<1>10. /\ \A b \in 1 .. 13 : T[b] = IdsIn(b, L[b], buf)
       /\ T[14] = SeqIds(sent[0]) /\ T[15] = SeqIds(sent[1]) /\ T[16] = SeqIds(e) /\ T[17] = {}
  BY StageFacts
<1>11. \A b \in Stage : b \in 1 .. 13 \/ b \in {14, 15, 16, 17}
  BY DEF Stage
<1> HIDE DEF T, L, e
<1>12. \A b \in Stage : T[b] = {}
  BY <1>5, <1>6, <1>8, <1>10, <1>11
<1>13. Chained(T, e)
  BY <1>12, BeforeUnion DEF Chained
<1>14. Trace(L, buf, sent, e, {}, e)
  BY <1>4, <1>7, <1>8, <1>9, <1>13 DEF Trace, T
<1>15. QED
  BY <1>1, <1>3, <1>14 DEF Traced, L

\* Every step keeps what the mbufs carry.
LEMMA NextTraced == Placed /\ Filled /\ HeldRight /\ Traced /\ [Next]_vars => Traced'
<1> SUFFICES ASSUME Placed, Filled, HeldRight, Traced, [Next]_vars PROVE Traced'
  OBVIOUS
<1>1. CASE threadpool_spawn_thread
  BY <1>1 DEF threadpool_spawn_thread, rings, Traced, Lists
<1>2. CASE \E p \in Port : read_pcap(p) \/ receive_msg_thread(p)
  BY <1>2, PcapTraced, ReceiveTraced
<1>3. CASE decapsulate_thread
  BY <1>3, DecapPollTraced, DecapGseTraced DEF decapsulate_thread
<1>4. CASE encapsulate_thread
  BY <1>4, EncapFragmentTraced, EncapPoll1Traced, WriteTraced, EncapPoll0Traced, CopyTraced
  DEF encapsulate_thread
<1>5. CASE SendPdu
  BY <1>5, SendPduTraced
<1>6. CASE snd_bbframe_thread
  BY <1>6, SndTakeTraced
<1>7. CASE SendFrame
  BY <1>7, SndSendTraced
<1>8. CASE UNCHANGED vars
  BY <1>8 DEF vars, Traced, Lists
<1>9. QED
  BY <1>1, <1>2, <1>3, <1>4, <1>5, <1>6, <1>7, <1>8 DEF Next

\* The property is what the invariant says of the PDUs sent.
LEMMA TracedMeansSent == Placed /\ Traced => SentAsReceived
<1> SUFFICES ASSUME Placed, Traced, NEW p \in Port
             PROVE  /\ \A k \in DOMAIN sent[p] : sent[p][k] = Received(sent[p][k].id)
                    /\ \A j, k \in DOMAIN sent[p] : j < k => Earlier(sent[p][j].id, sent[p][k].id)
                    /\ p = 0 => \A k \in DOMAIN sent[0] : got[sent[0][k].id[1]].port = 1
  BY DEF SentAsReceived
<1> DEFINE s == sent[p]
<1>1. Stamped(got) /\ SentInv(sent, enc.built, got) /\ (p = 0 \/ p = 1)
  BY TracedMeans DEF Port
<1>2. \A x : Received(x) = ReceivedIn(got, x)
  BY DEF Received, ReceivedIn
<1>3. s \in Seq(Genuine(got)) \/ (p = 0 /\ s \in Seq(Genuine1(got)))
  BY <1>1 DEF SentInv
<1>4. Rising(s, got)
  BY <1>1 DEF SentInv
<1>5. p = 0 => s \in Seq(Genuine1(got))
  BY <1>1 DEF SentInv
<1> HIDE DEF s
<1>6. DOMAIN s = 1 .. Len(s) /\ \A k \in 1 .. Len(s) : s[k] \in Genuine(got)
  <2>1. CASE s \in Seq(Genuine(got))
    BY <2>1
  <2>2. CASE s \in Seq(Genuine1(got))
    <3>1. DOMAIN s = 1 .. Len(s) /\ \A k \in 1 .. Len(s) : s[k] \in Genuine1(got)
      BY <2>2
    <3>2. QED
      BY <1>1, <3>1, GenuineFacts
  <2>3. QED
    BY <1>3, <2>1, <2>2
<1>7. \A k \in DOMAIN s : s[k] = Received(s[k].id)
  BY <1>1, <1>2, <1>6, GenuineFacts
<1>8. \A j, k \in DOMAIN s : j < k => Earlier(s[j].id, s[k].id)
  BY <1>4, <1>6 DEF Rising, Before, Earlier
<1>9. p = 0 => \A k \in DOMAIN s : got[s[k].id[1]].port = 1
  <2>1. p = 0 => \A k \in 1 .. Len(s) : s[k] \in Genuine1(got)
    BY <1>5
  <2>2. QED
    BY <1>1, <1>6, <2>1, GenuineFacts
<1>10. QED
  BY <1>7, <1>8, <1>9 DEF s

\* What goes out of a port is what came in: each PDU, whole or put together of fragments,
\* with the length and the protocol type it was received with, in the order of its port
\* and at most once, with mbufs that are reused without being cleared.  For pools of every
\* size, frames with any GSE packets, refused ones among them, and any interleaving of the
\* threads; of a packet of port 1 it is assumed that it has its Ethernet header.
THEOREM SentIsReceived == Spec => []SentAsReceived
BY InitPlaced, NextPlaced, InitFilled, NextFilled, InitTraced, NextTraced, TracedMeansSent, PTL
DEF Spec
=============================================================================
