---------------------------- MODULE LinkListProofs ----------------------------
(* The doubly linked lists for any number of lists and nodes: the pointers are *)
(* sound both ways, and the lists behave as sequences of nodes.                *)
(*                                                                             *)
(* c is a function from lists to sequences of nodes.  The invariant is that    *)
(* some c is what the pointers represent; it is then what the walks of the     *)
(* module LinkList find.                                                       *)
EXTENDS LinkList, FiniteSetTheorems, FunctionTheorems, WellFoundedInduction, TLAPS

-----------------------------------------------------------------------------
(* What the pointers represent *)

Cell == Node \cup List
Pointer == Cell \cup {NULL}

\* The i-th node of list l, its head node for 0.
At(c, l, i) == IF i = 0 THEN l ELSE c[l][i]

Places(c, l) == 1 .. Len(c[l])

\* Following nx from the head node of a list one meets its nodes and then NULL, and pr
\* leads back from each of them.
Linked(c, nx, pr) ==
  \A l \in List :
    /\ \A i \in Places(c, l) :
         nx[At(c, l, i - 1)] = At(c, l, i) /\ pr[At(c, l, i)] = At(c, l, i - 1)
    /\ nx[At(c, l, Len(c[l]))] = NULL

\* No node is in two places.
Apart(c) ==
  \A k, l \in List : \A i \in Places(c, k), j \in Places(c, l) :
    c[k][i] = c[l][j] => k = l /\ i = j

Listed(c, n) == \E l \in List : \E i \in Places(c, l) : c[l][i] = n

EndsAt(c, tl) ==
  \A l \in List :
    IF Len(c[l]) = 0 THEN tl[l] \in {NULL, l} ELSE tl[l] = c[l][Len(c[l])]

Counted(c, sz) == \A l \in List : sz[l] = Len(c[l])

Allocated(c, al) == \A n \in Node : al[n] = "list" <=> Listed(c, n)

PointerTypes(nx, pr, tl, sz, al) ==
  /\ nx \in [Cell -> Pointer] /\ pr \in [Cell -> Pointer]
  /\ tl \in [List -> Pointer] /\ sz \in [List -> Nat]
  /\ al \in [Node -> {"free", "list", "held"}]

Contents == [List -> Seq(Node)]

Rep(c, nx, pr, tl, sz, al) ==
  /\ PointerTypes(nx, pr, tl, sz, al)
  /\ Linked(c, nx, pr) /\ Apart(c) /\ EndsAt(c, tl) /\ Counted(c, sz) /\ Allocated(c, al)

Represents(c) == Rep(c, next, pre, tail, size, alloc)

ListInv == \E c \in Contents : Represents(c)

-----------------------------------------------------------------------------
(* Sequences *)

\* A node more: e becomes the one after the first p.
With(s, p, e) == SubSeq(s, 1, p) \o <<e>> \o SubSeq(s, p + 1, Len(s))

\* One less: without the p-th.
Without(s, p) == SubSeq(s, 1, p - 1) \o SubSeq(s, p + 1, Len(s))

LEMMA SeqParts ==
  ASSUME NEW s \in Seq(Node), NEW a \in Nat, NEW b \in Nat, a >= 1, b <= Len(s), a <= b + 1
  PROVE  LET t == SubSeq(s, a, b) IN
         /\ t \in Seq(Node) /\ Len(t) = b - a + 1
         /\ \A i \in 1 .. b - a + 1 : t[i] = s[a + i - 1]
OBVIOUS

LEMMA Joined ==
  ASSUME NEW s \in Seq(Node), NEW t \in Seq(Node)
  PROVE  /\ s \o t \in Seq(Node) /\ Len(s \o t) = Len(s) + Len(t)
         /\ \A i \in 1 .. Len(s) : (s \o t)[i] = s[i]
         /\ \A i \in 1 .. Len(t) : (s \o t)[Len(s) + i] = t[i]
OBVIOUS

LEMMA WithFacts ==
  ASSUME NEW s \in Seq(Node), NEW p \in 0 .. Len(s), NEW e \in Node
  PROVE  LET r == With(s, p, e) IN
         /\ r \in Seq(Node) /\ Len(r) = Len(s) + 1
         /\ \A i \in 1 .. p : r[i] = s[i]
         /\ r[p + 1] = e
         /\ \A i \in p + 1 .. Len(s) : r[i + 1] = s[i]
<1> DEFINE a == SubSeq(s, 1, p)
           b == SubSeq(s, p + 1, Len(s))
           m == <<e>>
<1>1. p \in Nat /\ Len(s) \in Nat /\ p <= Len(s)
  OBVIOUS
<1>2. a \in Seq(Node) /\ Len(a) = p /\ \A i \in 1 .. p : a[i] = s[i]
  <2>1. Len(a) = p - 1 + 1 /\ a \in Seq(Node) /\ \A i \in 1 .. p - 1 + 1 : a[i] = s[1 + i - 1]
    BY <1>1, SeqParts
  <2>2. p - 1 + 1 = p /\ \A i \in Int : 1 + i - 1 = i
    BY <1>1
  <2> HIDE DEF a
  <2>3. QED
    BY <1>1, <2>1, <2>2
<1>3. /\ b \in Seq(Node) /\ Len(b) = Len(s) - p
      /\ \A i \in 1 .. Len(s) - p : b[i] = s[p + i]
  <2>1. /\ Len(b) = Len(s) - (p + 1) + 1 /\ b \in Seq(Node)
        /\ \A i \in 1 .. Len(s) - (p + 1) + 1 : b[i] = s[(p + 1) + i - 1]
    BY <1>1, SeqParts
  <2>2. Len(s) - (p + 1) + 1 = Len(s) - p /\ \A i \in Int : (p + 1) + i - 1 = p + i
    BY <1>1
  <2> HIDE DEF b
  <2>3. QED
    BY <1>1, <2>1, <2>2
<1>4. m \in Seq(Node) /\ Len(m) = 1 /\ m[1] = e
  OBVIOUS
<1> HIDE DEF a, b, m
<1> DEFINE q == a \o m
<1>5. q \in Seq(Node) /\ Len(q) = p + 1 /\ (\A i \in 1 .. p : q[i] = s[i]) /\ q[p + 1] = e
  <2>1. /\ q \in Seq(Node) /\ Len(q) = Len(a) + Len(m)
        /\ \A i \in 1 .. Len(a) : q[i] = a[i]
        /\ \A i \in 1 .. Len(m) : q[Len(a) + i] = m[i]
    BY <1>2, <1>4, Joined
  <2> HIDE DEF q
  <2>2. QED
    BY <1>1, <1>2, <1>4, <2>1
<1> HIDE DEF q
<1> DEFINE r == q \o b
<1>6. /\ r \in Seq(Node) /\ Len(r) = Len(q) + Len(b)
      /\ \A i \in 1 .. Len(q) : r[i] = q[i]
      /\ \A i \in 1 .. Len(b) : r[Len(q) + i] = b[i]
  BY <1>3, <1>5, Joined
<1> HIDE DEF r
<1>7. \A i \in p + 1 .. Len(s) : r[i + 1] = s[i]
  <2>1. TAKE i \in p + 1 .. Len(s)
  <2>2. i - p \in 1 .. Len(b) /\ Len(q) + (i - p) = i + 1 /\ p + (i - p) = i
    BY <1>1, <1>3, <1>5
  <2>3. r[Len(q) + (i - p)] = b[i - p]
    BY <1>6, <2>2
  <2>4. b[i - p] = s[p + (i - p)]
    BY <1>3, <2>2
  <2>5. QED
    BY <2>2, <2>3, <2>4
<1>8. With(s, p, e) = r
  BY DEF With, r, q, a, b, m
<1>9. \A i \in 1 .. p + 1 : r[i] = q[i]
  BY <1>5, <1>6
<1>10. (\A i \in 1 .. p : r[i] = s[i]) /\ r[p + 1] = e
  BY <1>1, <1>5, <1>9
<1>11. Len(r) = Len(s) + 1
  BY <1>1, <1>3, <1>5, <1>6
<1>12. QED
  BY <1>6, <1>7, <1>8, <1>10, <1>11

LEMMA WithoutFacts ==
  ASSUME NEW s \in Seq(Node), NEW p \in 1 .. Len(s)
  PROVE  LET r == Without(s, p) IN
         /\ r \in Seq(Node) /\ Len(r) = Len(s) - 1
         /\ \A i \in 1 .. p - 1 : r[i] = s[i]
         /\ \A i \in p .. Len(s) - 1 : r[i] = s[i + 1]
<1> DEFINE a == SubSeq(s, 1, p - 1)
           b == SubSeq(s, p + 1, Len(s))
<1>1. p \in Nat /\ Len(s) \in Nat /\ p <= Len(s) /\ p >= 1 /\ p - 1 \in Nat
  OBVIOUS
<1>2. a \in Seq(Node) /\ Len(a) = p - 1 /\ \A i \in 1 .. p - 1 : a[i] = s[i]
  <2>1. /\ Len(a) = (p - 1) - 1 + 1 /\ a \in Seq(Node)
        /\ \A i \in 1 .. (p - 1) - 1 + 1 : a[i] = s[1 + i - 1]
    BY <1>1, SeqParts
  <2>2. (p - 1) - 1 + 1 = p - 1 /\ \A i \in Int : 1 + i - 1 = i
    BY <1>1
  <2> HIDE DEF a
  <2>3. QED
    BY <1>1, <2>1, <2>2
<1>3. /\ b \in Seq(Node) /\ Len(b) = Len(s) - p
      /\ \A i \in 1 .. Len(s) - p : b[i] = s[p + i]
  <2>1. /\ Len(b) = Len(s) - (p + 1) + 1 /\ b \in Seq(Node)
        /\ \A i \in 1 .. Len(s) - (p + 1) + 1 : b[i] = s[(p + 1) + i - 1]
    BY <1>1, SeqParts
  <2>2. Len(s) - (p + 1) + 1 = Len(s) - p /\ \A i \in Int : (p + 1) + i - 1 = p + i
    BY <1>1
  <2> HIDE DEF b
  <2>3. QED
    BY <1>1, <2>1, <2>2
<1> HIDE DEF a, b
<1> DEFINE r == a \o b
<1>4. /\ r \in Seq(Node) /\ Len(r) = Len(a) + Len(b)
      /\ \A i \in 1 .. Len(a) : r[i] = a[i]
      /\ \A i \in 1 .. Len(b) : r[Len(a) + i] = b[i]
  BY <1>2, <1>3, Joined
<1> HIDE DEF r
<1>5. \A i \in p .. Len(s) - 1 : r[i] = s[i + 1]
  <2>1. TAKE i \in p .. Len(s) - 1
  <2>2. i - (p - 1) \in 1 .. Len(b) /\ Len(a) + (i - (p - 1)) = i /\ p + (i - (p - 1)) = i + 1
    BY <1>1, <1>2, <1>3
  <2>3. r[Len(a) + (i - (p - 1))] = b[i - (p - 1)]
    BY <1>4, <2>2
  <2>4. b[i - (p - 1)] = s[p + (i - (p - 1))]
    BY <1>3, <2>2
  <2>5. QED
    BY <2>2, <2>3, <2>4
<1>6. Without(s, p) = r
  BY DEF Without, r, a, b
<1>7. Len(r) = Len(s) - 1 /\ \A i \in 1 .. p - 1 : r[i] = s[i]
  BY <1>1, <1>2, <1>3, <1>4
<1>8. QED
  BY <1>4, <1>5, <1>6, <1>7
-----------------------------------------------------------------------------
(* Places *)

LEMMA Lengths ==
  ASSUME NEW c \in Contents, NEW l \in List
  PROVE  c[l] \in Seq(Node) /\ Len(c[l]) \in Nat /\ \A i \in Places(c, l) : c[l][i] \in Node
BY DEF Contents, Places

\* The cells of the lists, head nodes included, are different.
LEMMA AtOnce ==
  ASSUME NEW c \in Contents, Apart(c), NEW k \in List, NEW l \in List,
         NEW i \in 0 .. Len(c[k]), NEW j \in 0 .. Len(c[l]), At(c, k, i) = At(c, l, j)
  PROVE  k = l /\ i = j
<1>1. /\ Len(c[k]) \in Nat /\ Len(c[l]) \in Nat
      /\ i # 0 => i \in Places(c, k) /\ c[k][i] \in Node
      /\ j # 0 => j \in Places(c, l) /\ c[l][j] \in Node
  BY Lengths DEF Places
<1>2. QED
  BY <1>1, ListAssumption DEF Apart, At

LEMMA AtIsCell ==
  ASSUME NEW c \in Contents, NEW l \in List, NEW i \in 0 .. Len(c[l])
  PROVE  /\ At(c, l, i) \in Cell /\ At(c, l, i) # NULL
         /\ i # 0 => At(c, l, i) \in Node /\ Listed(c, At(c, l, i)) /\ At(c, l, i) = c[l][i]
<1>1. Len(c[l]) \in Nat /\ (i # 0 => i \in Places(c, l) /\ c[l][i] \in Node)
  BY Lengths DEF Places
<1>2. QED
  BY <1>1, ListAssumption DEF At, Cell, Listed

\* The node after the i-th.
LEMMA NextOf ==
  ASSUME NEW c \in Contents, NEW nx, NEW pr, Linked(c, nx, pr), NEW l \in List,
         NEW i \in 0 .. Len(c[l])
  PROVE  nx[At(c, l, i)] = IF i = Len(c[l]) THEN NULL ELSE At(c, l, i + 1)
<1>1. Len(c[l]) \in Nat
  BY Lengths
<1>2. CASE i = Len(c[l])
  BY <1>2 DEF Linked
<1>3. CASE i # Len(c[l])
  <2>1. i + 1 \in Places(c, l) /\ (i + 1) - 1 = i
    BY <1>1, <1>3 DEF Places
  <2>2. QED
    BY <1>3, <2>1 DEF Linked
<1>4. QED
  BY <1>2, <1>3

-----------------------------------------------------------------------------
(* Putting a node in *)

Put(c, l, p, n) == [c EXCEPT ![l] = With(@, p, n)]

LEMMA PutFacts ==
  ASSUME NEW c \in Contents, Apart(c), NEW l \in List, NEW p \in 0 .. Len(c[l]),
         NEW n \in Node, ~ Listed(c, n)
  PROVE  LET d == Put(c, l, p, n) IN
         /\ d \in Contents /\ Apart(d)
         /\ \A m : Listed(d, m) <=> m = n \/ Listed(c, m)
         /\ \A k \in List \ {l} : d[k] = c[k]
         /\ Len(d[l]) = Len(c[l]) + 1
         /\ \A i \in 0 .. p : At(d, l, i) = At(c, l, i)
         /\ At(d, l, p + 1) = n
         /\ \A i \in p + 2 .. Len(c[l]) + 1 : At(d, l, i) = At(c, l, i - 1)
<1> DEFINE d == Put(c, l, p, n)
<1>1. c[l] \in Seq(Node) /\ Len(c[l]) \in Nat /\ p \in Nat /\ p <= Len(c[l])
  BY Lengths
<1>2. /\ With(c[l], p, n) \in Seq(Node) /\ Len(With(c[l], p, n)) = Len(c[l]) + 1
      /\ \A i \in 1 .. p : With(c[l], p, n)[i] = c[l][i]
      /\ With(c[l], p, n)[p + 1] = n
      /\ \A i \in p + 1 .. Len(c[l]) : With(c[l], p, n)[i + 1] = c[l][i]
  BY <1>1, WithFacts, ZenonT(60)
<1>3. d \in Contents /\ d[l] = With(c[l], p, n) /\ \A k \in List \ {l} : d[k] = c[k]
  BY <1>2 DEF Put, Contents
<1> HIDE DEF d
<1>4. /\ Len(d[l]) = Len(c[l]) + 1
      /\ \A i \in 1 .. p : d[l][i] = c[l][i]
      /\ d[l][p + 1] = n
      /\ \A i \in p + 1 .. Len(c[l]) : d[l][i + 1] = c[l][i]
  BY <1>2, <1>3
<1>5. \A i \in p + 2 .. Len(c[l]) + 1 : d[l][i] = c[l][i - 1]
  <2>1. TAKE i \in p + 2 .. Len(c[l]) + 1
  <2>2. i - 1 \in p + 1 .. Len(c[l]) /\ (i - 1) + 1 = i
    BY <1>1
  <2>3. QED
    BY <1>4, <2>2
\* Every place of d holds n or what a place of c holds, and these places differ.
<1>6. \A k \in List : \A i \in Places(d, k) :
        \/ k = l /\ i = p + 1 /\ d[k][i] = n
        \/ \E x \in Places(c, k) : /\ d[k][i] = c[k][x]
                                   /\ x = IF k = l /\ i > p + 1 THEN i - 1 ELSE i
                                   /\ k = l => i # p + 1
  <2>1. TAKE k \in List
  <2>2. TAKE i \in Places(d, k)
  <2>3. CASE k # l
    BY <1>3, <2>3 DEF Places
  <2>4. CASE k = l
    <3>1. i \in 1 .. Len(c[l]) + 1
      BY <1>4, <2>4 DEF Places
    <3>2. CASE i \in 1 .. p
      BY <1>1, <1>4, <2>4, <3>2 DEF Places
    <3>3. CASE i = p + 1
      BY <1>4, <2>4, <3>3
    <3>4. CASE i \in p + 2 .. Len(c[l]) + 1
      BY <1>1, <1>5, <2>4, <3>4 DEF Places
    <3>5. QED
      BY <1>1, <3>1, <3>2, <3>3, <3>4
  <2>5. QED
    BY <2>3, <2>4
<1>7. \A k \in List : \A x \in Places(c, k) : \E i \in Places(d, k) : d[k][i] = c[k][x]
  <2>1. TAKE k \in List
  <2>2. TAKE x \in Places(c, k)
  <2>3. CASE k # l
    BY <1>3, <2>3 DEF Places
  <2>4. CASE k = l
    <3>1. x \in 1 .. p \/ x \in p + 1 .. Len(c[l])
      BY <1>1, <2>4 DEF Places
    <3>2. CASE x \in 1 .. p
      <4>1. x \in Places(d, k)
        BY <1>1, <1>4, <2>4, <3>2 DEF Places
      <4>2. QED
        BY <1>4, <2>4, <3>2, <4>1
    <3>3. CASE x \in p + 1 .. Len(c[l])
      <4>1. x + 1 \in Places(d, k)
        BY <1>1, <1>4, <2>4, <3>3 DEF Places
      <4>2. QED
        BY <1>4, <2>4, <3>3, <4>1
    <3>4. QED
      BY <3>1, <3>2, <3>3
  <2>5. QED
    BY <2>3, <2>4
<1>8. p + 1 \in Places(d, l)
  BY <1>1, <1>4 DEF Places
<1>9. \A m : Listed(d, m) <=> m = n \/ Listed(c, m)
  <2>1. ASSUME NEW m, Listed(d, m) PROVE m = n \/ Listed(c, m)
    <3>1. PICK k \in List : \E i \in Places(d, k) : d[k][i] = m
      BY <2>1 DEF Listed
    <3>2. PICK i \in Places(d, k) : d[k][i] = m
      BY <3>1
    <3>3. m = n \/ \E x \in Places(c, k) : m = c[k][x]
      BY <1>6, <3>2
    <3>4. QED
      BY <3>3 DEF Listed
  <2>2. ASSUME NEW m, m = n \/ Listed(c, m) PROVE Listed(d, m)
    <3>1. CASE m = n
      BY <1>4, <1>8, <3>1 DEF Listed
    <3>2. CASE Listed(c, m)
      <4>1. PICK k \in List : \E x \in Places(c, k) : c[k][x] = m
        BY <3>2 DEF Listed
      <4>2. \E i \in Places(d, k) : d[k][i] = m
        BY <1>7, <4>1
      <4>3. QED
        BY <4>2 DEF Listed
    <3>3. QED
      BY <2>2, <3>1, <3>2
  <2>3. QED
    BY <2>1, <2>2
<1>10. Apart(d)
  <2>1. ASSUME NEW j \in List, NEW k \in List, NEW x \in Places(d, j), NEW y \in Places(d, k),
               d[j][x] = d[k][y]
        PROVE  j = k /\ x = y
    <3>1. x \in Int /\ y \in Int
      BY DEF Places
    <3>2. CASE j = l /\ x = p + 1
      <4>1. d[k][y] = n
        BY <1>4, <2>1, <3>2
      <4>2. k = l /\ y = p + 1
        BY <1>6, <4>1 DEF Listed
      <4>3. QED
        BY <3>2, <4>2
    <3>3. CASE k = l /\ y = p + 1
      <4>1. d[j][x] = n
        BY <1>4, <2>1, <3>3
      <4>2. j = l /\ x = p + 1
        BY <1>6, <4>1 DEF Listed
      <4>3. QED
        BY <3>3, <4>2
    <3>4. CASE ~ (j = l /\ x = p + 1) /\ ~ (k = l /\ y = p + 1)
      <4>1. PICK a \in Places(c, j) : /\ d[j][x] = c[j][a]
                                      /\ a = IF j = l /\ x > p + 1 THEN x - 1 ELSE x
                                      /\ j = l => x # p + 1
        BY <1>6, <3>4
      <4>2. PICK b \in Places(c, k) : /\ d[k][y] = c[k][b]
                                      /\ b = IF k = l /\ y > p + 1 THEN y - 1 ELSE y
                                      /\ k = l => y # p + 1
        BY <1>6, <3>4
      <4>3. j = k /\ a = b
        <5>1. c[j][a] = c[k][b]
          BY <2>1, <4>1, <4>2
        <5>2. QED
          BY <5>1 DEF Apart
      <4>4. QED
        BY <1>1, <3>1, <4>1, <4>2, <4>3
    <3>5. QED
      BY <3>2, <3>3, <3>4
  <2>2. QED
    BY <2>1 DEF Apart
<1>11. /\ \A i \in 0 .. p : At(d, l, i) = At(c, l, i)
       /\ At(d, l, p + 1) = n
       /\ \A i \in p + 2 .. Len(c[l]) + 1 : At(d, l, i) = At(c, l, i - 1)
  <2>1. \A i \in 0 .. p : i = 0 \/ i \in 1 .. p
    BY <1>1
  <2>2. \A i \in p + 2 .. Len(c[l]) + 1 : i # 0 /\ i - 1 # 0
    BY <1>1
  <2>3. p + 1 # 0
    BY <1>1
  <2>4. QED
    BY <1>4, <1>5, <2>1, <2>2, <2>3 DEF At
<1>12. QED
  BY <1>3, <1>4, <1>9, <1>10, <1>11 DEF d

\* The pointers after n was linked behind cell cur.
LEMMA PutLinks ==
  ASSUME NEW c \in Contents, Apart(c), NEW l \in List, NEW p \in 0 .. Len(c[l]),
         NEW n \in Node, ~ Listed(c, n), NEW nx, NEW pr, Linked(c, nx, pr),
         NEW nx2, NEW pr2, NEW cur, cur = At(c, l, p),
         nx2[cur] = n, nx2[n] = nx[cur], \A x \in Cell \ {n, cur} : nx2[x] = nx[x],
         pr2[n] = cur, nx[cur] # NULL => pr2[nx[cur]] = n,
         \A x \in Cell \ {n, nx[cur]} : pr2[x] = pr[x]
  PROVE  Linked(Put(c, l, p, n), nx2, pr2)
<1> DEFINE d == Put(c, l, p, n)
           N == Len(c[l])
<1>1. N \in Nat /\ p \in Nat /\ p <= N
  BY Lengths
<1>2. /\ \A k \in List \ {l} : d[k] = c[k]
      /\ Len(d[l]) = N + 1
      /\ \A i \in 0 .. p : At(d, l, i) = At(c, l, i)
      /\ At(d, l, p + 1) = n
      /\ \A i \in p + 2 .. N + 1 : At(d, l, i) = At(c, l, i - 1)
  BY PutFacts
<1> HIDE DEF d
<1>3. nx[cur] = IF p = N THEN NULL ELSE At(c, l, p + 1)
  BY NextOf
\* Elsewhere the pointers are as before.
<1>4. ASSUME NEW k \in List, NEW i \in 0 .. Len(c[k]), k # l \/ i # p
      PROVE  nx2[At(c, k, i)] = nx[At(c, k, i)]
  <2>1. At(c, k, i) \in Cell /\ At(c, k, i) # n
    <3>1. i # 0 => Listed(c, At(c, k, i))
      BY AtIsCell
    <3>2. i = 0 => At(c, k, i) \notin Node
      BY ListAssumption DEF At
    <3>3. QED
      BY <3>1, <3>2, AtIsCell
  <2>2. At(c, k, i) # cur
    BY <1>1, <1>4, AtOnce
  <2>3. QED
    BY <2>1, <2>2
<1>5. ASSUME NEW k \in List, NEW i \in Places(c, k), k # l \/ i # p + 1
      PROVE  pr2[At(c, k, i)] = pr[At(c, k, i)]
  <2>0. i \in 0 .. Len(c[k]) /\ i # 0
    BY Lengths DEF Places
  <2>1. At(c, k, i) \in Cell /\ At(c, k, i) # n /\ At(c, k, i) # NULL
    BY <2>0, AtIsCell
  <2>2. At(c, k, i) # nx[cur]
    <3>1. CASE p = N
      BY <1>3, <2>1, <3>1
    <3>2. CASE p # N
      <4>1. p + 1 \in 0 .. Len(c[l]) /\ nx[cur] = At(c, l, p + 1)
        BY <1>1, <1>3, <3>2
      <4>2. QED
        BY <1>5, <2>0, <4>1, AtOnce
    <3>3. QED
      BY <3>1, <3>2
  <2>3. QED
    BY <2>1, <2>2
<1>6. ASSUME NEW k \in List, k # l
      PROVE  /\ \A i \in Places(d, k) :
                  nx2[At(d, k, i - 1)] = At(d, k, i) /\ pr2[At(d, k, i)] = At(d, k, i - 1)
             /\ nx2[At(d, k, Len(d[k]))] = NULL
  <2>1. d[k] = c[k] /\ Places(d, k) = Places(c, k) /\ \A i : At(d, k, i) = At(c, k, i)
    BY <1>2, <1>6 DEF At, Places
  <2>2. Len(c[k]) \in Nat
    BY Lengths
  <2>3. \A i \in Places(c, k) : i - 1 \in 0 .. Len(c[k])
    BY <2>2 DEF Places
  <2>4. Len(c[k]) \in 0 .. Len(c[k])
    BY <2>2
  <2>5. QED
    BY <1>4, <1>5, <1>6, <2>1, <2>3, <2>4 DEF Linked
<1>7. ASSUME NEW i \in 1 .. N + 1
      PROVE  nx2[At(d, l, i - 1)] = At(d, l, i) /\ pr2[At(d, l, i)] = At(d, l, i - 1)
  <2>1. CASE i \in 1 .. p
    <3>1. /\ At(d, l, i - 1) = At(c, l, i - 1) /\ At(d, l, i) = At(c, l, i)
          /\ i \in Places(c, l) /\ i - 1 \in 0 .. N /\ i - 1 # p /\ i # p + 1
      BY <1>1, <1>2, <2>1 DEF Places
    <3>2. nx2[At(c, l, i - 1)] = nx[At(c, l, i - 1)] /\ pr2[At(c, l, i)] = pr[At(c, l, i)]
      BY <1>4, <1>5, <3>1
    <3>3. QED
      BY <3>1, <3>2 DEF Linked
  <2>2. CASE i = p + 1
    <3>1. At(d, l, i) = n /\ At(d, l, i - 1) = cur
      BY <1>1, <1>2, <2>2
    <3>2. QED
      BY <3>1
  <2>3. CASE i = p + 2
    <3>1. p # N /\ i \in p + 2 .. N + 1 /\ i - 1 = p + 1
      BY <1>1, <2>3
    <3>2. At(d, l, i) = At(c, l, p + 1) /\ At(d, l, i - 1) = n
      BY <1>2, <3>1
    <3>3. nx[cur] = At(c, l, p + 1) /\ nx[cur] # NULL
      BY <1>1, <1>3, <3>1, AtIsCell
    <3>4. QED
      BY <3>2, <3>3
  <2>4. CASE i \in p + 3 .. N + 1
    <3>1. i \in p + 2 .. N + 1 /\ i - 1 \in p + 2 .. N + 1 /\ (i - 1) - 1 = i - 2
      BY <1>1, <2>4
    <3>2. At(d, l, i) = At(c, l, i - 1) /\ At(d, l, i - 1) = At(c, l, i - 2)
      BY <1>2, <3>1
    <3>3. /\ i - 1 \in Places(c, l) /\ i - 2 \in 0 .. N /\ i - 2 # p /\ i - 1 # p + 1
          /\ (i - 1) - 1 = i - 2
      BY <1>1, <2>4 DEF Places
    <3>4. /\ nx2[At(c, l, i - 2)] = nx[At(c, l, i - 2)]
          /\ pr2[At(c, l, i - 1)] = pr[At(c, l, i - 1)]
      BY <1>4, <1>5, <3>3
    <3>5. nx[At(c, l, i - 2)] = At(c, l, i - 1) /\ pr[At(c, l, i - 1)] = At(c, l, i - 2)
      BY <3>3 DEF Linked
    <3>6. QED
      BY <3>2, <3>4, <3>5
  <2>5. QED
    BY <1>1, <2>1, <2>2, <2>3, <2>4
<1>8. nx2[At(d, l, N + 1)] = NULL
  <2>1. CASE p = N
    <3>1. At(d, l, N + 1) = n
      BY <1>2, <2>1
    <3>2. QED
      BY <1>3, <2>1, <3>1
  <2>2. CASE p # N
    <3>1. N + 1 \in p + 2 .. N + 1 /\ (N + 1) - 1 = N /\ N \in 0 .. N
      BY <1>1, <2>2
    <3>2. At(d, l, N + 1) = At(c, l, N)
      BY <1>2, <3>1
    <3>3. nx2[At(c, l, N)] = nx[At(c, l, N)]
      BY <1>4, <2>2, <3>1
    <3>4. QED
      BY <3>2, <3>3 DEF Linked
  <2>3. QED
    BY <2>1, <2>2
<1>9. Places(d, l) = 1 .. N + 1
  BY <1>2 DEF Places
<1> HIDE DEF N
<1>10. QED
  BY <1>2, <1>6, <1>7, <1>8, <1>9 DEF Linked, d

-----------------------------------------------------------------------------
(* Taking a node out *)

Take(c, l, p) == [c EXCEPT ![l] = Without(@, p)]

LEMMA TakeFacts ==
  ASSUME NEW c \in Contents, Apart(c), NEW l \in List, NEW p \in Places(c, l)
  PROVE  LET d == Take(c, l, p) IN
         /\ d \in Contents /\ Apart(d)
         /\ \A m : Listed(d, m) <=> Listed(c, m) /\ m # c[l][p]
         /\ \A k \in List \ {l} : d[k] = c[k]
         /\ Len(d[l]) = Len(c[l]) - 1
         /\ \A i \in 0 .. p - 1 : At(d, l, i) = At(c, l, i)
         /\ \A i \in p .. Len(c[l]) - 1 : At(d, l, i) = At(c, l, i + 1)
<1> DEFINE d == Take(c, l, p)
<1>1. /\ c[l] \in Seq(Node) /\ Len(c[l]) \in Nat /\ p \in Nat /\ p <= Len(c[l]) /\ p >= 1
      /\ p \in 1 .. Len(c[l])
  BY Lengths DEF Places
<1>2. /\ Without(c[l], p) \in Seq(Node) /\ Len(Without(c[l], p)) = Len(c[l]) - 1
      /\ \A i \in 1 .. p - 1 : Without(c[l], p)[i] = c[l][i]
      /\ \A i \in p .. Len(c[l]) - 1 : Without(c[l], p)[i] = c[l][i + 1]
  BY <1>1, WithoutFacts
<1>3. d \in Contents /\ d[l] = Without(c[l], p) /\ \A k \in List \ {l} : d[k] = c[k]
  BY <1>2 DEF Take, Contents
<1> HIDE DEF d
<1>4. /\ Len(d[l]) = Len(c[l]) - 1
      /\ \A i \in 1 .. p - 1 : d[l][i] = c[l][i]
      /\ \A i \in p .. Len(c[l]) - 1 : d[l][i] = c[l][i + 1]
  BY <1>2, <1>3
\* Every place of d holds what another place of c holds, and these places differ.
<1>5. \A k \in List : \A i \in Places(d, k) :
        \E x \in Places(c, k) : /\ d[k][i] = c[k][x]
                                /\ x = IF k = l /\ i >= p THEN i + 1 ELSE i
                                /\ k = l => x # p
  <2>1. TAKE k \in List
  <2>2. TAKE i \in Places(d, k)
  <2>3. CASE k # l
    BY <1>3, <2>3 DEF Places
  <2>4. CASE k = l
    <3>1. i \in 1 .. Len(c[l]) - 1
      BY <1>4, <2>4 DEF Places
    <3>2. CASE i \in 1 .. p - 1
      BY <1>1, <1>4, <2>4, <3>2 DEF Places
    <3>3. CASE i \in p .. Len(c[l]) - 1
      BY <1>1, <1>4, <2>4, <3>3 DEF Places
    <3>4. QED
      BY <1>1, <3>1, <3>2, <3>3
  <2>5. QED
    BY <2>3, <2>4
<1>6. \A k \in List : \A x \in Places(c, k) :
        (k = l /\ x = p) \/ \E i \in Places(d, k) : d[k][i] = c[k][x]
  <2>1. TAKE k \in List
  <2>2. TAKE x \in Places(c, k)
  <2>3. CASE k # l
    BY <1>3, <2>3 DEF Places
  <2>4. CASE k = l
    <3>1. x \in 1 .. p - 1 \/ x = p \/ x \in p + 1 .. Len(c[l])
      BY <1>1, <2>4 DEF Places
    <3>2. CASE x \in 1 .. p - 1
      <4>1. x \in Places(d, k)
        BY <1>1, <1>4, <2>4, <3>2 DEF Places
      <4>2. QED
        BY <1>4, <2>4, <3>2, <4>1
    <3>3. CASE x \in p + 1 .. Len(c[l])
      <4>1. x - 1 \in Places(d, k) /\ x - 1 \in p .. Len(c[l]) - 1 /\ (x - 1) + 1 = x
        BY <1>1, <1>4, <2>4, <3>3 DEF Places
      <4>2. QED
        BY <1>4, <2>4, <4>1
    <3>4. QED
      BY <2>4, <3>1, <3>2, <3>3
  <2>5. QED
    BY <2>3, <2>4
<1>7. \A m : Listed(d, m) <=> Listed(c, m) /\ m # c[l][p]
  <2>1. ASSUME NEW m, Listed(d, m) PROVE Listed(c, m) /\ m # c[l][p]
    <3>1. PICK k \in List : \E i \in Places(d, k) : d[k][i] = m
      BY <2>1 DEF Listed
    <3>2. PICK x \in Places(c, k) : m = c[k][x] /\ (k = l => x # p)
      BY <1>5, <3>1
    <3>3. m # c[l][p]
      BY <3>2 DEF Apart
    <3>4. QED
      BY <3>2, <3>3 DEF Listed
  <2>2. ASSUME NEW m, Listed(c, m), m # c[l][p] PROVE Listed(d, m)
    <3>1. PICK k \in List : \E x \in Places(c, k) : c[k][x] = m
      BY <2>2 DEF Listed
    <3>2. \E i \in Places(d, k) : d[k][i] = m
      BY <1>6, <2>2, <3>1
    <3>3. QED
      BY <3>2 DEF Listed
  <2>3. QED
    BY <2>1, <2>2
<1>8. Apart(d)
  <2>1. ASSUME NEW j \in List, NEW k \in List, NEW x \in Places(d, j), NEW y \in Places(d, k),
               d[j][x] = d[k][y]
        PROVE  j = k /\ x = y
    <3>1. x \in Int /\ y \in Int
      BY DEF Places
    <3>2. PICK a \in Places(c, j) : /\ d[j][x] = c[j][a]
                                    /\ a = IF j = l /\ x >= p THEN x + 1 ELSE x
      BY <1>5
    <3>3. PICK b \in Places(c, k) : /\ d[k][y] = c[k][b]
                                    /\ b = IF k = l /\ y >= p THEN y + 1 ELSE y
      BY <1>5
    <3>4. c[j][a] = c[k][b]
      BY <2>1, <3>2, <3>3
    <3>5. j = k /\ a = b
      BY <3>4 DEF Apart
    <3>6. QED
      BY <1>1, <3>1, <3>2, <3>3, <3>5
  <2>2. QED
    BY <2>1 DEF Apart
<1>9. /\ \A i \in 0 .. p - 1 : At(d, l, i) = At(c, l, i)
      /\ \A i \in p .. Len(c[l]) - 1 : At(d, l, i) = At(c, l, i + 1)
  <2>1. \A i \in 0 .. p - 1 : i = 0 \/ i \in 1 .. p - 1
    BY <1>1
  <2>2. \A i \in p .. Len(c[l]) - 1 : i # 0 /\ i + 1 # 0
    BY <1>1
  <2>3. QED
    BY <1>4, <2>1, <2>2 DEF At
<1>10. QED
  BY <1>3, <1>4, <1>7, <1>8, <1>9 DEF d

\* The pointers after n was unlinked; n keeps its own or not.
LEMMA TakeLinks ==
  ASSUME NEW c \in Contents, Apart(c), NEW l \in List, NEW p \in Places(c, l),
         NEW nx, NEW pr, Linked(c, nx, pr), NEW nx2, NEW pr2,
         NEW n, n = At(c, l, p), NEW prv, prv = At(c, l, p - 1),
         nx2[prv] = nx[n], \A x \in Cell \ {n, prv} : nx2[x] = nx[x],
         nx[n] # NULL => pr2[nx[n]] = prv, \A x \in Cell \ {n, nx[n]} : pr2[x] = pr[x]
  PROVE  Linked(Take(c, l, p), nx2, pr2)
<1> DEFINE d == Take(c, l, p)
           N == Len(c[l])
<1>1. N \in Nat /\ p \in Nat /\ 1 <= p /\ p <= N /\ p \in 0 .. N /\ p - 1 \in 0 .. N
  BY Lengths DEF Places
<1>2. /\ \A k \in List \ {l} : d[k] = c[k]
      /\ Len(d[l]) = N - 1
      /\ \A i \in 0 .. p - 1 : At(d, l, i) = At(c, l, i)
      /\ \A i \in p .. N - 1 : At(d, l, i) = At(c, l, i + 1)
  BY TakeFacts
<1> HIDE DEF d
<1>3. nx[n] = IF p = N THEN NULL ELSE At(c, l, p + 1)
  BY <1>1, NextOf
\* Elsewhere the pointers are as before.
<1>4. ASSUME NEW k \in List, NEW i \in 0 .. Len(c[k]), k # l \/ i \notin {p, p - 1}
      PROVE  nx2[At(c, k, i)] = nx[At(c, k, i)]
  <2>1. At(c, k, i) \in Cell
    BY AtIsCell
  <2>2. At(c, k, i) # n /\ At(c, k, i) # prv
    BY <1>1, <1>4, AtOnce
  <2>3. QED
    BY <2>1, <2>2
<1>5. ASSUME NEW k \in List, NEW i \in Places(c, k), k # l \/ i \notin {p, p + 1}
      PROVE  pr2[At(c, k, i)] = pr[At(c, k, i)]
  <2>0. i \in 0 .. Len(c[k]) /\ i # 0
    BY Lengths DEF Places
  <2>1. At(c, k, i) \in Cell /\ At(c, k, i) # NULL
    BY <2>0, AtIsCell
  <2>2. At(c, k, i) # n
    BY <1>1, <1>5, <2>0, AtOnce
  <2>3. At(c, k, i) # nx[n]
    <3>1. CASE p = N
      BY <1>3, <2>1, <3>1
    <3>2. CASE p # N
      <4>1. p + 1 \in 0 .. Len(c[l]) /\ nx[n] = At(c, l, p + 1)
        BY <1>1, <1>3, <3>2
      <4>2. QED
        BY <1>5, <2>0, <4>1, AtOnce
    <3>3. QED
      BY <3>1, <3>2
  <2>4. QED
    BY <2>1, <2>2, <2>3
<1>6. ASSUME NEW k \in List, k # l
      PROVE  /\ \A i \in Places(d, k) :
                  nx2[At(d, k, i - 1)] = At(d, k, i) /\ pr2[At(d, k, i)] = At(d, k, i - 1)
             /\ nx2[At(d, k, Len(d[k]))] = NULL
  <2>1. d[k] = c[k] /\ Places(d, k) = Places(c, k) /\ \A i : At(d, k, i) = At(c, k, i)
    BY <1>2, <1>6 DEF At, Places
  <2>2. Len(c[k]) \in Nat
    BY Lengths
  <2>3. \A i \in Places(c, k) : i - 1 \in 0 .. Len(c[k])
    BY <2>2 DEF Places
  <2>4. Len(c[k]) \in 0 .. Len(c[k])
    BY <2>2
  <2>5. QED
    BY <1>4, <1>5, <1>6, <2>1, <2>3, <2>4 DEF Linked
<1>7. ASSUME NEW i \in 1 .. N - 1
      PROVE  nx2[At(d, l, i - 1)] = At(d, l, i) /\ pr2[At(d, l, i)] = At(d, l, i - 1)
  <2>1. CASE i \in 1 .. p - 1
    <3>1. /\ At(d, l, i - 1) = At(c, l, i - 1) /\ At(d, l, i) = At(c, l, i)
          /\ i \in Places(c, l) /\ i - 1 \in 0 .. N /\ i - 1 \notin {p, p - 1}
          /\ i \notin {p, p + 1}
      BY <1>1, <1>2, <2>1 DEF Places
    <3>2. nx2[At(c, l, i - 1)] = nx[At(c, l, i - 1)] /\ pr2[At(c, l, i)] = pr[At(c, l, i)]
      BY <1>4, <1>5, <3>1
    <3>3. QED
      BY <3>1, <3>2 DEF Linked
  <2>2. CASE i = p
    <3>1. /\ p # N /\ i \in p .. N - 1 /\ i - 1 \in 0 .. p - 1 /\ i - 1 = p - 1
          /\ p + 1 \in 0 .. N
      BY <1>1, <2>2
    <3>2. At(d, l, i) = At(c, l, p + 1) /\ At(d, l, i - 1) = prv
      BY <1>2, <2>2, <3>1
    <3>3. nx[n] = At(c, l, p + 1) /\ nx[n] # NULL
      BY <1>3, <3>1, AtIsCell
    <3>4. QED
      BY <3>2, <3>3
  <2>3. CASE i \in p + 1 .. N - 1
    <3>1. i \in p .. N - 1 /\ i - 1 \in p .. N - 1 /\ (i - 1) + 1 = i
      BY <1>1, <2>3
    <3>2. At(d, l, i) = At(c, l, i + 1) /\ At(d, l, i - 1) = At(c, l, i)
      BY <1>2, <3>1
    <3>3. /\ i + 1 \in Places(c, l) /\ i \in 0 .. N /\ i \notin {p, p - 1}
          /\ i + 1 \notin {p, p + 1} /\ (i + 1) - 1 = i
      BY <1>1, <2>3 DEF Places
    <3>4. nx2[At(c, l, i)] = nx[At(c, l, i)] /\ pr2[At(c, l, i + 1)] = pr[At(c, l, i + 1)]
      BY <1>4, <1>5, <3>3
    <3>5. nx[At(c, l, i)] = At(c, l, i + 1) /\ pr[At(c, l, i + 1)] = At(c, l, i)
      BY <3>3 DEF Linked
    <3>6. QED
      BY <3>2, <3>4, <3>5
  <2>4. QED
    BY <1>1, <2>1, <2>2, <2>3
<1>8. nx2[At(d, l, N - 1)] = NULL
  <2>1. CASE p = N
    <3>1. At(d, l, N - 1) = prv
      BY <1>1, <1>2, <2>1
    <3>2. QED
      BY <1>3, <2>1, <3>1
  <2>2. CASE p # N
    <3>1. N - 1 \in p .. N - 1 /\ (N - 1) + 1 = N /\ N \in 0 .. N /\ N \notin {p, p - 1}
      BY <1>1, <2>2
    <3>2. At(d, l, N - 1) = At(c, l, N)
      BY <1>2, <3>1
    <3>3. nx2[At(c, l, N)] = nx[At(c, l, N)]
      BY <1>4, <3>1
    <3>4. QED
      BY <3>2, <3>3 DEF Linked
  <2>3. QED
    BY <2>1, <2>2
<1>9. Places(d, l) = 1 .. N - 1
  BY <1>2 DEF Places
<1> HIDE DEF N
<1>10. QED
  BY <1>2, <1>6, <1>7, <1>8, <1>9 DEF Linked, d

-----------------------------------------------------------------------------
(* Joining two lists, emptying one *)

Join(c, l, s) == [c EXCEPT ![l] = @ \o c[s], ![s] = <<>>]

LEMMA JoinFacts ==
  ASSUME NEW c \in Contents, Apart(c), NEW l \in List, NEW s \in List, l # s
  PROVE  LET d == Join(c, l, s) IN
         /\ d \in Contents /\ Apart(d)
         /\ \A m : Listed(d, m) <=> Listed(c, m)
         /\ \A k \in List \ {l, s} : d[k] = c[k]
         /\ Len(d[s]) = 0
         /\ Len(d[l]) = Len(c[l]) + Len(c[s])
         /\ \A i \in 0 .. Len(c[l]) : At(d, l, i) = At(c, l, i)
         /\ \A i \in 1 .. Len(c[s]) : At(d, l, Len(c[l]) + i) = At(c, s, i)
<1> DEFINE d == Join(c, l, s)
           N == Len(c[l])
           M == Len(c[s])
           j == c[l] \o c[s]
<1>1. c[l] \in Seq(Node) /\ c[s] \in Seq(Node) /\ N \in Nat /\ M \in Nat
  BY Lengths
<1>2. /\ j \in Seq(Node) /\ Len(j) = N + M
      /\ \A i \in 1 .. N : j[i] = c[l][i]
      /\ \A i \in 1 .. M : j[N + i] = c[s][i]
  BY <1>1, Joined
<1> HIDE DEF j
<1>3. /\ d \in Contents /\ d[l] = j /\ d[s] = <<>> /\ Len(d[s]) = 0
      /\ \A k \in List \ {l, s} : d[k] = c[k]
  <2>1. <<>> \in Seq(Node) /\ Len(<<>>) = 0
    OBVIOUS
  <2>2. d = [c EXCEPT ![l] = j, ![s] = <<>>]
    BY DEF Join, j
  <2> HIDE DEF d
  <2>3. QED
    BY <1>2, <2>1, <2>2 DEF Contents
<1> HIDE DEF d, N, M
<1>4. /\ Len(d[l]) = N + M
      /\ \A i \in 1 .. N : d[l][i] = c[l][i]
      /\ \A i \in 1 .. M : d[l][N + i] = c[s][i]
  BY <1>2, <1>3
<1>5. Places(c, l) = 1 .. N /\ Places(c, s) = 1 .. M /\ Places(d, l) = 1 .. N + M /\ Places(d, s) = {}
  BY <1>3, <1>4 DEF Places, N, M
\* The place of c that holds what a place of d holds: in k, or in s for the last of l.
<1>6. \A k \in List : \A i \in Places(d, k) :
        \/ i \in Places(c, k) /\ k # s /\ d[k][i] = c[k][i]
        \/ k = l /\ i - N \in Places(c, s) /\ d[k][i] = c[s][i - N]
  <2>1. TAKE k \in List
  <2>2. TAKE i \in Places(d, k)
  <2>3. k # s
    BY <1>5
  <2>4. CASE k # l
    BY <1>3, <2>3, <2>4 DEF Places
  <2>5. CASE k = l
    <3>1. i \in 1 .. N \/ i \in N + 1 .. N + M
      BY <1>1, <1>5, <2>5
    <3>2. CASE i \in 1 .. N
      BY <1>4, <1>5, <2>3, <2>5, <3>2
    <3>3. CASE i \in N + 1 .. N + M
      <4>1. i - N \in 1 .. M /\ N + (i - N) = i
        BY <1>1, <3>3
      <4>2. QED
        BY <1>4, <1>5, <2>5, <4>1
    <3>4. QED
      BY <3>1, <3>2, <3>3
  <2>6. QED
    BY <2>4, <2>5
<1>7. \A k \in List : \A x \in Places(c, k) :
        \E q \in List : \E i \in Places(d, q) : d[q][i] = c[k][x]
  <2>1. TAKE k \in List
  <2>2. TAKE x \in Places(c, k)
  <2>3. CASE k \notin {l, s}
    BY <1>3, <2>3 DEF Places
  <2>4. CASE k = l
    <3>1. x \in 1 .. N /\ x \in Places(d, l)
      BY <1>1, <1>5, <2>4
    <3>2. QED
      BY <1>4, <2>4, <3>1
  <2>5. CASE k = s
    <3>1. x \in 1 .. M /\ N + x \in Places(d, l)
      BY <1>1, <1>5, <2>5
    <3>2. QED
      BY <1>4, <2>5, <3>1
  <2>6. QED
    BY <2>3, <2>4, <2>5
<1>8. \A m : Listed(d, m) <=> Listed(c, m)
  <2>1. ASSUME NEW m, Listed(d, m) PROVE Listed(c, m)
    <3>1. PICK k \in List : \E i \in Places(d, k) : d[k][i] = m
      BY <2>1 DEF Listed
    <3>2. \E q \in List : \E x \in Places(c, q) : c[q][x] = m
      BY <1>6, <3>1
    <3>3. QED
      BY <3>2 DEF Listed
  <2>2. ASSUME NEW m, Listed(c, m) PROVE Listed(d, m)
    <3>1. PICK k \in List : \E x \in Places(c, k) : c[k][x] = m
      BY <2>2 DEF Listed
    <3>2. \E q \in List : \E i \in Places(d, q) : d[q][i] = m
      BY <1>7, <3>1
    <3>3. QED
      BY <3>2 DEF Listed
  <2>3. QED
    BY <2>1, <2>2
<1>9. Apart(d)
  <2>1. ASSUME NEW a \in List, NEW b \in List, NEW x \in Places(d, a), NEW y \in Places(d, b),
               d[a][x] = d[b][y]
        PROVE  a = b /\ x = y
    <3>1. x \in Int /\ y \in Int
      BY DEF Places
    <3>2. CASE x \in Places(c, a) /\ a # s /\ d[a][x] = c[a][x]
      <4>1. CASE y \in Places(c, b) /\ d[b][y] = c[b][y]
        <5>1. c[a][x] = c[b][y]
          BY <2>1, <3>2, <4>1
        <5>2. QED
          BY <3>2, <4>1, <5>1 DEF Apart
      <4>2. CASE b = l /\ y - N \in Places(c, s) /\ d[b][y] = c[s][y - N]
        <5>1. c[a][x] = c[s][y - N]
          BY <2>1, <3>2, <4>2
        <5>2. QED
          BY <3>2, <4>2, <5>1 DEF Apart
      <4>3. QED
        BY <1>6, <4>1, <4>2
    <3>3. CASE a = l /\ x - N \in Places(c, s) /\ d[a][x] = c[s][x - N]
      <4>1. CASE y \in Places(c, b) /\ b # s /\ d[b][y] = c[b][y]
        <5>1. c[b][y] = c[s][x - N]
          BY <2>1, <3>3, <4>1
        <5>2. QED
          BY <3>3, <4>1, <5>1 DEF Apart
      <4>2. CASE b = l /\ y - N \in Places(c, s) /\ d[b][y] = c[s][y - N]
        <5>1. c[s][x - N] = c[s][y - N]
          BY <2>1, <3>3, <4>2
        <5>2. x - N = y - N
          BY <3>3, <4>2, <5>1 DEF Apart
        <5>3. QED
          BY <1>1, <3>1, <3>3, <4>2, <5>2
      <4>3. QED
        BY <1>6, <4>1, <4>2
    <3>4. QED
      BY <1>6, <3>2, <3>3
  <2>2. QED
    BY <2>1 DEF Apart
<1>10. /\ \A i \in 0 .. N : At(d, l, i) = At(c, l, i)
       /\ \A i \in 1 .. M : At(d, l, N + i) = At(c, s, i)
  <2>1. \A i \in 0 .. N : i = 0 \/ i \in 1 .. N
    BY <1>1
  <2>2. \A i \in 1 .. M : i # 0 /\ N + i # 0
    BY <1>1
  <2>3. QED
    BY <1>4, <2>1, <2>2 DEF At
<1>11. QED
  BY <1>3, <1>4, <1>8, <1>9, <1>10 DEF d, N, M

\* The pointers after the nodes of s were linked behind the last one of l.
LEMMA JoinLinks ==
  ASSUME NEW c \in Contents, Apart(c), NEW l \in List, NEW s \in List, l # s, Len(c[s]) # 0,
         NEW nx, NEW pr, Linked(c, nx, pr), NEW nx2, NEW pr2,
         NEW last, last = At(c, l, Len(c[l])),
         nx2[last] = nx[s], nx2[s] = NULL, \A x \in Cell \ {last, s} : nx2[x] = nx[x],
         pr2[nx[s]] = last, \A x \in Cell \ {nx[s]} : pr2[x] = pr[x]
  PROVE  Linked(Join(c, l, s), nx2, pr2)
<1> DEFINE d == Join(c, l, s)
           N == Len(c[l])
           M == Len(c[s])
<1>1. N \in Nat /\ M \in Nat /\ N \in 0 .. N /\ 0 \in 0 .. M /\ 1 \in 0 .. M
  BY Lengths
<1>2. /\ \A k \in List \ {l, s} : d[k] = c[k]
      /\ Len(d[s]) = 0
      /\ Len(d[l]) = N + M
      /\ \A i \in 0 .. N : At(d, l, i) = At(c, l, i)
      /\ \A i \in 1 .. M : At(d, l, N + i) = At(c, s, i)
  BY JoinFacts
<1> HIDE DEF d
<1>3. nx[s] = At(c, s, 1) /\ At(c, s, 0) = s
  <2>1. nx[At(c, s, 0)] = At(c, s, 0 + 1)
    BY <1>1, NextOf
  <2>2. QED
    BY <2>1 DEF At
\* Elsewhere the pointers are as before.
<1>4. ASSUME NEW k \in List, NEW i \in 0 .. Len(c[k]), k # l \/ i # N, k # s \/ i # 0
      PROVE  nx2[At(c, k, i)] = nx[At(c, k, i)]
  <2>1. At(c, k, i) \in Cell
    BY AtIsCell
  <2>2. At(c, k, i) # last
    BY <1>1, <1>4, AtOnce
  <2>3. At(c, k, i) # s
    BY <1>1, <1>3, <1>4, AtOnce
  <2>4. QED
    BY <2>1, <2>2, <2>3
<1>5. ASSUME NEW k \in List, NEW i \in Places(c, k), k # s \/ i # 1
      PROVE  pr2[At(c, k, i)] = pr[At(c, k, i)]
  <2>0. i \in 0 .. Len(c[k]) /\ i # 0
    BY Lengths DEF Places
  <2>1. At(c, k, i) \in Cell
    BY <2>0, AtIsCell
  <2>2. At(c, k, i) # nx[s]
    BY <1>1, <1>3, <1>5, <2>0, AtOnce
  <2>3. QED
    BY <2>1, <2>2
<1>6. ASSUME NEW k \in List, k # l, k # s
      PROVE  /\ \A i \in Places(d, k) :
                  nx2[At(d, k, i - 1)] = At(d, k, i) /\ pr2[At(d, k, i)] = At(d, k, i - 1)
             /\ nx2[At(d, k, Len(d[k]))] = NULL
  <2>1. d[k] = c[k] /\ Places(d, k) = Places(c, k) /\ \A i : At(d, k, i) = At(c, k, i)
    BY <1>2, <1>6 DEF At, Places
  <2>2. Len(c[k]) \in Nat
    BY Lengths
  <2>3. \A i \in Places(c, k) : i - 1 \in 0 .. Len(c[k])
    BY <2>2 DEF Places
  <2>4. Len(c[k]) \in 0 .. Len(c[k])
    BY <2>2
  <2>5. QED
    BY <1>4, <1>5, <1>6, <2>1, <2>3, <2>4 DEF Linked
<1>7. Places(d, s) = {} /\ At(d, s, Len(d[s])) = s
  BY <1>2 DEF Places, At
<1>8. ASSUME NEW i \in 1 .. N + M
      PROVE  nx2[At(d, l, i - 1)] = At(d, l, i) /\ pr2[At(d, l, i)] = At(d, l, i - 1)
  <2>1. CASE i \in 1 .. N
    <3>1. /\ i - 1 \in 0 .. N /\ i \in 0 .. N /\ i - 1 # N /\ i \in Places(c, l)
          /\ At(d, l, i - 1) = At(c, l, i - 1) /\ At(d, l, i) = At(c, l, i)
      BY <1>1, <1>2, <2>1 DEF Places
    <3>2. nx2[At(c, l, i - 1)] = nx[At(c, l, i - 1)] /\ pr2[At(c, l, i)] = pr[At(c, l, i)]
      BY <1>4, <1>5, <3>1
    <3>3. QED
      BY <3>1, <3>2 DEF Linked
  <2>2. CASE i = N + 1
    <3>1. i - 1 = N /\ 1 \in 1 .. M
      BY <1>1, <2>2
    <3>2. At(d, l, i - 1) = last /\ At(d, l, i) = nx[s]
      BY <1>1, <1>2, <1>3, <2>2, <3>1
    <3>3. QED
      BY <3>2
  <2>3. CASE i \in N + 2 .. N + M
    <3> DEFINE x == i - N
    <3>1. /\ x \in 1 .. M /\ x - 1 \in 1 .. M /\ i = N + x /\ i - 1 = N + (x - 1)
          /\ x \in Places(c, s) /\ x - 1 \in 0 .. M /\ x # 1 /\ x - 1 # 0
      <4>1. Places(c, s) = 1 .. M
        BY DEF Places
      <4> HIDE DEF M, N
      <4>2. i \in Int /\ i >= N + 2 /\ i <= N + M /\ N \in Nat /\ M \in Nat
        BY <1>1, <2>3
      <4>3. QED
        BY <4>1, <4>2
    <3> HIDE DEF x
    <3>2. At(d, l, i) = At(c, s, x) /\ At(d, l, i - 1) = At(c, s, x - 1)
      BY <1>2, <3>1
    <3>3. nx2[At(c, s, x - 1)] = nx[At(c, s, x - 1)] /\ pr2[At(c, s, x)] = pr[At(c, s, x)]
      BY <1>4, <1>5, <3>1
    <3>4. QED
      BY <3>1, <3>2, <3>3 DEF Linked
  <2>4. i \in 1 .. N \/ i = N + 1 \/ i \in N + 2 .. N + M
    <3> HIDE DEF M, N
    <3>1. QED
      BY <1>1
  <2>5. QED
    BY <2>1, <2>2, <2>3, <2>4
<1>9. nx2[At(d, l, N + M)] = NULL
  <2>1. M \in 1 .. M /\ M \in 0 .. M /\ M # 0
    BY <1>1
  <2>2. At(d, l, N + M) = At(c, s, M)
    BY <1>2, <2>1
  <2>3. nx2[At(c, s, M)] = nx[At(c, s, M)]
    BY <1>4, <2>1
  <2>4. QED
    BY <2>2, <2>3 DEF Linked
<1>10. Places(d, l) = 1 .. N + M
  BY <1>2 DEF Places
<1> HIDE DEF N, M
<1>11. QED
  BY <1>2, <1>6, <1>7, <1>8, <1>9, <1>10 DEF Linked, d

Cleared(c, l) == [c EXCEPT ![l] = <<>>]

LEMMA ClearedFacts ==
  ASSUME NEW c \in Contents, Apart(c), NEW l \in List
  PROVE  LET d == Cleared(c, l) IN
         /\ d \in Contents /\ Apart(d)
         /\ \A m : Listed(d, m) <=> Listed(c, m) /\ \A i \in Places(c, l) : c[l][i] # m
         /\ \A k \in List \ {l} : d[k] = c[k]
         /\ Len(d[l]) = 0
<1> DEFINE d == Cleared(c, l)
<1>1. <<>> \in Seq(Node) /\ Len(<<>>) = 0
  OBVIOUS
<1>2. d \in Contents /\ d[l] = <<>> /\ \A k \in List \ {l} : d[k] = c[k]
  BY <1>1 DEF Cleared, Contents
<1> HIDE DEF d
<1>3. Places(d, l) = {} /\ \A k \in List \ {l} : Places(d, k) = Places(c, k)
  BY <1>1, <1>2 DEF Places
<1>4. Apart(d)
  BY <1>2, <1>3 DEF Apart
<1>5. \A m : Listed(d, m) <=> Listed(c, m) /\ \A i \in Places(c, l) : c[l][i] # m
  BY <1>2, <1>3 DEF Listed, Apart
<1>6. QED
  BY <1>1, <1>2, <1>4, <1>5 DEF d

LEMMA ClearedLinks ==
  ASSUME NEW c \in Contents, Apart(c), NEW l \in List, NEW nx, NEW pr, Linked(c, nx, pr),
         NEW nx2, NEW pr2, nx2[l] = NULL, \A x \in Cell \ {l} : nx2[x] = nx[x],
         \A x \in Cell \ {l} : pr2[x] = pr[x]
  PROVE  Linked(Cleared(c, l), nx2, pr2)
<1> DEFINE d == Cleared(c, l)
<1>1. (\A k \in List \ {l} : d[k] = c[k]) /\ Len(d[l]) = 0
  BY ClearedFacts
<1> HIDE DEF d
<1>2. ASSUME NEW k \in List, k # l
      PROVE  /\ \A i \in Places(d, k) :
                  nx2[At(d, k, i - 1)] = At(d, k, i) /\ pr2[At(d, k, i)] = At(d, k, i - 1)
             /\ nx2[At(d, k, Len(d[k]))] = NULL
  <2>1. d[k] = c[k] /\ Places(d, k) = Places(c, k) /\ \A i : At(d, k, i) = At(c, k, i)
    BY <1>1, <1>2 DEF At, Places
  <2>2. Len(c[k]) \in Nat /\ Len(c[l]) \in Nat /\ 0 \in 0 .. Len(c[l]) /\ At(c, l, 0) = l
    BY Lengths DEF At
  <2>3. \A i \in Places(c, k) : i - 1 \in 0 .. Len(c[k]) /\ i \in 0 .. Len(c[k])
    BY <2>2 DEF Places
  <2>4. Len(c[k]) \in 0 .. Len(c[k])
    BY <2>2
  <2>5. \A i \in 0 .. Len(c[k]) : At(c, k, i) \in Cell \ {l}
    BY <1>2, <2>2, AtIsCell, AtOnce
  <2>6. QED
    BY <2>1, <2>3, <2>4, <2>5 DEF Linked
<1>3. Places(d, l) = {} /\ At(d, l, Len(d[l])) = l
  BY <1>1 DEF Places, At
<1>4. QED
  BY <1>2, <1>3 DEF Linked, d

-----------------------------------------------------------------------------
(* The walks of Get_Node *)

\* A non-empty set of numbers has a least one.
LEMMA LeastNumber ==
  ASSUME NEW T \in SUBSET Nat, T # {}
  PROVE  \E x \in T : \A y \in T : x <= y
<1> DEFINE R == {ss \in Nat \X Nat : ss[1] < ss[2]}
<1>1. IsWellFoundedOn(R, Nat)
  BY NatLessThanWellFounded, Zenon DEF OpToRel
<1> HIDE DEF R
<1>2. PICK x \in T : \A y \in T : ~ (<<y, x>> \in R)
  BY <1>1, WFMin
<1>3. ASSUME NEW y \in T PROVE x <= y
  <2>1. <<y, x>> \notin R /\ x \in Nat /\ y \in Nat
    BY <1>2
  <2>2. ~ (y < x)
    BY <2>1 DEF R
  <2>3. QED
    BY <2>1, <2>2
<1>4. QED
  BY <1>3

\* Get_Node finds the nodes of the list in their places, and NULL behind them.
LEMMA Walk ==
  ASSUME NEW c \in Contents, Linked(c, next, pre), NEW l \in List, NEW pos \in Nat
  PROVE  Get_Node(l, pos) = IF pos <= Len(c[l]) THEN At(c, l, pos) ELSE NULL
<1> DEFINE N == Len(c[l])
           Body(w) == [i \in 0 .. pos |->
                         IF i = 0 THEN l ELSE IF w[i - 1] = NULL THEN NULL ELSE next[w[i - 1]]]
           f == [i \in 0 .. pos |-> IF i <= N THEN At(c, l, i) ELSE NULL]
<1>1. N \in Nat
  BY Lengths
<1>2. f = Body(f)
  <2> HIDE DEF N
  <2>1. ASSUME NEW i \in 0 .. pos PROVE f[i] = Body(f)[i]
    <3>1. CASE i = 0
      BY <1>1, <3>1 DEF At
    <3>2. CASE i # 0
      <4>1. i - 1 \in 0 .. pos /\ (i - 1) + 1 = i /\ i \in Nat /\ i - 1 \in Nat
        BY <3>2
      <4>2. Body(f)[i] = IF f[i - 1] = NULL THEN NULL ELSE next[f[i - 1]]
        BY <3>2
      <4>3. f[i - 1] = IF i - 1 <= N THEN At(c, l, i - 1) ELSE NULL
        BY <4>1
      <4>4. f[i] = IF i <= N THEN At(c, l, i) ELSE NULL
        OBVIOUS
      <4>5. CASE i - 1 <= N
        <5>1. i - 1 \in 0 .. Len(c[l])
          BY <1>1, <4>1, <4>5 DEF N
        <5>2. At(c, l, i - 1) # NULL
          BY <5>1, AtIsCell
        <5>3. next[At(c, l, i - 1)] = IF i - 1 = N THEN NULL ELSE At(c, l, i)
          BY <4>1, <5>1, NextOf DEF N
        <5>4. (i - 1 = N) <=> ~ (i <= N)
          BY <1>1, <4>1, <4>5
        <5>5. QED
          BY <4>2, <4>3, <4>4, <4>5, <5>2, <5>3, <5>4
      <4>6. CASE ~ (i - 1 <= N)
        <5>1. ~ (i <= N)
          BY <1>1, <4>1, <4>6
        <5>2. QED
          BY <4>2, <4>3, <4>4, <4>6, <5>1
      <4>7. QED
        BY <4>5, <4>6
    <3>3. QED
      BY <3>1, <3>2
  <2>2. QED
    BY <2>1
<1>3. ASSUME NEW w, w = Body(w) PROVE w = f
  <2>1. ASSUME NEW i \in 0 .. pos PROVE w[i] = f[i]
    <3> DEFINE T == {x \in 0 .. pos : w[x] # f[x]}
    <3>1. SUFFICES ASSUME T # {} PROVE FALSE
      OBVIOUS
    <3>2. T \in SUBSET Nat
      OBVIOUS
    <3>3. PICK x \in T : \A y \in T : x <= y
      BY <3>1, <3>2, LeastNumber
    <3>4. x \in 0 .. pos /\ w[x] # f[x]
      BY <3>3
    <3>5. w[x] = IF x = 0 THEN l ELSE IF w[x - 1] = NULL THEN NULL ELSE next[w[x - 1]]
      BY <1>3, <3>4, Zenon
    <3>6. f[x] = IF x = 0 THEN l ELSE IF f[x - 1] = NULL THEN NULL ELSE next[f[x - 1]]
      BY <1>2, <3>4, Zenon
    <3> HIDE DEF f
    <3>7. x # 0
      BY <3>4, <3>5, <3>6
    <3>8. x - 1 \in 0 .. pos /\ ~ (x <= x - 1)
      BY <3>4, <3>7
    <3>9. w[x - 1] = f[x - 1]
      BY <3>3, <3>8
    <3>10. QED
      BY <3>4, <3>5, <3>6, <3>7, <3>9
  <2>2. w = [i \in 0 .. pos |-> w[i]]
    BY <1>3, Zenon
  <2>3. f = [i \in 0 .. pos |-> f[i]]
    BY <1>2, Zenon
  <2> HIDE DEF f, Body
  <2>4. QED
    BY <2>1, <2>2, <2>3
<1> DEFINE g == CHOOSE w : w = Body(w)
<1>4. g = f
  <2> HIDE DEF f, Body
  <2>1. g = Body(g)
    BY <1>2, Zenon
  <2> HIDE DEF g
  <2>2. QED
    BY <1>3, <2>1
<1>5. Get_Node(l, pos) = g[pos]
  BY Zenon DEF Get_Node
<1> HIDE DEF g
<1>6. f[pos] = IF pos <= N THEN At(c, l, pos) ELSE NULL
  OBVIOUS
<1> HIDE DEF f
<1>7. QED
  BY <1>4, <1>5, <1>6 DEF N

\* A list has at most as many nodes as there are.
LEMMA Short ==
  ASSUME NEW c \in Contents, Apart(c), NEW l \in List
  PROVE  Cardinality(Node) \in Nat /\ Len(c[l]) <= Cardinality(Node)
<1>1. c[l] \in Seq(Node) /\ Len(c[l]) \in Nat /\ \A i \in 1 .. Len(c[l]) : c[l][i] \in Node
  BY Lengths DEF Places
<1>2. c[l] \in [1 .. Len(c[l]) -> Node]
  BY <1>1
<1>3. c[l] \in Injection(1 .. Len(c[l]), Node)
  <2>1. \A i, j \in 1 .. Len(c[l]) : c[l][i] = c[l][j] => i = j
    BY DEF Apart, Places
  <2>2. QED
    BY <1>2, <2>1 DEF Injection, IsInjective
<1>4. IsFiniteSet(Node) /\ Cardinality(Node) \in Nat
  BY ListAssumption, FS_CardinalityType
<1>5. Cardinality(1 .. Len(c[l])) = Len(c[l])
  BY <1>1, FS_Interval
<1>6. Cardinality(1 .. Len(c[l])) <= Cardinality(Node)
  BY <1>3, <1>4, FS_Injection
<1>7. QED
  BY <1>4, <1>5, <1>6

\* The nodes that the loop of Clear_List frees, and the chain that the properties speak of.
LEMMA ChainIs ==
  ASSUME NEW c \in Contents, Linked(c, next, pre), Apart(c), NEW l \in List
  PROVE  Reached(l) = {c[l][i] : i \in Places(c, l)} /\ Chain(l) = c[l]
<1> DEFINE N == Len(c[l])
           C == Cardinality(Node)
           S == {c[l][i] : i \in Places(c, l)}
<1>1. /\ c[l] \in Seq(Node) /\ N \in Nat /\ Places(c, l) = 1 .. N
      /\ \A i \in 1 .. N : c[l][i] \in Node
  BY Lengths DEF Places
<1>2. C \in Nat /\ N <= C
  BY Short
<1>3. \A i \in 1 .. N : Get_Node(l, i) = c[l][i] /\ c[l][i] # NULL
  <2>1. TAKE i \in 1 .. N
  <2>2. i \in Nat /\ i <= N /\ i # 0
    BY <1>1
  <2>3. QED
    BY <1>1, <2>2, Walk, ListAssumption DEF At
<1>4. \A i \in 1 .. C : i \in 1 .. N \/ Get_Node(l, i) = NULL
  <2>1. TAKE i \in 1 .. C
  <2>2. i \in Nat /\ (i \in 1 .. N \/ ~ (i <= N))
    BY <1>1, <1>2
  <2>3. QED
    BY <2>2, Walk
<1>5. \A i \in 1 .. N : i \in 1 .. C
  BY <1>1, <1>2
<1>6. Reached(l) = S
  <2> HIDE DEF N, C
  <2>1. Reached(l) = {Get_Node(l, i) : i \in 1 .. C} \ {NULL}
    BY DEF Reached, C
  <2>2. ASSUME NEW x \in Reached(l) PROVE x \in S
    <3>1. PICK i \in 1 .. C : x = Get_Node(l, i) /\ x # NULL
      BY <2>1, <2>2
    <3>2. i \in 1 .. N
      BY <1>4, <3>1
    <3>3. QED
      BY <1>1, <1>3, <3>1, <3>2
  <2>3. ASSUME NEW x \in S PROVE x \in Reached(l)
    <3>1. PICK i \in 1 .. N : x = c[l][i]
      BY <1>1, <2>3
    <3>2. i \in 1 .. C /\ x = Get_Node(l, i) /\ x # NULL
      BY <1>3, <1>5, <3>1
    <3>3. QED
      BY <2>1, <3>2
  <2>4. QED
    BY <2>2, <2>3
<1>7. Cardinality(S) = N
  <2>1. c[l] \in [1 .. N -> S]
    BY <1>1
  <2>2. c[l] \in Bijection(1 .. N, S)
    <3>1. \A i, j \in 1 .. N : c[l][i] = c[l][j] => i = j
      BY DEF Apart, Places
    <3>2. \A x \in S : \E i \in 1 .. N : c[l][i] = x
      BY <1>1
    <3> HIDE DEF S, N
    <3>3. QED
      BY <2>1, <3>1, <3>2 DEF Bijection, Injection, IsInjective, Surjection
  <2>3. ExistsBijection(1 .. N, S)
    BY <2>2 DEF ExistsBijection
  <2>4. QED
    BY <1>1, <2>3, FS_CountingElements
<1>8. Chain(l) = [i \in 1 .. N |-> Get_Node(l, i)]
  <2> HIDE DEF N, S
  <2>1. QED
    BY <1>6, <1>7 DEF Chain
<1>9. c[l] = [i \in 1 .. N |-> c[l][i]]
  BY <1>1
<1>10. Chain(l) = c[l]
  <2> HIDE DEF N
  <2>1. [i \in 1 .. N |-> Get_Node(l, i)] = [i \in 1 .. N |-> c[l][i]]
    BY <1>3, Zenon
  <2>2. QED
    BY <1>8, <1>9, <2>1
<1>11. QED
  BY <1>6, <1>10

-----------------------------------------------------------------------------
(* What is represented after an operation *)

\* A node linked in behind the cell cur.
LEMMA PutRep ==
  ASSUME NEW c \in Contents, NEW nx, NEW pr, NEW tl, NEW sz, NEW al, Rep(c, nx, pr, tl, sz, al),
         NEW nx2, NEW pr2, NEW tl2, NEW sz2, NEW al2, PointerTypes(nx2, pr2, tl2, sz2, al2),
         NEW l \in List, NEW p \in 0 .. Len(c[l]), NEW n \in Node, al[n] # "list",
         NEW cur, cur = At(c, l, p),
         nx2[cur] = n, nx2[n] = nx[cur], \A x \in Cell \ {n, cur} : nx2[x] = nx[x],
         pr2[n] = cur, nx[cur] # NULL => pr2[nx[cur]] = n,
         \A x \in Cell \ {n, nx[cur]} : pr2[x] = pr[x],
         tl2[l] = IF p = Len(c[l]) THEN n ELSE tl[l],
         \A k \in List \ {l} : tl2[k] = tl[k],
         sz2[l] = sz[l] + 1, \A k \in List \ {l} : sz2[k] = sz[k],
         al2[n] = "list", \A m \in Node \ {n} : al2[m] = al[m]
  PROVE  Rep(Put(c, l, p, n), nx2, pr2, tl2, sz2, al2) /\ ~ Listed(c, n)
<1> DEFINE d == Put(c, l, p, n)
           N == Len(c[l])
<1>1. Linked(c, nx, pr) /\ Apart(c) /\ EndsAt(c, tl) /\ Counted(c, sz) /\ Allocated(c, al)
  BY DEF Rep
<1>2. ~ Listed(c, n)
  BY <1>1 DEF Allocated
<1>3. Linked(d, nx2, pr2)
  BY <1>1, <1>2, PutLinks
<1>4. /\ d \in Contents /\ Apart(d)
      /\ \A m : Listed(d, m) <=> m = n \/ Listed(c, m)
      /\ \A k \in List \ {l} : d[k] = c[k]
      /\ Len(d[l]) = N + 1
      /\ At(d, l, p + 1) = n
      /\ \A i \in p + 2 .. N + 1 : At(d, l, i) = At(c, l, i - 1)
  BY <1>1, <1>2, PutFacts
<1> HIDE DEF d
<1>5. N \in Nat /\ p \in Nat /\ p <= N
  BY Lengths
<1>6. tl2[l] = At(d, l, N + 1)
  <2>1. CASE p = N
    <3>1. tl2[l] = n
      BY <2>1
    <3>2. At(d, l, N + 1) = n
      BY ONLY <1>4, <2>1
    <3>3. QED
      BY ONLY <3>1, <3>2
  <2>2. CASE p # N
    <3>1. N + 1 \in p + 2 .. N + 1 /\ (N + 1) - 1 = N /\ N # 0
      BY <1>5, <2>2
    <3>2. At(d, l, N + 1) = At(c, l, N) /\ At(c, l, N) = c[l][N]
      <4>1. \A i \in p + 2 .. N + 1 : At(d, l, i) = At(c, l, i - 1)
        BY ONLY <1>4
      <4>2. At(d, l, N + 1) = At(c, l, N)
        BY ONLY <3>1, <4>1
      <4>3. At(c, l, N) = c[l][N]
        BY ONLY <3>1 DEF At
      <4>4. QED
        BY ONLY <4>2, <4>3
    <3>3. tl[l] = c[l][N]
      BY <1>1, <3>1 DEF EndsAt
    <3>4. QED
      BY <2>2, <3>2, <3>3
  <2>3. QED
    BY <2>1, <2>2
<1>7. N + 1 # 0
  BY <1>5
<1>8. EndsAt(d, tl2)
  <2>1. tl2[l] = d[l][Len(d[l])] /\ Len(d[l]) # 0
    BY <1>4, <1>6, <1>7 DEF At
  <2>2. QED
    BY <1>1, <1>4, <2>1 DEF EndsAt
<1>9. Counted(d, sz2)
  BY <1>1, <1>4 DEF Counted
<1>10. Allocated(d, al2)
  BY <1>1, <1>4 DEF Allocated
<1>11. QED
  BY <1>2, <1>3, <1>4, <1>8, <1>9, <1>10 DEF Rep, d

\* The p-th node of a list linked out.
LEMMA TakeRep ==
  ASSUME NEW c \in Contents, NEW nx, NEW pr, NEW tl, NEW sz, NEW al, Rep(c, nx, pr, tl, sz, al),
         NEW nx2, NEW pr2, NEW tl2, NEW sz2, NEW al2, PointerTypes(nx2, pr2, tl2, sz2, al2),
         NEW l \in List, NEW p \in Places(c, l),
         NEW n, n = At(c, l, p), NEW prv, prv = At(c, l, p - 1),
         nx2[prv] = nx[n], \A x \in Cell \ {n, prv} : nx2[x] = nx[x],
         nx[n] # NULL => pr2[nx[n]] = prv, \A x \in Cell \ {n, nx[n]} : pr2[x] = pr[x],
         IF p # Len(c[l]) THEN tl2[l] = tl[l]
           ELSE IF p = 1 THEN tl2[l] \in {NULL, l} ELSE tl2[l] = prv,
         \A k \in List \ {l} : tl2[k] = tl[k],
         sz2[l] = sz[l] - 1, \A k \in List \ {l} : sz2[k] = sz[k],
         al2[n] # "list", \A m \in Node \ {n} : al2[m] = al[m]
  PROVE  Rep(Take(c, l, p), nx2, pr2, tl2, sz2, al2)
<1> DEFINE d == Take(c, l, p)
           N == Len(c[l])
<1>1. Linked(c, nx, pr) /\ Apart(c) /\ EndsAt(c, tl) /\ Counted(c, sz) /\ Allocated(c, al)
  BY DEF Rep
<1>2. Linked(d, nx2, pr2)
  BY <1>1, TakeLinks
<1>3. /\ d \in Contents /\ Apart(d)
      /\ \A m : Listed(d, m) <=> Listed(c, m) /\ m # c[l][p]
      /\ \A k \in List \ {l} : d[k] = c[k]
      /\ Len(d[l]) = N - 1
      /\ \A i \in 0 .. p - 1 : At(d, l, i) = At(c, l, i)
      /\ \A i \in p .. N - 1 : At(d, l, i) = At(c, l, i + 1)
  BY <1>1, TakeFacts
<1> HIDE DEF d
<1>4. N \in Nat /\ p \in Nat /\ 1 <= p /\ p <= N
  BY Lengths DEF Places
<1>5. n = c[l][p] /\ n \in Node
  <2>1. p # 0
    BY <1>4
  <2>2. QED
    BY <2>1, Lengths DEF At
<1>6. EndsAt(d, tl2)
  <2>1. IF Len(d[l]) = 0 THEN tl2[l] \in {NULL, l} ELSE tl2[l] = d[l][Len(d[l])]
    <3>1. CASE p # N
      <4>1. N - 1 \in p .. N - 1 /\ (N - 1) + 1 = N /\ N # 0 /\ N - 1 # 0
        <5> HIDE DEF N
        <5>1. QED
          BY <1>4, <3>1
      <4>2. d[l][N - 1] = c[l][N]
        <5>1. At(d, l, N - 1) = At(c, l, (N - 1) + 1)
          BY <1>3, <4>1
        <5>2. QED
          BY <4>1, <5>1 DEF At
      <4>3. tl[l] = c[l][N]
        BY <1>1, <4>1 DEF EndsAt
      <4>4. QED
        BY <1>3, <3>1, <4>1, <4>2, <4>3
    <3>2. CASE p = N /\ p # 1
      <4>1. p - 1 \in 0 .. p - 1 /\ p - 1 # 0
        BY <1>4, <3>2
      <4>2. d[l][p - 1] = At(c, l, p - 1)
        BY <1>3, <4>1 DEF At
      <4>3. QED
        BY <1>3, <3>2, <4>1, <4>2
    <3>3. CASE p = N /\ p = 1
      BY <1>3, <3>3
    <3>4. QED
      BY <3>1, <3>2, <3>3
  <2>2. QED
    BY <1>1, <1>3, <2>1, ZenonT(60) DEF EndsAt
<1>7. Counted(d, sz2)
  BY <1>1, <1>3 DEF Counted
<1>8. Allocated(d, al2)
  BY <1>1, <1>3, <1>5 DEF Allocated
<1>9. QED
  BY <1>2, <1>3, <1>6, <1>7, <1>8 DEF Rep, d

\* The nodes of s linked in behind the last one of l.
LEMMA JoinRep ==
  ASSUME NEW c \in Contents, NEW nx, NEW pr, NEW tl, NEW sz, NEW al, Rep(c, nx, pr, tl, sz, al),
         NEW nx2, NEW pr2, NEW tl2, NEW sz2, PointerTypes(nx2, pr2, tl2, sz2, al),
         NEW l \in List, NEW s \in List, l # s, Len(c[s]) # 0,
         NEW last, last = At(c, l, Len(c[l])),
         nx2[last] = nx[s], nx2[s] = NULL, \A x \in Cell \ {last, s} : nx2[x] = nx[x],
         pr2[nx[s]] = last, \A x \in Cell \ {nx[s]} : pr2[x] = pr[x],
         tl2[l] = tl[s], tl2[s] = NULL, \A k \in List \ {l, s} : tl2[k] = tl[k],
         sz2[l] = sz[l] + sz[s], sz2[s] = 0, \A k \in List \ {l, s} : sz2[k] = sz[k]
  PROVE  Rep(Join(c, l, s), nx2, pr2, tl2, sz2, al)
<1> DEFINE d == Join(c, l, s)
           N == Len(c[l])
           M == Len(c[s])
<1>1. Linked(c, nx, pr) /\ Apart(c) /\ EndsAt(c, tl) /\ Counted(c, sz) /\ Allocated(c, al)
  BY DEF Rep
<1>2. Linked(d, nx2, pr2)
  BY <1>1, JoinLinks
<1>3. /\ d \in Contents /\ Apart(d)
      /\ \A m : Listed(d, m) <=> Listed(c, m)
      /\ \A k \in List \ {l, s} : d[k] = c[k]
      /\ Len(d[s]) = 0
      /\ Len(d[l]) = N + M
      /\ \A i \in 1 .. M : At(d, l, N + i) = At(c, s, i)
  BY <1>1, JoinFacts
<1> HIDE DEF d
<1>4. N \in Nat /\ M \in Nat /\ M \in 1 .. M /\ M # 0 /\ N + M # 0
  <2>1. N \in Nat /\ M \in Nat /\ M # 0
    BY Lengths
  <2> HIDE DEF N, M
  <2>2. QED
    BY <2>1
<1>5. EndsAt(d, tl2)
  <2>1. tl2[l] = d[l][Len(d[l])] /\ Len(d[l]) # 0
    <3>1. d[l][N + M] = c[s][M]
      BY <1>3, <1>4 DEF At
    <3>2. tl[s] = c[s][M]
      BY <1>1 DEF EndsAt
    <3>3. QED
      BY <1>3, <1>4, <3>1, <3>2
  <2>2. QED
    BY <1>1, <1>3, <2>1, ZenonT(60) DEF EndsAt
<1>6. Counted(d, sz2)
  BY <1>1, <1>3 DEF Counted
<1>7. Allocated(d, al)
  BY <1>1, <1>3 DEF Allocated
<1>8. QED
  BY <1>2, <1>3, <1>5, <1>6, <1>7 DEF Rep, d

\* A list with nothing behind its head node.
LEMMA ClearedRep ==
  ASSUME NEW c \in Contents, NEW nx, NEW pr, NEW tl, NEW sz, NEW al, Rep(c, nx, pr, tl, sz, al),
         NEW nx2, NEW pr2, NEW tl2, NEW sz2, NEW al2, PointerTypes(nx2, pr2, tl2, sz2, al2),
         NEW l \in List,
         nx2[l] = NULL, \A x \in Cell \ {l} : nx2[x] = nx[x], \A x \in Cell \ {l} : pr2[x] = pr[x],
         tl2[l] = NULL, \A k \in List \ {l} : tl2[k] = tl[k],
         sz2[l] = 0, \A k \in List \ {l} : sz2[k] = sz[k],
         \A m \in Node : al2[m] = "list" <=> al[m] = "list" /\ \A i \in Places(c, l) : c[l][i] # m
  PROVE  Rep(Cleared(c, l), nx2, pr2, tl2, sz2, al2)
<1> DEFINE d == Cleared(c, l)
<1>1. Linked(c, nx, pr) /\ Apart(c) /\ EndsAt(c, tl) /\ Counted(c, sz) /\ Allocated(c, al)
  BY DEF Rep
<1>2. Linked(d, nx2, pr2)
  BY <1>1, ClearedLinks
<1>3. /\ d \in Contents /\ Apart(d)
      /\ \A m : Listed(d, m) <=> Listed(c, m) /\ \A i \in Places(c, l) : c[l][i] # m
      /\ \A k \in List \ {l} : d[k] = c[k]
      /\ Len(d[l]) = 0
  BY <1>1, ClearedFacts
<1> HIDE DEF d
<1>4. EndsAt(d, tl2) /\ Counted(d, sz2) /\ Allocated(d, al2)
  BY <1>1, <1>3 DEF EndsAt, Counted, Allocated
<1>5. QED
  BY <1>2, <1>3, <1>4 DEF Rep, d

-----------------------------------------------------------------------------
(* The operations *)

LEMMA RepMeans ==
  ASSUME NEW c \in Contents, Represents(c)
  PROVE  /\ PointerTypes(next, pre, tail, size, alloc)
         /\ Linked(c, next, pre) /\ Apart(c) /\ EndsAt(c, tail) /\ Counted(c, size)
         /\ Allocated(c, alloc)
BY DEF Represents, Rep

\* tail, or the head node where it is NULL, is the last cell of a list.
LEMMA LastIs ==
  ASSUME NEW c \in Contents, Represents(c), NEW l \in List
  PROVE  /\ (IF tail[l] = NULL THEN l ELSE tail[l]) = At(c, l, Len(c[l]))
         /\ next[At(c, l, Len(c[l]))] = NULL
         /\ size[l] = Len(c[l])
<1>1. Linked(c, next, pre) /\ EndsAt(c, tail) /\ Counted(c, size)
  BY RepMeans
<1>2. Len(c[l]) \in Nat /\ (Len(c[l]) # 0 => c[l][Len(c[l])] \in Node)
  BY Lengths DEF Places
<1>3. (IF tail[l] = NULL THEN l ELSE tail[l]) = At(c, l, Len(c[l]))
  BY <1>1, <1>2, ListAssumption DEF EndsAt, At
<1>4. QED
  BY <1>1, <1>3 DEF Linked, Counted

LEMMA PushRep ==
  ASSUME NEW c \in Contents, Represents(c), NEW l \in List, NEW n \in Node, Push_List(l, n)
  PROVE  /\ Rep(Put(c, l, Len(c[l]), n), next', pre', tail', size', alloc')
         /\ ~ Listed(c, n)
<1> DEFINE N == Len(c[l])
           last == IF tail[l] = NULL THEN l ELSE tail[l]
<1>1. PointerTypes(next, pre, tail, size, alloc)
  BY RepMeans
<1>2. N \in Nat /\ N \in 0 .. N
  BY Lengths
<1>3. last = At(c, l, N) /\ next[last] = NULL
  BY LastIs
<1>4. last \in Cell /\ n \in Cell /\ n \in Pointer /\ NULL \in Pointer /\ last \in Pointer
  BY <1>2, <1>3, AtIsCell DEF Cell, Pointer
<1>5. /\ alloc[n] # "list"
      /\ pre' = [pre EXCEPT ![n] = last]
      /\ next' = [next EXCEPT ![last] = n, ![n] = NULL]
      /\ tail' = [tail EXCEPT ![l] = n]
      /\ size' = [size EXCEPT ![l] = @ + 1]
      /\ alloc' = [alloc EXCEPT ![n] = "list"]
  BY DEF Push_List
<1> HIDE DEF last
<1>6. PointerTypes(next', pre', tail', size', alloc')
  BY <1>1, <1>4, <1>5 DEF PointerTypes
<1>7. last # n
  <2>1. N # 0 => Listed(c, At(c, l, N))
    BY <1>2, AtIsCell
  <2>2. ~ Listed(c, n)
    BY <1>5, RepMeans DEF Allocated
  <2>3. N = 0 => At(c, l, N) \notin Node
    BY ListAssumption DEF At
  <2>4. QED
    BY <1>3, <2>1, <2>2, <2>3
<1>8. /\ next'[last] = n /\ next'[n] = next[last]
      /\ \A x \in Cell \ {n, last} : next'[x] = next[x]
  BY <1>1, <1>3, <1>4, <1>5, <1>7 DEF PointerTypes
<1>9. /\ pre'[n] = last /\ next[last] = NULL
      /\ \A x \in Cell \ {n, next[last]} : pre'[x] = pre[x]
  BY <1>1, <1>3, <1>4, <1>5 DEF PointerTypes
<1>10. /\ tail'[l] = (IF N = Len(c[l]) THEN n ELSE tail[l])
       /\ \A k \in List \ {l} : tail'[k] = tail[k]
       /\ size'[l] = size[l] + 1 /\ \A k \in List \ {l} : size'[k] = size[k]
       /\ alloc'[n] = "list" /\ \A m \in Node \ {n} : alloc'[m] = alloc[m]
  BY <1>1, <1>5 DEF PointerTypes
<1>11. QED
  <2>1. N \in 0 .. Len(c[l]) /\ alloc[n] # "list" /\ Rep(c, next, pre, tail, size, alloc)
    BY <1>2, <1>5 DEF Represents
  <2> HIDE DEF N
  <2>2. /\ Rep(Put(c, l, N, n), next', pre', tail', size', alloc')
        /\ ~ Listed(c, n)
    BY <1>3, <1>6, <1>8, <1>9, <1>10, <2>1, PutRep
  <2>3. QED
    BY <2>2 DEF N

LEMMA InsertRep ==
  ASSUME NEW c \in Contents, Represents(c), NEW l \in List, NEW n \in Node, NEW pos \in Nat,
         pos < size[l], alloc[n] # "list", InsertBehind(l, pos, n)
  PROVE  /\ pos \in 0 .. Len(c[l])
         /\ Rep(Put(c, l, pos, n), next', pre', tail', size', alloc')
         /\ ~ Listed(c, n)
<1> DEFINE N == Len(c[l])
           cur == Get_Node(l, pos)
<1>1. PointerTypes(next, pre, tail, size, alloc) /\ Linked(c, next, pre)
  BY RepMeans
<1>2. N \in Nat /\ pos < N /\ pos \in 0 .. N /\ pos <= N /\ pos + 1 \in 0 .. N
  <2>1. N \in Nat /\ size[l] = N
    BY Lengths, LastIs
  <2> HIDE DEF N
  <2>2. QED
    BY <2>1
<1>3. cur = At(c, l, pos)
  BY <1>1, <1>2, Walk
<1>4. next[cur] = At(c, l, pos + 1)
  BY <1>1, <1>2, <1>3, NextOf
<1> HIDE DEF cur, N
<1>5. cur \in Cell /\ n \in Cell /\ n \in Pointer /\ cur \in Pointer
  BY <1>2, <1>3, AtIsCell DEF Cell, Pointer, N
<1>6. next[cur] \in Cell /\ next[cur] # NULL /\ next[cur] \in Pointer
  BY <1>2, <1>4, AtIsCell DEF Pointer, N
<1>7. /\ pre' = [pre EXCEPT ![next[cur]] = n, ![n] = cur]
      /\ next' = [next EXCEPT ![n] = next[cur], ![cur] = n]
      /\ tail' = tail
      /\ size' = [size EXCEPT ![l] = @ + 1]
      /\ alloc' = [alloc EXCEPT ![n] = "list"]
  BY <1>6 DEF InsertBehind, cur
<1>8. PointerTypes(next', pre', tail', size', alloc')
  BY <1>1, <1>5, <1>6, <1>7 DEF PointerTypes
<1>9. cur # n /\ next[cur] # n
  <2>1. \A i \in 0 .. N : At(c, l, i) # n
    <3>1. TAKE i \in 0 .. N
    <3>2. ~ Listed(c, n)
      BY RepMeans DEF Allocated
    <3>3. i # 0 => Listed(c, At(c, l, i))
      BY AtIsCell DEF N
    <3>4. i = 0 => At(c, l, i) \notin Node
      BY ListAssumption DEF At
    <3>5. QED
      BY <3>2, <3>3, <3>4
  <2>2. QED
    BY <1>2, <1>3, <1>4, <2>1
<1>10. /\ next'[cur] = n /\ next'[n] = next[cur]
       /\ \A x \in Cell \ {n, cur} : next'[x] = next[x]
  BY <1>1, <1>5, <1>7, <1>9 DEF PointerTypes
<1>11. /\ pre'[n] = cur /\ pre'[next[cur]] = n
       /\ \A x \in Cell \ {n, next[cur]} : pre'[x] = pre[x]
  BY <1>1, <1>5, <1>6, <1>7, <1>9 DEF PointerTypes
<1>12. /\ tail'[l] = (IF pos = N THEN n ELSE tail[l])
       /\ \A k \in List \ {l} : tail'[k] = tail[k]
       /\ size'[l] = size[l] + 1 /\ \A k \in List \ {l} : size'[k] = size[k]
       /\ alloc'[n] = "list" /\ \A m \in Node \ {n} : alloc'[m] = alloc[m]
  BY <1>1, <1>2, <1>7 DEF PointerTypes
<1>13. QED
  BY <1>2, <1>3, <1>8, <1>10, <1>11, <1>12, PutRep DEF Represents, N

LEMMA RemovePosRep ==
  ASSUME NEW c \in Contents, Represents(c), NEW l \in List, NEW pos \in Nat, NEW to \in Gone,
         Remove_Node_pos(l, pos, to)
  PROVE  /\ pos \in Places(c, l)
         /\ Rep(Take(c, l, pos), next', pre', tail', size', alloc')
         /\ alloc' = [alloc EXCEPT ![c[l][pos]] = to]
<1> DEFINE N == Len(c[l])
           cur == Get_Node(l, pos)
           prv == Get_Node(l, pos - 1)
<1>1. PointerTypes(next, pre, tail, size, alloc) /\ Linked(c, next, pre)
  BY RepMeans
<1>2. /\ N \in Nat /\ 1 <= pos /\ pos <= N /\ pos \in 0 .. N /\ pos - 1 \in 0 .. N /\ pos # 0
      /\ pos - 1 \in Nat /\ pos - 1 <= N /\ size[l] = N
  <2>1. N \in Nat /\ size[l] = N /\ pos \in 1 .. size[l]
    BY Lengths, LastIs DEF Remove_Node_pos
  <2> HIDE DEF N
  <2>2. QED
    BY <2>1
<1>3. pos \in Places(c, l)
  BY <1>2 DEF Places
<1>4. cur = At(c, l, pos) /\ prv = At(c, l, pos - 1)
  BY <1>1, <1>2, Walk
<1>5. next[cur] = IF pos = N THEN NULL ELSE At(c, l, pos + 1)
  BY <1>1, <1>2, <1>4, NextOf
<1>6. /\ next' = [next EXCEPT ![prv] = next[cur]]
      /\ IF next[cur] # NULL
         THEN pre' = [pre EXCEPT ![next[cur]] = prv] /\ tail' = tail
         ELSE tail' = [tail EXCEPT ![l] = IF prv = l THEN NULL ELSE prv] /\ pre' = pre
      /\ alloc' = [alloc EXCEPT ![cur] = to]
      /\ size' = [size EXCEPT ![l] = @ - 1]
  BY DEF Remove_Node_pos
<1> HIDE DEF cur, prv, N
<1>7. cur \in Node /\ prv \in Cell /\ prv \in Pointer /\ cur = c[l][pos]
  BY <1>2, <1>4, AtIsCell DEF Cell, Pointer, N
<1>8. /\ next[cur] \in Pointer /\ (pos # N => next[cur] \in Cell /\ next[cur] # NULL)
      /\ NULL \in Pointer
  <2>1. pos # N => pos + 1 \in 0 .. N
    BY <1>2
  <2>2. QED
    BY <1>5, <2>1, AtIsCell DEF Pointer, N
<1>9. prv = l <=> pos = 1
  <2>1. pos # 1 => prv \in Node
    <3>1. pos # 1 => pos - 1 # 0
      BY <1>2
    <3>2. QED
      BY <1>2, <1>4, <3>1, AtIsCell DEF N
  <2>2. pos = 1 => prv = l
    BY <1>4 DEF At
  <2>3. QED
    BY <2>1, <2>2, ListAssumption
<1>10. size[l] - 1 \in Nat
  BY <1>2
<1>11. to \in {"free", "held"} /\ to # "list"
  BY DEF Gone
<1>12. PointerTypes(next', pre', tail', size', alloc')
  <2>1. next' \in [Cell -> Pointer] /\ pre' \in [Cell -> Pointer]
    BY <1>1, <1>5, <1>6, <1>7, <1>8 DEF PointerTypes
  <2>2. tail' \in [List -> Pointer]
    BY <1>1, <1>6, <1>7, <1>8 DEF PointerTypes
  <2>3. size' \in [List -> Nat] /\ alloc' \in [Node -> {"free", "list", "held"}]
    BY <1>1, <1>6, <1>7, <1>10, <1>11 DEF PointerTypes
  <2>4. QED
    BY <2>1, <2>2, <2>3 DEF PointerTypes
<1>13. next'[prv] = next[cur] /\ \A x \in Cell \ {cur, prv} : next'[x] = next[x]
  BY <1>1, <1>6, <1>7 DEF PointerTypes
<1>14. /\ next[cur] # NULL => pre'[next[cur]] = prv
       /\ \A x \in Cell \ {cur, next[cur]} : pre'[x] = pre[x]
  BY <1>1, <1>5, <1>6, <1>8 DEF PointerTypes
<1>15. /\ IF pos # N THEN tail'[l] = tail[l]
            ELSE IF pos = 1 THEN tail'[l] \in {NULL, l} ELSE tail'[l] = prv
       /\ \A k \in List \ {l} : tail'[k] = tail[k]
  BY <1>1, <1>5, <1>6, <1>8, <1>9 DEF PointerTypes
<1>16. /\ size'[l] = size[l] - 1 /\ \A k \in List \ {l} : size'[k] = size[k]
       /\ alloc'[cur] # "list" /\ \A m \in Node \ {cur} : alloc'[m] = alloc[m]
  BY <1>1, <1>6, <1>7, <1>11 DEF PointerTypes
<1>17. Rep(c, next, pre, tail, size, alloc)
  BY DEF Represents
<1>18. Rep(Take(c, l, pos), next', pre', tail', size', alloc')
  BY <1>3, <1>4, <1>12, <1>13, <1>14, <1>15, <1>16, <1>17, TakeRep DEF N
<1>19. QED
  BY <1>3, <1>6, <1>7, <1>18

LEMMA RemovePointRep ==
  ASSUME NEW c \in Contents, Represents(c), NEW l \in List, NEW n \in Node, NEW to \in Gone,
         Remove_Node_point(l, n, to)
  PROVE  \E p \in Places(c, l) :
           /\ Rep(Take(c, l, p), next', pre', tail', size', alloc')
           /\ alloc' = [alloc EXCEPT ![c[l][p]] = to]
           /\ n = c[l][p]
<1> DEFINE N == Len(c[l])
<1>1. PointerTypes(next, pre, tail, size, alloc) /\ Linked(c, next, pre) /\ Apart(c)
  BY RepMeans
<1>2. N \in Nat /\ size[l] = N
  BY Lengths, LastIs
<1>3. PICK p \in 1 .. size[l] : Get_Node(l, p) = n
  BY DEF Remove_Node_point
<1> HIDE DEF N
<1>4. /\ p \in Nat /\ 1 <= p /\ p <= N /\ p \in 0 .. N /\ p - 1 \in 0 .. N /\ p # 0 /\ p # p - 1
  BY <1>2, <1>3
<1>5. p \in Places(c, l)
  BY <1>2, <1>3 DEF Places, N
<1>6. n = At(c, l, p)
  BY <1>1, <1>3, <1>4, Walk DEF N
<1> DEFINE prv == At(c, l, p - 1)
<1>7. pre[n] = prv
  BY <1>1, <1>5, <1>6 DEF Linked
<1>8. next[n] = IF p = N THEN NULL ELSE At(c, l, p + 1)
  BY <1>1, <1>4, <1>6, NextOf DEF N
<1>9. /\ IF next[n] # NULL
         THEN pre' = [pre EXCEPT ![next[n]] = prv] /\ tail' = tail
         ELSE tail' = [tail EXCEPT ![l] = prv] /\ pre' = pre
      /\ next' = [next EXCEPT ![prv] = next[n], ![n] = NULL]
      /\ size' = [size EXCEPT ![l] = @ - 1]
      /\ alloc' = [alloc EXCEPT ![n] = to]
  BY <1>7 DEF Remove_Node_point
<1>10. n = c[l][p] /\ prv \in Cell /\ prv \in Pointer /\ n \in Cell
  BY <1>4, <1>6, AtIsCell DEF Cell, Pointer, N
<1>11. prv # n
  BY <1>1, <1>4, <1>6, AtOnce DEF N
<1>12. p = 1 => prv = l
  BY DEF At
<1> HIDE DEF prv
<1>13. /\ next[n] \in Pointer /\ (p # N => next[n] \in Cell /\ next[n] # NULL)
       /\ NULL \in Pointer
  <2>1. p # N => p + 1 \in 0 .. N
    BY <1>2, <1>4
  <2>2. QED
    BY <1>8, <2>1, AtIsCell DEF Pointer, N
<1>14. size[l] - 1 \in Nat
  BY <1>2, <1>4
<1>15. to \in {"free", "held"} /\ to # "list"
  BY DEF Gone
<1>16. PointerTypes(next', pre', tail', size', alloc')
  <2>1. next' \in [Cell -> Pointer] /\ pre' \in [Cell -> Pointer]
    BY <1>1, <1>8, <1>9, <1>10, <1>13 DEF PointerTypes
  <2>2. tail' \in [List -> Pointer]
    BY <1>1, <1>9, <1>10 DEF PointerTypes
  <2>3. size' \in [List -> Nat] /\ alloc' \in [Node -> {"free", "list", "held"}]
    BY <1>1, <1>9, <1>14, <1>15 DEF PointerTypes
  <2>4. QED
    BY <2>1, <2>2, <2>3 DEF PointerTypes
<1>17. next'[prv] = next[n] /\ \A x \in Cell \ {n, prv} : next'[x] = next[x]
  BY <1>1, <1>9, <1>10, <1>11 DEF PointerTypes
<1>18. /\ next[n] # NULL => pre'[next[n]] = prv
       /\ \A x \in Cell \ {n, next[n]} : pre'[x] = pre[x]
  BY <1>1, <1>8, <1>9, <1>13 DEF PointerTypes
<1>19. /\ IF p # N THEN tail'[l] = tail[l]
            ELSE IF p = 1 THEN tail'[l] \in {NULL, l} ELSE tail'[l] = prv
       /\ \A k \in List \ {l} : tail'[k] = tail[k]
  BY <1>1, <1>8, <1>9, <1>12, <1>13 DEF PointerTypes
<1>20. /\ size'[l] = size[l] - 1 /\ \A k \in List \ {l} : size'[k] = size[k]
       /\ alloc'[n] # "list" /\ \A m \in Node \ {n} : alloc'[m] = alloc[m]
  BY <1>1, <1>9, <1>15 DEF PointerTypes
<1>21. Rep(c, next, pre, tail, size, alloc) /\ prv = At(c, l, p - 1)
  BY DEF Represents, prv
<1>22. Rep(Take(c, l, p), next', pre', tail', size', alloc')
  BY <1>5, <1>6, <1>16, <1>17, <1>18, <1>19, <1>20, <1>21, TakeRep DEF N
<1>23. QED
  BY <1>5, <1>9, <1>10, <1>22

LEMMA PopRep ==
  ASSUME NEW c \in Contents, Represents(c), NEW l \in List, Pop_List(l)
  PROVE  /\ 1 \in Places(c, l)
         /\ Rep(Take(c, l, 1), next', pre', tail', size', alloc')
         /\ alloc' = [alloc EXCEPT ![c[l][1]] = "held"]
<1> DEFINE N == Len(c[l])
           n == next[l]
<1>1. /\ PointerTypes(next, pre, tail, size, alloc) /\ Linked(c, next, pre) /\ Apart(c)
      /\ EndsAt(c, tail)
  BY RepMeans
<1>2. N \in Nat /\ size[l] = N /\ size[l] > 0
  BY Lengths, LastIs DEF Pop_List
<1> HIDE DEF N
<1>3. N >= 1 /\ 0 \in 0 .. N /\ 1 \in 0 .. N /\ N # 0 /\ 1 \in 1 .. N
  BY <1>2
<1>4. 1 \in Places(c, l)
  BY <1>3 DEF Places, N
<1>5. n = At(c, l, 1) /\ l = At(c, l, 1 - 1)
  <2>1. next[At(c, l, 0)] = At(c, l, 0 + 1)
    BY <1>1, <1>3, NextOf DEF N
  <2>2. QED
    BY <2>1 DEF At
<1>6. next[n] = IF 1 = N THEN NULL ELSE At(c, l, 2)
  <2>1. next[At(c, l, 1)] = IF 1 = N THEN NULL ELSE At(c, l, 1 + 1)
    BY <1>1, <1>3, NextOf, ZenonT(60) DEF N
  <2> HIDE DEF n
  <2>2. 1 + 1 = 2
    OBVIOUS
  <2>3. QED
    BY <1>5, <2>1, <2>2
<1>7. N = 1 => tail[l] = n
  BY <1>1, <1>5 DEF EndsAt, At, N
<1>8. /\ alloc' = [alloc EXCEPT ![n] = "held"]
      /\ size' = [size EXCEPT ![l] = @ - 1]
      /\ IF N > 1 THEN /\ next' = [next EXCEPT ![l] = next[n]]
                       /\ pre' = [pre EXCEPT ![next[n]] = l]
                       /\ tail' = tail
                  ELSE /\ next' = [next EXCEPT ![l] = NULL, ![n] = NULL]
                       /\ pre' = [pre EXCEPT ![n] = NULL]
                       /\ tail' = [tail EXCEPT ![l] = NULL]
  <2>1. (size[l] > 1) <=> (N > 1)
    BY <1>2
  <2>2. ~ (N > 1) => N = 1
    BY <1>2, <1>3
  <2>3. QED
    BY <1>7, <2>1, <2>2 DEF Pop_List
<1>9. n \in Node /\ n = c[l][1] /\ n \in Cell /\ l \in Cell /\ l \in Pointer /\ NULL \in Pointer
  BY <1>3, <1>5, AtIsCell DEF Cell, Pointer, N
<1> HIDE DEF n
<1>10. n # l
  BY <1>9, ListAssumption
<1>11. (N > 1 <=> N # 1) /\ (N # 1 => 2 \in 0 .. N)
  BY <1>2, <1>3
<1>12. next[n] \in Pointer /\ (N # 1 => next[n] \in Cell /\ next[n] # NULL)
  BY <1>6, <1>9, <1>11, AtIsCell DEF Pointer, N
<1>13. size[l] - 1 \in Nat
  BY <1>2
<1>14. PointerTypes(next', pre', tail', size', alloc')
  <2>1. next' \in [Cell -> Pointer] /\ pre' \in [Cell -> Pointer] /\ tail' \in [List -> Pointer]
    BY <1>1, <1>8, <1>9, <1>11, <1>12 DEF PointerTypes
  <2>2. size' \in [List -> Nat] /\ alloc' \in [Node -> {"free", "list", "held"}]
    BY <1>1, <1>8, <1>9, <1>13 DEF PointerTypes
  <2>3. QED
    BY <2>1, <2>2 DEF PointerTypes
<1>15. next'[l] = next[n] /\ \A x \in Cell \ {n, l} : next'[x] = next[x]
  BY <1>1, <1>6, <1>8, <1>9, <1>10, <1>11 DEF PointerTypes
<1>16. /\ next[n] # NULL => pre'[next[n]] = l
       /\ \A x \in Cell \ {n, next[n]} : pre'[x] = pre[x]
  BY <1>1, <1>6, <1>8, <1>9, <1>11, <1>12 DEF PointerTypes
<1>17. /\ IF 1 # N THEN tail'[l] = tail[l]
            ELSE IF 1 = 1 THEN tail'[l] \in {NULL, l} ELSE tail'[l] = l
       /\ \A k \in List \ {l} : tail'[k] = tail[k]
  BY <1>1, <1>8, <1>11 DEF PointerTypes
<1>18. /\ size'[l] = size[l] - 1 /\ \A k \in List \ {l} : size'[k] = size[k]
       /\ alloc'[n] # "list" /\ \A m \in Node \ {n} : alloc'[m] = alloc[m]
  BY <1>1, <1>8, <1>9 DEF PointerTypes
<1>19. Rep(c, next, pre, tail, size, alloc)
  BY DEF Represents
<1>20. Rep(Take(c, l, 1), next', pre', tail', size', alloc')
  <2>1. PICK p \in Places(c, l) : p = 1
    BY <1>4
  <2>2. n = At(c, l, p) /\ l = At(c, l, p - 1)
    BY <1>5, <2>1
  <2>3. /\ IF p # N THEN tail'[l] = tail[l]
             ELSE IF p = 1 THEN tail'[l] \in {NULL, l} ELSE tail'[l] = l
        /\ \A k \in List \ {l} : tail'[k] = tail[k]
    BY <1>17, <2>1
  <2>4. Rep(Take(c, l, p), next', pre', tail', size', alloc')
    BY <1>14, <1>15, <1>16, <1>18, <1>19, <2>2, <2>3, TakeRep DEF N
  <2>5. QED
    BY <2>1, <2>4
<1>21. QED
  BY <1>4, <1>8, <1>9, <1>20

LEMMA LinkedRep ==
  ASSUME NEW c \in Contents, Represents(c), NEW l \in List, NEW s \in List, l # s,
         Linked_List(l, s)
  PROVE  Rep(Join(c, l, s), next', pre', tail', size', alloc')
<1> DEFINE last == IF tail[l] = NULL THEN l ELSE tail[l]
           N == Len(c[l])
           M == Len(c[s])
<1>1. /\ PointerTypes(next, pre, tail, size, alloc) /\ Linked(c, next, pre) /\ Apart(c)
      /\ EndsAt(c, tail)
  BY RepMeans
<1>2. N \in Nat /\ M \in Nat /\ size[l] = N /\ size[s] = M /\ M # 0
  BY Lengths, LastIs DEF Linked_List
<1>3. last = At(c, l, N)
  BY LastIs
<1>4. tail[s] = At(c, s, M)
  BY <1>1, <1>2 DEF EndsAt, At
<1>5. next[At(c, s, M)] = NULL
  BY LastIs
<1>6. tail[l] = NULL => N = 0
  BY <1>1, <1>2, Lengths, ListAssumption DEF EndsAt, Places
<1>7. /\ alloc' = alloc
      /\ pre' = [pre EXCEPT ![next[s]] = last]
      /\ next' = [next EXCEPT ![last] = next[s], ![tail[s]] = NULL, ![s] = NULL]
      /\ tail' = [tail EXCEPT ![l] = tail[s], ![s] = NULL]
      /\ size' = [size EXCEPT ![l] = (IF tail[l] = NULL THEN 0 ELSE @) + size[s], ![s] = 0]
  BY DEF Linked_List
<1> HIDE DEF last, N, M
<1>8. 0 \in 0 .. M /\ M \in 0 .. M /\ N \in 0 .. N /\ 1 \in 0 .. M
  BY <1>2
<1>9. next[s] = At(c, s, 1) /\ At(c, s, 0) = s
  <2>1. next[At(c, s, 0)] = At(c, s, 0 + 1)
    BY <1>1, <1>2, <1>8, NextOf DEF M
  <2>2. QED
    BY <2>1 DEF At
<1>10. last \in Cell /\ tail[s] \in Cell /\ s \in Cell /\ next[s] \in Cell
  BY <1>3, <1>4, <1>8, <1>9, AtIsCell DEF N, M
<1>11. /\ last \in Pointer /\ tail[s] \in Pointer /\ next[s] \in Pointer /\ NULL \in Pointer
  BY <1>10 DEF Pointer
<1>12. last # tail[s] /\ last # s /\ tail[s] # s
  BY <1>1, <1>2, <1>3, <1>4, <1>8, <1>9, AtOnce DEF N, M
<1>13. size' = [size EXCEPT ![l] = size[l] + size[s], ![s] = 0]
  BY <1>1, <1>2, <1>6, <1>7 DEF PointerTypes
<1>14. size[l] + size[s] \in Nat
  BY <1>2
<1>15. PointerTypes(next', pre', tail', size', alloc)
  BY <1>1, <1>7, <1>10, <1>11, <1>13, <1>14 DEF PointerTypes
<1>16. /\ next'[last] = next[s] /\ next'[s] = NULL
       /\ \A x \in Cell \ {last, s} : next'[x] = next[x]
  BY <1>1, <1>4, <1>5, <1>7, <1>10, <1>12 DEF PointerTypes
<1>17. pre'[next[s]] = last /\ \A x \in Cell \ {next[s]} : pre'[x] = pre[x]
  BY <1>1, <1>7, <1>10 DEF PointerTypes
<1>18. tail'[l] = tail[s] /\ tail'[s] = NULL /\ \A k \in List \ {l, s} : tail'[k] = tail[k]
  BY <1>1, <1>7 DEF PointerTypes
<1>19. /\ size'[l] = size[l] + size[s] /\ size'[s] = 0
       /\ \A k \in List \ {l, s} : size'[k] = size[k]
  BY <1>1, <1>13 DEF PointerTypes
<1>20. Rep(c, next, pre, tail, size, alloc) /\ last = At(c, l, Len(c[l])) /\ Len(c[s]) # 0
  BY <1>2, <1>3 DEF Represents, N, M
<1>21. Rep(Join(c, l, s), next', pre', tail', size', alloc)
  BY <1>15, <1>16, <1>17, <1>18, <1>19, <1>20, JoinRep
<1>22. QED
  BY <1>7, <1>21

LEMMA ClearRep ==
  ASSUME NEW c \in Contents, Represents(c), NEW l \in List, Clear_List(l)
  PROVE  /\ Rep(Cleared(c, l), next', pre', tail', size', alloc')
         /\ {n \in Node : alloc'[n] = "held"} = {n \in Node : alloc[n] = "held"}
<1>1. /\ PointerTypes(next, pre, tail, size, alloc) /\ Linked(c, next, pre) /\ Apart(c)
      /\ Allocated(c, alloc)
  BY RepMeans
<1>2. Reached(l) = {c[l][i] : i \in Places(c, l)}
  BY <1>1, ChainIs
<1>3. /\ alloc' = [n \in Node |-> IF n \in Reached(l) THEN "free" ELSE alloc[n]]
      /\ next' = [next EXCEPT ![l] = NULL] /\ pre' = [pre EXCEPT ![l] = NULL]
      /\ tail' = [tail EXCEPT ![l] = NULL] /\ size' = [size EXCEPT ![l] = 0]
  BY DEF Clear_List
<1>4. \A n \in Reached(l) : n \in Node /\ alloc[n] = "list"
  BY <1>1, <1>2, Lengths DEF Allocated, Listed
<1>5. l \in Cell /\ NULL \in Pointer
  BY DEF Cell, Pointer
<1>6. PointerTypes(next', pre', tail', size', alloc')
  BY <1>1, <1>3, <1>5 DEF PointerTypes
<1>7. /\ next'[l] = NULL /\ (\A x \in Cell \ {l} : next'[x] = next[x])
      /\ \A x \in Cell \ {l} : pre'[x] = pre[x]
  BY <1>1, <1>3, <1>5 DEF PointerTypes
<1>8. /\ tail'[l] = NULL /\ (\A k \in List \ {l} : tail'[k] = tail[k])
      /\ size'[l] = 0 /\ \A k \in List \ {l} : size'[k] = size[k]
  BY <1>1, <1>3 DEF PointerTypes
<1>9. \A n \in Node : alloc'[n] = IF n \in Reached(l) THEN "free" ELSE alloc[n]
  BY <1>3
<1>10. \A m \in Node : alloc'[m] = "list" <=>
                         alloc[m] = "list" /\ \A i \in Places(c, l) : c[l][i] # m
  BY <1>2, <1>9
<1>11. {n \in Node : alloc'[n] = "held"} = {n \in Node : alloc[n] = "held"}
  BY <1>4, <1>9
<1>12. Rep(c, next, pre, tail, size, alloc)
  BY DEF Represents
<1>13. Rep(Cleared(c, l), next', pre', tail', size', alloc')
  BY <1>6, <1>7, <1>8, <1>10, <1>12, ClearedRep
<1>14. QED
  BY <1>11, <1>13

LEMMA FreeRep ==
  ASSUME NEW c \in Contents, Represents(c), NEW n \in Node, FreeHeld(n)
  PROVE  Rep(c, next', pre', tail', size', alloc')
BY DEF FreeHeld, Represents, Rep, PointerTypes, Linked, EndsAt, Counted, Allocated

-----------------------------------------------------------------------------
(* Every step moves the nodes as NodeLists says *)

Held == {n \in Node : alloc[n] = "held"}

\* The node n is put in the list l behind its pos-th.
PutIn(c, h, d, h2, l, pos, n) == ~ Listed(c, n) /\ d = Put(c, l, pos, n) /\ h2 = h \ {n}

\* The p-th node of l is taken out; it is held or freed.
TakenOut(c, h, d, h2, l, p, to) ==
  d = Take(c, l, p) /\ h2 = IF to = "held" THEN h \cup {c[l][p]} ELSE h

\* What the call k may do to the sequences c and the held nodes h.
Moved(c, h, d, h2, k) ==
  \/ \E l \in List, n \in Node :
       PutIn(c, h, d, h2, l, Len(c[l]), n) /\ k = <<"Push_List", l, n>>
  \/ \E l \in List, n \in Node : \E pos \in 0 .. Len(c[l]) :
       /\ PutIn(c, h, d, h2, l, pos, n)
       /\ \/ n \notin h /\ k = <<"Insert_Node", l, pos, n>>
          \/ n \in h /\ k = <<"Insert_Exist_Node", l, pos, n>>
  \/ \E l \in List, to \in Gone : \E p \in Places(c, l) :
       /\ TakenOut(c, h, d, h2, l, p, to)
       /\ k \in {<<"Remove_Node_pos", l, p, to>>, <<"Remove_Node_point", l, c[l][p], to>>}
  \/ \E l \in List :
       1 \in Places(c, l) /\ TakenOut(c, h, d, h2, l, 1, "held") /\ k = <<"Pop_List", l>>
  \/ \E l \in List : \E s \in List \ {l} :
       d = Join(c, l, s) /\ h2 = h /\ k = <<"Linked_List", l, s>>
  \/ \E l \in List : d = Cleared(c, l) /\ h2 = h /\ k = <<"Clear_List", l>>
  \/ \E n \in h : d = c /\ h2 = h \ {n} /\ k = <<"free", n>>
  \/ d = c /\ h2 = h /\ k = call

RepNext(d) == Rep(d, next', pre', tail', size', alloc')

\* The node put in is no longer held.
LEMMA PutHeld ==
  ASSUME NEW c \in Contents, Represents(c), NEW n \in Node,
         alloc' = [alloc EXCEPT ![n] = "list"]
  PROVE  Held' = Held \ {n}
<1>1. alloc \in [Node -> {"free", "list", "held"}]
  BY RepMeans DEF PointerTypes
<1>2. QED
  BY <1>1 DEF Held

\* The node taken out is held, or free.
LEMMA TakeHeld ==
  ASSUME NEW c \in Contents, Represents(c), NEW l \in List, NEW p \in Places(c, l),
         NEW to \in Gone, alloc' = [alloc EXCEPT ![c[l][p]] = to]
  PROVE  Held' = IF to = "held" THEN Held \cup {c[l][p]} ELSE Held
<1>1. alloc \in [Node -> {"free", "list", "held"}] /\ Allocated(c, alloc)
  BY RepMeans DEF PointerTypes
<1>2. c[l][p] \in Node /\ alloc[c[l][p]] = "list"
  BY <1>1, Lengths DEF Allocated, Listed
<1>3. to = "held" => Held' = Held \cup {c[l][p]}
  BY <1>1, <1>2 DEF Held
<1>4. to = "free" => Held' = Held
  BY <1>1, <1>2 DEF Held
<1>5. QED
  BY <1>3, <1>4 DEF Gone

LEMMA StepMoves ==
  ASSUME AppendByInsert = FALSE, NEW c \in Contents, Represents(c), [ListNext]_lvars
  PROVE  \E d \in Contents : RepNext(d) /\ Moved(c, Held, d, Held', call')
<1>0. Apart(c)
  BY RepMeans
<1>1. ASSUME NEW l \in List, NEW n \in Node, Push_List(l, n)
      PROVE  \E d \in Contents : RepNext(d) /\ Moved(c, Held, d, Held', call')
  <2> DEFINE N == Len(c[l])
  <2>1. RepNext(Put(c, l, N, n)) /\ ~ Listed(c, n)
    BY <1>1, PushRep DEF RepNext
  <2>2. Held' = Held \ {n} /\ call' = <<"Push_List", l, n>>
    BY <1>1, PutHeld DEF Push_List
  <2>3. N \in 0 .. Len(c[l])
    BY Lengths
  <2>4. Put(c, l, N, n) \in Contents
    BY <1>0, <2>1, <2>3, PutFacts
  <2>5. PutIn(c, Held, Put(c, l, N, n), Held', l, N, n)
    BY <2>1, <2>2 DEF PutIn
  <2>6. Moved(c, Held, Put(c, l, N, n), Held', call')
    BY <2>2, <2>5 DEF Moved
  <2>7. QED
    BY <2>1, <2>4, <2>6
<1>2. ASSUME NEW l \in List, NEW n \in Node, NEW pos \in 0 .. size[l] + 1,
             Insert_Node(l, pos, n) \/ Insert_Exist_Node(l, pos, n)
      PROVE  \E d \in Contents : RepNext(d) /\ Moved(c, Held, d, Held', call')
  <2>0. size[l] \in Nat
    BY RepMeans DEF PointerTypes
  <2>1. pos \in Nat /\ pos < size[l] /\ Clipped(l, pos) = pos
    BY <1>2, <2>0 DEF Insert_Node, Insert_Exist_Node, Clipped
  <2>2. alloc[n] # "list" /\ InsertBehind(l, pos, n)
    BY <1>2, <2>1 DEF Insert_Node, Insert_Exist_Node
  <2>3. \/ n \notin Held /\ call' = <<"Insert_Node", l, pos, n>>
        \/ n \in Held /\ call' = <<"Insert_Exist_Node", l, pos, n>>
    BY <1>2, <2>1 DEF Insert_Node, Insert_Exist_Node, Held
  <2>4. RepNext(Put(c, l, pos, n)) /\ ~ Listed(c, n) /\ pos \in 0 .. Len(c[l])
    BY <2>1, <2>2, InsertRep DEF RepNext
  <2>5. Held' = Held \ {n}
    BY <2>2, PutHeld DEF InsertBehind
  <2>6. Put(c, l, pos, n) \in Contents
    BY <1>0, <2>4, PutFacts
  <2>7. PutIn(c, Held, Put(c, l, pos, n), Held', l, pos, n)
    BY <2>4, <2>5 DEF PutIn
  <2>8. Moved(c, Held, Put(c, l, pos, n), Held', call')
    BY <2>3, <2>4, <2>7 DEF Moved
  <2>9. QED
    BY <2>4, <2>6, <2>8
\* What the three ways to take a node out have in common.
<1>3. ASSUME NEW l \in List, NEW p \in Places(c, l), NEW to \in Gone,
             alloc' = [alloc EXCEPT ![c[l][p]] = to]
      PROVE  Take(c, l, p) \in Contents /\ TakenOut(c, Held, Take(c, l, p), Held', l, p, to)
  <2>1. Held' = IF to = "held" THEN Held \cup {c[l][p]} ELSE Held
    BY <1>3, TakeHeld
  <2>2. Take(c, l, p) \in Contents
    BY <1>0, TakeFacts
  <2>3. QED
    BY <2>1, <2>2 DEF TakenOut
<1>4. ASSUME NEW l \in List, NEW n \in Node, NEW to \in Gone, Remove_Node_point(l, n, to)
      PROVE  \E d \in Contents : RepNext(d) /\ Moved(c, Held, d, Held', call')
  <2>1. PICK p \in Places(c, l) : /\ RepNext(Take(c, l, p))
                                  /\ alloc' = [alloc EXCEPT ![c[l][p]] = to]
                                  /\ n = c[l][p]
    BY <1>4, RemovePointRep DEF RepNext
  <2>2. call' = <<"Remove_Node_point", l, c[l][p], to>>
    BY <1>4, <2>1 DEF Remove_Node_point
  <2>3. Take(c, l, p) \in Contents /\ TakenOut(c, Held, Take(c, l, p), Held', l, p, to)
    BY <1>3, <2>1
  <2>4. Moved(c, Held, Take(c, l, p), Held', call')
    BY <2>2, <2>3 DEF Moved
  <2>5. QED
    BY <2>1, <2>3, <2>4
<1>5. ASSUME NEW l \in List, NEW pos \in 1 .. size[l], NEW to \in Gone,
             Remove_Node_pos(l, pos, to)
      PROVE  \E d \in Contents : RepNext(d) /\ Moved(c, Held, d, Held', call')
  <2>0. pos \in Nat
    OBVIOUS
  <2>1. /\ pos \in Places(c, l) /\ RepNext(Take(c, l, pos))
        /\ alloc' = [alloc EXCEPT ![c[l][pos]] = to]
    BY <1>5, <2>0, RemovePosRep DEF RepNext
  <2>2. call' = <<"Remove_Node_pos", l, pos, to>>
    BY <1>5 DEF Remove_Node_pos
  <2>3. Take(c, l, pos) \in Contents /\ TakenOut(c, Held, Take(c, l, pos), Held', l, pos, to)
    BY <1>3, <2>1
  <2>4. Moved(c, Held, Take(c, l, pos), Held', call')
    BY <2>1, <2>2, <2>3 DEF Moved
  <2>5. QED
    BY <2>1, <2>3, <2>4
<1>6. ASSUME NEW l \in List, Pop_List(l)
      PROVE  \E d \in Contents : RepNext(d) /\ Moved(c, Held, d, Held', call')
  <2>1. /\ 1 \in Places(c, l) /\ RepNext(Take(c, l, 1))
        /\ alloc' = [alloc EXCEPT ![c[l][1]] = "held"]
    BY <1>6, PopRep DEF RepNext
  <2>2. call' = <<"Pop_List", l>> /\ "held" \in Gone
    BY <1>6 DEF Pop_List, Gone
  <2>3. Take(c, l, 1) \in Contents /\ TakenOut(c, Held, Take(c, l, 1), Held', l, 1, "held")
    BY <1>3, <2>1, <2>2
  <2>4. Moved(c, Held, Take(c, l, 1), Held', call')
    BY <2>1, <2>2, <2>3 DEF Moved
  <2>5. QED
    BY <2>1, <2>3, <2>4
<1>7. ASSUME NEW l \in List, Clear_List(l)
      PROVE  \E d \in Contents : RepNext(d) /\ Moved(c, Held, d, Held', call')
  <2>1. RepNext(Cleared(c, l)) /\ Held' = Held /\ call' = <<"Clear_List", l>>
    BY <1>7, ClearRep DEF RepNext, Held, Clear_List
  <2>2. Cleared(c, l) \in Contents
    BY <1>0, ClearedFacts
  <2>3. QED
    BY <2>1, <2>2 DEF Moved
<1>8. ASSUME NEW l \in List, NEW s \in List \ {l}, Linked_List(l, s)
      PROVE  \E d \in Contents : RepNext(d) /\ Moved(c, Held, d, Held', call')
  <2>1. RepNext(Join(c, l, s)) /\ Held' = Held /\ call' = <<"Linked_List", l, s>>
    BY <1>8, LinkedRep DEF RepNext, Held, Linked_List
  <2>2. Join(c, l, s) \in Contents
    BY <1>0, JoinFacts
  <2>3. QED
    BY <2>1, <2>2 DEF Moved
<1>9. ASSUME NEW n \in Node, FreeHeld(n)
      PROVE  \E d \in Contents : RepNext(d) /\ Moved(c, Held, d, Held', call')
  <2>1. RepNext(c)
    BY <1>9, FreeRep DEF RepNext
  <2>2. n \in Held /\ call' = <<"free", n>>
    BY <1>9 DEF Held, FreeHeld
  <2>3. Held' = Held \ {n}
    <3>1. alloc \in [Node -> {"free", "list", "held"}]
      BY RepMeans DEF PointerTypes
    <3>2. QED
      BY <1>9, <3>1 DEF Held, FreeHeld
  <2>4. QED
    BY <2>1, <2>2, <2>3 DEF Moved
<1>10. CASE UNCHANGED lvars
  <2>1. RepNext(c) /\ Held' = Held /\ call' = call
    BY <1>10 DEF lvars, RepNext, Represents, Held
  <2>2. QED
    BY <2>1 DEF Moved
<1>11. QED
  BY <1>1, <1>2, <1>4, <1>5, <1>6, <1>7, <1>8, <1>9, <1>10 DEF ListNext

LEMMA InitRep ==
  ASSUME Init_List
  PROVE  LET c == [l \in List |-> <<>>] IN c \in Contents /\ Represents(c) /\ Held = {}
<1> DEFINE c == [l \in List |-> <<>>]
<1>1. <<>> \in Seq(Node) /\ Len(<<>>) = 0
  OBVIOUS
<1>2. c \in Contents /\ \A l \in List : c[l] = <<>>
  BY <1>1 DEF Contents
<1> HIDE DEF c
<1>3. \A l \in List : Len(c[l]) = 0 /\ Places(c, l) = {} /\ At(c, l, Len(c[l])) = l
  BY <1>1, <1>2 DEF Places, At
<1>4. /\ next = [p \in Cell |-> NULL] /\ pre = [p \in Cell |-> NULL]
      /\ tail = [l \in List |-> NULL] /\ size = [l \in List |-> 0]
      /\ alloc = [n \in Node |-> "free"]
  BY DEF Init_List, Cell
<1>5. PointerTypes(next, pre, tail, size, alloc)
  BY <1>4 DEF PointerTypes, Pointer
<1>6. \A l \in List : l \in Cell
  BY DEF Cell
<1>7. Linked(c, next, pre) /\ Apart(c) /\ EndsAt(c, tail) /\ Counted(c, size)
  BY <1>3, <1>4, <1>6 DEF Linked, Apart, EndsAt, Counted
<1>8. Allocated(c, alloc)
  BY <1>3, <1>4 DEF Allocated, Listed
<1>9. Held = {}
  BY <1>4 DEF Held
<1>10. QED
  BY <1>2, <1>5, <1>7, <1>8, <1>9 DEF Represents, Rep, c

-----------------------------------------------------------------------------
(* The theorems *)

\* The sequences that the walks find.
Chains == [l \in List |-> Chain(l)]

\* What the pointers represent is what the walks find: there is only one such c.
LEMMA OnlyOne == \A c \in Contents : Represents(c) => Chains = c
<1>1. SUFFICES ASSUME NEW c \in Contents, Represents(c) PROVE Chains = c
  OBVIOUS
<1>2. \A l \in List : Chain(l) = c[l]
  BY <1>1, RepMeans, ChainIs
<1>3. c = [l \in List |-> c[l]]
  BY DEF Contents
<1>4. QED
  BY <1>2, <1>3 DEF Chains

LEMMA ListInvStep ==
  ASSUME AppendByInsert = FALSE, ListInv, [ListNext]_lvars
  PROVE  ListInv'
<1>1. PICK c \in Contents : Represents(c)
  BY DEF ListInv
<1>2. PICK d \in Contents : RepNext(d)
  BY <1>1, StepMoves
<1>3. QED
  BY <1>2 DEF ListInv, RepNext, Represents

\* Whatever is called in whatever order, some sequences of nodes are what the pointers,
\* tail, size and the allocation of list_template.c represent.
LEMMA ListInvariant ==
  ASSUME AppendByInsert = FALSE
  PROVE  ListSpec => []ListInv
<1>1. Init_List => ListInv
  BY InitRep DEF ListInv
<1>2. ListInv /\ [ListNext]_lvars => ListInv'
  BY ListInvStep
<1>3. QED
  BY <1>1, <1>2, PTL DEF ListSpec

\* For any lists and nodes: in list_template.c pre leads back over exactly the nodes that
\* next leads over, size counts them and tail is the last of them, after any sequence of
\* Push, Insert, Remove, Pop, Clear and Linked_List.  The Insert functions are not called
\* at or beyond the end: Insert_Node does not survive it, Insert_Exist_Node leaves tail behind.
THEOREM PointersSound ==
  ASSUME AppendByInsert = FALSE
  PROVE  ListSpec => []DoublyLinked
<1>1. ListInv => DoublyLinked
  <2>1. SUFFICES ASSUME NEW c \in Contents, Represents(c) PROVE DoublyLinked
    BY DEF ListInv
  <2>2. SUFFICES ASSUME NEW l \in List
                 PROVE  /\ size[l] = Len(c[l])
                        /\ \A i \in 1 .. Len(c[l]) :
                             pre[c[l][i]] = (IF i = 1 THEN l ELSE c[l][i - 1])
                        /\ IF c[l] = <<>> THEN tail[l] \in {NULL, l}
                                          ELSE tail[l] = c[l][Len(c[l])]
    <3>1. \A l \in List : Chain(l) = c[l]
      BY <2>1, RepMeans, ChainIs
    <3>2. QED
      BY <3>1 DEF DoublyLinked
  <2>3. Linked(c, next, pre) /\ EndsAt(c, tail) /\ Counted(c, size)
    BY <2>1, RepMeans
  <2>4. c[l] \in Seq(Node) /\ Len(c[l]) \in Nat
    BY Lengths
  <2>5. \A i \in 1 .. Len(c[l]) : pre[c[l][i]] = (IF i = 1 THEN l ELSE c[l][i - 1])
    <3>1. TAKE i \in 1 .. Len(c[l])
    <3>2. i \in Places(c, l) /\ i # 0 /\ (i - 1 = 0 <=> i = 1)
      BY <2>4 DEF Places
    <3>3. pre[At(c, l, i)] = At(c, l, i - 1)
      BY <2>3, <3>2 DEF Linked
    <3>4. QED
      BY <3>2, <3>3 DEF At
  <2>6. c[l] = <<>> <=> Len(c[l]) = 0
    BY <2>4
  <2>7. QED
    BY <2>3, <2>5, <2>6 DEF EndsAt, Counted
<1>2. QED
  BY <1>1, ListInvariant, PTL

\* The operators of NodeLists on sequences.
LEMMA SeqOps ==
  ASSUME NEW s, NEW p \in Nat, NEW e
  PROVE  /\ Abstract!InsertAt(s, p + 1, e) = With(s, p, e)
         /\ Abstract!RemoveAt(s, p) = Without(s, p)
<1>1. (p + 1) - 1 = p
  OBVIOUS
<1>2. QED
  BY <1>1, Zenon DEF Abstract!InsertAt, Abstract!RemoveAt, With, Without

\* To append is to put behind the last.
LEMMA AppendIsWith ==
  ASSUME NEW s \in Seq(Node), NEW e \in Node
  PROVE  Append(s, e) = With(s, Len(s), e)
<1> DEFINE r == With(s, Len(s), e)
           t == Append(s, e)
<1>1. Len(s) \in 0 .. Len(s) /\ Len(s) \in Nat
  OBVIOUS
<1>2. /\ r \in Seq(Node) /\ Len(r) = Len(s) + 1
      /\ \A i \in 1 .. Len(s) : r[i] = s[i]
      /\ r[Len(s) + 1] = e
  BY <1>1, WithFacts
<1>3. /\ t \in Seq(Node) /\ Len(t) = Len(s) + 1
      /\ \A i \in 1 .. Len(s) : t[i] = s[i]
      /\ t[Len(s) + 1] = e
  OBVIOUS
<1> HIDE DEF r, t
<1>4. \A i \in 1 .. Len(s) + 1 : i \in 1 .. Len(s) \/ i = Len(s) + 1
  BY <1>1
<1>5. \A i \in 1 .. Len(t) : t[i] = r[i]
  BY <1>2, <1>3, <1>4
<1>6. t = r
  BY <1>2, <1>3, <1>5
<1>7. QED
  BY <1>6 DEF r, t

\* The tail is what is left without the first.
LEMMA TailIsWithout ==
  ASSUME NEW s \in Seq(Node), 1 \in 1 .. Len(s)
  PROVE  Tail(s) = Without(s, 1) /\ Head(s) = s[1] /\ s # <<>>
<1> DEFINE r == Without(s, 1)
           t == Tail(s)
<1>0. s # <<>> /\ Len(s) \in Nat
  OBVIOUS
<1>1. /\ r \in Seq(Node) /\ Len(r) = Len(s) - 1
      /\ \A i \in 1 .. Len(s) - 1 : r[i] = s[i + 1]
  BY WithoutFacts
<1>2. /\ t \in Seq(Node) /\ Len(t) = Len(s) - 1
      /\ \A i \in 1 .. Len(s) - 1 : t[i] = s[i + 1]
  BY <1>0
<1> HIDE DEF r, t
<1>3. t = r
  BY <1>1, <1>2
<1>4. QED
  BY <1>0, <1>3 DEF r, t

\* For any lists and nodes: each function of list_template.c does to the lists what it
\* would do to sequences of nodes, at the place that its name or its arguments say: Push_List
\* at the end, Pop_List at the front, the others at the position or on the node they are
\* given.  No node is lost by one list or shared by two, and a removed one is held by the
\* caller until it is put in a list again or freed.
THEOREM ListsAreSequences ==
  ASSUME AppendByInsert = FALSE
  PROVE  ListSpec => ActsAsSequences
<1>1. Init_List => Abstract!NodeInit
  <2>1. SUFFICES ASSUME Init_List PROVE Chains = [l \in List |-> <<>>] /\ Held = {}
    BY DEF Abstract!NodeInit, Chains, Held, Init_List
  <2>2. QED
    BY <2>1, InitRep, OnlyOne
<1>2. (\A c \in Contents : Represents(c) => Chains = c)'
  BY OnlyOne, PTL
<1>3. ListInv /\ [ListNext]_lvars => [Abstract!NodeNext]_<<Chains, Held, call>>
  <2>1. SUFFICES ASSUME ListInv, [ListNext]_lvars
                 PROVE  [Abstract!NodeNext]_<<Chains, Held, call>>
    OBVIOUS
  <2>2. PICK c \in Contents : Represents(c)
    BY <2>1 DEF ListInv
  <2>3. PICK d \in Contents : RepNext(d) /\ Moved(c, Held, d, Held', call')
    BY <2>1, <2>2, StepMoves
  <2>4. Chains = c
    BY <2>2, OnlyOne
  <2>5. Chains' = d
    BY <1>2, <2>3 DEF RepNext, Represents
  <2>6. \A k \in List : DOMAIN c[k] = Places(c, k)
    BY Lengths DEF Places
  <2>7. ASSUME NEW n, ~ Listed(c, n) PROVE Abstract!InNoList(n)
    BY <2>4, <2>6, <2>7 DEF Listed, Abstract!InNoList, Chains
  <2>8. ASSUME NEW l \in List, NEW n \in Node,
               PutIn(c, Held, d, Held', l, Len(c[l]), n), call' = <<"Push_List", l, n>>
        PROVE  Abstract!NodeNext
    <3>1. d = [c EXCEPT ![l] = Append(c[l], n)]
      <4>1. Append(c[l], n) = With(c[l], Len(c[l]), n)
        BY Lengths, AppendIsWith
      <4>2. d = Put(c, l, Len(c[l]), n)
        BY <2>8 DEF PutIn
      <4>3. QED
        BY <4>1, <4>2, Zenon DEF Put
    <3>2. Abstract!InNoList(n) /\ Held' = Held \ {n}
      BY <2>7, <2>8 DEF PutIn
    <3>3. Abstract!Push(l, n)
      BY <2>4, <2>5, <2>8, <3>1, <3>2 DEF Abstract!Push, Chains, Held
    <3>4. QED
      BY <3>3 DEF Abstract!NodeNext
  <2>9. ASSUME NEW l \in List, NEW n \in Node, NEW pos \in 0 .. Len(c[l]),
               PutIn(c, Held, d, Held', l, pos, n),
               \/ n \notin Held /\ call' = <<"Insert_Node", l, pos, n>>
               \/ n \in Held /\ call' = <<"Insert_Exist_Node", l, pos, n>>
        PROVE  Abstract!NodeNext
    <3>0. Len(c[l]) \in Nat /\ pos \in Nat /\ pos <= Len(c[l])
      BY Lengths
    <3>1. (IF pos > Len(c[l]) THEN Len(c[l]) ELSE pos) + 1 = pos + 1
      BY <3>0
    <3>2. d = [c EXCEPT ![l] = Abstract!InsertAt(c[l], pos + 1, n)]
      <4>1. Abstract!InsertAt(c[l], pos + 1, n) = With(c[l], pos, n)
        BY <3>0, SeqOps
      <4>2. d = Put(c, l, pos, n)
        BY <2>9 DEF PutIn
      <4>3. QED
        BY <4>1, <4>2, Zenon DEF Put
    <3>3. Abstract!InNoList(n) /\ Held' = Held \ {n}
      BY <2>7, <2>9 DEF PutIn
    <3>4. ASSUME NEW by, call' = <<by, l, pos, n>> PROVE Abstract!Insert(l, pos, n, by)
      BY <2>4, <2>5, <3>1, <3>2, <3>3, <3>4 DEF Abstract!Insert, Chains, Held
    <3>5. Abstract!InsertNew(l, pos, n) \/ Abstract!InsertHeld(l, pos, n)
      BY <2>9, <3>4 DEF Abstract!InsertNew, Abstract!InsertHeld, Held
    <3>6. pos \in 0 .. Len(c[l]) + 1
      BY <3>0
    <3>7. QED
      BY <2>4, <3>5, <3>6 DEF Abstract!NodeNext, Chains
  <2>10. ASSUME NEW l \in List, NEW to \in Gone, NEW p \in Places(c, l),
                TakenOut(c, Held, d, Held', l, p, to)
         PROVE  d = [c EXCEPT ![l] = Without(c[l], p)] /\ Abstract!TakeOut(l, p, to)
    <3>1. d = [c EXCEPT ![l] = Without(c[l], p)]
      BY <2>10 DEF TakenOut, Take
    <3>2. p \in Nat
      BY DEF Places
    <3>3. d = [c EXCEPT ![l] = Abstract!RemoveAt(c[l], p)]
      BY <3>1, <3>2, SeqOps
    <3>4. Held' = IF to = "held" THEN Held \cup {c[l][p]} ELSE Held
      BY <2>10 DEF TakenOut
    <3>5. Abstract!TakeOut(l, p, to)
      BY <2>4, <2>5, <3>3, <3>4 DEF Abstract!TakeOut, Chains, Held
    <3>6. QED
      BY <3>1, <3>5
  <2>11. ASSUME NEW l \in List, NEW to \in Gone, NEW p \in Places(c, l),
                TakenOut(c, Held, d, Held', l, p, to),
                call' \in {<<"Remove_Node_pos", l, p, to>>,
                           <<"Remove_Node_point", l, c[l][p], to>>}
         PROVE  Abstract!NodeNext
    <3>1. Abstract!TakeOut(l, p, to)
      BY <2>10, <2>11
    <3>2. Abstract!RemovePos(l, p, to) \/ Abstract!RemovePoint(l, p, to)
      BY <2>4, <2>11, <3>1 DEF Abstract!RemovePos, Abstract!RemovePoint, Chains
    <3>3. p \in DOMAIN c[l] /\ to \in {"held", "free"}
      BY <2>6 DEF Gone
    <3>4. QED
      BY <2>4, <3>2, <3>3 DEF Abstract!NodeNext, Chains
  <2>12. ASSUME NEW l \in List, 1 \in Places(c, l), TakenOut(c, Held, d, Held', l, 1, "held"),
                call' = <<"Pop_List", l>>
         PROVE  Abstract!NodeNext
    <3>1. "held" \in Gone
      BY DEF Gone
    <3>2. d = [c EXCEPT ![l] = Without(c[l], 1)] /\ Held' = Held \cup {c[l][1]}
      BY <2>10, <2>12, <3>1 DEF TakenOut
    <3>3. Tail(c[l]) = Without(c[l], 1) /\ Head(c[l]) = c[l][1] /\ c[l] # <<>>
      BY <2>12, Lengths, TailIsWithout DEF Places
    <3>4. d = [c EXCEPT ![l] = Tail(c[l])]
      BY <3>2, <3>3
    <3>5. Abstract!Pop(l)
      BY <2>4, <2>5, <2>12, <3>2, <3>3, <3>4 DEF Abstract!Pop, Chains, Held
    <3>6. QED
      BY <3>5 DEF Abstract!NodeNext
  <2>13. ASSUME NEW l \in List, NEW s \in List \ {l}, d = Join(c, l, s), Held' = Held,
                call' = <<"Linked_List", l, s>>
         PROVE  Abstract!NodeNext
    <3>1. Abstract!Link(l, s)
      BY <2>4, <2>5, <2>13 DEF Abstract!Link, Chains, Held, Join
    <3>2. QED
      BY <3>1 DEF Abstract!NodeNext
  <2>14. ASSUME NEW l \in List, d = Cleared(c, l), Held' = Held, call' = <<"Clear_List", l>>
         PROVE  Abstract!NodeNext
    <3>1. Abstract!Clear(l)
      BY <2>4, <2>5, <2>14 DEF Abstract!Clear, Chains, Held, Cleared
    <3>2. QED
      BY <3>1 DEF Abstract!NodeNext
  <2>15. ASSUME NEW n \in Held, d = c, Held' = Held \ {n}, call' = <<"free", n>>
         PROVE  Abstract!NodeNext
    <3>1. Abstract!Free(n)
      BY <2>4, <2>5, <2>15 DEF Abstract!Free, Chains, Held
    <3>2. QED
      BY <3>1 DEF Abstract!NodeNext, Held
  <2>16. CASE d = c /\ Held' = Held /\ call' = call
    BY <2>4, <2>5, <2>16
  <2>17. QED
    BY <2>3, <2>8, <2>9, <2>11, <2>12, <2>13, <2>14, <2>15, <2>16 DEF Moved
<1>4. QED
  BY <1>1, <1>3, ListInvariant, PTL
     DEF ListSpec, ActsAsSequences, Abstract!NodeSpec, Chains, Held
=============================================================================
