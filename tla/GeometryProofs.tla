--------------------------- MODULE GeometryProofs ---------------------------
(***************************************************************************)
(* Proofs about GeometrySync, for every set of regions and of objects: that  *)
(* what is stale is marked, that verification tells the truth, that          *)
(* identities are unique and kept, and that a snapshot is of every point.    *)
(*                                                                          *)
(* The last is about buffers alone: FlattenSeq is taken apart into its steps *)
(* (FlattenSteps), and what holds of each step holds of all by CountingUp.   *)
(*                                                                          *)
(* The others rest on what is in hand: until the region that was captured    *)
(* has changed, the snapshot held is what its object is; once it has, either *)
(* a mark or the want of one is on record.                                   *)
(***************************************************************************)
EXTENDS GeometrySync, SequenceTheorems, WellFoundedInduction, TLAPS

\* The snapshot in hand.
HeldIsFresh == reading # None /\ late = {} => held = SnapshotObject(object[reading])
LateIsKnown ==
    reading # None =>
        /\ "marked" \in late => reading \in changed
        /\ "unmarked" \in late => reading \in quiet

\* Identities below the next one are given once.
IdsDiffer == \A r, q \in DOMAIN regions : regions[r].Id = regions[q].Id => r = q

IInv == TypeOK /\ StaleIsMarked /\ HeldIsFresh /\ LateIsKnown /\ IdsDiffer
-----------------------------------------------------------------------------
(* The buffers.                                                              *)

\* A set of numbers that has zero and with each the next has them all.
LEMMA CountingUp ==
    ASSUME NEW T, 0 \in T, \A m \in Nat : m \in T => m + 1 \in T
    PROVE  Nat \subseteq T
<1> DEFINE R == OpToRel(<, Nat)
           U == Nat \ T
<1> SUFFICES ASSUME U # {} PROVE FALSE
  OBVIOUS
<1>1. IsWellFoundedOn(R, Nat)
  BY NatLessThanWellFounded
<1>2. \A x, y \in Nat : y < x => <<y, x>> \in R
  BY DEF OpToRel
<1> HIDE DEF R
<1>3. PICK x \in U : \A y \in U : ~(<<y, x>> \in R)
  BY <1>1, WFMin
<1>4. x \in Nat \ {0} /\ x - 1 \in Nat /\ x - 1 < x /\ (x - 1) + 1 = x
  BY <1>3
<1>5. x - 1 \notin U
  BY <1>2, <1>3, <1>4
<1> QED BY <1>3, <1>4, <1>5

\* The function FlattenSeq is made of is there.
LEMMA FlattenExists ==
    ASSUME NEW s, NEW n \in Nat
    PROVE  \E f : f = [i \in 1..n |-> IF i = 1 THEN s[i] ELSE f[i - 1] \o s[i]]
<1> DEFINE Is(f, m) == f = [i \in 1..m |-> IF i = 1 THEN s[i] ELSE f[i - 1] \o s[i]]
           T == {m \in Nat : \E f : Is(f, m)}
<1>1. 0 \in T
  <2>1. Is([i \in 1..0 |-> s[i]], 0)
    OBVIOUS
  <2> QED BY <2>1
<1>2. ASSUME NEW m \in Nat, m \in T PROVE m + 1 \in T
  <2>1. PICK f : Is(f, m)
    BY <1>2
  <2> DEFINE g == [i \in 1..(m + 1) |-> IF i = 1 THEN s[i] ELSE f[i - 1] \o s[i]]
  <2>2. ASSUME NEW i \in 1..(m + 1), i # 1 PROVE g[i - 1] = f[i - 1]
    <3>1. i - 1 \in 1..m /\ i - 1 \in 1..(m + 1)
      BY <2>2
    <3>2. f[i - 1] = IF i - 1 = 1 THEN s[i - 1] ELSE f[(i - 1) - 1] \o s[i - 1]
      BY <2>1, <3>1
    <3> QED BY <3>1, <3>2
  <2>3. Is(g, m + 1)
    <3>1. [i \in 1..(m + 1) |-> IF i = 1 THEN s[i] ELSE f[i - 1] \o s[i]]
          = [i \in 1..(m + 1) |-> IF i = 1 THEN s[i] ELSE g[i - 1] \o s[i]]
      <4> HIDE DEF g
      <4> QED BY <2>2
    <3> QED BY <3>1
  <2> HIDE DEF Is, g
  <2> QED BY <2>3
<1> HIDE DEF T
<1>3. n \in T
  BY <1>1, <1>2, CountingUp
<1> QED BY <1>3 DEF T

\* FlattenSeq puts the sequences one behind the other.
LEMMA FlattenSteps ==
    ASSUME NEW S, NEW s \in Seq(Seq(S))
    PROVE  \E f : /\ f[0] = <<>> /\ f[Len(s)] = FlattenSeq(s)
                  /\ \A i \in 0..Len(s) : f[i] \in Seq(S)
                  /\ \A i \in 1..Len(s) : f[i] = f[i - 1] \o s[i]
<1>1. Len(s) \in Nat /\ \A i \in 1..Len(s) : s[i] \in Seq(S)
  BY LenProperties, ElementOfSeq
<1> DEFINE Is(g) == g = [i \in 1..Len(s) |-> IF i = 1 THEN s[i] ELSE g[i - 1] \o s[i]]
           flatten == CHOOSE g : Is(g)
           f == [i \in 0..Len(s) |-> IF i = 0 THEN <<>> ELSE flatten[i]]
<1>2. flatten = [i \in 1..Len(s) |-> IF i = 1 THEN s[i] ELSE flatten[i - 1] \o s[i]]
  <2>1. \E g : Is(g)
    BY <1>1, FlattenExists
  <2> HIDE DEF Is
  <2>2. Is(flatten)
    BY <2>1
  <2> QED BY <2>2 DEF Is
<1>3. FlattenSeq(s) = IF Len(s) = 0 THEN s ELSE flatten[Len(s)]
  BY DEF FlattenSeq
<1> HIDE DEF flatten
<1>4. ASSUME NEW i \in 1..Len(s) PROVE f[i] = f[i - 1] \o s[i]
  <2>1. CASE i = 1
    <3>1. f[i] = s[i] /\ f[i - 1] = <<>>
      BY <1>1, <1>2, <2>1
    <3> QED BY <1>1, <3>1, ConcatEmptySeq
  <2>2. CASE i # 1
    <3>1. i - 1 \in 0..Len(s) /\ i - 1 # 0 /\ i \in 0..Len(s) /\ i # 0
      BY <1>1, <2>2
    <3>2. flatten[i] = flatten[i - 1] \o s[i]
      BY <1>2, <2>2
    <3> QED BY <3>1, <3>2
  <2> QED BY <2>1, <2>2
<1>5. f[0] = <<>> /\ f[Len(s)] = FlattenSeq(s)
  <2>1. 0 \in 0..Len(s) /\ Len(s) \in 0..Len(s)
    BY <1>1
  <2>2. Len(s) = 0 => s = <<>>
    BY EmptySeq
  <2> QED BY <1>3, <2>1, <2>2
<1> HIDE DEF f
<1>6. \A i \in 0..Len(s) : f[i] \in Seq(S)
  <2> DEFINE T == {m \in Nat : m <= Len(s) => f[m] \in Seq(S)}
  <2>1. 0 \in T
    <3>1. <<>> \in Seq(S)
      OBVIOUS
    <3> QED BY <1>5, <3>1
  <2>2. ASSUME NEW m \in Nat, m \in T PROVE m + 1 \in T
    <3> SUFFICES ASSUME m + 1 <= Len(s) PROVE f[m + 1] \in Seq(S)
      OBVIOUS
    <3>1. m + 1 \in 1..Len(s) /\ (m + 1) - 1 = m /\ m <= Len(s)
      BY <1>1
    <3>2. f[m + 1] = f[m] \o s[m + 1] /\ f[m] \in Seq(S) /\ s[m + 1] \in Seq(S)
      BY <1>1, <1>4, <2>2, <3>1
    <3> QED BY <3>2, ConcatProperties
  <2> HIDE DEF T
  <2>3. Nat \subseteq T
    BY <2>1, <2>2, CountingUp
  <2> QED BY <1>1, <2>3 DEF T
<1> WITNESS f
<1> QED BY <1>4, <1>5, <1>6

\* A buffer that holds the components of points, w of each, one behind the other.
Holds(b, p, w) ==
    /\ Len(b) = w * Len(p)
    /\ \A k \in 1..Len(p) : \A j \in 1..w : b[w * (k - 1) + j] = p[k][j]

LEMMA HoldsJoin ==
    ASSUME NEW b \in Seq(Int), NEW c \in Seq(Int), NEW p \in Seq(Seq(Int)), NEW q \in Seq(Seq(Int)),
           NEW w \in {3, 4}, Holds(b, p, w), Holds(c, q, w)
    PROVE  b \o c \in Seq(Int) /\ p \o q \in Seq(Seq(Int)) /\ Holds(b \o c, p \o q, w)
<1> DEFINE bc == b \o c
           pq == p \o q
<1>1. /\ bc \in Seq(Int) /\ Len(bc) = Len(b) + Len(c)
      /\ \A i \in 1..Len(b) + Len(c) : bc[i] = IF i <= Len(b) THEN b[i] ELSE c[i - Len(b)]
  BY ConcatProperties
<1>2. /\ pq \in Seq(Seq(Int)) /\ Len(pq) = Len(p) + Len(q)
      /\ \A k \in 1..Len(p) + Len(q) : pq[k] = IF k <= Len(p) THEN p[k] ELSE q[k - Len(p)]
  BY ConcatProperties
<1>3. Len(b) \in Nat /\ Len(c) \in Nat /\ Len(p) \in Nat /\ Len(q) \in Nat
  BY LenProperties
<1> HIDE DEF bc, pq
<1>4. Len(b) = w * Len(p) /\ Len(c) = w * Len(q)
  BY DEF Holds
<1>5. Len(bc) = w * Len(pq)
  BY <1>1, <1>2, <1>3, <1>4
<1>6. ASSUME NEW k \in 1..Len(pq), NEW j \in 1..w PROVE bc[w * (k - 1) + j] = pq[k][j]
  <2> DEFINE i == w * (k - 1) + j
  <2> HIDE DEF i
  <2>1. CASE k <= Len(p)
    <3>1. i \in 1..Len(b) + Len(c) /\ i <= Len(b)
      <4>0. k \in Nat /\ k >= 1 /\ j \in 1..w
        BY <1>2, <1>3
      <4>1. CASE w = 3
        <5>1. Len(b) = 3 * Len(p) /\ i = 3 * (k - 1) + j /\ j \in 1..3
          BY <1>4, <4>0, <4>1 DEF i
        <5> QED BY <1>3, <2>1, <4>0, <5>1
      <4>2. CASE w = 4
        <5>1. Len(b) = 4 * Len(p) /\ i = 4 * (k - 1) + j /\ j \in 1..4
          BY <1>4, <4>0, <4>2 DEF i
        <5> QED BY <1>3, <2>1, <4>0, <5>1
      <4> QED BY <4>1, <4>2
    <3>2. bc[i] = b[i]
      BY <1>1, <3>1
    <3>3. k \in 1..Len(p) /\ pq[k] = p[k]
      BY <1>2, <1>3, <2>1
    <3> QED BY <3>2, <3>3 DEF Holds, i
  <2>2. CASE ~(k <= Len(p))
    <3>1. /\ i \in 1..Len(b) + Len(c) /\ ~(i <= Len(b))
          /\ i - Len(b) = w * ((k - Len(p)) - 1) + j
      <4>1. CASE w = 3
        BY <1>2, <1>3, <1>4, <2>2, <4>1 DEF i
      <4>2. CASE w = 4
        BY <1>2, <1>3, <1>4, <2>2, <4>2 DEF i
      <4> QED BY <4>1, <4>2
    <3>2. k - Len(p) \in 1..Len(q) /\ pq[k] = q[k - Len(p)]
      BY <1>2, <1>3, <2>2
    <3>3. bc[i] = c[i - Len(b)]
      BY <1>1, <3>1
    <3> QED BY <3>1, <3>2, <3>3 DEF Holds, i
  <2> QED BY <2>1, <2>2 DEF i
<1>7. Holds(bc, pq, w)
  BY <1>5, <1>6 DEF Holds
<1> QED BY <1>1, <1>2, <1>7 DEF bc, pq

\* Buffers that hold the points of parts, put one behind the other, hold the points of all.
LEMMA HoldsAll ==
    ASSUME NEW bs \in Seq(Seq(Int)), NEW ps \in Seq(Seq(Seq(Int))), NEW w \in {3, 4},
           Len(bs) = Len(ps), \A i \in 1..Len(bs) : Holds(bs[i], ps[i], w)
    PROVE  Holds(FlattenSeq(bs), FlattenSeq(ps), w)
<1>1. Len(bs) \in Nat /\ \A i \in 1..Len(bs) : bs[i] \in Seq(Int) /\ ps[i] \in Seq(Seq(Int))
  BY LenProperties, ElementOfSeq
<1>2. PICK f : /\ f[0] = <<>> /\ f[Len(bs)] = FlattenSeq(bs)
               /\ \A i \in 0..Len(bs) : f[i] \in Seq(Int)
               /\ \A i \in 1..Len(bs) : f[i] = f[i - 1] \o bs[i]
  BY FlattenSteps
<1> DEFINE PointSeqs == Seq(Int)
<1>3. ps \in Seq(Seq(PointSeqs))
  OBVIOUS
<1>4. \E g : /\ g[0] = <<>> /\ g[Len(ps)] = FlattenSeq(ps)
             /\ \A i \in 0..Len(ps) : g[i] \in Seq(PointSeqs)
             /\ \A i \in 1..Len(ps) : g[i] = g[i - 1] \o ps[i]
  <2> HIDE DEF PointSeqs
  <2> QED BY <1>3, FlattenSteps
<1>5. PICK g : /\ g[0] = <<>> /\ g[Len(ps)] = FlattenSeq(ps)
               /\ \A i \in 0..Len(ps) : g[i] \in Seq(Seq(Int))
               /\ \A i \in 1..Len(ps) : g[i] = g[i - 1] \o ps[i]
  BY <1>4
<1> DEFINE T == {m \in Nat : m <= Len(bs) => Holds(f[m], g[m], w)}
<1>6. 0 \in T
  <2>1. Holds(<<>>, <<>>, w)
    BY DEF Holds
  <2> QED BY <1>2, <1>5, <2>1
<1>7. ASSUME NEW m \in Nat, m \in T PROVE m + 1 \in T
  <2> SUFFICES ASSUME m + 1 <= Len(bs) PROVE Holds(f[m + 1], g[m + 1], w)
    OBVIOUS
  <2>1. m + 1 \in 1..Len(bs) /\ (m + 1) - 1 = m /\ m <= Len(bs) /\ m \in 0..Len(bs)
    BY <1>1
  <2>2. f[m + 1] = f[m] \o bs[m + 1] /\ g[m + 1] = g[m] \o ps[m + 1]
    BY <1>2, <1>5, <2>1
  <2>3. /\ f[m] \in Seq(Int) /\ bs[m + 1] \in Seq(Int)
        /\ g[m] \in Seq(Seq(Int)) /\ ps[m + 1] \in Seq(Seq(Int))
        /\ Holds(f[m], g[m], w) /\ Holds(bs[m + 1], ps[m + 1], w)
    BY <1>1, <1>2, <1>5, <1>7, <2>1
  <2> QED BY <2>2, <2>3, HoldsJoin
<1> HIDE DEF T
<1>8. Nat \subseteq T
  BY <1>6, <1>7, CountingUp
<1> QED BY <1>1, <1>2, <1>5, <1>8 DEF T

\* What _read reads of points is their components.
LEMMA ReadHolds ==
    ASSUME NEW p \in Seq(Seq(Int)), NEW w \in {3, 4}, \A k \in 1..Len(p) : Len(p[k]) = w
    PROVE  Read(p) \in Seq(Int) /\ Holds(Read(p), p, w)
<1>1. Len(p) \in Nat /\ \A k \in 1..Len(p) : p[k] \in Seq(Int)
  BY LenProperties, ElementOfSeq
<1>2. PICK f : /\ f[0] = <<>> /\ f[Len(p)] = FlattenSeq(p)
               /\ \A i \in 0..Len(p) : f[i] \in Seq(Int)
               /\ \A i \in 1..Len(p) : f[i] = f[i - 1] \o p[i]
  BY FlattenSteps
<1> DEFINE Sofar(m) == /\ Len(f[m]) = w * m
                       /\ \A k \in 1..m : \A j \in 1..w : f[m][w * (k - 1) + j] = p[k][j]
           T == {m \in Nat : m <= Len(p) => Sofar(m)}
<1>3. 0 \in T
  BY <1>2
<1>4. ASSUME NEW m \in Nat, m \in T PROVE m + 1 \in T
  <2> SUFFICES ASSUME m + 1 <= Len(p) PROVE Sofar(m + 1)
    OBVIOUS
  <2>1. m + 1 \in 1..Len(p) /\ (m + 1) - 1 = m /\ m <= Len(p) /\ m \in 0..Len(p) /\ m + 1 \in 0..Len(p)
    BY <1>1
  <2> DEFINE a == f[m]
             c == p[m + 1]
             e == f[m + 1]
  <2>2. e = a \o c /\ a \in Seq(Int) /\ c \in Seq(Int) /\ Len(c) = w
    BY <1>1, <1>2, <2>1
  <2>3. Len(a) = w * m /\ \A k \in 1..m : \A j \in 1..w : a[w * (k - 1) + j] = p[k][j]
    BY <1>4, <2>1
  <2> HIDE DEF a, e
  <2>4. /\ Len(e) = Len(a) + Len(c)
        /\ \A i \in 1..Len(a) + Len(c) : e[i] = IF i <= Len(a) THEN a[i] ELSE c[i - Len(a)]
    BY <2>2, ConcatProperties
  <2>5. Len(e) = w * (m + 1)
    BY <2>2, <2>3, <2>4
  <2>6. ASSUME NEW k \in 1..(m + 1), NEW j \in 1..w PROVE e[w * (k - 1) + j] = p[k][j]
    <3>1. CASE k \in 1..m
      <4>1. w * (k - 1) + j \in 1..Len(a) + Len(c) /\ w * (k - 1) + j <= Len(a)
        BY <2>2, <2>3, <3>1
      <4> QED BY <2>3, <2>4, <3>1, <4>1
    <3>2. CASE k = m + 1
      <4>1. /\ w * (k - 1) + j \in 1..Len(a) + Len(c) /\ ~(w * (k - 1) + j <= Len(a))
            /\ (w * (k - 1) + j) - Len(a) = j
        BY <2>2, <2>3, <3>2
      <4> QED BY <2>4, <3>2, <4>1
    <3> QED BY <3>1, <3>2
  <2> QED BY <2>5, <2>6 DEF e
<1> HIDE DEF T
<1>5. Nat \subseteq T
  BY <1>3, <1>4, CountingUp
<1>6. Sofar(Len(p))
  BY <1>1, <1>5 DEF T
<1>7. Len(p) \in 0..Len(p)
  BY <1>1
<1> QED BY <1>2, <1>6, <1>7 DEF Read, Holds

LEMMA FunctionIsSeq ==
    ASSUME NEW S, NEW n \in Nat, NEW f \in [1..n -> S]
    PROVE  f \in Seq(S) /\ Len(f) = n
OBVIOUS

\* Where the components of the k-th point are, among those of n points.
LEMMA Places3 ==
    ASSUME NEW n \in Nat, NEW k \in 1..n, NEW j \in 1..3
    PROVE  /\ 3 * (k - 1) + j \in 1..3 * n
           /\ ((3 * (k - 1) + j) - 1) \div 3 = k - 1 /\ ((3 * (k - 1) + j) - 1) % 3 = j - 1
           /\ 4 * (k - 1) + (j - 1) + 1 = 4 * (k - 1) + j
OBVIOUS

LEMMA Places4 ==
    ASSUME NEW n \in Nat
    PROVE  /\ (3 * n) \div 3 = n /\ (4 * n) \div 4 = n
           /\ \A i \in 1..3 * n : 4 * ((i - 1) \div 3) + ((i - 1) % 3) + 1 \in 1..4 * n
OBVIOUS

\* The position of a point.
LEMMA PositionIs ==
    ASSUME NEW point \in Seq(Int), Len(point) >= 3
    PROVE  /\ Position(point) \in Seq(Int) /\ Len(Position(point)) = 3
           /\ \A j \in 1..3 : Position(point)[j] = point[j]
<1>1. \A i \in 1..3 : point[i] \in Int
  BY LenProperties, ElementOfSeq
<1>2. /\ SubSeq(point, 1, 3) \in Seq(Int) /\ Len(SubSeq(point, 1, 3)) = IF 1 <= 3 THEN 3 - 1 + 1 ELSE 0
      /\ \A j \in 1..3 - 1 + 1 : SubSeq(point, 1, 3)[j] = point[1 + j - 1]
  BY <1>1, SubSeqProperties
<1>3. \A j \in 1..3 : 1 + j - 1 = j /\ j \in 1..3 - 1 + 1
  OBVIOUS
<1> QED BY <1>2, <1>3 DEF Position

PositionsOf(points) == [k \in DOMAIN points |-> Position(points[k])]
Places == {q \in Seq(Int) : Len(q) = 3}

LEMMA PositionsAre ==
    ASSUME NEW points \in Seq(Seq(Int)), \A k \in DOMAIN points : Len(points[k]) >= 3
    PROVE  /\ PositionsOf(points) \in Seq(Places) /\ Len(PositionsOf(points)) = Len(points)
           /\ \A k \in 1..Len(points), j \in 1..3 : PositionsOf(points)[k][j] = points[k][j]
<1>1. Len(points) \in Nat /\ DOMAIN points = 1..Len(points) /\ \A k \in 1..Len(points) : points[k] \in Seq(Int)
  BY LenProperties, ElementOfSeq
<1>2. \A k \in 1..Len(points) :
        Position(points[k]) \in Places /\ \A j \in 1..3 : Position(points[k])[j] = points[k][j]
  BY <1>1, PositionIs DEF Places
<1> HIDE DEF Places
<1>3. PositionsOf(points) \in [1..Len(points) -> Places]
  BY <1>1, <1>2 DEF PositionsOf
<1>4. PositionsOf(points) \in Seq(Places) /\ Len(PositionsOf(points)) = Len(points)
  BY <1>1, <1>3, FunctionIsSeq
<1> QED BY <1>1, <1>2, <1>4 DEF PositionsOf

\* A spline's weights are left out.
LEMMA WeightsGo ==
    ASSUME NEW points \in Seq(Seq(Int)), \A k \in DOMAIN points : Len(points[k]) = 4
    PROVE  /\ DropWeights(Read(points)) \in Seq(Int)
           /\ Holds(DropWeights(Read(points)), PositionsOf(points), 3)
<1> DEFINE b == Read(points)
           d == DropWeights(b)
<1>1. Len(points) \in Nat /\ DOMAIN points = 1..Len(points)
  BY LenProperties
<1>2. b \in Seq(Int) /\ Holds(b, points, 4)
  BY <1>1, ReadHolds
<1>3. /\ Len(PositionsOf(points)) = Len(points)
      /\ \A k \in 1..Len(points), j \in 1..3 : PositionsOf(points)[k][j] = points[k][j]
  <2>1. ASSUME NEW k \in DOMAIN points PROVE Len(points[k]) >= 3
    <3>1. Len(points[k]) = 4
      OBVIOUS
    <3> QED BY <3>1
  <2> QED BY <2>1, PositionsAre
<1> HIDE DEF b
<1>4. Len(b) = 4 * Len(points) /\ Len(b) \div 4 = Len(points)
  <2>1. Len(b) = 4 * Len(points)
    BY <1>2 DEF Holds
  <2> QED BY <1>1, <2>1, Places4
<1>5. d = [i \in 1..3 * Len(points) |-> b[4 * ((i - 1) \div 3) + ((i - 1) % 3) + 1]]
  BY <1>4 DEF DropWeights
<1>6. ASSUME NEW i \in 1..3 * Len(points) PROVE b[4 * ((i - 1) \div 3) + ((i - 1) % 3) + 1] \in Int
  <2>1. 4 * ((i - 1) \div 3) + ((i - 1) % 3) + 1 \in 1..Len(b)
    BY <1>1, <1>4, Places4
  <2> QED BY <1>2, <2>1, ElementOfSeq
<1>7. d \in Seq(Int) /\ Len(d) = 3 * Len(points)
  <2> DEFINE n == 3 * Len(points)
  <2>1. d \in [1..n -> Int] /\ n \in Nat
    BY <1>1, <1>5, <1>6
  <2> HIDE DEF d, n
  <2>2. d \in Seq(Int) /\ Len(d) = n
    BY <2>1, FunctionIsSeq
  <2> QED BY <2>2 DEF n
<1> HIDE DEF d
<1>8. ASSUME NEW k \in 1..Len(points), NEW j \in 1..3 PROVE d[3 * (k - 1) + j] = points[k][j]
  <2> DEFINE i == 3 * (k - 1) + j
  <2>1. i \in 1..3 * Len(points) /\ (i - 1) \div 3 = k - 1 /\ (i - 1) % 3 = j - 1
    BY <1>1, Places3
  <2> HIDE DEF i
  <2>2. d[i] = b[4 * (k - 1) + (j - 1) + 1]
    BY <1>5, <2>1
  <2>3. 4 * (k - 1) + (j - 1) + 1 = 4 * (k - 1) + j /\ j \in 1..4
    BY <1>1, Places3
  <2>4. b[4 * (k - 1) + j] = points[k][j]
    BY <1>2, <2>3 DEF Holds
  <2> QED BY <2>2, <2>3, <2>4 DEF i
<1>9. Holds(d, PositionsOf(points), 3)
  BY <1>3, <1>7, <1>8 DEF Holds
<1> QED BY <1>7, <1>9 DEF d, b

LEMMA FlattenType ==
    ASSUME NEW S, NEW s \in Seq(Seq(S))
    PROVE  FlattenSeq(s) \in Seq(S)
<1>1. Len(s) \in Nat
  BY LenProperties
<1>2. Len(s) \in 0..Len(s)
  BY <1>1
<1> QED BY <1>2, FlattenSteps

\* A buffer that holds points, in groups of three, is the points.
LEMMA GroupedIs ==
    ASSUME NEW b \in Seq(Int), NEW p \in Seq(Places), Holds(b, p, 3)
    PROVE  Grouped(b) = p
<1>1. Len(p) \in Nat /\ \A k \in 1..Len(p) : p[k] \in Places
  BY LenProperties, ElementOfSeq
<1>2. Len(b) = 3 * Len(p) /\ Len(b) \div 3 = Len(p)
  <2>1. Len(b) = 3 * Len(p)
    BY DEF Holds
  <2> QED BY <1>1, <2>1, Places4
<1>3. ASSUME NEW k \in 1..Len(p) PROVE Triple(b, k) = p[k]
  <2> DEFINE t == Triple(b, k)
             q == p[k]
  <2>1. q \in Seq(Int) /\ Len(q) = 3
    BY <1>1 DEF Places
  <2>2. \A i \in (3 * k - 2)..(3 * k) : b[i] \in Int
    <3>1. \A i \in (3 * k - 2)..(3 * k) : i \in 1..Len(b)
      BY <1>1, <1>2
    <3> QED BY <3>1, ElementOfSeq
  <2>3. /\ t \in Seq(Int) /\ Len(t) = 3
        /\ \A j \in 1..3 : t[j] = b[(3 * k - 2) + j - 1]
    <3> DEFINE m == 3 * k - 2
               n == 3 * k
    <3>1. m \in Int /\ n \in Int /\ m <= n /\ n - m + 1 = 3
      BY <1>1
    <3>2. \A i \in m..n : b[i] \in Int
      BY <2>2
    <3> HIDE DEF m, n
    <3>3. /\ SubSeq(b, m, n) \in Seq(Int) /\ Len(SubSeq(b, m, n)) = IF m <= n THEN n - m + 1 ELSE 0
          /\ \A i \in 1..n - m + 1 : SubSeq(b, m, n)[i] = b[m + i - 1]
      BY <3>1, <3>2, SubSeqProperties
    <3>4. t = SubSeq(b, m, n)
      BY DEF Triple, m, n
    <3>5. /\ SubSeq(b, m, n) \in Seq(Int) /\ Len(SubSeq(b, m, n)) = 3
          /\ \A j \in 1..3 : SubSeq(b, m, n)[j] = b[m + j - 1]
      BY <3>1, <3>3
    <3> QED BY <3>4, <3>5 DEF m
  <2>4. ASSUME NEW j \in 1..3 PROVE t[j] = q[j]
    <3>1. (3 * k - 2) + j - 1 = 3 * (k - 1) + j
      BY <1>1
    <3> QED BY <2>3, <3>1 DEF Holds
  <2> HIDE DEF t, q
  <2>5. t = q
    BY <2>1, <2>3, <2>4, SeqEqual
  <2> QED BY <2>5 DEF t, q
<1>4. p = [k \in 1..Len(p) |-> p[k]]
  BY LenProperties
<1> QED BY <1>2, <1>3, <1>4 DEF Grouped

\* What a part adds to the buffer, and where its points are.
PartVertices(o) == [i \in DOMAIN o.parts |-> ReadPart(Capabilities[o.type], o.parts[i])]
PartPositions(o) == [i \in DOMAIN o.parts |-> PositionsOf(o.parts[i].points)]
Vertices(o) == FlattenSeq(PartVertices(o))

LEMMA PartHolds ==
    ASSUME NEW o, WellFormed(o), o.type \in DOMAIN Capabilities, NEW i \in DOMAIN o.parts
    PROVE  /\ PartVertices(o)[i] \in Seq(Int) /\ PartPositions(o)[i] \in Seq(Places)
           /\ Holds(PartVertices(o)[i], PartPositions(o)[i], 3)
<1> DEFINE part == o.parts[i]
           points == part.points
           weighted == o.type \in {"CURVE", "CURVES"} /\ part.form # "bezier"
<1>1. part \in [form : STRING, points : Seq(Seq(Int))]
  <2>1. o.parts \in Seq([form : STRING, points : Seq(Seq(Int))])
    BY DEF WellFormed
  <2> QED BY <2>1, LenProperties, ElementOfSeq
<1>2. /\ part.form = "bare" => points = <<>>
      /\ \A k \in DOMAIN points : Len(points[k]) = IF weighted THEN 4 ELSE 3
  BY DEF WellFormed
<1>3. points \in Seq(Seq(Int))
  BY <1>1
<1>4. Capabilities[o.type] \in {"CURVE", "CURVES"} <=> o.type \in {"CURVE", "CURVES"}
  BY DEF Capabilities
<1>5. PartVertices(o)[i] = IF part.form = "bare" THEN <<>>
                           ELSE IF weighted THEN DropWeights(Read(points)) ELSE Read(points)
  BY <1>4 DEF PartVertices, ReadPart
<1>6. PartPositions(o)[i] = PositionsOf(points)
  BY DEF PartPositions
<1> HIDE DEF points, weighted
<1>7. ASSUME NEW k \in DOMAIN points PROVE Len(points[k]) >= 3
  <2>1. Len(points[k]) = 3 \/ Len(points[k]) = 4
    BY <1>2
  <2> QED BY <2>1
<1>8. PositionsOf(points) \in Seq(Places)
  BY <1>3, <1>7, PositionsAre
<1>9. CASE part.form = "bare"
  <2>1. points = <<>>
    BY <1>2, <1>9
  <2>2. PositionsOf(points) = <<>>
    BY <2>1 DEF PositionsOf
  <2>3. Holds(<<>>, <<>>, 3) /\ <<>> \in Seq(Int)
    BY DEF Holds
  <2> QED BY <1>5, <1>6, <1>8, <1>9, <2>2, <2>3
<1>10. CASE part.form # "bare" /\ weighted
  BY <1>2, <1>3, <1>5, <1>6, <1>8, <1>10, WeightsGo
<1>11. CASE part.form # "bare" /\ ~weighted
  <2>1. \A k \in 1..Len(points) : Len(points[k]) = 3
    BY <1>2, <1>3, <1>11, LenProperties
  <2>2. Read(points) \in Seq(Int) /\ Holds(Read(points), points, 3)
    BY <1>3, <2>1, ReadHolds
  <2>3. /\ Len(PositionsOf(points)) = Len(points)
        /\ \A k \in 1..Len(points), j \in 1..3 : PositionsOf(points)[k][j] = points[k][j]
    BY <1>3, <1>7, PositionsAre
  <2>4. Holds(Read(points), PositionsOf(points), 3)
    BY <2>2, <2>3 DEF Holds
  <2> QED BY <1>5, <1>6, <1>8, <1>11, <2>2, <2>4
<1> QED BY <1>9, <1>10, <1>11

\* The buffer of vertices holds the positions of all points.
LEMMA VerticesHold ==
    ASSUME NEW o, WellFormed(o), o.type \in DOMAIN Capabilities
    PROVE  /\ Vertices(o) \in Seq(Int) /\ Positions(o) \in Seq(Places)
           /\ Holds(Vertices(o), Positions(o), 3)
<1> DEFINE n == Len(o.parts)
           bs == PartVertices(o)
           ps == PartPositions(o)
<1>1. n \in Nat /\ DOMAIN o.parts = 1..n
  BY LenProperties DEF WellFormed
<1>2. bs \in [1..n -> Seq(Int)] /\ ps \in [1..n -> Seq(Places)]
  <2>1. \A i \in 1..n : bs[i] \in Seq(Int) /\ ps[i] \in Seq(Places)
    BY <1>1, PartHolds
  <2>2. bs = [i \in 1..n |-> bs[i]] /\ ps = [i \in 1..n |-> ps[i]]
    BY <1>1 DEF PartVertices, PartPositions
  <2> HIDE DEF bs, ps
  <2> QED BY <2>1, <2>2
<1>3. \A i \in 1..n : Holds(bs[i], ps[i], 3)
  BY <1>1, PartHolds
<1> HIDE DEF n, bs, ps
<1>4. bs \in Seq(Seq(Int)) /\ Len(bs) = n
  BY <1>1, <1>2, FunctionIsSeq
<1>5. ps \in Seq(Seq(Places)) /\ Len(ps) = n
  BY <1>1, <1>2, FunctionIsSeq
<1>6. ps \in Seq(Seq(Seq(Int)))
  <2>1. Places \subseteq Seq(Int)
    BY DEF Places
  <2>2. Seq(Places) \subseteq Seq(Seq(Int))
    BY <2>1, SeqMonotonic
  <2> QED BY <1>5, <2>2, SeqMonotonic
<1>7. Holds(FlattenSeq(bs), FlattenSeq(ps), 3)
  BY <1>3, <1>4, <1>5, <1>6, HoldsAll
<1>8. FlattenSeq(bs) \in Seq(Int) /\ FlattenSeq(ps) \in Seq(Places)
  BY <1>4, <1>5, FlattenType
<1>9. FlattenSeq(ps) = Positions(o)
  BY DEF Positions, ps, PartPositions, PositionsOf
<1> QED BY <1>7, <1>8, <1>9 DEF bs, Vertices

\* What a snapshot of an object is made of.
TakenAs(o, kind) == Captured(kind, Capabilities[o.type], Vertices(o), Read(o.triangles))

LEMMA TrianglesHold ==
    ASSUME NEW o, WellFormed(o)
    PROVE  /\ o.triangles \in Seq(Places)
           /\ Read(o.triangles) \in Seq(Int) /\ Holds(Read(o.triangles), o.triangles, 3)
<1> DEFINE t == o.triangles
<1>1. t \in Seq(Seq(Int)) /\ \A i \in DOMAIN t : Len(t[i]) = 3
  BY DEF WellFormed, Triples
<1> HIDE DEF t
<1>2. Len(t) \in Nat /\ DOMAIN t = 1..Len(t) /\ \A i \in 1..Len(t) : t[i] \in Seq(Int)
  BY <1>1, LenProperties, ElementOfSeq
<1>3. Read(t) \in Seq(Int) /\ Holds(Read(t), t, 3)
  BY <1>1, <1>2, ReadHolds
<1>4. t \in [1..Len(t) -> Places]
  <2>1. t \in [1..Len(t) -> Seq(Int)]
    BY <1>1, LenProperties
  <2> QED BY <1>1, <1>2, <2>1 DEF Places
<1>5. t \in Seq(Places)
  BY <1>2, <1>4, FunctionIsSeq
<1> QED BY <1>3, <1>5 DEF t

LEMMA TakenIs ==
    ASSUME NEW o, WellFormed(o), SnapshotObject(o) # Refused
    PROVE  /\ o.type \in DOMAIN Capabilities
           /\ \E kind \in Kinds : /\ SnapshotObject(o) = Checked(TakenAs(o, kind))
                                  /\ o.type = "MESH" => kind = "Mesh"
<1>1. o.type \in DOMAIN Capabilities
  BY DEF SnapshotObject
<1> DEFINE cap == Capabilities[o.type]
<1>2. cap = "MESH" <=> o.type = "MESH"
  BY <1>1 DEF Capabilities
<1>3. o.type # "MESH" => Read(o.triangles) = <<>>
  BY DEF WellFormed, Read, FlattenSeq
<1>4. SnapshotObject(o) =
        IF cap = "MESH" THEN Checked(Captured("Mesh", cap, Vertices(o), Read(o.triangles)))
        ELSE Checked(Captured("Curve", cap, Vertices(o), <<>>))
  BY <1>1 DEF SnapshotObject, Vertices, PartVertices
<1> HIDE DEF cap
<1>5. CASE o.type = "MESH"
  <2>1. SnapshotObject(o) = Checked(TakenAs(o, "Mesh"))
    BY <1>2, <1>4, <1>5 DEF TakenAs, cap
  <2> QED BY <1>1, <2>1 DEF Kinds
<1>6. CASE o.type # "MESH"
  <2>1. SnapshotObject(o) = Checked(TakenAs(o, "Curve"))
    BY <1>2, <1>3, <1>4, <1>6 DEF TakenAs, cap
  <2> QED BY <1>1, <1>6, <2>1 DEF Kinds
<1> QED BY <1>5, <1>6

\* A snapshot that is not refused is what was taken, and _checked found it whole.
LEMMA SnapshotIs ==
    ASSUME NEW o, WellFormed(o), SnapshotObject(o) # Refused
    PROVE  \E kind \in Kinds :
             /\ SnapshotObject(o) = TakenAs(o, kind)
             /\ Checked(TakenAs(o, kind)) = TakenAs(o, kind)
             /\ o.type = "MESH" => kind = "Mesh"
             /\ InRange(TakenAs(o, kind))
             /\ TakenAs(o, kind) \in Buffers
<1>1. PICK kind \in Kinds : /\ SnapshotObject(o) = Checked(TakenAs(o, kind))
                            /\ o.type = "MESH" => kind = "Mesh"
  BY TakenIs
<1> DEFINE s == TakenAs(o, kind)
<1>2. Checked(s) = s /\ InRange(s)
  <2> HIDE DEF s
  <2> QED BY <1>1 DEF Checked, s
<1>3. Capabilities[o.type] \in {Capabilities[type] : type \in DOMAIN Capabilities}
  BY TakenIs
<1>4. Vertices(o) \in Seq(Int) /\ Read(o.triangles) \in Seq(Int)
  BY TakenIs, VerticesHold, TrianglesHold
<1>5. s \in Buffers
  BY <1>3, <1>4 DEF TakenAs, Captured, Buffers
<1> QED BY <1>1, <1>2, <1>5

LEMMA SnapshotsAreBuffers ==
    ASSUME NEW o \in Objects
    PROVE  SnapshotObject(o) \in Buffers \cup {Refused}
<1>1. WellFormed(o)
  BY GeometryAssumption
<1> QED BY <1>1, SnapshotIs

\* A mesh held as groups of numbers gives the buffers its capture reads.
LEMMA GroupsGiveTheSame ==
    ASSUME NEW o, WellFormed(o), o.type = "MESH"
    PROVE  FromCapturedMesh(o.parts[1].points, o.triangles) = Checked(TakenAs(o, "Mesh"))
<1> DEFINE part == o.parts[1]
           points == part.points
<1>1. Len(o.parts) = 1 /\ DOMAIN o.parts = 1..1 /\ part.form # "bare" /\ Triples(o.triangles)
  BY LenProperties DEF WellFormed
<1>2. 1 \in DOMAIN o.parts
  BY <1>1
<1>3. Triples(points)
  BY <1>2 DEF WellFormed, Triples
<1>4. Capabilities[o.type] = "MESH" /\ o.type \in DOMAIN Capabilities
  BY DEF Capabilities
<1>5. PartVertices(o)[1] = Read(points)
  BY <1>1, <1>2, <1>4 DEF PartVertices, ReadPart
<1>6. Vertices(o) = Read(points)
  <2> DEFINE bs == PartVertices(o)
  <2>1. bs \in [1..1 -> Seq(Int)]
    <3>1. \A i \in 1..1 : bs[i] \in Seq(Int)
      BY <1>1, <1>4, PartHolds
    <3>2. bs = [i \in 1..1 |-> bs[i]]
      BY <1>1 DEF PartVertices
    <3> HIDE DEF bs
    <3> QED BY <3>1, <3>2
  <2> HIDE DEF bs
  <2>2. bs \in Seq(Seq(Int)) /\ Len(bs) = 1
    BY <2>1, FunctionIsSeq
  <2>3. PICK f : /\ f[0] = <<>> /\ f[Len(bs)] = FlattenSeq(bs)
                 /\ \A i \in 0..Len(bs) : f[i] \in Seq(Int)
                 /\ \A i \in 1..Len(bs) : f[i] = f[i - 1] \o bs[i]
    BY <2>2, FlattenSteps
  <2>4. FlattenSeq(bs) = <<>> \o bs[1] /\ bs[1] \in Seq(Int)
    <3>1. 1 \in 1..Len(bs) /\ 1 - 1 = 0 /\ 1 \in 1..1
      BY <2>2
    <3>2. f[1] = f[1 - 1] \o bs[1]
      BY <2>3, <3>1
    <3> QED BY <2>1, <2>2, <2>3, <3>1, <3>2
  <2>5. FlattenSeq(bs) = bs[1]
    BY <2>4, ConcatEmptySeq
  <2> QED BY <1>5, <2>5 DEF bs, Vertices
<1> QED BY <1>1, <1>3, <1>4, <1>6 DEF FromCapturedMesh, TakenAs, Read

\* Every object that can be captured is read whole.
LEMMA EveryPointIsRead ==
    ASSUME NEW o, WellFormed(o), SnapshotObject(o) # Refused
    PROVE  LET s == SnapshotObject(o) IN
           /\ Grouped(s.Vertices) = Positions(o)
           /\ Grouped(s.Triangles) = o.triangles
           /\ \A k \in 1..TriangleCount(s), i \in 1..3 :
                Triple(s.Triangles, k)[i] + 1 \in DOMAIN Positions(o)
           /\ o.type = "MESH" => FromCapturedMesh(o.parts[1].points, o.triangles) = s
<1>1. PICK kind \in Kinds :
        /\ SnapshotObject(o) = TakenAs(o, kind) /\ Checked(TakenAs(o, kind)) = TakenAs(o, kind)
        /\ o.type = "MESH" => kind = "Mesh"
        /\ InRange(TakenAs(o, kind))
  BY SnapshotIs
<1> DEFINE s == SnapshotObject(o)
           v == s.Vertices
           t == s.Triangles
<1>2. v = Vertices(o) /\ t = Read(o.triangles) /\ InRange(s)
  BY <1>1 DEF TakenAs, Captured
<1>3. /\ v \in Seq(Int) /\ Positions(o) \in Seq(Places) /\ Holds(v, Positions(o), 3)
      /\ t \in Seq(Int) /\ o.triangles \in Seq(Places) /\ Holds(t, o.triangles, 3)
  BY <1>2, TakenIs, VerticesHold, TrianglesHold
<1>4. Grouped(v) = Positions(o) /\ Grouped(t) = o.triangles
  BY <1>3, GroupedIs
<1>5. o.type = "MESH" => FromCapturedMesh(o.parts[1].points, o.triangles) = s
  BY <1>1, GroupsGiveTheSame
<1>6. Len(Positions(o)) \in Nat /\ DOMAIN Positions(o) = 1..Len(Positions(o)) /\ Len(o.triangles) \in Nat
  BY <1>3, LenProperties
<1>7. VertexCount(s) = Len(Positions(o)) /\ TriangleCount(s) = Len(o.triangles)
  <2>1. Len(v) = 3 * Len(Positions(o)) /\ Len(t) = 3 * Len(o.triangles)
    BY <1>3 DEF Holds
  <2> QED BY <1>6, <2>1, Places4 DEF VertexCount, TriangleCount
<1>8. DOMAIN t = 1..Len(t) /\ \A i \in 1..Len(t) : t[i] >= 0 /\ t[i] < VertexCount(s) /\ t[i] \in Int
  BY <1>2, <1>3, LenProperties, ElementOfSeq DEF InRange
<1> HIDE DEF s, v, t
<1>9. ASSUME NEW k \in 1..TriangleCount(s), NEW i \in 1..3
      PROVE  Triple(t, k)[i] + 1 \in DOMAIN Positions(o)
  <2>1. k \in 1..Len(o.triangles) /\ k \in Nat
    BY <1>6, <1>7
  <2>2. Triple(t, k) = o.triangles[k]
    <3>1. k \in 1..Len(t) \div 3
      BY <1>7, <2>1 DEF TriangleCount, t
    <3> QED BY <1>4, <3>1 DEF Grouped
  <2>3. o.triangles[k][i] = t[3 * (k - 1) + i]
    BY <1>3, <2>1 DEF Holds
  <2>4. 3 * (k - 1) + i \in 1..Len(t)
    <3>1. 3 * (k - 1) + i \in 1..3 * Len(o.triangles)
      BY <1>6, <2>1, Places3
    <3> QED BY <1>3, <3>1 DEF Holds
  <2> DEFINE c == t[3 * (k - 1) + i]
  <2>5. c \in Int /\ c >= 0 /\ c < Len(Positions(o))
    BY <1>7, <1>8, <2>4
  <2> HIDE DEF c
  <2>6. c + 1 \in 1..Len(Positions(o))
    BY <1>6, <2>5
  <2> QED BY <1>6, <2>2, <2>3, <2>6 DEF c
<1> QED BY <1>4, <1>5, <1>9 DEF s, v, t
-----------------------------------------------------------------------------
(* The digest.                                                               *)

\* Snapshots that passed _checked hold whole vertices and whole triangles, which are in range.
LEMMA CheckedIsWhole ==
    ASSUME NEW s \in Snapshots
    PROVE  /\ s \in Buffers /\ s # None
           /\ Len(s.Vertices) % 3 = 0 /\ Len(s.Triangles) % 3 = 0 /\ InRange(s)
<1>1. PICK o \in Objects : s = SnapshotObject(o) /\ s # Refused
  BY DEF Snapshots
<1>2. s \in Buffers /\ s # None
  BY <1>1, SnapshotsAreBuffers, GeometryAssumption
<1>3. \E t : s = Checked(t)
  BY <1>1, Zenon DEF SnapshotObject
<1>4. PICK t : s = Checked(t)
  BY <1>3
<1>5. s = t /\ Len(t.Vertices) % 3 = 0 /\ Len(t.Triangles) % 3 = 0 /\ InRange(t)
  BY <1>1, <1>4 DEF Checked
<1> QED  BY <1>2, <1>5

\* Where three sequences are in the sequence made of them.
Joins(j, a, b, c) ==
    /\ Len(j) = (Len(a) + Len(b)) + Len(c)
    /\ \A i \in 1..Len(a) : j[i] = a[i]
    /\ \A i \in 1..Len(b) : j[Len(a) + i] = b[i]
    /\ \A i \in 1..Len(c) : j[(Len(a) + Len(b)) + i] = c[i]

LEMMA ThreeParts ==
    ASSUME NEW S, NEW a \in Seq(S), NEW b \in Seq(S), NEW c \in Seq(S)
    PROVE  Joins((a \o b) \o c, a, b, c)
<1> DEFINE ab == a \o b
           abc == ab \o c
<1>1. Len(a) \in Nat /\ Len(b) \in Nat /\ Len(c) \in Nat
  BY LenProperties
<1>0. ab \in Seq(S)
  OBVIOUS
<1>2. /\ Len(ab) = Len(a) + Len(b)
      /\ \A i \in 1..Len(a) + Len(b) : ab[i] = IF i <= Len(a) THEN a[i] ELSE b[i - Len(a)]
  BY ConcatProperties
<1> HIDE DEF ab
<1>3. /\ Len(abc) = Len(ab) + Len(c)
      /\ \A i \in 1..Len(ab) + Len(c) : abc[i] = IF i <= Len(ab) THEN ab[i] ELSE c[i - Len(ab)]
  BY <1>0, ConcatProperties
<1> HIDE DEF abc
<1>4. Len(abc) = (Len(a) + Len(b)) + Len(c)
  BY <1>2, <1>3
<1>5. \A i \in 1..Len(a) : abc[i] = a[i]
  BY <1>1, <1>2, <1>3
<1>6. ASSUME NEW i \in 1..Len(b) PROVE abc[Len(a) + i] = b[i]
  <2>1. /\ Len(a) + i \in 1..Len(a) + Len(b) /\ ~(Len(a) + i <= Len(a)) /\ (Len(a) + i) - Len(a) = i
        /\ Len(a) + i \in 1..Len(ab) + Len(c) /\ Len(a) + i <= Len(ab)
    BY <1>1, <1>2
  <2> QED  BY <1>2, <1>3, <2>1
<1>7. ASSUME NEW i \in 1..Len(c) PROVE abc[(Len(a) + Len(b)) + i] = c[i]
  <2>1. /\ Len(ab) + i \in 1..Len(ab) + Len(c) /\ ~(Len(ab) + i <= Len(ab))
        /\ (Len(ab) + i) - Len(ab) = i
    BY <1>1, <1>2
  <2> QED  BY <1>2, <1>3, <2>1
<1> QED  BY <1>4, <1>5, <1>6, <1>7 DEF abc, ab, Joins

\* Snapshots with as many vertices and the same digest are the same.
LEMMA DigestTells ==
    ASSUME NEW s \in Snapshots, NEW t \in Snapshots,
           VertexCount(s) = VertexCount(t), Digest(s) = Digest(t)
    PROVE  s = t
<1>1. s \in Buffers /\ t \in Buffers /\ Len(s.Vertices) % 3 = 0 /\ Len(t.Vertices) % 3 = 0
  BY CheckedIsWhole
<1>2. ASSUME NEW x \in Buffers
      PROVE  /\ Len(Digest(x)) = (2 + Len(x.Vertices)) + Len(x.Triangles)
             /\ Digest(x)[1] = x.Kind /\ Digest(x)[2] = x.SourceCapability
             /\ \A i \in 1..Len(x.Vertices) : Digest(x)[2 + i] = x.Vertices[i]
             /\ \A i \in 1..Len(x.Triangles) : Digest(x)[(2 + Len(x.Vertices)) + i] = x.Triangles[i]
             /\ Len(x.Vertices) \in Nat /\ Len(x.Triangles) \in Nat
  <2>1. PICK S, a, b, c :
          /\ a \in Seq(S) /\ b \in Seq(S) /\ c \in Seq(S)
          /\ a = <<x.Kind, x.SourceCapability>> /\ b = x.Vertices /\ c = x.Triangles
    <3> DEFINE W == {x.Kind, x.SourceCapability} \cup Int
    <3>1. /\ <<x.Kind, x.SourceCapability>> \in Seq(W)
          /\ x.Vertices \in Seq(W) /\ x.Triangles \in Seq(W)
      BY DEF Buffers
    <3> HIDE DEF W
    <3> QED  BY <3>1, Zenon
  <2>2. Digest(x) = (a \o b) \o c
    BY <2>1, Zenon DEF Digest
  <2>3. Len(a) = 2 /\ a[1] = x.Kind /\ a[2] = x.SourceCapability
    BY <2>1
  <2>4. /\ Len(Digest(x)) = (Len(a) + Len(b)) + Len(c)
        /\ \A i \in 1..Len(a) : Digest(x)[i] = a[i]
        /\ \A i \in 1..Len(b) : Digest(x)[Len(a) + i] = b[i]
        /\ \A i \in 1..Len(c) : Digest(x)[(Len(a) + Len(b)) + i] = c[i]
    <3>1. a \in Seq(S) /\ b \in Seq(S) /\ c \in Seq(S)
      BY <2>1
    <3>2. Joins((a \o b) \o c, a, b, c)
      BY <3>1, ThreeParts, Zenon
    <3> QED  BY <2>2, <3>2, Zenon DEF Joins
  <2>5. Len(b) \in Nat /\ Len(c) \in Nat
    BY <2>1, LenProperties
  <2>6. Digest(x)[1] = x.Kind /\ Digest(x)[2] = x.SourceCapability
    <3>1. 1 \in 1..Len(a) /\ 2 \in 1..Len(a)
      BY <2>3
    <3> QED  BY <2>3, <2>4, <3>1, Zenon
  <2>7. \A i \in 1..Len(b) : Digest(x)[2 + i] = b[i]
    BY <2>3, <2>4, Zenon
  <2>8. \A i \in 1..Len(c) : Digest(x)[(2 + Len(b)) + i] = c[i]
    BY <2>3, <2>4, Zenon
  <2>9. Len(Digest(x)) = (2 + Len(b)) + Len(c)
    BY <2>3, <2>4, Zenon
  <2> QED  BY <2>1, <2>5, <2>6, <2>7, <2>8, <2>9, Zenon
<1>3. Len(s.Vertices) = Len(t.Vertices)
  <2>1. \A m, n \in Nat : m % 3 = 0 /\ n % 3 = 0 /\ m \div 3 = n \div 3 => m = n
    OBVIOUS
  <2> QED  BY <1>1, <1>2, <2>1 DEF VertexCount
<1>4. Len(s.Triangles) = Len(t.Triangles)
  <2>1. (2 + Len(s.Vertices)) + Len(s.Triangles) = (2 + Len(t.Vertices)) + Len(t.Triangles)
    BY <1>1, <1>2, Zenon
  <2>2. /\ Len(s.Vertices) \in Nat /\ Len(s.Triangles) \in Nat /\ Len(t.Triangles) \in Nat
    BY <1>1, <1>2, Zenon
  <2>3. \A k, m, n \in Nat : (2 + k) + m = (2 + k) + n => m = n
    OBVIOUS
  <2> QED  BY <1>3, <2>1, <2>2, <2>3, Zenon
<1>5. s.Kind = t.Kind /\ s.SourceCapability = t.SourceCapability
  BY <1>1, <1>2, Zenon
<1>6. \A i \in 1..Len(s.Vertices) : s.Vertices[i] = t.Vertices[i]
  <2>1. \A i \in 1..Len(s.Vertices) : Digest(s)[2 + i] = s.Vertices[i]
    BY <1>1, <1>2, Zenon
  <2>2. \A i \in 1..Len(t.Vertices) : Digest(t)[2 + i] = t.Vertices[i]
    BY <1>1, <1>2, Zenon
  <2> QED  BY <1>3, <2>1, <2>2, Zenon
<1>7. \A i \in 1..Len(s.Triangles) : s.Triangles[i] = t.Triangles[i]
  <2>1. \A i \in 1..Len(s.Triangles) : Digest(s)[(2 + Len(s.Vertices)) + i] = s.Triangles[i]
    BY <1>1, <1>2, Zenon
  <2>2. \A i \in 1..Len(t.Triangles) : Digest(t)[(2 + Len(t.Vertices)) + i] = t.Triangles[i]
    BY <1>1, <1>2, Zenon
  <2> QED  BY <1>3, <1>4, <2>1, <2>2, Zenon
<1>8. s.Vertices = t.Vertices /\ s.Triangles = t.Triangles
  BY <1>1, <1>3, <1>4, <1>6, <1>7, SeqEqual DEF Buffers
<1> QED  BY <1>1, <1>5, <1>8 DEF Buffers
-----------------------------------------------------------------------------
(* The inductive invariant.                                                  *)

LEMMA InitIInv == Init => IInv
<1> SUFFICES ASSUME Init PROVE IInv
  OBVIOUS
<1> USE DEF Init
<1>1. TypeOK
  <2>1. verify \in BOOLEAN
    BY Zenon
  <2>2. /\ DOMAIN regions = {} /\ changed = {} /\ nextId = 1 /\ warned = "nothing"
        /\ object \in [Regions -> Objects] /\ todo = {} /\ reading = None /\ held = None
        /\ kept = [r \in Regions |-> None] /\ quiet = {} /\ overtaken = {} /\ late = {}
        /\ signals \in 0..MaxSignals
    BY GeometryAssumption
  <2> QED  BY <2>1, <2>2 DEF TypeOK, Committed
<1>2. StaleIsMarked
  BY DEF StaleIsMarked, Changed, Committed
<1>3. HeldIsFresh /\ LateIsKnown
  BY DEF HeldIsFresh, LateIsKnown
<1>4. IdsDiffer
  BY DEF IdsDiffer
<1> QED  BY <1>1, <1>2, <1>3, <1>4 DEF IInv

\* An object that changes leaves a mark, or the want of one, also when it is in hand.
LEMMA BecomesKeeps ==
    ASSUME IInv, NEW r \in Regions, NEW o \in Objects, Becomes(r, o), Signals,
           UNCHANGED <<regions, nextId, verify, warned, hostVars, kept>>
    PROVE  IInv'
<1> USE DEF IInv
<1>1. /\ object' = [object EXCEPT ![r] = o] /\ overtaken' = overtaken
      /\ changed \subseteq changed' /\ quiet \subseteq quiet' /\ r \in changed' \cup quiet'
      /\ changed' \subseteq changed \cup {r} /\ quiet' \subseteq quiet \cup {r}
      /\ reading # r => late' = late
      /\ reading = r =>
           \/ late' = late \cup {"marked"} /\ r \in changed'
           \/ late' = late \cup {"unmarked"} /\ r \in quiet'
  BY DEF Becomes, MarkChanged, Later
<1>2. /\ regions' = regions /\ nextId' = nextId /\ verify' = verify /\ warned' = warned
      /\ todo' = todo /\ reading' = reading /\ held' = held /\ kept' = kept
  BY DEF hostVars
<1>3. TypeOK'
  <2>1. signals' \in 0..MaxSignals
    BY GeometryAssumption DEF Signals, TypeOK
  <2>2. late' \subseteq {"marked", "unmarked"} /\ overtaken' \subseteq Regions
    BY <1>1 DEF TypeOK
  <2>3. object' \in [Regions -> Objects] /\ changed' \subseteq Regions /\ quiet' \subseteq Regions
    BY <1>1 DEF TypeOK
  <2> QED  BY <1>2, <2>1, <2>2, <2>3 DEF TypeOK, Committed, Hash
<1>4. StaleIsMarked'
  <2> SUFFICES ASSUME NEW q \in Regions, q \notin quiet' \cup overtaken', kept'[q] # SnapshotObject(object'[q])
               PROVE  q \in changed' \/ q \notin DOMAIN regions'
    BY DEF StaleIsMarked, Changed, Committed
  <2>1. CASE q = r
    BY <1>1, <2>1
  <2>2. CASE q # r
    BY <1>1, <1>2, <2>2 DEF StaleIsMarked, Changed, Committed, TypeOK
  <2> QED  BY <2>1, <2>2
<1>5. HeldIsFresh'
  BY <1>1, <1>2 DEF HeldIsFresh, TypeOK
<1>6. LateIsKnown'
  <2>1. CASE reading = r
    BY <1>1, <1>2, <2>1 DEF LateIsKnown
  <2>2. CASE reading # r
    BY <1>1, <1>2, <2>2 DEF LateIsKnown
  <2> QED  BY <2>1, <2>2
<1>7. IdsDiffer'
  BY <1>2 DEF IdsDiffer
<1> QED  BY <1>3, <1>4, <1>5, <1>6, <1>7

\* What only marks a region, or begins or ends the host's loop.
LEMMA MarksKeep ==
    ASSUME IInv, changed \subseteq changed', changed' \subseteq Regions, signals' \in 0..MaxSignals,
           todo' \subseteq Regions, reading' \in todo' \cup {None},
           UNCHANGED <<regions, nextId, verify, warned, object, reading, held, kept, quiet, overtaken, late>>
    PROVE  IInv'
<1> USE DEF IInv
<1>1. TypeOK'
  BY DEF TypeOK, Committed, Hash
<1>2. StaleIsMarked'
  BY DEF StaleIsMarked, Changed, Committed
<1>3. HeldIsFresh' /\ LateIsKnown'
  BY DEF HeldIsFresh, LateIsKnown
<1>4. IdsDiffer'
  BY DEF IdsDiffer
<1> QED  BY <1>1, <1>2, <1>3, <1>4

\* What was captured is what the object is.
LEMMA CaptureKeeps == ASSUME IInv, Capture PROVE IInv'
<1> USE DEF IInv
<1>1. PICK r \in todo :
        IF Readable(object[r])
        THEN reading' = r /\ held' = SnapshotObject(object[r]) /\ UNCHANGED todo
        ELSE todo' = {} /\ UNCHANGED <<reading, held>>
  BY DEF Capture
<1>2. /\ reading = None /\ held = None /\ late' = {} /\ r \in Regions /\ object[r] \in Objects
      /\ regions' = regions /\ changed' = changed /\ nextId' = nextId /\ verify' = verify
      /\ warned' = warned /\ object' = object /\ kept' = kept /\ quiet' = quiet /\ overtaken' = overtaken
      /\ signals' = signals
  BY DEF Capture, TypeOK, trackerVars
<1>3. CASE Readable(object[r])
  <2>1. reading' = r /\ held' = SnapshotObject(object[r]) /\ todo' = todo
    BY <1>1, <1>3
  <2>2. SnapshotObject(object[r]) \in Snapshots
    BY <1>2, <1>3 DEF Snapshots, Readable
  <2>3. held' # None /\ reading' # None
    BY <1>2, <2>1, <2>2, CheckedIsWhole, GeometryAssumption
  <2>4. TypeOK'
    <3> QED  BY <1>2, <2>1, <2>2, <2>3 DEF TypeOK, Committed, Hash
  <2>5. StaleIsMarked'
    BY <1>2 DEF StaleIsMarked, Changed, Committed
  <2>6. HeldIsFresh' /\ LateIsKnown'
    BY <1>2, <2>1 DEF HeldIsFresh, LateIsKnown
  <2>7. IdsDiffer'
    BY <1>2 DEF IdsDiffer
  <2> QED  BY <2>4, <2>5, <2>6, <2>7
<1>4. CASE ~Readable(object[r])
  <2>1. todo' = {} /\ reading' = None /\ held' = None
    BY <1>1, <1>2, <1>4
  <2>2. TypeOK'
    <3> QED  BY <1>2, <2>1 DEF TypeOK, Committed, Hash
  <2>3. StaleIsMarked'
    BY <1>2 DEF StaleIsMarked, Changed, Committed
  <2>4. HeldIsFresh' /\ LateIsKnown'
    BY <2>1 DEF HeldIsFresh, LateIsKnown
  <2>5. IdsDiffer'
    BY <1>2 DEF IdsDiffer
  <2> QED  BY <2>2, <2>3, <2>4, <2>5
<1> QED  BY <1>3, <1>4

\* What a commit does, in the words of the proofs.
LEMMA CommitDoes ==
    ASSUME IInv, Commit
    PROVE  /\ reading \in Regions /\ held \in Snapshots /\ held # None
           /\ DOMAIN regions' = DOMAIN regions \cup {reading}
           /\ regions'[reading] = StateOf(reading, held)
           /\ \A q \in DOMAIN regions \ {reading} : regions'[q] = regions[q]
           /\ nextId' = (IF reading \in DOMAIN regions THEN nextId ELSE nextId + 1)
           /\ kept'[reading] = held /\ \A q \in Regions \ {reading} : kept'[q] = kept[q]
<1>1. /\ reading \in Regions /\ held \in Snapshots /\ held # None
      /\ kept \in [Regions -> Snapshots \cup {None}]
  BY DEF IInv, TypeOK, Commit
<1>2. regions' = [q \in DOMAIN regions \cup {reading} |->
                    IF q = reading THEN StateOf(q, held) ELSE regions[q]]
  BY DEF Commit
<1>3. kept' = [kept EXCEPT ![reading] = held] /\ nextId' = IF Committed(reading) THEN nextId ELSE nextId + 1
  BY DEF Commit
<1>4. DOMAIN regions' = DOMAIN regions \cup {reading}
  BY <1>2
<1>5. regions'[reading] = StateOf(reading, held)
  BY <1>2
<1>6. \A q \in DOMAIN regions \ {reading} : regions'[q] = regions[q]
  BY <1>2
<1> QED  BY <1>1, <1>3, <1>4, <1>5, <1>6 DEF Committed

\* A commit brings the region up to what was captured, and gives a new one the next identity.
LEMMA CommitKeeps == ASSUME IInv, Commit PROVE IInv'
<1> DEFINE r == reading
<1> USE DEF IInv
<1>1. /\ r \in Regions /\ held \in Snapshots /\ held # None
      /\ DOMAIN regions' = DOMAIN regions \cup {r} /\ regions'[r] = StateOf(r, held)
      /\ \A q \in DOMAIN regions \ {r} : regions'[q] = regions[q]
      /\ nextId' = (IF r \in DOMAIN regions THEN nextId ELSE nextId + 1)
      /\ kept'[r] = held /\ \A q \in Regions \ {r} : kept'[q] = kept[q]
  BY CommitDoes
<1>2. /\ changed' = changed \ {r} /\ quiet \ {r} \subseteq quiet' /\ quiet' \subseteq quiet \cup {r}
      /\ overtaken \ {r} \subseteq overtaken' /\ overtaken' \subseteq overtaken \cup {r}
      /\ late # {} => r \in quiet' \cup overtaken'
      /\ kept' = [kept EXCEPT ![r] = held] /\ todo' = todo \ {r} /\ reading' = None /\ held' = None
      /\ verify' = verify /\ object' = object /\ late' = late /\ signals' = signals
  BY DEF Commit, Cleared, TypeOK
<1>3. /\ regions'[r].Id = IdOf(r) /\ regions'[r].ContentHash = Hash(held)
      /\ regions'[r].Revision = IF Committed(r) THEN regions[r].Revision + 1 ELSE 1
  BY <1>1 DEF StateOf
<1>4. nextId \in Nat \ {0} /\ nextId' \in Nat \ {0} /\ nextId <= nextId'
  BY <1>1 DEF TypeOK
<1>5. IdOf(r) \in 1..(nextId' - 1)
  BY <1>1, <1>4 DEF IdOf, Committed, TypeOK
<1>6. TypeOK'
  <2>1. warned' \in {"nothing", "broad", "missed"}
    BY DEF Commit, Warning
  <2>2. /\ DOMAIN regions' \subseteq Regions /\ changed' \subseteq Regions /\ nextId' \in Nat \ {0}
        /\ object' \in [Regions -> Objects]
        /\ todo' \subseteq Regions /\ reading' \in todo' \cup {None}
        /\ held' \in Snapshots \cup {None} /\ (held' = None <=> reading' = None)
        /\ kept' \in [Regions -> Snapshots \cup {None}] /\ quiet' \subseteq Regions /\ overtaken' \subseteq Regions
        /\ late' \subseteq {"marked", "unmarked"} /\ signals' \in 0..MaxSignals
    BY <1>1, <1>2, <1>4 DEF TypeOK
  <2>3. verify' \in BOOLEAN
    BY <1>2, Zenon DEF TypeOK
  <2>4. \A q \in Regions : kept'[q] # None <=> q \in DOMAIN regions'
    BY <1>1 DEF TypeOK, Committed
  <2>5. ASSUME NEW q \in DOMAIN regions'
        PROVE  /\ regions'[q].Id \in 1..(nextId' - 1) /\ regions'[q].Revision \in Nat \ {0}
               /\ regions'[q].ContentHash = IF verify' THEN Digest(kept'[q]) ELSE <<>>
    <3>1. CASE q = r
      <4>1. regions'[q].Revision \in Nat \ {0}
        BY <1>3, <3>1 DEF TypeOK, Committed
      <4>2. regions'[q].ContentHash = IF verify' THEN Digest(kept'[q]) ELSE <<>>
        BY <1>1, <1>2, <1>3, <3>1 DEF Hash
      <4> QED  BY <1>3, <1>5, <3>1, <4>1, <4>2
    <3>2. CASE q # r
      <4>1. q \in DOMAIN regions /\ q \in Regions /\ regions'[q] = regions[q] /\ kept'[q] = kept[q]
        BY <1>1, <3>2 DEF TypeOK
      <4>2. regions[q].Id \in 1..(nextId - 1) /\ regions[q].Revision \in Nat \ {0}
        BY <4>1 DEF TypeOK
      <4>3. regions[q].ContentHash = IF verify THEN Digest(kept[q]) ELSE <<>>
        BY <4>1 DEF TypeOK, Hash
      <4> QED  BY <1>2, <1>4, <4>1, <4>2, <4>3
    <3> QED  BY <3>1, <3>2
  <2> QED  BY <2>1, <2>2, <2>3, <2>4, <2>5 DEF TypeOK, Committed, Hash
<1>7. StaleIsMarked'
  <2> SUFFICES ASSUME NEW q \in Regions, q \notin quiet' \cup overtaken', kept'[q] # SnapshotObject(object'[q])
               PROVE  q \in changed' \/ q \notin DOMAIN regions'
    BY DEF StaleIsMarked, Changed, Committed
  <2>1. CASE q = r
    <3>1. late = {}
      BY <1>2, <2>1
    <3>2. held = SnapshotObject(object[r])
      BY <1>1, <3>1, GeometryAssumption DEF HeldIsFresh
    <3> QED  BY <1>1, <1>2, <2>1, <3>2
  <2>2. CASE q # r
    <3>1. q \notin quiet \cup overtaken /\ kept[q] # SnapshotObject(object[q])
      BY <1>1, <1>2, <2>2
    <3>2. q \in changed \/ q \notin DOMAIN regions
      BY <3>1 DEF StaleIsMarked, Changed, Committed
    <3> QED  BY <1>1, <1>2, <2>2, <3>2
  <2> QED  BY <2>1, <2>2
<1>8. HeldIsFresh' /\ LateIsKnown'
  BY <1>2 DEF HeldIsFresh, LateIsKnown
<1>9. IdsDiffer'
  <2>1. \A q \in DOMAIN regions : regions[q].Id \in 1..(nextId - 1)
    BY DEF TypeOK
  <2>2. r \notin DOMAIN regions => \A q \in DOMAIN regions : regions[q].Id # IdOf(r)
    BY <1>4, <2>1 DEF IdOf, Committed
  <2>3. r \in DOMAIN regions => IdOf(r) = regions[r].Id
    BY DEF IdOf, Committed
  <2> QED  BY <1>1, <1>3, <2>2, <2>3 DEF IdsDiffer
<1> QED  BY <1>6, <1>7, <1>8, <1>9

LEMMA NextIInv == ASSUME IInv, [Next]_vars PROVE IInv'
<1>1. ASSUME NEW r \in Regions, Edit(r) PROVE IInv'
  BY <1>1, BecomesKeeps DEF Edit
<1>2. ASSUME NEW r \in Regions, ApplyMeshVertex(r) PROVE IInv'
  BY <1>2, BecomesKeeps DEF ApplyMeshVertex
<1>3. ASSUME NEW r \in Regions, ReportTooBroad(r) PROVE IInv'
  <2>1. changed \subseteq changed' /\ changed' \subseteq Regions /\ signals' \in 0..MaxSignals
    BY <1>3, GeometryAssumption DEF ReportTooBroad, MarkChanged, Signals, IInv, TypeOK
  <2> QED  BY <1>3, <2>1, MarksKeep DEF ReportTooBroad, hostVars, IInv, TypeOK
<1>4. CASE RunLoop
  <2>1. /\ changed \subseteq changed' /\ changed' \subseteq Regions /\ signals' \in 0..MaxSignals
        /\ todo' \subseteq Regions /\ reading' \in todo' \cup {None}
    BY <1>4 DEF RunLoop, ChangedRegions, trackerVars, histories, IInv, TypeOK
  <2> QED  BY <1>4, <2>1, MarksKeep DEF RunLoop, trackerVars, histories
<1>5. ASSUME NEW r \in Regions, ReadUnmarked(r) PROVE IInv'
  <2>1. /\ changed \subseteq changed' /\ changed' \subseteq Regions /\ signals' \in 0..MaxSignals
        /\ todo' \subseteq Regions /\ reading' \in todo' \cup {None}
    BY <1>5, GeometryAssumption DEF ReadUnmarked, Signals, trackerVars, IInv, TypeOK
  <2> QED  BY <1>5, <2>1, MarksKeep DEF ReadUnmarked, trackerVars
<1>6. CASE UNCHANGED vars
  <2>1. /\ changed \subseteq changed' /\ changed' \subseteq Regions /\ signals' \in 0..MaxSignals
        /\ todo' \subseteq Regions /\ reading' \in todo' \cup {None}
    BY <1>6 DEF vars, trackerVars, hostVars, histories, IInv, TypeOK
  <2> QED  BY <1>6, <2>1, MarksKeep DEF vars, trackerVars, hostVars, histories
<1> QED
  BY <1>1, <1>2, <1>3, <1>4, <1>5, <1>6, CaptureKeeps, CommitKeeps DEF Next, Blender, Host

\* The inductive invariant of the tracker, its host and Blender (geometry_sync.py:92-160).
THEOREM GeometryInvariant == Spec => []IInv
<1>1. IInv /\ [Next]_vars => IInv'
  BY NextIInv
<1> QED  BY InitIInv, <1>1, PTL DEF Spec

\* The shapes of the state, for every set of regions and objects (geometry_sync.py:92-96).
THEOREM GeometryTypes == Spec => []TypeOK
<1>1. IInv => TypeOK
  BY DEF IInv
<1> QED  BY GeometryInvariant, <1>1, PTL

\* What the host committed is what its object is, or Changed says so (geometry_sync.py:4-5, 135).
THEOREM StaleIsAlwaysMarked == Spec => []StaleIsMarked
<1>1. IInv => StaleIsMarked
  BY DEF IInv
<1> QED  BY GeometryInvariant, <1>1, PTL

\* Only Commit lets go of a region in hand.
LEMMA CommitsCommit ==
    ASSUME [Next]_vars, NEW r \in Regions, Commits(r)
    PROVE  Commit
<1>1. reading = r /\ reading # None /\ reading' # reading
  BY GeometryAssumption DEF Commits
<1>2. Next
  BY <1>1 DEF vars, hostVars
<1>3. \A q \in Regions : ~Edit(q) /\ ~ApplyMeshVertex(q) /\ ~ReportTooBroad(q) /\ ~ReadUnmarked(q)
  BY <1>1 DEF Edit, ApplyMeshVertex, ReportTooBroad, ReadUnmarked, hostVars
<1>4. ~RunLoop /\ ~Capture
  BY <1>1 DEF RunLoop, Capture
<1> QED  BY <1>2, <1>3, <1>4 DEF Next, Blender, Host

\* What verification warns of is so of the object, but for a change between a capture and its
\* commit (geometry_sync.py:35-37, 145-160).
THEOREM WarningsAreAlwaysTrue == Spec => WarningsAreTrue
<1>1. ASSUME IInv, [Next]_vars, NEW r \in Regions, Commits(r)
      PROVE  /\ warned' = "missed" /\ r \notin overtaken => r \in quiet
             /\ warned' = "missed" /\ late = {} => kept[r] # SnapshotObject(object[r])
             /\ warned' = "broad" /\ late = {} => Alike(SnapshotObject(object[r]), kept[r])
  <2>1. Commit /\ reading = r
    BY <1>1, CommitsCommit DEF Commits
  <2>2. /\ held \in Snapshots /\ held # None
        /\ warned' = IF verify THEN Warning(r, Hash(held)) ELSE "nothing"
    BY <1>1, <2>1, CommitDoes DEF Commit
  <2>3. CASE ~verify \/ ~Committed(r)
    BY <2>2, <2>3 DEF Warning
  <2>4. CASE verify /\ Committed(r)
    <3>1. /\ Hash(held) = Digest(held) /\ regions[r].ContentHash = Digest(kept[r])
          /\ kept[r] \in Snapshots
      BY <1>1, <2>4 DEF IInv, TypeOK, Hash, Committed
    <3>2. /\ warned' = "broad" => Digest(kept[r]) = Digest(held)
          /\ warned' = "missed" => Digest(kept[r]) # Digest(held) /\ r \notin changed
      BY <2>2, <2>4, <3>1 DEF Warning
    <3>3. late = {} => held = SnapshotObject(object[r])
      BY <1>1, <2>1, GeometryAssumption DEF IInv, HeldIsFresh
    <3>4. ASSUME warned' = "broad", late = {} PROVE Alike(SnapshotObject(object[r]), kept[r])
      <4>1. held = kept[r] \/ VertexCount(held) # VertexCount(kept[r])
        BY <2>2, <3>1, <3>2, <3>4, DigestTells
      <4> QED  BY <3>3, <3>4, <4>1 DEF Alike
    <3>5. ASSUME warned' = "missed", late = {} PROVE kept[r] # SnapshotObject(object[r])
      BY <3>2, <3>3, <3>5
    <3>6. ASSUME warned' = "missed", r \notin overtaken PROVE r \in quiet
      <4>1. r \notin changed
        BY <3>2, <3>6
      <4>2. CASE late = {}
        BY <1>1, <2>4, <3>5, <3>6, <4>1, <4>2 DEF IInv, StaleIsMarked, Changed
      <4>3. CASE late # {}
        <5>1. "marked" \in late \/ "unmarked" \in late
          BY <1>1, <4>3 DEF IInv, TypeOK
        <5> QED  BY <1>1, <2>1, <4>1, <5>1, GeometryAssumption DEF IInv, LateIsKnown
      <4> QED  BY <4>2, <4>3
    <3> QED  BY <3>4, <3>5, <3>6
  <2> QED  BY <2>3, <2>4
<1>2. IInv /\ [Next]_vars =>
        [\A r \in Regions : Commits(r) =>
           /\ warned' = "missed" /\ r \notin overtaken => r \in quiet
           /\ warned' = "missed" /\ late = {} => kept[r] # SnapshotObject(object[r])
           /\ warned' = "broad" /\ late = {} => Alike(SnapshotObject(object[r]), kept[r])]_vars
  BY <1>1
<1> QED  BY GeometryInvariant, <1>2, PTL DEF Spec, WarningsAreTrue

\* An identity is given to one region, which keeps it while its revision counts its commits
\* (geometry_sync.py:73-75).
THEOREM IdentitiesAreAlwaysKept == Spec => IdentitiesAreKept
<1>1. ASSUME IInv, IInv', [Next]_vars, NEW r \in DOMAIN regions
      PROVE  /\ r \in DOMAIN regions' /\ regions'[r].Id = regions[r].Id
             /\ regions'[r].Revision = regions[r].Revision + (IF Commits(r) THEN 1 ELSE 0)
  <2>1. r \in Regions /\ regions[r].Revision \in Nat
    BY <1>1 DEF IInv, TypeOK
  <2>2. CASE Commit
    <3>1. /\ DOMAIN regions' = DOMAIN regions \cup {reading} /\ regions'[reading] = StateOf(reading, held)
          /\ \A q \in DOMAIN regions \ {reading} : regions'[q] = regions[q]
      BY <1>1, <2>2, CommitDoes
    <3>2. CASE r = reading
      <4>1. Commits(r)
        BY <2>2, <3>2 DEF Commits, Commit
      <4> QED  BY <3>1, <3>2, <4>1 DEF StateOf, IdOf, Committed
    <3>3. CASE r # reading
      BY <2>1, <3>1, <3>3 DEF Commits
    <3> QED  BY <3>2, <3>3
  <2>3. CASE ~Commit
    <3>1. ~Commits(r)
      BY <1>1, <2>1, <2>3, CommitsCommit
    <3>2. regions' = regions
      BY <1>1, <2>3 DEF Next, Blender, Host, Edit, ApplyMeshVertex, ReportTooBroad, ReadUnmarked,
                        RunLoop, Capture, vars, trackerVars
    <3> QED  BY <2>1, <3>1, <3>2
  <2> QED  BY <2>2, <2>3
<1>2. IInv /\ IInv' /\ [Next]_vars =>
        [/\ \A r, q \in DOMAIN regions' : regions'[r].Id = regions'[q].Id => r = q
         /\ \A r \in DOMAIN regions :
              /\ r \in DOMAIN regions' /\ regions'[r].Id = regions[r].Id
              /\ regions'[r].Revision = regions[r].Revision + (IF Commits(r) THEN 1 ELSE 0)]_vars
  BY <1>1 DEF IInv, IdsDiffer
<1> QED  BY GeometryInvariant, <1>2, PTL DEF Spec, IdentitiesAreKept

\* ReadsEveryPoint, of every object that can be captured: a snapshot of it holds each of its
\* points, in order, without the weights a spline's points carry, and its triangles name vertices
\* it has; a mesh captured as groups of numbers gives the same (geometry.py:95-150).
THEOREM EveryPointIsAlwaysRead == Spec => []ReadsEveryPoint
<1>1. TypeOK => ReadsEveryPoint
  <2> SUFFICES ASSUME TypeOK, NEW r \in Regions, Readable(object[r])
               PROVE  LET s == SnapshotObject(object[r]) IN
                      /\ Grouped(s.Vertices) = Positions(object[r])
                      /\ Grouped(s.Triangles) = object[r].triangles
                      /\ \A k \in 1..TriangleCount(s), i \in 1..3 :
                           Triple(s.Triangles, k)[i] + 1 \in DOMAIN Positions(object[r])
                      /\ object[r].type = "MESH" =>
                           FromCapturedMesh(object[r].parts[1].points, object[r].triangles) = s
    BY DEF ReadsEveryPoint
  <2>1. object[r] \in Objects
    BY DEF TypeOK
  <2>2. WellFormed(object[r])
    BY <2>1, GeometryAssumption
  <2>3. SnapshotObject(object[r]) # Refused
    BY DEF Readable
  <2> QED BY <2>2, <2>3, EveryPointIsRead
<1>2. IInv => ReadsEveryPoint
  BY <1>1 DEF IInv
<1> QED  BY GeometryInvariant, <1>2, PTL
=============================================================================
