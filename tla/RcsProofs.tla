------------------------------ MODULE RcsProofs ------------------------------
(* What the edits of RCS files keep (src/rcsfile.c, src/updater.c): the lists   *)
(* and the table of struct rcsfile, the file written from them and the short    *)
(* import of rcsfile_send_details(), for every finite set of revisions and      *)
(* every contents.                                                              *)
EXTENDS Rcs, SequenceTheorems, FiniteSetTheorems, TLAPS

\* A set of natural numbers has a least member.
LEMMA LeastNatural ==
    ASSUME NEW S \in SUBSET Nat, S # {}
    PROVE  \E x \in S : \A y \in S : x <= y
<1>1. PICK x \in S : \A y \in S : <<y, x>> \notin OpToRel(<, Nat)
  BY NatLessThanWellFounded, WFMin
<1>2. \A y \in S : ~(y < x)
  BY <1>1 DEF OpToRel
<1> QED BY <1>2

\* Induction over the natural numbers.
LEMMA NatSet ==
    ASSUME NEW T, 0 \in T, \A n \in Nat : n \in T => n + 1 \in T
    PROVE  Nat \subseteq T
<1> DEFINE S == Nat \ T
<1> SUFFICES ASSUME S # {} PROVE FALSE
  OBVIOUS
<1>1. PICK x \in S : \A y \in S : x <= y
  BY LeastNatural
<1>2. x \in Nat /\ x # 0 /\ x - 1 \in Nat /\ x - 1 \notin S
  BY <1>1
<1>3. x \in T
  BY <1>2
<1> QED BY <1>3

\* A function on the first natural numbers is a sequence.
LEMMA FunctionSeq ==
    ASSUME NEW S, NEW k \in Nat, NEW f \in [1..k -> S]
    PROVE  f \in Seq(S) /\ Len(f) = k
<1>1. f \in Seq(S)
  BY SeqDef
<1>2. Len(f) \in Nat /\ DOMAIN f = 1..Len(f) /\ DOMAIN f = 1..k
  BY <1>1, LenProperties
<1> QED BY <1>1, <1>2

-----------------------------------------------------------------------------
(* The order of the revisions *)

\* A revision is on the trunk or on a branch; a delta is never None.
LEMMA RevTypes ==
    ASSUME NEW r \in Revs
    PROVE  /\ r \in Seq(Nat) /\ r # None
           /\ Len(r) = 2 \/ Len(r) >= 4
<1>1. r \in Seq(Nat) /\ \E n \in 1..Len(r) : Len(r) = 2 * n
  BY RevsAssumption
<1>2. PICK n \in 1..Len(r) : Len(r) = 2 * n
  BY <1>1
<1>3. Len(r) \in Nat /\ n \in Nat /\ n > 0
  BY <1>1
<1>4. Len(r) = 2 \/ Len(r) >= 4
  BY <1>2, <1>3
<1>5. r # None
  BY <1>4 DEF None
<1> QED BY <1>1, <1>4, <1>5

\* Sequences agree up to a place.
LEMMA SameUpTo ==
    ASSUME NEW p \in Seq(Nat), NEW q \in Seq(Nat), NEW k \in Nat, k <= Len(p), k <= Len(q)
    PROVE  SubSeq(p, 1, k) = SubSeq(q, 1, k) <=> \A j \in 1..k : p[j] = q[j]
<1> DEFINE a == SubSeq(p, 1, k)
           b == SubSeq(q, 1, k)
<1>1. /\ a \in Seq(Nat) /\ Len(a) = k /\ \A j \in 1..k : a[j] = p[j]
      /\ b \in Seq(Nat) /\ Len(b) = k /\ \A j \in 1..k : b[j] = q[j]
  <2>1. a \in Seq(Nat) /\ Len(a) = k /\ \A j \in 1..k : a[j] = p[j]
    OBVIOUS
  <2>2. b \in Seq(Nat) /\ Len(b) = k /\ \A j \in 1..k : b[j] = q[j]
    OBVIOUS
  <2> QED BY <2>1, <2>2
<1> HIDE DEF a, b
<1>2. a = b <=> \A j \in 1..k : a[j] = b[j]
  BY <1>1, SeqEqual
<1> QED BY <1>1, <1>2 DEF a, b

\* What rcsnum_cmp() says: the first difference decides, and what ends there is
\* the smaller one.
LessAt(p, q, i) ==
    /\ i \in 1..Len(q) /\ i <= Len(p) + 1
    /\ \A j \in 1..(i - 1) : p[j] = q[j]
    /\ i <= Len(p) => p[i] < q[i]
\* rcsnum_cmp() in terms of the first difference.
LEMMA RevLessAt ==
    ASSUME NEW p \in Seq(Nat), NEW q \in Seq(Nat)
    PROVE  RevLess(p, q) <=> \E i \in 1..Len(q) : LessAt(p, q, i)
<1>0. Len(p) \in Nat /\ Len(q) \in Nat /\ DOMAIN p = 1..Len(p) /\ DOMAIN q = 1..Len(q)
  OBVIOUS
<1>1. ASSUME IsStrictPrefix(p, q)
      PROVE  LessAt(p, q, Len(p) + 1) /\ Len(p) + 1 \in 1..Len(q)
  <2>1. Len(p) <= Len(q) /\ p # q /\ \A j \in 1..Len(p) : p[j] = q[j]
    BY <1>0, <1>1, SameUpTo DEF IsStrictPrefix, IsPrefix
  <2>2. Len(p) # Len(q)
    BY <2>1, SeqEqual
  <2>3. Len(p) + 1 \in 1..Len(q) /\ (Len(p) + 1) - 1 = Len(p) /\ ~(Len(p) + 1 <= Len(p))
    <3> DEFINE a == Len(p)
               b == Len(q)
    <3>1. a \in Nat /\ b \in Nat /\ a <= b /\ a # b
      BY <1>0, <2>1, <2>2
    <3> HIDE DEF a, b
    <3>2. a + 1 \in 1..b /\ (a + 1) - 1 = a /\ ~(a + 1 <= a)
      BY <3>1
    <3> QED BY <3>2 DEF a, b
  <2> QED BY <1>0, <2>1, <2>3 DEF LessAt
<1>2. ASSUME NEW i \in DOMAIN p \cap DOMAIN q, p[i] < q[i],
             SubSeq(p, 1, i - 1) = SubSeq(q, 1, i - 1)
      PROVE  LessAt(p, q, i) /\ i \in 1..Len(q)
  <2>1. i - 1 \in Nat /\ i - 1 <= Len(p) /\ i - 1 <= Len(q)
    BY <1>0
  <2>2. \A j \in 1..(i - 1) : p[j] = q[j]
    BY <1>2, <2>1, SameUpTo
  <2> QED BY <1>0, <1>2, <2>2 DEF LessAt
<1>3. ASSUME NEW i \in 1..Len(q), LessAt(p, q, i)
      PROVE  RevLess(p, q)
  <2>1. CASE i = Len(p) + 1
    <3>0. i - 1 = Len(p)
      BY <1>0, <2>1
    <3>1. Len(p) <= Len(q) /\ Len(p) # Len(q) /\ \A j \in 1..Len(p) : p[j] = q[j]
      <4>1. \A j \in 1..(i - 1) : p[j] = q[j]
        BY <1>3 DEF LessAt
      <4> DEFINE a == Len(p)
                 b == Len(q)
      <4>2. a \in Nat /\ b \in Nat /\ i \in 1..b /\ i = a + 1
        BY <1>0, <2>1
      <4> HIDE DEF a, b
      <4>3. a <= b /\ a # b
        BY <4>2
      <4> QED BY <3>0, <4>1, <4>3 DEF a, b
    <3>2. SubSeq(p, 1, Len(p)) = SubSeq(q, 1, Len(p)) /\ p # q
      <4>1. Len(p) <= Len(p) /\ Len(p) \in Nat
        BY <1>0
      <4>2. SubSeq(p, 1, Len(p)) = SubSeq(q, 1, Len(p))
        BY <3>1, <4>1, SameUpTo
      <4> QED BY <3>1, <4>2
    <3>3. IsStrictPrefix(p, q)
      BY <3>1, <3>2 DEF IsStrictPrefix, IsPrefix
    <3> QED BY <3>3 DEF RevLess
  <2>2. CASE i # Len(p) + 1
    <3>1. i \in DOMAIN p \cap DOMAIN q /\ p[i] < q[i] /\ i - 1 \in Nat
          /\ i - 1 <= Len(p) /\ i - 1 <= Len(q)
      BY <1>0, <1>3, <2>2 DEF LessAt
    <3>2. SubSeq(p, 1, i - 1) = SubSeq(q, 1, i - 1)
      BY <1>3, <3>1, SameUpTo DEF LessAt
    <3> QED BY <3>1, <3>2 DEF RevLess
  <2> QED BY <2>1, <2>2
<1> QED BY <1>1, <1>2, <1>3 DEF RevLess

\* It is a linear order, as a set of pairs both upwards and downwards.
LEMMA RevLessIrreflexive ==
    ASSUME NEW p \in Seq(Nat)
    PROVE  ~RevLess(p, p)
<1>1. ASSUME NEW i \in 1..Len(p), LessAt(p, p, i)
      PROVE  FALSE
  <2>1. i <= Len(p) /\ p[i] \in Nat
    OBVIOUS
  <2>2. p[i] < p[i]
    BY <1>1, <2>1 DEF LessAt
  <2> QED BY <2>1, <2>2
<1> QED BY <1>1, RevLessAt

\* What is less than the lesser is less: rcsnum_cmp() decides by the first difference.
LEMMA RevLessTransitive ==
    ASSUME NEW p \in Seq(Nat), NEW q \in Seq(Nat), NEW r \in Seq(Nat),
           RevLess(p, q), RevLess(q, r)
    PROVE  RevLess(p, r)
<1>1. PICK i \in 1..Len(q) : LessAt(p, q, i)
  BY RevLessAt
<1>2. PICK k \in 1..Len(r) : LessAt(q, r, k)
  BY RevLessAt
<1>0. /\ Len(p) \in Nat /\ Len(q) \in Nat /\ Len(r) \in Nat
      /\ \A j \in 1..Len(p) : p[j] \in Nat
      /\ \A j \in 1..Len(q) : q[j] \in Nat
      /\ \A j \in 1..Len(r) : r[j] \in Nat
  OBVIOUS
<1>3. CASE i < k
  <2>1. i \in 1..Len(r) /\ q[i] = r[i] /\ \A j \in 1..(i - 1) : q[j] = r[j]
    BY <1>0, <1>2, <1>3 DEF LessAt
  <2>2. LessAt(p, r, i)
    BY <1>0, <1>1, <2>1 DEF LessAt
  <2> QED BY <2>1, <2>2, RevLessAt
<1>4. CASE i = k
  <2>1. \A j \in 1..(i - 1) : p[j] = q[j] /\ q[j] = r[j]
    BY <1>1, <1>2, <1>4 DEF LessAt
  <2>2. i <= Len(p) => p[i] < q[i] /\ q[i] < r[i]
    BY <1>0, <1>1, <1>2, <1>4 DEF LessAt
  <2>3. i <= Len(p) => p[i] < r[i]
    <3> HAVE i <= Len(p)
    <3>1. p[i] \in Nat /\ q[i] \in Nat /\ r[i] \in Nat
      BY <1>0, <1>1, <1>2, <1>4
    <3>2. p[i] < q[i] /\ q[i] < r[i]
      BY <2>2
    <3>3. \A x, y, z \in Nat : x < y /\ y < z => x < z
      OBVIOUS
    <3> QED BY <3>1, <3>2, <3>3
  <2>4. LessAt(p, r, i)
    BY <1>1, <1>2, <1>4, <2>1, <2>3 DEF LessAt
  <2> QED BY <1>2, <1>4, <2>4, RevLessAt
<1>5. CASE k < i
  <2>1. k <= Len(p) /\ k <= Len(q) /\ p[k] = q[k] /\ \A j \in 1..(k - 1) : p[j] = q[j]
    <3>1. k \in Nat /\ k >= 1 /\ i \in Nat /\ i <= Len(q)
      BY <1>0
    <3>2. i <= Len(p) + 1 /\ \A j \in 1..(i - 1) : p[j] = q[j]
      BY <1>1 DEF LessAt
    <3>3. k <= Len(p) /\ k <= Len(q) /\ k \in 1..(i - 1)
      BY <1>0, <1>5, <3>1, <3>2
    <3>4. \A j \in 1..(k - 1) : j \in 1..(i - 1)
      BY <1>5, <3>1
    <3> QED BY <3>2, <3>3, <3>4
  <2>2. q[k] < r[k] /\ \A j \in 1..(k - 1) : q[j] = r[j]
    BY <1>2, <2>1 DEF LessAt
  <2>3. k \in 1..Len(r) /\ k <= Len(p) + 1
    BY <1>0, <2>1
  <2>4. \A j \in 1..(k - 1) : p[j] = r[j]
    BY <2>1, <2>2
  <2>5. p[k] < r[k]
    BY <2>1, <2>2
  <2>6. LessAt(p, r, k)
    BY <2>3, <2>4, <2>5 DEF LessAt
  <2> QED BY <2>3, <2>6, RevLessAt
<1> QED BY <1>3, <1>4, <1>5

\* rcsnum_cmp() tells two different revisions apart.
LEMMA RevLessTotal ==
    ASSUME NEW p \in Seq(Nat), NEW q \in Seq(Nat), p # q
    PROVE  RevLess(p, q) \/ RevLess(q, p)
<1> DEFINE a == Len(p)
           b == Len(q)
           D == {i \in Nat : i >= 1 /\ (i > a \/ i > b \/ p[i] # q[i])}
<1>0. /\ a \in Nat /\ b \in Nat
      /\ \A j \in 1..a : p[j] \in Nat
      /\ \A j \in 1..b : q[j] \in Nat
  OBVIOUS
<1>1. a + 1 \in D
  BY <1>0
<1>2. PICK i \in D : \A y \in D : i <= y
  <2>1. D \in SUBSET Nat /\ D # {}
    BY <1>1
  <2> HIDE DEF D
  <2> QED BY <2>1, LeastNatural
<1>3. \A j \in 1..(i - 1) : j <= a /\ j <= b /\ p[j] = q[j]
  <2> SUFFICES ASSUME NEW j \in 1..(i - 1)
               PROVE  j <= a /\ j <= b /\ p[j] = q[j]
    OBVIOUS
  <2>1. j \in Nat /\ j >= 1 /\ j < i
    OBVIOUS
  <2>2. j \notin D
    BY <1>2, <2>1
  <2> QED BY <1>0, <2>1, <2>2
<1>4. i <= a + 1 /\ i <= b + 1 /\ i \in Nat /\ i >= 1
  <2>1. i <= a + 1
    BY <1>1, <1>2
  <2>2. b + 1 \in D
    BY <1>0
  <2> QED BY <1>0, <1>2, <2>1, <2>2
<1>5. ~(i > a /\ i > b)
  <2> SUFFICES ASSUME i > a, i > b PROVE FALSE
    OBVIOUS
  <2>1. a = b /\ i = a + 1
    BY <1>0, <1>4
  <2>2. \A j \in 1..a : p[j] = q[j]
    BY <1>0, <1>3, <2>1
  <2> QED BY <2>1, <2>2, SeqEqual
<1>6. ASSUME i <= b, i <= a => p[i] < q[i]
      PROVE  RevLess(p, q)
  <2>1. i \in 1..Len(q)
    BY <1>0, <1>4, <1>6
  <2>2. LessAt(p, q, i)
    BY <1>3, <1>4, <1>6, <2>1 DEF LessAt
  <2> QED BY <2>1, <2>2, RevLessAt
<1>7. ASSUME i <= a, i <= b => q[i] < p[i]
      PROVE  RevLess(q, p)
  <2>1. i \in 1..Len(p)
    BY <1>0, <1>4, <1>7
  <2>2. LessAt(q, p, i)
    BY <1>3, <1>4, <1>7, <2>1 DEF LessAt
  <2> QED BY <2>1, <2>2, RevLessAt
<1>8. CASE i <= a /\ i <= b
  <2>1. p[i] # q[i] /\ p[i] \in Nat /\ q[i] \in Nat
    BY <1>0, <1>4, <1>8
  <2>2. p[i] < q[i] \/ q[i] < p[i]
    BY <2>1
  <2> QED BY <1>6, <1>7, <1>8, <2>2
<1>9. CASE ~(i <= a /\ i <= b)
  BY <1>0, <1>4, <1>5, <1>6, <1>7, <1>9
<1> QED BY <1>8, <1>9

-----------------------------------------------------------------------------
(* A set in its order *)

\* The members of a set that come before one of them, in an order given as a
\* set of pairs.
Earlier(S, R, x) == {y \in S : <<y, x>> \in R}
\* The order is linear on a set.
LinearOn(S, R) ==
    /\ \A x \in S : <<x, x>> \notin R
    /\ \A x, y, z \in S : <<x, y>> \in R /\ <<y, z>> \in R => <<x, z>> \in R
    /\ \A x, y \in S : x = y \/ <<x, y>> \in R \/ <<y, x>> \in R
\* Their number tells where a member belongs.
LEMMA EarlierCount ==
    ASSUME NEW S, IsFiniteSet(S), NEW R, LinearOn(S, R), NEW x \in S
    PROVE  /\ IsFiniteSet(Earlier(S, R, x))
           /\ Cardinality(Earlier(S, R, x)) \in 0..(Cardinality(S) - 1)
           /\ \A y \in S : <<x, y>> \in R =>
                Cardinality(Earlier(S, R, x)) < Cardinality(Earlier(S, R, y))
<1> DEFINE E(y) == Earlier(S, R, y)
<1>1. \A y \in S : IsFiniteSet(E(y)) /\ Cardinality(E(y)) \in Nat
                   /\ Cardinality(E(y)) <= Cardinality(S)
  <2> SUFFICES ASSUME NEW y \in S
               PROVE  IsFiniteSet(E(y)) /\ Cardinality(E(y)) \in Nat
                      /\ Cardinality(E(y)) <= Cardinality(S)
    OBVIOUS
  <2>1. E(y) \in SUBSET S
    BY DEF Earlier
  <2> HIDE DEF E
  <2> QED BY <2>1, FS_Subset, FS_CardinalityType
<1>2. Cardinality(E(x)) # Cardinality(S)
  <2>1. E(x) \in SUBSET S /\ x \notin E(x)
    BY DEF Earlier, LinearOn
  <2> HIDE DEF E
  <2> QED BY <2>1, FS_Subset
<1>3. \A y \in S : <<x, y>> \in R => Cardinality(E(x)) < Cardinality(E(y))
  <2> SUFFICES ASSUME NEW y \in S, <<x, y>> \in R
               PROVE  Cardinality(E(x)) < Cardinality(E(y))
    OBVIOUS
  <2>1. E(x) \in SUBSET E(y) /\ x \notin E(x) /\ x \in E(y)
    BY DEF Earlier, LinearOn
  <2> HIDE DEF E
  <2>2. Cardinality(E(x)) <= Cardinality(E(y)) /\ Cardinality(E(x)) # Cardinality(E(y))
    BY <1>1, <2>1, FS_Subset
  <2> QED BY <1>1, <2>2
<1>4. Cardinality(S) \in Nat
  BY FS_CardinalityType
<1> HIDE DEF E
<1>5. Cardinality(E(x)) \in 0..(Cardinality(S) - 1)
  BY <1>1, <1>2, <1>4
<1> QED BY <1>1, <1>3, <1>5 DEF E

\* A sequence that has at each place the member that belongs there is the set
\* in its order.
Ranked(q, S, R) ==
    /\ q = [i \in 1..Cardinality(S) |-> q[i]]
    /\ \A i \in 1..Cardinality(S) :
         (\E x \in S : Cardinality(Earlier(S, R, x)) = i - 1) =>
           q[i] \in S /\ Cardinality(Earlier(S, R, q[i])) = i - 1
\* OrderOf, FileOf: what Ranked says lists the set once, in its order.
LEMMA Enumerated ==
    ASSUME NEW S, IsFiniteSet(S), NEW R, LinearOn(S, R), NEW q, Ranked(q, S, R)
    PROVE  /\ q \in Seq(S) /\ Len(q) = Cardinality(S) /\ Range(q) = S
           /\ \A i, j \in DOMAIN q : i < j => <<q[i], q[j]>> \in R
<1> DEFINE n == Cardinality(S)
           rank == [x \in S |-> Cardinality(Earlier(S, R, x))]
<1>1. n \in Nat
  BY FS_CardinalityType
<1>3. /\ \A x \in S : rank[x] \in 0..(n - 1)
      /\ \A x, y \in S : <<x, y>> \in R => rank[x] < rank[y]
  BY EarlierCount
<1>4. \A i \in 1..n : (\E x \in S : rank[x] = i - 1) => q[i] \in S /\ rank[q[i]] = i - 1
  BY DEF Ranked
<1>0. q = [i \in 1..n |-> q[i]]
  BY DEF Ranked
<1>5. rank \in [S -> 0..(n - 1)]
  BY <1>3
<1> HIDE DEF n, rank
<1>6. \A x, y \in S : rank[x] = rank[y] => x = y
  <2> SUFFICES ASSUME NEW x \in S, NEW y \in S, rank[x] = rank[y]
               PROVE  x = y
    OBVIOUS
  <2>1. rank[x] \in Int /\ rank[y] \in Int
    BY <1>3
  <2>2. ~(rank[x] < rank[y]) /\ ~(rank[y] < rank[x])
    BY <2>1
  <2>3. <<x, y>> \notin R /\ <<y, x>> \notin R
    BY <1>3, <2>2
  <2> QED BY <2>3 DEF LinearOn
<1>7. IsFiniteSet(0..(n - 1)) /\ Cardinality(0..(n - 1)) = n
  BY <1>1, FS_Interval
<1>8. rank \in Injection(S, 0..(n - 1))
  BY <1>5, <1>6 DEF Injection, IsInjective
<1>9. rank \in Surjection(S, 0..(n - 1))
  BY <1>7, <1>8, FS_Injection DEF n
<1>10. \A i \in 1..n : \E x \in S : rank[x] = i - 1
  <2> SUFFICES ASSUME NEW i \in 1..n
               PROVE  \E x \in S : rank[x] = i - 1
    OBVIOUS
  <2>1. i - 1 \in 0..(n - 1)
    BY <1>1
  <2> QED BY <1>9, <2>1 DEF Surjection
<1>11. \A i \in 1..n : rank[q[i]] = i - 1 /\ q[i] \in S
  BY <1>4, <1>10
<1>2. q \in Seq(S) /\ Len(q) = n /\ DOMAIN q = 1..n
  <2>1. q \in [1..n -> S]
    BY <1>0, <1>11
  <2> QED BY <1>1, <2>1, FunctionSeq
<1>12. Range(q) = S
  <2>1. Range(q) \subseteq S
    BY <1>2, <1>11 DEF Range
  <2>2. ASSUME NEW x \in S
        PROVE  x \in Range(q)
    <3> DEFINE i == rank[x] + 1
    <3>1. i \in 1..n /\ i - 1 = rank[x]
      BY <1>1, <1>3
    <3> HIDE DEF i
    <3>2. rank[q[i]] = rank[x] /\ q[i] \in S
      BY <1>11, <3>1
    <3>3. q[i] = x
      BY <1>6, <3>2
    <3> QED BY <1>2, <3>1, <3>3 DEF Range
  <2> QED BY <2>1, <2>2
<1>13. \A i, j \in DOMAIN q : i < j => <<q[i], q[j]>> \in R
  <2> SUFFICES ASSUME NEW i \in 1..n, NEW j \in 1..n, i < j
               PROVE  <<q[i], q[j]>> \in R
    BY <1>2
  <2> DEFINE x == q[i]
             y == q[j]
  <2>1. x \in S /\ y \in S /\ rank[x] = i - 1 /\ rank[y] = j - 1
    BY <1>11
  <2> HIDE DEF x, y
  <2>2. rank[x] < rank[y] /\ ~(rank[y] < rank[x]) /\ rank[x] # rank[y]
    BY <1>1, <2>1
  <2>3. <<y, x>> \notin R /\ x # y
    BY <1>3, <2>1, <2>2
  <2>4. <<x, y>> \in R
    BY <2>1, <2>3 DEF LinearOn
  <2> QED BY <2>4 DEF x, y
<1> QED BY <1>2, <1>12, <1>13 DEF n


\* A finite set has a first member.
LEMMA FirstOf ==
    ASSUME NEW S, IsFiniteSet(S), S # {}, NEW R, LinearOn(S, R)
    PROVE  \E x \in S : \A y \in S : x = y \/ <<x, y>> \in R
<1> DEFINE rank == [x \in S |-> Cardinality(Earlier(S, R, x))]
           N == {rank[x] : x \in S}
<1>1. \A x \in S : rank[x] \in Nat /\ \A y \in S : <<x, y>> \in R => rank[x] < rank[y]
  <2> SUFFICES ASSUME NEW x \in S
               PROVE  rank[x] \in Nat /\ \A y \in S : <<x, y>> \in R => rank[x] < rank[y]
    OBVIOUS
  <2>1. /\ Cardinality(Earlier(S, R, x)) \in 0..(Cardinality(S) - 1)
        /\ \A y \in S : <<x, y>> \in R =>
             Cardinality(Earlier(S, R, x)) < Cardinality(Earlier(S, R, y))
    BY EarlierCount
  <2>2. Cardinality(S) \in Nat
    BY FS_CardinalityType
  <2> QED BY <2>1, <2>2
<1> HIDE DEF rank
<1>2. N \in SUBSET Nat /\ N # {}
  BY <1>1
<1>3. PICK n \in N : \A m \in N : n <= m
  BY <1>2, LeastNatural
<1>4. PICK x \in S : n = rank[x]
  BY <1>3
<1>5. \A y \in S : rank[x] <= rank[y]
  BY <1>3, <1>4
<1>6. \A y \in S : <<y, x>> \notin R
  <2> SUFFICES ASSUME NEW y \in S, <<y, x>> \in R PROVE FALSE
    OBVIOUS
  <2>1. rank[y] < rank[x] /\ rank[x] <= rank[y] /\ rank[x] \in Nat /\ rank[y] \in Nat
    BY <1>1, <1>5
  <2> QED BY <2>1
<1> QED BY <1>6 DEF LinearOn

\* A part of a set keeps its order.
LEMMA LinearOnSubset ==
    ASSUME NEW S, NEW R, LinearOn(S, R), NEW T \in SUBSET S
    PROVE  LinearOn(T, R)
BY DEF LinearOn

\* The order of the revisions, upwards and downwards.
Up == {w \in Seq(Nat) \X Seq(Nat) : RevLess(w[1], w[2])}
Down == {w \in Seq(Nat) \X Seq(Nat) : RevLess(w[2], w[1])}
\* rcsnum_cmp() read as the two sets of pairs.
LEMMA UpDown ==
    ASSUME NEW p \in Seq(Nat), NEW q \in Seq(Nat)
    PROVE  (<<p, q>> \in Up <=> RevLess(p, q)) /\ (<<p, q>> \in Down <=> RevLess(q, p))
BY DEF Up, Down
\* rcsnum_cmp() is a linear order on the numbers, upwards and downwards.
LEMMA RevLinear ==
    LinearOn(Seq(Nat), Up) /\ LinearOn(Seq(Nat), Down)
<1>1. \A x \in Seq(Nat) : <<x, x>> \notin Up /\ <<x, x>> \notin Down
  BY UpDown, RevLessIrreflexive
<1>2. \A x, y, z \in Seq(Nat) :
        /\ <<x, y>> \in Up /\ <<y, z>> \in Up => <<x, z>> \in Up
        /\ <<x, y>> \in Down /\ <<y, z>> \in Down => <<x, z>> \in Down
  BY UpDown, RevLessTransitive
<1>3. \A x, y \in Seq(Nat) :
        /\ x = y \/ <<x, y>> \in Up \/ <<y, x>> \in Up
        /\ x = y \/ <<x, y>> \in Down \/ <<y, x>> \in Down
  BY UpDown, RevLessTotal
<1> QED BY <1>1, <1>2, <1>3 DEF LinearOn

\* What is newer than all others ...
LEMMA NewestIn ==
    ASSUME NEW S \in SUBSET Seq(Nat), IsFiniteSet(S), S # {}
    PROVE  Newest(S) \in S /\ \A s \in S : s = Newest(S) \/ RevLess(s, Newest(S))
<1>1. LinearOn(S, Down)
  BY RevLinear, LinearOnSubset
<1>2. PICK x \in S : \A y \in S : x = y \/ <<x, y>> \in Down
  BY <1>1, FirstOf
<1>3. \A y \in S : y = x \/ RevLess(y, x)
  BY <1>2, UpDown
<1> QED BY <1>3 DEF Newest

\* ... and what is older.
LEMMA OldestIn ==
    ASSUME NEW S \in SUBSET Seq(Nat), IsFiniteSet(S), S # {}
    PROVE  \E x \in S : \A s \in S : x = s \/ RevLess(x, s)
<1>1. LinearOn(S, Up)
  BY RevLinear, LinearOnSubset
<1>2. PICK x \in S : \A y \in S : x = y \/ <<x, y>> \in Up
  BY <1>1, FirstOf
<1> QED BY <1>2, UpDown

\* Of two revisions exactly one is the smaller.
LEMMA RevLessOneWay ==
    ASSUME NEW p \in Seq(Nat), NEW q \in Seq(Nat), RevLess(p, q)
    PROVE  ~RevLess(q, p) /\ p # q
BY RevLessTransitive, RevLessIrreflexive

-----------------------------------------------------------------------------
(* Sorted sequences *)

\* Each member of a sequence comes before the later ones.
OrderedBy(q, R) == \A i, j \in DOMAIN q : i < j => <<q[i], q[j]>> \in R

\* InsertAt puts one member at its place and moves the ones behind it.
LEMMA InsertedAt ==
    ASSUME NEW T, NEW q \in Seq(T), NEW x \in T, NEW k \in 1..(Len(q) + 1)
    PROVE  LET s == InsertAt(q, k, x)
           IN /\ s \in Seq(T) /\ Len(s) = Len(q) + 1
              /\ \A i \in 1..(Len(q) + 1) :
                   s[i] = IF i < k THEN q[i] ELSE IF i = k THEN x ELSE q[i - 1]
              /\ Range(s) = Range(q) \cup {x}
<1> DEFINE s == InsertAt(q, k, x)
           n == Len(q)
           a == SubSeq(q, 1, k - 1)
           b == SubSeq(q, k, n)
<1>0. n \in Nat /\ k \in Nat /\ DOMAIN q = 1..n /\ \A i \in 1..n : q[i] \in T
  OBVIOUS
<1>1. a \in Seq(T) /\ Len(a) = k - 1 /\ \A i \in 1..(k - 1) : a[i] = q[i]
  BY <1>0
<1>2. b \in Seq(T) /\ Len(b) = n - k + 1 /\ \A i \in 1..(n - k + 1) : b[i] = q[k + i - 1]
  BY <1>0
<1>3. s = (a \o <<x>>) \o b
  BY DEF InsertAt
<1> HIDE DEF a, b, s
<1>4. /\ a \o <<x>> \in Seq(T) /\ Len(a \o <<x>>) = k
      /\ \A i \in 1..k : (a \o <<x>>)[i] = IF i < k THEN q[i] ELSE x
  BY <1>0, <1>1
<1> DEFINE c == a \o <<x>>
<1> HIDE DEF c
<1>5. /\ s \in Seq(T) /\ Len(s) = k + (n - k + 1)
      /\ \A i \in 1..(k + (n - k + 1)) : s[i] = IF i <= k THEN c[i] ELSE b[i - k]
  <2>1. /\ c \in Seq(T) /\ Len(c) = k /\ s = c \o b
        /\ b \in Seq(T) /\ Len(b) = n - k + 1
    BY <1>2, <1>3, <1>4 DEF c
  <2>2. /\ c \o b \in Seq(T) /\ Len(c \o b) = Len(c) + Len(b)
        /\ \A i \in 1..(Len(c) + Len(b)) :
             (c \o b)[i] = IF i <= Len(c) THEN c[i] ELSE b[i - Len(c)]
    BY <2>1, ConcatProperties
  <2> QED BY <2>1, <2>2
<1>6. Len(s) = n + 1
  BY <1>0, <1>5
<1>7. ASSUME NEW i \in 1..(n + 1)
      PROVE  s[i] = IF i < k THEN q[i] ELSE IF i = k THEN x ELSE q[i - 1]
  <2>1. i \in 1..(k + (n - k + 1))
    BY <1>0
  <2>2. CASE i <= k
    <3>1. s[i] = c[i]
      BY <1>5, <2>1, <2>2
    <3>2. i \in 1..k
      BY <1>0, <2>2
    <3>3. c[i] = IF i < k THEN q[i] ELSE x
      BY <1>4, <3>2 DEF c
    <3> QED BY <1>0, <2>2, <3>1, <3>3
  <2>3. CASE i > k
    <3>1. i - k \in 1..(n - k + 1) /\ k + (i - k) - 1 = i - 1
      BY <1>0, <2>3
    <3>2. s[i] = b[i - k] /\ b[i - k] = q[i - 1]
      BY <1>0, <1>2, <1>5, <2>1, <2>3, <3>1
    <3> QED BY <2>3, <3>2
  <2> QED BY <1>0, <2>2, <2>3
<1>8. Range(s) = Range(q) \cup {x}
  <2>0. DOMAIN s = 1..(n + 1)
    BY <1>5, <1>6
  <2>1. Range(s) \subseteq Range(q) \cup {x}
    <3> SUFFICES ASSUME NEW i \in 1..(n + 1)
                 PROVE  s[i] \in Range(q) \cup {x}
      BY <2>0 DEF Range
    <3>1. CASE i < k
      <4>1. i \in 1..n /\ s[i] = q[i]
        BY <1>0, <1>7, <3>1
      <4> QED BY <1>0, <4>1 DEF Range
    <3>2. CASE i = k
      BY <1>7, <3>2
    <3>3. CASE i > k
      <4>1. i - 1 \in 1..n /\ s[i] = q[i - 1]
        BY <1>0, <1>7, <3>3
      <4> QED BY <1>0, <4>1 DEF Range
    <3> QED BY <1>0, <3>1, <3>2, <3>3
  <2>2. ASSUME NEW i \in 1..n
        PROVE  q[i] \in Range(s)
    <3>1. CASE i < k
      <4>1. i \in 1..(n + 1) /\ s[i] = q[i]
        BY <1>0, <1>7, <3>1
      <4> QED BY <2>0, <4>1 DEF Range
    <3>2. CASE i >= k
      <4>1. i + 1 \in 1..(n + 1) /\ (i + 1) - 1 = i /\ ~(i + 1 < k) /\ i + 1 # k
        BY <1>0, <3>2
      <4>2. s[i + 1] = q[i]
        BY <1>7, <4>1
      <4> QED BY <2>0, <4>1, <4>2 DEF Range
    <3> QED BY <1>0, <3>1, <3>2
  <2>3. x \in Range(s)
    <3>1. k \in 1..(n + 1) /\ s[k] = x
      BY <1>0, <1>7
    <3> QED BY <2>0, <3>1 DEF Range
  <2>4. Range(q) \subseteq Range(s)
    BY <1>0, <2>2 DEF Range
  <2> QED BY <2>1, <2>3, <2>4
<1> QED BY <1>5, <1>6, <1>7, <1>8 DEF s

\* A new member is put in front of the first one that comes after it.
Later(q, R, x) == {i \in DOMAIN q : <<x, q[i]>> \in R}
\* The place rcsfile.c searches for: in front of the first of P, or the end.
InFrontOf(q, P, x) == InsertAt(q, IF P = {} THEN Len(q) + 1 ELSE Min(P), x)
\* rcsfile_insertsorteddelta(), rcsfile_insertdelta(): inserted in front of the
\* first one that is later, a new member keeps the sequence ordered.
LEMMA InsertSorted ==
    ASSUME NEW T, NEW R, LinearOn(T, R), NEW q \in Seq(T), OrderedBy(q, R),
           NEW x \in T, x \notin Range(q),
           NEW s, s = InFrontOf(q, Later(q, R, x), x)
    PROVE  s \in Seq(T) /\ OrderedBy(s, R) /\ Range(s) = Range(q) \cup {x}
<1> DEFINE n == Len(q)
           P == Later(q, R, x)
           k == IF P = {} THEN n + 1 ELSE Min(P)
           t == InsertAt(q, k, x)
<1>0. n \in Nat /\ DOMAIN q = 1..n /\ \A i \in 1..n : q[i] \in T /\ q[i] # x
  BY DEF Range
<1>P. P = {i \in DOMAIN q : <<x, q[i]>> \in R}
  BY DEF Later
<1> HIDE DEF P
<1>1. /\ k \in 1..(n + 1)
      /\ \A i \in 1..n : i < k => <<x, q[i]>> \notin R
      /\ k <= n => <<x, q[k]>> \in R
  <2>1. CASE P = {}
    <3>1. k = n + 1
      BY <2>1
    <3>2. P = {}
      BY <2>1
    <3> HIDE DEF k
    <3>3. \A i \in 1..n : <<x, q[i]>> \notin R
      BY <1>0, <1>P, <3>2
    <3> QED BY <1>0, <3>1, <3>3
  <2>2. CASE P # {}
    <3>1. P \in SUBSET Nat
      BY <1>0, <1>P
    <3>2. PICK m \in P : \A y \in P : m <= y
      BY <2>2, <3>1, LeastNatural
    <3>3. Min(P) \in P /\ \A y \in P : Min(P) <= y
      BY <3>2 DEF Min
    <3>4. k = Min(P)
      BY <2>2
    <3> HIDE DEF k
    <3>5. k \in 1..n /\ <<x, q[k]>> \in R
      BY <1>0, <1>P, <3>3, <3>4
    <3>6. \A i \in P : k <= i
      BY <3>3, <3>4
    <3>7. \A i \in 1..n : <<x, q[i]>> \in R => i \in P
      BY <1>0, <1>P
    <3>8. \A i \in 1..n : i < k => <<x, q[i]>> \notin R
      <4> SUFFICES ASSUME NEW i \in 1..n, i < k, <<x, q[i]>> \in R PROVE FALSE
        OBVIOUS
      <4>1. k <= i
        BY <3>6, <3>7
      <4>2. k \in Nat /\ i \in Nat
        BY <1>0, <3>5
      <4> QED BY <4>1, <4>2
    <3> QED BY <1>0, <3>5, <3>8
  <2> QED BY <2>1, <2>2
<1> HIDE DEF k
<1>2. /\ t \in Seq(T) /\ Len(t) = n + 1
      /\ \A i \in 1..(n + 1) :
           t[i] = IF i < k THEN q[i] ELSE IF i = k THEN x ELSE q[i - 1]
      /\ Range(t) = Range(q) \cup {x}
  BY <1>1, InsertedAt
<1> HIDE DEF t
<1>3. \A i \in 1..n : i < k => <<q[i], x>> \in R
  BY <1>0, <1>1 DEF LinearOn
<1>4. \A i \in 1..n : i >= k => <<x, q[i]>> \in R
  <2> SUFFICES ASSUME NEW i \in 1..n, i >= k PROVE <<x, q[i]>> \in R
    OBVIOUS
  <2>1. k \in 1..n /\ <<x, q[k]>> \in R
    BY <1>0, <1>1
  <2>2. i = k \/ <<q[k], q[i]>> \in R
    <3>1. k \in DOMAIN q /\ i \in DOMAIN q /\ (k < i \/ i = k)
      BY <1>0, <2>1
    <3> QED BY <3>1 DEF OrderedBy
  <2> QED BY <1>0, <2>1, <2>2 DEF LinearOn
<1>5. ASSUME NEW i \in 1..(n + 1), NEW j \in 1..(n + 1), i < j
      PROVE  <<t[i], t[j]>> \in R
  <2>0. k \in Nat /\ i \in Nat /\ j \in Nat
    BY <1>1
  <2>1. CASE j < k
    <3>1. i \in 1..n /\ j \in 1..n /\ t[i] = q[i] /\ t[j] = q[j]
      BY <1>0, <1>1, <1>2, <1>5, <2>0, <2>1
    <3> QED BY <1>0, <1>5, <3>1 DEF OrderedBy
  <2>2. CASE j = k
    <3>1. i \in 1..n /\ t[i] = q[i] /\ t[j] = x /\ i < k
      BY <1>0, <1>1, <1>2, <1>5, <2>0, <2>2
    <3> QED BY <1>3, <3>1
  <2>3. CASE j > k
    <3>1. j - 1 \in 1..n /\ t[j] = q[j - 1] /\ j - 1 >= k
      BY <1>0, <1>1, <1>2, <1>5, <2>0, <2>3
    <3>2. CASE i < k
      <4>1. i \in 1..n /\ t[i] = q[i] /\ i < j - 1
        BY <1>0, <1>1, <1>2, <1>5, <2>0, <2>3, <3>2
      <4> QED BY <1>0, <3>1, <4>1 DEF OrderedBy
    <3>3. CASE i = k
      <4>1. t[i] = x
        BY <1>2, <3>3, <2>0
      <4> QED BY <1>4, <3>1, <4>1
    <3>4. CASE i > k
      <4>1. i - 1 \in 1..n /\ t[i] = q[i - 1] /\ i - 1 < j - 1
        BY <1>0, <1>1, <1>2, <1>5, <2>0, <3>4
      <4> QED BY <1>0, <3>1, <4>1 DEF OrderedBy
    <3> QED BY <2>0, <3>2, <3>3, <3>4
  <2> QED BY <2>0, <2>1, <2>2, <2>3
<1>6. OrderedBy(t, R)
  BY <1>2, <1>5 DEF OrderedBy
<1>7. s = t
  BY DEF t, k, P, InFrontOf
<1> QED BY <1>2, <1>6, <1>7

\* Without one member the rest keeps its order.
Removed(q, x) == RemoveFirst(q, x)
\* rcsfile_deleterev(): what leaves an ordered list leaves it ordered, and gone.
LEMMA RemovedFirst ==
    ASSUME NEW T, NEW R, LinearOn(T, R),
           NEW q \in Seq(T), OrderedBy(q, R), NEW x \in Range(q),
           NEW s, s = Removed(q, x)
    PROVE  s \in Seq(T) /\ OrderedBy(s, R) /\ Range(s) = Range(q) \ {x}
<1> DEFINE n == Len(q)
           I == {i \in 1..n : q[i] = x}
<1>0. n \in Nat /\ DOMAIN q = 1..n /\ \A i \in 1..n : q[i] \in T
  OBVIOUS
<1>1. PICK k \in 1..n : q[k] = x
  BY <1>0 DEF Range
<1>2. \A i \in 1..n : i # k => q[i] # x
  <2> SUFFICES ASSUME NEW i \in 1..n, i # k, q[i] = x PROVE FALSE
    OBVIOUS
  <2>1. i < k \/ k < i
    OBVIOUS
  <2> QED BY <1>0, <1>1, <2>1 DEF OrderedBy, LinearOn
<1>3. I = {k}
  BY <1>1, <1>2
<1>4. Min(I) = k
  BY <1>3 DEF Min
<1> DEFINE a == SubSeq(q, 1, k - 1)
           b == SubSeq(q, k + 1, n)
<1>5. s = a \o b
  BY <1>1, <1>3, <1>4 DEF Removed, RemoveFirst, RemoveAt, SelectInSeq
<1>6. a \in Seq(T) /\ Len(a) = k - 1 /\ \A i \in 1..(k - 1) : a[i] = q[i]
  BY <1>0
<1>7. b \in Seq(T) /\ Len(b) = n - k /\ \A i \in 1..(n - k) : b[i] = q[k + i]
  <2> DEFINE m == k + 1
  <2>1. m \in 1..(n + 1) /\ n - m + 1 = n - k /\ m - 1 = k /\ n \in Nat
    BY <1>0
  <2>2. \A i \in 1..(n - k) : m + i - 1 = k + i
    BY <1>0
  <2> HIDE DEF m
  <2>3. /\ SubSeq(q, m, n) \in Seq(T) /\ Len(SubSeq(q, m, n)) = n - m + 1
        /\ \A i \in 1..(n - m + 1) : SubSeq(q, m, n)[i] = q[m + i - 1]
    BY <1>0, <2>1, SubSeqProperties
  <2> QED BY <2>1, <2>2, <2>3 DEF m
<1> HIDE DEF a, b, I
<1>8. /\ s \in Seq(T) /\ Len(s) = (k - 1) + (n - k)
      /\ \A i \in 1..((k - 1) + (n - k)) :
           s[i] = IF i <= k - 1 THEN a[i] ELSE b[i - (k - 1)]
  <2>1. /\ a \o b \in Seq(T) /\ Len(a \o b) = Len(a) + Len(b)
        /\ \A i \in 1..(Len(a) + Len(b)) :
             (a \o b)[i] = IF i <= Len(a) THEN a[i] ELSE b[i - Len(a)]
    BY <1>6, <1>7, ConcatProperties
  <2> QED BY <1>5, <1>6, <1>7, <2>1
<1>9. s \in Seq(T) /\ Len(s) = n - 1 /\ DOMAIN s = 1..(n - 1)
  BY <1>0, <1>8
<1>10. ASSUME NEW i \in 1..(n - 1)
       PROVE  s[i] = IF i < k THEN q[i] ELSE q[i + 1]
  <2>0. i \in 1..((k - 1) + (n - k))
    BY <1>0
  <2>1. CASE i < k
    BY <1>0, <1>6, <1>8, <2>0, <2>1
  <2>2. CASE i >= k
    <3>1. i - (k - 1) \in 1..(n - k) /\ k + (i - (k - 1)) = i + 1 /\ ~(i <= k - 1)
      BY <1>0, <2>2
    <3>2. s[i] = b[i - (k - 1)] /\ b[i - (k - 1)] = q[i + 1]
      BY <1>7, <1>8, <2>0, <3>1
    <3> QED BY <2>2, <3>2
  <2> QED BY <1>0, <2>1, <2>2
<1>11. OrderedBy(s, R)
  <2> SUFFICES ASSUME NEW i \in 1..(n - 1), NEW j \in 1..(n - 1), i < j
               PROVE  <<s[i], s[j]>> \in R
    BY <1>9 DEF OrderedBy
  <2> DEFINE u == IF i < k THEN i ELSE i + 1
             v == IF j < k THEN j ELSE j + 1
  <2>1. u \in 1..n /\ v \in 1..n /\ u < v
    BY <1>0
  <2>2. s[i] = q[u] /\ s[j] = q[v]
    BY <1>10
  <2> HIDE DEF u, v
  <2> QED BY <1>0, <2>1, <2>2 DEF OrderedBy
<1>12. Range(s) = Range(q) \ {x}
  <2>1. ASSUME NEW i \in 1..(n - 1)
        PROVE  s[i] \in Range(q) \ {x}
    <3> DEFINE u == IF i < k THEN i ELSE i + 1
    <3>1. u \in 1..n /\ u # k /\ s[i] = q[u]
      BY <1>0, <1>10
    <3> HIDE DEF u
    <3> QED BY <1>0, <1>2, <3>1 DEF Range
  <2>2. ASSUME NEW i \in 1..n, i # k
        PROVE  q[i] \in Range(s)
    <3> DEFINE u == IF i < k THEN i ELSE i - 1
    <3>1. u \in 1..(n - 1) /\ s[u] = q[i]
      <4>1. CASE i < k
        <5>1. i \in 1..(n - 1)
          BY <1>0, <4>1
        <5> QED BY <1>10, <4>1, <5>1
      <4>2. CASE i >= k
        <5>1. i - 1 \in 1..(n - 1) /\ ~(i - 1 < k) /\ (i - 1) + 1 = i /\ ~(i < k)
          BY <1>0, <2>2, <4>2
        <5> QED BY <1>10, <5>1
      <4> QED BY <1>0, <4>1, <4>2
    <3> HIDE DEF u
    <3> QED BY <1>9, <3>1 DEF Range
  <2>3. Range(s) \subseteq Range(q) \ {x}
    BY <1>9, <2>1 DEF Range
  <2>4. \A i \in 1..n : q[i] # x => q[i] \in Range(s)
    BY <1>1, <2>2
  <2>5. Range(q) \ {x} \subseteq Range(s)
    BY <1>0, <2>4 DEF Range
  <2> QED BY <2>3, <2>5
<1> QED BY <1>9, <1>11, <1>12

-----------------------------------------------------------------------------
(* The trees *)

\* rcsrev_prefix(): a number without its last part.
LEMMA FrontProperties ==
    ASSUME NEW s \in Seq(Nat), Len(s) >= 1
    PROVE  /\ Front(s) \in Seq(Nat) /\ Len(Front(s)) = Len(s) - 1
           /\ \A j \in 1..(Len(s) - 1) : Front(s)[j] = s[j]
<1> DEFINE m == Len(s) - 1
<1>1. m \in Nat /\ m <= Len(s) /\ m - 1 + 1 = m /\ 1 \in 1..(m + 1)
  OBVIOUS
<1>2. Front(s) = SubSeq(s, 1, m)
  BY DEF Front
<1>3. m \in 0..Len(s)
  BY <1>1
<1> HIDE DEF m
<1>4. SubSeq(s, 1, m) \in Seq(Nat) /\ Len(SubSeq(s, 1, m)) = m
      /\ \A j \in 1..m : SubSeq(s, 1, m)[j] = s[j]
  BY <1>1, <1>3
<1> QED BY <1>2, <1>4 DEF m

\* A branch has an odd number of numbers and starts at its branchpoint.
LEMMA BranchFacts ==
    ASSUME NEW r \in Revs
    PROVE  /\ BranchId(r) \in Seq(Nat)
           /\ IsTrunk(r) => BranchId(r) = <<1>>
           /\ ~IsTrunk(r) => /\ BranchId(r) # <<1>> /\ BranchId(r) = Front(r)
                             /\ Len(BranchId(r)) = Len(r) - 1
                             /\ BranchPoint(r) \in Seq(Nat)
                             /\ BranchPoint(r) = Front(BranchId(r))
                             /\ Len(BranchPoint(r)) = Len(r) - 2
                             /\ BranchPoint(r) # None
                             /\ RevLess(BranchPoint(r), r)
<1>1. r \in Seq(Nat) /\ (Len(r) = 2 \/ Len(r) >= 4) /\ Len(r) \in Nat
  BY RevTypes
<1>2. CASE IsTrunk(r)
  <2>1. BranchId(r) = <<1>>
    BY <1>2 DEF BranchId
  <2>2. <<1>> \in Seq(Nat)
    OBVIOUS
  <2> QED BY <1>2, <2>1, <2>2
<1>3. CASE ~IsTrunk(r)
  <2> DEFINE n == Len(r)
             b == Front(r)
             p == Front(b)
  <2>1. n >= 4 /\ n \in Nat
    BY <1>1, <1>3 DEF IsTrunk
  <2>2. BranchId(r) = b /\ BranchPoint(r) = p
    BY <1>3 DEF BranchId, BranchPoint
  <2>3. b \in Seq(Nat) /\ Len(b) = n - 1 /\ \A j \in 1..(n - 1) : b[j] = r[j]
    BY <1>1, <2>1, FrontProperties
  <2> HIDE DEF b
  <2>4. p \in Seq(Nat) /\ Len(p) = n - 2 /\ \A j \in 1..(n - 2) : p[j] = b[j]
    <3>1. Len(b) >= 1 /\ Len(b) - 1 = n - 2
      BY <2>1, <2>3
    <3> QED BY <2>3, <3>1, FrontProperties
  <2> HIDE DEF p
  <2>5. b # <<1>> /\ p # None
    <3>1. Len(b) # 1 /\ Len(p) # 0
      <4> HIDE DEF n
      <4> QED BY <2>1, <2>3, <2>4
    <3> QED BY <3>1 DEF None
  <2>6. RevLess(p, r)
    <3>1. n - 1 \in 1..n /\ (n - 1) - 1 = n - 2 /\ n - 1 = Len(p) + 1 /\ ~(n - 1 <= Len(p))
      BY <2>1, <2>4
    <3>2. \A j \in 1..(n - 2) : j \in 1..(n - 1)
      BY <2>1
    <3>3. \A j \in 1..(n - 2) : p[j] = r[j]
      BY <2>3, <2>4, <3>2
    <3>4. LessAt(p, r, n - 1)
      BY <1>1, <3>1, <3>3 DEF LessAt
    <3> QED BY <1>1, <2>4, <3>1, <3>4, RevLessAt
  <2> HIDE DEF n
  <2>7. n = Len(r)
    BY DEF n
  <2> QED BY <1>3, <2>2, <2>3, <2>4, <2>5, <2>6, <2>7 DEF b, p
<1> QED BY <1>2, <1>3

\* The deltas of a branch have the same branchpoint, and it is not one of them.
LEMMA SameBranch ==
    ASSUME NEW r \in Revs, NEW s \in Revs, BranchId(r) = BranchId(s)
    PROVE  /\ IsTrunk(r) <=> IsTrunk(s)
           /\ Len(r) = Len(s)
           /\ BranchPoint(r) = BranchPoint(s) \/ IsTrunk(r)
           /\ ~IsTrunk(r) => s # BranchPoint(r)
<1>1. IsTrunk(r) <=> IsTrunk(s)
  BY BranchFacts
<1>2. r \in Seq(Nat) /\ s \in Seq(Nat) /\ Len(r) \in Nat /\ Len(s) \in Nat
  BY RevTypes
<1>3. CASE IsTrunk(r)
  BY <1>1, <1>3 DEF IsTrunk
<1>4. CASE ~IsTrunk(r)
  <2>1. /\ Len(BranchId(r)) = Len(r) - 1 /\ Len(BranchId(s)) = Len(s) - 1
        /\ BranchPoint(r) = Front(BranchId(r)) /\ BranchPoint(s) = Front(BranchId(s))
        /\ Len(BranchPoint(r)) = Len(r) - 2
    BY <1>1, <1>4, BranchFacts
  <2>2. Len(r) = Len(s)
    BY <1>2, <2>1
  <2>3. Len(s) # Len(BranchPoint(r))
    BY <1>2, <2>1, <2>2
  <2> QED BY <1>1, <1>4, <2>1, <2>2, <2>3
<1> QED BY <1>3, <1>4

\* On the trunk the newest delta comes first, on a branch the oldest.
Ord(b) == IF b = <<1>> THEN Down ELSE Up
\* The revisions of S on a branch, and those before one of them on its branch.
BranchOf(S, b) == {s \in S : BranchId(s) = b}
Preds(S, r) == {s \in BranchOf(S, BranchId(r)) : <<s, r>> \in Ord(BranchId(r))}

\* A branch has one order, the trunk downwards.
LEMMA OrdLinear ==
    ASSUME NEW b
    PROVE  LinearOn(Seq(Nat), Ord(b))
BY RevLinear DEF Ord

\* Revisions are sequences of numbers, and there are finitely many.
LEMMA RevSets ==
    ASSUME NEW S \in SUBSET Revs
    PROVE  IsFiniteSet(S) /\ S \in SUBSET Seq(Nat)
<1>1. IsFiniteSet(Revs) /\ \A r \in Revs : r \in Seq(Nat)
  BY RevsAssumption
<1>2. IsFiniteSet(S)
  BY <1>1, FS_Subset
<1> QED BY <1>1, <1>2

\* The delta that one is made from is the one in front of it on its branch, or
\* the branchpoint.
LEMMA BeforeIs ==
    ASSUME NEW S \in SUBSET Revs, NEW r \in Revs
    PROVE  /\ Preds(S, r) = {} => Before(S, r) = IF IsTrunk(r) THEN None ELSE BranchPoint(r)
           /\ Preds(S, r) # {} =>
                /\ Before(S, r) \in Preds(S, r)
                /\ \A s \in Preds(S, r) :
                     s = Before(S, r) \/ <<s, Before(S, r)>> \in Ord(BranchId(r))
<1> DEFINE b == BranchId(r)
           same == {s \in S : BranchId(s) = BranchId(r)}
           newer == {s \in same : RevLess(r, s)}
           older == {s \in same : RevLess(s, r)}
<1>0. r \in Seq(Nat) /\ S \in SUBSET Seq(Nat)
  BY RevTypes, RevSets
<1>1. CASE IsTrunk(r)
  <2>1. Ord(b) = Down
    BY <1>1, BranchFacts DEF Ord
  <2>2. Preds(S, r) = newer
    <3>1. \A s \in S : <<s, r>> \in Down <=> RevLess(r, s)
      BY <1>0, UpDown
    <3> QED BY <2>1, <3>1 DEF Preds, BranchOf
  <2>3. Before(S, r) = IF newer = {} THEN None
                       ELSE CHOOSE s \in newer : \A t \in newer : s = t \/ RevLess(s, t)
    BY <1>1 DEF Before
  <2>4. newer \in SUBSET Revs /\ newer \in SUBSET Seq(Nat)
    BY <1>0
  <2> HIDE DEF newer
  <2>5. CASE newer # {}
    <3>1. \E s \in newer : \A t \in newer : s = t \/ RevLess(s, t)
      BY <2>4, <2>5, RevSets, OldestIn
    <3>2. Before(S, r) \in newer /\ \A t \in newer : Before(S, r) = t \/ RevLess(Before(S, r), t)
      BY <2>3, <2>5, <3>1
    <3>3. \A t \in newer : <<t, Before(S, r)>> \in Down <=> RevLess(Before(S, r), t)
      BY <2>4, <3>2, UpDown
    <3> QED BY <2>1, <2>2, <3>2, <3>3
  <2> QED BY <1>1, <2>2, <2>3, <2>5
<1>2. CASE ~IsTrunk(r)
  <2>1. Ord(b) = Up
    BY <1>2, BranchFacts DEF Ord
  <2>2. Preds(S, r) = older
    <3>1. \A s \in S : <<s, r>> \in Up <=> RevLess(s, r)
      BY <1>0, UpDown
    <3> QED BY <2>1, <3>1 DEF Preds, BranchOf
  <2>3. Before(S, r) = IF older = {} THEN BranchPoint(r) ELSE Newest(older)
    BY <1>2 DEF Before
  <2>4. older \in SUBSET Revs /\ older \in SUBSET Seq(Nat)
    BY <1>0
  <2> HIDE DEF older
  <2>5. CASE older # {}
    <3>1. Newest(older) \in older /\ \A s \in older : s = Newest(older) \/ RevLess(s, Newest(older))
      BY <2>4, <2>5, RevSets, NewestIn
    <3>2. \A t \in older : <<t, Newest(older)>> \in Up <=> RevLess(t, Newest(older))
      BY <2>4, <3>1, UpDown
    <3> QED BY <2>1, <2>2, <2>3, <2>5, <3>1, <3>2
  <2> QED BY <1>2, <2>2, <2>3, <2>5
<1> QED BY <1>1, <1>2

\* A tree has a head, the newest on the trunk.
LEMMA HeadFacts ==
    ASSUME NEW S \in Trees
    PROVE  /\ S \in SUBSET Revs
           /\ HeadOf(S) \in S /\ IsTrunk(HeadOf(S))
           /\ \A s \in S : IsTrunk(s) => s = HeadOf(S) \/ RevLess(s, HeadOf(S))
           /\ \A r \in S : ~IsTrunk(r) => BranchPoint(r) \in S
<1>1. /\ S \in SUBSET Revs /\ \E r \in S : IsTrunk(r)
      /\ \A r \in S : ~IsTrunk(r) => BranchPoint(r) \in S
  BY DEF Trees
<1> DEFINE T == {r \in S : IsTrunk(r)}
<1>2. T \in SUBSET Revs /\ T # {}
  BY <1>1
<1>3. HeadOf(S) = Newest(T)
  BY DEF HeadOf
<1> HIDE DEF T
<1>4. Newest(T) \in T /\ \A s \in T : s = Newest(T) \/ RevLess(s, Newest(T))
  BY <1>2, RevSets, NewestIn
<1> QED BY <1>1, <1>3, <1>4 DEF T

\* The order of the deltas in a file: the trunk, then the branches.
Ahead == {w \in Revs \X Revs :
            IF IsTrunk(w[1]) /\ IsTrunk(w[2]) THEN RevLess(w[2], w[1])
            ELSE IsTrunk(w[1]) \/ (~IsTrunk(w[2]) /\ RevLess(w[1], w[2]))}
\* Of the revisions on a branch point, trunk or branch, one is ahead.
LEMMA AheadLinear == LinearOn(Revs, Ahead)
<1>0. \A r \in Revs : r \in Seq(Nat)
  BY RevTypes
<1>1. \A x, y \in Revs : <<x, y>> \in Ahead <=>
        (IF IsTrunk(x) /\ IsTrunk(y) THEN RevLess(y, x)
         ELSE IsTrunk(x) \/ (~IsTrunk(y) /\ RevLess(x, y)))
  BY DEF Ahead
<1>2. \A x \in Revs : <<x, x>> \notin Ahead
  BY <1>0, <1>1, RevLessIrreflexive
<1>3. ASSUME NEW x \in Revs, NEW y \in Revs, NEW z \in Revs,
             <<x, y>> \in Ahead, <<y, z>> \in Ahead
      PROVE  <<x, z>> \in Ahead
  <2>1. x \in Seq(Nat) /\ y \in Seq(Nat) /\ z \in Seq(Nat)
    BY <1>0
  <2>2. /\ RevLess(x, y) /\ RevLess(y, z) => RevLess(x, z)
        /\ RevLess(z, y) /\ RevLess(y, x) => RevLess(z, x)
    BY <2>1, RevLessTransitive
  <2> QED BY <1>1, <1>3, <2>2
<1>4. \A x, y \in Revs : x = y \/ <<x, y>> \in Ahead \/ <<y, x>> \in Ahead
  <2> SUFFICES ASSUME NEW x \in Revs, NEW y \in Revs, x # y
               PROVE  <<x, y>> \in Ahead \/ <<y, x>> \in Ahead
    OBVIOUS
  <2>1. RevLess(x, y) \/ RevLess(y, x)
    BY <1>0, RevLessTotal
  <2> QED BY <1>1, <2>1
<1> QED BY <1>2, <1>3, <1>4 DEF LinearOn

\* Each delta but the head comes after the one it is made from.
LEMMA BeforeFacts ==
    ASSUME NEW S \in Trees, NEW r \in S
    PROVE  /\ r = HeadOf(S) => Before(S, r) = None
           /\ r # HeadOf(S) => Before(S, r) \in S /\ <<Before(S, r), r>> \in Ahead
           /\ Before(S, r) # r
           /\ \/ Preds(S, r) # {} /\ BranchId(Before(S, r)) = BranchId(r)
              \/ Preds(S, r) = {} /\ IsTrunk(r) /\ r = HeadOf(S) /\ Before(S, r) = None
              \/ Preds(S, r) = {} /\ ~IsTrunk(r) /\ Before(S, r) = BranchPoint(r)
<1>0. /\ S \in SUBSET Revs /\ r \in Revs /\ r \in Seq(Nat) /\ r # None
      /\ HeadOf(S) \in S /\ IsTrunk(HeadOf(S))
      /\ \A s \in S : IsTrunk(s) => s = HeadOf(S) \/ RevLess(s, HeadOf(S))
      /\ ~IsTrunk(r) => BranchPoint(r) \in S
  BY HeadFacts, RevTypes
<1> DEFINE h == HeadOf(S)
           p == Before(S, r)
<1>00. h \in Seq(Nat) /\ \A s \in S : s \in Seq(Nat)
  BY <1>0, RevTypes
<1>1. CASE Preds(S, r) # {}
  <2>1. p \in S /\ BranchId(p) = BranchId(r) /\ <<p, r>> \in Ord(BranchId(r))
    BY <1>0, <1>1, BeforeIs DEF Preds, BranchOf
  <2>2. IsTrunk(p) <=> IsTrunk(r)
    BY <1>0, <2>1, SameBranch
  <2> HIDE DEF p
  <2>3. p \in Revs /\ p \in Seq(Nat)
    BY <1>0, <1>00, <2>1
  <2>4. IF IsTrunk(r) THEN RevLess(r, p) ELSE RevLess(p, r)
    BY <1>0, <2>1, <2>3, BranchFacts, UpDown DEF Ord
  <2>5. <<p, r>> \in Ahead /\ p # r
    BY <1>0, <2>2, <2>3, <2>4, RevLessOneWay DEF Ahead
  <2>6. r # h
    <3> SUFFICES ASSUME r = h PROVE FALSE
      OBVIOUS
    <3>1. RevLess(h, p) /\ (p = h \/ RevLess(p, h))
      BY <1>0, <2>1, <2>2, <2>4
    <3> QED BY <1>00, <2>3, <3>1, RevLessOneWay
  <2> QED BY <1>0, <1>1, <2>1, <2>5, <2>6 DEF p
<1>2. CASE Preds(S, r) = {} /\ IsTrunk(r)
  <2>1. p = None
    BY <1>0, <1>2, BeforeIs
  <2>2. r = h
    <3> SUFFICES ASSUME r # h PROVE FALSE
      OBVIOUS
    <3>1. RevLess(r, h) /\ BranchId(h) = BranchId(r) /\ BranchId(r) = <<1>>
      BY <1>0, <1>2, BranchFacts
    <3>2. <<h, r>> \in Ord(BranchId(r))
      BY <1>0, <1>00, <3>1, UpDown DEF Ord
    <3> QED BY <1>0, <1>2, <3>1, <3>2 DEF Preds, BranchOf
  <2> QED BY <1>0, <1>2, <2>1, <2>2
<1>3. CASE Preds(S, r) = {} /\ ~IsTrunk(r)
  <2>1. p = BranchPoint(r) /\ p \in S
    BY <1>0, <1>3, BeforeIs
  <2>2. RevLess(p, r) /\ p \in Revs /\ p \in Seq(Nat)
    BY <1>0, <1>00, <1>3, <2>1, BranchFacts
  <2> HIDE DEF p
  <2>3. <<p, r>> \in Ahead /\ p # r
    BY <1>0, <1>3, <2>2, RevLessOneWay DEF Ahead
  <2> QED BY <1>0, <1>3, <2>1, <2>3 DEF p
<1> QED BY <1>1, <1>2, <1>3

\* Two deltas of a branch are made from different ones.
LEMMA BeforeInjective ==
    ASSUME NEW S \in Trees, NEW r \in S, NEW s \in S,
           BranchId(r) = BranchId(s), Before(S, r) = Before(S, s)
    PROVE  r = s
<1>0. S \in SUBSET Revs /\ r \in Revs /\ s \in Revs /\ r \in Seq(Nat) /\ s \in Seq(Nat)
  BY HeadFacts, RevTypes
<1>1. ASSUME NEW x \in S, NEW y \in S, BranchId(x) = BranchId(y), Before(S, x) = Before(S, y),
             <<x, y>> \in Ord(BranchId(y))
      PROVE  FALSE
  <2> DEFINE p == Before(S, y)
             R == Ord(BranchId(y))
  <2>0. x \in Revs /\ y \in Revs /\ x \in Seq(Nat) /\ y \in Seq(Nat) /\ LinearOn(Seq(Nat), R)
    BY <1>0, RevTypes, OrdLinear
  <2>1. x \in Preds(S, y)
    BY <1>1 DEF Preds, BranchOf
  <2>2. p \in Preds(S, y) /\ (x = p \/ <<x, p>> \in R)
    BY <1>0, <2>0, <2>1, BeforeIs
  <2>3. p \in S /\ BranchId(p) = BranchId(x) /\ p \in Revs /\ p \in Seq(Nat)
    BY <1>0, <1>1, <2>2, RevTypes DEF Preds, BranchOf
  <2>4. p \in Preds(S, x)
    <3>1. p = Before(S, x)
      BY <1>1
    <3> HIDE DEF p
    <3> SUFFICES ASSUME Preds(S, x) = {} PROVE FALSE
      BY <1>0, <2>0, <3>1, BeforeIs
    <3>2. p # None
      BY <2>3, RevTypes
    <3>3. ~IsTrunk(x) /\ p = BranchPoint(x)
      BY <1>0, <2>0, <3>1, <3>2, BeforeIs
    <3> QED BY <2>0, <2>3, <3>3, SameBranch
  <2>5. <<p, x>> \in R
    BY <1>1, <2>4 DEF Preds
  <2> HIDE DEF p, R
  <2> QED BY <2>0, <2>2, <2>3, <2>5 DEF LinearOn
<1> SUFFICES ASSUME r # s PROVE FALSE
  OBVIOUS
<1>2. <<r, s>> \in Ord(BranchId(r)) \/ <<s, r>> \in Ord(BranchId(r))
  BY <1>0, OrdLinear DEF LinearOn
<1> QED BY <1>1, <1>2

\* A next delta is made from the one before it on the same branch.
LEMMA NextFacts ==
    ASSUME NEW S \in Trees, NEW r \in S
    PROVE  /\ NextIn(S, r) = None \/ NextIn(S, r) \in S
           /\ \A s \in S : NextIn(S, r) = s <=> Before(S, s) = r /\ BranchId(s) = BranchId(r)
<1> DEFINE n == {s \in After(S, r) : BranchId(s) = BranchId(r)}
<1>1. \A s \in S : s \in n <=> Before(S, s) = r /\ BranchId(s) = BranchId(r)
  BY DEF After
<1>2. n \in SUBSET S
  BY DEF After
<1>3. NextIn(S, r) = IF n = {} THEN None ELSE CHOOSE s \in n : TRUE
  BY DEF NextIn
<1> HIDE DEF n
<1>4. \A s, t \in n : s = t
  BY <1>1, <1>2, BeforeInjective
<1>5. \A s \in S : s # None
  BY HeadFacts, RevTypes
<1>6. CASE n = {}
  BY <1>1, <1>3, <1>5, <1>6
<1>7. CASE n # {}
  <2>1. NextIn(S, r) \in n
    BY <1>3, <1>7
  <2> QED BY <1>1, <1>2, <1>4, <2>1
<1> QED BY <1>6, <1>7

\* No delta is made, in some number of steps, from itself.
LEMMA FirstWithout ==
    ASSUME NEW S \in Trees, NEW T \in SUBSET S, T # {}
    PROVE  \E x \in T : Before(S, x) \notin T
<1>1. T \in SUBSET Revs /\ IsFiniteSet(T) /\ LinearOn(T, Ahead)
  <2>1. T \in SUBSET Revs
    BY HeadFacts
  <2> QED BY <2>1, RevSets, AheadLinear, LinearOnSubset
<1>2. PICK x \in T : \A y \in T : x = y \/ <<x, y>> \in Ahead
  BY <1>1, FirstOf
<1>3. Before(S, x) \notin T
  <2> SUFFICES ASSUME Before(S, x) \in T PROVE FALSE
    OBVIOUS
  <2> DEFINE p == Before(S, x)
  <2>1. p # None /\ p # x
    BY <1>1, BeforeFacts, RevTypes
  <2>2. <<p, x>> \in Ahead
    BY <2>1, BeforeFacts
  <2>3. <<x, p>> \in Ahead
    BY <1>2, <2>1
  <2> HIDE DEF p
  <2>4. p \in T
    BY DEF p
  <2> QED BY <1>1, <2>2, <2>3, <2>4 DEF LinearOn
<1> QED BY <1>3

-----------------------------------------------------------------------------
(* Folds *)

\* The greatest number of a set up to m that contains m.
LEMMA MaxUpTo ==
    ASSUME NEW m \in Nat, NEW s \in SUBSET (1..m), m \in s
    PROVE  Max(s) = m /\ s \ {m} \in SUBSET (1..(m - 1))
<1>1. m \in s /\ \A y \in s : m >= y
  OBVIOUS
<1>2. \A x \in s : (\A y \in s : x >= y) => x = m
  OBVIOUS
<1>3. Max(s) \in s /\ \A y \in s : Max(s) >= y
  BY <1>1 DEF Max
<1>4. s \ {m} \in SUBSET (1..(m - 1))
  OBVIOUS
<1> HIDE DEF Max
<1> QED BY <1>2, <1>3, <1>4

\* A set of natural numbers with a bound has a greatest member.
LEMMA MaxIsMember ==
    ASSUME NEW n \in Nat, NEW s \in SUBSET (1..n), s # {}
    PROVE  Max(s) \in s
<1> DEFINE D == {n - x : x \in s}
<1>1. D \in SUBSET Nat /\ D # {}
  <2>1. \A x \in s : n - x \in Nat
    OBVIOUS
  <2> QED BY <2>1
<1>2. PICK d \in D : \A y \in D : d <= y
  BY <1>1, LeastNatural
<1>3. PICK x \in s : d = n - x
  BY <1>2
<1>4. \A y \in s : x >= y
  <2> SUFFICES ASSUME NEW y \in s PROVE x >= y
    OBVIOUS
  <2>1. n - x <= n - y
    BY <1>2, <1>3
  <2> QED BY <2>1
<1> QED BY <1>4 DEF Max

\* The operators that are folded, under one name.
Do(op, f, s, r) ==
    CASE op = "delta" -> ImportDelta(s, r)
      [] op = "read"  -> ImportReadOnly(s, r)
      [] op = "text"  -> ImportText(s, r)
      [] op = "push"  -> Push(s, r)
      [] op = "write" -> WriteDelta(f, s)
      [] OTHER        -> WriteText(f, s)

\* The function that FoldLeft chooses ...
Fold(F, op, f, s0, q, n) ==
    F = [s \in SUBSET (1..n) |->
           IF s = {} THEN s0 ELSE Do(op, f, F[s \ {Max(s)}], q[Max(s)])]

\* ... exists, ...
LEMMA FoldExists ==
    ASSUME NEW op, NEW f, NEW s0, NEW q, NEW n \in Nat
    PROVE  \E F : Fold(F, op, f, s0, q, n)
<1> DEFINE T == {m \in Nat : \E F : Fold(F, op, f, s0, q, m)}
<1>1. 0 \in T
  <2> DEFINE h == [s \in SUBSET (1..0) |-> s0]
  <2>1. \A s \in SUBSET (1..0) : s = {}
    OBVIOUS
  <2>2. h = [s \in SUBSET (1..0) |->
               IF s = {} THEN s0 ELSE Do(op, f, h[s \ {Max(s)}], q[Max(s)])]
    BY <2>1
  <2> HIDE DEF h
  <2>3. Fold(h, op, f, s0, q, 0)
    BY <2>2 DEF Fold
  <2> QED BY <2>3
<1>2. ASSUME NEW m \in Nat, m \in T PROVE m + 1 \in T
  <2>1. PICK F : Fold(F, op, f, s0, q, m)
    BY <1>2
  <2> DEFINE h == [s \in SUBSET (1..(m + 1)) |->
                     IF m + 1 \in s THEN Do(op, f, F[s \ {m + 1}], q[m + 1]) ELSE F[s]]
             D == [s \in SUBSET (1..(m + 1)) |->
                     IF s = {} THEN s0 ELSE Do(op, f, h[s \ {Max(s)}], q[Max(s)])]
  <2>2. ASSUME NEW s \in SUBSET (1..(m + 1))
        PROVE  h[s] = IF s = {} THEN s0 ELSE Do(op, f, h[s \ {Max(s)}], q[Max(s)])
    <3>1. CASE m + 1 \in s
      <4>1. Max(s) = m + 1 /\ s \ {m + 1} \in SUBSET (1..m)
        BY <3>1, MaxUpTo
      <4>2. s \ {m + 1} \in SUBSET (1..(m + 1)) /\ m + 1 \notin s \ {m + 1}
        BY <4>1
      <4>3. h[s \ {m + 1}] = F[s \ {m + 1}]
        BY <4>2
      <4>4. h[s] = Do(op, f, F[s \ {m + 1}], q[m + 1])
        BY <3>1
      <4> HIDE DEF h
      <4> QED BY <3>1, <4>1, <4>3, <4>4
    <3>2. CASE m + 1 \notin s
      <4>1. s \in SUBSET (1..m) /\ h[s] = F[s]
        BY <3>2
      <4>2. s # {} => /\ s \ {Max(s)} \in SUBSET (1..(m + 1))
                      /\ m + 1 \notin s \ {Max(s)}
        BY <3>2
      <4>3. s # {} => h[s \ {Max(s)}] = F[s \ {Max(s)}]
        BY <4>2
      <4>4. F[s] = IF s = {} THEN s0 ELSE Do(op, f, F[s \ {Max(s)}], q[Max(s)])
        BY <2>1, <4>1 DEF Fold
      <4> HIDE DEF h
      <4> QED BY <4>1, <4>3, <4>4
    <3> QED BY <3>1, <3>2
  <2>3. h = D
    <3>1. DOMAIN h = SUBSET (1..(m + 1)) /\ DOMAIN D = SUBSET (1..(m + 1))
      OBVIOUS
    <3>2. \A s \in SUBSET (1..(m + 1)) : D[s] = h[s]
      <4> SUFFICES ASSUME NEW s \in SUBSET (1..(m + 1)) PROVE D[s] = h[s]
        OBVIOUS
      <4>1. h[s] = IF s = {} THEN s0 ELSE Do(op, f, h[s \ {Max(s)}], q[Max(s)])
        BY <2>2
      <4> HIDE DEF h
      <4> QED BY <4>1
    <3>3. h = [s \in SUBSET (1..(m + 1)) |-> h[s]] /\ D = [s \in SUBSET (1..(m + 1)) |-> D[s]]
      OBVIOUS
    <3> HIDE DEF h, D
    <3> QED BY <3>2, <3>3
  <2> HIDE DEF h
  <2>4. Fold(h, op, f, s0, q, m + 1)
    BY <2>3 DEF Fold
  <2> QED BY <2>4
<1> HIDE DEF T
<1>3. Nat \subseteq T
  BY <1>1, <1>2, NatSet
<1>4. n \in T
  BY <1>3
<1> QED BY <1>4 DEF T

\* ... and takes one member of the sequence after the other.
Trace(tr, op, f, s0, q, n, t) ==
    /\ tr[0] = s0 /\ t = tr[n]
    /\ \A m \in 0..(n - 1) : tr[m + 1] = Do(op, f, tr[m], q[m + 1])
\* A fold has done what its last turn left.
LEMMA FoldSteps ==
    ASSUME NEW op, NEW f, NEW s0, NEW q, NEW n \in Nat,
           NEW F, Fold(F, op, f, s0, q, n)
    PROVE  \E tr : Trace(tr, op, f, s0, q, n, F[1..n])
<1> DEFINE tr == [m \in 0..n |-> F[1..m]]
<1>1. tr[0] = s0
  <2>1. 1..0 = {} /\ 0 \in 0..n
    OBVIOUS
  <2>2. F[{}] = s0
    BY DEF Fold
  <2> QED BY <2>1, <2>2
<1>2. F[1..n] = tr[n]
  OBVIOUS
<1>3. ASSUME NEW m \in 0..(n - 1)
      PROVE  tr[m + 1] = Do(op, f, tr[m], q[m + 1])
  <2> DEFINE s == 1..(m + 1)
  <2>0. m \in 0..n /\ m + 1 \in 0..n /\ m + 1 \in Nat
    OBVIOUS
  <2>1. s \in SUBSET (1..n) /\ s # {} /\ m + 1 \in s /\ s \ {m + 1} = 1..m
    <3>1. m + 1 \in s /\ \A i \in s : i \in 1..n
      OBVIOUS
    <3>2. s \ {m + 1} = 1..m
      OBVIOUS
    <3> QED BY <3>1, <3>2
  <2>2. Max(s) = m + 1
    BY <2>0, <2>1, MaxUpTo
  <2>3. F[s] = Do(op, f, F[s \ {Max(s)}], q[Max(s)])
    BY <2>1 DEF Fold
  <2>4. tr[m + 1] = F[s] /\ tr[m] = F[1..m]
    BY <2>0
  <2> HIDE DEF tr, s
  <2> QED BY <2>1, <2>2, <2>3, <2>4
<1> HIDE DEF tr
<1>4. Trace(tr, op, f, s0, q, n, F[1..n])
  BY <1>1, <1>2, <1>3 DEF Trace
<1> QED BY <1>4

\* rcsparse() goes through the deltas, ...
LEMMA DeltaTrace ==
    ASSUME NEW s0, NEW G, NEW q \in Seq(G)
    PROVE  \E tr : Trace(tr, "delta", 0, s0, q, Len(q), FoldLeft(ImportDelta, s0, q))
<1> DEFINE n == Len(q)
           F == CHOOSE F : F = [s \in SUBSET (DOMAIN q) |->
                                  IF s = {} THEN s0 ELSE ImportDelta(F[s \ {Max(s)}], q[Max(s)])]
<1>1. FoldLeft(ImportDelta, s0, q) = F[DOMAIN q]
  BY DEF FoldLeft, MapThenFoldSet
<1>2. n \in Nat /\ DOMAIN q = 1..n
  OBVIOUS
<1>3. PICK H : Fold(H, "delta", 0, s0, q, n)
  BY <1>2, FoldExists
<1>4. H = [s \in SUBSET (1..n) |->
             IF s = {} THEN s0 ELSE ImportDelta(H[s \ {Max(s)}], q[Max(s)])]
  BY <1>3 DEF Fold, Do
<1>5. F = [s \in SUBSET (1..n) |->
             IF s = {} THEN s0 ELSE ImportDelta(F[s \ {Max(s)}], q[Max(s)])]
  BY <1>2, <1>4
<1> HIDE DEF F
<1>6. Fold(F, "delta", 0, s0, q, n)
  BY <1>5 DEF Fold, Do
<1>7. FoldLeft(ImportDelta, s0, q) = F[1..n]
  BY <1>1, <1>2
<1> QED BY <1>2, <1>6, <1>7, FoldSteps

\* ... when the file is only read as well, ...
LEMMA ReadTrace ==
    ASSUME NEW s0, NEW G, NEW q \in Seq(G)
    PROVE  \E tr : Trace(tr, "read", 0, s0, q, Len(q), FoldLeft(ImportReadOnly, s0, q))
<1> DEFINE n == Len(q)
           F == CHOOSE F : F = [s \in SUBSET (DOMAIN q) |->
                                  IF s = {} THEN s0 ELSE ImportReadOnly(F[s \ {Max(s)}], q[Max(s)])]
<1>1. FoldLeft(ImportReadOnly, s0, q) = F[DOMAIN q]
  BY DEF FoldLeft, MapThenFoldSet
<1>2. n \in Nat /\ DOMAIN q = 1..n
  OBVIOUS
<1>3. PICK H : Fold(H, "read", 0, s0, q, n)
  BY <1>2, FoldExists
<1>4. H = [s \in SUBSET (1..n) |->
             IF s = {} THEN s0 ELSE ImportReadOnly(H[s \ {Max(s)}], q[Max(s)])]
  BY <1>3 DEF Fold, Do
<1>5. F = [s \in SUBSET (1..n) |->
             IF s = {} THEN s0 ELSE ImportReadOnly(F[s \ {Max(s)}], q[Max(s)])]
  BY <1>2, <1>4
<1> HIDE DEF F
<1>6. Fold(F, "read", 0, s0, q, n)
  BY <1>5 DEF Fold, Do
<1>7. FoldLeft(ImportReadOnly, s0, q) = F[1..n]
  BY <1>1, <1>2
<1> QED BY <1>2, <1>6, <1>7, FoldSteps

\* ... and then through the texts.
LEMMA TextTrace ==
    ASSUME NEW s0, NEW G, NEW q \in Seq(G)
    PROVE  \E tr : Trace(tr, "text", 0, s0, q, Len(q), FoldLeft(ImportText, s0, q))
<1> DEFINE n == Len(q)
           F == CHOOSE F : F = [s \in SUBSET (DOMAIN q) |->
                                  IF s = {} THEN s0 ELSE ImportText(F[s \ {Max(s)}], q[Max(s)])]
<1>1. FoldLeft(ImportText, s0, q) = F[DOMAIN q]
  BY DEF FoldLeft, MapThenFoldSet
<1>2. n \in Nat /\ DOMAIN q = 1..n
  OBVIOUS
<1>3. PICK H : Fold(H, "text", 0, s0, q, n)
  BY <1>2, FoldExists
<1>4. H = [s \in SUBSET (1..n) |->
             IF s = {} THEN s0 ELSE ImportText(H[s \ {Max(s)}], q[Max(s)])]
  BY <1>3 DEF Fold, Do
<1>5. F = [s \in SUBSET (1..n) |->
             IF s = {} THEN s0 ELSE ImportText(F[s \ {Max(s)}], q[Max(s)])]
  BY <1>2, <1>4
<1> HIDE DEF F
<1>6. Fold(F, "text", 0, s0, q, n)
  BY <1>5 DEF Fold, Do
<1>7. FoldLeft(ImportText, s0, q) = F[1..n]
  BY <1>1, <1>2
<1> QED BY <1>2, <1>6, <1>7, FoldSteps

\* rcsfile_write() pushes the first deltas of the branches, ...
LEMMA PushTrace ==
    ASSUME NEW s0, NEW G, NEW q \in Seq(G)
    PROVE  \E tr : Trace(tr, "push", 0, s0, q, Len(q), FoldLeft(Push, s0, q))
<1> DEFINE n == Len(q)
           F == CHOOSE F : F = [s \in SUBSET (DOMAIN q) |->
                                  IF s = {} THEN s0 ELSE Push(F[s \ {Max(s)}], q[Max(s)])]
<1>1. FoldLeft(Push, s0, q) = F[DOMAIN q]
  BY DEF FoldLeft, MapThenFoldSet
<1>2. n \in Nat /\ DOMAIN q = 1..n
  OBVIOUS
<1>3. PICK H : Fold(H, "push", 0, s0, q, n)
  BY <1>2, FoldExists
<1>4. H = [s \in SUBSET (1..n) |->
             IF s = {} THEN s0 ELSE Push(H[s \ {Max(s)}], q[Max(s)])]
  BY <1>3 DEF Fold, Do
<1>5. F = [s \in SUBSET (1..n) |->
             IF s = {} THEN s0 ELSE Push(F[s \ {Max(s)}], q[Max(s)])]
  BY <1>2, <1>4
<1> HIDE DEF F
<1>6. Fold(F, "push", 0, s0, q, n)
  BY <1>5 DEF Fold, Do
<1>7. FoldLeft(Push, s0, q) = F[1..n]
  BY <1>1, <1>2
<1> QED BY <1>2, <1>6, <1>7, FoldSteps

\* ... writes one delta after the other, ...
LEMMA WriteTrace ==
    ASSUME NEW f, NEW head, NEW G, f.table \in Seq(G)
    PROVE  \E tr, t : Trace(tr, "write", f, [stack |-> <<head>>, out |-> <<>>],
                            f.table, Len(f.table), t)
                      /\ WriteDeltas(f, head) = t.out
<1> DEFINE q == f.table
           n == Len(q)
           s0 == [stack |-> <<head>>, out |-> <<>>]
           F == CHOOSE F : F = [s \in SUBSET (DOMAIN q) |->
                                  IF s = {} THEN s0 ELSE WriteDelta(f, F[s \ {Max(s)}])]
<1>1. WriteDeltas(f, head) = F[DOMAIN q].out
  BY DEF WriteDeltas, FoldLeft, MapThenFoldSet
<1>2. n \in Nat /\ DOMAIN q = 1..n
  OBVIOUS
<1>3. PICK H : Fold(H, "write", f, s0, q, n)
  BY <1>2, FoldExists
<1>4. H = [s \in SUBSET (1..n) |->
             IF s = {} THEN s0 ELSE WriteDelta(f, H[s \ {Max(s)}])]
  BY <1>3 DEF Fold, Do
<1>5. F = [s \in SUBSET (1..n) |->
             IF s = {} THEN s0 ELSE WriteDelta(f, F[s \ {Max(s)}])]
  BY <1>2, <1>4
<1> HIDE DEF F
<1>6. Fold(F, "write", f, s0, q, n)
  BY <1>5 DEF Fold, Do
<1>7. WriteDeltas(f, head) = F[1..n].out
  BY <1>1, <1>2
<1> HIDE DEF s0
<1>8. \E tr : Trace(tr, "write", f, s0, q, n, F[1..n])
  BY <1>2, <1>6, FoldSteps
<1> QED BY <1>7, <1>8 DEF s0

\* ... and one text after the other.
LEMMA TextsTrace ==
    ASSUME NEW f, NEW head, NEW G, f.table \in Seq(G)
    PROVE  \E tr, t : Trace(tr, "texts", f,
                            [stack |-> <<[rev |-> head, prev |-> None]>>, out |-> <<>>],
                            f.table, Len(f.table), t)
                      /\ WriteTexts(f, head) = t.out
<1> DEFINE q == f.table
           n == Len(q)
           s0 == [stack |-> <<[rev |-> head, prev |-> None]>>, out |-> <<>>]
           F == CHOOSE F : F = [s \in SUBSET (DOMAIN q) |->
                                  IF s = {} THEN s0 ELSE WriteText(f, F[s \ {Max(s)}])]
<1>1. WriteTexts(f, head) = F[DOMAIN q].out
  BY DEF WriteTexts, FoldLeft, MapThenFoldSet
<1>2. n \in Nat /\ DOMAIN q = 1..n
  OBVIOUS
<1>3. PICK H : Fold(H, "texts", f, s0, q, n)
  BY <1>2, FoldExists
<1>4. H = [s \in SUBSET (1..n) |->
             IF s = {} THEN s0 ELSE WriteText(f, H[s \ {Max(s)}])]
  BY <1>3 DEF Fold, Do
<1>5. F = [s \in SUBSET (1..n) |->
             IF s = {} THEN s0 ELSE WriteText(f, F[s \ {Max(s)}])]
  BY <1>2, <1>4
<1> HIDE DEF F
<1>6. Fold(F, "texts", f, s0, q, n)
  BY <1>5 DEF Fold, Do
<1>7. WriteTexts(f, head) = F[1..n].out
  BY <1>1, <1>2
<1> HIDE DEF s0
<1>8. \E tr : Trace(tr, "texts", f, s0, q, n, F[1..n])
  BY <1>2, <1>6, FoldSteps
<1> QED BY <1>7, <1>8 DEF s0

-----------------------------------------------------------------------------
(* The tree of deltas *)

\* The orders hold for all revisions.
LEMMA RevsLinear ==
    ASSUME NEW b
    PROVE  LinearOn(Revs, Ord(b)) /\ LinearOn(Revs, Up)
<1>1. Revs \in SUBSET Seq(Nat)
  BY RevSets
<1> QED BY <1>1, OrdLinear, RevLinear, LinearOnSubset

\* The three ways to insert keep the order.
LEMMA InsertSortedDeltaOrdered ==
    ASSUME NEW q \in Seq(Revs), OrderedBy(q, Up), NEW r \in Revs, r \notin Range(q),
           NEW s, s = InsertSortedDelta(q, r)
    PROVE  s \in Seq(Revs) /\ OrderedBy(s, Up) /\ Range(s) = Range(q) \cup {r}
<1> DEFINE P == {i \in DOMAIN q : ~RevLess(q[i], r)}
<1>1. P = Later(q, Up, r)
  <2> SUFFICES ASSUME NEW i \in DOMAIN q
               PROVE  ~RevLess(q[i], r) <=> <<r, q[i]>> \in Up
    BY DEF Later
  <2>1. q[i] \in Seq(Nat) /\ r \in Seq(Nat) /\ q[i] # r
    BY RevTypes DEF Range
  <2> QED BY <2>1, UpDown, RevLessTotal, RevLessOneWay
<1>2. s = InFrontOf(q, P, r)
  BY DEF InsertSortedDelta, InsertBefore, InFrontOf
<1>3. LinearOn(Revs, Up)
  BY RevsLinear
<1> HIDE DEF P
<1> QED BY <1>1, <1>2, <1>3, InsertSorted

\* rcsfile_insertdelta() keeps the list of a branch ordered.
LEMMA InsertDeltaOrdered ==
    ASSUME NEW r \in Revs, NEW q \in Seq(Revs), OrderedBy(q, Ord(BranchId(r))),
           r \notin Range(q), NEW s, s = InsertDelta(q, r)
    PROVE  /\ s \in Seq(Revs) /\ OrderedBy(s, Ord(BranchId(r)))
           /\ Range(s) = Range(q) \cup {r}
<1>0. \A i \in DOMAIN q : q[i] \in Seq(Nat) /\ r \in Seq(Nat) /\ q[i] # r
  BY RevTypes DEF Range
<1>1. CASE IsTrunk(r)
  <2> DEFINE P == {i \in DOMAIN q : ~RevLess(r, q[i])}
  <2>0. Ord(BranchId(r)) = Down
    BY <1>1, BranchFacts DEF Ord
  <2>1. P = Later(q, Down, r)
    <3> SUFFICES ASSUME NEW i \in DOMAIN q
                 PROVE  ~RevLess(r, q[i]) <=> <<r, q[i]>> \in Down
      BY DEF Later
    <3> QED BY <1>0, UpDown, RevLessTotal, RevLessOneWay
  <2>2. s = InFrontOf(q, P, r)
    BY <1>1 DEF InsertDelta, InsertBefore, InFrontOf
  <2>3. LinearOn(Revs, Ord(BranchId(r)))
    BY RevsLinear
  <2> HIDE DEF P
  <2> QED BY <2>0, <2>1, <2>2, <2>3, InsertSorted
<1>2. CASE ~IsTrunk(r)
  <2> DEFINE P == {i \in DOMAIN q : RevLess(r, q[i])}
  <2>0. Ord(BranchId(r)) = Up
    BY <1>2, BranchFacts DEF Ord
  <2>1. P = Later(q, Up, r)
    BY <1>0, UpDown DEF Later
  <2>2. s = InFrontOf(q, P, r)
    BY <1>2 DEF InsertDelta, InsertBefore, InFrontOf
  <2>3. LinearOn(Revs, Ord(BranchId(r)))
    BY RevsLinear
  <2> HIDE DEF P
  <2> QED BY <2>0, <2>1, <2>2, <2>3, InsertSorted
<1> QED BY <1>1, <1>2

\* The branches there may be.
Ids == {BranchId(r) : r \in Revs}
\* The branches that can begin at a revision.
BranchesAt(r) == {b \in Ids : b # <<1>> /\ Front(b) = r}
\* rcsfile_getbranch() keeps the branches of a delta ordered.
LEMMA InsertBranchOrdered ==
    ASSUME NEW q \in Seq(Ids), OrderedBy(q, Down), NEW b \in Ids, b \notin Range(q),
           NEW s, s = InsertBranch(q, b)
    PROVE  s \in Seq(Ids) /\ OrderedBy(s, Down) /\ Range(s) = Range(q) \cup {b}
<1> DEFINE P == {i \in DOMAIN q : RevLess(q[i], b)}
<1>0. Ids \in SUBSET Seq(Nat)
  BY BranchFacts DEF Ids
<1>1. P = Later(q, Down, b)
  <2>1. \A i \in DOMAIN q : q[i] \in Seq(Nat) /\ b \in Seq(Nat)
    BY <1>0
  <2> QED BY <2>1, UpDown DEF Later
<1>2. s = InFrontOf(q, P, b)
  BY DEF InsertBranch, InsertBefore, InFrontOf
<1>3. LinearOn(Ids, Down)
  BY <1>0, RevLinear, LinearOnSubset
<1> HIDE DEF P
<1> QED BY <1>1, <1>2, <1>3, InsertSorted

\* A struct rcsfile.
IsFile(f) ==
    /\ f \in [head : {f.head}, branch : {f.branch}, tags : {f.tags}, table : Seq(Revs),
              placeholder : SUBSET Revs, list : [Ids -> Seq(Revs)],
              branches : [Revs -> Seq(Ids)], base : [Revs -> Revs \cup {None}],
              text : {f.text}]
    /\ DOMAIN f.text = Revs
\* The deltas of D are in the lists of their branches, in order, and their
\* branches at the branchpoints.
Lists(f, D) ==
    /\ \A b \in Ids : OrderedBy(f.list[b], Ord(b)) /\ Range(f.list[b]) = BranchOf(D, b)
    /\ \A r \in D : ~IsTrunk(r) => /\ BranchPoint(r) \in D
                                   /\ BranchId(r) \in Range(f.branches[BranchPoint(r)])
    /\ \A r \in Revs : /\ OrderedBy(f.branches[r], Down)
                       /\ Range(f.branches[r]) \subseteq BranchesAt(r)

\* rcsfile_createdelta() leaves the lists alone.
LEMMA CreateDeltaKeeps ==
    ASSUME NEW f, IsFile(f), NEW D \in SUBSET Revs, Lists(f, D),
           NEW r \in Revs, r \notin D, NEW p \in Revs \cup {None},
           NEW g, g = CreateDelta(f, r, p)
    PROVE  /\ IsFile(g) /\ Lists(g, D)
           /\ g.head = f.head /\ g.table = f.table /\ g.placeholder = f.placeholder
           /\ g.list = f.list /\ g.base = [f.base EXCEPT ![r] = p]
<1>1. g = [f EXCEPT !.base = [f.base EXCEPT ![r] = p], !.text = [f.text EXCEPT ![r] = NoText],
                    !.branches = [f.branches EXCEPT ![r] = <<>>]]
  BY DEF CreateDelta
<1>2. /\ g.head = f.head /\ g.table = f.table /\ g.placeholder = f.placeholder
      /\ g.list = f.list /\ g.base = [f.base EXCEPT ![r] = p]
      /\ g.branches = [f.branches EXCEPT ![r] = <<>>]
      /\ g.text = [f.text EXCEPT ![r] = NoText]
  BY <1>1 DEF IsFile
<1>3. g.base \in [Revs -> Revs \cup {None}] /\ g.branches \in [Revs -> Seq(Ids)]
  BY <1>2 DEF IsFile
<1>4. IsFile(g)
  BY <1>1, <1>2, <1>3 DEF IsFile
<1>5. \A s \in Revs : s # r => g.branches[s] = f.branches[s]
  BY <1>2 DEF IsFile
<1>6. g.branches[r] = <<>>
  BY <1>2 DEF IsFile
<1>7. \A s \in D : ~IsTrunk(s) => BranchPoint(s) \in D /\ BranchPoint(s) # r
  BY DEF Lists
<1>8. OrderedBy(<<>>, Down) /\ Range(<<>>) = {}
  BY DEF OrderedBy, Range
<1>9. \A s \in Revs : OrderedBy(g.branches[s], Down) /\ Range(g.branches[s]) \subseteq BranchesAt(s)
  BY <1>5, <1>6, <1>8 DEF Lists
<1>10. Lists(g, D)
  BY <1>2, <1>5, <1>7, <1>9 DEF Lists
<1> QED BY <1>2, <1>4, <1>10

\* rcsfile_getbranch() and rcsfile_insertdelta() put a delta in its place.
LEMMA GetBranchKeeps ==
    ASSUME NEW f, IsFile(f), NEW D \in SUBSET Revs, Lists(f, D),
           NEW r \in Revs, ~IsTrunk(r) => BranchPoint(r) \in D,
           NEW g, g = GetBranch(f, r)
    PROVE  /\ IsFile(g) /\ Lists(g, D)
           /\ g.head = f.head /\ g.table = f.table /\ g.placeholder = f.placeholder
           /\ g.base = f.base
           /\ ~IsTrunk(r) => BranchId(r) \in Range(g.branches[BranchPoint(r)])
<1> DEFINE b == BranchId(r)
           bp == BranchPoint(r)
<1>1. CASE IsTrunk(r) \/ b \in Range(f.branches[bp])
  <2>1. g = f
    BY <1>1 DEF GetBranch
  <2> QED BY <1>1, <2>1
<1>2. CASE ~IsTrunk(r) /\ b \notin Range(f.branches[bp])
  <2> DEFINE q == InsertBranch(f.branches[bp], b)
  <2>1. g = [f EXCEPT !.branches = [f.branches EXCEPT ![bp] = q],
                      !.list = [f.list EXCEPT ![b] = <<>>]]
    BY <1>2 DEF GetBranch
  <2>2. b \in Ids /\ bp \in Revs /\ f.branches[bp] \in Seq(Ids) /\ OrderedBy(f.branches[bp], Down)
    BY <1>2 DEF Ids, IsFile, Lists
  <2>3. q \in Seq(Ids) /\ OrderedBy(q, Down) /\ Range(q) = Range(f.branches[bp]) \cup {b}
    BY <1>2, <2>2, InsertBranchOrdered
  <2>4. b \in BranchesAt(bp)
    BY <1>2, <2>2, BranchFacts DEF BranchesAt
  <2> HIDE DEF q
  <2>5. /\ g.head = f.head /\ g.table = f.table /\ g.placeholder = f.placeholder
        /\ g.base = f.base /\ g.text = f.text
        /\ g.branches = [f.branches EXCEPT ![bp] = q]
        /\ g.list = [f.list EXCEPT ![b] = <<>>]
    BY <2>1 DEF IsFile
  <2>6. /\ g.branches \in [Revs -> Seq(Ids)] /\ g.list \in [Ids -> Seq(Revs)]
        /\ g.branches[bp] = q /\ \A s \in Revs : s # bp => g.branches[s] = f.branches[s]
        /\ g.list[b] = <<>> /\ \A c \in Ids : c # b => g.list[c] = f.list[c]
    BY <2>2, <2>3, <2>5 DEF IsFile
  <2>7. IsFile(g)
    BY <2>1, <2>5, <2>6 DEF IsFile
  <2>8. BranchOf(D, b) = {}
    <3> SUFFICES ASSUME NEW s \in D, BranchId(s) = b PROVE FALSE
      BY DEF BranchOf
    <3>1. ~IsTrunk(s) /\ BranchPoint(s) = bp
      BY <1>2, SameBranch
    <3>2. BranchId(s) \in Range(f.branches[bp])
      BY <3>1 DEF Lists
    <3> QED BY <1>2, <3>2
  <2>9. OrderedBy(<<>>, Ord(b)) /\ Range(<<>>) = {}
    BY DEF OrderedBy, Range
  <2>10. \A c \in Ids : OrderedBy(g.list[c], Ord(c)) /\ Range(g.list[c]) = BranchOf(D, c)
    BY <2>6, <2>8, <2>9 DEF Lists
  <2>11. \A s \in Revs : Range(f.branches[s]) \subseteq Range(g.branches[s])
    BY <2>3, <2>6
  <2>12. \A s \in D : ~IsTrunk(s) => /\ BranchPoint(s) \in D
                                     /\ BranchId(s) \in Range(g.branches[BranchPoint(s)])
    BY <2>11 DEF Lists
  <2>13. \A s \in Revs : OrderedBy(g.branches[s], Down)
                         /\ Range(g.branches[s]) \subseteq BranchesAt(s)
    BY <2>3, <2>4, <2>6 DEF Lists
  <2>14. Lists(g, D)
    BY <2>10, <2>12, <2>13 DEF Lists
  <2>15. b \in Range(g.branches[bp])
    BY <2>3, <2>6
  <2> QED BY <2>5, <2>7, <2>14, <2>15
<1> QED BY <1>1, <1>2

\* rcsfile_insertdelta(): a delta put on its branch leaves the lists as they must be.
LEMMA InsertKeeps ==
    ASSUME NEW f, IsFile(f), NEW D \in SUBSET Revs, Lists(f, D),
           NEW r \in Revs, r \notin D, ~IsTrunk(r) => BranchPoint(r) \in D,
           NEW g, g = Insert(f, r)
    PROVE  /\ IsFile(g) /\ Lists(g, D \cup {r})
           /\ g.head = f.head /\ g.table = f.table /\ g.placeholder = f.placeholder
           /\ g.base = f.base
<1> DEFINE h == GetBranch(f, r)
           b == BranchId(r)
           q == InsertDelta(h.list[b], r)
<1>1. /\ IsFile(h) /\ Lists(h, D)
      /\ h.head = f.head /\ h.table = f.table /\ h.placeholder = f.placeholder
      /\ h.base = f.base
      /\ ~IsTrunk(r) => b \in Range(h.branches[BranchPoint(r)])
  BY GetBranchKeeps
<1>2. g = [h EXCEPT !.list = [h.list EXCEPT ![b] = q]]
  BY DEF Insert
<1> HIDE DEF h
<1>3. b \in Ids /\ h.list[b] \in Seq(Revs) /\ OrderedBy(h.list[b], Ord(b))
      /\ Range(h.list[b]) = BranchOf(D, b)
  BY <1>1 DEF Ids, IsFile, Lists
<1>4. q \in Seq(Revs) /\ OrderedBy(q, Ord(b)) /\ Range(q) = BranchOf(D, b) \cup {r}
  <2>1. r \notin Range(h.list[b])
    BY <1>3 DEF BranchOf
  <2> QED BY <1>3, <2>1, InsertDeltaOrdered
<1> HIDE DEF q
<1>5. /\ g.head = h.head /\ g.table = h.table /\ g.placeholder = h.placeholder
      /\ g.base = h.base /\ g.text = h.text /\ g.branches = h.branches
      /\ g.list = [h.list EXCEPT ![b] = q]
  BY <1>1, <1>2 DEF IsFile
<1>6. g.list \in [Ids -> Seq(Revs)] /\ g.list[b] = q
      /\ \A c \in Ids : c # b => g.list[c] = h.list[c]
  BY <1>1, <1>3, <1>4, <1>5 DEF IsFile
<1>7. IsFile(g)
  BY <1>1, <1>2, <1>5, <1>6 DEF IsFile
<1>8. \A c \in Ids : BranchOf(D \cup {r}, c) =
                       IF c = b THEN BranchOf(D, c) \cup {r} ELSE BranchOf(D, c)
  BY DEF BranchOf
<1>9. \A c \in Ids : OrderedBy(g.list[c], Ord(c)) /\ Range(g.list[c]) = BranchOf(D \cup {r}, c)
  BY <1>1, <1>4, <1>6, <1>8 DEF Lists
<1>10. \A s \in D \cup {r} :
         ~IsTrunk(s) => /\ BranchPoint(s) \in D \cup {r}
                        /\ BranchId(s) \in Range(g.branches[BranchPoint(s)])
  BY <1>1, <1>5 DEF Lists
<1>11. \A s \in Revs : OrderedBy(g.branches[s], Down)
                       /\ Range(g.branches[s]) \subseteq BranchesAt(s)
  BY <1>1, <1>5 DEF Lists
<1>12. Lists(g, D \cup {r})
  BY <1>9, <1>10, <1>11 DEF Lists
<1> QED BY <1>1, <1>5, <1>7, <1>12

-----------------------------------------------------------------------------
(* Reading a file *)

\* What rcsparse() has made of the deltas of D, with those of A announced.
Parsed(f, S, D, A) ==
    /\ IsFile(f) /\ Lists(f, D) /\ OrderedBy(f.table, Up)
    /\ Range(f.table) = D \cup A /\ f.placeholder = A \ D
    /\ f.head = HeadOf(S)
    /\ \A r \in D \cup A : f.base[r] = Before(S, r)

\* A delta is put in the table.
TableWith(f, r, p, a) ==
    [f EXCEPT !.table = InsertSortedDelta(f.table, r), !.placeholder = p,
              !.base = [f.base EXCEPT ![r] = a]]
\* The delta r depends on a.
Based(f, r, a) == [f.base EXCEPT ![r] = a]
\* rcsfile_insertsorteddelta(): the table has one more revision, in order.
LEMMA InsertTable ==
    ASSUME NEW f, IsFile(f), NEW D, Lists(f, D), OrderedBy(f.table, Up),
           NEW r \in Revs, r \notin Range(f.table), NEW p \in SUBSET Revs,
           NEW a \in Revs \cup {None},
           NEW g, g = TableWith(f, r, p, a)
    PROVE  /\ IsFile(g) /\ Lists(g, D) /\ OrderedBy(g.table, Up)
           /\ Range(g.table) = Range(f.table) \cup {r} /\ g.placeholder = p
           /\ g.head = f.head /\ g.base = Based(f, r, a)
           /\ g.list = f.list /\ g.table = InsertSortedDelta(f.table, r)
<1> DEFINE s == InsertSortedDelta(f.table, r)
<1>1. s \in Seq(Revs) /\ OrderedBy(s, Up) /\ Range(s) = Range(f.table) \cup {r}
  <2>1. f.table \in Seq(Revs)
    BY DEF IsFile
  <2> QED BY <2>1, InsertSortedDeltaOrdered
<1> HIDE DEF s
<1>2. /\ g.table = s /\ g.placeholder = p /\ g.head = f.head /\ g.list = f.list
      /\ g.base = [f.base EXCEPT ![r] = a] /\ g.branches = f.branches /\ g.text = f.text
  BY DEF IsFile, s, TableWith
<1>3. g.base \in [Revs -> Revs \cup {None}]
  BY <1>2 DEF IsFile
<1>4. IsFile(g)
  BY <1>1, <1>2, <1>3 DEF IsFile, s, TableWith
<1>5. Lists(g, D)
  BY <1>2 DEF Lists
<1> QED BY <1>1, <1>2, <1>4, <1>5 DEF Based, s

\* rcsparse_deltas(): the next delta gets a placeholder.
NextTable(t, n) == IF n = None THEN t ELSE InsertSortedDelta(t, n)
\* rcsfile_addelta() of a placeholder keeps what has been read.
LEMMA AddNextKeeps ==
    ASSUME NEW S \in Trees, NEW D \in SUBSET S, NEW A \in SUBSET S,
           NEW f, Parsed(f, S, D, A), NEW r \in D,
           NextIn(S, r) \notin D \cup A,
           NEW g, g = AddNext(f, NextIn(S, r), r)
    PROVE  /\ Parsed(g, S, D, A \cup ({NextIn(S, r)} \ {None}))
           /\ g.table = NextTable(f.table, NextIn(S, r))
<1> DEFINE n == NextIn(S, r)
           B == A \cup ({n} \ {None})
<1>0. S \in SUBSET Revs /\ (n = None \/ n \in S)
  BY HeadFacts, NextFacts
<1>1. CASE n = None
  <2>1. g = f /\ B = A
    BY <1>1 DEF AddNext
  <2> QED BY <1>1, <2>1 DEF NextTable
<1>2. CASE n # None
  <2> DEFINE h == CreateDelta(f, n, r)
  <2>1. n \in S /\ n \in Revs /\ Before(S, n) = r /\ n \notin D /\ n \notin A /\ B = A \cup {n}
    BY <1>0, <1>2, NextFacts
  <2> HIDE DEF n
  <2>2. /\ IsFile(h) /\ Lists(h, D) /\ h.head = f.head /\ h.table = f.table
        /\ h.placeholder = f.placeholder /\ h.base = [f.base EXCEPT ![n] = r]
    <3>1. D \in SUBSET Revs /\ r \in Revs \cup {None}
      BY <1>0
    <3> QED BY <2>1, <3>1, CreateDeltaKeeps DEF Parsed
  <2> HIDE DEF h
  <2>3. g = [h EXCEPT !.table = InsertSortedDelta(h.table, n),
                      !.placeholder = h.placeholder \cup {n}]
    BY <1>2 DEF AddNext, h, n
  <2> DEFINE p == h.placeholder \cup {n}
  <2>4. g = TableWith(h, n, p, r)
    <3>1. h.base = [h.base EXCEPT ![n] = r]
      BY <2>2
    <3>2. h.base \in [Revs -> Revs \cup {None}] /\ h.base[n] = r
      BY <2>1, <2>2 DEF Parsed, IsFile
    <3> QED BY <2>2, <2>3, <3>1 DEF IsFile, TableWith
  <2>5. p \in SUBSET Revs /\ r \in Revs \cup {None}
        /\ n \notin Range(h.table) /\ OrderedBy(h.table, Up)
    BY <1>0, <2>1, <2>2 DEF IsFile, Parsed
  <2>p. p = h.placeholder \cup {n}
    OBVIOUS
  <2> HIDE DEF p
  <2>6. /\ IsFile(g) /\ Lists(g, D) /\ OrderedBy(g.table, Up)
        /\ Range(g.table) = Range(h.table) \cup {n} /\ g.placeholder = p
        /\ g.head = h.head /\ g.base = Based(h, n, r)
        /\ g.table = InsertSortedDelta(h.table, n)
    BY <2>1, <2>2, <2>4, <2>5, InsertTable
  <2>7. \A s \in D \cup B : g.base[s] = Before(S, s)
    BY <1>0, <2>1, <2>2, <2>6 DEF Parsed, IsFile, Based
  <2>8. Range(g.table) = D \cup B /\ g.placeholder = B \ D
    BY <2>1, <2>2, <2>6, <2>p DEF Parsed
  <2>9. Parsed(g, S, D, B)
    BY <2>2, <2>6, <2>7, <2>8 DEF Parsed
  <2>10. g.table = NextTable(f.table, n)
    BY <1>2, <2>2, <2>6 DEF NextTable
  <2> QED BY <2>9, <2>10 DEF n
<1> QED BY <1>1, <1>2

\* The deltas that the next fields of D announce.
Announced(S, D) == {NextIn(S, r) : r \in D} \ {None}
\* Every delta that has been read has the one it depends on read before it.
Grown(S, D) == \A s \in D : s = HeadOf(S) \/ Before(S, s) \in D

\* A delta announced as the next one belongs to the tree and is not read yet
\* unless its line was.
LEMMA AnnouncedFacts ==
    ASSUME NEW S \in Trees, NEW D \in SUBSET S, Grown(S, D),
           NEW r \in S, r \notin D
    PROVE  /\ Announced(S, D) \in SUBSET S
           /\ Announced(S, D \cup {r}) = Announced(S, D) \cup ({NextIn(S, r)} \ {None})
           /\ NextIn(S, r) \notin (D \cup {r}) \cup Announced(S, D)
           /\ r \in Announced(S, D) <=>
                Before(S, r) \in D /\ BranchId(Before(S, r)) = BranchId(r)
<1>0. S \in SUBSET Revs /\ \A s \in S : s # None
  BY HeadFacts, RevTypes
<1>1. Announced(S, D) \in SUBSET S
  BY NextFacts DEF Announced
<1>2. Announced(S, D \cup {r}) = Announced(S, D) \cup ({NextIn(S, r)} \ {None})
  BY DEF Announced
<1>3. NextIn(S, r) \notin (D \cup {r}) \cup Announced(S, D)
  <2> SUFFICES ASSUME NextIn(S, r) \in (D \cup {r}) \cup Announced(S, D)
               PROVE  FALSE
    OBVIOUS
  <2> DEFINE n == NextIn(S, r)
  <2>1. n \in S /\ Before(S, n) = r /\ BranchId(n) = BranchId(r)
    BY <1>1, NextFacts
  <2>2. n # r /\ n # HeadOf(S)
    BY <1>0, <2>1, BeforeFacts
  <2>3. n \notin D
    BY <2>1, <2>2 DEF Grown
  <2>4. PICK s \in D : n = NextIn(S, s)
    BY <2>2, <2>3 DEF Announced
  <2>5. Before(S, n) = s
    BY <2>1, <2>4, NextFacts
  <2> QED BY <2>1, <2>5
<1>4. r \in Announced(S, D) => Before(S, r) \in D /\ BranchId(Before(S, r)) = BranchId(r)
  <2> SUFFICES ASSUME r \in Announced(S, D)
               PROVE  Before(S, r) \in D /\ BranchId(Before(S, r)) = BranchId(r)
    OBVIOUS
  <2>1. PICK s \in D : r = NextIn(S, s)
    BY DEF Announced
  <2> QED BY <2>1, NextFacts
<1>5. Before(S, r) \in D /\ BranchId(Before(S, r)) = BranchId(r) => r \in Announced(S, D)
  <2> SUFFICES ASSUME Before(S, r) \in D, BranchId(Before(S, r)) = BranchId(r)
               PROVE  r \in Announced(S, D)
    OBVIOUS
  <2>1. NextIn(S, Before(S, r)) = r
    BY NextFacts
  <2> QED BY <1>0, <2>1 DEF Announced
<1> QED BY <1>1, <1>2, <1>3, <1>4, <1>5

\* One delta of the file.
LEMMA ImportDeltaKeeps ==
    ASSUME NEW S \in Trees, NEW D \in SUBSET S, Grown(S, D),
           NEW r \in S, r \notin D, r = HeadOf(S) \/ Before(S, r) \in D,
           NEW d, d.rev = r, d.next = NextIn(S, r),
           NEW f, Parsed(f, S, D, Announced(S, D)),
           NEW g, g = ImportDelta(f, d)
    PROVE  /\ Parsed(g, S, D \cup {r}, Announced(S, D \cup {r}))
           /\ g.table = NextTable(IF IsKnown(f, r) THEN f.table
                                  ELSE InsertSortedDelta(f.table, r), NextIn(S, r))
<1> DEFINE n == NextIn(S, r)
           A == Announced(S, D)
           E == D \cup {r}
<1>0. S \in SUBSET Revs /\ r \in Revs /\ r # None
  BY HeadFacts, RevTypes
<1>1. /\ A \in SUBSET S /\ Announced(S, E) = A \cup ({n} \ {None})
      /\ n \notin E \cup A
      /\ r \in A <=> Before(S, r) \in D /\ BranchId(Before(S, r)) = BranchId(r)
  BY AnnouncedFacts
<1>A. Parsed(f, S, D, A)
  OBVIOUS
<1>E. E = D \cup {r} /\ n = NextIn(S, r)
  OBVIOUS
<1> HIDE DEF A, n
<1>2. /\ IsKnown(f, r) <=> r \in A
      /\ r \in A => r \in f.placeholder
  BY <1>A DEF Parsed, IsKnown
<1>3. ~IsTrunk(r) => BranchPoint(r) \in D
  <2> SUFFICES ASSUME ~IsTrunk(r) PROVE BranchPoint(r) \in D
    OBVIOUS
  <2>1. r # HeadOf(S) /\ Before(S, r) \in D
    BY HeadFacts
  <2>2. CASE Preds(S, r) # {}
    <3> DEFINE p == Before(S, r)
    <3>1. BranchId(p) = BranchId(r) /\ p \in Revs /\ p \in D
      BY <1>0, <2>1, <2>2, BeforeFacts
    <3> HIDE DEF p
    <3>2. ~IsTrunk(p) /\ BranchPoint(p) = BranchPoint(r)
      BY <1>0, <3>1, SameBranch
    <3>3. BranchPoint(p) \in D
      BY <3>1, <3>2 DEF Parsed, Lists
    <3> QED BY <3>2, <3>3
  <2>3. CASE Preds(S, r) = {}
    <3>1. Before(S, r) = BranchPoint(r)
      BY <2>3, BeforeFacts
    <3> QED BY <2>1, <3>1
  <2> QED BY <2>2, <2>3
<1>4. D \in SUBSET Revs /\ E \in SUBSET S /\ r \in E
  BY <1>0
<1>5. CASE r \in A
  <2> DEFINE h == Insert(f, r)
             k == [h EXCEPT !.placeholder = h.placeholder \ {r}]
  <2>1. g = AddNext(k, n, r)
    BY <1>2, <1>5 DEF ImportDelta, n
  <2>2. /\ IsFile(h) /\ Lists(h, E) /\ h.head = f.head /\ h.table = f.table
        /\ h.placeholder = f.placeholder /\ h.base = f.base
    BY <1>0, <1>3, <1>4, InsertKeeps DEF Parsed
  <2> HIDE DEF h
  <2>3. /\ k.head = h.head /\ k.table = h.table /\ k.placeholder = h.placeholder \ {r}
        /\ k.base = h.base /\ k.list = h.list /\ k.branches = h.branches /\ k.text = h.text
    BY <2>2 DEF IsFile
  <2>4. IsFile(k)
    BY <2>2, <2>3 DEF IsFile
  <2>5. Lists(k, E)
    BY <2>2, <2>3 DEF Lists
  <2> HIDE DEF k
  <2>6. Parsed(k, S, E, A)
    BY <1>A, <1>5, <2>2, <2>3, <2>4, <2>5 DEF Parsed
  <2> HIDE DEF E
  <2>7. Parsed(g, S, E, A \cup ({n} \ {None})) /\ g.table = NextTable(k.table, n)
    <3>1. E \in SUBSET S /\ A \in SUBSET S /\ r \in E /\ NextIn(S, r) \notin E \cup A
          /\ g = AddNext(k, NextIn(S, r), r)
      BY <1>1, <1>4, <1>E, <2>1
    <3>2. /\ Parsed(g, S, E, A \cup ({NextIn(S, r)} \ {None}))
          /\ g.table = NextTable(k.table, NextIn(S, r))
      BY <2>6, <3>1, AddNextKeeps
    <3> QED BY <1>E, <3>2
  <2> QED BY <1>1, <1>2, <1>5, <1>E, <2>2, <2>3, <2>7
<1>6. CASE r \notin A
  <2> DEFINE c == CreateDelta(f, r, None)
             h == Insert(c, r)
             b == BranchId(r)
             first == ~IsTrunk(r) /\ Head(h.list[b]) = r
             a == IF first THEN BranchPoint(r) ELSE h.base[r]
             k == [h EXCEPT !.table = InsertSortedDelta(h.table, r),
                            !.base = [h.base EXCEPT ![r] = a]]
  <2>1. g = AddNext(k, n, r)
    BY <1>2, <1>6 DEF ImportDelta, n
  <2>2. /\ IsFile(c) /\ Lists(c, D) /\ c.head = f.head /\ c.table = f.table
        /\ c.placeholder = f.placeholder /\ c.base = [f.base EXCEPT ![r] = None]
    BY <1>0, <1>4, CreateDeltaKeeps DEF Parsed
  <2> HIDE DEF c
  <2>3. /\ IsFile(h) /\ Lists(h, E) /\ h.head = c.head /\ h.table = c.table
        /\ h.placeholder = c.placeholder /\ h.base = c.base
    BY <1>0, <1>3, <1>4, <2>2, InsertKeeps
  <2> HIDE DEF h
  <2>4. \/ IsTrunk(r) /\ Before(S, r) = None
        \/ ~IsTrunk(r) /\ Before(S, r) = BranchPoint(r) /\ Preds(S, r) = {}
    <3>1. Before(S, r) \in D => BranchId(Before(S, r)) # BranchId(r)
      BY <1>1, <1>6
    <3>2. /\ r = HeadOf(S) => Before(S, r) = None
          /\ Before(S, r) # None => Before(S, r) \in D
      BY BeforeFacts
    <3>3. \/ Preds(S, r) # {} /\ BranchId(Before(S, r)) = BranchId(r)
          \/ Preds(S, r) = {} /\ IsTrunk(r) /\ r = HeadOf(S) /\ Before(S, r) = None
          \/ Preds(S, r) = {} /\ ~IsTrunk(r) /\ Before(S, r) = BranchPoint(r)
      BY BeforeFacts, BeforeIs, <1>0
    <3>4. Preds(S, r) # {} => Before(S, r) # None
      <4> SUFFICES ASSUME Preds(S, r) # {} PROVE Before(S, r) # None
        OBVIOUS
      <4>1. Before(S, r) \in S
        BY <1>0, BeforeIs DEF Preds, BranchOf
      <4> QED BY <1>0, <4>1, RevTypes
    <3> QED BY <3>1, <3>2, <3>3, <3>4
  <2>5. ~IsTrunk(r) => Head(h.list[b]) = r
    <3> SUFFICES ASSUME ~IsTrunk(r) PROVE Head(h.list[b]) = r
      OBVIOUS
    <3> DEFINE q == h.list[b]
    <3>1. b \in Ids /\ q \in Seq(Revs) /\ OrderedBy(q, Ord(b)) /\ Range(q) = BranchOf(E, b)
      BY <1>0, <2>3 DEF Ids, IsFile, Lists
    <3>2. PICK i \in DOMAIN q : q[i] = r
      <4>1. r \in Range(q)
        BY <3>1 DEF BranchOf
      <4> HIDE DEF q
      <4> QED BY <4>1 DEF Range
    <3> HIDE DEF q
    <3>3. Len(q) \in Nat /\ 1 \in DOMAIN q /\ Head(q) = q[1] /\ i \in 1..Len(q)
      BY <3>1, <3>2
    <3>4. i = 1
      <4> SUFFICES ASSUME i # 1 PROVE FALSE
        OBVIOUS
      <4>0. 1 < i /\ 1 \in DOMAIN q
        BY <3>3
      <4>1. <<q[1], r>> \in Ord(b) /\ q[1] \in BranchOf(E, b)
        BY <3>1, <3>2, <4>0 DEF OrderedBy, Range
      <4>2. q[1] \in Preds(S, r)
        BY <4>1 DEF Preds, BranchOf
      <4> QED BY <2>4, <4>2
    <3> QED BY <3>2, <3>3, <3>4 DEF q
  <2>6. a = Before(S, r) /\ a \in Revs \cup {None}
    <3>1. h.base[r] = None
      BY <1>0, <2>2, <2>3 DEF Parsed, IsFile
    <3> QED BY <1>0, <1>3, <2>4, <2>5, <3>1
  <2> HIDE DEF a, first
  <2> DEFINE p == h.placeholder
  <2>7. k = TableWith(h, r, p, a)
    BY <2>3 DEF IsFile, TableWith
  <2>p. p = h.placeholder
    OBVIOUS
  <2> HIDE DEF k
  <2>8. r \notin Range(h.table) /\ OrderedBy(h.table, Up) /\ p \in SUBSET Revs
    BY <1>A, <1>6, <2>2, <2>3 DEF Parsed, IsFile
  <2> HIDE DEF p
  <2>9. /\ IsFile(k) /\ Lists(k, E) /\ OrderedBy(k.table, Up)
        /\ Range(k.table) = Range(h.table) \cup {r} /\ k.placeholder = p
        /\ k.head = h.head /\ k.base = Based(h, r, a)
        /\ k.table = InsertSortedDelta(h.table, r)
    <3> HIDE DEF E
    <3>1. IsFile(h) /\ Lists(h, E) /\ r \in Revs /\ a \in Revs \cup {None}
      BY <1>0, <2>3, <2>6
    <3>2. k.table = InsertSortedDelta(h.table, r)
      BY <2>7, <3>1 DEF TableWith, IsFile
    <3>3. /\ IsFile(k) /\ Lists(k, E) /\ OrderedBy(k.table, Up)
      BY <2>7, <2>8, <3>1, InsertTable
    <3>5. Range(k.table) = Range(h.table) \cup {r}
      BY <2>7, <2>8, <3>1, InsertTable
    <3>6. k.placeholder = p
      BY <2>7, <3>1 DEF TableWith, IsFile
    <3>4. k.head = h.head /\ k.base = Based(h, r, a)
      BY <2>7, <2>8, <3>1, InsertTable
    <3> QED BY <3>2, <3>3, <3>4, <3>5, <3>6
  <2>10. /\ Range(k.table) = E \cup A /\ k.placeholder = A \ E /\ k.head = HeadOf(S)
    BY <1>A, <1>6, <2>2, <2>3, <2>9, <2>p DEF Parsed
  <2>11. \A s \in E \cup A : k.base[s] = Before(S, s)
    <3> SUFFICES ASSUME NEW s \in E \cup A PROVE k.base[s] = Before(S, s)
      OBVIOUS
    <3>1. s \in Revs /\ f.base \in [Revs -> Revs \cup {None}]
      BY <1>0, <1>1 DEF Parsed, IsFile
    <3>2. CASE s = r
      BY <2>2, <2>3, <2>6, <2>9, <3>1, <3>2 DEF Based
    <3>3. CASE s # r
      <4>1. k.base[s] = f.base[s]
        BY <2>2, <2>3, <2>9, <3>1, <3>3 DEF Based
      <4>2. s \in D \cup A
        BY <3>3
      <4> QED BY <1>A, <4>1, <4>2 DEF Parsed
    <3> QED BY <3>2, <3>3
  <2>12. Parsed(k, S, E, A)
    BY <2>9, <2>10, <2>11 DEF Parsed
  <2> HIDE DEF E
  <2>13. Parsed(g, S, E, A \cup ({n} \ {None})) /\ g.table = NextTable(k.table, n)
    <3>1. E \in SUBSET S /\ A \in SUBSET S /\ r \in E /\ NextIn(S, r) \notin E \cup A
          /\ g = AddNext(k, NextIn(S, r), r)
      BY <1>1, <1>4, <1>E, <2>1
    <3>2. /\ Parsed(g, S, E, A \cup ({NextIn(S, r)} \ {None}))
          /\ g.table = NextTable(k.table, NextIn(S, r))
      BY <2>12, <3>1, AddNextKeeps
    <3> QED BY <1>E, <3>2
  <2> QED BY <1>1, <1>2, <1>6, <1>E, <2>2, <2>3, <2>9, <2>13
<1> QED BY <1>5, <1>6

\* A file that CVS or rcsfile_write() wrote for the tree S: a sequence of deltas,
\* each once, after the one it is made from, with its next one; and one of texts.
Shaped(x, S) ==
    /\ x.head = HeadOf(S)
    /\ \E T : x.deltas \in Seq(T)
    /\ \E T : x.texts \in Seq(T)
    /\ RevsOf(x) = S
    /\ \A i, j \in DOMAIN x.deltas : i # j => x.deltas[i].rev # x.deltas[j].rev
    /\ \A i \in DOMAIN x.deltas :
         /\ x.deltas[i].next = NextIn(S, x.deltas[i].rev)
         /\ \/ x.deltas[i].rev = HeadOf(S)
            \/ \E j \in 1..(i - 1) : x.deltas[j].rev = Before(S, x.deltas[i].rev)
    /\ {x.texts[i].rev : i \in DOMAIN x.texts} = S

\* What rcsfile_frompath() starts with.
LEMMA AdminParsed ==
    ASSUME NEW S, NEW x, x.head = HeadOf(S)
    PROVE  Parsed(ImportAdmin(x), S, {}, {}) /\ ImportAdmin(x).table = <<>>
<1> DEFINE f == ImportAdmin(x)
<1>1. f = [head |-> x.head, branch |-> x.branch, tags |-> x.tags, table |-> <<>>,
           placeholder |-> {},
           list |-> [b \in {BranchId(r) : r \in Revs} |-> <<>>],
           branches |-> [r \in Revs |-> <<>>], base |-> [r \in Revs |-> None],
           text |-> [r \in Revs |-> NoText]]
  <2> DEFINE e == EmptyFile
  <2>1. e = [head |-> None, branch |-> None, tags |-> <<>>, table |-> <<>>,
             placeholder |-> {},
             list |-> [b \in {BranchId(r) : r \in Revs} |-> <<>>],
             branches |-> [r \in Revs |-> <<>>], base |-> [r \in Revs |-> None],
             text |-> [r \in Revs |-> NoText]]
    BY DEF EmptyFile
  <2>2. f = [e EXCEPT !.head = x.head, !.branch = x.branch, !.tags = x.tags]
    BY DEF ImportAdmin
  <2> DEFINE l == [b \in {BranchId(r) : r \in Revs} |-> <<>>]
             bs == [r \in Revs |-> <<>>]
             ba == [r \in Revs |-> None]
             t == [r \in Revs |-> NoText]
  <2> HIDE DEF e, f, l, bs, ba, t
  <2>3. e = [head |-> None, branch |-> None, tags |-> <<>>, table |-> <<>>,
             placeholder |-> {}, list |-> l, branches |-> bs, base |-> ba, text |-> t]
    BY <2>1 DEF l, bs, ba, t
  <2>4. f = [head |-> x.head, branch |-> x.branch, tags |-> x.tags, table |-> <<>>,
             placeholder |-> {}, list |-> l, branches |-> bs, base |-> ba, text |-> t]
    BY <2>2, <2>3
  <2> QED BY <2>4 DEF l, bs, ba, t
<1> HIDE DEF f
<1>2. OrderedBy(<<>>, Up) /\ OrderedBy(<<>>, Down) /\ Range(<<>>) = {}
  BY DEF OrderedBy, Range
<1>3. \A b : OrderedBy(<<>>, Ord(b)) /\ BranchOf({}, b) = {}
  BY DEF OrderedBy, BranchOf
<1>4. /\ f.list \in [Ids -> Seq(Revs)] /\ f.branches \in [Revs -> Seq(Ids)]
      /\ f.base \in [Revs -> Revs \cup {None}] /\ f.table \in Seq(Revs)
      /\ DOMAIN f.text = Revs
  BY <1>1 DEF Ids
<1>5. IsFile(f)
  BY <1>1, <1>4 DEF IsFile
<1>6. \A b \in Ids : f.list[b] = <<>>
  BY <1>1 DEF Ids
<1>7. \A r \in Revs : f.branches[r] = <<>>
  BY <1>1
<1>8. Lists(f, {})
  BY <1>2, <1>3, <1>6, <1>7 DEF Lists
<1>9. Parsed(f, S, {}, {}) /\ f.table = <<>>
  BY <1>1, <1>2, <1>5, <1>8 DEF Parsed
<1> QED BY <1>9 DEF f

\* The deltas up to one of them.
Deltas(x, m) == {x.deltas[i].rev : i \in 1..m}
\* One more delta of the file is one more revision read.
LEMMA DeltasFacts ==
    ASSUME NEW S \in Trees, NEW x, Shaped(x, S), NEW m \in Nat, m < Len(x.deltas)
    PROVE  LET d == x.deltas[m + 1]
           IN /\ Deltas(x, m) \in SUBSET S /\ Grown(S, Deltas(x, m))
              /\ d.rev \in S /\ d.rev \notin Deltas(x, m)
              /\ d.rev = HeadOf(S) \/ Before(S, d.rev) \in Deltas(x, m)
              /\ d.next = NextIn(S, d.rev)
              /\ Deltas(x, m + 1) = Deltas(x, m) \cup {d.rev}
<1> DEFINE q == x.deltas
           n == Len(q)
<1>1. n \in Nat /\ DOMAIN q = 1..n /\ \A i \in 1..n : q[i].rev \in S
  BY DEF Shaped, RevsOf
<1>2. m + 1 \in 1..n /\ \A i \in 1..m : i \in 1..n /\ i # m + 1
  BY <1>1
<1>3. Deltas(x, m) \in SUBSET S
  BY <1>1, <1>2 DEF Deltas
<1>4. \A i \in 1..n : \/ q[i].rev = HeadOf(S)
                      \/ \E j \in 1..(i - 1) : q[j].rev = Before(S, q[i].rev)
  BY <1>1 DEF Shaped
<1>5. Grown(S, Deltas(x, m))
  <2> SUFFICES ASSUME NEW i \in 1..m, q[i].rev # HeadOf(S)
               PROVE  Before(S, q[i].rev) \in Deltas(x, m)
    BY DEF Grown, Deltas
  <2>1. PICK j \in 1..(i - 1) : q[j].rev = Before(S, q[i].rev)
    BY <1>2, <1>4
  <2>2. j \in 1..m
    OBVIOUS
  <2> QED BY <2>1, <2>2 DEF Deltas
<1>6. q[m + 1].rev \in S /\ q[m + 1].rev \notin Deltas(x, m)
  BY <1>1, <1>2 DEF Shaped, Deltas
<1>7. q[m + 1].rev = HeadOf(S) \/ Before(S, q[m + 1].rev) \in Deltas(x, m)
  <2>1. (m + 1) - 1 = m
    OBVIOUS
  <2> QED BY <1>2, <1>4, <2>1 DEF Deltas
<1>8. q[m + 1].next = NextIn(S, q[m + 1].rev)
  BY <1>1, <1>2 DEF Shaped
<1>9. Deltas(x, m + 1) = Deltas(x, m) \cup {q[m + 1].rev}
  <2>1. \A i \in 1..(m + 1) : i \in 1..m \/ i = m + 1
    OBVIOUS
  <2>2. \A i \in 1..m : i \in 1..(m + 1)
    OBVIOUS
  <2>3. m + 1 \in 1..(m + 1)
    OBVIOUS
  <2> QED BY <2>1, <2>2, <2>3 DEF Deltas
<1> QED BY <1>3, <1>5, <1>6, <1>7, <1>8, <1>9

\* The whole tree.
TreeOf(f, S) == Parsed(f, S, S, {})

\* A file that is only read has no lists.
ReadNext(f) == IsFile(f) /\ Lists(f, {}) /\ OrderedBy(f.table, Up)
\* rcsparse_deltas(): reading a next keeps the struct rcsfile in order.
LEMMA ReadNextKeeps ==
    ASSUME NEW f, ReadNext(f), NEW r \in Revs, NEW n,
           n = None \/ (n \in Revs /\ n \notin Range(f.table)),
           NEW g, g = AddNext(f, n, r)
    PROVE  ReadNext(g) /\ g.table = NextTable(f.table, n)
<1>1. CASE n = None
  BY <1>1 DEF AddNext, NextTable
<1>2. CASE n # None
  <2> DEFINE h == CreateDelta(f, n, r)
             p == h.placeholder \cup {n}
  <2>1. IsFile(h) /\ Lists(h, {}) /\ h.table = f.table /\ h.base = [f.base EXCEPT ![n] = r]
    BY <1>2, CreateDeltaKeeps DEF ReadNext
  <2> HIDE DEF h
  <2>2. g = [h EXCEPT !.table = InsertSortedDelta(h.table, n),
                      !.placeholder = h.placeholder \cup {n}]
    BY <1>2 DEF AddNext, h
  <2>3. g = TableWith(h, n, p, r)
    <3>1. h.base = [h.base EXCEPT ![n] = r]
      BY <2>1
    <3> QED BY <2>1, <2>2, <3>1 DEF IsFile, TableWith
  <2>4. p \in SUBSET Revs /\ r \in Revs \cup {None} /\ n \in Revs
        /\ n \notin Range(h.table) /\ OrderedBy(h.table, Up)
    BY <1>2, <2>1 DEF IsFile, ReadNext
  <2> HIDE DEF p
  <2>5. /\ IsFile(g) /\ Lists(g, {}) /\ OrderedBy(g.table, Up)
        /\ g.table = InsertSortedDelta(h.table, n)
    BY <2>1, <2>3, <2>4, InsertTable
  <2> QED BY <1>2, <2>1, <2>5 DEF ReadNext, NextTable
<1> QED BY <1>1, <1>2

\* rcsfile_importdelta() with no edits reads the tree and changes no list twice.
LEMMA ImportReadOnlyKeeps ==
    ASSUME NEW S \in Trees, NEW D \in SUBSET S, Grown(S, D),
           NEW r \in S, r \notin D,
           NEW d, d.rev = r, d.next = NextIn(S, r),
           NEW h, Parsed(h, S, D, Announced(S, D)),
           NEW f, ReadNext(f), f.table = h.table,
           NEW g, g = ImportReadOnly(f, d)
    PROVE  /\ ReadNext(g)
           /\ g.table = NextTable(IF IsKnown(h, r) THEN h.table
                                  ELSE InsertSortedDelta(h.table, r), NextIn(S, r))
<1> DEFINE n == NextIn(S, r)
           k == IF IsKnown(f, r) THEN [f EXCEPT !.placeholder = f.placeholder \ {r}]
                ELSE [f EXCEPT !.table = InsertSortedDelta(f.table, r)]
<1>1. g = AddNext(k, n, r)
  BY DEF ImportReadOnly
<1>2. IsKnown(f, r) <=> IsKnown(h, r)
  BY DEF IsKnown
<1>3. r \in Revs /\ S \in SUBSET Revs
  BY HeadFacts
<1>4. /\ ReadNext(k) /\ Range(k.table) \subseteq Range(f.table) \cup {r}
      /\ k.table = IF IsKnown(h, r) THEN h.table ELSE InsertSortedDelta(h.table, r)
  <2>1. CASE IsKnown(f, r)
    <3>1. k = [f EXCEPT !.placeholder = f.placeholder \ {r}]
      BY <2>1
    <3> HIDE DEF k
    <3>2. /\ k.table = f.table /\ k.list = f.list /\ k.branches = f.branches
          /\ k.text = f.text /\ k.placeholder = f.placeholder \ {r}
          /\ k.head = f.head /\ k.base = f.base
      BY <3>1 DEF ReadNext, IsFile
    <3>3. IsFile(k)
      BY <3>1, <3>2 DEF ReadNext, IsFile
    <3>4. Lists(k, {})
      BY <3>2 DEF ReadNext, Lists
    <3> QED BY <1>2, <2>1, <3>2, <3>3, <3>4 DEF ReadNext
  <2>2. CASE ~IsKnown(f, r)
    <3> DEFINE p == f.placeholder
               a == f.base[r]
    <3>1. k = [f EXCEPT !.table = InsertSortedDelta(f.table, r)]
      BY <2>2
    <3> HIDE DEF k
    <3>2. f.base = [f.base EXCEPT ![r] = a] /\ p \in SUBSET Revs /\ a \in Revs \cup {None}
      BY <1>3 DEF ReadNext, IsFile
    <3>3. k = TableWith(f, r, p, a)
      BY <3>1, <3>2 DEF TableWith, ReadNext, IsFile
    <3>4. IsFile(f) /\ Lists(f, {}) /\ OrderedBy(f.table, Up) /\ r \notin Range(f.table)
      BY <2>2 DEF ReadNext, IsKnown
    <3> HIDE DEF p, a
    <3>5. /\ IsFile(k) /\ Lists(k, {}) /\ OrderedBy(k.table, Up)
          /\ Range(k.table) = Range(f.table) \cup {r}
          /\ k.table = InsertSortedDelta(f.table, r)
      BY <1>3, <3>2, <3>3, <3>4, InsertTable
    <3> QED BY <1>2, <2>2, <3>5 DEF ReadNext
  <2> QED BY <2>1, <2>2
<1> HIDE DEF k
<1>5. n = None \/ (n \in Revs /\ n \notin Range(k.table))
  <2>1. n = None \/ n \in S
    BY NextFacts
  <2>2. n \notin (D \cup {r}) \cup Announced(S, D)
    BY AnnouncedFacts
  <2>3. Range(f.table) = D \cup Announced(S, D)
    BY DEF Parsed
  <2> HIDE DEF n
  <2> QED BY <1>3, <1>4, <2>1, <2>2, <2>3
<1> HIDE DEF n
<1>6. ReadNext(g) /\ g.table = NextTable(k.table, n)
  BY <1>1, <1>3, <1>4, <1>5, ReadNextKeeps
<1> QED BY <1>4, <1>6 DEF n

\* Both imports after each delta.
Imported(S, D, f, g) ==
    Parsed(f, S, D, Announced(S, D)) /\ ReadNext(g) /\ g.table = f.table
\* rcsparse_deltas(): the import of one delta, from what is read to what is read
\* with it.
LEMMA ImportsKeep ==
    ASSUME NEW S \in Trees, NEW D \in SUBSET S, Grown(S, D),
           NEW r \in S, r \notin D, r = HeadOf(S) \/ Before(S, r) \in D,
           NEW d, d.rev = r, d.next = NextIn(S, r),
           NEW f, NEW h, Imported(S, D, f, h),
           NEW g, g = ImportDelta(f, d), NEW k, k = ImportReadOnly(h, d)
    PROVE  Imported(S, D \cup {r}, g, k)
<1>1. /\ Parsed(g, S, D \cup {r}, Announced(S, D \cup {r}))
      /\ g.table = NextTable(IF IsKnown(f, r) THEN f.table
                             ELSE InsertSortedDelta(f.table, r), NextIn(S, r))
  BY ImportDeltaKeeps DEF Imported
<1>2. /\ ReadNext(k)
      /\ k.table = NextTable(IF IsKnown(f, r) THEN f.table
                             ELSE InsertSortedDelta(f.table, r), NextIn(S, r))
  BY ImportReadOnlyKeeps DEF Imported
<1> QED BY <1>1, <1>2 DEF Imported

\* rcsparse_deltas(): after the last delta the whole tree is read.
LEMMA ParseDeltas ==
    ASSUME NEW S \in Trees, NEW x, Shaped(x, S),
           NEW f, f = FoldLeft(ImportDelta, ImportAdmin(x), x.deltas),
           NEW g, g = FoldLeft(ImportReadOnly, ImportAdmin(x), x.deltas)
    PROVE  TreeOf(f, S) /\ g.table = f.table
<1> DEFINE q == x.deltas
           n == Len(q)
           s0 == ImportAdmin(x)
<1>1. PICK T : q \in Seq(T)
  BY DEF Shaped
<1> HIDE DEF s0
<1>2. PICK tr : Trace(tr, "delta", 0, s0, q, n, f)
  <2>1. \E tr : Trace(tr, "delta", 0, s0, q, Len(q), FoldLeft(ImportDelta, s0, q))
    BY <1>1, DeltaTrace
  <2> QED BY <2>1 DEF s0
<1>3. PICK rd : Trace(rd, "read", 0, s0, q, n, g)
  <2>1. \E rd : Trace(rd, "read", 0, s0, q, Len(q), FoldLeft(ImportReadOnly, s0, q))
    BY <1>1, ReadTrace
  <2> QED BY <2>1 DEF s0
<1> DEFINE I(m) == Imported(S, Deltas(x, m), tr[m], rd[m])
           N == {m \in Nat : m <= n => I(m)}
<1>4. n \in Nat /\ DOMAIN q = 1..n
  BY <1>1
<1>5. 0 \in N
  <2>1. Parsed(s0, S, {}, {}) /\ s0.table = <<>>
    BY AdminParsed DEF Shaped, s0
  <2>2. ReadNext(s0)
    BY <2>1 DEF Parsed, ReadNext
  <2>3. Deltas(x, 0) = {} /\ Announced(S, {}) = {}
    BY DEF Deltas, Announced
  <2>4. tr[0] = s0 /\ rd[0] = s0
    BY <1>2, <1>3 DEF Trace
  <2> QED BY <2>1, <2>2, <2>3, <2>4 DEF Imported
<1>6. ASSUME NEW m \in Nat, m \in N PROVE m + 1 \in N
  <2> SUFFICES ASSUME m + 1 <= n PROVE I(m + 1)
    OBVIOUS
  <2>1. m < n /\ m <= n /\ m \in 0..(n - 1)
    BY <1>4
  <2>2. I(m)
    BY <1>6, <2>1
  <2> DEFINE d == q[m + 1]
             r == d.rev
             D == Deltas(x, m)
  <2>3. /\ D \in SUBSET S /\ Grown(S, D) /\ r \in S /\ r \notin D
        /\ r = HeadOf(S) \/ Before(S, r) \in D
        /\ d.next = NextIn(S, r) /\ Deltas(x, m + 1) = D \cup {r}
    BY <2>1, DeltasFacts
  <2>4. tr[m + 1] = ImportDelta(tr[m], d)
    BY <1>2, <2>1 DEF Trace, Do
  <2>5. rd[m + 1] = ImportReadOnly(rd[m], d)
    BY <1>3, <2>1 DEF Trace, Do
  <2>6. d.rev = r
    OBVIOUS
  <2> HIDE DEF d, r, D
  <2>7. Imported(S, D, tr[m], rd[m])
    BY <2>2 DEF D
  <2>8. Imported(S, D \cup {r}, tr[m + 1], rd[m + 1])
    BY <2>3, <2>4, <2>5, <2>6, <2>7, ImportsKeep
  <2> QED BY <2>3, <2>8
<1> HIDE DEF N
<1>7. n \in N
  BY <1>4, <1>5, <1>6, NatSet
<1>8. Imported(S, Deltas(x, n), f, g)
  <2>1. tr[n] = f /\ rd[n] = g
    BY <1>2, <1>3 DEF Trace
  <2> QED BY <1>4, <1>7, <2>1 DEF N
<1>9. Deltas(x, n) = S
  BY <1>4 DEF Shaped, RevsOf, Deltas
<1>10. Announced(S, S) \subseteq S
  BY NextFacts DEF Announced
<1>11. Parsed(f, S, S, Announced(S, S)) /\ g.table = f.table
  BY <1>8, <1>9 DEF Imported
<1>12. S \cup Announced(S, S) = S \cup {} /\ Announced(S, S) \ S = {} \ S
  BY <1>10
<1>13. TreeOf(f, S)
  <2> DEFINE A == Announced(S, S)
  <2>1. Parsed(f, S, S, A) /\ S \cup A = S \cup {} /\ A \ S = {} \ S
    BY <1>11, <1>12
  <2> HIDE DEF A
  <2> QED BY <2>1 DEF TreeOf, Parsed
<1> QED BY <1>11, <1>13

\* rcsparse_deltatexts(): a text changes no list.
LEMMA ImportTextKeeps ==
    ASSUME NEW S, NEW f, TreeOf(f, S), NEW d, NEW g, g = ImportText(f, d)
    PROVE  TreeOf(g, S) /\ g.table = f.table
<1>1. CASE ~IsKnown(f, d.rev)
  BY <1>1 DEF ImportText
<1>2. CASE IsKnown(f, d.rev)
  <2> DEFINE t == [f.text EXCEPT ![d.rev] = d.text]
  <2>1. g = [f EXCEPT !.text = t]
    BY <1>2 DEF ImportText
  <2>2. IsFile(f) /\ DOMAIN t = Revs
    BY DEF TreeOf, Parsed, IsFile
  <2> HIDE DEF t
  <2>3. /\ g.head = f.head /\ g.table = f.table /\ g.placeholder = f.placeholder
        /\ g.list = f.list /\ g.base = f.base /\ g.branches = f.branches
        /\ g.text = t
    BY <2>1, <2>2 DEF IsFile
  <2>4. IsFile(g)
    BY <2>1, <2>2, <2>3 DEF IsFile
  <2>5. Lists(f, S) => Lists(g, S)
    BY <2>3 DEF Lists
  <2> QED BY <2>3, <2>4, <2>5 DEF TreeOf, Parsed
<1> QED BY <1>1, <1>2

\* A file is read into its tree, and the details are those of its deltas.
LEMMA ParseShaped ==
    ASSUME NEW S \in Trees, NEW x, Shaped(x, S), NEW f, f = Parse(x)
    PROVE  TreeOf(f, S) /\ Details(x) = f.table /\ Range(Details(x)) = S
<1> DEFINE q == x.texts
           n == Len(q)
           s0 == FoldLeft(ImportDelta, ImportAdmin(x), x.deltas)
<1>1. PICK T : q \in Seq(T)
  BY DEF Shaped
<1>2. TreeOf(s0, S) /\ Details(x) = s0.table
  BY ParseDeltas DEF Details
<1>3. f = FoldLeft(ImportText, s0, q)
  BY DEF Parse
<1> HIDE DEF s0
<1>4. PICK tr : Trace(tr, "text", 0, s0, q, n, f)
  <2>1. \E tr : Trace(tr, "text", 0, s0, q, Len(q), FoldLeft(ImportText, s0, q))
    BY <1>1, TextTrace
  <2> QED BY <1>3, <2>1
<1> DEFINE I(m) == TreeOf(tr[m], S) /\ tr[m].table = s0.table
           N == {m \in Nat : m <= n => I(m)}
<1>5. n \in Nat
  BY <1>1
<1>6. 0 \in N
  BY <1>2, <1>4 DEF Trace
<1>7. ASSUME NEW m \in Nat, m \in N PROVE m + 1 \in N
  <2> SUFFICES ASSUME m + 1 <= n PROVE I(m + 1)
    OBVIOUS
  <2>1. m <= n /\ m \in 0..(n - 1)
    BY <1>5
  <2>2. tr[m + 1] = ImportText(tr[m], q[m + 1])
    BY <1>4, <2>1 DEF Trace, Do
  <2>3. TreeOf(tr[m], S) /\ tr[m].table = s0.table
    BY <1>7, <2>1
  <2> QED BY <2>2, <2>3, ImportTextKeeps
<1> HIDE DEF N
<1>8. n \in N
  BY <1>5, <1>6, <1>7, NatSet
<1>9. TreeOf(f, S) /\ f.table = s0.table
  BY <1>4, <1>5, <1>8 DEF N, Trace
<1> QED BY <1>2, <1>9 DEF TreeOf, Parsed

\* The deltas in the order of CVS.
LEMMA OrderEnumerates ==
    ASSUME NEW S \in Trees, NEW q, q = Order(S)
    PROVE  /\ q \in Seq(S) /\ Len(q) = Cardinality(S) /\ Range(q) = S
           /\ OrderedBy(q, Ahead)
<1> DEFINE In(r, s) == IF IsTrunk(r) /\ IsTrunk(s) THEN RevLess(s, r)
                       ELSE IsTrunk(r) \/ (~IsTrunk(s) /\ RevLess(r, s))
<1>1. S \in SUBSET Revs /\ IsFiniteSet(S) /\ LinearOn(S, Ahead)
  <2>1. S \in SUBSET Revs
    BY HeadFacts
  <2> QED BY <2>1, RevSets, AheadLinear, LinearOnSubset
<1>2. q = [i \in 1..Cardinality(S) |->
             CHOOSE r \in S : Cardinality({s \in S : In(s, r)}) = i - 1]
  BY DEF Order, Sorted
<1>3. \A r \in S : {s \in S : In(s, r)} = Earlier(S, Ahead, r)
  <2> SUFFICES ASSUME NEW r \in S, NEW s \in S PROVE In(s, r) <=> <<s, r>> \in Ahead
    BY DEF Earlier
  <2>1. r \in Revs /\ s \in Revs
    BY <1>1
  <2> QED BY <2>1 DEF Ahead
<1> HIDE DEF In
<1>4. q = [i \in 1..Cardinality(S) |-> q[i]]
  BY <1>2
<1>5. ASSUME NEW i \in 1..Cardinality(S),
             \E x \in S : Cardinality(Earlier(S, Ahead, x)) = i - 1
      PROVE  q[i] \in S /\ Cardinality(Earlier(S, Ahead, q[i])) = i - 1
  <2>1. \E r \in S : Cardinality({s \in S : In(s, r)}) = i - 1
    BY <1>3, <1>5
  <2>2. q[i] = CHOOSE r \in S : Cardinality({s \in S : In(s, r)}) = i - 1
    BY <1>2
  <2>3. q[i] \in S /\ Cardinality({s \in S : In(s, q[i])}) = i - 1
    BY <2>1, <2>2
  <2> QED BY <1>3, <2>3
<1>6. /\ q \in Seq(S) /\ Len(q) = Cardinality(S) /\ Range(q) = S
      /\ \A i, j \in DOMAIN q : i < j => <<q[i], q[j]>> \in Ahead
  <2>1. Ranked(q, S, Ahead)
    BY <1>4, <1>5 DEF Ranked
  <2> QED BY <1>1, <2>1, Enumerated
<1> QED BY <1>6 DEF OrderedBy

\* The server's file is written so.
LEMMA FileOfShaped ==
    ASSUME NEW c, NEW S \in Trees, NEW x, x = FileOf(c, S)
    PROVE  Shaped(x, S)
<1> DEFINE q == Order(S)
           n == Len(q)
           br(i) == Sorted({s \in After(S, q[i]) : BranchId(s) # BranchId(q[i])}, RevLess)
           txt(r) == IF r = HeadOf(S) THEN Text(TRUE, c[r])
                     ELSE Text(FALSE, DiffOf(c[Before(S, r)], c[r]))
<1>1. /\ q \in Seq(S) /\ Range(q) = S /\ OrderedBy(q, Ahead)
  BY OrderEnumerates
<1>2. /\ x.head = HeadOf(S)
      /\ x.deltas = [i \in DOMAIN q |-> [rev |-> q[i], next |-> NextIn(S, q[i]),
                                         branches |-> br(i)]]
      /\ x.texts = [i \in DOMAIN q |-> [rev |-> q[i], text |-> txt(q[i])]]
  BY DEF FileOf
<1> HIDE DEF q, br, txt
<1>3. n \in Nat /\ DOMAIN q = 1..n /\ \A i \in 1..n : q[i] \in S
  BY <1>1
<1>4. S \in SUBSET Revs /\ LinearOn(Revs, Ahead)
  BY HeadFacts, AheadLinear
<1>5. \A i \in 1..n : x.deltas[i].rev = q[i] /\ x.deltas[i].next = NextIn(S, q[i])
  BY <1>2, <1>3
<1>6. \A i \in 1..n : x.texts[i].rev = q[i]
  BY <1>2, <1>3
<1>7. DOMAIN x.deltas = 1..n /\ DOMAIN x.texts = 1..n
  BY <1>2, <1>3
<1>8. \E T : x.deltas \in Seq(T)
  <2> DEFINE T == {x.deltas[i] : i \in 1..n}
  <2>1. x.deltas = [i \in 1..n |-> x.deltas[i]]
    BY <1>2, <1>3
  <2>2. x.deltas \in [1..n -> T]
    BY <2>1
  <2> HIDE DEF T
  <2> QED BY <1>3, <2>2, FunctionSeq
<1>9. \E T : x.texts \in Seq(T)
  <2> DEFINE T == {x.texts[i] : i \in 1..n}
  <2>1. x.texts = [i \in 1..n |-> x.texts[i]]
    BY <1>2, <1>3
  <2>2. x.texts \in [1..n -> T]
    BY <2>1
  <2> HIDE DEF T
  <2> QED BY <1>3, <2>2, FunctionSeq
<1> HIDE DEF n
<1>10. {q[i] : i \in 1..n} = S
  BY <1>1, <1>3 DEF Range
<1>11. RevsOf(x) = S /\ {x.texts[i].rev : i \in DOMAIN x.texts} = S
  BY <1>5, <1>6, <1>7, <1>10 DEF RevsOf
<1>12. \A i, j \in 1..n : i < j => <<q[i], q[j]>> \in Ahead
  BY <1>1, <1>3 DEF OrderedBy
<1>13. \A i, j \in 1..n : i # j => q[i] # q[j]
  <2> SUFFICES ASSUME NEW i \in 1..n, NEW j \in 1..n, i # j, q[i] = q[j] PROVE FALSE
    OBVIOUS
  <2>1. i < j \/ j < i
    OBVIOUS
  <2>2. q[i] \in Revs /\ <<q[i], q[i]>> \notin Ahead
    BY <1>3, <1>4 DEF LinearOn
  <2> QED BY <1>12, <2>1, <2>2
<1>14. ASSUME NEW i \in 1..n, q[i] # HeadOf(S)
       PROVE  \E j \in 1..(i - 1) : q[j] = Before(S, q[i])
  <2> DEFINE p == Before(S, q[i])
  <2>1. p \in S /\ <<p, q[i]>> \in Ahead
    BY <1>3, <1>14, BeforeFacts
  <2> HIDE DEF p
  <2>2. PICK j \in 1..n : q[j] = p
    BY <1>10, <2>1
  <2>3. j < i
    <3> SUFFICES ASSUME ~(j < i) PROVE FALSE
      OBVIOUS
    <3>1. i = j \/ i < j
      OBVIOUS
    <3>2. q[i] \in Revs /\ p \in Revs
      BY <1>3, <1>4, <2>1
    <3>3. <<q[i], p>> \in Ahead \/ p = q[i]
      BY <1>12, <2>2, <3>1
    <3> QED BY <1>4, <2>1, <3>2, <3>3 DEF LinearOn
  <2>4. j \in 1..(i - 1)
    BY <2>3
  <2> QED BY <2>2, <2>4 DEF p
<1>15. ASSUME NEW i \in DOMAIN x.deltas
       PROVE  /\ x.deltas[i].next = NextIn(S, x.deltas[i].rev)
              /\ \/ x.deltas[i].rev = HeadOf(S)
                 \/ \E j \in 1..(i - 1) : x.deltas[j].rev = Before(S, x.deltas[i].rev)
  <2>1. i \in 1..n /\ x.deltas[i].rev = q[i] /\ x.deltas[i].next = NextIn(S, q[i])
    BY <1>5, <1>7, <1>15
  <2>2. CASE q[i] # HeadOf(S)
    <3>1. PICK j \in 1..(i - 1) : q[j] = Before(S, q[i])
      BY <1>14, <2>1, <2>2
    <3>2. j \in 1..n
      BY <1>3, <2>1 DEF n
    <3> QED BY <1>5, <2>1, <3>1, <3>2
  <2> QED BY <2>1, <2>2
<1>16. \A i, j \in DOMAIN x.deltas : i # j => x.deltas[i].rev # x.deltas[j].rev
  BY <1>5, <1>7, <1>13
<1> QED BY <1>2, <1>8, <1>9, <1>11, <1>15, <1>16 DEF Shaped

-----------------------------------------------------------------------------
(* Editing *)

\* What is kept depends on nothing else.
LEMMA KeptFacts ==
    ASSUME NEW S \in Trees, NEW G \in Trees, HeadOf(S) \in G,
           NEW K, K = Kept(S, G)
    PROVE  /\ K \in SUBSET S /\ K \in SUBSET G /\ HeadOf(S) \in K
           /\ \A r \in K : r = HeadOf(S) \/ (Before(S, r) = Before(G, r) /\ Before(S, r) \in K)
           /\ \A r \in K : ~IsTrunk(r) => BranchPoint(r) \in K
<1> DEFINE C == {L \in SUBSET (S \cap G) :
                   \A r \in L : \/ r = HeadOf(S)
                                \/ Before(S, r) = Before(G, r) /\ Before(S, r) \in L}
<1>1. K = UNION C
  BY DEF Kept
<1>2. \A L \in C : /\ L \subseteq S \cap G
                   /\ \A r \in L : \/ r = HeadOf(S)
                                   \/ Before(S, r) = Before(G, r) /\ Before(S, r) \in L
  OBVIOUS
<1>3. {HeadOf(S)} \in C
  BY HeadFacts
<1> HIDE DEF C
<1>4. K \in SUBSET S /\ K \in SUBSET G /\ HeadOf(S) \in K
  BY <1>1, <1>2, <1>3
<1>5. ASSUME NEW r \in K
      PROVE  r = HeadOf(S) \/ (Before(S, r) = Before(G, r) /\ Before(S, r) \in K)
  <2>1. PICK L \in C : r \in L
    BY <1>1
  <2> QED BY <1>1, <1>2, <2>1
<1>6. \A r \in K : ~IsTrunk(r) => BranchPoint(r) \in K
  <2> DEFINE T == {r \in K : ~IsTrunk(r) /\ BranchPoint(r) \notin K}
  <2> SUFFICES ASSUME T # {} PROVE FALSE
    OBVIOUS
  <2>1. T \in SUBSET S
    BY <1>4
  <2>2. PICK x \in T : Before(S, x) \notin T
    BY <2>1, FirstWithout
  <2>3. x \in K /\ ~IsTrunk(x) /\ BranchPoint(x) \notin K /\ x \in S
    BY <1>4
  <2>4. x # HeadOf(S)
    BY <2>3, HeadFacts
  <2> DEFINE p == Before(S, x)
  <2>5. p \in K /\ p \in S /\ p \in Revs /\ x \in Revs
    BY <1>4, <1>5, <2>3, <2>4, HeadFacts
  <2>6. BranchId(p) = BranchId(x) \/ p = BranchPoint(x)
    BY <2>3, BeforeFacts
  <2>7. ~(p \in K /\ ~IsTrunk(p) /\ BranchPoint(p) \notin K)
    BY <2>2
  <2> HIDE DEF p, T
  <2>8. BranchId(p) = BranchId(x)
    BY <2>3, <2>5, <2>6
  <2>9. ~IsTrunk(p) /\ BranchPoint(p) = BranchPoint(x)
    BY <2>3, <2>5, <2>8, SameBranch
  <2> QED BY <2>3, <2>5, <2>7, <2>9
<1> QED BY <1>4, <1>5, <1>6

\* A file that has the deltas of D, in its table and its lists.
Sound(f, D) ==
    IsFile(f) /\ Lists(f, D) /\ OrderedBy(f.table, Up) /\ Range(f.table) = D

\* rcsfile_deleterev()
Deleted(f, r) ==
    [CreateDelta(f, r, None) EXCEPT
       !.list[BranchId(r)] = RemoveFirst(@, r), !.table = RemoveFirst(@, r)]

\* What rcsfile_deleterev() makes of f, with r gone from D.
Without(f, D, r, g) ==
    /\ Sound(g, D \ {r})
    /\ g.placeholder = f.placeholder /\ g.head = f.head
    /\ \A s \in Revs : s # r => g.base[s] = f.base[s]
\* rcsfile_deleterev(): the lists lose r and stay as they must be.
LEMMA DeleteKeeps ==
    ASSUME NEW D \in SUBSET Revs, NEW f, Sound(f, D), NEW r \in D,
           \A s \in D : ~IsTrunk(s) => BranchPoint(s) # r,
           NEW g, g = Deleted(f, r)
    PROVE  Without(f, D, r, g)
<1> DEFINE b == BranchId(r)
           q == Removed(f.list[b], r)
           t == Removed(f.table, r)
           E == D \ {r}
<1>0. r \in Revs /\ b \in Ids /\ IsFile(f) /\ Lists(f, D)
  BY DEF Sound, Ids
<1>1. /\ q \in Seq(Revs) /\ OrderedBy(q, Ord(b)) /\ Range(q) = BranchOf(D, b) \ {r}
  <2> DEFINE l == f.list[b]
             O == Ord(b)
  <2>1. l \in Seq(Revs) /\ OrderedBy(l, O) /\ Range(l) = BranchOf(D, b)
    BY <1>0 DEF IsFile, Lists
  <2>2. r \in Range(l) /\ LinearOn(Revs, O)
    BY <2>1, RevsLinear DEF BranchOf
  <2>3. q = Removed(l, r)
    OBVIOUS
  <2> HIDE DEF l, O, q
  <2>4. q \in Seq(Revs) /\ OrderedBy(q, O) /\ Range(q) = Range(l) \ {r}
    BY <2>1, <2>2, <2>3, RemovedFirst
  <2> QED BY <2>1, <2>4 DEF O
<1>2. t \in Seq(Revs) /\ OrderedBy(t, Up) /\ Range(t) = E
  <2>1. f.table \in Seq(Revs) /\ OrderedBy(f.table, Up) /\ r \in Range(f.table)
        /\ LinearOn(Revs, Up)
    BY RevsLinear DEF Sound, IsFile
  <2>2. t \in Seq(Revs) /\ OrderedBy(t, Up) /\ Range(t) = Range(f.table) \ {r}
    BY <2>1, RemovedFirst
  <2> QED BY <2>2 DEF Sound
<1> DEFINE h == CreateDelta(f, r, None)
<1>3. g = [h EXCEPT !.list = [h.list EXCEPT ![b] = Removed(h.list[b], r)],
                    !.table = Removed(h.table, r)]
  BY DEF Deleted, Removed
<1>4. h = [f EXCEPT !.base = [f.base EXCEPT ![r] = None], !.text = [f.text EXCEPT ![r] = NoText],
                    !.branches = [f.branches EXCEPT ![r] = <<>>]]
  BY DEF CreateDelta
<1>5. /\ h.head = f.head /\ h.table = f.table /\ h.placeholder = f.placeholder
      /\ h.list = f.list /\ h.base = [f.base EXCEPT ![r] = None]
      /\ h.branches = [f.branches EXCEPT ![r] = <<>>]
      /\ h.text = [f.text EXCEPT ![r] = NoText]
      /\ h.branch = f.branch /\ h.tags = f.tags
      /\ h = [head |-> h.head, branch |-> h.branch, tags |-> h.tags, table |-> h.table,
              placeholder |-> h.placeholder, list |-> h.list, branches |-> h.branches,
              base |-> h.base, text |-> h.text]
  BY <1>0, <1>4 DEF IsFile
<1> HIDE DEF h
<1>6. g = [h EXCEPT !.list = [f.list EXCEPT ![b] = q], !.table = t]
  BY <1>3, <1>5
<1> HIDE DEF q, t
<1>7. /\ g.head = f.head /\ g.table = t /\ g.placeholder = f.placeholder
      /\ g.list = [f.list EXCEPT ![b] = q] /\ g.base = [f.base EXCEPT ![r] = None]
      /\ g.branches = [f.branches EXCEPT ![r] = <<>>]
      /\ g.text = [f.text EXCEPT ![r] = NoText]
      /\ g = [head |-> g.head, branch |-> g.branch, tags |-> g.tags, table |-> g.table,
              placeholder |-> g.placeholder, list |-> g.list, branches |-> g.branches,
              base |-> g.base, text |-> g.text]
  BY <1>5, <1>6
<1>8. /\ g.base \in [Revs -> Revs \cup {None}] /\ g.branches \in [Revs -> Seq(Ids)]
      /\ g.list \in [Ids -> Seq(Revs)] /\ DOMAIN g.text = Revs /\ g.table \in Seq(Revs)
      /\ g.placeholder \in SUBSET Revs
  BY <1>0, <1>1, <1>2, <1>7 DEF IsFile
<1>9. IsFile(g)
  BY <1>7, <1>8 DEF IsFile
<1>10. /\ \A s \in Revs : s # r => g.branches[s] = f.branches[s] /\ g.base[s] = f.base[s]
       /\ g.branches[r] = <<>>
       /\ g.list[b] = q /\ \A c \in Ids : c # b => g.list[c] = f.list[c]
  BY <1>0, <1>7 DEF IsFile
<1>11. \A c \in Ids : BranchOf(E, c) = IF c = b THEN BranchOf(D, c) \ {r} ELSE BranchOf(D, c)
  BY DEF BranchOf
<1>12. \A c \in Ids : OrderedBy(g.list[c], Ord(c)) /\ Range(g.list[c]) = BranchOf(E, c)
  BY <1>0, <1>1, <1>10, <1>11 DEF Lists
<1>13. \A s \in E : ~IsTrunk(s) => /\ BranchPoint(s) \in E
                                   /\ BranchId(s) \in Range(g.branches[BranchPoint(s)])
  BY <1>0, <1>10 DEF Lists
<1>14. OrderedBy(<<>>, Down) /\ Range(<<>>) = {}
  BY DEF OrderedBy, Range
<1>15. \A s \in Revs : /\ OrderedBy(g.branches[s], Down)
                       /\ Range(g.branches[s]) \subseteq BranchesAt(s)
  BY <1>0, <1>10, <1>14 DEF Lists
<1>16. Lists(g, E)
  BY <1>12, <1>13, <1>15 DEF Lists
<1> QED BY <1>2, <1>7, <1>9, <1>10, <1>16 DEF Sound, Without

\* rcsfile_addelta()
Added(f, r, base, text) ==
    [Insert(CreateDelta(f, r, base), r) EXCEPT !.table = InsertSortedDelta(@, r),
                                               !.text[r] = text]
\* What rcsfile_addelta() makes of f, with r come to D.
With(f, D, r, p, g) ==
    /\ Sound(g, D \cup {r})
    /\ g.placeholder = f.placeholder /\ g.head = f.head
    /\ \A s \in Revs : g.base[s] = IF s = r THEN p ELSE f.base[s]
\* rcsfile_addelta(): the lists get r and stay as they must be.
LEMMA AddKeeps ==
    ASSUME NEW D \in SUBSET Revs, NEW f, Sound(f, D), NEW r \in Revs, r \notin D,
           NEW p \in Revs \cup {None}, ~IsTrunk(r) => BranchPoint(r) \in D,
           NEW x, NEW g, g = Added(f, r, p, x)
    PROVE  With(f, D, r, p, g)
<1> DEFINE k == CreateDelta(f, r, p)
           h == Insert(k, r)
           E == D \cup {r}
           t == InsertSortedDelta(f.table, r)
<1>0. IsFile(f) /\ Lists(f, D) /\ Range(f.table) = D
  BY DEF Sound
<1>1. /\ IsFile(k) /\ Lists(k, D)
      /\ k.head = f.head /\ k.table = f.table /\ k.placeholder = f.placeholder
      /\ k.base = [f.base EXCEPT ![r] = p]
  BY <1>0, CreateDeltaKeeps
<1> HIDE DEF k
<1>2. /\ IsFile(h) /\ Lists(h, E)
      /\ h.head = k.head /\ h.table = k.table /\ h.placeholder = k.placeholder
      /\ h.base = k.base
  BY <1>1, InsertKeeps
<1>3. g = [h EXCEPT !.table = InsertSortedDelta(h.table, r), !.text = [h.text EXCEPT ![r] = x]]
  BY DEF Added, k
<1> HIDE DEF h
<1>4. t \in Seq(Revs) /\ OrderedBy(t, Up) /\ Range(t) = E
  <2>1. f.table \in Seq(Revs) /\ OrderedBy(f.table, Up) /\ r \notin Range(f.table)
    BY DEF Sound, IsFile
  <2>2. t \in Seq(Revs) /\ OrderedBy(t, Up) /\ Range(t) = Range(f.table) \cup {r}
    BY <2>1, InsertSortedDeltaOrdered
  <2> QED BY <1>0, <2>2
<1>5. g = [h EXCEPT !.table = t, !.text = [h.text EXCEPT ![r] = x]]
  BY <1>1, <1>2, <1>3
<1> HIDE DEF t
<1>6. /\ g.head = f.head /\ g.table = t /\ g.placeholder = f.placeholder
      /\ g.list = h.list /\ g.base = [f.base EXCEPT ![r] = p]
      /\ g.branches = h.branches /\ g.text = [h.text EXCEPT ![r] = x]
  BY <1>1, <1>2, <1>5 DEF IsFile
<1>7. IsFile(g)
  BY <1>2, <1>4, <1>5, <1>6 DEF IsFile
<1>8. Lists(g, E)
  BY <1>2, <1>6 DEF Lists
<1>9. \A s \in Revs : g.base[s] = IF s = r THEN p ELSE f.base[s]
  BY <1>0, <1>6 DEF IsFile
<1> QED BY <1>4, <1>6, <1>7, <1>8, <1>9 DEF Sound, With

\* The branch and the tags do not matter.
LEMMA AdminKeeps ==
    ASSUME NEW D, NEW f, Sound(f, D), NEW x,
           NEW g, g = [f EXCEPT !.branch = x] \/ g = [f EXCEPT !.tags = x]
    PROVE  /\ Sound(g, D)
           /\ g.placeholder = f.placeholder /\ g.head = f.head /\ g.base = f.base
           /\ g.table = f.table
<1>1. /\ g.head = f.head /\ g.table = f.table /\ g.placeholder = f.placeholder
      /\ g.list = f.list /\ g.base = f.base /\ g.branches = f.branches /\ g.text = f.text
  BY DEF Sound, IsFile
<1>2. IsFile(g)
  BY <1>1 DEF Sound, IsFile
<1>3. Lists(g, D)
  BY <1>1 DEF Sound, Lists
<1> QED BY <1>1, <1>2, <1>3 DEF Sound

-----------------------------------------------------------------------------
(* Writing a file *)

\* The delta behind one in its list is the one made from it.
LEMMA ListNext ==
    ASSUME NEW G \in Trees, NEW f, Sound(f, G), NEW r \in G
    PROVE  NextOf(f, r) = NextIn(G, r)
<1> DEFINE b == BranchId(r)
           q == f.list[b]
           R == Ord(b)
           k == CHOOSE i \in DOMAIN q : q[i] = r
           n == Len(q)
<1>0. G \in SUBSET Revs /\ r \in Revs /\ b \in Ids /\ LinearOn(Revs, R)
  BY HeadFacts, RevsLinear DEF Ids
<1>1. q \in Seq(Revs) /\ OrderedBy(q, R) /\ Range(q) = BranchOf(G, b)
  BY <1>0 DEF Sound, IsFile, Lists
<1>2. NextOf(f, r) = IF k = n THEN None ELSE q[k + 1]
  BY DEF NextOf
<1>3. \A s \in G : BranchId(s) = b => s \in Range(q)
  BY <1>1 DEF BranchOf
<1>4. \A s \in Range(q) : s \in G /\ s \in Revs /\ BranchId(s) = b
  BY <1>0, <1>1 DEF BranchOf
<1>5. \A s \in G : BranchId(s) = b =>
        Preds(G, s) = {p \in Range(q) : <<p, s>> \in R}
  BY <1>1 DEF Preds
<1> HIDE DEF q, R
<1>6. n \in Nat /\ DOMAIN q = 1..n /\ \A i \in 1..n : q[i] \in Range(q)
  BY <1>1 DEF Range
<1>7. k \in 1..n /\ q[k] = r
  <2>1. \E i \in DOMAIN q : q[i] = r
    BY <1>3 DEF Range
  <2> QED BY <1>6, <2>1
<1> HIDE DEF k, n
<1>8. \A i, j \in 1..n : i < j => <<q[i], q[j]>> \in R
  BY <1>1, <1>6 DEF OrderedBy
<1>9. \A p, s \in Revs : <<p, s>> \in R => <<s, p>> \notin R /\ p # s
  BY <1>0 DEF LinearOn
<1>10. CASE k = n
  <2> SUFFICES ASSUME NextIn(G, r) # None PROVE FALSE
    BY <1>2, <1>10
  <2> DEFINE s == NextIn(G, r)
  <2>1. s \in G /\ Before(G, s) = r /\ BranchId(s) = b
    BY NextFacts
  <2> HIDE DEF s, b
  <2>2. s \in Revs
    BY <1>0, <2>1
  <2>3. r \in Preds(G, s)
    <3>1. ~IsTrunk(s) => r # BranchPoint(s)
      BY <1>0, <2>1, <2>2, SameBranch DEF b
    <3>2. r # None
      BY <1>0, RevTypes
    <3>3. Preds(G, s) # {}
      BY <2>1, <3>1, <3>2, BeforeFacts
    <3> QED BY <1>0, <2>1, <2>2, <3>3, BeforeIs
  <2>4. <<r, s>> \in R /\ s \in Range(q)
    BY <1>3, <1>5, <2>1, <2>3
  <2>5. PICK j \in 1..n : q[j] = s
    BY <1>6, <2>4 DEF Range
  <2>6. j = k \/ j < k
    BY <1>6, <1>10
  <2>7. s = r \/ <<s, r>> \in R
    BY <1>7, <1>8, <2>5, <2>6
  <2> QED BY <1>0, <1>9, <2>2, <2>4, <2>7
<1>11. CASE k # n
  <2>1. k + 1 \in 1..n /\ k < k + 1
    BY <1>6, <1>7, <1>11
  <2> DEFINE s == q[k + 1]
  <2>2. s \in G /\ s \in Revs /\ BranchId(s) = b /\ <<r, s>> \in R
    BY <1>4, <1>6, <1>7, <1>8, <2>1
  <2>0. s = q[k + 1]
    OBVIOUS
  <2> HIDE DEF s
  <2> DEFINE p == Before(G, s)
  <2>3. r \in Preds(G, s)
    BY <1>3, <1>5, <2>2
  <2>4. /\ p \in Preds(G, s)
        /\ \A t \in Preds(G, s) : t = p \/ <<t, p>> \in Ord(BranchId(s))
    <3>1. Preds(G, s) # {}
      BY <2>3
    <3> QED BY <1>0, <2>2, <3>1, BeforeIs
  <2> HIDE DEF p
  <2>5. p \in Range(q) /\ <<p, s>> \in R /\ p \in Revs /\ (r = p \/ <<r, p>> \in R)
    BY <1>4, <1>5, <2>2, <2>3, <2>4 DEF R
  <2>6. PICK j \in 1..n : q[j] = p
    BY <1>6, <2>5 DEF Range
  <2>7. j <= k
    <3> SUFFICES ASSUME ~(j <= k) PROVE FALSE
      OBVIOUS
    <3>1. j = k + 1 \/ k + 1 < j
      BY <1>6, <1>7
    <3>2. p = s \/ <<s, p>> \in R
      BY <1>8, <2>0, <2>1, <2>6, <3>1
    <3> QED BY <1>9, <2>2, <2>5, <3>2
  <2>8. j = k \/ j < k
    BY <1>6, <1>7, <2>7
  <2>9. p = r \/ <<p, r>> \in R
    BY <1>7, <1>8, <2>6, <2>8
  <2>10. p = r
    BY <1>0, <1>9, <2>5, <2>9
  <2>11. NextIn(G, r) = s
    BY <2>2, <2>10, NextFacts DEF p
  <2> QED BY <1>2, <1>11, <2>0, <2>11
<1> QED BY <1>10, <1>11

\* The first in a list is not made from another one in it.
LEMMA ListFirst ==
    ASSUME NEW G \in Trees, NEW f, Sound(f, G), NEW b \in Ids
    PROVE  /\ f.list[b] = <<>> <=> BranchOf(G, b) = {}
           /\ f.list[b] # <<>> =>
                /\ Head(f.list[b]) \in G /\ BranchId(Head(f.list[b])) = b
                /\ \A s \in BranchOf(G, b) : s = Head(f.list[b]) <=> Preds(G, s) = {}
<1> DEFINE q == f.list[b]
           R == Ord(b)
<1>0. G \in SUBSET Revs /\ LinearOn(Revs, R)
  BY HeadFacts, RevsLinear
<1>1. q \in Seq(Revs) /\ OrderedBy(q, R) /\ Range(q) = BranchOf(G, b)
  BY DEF Sound, IsFile, Lists
<1>2. \A s \in BranchOf(G, b) : Preds(G, s) = {p \in Range(q) : <<p, s>> \in R}
                                /\ s \in G /\ s \in Revs /\ BranchId(s) = b
  BY <1>0, <1>1 DEF Preds, BranchOf
<1> HIDE DEF q, R
<1>3. Len(q) \in Nat /\ DOMAIN q = 1..Len(q)
  BY <1>1
<1>4. q = <<>> <=> Range(q) = {}
  <2>1. q = <<>> => Range(q) = {}
    BY DEF Range
  <2>2. q # <<>> => 1 \in 1..Len(q)
    BY <1>1, <1>3
  <2> QED BY <1>3, <2>1, <2>2 DEF Range
<1>5. ASSUME q # <<>>
      PROVE  /\ Head(q) \in G /\ BranchId(Head(q)) = b
             /\ \A s \in BranchOf(G, b) : s = Head(q) <=> Preds(G, s) = {}
  <2>1. 1 \in 1..Len(q) /\ Head(q) = q[1]
    BY <1>1, <1>3, <1>5
  <2>2. q[1] \in Range(q)
    BY <1>3, <2>1 DEF Range
  <2>3. q[1] \in Revs /\ q[1] \in G /\ BranchId(q[1]) = b
    BY <1>1, <1>2, <2>2
  <2>4. ASSUME NEW s \in BranchOf(G, b)
        PROVE  s = q[1] \/ <<q[1], s>> \in R
    <3>1. PICK j \in 1..Len(q) : q[j] = s
      BY <1>1, <1>3, <2>4 DEF Range
    <3>2. j = 1 \/ 1 < j
      OBVIOUS
    <3> QED BY <1>1, <1>3, <2>1, <3>1, <3>2 DEF OrderedBy
  <2>5. ASSUME NEW s \in BranchOf(G, b), s # q[1] PROVE Preds(G, s) # {}
    BY <1>2, <2>2, <2>4, <2>5
  <2>6. Preds(G, q[1]) = {}
    <3> SUFFICES ASSUME NEW p \in Preds(G, q[1]) PROVE FALSE
      OBVIOUS
    <3>1. p \in Range(q) /\ <<p, q[1]>> \in R /\ p \in Revs
      BY <1>1, <1>2, <2>2
    <3>2. p = q[1] \/ <<q[1], p>> \in R
      BY <1>1, <2>4, <3>1
    <3> QED BY <1>0, <2>3, <3>1, <3>2 DEF LinearOn
  <2> QED BY <2>1, <2>3, <2>5, <2>6
<1> QED BY <1>1, <1>4, <1>5 DEF q

\* rcsfile_write() starts with the head.
LEMMA FirstIsHead ==
    ASSUME NEW G \in Trees, NEW f, Sound(f, G)
    PROVE  Head(f.list[<<1>>]) = HeadOf(G)
<1>1. HeadOf(G) \in G /\ IsTrunk(HeadOf(G)) /\ HeadOf(G) \in Revs
  BY HeadFacts
<1> DEFINE h == HeadOf(G)
           b == <<1>>
<1>2. BranchId(h) = b /\ b \in Ids
  BY <1>1, BranchFacts DEF Ids
<1>3. h \in BranchOf(G, b)
  BY <1>1, <1>2 DEF BranchOf
<1>4. Preds(G, h) = {}
  <2> HIDE DEF h
  <2>1. h = HeadOf(G) /\ h \in G /\ h \in Revs /\ G \in SUBSET Revs
    BY <1>1, HeadFacts DEF h
  <2>2. Before(G, h) = None
    BY <2>1, BeforeFacts
  <2>3. \A p \in Preds(G, h) : p # None
    BY <2>1, RevTypes DEF Preds, BranchOf
  <2>4. Preds(G, h) # {} => Before(G, h) \in Preds(G, h)
    BY <2>1, BeforeIs
  <2> QED BY <2>2, <2>3, <2>4
<1> HIDE DEF b, h
<1>5. f.list[b] # <<>>
  BY <1>2, <1>3, ListFirst
<1>6. \A s \in BranchOf(G, b) : s = Head(f.list[b]) <=> Preds(G, s) = {}
  BY <1>2, <1>5, ListFirst
<1> QED BY <1>3, <1>4, <1>6 DEF b, h

\* The first deltas of branches at one place are in the order of the branches.
LEMMA FirstLess ==
    ASSUME NEW p \in Revs, NEW q \in Revs, ~IsTrunk(p), ~IsTrunk(q),
           BranchPoint(p) = BranchPoint(q), RevLess(BranchId(p), BranchId(q))
    PROVE  RevLess(p, q)
<1> DEFINE a == BranchId(p)
           b == BranchId(q)
           n == Len(p)
<1>1. /\ p \in Seq(Nat) /\ q \in Seq(Nat) /\ n \in Nat /\ Len(q) \in Nat
      /\ n >= 4 /\ Len(q) >= 4
  BY RevTypes DEF IsTrunk
<1>2. /\ a \in Seq(Nat) /\ b \in Seq(Nat) /\ a = Front(p) /\ b = Front(q)
      /\ Len(BranchPoint(p)) = n - 2 /\ Len(BranchPoint(q)) = Len(q) - 2
  BY BranchFacts
<1>3. Len(q) = n
  BY <1>1, <1>2
<1>4. /\ Len(a) = n - 1 /\ Len(b) = n - 1
      /\ \A j \in 1..(n - 1) : a[j] = p[j] /\ b[j] = q[j]
  <2>1. Len(p) >= 1 /\ Len(q) >= 1
    BY <1>1
  <2> QED BY <1>1, <1>2, <1>3, <2>1, FrontProperties
<1>5. RevLess(a, b)
  OBVIOUS
<1> HIDE DEF a, b
<1>6. PICK i \in 1..Len(b) : LessAt(a, b, i)
  BY <1>2, <1>5, RevLessAt
<1>7. i \in 1..(n - 1) /\ i <= Len(a) /\ i <= Len(p) + 1 /\ i \in 1..Len(q)
  BY <1>1, <1>3, <1>4
<1>8. a[i] < b[i] /\ \A j \in 1..(i - 1) : a[j] = b[j]
  BY <1>6, <1>7 DEF LessAt
<1>9. \A j \in 1..(i - 1) : j \in 1..(n - 1)
  BY <1>1, <1>7
<1>10. LessAt(p, q, i)
  BY <1>4, <1>7, <1>8, <1>9 DEF LessAt
<1> QED BY <1>1, <1>7, <1>10, RevLessAt

\* The deltas made from one, without the next one.
Branched(G, r) == After(G, r) \ {NextIn(G, r)}
\* The branches of a delta start one each, and not at its next one.
LEMMA BranchedFacts ==
    ASSUME NEW G \in Trees, NEW r \in G, NEW s \in G
    PROVE  s \in Branched(G, r) <=> /\ ~IsTrunk(s) /\ BranchPoint(s) = r
                                    /\ Preds(G, s) = {}
<1>0. G \in SUBSET Revs /\ r \in Revs /\ s \in Revs /\ r # None /\ s # None
  BY HeadFacts, RevTypes
<1>1. s \in Branched(G, r) <=> Before(G, s) = r /\ BranchId(s) # BranchId(r)
  BY NextFacts DEF Branched, After
<1>2. ASSUME Before(G, s) = r, BranchId(s) # BranchId(r)
      PROVE  ~IsTrunk(s) /\ BranchPoint(s) = r /\ Preds(G, s) = {}
  BY <1>0, <1>2, BeforeFacts
<1>3. ASSUME ~IsTrunk(s), BranchPoint(s) = r, Preds(G, s) = {}
      PROVE  Before(G, s) = r /\ BranchId(s) # BranchId(r)
  <2>1. Before(G, s) = r
    BY <1>0, <1>3, BeforeIs
  <2>2. BranchId(s) # BranchId(r)
    BY <1>0, <1>3, SameBranch
  <2> QED BY <2>1, <2>2
<1> QED BY <1>1, <1>2, <1>3

\* LIST_FIRST() of each branch of a delta: the deltas that start its branches.
LEMMA FirstsFacts ==
    ASSUME NEW G \in Trees, NEW f, Sound(f, G), NEW r \in G,
           NEW q, q = Firsts(f, r)
    PROVE  /\ q \in Seq(Revs \cup {None})
           /\ Range(q) \ {None} = Branched(G, r)
           /\ \A i, j \in DOMAIN q : i < j /\ q[i] # None /\ q[j] # None => <<q[j], q[i]>> \in Up
<1> DEFINE c == f.branches[r]
           n == Len(c)
           l == f.list
<1>0. G \in SUBSET Revs /\ r \in Revs /\ \A s \in G : s # None /\ s \in Seq(Nat)
  BY HeadFacts, RevTypes
<1>1. /\ c \in Seq(Ids) /\ OrderedBy(c, Down) /\ Range(c) \subseteq BranchesAt(r)
      /\ \A s \in G : ~IsTrunk(s) => BranchId(s) \in Range(f.branches[BranchPoint(s)])
  BY <1>0 DEF Sound, IsFile, Lists
<1>2. q = [i \in DOMAIN c |-> IF l[c[i]] = <<>> THEN None ELSE Head(l[c[i]])]
  <2> DEFINE h == [i \in DOMAIN c |-> l[c[i]]]
  <2>1. q = [i \in DOMAIN h |-> IF h[i] = <<>> THEN None ELSE Head(h[i])]
    BY DEF Firsts
  <2>2. DOMAIN h = DOMAIN c /\ \A i \in DOMAIN c : h[i] = l[c[i]]
    OBVIOUS
  <2> HIDE DEF h, c, l
  <2> QED BY <2>1, <2>2
<1>n. \A s \in G : ~IsTrunk(s) /\ BranchPoint(s) = r => BranchId(s) \in Range(c)
  BY <1>1
<1>l. l = f.list
  OBVIOUS
<1> HIDE DEF c, l
<1>3. n \in Nat /\ DOMAIN c = 1..n /\ \A i \in 1..n : c[i] \in Range(c)
  BY <1>1 DEF Range
<1> HIDE DEF n
<1>4. ASSUME NEW i \in 1..n
      PROVE  q[i] = None \/ (q[i] \in Branched(G, r) /\ BranchId(q[i]) = c[i])
  <2>1. c[i] \in Ids /\ c[i] # <<1>> /\ Front(c[i]) = r
    BY <1>1, <1>3 DEF BranchesAt
  <2>2. CASE l[c[i]] = <<>>
    BY <1>2, <1>3, <2>2
  <2>3. CASE l[c[i]] # <<>>
    <3> DEFINE h == Head(l[c[i]])
               d == c[i]
    <3>1. q[i] = h
      BY <1>2, <1>3, <2>3
    <3>2. d \in Ids /\ l[d] # <<>> /\ h = Head(l[d])
      BY <2>1, <2>3
    <3> HIDE DEF d, h
    <3>3. /\ h \in G /\ BranchId(h) = d
          /\ \A s \in BranchOf(G, d) : s = h <=> Preds(G, s) = {}
      BY <1>l, <3>2, ListFirst
    <3>4. Preds(G, h) = {}
      BY <3>3 DEF BranchOf
    <3>5. ~IsTrunk(h) /\ BranchPoint(h) = r
      BY <1>0, <2>1, <3>3, BranchFacts DEF d
    <3>6. h \in Branched(G, r)
      BY <3>3, <3>4, <3>5, BranchedFacts
    <3> QED BY <3>1, <3>3, <3>6 DEF d
  <2> QED BY <2>2, <2>3
<1>5. Branched(G, r) \in SUBSET G /\ DOMAIN q = 1..n
  BY <1>2, <1>3 DEF Branched, After
<1>6. q \in Seq(Revs \cup {None})
  <2>1. \A i \in 1..n : q[i] \in Revs \cup {None}
    BY <1>0, <1>4, <1>5
  <2>2. q = [i \in 1..n |-> q[i]]
    BY <1>2, <1>3
  <2>3. q \in [1..n -> Revs \cup {None}]
    BY <2>1, <2>2
  <2> QED BY <1>3, <2>3, FunctionSeq
<1>7. ASSUME NEW s \in Branched(G, r)
      PROVE  s \in Range(q)
  <2>1. s \in G /\ ~IsTrunk(s) /\ BranchPoint(s) = r /\ Preds(G, s) = {}
    BY <1>5, BranchedFacts
  <2>2. BranchId(s) \in Range(c)
    BY <1>n, <2>1
  <2>3. PICK i \in 1..n : c[i] = BranchId(s)
    BY <1>3, <2>2 DEF Range
  <2> DEFINE d == BranchId(s)
  <2>4. d \in Ids /\ s \in BranchOf(G, d)
    BY <1>0, <2>1 DEF Ids, BranchOf
  <2>d. c[i] = d
    BY <2>3
  <2> HIDE DEF d
  <2>5. l[d] # <<>> /\ s = Head(l[d])
    <3>1. BranchOf(G, d) # {}
      BY <2>4
    <3>2. l[d] # <<>>
      BY <1>l, <2>4, <3>1, ListFirst
    <3>3. \A t \in BranchOf(G, d) : t = Head(l[d]) <=> Preds(G, t) = {}
      BY <1>l, <2>4, <3>2, ListFirst
    <3> QED BY <2>1, <2>4, <3>2, <3>3
  <2>6. q[i] = s
    BY <1>2, <1>3, <2>d, <2>5
  <2> QED BY <1>5, <2>6 DEF Range
<1>8. Range(q) \ {None} = Branched(G, r)
  <2>1. Range(q) \ {None} \subseteq Branched(G, r)
    BY <1>4, <1>5 DEF Range
  <2>2. None \notin Branched(G, r)
    BY <1>0, <1>5
  <2> QED BY <1>7, <2>1, <2>2
<1>9. ASSUME NEW i \in 1..n, NEW j \in 1..n, i < j, q[i] # None, q[j] # None
      PROVE  <<q[j], q[i]>> \in Up
  <2>1. /\ q[i] \in Branched(G, r) /\ BranchId(q[i]) = c[i]
        /\ q[j] \in Branched(G, r) /\ BranchId(q[j]) = c[j]
    BY <1>4, <1>9
  <2>2. <<c[i], c[j]>> \in Down
    BY <1>1, <1>3, <1>9 DEF OrderedBy
  <2>3. /\ q[i] \in G /\ q[j] \in G /\ ~IsTrunk(q[i]) /\ ~IsTrunk(q[j])
        /\ BranchPoint(q[i]) = r /\ BranchPoint(q[j]) = r
    BY <1>5, <2>1, BranchedFacts
  <2>4. RevLess(c[j], c[i])
    BY <2>2 DEF Down
  <2>5. RevLess(q[j], q[i])
    BY <1>0, <2>1, <2>3, <2>4, FirstLess
  <2> QED BY <1>0, <2>3, <2>5, UpDown
<1> QED BY <1>5, <1>6, <1>8, <1>9

\* Pushed one after the other they are sorted.
LEMMA PushKeeps ==
    ASSUME NEW s \in Seq(Revs), OrderedBy(s, Up), NEW x \in Revs,
           \A y \in Range(s) : <<x, y>> \in Up,
           NEW t, t = <<x>> \o s
    PROVE  t \in Seq(Revs) /\ OrderedBy(t, Up) /\ Range(t) = {x} \cup Range(s)
<1> DEFINE n == Len(s)
           u == <<x>>
<1>1. n \in Nat /\ DOMAIN s = 1..n
  OBVIOUS
<1>2. u \in Seq(Revs) /\ Len(u) = 1 /\ u[1] = x
  OBVIOUS
<1>3. t = u \o s
  OBVIOUS
<1> HIDE DEF u, n
<1>4. /\ t \in Seq(Revs) /\ Len(t) = 1 + n
      /\ \A i \in 1..(1 + n) : t[i] = IF i <= 1 THEN u[i] ELSE s[i - 1]
  BY <1>1, <1>2, <1>3, ConcatProperties DEF n
<1>5. DOMAIN t = 1..(n + 1) /\ t[1] = x /\ \A i \in 1..n : t[i + 1] = s[i]
  <2>1. DOMAIN t = 1..(n + 1)
    BY <1>1, <1>4
  <2>2. t[1] = x
    BY <1>1, <1>2, <1>4
  <2>3. ASSUME NEW i \in 1..n PROVE t[i + 1] = s[i]
    <3>1. i + 1 \in 1..(1 + n) /\ ~(i + 1 <= 1) /\ (i + 1) - 1 = i
      BY <1>1
    <3> QED BY <1>4, <3>1
  <2> QED BY <2>1, <2>2, <2>3
<1>6. \A i \in 1..(n + 1) : i = 1 \/ (i - 1 \in 1..n /\ (i - 1) + 1 = i)
  BY <1>1
<1>7. \A i \in 1..(n + 1) : i = 1 \/ (i - 1 \in 1..n /\ t[i] = s[i - 1])
  BY <1>5, <1>6
<1>8. OrderedBy(t, Up)
  <2> SUFFICES ASSUME NEW i \in 1..(n + 1), NEW j \in 1..(n + 1), i < j
               PROVE  <<t[i], t[j]>> \in Up
    BY <1>5 DEF OrderedBy
  <2>1. j # 1 /\ j - 1 \in 1..n /\ t[j] = s[j - 1] /\ s[j - 1] \in Range(s)
    BY <1>1, <1>7 DEF Range
  <2>2. CASE i = 1
    BY <1>5, <2>1, <2>2
  <2>3. CASE i # 1
    <3>1. i - 1 \in 1..n /\ t[i] = s[i - 1] /\ i - 1 < j - 1
      BY <1>1, <1>7, <2>3
    <3> QED BY <1>1, <2>1, <3>1 DEF OrderedBy
  <2> QED BY <2>2, <2>3
<1>9. Range(t) = {x} \cup Range(s)
  <2>1. Range(t) \subseteq {x} \cup Range(s)
    BY <1>1, <1>5, <1>7 DEF Range
  <2>2. x \in Range(t)
    <3>1. 1 \in 1..(n + 1)
      BY <1>1
    <3> QED BY <1>5, <3>1 DEF Range
  <2>3. Range(s) \subseteq Range(t)
    <3>1. \A i \in 1..n : i + 1 \in 1..(n + 1)
      BY <1>1
    <3> QED BY <1>1, <1>5, <3>1 DEF Range
  <2> QED BY <2>1, <2>2, <2>3
<1> QED BY <1>4, <1>8, <1>9

\* What rcsfile_writedelta() writes as the branches of a delta.
Heads(f, r) == FoldLeft(Push, <<>>, Firsts(f, r))
\* rcsfile_writedelta(): the branches come out in order and all of them.
LEMMA HeadsFacts ==
    ASSUME NEW G \in Trees, NEW f, Sound(f, G), NEW r \in G,
           NEW s, s = Heads(f, r)
    PROVE  s \in Seq(Revs) /\ OrderedBy(s, Up) /\ Range(s) = Branched(G, r)
<1> DEFINE q == Firsts(f, r)
           n == Len(q)
<1>1. /\ q \in Seq(Revs \cup {None})
      /\ Range(q) \ {None} = Branched(G, r)
      /\ \A i, j \in DOMAIN q : i < j /\ q[i] # None /\ q[j] # None => <<q[j], q[i]>> \in Up
  BY FirstsFacts
<1>2. s = FoldLeft(Push, <<>>, q)
  BY DEF Heads
<1> HIDE DEF q
<1>3. PICK tr : Trace(tr, "push", 0, <<>>, q, n, s)
  <2>1. \E tr : Trace(tr, "push", 0, <<>>, q, Len(q), FoldLeft(Push, <<>>, q))
    BY <1>1, PushTrace
  <2> QED BY <1>2, <2>1
<1>4. n \in Nat /\ DOMAIN q = 1..n /\ \A i \in 1..n : q[i] \in Revs \cup {None}
  BY <1>1
<1> HIDE DEF n
<1> DEFINE P(m) == {q[i] : i \in 1..m} \ {None}
           I(m) == tr[m] \in Seq(Revs) /\ OrderedBy(tr[m], Up) /\ Range(tr[m]) = P(m)
           N == {m \in Nat : m <= n => I(m)}
<1>5. 0 \in N
  <2>1. tr[0] = <<>>
    BY <1>3 DEF Trace
  <2>2. OrderedBy(<<>>, Up) /\ Range(<<>>) = {} /\ <<>> \in Seq(Revs)
    BY DEF OrderedBy, Range
  <2>3. P(0) = {}
    OBVIOUS
  <2> QED BY <2>1, <2>2, <2>3
<1>6. ASSUME NEW m \in Nat, m \in N PROVE m + 1 \in N
  <2> SUFFICES ASSUME m + 1 <= n PROVE I(m + 1)
    OBVIOUS
  <2>1. m <= n /\ m \in 0..(n - 1) /\ m + 1 \in 1..n /\ \A i \in 1..m : i \in 1..n /\ i < m + 1
    BY <1>4
  <2> DEFINE x == q[m + 1]
             t == tr[m]
  <2>2. t \in Seq(Revs) /\ OrderedBy(t, Up) /\ Range(t) = P(m)
    BY <1>6, <2>1
  <2>3. tr[m + 1] = IfAny(x) \o t
    BY <1>3, <2>1 DEF Trace, Do, Push
  <2>4. P(m + 1) = P(m) \cup ({x} \ {None})
    <3>1. \A i \in 1..(m + 1) : i \in 1..m \/ i = m + 1
      OBVIOUS
    <3>2. m + 1 \in 1..(m + 1) /\ \A i \in 1..m : i \in 1..(m + 1)
      OBVIOUS
    <3> QED BY <3>1, <3>2
  <2>5. x \in Revs \cup {None}
    BY <1>4, <2>1
  <2>6. \A y \in P(m) : x # None => <<x, y>> \in Up
    BY <1>1, <1>4, <2>1
  <2> DEFINE A == P(m)
             B == P(m + 1)
  <2>7. Range(t) = A /\ B = A \cup ({x} \ {None}) /\ \A y \in A : x # None => <<x, y>> \in Up
    BY <2>2, <2>4, <2>6
  <2> HIDE DEF x, t, A, B
  <2>8. tr[m + 1] \in Seq(Revs) /\ OrderedBy(tr[m + 1], Up) /\ Range(tr[m + 1]) = B
    <3>1. CASE x = None
      <4>1. IfAny(x) = <<>>
        BY <3>1 DEF IfAny
      <4>2. <<>> \o t = t
        BY <2>2, ConcatEmptySeq
      <4> QED BY <2>2, <2>3, <2>7, <3>1, <4>1, <4>2
    <3>2. CASE x # None
      <4>1. tr[m + 1] = <<x>> \o t
        BY <2>3, <3>2 DEF IfAny
      <4>2. x \in Revs /\ \A y \in Range(t) : <<x, y>> \in Up
        BY <2>5, <2>7, <3>2
      <4>3. /\ tr[m + 1] \in Seq(Revs) /\ OrderedBy(tr[m + 1], Up)
            /\ Range(tr[m + 1]) = {x} \cup Range(t)
        BY <2>2, <4>1, <4>2, PushKeeps
      <4> QED BY <2>7, <3>2, <4>3
    <3> QED BY <3>1, <3>2
  <2> QED BY <2>8 DEF B
<1> HIDE DEF N
<1>7. n \in N
  BY <1>4, <1>5, <1>6, NatSet
<1>8. I(n)
  BY <1>4, <1>7 DEF N
<1>9. tr[n] = s
  BY <1>3 DEF Trace
<1>10. P(n) = Range(q) \ {None}
  BY <1>4 DEF Range
<1> QED BY <1>1, <1>8, <1>9, <1>10

\* Sequences without repetitions.
Distinct(q) == \A i, j \in DOMAIN q : i # j => q[i] # q[j]
\* A sequence without repetition is as long as its set is large.
LEMMA CountDistinct ==
    ASSUME NEW n \in Nat, NEW q, NEW T, IsFiniteSet(T), \A i \in 1..n : q[i] \in T,
           \A i, j \in 1..n : i # j => q[i] # q[j]
    PROVE  /\ n <= Cardinality(T)
           /\ (\A x \in T : \E i \in 1..n : q[i] = x) => n = Cardinality(T)
<1> DEFINE f == [i \in 1..n |-> q[i]]
<1>1. f \in Injection(1..n, T)
  BY DEF Injection, IsInjective
<1>2. IsFiniteSet(1..n) /\ Cardinality(1..n) = n
  BY FS_Interval
<1>3. Cardinality(1..n) <= Cardinality(T)
      /\ (f \in Surjection(1..n, T) => Cardinality(1..n) = Cardinality(T))
  BY <1>1, FS_Injection
<1>4. (\A x \in T : \E i \in 1..n : q[i] = x) => f \in Surjection(1..n, T)
  BY DEF Surjection
<1> QED BY <1>2, <1>3, <1>4

\* A sequence in order repeats nothing.
LEMMA OrderedDistinct ==
    ASSUME NEW q \in Seq(Revs), OrderedBy(q, Up)
    PROVE  Distinct(q)
<1>1. LinearOn(Revs, Up) /\ DOMAIN q = 1..Len(q)
  BY RevsLinear
<1> SUFFICES ASSUME NEW i \in 1..Len(q), NEW j \in 1..Len(q), i # j, q[i] = q[j] PROVE FALSE
  BY <1>1 DEF Distinct
<1>2. i < j \/ j < i
  OBVIOUS
<1>3. q[i] \in Revs /\ <<q[i], q[i]>> \notin Up
  BY <1>1 DEF LinearOn
<1> QED BY <1>1, <1>2, <1>3 DEF OrderedBy

\* One sequence after the other.
Join(p, q) == p \o q
\* Two sequences with nothing in common and nothing twice make one.
LEMMA JoinDistinct ==
    ASSUME NEW T, NEW p \in Seq(T), NEW q \in Seq(T), Distinct(p), Distinct(q),
           Range(p) \cap Range(q) = {}, NEW s, s = Join(p, q)
    PROVE  s \in Seq(T) /\ Distinct(s) /\ Range(s) = Range(p) \cup Range(q)
<1> DEFINE m == Len(p)
           n == Len(q)
<1>1. m \in Nat /\ n \in Nat /\ DOMAIN p = 1..m /\ DOMAIN q = 1..n
  OBVIOUS
<1>2. /\ s \in Seq(T) /\ Len(s) = m + n
      /\ \A i \in 1..(m + n) : s[i] = IF i <= m THEN p[i] ELSE q[i - m]
  BY ConcatProperties DEF Join
<1> HIDE DEF m, n
<1>3. DOMAIN s = 1..(m + n)
  BY <1>2
<1>4. ASSUME NEW i \in 1..(m + n)
      PROVE  \/ i \in 1..m /\ s[i] = p[i] /\ s[i] \in Range(p)
             \/ i - m \in 1..n /\ s[i] = q[i - m] /\ s[i] \in Range(q)
  <2>1. CASE i <= m
    <3>1. i \in 1..m
      BY <1>1, <2>1
    <3> QED BY <1>1, <1>2, <2>1, <3>1 DEF Range
  <2>2. CASE ~(i <= m)
    <3>1. i - m \in 1..n
      BY <1>1, <2>2
    <3> QED BY <1>1, <1>2, <2>2, <3>1 DEF Range
  <2> QED BY <2>1, <2>2
<1>5. Distinct(s)
  <2> SUFFICES ASSUME NEW i \in 1..(m + n), NEW j \in 1..(m + n), i # j
               PROVE  s[i] # s[j]
    BY <1>3 DEF Distinct
  <2>1. i - m # j - m
    BY <1>1
  <2>2. CASE i \in 1..m /\ s[i] = p[i] /\ s[i] \in Range(p)
    <3>1. CASE j \in 1..m /\ s[j] = p[j] /\ s[j] \in Range(p)
      BY <1>1, <2>2, <3>1 DEF Distinct
    <3>2. CASE s[j] \in Range(q)
      BY <2>2, <3>2
    <3> QED BY <1>4, <3>1, <3>2
  <2>3. CASE i - m \in 1..n /\ s[i] = q[i - m] /\ s[i] \in Range(q)
    <3>1. CASE s[j] \in Range(p)
      BY <2>3, <3>1
    <3>2. CASE j - m \in 1..n /\ s[j] = q[j - m] /\ s[j] \in Range(q)
      BY <1>1, <2>1, <2>3, <3>2 DEF Distinct
    <3> QED BY <1>4, <3>1, <3>2
  <2> QED BY <1>4, <2>2, <2>3
<1>6. Range(p) \subseteq Range(s)
  <2>1. \A i \in 1..m : i \in 1..(m + n) /\ i <= m
    BY <1>1
  <2> QED BY <1>1, <1>2, <1>3, <2>1 DEF Range
<1>7. Range(q) \subseteq Range(s)
  <2>1. \A i \in 1..n : i + m \in 1..(m + n) /\ ~(i + m <= m) /\ (i + m) - m = i
    BY <1>1
  <2>2. \A i \in 1..n : s[i + m] = q[i]
    BY <1>2, <2>1
  <2> QED BY <1>1, <1>3, <2>1, <2>2 DEF Range
<1>8. Range(s) \subseteq Range(p) \cup Range(q)
  BY <1>3, <1>4 DEF Range
<1> QED BY <1>2, <1>5, <1>6, <1>7, <1>8

\* What is taken from the front of a sequence is gone from it.
LEMMA TailDistinct ==
    ASSUME NEW T, NEW q \in Seq(T), Distinct(q), q # <<>>,
           NEW s, s = Tail(q)
    PROVE  /\ s \in Seq(T) /\ Distinct(s) /\ Range(s) = Range(q) \ {Head(q)}
           /\ Head(q) \in Range(q)
<1> DEFINE n == Len(q)
<1>1. n \in Nat /\ DOMAIN q = 1..n /\ n > 0 /\ Head(q) = q[1]
  OBVIOUS
<1>2. /\ s \in Seq(T) /\ Len(s) = n - 1
      /\ \A i \in 1..(n - 1) : s[i] = q[i + 1]
  <2>1. Tail(q) \in Seq(T) /\ Len(Tail(q)) = Len(q) - 1
        /\ \A i \in 1..Len(Tail(q)) : Tail(q)[i] = q[i + 1]
    BY HeadTailProperties
  <2> QED BY <2>1
<1> HIDE DEF n
<1>3. DOMAIN s = 1..(n - 1) /\ 1 \in 1..n
  BY <1>1, <1>2
<1>4. \A i \in 1..(n - 1) : i + 1 \in 1..n /\ i + 1 # 1
  BY <1>1
<1>5. \A i \in 1..n : i # 1 => i - 1 \in 1..(n - 1) /\ (i - 1) + 1 = i
  BY <1>1
<1>6. Distinct(s)
  <2> SUFFICES ASSUME NEW i \in 1..(n - 1), NEW j \in 1..(n - 1), i # j
               PROVE  s[i] # s[j]
    BY <1>3 DEF Distinct
  <2>1. i + 1 # j + 1
    OBVIOUS
  <2> QED BY <1>1, <1>2, <1>4, <2>1 DEF Distinct
<1>7. Range(s) \subseteq Range(q) \ {Head(q)}
  BY <1>1, <1>2, <1>3, <1>4 DEF Range, Distinct
<1>8. Range(q) \ {Head(q)} \subseteq Range(s)
  <2> SUFFICES ASSUME NEW i \in 1..n, q[i] # q[1] PROVE q[i] \in Range(s)
    BY <1>1 DEF Range
  <2>1. i - 1 \in 1..(n - 1) /\ s[i - 1] = q[i]
    BY <1>2, <1>5
  <2> QED BY <1>3, <2>1 DEF Range
<1> QED BY <1>1, <1>2, <1>3, <1>6, <1>7, <1>8 DEF Range

-----------------------------------------------------------------------------
(* The stack of rcsfile_write() *)

\* The deltas a file is written with, and their revisions.
Entries == [rev : Revs, branches : Seq(Revs), next : Revs \cup {None}]
Named(o) == {o[i].rev : i \in DOMAIN o}
\* A delta is written after the one it is made from.
Entry(G, o, i) ==
    /\ o[i].next = NextIn(G, o[i].rev)
    /\ OrderedBy(o[i].branches, Up) /\ Range(o[i].branches) = Branched(G, o[i].rev)
    /\ o[i].rev = HeadOf(G) \/ \E j \in 1..(i - 1) : o[j].rev = Before(G, o[i].rev)
\* What has been written ...
Out(G, o) ==
    /\ o \in Seq(Entries) /\ Named(o) \subseteq G
    /\ \A i, j \in DOMAIN o : i # j => o[i].rev # o[j].rev
    /\ \A i \in DOMAIN o : Entry(G, o, i)
\* ... and what is on the stack: what has been written is made from what has
\* been written, and what is made from that is on the stack.
Stack(G, s, O) ==
    /\ s \in Seq(Revs) /\ Distinct(s) /\ Range(s) \subseteq G \ O
    /\ \A r \in Range(s) : r = HeadOf(G) \/ Before(G, r) \in O
    /\ HeadOf(G) \in O \cup Range(s)
    /\ \A r \in G : Before(G, r) \in O => r \in O \cup Range(s)

\* What one turn puts out and pushes.
EntryOf(G, r, h) == [rev |-> r, branches |-> h, next |-> NextIn(G, r)]
\* The stack after its first delta is written.
Pushed(G, s, h) == (IfAny(NextIn(G, Head(s))) \o h) \o Tail(s)
\* One more delta written names one more revision.
LEMMA NamedAppend ==
    ASSUME NEW o \in Seq(Entries), NEW e \in Entries, NEW p, p = Append(o, e)
    PROVE  \A z : z \in Named(p) <=> z \in Named(o) \/ z = e.rev
<1> DEFINE n == Len(o)
<1>1. n \in Nat /\ DOMAIN o = 1..n
  OBVIOUS
<1>2. /\ DOMAIN p = 1..(n + 1)
      /\ \A i \in 1..n : p[i] = o[i]
      /\ p[n + 1] = e
  BY <1>1, AppendProperties
<1> HIDE DEF n
<1>3. \A i \in 1..(n + 1) : i \in 1..n \/ i = n + 1
  BY <1>1
<1>4. n + 1 \in 1..(n + 1) /\ \A i \in 1..n : i \in 1..(n + 1) /\ i # n + 1
  BY <1>1
<1> QED BY <1>1, <1>2, <1>3, <1>4 DEF Named

\* rcsfile_writedelta(): the delta on top of the stack can follow those written.
LEMMA OutGrows ==
    ASSUME NEW G \in Trees, NEW o, Out(G, o), NEW r \in G, r \notin Named(o),
           r = HeadOf(G) \/ Before(G, r) \in Named(o),
           NEW h \in Seq(Revs), OrderedBy(h, Up), Range(h) = Branched(G, r),
           NEW e, e = EntryOf(G, r, h), NEW p, p = Append(o, e)
    PROVE  Out(G, p) /\ Len(p) = Len(o) + 1 /\ e \in Entries /\ e.rev = r
<1> DEFINE n == Len(o)
<1>0. e \in Entries /\ e.rev = r /\ e.branches = h /\ e.next = NextIn(G, r)
  BY HeadFacts, NextFacts DEF Entries, EntryOf
<1>1. o \in Seq(Entries) /\ n \in Nat /\ DOMAIN o = 1..n
  BY DEF Out
<1>2. /\ p \in Seq(Entries) /\ Len(p) = n + 1 /\ DOMAIN p = 1..(n + 1)
      /\ \A i \in 1..n : p[i] = o[i]
      /\ p[n + 1] = e
  BY <1>0, <1>1, AppendProperties
<1> HIDE DEF n
<1>3. \A i \in 1..(n + 1) : i \in 1..n \/ i = n + 1
  BY <1>1
<1>4. n + 1 \in 1..(n + 1) /\ \A i \in 1..n : i \in 1..(n + 1) /\ i # n + 1
  BY <1>1
<1>5. Named(p) = Named(o) \cup {r}
  BY <1>0, <1>1, NamedAppend
<1>6. \A i, j \in DOMAIN p : i # j => p[i].rev # p[j].rev
  <2>1. \A i \in 1..n : o[i].rev # r
    BY <1>1 DEF Named
  <2>2. \A i, j \in 1..n : i # j => o[i].rev # o[j].rev
    BY <1>1 DEF Out
  <2> QED BY <1>0, <1>2, <1>3, <2>1, <2>2
<1>7. ASSUME NEW i \in 1..n PROVE Entry(G, p, i)
  <2>1. Entry(G, o, i)
    BY <1>1 DEF Out
  <2>2. \A j \in 1..(i - 1) : p[j] = o[j]
    BY <1>1, <1>2
  <2>3. p[i] = o[i]
    BY <1>2
  <2> QED BY <2>1, <2>2, <2>3 DEF Entry
<1>8. Entry(G, p, n + 1)
  <2>1. r = HeadOf(G) \/ \E j \in 1..n : p[j].rev = Before(G, r)
    BY <1>1, <1>2 DEF Named
  <2>2. (n + 1) - 1 = n
    BY <1>1
  <2> QED BY <1>0, <1>2, <2>1, <2>2 DEF Entry
<1>9. \A i \in DOMAIN p : Entry(G, p, i)
  BY <1>2, <1>3, <1>7, <1>8
<1>10. Named(p) \subseteq G
  BY <1>5 DEF Out
<1>11. Out(G, p)
  BY <1>2, <1>6, <1>9, <1>10 DEF Out
<1> QED BY <1>0, <1>2, <1>11 DEF n

\* rcsfile_writedelta(): the stack keeps what is still to be written, once each.
LEMMA StackGrows ==
    ASSUME NEW G \in Trees, NEW s, NEW O \in SUBSET G, Stack(G, s, O), s # <<>>,
           \A x \in O : x = HeadOf(G) \/ Before(G, x) \in O,
           NEW r, r = Head(s),
           NEW h \in Seq(Revs), OrderedBy(h, Up), Range(h) = Branched(G, r),
           NEW t, t = Pushed(G, s, h)
    PROVE  Stack(G, t, O \cup {r})
<1> DEFINE a == IfAny(NextIn(G, r))
           b == a \o h
           c == Tail(s)
           n == NextIn(G, r)
<1>1. /\ s \in Seq(Revs) /\ Distinct(s) /\ Range(s) \subseteq G \ O
      /\ \A x \in Range(s) : x = HeadOf(G) \/ Before(G, x) \in O
      /\ HeadOf(G) \in O \cup Range(s)
      /\ \A x \in G : Before(G, x) \in O => x \in O \cup Range(s)
  BY DEF Stack
<1>2. c \in Seq(Revs) /\ Distinct(c) /\ Range(c) = Range(s) \ {r} /\ r \in Range(s)
  BY <1>1, TailDistinct
<1>3. /\ r \in G /\ r \notin O /\ (r = HeadOf(G) \/ Before(G, r) \in O)
      /\ r \in Revs /\ G \in SUBSET Revs
  BY <1>1, <1>2, HeadFacts
<1>4. /\ Before(G, HeadOf(G)) = None /\ HeadOf(G) \in G
      /\ r # None /\ Before(G, r) # r /\ None \notin O
  BY <1>3, HeadFacts, BeforeFacts, RevTypes
<1>5. After(G, r) = {x \in G : Before(G, x) = r}
  BY DEF After
<1>6. n = None \/ n \in After(G, r)
  BY <1>3, NextFacts DEF After
<1>7. Branched(G, r) = After(G, r) \ {n}
  BY DEF Branched
<1>8. After(G, r) \cap (O \cup Range(s)) = {}
  <2> SUFFICES ASSUME NEW x \in After(G, r), x \in O \cup Range(s) PROVE FALSE
    OBVIOUS
  <2>1. Before(G, x) = r
    BY <1>5
  <2>2. x # HeadOf(G)
    BY <1>4, <2>1
  <2>3. Before(G, x) \in O
    BY <1>1, <2>2
  <2> QED BY <1>3, <2>1, <2>3
<1>9. a \in Seq(Revs) /\ Distinct(a) /\ Range(a) = {n} \ {None}
  <2>1. CASE n = None
    <3>1. a = <<>>
      BY <2>1 DEF IfAny
    <3>2. <<>> \in Seq(Revs) /\ Distinct(<<>>) /\ Range(<<>>) = {}
      BY DEF Distinct, Range
    <3> HIDE DEF a, n
    <3> QED BY <2>1, <3>1, <3>2
  <2>2. CASE n # None
    <3>1. a = <<n>> /\ n \in Revs
      BY <1>3, <1>5, <1>6, <2>2 DEF IfAny
    <3> HIDE DEF a, n
    <3>2. <<n>> \in Seq(Revs) /\ DOMAIN <<n>> = {1} /\ <<n>>[1] = n
      BY <3>1
    <3>3. Distinct(<<n>>) /\ Range(<<n>>) = {n}
      BY <3>2 DEF Distinct, Range
    <3> QED BY <2>2, <3>1, <3>2, <3>3
  <2> QED BY <2>1, <2>2
<1> HIDE DEF a, c, n
<1>10. b \in Seq(Revs) /\ Distinct(b) /\ Range(b) = Range(a) \cup Range(h)
  <2>1. Range(a) \cap Range(h) = {} /\ Distinct(h)
    BY <1>7, <1>9, OrderedDistinct
  <2>2. b = Join(a, h)
    BY DEF Join
  <2> HIDE DEF b
  <2> QED BY <1>9, <2>1, <2>2, JoinDistinct
<1>11. Range(b) = After(G, r)
  <2>1. None \notin After(G, r)
    BY <1>3, <1>5, RevTypes
  <2> QED BY <1>6, <1>7, <1>9, <1>10, <2>1
<1>b. t = Join(b, c)
  BY DEF a, b, c, Join, Pushed
<1> HIDE DEF b
<1>12. t \in Seq(Revs) /\ Distinct(t) /\ Range(t) = Range(b) \cup Range(c)
  <2>1. Range(b) \cap Range(c) = {}
    BY <1>2, <1>8, <1>11
  <2>2. b \in Seq(Revs) /\ c \in Seq(Revs) /\ Distinct(b) /\ Distinct(c)
    BY <1>2, <1>10
  <2>3. ASSUME NEW u, u = Join(b, c)
        PROVE  u \in Seq(Revs) /\ Distinct(u) /\ Range(u) = Range(b) \cup Range(c)
    BY <2>1, <2>2, <2>3, JoinDistinct
  <2> QED BY <1>b, <2>3
<1>13. Range(t) = After(G, r) \cup (Range(s) \ {r})
  BY <1>2, <1>11, <1>12
<1>14. Range(t) \subseteq G \ (O \cup {r})
  BY <1>1, <1>2, <1>4, <1>5, <1>8, <1>13
<1>15. \A x \in Range(t) : x = HeadOf(G) \/ Before(G, x) \in O \cup {r}
  BY <1>1, <1>5, <1>13
<1>16. HeadOf(G) \in (O \cup {r}) \cup Range(t)
  BY <1>1, <1>13
<1>17. \A x \in G : Before(G, x) \in O \cup {r} => x \in (O \cup {r}) \cup Range(t)
  BY <1>1, <1>5, <1>13
<1>18. Stack(G, t, O \cup {r})
  BY <1>12, <1>14, <1>15, <1>16, <1>17 DEF Stack
<1> QED BY <1>18

\* One turn of rcsfile_write()'s loop.
LEMMA WriteDeltaKeeps ==
    ASSUME NEW G \in Trees, NEW f, Sound(f, G), NEW x, x.stack # <<>>,
           Out(G, x.out), Stack(G, x.stack, Named(x.out)),
           NEW y, y = WriteDelta(f, x)
    PROVE  /\ Out(G, y.out) /\ Stack(G, y.stack, Named(y.out))
           /\ Len(y.out) = Len(x.out) + 1
<1> DEFINE s == x.stack
           o == x.out
           r == Head(s)
           O == Named(o)
           h == Heads(f, r)
           n == NextIn(G, r)
           t == (IfAny(n) \o h) \o Tail(s)
           e == [rev |-> r, branches |-> h, next |-> n]
           p == Append(o, e)
<1>1. \A z \in O : z = HeadOf(G) \/ Before(G, z) \in O
  <2> SUFFICES ASSUME NEW i \in DOMAIN o, o[i].rev # HeadOf(G)
               PROVE  Before(G, o[i].rev) \in O
    BY DEF Named
  <2>1. \E j \in 1..(i - 1) : o[j].rev = Before(G, o[i].rev)
    BY DEF Out, Entry
  <2>2. o \in Seq(Entries) /\ DOMAIN o = 1..Len(o) /\ Len(o) \in Nat
    BY DEF Out
  <2>3. \A j \in 1..(i - 1) : j \in DOMAIN o
    BY <2>2
  <2> QED BY <2>1, <2>3 DEF Named
<1>2. O \in SUBSET G
  BY DEF Out
<1>3. r \in G /\ r \notin O /\ (r = HeadOf(G) \/ Before(G, r) \in O)
  <2>1. s \in Seq(Revs) /\ Distinct(s) /\ Range(s) \subseteq G \ O
    BY DEF Stack
  <2>2. r \in Range(s)
    BY <2>1, TailDistinct
  <2> QED BY <2>1, <2>2 DEF Stack
<1>4. h \in Seq(Revs) /\ OrderedBy(h, Up) /\ Range(h) = Branched(G, r)
  BY <1>3, HeadsFacts
<1>5. NextOf(f, r) = n
  BY <1>3, ListNext
<1>6. y = [stack |-> (IfAny(NextOf(f, r)) \o h) \o Tail(s),
           out |-> Append(o, [rev |-> r, branches |-> h, next |-> NextOf(f, r)])]
  BY DEF WriteDelta, Heads
<1>7. y.stack = t /\ y.out = p
  <2> HIDE DEF h, n, o, r, s
  <2>1. y = [stack |-> t, out |-> p]
    BY <1>5, <1>6
  <2> HIDE DEF t, p
  <2> QED BY <2>1
<1>8. /\ s # <<>> /\ Out(G, o) /\ Stack(G, s, O) /\ r = Head(s) /\ O = Named(o)
      /\ t = Pushed(G, s, h) /\ e = EntryOf(G, r, h) /\ p = Append(o, e)
  BY DEF Pushed, EntryOf
<1> HIDE DEF s, o, r, O, h, n, t, e, p
<1>9. Stack(G, t, O \cup {r})
  BY <1>1, <1>2, <1>4, <1>8, StackGrows
<1>10. Out(G, p) /\ Named(p) = O \cup {r} /\ Len(p) = Len(o) + 1
  <2>1. Out(G, p)
    BY <1>3, <1>4, <1>8, OutGrows
  <2>2. Named(p) = O \cup {r}
    <3>1. e \in Entries /\ e.rev = r
      BY <1>3, <1>4, <1>8, OutGrows
    <3>2. o \in Seq(Entries)
      BY <1>8 DEF Out
    <3>3. \A z : z \in Named(p) <=> z \in Named(o) \/ z = e.rev
      BY <1>8, <3>1, <3>2, NamedAppend
    <3> QED BY <1>8, <3>1, <3>3
  <2>3. Len(p) = Len(o) + 1
    BY <1>3, <1>4, <1>8, OutGrows
  <2> QED BY <2>1, <2>2, <2>3
<1> QED BY <1>7, <1>9, <1>10 DEF o

\* The file has each delta once.
LEMMA WriteDeltasFacts ==
    ASSUME NEW G \in Trees, NEW f, Sound(f, G), NEW head, head = HeadOf(G),
           NEW o, o = WriteDeltas(f, head)
    PROVE  Out(G, o) /\ Named(o) = G /\ Len(o) = Cardinality(G)
<1> DEFINE q == f.table
           n == Len(q)
           s0 == [stack |-> <<head>>, out |-> <<>>]
<1>0. /\ HeadOf(G) \in G /\ HeadOf(G) \in Revs /\ G \in SUBSET Revs /\ IsFiniteSet(G)
      /\ \A r \in G : r # None
  <2>1. HeadOf(G) \in G /\ HeadOf(G) \in Revs /\ G \in SUBSET Revs
    BY HeadFacts
  <2> QED BY <2>1, RevSets, RevTypes
<1>1. q \in Seq(Revs) /\ OrderedBy(q, Up) /\ Range(q) = G
  BY DEF Sound, IsFile
<1>2. PICK tr, t : Trace(tr, "write", f, s0, q, n, t) /\ WriteDeltas(f, head) = t.out
  BY <1>1, WriteTrace
<1>3. n \in Nat /\ DOMAIN q = 1..n
  BY <1>1
<1>4. n = Cardinality(G)
  <2>1. Distinct(q)
    BY <1>1, OrderedDistinct
  <2>2. \A i \in 1..n : q[i] \in G
    BY <1>1, <1>3 DEF Range
  <2>3. \A i, j \in 1..n : i # j => q[i] # q[j]
    BY <1>3, <2>1 DEF Distinct
  <2>4. \A x \in G : \E i \in 1..n : q[i] = x
    BY <1>1, <1>3 DEF Range
  <2> HIDE DEF n, q
  <2> QED BY <1>0, <1>3, <2>2, <2>3, <2>4, CountDistinct
<1> HIDE DEF n, q
<1> DEFINE I(m) == /\ Out(G, tr[m].out) /\ Stack(G, tr[m].stack, Named(tr[m].out))
                   /\ tr[m].stack # <<>> => Len(tr[m].out) = m
           N == {m \in Nat : m <= n => I(m)}
<1>5. 0 \in N
  <2>1. tr[0].stack = <<head>> /\ tr[0].out = <<>>
    BY <1>2 DEF Trace
  <2>2. Out(G, <<>>) /\ Named(<<>>) = {} /\ Len(<<>>) = 0
    BY DEF Out, Named
  <2>3. Stack(G, <<head>>, {})
    <3>1. <<head>> \in Seq(Revs) /\ DOMAIN <<head>> = {1} /\ <<head>>[1] = head
      BY <1>0
    <3>2. Distinct(<<head>>) /\ Range(<<head>>) = {head}
      BY <3>1 DEF Distinct, Range
    <3> QED BY <1>0, <3>1, <3>2 DEF Stack
  <2> QED BY <2>1, <2>2, <2>3
<1>6. ASSUME NEW m \in Nat, m \in N PROVE m + 1 \in N
  <2> SUFFICES ASSUME m + 1 <= n PROVE I(m + 1)
    OBVIOUS
  <2>1. m <= n /\ m \in 0..(n - 1)
    BY <1>3
  <2> DEFINE x == tr[m]
             y == tr[m + 1]
  <2>2. y = WriteDelta(f, x)
    BY <1>2, <2>1 DEF Trace, Do
  <2>3. /\ Out(G, x.out) /\ Stack(G, x.stack, Named(x.out))
        /\ x.stack # <<>> => Len(x.out) = m
    BY <1>6, <2>1
  <2> SUFFICES /\ Out(G, y.out) /\ Stack(G, y.stack, Named(y.out))
               /\ y.stack # <<>> => Len(y.out) = m + 1
    OBVIOUS
  <2> HIDE DEF x, y
  <2>4. CASE x.stack = <<>>
    BY <2>2, <2>3, <2>4 DEF WriteDelta
  <2>5. CASE x.stack # <<>>
    BY <2>2, <2>3, <2>5, WriteDeltaKeeps
  <2> QED BY <2>4, <2>5
<1> HIDE DEF N
<1>7. n \in N
  BY <1>3, <1>5, <1>6, NatSet
<1>8. I(n) /\ tr[n].out = o /\ o \in Seq(Entries) /\ DOMAIN o = 1..Len(o) /\ Len(o) \in Nat
  <2>1. I(n) /\ tr[n].out = o
    BY <1>2, <1>3, <1>7 DEF N, Trace
  <2> QED BY <2>1 DEF Out
<1> DEFINE s == tr[n].stack
           O == Named(o)
           k == Len(o)
           w == [i \in 1..k |-> o[i].rev]
<1>9. /\ Out(G, o) /\ Stack(G, s, O) /\ (s # <<>> => k = n) /\ O \in SUBSET G
  BY <1>8 DEF Out
<1>10. /\ \A i \in 1..k : w[i] \in O
       /\ \A i, j \in 1..k : i # j => w[i] # w[j]
       /\ \A x \in O : \E i \in 1..k : w[i] = x
  BY <1>8, <1>9 DEF Out, Named
<1>11. k \in Nat
  BY <1>8
<1> HIDE DEF s, O, w
<1>12. IsFiniteSet(O) /\ k = Cardinality(O)
  <2>1. IsFiniteSet(O)
    BY <1>0, <1>9, FS_Subset
  <2> HIDE DEF k
  <2> QED BY <1>10, <1>11, <2>1, CountDistinct
<1>13. s = <<>>
  <2> SUFFICES ASSUME s # <<>> PROVE FALSE
    OBVIOUS
  <2>1. s \in Seq(Revs) /\ Distinct(s) /\ Range(s) \subseteq G \ O
    BY <1>9 DEF Stack
  <2>2. Head(s) \in G /\ Head(s) \notin O
    BY <2>1, TailDistinct
  <2>3. O = G
    <3>1. Cardinality(O) = Cardinality(G)
      BY <1>4, <1>9, <1>12
    <3> QED BY <1>0, <1>9, <3>1, FS_Subset
  <2> QED BY <2>2, <2>3
<1>14. Range(s) = {}
  BY <1>13 DEF Range
<1>15. O = G
  <2> DEFINE T == G \ O
  <2> SUFFICES ASSUME T # {} PROVE FALSE
    BY <1>9
  <2>1. T \in SUBSET G
    OBVIOUS
  <2>2. PICK x \in T : Before(G, x) \notin T
    <3> HIDE DEF T
    <3> QED BY <2>1, FirstWithout
  <2>3. HeadOf(G) \in O /\ \A r \in G : Before(G, r) \in O => r \in O
    BY <1>9, <1>14 DEF Stack
  <2>4. x \in G /\ x # HeadOf(G)
    BY <2>3
  <2>5. Before(G, x) \in G
    BY <2>4, BeforeFacts
  <2> QED BY <2>2, <2>3, <2>5
<1> QED BY <1>4, <1>9, <1>12, <1>15 DEF O, k

\* The texts are a sequence.
LEMMA WriteTextsSeq ==
    ASSUME NEW f, IsFile(f), NEW head
    PROVE  \E T : WriteTexts(f, head) \in Seq(T)
<1> DEFINE q == f.table
           n == Len(q)
           s0 == [stack |-> <<[rev |-> head, prev |-> None]>>, out |-> <<>>]
<1>1. q \in Seq(Revs)
  BY DEF IsFile
<1>2. PICK tr, t : Trace(tr, "texts", f, s0, q, n, t) /\ WriteTexts(f, head) = t.out
  BY <1>1, TextsTrace
<1>3. n \in Nat
  BY <1>1
<1> HIDE DEF n, q
<1> DEFINE I(m) == \E T : tr[m].out \in Seq(T)
           N == {m \in Nat : m <= n => I(m)}
<1>4. 0 \in N
  <2>1. tr[0].out = <<>>
    BY <1>2 DEF Trace
  <2>2. <<>> \in Seq({})
    OBVIOUS
  <2> QED BY <2>1, <2>2
<1>5. ASSUME NEW m \in Nat, m \in N PROVE m + 1 \in N
  <2> SUFFICES ASSUME m + 1 <= n PROVE I(m + 1)
    OBVIOUS
  <2>1. m <= n /\ m \in 0..(n - 1)
    BY <1>3
  <2> DEFINE x == tr[m]
             y == tr[m + 1]
             r == Head(x.stack).rev
             e == [rev |-> r, text |-> PutText(f, r, Head(x.stack).prev)]
  <2>2. y = WriteText(f, x)
    BY <1>2, <2>1 DEF Trace, Do
  <2>3. y.out = x.out \/ y.out = Append(x.out, e)
    <3> HIDE DEF x, y
    <3>1. CASE x.stack = <<>>
      BY <2>2, <3>1 DEF WriteText
    <3>2. CASE x.stack # <<>>
      BY <2>2, <3>2 DEF WriteText
    <3> QED BY <3>1, <3>2
  <2>4. PICK T : x.out \in Seq(T)
    BY <1>5, <2>1
  <2> HIDE DEF x, e
  <2>5. x.out \in Seq(T \cup {e})
    <3> DEFINE z == x.out
               U == T \cup {e}
    <3>1. z \in Seq(T)
      BY <2>4
    <3>2. T \subseteq U
      OBVIOUS
    <3> HIDE DEF z, U
    <3>3. Len(z) \in Nat /\ z = [i \in 1..Len(z) |-> z[i]] /\ \A i \in 1..Len(z) : z[i] \in T
      BY <3>1
    <3>4. z \in [1..Len(z) -> U]
      BY <3>2, <3>3
    <3>5. z \in Seq(U)
      BY <3>3, <3>4, FunctionSeq
    <3> QED BY <3>5 DEF z, U
  <2>6. Append(x.out, e) \in Seq(T \cup {e})
    BY <2>5, AppendProperties
  <2>7. y.out \in Seq(T \cup {e})
    BY <2>3, <2>5, <2>6
  <2> QED BY <2>7
<1> HIDE DEF N
<1>6. n \in N
  BY <1>3, <1>4, <1>5, NatSet
<1>7. I(n)
  BY <1>3, <1>6 DEF N
<1> QED BY <1>2, <1>7 DEF Trace

-----------------------------------------------------------------------------
(* The invariant *)

\* The commands of an edit: of the deltas of S that are not kept, d are still to
\* be deleted, and of those of G that are new, a are still to be added.
Left(S, G, d, a) == Kept(S, G) \cup d \cup ((G \ Kept(S, G)) \ a)
\* During an edit: those are the revisions of the struct rcsfile, each depends on
\* one that stays or is the head, and del and add are what the server has left to say.
Edited(S, G, d, a, f) ==
    /\ S \in Trees /\ G \in Trees /\ HeadOf(S) \in G
    /\ d \in SUBSET (S \ Kept(S, G)) /\ a \in SUBSET (G \ Kept(S, G))
    /\ d = {} \/ a = G \ Kept(S, G)
    /\ Sound(f, Left(S, G, d, a)) /\ f.placeholder = {} /\ f.head = HeadOf(S)
    /\ \A r \in Left(S, G, d, a) \ d :
         f.base[r] \in Left(S, G, d, a) \ d \/ (f.base[r] = None /\ f.head = r)
\* The new file without its texts.
Made(G, f, x) ==
    /\ G \in Trees /\ Sound(f, G) /\ f.placeholder = {}
    /\ x.head = HeadOf(G) /\ Out(G, x.deltas) /\ Named(x.deltas) = G
    /\ Len(x.deltas) = Cardinality(G)
    /\ \E T : x.texts \in Seq(T)

\* updater_rcsedit() begins with what rcsparse() has read.
LEMMA OpenEdited ==
    ASSUME NEW S \in Trees, NEW x, Shaped(x, S), NEW G \in Trees, HeadOf(S) \in G,
           NEW f, f = Parse(x)
    PROVE  Edited(S, G, S \ Kept(S, G), G \ Kept(S, G), f)
<1> DEFINE K == Kept(S, G)
           d == S \ K
           a == G \ K
<1>1. /\ K \in SUBSET S /\ K \in SUBSET G /\ HeadOf(S) \in K
      /\ \A r \in K : r = HeadOf(S) \/ (Before(S, r) = Before(G, r) /\ Before(S, r) \in K)
  BY KeptFacts
<1> HIDE DEF K
<1>2. Left(S, G, d, a) = S /\ S \ d = K
  BY <1>1 DEF Left, K
<1>3. Parsed(f, S, S, {})
  BY ParseShaped DEF TreeOf
<1>4. Sound(f, S) /\ f.placeholder = {} /\ f.head = HeadOf(S)
      /\ \A r \in S : f.base[r] = Before(S, r)
  BY <1>3 DEF Parsed, Sound
<1>5. Before(S, HeadOf(S)) = None
  BY HeadFacts, BeforeFacts
<1>6. \A r \in K : f.base[r] \in K \/ (f.base[r] = None /\ f.head = r)
  BY <1>1, <1>4, <1>5
<1> DEFINE L == Left(S, G, d, a)
<1>7. L = S /\ d \in SUBSET (S \ K) /\ a \in SUBSET (G \ K) /\ a = G \ K
  BY <1>2
<1> HIDE DEF L
<1>8. \A r \in L \ d : f.base[r] \in L \ d \/ (f.base[r] = None /\ f.head = r)
  BY <1>2, <1>6, <1>7
<1> HIDE DEF d, a
<1>9. Edited(S, G, d, a, f)
  BY <1>4, <1>7, <1>8 DEF Edited, K, L
<1> QED BY <1>9 DEF d, a, K

\* updater_deldelta(): a deletion is one step of the edit.
LEMMA DeleteEdited ==
    ASSUME NEW S, NEW G, NEW d, NEW a, NEW f, Edited(S, G, d, a, f),
           NEW r \in d, \A s \in d : IsTrunk(s) \/ BranchPoint(s) # r,
           NEW g, g = Deleted(f, r)
    PROVE  Edited(S, G, d \ {r}, a, g)
<1> DEFINE K == Kept(S, G)
           L == Left(S, G, d, a)
           M == Left(S, G, d \ {r}, a)
<1>1. /\ S \in Trees /\ G \in Trees /\ HeadOf(S) \in G
      /\ d \in SUBSET (S \ K) /\ a \in SUBSET (G \ K) /\ a = G \ K
      /\ Sound(f, L) /\ f.placeholder = {} /\ f.head = HeadOf(S)
      /\ \A s \in L \ d : f.base[s] \in L \ d \/ (f.base[s] = None /\ f.head = s)
  BY DEF Edited
<1>2. K \in SUBSET S /\ \A s \in K : ~IsTrunk(s) => BranchPoint(s) \in K
  BY <1>1, KeptFacts
<1>3. S \in SUBSET Revs
  BY <1>1, HeadFacts
<1>4. L = K \cup d /\ M = K \cup (d \ {r})
  BY <1>1 DEF Left
<1> HIDE DEF K, L, M
<1>5. r \notin K /\ M = L \ {r} /\ L \ d = K /\ M \ (d \ {r}) = K /\ L \in SUBSET Revs /\ r \in L
  BY <1>1, <1>2, <1>3, <1>4
<1>6. \A s \in L : ~IsTrunk(s) => BranchPoint(s) # r
  BY <1>2, <1>4, <1>5
<1>7. /\ Sound(g, L \ {r}) /\ g.placeholder = f.placeholder /\ g.head = f.head
      /\ \A s \in Revs : s # r => g.base[s] = f.base[s]
  <2>1. Without(f, L, r, g)
    BY <1>1, <1>5, <1>6, DeleteKeeps
  <2> QED BY <2>1 DEF Without
<1>8. Sound(g, M)
  BY <1>5, <1>7
<1>9. \A s \in M \ (d \ {r}) :
        g.base[s] \in M \ (d \ {r}) \/ (g.base[s] = None /\ g.head = s)
  BY <1>1, <1>2, <1>3, <1>5, <1>7
<1> DEFINE e == d \ {r}
<1>10. e \in SUBSET (S \ K)
  BY <1>1
<1>e. e = d \ {r}
  OBVIOUS
<1> HIDE DEF e
<1>11. Edited(S, G, e, a, g)
  BY <1>1, <1>7, <1>8, <1>9, <1>10, <1>e DEF Edited, K, M
<1> QED BY <1>11, <1>e

\* updater_adddelta(): an addition is one step of the edit, on a base that is there.
LEMMA AddEdited ==
    ASSUME NEW S, NEW G, NEW a, NEW f, Edited(S, G, {}, a, f), NEW r \in a,
           NEW p, p = DiffBase(S, G, r), IsKnown(f, p), NEW x,
           NEW g, g = Added(f, r, p, x)
    PROVE  Edited(S, G, {}, a \ {r}, g)
<1> DEFINE K == Kept(S, G)
           L == Left(S, G, {}, a)
           M == Left(S, G, {}, a \ {r})
<1>1. /\ S \in Trees /\ G \in Trees /\ HeadOf(S) \in G
      /\ a \in SUBSET (G \ K)
      /\ Sound(f, L) /\ f.placeholder = {} /\ f.head = HeadOf(S)
      /\ \A s \in L : f.base[s] \in L \/ (f.base[s] = None /\ f.head = s)
  BY DEF Edited
<1>2. K \in SUBSET G
  BY <1>1, KeptFacts
<1>3. G \in SUBSET Revs
  BY <1>1, HeadFacts
<1>4. L = K \cup ((G \ K) \ a) /\ M = K \cup ((G \ K) \ (a \ {r}))
  BY DEF Left
<1> HIDE DEF K, L, M
<1>5. r \in G /\ r \in Revs /\ r \notin L /\ M = L \cup {r} /\ L \in SUBSET Revs /\ L \in SUBSET G
  BY <1>1, <1>2, <1>3, <1>4
<1>6. p \in L
  BY <1>1 DEF IsKnown, Sound
<1>7. p \in Revs
  BY <1>5, <1>6
<1>8. ~IsTrunk(r) => BranchPoint(r) \in L
  <2> SUFFICES ASSUME ~IsTrunk(r) PROVE BranchPoint(r) \in L
    OBVIOUS
  <2>1. p = Before(G, r)
    BY DEF DiffBase
  <2>2. BranchId(p) = BranchId(r) \/ p = BranchPoint(r)
    <3>1. \/ Preds(G, r) # {} /\ BranchId(Before(G, r)) = BranchId(r)
          \/ Preds(G, r) = {} /\ IsTrunk(r) /\ r = HeadOf(G) /\ Before(G, r) = None
          \/ Preds(G, r) = {} /\ ~IsTrunk(r) /\ Before(G, r) = BranchPoint(r)
      BY <1>1, <1>5, BeforeFacts
    <3> QED BY <2>1, <3>1
  <2>3. CASE BranchId(p) = BranchId(r)
    <3>1. ~IsTrunk(p) /\ BranchPoint(p) = BranchPoint(r)
      BY <1>5, <1>7, <2>3, SameBranch
    <3> QED BY <1>1, <1>6, <3>1 DEF Sound, Lists
  <2> QED BY <1>6, <2>2, <2>3
<1>9. /\ Sound(g, L \cup {r}) /\ g.placeholder = f.placeholder /\ g.head = f.head
      /\ \A s \in Revs : g.base[s] = IF s = r THEN p ELSE f.base[s]
  <2>0. p \in Revs \cup {None}
    BY <1>7
  <2>1. With(f, L, r, p, g)
    BY <1>1, <1>5, <1>8, <2>0, AddKeeps
  <2> QED BY <2>1 DEF With
<1>10. Sound(g, M)
  BY <1>5, <1>9
<1>11. \A s \in M \ {} : g.base[s] \in M \ {} \/ (g.base[s] = None /\ g.head = s)
  BY <1>1, <1>5, <1>6, <1>9
<1> DEFINE b == a \ {r}
<1>12. b \in SUBSET (G \ K)
  BY <1>1
<1>b. b = a \ {r}
  OBVIOUS
<1> HIDE DEF b
<1>13. Edited(S, G, {}, b, g)
  BY <1>1, <1>9, <1>10, <1>11, <1>12, <1>b DEF Edited, K, M
<1> QED BY <1>13, <1>b

\* rcsfile_setval(), rcsfile_addtag(), rcsfile_deltag(): the tree is left alone.
LEMMA AdminEdited ==
    ASSUME NEW S, NEW G, NEW d, NEW a, NEW f, Edited(S, G, d, a, f), NEW x,
           NEW g, g = [f EXCEPT !.branch = x] \/ g = [f EXCEPT !.tags = x]
    PROVE  Edited(S, G, d, a, g)
<1> DEFINE L == Left(S, G, d, a)
<1>1. Sound(f, L)
  BY DEF Edited
<1> HIDE DEF L
<1>2. /\ Sound(g, L) /\ g.placeholder = f.placeholder /\ g.head = f.head
      /\ g.base = f.base
  BY <1>1, AdminKeeps
<1> QED BY <1>2 DEF Edited, L

\* rcsfile_write(): when all edits are done, the file is made of the goal.
LEMMA WriteMade ==
    ASSUME NEW S, NEW G, NEW f, Edited(S, G, {}, {}, f), NEW x, x = WriteFile(f)
    PROVE  Made(G, f, x)
<1>1. Kept(S, G) \in SUBSET G
  BY KeptFacts DEF Edited
<1>2. Left(S, G, {}, {}) = G
  BY <1>1 DEF Left
<1>3. G \in Trees /\ Sound(f, G) /\ f.placeholder = {}
  BY <1>2 DEF Edited
<1> DEFINE h == Head(f.list[<<1>>])
<1>4. h = HeadOf(G)
  BY <1>3, FirstIsHead
<1>5. /\ x.head = h /\ x.deltas = WriteDeltas(f, h) /\ x.texts = WriteTexts(f, h)
  BY DEF WriteFile
<1> HIDE DEF h
<1>6. Out(G, x.deltas) /\ Named(x.deltas) = G /\ Len(x.deltas) = Cardinality(G)
  BY <1>3, <1>4, <1>5, WriteDeltasFacts
<1>7. \E T : x.texts \in Seq(T)
  BY <1>3, <1>5, WriteTextsSeq DEF Sound
<1> QED BY <1>3, <1>4, <1>5, <1>6, <1>7 DEF Made

\* With a text for each of its deltas it can be read back.
LEMMA MadeShaped ==
    ASSUME NEW G, NEW f, NEW x, Made(G, f, x),
           {x.texts[i].rev : i \in DOMAIN x.texts} = G
    PROVE  Shaped(x, G) /\ RevsOf(x) = G
<1> DEFINE o == x.deltas
<1>1. Out(G, o) /\ Named(o) = G /\ x.head = HeadOf(G)
  BY DEF Made
<1>2. RevsOf(x) = G
  BY <1>1 DEF RevsOf, Named
<1>3. \E T : x.deltas \in Seq(T)
  BY <1>1 DEF Out
<1>4. \E T : x.texts \in Seq(T)
  BY DEF Made
<1>5. \A i, j \in DOMAIN x.deltas : i # j => x.deltas[i].rev # x.deltas[j].rev
  BY <1>1 DEF Out
<1>6. \A i \in DOMAIN x.deltas :
        /\ x.deltas[i].next = NextIn(G, x.deltas[i].rev)
        /\ \/ x.deltas[i].rev = HeadOf(G)
           \/ \E j \in 1..(i - 1) : x.deltas[j].rev = Before(G, x.deltas[i].rev)
  BY <1>1 DEF Out, Entry
<1> QED BY <1>1, <1>2, <1>3, <1>4, <1>5, <1>6 DEF Shaped

\* The client's file is a tree that can be read; during an edit the struct rcsfile
\* has what is left of it and what has been added; the new file is made of it.
IInv ==
    /\ pc \in {"idle", "edit", "written"}
    /\ RevsOf(file) \in Trees /\ Shaped(file, RevsOf(file))
    /\ pc = "idle" => goal = {} /\ rf = EmptyFile /\ del = {} /\ add = {}
    /\ pc = "edit" => Edited(RevsOf(file), goal, del, add, rf)
    /\ pc = "written" => Made(goal, rf, new) /\ del = {} /\ add = {}

\* The program starts with a tree of a server and no edit.
LEMMA InitIInv == Init => IInv
<1> SUFFICES ASSUME Init PROVE IInv
  OBVIOUS
<1>1. PICK S \in Trees : file = FileOf(content, S)
  BY DEF Init
<1>2. Shaped(file, S)
  BY <1>1, FileOfShaped
<1>3. RevsOf(file) = S
  BY <1>2 DEF Shaped
<1> QED BY <1>2, <1>3 DEF Init, IInv

\* Every step keeps the invariant: opening, the edits, writing and installing.
LEMMA NextIInv == IInv /\ [Next]_vars => IInv'
<1> SUFFICES ASSUME IInv, [Next]_vars PROVE IInv'
  OBVIOUS
<1> DEFINE S == RevsOf(file)
<1>0. S \in Trees /\ Shaped(file, S)
  BY DEF IInv
<1>1. CASE OpenRcs
  <2>1. PICK G \in Trees : /\ HeadOf(S) \in G /\ goal' = G
                           /\ del' = S \ Kept(S, G) /\ add' = G \ Kept(S, G)
    BY <1>1 DEF OpenRcs
  <2>2. rf' = Parse(file) /\ pc' = "edit" /\ file' = file
    BY <1>1 DEF OpenRcs
  <2> DEFINE f == Parse(file)
  <2>3. Edited(S, G, S \ Kept(S, G), G \ Kept(S, G), f)
    BY <1>0, <2>1, OpenEdited
  <2>4. Edited(S, goal', del', add', rf')
    BY <2>1, <2>2, <2>3
  <2> QED BY <1>0, <2>2, <2>4 DEF IInv
<1>2. CASE DeleteRev
  <2>1. PICK r \in del : /\ \A s \in del : IsTrunk(s) \/ BranchPoint(s) # r
                         /\ rf' = Deleted(rf, r) /\ del' = del \ {r}
    BY <1>2 DEF DeleteRev, Deleted
  <2>2. pc = "edit" /\ file' = file /\ goal' = goal /\ pc' = pc /\ add' = add
    BY <1>2 DEF DeleteRev
  <2>3. Edited(S, goal, del, add, rf)
    BY <2>2 DEF IInv
  <2>4. Edited(S, goal, del \ {r}, add, rf')
    BY <2>1, <2>3, DeleteEdited
  <2> QED BY <1>0, <2>1, <2>2, <2>4 DEF IInv
<1>3. CASE AddDelta
  <2>1. PICK r \in add :
          LET base == DiffBase(S, goal, r)
              f == Insert(CreateDelta(rf, r, base), r)
          IN /\ IsKnown(rf, base)
             /\ rf' = [f EXCEPT !.table = InsertSortedDelta(@, r),
                                !.text[r] = Text(FALSE, DiffOf(content[base], content[r]))]
             /\ add' = add \ {r}
    BY <1>3 DEF AddDelta
  <2> DEFINE p == DiffBase(S, goal, r)
             x == Text(FALSE, DiffOf(content[p], content[r]))
  <2>2. IsKnown(rf, p) /\ rf' = Added(rf, r, p, x) /\ add' = add \ {r}
    BY <2>1 DEF Added
  <2>3. pc = "edit" /\ file' = file /\ goal' = goal /\ pc' = pc /\ del' = del /\ del = {}
    BY <1>3 DEF AddDelta
  <2>4. Edited(S, goal, {}, add, rf)
    BY <2>3 DEF IInv
  <2>5. p = DiffBase(S, goal, r)
    OBVIOUS
  <2> HIDE DEF p, x
  <2>6. Edited(S, goal, {}, add \ {r}, rf')
    BY <2>2, <2>4, <2>5, AddEdited
  <2> QED BY <1>0, <2>2, <2>3, <2>6 DEF IInv
<1>4. CASE SetBranch \/ DeleteTag \/ AddTag
  <2>1. /\ pc = "edit" /\ file' = file /\ goal' = goal /\ pc' = pc /\ del' = del
        /\ add' = add
    BY <1>4 DEF SetBranch, DeleteTag, AddTag
  <2>2. PICK x : rf' = [rf EXCEPT !.branch = x] \/ rf' = [rf EXCEPT !.tags = x]
    BY <1>4 DEF SetBranch, DeleteTag, AddTag
  <2>3. Edited(S, goal, del, add, rf)
    BY <2>1 DEF IInv
  <2>4. Edited(S, goal, del, add, rf')
    BY <2>2, <2>3, AdminEdited
  <2> QED BY <1>0, <2>1, <2>4 DEF IInv
<1>5. CASE WriteRcs
  <2>1. /\ pc = "edit" /\ del = {} /\ add = {} /\ new' = WriteFile(rf) /\ pc' = "written"
        /\ file' = file /\ goal' = goal /\ rf' = rf /\ del' = del /\ add' = add
    BY <1>5 DEF WriteRcs
  <2>2. Edited(S, goal, {}, {}, rf)
    BY <2>1 DEF IInv
  <2>3. Made(goal, rf, new')
    BY <2>1, <2>2, WriteMade
  <2> QED BY <1>0, <2>1, <2>3 DEF IInv
<1>6. CASE Install
  <2>1. /\ pc = "written" /\ goal' = {} /\ rf' = EmptyFile /\ pc' = "idle"
        /\ del' = del /\ add' = add
        /\ file' = IF Complete(new) THEN new ELSE FileOf(content, goal)
    BY <1>6 DEF Install
  <2>2. Made(goal, rf, new) /\ del = {} /\ add = {} /\ goal \in Trees
    BY <2>1 DEF IInv, Made
  <2>3. Shaped(file', goal) /\ RevsOf(file') = goal
    <3>1. CASE Complete(new)
      <4>1. {new.texts[i].rev : i \in DOMAIN new.texts} = goal
        BY <3>1 DEF Complete
      <4> QED BY <2>1, <2>2, <3>1, <4>1, MadeShaped
    <3>2. CASE ~Complete(new)
      <4>1. Shaped(file', goal)
        BY <2>1, <2>2, <3>2, FileOfShaped
      <4> QED BY <4>1 DEF Shaped
    <3> QED BY <3>1, <3>2
  <2> QED BY <2>1, <2>2, <2>3 DEF IInv
<1>7. CASE UNCHANGED vars
  BY <1>7 DEF vars, IInv
<1> QED BY <1>1, <1>2, <1>3, <1>4, <1>5, <1>6, <1>7 DEF Next

\* The invariant holds in every state of an RCS file's edits.
THEOREM Invariant == Spec => []IInv
BY InitIInv, NextIInv, PTL DEF Spec

-----------------------------------------------------------------------------
(* What it says *)

\* What is ordered by pairs is sorted between neighbours, upwards ...
LEMMA OrderedUp ==
    ASSUME NEW q, NEW T, q \in Seq(T), OrderedBy(q, Up)
    PROVE  SortedBy(q, RevLess)
<1> SUFFICES ASSUME NEW i \in 2..Len(q) PROVE RevLess(q[i - 1], q[i])
  BY DEF SortedBy
<1>1. i \in DOMAIN q /\ i - 1 \in DOMAIN q /\ i - 1 < i
  OBVIOUS
<1>2. <<q[i - 1], q[i]>> \in Up
  BY <1>1 DEF OrderedBy
<1> QED BY <1>2 DEF Up
\* ... and downwards.
LEMMA OrderedDown ==
    ASSUME NEW q, NEW T, q \in Seq(T), OrderedBy(q, Down)
    PROVE  SortedBy(q, Newer)
<1> SUFFICES ASSUME NEW i \in 2..Len(q) PROVE Newer(q[i - 1], q[i])
  BY DEF SortedBy
<1>1. i \in DOMAIN q /\ i - 1 \in DOMAIN q /\ i - 1 < i
  OBVIOUS
<1>2. <<q[i - 1], q[i]>> \in Down
  BY <1>1 DEF OrderedBy
<1> QED BY <1>2 DEF Down, Newer

\* The file has a tree, and its texts are those of its deltas.
LEMMA IInvTypeOK == IInv => TypeOK
<1> SUFFICES ASSUME IInv PROVE TypeOK
  OBVIOUS
<1>1. RevsOf(file) \in Trees
      /\ RevsOf(file) = {file.texts[i].rev : i \in DOMAIN file.texts}
      /\ pc \in {"idle", "edit", "written"}
  BY DEF IInv, Shaped
<1>2. /\ goal \subseteq Revs /\ del \subseteq Revs /\ add \subseteq Revs
      /\ Range(rf.table) \subseteq Revs /\ rf.placeholder \subseteq Revs
      /\ \A r \in Revs : rf.base[r] \in Revs \cup {None}
  <2>1. ASSUME pc = "idle"
        PROVE /\ goal \subseteq Revs /\ del \subseteq Revs /\ add \subseteq Revs
              /\ Range(rf.table) \subseteq Revs /\ rf.placeholder \subseteq Revs
              /\ \A r \in Revs : rf.base[r] \in Revs \cup {None}
    <3>1. goal = {} /\ rf = EmptyFile /\ del = {} /\ add = {}
      BY <2>1 DEF IInv
    <3>2. rf.table = <<>> /\ rf.placeholder = {} /\ rf.base = [r \in Revs |-> None]
      BY <3>1 DEF EmptyFile
    <3>3. Range(<<>>) = {}
      BY DEF Range
    <3> QED BY <3>1, <3>2, <3>3
  <2>2. ASSUME NEW D, D \in SUBSET Revs, Sound(rf, D)
        PROVE  /\ Range(rf.table) \subseteq Revs /\ rf.placeholder \subseteq Revs
               /\ \A r \in Revs : rf.base[r] \in Revs \cup {None}
    BY <2>2 DEF Sound, IsFile
  <2>3. ASSUME pc = "edit"
        PROVE /\ goal \subseteq Revs /\ del \subseteq Revs /\ add \subseteq Revs
              /\ Range(rf.table) \subseteq Revs /\ rf.placeholder \subseteq Revs
              /\ \A r \in Revs : rf.base[r] \in Revs \cup {None}
    <3>1. Edited(RevsOf(file), goal, del, add, rf)
      BY <2>3 DEF IInv
    <3> DEFINE S == RevsOf(file)
               L == Left(S, goal, del, add)
    <3>2. /\ S \in Trees /\ goal \in Trees /\ HeadOf(S) \in goal /\ Sound(rf, L)
          /\ del \in SUBSET (S \ Kept(S, goal)) /\ add \in SUBSET (goal \ Kept(S, goal))
      BY <3>1 DEF Edited
    <3>3. S \in SUBSET Revs /\ goal \in SUBSET Revs /\ Kept(S, goal) \in SUBSET goal
      BY <3>2, HeadFacts, KeptFacts
    <3>4. L \in SUBSET Revs
      BY <3>2, <3>3 DEF Left
    <3> HIDE DEF S, L
    <3> QED BY <2>2, <3>2, <3>3, <3>4
  <2>4. ASSUME pc = "written"
        PROVE /\ goal \subseteq Revs /\ del \subseteq Revs /\ add \subseteq Revs
              /\ Range(rf.table) \subseteq Revs /\ rf.placeholder \subseteq Revs
              /\ \A r \in Revs : rf.base[r] \in Revs \cup {None}
    <3>1. goal \in Trees /\ Sound(rf, goal) /\ del = {} /\ add = {}
      BY <2>4 DEF IInv, Made
    <3>2. goal \in SUBSET Revs
      BY <3>1, HeadFacts
    <3> QED BY <2>2, <3>1, <3>2
  <2> QED BY <1>1, <2>1, <2>3, <2>4
<1> QED BY <1>1, <1>2 DEF TypeOK

\* The edits have left table, lists, branches and bases as they must be.
LEMMA IInvTreeSound == IInv => TreeSound
<1> SUFFICES ASSUME IInv, pc = "edit" PROVE TreeSound
  BY DEF TreeSound
<1> DEFINE S == RevsOf(file)
           L == Left(S, goal, del, add)
           revs == Range(rf.table)
<1>1. Edited(S, goal, del, add, rf)
  BY DEF IInv
<1>2. /\ Sound(rf, L) /\ rf.placeholder = {}
      /\ \A r \in L \ del : rf.base[r] \in L \ del \/ (rf.base[r] = None /\ rf.head = r)
      /\ S \in Trees /\ goal \in Trees /\ HeadOf(S) \in goal
      /\ del \in SUBSET (S \ Kept(S, goal))
  BY <1>1 DEF Edited
<1>3. revs = L
  BY <1>2 DEF Sound
<1>4. L \in SUBSET Revs
  <2>1. S \in SUBSET Revs /\ goal \in SUBSET Revs /\ Kept(S, goal) \in SUBSET goal
    BY <1>2, HeadFacts, KeptFacts
  <2> QED BY <1>2, <2>1 DEF Left
<1> HIDE DEF S, L
<1>5. SortedBy(rf.table, RevLess) /\ rf.placeholder = {}
  BY <1>2, OrderedUp DEF Sound, IsFile
<1>6. ASSUME NEW b \in DOMAIN rf.list
      PROVE  /\ Range(rf.list[b]) = {r \in revs : BranchId(r) = b}
             /\ IF b = <<1>> THEN SortedBy(rf.list[b], Newer)
                ELSE SortedBy(rf.list[b], RevLess)
  <2>1. b \in Ids /\ rf.list[b] \in Seq(Revs)
    BY <1>2, <1>6 DEF Sound, IsFile
  <2>2. OrderedBy(rf.list[b], Ord(b)) /\ Range(rf.list[b]) = BranchOf(L, b)
    BY <1>2, <2>1 DEF Sound, Lists
  <2>3. Range(rf.list[b]) = {r \in revs : BranchId(r) = b}
    BY <1>3, <2>2 DEF BranchOf
  <2>4. CASE b = <<1>>
    BY <2>1, <2>2, <2>3, <2>4, OrderedDown DEF Ord
  <2>5. CASE b # <<1>>
    BY <2>1, <2>2, <2>3, <2>5, OrderedUp DEF Ord
  <2> QED BY <2>4, <2>5
<1>7. ASSUME NEW r \in revs
      PROVE  /\ SortedBy(rf.branches[r], Newer)
             /\ IsTrunk(r) \/ BranchId(r) \in Range(rf.branches[BranchPoint(r)])
  <2>1. r \in L /\ r \in Revs
    BY <1>3, <1>4
  <2>2. rf.branches[r] \in Seq(Ids) /\ OrderedBy(rf.branches[r], Down)
    BY <1>2, <2>1 DEF Sound, IsFile, Lists
  <2>3. SortedBy(rf.branches[r], Newer)
    BY <2>2, OrderedDown
  <2>4. IsTrunk(r) \/ BranchId(r) \in Range(rf.branches[BranchPoint(r)])
    BY <1>2, <2>1 DEF Sound, Lists
  <2> QED BY <2>3, <2>4
<1>8. \A r \in revs \ del :
        rf.base[r] \in revs \ del \/ (rf.base[r] = None /\ rf.head = r)
  BY <1>2, <1>3
<1> QED BY <1>5, <1>6, <1>7, <1>8 DEF TreeSound

\* The written deltas are the goal, none in front of the one it depends on.
LEMMA IInvWrittenTree == IInv => WrittenTree
<1> SUFFICES ASSUME IInv, pc = "written" PROVE WrittenTree
  BY DEF WrittenTree
<1>1. Made(goal, rf, new)
  BY DEF IInv
<1> DEFINE o == new.deltas
<1>2. /\ goal \in Trees /\ new.head = HeadOf(goal) /\ Out(goal, o) /\ Named(o) = goal
      /\ Len(o) = Cardinality(goal)
  BY <1>1 DEF Made
<1>3. RevsOf(new) = goal
  BY <1>2 DEF RevsOf, Named
<1>4. ASSUME NEW i \in DOMAIN o
      PROVE  /\ o[i].next = NextIn(goal, o[i].rev)
             /\ SortedBy(o[i].branches, RevLess)
             /\ Range(o[i].branches) = After(goal, o[i].rev) \ {o[i].next}
             /\ \/ o[i].rev = new.head
                \/ \E j \in 1..(i - 1) : o[j].rev = Before(goal, o[i].rev)
  <2>1. Entry(goal, o, i) /\ o \in Seq(Entries)
    BY <1>2 DEF Out
  <2>2. o[i] \in Entries
    BY <2>1
  <2>3. o[i].branches \in Seq(Revs) /\ OrderedBy(o[i].branches, Up)
    BY <2>1, <2>2 DEF Entries, Entry
  <2>4. SortedBy(o[i].branches, RevLess)
    BY <2>3, OrderedUp
  <2> QED BY <1>2, <2>1, <2>4 DEF Entry, Branched
<1> QED BY <1>2, <1>3, <1>4 DEF WrittenTree

\* The file that rcsfile_send_details() reads is one rcsparse() reads in full.
LEMMA IInvDetails == IInv => DetailsComplete
<1> SUFFICES ASSUME IInv PROVE Details(file) = Parse(file).table
                               /\ Range(Details(file)) = RevsOf(file)
  BY DEF DetailsComplete
<1>1. RevsOf(file) \in Trees /\ Shaped(file, RevsOf(file))
  BY DEF IInv
<1> QED BY <1>1, ParseShaped

\* rcsparse(), rcsfile_write(): an installed file has a delta and a text for every
\* revision, on a tree without holes.
THEOREM FilesComplete == Spec => []TypeOK
BY Invariant, IInvTypeOK, PTL
\* rcsfile_deleterev(), rcsfile_addelta(), rcsfile_getbranch(): after each command
\* table, lists, branches and bases fit together.
THEOREM TreesSound == Spec => []TreeSound
BY Invariant, IInvTreeSound, PTL
\* rcsfile_write(): the new file has each delta of the server's file once, with its
\* next one and its branches, and none in front of the one it depends on.
THEOREM TreesWritten == Spec => []WrittenTree
BY Invariant, IInvWrittenTree, PTL
\* rcsfile_send_details(): the short import finds what the full one finds.
THEOREM DetailsFound == Spec => []DetailsComplete
BY Invariant, IInvDetails, PTL
=============================================================================
