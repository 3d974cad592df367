----------------------------- MODULE MergeProofs -----------------------------
(***************************************************************************)
(* Proofs about the status file in module Update: that the updater merges  *)
(* its records into the old file without losing or doubling one, that what *)
(* it writes can be read again, and that the lister keeps its place in it. *)
(*                                                                         *)
(* In this order: statusrec_cmp() as a linear order; the path compressor   *)
(* over sorted sequences of records; status_get(), status_put(),           *)
(* status_delete() and status_close() as steps of a merge; the order of    *)
(* the commands; the invariant and its preservation.                       *)
(***************************************************************************)
EXTENDS UpdateProofs

-----------------------------------------------------------------------------
(* The order of the records *)

\* A record in the order: the components of its path, and after them what comes
\* before, or for a DirUp after, every component.
Digit(r, i) ==
    IF i <= Len(r.path) THEN r.path[i] ELSE IF r.type = "U" THEN -2 ELSE -1
Under(a, b) == a # b /\ a # -2 /\ (b = -2 \/ a < b)
Lower(r, s) ==
    \E i \in Nat \ {0} : /\ \A j \in 1..(i - 1) : Digit(r, j) = Digit(s, j)
                         /\ Under(Digit(r, i), Digit(s, i))

\* Two records in the same place: the same file, or the same mark.
Same(r, s) == r.path = s.path /\ (r.type = "U" <=> s.type = "U")

\* Initial pieces, component by component.
LEMMA Pieces ==
    ASSUME NEW p \in Seq(Nat), NEW q \in Seq(Nat), NEW n \in Nat,
           n <= Len(p), n <= Len(q)
    PROVE  SubSeq(p, 1, n) = SubSeq(q, 1, n) <=> \A i \in 1..n : p[i] = q[i]
<1>1. n \in 0..Len(p) /\ n \in 0..Len(q)
  OBVIOUS
<1>2. /\ SubSeq(p, 1, n) \in Seq(Nat) /\ Len(SubSeq(p, 1, n)) = n
      /\ SubSeq(q, 1, n) \in Seq(Nat) /\ Len(SubSeq(q, 1, n)) = n
      /\ \A i \in 1..n : SubSeq(p, 1, n)[i] = p[i] /\ SubSeq(q, 1, n)[i] = q[i]
  BY <1>1, PathParts
<1>3. (\A i \in 1..n : p[i] = q[i]) => SubSeq(p, 1, n) = SubSeq(q, 1, n)
  BY <1>2, SeqEqual
<1> QED BY <1>2, <1>3

\* A prefix, component by component.
LEMMA PrefixIs ==
    ASSUME NEW p \in Seq(Nat), NEW q \in Seq(Nat)
    PROVE  /\ IsPrefix(p, q) <=> Len(p) <= Len(q) /\ \A i \in 1..Len(p) : p[i] = q[i]
           /\ IsStrictPrefix(p, q) <=> Len(p) < Len(q) /\ \A i \in 1..Len(p) : p[i] = q[i]
<1>1. Len(p) \in Nat /\ Len(q) \in Nat
  OBVIOUS
<1>2. IsPrefix(p, q) <=> Len(p) <= Len(q) /\ \A i \in 1..Len(p) : p[i] = q[i]
  BY <1>1, Pieces DEF IsPrefix
<1>3. Len(p) = Len(q) /\ (\A i \in 1..Len(p) : p[i] = q[i]) => p = q
  BY SeqEqual
<1> QED BY <1>1, <1>2, <1>3 DEF IsStrictPrefix

\* The paths of records.
LEMMA RecPath ==
    ASSUME NEW r \in Recs
    PROVE  /\ r.path \in Seq(Nat) /\ Len(r.path) \in Nat \ {0}
           /\ \A i \in 1..Len(r.path) : r.path[i] \in Nat
<1>1. r.path \in Seq(Nat) /\ r.path # <<>>
  BY DEF Recs, Paths
<1> QED BY <1>1

\* The digits are the components, and then the end of the path.
LEMMA Digits ==
    ASSUME NEW r \in Recs, NEW i \in Nat \ {0}
    PROVE  /\ i <= Len(r.path) => Digit(r, i) = r.path[i] /\ Digit(r, i) \in Nat
           /\ i > Len(r.path) => Digit(r, i) = IF r.type = "U" THEN -2 ELSE -1
           /\ Digit(r, i) \in Int
BY RecPath DEF Digit

\* statusrec_cmp() compares the first digits that differ.
LEMMA RecOrder ==
    ASSUME NEW r \in Recs, NEW s \in Recs
    PROVE  RecLess(r, s) <=> Lower(r, s)
<1> DEFINE p == r.path
           q == s.path
           m == Len(p)
           n == Len(q)
<1>1. p \in Seq(Nat) /\ q \in Seq(Nat) /\ m \in Nat \ {0} /\ n \in Nat \ {0}
  BY RecPath
<1>2. /\ \A i \in 1..m : Digit(r, i) = p[i] /\ p[i] \in Nat
      /\ \A i \in 1..n : Digit(s, i) = q[i] /\ q[i] \in Nat
      /\ \A i \in Nat : i > m => Digit(r, i) = IF r.type = "U" THEN -2 ELSE -1
      /\ \A i \in Nat : i > n => Digit(s, i) = IF s.type = "U" THEN -2 ELSE -1
  BY RecPath DEF Digit
<1>3. /\ IsPrefix(p, q) <=> m <= n /\ \A i \in 1..m : p[i] = q[i]
      /\ IsPrefix(q, p) <=> n <= m /\ \A i \in 1..n : q[i] = p[i]
      /\ IsStrictPrefix(p, q) <=> m < n /\ \A i \in 1..m : p[i] = q[i]
  BY <1>1, PrefixIs
<1>0. DOMAIN p = 1..m /\ DOMAIN q = 1..n
  BY <1>1
<1>9. /\ RecLess(r, s) <=>
           /\ ~(r.type = "U" /\ IsPrefix(p, q))
           /\ (s.type = "U" /\ IsPrefix(q, p)) \/ PathLess(p, q)
  BY DEF RecLess
<1> HIDE DEF p, q, m, n
<1>4. CASE r.type = "U" /\ IsPrefix(p, q)
  <2>1. ~RecLess(r, s)
    BY <1>4, <1>9
  <2>2. \A i \in Nat \ {0} : ~Under(Digit(r, i), Digit(s, i))
    <3> SUFFICES ASSUME NEW i \in Nat \ {0} PROVE ~Under(Digit(r, i), Digit(s, i))
      OBVIOUS
    <3>1. CASE i <= m
      <4>1. i \in 1..m /\ i \in 1..n /\ p[i] = q[i]
        BY <1>1, <1>3, <1>4, <3>1
      <4>2. Digit(r, i) = Digit(s, i) /\ Digit(r, i) \in Nat
        BY <1>2, <4>1
      <4> QED BY <4>2 DEF Under
    <3>2. CASE i > m
      <4>1. Digit(r, i) = -2
        BY <1>2, <1>4, <3>2
      <4> QED BY <4>1 DEF Under
    <3> QED BY <1>1, <3>1, <3>2
  <2> QED BY <2>1, <2>2 DEF Lower
<1>5. CASE ~(r.type = "U" /\ IsPrefix(p, q)) /\ s.type = "U" /\ IsPrefix(q, p)
  <2>1. RecLess(r, s)
    BY <1>5, <1>9
  <2>2. \A j \in 1..n : Digit(r, j) = Digit(s, j)
    <3> SUFFICES ASSUME NEW j \in 1..n PROVE Digit(r, j) = Digit(s, j)
      OBVIOUS
    <3>1. j \in 1..m /\ q[j] = p[j]
      BY <1>1, <1>3, <1>5
    <3>2. Digit(r, j) = p[j] /\ Digit(s, j) = q[j]
      BY <1>2, <3>1
    <3> QED BY <3>1, <3>2
  <2>3. Digit(s, n + 1) = -2
    BY <1>1, <1>2, <1>5
  <2>4. Digit(r, n + 1) # -2
    <3>1. CASE n + 1 <= m
      <4>1. n + 1 \in 1..m
        BY <1>1, <3>1
      <4>2. Digit(r, n + 1) \in Nat
        BY <1>2, <4>1
      <4> QED BY <4>2
    <3>2. CASE n + 1 > m
      <4>1. r.type # "U"
        BY <1>1, <1>3, <1>5, <3>2
      <4> QED BY <1>1, <1>2, <3>2, <4>1
    <3> QED BY <1>1, <3>1, <3>2
  <2>5. Under(Digit(r, n + 1), Digit(s, n + 1))
    BY <2>3, <2>4 DEF Under
  <2>6. n + 1 \in Nat \ {0} /\ n + 1 - 1 = n
    BY <1>1
  <2> DEFINE k == n + 1
  <2>7. k \in Nat \ {0} /\ k - 1 = n /\ Under(Digit(r, k), Digit(s, k))
    <3>1. Under(Digit(r, k), Digit(s, k))
      BY <2>5
    <3>2. k \in Nat \ {0} /\ k - 1 = n
      BY <1>1
    <3> HIDE DEF k
    <3> QED BY <3>1, <3>2
  <2> HIDE DEF k
  <2>8. Lower(r, s)
    BY <2>2, <2>7 DEF Lower
  <2> QED BY <2>1, <2>8
<1>6. CASE /\ ~(r.type = "U" /\ IsPrefix(p, q))
           /\ ~(s.type = "U" /\ IsPrefix(q, p))
  <2>1. RecLess(r, s) <=> PathLess(p, q)
    BY <1>6, <1>9
  <2>2. ASSUME IsStrictPrefix(p, q) PROVE Lower(r, s)
    <3>1. r.type # "U" /\ m < n
      BY <1>1, <1>3, <1>6, <2>2
    <3>2. \A j \in 1..m : Digit(r, j) = Digit(s, j)
      BY <1>1, <1>2, <1>3, <2>2
    <3>3. Digit(r, m + 1) = -1 /\ Digit(s, m + 1) \in Nat
      <4>1. m + 1 \in Nat /\ m + 1 > m /\ m + 1 \in 1..n
        BY <1>1, <3>1
      <4>2. Digit(r, m + 1) = -1
        BY <1>2, <3>1, <4>1
      <4>3. Digit(s, m + 1) \in Nat
        BY <1>2, <4>1
      <4> QED BY <4>2, <4>3
    <3>4. m + 1 \in Nat \ {0} /\ m + 1 - 1 = m
      BY <1>1
    <3>5. Under(Digit(r, m + 1), Digit(s, m + 1))
      BY <3>3 DEF Under
    <3> DEFINE k == m + 1
    <3>6. k \in Nat \ {0} /\ k - 1 = m /\ Under(Digit(r, k), Digit(s, k))
      <4>1. Under(Digit(r, k), Digit(s, k))
        BY <3>5
      <4>2. k \in Nat \ {0} /\ k - 1 = m
        BY <1>1
      <4> HIDE DEF k
      <4> QED BY <4>1, <4>2
    <3> HIDE DEF k
    <3> QED BY <3>2, <3>6 DEF Lower
  <2>3. ASSUME NEW i \in DOMAIN p \cap DOMAIN q, p[i] < q[i],
               SubSeq(p, 1, i - 1) = SubSeq(q, 1, i - 1)
        PROVE  Lower(r, s)
    <3>1. i \in Nat \ {0} /\ i <= m /\ i <= n /\ i - 1 \in Nat /\ i - 1 <= m /\ i - 1 <= n
      BY <1>0, <1>1, <2>3
    <3>2. \A j \in 1..(i - 1) : p[j] = q[j]
      <4> DEFINE k == i - 1
      <4>1. /\ k \in Nat /\ k <= m /\ k <= n
            /\ SubSeq(p, 1, k) = SubSeq(q, 1, k)
        BY <2>3, <3>1
      <4> HIDE DEF k
      <4>2. k <= Len(p) /\ k <= Len(q)
        BY <4>1 DEF m, n
      <4>3. \A j \in 1..k : p[j] = q[j]
        BY <1>1, <4>1, <4>2, Pieces
      <4> QED BY <4>3 DEF k
    <3>3. \A j \in 1..(i - 1) : Digit(r, j) = Digit(s, j)
      <4> SUFFICES ASSUME NEW j \in 1..(i - 1) PROVE Digit(r, j) = Digit(s, j)
        OBVIOUS
      <4>1. j \in 1..m /\ j \in 1..n
        BY <1>1, <3>1
      <4>2. Digit(r, j) = p[j] /\ Digit(s, j) = q[j]
        BY <1>2, <4>1
      <4> QED BY <3>2, <4>2
    <3>4. i \in 1..m /\ i \in 1..n
      BY <1>1, <3>1
    <3>5. /\ Digit(r, i) = p[i] /\ Digit(s, i) = q[i]
          /\ Digit(r, i) \in Nat /\ Digit(s, i) \in Nat
      BY <1>2, <3>4
    <3>6. Under(Digit(r, i), Digit(s, i))
      BY <2>3, <3>5 DEF Under
    <3> QED BY <3>1, <3>3, <3>6 DEF Lower
  <2>4. ASSUME NEW i \in Nat \ {0}, \A j \in 1..(i - 1) : Digit(r, j) = Digit(s, j),
               Under(Digit(r, i), Digit(s, i))
        PROVE  PathLess(p, q)
    <3>1. CASE i <= m /\ i <= n
      <4>1. p[i] < q[i] /\ i \in DOMAIN p \cap DOMAIN q
        <5>1. i \in 1..m /\ i \in 1..n
          BY <1>1, <3>1
        <5> QED BY <1>0, <1>2, <2>4, <5>1 DEF Under
      <4>2. \A j \in 1..(i - 1) : p[j] = q[j]
        BY <1>1, <1>2, <2>4, <3>1
      <4>3. i - 1 \in Nat /\ i - 1 <= m /\ i - 1 <= n
        BY <1>1, <3>1
      <4>4. SubSeq(p, 1, i - 1) = SubSeq(q, 1, i - 1)
        BY <1>1, <4>2, <4>3, Pieces
      <4> QED BY <4>1, <4>4 DEF PathLess
    <3>2. CASE i > m /\ i <= n
      <4>1. i = m + 1
        <5> SUFFICES ASSUME i > m + 1 PROVE FALSE
          BY <1>1, <3>2
        <5>1. m + 1 \in 1..(i - 1) /\ m + 1 <= n /\ m + 1 \in Nat \ {0} /\ m + 1 > m
          BY <1>1, <3>2
        <5> QED BY <1>2, <2>4, <5>1
      <4>2. \A j \in 1..m : p[j] = q[j]
        BY <1>1, <1>2, <2>4, <3>2, <4>1
      <4> QED BY <1>1, <1>3, <3>2, <4>2 DEF PathLess
    <3>3. CASE i > n
      <4>1. s.type = "U"
        BY <1>1, <1>2, <2>4, <3>3 DEF Under
      <4>2. n <= m
        <5> SUFFICES ASSUME m < n PROVE FALSE
          BY <1>1
        <5>1. m + 1 \in 1..(i - 1) /\ m + 1 <= n /\ m + 1 \in Nat \ {0} /\ m + 1 > m
          BY <1>1, <3>3
        <5> QED BY <1>2, <2>4, <5>1
      <4>3. \A j \in 1..n : q[j] = p[j]
        <5> SUFFICES ASSUME NEW j \in 1..n PROVE q[j] = p[j]
          OBVIOUS
        <5>1. j \in 1..(i - 1) /\ j <= m /\ j \in Nat \ {0} /\ j <= n
          BY <1>1, <3>3, <4>2
        <5> QED BY <1>2, <2>4, <5>1
      <4> QED BY <1>3, <1>6, <4>1, <4>2, <4>3
    <3> QED BY <1>1, <3>1, <3>2, <3>3
  <2> QED BY <2>1, <2>2, <2>3, <2>4 DEF PathLess, Lower
<1> QED BY <1>4, <1>5, <1>6

\* The order is a strict linear one, but for records in the same place.
LEMMA LessIrreflexive ==
    ASSUME NEW r \in Recs, NEW s \in Recs, Same(r, s)
    PROVE  ~RecLess(r, s)
<1>1. \A i \in Nat \ {0} : Digit(r, i) = Digit(s, i)
  BY DEF Digit, Same
<1> QED BY <1>1, RecOrder DEF Lower, Under

\* The order is transitive: what status_get() passes stays behind.
LEMMA LessTransitive ==
    ASSUME NEW r \in Recs, NEW s \in Recs, NEW t \in Recs,
           RecLess(r, s), RecLess(s, t)
    PROVE  RecLess(r, t)
<1>1. PICK i \in Nat \ {0} : /\ \A j \in 1..(i - 1) : Digit(r, j) = Digit(s, j)
                             /\ Under(Digit(r, i), Digit(s, i))
  BY RecOrder DEF Lower
<1>2. PICK k \in Nat \ {0} : /\ \A j \in 1..(k - 1) : Digit(s, j) = Digit(t, j)
                             /\ Under(Digit(s, k), Digit(t, k))
  BY RecOrder DEF Lower
<1>3. \A j \in Nat \ {0} : Digit(r, j) \in Int /\ Digit(s, j) \in Int /\ Digit(t, j) \in Int
  BY Digits
<1>4. CASE i < k
  <2>1. i \in 1..(k - 1)
    BY <1>4
  <2>2. Under(Digit(r, i), Digit(t, i))
    BY <1>1, <1>2, <2>1
  <2>3. \A j \in 1..(i - 1) : Digit(r, j) = Digit(t, j)
    BY <1>1, <1>2, <1>4
  <2> QED BY <2>2, <2>3, RecOrder DEF Lower
<1>5. CASE i >= k
  <2>1. Under(Digit(r, k), Digit(t, k))
    <3>1. CASE i = k
      BY <1>1, <1>2, <1>3, <3>1 DEF Under
    <3>2. CASE i > k
      <4>1. k \in 1..(i - 1)
        BY <3>2
      <4> QED BY <1>1, <1>2, <4>1
    <3> QED BY <1>5, <3>1, <3>2
  <2>2. \A j \in 1..(k - 1) : Digit(r, j) = Digit(t, j)
    BY <1>1, <1>2, <1>5
  <2> QED BY <2>1, <2>2, RecOrder DEF Lower
<1> QED BY <1>4, <1>5

\* Of two records one comes first, or they are in the same place.
LEMMA LessTotal ==
    ASSUME NEW r \in Recs, NEW s \in Recs
    PROVE  RecLess(r, s) \/ RecLess(s, r) \/ Same(r, s)
<1> DEFINE D == {i \in Nat \ {0} : Digit(r, i) # Digit(s, i)}
<1>0. \A j \in Nat \ {0} : Digit(r, j) \in Int /\ Digit(s, j) \in Int
  BY Digits
<1>1. CASE D # {}
  <2>1. PICK i \in D : \A j \in D : i <= j
    BY <1>1, LeastNatural
  <2>2. \A j \in 1..(i - 1) : Digit(r, j) = Digit(s, j)
    BY <2>1
  <2>3. Under(Digit(r, i), Digit(s, i)) \/ Under(Digit(s, i), Digit(r, i))
    BY <1>0, <2>1 DEF Under
  <2>4. Lower(r, s) \/ Lower(s, r)
    BY <2>1, <2>2, <2>3 DEF Lower
  <2> QED BY <2>4, RecOrder
<1>2. CASE D = {}
  <2> DEFINE p == r.path
             q == s.path
             m == Len(p)
             n == Len(q)
  <2>1. p \in Seq(Nat) /\ q \in Seq(Nat) /\ m \in Nat \ {0} /\ n \in Nat \ {0}
    BY RecPath
  <2>2. \A i \in Nat \ {0} :
          /\ Digit(r, i) = Digit(s, i)
          /\ i <= m => Digit(r, i) = p[i] /\ Digit(r, i) \in Nat
          /\ i <= n => Digit(s, i) = q[i] /\ Digit(s, i) \in Nat
          /\ i > m => Digit(r, i) = IF r.type = "U" THEN -2 ELSE -1
          /\ i > n => Digit(s, i) = IF s.type = "U" THEN -2 ELSE -1
    BY <1>2, Digits
  <2>3. m = n
    <3>1. m + 1 \in Nat \ {0} /\ n + 1 \in Nat \ {0} /\ m + 1 > m /\ n + 1 > n
      BY <2>1
    <3>2. ~(m + 1 <= n) /\ ~(n + 1 <= m)
      BY <2>2, <3>1
    <3> QED BY <2>1, <3>2
  <2>4. \A i \in 1..m : p[i] = q[i]
    BY <2>1, <2>2, <2>3
  <2>5. p = q
    BY <2>1, <2>3, <2>4, SeqEqual
  <2>6. r.type = "U" <=> s.type = "U"
    <3>1. m + 1 \in Nat \ {0} /\ m + 1 > m /\ m + 1 > n
      BY <2>1, <2>3
    <3> QED BY <2>2, <3>1
  <2> QED BY <2>5, <2>6 DEF Same
<1> QED BY <1>1, <1>2

-----------------------------------------------------------------------------
(* Directories *)

\* The directories of the files, and the one all of them are in.
Dirs == UNION {Above(p) : p \in Files}
Folders == Dirs \cup {<<>>}

\* The records a status file should have: no file where a directory belongs.
Good ==
    {r \in Recs : IF r.type \in DirTypes THEN r.path \in Dirs ELSE r.path \in Files}

\* What is above a path is its initial piece without the last name.
LEMMA FrontPiece ==
    ASSUME NEW p \in Seq(Nat), p # <<>>
    PROVE  /\ Front(p) = SubSeq(p, 1, Len(p) - 1) /\ Front(p) \in Seq(Nat)
           /\ Len(Front(p)) = Len(p) - 1
           /\ \A i \in 1..(Len(p) - 1) : Front(p)[i] = p[i]
<1>1. Len(p) - 1 \in 0..Len(p)
  OBVIOUS
<1> QED BY <1>1, PathParts DEF Front

\* A piece of a piece is a piece.
LEMMA PieceOfPiece ==
    ASSUME NEW p \in Seq(Nat), NEW n \in 0..Len(p), NEW k \in 0..n
    PROVE  SubSeq(SubSeq(p, 1, n), 1, k) = SubSeq(p, 1, k)
<1> DEFINE q == SubSeq(p, 1, n)
<1>1. q \in Seq(Nat) /\ Len(q) = n /\ \A i \in 1..n : q[i] = p[i]
  BY PathParts
<1>2. k \in Nat /\ k <= Len(q) /\ k <= Len(p) /\ \A i \in 1..k : q[i] = p[i]
  BY <1>1
<1> HIDE DEF q
<1>3. SubSeq(q, 1, k) = SubSeq(p, 1, k)
  BY <1>1, <1>2, Pieces
<1> QED BY <1>3 DEF q

\* The same for the initial piece of a path.
LEMMA FrontOfPiece ==
    ASSUME NEW p \in Seq(Nat), NEW n \in 1..Len(p)
    PROVE  Front(SubSeq(p, 1, n)) = SubSeq(p, 1, n - 1)
<1> DEFINE q == SubSeq(p, 1, n)
<1>1. n \in 0..Len(p) /\ n - 1 \in 0..n
  OBVIOUS
<1>2. q \in Seq(Nat) /\ Len(q) = n /\ q # <<>>
  BY <1>1, PathParts
<1> HIDE DEF q
<1>3. Front(q) = SubSeq(q, 1, n - 1)
  BY <1>2, FrontPiece
<1> QED BY <1>1, <1>3, PieceOfPiece DEF q

\* The depth at which nothing is pruned is a number.
LEMMA FarAway == Far \in Nat /\ Far > 1
BY SMT DEF Far

\* No path is a file and a directory at once, and everything above a path is a
\* directory.
LEMMA FolderFacts ==
    /\ Dirs \subseteq Paths /\ Dirs \cap Files = {}
    /\ \A p \in Dirs \cup Files : \A n \in 1..(Len(p) - 1) : SubSeq(p, 1, n) \in Dirs
    /\ \A d \in Folders : d \in Seq(Nat) /\ Len(d) \in Nat /\ Len(d) + 1 < Far
    /\ \A d \in Folders : \A n \in 0..Len(d) :
         SubSeq(d, 1, n) \in Folders /\ (n > 0 => SubSeq(d, 1, n) \in Dirs)
    /\ \A p \in Dirs \cup Files : p \in Seq(Nat) /\ p # <<>> /\ Front(p) \in Folders
<1>1. \A p \in Files : p \in Seq(Nat) /\ p # <<>> /\ Len(p) \in Nat \ {0} /\ Len(p) < Far
  <2>1. \A p \in Files : p \in Seq(Nat) /\ p # <<>>
    BY FilePaths DEF Paths
  <2> QED BY <2>1, UpdateAssumption
<1>2. ASSUME NEW d \in Dirs
      PROVE  \E p \in Files : \E n \in 1..(Len(p) - 1) :
               /\ d = SubSeq(p, 1, n) /\ d \in Seq(Nat) /\ Len(d) = n
               /\ \A k \in 0..n : SubSeq(d, 1, k) = SubSeq(p, 1, k)
  <2>1. PICK p \in Files : d \in Above(p)
    BY DEF Dirs
  <2>2. PICK n \in 1..(Len(p) - 1) : d = SubSeq(p, 1, n)
    BY <2>1 DEF Above
  <2>3. n \in 0..Len(p) /\ p \in Seq(Nat)
    BY <1>1
  <2>4. d \in Seq(Nat) /\ Len(d) = n
    BY <2>2, <2>3, PathParts
  <2>5. \A k \in 0..n : SubSeq(d, 1, k) = SubSeq(p, 1, k)
    BY <2>2, <2>3, PieceOfPiece
  <2> QED BY <2>2, <2>4, <2>5
<1>3. ASSUME NEW p \in Files, NEW n \in 1..(Len(p) - 1)
      PROVE  SubSeq(p, 1, n) \in Dirs /\ IsStrictPrefix(SubSeq(p, 1, n), p)
  <2>1. SubSeq(p, 1, n) \in Above(p)
    BY DEF Above
  <2> QED BY <1>1, <2>1, AboveFacts DEF Dirs
<1>4. Dirs \subseteq Paths /\ Dirs \cap Files = {}
  <2>1. \A d \in Dirs : d \in Paths
    BY <1>1, <1>2 DEF Paths
  <2>2. ASSUME NEW d \in Dirs, d \in Files PROVE FALSE
    <3>1. PICK p \in Files : \E n \in 1..(Len(p) - 1) : d = SubSeq(p, 1, n)
      BY <1>2
    <3>2. IsStrictPrefix(d, p)
      BY <1>3, <3>1
    <3> QED BY <2>2, <3>2, UpdateAssumption
  <2> QED BY <2>1, <2>2
<1>5. ASSUME NEW d \in Dirs PROVE d \in Seq(Nat) /\ Len(d) \in Nat /\ Len(d) + 1 < Far
  <2>1. PICK p \in Files : \E n \in 1..(Len(p) - 1) : d \in Seq(Nat) /\ Len(d) = n
    BY <1>2
  <2>2. Len(p) \in Nat /\ Len(p) < Far /\ Far \in Nat
    BY <1>1, FarAway
  <2> QED BY <2>1, <2>2
<1>6. ASSUME NEW d \in Dirs, NEW n \in 1..Len(d) PROVE SubSeq(d, 1, n) \in Dirs
  <2>0. PICK p \in Files : \E m \in 1..(Len(p) - 1) :
               /\ d = SubSeq(p, 1, m) /\ d \in Seq(Nat) /\ Len(d) = m
               /\ \A k \in 0..m : SubSeq(d, 1, k) = SubSeq(p, 1, k)
    BY <1>2
  <2>1. PICK m \in 1..(Len(p) - 1) :
               /\ d = SubSeq(p, 1, m) /\ d \in Seq(Nat) /\ Len(d) = m
               /\ \A k \in 0..m : SubSeq(d, 1, k) = SubSeq(p, 1, k)
    BY <2>0
  <2>2. n \in 1..(Len(p) - 1) /\ n \in 0..m
    BY <1>1, <2>1
  <2> QED BY <1>3, <2>1, <2>2
<1>7. ASSUME NEW d \in Folders
      PROVE  d \in Seq(Nat) /\ Len(d) \in Nat /\ Len(d) + 1 < Far
  <2>1. <<>> \in Seq(Nat) /\ Len(<<>>) = 0 /\ 0 + 1 < Far
    BY FarAway
  <2>2. d \in Dirs \/ d = <<>>
    BY DEF Folders
  <2> QED BY <1>5, <2>1, <2>2
<1>8. ASSUME NEW d \in Folders, NEW n \in 0..Len(d)
      PROVE  SubSeq(d, 1, n) \in Folders /\ (n > 0 => SubSeq(d, 1, n) \in Dirs)
  <2>1. CASE n > 0
    <3>1. d \in Dirs
      BY <1>7, <2>1 DEF Folders
    <3> QED BY <1>6, <1>7, <2>1, <3>1 DEF Folders
  <2>2. CASE n = 0
    BY <2>2, SubSeqEmpty DEF Folders
  <2> QED BY <1>7, <2>1, <2>2
<1>9. ASSUME NEW p \in Dirs \cup Files
      PROVE  p \in Seq(Nat) /\ p # <<>> /\ Front(p) \in Folders
  <2>1. p \in Seq(Nat) /\ p # <<>>
    BY <1>1, <1>4 DEF Paths
  <2>5. Len(p) \in Nat \ {0}
    BY <2>1
  <2>2. Front(p) = SubSeq(p, 1, Len(p) - 1)
    BY <2>1, FrontPiece
  <2>3. CASE Len(p) = 1
    <3>1. SubSeq(p, 1, 1 - 1) = <<>>
      BY SubSeqEmpty
    <3>2. Front(p) = <<>>
      BY <2>2, <2>3, <3>1
    <3> QED BY <2>1, <3>2 DEF Folders
  <2>4. CASE Len(p) # 1
    <3>0. \A m \in Nat \ {0} : m # 1 => m - 1 \in 1..(m - 1) /\ m - 1 \in 1..m
      OBVIOUS
    <3>1. Len(p) - 1 \in 1..(Len(p) - 1) /\ Len(p) - 1 \in 1..Len(p)
      BY <2>4, <2>5, <3>0
    <3> QED BY <1>3, <1>6, <2>1, <2>2, <3>1 DEF Folders
  <2> QED BY <2>1, <2>3, <2>4
<1>10. \A p \in Dirs \cup Files : \A n \in 1..(Len(p) - 1) : SubSeq(p, 1, n) \in Dirs
  <2>1. \A d \in Dirs : \A n \in 1..(Len(d) - 1) : n \in 1..Len(d)
    BY <1>5
  <2> QED BY <1>3, <1>6, <2>1
<1> QED BY <1>4, <1>7, <1>8, <1>9, <1>10

\* Where the compressor goes for a record.
LEMMA Targets ==
    ASSUME NEW r \in Good
    PROVE  /\ r \in Recs /\ r.path \in Seq(Nat) /\ r.path # <<>>
           /\ Target(r) \in Folders /\ Target(r) \in Seq(Nat)
           /\ r.type = "D" => Target(r) = r.path /\ r.path \in Dirs
           /\ r.type # "D" => /\ Target(r) = Front(r.path)
                              /\ Len(r.path) = Len(Target(r)) + 1
           /\ \A i \in 1..Len(Target(r)) : Target(r)[i] = r.path[i]
           /\ Len(Target(r)) <= Len(r.path)
<1>1. r \in Recs /\ r.path \in Dirs \cup Files
  BY DEF Good
<1>2. r.path \in Seq(Nat) /\ r.path # <<>> /\ Front(r.path) \in Folders
  BY <1>1, FolderFacts
<1>3. CASE r.type = "D"
  <2>1. r.path \in Dirs
    BY <1>3 DEF Good, DirTypes
  <2> QED BY <1>1, <1>2, <1>3, <2>1 DEF Target, Folders
<1>4. CASE r.type # "D"
  <2>1. Target(r) = Front(r.path)
    BY <1>4 DEF Target
  <2>2. /\ Len(Front(r.path)) = Len(r.path) - 1 /\ Front(r.path) \in Seq(Nat)
        /\ \A i \in 1..(Len(r.path) - 1) : Front(r.path)[i] = r.path[i]
    BY <1>2, FrontPiece
  <2>3. Len(r.path) \in Nat
    BY <1>2
  <2> QED BY <1>1, <1>2, <1>4, <2>1, <2>2, <2>3
<1> QED BY <1>3, <1>4

-----------------------------------------------------------------------------
(* Going from a record to the next *)

DownRec(p) == Rec("D", p, "", "")
SameMark(r, s) == r.type \in DirTypes /\ s.type = r.type /\ s.path = r.path

\* What paths have in common, and where they part.
LEMMA Parting ==
    ASSUME NEW p \in Seq(Nat), NEW q \in Seq(Nat), NEW n, n = Common(p, q)
    PROVE  /\ n \in Nat /\ n <= Len(p) /\ n <= Len(q)
           /\ \A i \in 1..n : p[i] = q[i]
           /\ n < Len(p) /\ n < Len(q) => p[n + 1] # q[n + 1]
<1> DEFINE C == CommonPrefixes({p, q})
           c == LongestCommonPrefix({p, q})
<1>1. n \in 0..Len(p) /\ n \in 0..Len(q) /\ n = Len(c)
  BY CommonBounds DEF Common
<1>2. \A k \in 0..Len(p) : k <= Len(q) /\ (\A i \in 1..k : p[i] = q[i]) => SubSeq(p, 1, k) \in C
  <2> SUFFICES ASSUME NEW k \in 0..Len(p), k <= Len(q), \A i \in 1..k : p[i] = q[i]
               PROVE  SubSeq(p, 1, k) \in C
    OBVIOUS
  <2> DEFINE d == SubSeq(p, 1, k)
  <2>1. d \in Seq(Nat) /\ Len(d) = k /\ \A i \in 1..k : d[i] = p[i]
    BY PathParts
  <2>2. d \in Prefixes(p)
    BY DEF Prefixes
  <2> HIDE DEF d
  <2>5. \A i \in 1..Len(d) : d[i] = p[i] /\ d[i] = q[i]
    BY <2>1
  <2>6. Len(d) <= Len(p) /\ Len(d) <= Len(q)
    BY <2>1
  <2>3. IsPrefix(d, p) /\ IsPrefix(d, q)
    BY <2>1, <2>5, <2>6, PrefixIs
  <2>4. d \in C
    BY <2>2, <2>3 DEF CommonPrefixes
  <2> QED BY <2>4 DEF d
<1>3. \A d \in C : IsPrefix(d, p) /\ IsPrefix(d, q) /\ d \in Seq(Nat)
  <2> SUFFICES ASSUME NEW d \in C PROVE IsPrefix(d, p) /\ IsPrefix(d, q) /\ d \in Seq(Nat)
    OBVIOUS
  <2>1. PICK s \in {p, q} : d \in Prefixes(s)
    BY DEF CommonPrefixes
  <2>2. PICK k \in 0..Len(s) : d = SubSeq(s, 1, k)
    BY <2>1 DEF Prefixes
  <2> QED BY <2>2, PathParts DEF CommonPrefixes
<1>4. \E d \in C : \A e \in C : Len(d) >= Len(e)
  <2> DEFINE L == {Len(p) - Len(d) : d \in C}
  <2>1. \A d \in C : Len(d) \in 0..Len(p)
    BY <1>3, PrefixIs
  <2>2. SubSeq(p, 1, 0) \in C
    <3>1. 0 \in 0..Len(p) /\ 0 <= Len(q) /\ \A i \in 1..0 : p[i] = q[i]
      OBVIOUS
    <3> QED BY <1>2, <3>1
  <2>3. L \in SUBSET Nat /\ L # {}
    <3>1. \A d \in C : Len(p) - Len(d) \in Nat
      BY <2>1
    <3> QED BY <2>2, <3>1
  <2>4. PICK x \in L : \A y \in L : x <= y
    BY <2>3, LeastNatural
  <2>5. PICK d \in C : x = Len(p) - Len(d)
    BY <2>4
  <2>6. \A e \in C : Len(d) >= Len(e)
    <3> SUFFICES ASSUME NEW e \in C PROVE Len(d) >= Len(e)
      OBVIOUS
    <3>1. Len(p) - Len(d) <= Len(p) - Len(e)
      BY <2>4, <2>5
    <3> QED BY <2>1, <3>1
  <2> QED BY <2>6
<1>5. c \in C /\ \A e \in C : Len(c) >= Len(e)
  BY <1>4 DEF LongestCommonPrefix
<1> HIDE DEF C, c
<1>6. \A i \in 1..n : p[i] = q[i]
  <2>1. c \in Seq(Nat) /\ IsPrefix(c, p) /\ IsPrefix(c, q)
    BY <1>3, <1>5
  <2> QED BY <1>1, <2>1, PrefixIs
<1>7. ASSUME n < Len(p), n < Len(q), p[n + 1] = q[n + 1] PROVE FALSE
  <2>1. n + 1 \in 0..Len(p) /\ n + 1 <= Len(q) /\ n \in Nat
    BY <1>1, <1>7
  <2>2. \A i \in 1..(n + 1) : p[i] = q[i]
    <3>1. \A i \in 1..(n + 1) : i \in 1..n \/ i = n + 1
      BY <2>1
    <3> QED BY <1>6, <1>7, <3>1
  <2>3. SubSeq(p, 1, n + 1) \in C /\ Len(SubSeq(p, 1, n + 1)) = n + 1
    BY <1>2, <2>1, <2>2, PathParts
  <2>4. Len(c) >= n + 1
    BY <1>5, <2>3
  <2> QED BY <1>1, <2>1, <2>4
<1> QED BY <1>1, <1>6, <1>7

\* A directory's DirUp comes after what is in it.
LEMMA Within ==
    ASSUME NEW r \in Recs, NEW u \in Recs, u.type = "U", IsPrefix(u.path, r.path),
           ~Same(r, u)
    PROVE  RecLess(r, u)
<1>1. r.path \in Seq(Nat) /\ u.path \in Seq(Nat)
  BY RecPath
<1>2. ~(r.type = "U" /\ IsPrefix(r.path, u.path))
  <2> SUFFICES ASSUME r.type = "U", IsPrefix(r.path, u.path) PROVE FALSE
    OBVIOUS
  <2>1. Len(r.path) = Len(u.path) /\ \A i \in 1..Len(r.path) : r.path[i] = u.path[i]
    <3>1. Len(r.path) \in Nat /\ Len(u.path) \in Nat
      BY <1>1
    <3> QED BY <1>1, <3>1, PrefixIs
  <2>2. r.path = u.path
    BY <1>1, <2>1, SeqEqual
  <2> QED BY <2>2 DEF Same
<1> QED BY <1>2 DEF RecLess

\* The records of directories.
LEMMA MarkFacts ==
    ASSUME NEW p \in Dirs, NEW a \in Words
    PROVE  /\ Rec("U", p, "", a) \in Good /\ DownRec(p) \in Good
           /\ Rec("U", p, "", a).type = "U" /\ Rec("U", p, "", a).path = p
           /\ DownRec(p).type = "D" /\ DownRec(p).path = p
<1>1. p \in Paths /\ "" \in Words
  BY FolderFacts, WordTypes
<1> QED BY <1>1 DEF Rec, DownRec, Good, Recs, DirTypes

\* The order in digits: where one record is lower, they are the same above.
LEMMA LowerAt ==
    ASSUME NEW r \in Recs, NEW s \in Recs, NEW n \in Nat,
           \A j \in 1..n : Digit(r, j) = Digit(s, j),
           Under(Digit(r, n + 1), Digit(s, n + 1))
    PROVE  RecLess(r, s)
<1> DEFINE k == n + 1
<1>1. k \in Nat \ {0} /\ k - 1 = n
  OBVIOUS
<1>2. Under(Digit(r, k), Digit(s, k))
  OBVIOUS
<1> HIDE DEF k
<1> QED BY <1>1, <1>2, RecOrder DEF Lower

\* The directory that is left last comes before the next record, and before
\* the directories that are entered for it.
LEMMA Turn ==
    ASSUME NEW r \in Good, NEW s \in Good, RecLess(r, s), NEW n,
           n = Common(Target(r), Target(s)), n < Len(Target(r)),
           NEW u \in Good, u.type = "U", u.path = SubSeq(Target(r), 1, n + 1)
    PROVE  /\ RecLess(u, s) \/ SameMark(u, s)
           /\ \A k \in (n + 1)..Len(Target(s)) :
                RecLess(u, DownRec(SubSeq(Target(s), 1, k)))
<1> DEFINE p == Target(r)
           q == Target(s)
<1>1. /\ r \in Recs /\ p \in Seq(Nat) /\ Len(p) <= Len(r.path)
      /\ \A i \in 1..Len(p) : p[i] = r.path[i]
      /\ s \in Recs /\ q \in Seq(Nat) /\ Len(q) <= Len(s.path) /\ q \in Folders
      /\ \A i \in 1..Len(q) : q[i] = s.path[i]
      /\ s.type = "D" => q = s.path
      /\ s.type # "D" => Len(s.path) = Len(q) + 1
      /\ r.path \in Seq(Nat) /\ s.path \in Seq(Nat) /\ u \in Recs
  BY Targets
<1>2. n \in Nat /\ n < Len(p) /\ n <= Len(q) /\ (\A i \in 1..n : p[i] = q[i])
      /\ (n < Len(q) => p[n + 1] # q[n + 1])
  <2>1. p \in Seq(Nat) /\ q \in Seq(Nat) /\ n = Common(p, q) /\ n < Len(p)
    BY <1>1
  <2> HIDE DEF p, q
  <2> QED BY <2>1, Parting
<1>3. n + 1 \in 0..Len(p) /\ Len(p) \in Nat /\ Len(q) \in Nat
      /\ Len(r.path) \in Nat /\ Len(s.path) \in Nat
  <2>1. Len(p) \in Nat /\ Len(q) \in Nat /\ Len(r.path) \in Nat /\ Len(s.path) \in Nat
    BY <1>1
  <2> HIDE DEF p, q
  <2> QED BY <1>2, <2>1
<1>4. Len(u.path) = n + 1 /\ \A i \in 1..(n + 1) : u.path[i] = p[i]
  BY <1>1, <1>3, PathParts
<1> HIDE DEF p, q
<1>5. /\ \A j \in 1..Len(p) : Digit(r, j) = p[j] /\ Digit(r, j) \in Nat
      /\ \A j \in 1..Len(q) : Digit(s, j) = q[j] /\ Digit(s, j) \in Nat
      /\ \A j \in 1..(n + 1) : Digit(u, j) = p[j] /\ Digit(u, j) \in Nat
  <2>1. \A j \in 1..Len(p) : j \in Nat /\ j <= Len(r.path) /\ p[j] \in Nat
    BY SMTT(30), <1>1, <1>3
  <2>2. \A j \in 1..Len(q) : j \in Nat /\ j <= Len(s.path) /\ q[j] \in Nat
    BY SMTT(30), <1>1, <1>3
  <2>3. \A j \in 1..(n + 1) : j \in 1..Len(p) /\ j <= Len(u.path)
    BY <1>3, <1>4
  <2>4. \A j \in 1..Len(p) : Digit(r, j) = p[j] /\ Digit(r, j) \in Nat
    BY <1>1, <2>1 DEF Digit
  <2>5. \A j \in 1..Len(q) : Digit(s, j) = q[j] /\ Digit(s, j) \in Nat
    BY <1>1, <2>2 DEF Digit
  <2>6. \A j \in 1..(n + 1) : Digit(u, j) = p[j] /\ Digit(u, j) \in Nat
    BY <1>4, <2>1, <2>3 DEF Digit
  <2> QED BY <2>4, <2>5, <2>6
<1>6. \A j \in 1..n : /\ Digit(r, j) = Digit(s, j) /\ Digit(u, j) = Digit(s, j)
                      /\ Digit(s, j) = q[j]
  <2>1. \A j \in 1..n : j \in 1..Len(p) /\ j \in 1..Len(q) /\ j \in 1..(n + 1)
    BY <1>2, <1>3
  <2> QED BY <1>2, <1>5, <2>1
<1>7. n + 1 \in 1..Len(p) /\ n + 1 \in 1..(n + 1)
  BY <1>3, <1>2
<1>8. Digit(r, n + 1) = p[n + 1] /\ Digit(u, n + 1) = p[n + 1] /\ p[n + 1] \in Nat
  BY <1>5, <1>7
<1>9. PICK i \in Nat \ {0} : /\ \A j \in 1..(i - 1) : Digit(r, j) = Digit(s, j)
                             /\ Under(Digit(r, i), Digit(s, i))
  BY <1>1, RecOrder DEF Lower
<1>10. i >= n + 1
  <2> SUFFICES ASSUME i < n + 1 PROVE FALSE
    BY <1>2
  <2>1. i \in 1..n
    BY <1>2
  <2> QED BY <1>6, <1>9, <2>1 DEF Under
<1>11. i > n + 1 => Digit(r, n + 1) = Digit(s, n + 1)
  <2>1. i > n + 1 => n + 1 \in 1..(i - 1)
    BY <1>2
  <2> QED BY <1>9, <2>1
<1>12. CASE n < Len(q)
  <2>1. n + 1 \in 1..Len(q)
    BY <1>2, <1>3, <1>12
  <2>2. Digit(s, n + 1) = q[n + 1] /\ q[n + 1] # p[n + 1]
    BY <1>2, <1>5, <1>12, <2>1
  <2>3. i = n + 1
    BY <1>2, <1>8, <1>10, <1>11, <2>2
  <2>4. Under(p[n + 1], q[n + 1])
    BY <1>8, <1>9, <2>2, <2>3
  <2>5. RecLess(u, s)
    BY <1>1, <1>2, <1>6, <1>8, <2>2, <2>4, LowerAt
  <2>6. ASSUME NEW k \in (n + 1)..Len(q) PROVE RecLess(u, DownRec(SubSeq(q, 1, k)))
    <3>1. k \in 0..Len(q) /\ k > 0 /\ n + 1 \in 1..k /\ k \in Nat
      BY <1>2, <1>3, <2>6
    <3> DEFINE d == SubSeq(q, 1, k)
               x == DownRec(d)
    <3>2. d \in Dirs /\ Len(d) = k /\ \A j \in 1..k : d[j] = q[j]
      BY <1>1, <3>1, FolderFacts, PathParts
    <3>3. x \in Good /\ x.path = d
      BY <3>2, MarkFacts, WordTypes
    <3> HIDE DEF d, x
    <3>4. \A j \in 1..k : Digit(x, j) = q[j]
      BY <3>2, <3>3 DEF Digit
    <3>5. x \in Recs /\ Digit(x, n + 1) = q[n + 1]
          /\ \A j \in 1..n : Digit(u, j) = Digit(x, j)
      <4>1. \A j \in 1..n : j \in 1..k
        BY <1>2, <3>1
      <4> QED BY <1>6, <3>1, <3>3, <3>4, <4>1 DEF Good
    <3>6. RecLess(u, x)
      BY <1>1, <1>2, <1>8, <2>4, <3>5, LowerAt
    <3> QED BY <3>6 DEF x, d
  <2> QED BY <2>5, <2>6 DEF q
<1>13. CASE n = Len(q)
  <2>1. \A k \in (n + 1)..Len(q) : FALSE
    BY <1>2, <1>13
  <2>2. s.type # "D"
    <3> SUFFICES ASSUME s.type = "D" PROVE FALSE
      OBVIOUS
    <3>1. Digit(s, n + 1) = -1
      BY <1>1, <1>2, <1>13 DEF Digit
    <3>2. i = n + 1
      BY <1>2, <1>8, <1>10, <1>11, <3>1
    <3> QED BY <1>8, <1>9, <3>1, <3>2 DEF Under
  <2>3. Len(s.path) = n + 1 /\ Digit(s, n + 1) = s.path[n + 1]
    BY <1>1, <1>2, <1>13, <2>2 DEF Digit
  <2>4. CASE i = n + 1
    <3>1. Under(Digit(u, n + 1), Digit(s, n + 1))
      BY <1>8, <1>9, <2>4
    <3>2. RecLess(u, s)
      BY <1>1, <1>2, <1>6, <3>1, LowerAt
    <3> QED BY <2>1, <3>2 DEF q
  <2>5. CASE i > n + 1
    <3>1. s.path[n + 1] = p[n + 1]
      BY <1>8, <1>11, <2>3, <2>5
    <3>2. \A j \in 1..n : s.path[j] = q[j] /\ q[j] = p[j]
      BY <1>1, <1>2, <1>13
    <3>3. \A j \in 1..(n + 1) : u.path[j] = s.path[j]
      <4>1. \A j \in 1..(n + 1) : j \in 1..n \/ j = n + 1
        BY <1>2
      <4> QED BY <1>4, <3>1, <3>2, <4>1
    <3>4. u.path \in Seq(Nat)
      BY <1>1, RecPath
    <3>5. u.path = s.path
      BY <1>1, <1>4, <2>3, <3>3, <3>4, SeqEqual
    <3>6. s.type = "U"
      <4> SUFFICES ASSUME s.type # "U" PROVE FALSE
        OBVIOUS
      <4>1. Digit(s, i) = -1
        BY <1>2, <2>3, <2>5 DEF Digit
      <4>2. Digit(r, i) \in Nat \cup {-1, -2}
        <5>1. i <= Len(r.path) \/ i > Len(r.path)
          BY <1>3
        <5> QED BY <1>1, <5>1, Digits
      <4> QED BY <1>9, <4>1, <4>2 DEF Under
    <3>7. SameMark(u, s)
      BY <3>5, <3>6 DEF SameMark, DirTypes
    <3> QED BY <2>1, <3>7 DEF q
  <2> QED BY <1>2, <1>10, <2>4, <2>5
<1> QED BY <1>2, <1>3, <1>12, <1>13

\* The directories entered for a record come before it, ...
LEMMA DownAtMost ==
    ASSUME NEW s \in Good, NEW k \in 1..Len(Target(s))
    PROVE  LET d == DownRec(SubSeq(Target(s), 1, k))
           IN d \in Good /\ (RecLess(d, s) \/ SameMark(d, s))
              /\ (s.type \notin DirTypes => RecLess(d, s))
<1> DEFINE q == Target(s)
           x == DownRec(SubSeq(q, 1, k))
<1>1. /\ s \in Recs /\ q \in Seq(Nat) /\ Len(q) <= Len(s.path) /\ q \in Folders
      /\ \A i \in 1..Len(q) : q[i] = s.path[i]
      /\ s.type = "D" => q = s.path
      /\ s.type # "D" => Len(s.path) = Len(q) + 1
      /\ s.path \in Seq(Nat)
  BY Targets
<1>2. Len(q) \in Nat /\ Len(s.path) \in Nat /\ k \in 0..Len(q) /\ k > 0 /\ k \in Nat
      /\ k \in 1..Len(q) /\ k <= Len(s.path)
  <2>1. Len(q) \in Nat /\ Len(s.path) \in Nat /\ k \in 1..Len(q)
    BY <1>1
  <2> HIDE DEF q
  <2> QED BY <1>1, <2>1
<1> HIDE DEF q
<1>3. SubSeq(q, 1, k) \in Dirs /\ Len(SubSeq(q, 1, k)) = k
      /\ \A j \in 1..k : SubSeq(q, 1, k)[j] = q[j]
  BY <1>1, <1>2, FolderFacts, PathParts
<1>4. x \in Good /\ x.path = SubSeq(q, 1, k) /\ x.type = "D" /\ x \in Recs
  BY <1>3, MarkFacts, WordTypes DEF Good
<1> HIDE DEF x
<1>5. \A j \in 1..k : Digit(x, j) = Digit(s, j)
  <2>1. \A j \in 1..k : j \in 1..Len(q) /\ j <= Len(s.path)
    BY <1>2
  <2> QED BY <1>1, <1>3, <1>4, <2>1 DEF Digit
<1>6. CASE Len(s.path) > k
  <2>1. Digit(x, k + 1) = -1
    BY <1>2, <1>3, <1>4 DEF Digit
  <2>2. k + 1 \in 1..Len(s.path) /\ k + 1 <= Len(s.path)
    BY <1>2, <1>6
  <2>3. s.path[k + 1] \in Nat
    BY <1>1, <2>2
  <2>4. Digit(s, k + 1) \in Nat
    BY <2>2, <2>3 DEF Digit
  <2>5. Under(Digit(x, k + 1), Digit(s, k + 1))
    BY <2>1, <2>4 DEF Under
  <2>6. RecLess(x, s)
    BY <1>1, <1>2, <1>4, <1>5, <2>5, LowerAt
  <2> QED BY <1>4, <2>6 DEF x, q
<1>7. CASE Len(s.path) = k
  <2>1. s.type = "D"
    BY <1>1, <1>2, <1>7
  <2>2. q = s.path /\ k = Len(q)
    BY <1>1, <1>7, <2>1
  <2>3. x.path = s.path
    BY <1>1, <1>3, <1>4, <2>2, SeqEqual
  <2>4. SameMark(x, s)
    BY <1>4, <2>1, <2>3 DEF SameMark, DirTypes
  <2> QED BY <1>4, <2>1, <2>4 DEF x, q, DirTypes
<1> QED BY <1>2, <1>6, <1>7

\* ... and after the record before it, if nothing is left for it.
LEMMA Descent ==
    ASSUME NEW r \in Good, NEW s \in Good, RecLess(r, s), NEW n,
           n = Common(Target(r), Target(s)), n = Len(Target(r)),
           NEW k \in (n + 1)..Len(Target(s))
    PROVE  RecLess(r, DownRec(SubSeq(Target(s), 1, k)))
<1> DEFINE p == Target(r)
           q == Target(s)
           x == DownRec(SubSeq(q, 1, k))
<1>1. /\ r \in Recs /\ p \in Seq(Nat) /\ Len(p) <= Len(r.path)
      /\ \A i \in 1..Len(p) : p[i] = r.path[i]
      /\ r.type = "D" => p = r.path
      /\ r.type # "D" => Len(r.path) = Len(p) + 1
      /\ s \in Recs /\ q \in Seq(Nat) /\ Len(q) <= Len(s.path) /\ q \in Folders
      /\ \A i \in 1..Len(q) : q[i] = s.path[i]
      /\ s.type = "D" => q = s.path
      /\ s.type # "D" => Len(s.path) = Len(q) + 1
      /\ r.path \in Seq(Nat) /\ s.path \in Seq(Nat)
  BY Targets
<1>2. n \in Nat /\ n = Len(p) /\ n <= Len(q) /\ (\A i \in 1..n : p[i] = q[i])
  <2>1. p \in Seq(Nat) /\ q \in Seq(Nat) /\ n = Common(p, q) /\ n = Len(p)
    BY <1>1
  <2> HIDE DEF p, q
  <2> QED BY ZenonT(40), <2>1, Parting
<1>3. Len(q) \in Nat /\ Len(r.path) \in Nat /\ Len(s.path) \in Nat /\ k \in (n + 1)..Len(q)
  BY <1>1
<1> HIDE DEF p, q
<1>4. k \in 0..Len(q) /\ k > 0 /\ k \in Nat /\ n < k /\ n + 1 \in 1..k /\ k \in 1..Len(q)
  BY <1>2, <1>3
<1>5. SubSeq(q, 1, k) \in Dirs /\ Len(SubSeq(q, 1, k)) = k
      /\ \A j \in 1..k : SubSeq(q, 1, k)[j] = q[j]
  BY <1>1, <1>4, FolderFacts, PathParts
<1>6. x \in Good /\ x.path = SubSeq(q, 1, k) /\ x.type = "D" /\ x \in Recs
  BY <1>5, MarkFacts, WordTypes DEF Good
<1> HIDE DEF x
<1>7. \A j \in 1..k : Digit(x, j) = q[j] /\ Digit(s, j) = q[j] /\ q[j] \in Nat
  <2> SUFFICES ASSUME NEW j \in 1..k
               PROVE  Digit(x, j) = q[j] /\ Digit(s, j) = q[j] /\ q[j] \in Nat
    OBVIOUS
  <2>1. j \in 1..Len(q) /\ j <= Len(s.path) /\ j \in Nat \ {0} /\ j <= k
    BY SMTT(30), <1>1, <1>3, <1>4
  <2>2. q[j] \in Nat /\ q[j] = s.path[j]
    <3>1. q \in Seq(Nat) /\ \A i \in 1..Len(q) : q[i] = s.path[i]
      BY <1>1
    <3> QED BY <2>1, <3>1
  <2>3. x.path[j] = q[j] /\ j <= Len(x.path)
    BY <1>5, <1>6, <2>1
  <2>4. Digit(x, j) = x.path[j] /\ Digit(s, j) = s.path[j]
    BY <1>1, <1>6, <2>1, <2>3, Digits
  <2> QED BY <2>2, <2>3, <2>4
<1>8. \A j \in 1..n : Digit(r, j) = q[j] /\ Digit(r, j) = Digit(s, j) /\ Digit(r, j) = Digit(x, j)
  <2>0. n <= Len(r.path)
    BY <1>1, <1>2
  <2> SUFFICES ASSUME NEW j \in 1..n
               PROVE  /\ Digit(r, j) = q[j] /\ Digit(r, j) = Digit(s, j)
                      /\ Digit(r, j) = Digit(x, j)
    OBVIOUS
  <2>1. j \in 1..Len(p) /\ j <= Len(r.path) /\ j \in 1..k /\ j \in Nat \ {0}
    BY <1>2, <1>3, <1>4, <2>0
  <2>2. Digit(r, j) = r.path[j]
    BY <1>1, <2>1, Digits
  <2>3. r.path[j] = q[j]
    BY <1>1, <1>2, <2>1
  <2> QED BY <1>7, <2>1, <2>2, <2>3
<1>9. PICK i \in Nat \ {0} : /\ \A j \in 1..(i - 1) : Digit(r, j) = Digit(s, j)
                             /\ Under(Digit(r, i), Digit(s, i))
  BY <1>1, RecOrder DEF Lower
<1>10. i >= n + 1
  <2> SUFFICES ASSUME i < n + 1 PROVE FALSE
    BY <1>2
  <2>1. i \in 1..n
    BY <1>2
  <2> QED BY <1>8, <1>9, <2>1 DEF Under
<1>11. CASE i = n + 1
  <2>1. Under(Digit(r, n + 1), Digit(x, n + 1))
    BY <1>4, <1>7, <1>9, <1>11
  <2> QED BY <1>1, <1>2, <1>6, <1>8, <2>1, LowerAt DEF x, q
<1>12. CASE i > n + 1
  <2>1. n + 1 \in 1..(i - 1)
    BY <1>2, <1>12
  <2>2. Digit(r, n + 1) = q[n + 1] /\ q[n + 1] \in Nat
    BY <1>4, <1>7, <1>9, <2>1
  <2>3. n + 1 <= Len(r.path)
    <3> SUFFICES ASSUME n + 1 > Len(r.path) PROVE FALSE
      BY <1>2, <1>3
    <3>1. Digit(r, n + 1) \in {-1, -2}
      BY <1>2, <1>3 DEF Digit
    <3> QED BY <2>2, <3>1
  <2>4. r.type # "D" /\ Len(r.path) = n + 1
    BY <1>1, <1>2, <1>3, <2>3
  <2>5. \A j \in 1..(n + 1) : r.path[j] = q[j]
    <3>1. \A j \in 1..(n + 1) : (j \in 1..n \/ j = n + 1) /\ j <= Len(r.path)
      BY <1>2, <2>4
    <3> QED BY <1>8, <2>2, <3>1 DEF Digit
  <2>6. n + 1 \in 0..Len(q) /\ n + 1 > 0
    BY <1>2, <1>3, <1>4
  <2>7. SubSeq(q, 1, n + 1) \in Dirs /\ SubSeq(q, 1, n + 1) \in Seq(Nat)
        /\ Len(SubSeq(q, 1, n + 1)) = n + 1
        /\ \A j \in 1..(n + 1) : SubSeq(q, 1, n + 1)[j] = q[j]
    BY <1>1, <2>6, FolderFacts, PathParts
  <2>8. r.path = SubSeq(q, 1, n + 1)
    BY <1>1, <2>4, <2>5, <2>7, SeqEqual
  <2>9. r.type = "U"
    BY <2>4, <2>7, <2>8, FolderFacts DEF Good, DirTypes
  <2>10. Digit(r, n + 2) = -2
    BY <1>2, <2>4, <2>9 DEF Digit
  <2>11. i > n + 2
    BY <1>2, <1>9, <1>12, <2>10 DEF Under
  <2>12. n + 2 \in 1..(i - 1)
    BY <1>2, <2>11
  <2>13. Digit(s, n + 2) = -2
    BY <1>9, <2>10, <2>12
  <2>14. Len(s.path) < n + 2 /\ s.type = "U"
    <3>1. CASE n + 2 <= Len(s.path)
      <4>1. n + 2 \in 1..Len(s.path)
        BY <1>2, <3>1
      <4>2. n + 2 \in Nat \ {0}
        BY <1>2
      <4>3. Digit(s, n + 2) \in Nat
        BY <1>1, <3>1, <4>2, Digits
      <4> QED BY <2>13, <4>3
    <3>2. CASE ~(n + 2 <= Len(s.path))
      <4>1. Len(s.path) < n + 2
        BY <1>2, <1>3, <3>2
      <4> QED BY <2>13, <3>2, <4>1 DEF Digit
    <3> QED BY <3>1, <3>2
  <2>15. Len(s.path) = Len(q) + 1
    BY <1>1, <2>14
  <2> QED BY <1>2, <1>3, <1>4, <2>14, <2>15
<1> QED BY <1>2, <1>10, <1>11, <1>12

-----------------------------------------------------------------------------
(* Sequences of records *)

\* The compressor, in a directory, follows a sequence of records.
Sync(dir, r) == InSync([pc |-> dir], r)
From(dir, recs, i) == IF i = 1 THEN dir ELSE Target(recs[i - 1])
Linked(dir, recs) == \A i \in DOMAIN recs : Sync(From(dir, recs, i), recs[i])
End(dir, recs) == IF recs = <<>> THEN dir ELSE Target(recs[Len(recs)])
Increasing(recs) == \A i, j \in DOMAIN recs : i < j => RecLess(recs[i], recs[j])

\* Whether status_wrraw() can follow depends on the directory alone.
LEMMA SyncIs == \A s, r : InSync(s, r) <=> Sync(s.pc, r)
BY DEF InSync, Sync

\* Two sequences one after the other, element by element.
LEMMA ConcatIs ==
    ASSUME NEW S, NEW a \in Seq(S), NEW b \in Seq(S)
    PROVE  /\ a \o b \in Seq(S) /\ Len(a \o b) = Len(a) + Len(b)
           /\ Len(a) \in Nat /\ Len(b) \in Nat
           /\ DOMAIN a = 1..Len(a) /\ DOMAIN b = 1..Len(b)
           /\ DOMAIN (a \o b) = 1..(Len(a) + Len(b))
           /\ \A i \in 1..Len(a) : (a \o b)[i] = a[i] /\ a[i] \in S
           /\ \A i \in 1..Len(b) : (a \o b)[Len(a) + i] = b[i] /\ b[i] \in S
           /\ \A i \in 1..(Len(a) + Len(b)) : i \in 1..Len(a) \/ i - Len(a) \in 1..Len(b)
<1>1. Len(a) \in Nat /\ Len(b) \in Nat /\ a \o b \in Seq(S) /\ Len(a \o b) = Len(a) + Len(b)
  OBVIOUS
<1>2. \A i \in 1..Len(b) : (a \o b)[Len(a) + i] = b[i]
  <2> SUFFICES ASSUME NEW i \in 1..Len(b) PROVE (a \o b)[Len(a) + i] = b[i]
    OBVIOUS
  <2>1. Len(a) + i \in 1..(Len(a) + Len(b)) /\ Len(a) + i > Len(a)
        /\ Len(a) + i - Len(a) = i
    BY <1>1
  <2> QED BY <1>1, <2>1
<1>3. \A i \in 1..Len(a) : (a \o b)[i] = a[i]
  OBVIOUS
<1>4. \A i \in 1..(Len(a) + Len(b)) : i \in 1..Len(a) \/ i - Len(a) \in 1..Len(b)
  BY <1>1
<1> QED BY <1>1, <1>2, <1>3, <1>4

-----------------------------------------------------------------------------
(* Sequences that the compressor can follow *)

\* What has been written so far: sorted, and the compressor can follow it.
Sound(dir, recs) ==
    /\ recs \in Seq(Good) /\ Linked(<<>>, recs) /\ Increasing(recs)
    /\ End(<<>>, recs) = dir

\* The compressor follows two sequences if it can go from one to the other.
LEMMA LinkedConcat ==
    ASSUME NEW S, NEW a \in Seq(S), NEW b \in Seq(S), NEW d,
           Linked(d, a), Linked(End(d, a), b)
    PROVE  Linked(d, a \o b) /\ End(d, a \o b) = End(End(d, a), b)
<1> DEFINE c == a \o b
           m == Len(a)
           n == Len(b)
<1>1. /\ c \in Seq(S) /\ Len(c) = m + n /\ m \in Nat /\ n \in Nat
      /\ DOMAIN a = 1..m /\ DOMAIN b = 1..n /\ DOMAIN c = 1..(m + n)
      /\ \A i \in 1..m : c[i] = a[i]
      /\ \A i \in 1..n : c[m + i] = b[i]
      /\ \A i \in 1..(m + n) : i \in 1..m \/ i - m \in 1..n
  BY ConcatIs
<1>2. (a = <<>> <=> m = 0) /\ (b = <<>> <=> n = 0) /\ (c = <<>> <=> m + n = 0)
  BY <1>1
<1> HIDE DEF c, m, n
<1>3. ASSUME NEW i \in 1..(m + n) PROVE Sync(From(d, c, i), c[i])
  <2>1. CASE i \in 1..m
    <3>1. c[i] = a[i] /\ (i # 1 => i - 1 \in 1..m)
      BY <1>1, <2>1
    <3>2. i # 1 => c[i - 1] = a[i - 1]
      BY <1>1, <3>1
    <3>3. From(d, c, i) = From(d, a, i)
      BY <3>2 DEF From
    <3> QED BY <1>1, <2>1, <3>1, <3>3 DEF Linked
  <2>2. CASE i - m \in 1..n
    <3> DEFINE j == i - m
    <3>1. j \in 1..n /\ i = m + j /\ c[i] = b[j]
      BY <1>1, <2>2
    <3>2. From(d, c, i) = From(End(d, a), b, j)
      <4>1. CASE j = 1
        <5>1. CASE m = 0
          BY <1>1, <1>2, <3>1, <4>1, <5>1 DEF From, End
        <5>2. CASE m # 0
          <6>1. i # 1 /\ i - 1 = m /\ m \in 1..m
            BY <1>1, <3>1, <4>1, <5>2
          <6>2. c[i - 1] = a[m]
            BY <1>1, <6>1
          <6>3. From(d, c, i) = Target(a[m])
            BY <6>1, <6>2 DEF From
          <6>4. End(d, a) = Target(a[m])
            BY <1>2, <5>2 DEF End, m
          <6> HIDE DEF j
          <6> QED BY <4>1, <6>3, <6>4 DEF From
        <5> QED BY <5>1, <5>2
      <4>2. CASE j # 1
        <5>1. j - 1 \in 1..n /\ i - 1 = m + (j - 1) /\ i # 1
          BY <1>1, <3>1, <4>2
        <5>2. c[i - 1] = b[j - 1]
          BY <1>1, <5>1
        <5> HIDE DEF j
        <5> QED BY <4>2, <5>1, <5>2 DEF From
      <4> QED BY <4>1, <4>2
    <3>3. Sync(From(End(d, a), b, j), b[j])
      BY <1>1, <3>1 DEF Linked
    <3> HIDE DEF j
    <3> QED BY <3>1, <3>2, <3>3
  <2> QED BY <1>1, <2>1, <2>2
<1>4. End(d, c) = End(End(d, a), b)
  <2>1. CASE n = 0
    <3>1. Len(c) = m /\ b = <<>>
      BY <1>1, <1>2, <2>1
    <3>2. m # 0 => m \in 1..m /\ c[m] = a[m]
      BY <1>1
    <3> QED BY <1>1, <1>2, <3>1, <3>2 DEF End, m
  <2>2. CASE n # 0
    <3>1. n \in 1..n /\ c[m + n] = b[n] /\ m + n # 0
      BY <1>1, <2>2
    <3> QED BY <1>1, <1>2, <2>2, <3>1 DEF End, n
  <2> QED BY <2>1, <2>2
<1> QED BY <1>1, <1>3, <1>4 DEF Linked, c

\* Two sorted sequences are sorted if all of the first is before the second.
LEMMA IncreasingConcat ==
    ASSUME NEW S, NEW a \in Seq(S), NEW b \in Seq(S), Increasing(a), Increasing(b),
           \A i \in DOMAIN a, j \in DOMAIN b : RecLess(a[i], b[j])
    PROVE  Increasing(a \o b)
<1> DEFINE c == a \o b
           m == Len(a)
           n == Len(b)
<1>1. /\ c \in Seq(S) /\ Len(c) = m + n /\ m \in Nat /\ n \in Nat
      /\ DOMAIN a = 1..m /\ DOMAIN b = 1..n /\ DOMAIN c = 1..(m + n)
      /\ \A i \in 1..m : c[i] = a[i]
      /\ \A i \in 1..n : c[m + i] = b[i]
      /\ \A i \in 1..(m + n) : i \in 1..m \/ i - m \in 1..n
  BY ConcatIs
<1> HIDE DEF c, m, n
<1>2. ASSUME NEW i \in 1..(m + n), NEW j \in 1..(m + n), i < j
      PROVE  RecLess(c[i], c[j])
  <2>1. CASE j \in 1..m
    <3>1. i \in 1..m
      BY <1>1, <1>2, <2>1
    <3> QED BY <1>1, <1>2, <2>1, <3>1 DEF Increasing
  <2>2. CASE i \in 1..m /\ j - m \in 1..n
    <3>1. j = m + (j - m)
      BY <1>1
    <3>2. c[j] = b[j - m]
      BY <1>1, <2>2, <3>1
    <3> QED BY <1>1, <2>2, <3>2
  <2>3. CASE i - m \in 1..n /\ j - m \in 1..n
    <3>1. i = m + (i - m) /\ j = m + (j - m) /\ i - m < j - m
      BY <1>1, <1>2
    <3>2. c[i] = b[i - m] /\ c[j] = b[j - m]
      BY <1>1, <2>3, <3>1
    <3> QED BY <1>1, <2>3, <3>1, <3>2 DEF Increasing
  <2> QED BY <1>1, <2>1, <2>2, <2>3
<1> QED BY <1>1, <1>2 DEF Increasing, c

\* What is sound stays so if records are added in order that the compressor can
\* follow.
LEMMA SoundConcat ==
    ASSUME NEW d, NEW a, Sound(d, a), NEW b \in Seq(Good), Linked(d, b), Increasing(b),
           \A i \in DOMAIN a, j \in DOMAIN b : RecLess(a[i], b[j])
    PROVE  Sound(End(d, b), a \o b)
<1>1. a \in Seq(Good) /\ Linked(<<>>, a) /\ Increasing(a) /\ End(<<>>, a) = d
  BY DEF Sound
<1>2. a \o b \in Seq(Good) /\ Linked(<<>>, a \o b) /\ End(<<>>, a \o b) = End(d, b)
  BY <1>1, LinkedConcat, ConcatIs
<1> QED BY <1>1, <1>2, IncreasingConcat DEF Sound

\* The last record tells where the compressor is, and all others are before it.
LEMMA SoundLast ==
    ASSUME NEW d, NEW a, Sound(d, a)
    PROVE  /\ Len(a) \in Nat /\ DOMAIN a = 1..Len(a) /\ d \in Folders
           /\ \A i \in DOMAIN a : a[i] \in Good /\ a[i] \in Recs
           /\ a = <<>> => d = <<>> /\ Len(a) = 0
           /\ a # <<>> => /\ Len(a) \in DOMAIN a /\ a[Len(a)] \in Good
                          /\ Target(a[Len(a)]) = d
                          /\ \A i \in DOMAIN a : i = Len(a) \/ RecLess(a[i], a[Len(a)])
<1>1. a \in Seq(Good) /\ Increasing(a) /\ End(<<>>, a) = d
  BY DEF Sound
<1>2. Len(a) \in Nat /\ DOMAIN a = 1..Len(a) /\ \A i \in DOMAIN a : a[i] \in Good
  BY <1>1
<1>3. CASE a = <<>>
  BY <1>1, <1>2, <1>3 DEF End, Folders
<1>4. CASE a # <<>>
  <2>1. Len(a) \in DOMAIN a
    BY <1>1, <1>4
  <2>2. Target(a[Len(a)]) = d /\ a[Len(a)] \in Good
    BY <1>1, <1>2, <1>4, <2>1 DEF End
  <2>3. \A i \in DOMAIN a : i = Len(a) \/ RecLess(a[i], a[Len(a)])
    <3>1. \A i \in DOMAIN a : i = Len(a) \/ i < Len(a)
      BY <1>2
    <3> QED BY <1>1, <2>1, <3>1 DEF Increasing
  <2> QED BY <1>2, <1>4, <2>1, <2>2, <2>3, Targets
<1> QED BY <1>2, <1>3, <1>4 DEF Good

\* A record that comes after the last comes after all.
LEMMA LastLess ==
    ASSUME NEW d, NEW a, Sound(d, a), NEW r \in Recs,
           a # <<>> => RecLess(a[Len(a)], r)
    PROVE  \A i \in DOMAIN a : RecLess(a[i], r)
<1> SUFFICES ASSUME NEW i \in DOMAIN a PROVE RecLess(a[i], r)
  OBVIOUS
<1>1. a # <<>> /\ a[i] \in Recs
  BY SoundLast
<1>2. a[Len(a)] \in Recs /\ (i = Len(a) \/ RecLess(a[i], a[Len(a)]))
  BY <1>1, SoundLast
<1> QED BY <1>1, <1>2, LessTransitive

-----------------------------------------------------------------------------
(* status_wr() *)

\* An initial piece of a path is a prefix of every path that agrees on it.
LEMMA PiecePrefix ==
    ASSUME NEW p \in Seq(Nat), NEW q \in Seq(Nat), NEW n \in Nat, n <= Len(p), n <= Len(q),
           \A i \in 1..n : p[i] = q[i]
    PROVE  IsPrefix(SubSeq(p, 1, n), q)
<1> DEFINE d == SubSeq(p, 1, n)
<1>1. n \in 0..Len(p)
  OBVIOUS
<1>2. d \in Seq(Nat) /\ Len(d) = n /\ \A i \in 1..n : d[i] = p[i]
  BY <1>1, PathParts
<1> HIDE DEF d
<1>3. Len(d) <= Len(q) /\ \A i \in 1..Len(d) : d[i] = q[i]
  BY <1>2
<1>4. IsPrefix(d, q)
  BY <1>2, <1>3, PrefixIs
<1> QED BY <1>4 DEF d

\* Going up.
LEMMA UpsSound ==
    ASSUME NEW d, NEW a, Sound(d, a), NEW n \in 0..Len(d), NEW attr \in Words
    PROVE  LET e == Ups(d, n, attr)
           IN /\ Sound(SubSeq(d, 1, n), a \o e) /\ e \in Seq(Good)
              /\ \A i \in DOMAIN e : e[i].type = "U"
              /\ n = Len(d) => e = <<>>
              /\ n < Len(d) => /\ e # <<>> /\ e[Len(e)].path = SubSeq(d, 1, n + 1)
                               /\ e[Len(e)].type = "U"
<1> DEFINE e == Ups(d, n, attr)
           l == a[Len(a)]
           m == Len(d) - n
<1>1. /\ Len(a) \in Nat /\ DOMAIN a = 1..Len(a) /\ d \in Folders
      /\ \A i \in DOMAIN a : a[i] \in Good /\ a[i] \in Recs
      /\ a = <<>> => d = <<>> /\ Len(a) = 0
      /\ a # <<>> => /\ Len(a) \in DOMAIN a /\ l \in Good /\ Target(l) = d
                     /\ \A i \in DOMAIN a : i = Len(a) \/ RecLess(a[i], l)
  BY SoundLast
<1>2. d \in Seq(Nat) /\ Len(d) \in Nat /\ n \in Nat /\ n <= Len(d) /\ m \in Nat
  <2>1. d \in Seq(Nat) /\ Len(d) \in Nat
    BY <1>1, FolderFacts
  <2> QED BY <2>1
<1>3. \A k \in 0..Len(d) : /\ SubSeq(d, 1, k) \in Seq(Nat) /\ Len(SubSeq(d, 1, k)) = k
                           /\ \A i \in 1..k : SubSeq(d, 1, k)[i] = d[i]
                           /\ k > 0 => /\ SubSeq(d, 1, k) \in Dirs
                                       /\ Front(SubSeq(d, 1, k)) = SubSeq(d, 1, k - 1)
                                       /\ SubSeq(d, 1, k) # <<>>
  <2> SUFFICES ASSUME NEW k \in 0..Len(d)
               PROVE  /\ SubSeq(d, 1, k) \in Seq(Nat) /\ Len(SubSeq(d, 1, k)) = k
                      /\ \A i \in 1..k : SubSeq(d, 1, k)[i] = d[i]
                      /\ k > 0 => /\ SubSeq(d, 1, k) \in Dirs
                                  /\ Front(SubSeq(d, 1, k)) = SubSeq(d, 1, k - 1)
                                  /\ SubSeq(d, 1, k) # <<>>
    OBVIOUS
  <2>1. /\ SubSeq(d, 1, k) \in Seq(Nat) /\ Len(SubSeq(d, 1, k)) = k
        /\ \A i \in 1..k : SubSeq(d, 1, k)[i] = d[i]
    BY <1>2, PathParts
  <2>2. k > 0 => SubSeq(d, 1, k) \in Dirs
    BY <1>1, FolderFacts
  <2>3. k > 0 => k \in 1..Len(d)
    OBVIOUS
  <2>4. k > 0 => Front(SubSeq(d, 1, k)) = SubSeq(d, 1, k - 1)
    BY <1>2, <2>3, FrontOfPiece
  <2>5. k > 0 => SubSeq(d, 1, k) # <<>>
    BY <2>1
  <2> QED BY <2>1, <2>2, <2>4, <2>5
<1>4. \A i \in 1..m : /\ Len(d) - i + 1 \in 0..Len(d) /\ Len(d) - i + 1 > 0
                      /\ Len(d) - i \in 0..Len(d) /\ Len(d) - i + 1 - 1 = Len(d) - i
                      /\ i # 1 => Len(d) - (i - 1) + 1 - 1 = Len(d) - i + 1
                                  /\ i - 1 \in 1..m
                      /\ i = 1 => Len(d) - i + 1 = Len(d)
  BY <1>2
<1>5. \A i \in 1..m : /\ e[i] \in Good /\ e[i] \in Recs /\ e[i].type = "U"
                      /\ e[i].path = SubSeq(d, 1, Len(d) - i + 1)
                      /\ Target(e[i]) = SubSeq(d, 1, Len(d) - i)
  <2> SUFFICES ASSUME NEW i \in 1..m
               PROVE  /\ e[i] \in Good /\ e[i] \in Recs /\ e[i].type = "U"
                      /\ e[i].path = SubSeq(d, 1, Len(d) - i + 1)
                      /\ Target(e[i]) = SubSeq(d, 1, Len(d) - i)
    OBVIOUS
  <2> DEFINE x == IF i = 1 THEN attr ELSE Bogus
             p == SubSeq(d, 1, Len(d) - i + 1)
  <2>1. x \in Words
    BY DEF Words
  <2>2. p \in Dirs /\ Front(p) = SubSeq(d, 1, Len(d) - i)
    BY <1>3, <1>4
  <2>3. e[i] = Rec("U", p, "", x)
    BY DEF Ups
  <2> HIDE DEF x, p, e
  <2>4. e[i] \in Good /\ e[i].type = "U" /\ e[i].path = p
    <3>1. Rec("U", p, "", x) \in Good /\ Rec("U", p, "", x).type = "U"
          /\ Rec("U", p, "", x).path = p
      BY <2>1, <2>2, MarkFacts
    <3> QED BY <2>3, <3>1
  <2>5. Target(e[i]) = Front(p)
    BY <2>4, Targets
  <2> QED BY <2>2, <2>4, <2>5 DEF Good, p
<1>6. e \in Seq(Good) /\ Len(e) = m /\ DOMAIN e = 1..m
  <2>1. e \in [1..m -> Good]
    BY <1>5 DEF Ups
  <2> HIDE DEF e, m
  <2> QED BY <1>2, <2>1, FunctionSeq
<1> HIDE DEF e
<1>7. Linked(d, e)
  <2> SUFFICES ASSUME NEW i \in 1..m PROVE Sync(From(d, e, i), e[i])
    BY <1>6 DEF Linked
  <2> DEFINE p == SubSeq(d, 1, Len(d) - i + 1)
  <2>1. From(d, e, i) = p
    <3>1. CASE i = 1
      <4>1. SubSeq(d, 1, Len(d)) = d
        BY <1>2, SubSeqFull
      <4> QED BY <1>4, <3>1, <4>1 DEF From
    <3>2. CASE i # 1
      <4>1. i - 1 \in 1..m
        BY <1>4, <3>2
      <4>2. Target(e[i - 1]) = SubSeq(d, 1, Len(d) - (i - 1))
        BY <1>5, <4>1
      <4>3. Len(d) - (i - 1) = Len(d) - i + 1
        BY <1>2
      <4> QED BY <3>2, <4>2, <4>3 DEF From
    <3> QED BY <3>1, <3>2
  <2>2. p # <<>> /\ e[i].path = p /\ e[i].type = "U"
    BY <1>3, <1>4, <1>5
  <2> HIDE DEF p
  <2> QED BY <2>1, <2>2 DEF Sync, InSync
<1>8. Increasing(e)
  <2> SUFFICES ASSUME NEW i \in 1..m, NEW j \in 1..m, i < j
               PROVE  RecLess(e[i], e[j])
    BY <1>6 DEF Increasing
  <2> DEFINE x == Len(d) - i + 1
             y == Len(d) - j + 1
  <2>1. x \in 0..Len(d) /\ y \in 0..Len(d) /\ y < x /\ x > 0 /\ y > 0
    BY <1>2
  <2>2. e[i].path = SubSeq(d, 1, x) /\ e[j].path = SubSeq(d, 1, y) /\ e[j].type = "U"
        /\ e[i] \in Recs /\ e[j] \in Recs
    BY <1>5
  <2> HIDE DEF x, y
  <2>3. \A k \in 1..y : k \in 1..x
    BY <2>1
  <2>4. IsPrefix(e[j].path, e[i].path)
    <3> DEFINE q == SubSeq(d, 1, x)
    <3>1. q \in Seq(Nat) /\ Len(q) = x /\ \A k \in 1..y : d[k] = q[k]
      BY <1>3, <2>1, <2>3
    <3> HIDE DEF q
    <3>2. y \in Nat /\ y <= Len(d) /\ y <= Len(q)
      BY <1>2, <2>1, <3>1
    <3>3. IsPrefix(SubSeq(d, 1, y), q)
      BY <1>2, <3>1, <3>2, PiecePrefix
    <3> QED BY <2>2, <3>3 DEF q
  <2>5. ~Same(e[i], e[j])
    BY <1>3, <2>1, <2>2 DEF Same
  <2> QED BY <2>2, <2>4, <2>5, Within
<1>9. ASSUME NEW i \in DOMAIN a, NEW j \in DOMAIN e PROVE RecLess(a[i], e[j])
  <2>1. a # <<>> /\ l \in Good /\ Target(l) = d
    BY <1>1
  <2> DEFINE y == Len(d) - j + 1
  <2>2. j \in 1..m /\ y \in 0..Len(d) /\ y > 0
    BY <1>4, <1>6
  <2>3. e[j].path = SubSeq(d, 1, y) /\ e[j].type = "U" /\ e[j] \in Recs
    BY <1>5, <2>2
  <2> HIDE DEF y, l
  <2>4. /\ l \in Recs /\ l.path \in Seq(Nat) /\ Len(d) <= Len(l.path) /\ Len(l.path) \in Nat
        /\ l.type # "D" => Len(l.path) = Len(d) + 1
        /\ \A k \in 1..Len(d) : d[k] = l.path[k]
    <3>1. /\ l \in Recs /\ l.path \in Seq(Nat) /\ Len(Target(l)) <= Len(l.path)
          /\ l.type # "D" => Len(l.path) = Len(Target(l)) + 1
          /\ \A k \in 1..Len(Target(l)) : Target(l)[k] = l.path[k]
      BY <2>1, Targets
    <3> QED BY <2>1, <3>1
  <2>5. \A k \in 1..y : k \in 1..Len(d)
    BY <1>2, <2>2
  <2>6. IsPrefix(e[j].path, l.path)
    <3>1. \A k \in 1..y : d[k] = l.path[k]
      BY <2>4, <2>5
    <3>2. y <= Len(l.path) /\ y \in Nat /\ y <= Len(d)
      BY <1>2, <2>2, <2>4
    <3>3. IsPrefix(SubSeq(d, 1, y), l.path)
      BY <1>2, <2>4, <3>1, <3>2, PiecePrefix
    <3> QED BY <2>3, <3>3
  <2>7. ~Same(l, e[j])
    <3> SUFFICES ASSUME Same(l, e[j]) PROVE FALSE
      OBVIOUS
    <3>1. l.type = "U" /\ l.path = SubSeq(d, 1, y)
      BY <2>3 DEF Same
    <3>2. Len(l.path) = Len(d) + 1 /\ Len(l.path) = y
      BY <1>3, <2>2, <2>4, <3>1
    <3> QED BY <1>2, <2>2, <3>2
  <2>8. RecLess(l, e[j])
    BY <2>3, <2>4, <2>6, <2>7, Within
  <2> QED BY <2>3, <2>8, LastLess DEF l
<1>10. End(d, e) = SubSeq(d, 1, n)
  <2>1. CASE m = 0
    <3>1. e = <<>> /\ n = Len(d)
      BY <1>2, <1>6, <2>1
    <3>2. SubSeq(d, 1, Len(d)) = d
      BY <1>2, SubSeqFull
    <3> QED BY <3>1, <3>2 DEF End
  <2>2. CASE m # 0
    <3>1. m \in 1..m /\ e # <<>> /\ Len(d) - m = n
      BY <1>2, <1>6, <2>2
    <3> QED BY <1>5, <1>6, <3>1 DEF End
  <2> QED BY <2>1, <2>2
<1>11. Sound(SubSeq(d, 1, n), a \o e)
  BY <1>6, <1>7, <1>8, <1>9, <1>10, SoundConcat
<1>12. n = Len(d) => e = <<>>
  BY <1>2, <1>6
<1>13. ASSUME n < Len(d)
       PROVE  e # <<>> /\ e[Len(e)].path = SubSeq(d, 1, n + 1) /\ e[Len(e)].type = "U"
  <2>1. m \in 1..m /\ Len(d) - m + 1 = n + 1 /\ e # <<>>
    BY <1>2, <1>6, <1>13
  <2> QED BY <1>5, <1>6, <2>1
<1> QED BY <1>5, <1>6, <1>11, <1>12, <1>13 DEF e

\* Going down.
LEMMA DownsSound ==
    ASSUME NEW q \in Folders, NEW n \in 0..Len(q), NEW a, Sound(SubSeq(q, 1, n), a),
           a # <<>> => \A k \in (n + 1)..Len(q) :
                         RecLess(a[Len(a)], DownRec(SubSeq(q, 1, k)))
    PROVE  LET e == Downs(q, n)
           IN /\ Sound(q, a \o e) /\ e \in Seq(Good)
              /\ \A i \in DOMAIN e : e[i].type = "D"
              /\ n = Len(q) => e = <<>>
              /\ n < Len(q) => e # <<>> /\ e[Len(e)] = DownRec(q)
<1> DEFINE e == Downs(q, n)
           d == SubSeq(q, 1, n)
           m == Len(q) - n
<1>1. Len(a) \in Nat /\ DOMAIN a = 1..Len(a) /\ (a = <<>> => Len(a) = 0)
  BY SoundLast
<1>2. q \in Seq(Nat) /\ Len(q) \in Nat /\ n \in Nat /\ n <= Len(q) /\ m \in Nat
  <2>1. q \in Seq(Nat) /\ Len(q) \in Nat
    BY FolderFacts
  <2> QED BY <2>1
<1>3. ASSUME NEW k \in 0..Len(q)
      PROVE  /\ SubSeq(q, 1, k) \in Seq(Nat) /\ Len(SubSeq(q, 1, k)) = k
             /\ k > 0 => /\ SubSeq(q, 1, k) \in Dirs
                         /\ Front(SubSeq(q, 1, k)) = SubSeq(q, 1, k - 1)
  <2>1. SubSeq(q, 1, k) \in Seq(Nat) /\ Len(SubSeq(q, 1, k)) = k
    BY <1>2, PathParts
  <2>2. k > 0 => SubSeq(q, 1, k) \in Dirs
    BY FolderFacts
  <2>3. k > 0 => k \in 1..Len(q)
    OBVIOUS
  <2>4. k > 0 => Front(SubSeq(q, 1, k)) = SubSeq(q, 1, k - 1)
    BY <1>2, <2>3, FrontOfPiece
  <2> QED BY <2>1, <2>2, <2>4
<1>4. \A i \in 1..m : /\ n + i \in 0..Len(q) /\ n + i > 0 /\ n + i - 1 = n + (i - 1)
                      /\ n + i \in (n + 1)..Len(q) /\ n + i \in 1..Len(q)
                      /\ i # 1 => i - 1 \in 1..m
                      /\ i = 1 => n + i - 1 = n
  BY <1>2
<1>5. ASSUME NEW i \in 1..m
      PROVE  /\ e[i] = DownRec(SubSeq(q, 1, n + i))
             /\ e[i] \in Good /\ e[i] \in Recs /\ e[i].type = "D"
             /\ e[i].path = SubSeq(q, 1, n + i)
             /\ Target(e[i]) = SubSeq(q, 1, n + i)
  <2> DEFINE p == SubSeq(q, 1, n + i)
  <2>1. p \in Dirs
    BY <1>3, <1>4
  <2>2. e[i] = DownRec(p)
    BY DEF Downs, DownRec
  <2> HIDE DEF p, e
  <2>3. DownRec(p) \in Good /\ DownRec(p).type = "D" /\ DownRec(p).path = p
    BY <2>1, MarkFacts, WordTypes
  <2>4. Target(DownRec(p)) = p
    BY <2>3, Targets
  <2> QED BY <2>2, <2>3, <2>4 DEF Good, p
<1>6. e \in Seq(Good) /\ Len(e) = m /\ DOMAIN e = 1..m
  <2>1. e \in [1..m -> Good]
    BY <1>5 DEF Downs
  <2> HIDE DEF e, m
  <2> QED BY <1>2, <2>1, FunctionSeq
<1> HIDE DEF e
<1>7. Linked(d, e)
  <2> SUFFICES ASSUME NEW i \in 1..m PROVE Sync(From(d, e, i), e[i])
    BY <1>6 DEF Linked
  <2> DEFINE p == SubSeq(q, 1, n + i)
  <2>1. From(d, e, i) = SubSeq(q, 1, n + i - 1)
    <3>1. CASE i = 1
      BY <1>4, <3>1 DEF From
    <3>2. CASE i # 1
      <4>1. Target(e[i - 1]) = SubSeq(q, 1, n + (i - 1))
        BY <1>4, <1>5, <3>2
      <4> QED BY <1>4, <3>2, <4>1 DEF From
    <3> QED BY <3>1, <3>2
  <2>2. Front(p) = SubSeq(q, 1, n + i - 1) /\ Len(p) > 0 /\ e[i].path = p /\ e[i].type = "D"
    BY <1>3, <1>4, <1>5
  <2> HIDE DEF p
  <2> QED BY <2>1, <2>2 DEF Sync, InSync
<1>8. Increasing(e)
  <2> SUFFICES ASSUME NEW i \in 1..m, NEW j \in 1..m, i < j
               PROVE  RecLess(e[i], e[j])
    BY <1>6 DEF Increasing
  <2> DEFINE x == n + i
             y == n + j
             p == SubSeq(q, 1, y)
  <2>1. x \in 0..Len(q) /\ y \in 0..Len(q) /\ x < y /\ x \in 1..y /\ x \in 0..y
    BY <1>2
  <2>2. Target(e[j]) = p /\ e[j] \in Good /\ e[i] = DownRec(SubSeq(q, 1, x))
        /\ e[j].path = p /\ e[i].path = SubSeq(q, 1, x)
    BY <1>5
  <2> HIDE DEF x, y
  <2>3. Len(p) = y /\ SubSeq(p, 1, x) = SubSeq(q, 1, x)
    BY <1>2, <1>3, <2>1, PieceOfPiece
  <2>4. RecLess(e[i], e[j]) \/ SameMark(e[i], e[j])
    BY <2>1, <2>2, <2>3, DownAtMost
  <2>5. e[i].path # e[j].path
    BY <1>3, <2>1, <2>2
  <2> QED BY <2>4, <2>5 DEF SameMark
<1>9. ASSUME NEW i \in DOMAIN a, NEW j \in DOMAIN e PROVE RecLess(a[i], e[j])
  <2>1. a # <<>>
    BY <1>1, <1>9
  <2>2. RecLess(a[Len(a)], e[j]) /\ e[j] \in Recs
    BY <1>4, <1>5, <1>6, <2>1
  <2> QED BY <2>2, LastLess
<1>10. End(d, e) = q /\ (m # 0 => e # <<>> /\ e[Len(e)] = DownRec(q)) /\ (m = 0 => e = <<>>)
  <2>0. SubSeq(q, 1, Len(q)) = q
    BY <1>2, SubSeqFull
  <2>1. CASE m = 0
    <3>1. e = <<>> /\ n = Len(q)
      BY <1>2, <1>6, <2>1
    <3> QED BY <2>0, <2>1, <3>1 DEF End
  <2>2. CASE m # 0
    <3>1. m \in 1..m /\ e # <<>> /\ n + m = Len(q)
      BY <1>2, <1>6, <2>2
    <3>2. e[m] = DownRec(SubSeq(q, 1, n + m)) /\ Target(e[m]) = SubSeq(q, 1, n + m)
      BY <1>5, <3>1
    <3>3. e[m] = DownRec(q) /\ Target(e[m]) = q
      BY <2>0, <3>1, <3>2
    <3> QED BY <1>6, <2>2, <3>1, <3>3 DEF End
  <2> QED BY <2>1, <2>2
<1>11. Sound(q, a \o e)
  BY <1>6, <1>7, <1>8, <1>9, <1>10, SoundConcat
<1>12. (n = Len(q) => m = 0) /\ (n < Len(q) => m # 0)
  BY <1>2
<1> QED BY <1>5, <1>6, <1>10, <1>11, <1>12 DEF e

\* What status_wr() adds.
Wrote(s, r, t, e) ==
    /\ e \in Seq(Good)
    /\ t = [s EXCEPT !.pc = Target(r), !.out = s.out \o e]
    /\ Sound(Target(r), s.out \o e)
    /\ LET o == s.out \o e
       IN o # <<>> => LET l == o[Len(o)]
                      IN \/ RecLess(l, r) \/ SameMark(l, r)
                         \/ r.type \notin DirTypes /\ l = r
    /\ \A i \in DOMAIN e : e[i].type \in DirTypes \/ (r.type \notin DirTypes /\ e[i] = r)
    /\ r.type \notin DirTypes => e # <<>> /\ e[Len(e)] = r

\* status_wr() leaves a sound file: the marks it adds are in order and lead from
\* the directory it is in to that of the record.
LEMMA WriteSound ==
    ASSUME NEW s \in OpenSts(Recs), Sound(s.pc, s.out), NEW r \in Good,
           s.out # <<>> => \/ RecLess(s.out[Len(s.out)], r)
                           \/ SameMark(s.out[Len(s.out)], r)
    PROVE  \E e : Wrote(s, r, Write(s, r), e)
<1> DEFINE a == s.out
           p == s.pc
           q == Target(r)
           n == Common(p, q)
           attr == IF r.type = "U" THEN r.attr ELSE Bogus
           l == a[Len(a)]
           e1 == Ups(p, n, attr)
           e2 == Downs(q, n)
           e3 == IF r.type \in DirTypes THEN <<>> ELSE <<r>>
           a1 == a \o e1
           a2 == a1 \o e2
<1>1. Write(s, r) = [s EXCEPT !.pc = q, !.out = a2 \o e3]
  BY DEF Write
<1>2. q \in Folders /\ q \in Seq(Nat) /\ p \in Folders /\ p \in Seq(Nat)
      /\ Len(p) \in Nat /\ Len(q) \in Nat /\ r \in Recs
  BY Targets, SoundLast, FolderFacts
<1>3. /\ n \in Nat /\ n <= Len(p) /\ n <= Len(q)
      /\ \A i \in 1..n : p[i] = q[i]
      /\ n < Len(p) /\ n < Len(q) => p[n + 1] # q[n + 1]
  <2>1. p \in Seq(Nat) /\ q \in Seq(Nat) /\ n = Common(p, q)
    BY <1>2
  <2> HIDE DEF p, q, n
  <2> QED BY <2>1, Parting
<1>4. n \in 0..Len(p) /\ n \in 0..Len(q)
  BY <1>2, <1>3
<1>5. attr \in Words
  BY <1>2 DEF Recs, Words
<1>6. a # <<>> => l \in Good /\ Target(l) = p
  BY SoundLast
<1>7. a = <<>> => p = <<>> /\ Len(p) = 0
  BY SoundLast
<1>8. /\ Sound(SubSeq(p, 1, n), a1) /\ e1 \in Seq(Good)
      /\ \A i \in DOMAIN e1 : e1[i].type = "U"
      /\ n = Len(p) => e1 = <<>>
      /\ n < Len(p) => /\ e1 # <<>> /\ e1[Len(e1)].path = SubSeq(p, 1, n + 1)
                       /\ e1[Len(e1)].type = "U"
  BY <1>4, <1>5, UpsSound
<1>9. SubSeq(p, 1, n) = SubSeq(q, 1, n)
  BY <1>2, <1>3, Pieces
<1>0. n = Common(p, q)
  OBVIOUS
<1>20. a # <<>> => RecLess(l, r) \/ SameMark(l, r)
  OBVIOUS
<1>21. /\ s.out = a /\ s.pc = p /\ Target(r) = q /\ a \in Seq(Good)
  BY DEF Sound
<1>22. a1 = a \o e1 /\ a2 = a1 \o e2 /\ e2 = Downs(q, n) /\ l = a[Len(a)]
  OBVIOUS
<1>23. /\ r.type \in DirTypes => e3 = <<>>
       /\ r.type \notin DirTypes => e3 = <<r>>
  OBVIOUS
<1> HIDE DEF a, p, q, n, attr, e1, e2, e3, a1, a2, l
<1>10. a1 # <<>> =>
         /\ RecLess(a1[Len(a1)], r) \/ SameMark(a1[Len(a1)], r)
         /\ \A k \in (n + 1)..Len(q) : RecLess(a1[Len(a1)], DownRec(SubSeq(q, 1, k)))
  <2> SUFFICES ASSUME a1 # <<>>
               PROVE  /\ RecLess(a1[Len(a1)], r) \/ SameMark(a1[Len(a1)], r)
                      /\ \A k \in (n + 1)..Len(q) :
                           RecLess(a1[Len(a1)], DownRec(SubSeq(q, 1, k)))
    OBVIOUS
  <2>1. CASE n < Len(p)
    <3>1. a # <<>> /\ l \in Good /\ Target(l) = p
      BY <1>3, <1>6, <1>7, <2>1
    <3>2. RecLess(l, r)
      <4>1. ~SameMark(l, r)
        <5> SUFFICES ASSUME SameMark(l, r) PROVE FALSE
          OBVIOUS
        <5>1. p = q
          BY <1>21, <3>1 DEF SameMark, Target
        <5> QED BY <1>3, <2>1, <5>1
      <4> QED BY <1>20, <3>1, <4>1
    <3> DEFINE u == e1[Len(e1)]
    <3>3. a1[Len(a1)] = u /\ u \in Good
      <4>1. Len(e1) \in 1..Len(e1) /\ e1 # <<>>
        BY <1>8, <2>1
      <4>2. Len(a1) = Len(a) + Len(e1) /\ a1[Len(a) + Len(e1)] = e1[Len(e1)]
            /\ e1[Len(e1)] \in Good
        BY <1>8, <1>21, <1>22, <4>1, ConcatIs
      <4> QED BY <4>2
    <3>4. u.path = SubSeq(p, 1, n + 1) /\ u.type = "U"
      BY <1>8, <2>1
    <3> HIDE DEF u
    <3>5. /\ RecLess(u, r) \/ SameMark(u, r)
          /\ \A k \in (n + 1)..Len(q) : RecLess(u, DownRec(SubSeq(q, 1, k)))
      BY <1>0, <1>21, <2>1, <3>1, <3>2, <3>3, <3>4, Turn
    <3> QED BY <3>3, <3>5
  <2>2. CASE n = Len(p)
    <3>1. a1 = a /\ a # <<>>
      BY <1>8, <1>21, <1>22, <2>2
    <3>2. l \in Good /\ Target(l) = p /\ a1[Len(a1)] = l
      BY <1>6, <1>22, <3>1
    <3>3. CASE SameMark(l, r)
      <4>1. p = q
        BY <1>21, <3>2, <3>3 DEF SameMark, Target
      <4>2. \A k \in (n + 1)..Len(q) : FALSE
        BY <1>3, <2>2, <4>1
      <4> QED BY <3>2, <3>3, <4>2
    <3>4. CASE RecLess(l, r)
      <4>1. \A k \in (n + 1)..Len(q) : RecLess(l, DownRec(SubSeq(q, 1, k)))
        BY <1>0, <1>21, <2>2, <3>2, <3>4, Descent
      <4> QED BY <3>2, <3>4, <4>1
    <3> QED BY <1>20, <3>1, <3>3, <3>4
  <2> QED BY <1>2, <1>3, <2>1, <2>2
<1>11. /\ Sound(q, a2) /\ e2 \in Seq(Good)
       /\ \A i \in DOMAIN e2 : e2[i].type = "D"
       /\ n = Len(q) => e2 = <<>>
       /\ n < Len(q) => e2 # <<>> /\ e2[Len(e2)] = DownRec(q)
  BY <1>2, <1>4, <1>8, <1>9, <1>10, <1>22, DownsSound
<1>12. a1 \in Seq(Good) /\ a2 \in Seq(Good)
  BY <1>8, <1>11 DEF Sound
<1>13. a2 # <<>> => RecLess(a2[Len(a2)], r) \/ SameMark(a2[Len(a2)], r)
  <2>1. CASE n = Len(q)
    <3>1. a2 = a1
      BY <1>11, <1>12, <1>22, <2>1
    <3> QED BY <1>10, <3>1
  <2>2. CASE n < Len(q)
    <3>1. Len(e2) \in 1..Len(e2)
      BY <1>11, <2>2
    <3>2. a2[Len(a2)] = DownRec(q)
      <4>1. Len(a2) = Len(a1) + Len(e2) /\ a2[Len(a1) + Len(e2)] = e2[Len(e2)]
        BY <1>11, <1>12, <1>22, <3>1, ConcatIs
      <4> QED BY <1>11, <2>2, <4>1
    <3>3. Len(q) \in 1..Len(q) /\ SubSeq(q, 1, Len(q)) = q
      BY <1>2, <1>3, <2>2, SubSeqFull
    <3>4. RecLess(DownRec(q), r) \/ SameMark(DownRec(q), r)
      BY <1>21, <3>3, DownAtMost
    <3> QED BY <3>2, <3>4
  <2> QED BY <1>2, <1>3, <2>1, <2>2
<1>14. e3 \in Seq(Good) /\ e1 \o e2 \in Seq(Good)
  <2>1. <<r>> \in Seq(Good) /\ <<>> \in Seq(Good)
    OBVIOUS
  <2>2. e1 \in Seq(Good) /\ e2 \in Seq(Good)
    BY <1>8, <1>11
  <2>3. e1 \o e2 \in Seq(Good)
    BY <2>2
  <2> QED BY <1>23, <2>1, <2>3
<1> DEFINE e == (e1 \o e2) \o e3
<1>24. e \in Seq(Good) /\ e = (e1 \o e2) \o e3
  <2> DEFINE b == e1 \o e2
  <2>1. b \in Seq(Good)
    BY <1>14
  <2> HIDE DEF b
  <2>2. b \o e3 \in Seq(Good)
    BY <1>14, <2>1
  <2> QED BY <2>2 DEF b
<1> HIDE DEF e
<1>15. a \o e = a2 \o e3
  <2>1. a2 = a \o (e1 \o e2)
    <3>1. a \in Seq(Good) /\ e1 \in Seq(Good) /\ e2 \in Seq(Good)
      BY <1>8, <1>11, <1>21
    <3>2. (a \o e1) \o e2 = a \o (e1 \o e2)
      BY <3>1, ConcatAssociative
    <3> QED BY <1>22, <3>2
  <2> DEFINE b == e1 \o e2
  <2>2. b \in Seq(Good) /\ a2 = a \o b /\ e = b \o e3
    <3>1. b \in Seq(Good)
      BY <1>14
    <3> QED BY <1>24, <2>1, <3>1
  <2> HIDE DEF b
  <2>3. (a \o b) \o e3 = a \o (b \o e3)
    <3>1. a \in Seq(Good) /\ b \in Seq(Good) /\ e3 \in Seq(Good)
      BY <1>14, <1>21, <2>2
    <3> QED BY <3>1, ConcatAssociative
  <2> QED BY <2>2, <2>3
<1>16. \A i \in DOMAIN e : e[i].type \in DirTypes \/ (r.type \notin DirTypes /\ e[i] = r)
  <2>1. \A i \in DOMAIN (e1 \o e2) : (e1 \o e2)[i].type \in DirTypes
    <3> SUFFICES ASSUME NEW i \in DOMAIN (e1 \o e2) PROVE (e1 \o e2)[i].type \in DirTypes
      OBVIOUS
    <3>1. i \in 1..Len(e1) \/ i - Len(e1) \in 1..Len(e2)
      BY <1>8, <1>11, ConcatIs
    <3>2. CASE i \in 1..Len(e1)
      BY <1>8, <1>11, <3>2, ConcatIs DEF DirTypes
    <3>3. CASE i - Len(e1) \in 1..Len(e2)
      <4>1. (e1 \o e2)[Len(e1) + (i - Len(e1))] = e2[i - Len(e1)]
        BY <1>8, <1>11, <3>3, ConcatIs
      <4>2. Len(e1) + (i - Len(e1)) = i
        BY <1>8, <1>11, ConcatIs
      <4>3. i - Len(e1) \in DOMAIN e2
        BY <1>11, <3>3
      <4> QED BY <1>11, <4>1, <4>2, <4>3 DEF DirTypes
    <3> QED BY <3>1, <3>2, <3>3
  <2> DEFINE b == e1 \o e2
  <2> HIDE DEF b
  <2>2. \A i \in DOMAIN b : b[i].type \in DirTypes
    BY <2>1 DEF b
  <2>3. b \in Seq(Good) /\ e = b \o e3
    BY <1>14, <1>24 DEF b
  <2> SUFFICES ASSUME NEW i \in DOMAIN e
               PROVE  e[i].type \in DirTypes \/ (r.type \notin DirTypes /\ e[i] = r)
    OBVIOUS
  <2>4. i \in 1..Len(b) \/ i - Len(b) \in 1..Len(e3)
    BY <1>14, <2>3, ConcatIs
  <2>5. CASE i \in 1..Len(b)
    BY <1>14, <2>2, <2>3, <2>5, ConcatIs
  <2>6. CASE i - Len(b) \in 1..Len(e3)
    <3>1. e[Len(b) + (i - Len(b))] = e3[i - Len(b)] /\ Len(b) + (i - Len(b)) = i
      BY <1>14, <2>3, <2>6, ConcatIs
    <3>2. r.type \notin DirTypes /\ e3 = <<r>>
      <4>1. Len(<<>>) = 0
        OBVIOUS
      <4>2. i - Len(b) \in 1..0 => FALSE
        OBVIOUS
      <4> QED BY <1>23, <2>6, <4>1, <4>2
    <3>3. i - Len(b) = 1 /\ e3[1] = r
      <4>1. Len(e3) = 1
        BY <3>2
      <4>2. \A k \in 1..1 : k = 1
        OBVIOUS
      <4> QED BY <2>6, <3>2, <4>1, <4>2
    <3> QED BY <3>1, <3>2, <3>3
  <2> QED BY <2>4, <2>5, <2>6
<1>17. ASSUME r.type \in DirTypes PROVE a \o e = a2
  BY <1>12, <1>15, <1>17, <1>23
<1>18. ASSUME r.type \notin DirTypes
       PROVE  /\ Sound(q, a \o e) /\ e # <<>> /\ e[Len(e)] = r
              /\ (a \o e)[Len(a \o e)] = r
  <2>1. e3 = <<r>> /\ DOMAIN e3 = {1} /\ e3[1] = r /\ Len(e3) = 1
    BY <1>18, <1>23
  <2>2. Linked(q, e3)
    <3>1. q = Front(r.path)
      BY <1>18, <1>21 DEF Target, DirTypes
    <3>2. Sync(q, r)
      BY <1>18, <3>1 DEF Sync, InSync, DirTypes
    <3> QED BY <2>1, <3>2 DEF Linked, From
  <2>3. Increasing(e3)
    BY <2>1 DEF Increasing
  <2>4. \A i \in DOMAIN a2 : RecLess(a2[i], r)
    <3>1. a2 # <<>> => RecLess(a2[Len(a2)], r)
      BY <1>13, <1>18 DEF SameMark
    <3> QED BY <1>2, <1>11, <3>1, LastLess
  <2>5. End(q, e3) = q
    BY <1>21, <2>1 DEF End
  <2>6. Sound(q, a2 \o e3)
    BY <1>11, <1>14, <2>1, <2>2, <2>3, <2>4, <2>5, SoundConcat
  <2>7. 1 \in 1..Len(e3)
    BY <2>1
  <2>8. Len(a2 \o e3) = Len(a2) + Len(e3) /\ (a2 \o e3)[Len(a2) + 1] = e3[1]
    BY <1>12, <1>14, <2>7, ConcatIs
  <2>9. Len(e) = Len(e1 \o e2) + Len(e3) /\ e[Len(e1 \o e2) + 1] = e3[1]
        /\ Len(e1 \o e2) \in Nat
    <3> DEFINE b == e1 \o e2
    <3>1. b \in Seq(Good) /\ e = b \o e3
      BY <1>14, <1>24
    <3> HIDE DEF b
    <3>2. Len(e) = Len(b) + Len(e3) /\ e[Len(b) + 1] = e3[1] /\ Len(b) \in Nat
      BY <1>14, <2>7, <3>1, ConcatIs
    <3> QED BY <3>2 DEF b
  <2>10. e # <<>> /\ e[Len(e)] = r
    BY <2>1, <2>9
  <2> QED BY <1>15, <2>1, <2>6, <2>8, <2>10
<1>19. Wrote(s, r, Write(s, r), e)
  <2>1. Write(s, r) = [s EXCEPT !.pc = Target(r), !.out = s.out \o e]
    BY <1>1, <1>15, <1>21
  <2>2. Sound(Target(r), s.out \o e)
    BY <1>11, <1>17, <1>18, <1>21
  <2>3. LET o == s.out \o e
        IN o # <<>> => LET l_ == o[Len(o)]
                       IN \/ RecLess(l_, r) \/ SameMark(l_, r)
                          \/ r.type \notin DirTypes /\ l_ = r
    BY <1>13, <1>17, <1>18, <1>21
  <2> QED BY <1>24, <1>16, <1>18, <2>1, <2>2, <2>3 DEF Wrote
<1> QED BY <1>19

-----------------------------------------------------------------------------
(* Copying records as they are *)

\* One more record that the compressor can follow.
LEMMA LinkedOne ==
    ASSUME NEW S, NEW d, NEW a \in Seq(S), NEW r \in S
    PROVE  /\ Linked(d, Append(a, r)) <=> Linked(d, a) /\ Sync(End(d, a), r)
           /\ End(d, Append(a, r)) = Target(r)
<1> DEFINE b == Append(a, r)
           n == Len(a)
           k == n + 1
<1>1. /\ n \in Nat /\ k \in Nat /\ k - 1 = n /\ k # 0 /\ Len(b) = k /\ b # <<>>
      /\ DOMAIN b = 1..k /\ DOMAIN a = 1..n
      /\ b[k] = r /\ \A i \in 1..n : b[i] = a[i]
      /\ a = <<>> <=> n = 0
  OBVIOUS
<1>2. \A i \in 1..k : i \in 1..n \/ i = k
  BY <1>1
<1>3. \A i \in 1..n : i \in 1..k /\ (i # 1 => i - 1 \in 1..n)
  BY <1>1
<1> HIDE DEF b, k, n
<1>4. \A i \in 1..n : From(d, b, i) = From(d, a, i)
  BY <1>1, <1>3 DEF From
<1>5. From(d, b, k) = End(d, a)
  <2>1. CASE n = 0
    <3>1. k = 1
      BY <1>1, <2>1
    <3> QED BY <1>1, <2>1, <3>1 DEF From, End
  <2>2. CASE n # 0
    <3>1. n \in 1..n /\ k # 1
      BY <1>1, <2>2
    <3> QED BY <1>1, <2>2, <3>1 DEF From, End, n
  <2> QED BY <2>1, <2>2
<1>6. k \in 1..k
  BY <1>1
<1>7. End(d, b) = Target(r)
  BY <1>1 DEF End
<1>8. Linked(d, b) <=> Linked(d, a) /\ Sync(End(d, a), r)
  BY <1>1, <1>2, <1>3, <1>4, <1>5, <1>6 DEF Linked
<1> QED BY <1>7, <1>8 DEF b

\* status_wrraw() of one record after the other fails an assertion if the
\* compressor cannot follow, and otherwise just copies them.
Copied(s, q) == [s EXCEPT !.pc = End(s.pc, q), !.out = s.out \o q]

\* One more record that is copied.
LEMMA CopiedOne ==
    ASSUME NEW s \in OpenSts(Recs), NEW d \in Seq(Recs), NEW r \in Recs
    PROVE  Append(s.out \o d, r) = s.out \o Append(d, r)
<1> DEFINE S == Recs
           o == s.out
<1>1. o \in Seq(S) /\ d \in Seq(S) /\ r \in S
  BY DEF OpenSts
<1> HIDE DEF S, o
<1>2. Append(o \o d, r) = o \o Append(d, r)
  <2>1. <<r>> \in Seq(S) /\ o \o d \in Seq(S)
    BY <1>1
  <2>2. Append(d, r) = d \o <<r>> /\ Append(o \o d, r) = (o \o d) \o <<r>>
    BY <1>1, <2>1, AppendIsConcat
  <2> QED BY <1>1, <2>1, <2>2, ConcatAssociative
<1> QED BY <1>2 DEF o

\* status_wrraw() over a sequence aborts exactly if the compressor cannot follow
\* it, and copies it otherwise.
LEMMA RawCopy ==
    ASSUME NEW s \in OpenSts(Recs), ~s.abort, NEW q \in Seq(Recs)
    PROVE  LET t == FoldLeft(WriteRaw, s, q)
           IN /\ Linked(s.pc, q) <=> ~t.abort
              /\ Linked(s.pc, q) => t = Copied(s, q)
<1> DEFINE n == Len(q)
           c(m) == SubSeq(q, 1, m)
<1>1. \A t \in OpenSts(Recs), r \in Recs : WriteRaw(t, r) \in OpenSts(Recs)
  BY WriteRawType DEF Closed, Marks
<1>2. PICK tr \in [0..n -> OpenSts(Recs)] :
         /\ tr[0] = s /\ FoldLeft(WriteRaw, s, q) = tr[n]
         /\ \A m \in 0..(n - 1) : tr[m + 1] = WriteRaw(tr[m], q[m + 1])
  <2> DEFINE X == OpenSts(Recs)
             G == Recs
  <2>1. s \in X /\ q \in Seq(G) /\ \A t \in X, r \in G : WriteRaw(t, r) \in X
    BY <1>1
  <2> HIDE DEF X, G
  <2>2. RawTraced(X, s, q, FoldLeft(WriteRaw, s, q))
    BY <2>1, RawTrace
  <2> DEFINE t == FoldLeft(WriteRaw, s, q)
  <2>3. RawTraced(X, s, q, t)
    BY <2>2
  <2> HIDE DEF t
  <2>4. \E tr \in [0..Len(q) -> X] :
         /\ tr[0] = s /\ t = tr[Len(q)]
         /\ \A m \in 0..(Len(q) - 1) : tr[m + 1] = WriteRaw(tr[m], q[m + 1])
    BY <2>3 DEF RawTraced
  <2> QED BY <2>4 DEF X, t
<1>3. n \in Nat /\ c(n) = q /\ \A i \in 1..n : q[i] \in Recs
  BY SubSeqFull
<1>4. \A m \in 0..n : c(m) \in Seq(Recs)
  BY <1>3, SubSeqType
<1>5. c(0) = <<>>
  OBVIOUS
<1>6. \A m \in 0..(n - 1) : c(m + 1) = Append(c(m), q[m + 1])
  BY <1>3
<1> HIDE DEF n, c
<1> DEFINE P(m) == /\ Linked(s.pc, c(m)) <=> ~tr[m].abort
                   /\ Linked(s.pc, c(m)) => tr[m] = Copied(s, c(m))
           T == {m \in Nat : m <= n => P(m)}
<1>7. s.out \in Seq(Recs) /\ s = [rd |-> s.rd, cur |-> s.cur, pc |-> s.pc, out |-> s.out,
                                  dirty |-> s.dirty, scan |-> s.scan, abort |-> s.abort]
      /\ s.abort \in BOOLEAN
  BY DEF OpenSts
<1>8. 0 \in T
  <2>1. Linked(s.pc, <<>>) /\ End(s.pc, <<>>) = s.pc
    BY DEF Linked, End
  <2>2. s.out \o <<>> = s.out
    BY <1>7
  <2>3. Copied(s, <<>>) = s
    BY <1>7, <2>1, <2>2 DEF Copied
  <2> QED BY <1>2, <1>5, <2>1, <2>3
<1>9. ASSUME NEW m \in Nat, m \in T PROVE m + 1 \in T
  <2> SUFFICES ASSUME m + 1 <= n PROVE P(m + 1)
    OBVIOUS
  <2>1. m \in 0..n /\ m \in 0..(n - 1) /\ P(m)
    <3>1. m \in 0..n /\ m \in 0..(n - 1) /\ m <= n
      BY <1>3
    <3> QED BY <1>9, <3>1
  <2> DEFINE d == c(m)
             r == q[m + 1]
             t == tr[m]
             u == tr[m + 1]
  <2>2. /\ d \in Seq(Recs) /\ r \in Recs /\ c(m + 1) = Append(d, r) /\ u = WriteRaw(t, r)
        /\ t \in OpenSts(Recs)
    <3>1. m + 1 \in 1..n
      BY <1>3
    <3> QED BY <1>2, <1>3, <1>4, <1>6, <2>1, <3>1
  <2>3. P(m)
    BY <2>1
  <2> HIDE DEF c, P
  <2>4. /\ Linked(s.pc, d) <=> ~t.abort
        /\ Linked(s.pc, d) => t = Copied(s, d)
    BY <2>3 DEF P
  <2> HIDE DEF d, r, t, u
  <2>5. /\ Linked(s.pc, Append(d, r)) <=> ~u.abort
        /\ Linked(s.pc, Append(d, r)) => u = Copied(s, Append(d, r))
    <3>1. /\ Linked(s.pc, Append(d, r)) <=> Linked(s.pc, d) /\ Sync(End(s.pc, d), r)
          /\ End(s.pc, Append(d, r)) = Target(r)
      BY <2>2, LinkedOne
    <3>2. CASE ~Linked(s.pc, d)
      <4>1. t.abort
        BY <2>4, <3>2
      <4>2. u.abort
        BY <2>2, <4>1 DEF WriteRaw, OpenSts
      <4> QED BY <3>1, <3>2, <4>2
    <3>3. CASE Linked(s.pc, d)
      <4>1. t = Copied(s, d) /\ ~t.abort
        BY <2>4, <3>3
      <4>2. t.pc = End(s.pc, d) /\ t.out = s.out \o d
        BY <1>7, <4>1 DEF Copied
      <4>3. InSync(t, r) <=> Sync(End(s.pc, d), r)
        BY <4>2, SyncIs
      <4>4. CASE ~InSync(t, r)
        <5>1. u.abort
          BY <2>2, <4>4 DEF WriteRaw, OpenSts
        <5> QED BY <3>1, <4>3, <4>4, <5>1
      <4>5. CASE InSync(t, r)
        <5>1. u = [t EXCEPT !.pc = Target(r), !.out = Append(t.out, r)]
          BY <2>2, <4>1, <4>5 DEF WriteRaw
        <5>2. Append(s.out \o d, r) = s.out \o Append(d, r)
          BY <2>2, CopiedOne
        <5>3. u = [Copied(s, d) EXCEPT !.pc = Target(r), !.out = s.out \o Append(d, r)]
          BY <4>1, <4>2, <5>1, <5>2
        <5>4. u = Copied(s, Append(d, r))
          BY <1>7, <3>1, <5>3 DEF Copied
        <5>5. ~u.abort
          BY <1>7, <5>4 DEF Copied
        <5> QED BY <3>1, <3>3, <4>3, <4>5, <5>4, <5>5
      <4> QED BY <4>4, <4>5
    <3> QED BY <3>2, <3>3
  <2> QED BY <2>2, <2>5 DEF P, u
<1> HIDE DEF T
<1>10. n \in T
  BY <1>3, <1>8, <1>9, NatSet
<1>11. P(n)
  BY <1>3, <1>10 DEF T
<1> QED BY <1>2, <1>3, <1>11

-----------------------------------------------------------------------------
(* Going on in the old file *)

\* What follows the first record of the old file follows what it follows there.
Chained(q) == \A i \in DOMAIN q : i # 1 => Sync(Target(q[i - 1]), q[i])
AtMost(x, r) == RecLess(x, r) \/ Same(x, r)

\* A piece of a sequence, element by element.
LEMMA Piece ==
    ASSUME NEW S, NEW q \in Seq(S), NEW m \in Nat \ {0}, NEW n \in 0..Len(q), m <= n + 1
    PROVE  LET p == SubSeq(q, m, n)
           IN /\ p \in Seq(S) /\ Len(p) = n + 1 - m /\ DOMAIN p = 1..(n + 1 - m)
              /\ \A i \in 1..(n + 1 - m) : /\ p[i] = q[m - 1 + i] /\ p[i] \in S
                                           /\ m - 1 + i \in 1..Len(q)
<1> DEFINE p == SubSeq(q, m, n)
<1>1. p \in Seq(S)
  BY SubSeqType
<1>2. /\ m - 1 \in Nat /\ n \in Nat /\ n + 1 - m \in Nat
      /\ \A i \in 1..(n + 1 - m) : m - 1 + i \in 1..Len(q) /\ m + i - 1 = m - 1 + i
  OBVIOUS
<1>3. \A i \in m..n : q[i] \in S
  OBVIOUS
<1>4. Len(p) = n + 1 - m /\ \A i \in 1..(n + 1 - m) : p[i] = q[m + i - 1]
  OBVIOUS
<1>5. DOMAIN p = 1..(n + 1 - m)
  BY <1>1, <1>4
<1>6. \A i \in 1..(n + 1 - m) : q[m - 1 + i] \in S
  BY <1>2
<1> HIDE DEF p
<1> QED BY <1>1, <1>2, <1>4, <1>5, <1>6 DEF p

\* A piece of a sorted sequence that the compressor can follow is one, too.
LEMMA PieceOrdered ==
    ASSUME NEW q \in Seq(Good), Increasing(q), Chained(q),
           NEW m \in Nat \ {0}, NEW n \in 0..Len(q), m <= n + 1
    PROVE  LET p == SubSeq(q, m, n) IN Increasing(p) /\ Chained(p)
<1> DEFINE p == SubSeq(q, m, n)
           k == n + 1 - m
<1>1. /\ k \in Nat /\ DOMAIN p = 1..k /\ m - 1 \in Nat
      /\ \A i \in 1..k : p[i] = q[m - 1 + i] /\ m - 1 + i \in DOMAIN q
  BY Piece
<1>2. \A i \in 1..k : i # 1 => i - 1 \in 1..k /\ m - 1 + (i - 1) = m - 1 + i - 1
                               /\ m - 1 + i # 1
  BY <1>1
<1>3. \A i, j \in 1..k : i < j => m - 1 + i < m - 1 + j
  BY <1>1
<1> HIDE DEF p, k
<1>4. Increasing(p)
  BY <1>1, <1>3 DEF Increasing
<1>5. Chained(p)
  <2> SUFFICES ASSUME NEW i \in 1..k, i # 1 PROVE Sync(Target(p[i - 1]), p[i])
    BY <1>1 DEF Chained
  <2> DEFINE j == m - 1 + i
  <2>1. j \in DOMAIN q /\ j # 1 /\ p[i] = q[j] /\ p[i - 1] = q[j - 1]
    BY <1>1, <1>2
  <2> HIDE DEF j
  <2> QED BY <2>1 DEF Chained
<1> QED BY <1>4, <1>5 DEF p

\* So is what comes after its first record.
LEMMA TailOrdered ==
    ASSUME NEW q \in Seq(Good), q # <<>>, Increasing(q), Chained(q)
    PROVE  /\ Tail(q) \in Seq(Good) /\ Increasing(Tail(q))
           /\ Linked(Target(q[1]), Tail(q))
           /\ End(Target(q[1]), Tail(q)) = Target(q[Len(q)])
           /\ Len(q) \in Nat \ {0} /\ DOMAIN Tail(q) = 1..(Len(q) - 1)
           /\ \A i \in 1..(Len(q) - 1) : /\ Tail(q)[i] = q[i + 1] /\ i + 1 \in DOMAIN q
                                         /\ RecLess(q[1], Tail(q)[i])
<1> DEFINE p == Tail(q)
           n == Len(q)
<1>1. /\ n \in Nat \ {0} /\ p \in Seq(Good) /\ Len(p) = n - 1 /\ DOMAIN p = 1..(n - 1)
      /\ \A i \in 1..(n - 1) : p[i] = q[i + 1]
      /\ DOMAIN q = 1..n
  OBVIOUS
<1>2. /\ 1 \in 1..n
      /\ \A i \in 1..(n - 1) : i + 1 \in 1..n /\ 1 < i + 1 /\ i + 1 # 1 /\ i + 1 - 1 = i /\ i \in 1..n
      /\ \A i \in 1..(n - 1) : i # 1 => i - 1 \in 1..(n - 1) /\ i - 1 + 1 = i
      /\ \A i, j \in 1..(n - 1) : i < j => i + 1 < j + 1
  BY <1>1
<1>7. n # 1 => n - 1 \in 1..(n - 1) /\ n - 1 + 1 = n
  BY <1>1
<1> HIDE DEF p, n
<1>6. p = <<>> <=> n = 1
  <2>1. p = <<>> <=> Len(p) = 0
    BY <1>1
  <2> QED BY <1>1, <2>1
<1>8. \A i, j \in 1..n : i < j => RecLess(q[i], q[j])
  BY <1>1 DEF Increasing
<1>9. \A i \in 1..(n - 1) : RecLess(q[1], p[i])
  BY <1>1, <1>2, <1>8
<1>10. ASSUME NEW i \in 1..(n - 1), NEW j \in 1..(n - 1), i < j
       PROVE  RecLess(p[i], p[j])
  <2>1. i + 1 \in 1..n /\ j + 1 \in 1..n /\ i + 1 < j + 1
    BY <1>2, <1>10
  <2>2. RecLess(q[i + 1], q[j + 1])
    BY <1>8, <2>1
  <2> QED BY <1>1, <2>2
<1>3. Increasing(p) /\ \A i \in 1..(n - 1) : RecLess(q[1], p[i])
  BY <1>1, <1>9, <1>10 DEF Increasing
<1>4. Linked(Target(q[1]), p)
  <2> SUFFICES ASSUME NEW i \in 1..(n - 1) PROVE Sync(From(Target(q[1]), p, i), p[i])
    BY <1>1 DEF Linked
  <2>1. From(Target(q[1]), p, i) = Target(q[i])
    <3>1. CASE i = 1
      BY <3>1 DEF From
    <3>2. CASE i # 1
      BY <1>1, <1>2, <3>2 DEF From
    <3> QED BY <3>1, <3>2
  <2> DEFINE j == i + 1
  <2>2. j \in 1..n /\ j # 1 /\ j - 1 = i /\ p[i] = q[j]
    BY <1>1, <1>2
  <2> HIDE DEF j
  <2>3. Sync(Target(q[j - 1]), q[j])
    BY <1>1, <2>2 DEF Chained
  <2> QED BY <2>1, <2>2, <2>3
<1>5. End(Target(q[1]), p) = Target(q[n])
  <2>1. CASE n = 1
    BY <1>6, <2>1 DEF End
  <2>2. CASE n # 1
    BY <1>1, <1>6, <1>7, <2>2 DEF End
  <2> QED BY <2>1, <2>2
<1> QED BY <1>1, <1>2, <1>3, <1>4, <1>5 DEF p, n

\* The file records of sequences.
LEMMA FilesConcat ==
    ASSUME NEW S, NEW a \in Seq(S), NEW b \in Seq(S)
    PROVE  FileRecs(a \o b) = FileRecs(a) \cup FileRecs(b)
<1> DEFINE c == a \o b
           m == Len(a)
           n == Len(b)
<1>1. /\ m \in Nat /\ n \in Nat
      /\ DOMAIN a = 1..m /\ DOMAIN b = 1..n /\ DOMAIN c = 1..(m + n)
      /\ \A i \in 1..m : c[i] = a[i]
      /\ \A i \in 1..n : c[m + i] = b[i]
      /\ \A i \in 1..(m + n) : i \in 1..m \/ i - m \in 1..n
  BY ConcatIs
<1> HIDE DEF c, m, n
<1>2. \A i \in 1..(m + n) : i = m + (i - m)
  BY <1>1
<1>3. \A i \in 1..m : i \in 1..(m + n)
  BY <1>1
<1>4. \A i \in 1..n : m + i \in 1..(m + n)
  BY <1>1
<1>5. ASSUME NEW r \in Range(c) PROVE r \in Range(a) \cup Range(b)
  <2>1. PICK i \in 1..(m + n) : r = c[i]
    BY <1>1, <1>5 DEF Range
  <2>2. CASE i \in 1..m
    BY <1>1, <2>1, <2>2 DEF Range
  <2>3. CASE i - m \in 1..n
    <3>1. r = b[i - m]
      BY <1>1, <1>2, <2>1, <2>3
    <3> QED BY <1>1, <2>3, <3>1 DEF Range
  <2> QED BY <1>1, <2>1, <2>2, <2>3
<1>6. Range(a) \subseteq Range(c)
  BY <1>1, <1>3 DEF Range
<1>7. Range(b) \subseteq Range(c)
  <2> SUFFICES ASSUME NEW i \in 1..n PROVE b[i] \in Range(c)
    BY <1>1 DEF Range
  <2>1. b[i] = c[m + i] /\ m + i \in 1..(m + n)
    BY <1>1, <1>4
  <2> QED BY <1>1, <2>1 DEF Range
<1>8. Range(c) = Range(a) \cup Range(b)
  BY <1>5, <1>6, <1>7
<1> QED BY <1>8 DEF FileRecs, c

\* Records in the same place are alike in the order.
LEMMA LessSame ==
    ASSUME NEW r \in Recs, NEW s \in Recs, NEW t \in Recs, Same(s, t)
    PROVE  /\ RecLess(r, s) <=> RecLess(r, t)
           /\ RecLess(s, r) <=> RecLess(t, r)
<1>1. \A i \in Nat \ {0} : Digit(s, i) = Digit(t, i)
  BY DEF Digit, Same
<1>2. \A i \in Nat \ {0} : \A j \in 1..(i - 1) : j \in Nat \ {0}
  OBVIOUS
<1>3. Lower(r, s) <=> Lower(r, t)
  BY <1>1, <1>2 DEF Lower
<1>4. Lower(s, r) <=> Lower(t, r)
  BY <1>1, <1>2 DEF Lower
<1> QED BY <1>3, <1>4, RecOrder

\* What is not after a record is before all that comes after it.
LEMMA AtMostLess ==
    ASSUME NEW r \in Recs, NEW s \in Recs, NEW t \in Recs
    PROVE  /\ AtMost(r, s) /\ RecLess(s, t) => RecLess(r, t)
           /\ RecLess(r, s) /\ AtMost(s, t) => RecLess(r, t)
           /\ RecLess(r, s) => ~AtMost(s, r)
           /\ ~RecLess(r, s) => AtMost(s, r)
<1>1. AtMost(r, s) /\ RecLess(s, t) => RecLess(r, t)
  BY LessTransitive, LessSame DEF AtMost
<1>2. RecLess(r, s) /\ AtMost(s, t) => RecLess(r, t)
  BY LessTransitive, LessSame DEF AtMost
<1>3. RecLess(r, s) => ~AtMost(s, r)
  <2>1. Same(s, r) => Same(r, s)
    BY DEF Same
  <2>2. RecLess(r, s) /\ RecLess(s, r) => FALSE
    <3>1. Same(r, r)
      BY DEF Same
    <3> QED BY <3>1, LessTransitive, LessIrreflexive
  <2> QED BY <2>1, <2>2, LessIrreflexive DEF AtMost
<1>4. ~RecLess(r, s) => AtMost(s, r)
  BY LessTotal DEF AtMost, Same
<1> QED BY <1>1, <1>2, <1>3, <1>4

\* If the last record is not after a key then none is.
LEMMA LastAtMost ==
    ASSUME NEW d, NEW a, Sound(d, a), NEW r \in Recs,
           a # <<>> => AtMost(a[Len(a)], r)
    PROVE  \A i \in DOMAIN a : AtMost(a[i], r)
<1> SUFFICES ASSUME NEW i \in DOMAIN a PROVE AtMost(a[i], r)
  OBVIOUS
<1>1. /\ a # <<>> /\ a[i] \in Recs /\ Len(a) \in DOMAIN a /\ a[Len(a)] \in Recs
      /\ i = Len(a) \/ RecLess(a[i], a[Len(a)])
  BY SoundLast
<1>2. RecLess(a[i], a[Len(a)]) => RecLess(a[i], r)
  BY <1>1, AtMostLess
<1> QED BY <1>1, <1>2 DEF AtMost

\* The same mark is in the same place.
LEMMA MarkSame ==
    \A r, s : SameMark(r, s) => Same(r, s)
BY DEF SameMark, Same

One(r) == IF r.type \in DirTypes THEN {} ELSE {r}

\* The file records of a sequence, from the first on.
LEMMA FilesTail ==
    ASSUME NEW S, NEW q \in Seq(S), q # <<>>
    PROVE  FileRecs(q) = One(q[1]) \cup FileRecs(Tail(q))
<1> DEFINE p == Tail(q)
           n == Len(q)
<1>1. /\ n \in Nat \ {0} /\ DOMAIN p = 1..(n - 1) /\ \A i \in 1..(n - 1) : p[i] = q[i + 1]
      /\ DOMAIN q = 1..n
  OBVIOUS
<1>2. /\ \A i \in 1..(n - 1) : i + 1 \in 1..n
      /\ \A i \in 1..n : i = 1 \/ (i - 1 \in 1..(n - 1) /\ i - 1 + 1 = i)
      /\ 1 \in 1..n
  BY <1>1
<1> HIDE DEF p, n
<1>3. \A i \in 1..n : q[i] = q[1] \/ q[i] \in Range(p)
  <2> SUFFICES ASSUME NEW i \in 1..n, i # 1 PROVE q[i] \in Range(p)
    OBVIOUS
  <2>1. i - 1 \in 1..(n - 1) /\ p[i - 1] = q[i]
    BY <1>1, <1>2
  <2> QED BY <1>1, <2>1 DEF Range
<1>4. Range(p) \subseteq Range(q) /\ q[1] \in Range(q)
  <2>1. ASSUME NEW i \in 1..(n - 1) PROVE p[i] \in Range(q)
    <3>1. p[i] = q[i + 1] /\ i + 1 \in 1..n
      BY <1>1, <1>2
    <3> QED BY <1>1, <3>1 DEF Range
  <2>2. Range(p) \subseteq Range(q)
    BY <1>1, <2>1 DEF Range
  <2> QED BY <1>1, <1>2, <2>2 DEF Range
<1>5. Range(q) = {q[1]} \cup Range(p)
  BY <1>1, <1>3, <1>4 DEF Range
<1> QED BY <1>5 DEF FileRecs, One, p

\* status_wr() adds no file record but the one it is given.
LEMMA FilesWrote ==
    ASSUME NEW s, NEW r, NEW t, NEW e, Wrote(s, r, t, e)
    PROVE  FileRecs(e) = One(r)
<1>1. /\ e \in Seq(Good) /\ DOMAIN e = 1..Len(e)
      /\ \A i \in DOMAIN e : e[i].type \in DirTypes \/ (r.type \notin DirTypes /\ e[i] = r)
      /\ r.type \notin DirTypes => e # <<>> /\ e[Len(e)] = r
  BY DEF Wrote
<1>2. e # <<>> => Len(e) \in DOMAIN e
  BY <1>1
<1> QED BY <1>1, <1>2 DEF FileRecs, One, Range

\* The records a status file should have are records.
LEMMA GoodRecs ==
    /\ Good \subseteq Recs /\ Seq(Good) \subseteq Seq(Recs)
    /\ Closed(Recs)
<1>1. Good \subseteq Recs
  BY DEF Good
<1>2. Closed(Recs)
  BY DEF Closed, Marks
<1> QED BY <1>1, <1>2

\* Going over records of the old file: all of them are in the new one then.
LEMMA CopyPassed ==
    ASSUME NEW s \in OpenSts(Recs), Sound(s.pc, s.out), ~s.abort,
           NEW q \in Seq(Good), q # <<>>, Increasing(q), Chained(q),
           \A i \in DOMAIN s.out, j \in DOMAIN q :
             RecLess(s.out[i], q[j]) \/ (j = 1 /\ SameMark(s.out[i], q[1]))
    PROVE  LET t == FoldLeft(WriteRaw, Write(s, q[1]), Tail(q))
           IN /\ t \in OpenSts(Recs) /\ t = [s EXCEPT !.pc = t.pc, !.out = t.out]
              /\ Sound(t.pc, t.out)
              /\ \A i \in DOMAIN t.out : AtMost(t.out[i], q[Len(q)])
              /\ FileRecs(t.out) = FileRecs(s.out) \cup FileRecs(q)
<1> DEFINE r == q[1]
           w == Write(s, r)
           b == Tail(q)
           t == FoldLeft(WriteRaw, w, b)
           n == Len(q)
<1>1. /\ b \in Seq(Good) /\ Increasing(b) /\ Linked(Target(r), b)
      /\ End(Target(r), b) = Target(q[n])
      /\ n \in Nat \ {0} /\ DOMAIN b = 1..(n - 1) /\ DOMAIN q = 1..n
      /\ \A i \in 1..(n - 1) : b[i] = q[i + 1] /\ i + 1 \in DOMAIN q /\ RecLess(r, b[i])
  BY TailOrdered
<1>2. 1 \in 1..n /\ n \in 1..n /\ r \in Good /\ q[n] \in Good
  <2>1. 1 \in 1..n /\ n \in 1..n
    BY <1>1
  <2> QED BY <2>1
<1>3. s.out # <<>> => RecLess(s.out[Len(s.out)], r) \/ SameMark(s.out[Len(s.out)], r)
  <2>1. s.out # <<>> => Len(s.out) \in DOMAIN s.out
    BY SoundLast
  <2> QED BY <1>1, <1>2, <2>1
<1>4. PICK e : Wrote(s, r, w, e)
  BY <1>2, <1>3, WriteSound
<1>5. w \in OpenSts(Recs)
  BY <1>2, GoodRecs, WriteType
<1> HIDE DEF r, w, b, n
<1>6. /\ e \in Seq(Good) /\ w = [s EXCEPT !.pc = Target(r), !.out = s.out \o e]
      /\ Sound(Target(r), s.out \o e)
  BY <1>4 DEF Wrote
<1>7. /\ w.pc = Target(r) /\ w.out = s.out \o e /\ ~w.abort
      /\ s = [rd |-> s.rd, cur |-> s.cur, pc |-> s.pc, out |-> s.out,
              dirty |-> s.dirty, scan |-> s.scan, abort |-> s.abort]
  BY <1>6 DEF OpenSts
<1>8. w.out # <<>> => AtMost(w.out[Len(w.out)], r)
  <2> DEFINE o == s.out \o e
  <2>1. o # <<>> => LET l == o[Len(o)]
                    IN \/ RecLess(l, r) \/ SameMark(l, r)
                       \/ r.type \notin DirTypes /\ l = r
    BY <1>4 DEF Wrote
  <2>2. w.out = o
    BY <1>7
  <2> HIDE DEF o
  <2>3. Same(r, r)
    BY DEF Same
  <2> QED BY <2>1, <2>2, <2>3, MarkSame DEF AtMost
<1>9. b \in Seq(Recs) /\ r \in Recs /\ q[n] \in Recs
  BY <1>1, <1>2, GoodRecs
<1>10. t = Copied(w, b)
  BY <1>1, <1>5, <1>7, <1>9, RawCopy
<1>11. /\ t.pc = Target(q[n]) /\ t.out = w.out \o b
       /\ t = [s EXCEPT !.pc = t.pc, !.out = t.out]
  BY <1>1, <1>6, <1>7, <1>10 DEF Copied
<1>12. t \in OpenSts(Recs)
  <2>1. \A v \in OpenSts(Recs), x \in Recs : WriteRaw(v, x) \in OpenSts(Recs)
    BY WriteRawType, GoodRecs
  <2> QED BY <1>5, <1>9, <2>1, RawFold
<1> HIDE DEF t
<1>13. \A i \in DOMAIN w.out : AtMost(w.out[i], r) /\ w.out[i] \in Recs
  BY <1>6, <1>7, <1>8, <1>9, LastAtMost, SoundLast
<1>14. \A i \in DOMAIN w.out, j \in DOMAIN b : RecLess(w.out[i], b[j])
  <2> SUFFICES ASSUME NEW i \in DOMAIN w.out, NEW j \in DOMAIN b
               PROVE  RecLess(w.out[i], b[j])
    OBVIOUS
  <2>1. b[j] \in Recs /\ RecLess(r, b[j])
    BY <1>1, <1>9
  <2> QED BY <1>9, <1>13, <2>1, AtMostLess
<1>15. Sound(t.pc, t.out)
  <2>1. Sound(End(Target(r), b), w.out \o b)
    BY <1>1, <1>6, <1>7, <1>14, SoundConcat
  <2> QED BY <1>1, <1>11, <2>1
<1>16. \A i \in DOMAIN t.out : AtMost(t.out[i], q[n])
  <2>1. CASE n = 1
    <3>1. b = <<>> /\ q[n] = r
      BY <1>1, <2>1 DEF r
    <3>2. t.out = w.out
      BY <1>5, <1>11, <3>1 DEF OpenSts
    <3> QED BY <1>13, <3>1, <3>2
  <2>2. CASE n # 1
    <3>1. Len(b) = n - 1 /\ n - 1 \in 1..Len(b) /\ n - 1 + 1 = n
      BY <1>1, <2>2
    <3>2. /\ Len(t.out) = Len(w.out) + Len(b)
          /\ t.out[Len(w.out) + (n - 1)] = b[n - 1]
      <4>1. w.out \in Seq(Good)
        BY <1>6, <1>7 DEF Sound
      <4> QED BY <1>1, <1>11, <3>1, <4>1, ConcatIs
    <3>3. b[n - 1] = q[n]
      BY <1>1, <3>1
    <3>4. t.out[Len(t.out)] = q[n]
      BY <3>1, <3>2, <3>3
    <3>5. Same(q[n], q[n])
      BY DEF Same
    <3> QED BY <1>9, <1>15, <3>4, <3>5, LastAtMost DEF AtMost
  <2> QED BY <2>1, <2>2
<1>17. FileRecs(t.out) = FileRecs(s.out) \cup FileRecs(q)
  <2>1. s.out \in Seq(Good) /\ w.out \in Seq(Good)
    BY <1>6, <1>7 DEF Sound
  <2>2. FileRecs(t.out) = FileRecs(w.out) \cup FileRecs(b)
    BY <1>1, <1>11, <2>1, FilesConcat
  <2>3. FileRecs(w.out) = FileRecs(s.out) \cup FileRecs(e)
    BY <1>6, <1>7, <2>1, FilesConcat
  <2>4. FileRecs(e) = One(r)
    BY <1>4, FilesWrote
  <2>5. FileRecs(q) = One(r) \cup FileRecs(b)
    BY FilesTail DEF r, b
  <2> QED BY <2>2, <2>3, <2>4, <2>5
<1> QED BY <1>11, <1>12, <1>15, <1>16, <1>17 DEF t, w, r, b, n

-----------------------------------------------------------------------------
(* The merge of the old file and the records that are put *)

Merged(s) ==
    /\ s \in OpenSts(Recs) /\ Sound(s.pc, s.out) /\ ~s.abort /\ Len(s.cur) <= 1
    /\ Left(s) \in Seq(Good) /\ Increasing(Left(s)) /\ Chained(Left(s))
    /\ \A i \in DOMAIN s.out, j \in DOMAIN Left(s) :
         \/ RecLess(s.out[i], Left(s)[j])
         \/ j = 1 /\ s.cur # <<>> /\ SameMark(s.out[i], Left(s)[1])

\* What is left of the old file and where a key falls.
LEMMA BeforeKey ==
    ASSUME NEW s \in OpenSts(Recs), Left(s) \in Seq(Good), Increasing(Left(s)),
           NEW key \in Recs
    PROVE  LET n == Before(s, key)
           IN /\ n \in 0..Len(Left(s))
              /\ \A i \in 1..n : RecLess(Left(s)[i], key)
              /\ \A i \in (n + 1)..Len(Left(s)) : ~RecLess(Left(s)[i], key)
<1> DEFINE q == Left(s)
           S == {i \in DOMAIN q : ~RecLess(q[i], key)}
           n == Before(s, key)
<1>1. n \in 0..Len(q)
  BY BeforeBounds
<1>2. n = IF S = {} THEN Len(q) ELSE Min(S) - 1
  BY DEF Before
<1>3. DOMAIN q = 1..Len(q) /\ Len(q) \in Nat /\ \A i \in 1..Len(q) : q[i] \in Recs
  BY GoodRecs
<1>4. q \in Seq(Good) /\ \A i, j \in 1..Len(q) : i < j => RecLess(q[i], q[j])
  BY <1>3 DEF Increasing
<1> HIDE DEF q, n
<1>5. CASE S = {}
  <2>1. n = Len(q)
    BY <1>2, <1>5
  <2>2. \A i \in 1..n : RecLess(q[i], key)
    BY <1>3, <1>5, <2>1
  <2>3. \A i \in (n + 1)..Len(q) : FALSE
    BY <1>3, <2>1
  <2> QED BY <1>1, <2>2, <2>3 DEF q, n
<1>6. CASE S # {}
  <2>1. S \in SUBSET Nat
    BY <1>3
  <2>2. PICK m \in S : \A y \in S : m <= y
    BY <1>6, <2>1, LeastNatural
  <2>3. Min(S) = m
    <3>1. Min(S) \in S /\ \A y \in S : Min(S) <= y
      BY <2>2 DEF Min
    <3> QED BY <2>1, <2>2, <3>1
  <2>4. n = m - 1 /\ m \in 1..Len(q) /\ ~RecLess(q[m], key) /\ n + 1 = m
    BY <1>2, <1>3, <1>6, <2>3
  <2>5. ASSUME NEW i \in 1..n PROVE RecLess(q[i], key)
    <3>1. i \in 1..Len(q) /\ i < m
      BY <1>3, <2>4
    <3>2. i \notin S
      BY <2>2, <3>1
    <3> QED BY <1>3, <3>1, <3>2
  <2>6. ASSUME NEW i \in (n + 1)..Len(q) PROVE ~RecLess(q[i], key)
    <3>1. i \in 1..Len(q) /\ (i = m \/ m < i)
      BY <1>3, <2>4
    <3>2. m < i => RecLess(q[m], q[i])
      BY <1>4, <2>4, <3>1
    <3>3. q[m] \in Recs /\ q[i] \in Recs
      BY <1>3, <2>4, <3>1
    <3> QED BY <2>4, <3>1, <3>2, <3>3, LessTransitive
  <2> QED BY <1>1, <2>5, <2>6 DEF q, n
<1> QED BY <1>5, <1>6

\* What is in hand and what is not read yet, in two pieces.
LEMMA LeftPieces ==
    ASSUME NEW S, NEW q \in Seq(S), NEW n \in 0..Len(q)
    PROVE  LET c == SubSeq(q, n + 1, Min({n + 1, Len(q)}))
               b == SubSeq(q, n + 2, Len(q))
           IN /\ c \in Seq(S) /\ b \in Seq(S) /\ c \o b = SubSeq(q, n + 1, Len(q))
              /\ Len(c) <= 1 /\ (c = <<>> <=> n = Len(q))
<1> DEFINE m == Len(q)
           k == Min({n + 1, m})
           c == SubSeq(q, n + 1, k)
           b == SubSeq(q, n + 2, m)
           a == SubSeq(q, n + 1, m)
<1>1. m \in Nat /\ n \in Nat /\ n <= m
  OBVIOUS
<1>2. k = IF n < m THEN n + 1 ELSE m
  <2>1. \A x, y \in Nat : Min({x, y}) = IF x <= y THEN x ELSE y
    <3> SUFFICES ASSUME NEW x \in Nat, NEW y \in Nat
                 PROVE  Min({x, y}) = IF x <= y THEN x ELSE y
      OBVIOUS
    <3>1. \E z \in {x, y} : \A u \in {x, y} : z <= u
      OBVIOUS
    <3>2. Min({x, y}) \in {x, y} /\ \A u \in {x, y} : Min({x, y}) <= u
      BY <3>1 DEF Min
    <3> QED BY <3>2
  <2> HIDE DEF m
  <2>2. n + 1 \in Nat
    BY <1>1
  <2>3. k = IF n + 1 <= m THEN n + 1 ELSE m
    BY <1>1, <2>1, <2>2
  <2> QED BY <1>1, <2>3
<1> HIDE DEF k
<1> DEFINE G == /\ c \in Seq(S) /\ b \in Seq(S) /\ c \o b = a
                /\ Len(c) <= 1 /\ (c = <<>> <=> n = m)
<1>3. ASSUME n = m PROVE G
  <2>1. c = <<>> /\ b = <<>> /\ a = <<>>
    BY <1>1, <1>2, <1>3, SubSeqEmpty
  <2> HIDE DEF a, b, c, m
  <2>2. <<>> \in Seq(S) /\ <<>> \o <<>> = <<>> /\ Len(<<>>) = 0
    OBVIOUS
  <2> QED BY <1>3, <2>1, <2>2
<1>4. ASSUME n < m PROVE G
  <2>1. k = n + 1 /\ n + 1 \in 0..m /\ n + 1 \in Nat \ {0} /\ n + 2 \in Nat \ {0} /\ m \in 0..m
        /\ n + 1 <= m + 1 /\ n + 2 <= m + 1 /\ n + 1 <= n + 1 + 1
        /\ n + 1 + 1 - (n + 1) = 1 /\ m + 1 - (n + 1) = m - n /\ m + 1 - (n + 2) = m - n - 1
        /\ n + 1 - 1 = n /\ n + 2 - 1 = n + 1
    BY <1>1, <1>2, <1>4
  <2>2. c \in Seq(S) /\ Len(c) = 1 /\ \A i \in 1..1 : c[i] = q[n + i]
    <3>1. c \in Seq(S) /\ Len(c) = n + 1 + 1 - (n + 1)
          /\ \A i \in 1..(n + 1 + 1 - (n + 1)) : c[i] = q[n + 1 - 1 + i]
      BY <2>1, Piece
    <3> HIDE DEF c, m
    <3> QED BY <2>1, <3>1
  <2>3. b \in Seq(S) /\ Len(b) = m - n - 1 /\ \A i \in 1..(m - n - 1) : b[i] = q[n + 1 + i]
    <3>1. b \in Seq(S) /\ Len(b) = m + 1 - (n + 2)
          /\ \A i \in 1..(m + 1 - (n + 2)) : b[i] = q[n + 2 - 1 + i]
      BY <2>1, Piece
    <3> HIDE DEF b, m
    <3> QED BY <2>1, <3>1
  <2>4. a \in Seq(S) /\ Len(a) = m - n /\ \A i \in 1..(m - n) : a[i] = q[n + i]
    <3>1. a \in Seq(S) /\ Len(a) = m + 1 - (n + 1)
          /\ \A i \in 1..(m + 1 - (n + 1)) : a[i] = q[n + 1 - 1 + i]
      BY <2>1, Piece
    <3> HIDE DEF a, m
    <3> QED BY <2>1, <3>1
  <2> DEFINE d == c \o b
  <2> HIDE DEF a, b, c, m
  <2>5. d \in Seq(S) /\ Len(d) = m - n
        /\ (\A i \in 1..1 : d[i] = c[i]) /\ (\A i \in 1..(m - n - 1) : d[1 + i] = b[i])
    <3>0. c \in Seq(S) /\ b \in Seq(S)
      BY <2>2, <2>3
    <3>1. /\ d \in Seq(S) /\ Len(d) = Len(c) + Len(b)
          /\ \A i \in 1..Len(c) : d[i] = c[i]
          /\ \A i \in 1..Len(b) : d[Len(c) + i] = b[i]
      BY <3>0, ConcatIs
    <3> HIDE DEF d
    <3>2. 1 + (m - n - 1) = m - n
      BY <1>1
    <3> QED BY <2>2, <2>3, <3>1, <3>2
  <2> HIDE DEF d
  <2>6. \A i \in 1..(m - n) : d[i] = a[i]
    <3> SUFFICES ASSUME NEW i \in 1..(m - n) PROVE d[i] = a[i]
      OBVIOUS
    <3>1. CASE i = 1
      <4>1. 1 \in 1..1
        OBVIOUS
      <4> QED BY <2>2, <2>4, <2>5, <3>1, <4>1
    <3>2. CASE i # 1
      <4>1. i - 1 \in 1..(m - n - 1) /\ 1 + (i - 1) = i /\ n + 1 + (i - 1) = n + i
        BY <1>1, <3>2
      <4>2. d[i] = b[i - 1] /\ b[i - 1] = q[n + i]
        BY <2>3, <2>5, <4>1
      <4> QED BY <2>4, <4>2
    <3> QED BY <3>1, <3>2
  <2>7. d = a
    BY <2>4, <2>5, <2>6, SeqEqual
  <2>8. Len(c) <= 1 /\ c # <<>>
    <3>1. Len(c) = 1
      BY <2>2
    <3>2. ASSUME c = <<>> PROVE FALSE
      BY <3>1, <3>2
    <3> QED BY <3>1, <3>2
  <2>9. n # m
    BY <1>1, <1>4
  <2> QED BY <2>2, <2>3, <2>7, <2>8, <2>9 DEF d
<1>5. G
  <2> HIDE DEF G, m
  <2> QED BY <1>1, <1>3, <1>4
<1> QED BY <1>5 DEF k

\* A sequence is its first records and the others.
LEMMA TwoPieces ==
    ASSUME NEW S, NEW q \in Seq(S), NEW n \in 0..Len(q)
    PROVE  SubSeq(q, 1, n) \o SubSeq(q, n + 1, Len(q)) = q
<1>1. /\ 1 \in 1..(Len(q) + 1) /\ n \in (1 - 1)..Len(q) /\ Len(q) \in n..Len(q)
      /\ SubSeq(q, 1, Len(q)) = q
  BY SubSeqFull
<1> QED BY <1>1, ConcatAdjacentSubSeq

\* status_get()
Below(recs, key) == \A i \in DOMAIN recs : RecLess(recs[i], key)
Sought(s, key, t) ==
    /\ Merged(t)
    /\ t.cur = <<>> => Left(t) = <<>>
    /\ \A j \in DOMAIN Left(t) : ~RecLess(Left(t)[j], key)
    /\ Below(s.out, key) => Below(t.out, key)
    /\ Below(s.out, key) \/ t.out = s.out
    /\ FileRecs(t.out \o Left(t)) = FileRecs(s.out \o Left(s))
    /\ Range(Left(t)) \subseteq Range(Left(s))
    /\ t.dirty = s.dirty

\* status_get() passes records and loses none.
LEMMA SeekMerged ==
    ASSUME NEW s, Merged(s), NEW key \in Recs,
           Below(s.out, key) \/ \A j \in DOMAIN Left(s) : ~RecLess(Left(s)[j], key)
    PROVE  Sought(s, key, Seek(s, key, FALSE))
<1> DEFINE q == Left(s)
           m == Len(q)
           n == Before(s, key)
           p == SubSeq(q, 1, n)
           a == SubSeq(q, n + 1, m)
           c == SubSeq(q, n + 1, Min({n + 1, m}))
           b == SubSeq(q, n + 2, m)
           u == IF n = 0 THEN s ELSE FoldLeft(WriteRaw, Write(s, p[1]), Tail(p))
           t == Seek(s, key, FALSE)
<1>1. /\ s \in OpenSts(Recs) /\ Sound(s.pc, s.out) /\ ~s.abort
      /\ q \in Seq(Good) /\ Increasing(q) /\ Chained(q)
      /\ \A i \in DOMAIN s.out, j \in DOMAIN q :
           RecLess(s.out[i], q[j]) \/ (j = 1 /\ s.cur # <<>> /\ SameMark(s.out[i], q[1]))
  BY DEF Merged
<1>2. /\ n \in 0..m
      /\ \A i \in 1..n : RecLess(q[i], key)
      /\ \A i \in (n + 1)..m : ~RecLess(q[i], key)
  BY <1>1, BeforeKey
<1>3. t = [u EXCEPT !.cur = c, !.rd = b]
  BY DEF Seek
<1>4. t \in OpenSts(Recs)
  BY <1>1, SeekType, GoodRecs
<1>5. c \in Seq(Good) /\ b \in Seq(Good) /\ c \o b = a /\ Len(c) <= 1 /\ (c = <<>> <=> n = m)
  BY <1>1, <1>2, LeftPieces
<1>6. p \o a = q /\ m \in Nat /\ n \in Nat /\ n <= m
  <2>1. p \o a = q
    BY <1>1, <1>2, TwoPieces
  <2>2. m \in Nat
    BY <1>1
  <2> HIDE DEF p, a, q, n, m
  <2> QED BY <1>2, <2>1, <2>2
<1>7. /\ a \in Seq(Good) /\ DOMAIN a = 1..(m - n) /\ Increasing(a) /\ Chained(a) /\ Len(a) = m - n
      /\ \A i \in 1..(m - n) : a[i] = q[n + i] /\ n + i \in (n + 1)..m /\ n + i \in DOMAIN q
                               /\ a[i] \in Recs
  <2>0. /\ n + 1 \in Nat \ {0} /\ m \in 0..m /\ n + 1 <= m + 1
        /\ m + 1 - (n + 1) = m - n /\ n + 1 - 1 = n
        /\ \A i \in 1..(m - n) : n + i \in (n + 1)..m
        /\ DOMAIN q = 1..m
    <3>1. DOMAIN q = 1..m
      BY <1>1
    <3> HIDE DEF n, q, m
    <3> QED BY <1>6, <3>1
  <2> HIDE DEF n, q, m, a
  <2>1. Increasing(a) /\ Chained(a)
    BY <1>1, <2>0, PieceOrdered DEF a, m
  <2>2. /\ a \in Seq(Good) /\ DOMAIN a = 1..(m - n) /\ Len(a) = m - n
        /\ \A i \in 1..(m - n) : /\ a[i] = q[n + i] /\ a[i] \in Good
                                  /\ n + i \in 1..Len(q)
    <3>1. q \in Seq(Good) /\ n + 1 \in Nat \ {0} /\ m \in 0..Len(q) /\ n + 1 <= m + 1
      BY <1>1, <2>0 DEF m
    <3> DEFINE k == n + 1
               x == SubSeq(q, k, m)
    <3>4. a = x
      BY DEF a
    <3> HIDE DEF x
    <3>2. k \in Nat \ {0} /\ k <= m + 1 /\ m + 1 - k = m - n /\ k - 1 = n
      BY <1>6
    <3> HIDE DEF k
    <3>3. /\ x \in Seq(Good) /\ DOMAIN x = 1..(m + 1 - k) /\ Len(x) = m + 1 - k
          /\ \A i \in 1..(m + 1 - k) : x[i] = q[k - 1 + i] /\ x[i] \in Good
                                      /\ k - 1 + i \in 1..Len(q)
      BY <3>1, <3>2, Piece DEF x
    <3> QED BY <3>2, <3>3, <3>4
  <2> QED BY <2>0, <2>1, <2>2, GoodRecs
<1> HIDE DEF q, m, n, a, b, c
<1>8. p \in Seq(Good) /\ Increasing(p) /\ Chained(p) /\ Len(p) = n /\ DOMAIN p = 1..n
      /\ \A i \in 1..n : p[i] = q[i] /\ i \in DOMAIN q
  <2>0. /\ 1 \in Nat \ {0} /\ n \in 0..Len(q) /\ 1 <= n + 1
        /\ n + 1 - 1 = n /\ 1 - 1 = 0
        /\ \A i \in 1..n : 0 + i = i /\ i \in 1..m
        /\ DOMAIN q = 1..m
    BY <1>1, <1>2, <1>6 DEF m
  <2> HIDE DEF p
  <2>1. Increasing(p) /\ Chained(p)
    BY <1>1, <2>0, PieceOrdered DEF p
  <2>2. /\ p \in Seq(Good) /\ DOMAIN p = 1..(n + 1 - 1) /\ Len(p) = n + 1 - 1
        /\ \A i \in 1..(n + 1 - 1) : p[i] = q[1 - 1 + i]
    BY <1>1, <2>0, Piece DEF p
  <2> QED BY <2>0, <2>1, <2>2
<1> HIDE DEF p
<1>9. /\ u \in OpenSts(Recs) /\ u = [s EXCEPT !.pc = u.pc, !.out = u.out] /\ Sound(u.pc, u.out)
      /\ n = 0 => u = s
      /\ n # 0 => \A i \in DOMAIN u.out : AtMost(u.out[i], q[n]) /\ u.out[i] \in Recs
      /\ FileRecs(u.out) = FileRecs(s.out) \cup FileRecs(p)
  <2>1. CASE n = 0
    <3>1. u = s
      BY <2>1
    <3>2. p = <<>>
      BY <1>8, <2>1
    <3>3. FileRecs(p) = {}
      BY <3>2 DEF FileRecs, Range
    <3>4. s = [s EXCEPT !.pc = s.pc, !.out = s.out]
      BY <1>1 DEF OpenSts
    <3> HIDE DEF u
    <3> QED BY <1>1, <2>1, <3>1, <3>3, <3>4
  <2>2. CASE n # 0
    <3> DEFINE v == FoldLeft(WriteRaw, Write(s, p[1]), Tail(p))
    <3>1. u = v
      BY <2>2
    <3>2. p # <<>> /\ 1 \in 1..n
      BY <1>6, <1>8, <2>2
    <3>3. \A i \in DOMAIN s.out, j \in DOMAIN p :
            RecLess(s.out[i], p[j]) \/ (j = 1 /\ SameMark(s.out[i], p[1]))
      BY <1>1, <1>8, <3>2
    <3>4. /\ v \in OpenSts(Recs) /\ v = [s EXCEPT !.pc = v.pc, !.out = v.out]
          /\ Sound(v.pc, v.out)
          /\ \A i \in DOMAIN v.out : AtMost(v.out[i], p[Len(p)])
          /\ FileRecs(v.out) = FileRecs(s.out) \cup FileRecs(p)
      BY <1>1, <1>8, <3>2, <3>3, CopyPassed
    <3>5. p[Len(p)] = q[n]
      <4>1. n \in 1..n
        BY <1>6, <2>2
      <4> QED BY <1>8, <4>1
    <3> HIDE DEF u, v
    <3> QED BY <2>2, <3>1, <3>4, <3>5, SoundLast
  <2> QED BY <2>1, <2>2
<1> HIDE DEF u, t
<1>10. /\ t.cur = c /\ t.rd = b /\ t.pc = u.pc /\ t.out = u.out /\ t.abort = u.abort
       /\ u.abort = s.abort /\ Left(t) = a /\ t.dirty = s.dirty
  <2>1. u = [rd |-> u.rd, cur |-> u.cur, pc |-> u.pc, out |-> u.out,
             dirty |-> u.dirty, scan |-> u.scan, abort |-> u.abort]
    BY <1>9 DEF OpenSts
  <2>2. /\ t.cur = c /\ t.rd = b /\ t.pc = u.pc /\ t.out = u.out /\ t.abort = u.abort
        /\ t.dirty = u.dirty
    BY <1>3, <2>1
  <2>3. u.abort = s.abort /\ u.dirty = s.dirty
    BY <1>1, <1>9 DEF OpenSts
  <2> QED BY <1>5, <2>2, <2>3 DEF Left
<1>11. n # 0 => /\ Below(s.out, key) /\ Below(u.out, key)
                /\ \A i \in DOMAIN u.out, j \in DOMAIN a : RecLess(u.out[i], a[j])
  <2> SUFFICES ASSUME n # 0
               PROVE  /\ Below(s.out, key) /\ Below(u.out, key)
                      /\ \A i \in DOMAIN u.out, j \in DOMAIN a : RecLess(u.out[i], a[j])
    OBVIOUS
  <2>1. 1 \in 1..n /\ n \in 1..n
    BY <1>6
  <2>2. RecLess(q[1], key) /\ RecLess(q[n], key) /\ 1 \in DOMAIN q /\ n \in DOMAIN q
    BY <1>2, <1>8, <2>1
  <2>3. Below(s.out, key)
    BY <2>2 DEF q
  <2>4. q[n] \in Recs
    BY <1>1, <2>2, GoodRecs
  <2>5. Below(u.out, key)
    BY <1>9, <2>2, <2>4, AtMostLess DEF Below
  <2>6. ASSUME NEW i \in DOMAIN u.out, NEW j \in DOMAIN a PROVE RecLess(u.out[i], a[j])
    <3>1. a[j] = q[n + j] /\ n + j \in DOMAIN q /\ n < n + j /\ a[j] \in Recs
      BY <1>6, <1>7, <2>6
    <3>2. RecLess(q[n], a[j])
      BY <1>1, <2>2, <3>1 DEF Increasing
    <3> QED BY <1>9, <2>4, <3>1, <3>2, AtMostLess
  <2> QED BY <2>3, <2>5, <2>6
<1>12. n = 0 => a = q
  <2>1. n = 0 => p = <<>>
    BY <1>8
  <2>2. <<>> \o a = a
    BY <1>7
  <2> QED BY <1>6, <2>1, <2>2
<1>13. \A i \in DOMAIN t.out, j \in DOMAIN a :
         RecLess(t.out[i], a[j]) \/ (j = 1 /\ t.cur # <<>> /\ SameMark(t.out[i], a[1]))
  <2>1. CASE n # 0
    BY <1>10, <1>11, <2>1
  <2>2. CASE n = 0
    <3>1. a = q /\ t.out = s.out
      BY <1>9, <1>10, <1>12, <2>2
    <3>2. DOMAIN a # {} => t.cur # <<>>
      <4>1. DOMAIN a # {} => n # m
        <5>1. m - m = 0 /\ 1..0 = {}
          BY <1>6
        <5> QED BY <1>7, <5>1
      <4> QED BY <1>5, <1>10, <4>1
    <3> QED BY <1>1, <3>1, <3>2
  <2> QED BY <2>1, <2>2
<1>14. Merged(t)
  BY <1>1, <1>4, <1>5, <1>7, <1>9, <1>10, <1>13 DEF Merged
<1>15. t.cur = <<>> => Left(t) = <<>>
  <2> SUFFICES ASSUME t.cur = <<>> PROVE Left(t) = <<>>
    OBVIOUS
  <2>1. n = m
    BY <1>5, <1>10
  <2>2. m - n = 0
    BY <1>6, <2>1
  <2>3. a = <<>>
    BY <1>7, <2>2
  <2> QED BY <1>10, <2>3
<1>16. \A j \in DOMAIN Left(t) : ~RecLess(Left(t)[j], key)
  BY <1>2, <1>7, <1>10
<1>17. /\ Below(s.out, key) => Below(t.out, key)
       /\ Below(s.out, key) \/ t.out = s.out
  BY <1>9, <1>10, <1>11
<1>18. FileRecs(t.out \o a) = FileRecs(s.out \o q)
  <2>1. t.out \in Seq(Good) /\ s.out \in Seq(Good)
    BY <1>1, <1>9, <1>10 DEF Sound
  <2>2. FileRecs(t.out \o a) = FileRecs(s.out) \cup FileRecs(p) \cup FileRecs(a)
    BY <1>7, <1>9, <1>10, <2>1, FilesConcat
  <2>3. FileRecs(q) = FileRecs(p) \cup FileRecs(a)
    <3>1. p \in Seq(Good) /\ a \in Seq(Good) /\ q = p \o a
      BY <1>6, <1>7, <1>8
    <3> QED BY <3>1, FilesConcat
  <2>4. FileRecs(s.out \o q) = FileRecs(s.out) \cup FileRecs(q)
    BY <1>1, <2>1, FilesConcat
  <2> QED BY <2>2, <2>3, <2>4
<1>19. Range(a) \subseteq Range(q)
  BY <1>7 DEF Range
<1> QED BY <1>10, <1>14, <1>15, <1>16, <1>17, <1>18, <1>19 DEF Sought, t, q

\* The record in hand is dropped.
LEMMA DropMerged ==
    ASSUME NEW v, Merged(v), v.cur # <<>>
    PROVE  LET y == Drop(v)
               c == Left(v)[1]
           IN /\ Merged(y) /\ y.out = v.out /\ y.pc = v.pc
              /\ v.cur[1] = c /\ c \in Good /\ 1 \in DOMAIN Left(v)
              /\ Left(v) # <<>> /\ Tail(Left(v)) = v.rd
              /\ \A j \in DOMAIN Left(y) : RecLess(c, Left(y)[j])
              /\ FileRecs(Left(v)) = One(c) \cup FileRecs(Left(y))
              /\ Range(Left(y)) \subseteq Range(Left(v))
<1> DEFINE y == Drop(v)
           q == Left(v)
           c == v.cur[1]
<1>1. /\ v \in OpenSts(Recs) /\ Sound(v.pc, v.out) /\ ~v.abort /\ Len(v.cur) <= 1
      /\ q \in Seq(Good) /\ Increasing(q) /\ Chained(q)
      /\ \A i \in DOMAIN v.out, j \in DOMAIN q :
           RecLess(v.out[i], q[j]) \/ (j = 1 /\ v.cur # <<>> /\ SameMark(v.out[i], q[1]))
  BY DEF Merged
<1>2. /\ v.cur \in Seq(Recs) /\ v.rd \in Seq(Recs) /\ q = v.cur \o v.rd
  BY <1>1 DEF OpenSts, Left
<1>3. Len(v.cur) = 1
  <2> DEFINE k == Len(v.cur)
  <2>1. k \in Nat /\ k # 0
    BY <1>2
  <2>2. k <= 1
    BY <1>1
  <2> HIDE DEF k
  <2>3. k = 1
    BY <2>1, <2>2
  <2> QED BY <2>3 DEF k
<1>4. v.cur = <<c>> /\ c \in Recs
  BY <1>2, <1>3
<1>5. q = <<c>> \o v.rd
  BY <1>2, <1>4
<1>6. q # <<>> /\ q[1] = c /\ Tail(q) = v.rd
  BY <1>2, <1>4, <1>5
<1>7. y = [v EXCEPT !.cur = <<>>]
  BY DEF Drop
<1>8. /\ y \in OpenSts(Recs) /\ y.out = v.out /\ y.pc = v.pc /\ y.abort = v.abort
      /\ y.cur = <<>> /\ y.rd = v.rd
  <2>1. v = [rd |-> v.rd, cur |-> v.cur, pc |-> v.pc, out |-> v.out,
             dirty |-> v.dirty, scan |-> v.scan, abort |-> v.abort]
    BY <1>1 DEF OpenSts
  <2>2. <<>> \in Seq(Recs)
    OBVIOUS
  <2>3. y \in OpenSts(Recs)
    BY <1>1, <1>7, <2>2 DEF OpenSts
  <2> HIDE DEF y, q
  <2> QED BY <1>7, <2>1, <2>3
<1> HIDE DEF y, c, q
<1>9. Left(y) = Tail(q)
  <2>1. <<>> \o v.rd = v.rd
    BY <1>2
  <2> QED BY <1>6, <1>8, <2>1 DEF Left
<1>10. /\ Tail(q) \in Seq(Good) /\ Increasing(Tail(q))
       /\ Len(q) \in Nat \ {0} /\ DOMAIN Tail(q) = 1..(Len(q) - 1)
       /\ \A i \in 1..(Len(q) - 1) : /\ Tail(q)[i] = q[i + 1] /\ i + 1 \in DOMAIN q
                                     /\ RecLess(q[1], Tail(q)[i])
  BY <1>1, <1>6, TailOrdered
<1>11. Chained(Tail(q))
  <2> SUFFICES ASSUME NEW i \in 1..(Len(q) - 1), i # 1
               PROVE  Sync(Target(Tail(q)[i - 1]), Tail(q)[i])
    BY <1>10 DEF Chained
  <2> DEFINE k == i + 1
  <2>1. /\ i - 1 \in 1..(Len(q) - 1) /\ i - 1 + 1 = i /\ k # 1 /\ k - 1 = i
    BY <1>10
  <2>2. Tail(q)[i] = q[k] /\ Tail(q)[i - 1] = q[i] /\ k \in DOMAIN q
    BY <1>10, <2>1
  <2> HIDE DEF k
  <2>3. Sync(Target(q[k - 1]), q[k])
    BY <1>1, <2>1, <2>2 DEF Chained
  <2> QED BY <2>1, <2>2, <2>3
<1>12. \A i \in DOMAIN y.out, j \in DOMAIN Left(y) : RecLess(y.out[i], Left(y)[j])
  <2> SUFFICES ASSUME NEW i \in DOMAIN v.out, NEW j \in 1..(Len(q) - 1)
               PROVE  RecLess(v.out[i], Tail(q)[j])
    BY <1>8, <1>9, <1>10
  <2> DEFINE k == j + 1
  <2>1. k \in DOMAIN q /\ k # 1 /\ Tail(q)[j] = q[k]
    BY <1>10
  <2> HIDE DEF k
  <2> QED BY <1>1, <2>1
<1>13. Len(y.cur) <= 1
  BY <1>8
<1>14. Merged(y)
  BY <1>1, <1>8, <1>9, <1>10, <1>11, <1>12, <1>13 DEF Merged
<1>15. FileRecs(q) = One(q[1]) \cup FileRecs(Left(y))
  BY <1>1, <1>6, <1>9, FilesTail
<1>16. Range(Left(y)) \subseteq Range(q)
  <2> SUFFICES ASSUME NEW i \in 1..(Len(q) - 1) PROVE Tail(q)[i] \in Range(q)
    BY <1>9, <1>10 DEF Range
  <2>1. Tail(q)[i] = q[i + 1] /\ i + 1 \in DOMAIN q
    BY <1>10
  <2> QED BY <2>1 DEF Range
<1>17. q[1] \in Good /\ 1 \in DOMAIN q
  BY <1>1, <1>10
<1> QED BY <1>6, <1>8, <1>9, <1>10, <1>14, <1>15, <1>16, <1>17 DEF y, q, c

\* A record in the place of a file is a file's, in that of a directory a mark.
LEMMA GoodPlace ==
    ASSUME NEW r \in Good
    PROVE  /\ r.path \in Files => r.type \notin DirTypes
           /\ r.path \in Dirs => r.type \in DirTypes
           /\ r.path \in Files \cup Dirs
BY FolderFacts DEF Good

\* What a key finds.
Taken(v, key) == IF Found(v, key) THEN Drop(v) ELSE v
WithoutPath(S, p) == {w \in S : w.path # p}

\* What status_get() finds is the record in hand, and no other is in its place.
LEMMA FoundFirst ==
    ASSUME NEW s, NEW v, NEW key \in Recs, Sought(s, key, v)
    PROVE  /\ Merged(v) /\ Merged(Taken(v, key))
           /\ Taken(v, key).out = v.out /\ Taken(v, key).pc = v.pc
           /\ Range(Left(Taken(v, key))) \subseteq Range(Left(s))
           /\ Left(v) \in Seq(Good)
           /\ \A j \in DOMAIN Left(v) : AtMost(key, Left(v)[j]) /\ Left(v)[j] \in Good
           /\ \A j \in DOMAIN Left(v) : Same(key, Left(v)[j]) =>
                j = 1 /\ v.cur # <<>> /\ v.cur[1] = Left(v)[1]
           /\ Found(v, key) => /\ v.cur # <<>> /\ v.cur[1] = Left(v)[1] /\ 1 \in DOMAIN Left(v)
                               /\ Left(v)[1].path = key.path /\ Left(v)[1].type # "U"
                               /\ key.type # "U"
<1>1. /\ Merged(v) /\ (v.cur = <<>> => Left(v) = <<>>)
      /\ \A j \in DOMAIN Left(v) : ~RecLess(Left(v)[j], key)
      /\ Range(Left(v)) \subseteq Range(Left(s))
  BY DEF Sought
<1>2. Left(v) \in Seq(Good) /\ Increasing(Left(v))
  BY <1>1 DEF Merged
<1>3. \A j \in DOMAIN Left(v) : Left(v)[j] \in Good /\ Left(v)[j] \in Recs
  BY <1>2, GoodRecs
<1>4. \A j \in DOMAIN Left(v) : AtMost(key, Left(v)[j])
  BY <1>1, <1>3, AtMostLess
<1>5. ASSUME NEW j \in DOMAIN Left(v), Same(key, Left(v)[j])
      PROVE  j = 1 /\ v.cur # <<>> /\ v.cur[1] = Left(v)[1]
  <2>1. 1 \in DOMAIN Left(v) /\ (j = 1 \/ 1 < j)
    BY <1>2
  <2>2. j = 1
    <3> SUFFICES ASSUME 1 < j PROVE FALSE
      BY <2>1
    <3>1. RecLess(Left(v)[1], Left(v)[j])
      BY <1>2, <2>1 DEF Increasing
    <3>2. Same(Left(v)[j], key)
      BY <1>5 DEF Same
    <3>3. RecLess(Left(v)[1], key)
      BY <1>3, <1>5, <2>1, <3>1, <3>2, LessSame
    <3> QED BY <1>1, <2>1, <3>3
  <2>3. v.cur # <<>>
    <3>1. Left(v) # <<>>
      BY <2>1
    <3> QED BY <1>1, <3>1
  <2> QED BY <1>1, <2>2, <2>3, DropMerged
<1>6. Found(v, key) => v.cur # <<>> /\ RecEqual(v.cur[1], key)
  BY DEF Found
<1>7. v.cur # <<>> => /\ Merged(Drop(v)) /\ Drop(v).out = v.out /\ Drop(v).pc = v.pc
                      /\ v.cur[1] = Left(v)[1] /\ 1 \in DOMAIN Left(v)
                      /\ Range(Left(Drop(v))) \subseteq Range(Left(v))
  BY <1>1, DropMerged
<1>8. Found(v, key) => /\ v.cur # <<>> /\ v.cur[1] = Left(v)[1] /\ 1 \in DOMAIN Left(v)
                       /\ Left(v)[1].path = key.path /\ Left(v)[1].type # "U"
                       /\ key.type # "U"
  BY <1>6, <1>7 DEF RecEqual
<1>9. /\ Merged(Taken(v, key)) /\ Taken(v, key).out = v.out /\ Taken(v, key).pc = v.pc
      /\ Range(Left(Taken(v, key))) \subseteq Range(Left(s))
  BY <1>1, <1>6, <1>7 DEF Taken
<1> QED BY <1>1, <1>2, <1>3, <1>4, <1>5, <1>8, <1>9

\* A file's record is taken out.
LEMMA TakeFile ==
    ASSUME NEW s, NEW v, NEW key \in Recs, Sought(s, key, v),
           key.path \in Files, key.type \notin DirTypes, Below(v.out, key)
    PROVE  LET y == Taken(v, key)
           IN /\ \A j \in DOMAIN Left(y) : RecLess(key, Left(y)[j])
              /\ FileRecs(y.out \o Left(y)) =
                   WithoutPath(FileRecs(s.out \o Left(s)), key.path)
<1> DEFINE y == Taken(v, key)
           q == Left(v)
<1>1. /\ Merged(v) /\ Merged(y) /\ y.out = v.out /\ q \in Seq(Good)
      /\ \A j \in DOMAIN q : AtMost(key, q[j]) /\ q[j] \in Good
      /\ \A j \in DOMAIN q : Same(key, q[j]) =>
           j = 1 /\ v.cur # <<>> /\ v.cur[1] = q[1]
      /\ Found(v, key) => /\ v.cur # <<>> /\ v.cur[1] = q[1] /\ 1 \in DOMAIN q
                          /\ q[1].path = key.path /\ q[1].type # "U"
                          /\ key.type # "U"
  BY FoundFirst
<1>2. v.out \in Seq(Good) /\ Left(y) \in Seq(Good)
  BY <1>1 DEF Merged, Sound
<1>3. \A j \in DOMAIN Left(y) : RecLess(key, Left(y)[j])
  <2>1. CASE Found(v, key)
    <3>1. y = Drop(v) /\ v.cur # <<>> /\ 1 \in DOMAIN q
      BY <1>1, <2>1 DEF Taken
    <3>2. \A j \in DOMAIN Left(y) : RecLess(q[1], Left(y)[j])
      BY <1>1, <3>1, DropMerged
    <3>3. \A j \in DOMAIN Left(y) : Left(y)[j] \in Recs
      BY <1>2, GoodRecs
    <3>4. Same(key, q[1]) /\ q[1] \in Recs
      BY <1>1, <2>1, <3>1, GoodRecs DEF Same
    <3> HIDE DEF y, q
    <3> QED BY <3>2, <3>3, <3>4, LessSame
  <2>2. CASE ~Found(v, key)
    <3>1. y = v
      BY <2>2 DEF Taken
    <3>2. ASSUME NEW j \in DOMAIN q, Same(key, q[j]) PROVE FALSE
      <4>1. v.cur # <<>> /\ v.cur[1] = q[j] /\ q[j] \in Good /\ q[j].path = key.path
        BY <1>1, <3>2 DEF Same
      <4>2. q[j].type \notin DirTypes
        BY <4>1, GoodPlace
      <4> QED BY <2>2, <4>1, <4>2 DEF Found, RecEqual, DirTypes
    <3> QED BY <1>1, <3>1, <3>2 DEF AtMost
  <2> QED BY <2>1, <2>2
<1>4. FileRecs(q) = (IF Found(v, key) THEN One(q[1]) ELSE {}) \cup FileRecs(Left(y))
  <2>1. CASE Found(v, key)
    <3>1. y = Drop(v) /\ v.cur # <<>>
      BY <1>1, <2>1 DEF Taken
    <3> QED BY <1>1, <2>1, <3>1, DropMerged
  <2>2. CASE ~Found(v, key)
    <3>1. y = v
      BY <2>2 DEF Taken
    <3> QED BY <2>2, <3>1
  <2> QED BY <2>1, <2>2
<1>5. FileRecs(s.out \o Left(s)) = FileRecs(v.out) \cup FileRecs(q)
  <2>1. FileRecs(v.out \o q) = FileRecs(v.out) \cup FileRecs(q)
    BY <1>1, <1>2, FilesConcat
  <2> QED BY <2>1 DEF Sought
<1>6. FileRecs(y.out \o Left(y)) = FileRecs(v.out) \cup FileRecs(Left(y))
  BY <1>1, <1>2, FilesConcat
<1>7. ASSUME NEW w \in FileRecs(v.out) PROVE w.path # key.path
  <2>1. PICK i \in DOMAIN v.out : w = v.out[i]
    BY DEF FileRecs, Range
  <2>2. RecLess(w, key) /\ w \in Recs /\ w.type \notin DirTypes
    BY <1>2, <2>1, GoodRecs DEF Below, FileRecs
  <2>3. w.path = key.path => Same(w, key)
    BY <2>2 DEF Same, DirTypes
  <2> QED BY <2>2, <2>3, LessIrreflexive
<1>8. ASSUME NEW w \in FileRecs(Left(y)) PROVE w.path # key.path
  <2>1. PICK i \in DOMAIN Left(y) : w = Left(y)[i]
    BY DEF FileRecs, Range
  <2>2. RecLess(key, w) /\ w \in Recs /\ w.type \notin DirTypes
    BY <1>2, <1>3, <2>1, GoodRecs DEF FileRecs
  <2>3. w.path = key.path => Same(key, w)
    BY <2>2 DEF Same, DirTypes
  <2> QED BY <2>2, <2>3, LessIrreflexive
<1>9. Found(v, key) => \A w \in One(q[1]) : w.path = key.path
  BY <1>1 DEF One
<1> HIDE DEF y, q
<1>10. FileRecs(y.out \o Left(y)) = WithoutPath(FileRecs(s.out \o Left(s)), key.path)
  BY <1>4, <1>5, <1>6, <1>7, <1>8, <1>9 DEF WithoutPath
<1> QED BY <1>3, <1>10 DEF y

\* A mark that is taken out is not a file's record.
LEMMA TakeMark ==
    ASSUME NEW s, NEW v, NEW key \in Recs, Sought(s, key, v), key.path \in Dirs
    PROVE  LET y == Taken(v, key)
           IN FileRecs(y.out \o Left(y)) = FileRecs(s.out \o Left(s))
<1> DEFINE y == Taken(v, key)
           q == Left(v)
<1>1. /\ Merged(v) /\ Merged(y) /\ y.out = v.out /\ q \in Seq(Good)
      /\ Found(v, key) => /\ v.cur # <<>> /\ 1 \in DOMAIN q /\ q[1].path = key.path
  BY FoundFirst
<1>2. v.out \in Seq(Good) /\ Left(y) \in Seq(Good)
  BY <1>1 DEF Merged, Sound
<1>3. FileRecs(Left(y)) = FileRecs(q)
  <2>1. CASE Found(v, key)
    <3>1. y = Drop(v) /\ v.cur # <<>> /\ q[1] \in Good
      BY <1>1, <2>1 DEF Taken
    <3>2. FileRecs(q) = One(q[1]) \cup FileRecs(Left(y))
      BY <1>1, <3>1, DropMerged
    <3>3. One(q[1]) = {}
      BY <1>1, <2>1, <3>1, GoodPlace DEF One
    <3> HIDE DEF y, q
    <3> QED BY <3>2, <3>3
  <2>2. CASE ~Found(v, key)
    BY <2>2 DEF Taken
  <2> QED BY <2>1, <2>2
<1>4. FileRecs(s.out \o Left(s)) = FileRecs(v.out) \cup FileRecs(q)
  <2>1. FileRecs(v.out \o q) = FileRecs(v.out) \cup FileRecs(q)
    BY <1>1, <1>2, FilesConcat
  <2> QED BY <2>1 DEF Sought
<1>5. FileRecs(y.out \o Left(y)) = FileRecs(v.out) \cup FileRecs(Left(y))
  BY <1>1, <1>2, FilesConcat
<1> QED BY <1>3, <1>4, <1>5

\* The flag that the file has changed says nothing about the records.
LEMMA DirtyMerged ==
    ASSUME NEW y, Merged(y)
    PROVE  LET z == [y EXCEPT !.dirty = TRUE]
           IN /\ Merged(z) /\ Left(z) = Left(y) /\ z.out = y.out /\ z.pc = y.pc /\ z.cur = y.cur
              /\ z \in OpenSts(Recs)
<1> DEFINE z == [y EXCEPT !.dirty = TRUE]
<1>1. y \in OpenSts(Recs)
  BY DEF Merged
<1>2. /\ z \in OpenSts(Recs) /\ z.out = y.out /\ z.pc = y.pc /\ z.cur = y.cur /\ z.rd = y.rd
      /\ z.abort = y.abort
  BY <1>1 DEF OpenSts
<1> HIDE DEF z
<1>3. Left(z) = Left(y)
  BY <1>2 DEF Left
<1> QED BY <1>2, <1>3 DEF Merged, z

\* status_delete()
LEMMA DeleteMerged ==
    ASSUME NEW s, Merged(s), NEW p \in Files \cup Dirs,
           \/ Below(s.out, Key(p, FALSE))
           \/ \A j \in DOMAIN Left(s) : ~RecLess(Left(s)[j], Key(p, FALSE))
    PROVE  LET t == Delete(s, p, FALSE)
               key == Key(p, FALSE)
           IN /\ Merged(t)
              /\ p \in Dirs => FileRecs(t.out \o Left(t)) = FileRecs(s.out \o Left(s))
              /\ p \in Files /\ Below(s.out, key) =>
                   FileRecs(t.out \o Left(t)) = WithoutPath(FileRecs(s.out \o Left(s)), p)
              /\ Below(s.out, key) => Below(t.out, key)
              /\ Below(s.out, key) \/ t.out = s.out
              /\ Range(Left(t)) \subseteq Range(Left(s))
              /\ \A x \in Range(Left(t)) : ~RecLess(x, key)
              /\ ~t.dirty => /\ ~s.dirty
                             /\ FileRecs(t.out \o Left(t)) = FileRecs(s.out \o Left(s))
<1> DEFINE key == Key(p, FALSE)
           v == Seek(s, key, FALSE)
           y == Taken(v, key)
           t == Delete(s, p, FALSE)
<1>1. key \in Recs /\ key.path = p /\ key.type = "C"
  <2>1. p \in Paths /\ "" \in Words
    BY FilePaths, FolderFacts DEF Words
  <2> QED BY <2>1 DEF Key, Rec, Recs
<1>2. t = IF Found(v, key) THEN [y EXCEPT !.dirty = TRUE] ELSE y
  BY DEF Delete, Taken
<1>3. Below(s.out, key) \/ \A j \in DOMAIN Left(s) : ~RecLess(Left(s)[j], key)
  OBVIOUS
<1> HIDE DEF key
<1>4. Sought(s, key, v)
  BY <1>1, <1>3, SeekMerged
<1> HIDE DEF v
<1>5. /\ Merged(v) /\ Merged(y) /\ y.out = v.out
      /\ Range(Left(y)) \subseteq Range(Left(s))
  BY <1>1, <1>4, FoundFirst
<1>6. Range(Left(y)) \subseteq Range(Left(v))
  <2>1. CASE Found(v, key)
    <3>1. v.cur # <<>> /\ y = Drop(v)
      BY <2>1 DEF Found, Taken
    <3> QED BY <1>5, <3>1, DropMerged
  <2>2. CASE ~Found(v, key)
    BY <2>2 DEF Taken
  <2> QED BY <2>1, <2>2
<1>7. \A x \in Range(Left(y)) : ~RecLess(x, key)
  BY <1>4, <1>6 DEF Sought, Range
<1>8. p \in Dirs => FileRecs(y.out \o Left(y)) = FileRecs(s.out \o Left(s))
  BY <1>1, <1>4, TakeMark
<1>9. p \in Files /\ Below(s.out, key) =>
        FileRecs(y.out \o Left(y)) = WithoutPath(FileRecs(s.out \o Left(s)), p)
  <2>1. Below(s.out, key) => Below(v.out, key)
    BY <1>4 DEF Sought
  <2>2. key.type \notin DirTypes
    BY <1>1 DEF DirTypes
  <2> HIDE DEF y
  <2> QED BY <1>1, <1>4, <2>1, <2>2, TakeFile DEF y
<1>10. /\ Below(s.out, key) => Below(y.out, key)
       /\ Below(s.out, key) \/ y.out = s.out
  BY <1>4, <1>5 DEF Sought
<1>12. ~t.dirty => /\ ~s.dirty
                   /\ FileRecs(t.out \o Left(t)) = FileRecs(s.out \o Left(s))
  <2>1. CASE Found(v, key)
    <3>1. t = [y EXCEPT !.dirty = TRUE]
      BY <1>2, <2>1
    <3>2. y \in OpenSts(Recs)
      BY <1>5 DEF Merged
    <3> HIDE DEF y, t
    <3>3. t.dirty
      BY <3>1, <3>2 DEF OpenSts
    <3> QED BY <3>3
  <2>2. CASE ~Found(v, key)
    <3>1. t = v
      BY <1>2, <2>2 DEF Taken
    <3> QED BY <1>4, <3>1 DEF Sought
  <2> QED BY <2>1, <2>2
<1> HIDE DEF y, t
<1>11. Merged(t) /\ Left(t) = Left(y) /\ t.out = y.out
  BY <1>2, <1>5, DirtyMerged
<1> QED BY <1>5, <1>7, <1>8, <1>9, <1>10, <1>11, <1>12 DEF t, key

\* A mark in the place of another is the same mark.
LEMMA MarkPlace ==
    ASSUME NEW x \in Good, NEW r \in Good, Same(x, r), r.type \in DirTypes
    PROVE  SameMark(x, r)
<1>1. r.path \in Dirs /\ x.path = r.path
  BY DEF Good, Same
<1>2. x.type \in DirTypes
  BY <1>1, GoodPlace
<1> QED BY <1>1, <1>2 DEF SameMark, Same, DirTypes

\* What status_put() seeks.
LEMMA PutKey ==
    ASSUME NEW r \in Good
    PROVE  LET key == Key(r.path, r.type = "U")
           IN key \in Recs /\ key.path = r.path /\ Same(key, r)
              /\ (key.type = "U" <=> r.type = "U")
              /\ key.type \in {"U", "C"}
<1>1. r.path \in Paths /\ "" \in Words
  BY GoodRecs DEF Recs, Words
<1> QED BY <1>1 DEF Key, Rec, Recs, Same

\* Before status_put() writes: nothing is left in the place of a file.
Ready(s, r, y) ==
    /\ Merged(y) /\ Below(y.out, r)
    /\ \A j \in DOMAIN Left(y) :
         \/ RecLess(r, Left(y)[j])
         \/ /\ r.type \in DirTypes /\ j = 1 /\ y.cur # <<>> /\ SameMark(r, Left(y)[1])
    /\ FileRecs(y.out \o Left(y)) =
         IF r.type \in DirTypes THEN FileRecs(s.out \o Left(s))
         ELSE WithoutPath(FileRecs(s.out \o Left(s)), r.path)
    /\ Range(Left(y)) \subseteq Range(Left(s))

\* status_put() takes what is in the place of the record before it writes it.
LEMMA PutReady ==
    ASSUME NEW s, Merged(s), NEW r \in Good, Below(s.out, r)
    PROVE  \E y : Ready(s, r, y) /\ Put(s, r) = Write([y EXCEPT !.dirty = TRUE], r)
<1> DEFINE key == Key(r.path, r.type = "U")
           v == Seek(s, key, FALSE)
           t == IF ~Found(v, key) THEN v
                ELSE IF v.cur[1].type # "D" THEN Drop(v)
                ELSE IF r.type \in {"C", "c"} THEN DropDir(v, r.path)
                ELSE v
           y == IF r.type \in DirTypes THEN v ELSE Taken(v, key)
<1>1. key \in Recs /\ key.path = r.path /\ Same(key, r) /\ (key.type = "U" <=> r.type = "U")
      /\ key.type \in {"U", "C"} /\ r \in Recs
  BY PutKey, GoodRecs
<1>2. Put(s, r) = Write([t EXCEPT !.dirty = TRUE], r)
  BY DEF Put
<1> HIDE DEF key
<1>3. s.out \in Seq(Good)
  BY DEF Merged, Sound
<1>4. Below(s.out, key)
  BY <1>1, <1>3, GoodRecs, LessSame DEF Below
<1>5. Sought(s, key, v)
  BY <1>1, <1>4, SeekMerged
<1> HIDE DEF v
<1>6. /\ Merged(v) /\ Merged(Taken(v, key)) /\ Taken(v, key).out = v.out
      /\ Range(Left(Taken(v, key))) \subseteq Range(Left(s))
      /\ Left(v) \in Seq(Good)
      /\ \A j \in DOMAIN Left(v) : AtMost(key, Left(v)[j]) /\ Left(v)[j] \in Good
      /\ \A j \in DOMAIN Left(v) : Same(key, Left(v)[j]) =>
           j = 1 /\ v.cur # <<>> /\ v.cur[1] = Left(v)[1]
      /\ Found(v, key) => /\ v.cur # <<>> /\ v.cur[1] = Left(v)[1] /\ 1 \in DOMAIN Left(v)
                          /\ Left(v)[1].path = key.path /\ Left(v)[1].type # "U"
                          /\ key.type # "U"
  BY <1>1, <1>5, FoundFirst
<1>7. Below(v.out, key) /\ Below(v.out, r)
  <2>1. Below(v.out, key)
    BY <1>4, <1>5 DEF Sought
  <2>2. v.out \in Seq(Good)
    BY <1>6 DEF Merged, Sound
  <2> QED BY <1>1, <2>1, <2>2, GoodRecs, LessSame DEF Below
<1>8. t = y
  <2>1. CASE ~Found(v, key)
    BY <2>1 DEF Taken
  <2>2. CASE Found(v, key)
    <3>1. v.cur[1] \in Good /\ v.cur[1].path = r.path /\ v.cur[1].type # "U" /\ r.type # "U"
      BY <1>1, <1>6, <2>2
    <3>2. CASE r.type \in DirTypes
      <4>1. r.path \in Dirs
        BY <3>2 DEF Good
      <4>2. v.cur[1].type = "D"
        BY <3>1, <4>1, GoodPlace DEF DirTypes
      <4>3. r.type \notin {"C", "c"}
        BY <3>2 DEF DirTypes
      <4> QED BY <2>2, <3>2, <4>2, <4>3
    <3>3. CASE r.type \notin DirTypes
      <4>1. r.path \in Files
        BY <3>3 DEF Good
      <4>2. v.cur[1].type # "D"
        BY <3>1, <4>1, GoodPlace DEF DirTypes
      <4> QED BY <2>2, <3>3, <4>2 DEF Taken
    <3> QED BY <3>2, <3>3
  <2> QED BY <2>1, <2>2
<1>9. CASE r.type \in DirTypes
  <2>1. y = v
    BY <1>9
  <2>2. \A j \in DOMAIN Left(v) :
          RecLess(r, Left(v)[j]) \/ (j = 1 /\ v.cur # <<>> /\ SameMark(r, Left(v)[1]))
    <3> SUFFICES ASSUME NEW j \in DOMAIN Left(v)
                 PROVE  \/ RecLess(r, Left(v)[j])
                        \/ j = 1 /\ v.cur # <<>> /\ SameMark(r, Left(v)[1])
      OBVIOUS
    <3>1. CASE RecLess(key, Left(v)[j])
      BY <1>1, <1>6, <3>1, GoodRecs, LessSame
    <3>2. CASE Same(key, Left(v)[j])
      <4>1. Left(v)[j] \in Good /\ Same(Left(v)[j], r)
        BY <1>1, <1>6, <3>2 DEF Same
      <4>2. SameMark(Left(v)[j], r)
        BY <1>9, <4>1, MarkPlace
      <4>3. SameMark(r, Left(v)[j])
        BY <4>2 DEF SameMark
      <4> QED BY <1>6, <3>2, <4>3
    <3> QED BY <1>6, <3>1, <3>2 DEF AtMost
  <2>3. FileRecs(v.out \o Left(v)) = FileRecs(s.out \o Left(s))
        /\ Range(Left(v)) \subseteq Range(Left(s))
    BY <1>5 DEF Sought
  <2>4. Ready(s, r, v)
    BY <1>6, <1>7, <1>9, <2>2, <2>3 DEF Ready
  <2> QED BY <1>2, <1>8, <2>1, <2>4
<1>10. CASE r.type \notin DirTypes
  <2>1. y = Taken(v, key)
    BY <1>10
  <2>2. key.path \in Files /\ key.type \notin DirTypes
    BY <1>1, <1>10 DEF Good, DirTypes
  <2> DEFINE x == Taken(v, key)
  <2>3. /\ \A j \in DOMAIN Left(x) : RecLess(key, Left(x)[j])
        /\ FileRecs(x.out \o Left(x)) = WithoutPath(FileRecs(s.out \o Left(s)), key.path)
    BY <1>1, <1>5, <1>7, <2>2, TakeFile
  <2>4. Merged(x) /\ x.out = v.out /\ Range(Left(x)) \subseteq Range(Left(s))
    BY <1>6
  <2> HIDE DEF x
  <2>5. \A j \in DOMAIN Left(x) : RecLess(r, Left(x)[j])
    <3>1. \A j \in DOMAIN Left(x) : Left(x)[j] \in Recs
      BY <2>4, GoodRecs DEF Merged
    <3> QED BY <1>1, <2>3, <3>1, LessSame
  <2>6. Ready(s, r, x)
    BY <1>1, <1>7, <1>10, <2>3, <2>4, <2>5 DEF Ready
  <2> QED BY <1>2, <1>8, <2>1, <2>6 DEF x
<1> QED BY <1>9, <1>10

\* status_put()
LEMMA PutMerged ==
    ASSUME NEW s, Merged(s), NEW r \in Good, Below(s.out, r)
    PROVE  LET t == Put(s, r)
           IN /\ Merged(t)
              /\ FileRecs(t.out \o Left(t)) =
                   IF r.type \in DirTypes THEN FileRecs(s.out \o Left(s))
                   ELSE WithoutPath(FileRecs(s.out \o Left(s)), r.path) \cup {r}
              /\ \A i \in DOMAIN t.out : AtMost(t.out[i], r)
              /\ Range(Left(t)) \subseteq Range(Left(s))
              /\ t.dirty
<1> DEFINE t == Put(s, r)
<1>1. PICK y : Ready(s, r, y) /\ t = Write([y EXCEPT !.dirty = TRUE], r)
  BY PutReady
<1> DEFINE z == [y EXCEPT !.dirty = TRUE]
<1>2. t = Write(z, r)
  BY <1>1
<1>3. Merged(y)
  BY <1>1 DEF Ready
<1>4. /\ Merged(z) /\ Left(z) = Left(y) /\ z.out = y.out /\ z.cur = y.cur
      /\ z \in OpenSts(Recs)
  BY <1>3, DirtyMerged
<1>22. z.dirty
  <2>1. y \in OpenSts(Recs)
    BY <1>3 DEF Merged
  <2> QED BY <2>1 DEF OpenSts
<1> HIDE DEF z, t
<1>5. Below(z.out, r) /\ r \in Recs
  BY <1>1, <1>4, GoodRecs DEF Ready
<1>6. Sound(z.pc, z.out)
  BY <1>4 DEF Merged
<1>7. z.out # <<>> => RecLess(z.out[Len(z.out)], r)
  <2>1. z.out # <<>> => Len(z.out) \in DOMAIN z.out
    BY <1>6, SoundLast
  <2> QED BY <1>5, <2>1 DEF Below
<1>8. PICK e : Wrote(z, r, t, e)
  BY <1>2, <1>4, <1>6, <1>7, WriteSound
<1>9. /\ e \in Seq(Good) /\ t = [z EXCEPT !.pc = Target(r), !.out = z.out \o e]
      /\ Sound(Target(r), z.out \o e)
  BY <1>8 DEF Wrote
<1>10. z = [rd |-> z.rd, cur |-> z.cur, pc |-> z.pc, out |-> z.out,
            dirty |-> z.dirty, scan |-> z.scan, abort |-> z.abort]
  BY <1>4 DEF OpenSts
<1>11. /\ t.out = z.out \o e /\ t.pc = Target(r) /\ t.cur = z.cur /\ t.rd = z.rd
       /\ t.abort = z.abort /\ Left(t) = Left(y)
  <2>1. /\ t.out = z.out \o e /\ t.pc = Target(r) /\ t.cur = z.cur /\ t.rd = z.rd
        /\ t.abort = z.abort
    BY <1>9, <1>10
  <2>2. Left(t) = Left(z)
    BY <2>1 DEF Left
  <2> QED BY <1>4, <2>1, <2>2
<1>12. t \in OpenSts(Recs)
  BY <1>2, <1>4, <1>5, GoodRecs, WriteType
<1>13. \A i \in DOMAIN t.out : AtMost(t.out[i], r) /\ t.out[i] \in Good /\ t.out[i] \in Recs
  <2> DEFINE o == z.out \o e
  <2>1. o # <<>> => LET l == o[Len(o)]
                    IN \/ RecLess(l, r) \/ SameMark(l, r)
                       \/ r.type \notin DirTypes /\ l = r
    BY <1>8 DEF Wrote
  <2>2. Sound(Target(r), o) /\ t.out = o
    BY <1>9, <1>11
  <2> HIDE DEF o
  <2>3. Same(r, r)
    BY DEF Same
  <2>4. o # <<>> => AtMost(o[Len(o)], r)
    BY <2>1, <2>3, MarkSame DEF AtMost
  <2> QED BY <1>5, <2>2, <2>4, LastAtMost, SoundLast
<1>14. Left(y) \in Seq(Good) /\ \A j \in DOMAIN Left(y) : Left(y)[j] \in Recs
  BY <1>3, GoodRecs DEF Merged
<1>15. \A i \in DOMAIN t.out, j \in DOMAIN Left(t) :
         \/ RecLess(t.out[i], Left(t)[j])
         \/ j = 1 /\ t.cur # <<>> /\ SameMark(t.out[i], Left(t)[1])
  <2> SUFFICES ASSUME NEW i \in DOMAIN t.out, NEW j \in DOMAIN Left(y)
               PROVE  \/ RecLess(t.out[i], Left(y)[j])
                      \/ j = 1 /\ y.cur # <<>> /\ SameMark(t.out[i], Left(y)[1])
    BY <1>4, <1>11
  <2>1. CASE RecLess(r, Left(y)[j])
    BY <1>5, <1>13, <1>14, <2>1, AtMostLess
  <2>2. CASE r.type \in DirTypes /\ j = 1 /\ y.cur # <<>> /\ SameMark(r, Left(y)[1])
    <3>1. Same(r, Left(y)[1]) /\ Left(y)[1] \in Recs
      BY <1>14, <2>2, MarkSame
    <3>2. CASE RecLess(t.out[i], r)
      BY <1>5, <1>13, <2>2, <3>1, <3>2, LessSame
    <3>3. CASE Same(t.out[i], r)
      <4>1. SameMark(t.out[i], r)
        BY <1>13, <2>2, <3>3, MarkPlace
      <4>2. SameMark(t.out[i], Left(y)[1])
        BY <2>2, <4>1 DEF SameMark
      <4> QED BY <2>2, <4>2
    <3> QED BY <1>13, <3>2, <3>3 DEF AtMost
  <2> QED BY <1>1, <2>1, <2>2 DEF Ready
<1>16. Merged(t)
  <2>1. Left(t) = Left(z)
    BY <1>4, <1>11
  <2>2. Sound(t.pc, t.out)
    BY <1>9, <1>11
  <2> QED BY <1>4, <1>11, <1>12, <1>15, <2>1, <2>2 DEF Merged
<1>17. FileRecs(t.out \o Left(t)) = FileRecs(y.out \o Left(y)) \cup One(r)
  <2>1. y.out \in Seq(Good) /\ t.out \in Seq(Good)
    BY <1>3, <1>16 DEF Merged, Sound
  <2> DEFINE a == t.out
             l == Left(y)
             o == y.out
  <2>6. Left(y) \in Seq(Good)
    BY <1>14
  <2>2. FileRecs(t.out \o Left(t)) = FileRecs(t.out) \cup FileRecs(Left(y))
    <3>1. a \in Seq(Good) /\ l \in Seq(Good) /\ Left(t) = l
      BY <1>11, <2>1, <2>6
    <3> HIDE DEF a, l
    <3>2. FileRecs(a \o l) = FileRecs(a) \cup FileRecs(l)
      BY <3>1, FilesConcat
    <3> QED BY <3>1, <3>2 DEF a, l
  <2>3. FileRecs(t.out) = FileRecs(y.out) \cup FileRecs(e)
    BY <1>4, <1>9, <1>11, <2>1, FilesConcat
  <2>4. FileRecs(e) = One(r)
    BY <1>8, FilesWrote
  <2>5. FileRecs(y.out \o Left(y)) = FileRecs(y.out) \cup FileRecs(Left(y))
    <3>1. o \in Seq(Good) /\ l \in Seq(Good)
      BY <2>1, <2>6
    <3> HIDE DEF o, l
    <3>2. FileRecs(o \o l) = FileRecs(o) \cup FileRecs(l)
      BY <3>1, FilesConcat
    <3> QED BY <3>2 DEF o, l
  <2> QED BY <2>2, <2>3, <2>4, <2>5
<1>18. /\ FileRecs(y.out \o Left(y)) =
            IF r.type \in DirTypes THEN FileRecs(s.out \o Left(s))
            ELSE WithoutPath(FileRecs(s.out \o Left(s)), r.path)
       /\ Range(Left(y)) \subseteq Range(Left(s))
  BY <1>1 DEF Ready
<1>19. FileRecs(t.out \o Left(t)) =
         IF r.type \in DirTypes THEN FileRecs(s.out \o Left(s))
         ELSE WithoutPath(FileRecs(s.out \o Left(s)), r.path) \cup {r}
  <2>1. CASE r.type \in DirTypes
    <3>1. One(r) = {}
      BY <2>1 DEF One
    <3> QED BY <1>17, <1>18, <2>1, <3>1
  <2>2. CASE r.type \notin DirTypes
    <3>1. One(r) = {r}
      BY <2>2 DEF One
    <3> QED BY <1>17, <1>18, <2>2, <3>1
  <2> QED BY <2>1, <2>2
<1>20. Range(Left(t)) \subseteq Range(Left(s))
  BY <1>11, <1>18
<1>21. \A i \in DOMAIN t.out : AtMost(t.out[i], r)
  BY <1>13
<1>23. t.dirty
  BY <1>9, <1>10, <1>22
<1> QED BY <1>16, <1>19, <1>20, <1>21, <1>23 DEF t

\* status_open()
LEMMA OpenMerged ==
    ASSUME NEW file, file \in [scan : Int, recs : Seq(Good), whole : BOOLEAN],
           Linked(<<>>, file.recs), Increasing(file.recs), NEW n \in Int
    PROVE  LET t == Open(file, n)
           IN /\ Merged(t) /\ t.out = <<>> /\ Left(t) = file.recs
              /\ t.out \o Left(t) = file.recs
<1> DEFINE t == Open(file, n)
           q == file.recs
<1>1. q \in Seq(Good) /\ q \in Seq(Recs)
  BY GoodRecs
<1>2. t \in OpenSts(Recs)
  BY <1>1, OpenType
<1>3. t.out = <<>> /\ t.cur = <<>> /\ t.rd = q /\ t.pc = <<>> /\ ~t.abort
  BY DEF Open
<1> HIDE DEF t
<1>4. <<>> \o q = q
  BY <1>1
<1>5. Left(t) = q
  BY <1>3, <1>4 DEF Left
<1>6. Sound(<<>>, <<>>)
  BY DEF Sound, Linked, Increasing, End
<1>7. Chained(q)
  BY DEF Linked, Chained, From
<1>8. Len(<<>>) <= 1 /\ DOMAIN <<>> = {}
  OBVIOUS
<1>9. Merged(t)
  BY <1>1, <1>2, <1>3, <1>5, <1>6, <1>7, <1>8 DEF Merged
<1> QED BY <1>3, <1>4, <1>5, <1>9 DEF t

\* status_close()
LEMMA FinishMerged ==
    ASSUME NEW s, Merged(s), ~Finish(s).abort
    PROVE  /\ Sound(<<>>, Finish(s).out)
           /\ FileRecs(Finish(s).out) = FileRecs(s.out \o Left(s))
<1> DEFINE q == Left(s)
           u == IF s.cur = <<>> THEN s ELSE Write(s, s.cur[1])
           t == FoldLeft(WriteRaw, u, s.rd)
           e == Ups(t.pc, 0, Bogus)
<1>1. /\ s \in OpenSts(Recs) /\ Sound(s.pc, s.out) /\ ~s.abort
      /\ q \in Seq(Good) /\ Increasing(q) /\ Chained(q)
      /\ \A i \in DOMAIN s.out, j \in DOMAIN q :
           RecLess(s.out[i], q[j]) \/ (j = 1 /\ s.cur # <<>> /\ SameMark(s.out[i], q[1]))
  BY DEF Merged
<1>2. Finish(s) = [t EXCEPT !.cur = <<>>, !.rd = <<>>, !.pc = <<>>, !.out = t.out \o e]
  BY DEF Finish
<1>3. s.cur \in Seq(Recs) /\ s.rd \in Seq(Recs)
  BY <1>1 DEF OpenSts
<1>4. u \in OpenSts(Recs)
  <2>1. s.cur # <<>> => s.cur[1] \in Recs
    BY <1>3
  <2>2. s.cur # <<>> => Write(s, s.cur[1]) \in OpenSts(Recs)
    BY <1>1, <2>1, GoodRecs, WriteType
  <2> QED BY <1>1, <2>2
<1>5. t \in OpenSts(Recs)
  <2>1. \A v \in OpenSts(Recs), x \in Recs : WriteRaw(v, x) \in OpenSts(Recs)
    BY WriteRawType, GoodRecs
  <2> HIDE DEF u
  <2> QED BY <1>3, <1>4, <2>1, RawFold
<1>6. Finish(s).abort = t.abort /\ Finish(s).out = t.out \o e
  <2> HIDE DEF t, e
  <2>1. t = [rd |-> t.rd, cur |-> t.cur, pc |-> t.pc, out |-> t.out,
             dirty |-> t.dirty, scan |-> t.scan, abort |-> t.abort]
    BY <1>5 DEF OpenSts
  <2> QED BY <1>2, <2>1
<1>7. Sound(t.pc, t.out) /\ FileRecs(t.out) = FileRecs(s.out) \cup FileRecs(q)
  <2>1. CASE s.cur # <<>>
    <3>1. q # <<>> /\ Tail(q) = s.rd /\ s.cur[1] = q[1]
      BY <2>1, DropMerged
    <3> DEFINE v == FoldLeft(WriteRaw, Write(s, q[1]), Tail(q))
    <3>2. t = v
      BY <2>1, <3>1
    <3>3. \A i \in DOMAIN s.out, j \in DOMAIN q :
            RecLess(s.out[i], q[j]) \/ (j = 1 /\ SameMark(s.out[i], q[1]))
      BY <1>1
    <3>4. Sound(v.pc, v.out) /\ FileRecs(v.out) = FileRecs(s.out) \cup FileRecs(q)
      BY <1>1, <3>1, <3>3, CopyPassed
    <3> QED BY <3>2, <3>4
  <2>2. CASE s.cur = <<>>
    <3>1. q = s.rd
      <4>1. <<>> \o s.rd = s.rd
        BY <1>3
      <4> QED BY <2>2, <4>1 DEF Left
    <3> DEFINE v == FoldLeft(WriteRaw, s, q)
    <3>2. t = v
      BY <2>2, <3>1
    <3>3. ~v.abort
      BY <1>6, <3>2
    <3>4. q \in Seq(Recs)
      BY <1>3, <3>1
    <3>5. Linked(s.pc, q) /\ v = Copied(s, q)
      BY <1>1, <3>3, <3>4, RawCopy
    <3>6. v.pc = End(s.pc, q) /\ v.out = s.out \o q
      BY <1>1, <3>5 DEF Copied, OpenSts
    <3>7. Sound(End(s.pc, q), s.out \o q)
      BY <1>1, <2>2, <3>5, SoundConcat
    <3>8. FileRecs(s.out \o q) = FileRecs(s.out) \cup FileRecs(q)
      <4>1. s.out \in Seq(Good)
        BY <1>1 DEF Sound
      <4> QED BY <1>1, <4>1, FilesConcat
    <3> QED BY <3>2, <3>6, <3>7, <3>8
  <2> QED BY <2>1, <2>2
<1> HIDE DEF t, q
<1>8. Sound(SubSeq(t.pc, 1, 0), t.out \o e) /\ e \in Seq(Good)
      /\ \A i \in DOMAIN e : e[i].type = "U"
  <2>1. 0 \in 0..Len(t.pc) /\ Bogus \in Words
    <3>1. Len(t.pc) \in Nat
      BY <1>5 DEF OpenSts
    <3> QED BY <3>1 DEF Words
  <2> QED BY <1>7, <2>1, UpsSound
<1>9. SubSeq(t.pc, 1, 0) = <<>>
  BY SubSeqEmpty
<1>10. FileRecs(t.out \o e) = FileRecs(s.out \o Left(s))
  <2>1. t.out \in Seq(Good) /\ s.out \in Seq(Good)
    BY <1>1, <1>7 DEF Sound
  <2>2. FileRecs(e) = {}
    BY <1>8 DEF FileRecs, Range, DirTypes
  <2> HIDE DEF e
  <2>3. FileRecs(t.out \o e) = FileRecs(t.out) \cup FileRecs(e)
    BY <1>8, <2>1, FilesConcat
  <2>4. FileRecs(s.out \o q) = FileRecs(s.out) \cup FileRecs(q)
    BY <1>1, <2>1, FilesConcat
  <2> QED BY <1>7, <2>2, <2>3, <2>4 DEF q
<1> QED BY <1>6, <1>8, <1>9, <1>10

-----------------------------------------------------------------------------
(* What status_rdraw() checks *)

\* The records of one kind up to the next record.
UpTo(recs, i, t) == {j \in 1..i : recs[j].type = t}

\* Their number, from one record to the next.
LEMMA UpToNext ==
    ASSUME NEW recs, NEW i \in Nat, NEW t
    PROVE  /\ IsFiniteSet(UpTo(recs, i, t)) /\ Cardinality(UpTo(recs, i, t)) \in Nat
           /\ Cardinality(UpTo(recs, i + 1, t)) =
                Cardinality(UpTo(recs, i, t)) + (IF recs[i + 1].type = t THEN 1 ELSE 0)
<1> DEFINE S == UpTo(recs, i, t)
           T == UpTo(recs, i + 1, t)
<1>1. IsFiniteSet(S) /\ Cardinality(S) \in Nat
  <2>1. IsFiniteSet(1..i)
    BY FS_Interval
  <2>2. S \subseteq 1..i
    BY DEF UpTo
  <2> HIDE DEF S
  <2> QED BY <2>1, <2>2, FS_Subset, FS_CardinalityType
<1>2. \A j : j \in 1..(i + 1) <=> j \in 1..i \/ j = i + 1
  OBVIOUS
<1>3. i + 1 \notin S
  BY DEF UpTo
<1>4. CASE recs[i + 1].type = t
  <2>1. T = S \cup {i + 1}
    BY <1>2, <1>4 DEF UpTo
  <2> HIDE DEF S, T
  <2>2. Cardinality(T) = Cardinality(S) + 1
    BY <1>1, <1>3, <2>1, FS_AddElement
  <2> QED BY <1>1, <1>4, <2>2 DEF S, T
<1>5. CASE recs[i + 1].type # t
  <2>1. T = S
    BY <1>2, <1>5 DEF UpTo
  <2> QED BY <1>1, <1>5, <2>1
<1> QED BY <1>4, <1>5

\* The depth that status_rdraw() counts is that of the compressor's directory.
LEMMA DepthIs ==
    ASSUME NEW recs \in Seq(Good), Linked(<<>>, recs)
    PROVE  \A i \in 0..Len(recs) :
             /\ From(<<>>, recs, i + 1) \in Seq(Nat)
             /\ Depth(recs, i) = Len(From(<<>>, recs, i + 1))
<1> DEFINE F(i) == From(<<>>, recs, i + 1)
           P(i) == i \in 0..Len(recs) => F(i) \in Seq(Nat) /\ Depth(recs, i) = Len(F(i))
           Z == {i \in Nat : P(i)}
           d(i) == Cardinality(UpTo(recs, i, "D"))
           u(i) == Cardinality(UpTo(recs, i, "U"))
<1>1. \A i : Depth(recs, i) = d(i) - u(i)
  BY DEF Depth, UpTo
<1>2. 0 \in Z
  <2>1. UpTo(recs, 0, "D") = {} /\ UpTo(recs, 0, "U") = {}
    BY DEF UpTo
  <2>2. d(0) = 0 /\ u(0) = 0
    BY <2>1, FS_EmptySet
  <2>3. F(0) = <<>> /\ <<>> \in Seq(Nat) /\ Len(<<>>) = 0
    BY DEF From
  <2>4. Depth(recs, 0) = 0
    BY <1>1, <2>2
  <2> QED BY <2>3, <2>4
<1>3. \A i \in Nat : i \in Z => i + 1 \in Z
  <2> SUFFICES ASSUME NEW i \in Nat, P(i), i + 1 \in 0..Len(recs)
               PROVE  F(i + 1) \in Seq(Nat) /\ Depth(recs, i + 1) = Len(F(i + 1))
    OBVIOUS
  <2> DEFINE r == recs[i + 1]
             f == F(i)
             t == Target(r)
  <2>1. i + 1 \in DOMAIN recs /\ i \in 0..Len(recs) /\ r \in Good
    OBVIOUS
  <2>2. f \in Seq(Nat) /\ Depth(recs, i) = Len(f)
    BY <2>1
  <2>3. Sync(f, r)
    BY <2>1 DEF Linked
  <2>4. F(i + 1) = t
    <3>1. i + 1 + 1 # 1 /\ (i + 1 + 1) - 1 = i + 1
      OBVIOUS
    <3> QED BY <3>1 DEF From
  <2>5. /\ d(i) \in Nat /\ u(i) \in Nat
        /\ d(i + 1) = d(i) + (IF r.type = "D" THEN 1 ELSE 0)
        /\ u(i + 1) = u(i) + (IF r.type = "U" THEN 1 ELSE 0)
    BY UpToNext
  <2> HIDE DEF f, r, t, d, u, F
  <2>6. t \in Seq(Nat) /\ Len(t) \in Nat /\ Len(f) \in Nat
    BY <2>1, <2>2, Targets DEF t
  <2>7. Len(t) = Len(f) + (IF r.type = "D" THEN 1 ELSE 0) - (IF r.type = "U" THEN 1 ELSE 0)
    <3>1. r.path \in Seq(Nat) /\ r.path # <<>>
      BY <2>1, Targets
    <3>2. Len(Front(r.path)) = Len(r.path) - 1 /\ Len(r.path) \in Nat
      BY <3>1, FrontPiece
    <3>3. CASE r.type = "D"
      <4>1. f = Front(r.path) /\ t = r.path
        BY <2>3, <3>3 DEF Sync, InSync, t, Target
      <4> QED BY <2>6, <3>2, <3>3, <4>1
    <3>4. CASE r.type = "U"
      <4>1. f # <<>> /\ Front(f) = Front(r.path) /\ t = Front(r.path)
        BY <2>3, <3>4 DEF Sync, InSync, t, Target
      <4>2. Len(Front(f)) = Len(f) - 1
        BY <2>2, <4>1, FrontPiece
      <4> QED BY <2>6, <3>4, <4>1, <4>2
    <3>5. CASE r.type # "D" /\ r.type # "U"
      <4>1. f = Front(r.path) /\ t = Front(r.path)
        BY <2>3, <3>5 DEF Sync, InSync, t, Target
      <4> QED BY <2>6, <3>5, <4>1
    <3> QED BY <3>3, <3>4, <3>5
  <2>8. Depth(recs, i) = d(i) - u(i) /\ Depth(recs, i + 1) = d(i + 1) - u(i + 1)
    BY <1>1
  <2>9. Depth(recs, i + 1) = Len(t)
    <3>1. d(i) - u(i) = Len(f)
      BY <2>2, <2>8
    <3>2. CASE r.type = "D"
      <4>1. r.type # "U"
        BY <3>2
      <4> QED BY <2>5, <2>6, <2>7, <2>8, <3>1, <3>2, <4>1
    <3>3. CASE r.type = "U"
      <4>1. r.type # "D"
        BY <3>3
      <4> QED BY <2>5, <2>6, <2>7, <2>8, <3>1, <3>3, <4>1
    <3>4. CASE r.type # "D" /\ r.type # "U"
      BY <2>5, <2>6, <2>7, <2>8, <3>1, <3>4
    <3> QED BY <3>2, <3>3, <3>4
  <2> QED BY <2>4, <2>6, <2>9
<1> HIDE DEF P
<1>4. Nat \subseteq Z
  <2> HIDE DEF Z
  <2> QED BY <1>2, <1>3, NatSet
<1> QED BY <1>4 DEF P

\* What status_close() writes passes the checks of status_rdraw().
LEMMA SoundReadable ==
    ASSUME NEW recs, Sound(<<>>, recs)
    PROVE  Readable(recs)
<1>1. /\ recs \in Seq(Good) /\ Linked(<<>>, recs) /\ Increasing(recs)
      /\ End(<<>>, recs) = <<>> /\ Len(recs) \in Nat
  BY DEF Sound
<1>2. \A i \in 2..Len(recs) : RecLess(recs[i - 1], recs[i])
  <2> SUFFICES ASSUME NEW i \in 2..Len(recs)
               PROVE  RecLess(recs[i - 1], recs[i])
    OBVIOUS
  <2>1. i - 1 \in DOMAIN recs /\ i \in DOMAIN recs /\ i - 1 < i
    BY <1>1
  <2> QED BY <1>1, <2>1 DEF Increasing
<1>3. \A i \in DOMAIN recs : Depth(recs, i) >= 0
  <2> SUFFICES ASSUME NEW i \in DOMAIN recs
               PROVE  Depth(recs, i) >= 0
    OBVIOUS
  <2> DEFINE f == From(<<>>, recs, i + 1)
  <2>1. f \in Seq(Nat) /\ Depth(recs, i) = Len(f)
    BY <1>1, DepthIs
  <2> HIDE DEF f
  <2> QED BY <2>1
<1>4. Depth(recs, Len(recs)) = 0
  <2>1. Depth(recs, Len(recs)) = Len(From(<<>>, recs, Len(recs) + 1))
    BY <1>1, DepthIs
  <2>2. From(<<>>, recs, Len(recs) + 1) = End(<<>>, recs)
    <3>1. recs = <<>> => Len(recs) + 1 = 1
      BY <1>1
    <3>2. recs # <<>> => Len(recs) + 1 # 1 /\ (Len(recs) + 1) - 1 = Len(recs)
      BY <1>1
    <3> QED BY <3>1, <3>2 DEF From, End
  <2>3. Len(<<>>) = 0
    OBVIOUS
  <2> QED BY <1>1, <2>1, <2>2, <2>3
<1> QED BY <1>2, <1>3, <1>4 DEF Readable

\* No file has two records, in the new file and the old together.
LEMMA MergedOnce ==
    ASSUME NEW s, Merged(s)
    PROVE  LET recs == s.out \o Left(s)
           IN \A i, j \in DOMAIN recs :
                i # j /\ recs[i].type \notin DirTypes => recs[i].path # recs[j].path
<1> DEFINE a == s.out
           b == Left(s)
           recs == a \o b
           n == Len(a)
<1>1. /\ a \in Seq(Good) /\ b \in Seq(Good) /\ Increasing(a) /\ Increasing(b)
      /\ \A i \in DOMAIN a, j \in DOMAIN b :
           RecLess(a[i], b[j]) \/ SameMark(a[i], b[j])
  BY DEF Merged, Sound
<1> HIDE DEF a, b
<1>2. /\ Len(a) \in Nat /\ Len(b) \in Nat
      /\ DOMAIN a = 1..Len(a) /\ DOMAIN b = 1..Len(b)
      /\ DOMAIN (a \o b) = 1..(Len(a) + Len(b))
      /\ \A i \in 1..Len(a) : (a \o b)[i] = a[i] /\ a[i] \in Good
      /\ \A i \in 1..Len(b) : (a \o b)[Len(a) + i] = b[i] /\ b[i] \in Good
      /\ \A i \in 1..(Len(a) + Len(b)) : i \in 1..Len(a) \/ i - Len(a) \in 1..Len(b)
  BY <1>1, ConcatIs
<1>3. \A i, j \in DOMAIN recs : i < j =>
        /\ recs[i] \in Good /\ recs[j] \in Good
        /\ RecLess(recs[i], recs[j]) \/ SameMark(recs[i], recs[j])
  <2> SUFFICES ASSUME NEW i \in DOMAIN recs, NEW j \in DOMAIN recs, i < j
               PROVE  /\ recs[i] \in Good /\ recs[j] \in Good
                      /\ RecLess(recs[i], recs[j]) \/ SameMark(recs[i], recs[j])
    OBVIOUS
  <2>1. i \in Int /\ j \in Int
    BY <1>2
  <2>2. CASE i \in 1..Len(a) /\ j \in 1..Len(a)
    BY <1>1, <1>2, <2>2 DEF Increasing
  <2>3. CASE i \in 1..Len(a) /\ j \notin 1..Len(a)
    <3> DEFINE k == j - Len(a)
    <3>1. k \in 1..Len(b) /\ j = Len(a) + k
      BY <1>2, <2>3
    <3> HIDE DEF k
    <3>2. recs[j] = b[k] /\ recs[i] = a[i]
      BY <1>2, <2>3, <3>1
    <3> QED BY <1>1, <1>2, <2>3, <3>1, <3>2
  <2>4. CASE i \notin 1..Len(a)
    <3> DEFINE k == j - Len(a)
               m == i - Len(a)
    <3>1. m \in 1..Len(b) /\ i = Len(a) + m
      BY <1>2, <2>4
    <3>2. j \notin 1..Len(a)
      BY <1>2, <2>1, <2>4
    <3>3. k \in 1..Len(b) /\ j = Len(a) + k
      BY <1>2, <3>2
    <3>4. m < k
      BY <1>2, <2>1
    <3> HIDE DEF k, m
    <3>5. recs[j] = b[k] /\ recs[i] = b[m]
      BY <1>2, <3>1, <3>3
    <3> QED BY <1>1, <1>2, <3>1, <3>3, <3>4, <3>5 DEF Increasing
  <2> QED BY <2>2, <2>3, <2>4
<1> HIDE DEF recs
<1>4. \A x, y \in Good : x.path = y.path /\ x.type \notin DirTypes =>
        y.type \notin DirTypes /\ ~RecLess(x, y) /\ ~SameMark(x, y)
  <2> SUFFICES ASSUME NEW x \in Good, NEW y \in Good, x.path = y.path, x.type \notin DirTypes
               PROVE  y.type \notin DirTypes /\ ~RecLess(x, y) /\ ~SameMark(x, y)
    OBVIOUS
  <2>1. x.path \in Files /\ x \in Recs /\ y \in Recs
    BY DEF Good
  <2>2. y.type \notin DirTypes
    BY <2>1, FolderFacts DEF Good
  <2>3. Same(x, y)
    BY <2>2 DEF Same, DirTypes
  <2> QED BY <2>1, <2>2, <2>3, LessIrreflexive DEF SameMark
<1>5. \A i, j \in DOMAIN recs : i # j => i < j \/ j < i
  BY <1>2 DEF recs
<1>6. SUFFICES ASSUME NEW i \in DOMAIN recs, NEW j \in DOMAIN recs, i # j,
                      recs[i].type \notin DirTypes, recs[i].path = recs[j].path
               PROVE  FALSE
  BY DEF recs, a, b
<1>7. CASE i < j
  BY <1>3, <1>4, <1>6, <1>7
<1>8. CASE j < i
  <2>1. recs[j].type \notin DirTypes
    BY <1>3, <1>4, <1>6, <1>8
  <2> QED BY <1>3, <1>4, <1>6, <1>8, <2>1
<1> QED BY <1>5, <1>6, <1>7, <1>8

-----------------------------------------------------------------------------
(* A set in its order *)

\* The members of a set that come before one of them, in an order given as a
\* set of pairs.
Earlier(S, R, x) == {y \in S : <<y, x>> \in R}
LinearOn(S, R) ==
    /\ \A x \in S : <<x, x>> \notin R
    /\ \A x, y, z \in S : <<x, y>> \in R /\ <<y, z>> \in R => <<x, z>> \in R
    /\ \A x, y \in S : x = y \/ <<x, y>> \in R \/ <<y, x>> \in R
\* Their number tells where a member belongs.
LEMMA EarlierCount ==
    ASSUME NEW S, IsFiniteSet(S), NEW R, LinearOn(S, R), NEW x \in S
    PROVE  /\ IsFiniteSet(Earlier(S, R, x))
           /\ Cardinality(Earlier(S, R, x)) \in 0..(Cardinality(S) - 1)
           /\ \A y \in S : <<x, y>> \in R =>
                Cardinality(Earlier(S, R, x)) < Cardinality(Earlier(S, R, y))
<1> DEFINE E(y) == Earlier(S, R, y)
<1>1. \A y \in S : IsFiniteSet(E(y)) /\ Cardinality(E(y)) \in Nat
                   /\ Cardinality(E(y)) <= Cardinality(S)
  <2> SUFFICES ASSUME NEW y \in S
               PROVE  IsFiniteSet(E(y)) /\ Cardinality(E(y)) \in Nat
                      /\ Cardinality(E(y)) <= Cardinality(S)
    OBVIOUS
  <2>1. E(y) \in SUBSET S
    BY DEF Earlier
  <2> HIDE DEF E
  <2> QED BY <2>1, FS_Subset, FS_CardinalityType
<1>2. Cardinality(E(x)) # Cardinality(S)
  <2>1. E(x) \in SUBSET S /\ x \notin E(x)
    BY DEF Earlier, LinearOn
  <2> HIDE DEF E
  <2> QED BY <2>1, FS_Subset
<1>3. \A y \in S : <<x, y>> \in R => Cardinality(E(x)) < Cardinality(E(y))
  <2> SUFFICES ASSUME NEW y \in S, <<x, y>> \in R
               PROVE  Cardinality(E(x)) < Cardinality(E(y))
    OBVIOUS
  <2>1. E(x) \in SUBSET E(y) /\ x \notin E(x) /\ x \in E(y)
    BY DEF Earlier, LinearOn
  <2> HIDE DEF E
  <2>2. Cardinality(E(x)) <= Cardinality(E(y)) /\ Cardinality(E(x)) # Cardinality(E(y))
    BY <1>1, <2>1, FS_Subset
  <2> QED BY <1>1, <2>2
<1>4. Cardinality(S) \in Nat
  BY FS_CardinalityType
<1> HIDE DEF E
<1>5. Cardinality(E(x)) \in 0..(Cardinality(S) - 1)
  BY <1>1, <1>2, <1>4
<1> QED BY <1>1, <1>3, <1>5 DEF E

\* A sequence that has at each place the member that belongs there is the set
\* in its order.
LEMMA Enumerated ==
    ASSUME NEW S, IsFiniteSet(S), NEW R, LinearOn(S, R),
           NEW q \in [1..Cardinality(S) -> S],
           \A i \in 1..Cardinality(S) :
             (\E x \in S : Cardinality(Earlier(S, R, x)) = i - 1) =>
               Cardinality(Earlier(S, R, q[i])) = i - 1
    PROVE  /\ q \in Seq(S) /\ Len(q) = Cardinality(S) /\ Range(q) = S
           /\ \A i, j \in DOMAIN q : i < j => <<q[i], q[j]>> \in R
<1> DEFINE n == Cardinality(S)
           rank == [x \in S |-> Cardinality(Earlier(S, R, x))]
<1>1. n \in Nat
  BY FS_CardinalityType
<1>2. q \in Seq(S) /\ Len(q) = n /\ DOMAIN q = 1..n
  BY <1>1, FunctionSeq
<1>3. /\ \A x \in S : rank[x] \in 0..(n - 1)
      /\ \A x, y \in S : <<x, y>> \in R => rank[x] < rank[y]
  BY EarlierCount
<1>4. \A i \in 1..n : (\E x \in S : rank[x] = i - 1) => rank[q[i]] = i - 1
  OBVIOUS
<1>5. rank \in [S -> 0..(n - 1)]
  BY <1>3
<1> HIDE DEF n, rank
<1>6. \A x, y \in S : rank[x] = rank[y] => x = y
  <2> SUFFICES ASSUME NEW x \in S, NEW y \in S, rank[x] = rank[y]
               PROVE  x = y
    OBVIOUS
  <2>1. rank[x] \in Int /\ rank[y] \in Int
    BY <1>3
  <2>2. ~(rank[x] < rank[y]) /\ ~(rank[y] < rank[x])
    BY <2>1
  <2>3. <<x, y>> \notin R /\ <<y, x>> \notin R
    BY <1>3, <2>2
  <2> QED BY <2>3 DEF LinearOn
<1>7. IsFiniteSet(0..(n - 1)) /\ Cardinality(0..(n - 1)) = n
  BY <1>1, FS_Interval
<1>8. rank \in Injection(S, 0..(n - 1))
  BY <1>5, <1>6 DEF Injection, IsInjective
<1>9. rank \in Surjection(S, 0..(n - 1))
  BY <1>7, <1>8, FS_Injection DEF n
<1>10. \A i \in 1..n : \E x \in S : rank[x] = i - 1
  <2> SUFFICES ASSUME NEW i \in 1..n
               PROVE  \E x \in S : rank[x] = i - 1
    OBVIOUS
  <2>1. i - 1 \in 0..(n - 1)
    BY <1>1
  <2> QED BY <1>9, <2>1 DEF Surjection
<1>11. \A i \in 1..n : rank[q[i]] = i - 1 /\ q[i] \in S
  BY <1>2, <1>4, <1>10 DEF n
<1>12. Range(q) = S
  <2>1. Range(q) \subseteq S
    BY <1>2, <1>11 DEF Range
  <2>2. ASSUME NEW x \in S
        PROVE  x \in Range(q)
    <3> DEFINE i == rank[x] + 1
    <3>1. i \in 1..n /\ i - 1 = rank[x]
      BY <1>1, <1>3
    <3> HIDE DEF i
    <3>2. rank[q[i]] = rank[x] /\ q[i] \in S
      BY <1>11, <3>1
    <3>3. q[i] = x
      BY <1>6, <3>2
    <3> QED BY <1>2, <3>1, <3>3 DEF Range
  <2> QED BY <2>1, <2>2
<1>13. \A i, j \in DOMAIN q : i < j => <<q[i], q[j]>> \in R
  <2> SUFFICES ASSUME NEW i \in 1..n, NEW j \in 1..n, i < j
               PROVE  <<q[i], q[j]>> \in R
    BY <1>2
  <2> DEFINE x == q[i]
             y == q[j]
  <2>1. x \in S /\ y \in S /\ rank[x] = i - 1 /\ rank[y] = j - 1
    BY <1>11
  <2> HIDE DEF x, y
  <2>2. rank[x] < rank[y] /\ ~(rank[y] < rank[x]) /\ rank[x] # rank[y]
    BY <1>1, <2>1
  <2>3. <<y, x>> \notin R /\ x # y
    BY <1>3, <2>1, <2>2
  <2>4. <<x, y>> \in R
    BY <2>1, <2>3 DEF LinearOn
  <2> QED BY <2>4 DEF x, y
<1> QED BY <1>2, <1>12, <1>13 DEF n

\* Records, no two in the same place, are sorted by statusrec_cmp().
LEMMA RecsLinear ==
    ASSUME NEW S \in SUBSET Recs, \A x, y \in S : Same(x, y) => x = y
    PROVE  LinearOn(S, {w \in S \X S : RecLess(w[1], w[2])})
<1> DEFINE R == {w \in S \X S : RecLess(w[1], w[2])}
<1>1. \A x, y \in S : <<x, y>> \in R <=> RecLess(x, y)
  OBVIOUS
<1> HIDE DEF R
<1>2. \A x \in S : <<x, x>> \notin R
  <2> SUFFICES ASSUME NEW x \in S
               PROVE  ~RecLess(x, x)
    BY <1>1
  <2>1. Same(x, x)
    BY DEF Same
  <2> QED BY <2>1, LessIrreflexive
<1>3. \A x, y, z \in S : <<x, y>> \in R /\ <<y, z>> \in R => <<x, z>> \in R
  <2> SUFFICES ASSUME NEW x \in S, NEW y \in S, NEW z \in S, RecLess(x, y), RecLess(y, z)
               PROVE  RecLess(x, z)
    BY <1>1
  <2> QED BY LessTransitive
<1>4. \A x, y \in S : x = y \/ <<x, y>> \in R \/ <<y, x>> \in R
  <2> SUFFICES ASSUME NEW x \in S, NEW y \in S
               PROVE  x = y \/ RecLess(x, y) \/ RecLess(y, x)
    BY <1>1
  <2> QED BY LessTotal
<1> QED BY <1>2, <1>3, <1>4 DEF LinearOn, R

\* Such a set, sorted by rank, is itself in order.
LEMMA SortedRecs ==
    ASSUME NEW S \in SUBSET Good, IsFiniteSet(S), \A x, y \in S : Same(x, y) => x = y
    PROVE  LET q == Sorted(S, RecLess)
           IN q \in Seq(Good) /\ Range(q) = S /\ Increasing(q)
<1> DEFINE q == Sorted(S, RecLess)
           R == {w \in S \X S : RecLess(w[1], w[2])}
           n == Cardinality(S)
           Rank(x) == Cardinality({y \in S : RecLess(y, x)})
           e(i) == CHOOSE x \in S : Rank(x) = i - 1 \/ \A y \in S : Rank(y) # i - 1
<1>1. q = [i \in 1..n |-> e(i)]
  BY DEF Sorted
<1>2. \A x \in S : Earlier(S, R, x) = {y \in S : RecLess(y, x)}
  BY DEF Earlier
<1>3. \A x \in S : Rank(x) = Cardinality(Earlier(S, R, x))
  BY <1>2
<1>4. LinearOn(S, R)
  BY RecsLinear, GoodRecs
<1>5. n \in Nat /\ (n = 0 <=> S = {})
  BY FS_CardinalityType, FS_EmptySet
<1> HIDE DEF Rank
<1>6. ASSUME NEW i \in 1..n
      PROVE  /\ e(i) \in S
             /\ (\E x \in S : Rank(x) = i - 1) => Rank(e(i)) = i - 1
  <2>1. S # {}
    BY <1>5
  <2>2. \E x \in S : Rank(x) = i - 1 \/ \A y \in S : Rank(y) # i - 1
    BY <2>1
  <2>3. e(i) \in S /\ (Rank(e(i)) = i - 1 \/ \A y \in S : Rank(y) # i - 1)
    BY <2>2
  <2> QED BY <2>3
<1> HIDE DEF e
<1>7. q \in [1..n -> S]
  BY <1>1, <1>6
<1>8. \A i \in 1..n : (\E x \in S : Cardinality(Earlier(S, R, x)) = i - 1) =>
        Cardinality(Earlier(S, R, q[i])) = i - 1
  BY <1>1, <1>3, <1>6
<1> HIDE DEF q, R
<1>9. /\ q \in Seq(S) /\ Range(q) = S
      /\ \A i, j \in DOMAIN q : i < j => <<q[i], q[j]>> \in R
  BY <1>4, <1>7, <1>8, Enumerated
<1>10. q \in Seq(Good)
  BY <1>9
<1>11. Increasing(q)
  BY <1>9 DEF Increasing, R
<1> QED BY <1>9, <1>10, <1>11 DEF q

\* Where a command belongs in the server's order.
CmdMark(c) == CASE c \in {"J", "j"} -> "U" [] c \in {"I", "i"} -> "D" [] OTHER -> "C"
CmdKey(c) == Rec(CmdMark(c.cmd), c.path, "", "")
\* Requests, no two with the same place, are sorted by it.
Orderly(cs) == \A i, j \in DOMAIN cs : i < j => RecLess(CmdKey(cs[i]), CmdKey(cs[j]))

\* The place of a command is a record.
LEMMA CmdKeyRec ==
    ASSUME NEW c, c.path \in Paths
    PROVE  /\ CmdKey(c) \in Recs /\ CmdKey(c).path = c.path
           /\ CmdKey(c).type = CmdMark(c.cmd)
BY WordTypes DEF CmdKey, CmdMark, Rec, Recs

\* The server sends such a set in that order.
LEMMA OrderSorted ==
    ASSUME NEW S \in SUBSET Cmds, IsFiniteSet(S),
           \A x, y \in S : Same(CmdKey(x), CmdKey(y)) => x = y
    PROVE  Range(Order(S)) = S /\ Orderly(Order(S))
<1> DEFINE q == Order(S)
           R == {w \in S \X S : RecLess(CmdKey(w[1]), CmdKey(w[2]))}
           n == Cardinality(S)
           Type(c) == CASE c \in {"J", "j"} -> "U" [] c \in {"I", "i"} -> "D" [] OTHER -> "C"
           Key2(x) == Rec(Type(x.cmd), x.path, "", "")
           Rank(x) == Cardinality({y \in S : RecLess(Key2(y), Key2(x))})
           e(i) == CHOOSE x \in S : Rank(x) = i - 1 \/ \A y \in S : Rank(y) # i - 1
<1>1. q = [i \in 1..n |-> e(i)]
  BY DEF Order, Sorted
<1>2. \A x : Key2(x) = CmdKey(x)
  BY DEF CmdKey, CmdMark
<1> HIDE DEF Type, Key2
<1>3. \A x \in S : Earlier(S, R, x) = {y \in S : RecLess(Key2(y), Key2(x))}
  BY <1>2 DEF Earlier
<1>4. \A x \in S : Rank(x) = Cardinality(Earlier(S, R, x))
  BY <1>3
<1>5. \A x \in S : CmdKey(x) \in Recs
  BY CmdKeyRec DEF Cmds
<1>6. LinearOn(S, R)
  <2>1. \A x, y \in S : <<x, y>> \in R <=> RecLess(CmdKey(x), CmdKey(y))
    OBVIOUS
  <2> HIDE DEF R
  <2>2. \A x \in S : <<x, x>> \notin R
    <3> SUFFICES ASSUME NEW x \in S
                 PROVE  ~RecLess(CmdKey(x), CmdKey(x))
      BY <2>1
    <3>1. Same(CmdKey(x), CmdKey(x))
      BY DEF Same
    <3> QED BY <1>5, <3>1, LessIrreflexive
  <2>3. \A x, y, z \in S : <<x, y>> \in R /\ <<y, z>> \in R => <<x, z>> \in R
    BY <1>5, <2>1, LessTransitive
  <2>4. \A x, y \in S : x = y \/ <<x, y>> \in R \/ <<y, x>> \in R
    BY <1>5, <2>1, LessTotal
  <2> QED BY <2>2, <2>3, <2>4 DEF LinearOn
<1>7. n \in Nat /\ (n = 0 <=> S = {})
  BY FS_CardinalityType, FS_EmptySet
<1> HIDE DEF Rank
<1>8. ASSUME NEW i \in 1..n
      PROVE  /\ e(i) \in S
             /\ (\E x \in S : Rank(x) = i - 1) => Rank(e(i)) = i - 1
  <2>1. S # {}
    BY <1>7
  <2>2. \E x \in S : Rank(x) = i - 1 \/ \A y \in S : Rank(y) # i - 1
    BY <2>1
  <2>3. e(i) \in S /\ (Rank(e(i)) = i - 1 \/ \A y \in S : Rank(y) # i - 1)
    BY <2>2
  <2> QED BY <2>3
<1> HIDE DEF e
<1>9. q \in [1..n -> S]
  BY <1>1, <1>8
<1>10. \A i \in 1..n : (\E x \in S : Cardinality(Earlier(S, R, x)) = i - 1) =>
         Cardinality(Earlier(S, R, q[i])) = i - 1
  BY <1>1, <1>4, <1>8
<1> HIDE DEF q, R
<1>11. /\ q \in Seq(S) /\ Range(q) = S
       /\ \A i, j \in DOMAIN q : i < j => <<q[i], q[j]>> \in R
  BY <1>6, <1>9, <1>10, Enumerated
<1>12. Orderly(q)
  BY <1>11 DEF Orderly, R
<1> QED BY <1>11, <1>12 DEF q

-----------------------------------------------------------------------------
(* The status file of a tree *)

\* What comes between the two marks of a directory is in it.
LEMMA Between ==
    ASSUME NEW d \in Recs, NEW u \in Recs, d.type # "U", u.type = "U", d.path = u.path,
           NEW r \in Recs, RecLess(d, r), RecLess(r, u)
    PROVE  IsPrefix(d.path, r.path)
<1> DEFINE m == Len(d.path)
<1>1. PICK i \in Nat \ {0} : /\ \A j \in 1..(i - 1) : Digit(d, j) = Digit(r, j)
                             /\ Under(Digit(d, i), Digit(r, i))
  BY RecOrder DEF Lower
<1>2. /\ d.path \in Seq(Nat) /\ r.path \in Seq(Nat) /\ m \in Nat /\ Len(r.path) \in Nat
      /\ \A j \in 1..m : d.path[j] \in Nat
  BY RecPath
<1>3. \A j \in 1..m : Digit(u, j) = Digit(d, j) /\ Digit(d, j) = d.path[j]
  <2> SUFFICES ASSUME NEW j \in 1..m
               PROVE  Digit(u, j) = Digit(d, j) /\ Digit(d, j) = d.path[j]
    OBVIOUS
  <2> QED BY DEF Digit
<1>4. i > m
  <2> SUFFICES ASSUME i <= m
               PROVE  FALSE
    BY <1>2
  <2> DEFINE n == i - 1
  <2>1. n \in Nat /\ n + 1 = i /\ i \in 1..m /\ \A j \in 1..n : j \in 1..m
    BY <1>2
  <2>2. \A j \in 1..n : Digit(u, j) = Digit(r, j)
    BY <1>1, <1>3, <2>1
  <2>3. Under(Digit(u, n + 1), Digit(r, n + 1))
    BY <1>1, <1>3, <2>1
  <2> HIDE DEF n
  <2>4. RecLess(u, r)
    BY <2>1, <2>2, <2>3, LowerAt
  <2>5. RecLess(u, u) /\ Same(u, u)
    BY <2>4, LessTransitive DEF Same
  <2> QED BY <2>5, LessIrreflexive
<1>5. \A j \in 1..m : j <= Len(r.path) /\ d.path[j] = r.path[j]
  <2> SUFFICES ASSUME NEW j \in 1..m
               PROVE  j <= Len(r.path) /\ d.path[j] = r.path[j]
    OBVIOUS
  <2>1. j \in 1..(i - 1) /\ j \in Nat \ {0}
    BY <1>2, <1>4
  <2>2. Digit(r, j) = d.path[j] /\ Digit(r, j) \in Nat
    BY <1>1, <1>2, <1>3, <2>1
  <2>3. ~(j > Len(r.path))
    BY <2>1, <2>2, Digits
  <2>4. j <= Len(r.path)
    BY <1>2, <2>1, <2>3
  <2> QED BY <2>2, <2>4 DEF Digit
<1>6. m <= Len(r.path)
  BY <1>2, <1>5
<1> QED BY <1>2, <1>5, <1>6, PrefixIs

\* A sorted sequence has nothing of a set between two neighbours.
LEMMA Neighbours ==
    ASSUME NEW q \in Seq(Good), Increasing(q)
    PROVE  /\ \A i \in DOMAIN q, x \in Range(q) : RecLess(q[i], x) =>
                /\ i + 1 \in DOMAIN q
                /\ x = q[i + 1] \/ RecLess(q[i + 1], x)
           /\ \A x \in Range(q) : 1 \in DOMAIN q /\ (x = q[1] \/ RecLess(q[1], x))
<1>1. /\ DOMAIN q = 1..Len(q) /\ Len(q) \in Nat
      /\ \A i \in DOMAIN q : q[i] \in Good /\ q[i] \in Recs
      /\ \A x \in Range(q) : \E j \in DOMAIN q : x = q[j]
  BY GoodRecs DEF Range
<1>2. ASSUME NEW i \in DOMAIN q, NEW j \in DOMAIN q, RecLess(q[i], q[j])
      PROVE  i + 1 \in DOMAIN q /\ (q[j] = q[i + 1] \/ RecLess(q[i + 1], q[j]))
  <2>1. i # j
    <3>1. Same(q[i], q[i])
      BY DEF Same
    <3> QED BY <1>1, <1>2, <3>1, LessIrreflexive
  <2>2. ~(j < i)
    <3> SUFFICES ASSUME j < i
                 PROVE  FALSE
      OBVIOUS
    <3>1. RecLess(q[j], q[i])
      BY DEF Increasing
    <3>2. RecLess(q[i], q[i]) /\ Same(q[i], q[i])
      BY <1>1, <1>2, <3>1, LessTransitive DEF Same
    <3> QED BY <1>1, <3>2, LessIrreflexive
  <2>3. i < j
    BY <1>1, <2>1, <2>2
  <2>4. i + 1 \in DOMAIN q /\ (j = i + 1 \/ i + 1 < j)
    BY <1>1, <2>3
  <2> QED BY <2>4 DEF Increasing
<1>3. ASSUME NEW j \in DOMAIN q
      PROVE  1 \in DOMAIN q /\ (q[j] = q[1] \/ RecLess(q[1], q[j]))
  <2>1. 1 \in DOMAIN q /\ (j = 1 \/ 1 < j)
    BY <1>1
  <2> QED BY <2>1 DEF Increasing
<1> QED BY <1>1, <1>2, <1>3

\* Sets of records with both marks of every directory that is needed.
Complete(S) ==
    /\ S \subseteq Good
    /\ \A x, y \in S : Same(x, y) => x = y
    /\ \A r \in S : \A n \in 1..Len(Target(r)) :
         /\ DownRec(SubSeq(Target(r), 1, n)) \in S
         /\ \E u \in S : u.type = "U" /\ u.path = SubSeq(Target(r), 1, n)
    /\ \A r \in S : r.type = "U" => DownRec(r.path) \in S

\* The record after another one, from a directory that is left.
LEMMA NextUp ==
    ASSUME NEW S, Complete(S), NEW l \in S, NEW r \in S, RecLess(l, r),
           \A x \in S : RecLess(l, x) => x = r \/ RecLess(r, x),
           Common(Target(l), Target(r)) < Len(Target(l))
    PROVE  Sync(Target(l), r)
<1> DEFINE T == Target(l)
           n == Common(Target(l), Target(r))
           m == Len(T)
<1>1. l \in Good /\ r \in Good /\ l \in Recs /\ r \in Recs
  BY Targets DEF Complete
<1>2. /\ T \in Seq(Nat) /\ Target(r) \in Seq(Nat) /\ m \in Nat
      /\ \A i \in 1..m : T[i] = l.path[i]
      /\ m <= Len(l.path) /\ l.path \in Seq(Nat)
      /\ l.type # "D" => Len(l.path) = m + 1
  BY <1>1, Targets
<1>3. n \in Nat /\ n < m
  BY <1>2, Parting
<1> HIDE DEF n, m, T
<1>4. n + 1 \in 1..m /\ m \in 1..m
  BY <1>2, <1>3
<1>5. PICK u \in S : u.type = "U" /\ u.path = SubSeq(T, 1, n + 1)
  BY <1>4 DEF Complete, T, m
<1>6. PICK v \in S : v.type = "U" /\ v.path = SubSeq(T, 1, m)
  BY <1>4 DEF Complete, T, m
<1>7. v.path = T /\ u.path \in Seq(Nat) /\ Len(u.path) = n + 1
      /\ \A i \in 1..(n + 1) : u.path[i] = T[i]
  BY <1>2, <1>3, <1>5, <1>6, SubSeqFull, PathParts DEF m
<1>8. u \in Good /\ v \in Good /\ u \in Recs /\ v \in Recs
  BY GoodRecs DEF Complete
<1>9. RecLess(l, v)
  <2>1. IsPrefix(v.path, l.path)
    BY <1>2, <1>7, PrefixIs DEF m
  <2>2. ~Same(l, v)
    <3> SUFFICES ASSUME Same(l, v)
                 PROVE  FALSE
      OBVIOUS
    <3>1. l.path = T /\ l.type # "D"
      BY <1>6, <1>7 DEF Same
    <3> QED BY <1>2, <3>1 DEF m
  <2> QED BY <1>1, <1>6, <1>8, <2>1, <2>2, Within
<1>10. v = u \/ RecLess(v, u)
  <2>1. IsPrefix(u.path, v.path)
    <3>1. Len(u.path) <= Len(v.path) /\ \A i \in 1..Len(u.path) : u.path[i] = v.path[i]
      BY <1>2, <1>3, <1>7 DEF m
    <3>2. u.path \in Seq(Nat) /\ v.path \in Seq(Nat)
      BY <1>2, <1>7
    <3> QED BY <3>1, <3>2, PrefixIs
  <2>2. CASE Same(v, u)
    BY <2>2 DEF Complete
  <2>3. CASE ~Same(v, u)
    BY <1>5, <1>8, <2>1, <2>3, Within
  <2> QED BY <2>2, <2>3
<1>11. RecLess(u, r) \/ SameMark(u, r)
  <2>1. u.path = SubSeq(Target(l), 1, n + 1)
    BY <1>5 DEF T
  <2>2. n = Common(Target(l), Target(r)) /\ n < Len(Target(l))
    BY <1>3 DEF n, m, T
  <2> QED BY <1>1, <1>5, <1>8, <2>1, <2>2, Turn
<1>12. ~RecLess(r, v)
  <2> SUFFICES ASSUME RecLess(r, v)
               PROVE  FALSE
    OBVIOUS
  <2>1. AtMost(u, r)
    BY <1>11, MarkSame DEF AtMost
  <2>2. RecLess(r, u)
    BY <1>1, <1>8, <1>10, LessTransitive
  <2> QED BY <1>1, <1>8, <2>1, <2>2, AtMostLess
<1>13. r = v
  BY <1>9, <1>12
<1>14. T # <<>>
  BY <1>3 DEF m
<1> QED BY <1>6, <1>7, <1>13, <1>14 DEF Sync, InSync, T

\* The same, from a directory the next record is in, too.
LEMMA NextDown ==
    ASSUME NEW S, Complete(S), NEW l \in S, NEW r \in S, RecLess(l, r),
           \A x \in S : RecLess(l, x) => x = r \/ RecLess(r, x),
           Common(Target(l), Target(r)) = Len(Target(l)),
           Len(Target(l)) < Len(Target(r))
    PROVE  Sync(Target(l), r)
<1> DEFINE T == Target(l)
           Q == Target(r)
           n == Len(T)
           k == n + 1
           d == DownRec(SubSeq(Q, 1, k))
<1>1. l \in Good /\ r \in Good /\ l \in Recs /\ r \in Recs
  BY Targets DEF Complete
<1>2. T \in Seq(Nat) /\ Q \in Seq(Nat) /\ n \in Nat /\ Len(Q) \in Nat
  BY <1>1, Targets
<1>3. n = Common(T, Q) /\ n < Len(Q)
  OBVIOUS
<1> HIDE DEF n
<1>4. k \in 1..Len(Q) /\ k \in (n + 1)..Len(Q) /\ k - 1 = n
  BY <1>2, <1>3
<1>5. d \in S
  BY <1>4 DEF Complete
<1>6. /\ SubSeq(Q, 1, k) \in Seq(Nat) /\ Len(SubSeq(Q, 1, k)) = k
      /\ Front(SubSeq(Q, 1, k)) = SubSeq(Q, 1, k - 1)
  BY <1>2, <1>4, PathParts, FrontOfPiece
<1>7. d.type = "D" /\ d.path = SubSeq(Q, 1, k)
  BY DEF DownRec, Rec
<1>8. SubSeq(Q, 1, n) = T
  <2>1. \A i \in 1..n : T[i] = Q[i]
    BY <1>2, <1>3, Parting
  <2>2. SubSeq(T, 1, n) = SubSeq(Q, 1, n)
    BY <1>2, <1>3, <2>1, Pieces DEF n
  <2>3. SubSeq(T, 1, n) = T
    BY <1>2, SubSeqFull DEF n
  <2> QED BY <2>2, <2>3
<1> HIDE DEF T, Q, k, d
<1>9. RecLess(l, d)
  <2>1. n = Common(Target(l), Target(r)) /\ n = Len(Target(l)) /\ k \in (n + 1)..Len(Target(r))
    BY <1>3, <1>4 DEF n, T, Q
  <2>2. RecLess(l, DownRec(SubSeq(Target(r), 1, k)))
    BY <1>1, <2>1, Descent
  <2> QED BY <2>2 DEF d, Q
<1>10. RecLess(d, r) \/ SameMark(d, r)
  <2>1. k \in 1..Len(Target(r))
    BY <1>4 DEF Q
  <2> QED BY <1>1, <2>1, DownAtMost DEF d, Q
<1>11. ~RecLess(r, d)
  <2>1. AtMost(d, r) /\ d \in Recs
    BY <1>5, <1>10, MarkSame, GoodRecs DEF AtMost, Complete
  <2> QED BY <1>1, <2>1, AtMostLess
<1>12. r = d
  BY <1>5, <1>9, <1>11
<1>13. Len(r.path) > 0 /\ T = Front(r.path)
  <2>1. r.path = SubSeq(Q, 1, k)
    BY <1>7, <1>12
  <2>2. Front(r.path) = SubSeq(Q, 1, n)
    BY <1>4, <1>6, <2>1
  <2>3. Len(r.path) = k /\ k > 0
    BY <1>4, <1>6, <2>1
  <2> QED BY <1>8, <2>2, <2>3
<1> QED BY <1>7, <1>12, <1>13 DEF Sync, InSync, T

\* A record in the place of a directory's first mark.
LEMMA DownPlace ==
    ASSUME NEW r \in Good, r.type = "D"
    PROVE  r.path \in Dirs /\ Same(r, DownRec(r.path)) /\ DownRec(r.path) \in Good
           /\ DownRec(r.path).type = "D" /\ DownRec(r.path).path = r.path
BY WordTypes, MarkFacts DEF Good, DirTypes, Same

\* The same, in the directory of the next record.
LEMMA NextSame ==
    ASSUME NEW S, Complete(S), NEW l \in S, NEW r \in S, RecLess(l, r),
           \A x \in S : RecLess(l, x) => x = r \/ RecLess(r, x),
           Common(Target(l), Target(r)) = Len(Target(l)),
           Len(Target(l)) >= Len(Target(r))
    PROVE  Sync(Target(l), r)
<1> DEFINE T == Target(l)
           Q == Target(r)
           n == Len(T)
<1>1. l \in Good /\ r \in Good /\ l \in Recs /\ r \in Recs
  BY Targets DEF Complete
<1>2. /\ T \in Seq(Nat) /\ Q \in Seq(Nat) /\ n \in Nat /\ Len(Q) \in Nat
      /\ l.path \in Seq(Nat) /\ r.path \in Seq(Nat)
      /\ l.type = "D" => T = l.path
      /\ l.type # "D" => Len(l.path) = n + 1
      /\ \A i \in 1..n : T[i] = l.path[i]
      /\ n <= Len(l.path) /\ Len(l.path) \in Nat
      /\ r.type = "D" => Q = r.path /\ r.path \in Dirs
      /\ r.type # "D" => Q = Front(r.path) /\ Len(r.path) = Len(Q) + 1
      /\ r.path # <<>>
  BY <1>1, Targets
<1>3. n = Common(T, Q) /\ n >= Len(Q)
  OBVIOUS
<1>4. Q = T
  <2>1. n <= Len(Q) /\ \A i \in 1..n : T[i] = Q[i]
    BY <1>2, <1>3, Parting
  <2>2. n = Len(Q)
    BY <1>2, <1>3, <2>1
  <2> HIDE DEF T, Q
  <2>3. \A i \in 1..Len(T) : T[i] = Q[i]
    BY <2>1 DEF n
  <2>4. Len(T) = Len(Q)
    BY <2>2 DEF n
  <2> QED BY <1>2, <2>3, <2>4, SeqEqual
<1> HIDE DEF T, Q
<1>5. CASE r.type = "D"
  <2>1. n \in 1..Len(Target(l)) /\ SubSeq(Target(l), 1, n) = r.path
    <3>1. Len(r.path) # 0
      BY <1>2
    <3>2. T = r.path
      BY <1>2, <1>4, <1>5
    <3> QED BY <1>2, <3>1, <3>2, SubSeqFull DEF T
  <2> DEFINE d == DownRec(r.path)
  <2>2. d \in Good /\ (RecLess(d, l) \/ SameMark(d, l))
    BY <1>1, <2>1, DownAtMost
  <2>3. Same(r, d) /\ d \in Recs
    BY <1>1, <1>5, <2>2, DownPlace, GoodRecs
  <2> HIDE DEF d
  <2>4. AtMost(d, l)
    BY <2>2, MarkSame DEF AtMost
  <2>5. RecLess(l, d)
    BY <1>1, <2>3, LessSame
  <2> QED BY <1>1, <2>3, <2>4, <2>5, AtMostLess
<1>6. CASE r.type = "U"
  <2> DEFINE d == DownRec(r.path)
  <2>1. d \in S /\ d.type = "D" /\ d.path = r.path /\ d \in Recs /\ d \in Good
    BY <1>6, GoodRecs DEF Complete, DownRec, Rec
  <2> HIDE DEF d
  <2>2. RecLess(d, r)
    <3>1. IsPrefix(r.path, d.path)
      BY <1>2, <2>1, PrefixIs
    <3>2. ~Same(d, r)
      BY <1>6, <2>1 DEF Same
    <3> QED BY <1>1, <1>6, <2>1, <3>1, <3>2, Within
  <2>3. ~RecLess(l, d)
    <3> SUFFICES ASSUME RecLess(l, d)
                 PROVE  FALSE
      OBVIOUS
    <3>1. d # r
      BY <1>6, <2>1
    <3>2. RecLess(r, d)
      BY <2>1, <3>1
    <3>3. RecLess(r, r) /\ Same(r, r)
      BY <1>1, <2>1, <2>2, <3>2, LessTransitive DEF Same
    <3> QED BY <1>1, <3>3, LessIrreflexive
  <2>4. ~Same(d, l)
    <3> SUFFICES ASSUME Same(d, l)
                 PROVE  FALSE
      OBVIOUS
    <3>1. l.path = r.path /\ l.type # "U"
      BY <2>1 DEF Same
    <3>2. l.path \in Dirs
      BY <1>1, <1>6, <3>1 DEF Good, DirTypes
    <3>3. l.type = "D"
      BY <1>1, <3>1, <3>2, GoodPlace DEF DirTypes
    <3>4. T = r.path
      BY <1>2, <3>1, <3>3
    <3>5. Len(r.path) = Len(T) + 1 /\ Len(T) \in Nat
      BY <1>2, <1>4, <1>6 DEF n
    <3> QED BY <3>4, <3>5
  <2>5. RecLess(d, l)
    BY <1>1, <2>1, <2>3, <2>4, LessTotal
  <2>6. IsPrefix(r.path, l.path)
    BY <1>1, <1>6, <2>1, <2>5, Between
  <2>7. Len(r.path) <= Len(l.path) /\ \A i \in 1..Len(r.path) : r.path[i] = l.path[i]
    BY <1>2, <2>6, PrefixIs
  <2>8. Len(r.path) = n + 1
    BY <1>2, <1>4, <1>6 DEF n
  <2>9. l.type # "D" /\ Len(l.path) = n + 1
    <3>1. l.type = "D" => Len(l.path) = n
      BY <1>2 DEF n
    <3> QED BY <1>2, <2>7, <2>8, <3>1
  <2>10. l.path = r.path
    BY <1>2, <2>7, <2>8, <2>9, SeqEqual
  <2>11. l.path \in Dirs
    BY <1>1, <1>6, <2>10 DEF Good, DirTypes
  <2>12. l.type = "U"
    BY <1>1, <2>9, <2>11, GoodPlace DEF DirTypes
  <2>13. Same(l, r)
    BY <1>6, <2>10, <2>12 DEF Same
  <2> QED BY <1>1, <2>13, LessIrreflexive
<1>7. CASE r.type # "D" /\ r.type # "U"
  BY <1>2, <1>4, <1>7 DEF Sync, InSync, T
<1> QED BY <1>5, <1>6, <1>7

\* The first record.
LEMMA NextFirst ==
    ASSUME NEW S, Complete(S), NEW r \in S,
           \A x \in S : x = r \/ RecLess(r, x)
    PROVE  Sync(<<>>, r)
<1> DEFINE Q == Target(r)
<1>1. r \in Good /\ r \in Recs
  BY Targets DEF Complete
<1>2. /\ Q \in Seq(Nat) /\ Len(Q) \in Nat
      /\ r.path \in Seq(Nat) /\ r.path # <<>>
      /\ r.type = "D" => Q = r.path
      /\ r.type # "D" => Q = Front(r.path)
  BY <1>1, Targets
<1>3. \A x \in S : ~RecLess(x, r)
  <2> SUFFICES ASSUME NEW x \in S, RecLess(x, r)
               PROVE  FALSE
    OBVIOUS
  <2>1. x \in Recs
    BY GoodRecs DEF Complete
  <2>2. RecLess(r, r) /\ Same(r, r)
    <3>1. Same(r, r)
      BY DEF Same
    <3>2. x = r \/ RecLess(r, x)
      OBVIOUS
    <3> QED BY <1>1, <2>1, <3>1, <3>2, LessTransitive
  <2> QED BY <1>1, <2>2, LessIrreflexive
<1> HIDE DEF Q
<1>4. CASE Q # <<>>
  <2>1. 1 \in 1..Len(Q)
    BY <1>2, <1>4
  <2> DEFINE d == DownRec(SubSeq(Q, 1, 1))
  <2>2. d \in S
    BY <2>1 DEF Complete, Q
  <2>3. RecLess(d, r) \/ SameMark(d, r)
    BY <1>1, <2>1, DownAtMost DEF Q
  <2>4. d \in Recs
    BY <2>2, GoodRecs DEF Complete
  <2>5. d.type = "D" /\ d.path = SubSeq(Q, 1, 1)
    BY DEF DownRec, Rec
  <2> HIDE DEF d
  <2>6. r = d
    <3>1. SameMark(d, r)
      BY <1>3, <2>2, <2>3
    <3>2. Same(d, r)
      BY <3>1, MarkSame
    <3> QED BY <2>2, <3>2 DEF Complete
  <2>7. Front(SubSeq(Q, 1, 1)) = SubSeq(Q, 1, 0) /\ Len(SubSeq(Q, 1, 1)) = 1
    BY <1>2, <2>1, FrontOfPiece, PathParts
  <2>8. SubSeq(Q, 1, 0) = <<>>
    BY SubSeqEmpty
  <2>9. r.type = "D" /\ Len(r.path) > 0 /\ Front(r.path) = <<>>
    <3>1. r.path = SubSeq(Q, 1, 1) /\ r.type = "D"
      BY <2>5, <2>6
    <3>2. Front(r.path) = SubSeq(Q, 1, 0) /\ Len(r.path) = 1
      BY <2>7, <3>1
    <3> QED BY <2>8, <3>1, <3>2
  <2> QED BY <2>9 DEF Sync, InSync
<1>5. CASE Q = <<>>
  <2>1. r.type # "D"
    BY <1>2, <1>5
  <2>2. r.type # "U"
    <3> SUFFICES ASSUME r.type = "U"
                 PROVE  FALSE
      OBVIOUS
    <3> DEFINE d == DownRec(r.path)
    <3>1. d \in S /\ d.type = "D" /\ d.path = r.path /\ d \in Recs
      BY GoodRecs DEF Complete, DownRec, Rec
    <3> HIDE DEF d
    <3>2. IsPrefix(r.path, d.path)
      BY <1>2, <3>1, PrefixIs
    <3>3. ~Same(d, r)
      BY <3>1 DEF Same
    <3>4. RecLess(d, r)
      BY <1>1, <3>1, <3>2, <3>3, Within
    <3> QED BY <1>3, <3>1, <3>4
  <2> QED BY <1>2, <1>5, <2>1, <2>2 DEF Sync, InSync
<1> QED BY <1>4, <1>5

\* The last record.
LEMMA NextNone ==
    ASSUME NEW S, Complete(S), NEW l \in S, \A x \in S : ~RecLess(l, x)
    PROVE  Target(l) = <<>>
<1> DEFINE T == Target(l)
           n == Len(T)
<1> SUFFICES ASSUME T # <<>>
             PROVE  FALSE
  OBVIOUS
<1>1. l \in Good /\ l \in Recs
  BY Targets DEF Complete
<1>2. /\ T \in Seq(Nat) /\ n \in Nat /\ l.path \in Seq(Nat)
      /\ l.type # "D" => Len(l.path) = n + 1
      /\ \A i \in 1..n : T[i] = l.path[i]
      /\ n <= Len(l.path) /\ Len(l.path) \in Nat
  <2>1. /\ T \in Seq(Nat) /\ l.path \in Seq(Nat)
        /\ l.type # "D" => Len(l.path) = Len(Target(l)) + 1
        /\ \A i \in 1..Len(Target(l)) : Target(l)[i] = l.path[i]
        /\ Len(Target(l)) <= Len(l.path)
    BY <1>1, Targets
  <2>2. Len(T) \in Nat /\ Len(l.path) \in Nat
    BY <2>1
  <2> QED BY <2>1, <2>2
<1> HIDE DEF T
<1>3. n \in 1..n
  BY <1>2
<1>4. PICK u \in S : u.type = "U" /\ u.path = SubSeq(T, 1, n)
  BY <1>3 DEF Complete, T
<1>5. u.path = T /\ u \in Recs
  BY <1>2, <1>4, SubSeqFull, GoodRecs DEF Complete
<1>6. IsPrefix(u.path, l.path)
  BY <1>2, <1>5, PrefixIs
<1>7. ~Same(l, u)
  <2> SUFFICES ASSUME Same(l, u)
               PROVE  FALSE
    OBVIOUS
  <2>1. l.path = T /\ l.type # "D"
    BY <1>4, <1>5 DEF Same
  <2> QED BY <1>2, <2>1
<1>8. RecLess(l, u)
  BY <1>1, <1>4, <1>5, <1>6, <1>7, Within
<1> QED BY <1>8

\* A complete set of records, sorted, is a sound status file.
LEMMA CompleteSound ==
    ASSUME NEW S, Complete(S), NEW q \in Seq(Good), Range(q) = S, Increasing(q)
    PROVE  Sound(<<>>, q)
<1>1. DOMAIN q = 1..Len(q) /\ Len(q) \in Nat /\ \A i \in DOMAIN q : q[i] \in S
  BY DEF Range
<1>2. \A i \in DOMAIN q : i # 1 => Sync(Target(q[i - 1]), q[i])
  <2> SUFFICES ASSUME NEW i \in DOMAIN q, i # 1
               PROVE  Sync(Target(q[i - 1]), q[i])
    OBVIOUS
  <2> DEFINE l == q[i - 1]
             r == q[i]
  <2>1. i - 1 \in DOMAIN q /\ i - 1 < i /\ (i - 1) + 1 = i
    BY <1>1
  <2>2. l \in S /\ r \in S /\ RecLess(l, r)
    BY <1>1, <2>1 DEF Increasing
  <2>3. \A x \in S : RecLess(l, x) => x = r \/ RecLess(r, x)
    BY <2>1, Neighbours
  <2>4. Target(l) \in Seq(Nat) /\ Target(r) \in Seq(Nat)
    BY <2>2, Targets DEF Complete
  <2> HIDE DEF l, r
  <2> DEFINE n == Common(Target(l), Target(r))
             a == Len(Target(l))
             b == Len(Target(r))
  <2>5. n \in Nat /\ a \in Nat /\ b \in Nat /\ n <= a
    BY <2>4, Parting
  <2>6. n < a \/ (n = a /\ a < b) \/ (n = a /\ a >= b)
    <3> HIDE DEF n, a, b
    <3> QED BY <2>5
  <2>7. CASE n < a
    BY <2>2, <2>3, <2>7, NextUp DEF l, r
  <2>8. CASE n = a /\ a < b
    BY <2>2, <2>3, <2>8, NextDown DEF l, r
  <2>9. CASE n = a /\ a >= b
    BY <2>2, <2>3, <2>9, NextSame DEF l, r
  <2> QED BY <2>6, <2>7, <2>8, <2>9
<1>3. q # <<>> => Sync(<<>>, q[1])
  <2> SUFFICES ASSUME q # <<>>
               PROVE  Sync(<<>>, q[1])
    OBVIOUS
  <2>1. 1 \in DOMAIN q
    BY <1>1
  <2>2. \A x \in S : x = q[1] \/ RecLess(q[1], x)
    BY Neighbours
  <2> QED BY <1>1, <2>1, <2>2, NextFirst
<1>4. Linked(<<>>, q)
  <2> SUFFICES ASSUME NEW i \in DOMAIN q
               PROVE  Sync(From(<<>>, q, i), q[i])
    BY DEF Linked
  <2>1. i = 1 => q # <<>>
    BY <1>1
  <2> QED BY <1>2, <1>3, <2>1 DEF From
<1>5. End(<<>>, q) = <<>>
  <2>1. CASE q # <<>>
    <3> DEFINE l == q[Len(q)]
    <3>1. Len(q) \in DOMAIN q /\ Len(q) + 1 \notin DOMAIN q
      BY <1>1, <2>1
    <3>2. l \in S
      BY <1>1, <3>1
    <3>3. \A x \in S : ~RecLess(l, x)
      BY <3>1, Neighbours
    <3> QED BY <2>1, <3>2, <3>3, NextNone DEF End
  <2> QED BY <2>1 DEF End
<1> QED BY <1>4, <1>5 DEF Sound

\* A sequence is one of members of what its range is in.
LEMMA RangeSeq ==
    ASSUME NEW S, NEW q \in Seq(S), NEW G, \A r \in Range(q) : r \in G
    PROVE  q \in Seq(G)
<1>1. DOMAIN q = 1..Len(q) /\ Len(q) \in Nat /\ q \in [1..Len(q) -> S]
  OBVIOUS
<1>2. \A i \in 1..Len(q) : q[i] \in G
  BY <1>1 DEF Range
<1>3. q \in [1..Len(q) -> G]
  BY <1>1, <1>2
<1> QED BY <1>1, <1>3, FunctionSeq

\* The directories of a tree.
LEMMA TreeDirs ==
    ASSUME NEW tree
    PROVE  /\ DirsOf(tree) \subseteq Dirs /\ IsFiniteSet(DirsOf(tree))
           /\ \A d \in DirsOf(tree), n \in Nat :
                d \in Seq(Nat) /\ (n \in 1..Len(d) => SubSeq(d, 1, n) \in DirsOf(tree))
           /\ \A p \in Files : Has(tree, p) =>
                p \in Seq(Nat) /\ \A n \in 1..(Len(p) - 1) : SubSeq(p, 1, n) \in DirsOf(tree)
<1> DEFINE T == {q \in Files : Has(tree, q)}
           D == DirsOf(tree)
<1>1. T \in SUBSET Files /\ T \subseteq Paths
  BY FilePaths
<1>2. D = UNION {Above(p) : p \in T}
  BY DEF DirsOf
<1>3. IsFiniteSet(D)
  <2> HIDE DEF T, D
  <2> QED BY <1>1, <1>2, DirsFinite
<1>4. D \subseteq Dirs
  BY <1>1, <1>2 DEF Dirs
<1>5. \A p \in T : p \in Seq(Nat) /\ \A n \in 1..(Len(p) - 1) : SubSeq(p, 1, n) \in D
  BY <1>1, <1>2 DEF Above, Paths
<1> HIDE DEF D, T
<1>6. ASSUME NEW d \in D, NEW n \in Nat
      PROVE  d \in Seq(Nat) /\ (n \in 1..Len(d) => SubSeq(d, 1, n) \in D)
  <2>1. PICK p \in T : d \in Above(p)
    BY <1>2
  <2>2. PICK m \in 1..(Len(p) - 1) : d = SubSeq(p, 1, m)
    BY <2>1 DEF Above
  <2>3. p \in Seq(Nat) /\ Len(p) \in Nat /\ m \in 0..Len(p)
    BY <1>5
  <2>4. d \in Seq(Nat) /\ Len(d) = m
    BY <2>2, <2>3, PathParts
  <2>5. ASSUME n \in 1..m
        PROVE  SubSeq(d, 1, n) \in D
    <3>1. n \in 0..m /\ n \in 1..(Len(p) - 1)
      BY <2>3, <2>5
    <3>2. SubSeq(d, 1, n) = SubSeq(p, 1, n)
      BY <2>2, <2>3, <3>1, PieceOfPiece
    <3> QED BY <1>5, <3>1, <3>2
  <2> QED BY <2>4, <2>5
<1> QED BY <1>3, <1>4, <1>5, <1>6 DEF D, T

\* The records of a mode: RCS files in CVS mode, others in checkout mode.
Moded(m) ==
    {r \in Recs : /\ r.type \in {"V", "v"} => m
                  /\ r.type \in {"C", "c"} => ~m}

\* The status file of an older tree is sound, and of the mode.
LEMMA StatusOfSound ==
    ASSUME NEW base \in Trees({"none", "live", "dead"}, {"v1"})
    PROVE  Sound(<<>>, StatusOf(base)) /\ StatusOf(base) \in Seq(Moded(cvs))
<1> DEFINE T == {q \in Files : Has(base, q)}
           D == DirsOf(base)
           a(d) == IF d \in SentDirs(base) THEN "dir" ELSE Bogus
           e(p) == IF cvs THEN Rec(IF Live(base, p) THEN "V" ELSE "v", p, "", base[p].ver)
                   ELSE IF Live(base, p) THEN Rec("C", p, base[p].ver, base[p].ver)
                   ELSE Rec("c", p, "dead", "")
           R1 == {Rec("D", d, "", "") : d \in D}
           R2 == {Rec("U", d, "", a(d)) : d \in D}
           R3 == {e(p) : p \in T}
           S == R1 \cup R2 \cup R3
<1>1. StatusOf(base) = Sorted(S, RecLess)
  BY DEF StatusOf
<1>2. /\ T \in SUBSET Files /\ IsFiniteSet(T) /\ D \subseteq Dirs /\ IsFiniteSet(D)
      /\ \A d \in D, n \in Nat :
           d \in Seq(Nat) /\ (n \in 1..Len(d) => SubSeq(d, 1, n) \in D)
      /\ \A p \in T :
           p \in Seq(Nat) /\ \A n \in 1..(Len(p) - 1) : SubSeq(p, 1, n) \in D
  <2>1. T \in SUBSET Files
    OBVIOUS
  <2>2. IsFiniteSet(T)
    BY <2>1, DirsFinite
  <2> QED BY <2>1, <2>2, TreeDirs
<1>3. \A d \in D : a(d) \in Words
  BY DEF Words
<1>17. \A p \in T : /\ e(p).type \in {"V", "v"} => cvs
                    /\ e(p).type \in {"C", "c"} => ~cvs
  BY DEF Rec
<1>4. \A p \in T : e(p) \in Good /\ e(p).path = p /\ e(p).type \notin DirTypes
  <2> SUFFICES ASSUME NEW p \in T
               PROVE  e(p) \in Good /\ e(p).path = p /\ e(p).type \notin DirTypes
    OBVIOUS
  <2>1. p \in Paths /\ p \in Files /\ base[p].ver \in {"v1"}
    BY FilePaths, TreeTypes
  <2>2. base[p].ver \in Words
    BY <2>1 DEF Words, Contents, Versions
  <2>3. "" \in Words /\ "dead" \in Words
    BY WordTypes
  <2>4. \A t \in {"C", "c", "V", "v"}, v \in Words, w \in Words :
          Rec(t, p, v, w) \in Good /\ Rec(t, p, v, w).path = p /\ Rec(t, p, v, w).type \notin DirTypes
    BY <2>1 DEF Good, Recs, Rec, DirTypes
  <2> QED BY <2>2, <2>3, <2>4
<1> HIDE DEF T, D, a, e
<1>5. \A r \in R1 : /\ r \in Good /\ r.type = "D" /\ r.path \in D /\ r = DownRec(r.path)
  <2>1. \A d \in D : DownRec(d) \in Good /\ DownRec(d).path = d /\ DownRec(d).type = "D"
    BY <1>2, MarkFacts, WordTypes
  <2> QED BY <2>1 DEF DownRec
<1>6. \A r \in R2 : /\ r \in Good /\ r.type = "U" /\ r.path \in D
                    /\ r = Rec("U", r.path, "", a(r.path))
  <2>1. ASSUME NEW d \in D
        PROVE  /\ Rec("U", d, "", a(d)) \in Good
               /\ Rec("U", d, "", a(d)).path = d
               /\ Rec("U", d, "", a(d)).type = "U"
    BY <1>2, <1>3, MarkFacts
  <2> QED BY <2>1
<1>7. \A r \in R3 : /\ r \in Good /\ r.type \notin DirTypes /\ r.path \in T
                    /\ r = e(r.path)
  BY <1>4
<1>8. \A d \in D : /\ DownRec(d) \in R1
                   /\ \E u \in R2 : u.type = "U" /\ u.path = d
  <2> SUFFICES ASSUME NEW d \in D
               PROVE  DownRec(d) \in R1 /\ \E u \in R2 : u.type = "U" /\ u.path = d
    OBVIOUS
  <2>1. DownRec(d) \in R1
    BY DEF DownRec
  <2> DEFINE u == Rec("U", d, "", a(d))
  <2>2. u \in R2
    OBVIOUS
  <2>3. u.type = "U" /\ u.path = d
    BY DEF Rec
  <2> HIDE DEF u, R1, R2
  <2> QED BY <2>1, <2>2, <2>3
<1>9. IsFiniteSet(S)
  <2> DEFINE f1 == [d \in D |-> Rec("D", d, "", "")]
             f2 == [d \in D |-> Rec("U", d, "", a(d))]
             f3 == [p \in T |-> e(p)]
  <2>1. R1 = {f1[d] : d \in D} /\ R2 = {f2[d] : d \in D} /\ R3 = {f3[p] : p \in T}
    OBVIOUS
  <2> HIDE DEF R1, R2, R3, f1, f2, f3
  <2>2. IsFiniteSet(R1) /\ IsFiniteSet(R2) /\ IsFiniteSet(R3)
    BY <1>2, <2>1, ImageFinite
  <2> QED BY <2>2, FS_Union
<1> HIDE DEF R1, R2, R3
<1>10. S \subseteq Good
  BY <1>5, <1>6, <1>7
<1>11. \A x, y \in S : Same(x, y) => x = y
  <2> SUFFICES ASSUME NEW x \in S, NEW y \in S, Same(x, y)
               PROVE  x = y
    OBVIOUS
  <2>1. x.path = y.path /\ (x.type = "U" <=> y.type = "U")
    BY DEF Same
  <2>2. D \cap T = {}
    BY <1>2, FolderFacts
  <2>3. CASE x \in R1
    <3>1. y \in R1
      BY <1>5, <1>6, <1>7, <2>1, <2>2, <2>3
    <3> QED BY <1>5, <2>1, <2>3, <3>1
  <2>4. CASE x \in R2
    <3>1. y \in R2
      BY <1>5, <1>6, <1>7, <2>1, <2>2, <2>4 DEF DirTypes
    <3> QED BY <1>6, <2>1, <2>4, <3>1
  <2>5. CASE x \in R3
    <3>1. y \in R3
      BY <1>5, <1>6, <1>7, <2>1, <2>2, <2>5 DEF DirTypes
    <3> QED BY <1>7, <2>1, <2>5, <3>1
  <2> QED BY <2>3, <2>4, <2>5
<1>12. \A r \in S : \A n \in 1..Len(Target(r)) : SubSeq(Target(r), 1, n) \in D
  <2> SUFFICES ASSUME NEW r \in S, NEW n \in 1..Len(Target(r))
               PROVE  SubSeq(Target(r), 1, n) \in D
    OBVIOUS
  <2>1. CASE r \in R1
    <3>1. Target(r) = r.path /\ r.path \in D
      BY <1>5, <2>1 DEF Target
    <3> QED BY <1>2, <3>1
  <2>2. CASE r \in R2 \/ r \in R3
    <3> DEFINE p == r.path
               q == Target(r)
    <3>1. /\ p \in Seq(Nat) /\ p # <<>> /\ q = Front(p)
          /\ \A k \in 1..(Len(p) - 1) : SubSeq(p, 1, k) \in D
      <4>1. p \in Seq(Nat) /\ p # <<>> /\ q = Front(p)
        <5>1. r \in Good /\ r.type # "D"
          BY <1>6, <1>7, <2>2 DEF DirTypes
        <5> QED BY <5>1, Targets
      <4>2. ASSUME NEW k \in 1..(Len(p) - 1)
            PROVE  SubSeq(p, 1, k) \in D
        <5>1. CASE r \in R2
          <6>2. p \in D
            BY <1>6, <5>1
          <6>3. Len(p) \in Nat
            BY <4>1
          <6>1. p \in D /\ k \in Nat /\ k \in 1..Len(p)
            BY <6>2, <6>3
          <6> QED BY <1>2, <6>1
        <5>2. CASE r \in R3
          <6>1. p \in T
            BY <1>7, <5>2
          <6> QED BY <1>2, <6>1
        <5> QED BY <2>2, <5>1, <5>2
      <4> QED BY <4>1, <4>2
    <3> HIDE DEF p, q
    <3>2. q = SubSeq(p, 1, Len(p) - 1) /\ Len(q) = Len(p) - 1 /\ Len(p) \in Nat
      BY SMTT(30), <3>1, FrontPiece
    <3> DEFINE m == Len(p) - 1
    <3>3. n \in 1..m /\ m \in 0..Len(p) /\ n \in 0..m
      <4>1. n \in 1..Len(q)
        BY DEF q
      <4> QED BY <3>2, <4>1
    <3>4. q = SubSeq(p, 1, m)
      BY <3>2
    <3>5. \A k \in 1..m : SubSeq(p, 1, k) \in D
      BY <3>1
    <3> HIDE DEF m
    <3>6. SubSeq(q, 1, n) = SubSeq(p, 1, n)
      BY <3>1, <3>3, <3>4, PieceOfPiece
    <3> QED BY <3>3, <3>5, <3>6 DEF q
  <2> QED BY <2>1, <2>2
<1>13. \A r \in S : r.type = "U" => DownRec(r.path) \in S
  BY <1>5, <1>6, <1>7, <1>8 DEF DirTypes
<1>14. Complete(S)
  BY <1>8, <1>10, <1>11, <1>12, <1>13 DEF Complete
<1> DEFINE q == Sorted(S, RecLess)
<1>15. q \in Seq(Good) /\ Range(q) = S /\ Increasing(q)
  BY <1>9, <1>10, <1>11, SortedRecs
<1> HIDE DEF S, q
<1>16. Sound(<<>>, q)
  BY <1>14, <1>15, CompleteSound
<1>18. \A r \in S : r \in Moded(cvs)
  BY <1>5, <1>6, <1>7, <1>10, <1>17, GoodRecs DEF Moded, S
<1>19. q \in Seq(Moded(cvs))
  BY <1>15, <1>18, RangeSeq
<1> QED BY <1>1, <1>16, <1>19 DEF q

-----------------------------------------------------------------------------
(* The lister, record by record *)

\* A walk by its fields.
LEMMA WalkFields ==
    ASSUME NEW w \in Walks
    PROVE  /\ w = [out |-> w.out, here |-> w.here, stack |-> w.stack, own |-> w.own,
                   depth |-> w.depth, prune |-> w.prune]
           /\ w.out \in Seq(Items) /\ w.here \in Seq(Nat) /\ w.stack \in Seq(Paths)
           /\ w.depth \in Int /\ w.prune \in Int
BY DEF Walks

\* The server follows the lister: in the directory of the status file, or in
\* the one above the first that is not there.
Way(w, T) ==
    /\ T \in Folders /\ w.depth = Len(T) /\ Len(w.stack) = Len(w.here)
    /\ \/ /\ w.prune = Far /\ w.here = T
          /\ \A j \in 1..Len(T) : SubSeq(T, 1, j) \in dirs
       \/ /\ w.prune \in 1..Len(T) /\ w.here = SubSeq(T, 1, w.prune - 1)
          /\ SubSeq(T, 1, w.prune) \notin dirs
          /\ \A j \in 1..(w.prune - 1) : SubSeq(T, 1, j) \in dirs

\* The last name of a path, in its directory.
LEMMA FrontLast ==
    ASSUME NEW p \in Seq(Nat), p # <<>>
    PROVE  Append(Front(p), Last(p)) = p
<1> DEFINE f == Front(p)
           q == Append(f, Last(p))
           n == Len(p)
<1>1. f \in Seq(Nat) /\ Len(f) = n - 1 /\ \A i \in 1..(n - 1) : f[i] = p[i]
  BY FrontPiece
<1>2. n \in Nat \ {0} /\ Last(p) = p[n] /\ p[n] \in Nat
  BY DEF Last
<1> HIDE DEF f, n
<1>3. q \in Seq(Nat) /\ Len(q) = n /\ \A i \in 1..n : q[i] = p[i]
  BY <1>1, <1>2
<1>4. Len(q) = Len(p)
  BY <1>3 DEF n
<1> HIDE DEF q
<1>5. \A i \in 1..Len(q) : q[i] = p[i]
  BY <1>3, <1>4 DEF n
<1> QED BY <1>3, <1>4, <1>5, SeqEqual DEF q, f

\* A directory of the collection is no place of a file.
LEMMA DirsNoPlace ==
    ASSUME TypeOK, NEW d \in Dirs
    PROVE  ~On(d)
<1>1. PICK p \in Files : d \in Above(p)
  BY DEF Dirs
<1>2. PICK n \in 1..(Len(p) - 1) : d = SubSeq(p, 1, n)
  BY <1>1 DEF Above
<1>3. p \in Seq(Nat) /\ Len(p) \in Nat /\ \A i \in 1..Len(p) : p[i] # 0
  BY UpdateAssumption
<1>4. Len(d) = n /\ \A i \in 1..n : d[i] = p[i] /\ d[i] # 0
  <2>1. n \in 0..Len(p) /\ \A i \in 1..n : i \in 1..Len(p)
    BY <1>3
  <2> QED BY <1>2, <1>3, <2>1, PathParts
<1>5. d \notin Files
  BY FolderFacts
<1>6. ASSUME NEW q \in RcsFiles, d = Attic(q)
      PROVE  FALSE
  <2> DEFINE f == Front(q)
             m == Len(q)
  <2>1. q \in Seq(Nat) /\ q # <<>>
    BY FilePaths DEF Paths
  <2>2. f \in Seq(Nat) /\ Len(f) = m - 1 /\ m \in Nat \ {0}
    BY <2>1, FrontPiece
  <2>3. d = f \o <<0, Last(q)>>
    BY <1>6 DEF Attic
  <2> HIDE DEF f, m
  <2>4. Len(d) = m + 1 /\ d[m] = 0
    BY <2>2, <2>3
  <2> QED BY <1>4, <2>2, <2>4
<1> QED BY <1>5, <1>6 DEF TypeOK, On

\* lister_dodirdown()
LEMMA WayDown ==
    ASSUME TypeOK, NEW w \in Walks, NEW T, Way(w, T), NEW r \in Good, r.type = "D",
           Sync(T, r)
    PROVE  LET v == ListRecord(w, r)
           IN /\ Way(v, r.path)
              /\ v.out = w.out \/ v.out = Append(w.out, Item("D", r.path, ""))
<1> DEFINE v == ListRecord(w, r)
           p == r.path
           n == Len(T)
           x == [w EXCEPT !.depth = @ + 1]
<1>1. /\ p \in Dirs /\ p \in Seq(Nat) /\ p # <<>> /\ T = Front(p) /\ p \in Folders
  BY Targets DEF Sync, InSync, Folders
<1>2. /\ T \in Seq(Nat) /\ Len(p) = n + 1 /\ n \in Nat /\ Append(T, Last(p)) = p
      /\ \A j \in 1..n : SubSeq(p, 1, j) = SubSeq(T, 1, j)
      /\ SubSeq(p, 1, n + 1) = p /\ SubSeq(p, 1, n) = T
  <2>1. T \in Seq(Nat) /\ Len(T) = Len(p) - 1 /\ T = SubSeq(p, 1, Len(p) - 1)
    BY <1>1, FrontPiece
  <2>2. Len(p) = n + 1 /\ n \in Nat
    BY <1>1, <2>1
  <2>3. T = SubSeq(p, 1, n)
    BY <1>1, <2>1, <2>2
  <2>4. Append(T, Last(p)) = p
    BY <1>1, FrontLast
  <2>5. SubSeq(p, 1, n + 1) = p
    BY <1>1, <2>2, SubSeqFull
  <2> HIDE DEF n, p
  <2>6. \A j \in 1..n : SubSeq(p, 1, j) = SubSeq(T, 1, j)
    <3> SUFFICES ASSUME NEW j \in 1..n
                 PROVE  SubSeq(p, 1, j) = SubSeq(T, 1, j)
      OBVIOUS
    <3>1. n \in 0..Len(p) /\ j \in 0..n
      BY <2>2
    <3> QED BY <1>1, <2>3, <3>1, PieceOfPiece
  <2> QED BY <2>1, <2>2, <2>3, <2>4, <2>5, <2>6
<1>3. /\ w = [out |-> w.out, here |-> w.here, stack |-> w.stack, own |-> w.own,
              depth |-> w.depth, prune |-> w.prune]
      /\ w.out \in Seq(Items) /\ w.here \in Seq(Nat) /\ w.stack \in Seq(Paths)
  BY WalkFields
<1>4. x = [out |-> w.out, here |-> w.here, stack |-> w.stack, own |-> w.own,
           depth |-> n + 1, prune |-> w.prune]
  BY <1>3 DEF Way
<1>5. v = IF n + 1 < w.prune THEN ListDirDown(x, r) ELSE x
  BY <1>4 DEF ListRecord
<1>6. n + 1 < Far
  BY <1>1, <1>2, FolderFacts DEF Way
<1> HIDE DEF v, p, n, x
<1>7. CASE w.prune = Far /\ w.here = T /\ \A j \in 1..n : SubSeq(T, 1, j) \in dirs
  <2>1. v = ListDirDown(x, r)
    BY <1>5, <1>6, <1>7
  <2>2. CASE p \in dirs
    <3>1. v = [out |-> Append(w.out, Item("D", p, "")), here |-> p,
               stack |-> Append(w.stack, p), own |-> w.own, depth |-> n + 1,
               prune |-> Far]
      BY <1>2, <1>4, <1>7, <2>1, <2>2 DEF ListDirDown, p
    <3>2. Len(Append(w.stack, p)) = n + 1
      BY <1>3, <1>7 DEF Way, n
    <3>3. \A j \in 1..(n + 1) : SubSeq(p, 1, j) \in dirs
      <4>1. \A j \in 1..(n + 1) : j \in 1..n \/ j = n + 1
        BY <1>2
      <4> QED BY <1>2, <1>7, <2>2, <4>1
    <3>4. Way(v, p)
      BY <1>1, <1>2, <3>1, <3>2, <3>3 DEF Way
    <3>5. v.out = Append(w.out, Item("D", p, ""))
      BY <3>1
    <3> QED BY <3>4, <3>5 DEF p, v
  <2>3. CASE p \notin dirs
    <3>1. ~On(p)
      BY <1>1, DirsNoPlace
    <3>2. v = [out |-> w.out, here |-> T, stack |-> w.stack, own |-> w.own,
               depth |-> n + 1, prune |-> n + 1]
      BY <1>4, <1>7, <2>1, <2>3, <3>1 DEF ListDirDown, p
    <3>3. n + 1 \in 1..(n + 1) /\ (n + 1) - 1 = n
      BY <1>2
    <3>4. \A j \in 1..n : SubSeq(p, 1, j) \in dirs
      BY <1>2, <1>7
    <3> DEFINE k == n + 1
    <3>5. v.prune = k /\ k \in 1..Len(p) /\ k - 1 = n /\ v.depth = Len(p)
          /\ SubSeq(p, 1, k) \notin dirs /\ v.here = SubSeq(p, 1, n)
          /\ Len(v.stack) = Len(v.here)
      BY <1>2, <1>7, <2>3, <3>2, <3>3 DEF Way
    <3> HIDE DEF k
    <3>6. Way(v, p)
      BY <1>1, <3>4, <3>5 DEF Way
    <3>7. v.out = w.out
      BY <3>2
    <3> QED BY <3>6, <3>7 DEF p, v
  <2> QED BY <2>2, <2>3
<1>8. CASE /\ w.prune \in 1..n /\ w.here = SubSeq(T, 1, w.prune - 1)
           /\ SubSeq(T, 1, w.prune) \notin dirs
           /\ \A j \in 1..(w.prune - 1) : SubSeq(T, 1, j) \in dirs
  <2> DEFINE k == w.prune
             m == k - 1
  <2>1. k \in 1..n /\ m \in 0..n /\ k \in 1..Len(p) /\ ~(n + 1 < k)
    BY <1>2, <1>8
  <2>2. v = x
    BY <1>5, <2>1
  <2>3. \A j \in 1..m : j \in 1..n
    BY <1>2, <2>1
  <2> HIDE DEF k, m
  <2>4. SubSeq(p, 1, m) = SubSeq(T, 1, m)
    <3>1. n \in 0..Len(p)
      BY <1>2
    <3> QED BY <1>1, <1>2, <2>1, <3>1, PieceOfPiece
  <2>5. SubSeq(p, 1, k) = SubSeq(T, 1, k)
    BY <1>2, <2>1
  <2>6. \A j \in 1..m : SubSeq(p, 1, j) \in dirs
    <3>1. \A j \in 1..m : SubSeq(T, 1, j) \in dirs
      BY <1>8 DEF k, m
    <3> QED BY <1>2, <2>3, <3>1
  <2>7. /\ v.prune = k /\ v.here = SubSeq(p, 1, m) /\ SubSeq(p, 1, k) \notin dirs
        /\ v.depth = Len(p) /\ Len(v.stack) = Len(v.here) /\ v.out = w.out
    BY <1>2, <1>4, <1>8, <2>2, <2>4, <2>5 DEF Way, k, m
  <2>8. Way(v, p)
    BY <1>1, <2>1, <2>6, <2>7 DEF Way, m
  <2> QED BY <2>7, <2>8 DEF p, v
<1> QED BY <1>7, <1>8 DEF Way, n

\* lister_dodirup()
LEMMA WayUp ==
    ASSUME TypeOK, NEW w \in Walks, NEW T, Way(w, T), NEW r \in Good, r.type = "U",
           Sync(T, r)
    PROVE  LET v == ListRecord(w, r)
           IN /\ Way(v, Front(r.path)) /\ T \in Dirs
              /\ v.out = w.out \/ \E a : v.out = Append(w.out, Item("U", T, a))
<1> DEFINE v == ListRecord(w, r)
           q == Front(r.path)
           n == Len(T)
           m == n - 1
           l == Leave(w, r)
<1>1. /\ q \in Folders /\ T # <<>> /\ q = Front(T) /\ T \in Folders /\ T \in Dirs
      /\ q \in Seq(Nat)
  <2>1. T # <<>> /\ Front(T) = q /\ T \in Folders
    BY DEF Sync, InSync, Way
  <2>2. q \in Folders /\ q \in Seq(Nat)
    BY Targets, FolderFacts
  <2> QED BY <2>1, <2>2 DEF Folders
<1>2. /\ T \in Seq(Nat) /\ n \in Nat \ {0} /\ m \in Nat /\ Len(q) = m /\ q = SubSeq(T, 1, m)
      /\ \A j \in 0..m : SubSeq(q, 1, j) = SubSeq(T, 1, j)
  <2>1. T \in Seq(Nat)
    BY <1>1, FolderFacts
  <2>2. q = SubSeq(T, 1, m) /\ Len(q) = m /\ n \in Nat \ {0}
    BY <1>1, <2>1, FrontPiece
  <2>3. m \in Nat /\ m \in 0..Len(T)
    BY <2>2
  <2> HIDE DEF m, n, q
  <2>4. \A j \in 0..m : SubSeq(q, 1, j) = SubSeq(T, 1, j)
    BY <2>1, <2>2, <2>3, PieceOfPiece
  <2> QED BY <2>1, <2>2, <2>3, <2>4
<1>3. /\ w = [out |-> w.out, here |-> w.here, stack |-> w.stack, own |-> w.own,
              depth |-> w.depth, prune |-> w.prune]
      /\ w.out \in Seq(Items) /\ w.here \in Seq(Nat) /\ w.stack \in Seq(Paths)
  BY WalkFields
<1>4. w.depth = n /\ Len(w.stack) = Len(w.here)
  BY DEF Way
<1>5. v = [l EXCEPT !.depth = @ - 1]
  BY DEF ListRecord
<1>6. l = IF n < w.prune THEN ListDirUp(w, r)
          ELSE IF n = w.prune THEN [w EXCEPT !.prune = Far] ELSE w
  BY <1>4 DEF Leave
<1>7. n < Far
  <2>1. Len(T) \in Nat /\ Len(T) + 1 < Far /\ Far \in Nat
    BY <1>1, FolderFacts, FarAway
  <2> QED BY <2>1
<1> HIDE DEF v, l, q, n
<1>8. CASE w.prune = Far /\ w.here = T /\ \A j \in 1..n : SubSeq(T, 1, j) \in dirs
  <2>1. l = ListDirUp(w, r)
    BY <1>6, <1>7, <1>8
  <2> DEFINE a == Equal(r, "dir")
             s == Front(w.stack)
             o == w.own /\ w.stack # <<>> /\ Last(w.stack) = r.path
  <2>2. ListDirUp(w, r) = [w EXCEPT !.out = Append(@, Item("U", w.here, a)),
                                    !.here = Front(@), !.own = o, !.stack = s]
    BY DEF ListDirUp
  <2> HIDE DEF a, s, o
  <2>3. l = [out |-> Append(w.out, Item("U", T, a)), here |-> q, stack |-> s,
             own |-> o, depth |-> n, prune |-> Far]
    BY <1>1, <1>3, <1>4, <1>8, <2>1, <2>2
  <2>4. v = [out |-> Append(w.out, Item("U", T, a)), here |-> q, stack |-> s,
             own |-> o, depth |-> m, prune |-> Far]
    BY <1>5, <2>3
  <2>5. Len(s) = m
    <3> DEFINE k == w.stack
    <3>1. k \in Seq(Paths) /\ Len(k) = n /\ n # 0
      BY <1>2, <1>3, <1>4, <1>8 DEF n
    <3> HIDE DEF k
    <3>2. k # <<>>
      BY <3>1
    <3>3. Front(k) = SubSeq(k, 1, m)
      BY <3>1 DEF Front
    <3>4. m \in 0..Len(k)
      BY <1>2, <3>1
    <3>5. Len(SubSeq(k, 1, m)) = m
      BY <1>2, <3>1, <3>4
    <3> QED BY <3>3, <3>5 DEF s, k
  <2>6. \A j \in 1..m : SubSeq(q, 1, j) \in dirs
    <3>1. \A j \in 1..m : j \in 0..m /\ j \in 1..n
      BY <1>2
    <3> QED BY <1>2, <1>8, <3>1
  <2>7. v.depth = Len(q) /\ Len(v.stack) = Len(v.here) /\ v.prune = Far /\ v.here = q
    BY <1>2, <2>4, <2>5
  <2>8. \A j \in 1..Len(q) : SubSeq(q, 1, j) \in dirs
    BY <1>2, <2>6
  <2>9. Way(v, q)
    BY <1>1, <2>7, <2>8 DEF Way
  <2>10. v.out = Append(w.out, Item("U", T, a))
    BY <2>4
  <2> QED BY <1>1, <2>9, <2>10 DEF v, q
<1>9. CASE /\ w.prune \in 1..n /\ w.here = SubSeq(T, 1, w.prune - 1)
           /\ SubSeq(T, 1, w.prune) \notin dirs
           /\ \A j \in 1..(w.prune - 1) : SubSeq(T, 1, j) \in dirs
  <2> DEFINE k == w.prune
             i == k - 1
  <2>1. k \in 1..n /\ i \in 0..m /\ ~(n < k)
    BY <1>2, <1>9
  <2>2. /\ SubSeq(q, 1, i) = SubSeq(T, 1, i)
        /\ \A j \in 1..i : SubSeq(q, 1, j) \in dirs
    <3>1. \A j \in 1..i : j \in 0..m
      BY <1>2, <2>1
    <3>2. \A j \in 1..i : SubSeq(T, 1, j) \in dirs
      BY <1>9
    <3> HIDE DEF i
    <3> QED BY <1>2, <2>1, <3>1, <3>2
  <2>3. CASE n = k
    <3>1. l = [out |-> w.out, here |-> w.here, stack |-> w.stack, own |-> w.own,
               depth |-> n, prune |-> Far]
      <4>1. l = [w EXCEPT !.prune = Far]
        BY <1>6, <2>1, <2>3
      <4> QED BY <1>3, <1>4, <4>1
    <3>2. v = [out |-> w.out, here |-> w.here, stack |-> w.stack, own |-> w.own,
               depth |-> m, prune |-> Far]
      BY <1>5, <3>1
    <3>3. i = m
      BY <2>3
    <3>4. w.here = q
      BY <1>2, <1>9, <3>3
    <3>5. \A j \in 1..Len(q) : SubSeq(q, 1, j) \in dirs
      BY <1>2, <2>2, <3>3
    <3>6. v.depth = Len(q) /\ Len(v.stack) = Len(v.here) /\ v.prune = Far /\ v.here = q
          /\ v.out = w.out
      BY <1>2, <1>4, <3>2, <3>4
    <3>7. Way(v, q)
      BY <1>1, <3>5, <3>6 DEF Way
    <3> QED BY <1>1, <3>6, <3>7 DEF v, q
  <2>4. CASE n # k
    <3>1. l = w
      BY <1>6, <2>1, <2>4
    <3>2. v = [out |-> w.out, here |-> w.here, stack |-> w.stack, own |-> w.own,
               depth |-> m, prune |-> k]
      BY <1>3, <1>4, <1>5, <3>1
    <3>3. k \in 1..m /\ k \in 0..m
      BY <1>2, <2>1, <2>4
    <3>4. SubSeq(q, 1, k) = SubSeq(T, 1, k)
      <4> HIDE DEF k
      <4> QED BY <1>2, <3>3
    <3>5. /\ v.depth = Len(q) /\ Len(v.stack) = Len(v.here) /\ v.prune = k
          /\ v.here = SubSeq(q, 1, i) /\ k \in 1..Len(q) /\ SubSeq(q, 1, k) \notin dirs
          /\ v.out = w.out
      BY <1>2, <1>4, <1>9, <2>2, <3>2, <3>3, <3>4
    <3>6. Way(v, q)
      <4>1. /\ v.prune \in 1..Len(q) /\ v.here = SubSeq(q, 1, v.prune - 1)
            /\ SubSeq(q, 1, v.prune) \notin dirs
            /\ \A j \in 1..(v.prune - 1) : SubSeq(q, 1, j) \in dirs
        BY <2>2, <3>5
      <4> QED BY <1>1, <3>5, <4>1 DEF Way
    <3> QED BY <1>1, <3>5, <3>6 DEF v, q
  <2> QED BY <2>3, <2>4
<1> QED BY <1>8, <1>9 DEF Way, n

\* The directories above a file whose record the compressor is in place for.
LEMMA AboveOf ==
    ASSUME NEW r \in Good, r.type \notin DirTypes
    PROVE  Above(r.path) = {SubSeq(Front(r.path), 1, j) : j \in 1..Len(Front(r.path))}
<1> DEFINE p == r.path
           T == Front(p)
           m == Len(p) - 1
<1>1. p \in Seq(Nat) /\ p # <<>>
  BY Targets
<1>2. T = SubSeq(p, 1, m) /\ Len(T) = m /\ Len(p) \in Nat
  <2>1. T = SubSeq(p, 1, m) /\ Len(T) = m
    BY <1>1, FrontPiece
  <2>2. Len(p) \in Nat
    BY <1>1
  <2> QED BY <2>1, <2>2
<1>3. m \in 0..Len(p)
  <2>1. Len(p) # 0
    BY <1>1
  <2> QED BY <1>2, <2>1
<1> HIDE DEF T, m, p
<1>4. \A j \in 1..m : SubSeq(T, 1, j) = SubSeq(p, 1, j)
  <2> SUFFICES ASSUME NEW j \in 1..m
               PROVE  SubSeq(T, 1, j) = SubSeq(p, 1, j)
    OBVIOUS
  <2>1. j \in 0..m
    BY <1>3
  <2> QED BY <1>1, <1>2, <1>3, <2>1, PieceOfPiece
<1>5. Above(p) = {SubSeq(p, 1, j) : j \in 1..m}
  BY DEF Above, m
<1>6. Above(p) = {SubSeq(T, 1, j) : j \in 1..Len(T)}
  BY <1>2, <1>4, <1>5
<1> QED BY <1>6 DEF p, T

\* What the lister says of a file.
Report(r) ==
    LET place == Place(r.path, r.type = "v")
        Says(t, a) == Item(t, r.path, a)
    IN IF r.type = "C"
       THEN Says("F", IF On(r.path) /\ disk[r.path] = r.attr THEN r.ver ELSE Bogus)
       ELSE IF r.type = "c"
       THEN IF On(r.path) THEN Says("F", Bogus) ELSE Says("f", r.ver)
       ELSE IF On(place)
       THEN Says(IF r.type = "v" THEN "f" ELSE "F", Equal(r, disk[place]))
       ELSE Says("F", Bogus)

\* It says it under the name of the file.
LEMMA ReportFile ==
    ASSUME NEW r
    PROVE  Report(r).type \in {"F", "f"} /\ Report(r).path = r.path
BY DEF Report, Item

\* lister_dofile(), lister_dodead() and lister_dorcs()
LEMMA WayFile ==
    ASSUME TypeOK, NEW w \in Walks, NEW T, Way(w, T), NEW r \in Good,
           r.type \notin DirTypes, Sync(T, r)
    PROVE  LET v == ListRecord(w, r)
               here == Above(r.path) \subseteq dirs
           IN /\ Way(v, T) /\ T = Front(r.path)
              /\ \/ v.out = w.out /\ (here => ~cvs /\ r.type \notin {"C", "c"})
                 \/ here /\ v.out = Append(w.out, Report(r))
<1> DEFINE v == ListRecord(w, r)
           here == Above(r.path) \subseteq dirs
           n == Len(T)
<1>1. /\ T = Front(r.path) /\ T \in Folders /\ w.depth = n
      /\ r.path \in Seq(Nat) /\ r.path # <<>> /\ n \in Nat
      /\ T \in Seq(Nat)
  <2>1. T = Front(r.path) /\ T \in Folders /\ w.depth = n
    BY DEF Sync, InSync, Way, DirTypes
  <2>2. T \in Seq(Nat) /\ n \in Nat
    BY <2>1, FolderFacts
  <2> QED BY <2>1, <2>2, Targets
<1>2. /\ w = [out |-> w.out, here |-> w.here, stack |-> w.stack, own |-> w.own,
              depth |-> w.depth, prune |-> w.prune]
      /\ w.out \in Seq(Items) /\ w.here \in Seq(Nat) /\ w.stack \in Seq(Paths)
  BY WalkFields
<1>3. v = IF n >= w.prune THEN w ELSE ListAnyFile(w, r)
  BY <1>1 DEF ListRecord, DirTypes
<1>4. n < Far
  <2>1. Len(T) \in Nat /\ Len(T) + 1 < Far /\ Far \in Nat
    BY <1>1, FolderFacts, FarAway
  <2> QED BY <2>1
<1>5. Above(r.path) = {SubSeq(T, 1, j) : j \in 1..n}
  BY <1>1, AboveOf
<1> HIDE DEF v, n
<1>6. CASE w.prune = Far /\ w.here = T /\ \A j \in 1..n : SubSeq(T, 1, j) \in dirs
  <2>1. v = ListAnyFile(w, r)
    <3>1. ~(n >= w.prune)
      BY <1>1, <1>4, <1>6, FarAway
    <3> QED BY <1>3, <3>1
  <2>2. here
    BY <1>5, <1>6
  <2>3. Append(w.here, Last(r.path)) = r.path
    BY <1>1, <1>6, FrontLast
  <2>4. ASSUME NEW t, NEW a
        PROVE  /\ Emit(w, t, r, a).out = Append(w.out, Item(t, r.path, a))
               /\ Way(Emit(w, t, r, a), T)
    <3> DEFINE e == Emit(w, t, r, a)
    <3>1. e = [out |-> Append(w.out, Item(t, r.path, a)), here |-> w.here,
               stack |-> w.stack, own |-> w.own, depth |-> w.depth, prune |-> w.prune]
      <4> DEFINE x == Item(t, r.path, a)
      <4>1. e = [w EXCEPT !.out = Append(w.out, x)]
        BY <2>3 DEF Emit
      <4> HIDE DEF x, e
      <4>2. e = [out |-> Append(w.out, x), here |-> w.here, stack |-> w.stack,
                 own |-> w.own, depth |-> w.depth, prune |-> w.prune]
        BY <1>2, <4>1
      <4> QED BY <4>2 DEF x
    <3> HIDE DEF e
    <3>2. e.depth = w.depth /\ e.here = w.here /\ e.stack = w.stack /\ e.prune = w.prune
          /\ e.out = Append(w.out, Item(t, r.path, a))
      BY <3>1
    <3>3. Way(e, T)
      BY <3>2 DEF Way
    <3> QED BY <3>2, <3>3 DEF e
  <2>5. \/ v = w /\ ~cvs /\ r.type \notin {"C", "c"}
        \/ \E t \in {"F", "f"} : \E a : v = Emit(w, t, r, a) /\ Report(r) = Item(t, r.path, a)
    <3> DEFINE place == Place(r.path, r.type = "v")
               Said(x) == \E t \in {"F", "f"} : \E a :
                            x = Emit(w, t, r, a) /\ Report(r) = Item(t, r.path, a)
    <3>1. CASE r.type = "C"
      <4>1. v = ListFile(w, r)
        BY <2>1, <3>1 DEF ListAnyFile
      <4> DEFINE a == IF On(r.path) /\ disk[r.path] = r.attr THEN r.ver ELSE Bogus
      <4>2. ListFile(w, r) = Emit(w, "F", r, a) /\ Report(r) = Item("F", r.path, a)
        BY <3>1 DEF ListFile, Report
      <4> HIDE DEF a
      <4> QED BY <4>1, <4>2
    <3>2. CASE r.type = "c"
      <4>1. v = ListDead(w, r)
        BY <2>1, <3>2 DEF ListAnyFile
      <4>2. CASE On(r.path)
        <5>1. ListDead(w, r) = Emit(w, "F", r, Bogus) /\ Report(r) = Item("F", r.path, Bogus)
          BY <3>2, <4>2 DEF ListDead, Report
        <5> QED BY <4>1, <5>1
      <4>3. CASE ~On(r.path)
        <5>1. ListDead(w, r) = Emit(w, "f", r, r.ver) /\ Report(r) = Item("f", r.path, r.ver)
          BY <3>2, <4>3 DEF ListDead, Report
        <5> QED BY <4>1, <5>1
      <4> QED BY <4>2, <4>3
    <3>3. CASE r.type \notin {"C", "c"} /\ cvs
      <4>1. v = ListRcs(w, r)
        BY <2>1, <3>3 DEF ListAnyFile
      <4>2. CASE On(place)
        <5> DEFINE t == IF r.type = "v" THEN "f" ELSE "F"
                   a == Equal(r, disk[place])
        <5>1. ListRcs(w, r) = Emit(w, t, r, a) /\ Report(r) = Item(t, r.path, a)
          BY <3>3, <4>2 DEF ListRcs, Report
        <5>2. t \in {"F", "f"}
          OBVIOUS
        <5> HIDE DEF t, a
        <5> QED BY <4>1, <5>1, <5>2
      <4>3. CASE ~On(place)
        <5>1. ListRcs(w, r) = Emit(w, "F", r, Bogus) /\ Report(r) = Item("F", r.path, Bogus)
          BY <3>3, <4>3 DEF ListRcs, Report
        <5> QED BY <4>1, <5>1
      <4> QED BY <4>2, <4>3
    <3>4. CASE r.type \notin {"C", "c"} /\ ~cvs
      BY <2>1, <3>4 DEF ListAnyFile
    <3> QED BY <3>1, <3>2, <3>3, <3>4
  <2>6. CASE v = w /\ ~cvs /\ r.type \notin {"C", "c"}
    <3>1. Way(v, T) /\ v.out = w.out
      BY <2>6
    <3> QED BY <1>1, <2>6, <3>1 DEF v
  <2>7. CASE \E t \in {"F", "f"} : \E a : v = Emit(w, t, r, a) /\ Report(r) = Item(t, r.path, a)
    <3>0. PICK t \in {"F", "f"} : \E a : v = Emit(w, t, r, a) /\ Report(r) = Item(t, r.path, a)
      BY <2>7
    <3>1. PICK a : v = Emit(w, t, r, a) /\ Report(r) = Item(t, r.path, a)
      BY <3>0
    <3>2. Way(v, T) /\ v.out = Append(w.out, Report(r))
      BY <2>4, <3>1
    <3> QED BY <1>1, <2>2, <3>2 DEF v
  <2> QED BY <2>5, <2>6, <2>7
<1>7. CASE /\ w.prune \in 1..n /\ w.here = SubSeq(T, 1, w.prune - 1)
           /\ SubSeq(T, 1, w.prune) \notin dirs
           /\ \A j \in 1..(w.prune - 1) : SubSeq(T, 1, j) \in dirs
  <2>1. v = w
    BY <1>1, <1>3, <1>7
  <2>2. ~here
    BY <1>5, <1>7
  <2>3. Way(v, T) /\ v.out = w.out
    BY <2>1
  <2> QED BY <1>1, <2>2, <2>3 DEF v
<1> QED BY <1>6, <1>7 DEF Way, n

\* What is in a list with one more item.
LEMMA RangeAppend ==
    ASSUME NEW S, NEW q \in Seq(S), NEW x
    PROVE  Range(Append(q, x)) = Range(q) \cup {x}
<1> DEFINE n == Len(q)
           t == Append(q, x)
<1>1. n \in Nat /\ DOMAIN q = 1..n
  OBVIOUS
<1>2. DOMAIN t = 1..(n + 1) /\ t[n + 1] = x /\ \A i \in 1..n : t[i] = q[i]
  BY <1>1
<1>3. \A i : i \in 1..(n + 1) <=> i \in 1..n \/ i = n + 1
  BY <1>1
<1> HIDE DEF n, t
<1>4. Range(t) \subseteq Range(q) \cup {x}
  BY <1>1, <1>2, <1>3 DEF Range
<1>5. Range(q) \subseteq Range(t)
  BY <1>1, <1>2, <1>3 DEF Range
<1>6. x \in Range(t)
  BY <1>2, <1>3 DEF Range
<1> QED BY <1>4, <1>5, <1>6 DEF t

\* What the list says after some records: of directories and files, each under
\* its own name, of every file whose directories are there what the lister has
\* to say of its record, and of no other.
AFile(r) == r.type \notin DirTypes
Reached(r) == AFile(r) /\ Above(r.path) \subseteq dirs
OfMode(r) == cvs \/ r.type \in {"C", "c"}
Lists(out, q, m) ==
    /\ \A x \in Range(out) : IF AFile(x) THEN x.path \in Files ELSE x.path \in Dirs
    /\ \A x \in Range(out) : AFile(x) => \E i \in 1..m : Reached(q[i]) /\ x = Report(q[i])
    /\ \A i \in 1..m : Reached(q[i]) /\ OfMode(q[i]) => Report(q[i]) \in Range(out)

\* A mark in the status file puts no file on the list.
LEMMA ListsMark ==
    ASSUME NEW out, NEW q, NEW m \in Nat, Lists(out, q, m), ~AFile(q[m + 1]),
           NEW new, \/ Range(new) = Range(out)
                    \/ \E x : Range(new) = Range(out) \cup {x} /\ ~AFile(x) /\ x.path \in Dirs
    PROVE  Lists(new, q, m + 1)
<1>1. \A i : i \in 1..(m + 1) <=> i \in 1..m \/ i = m + 1
  OBVIOUS
<1>2. ~Reached(q[m + 1])
  BY DEF Reached
<1>3. /\ \A x \in Range(new) : IF AFile(x) THEN x.path \in Files ELSE x.path \in Dirs
      /\ \A x \in Range(new) : AFile(x) => x \in Range(out)
      /\ Range(out) \subseteq Range(new)
  BY DEF Lists
<1>4. \A x \in Range(new) : AFile(x) => \E i \in 1..(m + 1) : Reached(q[i]) /\ x = Report(q[i])
  BY <1>1, <1>3 DEF Lists
<1>5. \A i \in 1..(m + 1) : Reached(q[i]) /\ OfMode(q[i]) => Report(q[i]) \in Range(new)
  BY <1>1, <1>2, <1>3 DEF Lists
<1> QED BY <1>3, <1>4, <1>5 DEF Lists

\* A file record puts that file on the list, if its directories are there.
LEMMA ListsFile ==
    ASSUME NEW out, NEW q, NEW m \in Nat, Lists(out, q, m),
           AFile(q[m + 1]), q[m + 1].path \in Files, NEW new,
           \/ Range(new) = Range(out) /\ (Reached(q[m + 1]) => ~OfMode(q[m + 1]))
           \/ Reached(q[m + 1]) /\ Range(new) = Range(out) \cup {Report(q[m + 1])}
    PROVE  Lists(new, q, m + 1)
<1>1. \A i : i \in 1..(m + 1) <=> i \in 1..m \/ i = m + 1
  OBVIOUS
<1>2. CASE Range(new) = Range(out) /\ (Reached(q[m + 1]) => ~OfMode(q[m + 1]))
  BY <1>1, <1>2 DEF Lists
<1>3. CASE Reached(q[m + 1]) /\ Range(new) = Range(out) \cup {Report(q[m + 1])}
  <2> DEFINE y == Report(q[m + 1])
  <2>1. AFile(y) /\ y.path = q[m + 1].path
    BY ReportFile DEF AFile, DirTypes
  <2>2. m + 1 \in 1..(m + 1)
    OBVIOUS
  <2> HIDE DEF y
  <2>3. \A x \in Range(new) : IF AFile(x) THEN x.path \in Files ELSE x.path \in Dirs
    BY <1>3, <2>1 DEF Lists, y
  <2>4. \A x \in Range(new) : AFile(x) => \E i \in 1..(m + 1) : Reached(q[i]) /\ x = Report(q[i])
    <3> SUFFICES ASSUME NEW x \in Range(new), AFile(x)
                 PROVE  \E i \in 1..(m + 1) : Reached(q[i]) /\ x = Report(q[i])
      OBVIOUS
    <3>1. CASE x = y
      BY <1>3, <2>2, <3>1 DEF y
    <3>2. CASE x \in Range(out)
      BY <1>1, <3>2 DEF Lists
    <3> QED BY <1>3, <3>1, <3>2 DEF y
  <2>5. \A i \in 1..(m + 1) : Reached(q[i]) /\ OfMode(q[i]) => Report(q[i]) \in Range(new)
    BY <1>1, <1>3 DEF Lists
  <2> QED BY <2>3, <2>4, <2>5 DEF Lists
<1> QED BY <1>2, <1>3

\* The list for a status file the compressor can follow.
LEMMA WalkNames ==
    ASSUME TypeOK, NEW q \in Seq(Good), Linked(<<>>, q)
    PROVE  LET w == Walk(q)
           IN w \in Walks /\ Way(w, End(<<>>, q)) /\ Lists(w.out, q, Len(q))
<1> DEFINE w == Walk(q)
           n == Len(q)
<1>1. q \in Seq(Recs) /\ n \in Nat /\ DOMAIN q = 1..n /\ \A i \in 1..n : q[i] \in Good
  BY GoodRecs
<1>2. WalkTraced(q, w)
  BY <1>1, WalkTrace
<1> HIDE DEF w
<1>3. PICK tr \in [0..n -> Walks] :
        /\ tr[0] = WalkStart /\ w = tr[n]
        /\ \A m \in 0..(n - 1) : tr[m + 1] = ListRecord(tr[m], q[m + 1])
  BY <1>2 DEF WalkTraced
<1> DEFINE P(m) == Way(tr[m], From(<<>>, q, m + 1)) /\ Lists(tr[m].out, q, m)
           Z == {m \in Nat : m <= n => P(m)}
<1>4. 0 \in Z
  <2> DEFINE s == WalkStart
  <2>1. s.depth = 0 /\ s.prune = Far /\ s.here = <<>> /\ s.stack = <<>> /\ s.out = <<>>
    BY DEF WalkStart
  <2> HIDE DEF s
  <2>2. Range(<<>>) = {} /\ Len(<<>>) = 0
    BY DEF Range
  <2>3. <<>> \in Folders /\ From(<<>>, q, 0 + 1) = <<>>
    BY DEF Folders, From
  <2>4. 1..0 = {}
    OBVIOUS
  <2>5. Way(s, <<>>)
    BY <2>1, <2>2, <2>3, <2>4 DEF Way
  <2>6. Lists(s.out, q, 0)
    BY <2>1, <2>2, <2>4 DEF Lists
  <2> QED BY <1>3, <2>3, <2>5, <2>6 DEF s
<1>5. \A m \in Nat : m \in Z => m + 1 \in Z
  <2> SUFFICES ASSUME NEW m \in Nat, m + 1 <= n, P(m)
               PROVE  P(m + 1)
    <3>1. \A m \in Nat : m + 1 <= n => m <= n
      BY <1>1
    <3> HIDE DEF P
    <3> QED BY <3>1
  <2> DEFINE r == q[m + 1]
             u == tr[m]
             v == tr[m + 1]
             T == From(<<>>, q, m + 1)
             X == From(<<>>, q, (m + 1) + 1)
  <2>1. m \in 0..(n - 1) /\ m + 1 \in 1..n /\ m \in 0..n
    BY <1>1
  <2>2. r \in Good /\ Sync(T, r)
    BY <1>1, <2>1 DEF Linked
  <2>3. X = Target(r)
    <3>1. (m + 1) + 1 # 1 /\ ((m + 1) + 1) - 1 = m + 1
      OBVIOUS
    <3> QED BY <3>1 DEF From
  <2>4. v = ListRecord(u, r) /\ u \in Walks
    BY <1>3, <2>1
  <2>5. Way(u, T) /\ Lists(u.out, q, m)
    OBVIOUS
  <2>6. u.out \in Seq(Items)
    BY <2>4, WalkFields
  <2>7. \A x : Range(Append(u.out, x)) = Range(u.out) \cup {x}
    BY <2>6, RangeAppend
  <2> HIDE DEF T, X, u, v
  <2>8. CASE r.type = "D"
    <3>1. /\ Way(v, r.path)
          /\ v.out = u.out \/ v.out = Append(u.out, Item("D", r.path, ""))
      BY <2>2, <2>4, <2>5, <2>8, WayDown
    <3>2. X = r.path /\ r.path \in Dirs /\ ~AFile(r)
      BY <2>2, <2>3, <2>8, Targets DEF AFile, DirTypes
    <3>3. ~AFile(Item("D", r.path, "")) /\ Item("D", r.path, "").path = r.path
      BY DEF AFile, Item, DirTypes
    <3>4. Lists(v.out, q, m + 1)
      BY <2>5, <2>7, <3>1, <3>2, <3>3, ListsMark
    <3> QED BY <3>1, <3>2, <3>4 DEF X, v
  <2>9. CASE r.type = "U"
    <3>1. /\ Way(v, Front(r.path)) /\ T \in Dirs
          /\ v.out = u.out \/ \E a : v.out = Append(u.out, Item("U", T, a))
      BY <2>2, <2>4, <2>5, <2>9, WayUp
    <3>2. X = Front(r.path) /\ ~AFile(r)
      BY <2>2, <2>3, <2>9, Targets DEF AFile, DirTypes
    <3>3. \A a : ~AFile(Item("U", T, a)) /\ Item("U", T, a).path = T
      BY DEF AFile, Item, DirTypes
    <3>4. \/ Range(v.out) = Range(u.out)
          \/ \E x : Range(v.out) = Range(u.out) \cup {x} /\ ~AFile(x) /\ x.path \in Dirs
      BY <2>7, <3>1, <3>3
    <3>5. Lists(v.out, q, m + 1)
      BY <2>5, <3>2, <3>4, ListsMark
    <3> QED BY <3>1, <3>2, <3>5 DEF X, v
  <2>10. CASE r.type # "D" /\ r.type # "U"
    <3>1. r.type \notin DirTypes
      BY <2>10 DEF DirTypes
    <3>2. /\ Way(v, T) /\ T = Front(r.path)
          /\ \/ /\ v.out = u.out
                /\ Above(r.path) \subseteq dirs => ~cvs /\ r.type \notin {"C", "c"}
             \/ /\ Above(r.path) \subseteq dirs
                /\ v.out = Append(u.out, Report(r))
      BY <2>2, <2>4, <2>5, <3>1, WayFile
    <3>3. X = T /\ AFile(r) /\ r.path \in Files
      BY <2>2, <2>3, <2>10, <3>1, <3>2, Targets DEF AFile, Good
    <3>4. \/ Range(v.out) = Range(u.out) /\ (Reached(r) => ~OfMode(r))
          \/ Reached(r) /\ Range(v.out) = Range(u.out) \cup {Report(r)}
      BY <2>7, <3>2, <3>3 DEF Reached, OfMode
    <3>5. Lists(v.out, q, m + 1)
      BY <2>5, <3>3, <3>4, ListsFile
    <3> QED BY <3>2, <3>3, <3>5 DEF X, v
  <2> QED BY <2>8, <2>9, <2>10
<1>6. P(n)
  <2> HIDE DEF P
  <2>1. Nat \subseteq Z
    <3> HIDE DEF Z
    <3> QED BY <1>4, <1>5, NatSet
  <2> QED BY <1>1, <2>1
<1>7. From(<<>>, q, n + 1) = End(<<>>, q)
  <2>1. q = <<>> => n + 1 = 1
    BY <1>1
  <2>2. q # <<>> => n + 1 # 1 /\ (n + 1) - 1 = n
    BY <1>1
  <2> QED BY <2>1, <2>2 DEF From, End
<1>8. w \in Walks
  <2>1. n \in 0..n
    BY <1>1
  <2> QED BY <1>3, <2>1
<1> QED BY <1>3, <1>6, <1>7, <1>8 DEF w

-----------------------------------------------------------------------------
(* The commands on their way *)

\* A command in place: about a file or about a directory.
InPlace(c) == IF CmdMark(c.cmd) = "C" THEN c.path \in Files ELSE c.path \in Dirs
\* Whatever is on its way to the updater: sorted, and before a directory is
\* removed its DirDown is.
Paired(cs) ==
    \A j \in DOMAIN cs : cs[j].cmd = "j" =>
      \E i \in DOMAIN cs : i < j /\ cs[i].cmd = "i" /\ cs[i].path = cs[j].path
InOrder(cs) ==
    Orderly(cs) /\ Paired(cs) /\ \A i \in DOMAIN cs : InPlace(cs[i])

\* The marks of the commands.
LEMMA CmdMarks ==
    /\ CmdMark("I") = "D" /\ CmdMark("i") = "D" /\ CmdMark("J") = "U" /\ CmdMark("j") = "U"
    /\ \A c : c \notin DirCmds => CmdMark(c) = "C"
    /\ CmdMark("D") = "C" /\ CmdMark("T") = "C" /\ CmdMark("t") = "C"
    /\ \A c \in CheckoutCmds \cup CvsCmds \cup {"D", "S", "t"} : c \notin DirCmds /\ CmdMark(c) = "C"
BY DEF CmdMark, DirCmds, CheckoutCmds, CvsCmds

\* Why the server requests something.
Wanted(c, listed, ds) ==
    \/ c.cmd = "I" /\ c.path \in SentDirs(srv) /\ c.path \notin ds
    \/ c.cmd = "J" /\ c.path \in SentDirs(srv)
    \/ c.cmd \in {"i", "j"} /\ c.path \in ds /\ c.path \notin DirsOf(srv)
    \/ /\ c.cmd = "D" /\ ~Has(srv, c.path)
       /\ \E x \in listed : x.type \in {"F", "f"} /\ x.path = c.path
    \/ /\ c.cmd = (IF cvs /\ ~Live(srv, c.path) THEN "t" ELSE IF cvs THEN "T" ELSE "U")
       /\ c.path \in Files /\ Has(srv, c.path)
Filled(c) ==
    c = Cmd(c.cmd, c.path, IF c.cmd \in {"U", "T", "t"} THEN SrvAttr(c.path) ELSE "", "")
ListedDirs(list) == {x.path : x \in {y \in Range(list) : y.type = "D"}}

\* Every request has one of these reasons, and no other content than it gives.
LEMMA RequestWanted ==
    ASSUME NEW list, NEW b
    PROVE  b \in RequestSet(list) => Wanted(b, Range(list), ListedDirs(list)) /\ Filled(b)
<1> DEFINE listed == Range(list)
           ds == {x.path : x \in {y \in listed : y.type = "D"}}
           Known(p) == Item(IF Live(srv, p) THEN "F" ELSE "f", p, SrvAttr(p)) \in listed
           Update == IF cvs THEN "T" ELSE "U"
           U(p) == IF cvs /\ ~Live(srv, p) THEN "t" ELSE Update
           S1 == SentDirs(srv) \ ds
           S2 == {e \in SentDirs(srv) : Item("U", e, "dir") \notin listed}
           S3 == ds \ DirsOf(srv)
           S4 == {y \in listed : y.type \in {"F", "f"} /\ ~Has(srv, y.path)}
           S5 == {q \in Files : Has(srv, q) /\ ~Known(q)}
           R1 == {Cmd("I", d, "", "") : d \in S1}
           R2 == {Cmd("J", d, "", "") : d \in S2}
           R3 == {Cmd(c, d, "", "") : c \in {"i", "j"}, d \in S3}
           R4 == {Cmd("D", x.path, "", "") : x \in S4}
           R5 == {Cmd(IF cvs /\ ~Live(srv, p) THEN "t" ELSE Update, p, SrvAttr(p), "") :
                    p \in S5}
           G == Wanted(b, listed, ds) /\ Filled(b)
<1>1. RequestSet(list) = R1 \cup R2 \cup R3 \cup R4 \cup R5
  BY DEF RequestSet
<1> HIDE DEF listed, ds, U
<1>2. \A a, p, v, f : /\ Cmd(a, p, v, f).cmd = a /\ Cmd(a, p, v, f).path = p
                      /\ Cmd(a, p, v, f).ver = v /\ Cmd(a, p, v, f).from = f
  BY DEF Cmd
<1>3. ASSUME b \in R1 PROVE G
  <2>1. PICK d \in S1 : b = Cmd("I", d, "", "")
    BY <1>3
  <2>2. b.cmd = "I" /\ b.path = d
    BY <2>1 DEF Cmd
  <2> QED BY <2>1, <2>2 DEF Wanted, Filled
<1>4. ASSUME b \in R2 PROVE G
  <2>1. PICK d \in S2 : b = Cmd("J", d, "", "")
    BY <1>4
  <2>2. b.cmd = "J" /\ b.path = d
    BY <2>1 DEF Cmd
  <2> QED BY <2>1, <2>2 DEF Wanted, Filled
<1>5. ASSUME b \in R3 PROVE G
  <2>1. \E a \in {"i", "j"} : \E d \in S3 : b = Cmd(a, d, "", "")
    <3> DEFINE T1 == {Cmd("i", d, "", "") : d \in S3}
               T2 == {Cmd("j", d, "", "") : d \in S3}
    <3>1. R3 = T1 \cup T2
      OBVIOUS
    <3> HIDE DEF R3
    <3> QED BY <1>5, <3>1
  <2>2. PICK a \in {"i", "j"} : \E d \in S3 : b = Cmd(a, d, "", "")
    BY <2>1
  <2>3. PICK d \in S3 : b = Cmd(a, d, "", "")
    BY <2>2
  <2>4. b.cmd = a /\ b.path = d
    BY <2>3 DEF Cmd
  <2>5. Filled(b)
    BY <2>3, <2>4 DEF Filled
  <2>6. Wanted(b, listed, ds)
    BY <2>4 DEF Wanted
  <2> QED BY <2>5, <2>6
<1>6. ASSUME b \in R4 PROVE G
  <2>1. PICK x \in S4 : b = Cmd("D", x.path, "", "")
    BY <1>6
  <2>2. b.cmd = "D" /\ b.path = x.path
    BY <2>1 DEF Cmd
  <2>3. Filled(b)
    BY <2>1, <2>2 DEF Filled
  <2>4. Wanted(b, listed, ds)
    BY <2>2 DEF Wanted
  <2> QED BY <2>3, <2>4
<1>7. ASSUME b \in R5 PROVE G
  <2>1. PICK p \in S5 : b = Cmd(U(p), p, SrvAttr(p), "")
    BY <1>7 DEF U
  <2>2. b.cmd = U(p) /\ b.path = p
    BY <2>1 DEF Cmd
  <2>3. U(p) \in {"U", "T", "t"} /\ U(p) = IF cvs /\ ~Live(srv, p) THEN "t" ELSE Update
    BY DEF U
  <2>4. Filled(b)
    BY <2>1, <2>2, <2>3 DEF Filled
  <2>5. Wanted(b, listed, ds)
    BY <2>2, <2>3 DEF Wanted
  <2> QED BY <2>4, <2>5
<1>8. b \in RequestSet(list) => G
  <2> HIDE DEF G, R1, R2, R3, R4, R5
  <2> QED BY <1>1, <1>3, <1>4, <1>5, <1>6, <1>7
<1> QED BY <1>8 DEF listed, ds, ListedDirs

\* No two of them have the same place.
LEMMA WantedOnce ==
    ASSUME Plan, NEW listed, NEW ds \in SUBSET Dirs,
           \A x \in listed : AFile(x) => x.path \in Files,
           NEW x, NEW y, Wanted(x, listed, ds), Wanted(y, listed, ds), Filled(x), Filled(y)
    PROVE  /\ InPlace(x)
           /\ Same(CmdKey(x), CmdKey(y)) => x = y
<1>1. SentDirs(srv) \subseteq DirsOf(srv) /\ DirsOf(srv) \subseteq Dirs
  <2>1. \A p \in Files : Stored(srv, p) => Has(srv, p)
    BY DEF Stored, Has, Live
  <2> QED BY <2>1, TreeDirs DEF SentDirs, DirsOf
<1>2. \A d \in Dirs : d \notin Files
  BY FolderFacts
<1>3. \A z : z \in listed /\ z.type \in {"F", "f"} => z.path \in Files
  BY DEF AFile, DirTypes
<1>4. ASSUME NEW c, Wanted(c, listed, ds)
      PROVE  \/ c.cmd \in {"I", "J", "i", "j"} /\ c.path \in Dirs
             \/ c.cmd \in {"D", "U", "T", "t"} /\ c.path \in Files
  BY <1>1, <1>3, <1>4 DEF Wanted
<1>5. \A c \in {"D", "U", "T", "t"} : CmdMark(c) = "C"
  BY DEF CmdMark
<1>6. InPlace(x)
  BY <1>4, <1>5, CmdMarks DEF InPlace
<1>7. ASSUME Same(CmdKey(x), CmdKey(y)) PROVE x = y
  <2>1. /\ x.path = y.path
        /\ CmdMark(x.cmd) = "U" <=> CmdMark(y.cmd) = "U"
    BY <1>7 DEF Same, CmdKey, Rec
  <2>2. CASE x.path \in Dirs
    <3>1. x.cmd \in {"I", "J", "i", "j"} /\ y.cmd \in {"I", "J", "i", "j"}
      BY <1>2, <1>4, <2>1, <2>2
    <3>2. x.cmd \in {"J", "j"} <=> y.cmd \in {"J", "j"}
      BY <2>1, <3>1, CmdMarks
    <3>3. x.cmd = y.cmd
      BY <1>1, <2>1, <3>1, <3>2 DEF Wanted
    <3> QED BY <2>1, <3>3 DEF Filled
  <2>3. CASE x.path \in Files
    <3>1. x.cmd \in {"D", "U", "T", "t"} /\ y.cmd \in {"D", "U", "T", "t"}
      BY <1>2, <1>4, <2>1, <2>3
    <3>2. x.cmd = y.cmd
      BY <2>1, <3>1 DEF Wanted
    <3> QED BY <2>1, <3>2 DEF Filled
  <2> QED BY <1>4, <2>2, <2>3
<1> QED BY <1>6, <1>7

\* The mark of a directory that is entered comes before that of the same
\* directory left.
LEMMA DownBeforeUp ==
    ASSUME NEW x, NEW y, x.path \in Paths, y.path = x.path,
           CmdMark(x.cmd) # "U", CmdMark(y.cmd) = "U"
    PROVE  RecLess(CmdKey(x), CmdKey(y)) /\ ~RecLess(CmdKey(y), CmdKey(x))
<1> DEFINE r == CmdKey(x)
           u == CmdKey(y)
<1>1. /\ r \in Recs /\ u \in Recs /\ u.type = "U" /\ r.type # "U" /\ u.path = x.path
      /\ r.path = x.path
  BY CmdKeyRec
<1> HIDE DEF r, u
<1>2. x.path \in Seq(Nat) /\ Len(x.path) \in Nat
  BY DEF Paths
<1>3. IsPrefix(u.path, r.path)
  BY <1>1, <1>2, PrefixIs
<1>4. ~Same(r, u)
  BY <1>1 DEF Same
<1>5. RecLess(r, u)
  BY <1>1, <1>3, <1>4, Within
<1>6. ~RecLess(u, r)
  <2> SUFFICES ASSUME RecLess(u, r) PROVE FALSE
    OBVIOUS
  <2>1. RecLess(u, u)
    BY <1>1, <1>5, LessTransitive
  <2>2. Same(u, u)
    BY DEF Same
  <2> QED BY <1>1, <2>1, <2>2, LessIrreflexive
<1> QED BY <1>5, <1>6 DEF r, u

\* Before a directory is removed its record is.
LEMMA RequestDown ==
    ASSUME NEW list, NEW p
    PROVE  p \in ListedDirs(list) \ DirsOf(srv) => Cmd("i", p, "", "") \in RequestSet(list)
<1> DEFINE listed == Range(list)
           ds == {x.path : x \in {y \in listed : y.type = "D"}}
           Known(q) == Item(IF Live(srv, q) THEN "F" ELSE "f", q, SrvAttr(q)) \in listed
           Update == IF cvs THEN "T" ELSE "U"
           S1 == SentDirs(srv) \ ds
           S2 == {e \in SentDirs(srv) : Item("U", e, "dir") \notin listed}
           S3 == ds \ DirsOf(srv)
           S4 == {y \in listed : y.type \in {"F", "f"} /\ ~Has(srv, y.path)}
           S5 == {q \in Files : Has(srv, q) /\ ~Known(q)}
           R1 == {Cmd("I", d, "", "") : d \in S1}
           R2 == {Cmd("J", d, "", "") : d \in S2}
           R3 == {Cmd(c, d, "", "") : c \in {"i", "j"}, d \in S3}
           R4 == {Cmd("D", x.path, "", "") : x \in S4}
           R5 == {Cmd(IF cvs /\ ~Live(srv, q) THEN "t" ELSE Update, q, SrvAttr(q), "") :
                    q \in S5}
           T1 == {Cmd("i", d, "", "") : d \in S3}
           T2 == {Cmd("j", d, "", "") : d \in S3}
<1>1. RequestSet(list) = R1 \cup R2 \cup R3 \cup R4 \cup R5
  BY DEF RequestSet
<1>2. R3 = T1 \cup T2
  OBVIOUS
<1>3. S3 = ListedDirs(list) \ DirsOf(srv)
  BY DEF ListedDirs
<1> HIDE DEF S3
<1>4. p \in S3 => Cmd("i", p, "", "") \in T1
  OBVIOUS
<1> HIDE DEF R1, R2, R3, R4, R5, T1, T2
<1> QED BY <1>1, <1>2, <1>3, <1>4

\* What the server requests for a list that names files and directories as such
\* is in order.
Named(list) == \A x \in Range(list) : IF AFile(x) THEN x.path \in Files ELSE x.path \in Dirs

\* The server's requests for such a list are in order.
LEMMA RequestsInOrder ==
    ASSUME TypeOK, Plan, NEW list \in Seq(Items), Named(list)
    PROVE  InOrder(Requests(list)) /\ Range(Requests(list)) = RequestSet(list)
<1> DEFINE S == RequestSet(list)
           q == Requests(list)
           listed == Range(list)
           ds == ListedDirs(list)
<1>1. /\ S \in SUBSET Requested /\ IsFiniteSet(S) /\ q = Order(S)
  BY RequestSetType
<1>2. ds \in SUBSET Dirs /\ \A x \in listed : AFile(x) => x.path \in Files
  BY DEF Named, ListedDirs, AFile, DirTypes
<1>3. \A x \in S : Wanted(x, listed, ds) /\ Filled(x)
  BY RequestWanted
<1>4. \A x \in S : x.cmd = "j" => Cmd("i", x.path, "", "") \in S
  <2> SUFFICES ASSUME NEW x \in S, x.cmd = "j"
               PROVE  Cmd("i", x.path, "", "") \in S
    OBVIOUS
  <2>1. x.path \in ds \ DirsOf(srv)
    BY <1>3 DEF Wanted
  <2> QED BY <2>1, RequestDown
<1> HIDE DEF S, q, listed, ds
<1>5. S \in SUBSET Cmds
  BY <1>1 DEF Requested
<1>6. \A x, y \in S : Same(CmdKey(x), CmdKey(y)) => x = y
  BY <1>2, <1>3, WantedOnce
<1>7. Range(q) = S /\ Orderly(q)
  BY <1>1, <1>5, <1>6, OrderSorted
<1>8. \A x \in S : InPlace(x)
  BY <1>2, <1>3, WantedOnce
<1>9. q \in Seq(Requested)
  BY RequestsType DEF q
<1>10. DOMAIN q = 1..Len(q) /\ Len(q) \in Nat
  BY <1>9
<1>11. \A i \in DOMAIN q : q[i] \in S
  BY <1>7 DEF Range
<1>12. ASSUME NEW j \in DOMAIN q, q[j].cmd = "j"
       PROVE  \E i \in DOMAIN q : i < j /\ q[i].cmd = "i" /\ q[i].path = q[j].path
  <2> DEFINE c == Cmd("i", q[j].path, "", "")
  <2>1. c \in Range(q)
    BY <1>4, <1>7, <1>11, <1>12
  <2>2. c.cmd = "i" /\ c.path = q[j].path
    BY DEF Cmd
  <2> HIDE DEF c
  <2>3. PICK i \in DOMAIN q : q[i] = c
    BY <2>1 DEF Range
  <2>4. ~RecLess(CmdKey(q[j]), CmdKey(q[i]))
    <3>1. q[i].path \in Paths
      BY <1>5, <1>11 DEF Cmds
    <3>2. q[i].cmd = "i" /\ q[j].path = q[i].path
      BY <2>2, <2>3
    <3>3. CmdMark(q[i].cmd) # "U" /\ CmdMark(q[j].cmd) = "U"
      BY <1>12, <3>2, CmdMarks
    <3> QED BY <3>1, <3>2, <3>3, DownBeforeUp
  <2>5. ~(j < i)
    BY <1>7, <2>4 DEF Orderly
  <2>6. i # j
    BY <1>12, <2>2, <2>3
  <2>7. i < j
    BY <1>10, <2>5, <2>6
  <2> QED BY <2>2, <2>3, <2>7
<1>13. InOrder(q)
  BY <1>7, <1>8, <1>11, <1>12 DEF InOrder, Paired
<1> QED BY <1>7, <1>13 DEF q, S

\* A command that stands for another: about the same path, and with the same
\* mark.
Stands(d, c) ==
    d.path = c.path /\ IF c.cmd \in DirCmds THEN d.cmd = c.cmd ELSE d.cmd \notin DirCmds
StandFor(ds, cs) == DOMAIN ds = DOMAIN cs /\ \A i \in DOMAIN cs : Stands(ds[i], cs[i])

\* It has the same place.
LEMMA StandsMark ==
    ASSUME NEW d, NEW c, Stands(d, c)
    PROVE  /\ CmdMark(d.cmd) = CmdMark(c.cmd) /\ CmdKey(d) = CmdKey(c)
           /\ InPlace(c) => InPlace(d)
           /\ d.cmd = "j" <=> c.cmd = "j"
           /\ d.cmd = "i" <=> c.cmd = "i"
<1>1. "i" \in DirCmds /\ "j" \in DirCmds
  BY DEF DirCmds
<1>2. CmdMark(d.cmd) = CmdMark(c.cmd)
  <2>1. CASE c.cmd \in DirCmds
    BY <2>1 DEF Stands
  <2>2. CASE c.cmd \notin DirCmds
    BY <2>2, CmdMarks DEF Stands
  <2> QED BY <2>1, <2>2
<1>3. d.path = c.path
  BY DEF Stands
<1> QED BY <1>1, <1>2, <1>3 DEF Stands, CmdKey, InPlace

\* Commands that stand for commands in order are in order.
LEMMA StandInOrder ==
    ASSUME NEW cs, InOrder(cs), NEW ds, StandFor(ds, cs)
    PROVE  InOrder(ds)
<1>1. DOMAIN ds = DOMAIN cs /\ \A i \in DOMAIN cs : Stands(ds[i], cs[i])
  BY DEF StandFor
<1>2. \A i \in DOMAIN cs : /\ CmdKey(ds[i]) = CmdKey(cs[i])
                           /\ InPlace(cs[i]) => InPlace(ds[i])
                           /\ ds[i].cmd = "j" <=> cs[i].cmd = "j"
                           /\ ds[i].cmd = "i" <=> cs[i].cmd = "i"
                           /\ ds[i].path = cs[i].path
  <2>1. \A i \in DOMAIN cs : ds[i].path = cs[i].path
    BY <1>1 DEF Stands
  <2> QED BY <1>1, <2>1, StandsMark
<1>3. Orderly(ds)
  BY <1>1, <1>2 DEF InOrder, Orderly
<1>4. Paired(ds)
  <2> SUFFICES ASSUME NEW j \in DOMAIN ds, ds[j].cmd = "j"
               PROVE  \E i \in DOMAIN ds : i < j /\ ds[i].cmd = "i" /\ ds[i].path = ds[j].path
    BY DEF Paired
  <2>1. PICK i \in DOMAIN cs : i < j /\ cs[i].cmd = "i" /\ cs[i].path = cs[j].path
    BY <1>1, <1>2 DEF InOrder, Paired
  <2> QED BY <1>1, <1>2, <2>1
<1>5. \A i \in DOMAIN ds : InPlace(ds[i])
  BY <1>1, <1>2 DEF InOrder
<1> QED BY <1>3, <1>4, <1>5 DEF InOrder

\* A detail stands for its request.
LEMMA DetailStands ==
    ASSUME NEW q \in Requested, NEW sr, NEW valid
    PROVE  /\ q.cmd = "U" => Stands(DetailCheckout(q, sr), q)
           /\ q.cmd \in {"T", "t"} => Stands(DetailCvs(q, valid), q)
<1>1. \A c \in {"C", "U", "S", "A", "V", "r", "L", "l", "T", "t"} : c \notin DirCmds
  BY DEF DirCmds
<1>2. \A c, v, f : Cmd(c, q.path, v, f).cmd = c /\ Cmd(c, q.path, v, f).path = q.path
  BY DEF Cmd
<1>3. ASSUME q.cmd \in {"U", "T", "t"}
      PROVE  \A c \in {"C", "U", "S", "A", "V", "r", "L", "l"} : \A v, f :
               Stands(Cmd(c, q.path, v, f), q)
  BY <1>1, <1>2, <1>3 DEF Stands
<1>4. q.cmd = "U" => Stands(DetailCheckout(q, sr), q)
  BY <1>3 DEF DetailCheckout
<1>5. q.cmd \in {"T", "t"} => Stands(DetailRegular(q), q)
  BY <1>3 DEF DetailRegular
<1>6. q.cmd \in {"T", "t"} => Stands(DetailRcs(q, valid), q)
  BY <1>3, <1>5 DEF DetailRcs
<1>7. q.cmd \in {"T", "t"} => Stands(DetailCvs(q, valid), q)
  BY <1>3, <1>5, <1>6 DEF DetailCvs
<1> QED BY <1>4, <1>7

\* The answers stand for the details.
LEMMA AnswerStands ==
    ASSUME NEW d
    PROVE  Stands(Answer(d), d)
<1> DEFINE p == d.path
           To(c, f) == Cmd(c, p, SrvAttr(p), f)
<1>1. \A c \in {"C", "c", "u", "U", "S", "T", "A", "a", "V", "v", "r"} : c \notin DirCmds
  BY DEF DirCmds
<1>2. \A c, f : To(c, f).cmd = c /\ To(c, f).path = p
  BY DEF Cmd
<1> HIDE DEF To
<1>3. CASE d.cmd \in {"C", "U", "S", "A", "V", "r"}
  <2>1. \A c \in {"C", "c", "u", "U", "T", "A", "a", "V", "v", "r"} : \A f : Stands(To(c, f), d)
    BY <1>1, <1>2, <1>3 DEF Stands
  <2>2. \E c \in {"C", "c", "u", "U", "T", "A", "a", "V", "v", "r"} : \E f : Answer(d) = To(c, f)
    BY <1>3 DEF Answer, To
  <2> QED BY <2>1, <2>2
<1>4. CASE d.cmd \notin {"C", "U", "S", "A", "V", "r"}
  <2>1. Answer(d) = d
    BY <1>4 DEF Answer
  <2> QED BY <2>1 DEF Stands
<1> QED BY <1>3, <1>4

\* One request is answered by one detail, made from a record of the status file,
\* if there is one, and the disk.
IsDetail(d, q, valid) ==
    IF q.cmd = "U"
    THEN \E sr : /\ sr # <<>> => sr[1] \in Honest(raced) /\ sr[1].path = q.path
                 /\ d = DetailCheckout(q, sr)
    ELSE d = IF q.cmd \in {"T", "t"} THEN DetailCvs(q, valid) ELSE q

\* It is made by detailer_coll(), whose status_get() only reads.
LEMMA DetailOneIs ==
    ASSUME NEW x \in Detailing, NEW q \in Requested, NEW valid
    PROVE  \E d : IsDetail(d, q, valid) /\ DetailOne(x, q, valid).out = Append(x.out, d)
<1> DEFINE key == Key(q.path, FALSE)
           s == IF q.cmd = "U" /\ On(q.path) THEN Seek(x.st, key, TRUE) ELSE x.st
           sr == IF Found(s, key) THEN s.cur ELSE <<>>
           d == CASE q.cmd = "U" -> DetailCheckout(q, sr)
                  [] q.cmd \in {"T", "t"} -> DetailCvs(q, valid)
                  [] OTHER -> q
<1>1. DetailOne(x, q, valid) = [st |-> s, out |-> Append(x.out, d)]
  BY DEF DetailOne
<1>2. s \in OpenSts(Honest(raced))
  <2>1. x.st \in OpenSts(Honest(raced)) /\ Closed(Honest(raced))
    BY HonestClosed DEF Detailing
  <2> HIDE DEF key
  <2> QED BY <2>1, SeekType
<1>3. key.path = q.path
  BY DEF Key, Rec
<1> HIDE DEF s, key
<1>4. sr # <<>> => sr[1] \in Honest(raced) /\ sr[1].path = q.path
  BY <1>2, <1>3, FoundRecord
<1> HIDE DEF sr
<1>5. IsDetail(d, q, valid)
  <2>1. CASE q.cmd = "U"
    BY <1>4, <2>1 DEF IsDetail
  <2>2. CASE q.cmd # "U"
    BY <2>2 DEF IsDetail
  <2> QED BY <2>1, <2>2
<1> HIDE DEF d
<1> QED BY <1>1, <1>5

\* All requests are answered so, one by one.
LEMMA DetailsAre ==
    ASSUME TypeOK, Book, cmds \in Seq(Requested), NEW valid
    PROVE  /\ Details(valid) \in Seq(DetailSet) /\ DOMAIN Details(valid) = DOMAIN cmds
           /\ \A i \in DOMAIN cmds : IsDetail(Details(valid)[i], cmds[i], valid)
<1> DEFINE n == Len(cmds)
           t == Details(valid)
           q == cmds
<1>1. DetailTraced(valid, t)
  BY DetailTrace
<1>2. n \in Nat /\ DOMAIN q = 1..n /\ \A i \in 1..n : q[i] \in Requested
  OBVIOUS
<1> HIDE DEF t
<1>3. PICK tr \in [0..n -> Detailing] :
        /\ tr[0] = DetailStart /\ t = tr[n].out
        /\ \A m \in 0..(n - 1) : tr[m + 1] = DetailOne(tr[m], q[m + 1], valid)
  BY <1>1 DEF DetailTraced
<1> DEFINE P(m) == /\ Len(tr[m].out) = m
                   /\ \A i \in 1..m : IsDetail(tr[m].out[i], q[i], valid)
           Y == {m \in Nat : m <= n => P(m)}
<1> HIDE DEF q
<1>4. 0 \in Y
  <2>1. tr[0].out = <<>>
    BY <1>3 DEF DetailStart
  <2> QED BY <2>1
<1>5. ASSUME NEW m \in Nat, m \in Y PROVE m + 1 \in Y
  <2> SUFFICES ASSUME m + 1 <= n PROVE P(m + 1)
    OBVIOUS
  <2> DEFINE u == tr[m]
             v == tr[m + 1]
             r == q[m + 1]
  <2>1. m \in 0..(n - 1) /\ m \in 0..n /\ m + 1 \in 1..n /\ m <= n
    BY <1>2
  <2>2. v = DetailOne(u, r, valid) /\ u \in Detailing /\ r \in Requested
    BY <1>2, <1>3, <2>1
  <2>3. Len(u.out) = m /\ \A i \in 1..m : IsDetail(u.out[i], q[i], valid)
    BY <1>5, <2>1
  <2> HIDE DEF u, v, r
  <2>4. PICK d : IsDetail(d, r, valid) /\ v.out = Append(u.out, d)
    BY <2>2, DetailOneIs
  <2>5. u.out \in Seq(DetailSet)
    BY <2>2 DEF Detailing
  <2>6. /\ Len(v.out) = m + 1 /\ v.out[m + 1] = d
        /\ \A i \in 1..m : v.out[i] = u.out[i]
    BY <2>3, <2>4, <2>5
  <2>7. \A i : i \in 1..(m + 1) <=> i \in 1..m \/ i = m + 1
    OBVIOUS
  <2>8. \A i \in 1..(m + 1) : IsDetail(v.out[i], q[i], valid)
    BY <2>3, <2>4, <2>6, <2>7 DEF r
  <2> QED BY <2>6, <2>8 DEF v
<1>6. P(n)
  <2> HIDE DEF P
  <2>1. Nat \subseteq Y
    <3> HIDE DEF Y
    <3> QED BY <1>4, <1>5, NatSet
  <2> QED BY <1>2, <2>1
<1>7. t \in Seq(DetailSet)
  BY <1>2, <1>3 DEF Detailing
<1>8. DOMAIN t = 1..n
  BY <1>2, <1>3, <1>6, <1>7
<1>9. \A i \in DOMAIN q : IsDetail(t[i], q[i], valid)
  BY <1>2, <1>3, <1>6
<1> QED BY <1>2, <1>7, <1>8, <1>9 DEF t, q

\* The details stand for the requests.
LEMMA DetailsStand ==
    ASSUME TypeOK, Book, cmds \in Seq(Requested), NEW valid
    PROVE  StandFor(Details(valid), cmds)
<1>1. /\ DOMAIN Details(valid) = DOMAIN cmds
      /\ \A i \in DOMAIN cmds : IsDetail(Details(valid)[i], cmds[i], valid)
  BY DetailsAre
<1>2. \A i \in DOMAIN cmds : cmds[i] \in Requested
  OBVIOUS
<1>3. ASSUME NEW d, NEW q \in Requested, IsDetail(d, q, valid)
      PROVE  Stands(d, q)
  <2>1. Stands(q, q)
    BY DEF Stands
  <2> QED BY <1>3, <2>1, DetailStands DEF IsDetail
<1> QED BY <1>1, <1>2, <1>3 DEF StandFor

-----------------------------------------------------------------------------
(* The updater's work on the status file *)

\* What a command does to the open status file s and the file records w that it
\* should end up with.  It records files of its mode.
OfCmd(t, c) ==
    /\ t \in {"V", "v"} => c.cmd \in CvsCmds
    /\ t \in {"C", "c"} => c.cmd \in CheckoutCmds
Effect(c, s, w, t, v) ==
    IF c.cmd \in {"i", "j"}
    THEN t = Delete(s, c.path, FALSE) /\ v = w
    ELSE \/ t = s /\ v = w
         \/ \E r \in Good :
              /\ Same(r, CmdKey(c)) /\ t = Put(s, r)
              /\ OfCmd(r.type, c)
              /\ v = IF r.type \in DirTypes THEN w ELSE WithoutPath(w, r.path) \cup {r}
         \/ /\ c.cmd \notin DirCmds
            /\ t = Delete(s, c.path, FALSE) /\ v = WithoutPath(w, c.path)

\* No record that is left is before the one of a directory.
Past(s, p) == \A x \in Range(Left(s)) : ~RecLess(x, Key(p, FALSE))

\* What every effect leaves behind.
Onward(c, s, w, t, v) ==
    /\ Merged(t)
    /\ FileRecs(t.out \o Left(t)) = v
    /\ Range(Left(t)) \subseteq Range(Left(s))
    /\ \A k \in Recs : RecLess(CmdKey(c), k) /\ Below(s.out, k) => Below(t.out, k)
    /\ c.cmd = "i" => Past(t, c.path)
    /\ ~t.dirty => ~s.dirty /\ v = w

\* Where a command belongs.
LEMMA PlaceKey ==
    ASSUME NEW c, InPlace(c)
    PROVE  /\ c.path \in Files \cup Dirs /\ c.path \in Paths
           /\ CmdKey(c) \in Recs /\ Key(c.path, FALSE) \in Recs
           /\ c.cmd \in DirCmds <=> c.path \in Dirs
           /\ c.cmd \in DirCmds <=> c.path \notin Files
           /\ CmdMark(c.cmd) # "U" => Same(Key(c.path, FALSE), CmdKey(c))
           /\ c.cmd \notin DirCmds => Key(c.path, FALSE) = CmdKey(c)
<1>1. c.path \in Files \cup Dirs /\ c.path \in Paths
  BY FilePaths, FolderFacts DEF InPlace
<1>2. CmdKey(c) \in Recs /\ CmdKey(c).path = c.path /\ CmdKey(c).type = CmdMark(c.cmd)
  BY <1>1, CmdKeyRec
<1>3. Key(c.path, FALSE) = Rec("C", c.path, "", "")
  BY DEF Key
<1>4. Key(c.path, FALSE) \in Recs /\ Key(c.path, FALSE).path = c.path /\ Key(c.path, FALSE).type = "C"
  BY <1>1, WordTypes DEF Key, Rec, Recs
<1>5. c.cmd \in DirCmds <=> CmdMark(c.cmd) # "C"
  BY CmdMarks DEF DirCmds
<1>6. \A d \in Dirs : d \notin Files
  BY FolderFacts
<1>7. c.cmd \notin DirCmds => CmdMark(c.cmd) = "C"
  BY CmdMarks
<1> QED BY <1>1, <1>2, <1>3, <1>4, <1>5, <1>6, <1>7 DEF InPlace, Same, CmdKey

\* The records of an open status file.
LEMMA MergedRecs ==
    ASSUME NEW s, Merged(s)
    PROVE  /\ s.out \in Seq(Good) /\ Left(s) \in Seq(Good)
           /\ \A i \in DOMAIN s.out : s.out[i] \in Recs
<1>1. s.out \in Seq(Good) /\ Left(s) \in Seq(Good)
  BY DEF Merged, Sound
<1> QED BY <1>1, GoodRecs

\* What comes before a key comes before every later one.
LEMMA BelowLater ==
    ASSUME NEW q \in Seq(Good), NEW k \in Recs, NEW l \in Recs, Below(q, k),
           RecLess(k, l)
    PROVE  Below(q, l)
<1>1. \A i \in DOMAIN q : q[i] \in Recs
  BY GoodRecs
<1> QED BY <1>1, LessTransitive DEF Below

\* Every command of the updater, in its place, goes onward.
LEMMA EffectOnward ==
    ASSUME NEW c, InPlace(c), NEW s, Merged(s), Below(s.out, CmdKey(c)),
           c.cmd = "j" => Past(s, c.path),
           NEW w, FileRecs(s.out \o Left(s)) = w, NEW t, NEW v, Effect(c, s, w, t, v)
    PROVE  Onward(c, s, w, t, v)
<1> DEFINE p == c.path
           key == Key(p, FALSE)
           ck == CmdKey(c)
<1>1. /\ p \in Files \cup Dirs /\ p \in Paths /\ ck \in Recs /\ key \in Recs
      /\ c.cmd \in DirCmds <=> p \in Dirs
      /\ c.cmd \in DirCmds <=> p \notin Files
      /\ CmdMark(c.cmd) # "U" => Same(key, ck)
  BY PlaceKey
<1>2. /\ s.out \in Seq(Good) /\ \A i \in DOMAIN s.out : s.out[i] \in Recs
  BY MergedRecs
<1>3. CmdMark(c.cmd) # "U" => Below(s.out, key)
  <2> SUFFICES ASSUME CmdMark(c.cmd) # "U", NEW i \in DOMAIN s.out PROVE RecLess(s.out[i], key)
    BY DEF Below
  <2>1. RecLess(s.out[i], ck)
    BY DEF Below
  <2>2. Same(key, ck)
    BY <1>1
  <2> HIDE DEF key, ck
  <2> QED BY <1>1, <1>2, <2>1, <2>2, LessSame
<1>4. ASSUME t = s, v = w, c.cmd # "i" PROVE Onward(c, s, w, t, v)
  BY <1>4 DEF Onward
<1>5. ASSUME NEW r \in Good, Same(r, ck), t = Put(s, r), c.cmd # "i",
             v = IF r.type \in DirTypes THEN w ELSE WithoutPath(w, r.path) \cup {r}
      PROVE  Onward(c, s, w, t, v)
  <2>1. r \in Recs
    BY GoodRecs
  <2>2. Below(s.out, r)
    <3> SUFFICES ASSUME NEW i \in DOMAIN s.out PROVE RecLess(s.out[i], r)
      BY DEF Below
    <3>1. RecLess(s.out[i], ck)
      BY DEF Below
    <3> HIDE DEF ck
    <3> QED BY <1>1, <1>2, <1>5, <2>1, <3>1, LessSame
  <2>3. /\ Merged(t)
        /\ FileRecs(t.out \o Left(t)) = v
        /\ \A i \in DOMAIN t.out : AtMost(t.out[i], r)
        /\ Range(Left(t)) \subseteq Range(Left(s))
        /\ t.dirty
    BY <1>5, <2>2, PutMerged
  <2>4. \A i \in DOMAIN t.out : t.out[i] \in Recs
    BY <2>3, MergedRecs
  <2>5. ASSUME NEW k \in Recs, RecLess(ck, k) PROVE Below(t.out, k)
    <3>1. RecLess(r, k)
      <4> HIDE DEF ck
      <4> QED BY <1>1, <1>5, <2>1, <2>5, LessSame
    <3> QED BY <2>1, <2>3, <2>4, <3>1, AtMostLess DEF Below
  <2> QED BY <1>5, <2>3, <2>5 DEF Onward
<1>6. ASSUME t = Delete(s, p, FALSE),
             \/ c.cmd \in {"i", "j"} /\ v = w
             \/ c.cmd \notin DirCmds /\ v = WithoutPath(w, p)
      PROVE  Onward(c, s, w, t, v)
  <2>1. c.cmd # "j" => Below(s.out, key)
    <3>1. c.cmd # "j" => CmdMark(c.cmd) # "U"
      BY <1>6, CmdMarks
    <3> QED BY <1>3, <3>1
  <2>2. c.cmd = "j" => \A j \in DOMAIN Left(s) : ~RecLess(Left(s)[j], key)
    BY DEF Past, Range
  <2> HIDE DEF key
  <2>3. /\ Merged(t)
        /\ p \in Dirs => FileRecs(t.out \o Left(t)) = FileRecs(s.out \o Left(s))
        /\ p \in Files /\ Below(s.out, key) =>
             FileRecs(t.out \o Left(t)) = WithoutPath(FileRecs(s.out \o Left(s)), p)
        /\ Below(s.out, key) => Below(t.out, key)
        /\ Below(s.out, key) \/ t.out = s.out
        /\ Range(Left(t)) \subseteq Range(Left(s))
        /\ \A x \in Range(Left(t)) : ~RecLess(x, key)
        /\ ~t.dirty => /\ ~s.dirty
                       /\ FileRecs(t.out \o Left(t)) = FileRecs(s.out \o Left(s))
    BY <1>1, <1>6, <2>1, <2>2, DeleteMerged DEF key
  <2>4. "i" \in DirCmds /\ "j" \in DirCmds
    BY DEF DirCmds
  <2>5. FileRecs(t.out \o Left(t)) = v
    BY <1>1, <1>6, <2>1, <2>3, <2>4
  <2>6. t.out \in Seq(Good)
    BY <2>3, MergedRecs
  <2>7. ASSUME NEW k \in Recs, RecLess(ck, k) PROVE RecLess(key, k)
    <3>1. CASE CmdMark(c.cmd) = "U"
      <4>1. RecLess(key, ck)
        <5>1. ck.type = "U" /\ ck.path = p /\ key.path = p /\ key.type # "U"
          BY <1>1, <3>1, CmdKeyRec DEF key, Key, Rec
        <5>2. p \in Seq(Nat) /\ Len(p) \in Nat
          BY <1>1 DEF Paths
        <5>3. IsPrefix(ck.path, key.path)
          BY <5>1, <5>2, PrefixIs
        <5>4. ~Same(key, ck)
          BY <5>1 DEF Same
        <5> HIDE DEF ck
        <5> QED BY <1>1, <5>1, <5>3, <5>4, Within
      <4> HIDE DEF ck
      <4> QED BY <1>1, <2>7, <4>1, LessTransitive
    <3>2. CASE CmdMark(c.cmd) # "U"
      <4> HIDE DEF ck
      <4> QED BY <1>1, <2>7, <3>2, LessSame
    <3> QED BY <3>1, <3>2
  <2>8. ASSUME NEW k \in Recs, RecLess(ck, k), Below(s.out, k) PROVE Below(t.out, k)
    <3>1. CASE Below(s.out, key)
      <4>1. Below(t.out, key) /\ RecLess(key, k)
        BY <2>3, <2>7, <2>8, <3>1
      <4> QED BY <1>1, <2>6, <4>1, BelowLater
    <3>2. CASE t.out = s.out
      BY <2>8, <3>2
    <3> QED BY <2>3, <3>1, <3>2
  <2>9. Past(t, p)
    BY <2>3 DEF Past, key
  <2> HIDE DEF ck
  <2> QED BY <2>3, <2>5, <2>8, <2>9 DEF Onward, ck
<1> QED BY <1>4, <1>5, <1>6 DEF Effect

\* The updater at work on an open status file s that should end up with the file
\* records w, with the commands cs still to come and the fixups fx already due.
Later(s, cs, j) ==
    \/ \E i \in DOMAIN cs : i < j /\ cs[i].cmd = "i" /\ cs[i].path = cs[j].path
    \/ Past(s, cs[j].path)
Working(s, w, cs) ==
    /\ Merged(s) /\ FileRecs(s.out \o Left(s)) = w
    /\ Orderly(cs)
    /\ \A i \in DOMAIN cs : InPlace(cs[i]) /\ Below(s.out, CmdKey(cs[i]))
    /\ \A j \in DOMAIN cs : cs[j].cmd = "j" => Later(s, cs, j)
FixSorted(fx) ==
    \A i, j \in DOMAIN fx : i < j => RecLess(Key(fx[i], FALSE), Key(fx[j], FALSE))
FixBefore(fx, cs) ==
    \A i \in DOMAIN fx, k \in DOMAIN cs : RecLess(Key(fx[i], FALSE), CmdKey(cs[k]))

\* What is left of a sequence.
LEMMA TailIs ==
    ASSUME NEW S, NEW q \in Seq(S), q # <<>>
    PROVE  /\ 1 \in DOMAIN q /\ Head(q) = q[1]
           /\ \A i \in DOMAIN Tail(q) : i + 1 \in DOMAIN q /\ Tail(q)[i] = q[i + 1] /\ 1 < i + 1
           /\ \A i \in DOMAIN q : i # 1 => i - 1 \in DOMAIN Tail(q) /\ Tail(q)[i - 1] = q[i]
           /\ \A i \in DOMAIN Tail(q) : i \in Nat \ {0}
           /\ \A i \in DOMAIN q : i \in Nat \ {0}
OBVIOUS

\* A command leaves the updater at work on those that follow.
LEMMA WorkOn ==
    ASSUME NEW cs \in Seq(Cmds), cs # <<>>, NEW s, NEW w, Working(s, w, cs),
           NEW t, NEW v, Effect(Head(cs), s, w, t, v)
    PROVE  /\ Working(t, v, Tail(cs))
           /\ ~t.dirty => ~s.dirty /\ v = w
<1> DEFINE c == Head(cs)
           q == Tail(cs)
<1>1. /\ 1 \in DOMAIN cs /\ c = cs[1]
      /\ \A i \in DOMAIN q : i + 1 \in DOMAIN cs /\ q[i] = cs[i + 1] /\ 1 < i + 1
      /\ \A i \in DOMAIN cs : i # 1 => i - 1 \in DOMAIN q /\ q[i - 1] = cs[i]
      /\ \A i \in DOMAIN q : i \in Nat \ {0}
      /\ \A i \in DOMAIN cs : i \in Nat \ {0}
  BY TailIs
<1> HIDE DEF c, q
<1>2. /\ Merged(s) /\ FileRecs(s.out \o Left(s)) = w
      /\ InPlace(c) /\ Below(s.out, CmdKey(c))
  BY <1>1 DEF Working
<1>3. c.cmd = "j" => Past(s, c.path)
  <2> SUFFICES ASSUME c.cmd = "j" PROVE Past(s, c.path)
    OBVIOUS
  <2>1. Later(s, cs, 1)
    BY <1>1 DEF Working
  <2>2. ~\E i \in DOMAIN cs : i < 1
    BY <1>1
  <2> QED BY <1>1, <2>1, <2>2 DEF Later
<1>4. Effect(c, s, w, t, v)
  BY DEF c
<1>5. Onward(c, s, w, t, v)
  BY <1>2, <1>3, <1>4, EffectOnward
<1>6. \A i, j \in DOMAIN q : i < j => RecLess(CmdKey(q[i]), CmdKey(q[j]))
  <2> SUFFICES ASSUME NEW i \in DOMAIN q, NEW j \in DOMAIN q, i < j
               PROVE  RecLess(CmdKey(q[i]), CmdKey(q[j]))
    OBVIOUS
  <2>1. i + 1 < j + 1
    BY <1>1
  <2> QED BY <1>1, <2>1 DEF Working, Orderly
<1>7. ASSUME NEW i \in DOMAIN q
      PROVE  InPlace(q[i]) /\ Below(t.out, CmdKey(q[i]))
  <2>1. InPlace(q[i]) /\ Below(s.out, CmdKey(q[i]))
    BY <1>1 DEF Working
  <2>2. RecLess(CmdKey(c), CmdKey(q[i]))
    BY <1>1 DEF Working, Orderly
  <2>3. CmdKey(q[i]) \in Recs
    BY <2>1, PlaceKey
  <2> QED BY <1>5, <2>1, <2>2, <2>3 DEF Onward
<1>8. ASSUME NEW j \in DOMAIN q, q[j].cmd = "j"
      PROVE  Later(t, q, j)
  <2>1. q[j] = cs[j + 1] /\ j + 1 \in DOMAIN cs /\ j \in Nat
    BY <1>1
  <2>2. Later(s, cs, j + 1)
    BY <1>8, <2>1 DEF Working
  <2>3. CASE Past(s, cs[j + 1].path)
    <3>1. Past(t, q[j].path)
      BY <1>5, <2>1, <2>3 DEF Past, Onward
    <3> QED BY <3>1 DEF Later
  <2>4. CASE \E i \in DOMAIN cs : i < j + 1 /\ cs[i].cmd = "i" /\ cs[i].path = cs[j + 1].path
    <3>1. PICK i \in DOMAIN cs : i < j + 1 /\ cs[i].cmd = "i" /\ cs[i].path = cs[j + 1].path
      BY <2>4
    <3>2. CASE i = 1
      <4>1. Past(t, c.path) /\ c.path = q[j].path
        BY <1>1, <1>5, <2>1, <3>1, <3>2 DEF Onward
      <4> QED BY <4>1 DEF Later
    <3>3. CASE i # 1
      <4>1. i - 1 \in DOMAIN q /\ q[i - 1] = cs[i] /\ i - 1 < j
        BY <1>1, <2>1, <3>1, <3>3
      <4> QED BY <2>1, <3>1, <4>1 DEF Later
    <3> QED BY <3>2, <3>3
  <2> QED BY <2>2, <2>3, <2>4 DEF Later
<1>9. Merged(t) /\ FileRecs(t.out \o Left(t)) = v
  BY <1>5 DEF Onward
<1>10. Working(t, v, q)
  BY <1>6, <1>7, <1>8, <1>9 DEF Working, Orderly
<1>11. ~t.dirty => ~s.dirty /\ v = w
  BY <1>5 DEF Onward
<1> QED BY <1>10, <1>11 DEF q

\* A longer sequence.
LEMMA AppendIs ==
    ASSUME NEW S, NEW q \in Seq(S), NEW x \in S
    PROVE  /\ DOMAIN Append(q, x) = 1..(Len(q) + 1) /\ Append(q, x)[Len(q) + 1] = x
           /\ \A i \in 1..Len(q) : Append(q, x)[i] = q[i]
OBVIOUS

\* The fixups remain sorted and before the commands that follow.
LEMMA FixupsOn ==
    ASSUME NEW cs \in Seq(Cmds), cs # <<>>, Orderly(cs), InPlace(Head(cs)),
           NEW fx \in Seq(Files), FixSorted(fx), FixBefore(fx, cs),
           NEW gx, \/ gx = fx
                   \/ gx = Append(fx, Head(cs).path) /\ Head(cs).path \in Files
    PROVE  FixSorted(gx) /\ FixBefore(gx, Tail(cs))
<1> DEFINE c == Head(cs)
           q == Tail(cs)
           n == Len(fx)
<1>1. /\ 1 \in DOMAIN cs /\ c = cs[1]
      /\ \A i \in DOMAIN q : i + 1 \in DOMAIN cs /\ q[i] = cs[i + 1] /\ 1 < i + 1
  BY TailIs
<1>2. n \in Nat /\ DOMAIN fx = 1..n
  OBVIOUS
<1> HIDE DEF c
<1>3. gx = Append(fx, c.path) /\ c.path \in Files =>
        /\ DOMAIN gx = 1..(n + 1) /\ gx[n + 1] = c.path /\ \A i \in 1..n : gx[i] = fx[i]
  <2> SUFFICES ASSUME gx = Append(fx, c.path), c.path \in Files
               PROVE  /\ DOMAIN gx = 1..(n + 1) /\ gx[n + 1] = c.path
                      /\ \A i \in 1..n : gx[i] = fx[i]
    OBVIOUS
  <2> DEFINE p == c.path
  <2>1. gx = Append(fx, p) /\ p \in Files
    OBVIOUS
  <2> HIDE DEF p
  <2>2. DOMAIN gx = 1..(n + 1) /\ gx[n + 1] = p /\ \A i \in 1..n : gx[i] = fx[i]
    BY <2>1, AppendIs DEF n
  <2> QED BY <2>2 DEF p
<1> HIDE DEF c, q, n
<1>4. FixBefore(fx, q)
  BY <1>1 DEF FixBefore
<1>5. CASE gx = fx
  BY <1>4, <1>5 DEF q
<1>6. CASE gx = Append(fx, c.path) /\ c.path \in Files
  <2>1. InPlace(c) /\ Key(c.path, FALSE) = CmdKey(c)
    <3>1. InPlace(c)
      BY DEF c
    <3> QED BY <1>6, <3>1, PlaceKey
  <2>2. \A i : i \in 1..(n + 1) <=> i \in 1..n \/ i = n + 1
    BY <1>2
  <2>3. ASSUME NEW i \in 1..(n + 1), NEW k \in DOMAIN q
        PROVE  RecLess(Key(gx[i], FALSE), CmdKey(q[k]))
    <3>1. CASE i \in 1..n
      BY <1>2, <1>3, <1>4, <1>6, <3>1 DEF FixBefore
    <3>2. CASE i = n + 1
      <4>1. RecLess(CmdKey(c), CmdKey(q[k]))
        BY <1>1 DEF Orderly
      <4> QED BY <1>3, <1>6, <2>1, <3>2, <4>1
    <3> QED BY <2>2, <3>1, <3>2
  <2>4. ASSUME NEW i \in 1..(n + 1), NEW j \in 1..(n + 1), i < j
        PROVE  RecLess(Key(gx[i], FALSE), Key(gx[j], FALSE))
    <3>1. i \in 1..n
      BY <1>2, <2>4
    <3>2. CASE j \in 1..n
      BY <1>2, <1>3, <1>6, <2>4, <3>1, <3>2 DEF FixSorted
    <3>3. CASE j = n + 1
      <4>1. RecLess(Key(fx[i], FALSE), CmdKey(c))
        BY <1>1, <1>2, <3>1 DEF FixBefore
      <4> QED BY <1>3, <1>6, <2>1, <3>1, <3>3, <4>1
    <3> QED BY <2>2, <3>2, <3>3
  <2>5. FixSorted(gx) /\ FixBefore(gx, q)
    BY <1>3, <1>6, <2>3, <2>4 DEF FixSorted, FixBefore
  <2> QED BY <2>5 DEF q
<1> QED BY <1>5, <1>6 DEF c

\* The fixups, as they were queued.
LEMMA FixupsInOrder ==
    ASSUME Plan, FixSorted(fixups)
    PROVE  InOrder(FixupCmds)
<1> DEFINE n == Len(fixups)
           q == FixupCmds
           c(p) == IF ~cvs THEN "Y" ELSE IF Live(srv, p) THEN "X" ELSE "x"
<1>1. fixups \in Seq(Served) /\ n \in Nat /\ DOMAIN fixups = 1..n
  BY DEF Plan
<1>2. q = [i \in 1..n |-> Cmd(c(fixups[i]), fixups[i], srv[fixups[i]].ver, "")]
  BY <1>1 DEF FixupCmds
<1>3. \A p : c(p) \in {"Y", "X", "x"}
  OBVIOUS
<1> HIDE DEF q, c, n
<1>4. ASSUME NEW i \in 1..n
      PROVE  /\ q[i].cmd \in {"Y", "X", "x"} /\ q[i].path = fixups[i] /\ fixups[i] \in Files
             /\ q[i].cmd \notin DirCmds /\ InPlace(q[i])
             /\ CmdKey(q[i]) = Key(fixups[i], FALSE)
  <2>1. q[i] = Cmd(c(fixups[i]), fixups[i], srv[fixups[i]].ver, "")
    BY <1>2
  <2>2. q[i].cmd \in {"Y", "X", "x"} /\ q[i].path = fixups[i]
    <3> DEFINE a == c(fixups[i])
               v == srv[fixups[i]].ver
               x == q[i]
               p == fixups[i]
    <3>1. a \in {"Y", "X", "x"} /\ x = Cmd(a, p, v, "")
      BY <1>3, <2>1
    <3> HIDE DEF a, v, x, p
    <3>2. x.cmd = a /\ x.path = p
      BY <3>1 DEF Cmd
    <3> QED BY <3>1, <3>2 DEF x, p
  <2>3. fixups[i] \in Files
    BY <1>1 DEF Served
  <2>4. q[i].cmd \notin DirCmds
    BY <2>2 DEF DirCmds
  <2>5. CmdMark(q[i].cmd) = "C"
    BY <2>4, CmdMarks
  <2>6. InPlace(q[i])
    BY <2>2, <2>3, <2>5 DEF InPlace
  <2>7. CmdKey(q[i]) = Key(q[i].path, FALSE)
    BY <2>4, <2>6, PlaceKey
  <2> QED BY <2>2, <2>3, <2>4, <2>6, <2>7
<1>5. DOMAIN q = 1..n
  BY <1>2
<1>6. Orderly(q)
  <2> SUFFICES ASSUME NEW i \in DOMAIN q, NEW j \in DOMAIN q, i < j
               PROVE  RecLess(CmdKey(q[i]), CmdKey(q[j]))
    BY DEF Orderly
  <2>1. RecLess(Key(fixups[i], FALSE), Key(fixups[j], FALSE))
    BY <1>1, <1>5 DEF FixSorted
  <2>2. CmdKey(q[i]) = Key(fixups[i], FALSE) /\ CmdKey(q[j]) = Key(fixups[j], FALSE)
    BY <1>4, <1>5
  <2> QED BY <2>1, <2>2
<1>7. Paired(q)
  BY <1>4, <1>5 DEF Paired
<1>8. InOrder(q)
  BY <1>4, <1>5, <1>6, <1>7 DEF InOrder
<1> QED BY <1>8 DEF q

\* A sorted file: what a crash leaves of it, too.
Tidy(recs) == recs \in Seq(Good) /\ Linked(<<>>, recs) /\ Increasing(recs)

\* An initial piece of such a file is such a file.
LEMMA SortedPiece ==
    ASSUME NEW recs, Tidy(recs), NEW n \in 0..Len(recs)
    PROVE  Tidy(SubSeq(recs, 1, n))
<1> DEFINE q == SubSeq(recs, 1, n)
<1>1. /\ recs \in Seq(Good) /\ Linked(<<>>, recs) /\ Increasing(recs)
      /\ DOMAIN recs = 1..Len(recs) /\ Len(recs) \in Nat
  BY DEF Tidy
<1>2. q \in Seq(Good) /\ DOMAIN q = 1..n /\ \A i \in 1..n : q[i] = recs[i] /\ i \in DOMAIN recs
  BY <1>1
<1> HIDE DEF q
<1>3. Linked(<<>>, q)
  <2> SUFFICES ASSUME NEW i \in DOMAIN q PROVE Sync(From(<<>>, q, i), q[i])
    BY DEF Linked
  <2>1. Sync(From(<<>>, recs, i), recs[i])
    BY <1>1, <1>2 DEF Linked
  <2>2. From(<<>>, q, i) = From(<<>>, recs, i)
    <3>1. i # 1 => i - 1 \in 1..n
      BY <1>2
    <3> QED BY <1>2, <3>1 DEF From
  <2> QED BY <1>2, <2>1, <2>2
<1>4. Increasing(q)
  BY <1>1, <1>2 DEF Increasing
<1>5. Tidy(q)
  BY <1>2, <1>3, <1>4 DEF Tidy
<1> QED BY <1>5 DEF q

\* A batch begins with nothing written.
LEMMA BeginWork ==
    ASSUME NEW file, file \in [scan : Int, recs : Seq(Good), whole : BOOLEAN],
           Tidy(file.recs), NEW n \in Int, NEW cs, InOrder(cs)
    PROVE  Working(Open(file, n), FileRecs(file.recs), cs)
<1> DEFINE t == Open(file, n)
<1>1. /\ Merged(t) /\ t.out = <<>> /\ t.out \o Left(t) = file.recs
  BY OpenMerged DEF Tidy
<1> HIDE DEF t
<1>2. \A k : Below(t.out, k)
  BY <1>1 DEF Below
<1>3. \A j \in DOMAIN cs : cs[j].cmd = "j" => Later(t, cs, j)
  BY DEF InOrder, Paired, Later
<1>4. Working(t, FileRecs(file.recs), cs)
  BY <1>1, <1>2, <1>3 DEF Working, InOrder
<1> QED BY <1>4 DEF t

\* The record of a file is in the place of its command.
LEMMA RecInPlace ==
    ASSUME NEW c, InPlace(c), NEW t, NEW v \in Words, NEW a \in Words,
           c.cmd \notin DirCmds, t \in {"C", "c", "V", "v"}
    PROVE  LET r == Rec(t, c.path, v, a)
           IN /\ r \in Good /\ Same(r, CmdKey(c)) /\ r.path = c.path
              /\ r.type \notin DirTypes
<1> DEFINE r == Rec(t, c.path, v, a)
<1>1. c.path \in Paths
  BY PlaceKey
<1>3. t \in {"D", "U", "C", "c", "V", "v"}
  OBVIOUS
<1>4. r \in Recs /\ r.type = t /\ r.path = c.path
  BY <1>1, <1>3 DEF Rec, Recs
<1> HIDE DEF r
<1>5. t \notin DirTypes
  BY DEF DirTypes
<1>6. c.path \in Files
  BY PlaceKey
<1>7. r \in Good
  BY <1>4, <1>5, <1>6 DEF Good
<1>8. CmdKey(c).path = c.path /\ CmdKey(c).type = CmdMark(c.cmd)
  BY <1>1, CmdKeyRec
<1>9. t # "U" /\ CmdMark(c.cmd) # "U"
  BY CmdMarks
<1>10. Same(r, CmdKey(c))
  BY <1>4, <1>8, <1>9 DEF Same
<1> QED BY <1>4, <1>5, <1>7, <1>10 DEF r

\* A file that is recorded or forgotten.
LEMMA RecordedEffect ==
    ASSUME NEW c, InPlace(c), c.cmd \notin DirCmds, NEW t \in {"C", "c", "V", "v"},
           NEW v \in Words, NEW a \in Words, Recorded(Rec(t, c.path, v, a)),
           OfCmd(t, c)
    PROVE  Effect(c, st, want, st', want')
<1> DEFINE r == Rec(t, c.path, v, a)
<1>1. /\ r \in Good /\ Same(r, CmdKey(c)) /\ r.path = c.path
      /\ r.type \notin DirTypes
  BY RecInPlace
<1>2. "i" \in DirCmds /\ "j" \in DirCmds
  BY DEF DirCmds
<1> HIDE DEF r
<1>3. Recorded(r)
  BY DEF r
<1>5. OfCmd(r.type, c)
  BY DEF r, Rec
<1>4. st' = Put(st, r) /\ want' = WithoutPath(want, r.path) \cup {r}
  BY <1>3 DEF Recorded, WithoutPath
<1> QED BY <1>1, <1>2, <1>4, <1>5 DEF Effect

\* The mark of a directory.
LEMMA MarkEffect ==
    ASSUME NEW c, InPlace(c), want' = want,
           \/ c.cmd = "I" /\ st' = Put(st, Rec("D", c.path, "", ""))
           \/ c.cmd = "J" /\ st' = Put(st, Rec("U", c.path, "", "dir"))
    PROVE  Effect(c, st, want, st', want')
<1>1. /\ c.path \in Dirs /\ c.path \in Paths /\ "dir" \in Words
  BY PlaceKey, WordTypes DEF DirCmds
<1>2. CmdKey(c).path = c.path /\ CmdKey(c).type = CmdMark(c.cmd)
  BY <1>1, CmdKeyRec
<1>3. CASE c.cmd = "I" /\ st' = Put(st, Rec("D", c.path, "", ""))
  <2> DEFINE r == DownRec(c.path)
  <2>1. r \in Good /\ r.type = "D" /\ r.path = c.path
    BY <1>1, MarkFacts
  <2>2. st' = Put(st, r)
    BY <1>3 DEF DownRec
  <2> HIDE DEF r
  <2>3. Same(r, CmdKey(c))
    BY <1>2, <1>3, <2>1, CmdMarks DEF Same
  <2>4. r.type \in DirTypes
    BY <2>1 DEF DirTypes
  <2>5. OfCmd(r.type, c)
    BY <2>1 DEF OfCmd
  <2> QED BY <1>3, <2>1, <2>2, <2>3, <2>4, <2>5 DEF Effect
<1>4. CASE c.cmd = "J" /\ st' = Put(st, Rec("U", c.path, "", "dir"))
  <2> DEFINE r == Rec("U", c.path, "", "dir")
  <2>1. r \in Good /\ r.type = "U" /\ r.path = c.path
    BY <1>1, MarkFacts
  <2>2. st' = Put(st, r)
    BY <1>4
  <2> HIDE DEF r
  <2>3. Same(r, CmdKey(c))
    BY <1>2, <1>4, <2>1, CmdMarks DEF Same
  <2>4. r.type \in DirTypes
    BY <2>1 DEF DirTypes
  <2>5. OfCmd(r.type, c)
    BY <2>1 DEF OfCmd
  <2> QED BY <1>4, <2>1, <2>2, <2>3, <2>4, <2>5 DEF Effect
<1> QED BY <1>3, <1>4

\* A file that is forgotten.
LEMMA ForgottenEffect ==
    ASSUME NEW c, c.cmd \notin DirCmds, Forgotten(c.path)
    PROVE  Effect(c, st, want, st', want')
<1>1. "i" \in DirCmds /\ "j" \in DirCmds
  BY DEF DirCmds
<1>2. st' = Delete(st, c.path, FALSE) /\ want' = WithoutPath(want, c.path)
  BY DEF Forgotten, WithoutPath
<1> QED BY <1>1, <1>2 DEF Effect

\* A file that is installed, or has to be repeated.
LEMMA UpdateFileEffect ==
    ASSUME NEW c, c.cmd \notin DirCmds, NEW good, UpdateFile(good)
    PROVE  Effect(c, st, want, st', want')
<1>1. "i" \in DirCmds /\ "j" \in DirCmds
  BY DEF DirCmds
<1>2. st' = st /\ want' = want
  BY DEF UpdateFile, NeedFixup
<1> QED BY <1>1, <1>2 DEF Effect

\* The record of an installed file.
LEMMA FileRecType ==
    ASSUME IInv, pc # "detail", cmds # <<>>, Cur.cmd \in FileCmds
    PROVE  \E t \in {"C", "c", "V", "v"}, v \in Words :
             OfCmd(t, Cur) /\ \A a : FileRec(a) = Rec(t, Cur.path, v, a)
<1> DEFINE t == IF Cur.cmd \in {"C", "Y", "U"} THEN "C"
                ELSE IF Cur.cmd \in {"a", "x", "v"} THEN "v" ELSE "V"
           v == IF Cur.cmd \in {"C", "Y", "U"} THEN Cur.ver ELSE ""
<1>1. \A a : FileRec(a) = Rec(t, Cur.path, v, a)
  BY DEF FileRec
<1>2. OfCmd(t, Cur)
  BY DEF OfCmd, FileCmds, CheckoutCmds, CvsCmds
<1>3. v \in Words
  BY HeadTodo, WordTypes
<1>4. t \in {"C", "c", "V", "v"}
  OBVIOUS
<1> HIDE DEF t, v
<1> QED BY <1>1, <1>2, <1>3, <1>4

\* What a command does to the status file: as above, or the batch is given up.
Outcome ==
    \/ Effect(Cur, st, want, st', want')
    \/ cmds' = <<>> /\ st' = st /\ want' = want

\* It is one of these for every command.
LEMMA CommandEffect ==
    ASSUME IInv, Command, pc # "unlink", InPlace(Cur)
    PROVE  Outcome
<1>1. TypeOK /\ pc # "detail" /\ cmds # <<>>
  BY CommandQueues DEF IInv
<1>2. Cur.path \in Paths /\ Cur.ver \in Words /\ Cur.from \in Words
  BY <1>1, HeadTodo
<1>3. "" \in Words /\ "dead" \in Words /\ "dir" \in Words /\ Versions \subseteq Words
  BY WordTypes
<1>4. /\ \A c \in CheckoutCmds \cup CvsCmds \cup {"D"} : c \notin DirCmds
      /\ "I" \in DirCmds /\ "J" \in DirCmds
  BY CmdMarks DEF DirCmds
<1>0. /\ Cur.cmd \in CheckoutCmds => OfCmd("C", Cur) /\ OfCmd("c", Cur)
      /\ Cur.cmd \in CvsCmds => OfCmd("V", Cur) /\ OfCmd("v", Cur)
  BY DEF OfCmd
<1>5. ASSUME Fail PROVE Outcome
  BY <1>5 DEF Fail, Outcome
<1>6. ASSUME Cur.cmd \in CheckoutCmds \cup CvsCmds \cup {"D"}, Forgotten(Cur.path) PROVE Outcome
  BY <1>4, <1>6, ForgottenEffect DEF Outcome
<1>7. ASSUME Cur.cmd \in CheckoutCmds \cup CvsCmds \cup {"D"},
             NEW t \in {"C", "c", "V", "v"}, NEW v \in Words, NEW a \in Words,
             Recorded(Rec(t, Cur.path, v, a)), OfCmd(t, Cur)
      PROVE  Outcome
  <2>1. Cur.cmd \notin DirCmds
    BY <1>4, <1>7
  <2>2. Effect(Cur, st, want, st', want')
    BY <1>7, <2>1, RecordedEffect
  <2> QED BY <2>2 DEF Outcome
<1>8. ASSUME Cur.cmd \in CheckoutCmds \cup CvsCmds, NEW good, UpdateFile(good) PROVE Outcome
  <2>1. Cur.cmd \notin DirCmds
    BY <1>4, <1>8
  <2>2. Effect(Cur, st, want, st', want')
    BY <1>8, <2>1, UpdateFileEffect
  <2> QED BY <2>2 DEF Outcome
<1>9. ASSUME Cur.cmd \in FileCmds, NEW a \in Words, Recorded(FileRec(a)) PROVE Outcome
  <2>1. PICK t \in {"C", "c", "V", "v"}, v \in Words :
          OfCmd(t, Cur) /\ FileRec(a) = Rec(t, Cur.path, v, a)
    BY <1>1, <1>9, FileRecType
  <2>2. Cur.cmd \in CheckoutCmds \cup CvsCmds \cup {"D"}
    BY <1>9 DEF FileCmds, CheckoutCmds, CvsCmds
  <2>3. Recorded(Rec(t, Cur.path, v, a))
    BY <1>9, <2>1
  <2> QED BY <1>7, <2>1, <2>2, <2>3
<1> HIDE DEF Outcome
<1>a. CASE MakeDir
  <2>1. Cur.cmd = "I" /\ st' = Put(st, Rec("D", Cur.path, "", "")) /\ want' = want
    BY <1>a DEF MakeDir, At
  <2>2. Effect(Cur, st, want, st', want')
    BY <2>1, MarkEffect
  <2> QED BY <2>2 DEF Outcome
<1>b. CASE RemoveDir
  <2>1. Cur.cmd \in {"i", "j"} /\ st' = Delete(st, Cur.path, FALSE) /\ want' = want
    BY <1>b DEF RemoveDir, At
  <2> QED BY <2>1 DEF Outcome, Effect
<1>c. CASE SetDirAttrs
  <2>1. Cur.cmd = "J"
    BY <1>c DEF SetDirAttrs, At
  <2>2. CASE Fail
    BY <1>5, <2>2
  <2>3. CASE st' = Put(st, Rec("U", Cur.path, "", "dir")) /\ want' = want
    <3>1. Effect(Cur, st, want, st', want')
      BY <2>1, <2>3, MarkEffect
    <3> QED BY <3>1 DEF Outcome
  <2> QED BY <1>c, <2>2, <2>3 DEF SetDirAttrs
<1>d. CASE RemoveFile
  <2>1. Cur.cmd \in CheckoutCmds \cup CvsCmds \cup {"D"}
    BY <1>d DEF RemoveFile, At
  <2> QED BY <1>5, <1>6, <1>d, <2>1 DEF RemoveFile, Limited
<1>e. CASE UpdateDead
  <2>1. Cur.cmd \in CheckoutCmds \cup CvsCmds \cup {"D"} /\ Cur.cmd \in CheckoutCmds
    BY <1>e DEF UpdateDead, At, CheckoutCmds
  <2> QED BY <1>0, <1>3, <1>5, <1>7, <1>e, <2>1 DEF UpdateDead, Limited
<1>f. CASE CheckoutDead
  <2>1. Cur.cmd \in CheckoutCmds \cup CvsCmds \cup {"D"} /\ Cur.cmd \in CheckoutCmds
    BY <1>f DEF CheckoutDead, At, CheckoutCmds
  <2> QED BY <1>0, <1>3, <1>5, <1>7, <1>f, <2>1 DEF CheckoutDead, Limited
<1>g. CASE SetAttrs
  <2>1. Cur.cmd \in CheckoutCmds \cup CvsCmds \cup {"D"} /\ Cur.cmd \in CheckoutCmds
    BY <1>g DEF SetAttrs, At, CheckoutCmds
  <2>2. On(Cur.path) => disk[Cur.path] \in Words
    BY <1>1, DiskContents
  <2> QED BY <1>0, <1>2, <1>6, <1>7, <1>g, <2>1, <2>2 DEF SetAttrs
<1>h. CASE RecordCvs
  <2> DEFINE t == IF Cur.cmd = "l" THEN "v" ELSE "V"
  <2>1. Cur.cmd \in CheckoutCmds \cup CvsCmds \cup {"D"} /\ Cur.cmd \in CvsCmds
    BY <1>h DEF RecordCvs, At, CvsCmds
  <2>2. Recorded(Rec(t, Cur.path, "", Cur.ver))
    BY <1>h DEF RecordCvs
  <2>3. t \in {"C", "c", "V", "v"} /\ OfCmd(t, Cur)
    BY <1>0, <2>1
  <2> HIDE DEF t
  <2> QED BY <1>2, <1>3, <1>7, <2>1, <2>2, <2>3
<1>i. CASE Checkout
  <2>1. Cur.cmd \in CheckoutCmds \cup CvsCmds
    BY <1>i DEF Checkout, At, CheckoutCmds
  <2> QED BY <1>8, <1>i, <2>1 DEF Checkout
<1>j. CASE Diff
  <2>1. Cur.cmd \in CheckoutCmds \cup CvsCmds
    BY <1>j DEF Diff, At, CheckoutCmds
  <2> QED BY <1>5, <1>8, <1>j, <2>1 DEF Diff, Patched
<1>k. CASE Rsync
  <2>1. Cur.cmd \in CheckoutCmds \cup CvsCmds
    BY <1>k DEF Rsync, At, CvsCmds
  <2> QED BY <1>5, <1>8, <1>k, <2>1 DEF Rsync, Patched
<1>l. CASE Add
  <2>1. Cur.cmd \in CheckoutCmds \cup CvsCmds
    BY <1>l DEF Add, At, CvsCmds
  <2> QED BY <1>8, <1>l, <2>1 DEF Add, AddFile
<1>m. CASE RcsFixup
  <2>1. Cur.cmd \in CheckoutCmds \cup CvsCmds
    BY <1>m DEF RcsFixup, At, CvsCmds
  <2> QED BY <1>8, <1>m, <2>1 DEF RcsFixup, AddFile
<1>n. CASE RcsEdit
  <2>1. Cur.cmd \in CheckoutCmds \cup CvsCmds /\ Cur.cmd \in FileCmds
    BY <1>n DEF RcsEdit, At, CvsCmds, FileCmds
  <2>2. CASE \E good : UpdateFile(good)
    BY <1>8, <2>1, <2>2
  <2>3. CASE ~Edits /\ Recorded(FileRec(Ver(disk[Dest])))
    <3>1. On(Dest)
      BY <1>n, <2>3 DEF RcsEdit, Edits, Moves, At
    <3>2. Ver(disk[Dest]) \in Words
      BY <1>1, <3>1, DiskContents, WordTypes
    <3> QED BY <1>9, <2>1, <2>3, <3>2
  <2> QED BY <1>n, <2>2, <2>3 DEF RcsEdit
<1>o. CASE RcsEditFails
  <2>1. Cur.cmd \notin {"i", "j"}
    BY <1>o DEF RcsEditFails, At
  <2>2. CASE NeedFixup
    BY <2>1, <2>2 DEF NeedFixup, Outcome, Effect
  <2>3. CASE Fail
    BY <1>5, <2>3
  <2> QED BY <1>o, <2>2, <2>3 DEF RcsEditFails
<1>p. CASE Unlink
  BY <1>p DEF Unlink
<1>q. CASE RecordFile
  <2>1. CASE Fail
    BY <1>5, <2>1
  <2>2. CASE On(Dest) /\ Recorded(FileRec(disk[Dest]))
    <3>1. Cur.cmd \in FileCmds
      BY <1>q DEF RecordFile, IInv, Plan
    <3>2. disk[Dest] \in Words
      BY <1>1, <2>2, DiskContents
    <3> QED BY <1>9, <2>2, <3>1, <3>2
  <2> QED BY <1>q, <2>1, <2>2 DEF RecordFile
<1> QED
  BY <1>a, <1>b, <1>c, <1>d, <1>e, <1>f, <1>g, <1>h, <1>i, <1>j, <1>k, <1>l, <1>m,
     <1>n, <1>o, <1>p, <1>q DEF Command

-----------------------------------------------------------------------------
(* The invariant *)

Rest == IF pc = "unlink" THEN Tail(cmds) ELSE cmds
MergeInv ==
    /\ Tidy(stat.recs)
    /\ pc = "flush" => stat.whole /\ Sound(<<>>, stat.recs)
    /\ pc = "detail" => InOrder(cmds)
    /\ pc \in {"apply", "record", "move", "unlink"} =>
         Working(st, want, Rest) /\ FixBefore(fixups, Rest)
    /\ FixSorted(fixups)
    /\ pc \in {"idle", "detail"} => fixups = <<>>

\* An empty file and an empty queue are in order.
LEMMA NothingTidy == Tidy(<<>>) /\ FixSorted(<<>>) /\ \A cs : FixBefore(<<>>, cs)
<1>1. <<>> \in Seq(Good) /\ DOMAIN <<>> = {}
  OBVIOUS
<1> QED BY <1>1 DEF Tidy, Linked, Increasing, FixSorted, FixBefore

\* No more commands.
LEMMA NoWork ==
    ASSUME NEW s, NEW w, NEW cs, Working(s, w, cs), NEW fx
    PROVE  Working(s, w, <<>>) /\ FixBefore(fx, <<>>)
<1>1. DOMAIN <<>> = {}
  OBVIOUS
<1> QED BY <1>1 DEF Working, Orderly, FixBefore

\* The status file as a batch opens it.
LEMMA StatFile ==
    ASSUME Book, Tidy(stat.recs)
    PROVE  stat \in [scan : Int, recs : Seq(Good), whole : BOOLEAN]
<1>1. stat \in [scan : Int, recs : Seq(Honest(raced)), whole : BOOLEAN]
  BY DEF Book
<1>2. stat.recs \in Seq(Good)
  BY DEF Tidy
<1> HIDE DEF Book
<1> QED BY <1>1, <1>2

\* updater_batch()
LEMMA OpenWork ==
    ASSUME Book, Tidy(stat.recs), OpenStatus(stat), NEW cs, InOrder(cs)
    PROVE  Working(st', want', cs)
<1>1. st' = Open(stat, ScanTime) /\ want' = FileRecs(stat.recs)
  BY DEF OpenStatus
<1>2. ScanTime \in Int
  BY DEF ScanTime
<1>3. stat \in [scan : Int, recs : Seq(Good), whole : BOOLEAN]
  BY StatFile
<1>4. Working(Open(stat, ScanTime), FileRecs(stat.recs), cs)
  BY <1>2, <1>3, BeginWork
<1> QED BY <1>1, <1>4

\* updater_batch() begins the next batch, or the updater is done.
LEMMA BatchInv ==
    ASSUME IInv, Tidy(stat.recs), FixSorted(fixups), NextBatch(stat), stat' = stat
    PROVE  MergeInv'
<1>1. Book /\ Plan
  BY DEF IInv
<1>2. CASE pc' = "done" /\ fixups' = fixups
  BY <1>2 DEF MergeInv
<1>3. CASE cmds' = FixupCmds /\ fixups' = <<>> /\ OpenStatus(stat) /\ pc' = "apply"
  <2>1. InOrder(FixupCmds)
    BY <1>1, FixupsInOrder
  <2>2. Working(st', want', FixupCmds)
    BY <1>1, <1>3, <2>1, OpenWork
  <2>3. Rest' = FixupCmds
    BY <1>3 DEF Rest
  <2>4. FixSorted(fixups') /\ FixBefore(fixups', Rest')
    BY <1>3, NothingTidy
  <2> HIDE DEF Rest
  <2> QED BY <1>3, <2>2, <2>3, <2>4 DEF MergeInv
<1> QED BY <1>2, <1>3 DEF NextBatch

\* lister_batch(): what is requested is in order.
LEMMA StartInv ==
    ASSUME IInv, MergeInv, Start
    PROVE  MergeInv'
<1> DEFINE w == Walk(stat.recs)
<1>1. TypeOK /\ Plan
  BY DEF IInv
<1>2. stat.recs \in Seq(Good) /\ Linked(<<>>, stat.recs)
  BY DEF MergeInv, Tidy
<1>3. w \in Walks /\ Lists(w.out, stat.recs, Len(stat.recs))
  BY <1>1, <1>2, WalkNames
<1>4. /\ cmds' = Requests(w.out) /\ pc' = "detail" /\ stat' = stat /\ fixups' = fixups
      /\ pc = "idle"
  BY DEF Start
<1> HIDE DEF w
<1>5. w.out \in Seq(Items) /\ Named(w.out)
  BY <1>3 DEF Walks, Lists, Named
<1>6. InOrder(cmds')
  BY <1>1, <1>4, <1>5, RequestsInOrder
<1> QED BY <1>4, <1>6 DEF MergeInv

\* The details and their answers stand for the requests.
LEMMA DetailInv ==
    ASSUME IInv, MergeInv, Detail
    PROVE  MergeInv'
<1>1. TypeOK /\ Plan /\ Book /\ pc = "detail"
  BY DEF IInv, Detail
<1>2. PICK valid \in BOOLEAN : cmds' = [i \in DOMAIN Details(valid) |-> Answer(Details(valid)[i])]
  BY DEF Detail
<1> DEFINE ds == Details(valid)
<1>3. cmds \in Seq(Requested)
  BY <1>1 DEF Plan
<1>4. StandFor(ds, cmds)
  BY <1>1, <1>3, DetailsStand
<1> HIDE DEF ds
<1>5. cmds' = [i \in DOMAIN ds |-> Answer(ds[i])]
  BY <1>2 DEF ds
<1>6. InOrder(ds)
  BY <1>1, <1>4, StandInOrder DEF MergeInv
<1>7. StandFor(cmds', ds)
  BY <1>5, AnswerStands DEF StandFor
<1>8. InOrder(cmds')
  BY <1>6, <1>7, StandInOrder
<1>9. Tidy(stat.recs) /\ fixups = <<>> /\ FixSorted(fixups)
  BY <1>1 DEF MergeInv
<1>10. OpenStatus(stat) /\ pc' = "apply" /\ stat' = stat /\ fixups' = fixups
  BY DEF Detail
<1>11. Working(st', want', cmds')
  BY <1>1, <1>8, <1>9, <1>10, OpenWork
<1>12. FixBefore(fixups', cmds')
  BY <1>9, <1>10, NothingTidy
<1>13. Rest' = cmds'
  BY <1>10 DEF Rest
<1> QED BY <1>9, <1>10, <1>11, <1>12, <1>13 DEF MergeInv

\* A command of the updater.
LEMMA CommandInv ==
    ASSUME IInv, MergeInv, Command
    PROVE  MergeInv'
<1>1. /\ pc # "detail" /\ cmds # <<>>
      /\ \/ cmds' = Tail(cmds) /\ pc' = "apply"
         \/ cmds' = <<>> /\ pc' = "apply"
         \/ cmds' = cmds /\ pc' \in {"record", "move", "unlink"}
      /\ fixups' \in {fixups, Append(fixups, Cur.path)}
      /\ fixups' # fixups => Cur.path \in Served
  BY CommandQueues DEF Staying
<1>2. pc \in {"apply", "record", "move", "unlink"}
  BY DEF Command, MakeDir, RemoveDir, SetDirAttrs, RemoveFile, UpdateDead, CheckoutDead,
     SetAttrs, RecordCvs, Checkout, Diff, Rsync, Add, RcsFixup, RcsEdit, RcsEditFails,
     RecordFile, Unlink, At
<1>3. /\ Working(st, want, Rest) /\ FixBefore(fixups, Rest) /\ FixSorted(fixups)
      /\ Tidy(stat.recs)
  BY <1>2 DEF MergeInv
<1>4. stat' = stat
  <2>1. raced \subseteq raced'
    BY RacedGrows DEF Next, Run
  <2> QED BY <2>1, CommandBook
<1>5. pc' \in {"apply", "record", "move", "unlink"}
  BY <1>1
<1>6. Working(st', want', Rest') /\ FixSorted(fixups') /\ FixBefore(fixups', Rest')
  <2>1. CASE pc = "unlink"
    <3>1. Unlink
      BY <2>1 DEF Command, MakeDir, RemoveDir, SetDirAttrs, RemoveFile, UpdateDead,
         CheckoutDead, SetAttrs, RecordCvs, Checkout, Diff, Rsync, Add, RcsFixup,
         RcsEdit, RcsEditFails, RecordFile, At
    <3>2. /\ pc' = "apply" /\ cmds' = Tail(cmds) /\ st' = st /\ want' = want
          /\ fixups' = fixups
      BY <3>1 DEF Unlink
    <3>3. Rest' = Rest
      BY <2>1, <3>2 DEF Rest
    <3> QED BY <1>3, <3>2, <3>3
  <2>2. CASE pc' \in {"record", "move"}
    <3>1. cmds' = cmds /\ st' = st /\ want' = want /\ fixups' = fixups
      BY <2>2, CommandInstalls
    <3>2. pc # "unlink"
      BY <2>1, <2>2 DEF Command, Unlink, MakeDir, RemoveDir, SetDirAttrs, RemoveFile,
         UpdateDead, CheckoutDead, SetAttrs, RecordCvs, Checkout, Diff, Rsync, Add,
         RcsFixup, RcsEdit, RcsEditFails, RecordFile, At
    <3>3. Rest' = Rest
      BY <2>2, <3>1, <3>2 DEF Rest
    <3> QED BY <1>3, <3>1, <3>3
  <2>3. CASE pc # "unlink" /\ pc' \notin {"record", "move"}
    <3>1. Rest = cmds
      BY <2>3 DEF Rest
    <3>2. cmds \in Seq(Todo) /\ Todo \subseteq Cmds
      BY <1>1 DEF IInv, Plan, Todo
    <3>3. cmds \in Seq(Cmds) /\ Cur = Head(cmds) /\ Cur = cmds[1] /\ 1 \in DOMAIN cmds
      BY <1>1, <3>2 DEF Cur
    <3>4. InPlace(Cur) /\ Orderly(cmds)
      BY <1>3, <3>1, <3>3 DEF Working
    <3>5. Outcome
      BY <2>3, <3>4, CommandEffect
    <3>6. Rest' = Tail(cmds) \/ Rest' = <<>>
      BY <1>1, <2>3 DEF Rest
    <3>7. fixups \in Seq(Files)
      BY DEF IInv, TypeOK
    <3>8. \/ fixups' = fixups
          \/ fixups' = Append(fixups, Cur.path) /\ Cur.path \in Files
      BY <1>1 DEF Served
    <3>9. FixSorted(fixups') /\ FixBefore(fixups', Tail(cmds))
      BY <1>1, <1>3, <3>1, <3>3, <3>4, <3>7, <3>8, FixupsOn
    <3>10. FixBefore(fixups', Rest')
      <4>1. FixBefore(fixups', <<>>)
        BY DEF FixBefore
      <4> QED BY <3>6, <3>9, <4>1
    <3>11. CASE Effect(Cur, st, want, st', want')
      <4>1. Working(st', want', Tail(cmds))
        BY <1>1, <1>3, <3>1, <3>3, <3>11, WorkOn
      <4>2. Working(st', want', Rest')
        BY <3>6, <4>1, NoWork
      <4> QED BY <3>9, <3>10, <4>2
    <3>12. CASE cmds' = <<>> /\ st' = st /\ want' = want
      <4>1. Rest' = <<>>
        BY <1>1, <3>12 DEF Rest
      <4>2. Working(st', want', Rest')
        BY <1>3, <3>12, <4>1, NoWork
      <4> QED BY <3>9, <3>10, <4>2
    <3> QED BY <3>5, <3>11, <3>12 DEF Outcome
  <2> QED BY <2>1, <2>2, <2>3
<1> HIDE DEF Rest
<1> QED BY <1>3, <1>4, <1>5, <1>6 DEF MergeInv

\* The end of a batch, the next run and the faults.
LEMMA CloseInv ==
    ASSUME IInv, MergeInv, Close
    PROVE  MergeInv'
<1>1. pc = "apply" /\ Tidy(stat.recs) /\ FixSorted(fixups) /\ Merged(st)
  BY DEF Close, MergeInv, Working
<1>2. CASE NextBatch(stat) /\ stat' = stat
  BY <1>1, <1>2, BatchInv
<1>3. CASE pc' = "aborted" /\ stat' = stat /\ fixups' = fixups
  BY <1>1, <1>3 DEF MergeInv
<1>4. CASE /\ ~Finish(st).abort /\ pc' = "flush" /\ fixups' = fixups
           /\ stat' = [scan |-> st.scan, recs |-> Finish(st).out, whole |-> TRUE]
  <2>1. Sound(<<>>, Finish(st).out)
    BY <1>1, <1>4, FinishMerged
  <2> DEFINE q == Finish(st).out
  <2>2. stat'.recs = q /\ stat'.whole = TRUE
    BY <1>4
  <2> HIDE DEF q
  <2>3. Sound(<<>>, q)
    BY <2>1 DEF q
  <2>4. Tidy(q)
    BY <2>3 DEF Sound, Tidy
  <2> QED BY <1>1, <1>4, <2>2, <2>3, <2>4 DEF MergeInv
<1> QED BY <1>2, <1>3, <1>4 DEF Close

\* A crash leaves the old status file, or an initial piece of the new one.
LEMMA CrashInv ==
    ASSUME IInv, MergeInv, Crash
    PROVE  MergeInv'
<1>1. pc' = "idle" /\ fixups' = <<>>
  BY DEF Crash, Reset
<1>2. Tidy(stat.recs)
  BY DEF MergeInv
<1>3. Tidy(stat'.recs)
  <2>1. CASE stat' = stat
    BY <1>2, <2>1
  <2>2. CASE \E n \in 0..Len(stat.recs), whole \in BOOLEAN :
               stat' = [stat EXCEPT !.recs = SubSeq(@, 1, n), !.whole = whole]
    <3>1. PICK n \in 0..Len(stat.recs), whole \in BOOLEAN :
                 stat' = [stat EXCEPT !.recs = SubSeq(@, 1, n), !.whole = whole]
      BY <2>2
    <3>2. stat \in [scan : Int, recs : Seq(Good), whole : BOOLEAN]
      BY <1>2, StatFile DEF IInv
    <3>3. stat'.recs = SubSeq(stat.recs, 1, n)
      BY <3>1, <3>2
    <3> QED BY <1>2, <3>3, SortedPiece
  <2> QED BY <2>1, <2>2 DEF Crash
<1> QED BY <1>1, <1>3, NothingTidy DEF MergeInv

\* The invariant is inductive, relative to the types.
LEMMA MergeStep == IInv /\ MergeInv /\ [Next]_vars => MergeInv'
<1> SUFFICES ASSUME IInv, MergeInv, [Next]_vars PROVE MergeInv'
  OBVIOUS
<1>1. CASE Start
  BY <1>1, StartInv
<1>2. CASE RemoveStatus
  <2>1. pc = "idle" /\ stat' = NoFile /\ pc' = pc /\ fixups' = fixups
    BY <1>2 DEF RemoveStatus
  <2>2. Tidy(NoFile.recs)
    BY NothingTidy DEF NoFile
  <2> QED BY <2>1, <2>2 DEF MergeInv
<1>3. CASE Detail
  BY <1>3, DetailInv
<1>4. CASE Command
  BY <1>4, CommandInv
<1>5. CASE Close
  BY <1>5, CloseInv
<1>6. CASE Flush
  <2>1. Tidy(stat.recs) /\ FixSorted(fixups) /\ NextBatch(stat) /\ stat' = stat
    BY <1>6 DEF Flush, MergeInv
  <2> QED BY <2>1, BatchInv
<1>7. CASE Again
  <2>1. stat' = stat /\ pc' = "idle" /\ fixups' = <<>>
    BY <1>7 DEF Again, Reset
  <2> QED BY <2>1, NothingTidy DEF MergeInv
<1>8. CASE Crash
  BY <1>8, CrashInv
<1>9. CASE LostConnection
  <2>1. /\ pc = "apply" /\ pc' = pc /\ cmds' = <<>> /\ st' = st /\ want' = want
        /\ stat' = stat /\ fixups' = fixups
    BY <1>9 DEF LostConnection, Fail
  <2>2. Rest' = <<>>
    BY <2>1 DEF Rest
  <2>3. Working(st', want', Rest') /\ FixBefore(fixups', Rest')
    BY <2>1, <2>2, NoWork DEF MergeInv
  <2> HIDE DEF Rest
  <2> QED BY <2>1, <2>3 DEF MergeInv
<1>10. CASE UserEdits \/ UNCHANGED vars
  <2>1. UNCHANGED <<stat, pc, cmds, st, want, fixups>>
    BY <1>10 DEF UserEdits, vars
  <2>2. Rest' = Rest
    BY <2>1 DEF Rest
  <2> HIDE DEF Rest
  <2> QED BY <2>1, <2>2 DEF MergeInv
<1> QED
  BY <1>1, <1>2, <1>3, <1>4, <1>5, <1>6, <1>7, <1>8, <1>9, <1>10 DEF Next, Run

\* At the start the status file is that of a tree, or there is none.
LEMMA InitMerge == Init => MergeInv
<1> SUFFICES ASSUME Init PROVE MergeInv
  OBVIOUS
<1>1. pc = "idle" /\ fixups = <<>>
  BY DEF Init
<1>2. Tidy(stat.recs)
  <2>1. PICK base \in Trees({"none", "live", "dead"}, {"v1"}) :
          stat \in {[scan |-> 0, recs |-> StatusOf(base), whole |-> TRUE], NoFile}
    BY DEF Init
  <2>2. CASE stat = [scan |-> 0, recs |-> StatusOf(base), whole |-> TRUE]
    <3>1. Sound(<<>>, StatusOf(base))
      BY StatusOfSound
    <3>2. stat.recs = StatusOf(base)
      BY <2>2
    <3> QED BY <3>1, <3>2 DEF Sound, Tidy
  <2>3. CASE stat = NoFile
    BY <2>3, NothingTidy DEF NoFile
  <2> QED BY <2>1, <2>2, <2>3
<1> QED BY <1>1, <1>2, NothingTidy DEF MergeInv

\* So it always holds.
LEMMA MergeInductive == Spec => []MergeInv
<1>1. IInv /\ MergeInv /\ [Next]_vars => MergeInv'
  BY MergeStep
<1> QED BY <1>1, InitMerge, Inductive, PTL DEF Spec

\* While the updater replaces the records of some files, the old records that
\* are left, the one in hand and the new ones are together the records it put
\* and the old ones of all other files, and no file has two.
THEOREM MergesExactly == Spec => []MergeIsExact
<1>1. MergeInv => MergeIsExact
  <2> SUFFICES ASSUME MergeInv, pc \in {"apply", "record", "move", "unlink"}
               PROVE  LET recs == st.out \o Left(st)
                      IN /\ FileRecs(recs) = want
                         /\ \A i, j \in DOMAIN recs :
                              i # j /\ recs[i].type \notin DirTypes => recs[i].path # recs[j].path
    BY DEF MergeIsExact
  <2>1. Merged(st) /\ FileRecs(st.out \o Left(st)) = want
    BY DEF MergeInv, Working
  <2> QED BY <2>1, MergedOnce
<1> QED BY <1>1, MergeInductive, PTL

\* A status file that was written out completely passes the checks of
\* status_rdraw().
THEOREM WritesReadable == Spec => []StatusReadable
<1>1. MergeInv => StatusReadable
  BY SoundReadable DEF MergeInv, StatusReadable, Whole
<1> QED BY <1>1, MergeInductive, PTL

-----------------------------------------------------------------------------
(* The lister *)

\* The status file has the records of the mode only: there are no RCS files in
\* checkout mode.
ModeInv == stat.recs \in Seq(Moded(cvs)) /\ st \in OpenSts(Moded(cvs))

\* What the compressor makes is of every mode.
LEMMA ModedClosed == \A m : Closed(Moded(m))
BY DEF Closed, Moded, Marks, DirTypes

\* A command records a file of the mode.
LEMMA CommandMode ==
    ASSUME IInv, MergeInv, ModeInv, Command
    PROVE  st' \in OpenSts(Moded(cvs)) /\ stat' = stat
<1> DEFINE G == Moded(cvs)
<1>1. Closed(G) /\ st \in OpenSts(G)
  BY ModedClosed DEF ModeInv
<1>2. stat' = stat
  <2>1. raced \subseteq raced'
    BY RacedGrows DEF Next, Run
  <2> QED BY <2>1, CommandBook
<1>3. pc # "detail" /\ cmds # <<>>
  BY CommandQueues
<1>4. pc \in {"apply", "record", "move", "unlink"}
  BY DEF Command, MakeDir, RemoveDir, SetDirAttrs, RemoveFile, UpdateDead, CheckoutDead,
     SetAttrs, RecordCvs, Checkout, Diff, Rsync, Add, RcsFixup, RcsEdit, RcsEditFails,
     RecordFile, Unlink, At
<1>5. st' \in OpenSts(G)
  <2>1. CASE pc = "unlink"
    <3>1. Unlink
      BY <2>1 DEF Command, MakeDir, RemoveDir, SetDirAttrs, RemoveFile, UpdateDead,
         CheckoutDead, SetAttrs, RecordCvs, Checkout, Diff, Rsync, Add, RcsFixup,
         RcsEdit, RcsEditFails, RecordFile, At
    <3> QED BY <1>1, <3>1 DEF Unlink
  <2>2. CASE pc # "unlink"
    <3>1. Rest = cmds /\ Working(st, want, Rest)
      BY <1>4, <2>2 DEF Rest, MergeInv
    <3>2. cmds \in Seq(Todo)
      BY <1>3 DEF IInv, Plan
    <3>3. Cur = cmds[1] /\ 1 \in DOMAIN cmds
      BY <1>3, <3>2 DEF Cur
    <3>4. InPlace(Cur)
      BY <3>1, <3>3 DEF Working
    <3>5. Outcome
      BY <2>2, <3>4, CommandEffect
    <3>6. \A r \in G : Put(st, r) \in OpenSts(G)
      BY <1>1, PutType
    <3>7. \A p : Delete(st, p, FALSE) \in OpenSts(G)
      BY <1>1, DeleteType
    <3>8. \A r \in Good : OfCmd(r.type, Cur) => r \in G
      BY <1>3, CurFacts, GoodRecs DEF Moded, OfCmd
    <3> HIDE DEF G
    <3> QED BY <1>1, <3>5, <3>6, <3>7, <3>8 DEF Outcome, Effect
  <2> QED BY <1>4, <2>1, <2>2
<1> QED BY <1>2, <1>5

\* No step leaves the mode.
LEMMA ModeStep == IInv /\ MergeInv /\ ModeInv /\ [Next]_vars => ModeInv'
<1> SUFFICES ASSUME IInv, MergeInv, ModeInv, [Next]_vars PROVE ModeInv'
  OBVIOUS
<1> DEFINE G == Moded(cvs)
           FilesOf(H) == [scan : Int, recs : Seq(H), whole : BOOLEAN]
<1>1. cvs' = cvs
  BY InputKept
<1>2. ModeInv' <=> stat'.recs \in Seq(G) /\ st' \in OpenSts(G)
  BY <1>1 DEF ModeInv
<1>3. stat \in FilesOf(G) /\ st \in OpenSts(G) /\ Closed(G)
  <2>1. stat \in [scan : Int, recs : Seq(Honest(raced)), whole : BOOLEAN]
    BY DEF IInv, Book
  <2>2. stat.recs \in Seq(G) /\ st \in OpenSts(G)
    BY DEF ModeInv
  <2> HIDE DEF G
  <2> QED BY <2>1, <2>2, ModedClosed DEF G
<1>4. Finish(st).out \in Seq(G)
  BY <1>3, FinishType
<1>5. /\ NoFile \in FilesOf(G) /\ Open(NoFile, -1) \in OpenSts(G)
      /\ \A f \in FilesOf(G) : Open(f, ScanTime) \in OpenSts(G)
  BY NoFileType, OpenType DEF ScanTime
<1>6. CASE Command
  <2>1. st' \in OpenSts(G) /\ stat' = stat
    BY <1>6, CommandMode
  <2> QED BY <1>2, <1>3, <2>1
<1> HIDE DEF G
<1>7. CASE Start
  BY <1>2, <1>3, <1>7 DEF Start
<1>8. CASE RemoveStatus
  BY <1>2, <1>3, <1>5, <1>8 DEF RemoveStatus
<1>9. CASE Detail
  BY <1>2, <1>3, <1>5, <1>9 DEF Detail, OpenStatus
<1>10. CASE Close
  <2>1. CASE UNCHANGED stat /\ NextBatch(stat)
    BY <1>2, <1>3, <1>5, <2>1 DEF NextBatch, OpenStatus
  <2>2. CASE UNCHANGED <<stat, st>>
    BY <1>2, <1>3, <2>2
  <2>3. CASE /\ stat' = [scan |-> st.scan, recs |-> Finish(st).out, whole |-> TRUE]
             /\ UNCHANGED st
    BY <1>2, <1>3, <1>4, <2>3
  <2> QED BY <1>10, <2>1, <2>2, <2>3 DEF Close
<1>11. CASE Flush
  BY <1>2, <1>3, <1>5, <1>11 DEF Flush, NextBatch, OpenStatus
<1>12. CASE Again
  BY <1>2, <1>3, <1>5, <1>12 DEF Again, Reset
<1>13. CASE Crash
  <2>1. st' \in OpenSts(G)
    BY <1>5, <1>13 DEF Crash, Reset
  <2>2. CASE UNCHANGED stat
    BY <1>2, <1>3, <2>1, <2>2
  <2>3. CASE \E n \in 0..Len(stat.recs), whole \in BOOLEAN :
               stat' = [stat EXCEPT !.recs = SubSeq(@, 1, n), !.whole = whole]
    <3>1. PICK n \in 0..Len(stat.recs), whole \in BOOLEAN :
            stat' = [stat EXCEPT !.recs = SubSeq(@, 1, n), !.whole = whole]
      BY <2>3
    <3>2. stat.recs \in Seq(G) /\ 1 \in Nat \ {0}
      BY <1>3
    <3>3. SubSeq(stat.recs, 1, n) \in Seq(G)
      BY <3>2, SubSeqType
    <3>4. stat'.recs = SubSeq(stat.recs, 1, n)
      BY <1>3, <3>1
    <3> QED BY <1>2, <2>1, <3>3, <3>4
  <2> QED BY <1>13, <2>2, <2>3 DEF Crash
<1>14. CASE LostConnection
  BY <1>2, <1>3, <1>14 DEF LostConnection, Fail
<1>15. CASE UserEdits \/ UNCHANGED vars
  BY <1>2, <1>3, <1>15 DEF UserEdits, vars
<1> QED
  BY <1>6, <1>7, <1>8, <1>9, <1>10, <1>11, <1>12, <1>13, <1>14, <1>15 DEF Next, Run

\* The status file of an older tree is of the mode.
LEMMA InitMode == Init => ModeInv
<1> SUFFICES ASSUME Init PROVE ModeInv
  OBVIOUS
<1>1. st \in OpenSts(Moded(cvs))
  BY NoFileType DEF Init
<1>2. PICK base \in Trees({"none", "live", "dead"}, {"v1"}) :
        stat \in {[scan |-> 0, recs |-> StatusOf(base), whole |-> TRUE], NoFile}
  BY DEF Init
<1>3. StatusOf(base) \in Seq(Moded(cvs)) /\ <<>> \in Seq(Moded(cvs))
  BY StatusOfSound
<1>4. stat.recs \in Seq(Moded(cvs))
  <2>1. stat.recs = StatusOf(base) \/ stat.recs = <<>>
    BY <1>2 DEF NoFile
  <2> QED BY <1>3, <2>1
<1> QED BY <1>1, <1>4 DEF ModeInv

\* So it always holds.
LEMMA ModeInductive == Spec => []ModeInv
BY InitMode, ModeStep, Inductive, MergeInductive, PTL DEF Spec

\* The lister lists the files whose directories are there, each under its own
\* path and no other, and at the end of the status file it is back where it
\* began: lister_coll() counts the directories it goes down and up, and the
\* server follows.
THEOREM KeepsPlace == Spec => []ListerReports
<1>1. IInv /\ MergeInv /\ ModeInv => ListerReports
  <2> SUFFICES ASSUME IInv, MergeInv, ModeInv, Whole(stat)
               PROVE  LET w == Walk(stat.recs)
                          Names(S) == {x.path : x \in {y \in S : y.type \notin DirTypes}}
                      IN /\ Names(ToSet(w.out)) =
                              Names({r \in ToSet(stat.recs) : Above(r.path) \subseteq dirs})
                         /\ w.depth = 0 /\ w.stack = <<>> /\ w.here = <<>>
    BY DEF ListerReports
  <2> DEFINE q == stat.recs
             w == Walk(q)
             n == Len(q)
             Names(S) == {x.path : x \in {y \in S : y.type \notin DirTypes}}
             there == {r \in Range(q) : Above(r.path) \subseteq dirs}
  <2>1. TypeOK /\ q \in Seq(Good) /\ Linked(<<>>, q) /\ q \in Seq(Moded(cvs))
    BY DEF IInv, MergeInv, ModeInv, Tidy
  <2>2. w \in Walks /\ Way(w, End(<<>>, q)) /\ Lists(w.out, q, n)
    BY <2>1, WalkNames
  <2>3. n \in Nat /\ DOMAIN q = 1..n /\ \A i \in 1..n : q[i] \in Moded(cvs)
    BY <2>1
  <2>4. End(<<>>, q) = <<>>
    <3>1. Depth(q, n) = 0
      BY DEF Whole, Readable
    <3>2. n \in 0..n
      BY <2>3
    <3>3. From(<<>>, q, n + 1) \in Seq(Nat) /\ Len(From(<<>>, q, n + 1)) = 0
      BY <2>1, <3>1, <3>2, DepthIs
    <3>4. From(<<>>, q, n + 1) = <<>>
      BY <3>3
    <3>5. q # <<>> => n + 1 # 1 /\ (n + 1) - 1 = n
      BY <2>1
    <3> QED BY <3>4, <3>5 DEF From, End
  <2> HIDE DEF q, w, n
  <2>5. w.depth = 0 /\ w.stack = <<>> /\ w.here = <<>>
    <3>1. Len(<<>>) = 0 /\ 1..0 = {} /\ Way(w, <<>>)
      BY <2>2, <2>4
    <3>2. w.depth = 0 /\ w.here = <<>> /\ Len(w.stack) = 0
      BY <3>1 DEF Way
    <3>3. w.stack \in Seq(Paths)
      BY <2>2, WalkFields
    <3> QED BY <3>2, <3>3
  <2>6. ASSUME NEW x \in Range(w.out), x.type \notin DirTypes
        PROVE  \E r \in there : r.type \notin DirTypes /\ r.path = x.path
    <3>1. PICK i \in 1..n : Reached(q[i]) /\ x = Report(q[i])
      BY <2>2, <2>6 DEF Lists, AFile
    <3>2. q[i] \in Range(q)
      BY <2>3 DEF Range
    <3>3. Report(q[i]).path = q[i].path
      BY ReportFile
    <3> QED BY <3>1, <3>2, <3>3 DEF Reached, AFile
  <2>7. ASSUME NEW r \in there, r.type \notin DirTypes
        PROVE  \E x \in Range(w.out) : x.type \notin DirTypes /\ x.path = r.path
    <3>1. PICK i \in 1..n : r = q[i]
      BY <2>3 DEF Range
    <3>2. r \in Recs /\ (r.type \in {"V", "v"} => cvs)
      BY <2>3, <3>1 DEF Moded
    <3>3. Reached(q[i]) /\ OfMode(q[i])
      BY <2>7, <3>1, <3>2 DEF Reached, AFile, OfMode, Recs, DirTypes
    <3>4. Report(q[i]) \in Range(w.out)
      BY <2>2, <3>3 DEF Lists
    <3>5. Report(q[i]).type \notin DirTypes /\ Report(q[i]).path = r.path
      BY <3>1, ReportFile DEF DirTypes
    <3> QED BY <3>4, <3>5
  <2>8. Names(Range(w.out)) = Names(there)
    <3> HIDE DEF there
    <3> QED BY <2>6, <2>7
  <2>9. \A s : ToSet(s) = Range(s)
    BY DEF ToSet, Range
  <2> QED BY <2>5, <2>8, <2>9 DEF q, w
<1> QED BY <1>1, ModeInductive, Inductive, MergeInductive, PTL
==============================================================================
