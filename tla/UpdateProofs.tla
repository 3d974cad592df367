---------------------------- MODULE UpdateProofs -----------------------------
(***************************************************************************)
(* Proofs about module Update: the types of its variables, and that the    *)
(* status file is honest about the revisions of the files it lists.        *)
(*                                                                         *)
(* The status file is copied by folds over sequences of records, so a few  *)
(* of the lemmas go by induction over the length of a sequence, in the     *)
(* form that does without an operator as a parameter: a set of natural     *)
(* numbers that contains 0 and with every number its successor.            *)
(***************************************************************************)
EXTENDS Update, SequenceTheorems, FiniteSetTheorems, TLAPS

-----------------------------------------------------------------------------
(* Induction and folds *)

\* A set of natural numbers has a least member.
LEMMA LeastNatural ==
    ASSUME NEW S \in SUBSET Nat, S # {}
    PROVE  \E x \in S : \A y \in S : x <= y
<1>1. PICK x \in S : \A y \in S : <<y, x>> \notin OpToRel(<, Nat)
  BY NatLessThanWellFounded, WFMin
<1>2. \A y \in S : ~(y < x)
  BY <1>1 DEF OpToRel
<1> QED BY <1>2

\* Induction over the natural numbers.
LEMMA NatSet ==
    ASSUME NEW T, 0 \in T, \A n \in Nat : n \in T => n + 1 \in T
    PROVE  Nat \subseteq T
<1> DEFINE S == Nat \ T
<1> SUFFICES ASSUME S # {} PROVE FALSE
  OBVIOUS
<1>1. PICK x \in S : \A y \in S : x <= y
  BY LeastNatural
<1>2. x \in Nat /\ x # 0 /\ x - 1 \in Nat /\ x - 1 \notin S
  BY <1>1
<1>3. x \in T
  BY <1>2
<1> QED BY <1>3

\* The greatest number of a set up to m that contains m.
LEMMA MaxUpTo ==
    ASSUME NEW m \in Nat, NEW s \in SUBSET (1..m), m \in s
    PROVE  Max(s) = m /\ s \ {m} \in SUBSET (1..(m - 1))
<1>1. m \in s /\ \A y \in s : m >= y
  OBVIOUS
<1>2. \A x \in s : (\A y \in s : x >= y) => x = m
  OBVIOUS
<1>3. Max(s) \in s /\ \A y \in s : Max(s) >= y
  BY <1>1 DEF Max
<1>4. s \ {m} \in SUBSET (1..(m - 1))
  OBVIOUS
<1> HIDE DEF Max
<1> QED BY <1>2, <1>3, <1>4

\* A set of natural numbers with a bound has a greatest member.
LEMMA MaxIsMember ==
    ASSUME NEW n \in Nat, NEW s \in SUBSET (1..n), s # {}
    PROVE  Max(s) \in s
<1> DEFINE D == {n - x : x \in s}
<1>1. D \in SUBSET Nat /\ D # {}
  <2>1. \A x \in s : n - x \in Nat
    OBVIOUS
  <2> QED BY <2>1
<1>2. PICK d \in D : \A y \in D : d <= y
  BY <1>1, LeastNatural
<1>3. PICK x \in s : d = n - x
  BY <1>2
<1>4. \A y \in s : x >= y
  <2> SUFFICES ASSUME NEW y \in s PROVE x >= y
    OBVIOUS
  <2>1. n - x <= n - y
    BY <1>2, <1>3
  <2> QED BY <2>1
<1> QED BY <1>4 DEF Max

\* The function that FoldLeft chooses, on the indices up to m, ...
Fold(f, m, X, s0, q, g) ==
    /\ f \in [SUBSET (1..m) -> X]
    /\ f[{}] = s0
    /\ \A s \in SUBSET (1..m) : s # {} => f[s] = g[<<f[s \ {Max(s)}], q[Max(s)]>>]

\* ... exists, ...
LEMMA FoldExists ==
    ASSUME NEW X, NEW G, NEW s0 \in X, NEW q \in Seq(G), NEW g,
           \A s \in X, r \in G : g[<<s, r>>] \in X
    PROVE  \E f : Fold(f, Len(q), X, s0, q, g)
<1> DEFINE n == Len(q)
           T == {m \in Nat : m <= n => \E f : Fold(f, m, X, s0, q, g)}
<1> USE DEF Fold
<1>1. n \in Nat /\ \A i \in 1..n : q[i] \in G
  OBVIOUS
<1>2. 0 \in T
  <2> DEFINE h == [s \in SUBSET (1..0) |-> s0]
  <2>1. \A s \in SUBSET (1..0) : s = {}
    OBVIOUS
  <2>2. Fold(h, 0, X, s0, q, g)
    BY <2>1
  <2> HIDE DEF h, Fold
  <2> QED BY <2>2
<1>3. ASSUME NEW m \in Nat, m \in T PROVE m + 1 \in T
  <2> HIDE DEF Fold
  <2> SUFFICES ASSUME m + 1 <= n PROVE \E f : Fold(f, m + 1, X, s0, q, g)
    OBVIOUS
  <2>0. m <= n
    BY <1>1
  <2>1. PICK f : Fold(f, m, X, s0, q, g)
    BY <1>3, <2>0
  <2> USE DEF Fold
  <2> DEFINE h == [s \in SUBSET (1..(m + 1)) |->
                     IF m + 1 \in s THEN g[<<f[s \ {m + 1}], q[m + 1]>>] ELSE f[s]]
  <2>2. ASSUME NEW s \in SUBSET (1..(m + 1))
        PROVE  /\ h[s] \in X
               /\ s # {} => h[s] = g[<<h[s \ {Max(s)}], q[Max(s)]>>]
    <3>1. CASE m + 1 \in s
      <4>1. Max(s) = m + 1 /\ s \ {m + 1} \in SUBSET (1..m)
        BY <3>1, MaxUpTo
      <4>2. h[s \ {m + 1}] = f[s \ {m + 1}] /\ f[s \ {m + 1}] \in X
        BY <2>1, <4>1
      <4>3. q[m + 1] \in G
        BY <1>1
      <4>4. h[s] = g[<<f[s \ {m + 1}], q[m + 1]>>]
        BY <3>1
      <4>5. g[<<f[s \ {m + 1}], q[m + 1]>>] \in X
        BY <4>2, <4>3
      <4> HIDE DEF h, Fold
      <4> QED BY <4>1, <4>2, <4>4, <4>5
    <3>2. CASE m + 1 \notin s
      <4>1. s \in SUBSET (1..m) /\ h[s] = f[s]
        BY <3>2
      <4>2. h[s \ {Max(s)}] = f[s \ {Max(s)}]
        BY <3>2, <4>1
      <4> HIDE DEF h
      <4> QED BY <2>1, <4>1, <4>2
    <3> QED BY <3>1, <3>2
  <2>3. h[{}] = s0 /\ DOMAIN h = SUBSET (1..(m + 1))
    BY <2>1
  <2>4. h \in [SUBSET (1..(m + 1)) -> X]
    BY <2>2
  <2> HIDE DEF h
  <2>5. Fold(h, m + 1, X, s0, q, g)
    BY <2>2, <2>3, <2>4
  <2> HIDE DEF Fold
  <2> QED BY <2>5
<1> HIDE DEF T
<1>4. Nat \subseteq T
  BY <1>2, <1>3, NatSet
<1> HIDE DEF Fold
<1>5. PICK f : Fold(f, n, X, s0, q, g)
  BY <1>1, <1>4 DEF T
<1> QED BY <1>5

\* ... and the fold is its value for all indices together.
LEMMA FoldUp ==
    ASSUME NEW X, NEW n \in Nat, NEW F, F[{}] \in X,
           \A m \in 0..(n - 1) : F[1..m] \in X => F[1..(m + 1)] \in X
    PROVE  F[1..n] \in X
<1> DEFINE T == {m \in Nat : m <= n => F[1..m] \in X}
<1>1. 0 \in T
  <2>1. 1..0 = {}
    OBVIOUS
  <2> QED BY <2>1
<1>2. ASSUME NEW m \in Nat, m \in T PROVE m + 1 \in T
  BY <1>2
<1> HIDE DEF T
<1>3. Nat \subseteq T
  BY <1>1, <1>2, NatSet
<1> QED BY <1>3 DEF T

\* A fold of status_wrraw() over records calls it for one after the other.
RawTraced(X, s0, q, t) ==
    \E tr \in [0..Len(q) -> X] :
      /\ tr[0] = s0 /\ t = tr[Len(q)]
      /\ \A m \in 0..(Len(q) - 1) : tr[m + 1] = WriteRaw(tr[m], q[m + 1])
LEMMA RawTrace ==
    ASSUME NEW G, NEW X, NEW s0 \in X, NEW q \in Seq(G),
           \A s \in X, r \in G : WriteRaw(s, r) \in X
    PROVE  RawTraced(X, s0, q, FoldLeft(WriteRaw, s0, q))
<1> DEFINE Def(f, D) ==
             [s \in SUBSET D |->
                IF s = {} THEN s0
                ELSE WriteRaw(f[s \ {Max(s)}], q[Max(s)])]
           F == CHOOSE f : f = Def(f, DOMAIN q)
           n == Len(q)
           g == [z \in X \X G |-> WriteRaw(z[1], z[2])]
<1>1. FoldLeft(WriteRaw, s0, q) = F[DOMAIN q]
  BY DEF FoldLeft, MapThenFoldSet
<1>2. n \in Nat /\ DOMAIN q = 1..n /\ \A i \in 1..n : q[i] \in G
  OBVIOUS
<1>3. \E f : f = Def(f, 1..n)
  <2>1. /\ \A s \in X, r \in G : g[<<s, r>>] \in X
        /\ \A s \in X, r \in G : g[<<s, r>>] = WriteRaw(s, r)
    OBVIOUS
  <2> HIDE DEF g, F, Def
  <2>2. PICK f : Fold(f, n, X, s0, q, g)
    BY <2>1, FoldExists
  <2>3. ASSUME NEW s \in SUBSET (1..n), s # {}
        PROVE  /\ q[Max(s)] \in G /\ s \ {Max(s)} \in SUBSET (1..n)
               /\ f[s \ {Max(s)}] \in X
    <3>1. Max(s) \in s
      BY <1>2, <2>3, MaxIsMember
    <3> QED BY <1>2, <2>2, <3>1 DEF Fold
  <2>4. \A s \in SUBSET (1..n) :
          s # {} => f[s] = WriteRaw(f[s \ {Max(s)}], q[Max(s)])
    BY <2>1, <2>2, <2>3 DEF Fold
  <2>5. f = Def(f, 1..n)
    BY <2>2, <2>4 DEF Def, Fold
  <2> HIDE DEF Def
  <2> QED BY <2>5
<1>4. F = Def(F, 1..n)
  BY <1>2, <1>3
<1> HIDE DEF F
<1>5. F[{}] = s0
  BY <1>4
<1>6. ASSUME NEW m \in 0..(n - 1)
      PROVE  F[1..(m + 1)] = WriteRaw(F[1..m], q[m + 1]) /\ q[m + 1] \in G
  <2> DEFINE s == 1..(m + 1)
  <2>1. s \in SUBSET (1..n) /\ s # {} /\ m + 1 \in s
    <3>1. m + 1 \in s /\ \A i \in s : i \in 1..n
      BY <1>2
    <3> QED BY <3>1
  <2>2. Max(s) = m + 1 /\ s \ {m + 1} = 1..m
    BY <2>1, MaxUpTo
  <2>3. F[s] = WriteRaw(F[s \ {Max(s)}], q[Max(s)])
    BY <1>4, <2>1
  <2>4. q[m + 1] \in G
    BY <1>2
  <2> QED BY <2>2, <2>3, <2>4
<1>7. ASSUME NEW k \in 0..n PROVE F[1..k] \in X
  <2>1. \A m \in 0..(k - 1) : m \in 0..(n - 1)
    BY <1>2
  <2>2. \A m \in 0..(k - 1) : F[1..m] \in X => F[1..(m + 1)] \in X
    BY <1>6, <2>1
  <2> QED BY <1>5, <2>2, FoldUp
<1> DEFINE tr == [m \in 0..n |-> F[1..m]]
<1>8. tr \in [0..n -> X]
  BY <1>7
<1>9. tr[0] = s0 /\ FoldLeft(WriteRaw, s0, q) = tr[n]
  <2>1. 1..0 = {} /\ 0 \in 0..n /\ n \in 0..n
    BY <1>2
  <2> QED BY <1>1, <1>2, <1>5, <2>1
<1>10. \A m \in 0..(n - 1) : tr[m + 1] = WriteRaw(tr[m], q[m + 1])
  <2>1. \A m \in 0..(n - 1) : m \in 0..n /\ m + 1 \in 0..n
    BY <1>2
  <2> QED BY <1>6, <2>1
<1> HIDE DEF tr
<1> QED BY <1>8, <1>9, <1>10 DEF RawTraced

\* It keeps what one call of it keeps.
LEMMA RawFold ==
    ASSUME NEW G, NEW X, NEW s0 \in X, NEW q \in Seq(G),
           \A s \in X, r \in G : WriteRaw(s, r) \in X
    PROVE  FoldLeft(WriteRaw, s0, q) \in X
<1> DEFINE t == FoldLeft(WriteRaw, s0, q)
<1>1. RawTraced(X, s0, q, t)
  BY RawTrace
<1> HIDE DEF t
<1>2. Len(q) \in 0..Len(q)
  OBVIOUS
<1>3. t \in X
  BY <1>1, <1>2 DEF RawTraced
<1> QED BY <1>3 DEF t

-----------------------------------------------------------------------------
(* The status file *)

Paths == Seq(Nat) \ {<<>>}
Contents == Versions \cup {"v1+", "v2+", "local"}
Words == Contents \cup {"", "dead", "dir", Bogus}
Recs == [type : {"D", "U", "C", "c", "V", "v"}, path : Paths, ver : Words, attr : Words]
Marks == {r \in Recs : r.type \in DirTypes}

\* A set of records that a status file may hold has all that the path
\* compressor makes.
Closed(G) == G \subseteq Recs /\ Marks \subseteq G

\* An open status file whose records are of a set.
OpenSts(G) ==
    [rd : Seq(G), cur : Seq(G), pc : Seq(Nat), out : Seq(G), dirty : BOOLEAN,
     scan : Int, abort : BOOLEAN]

\* A function on an initial piece of the numbers is a sequence.
LEMMA FunctionSeq ==
    ASSUME NEW S, NEW k \in Nat, NEW f \in [1..k -> S]
    PROVE  f \in Seq(S) /\ Len(f) = k
<1>1. f \in Seq(S)
  BY SeqDef
<1>2. Len(f) \in Nat /\ DOMAIN f = 1..Len(f) /\ DOMAIN f = 1..k
  BY <1>1, LenProperties
<1> QED BY <1>1, <1>2

\* The records of opened and closed directories are marks.
LEMMA MarkType ==
    ASSUME NEW p \in Paths, NEW a \in Words
    PROVE  Rec("U", p, "", a) \in Marks /\ Rec("D", p, "", a) \in Marks
<1>1. "" \in Words
  BY DEF Words
<1> QED BY <1>1 DEF Rec, Marks, Recs, DirTypes

\* Pieces of paths are paths.
LEMMA PathParts ==
    ASSUME NEW p \in Seq(Nat), NEW n \in 0..Len(p)
    PROVE  /\ SubSeq(p, 1, n) \in Seq(Nat) /\ Len(SubSeq(p, 1, n)) = n
           /\ \A i \in 1..n : SubSeq(p, 1, n)[i] = p[i]
           /\ n > 0 => SubSeq(p, 1, n) \in Paths
<1>1. \A i \in 1..n : p[i] \in Nat
  OBVIOUS
<1>2. n \in Int /\ 1 \in Int /\ (IF 1 <= n THEN n - 1 + 1 ELSE 0) = n
      /\ n - 1 + 1 = n /\ \A i \in 1..n : 1 + i - 1 = i
  OBVIOUS
<1>3. /\ SubSeq(p, 1, n) \in Seq(Nat) /\ Len(SubSeq(p, 1, n)) = n
      /\ \A i \in 1..n : SubSeq(p, 1, n)[i] = p[i]
  BY <1>1, <1>2, SubSeqProperties
<1>4. n > 0 => SubSeq(p, 1, n) # <<>>
  BY <1>3
<1> QED BY <1>3, <1>4 DEF Paths

\* So is the directory of a file.
LEMMA FrontType ==
    ASSUME NEW p \in Seq(Nat)
    PROVE  Front(p) \in Seq(Nat)
<1>1. CASE p = <<>>
  <2>1. SubSeq(p, 1, 0 - 1) = <<>>
    BY SubSeqEmpty
  <2> QED BY <1>1, <2>1 DEF Front
<1>2. CASE p # <<>>
  <2>1. Len(p) - 1 \in 0..Len(p)
    BY <1>2
  <2> QED BY <2>1, PathParts DEF Front
<1> QED BY <1>1, <1>2

\* The common directories of two paths are directories of both.
LEMMA CommonBounds ==
    ASSUME NEW p \in Seq(Nat), NEW q \in Seq(Nat)
    PROVE  Common(p, q) \in 0..Len(p) /\ Common(p, q) \in 0..Len(q)
<1> DEFINE C == CommonPrefixes({p, q})
           L == {Len(p) - Len(c) : c \in C}
<1>1. \A c \in C : /\ IsPrefix(c, p) /\ IsPrefix(c, q)
                   /\ Len(c) \in Nat
  <2> SUFFICES ASSUME NEW c \in C
               PROVE  IsPrefix(c, p) /\ IsPrefix(c, q) /\ Len(c) \in Nat
    OBVIOUS
  <2>1. PICK s \in {p, q} : c \in Prefixes(s)
    BY DEF CommonPrefixes
  <2>2. PICK n \in 0..Len(s) : c = SubSeq(s, 1, n)
    BY <2>1 DEF Prefixes
  <2>3. Len(c) = n /\ n \in Nat
    BY <2>2, PathParts
  <2> QED BY <2>3 DEF CommonPrefixes
<1>2. \A c \in C : Len(c) \in 0..Len(p) /\ Len(c) \in 0..Len(q)
  BY <1>1 DEF IsPrefix
<1>3. <<>> \in C
  <2>1. SubSeq(p, 1, 0) = <<>> /\ SubSeq(q, 1, 0) = <<>> /\ SubSeq(<<>>, 1, 0) = <<>>
    BY SubSeqEmpty
  <2>2. <<>> \in Prefixes(p)
    <3>1. 0 \in 0..Len(p)
      OBVIOUS
    <3> QED BY <2>1, <3>1 DEF Prefixes
  <2>3. IsPrefix(<<>>, p) /\ IsPrefix(<<>>, q)
    BY <2>1 DEF IsPrefix
  <2> QED BY <2>2, <2>3 DEF CommonPrefixes
<1> HIDE DEF C
<1>4. L \in SUBSET Nat /\ L # {}
  <2>1. \A c \in C : Len(p) - Len(c) \in Nat
    BY <1>2
  <2> QED BY <1>3, <2>1
<1>5. PICK x \in L : \A y \in L : x <= y
  BY <1>4, LeastNatural
<1>6. PICK c \in C : x = Len(p) - Len(c)
  BY <1>5
<1>7. \A d \in C : Len(d) <= Len(c)
  <2> SUFFICES ASSUME NEW d \in C PROVE Len(d) <= Len(c)
    OBVIOUS
  <2>1. Len(p) - Len(c) <= Len(p) - Len(d)
    BY <1>5, <1>6
  <2>2. Len(c) \in Nat /\ Len(d) \in Nat /\ Len(p) \in Nat
    BY <1>2, <1>6
  <2> QED BY <2>1, <2>2
<1>8. LongestCommonPrefix({p, q}) \in C
  BY <1>6, <1>7 DEF LongestCommonPrefix, C
<1> QED BY <1>2, <1>8 DEF Common

\* What pathcomp_get() gives out are records of directories.
LEMMA CompressorType ==
    ASSUME NEW pc0 \in Seq(Nat), NEW t \in Seq(Nat), NEW attr \in Words,
           NEW n \in Nat, n <= Len(pc0), n <= Len(t)
    PROVE  Ups(pc0, n, attr) \in Seq(Marks) /\ Downs(t, n) \in Seq(Marks)
<1>1. \A i \in 1..(Len(pc0) - n) :
        Rec("U", SubSeq(pc0, 1, Len(pc0) - i + 1), "", IF i = 1 THEN attr ELSE Bogus)
          \in Marks
  <2> SUFFICES ASSUME NEW i \in 1..(Len(pc0) - n)
               PROVE  Rec("U", SubSeq(pc0, 1, Len(pc0) - i + 1), "",
                          IF i = 1 THEN attr ELSE Bogus) \in Marks
    OBVIOUS
  <2>1. Len(pc0) - i + 1 \in 0..Len(pc0) /\ Len(pc0) - i + 1 > 0
    OBVIOUS
  <2>2. SubSeq(pc0, 1, Len(pc0) - i + 1) \in Paths
    BY <2>1, PathParts
  <2>3. (IF i = 1 THEN attr ELSE Bogus) \in Words
    BY DEF Words
  <2> QED BY <2>2, <2>3, MarkType
<1>2. \A i \in 1..(Len(t) - n) : Rec("D", SubSeq(t, 1, n + i), "", "") \in Marks
  <2> SUFFICES ASSUME NEW i \in 1..(Len(t) - n)
               PROVE  Rec("D", SubSeq(t, 1, n + i), "", "") \in Marks
    OBVIOUS
  <2>1. n + i \in 0..Len(t) /\ n + i > 0
    OBVIOUS
  <2>2. SubSeq(t, 1, n + i) \in Paths
    BY <2>1, PathParts
  <2>3. "" \in Words
    BY DEF Words
  <2> QED BY <2>2, <2>3, MarkType
<1>3. Len(pc0) - n \in Nat /\ Len(t) - n \in Nat
  OBVIOUS
<1>4. Ups(pc0, n, attr) \in [1..(Len(pc0) - n) -> Marks]
  BY <1>1 DEF Ups
<1>5. Downs(t, n) \in [1..(Len(t) - n) -> Marks]
  BY <1>2 DEF Downs
<1> QED BY <1>3, <1>4, <1>5, FunctionSeq

\* status_wr() adds the record, and records of directories.
LEMMA WriteType ==
    ASSUME NEW G, Closed(G), NEW s \in OpenSts(G), NEW r \in G
    PROVE  Write(s, r) \in OpenSts(G)
<1>1. r \in Recs /\ r.path \in Seq(Nat) /\ r.attr \in Words
  BY DEF Closed, Recs, Paths
<1>2. Target(r) \in Seq(Nat)
  BY <1>1, FrontType DEF Target
<1> DEFINE n == Common(s.pc, Target(r))
           attr == IF r.type = "U" THEN r.attr ELSE Bogus
           tail == IF r.type \in DirTypes THEN <<>> ELSE <<r>>
           ups == Ups(s.pc, n, attr)
           downs == Downs(Target(r), n)
<1>3. s.pc \in Seq(Nat) /\ s.out \in Seq(G)
  BY DEF OpenSts
<1>4. n \in Nat /\ n <= Len(s.pc) /\ n <= Len(Target(r))
  BY <1>2, <1>3, CommonBounds
<1>5. attr \in Words
  BY <1>1 DEF Words
<1>6. ups \in Seq(Marks) /\ downs \in Seq(Marks)
  BY <1>2, <1>3, <1>4, <1>5, CompressorType
<1>7. ups \in Seq(G) /\ downs \in Seq(G) /\ tail \in Seq(G)
  BY <1>6, SeqMonotonic DEF Closed
<1>8. s.out \o ups \o downs \o tail \in Seq(G)
  BY <1>3, <1>7
<1>9. Write(s, r) = [s EXCEPT !.pc = Target(r), !.out = @ \o ups \o downs \o tail]
  BY DEF Write
<1> HIDE DEF ups, downs, tail, n, attr
<1> QED BY <1>2, <1>8, <1>9 DEF OpenSts

\* So does status_wrraw(), one record after the other.
LEMMA WriteRawType ==
    ASSUME NEW G, Closed(G), NEW s \in OpenSts(G), NEW r \in G
    PROVE  WriteRaw(s, r) \in OpenSts(G)
<1>1. Target(r) \in Seq(Nat)
  BY FrontType DEF Target, Closed, Recs, Paths
<1>2. Append(s.out, r) \in Seq(G)
  BY DEF OpenSts
<1> QED BY <1>1, <1>2 DEF WriteRaw, OpenSts

\* What status_get() passes is at most all that is left.
LEMMA BeforeBounds ==
    ASSUME NEW G, NEW s \in OpenSts(G), NEW key
    PROVE  Left(s) \in Seq(G) /\ Before(s, key) \in 0..Len(Left(s))
<1>1. Left(s) \in Seq(G)
  BY DEF Left, OpenSts
<1> DEFINE S == {i \in DOMAIN Left(s) : ~RecLess(Left(s)[i], key)}
<1>2. CASE S = {}
  BY <1>1, <1>2 DEF Before
<1>3. CASE S # {}
  <2>1. S \in SUBSET Nat /\ \A i \in S : i \in 1..Len(Left(s))
    BY <1>1
  <2>2. \E x \in S : \A y \in S : x <= y
    BY <1>3, <2>1, LeastNatural
  <2>3. Min(S) \in S
    BY <2>2 DEF Min
  <2> QED BY <1>1, <1>3, <2>1, <2>3 DEF Before
<1> QED BY <1>2, <1>3

\* A piece of a sequence is a sequence.
LEMMA SubSeqType ==
    ASSUME NEW G, NEW q \in Seq(G), NEW m \in Nat \ {0}, NEW n \in 0..Len(q)
    PROVE  SubSeq(q, m, n) \in Seq(G)
<1>1. \A i \in m..n : q[i] \in G
  OBVIOUS
<1> QED BY <1>1, SubSeqProperties

\* status_get() keeps to the records there are.
LEMMA SeekType ==
    ASSUME NEW G, Closed(G), NEW s \in OpenSts(G), NEW key, NEW deleteto
    PROVE  Seek(s, key, deleteto) \in OpenSts(G)
<1> DEFINE L == Left(s)
           n == Before(s, key)
           passed == SubSeq(L, 1, n)
           copied == IF deleteto \/ n = 0 THEN s
                     ELSE FoldLeft(WriteRaw, Write(s, passed[1]), Tail(passed))
           cur == SubSeq(L, n + 1, Min({n + 1, Len(L)}))
           rd == SubSeq(L, n + 2, Len(L))
<1>1. L \in Seq(G) /\ n \in 0..Len(L) /\ Len(L) \in Nat
  BY BeforeBounds
<1> HIDE DEF L, n
<1>2. passed \in Seq(G) /\ Len(passed) = n
  <2>1. passed \in Seq(G)
    BY <1>1, SubSeqType
  <2>2. \A i \in 1..n : L[i] \in G
    BY <1>1
  <2> QED BY <1>1, <2>1, <2>2, SubSeqProperties
<1>3. copied \in OpenSts(G)
  <2>1. CASE deleteto \/ n = 0
    BY <2>1
  <2>2. CASE ~(deleteto \/ n = 0)
    <3>1. passed # <<>> /\ passed[1] \in G /\ Tail(passed) \in Seq(G)
      BY SMTT(30), <1>1, <1>2, <2>2
    <3>2. Write(s, passed[1]) \in OpenSts(G)
      BY <3>1, WriteType
    <3>3. \A t \in OpenSts(G), r \in G : WriteRaw(t, r) \in OpenSts(G)
      BY WriteRawType
    <3>4. FoldLeft(WriteRaw, Write(s, passed[1]), Tail(passed)) \in OpenSts(G)
      BY <3>1, <3>2, <3>3, RawFold
    <3> QED BY <2>2, <3>4
  <2> QED BY <2>1, <2>2
<1>4. cur \in Seq(G) /\ rd \in Seq(G)
  <2>1. Min({n + 1, Len(L)}) \in 0..Len(L)
    <3>1. n + 1 <= Len(L) => \A y \in {n + 1, Len(L)} : n + 1 <= y
      BY <1>1
    <3>2. n + 1 > Len(L) => \A y \in {n + 1, Len(L)} : Len(L) <= y
      BY <1>1
    <3>3. \E x \in {n + 1, Len(L)} : \A y \in {n + 1, Len(L)} : x <= y
      BY <1>1, <3>1, <3>2
    <3>4. /\ Min({n + 1, Len(L)}) \in {n + 1, Len(L)}
          /\ Min({n + 1, Len(L)}) <= Len(L)
      BY <3>3 DEF Min
    <3> QED BY <1>1, <3>4
  <2>2. n + 1 \in Nat \ {0} /\ n + 2 \in Nat \ {0} /\ Len(L) \in 0..Len(L)
    BY <1>1
  <2> QED BY <1>1, <2>1, <2>2, SubSeqType
<1>5. Seek(s, key, deleteto) = [copied EXCEPT !.cur = cur, !.rd = rd]
  BY DEF Seek, L, n
<1> HIDE DEF cur, rd, copied
<1> QED BY <1>3, <1>4, <1>5 DEF OpenSts

\* The record in hand may be dropped.
LEMMA DropType ==
    ASSUME NEW G, NEW s \in OpenSts(G)
    PROVE  Drop(s) \in OpenSts(G)
<1>1. <<>> \in Seq(G)
  OBVIOUS
<1> QED BY <1>1 DEF Drop, OpenSts

\* status_put() adds the record it is given.
LEMMA PutType ==
    ASSUME NEW G, Closed(G), NEW s \in OpenSts(G), NEW r \in G
    PROVE  Put(s, r) \in OpenSts(G)
<1> DEFINE key == Key(r.path, r.type = "U")
           u == Seek(s, key, FALSE)
           t == IF ~Found(u, key) THEN u
                ELSE IF u.cur[1].type # "D" THEN Drop(u)
                ELSE IF r.type \in {"C", "c"} THEN DropDir(u, r.path)
                ELSE u
<1>1. u \in OpenSts(G)
  BY SeekType
<1> HIDE DEF u
<1>2. Drop(u) \in OpenSts(G)
  BY <1>1, DropType
<1>3. DropDir(u, r.path) \in OpenSts(G)
  <2> DEFINE k == Key(r.path, TRUE)
             v == Seek(u, k, TRUE)
  <2>1. v \in OpenSts(G)
    BY <1>1, SeekType
  <2>2. DropDir(u, r.path) = [v EXCEPT !.abort = @ \/ ~Found(v, k)]
    BY DEF DropDir
  <2> HIDE DEF v
  <2>3. (v.abort \/ ~Found(v, k)) \in BOOLEAN
    BY DEF Found
  <2> QED BY <2>1, <2>2, <2>3 DEF OpenSts
<1>4. t \in OpenSts(G)
  BY <1>1, <1>2, <1>3
<1>5. Put(s, r) = Write([t EXCEPT !.dirty = TRUE], r)
  BY DEF Put, u
<1> HIDE DEF t
<1>6. [t EXCEPT !.dirty = TRUE] \in OpenSts(G)
  BY <1>4 DEF OpenSts
<1> QED BY <1>5, <1>6, WriteType

\* status_delete() adds nothing.
LEMMA DeleteType ==
    ASSUME NEW G, Closed(G), NEW s \in OpenSts(G), NEW path, NEW isdirup
    PROVE  Delete(s, path, isdirup) \in OpenSts(G)
<1> DEFINE u == Seek(s, Key(path, isdirup), FALSE)
<1>1. u \in OpenSts(G)
  BY SeekType
<1>2. Delete(s, path, isdirup) =
        IF Found(u, Key(path, isdirup)) THEN [Drop(u) EXCEPT !.dirty = TRUE] ELSE u
  BY DEF Delete
<1> HIDE DEF u
<1>3. [Drop(u) EXCEPT !.dirty = TRUE] \in OpenSts(G)
  <2>1. Drop(u) \in OpenSts(G)
    BY <1>1, DropType
  <2> QED BY <2>1 DEF OpenSts
<1> QED BY <1>1, <1>2, <1>3

\* status_close() writes what is left and closes the directories.
LEMMA FinishType ==
    ASSUME NEW G, Closed(G), NEW s \in OpenSts(G)
    PROVE  Finish(s).out \in Seq(G) /\ Finish(s).abort \in BOOLEAN
<1> DEFINE u == IF s.cur = <<>> THEN s ELSE Write(s, s.cur[1])
           t == FoldLeft(WriteRaw, u, s.rd)
<1>1. s.cur \in Seq(G) /\ s.rd \in Seq(G)
  BY DEF OpenSts
<1>2. u \in OpenSts(G)
  <2>1. s.cur # <<>> => s.cur[1] \in G
    BY <1>1
  <2>2. s.cur # <<>> => Write(s, s.cur[1]) \in OpenSts(G)
    BY <2>1, WriteType
  <2> QED BY <2>2
<1>3. t \in OpenSts(G)
  <2>1. \A v \in OpenSts(G), r \in G : WriteRaw(v, r) \in OpenSts(G)
    BY WriteRawType
  <2> QED BY <1>1, <1>2, <2>1, RawFold
<1>4. Finish(s) = [t EXCEPT !.cur = <<>>, !.rd = <<>>, !.pc = <<>>,
                            !.out = @ \o Ups(t.pc, 0, Bogus)]
  BY DEF Finish
<1> HIDE DEF t
<1>5. Ups(t.pc, 0, Bogus) \in Seq(G)
  <2>1. t.pc \in Seq(Nat) /\ Bogus \in Words /\ 0 \in Nat /\ 0 <= Len(t.pc)
    BY <1>3 DEF OpenSts, Words
  <2>2. Ups(t.pc, 0, Bogus) \in Seq(Marks)
    BY <2>1, CompressorType
  <2> QED BY <2>2, SeqMonotonic DEF Closed
<1>6. t.out \o Ups(t.pc, 0, Bogus) \in Seq(G)
  BY <1>3, <1>5 DEF OpenSts
<1>7. /\ Finish(s).out = t.out \o Ups(t.pc, 0, Bogus)
      /\ Finish(s).abort = t.abort
  BY <1>3, <1>4 DEF OpenSts
<1> QED BY <1>3, <1>6, <1>7 DEF OpenSts

\* A record that is found is one of those there are, with the path asked for.
LEMMA FoundRecord ==
    ASSUME NEW G, NEW s \in OpenSts(G), NEW key, Found(s, key)
    PROVE  s.cur # <<>> /\ s.cur[1] \in G /\ s.cur[1].path = key.path
<1>1. s.cur # <<>> /\ s.cur \in Seq(G)
  BY DEF Found, OpenSts
<1> QED BY <1>1 DEF Found, RecEqual

\* More records may be in a larger set.
LEMMA OpenStsGrow ==
    ASSUME NEW G, NEW H, G \subseteq H, NEW s \in OpenSts(G)
    PROVE  s \in OpenSts(H)
<1>1. s.rd \in Seq(H) /\ s.cur \in Seq(H) /\ s.out \in Seq(H)
  BY SeqMonotonic DEF OpenSts
<1> QED BY <1>1 DEF OpenSts

-----------------------------------------------------------------------------
(* The inductive invariant *)

\* The records that do not say of a checked-out file that it has a revision
\* and the attributes of another one, except for some files.
Honest(R) ==
    {r \in Recs : r.type = "C" => Ver(r.attr) = r.ver \/ r.path \in R}

\* All records there are, in the status file and in the open one, are honest.
Book ==
    /\ stat \in [scan : Int, recs : Seq(Honest(raced)), whole : BOOLEAN]
    /\ st \in OpenSts(Honest(raced))

DirCmds == {"I", "J", "i", "j"}
CheckoutCmds == {"C", "U", "Y", "T", "u", "c"}
CvsCmds == {"A", "a", "V", "v", "r", "X", "x", "L", "l"}
Cmds ==
    [cmd : DirCmds \cup {"D", "S", "t"} \cup CheckoutCmds \cup CvsCmds,
     path : Paths, ver : Words, from : Words]
Served == {p \in Files : Has(srv, p)}

\* What the server may request for the client's list, and what it may send to
\* the updater.
Requested ==
    {c \in Cmds : /\ c.cmd \in DirCmds \cup {"D", "U", "T", "t"}
                  /\ c.cmd \in {"U", "T", "t"} => c.path \in Served
                  /\ c.cmd = "U" => ~cvs
                  /\ c.cmd \in {"T", "t"} => cvs}
Todo ==
    {c \in Cmds : /\ c.cmd \in DirCmds \cup {"D"} \cup CheckoutCmds \cup CvsCmds
                  /\ c.cmd \in CheckoutCmds => ~cvs /\ c.path \in Served
                  /\ c.cmd \in CvsCmds => cvs /\ c.path \in Served
                  /\ c.cmd \in (CheckoutCmds \cup CvsCmds) \ {"u", "c", "L", "l"}
                       => c.ver = srv[c.path].ver
                  /\ c.cmd \in {"a", "v", "x"} => ~Live(srv, c.path)}

\* The commands that install a file.
FileCmds == {"C", "Y", "U", "r", "A", "a", "X", "x", "V", "v"}

\* The commands on their way are such commands.
Plan ==
    /\ srv \in Trees({"none", "live", "dead"}, Versions)
    /\ pc = "detail" => cmds \in Seq(Requested)
    /\ pc # "detail" => cmds \in Seq(Todo)
    /\ fixups \in Seq(Served)
    /\ pc \in {"record", "move", "unlink"} => cmds # <<>> /\ Cur.cmd \in FileCmds
    /\ pc \in {"move", "unlink"} => Cur.cmd \in {"V", "v"} /\ Cur.path \in RcsFiles

\* A file whose attributes alone are to be set is at the revision the server
\* says, unless a user changes it meanwhile.
Told ==
    pc # "detail" =>
      \A i \in DOMAIN cmds :
        cmds[i].cmd = "T" /\ On(cmds[i].path) =>
          \/ Ver(disk[cmds[i].path]) = cmds[i].ver
          \/ cmds[i].path \in edited \cup raced

\* A file that was installed and is not yet recorded is at the revision the
\* server says, unless a user changed it.
Installed ==
    pc \in {"record", "move"} /\ On(Dest) =>
      Ver(disk[Dest]) = Cur.ver \/ Cur.path \in edited

IInv == TypeOK /\ Book /\ Plan /\ Told /\ Installed

\* What the compressor makes is honest.
LEMMA HonestClosed ==
    ASSUME NEW R
    PROVE  Closed(Honest(R))
BY DEF Closed, Honest, Marks, DirTypes

\* More files excepted, more records.
LEMMA HonestGrows ==
    ASSUME NEW R, NEW S, R \subseteq S
    PROVE  Honest(R) \subseteq Honest(S)
BY DEF Honest

\* Files are never taken from the exceptions.
LEMMA RacedGrows == [Next]_vars => raced \subseteq raced'
BY DEF Next, Run, Command, Start, RemoveStatus, Detail, Close, Flush, Again, Crash,
   LostConnection, UserEdits, MakeDir, RemoveDir, SetDirAttrs, RemoveFile,
   UpdateDead, CheckoutDead, SetAttrs, RecordCvs, Checkout, Diff, Rsync, Add,
   RcsFixup, RcsEdit, RcsEditFails, RecordFile, Unlink, AddFile, Patched, Limited,
   Deleted, Fail, NoFault, history, vars

\* The words that commands and records are made of.
LEMMA WordTypes ==
    /\ "" \in Words /\ "dead" \in Words /\ "dir" \in Words
    /\ Versions \subseteq Contents /\ Contents \subseteq Words
    /\ \A e \in Contents : Ver(e) \in Contents /\ Touch(e) \in Contents
    /\ \A v \in Versions : Ver(v) = v
    /\ "local" \in Contents
BY DEF Words, Contents, Versions, Ver, Touch

\* The server's tree has a version for every file.
LEMMA TreeTypes ==
    ASSUME NEW ats, NEW versions, NEW t \in Trees(ats, versions), NEW p \in Files
    PROVE  /\ t[p].ver \in versions /\ t[p].at \in ats
           /\ t[p].at = "dead" => p \in RcsFiles
<1>1. t \in [Files -> {SrvFile(at, v) : at \in ats, v \in versions}]
  BY DEF Trees
<1>2. PICK at \in ats, v \in versions : t[p] = SrvFile(at, v)
  BY <1>1
<1> QED BY <1>2 DEF SrvFile, Trees

\* The command at the head of the queue.
LEMMA HeadTodo ==
    ASSUME IInv, pc # "detail", cmds # <<>>
    PROVE  /\ Cur \in Todo /\ Tail(cmds) \in Seq(Todo)
           /\ Cur = cmds[1] /\ 1 \in DOMAIN cmds
           /\ Cur.path \in Paths /\ Cur.ver \in Words /\ Cur.from \in Words
<1>1. cmds \in Seq(Todo)
  BY DEF IInv, Plan
<1>2. /\ Head(cmds) = cmds[1] /\ Head(cmds) \in Todo /\ Tail(cmds) \in Seq(Todo)
      /\ 1 \in DOMAIN cmds
  BY <1>1
<1>3. Todo \subseteq Cmds
  BY DEF Todo
<1> QED BY <1>2, <1>3 DEF Cmds, Cur

\* What is known of it, by its kind.
LEMMA CurFacts ==
    ASSUME IInv, pc # "detail", cmds # <<>>
    PROVE  /\ Cur.cmd \in CheckoutCmds => ~cvs
           /\ Cur.cmd \in CvsCmds => cvs
           /\ Cur.cmd \in CheckoutCmds \cup CvsCmds =>
                /\ Cur.path \in Files /\ Has(srv, Cur.path)
                /\ srv[Cur.path].ver \in Versions
                /\ Cur.cmd \notin {"u", "c", "L", "l"} => Cur.ver = srv[Cur.path].ver
           /\ Cur.cmd \in {"a", "v", "x"} => Cur.path \in RcsFiles
<1>1. Cur \in Todo /\ srv \in Trees({"none", "live", "dead"}, Versions)
  BY HeadTodo DEF IInv, Plan
<1>2. Cur.path \in Files =>
        /\ srv[Cur.path].ver \in Versions
        /\ srv[Cur.path].at \in {"none", "live", "dead"}
        /\ srv[Cur.path].at = "dead" => Cur.path \in RcsFiles
  BY <1>1, TreeTypes
<1> QED BY <1>1, <1>2 DEF Todo, Served, Has, Live, CheckoutCmds, CvsCmds

-----------------------------------------------------------------------------
(* Records *)

\* What may become of the status file in a step.
LEMMA BookWays ==
    ASSUME Book, raced \subseteq raced'
    PROVE  /\ stat \in [scan : Int, recs : Seq(Honest(raced')), whole : BOOLEAN]
           /\ st \in OpenSts(Honest(raced'))
           /\ \A r \in Honest(raced') : Put(st, r) \in OpenSts(Honest(raced'))
           /\ \A p, b : Delete(st, p, b) \in OpenSts(Honest(raced'))
           /\ Finish(st).out \in Seq(Honest(raced'))
           /\ Finish(st).abort \in BOOLEAN
           /\ st.scan \in Int
<1> DEFINE G == Honest(raced')
<1>1. Honest(raced) \subseteq G /\ Closed(G)
  BY HonestClosed, HonestGrows
<1> HIDE DEF G
<1>2. stat.recs \in Seq(G)
  BY <1>1, SeqMonotonic DEF Book
<1>3. st \in OpenSts(G)
  BY <1>1, OpenStsGrow DEF Book
<1>4. stat \in [scan : Int, recs : Seq(G), whole : BOOLEAN]
  BY <1>2 DEF Book
<1>5. \A r \in G : Put(st, r) \in OpenSts(G)
  BY <1>1, <1>3, PutType
<1>6. \A p, b : Delete(st, p, b) \in OpenSts(G)
  BY <1>1, <1>3, DeleteType
<1>7. Finish(st).out \in Seq(G) /\ Finish(st).abort \in BOOLEAN
  BY <1>1, <1>3, FinishType
<1>8. st.scan \in Int
  BY <1>3 DEF OpenSts
<1> QED BY <1>3, <1>4, <1>5, <1>6, <1>7, <1>8 DEF G

\* An open status file starts with the records of the old one.
LEMMA OpenType ==
    ASSUME NEW G, NEW n \in Int,
           NEW file \in [scan : Int, recs : Seq(G), whole : BOOLEAN]
    PROVE  Open(file, n) \in OpenSts(G)
<1>1. <<>> \in Seq(G) /\ <<>> \in Seq(Nat) /\ file.recs \in Seq(G) /\ file.scan \in Int
  OBVIOUS
<1> QED BY <1>1 DEF Open, OpenSts

\* So does the file that is not there.
LEMMA NoFileType ==
    ASSUME NEW G
    PROVE  /\ NoFile \in [scan : Int, recs : Seq(G), whole : BOOLEAN]
           /\ Open(NoFile, -1) \in OpenSts(G)
<1>1. <<>> \in Seq(G) /\ -1 \in Int
  OBVIOUS
<1>2. NoFile \in [scan : Int, recs : Seq(G), whole : BOOLEAN]
  BY <1>1 DEF NoFile
<1> QED BY <1>1, <1>2, OpenType

\* Records without attributes to tell are honest.
LEMMA PlainHonest ==
    ASSUME NEW R, NEW p \in Paths, NEW a \in Words,
           NEW t \in {"D", "U", "c", "V", "v"}, NEW v \in Words
    PROVE  Rec(t, p, v, a) \in Honest(R)
BY DEF Rec, Honest, Recs

\* So is the record of a file that was just installed.
LEMMA FreshHonest ==
    ASSUME NEW R, NEW p \in Paths, NEW v \in Versions
    PROVE  Rec("C", p, v, v) \in Honest(R)
BY WordTypes DEF Rec, Honest, Recs

\* What is on the disk is a content.
LEMMA DiskContents ==
    ASSUME TypeOK, NEW l, On(l)
    PROVE  disk[l] \in Contents /\ disk[l] \in Words
BY WordTypes DEF TypeOK, On, Contents

\* Installing a file records nothing.
LEMMA UpdateFileBook ==
    ASSUME NEW good, UpdateFile(good)
    PROVE  st' = st /\ stat' = stat
BY DEF UpdateFile, NeedFixup

\* The record of an installed file is honest, but for those excepted.
LEMMA FileRecHonest ==
    ASSUME NEW R, NEW a \in Words, Cur.path \in Paths, Cur.ver \in Words,
           ~cvs => Ver(a) = Cur.ver \/ Cur.path \in R,
           cvs => Cur.cmd \notin {"C", "Y", "U"}
    PROVE  FileRec(a) \in Honest(R)
<1>1. "" \in Words
  BY WordTypes
<1> QED BY <1>1 DEF FileRec, Rec, Honest, Recs

\* Every command of the updater leaves honest records behind, whatever a user
\* did to the files.
LEMMA CommandBook ==
    ASSUME IInv, Command, raced \subseteq raced'
    PROVE  stat' = stat /\ st' \in OpenSts(Honest(raced'))
<1> DEFINE G == Honest(raced')
<1>1. Book /\ TypeOK
  BY DEF IInv
<1>2. /\ st \in OpenSts(G) /\ \A r \in G : Put(st, r) \in OpenSts(G)
      /\ \A p, b : Delete(st, p, b) \in OpenSts(G)
  BY <1>1, BookWays
<1>4. ASSUME Fail PROVE stat' = stat /\ st' \in OpenSts(G)
  BY <1>2, <1>4 DEF Fail
<1>5. ASSUME NEW p, Forgotten(p) PROVE st' \in OpenSts(G)
  BY <1>2, <1>5 DEF Forgotten
<1>6. ASSUME NEW r \in G, Recorded(r) PROVE st' \in OpenSts(G)
  BY <1>2, <1>6 DEF Recorded
<1>7. ASSUME Consume PROVE stat' = stat
  BY <1>7 DEF Consume
<1>8. pc # "detail" /\ cmds # <<>> => Cur.path \in Paths /\ Cur.ver \in Words
  BY HeadTodo
<1>10. "" \in Words /\ "dead" \in Words /\ "dir" \in Words /\ Versions \subseteq Words
  BY WordTypes
<1>11. \A p \in Paths, v \in Words, a \in Words, t \in {"D", "U", "c", "V", "v"} :
         Rec(t, p, v, a) \in G
  BY PlainHonest
<1> SUFFICES stat' = stat /\ st' \in OpenSts(G)
  OBVIOUS
<1> HIDE DEF G
<1>a. CASE MakeDir
  BY <1>2, <1>8, <1>10, <1>11, <1>a DEF MakeDir, Consume, At
<1>b. CASE RemoveDir
  BY <1>2, <1>b DEF RemoveDir, Consume
<1>c. CASE SetDirAttrs
  BY <1>2, <1>4, <1>8, <1>10, <1>11, <1>c DEF SetDirAttrs, Consume, At
<1>d. CASE RemoveFile
  BY <1>4, <1>5, <1>7, <1>d DEF RemoveFile, Limited
<1>e. CASE UpdateDead
  <2>1. Rec("c", Cur.path, "dead", "") \in G
    BY <1>8, <1>10, <1>11, <1>e DEF UpdateDead, At
  <2> QED BY <1>4, <1>6, <1>7, <1>e, <2>1 DEF UpdateDead, Limited
<1>f. CASE CheckoutDead
  <2>1. Rec("c", Cur.path, "dead", "") \in G
    BY <1>8, <1>10, <1>11, <1>f DEF CheckoutDead, At
  <2> QED BY <1>4, <1>6, <1>7, <1>f, <2>1 DEF CheckoutDead, Limited
<1>g. CASE SetAttrs
  <2>1. pc # "detail" /\ cmds # <<>> /\ Cur.cmd = "T"
    BY <1>g DEF SetAttrs, At
  <2>2. On(Cur.path) => disk[Cur.path] \in Words
    BY <1>1, DiskContents
  <2>3. On(Cur.path) => Ver(disk[Cur.path]) = Cur.ver \/ Cur.path \in edited \cup raced
    BY <2>1, HeadTodo DEF IInv, Told
  <2>4. On(Cur.path) => Ver(disk[Cur.path]) = Cur.ver \/ Cur.path \in raced'
    BY <1>g, <2>3 DEF SetAttrs
  <2>5. On(Cur.path) => Rec("C", Cur.path, Cur.ver, disk[Cur.path]) \in G
    BY <1>8, <2>1, <2>2, <2>4 DEF G, Rec, Honest, Recs
  <2> QED BY <1>5, <1>6, <1>7, <1>g, <2>5 DEF SetAttrs
<1>h. CASE RecordCvs
  <2>1. Rec(IF Cur.cmd = "l" THEN "v" ELSE "V", Cur.path, "", Cur.ver) \in G
    BY <1>8, <1>10, <1>11, <1>h DEF RecordCvs, At
  <2> QED BY <1>6, <1>7, <1>h, <2>1 DEF RecordCvs
<1>9. ASSUME NEW good, UpdateFile(good) PROVE stat' = stat /\ st' \in OpenSts(G)
  BY <1>2, <1>9, UpdateFileBook
<1>i. CASE Checkout
  BY <1>9, <1>i DEF Checkout
<1>j. CASE Diff
  BY <1>4, <1>9, <1>j DEF Diff, Patched
<1>k. CASE Rsync
  BY <1>4, <1>9, <1>k DEF Rsync, Patched
<1>l. CASE Add
  BY <1>9, <1>l DEF Add, AddFile
<1>m. CASE RcsFixup
  BY <1>9, <1>m DEF RcsFixup, AddFile
<1>n. CASE RcsEdit
  <2>1. pc # "detail" /\ cmds # <<>> /\ Cur.cmd \in {"V", "v"}
    BY <1>n DEF RcsEdit, At
  <2>2. CASE \E good : UpdateFile(good)
    BY <1>9, <2>2
  <2>3. CASE ~Edits /\ Recorded(FileRec(Ver(disk[Dest]))) /\ Consume
    <3>1. On(Dest)
      BY <1>n, <2>1, <2>3 DEF RcsEdit, Edits, Moves
    <3>2. Ver(disk[Dest]) \in Words
      BY <1>1, <3>1, DiskContents, WordTypes
    <3>3. cvs
      BY <2>1, CurFacts DEF CvsCmds
    <3>4. FileRec(Ver(disk[Dest])) \in G
      BY <1>8, <2>1, <3>2, <3>3, FileRecHonest DEF G
    <3> QED BY <1>6, <1>7, <2>3, <3>4
  <2> QED BY <1>n, <2>2, <2>3 DEF RcsEdit
<1>o. CASE RcsEditFails
  BY <1>2, <1>4, <1>7, <1>o DEF RcsEditFails, NeedFixup
<1>p. CASE Unlink
  BY <1>2, <1>p DEF Unlink
<1>q. CASE RecordFile
  <2>1. CASE Fail
    BY <1>4, <2>1
  <2>2. CASE /\ On(Dest) /\ Recorded(FileRec(disk[Dest]))
             /\ raced' = IF ~cvs /\ Ver(disk[Dest]) # Cur.ver
                         THEN raced \cup ({Cur.path} \cap edited) ELSE raced
             /\ stat' = stat
    <3>1. pc # "detail" /\ cmds # <<>> /\ Cur.cmd \in FileCmds
      BY <1>q DEF RecordFile, IInv, Plan
    <3>2. disk[Dest] \in Words
      BY <1>1, <2>2, DiskContents
    <3>3. Ver(disk[Dest]) = Cur.ver \/ Cur.path \in edited
      BY <1>q, <2>2 DEF RecordFile, IInv, Installed
    <3>4. ~cvs => Ver(disk[Dest]) = Cur.ver \/ Cur.path \in raced'
      BY <2>2, <3>3
    <3>5. cvs => Cur.cmd \notin {"C", "Y", "U"}
      BY <3>1, CurFacts DEF CheckoutCmds
    <3>6. FileRec(disk[Dest]) \in G
      BY <1>8, <3>1, <3>2, <3>4, <3>5, FileRecHonest DEF G
    <3> QED BY <1>6, <2>2, <3>6
  <2> QED BY <1>q, <2>1, <2>2 DEF RecordFile
<1> QED
  BY <1>a, <1>b, <1>c, <1>d, <1>e, <1>f, <1>g, <1>h, <1>i, <1>j, <1>k, <1>l, <1>m,
     <1>n, <1>o, <1>p, <1>q DEF Command

\* So does everything else.
LEMMA BookStep == IInv /\ [Next]_vars => Book'
<1> SUFFICES ASSUME IInv, [Next]_vars PROVE Book'
  OBVIOUS
<1> DEFINE G == Honest(raced')
           Files_(H) == [scan : Int, recs : Seq(H), whole : BOOLEAN]
<1>1. raced \subseteq raced'
  BY RacedGrows
<1>2. /\ stat \in Files_(G) /\ st \in OpenSts(G)
      /\ Finish(st).out \in Seq(G) /\ st.scan \in Int
  BY <1>1, BookWays DEF IInv
<1>3. /\ NoFile \in Files_(G) /\ Open(NoFile, -1) \in OpenSts(G)
      /\ \A f \in Files_(G) : Open(f, ScanTime) \in OpenSts(G)
  BY NoFileType, OpenType DEF ScanTime
<1>4. Book' <=> stat' \in Files_(G) /\ st' \in OpenSts(G)
  BY DEF Book
<1> HIDE DEF G, Files_
<1>5. CASE Command
  BY <1>1, <1>2, <1>4, <1>5, CommandBook DEF G
<1>6. CASE Start
  BY <1>2, <1>4, <1>6 DEF Start
<1>7. CASE RemoveStatus
  BY <1>2, <1>3, <1>4, <1>7 DEF RemoveStatus
<1>8. CASE Detail
  BY <1>2, <1>3, <1>4, <1>8 DEF Detail, OpenStatus
<1>9. CASE Close
  <2>1. CASE UNCHANGED stat /\ NextBatch(stat)
    BY <1>2, <1>3, <1>4, <2>1 DEF NextBatch, OpenStatus
  <2>2. CASE UNCHANGED <<stat, st>>
    BY <1>2, <1>4, <2>2
  <2>3. CASE /\ stat' = [scan |-> st.scan, recs |-> Finish(st).out, whole |-> TRUE]
             /\ UNCHANGED st
    <3>1. stat' \in Files_(G)
      BY <1>2, <2>3 DEF Files_
    <3> QED BY <1>2, <1>4, <2>3, <3>1
  <2> QED BY <1>9, <2>1, <2>2, <2>3 DEF Close
<1>10. CASE Flush
  BY <1>2, <1>3, <1>4, <1>10 DEF Flush, NextBatch, OpenStatus
<1>11. CASE Again
  BY <1>2, <1>3, <1>4, <1>11 DEF Again, Reset
<1>12. CASE Crash
  <2>1. st' \in OpenSts(G)
    BY <1>3, <1>12 DEF Crash, Reset
  <2>2. CASE UNCHANGED stat
    BY <1>2, <1>4, <2>1, <2>2
  <2>3. CASE \E n \in 0..Len(stat.recs), whole \in BOOLEAN :
               stat' = [stat EXCEPT !.recs = SubSeq(@, 1, n), !.whole = whole]
    <3>1. PICK n \in 0..Len(stat.recs), whole \in BOOLEAN :
            stat' = [stat EXCEPT !.recs = SubSeq(@, 1, n), !.whole = whole]
      BY <2>3
    <3>2. stat.recs \in Seq(G) /\ 1 \in Nat \ {0}
      BY <1>2 DEF Files_
    <3>3. SubSeq(stat.recs, 1, n) \in Seq(G)
      BY <3>2, SubSeqType
    <3>4. stat' \in Files_(G)
      BY <1>2, <3>1, <3>3 DEF Files_
    <3> QED BY <1>4, <2>1, <3>4
  <2> QED BY <1>12, <2>2, <2>3 DEF Crash
<1>13. CASE LostConnection
  BY <1>2, <1>4, <1>13 DEF LostConnection, Fail
<1>14. CASE UserEdits
  BY <1>2, <1>4, <1>14 DEF UserEdits
<1>15. CASE UNCHANGED vars
  BY <1>2, <1>4, <1>15 DEF vars
<1> QED
  BY <1>5, <1>6, <1>7, <1>8, <1>9, <1>10, <1>11, <1>12, <1>13, <1>14, <1>15
     DEF Next, Run

-----------------------------------------------------------------------------
(* Files and directories *)

Places == Files \cup {Attic(p) : p \in RcsFiles}

\* The files there are have a place, and all their directories.
Placed(files, ds) ==
    \A l \in DOMAIN files :
      l \in Places /\ files[l] \in Contents /\ Above(l) \subseteq ds

\* The directories above a path are shorter.
LEMMA AboveFacts ==
    ASSUME NEW p \in Seq(Nat), NEW a \in Above(p)
    PROVE  a \in Paths /\ IsStrictPrefix(a, p)
<1>1. PICK n \in 1..(Len(p) - 1) : a = SubSeq(p, 1, n)
  BY DEF Above
<1>2. n \in 0..Len(p) /\ n > 0 /\ n < Len(p)
  BY <1>1
<1>3. a \in Paths /\ a \in Seq(Nat) /\ Len(a) = n
  BY <1>1, <1>2, PathParts
<1>4. SubSeq(a, 1, Len(a)) = a
  BY <1>3, SubSeqFull
<1> QED BY <1>1, <1>2, <1>3, <1>4 DEF IsStrictPrefix, IsPrefix

\* The places in the Attic are told from files, and from each other.
LEMMA AtticFacts ==
    ASSUME NEW p \in Paths
    PROVE  /\ Attic(p) \in Paths /\ Attic(p) \notin Files
           /\ \A q \in Paths : Attic(p) = Attic(q) => p = q
<1>1. ASSUME NEW q \in Paths
      PROVE  /\ Len(q) \in Nat \ {0}
             /\ Attic(q) \in Paths /\ Len(Attic(q)) = Len(q) + 1
             /\ Attic(q)[Len(q)] = 0 /\ Attic(q)[Len(q) + 1] = q[Len(q)]
             /\ \A i \in 1..(Len(q) - 1) : Attic(q)[i] = q[i]
  <2> DEFINE n == Len(q)
             f == SubSeq(q, 1, n - 1)
             t == <<0, q[n]>>
  <2>1. q \in Seq(Nat) /\ n \in Nat \ {0} /\ q[n] \in Nat /\ n - 1 \in 0..n
    BY DEF Paths
  <2>2. /\ f \in Seq(Nat) /\ Len(f) = n - 1
        /\ \A i \in 1..(n - 1) : f[i] = q[i]
    BY <2>1, PathParts
  <2>3. t \in Seq(Nat) /\ Len(t) = 2 /\ t[1] = 0 /\ t[2] = q[n]
    BY <2>1
  <2>4. Attic(q) = f \o t
    BY DEF Attic, Front, Last
  <2> HIDE DEF f, t
  <2>5. /\ f \o t \in Seq(Nat) /\ Len(f \o t) = n + 1
        /\ \A i \in 1..(n + 1) : (f \o t)[i] = IF i <= n - 1 THEN f[i] ELSE t[i - (n - 1)]
    <3>1. Len(f) + Len(t) = n + 1
      BY <2>1, <2>2, <2>3
    <3>2. /\ f \o t \in Seq(Nat) /\ Len(f \o t) = Len(f) + Len(t)
          /\ \A i \in 1..(Len(f) + Len(t)) :
               (f \o t)[i] = IF i <= Len(f) THEN f[i] ELSE t[i - Len(f)]
      BY <2>2, <2>3, ConcatProperties
    <3>3. \A i \in 1..(n + 1) :
            (f \o t)[i] = IF i <= Len(f) THEN f[i] ELSE t[i - Len(f)]
      BY <3>1, <3>2
    <3> QED BY <2>2, <3>1, <3>2, <3>3
  <2>6. n \in 1..(n + 1) /\ n + 1 \in 1..(n + 1) /\ n - (n - 1) = 1 /\ n + 1 - (n - 1) = 2
        /\ ~(n <= n - 1) /\ ~(n + 1 <= n - 1)
    BY <2>1
  <2>7. (f \o t)[n] = 0 /\ (f \o t)[n + 1] = q[n]
    <3>1. (f \o t)[n] = t[n - (n - 1)]
      BY <2>5, <2>6
    <3>2. (f \o t)[n + 1] = t[n + 1 - (n - 1)]
      BY <2>5, <2>6
    <3> QED BY <2>3, <2>6, <3>1, <3>2
  <2>8. \A i \in 1..(n - 1) : (f \o t)[i] = q[i]
    BY <2>1, <2>2, <2>5
  <2>9. f \o t # <<>>
    BY <2>1, <2>5
  <2> QED BY <2>1, <2>4, <2>5, <2>7, <2>8, <2>9 DEF Paths
<1>2. Attic(p) \notin Files
  <2> SUFFICES ASSUME Attic(p) \in Files PROVE FALSE
    OBVIOUS
  <2>1. Attic(p) \in Seq(Nat \ {0})
    BY UpdateAssumption
  <2>2. Len(p) \in 1..Len(Attic(p))
    BY <1>1
  <2>3. Attic(p)[Len(p)] \in Nat \ {0}
    BY <2>1, <2>2, ElementOfSeq
  <2> QED BY <1>1, <2>3
<1>3. ASSUME NEW q \in Paths, Attic(p) = Attic(q)
      PROVE  p = q
  <2>1. Len(p) = Len(q)
    BY <1>1, <1>3
  <2>2. \A i \in 1..(Len(p) - 1) : p[i] = q[i]
    BY <1>1, <1>3, <2>1
  <2>3. p[Len(p)] = q[Len(p)]
    BY <1>1, <1>3, <2>1
  <2>4. \A i \in 1..Len(p) : p[i] = q[i]
    <3> SUFFICES ASSUME NEW i \in 1..Len(p) PROVE p[i] = q[i]
      OBVIOUS
    <3>1. i \in 1..(Len(p) - 1) \/ i = Len(p)
      BY <1>1
    <3> QED BY <2>2, <2>3, <3>1
  <2> QED BY <2>1, <2>4, SeqEqual DEF Paths
<1> QED BY <1>1, <1>2, <1>3

\* Files are paths.
LEMMA FilePaths == Files \subseteq Paths /\ RcsFiles \subseteq Files /\ Places \subseteq Paths
<1>1. Files \subseteq Seq(Nat) /\ <<>> \notin Files /\ RcsFiles \subseteq Files
  <2>1. Nat \ {0} \subseteq Nat
    OBVIOUS
  <2> QED BY <2>1, UpdateAssumption, SeqMonotonic
<1>2. Files \subseteq Paths
  BY <1>1 DEF Paths
<1> QED BY <1>1, <1>2, AtticFacts DEF Places

\* An Attic place is a file's only if the file is an RCS file.
LEMMA AtticPlace ==
    ASSUME NEW p \in Paths, Attic(p) \in Places
    PROVE  p \in RcsFiles
<1>1. PICK q \in RcsFiles : Attic(p) = Attic(q)
  BY AtticFacts DEF Places
<1> QED BY <1>1, AtticFacts, FilePaths

\* Removing a file disturbs no other.
LEMMA RemovePlaced ==
    ASSUME Placed(disk, dirs), NEW p, NEW ds,
           ds \in {dirs, Pruned(DOMAIN Without(disk, p), p)}
    PROVE  Placed(Without(disk, p), ds)
<1> DEFINE f == Without(disk, p)
<1>1. DOMAIN f = DOMAIN disk \ {p} /\ \A l \in DOMAIN f : f[l] = disk[l]
  BY DEF Without
<1>2. \A l \in DOMAIN f : l \in Places /\ f[l] \in Contents /\ Above(l) \subseteq dirs
  BY <1>1 DEF Placed
<1>3. ASSUME NEW l \in DOMAIN f, NEW a \in Above(l) PROVE a \in ds
  <2>1. a \in dirs /\ IsStrictPrefix(a, l)
    BY <1>2, <1>3, AboveFacts, FilePaths DEF Paths
  <2> QED BY <2>1 DEF Pruned
<1> HIDE DEF f
<1> QED BY <1>2, <1>3 DEF Placed, f

\* Installing a file in a place whose directories are there.
LEMMA InstallPlaced ==
    ASSUME Placed(disk, dirs), NEW l \in Places, NEW e \in Contents, NEW ds,
           dirs \subseteq ds, Above(l) \subseteq ds
    PROVE  Placed(With(disk, l, e), ds)
BY DEF Placed, With

-----------------------------------------------------------------------------
(* The lister's walk *)

Items ==
    {x \in [type : {"D", "U", "F", "f"}, path : Seq(Nat), attr : Words] :
       x.type # "U" => x.path \in Paths}

\* Where the walk is.
Walks ==
    [out : Seq(Items), here : Seq(Nat), stack : Seq(Paths), own : BOOLEAN,
     depth : Int, prune : Int]

\* A name in a directory is a path.
LEMMA AppendPath ==
    ASSUME NEW h \in Seq(Nat), NEW p \in Paths
    PROVE  Append(h, Last(p)) \in Paths
<1>1. Last(p) \in Nat
  BY DEF Last, Paths
<1> QED BY <1>1, SMTT(40) DEF Paths

\* A stack without its top is a stack.
LEMMA FrontOfSeq ==
    ASSUME NEW S, NEW q \in Seq(S)
    PROVE  Front(q) \in Seq(S)
<1>1. CASE q = <<>>
  <2>1. SubSeq(q, 1, 0 - 1) = <<>> /\ <<>> \in Seq(S)
    BY <1>1, SubSeqEmpty
  <2> QED BY <1>1, <2>1 DEF Front
<1>2. CASE q # <<>>
  <2>1. Len(q) - 1 \in 0..Len(q) /\ 1 \in Nat \ {0}
    BY <1>2
  <2> QED BY <2>1, SubSeqType DEF Front
<1> QED BY <1>1, <1>2

\* One line of the list.
LEMMA EmitType ==
    ASSUME NEW w \in Walks, NEW t \in {"D", "F", "f"}, NEW r \in Recs, NEW a \in Words
    PROVE  Emit(w, t, r, a) \in Walks
<1> DEFINE x == Item(t, Append(w.here, Last(r.path)), a)
           o == Append(w.out, x)
<1>1. Append(w.here, Last(r.path)) \in Paths
  BY AppendPath DEF Walks, Recs
<1>2. x \in Items
  BY <1>1 DEF Item, Items, Paths
<1>3. o \in Seq(Items)
  <2>1. w.out \in Seq(Items)
    BY DEF Walks
  <2> HIDE DEF x
  <2> QED BY <1>2, <2>1
<1>4. Emit(w, t, r, a) = [w EXCEPT !.out = o]
  BY DEF Emit
<1> HIDE DEF x, o
<1> QED BY <1>3, <1>4 DEF Walks

\* lister_dodirdown() and lister_dodirup()
LEMMA ListDirType ==
    ASSUME NEW w \in Walks, NEW r \in Recs
    PROVE  ListDirDown(w, r) \in Walks /\ ListDirUp(w, r) \in Walks
<1> DEFINE down == Append(w.here, Last(r.path))
           i1 == Item("D", down, "")
           i2 == Item("U", w.here, Equal(r, "dir"))
           o1 == Append(w.out, i1)
           o2 == Append(w.out, i2)
           h2 == Front(w.here)
           s1 == Append(w.stack, r.path)
           s2 == Front(w.stack)
           own == w.own /\ w.stack # <<>> /\ Last(w.stack) = r.path
<1>1. /\ w.here \in Seq(Nat) /\ w.out \in Seq(Items) /\ w.stack \in Seq(Paths)
      /\ w.own \in BOOLEAN /\ w.depth \in Int
      /\ r.path \in Paths /\ r.attr \in Words
  BY DEF Walks, Recs
<1>2. down \in Paths /\ down \in Seq(Nat)
  BY <1>1, AppendPath DEF Paths
<1>3. h2 \in Seq(Nat) /\ s2 \in Seq(Paths)
  BY <1>1, FrontOfSeq
<1>4. "" \in Words /\ Bogus \in Words /\ Equal(r, "dir") \in Words
  BY DEF Words, Equal
<1>5. i1 \in Items /\ i2 \in Items
  BY <1>1, <1>2, <1>4 DEF Item, Items
<1>6. s1 \in Seq(Paths) /\ own \in BOOLEAN
  BY <1>1
<1>7. ListDirUp(w, r) = [w EXCEPT !.out = o2, !.here = h2, !.own = own, !.stack = s2]
  BY DEF ListDirUp
<1>8. r.path \in dirs =>
        ListDirDown(w, r) = [w EXCEPT !.out = o1, !.here = down, !.stack = s1]
  BY DEF ListDirDown
<1>9. r.path \notin dirs =>
         ListDirDown(w, r) =
           [(IF On(r.path) THEN Emit(w, "F", r, Bogus) ELSE w) EXCEPT !.prune = w.depth]
  BY DEF ListDirDown
<1> HIDE DEF down, i1, i2, h2, s1, s2, own
<1>10. o1 \in Seq(Items) /\ o2 \in Seq(Items)
  BY <1>1, <1>5
<1> HIDE DEF o1, o2
<1>11. ListDirUp(w, r) \in Walks
  BY <1>3, <1>6, <1>7, <1>10 DEF Walks
<1>12. r.path \in dirs => ListDirDown(w, r) \in Walks
  BY <1>2, <1>6, <1>8, <1>10 DEF Walks
<1>13. r.path \notin dirs => ListDirDown(w, r) \in Walks
  <2> DEFINE v == IF On(r.path) THEN Emit(w, "F", r, Bogus) ELSE w
  <2>1. v \in Walks
    BY <1>4, EmitType
  <2>2. r.path \notin dirs => ListDirDown(w, r) = [v EXCEPT !.prune = w.depth]
    BY <1>9
  <2> HIDE DEF v
  <2> QED BY <1>1, <2>1, <2>2 DEF Walks
<1> QED BY <1>11, <1>12, <1>13

\* lister_dofile(), lister_dodead() and lister_dorcs()
LEMMA ListAnyFileType ==
    ASSUME TypeOK, NEW w \in Walks, NEW r \in Recs
    PROVE  ListAnyFile(w, r) \in Walks
<1>1. /\ Bogus \in Words /\ r.ver \in Words /\ r.attr \in Words
      /\ \A p : On(p) => disk[p] \in Words
  BY DiskContents DEF Words, Recs
<1>2. ListFile(w, r) \in Walks
  <2> DEFINE a == IF On(r.path) /\ disk[r.path] = r.attr THEN r.ver ELSE Bogus
  <2>1. a \in Words
    BY <1>1
  <2>2. ListFile(w, r) = Emit(w, "F", r, a)
    BY DEF ListFile
  <2> HIDE DEF a
  <2> QED BY <2>1, <2>2, EmitType
<1>3. ListDead(w, r) \in Walks
  BY <1>1, EmitType DEF ListDead
<1>4. ListRcs(w, r) \in Walks
  <2> DEFINE place == Place(r.path, r.type = "v")
             t == IF r.type = "v" THEN "f" ELSE "F"
             a == Equal(r, disk[place])
  <2>1. On(place) => a \in Words
    BY <1>1 DEF Equal
  <2>2. t \in {"D", "F", "f"}
    OBVIOUS
  <2>3. ListRcs(w, r) = IF On(place) THEN Emit(w, t, r, a) ELSE Emit(w, "F", r, Bogus)
    BY DEF ListRcs
  <2> HIDE DEF place, t, a
  <2>4. On(place) => Emit(w, t, r, a) \in Walks
    BY <2>1, <2>2, EmitType
  <2>5. Emit(w, "F", r, Bogus) \in Walks
    BY <1>1, EmitType
  <2> QED BY <2>3, <2>4, <2>5
<1>5. /\ r.type = "C" => ListAnyFile(w, r) = ListFile(w, r)
      /\ r.type = "c" => ListAnyFile(w, r) = ListDead(w, r)
      /\ r.type \notin {"C", "c"} =>
           ListAnyFile(w, r) = IF cvs THEN ListRcs(w, r) ELSE w
  BY DEF ListAnyFile
<1> QED BY <1>2, <1>3, <1>4, <1>5

\* One record of lister_coll()
LEMMA ListRecordType ==
    ASSUME TypeOK, NEW w \in Walks, NEW r \in Recs
    PROVE  ListRecord(w, r) \in Walks
<1> DEFINE v == [w EXCEPT !.depth = @ + 1]
           l == Leave(w, r)
<1>1. /\ r.type = "D" =>
           ListRecord(w, r) = IF v.depth < v.prune THEN ListDirDown(v, r) ELSE v
      /\ r.type = "U" => ListRecord(w, r) = [l EXCEPT !.depth = @ - 1]
      /\ r.type \notin {"D", "U"} =>
           ListRecord(w, r) = IF w.depth >= w.prune THEN w ELSE ListAnyFile(w, r)
  BY DEF ListRecord
<1>2. v \in Walks
  BY SMTT(30) DEF Walks
<1>3. l \in Walks
  <2>1. ListDirUp(w, r) \in Walks
    BY ListDirType
  <2>2. \A f \in Int : [w EXCEPT !.prune = f] \in Walks
    BY DEF Walks
  <2> QED BY <2>1, <2>2 DEF Leave, Far
<1> HIDE DEF v, l
<1>4. ListDirDown(v, r) \in Walks
  BY <1>2, ListDirType
<1>5. [l EXCEPT !.depth = @ - 1] \in Walks
  <2>1. \A d \in Int : [l EXCEPT !.depth = d] \in Walks
    BY <1>3 DEF Walks
  <2>2. l.depth - 1 \in Int
    BY <1>3 DEF Walks
  <2> QED BY <2>1, <2>2
<1>6. ListAnyFile(w, r) \in Walks
  BY ListAnyFileType
<1> QED BY <1>1, <1>2, <1>4, <1>5, <1>6

\* The walk over a status file, record by record.
WalkStart == [out |-> <<>>, here |-> <<>>, stack |-> <<>>, own |-> TRUE,
              depth |-> 0, prune |-> Far]
WalkTraced(q, w) ==
    \E tr \in [0..Len(q) -> Walks] :
      /\ tr[0] = WalkStart /\ w = tr[Len(q)]
      /\ \A m \in 0..(Len(q) - 1) : tr[m + 1] = ListRecord(tr[m], q[m + 1])
LEMMA WalkTrace ==
    ASSUME TypeOK, NEW q \in Seq(Recs)
    PROVE  WalkTraced(q, Walk(q))
<1> DEFINE s0 == WalkStart
           X == Walks
           G == Recs
           Def(f, D) ==
             [s \in SUBSET D |->
                IF s = {} THEN s0
                ELSE ListRecord(f[s \ {Max(s)}], q[Max(s)])]
           F == CHOOSE f : f = Def(f, DOMAIN q)
           n == Len(q)
           g == [z \in X \X G |-> ListRecord(z[1], z[2])]
<1>1. Walk(q) = F[DOMAIN q]
  BY DEF Walk, WalkStart, FoldLeft, MapThenFoldSet
<1>2. n \in Nat /\ DOMAIN q = 1..n /\ \A i \in 1..n : q[i] \in G
  OBVIOUS
<1>3. s0 \in X
  <2>1. /\ <<>> \in Seq(Items) /\ <<>> \in Seq(Nat) /\ <<>> \in Seq(Paths)
        /\ 0 \in Int /\ Far \in Int /\ TRUE \in BOOLEAN
    BY DEF Far
  <2> QED BY <2>1 DEF Walks, WalkStart
<1>4. \A s \in X, r \in G : ListRecord(s, r) \in X
  BY ListRecordType
<1>5. q \in Seq(G)
  OBVIOUS
<1> HIDE DEF s0, X, G
<1>6. \E f : f = Def(f, 1..n)
  <2>1. /\ \A s \in X, r \in G : g[<<s, r>>] \in X
        /\ \A s \in X, r \in G : g[<<s, r>>] = ListRecord(s, r)
    BY <1>4
  <2> HIDE DEF g, F, Def
  <2>2. PICK f : Fold(f, n, X, s0, q, g)
    BY <1>3, <1>5, <2>1, FoldExists
  <2>3. ASSUME NEW s \in SUBSET (1..n), s # {}
        PROVE  /\ q[Max(s)] \in G /\ s \ {Max(s)} \in SUBSET (1..n)
               /\ f[s \ {Max(s)}] \in X
    <3>1. Max(s) \in s
      BY <1>2, <2>3, MaxIsMember
    <3> QED BY <1>2, <2>2, <3>1 DEF Fold
  <2>4. \A s \in SUBSET (1..n) :
          s # {} => f[s] = ListRecord(f[s \ {Max(s)}], q[Max(s)])
    BY <2>1, <2>2, <2>3 DEF Fold
  <2>5. f = Def(f, 1..n)
    BY <2>2, <2>4 DEF Def, Fold
  <2> HIDE DEF Def
  <2> QED BY <2>5
<1>7. F = Def(F, 1..n)
  BY <1>2, <1>6
<1> HIDE DEF F
<1>8. F[{}] = s0
  BY <1>7
<1>9. ASSUME NEW m \in 0..(n - 1)
      PROVE  F[1..(m + 1)] = ListRecord(F[1..m], q[m + 1]) /\ q[m + 1] \in G
  <2> DEFINE s == 1..(m + 1)
  <2>1. s \in SUBSET (1..n) /\ s # {} /\ m + 1 \in s
    <3>1. m + 1 \in s /\ \A i \in s : i \in 1..n
      BY <1>2
    <3> QED BY <3>1
  <2>2. Max(s) = m + 1 /\ s \ {m + 1} = 1..m
    BY <2>1, MaxUpTo
  <2>3. F[s] = ListRecord(F[s \ {Max(s)}], q[Max(s)])
    BY <1>7, <2>1
  <2>4. q[m + 1] \in G
    BY <1>2
  <2> QED BY <2>2, <2>3, <2>4
<1>10. ASSUME NEW k \in 0..n PROVE F[1..k] \in X
  <2>1. \A m \in 0..(k - 1) : m \in 0..(n - 1)
    BY <1>2
  <2>2. \A m \in 0..(k - 1) : F[1..m] \in X => F[1..(m + 1)] \in X
    BY <1>4, <1>9, <2>1
  <2> QED BY <1>3, <1>8, <2>2, FoldUp
<1> DEFINE tr == [m \in 0..n |-> F[1..m]]
<1>11. tr \in [0..n -> X]
  BY <1>10
<1>12. tr[0] = s0 /\ F[DOMAIN q] = tr[n]
  <2>1. 1..0 = {} /\ 0 \in 0..n /\ n \in 0..n
    BY <1>2
  <2> QED BY <1>2, <1>8, <2>1
<1>13. \A m \in 0..(n - 1) : tr[m + 1] = ListRecord(tr[m], q[m + 1])
  <2>1. \A m \in 0..(n - 1) : m \in 0..n /\ m + 1 \in 0..n
    BY <1>2
  <2> QED BY <1>9, <2>1
<1> HIDE DEF tr
<1> QED BY <1>1, <1>11, <1>12, <1>13 DEF WalkTraced, s0, X

\* The list for any status file.
LEMMA WalkType ==
    ASSUME TypeOK, NEW q \in Seq(Recs)
    PROVE  Walk(q).out \in Seq(Items)
<1> DEFINE w == Walk(q)
<1>1. WalkTraced(q, w)
  BY WalkTrace
<1> HIDE DEF w
<1>2. Len(q) \in 0..Len(q)
  OBVIOUS
<1>3. w \in Walks
  BY <1>1, <1>2 DEF WalkTraced
<1> QED BY <1>3 DEF w, Walks

-----------------------------------------------------------------------------
(* The requests *)

\* The image of a finite set is finite.
LEMMA ImageFinite ==
    ASSUME NEW S, IsFiniteSet(S), NEW f
    PROVE  IsFiniteSet({f[x] : x \in S})
<1> DEFINE T == {f[x] : x \in S}
           g == [x \in S |-> f[x]]
<1>1. g \in Surjection(S, T)
  BY DEF Surjection
<1> HIDE DEF g, T
<1>2. IsFiniteSet(T)
  BY <1>1, FS_Surjection
<1> QED BY <1>2 DEF T

\* The directories above a path are finitely many.
LEMMA AboveFinite ==
    ASSUME NEW p \in Seq(Nat)
    PROVE  IsFiniteSet(Above(p))
<1> DEFINE f == [n \in 1..(Len(p) - 1) |-> SubSeq(p, 1, n)]
<1>1. IsFiniteSet(1..(Len(p) - 1))
  BY FS_Interval
<1>2. Above(p) = {f[n] : n \in 1..(Len(p) - 1)}
  BY DEF Above
<1> HIDE DEF f
<1> QED BY SMTT(30), <1>1, <1>2, ImageFinite

\* So are those of the files.
LEMMA DirsFinite ==
    ASSUME NEW S \in SUBSET Files
    PROVE  /\ IsFiniteSet(S)
           /\ IsFiniteSet(UNION {Above(p) : p \in S})
           /\ UNION {Above(p) : p \in S} \subseteq Paths
<1> DEFINE f == [p \in S |-> Above(p)]
           D == {f[p] : p \in S}
<1>1. IsFiniteSet(S)
  BY FS_Subset, UpdateAssumption
<1>2. S \subseteq Seq(Nat)
  BY FilePaths DEF Paths
<1>3. {Above(p) : p \in S} = D
  OBVIOUS
<1>4. \A d \in D : IsFiniteSet(d)
  BY <1>2, AboveFinite
<1> HIDE DEF f
<1>5. IsFiniteSet(D)
  BY <1>1, ImageFinite
<1> HIDE DEF D
<1>6. IsFiniteSet(UNION D)
  BY <1>4, <1>5, FS_UNION
<1>7. UNION {Above(p) : p \in S} \subseteq Paths
  BY <1>2, AboveFacts
<1> QED BY <1>1, <1>3, <1>6, <1>7

\* The elements of a sequence are finitely many.
LEMMA RangeFinite ==
    ASSUME NEW S, NEW q \in Seq(S)
    PROVE  IsFiniteSet(Range(q)) /\ Range(q) \subseteq S
<1>1. DOMAIN q = 1..Len(q) /\ Len(q) \in Nat /\ \A i \in 1..Len(q) : q[i] \in S
  OBVIOUS
<1>2. IsFiniteSet(DOMAIN q)
  BY <1>1, FS_Interval
<1>3. Range(q) = {q[i] : i \in DOMAIN q}
  BY DEF Range
<1>4. IsFiniteSet(Range(q))
  BY <1>2, <1>3, ImageFinite
<1> QED BY <1>1, <1>3, <1>4

\* Sorting the requests loses their order only.
LEMMA OrderType ==
    ASSUME NEW Q, NEW S \in SUBSET Q, IsFiniteSet(S)
    PROVE  Order(S) \in Seq(Q)
<1> DEFINE n == Cardinality(S)
<1>1. n \in Nat /\ (n = 0 <=> S = {})
  BY FS_CardinalityType, FS_EmptySet
<1> DEFINE Type(c) == CASE c \in {"J", "j"} -> "U" [] c \in {"I", "i"} -> "D" [] OTHER -> "C"
           Key2(x) == Rec(Type(x.cmd), x.path, "", "")
           Rank(x) == Cardinality({y \in S : RecLess(Key2(y), Key2(x))})
           e(i) == CHOOSE x \in S : Rank(x) = i - 1 \/ \A y \in S : Rank(y) # i - 1
<1>2. Order(S) = [i \in 1..n |-> e(i)]
  BY DEF Order, Sorted
<1> HIDE DEF Rank
<1>3. ASSUME NEW i \in 1..n PROVE e(i) \in S
  <2>1. S # {}
    BY <1>1
  <2>2. \E x \in S : Rank(x) = i - 1 \/ \A y \in S : Rank(y) # i - 1
    BY <2>1
  <2> QED BY <2>2
<1> HIDE DEF e
<1>4. Order(S) \in [1..n -> Q]
  BY <1>2, <1>3
<1> QED BY <1>1, <1>4, FunctionSeq

\* What the server requests for a list, not yet in order.
RequestSet(list) ==
    LET listed == Range(list)
        DirsListed == {x.path : x \in {y \in listed : y.type = "D"}}
        Known(p) == Item(IF Live(srv, p) THEN "F" ELSE "f", p, SrvAttr(p)) \in listed
        Update == IF cvs THEN "T" ELSE "U"
    IN {Cmd("I", d, "", "") : d \in SentDirs(srv) \ DirsListed}
       \cup {Cmd("J", d, "", "") :
                d \in {e \in SentDirs(srv) : Item("U", e, "dir") \notin listed}}
       \cup {Cmd(c, d, "", "") : c \in {"i", "j"}, d \in DirsListed \ DirsOf(srv)}
       \cup {Cmd("D", x.path, "", "") :
                x \in {y \in listed : y.type \in {"F", "f"} /\ ~Has(srv, y.path)}}
       \cup {Cmd(IF cvs /\ ~Live(srv, p) THEN "t" ELSE Update, p, SrvAttr(p), "") :
                p \in {q \in Files : Has(srv, q) /\ ~Known(q)}}
LEMMA RequestSetType ==
    ASSUME TypeOK, Plan, NEW list \in Seq(Items)
    PROVE  /\ RequestSet(list) \in SUBSET Requested /\ IsFiniteSet(RequestSet(list))
           /\ Requests(list) = Order(RequestSet(list))
<1> DEFINE listed == Range(list)
           DirsListed == {x.path : x \in {y \in listed : y.type = "D"}}
           Known(p) == Item(IF Live(srv, p) THEN "F" ELSE "f", p, SrvAttr(p)) \in listed
           Update == IF cvs THEN "T" ELSE "U"
           S1 == SentDirs(srv) \ DirsListed
           S2 == {e \in SentDirs(srv) : Item("U", e, "dir") \notin listed}
           S3 == DirsListed \ DirsOf(srv)
           S4 == {y \in listed : y.type \in {"F", "f"} /\ ~Has(srv, y.path)}
           S5 == {q \in Files : Has(srv, q) /\ ~Known(q)}
           R1 == {Cmd("I", d, "", "") : d \in S1}
           R2 == {Cmd("J", d, "", "") : d \in S2}
           R3 == {Cmd(c, d, "", "") : c \in {"i", "j"}, d \in S3}
           R4 == {Cmd("D", x.path, "", "") : x \in S4}
           R5 == {Cmd(IF cvs /\ ~Live(srv, p) THEN "t" ELSE Update, p, SrvAttr(p), "") :
                    p \in S5}
<1>1. /\ RequestSet(list) = R1 \cup R2 \cup R3 \cup R4 \cup R5
      /\ Requests(list) = Order(RequestSet(list))
  BY DEF Requests, RequestSet
<1>2. /\ IsFiniteSet(listed)
      /\ listed \subseteq Items
  BY RangeFinite
<1>3. /\ IsFiniteSet(SentDirs(srv)) /\ SentDirs(srv) \subseteq Paths
  <2>1. {q \in Files : Stored(srv, q)} \in SUBSET Files
    OBVIOUS
  <2> QED BY <2>1, DirsFinite DEF SentDirs
<1>4. IsFiniteSet(DirsListed) /\ DirsListed \subseteq Paths
  <2> DEFINE S == {y \in listed : y.type = "D"}
             f == [x \in S |-> x.path]
  <2>1. IsFiniteSet(S)
    BY <1>2, FS_Subset
  <2>2. DirsListed = {f[x] : x \in S}
    OBVIOUS
  <2>3. DirsListed \subseteq Paths
    BY <1>2 DEF Items
  <2> HIDE DEF f, S
  <2> QED BY SMTT(30), <2>1, <2>2, <2>3, ImageFinite
<1> HIDE DEF listed, DirsListed
<1>5. /\ IsFiniteSet(S1) /\ IsFiniteSet(S2) /\ IsFiniteSet(S3) /\ IsFiniteSet(S4)
      /\ IsFiniteSet(S5)
  <2>1. IsFiniteSet(S1) /\ IsFiniteSet(S2)
    <3>1. S1 \in SUBSET SentDirs(srv) /\ S2 \in SUBSET SentDirs(srv)
      OBVIOUS
    <3> QED BY <1>3, <3>1, FS_Subset
  <2>2. IsFiniteSet(S3)
    BY <1>4, FS_Subset
  <2>3. IsFiniteSet(S4)
    BY <1>2, FS_Subset
  <2>4. IsFiniteSet(S5)
    <3>1. S5 \in SUBSET Files
      OBVIOUS
    <3> QED BY <3>1, DirsFinite
  <2> QED BY <2>1, <2>2, <2>3, <2>4
<1>6. /\ S1 \subseteq Paths /\ S2 \subseteq Paths /\ S3 \subseteq Paths
      /\ \A x \in S4 : x.path \in Paths
      /\ S5 \subseteq Served
  <2>1. \A x \in S4 : x.path \in Paths
    BY <1>2 DEF Items
  <2> QED BY <1>3, <1>4, <2>1 DEF Served
<1>7. /\ "" \in Words
      /\ \A p \in Served : SrvAttr(p) \in Words
      /\ Served \subseteq Paths
  <2>1. \A p \in Served : srv[p].ver \in Versions
    BY TreeTypes DEF Plan, Served
  <2> QED BY <2>1, WordTypes, FilePaths DEF SrvAttr, Served
<1> HIDE DEF S1, S2, S3, S4, S5
<1>8. IsFiniteSet(R1) /\ IsFiniteSet(R2) /\ IsFiniteSet(R3) /\ IsFiniteSet(R4) /\ IsFiniteSet(R5)
  <2>1. IsFiniteSet(R1)
    <3> DEFINE f == [d \in S1 |-> Cmd("I", d, "", "")]
    <3>1. R1 = {f[d] : d \in S1}
      OBVIOUS
    <3> HIDE DEF f
    <3> QED BY <1>5, <3>1, ImageFinite
  <2>2. IsFiniteSet(R2)
    <3> DEFINE f == [d \in S2 |-> Cmd("J", d, "", "")]
    <3>1. R2 = {f[d] : d \in S2}
      OBVIOUS
    <3> HIDE DEF f
    <3> QED BY <1>5, <3>1, ImageFinite
  <2>3. IsFiniteSet(R3)
    <3> DEFINE f == [d \in S3 |-> Cmd("i", d, "", "")]
               g == [d \in S3 |-> Cmd("j", d, "", "")]
               T1 == {f[d] : d \in S3}
               T2 == {g[d] : d \in S3}
    <3>1. R3 = T1 \cup T2
      OBVIOUS
    <3> HIDE DEF f, g
    <3>2. IsFiniteSet(T1) /\ IsFiniteSet(T2)
      BY <1>5, ImageFinite
    <3> HIDE DEF T1, T2, R3
    <3> QED BY <3>1, <3>2, FS_Union
  <2>4. IsFiniteSet(R4)
    <3> DEFINE f == [x \in S4 |-> Cmd("D", x.path, "", "")]
    <3>1. R4 = {f[x] : x \in S4}
      OBVIOUS
    <3> HIDE DEF f
    <3> QED BY <1>5, <3>1, ImageFinite
  <2>5. IsFiniteSet(R5)
    <3> DEFINE f == [p \in S5 |-> Cmd(IF cvs /\ ~Live(srv, p) THEN "t" ELSE Update,
                                      p, SrvAttr(p), "")]
    <3>1. R5 = {f[p] : p \in S5}
      OBVIOUS
    <3> HIDE DEF f
    <3> QED BY <1>5, <3>1, ImageFinite
  <2> HIDE DEF R1, R2, R3, R4, R5
  <2> QED BY <2>1, <2>2, <2>3, <2>4, <2>5
<1>9. R1 \cup R2 \cup R3 \cup R4 \cup R5 \in SUBSET Requested
  <2>1. \A c \in DirCmds \cup {"D", "U", "T", "t"}, p \in Paths, v \in Words :
          /\ Cmd(c, p, v, "") \in Cmds
          /\ Cmd(c, p, v, "").cmd = c /\ Cmd(c, p, v, "").path = p
    BY <1>7 DEF Cmd, Cmds, CheckoutCmds
  <2>2. \A c \in DirCmds \cup {"D"}, p \in Paths : Cmd(c, p, "", "") \in Requested
    BY ZenonT(40), <1>7, <2>1 DEF Requested, DirCmds
  <2>3. ASSUME NEW p \in S5
        PROVE  Cmd(IF cvs /\ ~Live(srv, p) THEN "t" ELSE Update, p, SrvAttr(p), "")
                 \in Requested
    <3> DEFINE c == IF cvs /\ ~Live(srv, p) THEN "t" ELSE Update
    <3>1. /\ c \in {"U", "T", "t"} /\ (c = "U" => ~cvs) /\ (c \in {"T", "t"} => cvs)
          /\ c \notin DirCmds \cup {"D"}
      BY DEF TypeOK, DirCmds
    <3>2. p \in Served /\ p \in Paths /\ SrvAttr(p) \in Words
      BY <1>6, <1>7
    <3> HIDE DEF c
    <3> DEFINE x == Cmd(c, p, SrvAttr(p), "")
    <3>3. x \in Cmds /\ x.cmd = c /\ x.path = p
      BY <2>1, <3>1, <3>2
    <3> HIDE DEF x
    <3>4. x \in Requested
      BY <3>1, <3>2, <3>3 DEF Requested
    <3> QED BY <3>4 DEF c, x
  <2>4. R1 \subseteq Requested /\ R2 \subseteq Requested /\ R3 \subseteq Requested
    <3>1. {"I", "J", "i", "j"} \subseteq DirCmds \cup {"D"}
      BY DEF DirCmds
    <3>2. R1 \subseteq Requested
      BY <1>6, <2>2, <3>1
    <3>3. R2 \subseteq Requested
      BY <1>6, <2>2, <3>1
    <3>4. \A c \in {"i", "j"}, d \in S3 : Cmd(c, d, "", "") \in Requested
      BY <1>6, <2>2, <3>1
    <3> DEFINE T1 == {Cmd("i", d, "", "") : d \in S3}
               T2 == {Cmd("j", d, "", "") : d \in S3}
    <3>5. R3 = T1 \cup T2
      OBVIOUS
    <3>6. T1 \subseteq Requested /\ T2 \subseteq Requested
      BY <3>4
    <3> HIDE DEF T1, T2
    <3> HIDE DEF R1, R2, R3
    <3> QED BY <3>2, <3>3, <3>5, <3>6
  <2>5. R4 \subseteq Requested
    BY <1>6, <2>2
  <2>6. R5 \subseteq Requested
    BY <2>3
  <2> HIDE DEF R1, R2, R3, R4, R5
  <2> QED BY <2>4, <2>5, <2>6
<1> HIDE DEF R1, R2, R3, R4, R5
<1>10. IsFiniteSet(R1 \cup R2 \cup R3 \cup R4 \cup R5)
  BY <1>8, FS_Union
<1> QED BY <1>1, <1>9, <1>10

\* The requests are put in order.
LEMMA RequestsType ==
    ASSUME TypeOK, Plan, NEW list \in Seq(Items)
    PROVE  Requests(list) \in Seq(Requested)
BY RequestSetType, OrderType

-----------------------------------------------------------------------------
(* The details *)

\* What the detailer says of the client's files: the revision to patch is that
\* of the file that is there, except for some files.
AllCmds == DirCmds \cup {"D", "S", "t"} \cup CheckoutCmds \cup CvsCmds
DetailCmds == {"C", "U", "S", "A", "V", "r", "L", "l"}
DetailSet ==
    {d \in Cmds : /\ d.cmd \in DirCmds \cup {"D"} \cup DetailCmds
                  /\ d.cmd \in {"C", "U", "S"} => ~cvs /\ d.path \in Served
                  /\ d.cmd \in {"A", "V", "r", "L", "l"} => cvs /\ d.path \in Served
                  /\ d.cmd \in {"U", "S"} /\ On(d.path) =>
                       d.from = Ver(disk[d.path]) \/ d.path \in raced}

\* A detail is made of words.
LEMMA CmdType ==
    ASSUME NEW c \in AllCmds, NEW p \in Paths, NEW v \in Words, NEW f \in Words
    PROVE  Cmd(c, p, v, f) \in Cmds
BY DEF Cmd, Cmds, AllCmds

\* The names of the commands.
LEMMA CmdNames ==
    /\ "C" \in AllCmds /\ "U" \in AllCmds /\ "S" \in AllCmds
    /\ \A c \in {"A", "a", "V", "v", "r", "L", "l"} : c \in AllCmds
    /\ \A c \in CheckoutCmds : c \in AllCmds
    /\ \A c \in CheckoutCmds : c \notin CvsCmds /\ c \notin {"a", "v", "x"}
    /\ \A c \in {"A", "a", "V", "v", "r", "L", "l"} : c \in CvsCmds /\ c \notin CheckoutCmds
BY DEF AllCmds, CheckoutCmds, CvsCmds

\* detailer_send_co() trusts an honest record.
LEMMA CheckoutDetail ==
    ASSUME TypeOK, ~cvs, NEW q \in Cmds, q.path \in Served, NEW sr,
           sr # <<>> => sr[1] \in Honest(raced) /\ sr[1].path = q.path
    PROVE  DetailCheckout(q, sr) \in DetailSet
<1>1. q.path \in Paths /\ "" \in Words
  BY WordTypes DEF Cmds
<1>2. On(q.path) => disk[q.path] \in Contents /\ Ver(disk[q.path]) \in Words
  BY DiskContents, WordTypes
<1>3. Cmd("C", q.path, "", "") \in DetailSet
  <2> DEFINE d == Cmd("C", q.path, "", "")
  <2>1a. d \in Cmds
    BY <1>1, CmdType, CmdNames
  <2>1. d \in Cmds /\ d.cmd = "C" /\ d.path = q.path
    BY <2>1a DEF Cmd
  <2> HIDE DEF d
  <2>2. d \in DetailSet
    BY <2>1 DEF DetailSet, DetailCmds
  <2> QED BY <2>2 DEF d
<1>4. ASSUME On(q.path) PROVE Cmd("S", q.path, "", Ver(disk[q.path])) \in DetailSet
  <2> DEFINE d == Cmd("S", q.path, "", Ver(disk[q.path]))
  <2>1a. d \in Cmds
    BY <1>1, <1>2, <1>4, CmdType, CmdNames
  <2>1. d \in Cmds /\ d.cmd = "S" /\ d.path = q.path /\ d.from = Ver(disk[q.path])
    BY <2>1a DEF Cmd
  <2> HIDE DEF d
  <2>2. d \in DetailSet
    BY <2>1 DEF DetailSet, DetailCmds
  <2> QED BY <2>2 DEF d
<1>5. ASSUME On(q.path), sr # <<>>, sr[1].type = "C", sr[1].attr = disk[q.path]
      PROVE  Cmd("U", q.path, "", sr[1].ver) \in DetailSet
  <2> DEFINE d == Cmd("U", q.path, "", sr[1].ver)
  <2>1. /\ sr[1].ver \in Words
        /\ sr[1].ver = Ver(disk[q.path]) \/ q.path \in raced
    BY <1>5 DEF Honest, Recs
  <2>2a. d \in Cmds
    BY <1>1, <2>1, CmdType, CmdNames
  <2>2. d \in Cmds /\ d.cmd = "U" /\ d.path = q.path /\ d.from = sr[1].ver
    BY <2>2a DEF Cmd
  <2> HIDE DEF d
  <2>3. d \in DetailSet
    BY <2>1, <2>2 DEF DetailSet, DetailCmds
  <2> QED BY <2>3 DEF d
<1> QED BY <1>3, <1>4, <1>5 DEF DetailCheckout

\* The details of CVS mode.
LEMMA CvsDetail ==
    ASSUME TypeOK, cvs, NEW q \in Cmds, q.path \in Served, NEW valid
    PROVE  DetailCvs(q, valid) \in DetailSet
<1>1. q.path \in Paths /\ "" \in Words
  BY WordTypes DEF Cmds
<1>2. \A l : On(l) => disk[l] \in Words /\ Ver(disk[l]) \in Words
  BY DiskContents, WordTypes
<1>3. ASSUME NEW c \in {"A", "V", "r", "L", "l"}, NEW v \in Words, NEW f \in Words
      PROVE  Cmd(c, q.path, v, f) \in DetailSet
  <2> DEFINE d == Cmd(c, q.path, v, f)
  <2>1a. d \in Cmds
    BY <1>1, CmdType, CmdNames
  <2>1. d \in Cmds /\ d.cmd = c /\ d.path = q.path
    BY <2>1a DEF Cmd
  <2> HIDE DEF d
  <2>2. d \in DetailSet
    BY <2>1 DEF DetailSet, DetailCmds
  <2> QED BY <2>2 DEF d
<1>4. DetailRegular(q) \in DetailSet
  <2>1. "r" \in {"A", "V", "r", "L", "l"} /\ "A" \in {"A", "V", "r", "L", "l"}
    OBVIOUS
  <2>2. On(q.path) => Cmd("r", q.path, "", disk[q.path]) \in DetailSet
    BY <1>1, <1>2, <1>3, <2>1
  <2>3. Cmd("A", q.path, "", "") \in DetailSet
    BY <1>1, <1>3, <2>1
  <2> QED BY <2>2, <2>3 DEF DetailRegular
<1>5. On(Existing(q.path)) => DetailRcs(q, valid) \in DetailSet
  <2>1. On(Existing(q.path)) => Cmd("V", q.path, "", Ver(disk[Existing(q.path)])) \in DetailSet
    BY <1>1, <1>2, <1>3
  <2> QED BY <1>4, <2>1 DEF DetailRcs
<1>6. \A l : On(l) => /\ Cmd("L", q.path, disk[l], "") \in DetailSet
                      /\ Cmd("l", q.path, disk[l], "") \in DetailSet
  BY <1>1, <1>2, <1>3
<1>7. Cmd("A", q.path, "", "") \in DetailSet
  BY <1>1, <1>3
<1> QED BY <1>4, <1>5, <1>6, <1>7 DEF DetailCvs

\* One request of detailer_coll()
Detailing ==
    [st : OpenSts(Honest(raced)), out : Seq(DetailSet)]

\* It is answered from the status file and the disk.
LEMMA DetailOneType ==
    ASSUME TypeOK, NEW x \in Detailing, NEW q \in Requested, NEW valid
    PROVE  DetailOne(x, q, valid) \in Detailing
<1> DEFINE key == Key(q.path, FALSE)
           s == IF q.cmd = "U" /\ On(q.path) THEN Seek(x.st, key, TRUE) ELSE x.st
           sr == IF Found(s, key) THEN s.cur ELSE <<>>
           d == CASE q.cmd = "U" -> DetailCheckout(q, sr)
                  [] q.cmd \in {"T", "t"} -> DetailCvs(q, valid)
                  [] OTHER -> q
<1>1. x.st \in OpenSts(Honest(raced)) /\ x.out \in Seq(DetailSet)
  BY DEF Detailing
<1>2. s \in OpenSts(Honest(raced))
  <2>1. Seek(x.st, key, TRUE) \in OpenSts(Honest(raced))
    BY <1>1, HonestClosed, SeekType
  <2> QED BY <1>1, <2>1
<1>3. key.path = q.path
  BY DEF Key, Rec
<1> HIDE DEF s, key
<1>4. sr # <<>> => sr[1] \in Honest(raced) /\ sr[1].path = q.path
  BY <1>2, <1>3, FoundRecord
<1> HIDE DEF sr
<1>5. q \in Cmds
  BY DEF Requested
<1>6. q.cmd = "U" => DetailCheckout(q, sr) \in DetailSet
  BY <1>4, <1>5, CheckoutDetail DEF Requested
<1>7. q.cmd \in {"T", "t"} => DetailCvs(q, valid) \in DetailSet
  BY <1>5, CvsDetail DEF Requested
<1>8. q.cmd \notin {"U", "T", "t"} => q \in DetailSet
  BY DEF Requested, DetailSet, DirCmds
<1>9. d \in DetailSet
  BY <1>6, <1>7, <1>8
<1>10. DetailOne(x, q, valid) = [st |-> s, out |-> Append(x.out, d)]
  BY DEF DetailOne, s, key, sr
<1> HIDE DEF d
<1>11. Append(x.out, d) \in Seq(DetailSet)
  BY <1>1, <1>9
<1> QED BY <1>2, <1>10, <1>11 DEF Detailing

\* All requests, one after the other.
DetailStart == [st |-> Open(stat, -1), out |-> <<>>]
DetailTraced(valid, t) ==
    \E tr \in [0..Len(cmds) -> Detailing] :
      /\ tr[0] = DetailStart /\ t = tr[Len(cmds)].out
      /\ \A m \in 0..(Len(cmds) - 1) : tr[m + 1] = DetailOne(tr[m], cmds[m + 1], valid)
LEMMA DetailTrace ==
    ASSUME TypeOK, Book, cmds \in Seq(Requested), NEW valid
    PROVE  DetailTraced(valid, Details(valid))
<1> DEFINE s0 == DetailStart
           X == Detailing
           G == Requested
           q == cmds
           Def(f, D) ==
             [s \in SUBSET D |->
                IF s = {} THEN s0
                ELSE DetailOne(f[s \ {Max(s)}], q[Max(s)], valid)]
           F == CHOOSE f : f = Def(f, DOMAIN q)
           n == Len(q)
           g == [z \in X \X G |-> DetailOne(z[1], z[2], valid)]
<1>1. Details(valid) = F[DOMAIN q].out
  BY DEF Details, DetailStart, FoldLeft, MapThenFoldSet
<1>2. n \in Nat /\ DOMAIN q = 1..n /\ \A i \in 1..n : q[i] \in G
  OBVIOUS
<1>3. s0 \in X
  <2>1. Open(stat, -1) \in OpenSts(Honest(raced)) /\ <<>> \in Seq(DetailSet)
    BY OpenType DEF Book
  <2> QED BY <2>1 DEF Detailing, DetailStart
<1>4. \A s \in X, r \in G : DetailOne(s, r, valid) \in X
  BY DetailOneType
<1>5. q \in Seq(G)
  OBVIOUS
<1> HIDE DEF s0, X, G, q
<1>6. \E f : f = Def(f, 1..n)
  <2>1. /\ \A s \in X, r \in G : g[<<s, r>>] \in X
        /\ \A s \in X, r \in G : g[<<s, r>>] = DetailOne(s, r, valid)
    BY <1>4
  <2> HIDE DEF g, F, Def
  <2>2. PICK f : Fold(f, n, X, s0, q, g)
    BY <1>3, <1>5, <2>1, FoldExists
  <2>3. ASSUME NEW s \in SUBSET (1..n), s # {}
        PROVE  /\ q[Max(s)] \in G /\ s \ {Max(s)} \in SUBSET (1..n)
               /\ f[s \ {Max(s)}] \in X
    <3>1. Max(s) \in s
      BY <1>2, <2>3, MaxIsMember
    <3> QED BY <1>2, <2>2, <3>1 DEF Fold
  <2>4. \A s \in SUBSET (1..n) :
          s # {} => f[s] = DetailOne(f[s \ {Max(s)}], q[Max(s)], valid)
    BY <2>1, <2>2, <2>3 DEF Fold
  <2>5. f = Def(f, 1..n)
    BY <2>2, <2>4 DEF Def, Fold
  <2> HIDE DEF Def
  <2> QED BY <2>5
<1>7. F = Def(F, 1..n)
  BY <1>2, <1>6
<1> HIDE DEF F
<1>8. F[{}] = s0
  BY <1>7
<1>9. ASSUME NEW m \in 0..(n - 1)
      PROVE  F[1..(m + 1)] = DetailOne(F[1..m], q[m + 1], valid) /\ q[m + 1] \in G
  <2> DEFINE s == 1..(m + 1)
  <2>1. s \in SUBSET (1..n) /\ s # {} /\ m + 1 \in s
    <3>1. m + 1 \in s /\ \A i \in s : i \in 1..n
      BY <1>2
    <3> QED BY <3>1
  <2>2. Max(s) = m + 1 /\ s \ {m + 1} = 1..m
    BY <2>1, MaxUpTo
  <2>3. F[s] = DetailOne(F[s \ {Max(s)}], q[Max(s)], valid)
    BY <1>7, <2>1
  <2>4. q[m + 1] \in G
    BY <1>2
  <2> QED BY <2>2, <2>3, <2>4
<1>10. ASSUME NEW k \in 0..n PROVE F[1..k] \in X
  <2>1. \A m \in 0..(k - 1) : m \in 0..(n - 1)
    BY <1>2
  <2>2. \A m \in 0..(k - 1) : F[1..m] \in X => F[1..(m + 1)] \in X
    BY <1>4, <1>9, <2>1
  <2> QED BY <1>3, <1>8, <2>2, FoldUp
<1> DEFINE tr == [m \in 0..n |-> F[1..m]]
<1>11. tr \in [0..n -> X]
  BY <1>10
<1>12. tr[0] = s0 /\ F[DOMAIN q] = tr[n]
  <2>1. 1..0 = {} /\ 0 \in 0..n /\ n \in 0..n
    BY <1>2
  <2> QED BY <1>2, <1>8, <2>1
<1>13. \A m \in 0..(n - 1) : tr[m + 1] = DetailOne(tr[m], q[m + 1], valid)
  <2>1. \A m \in 0..(n - 1) : m \in 0..n /\ m + 1 \in 0..n
    BY <1>2
  <2> QED BY <1>9, <2>1
<1> HIDE DEF tr
<1> QED BY <1>1, <1>11, <1>12, <1>13 DEF DetailTraced, s0, X, q

\* The details are such details.
LEMMA DetailsType ==
    ASSUME TypeOK, Book, cmds \in Seq(Requested), NEW valid
    PROVE  Details(valid) \in Seq(DetailSet)
<1> DEFINE t == Details(valid)
<1>1. DetailTraced(valid, t)
  BY DetailTrace
<1> HIDE DEF t
<1>2. PICK tr \in [0..Len(cmds) -> Detailing] : t = tr[Len(cmds)].out
  BY <1>1 DEF DetailTraced
<1>3. Len(cmds) \in 0..Len(cmds)
  OBVIOUS
<1>4. tr[Len(cmds)] \in Detailing
  BY <1>3
<1> QED BY <1>2, <1>4 DEF t, Detailing

\* The answers are commands of the updater, and those that set the attributes
\* only are for files that have the server's revision.
LEMMA AnswerType ==
    ASSUME TypeOK, Plan, NEW d \in DetailSet
    PROVE  /\ Answer(d) \in Todo
           /\ Answer(d).cmd = "T" /\ On(Answer(d).path) =>
                \/ Ver(disk[Answer(d).path]) = Answer(d).ver
                \/ Answer(d).path \in raced
<1> DEFINE p == d.path
           v == SrvAttr(p)
           To(c, f) == Cmd(c, p, v, f)
<1>1. /\ d \in Cmds /\ p \in Paths /\ d.from \in Words /\ "" \in Words
      /\ d.cmd \in DirCmds \cup {"D"} \cup DetailCmds
      /\ cvs \in BOOLEAN
  BY WordTypes DEF DetailSet, Cmds, TypeOK
<1>2. d.cmd \in DetailCmds => /\ p \in Served /\ srv[p].ver \in Versions
                              /\ v \in Words /\ srv[p].at \in {"live", "dead"}
                              /\ Live(srv, p) => v = srv[p].ver
                              /\ cvs => v = srv[p].ver
  <2>1. d.cmd \in DetailCmds => p \in Served
    BY DEF DetailSet, DetailCmds
  <2>2. p \in Served => srv[p].ver \in Versions /\ srv[p].at \in {"none", "live", "dead"}
    BY TreeTypes DEF Plan, Served
  <2> QED BY <2>1, <2>2, WordTypes DEF Served, Has, Live, Stored, SrvAttr
<1>3. ASSUME d.cmd \in {"C", "U", "S"}
      PROVE  /\ ~cvs
             /\ \A c \in CheckoutCmds, f \in Words :
                  Live(srv, p) \/ c \in {"u", "c"} => To(c, f) \in Todo
  <2>1. ~cvs /\ p \in Served /\ d.cmd \in DetailCmds
    BY <1>3 DEF DetailSet, DetailCmds
  <2> SUFFICES ASSUME NEW c \in CheckoutCmds, NEW f \in Words,
                      Live(srv, p) \/ c \in {"u", "c"}
               PROVE  To(c, f) \in Todo
    BY <2>1
  <2> DEFINE x == To(c, f)
  <2>2a. x \in Cmds
    BY <1>1, <1>2, <2>1, CmdType, CmdNames
  <2>2. x \in Cmds /\ x.cmd = c /\ x.path = p /\ x.ver = v
    BY <2>2a DEF Cmd
  <2>3. c \notin CvsCmds /\ c \notin {"a", "v", "x"}
    BY CmdNames
  <2> HIDE DEF x
  <2>4. x \in Todo
    BY <1>2, <2>1, <2>2, <2>3 DEF Todo
  <2> QED BY <2>4 DEF x
<1>4. ASSUME d.cmd \in {"A", "V", "r"},
             NEW c \in {"A", "a", "V", "v", "r"}, NEW f \in Words,
             c \in {"a", "v"} => ~Live(srv, p)
      PROVE  To(c, f) \in Todo
  <2>1. cvs /\ p \in Served /\ d.cmd \in DetailCmds
    BY <1>4 DEF DetailSet, DetailCmds
  <2> DEFINE x == To(c, f)
  <2>2a. x \in Cmds
    BY <1>1, <1>2, <2>1, CmdType, CmdNames
  <2>2. x \in Cmds /\ x.cmd = c /\ x.path = p /\ x.ver = v
    BY <2>2a DEF Cmd
  <2>3. c \in CvsCmds /\ c \notin CheckoutCmds /\ c # "x"
    BY CmdNames
  <2> HIDE DEF x
  <2>4. x \in Todo
    BY <1>2, <1>4, <2>1, <2>2, <2>3 DEF Todo
  <2> QED BY <2>4 DEF x
<1>5. CASE d.cmd \in {"C", "U", "S"} /\ ~Live(srv, p)
  <2>1. Answer(d) = To(IF d.cmd = "C" THEN "c" ELSE "u", "")
    BY <1>5 DEF Answer
  <2>2. To("c", "") \in Todo /\ To("u", "") \in Todo
    <3>1. "c" \in CheckoutCmds /\ "u" \in CheckoutCmds
      BY DEF CheckoutCmds
    <3> QED BY <1>1, <1>3, <1>5, <3>1
  <2>3. To("c", "").cmd = "c" /\ To("u", "").cmd = "u"
    BY DEF Cmd
  <2> QED BY <2>1, <2>2, <2>3
<1>6. CASE d.cmd \in {"U", "S"} /\ Live(srv, p)
  <2>1. /\ "T" \in CheckoutCmds /\ "U" \in CheckoutCmds /\ "C" \in CheckoutCmds
        /\ d.cmd \in DetailCmds
    BY <1>6 DEF CheckoutCmds, DetailCmds
  <2>2. To("T", "") \in Todo /\ To("U", d.from) \in Todo /\ To("C", "") \in Todo
    BY <1>1, <1>3, <1>6, <2>1
  <2>3. \/ Answer(d) = To("T", "") /\ d.from = srv[p].ver
        \/ Answer(d) = To("U", d.from)
        \/ Answer(d) = To("C", "")
    BY <1>6 DEF Answer
  <2>4. /\ To("T", "").cmd = "T" /\ To("T", "").path = p /\ To("T", "").ver = v
        /\ To("U", d.from).cmd = "U" /\ To("C", "").cmd = "C"
    BY DEF Cmd
  <2>5. v = srv[p].ver
    BY <1>2, <1>6, <2>1
  <2>6. On(p) => d.from = Ver(disk[p]) \/ p \in raced
    BY <1>6 DEF DetailSet
  <2> HIDE DEF To
  <2> QED BY <2>2, <2>3, <2>4, <2>5, <2>6
<1>7. CASE d.cmd = "C" /\ Live(srv, p)
  <2>1. Answer(d) = To("C", "") /\ To("C", "").cmd = "C"
    BY <1>7 DEF Answer, Cmd
  <2>2. To("C", "") \in Todo
    <3>1. "C" \in CheckoutCmds
      BY DEF CheckoutCmds
    <3> QED BY <1>1, <1>3, <1>7, <3>1
  <2> QED BY <2>1, <2>2
<1>8. CASE d.cmd \in {"A", "V", "r"}
  <2> DEFINE c == CASE d.cmd = "A" -> IF Live(srv, p) THEN "A" ELSE "a"
                    [] d.cmd = "V" -> IF Live(srv, p) THEN "V" ELSE "v"
                    [] OTHER -> IF Live(srv, p) THEN "r" ELSE "a"
             f == IF d.cmd = "A" THEN "" ELSE d.from
  <2>1. Answer(d) = To(c, f)
    BY <1>8 DEF Answer
  <2>2. /\ c \in {"A", "a", "V", "v", "r"} /\ f \in Words
        /\ c \in {"a", "v"} => ~Live(srv, p)
    BY <1>1, <1>8
  <2> HIDE DEF c, f
  <2>3. To(c, f) \in Todo
    BY <1>4, <1>8, <2>2
  <2>4. To(c, f).cmd = c
    BY DEF Cmd
  <2> QED BY <2>1, <2>2, <2>3, <2>4
<1>9. CASE d.cmd \notin {"C", "U", "S", "A", "V", "r"}
  <2>1. Answer(d) = d
    BY <1>9 DEF Answer
  <2>2. /\ d.cmd \in DirCmds \cup {"D", "L", "l"}
        /\ d.cmd \in {"L", "l"} => cvs /\ p \in Served
        /\ d.cmd \notin CheckoutCmds
        /\ d.cmd \in CvsCmds => d.cmd \in {"L", "l"}
    BY <1>1, <1>9 DEF DetailCmds, DetailSet, DirCmds, CheckoutCmds, CvsCmds
  <2>3. d \in Todo
    BY <1>1, <2>2 DEF Todo, DirCmds, CvsCmds
  <2>4. d.cmd # "T"
    BY <2>2 DEF DirCmds
  <2> QED BY <2>1, <2>3, <2>4
<1> QED BY <1>5, <1>6, <1>7, <1>8, <1>9

-----------------------------------------------------------------------------
(* The commands on their way *)

\* The mode and the server's tree stay as they are.
LEMMA InputKept == [Next]_vars => cvs' = cvs /\ srv' = srv
BY DEF Next, Run, Command, Start, RemoveStatus, Detail, Close, Flush, Again, Crash,
   LostConnection, UserEdits, MakeDir, RemoveDir, SetDirAttrs, RemoveFile,
   UpdateDead, CheckoutDead, SetAttrs, RecordCvs, Checkout, Diff, Rsync, Add,
   RcsFixup, RcsEdit, RcsEditFails, RecordFile, Unlink, AddFile, Patched, UpdateFile,
   Limited, Fail, Consume, Reset, input, vars

\* So do the sets of requests and commands.
LEMMA SetsKept ==
    ASSUME cvs' = cvs, srv' = srv
    PROVE  Served' = Served /\ Requested' = Requested /\ Todo' = Todo
<1>1. Served' = Served
  BY DEF Served, Has
<1>2. Requested' = Requested
  BY <1>1 DEF Requested
<1>3. Todo' = Todo
  BY <1>1 DEF Todo, Live
<1> QED BY <1>1, <1>2, <1>3

\* The fixups the server sends.
LEMMA FixupCmdsType ==
    ASSUME TypeOK, Plan
    PROVE  FixupCmds \in Seq({c \in Todo : c.cmd # "T"})
<1> DEFINE G == {c \in Todo : c.cmd # "T"}
           x(p) == Cmd(IF ~cvs THEN "Y" ELSE IF Live(srv, p) THEN "X" ELSE "x",
                       p, srv[p].ver, "")
<1>1. fixups \in Seq(Served) /\ cvs \in BOOLEAN /\ "" \in Words
  BY WordTypes DEF Plan, TypeOK
<1>2. ASSUME NEW p \in Served PROVE x(p) \in G
  <2> DEFINE c == IF ~cvs THEN "Y" ELSE IF Live(srv, p) THEN "X" ELSE "x"
             y == Cmd(c, p, srv[p].ver, "")
  <2>1. p \in Files /\ srv[p].ver \in Words /\ p \in Paths
    <3>1. p \in Files
      BY DEF Served
    <3>2. srv[p].ver \in Versions
      BY <3>1, TreeTypes DEF Plan
    <3> QED BY <3>1, <3>2, WordTypes, FilePaths
  <2>2. /\ c \in AllCmds /\ c # "T"
        /\ c \in CheckoutCmds => ~cvs
        /\ c \in CvsCmds => cvs
        /\ c \in CheckoutCmds \cup CvsCmds
        /\ c \in {"a", "v", "x"} => ~Live(srv, p)
    BY <1>1 DEF AllCmds, CheckoutCmds, CvsCmds
  <2> HIDE DEF c
  <2>3. y \in Cmds
    BY <1>1, <2>1, <2>2, CmdType
  <2>4. y.cmd = c /\ y.path = p /\ y.ver = srv[p].ver
    BY <2>3 DEF Cmd
  <2> HIDE DEF y
  <2>5. y \in Todo
    BY <2>2, <2>3, <2>4 DEF Todo
  <2>6. y \in G
    BY <2>2, <2>4, <2>5
  <2> QED BY <2>6 DEF y, c
<1>3. DOMAIN fixups = 1..Len(fixups) /\ Len(fixups) \in Nat
      /\ \A i \in 1..Len(fixups) : fixups[i] \in Served
  <2>1. fixups \in Seq(Served)
    BY <1>1
  <2> HIDE DEF x, G
  <2> QED BY <2>1
<1>4. FixupCmds = [i \in 1..Len(fixups) |-> x(fixups[i])]
  BY <1>3 DEF FixupCmds
<1> HIDE DEF x, G
<1>5. FixupCmds \in [1..Len(fixups) -> G]
  BY <1>2, <1>3, <1>4
<1>6. FixupCmds \in Seq(G)
  BY <1>3, <1>5, FunctionSeq
<1> QED BY <1>6 DEF G

\* A file that is not where it belongs is an RCS file.
LEMMA MovesRcs ==
    ASSUME IInv, pc # "detail", cmds # <<>>, Cur.cmd \in {"V", "v"}, On(Orig)
    PROVE  /\ Moves => Cur.path \in RcsFiles
           /\ Dest \in Places
<1>1. Cur.path \in Paths /\ Cur.path \in Files
  BY HeadTodo, CurFacts DEF CvsCmds
<1>2. CASE Cur.cmd = "v"
  <2>1. Cur.path \in RcsFiles
    BY <1>2, CurFacts
  <2> QED BY <1>2, <2>1 DEF Dest, Place, Places
<1>3. CASE Cur.cmd = "V"
  <2>1. Dest = Cur.path
    BY <1>3 DEF Dest, Place
  <2>2. ASSUME Moves PROVE Cur.path \in RcsFiles
    <3>1. Orig = Attic(Cur.path)
      BY <2>1, <2>2 DEF Moves, Orig, Existing
    <3>2. Orig \in Places
      BY DEF IInv, TypeOK, Places, On
    <3> QED BY <1>1, <3>1, <3>2, AtticPlace
  <2> QED BY <1>1, <2>1, <2>2 DEF Places
<1> QED BY <1>2, <1>3

\* A file is installed where a file of the collection may be.
LEMMA DestPlace ==
    ASSUME IInv, pc # "detail", cmds # <<>>, Cur.cmd \in FileCmds
    PROVE  /\ Dest \in Places /\ Cur.path \in Served /\ Cur.path \in Files
           /\ Cur.ver \in Versions /\ Dest \in {Cur.path, Attic(Cur.path)}
<1>1. Cur.cmd \in CheckoutCmds \cup CvsCmds /\ Cur.cmd \notin {"u", "c", "L", "l"}
  BY DEF FileCmds, CheckoutCmds, CvsCmds
<1>2. Cur.cmd \in {"a", "x", "v"} => Cur.path \in RcsFiles
  BY CurFacts
<1> QED BY <1>1, <1>2, CurFacts DEF Dest, Place, Places, Served

\* What updater_updatefile() does.
LEMMA UpdateFileWays ==
    ASSUME NEW good, UpdateFile(good)
    PROVE  \/ /\ disk' = With(disk, Dest, Cur.ver) /\ cmds' = cmds /\ fixups' = fixups
              /\ pc' = (IF Moves THEN "move" ELSE "record")
              /\ st' = st /\ want' = want /\ clean' = clean
           \/ /\ disk' = disk /\ fixups' \in {fixups, Append(fixups, Cur.path)}
              /\ \/ Moves /\ pc' = "unlink" /\ cmds' = cmds
                 \/ ~Moves /\ pc' = "apply" /\ cmds' = Tail(cmds)
BY DEF UpdateFile, NeedFixup, NextOrUnlink

\* A command that is not done yet.
Staying ==
    /\ cmds' = cmds /\ pc' \in {"record", "move", "unlink"} /\ Cur.cmd \in FileCmds
    /\ pc' \in {"move", "unlink"} => Cur.cmd \in {"V", "v"} /\ Cur.path \in RcsFiles

\* What a command does to the queues.
LEMMA CommandQueues ==
    ASSUME IInv, Command
    PROVE  /\ pc # "detail" /\ cmds # <<>>
           /\ \/ cmds' = Tail(cmds) /\ pc' = "apply"
              \/ cmds' = <<>> /\ pc' = "apply"
              \/ Staying
           /\ fixups' \in {fixups, Append(fixups, Cur.path)}
           /\ fixups' # fixups => Cur.path \in Served
<1> DEFINE Fixed == /\ fixups' \in {fixups, Append(fixups, Cur.path)}
                    /\ fixups' # fixups => Cur.path \in Served
           Consumed == cmds' = Tail(cmds) /\ pc' = "apply"
           Failed == cmds' = <<>> /\ pc' = "apply"
<1>1. pc # "detail" /\ cmds # <<>>
  BY DEF Command, MakeDir, RemoveDir, SetDirAttrs, RemoveFile,
     UpdateDead, CheckoutDead, SetAttrs, RecordCvs, Checkout, Diff, Rsync, Add,
     RcsFixup, RcsEdit, RcsEditFails, RecordFile, Unlink, At, IInv, Plan
<1>2. Cur.cmd \in CheckoutCmds \cup CvsCmds => Cur.path \in Served
  BY <1>1, CurFacts DEF Served
<1>3. CASE MakeDir \/ RemoveDir \/ SetDirAttrs \/ RemoveFile \/ UpdateDead
            \/ CheckoutDead \/ SetAttrs \/ RecordCvs
  <2>1. fixups' = fixups /\ (Consumed \/ Failed)
    BY <1>3 DEF MakeDir, RemoveDir, SetDirAttrs, RemoveFile, UpdateDead, CheckoutDead,
       SetAttrs, RecordCvs, At, Consume, Fail, Limited, Deleted
  <2> QED BY <1>1, <2>1
<1>4. CASE Checkout \/ Diff \/ Rsync \/ Add \/ RcsFixup
  <2>1. (fixups' = fixups /\ Failed) \/ \E good : UpdateFile(good)
    BY <1>4 DEF Checkout, Diff, Rsync, Add, RcsFixup, AddFile, Patched, Fail
  <2>2. /\ Cur.cmd \in CheckoutCmds \cup CvsCmds
        /\ Cur.cmd \in FileCmds /\ Cur.cmd \notin {"V", "v"}
    BY <1>4 DEF Checkout, Diff, Rsync, Add, RcsFixup, At, CheckoutCmds, CvsCmds, FileCmds
  <2>3. ~Moves
    BY <2>2 DEF Moves
  <2>4. ASSUME NEW good, UpdateFile(good)
        PROVE  fixups' \in {fixups, Append(fixups, Cur.path)} /\ (Consumed \/ Staying)
    BY <2>2, <2>3, <2>4, UpdateFileWays DEF Staying
  <2> QED BY <1>1, <1>2, <2>1, <2>2, <2>4
<1>5. CASE RcsEdit
  <2>1. Cur.cmd \in {"V", "v"} /\ On(Orig) /\ pc = "apply"
    BY <1>5 DEF RcsEdit, At
  <2>2. (fixups' = fixups /\ Consumed) \/ \E good : UpdateFile(good)
    BY <1>5, <2>1 DEF RcsEdit, Consume
  <2>3. Moves => Cur.path \in RcsFiles
    BY <1>1, <2>1, MovesRcs
  <2>4. Cur.cmd \in CvsCmds /\ Cur.cmd \in FileCmds
    BY <2>1 DEF CvsCmds, FileCmds
  <2>5. ASSUME NEW good, UpdateFile(good)
        PROVE  fixups' \in {fixups, Append(fixups, Cur.path)} /\ (Consumed \/ Staying)
    BY <2>1, <2>3, <2>4, <2>5, UpdateFileWays DEF Staying
  <2> QED BY <1>1, <1>2, <2>2, <2>4, <2>5
<1>6. CASE RcsEditFails
  <2>1. fixups' \in {fixups, Append(fixups, Cur.path)} /\ (Consumed \/ Failed)
    BY <1>6 DEF RcsEditFails, NeedFixup, At, Consume, Fail
  <2>2. Cur.cmd \in CvsCmds
    BY <1>6 DEF RcsEditFails, At, CvsCmds
  <2> QED BY <1>1, <1>2, <2>1, <2>2
<1>7. CASE Unlink
  <2>1. fixups' = fixups /\ Consumed
    BY <1>7 DEF Unlink
  <2> QED BY <1>1, <2>1
<1>8. CASE RecordFile
  <2>1. /\ fixups' = fixups
        /\ \/ Failed \/ Consumed
           \/ pc = "move" /\ pc' = "unlink" /\ cmds' = cmds
    BY <1>8 DEF RecordFile, Fail, NextOrUnlink
  <2>2. pc = "move" => Cur.cmd \in FileCmds /\ Cur.cmd \in {"V", "v"} /\ Cur.path \in RcsFiles
    BY DEF IInv, Plan
  <2> QED BY <1>1, <2>1, <2>2 DEF Staying
<1> QED BY <1>3, <1>4, <1>5, <1>6, <1>7, <1>8 DEF Command

\* When a file waits to be recorded, it was just installed.
LEMMA CommandInstalls ==
    ASSUME IInv, Command, pc' \in {"record", "move"}
    PROVE  /\ cmds' = cmds /\ disk' = With(disk, Dest, Cur.ver)
           /\ st' = st /\ want' = want /\ fixups' = fixups /\ clean' = clean
<1>1. pc' # "apply" /\ pc' # "unlink"
  OBVIOUS
<1>2. CASE \E good : UpdateFile(good)
  BY <1>1, <1>2, UpdateFileWays
<1>3. CASE MakeDir \/ RemoveDir \/ SetDirAttrs \/ RemoveFile \/ UpdateDead
            \/ CheckoutDead \/ SetAttrs \/ RecordCvs
  BY <1>1, <1>3 DEF MakeDir, RemoveDir, SetDirAttrs, RemoveFile, UpdateDead,
     CheckoutDead, SetAttrs, RecordCvs, At, Consume, Fail, Limited
<1>4. CASE Checkout \/ Diff \/ Rsync \/ Add \/ RcsFixup
  BY <1>1, <1>2, <1>4 DEF Checkout, Diff, Rsync, Add, RcsFixup, AddFile, Patched, Fail
<1>5. CASE RcsEdit
  BY <1>1, <1>2, <1>5 DEF RcsEdit, At, Consume
<1>6. CASE RcsEditFails \/ RecordFile \/ Unlink
  BY <1>1, <1>6 DEF RcsEditFails, RecordFile, Unlink, At, Consume, Fail, NextOrUnlink
<1> QED BY <1>3, <1>4, <1>5, <1>6 DEF Command

\* The commands on their way remain such commands.
LEMMA PlanStep == IInv /\ [Next]_vars => Plan'
<1> SUFFICES ASSUME IInv, [Next]_vars PROVE Plan'
  OBVIOUS
<1>1. cvs' = cvs /\ srv' = srv
  BY InputKept
<1>2. Served' = Served /\ Requested' = Requested /\ Todo' = Todo
  BY <1>1, SetsKept
<1>3. /\ TypeOK /\ Book /\ Plan /\ fixups \in Seq(Served)
      /\ srv' \in Trees({"none", "live", "dead"}, Versions)
      /\ <<>> \in Seq(Served) /\ <<>> \in Seq(Todo)
  BY <1>1 DEF IInv, Plan
<1> DEFINE Good == /\ pc' = "detail" => cmds' \in Seq(Requested)
                   /\ pc' # "detail" => cmds' \in Seq(Todo)
                   /\ fixups' \in Seq(Served)
                   /\ pc' \in {"record", "move", "unlink"} =>
                        cmds' # <<>> /\ Cur'.cmd \in FileCmds
                   /\ pc' \in {"move", "unlink"} =>
                        Cur'.cmd \in {"V", "v"} /\ Cur'.path \in RcsFiles
<1>4. CASE Start
  <2>1. stat.recs \in Seq(Recs)
    <3>1. Honest(raced) \subseteq Recs
      BY DEF Honest
    <3> QED BY <1>3, <3>1, SeqMonotonic DEF Book
  <2>2. Requests(Walk(stat.recs).out) \in Seq(Requested)
    BY <1>3, <2>1, WalkType, RequestsType
  <2>3. Good
    BY <1>3, <1>4, <2>2 DEF Start
  <2> QED BY <1>2, <1>3, <2>3 DEF Plan
<1>5. CASE Detail
  <2>1. cmds \in Seq(Requested)
    BY <1>3, <1>5 DEF Detail, Plan
  <2>2. PICK valid \in BOOLEAN :
          cmds' = [i \in DOMAIN Details(valid) |-> Answer(Details(valid)[i])]
    BY <1>5 DEF Detail
  <2> DEFINE details == Details(valid)
  <2>3. details \in Seq(DetailSet)
    BY <1>3, <2>1, DetailsType
  <2> HIDE DEF details
  <2>4. /\ Len(details) \in Nat /\ DOMAIN details = 1..Len(details)
        /\ \A i \in 1..Len(details) : Answer(details[i]) \in Todo
    <3>1. /\ Len(details) \in Nat /\ DOMAIN details = 1..Len(details)
          /\ \A i \in 1..Len(details) : details[i] \in DetailSet
      BY <2>3
    <3> QED BY <1>3, <3>1, AnswerType
  <2>5. cmds' \in [1..Len(details) -> Todo]
    BY <2>2, <2>4 DEF details
  <2>6. cmds' \in Seq(Todo)
    BY <2>4, <2>5, FunctionSeq
  <2>7. Good
    BY <1>3, <1>5, <2>6 DEF Detail
  <2> QED BY <1>2, <1>3, <2>7 DEF Plan
<1>6. CASE Command
  <2>1. /\ pc # "detail" /\ cmds # <<>>
        /\ \/ cmds' = Tail(cmds) /\ pc' = "apply"
           \/ cmds' = <<>> /\ pc' = "apply"
           \/ Staying
        /\ fixups' \in {fixups, Append(fixups, Cur.path)}
        /\ fixups' # fixups => Cur.path \in Served
    BY <1>6, CommandQueues
  <2>2. cmds \in Seq(Todo) /\ Tail(cmds) \in Seq(Todo)
    BY <1>3, <2>1 DEF Plan
  <2>3. fixups' \in Seq(Served)
    BY <1>3, <2>1
  <2>4. cmds' = cmds => Cur' = Cur
    BY DEF Cur
  <2>5. Good
    BY <1>3, <2>1, <2>2, <2>3, <2>4 DEF Staying
  <2> QED BY <1>2, <1>3, <2>5 DEF Plan
<1>7. CASE Close \/ Flush
  <2>1. FixupCmds \in Seq(Todo)
    <3>1. {c \in Todo : c.cmd # "T"} \subseteq Todo
      OBVIOUS
    <3> QED BY <1>3, <3>1, FixupCmdsType, SeqMonotonic
  <2>2. pc \in {"apply", "flush"} /\ cmds \in Seq(Todo)
    BY <1>3, <1>7 DEF Close, Flush, Plan
  <2>3. Good
    BY <1>3, <1>7, <2>1, <2>2 DEF Close, Flush, NextBatch
  <2> QED BY <1>2, <1>3, <2>3 DEF Plan
<1>8. CASE Again \/ Crash
  <2>1. Good
    BY <1>3, <1>8 DEF Again, Crash, Reset
  <2> QED BY <1>2, <1>3, <2>1 DEF Plan
<1>9. CASE LostConnection
  <2>1. Good
    BY <1>3, <1>9 DEF LostConnection, Fail
  <2> QED BY <1>2, <1>3, <2>1 DEF Plan
<1>10. CASE RemoveStatus \/ UserEdits \/ UNCHANGED vars
  <2>1. pc' = pc /\ cmds' = cmds /\ fixups' = fixups
    BY <1>10 DEF RemoveStatus, UserEdits, vars
  <2>2. Good
    BY <1>3, <2>1 DEF Plan, Cur
  <2> QED BY <1>2, <1>3, <2>2 DEF Plan
<1> QED BY <1>4, <1>5, <1>6, <1>7, <1>8, <1>9, <1>10 DEF Next, Run

\* What a checkout command leaves on the disk: a file as it was, or the
\* server's version of it.
LEMMA CommandDisk ==
    ASSUME IInv, Command, ~cvs
    PROVE  /\ edited' = edited
           /\ \A l \in DOMAIN disk' :
                \/ l \in DOMAIN disk /\ disk'[l] = disk[l]
                \/ l = Cur.path /\ l \in Files /\ disk'[l] = srv[l].ver
                   /\ srv[l].ver \in Versions
<1> DEFINE Kept == \A l \in DOMAIN disk' : l \in DOMAIN disk /\ disk'[l] = disk[l]
<1>1. pc # "detail" /\ cmds # <<>>
  BY CommandQueues
<1>2. edited' = edited
  BY DEF Command, MakeDir, RemoveDir, SetDirAttrs, RemoveFile,
     UpdateDead, CheckoutDead, SetAttrs, RecordCvs, Checkout, Diff, Rsync, Add,
     RcsFixup, RcsEdit, RcsEditFails, RecordFile, Unlink, AddFile, Patched, Limited,
     Deleted, Fail, NoFault, history
<1>3. CASE MakeDir \/ RemoveDir \/ SetDirAttrs \/ SetAttrs \/ RecordCvs \/ RcsEditFails
            \/ RecordFile
  <2>1. disk' = disk
    BY <1>3 DEF MakeDir, RemoveDir, SetDirAttrs, SetAttrs, RecordCvs, RcsEditFails,
       RecordFile, Fail, NeedFixup, disks
  <2> QED BY <1>2, <2>1
<1>4. CASE RemoveFile \/ UpdateDead \/ CheckoutDead \/ Unlink
  <2>1. disk' = disk \/ \E p : disk' = Without(disk, p)
    BY <1>4 DEF RemoveFile, UpdateDead, CheckoutDead, Unlink, Limited, Deleted, Fail,
       disks
  <2>2. Kept
    BY <2>1 DEF Without
  <2> QED BY <1>2, <2>2
<1>5. CASE Checkout \/ Diff
  <2>1. disk' = disk \/ disk' = With(disk, Cur.path, Cur.ver)
    <3>1. Dest = Cur.path
      BY <1>5 DEF Checkout, Diff, At, Dest, Place
    <3>2. disk' = disk \/ \E good : UpdateFile(good)
      BY <1>5 DEF Checkout, Diff, Patched, Fail, disks
    <3> QED BY <3>1, <3>2, UpdateFileWays
  <2>2. Cur.path \in Files /\ Cur.ver = srv[Cur.path].ver /\ srv[Cur.path].ver \in Versions
    <3>1. Cur.cmd \in CheckoutCmds /\ Cur.cmd \notin {"u", "c", "L", "l"}
      BY <1>5 DEF Checkout, Diff, At, CheckoutCmds
    <3> QED BY <1>1, <3>1, CurFacts
  <2> QED BY <1>2, <2>1, <2>2 DEF With
<1>6. CASE Rsync \/ Add \/ RcsFixup \/ RcsEdit
  <2>1. Cur.cmd \in CvsCmds
    BY <1>6 DEF Rsync, Add, RcsFixup, RcsEdit, At, CvsCmds
  <2> QED BY <1>1, <2>1, CurFacts
<1> QED BY <1>3, <1>4, <1>5, <1>6 DEF Command

\* A file whose attributes alone are to be set keeps its revision.
LEMMA ToldStep == IInv /\ [Next]_vars => Told'
<1> SUFFICES ASSUME IInv, [Next]_vars, pc' # "detail",
                    NEW i \in DOMAIN cmds', cmds'[i].cmd = "T", cmds'[i].path \in DOMAIN disk'
             PROVE  \/ Ver(disk'[cmds'[i].path]) = cmds'[i].ver
                    \/ cmds'[i].path \in edited' \cup raced'
  BY DEF Told, On
<1> DEFINE p == cmds'[i].path
<1>1. TypeOK /\ Book /\ Plan /\ Told /\ raced \subseteq raced'
  BY RacedGrows DEF IInv
<1>2. ASSUME pc # "detail",
             \E j \in DOMAIN cmds : cmds[j] = cmds'[i],
             edited \subseteq edited',
             \/ p \in DOMAIN disk /\ disk'[p] = disk[p]
             \/ p \in edited'
             \/ disk'[p] = srv[p].ver /\ srv[p].ver \in Versions
      PROVE  \/ Ver(disk'[p]) = cmds'[i].ver
             \/ p \in edited' \cup raced'
  <2>1. PICK j \in DOMAIN cmds : cmds[j] = cmds'[i]
    BY <1>2
  <2>2. cmds[j] \in Todo
    <3>1. cmds \in Seq(Todo)
      BY <1>1, <1>2 DEF Plan
    <3> QED BY <3>1
  <2>3. cmds[j].ver = srv[cmds[j].path].ver
    BY <2>1, <2>2 DEF Todo, CheckoutCmds
  <2>4. CASE p \in DOMAIN disk /\ disk'[p] = disk[p]
    BY <1>1, <1>2, <2>1, <2>4 DEF Told, On
  <2>5. CASE disk'[p] = srv[p].ver /\ srv[p].ver \in Versions
    BY <2>1, <2>3, <2>5, WordTypes
  <2> QED BY <1>2, <2>4, <2>5
<1>3. CASE Start
  BY <1>3 DEF Start
<1>4. CASE Detail
  <2>1. cmds \in Seq(Requested) /\ disk' = disk
    BY <1>1, <1>4 DEF Detail, Plan, disks
  <2>2. PICK valid \in BOOLEAN :
          cmds' = [k \in DOMAIN Details(valid) |-> Answer(Details(valid)[k])]
    BY <1>4 DEF Detail
  <2>3. Details(valid) \in Seq(DetailSet)
    BY <1>1, <2>1, DetailsType
  <2>4. cmds'[i] = Answer(Details(valid)[i]) /\ Details(valid)[i] \in DetailSet
    BY <2>2, <2>3
  <2> QED BY <1>1, <2>1, <2>4, AnswerType DEF On
<1>5. CASE Command
  <2>1. /\ pc # "detail" /\ cmds # <<>>
        /\ cmds' \in {Tail(cmds), <<>>, cmds}
    BY <1>5, CommandQueues DEF Staying
  <2>2. cmds \in Seq(Todo)
    BY <1>1, <2>1 DEF Plan
  <2>3. PICK j \in DOMAIN cmds : cmds[j] = cmds'[i]
    <3>1. CASE cmds' = Tail(cmds)
      <4>1. i + 1 \in DOMAIN cmds /\ cmds[i + 1] = cmds'[i]
        BY <2>1, <2>2, <3>1
      <4> QED BY <4>1
    <3>2. CASE cmds' = <<>>
      BY <3>2
    <3>3. CASE cmds' = cmds
      BY <3>3
    <3> QED BY <2>1, <3>1, <3>2, <3>3
  <2>4. ~cvs
    <3>1. cmds[j] \in Todo
      BY <2>2
    <3> QED BY <2>3, <3>1 DEF Todo, CheckoutCmds
  <2>5. /\ edited' = edited
        /\ \A l \in DOMAIN disk' :
             \/ l \in DOMAIN disk /\ disk'[l] = disk[l]
             \/ disk'[l] = srv[l].ver /\ srv[l].ver \in Versions
    BY <1>5, <2>4, CommandDisk
  <2>6. \/ p \in DOMAIN disk /\ disk'[p] = disk[p]
        \/ disk'[p] = srv[p].ver /\ srv[p].ver \in Versions
    BY <2>5
  <2> QED BY <1>2, <2>1, <2>3, <2>5, <2>6
<1>6. CASE Close \/ Flush
  <2>1. disk' = disk /\ edited' = edited /\ pc # "detail"
    BY <1>6 DEF Close, Flush, disks, history, NoFault
  <2>2. cmds' = FixupCmds \/ cmds' = cmds
    BY <1>6 DEF Close, Flush, NextBatch
  <2>3. CASE cmds' = FixupCmds
    <3>1. FixupCmds \in Seq({c \in Todo : c.cmd # "T"})
      BY <1>1, FixupCmdsType
    <3>2. cmds'[i] \in {c \in Todo : c.cmd # "T"}
      BY <2>3, <3>1
    <3> QED BY <3>2
  <2>4. CASE cmds' = cmds
    BY <1>2, <2>1, <2>4
  <2> QED BY <2>2, <2>3, <2>4
<1>7. CASE Again \/ Crash \/ LostConnection
  <2>1. cmds' = <<>>
    BY <1>7 DEF Again, Crash, LostConnection, Reset, Fail
  <2> QED BY <2>1
<1>8. CASE RemoveStatus \/ UNCHANGED vars
  <2>1. pc' = pc /\ cmds' = cmds /\ disk' = disk /\ edited' = edited
    BY <1>8 DEF RemoveStatus, NoFault, vars, disks, history
  <2> QED BY <1>2, <2>1
<1>9. CASE UserEdits
  <2>1. PICK place \in DOMAIN disk :
          /\ disk' \in {[disk EXCEPT ![place] = "local"],
                        [disk EXCEPT ![place] = Touch(@)], Without(disk, place)}
          /\ edited' = edited \cup {f \in Files : place \in {f, Attic(f)}}
    BY <1>9 DEF UserEdits
  <2>2. pc' = pc /\ cmds' = cmds /\ pc # "detail"
    BY <1>9 DEF UserEdits
  <2>3. \A l \in DOMAIN disk' : l \in DOMAIN disk /\ (l # place => disk'[l] = disk[l])
    BY <2>1 DEF Without
  <2>4. p \in Files
    <3>1. cmds \in Seq(Todo)
      BY <1>1, <2>2 DEF Plan
    <3>2. cmds[i] \in Todo
      BY <2>2, <3>1
    <3> QED BY <2>2, <3>2 DEF Todo, CheckoutCmds, Served
  <2>5. p = place => p \in edited'
    BY <2>1, <2>4
  <2>6. p \in DOMAIN disk /\ (p # place => disk'[p] = disk[p])
    BY <2>3
  <2> QED BY <1>2, <2>1, <2>2, <2>5, <2>6
<1> QED BY <1>3, <1>4, <1>5, <1>6, <1>7, <1>8, <1>9 DEF Next, Run

\* A file that was installed stays as it is until it is recorded, unless a user
\* changes it.
LEMMA InstalledStep == IInv /\ [Next]_vars => Installed'
<1> SUFFICES ASSUME IInv, [Next]_vars, pc' \in {"record", "move"}, Dest' \in DOMAIN disk'
             PROVE  Ver(disk'[Dest']) = Cur'.ver \/ Cur'.path \in edited'
  BY DEF Installed, On
<1>1. cmds' = cmds => Cur' = Cur /\ Dest' = Dest
  BY DEF Cur, Dest
<1>2. CASE Command
  <2>1. cmds' = cmds /\ disk' = With(disk, Dest, Cur.ver)
    BY <1>2, CommandInstalls
  <2>2. Cur.ver \in Versions
    <3>1. pc # "detail" /\ cmds # <<>> /\ Staying
      BY <1>2, CommandQueues
    <3> QED BY <3>1, DestPlace DEF Staying
  <2>3. disk'[Dest] = Cur.ver
    BY <2>1 DEF With
  <2> QED BY <1>1, <2>1, <2>2, <2>3, WordTypes
<1>3. CASE UserEdits
  <2>1. PICK place \in DOMAIN disk :
          /\ disk' \in {[disk EXCEPT ![place] = "local"],
                        [disk EXCEPT ![place] = Touch(@)], Without(disk, place)}
          /\ edited' = edited \cup {f \in Files : place \in {f, Attic(f)}}
    BY <1>3 DEF UserEdits
  <2>2. pc' = pc /\ cmds' = cmds
    BY <1>3 DEF UserEdits
  <2>3. \A l \in DOMAIN disk' : l \in DOMAIN disk /\ (l # place => disk'[l] = disk[l])
    BY <2>1 DEF Without
  <2>4. Cur.path \in Files /\ Dest \in {Cur.path, Attic(Cur.path)}
    <3>1. pc # "detail" /\ cmds # <<>> /\ Cur.cmd \in FileCmds
      BY <2>2 DEF IInv, Plan
    <3> QED BY <3>1, DestPlace
  <2>5. Dest = place => Cur.path \in edited'
    BY <2>1, <2>4
  <2>6. Dest # place => disk'[Dest] = disk[Dest] /\ On(Dest)
    BY <1>1, <2>2, <2>3 DEF On
  <2>7. Dest # place => Ver(disk[Dest]) = Cur.ver \/ Cur.path \in edited
    BY <2>2, <2>6 DEF IInv, Installed
  <2> QED BY <1>1, <2>1, <2>2, <2>5, <2>6, <2>7
<1>4. CASE Start \/ Detail \/ Close \/ Flush \/ Again \/ Crash \/ LostConnection
  <2>1. pc' \notin {"record", "move"}
    BY <1>4 DEF Start, Detail, Close, Flush, NextBatch, Again, Crash, LostConnection,
       Fail
  <2> QED BY <2>1
<1>5. CASE RemoveStatus \/ UNCHANGED vars
  <2>1. pc' = pc /\ cmds' = cmds /\ disk' = disk /\ edited' = edited
    BY <1>5 DEF RemoveStatus, NoFault, vars, disks, history
  <2> QED BY <1>1, <2>1 DEF IInv, Installed, On
<1> QED BY <1>2, <1>3, <1>4, <1>5 DEF Next, Run

-----------------------------------------------------------------------------
(* The types *)

\* The part of the types that is about places.
LEMMA TypePlaced == TypeOK => Placed(disk, dirs)
BY DEF TypeOK, Placed, Places, Contents

\* Renaming the directories of the files there are.
LEMMA PlacedKept ==
    ASSUME Placed(disk, dirs), NEW files, NEW ds, dirs \subseteq ds,
           \A l \in DOMAIN files : l \in DOMAIN disk /\ files[l] \in Contents
    PROVE  Placed(files, ds)
BY DEF Placed

\* updater_updatefile() installs a file in its place, or none.
LEMMA UpdatePlaced ==
    ASSUME IInv, NEW good, UpdateFile(good), pc # "detail", cmds # <<>>,
           Cur.cmd \in FileCmds, NEW ds, dirs \subseteq ds, Above(Dest) \subseteq ds
    PROVE  Placed(disk', ds)
<1>1. Placed(disk, dirs)
  BY TypePlaced DEF IInv
<1>2. Cur.ver \in Contents /\ Dest \in Places
  BY DestPlace, WordTypes
<1>3. disk' = disk \/ disk' = With(disk, Dest, Cur.ver)
  BY UpdateFileWays
<1>4. Placed(With(disk, Dest, Cur.ver), ds)
  BY <1>1, <1>2, InstallPlaced
<1>5. Placed(disk, ds)
  BY <1>1 DEF Placed
<1> QED BY <1>3, <1>4, <1>5

\* Every file that is there has its place after a command.
LEMMA CommandPlaced ==
    ASSUME IInv, Command
    PROVE  Placed(disk', dirs')
<1>1. Placed(disk, dirs) /\ TypeOK
  BY TypePlaced DEF IInv
<1>2. pc # "detail" /\ cmds # <<>> /\ Cur.path \in Paths
  BY CommandQueues, HeadTodo
<1>3. CASE MakeDir
  <2>1. disk' = disk /\ dirs \subseteq dirs'
    BY <1>3 DEF MakeDir
  <2> QED BY <1>1, <2>1 DEF Placed
<1>4. CASE RemoveDir
  <2>1. /\ disk' = disk
        /\ \/ dirs' = dirs
           \/ /\ \A p \in DOMAIN disk \cup dirs : ~IsStrictPrefix(Cur.path, p)
              /\ dirs' = dirs \ {Cur.path}
    BY <1>4 DEF RemoveDir
  <2>2. CASE dirs' = dirs
    BY <1>1, <2>1, <2>2 DEF Placed
  <2>3. CASE dirs' # dirs
    <3>1. ASSUME NEW l \in DOMAIN disk, NEW a \in Above(l) PROVE a \in dirs'
      <4>1. a \in dirs /\ l \in Places
        BY <1>1, <3>1 DEF Placed
      <4>2. IsStrictPrefix(a, l)
        BY <3>1, <4>1, AboveFacts, FilePaths DEF Paths
      <4> QED BY <2>1, <2>3, <4>1, <4>2
    <3> QED BY <1>1, <2>1, <3>1 DEF Placed
  <2> QED BY <2>2, <2>3
<1>5. CASE SetDirAttrs \/ SetAttrs \/ RecordCvs \/ RcsEditFails \/ RecordFile
  <2>1. disk' = disk /\ dirs' = dirs
    BY <1>5 DEF SetDirAttrs, SetAttrs, RecordCvs, RcsEditFails, RecordFile, Fail,
       NeedFixup, disks
  <2> QED BY <1>1, <2>1
<1>6. CASE RemoveFile \/ UpdateDead \/ CheckoutDead
  <2>1. \/ disk' = disk /\ dirs' = dirs
        \/ Deleted(Cur.path)
    BY <1>6 DEF RemoveFile, UpdateDead, CheckoutDead, Limited, Fail, disks
  <2>2. CASE Deleted(Cur.path)
    <3>1. /\ disk' = Without(disk, Cur.path)
          /\ dirs' \in {dirs, Pruned(DOMAIN Without(disk, Cur.path), Cur.path)}
      BY <2>2 DEF Deleted
    <3> QED BY <1>1, <3>1, RemovePlaced
  <2> QED BY <1>1, <2>1, <2>2
<1>7. CASE Checkout
  <2>1. Cur.cmd \in FileCmds /\ Dest = Cur.path /\ dirs' = dirs \cup Above(Cur.path)
    BY <1>7 DEF Checkout, At, FileCmds, Dest, Place
  <2>2. PICK good \in BOOLEAN : UpdateFile(good)
    BY <1>7 DEF Checkout
  <2> QED BY <1>2, <2>1, <2>2, UpdatePlaced
<1>8. CASE Diff \/ Rsync
  <2>1. /\ Cur.cmd \in FileCmds /\ Dest = Cur.path
        /\ (disk' = disk /\ dirs' = dirs) \/ Patched
    BY <1>8 DEF Diff, Rsync, At, FileCmds, Dest, Place, Fail, disks
  <2>2. ASSUME Patched PROVE Placed(disk', dirs')
    <3>1. Above(Cur.path) \subseteq dirs /\ dirs' = dirs
      BY <1>1, <2>2 DEF Patched, On, Placed
    <3>2. PICK good : UpdateFile(good)
      BY <2>2 DEF Patched
    <3> QED BY <1>2, <2>1, <3>1, <3>2, UpdatePlaced
  <2> QED BY <1>1, <2>1, <2>2
<1>9. CASE Add \/ RcsFixup
  <2>1. Cur.cmd \in FileCmds /\ dirs' = dirs \cup Above(Dest)
    BY <1>9 DEF Add, RcsFixup, AddFile, At, FileCmds
  <2>2. PICK good : UpdateFile(good)
    BY <1>9 DEF Add, RcsFixup, AddFile
  <2> QED BY <1>2, <2>1, <2>2, UpdatePlaced
<1>10. CASE RcsEdit
  <2>1. /\ Cur.cmd \in {"V", "v"} /\ On(Orig)
        /\ dirs' = IF Moves THEN dirs \cup Above(Dest) ELSE dirs
    BY <1>10 DEF RcsEdit, At
  <2>2. Dest \in Places
    BY <1>2, <2>1, MovesRcs
  <2>3. dirs \subseteq dirs' /\ Above(Dest) \subseteq dirs'
    <3>1. ~Moves => Above(Dest) \subseteq dirs
      BY <1>1, <2>1 DEF Moves, On, Placed
    <3> QED BY <2>1, <3>1
  <2>4. \/ \E good : UpdateFile(good)
        \/ ~Moves /\ disk' = [disk EXCEPT ![Dest] = Ver(@)]
    BY <1>10 DEF RcsEdit, Edits
  <2>5. CASE \E good : UpdateFile(good)
    <3>1. Cur.cmd \in FileCmds
      BY <2>1 DEF FileCmds
    <3> QED BY <1>2, <2>3, <2>5, <3>1, UpdatePlaced
  <2>6. CASE ~Moves /\ disk' = [disk EXCEPT ![Dest] = Ver(@)]
    <3>1. On(Dest) /\ disk[Dest] \in Contents
      BY <1>1, <2>1, <2>6 DEF Moves, Placed, On
    <3>2. \A l \in DOMAIN disk' : l \in DOMAIN disk /\ disk'[l] \in Contents
      BY <1>1, <2>6, <3>1, WordTypes DEF Placed
    <3> QED BY <1>1, <2>3, <3>2, PlacedKept
  <2> QED BY <2>4, <2>5, <2>6
<1>11. CASE Unlink
  <2>1. PICK p : disk' = Without(disk, p) /\ dirs' = dirs
    BY <1>11 DEF Unlink
  <2> QED BY <1>1, <2>1, RemovePlaced
<1> QED BY <1>3, <1>4, <1>5, <1>6, <1>7, <1>8, <1>9, <1>10, <1>11 DEF Command

\* So it has after every step.
LEMMA PlacedStep == IInv /\ [Next]_vars => Placed(disk', dirs')
<1> SUFFICES ASSUME IInv, [Next]_vars PROVE Placed(disk', dirs')
  OBVIOUS
<1>1. Placed(disk, dirs)
  BY TypePlaced DEF IInv
<1>2. CASE Command
  BY <1>2, CommandPlaced
<1>3. CASE UserEdits
  <2>1. PICK place \in DOMAIN disk :
          disk' \in {[disk EXCEPT ![place] = "local"],
                     [disk EXCEPT ![place] = Touch(@)], Without(disk, place)}
    BY <1>3 DEF UserEdits
  <2>2. dirs' = dirs
    BY <1>3 DEF UserEdits
  <2>3. \A l \in DOMAIN disk' : l \in DOMAIN disk /\ disk'[l] \in Contents
    BY <1>1, <2>1, WordTypes DEF Placed, Without
  <2> QED BY <1>1, <2>2, <2>3, PlacedKept
<1>4. CASE Start \/ RemoveStatus \/ Detail \/ Close \/ Flush \/ Again \/ Crash
            \/ LostConnection \/ UNCHANGED vars
  <2>1. disk' = disk /\ dirs' = dirs
    BY <1>4 DEF Start, RemoveStatus, Detail, Close, Flush, Again, Crash,
       LostConnection, Fail, vars, disks
  <2> QED BY <1>1, <2>1
<1> QED BY <1>2, <1>3, <1>4 DEF Next, Run

\* Only an RCS file can be left in two places.
LEMMA SplitStep == IInv /\ [Next]_vars => split' \subseteq RcsFiles
<1> SUFFICES ASSUME IInv, [Next]_vars PROVE split' \subseteq RcsFiles
  OBVIOUS
<1>1. split \subseteq RcsFiles /\ Placed(disk, dirs) /\ Plan
  BY TypePlaced DEF IInv, TypeOK
<1>2. ASSUME NEW p \in Paths, On(Attic(p)) PROVE p \in RcsFiles
  BY <1>1, <1>2, AtticPlace DEF Placed, On
<1>3. CASE RemoveFile \/ UpdateDead \/ CheckoutDead
  <2>1. Cur.path \in Paths
    BY <1>3, CommandQueues, HeadTodo DEF Command
  <2>2. split' = split \/ (On(Attic(Cur.path)) /\ split' = split \cup {Cur.path})
    BY <1>3 DEF RemoveFile, UpdateDead, CheckoutDead, Limited, Deleted, NoFault, history
  <2> QED BY <1>1, <1>2, <2>1, <2>2
<1>4. CASE Add \/ RcsFixup
  <2>1. pc # "detail" /\ cmds # <<>> /\ Cur.path \in Paths
    BY <1>4, CommandQueues, HeadTodo DEF Command
  <2>2. PICK attic \in BOOLEAN :
          /\ AddFile(attic)
          /\ attic => Cur.cmd \in {"a", "x"}
    BY <1>4 DEF Add, RcsFixup
  <2>3. split' = split \/ (On(Place(Cur.path, ~attic)) /\ split' = split \cup {Cur.path})
    BY <2>2 DEF AddFile
  <2>4. attic => Cur.path \in RcsFiles
    BY <2>1, <2>2, CurFacts
  <2>5. ~attic => Place(Cur.path, ~attic) = Attic(Cur.path)
    BY DEF Place
  <2> QED BY <1>1, <1>2, <2>1, <2>2, <2>3, <2>4, <2>5
<1>5. CASE Crash
  BY <1>1, <1>5 DEF Crash, Plan
<1>6. CASE MakeDir \/ RemoveDir \/ SetDirAttrs \/ SetAttrs \/ RecordCvs \/ Checkout
            \/ Diff \/ Rsync \/ RcsEdit \/ RcsEditFails \/ RecordFile \/ Unlink
  BY <1>1, <1>6 DEF MakeDir, RemoveDir, SetDirAttrs, SetAttrs, RecordCvs, Checkout,
     Diff, Rsync, RcsEdit, RcsEditFails, RecordFile, Unlink, Patched, NoFault, history
<1>7. CASE Start \/ RemoveStatus \/ Detail \/ Close \/ Flush \/ Again \/ LostConnection
            \/ UserEdits \/ UNCHANGED vars
  BY <1>1, <1>7 DEF Start, RemoveStatus, Detail, Close, Flush, Again, LostConnection,
     UserEdits, NoFault, history, vars
<1> QED BY <1>3, <1>4, <1>5, <1>6, <1>7 DEF Next, Run, Command

\* The counters and flags.
Flags ==
    /\ cvs \in BOOLEAN /\ clean \in BOOLEAN
    /\ pc \in {"idle", "detail", "apply", "record", "move", "unlink", "flush", "done",
              "aborted"}
    /\ batch \in {"updates", "fixups", "failed"}
    /\ edited \subseteq Files
    /\ limit \in Nat \cup {-1} /\ faults \in 0..MaxFaults

\* They keep their types.
LEMMA FlagsStep == IInv /\ [Next]_vars => Flags'
<1> SUFFICES ASSUME IInv, [Next]_vars PROVE Flags'
  OBVIOUS
<1>1. /\ Flags /\ cvs' = cvs /\ MaxFaults \in Nat
      /\ \A n \in Limits : n \in Nat \cup {-1}
  BY InputKept, UpdateAssumption DEF IInv, TypeOK, Flags
<1>2. CASE RemoveFile \/ UpdateDead \/ CheckoutDead
  <2>1. clean' \in BOOLEAN /\ edited' = edited /\ faults' = faults
    BY <1>1, <1>2 DEF RemoveFile, UpdateDead, CheckoutDead, Limited, Deleted,
       Fail, NoFault, history, Flags
  <2>2. pc' \in {pc, "apply"} /\ batch' \in {batch, "failed"}
    BY <1>2 DEF RemoveFile, UpdateDead, CheckoutDead, Limited, Consume, Fail
  <2>3. limit' = limit \/ (limit # 0 /\ limit' = IF limit > 0 THEN limit - 1 ELSE limit)
    BY <1>2 DEF RemoveFile, UpdateDead, CheckoutDead, Limited, Deleted, Fail
  <2>4. limit' \in Nat \cup {-1}
    BY <1>1, <2>3 DEF Flags
  <2> QED BY <1>1, <2>1, <2>2, <2>4 DEF Flags
<1>3. CASE MakeDir \/ RemoveDir \/ SetDirAttrs \/ SetAttrs \/ RecordCvs
  BY <1>1, <1>3 DEF MakeDir, RemoveDir, SetDirAttrs, SetAttrs, RecordCvs, Consume,
     Fail, NoFault, history, At, Flags
<1>4. CASE Checkout \/ Diff \/ Rsync \/ Add \/ RcsFixup \/ RcsEdit \/ RcsEditFails
            \/ RecordFile \/ Unlink
  <2>1. clean' \in BOOLEAN
    BY <1>1, <1>4 DEF Checkout, Diff, Rsync, Add, RcsFixup, RcsEdit, RcsEditFails,
       RecordFile, Unlink, AddFile, Patched, UpdateFile, NeedFixup, Fail, Flags
  <2>2. pc' \in {"apply", "record", "move", "unlink"}
    <3>1. Command
      BY <1>4 DEF Command
    <3> QED BY <3>1, CommandQueues DEF Staying
  <2>6. batch' \in {batch, "failed"}
    BY <1>4 DEF Checkout, Diff, Rsync, Add, RcsFixup, RcsEdit, RcsEditFails,
       RecordFile, Unlink, AddFile, Patched, UpdateFile, Consume, Fail
  <2>3. edited' = edited /\ limit' = limit
    BY <1>4 DEF Checkout, Diff, Rsync, Add, RcsFixup, RcsEdit, RcsEditFails,
       RecordFile, Unlink, AddFile, Patched, Fail, NoFault, history
  <2>4. faults' = faults \/ Fault
    BY <1>4 DEF Checkout, Diff, Rsync, Add, RcsFixup, RcsEdit, RcsEditFails,
       RecordFile, Unlink, AddFile, Patched, Received, NoFault, history
  <2>5. faults' \in 0..MaxFaults
    BY <1>1, <2>4 DEF Fault, Flags
  <2> QED BY <1>1, <2>1, <2>2, <2>3, <2>5, <2>6 DEF Flags
<1>5. CASE Start
  BY <1>1, <1>5 DEF Start, Flags
<1>6. CASE RemoveStatus \/ Detail \/ Again
  BY <1>1, <1>6 DEF RemoveStatus, Detail, Again, Reset, NoFault, history, Flags
<1>7. CASE Close \/ Flush
  BY <1>1, <1>7 DEF Close, Flush, NextBatch, NoFault, history, Flags
<1>8. CASE Crash \/ LostConnection
  <2>1. clean' \in BOOLEAN /\ edited' = edited
    BY <1>8 DEF Crash, LostConnection, Fail, Reset
  <2>2. pc' \in {"idle", "apply"} /\ batch' \in {"updates", "failed"}
    BY <1>8 DEF Crash, LostConnection, Fail, Reset
  <2>3. limit' \in {limit, -1} /\ Fault
    BY <1>8 DEF Crash, LostConnection, Fail, Reset
  <2>4. faults' \in 0..MaxFaults
    BY <1>1, <2>3 DEF Fault, Flags
  <2> QED BY <1>1, <2>1, <2>2, <2>3, <2>4 DEF Flags
<1>9. CASE UserEdits
  BY <1>1, <1>9 DEF UserEdits, Fault, Flags
<1>10. CASE UNCHANGED vars
  BY <1>1, <1>10 DEF vars, history, Flags
<1> QED BY <1>2, <1>3, <1>4, <1>5, <1>6, <1>7, <1>8, <1>9, <1>10 DEF Next, Run, Command

\* Together.
LEMMA TypeStep == IInv /\ [Next]_vars => TypeOK'
<1> SUFFICES ASSUME IInv, [Next]_vars PROVE TypeOK'
  OBVIOUS
<1>1. Placed(disk', dirs') /\ split' \subseteq RcsFiles /\ Flags' /\ Plan'
  BY PlacedStep, SplitStep, FlagsStep, PlanStep
<1>2. fixups' \in Seq(Files)
  <2>1. Served' \subseteq Files
    BY DEF Served
  <2>2. fixups' \in Seq(Served')
    BY <1>1 DEF Plan
  <2> HIDE DEF Served
  <2> QED BY <2>1, <2>2, SeqMonotonic
<1>3. \A l \in DOMAIN disk' : /\ l \in Files \cup {Attic(p) : p \in RcsFiles}
                              /\ disk'[l] \in Versions \cup {"v1+", "v2+", "local"}
                              /\ Above(l) \subseteq dirs'
  BY <1>1 DEF Placed, Places, Contents
<1> QED BY <1>1, <1>2, <1>3 DEF TypeOK, Flags

-----------------------------------------------------------------------------
(* The beginning *)

\* The status file of an older tree is honest.
LEMMA StatusOfType ==
    ASSUME NEW base \in Trees({"none", "live", "dead"}, {"v1"}), NEW R
    PROVE  StatusOf(base) \in Seq(Honest(R))
<1> DEFINE T == {q \in Files : Has(base, q)}
           D == DirsOf(base)
           e(p) == IF cvs THEN Rec(IF Live(base, p) THEN "V" ELSE "v", p, "", base[p].ver)
                   ELSE IF Live(base, p) THEN Rec("C", p, base[p].ver, base[p].ver)
                   ELSE Rec("c", p, "dead", "")
           R1 == {Rec("D", d, "", "") : d \in D}
           R2 == {Rec("U", d, "", IF d \in SentDirs(base) THEN "dir" ELSE Bogus) : d \in D}
           R3 == {e(p) : p \in T}
           S == R1 \cup R2 \cup R3
           n == Cardinality(S)
           Rank(x) == Cardinality({y \in S : RecLess(y, x)})
           s(i) == CHOOSE x \in S : Rank(x) = i - 1 \/ \A y \in S : Rank(y) # i - 1
<1>1. T \in SUBSET Files /\ T \subseteq Paths
  BY FilePaths
<1>2. IsFiniteSet(T) /\ IsFiniteSet(D) /\ D \subseteq Paths
  BY <1>1, DirsFinite DEF DirsOf
<1>3. StatusOf(base) = [i \in 1..n |-> s(i)]
  BY DEF StatusOf, Sorted
<1> HIDE DEF Rank, D, T
<1>4. IsFiniteSet(S)
  <2> DEFINE f1 == [d \in D |-> Rec("D", d, "", "")]
             f2 == [d \in D |-> Rec("U", d, "", IF d \in SentDirs(base) THEN "dir" ELSE Bogus)]
             f3 == [p \in T |-> e(p)]
  <2>1. R1 = {f1[d] : d \in D} /\ R2 = {f2[d] : d \in D} /\ R3 = {f3[p] : p \in T}
    OBVIOUS
  <2> HIDE DEF R1, R2, R3, f1, f2, f3
  <2>2. IsFiniteSet(R1) /\ IsFiniteSet(R2) /\ IsFiniteSet(R3)
    BY <1>2, <2>1, ImageFinite
  <2> QED BY <2>2, FS_Union
<1>5. S \subseteq Honest(R)
  <2>1. "" \in Words /\ "dir" \in Words /\ Bogus \in Words /\ "dead" \in Words
        /\ "v1" \in Versions /\ "v1" \in Words
    BY WordTypes DEF Words, Versions
  <2>2. R1 \subseteq Honest(R)
    BY <1>2, <2>1, PlainHonest
  <2>3. R2 \subseteq Honest(R)
    <3>1. \A d \in D, a \in Words : Rec("U", d, "", a) \in Honest(R)
      BY <1>2, <2>1, PlainHonest
    <3> QED BY <2>1, <3>1
  <2>4. R3 \subseteq Honest(R)
    <3>1. \A p \in T : p \in Paths /\ base[p].ver = "v1"
      BY <1>1, TreeTypes
    <3>2. ASSUME NEW p \in T PROVE e(p) \in Honest(R)
      <4>1. /\ Rec("V", p, "", base[p].ver) \in Honest(R)
            /\ Rec("v", p, "", base[p].ver) \in Honest(R)
            /\ Rec("c", p, "dead", "") \in Honest(R)
        BY <2>1, <3>1, PlainHonest
      <4>2. Rec("C", p, base[p].ver, base[p].ver) \in Honest(R)
        BY <2>1, <3>1, FreshHonest
      <4> QED BY <4>1, <4>2
    <3> HIDE DEF e
    <3> QED BY <3>2
  <2> HIDE DEF R1, R2, R3
  <2> QED BY <2>2, <2>3, <2>4
<1> HIDE DEF S
<1>6. n \in Nat /\ (n = 0 <=> S = {})
  BY <1>4, FS_CardinalityType, FS_EmptySet
<1>7. ASSUME NEW i \in 1..n PROVE s(i) \in S
  <2>1. S # {}
    BY <1>6
  <2>2. \E x \in S : Rank(x) = i - 1 \/ \A y \in S : Rank(y) # i - 1
    BY <2>1
  <2> QED BY <2>2
<1> HIDE DEF s
<1>8. StatusOf(base) \in [1..n -> Honest(R)]
  BY <1>3, <1>5, <1>7
<1> QED BY <1>6, <1>8, FunctionSeq

\* The invariant holds initially.
LEMMA InitInv == Init => IInv
<1> SUFFICES ASSUME Init PROVE IInv
  OBVIOUS
<1>1. PICK base \in Trees({"none", "live", "dead"}, {"v1"}) :
        /\ disk = [l \in {Place(p, ~Live(base, p)) : p \in {q \in Files : Stored(base, q)}}
                     |-> "v1"]
        /\ stat \in {[scan |-> 0, recs |-> StatusOf(base), whole |-> TRUE], NoFile}
  BY DEF Init
<1>2. /\ srv \in Trees({"none", "live", "dead"}, Versions)
      /\ cvs \in BOOLEAN
      /\ dirs = UNION {Above(l) : l \in DOMAIN disk}
      /\ pc = "idle" /\ batch = "updates" /\ limit = -1 /\ clean = TRUE
      /\ st = Open(NoFile, -1) /\ cmds = <<>> /\ fixups = <<>>
      /\ edited = {} /\ split = {} /\ raced = {} /\ faults = 0
  BY DEF Init
<1>3. \A l \in DOMAIN disk : /\ l \in Files \cup {Attic(p) : p \in RcsFiles}
                             /\ disk[l] \in Versions \cup {"v1+", "v2+", "local"}
                             /\ Above(l) \subseteq dirs
  <2> SUFFICES ASSUME NEW l \in DOMAIN disk
               PROVE  /\ l \in Files \cup {Attic(p) : p \in RcsFiles}
                      /\ disk[l] \in Versions \cup {"v1+", "v2+", "local"}
                      /\ Above(l) \subseteq dirs
    OBVIOUS
  <2>1. PICK p \in Files : Stored(base, p) /\ l = Place(p, ~Live(base, p))
    BY <1>1
  <2>2. ~Live(base, p) => p \in RcsFiles
    BY <1>1, <2>1, TreeTypes DEF Stored, Has, Live
  <2>3. l \in Files \cup {Attic(q) : q \in RcsFiles}
    BY <2>1, <2>2 DEF Place
  <2>4. disk[l] = "v1" /\ Above(l) \subseteq dirs
    BY <1>1, <1>2
  <2> QED BY <2>3, <2>4 DEF Versions
<1>4. TypeOK
  <2>1. <<>> \in Seq(Files) /\ 0 \in 0..MaxFaults
    BY UpdateAssumption
  <2> QED BY <1>2, <1>3, <2>1 DEF TypeOK
<1>5. Book
  <2>1. StatusOf(base) \in Seq(Honest(raced))
    BY <1>1, StatusOfType
  <2>2. [scan |-> 0, recs |-> StatusOf(base), whole |-> TRUE]
          \in [scan : Int, recs : Seq(Honest(raced)), whole : BOOLEAN]
    BY <2>1
  <2> QED BY <1>1, <1>2, <2>2, NoFileType DEF Book
<1>6. Plan
  <2>1. <<>> \in Seq(Served) /\ <<>> \in Seq(Todo)
    OBVIOUS
  <2> QED BY <1>2, <2>1 DEF Plan
<1>7. Told /\ Installed
  BY <1>2 DEF Told, Installed
<1> QED BY <1>4, <1>5, <1>6, <1>7 DEF IInv

-----------------------------------------------------------------------------
(* Theorems *)

\* The invariant is inductive.
LEMMA Inductive == Spec => []IInv
<1>1. IInv /\ [Next]_vars => IInv'
  BY TypeStep, BookStep, PlanStep, ToldStep, InstalledStep DEF IInv
<1> QED BY InitInv, <1>1, PTL DEF Spec

\* The places of the files, their directories, the queues and the counters have
\* their types, whatever the order of commands, faults and edits.
THEOREM Types == Spec => []TypeOK
<1>1. IInv => TypeOK
  BY DEF IInv
<1> QED BY Inductive, <1>1, PTL

\* The status file never says of a checked-out file with the recorded attributes
\* that it has another revision than it has, unless a user changed it just before
\* the attributes that are recorded were read: through all runs, faults, crashes and edits.
THEOREM Honesty == Spec => []StatusIsHonest
<1>1. IInv => StatusIsHonest
  <2> SUFFICES ASSUME IInv, NEW r \in ToSet(stat.recs),
                      r.type = "C", On(r.path), disk[r.path] = r.attr
               PROVE  Ver(disk[r.path]) = r.ver \/ r.path \in raced
    BY DEF StatusIsHonest
  <2>1. stat.recs \in Seq(Honest(raced))
    BY DEF IInv, Book
  <2>2. r \in Honest(raced)
    BY <2>1 DEF ToSet
  <2> QED BY <2>2 DEF Honest
<1> QED BY Inductive, <1>1, PTL
=====
