------------------------------ MODULE MuxProofs ------------------------------
(***************************************************************************)
(* The proofs about module Mux.  First what they need to know of its data: *)
(* sequence numbers that wrap around, and the line of packets between two  *)
(* ends, to which one thread appends and from which another takes the      *)
(* first.  Then what each end knows by itself (Local): the types of the    *)
(* variables depend on it, because a difference of stream positions has to *)
(* be a natural number.  Then what the two ends of a channel know of each  *)
(* other, and of the packets between them (Cross).  The safety properties  *)
(* follow from the two, those about threads that sleep from two more       *)
(* invariants, Sleeps and Scans.                                           *)
(***************************************************************************)
EXTENDS Mux, SequenceTheorems, TLAPS

SeqNums == 0..(SeqMod - 1)

-----------------------------------------------------------------------------
(* Sequence numbers *)

\* The sum and the difference of two sequence numbers are sequence numbers.
LEMMA SeqNumType ==
    ASSUME NEW a \in SeqNums, NEW b \in SeqNums
    PROVE  Plus(a, b) \in SeqNums /\ Minus(a, b) \in SeqNums
BY MuxAssumption DEF SeqNums, Plus, Minus

\* A distance can be added up if it stays below the modulus.
LEMMA MinusPlusLeft ==
    ASSUME NEW a \in SeqNums, NEW b \in SeqNums, NEW n \in Nat,
           Minus(a, b) + n < SeqMod
    PROVE  Minus(Plus(a, n), b) = Minus(a, b) + n
BY MuxAssumption DEF SeqNums, Plus, Minus

\* The distance before an addition, when nothing wraps past it.
LEMMA MinusPlusBack ==
    ASSUME NEW a \in SeqNums, NEW b \in SeqNums, NEW n \in Nat, NEW x \in Nat,
           x + n < SeqMod, Minus(Plus(a, n), b) = x + n
    PROVE  Minus(a, b) = x
BY MuxAssumption DEF SeqNums, Plus, Minus

\* Going ahead by n takes n from the distance to what lies in front.
LEMMA MinusPlusRight ==
    ASSUME NEW a \in SeqNums, NEW b \in SeqNums, NEW n \in Nat,
           n <= Minus(a, b)
    PROVE  Minus(a, Plus(b, n)) = Minus(a, b) - n
BY MuxAssumption DEF SeqNums, Plus, Minus

\* The distance between two numbers in front of a third.
LEMMA MinusBetween ==
    ASSUME NEW a \in SeqNums, NEW b \in SeqNums, NEW c \in SeqNums,
           Minus(b, c) <= Minus(a, c)
    PROVE  Minus(a, b) = Minus(a, c) - Minus(b, c)
BY MuxAssumption DEF SeqNums, Minus

\* Two numbers are equal when they are at distance 0, or at the same distance
\* from a third.
LEMMA MinusEqual ==
    ASSUME NEW a \in SeqNums, NEW b \in SeqNums, NEW c \in SeqNums
    PROVE  /\ Minus(a, b) = 0 <=> a = b
           /\ Minus(a, c) = Minus(b, c) <=> a = b
BY MuxAssumption DEF SeqNums, Minus

\* The window offered is RBSize ahead of what has been read.
LEMMA WindowDistance ==
    ASSUME NEW a \in SeqNums
    PROVE  /\ Plus(a, RBSize) \in SeqNums /\ Minus(Plus(a, RBSize), a) = RBSize
           /\ Plus(a, 0) = a
BY MuxAssumption DEF SeqNums, Plus, Minus

-----------------------------------------------------------------------------
(* Packets in a line *)

\* A packet of kind K for channel c at place i of the line q.
At(q, K, c, i) == i \in 1..Len(q) /\ q[i].type = K /\ q[i].id = c

\* Appending adds one packet at the end ...
LEMMA AtAppend ==
    ASSUME NEW q \in Seq(Packets), NEW p \in Packets
    PROVE  /\ Append(q, p) \in Seq(Packets)
           /\ Len(Append(q, p)) = Len(q) + 1 /\ Len(q) \in Nat
           /\ \A i \in 1..Len(q) : Append(q, p)[i] = q[i]
           /\ Append(q, p)[Len(q) + 1] = p
           /\ \A K, c, i : At(Append(q, p), K, c, i)
                <=> \/ At(q, K, c, i)
                    \/ (i = Len(q) + 1 /\ p.type = K /\ p.id = c)
<1>1. /\ Append(q, p) \in Seq(Packets)
      /\ Len(Append(q, p)) = Len(q) + 1 /\ Len(q) \in Nat
      /\ \A i \in 1..Len(q) : Append(q, p)[i] = q[i]
      /\ Append(q, p)[Len(q) + 1] = p
  BY AppendProperties
<1> QED BY <1>1 DEF At

\* ... and taking the first away moves the others up.
LEMMA AtTail ==
    ASSUME NEW q \in Seq(Packets), q # <<>>
    PROVE  /\ Tail(q) \in Seq(Packets)
           /\ Len(Tail(q)) = Len(q) - 1 /\ Len(q) \in Nat \ {0}
           /\ Head(q) = q[1] /\ q[1] \in Packets
           /\ \A i \in 1..(Len(q) - 1) : Tail(q)[i] = q[i + 1]
           /\ \A K, c : \A i \in Nat :
                At(Tail(q), K, c, i) <=> i # 0 /\ At(q, K, c, i + 1)
<1>1. /\ Tail(q) \in Seq(Packets)
      /\ Len(Tail(q)) = Len(q) - 1 /\ Len(q) \in Nat \ {0}
      /\ \A i \in 1..(Len(q) - 1) : Tail(q)[i] = q[i + 1]
  BY HeadTailProperties, EmptySeq
<1>2. Head(q) = q[1] /\ q[1] \in Packets
  BY <1>1, ElementOfSeq
<1> QED BY <1>1, <1>2 DEF At

-----------------------------------------------------------------------------
(* Data packets *)

EndOf(q, a, i) == IF i = 0 THEN a ELSE q[i].from + q[i].len
StartOf(q, b, j) == IF j = Len(q) + 1 THEN b ELSE q[j].from

\* What Chained says, that no segment is too long, and that the stretches of
\* the stream the packets hold do not overlap.
Stream(q, c, a, b) ==
    /\ \A i \in 1..Len(q) : At(q, "DATA", c, i) => q[i].len \in 1..MSS
    /\ \A i \in 0..Len(q), j \in 1..(Len(q) + 1) :
         /\ i = 0 \/ At(q, "DATA", c, i)
         /\ j = Len(q) + 1 \/ At(q, "DATA", c, j)
         /\ i < j
         => /\ EndOf(q, a, i) <= StartOf(q, b, j)
            /\ (\A m \in 1..Len(q) : At(q, "DATA", c, m) => m <= i \/ j <= m)
                 => EndOf(q, a, i) = StartOf(q, b, j)

\* The first byte in the line is not behind the last.
LEMMA StreamBounds ==
    ASSUME NEW q \in Seq(Packets), NEW c \in Chans, NEW a \in Nat, NEW b \in Nat,
           Stream(q, c, a, b)
    PROVE  /\ a <= b
           /\ \A i \in 1..Len(q) : At(q, "DATA", c, i) =>
                a <= q[i].from /\ q[i].from + q[i].len <= b /\ q[i].len \in 1..MSS
           /\ (\A i \in 1..Len(q) : ~At(q, "DATA", c, i)) => a = b
<1>1. Len(q) \in Nat
  OBVIOUS
<1>2. EndOf(q, a, 0) = a /\ StartOf(q, b, Len(q) + 1) = b
  BY DEF EndOf, StartOf
<1>3. 0 \in 0..Len(q) /\ Len(q) + 1 \in 1..(Len(q) + 1) /\ 0 < Len(q) + 1
  BY <1>1
<1>4. a <= b /\ ((\A i \in 1..Len(q) : ~At(q, "DATA", c, i)) => a = b)
  BY <1>2, <1>3 DEF Stream
<1>5. ASSUME NEW i \in 1..Len(q), At(q, "DATA", c, i)
      PROVE  a <= q[i].from /\ q[i].from + q[i].len <= b /\ q[i].len \in 1..MSS
  <2>1. EndOf(q, a, i) = q[i].from + q[i].len /\ StartOf(q, b, i) = q[i].from
    BY <1>1 DEF EndOf, StartOf
  <2>2. /\ i \in 0..Len(q) /\ i \in 1..(Len(q) + 1)
        /\ 0 < i /\ i < Len(q) + 1
    BY <1>1
  <2>3. a <= q[i].from
    BY <1>2, <1>3, <1>5, <2>1, <2>2 DEF Stream
  <2>4. q[i].from + q[i].len <= b
    BY <1>2, <1>3, <1>5, <2>1, <2>2 DEF Stream
  <2> QED BY <1>5, <2>3, <2>4 DEF Stream
<1> QED BY <1>4, <1>5

\* A packet that continues the stream is added at the end ...
LEMMA StreamAppendData ==
    ASSUME NEW q \in Seq(Packets), NEW c \in Chans, NEW a \in Nat, NEW b \in Nat,
           Stream(q, c, a, b), NEW p \in Packets,
           p.type = "DATA", p.id = c, p.from = b, p.len \in 1..MSS
    PROVE  Stream(Append(q, p), c, a, b + p.len)
<1> DEFINE s == Append(q, p)
           n == Len(q)
<1>1. /\ Len(s) = n + 1 /\ n \in Nat
      /\ \A i \in 1..n : s[i] = q[i]
      /\ s[n + 1] = p
      /\ \A i \in 1..(n + 1) : At(s, "DATA", c, i) <=> At(q, "DATA", c, i) \/ i = n + 1
  <2>1. \A i \in 1..(n + 1) : At(s, "DATA", c, i) <=> At(q, "DATA", c, i) \/ i = n + 1
    BY AtAppend
  <2> QED BY <2>1, AtAppend
<1> HIDE DEF s
<1>2. \A i \in 1..Len(s) : At(s, "DATA", c, i) => s[i].len \in 1..MSS
  BY <1>1 DEF Stream
<1>3. ASSUME NEW i \in 0..Len(s), NEW j \in 1..(Len(s) + 1),
             i = 0 \/ At(s, "DATA", c, i),
             j = Len(s) + 1 \/ At(s, "DATA", c, j), i < j
      PROVE  /\ EndOf(s, a, i) <= StartOf(s, b + p.len, j)
             /\ (\A m \in 1..Len(s) : At(s, "DATA", c, m) => m <= i \/ j <= m)
                  => EndOf(s, a, i) = StartOf(s, b + p.len, j)
  <2>1. CASE i = n + 1
    <3>1. j = n + 2 /\ s[i] = p
      BY <1>1, <1>3, <2>1
    <3> QED BY <1>1, <2>1, <3>1 DEF EndOf, StartOf, Packets
  <2>2. CASE i # n + 1
    <3>1. /\ i \in 0..n /\ (i = 0 \/ At(q, "DATA", c, i))
          /\ EndOf(s, a, i) = EndOf(q, a, i)
      <4>1. i \in 0..n
        BY <1>1, <2>2
      <4>2. i = 0 \/ At(q, "DATA", c, i)
        BY <1>1, <1>3, <2>2, <4>1
      <4>3. EndOf(s, a, i) = EndOf(q, a, i)
        BY <1>1, <4>1 DEF EndOf
      <4> QED BY <4>1, <4>2, <4>3
    <3>2. CASE j \in 1..n
      <4>1. At(q, "DATA", c, j) /\ j \in 1..(n + 1)
        BY <1>1, <1>3, <3>2
      <4>2. StartOf(s, b + p.len, j) = StartOf(q, b, j)
        BY <1>1, <3>2 DEF StartOf
      <4>3. (\A m \in 1..Len(s) : At(s, "DATA", c, m) => m <= i \/ j <= m)
              => (\A m \in 1..n : At(q, "DATA", c, m) => m <= i \/ j <= m)
        BY <1>1
      <4> QED BY <3>1, <4>1, <4>2, <4>3, <1>3 DEF Stream
    <3>3. CASE j \notin 1..n
      <4>1. j \in {n + 1, n + 2}
        BY <1>1, <3>3
      <4>2. EndOf(q, a, i) <= b
        <5>1. n + 1 \in 1..(n + 1) /\ i < n + 1 /\ StartOf(q, b, n + 1) = b
          BY <1>1, <3>1 DEF StartOf
        <5> QED BY <3>1, <5>1 DEF Stream
      <4>3. EndOf(q, a, i) \in Nat
        <5>1. i # 0 => q[i] \in Packets
          BY <1>1, <3>1, ElementOfSeq
        <5>2. i # 0 => q[i].from \in Nat /\ q[i].len \in Nat
          BY <5>1 DEF Packets
        <5> QED BY <5>2 DEF EndOf
      <4>4. CASE j = n + 1
        <5>1. StartOf(s, b + p.len, j) = b
          BY <1>1, <4>4 DEF StartOf
        <5>2. ASSUME \A m \in 1..Len(s) : At(s, "DATA", c, m) => m <= i \/ j <= m
              PROVE  EndOf(q, a, i) = b
          <6>1. n + 1 \in 1..(n + 1) /\ i < n + 1 /\ StartOf(q, b, n + 1) = b
            BY <1>1, <3>1 DEF StartOf
          <6>2. \A m \in 1..n : At(q, "DATA", c, m) => m <= i \/ n + 1 <= m
            BY <1>1, <4>4, <5>2
          <6> QED BY <3>1, <6>1, <6>2 DEF Stream
        <5> QED BY <3>1, <4>2, <5>1, <5>2
      <4>5. CASE j = n + 2
        <5>1. StartOf(s, b + p.len, j) = b + p.len
          BY <1>1, <4>5 DEF StartOf
        <5>2. ~(\A m \in 1..Len(s) : At(s, "DATA", c, m) => m <= i \/ j <= m)
          BY <1>1, <3>1, <4>5
        <5>3. p.len \in Nat /\ p.len > 0
          BY MuxAssumption
        <5> QED BY <3>1, <4>2, <4>3, <5>1, <5>2, <5>3
      <4> QED BY <4>1, <4>4, <4>5
    <3> QED BY <3>2, <3>3
  <2> QED BY <2>1, <2>2
<1>4. Stream(s, c, a, b + p.len)
  BY <1>2, <1>3 DEF Stream
<1> QED BY <1>4 DEF s

\* ... another packet changes nothing.
LEMMA StreamAppendOther ==
    ASSUME NEW q \in Seq(Packets), NEW c \in Chans, NEW a \in Nat, NEW b \in Nat,
           Stream(q, c, a, b), NEW p \in Packets,
           p.type # "DATA" \/ p.id # c
    PROVE  Stream(Append(q, p), c, a, b)
<1> DEFINE s == Append(q, p)
           n == Len(q)
<1>1. /\ Len(s) = n + 1 /\ n \in Nat
      /\ \A i \in 1..n : s[i] = q[i]
      /\ \A i : At(s, "DATA", c, i) <=> At(q, "DATA", c, i)
  <2>1. \A i : At(s, "DATA", c, i) <=> At(q, "DATA", c, i)
    BY AtAppend
  <2> QED BY <2>1, AtAppend
<1> HIDE DEF s
<1>2. \A i : At(q, "DATA", c, i) => i \in 1..n
  BY DEF At
<1>3. \A i \in 1..Len(s) : At(s, "DATA", c, i) => s[i].len \in 1..MSS
  BY <1>1, <1>2 DEF Stream
<1>4. ASSUME NEW i \in 0..Len(s), NEW j \in 1..(Len(s) + 1),
             i = 0 \/ At(s, "DATA", c, i),
             j = Len(s) + 1 \/ At(s, "DATA", c, j), i < j
      PROVE  /\ EndOf(s, a, i) <= StartOf(s, b, j)
             /\ (\A m \in 1..Len(s) : At(s, "DATA", c, m) => m <= i \/ j <= m)
                  => EndOf(s, a, i) = StartOf(s, b, j)
  <2>1. /\ i \in 0..n /\ (i = 0 \/ At(q, "DATA", c, i))
        /\ EndOf(s, a, i) = EndOf(q, a, i)
    <3>1. i \in 0..n /\ (i = 0 \/ At(q, "DATA", c, i))
      BY <1>1, <1>2, <1>4
    <3>2. EndOf(s, a, i) = EndOf(q, a, i)
      BY <1>1, <3>1 DEF EndOf
    <3> QED BY <3>1, <3>2
  <2> DEFINE k == IF j = n + 2 THEN n + 1 ELSE j
  <2>2. /\ k \in 1..(n + 1) /\ (k = n + 1 \/ At(q, "DATA", c, k)) /\ i < k
        /\ StartOf(s, b, j) = StartOf(q, b, k)
    <3>1. CASE j = n + 2
      BY <1>1, <2>1, <3>1 DEF StartOf
    <3>2. CASE j # n + 2
      <4>1. At(q, "DATA", c, j) /\ j \in 1..n
        BY <1>1, <1>2, <1>4, <3>2
      <4> QED BY <1>1, <1>4, <3>2, <4>1 DEF StartOf
    <3> QED BY <3>1, <3>2
  <2>3. (\A m \in 1..Len(s) : At(s, "DATA", c, m) => m <= i \/ j <= m)
          => (\A m \in 1..n : At(q, "DATA", c, m) => m <= i \/ k <= m)
    BY <1>1
  <2> HIDE DEF k
  <2> QED BY <2>1, <2>2, <2>3 DEF Stream
<1>5. Stream(s, c, a, b)
  BY <1>3, <1>4 DEF Stream
<1> QED BY <1>5 DEF s

\* The first packet is taken away by the receiver: the stream begins behind it
\* if it held some of it ...
LEMMA StreamTail ==
    ASSUME NEW q \in Seq(Packets), q # <<>>, NEW c \in Chans,
           NEW a \in Nat, NEW b \in Nat, Stream(q, c, a, b), NEW d,
           d = IF At(q, "DATA", c, 1) THEN a + q[1].len ELSE a
    PROVE  Stream(Tail(q), c, d, b) /\ (At(q, "DATA", c, 1) => q[1].from = a)
<1> DEFINE s == Tail(q)
           n == Len(q)
<1>1. /\ Len(s) = n - 1 /\ n \in Nat \ {0}
      /\ \A i \in 1..(n - 1) : s[i] = q[i + 1]
      /\ \A i \in Nat : At(s, "DATA", c, i) <=> i # 0 /\ At(q, "DATA", c, i + 1)
  <2>1. \A i \in Nat : At(s, "DATA", c, i) <=> i # 0 /\ At(q, "DATA", c, i + 1)
    BY AtTail
  <2> QED BY <2>1, AtTail
<1> HIDE DEF s
<1>2. At(q, "DATA", c, 1) => q[1].from = a
  <2> SUFFICES ASSUME At(q, "DATA", c, 1) PROVE q[1].from = a
    OBVIOUS
  <2>1. /\ 0 \in 0..n /\ 1 \in 1..(n + 1) /\ 0 < 1
        /\ EndOf(q, a, 0) = a /\ StartOf(q, b, 1) = q[1].from
        /\ \A m \in 1..n : 1 <= m
    BY <1>1 DEF EndOf, StartOf
  <2> QED BY <2>1 DEF Stream
<1>3. \A i \in 1..Len(s) : At(s, "DATA", c, i) => s[i].len \in 1..MSS
  <2> SUFFICES ASSUME NEW i \in 1..Len(s), At(s, "DATA", c, i)
               PROVE  s[i].len \in 1..MSS
    OBVIOUS
  <2>1. i \in Nat /\ i + 1 \in 1..n /\ At(q, "DATA", c, i + 1) /\ s[i] = q[i + 1]
    BY <1>1
  <2> QED BY <2>1 DEF Stream
<1>4. ASSUME NEW i \in 0..Len(s), NEW j \in 1..(Len(s) + 1),
             i = 0 \/ At(s, "DATA", c, i),
             j = Len(s) + 1 \/ At(s, "DATA", c, j), i < j
      PROVE  /\ EndOf(s, d, i) <= StartOf(s, b, j)
             /\ (\A m \in 1..Len(s) : At(s, "DATA", c, m) => m <= i \/ j <= m)
                  => EndOf(s, d, i) = StartOf(s, b, j)
  <2>1. /\ j + 1 \in 1..(n + 1) /\ (j + 1 = n + 1 \/ At(q, "DATA", c, j + 1))
        /\ StartOf(s, b, j) = StartOf(q, b, j + 1)
    <3>1. j + 1 \in 1..(n + 1) /\ (j + 1 = n + 1 \/ At(q, "DATA", c, j + 1))
      BY <1>1, <1>4
    <3>2. StartOf(s, b, j) = StartOf(q, b, j + 1)
      <4>1. CASE j = Len(s) + 1
        BY <1>1, <4>1 DEF StartOf
      <4>2. CASE j # Len(s) + 1
        <5>1. j \in 1..(n - 1)
          BY <1>1, <4>2
        <5> QED BY SMTT(30), <1>1, <4>2, <5>1 DEF StartOf
      <4> QED BY <4>1, <4>2
    <3> QED BY <3>1, <3>2
  <2> DEFINE k == IF i = 0 THEN (IF At(q, "DATA", c, 1) THEN 1 ELSE 0) ELSE i + 1
  <2>2. /\ k \in 0..n /\ (k = 0 \/ At(q, "DATA", c, k)) /\ k < j + 1
        /\ EndOf(s, d, i) = EndOf(q, a, k)
    <3>1. CASE i = 0
      BY <1>1, <1>2, <3>1 DEF EndOf
    <3>2. CASE i # 0
      <4>1. At(q, "DATA", c, i + 1) /\ i + 1 \in 1..n /\ i \in 1..(n - 1)
        BY <1>1, <1>4, <3>2
      <4>2. s[i] = q[i + 1]
        BY <1>1, <4>1
      <4> QED BY <1>1, <1>4, <3>2, <4>1, <4>2 DEF EndOf
    <3> QED BY <3>1, <3>2
  <2>3. ASSUME \A m \in 1..Len(s) : At(s, "DATA", c, m) => m <= i \/ j <= m,
               NEW m \in 1..n, At(q, "DATA", c, m)
        PROVE  m <= k \/ j + 1 <= m
    <3>1. CASE m = 1
      BY <2>3, <3>1
    <3>2. CASE m # 1
      <4>1. /\ m - 1 \in 1..Len(s) /\ m - 1 \in Nat /\ m - 1 # 0
            /\ (m - 1) + 1 = m
        BY <1>1, <3>2
      <4>2. At(s, "DATA", c, m - 1)
        BY <1>1, <2>3, <4>1
      <4>3. m - 1 <= i \/ j <= m - 1
        BY <2>3, <4>1, <4>2
      <4> QED BY <1>1, <3>2, <4>1, <4>3
    <3> QED BY <3>1, <3>2
  <2> HIDE DEF k
  <2> QED BY <2>1, <2>2, <2>3 DEF Stream
<1>5. Stream(s, c, d, b)
  BY <1>3, <1>4 DEF Stream
<1> QED BY <1>2, <1>5 DEF s

\* An empty line holds nothing of the stream.
LEMMA StreamEmpty ==
    ASSUME NEW c \in Chans, NEW a \in Nat
    PROVE  Stream(<<>>, c, a, a)
BY DEF Stream, EndOf, StartOf, At

\* Without the last packet, the stream ends where that one begins.
LEMMA StreamFront ==
    ASSUME NEW q \in Seq(Packets), NEW p \in Packets, NEW c \in Chans,
           NEW a \in Nat, NEW b \in Nat, Stream(Append(q, p), c, a, b), NEW d,
           d = IF p.type = "DATA" /\ p.id = c THEN p.from ELSE b
    PROVE  Stream(q, c, a, d)
<1> DEFINE s == Append(q, p)
           n == Len(q)
           mine == p.type = "DATA" /\ p.id = c
<1>1. /\ Len(s) = n + 1 /\ n \in Nat
      /\ \A i \in 1..n : s[i] = q[i]
      /\ s[n + 1] = p
      /\ \A i \in 1..n : At(s, "DATA", c, i) <=> At(q, "DATA", c, i)
      /\ At(s, "DATA", c, n + 1) <=> mine
  <2>1. \A i : At(s, "DATA", c, i) <=> At(q, "DATA", c, i) \/ (i = n + 1 /\ mine)
    BY AtAppend
  <2>2. ~At(q, "DATA", c, n + 1)
    BY DEF At
  <2> QED BY <2>1, <2>2, AtAppend
<1> HIDE DEF s, mine
<1>2. d = IF mine THEN p.from ELSE b
  BY DEF mine
<1>3. \A i \in 1..Len(q) : At(q, "DATA", c, i) => q[i].len \in 1..MSS
  BY <1>1 DEF Stream, s
<1>4. ASSUME NEW i \in 0..n, NEW j \in 1..(n + 1),
             i = 0 \/ At(q, "DATA", c, i),
             j = n + 1 \/ At(q, "DATA", c, j), i < j
      PROVE  /\ EndOf(q, a, i) <= StartOf(q, d, j)
             /\ (\A m \in 1..n : At(q, "DATA", c, m) => m <= i \/ j <= m)
                  => EndOf(q, a, i) = StartOf(q, d, j)
  <2>1. /\ i \in 0..Len(s) /\ (i = 0 \/ At(s, "DATA", c, i))
        /\ EndOf(s, a, i) = EndOf(q, a, i)
    BY <1>1, <1>4 DEF EndOf
  <2> DEFINE k == IF j = n + 1 /\ ~mine THEN n + 2 ELSE j
  <2>2. /\ k \in 1..(Len(s) + 1) /\ (k = Len(s) + 1 \/ At(s, "DATA", c, k))
        /\ i < k /\ j <= k
        /\ StartOf(s, b, k) = StartOf(q, d, j)
    <3>1. CASE j = n + 1
      BY <1>1, <1>2, <3>1 DEF StartOf
    <3>2. CASE j # n + 1
      <4>1. j \in 1..n /\ At(q, "DATA", c, j)
        BY <1>1, <1>4, <3>2
      <4> QED BY <1>1, <1>4, <3>2, <4>1 DEF StartOf
    <3> QED BY <3>1, <3>2
  <2>3. ASSUME \A m \in 1..n : At(q, "DATA", c, m) => m <= i \/ j <= m,
               NEW m \in 1..Len(s), At(s, "DATA", c, m)
        PROVE  m <= i \/ k <= m
    <3>1. CASE m = n + 1
      BY <1>1, <2>3, <3>1
    <3>2. CASE m # n + 1
      <4>1. m \in 1..n /\ At(q, "DATA", c, m)
        BY <1>1, <2>3, <3>2
      <4> QED BY <1>1, <2>3, <4>1
    <3> QED BY <3>1, <3>2
  <2> HIDE DEF k
  <2>4. Stream(s, c, a, b)
    BY DEF s
  <2> QED BY <2>1, <2>2, <2>3, <2>4 DEF Stream
<1> QED BY <1>3, <1>4 DEF Stream

\* Stream implies the property Mux states.
LEMMA StreamIsChained ==
    ASSUME NEW q \in Seq(Packets), NEW c \in Chans, NEW a \in Nat, NEW b \in Nat,
           Stream(q, c, a, b)
    PROVE  Chained(q, c, a, b)
<1> DEFINE mine == {i \in DOMAIN q : q[i].type = "DATA" /\ q[i].id = c}
<1>1. DOMAIN q = 1..Len(q) /\ Len(q) \in Nat
  OBVIOUS
<1>2. \A i : i \in mine <=> At(q, "DATA", c, i)
  BY <1>1 DEF At
<1>3. \A i \in mine : i \in 1..Len(q)
  BY <1>1
<1> HIDE DEF mine
<1>4. \A i \in mine : q[i].len > 0
  <2> SUFFICES ASSUME NEW i \in mine PROVE q[i].len > 0
    OBVIOUS
  <2>1. q[i].len \in 1..MSS
    BY <1>2, <1>3 DEF Stream
  <2> QED BY <2>1, MuxAssumption
<1>5. ASSUME NEW i \in mine \cup {0}, NEW j \in mine \cup {Len(q) + 1}, i < j,
             \A m \in mine : m <= i \/ j <= m
      PROVE  EndOf(q, a, i) = StartOf(q, b, j)
  <2>1. /\ i \in 0..Len(q) /\ (i = 0 \/ At(q, "DATA", c, i))
        /\ j \in 1..(Len(q) + 1) /\ (j = Len(q) + 1 \/ At(q, "DATA", c, j))
    BY <1>1, <1>2, <1>3
  <2>2. \A m \in 1..Len(q) : At(q, "DATA", c, m) => m <= i \/ j <= m
    BY <1>2, <1>5
  <2> QED BY <1>5, <2>1, <2>2 DEF Stream
<1> QED BY <1>4, <1>5 DEF Chained, EndOf, StartOf, mine

-----------------------------------------------------------------------------
(* Packets that offer a window *)

\* A packet for channel c that carries a window.
Offer(q, c, i) ==
    i \in 1..Len(q) /\ q[i].type \in {"CONNECT", "ACCEPT", "WINDOW"} /\ q[i].id = c

\* The windows offered for channel c are at least lo and at most RBSize ahead
\* of what the reader has taken out, and none takes back an earlier one.
Offers(q, c, base, lo) ==
    /\ \A i \in 1..Len(q) : Offer(q, c, i) =>
         lo <= Minus(q[i].win, base) /\ Minus(q[i].win, base) <= RBSize
    /\ \A i, j \in 1..Len(q) : Offer(q, c, i) /\ Offer(q, c, j) /\ i < j =>
         Minus(q[i].win, base) <= Minus(q[j].win, base)

\* The newest offer is the largest.
LEMMA OffersAppend ==
    ASSUME NEW q \in Seq(Packets), NEW p \in Packets, NEW c \in Chans,
           NEW base \in SeqNums, NEW lo \in 0..RBSize, Offers(q, c, base, lo),
           p.type \in {"CONNECT", "ACCEPT", "WINDOW"} /\ p.id = c
             => Minus(p.win, base) = RBSize
    PROVE  Offers(Append(q, p), c, base, lo)
<1> DEFINE s == Append(q, p)
           n == Len(q)
<1>1. /\ Len(s) = n + 1 /\ n \in Nat
      /\ \A i \in 1..n : s[i] = q[i]
      /\ s[n + 1] = p
  BY AtAppend
<1> HIDE DEF s
<1>2. ASSUME NEW i \in 1..Len(s), Offer(s, c, i)
      PROVE  lo <= Minus(s[i].win, base) /\ Minus(s[i].win, base) <= RBSize
  <2>1. CASE i = n + 1
    BY <1>1, <1>2, <2>1, MuxAssumption DEF Offer
  <2>2. CASE i # n + 1
    <3>1. i \in 1..n /\ s[i] = q[i] /\ Offer(q, c, i)
      BY <1>1, <1>2, <2>2 DEF Offer
    <3> QED BY <3>1 DEF Offers
  <2> QED BY <2>1, <2>2
<1>3. ASSUME NEW i \in 1..Len(s), NEW j \in 1..Len(s),
             Offer(s, c, i), Offer(s, c, j), i < j
      PROVE  Minus(s[i].win, base) <= Minus(s[j].win, base)
  <2>1. i \in 1..n /\ s[i] = q[i] /\ Offer(q, c, i)
    BY <1>1, <1>3 DEF Offer
  <2>2. CASE j = n + 1
    <3>1. Minus(s[j].win, base) = RBSize
      BY <1>1, <1>3, <2>2 DEF Offer
    <3> QED BY <1>2, <1>3, <3>1
  <2>3. CASE j # n + 1
    <3>1. j \in 1..n /\ s[j] = q[j] /\ Offer(q, c, j)
      BY <1>1, <1>3, <2>3 DEF Offer
    <3> QED BY <1>3, <2>1, <3>1 DEF Offers
  <2> QED BY <2>2, <2>3
<1>4. Offers(s, c, base, lo)
  BY <1>2, <1>3 DEF Offers
<1> QED BY <1>4 DEF s

\* When the first offer arrives, those behind it are as large or larger.
LEMMA OffersTail ==
    ASSUME NEW q \in Seq(Packets), q # <<>>, NEW c \in Chans, NEW base,
           NEW lo, Offers(q, c, base, lo), NEW up,
           up = lo \/ (Offer(q, c, 1) /\ up = Minus(q[1].win, base))
    PROVE  /\ Offers(Tail(q), c, base, up)
           /\ Offer(q, c, 1) => lo <= Minus(q[1].win, base)
                                /\ Minus(q[1].win, base) <= RBSize
<1> DEFINE s == Tail(q)
           n == Len(q)
<1>1. /\ Len(s) = n - 1 /\ n \in Nat \ {0}
      /\ \A i \in 1..(n - 1) : s[i] = q[i + 1]
  BY AtTail
<1> HIDE DEF s
<1>2. \A i \in 1..Len(s) : i + 1 \in 1..n /\ 1 < i + 1 /\ s[i] = q[i + 1]
  BY <1>1
<1>3. \A i \in 1..Len(s) : Offer(s, c, i) => Offer(q, c, i + 1)
  BY <1>2 DEF Offer
<1>4. 1 \in 1..n
  BY <1>1
<1>5. \A i \in 1..Len(s) : Offer(s, c, i) =>
         up <= Minus(s[i].win, base) /\ Minus(s[i].win, base) <= RBSize
  BY <1>2, <1>3, <1>4 DEF Offers
<1>6. \A i, j \in 1..Len(s) : Offer(s, c, i) /\ Offer(s, c, j) /\ i < j =>
         Minus(s[i].win, base) <= Minus(s[j].win, base)
  <2> SUFFICES ASSUME NEW i \in 1..Len(s), NEW j \in 1..Len(s),
                      Offer(s, c, i), Offer(s, c, j), i < j
               PROVE  Minus(s[i].win, base) <= Minus(s[j].win, base)
    OBVIOUS
  <2>1. i + 1 < j + 1
    BY <1>1
  <2> QED BY <1>2, <1>3, <2>1 DEF Offers
<1>7. Offers(s, c, base, up)
  BY <1>5, <1>6 DEF Offers
<1> QED BY <1>4, <1>7 DEF Offers, s

\* When the reader takes n bytes out, all offers are n less ahead of it.
LEMMA OffersRead ==
    ASSUME NEW q \in Seq(Packets), NEW c \in Chans, NEW base \in SeqNums,
           NEW lo \in Nat, NEW n \in 0..lo, Offers(q, c, base, lo)
    PROVE  Offers(q, c, Plus(base, n), lo - n)
<1>1. ASSUME NEW i \in 1..Len(q), Offer(q, c, i)
      PROVE  /\ Minus(q[i].win, Plus(base, n)) = Minus(q[i].win, base) - n
             /\ lo <= Minus(q[i].win, base) /\ Minus(q[i].win, base) <= RBSize
             /\ Minus(q[i].win, base) \in Nat
  <2>1. lo <= Minus(q[i].win, base) /\ Minus(q[i].win, base) <= RBSize
    BY <1>1 DEF Offers
  <2>2. q[i] \in Packets
    BY ElementOfSeq
  <2>3. q[i].win \in SeqNums
    BY <2>2 DEF Packets, SeqNums
  <2>4. Minus(q[i].win, base) \in SeqNums
    BY <2>3, SeqNumType
  <2>5. Minus(q[i].win, base) \in Nat
    BY <2>4, MuxAssumption DEF SeqNums
  <2>6. n \in Nat /\ n <= Minus(q[i].win, base)
    BY <2>1, <2>5
  <2> QED BY <2>1, <2>3, <2>5, <2>6, MinusPlusRight
<1>2. \A i \in 1..Len(q) : Offer(q, c, i) =>
         /\ lo - n <= Minus(q[i].win, Plus(base, n))
         /\ Minus(q[i].win, Plus(base, n)) <= RBSize
  BY <1>1, MuxAssumption
<1>3. \A i, j \in 1..Len(q) : Offer(q, c, i) /\ Offer(q, c, j) /\ i < j =>
         Minus(q[i].win, Plus(base, n)) <= Minus(q[j].win, Plus(base, n))
  <2> SUFFICES ASSUME NEW i \in 1..Len(q), NEW j \in 1..Len(q),
                      Offer(q, c, i), Offer(q, c, j), i < j
               PROVE  Minus(q[i].win, Plus(base, n)) <= Minus(q[j].win, Plus(base, n))
    OBVIOUS
  <2>1. Minus(q[i].win, base) <= Minus(q[j].win, base)
    BY DEF Offers
  <2> QED BY <1>1, <2>1
<1> QED BY <1>2, <1>3 DEF Offers

-----------------------------------------------------------------------------
(* Packets still owed to the peer *)

\* An end owes a packet of kind K while the flag is set, while the sender
\* thread has picked it (p), and until the receiver is through with it.
Owed(F, p, q, K, c) == K \in F \/ p = K \/ \E i \in 1..Len(q) : At(q, K, c, i)

\* ... and owes no second one.
OwedOnce(F, p, q, K, c) ==
    /\ K \in F => p # K
    /\ K \in F \/ p = K => \A i \in 1..Len(q) : ~At(q, K, c, i)
    /\ \A i, j \in 1..Len(q) : At(q, K, c, i) /\ At(q, K, c, j) => i = j

\* Setting a flag owes one more.
LEMMA OwedFlag ==
    ASSUME NEW F, NEW X, NEW p, NEW q, NEW c
    PROVE  /\ \A K : Owed(F \cup {X}, p, q, K, c) <=> Owed(F, p, q, K, c) \/ K = X
           /\ \A K : OwedOnce(F, p, q, K, c) /\ K # X
                       => OwedOnce(F \cup {X}, p, q, K, c)
           /\ ~Owed(F, p, q, X, c) => OwedOnce(F \cup {X}, p, q, X, c)
<1>1. \A K : Owed(F \cup {X}, p, q, K, c) <=> Owed(F, p, q, K, c) \/ K = X
  BY DEF Owed
<1>2. \A K : OwedOnce(F, p, q, K, c) /\ K # X => OwedOnce(F \cup {X}, p, q, K, c)
  BY DEF OwedOnce
<1>3. ~Owed(F, p, q, X, c) => OwedOnce(F \cup {X}, p, q, X, c)
  BY DEF Owed, OwedOnce
<1> QED BY <1>1, <1>2, <1>3

\* Picking a flag changes nothing in what is owed.
LEMMA OwedPick ==
    ASSUME NEW F, NEW kind \in F, NEW q, NEW c
    PROVE  /\ \A K \in Kinds : Owed(F \ {kind}, kind, q, K, c) => Owed(F, "NONE", q, K, c)
           /\ \A K \in Kinds : OwedOnce(F, "NONE", q, K, c)
                       => OwedOnce(F \ {kind}, kind, q, K, c)
<1>1. \A K \in Kinds : Owed(F \ {kind}, kind, q, K, c) => Owed(F, "NONE", q, K, c)
  BY DEF Owed
<1>2. \A K \in Kinds : OwedOnce(F, "NONE", q, K, c) => OwedOnce(F \ {kind}, kind, q, K, c)
  BY DEF OwedOnce
<1> QED BY <1>1, <1>2

\* Nor does building the packet picked ...
LEMMA OwedBuild ==
    ASSUME NEW F, NEW q \in Seq(Packets), NEW c, NEW p \in Packets, p.id = c
    PROVE  /\ \A K \in Kinds : Owed(F, "NONE", Append(q, p), K, c) <=> Owed(F, p.type, q, K, c)
           /\ \A K \in Kinds : OwedOnce(F, p.type, q, K, c)
                       => OwedOnce(F, "NONE", Append(q, p), K, c)
<1> DEFINE s == Append(q, p)
           n == Len(q)
<1>1. /\ Len(s) = n + 1 /\ n \in Nat
      /\ \A K, i : At(s, K, c, i) <=> At(q, K, c, i) \/ (i = n + 1 /\ p.type = K)
  <2>1. \A K, i : At(s, K, c, i) <=> At(q, K, c, i) \/ (i = n + 1 /\ p.type = K)
    BY AtAppend
  <2> QED BY <2>1, AtAppend
<1>2. \A K, i : At(q, K, c, i) => i \in 1..n
  BY DEF At
<1>3. \A K \in Kinds : K # "NONE"
  BY DEF Kinds
<1> HIDE DEF s, n
<1>4. ASSUME NEW K \in Kinds
      PROVE  Owed(F, "NONE", s, K, c) <=> Owed(F, p.type, q, K, c)
  <2>1. (\E i \in 1..(n + 1) : At(s, K, c, i))
          <=> (\E i \in 1..n : At(q, K, c, i)) \/ p.type = K
    BY <1>1, <1>2
  <2> QED BY <1>1, <1>3, <2>1 DEF Owed, n
<1>5. ASSUME NEW K \in Kinds, OwedOnce(F, p.type, q, K, c)
      PROVE  OwedOnce(F, "NONE", s, K, c)
  <2>1. /\ K \in F => p.type # K
        /\ K \in F \/ p.type = K => \A i \in 1..n : ~At(q, K, c, i)
        /\ \A i, j \in 1..n : At(q, K, c, i) /\ At(q, K, c, j) => i = j
    BY <1>5 DEF OwedOnce, n
  <2>2. K \in F => \A i \in 1..(n + 1) : ~At(s, K, c, i)
    BY <1>1, <1>2, <2>1
  <2>3. \A i, j \in 1..(n + 1) : At(s, K, c, i) /\ At(s, K, c, j) => i = j
    BY <1>1, <1>2, <2>1
  <2> QED BY <1>1, <1>3, <2>2, <2>3 DEF OwedOnce
<1> QED BY <1>4, <1>5 DEF s

\* ... nor building one for another channel.
LEMMA OwedBuildOther ==
    ASSUME NEW F, NEW k, NEW q \in Seq(Packets), NEW c, NEW p \in Packets, p.id # c
    PROVE  /\ \A K : Owed(F, k, Append(q, p), K, c) <=> Owed(F, k, q, K, c)
           /\ \A K : OwedOnce(F, k, q, K, c) => OwedOnce(F, k, Append(q, p), K, c)
<1> DEFINE s == Append(q, p)
           n == Len(q)
<1>1. /\ Len(s) = n + 1 /\ n \in Nat
      /\ \A K, i : At(s, K, c, i) <=> At(q, K, c, i)
  <2>1. \A K, i : At(s, K, c, i) <=> At(q, K, c, i)
    BY AtAppend
  <2> QED BY <2>1, AtAppend
<1>2. \A K, i : At(q, K, c, i) => i \in 1..n
  BY DEF At
<1> HIDE DEF s
<1>3. \A K : Owed(F, k, s, K, c) <=> Owed(F, k, q, K, c)
  BY <1>1, <1>2 DEF Owed
<1>4. \A K : OwedOnce(F, k, q, K, c) => OwedOnce(F, k, s, K, c)
  BY <1>1, <1>2 DEF OwedOnce
<1> QED BY <1>3, <1>4 DEF s

\* The packet the receiver takes is not owed any more.
LEMMA OwedTail ==
    ASSUME NEW F, NEW p, NEW q \in Seq(Packets), q # <<>>, NEW c
    PROVE  /\ \A K : Owed(F, p, Tail(q), K, c) => Owed(F, p, q, K, c)
           /\ \A K : OwedOnce(F, p, q, K, c) => OwedOnce(F, p, Tail(q), K, c)
           /\ \A K : At(q, K, c, 1) => Owed(F, p, q, K, c)
           /\ \A K : At(q, K, c, 1) /\ OwedOnce(F, p, q, K, c)
                       => ~Owed(F, p, Tail(q), K, c)
<1> DEFINE s == Tail(q)
           n == Len(q)
<1>1. /\ Len(s) = n - 1 /\ n \in Nat \ {0}
      /\ \A K : \A i \in 1..(n - 1) : At(s, K, c, i) <=> At(q, K, c, i + 1)
  <2>1. \A K : \A i \in Nat : At(s, K, c, i) <=> i # 0 /\ At(q, K, c, i + 1)
    BY AtTail
  <2> QED BY <2>1, AtTail
<1> HIDE DEF s, n
<1>2. \A i \in 1..Len(s) : i + 1 \in 1..n /\ i + 1 # 1
  BY <1>1
<1>3. 1 \in 1..n
  BY <1>1
<1>4. \A K : Owed(F, p, s, K, c) => Owed(F, p, q, K, c)
  BY <1>1, <1>2 DEF Owed, n
<1>5. \A K : OwedOnce(F, p, q, K, c) => OwedOnce(F, p, s, K, c)
  BY <1>1, <1>2 DEF OwedOnce, n
<1>6. \A K : At(q, K, c, 1) => Owed(F, p, q, K, c)
  BY <1>3 DEF Owed, n
<1>7. \A K : At(q, K, c, 1) /\ OwedOnce(F, p, q, K, c) => ~Owed(F, p, s, K, c)
  BY <1>1, <1>2, <1>3 DEF Owed, OwedOnce, n
<1> QED BY <1>4, <1>5, <1>6, <1>7 DEF s

-----------------------------------------------------------------------------
(* The first packet for a channel *)

\* There is no packet for channel c in the line.
NoneFor(q, c) == \A i \in 1..Len(q) : q[i].id # c

\* There is one, and the first is of kind K.
FirstIs(q, K, c) ==
    \E i \in 1..Len(q) : At(q, K, c, i) /\ \A j \in 1..Len(q) : q[j].id = c => i <= j

\* Appending a packet.
LEMMA FirstAppend ==
    ASSUME NEW q \in Seq(Packets), NEW p \in Packets, NEW K, NEW c
    PROVE  /\ NoneFor(q, c) /\ p.id # c => NoneFor(Append(q, p), c)
           /\ NoneFor(q, c) /\ p.id = c /\ p.type = K => FirstIs(Append(q, p), K, c)
           /\ FirstIs(q, K, c) => FirstIs(Append(q, p), K, c)
<1> DEFINE s == Append(q, p)
           n == Len(q)
<1>1. /\ Len(s) = n + 1 /\ n \in Nat
      /\ \A i \in 1..n : s[i] = q[i]
      /\ s[n + 1] = p
  BY AtAppend
<1> HIDE DEF s, n
<1>2. NoneFor(q, c) /\ p.id # c => NoneFor(s, c)
  BY <1>1 DEF NoneFor, n
<1>3. NoneFor(q, c) /\ p.id = c /\ p.type = K => FirstIs(s, K, c)
  <2> SUFFICES ASSUME NoneFor(q, c), p.id = c, p.type = K PROVE FirstIs(s, K, c)
    OBVIOUS
  <2>1. n + 1 \in 1..Len(s) /\ At(s, K, c, n + 1)
    BY <1>1 DEF At
  <2>2. \A j \in 1..Len(s) : s[j].id = c => n + 1 <= j
    BY <1>1 DEF NoneFor, n
  <2> QED BY <2>1, <2>2 DEF FirstIs
<1>4. ASSUME FirstIs(q, K, c) PROVE FirstIs(s, K, c)
  <2>1. PICK i \in 1..n : At(q, K, c, i) /\ \A j \in 1..n : q[j].id = c => i <= j
    BY <1>4 DEF FirstIs, n
  <2>2. i \in 1..Len(s) /\ At(s, K, c, i)
    BY <1>1, <2>1 DEF At
  <2>3. \A j \in 1..Len(s) : s[j].id = c => i <= j
    BY <1>1, <2>1
  <2> QED BY <2>2, <2>3 DEF FirstIs
<1> QED BY <1>2, <1>3, <1>4 DEF s

\* Taking the first packet of the line.
LEMMA FirstTail ==
    ASSUME NEW q \in Seq(Packets), q # <<>>, NEW K, NEW c
    PROVE  /\ NoneFor(q, c) => q[1].id # c /\ NoneFor(Tail(q), c)
           /\ FirstIs(q, K, c) /\ q[1].id = c => q[1].type = K
           /\ FirstIs(q, K, c) /\ q[1].id # c => FirstIs(Tail(q), K, c)
<1> DEFINE s == Tail(q)
           n == Len(q)
<1>1. /\ Len(s) = n - 1 /\ n \in Nat \ {0}
      /\ \A i \in 1..(n - 1) : s[i] = q[i + 1]
  BY AtTail
<1> HIDE DEF s, n
<1>2. NoneFor(q, c) => q[1].id # c /\ NoneFor(s, c)
  BY <1>1 DEF NoneFor, n
<1>3. FirstIs(q, K, c) /\ q[1].id = c => q[1].type = K
  BY <1>1 DEF FirstIs, At, n
<1>4. ASSUME FirstIs(q, K, c), q[1].id # c PROVE FirstIs(s, K, c)
  <2>1. PICK i \in 1..n : At(q, K, c, i) /\ \A j \in 1..n : q[j].id = c => i <= j
    BY <1>4 DEF FirstIs, n
  <2>2. i # 1
    BY <1>4, <2>1 DEF At
  <2>3. i - 1 \in 1..Len(s) /\ (i - 1) + 1 = i
    BY <1>1, <2>2
  <2>4. At(s, K, c, i - 1)
    BY <1>1, <2>1, <2>3 DEF At
  <2>5. \A j \in 1..Len(s) : s[j].id = c => i - 1 <= j
    BY SMTT(30), <1>1, <2>1
  <2> QED BY <2>3, <2>4, <2>5 DEF FirstIs
<1> QED BY <1>2, <1>3, <1>4 DEF s

-----------------------------------------------------------------------------
(* What each end knows by itself *)

\* Where a side is in the life of its channel: open at all, closed by this end
\* for writing, closed by the other end.
Opened(k) == state[k] \in {"ESTABLISHED", "RDCLOSED", "WRCLOSED", "CLOSED"}
Shut(k) == state[k] \in {"WRCLOSED", "CLOSED"}
Got(k) == state[k] \in {"RDCLOSED", "CLOSED"}

\* The sender thread has a data packet of this channel in its hands.
Busy(k) ==
    /\ spc[k[1]] \in {"write", "post"}
    /\ pkt[k[1]].type = "DATA"
    /\ pkt[k[1]].id = k[2]

\* What the sender thread picked for this channel and has not built yet.
Picked(k) == IF spc[k[1]] = "got" /\ sid[k[1]] = k[2] THEN what[k[1]] ELSE "NONE"

\* Threads hold what their program counters say they hold.
ThreadsHold ==
    \A e \in Ends :
      /\ spc[e] = "got" => what[e] \in Kinds
      /\ spc[e] = "post" => pkt[e].type = "DATA"
      /\ vpc[e] = "data" => vpkt[e].type = "DATA"

\* The send buffer of a channel, and the data packet taken from it.
SendHolds ==
    \A k \in Sides :
      /\ sout[k] <= sin[k] /\ sin[k] - sout[k] <= SBSize
      /\ wleft[k] <= SBSize
      /\ Busy(k) => /\ pkt[k[1]].from = sout[k]
                    /\ pkt[k[1]].len <= sin[k] - sout[k]
                    /\ pkt[k[1]].len < SeqMod

\* The receiver thread reads a payload into this channel's buffer.
Filling(k) == vpc[k[1]] = "data" /\ vpkt[k[1]].id = k[2]

\* The receive buffer of a channel, and the room for the payload.
RecvHolds ==
    \A k \in Sides :
      /\ rout[k] <= rin[k] /\ RecvCount(k) <= RBSize
      /\ Filling(k) => vpkt[k[1]].len <= RecvAvail(k)

\* How far the main thread has come, and the state of its channel.
MainKnows ==
    \A k \in Sides :
      /\ mpc[k] = "open" <=> state[k] = "UNUSED"
      /\ mpc[k] = "opened" => state[k] \in {"ESTABLISHED", "RDCLOSED"}
      /\ mpc[k] \in {"drain", "done"} <=> Shut(k)
      /\ state[k] = "LISTENING" => Opener(k[2]) # k[1]
      /\ state[k] = "CONNECTING" => Opener(k[2]) = k[1]
      /\ eof[k] => Got(k)

\* Nothing is written to a channel that is not open.
NothingYet ==
    \A k \in Sides :
      ~Opened(k) => /\ sin[k] = 0 /\ wleft[k] = 0
                    /\ sendseq[k] = 0 /\ sendwin[k] = 0

\* The flag for a data packet is set only while there is something to send,
\* and not again before that packet has been dealt with.
DataPending ==
    \A k \in Sides :
      /\ "DATA" \in flags[k] \/ Picked(k) = "DATA" => sout[k] < sin[k]
      /\ "DATA" \in flags[k] => Picked(k) # "DATA" /\ ~Busy(k)

\* All of it.
Local ==
    /\ TypeOK /\ ThreadsHold /\ SendHolds /\ RecvHolds /\ MainKnows
    /\ NothingYet /\ DataPending

-----------------------------------------------------------------------------
(* Ends and sides *)

\* A side is an end and a channel; the other side has the other end.
LEMMA SideFacts ==
    /\ \A e \in Ends : Peer(e) \in Ends /\ Peer(Peer(e)) = e /\ Peer(e) # e
    /\ \A e \in Ends, c \in Chans :
         <<e, c>> \in Sides /\ <<e, c>>[1] = e /\ <<e, c>>[2] = c
    /\ \A k \in Sides : k[1] \in Ends /\ k[2] \in Chans /\ k = <<k[1], k[2]>>
    /\ \A j, k \in Sides : j[1] = k[1] /\ j[2] = k[2] => j = k
BY DEF Peer, Ends, Sides

\* The other side of a channel, whose other side is this one.
LEMMA RemoteFacts ==
    ASSUME NEW k \in Sides
    PROVE  /\ Remote(k) \in Sides
           /\ Remote(k)[1] = Peer(k[1]) /\ Remote(k)[2] = k[2]
           /\ Remote(Remote(k)) = k /\ Remote(k) # k
           /\ \A j \in Sides : Remote(j) = k <=> j = Remote(k)
<1>1. /\ Remote(k) \in Sides
      /\ Remote(k)[1] = Peer(k[1]) /\ Remote(k)[2] = k[2]
  BY SideFacts DEF Remote
<1>2. Remote(Remote(k)) = k /\ Remote(k) # k
  BY <1>1, SideFacts DEF Remote
<1>3. \A j \in Sides : Remote(Remote(j)) = j
  BY SideFacts DEF Remote
<1> QED BY <1>1, <1>2, <1>3

\* The threads that sleep or call sender_wakeup().
LEMMA ThreadFacts ==
    ASSUME NEW k \in Sides
    PROVE  /\ {Main(k), Writer(k), Reader(k)} \subseteq Apps
           /\ Apps \subseteq Callers
           /\ \A e \in Ends : Receiver(e) \in Callers
BY SideFacts DEF Main, Writer, Reader, Receiver, Apps, Receivers, Callers

\* The scan goes round the channels.
LEMMA NextChanType ==
    ASSUME NEW c \in Chans
    PROVE  NextChan(c) \in Chans
BY MuxAssumption DEF NextChan, Chans

-----------------------------------------------------------------------------
(* Packets *)

\* The empty hands of a thread.
LEMMA NoPktFacts == NoPkt \in Packets /\ NoPkt.type # "DATA"
BY MuxAssumption DEF NoPkt, Packet, Packets, Kinds, Chans

\* The packet most important to send is one of those to send.
LEMMA MostImportantFacts ==
    ASSUME NEW f \in SUBSET Kinds, f # {}
    PROVE  /\ MostImportant(f) \in f
           /\ \A x \in f : Rank[MostImportant(f)] <= Rank[x]
           /\ "CONNECT" \in f => MostImportant(f) = "CONNECT"
           /\ "ACCEPT" \in f /\ "CONNECT" \notin f => MostImportant(f) = "ACCEPT"
<1>1. /\ Rank["CONNECT"] = 1 /\ Rank["ACCEPT"] = 2 /\ Rank["RESET"] = 3
      /\ Rank["WINDOW"] = 4 /\ Rank["DATA"] = 5 /\ Rank["CLOSE"] = 6
  BY DEF Rank
<1>2. \E x \in f : \A y \in f : Rank[x] <= Rank[y]
  <2>1. CASE "CONNECT" \in f
    BY <1>1, <2>1 DEF Kinds
  <2>2. CASE "CONNECT" \notin f /\ "ACCEPT" \in f
    BY <1>1, <2>2 DEF Kinds
  <2>3. CASE f \subseteq {"RESET", "WINDOW", "DATA", "CLOSE"} /\ "RESET" \in f
    BY <1>1, <2>3
  <2>4. CASE f \subseteq {"WINDOW", "DATA", "CLOSE"} /\ "WINDOW" \in f
    BY <1>1, <2>4
  <2>5. CASE f \subseteq {"DATA", "CLOSE"} /\ "DATA" \in f
    BY <1>1, <2>5
  <2>6. CASE f = {"CLOSE"}
    BY <1>1, <2>6
  <2> QED BY <2>1, <2>2, <2>3, <2>4, <2>5, <2>6 DEF Kinds
<1>3. MostImportant(f) \in f /\ \A y \in f : Rank[MostImportant(f)] <= Rank[y]
  BY <1>2 DEF MostImportant
<1>4. MostImportant(f) \in Kinds
  BY <1>3
<1>5. "CONNECT" \in f => MostImportant(f) = "CONNECT"
  BY <1>1, <1>3, <1>4 DEF Kinds
<1>6. "ACCEPT" \in f /\ "CONNECT" \notin f => MostImportant(f) = "ACCEPT"
  BY <1>1, <1>3, <1>4 DEF Kinds
<1> QED BY <1>3, <1>5, <1>6

\* What the sender thread builds is a packet of the kind it picked.  A data
\* packet begins where the send buffer does, and fits in three limits.
LEMMA HeaderFacts ==
    ASSUME TypeOK, SendHolds, NEW k \in Sides, NEW kind \in Kinds
    PROVE  LET p == Header(k, kind) IN
           /\ p \in Packets /\ p.type = kind /\ p.id = k[2]
           /\ kind \in {"CONNECT", "ACCEPT", "WINDOW"} => p.win = Window(k)
           /\ kind = "DATA" =>
                /\ p.from = sout[k]
                /\ p.len \in 0..(sin[k] - sout[k])
                /\ p.len <= MSS /\ p.len <= Minus(sendwin[k], sendseq[k])
                /\ sout[k] < sin[k] /\ Minus(sendwin[k], sendseq[k]) # 0
                     => p.len > 0
<1> DEFINE d == Minus(sendwin[k], sendseq[k])
<1>1. /\ sin[k] \in Nat /\ sout[k] \in Nat /\ sout[k] <= sin[k]
      /\ sendwin[k] \in SeqNums /\ sendseq[k] \in SeqNums /\ recvseq[k] \in SeqNums
  BY DEF TypeOK, SendHolds, SeqNums
<1>2. d \in Nat /\ Window(k) \in SeqNums
  <2>1. d \in SeqNums /\ Window(k) \in SeqNums
    BY <1>1, SeqNumType, WindowDistance DEF Window
  <2> QED BY <2>1, MuxAssumption DEF SeqNums
<1> HIDE DEF d
<1>3. /\ DataSize(k) \in 0..(sin[k] - sout[k])
      /\ DataSize(k) <= MSS /\ DataSize(k) <= d
      /\ sout[k] < sin[k] /\ d # 0 => DataSize(k) > 0
  <2>1. DataSize(k) = Min2(Min2(sin[k] - sout[k], MSS), d)
    BY DEF DataSize, SendCount, d
  <2> QED BY <1>1, <1>2, <2>1, MuxAssumption DEF Min2
<1>4. k[2] \in Chans /\ 0 \in SeqNums
  BY SideFacts, MuxAssumption DEF SeqNums
<1>5. CASE kind \in {"CONNECT", "ACCEPT", "WINDOW"}
  BY <1>2, <1>4, <1>5 DEF Header, Packet, Packets, SeqNums
<1>6. CASE kind = "DATA"
  <2>1. Header(k, kind) = Packet("DATA", k[2], 0, sout[k], DataSize(k))
    BY <1>6 DEF Header
  <2>2. DataSize(k) \in Nat
    BY <1>1, <1>3
  <2> QED BY <1>1, <1>3, <1>4, <1>6, <2>1, <2>2 DEF Packet, Packets, SeqNums, d
<1>7. CASE kind \in {"RESET", "CLOSE"}
  BY <1>4, <1>7 DEF Header, Packet, Packets, SeqNums
<1> QED BY <1>5, <1>6, <1>7 DEF Kinds

\* The packet a receiver takes, and the side it is for.
LEMMA HeadFacts ==
    ASSUME TypeOK, NEW e \in Ends, net[Peer(e)] # <<>>
    PROVE  LET p == Head(net[Peer(e)]) IN
           /\ p \in Packets /\ <<e, p.id>> \in Sides
           /\ p.win \in 0..(SeqMod - 1) /\ p.len \in Nat
           /\ Tail(net[Peer(e)]) \in Seq(Packets)
<1>1. net[Peer(e)] \in Seq(Packets)
  BY SideFacts DEF TypeOK
<1>2. /\ Head(net[Peer(e)]) \in Packets
      /\ Tail(net[Peer(e)]) \in Seq(Packets)
  BY <1>1, HeadTailProperties
<1> QED BY <1>2, SideFacts DEF Packets

-----------------------------------------------------------------------------
(* Types of single values *)

\* A side has an end and a channel.
LEMMA SideEnds == \A k \in Sides : k[1] \in Ends /\ k[2] \in Chans
BY SideFacts

\* What the variables of one side of a channel hold.
LEMMA SideTypes ==
    ASSUME TypeOK, NEW k \in Sides
    PROVE  /\ state[k] \in States /\ flags[k] \in SUBSET Kinds
           /\ sendseq[k] \in SeqNums /\ sendwin[k] \in SeqNums
           /\ recvseq[k] \in SeqNums
           /\ sin[k] \in Nat /\ sout[k] \in Nat /\ rin[k] \in Nat
           /\ rout[k] \in Nat /\ wleft[k] \in Nat
BY DEF TypeOK, SeqNums

\* What the variables of the threads of one end hold.
LEMMA EndTypes ==
    ASSUME TypeOK, NEW e \in Ends
    PROVE  /\ sid[e] \in Chans /\ what[e] \in Kinds \cup {"NONE"}
           /\ pkt[e] \in Packets /\ vpkt[e] \in Packets
           /\ pkt[e].type \in Kinds /\ pkt[e].id \in Chans
           /\ pkt[e].from \in Nat /\ pkt[e].len \in Nat
           /\ vpkt[e].type \in Kinds /\ vpkt[e].id \in Chans
           /\ vpkt[e].from \in Nat /\ vpkt[e].len \in Nat
           /\ net[e] \in Seq(Packets)
<1>1. /\ sid[e] \in Chans /\ what[e] \in Kinds \cup {"NONE"}
      /\ pkt[e] \in Packets /\ vpkt[e] \in Packets
      /\ net[e] \in Seq(Packets)
  BY DEF TypeOK
<1> QED BY <1>1 DEF Packets

-----------------------------------------------------------------------------
(* What each action does to the channels, the threads and the packets, side *)
(* by side and end by end.                                                  *)

\* chan_connect() and chan_listen().
LEMMA OpenEffect ==
    ASSUME TypeOK, NEW k \in Sides, Open(k)
    PROVE  /\ mpc[k] = "open" /\ MayOpen(k) /\ state[k] = "UNUSED"
           /\ \A j \in Sides :
                /\ mpc'[j] = IF j = k THEN "await" ELSE mpc[j]
                /\ state'[j] = IF j # k THEN state[j]
                               ELSE IF Opener(k[2]) = k[1] THEN "CONNECTING"
                               ELSE "LISTENING"
                /\ flags'[j] = IF j = k /\ Opener(k[2]) = k[1]
                               THEN flags[j] \cup {"CONNECT"} ELSE flags[j]
           /\ UNCHANGED <<sendseq, sendwin, recvseq, sin, sout, rin, rout,
                          wleft, eof, spc, sid, what, pkt, vpc, vpkt, net>>
<1>1. /\ state \in [Sides -> States] /\ flags \in [Sides -> SUBSET Kinds]
      /\ \E S : mpc \in [Sides -> S]
  BY DEF TypeOK
<1> QED BY <1>1 DEF Open, bufVars, senderVars, receiverVars

\* The loop of chan_connect() and chan_accept().
LEMMA AwaitOpenEffect ==
    ASSUME TypeOK, NEW k \in Sides, AwaitOpen(k)
    PROVE  /\ mpc[k] = "await"
           /\ \A j \in Sides :
                \/ mpc'[j] = mpc[j]
                \/ j = k /\ state[k] = "ESTABLISHED" /\ mpc'[j] = "opened"
                \/ /\ j = k /\ mpc'[j] = "failed"
                   /\ state[k] \notin {"LISTENING", "CONNECTING", "ESTABLISHED"}
           /\ UNCHANGED <<state, flags, sendseq, sendwin, recvseq, sin, sout,
                          rin, rout, wleft, eof, spc, sid, what, pkt, vpc,
                          vpkt, net>>
<1>1. \E S : mpc \in [Sides -> S]
  BY DEF TypeOK
<1> QED BY <1>1 DEF AwaitOpen, chanVars, bufVars, senderVars, receiverVars

\* chan_write() up to its sleep or to its end.
LEMMA ChanWriteEffect ==
    ASSUME TypeOK, NEW k \in Sides, NEW n \in 1..SBSize, ChanWrite(k, n)
    PROVE  /\ mpc[k] = "opened" /\ state[k] \in {"ESTABLISHED", "RDCLOSED"}
           /\ IF wleft[k] = 0 THEN MayWrite(k, n) ELSE n = wleft[k]
           /\ \E put \in Int :
                /\ put = Min2(n, SendAvail(k))
                /\ \A j \in Sides :
                     /\ sin'[j] = IF j = k THEN sin[j] + put ELSE sin[j]
                     /\ wleft'[j] = IF j = k THEN n - put ELSE wleft[j]
           /\ UNCHANGED <<state, flags, sendseq, sendwin, recvseq, sout, rin,
                          rout, mpc, eof, spc, sid, what, pkt, vpc, vpkt, net>>
<1>1. sin \in [Sides -> Nat] /\ sout \in [Sides -> Nat] /\ wleft \in [Sides -> Nat]
  BY DEF TypeOK
<1>2. Min2(n, SendAvail(k)) \in Int
  BY <1>1, MuxAssumption DEF Min2, SendAvail, SendCount
<1> QED BY <1>1, <1>2 DEF ChanWrite, chanVars, senderVars, receiverVars

\* chan_read() at the end of the stream, without data, and with data.
LEMMA ChanReadEffect ==
    ASSUME TypeOK, NEW k \in Sides, NEW size \in ReadSizes, ChanRead(k, size)
    PROVE  /\ mpc[k] = "opened" /\ ~ReaderDone(k)
           /\ \/ /\ Got(k)
                 /\ \A j \in Sides : eof'[j] = IF j = k THEN TRUE ELSE eof[j]
                 /\ UNCHANGED <<flags, recvseq, rout>>
              \/ UNCHANGED <<eof, flags, recvseq, rout>>
              \/ /\ ~Got(k) /\ RecvCount(k) # 0
                 /\ \E n \in Int :
                      /\ n = Min2(RecvCount(k), size)
                      /\ \A j \in Sides :
                           /\ rout'[j] = IF j = k THEN rout[j] + n ELSE rout[j]
                           /\ recvseq'[j] = IF j = k THEN Plus(recvseq[j], n)
                                            ELSE recvseq[j]
                           /\ flags'[j] = IF j = k THEN flags[j] \cup {"WINDOW"}
                                          ELSE flags[j]
                 /\ UNCHANGED eof
           /\ UNCHANGED <<state, sendseq, sendwin, sin, sout, rin, mpc, wleft,
                          spc, sid, what, pkt, vpc, vpkt, net>>
<1>1. /\ flags \in [Sides -> SUBSET Kinds] /\ rin \in [Sides -> Nat]
      /\ rout \in [Sides -> Nat] /\ eof \in [Sides -> BOOLEAN]
      /\ \E S : recvseq \in [Sides -> S]
  BY DEF TypeOK
<1>2. Min2(RecvCount(k), size) \in Int
  BY <1>1, MuxAssumption DEF Min2, RecvCount
<1>3. /\ mpc[k] = "opened" /\ ~ReaderDone(k)
      /\ UNCHANGED <<state, sendseq, sendwin, sin, sout, rin, mpc, wleft,
                     spc, sid, what, pkt, vpc, vpkt, net>>
  BY DEF ChanRead, senderVars, receiverVars
<1>4. CASE Got(k)
  BY <1>1, <1>3, <1>4 DEF ChanRead, Got
<1>5. CASE ~Got(k) /\ RecvCount(k) = 0
  BY <1>3, <1>5 DEF ChanRead, Got
<1>6. CASE ~Got(k) /\ RecvCount(k) # 0
  BY ZenonT(40), <1>1, <1>2, <1>3, <1>6 DEF ChanRead, Got
<1> QED BY <1>4, <1>5, <1>6

\* chan_close().
LEMMA ChanCloseEffect ==
    ASSUME TypeOK, MainKnows, NEW k \in Sides, ChanClose(k)
    PROVE  /\ mpc[k] = "opened" /\ MayClose(k)
           /\ state[k] \in {"ESTABLISHED", "RDCLOSED"}
           /\ \A j \in Sides :
                /\ mpc'[j] = IF j = k THEN "drain" ELSE mpc[j]
                /\ state'[j] = IF j # k THEN state[j]
                               ELSE IF state[j] = "ESTABLISHED" THEN "WRCLOSED"
                               ELSE "CLOSED"
                /\ flags'[j] = IF j = k THEN flags[j] \cup {"CLOSE"} ELSE flags[j]
           /\ UNCHANGED <<sendseq, sendwin, recvseq, sin, sout, rin, rout,
                          wleft, eof, spc, sid, what, pkt, vpc, vpkt, net>>
<1>1. /\ state \in [Sides -> States] /\ flags \in [Sides -> SUBSET Kinds]
      /\ \E S : mpc \in [Sides -> S]
  BY DEF TypeOK
<1>2. mpc[k] = "opened" /\ state[k] \in {"ESTABLISHED", "RDCLOSED"}
  BY DEF ChanClose, MainKnows
<1> QED BY <1>1, <1>2 DEF ChanClose, bufVars, senderVars, receiverVars

\* chan_wait().
LEMMA ChanWaitEffect ==
    ASSUME TypeOK, NEW k \in Sides, ChanWait(k)
    PROVE  /\ mpc[k] = "drain"
           /\ \A j \in Sides :
                \/ mpc'[j] = mpc[j]
                \/ j = k /\ state[k] = "CLOSED" /\ mpc'[j] = "done"
           /\ UNCHANGED <<state, flags, sendseq, sendwin, recvseq, sin, sout,
                          rin, rout, wleft, eof, spc, sid, what, pkt, vpc,
                          vpkt, net>>
<1>1. \E S : mpc \in [Sides -> S]
  BY DEF TypeOK
<1> QED BY <1>1 DEF ChanWait, chanVars, bufVars, senderVars, receiverVars

\* sender_scan() finds work.
LEMMA ScanFindsEffect ==
    ASSUME TypeOK, NEW e \in Ends, ScanFinds(e)
    PROVE  /\ spc[e] = "scan"
           /\ \E k \in Sides, kind \in Kinds :
                /\ k = <<e, NextChan(sid[e])>>
                /\ kind \in Work(k) /\ kind = MostImportant(Work(k))
                /\ \A j \in Sides :
                     flags'[j] = IF j = k THEN Work(k) \ {kind} ELSE flags[j]
                /\ \A d \in Ends :
                     /\ what'[d] = IF d = e THEN kind ELSE what[d]
                     /\ sid'[d] = IF d = e THEN k[2] ELSE sid[d]
                     /\ spc'[d] = IF d = e THEN "got" ELSE spc[d]
           /\ UNCHANGED <<state, sendseq, sendwin, recvseq, sin, sout, rin,
                          rout, mpc, wleft, eof, pkt, vpc, vpkt, net>>
<1> DEFINE k == <<e, NextChan(sid[e])>>
<1>1. /\ flags \in [Sides -> SUBSET Kinds] /\ sid \in [Ends -> Chans]
      /\ \E S : what \in [Ends -> S]
      /\ \E S : spc \in [Ends -> S]
  BY DEF TypeOK
<1>2. k \in Sides /\ k[2] = NextChan(sid[e])
  BY <1>1, NextChanType, SideFacts
<1>3. Work(k) \in SUBSET Kinds /\ Work(k) # {} /\ spc[e] = "scan"
  <2>1. Work(k) # {} /\ spc[e] = "scan"
    BY DEF ScanFinds
  <2> QED BY <1>1, <1>2, <2>1 DEF Work, Kinds
<1>4. MostImportant(Work(k)) \in Work(k) /\ MostImportant(Work(k)) \in Kinds
  BY <1>3, MostImportantFacts
<1>5. \A j \in Sides :
        flags'[j] = IF j = k THEN Work(k) \ {MostImportant(Work(k))} ELSE flags[j]
  BY <1>1, <1>2 DEF ScanFinds
<1>6. \A d \in Ends :
        /\ what'[d] = IF d = e THEN MostImportant(Work(k)) ELSE what[d]
        /\ sid'[d] = IF d = e THEN k[2] ELSE sid[d]
        /\ spc'[d] = IF d = e THEN "got" ELSE spc[d]
  BY <1>1, <1>2 DEF ScanFinds
<1>7. UNCHANGED <<state, sendseq, sendwin, recvseq, sin, sout, rin,
                  rout, mpc, wleft, eof, pkt, vpc, vpkt, net>>
  BY DEF ScanFinds, bufVars, appVars, receiverVars
<1> HIDE DEF k
<1>8. k = <<e, NextChan(sid[e])>>
  BY DEF k
<1> QED BY <1>2, <1>3, <1>4, <1>5, <1>6, <1>7, <1>8

\* sender_scan() goes on, or to sleep.
LEMMA ScanFindsNothingEffect ==
    ASSUME TypeOK, NEW e \in Ends, ScanFindsNothing(e)
    PROVE  /\ spc[e] = "scan"
           /\ \A d \in Ends :
                /\ d # e => sid'[d] = sid[d] /\ spc'[d] = spc[d]
                /\ d = e => spc'[d] \in {"scan", "wait"}
           /\ UNCHANGED <<state, flags, sendseq, sendwin, recvseq, sin, sout,
                          rin, rout, mpc, wleft, eof, what, pkt, vpc, vpkt, net>>
<1>1. sid \in [Ends -> Chans] /\ \E S : spc \in [Ends -> S]
  BY DEF TypeOK
<1> QED BY <1>1 DEF ScanFindsNothing, chanVars, bufVars, appVars, receiverVars

\* sender_loop() fills in a header.
LEMMA BuildPacketEffect ==
    ASSUME TypeOK, NEW e \in Ends, BuildPacket(e)
    PROVE  /\ spc[e] = "got" /\ <<e, sid[e]>> \in Sides
           /\ \A d \in Ends :
                /\ pkt'[d] = IF d = e THEN Header(<<e, sid[e]>>, what[e]) ELSE pkt[d]
                /\ what'[d] = IF d = e THEN "NONE" ELSE what[d]
                /\ spc'[d] = IF d = e THEN "write" ELSE spc[d]
           /\ UNCHANGED <<state, flags, sendseq, sendwin, recvseq, sin, sout,
                          rin, rout, mpc, wleft, eof, sid, vpc, vpkt, net>>
<1>1. /\ sid \in [Ends -> Chans] /\ pkt \in [Ends -> Packets]
      /\ \E S : what \in [Ends -> S]
      /\ \E S : spc \in [Ends -> S]
  BY DEF TypeOK
<1>2. <<e, sid[e]>> \in Sides
  BY <1>1, SideFacts
<1> QED BY <1>1, <1>2 DEF BuildPacket, chanVars, bufVars, appVars, receiverVars

\* sock_write() and sock_writev().
LEMMA WritePacketEffect ==
    ASSUME TypeOK, NEW e \in Ends, WritePacket(e)
    PROVE  /\ spc[e] = "write"
           /\ \A d \in Ends :
                /\ net'[d] = IF d = e THEN Append(net[d], pkt[d]) ELSE net[d]
                /\ spc'[d] = IF d # e THEN spc[d]
                             ELSE IF pkt[d].type = "DATA" THEN "post" ELSE "scan"
                /\ pkt'[d] = IF d = e /\ pkt[d].type # "DATA" THEN NoPkt
                             ELSE pkt[d]
           /\ UNCHANGED <<state, flags, sendseq, sendwin, recvseq, sin, sout,
                          rin, rout, mpc, wleft, eof, sid, what, vpc, vpkt>>
<1>1. /\ pkt \in [Ends -> Packets]
      /\ \E S : net \in [Ends -> S]
      /\ \E S : spc \in [Ends -> S]
  BY DEF TypeOK
<1> QED BY <1>1 DEF WritePacket, chanVars, bufVars, appVars, receiverVars

\* The bytes of a data packet leave the send buffer.
LEMMA PostDataEffect ==
    ASSUME TypeOK, NEW e \in Ends, PostData(e)
    PROVE  /\ spc[e] = "post"
           /\ \A j \in Sides :
                IF j[1] = e /\ pkt[e].id = j[2]
                THEN /\ sendseq'[j] = Plus(sendseq[j], pkt[e].len)
                     /\ sout'[j] = sout[j] + pkt[e].len
                ELSE sendseq'[j] = sendseq[j] /\ sout'[j] = sout[j]
           /\ \A d \in Ends :
                /\ spc'[d] = IF d = e THEN "scan" ELSE spc[d]
                /\ pkt'[d] = IF d = e THEN NoPkt ELSE pkt[d]
           /\ UNCHANGED <<state, flags, sendwin, recvseq, sin, rin, rout, mpc,
                          wleft, eof, sid, what, vpc, vpkt, net>>
<1> DEFINE k == <<e, pkt[e].id>>
<1>1. /\ pkt \in [Ends -> Packets] /\ sout \in [Sides -> Nat]
      /\ \E S : sendseq \in [Sides -> S]
      /\ \E S : spc \in [Ends -> S]
  BY DEF TypeOK
<1>2. pkt[e].id \in Chans
  BY <1>1 DEF Packets
<1>3. k \in Sides /\ \A j \in Sides : j[1] = e /\ pkt[e].id = j[2] <=> j = k
  BY <1>2, SideFacts
<1> HIDE DEF k
<1>4. /\ spc[e] = "post"
      /\ sendseq' = [sendseq EXCEPT ![k] = Plus(@, pkt[e].len)]
      /\ sout' = [sout EXCEPT ![k] = @ + pkt[e].len]
      /\ spc' = [spc EXCEPT ![e] = "scan"]
      /\ pkt' = [pkt EXCEPT ![e] = NoPkt]
      /\ UNCHANGED <<state, flags, sendwin, recvseq, sin, rin, rout, mpc,
                     wleft, eof, sid, what, vpc, vpkt, net>>
  BY DEF PostData, PostSize, appVars, receiverVars, k
<1> QED BY <1>1, <1>3, <1>4

\* A receiver takes the first packet of the line.
LEMMA ArrivesEffect ==
    ASSUME TypeOK, NEW e \in Ends, NEW kinds, Arrives(e, kinds)
    PROVE  LET p == Head(net[Peer(e)]) IN
           /\ vpc[e] = "idle" /\ net[Peer(e)] # <<>>
           /\ p \in Packets /\ p.type \in kinds /\ <<e, p.id>> \in Sides
           /\ \A d \in Ends :
                net'[d] = IF d = Peer(e) THEN Tail(net[d]) ELSE net[d]
<1>1. /\ vpc[e] = "idle" /\ net[Peer(e)] # <<>> /\ Head(net[Peer(e)]).type \in kinds
      /\ net' = [net EXCEPT ![Peer(e)] = Tail(@)]
  BY DEF Arrives
<1>2. \A d \in Ends :
        net'[d] = IF d = Peer(e) THEN Tail(net[d]) ELSE net[d]
  BY <1>1, SideFacts DEF TypeOK
<1> QED BY <1>1, <1>2, HeadFacts

\* receiver_loop(), MUX_CONNECT.
LEMMA ReceiveConnectEffect ==
    ASSUME TypeOK, NEW e \in Ends, ReceiveConnect(e), NEW p, NEW k,
           p = Head(net[Peer(e)]), k = <<e, p.id>>
    PROVE  /\ Arrives(e, {"CONNECT"}) /\ k \in Sides
           /\ state[k] = "LISTENING" =>
                /\ state'[k] = "ESTABLISHED" /\ sendwin'[k] = p.win
                /\ flags'[k] = flags[k] \cup {"ACCEPT"}
           /\ state[k] # "LISTENING" =>
                /\ state'[k] = state[k] /\ sendwin'[k] = sendwin[k]
                /\ flags'[k] = flags[k] \cup {"RESET"}
           /\ \A j \in Sides : j # k =>
                /\ state'[j] = state[j] /\ sendwin'[j] = sendwin[j]
                /\ flags'[j] = flags[j]
           /\ UNCHANGED <<sendseq, recvseq, sin, sout, rin, rout, mpc, wleft,
                          eof, spc, sid, what, pkt, vpc, vpkt>>
<1>1. /\ state \in [Sides -> States] /\ flags \in [Sides -> SUBSET Kinds]
      /\ \E S : sendwin \in [Sides -> S]
  BY DEF TypeOK
<1>2. Arrives(e, {"CONNECT"})
  BY DEF ReceiveConnect
<1>3. k \in Sides
  BY <1>2, ArrivesEffect
<1>4. UNCHANGED <<sendseq, recvseq, sin, sout, rin, rout, mpc, wleft,
                  eof, spc, sid, what, pkt, vpc, vpkt>>
  BY DEF ReceiveConnect, bufVars, appVars, senderVars, receiverVars
<1>5. CASE state[k] = "LISTENING"
  BY <1>1, <1>2, <1>3, <1>4, <1>5 DEF ReceiveConnect
<1>6. CASE state[k] # "LISTENING"
  BY <1>1, <1>2, <1>3, <1>4, <1>6 DEF ReceiveConnect
<1> QED BY <1>5, <1>6

\* receiver_loop(), MUX_ACCEPT.
LEMMA ReceiveAcceptEffect ==
    ASSUME TypeOK, NEW e \in Ends, ReceiveAccept(e), NEW p, NEW k,
           p = Head(net[Peer(e)]), k = <<e, p.id>>
    PROVE  /\ Arrives(e, {"ACCEPT"}) /\ k \in Sides
           /\ state[k] = "CONNECTING" =>
                /\ state'[k] = "ESTABLISHED" /\ sendwin'[k] = p.win
                /\ flags'[k] = flags[k]
           /\ state[k] # "CONNECTING" =>
                /\ state'[k] = state[k] /\ sendwin'[k] = sendwin[k]
                /\ flags'[k] = flags[k] \cup {"RESET"}
           /\ \A j \in Sides : j # k =>
                /\ state'[j] = state[j] /\ sendwin'[j] = sendwin[j]
                /\ flags'[j] = flags[j]
           /\ UNCHANGED <<sendseq, recvseq, sin, sout, rin, rout, mpc, wleft,
                          eof, spc, sid, what, pkt, vpc, vpkt>>
<1>1. /\ state \in [Sides -> States] /\ flags \in [Sides -> SUBSET Kinds]
      /\ \E S : sendwin \in [Sides -> S]
  BY DEF TypeOK
<1>2. Arrives(e, {"ACCEPT"})
  BY DEF ReceiveAccept
<1>3. k \in Sides
  BY <1>2, ArrivesEffect
<1>4. UNCHANGED <<sendseq, recvseq, sin, sout, rin, rout, mpc, wleft,
                  eof, spc, sid, what, pkt, vpc, vpkt>>
  BY DEF ReceiveAccept, bufVars, appVars, senderVars, receiverVars
<1>5. CASE state[k] = "CONNECTING"
  BY <1>1, <1>2, <1>3, <1>4, <1>5 DEF ReceiveAccept
<1>6. CASE state[k] # "CONNECTING"
  BY <1>1, <1>2, <1>3, <1>4, <1>6 DEF ReceiveAccept
<1> QED BY <1>5, <1>6

\* receiver_loop(), MUX_WINDOW.
LEMMA ReceiveWindowEffect ==
    ASSUME TypeOK, NEW e \in Ends, ReceiveWindow(e), NEW p, NEW k,
           p = Head(net[Peer(e)]), k = <<e, p.id>>
    PROVE  /\ Arrives(e, {"WINDOW"}) /\ k \in Sides
           /\ \A j \in Sides :
                sendwin'[j] = IF j = k /\ state[k] \in {"ESTABLISHED", "RDCLOSED"}
                              THEN p.win ELSE sendwin[j]
           /\ UNCHANGED <<state, flags, sendseq, recvseq, sin, sout, rin, rout,
                          mpc, wleft, eof, spc, sid, what, pkt, vpc, vpkt>>
<1>1. \E S : sendwin \in [Sides -> S]
  BY DEF TypeOK
<1>2. Arrives(e, {"WINDOW"})
  BY DEF ReceiveWindow
<1>3. k \in Sides
  BY <1>2, ArrivesEffect
<1>4. UNCHANGED <<state, flags, sendseq, recvseq, sin, sout, rin, rout,
                  mpc, wleft, eof, spc, sid, what, pkt, vpc, vpkt>>
  BY DEF ReceiveWindow, bufVars, appVars, senderVars, receiverVars
<1> QED BY <1>1, <1>2, <1>3, <1>4 DEF ReceiveWindow

\* receiver_loop(), MUX_DATA up to the payload, and MUX_RESET.
LEMMA ReceiveDataEffect ==
    ASSUME TypeOK, NEW e \in Ends, ReceiveData(e), NEW p, NEW k,
           p = Head(net[Peer(e)]), k = <<e, p.id>>
    PROVE  /\ Arrives(e, {"DATA", "RESET"}) /\ k \in Sides
           /\ IF \/ p.type = "RESET"
                 \/ state[k] \notin {"ESTABLISHED", "WRCLOSED"}
                 \/ p.len > RecvAvail(k)
                 \/ p.len > MSS
              THEN /\ \A d \in Ends : vpc'[d] = IF d = e THEN "bad" ELSE vpc[d]
                   /\ UNCHANGED vpkt
              ELSE \A d \in Ends :
                     /\ vpc'[d] = IF d = e THEN "data" ELSE vpc[d]
                     /\ vpkt'[d] = IF d = e THEN p ELSE vpkt[d]
           /\ UNCHANGED <<state, flags, sendseq, sendwin, recvseq, sin, sout,
                          rin, rout, mpc, wleft, eof, spc, sid, what, pkt>>
<1>1. vpkt \in [Ends -> Packets] /\ \E S : vpc \in [Ends -> S]
  BY DEF TypeOK
<1>2. Arrives(e, {"DATA", "RESET"})
  BY DEF ReceiveData
<1>3. k \in Sides
  BY <1>2, ArrivesEffect
<1>4. UNCHANGED <<state, flags, sendseq, sendwin, recvseq, sin, sout,
                  rin, rout, mpc, wleft, eof, spc, sid, what, pkt>>
  BY DEF ReceiveData, chanVars, bufVars, appVars, senderVars
<1> QED BY <1>1, <1>2, <1>3, <1>4 DEF ReceiveData

\* receiver_loop(), the payload of MUX_DATA.
LEMMA PayloadReadEffect ==
    ASSUME TypeOK, NEW e \in Ends, PayloadRead(e)
    PROVE  /\ vpc[e] = "data"
           /\ \A j \in Sides :
                rin'[j] = IF j[1] = e /\ vpkt[e].id = j[2]
                          THEN rin[j] + vpkt[e].len ELSE rin[j]
           /\ \A d \in Ends :
                /\ vpc'[d] = IF d = e THEN "idle" ELSE vpc[d]
                /\ vpkt'[d] = IF d = e THEN NoPkt ELSE vpkt[d]
           /\ UNCHANGED <<state, flags, sendseq, sendwin, recvseq, sin, sout,
                          rout, mpc, wleft, eof, spc, sid, what, pkt, net>>
<1> DEFINE k == <<e, vpkt[e].id>>
<1>1. /\ vpkt \in [Ends -> Packets] /\ rin \in [Sides -> Nat]
      /\ \E S : vpc \in [Ends -> S]
  BY DEF TypeOK
<1>2. vpkt[e].id \in Chans
  BY <1>1 DEF Packets
<1>3. k \in Sides /\ \A j \in Sides : j[1] = e /\ vpkt[e].id = j[2] <=> j = k
  BY <1>2, SideFacts
<1> HIDE DEF k
<1>4. /\ vpc[e] = "data"
      /\ rin' = [rin EXCEPT ![k] = @ + vpkt[e].len]
      /\ vpc' = [vpc EXCEPT ![e] = "idle"]
      /\ vpkt' = [vpkt EXCEPT ![e] = NoPkt]
      /\ UNCHANGED <<state, flags, sendseq, sendwin, recvseq, sin, sout,
                     rout, mpc, wleft, eof, spc, sid, what, pkt, net>>
  BY DEF PayloadRead, chanVars, appVars, senderVars, k
<1> QED BY <1>1, <1>3, <1>4

\* receiver_loop(), MUX_CLOSE.
LEMMA ReceiveCloseEffect ==
    ASSUME TypeOK, NEW e \in Ends, ReceiveClose(e), NEW p, NEW k,
           p = Head(net[Peer(e)]), k = <<e, p.id>>
    PROVE  /\ Arrives(e, {"CLOSE"}) /\ k \in Sides
           /\ IF state[k] \in {"ESTABLISHED", "WRCLOSED"}
              THEN /\ \A j \in Sides :
                        state'[j] = IF j # k THEN state[j]
                                    ELSE IF state[j] = "ESTABLISHED"
                                    THEN "RDCLOSED" ELSE "CLOSED"
                   /\ UNCHANGED vpc
              ELSE /\ \A d \in Ends : vpc'[d] = IF d = e THEN "bad" ELSE vpc[d]
                   /\ UNCHANGED state
           /\ UNCHANGED <<flags, sendseq, sendwin, recvseq, sin, sout, rin,
                          rout, mpc, wleft, eof, spc, sid, what, pkt, vpkt>>
<1>1. state \in [Sides -> States] /\ \E S : vpc \in [Ends -> S]
  BY DEF TypeOK
<1>2. Arrives(e, {"CLOSE"})
  BY DEF ReceiveClose
<1>3. k \in Sides
  BY <1>2, ArrivesEffect
<1>4. UNCHANGED <<flags, sendseq, sendwin, recvseq, sin, sout, rin,
                  rout, mpc, wleft, eof, spc, sid, what, pkt, vpkt>>
  BY DEF ReceiveClose, bufVars, appVars, senderVars
<1> QED BY <1>1, <1>2, <1>3, <1>4 DEF ReceiveClose

\* The other actions only move threads from one place to another.
LEMMA OtherEffect ==
    ASSUME TypeOK,
           \/ \E a \in Callers : WakeupStep(a)
           \/ SpuriousStep
           \/ Finished
    PROVE  /\ \A d \in Ends :
                spc'[d] = spc[d] \/ (spc[d] = "wait" /\ spc'[d] = "scan")
           /\ UNCHANGED <<state, flags, sendseq, sendwin, recvseq, sin, sout,
                          rin, rout, mpc, wleft, eof, sid, what, pkt, vpc,
                          vpkt, net>>
<1>1. spc \in [Ends -> {"wait", "scan", "got", "write", "post"}]
  BY DEF TypeOK
<1>2. CASE Finished
  BY <1>2 DEF Finished, vars, chanVars, bufVars, appVars, senderVars, receiverVars
<1>3. CASE \E a \in Callers : WakeupStep(a)
  BY <1>1, <1>3 DEF WakeupStep, WakeupRead, WakeupSignal, chanVars, bufVars,
     appVars, senderVars, receiverVars
<1>4. CASE SpuriousStep
  BY <1>1, <1>4 DEF SpuriousStep, SpuriousWakeup, SenderSpuriousWakeup,
     chanVars, bufVars, appVars, senderVars, receiverVars
<1> QED BY <1>2, <1>3, <1>4

-----------------------------------------------------------------------------
(* What the sender thread has picked or has in its hands *)

\* Nothing the others do changes it.
LEMMA SenderRests ==
    ASSUME UNCHANGED <<sid, what, pkt>>,
           \A e \in Ends : spc'[e] = spc[e] \/ {spc[e], spc'[e]} \subseteq {"scan", "wait"}
    PROVE  \A j \in Sides : Picked(j)' = Picked(j) /\ (Busy(j)' <=> Busy(j))
<1> SUFFICES ASSUME NEW j \in Sides
             PROVE  Picked(j)' = Picked(j) /\ (Busy(j)' <=> Busy(j))
  OBVIOUS
<1>1. j[1] \in Ends
  BY SideEnds
<1> QED BY <1>1 DEF Picked, Busy

\* A scan that finds work moves one kind from the flags of one channel to the
\* hands of the sender thread, and that kind is the most important one.
LEMMA SenderPicks ==
    ASSUME TypeOK, NEW e \in Ends, ScanFinds(e)
    PROVE  \E k \in Sides, kind \in Kinds :
             /\ k[1] = e /\ kind = MostImportant(Work(k)) /\ kind \in Work(k)
             /\ Picked(k) = "NONE" /\ ~Busy(k) /\ Picked(k)' = kind /\ ~Busy(k)'
             /\ flags'[k] = Work(k) \ {kind}
             /\ \A j \in Sides : j # k =>
                  /\ flags'[j] = flags[j]
                  /\ Picked(j)' = Picked(j) /\ (Busy(j)' <=> Busy(j))
<1>1. PICK k \in Sides, kind \in Kinds :
        /\ k = <<e, NextChan(sid[e])>>
        /\ kind \in Work(k) /\ kind = MostImportant(Work(k))
        /\ \A j \in Sides :
             flags'[j] = IF j = k THEN Work(k) \ {kind} ELSE flags[j]
        /\ \A d \in Ends :
             /\ what'[d] = IF d = e THEN kind ELSE what[d]
             /\ sid'[d] = IF d = e THEN k[2] ELSE sid[d]
             /\ spc'[d] = IF d = e THEN "got" ELSE spc[d]
  BY ScanFindsEffect
<1>2. spc[e] = "scan" /\ pkt' = pkt
  BY ScanFindsEffect
<1>3. k[1] = e
  BY <1>1
<1>4. Picked(k) = "NONE" /\ ~Busy(k) /\ Picked(k)' = kind /\ ~Busy(k)'
  BY <1>1, <1>2, <1>3 DEF Picked, Busy
<1>5. ASSUME NEW j \in Sides, j # k
      PROVE  Picked(j)' = Picked(j) /\ (Busy(j)' <=> Busy(j))
  <2>1. j[1] \in Ends
    BY SideEnds
  <2>2. CASE j[1] = e
    <3>1. j[2] # k[2]
      BY <1>3, <1>5, <2>2, SideFacts
    <3> QED BY <1>1, <1>2, <2>2, <3>1 DEF Picked, Busy
  <2>3. CASE j[1] # e
    BY <1>1, <1>2, <2>1, <2>3 DEF Picked, Busy
  <2> QED BY <2>2, <2>3
<1> QED BY <1>1, <1>3, <1>4, <1>5

\* The packet built is for the channel picked and of the kind picked.
LEMMA SenderBuilds ==
    ASSUME TypeOK, NEW e \in Ends, BuildPacket(e)
    PROVE  \E k \in Sides :
             /\ k[1] = e /\ k[2] = sid[e]
             /\ Picked(k) = what[e] /\ ~Busy(k)
             /\ Picked(k)' = "NONE" /\ pkt'[e] = Header(k, what[e])
             /\ \A j \in Sides : j # k =>
                  /\ Picked(j)' = Picked(j)
                  /\ pkt'[e].id = k[2] => (Busy(j)' <=> Busy(j))
<1>1. PICK k \in Sides : k = <<e, sid[e]>>
  BY BuildPacketEffect
<1>2. /\ spc[e] = "got" /\ pkt'[e] = Header(k, what[e]) /\ spc'[e] = "write"
      /\ \A d \in Ends : d # e => /\ pkt'[d] = pkt[d] /\ what'[d] = what[d]
                                  /\ spc'[d] = spc[d]
      /\ sid' = sid /\ k[1] = e /\ k[2] = sid[e]
  BY <1>1, BuildPacketEffect
<1>3. Picked(k) = what[e] /\ ~Busy(k) /\ Picked(k)' = "NONE"
  BY <1>2 DEF Picked, Busy
<1>4. ASSUME NEW j \in Sides, j # k
      PROVE  /\ Picked(j)' = Picked(j)
             /\ pkt'[e].id = k[2] => (Busy(j)' <=> Busy(j))
  <2>1. j[1] \in Ends
    BY SideEnds
  <2>2. CASE j[1] = e
    <3>1. j[2] # k[2]
      BY <1>2, <1>4, <2>2, SideFacts
    <3> QED BY <1>2, <2>2, <3>1 DEF Picked, Busy
  <2>3. CASE j[1] # e
    BY <1>2, <2>1, <2>3 DEF Picked, Busy
  <2> QED BY <2>2, <2>3
<1> QED BY <1>2, <1>3, <1>4

\* A data packet stays in the sender's hands while it is written.
LEMMA SenderWrites ==
    ASSUME TypeOK, NEW e \in Ends, WritePacket(e)
    PROVE  \A j \in Sides : Picked(j)' = Picked(j) /\ (Busy(j)' <=> Busy(j))
<1> SUFFICES ASSUME NEW j \in Sides
             PROVE  Picked(j)' = Picked(j) /\ (Busy(j)' <=> Busy(j))
  OBVIOUS
<1>1. j[1] \in Ends
  BY SideEnds
<1>2. CASE j[1] = e
  BY <1>2, WritePacketEffect DEF Picked, Busy
<1>3. CASE j[1] # e
  BY <1>1, <1>3, WritePacketEffect DEF Picked, Busy
<1> QED BY <1>2, <1>3

\* The data packet leaves the sender's hands.
LEMMA SenderPosts ==
    ASSUME TypeOK, ThreadsHold, NEW e \in Ends, PostData(e)
    PROVE  \A j \in Sides :
             /\ Picked(j)' = Picked(j)
             /\ j[1] # e => (Busy(j)' <=> Busy(j))
             /\ j[1] = e => (Busy(j) <=> pkt[e].id = j[2]) /\ ~Busy(j)'
<1> SUFFICES ASSUME NEW j \in Sides
             PROVE  /\ Picked(j)' = Picked(j)
                    /\ j[1] # e => (Busy(j)' <=> Busy(j))
                    /\ j[1] = e => (Busy(j) <=> pkt[e].id = j[2]) /\ ~Busy(j)'
  OBVIOUS
<1>1. j[1] \in Ends /\ spc[e] = "post" /\ pkt[e].type = "DATA"
  BY SideEnds, PostDataEffect DEF ThreadsHold
<1>2. CASE j[1] = e
  BY <1>1, <1>2, PostDataEffect DEF Picked, Busy
<1>3. CASE j[1] # e
  BY <1>1, <1>3, PostDataEffect DEF Picked, Busy
<1> QED BY <1>2, <1>3

-----------------------------------------------------------------------------
(* One step preserves Local, action by action *)

\* pthread_cond_signal() only wakes up.
LEMMA SignalFacts ==
    ASSUME NEW w, Signal(w)
    PROVE  asleep' \subseteq asleep
BY DEF Signal

\* A part of Local is untouched by what does not change its variables.
LEMMA LocalFrames ==
    ASSUME Local
    PROVE  /\ UNCHANGED <<spc, what, pkt, vpc, vpkt>> => ThreadsHold'
           /\ UNCHANGED <<sin, sout, wleft, spc, pkt>> => SendHolds'
           /\ UNCHANGED <<rin, rout, vpc, vpkt>> => RecvHolds'
           /\ UNCHANGED <<mpc, state, eof>> => MainKnows'
           /\ UNCHANGED <<state, sin, wleft, sendseq, sendwin>> => NothingYet'
           /\ UNCHANGED <<flags, spc, sid, what, sout, sin, pkt>> => DataPending'
<1>1. UNCHANGED <<spc, what, pkt, vpc, vpkt>> => ThreadsHold'
  BY DEF Local, ThreadsHold
<1>2. UNCHANGED <<sin, sout, wleft, spc, pkt>> => SendHolds'
  BY DEF Local, SendHolds, Busy
<1>3. UNCHANGED <<rin, rout, vpc, vpkt>> => RecvHolds'
  BY DEF Local, RecvHolds, RecvCount, RecvAvail, Filling
<1>4. UNCHANGED <<mpc, state, eof>> => MainKnows'
  BY DEF Local, MainKnows, Shut, Got
<1>5. UNCHANGED <<state, sin, wleft, sendseq, sendwin>> => NothingYet'
  BY DEF Local, NothingYet, Opened
<1>6. UNCHANGED <<flags, spc, sid, what, sout, sin, pkt>> => DataPending'
  BY DEF Local, DataPending, Picked, Busy
<1> QED BY <1>1, <1>2, <1>3, <1>4, <1>5, <1>6

\* chan_connect() up to its wait, chan_listen().
LEMMA LocalOpen ==
    ASSUME Local, NEW k \in Sides, Open(k)
    PROVE  Local'
<1>1. TypeOK /\ ThreadsHold /\ SendHolds /\ RecvHolds /\ MainKnows
      /\ NothingYet /\ DataPending
  BY DEF Local
<1>0. \A j \in Sides : Picked(j)' = Picked(j) /\ (Busy(j)' <=> Busy(j))
  BY <1>1, OpenEffect, SenderRests
<1>2. TypeOK'
  <2>1. /\ mpc \in [Sides -> {"open", "await", "opened", "failed", "drain", "done"}]
        /\ state \in [Sides -> States]
        /\ flags \in [Sides -> SUBSET Kinds]
        /\ wake \in [Callers -> {"no", "lock", "signal"}]
    BY <1>1 DEF TypeOK
  <2>2. /\ mpc' \in [Sides -> {"open", "await", "opened", "failed", "drain", "done"}]
        /\ state' \in [Sides -> States]
        /\ flags' \in [Sides -> SUBSET Kinds]
    BY <2>1 DEF Open, States, Kinds
  <2>3. wake' \in [Callers -> {"no", "lock", "signal"}]
    BY <2>1 DEF Open, CallWakeup
  <2>4. UNCHANGED <<sendseq, sendwin, recvseq, sin, sout, rin, rout, wleft,
                    eof, asleep, spc, sid, left, waiting, what, pkt, vpc, vpkt,
                    net>>
    BY DEF Open, chanVars, bufVars, appVars, senderVars, receiverVars
  <2> QED BY <1>1, <2>2, <2>3, <2>4 DEF TypeOK
<1>3. MainKnows'
  BY ZenonT(40), <1>1, OpenEffect DEF MainKnows, Shut, Got
<1>4. NothingYet'
  BY <1>1, OpenEffect DEF NothingYet, Opened
<1>5. DataPending'
  <2>1. \A j \in Sides : flags'[j] \in {flags[j], flags[j] \cup {"CONNECT"}}
    BY <1>1, OpenEffect
  <2>3. \A j \in Sides : "DATA" \in flags'[j] => "DATA" \in flags[j]
    BY <2>1
  <2>2. UNCHANGED <<sin, sout>>
    BY <1>1, OpenEffect
  <2> QED BY <1>0, <1>1, <2>2, <2>3 DEF DataPending
<1>6. ThreadsHold' /\ SendHolds' /\ RecvHolds'
  BY LocalFrames DEF Open, chanVars, bufVars, appVars, senderVars, receiverVars
<1> QED BY <1>2, <1>3, <1>4, <1>5, <1>6 DEF Local

\* chan_connect() and chan_accept(), when they wake up.
LEMMA LocalAwaitOpen ==
    ASSUME Local, NEW k \in Sides, AwaitOpen(k)
    PROVE  Local'
<1>1. TypeOK /\ ThreadsHold /\ SendHolds /\ RecvHolds /\ MainKnows
      /\ NothingYet /\ DataPending
  BY DEF Local
<1>2. TypeOK'
  <2>1. /\ mpc \in [Sides -> {"open", "await", "opened", "failed", "drain", "done"}]
        /\ asleep \in SUBSET Apps
    BY <1>1 DEF TypeOK
  <2>2. mpc' \in [Sides -> {"open", "await", "opened", "failed", "drain", "done"}]
    BY <2>1 DEF AwaitOpen
  <2>3. asleep' \in SUBSET Apps
    BY <1>1, <2>1, ThreadFacts DEF AwaitOpen
  <2>4. UNCHANGED <<state, flags, sendseq, sendwin, recvseq, sin, sout, rin,
                    rout, wleft, eof, wake, spc, sid, left, waiting, what, pkt,
                    vpc, vpkt, net>>
    BY DEF AwaitOpen, chanVars, bufVars, appVars, senderVars, receiverVars
  <2> QED BY <1>1, <2>2, <2>3, <2>4 DEF TypeOK
<1>3. MainKnows'
  BY <1>1, AwaitOpenEffect DEF MainKnows, Shut, Got
<1>4. ThreadsHold' /\ SendHolds' /\ RecvHolds' /\ NothingYet' /\ DataPending'
  BY LocalFrames DEF AwaitOpen, chanVars, bufVars, appVars, senderVars, receiverVars
<1> QED BY <1>2, <1>3, <1>4 DEF Local

\* chan_write().
LEMMA LocalChanWrite ==
    ASSUME Local, NEW k \in Sides, NEW n \in 1..SBSize, ChanWrite(k, n)
    PROVE  Local'
<1>1. TypeOK /\ ThreadsHold /\ SendHolds /\ RecvHolds /\ MainKnows
      /\ NothingYet /\ DataPending
  BY DEF Local
<1>0. \A j \in Sides : Picked(j)' = Picked(j) /\ (Busy(j)' <=> Busy(j))
  BY <1>1, ChanWriteEffect, SenderRests
<1>2. TypeOK'
  <2>1. /\ sin \in [Sides -> Nat]
        /\ wleft \in [Sides -> Nat]
        /\ wake \in [Callers -> {"no", "lock", "signal"}]
        /\ asleep \in SUBSET Apps
    BY <1>1 DEF TypeOK
  <2>2. /\ sin' \in [Sides -> Nat]
        /\ wleft' \in [Sides -> Nat]
    <3>1. sin[k] \in Nat /\ sout[k] \in Nat /\ sout[k] <= sin[k]
          /\ sin[k] - sout[k] <= SBSize
      BY <1>1, SideTypes DEF SendHolds
    <3>2. Min2(n, SendAvail(k)) \in 0..n
      BY <3>1, MuxAssumption DEF Min2, SendAvail, SendCount
    <3>3. sin[k] + Min2(n, SendAvail(k)) \in Nat /\ n - Min2(n, SendAvail(k)) \in Nat
      BY <3>1, <3>2
    <3> QED BY <2>1, <3>3 DEF ChanWrite
  <2>3. wake' \in [Callers -> {"no", "lock", "signal"}]
    BY <2>1 DEF ChanWrite, CallWakeup
  <2>4. asleep' \in SUBSET Apps
    BY <1>1, <2>1, ThreadFacts DEF ChanWrite
  <2>5. UNCHANGED <<state, flags, sendseq, sendwin, recvseq, sout, rin, rout,
                    mpc, eof, spc, sid, left, waiting, what, pkt, vpc, vpkt,
                    net>>
    BY DEF ChanWrite, chanVars, bufVars, appVars, senderVars, receiverVars
  <2> QED BY <1>1, <2>2, <2>3, <2>4, <2>5 DEF TypeOK
<1>3. SendHolds'
  <2>1. /\ sin[k] \in Nat /\ sout[k] \in Nat /\ sout[k] <= sin[k]
        /\ sin[k] - sout[k] <= SBSize
    BY <1>1, SideTypes DEF SendHolds
  <2>2. PICK put \in Int :
          /\ put = Min2(n, SendAvail(k))
          /\ \A j \in Sides :
               /\ sin'[j] = IF j = k THEN sin[j] + put ELSE sin[j]
               /\ wleft'[j] = IF j = k THEN n - put ELSE wleft[j]
    BY <1>1, ChanWriteEffect
  <2>3. put \in 0..n /\ put <= SBSize - (sin[k] - sout[k])
    BY <2>1, <2>2, MuxAssumption DEF Min2, SendAvail, SendCount
  <2>4. UNCHANGED <<sout, pkt>>
    BY <1>1, ChanWriteEffect
  <2>5. \A j \in Sides : pkt[j[1]].len \in Nat /\ sin[j] \in Nat /\ sout[j] \in Nat
    BY <1>1, SideTypes, EndTypes, SideEnds
  <2>6. ASSUME NEW j \in Sides
        PROVE  /\ sout'[j] <= sin'[j] /\ sin'[j] - sout'[j] <= SBSize
               /\ wleft'[j] <= SBSize /\ sin[j] <= sin'[j] /\ sin'[j] \in Nat
    <3>1. CASE j = k
      BY <2>1, <2>2, <2>3, <2>4, <3>1, MuxAssumption
    <3>2. CASE j # k
      BY <1>1, <2>2, <2>4, <2>5, <3>2 DEF SendHolds
    <3> QED BY <3>1, <3>2
  <2>7. ASSUME NEW j \in Sides, Busy(j)
        PROVE  /\ pkt'[j[1]].from = sout'[j] /\ pkt'[j[1]].len < SeqMod
               /\ pkt'[j[1]].len <= sin'[j] - sout'[j]
    BY <1>1, <2>4, <2>5, <2>6, <2>7 DEF SendHolds
  <2> QED BY <1>0, <2>6, <2>7 DEF SendHolds
<1>4. NothingYet'
  BY <1>1, ChanWriteEffect DEF NothingYet, Opened
<1>5. DataPending'
  <2>1. \A j \in Sides : sin[j] <= sin'[j]
    <3>1. sin[k] \in Nat /\ sout[k] \in Nat /\ sin[k] - sout[k] <= SBSize
      BY <1>1, SideTypes DEF SendHolds
    <3>2. Min2(n, SendAvail(k)) \in Nat
      BY <3>1, MuxAssumption DEF Min2, SendAvail, SendCount
    <3>3. \A j \in Sides : sin[j] \in Nat
      BY <1>1, SideTypes
    <3> QED BY <1>1, <3>2, <3>3, ChanWriteEffect
  <2>2. UNCHANGED <<sout, flags>> /\ \A j \in Sides : sin[j] \in Nat /\ sout[j] \in Nat /\ sin'[j] \in Nat
    <3>1. UNCHANGED <<sout, flags>>
      BY <1>1, ChanWriteEffect
    <3>2. \A j \in Sides : sin[j] \in Nat /\ sout[j] \in Nat
      BY <1>1, SideTypes
    <3>3. \A j \in Sides : sin'[j] \in Nat
      BY <1>2 DEF TypeOK
    <3> QED BY <3>1, <3>2, <3>3
  <2> QED BY <1>0, <1>1, <2>1, <2>2 DEF DataPending
<1>6. ThreadsHold' /\ RecvHolds' /\ MainKnows'
  BY LocalFrames DEF ChanWrite, chanVars, bufVars, appVars, senderVars, receiverVars
<1> QED BY <1>2, <1>3, <1>4, <1>5, <1>6 DEF Local

\* chan_read().
LEMMA LocalChanRead ==
    ASSUME Local, NEW k \in Sides, NEW n \in ReadSizes, ChanRead(k, n)
    PROVE  Local'
<1>1. TypeOK /\ ThreadsHold /\ SendHolds /\ RecvHolds /\ MainKnows
      /\ NothingYet /\ DataPending
  BY DEF Local
<1>0. \A j \in Sides : Picked(j)' = Picked(j) /\ (Busy(j)' <=> Busy(j))
  BY <1>1, ChanReadEffect, SenderRests
<1>2. TypeOK'
  <2>1. /\ eof \in [Sides -> BOOLEAN]
        /\ flags \in [Sides -> SUBSET Kinds]
        /\ recvseq \in [Sides -> 0..(SeqMod - 1)]
        /\ rout \in [Sides -> Nat]
        /\ asleep \in SUBSET Apps
        /\ wake \in [Callers -> {"no", "lock", "signal"}]
    BY <1>1 DEF TypeOK
  <2>2. eof' \in [Sides -> BOOLEAN]
    BY <2>1 DEF ChanRead
  <2>3. flags' \in [Sides -> SUBSET Kinds]
    BY <2>1 DEF ChanRead, Kinds
  <2>4. /\ recvseq' \in [Sides -> 0..(SeqMod - 1)]
        /\ rout' \in [Sides -> Nat]
    <3>1. /\ rin[k] \in Nat /\ rout[k] \in Nat /\ rout[k] <= rin[k] /\ n \in Nat
          /\ RecvCount(k) <= RBSize /\ recvseq[k] \in SeqNums
      BY <1>1, SideTypes, MuxAssumption DEF RecvHolds
    <3>2. Min2(RecvCount(k), n) \in 0..RBSize
      BY <3>1, MuxAssumption DEF Min2, RecvCount
    <3>3. CASE Got(k) \/ RecvCount(k) = 0
      BY <2>1, <3>3 DEF ChanRead, Got
    <3>4. CASE ~Got(k) /\ RecvCount(k) # 0
      <4>1. /\ rout' = [rout EXCEPT ![k] = @ + Min2(RecvCount(k), n)]
            /\ recvseq' = [recvseq EXCEPT ![k] = Plus(@, Min2(RecvCount(k), n))]
        BY <3>4 DEF ChanRead, Got
      <4>2. Plus(recvseq[k], Min2(RecvCount(k), n)) \in 0..(SeqMod - 1)
        BY <3>1, <3>2, MuxAssumption DEF Plus, SeqNums
      <4>3. rout[k] + Min2(RecvCount(k), n) \in Nat
        BY <3>1, <3>2
      <4> QED BY <2>1, <4>1, <4>2, <4>3
    <3> QED BY <3>3, <3>4
  <2>5. asleep' \in SUBSET Apps
    BY <1>1, <2>1, ThreadFacts DEF ChanRead
  <2>6. wake' \in [Callers -> {"no", "lock", "signal"}]
    BY <2>1 DEF ChanRead, CallWakeup
  <2>7. UNCHANGED <<state, sendseq, sendwin, sin, sout, rin, mpc, wleft, spc,
                    sid, left, waiting, what, pkt, vpc, vpkt, net>>
    BY DEF ChanRead, chanVars, bufVars, appVars, senderVars, receiverVars
  <2> QED BY <1>1, <2>2, <2>3, <2>4, <2>5, <2>6, <2>7 DEF TypeOK
<1>3. RecvHolds'
  <2>1. /\ rin[k] \in Nat /\ rout[k] \in Nat /\ rout[k] <= rin[k]
        /\ n \in Nat /\ RecvCount(k) <= RBSize
    BY <1>1, SideTypes, MuxAssumption DEF RecvHolds
  <2>2. Min2(RecvCount(k), n) \in 0..(rin[k] - rout[k])
    BY <2>1, MuxAssumption DEF Min2, RecvCount
  <2>3. UNCHANGED <<rin, vpc, vpkt>>
    BY <1>1, ChanReadEffect
  <2>4. \A j \in Sides : j # k => rout'[j] = rout[j]
    BY <1>1, ChanReadEffect
  <2>5. rout[k] <= rout'[k] /\ rout'[k] <= rin[k] /\ rout'[k] \in Nat
    <3>1. rout'[k] = rout[k] \/ rout'[k] = rout[k] + Min2(RecvCount(k), n)
      BY <1>1, ChanReadEffect
    <3> QED BY <2>1, <2>2, <3>1
  <2>6. \A j \in Sides : j # k => RecvCount(j)' = RecvCount(j) /\ RecvAvail(j)' = RecvAvail(j)
    BY <2>3, <2>4 DEF RecvCount, RecvAvail
  <2>7. RecvCount(k)' <= RBSize /\ RecvAvail(k) <= RecvAvail(k)' /\ RecvAvail(k) \in Int /\ RecvAvail(k)' \in Int
    BY <2>1, <2>3, <2>5, MuxAssumption DEF RecvCount, RecvAvail
  <2>8. \A j \in Sides : (Filling(j)' <=> Filling(j)) /\ vpkt[j[1]].len \in Nat
    BY <1>1, <2>3, EndTypes, SideEnds DEF Filling
  <2> QED BY <1>1, <2>3, <2>4, <2>5, <2>6, <2>7, <2>8 DEF RecvHolds
<1>4. MainKnows'
  BY ZenonT(40), <1>1, ChanReadEffect DEF MainKnows, Shut, Got
<1>5. DataPending'
  BY <1>0, <1>1, ChanReadEffect DEF DataPending
<1>6. ThreadsHold' /\ SendHolds' /\ NothingYet'
  BY LocalFrames DEF ChanRead, chanVars, bufVars, appVars, senderVars, receiverVars
<1> QED BY <1>2, <1>3, <1>4, <1>5, <1>6 DEF Local

\* chan_close().
LEMMA LocalChanClose ==
    ASSUME Local, NEW k \in Sides, ChanClose(k)
    PROVE  Local'
<1>1. TypeOK /\ ThreadsHold /\ SendHolds /\ RecvHolds /\ MainKnows
      /\ NothingYet /\ DataPending
  BY DEF Local
<1>0. \A j \in Sides : Picked(j)' = Picked(j) /\ (Busy(j)' <=> Busy(j))
  BY <1>1, ChanCloseEffect, SenderRests
<1>2. TypeOK'
  <2>1. /\ mpc \in [Sides -> {"open", "await", "opened", "failed", "drain", "done"}]
        /\ state \in [Sides -> States]
        /\ flags \in [Sides -> SUBSET Kinds]
        /\ wake \in [Callers -> {"no", "lock", "signal"}]
    BY <1>1 DEF TypeOK
  <2>2. /\ mpc' \in [Sides -> {"open", "await", "opened", "failed", "drain", "done"}]
        /\ state' \in [Sides -> States]
        /\ flags' \in [Sides -> SUBSET Kinds]
    BY <2>1 DEF ChanClose, States, Kinds
  <2>3. wake' \in [Callers -> {"no", "lock", "signal"}]
    BY <2>1 DEF ChanClose, CallWakeup
  <2>4. UNCHANGED <<sendseq, sendwin, recvseq, sin, sout, rin, rout, wleft,
                    eof, asleep, spc, sid, left, waiting, what, pkt, vpc, vpkt,
                    net>>
    BY DEF ChanClose, chanVars, bufVars, appVars, senderVars, receiverVars
  <2> QED BY <1>1, <2>2, <2>3, <2>4 DEF TypeOK
<1>3. MainKnows'
  BY ZenonT(40), <1>1, ChanCloseEffect DEF MainKnows, Shut, Got
<1>4. NothingYet'
  BY <1>1, ChanCloseEffect DEF NothingYet, Opened
<1>5. DataPending'
  <2>1. \A j \in Sides : flags'[j] \in {flags[j], flags[j] \cup {"CLOSE"}}
    BY <1>1, ChanCloseEffect
  <2>3. \A j \in Sides : "DATA" \in flags'[j] => "DATA" \in flags[j]
    BY <2>1
  <2>2. UNCHANGED <<sin, sout>>
    BY <1>1, ChanCloseEffect
  <2> QED BY <1>0, <1>1, <2>2, <2>3 DEF DataPending
<1>6. ThreadsHold' /\ SendHolds' /\ RecvHolds'
  BY LocalFrames DEF ChanClose, chanVars, bufVars, appVars, senderVars, receiverVars
<1> QED BY <1>2, <1>3, <1>4, <1>5, <1>6 DEF Local

\* chan_wait().
LEMMA LocalChanWait ==
    ASSUME Local, NEW k \in Sides, ChanWait(k)
    PROVE  Local'
<1>1. TypeOK /\ ThreadsHold /\ SendHolds /\ RecvHolds /\ MainKnows
      /\ NothingYet /\ DataPending
  BY DEF Local
<1>2. TypeOK'
  <2>1. /\ mpc \in [Sides -> {"open", "await", "opened", "failed", "drain", "done"}]
        /\ asleep \in SUBSET Apps
    BY <1>1 DEF TypeOK
  <2>2. mpc' \in [Sides -> {"open", "await", "opened", "failed", "drain", "done"}]
    BY <2>1 DEF ChanWait
  <2>3. asleep' \in SUBSET Apps
    BY <1>1, <2>1, ThreadFacts DEF ChanWait
  <2>4. UNCHANGED <<state, flags, sendseq, sendwin, recvseq, sin, sout, rin,
                    rout, wleft, eof, wake, spc, sid, left, waiting, what, pkt,
                    vpc, vpkt, net>>
    BY DEF ChanWait, chanVars, bufVars, appVars, senderVars, receiverVars
  <2> QED BY <1>1, <2>2, <2>3, <2>4 DEF TypeOK
<1>3. MainKnows'
  BY <1>1, ChanWaitEffect DEF MainKnows, Shut, Got
<1>4. ThreadsHold' /\ SendHolds' /\ RecvHolds' /\ NothingYet' /\ DataPending'
  BY LocalFrames DEF ChanWait, chanVars, bufVars, appVars, senderVars, receiverVars
<1> QED BY <1>2, <1>3, <1>4 DEF Local

\* sender_scan(), when it finds work.
LEMMA LocalScanFinds ==
    ASSUME Local, NEW e \in Ends, ScanFinds(e)
    PROVE  Local'
<1>1. TypeOK /\ ThreadsHold /\ SendHolds /\ RecvHolds /\ MainKnows
      /\ NothingYet /\ DataPending
  BY DEF Local
<1>2. TypeOK'
  <2>1. /\ what \in [Ends -> Kinds \cup {"NONE"}]
        /\ flags \in [Sides -> SUBSET Kinds]
        /\ sid \in [Ends -> Chans]
        /\ left \in [Ends -> 0..NChan]
        /\ waiting \in [Ends -> BOOLEAN]
        /\ spc \in [Ends -> {"wait", "scan", "got", "write", "post"}]
    BY <1>1 DEF TypeOK
  <2>2. /\ what' \in [Ends -> Kinds \cup {"NONE"}]
        /\ flags' \in [Sides -> SUBSET Kinds]
    <3> DEFINE k == <<e, NextChan(sid[e])>>
    <3>1. k \in Sides
      BY <2>1, NextChanType, SideFacts
    <3>2. Work(k) \in SUBSET Kinds /\ Work(k) # {}
      BY <2>1, <3>1 DEF ScanFinds, Work, Kinds
    <3>3. MostImportant(Work(k)) \in Kinds
      BY <3>2, MostImportantFacts
    <3>4. /\ what' = [what EXCEPT ![e] = MostImportant(Work(k))]
          /\ flags' = [flags EXCEPT ![k] = Work(k) \ {MostImportant(Work(k))}]
      BY DEF ScanFinds
    <3> HIDE DEF k
    <3> QED BY <2>1, <3>2, <3>3, <3>4
  <2>3. sid' \in [Ends -> Chans]
    BY <2>1, NextChanType DEF ScanFinds
  <2>4. /\ left' \in [Ends -> 0..NChan]
        /\ waiting' \in [Ends -> BOOLEAN]
        /\ spc' \in [Ends -> {"wait", "scan", "got", "write", "post"}]
    BY <2>1, MuxAssumption DEF ScanFinds
  <2>5. UNCHANGED <<state, sendseq, sendwin, recvseq, sin, sout, rin, rout,
                    mpc, wleft, eof, asleep, wake, pkt, vpc, vpkt, net>>
    BY DEF ScanFinds, chanVars, bufVars, appVars, senderVars, receiverVars
  <2> QED BY <1>1, <2>2, <2>3, <2>4, <2>5 DEF TypeOK
<1>3. ThreadsHold'
  BY ZenonT(40), <1>1, ScanFindsEffect DEF ThreadsHold
<1>4. SendHolds'
  BY <1>1, SenderPicks, ScanFindsEffect DEF SendHolds
<1>5. DataPending'
  <2>1. PICK k \in Sides, kind \in Kinds :
          /\ kind \in Work(k) /\ Picked(k)' = kind /\ ~Busy(k)' /\ flags'[k] = Work(k) \ {kind}
          /\ \A j \in Sides : j # k =>
               /\ flags'[j] = flags[j]
               /\ Picked(j)' = Picked(j) /\ (Busy(j)' <=> Busy(j))
    BY <1>1, SenderPicks
  <2>2. UNCHANGED <<sin, sout>> /\ sin[k] \in Nat /\ sout[k] \in Nat
    BY <1>1, ScanFindsEffect, SideTypes
  <2>3. "DATA" \in Work(k) => sout[k] < sin[k]
    BY <1>1, <2>2 DEF Work, SendCount, DataPending
  <2> QED BY <1>1, <2>1, <2>2, <2>3 DEF DataPending
<1>6. RecvHolds' /\ MainKnows' /\ NothingYet'
  BY LocalFrames DEF ScanFinds, chanVars, bufVars, appVars, senderVars, receiverVars
<1> QED BY <1>2, <1>3, <1>4, <1>5, <1>6 DEF Local

\* sender_scan(), when it does not.
LEMMA LocalScanFindsNothing ==
    ASSUME Local, NEW e \in Ends, ScanFindsNothing(e)
    PROVE  Local'
<1>1. TypeOK /\ ThreadsHold /\ SendHolds /\ RecvHolds /\ MainKnows
      /\ NothingYet /\ DataPending
  BY DEF Local
<1>2. TypeOK'
  <2>1. /\ sid \in [Ends -> Chans]
        /\ left \in [Ends -> 0..NChan]
        /\ spc \in [Ends -> {"wait", "scan", "got", "write", "post"}]
        /\ waiting \in [Ends -> BOOLEAN]
    BY <1>1 DEF TypeOK
  <2>2. sid' \in [Ends -> Chans]
    BY <2>1, NextChanType DEF ScanFindsNothing
  <2>3. left' \in [Ends -> 0..NChan]
    <3>1. (IF left[e] = 0 THEN NChan ELSE left[e]) - 1 \in 0..NChan
      BY <2>1, MuxAssumption
    <3> QED BY <2>1, <3>1 DEF ScanFindsNothing
  <2>4. spc' \in [Ends -> {"wait", "scan", "got", "write", "post"}]
    BY <2>1 DEF ScanFindsNothing
  <2>5. waiting' \in [Ends -> BOOLEAN]
    BY <2>1 DEF ScanFindsNothing
  <2>6. UNCHANGED <<state, flags, sendseq, sendwin, recvseq, sin, sout, rin,
                    rout, mpc, wleft, eof, asleep, wake, what, pkt, vpc, vpkt,
                    net>>
    BY DEF ScanFindsNothing, chanVars, bufVars, appVars, senderVars, receiverVars
  <2> QED BY <1>1, <2>2, <2>3, <2>4, <2>5, <2>6 DEF TypeOK
<1>3. ThreadsHold'
  BY <1>1, ScanFindsNothingEffect DEF ThreadsHold
<1>4. SendHolds'
  <2>1. \A j \in Sides : Picked(j)' = Picked(j) /\ (Busy(j)' <=> Busy(j))
    <3> SUFFICES ASSUME NEW j \in Sides
                 PROVE  Picked(j)' = Picked(j) /\ (Busy(j)' <=> Busy(j))
      OBVIOUS
    <3>1. j[1] \in Ends
      BY SideEnds
    <3>2. CASE j[1] = e
      BY <1>1, <3>2, ScanFindsNothingEffect DEF Picked, Busy
    <3>3. CASE j[1] # e
      BY <1>1, <3>1, <3>3, ScanFindsNothingEffect DEF Picked, Busy
    <3> QED BY <3>2, <3>3
  <2>2. UNCHANGED <<sin, sout, wleft, pkt>>
    BY <1>1, ScanFindsNothingEffect
  <2> QED BY <1>1, <2>1, <2>2 DEF SendHolds
<1>5. DataPending'
  <2>1. \A j \in Sides : Picked(j)' = Picked(j) /\ (Busy(j)' <=> Busy(j))
    <3> SUFFICES ASSUME NEW j \in Sides
                 PROVE  Picked(j)' = Picked(j) /\ (Busy(j)' <=> Busy(j))
      OBVIOUS
    <3>1. j[1] \in Ends
      BY SideEnds
    <3>2. CASE j[1] = e
      BY <1>1, <3>2, ScanFindsNothingEffect DEF Picked, Busy
    <3>3. CASE j[1] # e
      BY <1>1, <3>1, <3>3, ScanFindsNothingEffect DEF Picked, Busy
    <3> QED BY <3>2, <3>3
  <2>2. UNCHANGED <<sin, sout, flags, pkt>>
    BY <1>1, ScanFindsNothingEffect
  <2> QED BY <1>1, <2>1, <2>2 DEF DataPending
<1>6. RecvHolds' /\ MainKnows' /\ NothingYet'
  BY LocalFrames DEF ScanFindsNothing, chanVars, bufVars, appVars, senderVars, receiverVars
<1> QED BY <1>2, <1>3, <1>4, <1>5, <1>6 DEF Local

\* sender_loop(), the header.
LEMMA LocalBuildPacket ==
    ASSUME Local, NEW e \in Ends, BuildPacket(e)
    PROVE  Local'
<1>1. TypeOK /\ ThreadsHold /\ SendHolds /\ RecvHolds /\ MainKnows
      /\ NothingYet /\ DataPending
  BY DEF Local
<1>2. TypeOK'
  <2>1. /\ pkt \in [Ends -> Packets]
        /\ what \in [Ends -> Kinds \cup {"NONE"}]
        /\ spc \in [Ends -> {"wait", "scan", "got", "write", "post"}]
    BY <1>1 DEF TypeOK
  <2>2. pkt' \in [Ends -> Packets]
    <3>1. <<e, sid[e]>> \in Sides /\ what[e] \in Kinds
      BY <1>1, BuildPacketEffect DEF ThreadsHold
    <3>2. Header(<<e, sid[e]>>, what[e]) \in Packets
      BY <1>1, <3>1, HeaderFacts
    <3> QED BY <2>1, <3>2 DEF BuildPacket
  <2>3. /\ what' \in [Ends -> Kinds \cup {"NONE"}]
        /\ spc' \in [Ends -> {"wait", "scan", "got", "write", "post"}]
    BY <2>1 DEF BuildPacket
  <2>4. UNCHANGED <<state, flags, sendseq, sendwin, recvseq, sin, sout, rin,
                    rout, mpc, wleft, eof, asleep, wake, sid, left, waiting,
                    vpc, vpkt, net>>
    BY DEF BuildPacket, chanVars, bufVars, appVars, senderVars, receiverVars
  <2> QED BY <1>1, <2>2, <2>3, <2>4 DEF TypeOK
<1>3. ThreadsHold'
  BY <1>1, BuildPacketEffect DEF ThreadsHold
<1>4. SendHolds'
  <2>1. PICK k \in Sides :
          /\ k[1] = e /\ pkt'[e] = Header(k, what[e])
          /\ \A j \in Sides : j # k => (pkt'[e].id = k[2] => (Busy(j)' <=> Busy(j)))
    BY <1>1, SenderBuilds
  <2>2. what[e] \in Kinds /\ spc[e] = "got"
    BY <1>1, BuildPacketEffect DEF ThreadsHold
  <2>3. /\ pkt'[e].type = what[e] /\ pkt'[e].id = k[2]
        /\ what[e] = "DATA" => /\ pkt'[e].from = sout[k]
                               /\ pkt'[e].len \in 0..(sin[k] - sout[k])
                               /\ pkt'[e].len <= Minus(sendwin[k], sendseq[k])
    BY <1>1, <2>1, <2>2, HeaderFacts
  <2>4. Minus(sendwin[k], sendseq[k]) \in SeqNums
    BY <1>1, SideTypes, SeqNumType
  <2>5. what[e] = "DATA" => pkt'[e].len < SeqMod
    BY <2>3, <2>4, MuxAssumption DEF SeqNums
  <2>6. UNCHANGED <<sin, sout, wleft>> /\ \A d \in Ends : d # e => pkt'[d] = pkt[d]
    BY <1>1, BuildPacketEffect
  <2>7. ASSUME NEW j \in Sides, Busy(j)'
        PROVE  /\ pkt'[j[1]].from = sout[j] /\ pkt'[j[1]].len <= sin[j] - sout[j]
               /\ pkt'[j[1]].len < SeqMod
    <3>1. CASE j = k
      BY <2>1, <2>3, <2>5, <2>7, <3>1, SideTypes, <1>1 DEF Busy
    <3>2. CASE j # k
      <4>1. Busy(j)
        BY <2>1, <2>3, <2>7, <3>2
      <4>2. j[1] # e
        BY <2>2, <4>1 DEF Busy
      <4> QED BY <1>1, <2>6, <4>1, <4>2, SideEnds DEF SendHolds
    <3> QED BY <3>1, <3>2
  <2> QED BY <1>1, <2>6, <2>7 DEF SendHolds
<1>5. DataPending'
  <2>1. PICK k \in Sides :
          /\ k[1] = e /\ pkt'[e] = Header(k, what[e])
          /\ Picked(k) = what[e] /\ Picked(k)' = "NONE"
          /\ \A j \in Sides : j # k =>
               /\ Picked(j)' = Picked(j)
               /\ pkt'[e].id = k[2] => (Busy(j)' <=> Busy(j))
    BY <1>1, SenderBuilds
  <2>2. what[e] \in Kinds
    BY <1>1, BuildPacketEffect DEF ThreadsHold
  <2>3. pkt'[e].type = what[e] /\ pkt'[e].id = k[2]
    BY <1>1, <2>1, <2>2, HeaderFacts
  <2>4. Busy(k)' => Picked(k) = "DATA"
    BY <2>1, <2>3 DEF Busy
  <2>5. UNCHANGED <<sin, sout, flags>>
    BY <1>1, BuildPacketEffect
  <2> QED BY <1>1, <2>1, <2>3, <2>4, <2>5 DEF DataPending
<1>6. RecvHolds' /\ MainKnows' /\ NothingYet'
  BY LocalFrames DEF BuildPacket, chanVars, bufVars, appVars, senderVars, receiverVars
<1> QED BY <1>2, <1>3, <1>4, <1>5, <1>6 DEF Local

\* sender_loop(), the system call.
LEMMA LocalWritePacket ==
    ASSUME Local, NEW e \in Ends, WritePacket(e)
    PROVE  Local'
<1>1. TypeOK /\ ThreadsHold /\ SendHolds /\ RecvHolds /\ MainKnows
      /\ NothingYet /\ DataPending
  BY DEF Local
<1>2. TypeOK'
  <2>1. /\ net \in [Ends -> Seq(Packets)]
        /\ spc \in [Ends -> {"wait", "scan", "got", "write", "post"}]
        /\ pkt \in [Ends -> Packets]
    BY <1>1 DEF TypeOK
  <2>2. net' \in [Ends -> Seq(Packets)]
    BY <2>1, AppendProperties DEF WritePacket
  <2>3. spc' \in [Ends -> {"wait", "scan", "got", "write", "post"}]
    BY <2>1 DEF WritePacket
  <2>4. pkt' \in [Ends -> Packets]
    BY <1>1, <2>1, NoPktFacts DEF WritePacket
  <2>5. UNCHANGED <<state, flags, sendseq, sendwin, recvseq, sin, sout, rin,
                    rout, mpc, wleft, eof, asleep, wake, sid, left, waiting,
                    what, vpc, vpkt>>
    BY DEF WritePacket, chanVars, bufVars, appVars, senderVars, receiverVars
  <2> QED BY <1>1, <2>2, <2>3, <2>4, <2>5 DEF TypeOK
<1>3. ThreadsHold'
  BY <1>1, WritePacketEffect DEF ThreadsHold
<1>4. SendHolds'
  <2>1. \A j \in Sides : Busy(j)' => Busy(j) /\ pkt'[j[1]] = pkt[j[1]]
    BY <1>1, SenderWrites, WritePacketEffect, SideEnds DEF Busy
  <2> QED BY <1>1, <2>1, WritePacketEffect DEF SendHolds
<1>5. DataPending'
  BY <1>1, SenderWrites, WritePacketEffect DEF DataPending
<1>6. RecvHolds' /\ MainKnows' /\ NothingYet'
  BY LocalFrames DEF WritePacket, chanVars, bufVars, appVars, senderVars, receiverVars
<1> QED BY <1>2, <1>3, <1>4, <1>5, <1>6 DEF Local

\* sender_loop(), after a data packet.
LEMMA LocalPostData ==
    ASSUME Local, NEW e \in Ends, PostData(e)
    PROVE  Local'
<1>1. TypeOK /\ ThreadsHold /\ SendHolds /\ RecvHolds /\ MainKnows
      /\ NothingYet /\ DataPending
  BY DEF Local
<1>2. TypeOK'
  <2>1. /\ sendseq \in [Sides -> 0..(SeqMod - 1)]
        /\ sout \in [Sides -> Nat]
        /\ asleep \in SUBSET Apps
        /\ spc \in [Ends -> {"wait", "scan", "got", "write", "post"}]
        /\ pkt \in [Ends -> Packets]
    BY <1>1 DEF TypeOK
  <2>2. /\ sendseq' \in [Sides -> 0..(SeqMod - 1)]
        /\ sout' \in [Sides -> Nat]
    <3> DEFINE k == <<e, pkt[e].id>>
    <3>1. k \in Sides /\ k[1] = e /\ k[2] = pkt[e].id
      BY <1>1, EndTypes, SideFacts
    <3> HIDE DEF k
    <3>2. Busy(k)
      BY <1>1, <3>1 DEF PostData, ThreadsHold, Busy
    <3>3. /\ sout[k] \in Nat /\ sendseq[k] \in SeqNums
          /\ pkt[e].len \in Nat /\ pkt[e].len < SeqMod
      BY <1>1, <3>1, <3>2, SideTypes, EndTypes DEF SendHolds
    <3>4. Plus(sendseq[k], pkt[e].len) \in 0..(SeqMod - 1)
      BY <3>3, MuxAssumption DEF Plus, SeqNums
    <3>5. sout[k] + pkt[e].len \in Nat
      BY <3>3
    <3>6. /\ sendseq' = [sendseq EXCEPT ![k] = Plus(@, pkt[e].len)]
          /\ sout' = [sout EXCEPT ![k] = @ + pkt[e].len]
      BY DEF PostData, PostSize, k
    <3> QED BY <2>1, <3>1, <3>4, <3>5, <3>6
  <2>3. asleep' \in SUBSET Apps
    BY <1>1, <2>1, SignalFacts DEF PostData
  <2>4. spc' \in [Ends -> {"wait", "scan", "got", "write", "post"}]
    BY <2>1 DEF PostData
  <2>5. pkt' \in [Ends -> Packets]
    BY <1>1, <2>1, NoPktFacts DEF PostData
  <2>6. UNCHANGED <<state, flags, sendwin, recvseq, sin, rin, rout, mpc, wleft,
                    eof, wake, sid, left, waiting, what, vpc, vpkt, net>>
    BY DEF PostData, chanVars, bufVars, appVars, senderVars, receiverVars
  <2> QED BY <1>1, <2>2, <2>3, <2>4, <2>5, <2>6 DEF TypeOK
<1>3. ThreadsHold'
  BY <1>1, PostDataEffect DEF ThreadsHold
<1>4. SendHolds'
  <2>1. /\ \A j \in Sides :
             IF j[1] = e /\ pkt[e].id = j[2] THEN sout'[j] = sout[j] + pkt[e].len
             ELSE sout'[j] = sout[j]
        /\ UNCHANGED <<sin, wleft>> /\ \A d \in Ends : d # e => pkt'[d] = pkt[d]
    BY <1>1, PostDataEffect
  <2>2. ASSUME NEW j \in Sides
        PROVE  sout'[j] <= sin[j] /\ sin[j] - sout'[j] <= SBSize
    <3>1. /\ sin[j] \in Nat /\ sout[j] \in Nat /\ pkt[e].len \in Nat
          /\ sout[j] <= sin[j] /\ sin[j] - sout[j] <= SBSize
      BY <1>1, SideTypes, EndTypes DEF SendHolds
    <3>2. j[1] = e /\ pkt[e].id = j[2] => pkt[e].len <= sin[j] - sout[j]
      BY <1>1, SenderPosts DEF SendHolds
    <3> QED BY <2>1, <3>1, <3>2, MuxAssumption
  <2>3. ASSUME NEW j \in Sides, Busy(j)'
        PROVE  Busy(j) /\ j[1] # e /\ j[1] \in Ends
    BY <1>1, <2>3, SenderPosts, SideEnds
  <2> QED BY <1>1, <2>1, <2>2, <2>3 DEF SendHolds
<1>5. NothingYet'
  <2>1. ASSUME NEW j \in Sides, ~Opened(j), j[1] = e, pkt[e].id = j[2]
        PROVE  sendseq'[j] = 0
    <3>1. sin[j] = 0 /\ sendseq[j] = 0 /\ sout[j] \in Nat /\ pkt[e].len \in Nat
      BY <1>1, <2>1, SideTypes, EndTypes DEF NothingYet
    <3>2. pkt[e].len <= sin[j] - sout[j]
      BY <1>1, <2>1, SenderPosts DEF SendHolds
    <3>3. pkt[e].len = 0 /\ sendseq'[j] = Plus(sendseq[j], pkt[e].len)
      BY <1>1, <2>1, <3>1, <3>2, PostDataEffect
    <3> QED BY <3>1, <3>3, MuxAssumption DEF Plus
  <2>2. ASSUME NEW j \in Sides, ~(j[1] = e /\ pkt[e].id = j[2])
        PROVE  sendseq'[j] = sendseq[j]
    BY <1>1, <2>2, PostDataEffect
  <2>3. UNCHANGED <<state, sin, wleft, sendwin>>
    BY <1>1, PostDataEffect
  <2>4. \A j \in Sides : Opened(j)' <=> Opened(j)
    BY <2>3 DEF Opened
  <2> QED BY <1>1, <2>1, <2>2, <2>3, <2>4 DEF NothingYet
<1>6. DataPending'
  <2>1. UNCHANGED <<flags, sin>>
    BY <1>1, PostDataEffect
  <2>2. ASSUME NEW j \in Sides, "DATA" \in flags[j] \/ Picked(j)' = "DATA"
        PROVE  sout'[j] = sout[j] /\ sout[j] < sin[j]
    <3>1. Picked(j)' = Picked(j)
      BY <1>1, SenderPosts
    <3>2. ~Busy(j)
      BY <1>1, <2>2, <3>1 DEF DataPending, Picked, Busy
    <3>3. ~(j[1] = e /\ pkt[e].id = j[2])
      BY <1>1, <3>2, SenderPosts
    <3> QED BY <1>1, <2>2, <3>1, <3>3, PostDataEffect DEF DataPending
  <2>3. \A j \in Sides : (Busy(j)' => Busy(j)) /\ Picked(j)' = Picked(j)
    BY <1>1, SenderPosts
  <2> QED BY <1>1, <2>1, <2>2, <2>3 DEF DataPending
<1>7. RecvHolds' /\ MainKnows'
  BY LocalFrames DEF PostData, chanVars, bufVars, appVars, senderVars, receiverVars
<1> QED BY <1>2, <1>3, <1>4, <1>5, <1>6, <1>7 DEF Local

\* receiver_loop(), MUX_CONNECT.
LEMMA LocalReceiveConnect ==
    ASSUME Local, NEW e \in Ends, ReceiveConnect(e)
    PROVE  Local'
<1>1. TypeOK /\ ThreadsHold /\ SendHolds /\ RecvHolds /\ MainKnows
      /\ NothingYet /\ DataPending
  BY DEF Local
<1>0. \A j \in Sides : Picked(j)' = Picked(j) /\ (Busy(j)' <=> Busy(j))
  BY <1>1, ReceiveConnectEffect, SenderRests
<1>2. TypeOK'
  <2>1. /\ net \in [Ends -> Seq(Packets)]
        /\ state \in [Sides -> States]
        /\ sendwin \in [Sides -> 0..(SeqMod - 1)]
        /\ flags \in [Sides -> SUBSET Kinds]
        /\ asleep \in SUBSET Apps
        /\ wake \in [Callers -> {"no", "lock", "signal"}]
    BY <1>1 DEF TypeOK
  <2>2. net' \in [Ends -> Seq(Packets)]
    BY <1>1, <2>1, HeadFacts DEF ReceiveConnect, Arrives
  <2>3. state' \in [Sides -> States]
    BY <2>1 DEF ReceiveConnect, States
  <2>4. flags' \in [Sides -> SUBSET Kinds]
    <3>1. CASE state[<<e, Head(net[Peer(e)]).id>>] = "LISTENING"
      BY ZenonT(40), <2>1, <3>1 DEF ReceiveConnect, Kinds
    <3>2. CASE state[<<e, Head(net[Peer(e)]).id>>] # "LISTENING"
      BY <2>1, <3>2 DEF ReceiveConnect, Kinds
    <3> QED BY <3>1, <3>2
  <2>5. sendwin' \in [Sides -> 0..(SeqMod - 1)]
    BY <1>1, <2>1, HeadFacts DEF ReceiveConnect, Arrives
  <2>6. asleep' \in SUBSET Apps
    BY <1>1, <2>1, SignalFacts DEF ReceiveConnect
  <2>7. wake' \in [Callers -> {"no", "lock", "signal"}]
    BY <2>1 DEF ReceiveConnect, CallWakeup
  <2>8. UNCHANGED <<sendseq, recvseq, sin, sout, rin, rout, mpc, wleft, eof,
                    spc, sid, left, waiting, what, pkt, vpc, vpkt>>
    BY DEF ReceiveConnect, chanVars, bufVars, appVars, senderVars, receiverVars
  <2> QED BY <1>1, <2>2, <2>3, <2>4, <2>5, <2>6, <2>7, <2>8 DEF TypeOK
<1>3. MainKnows'
  <2>1. \A j \in Sides :
          \/ state'[j] = state[j]
          \/ state[j] = "LISTENING" /\ state'[j] = "ESTABLISHED"
    BY <1>1, ReceiveConnectEffect
  <2>2. UNCHANGED <<mpc, eof>>
    BY <1>1, ReceiveConnectEffect
  <2> QED BY <1>1, <2>1, <2>2 DEF MainKnows, Shut, Got
<1>4. NothingYet'
  BY <1>1, ReceiveConnectEffect DEF NothingYet, Opened
<1>5. DataPending'
  <2>1. \A j \in Sides :
          flags'[j] \in {flags[j], flags[j] \cup {"ACCEPT"}, flags[j] \cup {"RESET"}}
    BY <1>1, ReceiveConnectEffect
  <2>3. \A j \in Sides : "DATA" \in flags'[j] => "DATA" \in flags[j]
    BY <2>1
  <2>2. UNCHANGED <<sin, sout>>
    BY <1>1, ReceiveConnectEffect
  <2> QED BY <1>0, <1>1, <2>2, <2>3 DEF DataPending
<1>6. ThreadsHold' /\ SendHolds' /\ RecvHolds'
  BY LocalFrames DEF ReceiveConnect, chanVars, bufVars, appVars, senderVars, receiverVars
<1> QED BY <1>2, <1>3, <1>4, <1>5, <1>6 DEF Local

\* receiver_loop(), MUX_ACCEPT.
LEMMA LocalReceiveAccept ==
    ASSUME Local, NEW e \in Ends, ReceiveAccept(e)
    PROVE  Local'
<1>1. TypeOK /\ ThreadsHold /\ SendHolds /\ RecvHolds /\ MainKnows
      /\ NothingYet /\ DataPending
  BY DEF Local
<1>0. \A j \in Sides : Picked(j)' = Picked(j) /\ (Busy(j)' <=> Busy(j))
  BY <1>1, ReceiveAcceptEffect, SenderRests
<1>2. TypeOK'
  <2>1. /\ net \in [Ends -> Seq(Packets)]
        /\ state \in [Sides -> States]
        /\ sendwin \in [Sides -> 0..(SeqMod - 1)]
        /\ flags \in [Sides -> SUBSET Kinds]
        /\ asleep \in SUBSET Apps
        /\ wake \in [Callers -> {"no", "lock", "signal"}]
    BY <1>1 DEF TypeOK
  <2>2. net' \in [Ends -> Seq(Packets)]
    BY <1>1, <2>1, HeadFacts DEF ReceiveAccept, Arrives
  <2>3. /\ state' \in [Sides -> States]
        /\ flags' \in [Sides -> SUBSET Kinds]
    BY ZenonT(40), <2>1 DEF ReceiveAccept, States, Kinds
  <2>4. sendwin' \in [Sides -> 0..(SeqMod - 1)]
    BY <1>1, <2>1, HeadFacts DEF ReceiveAccept, Arrives
  <2>5. asleep' \in SUBSET Apps
    BY <1>1, <2>1, SignalFacts DEF ReceiveAccept
  <2>6. wake' \in [Callers -> {"no", "lock", "signal"}]
    BY <2>1 DEF ReceiveAccept, CallWakeup
  <2>7. UNCHANGED <<sendseq, recvseq, sin, sout, rin, rout, mpc, wleft, eof,
                    spc, sid, left, waiting, what, pkt, vpc, vpkt>>
    BY DEF ReceiveAccept, chanVars, bufVars, appVars, senderVars, receiverVars
  <2> QED BY <1>1, <2>2, <2>3, <2>4, <2>5, <2>6, <2>7 DEF TypeOK
<1>3. MainKnows'
  <2>1. \A j \in Sides :
          \/ state'[j] = state[j]
          \/ state[j] = "CONNECTING" /\ state'[j] = "ESTABLISHED"
    BY <1>1, ReceiveAcceptEffect
  <2>2. UNCHANGED <<mpc, eof>>
    BY <1>1, ReceiveAcceptEffect
  <2> QED BY <1>1, <2>1, <2>2 DEF MainKnows, Shut, Got
<1>4. NothingYet'
  BY <1>1, ReceiveAcceptEffect DEF NothingYet, Opened
<1>5. DataPending'
  <2>1. \A j \in Sides : flags'[j] \in {flags[j], flags[j] \cup {"RESET"}}
    BY <1>1, ReceiveAcceptEffect
  <2>2. UNCHANGED <<sin, sout>>
    BY <1>1, ReceiveAcceptEffect
  <2>3. \A j \in Sides : "DATA" \in flags'[j] => "DATA" \in flags[j]
    BY <2>1
  <2> QED BY <1>0, <1>1, <2>2, <2>3 DEF DataPending
<1>6. ThreadsHold' /\ SendHolds' /\ RecvHolds'
  BY LocalFrames DEF ReceiveAccept, chanVars, bufVars, appVars, senderVars, receiverVars
<1> QED BY <1>2, <1>3, <1>4, <1>5, <1>6 DEF Local

\* receiver_loop(), MUX_WINDOW.
LEMMA LocalReceiveWindow ==
    ASSUME Local, NEW e \in Ends, ReceiveWindow(e)
    PROVE  Local'
<1>1. TypeOK /\ ThreadsHold /\ SendHolds /\ RecvHolds /\ MainKnows
      /\ NothingYet /\ DataPending
  BY DEF Local
<1>2. TypeOK'
  <2>1. /\ net \in [Ends -> Seq(Packets)]
        /\ sendwin \in [Sides -> 0..(SeqMod - 1)]
        /\ wake \in [Callers -> {"no", "lock", "signal"}]
    BY <1>1 DEF TypeOK
  <2>2. net' \in [Ends -> Seq(Packets)]
    BY <1>1, <2>1, HeadFacts DEF ReceiveWindow, Arrives
  <2>3. sendwin' \in [Sides -> 0..(SeqMod - 1)]
    BY <1>1, <2>1, HeadFacts DEF ReceiveWindow, Arrives
  <2>4. wake' \in [Callers -> {"no", "lock", "signal"}]
    BY <2>1 DEF ReceiveWindow, CallWakeup
  <2>5. UNCHANGED <<state, flags, sendseq, recvseq, sin, sout, rin, rout, mpc,
                    wleft, eof, asleep, spc, sid, left, waiting, what, pkt,
                    vpc, vpkt>>
    BY DEF ReceiveWindow, chanVars, bufVars, appVars, senderVars, receiverVars
  <2> QED BY <1>1, <2>2, <2>3, <2>4, <2>5 DEF TypeOK
<1>3. NothingYet'
  BY <1>1, ReceiveWindowEffect DEF NothingYet, Opened
<1>4. ThreadsHold' /\ SendHolds' /\ RecvHolds' /\ MainKnows' /\ DataPending'
  BY LocalFrames DEF ReceiveWindow, chanVars, bufVars, appVars, senderVars, receiverVars
<1> QED BY <1>2, <1>3, <1>4 DEF Local

\* receiver_loop(), the header of MUX_DATA.
LEMMA LocalReceiveData ==
    ASSUME Local, NEW e \in Ends, ReceiveData(e)
    PROVE  Local'
<1>1. TypeOK /\ ThreadsHold /\ SendHolds /\ RecvHolds /\ MainKnows
      /\ NothingYet /\ DataPending
  BY DEF Local
<1>2. TypeOK'
  <2>1. /\ net \in [Ends -> Seq(Packets)]
        /\ vpc \in [Ends -> {"idle", "data", "bad"}]
        /\ vpkt \in [Ends -> Packets]
    BY <1>1 DEF TypeOK
  <2>2. net' \in [Ends -> Seq(Packets)]
    BY <1>1, <2>1, HeadFacts DEF ReceiveData, Arrives
  <2>3. vpc' \in [Ends -> {"idle", "data", "bad"}]
    BY <2>1 DEF ReceiveData
  <2>4. vpkt' \in [Ends -> Packets]
    BY <1>1, <2>1, HeadFacts DEF ReceiveData, Arrives
  <2>5. UNCHANGED <<state, flags, sendseq, sendwin, recvseq, sin, sout, rin,
                    rout, mpc, wleft, eof, asleep, wake, spc, sid, left,
                    waiting, what, pkt>>
    BY DEF ReceiveData, chanVars, bufVars, appVars, senderVars, receiverVars
  <2> QED BY <1>1, <2>2, <2>3, <2>4, <2>5 DEF TypeOK
<1>3. ThreadsHold'
  <2> DEFINE p == Head(net[Peer(e)])
             k == <<e, p.id>>
  <2>1. Arrives(e, {"DATA", "RESET"}) /\ UNCHANGED <<spc, what, pkt>>
    BY <1>1, ReceiveDataEffect
  <2>2. p.type \in {"DATA", "RESET"}
    BY <1>1, <2>1, ArrivesEffect
  <2>3. \A d \in Ends :
          \/ vpc'[d] = vpc[d] /\ vpkt'[d] = vpkt[d]
          \/ vpc'[d] = "bad"
          \/ vpc'[d] = "data" /\ vpkt'[d] = p /\ p.type # "RESET"
    BY ZenonT(40), <1>1, ReceiveDataEffect
  <2> HIDE DEF p
  <2> QED BY <1>1, <2>1, <2>2, <2>3 DEF ThreadsHold
<1>4. RecvHolds'
  <2> DEFINE p == Head(net[Peer(e)])
             k == <<e, p.id>>
  <2>1. Arrives(e, {"DATA", "RESET"}) /\ k \in Sides /\ UNCHANGED <<rin, rout>>
    BY <1>1, ReceiveDataEffect
  <2>2. ASSUME NEW j \in Sides, Filling(j)'
        PROVE  vpkt'[j[1]].len <= RecvAvail(j)
    <3>1. CASE j[1] = e
      <4>1. /\ vpkt'[e] = p /\ p.len <= RecvAvail(k)
        <5>1. vpc'[e] = "data" /\ p.len \in Nat /\ RecvAvail(k) \in Int
          BY <1>1, <2>1, <2>2, <3>1, HeadFacts, SideTypes, MuxAssumption
             DEF Filling, Arrives, RecvAvail, RecvCount
        <5> QED BY <1>1, <5>1, ReceiveDataEffect
      <4>2. j = k
        BY <2>1, <2>2, <3>1, <4>1, SideFacts DEF Filling
      <4> QED BY <3>1, <4>1, <4>2
    <3>2. CASE j[1] # e
      <4>1. j[1] \in Ends
        BY SideEnds
      <4>2. vpc'[j[1]] = vpc[j[1]] /\ vpkt'[j[1]] = vpkt[j[1]]
        <5>1. \/ /\ \A d \in Ends : vpc'[d] = IF d = e THEN "bad" ELSE vpc[d]
                 /\ vpkt' = vpkt
              \/ \A d \in Ends :
                   /\ vpc'[d] = IF d = e THEN "data" ELSE vpc[d]
                   /\ vpkt'[d] = IF d = e THEN p ELSE vpkt[d]
          BY <1>1, ReceiveDataEffect
        <5> QED BY <3>2, <4>1, <5>1
      <4> QED BY <1>1, <2>2, <4>2 DEF RecvHolds, Filling
    <3> QED BY <3>1, <3>2
  <2>3. \A j \in Sides : RecvAvail(j)' = RecvAvail(j) /\ RecvCount(j)' = RecvCount(j)
    BY <2>1 DEF RecvAvail, RecvCount
  <2> QED BY <1>1, <2>1, <2>2, <2>3 DEF RecvHolds
<1>5. SendHolds' /\ MainKnows' /\ NothingYet' /\ DataPending'
  BY LocalFrames DEF ReceiveData, chanVars, bufVars, appVars, senderVars, receiverVars
<1> QED BY <1>2, <1>3, <1>4, <1>5 DEF Local

\* receiver_loop(), the payload of MUX_DATA.
LEMMA LocalPayloadRead ==
    ASSUME Local, NEW e \in Ends, PayloadRead(e)
    PROVE  Local'
<1>1. TypeOK /\ ThreadsHold /\ SendHolds /\ RecvHolds /\ MainKnows
      /\ NothingYet /\ DataPending
  BY DEF Local
<1>2. TypeOK'
  <2>1. /\ rin \in [Sides -> Nat]
        /\ asleep \in SUBSET Apps
        /\ vpc \in [Ends -> {"idle", "data", "bad"}]
        /\ vpkt \in [Ends -> Packets]
    BY <1>1 DEF TypeOK
  <2>2. rin' \in [Sides -> Nat]
    <3>1. <<e, vpkt[e].id>> \in Sides /\ vpkt[e].len \in Nat
      BY <1>1, EndTypes, SideFacts
    <3> QED BY <2>1, <3>1 DEF PayloadRead
  <2>3. asleep' \in SUBSET Apps
    BY <1>1, <2>1, SignalFacts DEF PayloadRead
  <2>4. vpc' \in [Ends -> {"idle", "data", "bad"}]
    BY <2>1 DEF PayloadRead
  <2>5. vpkt' \in [Ends -> Packets]
    BY <1>1, <2>1, NoPktFacts DEF PayloadRead
  <2>6. UNCHANGED <<state, flags, sendseq, sendwin, recvseq, sin, sout, rout,
                    mpc, wleft, eof, wake, spc, sid, left, waiting, what, pkt,
                    net>>
    BY DEF PayloadRead, chanVars, bufVars, appVars, senderVars, receiverVars
  <2> QED BY <1>1, <2>2, <2>3, <2>4, <2>5, <2>6 DEF TypeOK
<1>3. ThreadsHold'
  BY <1>1, PayloadReadEffect DEF ThreadsHold
<1>4. RecvHolds'
  <2>1. /\ vpc[e] = "data" /\ rout' = rout
        /\ \A j \in Sides : rin'[j] = IF j[1] = e /\ vpkt[e].id = j[2]
                                      THEN rin[j] + vpkt[e].len ELSE rin[j]
        /\ \A d \in Ends :
             /\ vpc'[d] = IF d = e THEN "idle" ELSE vpc[d]
             /\ vpkt'[d] = IF d = e THEN NoPkt ELSE vpkt[d]
    BY <1>1, PayloadReadEffect
  <2>2. ASSUME NEW j \in Sides
        PROVE  rout[j] <= rin'[j] /\ rin'[j] - rout[j] <= RBSize
    <3>1. /\ rin[j] \in Nat /\ rout[j] \in Nat /\ vpkt[e].len \in Nat
          /\ rout[j] <= rin[j] /\ rin[j] - rout[j] <= RBSize
      BY <1>1, SideTypes, EndTypes DEF RecvHolds, RecvCount
    <3>2. j[1] = e /\ vpkt[e].id = j[2] => vpkt[e].len <= RBSize - (rin[j] - rout[j])
      BY <1>1, <2>1 DEF RecvHolds, Filling, RecvAvail, RecvCount
    <3> QED BY <2>1, <3>1, <3>2, MuxAssumption
  <2>3. ASSUME NEW j \in Sides, Filling(j)'
        PROVE  j[1] # e /\ Filling(j) /\ rin'[j] = rin[j] /\ vpkt'[j[1]] = vpkt[j[1]]
    BY <2>1, <2>3, SideEnds DEF Filling
  <2>4. ASSUME NEW j \in Sides, Filling(j)'
        PROVE  vpkt'[j[1]].len <= RBSize - (rin'[j] - rout'[j])
    BY <1>1, <2>1, <2>3, <2>4 DEF RecvHolds, RecvAvail, RecvCount
  <2> QED BY <2>1, <2>2, <2>4 DEF RecvHolds, RecvCount, RecvAvail
<1>5. SendHolds' /\ MainKnows' /\ NothingYet' /\ DataPending'
  BY LocalFrames DEF PayloadRead, chanVars, bufVars, appVars, senderVars, receiverVars
<1> QED BY <1>2, <1>3, <1>4, <1>5 DEF Local

\* receiver_loop(), MUX_CLOSE.
LEMMA LocalReceiveClose ==
    ASSUME Local, NEW e \in Ends, ReceiveClose(e)
    PROVE  Local'
<1>1. TypeOK /\ ThreadsHold /\ SendHolds /\ RecvHolds /\ MainKnows
      /\ NothingYet /\ DataPending
  BY DEF Local
<1>2. TypeOK'
  <2>1. /\ net \in [Ends -> Seq(Packets)]
        /\ state \in [Sides -> States]
        /\ asleep \in SUBSET Apps
        /\ vpc \in [Ends -> {"idle", "data", "bad"}]
    BY <1>1 DEF TypeOK
  <2>2. net' \in [Ends -> Seq(Packets)]
    BY <1>1, <2>1, HeadFacts DEF ReceiveClose, Arrives
  <2>3. state' \in [Sides -> States]
    BY <2>1 DEF ReceiveClose, States
  <2>4. asleep' \in SUBSET Apps
    BY <1>1, <2>1, SignalFacts DEF ReceiveClose
  <2>5. vpc' \in [Ends -> {"idle", "data", "bad"}]
    BY <2>1 DEF ReceiveClose
  <2>6. UNCHANGED <<flags, sendseq, sendwin, recvseq, sin, sout, rin, rout,
                    mpc, wleft, eof, wake, spc, sid, left, waiting, what, pkt,
                    vpkt>>
    BY DEF ReceiveClose, chanVars, bufVars, appVars, senderVars, receiverVars
  <2> QED BY <1>1, <2>2, <2>3, <2>4, <2>5, <2>6 DEF TypeOK
<1>3. ThreadsHold'
  BY <1>1, ReceiveCloseEffect, ArrivesEffect DEF ThreadsHold
<1>4. RecvHolds'
  <2>1. UNCHANGED <<rin, rout, vpkt>> /\ \A d \in Ends : vpc'[d] = vpc[d] \/ vpc'[d] = "bad"
    BY <1>1, ReceiveCloseEffect
  <2>2. \A j \in Sides : Filling(j)' => Filling(j)
    BY <2>1, SideEnds DEF Filling
  <2> QED BY <1>1, <2>1, <2>2 DEF RecvHolds, RecvCount, RecvAvail
<1>5. MainKnows'
  BY ZenonT(40), <1>1, ReceiveCloseEffect DEF MainKnows, Shut, Got
<1>6. NothingYet'
  BY <1>1, ReceiveCloseEffect DEF NothingYet, Opened
<1>7. SendHolds' /\ DataPending'
  BY LocalFrames DEF ReceiveClose, chanVars, bufVars, appVars, senderVars, receiverVars
<1> QED BY <1>2, <1>3, <1>4, <1>5, <1>6, <1>7 DEF Local

\* sender_wakeup(), a spurious wakeup, and the end.
LEMMA LocalOther ==
    ASSUME Local,
           \/ \E a \in Callers : WakeupStep(a)
           \/ SpuriousStep
           \/ Finished
    PROVE  Local'
<1>1. TypeOK /\ ThreadsHold /\ SendHolds /\ RecvHolds /\ MainKnows
      /\ NothingYet /\ DataPending
  BY DEF Local
<1>2. /\ \A d \in Ends :
           spc'[d] = spc[d] \/ (spc[d] = "wait" /\ spc'[d] = "scan")
      /\ UNCHANGED <<state, flags, sendseq, sendwin, recvseq, sin, sout, rin,
                     rout, mpc, wleft, eof, sid, what, pkt, vpc, vpkt, net>>
  BY <1>1, OtherEffect
<1>3. TypeOK'
  <2>1. /\ asleep \in SUBSET Apps
        /\ wake \in [Callers -> {"no", "lock", "signal"}]
        /\ spc \in [Ends -> {"wait", "scan", "got", "write", "post"}]
    BY <1>1 DEF TypeOK
  <2>2. asleep' \in SUBSET Apps
    BY <2>1 DEF WakeupStep, WakeupRead, WakeupSignal, SpuriousStep,
       SpuriousWakeup, SenderSpuriousWakeup, Finished, vars
  <2>3. wake' \in [Callers -> {"no", "lock", "signal"}]
    BY <2>1 DEF WakeupStep, WakeupRead, WakeupSignal, SpuriousStep,
       SpuriousWakeup, SenderSpuriousWakeup, Finished, vars
  <2>4. spc' \in [Ends -> {"wait", "scan", "got", "write", "post"}]
    BY <2>1 DEF WakeupStep, WakeupRead, WakeupSignal, SpuriousStep,
       SpuriousWakeup, SenderSpuriousWakeup, Finished, vars, senderVars
  <2>5. UNCHANGED <<left, waiting>>
    BY DEF WakeupStep, WakeupRead, WakeupSignal, SpuriousStep,
       SpuriousWakeup, SenderSpuriousWakeup, Finished, vars, senderVars
  <2> QED BY <1>1, <1>2, <2>2, <2>3, <2>4, <2>5 DEF TypeOK
<1>4. \A j \in Sides : Picked(j)' = Picked(j) /\ (Busy(j)' <=> Busy(j))
  <2>1. \A d \in Ends : spc'[d] = spc[d] \/ {spc[d], spc'[d]} \subseteq {"scan", "wait"}
    BY <1>2
  <2> QED BY <1>2, <2>1, SenderRests
<1>5. ThreadsHold'
  BY <1>1, <1>2 DEF ThreadsHold
<1>6. SendHolds'
  BY <1>1, <1>2, <1>4 DEF SendHolds
<1>7. DataPending'
  BY <1>1, <1>2, <1>4 DEF DataPending
<1>8. RecvHolds' /\ MainKnows' /\ NothingYet'
  BY <1>2, LocalFrames
<1> QED BY <1>3, <1>5, <1>6, <1>7, <1>8 DEF Local

-----------------------------------------------------------------------------
(* Local is an invariant *)

\* It holds when both ends are past mux_init() ...
LEMMA LocalInit ==
    ASSUME Init
    PROVE  Local
<1>1. TypeOK
  BY MuxAssumption, NoPktFacts, EmptySeq DEF Init, TypeOK, States, Kinds, Chans
<1>2. ThreadsHold /\ SendHolds /\ RecvHolds
  BY SideEnds, MuxAssumption DEF Init, ThreadsHold, SendHolds, RecvHolds, Busy,
     Filling, RecvCount
<1>3. MainKnows /\ NothingYet /\ DataPending
  BY SideEnds DEF Init, MainKnows, NothingYet, DataPending, Opened, Shut, Got,
     Picked
<1> QED BY <1>1, <1>2, <1>3 DEF Local

\* ... and whatever a thread of either end does.
LEMMA LocalNext ==
    ASSUME Local, [Next]_vars
    PROVE  Local'
<1>1. ASSUME NEW k \in Sides, AppStep(k)
      PROVE  Local'
  <2>1. CASE Open(k)
    BY <2>1, LocalOpen
  <2>2. CASE AwaitOpen(k)
    BY <2>2, LocalAwaitOpen
  <2>3. CASE \E n \in 1..SBSize : ChanWrite(k, n)
    BY <2>3, LocalChanWrite
  <2>4. CASE \E n \in ReadSizes : ChanRead(k, n)
    BY <2>4, LocalChanRead
  <2>5. CASE ChanClose(k)
    BY <2>5, LocalChanClose
  <2>6. CASE ChanWait(k)
    BY <2>6, LocalChanWait
  <2> QED BY <1>1, <2>1, <2>2, <2>3, <2>4, <2>5, <2>6 DEF AppStep
<1>2. ASSUME NEW e \in Ends, SenderStep(e)
      PROVE  Local'
  BY <1>2, LocalScanFinds, LocalScanFindsNothing, LocalBuildPacket,
     LocalWritePacket, LocalPostData DEF SenderStep
<1>3. ASSUME NEW e \in Ends, ReceiverStep(e)
      PROVE  Local'
  BY <1>3, LocalReceiveConnect, LocalReceiveAccept, LocalReceiveWindow,
     LocalReceiveData, LocalPayloadRead, LocalReceiveClose DEF ReceiverStep
<1>4. CASE UNCHANGED vars
  <2>1. UNCHANGED <<state, flags, sendseq, sendwin, recvseq, sin, sout, rin,
                    rout, mpc, wleft, eof, asleep, wake, spc, sid, left,
                    waiting, what, pkt, vpc, vpkt, net>>
    BY <1>4 DEF vars, chanVars, bufVars, appVars, senderVars, receiverVars
  <2>2. TypeOK'
    <3>1. TypeOK
      BY DEF Local
    <3> QED BY <2>1, <3>1 DEF TypeOK
  <2> QED BY <2>1, <2>2, LocalFrames DEF Local
<1> QED BY <1>1, <1>2, <1>3, <1>4, LocalOther DEF Next

\* Each end keeps its books in every behaviour.
LEMMA LocalAlways == Spec => []Local
<1>1. Init => Local
  BY LocalInit
<1>2. Local /\ [Next]_vars => Local'
  BY LocalNext
<1> QED BY <1>1, <1>2, PTL DEF Spec

\* The types of mux.c's channel, sender and receiver structures.
THEOREM TypesHold == Spec => []TypeOK
<1>1. Local => TypeOK
  BY DEF Local
<1> QED BY <1>1, LocalAlways, PTL

-----------------------------------------------------------------------------
(* Between the two ends *)

\* The packets from end e that are written and that the receiver is not
\* through with, and the line with the packet the sender thread has built.
Underway(e) ==
    (IF vpc[Peer(e)] = "data" THEN <<vpkt[Peer(e)]>> ELSE <<>>) \o net[e]
Line(e) == IF spc[e] = "write" THEN Append(Underway(e), pkt[e]) ELSE Underway(e)

\* The stream position up to which data packets were built.
Made(k) == IF Busy(k) THEN sout[k] + pkt[k[1]].len ELSE sout[k]

\* What side k owes its peer.
Token(k, K) == Owed(flags[k], Picked(k), Line(k[1]), K, k[2])
Once(k, K) == OwedOnce(flags[k], Picked(k), Line(k[1]), K, k[2])

\* How far the two sides of a channel have come in opening it.
Handshake ==
    \A k \in Sides : Opener(k[2]) = k[1] =>
      /\ Opened(k) => Opened(Remote(k))
      /\ state[k] = "CONNECTING" => state[Remote(k)] # "UNUSED"
      /\ state[k] = "UNUSED" => ~Opened(Remote(k))

\* What a packet on its way says of both sides.  None is a reset, and one that
\* opens or closes a channel is sent once.
Tokens ==
    \A k \in Sides :
      /\ Token(k, "CONNECT") => state[k] = "CONNECTING" /\ state[Remote(k)] = "LISTENING"
      /\ Token(k, "ACCEPT") => Opened(k) /\ state[Remote(k)] = "CONNECTING"
      /\ ~Token(k, "RESET")
      /\ Token(k, "WINDOW") => Opened(k)
      /\ Token(k, "DATA") => Opened(k)
      /\ Token(k, "CLOSE") => Shut(k) /\ ~Got(Remote(k))
      /\ \A K \in {"CONNECT", "ACCEPT", "CLOSE"} : Once(k, K)

\* The first packet that the side that connects gets is the answer.
AcceptFirst ==
    \A k \in Sides :
      Opener(k[2]) # k[1] /\ Opened(k) /\ ~Opened(Remote(k)) =>
        \/ /\ \/ "ACCEPT" \in flags[k] /\ Picked(k) = "NONE"
              \/ Picked(k) = "ACCEPT"
           /\ NoneFor(Line(k[1]), k[2])
        \/ FirstIs(Line(k[1]), "ACCEPT", k[2])

\* The discipline of the threads that use a channel.
Closing ==
    \A k \in Sides :
      /\ sin[k] + wleft[k] <= Total[k]
      /\ k[1] = "server" /\ sin[k] + wleft[k] = Total[k]
           => rout[k] = Total[Remote(k)]
      /\ Shut(k) => /\ sin[k] = Total[k] /\ wleft[k] = 0
                    /\ IF k[1] = "client" THEN rout[k] = Total[Remote(k)] ELSE Got(k)
      /\ Got(k) => Shut(Remote(k))

\* Data packets continue the stream from the receive buffer to the send buffer.
InOrder == \A k \in Sides : Stream(Line(k[1]), k[2], rin[Remote(k)], Made(k))

\* How far ahead of the reader the window of side k is.
Edge(k) == IF Opened(k) THEN Minus(sendwin[k], recvseq[Remote(k)]) ELSE 0

\* Sequence numbers tell the distance between the two ends, which stays in the
\* window; windows on their way are larger.
Credit ==
    \A k \in Sides :
      /\ Minus(Plus(sendseq[k], Made(k) - sout[k]), recvseq[Remote(k)])
           = Made(k) - rout[Remote(k)]
      /\ Made(k) - rout[Remote(k)] <= Edge(k) /\ Edge(k) <= RBSize
      /\ Offers(Line(Peer(k[1])), k[2], recvseq[Remote(k)], Edge(k))
      /\ "DATA" \in flags[k] \/ Picked(k) = "DATA" => sendseq[k] # sendwin[k]

\* All of it.
Cross ==
    /\ NoProtocolError /\ Handshake /\ Tokens /\ AcceptFirst /\ Closing
    /\ InOrder /\ Credit

-----------------------------------------------------------------------------
(* Lines *)

\* An end and its peer.
LEMMA PeerFacts ==
    ASSUME NEW e \in Ends
    PROVE  Peer(e) \in Ends /\ Peer(Peer(e)) = e /\ Peer(e) # e
BY DEF Peer, Ends

\* The line of an end is a sequence of packets.
LEMMA LineType ==
    ASSUME TypeOK, NEW e \in Ends
    PROVE  Underway(e) \in Seq(Packets) /\ Line(e) \in Seq(Packets)
<1>1. net[e] \in Seq(Packets) /\ vpkt[Peer(e)] \in Packets /\ pkt[e] \in Packets
  BY EndTypes, PeerFacts
<1>2. <<vpkt[Peer(e)]>> \in Seq(Packets) /\ <<>> \in Seq(Packets)
  BY <1>1
<1>3. Underway(e) \in Seq(Packets)
  BY <1>1, <1>2, ConcatProperties DEF Underway
<1> QED BY <1>1, <1>3, AppendProperties DEF Line

\* A packet in front of others.
LEMMA InFront ==
    ASSUME NEW p \in Packets, NEW q \in Seq(Packets)
    PROVE  /\ <<p>> \o q \in Seq(Packets) /\ <<p>> \o q # <<>>
           /\ (<<p>> \o q)[1] = p /\ Tail(<<p>> \o q) = q
           /\ <<>> \o q = q
<1>1. <<p>> \in Seq(Packets) /\ Len(<<p>>) = 1 /\ <<p>>[1] = p
  OBVIOUS
<1> DEFINE s == <<p>> \o q
<1>2. /\ s \in Seq(Packets) /\ Len(s) = 1 + Len(q) /\ Len(q) \in Nat
      /\ \A i \in 1..(1 + Len(q)) : s[i] = IF i <= 1 THEN <<p>>[i] ELSE q[i - 1]
  BY <1>1, ConcatProperties, LenProperties
<1> HIDE DEF s
<1>3. s[1] = p /\ s # <<>>
  BY <1>1, <1>2
<1>4. /\ Tail(s) \in Seq(Packets) /\ Len(Tail(s)) = Len(q)
      /\ \A i \in 1..Len(q) : Tail(s)[i] = s[i + 1]
  BY <1>2, <1>3, HeadTailProperties
<1>5. \A i \in 1..Len(q) : Tail(s)[i] = q[i]
  BY <1>2, <1>4
<1>6. Tail(s) = q
  BY <1>4, <1>5, SeqEqual
<1>7. <<>> \o q = q
  BY ConcatEmptySeq
<1> QED BY <1>2, <1>3, <1>6, <1>7 DEF s

\* Appending at one end and taking at the other do not interfere.
LEMMA TailOfAppend ==
    ASSUME NEW p \in Packets, NEW q \in Seq(Packets), q # <<>>
    PROVE  /\ Append(q, p) # <<>> /\ Append(q, p)[1] = q[1]
           /\ Tail(Append(q, p)) = Append(Tail(q), p)
<1> DEFINE s == Append(q, p)
           t == Append(Tail(q), p)
           n == Len(q)
<1>1. /\ s \in Seq(Packets) /\ Len(s) = n + 1 /\ n \in Nat \ {0}
      /\ \A i \in 1..n : s[i] = q[i]
      /\ s[n + 1] = p
  BY AtAppend, AtTail
<1>2. /\ Tail(q) \in Seq(Packets) /\ Len(Tail(q)) = n - 1
      /\ \A i \in 1..(n - 1) : Tail(q)[i] = q[i + 1]
  BY AtTail
<1>3. /\ t \in Seq(Packets) /\ Len(t) = n
      /\ \A i \in 1..(n - 1) : t[i] = q[i + 1]
      /\ t[n] = p
  <2>1. /\ t \in Seq(Packets) /\ Len(t) = Len(Tail(q)) + 1
        /\ \A i \in 1..Len(Tail(q)) : t[i] = Tail(q)[i]
        /\ t[Len(Tail(q)) + 1] = p
    BY <1>2, AtAppend
  <2> HIDE DEF t
  <2> QED BY <1>1, <1>2, <2>1
<1> HIDE DEF s, t, n
<1>4. s # <<>> /\ s[1] = q[1]
  BY <1>1, EmptySeq
<1>5. /\ Tail(s) \in Seq(Packets) /\ Len(Tail(s)) = n
      /\ \A i \in 1..n : Tail(s)[i] = s[i + 1]
  BY <1>1, <1>4, AtTail
<1>6. \A i \in 1..n : Tail(s)[i] = t[i]
  BY <1>1, <1>3, <1>5
<1>7. Tail(s) = t
  BY <1>3, <1>5, <1>6, SeqEqual
<1> QED BY <1>4, <1>7 DEF s, t

\* The first packet and the others make the line.
LEMMA FrontAndTail ==
    ASSUME NEW q \in Seq(Packets), q # <<>>
    PROVE  <<q[1]>> \o Tail(q) = q
<1>1. /\ q[1] \in Packets /\ Tail(q) \in Seq(Packets)
      /\ Len(Tail(q)) = Len(q) - 1 /\ Len(q) \in Nat \ {0}
      /\ \A i \in 1..(Len(q) - 1) : Tail(q)[i] = q[i + 1]
  BY AtTail
<1>2. <<q[1]>> \in Seq(Packets) /\ Len(<<q[1]>>) = 1 /\ <<q[1]>>[1] = q[1]
  BY <1>1
<1> DEFINE s == <<q[1]>> \o Tail(q)
<1>3. /\ s \in Seq(Packets) /\ Len(s) = 1 + Len(Tail(q))
      /\ \A i \in 1..(1 + Len(Tail(q))) :
           s[i] = IF i <= 1 THEN <<q[1]>>[i] ELSE Tail(q)[i - 1]
  BY <1>1, <1>2, ConcatProperties
<1> HIDE DEF s
<1>4. ASSUME NEW i \in 1..Len(s)
      PROVE  s[i] = q[i]
  <2>1. CASE i = 1
    BY <1>1, <1>2, <1>3, <2>1
  <2>2. CASE i # 1
    <3>1. i - 1 \in 1..(Len(q) - 1) /\ (i - 1) + 1 = i /\ ~(i <= 1)
      BY <1>1, <1>3, <2>2
    <3>2. s[i] = Tail(q)[i - 1]
      BY <1>1, <1>3, <3>1
    <3>3. Tail(q)[i - 1] = q[(i - 1) + 1]
      BY <1>1, <3>1
    <3> QED BY <3>1, <3>2, <3>3
  <2> QED BY <2>1, <2>2
<1> QED BY <1>1, <1>3, <1>4, SeqEqual DEF s

\* Appending behind what is in front.
LEMMA AppendBehind ==
    ASSUME NEW f \in Seq(Packets), NEW q \in Seq(Packets), NEW p \in Packets
    PROVE  f \o Append(q, p) = Append(f \o q, p)
<1>1. <<p>> \in Seq(Packets) /\ Append(q, p) = q \o <<p>>
  OBVIOUS
<1>2. f \o (q \o <<p>>) = (f \o q) \o <<p>>
  BY <1>1, ConcatAssociative
<1>3. f \o q \in Seq(Packets)
  BY ConcatProperties
<1> DEFINE s == f \o q
<1>4. s \in Seq(Packets)
  BY <1>3
<1> HIDE DEF s
<1>5. s \o <<p>> = Append(s, p)
  BY <1>4
<1> QED BY <1>1, <1>2, <1>5 DEF s

\* The line of an end does not change when its sender is not writing, before
\* or after, and nothing arrives.
LEMMA LineRests ==
    ASSUME UNCHANGED <<vpc, vpkt, net, pkt>>,
           \A e \in Ends : spc'[e] = spc[e] \/ "write" \notin {spc[e], spc'[e]}
    PROVE  \A e \in Ends : Line(e)' = Line(e)
BY DEF Line, Underway

\* Taking the first packet of the line.
LEMMA LineTaken ==
    ASSUME TypeOK, NEW e \in Ends, UNCHANGED <<spc, pkt>>, NEW p \in Packets,
           Underway(e) # <<>>, Underway(e)[1] = p, Underway(e)' = Tail(Underway(e))
    PROVE  Line(e) # <<>> /\ Line(e)[1] = p /\ Line(e)' = Tail(Line(e))
<1>1. Underway(e) \in Seq(Packets) /\ pkt[e] \in Packets
  BY LineType, EndTypes
<1>2. CASE spc[e] = "write"
  <2>1. Line(e) = Append(Underway(e), pkt[e]) /\ Line(e)' = Append(Tail(Underway(e)), pkt[e])
    BY <1>2 DEF Line
  <2> QED BY <1>1, <2>1, TailOfAppend
<1>3. CASE spc[e] # "write"
  BY <1>3 DEF Line
<1> QED BY <1>2, <1>3

-----------------------------------------------------------------------------
(* What each action does to the lines and to what the sender threads hold *)

\* An action of a thread that uses a channel, of sender_wakeup(), or a scan
\* that finds nothing.
LEMMA OthersRest ==
    ASSUME UNCHANGED <<sid, what, pkt, vpc, vpkt, net, sout>>,
           \A e \in Ends : spc'[e] = spc[e] \/ {spc[e], spc'[e]} \subseteq {"scan", "wait"}
    PROVE  /\ \A j \in Sides : Picked(j)' = Picked(j) /\ Made(j)' = Made(j)
           /\ \A e \in Ends : Line(e)' = Line(e)
<1>1. \A j \in Sides : Picked(j)' = Picked(j) /\ (Busy(j)' <=> Busy(j))
  BY SenderRests
<1>2. \A j \in Sides : Made(j)' = Made(j)
  BY <1>1 DEF Made
<1>3. \A e \in Ends : Line(e)' = Line(e)
  BY LineRests
<1> QED BY <1>1, <1>2, <1>3

\* sender_scan() finds work.
LEMMA ScanFindsView ==
    ASSUME TypeOK, NEW e \in Ends, ScanFinds(e)
    PROVE  /\ \E k \in Sides, kind \in Kinds :
                /\ kind = MostImportant(Work(k)) /\ kind \in Work(k)
                /\ Picked(k) = "NONE" /\ ~Busy(k) /\ Picked(k)' = kind
                /\ flags'[k] = Work(k) \ {kind}
                /\ \A j \in Sides : j # k =>
                     flags'[j] = flags[j] /\ Picked(j)' = Picked(j)
           /\ \A j \in Sides : Made(j)' = Made(j)
           /\ \A d \in Ends : Line(d)' = Line(d)
<1>1. PICK k \in Sides, kind \in Kinds :
             /\ k[1] = e /\ kind = MostImportant(Work(k)) /\ kind \in Work(k)
             /\ Picked(k) = "NONE" /\ ~Busy(k) /\ Picked(k)' = kind /\ ~Busy(k)'
             /\ flags'[k] = Work(k) \ {kind}
             /\ \A j \in Sides : j # k =>
                  /\ flags'[j] = flags[j]
                  /\ Picked(j)' = Picked(j) /\ (Busy(j)' <=> Busy(j))
  BY SenderPicks
<1>2. UNCHANGED <<vpc, vpkt, net, pkt, sout>>
      /\ \A d \in Ends : spc'[d] = spc[d] \/ "write" \notin {spc[d], spc'[d]}
  BY ScanFindsEffect
<1>3. \A j \in Sides : Made(j)' = Made(j)
  BY <1>1, <1>2 DEF Made
<1>4. \A d \in Ends : Line(d)' = Line(d)
  BY <1>2, LineRests
<1> QED BY <1>1, <1>3, <1>4

\* sender_loop() fills in the header of what was picked.
LEMMA BuildPacketView ==
    ASSUME TypeOK, ThreadsHold, SendHolds, NEW e \in Ends, BuildPacket(e)
    PROVE  \E k \in Sides, p \in Packets :
             /\ k[1] = e /\ p.type \in Kinds /\ p = Header(k, p.type)
             /\ Picked(k) = p.type /\ p.id = k[2]
             /\ Picked(k)' = "NONE"
             /\ Made(k) = sout[k]
             /\ Made(k)' = IF p.type = "DATA" THEN sout[k] + p.len ELSE sout[k]
             /\ Line(e)' = Append(Line(e), p)
             /\ \A d \in Ends : d # e => Line(d)' = Line(d)
             /\ \A j \in Sides : j # k =>
                  Picked(j)' = Picked(j) /\ Made(j)' = Made(j)
<1>1. PICK k \in Sides :
             /\ k[1] = e /\ k[2] = sid[e]
             /\ Picked(k) = what[e] /\ ~Busy(k)
             /\ Picked(k)' = "NONE" /\ pkt'[e] = Header(k, what[e])
             /\ \A j \in Sides : j # k =>
                  /\ Picked(j)' = Picked(j)
                  /\ pkt'[e].id = k[2] => (Busy(j)' <=> Busy(j))
  BY SenderBuilds
<1>2. /\ spc[e] = "got" /\ spc'[e] = "write"
      /\ \A d \in Ends : d # e => pkt'[d] = pkt[d] /\ spc'[d] = spc[d]
      /\ UNCHANGED <<sout, vpc, vpkt, net>>
  BY BuildPacketEffect
<1>3. what[e] \in Kinds
  BY <1>2 DEF ThreadsHold
<1>4. PICK p \in Packets : p = pkt'[e] /\ p.type = what[e] /\ p.id = k[2]
  BY <1>1, <1>3, HeaderFacts
<1>5. Line(e)' = Append(Line(e), p)
  BY <1>2, <1>4 DEF Line, Underway
<1>6. \A d \in Ends : d # e => Line(d)' = Line(d)
  BY <1>2 DEF Line, Underway
<1>7. Busy(k)' <=> p.type = "DATA"
  BY <1>1, <1>2, <1>4 DEF Busy
<1>8. Made(k)' = IF p.type = "DATA" THEN sout[k] + p.len ELSE sout[k]
  BY <1>1, <1>2, <1>4, <1>7 DEF Made
<1>9. \A j \in Sides : j # k => Made(j)' = Made(j)
  <2> SUFFICES ASSUME NEW j \in Sides, j # k PROVE Made(j)' = Made(j)
    OBVIOUS
  <2>1. Busy(j)' <=> Busy(j)
    BY <1>1, <1>4
  <2>2. j[1] # e => pkt'[j[1]] = pkt[j[1]]
    BY <1>2, SideEnds
  <2>3. j[1] = e => ~Busy(j)
    BY <1>2 DEF Busy
  <2> QED BY <1>2, <2>1, <2>2, <2>3 DEF Made
<1> QED BY <1>1, <1>3, <1>4, <1>5, <1>6, <1>8, <1>9 DEF Made

\* sock_write() and sock_writev().
LEMMA WritePacketView ==
    ASSUME TypeOK, NEW e \in Ends, WritePacket(e)
    PROVE  /\ \A j \in Sides : Picked(j)' = Picked(j) /\ Made(j)' = Made(j)
           /\ \A d \in Ends : Line(d)' = Line(d)
<1>1. /\ spc[e] = "write" /\ spc'[e] # "write"
      /\ net'[e] = Append(net[e], pkt[e])
      /\ \A d \in Ends : d # e =>
           net'[d] = net[d] /\ spc'[d] = spc[d] /\ pkt'[d] = pkt[d]
      /\ pkt[e].type = "DATA" => pkt'[e] = pkt[e]
      /\ UNCHANGED <<sout, vpc, vpkt>>
  BY WritePacketEffect
<1>2. \A j \in Sides : Picked(j)' = Picked(j) /\ (Busy(j)' <=> Busy(j))
  BY SenderWrites
<1>3. \A j \in Sides : Made(j)' = Made(j)
  <2> SUFFICES ASSUME NEW j \in Sides PROVE Made(j)' = Made(j)
    OBVIOUS
  <2>1. Busy(j) => pkt[j[1]].type = "DATA"
    BY DEF Busy
  <2>2. Busy(j) => pkt'[j[1]] = pkt[j[1]]
    BY <1>1, <2>1, SideEnds
  <2> QED BY <1>1, <1>2, <2>2 DEF Made
<1>4. Line(e)' = Line(e)
  <2>1. /\ net[e] \in Seq(Packets) /\ pkt[e] \in Packets
        /\ vpkt[Peer(e)] \in Packets
    BY EndTypes, PeerFacts
  <2>2. PICK f \in Seq(Packets) : Underway(e) = f \o net[e] /\ Underway(e)' = f \o net'[e]
    <3>1. <<vpkt[Peer(e)]>> \in Seq(Packets) /\ <<>> \in Seq(Packets)
      BY <2>1
    <3> QED BY <1>1, <3>1 DEF Underway
  <2>3. f \o Append(net[e], pkt[e]) = Append(f \o net[e], pkt[e])
    BY <2>1, AppendBehind
  <2> QED BY <1>1, <2>2, <2>3 DEF Line
<1>5. \A d \in Ends : d # e => Line(d)' = Line(d)
  BY <1>1 DEF Line, Underway
<1> QED BY <1>2, <1>3, <1>4, <1>5

\* The sender takes what it wrote out of the send buffer.
LEMMA PostDataView ==
    ASSUME TypeOK, ThreadsHold, NEW e \in Ends, PostData(e)
    PROVE  /\ \A j \in Sides : Picked(j)' = Picked(j) /\ Made(j)' = Made(j)
           /\ \A d \in Ends : Line(d)' = Line(d)
           /\ \A j \in Sides :
                \/ sendseq'[j] = sendseq[j] /\ sout'[j] = sout[j]
                \/ /\ Busy(j) /\ Picked(j) = "NONE"
                   /\ sendseq'[j] = Plus(sendseq[j], pkt[j[1]].len)
                   /\ sout'[j] = sout[j] + pkt[j[1]].len
                   /\ Made(j) = sout'[j]
<1>1. /\ spc[e] = "post"
      /\ \A j \in Sides :
           /\ j[1] = e /\ pkt[e].id = j[2] =>
                /\ sendseq'[j] = Plus(sendseq[j], pkt[e].len)
                /\ sout'[j] = sout[j] + pkt[e].len
           /\ ~(j[1] = e /\ pkt[e].id = j[2]) =>
                sendseq'[j] = sendseq[j] /\ sout'[j] = sout[j]
      /\ \A d \in Ends : d # e => spc'[d] = spc[d] /\ pkt'[d] = pkt[d]
      /\ spc'[e] = "scan"
      /\ UNCHANGED <<vpc, vpkt, net>>
  BY PostDataEffect
<1>2. \A j \in Sides :
             /\ Picked(j)' = Picked(j)
             /\ j[1] # e => (Busy(j)' <=> Busy(j))
             /\ j[1] = e => (Busy(j) <=> pkt[e].id = j[2]) /\ ~Busy(j)'
  BY SenderPosts
<1>3. \A d \in Ends : Line(d)' = Line(d)
  BY <1>1 DEF Line, Underway
<1>4. ASSUME NEW j \in Sides
      PROVE  Made(j)' = Made(j)
  <2>1. CASE j[1] # e
    <3>1. pkt'[j[1]] = pkt[j[1]]
      BY <1>1, <2>1, SideEnds
    <3> QED BY <1>1, <1>2, <2>1, <3>1 DEF Made
  <2>2. CASE j[1] = e
    BY <1>1, <1>2, <2>2 DEF Made
  <2> QED BY <2>1, <2>2
<1>5. ASSUME NEW j \in Sides, j[1] = e, pkt[e].id = j[2]
      PROVE  Busy(j) /\ Picked(j) = "NONE" /\ Made(j) = sout[j] + pkt[e].len
  BY <1>1, <1>2, <1>5 DEF Made, Picked
<1> QED BY <1>1, <1>2, <1>3, <1>4, <1>5

\* A receiver that is not reading a payload takes the first packet of the line.
LEMMA ArrivesView ==
    ASSUME TypeOK, NEW e \in Ends, NEW kinds, Arrives(e, kinds),
           UNCHANGED <<spc, pkt, vpkt>>,
           \A d \in Ends : vpc'[d] = "data" <=> vpc[d] = "data"
    PROVE  /\ Line(Peer(e)) # <<>> /\ Line(Peer(e))[1] = Head(net[Peer(e)])
           /\ Line(Peer(e))' = Tail(Line(Peer(e)))
           /\ Line(e)' = Line(e)
<1>1. /\ vpc[e] = "idle" /\ net[Peer(e)] # <<>>
      /\ Head(net[Peer(e)]) \in Packets
      /\ net'[Peer(e)] = Tail(net[Peer(e)]) /\ net'[e] = net[e]
  BY ArrivesEffect, PeerFacts
<1>2. net[Peer(e)] \in Seq(Packets) /\ Tail(net[Peer(e)]) \in Seq(Packets)
  BY <1>1, PeerFacts, EndTypes, AtTail
<1>3. Underway(Peer(e)) = net[Peer(e)] /\ Underway(Peer(e))' = Tail(net[Peer(e)])
  BY <1>1, <1>2, InFront, PeerFacts DEF Underway
<1>4. Head(net[Peer(e)]) = net[Peer(e)][1]
  BY <1>1, <1>2, AtTail
<1>5. Line(e)' = Line(e)
  BY <1>1, PeerFacts DEF Line, Underway
<1> QED BY <1>1, <1>3, <1>4, <1>5, LineTaken, PeerFacts

\* The header of a data packet: it stays the first of the line.
LEMMA ReceiveDataView ==
    ASSUME TypeOK, NEW e \in Ends, ReceiveData(e)
    PROVE  /\ Line(Peer(e)) # <<>> /\ Line(Peer(e))[1] = Head(net[Peer(e)])
           /\ vpc'[e] # "bad" => \A d \in Ends : Line(d)' = Line(d)
<1> DEFINE p == Head(net[Peer(e)])
<1>1. /\ vpc[e] = "idle" /\ net[Peer(e)] # <<>> /\ p \in Packets
      /\ net'[Peer(e)] = Tail(net[Peer(e)]) /\ net'[e] = net[e]
  BY ReceiveDataEffect, ArrivesEffect, PeerFacts
<1>2. /\ net[Peer(e)] \in Seq(Packets) /\ Tail(net[Peer(e)]) \in Seq(Packets)
      /\ p = net[Peer(e)][1]
  BY <1>1, PeerFacts, EndTypes, AtTail
<1>3. UNCHANGED <<spc, pkt>>
      /\ \/ vpc'[e] = "bad"
         \/ /\ vpc'[e] = "data" /\ vpkt'[e] = p
            /\ vpc'[Peer(e)] = vpc[Peer(e)] /\ vpkt'[Peer(e)] = vpkt[Peer(e)]
  BY ReceiveDataEffect, PeerFacts
<1>4. Underway(Peer(e)) = net[Peer(e)]
  BY <1>1, <1>2, InFront, PeerFacts DEF Underway
<1>5. Line(Peer(e)) # <<>> /\ Line(Peer(e))[1] = p
  <2>1. pkt[Peer(e)] \in Packets
    BY EndTypes, PeerFacts
  <2>2. Append(net[Peer(e)], pkt[Peer(e)]) # <<>>
        /\ Append(net[Peer(e)], pkt[Peer(e)])[1] = net[Peer(e)][1]
    BY <1>1, <1>2, <2>1, TailOfAppend
  <2> QED BY <1>1, <1>2, <1>4, <2>2 DEF Line
<1>6. ASSUME vpc'[e] # "bad"
      PROVE  Line(e)' = Line(e) /\ Line(Peer(e))' = Line(Peer(e))
  <2>1. Line(e)' = Line(e)
    BY <1>1, <1>3, <1>6, PeerFacts DEF Line, Underway
  <2>2. Underway(Peer(e))' = <<p>> \o Tail(net[Peer(e)])
    BY <1>1, <1>3, <1>6, PeerFacts DEF Underway
  <2>3. <<p>> \o Tail(net[Peer(e)]) = net[Peer(e)]
    BY <1>1, <1>2, FrontAndTail
  <2> QED BY <1>3, <1>4, <2>1, <2>2, <2>3 DEF Line
<1>7. \A d \in Ends : d = e \/ d = Peer(e)
  BY DEF Ends, Peer
<1> QED BY <1>5, <1>6, <1>7

\* The payload has been read: the data packet leaves the line.
LEMMA PayloadReadView ==
    ASSUME TypeOK, NEW e \in Ends, PayloadRead(e)
    PROVE  /\ Line(Peer(e)) # <<>> /\ Line(Peer(e))[1] = vpkt[e]
           /\ Line(Peer(e))' = Tail(Line(Peer(e)))
           /\ Line(e)' = Line(e)
<1>1. /\ vpc[e] = "data" /\ vpc'[e] = "idle"
      /\ vpc'[Peer(e)] = vpc[Peer(e)] /\ vpkt'[Peer(e)] = vpkt[Peer(e)]
      /\ UNCHANGED <<net, spc, pkt>>
  BY PayloadReadEffect, PeerFacts
<1>2. vpkt[e] \in Packets /\ net[Peer(e)] \in Seq(Packets)
  BY PeerFacts, EndTypes
<1>3. Underway(Peer(e)) = <<vpkt[e]>> \o net[Peer(e)] /\ Underway(Peer(e))' = net[Peer(e)]
  BY <1>1, <1>2, InFront, PeerFacts DEF Underway
<1>4. Line(e)' = Line(e)
  BY <1>1, PeerFacts DEF Line, Underway
<1>5. /\ Underway(Peer(e)) # <<>> /\ Underway(Peer(e))[1] = vpkt[e]
      /\ Underway(Peer(e))' = Tail(Underway(Peer(e)))
  BY <1>2, <1>3, InFront
<1>6. Peer(e) \in Ends /\ UNCHANGED <<spc, pkt>>
  BY <1>1, PeerFacts
<1> QED BY <1>2, <1>4, <1>5, <1>6, LineTaken

-----------------------------------------------------------------------------
(* What each action does to what is owed *)

\* A flag X is set at side k, by a thread that uses the channel.
LEMMA TokenFlag ==
    ASSUME NEW k \in Sides, NEW X,
           \A j \in Sides : flags'[j] = IF j = k THEN flags[j] \cup {X} ELSE flags[j],
           \A j \in Sides : Picked(j)' = Picked(j),
           \A e \in Ends : Line(e)' = Line(e)
    PROVE  /\ \A j \in Sides, K \in Kinds :
                /\ Token(j, K)' => Token(j, K) \/ (j = k /\ K = X)
                /\ Once(j, K) /\ ~(j = k /\ K = X) => Once(j, K)'
           /\ ~Token(k, X) => Once(k, X)'
<1>1. ASSUME NEW j \in Sides, j # k
      PROVE  \A K \in Kinds : (Token(j, K)' <=> Token(j, K)) /\ (Once(j, K)' <=> Once(j, K))
  BY <1>1, SideEnds DEF Token, Once
<1>2. /\ \A K \in Kinds : Token(k, K)' => Token(k, K) \/ K = X
      /\ \A K \in Kinds : Once(k, K) /\ K # X => Once(k, K)'
      /\ ~Token(k, X) => Once(k, X)'
  <2>1. k[1] \in Ends
    BY SideEnds
  <2>2. \A K : Token(k, K)' <=> Owed(flags[k] \cup {X}, Picked(k), Line(k[1]), K, k[2])
    BY <2>1 DEF Token
  <2>3. \A K : Once(k, K)' <=> OwedOnce(flags[k] \cup {X}, Picked(k), Line(k[1]), K, k[2])
    BY <2>1 DEF Once
  <2> QED BY <2>2, <2>3, OwedFlag DEF Token, Once
<1> QED BY <1>1, <1>2

\* The sender thread picks a packet: it may add one, if there is data.
LEMMA TokenScan ==
    ASSUME TypeOK, NEW e \in Ends, ScanFinds(e)
    PROVE  \A j \in Sides, K \in Kinds :
             /\ Token(j, K)' => \/ Token(j, K)
                                \/ K = "DATA" /\ sout[j] # sin[j] /\ sendseq[j] # sendwin[j]
             /\ Once(j, K) /\ K # "DATA" => Once(j, K)'
<1>1. PICK k \in Sides, kind \in Kinds :
                /\ kind = MostImportant(Work(k)) /\ kind \in Work(k)
                /\ Picked(k) = "NONE" /\ ~Busy(k) /\ Picked(k)' = kind
                /\ flags'[k] = Work(k) \ {kind}
                /\ \A j \in Sides : j # k =>
                     flags'[j] = flags[j] /\ Picked(j)' = Picked(j)
  BY ScanFindsView
<1>2. \A d \in Ends : Line(d)' = Line(d)
  BY ScanFindsView
<1>3. ASSUME NEW j \in Sides, j # k
      PROVE  \A K \in Kinds : (Token(j, K)' <=> Token(j, K)) /\ (Once(j, K)' <=> Once(j, K))
  BY <1>1, <1>2, <1>3, SideEnds DEF Token, Once
<1>4. k[1] \in Ends
  BY SideEnds
<1>5. /\ Work(k) \subseteq flags[k] \cup {"DATA"}
      /\ "DATA" \in Work(k) =>
           "DATA" \in flags[k] \/ (sout[k] # sin[k] /\ sendseq[k] # sendwin[k])
  <2>1. sin[k] \in Nat /\ sout[k] \in Nat
    BY SideTypes
  <2> QED BY <2>1 DEF Work, SendCount
<1>6. ASSUME NEW K \in Kinds
      PROVE  Token(k, K)' => Owed(Work(k), "NONE", Line(k[1]), K, k[2])
  BY <1>1, <1>2, <1>4, OwedPick DEF Token
<1>7. ASSUME NEW K \in Kinds
      PROVE  Owed(Work(k), "NONE", Line(k[1]), K, k[2])
               => \/ Token(k, K)
                  \/ K = "DATA" /\ sout[k] # sin[k] /\ sendseq[k] # sendwin[k]
  BY <1>1, <1>5 DEF Owed, Token
<1>8. ASSUME NEW K \in Kinds, K # "DATA", Once(k, K)
      PROVE  Once(k, K)'
  <2>1. OwedOnce(Work(k), "NONE", Line(k[1]), K, k[2])
    BY <1>1, <1>5, <1>8 DEF OwedOnce, Once
  <2>2. OwedOnce(Work(k) \ {kind}, kind, Line(k[1]), K, k[2])
    BY <1>1, <2>1, OwedPick
  <2> QED BY <1>1, <1>2, <1>4, <2>2 DEF Once
<1> QED BY <1>3, <1>6, <1>7, <1>8

\* Building a packet changes nothing in what is owed.
LEMMA TokenBuild ==
    ASSUME TypeOK, ThreadsHold, SendHolds, NEW e \in Ends, BuildPacket(e)
    PROVE  \A j \in Sides, K \in Kinds :
             /\ Token(j, K)' => Token(j, K)
             /\ Once(j, K) => Once(j, K)'
<1>1. PICK k \in Sides, p \in Packets :
             /\ k[1] = e /\ Picked(k) = p.type /\ p.id = k[2] /\ p.type \in Kinds
             /\ Picked(k)' = "NONE"
             /\ Line(e)' = Append(Line(e), p)
             /\ \A d \in Ends : d # e => Line(d)' = Line(d)
             /\ \A j \in Sides : j # k => Picked(j)' = Picked(j)
  BY BuildPacketView
<1>2. flags' = flags
  BY BuildPacketEffect
<1>3. Line(e) \in Seq(Packets)
  BY LineType
<1>4. ASSUME NEW K \in Kinds
      PROVE  (Token(k, K)' => Token(k, K)) /\ (Once(k, K) => Once(k, K)')
  <2>1. Token(k, K)' <=> Owed(flags[k], "NONE", Append(Line(e), p), K, k[2])
    BY <1>1, <1>2 DEF Token
  <2>2. Once(k, K)' <=> OwedOnce(flags[k], "NONE", Append(Line(e), p), K, k[2])
    BY <1>1, <1>2 DEF Once
  <2>3. /\ Token(k, K) <=> Owed(flags[k], p.type, Line(e), K, k[2])
        /\ Once(k, K) <=> OwedOnce(flags[k], p.type, Line(e), K, k[2])
    BY <1>1 DEF Token, Once
  <2>4. /\ Owed(flags[k], "NONE", Append(Line(e), p), K, k[2])
             <=> Owed(flags[k], p.type, Line(e), K, k[2])
        /\ OwedOnce(flags[k], p.type, Line(e), K, k[2])
             => OwedOnce(flags[k], "NONE", Append(Line(e), p), K, k[2])
    BY <1>1, <1>3, OwedBuild
  <2> QED BY <2>1, <2>2, <2>3, <2>4
<1>5. ASSUME NEW j \in Sides, j # k, NEW K \in Kinds
      PROVE  (Token(j, K)' => Token(j, K)) /\ (Once(j, K) => Once(j, K)')
  <2>1. CASE j[1] = e
    <3>1. p.id # j[2]
      BY <1>1, <1>5, <2>1, SideFacts
    <3>2. /\ Owed(flags[j], Picked(j), Append(Line(e), p), K, j[2])
               <=> Owed(flags[j], Picked(j), Line(e), K, j[2])
          /\ OwedOnce(flags[j], Picked(j), Line(e), K, j[2])
               => OwedOnce(flags[j], Picked(j), Append(Line(e), p), K, j[2])
      BY <1>3, <3>1, OwedBuildOther
    <3>3. Picked(j)' = Picked(j)
      BY <1>1, <1>5
    <3> QED BY <1>1, <1>2, <2>1, <3>2, <3>3 DEF Token, Once
  <2>2. CASE j[1] # e
    BY <1>1, <1>2, <1>5, <2>2, SideEnds DEF Token, Once
  <2> QED BY <2>1, <2>2
<1> QED BY <1>4, <1>5

\* The receiver is through with packet p, and may set a flag X in answer.
LEMMA TokenReceive ==
    ASSUME TypeOK, NEW e \in Ends, NEW k \in Sides, NEW p, k[1] = e, k[2] = p.id, NEW X,
           flags'[k] = flags[k] \/ flags'[k] = flags[k] \cup {X},
           \A j \in Sides : j # k => flags'[j] = flags[j],
           \A j \in Sides : Picked(j)' = Picked(j),
           Line(Peer(e)) # <<>>, Line(Peer(e))[1] = p,
           Line(Peer(e))' = Tail(Line(Peer(e))), Line(e)' = Line(e)
    PROVE  /\ Token(Remote(k), p.type)
           /\ Once(Remote(k), p.type) => ~Token(Remote(k), p.type)'
           /\ \A j \in Sides, K \in Kinds :
                /\ Token(j, K)' => Token(j, K) \/ (j = k /\ K = X)
                /\ Once(j, K) /\ ~(j = k /\ K = X) => Once(j, K)'
           /\ ~Token(k, X) => Once(k, X)'
<1>1. k[1] = e /\ k[2] = p.id
  OBVIOUS
<1>2. /\ Remote(k) \in Sides /\ Remote(k) # k
      /\ Remote(k)[1] = Peer(e) /\ Remote(k)[2] = p.id
  BY <1>1, RemoteFacts
<1>3. Line(Peer(e)) \in Seq(Packets)
  BY LineType, PeerFacts
<1>4. ASSUME NEW j \in Sides, j[1] = Peer(e)
      PROVE  /\ \A K \in Kinds : (Token(j, K)' => Token(j, K)) /\ (Once(j, K) => Once(j, K)')
             /\ \A K : At(Line(Peer(e)), K, j[2], 1) => Token(j, K)
             /\ \A K : At(Line(Peer(e)), K, j[2], 1) /\ Once(j, K) => ~Token(j, K)'
  <2>1. j # k
    BY <1>1, <1>4, PeerFacts
  <2>2. \A K : /\ Token(j, K) <=> Owed(flags[j], Picked(j), Line(Peer(e)), K, j[2])
               /\ Once(j, K) <=> OwedOnce(flags[j], Picked(j), Line(Peer(e)), K, j[2])
    BY <1>4 DEF Token, Once
  <2>3. \A K : Token(j, K)' <=> Owed(flags[j], Picked(j), Tail(Line(Peer(e))), K, j[2])
    BY <1>4, <2>1 DEF Token
  <2>4. \A K : Once(j, K)' <=> OwedOnce(flags[j], Picked(j), Tail(Line(Peer(e))), K, j[2])
    BY <1>4, <2>1 DEF Once
  <2>5. /\ \A K : Owed(flags[j], Picked(j), Tail(Line(Peer(e))), K, j[2])
                    => Owed(flags[j], Picked(j), Line(Peer(e)), K, j[2])
        /\ \A K : OwedOnce(flags[j], Picked(j), Line(Peer(e)), K, j[2])
                    => OwedOnce(flags[j], Picked(j), Tail(Line(Peer(e))), K, j[2])
        /\ \A K : At(Line(Peer(e)), K, j[2], 1)
                    => Owed(flags[j], Picked(j), Line(Peer(e)), K, j[2])
        /\ \A K : At(Line(Peer(e)), K, j[2], 1)
                    /\ OwedOnce(flags[j], Picked(j), Line(Peer(e)), K, j[2])
                    => ~Owed(flags[j], Picked(j), Tail(Line(Peer(e))), K, j[2])
    <3>1. PICK q \in Seq(Packets) : q = Line(Peer(e)) /\ q # <<>>
      BY <1>3
    <3>2. PICK F, a, c : F = flags[j] /\ a = Picked(j) /\ c = j[2]
      OBVIOUS
    <3>3. /\ \A K : Owed(F, a, Tail(q), K, c) => Owed(F, a, q, K, c)
          /\ \A K : OwedOnce(F, a, q, K, c) => OwedOnce(F, a, Tail(q), K, c)
          /\ \A K : At(q, K, c, 1) => Owed(F, a, q, K, c)
          /\ \A K : At(q, K, c, 1) /\ OwedOnce(F, a, q, K, c)
                      => ~Owed(F, a, Tail(q), K, c)
      BY <3>1, OwedTail
    <3> QED BY <3>1, <3>2, <3>3
  <2> QED BY <2>2, <2>3, <2>4, <2>5
<1>5. At(Line(Peer(e)), p.type, Remote(k)[2], 1)
  <2>1. 1 \in 1..Len(Line(Peer(e)))
    BY <1>3, EmptySeq
  <2> QED BY <1>2, <2>1 DEF At
<1>6. ASSUME NEW j \in Sides, j[1] # Peer(e), j # k, NEW K \in Kinds
      PROVE  (Token(j, K)' <=> Token(j, K)) /\ (Once(j, K)' <=> Once(j, K))
  <2>1. j[1] = e
    BY <1>6, SideEnds DEF Ends, Peer
  <2> QED BY <1>6, <2>1 DEF Token, Once
<1>7. /\ \A K \in Kinds : Token(k, K)' => Token(k, K) \/ K = X
      /\ \A K \in Kinds : Once(k, K) /\ K # X => Once(k, K)'
      /\ ~Token(k, X) => Once(k, X)'
  <2>1. CASE flags'[k] = flags[k]
    <3>1. /\ \A K : Token(k, K)' <=> Token(k, K)
          /\ \A K : Once(k, K)' <=> Once(k, K)
      BY <1>1, <2>1 DEF Token, Once
    <3>2. ~Token(k, X) => Once(k, X)
      BY DEF Token, Once, Owed, OwedOnce
    <3> QED BY <3>1, <3>2
  <2>2. CASE flags'[k] = flags[k] \cup {X}
    <3>2. \A K : Token(k, K)' <=> Owed(flags[k] \cup {X}, Picked(k), Line(k[1]), K, k[2])
      BY <1>1, <2>2 DEF Token
    <3>3. \A K : Once(k, K)' <=> OwedOnce(flags[k] \cup {X}, Picked(k), Line(k[1]), K, k[2])
      BY <1>1, <2>2 DEF Once
    <3> QED BY <3>2, <3>3, OwedFlag DEF Token, Once
  <2> QED BY <2>1, <2>2
<1>8. k[1] # Peer(e)
  BY <1>1, PeerFacts
<1>9. Token(Remote(k), p.type) /\ (Once(Remote(k), p.type) => ~Token(Remote(k), p.type)')
  BY <1>2, <1>4, <1>5
<1>10. ASSUME NEW j \in Sides, NEW K \in Kinds
       PROVE  /\ Token(j, K)' => Token(j, K) \/ (j = k /\ K = X)
              /\ Once(j, K) /\ ~(j = k /\ K = X) => Once(j, K)'
  <2>1. CASE j[1] = Peer(e)
    BY <1>4, <2>1
  <2>2. CASE j[1] # Peer(e) /\ j # k
    BY <1>6, <2>2
  <2>3. CASE j = k
    BY <1>7, <2>3
  <2> QED BY <2>1, <2>2, <2>3
<1> QED BY <1>7, <1>9, <1>10

-----------------------------------------------------------------------------
(* What arrives, and in which state *)

\* No line changes, nor what the sender threads hold; or the receiver of end e
\* is through with packet p.
Rests ==
    /\ \A j \in Sides : Picked(j)' = Picked(j) /\ Made(j)' = Made(j)
    /\ \A e \in Ends : Line(e)' = Line(e)
Takes(e, p) ==
    /\ \A j \in Sides : Picked(j)' = Picked(j) /\ Made(j)' = Made(j)
    /\ Line(Peer(e)) # <<>> /\ Line(Peer(e))[1] = p
    /\ Line(Peer(e))' = Tail(Line(Peer(e)))
    /\ Line(e)' = Line(e)

\* One of the two sides connects, the other listens.
LEMMA OpenerFacts ==
    ASSUME NEW k \in Sides
    PROVE  Opener(k[2]) = k[1] <=> Opener(Remote(k)[2]) # Remote(k)[1]
BY SideEnds, RemoteFacts DEF Opener, Peer, Ends

\* The packet at the head of the line is owed, and a channel is open at both
\* ends once anything but the packets that open it arrives.
LEMMA HeadOfLine ==
    ASSUME Local, Cross, NEW k \in Sides, NEW p, p.id = k[2],
           Line(Peer(k[1])) # <<>>, Line(Peer(k[1]))[1] = p
    PROVE  /\ Token(Remote(k), p.type)
           /\ p.type # "ACCEPT" /\ Opened(Remote(k)) => Opened(k)
<1>1. TypeOK /\ Handshake /\ AcceptFirst
  BY DEF Local, Cross
<1>2. /\ Remote(k) \in Sides /\ Remote(Remote(k)) = k
      /\ Remote(k)[1] = Peer(k[1]) /\ Remote(k)[2] = k[2]
  BY RemoteFacts
<1>3. Line(Peer(k[1])) \in Seq(Packets)
  BY <1>1, LineType, PeerFacts, SideEnds
<1>4. Token(Remote(k), p.type)
  <2>1. 1 \in 1..Len(Line(Peer(k[1])))
    BY <1>3, EmptySeq
  <2>2. At(Line(Peer(k[1])), p.type, k[2], 1)
    BY <2>1 DEF At
  <2> QED BY <1>2, <2>1, <2>2 DEF Token, Owed
<1>5. ASSUME p.type # "ACCEPT", Opened(Remote(k)), ~Opened(k)
      PROVE  FALSE
  <2>1. CASE Opener(k[2]) # k[1]
    <3>1. Opener(Remote(k)[2]) = Remote(k)[1]
      BY <2>1, OpenerFacts
    <3> QED BY <1>1, <1>2, <1>5, <3>1 DEF Handshake
  <2>2. CASE Opener(k[2]) = k[1]
    <3>1. Opener(Remote(k)[2]) # Remote(k)[1]
      BY <2>2, OpenerFacts
    <3>2. NoneFor(Line(Peer(k[1])), k[2]) \/ FirstIs(Line(Peer(k[1])), "ACCEPT", k[2])
      BY <1>1, <1>2, <1>5, <3>1 DEF AcceptFirst
    <3> QED BY <1>3, <1>5, <3>2, FirstTail
  <2> QED BY <2>1, <2>2
<1> QED BY <1>4, <1>5

\* The packet that arrives.
LEMMA ArrivesPacket ==
    ASSUME TypeOK, NEW e \in Ends, NEW K, Arrives(e, {K}), NEW p, p = Head(net[Peer(e)])
    PROVE  p \in Packets /\ p.type = K /\ vpc[e] = "idle"
<1>1. LET q == Head(net[Peer(e)]) IN q \in Packets /\ q.type \in {K} /\ vpc[e] = "idle"
  BY ArrivesEffect
<1> QED BY <1>1

\* A CONNECT finds the channel listening.
LEMMA ConnectArrives ==
    ASSUME Local, Cross, NEW e \in Ends, ReceiveConnect(e)
    PROVE  \E k \in Sides, p \in Packets :
             /\ k = <<e, p.id>> /\ k[1] = e /\ k[2] = p.id /\ p.type = "CONNECT"
             /\ state[k] = "LISTENING" /\ state[Remote(k)] = "CONNECTING"
             /\ \A j \in Sides :
                  /\ state'[j] = IF j = k THEN "ESTABLISHED" ELSE state[j]
                  /\ sendwin'[j] = IF j = k THEN p.win ELSE sendwin[j]
                  /\ flags'[j] = IF j = k THEN flags[j] \cup {"ACCEPT"} ELSE flags[j]
             /\ Takes(e, p)
             /\ UNCHANGED <<sendseq, recvseq, sin, sout, rin, rout, wleft, eof, vpc>>
<1>1. TypeOK /\ Tokens
  BY DEF Local, Cross
<1>2. PICK p : p = Head(net[Peer(e)])
  OBVIOUS
<1>3. PICK k : k = <<e, p.id>>
  OBVIOUS
<1>4. /\ Arrives(e, {"CONNECT"}) /\ k \in Sides
      /\ \A j \in Sides :
           /\ j = k /\ state[k] = "LISTENING" =>
                /\ state'[j] = "ESTABLISHED" /\ sendwin'[j] = p.win
                /\ flags'[j] = flags[j] \cup {"ACCEPT"}
           /\ j # k =>
                state'[j] = state[j] /\ sendwin'[j] = sendwin[j] /\ flags'[j] = flags[j]
      /\ UNCHANGED <<sendseq, recvseq, sin, sout, rin, rout, wleft, eof, vpc>>
      /\ UNCHANGED <<spc, sid, what, pkt, vpkt>>
  <2>1. Arrives(e, {"CONNECT"}) /\ k \in Sides
    BY <1>1, <1>2, <1>3, ReceiveConnectEffect
  <2>2. \A j \in Sides :
           /\ j = k /\ state[k] = "LISTENING" =>
                /\ state'[j] = "ESTABLISHED" /\ sendwin'[j] = p.win
                /\ flags'[j] = flags[j] \cup {"ACCEPT"}
           /\ j # k =>
                state'[j] = state[j] /\ sendwin'[j] = sendwin[j] /\ flags'[j] = flags[j]
    <3>1. ASSUME state[k] = "LISTENING", k \in Sides
          PROVE  /\ state'[k] = "ESTABLISHED" /\ sendwin'[k] = p.win
                 /\ flags'[k] = flags[k] \cup {"ACCEPT"}
      BY <1>1, <1>2, <1>3, <3>1, ReceiveConnectEffect
    <3>2. ASSUME NEW j \in Sides, j # k
          PROVE  state'[j] = state[j] /\ sendwin'[j] = sendwin[j]
      BY <1>1, <1>2, <1>3, <3>2, ReceiveConnectEffect
    <3>3. ASSUME NEW j \in Sides, j # k PROVE flags'[j] = flags[j]
      BY <1>1, <1>2, <1>3, <3>3, ReceiveConnectEffect
    <3> QED BY <3>1, <3>2, <3>3
  <2>3. UNCHANGED <<sendseq, recvseq, sin, sout, rin, rout, wleft, eof, vpc,
                    spc, sid, what, pkt, vpkt>>
    BY <1>1, <1>2, <1>3, ReceiveConnectEffect
  <2> QED BY <2>1, <2>2, <2>3
<1>5. p \in Packets /\ p.type = "CONNECT"
  <2>1. Arrives(e, {"CONNECT"})
    BY <1>4
  <2> QED BY <1>1, <1>2, <2>1, ArrivesPacket
<1>6. k[1] = e /\ k[2] = p.id
  BY <1>3
<1>7. Takes(e, p)
  <2>1. /\ Line(Peer(e)) # <<>> /\ Line(Peer(e))[1] = p
        /\ Line(Peer(e))' = Tail(Line(Peer(e))) /\ Line(e)' = Line(e)
    BY <1>1, <1>2, <1>4, ArrivesView
  <2>2. \A j \in Sides : Picked(j)' = Picked(j) /\ (Busy(j)' <=> Busy(j))
    BY <1>4, SenderRests
  <2>3. \A j \in Sides : Made(j)' = Made(j)
    BY <1>4, <2>2 DEF Made
  <2> QED BY <2>1, <2>2, <2>3 DEF Takes
<1>8. Token(Remote(k), "CONNECT")
  BY <1>4, <1>5, <1>6, <1>7, HeadOfLine DEF Takes
<1>9. state[k] = "LISTENING" /\ state[Remote(k)] = "CONNECTING"
  BY <1>1, <1>4, <1>8, RemoteFacts DEF Tokens
<1> QED BY <1>3, <1>4, <1>5, <1>6, <1>7, <1>9

\* An ACCEPT finds it connecting.
LEMMA AcceptArrives ==
    ASSUME Local, Cross, NEW e \in Ends, ReceiveAccept(e)
    PROVE  \E k \in Sides, p \in Packets :
             /\ k = <<e, p.id>> /\ k[1] = e /\ k[2] = p.id /\ p.type = "ACCEPT"
             /\ state[k] = "CONNECTING" /\ Opened(Remote(k))
             /\ \A j \in Sides :
                  /\ state'[j] = IF j = k THEN "ESTABLISHED" ELSE state[j]
                  /\ sendwin'[j] = IF j = k THEN p.win ELSE sendwin[j]
                  /\ flags'[j] = flags[j]
             /\ Takes(e, p)
             /\ UNCHANGED <<sendseq, recvseq, sin, sout, rin, rout, wleft, eof, vpc>>
<1>1. TypeOK /\ Tokens
  BY DEF Local, Cross
<1>2. PICK p : p = Head(net[Peer(e)])
  OBVIOUS
<1>3. PICK k : k = <<e, p.id>>
  OBVIOUS
<1>4. /\ Arrives(e, {"ACCEPT"}) /\ k \in Sides
      /\ \A j \in Sides :
           /\ j = k /\ state[k] = "CONNECTING" =>
                /\ state'[j] = "ESTABLISHED" /\ sendwin'[j] = p.win
                /\ flags'[j] = flags[j]
           /\ j # k =>
                state'[j] = state[j] /\ sendwin'[j] = sendwin[j] /\ flags'[j] = flags[j]
      /\ UNCHANGED <<sendseq, recvseq, sin, sout, rin, rout, wleft, eof, vpc>>
      /\ UNCHANGED <<spc, sid, what, pkt, vpkt>>
  <2>1. Arrives(e, {"ACCEPT"}) /\ k \in Sides
    BY <1>1, <1>2, <1>3, ReceiveAcceptEffect
  <2>2. \A j \in Sides : j = k /\ state[k] = "CONNECTING" =>
          /\ state'[j] = "ESTABLISHED" /\ sendwin'[j] = p.win
          /\ flags'[j] = flags[j]
    BY <1>1, <1>2, <1>3, ReceiveAcceptEffect
  <2>3. \A j \in Sides : j # k =>
          state'[j] = state[j] /\ sendwin'[j] = sendwin[j] /\ flags'[j] = flags[j]
    BY <1>1, <1>2, <1>3, ReceiveAcceptEffect
  <2>4. UNCHANGED <<sendseq, recvseq, sin, sout, rin, rout, wleft, eof, vpc,
                    spc, sid, what, pkt, vpkt>>
    BY <1>1, <1>2, <1>3, ReceiveAcceptEffect
  <2> QED BY <2>1, <2>2, <2>3, <2>4
<1>5. p \in Packets /\ p.type = "ACCEPT"
  BY ZenonT(40), <1>1, <1>2, <1>4, ArrivesPacket
<1>6. k[1] = e /\ k[2] = p.id
  BY <1>3
<1>7. Takes(e, p)
  <2>1. /\ Line(Peer(e)) # <<>> /\ Line(Peer(e))[1] = p
        /\ Line(Peer(e))' = Tail(Line(Peer(e))) /\ Line(e)' = Line(e)
    BY <1>1, <1>2, <1>4, ArrivesView
  <2>2. \A j \in Sides : Picked(j)' = Picked(j) /\ (Busy(j)' <=> Busy(j))
    BY <1>4, SenderRests
  <2>3. \A j \in Sides : Made(j)' = Made(j)
    BY <1>4, <2>2 DEF Made
  <2> QED BY <2>1, <2>2, <2>3 DEF Takes
<1>8. Token(Remote(k), "ACCEPT")
  BY <1>4, <1>5, <1>6, <1>7, HeadOfLine DEF Takes
<1>9. state[k] = "CONNECTING" /\ Opened(Remote(k))
  BY <1>1, <1>4, <1>8, RemoteFacts DEF Tokens
<1> QED BY <1>3, <1>4, <1>5, <1>6, <1>7, <1>9

\* A WINDOW finds it open, perhaps not for writing any more.
LEMMA WindowArrives ==
    ASSUME Local, Cross, NEW e \in Ends, ReceiveWindow(e)
    PROVE  \E k \in Sides, p \in Packets :
             /\ k = <<e, p.id>> /\ k[1] = e /\ k[2] = p.id /\ p.type = "WINDOW"
             /\ Opened(k)
             /\ sendwin'[k] = p.win \/ sendwin'[k] = sendwin[k]
             /\ \A j \in Sides : j # k => sendwin'[j] = sendwin[j]
             /\ Takes(e, p)
             /\ UNCHANGED <<state, flags, sendseq, recvseq, sin, sout, rin, rout,
                            wleft, eof, vpc>>
<1>1. TypeOK /\ Tokens
  BY DEF Local, Cross
<1>2. PICK p : p = Head(net[Peer(e)])
  OBVIOUS
<1>3. PICK k : k = <<e, p.id>>
  OBVIOUS
<1>4. /\ Arrives(e, {"WINDOW"}) /\ k \in Sides
      /\ \A j \in Sides : sendwin'[j] = sendwin[j] \/ (j = k /\ sendwin'[j] = p.win)
      /\ UNCHANGED <<state, flags, sendseq, recvseq, sin, sout, rin, rout,
                            wleft, eof, vpc>>
      /\ UNCHANGED <<spc, sid, what, pkt, vpkt>>
  BY <1>1, <1>2, <1>3, ReceiveWindowEffect
<1>5. p \in Packets /\ p.type = "WINDOW"
  BY SMTT(30), <1>1, <1>2, <1>4, ArrivesPacket
<1>6. k[1] = e /\ k[2] = p.id
  BY <1>3
<1>7. Takes(e, p)
  <2>1. /\ Line(Peer(e)) # <<>> /\ Line(Peer(e))[1] = p
        /\ Line(Peer(e))' = Tail(Line(Peer(e))) /\ Line(e)' = Line(e)
    BY <1>1, <1>2, <1>4, ArrivesView
  <2>2. \A j \in Sides : Picked(j)' = Picked(j) /\ (Busy(j)' <=> Busy(j))
    BY <1>4, SenderRests
  <2>3. \A j \in Sides : Made(j)' = Made(j)
    BY <1>4, <2>2 DEF Made
  <2> QED BY <2>1, <2>2, <2>3 DEF Takes
<1>8. Token(Remote(k), "WINDOW") /\ (Opened(Remote(k)) => Opened(k))
  BY <1>4, <1>5, <1>6, <1>7, HeadOfLine DEF Takes
<1>9. Opened(k)
  BY <1>1, <1>4, <1>8, RemoteFacts DEF Tokens
<1> QED BY <1>3, <1>4, <1>5, <1>6, <1>7, <1>9

\* A CLOSE finds it open for reading, and the other side shut.
LEMMA CloseArrives ==
    ASSUME Local, Cross, NEW e \in Ends, ReceiveClose(e)
    PROVE  \E k \in Sides, p \in Packets :
             /\ k = <<e, p.id>> /\ k[1] = e /\ k[2] = p.id /\ p.type = "CLOSE"
             /\ Shut(Remote(k))
             /\ \/ state[k] = "ESTABLISHED" /\ state'[k] = "RDCLOSED"
                \/ state[k] = "WRCLOSED" /\ state'[k] = "CLOSED"
             /\ \A j \in Sides : j # k => state'[j] = state[j]
             /\ Takes(e, p)
             /\ UNCHANGED <<flags, sendseq, sendwin, recvseq, sin, sout, rin, rout,
                            wleft, eof, vpc>>
<1>1. TypeOK /\ Tokens /\ NoProtocolError
  BY DEF Local, Cross
<1>2. PICK p : p = Head(net[Peer(e)])
  OBVIOUS
<1>3. PICK k : k = <<e, p.id>>
  OBVIOUS
<1>4. /\ Arrives(e, {"CLOSE"}) /\ k \in Sides
      /\ state[k] \in {"ESTABLISHED", "WRCLOSED"} =>
           /\ \A j \in Sides :
                state'[j] = IF j # k THEN state[j]
                            ELSE IF state[j] = "ESTABLISHED"
                            THEN "RDCLOSED" ELSE "CLOSED"
           /\ UNCHANGED vpc
      /\ \A d \in Ends : vpc'[d] = vpc[d] \/ vpc'[d] = "bad"
      /\ UNCHANGED <<flags, sendseq, sendwin, recvseq, sin, sout, rin, rout,
                            wleft, eof>>
      /\ UNCHANGED <<spc, sid, what, pkt, vpkt>>
  BY <1>1, <1>2, <1>3, ReceiveCloseEffect
<1>5. p \in Packets /\ p.type = "CLOSE" /\ vpc[e] = "idle"
  BY <1>1, <1>2, <1>4, ArrivesPacket
<1>6. k[1] = e /\ k[2] = p.id
  BY <1>3
<1>7. Takes(e, p)
  <2>0. \A d \in Ends : vpc'[d] = "data" <=> vpc[d] = "data"
    <3>1. \A d \in Ends : d # e => vpc'[d] = vpc[d]
      BY <1>1, <1>2, <1>3, ReceiveCloseEffect
    <3> QED BY <1>4, <1>5, <3>1
  <2>1. /\ Line(Peer(e)) # <<>> /\ Line(Peer(e))[1] = p
        /\ Line(Peer(e))' = Tail(Line(Peer(e))) /\ Line(e)' = Line(e)
    BY <1>1, <1>2, <1>4, <2>0, ArrivesView
  <2>2. \A j \in Sides : Picked(j)' = Picked(j) /\ (Busy(j)' <=> Busy(j))
    BY <1>4, SenderRests
  <2>3. \A j \in Sides : Made(j)' = Made(j)
    BY <1>4, <2>2 DEF Made
  <2> QED BY <2>1, <2>2, <2>3 DEF Takes
<1>8. Token(Remote(k), "CLOSE") /\ (Opened(Remote(k)) => Opened(k))
  BY <1>4, <1>5, <1>6, <1>7, HeadOfLine DEF Takes
<1>9. Shut(Remote(k)) /\ ~Got(k)
  BY <1>1, <1>4, <1>8, RemoteFacts DEF Tokens
<1>10. state[k] \in {"ESTABLISHED", "WRCLOSED"}
  BY <1>8, <1>9 DEF Shut, Opened, Got
<1> QED BY <1>3, <1>4, <1>5, <1>6, <1>7, <1>9, <1>10

\* The payload is read into the buffer of an open channel.
LEMMA PayloadArrives ==
    ASSUME Local, Cross, NEW e \in Ends, PayloadRead(e)
    PROVE  \E k \in Sides, p \in Packets :
             /\ k = <<e, p.id>> /\ k[1] = e /\ k[2] = p.id /\ p.type = "DATA"
             /\ Opened(k)
             /\ \A j \in Sides : rin'[j] = IF j = k THEN rin[j] + p.len ELSE rin[j]
             /\ Takes(e, p)
             /\ \A d \in Ends : vpc'[d] # "bad"
             /\ UNCHANGED <<state, flags, sendseq, sendwin, recvseq, sin, sout,
                            rout, wleft, eof>>
<1>1. TypeOK /\ ThreadsHold /\ Tokens /\ NoProtocolError
  BY DEF Local, Cross
<1>2. /\ vpc[e] = "data"
      /\ \A j \in Sides :
           rin'[j] = IF j[1] = e /\ vpkt[e].id = j[2]
                     THEN rin[j] + vpkt[e].len ELSE rin[j]
      /\ \A d \in Ends : vpc'[d] = IF d = e THEN "idle" ELSE vpc[d]
      /\ UNCHANGED <<state, flags, sendseq, sendwin, recvseq, sin, sout,
                            rout, wleft, eof>>
      /\ UNCHANGED <<spc, sid, what, pkt>>
  BY <1>1, PayloadReadEffect
<1>3. PICK p \in Packets : p = vpkt[e] /\ p.type = "DATA" /\ p.id \in Chans
  BY <1>1, <1>2, EndTypes DEF ThreadsHold
<1>4. PICK k \in Sides : k = <<e, p.id>> /\ k[1] = e /\ k[2] = p.id
  <2>1. <<e, p.id>> \in Sides /\ <<e, p.id>>[1] = e /\ <<e, p.id>>[2] = p.id
    BY <1>3, SideFacts
  <2> QED BY <2>1
<1>5. Takes(e, p)
  <2>1. /\ Line(Peer(e)) # <<>> /\ Line(Peer(e))[1] = p
        /\ Line(Peer(e))' = Tail(Line(Peer(e))) /\ Line(e)' = Line(e)
    BY <1>1, <1>3, PayloadReadView
  <2>2. \A j \in Sides : Picked(j)' = Picked(j) /\ (Busy(j)' <=> Busy(j))
    BY <1>2, SenderRests
  <2>3. \A j \in Sides : Made(j)' = Made(j)
    BY <1>2, <2>2 DEF Made
  <2> QED BY <2>1, <2>2, <2>3 DEF Takes
<1>6. Token(Remote(k), "DATA") /\ (Opened(Remote(k)) => Opened(k))
  BY <1>3, <1>4, <1>5, HeadOfLine DEF Takes
<1>7. Opened(k)
  BY <1>1, <1>6, RemoteFacts DEF Tokens
<1>8. \A j \in Sides : rin'[j] = IF j = k THEN rin[j] + p.len ELSE rin[j]
  BY <1>2, <1>3, <1>4, SideFacts
<1>9. \A d \in Ends : vpc'[d] # "bad"
  BY <1>1, <1>2 DEF NoProtocolError
<1> QED BY <1>2, <1>3, <1>4, <1>5, <1>7, <1>8, <1>9

-----------------------------------------------------------------------------
(* What keeps the parts of Cross *)

\* A channel that is open stays open, the others stay as they are.
LEMMA HandshakeKept ==
    ASSUME Handshake,
           \A j \in Sides : state'[j] = state[j] \/ (Opened(j) /\ Opened(j)')
    PROVE  Handshake'
<1>1. \A j \in Sides : /\ Opened(j)' <=> Opened(j)
                       /\ state'[j] = "CONNECTING" <=> state[j] = "CONNECTING"
                       /\ state'[j] = "UNUSED" <=> state[j] = "UNUSED"
  BY DEF Opened
<1>2. \A j \in Sides : Remote(j) \in Sides
  BY RemoteFacts
<1> QED BY <1>1, <1>2 DEF Handshake

\* Nothing new is owed but windows and data, on open channels.
LEMMA TokensKept ==
    ASSUME Tokens, UNCHANGED state,
           \A j \in Sides, K \in Kinds :
             /\ Token(j, K)' => \/ Token(j, K)
                                \/ K \in {"WINDOW", "DATA"} /\ Opened(j)
             /\ Once(j, K) /\ K \notin {"WINDOW", "DATA"} => Once(j, K)'
    PROVE  Tokens'
<1>1. \A j \in Sides : /\ Opened(j)' <=> Opened(j)
                       /\ Shut(j)' <=> Shut(j)
                       /\ Got(j)' <=> Got(j)
  BY DEF Opened, Shut, Got
<1>2. \A j \in Sides : Remote(j) \in Sides
  BY RemoteFacts
<1> SUFFICES ASSUME NEW k \in Sides
             PROVE  /\ Token(k, "CONNECT")' => state'[k] = "CONNECTING" /\ state'[Remote(k)] = "LISTENING"
                    /\ Token(k, "ACCEPT")' => Opened(k)' /\ state'[Remote(k)] = "CONNECTING"
                    /\ ~Token(k, "RESET")'
                    /\ Token(k, "WINDOW")' => Opened(k)'
                    /\ Token(k, "DATA")' => Opened(k)'
                    /\ Token(k, "CLOSE")' => Shut(k)' /\ ~Got(Remote(k))'
                    /\ \A K \in {"CONNECT", "ACCEPT", "CLOSE"} : Once(k, K)'
  BY DEF Tokens
<1>3. /\ Token(k, "CONNECT")' => Token(k, "CONNECT")
      /\ Token(k, "ACCEPT")' => Token(k, "ACCEPT")
      /\ Token(k, "RESET")' => Token(k, "RESET")
      /\ Token(k, "CLOSE")' => Token(k, "CLOSE")
      /\ Token(k, "WINDOW")' => Token(k, "WINDOW") \/ Opened(k)
      /\ Token(k, "DATA")' => Token(k, "DATA") \/ Opened(k)
  BY DEF Kinds
<1>4. \A K \in {"CONNECT", "ACCEPT", "CLOSE"} : Once(k, K) => Once(k, K)'
  BY DEF Kinds
<1> QED BY <1>1, <1>2, <1>3, <1>4 DEF Tokens

\* No line changes, and the flag for the answer stays where it was.
LEMMA AcceptFirstKept ==
    ASSUME AcceptFirst, Rests,
           \A j \in Sides : /\ Opened(j)' <=> Opened(j)
                            /\ "ACCEPT" \in flags[j] => "ACCEPT" \in flags'[j]
    PROVE  AcceptFirst'
<1>1. \A j \in Sides : Remote(j) \in Sides /\ j[1] \in Ends
  BY RemoteFacts, SideEnds
<1> SUFFICES ASSUME NEW k \in Sides, Opener(k[2]) # k[1], Opened(k)', ~Opened(Remote(k))'
             PROVE  \/ /\ \/ "ACCEPT" \in flags'[k] /\ Picked(k)' = "NONE"
                          \/ Picked(k)' = "ACCEPT"
                       /\ NoneFor(Line(k[1])', k[2])
                    \/ FirstIs(Line(k[1])', "ACCEPT", k[2])
  BY DEF AcceptFirst, NoneFor, FirstIs, At
<1>2. Opened(k) /\ ~Opened(Remote(k))
  BY <1>1
<1>3. Line(k[1])' = Line(k[1]) /\ Picked(k)' = Picked(k)
  BY <1>1 DEF Rests
<1> QED BY <1>2, <1>3 DEF AcceptFirst

\* Nobody writes, reads or closes.
LEMMA ClosingKept ==
    ASSUME Closing, UNCHANGED <<sin, wleft, rout>>,
           \A j \in Sides : /\ Shut(j)' <=> Shut(j)
                            /\ Got(j) => Got(j)'
                            /\ Got(j)' => Got(j) \/ Shut(Remote(j))
    PROVE  Closing'
<1>1. \A j \in Sides : Remote(j) \in Sides
  BY RemoteFacts
<1> QED BY <1>1 DEF Closing

\* The lines and the two buffers stay as they are.
LEMMA InOrderKept ==
    ASSUME InOrder, Rests, UNCHANGED rin
    PROVE  InOrder'
<1>1. \A j \in Sides : Remote(j) \in Sides /\ j[1] \in Ends
  BY RemoteFacts, SideEnds
<1> SUFFICES ASSUME NEW k \in Sides
             PROVE  Stream(Line(k[1])', k[2], rin'[Remote(k)], Made(k)')
  BY DEF InOrder, Stream, EndOf, StartOf, At
<1>2. Line(k[1])' = Line(k[1]) /\ Made(k)' = Made(k)
  BY <1>1 DEF Rests
<1> QED BY <1>2 DEF InOrder

\* Nothing that has to do with sequence numbers changes.
LEMMA CreditKept ==
    ASSUME Credit, Rests, UNCHANGED <<sendseq, sendwin, recvseq, sout, rout>>,
           \A j \in Sides : /\ Opened(j)' <=> Opened(j)
                            /\ "DATA" \in flags'[j] => "DATA" \in flags[j]
    PROVE  Credit'
<1>1. \A j \in Sides : Remote(j) \in Sides /\ Peer(j[1]) \in Ends
  BY RemoteFacts, SideEnds, PeerFacts
<1> SUFFICES ASSUME NEW k \in Sides
             PROVE  /\ Minus(Plus(sendseq'[k], Made(k)' - sout'[k]), recvseq'[Remote(k)])
                         = Made(k)' - rout'[Remote(k)]
                    /\ Made(k)' - rout'[Remote(k)] <= Edge(k)' /\ Edge(k)' <= RBSize
                    /\ Offers(Line(Peer(k[1]))', k[2], recvseq'[Remote(k)], Edge(k)')
                    /\ "DATA" \in flags'[k] \/ Picked(k)' = "DATA" => sendseq'[k] # sendwin'[k]
  BY DEF Credit, Offers, Offer, Minus, Plus
<1>2. Line(Peer(k[1]))' = Line(Peer(k[1])) /\ Made(k)' = Made(k) /\ Picked(k)' = Picked(k)
  BY <1>1 DEF Rests
<1>3. Edge(k)' = Edge(k)
  BY DEF Edge, Minus
<1> QED BY <1>2, <1>3 DEF Credit

-----------------------------------------------------------------------------
(* Stream positions *)

\* What was built lies in the send buffer.
LEMMA MadeType ==
    ASSUME Local, NEW k \in Sides
    PROVE  /\ Made(k) \in Nat /\ sout[k] \in Nat /\ sin[k] \in Nat
           /\ sout[k] <= Made(k) /\ Made(k) <= sin[k]
           /\ Made(k) - sout[k] \in Nat /\ Made(k) - sout[k] < SeqMod
           /\ ~Busy(k) => Made(k) = sout[k]
<1>1. TypeOK /\ SendHolds
  BY DEF Local
<1>2. /\ sin[k] \in Nat /\ sout[k] \in Nat /\ pkt[k[1]].len \in Nat
      /\ sout[k] <= sin[k]
      /\ Busy(k) => pkt[k[1]].len <= sin[k] - sout[k] /\ pkt[k[1]].len < SeqMod
  BY <1>1, SideTypes, EndTypes, SideEnds DEF SendHolds
<1> QED BY <1>2, MuxAssumption DEF Made

\* The stream positions of one direction, from the reader to the writer.
LEMMA Positions ==
    ASSUME Local, Cross, NEW k \in Sides
    PROVE  /\ rout[Remote(k)] \in Nat /\ rin[Remote(k)] \in Nat /\ Total[k] \in Nat
           /\ wleft[k] \in Nat
           /\ rout[Remote(k)] <= rin[Remote(k)] /\ rin[Remote(k)] <= Made(k)
           /\ Made(k) <= sin[k] /\ sin[k] + wleft[k] <= Total[k]
<1>1. TypeOK /\ RecvHolds /\ InOrder /\ Closing
  BY DEF Local, Cross
<1>2. Remote(k) \in Sides /\ k[1] \in Ends /\ k[2] \in Chans
  BY RemoteFacts, SideEnds
<1>3. /\ rout[Remote(k)] \in Nat /\ rin[Remote(k)] \in Nat /\ wleft[k] \in Nat
      /\ rout[Remote(k)] <= rin[Remote(k)]
  BY <1>1, <1>2, SideTypes DEF RecvHolds
<1>4. rin[Remote(k)] <= Made(k)
  <2>1. Line(k[1]) \in Seq(Packets) /\ Made(k) \in Nat
    BY <1>1, <1>2, LineType, MadeType
  <2>2. Stream(Line(k[1]), k[2], rin[Remote(k)], Made(k))
    BY <1>1 DEF InOrder
  <2> QED BY <1>2, <1>3, <2>1, <2>2, StreamBounds
<1>5. Made(k) <= sin[k] /\ sin[k] + wleft[k] <= Total[k]
  BY <1>1, MadeType DEF Closing
<1>6. Total[k] \in Nat
  BY MuxAssumption
<1> QED BY <1>3, <1>4, <1>5, <1>6

\* What a side that has closed its channel wrote has been read, all of it: the
\* discipline of the threads, which mux.c itself does not enforce.
LEMMA AllRead ==
    ASSUME Local, Cross, NEW k \in Sides, Shut(k)
    PROVE  rout[Remote(k)] = Total[k] /\ sin[k] = Total[k]
<1>1. Closing
  BY DEF Cross
<1>2. /\ Remote(k) \in Sides /\ Remote(Remote(k)) = k
      /\ Remote(k)[1] = Peer(k[1]) /\ Remote(k)[2] = k[2]
      /\ k[1] \in Ends /\ k[2] \in Chans
  BY RemoteFacts, SideEnds
<1>3. ASSUME NEW j \in Sides, j[1] = "client", Shut(j)
      PROVE  rout[j] = Total[Remote(j)] /\ rout[Remote(j)] = Total[j] /\ sin[j] = Total[j]
  <2>1. /\ Remote(j) \in Sides /\ Remote(Remote(j)) = j
        /\ Remote(j)[1] = "server"
    BY <1>3, RemoteFacts DEF Peer
  <2>2. rout[j] = Total[Remote(j)] /\ sin[j] = Total[j]
    BY <1>1, <1>3 DEF Closing
  <2>3. sin[Remote(j)] + wleft[Remote(j)] = Total[Remote(j)]
    <3>1. /\ rout[j] <= rin[j] /\ rin[j] <= Made(Remote(j))
          /\ Made(Remote(j)) <= sin[Remote(j)]
          /\ sin[Remote(j)] + wleft[Remote(j)] <= Total[Remote(j)]
          /\ rout[j] \in Nat /\ rin[j] \in Nat /\ wleft[Remote(j)] \in Nat
          /\ Total[Remote(j)] \in Nat
      BY <2>1, Positions
    <3>2. Made(Remote(j)) \in Nat /\ sin[Remote(j)] \in Nat
      BY <2>1, MadeType
    <3> QED BY <2>2, <3>1, <3>2
  <2>4. rout[Remote(j)] = Total[j]
    BY <1>1, <2>1, <2>3 DEF Closing
  <2> QED BY <2>2, <2>4
<1>4. CASE k[1] = "client"
  BY <1>3, <1>4
<1>5. CASE k[1] = "server"
  <2>1. Remote(k)[1] = "client"
    BY <1>2, <1>5 DEF Peer
  <2>2. Got(k) /\ sin[k] = Total[k]
    BY <1>1, <1>5 DEF Closing
  <2>3. Shut(Remote(k))
    BY <1>1, <2>2 DEF Closing
  <2> QED BY <1>2, <1>3, <2>1, <2>2, <2>3
<1> QED BY <1>2, <1>4, <1>5 DEF Ends

\* Data finds its channel open for reading, and room: no protocol error.
LEMMA DataArrives ==
    ASSUME Local, Cross, NEW e \in Ends, ReceiveData(e)
    PROVE  /\ \A d \in Ends : vpc'[d] # "bad"
           /\ Rests
           /\ UNCHANGED <<state, flags, sendseq, sendwin, recvseq, sin, sout, rin,
                          rout, wleft, eof>>
<1>1. TypeOK /\ Tokens /\ NoProtocolError /\ Closing /\ InOrder /\ Credit
  BY DEF Local, Cross
<1>2. PICK p : p = Head(net[Peer(e)])
  OBVIOUS
<1>3. PICK k : k = <<e, p.id>>
  OBVIOUS
<1>4. Arrives(e, {"DATA", "RESET"}) /\ k \in Sides
  BY <1>1, <1>2, <1>3, ReceiveDataEffect
<1>5. p \in Packets /\ p.type \in {"DATA", "RESET"}
  BY <1>1, <1>2, <1>4, ArrivesEffect
<1>6. k[1] = e /\ k[2] = p.id /\ p.id \in Chans
  BY <1>3, <1>4, SideEnds
<1>7. Line(Peer(e)) # <<>> /\ Line(Peer(e))[1] = p
  BY <1>1, <1>2, ReceiveDataView
<1>8. /\ Token(Remote(k), p.type)
      /\ p.type # "ACCEPT" /\ Opened(Remote(k)) => Opened(k)
  BY <1>4, <1>6, <1>7, HeadOfLine
<1>9. Remote(k) \in Sides /\ Remote(Remote(k)) = k /\ Remote(k)[1] = Peer(e)
      /\ Remote(k)[2] = k[2] /\ Peer(e) \in Ends
  BY <1>4, <1>6, RemoteFacts, PeerFacts
<1>10. p.type = "DATA"
  BY <1>1, <1>5, <1>8, <1>9 DEF Tokens
<1>11. Opened(k)
  BY <1>1, <1>8, <1>9, <1>10 DEF Tokens
<1> DEFINE r == Remote(k)
           q == Line(Peer(e))
<1>12. /\ q \in Seq(Packets) /\ Made(r) \in Nat /\ rin[k] \in Nat /\ rout[k] \in Nat
       /\ p.len \in Nat /\ p.from \in Nat
  BY <1>1, <1>4, <1>5, <1>9, LineType, MadeType, SideTypes DEF Packets
<1>13. Stream(q, p.id, rin[k], Made(r))
  BY <1>1, <1>6, <1>9 DEF InOrder
<1>14. 1 \in 1..Len(q) /\ At(q, "DATA", p.id, 1)
  BY <1>7, <1>10, <1>12, EmptySeq DEF At
<1>15. rin[k] <= p.from /\ p.from + p.len <= Made(r) /\ p.len \in 1..MSS
  BY <1>6, <1>7, <1>12, <1>13, <1>14, StreamBounds
<1>16. ~Got(k)
  <2> SUFFICES ASSUME Got(k) PROVE FALSE
    OBVIOUS
  <2>1. Shut(r)
    BY <1>1, <1>4 DEF Closing
  <2>2. rout[k] = Total[r]
    BY <1>9, <2>1, AllRead
  <2>3. rout[k] <= rin[k] /\ Made(r) <= sin[r] /\ sin[r] + wleft[r] <= Total[r]
        /\ wleft[r] \in Nat /\ Total[r] \in Nat
    BY <1>9, Positions
  <2>4. sin[r] \in Nat
    BY <1>9, MadeType
  <2> QED BY <1>12, <1>15, <2>2, <2>3, <2>4, MuxAssumption
<1>17. p.len <= RecvAvail(k)
  <2>1. Made(r) - rout[k] <= Edge(r) /\ Edge(r) <= RBSize
    BY <1>1, <1>9 DEF Credit
  <2>2. Edge(r) \in Int
    <3>1. sendwin[r] \in SeqNums /\ recvseq[k] \in SeqNums
      BY <1>1, <1>4, <1>9, SideTypes
    <3>2. Minus(sendwin[r], recvseq[k]) \in SeqNums
      BY <3>1, SeqNumType
    <3> QED BY <1>9, <3>2, MuxAssumption DEF Edge, SeqNums
  <2>3. rout[k] <= rin[k]
    BY <1>9, Positions
  <2> QED BY <1>12, <1>15, <2>1, <2>2, <2>3, MuxAssumption DEF RecvAvail, RecvCount
<1>18. state[k] \in {"ESTABLISHED", "WRCLOSED"}
  BY <1>11, <1>16 DEF Opened, Got
<1>19. p.len <= MSS /\ RecvAvail(k) \in Int
  BY <1>12, <1>15, MuxAssumption DEF RecvAvail, RecvCount
<1>20. ~(\/ p.type = "RESET"
         \/ state[k] \notin {"ESTABLISHED", "WRCLOSED"}
         \/ p.len > RecvAvail(k)
         \/ p.len > MSS)
  BY <1>10, <1>12, <1>17, <1>18, <1>19, MuxAssumption
<1>21. \A d \in Ends : vpc'[d] = IF d = e THEN "data" ELSE vpc[d]
  BY <1>1, <1>2, <1>3, <1>20, ReceiveDataEffect
<1>22. UNCHANGED <<state, flags, sendseq, sendwin, recvseq, sin, sout, rin,
                   rout, wleft, eof, spc, sid, what, pkt>>
  BY <1>1, <1>2, <1>3, ReceiveDataEffect
<1>23. \A d \in Ends : vpc'[d] # "bad"
  BY <1>1, <1>21 DEF NoProtocolError
<1>24. Rests
  <2>1. \A d \in Ends : Line(d)' = Line(d)
    BY <1>1, <1>23, ReceiveDataView
  <2>2. \A j \in Sides : Picked(j)' = Picked(j) /\ (Busy(j)' <=> Busy(j))
    BY <1>22, SenderRests
  <2>3. \A j \in Sides : Made(j)' = Made(j)
    BY <1>22, <2>2 DEF Made
  <2> QED BY <2>1, <2>2, <2>3 DEF Rests
<1> QED BY <1>22, <1>23, <1>24

-----------------------------------------------------------------------------
(* One step preserves Cross, action by action *)

\* Nothing the two ends know of each other changes, but perhaps that a thread
\* was told of the end of the stream.
LEMMA CrossRests ==
    ASSUME Local, Cross, Rests, \A d \in Ends : vpc'[d] # "bad",
           UNCHANGED <<state, flags, sendseq, sendwin, recvseq, sin, sout, rin,
                       rout, wleft>>
    PROVE  Cross'
<1>1. /\ NoProtocolError /\ Handshake /\ Tokens /\ AcceptFirst /\ Closing
      /\ InOrder /\ Credit
  BY DEF Cross
<1>2. \A j \in Sides : /\ Opened(j)' <=> Opened(j)
                       /\ Shut(j)' <=> Shut(j)
                       /\ Got(j)' <=> Got(j)
  BY DEF Opened, Shut, Got
<1>3. NoProtocolError'
  BY DEF NoProtocolError
<1>4. Handshake'
  BY <1>1, HandshakeKept
<1>5. Tokens'
  <2>1. \A j \in Sides : j[1] \in Ends
    BY SideEnds
  <2>2. \A j \in Sides, K \in Kinds : (Token(j, K)' <=> Token(j, K)) /\ (Once(j, K)' <=> Once(j, K))
    BY <2>1 DEF Token, Once, Rests
  <2> QED BY <1>1, <2>2, TokensKept
<1>6. AcceptFirst'
  BY <1>1, <1>2, AcceptFirstKept
<1>7. Closing'
  BY <1>1, <1>2, ClosingKept
<1>8. InOrder'
  BY <1>1, InOrderKept
<1>9. Credit'
  BY <1>1, <1>2, CreditKept
<1> QED BY <1>3, <1>4, <1>5, <1>6, <1>7, <1>8, <1>9 DEF Cross

\* No receiver has met a protocol error, and none does without moving.
LEMMA NoErrorKept ==
    ASSUME Cross, UNCHANGED vpc
    PROVE  NoProtocolError' /\ \A d \in Ends : vpc'[d] # "bad"
BY DEF Cross, NoProtocolError

\* chan_connect() and chan_accept(), when they wake up.
LEMMA CrossAwaitOpen ==
    ASSUME Local, Cross, NEW k \in Sides, AwaitOpen(k)
    PROVE  Cross'
<1>1. TypeOK
  BY DEF Local
<1>2. UNCHANGED <<state, flags, sendseq, sendwin, recvseq, sin, sout, rin,
                  rout, wleft, spc, sid, what, pkt, vpc, vpkt, net>>
  BY <1>1, AwaitOpenEffect
<1>3. Rests
  BY <1>2, OthersRest DEF Rests
<1> QED BY <1>2, <1>3, NoErrorKept, CrossRests

\* chan_wait().
LEMMA CrossChanWait ==
    ASSUME Local, Cross, NEW k \in Sides, ChanWait(k)
    PROVE  Cross'
<1>1. TypeOK
  BY DEF Local
<1>2. UNCHANGED <<state, flags, sendseq, sendwin, recvseq, sin, sout, rin,
                  rout, wleft, spc, sid, what, pkt, vpc, vpkt, net>>
  BY <1>1, ChanWaitEffect
<1>3. Rests
  BY <1>2, OthersRest DEF Rests
<1> QED BY <1>2, <1>3, NoErrorKept, CrossRests

\* sender_scan(), when it finds no work.
LEMMA CrossScanFindsNothing ==
    ASSUME Local, Cross, NEW e \in Ends, ScanFindsNothing(e)
    PROVE  Cross'
<1>1. TypeOK
  BY DEF Local
<1>2. /\ spc[e] = "scan"
      /\ \A d \in Ends : /\ d # e => sid'[d] = sid[d] /\ spc'[d] = spc[d]
                         /\ d = e => spc'[d] \in {"scan", "wait"}
      /\ UNCHANGED <<state, flags, sendseq, sendwin, recvseq, sin, sout, rin,
                     rout, wleft, what, pkt, vpc, vpkt, net>>
  BY <1>1, ScanFindsNothingEffect
<1>3. \A j \in Sides : j[1] \in Ends
  BY SideEnds
<1>4. \A j \in Sides : Picked(j)' = Picked(j) /\ (Busy(j)' <=> Busy(j))
  <2> SUFFICES ASSUME NEW j \in Sides
               PROVE  Picked(j)' = Picked(j) /\ (Busy(j)' <=> Busy(j))
    OBVIOUS
  <2>1. CASE j[1] = e
    BY <1>2, <2>1 DEF Picked, Busy
  <2>2. CASE j[1] # e
    BY <1>2, <1>3, <2>2 DEF Picked, Busy
  <2> QED BY <2>1, <2>2
<1>5. \A j \in Sides : Made(j)' = Made(j)
  BY <1>2, <1>4 DEF Made
<1>6. \A d \in Ends : Line(d)' = Line(d)
  BY <1>2, LineRests
<1>7. Rests
  BY <1>4, <1>5, <1>6 DEF Rests
<1> QED BY <1>2, <1>7, NoErrorKept, CrossRests

\* sender_loop(), the system call.
LEMMA CrossWritePacket ==
    ASSUME Local, Cross, NEW e \in Ends, WritePacket(e)
    PROVE  Cross'
<1>1. TypeOK
  BY DEF Local
<1>2. UNCHANGED <<state, flags, sendseq, sendwin, recvseq, sin, sout, rin,
                  rout, wleft, vpc>>
  BY <1>1, WritePacketEffect
<1>3. Rests
  BY <1>1, WritePacketView DEF Rests
<1> QED BY <1>2, <1>3, NoErrorKept, CrossRests

\* receiver_loop(), the header of MUX_DATA.
LEMMA CrossReceiveData ==
    ASSUME Local, Cross, NEW e \in Ends, ReceiveData(e)
    PROVE  Cross'
BY DataArrives, CrossRests

\* sender_wakeup(), a spurious wakeup, and the end.
LEMMA CrossOther ==
    ASSUME Local, Cross,
           \/ \E a \in Callers : WakeupStep(a)
           \/ SpuriousStep
           \/ Finished
    PROVE  Cross'
<1>1. TypeOK
  BY DEF Local
<1>2. /\ \A d \in Ends : spc'[d] = spc[d] \/ (spc[d] = "wait" /\ spc'[d] = "scan")
      /\ UNCHANGED <<state, flags, sendseq, sendwin, recvseq, sin, sout, rin,
                     rout, wleft, sid, what, pkt, vpc, vpkt, net>>
  BY <1>1, OtherEffect
<1>3. \A d \in Ends : spc'[d] = spc[d] \/ {spc[d], spc'[d]} \subseteq {"scan", "wait"}
  BY <1>2
<1>4. Rests
  BY <1>2, <1>3, OthersRest DEF Rests
<1> QED BY <1>2, <1>4, NoErrorKept, CrossRests

\* chan_connect() up to its wait, chan_listen().
LEMMA CrossOpen ==
    ASSUME Local, Cross, NEW k \in Sides, Open(k)
    PROVE  Cross'
<1>1. /\ TypeOK /\ MainKnows
      /\ NoProtocolError /\ Handshake /\ Tokens /\ AcceptFirst /\ Closing
      /\ InOrder /\ Credit
  BY DEF Local, Cross
<1>2. /\ MayOpen(k) /\ state[k] = "UNUSED"
      /\ \A j \in Sides :
           /\ state'[j] = IF j # k THEN state[j]
                          ELSE IF Opener(k[2]) = k[1] THEN "CONNECTING"
                          ELSE "LISTENING"
           /\ flags'[j] = IF j = k /\ Opener(k[2]) = k[1]
                          THEN flags[j] \cup {"CONNECT"} ELSE flags[j]
      /\ UNCHANGED <<sendseq, sendwin, recvseq, sin, sout, rin, rout,
                     wleft, eof, spc, sid, what, pkt, vpc, vpkt, net>>
  BY <1>1, OpenEffect
<1>3. Rests
  BY <1>2, OthersRest DEF Rests
<1>4. \A j \in Sides : /\ Opened(j)' <=> Opened(j)
                       /\ Shut(j)' <=> Shut(j)
                       /\ Got(j)' <=> Got(j)
                       /\ "ACCEPT" \in flags[j] => "ACCEPT" \in flags'[j]
                       /\ "DATA" \in flags'[j] => "DATA" \in flags[j]
  <2> SUFFICES ASSUME NEW j \in Sides
               PROVE  /\ Opened(j)' <=> Opened(j)
                      /\ Shut(j)' <=> Shut(j)
                      /\ Got(j)' <=> Got(j)
                      /\ "ACCEPT" \in flags[j] => "ACCEPT" \in flags'[j]
                      /\ "DATA" \in flags'[j] => "DATA" \in flags[j]
    OBVIOUS
  <2>1. state'[j] = state[j] \/ (state[j] = "UNUSED" /\ state'[j] \in {"CONNECTING", "LISTENING"})
    <3>1. CASE j = k
      BY <1>2, <3>1
    <3>2. CASE j # k
      BY <1>2, <3>2
    <3> QED BY <3>1, <3>2
  <2>2. flags'[j] \in {flags[j], flags[j] \cup {"CONNECT"}}
    BY <1>2
  <2>3. /\ Opened(j)' <=> Opened(j)
        /\ Shut(j)' <=> Shut(j)
        /\ Got(j)' <=> Got(j)
    BY <2>1 DEF Opened, Shut, Got
  <2> QED BY <2>2, <2>3
<1>5. \A j \in Sides : Remote(j) \in Sides /\ Remote(j) # j /\ Remote(Remote(j)) = j
  BY RemoteFacts
<1>6. Opener(k[2]) = k[1] => state[Remote(k)] = "LISTENING"
  <2> SUFFICES ASSUME Opener(k[2]) = k[1] PROVE state[Remote(k)] = "LISTENING"
    OBVIOUS
  <2>1. state[Remote(k)] # "UNUSED" /\ ~Opened(Remote(k))
    BY <1>1, <1>2 DEF MayOpen, Handshake
  <2>2. state[Remote(k)] # "CONNECTING"
    BY <1>1, <1>5, OpenerFacts DEF MainKnows
  <2>3. state[Remote(k)] \in States
    BY <1>1, <1>5, SideTypes
  <2> QED BY <2>1, <2>2, <2>3 DEF Opened, States
<1>7. Handshake'
  <2> SUFFICES ASSUME NEW j \in Sides, Opener(j[2]) = j[1]
               PROVE  /\ Opened(j)' => Opened(Remote(j))'
                      /\ state'[j] = "CONNECTING" => state'[Remote(j)] # "UNUSED"
                      /\ state'[j] = "UNUSED" => ~Opened(Remote(j))'
    BY DEF Handshake, Opened
  <2>1. Opened(j) => Opened(Remote(j))
    BY <1>1 DEF Handshake
  <2>2. state'[j] = "UNUSED" => state[j] = "UNUSED"
    BY <1>2
  <2>3. state[j] = "CONNECTING" => state[Remote(j)] # "UNUSED"
    BY <1>1 DEF Handshake
  <2>4. state'[j] = "CONNECTING" => state[j] = "CONNECTING" \/ j = k
    BY <1>2
  <2>5. state'[Remote(j)] = "UNUSED" => state[Remote(j)] = "UNUSED"
    BY <1>2, <1>5
  <2>6. state[j] = "UNUSED" => ~Opened(Remote(j))
    BY <1>1 DEF Handshake
  <2> QED BY <1>4, <1>5, <1>6, <2>1, <2>2, <2>3, <2>4, <2>5, <2>6
<1>8. \A j \in Sides, K \in Kinds :
           /\ Token(j, K)' => Token(j, K) \/ (j = k /\ K = "CONNECT" /\ Opener(k[2]) = k[1])
           /\ Once(j, K) /\ ~(j = k /\ K = "CONNECT") => Once(j, K)'
           /\ j = k /\ K = "CONNECT" => Once(j, K)'
  <2>1. CASE Opener(k[2]) = k[1]
    <3>1. \A j \in Sides : flags'[j] = IF j = k THEN flags[j] \cup {"CONNECT"} ELSE flags[j]
      BY <1>2, <2>1
    <3>2. ~Token(k, "CONNECT")
      BY <1>1, <1>2 DEF Tokens
    <3>3. Once(k, "CONNECT")'
      BY <1>3, <3>1, <3>2, TokenFlag DEF Rests
    <3> QED BY <1>3, <2>1, <3>1, <3>3, TokenFlag DEF Rests
  <2>2. CASE Opener(k[2]) # k[1]
    <3>1. \A j \in Sides : flags'[j] = flags[j]
      BY <1>2, <2>2
    <3>2. \A j \in Sides, K \in Kinds : (Token(j, K)' <=> Token(j, K)) /\ (Once(j, K)' <=> Once(j, K))
      BY <1>3, <3>1, SideEnds DEF Token, Once, Rests
    <3>3. Once(k, "CONNECT")
      BY <1>1 DEF Tokens
    <3> QED BY <3>2, <3>3
  <2> QED BY <2>1, <2>2
<1>9. Tokens'
  <2> SUFFICES ASSUME NEW j \in Sides
               PROVE  /\ Token(j, "CONNECT")' => state'[j] = "CONNECTING" /\ state'[Remote(j)] = "LISTENING"
                      /\ Token(j, "ACCEPT")' => Opened(j)' /\ state'[Remote(j)] = "CONNECTING"
                      /\ ~Token(j, "RESET")'
                      /\ Token(j, "WINDOW")' => Opened(j)'
                      /\ Token(j, "DATA")' => Opened(j)'
                      /\ Token(j, "CLOSE")' => Shut(j)' /\ ~Got(Remote(j))'
                      /\ \A K \in {"CONNECT", "ACCEPT", "CLOSE"} : Once(j, K)'
    BY DEF Tokens
  <2>1. \A K \in Kinds \ {"CONNECT"} : (Token(j, K)' => Token(j, K)) /\ (Once(j, K) => Once(j, K)')
    BY <1>8
  <2>2. \A i \in Sides : state'[i] = state[i] \/ state[i] = "UNUSED"
    BY <1>2
  <2>3. Token(j, "CONNECT")' => state'[j] = "CONNECTING" /\ state'[Remote(j)] = "LISTENING"
    <3>1. CASE Token(j, "CONNECT")
      <4>1. state[j] = "CONNECTING" /\ state[Remote(j)] = "LISTENING"
        BY <1>1, <3>1 DEF Tokens
      <4> QED BY <1>5, <2>2, <4>1
    <3>2. CASE j = k /\ Opener(k[2]) = k[1]
      BY <1>2, <1>5, <1>6, <3>2
    <3> QED BY <1>8, <3>1, <3>2 DEF Kinds
  <2>4. Token(j, "ACCEPT")' => Opened(j)' /\ state'[Remote(j)] = "CONNECTING"
    <3>1. Token(j, "ACCEPT")' => Opened(j) /\ state[Remote(j)] = "CONNECTING"
      BY <1>1, <2>1 DEF Tokens, Kinds
    <3> QED BY <1>4, <1>5, <2>2, <3>1
  <2>5. /\ ~Token(j, "RESET")'
        /\ Token(j, "WINDOW")' => Opened(j)'
        /\ Token(j, "DATA")' => Opened(j)'
        /\ Token(j, "CLOSE")' => Shut(j)' /\ ~Got(Remote(j))'
    BY <1>1, <1>4, <1>5, <2>1 DEF Tokens, Kinds
  <2>6. \A K \in {"CONNECT", "ACCEPT", "CLOSE"} : Once(j, K)'
    <3>1. Once(j, "CONNECT") /\ Once(j, "ACCEPT") /\ Once(j, "CLOSE")
      BY <1>1 DEF Tokens
    <3> QED BY <1>8, <3>1 DEF Kinds
  <2> QED BY <2>3, <2>4, <2>5, <2>6
<1>10. NoProtocolError'
  BY <1>2, NoErrorKept
<1>11. AcceptFirst'
  BY <1>1, <1>3, <1>4, AcceptFirstKept
<1>12. Closing'
  BY <1>1, <1>2, <1>4, ClosingKept
<1>13. InOrder'
  BY <1>1, <1>2, <1>3, InOrderKept
<1>14. Credit'
  BY <1>1, <1>2, <1>3, <1>4, CreditKept
<1> QED BY <1>7, <1>9, <1>10, <1>11, <1>12, <1>13, <1>14 DEF Cross

\* What Credit says of one side, after a step that changes nothing there.
LEMMA CreditSame ==
    ASSUME Credit, NEW j \in Sides,
           sendseq'[j] = sendseq[j], sendwin'[j] = sendwin[j], sout'[j] = sout[j],
           recvseq'[Remote(j)] = recvseq[Remote(j)], rout'[Remote(j)] = rout[Remote(j)],
           Made(j)' = Made(j), Picked(j)' = Picked(j),
           Line(Peer(j[1]))' = Line(Peer(j[1])),
           Opened(j)' <=> Opened(j),
           "DATA" \in flags'[j] => "DATA" \in flags[j]
    PROVE  /\ Minus(Plus(sendseq'[j], Made(j)' - sout'[j]), recvseq'[Remote(j)])
                = Made(j)' - rout'[Remote(j)]
           /\ Made(j)' - rout'[Remote(j)] <= Edge(j)' /\ Edge(j)' <= RBSize
           /\ Offers(Line(Peer(j[1]))', j[2], recvseq'[Remote(j)], Edge(j)')
           /\ "DATA" \in flags'[j] \/ Picked(j)' = "DATA" => sendseq'[j] # sendwin'[j]
<1>1. Edge(j)' = Edge(j)
  BY DEF Edge, Minus
<1> QED BY <1>1 DEF Credit

\* Credit holds after a step when each side says so.
LEMMA CreditNext ==
    ASSUME \A j \in Sides :
             /\ Minus(Plus(sendseq'[j], Made(j)' - sout'[j]), recvseq'[Remote(j)])
                  = Made(j)' - rout'[Remote(j)]
             /\ Made(j)' - rout'[Remote(j)] <= Edge(j)' /\ Edge(j)' <= RBSize
             /\ Offers(Line(Peer(j[1]))', j[2], recvseq'[Remote(j)], Edge(j)')
             /\ "DATA" \in flags'[j] \/ Picked(j)' = "DATA" => sendseq'[j] # sendwin'[j]
    PROVE  Credit'
BY DEF Credit, Offers, Offer, Minus, Plus

\* The sequence numbers and distances of a side are numbers.
LEMMA EdgeType ==
    ASSUME Local, Credit, NEW j \in Sides
    PROVE  /\ sendseq[j] \in SeqNums /\ sendwin[j] \in SeqNums
           /\ recvseq[Remote(j)] \in SeqNums /\ recvseq[j] \in SeqNums
           /\ Edge(j) \in Nat /\ Edge(j) <= RBSize
           /\ Plus(sendseq[j], Made(j) - sout[j]) \in SeqNums
           /\ Opened(j) => Edge(j) = Minus(sendwin[j], recvseq[Remote(j)])
           /\ \A k \in SeqNums : k \in Nat /\ k < SeqMod
           /\ rout[Remote(j)] \in Nat /\ rout[Remote(j)] <= Made(j)
<1>1. TypeOK
  BY DEF Local
<1>2. Remote(j) \in Sides
  BY RemoteFacts
<1>3. sendseq[j] \in SeqNums /\ sendwin[j] \in SeqNums
      /\ recvseq[Remote(j)] \in SeqNums /\ recvseq[j] \in SeqNums
      /\ rout[Remote(j)] \in Nat
  BY <1>1, <1>2, SideTypes
<1>4. \A k \in SeqNums : k \in Nat /\ k < SeqMod
  BY MuxAssumption DEF SeqNums
<1>5. Minus(sendwin[j], recvseq[Remote(j)]) \in SeqNums
  BY <1>3, SeqNumType
<1>6. Edge(j) \in Nat
  BY <1>4, <1>5 DEF Edge
<1>7. Made(j) - sout[j] \in SeqNums
  BY MadeType, MuxAssumption DEF SeqNums
<1>8. Plus(sendseq[j], Made(j) - sout[j]) \in SeqNums
  BY <1>3, <1>7, SeqNumType
<1>9. Minus(Plus(sendseq[j], Made(j) - sout[j]), recvseq[Remote(j)]) \in Nat
  BY <1>3, <1>4, <1>8, SeqNumType
<1>10. Edge(j) <= RBSize /\ Made(j) - rout[Remote(j)] \in Nat
  BY <1>9 DEF Credit
<1>11. rout[Remote(j)] <= Made(j)
  BY <1>3, <1>10, MadeType
<1> QED BY <1>3, <1>4, <1>6, <1>8, <1>10, <1>11 DEF Edge

\* chan_write().
LEMMA CrossChanWrite ==
    ASSUME Local, Cross, NEW k \in Sides, NEW n \in 1..SBSize, ChanWrite(k, n)
    PROVE  Cross'
<1>1. /\ TypeOK /\ SendHolds
      /\ NoProtocolError /\ Handshake /\ Tokens /\ AcceptFirst /\ Closing
      /\ InOrder /\ Credit
  BY DEF Local, Cross
<1>2. /\ state[k] \in {"ESTABLISHED", "RDCLOSED"}
      /\ IF wleft[k] = 0 THEN MayWrite(k, n) ELSE n = wleft[k]
      /\ UNCHANGED <<state, flags, sendseq, sendwin, recvseq, sout, rin,
                     rout, eof, spc, sid, what, pkt, vpc, vpkt, net>>
  BY <1>1, ChanWriteEffect
<1>3. PICK put \in Int :
        /\ put = Min2(n, SendAvail(k))
        /\ \A j \in Sides :
             /\ sin'[j] = IF j = k THEN sin[j] + put ELSE sin[j]
             /\ wleft'[j] = IF j = k THEN n - put ELSE wleft[j]
  BY <1>1, ChanWriteEffect
<1>4. Rests
  BY <1>2, OthersRest DEF Rests
<1>5. \A j \in Sides : /\ Opened(j)' <=> Opened(j)
                       /\ Shut(j)' <=> Shut(j)
                       /\ Got(j)' <=> Got(j)
  BY <1>2 DEF Opened, Shut, Got
<1>6. ~Shut(k)
  BY <1>2 DEF Shut
<1>7. sin[k] \in Nat /\ Total[k] \in Nat /\ n \in Nat
  BY <1>1, SideTypes, MuxAssumption
<1>8. sin'[k] + wleft'[k] = sin[k] + n
  BY <1>3, <1>7
<1>9. Closing'
  <2> SUFFICES ASSUME NEW j \in Sides
               PROVE  /\ sin'[j] + wleft'[j] <= Total[j]
                      /\ j[1] = "server" /\ sin'[j] + wleft'[j] = Total[j]
                           => rout'[j] = Total[Remote(j)]
                      /\ Shut(j)' => /\ sin'[j] = Total[j] /\ wleft'[j] = 0
                                     /\ IF j[1] = "client" THEN rout'[j] = Total[Remote(j)]
                                        ELSE Got(j)'
                      /\ Got(j)' => Shut(Remote(j))'
    BY DEF Closing
  <2>0. Remote(j) \in Sides
    BY RemoteFacts
  <2>1. CASE j = k
    <3>1. /\ sin[k] + n <= Total[k]
          /\ k[1] = "server" /\ sin[k] + n = Total[k] => rout[k] = Total[Remote(k)]
      <4>1. CASE wleft[k] = 0
        BY <1>2, <4>1 DEF MayWrite
      <4>2. CASE wleft[k] # 0
        BY <1>1, <1>2, <4>2 DEF Closing
      <4> QED BY <4>1, <4>2
    <3>2. Got(j)' => Shut(Remote(j))'
      BY <1>1, <1>5, <2>0 DEF Closing
    <3> QED BY <1>2, <1>5, <1>6, <1>8, <2>1, <3>1, <3>2
  <2>2. CASE j # k
    BY <1>1, <1>2, <1>3, <1>5, <2>0, <2>2 DEF Closing
  <2> QED BY <2>1, <2>2
<1>10. Tokens'
  <2>1. \A j \in Sides, K \in Kinds : (Token(j, K)' <=> Token(j, K)) /\ (Once(j, K)' <=> Once(j, K))
    BY <1>2, <1>4, SideEnds DEF Token, Once, Rests
  <2> QED BY <1>1, <1>2, <2>1, TokensKept
<1>11. NoProtocolError' /\ Handshake' /\ AcceptFirst' /\ InOrder' /\ Credit'
  BY <1>1, <1>2, <1>4, <1>5, NoErrorKept, HandshakeKept, AcceptFirstKept, InOrderKept, CreditKept
<1> QED BY <1>9, <1>10, <1>11 DEF Cross

\* chan_read(): what is taken out of the buffer moves both windows.
LEMMA CrossChanRead ==
    ASSUME Local, Cross, NEW k \in Sides, NEW size \in ReadSizes, ChanRead(k, size)
    PROVE  Cross'
<1>1. /\ TypeOK /\ RecvHolds /\ MainKnows
      /\ NoProtocolError /\ Handshake /\ Tokens /\ AcceptFirst /\ Closing
      /\ InOrder /\ Credit
  BY DEF Local, Cross
<1>2. /\ mpc[k] = "opened"
      /\ UNCHANGED <<state, sendseq, sendwin, sin, sout, rin, wleft,
                     spc, sid, what, pkt, vpc, vpkt, net>>
  BY <1>1, ChanReadEffect
<1>3. Rests
  BY <1>2, OthersRest DEF Rests
<1>4. NoProtocolError' /\ \A d \in Ends : vpc'[d] # "bad"
  BY <1>2, NoErrorKept
<1>5. CASE UNCHANGED <<flags, recvseq, rout>>
  BY <1>2, <1>3, <1>4, <1>5, CrossRests
<1>6. ASSUME RecvCount(k) # 0, NEW n \in Int, n = Min2(RecvCount(k), size),
             \A j \in Sides :
               /\ rout'[j] = IF j = k THEN rout[j] + n ELSE rout[j]
               /\ recvseq'[j] = IF j = k THEN Plus(recvseq[j], n) ELSE recvseq[j]
               /\ flags'[j] = IF j = k THEN flags[j] \cup {"WINDOW"} ELSE flags[j]
      PROVE  Cross'
  <2> DEFINE r == Remote(k)
  <2>1. /\ r \in Sides /\ Remote(r) = k /\ r # k
        /\ \A j \in Sides : Remote(j) = k <=> j = r
        /\ r[1] = Peer(k[1]) /\ r[2] = k[2] /\ k[1] \in Ends /\ Peer(r[1]) = k[1]
    BY RemoteFacts, SideEnds, PeerFacts
  <2> HIDE DEF r
  <2>2. Opened(k) /\ ~Shut(k)
    BY <1>1, <1>2 DEF MainKnows, Opened, Shut
  <2>3. \A j \in Sides : /\ Opened(j)' <=> Opened(j)
                         /\ Shut(j)' <=> Shut(j)
                         /\ Got(j)' <=> Got(j)
    BY <1>2 DEF Opened, Shut, Got
  <2>4. /\ n \in Nat /\ n >= 1 /\ n <= rin[k] - rout[k]
        /\ rin[k] \in Nat /\ rout[k] \in Nat
    <3>1. rin[k] \in Nat /\ rout[k] \in Nat /\ rout[k] <= rin[k]
          /\ size \in Nat /\ size > 0
      BY <1>1, SideTypes, MuxAssumption DEF RecvHolds
    <3> QED BY <1>6, <3>1 DEF Min2, RecvCount
  <2>5. /\ rin[k] <= Made(r) /\ Made(r) <= sin[r] /\ sin[r] + wleft[r] <= Total[r]
        /\ wleft[r] \in Nat /\ Total[r] \in Nat /\ Made(r) \in Nat /\ sin[r] \in Nat
    BY <2>1, Positions, MadeType
  <2>6. \A j \in Sides, K \in Kinds :
             /\ Token(j, K)' => Token(j, K) \/ (j = k /\ K = "WINDOW")
             /\ Once(j, K) /\ ~(j = k /\ K = "WINDOW") => Once(j, K)'
    BY <1>3, <1>6, TokenFlag DEF Rests
  <2>7. Tokens'
    BY <1>1, <1>2, <2>2, <2>6, TokensKept
  <2>8. Closing'
    <3> SUFFICES ASSUME NEW j \in Sides
                 PROVE  /\ sin[j] + wleft[j] <= Total[j]
                        /\ j[1] = "server" /\ sin[j] + wleft[j] = Total[j]
                             => rout'[j] = Total[Remote(j)]
                        /\ Shut(j) => /\ sin[j] = Total[j] /\ wleft[j] = 0
                                      /\ IF j[1] = "client" THEN rout'[j] = Total[Remote(j)]
                                         ELSE Got(j)
                        /\ Got(j) => Shut(Remote(j))
      BY <1>2, <2>3, RemoteFacts DEF Closing
    <3>1. CASE j = k
      <4>1. rout[k] # Total[r]
        BY <2>4, <2>5
      <4>2. ~(k[1] = "server" /\ sin[k] + wleft[k] = Total[k])
        BY <1>1, <4>1 DEF Closing, r
      <4> QED BY <1>1, <2>2, <3>1, <4>2 DEF Closing
    <3>2. CASE j # k
      BY <1>1, <1>6, <3>2 DEF Closing
    <3> QED BY <3>1, <3>2
  <2>9. \A j \in Sides : /\ "ACCEPT" \in flags[j] => "ACCEPT" \in flags'[j]
                         /\ "DATA" \in flags'[j] => "DATA" \in flags[j]
    <3> SUFFICES ASSUME NEW j \in Sides
                 PROVE  /\ "ACCEPT" \in flags[j] => "ACCEPT" \in flags'[j]
                        /\ "DATA" \in flags'[j] => "DATA" \in flags[j]
      OBVIOUS
    <3>1. flags'[j] \in {flags[j], flags[j] \cup {"WINDOW"}}
      BY <1>6
    <3> QED BY <3>1
  <2>10. /\ Minus(Plus(sendseq'[r], Made(r)' - sout'[r]), recvseq'[k])
                = Made(r)' - rout'[k]
         /\ Made(r)' - rout'[k] <= Edge(r)' /\ Edge(r)' <= RBSize
         /\ Offers(Line(k[1])', r[2], recvseq'[k], Edge(r)')
         /\ "DATA" \in flags'[r] \/ Picked(r)' = "DATA" => sendseq'[r] # sendwin'[r]
    <3> DEFINE a == Plus(sendseq[r], Made(r) - sout[r])
    <3>1. /\ Minus(a, recvseq[k]) = Made(r) - rout[k]
          /\ Made(r) - rout[k] <= Edge(r) /\ Edge(r) <= RBSize
          /\ Offers(Line(k[1]), r[2], recvseq[k], Edge(r))
          /\ "DATA" \in flags[r] \/ Picked(r) = "DATA" => sendseq[r] # sendwin[r]
      BY <1>1, <2>1 DEF Credit
    <3>2. /\ a \in SeqNums /\ recvseq[k] \in SeqNums /\ sendwin[r] \in SeqNums
          /\ Edge(r) \in Nat
          /\ Opened(r) => Edge(r) = Minus(sendwin[r], recvseq[k])
      BY <1>1, <2>1, EdgeType
    <3> HIDE DEF a
    <3>3. n <= Made(r) - rout[k] /\ n <= Edge(r)
      BY <2>4, <2>5, <3>1, <3>2
    <3>4. Minus(a, Plus(recvseq[k], n)) = (Made(r) - rout[k]) - n
      BY <2>4, <3>1, <3>2, <3>3, MinusPlusRight
    <3>5. Opened(r)
      BY <2>4, <3>2, <3>3 DEF Edge
    <3>6. Minus(sendwin[r], Plus(recvseq[k], n)) = Edge(r) - n
      BY <2>4, <3>2, <3>3, <3>5, MinusPlusRight
    <3>7. recvseq'[k] = Plus(recvseq[k], n) /\ rout'[k] = rout[k] + n
      BY <1>6
    <3>8. Edge(r)' = Minus(sendwin[r], Plus(recvseq[k], n))
      BY <1>2, <2>1, <2>3, <3>5, <3>7 DEF Edge, Minus
    <3>9. Line(k[1]) \in Seq(Packets) /\ r[2] \in Chans /\ n \in 0..Edge(r)
      BY <1>1, <2>1, <2>4, <3>2, <3>3, LineType, SideEnds
    <3>10. Offers(Line(k[1]), r[2], Plus(recvseq[k], n), Edge(r) - n)
      BY <3>1, <3>2, <3>9, OffersRead
    <3>11. Made(r)' = Made(r) /\ Line(k[1])' = Line(k[1]) /\ Picked(r)' = Picked(r)
           /\ sout'[r] = sout[r] /\ sendseq'[r] = sendseq[r] /\ sendwin'[r] = sendwin[r]
      BY <1>2, <1>3, <2>1 DEF Rests
    <3>12. Minus(Plus(sendseq'[r], Made(r)' - sout'[r]), recvseq'[k]) = Made(r)' - rout'[k]
      BY <2>4, <2>5, <3>4, <3>7, <3>11 DEF a
    <3>13. Made(r)' - rout'[k] <= Edge(r)' /\ Edge(r)' <= RBSize
      BY <2>4, <2>5, <3>1, <3>2, <3>6, <3>7, <3>8, <3>11, MuxAssumption
    <3>14. Offers(Line(k[1])', r[2], recvseq'[k], Edge(r)')
      BY <3>6, <3>7, <3>8, <3>10, <3>11
    <3> QED BY <2>1, <2>9, <3>1, <3>11, <3>12, <3>13, <3>14
  <2>11. ASSUME NEW j \in Sides, j # r
         PROVE  /\ Minus(Plus(sendseq'[j], Made(j)' - sout'[j]), recvseq'[Remote(j)])
                     = Made(j)' - rout'[Remote(j)]
                /\ Made(j)' - rout'[Remote(j)] <= Edge(j)' /\ Edge(j)' <= RBSize
                /\ Offers(Line(Peer(j[1]))', j[2], recvseq'[Remote(j)], Edge(j)')
                /\ "DATA" \in flags'[j] \/ Picked(j)' = "DATA" => sendseq'[j] # sendwin'[j]
    <3>1. /\ Remote(j) \in Sides /\ Remote(j) # k /\ Peer(j[1]) \in Ends
      BY <2>1, <2>11, RemoteFacts, SideEnds, PeerFacts
    <3>2. recvseq'[Remote(j)] = recvseq[Remote(j)] /\ rout'[Remote(j)] = rout[Remote(j)]
      BY <1>6, <3>1
    <3>3. Made(j)' = Made(j) /\ Picked(j)' = Picked(j)
          /\ Line(Peer(j[1]))' = Line(Peer(j[1]))
      BY <1>3, <3>1 DEF Rests
    <3> QED BY <1>1, <1>2, <2>3, <2>9, <3>2, <3>3, CreditSame
  <2>12. Credit'
    BY <2>1, <2>10, <2>11, CreditNext
  <2>13. Handshake' /\ AcceptFirst' /\ InOrder'
    BY <1>1, <1>2, <1>3, <2>3, <2>9, HandshakeKept, AcceptFirstKept, InOrderKept
  <2> QED BY <1>4, <2>7, <2>8, <2>12, <2>13 DEF Cross
<1> QED BY <1>1, <1>5, <1>6, ChanReadEffect

\* Tokens holds after a step that opens no channel.
LEMMA TokensNext ==
    ASSUME Tokens,
           \A j \in Sides :
             /\ state'[j] = state[j] \/ (Opened(j) /\ Opened(j)')
             /\ Shut(j) => Shut(j)'
             /\ Got(Remote(j))' => Got(Remote(j)) \/ ~Token(j, "CLOSE")'
             /\ \A K \in Kinds :
                  Token(j, K)' => \/ Token(j, K)
                                  \/ K \in {"WINDOW", "DATA"} /\ Opened(j)
                                  \/ K = "CLOSE" /\ Shut(j)' /\ ~Got(Remote(j))'
             /\ \A K \in {"CONNECT", "ACCEPT", "CLOSE"} : Once(j, K)'
    PROVE  Tokens'
<1>1. \A j \in Sides : Opened(j)' <=> Opened(j)
  BY DEF Opened
<1>2. \A j \in Sides : Remote(j) \in Sides
  BY RemoteFacts
<1> SUFFICES ASSUME NEW k \in Sides
             PROVE  /\ Token(k, "CONNECT")' => state'[k] = "CONNECTING" /\ state'[Remote(k)] = "LISTENING"
                    /\ Token(k, "ACCEPT")' => Opened(k)' /\ state'[Remote(k)] = "CONNECTING"
                    /\ ~Token(k, "RESET")'
                    /\ Token(k, "WINDOW")' => Opened(k)'
                    /\ Token(k, "DATA")' => Opened(k)'
                    /\ Token(k, "CLOSE")' => Shut(k)' /\ ~Got(Remote(k))'
                    /\ \A K \in {"CONNECT", "ACCEPT", "CLOSE"} : Once(k, K)'
  BY DEF Tokens
<1>3. /\ Token(k, "CONNECT")' => Token(k, "CONNECT")
      /\ Token(k, "ACCEPT")' => Token(k, "ACCEPT")
      /\ Token(k, "RESET")' => Token(k, "RESET")
      /\ Token(k, "WINDOW")' => Token(k, "WINDOW") \/ Opened(k)
      /\ Token(k, "DATA")' => Token(k, "DATA") \/ Opened(k)
      /\ Token(k, "CLOSE")' => Token(k, "CLOSE") \/ (Shut(k)' /\ ~Got(Remote(k))')
  BY DEF Kinds
<1>4. \A j \in Sides : state[j] \in {"CONNECTING", "LISTENING"} => state'[j] = state[j]
  BY DEF Opened
<1>5. Token(k, "CLOSE") => Shut(k) /\ ~Got(Remote(k))
  BY DEF Tokens
<1> QED BY <1>1, <1>2, <1>3, <1>4, <1>5 DEF Tokens

\* AcceptFirst holds after a step when each side says so.
LEMMA AcceptFirstNext ==
    ASSUME \A k \in Sides :
             Opener(k[2]) # k[1] /\ Opened(k)' /\ ~Opened(Remote(k))' =>
               \/ /\ \/ "ACCEPT" \in flags'[k] /\ Picked(k)' = "NONE"
                     \/ Picked(k)' = "ACCEPT"
                  /\ NoneFor(Line(k[1])', k[2])
               \/ FirstIs(Line(k[1])', "ACCEPT", k[2])
    PROVE  AcceptFirst'
BY DEF AcceptFirst, NoneFor, FirstIs, At

\* chan_close(): everything is written, and what had to be read has been.
LEMMA CrossChanClose ==
    ASSUME Local, Cross, NEW k \in Sides, ChanClose(k)
    PROVE  Cross'
<1>1. /\ TypeOK /\ MainKnows
      /\ NoProtocolError /\ Handshake /\ Tokens /\ AcceptFirst /\ Closing
      /\ InOrder /\ Credit
  BY DEF Local, Cross
<1>2. /\ MayClose(k) /\ state[k] \in {"ESTABLISHED", "RDCLOSED"}
      /\ \A j \in Sides :
           /\ state'[j] = IF j # k THEN state[j]
                          ELSE IF state[j] = "ESTABLISHED" THEN "WRCLOSED"
                          ELSE "CLOSED"
           /\ flags'[j] = IF j = k THEN flags[j] \cup {"CLOSE"} ELSE flags[j]
      /\ UNCHANGED <<sendseq, sendwin, recvseq, sin, sout, rin, rout,
                     wleft, eof, spc, sid, what, pkt, vpc, vpkt, net>>
  BY <1>1, ChanCloseEffect
<1>3. Rests
  BY <1>2, OthersRest DEF Rests
<1>4. /\ Opened(k) /\ ~Shut(k) /\ Opened(k)' /\ Shut(k)' /\ (Got(k)' <=> Got(k))
      /\ \A j \in Sides : j # k => state'[j] = state[j]
  BY <1>2 DEF Opened, Shut, Got
<1>5. \A j \in Sides : /\ Opened(j)' <=> Opened(j)
                       /\ Shut(j)' <=> Shut(j) \/ j = k
                       /\ Got(j)' <=> Got(j)
                       /\ state'[j] = state[j] \/ (Opened(j) /\ Opened(j)')
  <2> SUFFICES ASSUME NEW j \in Sides, j # k
               PROVE  /\ Opened(j)' <=> Opened(j)
                      /\ Shut(j)' <=> Shut(j)
                      /\ Got(j)' <=> Got(j)
                      /\ state'[j] = state[j] \/ (Opened(j) /\ Opened(j)')
    BY <1>4
  <2> QED BY <1>4 DEF Opened, Shut, Got
<1>6. \A j \in Sides : Remote(j) \in Sides /\ Remote(Remote(j)) = j
  BY RemoteFacts
<1>7. ~Got(Remote(k))
  BY <1>1, <1>4, <1>6 DEF Closing
<1>8. \A j \in Sides, K \in Kinds :
           /\ Token(j, K)' => Token(j, K) \/ (j = k /\ K = "CLOSE")
           /\ Once(j, K) /\ ~(j = k /\ K = "CLOSE") => Once(j, K)'
  BY <1>2, <1>3, TokenFlag DEF Rests
<1>9. Once(k, "CLOSE")'
  <2>1. ~Token(k, "CLOSE")
    BY <1>1, <1>4 DEF Tokens
  <2> QED BY <1>2, <1>3, <2>1, TokenFlag DEF Rests
<1>10. Tokens'
  <2>1. \A j \in Sides : \A K \in {"CONNECT", "ACCEPT", "CLOSE"} : Once(j, K)'
    <3>1. \A j \in Sides : \A K \in {"CONNECT", "ACCEPT", "CLOSE"} : Once(j, K)
      BY <1>1 DEF Tokens
    <3> QED BY <1>8, <1>9, <3>1 DEF Kinds
  <2>2. \A j \in Sides : Got(Remote(j))' => Got(Remote(j))
    BY <1>5, <1>6
  <2>3. \A j \in Sides, K \in Kinds :
          Token(j, K)' => Token(j, K) \/ (K = "CLOSE" /\ Shut(j)' /\ ~Got(Remote(j))')
    BY <1>4, <1>7, <1>8, <2>2
  <2> QED BY <1>1, <1>5, <2>1, <2>2, <2>3, TokensNext
<1>11. Closing'
  <2> SUFFICES ASSUME NEW j \in Sides
               PROVE  /\ sin[j] + wleft[j] <= Total[j]
                      /\ j[1] = "server" /\ sin[j] + wleft[j] = Total[j]
                           => rout[j] = Total[Remote(j)]
                      /\ Shut(j)' => /\ sin[j] = Total[j] /\ wleft[j] = 0
                                     /\ IF j[1] = "client" THEN rout[j] = Total[Remote(j)]
                                        ELSE Got(j)
                      /\ Got(j) => Shut(Remote(j))'
    BY <1>2, <1>5 DEF Closing
  <2>1. Got(j) => Shut(Remote(j))'
    BY <1>1, <1>5, <1>6 DEF Closing
  <2>2. CASE j = k
    <3>1. sin[k] = Total[k] /\ wleft[k] = 0
      BY <1>2 DEF MayClose, WriterDone
    <3>2. IF k[1] = "client" THEN rout[k] = Total[Remote(k)] ELSE Got(k)
      BY <1>1, <1>2 DEF MayClose, ReaderDone, MainKnows
    <3> QED BY <1>1, <2>1, <2>2, <3>1, <3>2 DEF Closing
  <2>3. CASE j # k
    BY <1>1, <1>5, <2>1, <2>3 DEF Closing
  <2> QED BY <2>2, <2>3
<1>12. \A j \in Sides : /\ "ACCEPT" \in flags[j] => "ACCEPT" \in flags'[j]
                        /\ "DATA" \in flags'[j] => "DATA" \in flags[j]
  <2> SUFFICES ASSUME NEW j \in Sides
               PROVE  /\ "ACCEPT" \in flags[j] => "ACCEPT" \in flags'[j]
                      /\ "DATA" \in flags'[j] => "DATA" \in flags[j]
    OBVIOUS
  <2>1. flags'[j] \in {flags[j], flags[j] \cup {"CLOSE"}}
    BY <1>2
  <2> QED BY <2>1
<1>13. NoProtocolError' /\ Handshake' /\ AcceptFirst' /\ InOrder' /\ Credit'
  BY <1>1, <1>2, <1>3, <1>5, <1>12, NoErrorKept, HandshakeKept, AcceptFirstKept, InOrderKept, CreditKept
<1> QED BY <1>10, <1>11, <1>13 DEF Cross

\* sender_scan(), when it finds work: the answer to a CONNECT goes first.
LEMMA CrossScanFinds ==
    ASSUME Local, Cross, NEW e \in Ends, ScanFinds(e)
    PROVE  Cross'
<1>1. /\ TypeOK /\ NothingYet /\ SendHolds
      /\ NoProtocolError /\ Handshake /\ Tokens /\ AcceptFirst /\ Closing
      /\ InOrder /\ Credit
  BY DEF Local, Cross
<1>2. UNCHANGED <<state, sendseq, sendwin, recvseq, sin, sout, rin, rout,
                  wleft, vpc>>
  BY <1>1, ScanFindsEffect
<1>3. PICK k \in Sides, kind \in Kinds :
             /\ kind = MostImportant(Work(k)) /\ kind \in Work(k)
             /\ Picked(k) = "NONE" /\ Picked(k)' = kind
             /\ flags'[k] = Work(k) \ {kind}
             /\ \A j \in Sides : j # k =>
                  flags'[j] = flags[j] /\ Picked(j)' = Picked(j)
  BY <1>1, ScanFindsView
<1>4. /\ \A j \in Sides : Made(j)' = Made(j)
      /\ \A d \in Ends : Line(d)' = Line(d)
  BY <1>1, ScanFindsView
<1>5. \A j \in Sides : /\ Opened(j)' <=> Opened(j)
                       /\ Shut(j)' <=> Shut(j)
                       /\ Got(j)' <=> Got(j)
  BY <1>2 DEF Opened, Shut, Got
<1>6. \A j \in Sides : Remote(j) \in Sides /\ j[1] \in Ends /\ Peer(j[1]) \in Ends
  BY RemoteFacts, SideEnds, PeerFacts
<1>7. \A j \in Sides, K \in Kinds :
           /\ Token(j, K)' => Token(j, K) \/ (K = "DATA" /\ sout[j] # sin[j])
           /\ Once(j, K) /\ K # "DATA" => Once(j, K)'
  BY <1>1, TokenScan
<1>8. \A j \in Sides : sout[j] # sin[j] => Opened(j)
  <2> SUFFICES ASSUME NEW j \in Sides, ~Opened(j) PROVE sout[j] = sin[j]
    OBVIOUS
  <2>1. sin[j] = 0 /\ sout[j] <= sin[j] /\ sout[j] \in Nat
    BY <1>1, SideTypes DEF NothingYet, SendHolds
  <2> QED BY <2>1
<1>9. Tokens'
  BY <1>1, <1>2, <1>7, <1>8, TokensKept
<1>10. AcceptFirst'
  <2> SUFFICES ASSUME NEW j \in Sides, Opener(j[2]) # j[1], Opened(j), ~Opened(Remote(j))
               PROVE  \/ /\ \/ "ACCEPT" \in flags'[j] /\ Picked(j)' = "NONE"
                            \/ Picked(j)' = "ACCEPT"
                         /\ NoneFor(Line(j[1]), j[2])
                      \/ FirstIs(Line(j[1]), "ACCEPT", j[2])
    BY <1>4, <1>5, <1>6, AcceptFirstNext
  <2>1. \/ /\ \/ "ACCEPT" \in flags[j] /\ Picked(j) = "NONE"
              \/ Picked(j) = "ACCEPT"
           /\ NoneFor(Line(j[1]), j[2])
        \/ FirstIs(Line(j[1]), "ACCEPT", j[2])
    BY <1>1 DEF AcceptFirst
  <2>2. CASE j # k
    BY <1>3, <2>1, <2>2
  <2>3. CASE j = k /\ "ACCEPT" \in flags[k]
    <3>1. state[k] # "UNUSED" /\ state[k] # "CONNECTING"
      BY <2>3 DEF Opened
    <3>2. ~Token(k, "CONNECT")
      BY <1>1, <3>1 DEF Tokens
    <3>3. "ACCEPT" \in Work(k) /\ "CONNECT" \notin Work(k) /\ Work(k) \in SUBSET Kinds
      <4>1. flags[k] \in SUBSET Kinds
        BY <1>1, SideTypes
      <4>2. "CONNECT" \notin flags[k]
        BY <3>2 DEF Token, Owed
      <4> QED BY <2>3, <3>1, <4>1, <4>2 DEF Work, Kinds
    <3>4. kind = "ACCEPT"
      BY <1>3, <3>3, MostImportantFacts
    <3> QED BY <1>3, <2>1, <2>3, <3>4
  <2>4. CASE j = k /\ "ACCEPT" \notin flags[k]
    BY <1>3, <2>1, <2>4
  <2> QED BY <2>2, <2>3, <2>4
<1>11. InOrder'
  <2> SUFFICES ASSUME NEW j \in Sides
               PROVE  Stream(Line(j[1])', j[2], rin'[Remote(j)], Made(j)')
    BY DEF InOrder, Stream, EndOf, StartOf, At
  <2> QED BY <1>1, <1>2, <1>4, <1>6 DEF InOrder
<1>12. Credit'
  <2> SUFFICES ASSUME NEW j \in Sides
               PROVE  /\ Minus(Plus(sendseq'[j], Made(j)' - sout'[j]), recvseq'[Remote(j)])
                           = Made(j)' - rout'[Remote(j)]
                      /\ Made(j)' - rout'[Remote(j)] <= Edge(j)' /\ Edge(j)' <= RBSize
                      /\ Offers(Line(Peer(j[1]))', j[2], recvseq'[Remote(j)], Edge(j)')
                      /\ "DATA" \in flags'[j] \/ Picked(j)' = "DATA" => sendseq'[j] # sendwin'[j]
    BY CreditNext
  <2>1. "DATA" \in flags'[j] \/ Picked(j)' = "DATA" => sendseq[j] # sendwin[j]
    <3>1. "DATA" \in flags[j] \/ Picked(j) = "DATA" => sendseq[j] # sendwin[j]
      BY <1>1 DEF Credit
    <3>2. CASE j # k
      BY <1>3, <3>1, <3>2
    <3>3. CASE j = k
      <4>1. "DATA" \in Work(k) => "DATA" \in flags[k] \/ sendseq[k] # sendwin[k]
        BY DEF Work
      <4> QED BY <1>3, <3>1, <3>3, <4>1
    <3> QED BY <3>2, <3>3
  <2>2. Edge(j)' = Edge(j)
    BY <1>2, <1>5 DEF Edge, Minus
  <2>3. Line(Peer(j[1]))' = Line(Peer(j[1])) /\ Made(j)' = Made(j)
    BY <1>4, <1>6
  <2> QED BY <1>1, <1>2, <2>1, <2>2, <2>3 DEF Credit
<1>13. Handshake' /\ NoProtocolError' /\ Closing'
  BY <1>1, <1>2, <1>5, HandshakeKept, NoErrorKept, ClosingKept
<1> QED BY <1>9, <1>10, <1>11, <1>12, <1>13 DEF Cross

\* sender_loop(), the header: what the packet holds is added to the line.
LEMMA CrossBuildPacket ==
    ASSUME Local, Cross, NEW e \in Ends, BuildPacket(e)
    PROVE  Cross'
<1>1. /\ TypeOK /\ ThreadsHold /\ SendHolds /\ DataPending
      /\ NoProtocolError /\ Handshake /\ Tokens /\ AcceptFirst /\ Closing
      /\ InOrder /\ Credit
  BY DEF Local, Cross
<1>2. UNCHANGED <<state, flags, sendseq, sendwin, recvseq, sin, sout, rin, rout,
                  wleft, vpc>>
  BY <1>1, BuildPacketEffect
<1>3. PICK k \in Sides, p \in Packets :
             /\ k[1] = e /\ p.type \in Kinds /\ p = Header(k, p.type)
             /\ Picked(k) = p.type /\ p.id = k[2]
             /\ Picked(k)' = "NONE"
             /\ Made(k) = sout[k]
             /\ Made(k)' = IF p.type = "DATA" THEN sout[k] + p.len ELSE sout[k]
             /\ Line(e)' = Append(Line(e), p)
             /\ \A d \in Ends : d # e => Line(d)' = Line(d)
             /\ \A j \in Sides : j # k =>
                  Picked(j)' = Picked(j) /\ Made(j)' = Made(j)
  BY <1>1, BuildPacketView
<1>4. \A j \in Sides : /\ Opened(j)' <=> Opened(j)
                       /\ Shut(j)' <=> Shut(j)
                       /\ Got(j)' <=> Got(j)
  BY <1>2 DEF Opened, Shut, Got
<1>5. Line(e) \in Seq(Packets)
  BY <1>1, LineType
<1>6. \A j \in Sides : /\ Remote(j) \in Sides /\ Remote(Remote(j)) = j
                       /\ j[1] \in Ends /\ j[2] \in Chans /\ Peer(j[1]) \in Ends
                       /\ Remote(j)[1] = Peer(j[1]) /\ Remote(j)[2] = j[2]
  BY RemoteFacts, SideEnds, PeerFacts
<1>7. \A j \in Sides : j # k /\ j[1] = e => p.id # j[2]
  BY <1>3, SideFacts
<1>8. Tokens'
  <2>1. \A j \in Sides, K \in Kinds :
             (Token(j, K)' => Token(j, K)) /\ (Once(j, K) => Once(j, K)')
    BY <1>1, TokenBuild
  <2> QED BY <1>1, <1>2, <2>1, TokensKept
<1>9. AcceptFirst'
  <2> SUFFICES ASSUME NEW j \in Sides, Opener(j[2]) # j[1], Opened(j), ~Opened(Remote(j))
               PROVE  \/ /\ \/ "ACCEPT" \in flags'[j] /\ Picked(j)' = "NONE"
                            \/ Picked(j)' = "ACCEPT"
                         /\ NoneFor(Line(j[1])', j[2])
                      \/ FirstIs(Line(j[1])', "ACCEPT", j[2])
    BY <1>4, <1>6, AcceptFirstNext
  <2>1. \/ /\ \/ "ACCEPT" \in flags[j] /\ Picked(j) = "NONE"
              \/ Picked(j) = "ACCEPT"
           /\ NoneFor(Line(j[1]), j[2])
        \/ FirstIs(Line(j[1]), "ACCEPT", j[2])
    BY <1>1 DEF AcceptFirst
  <2>2. CASE j[1] # e
    <3>1. Line(j[1])' = Line(j[1]) /\ Picked(j)' = Picked(j)
      BY <1>3, <1>6, <2>2
    <3> QED BY <1>2, <2>1, <3>1
  <2>3. CASE j[1] = e
    <3>1. Line(j[1])' = Append(Line(e), p) /\ Line(j[1]) = Line(e)
      BY <1>3, <2>3
    <3>2. CASE FirstIs(Line(e), "ACCEPT", j[2])
      BY <1>5, <3>1, <3>2, FirstAppend
    <3>3. CASE NoneFor(Line(e), j[2]) /\ j = k /\ Picked(k) = "ACCEPT"
      <4>1. p.id = j[2] /\ p.type = "ACCEPT"
        BY <1>3, <3>3
      <4> QED BY <1>5, <3>1, <3>3, <4>1, FirstAppend
    <3>4. CASE NoneFor(Line(e), j[2]) /\ j # k /\ ~FirstIs(Line(e), "ACCEPT", j[2])
      <4>1. NoneFor(Append(Line(e), p), j[2])
        BY <1>5, <1>7, <2>3, <3>4, FirstAppend
      <4>2. flags'[j] = flags[j] /\ Picked(j)' = Picked(j)
        BY <1>2, <1>3, <3>4
      <4> QED BY <2>1, <3>1, <3>4, <4>1, <4>2
    <3>5. Picked(k) # "NONE"
      BY <1>3 DEF Kinds
    <3> QED BY <2>1, <3>1, <3>2, <3>3, <3>4, <3>5
  <2> QED BY <2>2, <2>3
<1>10. Header(k, p.type) = p
  BY <1>3
<1>11. /\ p.type \in {"CONNECT", "ACCEPT", "WINDOW"} => p.win = Plus(recvseq[k], RBSize)
       /\ p.type = "DATA" =>
            /\ p.from = sout[k] /\ p.len \in Nat
            /\ p.len <= MSS /\ p.len <= Minus(sendwin[k], sendseq[k])
            /\ sout[k] < sin[k] /\ Minus(sendwin[k], sendseq[k]) # 0 => p.len > 0
  <2>1. LET q == Header(k, p.type) IN
           /\ p.type \in {"CONNECT", "ACCEPT", "WINDOW"} => q.win = Window(k)
           /\ p.type = "DATA" =>
                /\ q.from = sout[k]
                /\ q.len <= MSS /\ q.len <= Minus(sendwin[k], sendseq[k])
                /\ sout[k] < sin[k] /\ Minus(sendwin[k], sendseq[k]) # 0
                     => q.len > 0
    BY <1>1, <1>3, HeaderFacts
  <2>2. p.len \in Nat
    BY DEF Packets
  <2> QED BY <1>10, <2>1, <2>2 DEF Window
<1>12. /\ sendseq[k] \in SeqNums /\ sendwin[k] \in SeqNums
       /\ recvseq[Remote(k)] \in SeqNums /\ Edge(k) \in Nat /\ Edge(k) <= RBSize
       /\ Opened(k) => Edge(k) = Minus(sendwin[k], recvseq[Remote(k)])
       /\ rout[Remote(k)] \in Nat /\ rout[Remote(k)] <= Made(k)
       /\ sout[k] \in Nat /\ sin[k] \in Nat
  BY <1>1, EdgeType, MadeType
<1>13. p.type = "DATA" => p.len \in 1..MSS /\ Opened(k)
  <2> SUFFICES ASSUME p.type = "DATA" PROVE p.len \in 1..MSS /\ Opened(k)
    OBVIOUS
  <2>1. sout[k] < sin[k]
    BY <1>1, <1>3 DEF DataPending
  <2>2. sendseq[k] # sendwin[k]
    BY <1>1, <1>3 DEF Credit
  <2>3. Minus(sendwin[k], sendseq[k]) # 0
    BY <1>12, <2>2, MinusEqual
  <2>4. Opened(k)
    <3>1. Token(k, "DATA")
      BY <1>3 DEF Token, Owed
    <3> QED BY <1>1, <3>1 DEF Tokens
  <2> QED BY <1>11, <2>1, <2>3, <2>4, MuxAssumption
<1>14. InOrder'
  <2> SUFFICES ASSUME NEW j \in Sides
               PROVE  Stream(Line(j[1])', j[2], rin'[Remote(j)], Made(j)')
    BY DEF InOrder, Stream, EndOf, StartOf, At
  <2>1. Stream(Line(j[1]), j[2], rin[Remote(j)], Made(j))
    BY <1>1 DEF InOrder
  <2>2. rin[Remote(j)] \in Nat /\ Made(j) \in Nat
    BY <1>1, <1>6, SideTypes, MadeType
  <2>3. CASE j[1] # e
    BY <1>2, <1>3, <1>6, <2>1, <2>3
  <2>4. CASE j # k /\ j[1] = e
    <3>1. Stream(Append(Line(e), p), j[2], rin[Remote(j)], Made(j))
      BY <1>5, <1>6, <1>7, <2>1, <2>2, <2>4, StreamAppendOther
    <3> QED BY <1>2, <1>3, <2>4, <3>1
  <2>5. CASE j = k /\ p.type # "DATA"
    <3>1. Stream(Append(Line(e), p), k[2], rin[Remote(k)], Made(k))
      BY <1>3, <1>5, <1>6, <2>1, <2>2, <2>5, StreamAppendOther
    <3> QED BY <1>2, <1>3, <2>5, <3>1
  <2>6. CASE j = k /\ p.type = "DATA"
    <3>1. Stream(Append(Line(e), p), k[2], rin[Remote(k)], Made(k) + p.len)
      BY <1>3, <1>5, <1>6, <1>11, <1>13, <2>1, <2>2, <2>6, StreamAppendData
    <3> QED BY <1>2, <1>3, <2>6, <3>1
  <2> QED BY <1>3, <2>3, <2>4, <2>5, <2>6
<1>15. ASSUME NEW j \in Sides
       PROVE  /\ Minus(Plus(sendseq[j], Made(j)' - sout[j]), recvseq[Remote(j)])
                   = Made(j)' - rout[Remote(j)]
              /\ Made(j)' - rout[Remote(j)] <= Edge(j)
  <2>1. /\ Minus(Plus(sendseq[j], Made(j) - sout[j]), recvseq[Remote(j)])
             = Made(j) - rout[Remote(j)]
        /\ Made(j) - rout[Remote(j)] <= Edge(j)
    BY <1>1 DEF Credit
  <2>2. CASE j # k
    BY <1>3, <2>1, <2>2
  <2>3. CASE j = k /\ p.type # "DATA"
    BY <1>3, <2>1, <2>3
  <2>4. CASE j = k /\ p.type = "DATA"
    <3> DEFINE b == recvseq[Remote(k)]
               d == sout[k] - rout[Remote(k)]
    <3>1. b \in SeqNums /\ d \in Nat
      BY <1>3, <1>12
    <3>2. Minus(sendseq[k], b) = d /\ d <= Edge(k)
      <4>1. Made(k) - sout[k] = 0
        BY <1>3, <1>12
      <4>2. Plus(sendseq[k], 0) = sendseq[k]
        BY <1>12, WindowDistance
      <4> QED BY <1>3, <2>1, <2>4, <4>1, <4>2
    <3>3. Edge(k) = Minus(sendwin[k], b)
      BY <1>12, <1>13, <2>4
    <3> HIDE DEF b, d
    <3>4. Minus(sendwin[k], sendseq[k]) = Edge(k) - d
      BY <1>12, <3>1, <3>2, <3>3, MinusBetween
    <3>5. p.len \in Nat /\ d + p.len <= Edge(k)
      BY <1>11, <1>12, <2>4, <3>1, <3>4
    <3>6. d + p.len < SeqMod
      BY <1>12, <3>1, <3>5, MuxAssumption
    <3>7. Minus(Plus(sendseq[k], p.len), b) = d + p.len
      BY <1>12, <3>1, <3>2, <3>5, <3>6, MinusPlusLeft
    <3>8. Made(k)' - sout[k] = p.len /\ Made(k)' - rout[Remote(k)] = d + p.len
      BY <1>3, <1>12, <2>4, <3>5 DEF d
    <3> QED BY <2>4, <3>5, <3>7, <3>8 DEF b
  <2> QED BY <2>2, <2>3, <2>4
<1>16. ASSUME NEW j \in Sides
       PROVE  Offers(Line(Peer(j[1]))', j[2], recvseq[Remote(j)], Edge(j))
  <2>1. Offers(Line(Peer(j[1])), j[2], recvseq[Remote(j)], Edge(j))
    BY <1>1 DEF Credit
  <2>2. CASE Peer(j[1]) # e
    BY <1>3, <1>6, <2>1, <2>2
  <2>3. CASE Peer(j[1]) = e
    <3>1. recvseq[Remote(j)] \in SeqNums /\ Edge(j) \in 0..RBSize
      BY <1>1, EdgeType, MuxAssumption
    <3>2. p.type \in {"CONNECT", "ACCEPT", "WINDOW"} /\ p.id = j[2]
            => Minus(p.win, recvseq[Remote(j)]) = RBSize
      <4> SUFFICES ASSUME p.type \in {"CONNECT", "ACCEPT", "WINDOW"}, p.id = j[2]
                   PROVE  Minus(p.win, recvseq[Remote(j)]) = RBSize
        OBVIOUS
      <4>1. Remote(j) = k
        BY <1>6, <1>7, <2>3
      <4> QED BY <1>11, <3>1, <4>1, WindowDistance
    <3>3. Offers(Append(Line(e), p), j[2], recvseq[Remote(j)], Edge(j))
      BY <1>5, <1>6, <2>1, <2>3, <3>1, <3>2, OffersAppend
    <3> QED BY <1>3, <2>3, <3>3
  <2> QED BY <2>2, <2>3
<1>17. Credit'
  <2> SUFFICES ASSUME NEW j \in Sides
               PROVE  /\ Minus(Plus(sendseq'[j], Made(j)' - sout'[j]), recvseq'[Remote(j)])
                           = Made(j)' - rout'[Remote(j)]
                      /\ Made(j)' - rout'[Remote(j)] <= Edge(j)' /\ Edge(j)' <= RBSize
                      /\ Offers(Line(Peer(j[1]))', j[2], recvseq'[Remote(j)], Edge(j)')
                      /\ "DATA" \in flags'[j] \/ Picked(j)' = "DATA" => sendseq'[j] # sendwin'[j]
    BY CreditNext
  <2>1. Edge(j)' = Edge(j)
    BY <1>2, <1>4 DEF Edge, Minus
  <2>2. Picked(j)' = "DATA" => Picked(j) = "DATA"
    BY <1>3
  <2>3. Edge(j) <= RBSize
        /\ ("DATA" \in flags[j] \/ Picked(j) = "DATA" => sendseq[j] # sendwin[j])
    BY <1>1 DEF Credit
  <2> QED BY <1>2, <1>15, <1>16, <2>1, <2>2, <2>3
<1>18. Handshake' /\ NoProtocolError' /\ Closing'
  BY <1>1, <1>2, <1>4, HandshakeKept, NoErrorKept, ClosingKept
<1> QED BY <1>8, <1>9, <1>14, <1>17, <1>18 DEF Cross

\* sender_loop(), after a data packet.
LEMMA CrossPostData ==
    ASSUME Local, Cross, NEW e \in Ends, PostData(e)
    PROVE  Cross'
<1>1. /\ TypeOK /\ ThreadsHold /\ DataPending
      /\ NoProtocolError /\ Handshake /\ Tokens /\ AcceptFirst /\ Closing
      /\ InOrder /\ Credit
  BY DEF Local, Cross
<1>2. UNCHANGED <<state, flags, sendwin, recvseq, sin, rin, rout, wleft, vpc>>
  BY <1>1, PostDataEffect
<1>3. Rests
  BY <1>1, PostDataView DEF Rests
<1>4. \A j \in Sides :
        \/ sendseq'[j] = sendseq[j] /\ sout'[j] = sout[j]
        \/ /\ Busy(j) /\ Picked(j) = "NONE"
           /\ sendseq'[j] = Plus(sendseq[j], pkt[j[1]].len)
           /\ sout'[j] = sout[j] + pkt[j[1]].len
           /\ Made(j) = sout'[j]
  BY <1>1, PostDataView
<1>5. \A j \in Sides : /\ Opened(j)' <=> Opened(j)
                       /\ Shut(j)' <=> Shut(j)
                       /\ Got(j)' <=> Got(j)
  BY <1>2 DEF Opened, Shut, Got
<1>6. Tokens'
  <2>1. \A j \in Sides, K \in Kinds : (Token(j, K)' <=> Token(j, K)) /\ (Once(j, K)' <=> Once(j, K))
    BY <1>2, <1>3, SideEnds DEF Token, Once, Rests
  <2> QED BY <1>1, <1>2, <2>1, TokensKept
<1>7. Credit'
  <2> SUFFICES ASSUME NEW j \in Sides
               PROVE  /\ Minus(Plus(sendseq'[j], Made(j)' - sout'[j]), recvseq'[Remote(j)])
                           = Made(j)' - rout'[Remote(j)]
                      /\ Made(j)' - rout'[Remote(j)] <= Edge(j)' /\ Edge(j)' <= RBSize
                      /\ Offers(Line(Peer(j[1]))', j[2], recvseq'[Remote(j)], Edge(j)')
                      /\ "DATA" \in flags'[j] \/ Picked(j)' = "DATA" => sendseq'[j] # sendwin'[j]
    BY CreditNext
  <2>1. Made(j)' = Made(j) /\ Picked(j)' = Picked(j)
        /\ Line(Peer(j[1]))' = Line(Peer(j[1]))
    BY <1>3, SideEnds, PeerFacts DEF Rests
  <2>2. CASE sendseq'[j] = sendseq[j] /\ sout'[j] = sout[j]
    BY <1>1, <1>2, <1>5, <2>1, <2>2, CreditSame
  <2>3. CASE /\ Busy(j) /\ Picked(j) = "NONE"
             /\ sendseq'[j] = Plus(sendseq[j], pkt[j[1]].len)
             /\ sout'[j] = sout[j] + pkt[j[1]].len
             /\ Made(j) = sout'[j]
    <3>1. Edge(j)' = Edge(j)
      BY <1>2, <1>5 DEF Edge, Minus
    <3>2. "DATA" \notin flags'[j] /\ Picked(j)' # "DATA"
      BY <1>1, <1>2, <2>1, <2>3 DEF DataPending
    <3>3. /\ Minus(Plus(sendseq[j], Made(j) - sout[j]), recvseq[Remote(j)])
               = Made(j) - rout[Remote(j)]
          /\ Made(j) - rout[Remote(j)] <= Edge(j) /\ Edge(j) <= RBSize
          /\ Offers(Line(Peer(j[1])), j[2], recvseq[Remote(j)], Edge(j))
      BY <1>1 DEF Credit
    <3>4. Made(j) \in Nat /\ sout[j] \in Nat /\ pkt[j[1]].len \in Nat
      BY <1>1, MadeType, EndTypes, SideEnds
    <3>5. Made(j) - sout[j] = pkt[j[1]].len /\ Made(j)' - sout'[j] = 0
      BY <2>1, <2>3, <3>4
    <3>6. sendseq'[j] = Plus(sendseq[j], Made(j) - sout[j])
      BY <2>3, <3>5
    <3>7. Plus(sendseq'[j], 0) = sendseq'[j]
      BY <1>1, <3>6, EdgeType, WindowDistance
    <3> QED BY <1>2, <2>1, <3>1, <3>2, <3>3, <3>5, <3>6, <3>7
  <2> QED BY <1>4, <2>2, <2>3
<1>8. /\ NoProtocolError' /\ Handshake' /\ AcceptFirst' /\ Closing' /\ InOrder'
  BY <1>1, <1>2, <1>3, <1>5, NoErrorKept, HandshakeKept, AcceptFirstKept, ClosingKept, InOrderKept
<1> QED BY <1>6, <1>7, <1>8 DEF Cross

\* The first packet of the line of end Peer(e) is dealt with: what it means for
\* the order of data packets ...
LEMMA InOrderTaken ==
    ASSUME Local, Cross, NEW e \in Ends, NEW k \in Sides, NEW p, k[1] = e, k[2] = p.id,
           Takes(e, p),
           \A j \in Sides : rin'[j] = IF j = k /\ p.type = "DATA" THEN rin[j] + p.len
                                      ELSE rin[j]
    PROVE  InOrder'
<1>1. TypeOK /\ InOrder
  BY DEF Local, Cross
<1>2. \A j \in Sides : /\ Remote(j) \in Sides /\ Remote(j)[1] = Peer(j[1])
                       /\ Remote(j)[2] = j[2]
                       /\ j[1] \in Ends /\ j[2] \in Chans
  BY RemoteFacts, SideEnds
<1> SUFFICES ASSUME NEW j \in Sides
             PROVE  Stream(Line(j[1])', j[2], rin'[Remote(j)], Made(j)')
  BY DEF InOrder, Stream, EndOf, StartOf, At
<1>3. Stream(Line(j[1]), j[2], rin[Remote(j)], Made(j)) /\ Made(j)' = Made(j)
  BY <1>1 DEF InOrder, Takes
<1>4. CASE j[1] = e
  <2>1. Remote(j)[1] # e
    BY <1>2, <1>4, PeerFacts
  <2>2. Line(j[1])' = Line(j[1]) /\ rin'[Remote(j)] = rin[Remote(j)]
    BY <1>2, <1>4, <2>1 DEF Takes
  <2> QED BY <1>3, <2>2
<1>5. CASE j[1] = Peer(e)
  <2>1. PICK q \in Seq(Packets) : q = Line(j[1])
    BY <1>1, <1>2, LineType
  <2>2. q # <<>> /\ q[1] = p /\ Line(j[1])' = Tail(q)
    BY <1>5, <2>1 DEF Takes
  <2>3. rin[Remote(j)] \in Nat /\ Made(j) \in Nat
    BY <1>1, <1>2, SideTypes, MadeType
  <2>4. Remote(j) = k <=> j[2] = p.id
    <3>1. Remote(j)[1] = e /\ Remote(j)[2] = j[2]
      BY <1>2, <1>5, PeerFacts
    <3> QED BY <1>2, <3>1, SideFacts
  <2>5. At(q, "DATA", j[2], 1) <=> Remote(j) = k /\ p.type = "DATA"
    <3>1. 1 \in 1..Len(q)
      BY <2>2, EmptySeq
    <3> QED BY <2>2, <2>4, <3>1 DEF At
  <2>6. PICK d : d = rin'[Remote(j)]
    OBVIOUS
  <2>7. d = IF At(q, "DATA", j[2], 1) THEN rin[Remote(j)] + q[1].len ELSE rin[Remote(j)]
    BY <1>2, <2>2, <2>5, <2>6
  <2>8. Stream(Tail(q), j[2], d, Made(j))
    BY <1>2, <1>3, <2>1, <2>2, <2>3, <2>7, StreamTail
  <2> QED BY <1>3, <2>2, <2>6, <2>8
<1>6. j[1] = e \/ j[1] = Peer(e)
  BY <1>2 DEF Ends, Peer
<1> QED BY <1>4, <1>5, <1>6

\* ... and for the windows.
LEMMA CreditTaken ==
    ASSUME Local, Cross, NEW e \in Ends, NEW k \in Sides, NEW p \in Packets,
           k[1] = e, k[2] = p.id, Takes(e, p),
           UNCHANGED <<sendseq, recvseq, sout, rout>>,
           \A j \in Sides : j # k =>
             sendwin'[j] = sendwin[j] /\ (Opened(j)' <=> Opened(j)),
           \/ sendwin'[k] = sendwin[k] /\ (Opened(k)' <=> Opened(k))
           \/ /\ sendwin'[k] = p.win /\ Opened(k)'
              /\ p.type \in {"CONNECT", "ACCEPT", "WINDOW"},
           \A j \in Sides : "DATA" \in flags'[j] => "DATA" \in flags[j]
    PROVE  Credit'
<1>1. TypeOK /\ DataPending /\ Tokens /\ Credit
  BY DEF Local, Cross
<1>2. \A j \in Sides : /\ Remote(j) \in Sides /\ j[1] \in Ends /\ j[2] \in Chans
                       /\ Peer(j[1]) \in Ends
  BY RemoteFacts, SideEnds, PeerFacts
<1> SUFFICES ASSUME NEW j \in Sides
             PROVE  /\ Minus(Plus(sendseq'[j], Made(j)' - sout'[j]), recvseq'[Remote(j)])
                         = Made(j)' - rout'[Remote(j)]
                    /\ Made(j)' - rout'[Remote(j)] <= Edge(j)' /\ Edge(j)' <= RBSize
                    /\ Offers(Line(Peer(j[1]))', j[2], recvseq'[Remote(j)], Edge(j)')
                    /\ "DATA" \in flags'[j] \/ Picked(j)' = "DATA" => sendseq'[j] # sendwin'[j]
  BY CreditNext
<1>3. Made(j)' = Made(j) /\ Picked(j)' = Picked(j)
  BY DEF Takes
<1>4. /\ Minus(Plus(sendseq[j], Made(j) - sout[j]), recvseq[Remote(j)])
           = Made(j) - rout[Remote(j)]
      /\ Made(j) - rout[Remote(j)] <= Edge(j) /\ Edge(j) <= RBSize
      /\ Offers(Line(Peer(j[1])), j[2], recvseq[Remote(j)], Edge(j))
      /\ "DATA" \in flags[j] \/ Picked(j) = "DATA" => sendseq[j] # sendwin[j]
  BY <1>1 DEF Credit
<1>5. CASE j[1] = Peer(e)
  <2>1. j # k /\ Line(Peer(j[1]))' = Line(Peer(j[1]))
    BY <1>5, PeerFacts DEF Takes
  <2> QED BY <1>1, <1>3, <2>1, CreditSame
<1>6. ASSUME j[1] = e
      PROVE  \E q \in Seq(Packets) :
               /\ q = Line(Peer(j[1])) /\ q # <<>> /\ q[1] = p
               /\ Line(Peer(j[1]))' = Tail(q)
  BY <1>1, <1>2, <1>6, LineType DEF Takes
<1>7. CASE j[1] = e /\ sendwin'[j] = sendwin[j] /\ (Opened(j)' <=> Opened(j))
  <2>1. PICK q \in Seq(Packets) :
               /\ q = Line(Peer(j[1])) /\ q # <<>> /\ q[1] = p
               /\ Line(Peer(j[1]))' = Tail(q)
    BY <1>6, <1>7
  <2>2. Edge(j)' = Edge(j)
    BY <1>7 DEF Edge, Minus
  <2>3. Offers(Tail(q), j[2], recvseq[Remote(j)], Edge(j))
    BY <1>2, <1>4, <2>1, OffersTail
  <2> QED BY <1>3, <1>4, <1>7, <2>1, <2>2, <2>3
<1>8. CASE /\ j = k /\ sendwin'[k] = p.win /\ Opened(k)'
           /\ p.type \in {"CONNECT", "ACCEPT", "WINDOW"}
  <2>1. PICK q \in Seq(Packets) :
               /\ q = Line(Peer(k[1])) /\ q # <<>> /\ q[1] = p
               /\ Line(Peer(k[1]))' = Tail(q)
    BY <1>6, <1>8
  <2>2. PICK up : up = Minus(p.win, recvseq[Remote(k)])
    OBVIOUS
  <2>3. Edge(k)' = up
    BY <1>8, <2>2 DEF Edge, Minus
  <2>4. Offer(q, k[2], 1)
    <3>1. 1 \in 1..Len(q)
      BY <2>1, EmptySeq
    <3> QED BY <1>8, <2>1, <3>1 DEF Offer
  <2>5. /\ Offers(Tail(q), k[2], recvseq[Remote(k)], up)
        /\ Edge(k) <= up /\ up <= RBSize
    BY <1>2, <1>4, <1>8, <2>1, <2>2, <2>4, OffersTail
  <2>6. /\ sendseq[k] \in SeqNums /\ sendwin[k] \in SeqNums /\ p.win \in SeqNums
        /\ recvseq[Remote(k)] \in SeqNums /\ Edge(k) \in Nat /\ up \in Nat
        /\ Opened(k) => Edge(k) = Minus(sendwin[k], recvseq[Remote(k)])
        /\ Made(k) \in Nat /\ sout[k] \in Nat /\ rout[Remote(k)] \in Nat
    <3>1. p.win \in SeqNums
      BY DEF Packets, SeqNums
    <3>2. up \in SeqNums
      BY <1>1, <2>2, <3>1, EdgeType, SeqNumType
    <3> QED BY <1>1, <3>1, <3>2, EdgeType, MadeType
  <2>7. Made(k) - rout[Remote(k)] <= up
    BY <1>4, <1>8, <2>5, <2>6
  <2>8. ASSUME "DATA" \in flags[k] \/ Picked(k) = "DATA"
        PROVE  sendseq[k] # p.win
    <3>1. ~Busy(k)
      <4>1. Picked(k) = "DATA" => spc[k[1]] = "got"
        BY DEF Picked
      <4>2. Busy(k) => spc[k[1]] # "got"
        BY DEF Busy
      <4> QED BY <1>1, <2>8, <4>1, <4>2 DEF DataPending
    <3>2. Made(k) = sout[k] /\ Made(k) - sout[k] = 0
      BY <2>6, <3>1, MadeType
    <3>3. Plus(sendseq[k], 0) = sendseq[k]
      BY <2>6, WindowDistance
    <3>4. Minus(sendseq[k], recvseq[Remote(k)]) <= Edge(k)
      BY <1>4, <1>8, <3>2, <3>3
    <3>5. Opened(k)
      <4>1. Token(k, "DATA")
        BY <2>8 DEF Token, Owed
      <4> QED BY <1>1, <4>1 DEF Tokens
    <3>6. Minus(sendseq[k], recvseq[Remote(k)]) # Edge(k)
      BY <1>4, <1>8, <2>6, <2>8, <3>5, MinusEqual
    <3>7. Minus(sendseq[k], recvseq[Remote(k)]) \in Nat
      <4>1. Minus(sendseq[k], recvseq[Remote(k)]) \in SeqNums
        BY <2>6, SeqNumType
      <4> QED BY <1>1, <4>1, EdgeType
    <3>8. Minus(sendseq[k], recvseq[Remote(k)]) # up
      BY <2>5, <2>6, <3>4, <3>6, <3>7
    <3> QED BY <2>2, <3>8
  <2> QED BY <1>3, <1>4, <1>8, <2>1, <2>3, <2>5, <2>7, <2>8
<1>9. j[1] = e \/ j[1] = Peer(e)
  BY <1>2 DEF Ends, Peer
<1> QED BY <1>5, <1>7, <1>8, <1>9

\* ... and for the answer to a CONNECT, on one side.
LEMMA AnswerTaken ==
    ASSUME TypeOK, AcceptFirst, NEW e \in Ends, NEW p, Takes(e, p), NEW k \in Sides,
           Opener(k[2]) # k[1], Opened(k), ~Opened(Remote(k)),
           "ACCEPT" \in flags[k] => "ACCEPT" \in flags'[k],
           k[1] = Peer(e) => p.type # "ACCEPT" \/ p.id # k[2]
    PROVE  \/ /\ \/ "ACCEPT" \in flags'[k] /\ Picked(k)' = "NONE"
                 \/ Picked(k)' = "ACCEPT"
              /\ NoneFor(Line(k[1])', k[2])
           \/ FirstIs(Line(k[1])', "ACCEPT", k[2])
<1>1. k[1] \in Ends
  BY SideEnds
<1>2. Picked(k)' = Picked(k)
  BY DEF Takes
<1>3. \/ /\ \/ "ACCEPT" \in flags[k] /\ Picked(k) = "NONE"
            \/ Picked(k) = "ACCEPT"
         /\ NoneFor(Line(k[1]), k[2])
      \/ FirstIs(Line(k[1]), "ACCEPT", k[2])
  BY DEF AcceptFirst
<1>4. CASE k[1] = e
  BY <1>2, <1>3, <1>4 DEF Takes
<1>5. CASE k[1] = Peer(e)
  <2>1. PICK q \in Seq(Packets) : q = Line(k[1])
    BY <1>1, LineType
  <2>2. q # <<>> /\ q[1] = p /\ Line(k[1])' = Tail(q)
    BY <1>5, <2>1 DEF Takes
  <2>3. NoneFor(q, k[2]) => NoneFor(Tail(q), k[2])
    BY <2>2, FirstTail
  <2>4. FirstIs(q, "ACCEPT", k[2]) => FirstIs(Tail(q), "ACCEPT", k[2])
    BY <1>5, <2>2, FirstTail
  <2> QED BY <1>2, <1>3, <2>1, <2>2, <2>3, <2>4
<1>6. k[1] = e \/ k[1] = Peer(e)
  BY <1>1 DEF Ends, Peer
<1> QED BY <1>4, <1>5, <1>6

\* Tokens holds after a step that opens one side of a channel.
LEMMA TokensOpening ==
    ASSUME Tokens, NEW k \in Sides,
           \/ state[k] = "LISTENING" /\ state[Remote(k)] = "CONNECTING"
              /\ ~Token(Remote(k), "CONNECT")'
           \/ state[k] = "CONNECTING" /\ Opened(Remote(k))
              /\ ~Token(Remote(k), "ACCEPT")',
           \A j \in Sides : state'[j] = IF j = k THEN "ESTABLISHED" ELSE state[j],
           \A j \in Sides, K \in Kinds :
             Token(j, K)' => Token(j, K)
                             \/ (j = k /\ K = "ACCEPT" /\ state[k] = "LISTENING"),
           \A j \in Sides : \A K \in {"CONNECT", "ACCEPT", "CLOSE"} : Once(j, K)'
    PROVE  Tokens'
<1>1. \A j \in Sides : /\ Remote(j) \in Sides /\ Remote(Remote(j)) = j /\ Remote(j) # j
                       /\ Remote(j) = k <=> j = Remote(k)
  BY RemoteFacts
<1>2. \A j \in Sides : /\ Opened(j) => Opened(j)'
                       /\ Shut(j)' <=> Shut(j)
                       /\ Got(j)' <=> Got(j)
  BY DEF Opened, Shut, Got
<1> SUFFICES ASSUME NEW j \in Sides
             PROVE  /\ Token(j, "CONNECT")' => state'[j] = "CONNECTING" /\ state'[Remote(j)] = "LISTENING"
                    /\ Token(j, "ACCEPT")' => Opened(j)' /\ state'[Remote(j)] = "CONNECTING"
                    /\ ~Token(j, "RESET")'
                    /\ Token(j, "WINDOW")' => Opened(j)'
                    /\ Token(j, "DATA")' => Opened(j)'
                    /\ Token(j, "CLOSE")' => Shut(j)' /\ ~Got(Remote(j))'
                    /\ \A K \in {"CONNECT", "ACCEPT", "CLOSE"} : Once(j, K)'
  BY DEF Tokens
<1>3. Token(j, "CONNECT")' => state'[j] = "CONNECTING" /\ state'[Remote(j)] = "LISTENING"
  <2> SUFFICES ASSUME Token(j, "CONNECT")'
               PROVE  state'[j] = "CONNECTING" /\ state'[Remote(j)] = "LISTENING"
    OBVIOUS
  <2>1. Token(j, "CONNECT")
    BY DEF Kinds
  <2>2. state[j] = "CONNECTING" /\ state[Remote(j)] = "LISTENING"
    BY <2>1 DEF Tokens
  <2>3. j # k
    BY <2>2 DEF Opened
  <2>4. Remote(j) # k
    BY <1>1, <2>2
  <2> QED BY <1>1, <2>2, <2>3, <2>4
<1>4. Token(j, "ACCEPT")' => Opened(j)' /\ state'[Remote(j)] = "CONNECTING"
  <2> SUFFICES ASSUME Token(j, "ACCEPT")'
               PROVE  Opened(j)' /\ state'[Remote(j)] = "CONNECTING"
    OBVIOUS
  <2>1. CASE Token(j, "ACCEPT")
    <3>1. Opened(j) /\ state[Remote(j)] = "CONNECTING"
      BY <2>1 DEF Tokens
    <3>2. Remote(j) # k
      BY <1>1, <3>1
    <3> QED BY <1>1, <1>2, <3>1, <3>2
  <2>2. CASE j = k /\ state[k] = "LISTENING"
    <3>1. Opened(k)'
      BY DEF Opened
    <3> QED BY <1>1, <2>2, <3>1
  <2> QED BY <2>1, <2>2 DEF Kinds
<1>5. /\ ~Token(j, "RESET")'
      /\ Token(j, "WINDOW")' => Opened(j)'
      /\ Token(j, "DATA")' => Opened(j)'
      /\ Token(j, "CLOSE")' => Shut(j)' /\ ~Got(Remote(j))'
  <2>1. /\ Token(j, "RESET")' => Token(j, "RESET")
        /\ Token(j, "WINDOW")' => Token(j, "WINDOW")
        /\ Token(j, "DATA")' => Token(j, "DATA")
        /\ Token(j, "CLOSE")' => Token(j, "CLOSE")
    BY DEF Kinds
  <2> QED BY <1>1, <1>2, <2>1 DEF Tokens
<1> QED BY <1>3, <1>4, <1>5

\* A side that is not open owes nothing but its request.
LEMMA NothingOwed ==
    ASSUME TypeOK, Tokens, NEW k \in Sides, ~Opened(k), state[k] # "CONNECTING"
    PROVE  /\ \A K \in Kinds : ~Token(k, K)
           /\ Picked(k) = "NONE" /\ NoneFor(Line(k[1]), k[2])
           /\ flags[k] = {}
<1>1. ~Shut(k)
  BY DEF Shut, Opened
<1>2. \A K \in Kinds : ~Token(k, K)
  BY <1>1 DEF Tokens, Kinds
<1>3. /\ Line(k[1]) \in Seq(Packets) /\ what[k[1]] \in Kinds \cup {"NONE"}
      /\ flags[k] \in SUBSET Kinds
  BY LineType, EndTypes, SideTypes, SideEnds
<1>4. Picked(k) \in Kinds \cup {"NONE"}
  BY <1>3 DEF Picked
<1>5. Picked(k) = "NONE" /\ flags[k] = {}
  BY <1>2, <1>3, <1>4 DEF Token, Owed
<1>6. NoneFor(Line(k[1]), k[2])
  <2> SUFFICES ASSUME NEW i \in 1..Len(Line(k[1])), Line(k[1])[i].id = k[2]
               PROVE  FALSE
    BY DEF NoneFor
  <2>1. Line(k[1])[i] \in Packets
    BY <1>3, ElementOfSeq
  <2>2. PICK K \in Kinds : K = Line(k[1])[i].type
    BY <2>1 DEF Packets
  <2>3. Token(k, K)
    BY <2>2 DEF Token, Owed, At
  <2> QED BY <1>2, <2>3
<1> QED BY <1>2, <1>5, <1>6

\* receiver_loop(), MUX_CONNECT.
LEMMA CrossReceiveConnect ==
    ASSUME Local, Cross, NEW e \in Ends, ReceiveConnect(e)
    PROVE  Cross'
<1>1. /\ TypeOK /\ MainKnows
      /\ NoProtocolError /\ Handshake /\ Tokens /\ AcceptFirst /\ Closing
  BY DEF Local, Cross
<1>2. PICK k \in Sides, p \in Packets :
             /\ k = <<e, p.id>> /\ k[1] = e /\ k[2] = p.id /\ p.type = "CONNECT"
             /\ state[k] = "LISTENING" /\ state[Remote(k)] = "CONNECTING"
             /\ \A j \in Sides :
                  /\ state'[j] = IF j = k THEN "ESTABLISHED" ELSE state[j]
                  /\ sendwin'[j] = IF j = k THEN p.win ELSE sendwin[j]
                  /\ flags'[j] = IF j = k THEN flags[j] \cup {"ACCEPT"} ELSE flags[j]
             /\ Takes(e, p)
             /\ UNCHANGED <<sendseq, recvseq, sin, sout, rin, rout, wleft, eof, vpc>>
  BY SMTT(30), ConnectArrives
<1>3. /\ \A j \in Sides : j # k => (Opened(j)' <=> Opened(j))
      /\ \A j \in Sides : (Shut(j)' <=> Shut(j)) /\ (Got(j)' <=> Got(j))
      /\ Opened(k)' /\ ~Opened(k)
  BY <1>2 DEF Opened, Shut, Got
<1>4. \A j \in Sides : /\ Remote(j) \in Sides /\ Remote(j) # j
                       /\ Remote(j) = k <=> j = Remote(k)
  BY RemoteFacts
<1>5. Opener(k[2]) # k[1] /\ Opener(Remote(k)[2]) = Remote(k)[1]
  BY <1>1, <1>2, OpenerFacts DEF MainKnows
<1>6. /\ Once(Remote(k), "CONNECT") => ~Token(Remote(k), "CONNECT")'
      /\ \A j \in Sides, K \in Kinds :
           /\ Token(j, K)' => Token(j, K) \/ (j = k /\ K = "ACCEPT")
           /\ Once(j, K) /\ ~(j = k /\ K = "ACCEPT") => Once(j, K)'
      /\ ~Token(k, "ACCEPT") => Once(k, "ACCEPT")'
  <2>1. /\ flags'[k] = flags[k] \cup {"ACCEPT"}
        /\ \A j \in Sides : j # k => flags'[j] = flags[j]
    BY <1>2
  <2>2. /\ \A j \in Sides : Picked(j)' = Picked(j)
        /\ Line(Peer(e)) # <<>> /\ Line(Peer(e))[1] = p
        /\ Line(Peer(e))' = Tail(Line(Peer(e))) /\ Line(e)' = Line(e)
    BY <1>2 DEF Takes
  <2>3. k[1] = e /\ k[2] = p.id /\ p.type = "CONNECT"
    BY <1>2
  <2>4. /\ Once(Remote(k), p.type) => ~Token(Remote(k), p.type)'
        /\ \A j \in Sides, K \in Kinds :
             /\ Token(j, K)' => Token(j, K) \/ (j = k /\ K = "ACCEPT")
             /\ Once(j, K) /\ ~(j = k /\ K = "ACCEPT") => Once(j, K)'
        /\ ~Token(k, "ACCEPT") => Once(k, "ACCEPT")'
    BY <1>1, <2>1, <2>2, <2>3, TokenReceive
  <2> QED BY <2>3, <2>4
<1>7. /\ \A K \in Kinds : ~Token(k, K)
      /\ Picked(k) = "NONE" /\ NoneFor(Line(k[1]), k[2])
  BY <1>1, <1>2, <1>3, NothingOwed
<1>8. Tokens'
  <2>1. \A j \in Sides : Once(j, "CONNECT") /\ Once(j, "ACCEPT") /\ Once(j, "CLOSE")
    BY <1>1 DEF Tokens
  <2>2. ~Token(Remote(k), "CONNECT")'
    BY <1>4, <1>6, <2>1
  <2>3. Once(k, "ACCEPT")'
    BY <1>6, <1>7 DEF Kinds
  <2>4. \A j \in Sides : \A K \in {"CONNECT", "ACCEPT", "CLOSE"} : Once(j, K)'
    BY <1>6, <2>1, <2>3 DEF Kinds
  <2> QED BY <1>1, <1>2, <1>6, <2>2, <2>4, TokensOpening
<1>9. Handshake'
  <2> SUFFICES ASSUME NEW j \in Sides, Opener(j[2]) = j[1]
               PROVE  /\ Opened(j)' => Opened(Remote(j))'
                      /\ state'[j] = "CONNECTING" => state'[Remote(j)] # "UNUSED"
                      /\ state'[j] = "UNUSED" => ~Opened(Remote(j))'
    BY DEF Handshake, Opened
  <2>1. j # k /\ state'[j] = state[j]
    BY <1>2, <1>5
  <2>2. /\ Opened(j) => Opened(Remote(j))
        /\ state[j] = "CONNECTING" => state[Remote(j)] # "UNUSED"
        /\ state[j] = "UNUSED" => ~Opened(Remote(j))
    BY <1>1 DEF Handshake
  <2>3. CASE Remote(j) = k
    BY <1>2, <1>3, <1>4, <2>1, <2>2, <2>3
  <2>4. CASE Remote(j) # k
    BY <1>2, <1>3, <1>4, <2>1, <2>2, <2>4
  <2> QED BY <2>3, <2>4
<1>10. AcceptFirst'
  <2> SUFFICES ASSUME NEW j \in Sides, Opener(j[2]) # j[1], Opened(j)', ~Opened(Remote(j))'
               PROVE  \/ /\ \/ "ACCEPT" \in flags'[j] /\ Picked(j)' = "NONE"
                            \/ Picked(j)' = "ACCEPT"
                         /\ NoneFor(Line(j[1])', j[2])
                      \/ FirstIs(Line(j[1])', "ACCEPT", j[2])
    BY AcceptFirstNext
  <2>1. CASE j = k
    <3>1. Line(j[1])' = Line(k[1]) /\ Picked(j)' = Picked(k)
      BY <1>2, <2>1 DEF Takes
    <3>2. "ACCEPT" \in flags'[j]
      BY <1>2, <2>1
    <3> QED BY <1>7, <2>1, <3>1, <3>2
  <2>2. CASE j # k
    <3>1. Opened(j) /\ ~Opened(Remote(j))
      BY <1>3, <1>4, <2>2
    <3>2. flags'[j] = flags[j]
      BY <1>2, <2>2
    <3>3. p.type # "ACCEPT"
      BY <1>2
    <3> QED BY <1>1, <1>2, <3>1, <3>2, <3>3, AnswerTaken
  <2> QED BY <2>1, <2>2
<1>11. Closing'
  BY <1>1, <1>2, <1>3, ClosingKept
<1>12. InOrder'
  BY <1>2, InOrderTaken
<1>13. Credit'
  <2>1. \A j \in Sides : "DATA" \in flags'[j] => "DATA" \in flags[j]
    <3> SUFFICES ASSUME NEW j \in Sides PROVE "DATA" \in flags'[j] => "DATA" \in flags[j]
      OBVIOUS
    <3>1. flags'[j] \in {flags[j], flags[j] \cup {"ACCEPT"}}
      BY <1>2
    <3> QED BY <3>1
  <2>2. \A j \in Sides : j # k =>
             sendwin'[j] = sendwin[j] /\ (Opened(j)' <=> Opened(j))
    BY <1>2, <1>3
  <2>3. sendwin'[k] = p.win /\ Opened(k)' /\ p.type \in {"CONNECT", "ACCEPT", "WINDOW"}
    BY <1>2, <1>3
  <2> QED BY <1>2, <2>1, <2>2, <2>3, CreditTaken
<1>14. NoProtocolError'
  BY <1>2, NoErrorKept
<1> QED BY <1>8, <1>9, <1>10, <1>11, <1>12, <1>13, <1>14 DEF Cross

\* receiver_loop(), MUX_ACCEPT.
LEMMA CrossReceiveAccept ==
    ASSUME Local, Cross, NEW e \in Ends, ReceiveAccept(e)
    PROVE  Cross'
<1>1. /\ TypeOK /\ MainKnows
      /\ NoProtocolError /\ Handshake /\ Tokens /\ AcceptFirst /\ Closing
  BY DEF Local, Cross
<1>2. PICK k \in Sides, p \in Packets :
             /\ k = <<e, p.id>> /\ k[1] = e /\ k[2] = p.id /\ p.type = "ACCEPT"
             /\ state[k] = "CONNECTING" /\ Opened(Remote(k))
             /\ \A j \in Sides :
                  /\ state'[j] = IF j = k THEN "ESTABLISHED" ELSE state[j]
                  /\ sendwin'[j] = IF j = k THEN p.win ELSE sendwin[j]
                  /\ flags'[j] = flags[j]
             /\ Takes(e, p)
             /\ UNCHANGED <<sendseq, recvseq, sin, sout, rin, rout, wleft, eof, vpc>>
  BY AcceptArrives
<1>3. /\ \A j \in Sides : j # k => (Opened(j)' <=> Opened(j))
      /\ \A j \in Sides : (Shut(j)' <=> Shut(j)) /\ (Got(j)' <=> Got(j))
      /\ Opened(k)' /\ ~Opened(k)
  BY <1>2 DEF Opened, Shut, Got
<1>4. \A j \in Sides : /\ Remote(j) \in Sides /\ Remote(j) # j
                       /\ Remote(j) = k <=> j = Remote(k)
                       /\ Remote(j)[1] = Peer(j[1]) /\ Remote(j)[2] = j[2]
  BY RemoteFacts
<1>5. Opener(k[2]) = k[1]
  BY <1>1, <1>2 DEF MainKnows
<1>6. /\ Once(Remote(k), "ACCEPT") => ~Token(Remote(k), "ACCEPT")'
      /\ \A j \in Sides, K \in Kinds :
           /\ Token(j, K)' => Token(j, K) \/ (j = k /\ K = "NONE")
           /\ Once(j, K) /\ ~(j = k /\ K = "NONE") => Once(j, K)'
  <2>1. /\ flags'[k] = flags[k]
        /\ \A j \in Sides : j # k => flags'[j] = flags[j]
    BY <1>2
  <2>2. /\ \A j \in Sides : Picked(j)' = Picked(j)
        /\ Line(Peer(e)) # <<>> /\ Line(Peer(e))[1] = p
        /\ Line(Peer(e))' = Tail(Line(Peer(e))) /\ Line(e)' = Line(e)
    BY <1>2 DEF Takes
  <2>3. k[1] = e /\ k[2] = p.id /\ p.type = "ACCEPT"
    BY <1>2
  <2>4. /\ Once(Remote(k), p.type) => ~Token(Remote(k), p.type)'
        /\ \A j \in Sides, K \in Kinds :
             /\ Token(j, K)' => Token(j, K) \/ (j = k /\ K = "NONE")
             /\ Once(j, K) /\ ~(j = k /\ K = "NONE") => Once(j, K)'
        /\ ~Token(k, "NONE") => Once(k, "NONE")'
    BY <1>1, <2>1, <2>2, <2>3, TokenReceive
  <2> QED BY <2>3, <2>4
<1>7. "NONE" \notin Kinds
  BY DEF Kinds
<1>8. Tokens'
  <2>1. \A j \in Sides : Once(j, "CONNECT") /\ Once(j, "ACCEPT") /\ Once(j, "CLOSE")
    BY <1>1 DEF Tokens
  <2>2. ~Token(Remote(k), "ACCEPT")'
    BY <1>4, <1>6, <2>1
  <2>3. \A j \in Sides : \A K \in {"CONNECT", "ACCEPT", "CLOSE"} : Once(j, K)'
    BY <1>6, <1>7, <2>1 DEF Kinds
  <2>4. \A j \in Sides, K \in Kinds : Token(j, K)' => Token(j, K)
    BY <1>6, <1>7
  <2> QED BY <1>1, <1>2, <2>2, <2>3, <2>4, TokensOpening
<1>9. Handshake'
  <2> SUFFICES ASSUME NEW j \in Sides, Opener(j[2]) = j[1]
               PROVE  /\ Opened(j)' => Opened(Remote(j))'
                      /\ state'[j] = "CONNECTING" => state'[Remote(j)] # "UNUSED"
                      /\ state'[j] = "UNUSED" => ~Opened(Remote(j))'
    BY DEF Handshake, Opened
  <2>1. Remote(j) # k
    <3>1. Opener(Remote(j)[2]) # Remote(j)[1]
      BY OpenerFacts
    <3> QED BY <1>5, <3>1
  <2>2. /\ Opened(j) => Opened(Remote(j))
        /\ state[j] = "CONNECTING" => state[Remote(j)] # "UNUSED"
        /\ state[j] = "UNUSED" => ~Opened(Remote(j))
    BY <1>1 DEF Handshake
  <2>3. CASE j = k
    BY <1>2, <1>3, <1>4, <2>1, <2>3
  <2>4. CASE j # k
    BY <1>2, <1>3, <1>4, <2>1, <2>2, <2>4
  <2> QED BY <2>3, <2>4
<1>10. AcceptFirst'
  <2> SUFFICES ASSUME NEW j \in Sides, Opener(j[2]) # j[1], Opened(j)', ~Opened(Remote(j))'
               PROVE  \/ /\ \/ "ACCEPT" \in flags'[j] /\ Picked(j)' = "NONE"
                            \/ Picked(j)' = "ACCEPT"
                         /\ NoneFor(Line(j[1])', j[2])
                      \/ FirstIs(Line(j[1])', "ACCEPT", j[2])
    BY AcceptFirstNext
  <2>1. j # k /\ Remote(j) # k
    BY <1>3, <1>5
  <2>2. Opened(j) /\ ~Opened(Remote(j)) /\ flags'[j] = flags[j]
    BY <1>2, <1>3, <1>4, <2>1
  <2>3. j[1] = Peer(e) => p.id # j[2]
    <3> SUFFICES ASSUME j[1] = Peer(e), p.id = j[2] PROVE FALSE
      OBVIOUS
    <3>1. Remote(j)[1] = e /\ Remote(j)[2] = p.id
      BY <1>4, PeerFacts
    <3> QED BY <1>2, <1>4, <2>1, <3>1, SideFacts
  <2> QED BY <1>1, <1>2, <2>2, <2>3, AnswerTaken
<1>11. Closing'
  BY <1>1, <1>2, <1>3, ClosingKept
<1>12. InOrder'
  BY <1>2, InOrderTaken
<1>13. Credit'
  <2>1. \A j \in Sides : "DATA" \in flags'[j] => "DATA" \in flags[j]
    BY <1>2
  <2>2. \A j \in Sides : j # k =>
             sendwin'[j] = sendwin[j] /\ (Opened(j)' <=> Opened(j))
    BY <1>2, <1>3
  <2>3. sendwin'[k] = p.win /\ Opened(k)' /\ p.type \in {"CONNECT", "ACCEPT", "WINDOW"}
    BY <1>2, <1>3
  <2> QED BY <1>2, <2>1, <2>2, <2>3, CreditTaken
<1>14. NoProtocolError'
  BY <1>2, NoErrorKept
<1> QED BY <1>8, <1>9, <1>10, <1>11, <1>12, <1>13, <1>14 DEF Cross

\* A packet that opens nothing is dealt with, on a channel that is open.
LEMMA CrossTaken ==
    ASSUME Local, Cross, NEW e \in Ends, NEW k \in Sides, NEW p \in Packets,
           k[1] = e, k[2] = p.id, p.type \in {"WINDOW", "DATA", "CLOSE"},
           Opened(k), Takes(e, p), \A d \in Ends : vpc'[d] # "bad",
           UNCHANGED <<flags, sendseq, recvseq, sin, sout, rout, wleft>>,
           \A j \in Sides : j # k => state'[j] = state[j] /\ sendwin'[j] = sendwin[j],
           \/ state'[k] = state[k]
           \/ /\ p.type = "CLOSE" /\ Shut(Remote(k))
              /\ Opened(k)' /\ Got(k)' /\ (Shut(k)' <=> Shut(k)),
           sendwin'[k] = sendwin[k] \/ (p.type = "WINDOW" /\ sendwin'[k] = p.win),
           \A j \in Sides : rin'[j] = IF j = k /\ p.type = "DATA" THEN rin[j] + p.len
                                      ELSE rin[j]
    PROVE  Cross'
<1>1. /\ TypeOK
      /\ NoProtocolError /\ Handshake /\ Tokens /\ AcceptFirst /\ Closing
  BY DEF Local, Cross
<1>2. \A j \in Sides : /\ Remote(j) \in Sides
                       /\ Remote(j) = k <=> j = Remote(k)
  BY RemoteFacts
<1>3. Opened(k)' /\ (Shut(k)' <=> Shut(k)) /\ (Got(k) => Got(k)')
      /\ (Got(k)' => Got(k) \/ (p.type = "CLOSE" /\ Shut(Remote(k))))
  BY DEF Opened, Shut, Got
<1>4. \A j \in Sides : /\ Opened(j)' <=> Opened(j)
                       /\ Shut(j)' <=> Shut(j)
                       /\ Got(j) => Got(j)'
                       /\ Got(j)' => Got(j) \/ (j = k /\ p.type = "CLOSE" /\ Shut(Remote(k)))
                       /\ state'[j] = state[j] \/ (Opened(j) /\ Opened(j)')
  <2> SUFFICES ASSUME NEW j \in Sides, j # k
               PROVE  /\ Opened(j)' <=> Opened(j)
                      /\ Shut(j)' <=> Shut(j)
                      /\ Got(j)' <=> Got(j)
                      /\ state'[j] = state[j]
    BY <1>3
  <2> QED BY DEF Opened, Shut, Got
<1>5. /\ Once(Remote(k), p.type) => ~Token(Remote(k), p.type)'
      /\ \A j \in Sides, K \in Kinds :
           /\ Token(j, K)' => Token(j, K) \/ (j = k /\ K = "NONE")
           /\ Once(j, K) /\ ~(j = k /\ K = "NONE") => Once(j, K)'
  <2>1. /\ \A j \in Sides : Picked(j)' = Picked(j)
        /\ Line(Peer(e)) # <<>> /\ Line(Peer(e))[1] = p
        /\ Line(Peer(e))' = Tail(Line(Peer(e))) /\ Line(e)' = Line(e)
    BY DEF Takes
  <2>2. flags'[k] = flags[k] /\ \A j \in Sides : j # k => flags'[j] = flags[j]
    OBVIOUS
  <2>3. k[1] = e /\ k[2] = p.id
    OBVIOUS
  <2>4. /\ Once(Remote(k), p.type) => ~Token(Remote(k), p.type)'
        /\ \A j \in Sides, K \in Kinds :
             /\ Token(j, K)' => Token(j, K) \/ (j = k /\ K = "NONE")
             /\ Once(j, K) /\ ~(j = k /\ K = "NONE") => Once(j, K)'
        /\ ~Token(k, "NONE") => Once(k, "NONE")'
    BY <1>1, <2>1, <2>2, <2>3, TokenReceive
  <2> QED BY <2>4
<1>6. Tokens'
  <2>1. \A j \in Sides, K \in Kinds : (Token(j, K)' => Token(j, K)) /\ (Once(j, K) => Once(j, K)')
    BY <1>5 DEF Kinds
  <2>2. \A j \in Sides : \A K \in {"CONNECT", "ACCEPT", "CLOSE"} : Once(j, K) /\ Once(j, K)'
    <3>1. \A j \in Sides : Once(j, "CONNECT") /\ Once(j, "ACCEPT") /\ Once(j, "CLOSE")
      BY <1>1 DEF Tokens
    <3> QED BY <2>1, <3>1 DEF Kinds
  <2>3. ASSUME NEW j \in Sides
        PROVE  Got(Remote(j))' => Got(Remote(j)) \/ ~Token(j, "CLOSE")'
    <3>1. CASE Remote(j) = k /\ p.type = "CLOSE"
      <4>1. j = Remote(k)
        BY <1>2, <3>1
      <4>2. Once(Remote(k), "CLOSE")
        BY <2>2, <4>1
      <4>3. ~Token(Remote(k), "CLOSE")'
        BY <1>5, <3>1, <4>2
      <4> QED BY <4>1, <4>3
    <3>2. CASE ~(Remote(j) = k /\ p.type = "CLOSE")
      BY <1>2, <1>4, <3>2
    <3> QED BY <3>1, <3>2
  <2> QED BY <1>1, <1>4, <2>1, <2>2, <2>3, TokensNext
<1>7. AcceptFirst'
  <2> SUFFICES ASSUME NEW j \in Sides, Opener(j[2]) # j[1], Opened(j)', ~Opened(Remote(j))'
               PROVE  \/ /\ \/ "ACCEPT" \in flags'[j] /\ Picked(j)' = "NONE"
                            \/ Picked(j)' = "ACCEPT"
                         /\ NoneFor(Line(j[1])', j[2])
                      \/ FirstIs(Line(j[1])', "ACCEPT", j[2])
    BY AcceptFirstNext
  <2>1. Opened(j) /\ ~Opened(Remote(j)) /\ p.type # "ACCEPT"
    BY <1>2, <1>4
  <2> QED BY <1>1, <2>1, AnswerTaken
<1>8. Closing'
  <2>1. \A j \in Sides : /\ Shut(j)' <=> Shut(j)
                         /\ Got(j) => Got(j)'
                         /\ Got(j)' => Got(j) \/ Shut(Remote(j))
    BY <1>4
  <2>2. UNCHANGED <<sin, wleft, rout>>
    OBVIOUS
  <2> QED BY <1>1, <2>1, <2>2, ClosingKept
<1>9. InOrder'
  BY InOrderTaken
<1>10. Credit'
  <2>1. \A j \in Sides : j # k =>
             sendwin'[j] = sendwin[j] /\ (Opened(j)' <=> Opened(j))
    BY <1>4
  <2>2. \/ sendwin'[k] = sendwin[k] /\ (Opened(k)' <=> Opened(k))
        \/ /\ sendwin'[k] = p.win /\ Opened(k)'
           /\ p.type \in {"CONNECT", "ACCEPT", "WINDOW"}
    BY <1>3
  <2>3. \A j \in Sides : "DATA" \in flags'[j] => "DATA" \in flags[j]
    OBVIOUS
  <2>4. UNCHANGED <<sendseq, recvseq, sout, rout>>
    OBVIOUS
  <2> QED BY <2>1, <2>2, <2>3, <2>4, CreditTaken
<1>11. NoProtocolError' /\ Handshake'
  BY <1>1, <1>4, HandshakeKept DEF NoProtocolError
<1> QED BY <1>6, <1>7, <1>8, <1>9, <1>10, <1>11 DEF Cross

\* receiver_loop(), MUX_WINDOW.
LEMMA CrossReceiveWindow ==
    ASSUME Local, Cross, NEW e \in Ends, ReceiveWindow(e)
    PROVE  Cross'
<1>1. PICK k \in Sides, p \in Packets :
             /\ k = <<e, p.id>> /\ k[1] = e /\ k[2] = p.id /\ p.type = "WINDOW"
             /\ Opened(k)
             /\ sendwin'[k] = p.win \/ sendwin'[k] = sendwin[k]
             /\ \A j \in Sides : j # k => sendwin'[j] = sendwin[j]
             /\ Takes(e, p)
             /\ UNCHANGED <<state, flags, sendseq, recvseq, sin, sout, rin, rout,
                            wleft, eof, vpc>>
  BY WindowArrives
<1>2. \A d \in Ends : vpc'[d] # "bad"
  BY <1>1, NoErrorKept
<1> QED BY <1>1, <1>2, CrossTaken

\* receiver_loop(), MUX_CLOSE.
LEMMA CrossReceiveClose ==
    ASSUME Local, Cross, NEW e \in Ends, ReceiveClose(e)
    PROVE  Cross'
<1>1. PICK k \in Sides, p \in Packets :
             /\ k = <<e, p.id>> /\ k[1] = e /\ k[2] = p.id /\ p.type = "CLOSE"
             /\ Shut(Remote(k))
             /\ \/ state[k] = "ESTABLISHED" /\ state'[k] = "RDCLOSED"
                \/ state[k] = "WRCLOSED" /\ state'[k] = "CLOSED"
             /\ \A j \in Sides : j # k => state'[j] = state[j]
             /\ Takes(e, p)
             /\ UNCHANGED <<flags, sendseq, sendwin, recvseq, sin, sout, rin, rout,
                            wleft, eof, vpc>>
  BY CloseArrives
<1>2. \A d \in Ends : vpc'[d] # "bad"
  BY <1>1, NoErrorKept
<1>3. Opened(k) /\ Opened(k)' /\ Got(k)' /\ (Shut(k)' <=> Shut(k))
  BY <1>1 DEF Opened, Got, Shut
<1> QED BY <1>1, <1>2, <1>3, CrossTaken

\* receiver_loop(), the payload of MUX_DATA.
LEMMA CrossPayloadRead ==
    ASSUME Local, Cross, NEW e \in Ends, PayloadRead(e)
    PROVE  Cross'
<1>1. PICK k \in Sides, p \in Packets :
             /\ k = <<e, p.id>> /\ k[1] = e /\ k[2] = p.id /\ p.type = "DATA"
             /\ Opened(k)
             /\ \A j \in Sides : rin'[j] = IF j = k THEN rin[j] + p.len ELSE rin[j]
             /\ Takes(e, p)
             /\ \A d \in Ends : vpc'[d] # "bad"
             /\ UNCHANGED <<state, flags, sendseq, sendwin, recvseq, sin, sout,
                            rout, wleft, eof>>
  BY PayloadArrives
<1> QED BY <1>1, CrossTaken

-----------------------------------------------------------------------------
(* Local and Cross are invariants together *)

\* Nothing is on its way when both ends are past mux_init() ...
LEMMA CrossInit ==
    ASSUME Init
    PROVE  Cross
<1>1. /\ \A k \in Sides :
           /\ state[k] = "UNUSED" /\ flags[k] = {} /\ sendseq[k] = 0
           /\ sendwin[k] = 0 /\ recvseq[k] = 0 /\ sin[k] = 0 /\ sout[k] = 0
           /\ rin[k] = 0 /\ rout[k] = 0 /\ wleft[k] = 0
      /\ \A e \in Ends :
           spc[e] = "wait" /\ vpc[e] = "idle" /\ net[e] = <<>>
  BY DEF Init
<1>2. \A k \in Sides : /\ Remote(k) \in Sides /\ k[1] \in Ends /\ Peer(k[1]) \in Ends
                       /\ k[2] \in Chans
  BY RemoteFacts, SideEnds, PeerFacts
<1>3. \A e \in Ends : Line(e) = <<>>
  <2> SUFFICES ASSUME NEW e \in Ends PROVE Line(e) = <<>>
    OBVIOUS
  <2>1. vpc[Peer(e)] = "idle" /\ net[e] = <<>> /\ spc[e] = "wait"
    BY <1>1, PeerFacts
  <2>2. <<>> \o <<>> = <<>>
    OBVIOUS
  <2> QED BY <2>1, <2>2 DEF Line, Underway
<1>4. \A k \in Sides : /\ ~Opened(k) /\ ~Shut(k) /\ ~Got(k)
                       /\ Picked(k) = "NONE" /\ Made(k) = 0
  BY <1>1, <1>2 DEF Opened, Shut, Got, Picked, Made, Busy
<1>5. NoProtocolError
  BY <1>1 DEF NoProtocolError
<1>6. Handshake
  BY <1>1, <1>2, <1>4 DEF Handshake
<1>7. \A k \in Sides, K \in Kinds : ~Token(k, K) /\ Once(k, K)
  <2> SUFFICES ASSUME NEW k \in Sides, NEW K \in Kinds
               PROVE  ~Token(k, K) /\ Once(k, K)
    OBVIOUS
  <2>1. /\ Line(k[1]) = <<>> /\ flags[k] = {} /\ Picked(k) = "NONE" /\ K # "NONE"
    BY <1>1, <1>2, <1>3, <1>4 DEF Kinds
  <2>2. \A i : i \notin 1..Len(<<>>)
    OBVIOUS
  <2> QED BY <2>1, <2>2 DEF Token, Once, Owed, OwedOnce
<1>8. Tokens
  BY <1>7 DEF Tokens, Kinds
<1>9. AcceptFirst
  BY <1>4 DEF AcceptFirst
<1>10. Closing
  <2> SUFFICES ASSUME NEW k \in Sides
               PROVE  /\ 0 <= Total[k]
                      /\ k[1] = "server" => Total[k] # 0
    BY <1>1, <1>4 DEF Closing
  <2>1. Total[k] \in Nat /\ k = <<k[1], k[2]>> /\ k[2] \in Chans
    BY SideFacts, MuxAssumption
  <2> QED BY <2>1, MuxAssumption
<1>11. InOrder
  <2> SUFFICES ASSUME NEW k \in Sides
               PROVE  Stream(Line(k[1]), k[2], rin[Remote(k)], Made(k))
    BY DEF InOrder
  <2>1. /\ Line(k[1]) = <<>> /\ rin[Remote(k)] = 0 /\ Made(k) = 0
    BY <1>1, <1>2, <1>3, <1>4
  <2>2. Len(<<>>) = 0
    OBVIOUS
  <2>3. Stream(<<>>, k[2], 0, 0)
    BY <2>2 DEF Stream, EndOf, StartOf, At
  <2> QED BY <2>1, <2>3
<1>12. Credit
  <2> SUFFICES ASSUME NEW k \in Sides
               PROVE  /\ Minus(Plus(sendseq[k], Made(k) - sout[k]), recvseq[Remote(k)])
                           = Made(k) - rout[Remote(k)]
                      /\ Made(k) - rout[Remote(k)] <= Edge(k) /\ Edge(k) <= RBSize
                      /\ Offers(Line(Peer(k[1])), k[2], recvseq[Remote(k)], Edge(k))
                      /\ "DATA" \in flags[k] \/ Picked(k) = "DATA" => sendseq[k] # sendwin[k]
    BY DEF Credit
  <2>1. /\ Line(Peer(k[1])) = <<>> /\ Made(k) = 0 /\ Edge(k) = 0
        /\ sendseq[k] = 0 /\ sout[k] = 0 /\ recvseq[Remote(k)] = 0 /\ rout[Remote(k)] = 0
    BY <1>1, <1>2, <1>3, <1>4 DEF Edge
  <2>2. Minus(Plus(0, 0 - 0), 0) = 0 - 0 /\ 0 - 0 <= 0 /\ 0 <= RBSize
    BY MuxAssumption DEF Minus, Plus
  <2>3. \A i : i \notin 1..Len(<<>>)
    OBVIOUS
  <2>4. Offers(<<>>, k[2], 0, 0)
    BY <2>3 DEF Offers
  <2> QED BY <1>1, <1>4, <2>1, <2>2, <2>4
<1> QED BY <1>5, <1>6, <1>8, <1>9, <1>10, <1>11, <1>12 DEF Cross

\* ... and whatever a thread of either end does.
LEMMA CrossNext ==
    ASSUME Local, Cross, [Next]_vars
    PROVE  Cross'
<1>1. CASE UNCHANGED vars
  <2>1. UNCHANGED <<state, flags, sendseq, sendwin, recvseq, sin, sout, rin,
                    rout, wleft, spc, sid, what, pkt, vpc, vpkt, net>>
    BY <1>1 DEF vars, chanVars, bufVars, appVars, senderVars, receiverVars
  <2>2. Rests
    BY <2>1, OthersRest DEF Rests
  <2> QED BY <2>1, <2>2, NoErrorKept, CrossRests
<1>2. ASSUME NEW k \in Sides, AppStep(k)
      PROVE  Cross'
  BY <1>2, CrossOpen, CrossAwaitOpen, CrossChanWrite, CrossChanRead,
     CrossChanClose, CrossChanWait DEF AppStep
<1>3. ASSUME NEW e \in Ends, SenderStep(e)
      PROVE  Cross'
  BY <1>3, CrossScanFinds, CrossScanFindsNothing, CrossBuildPacket,
     CrossWritePacket, CrossPostData DEF SenderStep
<1>4. ASSUME NEW e \in Ends, ReceiverStep(e)
      PROVE  Cross'
  BY <1>4, CrossReceiveConnect, CrossReceiveAccept, CrossReceiveWindow,
     CrossReceiveData, CrossPayloadRead, CrossReceiveClose DEF ReceiverStep
<1>5. CASE (\E a \in Callers : WakeupStep(a)) \/ SpuriousStep \/ Finished
  BY <1>5, CrossOther
<1> QED BY <1>1, <1>2, <1>3, <1>4, <1>5 DEF Next

\* The two ends agree in every behaviour.
LEMMA CrossAlways == Spec => [](Local /\ Cross)
<1>1. Init => Local /\ Cross
  BY LocalInit, CrossInit
<1>2. Local /\ Cross /\ [Next]_vars => Local' /\ Cross'
  BY LocalNext, CrossNext
<1> QED BY <1>1, <1>2, PTL DEF Spec

-----------------------------------------------------------------------------
(* The properties of the runs *)

\* The packets written and not dealt with continue the stream from the receive
\* buffer to where the sender thread is.
LEMMA FlightStream ==
    ASSUME Local, Cross, NEW k \in Sides
    PROVE  /\ Stream(Flight(k), k[2], rin[Remote(k)], Written(k))
           /\ Flight(k) \in Seq(Packets)
           /\ Written(k) \in Nat
           /\ rin[Remote(k)] <= Written(k) /\ Written(k) <= Made(k)
           /\ \/ Written(k) = Made(k) /\ Lag(k) = Made(k) - sout[k]
              \/ Written(k) = sout[k] /\ Lag(k) = 0
<1>1. TypeOK /\ ThreadsHold /\ SendHolds /\ InOrder
  BY DEF Local, Cross
<1>2. Remote(k) \in Sides /\ k[1] \in Ends /\ k[2] \in Chans
  BY RemoteFacts, SideEnds
<1>3. /\ Underway(k[1]) \in Seq(Packets) /\ pkt[k[1]] \in Packets
      /\ pkt[k[1]].len \in Nat /\ rin[Remote(k)] \in Nat
  BY <1>1, <1>2, LineType, EndTypes, SideTypes
<1>4. /\ Made(k) \in Nat /\ sout[k] \in Nat /\ sout[k] <= Made(k)
      /\ ~Busy(k) => Made(k) = sout[k]
  BY MadeType
<1>5. Stream(Line(k[1]), k[2], rin[Remote(k)], Made(k))
  BY <1>1 DEF InOrder
<1>6. Flight(k) = Underway(k[1])
  BY DEF Flight, Underway
<1>7. /\ Stream(Underway(k[1]), k[2], rin[Remote(k)], Written(k))
      /\ \/ Written(k) = Made(k) /\ Lag(k) = Made(k) - sout[k]
         \/ Written(k) = sout[k] /\ Lag(k) = 0
  <2>1. CASE spc[k[1]] = "write"
    <3>1. Written(k) = sout[k] /\ Lag(k) = 0
      BY <1>4, <2>1 DEF Written, Lag
    <3>2. Stream(Append(Underway(k[1]), pkt[k[1]]), k[2], rin[Remote(k)], Made(k))
      BY <1>5, <2>1 DEF Line
    <3>3. sout[k] = IF pkt[k[1]].type = "DATA" /\ pkt[k[1]].id = k[2]
                    THEN pkt[k[1]].from ELSE Made(k)
      BY <1>1, <1>4, <2>1 DEF Busy, SendHolds
    <3>4. Stream(Underway(k[1]), k[2], rin[Remote(k)], sout[k])
      BY <1>2, <1>3, <1>4, <3>2, <3>3, StreamFront
    <3> QED BY <3>1, <3>4
  <2>2. CASE spc[k[1]] # "write"
    <3>1. Line(k[1]) = Underway(k[1])
      BY <2>2 DEF Line
    <3>2. CASE spc[k[1]] = "post" /\ pkt[k[1]].id = k[2]
      <4>1. Busy(k)
        BY <1>1, <1>2, <3>2 DEF ThreadsHold, Busy
      <4>2. Written(k) = Made(k) /\ Lag(k) = Made(k) - sout[k]
        BY <1>3, <1>4, <3>2, <4>1 DEF Written, Lag, Made
      <4> QED BY <1>5, <3>1, <4>2
    <3>3. CASE ~(spc[k[1]] = "post" /\ pkt[k[1]].id = k[2])
      <4>1. ~Busy(k)
        BY <2>2, <3>3 DEF Busy
      <4>2. Written(k) = Made(k) /\ Lag(k) = Made(k) - sout[k]
        BY <1>4, <3>3, <4>1 DEF Written, Lag
      <4> QED BY <1>5, <3>1, <4>2
    <3> QED BY <3>2, <3>3
  <2> QED BY <2>1, <2>2
<1>8. Written(k) \in Nat /\ Written(k) <= Made(k)
  BY <1>4, <1>7
<1>9. rin[Remote(k)] <= Written(k)
  BY <1>2, <1>3, <1>7, <1>8, StreamBounds
<1> QED BY <1>3, <1>6, <1>7, <1>8, <1>9

\* The credit scheme, from Credit.
LEMMA CreditIsFlowControl ==
    ASSUME Local, Cross
    PROVE  FlowControl
<1>1. TypeOK /\ Credit /\ NothingYet
  BY DEF Local, Cross
<1> SUFFICES ASSUME NEW k \in Sides
             PROVE  /\ Written(k) - rout[Remote(k)] \in 0..RBSize
                    /\ Minus(Plus(sendseq[k], Lag(k)), recvseq[Remote(k)])
                         = Written(k) - rout[Remote(k)]
                    /\ sendwin[k] # 0 \/ sendseq[k] # 0 =>
                         Minus(sendwin[k], recvseq[Remote(k)])
                           \in (Written(k) - rout[Remote(k)])..RBSize
  BY DEF FlowControl
<1>2. /\ Written(k) \in Nat /\ Written(k) <= Made(k)
      /\ rin[Remote(k)] <= Written(k)
      /\ \/ Written(k) = Made(k) /\ Lag(k) = Made(k) - sout[k]
         \/ Written(k) = sout[k] /\ Lag(k) = 0
  BY FlightStream
<1>3. /\ rout[Remote(k)] \in Nat /\ rin[Remote(k)] \in Nat
      /\ rout[Remote(k)] <= rin[Remote(k)]
  BY Positions
<1>4. /\ Made(k) \in Nat /\ sout[k] \in Nat /\ sout[k] <= Made(k)
      /\ Made(k) - sout[k] \in Nat
  BY MadeType
<1>5. /\ sendseq[k] \in SeqNums /\ sendwin[k] \in SeqNums
      /\ recvseq[Remote(k)] \in SeqNums
      /\ Edge(k) \in Nat
      /\ Opened(k) => Edge(k) = Minus(sendwin[k], recvseq[Remote(k)])
  BY <1>1, EdgeType
<1>6. /\ Minus(Plus(sendseq[k], Made(k) - sout[k]), recvseq[Remote(k)])
           = Made(k) - rout[Remote(k)]
      /\ Made(k) - rout[Remote(k)] <= Edge(k) /\ Edge(k) <= RBSize
  BY <1>1 DEF Credit
<1>7. /\ Written(k) - rout[Remote(k)] \in Nat
      /\ Written(k) - rout[Remote(k)] <= Edge(k)
      /\ Written(k) - rout[Remote(k)] <= RBSize
  BY <1>2, <1>3, <1>4, <1>5, <1>6, MuxAssumption
<1>8. Written(k) - rout[Remote(k)] \in 0..RBSize
  BY <1>7, MuxAssumption
<1>9. Minus(Plus(sendseq[k], Lag(k)), recvseq[Remote(k)]) = Written(k) - rout[Remote(k)]
  <2>1. CASE Written(k) = Made(k) /\ Lag(k) = Made(k) - sout[k]
    BY <1>6, <2>1
  <2>2. CASE Written(k) = sout[k] /\ Lag(k) = 0
    <3>1. Plus(sendseq[k], 0) = sendseq[k]
      BY <1>5, WindowDistance
    <3> DEFINE n == Made(k) - sout[k]
               x == sout[k] - rout[Remote(k)]
    <3>2. n \in Nat /\ x \in Nat /\ x + n < SeqMod /\ x + n = Made(k) - rout[Remote(k)]
      BY <1>3, <1>4, <1>5, <1>6, <1>7, <2>2, MuxAssumption
    <3>3. Minus(Plus(sendseq[k], n), recvseq[Remote(k)]) = x + n
      BY <1>6, <3>2
    <3> HIDE DEF n, x
    <3>4. Minus(sendseq[k], recvseq[Remote(k)]) = x
      BY <1>5, <3>2, <3>3, MinusPlusBack
    <3> QED BY <2>2, <3>1, <3>4 DEF x
  <2> QED BY <1>2, <2>1, <2>2
<1>10. ASSUME sendwin[k] # 0 \/ sendseq[k] # 0
       PROVE  Minus(sendwin[k], recvseq[Remote(k)]) \in (Written(k) - rout[Remote(k)])..RBSize
  <2>1. Opened(k)
    BY <1>1, <1>10 DEF NothingYet
  <2>2. Minus(sendwin[k], recvseq[Remote(k)]) = Edge(k)
    BY <1>5, <2>1
  <2> QED BY <1>5, <1>6, <1>7, <2>2, MuxAssumption
<1> QED BY <1>8, <1>9, <1>10

\* The stream, from InOrder.
LEMMA InOrderIsChained ==
    ASSUME Local, Cross
    PROVE  StreamInOrder
<1> SUFFICES ASSUME NEW k \in Sides
             PROVE  Chained(Flight(k), k[2], rin[Remote(k)], Written(k))
  BY DEF StreamInOrder
<1>1. /\ Stream(Flight(k), k[2], rin[Remote(k)], Written(k))
      /\ Flight(k) \in Seq(Packets) /\ Written(k) \in Nat
  BY FlightStream
<1>2. rin[Remote(k)] \in Nat /\ k[2] \in Chans
  BY Positions, SideEnds
<1> QED BY <1>1, <1>2, StreamIsChained

\* A step changes the window of an open side only to that of a window packet.
LEMMA WindowStep ==
    ASSUME Local, Cross, Next, NEW k \in Sides, Opened(k)
    PROVE  \/ sendwin'[k] = sendwin[k]
           \/ \E q \in Seq(Packets) :
                /\ q = Line(Peer(k[1])) /\ q # <<>> /\ Offer(q, k[2], 1)
                /\ sendwin'[k] = q[1].win
<1>1. TypeOK
  BY DEF Local
<1>2. ASSUME NEW j \in Sides, AppStep(j)
      PROVE  sendwin'[k] = sendwin[k]
  <2>1. sendwin' = sendwin
    BY <1>2 DEF AppStep, Open, AwaitOpen, ChanWrite, ChanRead, ChanClose,
       ChanWait, chanVars
  <2> QED BY <2>1
<1>3. ASSUME NEW e \in Ends, SenderStep(e)
      PROVE  sendwin'[k] = sendwin[k]
  <2>1. sendwin' = sendwin
    BY <1>3 DEF SenderStep, ScanFinds, ScanFindsNothing, BuildPacket,
       WritePacket, PostData, chanVars
  <2> QED BY <2>1
<1>4. CASE (\E a \in Callers : WakeupStep(a)) \/ SpuriousStep \/ Finished
  BY <1>1, <1>4, OtherEffect
<1>5. ASSUME NEW e \in Ends, ReceiverStep(e)
      PROVE  \/ sendwin'[k] = sendwin[k]
             \/ \E q \in Seq(Packets) :
                  /\ q = Line(Peer(k[1])) /\ q # <<>> /\ Offer(q, k[2], 1)
                  /\ sendwin'[k] = q[1].win
  <2>1. CASE ReceiveConnect(e)
    <3>1. PICK j \in Sides : state[j] = "LISTENING"
                             /\ (j # k => sendwin'[k] = sendwin[k])
      BY ZenonT(40), <2>1, ConnectArrives
    <3> QED BY <3>1 DEF Opened
  <2>2. CASE ReceiveAccept(e)
    <3>1. PICK j \in Sides : state[j] = "CONNECTING"
                             /\ (j # k => sendwin'[k] = sendwin[k])
      BY <2>2, AcceptArrives
    <3> QED BY <3>1 DEF Opened
  <2>3. CASE ReceiveWindow(e)
    <3>1. PICK j \in Sides, p \in Packets :
                 /\ j[1] = e /\ j[2] = p.id /\ p.type = "WINDOW"
                 /\ sendwin'[j] = p.win \/ sendwin'[j] = sendwin[j]
                 /\ \A i \in Sides : i # j => sendwin'[i] = sendwin[i]
                 /\ Takes(e, p)
      BY <2>3, WindowArrives
    <3>2. CASE j = k /\ sendwin'[j] = p.win
      <4> DEFINE q == Line(Peer(e))
      <4>1. q \in Seq(Packets) /\ q # <<>> /\ q[1] = p
        BY <1>1, <3>1, LineType, PeerFacts DEF Takes
      <4> HIDE DEF q
      <4>2. 1 \in 1..Len(q)
        BY <4>1, AtTail
      <4>3. Offer(q, k[2], 1) /\ sendwin'[k] = q[1].win
        BY <3>1, <3>2, <4>1, <4>2 DEF Offer
      <4> QED BY <3>1, <3>2, <4>1, <4>3 DEF q
    <3> QED BY <3>1, <3>2
  <2>4. CASE ReceiveData(e) \/ PayloadRead(e) \/ ReceiveClose(e)
    <3>1. sendwin' = sendwin
      BY <2>4 DEF ReceiveData, PayloadRead, ReceiveClose, chanVars
    <3> QED BY <3>1
  <2> QED BY <1>5, <2>1, <2>2, <2>3, <2>4 DEF ReceiverStep
<1> QED BY <1>2, <1>3, <1>4, <1>5 DEF Next

\* No step takes back what was offered.
LEMMA WindowKept ==
    ASSUME Local, Cross, [Next]_vars
    PROVE  [\A k \in Sides :
              LET r == recvseq[Remote(k)] IN
              state[k] \in {"ESTABLISHED", "RDCLOSED"} =>
                Minus(sendwin'[k], r) >= Minus(sendwin[k], r)]_vars
<1>1. TypeOK /\ Credit
  BY DEF Local, Cross
<1> SUFFICES ASSUME Next, NEW k \in Sides, state[k] \in {"ESTABLISHED", "RDCLOSED"}
             PROVE  Minus(sendwin'[k], recvseq[Remote(k)])
                      >= Minus(sendwin[k], recvseq[Remote(k)])
  OBVIOUS
<1>2. Opened(k)
  BY DEF Opened
<1>3. Edge(k) \in Nat /\ Edge(k) = Minus(sendwin[k], recvseq[Remote(k)])
  BY <1>1, <1>2, EdgeType
<1>4. CASE sendwin'[k] = sendwin[k]
  BY <1>3, <1>4
<1>5. CASE \E q \in Seq(Packets) :
             /\ q = Line(Peer(k[1])) /\ q # <<>> /\ Offer(q, k[2], 1)
             /\ sendwin'[k] = q[1].win
  <2>1. PICK q \in Seq(Packets) :
               /\ q = Line(Peer(k[1])) /\ q # <<>> /\ Offer(q, k[2], 1)
               /\ sendwin'[k] = q[1].win
    BY <1>5
  <2>2. Offers(q, k[2], recvseq[Remote(k)], Edge(k))
    BY <1>1, <2>1 DEF Credit
  <2>3. 1 \in 1..Len(q)
    BY <2>1 DEF Offer
  <2>4. Edge(k) <= Minus(q[1].win, recvseq[Remote(k)])
    BY <2>1, <2>2, <2>3 DEF Offers
  <2>5. Minus(q[1].win, recvseq[Remote(k)]) \in Nat
    <3>1. q[1] \in Packets /\ recvseq[Remote(k)] \in SeqNums
      BY <1>1, <2>1, AtTail, EdgeType
    <3>2. q[1].win \in SeqNums
      BY <3>1 DEF Packets, SeqNums
    <3> QED BY <3>1, <3>2, SeqNumType, MuxAssumption DEF SeqNums
  <2> QED BY <1>3, <2>1, <2>4, <2>5
<1> QED BY <1>2, <1>4, <1>5, WindowStep

-----------------------------------------------------------------------------
(* The channels as byte pipes *)

\* A step that neither writes, reads, shuts nor ends a channel.
LEMMA PipesRest ==
    ASSUME UNCHANGED <<sin, rout, eof>>, \A j \in Sides : Shut(j)' <=> Shut(j)
    PROVE  UNCHANGED Pipes!vars
<1>1. [j \in Sides |-> rout[Remote(j)]]' = [j \in Sides |-> rout[Remote(j)]]
  OBVIOUS
<1>2. [j \in Sides |-> eof[Remote(j)]]' = [j \in Sides |-> eof[Remote(j)]]
  OBVIOUS
<1>3. [j \in Sides |-> state[j] \in {"WRCLOSED", "CLOSED"}]'
        = [j \in Sides |-> state[j] \in {"WRCLOSED", "CLOSED"}]
  BY DEF Shut
<1> QED BY <1>1, <1>2, <1>3 DEF Pipes!vars

\* chan_write() is Write, or nothing when the send buffer is full.
LEMMA PipesWrite ==
    ASSUME Local, Cross, TypeOK', NEW k \in Sides, NEW n \in 1..SBSize, ChanWrite(k, n)
    PROVE  [Pipes!Next]_(Pipes!vars)
<1>1. TypeOK /\ SendHolds
  BY DEF Local
<1>2. PICK put \in Int :
             /\ put = Min2(n, SendAvail(k))
             /\ state[k] \in {"ESTABLISHED", "RDCLOSED"}
             /\ \A j \in Sides : sin'[j] = IF j = k THEN sin[j] + put ELSE sin[j]
             /\ UNCHANGED <<state, rout, eof>>
  BY <1>1, ChanWriteEffect
<1>3. sin \in [Sides -> Nat] /\ sin' \in [Sides -> Nat]
  BY <1>1 DEF TypeOK
<1>4. /\ sin[k] \in Nat /\ sout[k] \in Nat /\ Made(k) \in Nat
      /\ sout[k] <= sin[k] /\ sout[k] <= Made(k) /\ Made(k) <= sin[k]
      /\ sin[k] - sout[k] <= SBSize
  BY <1>1, MadeType DEF SendHolds
<1>5. put \in Nat /\ put <= SBSize - (sin[k] - sout[k])
  BY <1>2, <1>4, MuxAssumption DEF Min2, SendAvail, SendCount
<1>6. /\ rout[Remote(k)] \in Nat /\ Edge(k) \in Nat
      /\ Made(k) - rout[Remote(k)] <= Edge(k) /\ Edge(k) <= RBSize
      /\ rout[Remote(k)] <= Made(k)
  <2>1. Credit
    BY DEF Cross
  <2> QED BY <2>1, EdgeType DEF Credit
<1>7. put <= (SBSize + RBSize) - (sin[k] - rout[Remote(k)])
  BY <1>4, <1>5, <1>6, MuxAssumption
<1>8. CASE put = 0
  <2>1. sin' = sin
    BY <1>2, <1>3, <1>8
  <2>2. \A j \in Sides : Shut(j)' <=> Shut(j)
    BY <1>2 DEF Shut
  <2> QED BY <1>2, <2>1, <2>2, PipesRest
<1>9. CASE put # 0
  <2>1. sin' = [sin EXCEPT ![k] = sin[k] + put]
    BY <1>2, <1>3
  <2>2. /\ [j \in Sides |-> rout[Remote(j)]][k] = rout[Remote(k)]
        /\ ~[j \in Sides |-> state[j] \in {"WRCLOSED", "CLOSED"}][k]
    BY <1>2
  <2>3. put \in 1..((SBSize + RBSize) - (sin[k] - [j \in Sides |-> rout[Remote(j)]][k]))
    BY <1>4, <1>5, <1>6, <1>7, <1>9, <2>2, MuxAssumption
  <2>4. Pipes!Write(k)
    BY <1>2, <2>1, <2>2, <2>3 DEF Pipes!Write
  <2> QED BY <2>4 DEF Pipes!Next
<1> QED BY <1>8, <1>9

\* chan_read() is Read when there is data, and End at the end.
LEMMA PipesRead ==
    ASSUME Local, Cross, TypeOK', NEW k \in Sides, NEW size \in ReadSizes,
           ChanRead(k, size)
    PROVE  [Pipes!Next]_(Pipes!vars)
<1> DEFINE d == Remote(k)
<1>1. TypeOK /\ RecvHolds /\ MainKnows /\ Closing
  BY DEF Local, Cross
<1>2. d \in Sides /\ Remote(d) = k /\ \A j \in Sides : Remote(j) = k <=> j = d
  BY RemoteFacts
<1> HIDE DEF d
<1>3. /\ rout \in [Sides -> Nat] /\ rout' \in [Sides -> Nat]
      /\ eof \in [Sides -> BOOLEAN] /\ eof' \in [Sides -> BOOLEAN]
  BY <1>1 DEF TypeOK
<1>4. UNCHANGED <<state, sin>>
  BY <1>1, ChanReadEffect
<1>5. /\ [j \in Sides |-> rout[Remote(j)]][d] = rout[k]
      /\ [j \in Sides |-> eof[Remote(j)]][d] = eof[k]
      /\ [j \in Sides |-> state[j] \in {"WRCLOSED", "CLOSED"}][d] <=> Shut(d)
  BY <1>2 DEF Shut
<1>6. [j \in Sides |-> state[j] \in {"WRCLOSED", "CLOSED"}]'
        = [j \in Sides |-> state[j] \in {"WRCLOSED", "CLOSED"}]
  BY <1>4
<1>7. CASE /\ Got(k) /\ UNCHANGED rout
           /\ \A j \in Sides : eof'[j] = IF j = k THEN TRUE ELSE eof[j]
  <2>1. Shut(Remote(k))
    BY <1>1, <1>7 DEF Closing
  <2>2. rout[k] = sin[d]
    BY <1>2, <2>1, AllRead DEF d
  <2>3. [j \in Sides |-> eof[Remote(j)]]'
          = [[j \in Sides |-> eof[Remote(j)]] EXCEPT ![d] = TRUE]
    BY <1>2, <1>3, <1>7, RemoteFacts
  <2>4. [j \in Sides |-> rout[Remote(j)]]' = [j \in Sides |-> rout[Remote(j)]]
    BY <1>7
  <2>5. [j \in Sides |-> state[j] \in {"WRCLOSED", "CLOSED"}][d]
    BY <1>5, <2>1 DEF d
  <2>6. Pipes!End(d)
    BY <1>4, <1>5, <1>6, <2>2, <2>3, <2>4, <2>5 DEF Pipes!End
  <2> QED BY <1>2, <2>6 DEF Pipes!Next
<1>8. CASE UNCHANGED <<eof, rout>>
  <2>1. \A j \in Sides : Shut(j)' <=> Shut(j)
    BY <1>4 DEF Shut
  <2> QED BY <1>4, <1>8, <2>1, PipesRest
<1>9. CASE /\ ~Got(k) /\ RecvCount(k) # 0 /\ UNCHANGED eof
           /\ \A j \in Sides :
                rout'[j] = IF j = k THEN rout[j] + Min2(RecvCount(k), size) ELSE rout[j]
  <2> DEFINE n == Min2(RecvCount(k), size)
  <2>1. /\ rout[k] \in Nat /\ rin[k] \in Nat /\ rout[k] <= rin[k]
        /\ rin[k] <= sin[d] /\ sin[d] \in Nat
    <3>1. /\ rout[Remote(d)] \in Nat /\ rin[Remote(d)] \in Nat
          /\ rout[Remote(d)] <= rin[Remote(d)] /\ rin[Remote(d)] <= Made(d)
          /\ Made(d) <= sin[d]
      BY <1>2, Positions
    <3>2. Made(d) \in Nat /\ sin[d] \in Nat
      BY <1>2, MadeType
    <3> QED BY <1>2, <3>1, <3>2
  <2>2. n \in 1..(sin[d] - rout[k])
    BY <1>9, <2>1, MuxAssumption DEF Min2, RecvCount
  <2>3. \A j \in Sides : rout'[j] = IF j = k THEN rout[j] + n ELSE rout[j]
    BY <1>9
  <2> HIDE DEF n
  <2>4. [j \in Sides |-> rout[Remote(j)]]'
          = [[j \in Sides |-> rout[Remote(j)]] EXCEPT
               ![d] = [j \in Sides |-> rout[Remote(j)]][d] + n]
    BY <1>2, <2>3, RemoteFacts
  <2>5. [j \in Sides |-> eof[Remote(j)]]' = [j \in Sides |-> eof[Remote(j)]]
    BY <1>9
  <2>6. ~[j \in Sides |-> eof[Remote(j)]][d]
    BY <1>1, <1>5, <1>9 DEF MainKnows
  <2>7. n \in 1..(sin[d] - [j \in Sides |-> rout[Remote(j)]][d])
    BY <1>5, <2>2
  <2>8. Pipes!Read(d)
    BY <1>4, <1>6, <2>4, <2>5, <2>6, <2>7 DEF Pipes!Read
  <2> QED BY <1>2, <2>8 DEF Pipes!Next
<1> QED BY ZenonT(40), <1>1, <1>7, <1>8, <1>9, ChanReadEffect

\* chan_close() is Shut.
LEMMA PipesClose ==
    ASSUME Local, Cross, TypeOK', NEW k \in Sides, ChanClose(k)
    PROVE  [Pipes!Next]_(Pipes!vars)
<1>1. TypeOK /\ MainKnows
  BY DEF Local
<1>2. /\ state[k] \in {"ESTABLISHED", "RDCLOSED"}
      /\ \A j \in Sides :
           state'[j] = IF j # k THEN state[j]
                       ELSE IF state[j] = "ESTABLISHED" THEN "WRCLOSED" ELSE "CLOSED"
      /\ UNCHANGED <<sin, rout, eof>>
  BY <1>1, ChanCloseEffect
<1>3. ~[j \in Sides |-> state[j] \in {"WRCLOSED", "CLOSED"}][k]
  BY <1>2
<1>4. [j \in Sides |-> state[j] \in {"WRCLOSED", "CLOSED"}]'
        = [[j \in Sides |-> state[j] \in {"WRCLOSED", "CLOSED"}] EXCEPT ![k] = TRUE]
  BY <1>2
<1>5. /\ [j \in Sides |-> rout[Remote(j)]]' = [j \in Sides |-> rout[Remote(j)]]
      /\ [j \in Sides |-> eof[Remote(j)]]' = [j \in Sides |-> eof[Remote(j)]]
  BY <1>2
<1>6. Pipes!Shut(k)
  BY <1>2, <1>3, <1>4, <1>5 DEF Pipes!Shut
<1> QED BY <1>6 DEF Pipes!Next

\* The receiver opens a channel or learns that the other side shut it: nothing
\* happens to the pipes.
LEMMA PipesReceive ==
    ASSUME Local, Cross, NEW e \in Ends, ReceiverStep(e)
    PROVE  UNCHANGED <<sin, rout, eof>> /\ \A j \in Sides : Shut(j)' <=> Shut(j)
<1>1. TypeOK
  BY DEF Local
<1>2. CASE ReceiveConnect(e)
  <2>1. UNCHANGED <<sin, rout, eof>>
    BY <1>2 DEF ReceiveConnect, bufVars, appVars
  <2>2. PICK k \in Sides, p \in Packets :
               /\ state[k] = "LISTENING"
               /\ \A j \in Sides :
                    /\ state'[j] = IF j = k THEN "ESTABLISHED" ELSE state[j]
                    /\ sendwin'[j] = IF j = k THEN p.win ELSE sendwin[j]
                    /\ flags'[j] = IF j = k THEN flags[j] \cup {"ACCEPT"} ELSE flags[j]
    BY <1>2, ConnectArrives
  <2> QED BY <2>1, <2>2 DEF Shut
<1>3. CASE ReceiveAccept(e)
  <2>1. PICK k \in Sides :
               /\ state[k] = "CONNECTING"
               /\ \A j \in Sides : state'[j] = IF j = k THEN "ESTABLISHED" ELSE state[j]
               /\ UNCHANGED <<sin, rout, eof>>
    BY <1>3, AcceptArrives
  <2> QED BY <2>1 DEF Shut
<1>4. CASE ReceiveWindow(e)
  <2>1. UNCHANGED <<state, sin, rout, eof>>
    BY <1>4, WindowArrives
  <2> QED BY <2>1 DEF Shut
<1>5. CASE ReceiveData(e)
  <2>1. UNCHANGED <<state, sin, rout, eof>>
    BY <1>5, DataArrives
  <2> QED BY <2>1 DEF Shut
<1>6. CASE PayloadRead(e)
  <2>1. UNCHANGED <<state, sin, rout, eof>>
    BY <1>1, <1>6, PayloadReadEffect
  <2> QED BY <2>1 DEF Shut
<1>7. CASE ReceiveClose(e)
  <2>1. PICK k \in Sides :
               /\ \/ state[k] = "ESTABLISHED" /\ state'[k] = "RDCLOSED"
                  \/ state[k] = "WRCLOSED" /\ state'[k] = "CLOSED"
               /\ \A j \in Sides : j # k => state'[j] = state[j]
               /\ UNCHANGED <<sin, rout, eof>>
    BY <1>7, CloseArrives
  <2>2. Shut(k)' <=> Shut(k)
    BY <2>1 DEF Shut
  <2>3. \A j \in Sides : j # k => (Shut(j)' <=> Shut(j))
    BY <2>1 DEF Shut
  <2> QED BY <2>1, <2>2, <2>3
<1> QED BY <1>2, <1>3, <1>4, <1>5, <1>6, <1>7 DEF ReceiverStep

\* Every step of the multiplexer is a step of the pipes, or none.
LEMMA PipesNext ==
    ASSUME Local, Cross, TypeOK', [Next]_vars
    PROVE  [Pipes!Next]_(Pipes!vars)
<1>1. TypeOK
  BY DEF Local
<1>2. CASE UNCHANGED vars
  <2>1. UNCHANGED <<state, sin, rout, eof>>
    BY <1>2 DEF vars, chanVars, bufVars, appVars
  <2>2. \A j \in Sides : Shut(j)' <=> Shut(j)
    BY <2>1 DEF Shut
  <2> QED BY <2>1, <2>2, PipesRest
<1>3. ASSUME NEW k \in Sides, AppStep(k)
      PROVE  [Pipes!Next]_(Pipes!vars)
  <2>1. CASE Open(k)
    <3>1. UNCHANGED <<sin, rout, eof>> /\ state[k] = "UNUSED"
          /\ state'[k] \in {"CONNECTING", "LISTENING"}
          /\ \A j \in Sides : j # k => state'[j] = state[j]
      BY <1>1, <2>1, OpenEffect
    <3>2. \A j \in Sides : Shut(j)' <=> Shut(j)
      BY <3>1 DEF Shut
    <3> QED BY <3>1, <3>2, PipesRest
  <2>2. CASE AwaitOpen(k) \/ ChanWait(k)
    <3>1. UNCHANGED <<state, sin, rout, eof>>
      BY <1>1, <2>2, AwaitOpenEffect, ChanWaitEffect
    <3>2. \A j \in Sides : Shut(j)' <=> Shut(j)
      BY <3>1 DEF Shut
    <3> QED BY <3>1, <3>2, PipesRest
  <2> QED BY <1>3, <2>1, <2>2, PipesWrite, PipesRead, PipesClose DEF AppStep
<1>4. ASSUME NEW e \in Ends, SenderStep(e)
      PROVE  [Pipes!Next]_(Pipes!vars)
  <2>1. UNCHANGED <<state, sin, rout, eof>>
    BY <1>4 DEF SenderStep, ScanFinds, ScanFindsNothing, BuildPacket,
       WritePacket, PostData, chanVars, bufVars, appVars
  <2>2. \A j \in Sides : Shut(j)' <=> Shut(j)
    BY <2>1 DEF Shut
  <2> QED BY <2>1, <2>2, PipesRest
<1>5. ASSUME NEW e \in Ends, ReceiverStep(e)
      PROVE  [Pipes!Next]_(Pipes!vars)
  BY <1>5, PipesReceive, PipesRest
<1>6. CASE (\E a \in Callers : WakeupStep(a)) \/ SpuriousStep \/ Finished
  <2>1. UNCHANGED <<state, sin, rout, eof>>
    BY <1>1, <1>6, OtherEffect
  <2>2. \A j \in Sides : Shut(j)' <=> Shut(j)
    BY <2>1 DEF Shut
  <2> QED BY <2>1, <2>2, PipesRest
<1> QED BY <1>2, <1>3, <1>4, <1>5, <1>6 DEF Next

\* At the start all pipes are empty and open.
LEMMA PipesInit == Init => Pipes!Init
<1> SUFFICES ASSUME Init PROVE Pipes!Init
  OBVIOUS
<1>1. \A j \in Sides : Remote(j) \in Sides
  BY RemoteFacts
<1>2. /\ sin = [k \in Sides |-> 0] /\ rout = [k \in Sides |-> 0]
      /\ eof = [k \in Sides |-> FALSE] /\ state = [k \in Sides |-> "UNUSED"]
  BY DEF Init
<1>3. [k \in Sides |-> rout[Remote(k)]] = [k \in Sides |-> 0]
  BY <1>1, <1>2
<1>4. [k \in Sides |-> eof[Remote(k)]] = [k \in Sides |-> FALSE]
  BY <1>1, <1>2
<1>5. [k \in Sides |-> state[k] \in {"WRCLOSED", "CLOSED"}] = [k \in Sides |-> FALSE]
  <2>1. \A k \in Sides : (state[k] \in {"WRCLOSED", "CLOSED"}) = FALSE
    BY <1>2
  <2> QED BY <2>1, Zenon
<1> QED BY <1>2, <1>3, <1>4, <1>5 DEF Pipes!Init

-----------------------------------------------------------------------------
(* The theorems *)

\* The receiver threads never meet a packet that mux.c calls a protocol error,
\* which would bring the multiplexer down.
THEOREM NeverAProtocolError == Spec => []NoProtocolError
<1>1. Local /\ Cross => NoProtocolError
  BY DEF Cross
<1> QED BY <1>1, CrossAlways, PTL

\* The credit scheme of mux.c: whatever was handed to the socket and not read
\* at the other end fits in the receive buffer there, and the 32-bit sequence
\* numbers, which wrap around, tell how much that is.
THEOREM CreditIsSound == Spec => []FlowControl
<1>1. Local /\ Cross => FlowControl
  BY CreditIsFlowControl
<1> QED BY <1>1, CrossAlways, PTL

\* The data packets in flight continue the stream: bytes are neither lost,
\* repeated nor reordered between the two buffers of a direction.
THEOREM BytesStayInOrder == Spec => []StreamInOrder
<1>1. Local /\ Cross => StreamInOrder
  BY InOrderIsChained
<1> QED BY <1>1, CrossAlways, PTL

\* A window that was given is never taken back, although packets that carry
\* one are built long after the reader set the flag for them.
THEOREM WindowsOnlyGrow == Spec => WindowNeverShrinks
<1>1. Local /\ Cross /\ [Next]_vars =>
        [\A k \in Sides :
           LET r == recvseq[Remote(k)] IN
           state[k] \in {"ESTABLISHED", "RDCLOSED"} =>
             Minus(sendwin'[k], r) >= Minus(sendwin[k], r)]_vars
  BY WindowKept
<1> QED BY <1>1, CrossAlways, PTL DEF Spec, WindowNeverShrinks

\* The channels of the multiplexer are byte pipes with a bounded capacity and
\* an orderly end.
THEOREM ChannelsArePipes == Spec => ImplementsPipes
<1>1. Local /\ Cross /\ TypeOK' /\ [Next]_vars => [Pipes!Next]_(Pipes!vars)
  BY PipesNext
<1>2. Local => TypeOK
  BY DEF Local
<1> QED BY <1>1, <1>2, PipesInit, CrossAlways, PTL DEF Spec, ImplementsPipes, Pipes!Spec

-----------------------------------------------------------------------------
(* Threads that sleep *)

\* What a thread that sleeps waits for.  At most one sleeps on each condition
\* variable, so that pthread_cond_signal() wakes up the right one.
Sleeps ==
    \A k \in Sides :
      /\ Reader(k) \in asleep =>
           /\ mpc[k] = "opened" /\ RecvCount(k) = 0 /\ state[k] = "ESTABLISHED"
           /\ IF k[1] = "client" THEN rout[k] # Total[Remote(k)] ELSE ~eof[k]
      /\ Writer(k) \in asleep =>
           /\ mpc[k] = "opened" /\ SendAvail(k) = 0 /\ wleft[k] # 0
      /\ Main(k) \in asleep =>
           \/ mpc[k] = "await" /\ state[k] \in {"LISTENING", "CONNECTING"}
           \/ mpc[k] = "drain" /\ state[k] # "CLOSED"

\* The threads of all sides are different.
LEMMA ThreadNames ==
    ASSUME NEW j \in Sides, NEW k \in Sides
    PROVE  /\ Main(j) = Main(k) <=> j = k
           /\ Reader(j) = Reader(k) <=> j = k
           /\ Writer(j) = Writer(k) <=> j = k
           /\ Main(j) # Reader(k) /\ Main(j) # Writer(k) /\ Reader(j) # Writer(k)
           /\ Main(k)[1] = k[1] /\ Reader(k)[1] = k[1] /\ Writer(k)[1] = k[1]
<1>1. j[1] = k[1] /\ j[2] = k[2] <=> j = k
  BY SideFacts
<1> QED BY <1>1 DEF Main, Reader, Writer

\* A signal wakes up whoever waits alone.
LEMMA SignalAlone ==
    ASSUME NEW S, Signal(S)
    PROVE  /\ asleep' \subseteq asleep
           /\ \A a \in S : S \subseteq {a} => a \notin asleep'
BY DEF Signal

\* Sleeps holds after a step, when each side says so.
LEMMA SleepsNext ==
    ASSUME \A k \in Sides :
             /\ Reader(k) \in asleep' =>
                  /\ mpc'[k] = "opened" /\ rin'[k] - rout'[k] = 0
                  /\ state'[k] = "ESTABLISHED"
                  /\ IF k[1] = "client" THEN rout'[k] # Total[Remote(k)] ELSE ~eof'[k]
             /\ Writer(k) \in asleep' =>
                  /\ mpc'[k] = "opened" /\ SBSize - (sin'[k] - sout'[k]) = 0
                  /\ wleft'[k] # 0
             /\ Main(k) \in asleep' =>
                  \/ mpc'[k] = "await" /\ state'[k] \in {"LISTENING", "CONNECTING"}
                  \/ mpc'[k] = "drain" /\ state'[k] # "CLOSED"
    PROVE  Sleeps'
BY DEF Sleeps, RecvCount, SendAvail, SendCount

\* One more side may sleep, none sleeps of whom something changes.
LEMMA SleepsKept ==
    ASSUME Sleeps, NEW k \in Sides,
           \A j \in Sides : j # k =>
             /\ UNCHANGED <<mpc[j], state[j], wleft[j], sin[j], sout[j], rin[j],
                            rout[j], eof[j]>>
             /\ Reader(j) \in asleep' => Reader(j) \in asleep
             /\ Writer(j) \in asleep' => Writer(j) \in asleep
             /\ Main(j) \in asleep' => Main(j) \in asleep,
           Reader(k) \in asleep' =>
             /\ mpc'[k] = "opened" /\ rin'[k] - rout'[k] = 0
             /\ state'[k] = "ESTABLISHED"
             /\ IF k[1] = "client" THEN rout'[k] # Total[Remote(k)] ELSE ~eof'[k],
           Writer(k) \in asleep' =>
             /\ mpc'[k] = "opened" /\ SBSize - (sin'[k] - sout'[k]) = 0
             /\ wleft'[k] # 0,
           Main(k) \in asleep' =>
             \/ mpc'[k] = "await" /\ state'[k] \in {"LISTENING", "CONNECTING"}
             \/ mpc'[k] = "drain" /\ state'[k] # "CLOSED"
    PROVE  Sleeps'
<1>1. ASSUME NEW j \in Sides, j # k
      PROVE  /\ Reader(j) \in asleep' =>
                  /\ mpc'[j] = "opened" /\ rin'[j] - rout'[j] = 0
                  /\ state'[j] = "ESTABLISHED"
                  /\ IF j[1] = "client" THEN rout'[j] # Total[Remote(j)] ELSE ~eof'[j]
             /\ Writer(j) \in asleep' =>
                  /\ mpc'[j] = "opened" /\ SBSize - (sin'[j] - sout'[j]) = 0
                  /\ wleft'[j] # 0
             /\ Main(j) \in asleep' =>
                  \/ mpc'[j] = "await" /\ state'[j] \in {"LISTENING", "CONNECTING"}
                  \/ mpc'[j] = "drain" /\ state'[j] # "CLOSED"
  <2>1. /\ mpc'[j] = mpc[j] /\ state'[j] = state[j] /\ wleft'[j] = wleft[j]
        /\ sin'[j] = sin[j] /\ sout'[j] = sout[j] /\ rin'[j] = rin[j]
        /\ rout'[j] = rout[j] /\ eof'[j] = eof[j]
    BY <1>1
  <2> QED BY <1>1, <2>1 DEF Sleeps, RecvCount, SendAvail, SendCount
<1> QED BY <1>1, SleepsNext

\* A step that at most wakes threads up.
LEMMA SleepsRest ==
    ASSUME Sleeps, asleep' \subseteq asleep,
           UNCHANGED <<mpc, state, wleft, sin, sout, rin, rout, eof>>
    PROVE  Sleeps'
<1> SUFFICES ASSUME NEW k \in Sides
             PROVE  /\ Reader(k) \in asleep' =>
                         /\ mpc'[k] = "opened" /\ rin'[k] - rout'[k] = 0
                         /\ state'[k] = "ESTABLISHED"
                         /\ IF k[1] = "client" THEN rout'[k] # Total[Remote(k)] ELSE ~eof'[k]
                    /\ Writer(k) \in asleep' =>
                         /\ mpc'[k] = "opened" /\ SBSize - (sin'[k] - sout'[k]) = 0
                         /\ wleft'[k] # 0
                    /\ Main(k) \in asleep' =>
                         \/ mpc'[k] = "await" /\ state'[k] \in {"LISTENING", "CONNECTING"}
                         \/ mpc'[k] = "drain" /\ state'[k] # "CLOSED"
  BY SleepsNext
<1> QED BY DEF Sleeps, RecvCount, SendAvail, SendCount

\* chan_connect(), chan_listen() and chan_accept().
LEMMA SleepsOpen ==
    ASSUME Local, Sleeps, NEW k \in Sides, Open(k) \/ AwaitOpen(k)
    PROVE  Sleeps'
<1>1. TypeOK
  BY DEF Local
<1>2. CASE Open(k)
  <2>1. /\ mpc[k] = "open"
        /\ \A j \in Sides : j # k => mpc'[j] = mpc[j] /\ state'[j] = state[j]
        /\ UNCHANGED <<sin, sout, rin, rout, wleft, eof>>
    BY <1>1, <1>2, OpenEffect
  <2>2. asleep' = asleep
    BY <1>2 DEF Open
  <2>3. Reader(k) \notin asleep /\ Writer(k) \notin asleep /\ Main(k) \notin asleep
    BY <2>1 DEF Sleeps
  <2> QED BY <2>1, <2>2, <2>3, SleepsKept
<1>3. CASE AwaitOpen(k)
  <2>1. /\ mpc[k] = "await"
        /\ \A j \in Sides : j # k => mpc'[j] = mpc[j]
        /\ UNCHANGED <<state, sin, sout, rin, rout, wleft, eof>>
    BY <1>1, <1>3, AwaitOpenEffect
  <2>2. /\ Main(k) \notin asleep
        /\ \/ /\ state[k] \in {"LISTENING", "CONNECTING"}
              /\ asleep' = asleep \cup {Main(k)} /\ mpc' = mpc
           \/ asleep' = asleep
    BY <1>3 DEF AwaitOpen, Ready
  <2>3. Reader(k) \notin asleep /\ Writer(k) \notin asleep
    BY <2>1 DEF Sleeps
  <2>4. \A j \in Sides :
          /\ Reader(j) # Main(k) /\ Writer(j) # Main(k)
          /\ j # k => Main(j) # Main(k)
    BY ThreadNames
  <2>5. /\ \A j \in Sides : /\ Reader(j) \in asleep' => Reader(j) \in asleep
                            /\ Writer(j) \in asleep' => Writer(j) \in asleep
                            /\ j # k => (Main(j) \in asleep' => Main(j) \in asleep)
        /\ Main(k) \in asleep' =>
             mpc'[k] = "await" /\ state[k] \in {"LISTENING", "CONNECTING"}
    BY <2>1, <2>2, <2>4
  <2> QED BY <2>1, <2>3, <2>5, SleepsKept
<1> QED BY <1>2, <1>3

\* chan_write().
LEMMA SleepsWrite ==
    ASSUME Local, Sleeps, NEW k \in Sides, NEW n \in 1..SBSize, ChanWrite(k, n)
    PROVE  Sleeps'
<1>1. TypeOK /\ SendHolds
  BY DEF Local
<1>2. PICK put \in Int :
             /\ mpc[k] = "opened" /\ put = Min2(n, SendAvail(k))
             /\ \A j \in Sides :
                  /\ sin'[j] = IF j = k THEN sin[j] + put ELSE sin[j]
                  /\ wleft'[j] = IF j = k THEN n - put ELSE wleft[j]
             /\ UNCHANGED <<state, sout, rin, rout, mpc, eof>>
  BY <1>1, ChanWriteEffect
<1>3. /\ Writer(k) \notin asleep
      /\ \/ asleep' = asleep
         \/ asleep' = asleep \cup {Writer(k)} /\ Min2(n, SendAvail(k)) # n
  BY DEF ChanWrite, Ready
<1>4. \A j \in Sides :
        /\ Reader(j) # Writer(k) /\ Main(j) # Writer(k)
        /\ j # k => Writer(j) # Writer(k)
  BY ThreadNames
<1>5. /\ \A j \in Sides : /\ Reader(j) \in asleep' => Reader(j) \in asleep
                          /\ Main(j) \in asleep' => Main(j) \in asleep
                          /\ j # k => (Writer(j) \in asleep' => Writer(j) \in asleep)
      /\ Writer(k) \in asleep' => put # n
  BY <1>2, <1>3, <1>4
<1>6. ASSUME put # n
      PROVE  SBSize - (sin'[k] - sout'[k]) = 0 /\ wleft'[k] # 0
  <2>1. sin[k] \in Nat /\ sout[k] \in Nat
    BY <1>1, SideTypes
  <2>2. put = SBSize - (sin[k] - sout[k]) /\ sin'[k] = sin[k] + put /\ wleft'[k] = n - put
    BY <1>2, <1>6 DEF Min2, SendAvail, SendCount
  <2>3. sout'[k] = sout[k]
    BY <1>2
  <2> QED BY <1>6, <2>1, <2>2, <2>3, MuxAssumption
<1>7. Reader(k) \in asleep' =>
        /\ mpc'[k] = "opened" /\ rin'[k] - rout'[k] = 0
        /\ state'[k] = "ESTABLISHED"
        /\ IF k[1] = "client" THEN rout'[k] # Total[Remote(k)] ELSE ~eof'[k]
  BY <1>2, <1>5 DEF Sleeps, RecvCount
<1>8. Main(k) \notin asleep'
  BY <1>2, <1>5 DEF Sleeps
<1> QED BY <1>2, <1>5, <1>6, <1>7, <1>8, SleepsKept

\* chan_read().
LEMMA SleepsRead ==
    ASSUME Local, Sleeps, NEW k \in Sides, NEW size \in ReadSizes, ChanRead(k, size)
    PROVE  Sleeps'
<1>1. TypeOK /\ MainKnows
  BY DEF Local
<1>2. /\ mpc[k] = "opened" /\ ~ReaderDone(k)
      /\ \A j \in Sides : j # k => eof'[j] = eof[j] /\ rout'[j] = rout[j]
      /\ UNCHANGED <<state, sin, sout, rin, mpc, wleft>>
  BY <1>1, ChanReadEffect
<1>3. state[k] \in {"ESTABLISHED", "RDCLOSED"}
  BY <1>1, <1>2 DEF MainKnows
<1>4. /\ Reader(k) \notin asleep /\ wake[Reader(k)] = "no"
      /\ \/ asleep' = asleep
         \/ /\ asleep' = asleep \cup {Reader(k)} /\ UNCHANGED <<rout, eof>>
            /\ RecvCount(k) = 0 /\ state[k] \notin {"RDCLOSED", "CLOSED"}
  BY DEF ChanRead, Ready
<1>5. \A j \in Sides :
        /\ Writer(j) # Reader(k) /\ Main(j) # Reader(k)
        /\ j # k => Reader(j) # Reader(k)
  BY ThreadNames
<1>6. /\ \A j \in Sides : /\ Writer(j) \in asleep' => Writer(j) \in asleep
                          /\ Main(j) \in asleep' => Main(j) \in asleep
                          /\ j # k => (Reader(j) \in asleep' => Reader(j) \in asleep)
      /\ Reader(k) \in asleep' =>
           /\ UNCHANGED <<rout, eof>>
           /\ RecvCount(k) = 0 /\ state[k] = "ESTABLISHED"
  BY <1>3, <1>4, <1>5
<1>7. Writer(k) \in asleep' =>
        /\ mpc'[k] = "opened" /\ SBSize - (sin'[k] - sout'[k]) = 0
        /\ wleft'[k] # 0
  BY <1>2, <1>6 DEF Sleeps, SendAvail, SendCount
<1>8. Main(k) \notin asleep'
  BY <1>2, <1>6 DEF Sleeps
<1>9. Reader(k) \in asleep' =>
        /\ mpc'[k] = "opened" /\ rin'[k] - rout'[k] = 0
        /\ state'[k] = "ESTABLISHED"
        /\ IF k[1] = "client" THEN rout'[k] # Total[Remote(k)] ELSE ~eof'[k]
  BY <1>2, <1>4, <1>6 DEF RecvCount, ReaderDone
<1> QED BY <1>2, <1>6, <1>7, <1>8, <1>9, SleepsKept

\* chan_close(): the workers of this end are done, so they do not sleep.
LEMMA SleepsClose ==
    ASSUME Local, Sleeps, NEW k \in Sides, ChanClose(k)
    PROVE  Sleeps'
<1>1. TypeOK /\ MainKnows
  BY DEF Local
<1>2. /\ mpc[k] = "opened" /\ MayClose(k)
      /\ \A j \in Sides : j # k => mpc'[j] = mpc[j] /\ state'[j] = state[j]
      /\ UNCHANGED <<sin, sout, rin, rout, wleft, eof>>
  BY <1>1, ChanCloseEffect
<1>3. asleep' = asleep
  BY <1>2 DEF ChanClose
<1>4. Main(k) \notin asleep
  BY <1>2 DEF Sleeps
<1>5. Writer(k) \notin asleep
  BY <1>2 DEF Sleeps, MayClose, WriterDone
<1>6. Reader(k) \notin asleep
  BY <1>2 DEF Sleeps, MayClose, ReaderDone
<1> QED BY <1>2, <1>3, <1>4, <1>5, <1>6, SleepsKept

\* chan_wait().
LEMMA SleepsWait ==
    ASSUME Local, Sleeps, NEW k \in Sides, ChanWait(k)
    PROVE  Sleeps'
<1>1. TypeOK
  BY DEF Local
<1>2. /\ mpc[k] = "drain"
      /\ \A j \in Sides : j # k => mpc'[j] = mpc[j]
      /\ UNCHANGED <<state, sin, sout, rin, rout, wleft, eof>>
  BY <1>1, ChanWaitEffect
<1>3. /\ Main(k) \notin asleep
      /\ \/ /\ state[k] # "CLOSED"
            /\ asleep' = asleep \cup {Main(k)} /\ mpc' = mpc
         \/ asleep' = asleep
  BY DEF ChanWait, Ready
<1>4. Reader(k) \notin asleep /\ Writer(k) \notin asleep
  BY <1>2 DEF Sleeps
<1>5. \A j \in Sides :
        /\ Reader(j) # Main(k) /\ Writer(j) # Main(k)
        /\ j # k => Main(j) # Main(k)
  BY ThreadNames
<1>6. /\ \A j \in Sides : /\ Reader(j) \in asleep' => Reader(j) \in asleep
                          /\ Writer(j) \in asleep' => Writer(j) \in asleep
                          /\ j # k => (Main(j) \in asleep' => Main(j) \in asleep)
      /\ Main(k) \in asleep' => mpc'[k] = "drain" /\ state[k] # "CLOSED"
  BY <1>2, <1>3, <1>5
<1> QED BY <1>2, <1>4, <1>6, SleepsKept

\* The sender thread: the bytes of a data packet make room for the writer.
LEMMA SleepsSender ==
    ASSUME Local, Sleeps, NEW e \in Ends, SenderStep(e)
    PROVE  Sleeps'
<1>1. TypeOK
  BY DEF Local
<1>2. CASE ScanFinds(e) \/ ScanFindsNothing(e) \/ BuildPacket(e) \/ WritePacket(e)
  <2>1. UNCHANGED <<asleep, mpc, state, wleft, sin, sout, rin, rout, eof>>
    BY <1>2 DEF ScanFinds, ScanFindsNothing, BuildPacket, WritePacket, chanVars,
       bufVars, appVars
  <2> QED BY <2>1, SleepsRest
<1>3. CASE PostData(e)
  <2>1. PICK k : k = <<e, pkt[e].id>>
    OBVIOUS
  <2>2. pkt[e].id \in Chans
    BY <1>1, EndTypes
  <2>3. k \in Sides /\ \A j \in Sides : j[1] = e /\ pkt[e].id = j[2] <=> j = k
    BY <2>1, <2>2, SideFacts
  <2>4. \A j \in Sides : j # k => sout'[j] = sout[j]
    BY <1>1, <1>3, <2>3, PostDataEffect
  <2>5. UNCHANGED <<mpc, state, wleft, sin, rin, rout, eof>> /\ Signal(WrWaiters(k))
    BY <1>3, <2>1 DEF PostData, appVars
  <2>6. asleep' \subseteq asleep
    BY <2>5, SignalAlone
  <2>7. Writer(k) \notin asleep'
    <3>1. CASE Writer(k) \in asleep
      <4>1. mpc[k] = "opened"
        BY <2>3, <3>1 DEF Sleeps
      <4>2. WrWaiters(k) = {Writer(k)}
        BY <3>1, <4>1 DEF WrWaiters
      <4> QED BY <2>5, <4>2, SignalAlone
    <3>2. CASE Writer(k) \notin asleep
      BY <2>6, <3>2
    <3> QED BY <3>1, <3>2
  <2>8. Reader(k) \in asleep' =>
          /\ mpc'[k] = "opened" /\ rin'[k] - rout'[k] = 0
          /\ state'[k] = "ESTABLISHED"
          /\ IF k[1] = "client" THEN rout'[k] # Total[Remote(k)] ELSE ~eof'[k]
    BY <2>3, <2>5, <2>6 DEF Sleeps, RecvCount
  <2>9. Main(k) \in asleep' =>
          \/ mpc'[k] = "await" /\ state'[k] \in {"LISTENING", "CONNECTING"}
          \/ mpc'[k] = "drain" /\ state'[k] # "CLOSED"
    BY <2>3, <2>5, <2>6 DEF Sleeps
  <2> QED BY <2>3, <2>4, <2>5, <2>6, <2>7, <2>8, <2>9, SleepsKept
<1> QED BY <1>2, <1>3 DEF SenderStep

\* The answers of receiver_loop() to MUX_CONNECT and to MUX_ACCEPT wake up the
\* main thread, which waits on another condition variable in each case.
LEMMA SleepsOpened ==
    ASSUME Local, Sleeps, NEW e \in Ends, ReceiveConnect(e) \/ ReceiveAccept(e)
    PROVE  Sleeps'
<1>1. TypeOK /\ MainKnows
  BY DEF Local
<1>2. PICK p, k : p = Head(net[Peer(e)]) /\ k = <<e, p.id>>
  OBVIOUS
<1>3. /\ k \in Sides /\ \A j \in Sides : j # k => state'[j] = state[j]
      /\ state[k] \notin {"LISTENING", "CONNECTING"} => state'[k] = state[k]
  BY <1>1, <1>2, ReceiveConnectEffect, ReceiveAcceptEffect
<1>4. UNCHANGED <<mpc, wleft, sin, sout, rin, rout, eof>> /\ asleep' \subseteq asleep
  BY <1>2 DEF ReceiveConnect, ReceiveAccept, bufVars, appVars, Signal
<1>5. CASE state'[k] = state[k]
  <2>1. state' = state
    <3>1. \A j \in Sides : state'[j] = state[j]
      BY <1>3, <1>5
    <3>2. state \in [Sides -> States] /\ (state' = state \/ \E s : state' = [state EXCEPT ![k] = s])
      BY <1>1, <1>2 DEF TypeOK, ReceiveConnect, ReceiveAccept
    <3> QED BY <3>1, <3>2
  <2> QED BY <1>4, <2>1, SleepsRest
<1>6. CASE state'[k] # state[k]
  <2>1. state[k] \in {"LISTENING", "CONNECTING"}
    BY <1>3, <1>6
  <2>2. mpc[k] \in {"await", "failed"}
    <3>1. mpc[k] \in {"open", "await", "opened", "failed", "drain", "done"}
      BY <1>1, <1>3 DEF TypeOK
    <3>2. mpc[k] # "open" /\ mpc[k] # "opened" /\ mpc[k] \notin {"drain", "done"}
      BY <1>1, <1>3, <2>1 DEF MainKnows, Shut
    <3> QED BY <3>1, <3>2
  <2>3. Reader(k) \notin asleep /\ Writer(k) \notin asleep
    BY <1>3, <2>2 DEF Sleeps
  <2>4. Main(k) \notin asleep'
    <3>1. CASE Main(k) \in asleep
      <4>1. mpc[k] = "await"
        BY <1>3, <2>2, <3>1 DEF Sleeps
      <4>2. CASE ReceiveConnect(e)
        <5>1. state[k] = "LISTENING" /\ Signal(RdWaiters(k))
          BY <1>2, <1>6, <4>2 DEF ReceiveConnect
        <5>2. RdWaiters(k) = {Main(k)}
          BY <1>1, <1>3, <2>3, <3>1, <4>1, <5>1 DEF RdWaiters, MainKnows
        <5> QED BY <5>1, <5>2, SignalAlone
      <4>3. CASE ReceiveAccept(e)
        <5>1. state[k] = "CONNECTING" /\ Signal(WrWaiters(k))
          BY <1>2, <1>6, <4>3 DEF ReceiveAccept
        <5>2. WrWaiters(k) = {Main(k)}
          BY <1>1, <1>3, <2>3, <3>1, <4>1, <5>1 DEF WrWaiters, MainKnows
        <5> QED BY <5>1, <5>2, SignalAlone
      <4> QED BY <4>2, <4>3
    <3>2. CASE Main(k) \notin asleep
      BY <1>4, <3>2
    <3> QED BY <3>1, <3>2
  <2> QED BY <1>3, <1>4, <2>3, <2>4, SleepsKept
<1> QED BY <1>5, <1>6

\* A payload in the receive buffer wakes up the reader.
LEMMA SleepsPayload ==
    ASSUME Local, Sleeps, NEW e \in Ends, PayloadRead(e)
    PROVE  Sleeps'
<1>1. TypeOK
  BY DEF Local
<1>2. PICK k : k = <<e, vpkt[e].id>>
  OBVIOUS
<1>3. vpkt[e].id \in Chans
  BY <1>1, EndTypes
<1>4. k \in Sides /\ \A j \in Sides : j[1] = e /\ vpkt[e].id = j[2] <=> j = k
  BY <1>2, <1>3, SideFacts
<1>5. \A j \in Sides : j # k => rin'[j] = rin[j]
  BY <1>1, <1>4, PayloadReadEffect
<1>6. UNCHANGED <<mpc, state, wleft, sin, sout, rout, eof>> /\ Signal(RdWaiters(k))
  BY <1>2 DEF PayloadRead, chanVars, appVars
<1>7. asleep' \subseteq asleep
  BY <1>6, SignalAlone
<1>8. Reader(k) \notin asleep'
  <2>1. CASE Reader(k) \in asleep
    <3>1. mpc[k] = "opened" /\ Main(k) \notin asleep
      BY <1>4, <2>1 DEF Sleeps
    <3>2. RdWaiters(k) = {Reader(k)}
      BY <2>1, <3>1 DEF RdWaiters
    <3> QED BY <1>6, <3>2, SignalAlone
  <2>2. CASE Reader(k) \notin asleep
    BY <1>7, <2>2
  <2> QED BY <2>1, <2>2
<1>9. Writer(k) \in asleep' =>
        /\ mpc'[k] = "opened" /\ SBSize - (sin'[k] - sout'[k]) = 0
        /\ wleft'[k] # 0
  BY <1>4, <1>6, <1>7 DEF Sleeps, SendAvail, SendCount
<1>10. Main(k) \in asleep' =>
         \/ mpc'[k] = "await" /\ state'[k] \in {"LISTENING", "CONNECTING"}
         \/ mpc'[k] = "drain" /\ state'[k] # "CLOSED"
  BY <1>4, <1>6, <1>7 DEF Sleeps
<1> QED BY <1>4, <1>5, <1>6, <1>7, <1>8, <1>9, <1>10, SleepsKept

\* The close of the other end wakes up the reader, or chan_wait().
LEMMA SleepsReceiveClose ==
    ASSUME Local, Sleeps, NEW e \in Ends, ReceiveClose(e)
    PROVE  Sleeps'
<1>1. TypeOK
  BY DEF Local
<1>2. PICK p, k : p = Head(net[Peer(e)]) /\ k = <<e, p.id>>
  OBVIOUS
<1>3. k \in Sides
  BY <1>1, <1>2, ReceiveCloseEffect
<1>4. UNCHANGED <<mpc, wleft, sin, sout, rin, rout, eof>>
  BY DEF ReceiveClose, bufVars, appVars
<1>5. CASE state[k] \in {"ESTABLISHED", "WRCLOSED"}
  <2>1. /\ \A j \in Sides : j # k => state'[j] = state[j]
        /\ state[k] = "ESTABLISHED" => state'[k] = "RDCLOSED"
        /\ state[k] = "WRCLOSED" => state'[k] = "CLOSED"
    BY <1>1, <1>2, <1>5, ReceiveCloseEffect
  <2>2. Signal(RdWaiters(k))
    BY <1>2, <1>5 DEF ReceiveClose
  <2>3. asleep' \subseteq asleep
    BY <2>2, SignalAlone
  <2>4. Reader(k) \notin asleep'
    <3>1. CASE Reader(k) \in asleep
      <4>1. mpc[k] = "opened" /\ Main(k) \notin asleep
        BY <1>3, <3>1 DEF Sleeps
      <4>2. RdWaiters(k) = {Reader(k)}
        BY <3>1, <4>1 DEF RdWaiters
      <4> QED BY <2>2, <4>2, SignalAlone
    <3>2. CASE Reader(k) \notin asleep
      BY <2>3, <3>2
    <3> QED BY <3>1, <3>2
  <2>5. Main(k) \notin asleep'
    <3>1. CASE Main(k) \in asleep
      <4>1. mpc[k] = "drain"
        BY <1>3, <1>5, <3>1 DEF Sleeps
      <4>2. Reader(k) \notin asleep
        BY <1>3, <4>1 DEF Sleeps
      <4>3. RdWaiters(k) = {Main(k)}
        BY <3>1, <4>1, <4>2 DEF RdWaiters
      <4> QED BY <2>2, <4>3, SignalAlone
    <3>2. CASE Main(k) \notin asleep
      BY <2>3, <3>2
    <3> QED BY <3>1, <3>2
  <2>6. Writer(k) \in asleep' =>
          /\ mpc'[k] = "opened" /\ SBSize - (sin'[k] - sout'[k]) = 0
          /\ wleft'[k] # 0
    BY <1>3, <1>4, <2>3 DEF Sleeps, SendAvail, SendCount
  <2> QED BY <1>3, <1>4, <2>1, <2>3, <2>4, <2>5, <2>6, SleepsKept
<1>6. CASE state[k] \notin {"ESTABLISHED", "WRCLOSED"}
  <2>1. UNCHANGED <<state, asleep>>
    BY <1>2, <1>6 DEF ReceiveClose
  <2> QED BY <1>4, <2>1, SleepsRest
<1> QED BY <1>5, <1>6

\* Sleeps holds after every step.
LEMMA SleepsStep ==
    ASSUME Local, Sleeps, [Next]_vars
    PROVE  Sleeps'
<1>1. CASE UNCHANGED vars \/ Finished
  <2>1. UNCHANGED <<asleep, mpc, state, wleft, sin, sout, rin, rout, eof>>
    BY <1>1 DEF Finished, vars, chanVars, bufVars, appVars
  <2> QED BY <2>1, SleepsRest
<1>2. ASSUME NEW k \in Sides, AppStep(k)
      PROVE  Sleeps'
  BY <1>2, SleepsOpen, SleepsWrite, SleepsRead, SleepsClose, SleepsWait DEF AppStep
<1>3. CASE (\E a \in Callers : WakeupStep(a)) \/ SpuriousStep
  <2>1. /\ asleep' \subseteq asleep
        /\ UNCHANGED <<mpc, state, wleft, sin, sout, rin, rout, eof>>
    BY <1>3 DEF WakeupStep, WakeupRead, WakeupSignal, SpuriousStep, SpuriousWakeup,
       SenderSpuriousWakeup, chanVars, bufVars, appVars
  <2> QED BY <2>1, SleepsRest
<1>4. ASSUME NEW e \in Ends, SenderStep(e)
      PROVE  Sleeps'
  BY <1>4, SleepsSender
<1>5. ASSUME NEW e \in Ends, ReceiverStep(e)
      PROVE  Sleeps'
  <2>1. CASE ReceiveWindow(e) \/ ReceiveData(e)
    <3>1. UNCHANGED <<asleep, mpc, state, wleft, sin, sout, rin, rout, eof>>
      BY <2>1 DEF ReceiveWindow, ReceiveData, chanVars, bufVars, appVars
    <3> QED BY <3>1, SleepsRest
  <2> QED BY <1>5, <2>1, SleepsOpened, SleepsPayload, SleepsReceiveClose DEF ReceiverStep
<1> QED BY <1>1, <1>2, <1>3, <1>4, <1>5 DEF Next

\* Threads sleep for a reason in every behaviour.
LEMMA SleepsAlways == Spec => []Sleeps
<1>1. Init => Sleeps
  BY DEF Init, Sleeps
<1>2. Local /\ Sleeps /\ [Next]_vars => Sleeps'
  BY SleepsStep
<1> QED BY <1>1, <1>2, LocalAlways, PTL DEF Spec

\* No thread sleeps on a condition variable of a channel past the moment its
\* condition became true, although mux.c signals one thread only.
THEOREM NobodyOversleeps == Spec => []NoMissedSignal
<1>1. Local /\ Sleeps => NoMissedSignal
  <2> SUFFICES ASSUME Local, Sleeps PROVE NoMissedSignal
    OBVIOUS
  <2>1. ASSUME NEW k \in Sides, Writer(k) \in asleep
        PROVE  state[k] \in {"ESTABLISHED", "RDCLOSED"}
    <3>1. mpc[k] = "opened" /\ MainKnows
      BY <2>1 DEF Sleeps, Local
    <3> QED BY <3>1 DEF MainKnows
  <2> QED BY <2>1 DEF Sleeps, NoMissedSignal
<1> QED BY <1>1, LocalAlways, SleepsAlways, PTL

-----------------------------------------------------------------------------
(* The sender thread, when it sleeps *)

\* How many channels a scan that has come to channel s looked at since it
\* looked at channel c.
Since(s, c) == IF c <= s THEN s - c ELSE s + NChan - c

\* A scan holds the multiplexer lock from its first channel to its last.  If
\* there is work on a channel it has passed, or on any channel when the thread
\* sleeps, the thread that made that work has not come to its signal yet.
EndScans(e) ==
    /\ left[e] \in 0..(NChan - 1)
    /\ left[e] # 0 => spc[e] = "scan"
    /\ spc[e] = "wait" => waiting[e]
    /\ \A c \in Chans : Work(<<e, c>>) # {} =>
         /\ spc[e] = "wait" =>
              \E a \in Callers : a[1] = e /\ wake[a] # "no"
         /\ left[e] # 0 /\ Since(sid[e], c) < NChan - left[e] =>
              \E a \in Callers : a[1] = e /\ wake[a] = "lock"
Scans == \A e \in Ends : EndScans(e)

\* One turn of the scan.
LEMMA SinceNext ==
    ASSUME NEW s \in Chans, NEW c \in Chans
    PROVE  /\ Since(s, c) \in 0..(NChan - 1)
           /\ c # NextChan(s) => Since(NextChan(s), c) = Since(s, c) + 1
BY MuxAssumption DEF Since, NextChan, Chans

\* Work depends on the variables of the channel, and on the end of the send
\* buffer.
LEMMA WorkSame ==
    ASSUME NEW k \in Sides, state'[k] = "UNUSED" <=> state[k] = "UNUSED",
           flags'[k] = flags[k], sendseq'[k] = sendseq[k], sendwin'[k] = sendwin[k],
           sin'[k] = sin[k], sout'[k] = sout[k]
    PROVE  Work(k)' = Work(k)
BY DEF Work, SendCount

\* sender_wakeup() is called, or not.
LEMMA CallFacts ==
    ASSUME TypeOK, NEW a \in Callers, CallWakeup(a) \/ UNCHANGED wake
    PROVE  /\ \A b \in Callers : /\ wake[b] = "lock" => wake'[b] = "lock"
                                 /\ wake[b] # "no" => wake'[b] # "no"
           /\ CallWakeup(a) => wake'[a] = "lock"
<1>1. wake \in [Callers -> {"no", "lock", "signal"}]
  BY DEF TypeOK
<1> QED BY <1>1 DEF CallWakeup

\* The sender thread of this end does nothing, and new work is announced.
LEMMA EndKept ==
    ASSUME NEW e \in Ends, EndScans(e),
           spc'[e] = spc[e], left'[e] = left[e], waiting'[e] = waiting[e],
           sid'[e] = sid[e],
           \A c \in Chans : \/ Work(<<e, c>>)' = Work(<<e, c>>)
                            \/ \E a \in Callers : a[1] = e /\ wake'[a] = "lock",
           \A a \in Callers : a[1] = e =>
             /\ wake[a] = "lock" => wake'[a] = "lock"
             /\ wake[a] # "no" => wake'[a] # "no"
    PROVE  EndScans(e)'
<1>1. ASSUME NEW c \in Chans, Work(<<e, c>>)' # {}
      PROVE  /\ spc[e] = "wait" =>
                  \E a \in Callers : a[1] = e /\ wake'[a] # "no"
             /\ left[e] # 0 /\ Since(sid[e], c) < NChan - left[e] =>
                  \E a \in Callers : a[1] = e /\ wake'[a] = "lock"
  <2>1. CASE Work(<<e, c>>)' = Work(<<e, c>>)
    BY <1>1, <2>1 DEF EndScans
  <2>2. CASE \E a \in Callers : a[1] = e /\ wake'[a] = "lock"
    BY <2>2
  <2> QED BY <2>1, <2>2
<1> QED BY <1>1 DEF EndScans, Since

\* The sender threads do nothing, and work is made on one channel at most.
LEMMA ScansKept ==
    ASSUME TypeOK, Scans, UNCHANGED <<spc, left, waiting, sid>>,
           NEW k \in Sides, NEW a \in Callers, a[1] = k[1],
           CallWakeup(a) \/ UNCHANGED wake,
           \A j \in Sides : j # k => Work(j)' = Work(j),
           Work(k)' = Work(k) \/ CallWakeup(a)
    PROVE  Scans'
<1> SUFFICES ASSUME NEW e \in Ends PROVE EndScans(e)'
  BY DEF Scans
<1>1. \A b \in Callers : /\ wake[b] = "lock" => wake'[b] = "lock"
                         /\ wake[b] # "no" => wake'[b] # "no"
  BY CallFacts
<1>2. ASSUME NEW c \in Chans
      PROVE  \/ Work(<<e, c>>)' = Work(<<e, c>>)
             \/ \E b \in Callers : b[1] = e /\ wake'[b] = "lock"
  <2>1. PICK j \in Sides : j = <<e, c>> /\ j[1] = e
    BY ZenonT(40), SideFacts
  <2>2. CASE j = k /\ CallWakeup(a)
    BY <2>1, <2>2, CallFacts
  <2>3. CASE Work(j)' = Work(j)
    BY <2>1, <2>3
  <2> QED BY <2>2, <2>3
<1>3. EndScans(e)
  BY DEF Scans
<1> QED BY <1>1, <1>2, <1>3, EndKept

\* The main thread.
LEMMA ScansMain ==
    ASSUME Local, Cross, Scans, NEW k \in Sides,
           Open(k) \/ AwaitOpen(k) \/ ChanClose(k) \/ ChanWait(k)
    PROVE  Scans'
<1>1. TypeOK /\ MainKnows /\ NothingYet /\ SendHolds /\ Tokens
  BY DEF Local, Cross
<1>2. Main(k) \in Callers /\ Main(k)[1] = k[1]
  BY ThreadFacts, ThreadNames
<1>3. UNCHANGED <<spc, left, waiting, sid>>
  BY DEF Open, AwaitOpen, ChanClose, ChanWait, senderVars
<1>4. CASE Open(k)
  <2>1. /\ state[k] = "UNUSED" /\ UNCHANGED <<sendseq, sendwin, sin, sout>>
        /\ \A j \in Sides : j # k => state'[j] = state[j] /\ flags'[j] = flags[j]
    BY <1>1, <1>4, OpenEffect
  <2>2. \A j \in Sides : j # k => Work(j)' = Work(j)
    BY <2>1, WorkSame
  <2>3. CASE Opener(k[2]) = k[1]
    <3>1. CallWakeup(Main(k))
      BY <1>4, <2>3 DEF Open
    <3> QED BY <1>1, <1>2, <1>3, <2>2, <3>1, ScansKept
  <2>4. CASE Opener(k[2]) # k[1]
    <3>1. flags' = flags /\ wake' = wake
      BY <1>4, <2>4 DEF Open
    <3>2. flags[k] = {} /\ sendseq[k] = 0 /\ sendwin[k] = 0
      <4>1. ~Opened(k) /\ state[k] # "CONNECTING"
        BY <2>1 DEF Opened
      <4> QED BY <1>1, <4>1, NothingOwed DEF NothingYet
    <3>3. Work(k)' = {} /\ Work(k) = {}
      BY <2>1, <3>1, <3>2 DEF Work
    <3> QED BY <1>1, <1>2, <1>3, <2>2, <3>1, <3>3, ScansKept
  <2> QED BY <2>3, <2>4
<1>5. CASE AwaitOpen(k) \/ ChanWait(k)
  <2>1. UNCHANGED <<wake, state, flags, sendseq, sendwin, sin, sout>>
    BY <1>5 DEF AwaitOpen, ChanWait, chanVars, bufVars
  <2>2. \A j \in Sides : Work(j)' = Work(j)
    BY <2>1, WorkSame
  <2> QED BY <1>1, <1>2, <1>3, <2>1, <2>2, ScansKept
<1>6. CASE ChanClose(k)
  <2>1. /\ state[k] \in {"ESTABLISHED", "RDCLOSED"}
        /\ UNCHANGED <<sendseq, sendwin, sin, sout>>
        /\ \A j \in Sides : j # k => state'[j] = state[j] /\ flags'[j] = flags[j]
    BY <1>1, <1>6, ChanCloseEffect
  <2>2. \A j \in Sides : j # k => Work(j)' = Work(j)
    BY <2>1, WorkSame
  <2>3. CallWakeup(Main(k))
    BY <1>6, <2>1 DEF ChanClose
  <2> QED BY <1>1, <1>2, <1>3, <2>2, <2>3, ScansKept
<1> QED BY <1>4, <1>5, <1>6

\* chan_write() sleeps without a wakeup: only while the buffer was not empty.
LEMMA ScansWrite ==
    ASSUME Local, Scans, NEW k \in Sides, NEW n \in 1..SBSize, ChanWrite(k, n)
    PROVE  Scans'
<1>1. TypeOK /\ SendHolds
  BY DEF Local
<1>2. Writer(k) \in Callers /\ Writer(k)[1] = k[1]
  BY ThreadFacts, ThreadNames
<1>3. UNCHANGED <<spc, left, waiting, sid>>
  BY DEF ChanWrite, senderVars
<1>4. PICK put \in Int :
             /\ put = Min2(n, SendAvail(k))
             /\ \A j \in Sides : sin'[j] = IF j = k THEN sin[j] + put ELSE sin[j]
             /\ UNCHANGED <<state, flags, sendseq, sendwin, sout>>
  BY <1>1, ChanWriteEffect
<1>5. \A j \in Sides : j # k => Work(j)' = Work(j)
  BY <1>4, WorkSame
<1>6. CASE put = n
  <2>1. CallWakeup(Writer(k))
    BY <1>4, <1>6 DEF ChanWrite
  <2> QED BY <1>1, <1>2, <1>3, <1>5, <2>1, ScansKept
<1>7. CASE put # n
  <2>1. sin[k] \in Nat /\ sout[k] \in Nat /\ sout[k] <= sin[k]
    BY <1>1, SideTypes DEF SendHolds
  <2>2. SendCount(k) > 0 /\ sin'[k] - sout'[k] > 0
    <3>1. put = SBSize - (sin[k] - sout[k]) /\ ~(n <= put)
      BY <1>4, <1>7 DEF Min2, SendAvail, SendCount
    <3>2. sin'[k] = sin[k] + put /\ sout'[k] = sout[k]
      BY <1>4
    <3>3. n <= SBSize /\ n \in Nat /\ SBSize \in Nat \ {0}
      BY MuxAssumption
    <3> QED BY <1>4, <2>1, <3>1, <3>2, <3>3 DEF SendCount
  <2>3. Work(k)' = Work(k)
    BY <1>4, <2>2 DEF Work, SendCount
  <2>4. UNCHANGED wake
    BY <1>4, <1>7 DEF ChanWrite
  <2> QED BY <1>1, <1>2, <1>3, <1>5, <2>3, <2>4, ScansKept
<1> QED BY <1>6, <1>7

\* chan_read() asks for a window packet.
LEMMA ScansRead ==
    ASSUME Local, Scans, NEW k \in Sides, NEW size \in ReadSizes, ChanRead(k, size)
    PROVE  Scans'
<1>1. TypeOK
  BY DEF Local
<1>2. Reader(k) \in Callers /\ Reader(k)[1] = k[1]
  BY ThreadFacts, ThreadNames
<1>3. UNCHANGED <<spc, left, waiting, sid, state, sendseq, sendwin, sin, sout>>
  BY DEF ChanRead, senderVars
<1>4. \A j \in Sides : j # k => flags'[j] = flags[j]
  BY <1>1, ChanReadEffect
<1>5. CallWakeup(Reader(k)) \/ (UNCHANGED wake /\ UNCHANGED flags)
  BY DEF ChanRead
<1>6. \A j \in Sides : j # k => Work(j)' = Work(j)
  BY <1>3, <1>4, WorkSame
<1>7. UNCHANGED flags => Work(k)' = Work(k)
  BY <1>3, WorkSame
<1> QED BY <1>1, <1>2, <1>3, <1>5, <1>6, <1>7, ScansKept

\* The receiver thread: what it changes, it announces; but for MUX_ACCEPT, which
\* finds the send buffer empty.
LEMMA ScansReceiver ==
    ASSUME Local, Scans, NEW e \in Ends, ReceiverStep(e)
    PROVE  Scans'
<1>1. TypeOK /\ NothingYet /\ SendHolds
  BY DEF Local
<1>2. Receiver(e) \in Callers /\ Receiver(e)[1] = e /\ <<e, 0>> \in Sides /\ <<e, 0>>[1] = e
  <2>1. 0 \in Chans
    BY MuxAssumption DEF Chans
  <2> QED BY <2>1, SideFacts, ThreadFacts DEF Receiver
<1>3. UNCHANGED <<spc, left, waiting, sid, sendseq, sin, sout>>
  BY DEF ReceiverStep, ReceiveConnect, ReceiveAccept, ReceiveWindow, ReceiveData,
     PayloadRead, ReceiveClose, chanVars, bufVars, senderVars
<1>4. CASE ReceiveData(e) \/ PayloadRead(e)
  <2>1. UNCHANGED <<wake, state, flags, sendwin>>
    BY <1>4 DEF ReceiveData, PayloadRead, chanVars
  <2>2. \A j \in Sides : Work(j)' = Work(j)
    BY <1>3, <2>1, WorkSame
  <2> QED BY <1>1, <1>2, <1>3, <2>1, <2>2, ScansKept
<1> SUFFICES ASSUME NEW p, p = Head(net[Peer(e)]), NEW k, k = <<e, p.id>>,
                    ~(ReceiveData(e) \/ PayloadRead(e))
             PROVE  Scans'
  BY <1>4
<1>5. CASE ReceiveConnect(e)
  <2>1. k \in Sides /\ k[1] = e
    BY <1>1, <1>5, ReceiveConnectEffect
  <2>2. \A j \in Sides : j # k =>
          state'[j] = state[j] /\ flags'[j] = flags[j] /\ sendwin'[j] = sendwin[j]
    BY <1>1, <1>5, ReceiveConnectEffect
  <2>3. \A j \in Sides : j # k => Work(j)' = Work(j)
    BY <1>3, <2>2, WorkSame
  <2>4. CallWakeup(Receiver(e))
    BY <1>5 DEF ReceiveConnect
  <2> QED BY <1>1, <1>2, <1>3, <2>1, <2>3, <2>4, ScansKept
<1>6. CASE ReceiveAccept(e)
  <2>1. k \in Sides /\ k[1] = e
    BY <1>1, <1>6, ReceiveAcceptEffect
  <2>2. \A j \in Sides : j # k =>
          state'[j] = state[j] /\ flags'[j] = flags[j] /\ sendwin'[j] = sendwin[j]
    BY <1>1, <1>6, ReceiveAcceptEffect
  <2>3. \A j \in Sides : j # k => Work(j)' = Work(j)
    BY <1>3, <2>2, WorkSame
  <2>4. CASE state[k] = "CONNECTING"
    <3>1. state'[k] = "ESTABLISHED" /\ flags'[k] = flags[k]
      BY <1>1, <1>6, <2>4, ReceiveAcceptEffect
    <3>2. UNCHANGED wake
      BY <1>6, <2>4 DEF ReceiveAccept
    <3>3. sin[k] - sout[k] = 0
      <4>1. sin[k] = 0
        BY <1>1, <2>1, <2>4 DEF NothingYet, Opened
      <4>2. sout[k] \in Nat /\ sout[k] <= sin[k]
        BY <1>1, <2>1, SideTypes DEF SendHolds
      <4> QED BY <4>1, <4>2
    <3>4. Work(k)' = Work(k)
      BY <1>3, <2>4, <3>1, <3>3 DEF Work, SendCount
    <3> QED BY <1>1, <1>2, <1>3, <2>1, <2>3, <3>2, <3>4, ScansKept
  <2>5. CASE state[k] # "CONNECTING"
    <3>1. CallWakeup(Receiver(e))
      BY <1>6, <2>5 DEF ReceiveAccept
    <3> QED BY <1>1, <1>2, <1>3, <2>1, <2>3, <3>1, ScansKept
  <2> QED BY <2>4, <2>5
<1>7. CASE ReceiveWindow(e)
  <2>1. k \in Sides /\ k[1] = e
    BY <1>1, <1>7, ReceiveWindowEffect
  <2>2. UNCHANGED <<state, flags>> /\ \A j \in Sides : j # k => sendwin'[j] = sendwin[j]
    BY <1>1, <1>7, ReceiveWindowEffect
  <2>3. \A j \in Sides : j # k => Work(j)' = Work(j)
    BY <1>3, <2>2, WorkSame
  <2>4. CallWakeup(Receiver(e)) \/ (UNCHANGED wake /\ UNCHANGED sendwin)
    BY <1>7 DEF ReceiveWindow
  <2>5. UNCHANGED sendwin => Work(k)' = Work(k)
    BY <1>3, <2>1, <2>2, WorkSame
  <2> QED BY <1>1, <1>2, <1>3, <2>1, <2>3, <2>4, <2>5, ScansKept
<1>8. CASE ReceiveClose(e)
  <2>1. k \in Sides /\ \A j \in Sides : state'[j] = "UNUSED" <=> state[j] = "UNUSED"
    BY <1>1, <1>8, ReceiveCloseEffect
  <2>2. UNCHANGED <<wake, flags, sendwin>>
    BY <1>8 DEF ReceiveClose
  <2>3. \A j \in Sides : Work(j)' = Work(j)
    BY <1>3, <2>1, <2>2, WorkSame
  <2> QED BY <1>1, <1>2, <1>3, <2>2, <2>3, ScansKept
<1> QED BY <1>5, <1>6, <1>7, <1>8 DEF ReceiverStep

\* Only one end takes a step.
LEMMA ScansOther ==
    ASSUME Scans, NEW e \in Ends, EndScans(e)',
           \A d \in Ends : d # e =>
             spc'[d] = spc[d] /\ left'[d] = left[d] /\ waiting'[d] = waiting[d]
             /\ sid'[d] = sid[d],
           \A a \in Callers : a[1] # e => wake'[a] = wake[a],
           \A j \in Sides : j[1] # e => Work(j)' = Work(j)
    PROVE  Scans'
<1> SUFFICES ASSUME NEW d \in Ends, d # e PROVE EndScans(d)'
  BY DEF Scans
<1>1. EndScans(d)
  BY DEF Scans
<1>2. \A c \in Chans : Work(<<d, c>>)' = Work(<<d, c>>)
  <2> SUFFICES ASSUME NEW c \in Chans PROVE Work(<<d, c>>)' = Work(<<d, c>>)
    OBVIOUS
  <2>1. PICK j \in Sides : j = <<d, c>> /\ j[1] = d
    BY SideFacts
  <2> QED BY <2>1
<1> QED BY <1>1, <1>2, EndKept

\* The scan finds nothing on one more channel.
LEMMA ScansNothing ==
    ASSUME Local, Scans, NEW e \in Ends, ScanFindsNothing(e)
    PROVE  Scans'
<1>1. /\ sid \in [Ends -> Chans] /\ left \in [Ends -> 0..NChan]
      /\ waiting \in [Ends -> BOOLEAN]
      /\ \E S : spc \in [Ends -> S]
  BY DEF Local, TypeOK
<1> DEFINE n == NextChan(sid[e])
           more == (IF left[e] = 0 THEN NChan ELSE left[e]) - 1
<1>2. n \in Chans /\ sid[e] \in Chans
  BY <1>1, NextChanType
<1>3. /\ spc[e] = "scan" /\ Work(<<e, n>>) = {}
      /\ sid' = [sid EXCEPT ![e] = n]
      /\ left' = [left EXCEPT ![e] = more]
      /\ IF more = 0
         THEN /\ spc' = [spc EXCEPT ![e] = "wait"]
              /\ waiting' = [waiting EXCEPT ![e] = TRUE]
         ELSE UNCHANGED <<spc, waiting>>
      /\ UNCHANGED <<wake, state, flags, sendseq, sendwin, sin, sout>>
  BY DEF ScanFindsNothing, chanVars, bufVars
<1>4. EndScans(e)
  BY DEF Scans
<1>5. left[e] \in 0..(NChan - 1)
  BY <1>4 DEF EndScans
<1>6. more \in 0..(NChan - 1) /\ (left[e] # 0 => more = left[e] - 1)
      /\ (left[e] = 0 => more = NChan - 1)
  BY <1>5, MuxAssumption
<1> HIDE DEF n, more
<1>7. /\ sid'[e] = n /\ left'[e] = more
      /\ more = 0 => spc'[e] = "wait" /\ waiting'[e]
      /\ more # 0 => spc'[e] = "scan"
  BY <1>1, <1>3
<1>8. \A d \in Ends : d # e =>
        spc'[d] = spc[d] /\ left'[d] = left[d] /\ waiting'[d] = waiting[d]
        /\ sid'[d] = sid[d]
  BY <1>1, <1>3
<1>9. \A j \in Sides : Work(j)' = Work(j)
  BY <1>3, WorkSame
<1>10. ASSUME NEW c \in Chans, Work(<<e, c>>)' # {}
       PROVE  /\ spc'[e] = "wait" =>
                   \E a \in Callers : a[1] = e /\ wake'[a] # "no"
              /\ left'[e] # 0 /\ Since(sid'[e], c) < NChan - left'[e] =>
                   \E a \in Callers : a[1] = e /\ wake'[a] = "lock"
  <2>1. <<e, c>> \in Sides
    BY SideFacts
  <2>2. Work(<<e, c>>) # {} /\ c # n
    BY <1>3, <1>9, <1>10, <2>1
  <2>3. /\ Since(sid[e], c) \in 0..(NChan - 1)
        /\ Since(n, c) = Since(sid[e], c) + 1 /\ Since(n, c) \in 0..(NChan - 1)
    BY <1>2, <2>2, SinceNext DEF n
  <2>4. ASSUME spc'[e] = "wait" \/ (left'[e] # 0 /\ Since(sid'[e], c) < NChan - left'[e])
        PROVE  \E a \in Callers : a[1] = e /\ wake[a] = "lock"
    <3>1. more = 0 \/ Since(n, c) < NChan - more
      BY <1>7, <2>4
    <3>2. left[e] # 0 /\ Since(sid[e], c) < NChan - left[e]
      BY <1>5, <1>6, <2>3, <3>1, MuxAssumption
    <3> QED BY <1>4, <2>2, <3>2 DEF EndScans
  <2>5. wake' = wake
    BY <1>3
  <2> QED BY <2>4, <2>5
<1>11. EndScans(e)'
  BY <1>6, <1>7, <1>10 DEF EndScans, Since
<1>12. \A a \in Callers : wake'[a] = wake[a]
  BY <1>3
<1> QED BY <1>8, <1>9, <1>11, <1>12, ScansOther

\* The other steps of the sender thread: it neither sleeps nor scans.
LEMMA ScansSender ==
    ASSUME Local, Scans, NEW e \in Ends,
           ScanFinds(e) \/ BuildPacket(e) \/ WritePacket(e) \/ PostData(e)
    PROVE  Scans'
<1>1. /\ sid \in [Ends -> Chans] /\ left \in [Ends -> 0..NChan]
      /\ waiting \in [Ends -> BOOLEAN]
      /\ \E S : spc \in [Ends -> S]
      /\ TypeOK
  BY DEF Local, TypeOK
<1>2. EndScans(e)
  BY DEF Scans
<1>3. left'[e] = 0 /\ spc'[e] # "wait"
  BY <1>1, <1>2 DEF ScanFinds, BuildPacket, WritePacket, PostData, EndScans
<1>4. \A d \in Ends : d # e =>
        spc'[d] = spc[d] /\ left'[d] = left[d] /\ waiting'[d] = waiting[d]
        /\ sid'[d] = sid[d]
  BY <1>1 DEF ScanFinds, BuildPacket, WritePacket, PostData
<1>5. UNCHANGED <<wake, state, sendwin, sin>>
  BY DEF ScanFinds, BuildPacket, WritePacket, PostData, chanVars, bufVars
<1>6. \A j \in Sides : j[1] # e =>
        flags'[j] = flags[j] /\ sendseq'[j] = sendseq[j] /\ sout'[j] = sout[j]
  <2>1. CASE ScanFinds(e)
    <3>1. /\ flags \in [Sides -> SUBSET Kinds]
          /\ \E f : flags' = [flags EXCEPT ![<<e, NextChan(sid[e])>>] = f]
      BY <1>1, <2>1 DEF ScanFinds, TypeOK
    <3>2. UNCHANGED <<sendseq, sout>>
      BY <2>1 DEF ScanFinds, bufVars
    <3> QED BY <3>1, <3>2
  <2>2. CASE BuildPacket(e) \/ WritePacket(e)
    BY <2>2 DEF BuildPacket, WritePacket, chanVars, bufVars
  <2>3. CASE PostData(e)
    <3>1. UNCHANGED flags
      BY <2>3 DEF PostData
    <3> QED BY <1>1, <2>3, <3>1, PostDataEffect
  <2> QED BY <2>1, <2>2, <2>3
<1>7. \A j \in Sides : j[1] # e => Work(j)' = Work(j)
  BY <1>5, <1>6, WorkSame
<1>8. 0 \in 0..(NChan - 1)
  BY MuxAssumption
<1>9. EndScans(e)'
  BY <1>3, <1>8 DEF EndScans
<1>10. \A a \in Callers : wake'[a] = wake[a]
  BY <1>5
<1> QED BY <1>4, <1>7, <1>9, <1>10, ScansOther

\* sender_wakeup() reads sender_waiting, under the lock, and signals.
LEMMA ScansWakeup ==
    ASSUME Local, Scans, NEW a \in Callers, WakeupStep(a)
    PROVE  Scans'
<1>1. /\ wake \in [Callers -> {"no", "lock", "signal"}]
      /\ \E S : spc \in [Ends -> S]
      /\ a[1] \in Ends
  BY DEF Local, TypeOK, Callers, Apps, Receivers
<1> DEFINE e == a[1]
<1>2. EndScans(e)
  BY <1>1 DEF Scans
<1>3. UNCHANGED <<state, flags, sendseq, sendwin, sin, sout, sid, left, waiting>>
  BY DEF WakeupStep, WakeupRead, WakeupSignal, chanVars, bufVars, senderVars
<1>4. \A j \in Sides : Work(j)' = Work(j)
  BY <1>3, WorkSame
<1>5. \A b \in Callers : b # a => wake'[b] = wake[b]
  BY <1>1 DEF WakeupStep, WakeupRead, WakeupSignal
<1>6. \A d \in Ends : d # e => spc'[d] = spc[d]
  BY <1>1 DEF WakeupStep, WakeupRead, WakeupSignal, senderVars
<1>7. EndScans(e)'
  <2>1. CASE WakeupRead(a)
    <3>1. /\ wake[a] = "lock" /\ left[e] = 0 /\ spc' = spc
          /\ wake'[a] = IF waiting[e] THEN "signal" ELSE "no"
      BY <1>1, <2>1 DEF WakeupRead, MuxFree, senderVars
    <3>2. spc[e] = "wait" => wake'[a] # "no"
      BY <1>2, <3>1 DEF EndScans
    <3> QED BY <1>2, <1>3, <3>1, <3>2 DEF EndScans
  <2>2. CASE WakeupSignal(a)
    <3>1. /\ wake[a] = "signal"
          /\ spc'[e] = IF spc[e] = "wait" THEN "scan" ELSE spc[e]
      BY <1>1, <2>2 DEF WakeupSignal
    <3>2. \A b \in Callers : wake[b] = "lock" => wake'[b] = "lock"
      BY <1>5, <3>1
    <3>3. ASSUME NEW c \in Chans, Work(<<e, c>>)' # {}, left[e] # 0,
                 Since(sid[e], c) < NChan - left[e]
          PROVE  \E b \in Callers : b[1] = e /\ wake'[b] = "lock"
      <4>1. <<e, c>> \in Sides
        BY <1>1, SideFacts
      <4>2. Work(<<e, c>>) # {}
        BY <1>4, <3>3, <4>1
      <4>3. PICK b \in Callers : b[1] = e /\ wake[b] = "lock"
        BY <1>2, <3>3, <4>2 DEF EndScans
      <4> QED BY <3>2, <4>3
    <3> QED BY <1>2, <1>3, <3>1, <3>3 DEF EndScans, Since
  <2> QED BY <2>1, <2>2 DEF WakeupStep
<1>8. \A b \in Callers : b[1] # e => wake'[b] = wake[b]
  BY <1>5
<1> QED BY <1>1, <1>3, <1>4, <1>6, <1>7, <1>8, ScansOther

\* Waking up without a signal does no harm.
LEMMA ScansSpurious ==
    ASSUME Local, Scans, SpuriousStep
    PROVE  Scans'
<1>1. \E S : spc \in [Ends -> S]
  BY DEF Local, TypeOK
<1>2. UNCHANGED <<wake, state, flags, sendseq, sendwin, sin, sout, sid, left, waiting>>
  BY DEF SpuriousStep, SpuriousWakeup, SenderSpuriousWakeup, chanVars, bufVars, senderVars
<1>3. \A d \in Ends : spc'[d] = spc[d] \/ (spc[d] = "wait" /\ spc'[d] = "scan")
  BY <1>1 DEF SpuriousStep, SpuriousWakeup, SenderSpuriousWakeup, senderVars
<1>4. \A j \in Sides : Work(j)' = Work(j)
  BY <1>2, WorkSame
<1> SUFFICES ASSUME NEW e \in Ends PROVE EndScans(e)'
  BY DEF Scans
<1>5. EndScans(e)
  BY DEF Scans
<1>6. \A c \in Chans : Work(<<e, c>>)' = Work(<<e, c>>)
  <2> SUFFICES ASSUME NEW c \in Chans PROVE Work(<<e, c>>)' = Work(<<e, c>>)
    OBVIOUS
  <2>1. <<e, c>> \in Sides
    BY SideFacts
  <2> QED BY <1>4, <2>1
<1> QED BY <1>2, <1>3, <1>5, <1>6 DEF EndScans, Since

\* ... and whatever a thread does.
LEMMA ScansNext ==
    ASSUME Local, Cross, Scans, [Next]_vars
    PROVE  Scans'
<1>1. CASE UNCHANGED vars \/ Finished
  <2>1. UNCHANGED <<wake, state, flags, sendseq, sendwin, sin, sout, spc, sid, left,
                    waiting>>
    BY <1>1 DEF Finished, vars, chanVars, bufVars, senderVars
  <2> QED BY <2>1 DEF Scans, EndScans, Work, SendCount, Since
<1>2. ASSUME NEW k \in Sides, AppStep(k)
      PROVE  Scans'
  BY <1>2, ScansMain, ScansWrite, ScansRead DEF AppStep
<1>3. ASSUME NEW e \in Ends, SenderStep(e)
      PROVE  Scans'
  BY <1>3, ScansSender, ScansNothing DEF SenderStep
<1> QED BY <1>1, <1>2, <1>3, ScansReceiver, ScansWakeup, ScansSpurious DEF Next

\* At the start there is no work.
LEMMA ScansInit == Init => Scans
<1> SUFFICES ASSUME Init, NEW e \in Ends PROVE EndScans(e)
  BY DEF Scans
<1>1. /\ left[e] = 0 /\ spc[e] = "wait" /\ waiting[e]
  BY DEF Init
<1>2. \A c \in Chans : Work(<<e, c>>) = {}
  <2> SUFFICES ASSUME NEW c \in Chans PROVE Work(<<e, c>>) = {}
    OBVIOUS
  <2>1. <<e, c>> \in Sides
    BY SideFacts
  <2>2. state[<<e, c>>] = "UNUSED"
    BY <2>1 DEF Init
  <2> QED BY <2>2 DEF Work
<1> QED BY <1>1, <1>2, MuxAssumption DEF EndScans

\* The sender thread never sleeps on work that nobody announces: "if he wasn't
\* waiting then he won't go to sleep before having sent what we want him to".
THEOREM NoWorkIsLost == Spec => []NoLostWork
<1>1. Local /\ Cross /\ Scans /\ [Next]_vars => Scans'
  BY ScansNext
<1>2. Scans => NoLostWork
  <2> SUFFICES ASSUME Scans, NEW k \in Sides, spc[k[1]] = "wait", Work(k) # {}
               PROVE  \E a \in Callers : a[1] = k[1] /\ wake[a] # "no"
    BY DEF NoLostWork
  <2>1. k[1] \in Ends /\ k[2] \in Chans /\ k = <<k[1], k[2]>>
    BY SideFacts
  <2>2. EndScans(k[1])
    BY <2>1 DEF Scans
  <2>3. Work(<<k[1], k[2]>>) # {}
    BY <2>1
  <2> QED BY <2>1, <2>2, <2>3 DEF EndScans
<1> QED BY <1>1, <1>2, ScansInit, CrossAlways, PTL DEF Spec

=============================================================================
