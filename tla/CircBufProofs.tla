--------------------------- MODULE CircBufProofs ----------------------------
(***************************************************************************)
(* Proofs about module CircBuf, for every buffer size and every size of    *)
(* the pieces moved: the unlocked I/O is safe, and no interleaving of it   *)
(* with the other thread loses, duplicates or reorders a byte.             *)
(***************************************************************************)
EXTENDS CircBuf, SequenceTheorems, TLAPS

\* The inductive invariant.  LeaseIsSafe is what keeps the slots under I/O
\* away from the other thread, and needs nothing but the types; StreamIntact
\* needs both.
IInv == TypeOK /\ LeaseIsSafe /\ StreamIntact

-----------------------------------------------------------------------------
(* Index arithmetic *)

\* Moving an index by at most one turn leaves it inside the array.
LEMMA AdvanceType ==
    ASSUME NEW i \in 0..Size, NEW n \in 0..(Size + 1)
    PROVE  Advance(i, n) \in 0..Size
BY BufAssumption DEF Advance

\* The two pieces of an access are the slots one finds going round.
LEMMA SlotIsAdvance ==
    ASSUME NEW i \in 0..Size, NEW n \in 0..(Size + 1), NEW j \in 0..(n - 1)
    PROVE  SlotOf(i, n, j) = Advance(i, j)
BY BufAssumption DEF SlotOf, FirstPart, Min2, Advance

\* Moving on twice is moving on by the sum.
LEMMA AdvanceTwice ==
    ASSUME NEW i \in 0..Size, NEW m \in 0..Size, NEW n \in 0..Size,
           m + n <= Size
    PROVE  Advance(Advance(i, m), n) = Advance(i, m + n)
BY BufAssumption DEF Advance

\* Different distances lead to different slots.
LEMMA AdvanceInjective ==
    ASSUME NEW i \in 0..Size, NEW m \in 0..Size, NEW n \in 0..Size, m # n
    PROVE  Advance(i, m) # Advance(i, n)
BY BufAssumption DEF Advance

\* buf_count() is the distance from out to in, and what is not counted is
\* available.
LEMMA CountFacts ==
    ASSUME TypeOK
    PROVE  /\ BufCount \in 0..Size
           /\ BufAvail = Size - BufCount
           /\ in = Advance(out, BufCount)
BY BufAssumption DEF TypeOK, BufCount, BufAvail, Advance

-----------------------------------------------------------------------------
(* One step at a time *)

\* What a step of n bytes does to buf_count(): put adds, get takes away.
LEMMA CountAfterPut ==
    ASSUME TypeOK, NEW n \in Nat, n <= BufAvail, TypeOK',
           in' = Advance(in, n), out' = out
    PROVE  BufCount' = BufCount + n
<1>1. /\ in \in 0..Size /\ out \in 0..Size /\ Size \in Nat
      /\ in' \in 0..Size /\ out' = out
  BY BufAssumption DEF TypeOK
<1>2. CASE in >= out
  BY <1>1, <1>2 DEF BufCount, BufAvail, Advance
<1>3. CASE in < out
  BY <1>1, <1>3 DEF BufCount, BufAvail, Advance
<1> QED BY <1>1, <1>2, <1>3

\* The same for buf_get().
LEMMA CountAfterGet ==
    ASSUME TypeOK, NEW n \in Nat, n <= BufCount, TypeOK',
           out' = Advance(out, n), in' = in
    PROVE  BufCount' = BufCount - n /\ BufAvail' = BufAvail + n
<1>1. /\ in \in 0..Size /\ out \in 0..Size /\ Size \in Nat
      /\ out' \in 0..Size /\ in' = in
  BY BufAssumption DEF TypeOK
<1>2. BufCount' = BufCount - n
  BY <1>1 DEF BufCount, Advance
<1>3. BufAvail' = BufAvail + n
  BY <1>1 DEF BufCount, BufAvail, Advance
<1> QED BY <1>2, <1>3

\* The two memcpy()s of buf_put() write the n slots from buf->in on, and no
\* other slot.
LEMMA PutSlots ==
    ASSUME TypeOK, NEW n \in 1..MaxChunk, BufPut(n)
    PROVE  /\ data' \in [0..Size -> Nat]
           /\ \A m \in 0..(n - 1) : data'[Advance(in, m)] = produced + m + 1
           /\ \A i \in 0..Size :
                (\A m \in 0..(n - 1) : i # Advance(in, m)) => data'[i] = data[i]
<1> n \in 1..Size
  BY CountFacts, BufAssumption DEF BufPut
<1> DEFINE first == FirstPart(in, n)
<1>1. /\ first = IF n <= Size + 1 - in THEN n ELSE Size + 1 - in
      /\ in \in 0..Size /\ produced \in Nat /\ data \in [0..Size -> Nat]
      /\ Size \in Nat
  BY BufAssumption DEF TypeOK, FirstPart, Min2
<1>2. data' = [i \in 0..Size |->
                 IF in <= i /\ i < in + first THEN produced + 1 + i - in
                 ELSE IF i < n - first THEN produced + 1 + first + i
                 ELSE data[i]]
  BY DEF BufPut
<1> HIDE DEF first
<1>3. data' \in [0..Size -> Nat]
  BY <1>1, <1>2
<1>4. ASSUME NEW m \in 0..(n - 1)
      PROVE  data'[Advance(in, m)] = produced + m + 1
  <2>1. CASE m < first
    <3>1. Advance(in, m) = in + m /\ in + m \in 0..Size
      BY <2>1, <1>1 DEF Advance
    <3> QED BY <3>1, <2>1, <1>1, <1>2
  <2>2. CASE m >= first
    <3>1. Advance(in, m) = m - first /\ m - first \in 0..Size /\ m - first < in
      BY <2>2, <1>1 DEF Advance
    <3>2. m - first < n - first /\ ~(in <= m - first)
      BY <3>1, <2>2, <1>1
    <3>3. data'[m - first] = produced + 1 + first + (m - first)
      BY <3>1, <3>2, <1>2
    <3> QED BY <3>1, <3>3, <1>1
  <2> QED BY <2>1, <2>2, <1>1
<1>5. ASSUME NEW i \in 0..Size, \A m \in 0..(n - 1) : i # Advance(in, m)
      PROVE  data'[i] = data[i]
  <2>1. ~(in <= i /\ i < in + first)
    <3> SUFFICES ASSUME in <= i, i < in + first PROVE FALSE
      OBVIOUS
    <3>1. i - in \in 0..(n - 1) /\ Advance(in, i - in) = i
      BY <1>1 DEF Advance
    <3> QED BY <3>1, <1>5
  <2>2. ~(i < n - first)
    <3> SUFFICES ASSUME i < n - first PROVE FALSE
      OBVIOUS
    <3>1. first + i \in 0..(n - 1) /\ Advance(in, first + i) = i
      BY <1>1 DEF Advance
    <3> QED BY <3>1, <1>5
  <2> QED BY <2>1, <2>2, <1>2
<1> QED BY <1>3, <1>4, <1>5

\* buf_put() keeps the invariant.
LEMMA PutStep ==
    ASSUME IInv, NEW n \in 1..MaxChunk, BufPut(n)
    PROVE  IInv'
<1> n \in 1..Size /\ n \in Nat
  BY CountFacts, BufAssumption DEF BufPut, IInv
<1>1. TypeOK'
  <2>1. data' \in [0..Size -> Nat]
    BY PutSlots DEF IInv
  <2>2. in' \in 0..Size
    BY AdvanceType, BufAssumption DEF IInv, TypeOK, BufPut
  <2> QED BY <2>1, <2>2 DEF IInv, TypeOK, BufPut
<1>2. BufCount' = BufCount + n /\ BufCount' \in 0..Size /\ BufCount \in 0..Size
  <2>1. BufCount \in 0..Size /\ BufAvail = Size - BufCount
    BY CountFacts DEF IInv
  <2>2. BufCount' = BufCount + n
    BY <1>1, CountAfterPut DEF IInv, BufPut
  <2>3. n <= BufAvail
    BY DEF BufPut
  <2> QED BY <2>1, <2>2, <2>3, BufAssumption
<1>3. LeaseIsSafe'
  BY <1>1, <1>2 DEF IInv, LeaseIsSafe, BufPut, TypeOK
<1>4. ContentsInOrder'
  <2>1. produced' = Len(delivered') + BufCount'
    BY <1>2 DEF IInv, TypeOK, StreamIntact, ContentsInOrder, BufPut
  <2>2. ASSUME NEW j \in 0..(BufCount + n - 1)
        PROVE  data'[Advance(out, j)] = Len(delivered) + j + 1
    <3>0. out \in 0..Size /\ in = Advance(out, BufCount)
      BY CountFacts DEF IInv, TypeOK
    <3>1. CASE j < BufCount
      <4>1. ASSUME NEW m \in 0..(n - 1)
            PROVE  Advance(out, j) # Advance(in, m)
        <5>1. Advance(in, m) = Advance(out, BufCount + m)
          BY <3>0, <1>2, AdvanceTwice, BufAssumption
        <5> QED BY <5>1, <3>0, <3>1, <1>2, AdvanceInjective, BufAssumption
      <4>2. Advance(out, j) \in 0..Size
        <5>1. j \in 0..(Size + 1)
          BY <3>1, <1>2, BufAssumption
        <5> QED BY <5>1, <3>0, AdvanceType
      <4>3. data'[Advance(out, j)] = data[Advance(out, j)]
        BY <4>1, <4>2, PutSlots DEF IInv
      <4> QED BY SMTT(30), <4>3, <3>1, <1>2
          DEF IInv, StreamIntact, ContentsInOrder
    <3>2. CASE j >= BufCount
      <4>1. j - BufCount \in 0..(n - 1)
        BY <3>2, <1>2
      <4>2. Advance(out, j) = Advance(in, j - BufCount)
        BY <3>0, <3>2, <4>1, <1>2, AdvanceTwice, BufAssumption
      <4>3. data'[Advance(in, j - BufCount)] = produced + (j - BufCount) + 1
        BY <4>1, PutSlots DEF IInv
      <4> QED
        BY <4>2, <4>3, <3>2, <1>2
           DEF IInv, StreamIntact, ContentsInOrder, TypeOK
    <3> QED BY <3>1, <3>2, <1>2
  <2> QED BY <2>1, <2>2, <1>2 DEF ContentsInOrder, BufPut, Advance
<1>5. IOBytesAreNext' /\ FilledAreNext' /\ \A j \in 1..Len(delivered') : delivered'[j] = j
  BY DEF IInv, StreamIntact, IOBytesAreNext, FilledAreNext, BufPut
<1> QED BY <1>1, <1>3, <1>4, <1>5 DEF IInv, StreamIntact

\* Taking n bytes out of the buffer leaves the rest of it in order.
LEMMA ContentsAfterGet ==
    ASSUME IInv, TypeOK', NEW n \in Nat, n <= BufCount,
           out' = Advance(out, n), in' = in, data' = data,
           produced' = produced, Len(delivered') = Len(delivered) + n
    PROVE  ContentsInOrder' /\ BufCount' = BufCount - n
<1>1. BufCount \in 0..Size /\ out \in 0..Size /\ Len(delivered) \in Nat
  BY SMTT(30), CountFacts DEF IInv, TypeOK
<1>2. BufCount' = BufCount - n
  BY CountAfterGet DEF IInv
<1>3. produced' = Len(delivered') + BufCount'
  BY <1>1, <1>2, BufAssumption DEF IInv, StreamIntact, ContentsInOrder
<1>4. ASSUME NEW j \in 0..(BufCount - n - 1)
      PROVE  data[Advance(Advance(out, n), j)] = Len(delivered) + n + j + 1
  <2>1. n \in 0..Size /\ j \in 0..Size /\ n + j \in 0..(BufCount - 1)
    BY <1>1, BufAssumption
  <2>2. Advance(Advance(out, n), j) = Advance(out, n + j)
    BY <1>1, <2>1, AdvanceTwice, BufAssumption
  <2>3. data[Advance(out, n + j)] = Len(delivered) + (n + j) + 1
    BY <2>1 DEF IInv, StreamIntact, ContentsInOrder
  <2> QED BY <1>1, <2>1, <2>2, <2>3
<1> QED BY <1>2, <1>3, <1>4 DEF ContentsInOrder, Advance

\* buf_get() keeps the invariant.
LEMMA GetStep ==
    ASSUME IInv, NEW n \in 1..MaxChunk, BufGet(n)
    PROVE  IInv'
<1> DEFINE chunk == [j \in 1..n |-> data[SlotOf(out, n, j - 1)]]
<1>1. /\ n \in Nat /\ n <= BufCount /\ BufCount \in 0..Size /\ n \in 0..Size
      /\ out \in 0..Size /\ delivered \in Seq(Nat)
  BY SMTT(30), CountFacts, BufAssumption DEF BufGet, IInv, TypeOK
<1>2. ASSUME NEW j \in 1..n
      PROVE  data[SlotOf(out, n, j - 1)] = Len(delivered) + j
  <2>1. SlotOf(out, n, j - 1) = Advance(out, j - 1)
    <3>1. n \in 0..(Size + 1) /\ j - 1 \in 0..(n - 1)
      BY <1>1, BufAssumption
    <3> QED BY <3>1, <1>1, SlotIsAdvance
  <2>2. j - 1 \in 0..(BufCount - 1)
    BY <1>1
  <2>3. data[Advance(out, j - 1)] = Len(delivered) + (j - 1) + 1
    BY <2>2 DEF IInv, StreamIntact, ContentsInOrder
  <2> QED BY <2>1, <2>3, <1>1
<1>3. chunk \in Seq(Nat) /\ Len(chunk) = n /\ \A j \in 1..n : chunk[j] = Len(delivered) + j
  <2>1. Len(delivered) \in Nat
    BY <1>1
  <2>2. chunk \in [1..n -> Nat]
    BY <1>2, <2>1
  <2> QED BY <1>1, <1>2, <2>2
<1>4. delivered' = delivered \o chunk
  BY DEF BufGet
<1> HIDE DEF chunk
<1>5. /\ delivered' \in Seq(Nat) /\ Len(delivered') = Len(delivered) + n
      /\ \A j \in 1..(Len(delivered) + n) :
           delivered'[j] = IF j <= Len(delivered) THEN delivered[j]
                           ELSE chunk[j - Len(delivered)]
  BY <1>1, <1>3, <1>4, ConcatProperties
<1>6. \A j \in 1..Len(delivered') : delivered'[j] = j
  <2> SUFFICES ASSUME NEW j \in 1..(Len(delivered) + n)
               PROVE  delivered'[j] = j
    BY <1>5
  <2>1. Len(delivered) \in Nat
    BY <1>1
  <2>2. CASE j <= Len(delivered)
    BY SMTT(30), <2>1, <2>2, <1>5 DEF IInv, StreamIntact
  <2>3. CASE j > Len(delivered)
    <3>1. j - Len(delivered) \in 1..n
      BY <2>1, <2>3, <1>1
    <3> QED BY <3>1, <2>1, <2>3, <1>3, <1>5
  <2> QED BY <2>1, <2>2, <2>3
<1>7. TypeOK'
  <2>1. out' \in 0..Size
    BY <1>1, AdvanceType, BufAssumption DEF BufGet
  <2> QED BY <2>1, <1>5 DEF IInv, TypeOK, BufGet
<1>8. ContentsInOrder' /\ BufCount' = BufCount - n
  BY <1>1, <1>5, <1>7, ContentsAfterGet DEF BufGet
<1>9. LeaseIsSafe'
  <2>1. BufAvail' = BufAvail + n /\ BufAvail \in 0..Size
    BY <1>7, CountAfterGet, CountFacts, BufAssumption DEF IInv, BufGet
  <2>2. use = "recv" /\ use' = use /\ leased' = leased /\ leased \in Nat
    BY DEF BufGet, IInv, TypeOK
  <2>3. leased <= BufAvail
    BY <2>2 DEF IInv, LeaseIsSafe
  <2>4. leased' <= BufAvail'
    BY <2>1, <2>2, <2>3, <1>1
  <2> QED BY <2>2, <2>4 DEF LeaseIsSafe
<1>10. IOBytesAreNext'
  BY DEF IInv, StreamIntact, IOBytesAreNext, BufGet, TypeOK
<1>11. FilledAreNext'
  BY DEF IInv, StreamIntact, FilledAreNext, BufGet, Advance
<1> QED BY <1>6, <1>7, <1>8, <1>9, <1>10, <1>11 DEF IInv, StreamIntact

\* So does the sender when it unlocks the channel to write ...
LEMMA DrainBeginStep ==
    ASSUME IInv, NEW n \in 1..MaxChunk, DrainBegin(n)
    PROVE  IInv'
<1>1. TypeOK'
  BY BufAssumption DEF IInv, TypeOK, DrainBegin
<1>2. LeaseIsSafe'
  BY DEF LeaseIsSafe, DrainBegin, BufCount
<1>3. ContentsInOrder'
  BY DEF IInv, StreamIntact, ContentsInOrder, DrainBegin, BufCount, Advance
<1>4. IOBytesAreNext'
  BY DEF IInv, TypeOK, StreamIntact, IOBytesAreNext, DrainBegin
<1> QED
  BY <1>1, <1>2, <1>3, <1>4
     DEF IInv, StreamIntact, FilledAreNext, DrainBegin

\* ... while it writes, without the lock ...
LEMMA DrainByteStep ==
    ASSUME IInv, DrainByte
    PROVE  IInv'
<1>1. /\ BufCount \in 0..Size /\ out \in 0..Size /\ moved \in Nat
      /\ leased \in Nat /\ moved < leased /\ leased <= BufCount
      /\ iobytes \in Seq(Nat) /\ Len(iobytes) = moved /\ Len(delivered) \in Nat
  BY CountFacts DEF IInv, TypeOK, LeaseIsSafe, StreamIntact, IOBytesAreNext,
                    DrainByte
<1>2. data[SlotOf(out, leased, moved)] = Len(delivered) + moved + 1
  <2>1. SlotOf(out, leased, moved) = Advance(out, moved)
    <3>1. leased \in 0..(Size + 1) /\ moved \in 0..(leased - 1)
      BY <1>1, BufAssumption
    <3> QED BY <3>1, <1>1, SlotIsAdvance
  <2>2. moved \in 0..(BufCount - 1)
    BY <1>1
  <2> QED BY <2>1, <2>2 DEF IInv, StreamIntact, ContentsInOrder
<1>3. /\ iobytes' \in Seq(Nat) /\ Len(iobytes') = moved + 1
      /\ \A j \in 1..moved : iobytes'[j] = iobytes[j]
      /\ iobytes'[moved + 1] = Len(delivered) + moved + 1
  BY SMTT(30), <1>1, <1>2, AppendProperties DEF DrainByte
<1>4. IOBytesAreNext'
  <2>1. use = "send" /\ use' = use /\ moved' = moved + 1 /\ delivered' = delivered
    BY DEF DrainByte
  <2>2. \A j \in 1..moved : iobytes[j] = Len(delivered) + j
    BY <1>1 DEF IInv, StreamIntact, IOBytesAreNext
  <2> QED BY SMTT(30), <1>1, <1>3, <2>1, <2>2 DEF IOBytesAreNext
<1>5. TypeOK'
  BY <1>1, <1>3 DEF IInv, TypeOK, DrainByte
<1>6. LeaseIsSafe'
  BY DEF IInv, LeaseIsSafe, DrainByte, BufCount, BufAvail
<1>7. ContentsInOrder'
  BY DEF IInv, StreamIntact, ContentsInOrder, DrainByte, BufCount, Advance
<1> QED
  BY <1>4, <1>5, <1>6, <1>7 DEF IInv, StreamIntact, FilledAreNext, DrainByte

\* ... and when it takes the written bytes out.
LEMMA DrainEndStep ==
    ASSUME IInv, DrainEnd
    PROVE  IInv'
<1>1. /\ use = "send" /\ BufCount \in 0..Size /\ out \in 0..Size
      /\ leased \in Nat /\ moved = leased /\ leased <= BufCount
      /\ iobytes \in Seq(Nat) /\ Len(iobytes) = leased
      /\ delivered \in Seq(Nat) /\ Len(delivered) \in Nat
  BY CountFacts DEF IInv, TypeOK, LeaseIsSafe, StreamIntact, IOBytesAreNext,
                    DrainEnd
<1>2. /\ delivered' \in Seq(Nat) /\ Len(delivered') = Len(delivered) + leased
      /\ \A j \in 1..(Len(delivered) + leased) :
           delivered'[j] = IF j <= Len(delivered) THEN delivered[j]
                           ELSE iobytes[j - Len(delivered)]
  BY <1>1, ConcatProperties DEF DrainEnd
<1>3. \A j \in 1..Len(delivered') : delivered'[j] = j
  <2> SUFFICES ASSUME NEW j \in 1..(Len(delivered) + leased)
               PROVE  delivered'[j] = j
    BY <1>2
  <2>1. CASE j <= Len(delivered)
    <3>1. j \in 1..Len(delivered) /\ delivered'[j] = delivered[j]
      BY <1>1, <2>1, <1>2
    <3> QED BY <3>1 DEF IInv, StreamIntact
  <2>2. CASE j > Len(delivered)
    <3>1. j - Len(delivered) \in 1..Len(iobytes)
      BY <2>2, <1>1
    <3>2. iobytes[j - Len(delivered)] = Len(delivered) + (j - Len(delivered))
      BY <3>1 DEF IInv, StreamIntact, IOBytesAreNext
    <3>3. delivered'[j] = iobytes[j - Len(delivered)]
      BY <2>2, <1>1, <1>2
    <3>4. j \in Nat
      BY <1>1
    <3> QED BY <3>2, <3>3, <3>4, <1>1
  <2> QED BY <2>1, <2>2, <1>1
<1>4. TypeOK'
  <2>1. out' \in 0..Size
    BY <1>1, AdvanceType, BufAssumption DEF DrainEnd
  <2>2. iobytes' \in Seq(Nat)
    BY DEF DrainEnd
  <2> QED BY <2>1, <2>2, <1>2 DEF IInv, TypeOK, DrainEnd
<1>5. ContentsInOrder' /\ BufCount' = BufCount - leased
  BY <1>1, <1>2, <1>4, ContentsAfterGet DEF DrainEnd
<1>6. LeaseIsSafe'
  BY <1>1, <1>5 DEF LeaseIsSafe, DrainEnd
<1>7. IOBytesAreNext'
  BY DEF IOBytesAreNext, DrainEnd
<1> QED
  BY <1>1, <1>3, <1>4, <1>5, <1>6, <1>7
     DEF IInv, StreamIntact, FilledAreNext, DrainEnd

\* So does the receiver when it unlocks the channel to read ...
LEMMA FillBeginStep ==
    ASSUME IInv, NEW n \in 1..MaxChunk, FillBegin(n)
    PROVE  IInv'
<1>1. TypeOK'
  BY BufAssumption DEF IInv, TypeOK, FillBegin
<1>2. LeaseIsSafe'
  BY DEF LeaseIsSafe, FillBegin, BufAvail
<1>3. ContentsInOrder'
  BY DEF IInv, StreamIntact, ContentsInOrder, FillBegin, BufCount, Advance
<1>4. IOBytesAreNext'
  BY DEF IInv, TypeOK, StreamIntact, IOBytesAreNext, FillBegin
<1> QED
  BY <1>1, <1>2, <1>3, <1>4
     DEF IInv, StreamIntact, FilledAreNext, FillBegin

\* ... while the bytes arrive, without the lock ...
LEMMA FillByteStep ==
    ASSUME IInv, FillByte
    PROVE  IInv'
<1>1. /\ BufCount \in 0..Size /\ in \in 0..Size /\ out \in 0..Size
      /\ in = Advance(out, BufCount) /\ moved \in Nat /\ leased \in Nat
      /\ moved < leased /\ leased <= Size - BufCount /\ produced \in Nat
      /\ data \in [0..Size -> Nat] /\ Size \in Nat
  BY SMTT(30), CountFacts, BufAssumption
    DEF IInv, TypeOK, LeaseIsSafe, FillByte
<1>2. SlotOf(in, leased, moved) = Advance(in, moved) /\ Advance(in, moved) \in 0..Size
  <2>1. leased \in 0..(Size + 1) /\ moved \in 0..(leased - 1) /\ moved \in 0..(Size + 1)
    BY <1>1
  <2> QED BY <2>1, <1>1, SlotIsAdvance, AdvanceType
<1>3. data' = [data EXCEPT ![Advance(in, moved)] = produced + moved + 1]
  BY <1>2 DEF FillByte
<1>4. TypeOK'
  <2>1. data' \in [0..Size -> Nat]
    BY <1>1, <1>2, <1>3
  <2> QED BY <1>1, <2>1 DEF IInv, TypeOK, FillByte
<1>5. ContentsInOrder'
  <2>1. ASSUME NEW j \in 0..(BufCount - 1)
        PROVE  data'[Advance(out, j)] = data[Advance(out, j)]
    <3>1. j \in 0..Size /\ BufCount + moved \in 0..Size /\ moved \in 0..Size
          /\ j # BufCount + moved
      BY <1>1
    <3>2. Advance(in, moved) = Advance(out, BufCount + moved)
      BY <1>1, <3>1, AdvanceTwice
    <3>3. Advance(out, j) # Advance(in, moved)
      BY <1>1, <3>1, <3>2, AdvanceInjective
    <3> QED BY <3>3, <1>1, <1>3
  <2> QED
    BY <2>1
      DEF IInv, StreamIntact, ContentsInOrder, FillByte, BufCount, Advance
<1>6. FilledAreNext'
  <2> SUFFICES ASSUME NEW j \in 0..moved
               PROVE  data'[Advance(in, j)] = produced + j + 1
    <3>1. /\ moved' = moved + 1 /\ in' = in /\ produced' = produced
          /\ \A j \in 0..moved : Advance(in, j)' = Advance(in, j)
      BY DEF FillByte, Advance
    <3>2. 0..(moved' - 1) = 0..moved
      BY <1>1, <3>1
    <3> QED BY <3>1, <3>2 DEF FilledAreNext, Advance
  <2>1. CASE j = moved
    BY <2>1, <1>1, <1>2, <1>3
  <2>2. CASE j < moved
    <3>1. j \in 0..Size /\ moved \in 0..Size /\ j \in 0..(moved - 1)
      BY <2>2, <1>1
    <3>2. Advance(in, j) # Advance(in, moved)
      BY <3>1, <2>2, <1>1, AdvanceInjective
    <3>3. data[Advance(in, j)] = produced + j + 1
      BY <3>1 DEF IInv, StreamIntact, FilledAreNext, FillByte
    <3> QED BY <3>2, <3>3, <1>1, <1>3
  <2> QED BY <2>1, <2>2, <1>1
<1>7. LeaseIsSafe'
  BY DEF IInv, LeaseIsSafe, FillByte, BufCount, BufAvail
<1>8. IOBytesAreNext'
  BY DEF IInv, StreamIntact, IOBytesAreNext, FillByte
<1> QED BY <1>4, <1>5, <1>6, <1>7, <1>8 DEF IInv, StreamIntact, FillByte

\* ... and when it counts them in.
LEMMA FillEndStep ==
    ASSUME IInv, FillEnd
    PROVE  IInv'
<1>1. /\ BufCount \in 0..Size /\ in \in 0..Size /\ out \in 0..Size
      /\ in = Advance(out, BufCount) /\ BufAvail = Size - BufCount
      /\ leased \in Nat /\ moved = leased /\ leased <= Size - BufCount
      /\ produced \in Nat /\ Len(delivered) \in Nat /\ Size \in Nat
      /\ in' = Advance(in, leased) /\ out' = out /\ use = "recv" /\ data' = data
      /\ produced = Len(delivered) + BufCount
  BY SMTT(30), CountFacts, BufAssumption
     DEF IInv, TypeOK, LeaseIsSafe, StreamIntact, ContentsInOrder, FillEnd
<1>2. TypeOK'
  <2>1. in' \in 0..Size
    <3>1. leased \in 0..(Size + 1)
      BY <1>1
    <3> QED BY <3>1, <1>1, AdvanceType
  <2> QED BY SMTT(30), <2>1, <1>1 DEF IInv, TypeOK, FillEnd
<1>3. BufCount' = BufCount + leased
  BY <1>1, <1>2, CountAfterPut DEF IInv
<1>4. ContentsInOrder'
  <2>1. ASSUME NEW j \in 0..(BufCount + leased - 1)
        PROVE  data[Advance(out, j)] = Len(delivered) + j + 1
    <3>1. CASE j < BufCount
      BY <3>1, <1>1 DEF IInv, StreamIntact, ContentsInOrder
    <3>2. CASE j >= BufCount
      <4>1. j - BufCount \in 0..(moved - 1) /\ j - BufCount \in 0..Size
        BY <3>2, <1>1
      <4>2. Advance(out, j) = Advance(in, j - BufCount)
        BY <4>1, <1>1, AdvanceTwice
      <4>3. data[Advance(in, j - BufCount)] = produced + (j - BufCount) + 1
        BY <4>1, <1>1 DEF IInv, StreamIntact, FilledAreNext
      <4> QED BY <4>1, <4>2, <4>3, <1>1
    <3> QED BY <3>1, <3>2, <1>1
  <2> QED BY <2>1, <1>1, <1>3 DEF ContentsInOrder, FillEnd, Advance
<1>5. LeaseIsSafe'
  <2>1. in' \in 0..Size
    BY <1>2 DEF TypeOK
  <2>2. BufAvail' = IF out > in' THEN out - in' - 1 ELSE Size + out - in'
    BY <1>1 DEF BufAvail
  <2>3. BufAvail' >= 0
    BY SMTT(30), <1>1, <2>1, <2>2
  <2> QED BY <1>1, <2>3 DEF LeaseIsSafe, FillEnd
<1> QED
  BY <1>2, <1>4, <1>5, <1>1
     DEF IInv, StreamIntact, IOBytesAreNext, FilledAreNext, FillEnd

-----------------------------------------------------------------------------
(* The theorems *)

\* The initial states satisfy the invariant: mux.c allocates empty buffers.
LEMMA InitInv == Init => IInv
BY BufAssumption
   DEF Init, IInv, TypeOK, LeaseIsSafe, StreamIntact, ContentsInOrder,
       IOBytesAreNext, FilledAreNext, BufCount, BufAvail

\* Every step of the two threads preserves it.
LEMMA NextInv == IInv /\ [Next]_vars => IInv'
<1> SUFFICES ASSUME IInv, [Next]_vars PROVE IInv'
  OBVIOUS
<1>1. ASSUME NEW n \in 1..MaxChunk, BufPut(n) PROVE IInv'
  BY <1>1, PutStep
<1>2. ASSUME NEW n \in 1..MaxChunk, BufGet(n) PROVE IInv'
  BY <1>2, GetStep
<1>3. ASSUME NEW n \in 1..MaxChunk, DrainBegin(n) PROVE IInv'
  BY <1>3, DrainBeginStep
<1>4. ASSUME NEW n \in 1..MaxChunk, FillBegin(n) PROVE IInv'
  BY <1>4, FillBeginStep
<1>5. CASE DrainByte
  BY <1>5, DrainByteStep
<1>6. CASE DrainEnd
  BY <1>6, DrainEndStep
<1>7. CASE FillByte
  BY <1>7, FillByteStep
<1>8. CASE FillEnd
  BY <1>8, FillEndStep
<1>9. CASE UNCHANGED vars
  BY <1>9 DEF IInv, vars, TypeOK, LeaseIsSafe, StreamIntact, ContentsInOrder,
              IOBytesAreNext, FilledAreNext, BufCount, BufAvail, Advance
<1> QED
  BY <1>1, <1>2, <1>3, <1>4, <1>5, <1>6, <1>7, <1>8, <1>9 DEF Next

\* IInv holds in every reachable state.
LEMMA Invariant == Spec => []IInv
BY InitInv, NextInv, PTL DEF Spec

\* For every buffer size the unlocked I/O of sender_loop() and
\* receiver_loop() never touches a slot the other thread may use, and the
\* bytes come out as they went in.
THEOREM BufferIsCorrect == Spec => [](TypeOK /\ LeaseIsSafe /\ StreamIntact)
<1>1. IInv => TypeOK /\ LeaseIsSafe /\ StreamIntact
  BY DEF IInv
<1> QED BY <1>1, Invariant, PTL

\* buf->in and buf->out stay inside the array of Size + 1 slots whatever the
\* sizes asked of buf_put(), buf_get() and the unlocked I/O.
THEOREM IndicesInRange == Spec => []TypeOK
<1>1. IInv => TypeOK
  BY DEF IInv
<1> QED BY <1>1, Invariant, PTL

\* "It's safe to unlock here during I/O": the bytes the I/O of sender_loop()
\* was given are still in the buffer, the room that of receiver_loop() was
\* given is still free, for as long as it lasts.
THEOREM UnlockedIOIsSafe == Spec => []LeaseIsSafe
<1>1. IInv => LeaseIsSafe
  BY DEF IInv
<1> QED BY <1>1, Invariant, PTL

-----------------------------------------------------------------------------
(* The refinement of ByteFifo *)

\* A stretch of the stream: the n positions behind position d.
Stretch(d, n) == [j \in 1..n |-> d + j]

\* A stretch and the one behind it make one stretch.
LEMMA StretchConcat ==
    ASSUME NEW d \in Nat, NEW m \in Nat, NEW n \in Nat
    PROVE  Stretch(d, m) \o Stretch(d + m, n) = Stretch(d, m + n)
<1> DEFINE s == Stretch(d, m)
           t == Stretch(d + m, n)
           u == Stretch(d, m + n)
<1>1. s \in Seq(Nat) /\ t \in Seq(Nat) /\ u \in Seq(Nat)
  BY DEF Stretch
<1>2. Len(s) = m /\ Len(t) = n /\ Len(u) = m + n
  BY DEF Stretch
<1>3. /\ \A j \in 1..m : s[j] = d + j
      /\ \A j \in 1..n : t[j] = d + m + j
      /\ \A j \in 1..(m + n) : u[j] = d + j
  BY DEF Stretch
<1> HIDE DEF s, t, u
<1>4. s \o t \in Seq(Nat) /\ Len(s \o t) = m + n
  BY <1>1, <1>2, ConcatProperties
<1>5. ASSUME NEW j \in 1..(m + n)
      PROVE  (s \o t)[j] = u[j]
  <2>0. j <= m \/ j > m
    OBVIOUS
  <2>1. (s \o t)[j] = IF j <= m THEN s[j] ELSE t[j - m]
    BY <1>1, <1>2, ConcatProperties
  <2>2. CASE j <= m
    BY <2>1, <2>2, <1>3
  <2>3. CASE j > m
    <3>1. j - m \in 1..n
      BY <2>3
    <3>2. t[j - m] = d + m + (j - m)
      BY <3>1, <1>3
    <3> QED BY <2>1, <2>3, <3>2, <1>3
  <2> QED BY <2>0, <2>2, <2>3
<1>6. s \o t = u
  BY <1>1, <1>2, <1>4, <1>5, SeqEqual
<1> QED BY <1>6 DEF s, t, u

\* A stretch split after its first n bytes.
LEMMA StretchSplit ==
    ASSUME NEW d \in Nat, NEW m \in Nat, NEW n \in 0..m
    PROVE  /\ SubSeq(Stretch(d, m), 1, n) = Stretch(d, n)
           /\ SubSeq(Stretch(d, m), n + 1, m) = Stretch(d + n, m - n)
BY DEF Stretch

\* What the refinement mapping gives for the abstract queue.
Pending == [j \in 1..BufCount |-> data[Advance(out, j - 1)]]

\* The abstract queue is the stretch of the stream behind what came out.
LEMMA PendingIsStretch ==
    IInv => /\ BufCount \in 0..Size
            /\ Len(delivered) \in Nat
            /\ Pending = Stretch(Len(delivered), BufCount)
            /\ Len(Pending) = BufCount
<1> SUFFICES ASSUME IInv
             PROVE  /\ BufCount \in 0..Size
                    /\ Len(delivered) \in Nat
                    /\ Pending = Stretch(Len(delivered), BufCount)
                    /\ Len(Pending) = BufCount
  OBVIOUS
<1>1. BufCount \in 0..Size
  BY CountFacts DEF IInv
<1>2. Len(delivered) \in Nat
  BY DEF IInv, TypeOK
<1>3. ASSUME NEW j \in 1..BufCount
      PROVE  data[Advance(out, j - 1)] = Len(delivered) + j
  <2>1. j - 1 \in 0..(BufCount - 1)
    BY <1>1
  <2>2. data[Advance(out, j - 1)] = Len(delivered) + (j - 1) + 1
    BY <2>1 DEF IInv, StreamIntact, ContentsInOrder
  <2> QED BY <1>1, <1>2, <2>2
<1>4. Pending = Stretch(Len(delivered), BufCount)
  BY <1>3 DEF Pending, Stretch
<1>5. Len(Pending) = BufCount
  BY <1>1, <1>4 DEF Stretch
<1> QED BY <1>1, <1>2, <1>4, <1>5

\* A step that adds n bytes to the buffer enqueues them.
LEMMA Enqueues ==
    ASSUME IInv, IInv', NEW n \in 1..Size, n <= BufAvail,
           BufCount' = BufCount + n, delivered' = delivered
    PROVE  Fifo!Enqueue(n)
<1>1. /\ BufCount \in 0..Size /\ Len(delivered) \in Nat
      /\ Pending = Stretch(Len(delivered), BufCount)
      /\ Len(Pending) = BufCount
  BY PendingIsStretch
<1>2. Pending' = Stretch(Len(delivered), BufCount + n)
  <2>1. (Pending = Stretch(Len(delivered), BufCount))'
    BY PendingIsStretch, PTL
  <2> QED BY <2>1 DEF Stretch
<1>3. Fifo!Fresh(n) = Stretch(Len(delivered) + BufCount, n)
  BY <1>1 DEF Fifo!Fresh, Stretch, Pending
<1>4. Pending' = Pending \o Fifo!Fresh(n)
  <2>1. BufCount \in Nat /\ n \in Nat
    BY <1>1, BufAssumption
  <2>2. Stretch(Len(delivered), BufCount) \o Stretch(Len(delivered) + BufCount, n)
          = Stretch(Len(delivered), BufCount + n)
    BY <1>1, <2>1, StretchConcat
  <2> QED BY <1>1, <1>2, <1>3, <2>2
<1>5. Len(Pending) + n <= Size
  BY <1>1, CountFacts, BufAssumption DEF IInv
<1> QED BY <1>4, <1>5 DEF Fifo!Enqueue, Pending

\* A step that moves the n oldest bytes to the consumer dequeues them.
LEMMA Dequeues ==
    ASSUME IInv, IInv', NEW n \in 1..Size, n <= BufCount,
           BufCount' = BufCount - n, Len(delivered') = Len(delivered) + n,
           NEW chunk, delivered' = delivered \o chunk,
           chunk = Stretch(Len(delivered), n)
    PROVE  Fifo!Dequeue(n)
<1>1. /\ BufCount \in 0..Size /\ Len(delivered) \in Nat
      /\ Pending = Stretch(Len(delivered), BufCount)
      /\ Len(Pending) = BufCount
  BY PendingIsStretch
<1>2. Pending' = Stretch(Len(delivered) + n, BufCount - n)
  <2>1. (Pending = Stretch(Len(delivered), BufCount))'
    BY PendingIsStretch, PTL
  <2> QED BY <2>1 DEF Stretch
<1>3. n \in 0..BufCount /\ BufCount \in Nat
  BY <1>1, BufAssumption
<1>4. delivered' = delivered \o SubSeq(Pending, 1, n)
  BY <1>1, <1>3, StretchSplit
<1>5. Pending' = SubSeq(Pending, n + 1, Len(Pending))
  BY ZenonT(40), <1>1, <1>2, <1>3, StretchSplit
<1> QED BY <1>1, <1>4, <1>5 DEF Fifo!Dequeue, Pending

\* A step that moves no byte in or out of the buffer is a stutter.
LEMMA Stutters ==
    ASSUME IInv, IInv', BufCount' = BufCount, delivered' = delivered
    PROVE  UNCHANGED Fifo!vars
<1>1. Pending = Stretch(Len(delivered), BufCount)
  BY PendingIsStretch
<1>2. (Pending = Stretch(Len(delivered), BufCount))'
  BY PendingIsStretch, PTL
<1>3. Pending' = Pending
  BY <1>1, <1>2 DEF Stretch
<1> QED BY <1>3 DEF Fifo!vars, Pending

\* buf_put() is an Enqueue of the FIFO.
LEMMA PutRefines ==
    ASSUME IInv, IInv', NEW n \in 1..MaxChunk, BufPut(n)
    PROVE  n \in 1..Size /\ Fifo!Enqueue(n)
<1>1. n \in 1..Size
  BY CountFacts, BufAssumption DEF BufPut, IInv
<1>2. BufCount' = BufCount + n
  BY <1>1, CountAfterPut DEF IInv, BufPut
<1> QED BY <1>1, <1>2, Enqueues DEF BufPut

\* buf_get() is a Dequeue of the FIFO.
LEMMA GetRefines ==
    ASSUME IInv, IInv', NEW n \in 1..MaxChunk, BufGet(n)
    PROVE  n \in 1..Size /\ Fifo!Dequeue(n)
<1> DEFINE chunk == [j \in 1..n |-> data[SlotOf(out, n, j - 1)]]
<1>1. /\ n \in 1..Size /\ n <= BufCount /\ BufCount \in 0..Size
      /\ out \in 0..Size /\ Len(delivered) \in Nat /\ delivered \in Seq(Nat)
  BY CountFacts, BufAssumption DEF BufGet, IInv, TypeOK
<1>2. ASSUME NEW j \in 1..n
      PROVE  data[SlotOf(out, n, j - 1)] = Len(delivered) + j
  <2>1. /\ n \in 0..(Size + 1) /\ j - 1 \in 0..(n - 1)
        /\ j - 1 \in 0..(BufCount - 1)
    BY <1>1, BufAssumption
  <2>2. SlotOf(out, n, j - 1) = Advance(out, j - 1)
    BY <2>1, <1>1, SlotIsAdvance
  <2>3. data[Advance(out, j - 1)] = Len(delivered) + (j - 1) + 1
    BY <2>1 DEF IInv, StreamIntact, ContentsInOrder
  <2> QED BY <2>2, <2>3, <1>1
<1>3. chunk = Stretch(Len(delivered), n)
  BY <1>2 DEF Stretch
<1>4. delivered' = delivered \o chunk
  BY DEF BufGet
<1>5. chunk \in Seq(Nat) /\ Len(chunk) = n
  BY <1>1, <1>3 DEF Stretch
<1> HIDE DEF chunk
<1>6. Len(delivered') = Len(delivered) + n
  BY <1>1, <1>4, <1>5, ConcatProperties
<1>7. BufCount' = BufCount - n
  BY <1>1, CountAfterGet DEF IInv, BufGet
<1> QED BY <1>1, <1>3, <1>4, <1>6, <1>7, Dequeues

\* The sender's buf->out += size, after the I/O, is a Dequeue of the FIFO.
LEMMA DrainEndRefines ==
    ASSUME IInv, IInv', DrainEnd
    PROVE  leased \in 1..Size /\ Fifo!Dequeue(leased)
<1>1. /\ BufCount \in 0..Size /\ leased <= BufCount /\ leased \in 1..Size
      /\ leased \in Nat
      /\ moved = leased /\ iobytes \in Seq(Nat) /\ Len(iobytes) = leased
      /\ delivered \in Seq(Nat) /\ Len(delivered) \in Nat
  <2>1. BufCount \in 0..Size
    BY CountFacts DEF IInv
  <2>2. use = "send" /\ leased \in Nat /\ leased > 0 /\ moved = leased
    BY DEF IInv, TypeOK, DrainEnd
  <2>3. leased <= BufCount /\ leased \in 1..Size
    BY <2>1, <2>2, BufAssumption DEF IInv, LeaseIsSafe
  <2>4. iobytes \in Seq(Nat) /\ Len(iobytes) = leased
    BY <2>2 DEF IInv, TypeOK, StreamIntact, IOBytesAreNext
  <2>5. delivered \in Seq(Nat) /\ Len(delivered) \in Nat
    BY DEF IInv, TypeOK
  <2> QED BY <2>1, <2>2, <2>3, <2>4, <2>5
<1>2. \A j \in 1..leased : iobytes[j] = Len(delivered) + j
  BY <1>1 DEF IInv, StreamIntact, IOBytesAreNext
<1>3. iobytes = Stretch(Len(delivered), leased)
  BY <1>1, <1>2 DEF Stretch
<1>4. delivered' = delivered \o iobytes
  BY DEF DrainEnd
<1>5. Len(delivered') = Len(delivered) + leased
  BY <1>1, <1>4, ConcatProperties
<1>6. BufCount' = BufCount - leased
  BY <1>1, CountAfterGet DEF IInv, DrainEnd
<1> QED BY <1>1, <1>3, <1>4, <1>5, <1>6, Dequeues

\* The receiver's buf->in += len, after the I/O, is an Enqueue of the FIFO.
LEMMA FillEndRefines ==
    ASSUME IInv, IInv', FillEnd
    PROVE  leased \in 1..Size /\ Fifo!Enqueue(leased)
<1>1. leased \in 1..Size /\ leased <= BufAvail /\ leased \in Nat
  BY CountFacts, BufAssumption DEF IInv, TypeOK, LeaseIsSafe, FillEnd
<1>2. BufCount' = BufCount + leased
  BY <1>1, CountAfterPut DEF IInv, FillEnd
<1> QED BY <1>1, <1>2, Enqueues DEF FillEnd

\* Every step of the two threads is a step of the FIFO, or invisible.
LEMMA StepRefines ==
    IInv /\ IInv' /\ [Next]_vars => [Fifo!Next]_(Fifo!vars)
<1> SUFFICES ASSUME IInv, IInv', [Next]_vars
             PROVE  Fifo!Next \/ UNCHANGED Fifo!vars
  OBVIOUS
<1>1. ASSUME NEW n \in 1..MaxChunk, BufPut(n) PROVE Fifo!Next
  BY <1>1, PutRefines DEF Fifo!Next
<1>2. ASSUME NEW n \in 1..MaxChunk, BufGet(n) PROVE Fifo!Next
  BY <1>2, GetRefines DEF Fifo!Next
<1>3. ASSUME NEW n \in 1..MaxChunk, DrainBegin(n) PROVE UNCHANGED Fifo!vars
  BY <1>3, Stutters DEF DrainBegin, BufCount
<1>4. ASSUME NEW n \in 1..MaxChunk, FillBegin(n) PROVE UNCHANGED Fifo!vars
  BY <1>4, Stutters DEF FillBegin, BufCount
<1>5. CASE DrainByte
  BY <1>5, Stutters DEF DrainByte, BufCount
<1>6. CASE DrainEnd
  BY <1>6, DrainEndRefines DEF Fifo!Next
<1>7. CASE FillByte
  BY <1>7, Stutters DEF FillByte, BufCount
<1>8. CASE FillEnd
  BY <1>8, FillEndRefines DEF Fifo!Next
<1>9. CASE UNCHANGED vars
  BY <1>9, Stutters DEF vars, BufCount
<1> QED
  BY <1>1, <1>2, <1>3, <1>4, <1>5, <1>6, <1>7, <1>8, <1>9 DEF Next

\* An empty buffer is an empty FIFO.
LEMMA InitRefines == Init => Fifo!Init
BY BufAssumption DEF Init, Fifo!Init, BufCount

\* For every buffer size, `struct buf' with its two users is a bounded FIFO
\* queue of bytes: that the I/O runs without the lock, and that an access is
\* split where the array wraps, cannot be seen from outside.
THEOREM BufferRefinesFifo == Spec => ImplementsFifo
<1>1. Init /\ [][Next]_vars /\ []IInv => [][Fifo!Next]_(Fifo!vars)
  BY StepRefines, PTL
<1> QED BY <1>1, InitRefines, Invariant, PTL DEF Spec, ImplementsFifo, Fifo!Spec
=============================================================================
