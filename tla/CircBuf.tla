------------------------------ MODULE CircBuf -------------------------------
(***************************************************************************)
(* The circular buffer of mux.c (`struct buf' and the buf_* functions) and *)
(* the one producer and one consumer that share it.  A channel has two of  *)
(* them, used in opposite ways:                                            *)
(*                                                                         *)
(*   sendbuf   chan_write() puts bytes in under the channel lock; the      *)
(*             sender thread picks a size under the lock, hands the slots  *)
(*             themselves to writev() WITHOUT the lock, and only then      *)
(*             takes the lock again and advances buf->out;                 *)
(*   recvbuf   the receiver thread checks the room under the lock, lets    *)
(*             read() store into the slots WITHOUT the lock, and only then *)
(*             advances buf->in; chan_read() takes bytes out under it.     *)
(*                                                                         *)
(* The variable use says which of the two it is.  An action is one         *)
(* critical section of the channel lock, or one byte of unlocked I/O.  A   *)
(* byte is its position in the stream written; the position 0 is the       *)
(* uninitialized content of the malloc()ed array.                          *)
(***************************************************************************)
EXTENDS Naturals, Sequences

CONSTANTS
    Size,      \* buf->size: CHAN_SBSIZE or CHAN_RBSIZE
    MaxChunk,  \* the largest piece one call moves (sendmss, recvmss, a size)
    MaxBytes   \* bound: how many bytes the producer writes in all

ASSUME BufAssumption ==
    /\ Size \in Nat \ {0}
    /\ MaxChunk \in Nat \ {0}
    /\ MaxBytes \in Nat

VARIABLES
    use,        \* "send" for a sendbuf, "recv" for a recvbuf
    data,       \* buf->data, Size + 1 slots
    in,         \* buf->in
    out,        \* buf->out
    leased,     \* bytes of the unlocked I/O under way, 0 when there is none
    moved,      \* how many of them it has moved so far
    iobytes,    \* what writev() has read from the slots so far ("send")
    produced,   \* history: bytes the producer has put in
    delivered   \* history: the bytes the consumer has taken out, in order

vars == <<use, data, in, out, leased, moved, iobytes, produced, delivered>>

-----------------------------------------------------------------------------
(* Helpers *)

Min2(a, b) == IF a <= b THEN a ELSE b

\* Three mutants: an index that does not wrap, a buffer filled to the last
\* slot, a first piece that stops one slot short of the end of the array.
AdvanceNoWrap(i, n) == i + n
BufAvailNoGap == IF out > in THEN out - in ELSE Size + 1 + out - in
FirstPartShort(i, n) == Min2(n, Size - i)

\* buf->in += n, or buf->out += n, with its wrap-around.
Advance(i, n) == IF i + n > Size THEN i + n - (Size + 1) ELSE i + n

BufCount == IF in >= out THEN in - out ELSE Size + 1 + in - out

BufAvail == IF out > in THEN out - in - 1 ELSE Size + out - in

\* n bytes starting at index i are moved in two pieces (memcpy()s, iovecs or
\* reads), before and after the wrap: the size of the first, the slot of byte j.
FirstPart(i, n) == Min2(n, Size + 1 - i)
SlotOf(i, n, j) == IF j < FirstPart(i, n) THEN i + j ELSE j - FirstPart(i, n)

-----------------------------------------------------------------------------

Init ==
    /\ use \in {"send", "recv"}
    /\ data = [i \in 0..Size |-> 0]
    /\ in = 0
    /\ out = 0
    /\ leased = 0
    /\ moved = 0
    /\ iobytes = <<>>
    /\ produced = 0
    /\ delivered = <<>>

\* buf_put(), called by chan_write() with the channel locked.
BufPut(n) ==
    /\ use = "send"
    /\ n <= BufAvail
    /\ produced + n <= MaxBytes
    /\ LET first == FirstPart(in, n) IN
         data' = [i \in 0..Size |->
                    IF in <= i /\ i < in + first THEN produced + 1 + i - in
                    ELSE IF i < n - first THEN produced + 1 + first + i
                    ELSE data[i]]
    /\ in' = Advance(in, n)
    /\ produced' = produced + n
    /\ UNCHANGED <<use, out, leased, moved, iobytes, delivered>>

\* buf_get(), called by chan_read() with the channel locked.
BufGet(n) ==
    /\ use = "recv"
    /\ n <= BufCount
    /\ delivered' = delivered \o [j \in 1..n |-> data[SlotOf(out, n, j - 1)]]
    /\ out' = Advance(out, n)
    /\ UNCHANGED <<use, data, in, leased, moved, iobytes, produced>>

\* The sender thread builds a data packet: it fixes the size and the slots
\* under the lock, then unlocks for the I/O.
DrainBegin(n) ==
    /\ use = "send"
    /\ leased = 0
    /\ n <= BufCount
    /\ leased' = n
    /\ moved' = 0
    /\ UNCHANGED <<use, data, in, out, iobytes, produced, delivered>>

\* writev() picks up the next byte, without the lock.
DrainByte ==
    /\ use = "send"
    /\ moved < leased
    /\ iobytes' = Append(iobytes, data[SlotOf(out, leased, moved)])
    /\ moved' = moved + 1
    /\ UNCHANGED <<use, data, in, out, leased, produced, delivered>>

\* writev() is over: buf->out += size under the lock.
DrainEnd ==
    /\ use = "send"
    /\ leased > 0
    /\ moved = leased
    /\ delivered' = delivered \o iobytes
    /\ out' = Advance(out, leased)
    /\ leased' = 0
    /\ moved' = 0
    /\ iobytes' = <<>>
    /\ UNCHANGED <<use, data, in, produced>>

\* The receiver thread accepts a data packet of n bytes: the check for room
\* is made under the lock, then it unlocks for the I/O.
FillBegin(n) ==
    /\ use = "recv"
    /\ leased = 0
    /\ n <= BufAvail
    /\ produced + n <= MaxBytes
    /\ leased' = n
    /\ moved' = 0
    /\ UNCHANGED <<use, data, in, out, iobytes, produced, delivered>>

\* read() stores the next byte, without the lock.
FillByte ==
    /\ use = "recv"
    /\ moved < leased
    /\ data' = [data EXCEPT ![SlotOf(in, leased, moved)] = produced + moved + 1]
    /\ moved' = moved + 1
    /\ UNCHANGED <<use, in, out, leased, iobytes, produced, delivered>>

\* The payload is in: buf->in += len under the lock.
FillEnd ==
    /\ use = "recv"
    /\ leased > 0
    /\ moved = leased
    /\ in' = Advance(in, leased)
    /\ produced' = produced + leased
    /\ leased' = 0
    /\ moved' = 0
    /\ UNCHANGED <<use, data, out, iobytes, delivered>>

Next ==
    \/ \E n \in 1..MaxChunk :
         BufPut(n) \/ BufGet(n) \/ DrainBegin(n) \/ FillBegin(n)
    \/ DrainByte
    \/ DrainEnd
    \/ FillByte
    \/ FillEnd

Spec == Init /\ [][Next]_vars

-----------------------------------------------------------------------------
(* Properties *)

\* The buffer indices stay inside the array, one slot always unused, and no
\* unlocked I/O moves more bytes than it announced.
TypeOK ==
    /\ use \in {"send", "recv"}
    /\ data \in [0..Size -> Nat]
    /\ in \in 0..Size
    /\ out \in 0..Size
    /\ leased \in Nat
    /\ moved \in 0..leased
    /\ iobytes \in Seq(Nat)
    /\ produced \in Nat
    /\ delivered \in Seq(Nat)

\* "It's safe to unlock here during I/O" (comments in sender_loop and
\* receiver_loop): the slots the unlocked I/O uses stay out of reach of the
\* other thread for as long as the I/O lasts.
LeaseIsSafe ==
    IF use = "send" THEN leased <= BufCount ELSE leased <= BufAvail

\* The slots from out to in hold the bytes put in and not taken out.
ContentsInOrder ==
    /\ produced = Len(delivered) + BufCount
    /\ \A j \in 0..(BufCount - 1) :
         data[Advance(out, j)] = Len(delivered) + j + 1

\* What writev() has read so far is the next bytes of the stream, although
\* chan_write() may have put more in meanwhile.
IOBytesAreNext ==
    /\ Len(iobytes) = (IF use = "send" THEN moved ELSE 0)
    /\ \A j \in 1..Len(iobytes) : iobytes[j] = Len(delivered) + j

\* What read() has stored so far continues the stream behind buf->in,
\* although chan_read() may have taken some out meanwhile.
FilledAreNext ==
    use = "recv" =>
      \A j \in 0..(moved - 1) : data[Advance(in, j)] = produced + j + 1

\* Whatever interleaving of locked and unlocked accesses led here, no byte is
\* lost, duplicated or reordered: in the array, in the I/O under way, and in
\* what came out (buf_put, buf_get, sender_loop, receiver_loop and all their
\* wrap-arounds).
StreamIntact ==
    /\ ContentsInOrder
    /\ IOBytesAreNext
    /\ FilledAreNext
    /\ \A j \in 1..Len(delivered) : delivered[j] = j

\* The buffer implements the abstract FIFO: unlocked I/O is invisible.
Fifo == INSTANCE ByteFifo WITH
    Capacity <- Size,
    queue    <- [j \in 1..BufCount |-> data[Advance(out, j - 1)]]

ImplementsFifo == Fifo!Spec
=============================================================================
