------------------------------ MODULE ByteFifo ------------------------------
(***************************************************************************)
(* What a `struct buf' of mux.c promises the two threads that share it: a  *)
(* bounded first-in first-out queue of bytes.  A byte is identified by its *)
(* position in the stream the producer writes, so "the right bytes in the  *)
(* right order" is visible in the values.                                  *)
(***************************************************************************)
EXTENDS Naturals, Sequences

CONSTANT Capacity   \* buf->size

VARIABLES
    queue,      \* the bytes put in and not taken out yet, oldest first
    delivered   \* every byte the consumer has taken out, oldest first

vars == <<queue, delivered>>

\* The next n bytes of the producer's stream.
Fresh(n) == [i \in 1..n |-> Len(delivered) + Len(queue) + i]

Init ==
    /\ queue = <<>>
    /\ delivered = <<>>

Enqueue(n) ==
    /\ Len(queue) + n <= Capacity
    /\ queue' = queue \o Fresh(n)
    /\ UNCHANGED delivered

Dequeue(n) ==
    /\ n <= Len(queue)
    /\ delivered' = delivered \o SubSeq(queue, 1, n)
    /\ queue' = SubSeq(queue, n + 1, Len(queue))

Next == \E n \in 1..Capacity : Enqueue(n) \/ Dequeue(n)

Spec == Init /\ [][Next]_vars
=============================================================================
