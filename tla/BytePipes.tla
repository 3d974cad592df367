----------------------------- MODULE BytePipes -----------------------------
(***************************************************************************)
(* What the multiplexer promises the threads above it: every direction of  *)
(* every channel is a reliable byte pipe of bounded capacity that can be   *)
(* shut by its writer, and whose reader learns of that only after it has   *)
(* taken out the last byte.  Bytes are counted, not named: the pipe never  *)
(* reorders them.                                                          *)
(***************************************************************************)
EXTENDS Naturals

CONSTANTS
    Dirs,      \* the directions: one for each channel and each writing end
    Capacity   \* how far a writer can get ahead of its reader

VARIABLES
    sent,      \* sent[d]: bytes written so far
    received,  \* received[d]: bytes read so far
    shut,      \* shut[d]: the writer closed its side
    ended      \* ended[d]: the reader was told that there is no more

vars == <<sent, received, shut, ended>>

Init ==
    /\ sent = [d \in Dirs |-> 0]
    /\ received = [d \in Dirs |-> 0]
    /\ shut = [d \in Dirs |-> FALSE]
    /\ ended = [d \in Dirs |-> FALSE]

Write(d) ==
    /\ ~shut[d]
    /\ \E n \in 1..(Capacity - (sent[d] - received[d])) :
         sent' = [sent EXCEPT ![d] = sent[d] + n]
    /\ UNCHANGED <<received, shut, ended>>

Read(d) ==
    /\ ~ended[d]
    /\ \E n \in 1..(sent[d] - received[d]) :
         received' = [received EXCEPT ![d] = received[d] + n]
    /\ UNCHANGED <<sent, shut, ended>>

Shut(d) ==
    /\ ~shut[d]
    /\ shut' = [shut EXCEPT ![d] = TRUE]
    /\ UNCHANGED <<sent, received, ended>>

End(d) ==
    /\ shut[d]
    /\ received[d] = sent[d]
    /\ ended' = [ended EXCEPT ![d] = TRUE]
    /\ UNCHANGED <<sent, received, shut>>

Next == \E d \in Dirs : Write(d) \/ Read(d) \/ Shut(d) \/ End(d)

Spec == Init /\ [][Next]_vars
=============================================================================
