------------------------------- MODULE MCMux --------------------------------
(* Instances of Mux for TLC.                                               *)
EXTENDS Mux

\* Bytes written at each side.
TotalUp == [k \in Sides |-> IF k[1] = "client" THEN 3 ELSE 1]
TotalTwoMin == [k \in Sides |-> IF k[1] = "client" THEN 0 ELSE 1]
=============================================================================
