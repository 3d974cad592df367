------------------------------ MODULE MCMuxLife -----------------------------
(* Instances of MuxLife for TLC.                                           *)
EXTENDS MuxLife
=============================================================================
