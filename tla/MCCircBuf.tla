----------------------------- MODULE MCCircBuf ------------------------------
(* The instance of CircBuf for TLC: both kinds of buffer in one run.       *)
EXTENDS CircBuf
=============================================================================
