----------------------------- MODULE MCSession ------------------------------
(* Session on small instances: the constants are given in the .cfg files.   *)
EXTENDS Session
=============================================================================
