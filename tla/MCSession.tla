----------------------------- MODULE MCSession -----------------------------
(* One browser by itself, for the run signIn.                              *)
EXTENDS Session
=============================================================================
