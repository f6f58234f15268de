------------------------------- MODULE Absent -------------------------------
(* What stands for undefined and null where nothing is there.              *)
CONSTANT None
=============================================================================
