----------------------------- MODULE MCSession -----------------------------
(* A session for TLC: messages and kernels are numbers, in the order in    *)
(* which they are given and made, so that there is no symmetry to use.     *)
EXTENDS Session
=============================================================================
