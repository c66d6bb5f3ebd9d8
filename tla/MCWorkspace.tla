---------------------------- MODULE MCWorkspace ----------------------------
(* The files that the patch touches differ in nothing but their name. *)
EXTENDS Workspace, TLC
Symmetry == Permutations(Touched)
=============================================================================
