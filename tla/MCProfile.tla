----------------------------- MODULE MCProfile -----------------------------
(* Two tasks that deliver the same bytes, and a third that does not. *)
EXTENDS Profile, TLC
CONSTANTS a1, a2
MCPatchOf == <<a1, a1, a2>>
Symmetry == Permutations(Proc)
=============================================================================
