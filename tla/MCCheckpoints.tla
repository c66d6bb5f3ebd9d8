--------------------------- MODULE MCCheckpoints ---------------------------
(* Two turns of one chat over two files, and two reverts of one of them.    *)
EXTENDS Checkpoints, TLC

Symmetry == Permutations(Path) \cup Permutations(Revert)

Sent  == {t \in Turn : turns[t] # "new"}
Tried == {r \in Revert : op[<<r, "revert">>] # "none"}

\* One turn and its reverts with one fault, or two turns with two.
Scenarios == \/ Cardinality(Sent) <= 1 /\ faults <= 1
             \/ Tried = {} /\ Len(author) <= 1
=============================================================================
