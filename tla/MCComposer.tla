----------------------------- MODULE MCComposer -----------------------------
(* Session ids are interchangeable: the runs of safety properties use that. *)
EXTENDS Composer
CONSTANTS s1, s2
Ids == Permutations({s1, s2})
\* Three messages in one place, or fewer and the user, a process or a dialog
\* moves in between.
Scenarios == Len(home) + used <= 3
=============================================================================
