---------------------------- MODULE MCAgentPool ----------------------------
(* Sessions are interchangeable, and so are processes. *)
EXTENDS AgentPool, TLC
CONSTANTS s1, s2, s3, p1, p2, p3, p4
Same == Permutations({s1, s2, s3} \cap Session) \cup Permutations({p1, p2, p3, p4} \cap Process)
=============================================================================
