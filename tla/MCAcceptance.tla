---------------------------- MODULE MCAcceptance ----------------------------
(* Two patches, a selection and a review, in three scenarios.              *)
EXTENDS Acceptance, TLC

CONSTANTS
  p, q, s, r,  \* nodes: two to patch, a selection, a review
  c            \* a counterexample of the owner

Kinds == (p :> "patch") @@ (q :> "patch") @@ (s :> "select") @@ (r :> "review")

\* Within one authority: a graph of two patches, redefined, retried, checked
\* and staged, or one patch with a counterexample in a changing environment.
Building ==
  /\ Present \subseteq {p, q} /\ rev = 1 /\ gen = 1 /\ Cardinality(obs) <= 1
  /\ q \in Present => open = {} /\ resolved = {} /\ env = 0

\* A result and a selection over it, through revisions, stops and reopenings.
Selecting ==
  /\ Present \subseteq {p, s} /\ open = {} /\ resolved = {} /\ obs = {}
  /\ op = None /\ stages = 0 /\ env = 0

\* A patch and a review of it, through stops and reopenings, without what
\* cannot lead to a delivery: failed checks, reads, unsupported admissions.
Delivering ==
  /\ Present \subseteq {p, r} /\ \A n \in Node : ver[n] <= 1
  /\ rev = 1 /\ env = 0 /\ c \notin open /\ \A x \in resolved : x.id # c
  /\ gen = MaxGen => status # "stopped"
  /\ level[p] # "hypothesis" /\ \A o \in obs : o.kind = "command" /\ o.passed

Scenarios == Building \/ Selecting \/ Delivering
=============================================================================
