----------------------------- MODULE MCTaskLoop -----------------------------
(***************************************************************************)
(* Small instances of TaskLoop: two nodes in pools of their own, of which  *)
(* the second may depend on the first.                                     *)
(***************************************************************************)
EXTENDS TaskLoopRefinement

CONSTANTS n1, n2, gemini, flash

TwoNodes  == {n1, n2}
OneNode   == {n1}
Pools     == [n \in Node |-> IF n = n1 THEN flash ELSE gemini]
OneSlot   == [p \in PoolName |-> 1]
Flat      == [n \in Node |-> {}]
Chain     == [n \in Node |-> IF n = n2 THEN {n1} ELSE {}]
FlatOnly  == {Flat}
FlatOrChain == {Flat, Chain}

\* Both nodes within one authority, declared together: each started once, and
\* redefined and rejected when the second needs the first.
TwoNodesOnce ==
  /\ rev <= 1 /\ gen <= 1 /\ phase = "up" /\ ~failed /\ crashes = 0 /\ dirless = {}
  /\ \A n \in Node : tries[n] <= 1
  /\ Present = {} \/ (Present = TwoNodes /\ (dep = Chain \/ \A n \in Node : ver[n] <= 1))

\* One node through revisions, stops, failed checkpoints, an end of the
\* process, reopenings, resumes and retries; the crash and the directory that
\* cannot be resolved within one revision.
OneNodeOn == Present \subseteq {n1} /\ (rev = 1 \/ (crashes = 0 /\ dirless = {}))

\* One of two nodes is launched by a dispatch in which the other fails, and
\* both are revised.
Faulted ==
  /\ rev = gen /\ gen <= 2 /\ phase = "up" /\ ~failed /\ crashes = 0 /\ dirless = {}
  /\ dep = Flat /\ ver[n1] = ver[n2] /\ tries[n2] = 0
  /\ \A n \in Node : nstat[n] \notin {"rejected", "admitted"}

Scenarios == TwoNodesOnce \/ OneNodeOn \/ Faulted
=============================================================================
