----------------------------- MODULE TaskGraph -----------------------------
(***************************************************************************)
(* The dependency graph of a task: state.ts `topological`,                 *)
(* `versionsCurrent` and the closure loop of `invalidateDescendants`.      *)
(*                                                                         *)
(* A graph is a function from nodes to sets of nodes.  The closures are    *)
(* written as intersections of closed sets instead of loops, so that a     *)
(* proof about them needs no induction over a recursive operator.          *)
(***************************************************************************)
EXTENDS Integers, FiniteSets

CONSTANT Node                  \* identifiers a task may use for its nodes

Graph == [Node -> SUBSET Node]

\* T contains every successor of its members.
Closed(R, T) == \A x \in T : R[x] \subseteq T

\* The least set that contains S and is closed under R.
Reach(R, S) ==
  {n \in Node : \A T \in SUBSET Node : S \subseteq T /\ Closed(R, T) => n \in T}

\* The nodes that name m in their dependsOn list.
Users(dep) == [m \in Node |-> {n \in Node : m \in dep[n]}]

\* The set `invalid` when the loop of invalidateDescendants has stabilised.
Descendants(dep, S) == Reach(Users(dep), S)

\* What `topological(nodes, ids)` visits, the ids included.
Ancestors(dep, S) == Reach(dep, S)

\* `topological` throws DEPENDENCY_CYCLE exactly when some nonempty set of
\* nodes has no member without a dependency inside the set.
Acyclic(dep) ==
  \A S \in SUBSET Node \ {{}} : {n \in S : dep[n] \cap S = {}} # {}

\* Node statuses that withdraw a version from use.
Withdrawn == {"stale", "cancelled", "rejected", "failed", "unknown"}

\* `versionsCurrent(state, versions)`.  A version map gives 0 to the nodes it
\* does not mention; a node that does not exist has version 0.
VersionsCurrent(ver, nstat, versions) ==
  \A m \in Node : versions[m] # 0 => ver[m] = versions[m] /\ nstat[m] \notin Withdrawn
=============================================================================
