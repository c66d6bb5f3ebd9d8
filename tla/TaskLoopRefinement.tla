------------------------- MODULE TaskLoopRefinement -------------------------
(***************************************************************************)
(* TaskLoop implements Authority.  A run is open from the moment its       *)
(* intent is recorded until native ends, refuses or loses it, or the race  *)
(* of Crossed drops it; results are offered by the state in memory and by  *)
(* the one on disk, from which a reopened session would offer them again.  *)
(***************************************************************************)
EXTENDS TaskLoop

Lifecycle ==
  [a \in Attempt |-> IF proc[a] = "none" THEN "none"
                     ELSE IF a \in Occupied THEN "open" ELSE "over"]

Results(stats, atts) ==
  {<<n, atts[n]>> : n \in {m \in Node : stats[m] \in {"returned", "admitted"}}}

Abstract == INSTANCE Authority WITH
  Run     <- Attempt,
  PoolOf  <- [a \in Attempt |-> Pool[a[1]]],
  Limit   <- Cap,
  run     <- Lifecycle,
  valid   <- Launched \ voided,
  offered <- Results(nstat, att) \cup Results(durable.nstat, durable.att),
  done    <- status = "complete"

\* The controller, with its late acknowledgements, crashes, failing checkpoints
\* and reopened sessions, keeps the promises of Authority.
Implements == Abstract!Spec
=============================================================================
