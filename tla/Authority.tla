------------------------------ MODULE Authority ------------------------------
(***************************************************************************)
(* What the loop promises about the native runs it starts, whatever its    *)
(* processes, checkpoints and acknowledgements do:                         *)
(*                                                                         *)
(*  - runs are opened within the capacity of their pool and never while    *)
(*    the task is complete;                                                *)
(*  - a run that is over never runs again;                                 *)
(*  - a result is offered only of a run that is over and that still has    *)
(*    the authority under which it was opened; authority is never given    *)
(*    back;                                                                *)
(*  - a task is complete only while no run is open.                        *)
(*                                                                         *)
(* The state is what an observer of the native side and of the session     *)
(* sees.  Nothing here is asynchronous and nothing fails.                  *)
(***************************************************************************)
EXTENDS Integers, FiniteSets

CONSTANTS
  Run,      \* the runs that may ever be opened
  PoolOf,   \* the pool of each run
  Limit     \* capacity of each pool

VARIABLES
  run,      \* "none", "open", "over"
  valid,    \* opened runs whose result may still be offered
  offered,  \* runs whose result is offered to the owner, or recorded as offered
  done      \* the task is complete

vars == <<run, valid, offered, done>>

IsOpen == {r \in Run : run[r] = "open"}
Fits(open) ==
  \A r \in open : Cardinality({s \in open : PoolOf[s] = PoolOf[r]}) <= Limit[PoolOf[r]]

Init == run = [r \in Run |-> "none"] /\ valid = {} /\ offered = {} /\ done = FALSE

\* New runs, with authority.
Open(S) ==
  /\ S # {} /\ ~done /\ \A r \in S : run[r] = "none"
  /\ Fits(IsOpen \cup S)
  /\ run' = [r \in Run |-> IF r \in S THEN "open" ELSE run[r]]
  /\ valid' = valid \cup S
  /\ offered' \subseteq offered
  /\ UNCHANGED done

\* Runs end, are refused, or are lost; the result of another may be withdrawn.
Close(S) ==
  /\ S \subseteq IsOpen
  /\ run' = [r \in Run |-> IF r \in S THEN "over" ELSE run[r]]
  /\ offered' \subseteq offered
  /\ UNCHANGED <<valid, done>>

\* The result of a run is offered.
Offer(r) ==
  /\ run[r] = "over" /\ r \in valid
  /\ r \in offered' /\ offered' \subseteq offered \cup {r}
  /\ UNCHANGED <<run, valid, done>>

\* Authority and results are withdrawn; the task is completed, or another begins.
Withdraw ==
  /\ valid' \subseteq valid /\ offered' \subseteq offered
  /\ done' \in BOOLEAN /\ (done' => IsOpen = {})
  /\ UNCHANGED run

Next ==
  \/ \E S \in SUBSET Run : Open(S) \/ Close(S)
  \/ \E r \in Run : Offer(r)
  \/ Withdraw
Spec == Init /\ [][Next]_vars
=============================================================================
