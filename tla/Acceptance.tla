----------------------------- MODULE Acceptance -----------------------------
(***************************************************************************)
(* From a returned result to a delivered one: the observations, admission, *)
(* staging, reviews, counterexamples and finish() of controller.ts.        *)
(*                                                                         *)
(* Candidates are identified by the versions of the nodes they are built   *)
(* from (nodeVersions); the tree hash the code compares as well is a       *)
(* function of them.  A node that was launched is "running" until its      *)
(* attempt settles: native runs, orphans and capacity are TaskLoop's.      *)
(* Every method but check, select and review changes the state without an  *)
(* await and ends in a checkpoint, so that memory and session file agree.  *)
(*                                                                         *)
(* The model allows more than the code where data is left out: patches     *)
(* that conflict, rival alternatives, a changed origin, malformed input    *)
(* and a mutationBusy dispatch refuse steps that are possible here.        *)
(***************************************************************************)
EXTENDS TaskGraph

CONSTANTS
  Kind,            \* inspect, patch, select or review
  Counterexample,  \* identifiers loop_counterexample may use
  Choices,         \* how many results a selection compares, at least (2)
  None,            \* absence of an optional field
  MaxRev, MaxGen, MaxVer, MaxObs, MaxStage, MaxEnv   \* exploration bounds

ASSUME AcceptanceAssumption ==
  /\ Kind \in [Node -> {"inspect", "patch", "select", "review"}]
  /\ Choices \in Nat
  /\ MaxRev \in Nat \ {0} /\ MaxGen \in Nat \ {0} /\ MaxVer \in Nat
  /\ MaxObs \in Nat /\ MaxStage \in Nat /\ MaxEnv \in Nat

Versions == [Node -> 0 .. MaxVer]
NoInput  == [m \in Node |-> 0]
Attempts == [rev : 0 .. MaxRev, gen : 0 .. MaxGen, ver : 0 .. MaxVer, inputs : Versions]
NoAttempt == [rev |-> 0, gen |-> 0, ver |-> 0, inputs |-> NoInput]

\* A StageRef.  Its id is the origin commit (0) when no node is staged, and is
\* unique otherwise.
Stages  == [id : 0 .. MaxStage, vers : Versions]
NodeStatus == {"absent", "pending", "running", "returned", "admitted"} \cup Withdrawn

VARIABLES
  rev, gen,     \* state.revision, state.generation
  status,       \* "running", "stopped" (any latched status) or "complete"
  dep, ver, nstat,
  made,         \* node.attempt: the authority and the versions it was made for
  level,        \* node.admission.level
  verdict,      \* the verdict parseReview finds in the report of a review node
  reviewFor,    \* node.reviewFor
  sources,      \* node.selectionSources
  stage, stages,     \* state.stage; the number of stage ids used
  reviews,      \* state.reviews
  obs,          \* state.observations
  open,         \* ids in state.unresolved
  resolved,     \* recorded resolutions of counterexamples
  op,           \* what the check in flight captured, or None
  unbound,      \* what select() or review() captured before awaiting define()
  env,          \* environmentIdentity
  attempted     \* history: the versions of nodes that were launched

vars == <<rev, gen, status, dep, ver, nstat, made, level, verdict, reviewFor, sources, stage,
          stages, reviews, obs, open, resolved, op, unbound, env, attempted>>
graphVars  == <<dep, ver, nstat, made, level>>
reportVars == <<verdict, reviewFor, sources, attempted>>
cexVars    == <<open, resolved>>
authority  == <<rev, gen, status>>

-----------------------------------------------------------------------------
(* Reading the state *)

Current == status = "running"
Present == {n \in Node : ver[n] # 0}
Usable(n) == nstat[n] \in {"returned", "admitted"}
InputsCurrent(n) == VersionsCurrent(ver, nstat, made[n].inputs)

\* buildCandidate(ids, allowReturned) succeeds, and its nodeVersions.
\*   (Mutant: allowReturned is ignored.)
BuildableReturned(S, allowReturned) ==
  \A n \in Ancestors(dep, S) : Usable(n) /\ InputsCurrent(n)
Buildable(S, allowReturned) ==
  \A n \in Ancestors(dep, S) :
    /\ nstat[n] = "admitted" \/ (allowReturned /\ n \in S /\ nstat[n] = "returned")
    /\ InputsCurrent(n)
Candidate(S) == [m \in Node |-> IF m \in Ancestors(dep, S) THEN ver[m] ELSE 0]

StageCurrent == stage # None /\ VersionsCurrent(ver, nstat, stage.vers)

\* target(name): returned nodes and the current stage.
Targets ==
  {[key |-> n, vers |-> Candidate({n})] : n \in {m \in Node : Usable(m) /\ Buildable({m}, TRUE)}}
    \cup (IF StageCurrent THEN {[key |-> stage.id, vers |-> stage.vers]} ELSE {})

\* observed(id, target)
Observed(o, target) ==
  /\ o.rev = rev /\ o.gen = gen /\ VersionsCurrent(ver, nstat, o.vers)
  /\ o.key = target.key /\ o.vers = target.vers
  /\ o.kind = "command" => o.env = env

\* ready(node)
Ready(n) ==
  /\ nstat[n] \in {"pending", "stale"}
  /\ IF Kind[n] = "select"
       THEN \A m \in Node : sources[n][m] # 0 => ver[m] = sources[n][m] /\ Usable(m)
       ELSE \A m \in dep[n] : nstat[m] = "admitted" /\ InputsCurrent(m)

\* inputVersions of a new attempt: those of its base, its selection sources.
InputsOf(n) ==
  IF Kind[n] = "select" THEN sources[n]
  ELSE IF reviewFor[n] # None THEN reviewFor[n].vers
  ELSE Candidate(dep[n])

-----------------------------------------------------------------------------
(* invalidateDescendants *)

Invalid(S) == Descendants(dep, S) \cap Present
Bump(S) == [n \in Node |-> IF n \in S THEN ver[n] + 1 ELSE ver[n]]
SetStat(S, s) == [n \in Node |-> IF n \in S THEN s ELSE nstat[n]]
Unlevel(S) == [n \in Node |-> IF n \in S THEN "none" ELSE level[n]]

StageAfter(S) ==
  IF stage # None /\ \E n \in S : stage.vers[n] # 0 THEN None ELSE stage
ReviewsAfter(S) == {r \in reviews : r.node \notin S}

-----------------------------------------------------------------------------
(* The graph and its results *)

\* The version define() gives to a contract it replaces: changed contracts and
\* stale nodes have had theirs already.
\*   (Mutant: a contract that is only retried keeps its version.)
RedefinedKept(n, changed) == IF n \in Present THEN ver[n] ELSE 1
Redefined(n, changed) ==
  IF n \notin Present THEN 1 ELSE IF changed \/ nstat[n] = "stale" THEN ver[n] ELSE ver[n] + 1

\* define() of one contract; TaskLoop defines several at once.
Define(n, d, changed) ==
  LET bad == IF changed THEN Invalid({n}) ELSE {}
  IN
  /\ Current /\ op = None /\ Kind[n] \in {"inspect", "patch"}
  /\ d \subseteq Present /\ Acyclic([dep EXCEPT ![n] = d])
  /\ \/ n \notin Present /\ ~changed
     \/ n \in Present /\ changed
     \/ /\ n \in Present /\ ~changed /\ d = dep[n]
        /\ nstat[n] \in {"stale", "failed", "rejected", "cancelled"}
  /\ \A m \in bad \cup {n} : ver[m] < MaxVer
  /\ dep' = [dep EXCEPT ![n] = d]
  /\ ver' = [Bump(bad) EXCEPT ![n] = IF changed THEN @ ELSE Redefined(n, changed)]
  /\ nstat' = [SetStat(bad, "stale") EXCEPT ![n] = "pending"]
  /\ made' = [made EXCEPT ![n] = NoAttempt]
  /\ level' = Unlevel(bad \cup {n})
  /\ stage' = StageAfter(bad) /\ reviews' = ReviewsAfter(bad)
  /\ UNCHANGED <<authority, reportVars, stages, obs, cexVars, op, unbound, env>>

\* dispatch() of one node and startNode.
Launch(n) ==
  /\ Current /\ op = None /\ Ready(n)
  /\ Kind[n] \in {"inspect", "patch"} => Buildable(dep[n], FALSE)
  /\ nstat' = [nstat EXCEPT ![n] = "running"]
  /\ made' = [made EXCEPT ![n] = [rev |-> rev, gen |-> gen, ver |-> ver[n], inputs |-> InputsOf(n)]]
  /\ level' = Unlevel({n})
  /\ verdict' = [verdict EXCEPT ![n] = "none"]
  /\ attempted' = attempted \cup {<<n, ver[n]>>}
  /\ UNCHANGED <<authority, dep, ver, reviewFor, sources, stage, stages, reviews, obs,
                 cexVars, op, unbound, env>>

\* `live` of refreshAttempt
ResultLive(n) ==
  /\ Current /\ made[n].rev = rev /\ made[n].gen = gen /\ made[n].ver = ver[n] /\ InputsCurrent(n)

\* The run of a node settles; a concern of a review becomes a counterexample.
\* Results that are "failed" and "rejected" are alike, and so are reviews that
\* are "unknown" and reviews that cannot be parsed: the verdict is "none".
Settle(n, outcome, v) ==
  /\ nstat[n] = "running"
  /\ v # "none" => outcome = "returned" /\ reviewFor[n] # None
  /\ IF ResultLive(n)
       THEN /\ nstat' = [nstat EXCEPT ![n] = outcome]
            /\ verdict' = [verdict EXCEPT ![n] = v]
            /\ open' = IF v = "concern" THEN open \cup {<<n, ver[n]>>} ELSE open
       ELSE /\ nstat' = [nstat EXCEPT ![n] = "cancelled"]
            /\ UNCHANGED <<verdict, open>>
  /\ UNCHANGED <<authority, dep, ver, made, level, reviewFor, sources, attempted, stage, stages,
                 reviews, obs, resolved, op, unbound, env>>

Reject(n) ==
  LET bad == Invalid({n})
  IN
  /\ Current /\ n \in Present /\ \A m \in bad : ver[m] < MaxVer
  /\ ver' = Bump(bad) /\ level' = Unlevel(bad)
  /\ nstat' = [SetStat(bad, "stale") EXCEPT ![n] = "rejected"]
  /\ stage' = StageAfter(bad) /\ reviews' = ReviewsAfter(bad)
  /\ UNCHANGED <<authority, dep, made, reportVars, stages, obs, cexVars, op, unbound, env>>

-----------------------------------------------------------------------------
(* Observations *)

\* readObservation
Observe(t) ==
  /\ Current /\ t \in Targets /\ Cardinality(obs) < MaxObs
  /\ obs' = obs \cup {[kind |-> "read", key |-> t.key, vers |-> t.vers, rev |-> rev, gen |-> gen,
                       env |-> 0, passed |-> TRUE]}
  /\ UNCHANGED <<authority, graphVars, reportVars, stage, stages, reviews, cexVars, op, unbound, env>>

\* check() until verifyCandidate runs the script ...
CheckStart(t) ==
  /\ Current /\ op = None /\ t \in Targets
  /\ op' = [key |-> t.key, vers |-> t.vers, rev |-> rev, gen |-> gen, env |-> env]
  /\ UNCHANGED <<authority, graphVars, reportVars, stage, stages, reviews, obs, cexVars, unbound, env>>

\* ... and its end.  A stop or a revision aborted the command, which then did
\* not pass, nor did it when the environment changed; the record is kept.
CheckEnd(passed) ==
  /\ op # None /\ Cardinality(obs) < MaxObs
  /\ passed => op.rev = rev /\ op.gen = gen /\ op.env = env
  /\ obs' = obs \cup {[kind |-> "command", key |-> op.key, vers |-> op.vers, rev |-> op.rev,
                       gen |-> op.gen, env |-> op.env, passed |-> passed]}
  /\ op' = None
  /\ UNCHANGED <<authority, graphVars, reportVars, stage, stages, reviews, cexVars, unbound, env>>

CheckThrows ==
  /\ op # None /\ op' = None
  /\ UNCHANGED <<authority, graphVars, reportVars, stage, stages, reviews, obs, cexVars, unbound, env>>

EnvironmentChanges ==
  /\ env < MaxEnv /\ env' = env + 1
  /\ UNCHANGED <<authority, graphVars, reportVars, stage, stages, reviews, obs, cexVars, op, unbound>>

\* What admit(n, "supported") demands.
\*   (Mutant: a command that was run on anything current will do.)
SupportedLoose(n) ==
  \E o \in obs : o.rev = rev /\ o.gen = gen /\ o.passed /\ VersionsCurrent(ver, nstat, o.vers)
Supported(n) ==
  \E o \in obs :
    /\ Observed(o, [key |-> n, vers |-> Candidate({n})]) /\ o.passed
    /\ Kind[n] = "patch" => o.kind = "command"

Admit(n, lvl) ==
  /\ Current /\ Usable(n) /\ InputsCurrent(n) /\ Buildable({n}, TRUE)
  /\ lvl = "supported" => Supported(n)
  /\ nstat' = [nstat EXCEPT ![n] = "admitted"]
  /\ level' = [level EXCEPT ![n] = lvl]
  /\ UNCHANGED <<authority, dep, ver, made, reportVars, stage, stages, reviews, obs, cexVars, op,
                 unbound, env>>

-----------------------------------------------------------------------------
(* Stage, selections, reviews and counterexamples *)

Stage(S) ==
  /\ Current /\ op = None /\ Buildable(S, FALSE)
  /\ S # {} => stages < MaxStage
  /\ stages' = IF S = {} THEN stages ELSE stages + 1
  /\ stage' = [id |-> IF S = {} THEN 0 ELSE stages + 1, vers |-> Candidate(S)]
  /\ UNCHANGED <<authority, graphVars, reportVars, reviews, obs, cexVars, op, unbound, env>>

\* The define() that select() and review() await; while it stops orphans, other
\* tools may run.  One of these calls at a time is a bound of the model.
Prepare(S) ==
  /\ Current /\ op = None /\ unbound = None /\ S # {} /\ S \cap Present = {} /\ MaxVer > 0
  /\ ver' = [n \in Node |-> IF n \in S THEN 1 ELSE ver[n]]
  /\ nstat' = SetStat(S, "pending")
  /\ UNCHANGED <<authority, dep, made, level, reportVars, stage, stages, reviews, obs, cexVars, op,
                 env>>

\* select(ids) up to its await: the versions it compares are read before it.
SelectStart(n, ids) ==
  /\ Kind[n] = "select" /\ Prepare({n})
  /\ Cardinality(ids) >= Choices /\ \A m \in ids : Usable(m)
  /\ unbound' = [nodes |-> {n}, stage |-> None,
                 sources |-> [m \in Node |-> IF m \in ids THEN ver[m] ELSE 0]]

\* review(criteria) up to its await: the stage is read before it.
ReviewStart(S) ==
  /\ \A n \in S : Kind[n] = "review"
  /\ StageCurrent /\ Prepare(S)
  /\ unbound' = [nodes |-> S, stage |-> stage, sources |-> NoInput]

\* ... and after it.
Bind ==
  /\ unbound # None
  /\ unbound' = None
  /\ IF unbound.stage = None
       THEN /\ sources' = [n \in Node |-> IF n \in unbound.nodes THEN unbound.sources ELSE sources[n]]
            /\ UNCHANGED <<reviewFor, reviews>>
       ELSE /\ reviewFor' = [n \in Node |-> IF n \in unbound.nodes THEN unbound.stage ELSE reviewFor[n]]
            /\ reviews' = reviews \cup
                 {[node |-> n, ver |-> ver[n], stage |-> unbound.stage.id] : n \in unbound.nodes}
            /\ UNCHANGED sources
  /\ UNCHANGED <<authority, graphVars, verdict, attempted, stage, stages, obs, cexVars, op, env>>

\* define() gives up the wait for the orphans: select() or review() throws.
BindFails ==
  /\ unbound # None /\ unbound' = None
  /\ UNCHANGED <<authority, graphVars, reportVars, stage, stages, reviews, obs, cexVars, op, env>>

\* setObligations: reviews of the former obligations do not count.
Obligations ==
  /\ Current /\ reviews' = {}
  /\ UNCHANGED <<authority, graphVars, reportVars, stage, stages, obs, cexVars, op, unbound, env>>

Report(c) ==   \* counterexample(description)
  /\ Current /\ c \notin open /\ \A r \in resolved : r.id # c
  /\ open' = open \cup {c}
  /\ UNCHANGED <<authority, graphVars, reportVars, stage, stages, reviews, obs, resolved, op,
                 unbound, env>>

\* resolveCounterexample, with one check
Resolve(c, o) ==
  /\ Current /\ c \in open /\ StageCurrent
  /\ o \in obs /\ o.kind = "command" /\ o.passed
  /\ Observed(o, [key |-> stage.id, vers |-> stage.vers])
  /\ open' = open \ {c}
  /\ resolved' = resolved \cup {[id |-> c, stage |-> stage.id, vers |-> stage.vers, check |-> o]}
  /\ UNCHANGED <<authority, graphVars, reportVars, stage, stages, reviews, obs, op, unbound, env>>

-----------------------------------------------------------------------------
(* finish *)

StageTarget == [key |-> stage.id, vers |-> stage.vers]

\* The review still speaks of its node's present attempt, made in the present
\* revision and generation.
\*   (Mutant: reviews of former generations count.)
ReviewOfRevision(r) ==
  ver[r.node] = r.ver /\ Usable(r.node) /\ made[r.node].rev = rev /\ verdict[r.node] # "none"
ReviewCurrent(r) ==
  /\ ver[r.node] = r.ver /\ Usable(r.node)
  /\ made[r.node].rev = rev /\ made[r.node].gen = gen
  /\ verdict[r.node] \in {"pass", "concern"}

Adjudicated(r) ==
  verdict[r.node] = "concern" =>
    \E c \in resolved : /\ c.id = <<r.node, ver[r.node]>> /\ c.stage = stage.id
                        /\ Observed(c.check, StageTarget)

Finish ==
  LET asked == {r \in reviews : r.stage = stage.id}
  IN
  /\ Current /\ op = None /\ \A n \in Node : nstat[n] # "running"
  /\ open = {} /\ StageCurrent
  /\ \A n \in Node : stage.vers[n] # 0 => level[n] = "supported"
  /\ \E o \in obs : o.kind = "command" /\ o.passed /\ Observed(o, StageTarget)
  /\ asked # {} /\ \A r \in asked : ReviewCurrent(r) /\ Adjudicated(r)
  /\ \E r \in asked : verdict[r.node] = "pass"
  /\ status' = "complete"
  /\ UNCHANGED <<rev, gen, graphVars, reportVars, stage, stages, reviews, obs, cexVars, op,
                 unbound, env>>

-----------------------------------------------------------------------------
(* Authority *)

Revise ==   \* input() on the running task
  /\ status # "complete" /\ rev < MaxRev /\ gen < MaxGen /\ \A n \in Present : ver[n] < MaxVer
  /\ rev' = rev + 1 /\ gen' = gen + 1 /\ status' = "running"
  /\ ver' = Bump(Present) /\ nstat' = SetStat(Present, "stale") /\ level' = Unlevel(Present)
  /\ stage' = None /\ reviews' = {}
  /\ UNCHANGED <<dep, made, reportVars, stages, obs, cexVars, op, unbound, env>>

Stop ==     \* latch
  /\ status # "complete" /\ gen < MaxGen
  /\ gen' = gen + 1 /\ status' = "stopped"
  /\ UNCHANGED <<rev, graphVars, reportVars, stage, stages, reviews, obs, cexVars, op, unbound, env>>

Resume ==
  /\ status # "complete" /\ op = None /\ gen < MaxGen
  /\ \A n \in Node : nstat[n] # "running"
  /\ gen' = gen + 1 /\ status' = "running"
  /\ UNCHANGED <<rev, graphVars, reportVars, stage, stages, reviews, obs, cexVars, op, unbound, env>>

\* The process dies and the session is reopened: what awaited is lost.
Reopen ==
  /\ gen < MaxGen
  /\ gen' = IF status = "running" THEN gen + 1 ELSE gen
  /\ status' = IF status = "running" THEN "stopped" ELSE status
  /\ op' = None /\ unbound' = None
  /\ UNCHANGED <<rev, graphVars, reportVars, stage, stages, reviews, obs, cexVars, env>>

-----------------------------------------------------------------------------
Init ==
  /\ rev = 1 /\ gen = 1 /\ status = "running"
  /\ dep = [n \in Node |-> {}] /\ ver = NoInput /\ nstat = [n \in Node |-> "absent"]
  /\ made = [n \in Node |-> NoAttempt] /\ level = [n \in Node |-> "none"]
  /\ verdict = [n \in Node |-> "none"] /\ reviewFor = [n \in Node |-> None]
  /\ sources = [n \in Node |-> NoInput]
  /\ stage = None /\ stages = 0 /\ reviews = {}
  /\ obs = {} /\ open = {} /\ resolved = {}
  /\ op = None /\ unbound = None /\ env = 0 /\ attempted = {}

Verdicts == {"none", "pass", "concern"}

Work(n) ==
  \/ \E d \in SUBSET Node, changed \in BOOLEAN : Define(n, d, changed)
  \/ Launch(n) \/ Reject(n)
  \/ \E outcome \in {"returned", "failed"}, v \in Verdicts : Settle(n, outcome, v)
  \/ \E lvl \in {"supported", "hypothesis"} : Admit(n, lvl)
Evidence ==
  \/ \E t \in Targets : Observe(t) \/ CheckStart(t)
  \/ \E passed \in BOOLEAN : CheckEnd(passed)
  \/ CheckThrows \/ EnvironmentChanges
Judge ==
  \/ \E S \in SUBSET Node : Stage(S) \/ ReviewStart(S) \/ \E n \in Node : SelectStart(n, S)
  \/ Bind \/ BindFails \/ Obligations \/ Finish
  \/ \E c \in Counterexample : Report(c)
  \/ \E c \in open, o \in obs : Resolve(c, o)
User == Revise \/ Stop \/ Resume \/ Reopen

Next == (\E n \in Node : Work(n)) \/ Evidence \/ Judge \/ User
Spec == Init /\ [][Next]_vars

-----------------------------------------------------------------------------
(* Properties *)

Observation ==
  [kind : {"read", "command"}, key : Node \cup (0 .. MaxStage), vers : Versions, rev : 1 .. MaxRev,
   gen : 1 .. MaxGen, env : 0 .. MaxEnv, passed : BOOLEAN]
Check == [key : Node \cup (0 .. MaxStage), vers : Versions, rev : 1 .. MaxRev, gen : 1 .. MaxGen,
          env : 0 .. MaxEnv]
Unbound == [nodes : SUBSET Node, stage : Stages \cup {None}, sources : Versions]

\* Every variable has its type.
TypeOK ==
  /\ rev \in 1 .. MaxRev /\ gen \in 1 .. MaxGen /\ status \in {"running", "stopped", "complete"}
  /\ dep \in Graph /\ ver \in Versions /\ nstat \in [Node -> NodeStatus]
  /\ made \in [Node -> Attempts]
  /\ level \in [Node -> {"none", "supported", "hypothesis"}]
  /\ verdict \in [Node -> Verdicts] /\ reviewFor \in [Node -> Stages \cup {None}]
  /\ sources \in [Node -> Versions]
  /\ stage \in Stages \cup {None} /\ stages \in 0 .. MaxStage
  /\ reviews \in SUBSET [node : Node, ver : 1 .. MaxVer, stage : 0 .. MaxStage]
  /\ obs \in SUBSET Observation /\ op \in Check \cup {None} /\ unbound \in Unbound \cup {None}
  /\ env \in 0 .. MaxEnv /\ attempted \in SUBSET (Node \X (1 .. MaxVer))

\* A stage that target("stage") accepts is coherent: its nodes are admitted and
\* each was computed from exactly the versions that are staged with it.  (The
\* inputs of a selection or a review are what it judged, which need not be staged.)
StageCoherent ==
  StageCurrent =>
    \A n \in Node : stage.vers[n] # 0 =>
      /\ nstat[n] = "admitted" /\ made[n].ver = stage.vers[n]
      /\ Kind[n] \in {"inspect", "patch"} =>
           \A m \in Node : made[n].inputs[m] # 0 => stage.vers[m] = made[n].inputs[m]

\* A version of a node has one attempt at most, whatever is stopped, rejected,
\* retried or redefined: versions identify the content of results, which is what
\* refreshAttempt, observations, stages and reviews compare.
OneAttemptPerVersion ==
  [][\A n \in Node : made'[n] # made[n] /\ made'[n] # NoAttempt
       => <<n, ver[n]>> \notin attempted]_vars

\* Every patch that is delivered has passed an executable check of its own, of
\* the versions that are delivered and in the revision that is accepted, however
\* many stops, retries and rejections came between.
DeliveredChecked ==
  status = "complete" =>
    \A n \in Node : stage.vers[n] # 0 /\ Kind[n] = "patch" =>
      \E o \in obs :
        /\ o.kind = "command" /\ o.passed /\ o.key = n /\ o.rev = rev /\ o.vers[n] # 0
        /\ \A m \in Node : o.vers[m] # 0 => o.vers[m] = stage.vers[m]

\* The delivered candidate was approved by a review that was requested for that
\* very stage and launched in the present revision and generation, and nothing
\* that counts as counterevidence is open.
DeliveredReviewed ==
  status = "complete" =>
    /\ open = {}
    /\ \E n \in Node : /\ verdict[n] = "pass" /\ reviewFor[n] = stage
                       /\ made[n].rev = rev /\ made[n].gen = gen /\ made[n].ver = ver[n]

=============================================================================
