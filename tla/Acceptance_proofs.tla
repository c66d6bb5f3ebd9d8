-------------------------- MODULE Acceptance_proofs --------------------------
(***************************************************************************)
(* Proofs about Acceptance: what is staged is coherent, a version has one  *)
(* attempt, and what is delivered was checked and reviewed.                *)
(***************************************************************************)
EXTENDS Acceptance, TLAPS

-----------------------------------------------------------------------------
(* The inductive invariant *)

\* n has an attempt that speaks of its present version.
Bound(n) == nstat[n] \in {"running", "returned", "admitted"}

\* Versions tell which nodes exist, dependencies exist, and only admitted nodes
\* have a level.
GraphInv ==
  \A n \in Node :
    /\ ver[n] = 0 <=> nstat[n] = "absent"
    /\ dep[n] \subseteq Present
    /\ Kind[n] \notin {"inspect", "patch"} => dep[n] = {}
    /\ level[n] # "none" => nstat[n] = "admitted"

\* A version that waits for an attempt has had none.
OnceInv ==
  \A n \in Node, v \in 1 .. MaxVer : <<n, v>> \in attempted =>
    v <= ver[n] /\ (nstat[n] \in {"pending", "stale"} => v < ver[n])

\* While a node is bound nothing below it changes.
BoundAt(n) ==
  /\ made[n].ver = ver[n]
  /\ \A m \in Ancestors(dep, {n}) \ {n} : nstat[m] = "admitted"
  /\ Kind[n] \in {"inspect", "patch"} =>
       \A m \in Node : made[n].inputs[m] # 0 =>
         m \in Ancestors(dep, {n}) /\ made[n].inputs[m] = ver[m]
BoundInv == \A n \in Node : Bound(n) => BoundAt(n)

\* o is an executable check of n and of what n was built from, as they are now.
Proves(o, n) ==
  /\ o.kind = "command" /\ o.passed /\ o.key = n /\ o.rev = rev /\ o.vers[n] # 0
  /\ \A m \in Node : o.vers[m] # 0 => m \in Ancestors(dep, {n}) /\ o.vers[m] = ver[m]
LevelInv ==
  \A n \in Node : level[n] = "supported" /\ Kind[n] = "patch" => \E o \in obs : Proves(o, n)

\* A stage lasts as long as everything in it.
StageInv ==
  stage # None => \A n \in Node : stage.vers[n] # 0 =>
    /\ nstat[n] = "admitted" /\ ver[n] = stage.vers[n]
    /\ \A m \in dep[n] : stage.vers[m] # 0

\* A stage id names one stage.
Seen == ({stage} \cup {reviewFor[n] : n \in Node}
           \cup {u.stage : u \in {unbound} \ {None}}) \ {None}
IdInv ==
  /\ \A s \in Seen : s.id <= stages /\ (s.id = 0 => s.vers = NoInput)
  /\ \A s, t \in Seen : s.id = t.id => s = t

\* Only reviews that are bound have a verdict or count.
ReviewInv ==
  /\ \A n \in Node : /\ verdict[n] # "none" => reviewFor[n] # None
                     /\ reviewFor[n] # None => Kind[n] = "review"
                     /\ ver[n] = 0 => reviewFor[n] = None
  /\ \A r \in reviews : reviewFor[r.node] # None /\ reviewFor[r.node].id = r.stage
  /\ unbound # None => \A n \in unbound.nodes :
       ver[n] # 0 /\ reviewFor[n] = None /\ (unbound.stage # None => Kind[n] = "review")

\* A completed task keeps what finish() saw.
DoneInv ==
  status = "complete" =>
    /\ stage # None /\ \A n \in Node : nstat[n] # "running"
    /\ \A n \in Node : stage.vers[n] # 0 => level[n] = "supported"
    /\ DeliveredReviewed

IInv == /\ TypeOK /\ GraphInv /\ OnceInv /\ BoundInv /\ LevelInv /\ StageInv /\ IdInv /\ ReviewInv
        /\ DoneInv

-----------------------------------------------------------------------------
(* Closures of the dependency graph *)

LEMMA ReachClosed ==
  ASSUME NEW R \in Graph, NEW S \in SUBSET Node
  PROVE  /\ Reach(R, S) \in SUBSET Node /\ S \subseteq Reach(R, S) /\ Closed(R, Reach(R, S))
BY DEF Reach, Closed, Graph

LEMMA ReachLeast ==
  ASSUME NEW R, NEW S, NEW T \in SUBSET Node, S \subseteq T, Closed(R, T)
  PROVE  Reach(R, S) \subseteq T
BY DEF Reach

\* What does not depend on S is closed under dependencies.
LEMMA IndependentClosed ==
  ASSUME NEW d \in Graph, NEW S \in SUBSET Node
  PROVE  Closed(d, Node \ Descendants(d, S))
<1>1. Users(d) \in Graph
  BY DEF Users, Graph
<1>2. Closed(Users(d), Descendants(d, S))
  BY <1>1, ReachClosed DEF Descendants
<1> QED
  BY <1>2 DEF Closed, Users, Graph

\* A change of the graph outside a closed set changes no ancestor inside it.
LEMMA AncestorsKept ==
  ASSUME NEW d \in Graph, NEW e \in Graph, NEW T \in SUBSET Node, Closed(d, T),
         \A m \in T : e[m] = d[m], NEW n \in T
  PROVE  Ancestors(e, {n}) = Ancestors(d, {n}) /\ Ancestors(d, {n}) \subseteq T
<1>1. ASSUME NEW f \in {d, e}, NEW g \in {d, e} PROVE Reach(g, {n}) \subseteq Reach(f, {n}) \cap T
  <2> DEFINE U == Reach(f, {n}) \cap T
  <2>1. /\ Reach(f, {n}) \in SUBSET Node /\ {n} \subseteq Reach(f, {n})
        /\ Closed(f, Reach(f, {n}))
    BY ReachClosed
  <2> HIDE DEF U
  <2>2. U \in SUBSET Node /\ {n} \subseteq U /\ Closed(g, U)
    BY <2>1 DEF U, Closed
  <2> QED
    BY <2>2, ReachLeast DEF U
<1> QED
  BY <1>1 DEF Ancestors

\* The ancestors of a node are itself and those of its dependencies.
LEMMA AncestorsOne ==
  ASSUME NEW d \in Graph, NEW n \in Node
  PROVE  Ancestors(d, {n}) = {n} \cup Ancestors(d, d[n])
<1>0. d[n] \in SUBSET Node
  BY DEF Graph
<1> DEFINE U == {n} \cup Ancestors(d, d[n])
<1>1. /\ Ancestors(d, d[n]) \in SUBSET Node /\ d[n] \subseteq Ancestors(d, d[n])
      /\ Closed(d, Ancestors(d, d[n]))
  BY <1>0, ReachClosed DEF Ancestors
<1>2. U \in SUBSET Node /\ {n} \subseteq U /\ Closed(d, U)
  BY <1>1 DEF Closed
<1>3. /\ Ancestors(d, {n}) \in SUBSET Node /\ {n} \subseteq Ancestors(d, {n})
      /\ Closed(d, Ancestors(d, {n}))
  BY ReachClosed DEF Ancestors
<1>4. d[n] \subseteq Ancestors(d, {n})
  BY <1>3 DEF Closed
<1>5. Ancestors(d, d[n]) \subseteq Ancestors(d, {n})
  BY <1>3, <1>4, ReachLeast DEF Ancestors
<1>6. Ancestors(d, {n}) \subseteq U
  BY <1>2, ReachLeast DEF Ancestors
<1> QED
  BY <1>3, <1>5, <1>6

LEMMA AncestorsMonotone ==
  ASSUME NEW d \in Graph, NEW S \in SUBSET Node, NEW n \in S
  PROVE  /\ Ancestors(d, S) \in SUBSET Node /\ n \in Ancestors(d, S)
         /\ Ancestors(d, {n}) \subseteq Ancestors(d, S)
<1>1. /\ Ancestors(d, S) \in SUBSET Node /\ S \subseteq Ancestors(d, S)
      /\ Closed(d, Ancestors(d, S))
  BY ReachClosed DEF Ancestors
<1> QED
  BY <1>1, ReachLeast DEF Ancestors

LEMMA InvalidSets ==
  ASSUME TypeOK, NEW n \in Present
  PROVE  n \in Invalid({n}) /\ Invalid({n}) \in SUBSET Present
<1>1. Users(dep) \in Graph /\ n \in Node
  BY DEF Users, Graph, TypeOK, Present
<1> QED
  BY <1>1, ReachClosed DEF Invalid, Descendants

-----------------------------------------------------------------------------
(* Type correctness *)

LEMMA HelperTypes ==
  ASSUME TypeOK
  PROVE  /\ Present \in SUBSET Node
         /\ \A S \in SUBSET Node : Candidate(S) \in Versions /\ Invalid(S) \in SUBSET Present
         /\ \A S \in SUBSET Node : /\ SetStat(S, "stale") \in [Node -> NodeStatus]
                                   /\ SetStat(S, "pending") \in [Node -> NodeStatus]
                                   /\ Unlevel(S) \in [Node -> {"none", "supported", "hypothesis"}]
                                   /\ StageAfter(S) \in Stages \cup {None}
                                   /\ ReviewsAfter(S) \subseteq reviews
         /\ \A S \in SUBSET Node : (\A n \in S : ver[n] < MaxVer) => Bump(S) \in Versions
<1>1. \A S \in SUBSET Node : Candidate(S) \in Versions
  BY AcceptanceAssumption DEF Candidate, Versions, TypeOK, AcceptanceAssumption
<1>2. \A S \in SUBSET Node : (\A n \in S : ver[n] < MaxVer) => Bump(S) \in Versions
  BY AcceptanceAssumption DEF Bump, Versions, TypeOK, AcceptanceAssumption
<1> QED
  BY <1>1, <1>2 DEF Present, Invalid, SetStat, Unlevel, StageAfter, ReviewsAfter, TypeOK, NodeStatus,
                    Withdrawn

LEMMA TargetType ==
  ASSUME TypeOK, NEW t \in Targets
  PROVE  t.key \in Node \cup (0 .. MaxStage) /\ t.vers \in Versions
<1>1. CASE \E n \in Node : t = [key |-> n, vers |-> Candidate({n})]
  BY <1>1, HelperTypes
<1>2. CASE StageCurrent /\ t = [key |-> stage.id, vers |-> stage.vers]
  <2>1. stage \in Stages
    BY <1>2 DEF StageCurrent, TypeOK
  <2> QED
    BY <1>2, <2>1 DEF Stages
<1> QED
  BY <1>1, <1>2 DEF Targets

LEMMA GraphTypes ==
  ASSUME TypeOK, GraphInv, NEW n \in Node, Work(n) PROVE TypeOK'
<1> USE AcceptanceAssumption DEF AcceptanceAssumption
<1>1. ASSUME NEW d \in SUBSET Node, NEW changed \in BOOLEAN, Define(n, d, changed) PROVE TypeOK'
  <2> DEFINE bad == IF changed THEN Invalid({n}) ELSE {}
  <2>1. bad \in SUBSET Node
    BY HelperTypes
  <2>2. Bump(bad) \in Versions
    BY <1>1, <2>1, HelperTypes DEF Define
  <2>3. Redefined(n, changed) \in 0 .. MaxVer
    BY <1>1 DEF Define, Redefined, TypeOK, Versions
  <2>4. ver' \in Versions
    BY <1>1, <2>2, <2>3 DEF Define, Versions
  <2>5. NoAttempt \in Attempts /\ [made EXCEPT ![n] = NoAttempt] \in [Node -> Attempts]
    BY DEF NoAttempt, Attempts, NoInput, Versions, TypeOK
  <2>6. nstat' \in [Node -> NodeStatus]
    <3>1. SetStat(bad, "stale") \in [Node -> NodeStatus]
      BY <2>1, HelperTypes
    <3> QED
      BY <1>1, <3>1 DEF Define, NodeStatus
  <2>7. level' \in [Node -> {"none", "supported", "hypothesis"}] /\ stage' \in Stages \cup {None}
        /\ reviews' \subseteq reviews /\ dep' \in Graph /\ made' \in [Node -> Attempts]
    <3>1. bad \cup {n} \in SUBSET Node
      BY <2>1
    <3> QED
      BY <1>1, <2>1, <2>5, <3>1, HelperTypes DEF Define, Graph, TypeOK
  <2> QED
    BY <1>1, <2>4, <2>6, <2>7 DEF Define, TypeOK, authority, reportVars, cexVars
<1>2. CASE Launch(n)
  <2>1. ver[n] \in 1 .. MaxVer
    BY <1>2 DEF Launch, Ready, GraphInv, TypeOK, Versions
  <2>2. InputsOf(n) \in Versions
    BY HelperTypes DEF InputsOf, TypeOK, Stages, Graph
  <2>3. made' \in [Node -> Attempts]
    BY <1>2, <2>1, <2>2 DEF Launch, Attempts, TypeOK
  <2>4. nstat' \in [Node -> NodeStatus] /\ verdict' \in [Node -> Verdicts]
    BY <1>2 DEF Launch, NodeStatus, Verdicts, TypeOK
  <2>5. level' \in [Node -> {"none", "supported", "hypothesis"}]
    BY <1>2, HelperTypes DEF Launch
  <2>6. attempted' \in SUBSET (Node \X (1 .. MaxVer))
    BY <1>2, <2>1 DEF Launch, TypeOK
  <2> QED
    BY <1>2, <2>3, <2>4, <2>5, <2>6 DEF Launch, TypeOK, authority, cexVars
<1>3. ASSUME NEW outcome \in {"returned", "failed"}, NEW v \in Verdicts, Settle(n, outcome, v)
      PROVE  TypeOK'
  <2>1. nstat' \in [Node -> NodeStatus] /\ verdict' \in [Node -> Verdicts]
    BY <1>3 DEF Settle, NodeStatus, Withdrawn, Verdicts, TypeOK
  <2> QED
    BY <1>3, <2>1 DEF Settle, TypeOK, authority
<1>4. CASE Reject(n)
  <2> DEFINE bad == Invalid({n})
  <2>1. bad \in SUBSET Node
    BY HelperTypes
  <2>2. ver' \in Versions
    BY <1>4, <2>1, HelperTypes DEF Reject
  <2>3. nstat' \in [Node -> NodeStatus]
    <3>1. SetStat(bad, "stale") \in [Node -> NodeStatus]
      BY <2>1, HelperTypes
    <3> QED
      BY <1>4, <3>1 DEF Reject, NodeStatus, Withdrawn
  <2>4. level' \in [Node -> {"none", "supported", "hypothesis"}] /\ stage' \in Stages \cup {None}
        /\ reviews' \subseteq reviews
    BY <1>4, <2>1, HelperTypes DEF Reject
  <2> QED
    BY <1>4, <2>2, <2>3, <2>4 DEF Reject, TypeOK, authority, reportVars, cexVars
<1>5. ASSUME NEW lvl \in {"supported", "hypothesis"}, Admit(n, lvl) PROVE TypeOK'
  BY <1>5 DEF Admit, TypeOK, authority, reportVars, cexVars, NodeStatus
<1> QED
  BY <1>1, <1>2, <1>3, <1>4, <1>5 DEF Work

LEMMA EvidenceTypes == ASSUME TypeOK, Evidence PROVE TypeOK'
<1> USE AcceptanceAssumption DEF AcceptanceAssumption
<1>1. ASSUME NEW t \in Targets, Observe(t) PROVE TypeOK'
  <2> DEFINE o == [kind |-> "read", key |-> t.key, vers |-> t.vers, rev |-> rev, gen |-> gen,
                   env |-> 0, passed |-> TRUE]
  <2>1. obs' \in SUBSET Observation
    <3>1. o \in Observation
      BY TargetType DEF Observation, TypeOK
    <3> QED
      BY <1>1, <3>1 DEF Observe, TypeOK
  <2> QED
    BY <1>1, <2>1 DEF Observe, TypeOK, authority, graphVars, reportVars, cexVars
<1>2. ASSUME NEW t \in Targets, CheckStart(t) PROVE TypeOK'
  <2>1. op' \in Check
    BY <1>2, TargetType DEF CheckStart, Check, TypeOK
  <2> QED
    BY <1>2, <2>1 DEF CheckStart, TypeOK, authority, graphVars, reportVars, cexVars
<1>3. ASSUME NEW passed \in BOOLEAN, CheckEnd(passed) PROVE TypeOK'
  <2>1. obs' \in SUBSET Observation
    BY <1>3 DEF CheckEnd, Check, Observation, TypeOK
  <2> QED
    BY <1>3, <2>1 DEF CheckEnd, TypeOK, authority, graphVars, reportVars, cexVars
<1>4. CASE CheckThrows \/ EnvironmentChanges
  BY <1>4 DEF CheckThrows, EnvironmentChanges, TypeOK, authority, graphVars, reportVars, cexVars
<1> QED
  BY <1>1, <1>2, <1>3, <1>4 DEF Evidence

LEMMA JudgeTypes == ASSUME TypeOK, ReviewInv, Judge PROVE TypeOK'
<1> USE AcceptanceAssumption DEF AcceptanceAssumption
<1>1. ASSUME NEW S \in SUBSET Node, Stage(S) PROVE TypeOK'
  <2>1. stages' \in 0 .. MaxStage /\ stage' \in Stages
    BY <1>1, HelperTypes DEF Stage, Stages, TypeOK
  <2> QED
    BY <1>1, <2>1 DEF Stage, TypeOK, authority, graphVars, reportVars, cexVars
<1>2. ASSUME NEW S \in SUBSET Node, Prepare(S), unbound' \in Unbound PROVE TypeOK'
  <2>1. ver' \in Versions /\ nstat' \in [Node -> NodeStatus]
    BY <1>2, HelperTypes DEF Prepare, TypeOK, Versions
  <2> QED
    BY <1>2, <2>1 DEF Prepare, TypeOK, authority, reportVars, cexVars
<1>3. ASSUME NEW S \in SUBSET Node, ReviewStart(S) PROVE TypeOK'
  <2>1. unbound' \in Unbound
    BY <1>3 DEF ReviewStart, StageCurrent, Unbound, NoInput, Versions, TypeOK
  <2> QED
    BY <1>2, <1>3, <2>1 DEF ReviewStart
<1>4. ASSUME NEW S \in SUBSET Node, NEW n \in Node, SelectStart(n, S) PROVE TypeOK'
  <2>1. unbound' \in Unbound
    BY <1>4 DEF SelectStart, Unbound, Versions, TypeOK
  <2> QED
    BY <1>2, <1>4, <2>1 DEF SelectStart
<1>5. CASE Bind
  <2>1. unbound \in Unbound
    BY <1>5 DEF Bind, TypeOK
  <2>2. reviewFor' \in [Node -> Stages \cup {None}] /\ sources' \in [Node -> Versions]
    BY <1>5, <2>1 DEF Bind, Unbound, TypeOK
  <2>3. reviews' \in SUBSET [node : Node, ver : 1 .. MaxVer, stage : 0 .. MaxStage]
    <3>1. ASSUME unbound.stage # None, NEW n \in unbound.nodes
          PROVE  n \in Node /\ ver[n] \in 1 .. MaxVer /\ unbound.stage.id \in 0 .. MaxStage
      BY <1>5, <2>1, <3>1 DEF Bind, Unbound, Stages, ReviewInv, TypeOK, Versions
    <3> QED
      BY <1>5, <3>1 DEF Bind, TypeOK
  <2> QED
    BY <1>5, <2>2, <2>3 DEF Bind, TypeOK, authority, graphVars, cexVars
<1>6. CASE BindFails \/ Obligations \/ Finish
  BY <1>6 DEF BindFails, Obligations, Finish, TypeOK, authority, graphVars, reportVars, cexVars
<1>7. ASSUME NEW c, NEW o, Report(c) \/ Resolve(c, o) PROVE TypeOK'
  BY <1>7 DEF Report, Resolve, TypeOK, authority, graphVars, reportVars
<1> QED
  BY <1>1, <1>3, <1>4, <1>5, <1>6, <1>7 DEF Judge

LEMMA UserTypes == ASSUME TypeOK, User PROVE TypeOK'
<1> USE AcceptanceAssumption DEF AcceptanceAssumption
<1>1. CASE Revise
  <2>1. ver' \in Versions /\ nstat' \in [Node -> NodeStatus]
        /\ level' \in [Node -> {"none", "supported", "hypothesis"}]
    BY <1>1, HelperTypes DEF Revise
  <2> QED
    BY <1>1, <2>1 DEF Revise, TypeOK, reportVars, cexVars
<1>2. CASE Stop \/ Resume \/ Reopen
  BY <1>2 DEF Stop, Resume, Reopen, TypeOK, graphVars, reportVars, cexVars
<1> QED
  BY <1>1, <1>2 DEF User

-----------------------------------------------------------------------------
(* Steps that leave the graph alone *)

LEMMA StageSeen ==
  ASSUME NEW s \in Seen
  PROVE  s = stage \/ (\E n \in Node : s = reviewFor[n]) \/ (unbound # None /\ s = unbound.stage)
BY DEF Seen

LEMMA SeenTypes == ASSUME TypeOK PROVE Seen \subseteq Stages
BY DEF Seen, TypeOK, Unbound

LEMMA GraphQuiet ==
  ASSUME TypeOK, GraphInv, OnceInv, BoundInv, LevelInv, UNCHANGED <<rev, graphVars, attempted>>,
         obs \subseteq obs'
  PROVE  GraphInv' /\ OnceInv' /\ BoundInv' /\ LevelInv'
<1>1. GraphInv' /\ OnceInv' /\ BoundInv'
  BY DEF GraphInv, OnceInv, BoundInv, BoundAt, Bound, Present, graphVars
<1>2. \A o, n : Proves(o, n)' = Proves(o, n)
  BY DEF Proves, graphVars
<1> QED
  BY <1>1, <1>2 DEF LevelInv, graphVars

\* Everything an action may leave alone.
Frame == UNCHANGED <<rev, graphVars, reportVars, stage, stages, unbound>>

LEMMA QuietStep ==
  ASSUME IInv, TypeOK', Frame, obs \subseteq obs', reviews' \subseteq reviews,
         status' = "complete" => status = "complete" /\ open' = open /\ gen' = gen
  PROVE  IInv'
<1>1. GraphInv' /\ OnceInv' /\ BoundInv' /\ LevelInv'
  BY GraphQuiet DEF IInv, Frame, reportVars
<1>2. StageInv' /\ IdInv' /\ ReviewInv'
  BY DEF IInv, Frame, StageInv, IdInv, Seen, ReviewInv, graphVars, reportVars
<1>3. DoneInv'
  BY DEF IInv, Frame, DoneInv, DeliveredReviewed, graphVars, reportVars
<1> QED
  BY <1>1, <1>2, <1>3 DEF IInv

LEMMA QuietActions ==
  ASSUME IInv, TypeOK',
         \/ Evidence \/ Obligations \/ Stop \/ Resume \/ UNCHANGED vars
         \/ \E c \in Counterexample : Report(c)
         \/ \E c \in open, o \in obs : Resolve(c, o)
  PROVE  IInv'
<1>1. CASE Evidence
  BY <1>1, QuietStep DEF Evidence, Observe, CheckStart, CheckEnd, CheckThrows, EnvironmentChanges,
                         Frame, authority, cexVars
<1>2. CASE Obligations \/ UNCHANGED vars
  BY <1>2, QuietStep DEF Obligations, Frame, authority, cexVars, vars, graphVars, reportVars
<1>3. CASE Stop \/ Resume
  BY <1>3, QuietStep DEF Stop, Resume, Frame
<1>4. ASSUME NEW c, NEW o, Report(c) \/ Resolve(c, o) PROVE IInv'
  BY <1>4, QuietStep DEF Report, Resolve, Frame, authority, Current
<1> QED
  BY <1>1, <1>2, <1>3, <1>4

LEMMA StageStep ==
  ASSUME IInv, TypeOK', NEW S \in SUBSET Node, Stage(S)
  PROVE  IInv'
<1>1. GraphInv' /\ OnceInv' /\ BoundInv' /\ LevelInv'
  BY GraphQuiet DEF IInv, Stage, authority, reportVars
<1>2. StageInv'
  <2> SUFFICES ASSUME NEW n \in Node, stage'.vers[n] # 0
               PROVE  /\ nstat[n] = "admitted" /\ ver[n] = stage'.vers[n]
                      /\ \A m \in dep[n] : stage'.vers[m] # 0
    BY DEF StageInv, Stage, graphVars
  <2>1. stage'.vers = Candidate(S)
    BY DEF Stage
  <2>2. n \in Ancestors(dep, S) /\ ver[n] = stage'.vers[n]
    BY <2>1 DEF Candidate
  <2>3. \A m \in Ancestors(dep, S) : m \in Node /\ nstat[m] = "admitted"
    BY DEF Stage, Buildable, Ancestors, Reach
  <2>4. ASSUME NEW m \in dep[n] PROVE stage'.vers[m] # 0
    <3>1. m \in Ancestors(dep, S)
      BY <2>2, ReachClosed DEF Ancestors, Closed, IInv, TypeOK
    <3>2. m \in Node /\ ver[m] # 0
      BY <2>3, <3>1 DEF IInv, GraphInv
    <3> QED
      BY <2>1, <3>1, <3>2 DEF Candidate
  <2> QED
    BY <2>2, <2>3, <2>4
<1>3. IdInv'
  <2>1. Seen' \subseteq Seen \cup {stage'}
    BY DEF Seen, Stage, reportVars
  <2>2. \/ stage'.id = 0 /\ stage'.vers = NoInput /\ stages' = stages
        \/ stage'.id = stages + 1 /\ stages' = stages + 1
    <3>1. CASE S = {}
      <4>1. Ancestors(dep, S) = {}
        BY <3>1, ReachLeast DEF Ancestors, Closed
      <4> QED
        BY <3>1, <4>1 DEF Stage, Candidate, NoInput
    <3>2. CASE S # {}
      BY <3>2 DEF Stage
    <3> QED
      BY <3>1, <3>2
  <2>3. stage' \in Stages /\ stages \in Nat /\ stages' \in Nat
    <3>1. stages \in 0 .. MaxStage /\ stages' \in 0 .. MaxStage
      BY DEF IInv, TypeOK
    <3>2. stage'.id \in 0 .. MaxStage /\ Candidate(S) \in Versions
      BY <2>2, <3>1, HelperTypes, AcceptanceAssumption DEF IInv, AcceptanceAssumption
    <3>3. stage' \in Stages
      BY <3>2 DEF Stage, Stages
    <3> QED
      BY <3>1, <3>3
  <2>4. \A s \in Seen : s \in Stages /\ s.id \in Nat /\ s.id <= stages /\ (s.id = 0 => s.vers = NoInput)
    BY SeenTypes DEF IInv, IdInv, Stages
  <2>5. \A s, t \in Stages : s.id = t.id /\ s.vers = t.vers => s = t
    BY DEF Stages
  <2>6. ASSUME NEW s \in Seen, s.id = stage'.id PROVE s = stage'
    BY <2>2, <2>3, <2>4, <2>5, <2>6
  <2>7. \A s, t \in Seen \cup {stage'} : s.id = t.id => s = t
    BY <2>6 DEF IInv, IdInv
  <2>8. \A s \in Seen \cup {stage'} : s.id <= stages' /\ (s.id = 0 => s.vers = NoInput)
    BY <2>2, <2>3, <2>4
  <2> QED
    BY <2>1, <2>7, <2>8 DEF IdInv
<1>4. ReviewInv' /\ DoneInv'
  BY DEF IInv, ReviewInv, DoneInv, Stage, Current, authority, graphVars, reportVars
<1> QED
  BY <1>1, <1>2, <1>3, <1>4 DEF IInv

LEMMA BindStep ==
  ASSUME IInv, TypeOK', Bind \/ BindFails \/ Reopen
  PROVE  IInv'
<1>1. GraphInv' /\ OnceInv' /\ BoundInv' /\ LevelInv'
  BY GraphQuiet DEF IInv, Bind, BindFails, Reopen, authority, reportVars
<1>2. StageInv'
  BY DEF IInv, StageInv, Bind, BindFails, Reopen, graphVars
<1>3. Seen' \subseteq Seen /\ stages' = stages
  <2>1. CASE Bind
    <3>1. \A n \in Node : reviewFor'[n] = reviewFor[n] \/ reviewFor'[n] = unbound.stage
      BY <2>1 DEF Bind, IInv, TypeOK
    <3> QED
      BY <2>1, <3>1 DEF Bind, Seen
  <2>2. CASE BindFails \/ Reopen
    BY <2>2 DEF BindFails, Reopen, Seen, reportVars
  <2> QED
    BY <2>1, <2>2
<1>4. IdInv'
  BY <1>3 DEF IInv, IdInv
<1>5. CASE BindFails \/ Reopen
  <2>1. ReviewInv' /\ DoneInv'
    BY <1>5 DEF IInv, ReviewInv, DoneInv, DeliveredReviewed, BindFails, Reopen, authority, graphVars,
                reportVars, cexVars
  <2> QED
    BY <1>1, <1>2, <1>4, <2>1 DEF IInv
<1>6. CASE Bind
  <2>1. \A n \in Node : \/ reviewFor'[n] = reviewFor[n]
                        \/ /\ n \in unbound.nodes /\ unbound.stage # None
                           /\ reviewFor'[n] = unbound.stage
    BY <1>6 DEF Bind, IInv, TypeOK
  <2>2. \A n \in Node : reviewFor[n] # None => reviewFor'[n] = reviewFor[n]
    BY <1>6, <2>1 DEF Bind, IInv, ReviewInv
  <2>3. ReviewInv'
    <3>1. \A n \in Node : /\ verdict'[n] # "none" => reviewFor'[n] # None
                          /\ reviewFor'[n] # None => Kind[n] = "review"
                          /\ ver'[n] = 0 => reviewFor'[n] = None
      BY <1>6, <2>1, <2>2 DEF Bind, IInv, ReviewInv, graphVars
    <3>2. ASSUME NEW r \in reviews' PROVE reviewFor'[r.node] # None /\ reviewFor'[r.node].id = r.stage
      <4>1. CASE r \in reviews
        <5>1. r.node \in Node
          BY <4>1 DEF IInv, TypeOK
        <5> QED
          BY <2>2, <4>1, <5>1 DEF IInv, ReviewInv
      <4>2. CASE r \notin reviews
        <5>1. /\ unbound.stage # None /\ r.node \in unbound.nodes /\ r.stage = unbound.stage.id
              /\ reviewFor' = [n \in Node |-> IF n \in unbound.nodes THEN unbound.stage
                                              ELSE reviewFor[n]]
          BY <1>6, <4>2 DEF Bind
        <5>2. r.node \in Node
          BY <1>6, <5>1 DEF Bind, IInv, TypeOK, Unbound
        <5> QED
          BY <5>1, <5>2
      <4> QED
        BY <4>1, <4>2
    <3> QED
      BY <1>6, <3>1, <3>2 DEF Bind, ReviewInv
  <2>4. DoneInv'
    <3> SUFFICES ASSUME status = "complete" PROVE DoneInv'
      BY <1>6 DEF DoneInv, Bind, authority
    <3>1. PICK n \in Node : /\ verdict[n] = "pass" /\ reviewFor[n] = stage
                            /\ made[n].rev = rev /\ made[n].gen = gen /\ made[n].ver = ver[n]
      BY DEF IInv, DoneInv, DeliveredReviewed
    <3>2. reviewFor'[n] = stage
      BY <2>2, <3>1 DEF IInv, ReviewInv
    <3> QED
      BY <1>6, <3>1, <3>2 DEF IInv, DoneInv, DeliveredReviewed, Bind, authority, graphVars, cexVars
  <2> QED
    BY <1>1, <1>2, <1>4, <2>3, <2>4 DEF IInv
<1> QED
  BY <1>5, <1>6

LEMMA FinishStep ==
  ASSUME IInv, TypeOK', Finish
  PROVE  IInv'
<1>1. GraphInv' /\ OnceInv' /\ BoundInv' /\ LevelInv'
  BY GraphQuiet DEF IInv, Finish, reportVars
<1>2. StageInv' /\ IdInv' /\ ReviewInv'
  BY DEF IInv, StageInv, IdInv, Seen, ReviewInv, Finish, graphVars, reportVars
<1>3. PICK r \in reviews : r.stage = stage.id /\ ReviewCurrent(r) /\ verdict[r.node] = "pass"
  BY DEF Finish
<1>4. r.node \in Node /\ stage # None /\ stage \in Seen
  BY DEF Finish, StageCurrent, Seen, IInv, TypeOK
<1>5. reviewFor[r.node] = stage
  <2>1. reviewFor[r.node] \in Seen /\ reviewFor[r.node].id = stage.id
    BY <1>3, <1>4 DEF IInv, ReviewInv, Seen
  <2> QED
    BY <1>4, <2>1 DEF IInv, IdInv
<1>6. made[r.node].ver = ver[r.node]
  BY <1>3, <1>4 DEF ReviewCurrent, Usable, IInv, BoundInv, BoundAt, Bound
<1>7. DoneInv'
  BY <1>3, <1>4, <1>5, <1>6 DEF DoneInv, DeliveredReviewed, ReviewCurrent, Finish, graphVars,
                                reportVars, cexVars
<1> QED
  BY <1>1, <1>2, <1>7 DEF IInv

-----------------------------------------------------------------------------
(* Steps that change the graph *)

\* n keeps its attempt, and what it was built from stays as it is.
Kept(n) ==
  /\ Bound(n) /\ made'[n] = made[n]
  /\ Ancestors(dep', {n}) = Ancestors(dep, {n})
  /\ \A m \in Ancestors(dep, {n}) : /\ ver'[m] = ver[m]
                                    /\ nstat[m] = "admitted" => nstat'[m] = "admitted"

LEMMA Pointwise ==
  ASSUME NEW S, NEW s, NEW m \in Node
  PROVE  /\ Bump(S)[m] = IF m \in S THEN ver[m] + 1 ELSE ver[m]
         /\ SetStat(S, s)[m] = IF m \in S THEN s ELSE nstat[m]
         /\ Unlevel(S)[m] = IF m \in S THEN "none" ELSE level[m]
BY DEF Bump, SetStat, Unlevel

LEMMA SelfAncestor ==
  ASSUME TypeOK, NEW n \in Node
  PROVE  n \in Ancestors(dep, {n}) /\ Ancestors(dep, {n}) \in SUBSET Node
BY ReachClosed DEF Ancestors, TypeOK

LEMMA KeptInClosed ==
  ASSUME TypeOK, TypeOK', NEW T \in SUBSET Node, Closed(dep, T), NEW n \in T, Bound(n),
         made'[n] = made[n],
         \A m \in T : /\ dep'[m] = dep[m] /\ ver'[m] = ver[m]
                      /\ nstat[m] = "admitted" => nstat'[m] = "admitted"
  PROVE  Kept(n)
<1>1. dep \in Graph /\ dep' \in Graph
  BY DEF TypeOK
<1> QED
  BY <1>1, AncestorsKept DEF Kept

LEMMA BoundStep ==
  ASSUME TypeOK, TypeOK', BoundInv, \A n \in Node : Bound(n)' => Kept(n) \/ BoundAt(n)'
  PROVE  BoundInv'
<1> SUFFICES ASSUME NEW n \in Node, Kept(n) PROVE BoundAt(n)'
  BY DEF BoundInv
<1>1. BoundAt(n)
  BY DEF BoundInv, Kept
<1>2. /\ made'[n] = made[n] /\ Ancestors(dep', {n}) = Ancestors(dep, {n})
      /\ \A m \in Ancestors(dep, {n}) : /\ ver'[m] = ver[m]
                                        /\ nstat[m] = "admitted" => nstat'[m] = "admitted"
  BY DEF Kept
<1>3. n \in Ancestors(dep, {n})
  BY SelfAncestor
<1> QED
  BY <1>1, <1>2, <1>3 DEF BoundAt

LEMMA LevelStep ==
  ASSUME TypeOK, TypeOK', LevelInv, rev' = rev, obs \subseteq obs',
         \A n \in Node : level'[n] = "supported" => level[n] = "supported" /\ Kept(n)
  PROVE  LevelInv'
<1> SUFFICES ASSUME NEW n \in Node, level[n] = "supported", Kind[n] = "patch", Kept(n),
                    NEW o \in obs, Proves(o, n)
             PROVE  Proves(o, n)'
  BY DEF LevelInv
<1>1. /\ Ancestors(dep', {n}) = Ancestors(dep, {n})
      /\ \A m \in Ancestors(dep, {n}) : ver'[m] = ver[m]
  BY DEF Kept
<1>2. \A m \in Node : o.vers[m] # 0 => m \in Ancestors(dep', {n}) /\ o.vers[m] = ver'[m]
  BY <1>1 DEF Proves
<1> QED
  BY <1>2 DEF Proves

\* What a step that changes the graph has to keep of the rest.
LEMMA GraphStep ==
  ASSUME IInv, TypeOK', GraphInv', OnceInv', BoundInv', LevelInv',
         UNCHANGED <<reviewFor, stages>>, status' = "running",
         stage' \in {stage, None}, reviews' \subseteq reviews,
         stage' # None => \A n \in Node : stage.vers[n] # 0 =>
           nstat'[n] = nstat[n] /\ ver'[n] = ver[n] /\ dep'[n] = dep[n],
         \A n \in Node : /\ ver'[n] = 0 => ver[n] = 0
                         /\ verdict'[n] = verdict[n] \/ verdict'[n] = "none" \/ reviewFor[n] # None,
         \/ unbound' = unbound
         \/ /\ unbound'.stage \in {stage, None}
            /\ \A n \in unbound'.nodes :
                 ver'[n] # 0 /\ reviewFor[n] = None /\ (unbound'.stage # None => Kind[n] = "review")
  PROVE  IInv'
<1>1. StageInv'
  BY DEF IInv, StageInv
<1>2. Seen' \subseteq Seen
  BY DEF Seen
<1>3. IdInv'
  BY <1>2 DEF IInv, IdInv
<1>4. ReviewInv'
  BY DEF IInv, ReviewInv, TypeOK, Unbound
<1>5. DoneInv'
  BY DEF DoneInv
<1> QED
  BY <1>1, <1>3, <1>4, <1>5 DEF IInv

\* The set that invalidateDescendants bumps, and what is left of the rest.
LEMMA Invalidated ==
  ASSUME IInv, TypeOK', NEW n \in Present, NEW x \in Node, Bound(x), x \notin Invalid({n}),
         made'[x] = made[x],
         \A m \in Node \ Invalid({n}) : m # n => dep'[m] = dep[m] /\ ver'[m] = ver[m]
                                                /\ nstat'[m] = nstat[m]
  PROVE  Kept(x)
<1> DEFINE T == Node \ Descendants(dep, {n})
<1>1. Closed(dep, T) /\ T \in SUBSET Node
  BY IndependentClosed DEF IInv, TypeOK, Present
<1>2. n \notin T /\ n \in Invalid({n})
  BY InvalidSets DEF IInv, Invalid
<1>3. x \in T
  BY DEF Bound, IInv, GraphInv, Invalid, Present
<1>4. \A m \in T : m # n /\ m \notin Invalid({n})
  BY <1>2 DEF Invalid
<1> HIDE DEF T
<1> QED
  BY <1>1, <1>3, <1>4, KeptInClosed DEF IInv

LEMMA DefineStep ==
  ASSUME IInv, TypeOK', NEW n \in Node, NEW d \in SUBSET Node, NEW changed \in BOOLEAN,
         Define(n, d, changed)
  PROVE  IInv'
<1> DEFINE bad == IF changed THEN Invalid({n}) ELSE {}
<1>1. /\ bad \in SUBSET Present /\ (changed => n \in bad)
      /\ n \notin Present => ~changed
      /\ ~changed /\ n \in Present => d = dep[n] /\ nstat[n] \in {"stale", "failed", "rejected", "cancelled"}
  BY InvalidSets DEF IInv, Define
<1>2. /\ nstat'[n] = "pending" /\ level'[n] = "none" /\ dep'[n] = d /\ made'[n] = NoAttempt
      /\ ver'[n] = IF changed THEN ver[n] + 1 ELSE Redefined(n, changed)
  <2>1. ver' = [Bump(bad) EXCEPT ![n] = IF changed THEN @ ELSE Redefined(n, changed)]
        /\ DOMAIN Bump(bad) = Node
    BY DEF Define, Bump
  <2>2. nstat' = [SetStat(bad, "stale") EXCEPT ![n] = "pending"]
        /\ DOMAIN SetStat(bad, "stale") = Node
    BY DEF Define, SetStat
  <2>3. level'[n] = "none"
    BY DEF Define, Unlevel
  <2>4. dep'[n] = d /\ made'[n] = NoAttempt
    BY DEF Define, IInv, TypeOK, Graph
  <2>5. Bump(bad)[n] = IF n \in bad THEN ver[n] + 1 ELSE ver[n]
    BY Pointwise
  <2>6. ver'[n] = IF changed THEN ver[n] + 1 ELSE Redefined(n, changed)
    BY <1>1, <2>1, <2>5
  <2> QED
    BY <2>2, <2>3, <2>4, <2>6
<1>3. ASSUME NEW m \in Node, m # n
      PROVE  /\ dep'[m] = dep[m] /\ made'[m] = made[m]
             /\ ver'[m] = (IF m \in bad THEN ver[m] + 1 ELSE ver[m])
             /\ nstat'[m] = (IF m \in bad THEN "stale" ELSE nstat[m])
             /\ level'[m] = (IF m \in bad THEN "none" ELSE level[m])
  <2>1. ver' = [Bump(bad) EXCEPT ![n] = IF changed THEN @ ELSE Redefined(n, changed)]
        /\ DOMAIN Bump(bad) = Node
    BY DEF Define, Bump
  <2>2. nstat' = [SetStat(bad, "stale") EXCEPT ![n] = "pending"]
        /\ DOMAIN SetStat(bad, "stale") = Node
    BY DEF Define, SetStat
  <2>3. level' = Unlevel(bad \cup {n})
    BY DEF Define
  <2>4. dep'[m] = dep[m] /\ made'[m] = made[m]
    BY <1>3 DEF Define, IInv, TypeOK, Graph
  <2>5. ver'[m] = Bump(bad)[m] /\ nstat'[m] = SetStat(bad, "stale")[m]
    BY <1>3, <2>1, <2>2
  <2>6. /\ Bump(bad)[m] = IF m \in bad THEN ver[m] + 1 ELSE ver[m]
        /\ SetStat(bad, "stale")[m] = IF m \in bad THEN "stale" ELSE nstat[m]
    BY Pointwise
  <2>7. Unlevel(bad \cup {n})[m] = IF m \in bad \cup {n} THEN "none" ELSE level[m]
    BY Pointwise
  <2> QED
    BY <1>3, <2>3, <2>4, <2>5, <2>6, <2>7
<1>4. UNCHANGED <<rev, status, reviewFor, verdict, attempted, stages, obs, open, unbound>>
      /\ status = "running"
  BY DEF Define, Current, authority, reportVars, cexVars
<1>5. \A m \in Node : ver[m] \in Nat /\ ver'[m] \in Nat /\ ver[m] <= ver'[m]
  <2>1. \A m \in Node : ver[m] \in Nat /\ ver'[m] \in Nat
    BY DEF IInv, TypeOK, Versions
  <2>2. n \notin Present => ver[n] = 0
    BY DEF Present
  <2> QED
    BY <1>2, <1>3, <2>1, <2>2 DEF Redefined
<1>6. d \subseteq Present /\ ver'[n] # 0
  <2>1. n \in Present => ver[n] # 0
    BY DEF Present
  <2>2. ver'[n] # 0
    BY <1>2, <1>5, <2>1 DEF Redefined
  <2> QED
    BY <2>2 DEF Define
<1>7. Present \subseteq Present'
  BY <1>5 DEF Present
<1>8. Kind[n] \in {"inspect", "patch"}
  BY DEF Define
<1> HIDE DEF bad
<1>9. GraphInv'
  BY <1>1, <1>2, <1>3, <1>5, <1>6, <1>7, <1>8 DEF IInv, GraphInv, Present
<1>10. OnceInv'
  <2> SUFFICES ASSUME NEW m \in Node, NEW v \in 1 .. MaxVer, <<m, v>> \in attempted
               PROVE  v <= ver'[m] /\ (nstat'[m] \in {"pending", "stale"} => v < ver'[m])
    BY <1>4 DEF OnceInv
  <2>1. v <= ver[m] /\ (nstat[m] \in {"pending", "stale"} => v < ver[m]) /\ m \in Present
    BY DEF IInv, OnceInv, Present
  <2>2. CASE m # n
    BY <1>3, <1>5, <2>1, <2>2
  <2>3. CASE m = n
    BY <1>2, <1>5, <2>1, <2>3 DEF Redefined
  <2> QED
    BY <2>2, <2>3
<1>11. ASSUME NEW x \in Node, Bound(x)' PROVE Kept(x)
  <2>1. x # n /\ x \notin bad /\ Bound(x) /\ x \in Present
    BY <1>2, <1>3, <1>11 DEF Bound, IInv, GraphInv, Present
  <2>2. CASE changed
    <3>1. n \in Present /\ bad = Invalid({n})
      BY <1>1, <2>2 DEF bad
    <3>2. \A m \in Node \ Invalid({n}) : m # n => dep'[m] = dep[m] /\ ver'[m] = ver[m]
                                                 /\ nstat'[m] = nstat[m]
      BY <1>3, <3>1
    <3> QED
      BY <1>3, <2>1, <3>1, <3>2, Invalidated
  <2>3. CASE n \notin Present
    <3>1. Closed(dep, Present) /\ Present \in SUBSET Node /\ bad = {}
      BY <1>1, <2>3 DEF IInv, GraphInv, Closed, Present, bad
    <3>2. \A m \in Present : dep'[m] = dep[m] /\ ver'[m] = ver[m] /\ nstat'[m] = nstat[m]
      BY <1>3, <2>3, <3>1
    <3> QED
      BY <1>3, <2>1, <3>1, <3>2, KeptInClosed DEF IInv
  <2>4. CASE ~changed /\ n \in Present
    <3>1. dep' = dep /\ bad = {}
      BY <1>1, <1>2, <1>3, <2>4 DEF IInv, TypeOK, Graph, bad
    <3>2. n \notin Ancestors(dep, {x})
      BY <1>1, <2>1, <2>4 DEF IInv, BoundInv, BoundAt
    <3>3. Ancestors(dep, {x}) \in SUBSET Node
      BY SelfAncestor DEF IInv
    <3> QED
      BY <1>3, <2>1, <3>1, <3>2, <3>3 DEF Kept
  <2> QED
    BY <2>2, <2>3, <2>4
<1>12. BoundInv'
  BY <1>11, BoundStep DEF IInv
<1>13. ASSUME NEW x \in Node, level'[x] = "supported" PROVE level[x] = "supported" /\ Kept(x)
  <2>1. x # n /\ x \notin bad /\ level[x] = "supported"
    BY <1>2, <1>3, <1>13
  <2>2. Bound(x)'
    BY <1>3, <2>1 DEF Bound, IInv, GraphInv
  <2> QED
    BY <1>11, <2>1, <2>2
<1>14. LevelInv'
  BY <1>4, <1>13, LevelStep DEF IInv
<1>15. stage' = StageAfter(bad) /\ reviews' \subseteq reviews
  BY DEF Define, ReviewsAfter, bad
<1>16. ASSUME stage' # None, NEW x \in Node, stage.vers[x] # 0
       PROVE  nstat'[x] = nstat[x] /\ ver'[x] = ver[x] /\ dep'[x] = dep[x]
  <2>1. x \notin bad /\ stage # None
    BY <1>15, <1>16 DEF StageAfter
  <2>2. nstat[x] = "admitted"
    BY <1>16, <2>1 DEF IInv, StageInv
  <2>3. x # n
    BY <1>1, <2>1, <2>2 DEF IInv, GraphInv, Present
  <2> QED
    BY <1>3, <2>1, <2>3
<1> QED
  BY <1>4, <1>5, <1>9, <1>10, <1>12, <1>14, <1>15, <1>16, GraphStep DEF StageAfter

LEMMA RejectStep ==
  ASSUME IInv, TypeOK', NEW n \in Node, Reject(n)
  PROVE  IInv'
<1> DEFINE bad == Invalid({n})
<1>1. n \in Present /\ n \in bad /\ bad \in SUBSET Present
  BY InvalidSets DEF IInv, Reject
<1>2. ASSUME NEW m \in Node
      PROVE  /\ ver'[m] = (IF m \in bad THEN ver[m] + 1 ELSE ver[m])
             /\ nstat'[m] = (IF m = n THEN "rejected" ELSE IF m \in bad THEN "stale" ELSE nstat[m])
             /\ level'[m] = (IF m \in bad THEN "none" ELSE level[m])
             /\ ver[m] \in Nat
  <2>1. nstat' = [SetStat(bad, "stale") EXCEPT ![n] = "rejected"]
        /\ DOMAIN SetStat(bad, "stale") = Node
    BY DEF Reject, SetStat
  <2>2. nstat'[m] = (IF m = n THEN "rejected" ELSE SetStat(bad, "stale")[m])
    BY <2>1
  <2>3. ver' = Bump(bad) /\ level' = Unlevel(bad)
    BY DEF Reject
  <2>4. ver[m] \in Nat
    BY DEF IInv, TypeOK, Versions
  <2> QED
    BY <2>2, <2>3, <2>4, Pointwise
<1>3. /\ UNCHANGED <<rev, status, dep, made, reviewFor, verdict, attempted, stages, obs, open, unbound>>
      /\ status = "running" /\ stage' = StageAfter(bad) /\ reviews' \subseteq reviews
  BY DEF Reject, Current, authority, reportVars, cexVars, ReviewsAfter
<1> HIDE DEF bad
<1>4. Present' = Present
  BY <1>1, <1>2 DEF Present
<1>5. GraphInv'
  BY <1>1, <1>2, <1>3, <1>4 DEF IInv, GraphInv, Present
<1>6. OnceInv'
  <2> SUFFICES ASSUME NEW m \in Node, NEW v \in 1 .. MaxVer, <<m, v>> \in attempted
               PROVE  v <= ver'[m] /\ (nstat'[m] \in {"pending", "stale"} => v < ver'[m])
    BY <1>3 DEF OnceInv
  <2>1. v <= ver[m] /\ (nstat[m] \in {"pending", "stale"} => v < ver[m])
    BY DEF IInv, OnceInv
  <2> QED
    BY <1>1, <1>2, <2>1
<1>7. ASSUME NEW x \in Node, Bound(x)' PROVE Kept(x)
  <2>1. x \notin bad /\ Bound(x)
    BY <1>1, <1>2, <1>7 DEF Bound
  <2>2. \A m \in Node \ Invalid({n}) : m # n => dep'[m] = dep[m] /\ ver'[m] = ver[m]
                                               /\ nstat'[m] = nstat[m]
    BY <1>2, <1>3 DEF bad
  <2> QED
    BY <1>1, <1>3, <2>1, <2>2, Invalidated DEF bad
<1>8. BoundInv'
  BY <1>7, BoundStep DEF IInv
<1>9. ASSUME NEW x \in Node, level'[x] = "supported" PROVE level[x] = "supported" /\ Kept(x)
  <2>1. x \notin bad /\ level[x] = "supported"
    BY <1>2, <1>9
  <2>2. Bound(x)'
    BY <1>1, <1>2, <2>1 DEF Bound, IInv, GraphInv
  <2> QED
    BY <1>7, <2>1, <2>2
<1>10. LevelInv'
  BY <1>3, <1>9, LevelStep DEF IInv
<1>11. stage' # None => \A x \in Node : stage.vers[x] # 0 =>
         nstat'[x] = nstat[x] /\ ver'[x] = ver[x] /\ dep'[x] = dep[x]
  BY <1>1, <1>2, <1>3 DEF StageAfter
<1> QED
  BY <1>2, <1>3, <1>5, <1>6, <1>8, <1>10, <1>11, GraphStep DEF StageAfter

LEMMA LaunchStep ==
  ASSUME IInv, TypeOK', NEW n \in Node, Launch(n)
  PROVE  IInv'
<1>1. /\ UNCHANGED <<rev, status, dep, ver, reviewFor, stage, stages, reviews, obs, unbound>>
      /\ status = "running" /\ nstat[n] \in {"pending", "stale"} /\ ver[n] \in 1 .. MaxVer
      /\ attempted' = attempted \cup {<<n, ver[n]>>}
  BY DEF Launch, Current, Ready, authority, cexVars, IInv, GraphInv, TypeOK, Versions
<1>2. /\ nstat'[n] = "running" /\ level'[n] = "none" /\ verdict'[n] = "none"
      /\ made'[n] = [rev |-> rev, gen |-> gen, ver |-> ver[n], inputs |-> InputsOf(n)]
  BY DEF Launch, Unlevel, IInv, TypeOK
<1>3. ASSUME NEW m \in Node, m # n
      PROVE  /\ nstat'[m] = nstat[m] /\ level'[m] = level[m] /\ verdict'[m] = verdict[m]
             /\ made'[m] = made[m]
  BY <1>3 DEF Launch, Unlevel, IInv, TypeOK
<1>4. GraphInv'
  BY <1>1, <1>2, <1>3 DEF IInv, GraphInv, Present
<1>5. OnceInv'
  BY <1>1, <1>2, <1>3 DEF IInv, OnceInv
<1>6. BoundAt(n)'
  <2>1. Ancestors(dep, {n}) = {n} \cup Ancestors(dep, dep[n])
    BY AncestorsOne DEF IInv, TypeOK
  <2>2. dep[n] = {} => Ancestors(dep, dep[n]) = {}
    BY ReachLeast DEF Ancestors, Closed
  <2>3. \A m \in Ancestors(dep, dep[n]) : nstat[m] = "admitted"
    BY <2>2 DEF Launch, Buildable, IInv, GraphInv
  <2>4. \A m \in Ancestors(dep, {n}) \ {n} : m \in Node /\ nstat'[m] = "admitted"
    BY <1>3, <2>1, <2>3 DEF Ancestors, Reach
  <2>5. Kind[n] \in {"inspect", "patch"} => InputsOf(n) = Candidate(dep[n])
    BY DEF InputsOf, IInv, ReviewInv
  <2>6. Kind[n] \in {"inspect", "patch"} =>
          \A m \in Node : InputsOf(n)[m] # 0 => m \in Ancestors(dep, {n}) /\ InputsOf(n)[m] = ver[m]
    BY <2>1, <2>5 DEF Candidate
  <2>7. made'[n].ver = ver[n] /\ made'[n].inputs = InputsOf(n)
    BY <1>2
  <2>8. dep' = dep /\ ver' = ver
    BY <1>1
  <2> QED
    BY <2>4, <2>6, <2>7, <2>8 DEF BoundAt
<1>7. ASSUME NEW x \in Node, x # n, Bound(x) PROVE Kept(x)
  <2>1. \A m \in Node : nstat[m] = "admitted" => nstat'[m] = "admitted"
    BY <1>1, <1>3
  <2>2. Ancestors(dep, {x}) \in SUBSET Node
    BY SelfAncestor DEF IInv
  <2> QED
    BY <1>1, <1>3, <1>7, <2>1, <2>2 DEF Kept
<1>8. BoundInv'
  <2>1. \A x \in Node : Bound(x)' => Kept(x) \/ BoundAt(x)'
    BY <1>3, <1>6, <1>7 DEF Bound
  <2> QED
    BY <2>1, BoundStep DEF IInv
<1>9. ASSUME NEW x \in Node, level'[x] = "supported" PROVE level[x] = "supported" /\ Kept(x)
  <2>1. x # n /\ level[x] = "supported"
    BY <1>2, <1>3, <1>9
  <2>2. Bound(x)
    BY <2>1 DEF Bound, IInv, GraphInv
  <2> QED
    BY <1>7, <2>1, <2>2
<1>10. LevelInv'
  BY <1>1, <1>9, LevelStep DEF IInv
<1>11. stage' # None => \A x \in Node : stage.vers[x] # 0 =>
         nstat'[x] = nstat[x] /\ ver'[x] = ver[x] /\ dep'[x] = dep[x]
  BY <1>1, <1>3 DEF IInv, StageInv
<1>12. \A m \in Node : verdict'[m] = verdict[m] \/ verdict'[m] = "none"
  BY <1>2, <1>3
<1> QED
  BY <1>1, <1>4, <1>5, <1>8, <1>10, <1>11, <1>12, GraphStep

\* Settling and admitting a node touch no other.
LEMMA SettleStep ==
  ASSUME IInv, TypeOK', NEW n \in Node, NEW outcome \in {"returned", "failed"}, NEW v \in Verdicts,
         Settle(n, outcome, v)
  PROVE  IInv'
<1>1. /\ UNCHANGED <<rev, status, dep, ver, made, level, reviewFor, attempted, stage, stages, reviews,
                     obs, unbound>>
      /\ nstat[n] = "running"
      /\ \E s \in {"returned", "failed", "cancelled"} : nstat' = [nstat EXCEPT ![n] = s]
      /\ verdict' = verdict \/ verdict' = [verdict EXCEPT ![n] = v]
      /\ v # "none" => reviewFor[n] # None
  BY DEF Settle, authority
<1>2. /\ nstat'[n] \in {"returned", "failed", "cancelled"}
      /\ \A m \in Node : m # n => nstat'[m] = nstat[m]
      /\ \A m \in Node : verdict'[m] = verdict[m] \/ verdict'[m] = "none" \/ reviewFor[m] # None
  BY <1>1 DEF IInv, TypeOK
<1>3. GraphInv'
  BY <1>1, <1>2 DEF IInv, GraphInv, Present
<1>4. OnceInv'
  BY <1>1, <1>2 DEF IInv, OnceInv
<1>5. ASSUME NEW x \in Node, Bound(x) PROVE Kept(x)
  <2>1. \A m \in Node : nstat[m] = "admitted" => nstat'[m] = "admitted"
    BY <1>1, <1>2
  <2>2. Ancestors(dep, {x}) \in SUBSET Node
    BY SelfAncestor DEF IInv
  <2> QED
    BY <1>1, <1>5, <2>1, <2>2 DEF Kept
<1>6. BoundInv'
  <2>1. \A x \in Node : Bound(x)' => Bound(x)
    BY <1>1, <1>2 DEF Bound
  <2> QED
    BY <1>5, <2>1, BoundStep DEF IInv
<1>7. LevelInv'
  <2>1. \A x \in Node : level[x] = "supported" => Bound(x)
    BY DEF Bound, IInv, GraphInv
  <2> QED
    BY <1>1, <1>5, <2>1, LevelStep DEF IInv
<1>8. stage' # None => \A x \in Node : stage.vers[x] # 0 =>
        nstat'[x] = nstat[x] /\ ver'[x] = ver[x] /\ dep'[x] = dep[x]
  BY <1>1, <1>2 DEF IInv, StageInv
<1>9. CASE status = "complete"
  BY <1>1, <1>9 DEF IInv, DoneInv
<1>10. CASE status # "complete"
  <2>1. StageInv'
    BY <1>1, <1>8 DEF IInv, StageInv
  <2>2. IdInv' /\ DoneInv'
    BY <1>1, <1>10 DEF IInv, IdInv, Seen, DoneInv
  <2>3. ReviewInv'
    BY <1>1, <1>2 DEF IInv, ReviewInv
  <2> QED
    BY <1>3, <1>4, <1>6, <1>7, <2>1, <2>2, <2>3 DEF IInv
<1> QED
  BY <1>9, <1>10

LEMMA AdmitStep ==
  ASSUME IInv, TypeOK', NEW n \in Node, NEW lvl \in {"supported", "hypothesis"}, Admit(n, lvl)
  PROVE  IInv'
<1>1. /\ UNCHANGED <<rev, status, dep, ver, made, verdict, reviewFor, attempted, stage, stages,
                     reviews, obs, unbound>>
      /\ status = "running" /\ Usable(n) /\ (lvl = "supported" => Supported(n))
  BY DEF Admit, Current, authority, reportVars, cexVars
<1>2. /\ nstat'[n] = "admitted" /\ level'[n] = lvl
      /\ \A m \in Node : m # n => nstat'[m] = nstat[m] /\ level'[m] = level[m]
  BY DEF Admit, IInv, TypeOK
<1>3. GraphInv'
  BY <1>1, <1>2 DEF IInv, GraphInv, Present, Usable
<1>4. OnceInv'
  BY <1>1, <1>2 DEF IInv, OnceInv
<1>5. ASSUME NEW x \in Node, Bound(x) PROVE Kept(x)
  <2>1. Ancestors(dep, {x}) \in SUBSET Node
    BY SelfAncestor DEF IInv
  <2> QED
    BY <1>1, <1>2, <1>5, <2>1 DEF Kept
<1>6. BoundInv'
  <2>1. \A x \in Node : Bound(x)' => Bound(x)
    BY <1>1, <1>2 DEF Bound, Usable
  <2> QED
    BY <1>5, <2>1, BoundStep DEF IInv
<1>7. ASSUME NEW x \in Node, level'[x] = "supported", Kind[x] = "patch"
      PROVE  \E o \in obs' : Proves(o, x)'
  <2>1. CASE x # n
    <3>1. PICK o \in obs : Proves(o, x)
      BY <1>2, <1>7, <2>1 DEF IInv, LevelInv
    <3> QED
      BY <1>1, <3>1 DEF Proves
  <2>2. CASE x = n
    <3>1. PICK o \in obs : /\ Observed(o, [key |-> n, vers |-> Candidate({n})]) /\ o.passed
                           /\ o.kind = "command"
      BY <1>1, <1>2, <1>7, <2>2 DEF Supported
    <3>2. o.rev = rev /\ o.key = n /\ o.vers = Candidate({n})
      BY <3>1 DEF Observed
    <3>3. \A m \in Node : o.vers[m] # 0 => m \in Ancestors(dep, {n}) /\ o.vers[m] = ver[m]
      BY <3>2 DEF Candidate
    <3>4. o.vers[n] = ver[n] /\ ver[n] # 0
      BY <1>1, <3>2, SelfAncestor DEF Candidate, Usable, IInv, GraphInv
    <3> QED
      BY <1>1, <2>2, <3>1, <3>2, <3>3, <3>4 DEF Proves
  <2> QED
    BY <2>1, <2>2
<1>8. LevelInv'
  BY <1>7 DEF LevelInv
<1>9. stage' # None => \A x \in Node : stage.vers[x] # 0 =>
        nstat'[x] = nstat[x] /\ ver'[x] = ver[x] /\ dep'[x] = dep[x]
  BY <1>1, <1>2 DEF IInv, StageInv
<1> QED
  BY <1>1, <1>3, <1>4, <1>6, <1>8, <1>9, GraphStep

LEMMA PrepareStep ==
  ASSUME IInv, TypeOK', NEW S \in SUBSET Node, Prepare(S),
         unbound'.nodes = S, unbound'.stage \in {stage, None},
         unbound'.stage # None => \A n \in S : Kind[n] = "review"
  PROVE  IInv'
<1>1. /\ UNCHANGED <<rev, status, dep, made, level, verdict, reviewFor, attempted, stage, stages,
                     reviews, obs>>
      /\ status = "running" /\ S \cap Present = {}
  BY DEF Prepare, Current, authority, reportVars, cexVars
<1>2. \A m \in Node : /\ ver'[m] = (IF m \in S THEN 1 ELSE ver[m])
                      /\ nstat'[m] = (IF m \in S THEN "pending" ELSE nstat[m])
                      /\ m \in S => ver[m] = 0
  BY <1>1 DEF Prepare, SetStat, Present
<1>3. Present \subseteq Present'
  BY <1>2 DEF Present
<1>4. GraphInv'
  BY <1>1, <1>2, <1>3 DEF IInv, GraphInv
<1>5. OnceInv'
  BY <1>1, <1>2 DEF IInv, OnceInv
<1>6. ASSUME NEW x \in Node, Bound(x), x \notin S PROVE Kept(x)
  <2>1. Closed(dep, Present) /\ Present \in SUBSET Node /\ x \in Present
    BY <1>6 DEF IInv, GraphInv, Closed, Present, Bound
  <2>2. \A m \in Present : dep'[m] = dep[m] /\ ver'[m] = ver[m] /\ nstat'[m] = nstat[m]
    BY <1>1, <1>2, <2>1
  <2> QED
    BY <1>1, <1>6, <2>1, <2>2, KeptInClosed DEF IInv
<1>7. BoundInv'
  <2>1. \A x \in Node : Bound(x)' => Bound(x) /\ x \notin S
    BY <1>2 DEF Bound
  <2> QED
    BY <1>6, <2>1, BoundStep DEF IInv
<1>8. LevelInv'
  <2>1. \A x \in Node : level[x] = "supported" => Bound(x) /\ x \notin S
    BY <1>2 DEF Bound, IInv, GraphInv
  <2> QED
    BY <1>1, <1>6, <2>1, LevelStep DEF IInv
<1>9. stage' # None => \A x \in Node : stage.vers[x] # 0 =>
        nstat'[x] = nstat[x] /\ ver'[x] = ver[x] /\ dep'[x] = dep[x]
  BY <1>1, <1>2 DEF IInv, StageInv
<1>10. \A x \in Node : ver'[x] = 0 => ver[x] = 0
  BY <1>2
<1>11. \A x \in S : ver'[x] # 0 /\ reviewFor[x] = None
  BY <1>2 DEF IInv, ReviewInv
<1> QED
  BY <1>1, <1>4, <1>5, <1>7, <1>8, <1>9, <1>10, <1>11, GraphStep

LEMMA ReviseStep ==
  ASSUME IInv, TypeOK', Revise
  PROVE  IInv'
<1>1. /\ UNCHANGED <<dep, made, verdict, reviewFor, attempted, stages, obs, unbound>>
      /\ status' = "running" /\ stage' = None /\ reviews' = {}
  BY DEF Revise, reportVars, cexVars
<1>2. ASSUME NEW m \in Node
      PROVE  /\ ver'[m] = (IF ver[m] # 0 THEN ver[m] + 1 ELSE ver[m])
             /\ nstat'[m] = (IF ver[m] # 0 THEN "stale" ELSE nstat[m])
             /\ level'[m] = (IF ver[m] # 0 THEN "none" ELSE level[m])
             /\ ver[m] \in Nat
  <2>1. ver' = Bump(Present) /\ nstat' = SetStat(Present, "stale") /\ level' = Unlevel(Present)
    BY DEF Revise
  <2>2. ver[m] \in Nat
    BY DEF IInv, TypeOK, Versions
  <2> QED
    BY <2>1, <2>2 DEF Bump, SetStat, Unlevel, Present
<1>3. Present' = Present
  BY <1>2 DEF Present
<1>4. GraphInv'
  BY <1>1, <1>2, <1>3 DEF IInv, GraphInv
<1>5. OnceInv'
  BY <1>1, <1>2 DEF IInv, OnceInv
<1>6. BoundInv' /\ LevelInv'
  BY <1>2 DEF BoundInv, LevelInv, Bound, IInv, GraphInv
<1> QED
  BY <1>1, <1>2, <1>4, <1>5, <1>6, GraphStep

-----------------------------------------------------------------------------
(* The invariant and the theorems *)

LEMMA InductiveInvariant == Spec => []IInv
<1>1. Init => IInv
  <2> SUFFICES ASSUME Init PROVE IInv
    OBVIOUS
  <2> USE AcceptanceAssumption DEF AcceptanceAssumption
  <2>1. TypeOK
    BY DEF Init, TypeOK, NoInput, NoAttempt, Attempts, Versions, NodeStatus, Graph, Verdicts
  <2>2. GraphInv /\ OnceInv /\ BoundInv /\ LevelInv
    BY DEF Init, GraphInv, OnceInv, BoundInv, LevelInv, Bound, NoInput
  <2>3. StageInv /\ IdInv /\ ReviewInv /\ DoneInv
    BY DEF Init, StageInv, IdInv, Seen, ReviewInv, DoneInv
  <2> QED
    BY <2>1, <2>2, <2>3 DEF IInv
<1>2. IInv /\ [Next]_vars => IInv'
  <2> SUFFICES ASSUME IInv, [Next]_vars PROVE IInv'
    OBVIOUS
  <2>1. TypeOK'
    <3>1. CASE UNCHANGED vars
      BY <3>1 DEF IInv, TypeOK, vars
    <3> QED
      BY <3>1, GraphTypes, EvidenceTypes, JudgeTypes, UserTypes DEF IInv, Next
  <2>2. ASSUME NEW n \in Node, Work(n) PROVE IInv'
    BY <2>1, <2>2, DefineStep, LaunchStep, RejectStep, SettleStep, AdmitStep DEF Work
  <2>3. CASE Judge
    <3>1. ASSUME NEW S \in SUBSET Node, ReviewStart(S) PROVE IInv'
      BY <2>1, <3>1, PrepareStep DEF ReviewStart
    <3>2. ASSUME NEW S \in SUBSET Node, NEW n \in Node, SelectStart(n, S) PROVE IInv'
      <4>1. Prepare({n}) /\ unbound'.nodes = {n} /\ unbound'.stage = None
        BY <3>2 DEF SelectStart
      <4> QED
        BY <2>1, <4>1, PrepareStep
    <3> QED
      BY <2>1, <2>3, <3>1, <3>2, StageStep, BindStep, FinishStep, QuietActions DEF Judge
  <2>4. CASE User
    BY <2>1, <2>4, ReviseStep, BindStep, QuietActions DEF User
  <2>5. CASE Evidence \/ UNCHANGED vars
    BY <2>1, <2>5, QuietActions
  <2> QED
    BY <2>2, <2>3, <2>4, <2>5 DEF Next
<1> QED
  BY <1>1, <1>2, PTL DEF Spec

\* Every variable keeps its type.
THEOREM TypeCorrect == Spec => []TypeOK
<1>1. IInv => TypeOK
  BY DEF IInv
<1> QED
  BY <1>1, InductiveInvariant, PTL

\* However the graph is redefined, retried, rejected and revised, the nodes of
\* the stage are admitted and were computed from the versions staged with them.
THEOREM StagesAreCoherent == Spec => []StageCoherent
<1>1. IInv => StageCoherent
  <2> SUFFICES ASSUME IInv, StageCurrent, NEW n \in Node, stage.vers[n] # 0
               PROVE  /\ nstat[n] = "admitted" /\ made[n].ver = stage.vers[n]
                      /\ Kind[n] \in {"inspect", "patch"} =>
                           \A m \in Node : made[n].inputs[m] # 0 => stage.vers[m] = made[n].inputs[m]
    BY DEF StageCoherent
  <2> DEFINE T == {m \in Node : stage.vers[m] # 0}
  <2>1. \A m \in T : nstat[m] = "admitted" /\ ver[m] = stage.vers[m] /\ dep[m] \subseteq T
    BY DEF StageCurrent, IInv, StageInv, TypeOK, Graph
  <2>2. Ancestors(dep, {n}) \subseteq T
    <3>1. T \in SUBSET Node /\ {n} \subseteq T /\ Closed(dep, T)
      BY <2>1 DEF Closed
    <3> QED
      BY <3>1, ReachLeast DEF Ancestors
  <2>3. BoundAt(n)
    BY <2>1 DEF IInv, BoundInv, Bound
  <2> QED
    BY <2>1, <2>2, <2>3 DEF BoundAt
<1> QED
  BY <1>1, InductiveInvariant, PTL

\* A version of a node is launched once: a retry, a rejection, a redefinition
\* or a revision always comes with a new version.
THEOREM VersionsHaveOneAttempt == Spec => OneAttemptPerVersion
<1> DEFINE A == \A n \in Node : made'[n] # made[n] /\ made'[n] # NoAttempt => <<n, ver[n]>> \notin attempted
<1>1. IInv /\ [Next]_vars => [A]_vars
  <2> SUFFICES ASSUME IInv, [Next]_vars, NEW n \in Node, made'[n] # made[n], made'[n] # NoAttempt
               PROVE  <<n, ver[n]>> \notin attempted
    BY DEF A
  <2>1. Launch(n)
    <3>1. ASSUME NEW m \in Node, Work(m) PROVE m = n /\ Launch(n)
      BY <3>1 DEF Work, Define, Launch, Settle, Reject, Admit, IInv, TypeOK
    <3>2. made' = made \/ \E m \in Node : Work(m)
      BY DEF Next, Evidence, Observe, CheckStart, CheckEnd, CheckThrows, EnvironmentChanges,
             Judge, Stage, ReviewStart, SelectStart, Prepare, Bind, BindFails, Obligations, Finish,
             Report, Resolve, User, Revise, Stop, Resume, Reopen, graphVars, vars
    <3> QED
      BY <3>1, <3>2
  <2>2. nstat[n] \in {"pending", "stale"} /\ ver[n] \in 1 .. MaxVer
    BY <2>1 DEF Launch, Ready, IInv, GraphInv, TypeOK, Versions
  <2> QED
    BY <2>2 DEF IInv, OnceInv
<1> QED
  BY <1>1, InductiveInvariant, PTL DEF Spec, OneAttemptPerVersion

\* Every patch that is delivered passed an executable check of its own, of the
\* versions that are delivered.
THEOREM DeliveryIsChecked == Spec => []DeliveredChecked
<1>1. IInv => DeliveredChecked
  <2> SUFFICES ASSUME IInv, status = "complete", NEW n \in Node, stage.vers[n] # 0, Kind[n] = "patch"
               PROVE  \E o \in obs :
                        /\ o.kind = "command" /\ o.passed /\ o.key = n /\ o.rev = rev /\ o.vers[n] # 0
                        /\ \A m \in Node : o.vers[m] # 0 => o.vers[m] = stage.vers[m]
    BY DEF DeliveredChecked
  <2>1. stage # None /\ level[n] = "supported"
    BY DEF IInv, DoneInv
  <2> DEFINE T == {m \in Node : stage.vers[m] # 0}
  <2>2. \A m \in T : ver[m] = stage.vers[m] /\ dep[m] \subseteq T
    BY <2>1 DEF IInv, StageInv, TypeOK, Graph
  <2>3. Ancestors(dep, {n}) \subseteq T
    <3>1. T \in SUBSET Node /\ {n} \subseteq T /\ Closed(dep, T)
      BY <2>2 DEF Closed
    <3> QED
      BY <3>1, ReachLeast DEF Ancestors
  <2>4. PICK o \in obs : Proves(o, n)
    BY <2>1 DEF IInv, LevelInv
  <2>5. \A m \in Node : o.vers[m] # 0 => o.vers[m] = stage.vers[m]
    BY <2>2, <2>3, <2>4 DEF Proves
  <2> QED
    BY <2>4, <2>5 DEF Proves
<1> QED
  BY <1>1, InductiveInvariant, PTL

\* What is delivered was approved by a review of that very stage, launched under
\* the authority that accepts it, and nothing is left unresolved.
THEOREM DeliveryIsReviewed == Spec => []DeliveredReviewed
<1>1. IInv => DeliveredReviewed
  BY DEF IInv, DoneInv, DeliveredReviewed
<1> QED
  BY <1>1, InductiveInvariant, PTL
=============================================================================
