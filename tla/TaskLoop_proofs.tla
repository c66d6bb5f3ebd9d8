-------------------------- MODULE TaskLoop_proofs --------------------------
(***************************************************************************)
(* Proofs about TaskLoop for every graph, pool capacity and bound: first   *)
(* types, results and stopped controllers, then the life of native runs.   *)
(***************************************************************************)
EXTENDS TaskLoopRefinement, TLAPS, FiniteSetTheorems

-----------------------------------------------------------------------------
(* The helpers have the types their users need *)

LEMMA HelperTypes ==
  ASSUME TypeOK, TaskLoopAssumption, NEW S \in SUBSET Node
  PROVE  /\ Held \in SUBSET Object /\ LiveObjects \in SUBSET Object
         /\ Clones(S) \in SUBSET Object
         /\ \A flags \in SUBSET Object : Cloned(flags, S) \in SUBSET Object
         /\ Invalid(S) \in SUBSET Node
<1>1. ASSUME NEW n \in Node, att[n] # 0
      PROVE  /\ <<n, att[n], 0>> \in Object
             /\ <<n, att[n], ver[n]>> \in Object
  BY <1>1 DEF TypeOK, TaskTypeOK, TaskLoopAssumption, Object
<1>2. Held \in SUBSET Object
  BY <1>1 DEF Held
<1>3. Clones(S) \in SUBSET Object
  BY <1>1 DEF Clones, Orphaning
<1>4. ASSUME NEW flags \in SUBSET Object
      PROVE  Cloned(flags, S) \in SUBSET Object
  <2>1. \A n \in {m \in Orphaning(S) : <<m, att[m], 0>> \in flags} :
          <<n, att[n], ver[n]>> \in Object
    BY <1>1 DEF Orphaning
  <2> QED
    BY <2>1 DEF Cloned
<1>5. Invalid(S) \in SUBSET Node
  BY DEF Invalid, Present
<1>6. LiveObjects \in SUBSET Object
  BY <1>2 DEF LiveObjects, TypeOK, TaskTypeOK
<1> QED
  BY <1>2, <1>3, <1>4, <1>5, <1>6

LEMMA IdsType ==
  ASSUME NEW objects \in SUBSET Object
  PROVE  Ids(objects) \in SUBSET Attempt
BY DEF Ids, Of, Object, Attempt

LEMMA StopRunsTypes ==
  ASSUME TypeOK, NEW objects \in SUBSET Object, NEW knownNow \in SUBSET Object,
         StopRuns(objects, knownNow)
  PROVE  known' \in SUBSET Object /\ kill' \in SUBSET Attempt
<1> DEFINE found == knownNow \cup Reconcilable(objects)
<1>1. found \in SUBSET Object
  BY DEF Reconcilable
<1>2. Ids(objects \cap found) \in SUBSET Attempt
  BY IdsType
<1> QED
  BY <1>1, <1>2 DEF StopRuns, TypeOK, OutsideTypeOK

LEMMA WrittenType ==
  ASSUME TypeOK, NEW a \in Attempt, NEW s \in Stat
  PROVE  Written(a, s) \in [Node -> Stat]
BY DEF Written, TypeOK, TaskTypeOK, Attempt

LEMMA CrossedType ==
  ASSUME TypeOK, NEW a \in Attempt, NEW s
  PROVE  Crossed(a, s) \in SUBSET Attempt
<1>1. a[1] \in Node /\ att[a[1]] \in 0 .. MaxTry
  BY DEF Attempt, TypeOK, TaskTypeOK
<1>2. att[a[1]] # 0 => <<a[1], att[a[1]]>> \in Attempt
  BY <1>1 DEF Attempt
<1> QED
  BY <1>2 DEF Crossed, TypeOK, OutsideTypeOK

LEMMA SetStatType ==
  ASSUME TypeOK, NEW S \in SUBSET Node, NEW s \in Stat
  PROVE  SetStat(S, s) \in [Node -> Stat]
BY DEF SetStat, TypeOK, TaskTypeOK

LEMMA BumpType ==
  ASSUME TypeOK, TaskLoopAssumption, NEW S \in SUBSET Node, \A n \in S : ver[n] < MaxVer
  PROVE  Bump(S) \in [Node -> 0 .. MaxVer]
BY DEF Bump, TypeOK, TaskTypeOK, TaskLoopAssumption

\* A checkpoint leaves the projection on disk, or what was there if the journal
\* has failed; the known run ids may be older than the present ones.
LEMMA CheckpointEffect ==
  ASSUME durable \in Saved, TaskTypeOK', NEW k \in SUBSET Object, CheckpointWith(k)
  PROVE  /\ durable' \in Saved
         /\ failed => durable' = durable
         /\ ~failed => /\ durable'.task = task' /\ durable'.rev = rev' /\ durable'.gen = gen'
                       /\ durable'.status = status' /\ durable'.ver = ver'
                       /\ durable'.nstat = nstat' /\ durable'.att = att'
BY DEF CheckpointWith, Projection, Saved, TaskTypeOK
-----------------------------------------------------------------------------
(* Type correctness *)

\* The actions keep the three groups of variables typed; the lemma
\* CheckpointEffect then types the session file.
LEMMA TypeStep ==
  ASSUME TypeOK, TaskLoopAssumption, TaskTypeOK', MemTypeOK', OutsideTypeOK',
         durable' = durable \/ \E k \in SUBSET Object : CheckpointWith(k)
  PROVE  TypeOK'
<1>1. durable \in Saved
  BY DEF TypeOK
<1>2. CASE durable' = durable
  BY <1>1, <1>2 DEF TypeOK
<1>3. ASSUME NEW k \in SUBSET Object, CheckpointWith(k)
      PROVE  durable' \in Saved
  BY <1>1, <1>3, CheckpointEffect
<1> QED
  BY <1>2, <1>3 DEF TypeOK

LEMMA NewTaskType == ASSUME TypeOK, TaskLoopAssumption, NewTask PROVE TypeOK'
<1>1. TaskTypeOK'
  BY DEF NewTask, TypeOK, TaskTypeOK, MemTypeOK, OutsideTypeOK, Graph, Stat, TaskStatus, TaskLoopAssumption
<1>2. MemTypeOK'
  BY DEF NewTask, TypeOK, TaskTypeOK, MemTypeOK, OutsideTypeOK
<1>3. OutsideTypeOK'
  BY DEF NewTask, TypeOK, TaskTypeOK, MemTypeOK, OutsideTypeOK, VoidAll, Launched
<1>4. CheckpointWith(known') /\ known' \in SUBSET Object
  BY <1>1 DEF NewTask, Checkpoint, TaskTypeOK
<1> QED
  BY <1>1, <1>2, <1>3, <1>4, TypeStep

LEMMA ReviseType == ASSUME TypeOK, TaskLoopAssumption, Revise PROVE TypeOK'
<1>1. Present \in SUBSET Node
  BY DEF Present
<1>2. /\ Clones(Present) \in SUBSET Object
      /\ \A flags \in SUBSET Object : Cloned(flags, Present) \in SUBSET Object
  BY <1>1, HelperTypes
<1>3. /\ Cloned(known, Present) \in SUBSET Object /\ Cloned(settled, Present) \in SUBSET Object
      /\ Cloned(dirless, Present) \in SUBSET Object
  BY <1>2 DEF TypeOK, TaskTypeOK
<1>4. orphans' \in SUBSET Object /\ settled' \in SUBSET Object /\ dirless' \in SUBSET Object
  BY <1>2, <1>3 DEF Revise, TypeOK, TaskTypeOK
<1>5. known' \in SUBSET Object /\ kill' \in SUBSET Attempt
  BY <1>3, <1>4, StopRunsTypes DEF Revise
<1>6. ver' \in [Node -> 0 .. MaxVer] /\ nstat' \in [Node -> Stat]
  BY <1>1, BumpType, SetStatType DEF Revise, Stat, NodeStatus, Withdrawn
<1>7. TaskTypeOK'
  BY <1>4, <1>5, <1>6 DEF Revise, TypeOK, TaskTypeOK, MemTypeOK, OutsideTypeOK, TaskStatus
<1>8. MemTypeOK' /\ OutsideTypeOK'
  BY <1>5 DEF Revise, TypeOK, TaskTypeOK, MemTypeOK, OutsideTypeOK, VoidAll, Launched
<1> QED
  BY <1>3, <1>7, <1>8, TypeStep DEF Revise

LEMMA RejectType ==
  ASSUME TypeOK, TaskLoopAssumption, NEW n \in Node, Reject(n) PROVE TypeOK'
<1> DEFINE bad == Invalid({n})
<1>1. bad \in SUBSET Node
  BY HelperTypes
<1>2. /\ Clones(bad) \in SUBSET Object
      /\ \A flags \in SUBSET Object : Cloned(flags, bad) \in SUBSET Object
  BY <1>1, HelperTypes
<1>3. /\ Cloned(known, bad) \in SUBSET Object /\ Cloned(settled, bad) \in SUBSET Object
      /\ Cloned(dirless, bad) \in SUBSET Object
  BY <1>2 DEF TypeOK, TaskTypeOK
<1>4. orphans' \in SUBSET Object /\ settled' \in SUBSET Object /\ dirless' \in SUBSET Object
  BY <1>2, <1>3 DEF Reject, TypeOK, TaskTypeOK
<1>5. known' \in SUBSET Object /\ kill' \in SUBSET Attempt
  BY <1>3, <1>4, StopRunsTypes DEF Reject
<1>6. ver' \in [Node -> 0 .. MaxVer] /\ SetStat(bad, "stale") \in [Node -> Stat]
  BY <1>1, BumpType, SetStatType DEF Reject, Stat, NodeStatus, Withdrawn
<1>7. nstat' \in [Node -> Stat]
  BY <1>6 DEF Reject, Stat, NodeStatus, Withdrawn
<1>8. TaskTypeOK'
  BY <1>4, <1>5, <1>6, <1>7 DEF Reject, TypeOK, TaskTypeOK, MemTypeOK, OutsideTypeOK
<1>9. MemTypeOK' /\ OutsideTypeOK'
  BY <1>5 DEF Reject, TypeOK, TaskTypeOK, MemTypeOK, OutsideTypeOK
<1> QED
  BY <1>3, <1>8, <1>9, TypeStep DEF Reject

LEMMA DefineType ==
  ASSUME TypeOK, TaskLoopAssumption, NEW S \in SUBSET Node, NEW changed \in SUBSET S,
         NEW newDep \in Graph, Define(S, changed, newDep)
  PROVE  TypeOK'
<1> DEFINE bad   == IF changed = {} THEN {} ELSE Invalid(changed)
           stat1 == SetStat(bad, "stale")
           ver1  == Bump(bad)
           redo  == {n \in S : n \notin Present \/ n \in changed
                               \/ stat1[n] \in {"stale", "failed", "rejected", "cancelled"}}
<1>1. bad \in SUBSET Node /\ redo \in SUBSET Node
  BY HelperTypes
<1>2. /\ Clones(bad) \in SUBSET Object
      /\ \A flags \in SUBSET Object : Cloned(flags, bad) \in SUBSET Object
  BY <1>1, HelperTypes
<1>3. /\ Cloned(known, bad) \in SUBSET Object /\ Cloned(settled, bad) \in SUBSET Object
      /\ Cloned(dirless, bad) \in SUBSET Object
  BY <1>2 DEF TypeOK, TaskTypeOK
<1>4. orphans' \in SUBSET Object /\ settled' \in SUBSET Object /\ dirless' \in SUBSET Object
  BY <1>2, <1>3 DEF Define, TypeOK, TaskTypeOK
<1>5. known' \in SUBSET Object /\ kill' \in SUBSET Attempt
  BY <1>3, <1>4, StopRunsTypes DEF Define
<1>6. \A n \in bad \cup redo : ver[n] < MaxVer
  BY DEF Define
<1>7. ver1 \in [Node -> 0 .. MaxVer] /\ stat1 \in [Node -> Stat]
  BY <1>1, <1>6, BumpType, SetStatType DEF Stat, NodeStatus, Withdrawn
<1>8. ver' \in [Node -> 0 .. MaxVer]
  <2>1. ver' = [n \in Node |-> IF n \in redo /\ n \notin changed /\ stat1[n] # "stale"
                               THEN ver1[n] + 1 ELSE ver1[n]]
    BY DEF Define
  <2>2. ASSUME NEW n \in Node, n \in redo, stat1[n] # "stale"
        PROVE  ver1[n] + 1 \in 0 .. MaxVer
    <3>1. n \notin bad
      BY <2>2 DEF SetStat
    <3>2. ver1[n] = ver[n] /\ ver[n] < MaxVer /\ ver[n] \in 0 .. MaxVer
      BY <2>2, <3>1, <1>6 DEF Bump, TypeOK, TaskTypeOK
    <3> QED
      BY <3>2 DEF TaskLoopAssumption
  <2> QED
    BY <1>7, <2>1, <2>2
<1>9. nstat' \in [Node -> Stat] /\ att' \in [Node -> 0 .. MaxTry]
  BY <1>7 DEF Define, TypeOK, TaskTypeOK, Stat, NodeStatus, TaskLoopAssumption
<1>10. TaskTypeOK'
  BY <1>4, <1>5, <1>8, <1>9 DEF Define, TypeOK, TaskTypeOK, MemTypeOK, OutsideTypeOK
<1>11. MemTypeOK' /\ OutsideTypeOK'
  BY <1>5 DEF Define, TypeOK, TaskTypeOK, MemTypeOK, OutsideTypeOK
<1> QED
  BY <1>3, <1>10, <1>11, TypeStep DEF Define
LEMMA DispatchType ==
  ASSUME TypeOK, TaskLoopAssumption, NEW S \in SUBSET Node, NEW ok \in SUBSET S,
         Dispatch(S, ok)
  PROVE  TypeOK'
<1> DEFINE try == [n \in Node |-> IF n \in ok THEN tries[n] + 1 ELSE tries[n]]
           started == {<<n, try[n]>> : n \in ok}
<1>1. \A n \in ok : n \in Node /\ tries[n] < MaxTry
  BY DEF Dispatch
<1>2. try \in [Node -> 0 .. MaxTry] /\ \A n \in ok : try[n] \in 1 .. MaxTry
  BY <1>1 DEF TypeOK, OutsideTypeOK, TaskLoopAssumption
<1>3. started \in SUBSET Attempt
  <2>1. \A n \in ok : <<n, try[n]>> \in Attempt
    BY <1>1, <1>2 DEF Attempt
  <2> HIDE DEF try
  <2> QED
    BY <2>1
<1>4. nstat' \in [Node -> Stat] /\ att' \in [Node -> 0 .. MaxTry]
  BY <1>2, SetStatType DEF Dispatch, TypeOK, TaskTypeOK, Stat, NodeStatus
<1>5. TaskTypeOK'
  BY <1>4 DEF Dispatch, TypeOK, TaskTypeOK, MemTypeOK, OutsideTypeOK
<1>6. MemTypeOK'
  BY <1>3 DEF Dispatch, TypeOK, TaskTypeOK, MemTypeOK, OutsideTypeOK
<1>7. info' \in [Attempt -> AttemptInfo]
  <2> DEFINE new(a) == [task |-> task, rev |-> rev, gen |-> gen, ver |-> ver[a[1]],
                        inputs |-> [m \in Node |->
                          IF m \in Ancestors(dep, dep[a[1]]) THEN ver[m] ELSE 0]]
  <2>1. ASSUME NEW a \in Attempt PROVE new(a) \in AttemptInfo
    <3>1. a[1] \in Node /\ ver \in [Node -> 0 .. MaxVer] /\ 0 \in 0 .. MaxVer
      BY DEF Attempt, TypeOK, TaskTypeOK, TaskLoopAssumption
    <3>2. [m \in Node |-> IF m \in Ancestors(dep, dep[a[1]]) THEN ver[m] ELSE 0]
            \in [Node -> 0 .. MaxVer]
      BY <3>1
    <3> QED
      BY <3>1, <3>2 DEF AttemptInfo, TypeOK, TaskTypeOK
  <2>2. info' = [a \in Attempt |-> IF a \notin started THEN info[a] ELSE new(a)]
    BY DEF Dispatch
  <2>3. \A a \in Attempt : info[a] \in AttemptInfo
    BY DEF TypeOK, OutsideTypeOK
  <2> HIDE DEF new, started
  <2> QED
    BY <2>1, <2>2, <2>3
<1>8. OutsideTypeOK'
  BY <1>2, <1>7 DEF Dispatch, TypeOK, OutsideTypeOK, ProcState
<1>9. CheckpointWith(known') /\ known' \in SUBSET Object
  BY <1>5 DEF Dispatch, Checkpoint, TaskTypeOK
<1> QED
  BY <1>5, <1>6, <1>8, <1>9, TypeStep

LEMMA OwnerDecisionType ==
  ASSUME TypeOK, TaskLoopAssumption, Finish \/ \E n \in Node : Admit(n)
  PROVE  TypeOK'
<1>1. TaskTypeOK'
  BY DEF Finish, Admit, TaskTypeOK, TypeOK, TaskStatus, Stat, NodeStatus
<1>2. MemTypeOK' /\ OutsideTypeOK'
  BY DEF Finish, Admit, TypeOK, TaskTypeOK, MemTypeOK, OutsideTypeOK, memVars, historyVars
<1>3. CheckpointWith(known') /\ known' \in SUBSET Object
  BY <1>1 DEF Finish, Admit, Checkpoint, TaskTypeOK
<1> QED
  BY <1>1, <1>2, <1>3, TypeStep

LEMMA OrigType == ASSUME TaskLoopAssumption, NEW a \in Attempt PROVE Orig(a) \in Object
BY DEF Orig, Attempt, Object, TaskLoopAssumption

LEMMA SpawnType ==
  ASSUME TypeOK, TaskLoopAssumption, NEW a \in Attempt, SpawnReturns(a) \/ StopReturns(a)
  PROVE  TypeOK'
<1>0. /\ Orig(a) \in Object
      /\ \A s \in {"running", "cancelled", "unknown", "failed"} :
           Written(a, s) \in [Node -> Stat] /\ Crossed(a, s) \in SUBSET Attempt
  BY OrigType, WrittenType, CrossedType DEF Stat, NodeStatus, Withdrawn
<1>1. CASE SpawnAckCurrent(a)
  <2>1. TaskTypeOK' /\ MemTypeOK' /\ OutsideTypeOK'
    BY <1>0, <1>1 DEF SpawnAckCurrent, Returned, TypeOK, TaskTypeOK, MemTypeOK, OutsideTypeOK, historyVars
  <2> QED
    BY <1>1, <2>1, TypeStep DEF SpawnAckCurrent, Checkpoint, TaskTypeOK
<1>2. CASE SpawnAckLate(a)
  <2>1. TaskTypeOK' /\ MemTypeOK' /\ OutsideTypeOK'
    BY <1>0, <1>2 DEF SpawnAckLate, TypeOK, TaskTypeOK, MemTypeOK, OutsideTypeOK, historyVars
  <2> QED
    BY <1>2, <2>1, TypeStep DEF SpawnAckLate
<1>3. CASE SpawnRefused(a)
  <2>1. TaskTypeOK' /\ MemTypeOK' /\ OutsideTypeOK'
    BY <1>0, <1>3 DEF SpawnRefused, Returned, TypeOK, TaskTypeOK, MemTypeOK, OutsideTypeOK, historyVars
  <2> QED
    BY <1>3, <2>1, TypeStep DEF SpawnRefused, Checkpoint, TaskTypeOK
<1>4. CASE SpawnUnknown(a)
  <2>1. TaskTypeOK' /\ MemTypeOK' /\ OutsideTypeOK'
    BY <1>0, <1>4 DEF SpawnUnknown, Returned, TypeOK, TaskTypeOK, MemTypeOK, OutsideTypeOK, historyVars
  <2> QED
    BY <1>4, <2>1, TypeStep DEF SpawnUnknown, Checkpoint, TaskTypeOK
<1>5. CASE SpawnStopped(a)
  <2>1. TaskTypeOK' /\ MemTypeOK' /\ OutsideTypeOK'
    BY <1>0, <1>5 DEF SpawnStopped, Returned, TypeOK, TaskTypeOK, MemTypeOK, OutsideTypeOK, historyVars
  <2> QED
    BY <1>5, <2>1, TypeStep DEF SpawnStopped, Checkpoint, TaskTypeOK
<1>6. ASSUME NEW reply, SpawnFails(a, reply) PROVE TypeOK'
  <2>1. TaskTypeOK' /\ MemTypeOK' /\ OutsideTypeOK'
    BY <1>0, <1>6 DEF SpawnFails, TypeOK, TaskTypeOK, MemTypeOK, OutsideTypeOK, historyVars
  <2> QED
    BY <1>6, <2>1, TypeStep DEF SpawnFails
<1>7. CASE SpawnFailed(a)
  <2>1. TaskTypeOK' /\ MemTypeOK' /\ OutsideTypeOK'
    BY <1>7 DEF SpawnFailed, Returned, TypeOK, TaskTypeOK, MemTypeOK, OutsideTypeOK, historyVars
  <2> QED
    BY <1>7, <2>1, TypeStep DEF SpawnFailed, Checkpoint, TaskTypeOK
<1> QED
  BY <1>1, <1>2, <1>3, <1>4, <1>5, <1>6, <1>7 DEF SpawnReturns, StopReturns

LEMMA NativeType ==
  ASSUME TypeOK, TaskLoopAssumption, NEW a \in Attempt, NativeHandles(a) \/ NativeEnd(a)
  PROVE  TypeOK'
BY DEF NativeHandles, NativeLaunch, NativeRefuse, NativeEnd, NativeStep, TypeOK, TaskTypeOK, MemTypeOK, OutsideTypeOK, taskVars,
       memVars, historyVars, ProcState

LEMMA RefreshType ==
  ASSUME TypeOK, TaskLoopAssumption, RefreshStart \/ \E o \in Object : RefreshStep(o)
  PROVE  TypeOK'
<1>1. CASE RefreshStart
  <2>1. LiveObjects \in SUBSET Object
    BY HelperTypes
  <2>2. Latest(LiveObjects) \in SUBSET Object /\ Reconcilable(Latest(LiveObjects)) \in SUBSET Object
    BY <2>1 DEF Latest, Reconcilable
  <2>3. TaskTypeOK' /\ MemTypeOK' /\ OutsideTypeOK'
    BY <1>1, <2>2 DEF RefreshStart, RefreshEnd, TypeOK, TaskTypeOK, MemTypeOK, OutsideTypeOK, historyVars
  <2> QED
    BY <1>1, <2>3, TypeStep DEF RefreshStart, RefreshEnd, Checkpoint, TaskTypeOK
<1>2. ASSUME NEW o \in Object, RefreshUnsettled(o) PROVE TypeOK'
  <2>1. TaskTypeOK' /\ MemTypeOK' /\ OutsideTypeOK'
    BY <1>2 DEF RefreshUnsettled, RefreshEnd, TypeOK, TaskTypeOK, MemTypeOK, OutsideTypeOK, historyVars
  <2> QED
    BY <1>2, <2>1, TypeStep DEF RefreshUnsettled, RefreshEnd, Checkpoint, TaskTypeOK
<1>3. ASSUME NEW o \in Object, NEW r \in {"returned", "rejected", "failed"}, RefreshSettle(o, r)
      PROVE  TypeOK'
  <2>1. nstat' \in [Node -> Stat]
    BY <1>3 DEF RefreshSettle, TypeOK, TaskTypeOK, Stat, NodeStatus, Withdrawn
  <2>2. TaskTypeOK' /\ MemTypeOK' /\ OutsideTypeOK'
    BY <1>3, <2>1 DEF RefreshSettle, RefreshEnd, TypeOK, TaskTypeOK, MemTypeOK, OutsideTypeOK, historyVars
  <2> QED
    BY <1>3, <2>2, TypeStep DEF RefreshSettle, RefreshEnd, Checkpoint, TaskTypeOK
<1>4. ASSUME NEW o \in Object, RefreshUnrecorded(o) PROVE TypeOK'
  <2>1. TaskTypeOK' /\ MemTypeOK' /\ OutsideTypeOK'
    BY <1>4 DEF RefreshUnrecorded, RefreshEnd, TypeOK, TaskTypeOK, MemTypeOK, OutsideTypeOK, historyVars
  <2> QED
    BY <1>4, <2>1, TypeStep DEF RefreshUnrecorded, RefreshEnd, Checkpoint, TaskTypeOK
<1> QED
  BY <1>1, <1>2, <1>3, <1>4 DEF RefreshStep

LEMMA StopType ==
  ASSUME TypeOK, TaskLoopAssumption, (\E s \in Latched : Stop(s)) \/ Dispose PROVE TypeOK'
<1>1. LiveObjects \in SUBSET Object /\ known \in SUBSET Object
  BY HelperTypes DEF TypeOK, TaskTypeOK
<1>2. ASSUME NEW s \in Latched, Latch(s)
      PROVE  TaskTypeOK' /\ kill' \in SUBSET Attempt /\ voided' \in SUBSET Attempt
  <2>1. known' \in SUBSET Object /\ kill' \in SUBSET Attempt
    BY <1>1, <1>2, StopRunsTypes DEF Latch
  <2> QED
    BY <1>2, <2>1 DEF Latch, TypeOK, TaskTypeOK, MemTypeOK, OutsideTypeOK, TaskStatus, Launched
<1>3. ASSUME NEW s \in Latched, Stop(s) PROVE TypeOK'
  <2>1. TaskTypeOK' /\ MemTypeOK' /\ OutsideTypeOK'
    BY <1>2, <1>3 DEF Stop, TypeOK, TaskTypeOK, MemTypeOK, OutsideTypeOK, memVars
  <2> QED
    BY <1>1, <1>3, <2>1, TypeStep DEF Stop
<1>4. CASE Dispose
  <2>1. TaskTypeOK' /\ MemTypeOK' /\ OutsideTypeOK'
    BY <1>2, <1>4 DEF Dispose, TypeOK, TaskTypeOK, MemTypeOK, OutsideTypeOK, Latched
  <2> QED
    BY <1>1, <1>4, <2>1, TypeStep DEF Dispose
<1> QED
  BY <1>3, <1>4

LEMMA ResumeType ==
  ASSUME TypeOK, TaskLoopAssumption, ResumeNow \/ ResumeStart \/ ResumeEnd \/ ResumeFails
  PROVE  TypeOK'
<1>1. CASE Resumed
  <2>1. TaskTypeOK' /\ MemTypeOK' /\ OutsideTypeOK'
    BY <1>1 DEF Resumed, TypeOK, TaskTypeOK, MemTypeOK, OutsideTypeOK, VoidAll, Launched, TaskStatus
  <2> QED
    BY <1>1, <2>1, TypeStep DEF Resumed, Checkpoint, TaskTypeOK
<1>2. CASE ResumeStart
  <2>1. LiveObjects \in SUBSET Object /\ known \in SUBSET Object
    BY HelperTypes DEF TypeOK, TaskTypeOK
  <2>2. known' \in SUBSET Object /\ kill' \in SUBSET Attempt
    BY <1>2, <2>1, StopRunsTypes DEF ResumeStart
  <2>3. TaskTypeOK' /\ MemTypeOK' /\ OutsideTypeOK'
    BY <1>2, <2>2 DEF ResumeStart, TypeOK, TaskTypeOK, MemTypeOK, OutsideTypeOK, historyVars
  <2> QED
    BY <1>2, <2>3, TypeStep DEF ResumeStart
<1>3. CASE ResumeFails
  <2>1. TaskTypeOK' /\ MemTypeOK' /\ OutsideTypeOK'
    BY <1>3 DEF ResumeFails, TypeOK, TaskTypeOK, MemTypeOK, OutsideTypeOK, taskVars, historyVars
  <2> QED
    BY <1>3, <2>1, TypeStep DEF ResumeFails
<1> QED
  BY <1>1, <1>2, <1>3 DEF ResumeNow, ResumeEnd

LEMMA SessionType ==
  ASSUME TypeOK, TaskLoopAssumption, CheckpointFails \/ DisposeEnd \/ Crash \/ Attach
  PROVE  TypeOK'
<1>1. CASE CheckpointFails
  <2>1. Ids(LiveObjects \cap known) \in SUBSET Attempt
    BY HelperTypes, IdsType
  <2>2. TaskTypeOK' /\ MemTypeOK' /\ OutsideTypeOK'
    <3>1. TaskTypeOK'
      BY <1>1 DEF CheckpointFails, TypeOK, TaskTypeOK, TaskStatus, Latched
    <3>2. kill' \in SUBSET Attempt /\ voided' \in SUBSET Attempt
      BY <1>1, <2>1 DEF CheckpointFails, TypeOK, OutsideTypeOK, VoidAll, Launched
    <3> QED
      BY <1>1, <3>1, <3>2 DEF CheckpointFails, TypeOK, MemTypeOK, OutsideTypeOK
  <2> QED
    BY <1>1, <2>2, TypeStep DEF CheckpointFails
<1>2. CASE DisposeEnd \/ Crash
  <2>1. TaskTypeOK' /\ MemTypeOK' /\ OutsideTypeOK'
    <3>1. ProcessEnds /\ crashes' \in Nat
      BY <1>2 DEF DisposeEnd, Crash, TypeOK, OutsideTypeOK
    <3>2. TaskTypeOK'
      BY <3>1 DEF ProcessEnds, TypeOK, TaskTypeOK, taskVars
    <3>3. MemTypeOK'
      BY <3>1 DEF ProcessEnds, MemTypeOK
    <3>4. proc' \in [Attempt -> ProcState]
      BY <3>1 DEF ProcessEnds, TypeOK, OutsideTypeOK, ProcState
    <3> QED
      BY <3>1, <3>2, <3>3, <3>4 DEF ProcessEnds, TypeOK, OutsideTypeOK
  <2> QED
    BY <1>2, <2>1, TypeStep DEF DisposeEnd, Crash, ProcessEnds
<1>3. CASE Attach
  <2>1. TaskTypeOK'
    BY <1>3 DEF Attach, TypeOK, TaskTypeOK, Saved, TaskStatus, Latched
  <2>2. MemTypeOK' /\ OutsideTypeOK'
    BY <1>3 DEF Attach, TypeOK, TaskTypeOK, MemTypeOK, OutsideTypeOK, VoidAll, Launched
  <2> QED
    BY <1>3, <2>1, <2>2, TypeStep DEF Attach, Checkpoint, TaskTypeOK
<1> QED
  BY <1>1, <1>2, <1>3

\* Every variable keeps its type in every behaviour, whatever the nodes, the
\* graphs the owner may declare, the pools and the bounds.
THEOREM TypeCorrect == ASSUME TaskLoopAssumption PROVE Spec => []TypeOK
<1>1. Init => TypeOK
  <2> SUFFICES ASSUME Init PROVE TypeOK
    OBVIOUS
  <2>1. 0 \in 0 .. MaxVer /\ 0 \in 0 .. MaxTry
    BY TaskLoopAssumption DEF TaskLoopAssumption
  <2>2. TaskTypeOK
    BY <2>1 DEF Init, TaskTypeOK, Graph, Stat
  <2>3. durable \in Saved
    BY <2>2 DEF Init, TaskTypeOK, Projection, Saved
  <2>4. info \in [Attempt -> AttemptInfo]
    BY <2>1 DEF Init, NoInfo, AttemptInfo
  <2> QED
    BY <2>1, <2>2, <2>3, <2>4 DEF Init, TypeOK, MemTypeOK, OutsideTypeOK, ProcState
<1>2. TypeOK /\ [Next]_vars => TypeOK'
  <2> SUFFICES ASSUME TypeOK, [Next]_vars PROVE TypeOK'
    OBVIOUS
  <2> USE TaskLoopAssumption
  <2>1. CASE Owner
    <3>1. ASSUME NEW S \in SUBSET Node, NEW changed \in SUBSET S, NEW d \in GraphChoice,
                 Define(S, changed, [n \in Node |->
                   IF n \in changed \cup (S \ Present) THEN d[n] ELSE dep[n]])
          PROVE  TypeOK'
      <4> DEFINE e == [n \in Node |-> IF n \in changed \cup (S \ Present) THEN d[n] ELSE dep[n]]
      <4>1. e \in Graph
        BY DEF TypeOK, TaskTypeOK, Graph, TaskLoopAssumption
      <4> QED
        BY <3>1, <4>1, DefineType
    <3> QED
      BY <2>1, <3>1, DispatchType, RejectType, OwnerDecisionType DEF Owner
  <2>2. CASE User
    BY <2>2, NewTaskType, ReviseType, ResumeType, StopType DEF User
  <2>3. CASE Background
    BY <2>3, ResumeType, RefreshType, SpawnType DEF Background
  <2>4. CASE Native
    BY <2>4, NativeType DEF Native
  <2>5. CASE Session
    BY <2>5, SessionType, StopType DEF Session
  <2>6. CASE UNCHANGED vars
    BY <2>6 DEF vars, taskVars, memVars, historyVars, TypeOK, TaskTypeOK, MemTypeOK, OutsideTypeOK
  <2> QED
    BY <2>1, <2>2, <2>3, <2>4, <2>5, <2>6 DEF Next
<1> QED
  BY <1>1, <1>2, PTL DEF Spec

-----------------------------------------------------------------------------
(* The fence of a voided attempt never matches again *)

\* Strengthening of VoidedIsStale.  Reopening takes the generation from the
\* session file, so a launched attempt must also be bounded by the file, which
\* it is because dispatch checkpoints before it spawns.
FenceInv ==
  /\ durable.task = task
  /\ voided \subseteq Launched
  /\ \A a \in Launched :
       /\ info[a].task <= task
       /\ info[a].task = task => info[a].gen <= gen /\ info[a].gen <= durable.gen
  /\ \A a \in voided : status = "running" /\ info[a].task = task => info[a].gen < gen

\* The session file is left alone or written by a checkpoint.
Filed == durable' = durable \/ \E k \in SUBSET Object : CheckpointWith(k)

LEMMA FiledEffect ==
  ASSUME TypeOK, TypeOK', Filed
  PROVE  \/ durable' = durable
         \/ /\ ~failed
            /\ durable'.task = task' /\ durable'.rev = rev' /\ durable'.gen = gen'
            /\ durable'.status = status' /\ durable'.ver = ver'
            /\ durable'.nstat = nstat' /\ durable'.att = att'
BY CheckpointEffect DEF Filed, TypeOK

LEMMA CheckpointFiles == ASSUME TypeOK', Checkpoint PROVE Filed
BY DEF Filed, Checkpoint, TypeOK, TaskTypeOK

LEMMA InfoType ==
  ASSUME TypeOK, NEW a \in Attempt
  PROVE  /\ info[a].task \in Nat /\ info[a].rev \in Nat /\ info[a].gen \in Nat
         /\ info[a].ver \in Nat
BY DEF TypeOK, OutsideTypeOK, AttemptInfo, TaskLoopAssumption

\* Steps that leave authority as it is.
LEMMA FenceQuiet ==
  ASSUME TypeOK, TypeOK', FenceInv, Filed,
         UNCHANGED <<task, gen, status, tries, info, voided>>
  PROVE  FenceInv'
<1>1. durable'.task = durable.task /\ (durable'.gen = durable.gen \/ durable'.gen = gen)
  BY FiledEffect DEF FenceInv
<1> QED
  BY <1>1 DEF FenceInv, Launched

\* Steps that take authority away from every attempt made so far.
LEMMA FenceVoid ==
  ASSUME TypeOK, TypeOK', FenceInv, Filed, VoidAll, UNCHANGED <<task, tries, info>>,
         \/ gen' \in Nat /\ gen' > gen
         \/ status' # "running" /\ gen' >= durable.gen
  PROVE  FenceInv'
<1>1. durable'.task = task /\ (durable'.gen = durable.gen \/ durable'.gen = gen')
  BY FiledEffect DEF FenceInv
<1>2. gen \in Nat /\ gen' \in Nat /\ durable.gen \in Nat
  BY DEF TypeOK, TaskTypeOK, Saved
<1>3. Launched' = Launched /\ voided' = Launched
  BY DEF Launched, VoidAll
<1>4. ASSUME NEW a \in Launched
      PROVE  /\ info[a].task <= task /\ info[a].gen \in Nat
             /\ info[a].task = task => info[a].gen <= gen /\ info[a].gen <= durable.gen
  BY InfoType DEF FenceInv, Launched
<1>5. ASSUME NEW a \in Launched, info[a].task = task
      PROVE  /\ info[a].gen <= gen' /\ info[a].gen <= durable'.gen
             /\ status' = "running" => info[a].gen < gen'
  BY <1>1, <1>2, <1>4, <1>5
<1> QED
  BY <1>1, <1>3, <1>4, <1>5 DEF FenceInv

LEMMA FenceStop ==
  ASSUME TypeOK, TypeOK', FenceInv, (\E s \in Latched : Stop(s)) \/ Dispose
  PROVE  FenceInv'
<1>1. PICK s \in Latched : Latch(s) /\ UNCHANGED <<tries, info>> /\ CheckpointWith(known)
  BY DEF Stop, Dispose, Latched
<1>2. Filed
  BY <1>1 DEF Filed, TypeOK, TaskTypeOK
<1>3. CASE status \in {None, "complete"}
  BY <1>1, <1>2, <1>3, FenceQuiet DEF Latch
<1>4. CASE status \notin {None, "complete"}
  <2>1. VoidAll /\ task' = task /\ gen' \in Nat /\ gen' > gen
    BY <1>1, <1>4 DEF Latch, VoidAll, TypeOK, TaskTypeOK
  <2> QED
    BY <1>1, <1>2, <2>1, FenceVoid
<1> QED
  BY <1>3, <1>4

LEMMA FenceNewTask ==
  ASSUME TypeOK, TypeOK', FenceInv, NewTask
  PROVE  FenceInv'
<1>1. task \in Nat /\ task' = task + 1 /\ Launched' = Launched /\ voided' = Launched
  BY DEF NewTask, VoidAll, Launched, TypeOK, TaskTypeOK
<1>2. durable'.task = task'
  BY CheckpointEffect DEF NewTask, Checkpoint, TypeOK, TaskTypeOK
<1>3. \A a \in Launched : info'[a].task < task'
  BY <1>1, InfoType DEF FenceInv, NewTask, Launched
<1>4. \A a \in Launched : info'[a].task <= task' /\ info'[a].task # task'
  BY <1>1, <1>3, InfoType DEF Launched, NewTask
<1> QED
  BY <1>1, <1>2, <1>4 DEF FenceInv

LEMMA DispatchLaunches ==
  ASSUME TypeOK, NEW S \in SUBSET Node, NEW ok \in SUBSET S, Dispatch(S, ok),
         NEW a \in Attempt
  PROVE  /\ a \in Launched => a \in Launched' /\ info'[a] = info[a]
         /\ a \in Launched' /\ a \notin Launched =>
              /\ a[1] \in ok /\ tries'[a[1]] = a[2]
              /\ info'[a].task = task /\ info'[a].rev = rev /\ info'[a].gen = gen
              /\ info'[a].ver = ver[a[1]]
<1> DEFINE try == [n \in Node |-> IF n \in ok THEN tries[n] + 1 ELSE tries[n]]
           started == {<<n, try[n]>> : n \in ok}
           new == [task |-> task, rev |-> rev, gen |-> gen, ver |-> ver[a[1]],
                   inputs |-> [m \in Node |->
                     IF m \in Ancestors(dep, dep[a[1]]) THEN ver[m] ELSE 0]]
<1>1. tries' = try /\ info'[a] = IF a \notin started THEN info[a] ELSE new
  BY DEF Dispatch
<1>2. PICK n \in Node, k \in 1 .. MaxTry : a = <<n, k>>
  BY DEF Attempt
<1>3. a \in started <=> n \in ok /\ k = try[n]
  BY <1>2
<1>4. a[1] = n /\ a[2] = k /\ tries[n] \in Nat /\ k \in Nat
  BY <1>2 DEF TypeOK, OutsideTypeOK
<1>5. a \in Launched <=> k <= tries[n]
  BY <1>4 DEF Launched
<1>6. a \in Launched' <=> k <= try[n]
  BY <1>1, <1>4 DEF Launched
<1>7. a \in Launched => a \in Launched' /\ a \notin started
  BY <1>3, <1>4, <1>5, <1>6
<1>8. a \in Launched' /\ a \notin Launched => a \in started /\ n \in ok /\ k = try[n]
  BY <1>3, <1>4, <1>5, <1>6
<1> HIDE DEF started, try
<1> QED
  BY <1>1, <1>4, <1>7, <1>8

LEMMA FenceDispatch ==
  ASSUME TypeOK, TypeOK', FenceInv, NEW S \in SUBSET Node, NEW ok \in SUBSET S,
         Dispatch(S, ok)
  PROVE  FenceInv'
<1>1. UNCHANGED <<task, gen, status, voided>> /\ task \in Nat /\ gen \in Nat
  BY DEF Dispatch, TypeOK, TaskTypeOK
<1>2. durable'.task = task /\ durable'.gen = gen
  BY CheckpointEffect DEF Dispatch, Current, Checkpoint, TypeOK, TaskTypeOK
<1>3. Launched \subseteq Attempt /\ Launched' \subseteq Attempt
  BY DEF Launched
<1>4. ASSUME NEW a \in Launched'
      PROVE  /\ info'[a].task <= task
             /\ info'[a].task = task => info'[a].gen <= gen
  <2>1. CASE a \in Launched
    BY <1>3, <2>1, DispatchLaunches DEF FenceInv
  <2>2. CASE a \notin Launched
    <3>1. info'[a].task = task /\ info'[a].gen = gen
      BY <1>3, <2>2, DispatchLaunches
    <3> QED
      BY <1>1, <3>1
  <2> QED
    BY <2>1, <2>2
<1>5. voided' \subseteq Launched' /\ \A a \in voided : info'[a] = info[a]
  BY <1>1, <1>3, DispatchLaunches DEF FenceInv
<1> QED
  BY <1>1, <1>2, <1>4, <1>5 DEF FenceInv

LEMMA FenceSession ==
  ASSUME TypeOK, TypeOK', FenceInv, CheckpointFails \/ DisposeEnd \/ Crash \/ Attach
  PROVE  FenceInv'
<1>1. CASE CheckpointFails
  <2>1. VoidAll /\ UNCHANGED <<task, tries, info>> /\ gen' \in Nat /\ gen' > gen /\ Filed
    BY <1>1 DEF CheckpointFails, Filed, TypeOK, TaskTypeOK
  <2> QED
    BY <2>1, FenceVoid
<1>2. CASE DisposeEnd \/ Crash
  BY <1>2, FenceQuiet DEF DisposeEnd, Crash, ProcessEnds, taskVars, Filed
<1>3. CASE Attach
  <2>1. VoidAll /\ UNCHANGED <<task, tries, info>> /\ status' # "running" /\ gen' >= durable.gen
    BY <1>3 DEF Attach, FenceInv, TypeOK, Saved
  <2>2. Filed
    BY <1>3, CheckpointFiles DEF Attach
  <2> QED
    BY <2>1, <2>2, FenceVoid
<1> QED
  BY <1>1, <1>2, <1>3

LEMMA FenceResume ==
  ASSUME TypeOK, TypeOK', FenceInv, Resumed \/ Revise
  PROVE  FenceInv'
<1>1. VoidAll /\ UNCHANGED <<task, tries, info>> /\ gen' \in Nat /\ gen' > gen
  BY DEF Resumed, Revise, TypeOK, TaskTypeOK
<1>2. CASE Resumed
  BY <1>1, <1>2, CheckpointFiles, FenceVoid DEF Resumed
<1>3. CASE Revise
  <2>1. Cloned(known, Present) \in SUBSET Object
    BY HelperTypes, TaskLoopAssumption DEF TypeOK, TaskTypeOK, Present
  <2>2. Filed
    BY <1>3, <2>1 DEF Revise, Filed
  <2> QED
    BY <1>1, <2>2, FenceVoid
<1> QED
  BY <1>2, <1>3

\* Every other step leaves authority alone.
LEMMA FenceOther ==
  ASSUME TypeOK, TypeOK', FenceInv,
         \/ \E S \in SUBSET Node : \E changed \in SUBSET S : \E e \in Graph : Define(S, changed, e)
         \/ \E n \in Node : Reject(n) \/ Admit(n)
         \/ ResumeStart \/ ResumeFails \/ RefreshStart \/ Native \/ UNCHANGED vars
         \/ \E a \in Attempt : SpawnReturns(a) \/ StopReturns(a)
         \/ \E o \in Object : RefreshStep(o)
  PROVE  FenceInv'
<1>1. ASSUME NEW S \in SUBSET Node, NEW changed \in SUBSET S, NEW e \in Graph, Define(S, changed, e)
      PROVE  FenceInv'
  <2> DEFINE bad == IF changed = {} THEN {} ELSE Invalid(changed)
  <2>1. Cloned(known, bad) \in SUBSET Object
    BY HelperTypes, TaskLoopAssumption DEF TypeOK, TaskTypeOK
  <2>2. Filed
    BY <1>1, <2>1 DEF Define, Filed
  <2> QED
    BY <1>1, <2>2, FenceQuiet DEF Define
<1>2. ASSUME NEW n \in Node, Reject(n) PROVE FenceInv'
  <2>1. Cloned(known, Invalid({n})) \in SUBSET Object
    BY HelperTypes, TaskLoopAssumption DEF TypeOK, TaskTypeOK
  <2>2. Filed
    BY <1>2, <2>1 DEF Reject, Filed
  <2> QED
    BY <1>2, <2>2, FenceQuiet DEF Reject
<1>3. ASSUME NEW n \in Node, Admit(n) PROVE FenceInv'
  BY <1>3, CheckpointFiles, FenceQuiet DEF Admit, historyVars
<1>4. CASE ResumeStart \/ ResumeFails
  BY <1>4, FenceQuiet DEF ResumeStart, ResumeFails, Filed, taskVars, historyVars
<1>5. CASE RefreshStart
  BY <1>5, CheckpointFiles, FenceQuiet DEF RefreshStart, RefreshEnd, Filed, historyVars
<1>6. CASE Native \/ UNCHANGED vars
  BY <1>6, FenceQuiet DEF Native, NativeHandles, NativeLaunch, NativeRefuse, NativeEnd, NativeStep,
                          vars, taskVars, historyVars, Filed
<1>7. ASSUME NEW a \in Attempt, SpawnReturns(a) \/ StopReturns(a) PROVE FenceInv'
  <2>1. UNCHANGED <<task, gen, status, tries, info, voided>> /\ (Checkpoint \/ durable' = durable)
    BY <1>7 DEF SpawnReturns, SpawnAckCurrent, SpawnAckLate, SpawnRefused, SpawnUnknown, SpawnFails, SpawnFailed, SpawnStopped, StopReturns,
                historyVars
  <2> QED
    BY <2>1, CheckpointFiles, FenceQuiet DEF Filed, historyVars
<1>8. ASSUME NEW o \in Object, RefreshStep(o) PROVE FenceInv'
  <2>1. UNCHANGED <<task, gen, status, historyVars>> /\ (Checkpoint \/ durable' = durable)
    BY <1>8 DEF RefreshStep, RefreshUnsettled, RefreshUnrecorded, RefreshSettle, RefreshEnd
  <2> QED
    BY <2>1, CheckpointFiles, FenceQuiet DEF Filed, historyVars
<1> QED
  BY <1>1, <1>2, <1>3, <1>4, <1>5, <1>6, <1>7, <1>8

\* Completing a task is no reason to trust an old attempt.
LEMMA FenceFinish == ASSUME TypeOK, TypeOK', FenceInv, Finish PROVE FenceInv'
<1>1. UNCHANGED <<task, gen, tries, info, voided>> /\ status' = "complete"
  BY DEF Finish, historyVars
<1>2. durable'.task = durable.task /\ (durable'.gen = durable.gen \/ durable'.gen = gen)
  BY <1>1, CheckpointFiles, FiledEffect DEF Finish, FenceInv
<1> QED
  BY <1>1, <1>2 DEF FenceInv, Launched

LEMMA FenceInvariant == ASSUME TaskLoopAssumption PROVE Spec => []FenceInv
<1>1. Init => FenceInv
  BY DEF Init, FenceInv, Launched, Attempt, Projection
<1>2. TypeOK /\ TypeOK' /\ FenceInv /\ [Next]_vars => FenceInv'
  <2> SUFFICES ASSUME TypeOK, TypeOK', FenceInv, [Next]_vars PROVE FenceInv'
    OBVIOUS
  <2>1. CASE Owner
    <3>1. ASSUME NEW S \in SUBSET Node, NEW changed \in SUBSET S, NEW d \in GraphChoice,
                 Define(S, changed, [n \in Node |->
                   IF n \in changed \cup (S \ Present) THEN d[n] ELSE dep[n]])
          PROVE  FenceInv'
      <4> DEFINE e == [n \in Node |-> IF n \in changed \cup (S \ Present) THEN d[n] ELSE dep[n]]
      <4>1. e \in Graph
        BY DEF TypeOK, TaskTypeOK, Graph, TaskLoopAssumption
      <4> QED
        BY <3>1, <4>1, FenceOther
    <3> QED
      BY <2>1, <3>1, FenceDispatch, FenceFinish, FenceOther DEF Owner
  <2>2. CASE User
    BY <2>2, FenceNewTask, FenceResume, FenceStop, FenceOther DEF User, ResumeNow
  <2>3. CASE Background
    BY <2>3, FenceResume, FenceOther DEF Background, ResumeEnd
  <2>4. CASE Native \/ UNCHANGED vars
    BY <2>4, FenceOther
  <2>5. CASE Session
    BY <2>5, FenceSession, FenceStop DEF Session
  <2> QED
    BY <2>1, <2>2, <2>3, <2>4, <2>5 DEF Next
<1> QED
  BY <1>1, <1>2, TypeCorrect, PTL DEF Spec

\* An attempt made before a stop, a revision, a new task or a reopening never
\* again passes the fence (task, revision, generation) of its callbacks, across
\* any number of crashes, journal failures and resumes.
THEOREM VoidedStaysStale == ASSUME TaskLoopAssumption PROVE Spec => []VoidedIsStale
<1>1. TypeOK /\ FenceInv => VoidedIsStale
  BY InfoType DEF FenceInv, VoidedIsStale, Fresh, Launched, TypeOK, TaskTypeOK
<1> QED
  BY <1>1, TypeCorrect, FenceInvariant, PTL

\* ... so that no result of such an attempt becomes a returned node: the one
\* step that returns a node is the settlement of a fresh attempt.
THEOREM VoidedNeverReturns == ASSUME TaskLoopAssumption PROVE Spec => NoVoidedResult
<1> DEFINE Step == \A n \in Node : Up /\ nstat[n] # "returned" /\ nstat'[n] = "returned"
                                     => <<n, att[n]>> \notin voided
<1>1. TypeOK /\ VoidedIsStale /\ [Next]_vars => [Step]_vars
  <2> SUFFICES ASSUME TypeOK, VoidedIsStale, Next,
                      NEW n \in Node, Up, nstat[n] # "returned", nstat'[n] = "returned"
               PROVE  <<n, att[n]>> \notin voided
    OBVIOUS
  <2>1. nstat \in [Node -> Stat]
    BY DEF TypeOK, TaskTypeOK
  <2>2. PICK o \in Object, r \in {"returned", "rejected", "failed"} : RefreshSettle(o, r)
    <3>1. CASE Owner
      <4>1. ASSUME NEW S, NEW changed, NEW e, Define(S, changed, e) PROVE FALSE
        BY <2>1, <4>1 DEF Define, SetStat
      <4>2. ASSUME NEW S, NEW ok, Dispatch(S, ok) PROVE FALSE
        BY <2>1, <4>2 DEF Dispatch, SetStat
      <4>3. ASSUME NEW m \in Node, Reject(m) \/ Admit(m) \/ Finish PROVE FALSE
        BY <2>1, <4>3 DEF Reject, Admit, Finish, SetStat
      <4> QED
        BY <3>1, <4>1, <4>2, <4>3 DEF Owner
    <3>2. CASE User
      BY <2>1, <3>2 DEF User, NewTask, Revise, ResumeNow, Resumed, ResumeStart, Stop, Latch, SetStat, None
    <3>3. CASE Session
      BY <2>1, <3>3 DEF Session, CheckpointFails, Dispose, Latch, DisposeEnd, Crash, ProcessEnds, Attach,
                        Up, taskVars
    <3>4. CASE Native
      BY <3>4 DEF Native, NativeHandles, NativeLaunch, NativeRefuse, NativeEnd, NativeStep, taskVars
    <3>5. CASE ResumeEnd \/ ResumeFails \/ RefreshStart
      BY <3>5 DEF ResumeEnd, Resumed, ResumeFails, RefreshStart, taskVars
    <3>6. ASSUME NEW a \in Attempt, SpawnReturns(a) \/ StopReturns(a) PROVE FALSE
      BY <2>1, <3>6 DEF SpawnReturns, SpawnAckCurrent, SpawnAckLate, SpawnRefused, SpawnUnknown, SpawnFails,
                        SpawnFailed, SpawnStopped, StopReturns, Written
    <3>7. ASSUME NEW o \in Object, RefreshUnsettled(o) \/ RefreshUnrecorded(o) PROVE FALSE
      BY <3>7 DEF RefreshUnsettled, RefreshUnrecorded
    <3> QED
      BY <3>1, <3>2, <3>3, <3>4, <3>5, <3>6, <3>7 DEF Next, Background, RefreshStep
  <2>3. ResultLive(Of(o)) /\ n = Of(o)[1]
    BY <2>1, <2>2 DEF RefreshSettle
  <2>4. Of(o) = <<n, att[n]>> /\ Fresh(Of(o))
    BY <2>3 DEF ResultLive, Of
  <2> QED
    BY <2>4 DEF VoidedIsStale
<1> QED
  BY <1>1, TypeCorrect, VoidedStaysStale, PTL DEF Spec, NoVoidedResult

-----------------------------------------------------------------------------
(* A result that is offered belongs to the present contract of its node *)

Offered == {"returned", "admitted"}

\* ResultCurrent of the state t, r, v, ns, at, strengthened: attempts are among
\* those made, and a node that may be launched or is offered exists.
Sound(t, r, v, ns, at) ==
  \A n \in Node :
    /\ at[n] <= tries[n]
    /\ ns[n] \in Offered \cup {"pending", "stale"} => v[n] # 0
    /\ ns[n] \in Offered =>
         /\ at[n] # 0
         /\ info[<<n, at[n]>>].task = t /\ info[<<n, at[n]>>].rev = r
         /\ info[<<n, at[n]>>].ver = v[n]

\* Reopening returns to the session file, which must be as sound as memory.
ResultInv ==
  /\ \A a \in Launched : info[a].ver # 0
  /\ Sound(task, rev, ver, nstat, att)
  /\ Sound(durable.task, durable.rev, durable.ver, durable.nstat, durable.att)

\* Attempts that dispatch makes do not disturb those that a state refers to.
LEMMA SoundKept ==
  ASSUME TypeOK, TypeOK',
         NEW t, NEW r, NEW v, NEW ns, NEW at \in [Node -> 0 .. MaxTry], Sound(t, r, v, ns, at),
         \A n \in Node : tries[n] <= tries'[n],
         \A a \in Launched : info'[a] = info[a]
  PROVE  \A n \in Node :
           /\ at[n] <= tries'[n]
           /\ ns[n] \in Offered \cup {"pending", "stale"} => v[n] # 0
           /\ ns[n] \in Offered =>
                /\ at[n] # 0
                /\ info'[<<n, at[n]>>].task = t /\ info'[<<n, at[n]>>].rev = r
                /\ info'[<<n, at[n]>>].ver = v[n]
<1> SUFFICES ASSUME NEW n \in Node
             PROVE  /\ at[n] <= tries'[n]
                    /\ ns[n] \in Offered \cup {"pending", "stale"} => v[n] # 0
                    /\ ns[n] \in Offered =>
                         /\ at[n] # 0
                         /\ info'[<<n, at[n]>>].task = t /\ info'[<<n, at[n]>>].rev = r
                         /\ info'[<<n, at[n]>>].ver = v[n]
  OBVIOUS
<1>1. /\ tries[n] \in Nat /\ tries'[n] \in Nat /\ tries[n] <= tries'[n]
      /\ at[n] \in 0 .. MaxTry
  BY DEF TypeOK, OutsideTypeOK
<1>3. at[n] <= tries[n]
  BY DEF Sound
<1>2. at[n] # 0 => <<n, at[n]>> \in Launched
  BY <1>1, <1>3, TaskLoopAssumption DEF Launched, Attempt, TaskLoopAssumption
<1>4. at[n] <= tries'[n]
  BY <1>1, <1>3
<1> QED
  BY <1>2, <1>4 DEF Sound

\* An action only has to leave memory sound: the file keeps or takes its state.
LEMMA ResultStep ==
  ASSUME TypeOK, TypeOK', ResultInv, Filed, Sound(task, rev, ver, nstat, att)',
         UNCHANGED <<tries, info>>
  PROVE  ResultInv'
<1>1. \A a \in Launched' : info'[a].ver # 0
  BY DEF ResultInv, Launched
<1>2. CASE durable' = durable
  BY <1>1, <1>2 DEF ResultInv, Sound
<1>3. CASE /\ durable'.task = task' /\ durable'.rev = rev' /\ durable'.ver = ver'
           /\ durable'.nstat = nstat' /\ durable'.att = att'
  BY <1>1, <1>3 DEF ResultInv, Sound
<1> QED
  BY <1>2, <1>3, FiledEffect

\* Steps that leave contracts and attempts alone and offer nothing.
LEMMA ResultQuiet ==
  ASSUME TypeOK, TypeOK', ResultInv, Filed, UNCHANGED <<task, rev, ver, att, tries, info>>,
         \A n \in Node : nstat'[n] = nstat[n] \/ nstat'[n] \notin Offered \cup {"pending", "stale"}
  PROVE  ResultInv'
<1>1. Sound(task, rev, ver, nstat, att)'
  BY DEF ResultInv, Sound
<1> QED
  BY <1>1, ResultStep

LEMMA ResultDefine ==
  ASSUME TypeOK, TypeOK', ResultInv,
         NEW S \in SUBSET Node, NEW changed \in SUBSET S, NEW e \in Graph, Define(S, changed, e)
  PROVE  ResultInv'
<1> DEFINE bad   == IF changed = {} THEN {} ELSE Invalid(changed)
           stat1 == SetStat(bad, "stale")
           ver1  == Bump(bad)
           redo  == {n \in S : n \notin Present \/ n \in changed
                               \/ stat1[n] \in {"stale", "failed", "rejected", "cancelled"}}
<1>1. Filed
  <2>1. Cloned(known, bad) \in SUBSET Object
    BY HelperTypes, TaskLoopAssumption DEF TypeOK, TaskTypeOK
  <2> QED
    BY <2>1 DEF Define, Filed
<1>2. bad \in SUBSET Present /\ UNCHANGED <<task, rev, tries, info>>
  BY DEF Define, Invalid
<1>3. ASSUME NEW n \in Node
      PROVE  /\ ver'[n] = IF n \in redo /\ n \notin changed /\ stat1[n] # "stale"
                          THEN ver1[n] + 1 ELSE ver1[n]
             /\ nstat'[n] = IF n \in redo THEN "pending" ELSE stat1[n]
             /\ att'[n] = IF n \in redo THEN 0 ELSE att[n]
             /\ ver1[n] = (IF n \in bad THEN ver[n] + 1 ELSE ver[n])
             /\ stat1[n] = (IF n \in bad THEN "stale" ELSE nstat[n])
             /\ ver[n] \in Nat /\ tries[n] \in Nat
             /\ n \in Present <=> ver[n] # 0
  BY DEF Define, Bump, SetStat, Present, TypeOK, TaskTypeOK, OutsideTypeOK
<1>4. changed \subseteq Present /\ redo \subseteq Node
  BY DEF Define
<1> HIDE DEF bad, stat1, ver1
<1>5. ASSUME NEW n \in redo
      PROVE  ver'[n] # 0 /\ nstat'[n] = "pending" /\ att'[n] = 0
  <2>1. CASE n \in Present
    BY <1>3, <1>4, <2>1
  <2>2. CASE n \notin Present
    <3>1. nstat[n] # "stale" /\ n \notin bad /\ n \notin changed
      BY <1>2, <1>3, <1>4, <2>2 DEF ResultInv, Sound
    <3> QED
      BY <1>3, <1>4, <3>1
  <2> QED
    BY <2>1, <2>2
<1>6. ASSUME NEW n \in bad \ redo
      PROVE  ver'[n] # 0 /\ nstat'[n] = "stale" /\ att'[n] = att[n]
  BY <1>2, <1>3 DEF Present
<1>7. ASSUME NEW n \in Node, n \notin bad, n \notin redo
      PROVE  ver'[n] = ver[n] /\ nstat'[n] = nstat[n] /\ att'[n] = att[n]
  BY <1>3, <1>7
<1> HIDE DEF redo
<1>8. ASSUME NEW n \in Node
      PROVE  /\ att'[n] <= tries[n]
             /\ nstat'[n] \in Offered \cup {"pending", "stale"} => ver'[n] # 0
             /\ nstat'[n] \in Offered =>
                  ver'[n] = ver[n] /\ nstat'[n] = nstat[n] /\ att'[n] = att[n]
  <2>1. /\ att[n] <= tries[n] /\ tries[n] \in Nat
        /\ nstat[n] \in Offered \cup {"pending", "stale"} => ver[n] # 0
    BY <1>3 DEF ResultInv, Sound
  <2>2. CASE n \in redo
    BY <1>5, <2>1, <2>2 DEF Offered
  <2>3. CASE n \in bad \ redo
    BY <1>6, <2>1, <2>3 DEF Offered
  <2>4. CASE n \notin bad /\ n \notin redo
    BY <1>7, <2>1, <2>4
  <2> QED
    BY <2>2, <2>3, <2>4
<1>9. Sound(task, rev, ver, nstat, att)'
  BY <1>2, <1>8 DEF ResultInv, Sound
<1> QED
  BY <1>1, <1>2, <1>9, ResultStep

LEMMA ResultReject ==
  ASSUME TypeOK, TypeOK', ResultInv, NEW n \in Node, Reject(n)
  PROVE  ResultInv'
<1> DEFINE bad == Invalid({n})
<1>1. Filed
  <2>1. Cloned(known, bad) \in SUBSET Object
    BY HelperTypes, TaskLoopAssumption DEF TypeOK, TaskTypeOK
  <2> QED
    BY <2>1 DEF Reject, Filed
<1>2. bad \in SUBSET Present /\ UNCHANGED <<task, rev, att, tries, info>>
  BY DEF Reject, Invalid
<1>3. ASSUME NEW m \in Node
      PROVE  /\ ver'[m] = (IF m \in bad THEN ver[m] + 1 ELSE ver[m]) /\ ver[m] \in Nat
             /\ nstat'[m] = IF m = n THEN "rejected"
                            ELSE IF m \in bad THEN "stale" ELSE nstat[m]
  <2>1. /\ ver' = Bump(bad) /\ nstat' = [SetStat(bad, "stale") EXCEPT ![n] = "rejected"]
        /\ ver[m] \in Nat
    BY DEF Reject, TypeOK, TaskTypeOK
  <2> HIDE DEF bad
  <2> QED
    BY <2>1 DEF Bump, SetStat
<1>4. n \in bad
  BY DEF Invalid, Descendants, Reach, Present, Reject
<1> HIDE DEF bad
<1>5. Sound(task, rev, ver, nstat, att)'
  BY <1>2, <1>3, <1>4 DEF ResultInv, Sound, Offered, Present
<1> QED
  BY <1>1, <1>2, <1>5, ResultStep

LEMMA ResultDispatch ==
  ASSUME TypeOK, TypeOK', ResultInv, NEW S \in SUBSET Node, NEW ok \in SUBSET S, Dispatch(S, ok)
  PROVE  ResultInv'
<1>1. Filed /\ UNCHANGED <<task, rev, ver>>
  BY CheckpointFiles DEF Dispatch
<1>2. ASSUME NEW n \in Node
      PROVE  /\ tries'[n] = (IF n \in ok THEN tries[n] + 1 ELSE tries[n]) /\ tries[n] \in Nat
             /\ att'[n] = (IF n \in ok THEN tries'[n] ELSE att[n])
             /\ nstat'[n] = (IF n \in ok THEN "starting" ELSE nstat[n])
             /\ tries[n] <= tries'[n]
  BY DEF Dispatch, SetStat, TypeOK, OutsideTypeOK
<1>3. \A a \in Launched : info'[a] = info[a]
  BY DispatchLaunches DEF Launched
<1>4. \A n \in Node :
        /\ att[n] <= tries'[n]
        /\ nstat[n] \in Offered \cup {"pending", "stale"} => ver[n] # 0
        /\ nstat[n] \in Offered =>
             /\ att[n] # 0
             /\ info'[<<n, att[n]>>].task = task /\ info'[<<n, att[n]>>].rev = rev
             /\ info'[<<n, att[n]>>].ver = ver[n]
  BY <1>2, <1>3, SoundKept DEF ResultInv, TypeOK, TaskTypeOK
<1>5. Sound(task, rev, ver, nstat, att)'
  BY <1>1, <1>2, <1>4 DEF Sound, Offered
<1>6. \A a \in Launched' : info'[a].ver # 0
  <2>1. ASSUME NEW a \in Launched', a \notin Launched PROVE info'[a].ver # 0
    <3>1. a[1] \in ok /\ info'[a].ver = ver[a[1]]
      BY <2>1, DispatchLaunches DEF Launched
    <3>2. nstat[a[1]] \in {"pending", "stale"}
      BY <3>1 DEF Dispatch, Ready
    <3> QED
      BY <3>1, <3>2 DEF ResultInv, Sound
  <2> QED
    BY <1>3, <2>1 DEF ResultInv
<1>7. /\ ~failed /\ durable'.task = task' /\ durable'.rev = rev' /\ durable'.ver = ver'
      /\ durable'.nstat = nstat' /\ durable'.att = att'
  BY CheckpointEffect DEF Dispatch, Current, Checkpoint, TypeOK, TaskTypeOK
<1> QED
  BY <1>5, <1>6, <1>7 DEF ResultInv, Sound

LEMMA ResultSettle ==
  ASSUME TypeOK, TypeOK', ResultInv, NEW o \in Object,
         NEW r \in {"returned", "rejected", "failed"}, RefreshSettle(o, r)
  PROVE  ResultInv'
<1> DEFINE a == Of(o)
           n == a[1]
<1>1. Filed /\ UNCHANGED <<task, rev, ver, att, tries, info>>
  BY CheckpointFiles DEF RefreshSettle, RefreshEnd, Filed, historyVars
<1>2. a \in Attempt /\ n \in Node /\ nstat \in [Node -> Stat]
  BY DEF Of, Object, Attempt, TypeOK, TaskTypeOK
<1>3. CASE ResultLive(a) /\ r = "returned"
  <2>1. /\ att[n] = a[2] /\ ver[n] = info[a].ver /\ a = <<n, att[n]>> /\ att[n] # 0
        /\ info[a].task = task /\ info[a].rev = rev
    BY <1>2, <1>3 DEF ResultLive, Fresh, Attempt
  <2>2. ver[n] # 0
    <3>1. a \in Launched
      BY <1>2, <2>1 DEF ResultInv, Sound, Launched
    <3> QED
      BY <2>1, <3>1 DEF ResultInv
  <2>3. nstat' = [nstat EXCEPT ![n] = "returned"]
    BY <1>3 DEF RefreshSettle
  <2>4. Sound(task, rev, ver, nstat, att)'
    BY <1>1, <1>2, <2>1, <2>2, <2>3 DEF ResultInv, Sound, Offered
  <2> QED
    BY <1>1, <2>4, ResultStep
<1>4. CASE ~(ResultLive(a) /\ r = "returned")
  <2>1. \A m \in Node : nstat'[m] = nstat[m] \/ nstat'[m] \notin Offered \cup {"pending", "stale"}
    BY <1>2, <1>4 DEF RefreshSettle, Offered
  <2> QED
    BY <1>1, <2>1, ResultQuiet
<1> QED
  BY <1>3, <1>4

LEMMA ResultAdmit ==
  ASSUME TypeOK, TypeOK', ResultInv, NEW n \in Node, Admit(n)
  PROVE  ResultInv'
<1>1. Filed /\ UNCHANGED <<task, rev, ver, att, tries, info>>
  BY CheckpointFiles DEF Admit, historyVars
<1>2. \A m \in Node : nstat'[m] = nstat[m] \/ (nstat'[m] \in Offered /\ nstat[m] \in Offered)
  BY DEF Admit, Offered, TypeOK, TaskTypeOK
<1>3. Sound(task, rev, ver, nstat, att)'
  BY <1>1, <1>2 DEF ResultInv, Sound
<1> QED
  BY <1>1, <1>3, ResultStep

LEMMA ResultUser ==
  ASSUME TypeOK, TypeOK', ResultInv, NewTask \/ Revise
  PROVE  ResultInv'
<1>1. CASE NewTask
  <2>1. Filed /\ UNCHANGED <<tries, info>>
    BY <1>1, CheckpointFiles DEF NewTask
  <2>2. \A n \in Node : tries[n] \in 0 .. MaxTry
    BY DEF TypeOK, OutsideTypeOK
  <2>3. Sound(task, rev, ver, nstat, att)'
    BY <1>1, <2>1, <2>2 DEF NewTask, Sound, Offered, None
  <2> QED
    BY <2>1, <2>3, ResultStep
<1>2. CASE Revise
  <2>1. Cloned(known, Present) \in SUBSET Object
    BY HelperTypes, TaskLoopAssumption DEF TypeOK, TaskTypeOK, Present
  <2>2. Filed /\ UNCHANGED <<att, tries, info>>
    BY <1>2, <2>1 DEF Revise, Filed
  <2>3. ASSUME NEW n \in Node
        PROVE  /\ ver'[n] = (IF ver[n] # 0 THEN ver[n] + 1 ELSE ver[n]) /\ ver[n] \in Nat
               /\ nstat'[n] = (IF ver[n] # 0 THEN "stale" ELSE nstat[n])
    BY <1>2 DEF Revise, Bump, SetStat, Present, TypeOK, TaskTypeOK
  <2>4. Sound(task, rev, ver, nstat, att)'
    BY <2>2, <2>3 DEF ResultInv, Sound, Offered
  <2> QED
    BY <2>2, <2>4, ResultStep
<1> QED
  BY <1>1, <1>2

LEMMA ResultAttach == ASSUME TypeOK, TypeOK', ResultInv, Attach PROVE ResultInv'
<1>1. Filed /\ UNCHANGED <<tries, info>>
  BY CheckpointFiles DEF Attach
<1>2. Sound(task, rev, ver, nstat, att)'
  BY <1>1 DEF Attach, ResultInv, Sound
<1> QED
  BY <1>1, <1>2, ResultStep

\* Every other step only moves nodes away from an offered status, if at all.
LEMMA ResultOther ==
  ASSUME TypeOK, TypeOK', ResultInv,
         \/ Finish \/ Resumed \/ ResumeStart \/ ResumeFails \/ RefreshStart
         \/ \E s \in Latched : Stop(s)
         \/ \E a \in Attempt : SpawnReturns(a) \/ StopReturns(a)
         \/ \E o \in Object : RefreshUnsettled(o) \/ RefreshUnrecorded(o)
         \/ CheckpointFails \/ Dispose \/ DisposeEnd \/ Crash \/ Native \/ UNCHANGED vars
  PROVE  ResultInv'
<1>1. CASE Finish \/ Resumed \/ ResumeStart \/ ResumeFails \/ RefreshStart
  <2>1. UNCHANGED <<task, rev, ver, att, nstat, tries, info>> /\ (Checkpoint \/ durable' = durable)
    BY <1>1 DEF Finish, Resumed, ResumeStart, ResumeFails, RefreshStart, RefreshEnd, taskVars,
                historyVars
  <2> QED
    BY <2>1, CheckpointFiles, ResultQuiet DEF Filed
<1>2. CASE (\E s \in Latched : Stop(s)) \/ Dispose
  <2>1. UNCHANGED <<task, rev, ver, att, nstat, tries, info>> /\ CheckpointWith(known)
    BY <1>2 DEF Stop, Dispose, Latch
  <2>2. Filed
    BY <2>1 DEF Filed, TypeOK, TaskTypeOK
  <2> QED
    BY <2>1, <2>2, ResultQuiet
<1>3. ASSUME NEW a \in Attempt, SpawnReturns(a) \/ StopReturns(a) PROVE ResultInv'
  <2>1. /\ UNCHANGED <<task, rev, ver, att, tries, info>> /\ (Checkpoint \/ durable' = durable)
        /\ \/ UNCHANGED nstat
           \/ \E s \in {"running", "cancelled", "unknown", "failed"} : nstat' = Written(a, s)
    BY <1>3 DEF SpawnReturns, SpawnAckCurrent, SpawnAckLate, SpawnRefused, SpawnUnknown, SpawnFails, SpawnFailed, SpawnStopped, StopReturns,
                historyVars
  <2>2. \A n \in Node : nstat'[n] = nstat[n] \/ nstat'[n] \notin Offered \cup {"pending", "stale"}
    BY <2>1 DEF Written, Offered, TypeOK, TaskTypeOK
  <2> QED
    BY <2>1, <2>2, CheckpointFiles, ResultQuiet DEF Filed
<1>4. ASSUME NEW o \in Object, RefreshUnsettled(o) \/ RefreshUnrecorded(o) PROVE ResultInv'
  <2>1. UNCHANGED <<task, rev, ver, att, nstat, tries, info>> /\ (Checkpoint \/ durable' = durable)
    BY <1>4 DEF RefreshUnsettled, RefreshUnrecorded, RefreshEnd, historyVars
  <2> QED
    BY <2>1, CheckpointFiles, ResultQuiet DEF Filed
<1>5. CASE CheckpointFails \/ DisposeEnd \/ Crash \/ Native \/ UNCHANGED vars
  <2>1. UNCHANGED <<task, rev, ver, att, nstat, tries, info, durable>>
    BY <1>5 DEF CheckpointFails, DisposeEnd, Crash, ProcessEnds, Native, NativeHandles, NativeLaunch,
                NativeRefuse, NativeEnd, NativeStep, vars, taskVars, historyVars
  <2> QED
    BY <2>1, ResultQuiet DEF Filed
<1> QED
  BY <1>1, <1>2, <1>3, <1>4, <1>5

LEMMA ResultInvariant == ASSUME TaskLoopAssumption PROVE Spec => []ResultInv
<1>1. Init => ResultInv
  BY TaskLoopAssumption DEF Init, ResultInv, Sound, Offered, Projection, Launched, Attempt, None,
                            TaskLoopAssumption
<1>2. TypeOK /\ TypeOK' /\ ResultInv /\ [Next]_vars => ResultInv'
  <2> SUFFICES ASSUME TypeOK, TypeOK', ResultInv, [Next]_vars PROVE ResultInv'
    OBVIOUS
  <2>1. CASE Owner
    <3>1. ASSUME NEW S \in SUBSET Node, NEW changed \in SUBSET S, NEW d \in GraphChoice,
                 Define(S, changed, [n \in Node |->
                   IF n \in changed \cup (S \ Present) THEN d[n] ELSE dep[n]])
          PROVE  ResultInv'
      <4> DEFINE e == [n \in Node |-> IF n \in changed \cup (S \ Present) THEN d[n] ELSE dep[n]]
      <4>1. e \in Graph
        BY DEF TypeOK, TaskTypeOK, Graph, TaskLoopAssumption
      <4> QED
        BY <3>1, <4>1, ResultDefine
    <3> QED
      BY <2>1, <3>1, ResultDispatch, ResultReject, ResultAdmit, ResultOther DEF Owner
  <2>2. CASE User
    BY <2>2, ResultUser, ResultOther DEF User, ResumeNow
  <2>3. CASE Background
    BY <2>3, ResultOther, ResultSettle DEF Background, ResumeEnd, RefreshStep
  <2>4. CASE Native \/ UNCHANGED vars
    BY <2>4, ResultOther
  <2>5. CASE Session
    BY <2>5, ResultAttach, ResultOther DEF Session
  <2> QED
    BY <2>1, <2>2, <2>3, <2>4, <2>5 DEF Next
<1> QED
  BY <1>1, <1>2, TypeCorrect, PTL DEF Spec

\* A result that is offered or admitted was produced for the task, the user
\* revision and the version of the contract its node has now; a reopened
\* session starts from such a state too.
THEOREM ResultsAreCurrent == ASSUME TaskLoopAssumption PROVE Spec => []ResultCurrent
<1>1. ResultInv => ResultCurrent
  BY DEF ResultInv, Sound, ResultCurrent, Offered
<1> QED
  BY <1>1, ResultInvariant, PTL

-----------------------------------------------------------------------------
(* The controller never loses a native run: every run is listed by the     *)
(* state in memory and by the session file, so the pools keep their        *)
(* capacity and a completed task is quiet; and, from that, TaskLoop        *)
(* implements Authority.  The inductive invariant of those four:           *)

\* a is found by a controller with these nodes and orphans.
Listed(a, stats, atts, orphaned) ==
  \/ atts[a[1]] = a[2] /\ stats[a[1]] \in ACTIVE
  \/ \E v \in 0 .. MaxVer : <<a[1], a[2], v>> \in orphaned

\* What holds of the state in memory and of the one in the session file: a run
\* marked terminal is over, attempts and nodes exist, every run is listed, and
\* there is none before the first task or after a completed one.
Coherent(stage, vers, stats, atts, orphaned, terminal) ==
  /\ \A o \in terminal : proc[Of(o)] \in {"ended", "refused"}
  /\ \A n \in Node : atts[n] <= tries[n]
  /\ \A n \in Node : vers[n] = 0 => stats[n] = None /\ atts[n] = 0
  /\ \A a \in Occupied : Listed(a, stats, atts, orphaned)
  /\ stage \in {None, "complete"} => Occupied = {}

MemCoherent  == Coherent(status, ver, nstat, att, orphans, settled)
DiskCoherent == Coherent(durable.status, durable.ver, durable.nstat, durable.att,
                         durable.orphans, durable.settled)

\* A closure of a node that is gone holds a replaced object; one that awaits
\* native.stop has orphaned its attempt.
CallInv ==
  \A a \in Attempt :
    /\ ver[a[1]] = 0 /\ call[a] # "idle" => a \in detached
    /\ call[a] = "stopping" /\ a \in Occupied => Orig(a) \in orphans

LaunchInv ==
  /\ crossed \subseteq Launched
  /\ \A a \in Attempt : proc[a] = "none" <=> a \notin Launched

TrackInv == MemCoherent /\ DiskCoherent /\ CallInv /\ LaunchInv

\* No closure survives the process.
DownInv == phase = "down" => \A a \in Attempt : call[a] = "idle"

\* No run appears, and what is over stays over.
Settling ==
  /\ tries' = tries /\ Occupied' \subseteq Occupied
  /\ \A a \in Attempt : /\ proc[a] = "none" <=> proc'[a] = "none"
                        /\ proc[a] \in {"ended", "refused"} => proc'[a] = proc[a]

LEMMA FiledTracks ==
  ASSUME TypeOK, TypeOK', Filed
  PROVE  \/ durable' = durable
         \/ /\ durable'.status = status' /\ durable'.ver = ver' /\ durable'.nstat = nstat'
            /\ durable'.att = att' /\ durable'.orphans = orphans' /\ durable'.settled = settled'
BY DEF Filed, CheckpointWith, Projection

\* Whatever leaves memory coherent leaves the session file coherent.
LEMMA TrackStep ==
  ASSUME TypeOK, TypeOK', TrackInv, Filed, Settling, MemCoherent', CallInv',
         crossed' \subseteq Launched
  PROVE  TrackInv'
<1>1. LaunchInv'
  BY DEF TrackInv, LaunchInv, Launched, Settling
<1>2. CASE durable' = durable
  <2>1. \A o \in durable.settled : Of(o) \in Attempt
    BY DEF TypeOK, Saved, Object, Of, Attempt
  <2>2. DiskCoherent'
    BY <1>2, <2>1 DEF TrackInv, DiskCoherent, Coherent, Settling, Listed
  <2> QED
    BY <1>1, <2>2 DEF TrackInv
<1>3. CASE /\ durable'.status = status' /\ durable'.ver = ver' /\ durable'.nstat = nstat'
           /\ durable'.att = att' /\ durable'.orphans = orphans' /\ durable'.settled = settled'
  <2>1. DiskCoherent'
    BY <1>3 DEF MemCoherent, DiskCoherent, Coherent, Listed
  <2> QED
    BY <1>1, <2>1 DEF TrackInv
<1> QED
  BY <1>2, <1>3, FiledTracks

LEMMA Still ==
  ASSUME UNCHANGED <<proc, crossed, tries>>
  PROVE  Settling /\ Occupied' = Occupied /\ (TrackInv => crossed' \subseteq Launched)
BY DEF Settling, Occupied, TrackInv, LaunchInv

\* Steps that leave the nodes, the orphans and the closures alone.
LEMMA TrackQuiet ==
  ASSUME TypeOK, TypeOK', TrackInv, Filed,
         UNCHANGED <<ver, nstat, att, orphans, settled, call, detached, proc, crossed, tries>>,
         status' \in {None, "complete"} => status \in {None, "complete"} \/ Occupied = {}
  PROVE  TrackInv'
<1>1. Settling /\ Occupied' = Occupied /\ crossed' \subseteq Launched
  BY Still
<1>2. MemCoherent'
  BY <1>1 DEF TrackInv, MemCoherent, Coherent, Listed
<1>3. CallInv'
  BY <1>1 DEF TrackInv, CallInv
<1> QED
  BY <1>1, <1>2, <1>3, TrackStep

-----------------------------------------------------------------------------
(* Invalidation: the active attempts of the invalidated nodes are orphaned *)

LEMMA Orphaned ==
  ASSUME TypeOK, TypeOK', TrackInv, TaskLoopAssumption, NEW S \in SUBSET Node,
         orphans' = orphans \cup Clones(S), settled' = Cloned(settled, S),
         UNCHANGED <<proc, crossed, tries>>,
         \A n \in Node \ S : nstat[n] \in ACTIVE => nstat'[n] = nstat[n] /\ att'[n] = att[n]
  PROVE  /\ \A a \in Occupied' : Listed(a, nstat', att', orphans')
         /\ \A o \in settled' : proc'[Of(o)] \in {"ended", "refused"}
<1>1. ASSUME NEW a \in Occupied'
      PROVE  Listed(a, nstat', att', orphans')
  <2>1. a \in Occupied /\ a \in Attempt /\ Listed(a, nstat, att, orphans)
    BY <1>1 DEF Occupied, TrackInv, MemCoherent, Coherent
  <2>2. a[1] \in Node /\ a[2] \in 1 .. MaxTry /\ ver[a[1]] \in 0 .. MaxVer
    BY <2>1 DEF Attempt, TypeOK, TaskTypeOK
  <2>3. CASE \E v \in 0 .. MaxVer : <<a[1], a[2], v>> \in orphans
    BY <2>3 DEF Listed
  <2>4. CASE att[a[1]] = a[2] /\ nstat[a[1]] \in ACTIVE /\ a[1] \notin S
    BY <2>2, <2>4 DEF Listed
  <2>5. CASE att[a[1]] = a[2] /\ nstat[a[1]] \in ACTIVE /\ a[1] \in S
    <3>1. a[1] \in Orphaning(S)
      BY <2>2, <2>5 DEF Orphaning
    <3>2. <<a[1], a[2], ver[a[1]]>> \in Clones(S)
      BY <2>5, <3>1 DEF Clones
    <3> QED
      BY <2>2, <3>2 DEF Listed
  <2> QED
    BY <2>1, <2>3, <2>4, <2>5 DEF Listed
<1>2. ASSUME NEW o \in settled' PROVE proc'[Of(o)] \in {"ended", "refused"}
  <2>1. \A p \in settled : proc[Of(p)] \in {"ended", "refused"}
    BY DEF TrackInv, MemCoherent, Coherent
  <2>2. CASE o \in settled
    BY <2>1, <2>2
  <2>3. CASE o \notin settled
    <3>1. PICK n \in Orphaning(S) : <<n, att[n], 0>> \in settled /\ o = <<n, att[n], ver[n]>>
      BY <2>3, <1>2 DEF Cloned
    <3>2. Of(o) = Of(<<n, att[n], 0>>)
      BY <3>1 DEF Of
    <3> QED
      BY <2>1, <3>1, <3>2
  <2> QED
    BY <2>2, <2>3
<1> QED
  BY <1>1, <1>2

LEMMA TrackInvalidated ==
  ASSUME TypeOK, TypeOK', TrackInv, TaskLoopAssumption, Filed, NEW S \in SUBSET Node,
         orphans' = orphans \cup Clones(S), settled' = Cloned(settled, S),
         UNCHANGED <<proc, crossed, tries, call>>, detached \subseteq detached',
         status' \in {None, "complete"} => status \in {None, "complete"},
         \A n \in Node \ S : nstat[n] \in ACTIVE => nstat'[n] = nstat[n] /\ att'[n] = att[n],
         \A n \in Node : att'[n] \in {0, att[n]},
         \A n \in Node : ver'[n] = 0 => ver[n] = 0 /\ nstat'[n] = nstat[n] /\ att'[n] = att[n]
  PROVE  TrackInv'
<1>1. Settling /\ Occupied' = Occupied /\ crossed' \subseteq Launched
  BY Still
<1>2. /\ nstat' \in [Node -> Stat] /\ att' \in [Node -> 0 .. MaxTry]
      /\ tries \in [Node -> 0 .. MaxTry] /\ MaxTry \in Nat
  BY DEF TypeOK, TaskTypeOK, OutsideTypeOK, TaskLoopAssumption
<1>3. /\ \A a \in Occupied' : Listed(a, nstat', att', orphans')
      /\ \A o \in settled' : proc'[Of(o)] \in {"ended", "refused"}
  BY <1>2, Orphaned
<1>4. \A n \in Node : att'[n] <= tries'[n]
  BY <1>2 DEF TrackInv, MemCoherent, Coherent
<1>5. MemCoherent'
  BY <1>1, <1>3, <1>4 DEF TrackInv, MemCoherent, Coherent, Listed
<1>6. CallInv'
  BY <1>1 DEF TrackInv, CallInv, Attempt
<1> QED
  BY <1>1, <1>5, <1>6, TrackStep

LEMMA TrackRevise ==
  ASSUME TypeOK, TypeOK', TrackInv, TaskLoopAssumption, Revise PROVE TrackInv'
<1>1. Present \in SUBSET Node
  BY DEF Present
<1>2. Filed
  <2>1. Cloned(known, Present) \in SUBSET Object
    BY <1>1, HelperTypes DEF TypeOK, TaskTypeOK
  <2> QED
    BY <2>1 DEF Revise, Filed
<1>3. \A n \in Node : ver[n] \in Nat
  BY DEF TypeOK, TaskTypeOK, TaskLoopAssumption
<1>4. /\ orphans' = orphans \cup Clones(Present) /\ settled' = Cloned(settled, Present)
      /\ UNCHANGED <<proc, crossed, tries, call, detached, att>> /\ status' = "running"
      /\ ver' = Bump(Present) /\ nstat' = SetStat(Present, "stale")
  BY DEF Revise
<1>5. \A n \in Node : /\ n \notin Present => nstat'[n] = nstat[n] /\ ver'[n] = ver[n]
                      /\ ver'[n] = 0 => n \notin Present
  BY <1>3, <1>4 DEF SetStat, Bump
<1>6. status' \notin {None, "complete"}
  BY <1>4 DEF None
<1> QED
  BY <1>1, <1>2, <1>4, <1>5, <1>6, TrackInvalidated

LEMMA SelfInvalid ==
  ASSUME NEW n \in Present PROVE n \in Invalid({n})
BY DEF Invalid, Descendants, Reach, Present

LEMMA TrackReject ==
  ASSUME TypeOK, TypeOK', TrackInv, TaskLoopAssumption, NEW n \in Node, Reject(n)
  PROVE  TrackInv'
<1> DEFINE bad == Invalid({n})
<1>1. bad \in SUBSET Node /\ n \in bad /\ bad \subseteq Present
  BY SelfInvalid DEF Reject, Invalid, Present
<1>2. Filed
  <2>1. Cloned(known, bad) \in SUBSET Object
    BY <1>1, HelperTypes DEF TypeOK, TaskTypeOK
  <2> QED
    BY <2>1 DEF Reject, Filed
<1>3. \A m \in Node : ver[m] \in Nat
  BY DEF TypeOK, TaskTypeOK, TaskLoopAssumption
<1>4. /\ orphans' = orphans \cup Clones(bad) /\ settled' = Cloned(settled, bad)
      /\ UNCHANGED <<proc, crossed, tries, call, detached, att, status>>
      /\ ver' = Bump(bad) /\ nstat' = [SetStat(bad, "stale") EXCEPT ![n] = "rejected"]
  BY DEF Reject
<1> HIDE DEF bad
<1>5. \A m \in Node : /\ m \notin bad => nstat'[m] = nstat[m] /\ ver'[m] = ver[m]
                      /\ ver'[m] = 0 => m \notin bad
  BY <1>1, <1>3, <1>4 DEF SetStat, Bump
<1> QED
  BY <1>1, <1>2, <1>4, <1>5, TrackInvalidated

LEMMA TrackDefine ==
  ASSUME TypeOK, TypeOK', TrackInv, TaskLoopAssumption, NEW S \in SUBSET Node,
         NEW changed \in SUBSET S, NEW newDep \in Graph, Define(S, changed, newDep)
  PROVE  TrackInv'
<1> DEFINE bad   == IF changed = {} THEN {} ELSE Invalid(changed)
           stat1 == SetStat(bad, "stale")
           ver1  == Bump(bad)
           redo  == {n \in S : n \notin Present \/ n \in changed
                               \/ stat1[n] \in {"stale", "failed", "rejected", "cancelled"}}
<1>1. bad \in SUBSET Node /\ bad \subseteq Present /\ redo \in SUBSET Node
  BY DEF Invalid, Present
<1>2. changed \subseteq bad
  BY DEF Define, Invalid, Descendants, Reach, Present
<1>3. Filed
  <2>1. Cloned(known, bad) \in SUBSET Object
    BY <1>1, HelperTypes DEF TypeOK, TaskTypeOK
  <2> QED
    BY <2>1 DEF Define, Filed
<1>4. /\ orphans' = orphans \cup Clones(bad) /\ settled' = Cloned(settled, bad)
      /\ UNCHANGED <<proc, crossed, tries, call, status>> /\ detached \subseteq detached'
      /\ ver' = [n \in Node |-> IF n \in redo /\ n \notin changed /\ stat1[n] # "stale"
                               THEN ver1[n] + 1 ELSE ver1[n]]
      /\ nstat' = [n \in Node |-> IF n \in redo THEN "pending" ELSE stat1[n]]
      /\ att' = [n \in Node |-> IF n \in redo THEN 0 ELSE att[n]]
  BY DEF Define
<1>5. \A n \in Node : /\ ver[n] \in Nat /\ n \in Present <=> ver[n] # 0
                      /\ n \notin Present => nstat[n] = None /\ att[n] = 0
  BY DEF TypeOK, TaskTypeOK, TaskLoopAssumption, Present, TrackInv, MemCoherent, Coherent
<1>6. \A n \in Node : /\ n \in bad => stat1[n] = "stale" /\ ver1[n] = ver[n] + 1
                      /\ n \notin bad => stat1[n] = nstat[n] /\ ver1[n] = ver[n]
  BY DEF SetStat, Bump
<1>7. ASSUME NEW n \in Node \ bad, nstat[n] \in ACTIVE
      PROVE  n \notin redo
  BY <1>2, <1>5, <1>6, <1>7 DEF ACTIVE, None
<1>8. ASSUME NEW n \in Node, ver'[n] = 0
      PROVE  ver[n] = 0 /\ n \notin redo /\ n \notin bad
  <2>1. n \notin bad /\ ver1[n] = ver[n] /\ ver[n] = 0 /\ nstat[n] = None
    BY <1>1, <1>4, <1>5, <1>6, <1>8
  <2>2. stat1[n] # "stale" /\ n \notin changed
    BY <1>2, <1>6, <2>1 DEF None
  <2> QED
    BY <1>4, <1>8, <2>1, <2>2
<1> HIDE DEF bad, redo, stat1, ver1
<1>9. /\ \A n \in Node \ bad : nstat[n] \in ACTIVE => nstat'[n] = nstat[n] /\ att'[n] = att[n]
      /\ \A n \in Node : att'[n] \in {0, att[n]}
      /\ \A n \in Node : ver'[n] = 0 => ver[n] = 0 /\ nstat'[n] = nstat[n] /\ att'[n] = att[n]
  BY <1>4, <1>6, <1>7, <1>8
<1> QED
  BY <1>1, <1>3, <1>4, <1>9, TrackInvalidated

-----------------------------------------------------------------------------
(* Launching *)

LEMMA TrackNewTask ==
  ASSUME TypeOK, TypeOK', TrackInv, TaskLoopAssumption, NewTask PROVE TrackInv'
<1>1. UNCHANGED <<proc, crossed, tries, settled>> /\ Filed
  BY CheckpointFiles DEF NewTask
<1>2. Settling /\ Occupied' = Occupied /\ crossed' \subseteq Launched /\ Occupied = {}
  BY <1>1, Still DEF TrackInv, MemCoherent, Coherent, NewTask
<1>3. \A n \in Node : nstat'[n] = None /\ att'[n] = 0 /\ tries[n] \in Nat
  BY DEF NewTask, TypeOK, OutsideTypeOK, TaskLoopAssumption
<1>4. MemCoherent'
  BY <1>1, <1>2, <1>3 DEF TrackInv, MemCoherent, Coherent
<1>5. CallInv'
  BY <1>2 DEF CallInv, NewTask
<1> QED
  BY <1>1, <1>2, <1>4, <1>5, TrackStep

LEMMA Started ==
  ASSUME TypeOK, TaskLoopAssumption, LaunchInv, NEW S \in SUBSET Node, NEW ok \in SUBSET S,
         Dispatch(S, ok), NEW a \in Attempt
  PROVE  \/ /\ a \in Launched' \ Launched /\ a[1] \in ok /\ att'[a[1]] = a[2]
            /\ nstat'[a[1]] = "starting" /\ proc[a] = "none" /\ proc'[a] = "sent"
            /\ call'[a] = "pending"
         \/ /\ a \in Launched' <=> a \in Launched
            /\ proc'[a] = proc[a] /\ call'[a] = call[a]
<1> DEFINE try == [n \in Node |-> IF n \in ok THEN tries[n] + 1 ELSE tries[n]]
           started == {<<n, try[n]>> : n \in ok}
<1>1. /\ tries' = try /\ att' = [n \in Node |-> IF n \in ok THEN try[n] ELSE att[n]]
      /\ nstat' = SetStat(ok, "starting")
      /\ call'[a] = IF a \in started THEN "pending" ELSE call[a]
      /\ proc'[a] = IF a \in started THEN "sent" ELSE proc[a]
  BY DEF Dispatch
<1>2. PICK n \in Node, k \in 1 .. MaxTry : a = <<n, k>>
  BY DEF Attempt
<1>3. a[1] = n /\ a[2] = k /\ tries[n] \in Nat /\ k \in Nat
  BY <1>2 DEF TypeOK, OutsideTypeOK
<1>4. a \in started <=> n \in ok /\ k = try[n]
  BY <1>2
<1>5. (a \in Launched <=> k <= tries[n]) /\ (a \in Launched' <=> k <= try[n])
  BY <1>1, <1>3 DEF Launched
<1>6. try[n] = IF n \in ok THEN tries[n] + 1 ELSE tries[n]
  OBVIOUS
<1> HIDE DEF try, started
<1>7. CASE a \in started
  <2>1. n \in ok /\ k = tries[n] + 1 /\ k = try[n]
    BY <1>4, <1>6, <1>7
  <2>2. a \in Launched' /\ a \notin Launched
    BY <1>3, <1>5, <2>1
  <2>3. att'[n] = k /\ nstat'[n] = "starting" /\ proc[a] = "none"
    BY <1>1, <2>1, <2>2 DEF SetStat, LaunchInv
  <2> QED
    BY <1>1, <1>3, <1>7, <2>1, <2>2, <2>3
<1>8. CASE a \notin started
  <2>1. k <= try[n] <=> k <= tries[n]
    BY <1>3, <1>4, <1>6, <1>8
  <2> QED
    BY <1>1, <1>5, <1>8, <2>1
<1> QED
  BY <1>7, <1>8

LEMMA DispatchFiles ==
  ASSUME NEW S, NEW ok, Dispatch(S, ok)
  PROVE  /\ durable'.status = status' /\ durable'.ver = ver' /\ durable'.nstat = nstat'
         /\ durable'.att = att' /\ durable'.orphans = orphans' /\ durable'.settled = settled'
BY DEF Dispatch, Current, Checkpoint, CheckpointWith, Projection

LEMMA TrackDispatch ==
  ASSUME TypeOK, TypeOK', TrackInv, TaskLoopAssumption, NEW S \in SUBSET Node,
         NEW ok \in SUBSET S, Dispatch(S, ok)
  PROVE  TrackInv'
<1>1. /\ UNCHANGED <<status, ver, orphans, settled, crossed, detached>>
      /\ status' = "running" /\ nstat' = SetStat(ok, "starting")
      /\ \A n \in ok : nstat[n] \in {"pending", "stale"}
      /\ tries' = [n \in Node |-> IF n \in ok THEN tries[n] + 1 ELSE tries[n]]
      /\ att' = [n \in Node |-> IF n \in ok THEN tries'[n] ELSE att[n]]
  BY DEF Dispatch, Ready, Current
<1>2. \A n \in Node : /\ tries[n] \in Nat /\ tries'[n] \in Nat /\ att[n] \in Nat
                      /\ att[n] <= tries[n]
                      /\ ver[n] = 0 => nstat[n] = None /\ att[n] = 0
  BY DEF TypeOK, TaskTypeOK, OutsideTypeOK, TrackInv, MemCoherent, Coherent
<1>3. LaunchInv /\ LaunchInv'
  <2>1. LaunchInv
    BY DEF TrackInv
  <2>2. \A a \in Attempt : proc'[a] = "none" <=> a \notin Launched'
    BY <2>1, Started DEF LaunchInv
  <2>3. Launched \subseteq Launched'
    BY <1>1, <1>2 DEF Launched, Attempt
  <2> QED
    BY <1>1, <2>1, <2>2, <2>3 DEF LaunchInv
<1>4. ASSUME NEW o \in settled' PROVE proc'[Of(o)] \in {"ended", "refused"}
  <2>1. proc[Of(o)] \in {"ended", "refused"} /\ Of(o) \in Attempt
    BY <1>1, <1>4 DEF TrackInv, MemCoherent, Coherent, TypeOK, TaskTypeOK, Object, Of, Attempt
  <2> QED
    BY <1>3, <2>1, Started
<1>5. \A n \in Node : att'[n] <= tries'[n] /\ (ver'[n] = 0 => nstat'[n] = None /\ att'[n] = 0)
  BY <1>1, <1>2 DEF SetStat, None
<1>6. ASSUME NEW a \in Occupied' PROVE Listed(a, nstat', att', orphans')
  <2>1. a \in Attempt /\ a \notin crossed /\ proc'[a] \in {"sent", "live"} /\ a[1] \in Node
    BY <1>1, <1>6 DEF Occupied, Attempt
  <2>2. CASE proc'[a] = proc[a]
    <3>1. Listed(a, nstat, att, orphans)
      BY <2>1, <2>2 DEF Occupied, TrackInv, MemCoherent, Coherent
    <3> QED
      BY <1>1, <2>1, <3>1 DEF Listed, SetStat, ACTIVE
  <2>3. CASE att'[a[1]] = a[2] /\ nstat'[a[1]] = "starting"
    BY <2>3 DEF Listed, ACTIVE
  <2> QED
    BY <1>3, <2>1, <2>2, <2>3, Started
<1>7. status' \notin {None, "complete"}
  BY <1>1 DEF None
<1>8. MemCoherent' /\ DiskCoherent'
  BY <1>4, <1>5, <1>6, <1>7, DispatchFiles DEF MemCoherent, DiskCoherent, Coherent
<1>9. CallInv'
  <2> SUFFICES ASSUME NEW a \in Attempt
               PROVE  /\ ver'[a[1]] = 0 /\ call'[a] # "idle" => a \in detached'
                      /\ call'[a] = "stopping" /\ a \in Occupied' => Orig(a) \in orphans'
    BY DEF CallInv
  <2>1. a[1] \in Node
    BY DEF Attempt
  <2>2. CASE proc'[a] = proc[a] /\ call'[a] = call[a]
    BY <1>1, <2>2 DEF TrackInv, CallInv, Occupied
  <2>3. CASE call'[a] = "pending" /\ a[1] \in ok
    BY <1>1, <1>2, <2>1, <2>3 DEF None
  <2> QED
    BY <1>3, <2>2, <2>3, Started
<1> QED
  BY <1>3, <1>8, <1>9 DEF TrackInv

\* A status written by a closure hides at most the run that Crossed names.
LEMMA WrittenTracks ==
  ASSUME TypeOK, TypeOK', TrackInv, TaskLoopAssumption, NEW a \in Attempt, call[a] # "idle",
         NEW s \in NodeStatus, nstat' = Written(a, s), crossed' = Crossed(a, s),
         s \in ACTIVE \/ a \notin Occupied \/ Orig(a) \in orphans,
         UNCHANGED <<ver, att, orphans, proc, tries>>
  PROVE  /\ Settling /\ crossed' \subseteq Launched
         /\ \A b \in Occupied' : Listed(b, nstat', att', orphans')
         /\ \A n \in Node : ver'[n] = 0 => nstat'[n] = None
<1>1. PICK n \in Node, k \in 1 .. MaxTry : a = <<n, k>> /\ a[1] = n /\ a[2] = k
  BY DEF Attempt
<1>2. /\ att[n] \in 0 .. MaxTry /\ tries[n] \in Nat /\ att[n] <= tries[n] /\ nstat \in [Node -> Stat]
  BY DEF TypeOK, TaskTypeOK, OutsideTypeOK, TrackInv, MemCoherent, Coherent
<1>3. att[n] # 0 => <<n, att[n]>> \in Launched
  BY <1>2 DEF Launched, Attempt
<1>4. crossed \subseteq crossed' /\ crossed' \subseteq Launched
  BY <1>1, <1>3 DEF Crossed, TrackInv, LaunchInv
<1>5. Settling
  BY <1>4 DEF Settling, Occupied
<1>6. ASSUME NEW b \in Occupied' PROVE Listed(b, nstat', att', orphans')
  <2>1. b \in Occupied /\ Listed(b, nstat, att, orphans) /\ b \notin crossed' /\ b \in Attempt
    BY <1>5, <1>6 DEF Settling, Occupied, TrackInv, MemCoherent, Coherent
  <2>2. CASE a \in detached \/ s \in ACTIVE \/ b[1] # n
    BY <1>1, <1>2, <2>1, <2>2 DEF Listed, Written, ACTIVE, NodeStatus
  <2>3. CASE a \notin detached /\ s \notin ACTIVE /\ b[1] = n /\ att[n] = b[2]
    <3>1. b = <<n, att[n]>> /\ att[n] # 0
      BY <2>1, <2>3 DEF Attempt
    <3>2. att[n] = k
      BY <1>1, <2>1, <2>3, <3>1 DEF Crossed
    <3>3. b = a /\ Orig(a) \in orphans
      BY <1>1, <2>1, <2>3, <3>1, <3>2
    <3>4. 0 \in 0 .. MaxVer /\ <<b[1], b[2], 0>> \in orphans
      BY <3>3 DEF Orig, TaskLoopAssumption
    <3> QED
      BY <3>4 DEF Listed
  <2>4. CASE b[1] = n /\ att[n] # b[2]
    BY <2>1, <2>4 DEF Listed
  <2> QED
    BY <2>2, <2>3, <2>4
<1>7. ASSUME NEW m \in Node, ver'[m] = 0 PROVE nstat'[m] = None
  <2>1. nstat[m] = None /\ (m = n => a \in detached)
    BY <1>1, <1>7 DEF TrackInv, MemCoherent, Coherent, CallInv
  <2> QED
    BY <1>1, <1>2, <2>1 DEF Written
<1> QED
  BY <1>4, <1>5, <1>6, <1>7

LEMMA TrackSpawn ==
  ASSUME TypeOK, TypeOK', TrackInv, TaskLoopAssumption, NEW a \in Attempt,
         SpawnReturns(a) \/ StopReturns(a)
  PROVE  TrackInv'
<1>0. call \in [Attempt -> {"idle", "pending", "stopping", "failing"}] /\ Of(Orig(a)) = a
  BY DEF TypeOK, MemTypeOK, Of, Orig, Attempt
<1>1. ASSUME UNCHANGED <<status, ver, att, orphans, proc, tries, detached>>, Filed,
             NEW c \in {"idle", "failing"}, call' = [call EXCEPT ![a] = c],
             NEW s \in NodeStatus, nstat' = Written(a, s), crossed' = Crossed(a, s),
             s \in ACTIVE \/ a \notin Occupied \/ Orig(a) \in orphans, call[a] # "idle",
             settled' = settled \/ (settled' = settled \cup {Orig(a)} /\ proc[a] = "refused")
      PROVE  TrackInv'
  <2>1. /\ Settling /\ crossed' \subseteq Launched
        /\ \A b \in Occupied' : Listed(b, nstat', att', orphans')
        /\ \A n \in Node : ver'[n] = 0 => nstat'[n] = None
    BY <1>1, WrittenTracks
  <2>2. \A o \in settled' : proc'[Of(o)] \in {"ended", "refused"}
    BY <1>0, <1>1 DEF TrackInv, MemCoherent, Coherent
  <2>3. MemCoherent'
    BY <1>1, <2>1, <2>2 DEF TrackInv, MemCoherent, Coherent, Settling
  <2>4. CallInv'
    BY <1>0, <1>1, <2>1 DEF TrackInv, CallInv, Settling
  <2> QED
    BY <1>1, <2>1, <2>3, <2>4, TrackStep
<1>2. CASE SpawnAckCurrent(a)
  <2>1. crossed' = Crossed(a, "running")
    BY <1>2 DEF SpawnAckCurrent, Crossed, ACTIVE, historyVars
  <2> QED
    BY <1>1, <1>2, <2>1, CheckpointFiles DEF SpawnAckCurrent, Returned, historyVars, ACTIVE, NodeStatus
<1>3. CASE SpawnAckLate(a)
  <2>1. /\ UNCHANGED <<status, ver, att, nstat, settled, proc, crossed, tries, detached>> /\ Filed
        /\ orphans' = orphans \cup {Orig(a)} /\ call' = [call EXCEPT ![a] = "stopping"]
        /\ call[a] = "pending"
    BY <1>3 DEF SpawnAckLate, historyVars, Filed
  <2>2. Settling /\ Occupied' = Occupied /\ crossed' \subseteq Launched
    BY <2>1, Still
  <2>3. MemCoherent'
    BY <2>1, <2>2 DEF TrackInv, MemCoherent, Coherent, Listed
  <2>4. CallInv'
    BY <1>0, <2>1, <2>2 DEF TrackInv, CallInv
  <2> QED
    BY <2>1, <2>2, <2>3, <2>4, TrackStep
<1>4. CASE SpawnRefused(a)
  BY <1>1, <1>4, CheckpointFiles DEF SpawnRefused, Returned, Occupied, NodeStatus, Withdrawn
<1>5. CASE SpawnUnknown(a)
  <2>1. crossed' = Crossed(a, "unknown")
    BY <1>5 DEF SpawnUnknown, Crossed, ACTIVE, historyVars
  <2> QED
    BY <1>1, <1>5, <2>1, CheckpointFiles DEF SpawnUnknown, Returned, historyVars, ACTIVE, NodeStatus, Withdrawn
<1>6. CASE SpawnStopped(a)
  <2>1. a \notin Occupied \/ Orig(a) \in orphans
    BY <1>6 DEF SpawnStopped, TrackInv, CallInv
  <2> QED
    BY <1>1, <1>6, <2>1, CheckpointFiles DEF SpawnStopped, Returned, NodeStatus, Withdrawn
<1>7. ASSUME NEW reply, SpawnFails(a, reply) PROVE TrackInv'
  <2>1. crossed' = Crossed(a, "unknown")
    BY <1>7 DEF SpawnFails, Crossed, ACTIVE, historyVars
  <2> QED
    BY <1>1, <1>7, <2>1 DEF SpawnFails, Filed, historyVars, ACTIVE, NodeStatus, Withdrawn
<1>8. CASE SpawnFailed(a)
  <2>1. /\ UNCHANGED <<status, ver, att, nstat, orphans, settled, proc, crossed, tries, detached>>
        /\ Filed /\ call' = [call EXCEPT ![a] = "idle"]
    BY <1>8, CheckpointFiles DEF SpawnFailed, Returned, historyVars
  <2>2. Settling /\ Occupied' = Occupied /\ crossed' \subseteq Launched
    BY <2>1, Still
  <2>3. MemCoherent'
    BY <2>1, <2>2 DEF TrackInv, MemCoherent, Coherent, Listed
  <2>4. CallInv'
    BY <1>0, <1>8, <2>1, <2>2 DEF SpawnFailed, TrackInv, CallInv
  <2> QED
    BY <2>1, <2>2, <2>3, <2>4, TrackStep
<1> QED
  BY <1>2, <1>3, <1>4, <1>5, <1>6, <1>7, <1>8 DEF SpawnReturns, StopReturns

-----------------------------------------------------------------------------
(* Settlement *)

\* refresh drops only orphans whose run is over.
LEMMA TrackRefreshed ==
  ASSUME TypeOK, TypeOK', TrackInv, TaskLoopAssumption, RefreshEnd,
         UNCHANGED <<status, ver, att, call, detached, proc, tries, crossed>>,
         settled' = settled \/ \E o \in Object : /\ proc[Of(o)] = "ended"
                                               /\ settled' = settled \cup {o},
         \/ nstat' = nstat
         \/ \E n \in Node : \E s \in Stat :
              /\ att[n] # 0 /\ proc[<<n, att[n]>>] = "ended" /\ nstat' = [nstat EXCEPT ![n] = s]
  PROVE  TrackInv'
<1>1. Settling /\ Occupied' = Occupied /\ crossed' \subseteq Launched
  BY Still
<1>2. Filed
  BY CheckpointFiles DEF RefreshEnd, Filed
<1>3. \A o \in settled' : proc'[Of(o)] \in {"ended", "refused"}
  BY DEF TrackInv, MemCoherent, Coherent
<1>4. orphans' = orphans \/ orphans' = orphans \ settled'
  BY DEF RefreshEnd
<1>5. ASSUME NEW a \in Occupied, NEW v, <<a[1], a[2], v>> \in orphans
      PROVE  <<a[1], a[2], v>> \in orphans'
  <2>1. a \in Attempt /\ Of(<<a[1], a[2], v>>) = a /\ proc[a] \in {"sent", "live"}
    BY DEF Occupied, Of, Attempt
  <2> QED
    BY <1>3, <1>4, <1>5, <2>1
<1>6. ASSUME NEW a \in Occupied PROVE Listed(a, nstat', att', orphans')
  <2>1. Listed(a, nstat, att, orphans) /\ a \in Attempt /\ proc[a] # "ended" /\ a[1] \in Node
    BY DEF TrackInv, MemCoherent, Coherent, Occupied, Attempt
  <2>2. CASE \E v \in 0 .. MaxVer : <<a[1], a[2], v>> \in orphans
    BY <1>5, <2>2 DEF Listed
  <2>3. CASE att[a[1]] = a[2] /\ nstat[a[1]] \in ACTIVE
    <3>1. a = <<a[1], att[a[1]]>>
      BY <2>1, <2>3 DEF Attempt
    <3>2. nstat'[a[1]] = nstat[a[1]]
      BY <2>1, <3>1 DEF TypeOK, TaskTypeOK
    <3> QED
      BY <2>3, <3>2 DEF Listed
  <2> QED
    BY <2>1, <2>2, <2>3 DEF Listed
<1>7. \A n \in Node : ver[n] = 0 => nstat'[n] = None /\ att[n] = 0
  BY DEF TrackInv, MemCoherent, Coherent, TypeOK, TaskTypeOK
<1>8. MemCoherent'
  BY <1>1, <1>3, <1>6, <1>7 DEF TrackInv, MemCoherent, Coherent
<1>9. CallInv'
  <2> SUFFICES ASSUME NEW a \in Attempt, call'[a] = "stopping", a \in Occupied'
               PROVE  Orig(a) \in orphans'
    BY DEF TrackInv, CallInv
  <2>1. a \in Occupied /\ Orig(a) \in orphans
    BY <1>1 DEF TrackInv, CallInv
  <2> QED
    BY <1>5, <2>1 DEF Orig
<1> QED
  BY <1>1, <1>2, <1>8, <1>9, TrackStep

LEMMA TrackRefresh ==
  ASSUME TypeOK, TypeOK', TrackInv, TaskLoopAssumption,
         RefreshStart \/ \E o \in Object : RefreshStep(o)
  PROVE  TrackInv'
<1>1. CASE RefreshStart
  BY <1>1, TrackRefreshed DEF RefreshStart, historyVars
<1>2. ASSUME NEW o \in Object, RefreshUnsettled(o) \/ RefreshUnrecorded(o) PROVE TrackInv'
  BY <1>2, TrackRefreshed DEF RefreshUnsettled, RefreshUnrecorded, historyVars
<1>3. ASSUME NEW o \in Object, NEW r \in {"returned", "rejected", "failed"}, RefreshSettle(o, r)
      PROVE  TrackInv'
  <2> DEFINE a == Of(o)
  <2>1. a \in Attempt /\ a[1] \in Node /\ a[2] # 0 /\ a = <<a[1], a[2]>>
    BY DEF Of, Object, Attempt
  <2>2. /\ RefreshEnd /\ proc[a] = "ended" /\ settled' = settled \cup {o}
        /\ UNCHANGED <<status, ver, att, call, detached, proc, tries, crossed>>
        /\ \/ nstat' = nstat
           \/ att[a[1]] = a[2] /\ \E s \in Stat : nstat' = [nstat EXCEPT ![a[1]] = s]
    BY <1>3 DEF RefreshSettle, ResultLive, historyVars, Stat, NodeStatus, Withdrawn
  <2> HIDE DEF a
  <2>3. \/ nstat' = nstat
        \/ \E n \in Node : \E s \in Stat :
             /\ att[n] # 0 /\ proc[<<n, att[n]>>] = "ended" /\ nstat' = [nstat EXCEPT ![n] = s]
    BY <2>1, <2>2
  <2> QED
    BY <2>2, <2>3, TrackRefreshed DEF a
<1> QED
  BY <1>1, <1>2, <1>3 DEF RefreshStep

-----------------------------------------------------------------------------
(* The remaining actions, and the invariant *)

LEMMA TrackDecision ==
  ASSUME TypeOK, TypeOK', TrackInv, TaskLoopAssumption, Finish \/ \E n \in Node : Admit(n)
  PROVE  TrackInv'
<1>1. ASSUME NEW n \in Node, Admit(n) PROVE TrackInv'
  <2>1. /\ UNCHANGED <<status, ver, att, orphans, settled, call, detached, proc, crossed, tries>>
        /\ nstat[n] \in {"returned", "admitted"} /\ nstat' = [nstat EXCEPT ![n] = "admitted"]
        /\ Filed
    BY <1>1, CheckpointFiles DEF Admit, memVars, historyVars
  <2>2. Settling /\ Occupied' = Occupied /\ crossed' \subseteq Launched
    BY <2>1, Still
  <2>3. \A m \in Node : /\ nstat[m] \in ACTIVE => nstat'[m] = nstat[m]
                        /\ ver[m] = 0 => nstat'[m] = None /\ att[m] = 0
    BY <2>1 DEF TrackInv, MemCoherent, Coherent, ACTIVE, None
  <2>4. MemCoherent'
    BY <2>1, <2>2, <2>3 DEF TrackInv, MemCoherent, Coherent, Listed, Occupied, Attempt
  <2>5. CallInv'
    BY <2>1, <2>2 DEF TrackInv, CallInv
  <2> QED
    BY <2>1, <2>2, <2>4, <2>5, TrackStep
<1>2. CASE Finish
  <2>1. Occupied = {}
    <3>1. ASSUME NEW a \in Occupied PROVE FALSE
      <4>1. /\ a \in Attempt /\ a[1] \in Node /\ a[2] \in 1 .. MaxTry /\ a = <<a[1], a[2]>>
            /\ proc[a] \in {"sent", "live"} /\ Listed(a, nstat, att, orphans)
        BY DEF Occupied, Attempt, TrackInv, MemCoherent, Coherent
      <4>2. PICK o \in orphans \cup Held : Of(o) = a
        <5>1. CASE att[a[1]] = a[2] /\ nstat[a[1]] \in ACTIVE
          <6>1. <<a[1], att[a[1]], 0>> \in Held
            BY <4>1, <5>1 DEF Held
          <6> QED
            BY <4>1, <5>1, <6>1 DEF Of
        <5>2. CASE \E v \in 0 .. MaxVer : <<a[1], a[2], v>> \in orphans
          BY <4>1, <5>2 DEF Of
        <5> QED
          BY <4>1, <5>1, <5>2 DEF Listed
      <4>3. o \notin settled
        BY <4>1, <4>2 DEF TrackInv, MemCoherent, Coherent
      <4> QED
        BY <1>2, <4>2, <4>3 DEF Finish, LiveObjects
    <3> QED
      BY <3>1
  <2> QED
    BY <1>2, <2>1, CheckpointFiles, TrackQuiet DEF Finish, memVars, historyVars
<1> QED
  BY <1>1, <1>2

LEMMA TrackNative ==
  ASSUME TypeOK, TypeOK', TrackInv, NEW a \in Attempt, NativeHandles(a) \/ NativeEnd(a)
  PROVE  TrackInv'
<1>1. /\ UNCHANGED <<taskVars, memVars, durable, historyVars>>
      /\ \E s \in {"live", "refused", "ended"} : proc' = [proc EXCEPT ![a] = s]
      /\ proc[a] \in {"sent", "live"} /\ (proc'[a] \in {"sent", "live"} => proc[a] = "sent")
  BY DEF NativeHandles, NativeLaunch, NativeRefuse, NativeEnd, NativeStep, TypeOK, OutsideTypeOK
<1>2. /\ proc \in [Attempt -> ProcState] /\ UNCHANGED <<tries, crossed>> /\ durable' = durable
  BY <1>1 DEF TypeOK, OutsideTypeOK, historyVars
<1>3. \A b \in Attempt : /\ proc[b] = "none" <=> proc'[b] = "none"
                         /\ proc[b] \in {"ended", "refused"} => proc'[b] = proc[b]
                         /\ proc'[b] \in {"sent", "live"} => proc[b] \in {"sent", "live"}
  BY <1>1, <1>2
<1>4. Settling /\ crossed' \subseteq Launched
  BY <1>2, <1>3 DEF Settling, Occupied, TrackInv, LaunchInv
<1>5. \A o \in settled : Of(o) \in Attempt
  BY DEF TypeOK, TaskTypeOK, Object, Of, Attempt
<1>6. MemCoherent'
  BY <1>1, <1>3, <1>4, <1>5 DEF TrackInv, MemCoherent, Coherent, Settling, Listed, taskVars
<1>7. CallInv'
  BY <1>1, <1>4 DEF TrackInv, CallInv, Settling, taskVars, memVars
<1> QED
  BY <1>2, <1>4, <1>6, <1>7, TrackStep DEF Filed

LEMMA TrackStop ==
  ASSUME TypeOK, TypeOK', TrackInv, (\E s \in Latched : Stop(s)) \/ Dispose
  PROVE  TrackInv'
<1>1. PICK s \in Latched :
        /\ Latch(s) /\ CheckpointWith(known)
        /\ UNCHANGED <<call, detached, proc, crossed, tries>>
  BY DEF Stop, Dispose, Latched, memVars
<1>2. Filed
  BY <1>1 DEF Filed, TypeOK, TaskTypeOK
<1>3. status' \in {None, "complete"} => status \in {None, "complete"}
  BY <1>1 DEF Latch, Latched, None
<1> QED
  BY <1>1, <1>2, <1>3, TrackQuiet DEF Latch

LEMMA TrackResume ==
  ASSUME TypeOK, TypeOK', TrackInv,
         ResumeNow \/ ResumeStart \/ ResumeEnd \/ ResumeFails \/ CheckpointFails \/ UNCHANGED vars
  PROVE  TrackInv'
<1>1. CASE Resumed
  BY <1>1, CheckpointFiles, TrackQuiet DEF Resumed, None
<1>2. CASE ResumeStart \/ ResumeFails \/ UNCHANGED vars
  BY <1>2, TrackQuiet DEF ResumeStart, ResumeFails, vars, taskVars, memVars, historyVars, Filed
<1>3. CASE CheckpointFails
  BY <1>3, TrackQuiet DEF CheckpointFails, Filed, None
<1> QED
  BY <1>1, <1>2, <1>3 DEF ResumeNow, ResumeEnd

LEMMA TrackProcess ==
  ASSUME TypeOK, TypeOK', TrackInv, DisposeEnd \/ Crash
  PROVE  TrackInv'
<1>1. /\ UNCHANGED <<taskVars, durable, tries, crossed>> /\ call' = [a \in Attempt |-> "idle"]
      /\ proc' = [a \in Attempt |-> IF proc[a] = "sent" THEN "lost" ELSE proc[a]]
  BY DEF DisposeEnd, Crash, ProcessEnds
<1>2. Settling /\ crossed' \subseteq Launched
  BY <1>1 DEF Settling, Occupied, TrackInv, LaunchInv
<1>3. \A o \in settled : Of(o) \in Attempt
  BY DEF TypeOK, TaskTypeOK, Object, Of, Attempt
<1>4. MemCoherent'
  BY <1>1, <1>2, <1>3 DEF TrackInv, MemCoherent, Coherent, Settling, Listed, taskVars
<1>5. CallInv'
  BY <1>1 DEF CallInv
<1> QED
  BY <1>1, <1>2, <1>4, <1>5, TrackStep DEF Filed

\* Reopening takes the session file, which is as coherent as memory was.
LEMMA TrackAttach ==
  ASSUME TypeOK, TypeOK', TrackInv, DownInv, Attach
  PROVE  TrackInv'
<1>1. /\ UNCHANGED <<call, proc, tries, crossed>> /\ Filed /\ phase = "down"
      /\ ver' = durable.ver /\ nstat' = durable.nstat /\ att' = durable.att
      /\ orphans' = durable.orphans /\ settled' = durable.settled
      /\ status' \in {None, "complete"} => durable.status \in {None, "complete"}
  BY CheckpointFiles DEF Attach, None
<1>2. Settling /\ Occupied' = Occupied /\ crossed' \subseteq Launched
  BY <1>1, Still
<1>3. MemCoherent'
  BY <1>1, <1>2 DEF TrackInv, DiskCoherent, MemCoherent, Coherent, Listed
<1>4. CallInv'
  BY <1>1 DEF CallInv, DownInv
<1> QED
  BY <1>1, <1>2, <1>3, <1>4, TrackStep

LEMMA DownStep ==
  ASSUME TypeOK, DownInv, [Next]_vars PROVE DownInv'
<1>1. phase = "down" /\ phase' = "down" => call' = call
  BY DEF Next, Owner, User, Background, Native, Session, vars, memVars, taskVars,
         Define, Dispatch, Reject, Admit, Finish, Current, Up, NewTask, Revise,
         ResumeNow, ResumeStart, ResumeEnd, ResumeFails, Resumable, Resumed, Stop, RefreshStart,
         SpawnReturns, SpawnAckCurrent, SpawnAckLate, SpawnRefused, SpawnUnknown, SpawnFails, SpawnFailed, SpawnStopped, StopReturns,
         RefreshStep, RefreshUnsettled, RefreshUnrecorded, RefreshSettle,
         NativeHandles, NativeLaunch, NativeRefuse, NativeEnd, NativeStep,
         CheckpointFails, Dispose, DisposeEnd, Crash, Attach
<1>2. phase # "down" /\ phase' = "down" => \A a \in Attempt : call'[a] = "idle"
  <2>1. ASSUME phase # "down", phase' = "down" PROVE ProcessEnds
    <3>1. CASE Owner
      <4>1. ASSUME NEW S, NEW changed, NEW e, Define(S, changed, e) PROVE FALSE
        BY <2>1, <4>1 DEF Define
      <4>2. ASSUME NEW S, NEW ok, Dispatch(S, ok) PROVE FALSE
        BY <2>1, <4>2 DEF Dispatch
      <4>3. ASSUME NEW n, Reject(n) \/ Admit(n) \/ Finish PROVE FALSE
        BY <2>1, <4>3 DEF Reject, Admit, Finish, memVars
      <4> QED
        BY <3>1, <4>1, <4>2, <4>3 DEF Owner
    <3>2. CASE User
      BY <2>1, <3>2 DEF User, NewTask, Revise, ResumeNow, Resumed, ResumeStart, Stop, memVars
    <3>3. CASE Background
      BY <2>1, <3>3 DEF Background, ResumeEnd, Resumed, ResumeFails, RefreshStart, SpawnReturns,
           SpawnAckCurrent, SpawnAckLate, SpawnRefused, SpawnUnknown, SpawnFails, SpawnFailed, SpawnStopped, StopReturns,
           RefreshStep, RefreshUnsettled, RefreshUnrecorded, RefreshSettle
    <3>4. CASE Native \/ UNCHANGED vars
      BY <2>1, <3>4 DEF Native, NativeHandles, NativeLaunch, NativeRefuse, NativeEnd, NativeStep,
           memVars, vars
    <3>5. CASE Session
      BY <2>1, <3>5 DEF Session, CheckpointFails, Dispose, DisposeEnd, Crash, Attach
    <3> QED
      BY <3>1, <3>2, <3>3, <3>4, <3>5 DEF Next
  <2> QED
    BY <2>1 DEF ProcessEnds
<1> QED
  BY <1>1, <1>2 DEF DownInv

LEMMA Tracking == ASSUME TaskLoopAssumption PROVE Spec => [](TrackInv /\ DownInv)
<1>1. Init => TrackInv /\ DownInv
  <2> SUFFICES ASSUME Init PROVE TrackInv /\ DownInv
    OBVIOUS
  <2>1. Occupied = {} /\ Launched = {}
    BY DEF Init, Occupied, Launched, Attempt
  <2>2. LaunchInv /\ CallInv /\ DownInv
    BY <2>1 DEF Init, LaunchInv, CallInv, DownInv
  <2>3. MemCoherent
    BY <2>1 DEF Init, MemCoherent, Coherent
  <2>4. DiskCoherent
    BY <2>1 DEF Init, Projection, DiskCoherent, Coherent
  <2> QED
    BY <2>2, <2>3, <2>4 DEF TrackInv
<1>2. TypeOK /\ TypeOK' /\ TrackInv /\ DownInv /\ [Next]_vars => TrackInv' /\ DownInv'
  <2> SUFFICES ASSUME TypeOK, TypeOK', TrackInv, DownInv, [Next]_vars PROVE TrackInv'
    BY DownStep
  <2> USE TaskLoopAssumption
  <2>1. CASE Owner
    <3>1. ASSUME NEW S \in SUBSET Node, NEW changed \in SUBSET S, NEW d \in GraphChoice,
                 Define(S, changed, [n \in Node |->
                   IF n \in changed \cup (S \ Present) THEN d[n] ELSE dep[n]])
          PROVE  TrackInv'
      <4> DEFINE e == [n \in Node |-> IF n \in changed \cup (S \ Present) THEN d[n] ELSE dep[n]]
      <4>1. e \in Graph
        BY DEF TypeOK, TaskTypeOK, Graph, TaskLoopAssumption
      <4> QED
        BY <3>1, <4>1, TrackDefine
    <3> QED
      BY <2>1, <3>1, TrackDispatch, TrackReject, TrackDecision DEF Owner
  <2>2. CASE User
    BY <2>2, TrackNewTask, TrackRevise, TrackResume, TrackStop DEF User
  <2>3. CASE Background
    BY <2>3, TrackResume, TrackRefresh, TrackSpawn DEF Background
  <2>4. CASE Native
    BY <2>4, TrackNative DEF Native
  <2>5. CASE Session
    BY <2>5, TrackResume, TrackStop, TrackProcess, TrackAttach DEF Session
  <2>6. CASE UNCHANGED vars
    BY <2>6, TrackResume
  <2> QED
    BY <2>1, <2>2, <2>3, <2>4, <2>5, <2>6 DEF Next
<1> QED
  BY <1>1, <1>2, TypeCorrect, PTL DEF Spec

\* What liveAttempts finds in these nodes, before it looks at the orphans.
Holding(stats, atts) ==
  {<<n, atts[n], 0>> : n \in {m \in Node : stats[m] \in ACTIVE /\ atts[m] # 0}}

LEMMA ListedFound ==
  ASSUME TaskLoopAssumption, NEW stats, NEW atts, NEW orphaned,
         NEW a \in Attempt, Listed(a, stats, atts, orphaned)
  PROVE  \E o \in orphaned \cup Holding(stats, atts) : Of(o) = a
<1>1. a[1] \in Node /\ a[2] # 0 /\ a = <<a[1], a[2]>>
  BY DEF Attempt
<1>2. CASE atts[a[1]] = a[2] /\ stats[a[1]] \in ACTIVE
  <2>1. <<a[1], atts[a[1]], 0>> \in Holding(stats, atts)
    BY <1>1, <1>2 DEF Holding
  <2>2. Of(<<a[1], atts[a[1]], 0>>) = <<a[1], atts[a[1]]>>
    BY DEF Of
  <2>3. <<a[1], atts[a[1]]>> = a
    BY <1>1, <1>2
  <2> QED
    BY <2>1, <2>2, <2>3
<1>3. CASE \E v \in 0 .. MaxVer : <<a[1], a[2], v>> \in orphaned
  BY <1>1, <1>3 DEF Of
<1> QED
  BY <1>2, <1>3 DEF Listed

LEMMA TrackedInMemory ==
  ASSUME TaskLoopAssumption, TrackInv
  PROVE  Occupied \subseteq Ids(LiveObjects)
<1> SUFFICES ASSUME NEW a \in Occupied PROVE a \in Ids(LiveObjects)
  OBVIOUS
<1>1. a \in Attempt /\ Listed(a, nstat, att, orphans) /\ \A o \in settled : Of(o) # a
  BY DEF Occupied, TrackInv, MemCoherent, Coherent
<1>2. \E o \in orphans \cup Held : Of(o) = a
  BY <1>1, ListedFound DEF Held, Holding
<1> QED
  BY <1>1, <1>2 DEF LiveObjects, Ids

\* A run that native holds or may still start is always in liveAttempts(): no
\* late acknowledgement, timeout, revision, redefinition, crash or reopening
\* loses it.
THEOREM RunsAreTracked == ASSUME TaskLoopAssumption PROVE Spec => []RunTracked
<1>1. TypeOK /\ TrackInv => RunTracked
  BY TrackedInMemory DEF RunTracked
<1> QED
  BY <1>1, TypeCorrect, Tracking, PTL

\* ... and in the session file, from which a reopened session finds it.
THEOREM RunsAreDurable == ASSUME TaskLoopAssumption PROVE Spec => []DurableTracked
<1>1. TrackInv => DurableTracked
  <2> DEFINE held == {<<n, durable.att[n], 0>> :
                        n \in {m \in Node : durable.nstat[m] \in ACTIVE /\ durable.att[m] # 0}}
  <2> SUFFICES ASSUME TrackInv, NEW a \in Occupied
               PROVE  a \in Ids((durable.orphans \cup held) \ durable.settled)
    BY DEF DurableTracked
  <2>1. /\ a \in Attempt /\ Listed(a, durable.nstat, durable.att, durable.orphans)
        /\ \A o \in durable.settled : Of(o) # a
    BY DEF Occupied, TrackInv, DiskCoherent, Coherent
  <2>2. \E o \in durable.orphans \cup Holding(durable.nstat, durable.att) : Of(o) = a
    BY <2>1, ListedFound
  <2>3. held = Holding(durable.nstat, durable.att)
    BY DEF Holding
  <2> HIDE DEF held
  <2> QED
    BY <2>1, <2>2, <2>3 DEF Ids
<1> QED
  BY <1>1, Tracking, PTL

\* finish() leaves no native run behind, and none appears until the next task.
THEOREM CompletionIsQuiet == ASSUME TaskLoopAssumption PROVE Spec => []CompleteIsQuiet
<1>1. TrackInv => CompleteIsQuiet
  BY DEF TrackInv, MemCoherent, Coherent, CompleteIsQuiet
<1> QED
  BY <1>1, Tracking, PTL

-----------------------------------------------------------------------------
(* Capacity *)

LEMMA ProcessSettles ==
  ASSUME TypeOK, Native \/ DisposeEnd \/ Crash PROVE Settling
<1>1. CASE Native
  <2>1. PICK a \in Attempt : NativeHandles(a) \/ NativeEnd(a)
    BY <1>1 DEF Native
  <2>2. /\ UNCHANGED <<tries, crossed>> /\ proc[a] \in {"sent", "live"}
        /\ \E s \in {"live", "refused", "ended"} : proc' = [proc EXCEPT ![a] = s]
    BY <2>1 DEF NativeHandles, NativeLaunch, NativeRefuse, NativeEnd, NativeStep, historyVars
  <2>3. proc \in [Attempt -> ProcState]
    BY DEF TypeOK, OutsideTypeOK
  <2> QED
    BY <2>2, <2>3 DEF Settling, Occupied
<1>2. CASE DisposeEnd \/ Crash
  <2>1. /\ UNCHANGED <<tries, crossed>>
        /\ proc' = [a \in Attempt |-> IF proc[a] = "sent" THEN "lost" ELSE proc[a]]
    BY <1>2 DEF DisposeEnd, Crash, ProcessEnds
  <2> QED
    BY <2>1 DEF Settling, Occupied
<1> QED
  BY <1>1, <1>2

\* Only dispatch adds to the runs that exist.
LEMMA OthersSettle ==
  ASSUME TypeOK, TrackInv, [Next]_vars,
         \A S \in SUBSET Node : \A ok \in SUBSET S : ~Dispatch(S, ok)
  PROVE  Settling
<1>1. ASSUME tries' = tries, proc' = proc, crossed \subseteq crossed' PROVE Settling
  BY <1>1 DEF Settling, Occupied
<1>2. CASE Owner
  <2>1. ASSUME NEW S, NEW changed, NEW e, Define(S, changed, e) PROVE Settling
    BY <1>1, <2>1 DEF Define
  <2>2. ASSUME NEW n, Reject(n) \/ Admit(n) \/ Finish PROVE Settling
    BY <1>1, <2>2 DEF Reject, Admit, Finish, historyVars
  <2> QED
    BY <1>2, <2>1, <2>2 DEF Owner
<1>3. CASE User
  BY <1>1, <1>3 DEF User, NewTask, Revise, ResumeNow, Resumed, ResumeStart, Stop, historyVars
<1>4. ASSUME NEW a \in Attempt, SpawnReturns(a) \/ StopReturns(a) PROVE Settling
  BY <1>1, <1>4 DEF SpawnReturns, SpawnAckCurrent, SpawnAckLate, SpawnRefused, SpawnUnknown, SpawnFails, SpawnFailed, SpawnStopped, StopReturns,
                    Crossed, historyVars
<1>5. ASSUME NEW o \in Object, RefreshStep(o) PROVE Settling
  BY <1>1, <1>5 DEF RefreshStep, RefreshUnsettled, RefreshUnrecorded, RefreshSettle, historyVars
<1>6. CASE ResumeEnd \/ ResumeFails \/ RefreshStart
  BY <1>1, <1>6 DEF ResumeEnd, Resumed, ResumeFails, RefreshStart, historyVars
<1>7. CASE Native \/ DisposeEnd \/ Crash
  BY <1>7, ProcessSettles
<1>9. CASE CheckpointFails \/ Dispose \/ Attach \/ UNCHANGED vars
  BY <1>1, <1>9 DEF CheckpointFails, Dispose, Attach, vars, historyVars
<1> QED
  BY <1>2, <1>3, <1>4, <1>5, <1>6, <1>7, <1>9 DEF Next, Background, Session

LEMMA AttemptsFinite ==
  ASSUME TaskLoopAssumption, NEW A \in SUBSET Attempt PROVE IsFiniteSet(A)
<1>1. IsFiniteSet(Node) /\ IsFiniteSet(1 .. MaxTry)
  BY FS_Interval DEF TaskLoopAssumption
<1> QED
  BY <1>1, FS_Product, FS_Subset DEF Attempt

LEMMA OccupiedAttempts == Occupied \subseteq Attempt /\ Occupied' \subseteq Attempt
BY DEF Occupied

\* What dispatch adds to a pool is at most what it counted.
LEMMA CapacityDispatch ==
  ASSUME TypeOK, TaskLoopAssumption, TrackInv, NEW S \in SUBSET Node, NEW ok \in SUBSET S,
         Dispatch(S, ok), NEW p \in PoolName
  PROVE  Cardinality({a \in Occupied' : Pool[a[1]] = p}) <= Cap[p]
<1> DEFINE counted == {a \in Ids(LiveObjects) : Pool[a[1]] = p}
           asked   == {n \in S : Pool[n] = p}
           after   == {a \in Occupied' : Pool[a[1]] = p}
           fresh   == {a \in after : a \notin Occupied}
           kept    == {a \in after : a \in Occupied}
           name    == [a \in fresh |-> a[1]]
<1>1. Cardinality(counted) + Cardinality(asked) <= Cap[p]
  BY DEF Dispatch
<1>2. counted \in SUBSET Attempt
  <2>1. LiveObjects \in SUBSET Object
    BY HelperTypes
  <2> QED
    BY <2>1, IdsType
<1>3. IsFiniteSet(counted) /\ Cardinality(counted) \in Nat
  BY <1>2, AttemptsFinite, FS_CardinalityType
<1>4. IsFiniteSet(asked) /\ Cardinality(asked) \in Nat
  BY FS_Subset, FS_CardinalityType DEF TaskLoopAssumption
<1>5. kept \subseteq counted
  BY TrackedInMemory
<1>6. ASSUME NEW a \in fresh
      PROVE  a \in Attempt /\ a[1] \in asked /\ a = <<a[1], att'[a[1]]>>
  <2>1. a \in Attempt /\ a \notin crossed' /\ proc'[a] \in {"sent", "live"} /\ Pool[a[1]] = p
    BY OccupiedAttempts DEF Occupied
  <2>2. crossed' = crossed /\ a \notin Occupied
    BY DEF Dispatch
  <2>3. proc'[a] # proc[a]
    BY <2>1, <2>2 DEF Occupied
  <2>4. a[1] \in ok /\ att'[a[1]] = a[2]
    BY <2>1, <2>3, Started DEF TrackInv
  <2> QED
    BY <2>1, <2>4 DEF Attempt
<1> HIDE DEF counted, asked, fresh, kept
<1>7. name \in Injection(fresh, asked)
  BY <1>6 DEF Injection, IsInjective
<1>8. IsFiniteSet(fresh) /\ Cardinality(fresh) <= Cardinality(asked)
  BY <1>4, <1>7, FS_Injection
<1>9. IsFiniteSet(kept) /\ Cardinality(kept) <= Cardinality(counted)
  BY <1>3, <1>5, FS_Subset
<1>10. /\ Cardinality(fresh) \in Nat /\ Cardinality(kept) \in Nat
       /\ Cardinality(fresh \cap kept) \in Nat
  <2>1. IsFiniteSet(fresh \cap kept)
    BY <1>8, FS_Subset
  <2> QED
    BY <1>8, <1>9, <2>1, FS_CardinalityType
<1>11. /\ Cardinality(fresh \cup kept)
            = Cardinality(fresh) + Cardinality(kept) - Cardinality(fresh \cap kept)
  BY <1>8, <1>9, FS_Union
<1>12. after = fresh \cup kept
  BY DEF fresh, kept
<1>13. Cap[p] \in Nat
  BY DEF TaskLoopAssumption
<1> HIDE DEF after
<1>14. Cardinality(after) <= Cap[p]
  BY <1>1, <1>3, <1>4, <1>8, <1>9, <1>10, <1>11, <1>12, <1>13
<1> QED
  BY <1>14 DEF after

LEMMA CapacityStep ==
  ASSUME TypeOK, TaskLoopAssumption, TrackInv, PoolCapacity, [Next]_vars
  PROVE  PoolCapacity'
<1>1. CASE \E S \in SUBSET Node : \E ok \in SUBSET S : Dispatch(S, ok)
  BY <1>1, CapacityDispatch DEF PoolCapacity
<1>2. CASE \A S \in SUBSET Node : \A ok \in SUBSET S : ~Dispatch(S, ok)
  <2>1. Occupied' \subseteq Occupied
    BY <1>2, OthersSettle DEF Settling
  <2>2. ASSUME NEW p \in PoolName
        PROVE  Cardinality({a \in Occupied' : Pool[a[1]] = p}) <= Cap[p]
    <3> DEFINE now == {a \in Occupied : Pool[a[1]] = p}
               next == {a \in Occupied' : Pool[a[1]] = p}
    <3>1. next \subseteq now /\ now \in SUBSET Attempt
      BY <2>1, OccupiedAttempts
    <3>2. IsFiniteSet(now) /\ Cardinality(now) <= Cap[p] /\ Cap[p] \in Nat
      BY <3>1, AttemptsFinite DEF PoolCapacity, TaskLoopAssumption
    <3> HIDE DEF now, next
    <3>3. IsFiniteSet(next) /\ Cardinality(next) <= Cardinality(now)
      BY <3>1, <3>2, FS_Subset
    <3>4. Cardinality(next) \in Nat /\ Cardinality(now) \in Nat
      BY <3>2, <3>3, FS_CardinalityType
    <3> QED
      BY <3>2, <3>3, <3>4 DEF next
  <2> QED
    BY <2>2 DEF PoolCapacity
<1> QED
  BY <1>1, <1>2

\* The configured concurrency bounds the native runs that exist, not only the
\* count that dispatch sees, whatever happens to acknowledgements and processes.
THEOREM CapacityHolds == ASSUME TaskLoopAssumption PROVE Spec => []PoolCapacity
<1>1. Init => PoolCapacity
  <2> SUFFICES ASSUME Init, NEW p \in PoolName
               PROVE  Cardinality({a \in Occupied : Pool[a[1]] = p}) <= Cap[p]
    BY DEF PoolCapacity
  <2>1. {a \in Occupied : Pool[a[1]] = p} = {}
    BY DEF Init, Occupied
  <2> QED
    BY <2>1, FS_EmptySet DEF TaskLoopAssumption
<1>2. TypeOK /\ TrackInv /\ PoolCapacity /\ [Next]_vars => PoolCapacity'
  BY CapacityStep
<1> QED
  BY <1>1, <1>2, TypeCorrect, Tracking, PTL DEF Spec

-----------------------------------------------------------------------------
(* TaskLoop implements Authority *)

AllResults == Results(nstat, att) \cup Results(durable.nstat, durable.att)

\* The step offers nothing that the state in memory did not offer.
NoOffer ==
  \A n \in Node : nstat'[n] \in Offered => nstat[n] \in Offered /\ att'[n] = att[n]

LEMMA ResultsShrink ==
  ASSUME TypeOK, TypeOK', Filed,
         NoOffer \/ (nstat' = durable.nstat /\ att' = durable.att)
  PROVE  AllResults' \subseteq AllResults
<1>1. Results(nstat', att') \subseteq AllResults
  BY DEF AllResults, Results, NoOffer, Offered
<1>2. AllResults' = Results(nstat', att') \cup Results(durable'.nstat, durable'.att)
  BY DEF AllResults, Results
<1>3. \/ durable' = durable
      \/ durable'.nstat = nstat' /\ durable'.att = att'
  BY FiledTracks
<1> QED
  BY <1>1, <1>2, <1>3 DEF AllResults

LEMMA AbstractClose ==
  ASSUME TypeOK, Settling, AllResults' \subseteq AllResults, UNCHANGED <<voided, status>>
  PROVE  Abstract!Next
<1> DEFINE C == Occupied \ Occupied'
<1>1. /\ C \in SUBSET Attempt /\ C \subseteq Abstract!IsOpen
  BY DEF Abstract!IsOpen, Lifecycle, Occupied
<1>2. Lifecycle' = [a \in Attempt |-> IF a \in C THEN "over" ELSE Lifecycle[a]]
  BY DEF Lifecycle, Settling, Occupied
<1>3. (Launched \ voided)' = Launched \ voided
  BY DEF Settling, Launched
<1>4. Abstract!Close(C)
  BY <1>1, <1>2, <1>3 DEF Abstract!Close, AllResults
<1> QED
  BY <1>1, <1>4 DEF Abstract!Next

LEMMA AbstractWithdraw ==
  ASSUME TypeOK, Settling, TrackInv', Occupied' = Occupied, voided \subseteq voided',
         AllResults' \subseteq AllResults
  PROVE  Abstract!Next
<1>1. Lifecycle' = Lifecycle
  BY DEF Lifecycle, Settling, Occupied
<1>2. (Launched \ voided)' \subseteq Launched \ voided
  BY DEF Settling, Launched
<1>3. status' = "complete" => Abstract!IsOpen = {}
  BY DEF TrackInv, MemCoherent, Coherent, Abstract!IsOpen, Lifecycle
<1>4. Abstract!Withdraw
  BY <1>1, <1>2, <1>3 DEF Abstract!Withdraw, AllResults
<1> QED
  BY <1>4 DEF Abstract!Next

LEMMA AbstractOpen ==
  ASSUME TypeOK, TypeOK', TaskLoopAssumption, TrackInv, TrackInv', FenceInv, PoolCapacity',
         NEW S \in SUBSET Node, NEW ok \in SUBSET S, Dispatch(S, ok)
  PROVE  Abstract!Next
<1> DEFINE new == Launched' \ Launched
<1>1. /\ UNCHANGED <<status, crossed, voided>> /\ status = "running"
      /\ \A n \in Node : nstat'[n] = IF n \in ok THEN "starting" ELSE nstat[n]
      /\ \A n \in Node : att'[n] = IF n \in ok THEN tries'[n] ELSE att[n]
  BY DEF Dispatch, Current, SetStat
<1>2. Launched \subseteq Launched' /\ new \in SUBSET Attempt
  <2>1. \A a \in Attempt : a \in Launched => a \in Launched'
    BY DispatchLaunches
  <2> QED
    BY <2>1 DEF Launched
<1>3. ASSUME NEW a \in Attempt
      PROVE  /\ a \in new => proc[a] = "none" /\ proc'[a] = "sent" /\ a \notin crossed
             /\ a \notin new => proc'[a] = proc[a]
  <2>1. a \in crossed => a \in Launched
    BY DEF TrackInv, LaunchInv
  <2>2. a \in new => proc[a] = "none"
    BY DEF TrackInv, LaunchInv
  <2>3. a \in new => proc'[a] # "none"
    BY DEF TrackInv, LaunchInv
  <2> QED
    BY <1>2, <2>1, <2>2, <2>3, Started DEF TrackInv
<1>4. Occupied' = Occupied \cup new
  BY <1>1, <1>2, <1>3 DEF Occupied
<1>5. Lifecycle' = [a \in Attempt |-> IF a \in new THEN "open" ELSE Lifecycle[a]]
  BY <1>1, <1>3 DEF Lifecycle, Occupied
<1>6. \A a \in new : Lifecycle[a] = "none"
  BY <1>2, <1>3 DEF Lifecycle
<1>7. AllResults' \subseteq AllResults
  <2>1. NoOffer
    BY <1>1 DEF NoOffer, Offered
  <2>2. Filed
    BY CheckpointFiles DEF Dispatch
  <2> QED
    BY <2>1, <2>2, ResultsShrink
<1>8. (Launched \ voided)' = (Launched \ voided) \cup new
  BY <1>1, <1>2 DEF FenceInv
<1>9. Abstract!Fits(Abstract!IsOpen \cup new)
  <2>1. Abstract!IsOpen = Occupied
    BY DEF Abstract!IsOpen, Lifecycle, Occupied
  <2>2. ASSUME NEW r \in Occupied'
        PROVE  Cardinality({s \in Occupied' : [a \in Attempt |-> Pool[a[1]]][s]
                                              = [a \in Attempt |-> Pool[a[1]]][r]})
                 <= Cap[[a \in Attempt |-> Pool[a[1]]][r]]
    <3>1. Occupied' \subseteq Attempt /\ Pool[r[1]] \in PoolName
      BY OccupiedAttempts DEF Attempt, TaskLoopAssumption
    <3>2. {s \in Occupied' : [a \in Attempt |-> Pool[a[1]]][s] = [a \in Attempt |-> Pool[a[1]]][r]}
            = {s \in Occupied' : Pool[s[1]] = Pool[r[1]]}
      BY <3>1
    <3> QED
      BY <3>1, <3>2 DEF PoolCapacity
  <2>3. ASSUME NEW T PROVE Abstract!Cardinality(T) = Cardinality(T)
    BY DEF Cardinality, Abstract!Cardinality
  <2> QED
    BY <1>4, <2>1, <2>2, <2>3 DEF Abstract!Fits
<1>10. CASE new = {}
  <2>1. Lifecycle' = Lifecycle /\ (Launched \ voided)' = Launched \ voided
    BY <1>5, <1>8, <1>10 DEF Lifecycle
  <2>2. Abstract!Withdraw
    BY <1>1, <1>7, <2>1 DEF Abstract!Withdraw, AllResults
  <2> QED
    BY <2>2 DEF Abstract!Next
<1>11. CASE new # {}
  <2>1. Abstract!Open(new)
    BY <1>1, <1>5, <1>6, <1>7, <1>8, <1>9, <1>11 DEF Abstract!Open, AllResults
  <2> QED
    BY <1>2, <2>1 DEF Abstract!Next
<1> QED
  BY <1>10, <1>11

LEMMA AbstractOffer ==
  ASSUME TypeOK, TypeOK', TaskLoopAssumption, TrackInv, TrackInv', FenceInv, VoidedIsStale, ResultInv,
         NEW o \in Object, NEW r \in {"returned", "rejected", "failed"}, RefreshSettle(o, r)
  PROVE  Abstract!Next
<1> DEFINE a == Of(o)
           n == a[1]
<1>1. /\ UNCHANGED <<status, att, proc, crossed, tries, voided, status>> /\ Filed
      /\ proc[a] = "ended" /\ a \in Attempt /\ n \in Node /\ a[2] # 0 /\ a = <<n, a[2]>>
      /\ nstat \in [Node -> Stat]
  BY CheckpointFiles DEF RefreshSettle, RefreshEnd, Filed, historyVars, Of, Object, Attempt,
                         TypeOK, TaskTypeOK
<1>2. Settling /\ Occupied' = Occupied
  BY <1>1, Still
<1>3. CASE NoOffer
  BY <1>1, <1>2, <1>3, ResultsShrink, AbstractWithdraw
<1>4. CASE ~NoOffer
  <2>1. ResultLive(a) /\ nstat' = [nstat EXCEPT ![n] = "returned"]
    BY <1>1, <1>4 DEF RefreshSettle, NoOffer, Offered
  <2>2. att[n] = a[2] /\ a \notin voided /\ a \in Launched
    BY <1>1, <2>1 DEF ResultLive, VoidedIsStale, ResultInv, Sound, Launched
  <2>3. Lifecycle[a] = "over" /\ Lifecycle' = Lifecycle
    BY <1>1, <1>2 DEF Lifecycle, Occupied
  <2>4. Results(nstat', att') \subseteq AllResults \cup {a} /\ a \in Results(nstat', att')
    BY <1>1, <2>1, <2>2 DEF Results, AllResults
  <2>5. AllResults' \subseteq AllResults \cup {a} /\ a \in AllResults'
    <3>1. AllResults' = Results(nstat', att') \cup Results(durable'.nstat, durable'.att)
      BY DEF AllResults, Results
    <3>2. \/ durable' = durable
          \/ durable'.nstat = nstat' /\ durable'.att = att'
      BY <1>1, FiledTracks
    <3> QED
      BY <2>4, <3>1, <3>2 DEF AllResults
  <2>6. (Launched \ voided)' = Launched \ voided
    BY <1>1 DEF Launched
  <2>7. Abstract!Offer(a)
    BY <1>1, <2>2, <2>3, <2>5, <2>6 DEF Abstract!Offer, AllResults
  <2> QED
    BY <1>1, <2>7 DEF Abstract!Next
<1> QED
  BY <1>3, <1>4

\* Steps that start and end no run.
LEMMA AbstractQuiet ==
  ASSUME TypeOK, TypeOK', TrackInv', FenceInv, Filed, UNCHANGED <<proc, crossed, tries>>,
         voided' = voided \/ VoidAll,
         NoOffer \/ (nstat' = durable.nstat /\ att' = durable.att)
  PROVE  Abstract!Next
<1>1. voided \subseteq voided'
  BY DEF VoidAll, FenceInv
<1> QED
  BY <1>1, ResultsShrink, Still, AbstractWithdraw

LEMMA AbstractOwner ==
  ASSUME TypeOK, TypeOK', TaskLoopAssumption, TrackInv, TrackInv', FenceInv, PoolCapacity', Owner
  PROVE  Abstract!Next
<1>1. ASSUME NEW S \in SUBSET Node, NEW changed \in SUBSET S, NEW e, Define(S, changed, e)
      PROVE  Abstract!Next
  <2> DEFINE bad   == IF changed = {} THEN {} ELSE Invalid(changed)
             stat1 == SetStat(bad, "stale")
             redo  == {n \in S : n \notin Present \/ n \in changed
                                 \/ stat1[n] \in {"stale", "failed", "rejected", "cancelled"}}
  <2>1. Cloned(known, bad) \in SUBSET Object
    BY HelperTypes DEF TypeOK, TaskTypeOK, Invalid
  <2>2. Filed /\ UNCHANGED <<proc, crossed, tries, voided>>
    BY <1>1, <2>1 DEF Define, Filed
  <2>3. ASSUME NEW n \in Node
        PROVE  /\ nstat'[n] = IF n \in redo THEN "pending" ELSE stat1[n]
               /\ att'[n] = IF n \in redo THEN 0 ELSE att[n]
               /\ stat1[n] = (IF n \in bad THEN "stale" ELSE nstat[n])
    BY <1>1 DEF Define, SetStat
  <2> HIDE DEF bad, redo, stat1
  <2>4. NoOffer
    BY <2>3 DEF NoOffer, Offered
  <2> QED
    BY <2>2, <2>4, AbstractQuiet
<1>2. ASSUME NEW n \in Node, Reject(n) PROVE Abstract!Next
  <2>1. Cloned(known, Invalid({n})) \in SUBSET Object
    BY HelperTypes DEF TypeOK, TaskTypeOK, Invalid
  <2>2. Filed /\ UNCHANGED <<proc, crossed, tries, voided, att>>
    BY <1>2, <2>1 DEF Reject, Filed
  <2>3. \A m \in Node : nstat'[m] = nstat[m] \/ nstat'[m] \in {"stale", "rejected"}
    BY <1>2 DEF Reject, SetStat
  <2>4. NoOffer
    BY <2>2, <2>3 DEF NoOffer, Offered
  <2> QED
    BY <2>2, <2>4, AbstractQuiet
<1>3. ASSUME NEW n \in Node, Admit(n) \/ Finish PROVE Abstract!Next
  <2>1. Filed /\ UNCHANGED <<proc, crossed, tries, voided, att>>
    BY <1>3, CheckpointFiles DEF Admit, Finish, historyVars
  <2>2. \A m \in Node : nstat'[m] = nstat[m] \/ (m = n /\ nstat[m] \in Offered)
    BY <1>3 DEF Admit, Finish, Offered, TypeOK, TaskTypeOK
  <2>3. NoOffer
    BY <2>1, <2>2 DEF NoOffer
  <2> QED
    BY <2>1, <2>3, AbstractQuiet
<1>4. CASE Finish
  <2>1. Filed /\ UNCHANGED <<proc, crossed, tries, voided, att, nstat>>
    BY <1>4, CheckpointFiles DEF Finish, historyVars
  <2> QED
    BY <2>1, AbstractQuiet DEF NoOffer
<1> QED
  BY <1>1, <1>2, <1>3, <1>4, AbstractOpen DEF Owner

LEMMA AbstractUser ==
  ASSUME TypeOK, TypeOK', TaskLoopAssumption, TrackInv', FenceInv,
         User \/ ResumeEnd \/ ResumeFails \/ RefreshStart
  PROVE  Abstract!Next
<1>1. CASE NewTask
  <2>1. /\ Filed /\ UNCHANGED <<proc, crossed, tries>> /\ VoidAll
        /\ \A n \in Node : nstat'[n] = None
    BY <1>1, CheckpointFiles DEF NewTask
  <2> QED
    BY <2>1, AbstractQuiet DEF NoOffer, Offered, None
<1>2. CASE Revise
  <2>1. Cloned(known, Present) \in SUBSET Object
    BY HelperTypes DEF TypeOK, TaskTypeOK, Present
  <2>2. Filed /\ UNCHANGED <<proc, crossed, tries, att>> /\ VoidAll
    BY <1>2, <2>1 DEF Revise, Filed
  <2>3. \A m \in Node : nstat'[m] = nstat[m] \/ nstat'[m] = "stale"
    BY <1>2 DEF Revise, SetStat
  <2> QED
    BY <2>2, <2>3, AbstractQuiet DEF NoOffer, Offered
<1>3. CASE Resumed \/ ResumeStart \/ ResumeFails \/ RefreshStart
  <2>1. UNCHANGED <<proc, crossed, tries, nstat, att>> /\ (voided' = voided \/ VoidAll)
    BY <1>3 DEF Resumed, ResumeStart, ResumeFails, RefreshStart, taskVars, historyVars
  <2>2. Filed
    BY <1>3, CheckpointFiles DEF Resumed, ResumeStart, ResumeFails, RefreshStart, RefreshEnd, Filed
  <2> QED
    BY <2>1, <2>2, AbstractQuiet DEF NoOffer
<1>4. CASE \E s \in Latched : Stop(s)
  <2>1. UNCHANGED <<proc, crossed, tries, nstat, att>> /\ (voided' = voided \/ VoidAll)
    BY <1>4 DEF Stop, Latch, VoidAll
  <2>2. Filed
    BY <1>4 DEF Stop, Filed, TypeOK, TaskTypeOK
  <2> QED
    BY <2>1, <2>2, AbstractQuiet DEF NoOffer
<1> QED
  BY <1>1, <1>2, <1>3, <1>4 DEF User, ResumeNow, ResumeEnd

LEMMA AbstractSpawn ==
  ASSUME TypeOK, TypeOK', TrackInv, TrackInv', FenceInv,
         NEW a \in Attempt, SpawnReturns(a) \/ StopReturns(a)
  PROVE  Abstract!Next
<1>1. /\ UNCHANGED <<status, att, voided, proc, tries>> /\ (Checkpoint \/ durable' = durable)
      /\ crossed \subseteq crossed'
      /\ \/ UNCHANGED nstat
         \/ \E s \in {"running", "cancelled", "unknown", "failed"} : nstat' = Written(a, s)
  BY DEF SpawnReturns, SpawnAckCurrent, SpawnAckLate, SpawnRefused, SpawnUnknown, SpawnFails, SpawnFailed, SpawnStopped, StopReturns,
         Crossed, historyVars
<1>2. \A n \in Node : nstat'[n] = nstat[n] \/ nstat'[n] \notin Offered
  BY <1>1 DEF Written, Offered, TypeOK, TaskTypeOK
<1>3. AllResults' \subseteq AllResults
  BY <1>1, <1>2, CheckpointFiles, ResultsShrink DEF NoOffer, Filed
<1>4. Settling
  BY <1>1 DEF Settling, Occupied
<1> QED
  BY <1>1, <1>3, <1>4, AbstractClose

LEMMA AbstractProcess ==
  ASSUME TypeOK, TypeOK', TrackInv, Native \/ DisposeEnd \/ Crash
  PROVE  Abstract!Next
<1>1. UNCHANGED <<status, voided, nstat, att, durable>>
  BY DEF Native, NativeHandles, NativeLaunch, NativeRefuse, NativeEnd, NativeStep,
         DisposeEnd, Crash, ProcessEnds, taskVars, historyVars
<1>2. AllResults' \subseteq AllResults
  BY <1>1 DEF AllResults, Results
<1> QED
  BY <1>1, <1>2, ProcessSettles, AbstractClose

LEMMA AbstractSession ==
  ASSUME TypeOK, TypeOK', TrackInv', FenceInv, CheckpointFails \/ Dispose \/ Attach \/ UNCHANGED vars
  PROVE  Abstract!Next
<1>1. UNCHANGED <<proc, crossed, tries>> /\ (voided' = voided \/ VoidAll)
  BY DEF CheckpointFails, Dispose, Latch, Attach, VoidAll, vars, historyVars
<1>2. Filed
  BY CheckpointFiles DEF CheckpointFails, Dispose, Attach, vars, Filed, TypeOK, TaskTypeOK
<1>3. UNCHANGED <<nstat, att>> \/ (nstat' = durable.nstat /\ att' = durable.att)
  BY DEF CheckpointFails, Dispose, Latch, Attach, vars, taskVars
<1> QED
  BY <1>1, <1>2, <1>3, AbstractQuiet DEF NoOffer

LEMMA AbstractRefresh ==
  ASSUME TypeOK, TypeOK', TrackInv', FenceInv,
         NEW o \in Object, RefreshUnsettled(o) \/ RefreshUnrecorded(o)
  PROVE  Abstract!Next
<1>1. UNCHANGED <<proc, crossed, tries, voided, nstat, att>>
  BY DEF RefreshUnsettled, RefreshUnrecorded, historyVars
<1>2. Filed
  BY CheckpointFiles DEF RefreshUnsettled, RefreshUnrecorded, RefreshEnd, Filed
<1> QED
  BY <1>1, <1>2, AbstractQuiet DEF NoOffer

\* The controller implements Authority: it opens runs within the pools, offers
\* only results of settled runs that still have the authority they were started
\* with, never gives authority back and completes only a quiet task, whatever
\* late acknowledgements, crashes, failing checkpoints and reopenings do.
THEOREM AuthorityIsKept == ASSUME TaskLoopAssumption PROVE Spec => Implements
<1>1. Init => Abstract!Init
  <2> SUFFICES ASSUME Init PROVE Abstract!Init
    OBVIOUS
  <2>1. Launched = {} /\ AllResults = {}
    BY DEF Init, Launched, Attempt, AllResults, Results, Projection, None
  <2>2. Lifecycle = [a \in Attempt |-> "none"] /\ status # "complete"
    BY DEF Init, Lifecycle, None
  <2> QED
    BY <2>1, <2>2 DEF Abstract!Init, AllResults
<1>2. ASSUME TypeOK, TypeOK', TrackInv, TrackInv', FenceInv, VoidedIsStale, ResultInv,
             PoolCapacity', [Next]_vars
      PROVE  Abstract!Next
  <2> USE TaskLoopAssumption
  <2>1. CASE Background
    BY <1>2, <2>1, AbstractUser, AbstractSpawn, AbstractRefresh, AbstractOffer
       DEF Background, RefreshStep
  <2>2. CASE Native \/ UNCHANGED vars \/ Session
    BY <1>2, <2>2, AbstractProcess, AbstractSession DEF Session
  <2> QED
    BY <1>2, <2>1, <2>2, AbstractOwner, AbstractUser DEF Next
<1>3. Abstract!Next => [Abstract!Next]_(Abstract!vars)
  OBVIOUS
<1> QED
  BY <1>1, <1>2, <1>3, TypeCorrect, Tracking, FenceInvariant, VoidedStaysStale, ResultInvariant,
     CapacityHolds, PTL DEF Spec, Implements, Abstract!Spec
=============================================================================
