------------------------------ MODULE TaskLoop ------------------------------
(***************************************************************************)
(* TaskController (src/src/controller.ts) over the TaskState of state.ts:  *)
(* authority (status, revision, generation), the node graph, the launch    *)
(* and settlement of native runs, and the session checkpoint.              *)
(*                                                                         *)
(* An asynchronous method is split where it awaits: every action is the    *)
(* code that runs between two awaits.  `stopped` is not a variable: every  *)
(* assignment of the code keeps stopped = (status # "running").            *)
(*                                                                         *)
(* An Attempt is a pair <<node, k>>, the k-th attempt made for the node    *)
(* (randomUUID in the code).  The code holds several copies of one         *)
(* attempt: the object made by startNode, kept in node.attempt and in the  *)
(* closure that awaits the spawn, and the structuredClones that            *)
(* invalidateDescendants pushes to orphanedRuns.  They learn the run id    *)
(* and the terminal time separately, so they are separate objects here:    *)
(* <<node, k, 0>> is the original, <<node, k, v>> the clone made when the  *)
(* contract of the node was at version v.                                  *)
(***************************************************************************)
EXTENDS TaskGraph

CONSTANTS
  PoolName,      \* "gemini" and "flash"
  Pool,          \* the pool of each node
  Cap,           \* cfg.concurrency
  FanOutPool,    \* "gemini"
  FirstFanOut,   \* least size of the first fan-out to that pool (10 in the code)
  GraphChoice,   \* dependency graphs the owner may declare
  StorageFaults, \* whether a checkpoint or an artifact write may fail
  DispatchFaults, \* whether startNode may throw before it has recorded its attempt
  MaxTask, MaxRev, MaxGen, MaxVer, MaxTry, MaxCrash   \* exploration bounds

ASSUME TaskLoopAssumption ==
  /\ Pool \in [Node -> PoolName]
  /\ Cap \in [PoolName -> Nat]
  /\ FanOutPool \in PoolName /\ FirstFanOut \in Nat
  /\ IsFiniteSet(Node)
  /\ GraphChoice \subseteq Graph
  /\ StorageFaults \in BOOLEAN /\ DispatchFaults \in BOOLEAN
  /\ MaxTask \in Nat /\ MaxRev \in Nat /\ MaxGen \in Nat
  /\ MaxVer \in Nat /\ MaxTry \in Nat /\ MaxCrash \in Nat

Attempt == Node \X (1 .. MaxTry)
Object  == Node \X (1 .. MaxTry) \X (0 .. MaxVer)
Of(o)   == <<o[1], o[2]>>          \* the attempt an object is a copy of
Orig(a) == <<a[1], a[2], 0>>       \* the object made by startNode

Latched    == {"paused", "blocked", "budget_exhausted", "cancelled"}
TaskStatus == {"running", "complete"} \cup Latched
NodeStatus == {"pending", "starting", "running", "returned", "admitted"} \cup Withdrawn
\* Mutant of ACTIVE: liveAttempts() forgets runs whose launch is unknown.
ActiveKnown == {"starting", "running"}
ACTIVE     == {"starting", "running", "unknown"}
None       == "none"               \* no task, or a node that does not exist

VARIABLES
  (* TaskState: what a checkpoint writes *)
  task,        \* ordinal of the task (state.id)
  rev, gen,    \* state.revision, state.generation
  status,      \* state.status
  dep,         \* node.dependsOn
  ver,         \* node.version, 0 when the node does not exist
  nstat,       \* node.status
  att,         \* number of the attempt in node.attempt, 0 when there is none
  adm,         \* nodes with an admission
  orphans,     \* state.orphanedRuns
  known,       \* objects whose runId is set
  dirless,     \* of those, the ones whose asyncDir is not: realpathSync of it threw
  settled,     \* objects whose terminalAt is set
  (* what only the process holds *)
  phase,       \* "up", "closing" (dispose awaits stopOwned), "down"
  failed,      \* journal.failed
  batch,       \* attempts awaited by the running dispatch: mutationBusy = batch # {}
  call,        \* stage of each spawn call: "idle", "pending", "stopping", "failing"
  detached,    \* attempts whose node object define or a new task replaced
  polled,      \* objects whose status the running refresh awaits: refreshing = polled # {}
  resuming,    \* generation at which the awaiting resume was asked, 0 for none
  (* disk, native side, history *)
  durable,     \* the last task entry of the session file
  proc,        \* native side of each attempt: none, sent, live, ended, refused, lost
  kill,        \* attempts that native was told to stop
  tries,       \* attempts made for each node
  info,        \* immutable fields of each attempt
  voided,      \* history: attempts made before the last stop, revision or reopening
  crashes,     \* history: crashes so far
  crossed      \* history: attempts whose status an earlier attempt's closure overwrote

taskVars   == <<task, rev, gen, status, dep, ver, nstat, att, adm, orphans, known, dirless, settled>>
memVars    == <<phase, failed, batch, call, detached, polled, resuming>>
historyVars == <<tries, info, voided, crashes, crossed>>
vars == <<taskVars, memVars, durable, proc, kill, historyVars>>

-----------------------------------------------------------------------------
(* Reading the state *)

Present  == {n \in Node : ver[n] # 0}
Launched == {a \in Attempt : a[2] <= tries[a[1]]}
Up       == phase # "down"
Current  == status = "running" /\ ~failed /\ Up     \* current() does not throw
Busy     == batch # {}

Held == {<<n, att[n], 0>> : n \in {m \in Node : nstat[m] \in ACTIVE /\ att[m] # 0}}

\* liveAttempts(), with every copy still unsettled; Ids counts an attempt once.
LiveOrphans == orphans \ settled
\* Mutant of LiveObjects: only the attempts that nodes hold.
LiveHeld == Held \ settled
LiveObjects == (orphans \cup Held) \ settled
Ids(objects) == {Of(o) : o \in objects}

\* The copy that survives the Map of liveAttempts: the last one listed.  Node
\* attempts come after orphans, and later clones after earlier ones.
Latest(objects) ==
  {o \in objects : \A p \in objects :
     Of(p) = Of(o) => p = o \/ o \in Held \/ (p \notin Held /\ p[3] < o[3])}

\* The fence of startNode, refreshAttempt and assertFence.
\* Mutant of Fresh: the fence compares the user revision, not the generation.
FreshRevision(a) ==
  status = "running" /\ info[a].task = task /\ info[a].rev = rev

Fresh(a) ==
  /\ status = "running"
  /\ info[a].task = task /\ info[a].rev = rev /\ info[a].gen = gen

InputsCurrent(a) == VersionsCurrent(ver, nstat, info[a].inputs)

\* ready(node)
Ready(n) ==
  /\ nstat[n] \in {"pending", "stale"}
  /\ \A m \in dep[n] : nstat[m] = "admitted" /\ m \in adm /\ InputsCurrent(<<m, att[m]>>)

\* buildCandidate over the dependencies of n does not throw.
Buildable(n) ==
  \A m \in Ancestors(dep, dep[n]) : nstat[m] = "admitted" /\ InputsCurrent(<<m, att[m]>>)

\* Mutant of Reconcilable: a lost acknowledgement is never looked up.
NotReconciled(objects) == {}

\* Native runs that left a status.json the controller can match by name.
Reconcilable(objects) == {o \in objects : proc[Of(o)] \in {"live", "ended"}}

-----------------------------------------------------------------------------
(* What the methods share *)

Projection ==
  [task |-> task, rev |-> rev, gen |-> gen, status |-> status, dep |-> dep, ver |-> ver,
   nstat |-> nstat, att |-> att, adm |-> adm, orphans |-> orphans, known |-> known,
   dirless |-> dirless, settled |-> settled]

\* journal.save, the known run ids being those of the moment it is called.  A
\* failed journal writes nothing.
\*   (Mutant: nothing is saved while a dispatch is in flight.)
CheckpointIdle(knownNow) ==
  durable' = IF failed \/ batch' # {} THEN durable ELSE [Projection' EXCEPT !.known = knownNow]
CheckpointWith(knownNow) ==
  durable' = IF failed THEN durable ELSE [Projection' EXCEPT !.known = knownNow]
Checkpoint == CheckpointWith(known')

\* stopOwned up to its first await: missing run ids are looked up in the native
\* directory, and every listed run with an id is told to stop.  No checkpoint.
StopRuns(objects, knownNow) ==
  LET found == knownNow \cup Reconcilable(objects)
  IN  /\ known' = found
      /\ kill' = kill \cup Ids(objects \cap found)

\* Nodes of S, on the existing nodes, whose active attempt is orphaned ...
\*   (Mutant: only of those whose launch was acknowledged.)
OrphaningRunning(S) == {n \in S : nstat[n] = "running" /\ att[n] # 0}
Orphaning(S) == {n \in S : nstat[n] \in ACTIVE /\ att[n] # 0}
\* ... and the clones pushed for them, with the flags copied from the original.
Clones(S) == {<<n, att[n], ver[n]>> : n \in Orphaning(S)}
Cloned(flags, S) ==
  flags \cup {<<n, att[n], ver[n]>> : n \in {m \in Orphaning(S) : <<m, att[m], 0>> \in flags}}

Invalid(S) == Descendants(dep, S) \cap Present
Bump(S) == [n \in Node |-> IF n \in S THEN ver[n] + 1 ELSE ver[n]]
SetStat(S, s) == [n \in Node |-> IF n \in S THEN s ELSE nstat[n]]

\* A status written by the closure of startNode reaches the graph unless its
\* node object was replaced.
Written(a, s) == IF a \in detached THEN nstat ELSE [nstat EXCEPT ![a[1]] = s]

\* When the node has meanwhile been dispatched again, that status is written over
\* the one of the newer attempt, which liveAttempts() then no longer lists.
Crossed(a, s) ==
  IF a \in detached \/ s \in ACTIVE \/ att[a[1]] \in {0, a[2]} THEN crossed
  ELSE crossed \cup {<<a[1], att[a[1]]>>}

\* No action of the controller lets a voided attempt regain authority.
VoidAll == voided' = Launched

-----------------------------------------------------------------------------
(* User input and the owner's graph *)

\* input() without a task to revise: newTask.
NewTask ==
  /\ phase = "up" /\ ~failed
  /\ status \in {None, "complete"} /\ task < MaxTask
  /\ task' = task + 1 /\ rev' = 1 /\ gen' = 1 /\ status' = "running"
  /\ dep' = [n \in Node |-> {}] /\ ver' = [n \in Node |-> 0]
  /\ nstat' = [n \in Node |-> None] /\ att' = [n \in Node |-> 0]
  /\ adm' = {} /\ orphans' = {}
  /\ detached' = detached \cup {a \in Attempt : call[a] # "idle"}
  /\ VoidAll
  /\ UNCHANGED <<known, dirless, settled, phase, failed, batch, call, polled, resuming,
                 proc, kill, tries, info, crashes, crossed>>
  /\ Checkpoint

\* input() on an existing task: a user revision.
Revise ==
  /\ phase = "up" /\ ~failed
  /\ status \notin {None, "complete"} /\ rev < MaxRev /\ gen < MaxGen
  /\ \A n \in Present : ver[n] < MaxVer
  /\ rev' = rev + 1 /\ gen' = gen + 1 /\ status' = "running"
  /\ ver' = Bump(Present) /\ nstat' = SetStat(Present, "stale") /\ adm' = {}
  /\ orphans' = orphans \cup Clones(Present)
  /\ settled' = Cloned(settled, Present) /\ dirless' = Cloned(dirless, Present)
  /\ StopRuns(orphans' \ settled', Cloned(known, Present))
  /\ VoidAll
  /\ UNCHANGED <<task, dep, att, phase, failed, batch, call, detached, polled, resuming,
                 proc, tries, info, crashes, crossed>>
  /\ CheckpointWith(Cloned(known, Present))

\* define(specs): S are the named nodes, changed those whose stored contract
\* differs, newDep the dependencies the contracts declare.
Define(S, changed, newDep) ==
  LET bad   == IF changed = {} THEN {} ELSE Invalid(changed)
      stat1 == SetStat(bad, "stale")
      ver1  == Bump(bad)
      redo  == {n \in S : n \notin Present \/ n \in changed
                          \/ stat1[n] \in {"stale", "failed", "rejected", "cancelled"}}
  IN
  /\ Current /\ phase = "up" /\ ~Busy
  /\ changed \subseteq Present
  /\ \A n \in Node : newDep[n] # dep[n] => n \in changed \cup (S \ Present)
  /\ \A n \in S : newDep[n] \subseteq Present \cup S
  /\ Acyclic(newDep)
  /\ redo # {} /\ \A n \in bad \cup redo : ver[n] < MaxVer
  /\ dep' = newDep
  /\ ver' = [n \in Node |-> IF n \in redo /\ n \notin changed /\ stat1[n] # "stale"
                            THEN ver1[n] + 1 ELSE ver1[n]]
  /\ nstat' = [n \in Node |-> IF n \in redo THEN "pending" ELSE stat1[n]]
  /\ att' = [n \in Node |-> IF n \in redo THEN 0 ELSE att[n]]
  /\ adm' = adm \ (bad \cup redo)
  /\ orphans' = orphans \cup Clones(bad)
  /\ settled' = Cloned(settled, bad) /\ dirless' = Cloned(dirless, bad)
  /\ detached' = detached \cup {a \in Attempt : call[a] # "idle" /\ a[1] \in redo}
  /\ StopRuns(orphans' \ settled', Cloned(known, bad))
  /\ UNCHANGED <<task, rev, gen, status, phase, failed, batch, call, polled, resuming,
                 proc, tries, info, voided, crashes, crossed>>
  /\ CheckpointWith(Cloned(known, bad))

\* reject(id): neither mutationBusy nor a new generation is involved.
Reject(n) ==
  LET bad == Invalid({n})
  IN
  /\ Current /\ phase = "up" /\ n \in Present
  /\ \A m \in bad : ver[m] < MaxVer
  /\ ver' = Bump(bad)
  /\ nstat' = [SetStat(bad, "stale") EXCEPT ![n] = "rejected"]
  /\ adm' = adm \ bad
  /\ orphans' = orphans \cup Clones(bad)
  /\ settled' = Cloned(settled, bad) /\ dirless' = Cloned(dirless, bad)
  /\ StopRuns(orphans' \ settled', Cloned(known, bad))
  /\ UNCHANGED <<task, rev, gen, status, dep, att, phase, failed, batch, call, detached,
                 polled, resuming, proc, tries, info, voided, crashes, crossed>>
  /\ CheckpointWith(Cloned(known, bad))

\* admit(id): the evidence it cites is the subject of another module.
Admit(n) ==
  /\ Current /\ phase = "up"
  /\ nstat[n] \in {"returned", "admitted"} /\ att[n] # 0 /\ <<n, att[n], 0>> \in settled
  /\ InputsCurrent(<<n, att[n]>>) /\ Buildable(n)
  /\ nstat' = [nstat EXCEPT ![n] = "admitted"] /\ adm' = adm \cup {n}
  /\ UNCHANGED <<task, rev, gen, status, dep, ver, att, orphans, known, dirless, settled, memVars,
                 proc, kill, historyVars>>
  /\ Checkpoint

\* finish(): the guards that concern running work.
Finish ==
  /\ Current /\ phase = "up" /\ ~Busy /\ LiveObjects = {}
  /\ status' = "complete"
  /\ UNCHANGED <<task, rev, gen, dep, ver, nstat, att, adm, orphans, known, dirless, settled, memVars,
                 proc, kill, historyVars>>
  /\ Checkpoint

-----------------------------------------------------------------------------
(* Launching *)

\* dispatch(ids).  Every startNode runs up to its spawn before dispatch awaits;
\* those outside ok throw before they record an attempt, which rejects the
\* Promise.all and clears mutationBusy while the others are still in flight.
Dispatch(S, ok) ==
  LET try     == [n \in Node |-> IF n \in ok THEN tries[n] + 1 ELSE tries[n]]
      started == {<<n, try[n]>> : n \in ok}
  IN
  /\ Current /\ phase = "up" /\ ~Busy /\ LiveOrphans = {}
  /\ S # {} /\ \A n \in S : Ready(n)
  /\ ok \subseteq {n \in S : Buildable(n) /\ tries[n] < MaxTry}
  /\ ok = S \/ DispatchFaults
  /\ \A p \in PoolName :
       Cardinality({a \in Ids(LiveObjects) : Pool[a[1]] = p})
         + Cardinality({n \in S : Pool[n] = p}) <= Cap[p]
  /\ \/ \E a \in Launched : info[a].task = task /\ Pool[a[1]] = FanOutPool
     \/ \A n \in S : Pool[n] # FanOutPool
     \/ Cardinality({n \in S : Pool[n] = FanOutPool}) >= FirstFanOut
  /\ tries' = try
  /\ att' = [n \in Node |-> IF n \in ok THEN try[n] ELSE att[n]]
  /\ nstat' = SetStat(ok, "starting") /\ adm' = adm \ ok
  /\ info' = [a \in Attempt |->
       IF a \notin started THEN info[a]
       ELSE [task |-> task, rev |-> rev, gen |-> gen, ver |-> ver[a[1]],
             inputs |-> [m \in Node |->
               IF m \in Ancestors(dep, dep[a[1]]) THEN ver[m] ELSE 0]]]
  /\ call' = [a \in Attempt |-> IF a \in started THEN "pending" ELSE call[a]]
  /\ proc' = [a \in Attempt |-> IF a \in started THEN "sent" ELSE proc[a]]
  /\ batch' = IF ok = S THEN started ELSE {}
  /\ UNCHANGED <<task, rev, gen, status, dep, ver, orphans, known, dirless, settled, phase, failed,
                 detached, polled, resuming, kill, voided, crashes, crossed>>
  /\ Checkpoint

\* Mutant of Returned: mutationBusy is not cleared when the spawns are done.
ReturnedBusy(a) == call' = [call EXCEPT ![a] = "idle"] /\ batch' = batch

Returned(a) ==   \* the closure of startNode ends
  /\ call' = [call EXCEPT ![a] = "idle"]
  /\ batch' = batch \ {a}

\* The spawn acknowledgement, the task being the one that launched it.
SpawnAckCurrent(a) ==
  /\ Up /\ call[a] = "pending" /\ proc[a] \in {"live", "ended"}
  /\ Fresh(a)
  /\ known' = known \cup {Orig(a)}
  /\ nstat' = Written(a, "running")
  /\ Returned(a)
  /\ UNCHANGED <<task, rev, gen, status, dep, ver, att, adm, orphans, dirless, settled, phase, failed,
                 detached, polled, resuming, proc, kill, historyVars>>
  /\ Checkpoint

\* The acknowledgement arrives after a stop, a revision or for another task:
\* the original is orphaned and native.stop awaited.
SpawnAckLate(a) ==
  /\ Up /\ call[a] = "pending" /\ proc[a] \in {"live", "ended"}
  /\ ~Fresh(a) /\ status # None
  /\ known' = known \cup {Orig(a)}
  /\ orphans' = orphans \cup {Orig(a)}
  /\ kill' = kill \cup {a}
  /\ call' = [call EXCEPT ![a] = "stopping"]
  /\ UNCHANGED <<task, rev, gen, status, dep, ver, nstat, att, adm, dirless, settled, phase, failed,
                 batch, detached, polled, resuming, durable, proc, historyVars>>

\* ... and when it answers the node is cancelled.
SpawnStopped(a) ==
  /\ Up /\ call[a] = "stopping"
  /\ nstat' = Written(a, "cancelled") /\ crossed' = Crossed(a, "cancelled")
  /\ Returned(a)
  /\ UNCHANGED <<task, rev, gen, status, dep, ver, att, adm, orphans, known, dirless, settled,
                 phase, failed, detached, polled, resuming, proc, kill, tries, info, voided,
                 crashes>>
  /\ Checkpoint

\* invalid_params: native proved that nothing was started.
SpawnRefused(a) ==
  /\ Up /\ call[a] = "pending" /\ proc[a] = "refused"
  /\ settled' = settled \cup {Orig(a)}
  /\ nstat' = Written(a, "failed") /\ crossed' = Crossed(a, "failed")
  /\ Returned(a)
  /\ UNCHANGED <<task, rev, gen, status, dep, ver, att, adm, orphans, known, dirless, phase, failed,
                 detached, polled, resuming, proc, kill, tries, info, voided, crashes>>
  /\ Checkpoint

\* Timeout or another error reply, the run id being unknown: the outcome of the
\* launch is unknown.
SpawnUnknown(a) ==
  /\ Up /\ call[a] = "pending" /\ Orig(a) \notin known
  /\ nstat' = Written(a, "unknown")
  /\ Returned(a)
  /\ UNCHANGED <<task, rev, gen, status, dep, ver, att, adm, orphans, known, dirless, settled,
                 phase, failed, detached, polled, resuming, proc, kill, historyVars>>
  /\ Checkpoint

\* The same for a run whose id is known: native.stop is awaited.  The poller had
\* found it before the error came; or the reply names a directory outside the
\* profile; or one that realpathSync cannot resolve, the run id being set but not
\* its directory; or the native.stop of a late acknowledgement failed.
SpawnFails(a, reply) ==
  /\ Up
  /\ \/ reply = "error" /\ call[a] = "pending" /\ Orig(a) \in known
     \/ reply \in {"outside", "unresolved"} /\ call[a] = "pending" /\ proc[a] \in {"live", "ended"}
     \/ reply = "unstopped" /\ call[a] = "stopping"
  /\ known' = known \cup {Orig(a)}
  /\ dirless' = IF reply = "unresolved" /\ Orig(a) \notin known THEN dirless \cup {Orig(a)}
                ELSE dirless
  /\ kill' = kill \cup {a}
  /\ nstat' = Written(a, "unknown")
  /\ call' = [call EXCEPT ![a] = "failing"]
  /\ UNCHANGED <<task, rev, gen, status, dep, ver, att, adm, orphans, settled, phase, failed,
                 batch, detached, polled, resuming, durable, proc, historyVars>>

\* ... and whatever native.stop answers, the failure is saved.
SpawnFailed(a) ==
  /\ Up /\ call[a] = "failing"
  /\ Returned(a)
  /\ UNCHANGED <<task, rev, gen, status, dep, ver, nstat, att, adm, orphans, known, dirless,
                 settled, phase, failed, detached, polled, resuming, proc, kill, historyVars>>
  /\ Checkpoint

-----------------------------------------------------------------------------
(* Native pi-subagents, as the code uses it *)

NativeStep(a, from, to) ==
  /\ proc[a] = from /\ proc' = [proc EXCEPT ![a] = to]
  /\ UNCHANGED <<taskVars, memVars, durable, kill, historyVars>>
NativeLaunch(a) == Up /\ NativeStep(a, "sent", "live")
NativeRefuse(a) == Up /\ NativeStep(a, "sent", "refused")
NativeEnd(a)    == NativeStep(a, "live", "ended")   \* its proof is on disk

-----------------------------------------------------------------------------
(* Settlement: the poller, native events and loop_wait all call refresh() *)

\* The end of refresh: terminal orphans are dropped and the projection saved.
RefreshEnd ==
  IF polled' = {}
    THEN orphans' = orphans \ settled' /\ Checkpoint
    ELSE UNCHANGED <<orphans, durable>>

\* refresh() up to its await: each live attempt without a run id is reconciled;
\* those with a run id and a directory wait for the native status.
RefreshStart ==
  /\ Up /\ ~failed /\ polled = {} /\ LiveObjects # {}
  /\ known' = known \cup Reconcilable(Latest(LiveObjects))
  /\ polled' = (Latest(LiveObjects) \cap known') \ dirless
  /\ settled' = settled
  /\ UNCHANGED <<task, rev, gen, status, dep, ver, nstat, att, adm, dirless, phase, failed, batch, call,
                 detached, resuming, proc, kill, historyVars>>
  /\ RefreshEnd

\* The run has no terminal proof yet.
RefreshUnsettled(o) ==
  /\ Up /\ o \in polled /\ proc[Of(o)] # "ended"
  /\ polled' = polled \ {o}
  /\ settled' = settled
  /\ UNCHANGED <<task, rev, gen, status, dep, ver, nstat, att, adm, known, dirless, phase, failed, batch,
                 call, detached, resuming, proc, kill, historyVars>>
  /\ RefreshEnd

\* `live` in refreshAttempt
\*   (Mutants: without the version of the contract, without the fence.)
ResultLiveUnversioned(a) == Fresh(a) /\ att[a[1]] = a[2] /\ InputsCurrent(a)
ResultLiveUnfenced(a) ==
  att[a[1]] = a[2] /\ ver[a[1]] = info[a].ver /\ InputsCurrent(a)
ResultLive(a) ==
  /\ Fresh(a)
  /\ att[a[1]] = a[2] /\ ver[a[1]] = info[a].ver /\ InputsCurrent(a)

\* The terminal proof is read: the attempt is settled, and its node decided
\* by the outcome of the run only if the attempt still has authority.
RefreshSettle(o, outcome) ==
  LET a == Of(o)
      n == a[1]
  IN
  /\ Up /\ o \in polled /\ proc[a] = "ended"
  /\ outcome \in {"returned", "rejected", "failed"}
  /\ polled' = polled \ {o}
  /\ settled' = settled \cup {o}
  /\ nstat' = IF ResultLive(a) THEN [nstat EXCEPT ![n] = outcome]
              ELSE IF att[n] = a[2] /\ nstat[n] \in ACTIVE
                THEN [nstat EXCEPT ![n] = "cancelled"]
                ELSE nstat
  /\ UNCHANGED <<task, rev, gen, status, dep, ver, att, adm, known, dirless, phase, failed, batch, call,
                 detached, resuming, proc, kill, historyVars>>
  /\ RefreshEnd

\* The proof cannot be stored as an artifact: terminalAt is already set, the
\* exception is swallowed by refresh(), and the node keeps its status.
RefreshUnrecorded(o) ==
  /\ StorageFaults /\ Up /\ o \in polled /\ proc[Of(o)] = "ended"
  /\ polled' = polled \ {o}
  /\ settled' = settled \cup {o}
  /\ UNCHANGED <<task, rev, gen, status, dep, ver, nstat, att, adm, known, dirless, phase, failed, batch,
                 call, detached, resuming, proc, kill, historyVars>>
  /\ RefreshEnd

-----------------------------------------------------------------------------
(* Authority: stop, resume, close, crash, reopen *)

\* latch(s) followed by stopOwned(): /loop-pause, /loop-cancel, loop_block, an
\* abort, the wall-clock deadline, a current() that finds the budget spent.
Latch(s) ==
  /\ status' = IF status \in {None, "complete"} THEN status ELSE s
  /\ gen' = IF status \in {None, "complete"} THEN gen ELSE gen + 1
  /\ voided' = IF status \in {None, "complete"} THEN voided ELSE Launched
  /\ StopRuns(LiveObjects, known)
  /\ UNCHANGED <<task, rev, dep, ver, nstat, att, adm, orphans, dirless, settled>>

Stop(s) ==
  /\ phase = "up" /\ status # None /\ gen < MaxGen
  /\ s \in Latched /\ (s = "budget_exhausted" => status = "running")
  /\ Latch(s)
  /\ UNCHANGED <<memVars, proc, tries, info, crashes, crossed>>
  /\ CheckpointWith(known)

Resumed ==
  /\ gen' = gen + 1 /\ status' = "running" /\ resuming' = 0
  /\ VoidAll
  /\ UNCHANGED <<task, rev, dep, ver, nstat, att, adm, orphans, known, dirless, settled, phase, failed,
                 batch, call, detached, polled, proc, kill, tries, info, crashes, crossed>>
  /\ Checkpoint

\* The guards of resume() before it awaits stopOwned().
Resumable ==
  /\ phase = "up" /\ ~failed /\ ~Busy /\ resuming = 0
  /\ status \notin {None, "complete"} /\ gen < MaxGen

\* Without a live attempt stopOwned() awaits nothing that lets another event in.
ResumeNow == Resumable /\ LiveObjects = {} /\ status # "budget_exhausted" /\ Resumed

\* resume() up to its await of stopOwned(), which waits only for runs it knows
\* and otherwise throws at once.
ResumeStart ==
  /\ Resumable /\ LiveObjects \cap (known \cup Reconcilable(LiveObjects)) # {}
  /\ resuming' = gen
  /\ StopRuns(LiveObjects, known)
  /\ UNCHANGED <<task, rev, gen, status, dep, ver, nstat, att, adm, orphans, dirless, settled, phase,
                 failed, batch, call, detached, polled, durable, proc, historyVars>>

\* stopOwned() found every run settled: only the budget is looked at again.
ResumeEnd ==
  /\ Up /\ resuming # 0 /\ LiveObjects = {} /\ status # "budget_exhausted" /\ gen < MaxGen
  /\ Resumed

\* NATIVE_SETTLEMENT_UNKNOWN after 35 s, or the budget was exhausted.
ResumeFails ==
  /\ Up /\ resuming # 0
  /\ LiveObjects # {} \/ status = "budget_exhausted"
  /\ resuming' = 0
  /\ UNCHANGED <<taskVars, phase, failed, batch, call, detached, polled, durable, proc, kill,
                 historyVars>>

\* dispose() up to its await.
Dispose ==
  /\ phase = "up" /\ gen < MaxGen
  /\ phase' = "closing"
  /\ Latch("paused")
  /\ UNCHANGED <<failed, batch, call, detached, polled, resuming, proc, tries, info, crashes, crossed>>
  /\ CheckpointWith(known)

\* A checkpoint throws: the journal latches the session.  What its caller had
\* assigned is never read again before the session is reopened, and is left out.
CheckpointFails ==
  /\ StorageFaults /\ Up /\ ~failed /\ status # None
  /\ failed' = TRUE /\ status' = "blocked" /\ gen' = gen + 1
  /\ kill' = kill \cup Ids(LiveObjects \cap known)
  /\ VoidAll
  /\ UNCHANGED <<task, rev, dep, ver, nstat, att, adm, orphans, known, dirless, settled, phase, batch,
                 call, detached, polled, resuming, durable, proc, tries, info, crashes, crossed>>

\* The process ends.  Requests native had not handled die with it; its child
\* processes do not.
ProcessEnds ==
  /\ phase' = "down" /\ failed' = FALSE
  /\ batch' = {} /\ detached' = {} /\ polled' = {} /\ resuming' = 0
  /\ call' = [a \in Attempt |-> "idle"]
  /\ proc' = [a \in Attempt |-> IF proc[a] = "sent" THEN "lost" ELSE proc[a]]
  /\ UNCHANGED <<taskVars, durable, kill, tries, info, voided, crossed>>
DisposeEnd == phase = "closing" /\ ProcessEnds /\ UNCHANGED crashes
Crash == Up /\ crashes < MaxCrash /\ crashes' = crashes + 1 /\ ProcessEnds

\* attach(): journal.restore() and the checkpoint that follows it.
Attach ==
  /\ phase = "down"
  /\ phase' = "up"
  /\ task' = durable.task /\ rev' = durable.rev
  /\ status' = IF durable.status = "running" THEN "paused" ELSE durable.status
  /\ gen' = IF durable.status = "running" THEN durable.gen + 1 ELSE durable.gen
  /\ dep' = durable.dep /\ ver' = durable.ver /\ nstat' = durable.nstat
  /\ att' = durable.att /\ adm' = durable.adm
  /\ orphans' = durable.orphans /\ known' = durable.known
  /\ dirless' = durable.dirless /\ settled' = durable.settled
  /\ VoidAll
  /\ UNCHANGED <<failed, batch, call, detached, polled, resuming, proc, kill, tries, info, crashes, crossed>>
  /\ Checkpoint

-----------------------------------------------------------------------------
NoInfo == [task |-> 0, rev |-> 0, gen |-> 0, ver |-> 0, inputs |-> [m \in Node |-> 0]]

Init ==
  /\ task = 0 /\ rev = 0 /\ gen = 0 /\ status = None
  /\ dep = [n \in Node |-> {}] /\ ver = [n \in Node |-> 0]
  /\ nstat = [n \in Node |-> None] /\ att = [n \in Node |-> 0]
  /\ adm = {} /\ orphans = {} /\ known = {} /\ dirless = {} /\ settled = {}
  /\ phase = "up" /\ failed = FALSE /\ batch = {} /\ call = [a \in Attempt |-> "idle"]
  /\ detached = {} /\ polled = {} /\ resuming = 0
  /\ durable = Projection
  /\ proc = [a \in Attempt |-> "none"] /\ kill = {}
  /\ tries = [n \in Node |-> 0] /\ info = [a \in Attempt |-> NoInfo]
  /\ voided = {} /\ crashes = 0 /\ crossed = {}

SpawnReturns(a) ==
  \/ SpawnAckCurrent(a) \/ SpawnAckLate(a) \/ SpawnRefused(a) \/ SpawnUnknown(a)
  \/ \E reply \in {"error", "outside", "unresolved"} : SpawnFails(a, reply)
\* The answer of an awaited native.stop.
StopReturns(a) == SpawnStopped(a) \/ SpawnFails(a, "unstopped") \/ SpawnFailed(a)
NativeHandles(a) == NativeLaunch(a) \/ NativeRefuse(a)
RefreshStep(o) ==
  \/ RefreshUnsettled(o) \/ RefreshUnrecorded(o)
  \/ \E r \in {"returned", "rejected", "failed"} : RefreshSettle(o, r)

Owner ==
  \/ \E S \in SUBSET Node : \E changed \in SUBSET S : \E d \in GraphChoice :
       Define(S, changed, [n \in Node |-> IF n \in changed \cup (S \ Present) THEN d[n] ELSE dep[n]])
  \/ \E S \in SUBSET Node : \E ok \in SUBSET S : Dispatch(S, ok)
  \/ \E n \in Node : Reject(n) \/ Admit(n)
  \/ Finish
User == NewTask \/ Revise \/ ResumeNow \/ ResumeStart \/ \E s \in Latched : Stop(s)
Background ==
  \/ ResumeEnd \/ ResumeFails \/ RefreshStart
  \/ \E a \in Attempt : SpawnReturns(a) \/ StopReturns(a)
  \/ \E o \in Object : RefreshStep(o)
Native == \E a \in Attempt : NativeHandles(a) \/ NativeEnd(a)
Session == CheckpointFails \/ Dispose \/ DisposeEnd \/ Crash \/ Attach

Next == Owner \/ User \/ Background \/ Native \/ Session
Spec == Init /\ [][Next]_vars

-----------------------------------------------------------------------------
(* Properties *)

ProcState == {"none", "sent", "live", "ended", "refused", "lost"}
Stat == NodeStatus \cup {None}
Saved ==
  [task : Nat, rev : Nat, gen : Nat, status : TaskStatus \cup {None}, dep : Graph,
   ver : [Node -> 0 .. MaxVer], nstat : [Node -> Stat], att : [Node -> 0 .. MaxTry],
   adm : SUBSET Node, orphans : SUBSET Object, known : SUBSET Object, dirless : SUBSET Object,
   settled : SUBSET Object]
AttemptInfo ==
  [task : Nat, rev : Nat, gen : Nat, ver : 0 .. MaxVer, inputs : [Node -> 0 .. MaxVer]]

TaskTypeOK ==
  /\ task \in Nat /\ rev \in Nat /\ gen \in Nat /\ status \in TaskStatus \cup {None}
  /\ dep \in Graph /\ ver \in [Node -> 0 .. MaxVer] /\ nstat \in [Node -> Stat]
  /\ att \in [Node -> 0 .. MaxTry] /\ adm \in SUBSET Node
  /\ orphans \in SUBSET Object /\ known \in SUBSET Object
  /\ dirless \in SUBSET Object /\ settled \in SUBSET Object
MemTypeOK ==
  /\ phase \in {"up", "closing", "down"} /\ failed \in BOOLEAN
  /\ batch \in SUBSET Attempt /\ detached \in SUBSET Attempt
  /\ call \in [Attempt -> {"idle", "pending", "stopping", "failing"}]
  /\ polled \in SUBSET Object /\ resuming \in Nat
OutsideTypeOK ==
  /\ proc \in [Attempt -> ProcState] /\ kill \in SUBSET Attempt
  /\ tries \in [Node -> 0 .. MaxTry] /\ info \in [Attempt -> AttemptInfo]
  /\ voided \in SUBSET Attempt /\ crashes \in Nat /\ crossed \in SUBSET Attempt

\* Every variable has its type; versions, attempts and clones stay in bounds.
TypeOK == TaskTypeOK /\ MemTypeOK /\ OutsideTypeOK /\ durable \in Saved

\* The runs that native holds or may still start, but for those lost by the one
\* race that Crossed describes (see the claim EveryRunTracked below).
Occupied == {a \in Attempt \ crossed : proc[a] \in {"sent", "live"}}

\* Such a run is always in liveAttempts(): no late acknowledgement, timeout,
\* revision or redefinition loses it.
RunTracked == Up => Occupied \subseteq Ids(LiveObjects)

\* The same of the session file: whatever happens to the process, reopening
\* the session finds every run that was started (the intent is written first).
DurableTracked ==
  LET held == {<<n, durable.att[n], 0>> :
                 n \in {m \in Node : durable.nstat[m] \in ACTIVE /\ durable.att[m] # 0}}
  IN  Occupied \subseteq Ids((durable.orphans \cup held) \ durable.settled)

\* The configured concurrency bounds the native runs that exist, across lost
\* acknowledgements, revisions, crashes and resumes, not only the count that
\* dispatch sees.
PoolCapacity ==
  \A p \in PoolName : Cardinality({a \in Occupied : Pool[a[1]] = p}) <= Cap[p]

\* A result that is offered or admitted was produced for the present revision
\* and contract of its node.
ResultCurrent ==
  \A n \in Node : nstat[n] \in {"returned", "admitted"} =>
    LET a == <<n, att[n]>>
    IN  att[n] # 0 /\ info[a].task = task /\ info[a].rev = rev /\ info[a].ver = ver[n]

\* A completed task has no native run left.
CompleteIsQuiet == status = "complete" => Occupied = {}

\* An attempt made before a stop, a revision, a new task or a reopening has
\* lost the fence that gives its callbacks authority.
VoidedIsStale == \A a \in voided : ~Fresh(a)

\* "Cancellation, user revisions and session replacement invalidate old
\* callbacks": no result of such an attempt becomes a returned node.
NoVoidedResult ==
  [][\A n \in Node : Up /\ nstat[n] # "returned" /\ nstat'[n] = "returned"
       => <<n, att[n]>> \notin voided]_vars

\* Fairness.  spawn is answered or times out after 60 s, native.stop likewise,
\* a child has a time limit (timeoutMs), the poller calls refresh every 1.5 s
\* while an attempt is live, and a status query times out after 10 s.  Users,
\* the owner, crashes and session replacement owe nothing.
Fairness ==
  /\ \A a \in Attempt : /\ WF_vars(SpawnReturns(a)) /\ WF_vars(StopReturns(a))
                        /\ WF_vars(NativeEnd(a))
  /\ WF_vars(RefreshStart)
  /\ \A o \in Object : WF_vars(RefreshStep(o))
FairSpec == Spec /\ Fairness

\* Every run that native started is settled while the session stays open, also
\* when its acknowledgement was lost and when its node was invalidated: the
\* capacity it holds comes back, unless its directory could not be resolved (see
\* the claim CapacityReturns below).
EveryRunSettles ==
  \A a \in Attempt :
    proc[a] = "live" ~> (\/ a \notin Ids(LiveObjects) \/ a \in Ids(LiveObjects \cap dirless)
                         \/ phase # "up" \/ failed)

\* dispatch always returns: mutationBusy is never left set.
DispatchReturns == Busy ~> ~Busy

-----------------------------------------------------------------------------
(* Claims of the repository that the code does not keep (see the README) *)

\* "Capacity is retained": no run whatever leaves liveAttempts() before it is
\* settled.  It does when a dispatch fails in part, the node of a started run is
\* revised and dispatched again, and only then native.stop of that run answers.
EveryRunTracked ==
  Up => \A a \in Attempt : proc[a] \in {"sent", "live"} => a \in Ids(LiveObjects)

\* "Task cancelled; late results cannot revive it": a resume takes effect only
\* on the stopped state in which it was asked for.
ResumeHonoursStop ==
  [][Up /\ resuming # 0 /\ status # "running" /\ status' = "running" /\ rev' = rev
       => resuming = gen]_vars

\* No text states it, but stopOwned and dispatch wait for it: the run that settles
\* in any case.  One whose directory could not be resolved has a run id, so it is
\* not looked up, and no directory, so it is not polled: it holds its capacity, and
\* every resume that waits for it fails, for as long as the task lives.
CapacityReturns ==
  \A a \in Attempt : proc[a] = "live" ~> (a \notin Ids(LiveObjects) \/ phase # "up" \/ failed)

\* "A proved rejection is different from an acknowledgement timeout with an
\* unknown outcome": a spawn that native refused holds no capacity.
RefusedHoldsNothing ==
  \A a \in Attempt : Up /\ proc[a] = "refused" /\ Orig(a) \in settled => a \notin Ids(LiveObjects)
=============================================================================
