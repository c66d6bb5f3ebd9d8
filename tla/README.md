# Formal model of pi-agent-loop

pi-agent-loop lets one owner model split a task into a graph of bounded
contracts, runs each contract as a native child agent, and accepts a result only
on evidence that is current. Its core, `src/src/controller.ts`, is a single
object whose asynchronous methods interleave with each other, with native
events, with the user and with the life of the process. Around it are a session
runtime with a Python kernel, a profile directory shared by processes, and a
desktop application (`src/desktop`) with a Rust host that owns agent processes,
schedules automations and keeps checkpoints of the working tree. This directory
holds TLA+ modules of these parts, TLC configurations that check them, and TLAPS
proofs of their safety.

## Inventory

| part | state it keeps | operations | interacts with | hard behaviour | what makes it correct |
|---|---|---|---|---|---|
| Task graph (`state.ts`) | nodes, dependencies, versions | `topological`, `versionsCurrent`, `invalidateDescendants` | every method of the controller | closure under dependency, copies of attempts | a version names one content; invalidation reaches every dependent |
| TaskController, authority (`controller.ts`) | status, revision, generation, `stopped`, `disposed` | `input`, `latch`, `stop`, `block`, `resume`, `dispose`, deadline | session, journal, native | stop while something awaits, resume over a stop | old callbacks have no authority |
| TaskController, dispatch and settlement | attempts, `orphanedRuns`, `mutationBusy`, `refreshing` | `dispatch`, `startNode`, `refresh`, `stopOwned`, `reconcileUnacknowledged` | native RPC, journal | lost, late and refused acknowledgements, settlement after redefinition | every run stays tracked, capacity holds, every run settles |
| TaskController, evidence | observations, admissions, stage, reviews, counterexamples | `readObservation`, `check`, `admit`, `reject`, `stage`, `select`, `review`, `counterexample`, `finish` | verification, artifacts | state read before an await and used after it | what is delivered was checked and reviewed as delivered |
| TaskJournal (`state.ts`) | the last task entry of the session file, `failed` | `save`, `restore` | session file | failing save, crash, reopening | intent is written before the launch; a failure latches |
| NativeClient, pi-subagents (external) | pending requests; child runs | `spawn`, `stop`, status | event bus, files | timeouts with unknown outcome, runs that outlive the process | a timeout is not taken for a refusal |
| Verification (`verification.ts`) | copies, receipts | `verifyCandidate`, `environmentIdentity` | sandbox, artifacts | abort, changed environment or input | a pass speaks of unchanged input |
| Candidates and source (`workspace.ts`) | clones, patches, the user's tree | `importWorkspace`, `applyToSource` | git, the user | concurrent writers of the source | the snapshot existed; no write of the user is overwritten |
| Artifacts (`artifacts.ts`) | content-addressed files | `put`, `path` | file system | crash inside a write | no reference before its bytes |
| Runtime (`runtime.ts`) | owner lease, `inputDepth`, binding | `openLoop`, prompt/steer/followUp, abort | lock file, session | stale lease, concurrent input | one owner; each user input is one revision |
| Python accelerator (`python.ts`) | engine, epoch, busy | `execute`, `reset`, `dispose` | kernel process | reset during start, hanging kernel | a result is never attributed to another kernel |
| Loop extension (`extensions/loop.ts`), CLI (`cli.ts`) | none of their own | tools, commands, delivery | controller, lease | tool calls in parallel, delivery beside a session | only the controller's guards decide |
| Desktop composer (`sendQueue.ts`, `useSendQueue.ts`, `useComposer.ts`) | per-session queues, hold, the send in flight | enqueue, flush, `executeSend`, migrate, open, delete | host by calls and events | copies of host state, awaits between claim and send | no follow-up doubled, lost, misdirected, overtaken |
| Desktop session manager (`session_manager.rs`) | focus, background, parked processes | connect, park, evict, disconnect, `send_message` | agent processes, interface | several locks, awaits inside connect, deaths | one slot per process, the limit |
| Desktop automations (`automation_*.rs`, `store.rs`, `store_lock.rs`) | list, ledger, claim files | tick, claim, run, mark, settle, reconcile | two processes, files | read-modify-write without a lock, restarts | the ledger tells the truth, once |
| Desktop checkpoints (`checkpoints.rs`, `operation_journal.rs`) | records, refs, operations | capture, preview, revert, reconcile, collect | git, agent, user | threads nobody waits for, failing steps | records have refs, the journal tells what happened |
| Sandbox, child contract, io, configuration, scripts | none | path checks, argument lists | - | none with protocol state | - |
| Other panels (`App.tsx`, `ResourceViewer.tsx`, settings, i18n, API wrappers), bundled runtimes | - | rendering | - | - | - |

`PROJECT.json` lists the same parts with their status, and under "hazards" what
is hard to test in this code, each at its line.

## Modules

| module | what it models | instances | proofs |
|---|---|---|---|
| `TaskGraph` | graphs, their closures, acyclicity, current versions | - | used by the next two |
| `TaskLoop` | the controller's authority, dispatch, settlement, checkpoints, process life | `MCTaskLoop` | `TaskLoop_proofs` |
| `Authority`, `TaskLoopRefinement` | the abstract promise of the loop, and the mapping from TaskLoop to it | `MCTaskLoop` | `TaskLoop_proofs` |
| `Acceptance` | from a returned result to a delivered one | `MCAcceptance` | `Acceptance_proofs` |
| `Session` | user messages on their way to the controller, and the Python kernel they discard | `MCSession` | `Session_proofs` |
| `Workspace` | import of the source and application of a patch, file by file against a writer | `MCWorkspace` | `Workspace_proofs` |
| `Profile` | owner lease, artifacts, a session's journal and deliveries between processes | `MCProfile` | `Profile_proofs` |
| `Composer` | queues, the send in flight and the view, against the host | `MCComposer` | `Composer_proofs` |
| `AgentPool` | the slots of the agent processes | `MCAgentPool` | `Host_proofs` |
| `Automations` | list, ledger, claims and runners of two processes | `MCAutomations` | `Automations_proofs` |
| `Checkpoints` | captures, reverts and the journal of operations of one chat | `MCCheckpoints` | `Host_proofs` |

The loops of the code are written as least closed sets, folds or quantifiers, so
that no proof needs induction over a recursive operator. A method that awaits is
cut at its awaits: each action is the code between two of them. All `Max...`
constants are bounds of the exploration and named as such. Operators marked
"Mutant" are not part of the specifications: they are plausible bugs of the
definition they stand beside, and `PROJECT.json` names for each property the one
that breaks it.

### TaskLoop

`startNode` is `Dispatch` up to the spawn and one of `SpawnAckCurrent`,
`SpawnAckLate` (then `SpawnStopped`), `SpawnRefused`, `SpawnUnknown` and
`SpawnFails` (then `SpawnFailed`, when `native.stop` has answered) after it.
`refresh` is `RefreshStart`, one `RefreshUnsettled`, `RefreshSettle` or
`RefreshUnrecorded` for each attempt, and `RefreshEnd` inside the last.
`resume` is `ResumeNow`, or `ResumeStart` and `ResumeEnd` or `ResumeFails`.

The variables are the fields of `TaskState` (what a checkpoint writes), the
fields only the process holds (`phase`, `failed`, `batch`, `call`, `detached`,
`polled`, `resuming`), the last saved task entry (`durable`), the native side
(`proc`, `kill`), and history (`tries`, `info`, `voided`, `crossed`, `crashes`).
Points that need care:

* An attempt exists in several copies. `invalidateDescendants` pushes a
  `structuredClone` into `orphanedRuns`; the closure that awaits the spawn keeps
  the original. A copy learns its run id and terminal time by itself, so copies
  are separate objects `<<node, attempt, version>>`.
* A reply sets the run id before its directory is resolved
  (`controller.ts:334`). An attempt for which `realpathSync` throws is in
  `dirless`: it has a run id, so `reconcileUnacknowledged` leaves it alone (414),
  and no directory, so `refreshAttempt` does (433). Nothing settles it.
* `define` replaces the node object. What the closure writes to the old object
  afterwards reaches nobody: those attempts are in `detached`.
* `stopped` equals `status # "running"` after every assignment and is no
  variable.
* `Promise.all` rejects early. `Dispatch(S, ok)` with `ok # S` leaves the spawns
  of `ok` in flight with `mutationBusy` cleared.
* A failing checkpoint (`CheckpointFails`) may happen whenever one could; what
  its caller had assigned to memory is never read again and is left out. After
  it nothing is written until the session is reopened.
* `dispose` and replacing the session are `Dispose` and `DisposeEnd`; `Crash`
  is the end of the process at any point. In both, requests that native had not
  yet handled are lost, while child processes go on.
* `crossed` records the attempts lost by the one race described under
  "Claims the code does not keep" (`EveryRunTracked`). `RunTracked`,
  `CompleteIsQuiet`, `PoolCapacity` and `Implements` speak of all others.

`Authority` is what an observer of the native side and the session may rely on:
runs are opened within the capacity of their pool and never while the task is
complete, a run that is over never runs again, results are offered only of runs
that are over and whose authority was never taken away, and a complete task has
no open run. `TaskLoopRefinement` maps a run to "open" from the recorded intent
until native ends, refuses or loses it; both the state in memory and the one in
the session file offer results, since a reopened session would offer the latter.

### Acceptance

Candidates are version maps: the tree hash the code compares as well is a
function of the origin and of the node versions. `check` is `CheckStart` and
`CheckEnd` or `CheckThrows`; `review` and `select` are `ReviewStart` and
`SelectStart` up to the await of `define`, then `Bind` or `BindFails`. A node
that was launched is `running` until it settles; how runs settle is TaskLoop's
subject. Where data is left out the model allows more than the code: patch
conflicts, alternative groups, a changed origin and malformed reports only
refuse steps. `loop_define` admits inspect and patch contracts only, and so does
the model. `StageCoherent` speaks of the inspect and patch nodes of a stage. A
staged review node is not covered: reviews have no dependents that reject would
reach, and the claim is false for it (the proof attempt showed this; one stage
is too few for TLC to meet it).

### Session

The wrapped prompt, steer and followUp with `inputDepth`, the abort of a prompt,
attachment and shutdown, whose two handlers run one after the other, each
awaited: that of `installPython` disposes of the engine while messages are still
taken (`ShutdownPython`), then that of the loop latches and disposes of the
engine a cell may have made since (`Shutdown`, `ShutdownEnds`); and `execute`
from its first check to its finally, with the import and start of the engine,
the boot timer, the deadline, the hard kill, `reset` and `dispose`. The engine
of pi-repl-py and the routing of a prompt by the agent are external. Messages
and kernels are numbers in the order they are given and made.

### Workspace and Profile

In Workspace every reading and writing of a tree goes file by file, and the user
writes in between; a file's content covers its absence and mode, the commit at
HEAD is one more path that no patch touches, and every write of the user is a
new content. `importWorkspace` and `applyToSource` read twice; git starts after
the second reading and checks each file as it writes it.

In Profile processes open a session (`openLoop`), apply its delivery
(`deliveryOperation`), crash and are blocked by synchronous git commands. The
lease is stale after 60 s without its 10 s renewal, and a command may take
120 s: `slipped` records that a lease was outlasted, and `OneOwner`,
`AppliedIsCurrent` and `AcceptedOnce` are claimed while it has not been. Release
removes the lock, whoever made it, as proper-lockfile does. Power loss and
swallowed fsync failures are outside: an entry is in the file or the save fails.

### Composer and AgentPool

In Composer the interface works on copies of host state (`live`, the last
snapshot received, and `shown`, that of the viewed session), and a call to the
host is three steps: issued, executed, answered. Effort and project are no part
of the state: a connect to the focused session may find it ready as asked
(`ConnectWarm`) or replace its process because they differ (`ConnectCold`).
State events are delivered in order, but independently of answers. A message is
a number, the order in which it was composed. `asked` marks queued messages that
went through the budget dialog, which does double them (`OnePlace` excludes
those).

AgentPool cuts connect at its awaits and lets every event of every process come
between. Each slot has a lock of its own; that another thread comes between two
of them inside one step is left out. `Relock` says what locking `inner` while
holding it does: "blocks", which is what the mutex used does, and "granted",
which adds the behaviours the code was meant to have, so that the properties are
checked beyond the block.

### Automations

The list (`automations.json`) is updated by `Load` and `Save`: only the write is
under the lock. A ledger row is written under a mutex of the process, so updates
are single steps except `finish`, which is split where the two processes may
meet on one run (`FinishRead`, `FinishAppend`; `ReconcileRead`,
`ReconcileAppend`). Time is a slot number, which decides what is due, and a
counter of time stamps. The claim of an automation is the lock of the file a
runner opened, which need not be the one that lies at the path by then.

A session of the desktop keeps its active run (`active_automation_run_id`) until
one of its turns is settled. Which turns are depends on how they end: an error,
a stop and the end of the agent always; a turn that ends well in the background;
and of those in focus only one without a tool call, because the settlement hangs
on `empty_run` (`session_manager.rs:2286`, also 2364, 2394, 2485, and 705-730).
A turn cut by a disconnect, a soft respawn or recycling is not. So the end of
the turn of a run is either `Settle` or `TurnEnds`, which leaves the row as it
is, and `OtherTurn` lets any later turn of the session, one of the user's own
too, settle the run that was left active; also in the session of a run of the
daemon, which the daemon attaches and never settles there. An error of a prompt
goes to the session in focus by then, so `OtherTurn` may fail a run whose own
turn goes on. Nothing is fair about any of it.

Settlements of two runs at once are serialised, and no other thread comes
between the two locks of one settlement (`session_manager.rs:2286-2291`);
failing writes of the ledger, the mock stream, the sweep of pull requests and
the missed-run dialog are not modelled, and one automation is instantiated. A
run left in flight by a restart within ten minutes stays so until a later
restart. The rule for busy chats of `automations.md:47-48` is not in the Rust
scheduler and so not in the model.

### Checkpoints

One chat. The capture before a turn runs while `send_message` waits, the one
after it on a thread nobody waits for; the commands of the interface run one at
a time. A tree is captured atomically, contents are unique, patches are
file-level (0 is the absent file), and a step may fail anywhere. `git apply`
checks the whole patch first and then replaces the files one after the other: it
refuses or fails before it touches one (`PatchRefused`), replaces all
(`ApplyPatch`), or fails or is killed when some are replaced or removed and
others not (`PatchBreaks`); a file cut off in the middle counts as removed. The
code cannot tell the first and the last apart and records both as failed.
`undone` remembers what each revert overwrote and which files it left (`rest`).
After a patch that broke off, the safety checkpoint has its ref and stays
"capturing", so that the program's own revert does not take it back: the bytes
are there (`SafetyHolds`), the command for them is not. A git process that goes
on after the program has ended, and writes of others inside git's own write, are
left out here (Workspace models the latter for git's application of a delivery).
A start reconciles the stores, and so does a second launch of the program.
Cancelling a preview changes nothing and is not an action; restores of single
files and the migration of old stores are not modelled, nor is
`cleanup_all_refs`: its one caller, `reset_app_data` (`support_bundle.rs:619`),
deletes all refs first and the stores after them, so a reset that is cut off in
between leaves listed checkpoints without refs.

## Runs

| run | instance and bounds | checks |
|---|---|---|
| `TaskLoop_safety` | two nodes, flat or chained, pools of one slot, dispatch and storage faults; 2 revisions, 3 generations, 2 versions, 2 attempts, 1 crash, in three scenarios | `RunTracked`, `DurableTracked`, `PoolCapacity`, `CompleteIsQuiet`, `ResultCurrent`, `VoidedIsStale`, `NoVoidedResult`, `Implements` |
| `TaskLoop_live` | one node, two tasks, 2 generations, 2 versions, 2 attempts; fair | `EveryRunSettles`, `DispatchReturns` |
| `TaskLoop_resume` | one node, one attempt, 4 generations | `ResumeHonoursStop`, violated |
| `Acceptance_deliver` | two patches, a selection, a review, an owner's counterexample; 2 revisions, 2 generations, 2 versions, 2 observations, in three scenarios | `StageCoherent`, `DeliveredChecked`, `DeliveredReviewed`, `OneAttemptPerVersion` |
| `Session_revise` | 2 messages, 3 kernels, 7 resets; fair | `RecordedOnce`, `RestartReported`, `RevisionIsolated`, `CellsEnd` |
| `Workspace_source` | 3 files, a patch of 2, 3 writes of the user, 1 crash | `ImportIsSnapshot`, `AppliedOntoImported`, `EditsKept`, `RecordedIsApplied` |
| `Profile_lease` | 3 processes, 3 tasks of which two deliver the same bytes, 5 entries, 1 application, 2 crashes | `OneOwner`, `AppliedIsCurrent`, `AcceptedOnce`, `RefsWhole` |
| `Composer_queue` | 2 sessions, 3 messages, queues of 2, 2 moves of user or processes, messages and moves at most 3 together, 1 state event under way | `OnePlace`, `QueuedKept`, `OwnSession`, `FollowUpsInOrder` |
| `AgentPool_slots` | 3 sessions, 4 processes, a limit of 2 | `OneSlot`, `HeldCap`, `DeadLeave` |
| `Automations_ledger` | one daily automation, scheduler with daemon or with Run now, one run with any turns of its session and any reconciliation, or 2 runs with their own turns; one end of a process | `CompletedIsTrue`, `SettledOnce` |
| `Automations_live` | one automation that runs once, scheduler and daemon, 2 runs, one edit or one end of a process; fair | `CaughtUp`, `DaemonRunsEnd` |
| `Checkpoints_safety` | 2 files (git may break off between them), one turn with two reverts and one fault, or two turns with two faults; 2 edits, 1 start | `RefsKept`, `JournalTells`, `SafetyHolds` |

What the bounds must allow. TaskLoop: two versions make a stale attempt, two
attempts a relaunch while the former run lives, three generations a crash, a
reopening and a resume, two nodes a dependency and an unrelated neighbour; a
pool of one slot is full at once, which is where capacity can fail. Acceptance:
two versions make a retry, two generations an admission that outlives a resume,
two observations a node check and a stage check. Session: a second message comes
while the first's prompt or kernel is at any stage; three kernels are one lost,
one reset and one new. Workspace: one file outside the patch and two inside, so
that readings and git can be half done. Profile: an owner, one that takes its
lease, and one that delivers. Composer: queues of two overflow with the third
message, and a move may fall between any two steps of a send. AgentPool: three
sessions and a limit of two force eviction, the fourth process is one that must
be replaced. Automations: two runs can be of the same slot; in the live run the
second is the one that a scheduler makes of a row whose mark was lost or that
was read before the other's claim, and `CaughtUp` lets a run beyond the bound be
outstanding and nothing else. Checkpoints: two files are one that is replaced
and one that is not; a second revert of the same turn, a second turn beside the
capture of the first.

Six runs carry a state constraint (`Scenarios`, `OneFault`): a disjunction of
situations, written out in the MC modules, that divides an instance too large to
explore as one. In `Automations_live`, the only live one of them, edits, the ten
minutes of a reconciliation and turns of the user in the daemon's session go
with one run, and the end and restart of a process with one run or two: where a
second run begins after one of the former, TLC stops following that behaviour.
It bounds what TLC explores and nothing else; the proofs, where there are
proofs, hold without it. `FirstFanOut` is 1 in the instances (10 in the code)
and `Choices` is 1 (2 in the code): their size only delays the first step.
Symmetry is used only in runs without temporal properties.

`TypeOK` (`CPTypeOK` in Checkpoints) is checked by the proofs and not by the runs.

Deadlock is not checked: in every module the system really may stop (a completed
task, an idle session, no user and nothing due), and the bounds end every
behaviour.

### Claims the code does not keep

`TaskLoop_resume` is a run of its own, and the finding: `resume()` awaits
`stopOwned()` and then re-reads only the budget, so a cancel issued meanwhile is
undone, although the user was told that late results cannot revive the task.

The other claims are definitions of the modules, below or beside the properties
that hold. Adding one as an INVARIANT, or `CapacityReturns` and `BusyEnds` as a
PROPERTY, to the cfg named shows the violation, most within seconds.

| definition | cfg | what happens | the claim |
|---|---|---|---|
| `EveryRunTracked` | `TaskLoop_safety` | A dispatch fails in part (`controller.ts:370-377`). A late acknowledgement awaits `native.stop` (333-335); meanwhile its clone and original settle and the node is dispatched again; `node.status = "cancelled"` (337) then hides the new attempt from `liveAttempts`. | `stopOwned`: "capacity is retained; no new dispatch or silent replay is allowed" |
| `CapacityReturns` | `TaskLoop_live` | A run whose directory `realpathSync` cannot resolve (334) has a run id and no directory: it is neither looked up (414) nor polled (433), holds its capacity for ever, and every later resume that waits for it fails. | `stopOwned` and `dispatch` wait for it |
| `RefusedHoldsNothing` | `TaskLoop_safety` | A refused spawn settles the original attempt (346) but not the clone an invalidation made; the clone has no run id and blocks dispatch and resume for the rest of the task. | `controller.ts:344-345` |
| `SentToTarget` | `Composer_queue` | `send_message` checks the focus before its awaits and takes whatever session is in focus after them (`session_manager.rs:3593`). | `session_manager.rs:3518-3520` |
| `StreamsOn` | `AgentPool_slots` | `try_park_live` counts the processes under the guard of `inner`, which the count locks again (1010); the mutex is not reentrant, so leaving a busy session blocks the host. | `session_manager.rs:1005` |
| `NoDoubleFire` | `Automations_ledger` | The desktop scheduler does not read the row again under its claim (`automation_scheduler.rs:36`). | `automations.md:58-59` |
| `OneScheduler` | `Automations_ledger` | The lock file is removed after it is unlocked (`store_lock.rs:37`); the next process locks a new one. | `store_lock.rs:25` |
| `FailureIsShown` | `Automations_ledger` | The outcome is dated at the start of the run and loses against the mark of its own dispatch (`store.rs:1277`). | `store.rs:1261-1262` |
| `InterruptedIsOver` | `Automations_ledger` | `reconcile_stale` judges by age only and ends a long run of the living daemon. | `automation_ledger.rs:274-275` |
| `RunsEnd` | `Automations_ledger` | A turn that ends well in focus after a tool call is not settled (`session_manager.rs:2286`): its run stays dispatched. | `automations.md`: a run "moves through started → dispatched → completed / failed / interrupted / cancelled" |
| `CompletedByItsTurn` | `Automations_ledger` | The run left active is completed by a later turn of its session, also when its own turn was cut or died with the process. | the comment of `settle_automation_run` (1420-1422) |
| `OffIsKept` | `Automations_live` | A mark that has loaded the list before the user's edit writes it back. | `store_lock.rs:4-5` |
| `TurnKeepsCheckpoint` | `Checkpoints_safety` | A second launch reconciles the stores before the single-instance check and ends the capture of a running turn (`lib.rs:109`). | `lib.rs:119` |
| `AfterIsOfTurn` | `Checkpoints_safety` | The snapshot after a turn may contain writes of the next (`checkpoints.rs:681`). | `checkpoints.rs:1` |
| `FailedChangesNothing` | `Checkpoints_safety` | git breaks off when some files are taken back; the revert is recorded as failed over the partly reverted tree (`checkpoints.rs:846-855`). | `CHECKPOINT_REVERT_FAILED`, where "uncertain" exists |
| `BusyEnds` | `Session_revise` | An import of the engine module that hangs leaves `busy` set, since no timer covers it (`python.ts:66`); so does a failed write of a cell's files (41). | "wait for the current cell before issuing another" (`python.ts`) |
| `ContentAddressed` | `Profile_lease` | A process that ends inside `put` leaves a file that is not what it is named for. | `artifacts.ts:15` |

Also in the models, with no property to claim: an attempt whose intent was saved
and whose request was never handled holds its capacity for ever; a terminal run
whose proof could not be stored leaves its node active; a failed write of a
cell's files refuses all later cells; a disconnect during the handshake leaks
the process just opened; a prompt that fails marks the session in focus, not its
own; a failed safety capture leaves its operation pending; a command that
outlasts the lease gives the profile two owners.

## Fairness

Fairness is weak everywhere and stated only of what a timer or a running process
brings about.

* TaskLoop: the return of a spawn (answer, refusal or the 60 s timeout of
  `NativeClient.request`), the return of `native.stop` (the same timeout), the
  end of a native run (each has `timeoutMs`), `RefreshStart` (the poller runs
  every 1.5 s while an attempt is live) and each refresh step (a status query
  times out after 10 s). That native handles a request is not assumed: its
  timeout is enough.
* Session: the boot timer fires, a start in a running engine
  returns, a cell in a killed engine throws, the deadline aborts, the hard kill
  follows, disposal ends. That an import, a start or a cell ever returns by itself
  is not assumed; no timer covers the import, and `CellsEnd` begins after it.
* Automations: the steps of a running process (the scheduler's timer, the lock's
  polling, file writes), the end of a turn of the daemon (its timers), the update
  of the list that a settlement has begun, reconciliation at a start. Turns of the
  desktop, their settlement, the user, the passing of time, ends and starts of
  processes and failing steps owe nothing.

The owner, the user, crashes and session replacement are never fair. Acceptance,
Workspace, Profile, Composer, AgentPool and Checkpoints claim no liveness:
nothing obliges anybody to finish.

## Proofs

The theorems hold for every value of the constants that satisfies the named
assumption of the module (`TaskLoopAssumption` and so on: the bounds are natural
numbers, sets that are counted are finite, the absent value is none of the
values). Every safety invariant and action property of a passing run is a
theorem. AgentPool and Checkpoints, the two stateful parts of the Rust host, share
`Host_proofs`; they have no variable in common, and the names both would have
used carry the prefix CP in Checkpoints.

**TaskLoop.** `TypeOK` is inductive by itself (`TypeCorrect`). `VoidedIsStale`
(`VoidedStaysStale`, `VoidedNeverReturns`) is not: `resume` sets the status to
running again and reopening takes the generation from disk. `FenceInv` adds that
voided attempts were launched, that no attempt carries a generation above the
present one or above the saved one, and that, while the task runs, voided
attempts of this task are strictly below it. The step that carries the argument
is `Attach`: the saved generation bounds every attempt because the intent is
saved before the launch, and restore adds one. `ResultInv` (`ResultsAreCurrent`)
states the property of the saved entry as well, since a crash may put it back in
memory, and that an attempt number names the attempt of its node.

The same module proves the four properties about runs and the refinement.
`TrackInv` states the same coherence twice, of the memory and of the session
file: a run marked terminal is over, every run that may execute is the attempt
of its node or an orphan, and a task that is complete or absent has none; plus
what an open call knows (`CallInv`, `LaunchInv`), and `DownInv`, that no call is
open when the process is down. `CapacityHolds` counts: `Dispatch` admits only
what fits beside the live attempts, and these include every run by `TrackInv`.
`AuthorityIsKept` is `Spec => Implements`: initial states map to initial states,
every step maps to a step of Authority or leaves it unchanged, one lemma for
each group of actions, from the invariants above. The first attempt at
`RunTracked` failed at the acknowledgement that returns after its node was
launched again; TLC then confirmed the behaviour, which is `EveryRunTracked`
above, and `crossed` was introduced to name it.

**Acceptance.** The invariant has eight parts: the graph (`GraphInv`), a version
that waits for an attempt has had none (`OnceInv`, from which
`VersionsHaveOneAttempt` follows), a bound node is what its attempt was made of
(`BoundInv`), levels are backed by observations of these versions (`LevelInv`),
the stage (`StageInv`), and the identities of checks, reviews and the delivery
(`IdInv`, `ReviewInv`, `DoneInv`). `DeliveryIsChecked` and `DeliveryIsReviewed`
hold because every step that changes a version clears what names it.

**Session.** `IInv` counts the prompts under way by `inputDepth`, keeps the log
below what was given, and relates the cell to the engine: a cell that was not
reset runs in the accelerator's engine, and no engine is made while a cell
starts or runs. The three theorems follow.

**Workspace.** The two readings are tied by `Moment`: for what was read twice
alike there is one tree the source had, because a content that has been
overwritten never comes back (`OldInv`). This is where the model's uniqueness of
contents is used. The theorems say that the import is a snapshot, that git
starts from it, that only a write during git's own write of that file is lost,
and that an application is recorded only over a source that has all of it.

**Profile.** `LastInv` and `WholeInv` give `ReferencesAreWhole` with any number
of owners. As long as no lease was outlasted, `OneInv` holds: who lives holds a
fresh lease, what a process works with is the last task entry, and entries only
go forward. `OneOwnerPerProfile`, `TheCurrentIsApplied` and `AcceptanceIsFinal`
follow.

**AgentPool.** The invariant is stated over slots given as arguments, so that a
connect can be followed through the parking it begins with: the process of a
slot is in no other, a connect in flight agrees with what it has taken out, and
the dead are in a slot only while their exit is unhandled. `TheLimitHolds` counts
by finite sets.

**Automations.** `TypeInv` types updates and ledger entries under way and shows
that a runner without a file always finds one (`NewIsFile`, by counting).
`EndsInv`, with `RestInv` (a process that does not run has no job), is what
`CompletionIsTrue` and `FirstEndStays` need: a run belongs to one runner, the
daemon goes on to "completed" only after a turn that ended well, and the row an
update has read may be out of date only for runs of the daemon, where it is
still right about success and about having ended; a run completed by another
turn of its session is one whose own turn the invariant has seen end or that has
such a turn in `after`. Proving it found that two arms
of the definition of `AfterMark` overlapped, which made its value depend on
their order; the code's order is now written out.

**Composer.** Most of the 36 actions do not touch a message. `StepMoves` says
what a step does to them: nothing, or one of eleven moves (a send goes on or
puts its message back, asks, is taken, ends; a message is written, queued,
claimed, removed; queues are dropped; the dialog closes or starts its send). It
needs `CallInv`, that a connect answers ready only for a session. The other
parts are preserved move by move. `LedgerInv` says what a send knows of its
message: the queue it was claimed from, and that no queued message is submitted
for a session other than its own (`NothingAstray`). `LineInv` puts all places of
a session in one line, what was accepted before what is in flight before what
waits, any two of them apart and in the order of writing; claiming the head and
putting it back at the front, also of a queue that overflows, keep it, and
migration does because what waits in the draft was written for no session. It
gives `NothingTwice` and `NothingOvertakes`. Messages that a confirmed dialog sends
while they are in their queue again are excepted (`asked`), and `AskedInv` says
that a message that was never queued waits in the dialog only. `KeptInv` gives
`NothingLost`.

**Checkpoints.** None of the three invariants is inductive. `StatusInv` is the
first addition: a checkpoint is open while a step of a capture may still write
its record, and an open one is neither ready nor reverted, nor the target of the
revert or of the collection under way; no step opens a checkpoint again.
`SnapshotsAreFinal` follows, an action property that no run lists: a ready
checkpoint keeps its snapshots until it is collected, although captures run on
threads nobody waits for. With `RefInv`, that a snapshot on its way to a record
has its ref, and that the target of a revert keeps both of its own, it gives
`RefsAreKept`: what the collection drops belongs to records that are gone and to
no capture. `JournalInv` says where the command on the main thread stands:
before the patch its overwrite is not remembered and its operation is pending
or, after a second launch, uncertain; after it the overwrite is remembered, and
the files it left are none on the way to completed or uncertain and some, or
all, on the way to failed (`TheJournalTells`). `SafetyIsHeld` is the deepest:
the revert checks the tree before the safety capture and git checks it again at
the patch, and nobody holds the tree in between. `PastInv` says that whatever a
snapshot holds was written before it, so a file that is as the turn left it when
git looks was not written since the safety capture, and `SafetyInv` says that
capture has seen it. The proof rests on the uniqueness of contents here, as in
Workspace. It does not speak of a file that the user changes and changes back to
the turn's very bytes between the preview and the patch: the capture may then
hold what it was in between.

Only model-checked: liveness (`EveryRunSettles`, `DispatchReturns`, `CellsEnd`,
`CaughtUp`, `DaemonRunsEnd`), which with fairness and ENABLED is out of the prover's
reach.

## Plan

`Transcript` (the journal of a session's stream in the host), and several
automations per instance.

## Not modelled

Token accounting and the budget's arithmetic (its latch is `Stop`), the
continuation counter, the contents of prompts, reports, patches and receipts,
path checks and sandbox arguments, credentials and configuration, forks and
switches of the native session. Of the desktop: rendering (`App.tsx`,
`ResourceViewer.tsx`, settings, extensions, conversation panels), translations,
invocation wrappers, the mock backend, permission and plan dialogs, rewind, the
compaction dialog. These are most of the repository's lines and hold no state
that two actors change, which is why the mapped share of all lines is small
while the controller, the runtime and the host's protocols are covered.
Observations of the origin are left out because no guard accepts them as
evidence.
