---------------------------- MODULE Checkpoints ----------------------------
(***************************************************************************)
(* The checkpoints of a chat: a snapshot of the working tree before and    *)
(* after every turn of the agent, kept as hidden git refs, and the revert  *)
(* of a turn, guarded by a preview, a safety checkpoint of its own and the *)
(* journal of operations.                                                  *)
(*                                                                         *)
(* Captures run on threads: the one before a turn while send_message       *)
(* waits for it, the one after a turn on a thread of its own that nobody   *)
(* waits for.  The commands of the interface run one at a time on the main *)
(* thread.  A mutex (guard) covers the git commands of a capture.  The     *)
(* agent, and the user's editor, write to the tree at any time.            *)
(*                                                                         *)
(* A step may fail: the index is locked, the disk is full, git refuses, or *)
(* breaks off between two files.                                           *)
(* The process may end anywhere; its start reconciles both stores, and so  *)
(* does a launch of the program while it runs.                             *)
(***************************************************************************)
EXTENDS Naturals, Sequences, FiniteSets

CONSTANTS
    Path,        \* files of the working tree
    Turn,        \* turns of the chat; a turn names its checkpoint
    Revert,      \* operation ids of reverts; each names its safety checkpoint
    Nothing,     \* absent
    MaxEdits,    \* bound: writes to the tree
    MaxFaults,   \* bound: steps that fail
    MaxStarts    \* bound: ends of the process, and launches beside it

Id      == Turn \cup Revert
Phase   == {"before", "after"}
Tree    == [Path -> 0 .. MaxEdits]     \* 0: there is no file
Status  == {"capturing", "ready", "partial", "reverted"}
Record  == [status : Status, before : Tree, after : Tree \cup {<<>>}]
OpKey   == (Id \X Phase) \cup (Revert \X {"revert"})
OpState == {"none", "pending", "completed", "uncertain", "failed"}

\* A capture; the command on the main thread; what a revert overwrote, and which
\* paths of its patch it did not take back.
CaptureJob == [pc : {"idle", "begin", "tree", "record", "end", "out"}, phase : Phase,
               tree : Tree \cup {<<>>}, ok : BOOLEAN]
Command    == [pc : {"idle", "safety", "apply", "after", "mark", "doubt", "close", "failed",
                      "refs"},
               cp : Id \cup {Nothing}, id : Revert \cup {Nothing},
               rec : Record \cup {<<>>}, gone : SUBSET Id]
Overwrite  == [cp : Id, tree : Tree, paths : SUBSET Path, rest : SUBSET Path]

ASSUME CheckpointsAssumption ==
    /\ Turn \cap Revert = {}
    /\ Nothing \notin Turn \cup Revert \cup Record \cup Overwrite
    /\ {MaxEdits, MaxFaults, MaxStarts} \subseteq Nat

VARIABLES
    tree,    \* the working tree: the latest write to each path
    author,  \* history: who made each write, a turn or the user
    turns,   \* each turn: "new", "capturing", "prepared", "running", "over"
    active,  \* checkpoints whose after-capture the session will schedule
    cp,      \* checkpoints.json: id -> record, or Nothing
    refs,    \* the hidden refs: <<id, phase>>
    op,      \* operations.json: the status of every operation
    job,     \* the capture that runs for each id
    guard,   \* the id whose capture holds the mutex
    shown,   \* the preview on the screen, or Nothing
    main,    \* the command on the main thread
    up,      \* the process runs
    undone,  \* history: what each revert overwrote, or Nothing
    faults, starts

checkpointVars == <<tree, author, turns, active, cp, refs, op, job, guard, shown,
                    main, up, undone, faults, starts>>

work   == <<tree, author>>
stores == <<cp, refs, op>>
screen == <<shown, main, undone>>
ends   == <<up, starts>>
-----------------------------------------------------------------------------
NoJob == [pc |-> "idle", phase |-> "before", tree |-> <<>>, ok |-> TRUE]
Ready == [pc |-> "idle", cp |-> Nothing, id |-> Nothing, rec |-> <<>>, gone |-> {}]

Capture(i, phase) == job' = [job EXCEPT ![i] =
                               [NoJob EXCEPT !.pc = "begin", !.phase = phase]]
JobTo(i, pc) == job' = [job EXCEPT ![i].pc = pc]
Broken(i, pc) == job' = [job EXCEPT ![i].pc = pc, ![i].ok = FALSE]

At(i, pc) == up /\ job[i].pc = pc
MainAt(pc) == up /\ main.pc = pc
MainTo(pc) == main' = [main EXCEPT !.pc = pc]

NoFault == faults' = faults
Fault   == faults < MaxFaults /\ faults' = faults + 1

Exists(i) == cp[i] # Nothing
Changed(rec) == {p \in Path : rec.before[p] # rec.after[p]}

\* git apply --reverse: every path the patch changes still is as it left it.
\* CleanAlways is a mutant: the files are checked out without a look at them.
CleanAlways(rec) == TRUE
Clean(rec) == \A p \in Changed(rec) : tree[p] = rec.after[p]
-----------------------------------------------------------------------------
(* capture_before_auto and capture_after_auto: begin the operation, take   *)
(* the guard, write the tree and the ref, write the record, end the        *)
(* operation.                                                              *)

Begun(key) == op' = [op EXCEPT ![key] = "pending"]

\* A transition names the revision that it follows; its refusal is ignored.
OpIs(key, status) ==
    op' = IF op[key] = "pending" THEN [op EXCEPT ![key] = status] ELSE op

CaptureBegins(i) ==
    /\ At(i, "begin")
    /\ job[i].phase = "after" => Exists(i) /\ cp[i].status = "capturing"
    /\ Begun(<<i, job[i].phase>>)
    /\ JobTo(i, "tree") /\ NoFault
    /\ UNCHANGED <<work, turns, active, cp, refs, guard, screen, ends>>

\* An error before the operation has begun returns at once.
CaptureRefused(i) ==
    /\ At(i, "begin")
    /\ \/ Fault
       \/ /\ job[i].phase = "after" /\ NoFault
          /\ ~Exists(i) \/ cp[i].status # "capturing"
    /\ Broken(i, "out")
    /\ UNCHANGED <<work, turns, active, stores, guard, screen, ends>>

CaptureTree(i) ==
    /\ At(i, "tree") /\ guard = Nothing
    /\ guard' = i
    /\ \/ /\ job' = [job EXCEPT ![i].tree = tree, ![i].pc = "record"]
          /\ refs' = refs \cup {<<i, job[i].phase>>}
          /\ NoFault
       \/ Fault /\ Broken(i, "end") /\ UNCHANGED refs
    /\ UNCHANGED <<work, turns, active, cp, op, screen, ends>>

Recorded(i) ==
    IF job[i].phase = "before"
    THEN [status |-> "capturing", before |-> job[i].tree, after |-> <<>>]
    ELSE [cp[i] EXCEPT !.status = "ready", !.after = job[i].tree]

CaptureRecords(i) ==
    /\ At(i, "record")
    /\ \/ /\ job[i].phase = "after" => Exists(i)
          /\ cp' = [cp EXCEPT ![i] = Recorded(i)]
          /\ JobTo(i, "end") /\ NoFault
       \/ Fault /\ Broken(i, "end") /\ UNCHANGED cp
    /\ UNCHANGED <<work, turns, active, refs, op, guard, screen, ends>>

\* A failed after-capture leaves a partial record.  Neither that update nor
\* the end of the operation is looked at: each may fail.
CaptureEnds(i) ==
    /\ At(i, "end")
    /\ cp' = IF ~job[i].ok /\ job[i].phase = "after" /\ Exists(i)
             THEN [cp EXCEPT ![i].status = "partial"] ELSE cp
    /\ \/ OpIs(<<i, job[i].phase>>, IF job[i].ok THEN "completed" ELSE "failed")
          /\ NoFault
       \/ Fault /\ UNCHANGED op
    /\ guard' = Nothing
    /\ JobTo(i, "out")
    /\ UNCHANGED <<work, turns, active, refs, screen, ends>>

\* The same, when the record cannot be written either.
CaptureEndsDirty(i) ==
    /\ At(i, "end") /\ ~job[i].ok /\ job[i].phase = "after"
    /\ Fault
    /\ OpIs(<<i, "after">>, "failed")
    /\ guard' = Nothing
    /\ JobTo(i, "out")
    /\ UNCHANGED <<work, turns, active, cp, refs, screen, ends>>

Returned(i, phase) == At(i, "out") /\ job[i].phase = phase
Done(i) == job' = [job EXCEPT ![i] = NoJob]
-----------------------------------------------------------------------------
(* Turns.  send_message captures, then starts the turn in the session in   *)
(* focus; the end of the turn, a stop, an error or the exit of the agent   *)
(* schedules the capture after it.                                         *)

Quiet == \A t \in Turn : turns[t] \in {"new", "over"}

Send(t) ==
    /\ up /\ Quiet /\ turns[t] = "new"
    /\ turns' = [turns EXCEPT ![t] = "capturing"]
    /\ Capture(t, "before")
    /\ UNCHANGED <<work, active, stores, guard, screen, ends, faults>>

Prepared(t) ==
    /\ turns[t] = "capturing" /\ Returned(t, "before")
    /\ turns' = [turns EXCEPT ![t] = "prepared"]
    /\ active' = IF job[t].ok THEN {t} ELSE {}
    /\ Done(t)
    /\ UNCHANGED <<work, stores, guard, screen, ends, faults>>

TurnBegins(t) ==
    /\ up /\ turns[t] = "prepared"
    /\ turns' = [turns EXCEPT ![t] = "running"]
    /\ UNCHANGED <<work, active, stores, job, guard, screen, ends, faults>>

\* The turn is over, or another session has got the focus meanwhile.
TurnCloses(t) ==
    /\ up /\ turns[t] \in {"prepared", "running"}
    /\ turns' = [turns EXCEPT ![t] = "over"]
    /\ active' = {}
    /\ IF t \in active THEN Capture(t, "after") ELSE UNCHANGED job
    /\ UNCHANGED <<work, stores, guard, screen, ends, faults>>

\* The session is disconnected or deleted, or refuses to stream: its
\* checkpoint has no owner any more.
TurnDropped(t) ==
    /\ up /\ turns[t] \in {"prepared", "running"}
    /\ turns' = [turns EXCEPT ![t] = "over"]
    /\ active' = {}
    /\ UNCHANGED <<work, stores, job, guard, screen, ends, faults>>

AfterReturns(t) ==
    /\ Returned(t, "after")
    /\ Done(t)
    /\ UNCHANGED <<work, turns, active, stores, guard, screen, ends, faults>>

Write(p, who) ==
    /\ Len(author) < MaxEdits
    /\ author' = Append(author, who)
    /\ tree' = [tree EXCEPT ![p] = Len(author')]
    /\ UNCHANGED <<turns, active, stores, job, guard, screen, ends, faults>>

Edit(p) == \/ \E t \in Turn : up /\ turns[t] = "running" /\ Write(p, t)
           \/ Write(p, "user")
-----------------------------------------------------------------------------
(* checkpoint_revert_preview and checkpoint_revert_apply.                  *)

Preview(i) ==
    /\ MainAt("idle") /\ guard = Nothing
    /\ Exists(i) /\ cp[i].status = "ready" /\ Clean(cp[i])
    /\ shown' = [cp |-> i, digest |-> tree]
    /\ UNCHANGED <<work, turns, active, stores, job, guard, main, undone, ends,
                   faults>>

\* The preview is made again: it must be clean and its digest the one shown.
Apply(r) ==
    /\ MainAt("idle") /\ guard = Nothing /\ shown # Nothing
    /\ op[<<r, "revert">>] = "none"
    /\ LET i == shown.cp
       IN /\ Exists(i) /\ cp[i].status = "ready" /\ Clean(cp[i])
          /\ shown.digest = tree
          /\ main' = [Ready EXCEPT !.pc = "safety", !.cp = i, !.id = r,
                                   !.rec = cp[i]]
    /\ Begun(<<r, "revert">>)
    /\ Capture(r, "before")
    /\ UNCHANGED <<work, turns, active, cp, refs, guard, shown, undone, ends,
                   faults>>

\* Without the safety checkpoint the command returns; its operation stays.
SafetyReturns ==
    LET r == main.id
    IN /\ MainAt("safety") /\ Returned(r, "before")
       /\ IF job[r].ok THEN MainTo("apply") ELSE main' = Ready
       /\ Done(r)
       /\ UNCHANGED <<work, turns, active, stores, guard, shown, undone, ends,
                      faults>>

\* git replaces the files one after the other: taken are the paths that it takes
\* back, lost those that it removes and does not write again.
Overwrites(taken, lost) ==
    /\ tree' = [p \in Path |-> IF p \in taken THEN main.rec.before[p]
                              ELSE IF p \in lost THEN 0 ELSE tree[p]]
    /\ undone' = [undone EXCEPT ![main.id] =
                    [cp |-> main.cp, tree |-> tree, paths |-> taken \cup lost,
                     rest |-> Changed(main.rec) \ taken]]

ApplyPatch ==
    /\ MainAt("apply") /\ guard = Nothing
    /\ Clean(main.rec) /\ Changed(main.rec) # {}
    /\ Overwrites(Changed(main.rec), {})
    /\ MainTo("after")
    /\ Capture(main.id, "after")
    /\ UNCHANGED <<author, turns, active, stores, guard, shown, ends, faults>>

\* git refuses a patch that does not fit, and an empty one, or fails before it
\* touches a file.
PatchRefused ==
    /\ MainAt("apply") /\ guard = Nothing
    /\ \/ (~Clean(main.rec) \/ Changed(main.rec) = {}) /\ NoFault
       \/ Fault
    /\ MainTo("failed")
    /\ UNCHANGED <<work, turns, active, stores, job, guard, shown, undone, ends>>

\* git fails, or its process ends, when it has removed or written some of the
\* files; the exit code does not tell the two apart.
PatchBreaks ==
    /\ MainAt("apply") /\ guard = Nothing /\ Clean(main.rec)
    /\ \E taken, lost \in SUBSET Changed(main.rec) :
         /\ taken \cap lost = {} /\ taken \cup lost # {} /\ taken # Changed(main.rec)
         /\ Overwrites(taken, lost)
    /\ Fault
    /\ MainTo("failed")
    /\ UNCHANGED <<author, turns, active, stores, job, guard, shown, ends>>

\* git could not be run at all.
PatchFails ==
    /\ MainAt("apply") /\ Fault
    /\ main' = Ready
    /\ UNCHANGED <<work, turns, active, stores, job, guard, shown, undone, ends>>

\* The snapshot after the revert decides between completed and uncertain.
SafetyEnds ==
    LET r == main.id
    IN /\ MainAt("after") /\ Returned(r, "after")
       /\ MainTo(IF job[r].ok THEN "mark" ELSE "doubt")
       /\ Done(r)
       /\ UNCHANGED <<work, turns, active, stores, guard, shown, undone, ends,
                      faults>>

MarkReverted ==
    /\ MainAt("mark")
    /\ \/ /\ cp' = IF Exists(main.cp) THEN [cp EXCEPT ![main.cp].status = "reverted"]
                   ELSE cp
          /\ NoFault
       \/ Fault /\ UNCHANGED cp
    /\ MainTo("close")
    /\ UNCHANGED <<work, turns, active, refs, op, job, guard, shown, undone, ends>>

\* OutcomeFailed is a mutant: what is uncertain is recorded as failed.
OutcomeFailed(pc) == IF pc = "close" THEN "completed" ELSE "failed"
Outcome(pc) == [close |-> "completed", doubt |-> "uncertain", failed |-> "failed"][pc]

RevertEnds ==
    /\ \E pc \in {"close", "doubt", "failed"} : MainAt(pc)
    /\ \/ OpIs(<<main.id, "revert">>, Outcome(main.pc)) /\ NoFault
       \/ Fault /\ UNCHANGED op
    /\ main' = Ready
    /\ shown' = IF main.pc = "failed" THEN shown ELSE Nothing
    /\ UNCHANGED <<work, turns, active, cp, refs, job, guard, undone, ends>>
-----------------------------------------------------------------------------
(* checkpoints_gc: the records first, then, under the guard, their refs.   *)

Collectable == {i \in Id : Exists(i) /\ cp[i].status \in {"ready", "reverted"}}

Gc(gone) ==
    /\ MainAt("idle") /\ gone # {} /\ gone \subseteq Collectable
    /\ cp' = [i \in Id |-> IF i \in gone THEN Nothing ELSE cp[i]]
    /\ main' = [Ready EXCEPT !.pc = "refs", !.gone = gone]
    /\ UNCHANGED <<work, turns, active, refs, op, job, guard, shown, undone, ends,
                   faults>>

\* RefsOfSession is a mutant: all refs of the session instead of the turns'.
RefsOfSession(gone) == refs
RefsOf(gone) == gone \X Phase

GcRefs ==
    /\ MainAt("refs") /\ guard = Nothing
    /\ refs' = refs \ RefsOf(main.gone)
    /\ main' = Ready
    /\ UNCHANGED <<work, turns, active, cp, op, job, guard, shown, undone, ends,
                   faults>>
-----------------------------------------------------------------------------
Crash ==
    /\ up /\ starts < MaxStarts
    /\ up' = FALSE /\ starts' = starts + 1
    /\ turns' = [t \in Turn |-> IF turns[t] = "new" THEN "new" ELSE "over"]
    /\ active' = {} /\ guard' = Nothing /\ shown' = Nothing
    /\ job' = [i \in Id |-> NoJob]
    /\ main' = Ready
    /\ UNCHANGED <<work, stores, undone, faults>>

\* Both reconcile_incomplete.
Reconciled ==
    /\ op' = [k \in OpKey |-> IF op[k] = "pending" THEN "uncertain" ELSE op[k]]
    /\ cp' = [i \in Id |-> IF Exists(i) /\ cp[i].status = "capturing"
                           THEN [cp[i] EXCEPT !.status = "partial"] ELSE cp[i]]

Restart ==
    /\ ~up
    /\ up' = TRUE
    /\ Reconciled
    /\ UNCHANGED <<work, turns, active, refs, job, guard, screen, faults, starts>>

\* The program is launched again while it runs: the second process finds the
\* first one, and leaves, only after it has reconciled the stores.
SecondLaunch ==
    /\ up /\ starts < MaxStarts
    /\ starts' = starts + 1
    /\ Reconciled
    /\ UNCHANGED <<work, turns, active, refs, job, guard, screen, faults, up>>

CPInit ==
    /\ tree = [p \in Path |-> 0] /\ author = <<>>
    /\ turns = [t \in Turn |-> "new"] /\ active = {}
    /\ cp = [i \in Id |-> Nothing] /\ refs = {}
    /\ op = [k \in OpKey |-> "none"]
    /\ job = [i \in Id |-> NoJob] /\ guard = Nothing
    /\ shown = Nothing /\ main = Ready /\ up = TRUE
    /\ undone = [r \in Revert |-> Nothing]
    /\ faults = 0 /\ starts = 0

Step(i) == \/ CaptureBegins(i) \/ CaptureRefused(i) \/ CaptureTree(i)
           \/ CaptureRecords(i) \/ CaptureEnds(i) \/ CaptureEndsDirty(i)
Chat(t) == \/ Send(t) \/ Prepared(t) \/ TurnBegins(t) \/ TurnCloses(t)
           \/ TurnDropped(t) \/ AfterReturns(t)
Main == \/ SafetyReturns \/ ApplyPatch \/ PatchRefused \/ PatchBreaks \/ PatchFails
        \/ SafetyEnds \/ MarkReverted \/ RevertEnds \/ GcRefs

CPNext ==
    \/ \E i \in Id : Step(i)
    \/ \E t \in Turn : Chat(t)
    \/ \E p \in Path : Edit(p)
    \/ \E i \in Id : Preview(i)
    \/ \E r \in Revert : Apply(r)
    \/ Main
    \/ \E gone \in SUBSET Collectable : Gc(gone)
    \/ Crash \/ Restart \/ SecondLaunch

CPSpec == CPInit /\ [][CPNext]_checkpointVars
-----------------------------------------------------------------------------
\* Every variable has its type.
CPTypeOK ==
    /\ tree \in Tree
    /\ author \in Seq(Turn \cup {"user"}) /\ Len(author) <= MaxEdits
    /\ turns \in [Turn -> {"new", "capturing", "prepared", "running", "over"}]
    /\ active \subseteq Turn
    /\ cp \in [Id -> Record \cup {Nothing}]
    /\ refs \subseteq Id \X Phase
    /\ op \in [OpKey -> OpState]
    /\ job \in [Id -> CaptureJob]
    /\ guard \in Id \cup {Nothing}
    /\ shown \in [cp : Id, digest : Tree] \cup {Nothing}
    /\ main \in Command
    /\ undone \in [Revert -> Overwrite \cup {Nothing}]
    /\ up \in BOOLEAN
    /\ faults \in 0 .. MaxFaults /\ starts \in 0 .. MaxStarts

\* git gc cannot drop what a record needs: as long as a checkpoint is listed,
\* the refs of its snapshots exist, whatever captures, collections and ends of
\* the process lie between the two stores.
RefsKept ==
    \A i \in Id : Exists(i) =>
        /\ <<i, "before">> \in refs
        /\ cp[i].status \in {"ready", "reverted"} => <<i, "after">> \in refs

\* The patch of a revert is taken back in every file.
Whole(r) == undone[r] # Nothing /\ undone[r].rest = {}

\* The journal tells whether a revert is whole: completed only of a patch whose
\* every file was taken back, failed only of one of which some file was not, and a
\* checkpoint is reverted only when one of its reverts took it back as a whole,
\* although git may break off between two files and the process between git and
\* the journal.
JournalTells ==
    /\ \A r \in Revert :
         /\ op[<<r, "revert">>] = "completed" => Whole(r)
         /\ op[<<r, "revert">>] = "failed" => ~Whole(r)
    /\ \A i \in Id : Exists(i) /\ cp[i].status = "reverted" =>
         \E r \in Revert : Whole(r) /\ undone[r].cp = i

\* Nothing that a revert overwrites is lost: it is in the safety checkpoint,
\* although the tree is written between the preview, the safety capture and the
\* patch, and although git may leave the files half replaced.
SafetyHolds ==
    \A r \in Revert : undone[r] # Nothing =>
        \/ ~Exists(r)
        \/ \A p \in undone[r].paths : cp[r].before[p] = undone[r].tree[p]

\* Violated.  lib.rs: the stores are reconciled when the program starts; what a
\* living process still does was not interrupted.  The checkpoint of a turn
\* under way waits for its snapshot after it.
TurnKeepsCheckpoint ==
    \A t \in active : Exists(t) => cp[t].status = "capturing"

\* Violated.  "CHECKPOINT_REVERT_FAILED", and the status failed beside uncertain:
\* a revert that failed has changed nothing.
FailedChangesNothing ==
    \A r \in Revert : op[<<r, "revert">>] = "failed" => undone[r] = Nothing

\* Violated.  checkpoints.rs: "before/after snapshots for individual agent
\* turns".  No snapshot after a turn holds what a later turn wrote.
AfterIsOfTurn ==
    \A t \in Turn : Exists(t) /\ cp[t].status = "ready" =>
        \A p \in Changed(cp[t]) :
            cp[t].after[p] # 0 => author[cp[t].after[p]] \in {t, "user"}
=============================================================================
