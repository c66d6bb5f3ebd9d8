------------------------------ MODULE Profile ------------------------------
(***************************************************************************)
(* The profile directory shared by the processes of pi-agent-loop: the     *)
(* owner lease, the artifacts, and a session's journal, between processes  *)
(* that run the session (openLoop) and processes that apply its delivery   *)
(* (deliveryOperation).                                                    *)
(*                                                                         *)
(* The lease is a lock of proper-lockfile: a directory whose time its      *)
(* holder renews every 10 s and that counts as stale after 60 s.  The      *)
(* renewal is a timer of the holder's event loop.  A synchronous git       *)
(* command blocks that loop, for up to 120 s.                              *)
(***************************************************************************)
EXTENDS Naturals, Sequences, FiniteSets

CONSTANTS
    Proc,      \* processes; each is started again after it has ended
    PatchOf,   \* the artifact that a task delivers: the same bytes, the same id
    None,      \* absent
    MaxTask,   \* bound: tasks of the session
    MaxEntry,  \* bound: entries of the session file
    MaxApply,  \* bound: applications
    MaxCrash   \* bound: ends of processes

Task == 1 .. MaxTask

ASSUME ProfileAssumption ==
    /\ None \notin Proc /\ DOMAIN PatchOf = Task
    /\ {MaxTask, MaxEntry, MaxApply, MaxCrash} \subseteq Nat

Artifact == {PatchOf[t] : t \in Task}
Status   == {"none", "running", "paused", "complete"}
State    == {s \in [task : 0 .. MaxTask, status : Status] : s.task = 0 <=> s.status = "none"}
NoState  == [task |-> 0, status |-> "none"]

VARIABLES
    lease,    \* by: the process whose time the lock has; aged: it is stale
    pc,       \* what each process does
    mem,      \* a session's task; for an application, what it has read
    journal,  \* task entries and application entries of the session file
    file,     \* the file of each artifact: "none", "torn" or "whole"
    applied,  \* applications so far
    crashes,
    wrong,    \* history: a patch was applied that was not the accepted one
    slipped   \* history: a command has outlasted the lease of its process

vars == <<lease, pc, mem, journal, file, applied, crashes, wrong, slipped>>
-----------------------------------------------------------------------------
Step == {"off", "idle", "git", "put", "entry", "read", "patch", "record", "release"}

Alive(p) == pc[p] # "off"

\* Between these steps the event loop does not turn.
Blocked(p) == pc[p] \in {"git", "put", "entry", "read", "patch", "record"}

Goto(p, step) == pc' = [pc EXCEPT ![p] = step]

Logs(kind, s) ==
    /\ Len(journal) < MaxEntry
    /\ journal' = Append(journal, [kind |-> kind, state |-> s])

\* A change of a session's task, with its checkpoint.
Becomes(p, s) == mem' = [mem EXCEPT ![p] = s] /\ Logs("task", s)

\* getBranch().reverse().find(...): the last task entry.
Latest ==
    LET tasks == {i \in DOMAIN journal : journal[i].kind = "task"}
    IN IF tasks = {} THEN NoState
       ELSE journal[CHOOSE i \in tasks : \A j \in tasks : j <= i].state
-----------------------------------------------------------------------------
(* The lease.                                                              *)

\* FreeAlways is a mutant: retries without a look at the staleness.
FreeAlways == TRUE
Free == lease.by = None \/ lease.aged

\* lockfile.lock, with no retry: a lock that is there and fresh refuses.
Lock(p, step) ==
    /\ pc[p] = "off" /\ Free
    /\ lease' = [by |-> p, aged |-> FALSE]
    /\ Goto(p, step)

\* Nobody renews the time of a process that has ended, or that is blocked for
\* longer than the lock stays fresh.
Ages ==
    /\ lease.by # None /\ ~lease.aged
    /\ ~Alive(lease.by) \/ Blocked(lease.by)
    /\ lease' = [lease EXCEPT !.aged = TRUE]
    /\ slipped' = (slipped \/ Alive(lease.by))
    /\ UNCHANGED <<pc, mem, journal, file, applied, crashes, wrong>>

Renews(p) ==
    /\ Alive(p) /\ ~Blocked(p) /\ lease.by = p /\ lease.aged
    /\ lease' = [lease EXCEPT !.aged = FALSE]
    /\ UNCHANGED <<pc, mem, journal, file, applied, crashes, wrong, slipped>>

\* The timer finds the time of another process: the library throws, and the
\* process ends.
Compromised(p) ==
    /\ Alive(p) /\ ~Blocked(p) /\ lease.by # p
    /\ Goto(p, "off")
    /\ UNCHANGED <<lease, mem, journal, file, applied, crashes, wrong, slipped>>

\* The lock directory is removed, whoever has made it.
Release(p) ==
    /\ pc[p] = "release"
    /\ lease' = [by |-> None, aged |-> FALSE]
    /\ Goto(p, "off")
    /\ UNCHANGED <<mem, journal, file, applied, crashes, wrong, slipped>>
-----------------------------------------------------------------------------
(* A session: openLoop, messages, acceptance, close.                       *)

\* Mutant: whatever is restored runs on.
RestoredRunning == IF Latest = NoState THEN NoState
                   ELSE [Latest EXCEPT !.status = "running"]
Restored == IF Latest.status = "running" THEN [Latest EXCEPT !.status = "paused"]
            ELSE Latest

Open(p) ==
    /\ Lock(p, "idle")
    /\ IF Restored = NoState
       THEN mem' = [mem EXCEPT ![p] = NoState] /\ UNCHANGED journal
       ELSE Becomes(p, Restored)
    /\ UNCHANGED <<file, applied, crashes, wrong, slipped>>

\* Candidates, identities and checks call git and wait for it.
Git(p) ==
    /\ pc[p] = "idle" /\ Goto(p, "git")
    /\ UNCHANGED <<lease, mem, journal, file, applied, crashes, wrong, slipped>>

GitReturns(p) ==
    /\ pc[p] = "git" /\ Goto(p, "idle")
    /\ UNCHANGED <<lease, mem, journal, file, applied, crashes, wrong, slipped>>

\* input: the next message after a complete task is a new task.
Input(p) ==
    /\ pc[p] = "idle"
    /\ \/ /\ mem[p].status \in {"none", "complete"} /\ mem[p].task < MaxTask
          /\ Becomes(p, [task |-> mem[p].task + 1, status |-> "running"])
       \/ /\ mem[p].status = "paused"
          /\ Becomes(p, [mem[p] EXCEPT !.status = "running"])
    /\ UNCHANGED <<lease, pc, file, applied, crashes, wrong, slipped>>

\* finish: the delivery is put into the store, then the entry is written.
Finish(p) ==
    /\ pc[p] = "idle" /\ mem[p].status = "running"
    /\ LET a == PatchOf[mem[p].task]
       IN CASE file[a] = "none"  -> Goto(p, "put") /\ file' = [file EXCEPT ![a] = "torn"]
            [] file[a] = "whole" -> Goto(p, "entry") /\ UNCHANGED file
            [] file[a] = "torn"  -> UNCHANGED <<pc, file>>  \* ARTIFACT_COLLISION_OR_TAMPER
    /\ UNCHANGED <<lease, mem, journal, applied, crashes, wrong, slipped>>

PutEnds(p) ==
    /\ pc[p] = "put" /\ Goto(p, "entry")
    /\ file' = [file EXCEPT ![PatchOf[mem[p].task]] = "whole"]
    /\ UNCHANGED <<lease, mem, journal, applied, crashes, wrong, slipped>>

\* AcceptedFirst is a mutant: the reference is written before the bytes.
AcceptedFirst(p) == pc[p] \in {"put", "entry"}
Accepts(p) == pc[p] = "entry"

Complete(p) ==
    /\ Accepts(p) /\ Goto(p, "idle")
    /\ Becomes(p, [mem[p] EXCEPT !.status = "complete"])
    /\ UNCHANGED <<lease, file, applied, crashes, wrong, slipped>>

\* dispose pauses a task that runs.
Close(p) ==
    /\ pc[p] = "idle" /\ Goto(p, "release")
    /\ IF mem[p].status = "running"
       THEN Becomes(p, [mem[p] EXCEPT !.status = "paused"])
       ELSE UNCHANGED <<mem, journal>>
    /\ UNCHANGED <<lease, file, applied, crashes, wrong, slipped>>
-----------------------------------------------------------------------------
(* deliveryOperation, apply.  Nothing is awaited before release().         *)

Begin(p) ==
    /\ applied < MaxApply
    /\ Lock(p, "read")
    /\ applied' = applied + 1
    /\ UNCHANGED <<mem, journal, file, crashes, wrong, slipped>>

\* Only a complete delivery whose bytes are those recorded.
Deliverable(s) == s.status = "complete" /\ file[PatchOf[s.task]] = "whole"

Read(p) ==
    /\ pc[p] = "read"
    /\ mem' = [mem EXCEPT ![p] = Latest]
    /\ Goto(p, IF Deliverable(Latest) THEN "patch" ELSE "release")
    /\ UNCHANGED <<lease, journal, file, applied, crashes, wrong, slipped>>

\* applyToSource; it may throw.
Patch(p) ==
    /\ pc[p] = "patch" /\ Goto(p, "record")
    /\ wrong' = (wrong \/ mem[p] # Latest)
    /\ UNCHANGED <<lease, mem, journal, file, applied, crashes, slipped>>

PatchThrows(p) ==
    /\ pc[p] = "patch" /\ Goto(p, "release")
    /\ UNCHANGED <<lease, mem, journal, file, applied, crashes, wrong, slipped>>

RecordApplied(p) ==
    /\ pc[p] = "record" /\ Goto(p, "release")
    /\ Logs("applied", mem[p])
    /\ UNCHANGED <<lease, mem, file, applied, crashes, wrong, slipped>>
-----------------------------------------------------------------------------
Crash(p) ==
    /\ Alive(p) /\ crashes < MaxCrash
    /\ Goto(p, "off") /\ crashes' = crashes + 1
    /\ UNCHANGED <<lease, mem, journal, file, applied, wrong, slipped>>

Init ==
    /\ lease = [by |-> None, aged |-> FALSE]
    /\ pc = [p \in Proc |-> "off"] /\ mem = [p \in Proc |-> NoState]
    /\ journal = <<>> /\ file = [a \in Artifact |-> "none"]
    /\ applied = 0 /\ crashes = 0 /\ wrong = FALSE /\ slipped = FALSE

Leases(p)  == Renews(p) \/ Compromised(p) \/ Release(p)
Session(p) == Open(p) \/ Git(p) \/ GitReturns(p) \/ Input(p) \/ Finish(p)
              \/ PutEnds(p) \/ Complete(p) \/ Close(p)
Deliver(p) == Begin(p) \/ Read(p) \/ Patch(p) \/ PatchThrows(p) \/ RecordApplied(p)

Next == Ages \/ \E p \in Proc : Leases(p) \/ Session(p) \/ Deliver(p) \/ Crash(p)

Spec == Init /\ [][Next]_vars
-----------------------------------------------------------------------------
\* Every variable has its type.
TypeOK ==
    /\ lease \in [by : Proc \cup {None}, aged : BOOLEAN]
    /\ pc \in [Proc -> Step] /\ mem \in [Proc -> State]
    /\ journal \in Seq([kind : {"task", "applied"}, state : State])
    /\ file \in [Artifact -> {"none", "torn", "whole"}]
    /\ applied \in 0 .. MaxApply /\ crashes \in 0 .. MaxCrash
    /\ {wrong, slipped} \subseteq BOOLEAN

\* cli.ts: one owner per profile, through ends of processes, stale locks and
\* their takeover, as long as no synchronous command outlasts a lease.
OneOwner == ~slipped => \A p, q \in Proc : Alive(p) /\ Alive(q) => p = q

\* cli.ts: only a complete, current accepted delivery is applied: as long as no
\* command outlasts a lease, no session moves on between the check and git.
AppliedIsCurrent == ~slipped => ~wrong

\* What the journal refers to is in the store, whole: the bytes come before
\* the reference, also when the process ends between them, and when several
\* processes hold the profile.
RefsWhole ==
    \A i \in DOMAIN journal :
        journal[i].state.status = "complete" => file[PatchOf[journal[i].state.task]] = "whole"

\* The second state may follow the first.
Follows(first, second) ==
    \/ first.task < second.task
    \/ first.task = second.task
       /\ (first.status = "complete" => second.status = "complete")

\* state.ts, restore: an accepted task never runs again, and no task follows a
\* later one, through restarts and takeovers, until a command outlasts a lease.
Forward ==
    \A i, j \in DOMAIN journal :
        journal[i].kind = "task" /\ journal[j].kind = "task" /\ i < j =>
            Follows(journal[i].state, journal[j].state)
AcceptedOnce == ~slipped => Forward

\* Violated.  artifacts.ts: "Content-addressed immutable files".  While nobody
\* writes it, a file has the bytes that it is named for.
ContentAddressed ==
    \A a \in Artifact : file[a] = "torn" => \E p \in Proc : pc[p] = "put"
=============================================================================
