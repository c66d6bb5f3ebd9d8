--------------------------- MODULE Profile_proofs ---------------------------
(***************************************************************************)
(* One owner, and what follows from it for the journal, the store and the  *)
(* application of a delivery, for any processes and tasks.                 *)
(***************************************************************************)
EXTENDS Profile, SequenceTheorems, TLAPS

-----------------------------------------------------------------------------
(* The inductive invariant.                                                *)

Tasks == {i \in DOMAIN journal : journal[i].kind = "task"}

\* The task entries have a last one.
LastInv == Tasks = {} \/ \E k \in Tasks : \A j \in Tasks : j <= k

Kept(s) == s.status = "complete" => file[PatchOf[s.task]] = "whole"

\* No reference is written before its bytes: neither in the journal nor in what
\* a process is about to write there.
WholeInv ==
    /\ \A i \in DOMAIN journal : Kept(journal[i].state)
    /\ \A p \in Proc : Kept(mem[p])
    /\ \A p \in Proc : pc[p] \in {"put", "entry"} => mem[p].status = "running"
    /\ \A p \in Proc : pc[p] = "entry" => file[PatchOf[mem[p].task]] = "whole"

\* A process that lives holds a fresh lease.
OwnerInv == \A p \in Proc : Alive(p) => lease.by = p /\ ~lease.aged

\* What a process works with is the last task entry.
Working == {"idle", "git", "put", "entry", "patch", "record"}
CurrentInv == ~wrong /\ \A p \in Proc : pc[p] \in Working => mem[p] = Latest

OneInv == OwnerInv /\ CurrentInv /\ Forward

IInv == TypeOK /\ LastInv /\ WholeInv /\ (~slipped => OneInv)

-----------------------------------------------------------------------------
(* The journal.                                                            *)

\* An entry holds a state.
LEMMA EntryType ==
    ASSUME TypeOK, NEW i \in DOMAIN journal
    PROVE  journal[i].state \in State
  <1> DEFINE Entry == [kind : {"task", "applied"}, state : State]
  <1>1. journal \in Seq(Entry)  BY DEF TypeOK
  <1>2. i \in 1 .. Len(journal)  BY <1>1
  <1> HIDE DEF Entry
  <1>3. journal[i] \in Entry  BY <1>1, <1>2, ElementOfSeq
  <1>4. QED  BY <1>3 DEF Entry

\* The last task entry, or none.
LEMMA LatestIs ==
    ASSUME TypeOK, LastInv
    PROVE  \/ Tasks = {} /\ Latest = NoState
           \/ \E k \in Tasks : Latest = journal[k].state /\ \A j \in Tasks : j <= k
  <1>1. CASE Tasks = {}  BY <1>1 DEF Latest, Tasks
  <1>2. CASE \E k \in Tasks : \A j \in Tasks : j <= k
    <2> DEFINE k == CHOOSE i \in Tasks : \A j \in Tasks : j <= i
    <2>1. k \in Tasks /\ \A j \in Tasks : j <= k  BY <1>2
    <2>2. Latest = journal[k].state  BY <2>1 DEF Latest, Tasks
    <2>3. QED  BY <2>1, <2>2
  <1>3. QED  BY <1>1, <1>2 DEF LastInv

\* The last entry has its type, and what it accepts is whole.
LEMMA LatestType ==
    ASSUME TypeOK, LastInv
    PROVE  /\ Latest \in State /\ NoState \in State
           /\ WholeInv => Kept(Latest)
           /\ Latest.status = "none" <=> Latest = NoState
  <1>1. NoState \in State /\ Kept(NoState)
    BY ProfileAssumption DEF State, NoState, Status, Kept
  <1>2. \A i \in Tasks : journal[i].state \in State /\ (WholeInv => Kept(journal[i].state))
    BY EntryType DEF Tasks, WholeInv
  <1>3. Latest \in State /\ (WholeInv => Kept(Latest))  BY <1>1, <1>2, LatestIs
  <1>4. \A s \in State : s.status = "none" <=> s = NoState
    BY ProfileAssumption DEF State, NoState
  <1>5. QED  BY <1>1, <1>3, <1>4

\* What one more entry does.
LEMMA OneMore ==
    ASSUME TypeOK, LastInv, NEW kind \in {"task", "applied"}, NEW s \in State, Logs(kind, s)
    PROVE  /\ journal' \in Seq([kind : {"task", "applied"}, state : State])
           /\ LastInv'
           /\ WholeInv /\ file' = file /\ Kept(s) => \A i \in DOMAIN journal' : Kept(journal'[i].state)
           /\ kind = "task" => Latest' = s
           /\ Forward /\ (kind = "task" => Follows(Latest, s)) => Forward'
  <1> DEFINE n == Len(journal)  new == [kind |-> kind, state |-> s]
  <1>1. /\ n \in Nat /\ new \in [kind : {"task", "applied"}, state : State]
        /\ journal \in Seq([kind : {"task", "applied"}, state : State])
        /\ journal' = Append(journal, new)
    BY DEF TypeOK, Logs
  <1>2. journal' \in Seq([kind : {"task", "applied"}, state : State])  BY <1>1
  <1>3. /\ DOMAIN journal = 1 .. n /\ DOMAIN journal' = 1 .. (n + 1)
        /\ \A i \in 1 .. n : journal'[i] = journal[i]
        /\ journal'[n + 1].kind = kind /\ journal'[n + 1].state = s
    BY <1>1
  <1>4. /\ Tasks \subseteq 1 .. n
        /\ Tasks' = IF kind = "task" THEN Tasks \cup {n + 1} ELSE Tasks
    BY <1>1, <1>3 DEF Tasks
  <1>5. LastInv'
    <2>1. CASE kind = "task"
      <3>1. n + 1 \in Tasks' /\ \A j \in Tasks' : j <= n + 1  BY <2>1, <1>1, <1>4
      <3>2. QED  BY <3>1 DEF LastInv
    <2>2. CASE kind # "task"  BY <2>2, <1>4 DEF LastInv
    <2>3. QED  BY <2>1, <2>2
  <1>6. ASSUME WholeInv, file' = file, Kept(s)
        PROVE  \A i \in DOMAIN journal' : Kept(journal'[i].state)
    <2> SUFFICES ASSUME NEW i \in 1 .. (n + 1) PROVE Kept(journal'[i].state)
      BY <1>3
    <2>1. CASE i = n + 1  BY <2>1, <1>6, <1>3 DEF Kept
    <2>2. CASE i \in 1 .. n  BY <2>2, <1>6, <1>3 DEF Kept, WholeInv
    <2>3. QED  BY <2>1, <2>2, <1>1
  <1>7. ASSUME kind = "task" PROVE Latest' = s
    <2>1. n + 1 \in Tasks' /\ \A j \in Tasks' : j <= n + 1  BY <1>7, <1>1, <1>4
    <2> DEFINE k == CHOOSE i \in Tasks' : \A j \in Tasks' : j <= i
    <2>2. k \in Tasks' /\ \A j \in Tasks' : j <= k  BY <2>1
    <2>3. k = n + 1
      <3>1. \A i \in Tasks' : i \in 1 .. (n + 1)  BY <1>1, <1>4
      <3>2. k <= n + 1 /\ n + 1 <= k /\ k \in 1 .. (n + 1)  BY <2>1, <2>2, <3>1
      <3>3. QED  BY <3>2, <1>1
    <2>4. Latest' = journal'[k].state  BY <2>1 DEF Latest, Tasks
    <2>5. QED  BY <2>3, <2>4, <1>3
  <1>8. ASSUME Forward, kind = "task" => Follows(Latest, s)
        PROVE  Forward'
    <2> SUFFICES ASSUME NEW i \in 1 .. (n + 1), NEW j \in 1 .. (n + 1), i < j,
                        journal'[i].kind = "task", journal'[j].kind = "task"
                 PROVE  Follows(journal'[i].state, journal'[j].state)
      BY <1>3 DEF Forward, Follows
    <2>1. CASE j \in 1 .. n
      <3>1. i \in 1 .. n  BY <2>1, <1>1
      <3>2. QED  BY <3>1, <2>1, <1>3, <1>8 DEF Forward, Follows
    <2>2. CASE j = n + 1
      <3>1. i \in 1 .. n /\ i \in Tasks /\ kind = "task"  BY <2>2, <1>1, <1>3 DEF Tasks
      <3>2. PICK k \in Tasks : Latest = journal[k].state /\ \A m \in Tasks : m <= k
        BY <3>1, LatestIs
      <3>3. i = k \/ i < k  BY <3>1, <3>2, <1>4
      <3>4. i = k \/ Follows(journal[i].state, Latest)
        BY <3>1, <3>2, <3>3, <1>3, <1>4, <1>8 DEF Forward, Follows, Tasks
      <3>5. Follows(Latest, s)  BY <3>1, <1>8
      <3>6. /\ journal[i].state.task \in Nat /\ Latest.task \in Nat /\ s.task \in Nat
        <4>1. \A t \in State : t.task \in Nat  BY ProfileAssumption DEF State
        <4>2. journal[i].state \in State /\ Latest \in State
          BY <3>1, <1>3, EntryType, LatestType
        <4>3. QED  BY <4>1, <4>2
      <3>7. Follows(journal[i].state, s)  BY <3>2, <3>4, <3>5, <3>6 DEF Follows
      <3>8. QED  BY <3>1, <3>7, <2>2, <1>3
    <2>3. QED  BY <2>1, <2>2, <1>1
  <1>9. QED  BY <1>2, <1>5, <1>6, <1>7, <1>8

\* What reopening makes of the last task entry.
LEMMA RestoredType ==
    ASSUME TypeOK, LastInv
    PROVE  /\ Restored \in State /\ (WholeInv => Kept(Restored))
           /\ Restored = NoState <=> Latest = NoState
           /\ Follows(Latest, Restored)
  <1>1. /\ Latest \in State /\ (WholeInv => Kept(Latest)) /\ NoState.status = "none"
        /\ Latest.status = "none" <=> Latest = NoState
    BY LatestType DEF NoState
  <1>2. CASE Latest.status # "running"  BY <1>1, <1>2 DEF Restored, Follows
  <1>3. CASE Latest.status = "running"
    <2> DEFINE r == [Latest EXCEPT !.status = "paused"]
    <2>1. r.task = Latest.task /\ r.status = "paused" /\ r \in State
      BY <1>1, <1>3 DEF State, Status
    <2>2. Restored = r  BY <1>3 DEF Restored
    <2>3. QED  BY <2>1, <2>2, <1>1, <1>3 DEF Follows, Kept
  <1>4. QED  BY <1>2, <1>3

\* A state with another status.
LEMMA StatusChanged ==
    ASSUME NEW s \in State, NEW st \in {"running", "paused", "complete"}, s.status # "none"
    PROVE  /\ [s EXCEPT !.status = st] \in State
           /\ [s EXCEPT !.status = st].task = s.task
           /\ [s EXCEPT !.status = st].status = st
  BY DEF State, Status

\* The task that a message begins.
LEMMA NextTask ==
    ASSUME NEW s \in State, s.task < MaxTask
    PROVE  /\ [task |-> s.task + 1, status |-> "running"] \in State
           /\ s.task < s.task + 1
  BY ProfileAssumption DEF State, Status

-----------------------------------------------------------------------------
(* The steps.                                                              *)

\* What every step of a process leaves alone.
Local(p) ==
    /\ pc' = [pc EXCEPT ![p] = pc'[p]] /\ pc'[p] \in Step
    /\ mem' = [mem EXCEPT ![p] = mem'[p]]

\* The steps of a session that write a task entry.
LEMMA TaskEntries ==
    ASSUME TypeOK, LastInv, WholeInv, NEW p \in Proc,
           Input(p) \/ Complete(p) \/ (Close(p) /\ mem[p].status = "running")
    PROVE  \E s \in State :
             /\ Becomes(p, s) /\ Follows(mem[p], s)
             /\ s.status = "complete" => Complete(p) /\ s.task = mem[p].task
  <1>1. mem[p] \in State  BY DEF TypeOK
  <1>2. CASE Input(p)
    <2>1. CASE mem[p].task < MaxTask /\ Becomes(p, [task |-> mem[p].task + 1, status |-> "running"])
      BY <2>1, <1>1, NextTask DEF Follows
    <2>2. CASE mem[p].status = "paused" /\ Becomes(p, [mem[p] EXCEPT !.status = "running"])
      BY <2>2, <1>1, StatusChanged DEF Follows
    <2>3. QED  BY <1>2, <2>1, <2>2 DEF Input
  <1>3. CASE Close(p) /\ mem[p].status = "running"
    BY <1>3, <1>1, StatusChanged DEF Close, Follows
  <1>4. CASE Complete(p)
    <2>1. mem[p].status = "running"  BY <1>4 DEF Complete, Accepts, WholeInv
    <2> DEFINE s == [mem[p] EXCEPT !.status = "complete"]
    <2>2. s \in State /\ s.task = mem[p].task /\ s.status = "complete"
      BY <2>1, <1>1, StatusChanged
    <2>3. Becomes(p, s)  BY <1>4 DEF Complete
    <2>4. Follows(mem[p], s)  BY <2>2 DEF Follows
    <2> HIDE DEF s
    <2>5. QED  BY <2>2, <2>3, <2>4, <1>4
  <1>5. QED  BY <1>2, <1>3, <1>4

\* A task entry keeps the types and the store; the process is elsewhere after it.
LEMMA TaskEntryKeeps ==
    ASSUME TypeOK, LastInv, WholeInv, NEW p \in Proc, NEW s \in State, Becomes(p, s),
           Kept(s), NEW to \in Step \ {"put", "entry"}, Goto(p, to),
           UNCHANGED <<file, applied, crashes, wrong, slipped>>,
           lease' \in [by : Proc \cup {None}, aged : BOOLEAN]
    PROVE  TypeOK' /\ LastInv' /\ WholeInv'
  <1>1. /\ Logs("task", s) /\ mem' = [mem EXCEPT ![p] = s] /\ pc' = [pc EXCEPT ![p] = to]
    BY DEF Becomes, Goto
  <1>2. TypeOK' /\ LastInv'  BY <1>1, OneMore DEF TypeOK
  <1>3. \A i \in DOMAIN journal' : Kept(journal'[i].state)  BY <1>1, OneMore
  <1>4. WholeInv'
    <2>1. \A q \in Proc : /\ mem'[q] = (IF q = p THEN s ELSE mem[q])
                           /\ pc'[q] = (IF q = p THEN to ELSE pc[q])
      BY <1>1 DEF TypeOK
    <2>2. QED  BY <2>1, <1>3 DEF WholeInv, Kept
  <1>5. QED  BY <1>2, <1>4

\* A step that neither writes an entry nor a file.
LEMMA QuietKeeps ==
    ASSUME TypeOK, LastInv, WholeInv, NEW p \in Proc,
           NEW to \in Step, Goto(p, to), UNCHANGED <<journal, file>>,
           NEW s \in State, mem' = [mem EXCEPT ![p] = s], Kept(s),
           to \in {"put", "entry"} => s.status = "running",
           to = "entry" => file[PatchOf[s.task]] = "whole",
           applied' \in 0 .. MaxApply, crashes' \in 0 .. MaxCrash, wrong' \in BOOLEAN, slipped' \in BOOLEAN,
           lease' \in [by : Proc \cup {None}, aged : BOOLEAN]
    PROVE  TypeOK' /\ LastInv' /\ WholeInv'
  <1>1. \A q \in Proc : /\ mem'[q] = (IF q = p THEN s ELSE mem[q])
                         /\ pc'[q] = (IF q = p THEN to ELSE pc[q])
    BY DEF TypeOK, Goto
  <1>2. TypeOK'  BY DEF TypeOK, Goto
  <1>3. LastInv'  BY DEF LastInv, Tasks
  <1>4. WholeInv'  BY <1>1 DEF WholeInv, Kept
  <1>5. QED  BY <1>2, <1>3, <1>4

\* A delivery is an artifact.
LEMMA Delivered ==
    ASSUME NEW s \in State, s.status # "none"
    PROVE  PatchOf[s.task] \in Artifact
  <1>1. s.task \in Task  BY ProfileAssumption DEF State, Task
  <1>2. QED  BY <1>1 DEF Artifact

\* A step of the store: no file that is whole is touched.
LEMMA StoreKeeps ==
    ASSUME TypeOK, LastInv, WholeInv, NEW p \in Proc, NEW to \in {"put", "entry"}, Goto(p, to),
           UNCHANGED <<lease, mem, journal, applied, crashes, wrong, slipped>>,
           mem[p].status = "running",
           NEW a \in Artifact, NEW f \in {"torn", "whole"},
           file' = [file EXCEPT ![a] = f], f = "whole" \/ file[a] # "whole",
           to = "entry" => f = "whole" /\ a = PatchOf[mem[p].task]
    PROVE  TypeOK' /\ LastInv' /\ WholeInv'
  <1>1. \A q \in Proc : pc'[q] = (IF q = p THEN to ELSE pc[q])  BY DEF TypeOK, Goto
  <1>2. \A b \in Artifact : file[b] = "whole" => file'[b] = "whole"  BY DEF TypeOK
  <1>3. file'[a] = f  BY DEF TypeOK
  <1>4. TypeOK'  BY DEF TypeOK, Goto, Step
  <1>5. LastInv'  BY DEF LastInv, Tasks
  <1>6. \A s \in State : Kept(s) => Kept(s)'  BY <1>2, Delivered DEF Kept
  <1>7. WholeInv'
    <2>1. \A i \in DOMAIN journal : Kept(journal[i].state)'
      BY <1>6, EntryType DEF WholeInv
    <2>2. \A q \in Proc : Kept(mem[q])'  BY <1>6 DEF WholeInv, TypeOK
    <2>3. \A q \in Proc : mem[q] \in State  BY DEF TypeOK
    <2>4. \A q \in Proc : pc'[q] \in {"put", "entry"} => mem[q].status = "running"
      BY <1>1 DEF WholeInv
    <2>5. ASSUME NEW q \in Proc, pc'[q] = "entry"
          PROVE  file'[PatchOf[mem[q].task]] = "whole"
      <3>1. CASE q = p /\ to = "entry"  BY <3>1, <1>3
      <3>2. CASE pc[q] = "entry"  BY <3>2, <1>2, <2>3, Delivered DEF WholeInv
      <3>3. QED  BY <3>1, <3>2, <2>5, <1>1
    <2>6. QED  BY <2>1, <2>2, <2>4, <2>5 DEF WholeInv, Kept
  <1>8. QED  BY <1>4, <1>5, <1>7

\* Every step keeps the types, the last entry and the references whole, also
\* when several processes believe to own the profile.
LEMMA StoreStep ==
    ASSUME TypeOK, LastInv, WholeInv, Next
    PROVE  TypeOK' /\ LastInv' /\ WholeInv'
  <1> DEFINE LeaseType == lease' \in [by : Proc \cup {None}, aged : BOOLEAN]
             Same(p) == mem' = [mem EXCEPT ![p] = mem[p]] /\ mem[p] \in State /\ Kept(mem[p])
  <1>1. /\ lease \in [by : Proc \cup {None}, aged : BOOLEAN]
        /\ applied \in 0 .. MaxApply /\ crashes \in 0 .. MaxCrash /\ wrong \in BOOLEAN /\ slipped \in BOOLEAN
        /\ MaxApply \in Nat /\ MaxCrash \in Nat
    BY ProfileAssumption DEF TypeOK
  <1>2. \A p \in Proc : UNCHANGED mem => Same(p)  BY DEF TypeOK, WholeInv
  <1>3. CASE Ages
    <2>1. LeaseType  BY <1>3, <1>1 DEF Ages
    <2>2. UNCHANGED <<pc, mem, journal, file, applied, crashes, wrong>>  BY <1>3 DEF Ages
    <2>3. slipped' \in BOOLEAN  BY <1>3 DEF Ages, Alive
    <2>4. QED  BY <2>1, <2>2, <2>3 DEF TypeOK, LastInv, Tasks, WholeInv, Kept
  <1>4. ASSUME NEW p \in Proc, Renews(p)
        PROVE  TypeOK' /\ LastInv' /\ WholeInv'
    <2>1. LeaseType  BY <1>4, <1>1 DEF Renews
    <2>2. UNCHANGED <<pc, mem, journal, file, applied, crashes, wrong, slipped>>  BY <1>4 DEF Renews
    <2>3. QED  BY <2>1, <2>2 DEF TypeOK, LastInv, Tasks, WholeInv, Kept
  <1>5. ASSUME NEW p \in Proc,
               \/ Compromised(p) \/ Release(p) \/ Git(p) \/ GitReturns(p) \/ Begin(p)
               \/ Patch(p) \/ PatchThrows(p) \/ Crash(p)
               \/ Close(p) /\ mem[p].status # "running"
        PROVE  TypeOK' /\ LastInv' /\ WholeInv'
    <2>1. \E to \in Step \ {"put", "entry"} : Goto(p, to)
      BY <1>5 DEF Compromised, Release, Git, GitReturns, Begin, Patch, PatchThrows, Crash,
                  Close, Lock, Step
    <2>2. UNCHANGED <<mem, journal, file>>
      BY <1>5 DEF Compromised, Release, Git, GitReturns, Begin, Patch, PatchThrows, Crash, Close
    <2>3. LeaseType
      <3>1. CASE Release(p)  BY <3>1 DEF Release
      <3>2. CASE Begin(p)  BY <3>2 DEF Begin, Lock
      <3>3. CASE ~Release(p) /\ ~Begin(p)
        <4>1. lease' = lease
          BY <1>5, <3>3 DEF Compromised, Git, GitReturns, Patch, PatchThrows, Crash, Close
        <4>2. QED  BY <4>1, <1>1
      <3>4. QED  BY <3>1, <3>2, <3>3
    <2>4. applied' \in 0 .. MaxApply /\ crashes' \in 0 .. MaxCrash
      BY <1>5, <1>1 DEF Compromised, Release, Git, GitReturns, Begin, Patch, PatchThrows,
                        Crash, Close
    <2>5. wrong' \in BOOLEAN /\ slipped' \in BOOLEAN
      BY <1>5, <1>1 DEF Compromised, Release, Git, GitReturns, Begin, Patch, PatchThrows,
                        Crash, Close
    <2>6. QED  BY <2>1, <2>2, <2>3, <2>4, <2>5, <1>2, QuietKeeps
  <1>6. ASSUME NEW p \in Proc, Open(p)
        PROVE  TypeOK' /\ LastInv' /\ WholeInv'
    <2>1. /\ Goto(p, "idle") /\ LeaseType /\ UNCHANGED <<file, applied, crashes, wrong, slipped>>
      BY <1>6, <1>1 DEF Open, Lock
    <2>2. "idle" \in Step \ {"put", "entry"}  BY DEF Step
    <2>3. CASE Restored = NoState
      <3>1. mem' = [mem EXCEPT ![p] = NoState] /\ UNCHANGED journal  BY <1>6, <2>3 DEF Open
      <3>2. NoState \in State /\ Kept(NoState)  BY LatestType DEF NoState, Kept
      <3>3. QED  BY <2>1, <2>2, <3>1, <3>2, <1>1, QuietKeeps
    <2>4. CASE Restored # NoState
      <3>1. Becomes(p, Restored)  BY <1>6, <2>4 DEF Open
      <3>2. QED  BY <2>1, <2>2, <3>1, RestoredType, TaskEntryKeeps
    <2>5. QED  BY <2>3, <2>4
  <1>7. ASSUME NEW p \in Proc, Input(p) \/ Complete(p) \/ (Close(p) /\ mem[p].status = "running")
        PROVE  TypeOK' /\ LastInv' /\ WholeInv'
    <2>1. PICK s \in State : /\ Becomes(p, s)
                             /\ s.status = "complete" => Complete(p) /\ s.task = mem[p].task
      BY <1>7, TaskEntries
    <2>2. Kept(s)  BY <2>1 DEF Kept, Complete, Accepts, WholeInv
    <2>3. \E to \in Step \ {"put", "entry"} : Goto(p, to)
      <3>1. CASE Input(p)
        <4>1. pc[p] = "idle" /\ pc' = pc  BY <3>1 DEF Input
        <4>2. Goto(p, "idle")  BY <4>1 DEF Goto, TypeOK
        <4>3. QED  BY <4>2 DEF Step
      <3>2. CASE Complete(p) \/ Close(p)  BY <3>2 DEF Complete, Close, Step
      <3>3. QED  BY <1>7, <3>1, <3>2
    <2>4. LeaseType /\ UNCHANGED <<file, applied, crashes, wrong, slipped>>
      BY <1>7, <1>1 DEF Input, Complete, Close
    <2>5. QED  BY <2>1, <2>2, <2>3, <2>4, TaskEntryKeeps
  <1>8. ASSUME NEW p \in Proc, Read(p)
        PROVE  TypeOK' /\ LastInv' /\ WholeInv'
    <2>1. /\ mem' = [mem EXCEPT ![p] = Latest] /\ LeaseType
          /\ UNCHANGED <<journal, file, applied, crashes, wrong, slipped>>
      BY <1>8, <1>1 DEF Read
    <2>2. \E to \in Step \ {"put", "entry"} : Goto(p, to)  BY <1>8 DEF Read, Step
    <2>3. QED  BY <2>1, <2>2, <1>1, LatestType, QuietKeeps
  <1>9. ASSUME NEW p \in Proc, RecordApplied(p)
        PROVE  TypeOK' /\ LastInv' /\ WholeInv'
    <2>1. /\ Logs("applied", mem[p]) /\ Goto(p, "release") /\ mem[p] \in State /\ Kept(mem[p])
          /\ UNCHANGED <<lease, mem, file, applied, crashes, wrong, slipped>>
      BY <1>9 DEF RecordApplied, TypeOK, WholeInv
    <2>2. TypeOK' /\ LastInv'  BY <2>1, OneMore DEF TypeOK, Goto, Step
    <2>3. \A i \in DOMAIN journal' : Kept(journal'[i].state)  BY <2>1, OneMore
    <2>4. \A q \in Proc : pc'[q] = IF q = p THEN "release" ELSE pc[q]  BY <2>1 DEF Goto, TypeOK
    <2>5. WholeInv'  BY <2>1, <2>3, <2>4 DEF WholeInv, Kept
    <2>6. QED  BY <2>2, <2>5
  <1>10. ASSUME NEW p \in Proc, Finish(p)
         PROVE  TypeOK' /\ LastInv' /\ WholeInv'
    <2> DEFINE a == PatchOf[mem[p].task]
    <2>1. /\ mem[p].status = "running" /\ file[a] \in {"none", "torn", "whole"} /\ a \in Artifact
          /\ UNCHANGED <<lease, mem, journal, applied, crashes, wrong, slipped>>
      <3>1. mem[p].status = "running"
            /\ UNCHANGED <<lease, mem, journal, applied, crashes, wrong, slipped>>
        BY <1>10 DEF Finish
      <3>2. a \in Artifact  BY <3>1, Delivered DEF TypeOK
      <3>3. QED  BY <3>1, <3>2 DEF TypeOK
    <2>2. CASE file[a] = "none"
      <3>1. Goto(p, "put") /\ file' = [file EXCEPT ![a] = "torn"]  BY <1>10, <2>2 DEF Finish
      <3>2. QED  BY <3>1, <2>1, <2>2, StoreKeeps
    <2>3. CASE file[a] = "whole"
      <3>1. Goto(p, "entry") /\ UNCHANGED file  BY <1>10, <2>3 DEF Finish
      <3>2. "entry" \in Step  BY DEF Step
      <3>3. QED  BY <3>1, <3>2, <2>1, <2>3, <1>1, <1>2, QuietKeeps
    <2>4. CASE file[a] = "torn"
      <3>1. UNCHANGED <<pc, file>>  BY <1>10, <2>4 DEF Finish
      <3>2. QED  BY <3>1, <2>1 DEF TypeOK, LastInv, Tasks, WholeInv, Kept
    <2>5. QED  BY <2>1, <2>2, <2>3, <2>4
  <1>11. ASSUME NEW p \in Proc, PutEnds(p)
         PROVE  TypeOK' /\ LastInv' /\ WholeInv'
    <2>1. /\ mem[p].status = "running" /\ Goto(p, "entry")
          /\ file' = [file EXCEPT ![PatchOf[mem[p].task]] = "whole"]
          /\ UNCHANGED <<lease, mem, journal, applied, crashes, wrong, slipped>>
      BY <1>11 DEF PutEnds, WholeInv
    <2>2. PatchOf[mem[p].task] \in Artifact  BY <2>1, Delivered DEF TypeOK
    <2>3. QED  BY <2>1, <2>2, StoreKeeps
  <1>12. QED
    BY <1>3, <1>4, <1>5, <1>6, <1>7, <1>8, <1>9, <1>10, <1>11 DEF Next, Leases, Session, Deliver

\* Only one process lives, and it may not be taken over.
LEMMA Alone ==
    ASSUME TypeOK, OwnerInv
    PROVE  /\ \A p, q \in Proc : Alive(p) /\ Alive(q) => p = q
           /\ Free => \A p \in Proc : ~Alive(p)
  BY ProfileAssumption DEF OwnerInv, Free

\* A step of the only process that lives.
LEMMA OwnerKeeps ==
    ASSUME TypeOK, NEW p \in Proc, \A q \in Proc : q # p => ~Alive(q),
           NEW to \in Step, Goto(p, to), \A q \in Proc : q # p => mem'[q] = mem[q],
           to # "off" => lease'.by = p /\ ~lease'.aged,
           to \in Working => mem'[p] = Latest', ~wrong', Forward'
    PROVE  OneInv'
  <1>1. \A q \in Proc : pc'[q] = (IF q = p THEN to ELSE "off")
    BY DEF TypeOK, Goto, Alive
  <1>2. OwnerInv'  BY <1>1 DEF OwnerInv, Alive
  <1>3. CurrentInv'  BY <1>1 DEF CurrentInv, Working
  <1>4. QED  BY <1>2, <1>3 DEF OneInv

\* No entry, no change of the last one.
LEMMA SameJournal ==
    ASSUME UNCHANGED journal
    PROVE  Latest' = Latest /\ (Forward => Forward')
  BY DEF Latest, Forward

\* That a command has outlasted a lease is not forgotten.
LEMMA SlippedStays == ASSUME Next, slipped PROVE slipped'
  BY DEF Next, Ages, Leases, Renews, Compromised, Release, Session, Open, Git, GitReturns,
         Input, Finish, PutEnds, Complete, Close, Deliver, Begin, Read, Patch, PatchThrows,
         RecordApplied, Crash

\* With commands that end while the lease is fresh, every step leaves one owner
\* that works with the last task entry.
LEMMA OneStep ==
    ASSUME TypeOK, LastInv, WholeInv, OneInv, ~slipped', Next
    PROVE  OneInv'
  <1> USE DEF OneInv
  <1>1. CASE Ages
    <2>1. \A p \in Proc : ~Alive(p)  BY <1>1 DEF Ages, OwnerInv
    <2>2. UNCHANGED <<pc, mem, journal, wrong>>  BY <1>1 DEF Ages
    <2>3. QED  BY <2>1, <2>2, SameJournal DEF OwnerInv, CurrentInv, Alive
  <1>2. ASSUME NEW p \in Proc, Open(p) \/ Begin(p)
        PROVE  OneInv'
    <2>1. \A q \in Proc : ~Alive(q)  BY <1>2, Alone DEF Open, Begin, Lock
    <2>2. lease'.by = p /\ ~lease'.aged  BY <1>2 DEF Open, Begin, Lock
    <2>3. CASE Begin(p)
      <3>1. Goto(p, "read") /\ UNCHANGED <<mem, journal, wrong, slipped>>  BY <2>3 DEF Begin, Lock
      <3>2. "read" \in Step /\ "read" \notin Working  BY DEF Step, Working
      <3>3. QED  BY <2>1, <2>2, <3>1, <3>2, SameJournal, OwnerKeeps DEF CurrentInv
    <2>4. CASE Open(p)
      <3>1. Goto(p, "idle") /\ UNCHANGED wrong  BY <2>4 DEF Open, Lock
      <3>2. "idle" \in Step  BY DEF Step
      <3>3. CASE Restored = NoState
        <4>1. mem' = [mem EXCEPT ![p] = NoState] /\ UNCHANGED journal  BY <2>4, <3>3 DEF Open
        <4>2. mem'[p] = Latest /\ \A q \in Proc : q # p => mem'[q] = mem[q]
          BY <4>1, <3>3, RestoredType DEF TypeOK
        <4>3. QED
          BY <2>1, <2>2, <3>1, <3>2, <4>1, <4>2, SameJournal, OwnerKeeps DEF CurrentInv
      <3>4. CASE Restored # NoState
        <4>1. /\ mem' = [mem EXCEPT ![p] = Restored] /\ Logs("task", Restored)
          BY <2>4, <3>4 DEF Open, Becomes
        <4>2. Latest' = Restored /\ Forward'  BY <4>1, RestoredType, OneMore
        <4>3. mem'[p] = Restored /\ \A q \in Proc : q # p => mem'[q] = mem[q]
          BY <4>1 DEF TypeOK
        <4>4. QED
          BY <2>1, <2>2, <3>1, <3>2, <4>2, <4>3, OwnerKeeps DEF CurrentInv
      <3>5. QED  BY <3>3, <3>4
    <2>5. QED  BY <1>2, <2>3, <2>4
  <1>3. ASSUME NEW p \in Proc, Alive(p)
        PROVE  /\ \A q \in Proc : q # p => ~Alive(q)
               /\ lease.by = p /\ ~lease.aged
               /\ pc[p] \in Working => mem[p] = Latest
    BY <1>3, Alone DEF OwnerInv, CurrentInv
  <1>4. ASSUME NEW p \in Proc, Renews(p) \/ Compromised(p)
        PROVE  FALSE
    BY <1>4, <1>3 DEF Renews, Compromised
  <1>5. ASSUME NEW p \in Proc,
               \/ Git(p) \/ GitReturns(p) \/ Finish(p) \/ PutEnds(p)
               \/ Close(p) /\ mem[p].status # "running"
               \/ PatchThrows(p) \/ Crash(p) \/ Release(p)
        PROVE  OneInv'
    <2>1. Alive(p) /\ UNCHANGED <<mem, journal, wrong, slipped>>
      BY <1>5 DEF Git, GitReturns, Finish, PutEnds, Close, PatchThrows, Crash, Release, Alive
    <2>2. \/ pc' = pc /\ lease' = lease
          \/ \E to \in Step :
               /\ Goto(p, to) /\ (to # "off" => lease' = lease)
               /\ to \in Working => pc[p] \in Working
      <3>1. CASE Finish(p)
        <4>1. PatchOf[mem[p].task] \in Artifact  BY <3>1, Delivered DEF Finish, TypeOK
        <4>2. file[PatchOf[mem[p].task]] \in {"none", "torn", "whole"}  BY <4>1 DEF TypeOK
        <4>3. QED  BY <4>2, <3>1 DEF Finish, Working, Step
      <3>2. CASE ~Finish(p)
        BY <1>5, <3>2 DEF Git, GitReturns, PutEnds, Close, PatchThrows, Crash, Release,
                          Working, Step
      <3>3. QED  BY <3>1, <3>2
    <2>3. CASE pc' = pc /\ lease' = lease
      BY <2>1, <2>3, SameJournal DEF OwnerInv, CurrentInv, Alive
    <2>4. QED  BY <2>1, <2>2, <2>3, <1>3, SameJournal, OwnerKeeps DEF CurrentInv
  <1>6. ASSUME NEW p \in Proc, Input(p) \/ Complete(p) \/ (Close(p) /\ mem[p].status = "running")
        PROVE  OneInv'
    <2>1. PICK s \in State : Becomes(p, s) /\ Follows(mem[p], s)  BY <1>6, TaskEntries
    <2>2. /\ Alive(p) /\ pc[p] \in Working /\ UNCHANGED <<lease, wrong, slipped>>
      BY <1>6 DEF Input, Complete, Accepts, Close, Alive, Working
    <2>3. \E to \in Step : Goto(p, to)
      <3>1. CASE Input(p)  BY <3>1 DEF Input, Goto, TypeOK
      <3>2. CASE Complete(p) \/ Close(p)  BY <3>2 DEF Complete, Close, Step
      <3>3. QED  BY <1>6, <3>1, <3>2
    <2>4. mem' = [mem EXCEPT ![p] = s] /\ Logs("task", s)  BY <2>1 DEF Becomes
    <2>5. mem'[p] = s /\ \A q \in Proc : q # p => mem'[q] = mem[q]  BY <2>4 DEF TypeOK
    <2>6. Latest' = s /\ Forward'  BY <2>1, <2>2, <2>4, <1>3, OneMore
    <2>7. QED  BY <2>2, <2>3, <2>5, <2>6, <1>3, OwnerKeeps DEF CurrentInv
  <1>7. ASSUME NEW p \in Proc, Read(p)
        PROVE  OneInv'
    <2>1. Alive(p) /\ UNCHANGED <<lease, journal, wrong, slipped>>  BY <1>7 DEF Read, Alive
    <2>2. \E to \in Step : Goto(p, to)  BY <1>7 DEF Read, Step
    <2>3. mem'[p] = Latest /\ \A q \in Proc : q # p => mem'[q] = mem[q]
      BY <1>7 DEF Read, TypeOK
    <2>4. QED  BY <2>1, <2>2, <2>3, <1>3, SameJournal, OwnerKeeps DEF CurrentInv
  <1>8. ASSUME NEW p \in Proc, Patch(p)
        PROVE  OneInv'
    <2>1. Alive(p) /\ pc[p] \in Working  BY <1>8 DEF Patch, Alive, Working
    <2>2. /\ Goto(p, "record") /\ UNCHANGED <<lease, mem, journal>>
          /\ wrong' = (wrong \/ mem[p] # Latest)
      BY <1>8 DEF Patch
    <2>3. ~wrong'  BY <2>1, <2>2, <1>3 DEF CurrentInv
    <2>4. "record" \in Step  BY DEF Step
    <2>5. QED  BY <2>1, <2>2, <2>3, <2>4, <1>3, SameJournal, OwnerKeeps
  <1>9. ASSUME NEW p \in Proc, RecordApplied(p)
        PROVE  OneInv'
    <2>1. Alive(p)  BY <1>9 DEF RecordApplied, Alive
    <2>2. /\ Goto(p, "release") /\ UNCHANGED <<lease, mem, wrong, slipped>> /\ Logs("applied", mem[p])
      BY <1>9 DEF RecordApplied
    <2>3. mem[p] \in State  BY DEF TypeOK
    <2>4. Forward'  BY <2>2, <2>3, OneMore
    <2>5. "release" \in Step /\ "release" \notin Working  BY DEF Step, Working
    <2>6. QED  BY <2>1, <2>2, <2>4, <2>5, <1>3, OwnerKeeps DEF CurrentInv
  <1>10. QED
    BY <1>1, <1>2, <1>4, <1>5, <1>6, <1>7, <1>8, <1>9 DEF Next, Leases, Session, Deliver

-----------------------------------------------------------------------------
(* The theorems.                                                           *)

\* The invariant is inductive.
LEMMA InvHolds == Spec => []IInv
  <1>1. Init => IInv
    <2> SUFFICES ASSUME Init PROVE IInv  OBVIOUS
    <2>1. TypeOK
      <3>1. NoState \in State  BY ProfileAssumption DEF State, NoState, Status
      <3>2. 0 \in 0 .. MaxApply /\ 0 \in 0 .. MaxCrash  BY ProfileAssumption
      <3>3. journal \in Seq([kind : {"task", "applied"}, state : State])  BY DEF Init
      <3>4. file \in [Artifact -> {"none", "torn", "whole"}]  BY DEF Init
      <3>5. pc \in [Proc -> Step] /\ mem \in [Proc -> State]  BY <3>1 DEF Init, Step
      <3>6. lease \in [by : Proc \cup {None}, aged : BOOLEAN]  BY DEF Init
      <3>7. QED  BY <3>2, <3>3, <3>4, <3>5, <3>6 DEF Init, TypeOK
    <2>2. LastInv  BY DEF Init, LastInv, Tasks
    <2>3. WholeInv  BY DEF Init, WholeInv, Kept, NoState
    <2>4. OneInv  BY DEF Init, OneInv, OwnerInv, Alive, CurrentInv, Working, Forward
    <2>5. QED  BY <2>1, <2>2, <2>3, <2>4 DEF IInv
  <1>2. IInv /\ [Next]_vars => IInv'
    <2> SUFFICES ASSUME IInv, [Next]_vars PROVE IInv'  OBVIOUS
    <2>1. CASE Next
      <3>1. TypeOK' /\ LastInv' /\ WholeInv'  BY <2>1, StoreStep DEF IInv
      <3>2. ~slipped' => ~slipped  BY <2>1, SlippedStays
      <3>3. QED  BY <2>1, <3>1, <3>2, OneStep DEF IInv
    <2>2. CASE UNCHANGED vars
      <3>1. TypeOK' /\ LastInv' /\ WholeInv'
        BY <2>2 DEF IInv, vars, TypeOK, LastInv, Tasks, WholeInv, Kept
      <3>2. OneInv => OneInv'
        BY <2>2, SameJournal DEF vars, OneInv, OwnerInv, Alive, CurrentInv
      <3>3. slipped' = slipped  BY <2>2 DEF vars
      <3>4. QED  BY <3>1, <3>2, <3>3 DEF IInv
    <2>3. QED  BY <2>1, <2>2
  <1>3. QED  BY <1>1, <1>2, PTL DEF Spec

\* Every variable keeps its type, for any number of processes and tasks.
THEOREM TypesHold == Spec => []TypeOK
  <1>1. IInv => TypeOK  BY DEF IInv
  <1>2. QED  BY <1>1, InvHolds, PTL

\* What the journal accepts is in the store, whole, even while several processes
\* own the profile and whichever of them ends.
THEOREM ReferencesAreWhole == Spec => []RefsWhole
  <1>1. IInv => RefsWhole  BY DEF IInv, WholeInv, Kept, RefsWhole
  <1>2. QED  BY <1>1, InvHolds, PTL

\* As long as every synchronous command has ended before the lease was stale, the
\* profile has one owner.
THEOREM OneOwnerPerProfile == Spec => []OneOwner
  <1>1. IInv => OneOwner  BY Alone DEF IInv, OneInv, OneOwner
  <1>2. QED  BY <1>1, InvHolds, PTL

\* Then what git applies is the delivery that the session accepted last.
THEOREM TheCurrentIsApplied == Spec => []AppliedIsCurrent
  <1>1. IInv => AppliedIsCurrent  BY DEF IInv, OneInv, CurrentInv, AppliedIsCurrent
  <1>2. QED  BY <1>1, InvHolds, PTL

\* Then the tasks of the journal only go forward, and none leaves acceptance.
THEOREM AcceptanceIsFinal == Spec => []AcceptedOnce
  <1>1. IInv => AcceptedOnce  BY DEF IInv, OneInv, AcceptedOnce
  <1>2. QED  BY <1>1, InvHolds, PTL
=============================================================================
