---------------------------- MODULE Automations ----------------------------
(***************************************************************************)
(* Scheduled automations: the list of automations and the append-only run  *)
(* ledger, two files that the desktop application and the optional daemon  *)
(* (pi-app automation daemon) share, and the runners that work on them:    *)
(*                                                                         *)
(*   "scheduler"  the host scheduler of the desktop process                *)
(*   "button"     Run now, in the interface of the desktop process         *)
(*   "daemon"     the scheduler of the daemon process                      *)
(*                                                                         *)
(* The two schedulers claim an automation with a lock on a file that they  *)
(* open, create if it is missing, and remove when they let go: the lock is *)
(* on the file opened, which may no longer be the one at the path.         *)
(* An update of the list reads the whole file, changes one row and        *)
(* writes the file back: only the write is under the lock of the file, so  *)
(* an update is two steps, Load and Save.  A row of the ledger is written  *)
(* under a mutex of the process: the updates of one process are single     *)
(* steps, those where the two processes may meet on one run are split.     *)
(*                                                                         *)
(* Time is a slot number (day), which decides what is due, and a counter   *)
(* of the time stamps taken (stamp), which orders starts and marks.  0 is  *)
(* the absent value of both.                                               *)
(***************************************************************************)
EXTENDS Naturals, FiniteSets, Sequences

CONSTANTS
    Automation,  \* ids of the automations
    Once,        \* those of frequency "once"
    Runner,      \* runners of this instance
    Edit,        \* edits the user makes in the interface
    None,        \* no claim, run or update
    MaxDay,      \* bound: slots that come
    MaxRuns,     \* bound: runs in the ledger
    MaxEdits,    \* bound: edits
    MaxCrash     \* bound: processes that end, together

ASSUME AutomationsAssumption ==
    /\ IsFiniteSet(Automation) /\ Once \subseteq Automation
    /\ None \notin Nat
    /\ Runner \subseteq {"scheduler", "button", "daemon"}
    /\ Edit \subseteq {"off", "on", "delete"}
    /\ {MaxDay, MaxRuns, MaxEdits, MaxCrash} \subseteq Nat

File     == 1 .. Cardinality(Automation) + Cardinality(Runner)
Process  == {"desktop", "daemon"}
Writer   == Runner \cup {"user", "session"}
Deleted  == [gone |-> TRUE]
Row      == [on : BOOLEAN, next : Nat, last : Nat, err : BOOLEAN]
List     == [Automation -> Row \cup {Deleted}]
Terminal == {"completed", "failed", "interrupted", "cancelled"}
Status   == {"started", "dispatched"} \cup Terminal
Run      == [auto : Automation, by : Runner, slot : Nat, at : Nat,
             status : Status]

ProcessOf(w) == IF w = "daemon" THEN "daemon" ELSE "desktop"

VARIABLES
    day,     \* the latest slot that has come
    stamp,   \* time stamps taken so far
    list,    \* automations.json
    ledger,  \* the latest row of every run in automation-runs.jsonl
    old,     \* runs whose latest row is ten minutes old
    turn,    \* history: the agent turn of each run, "done" when it ended well,
             \* "over" in any other way, "dead" with its process
    active,  \* runs that are still the active run of their session
    after,   \* history: runs settled by another turn of their session, done
    proc,    \* each process: "down", "starting" (the desktop reconciles), "up"
    path,    \* the claim file that lies at each automation's path
    open,    \* the claim file each runner has open
    locked,  \* the runners that hold the lock of the file they opened
    job,     \* what each runner does
    upd,     \* each writer's update of the list between its read and its write
    entry,   \* a ledger update of each process between its read and its write
    stale,   \* runs the starting desktop still has to reconcile
    edits, crashes,  \* bounds: edits made, processes ended
    paused   \* history: automations the user has switched off

claims == <<path, open, locked>>
links  == <<active, after>>

vars == <<day, stamp, list, ledger, old, turn, links, proc, claims, job, upd, entry,
          stale, edits, crashes, paused>>
-----------------------------------------------------------------------------
(* The list: what an update makes of the row it read.                      *)

NextRunAt(a, row, from) == IF a \in Once \/ ~row.on THEN 0 ELSE from + 1

IsDue(row, now) == row # Deleted /\ row.on /\ row.next \in 1 .. now

Marked(row, op) ==
    CASE op.kind = "ran"     -> [row EXCEPT !.next = op.next, !.last = op.at,
                                            !.err = FALSE]
      [] op.kind = "failed"  -> [row EXCEPT !.next = op.next, !.last = op.at,
                                            !.err = TRUE,
                                            !.on = @ /\ op.auto \notin Once]
      [] op.kind = "outcome" -> IF row.last <= op.at
                                THEN [row EXCEPT !.last = op.at,
                                                 !.err = op.status # "completed"]
                                ELSE row
      [] op.kind = "off"     -> [row EXCEPT !.on = FALSE]
      [] op.kind = "on"      -> [row EXCEPT !.on = TRUE]
      [] op.kind = "delete"  -> Deleted

\* A row that was not in the file the update read is an error.
Found(u) == u.seen[u.op.auto] # Deleted

Written(u) == [u.seen EXCEPT ![u.op.auto] = Marked(@, u.op)]

Load(w, op) ==
    /\ upd[w] = None
    /\ upd' = [upd EXCEPT ![w] = [seen |-> list, op |-> op]]

Save(w) ==
    /\ upd[w] # None
    /\ list' = IF Found(upd[w]) THEN Written(upd[w]) ELSE list
    /\ upd' = [upd EXCEPT ![w] = None]
-----------------------------------------------------------------------------
(* The ledger.                                                             *)

RunId == 1 .. Len(ledger)

\* finish(): a terminal row stays as it is; an update always appends a row.
Finished(row, status) ==
    IF row.status \in Terminal THEN row ELSE [row EXCEPT !.status = status]

\* Mutant: without the test for a terminal row.
DispatchedAgain(row) == [row EXCEPT !.status = "dispatched"]

Dispatched(row) ==
    IF row.status \in Terminal THEN row ELSE [row EXCEPT !.status = "dispatched"]

Touch(r, row) == ledger' = [ledger EXCEPT ![r] = row] /\ old' = old \ {r}
-----------------------------------------------------------------------------
(* Runners.  A job is idle, walks the rows that were due at its tick       *)
(* ("scan"), or runs one automation.                                       *)

Idle == [pc |-> "idle", todo |-> {}, now |-> 0, at |-> 0, auto |-> None,
         row |-> Deleted, run |-> None]

Up(w) == proc[ProcessOf(w)] = "up"
At(w, pc) == Up(w) /\ job[w].pc = pc
Goto(w, pc) == job' = [job EXCEPT ![w].pc = pc]

\* The end of an iteration: the claim is dropped, the next row is taken up.
Scanning(j) == IF j.todo = {} THEN Idle
               ELSE [Idle EXCEPT !.pc = "scan", !.todo = j.todo, !.now = j.now,
                                 !.at = j.at]

\* Drop: unlock, then remove whatever lies at the path.
Unlocked(w) == locked \ {w}
Removed(w) == IF w \in locked THEN [path EXCEPT ![job[w].auto] = None] ELSE path

Release(w) ==
    /\ locked' = Unlocked(w) /\ path' = Removed(w)
    /\ open' = [open EXCEPT ![w] = None]
    /\ job' = [job EXCEPT ![w] = Scanning(@)]

Tick(w) ==
    /\ w \in Runner \ {"button"} /\ At(w, "idle")
    /\ LET due == {<<a, list[a]>> : a \in {b \in Automation : IsDue(list[b], day)}}
       IN /\ due # {}
          /\ job' = [job EXCEPT ![w] = [Idle EXCEPT !.pc = "scan", !.todo = due,
                                                    !.now = day, !.at = stamp]]
    /\ UNCHANGED <<day, stamp, list, ledger, old, turn, links, proc, claims,
                   upd, entry, stale, edits, crashes, paused>>

\* lock_exclusive opens the file at the path, creates it if it is missing,
\* and polls the lock of that file for three seconds.
New == CHOOSE f \in File : f \notin {path[a] : a \in Automation}
                                   \cup {open[w] : w \in Runner}

OpenClaim(w) ==
    /\ At(w, "scan")
    /\ \E due \in job[w].todo :
         LET file == IF path[due[1]] = None THEN New ELSE path[due[1]]
         IN /\ path' = [path EXCEPT ![due[1]] = file]
            /\ open' = [open EXCEPT ![w] = file]
            /\ job' = [job EXCEPT ![w].todo = @ \ {due}, ![w].auto = due[1],
                                  ![w].row = due[2], ![w].pc = "claim"]
    /\ UNCHANGED <<day, stamp, list, ledger, old, turn, links, proc, locked,
                   upd, entry, stale, edits, crashes, paused>>

Taken(w) == \E v \in locked : open[v] = open[w]

Claim(w) ==
    /\ At(w, "claim") /\ ~Taken(w)
    /\ locked' = locked \cup {w}
    /\ Goto(w, IF w = "daemon" THEN "reread" ELSE "start")
    /\ UNCHANGED <<day, stamp, list, ledger, old, turn, links, proc, path, open,
                   upd, entry, stale, edits, crashes, paused>>

\* Busy for three seconds: the row is skipped, nothing is removed.
Skip(w) ==
    /\ At(w, "claim") /\ Taken(w)
    /\ Release(w)
    /\ UNCHANGED <<day, stamp, list, ledger, old, turn, links, proc, upd, entry,
                   stale, edits, crashes, paused>>

\* Only the daemon looks at the list again once it holds the claim.
Reread(w) ==
    /\ At(w, "reread")
    /\ LET row == list[job[w].auto]
       IN IF IsDue(row, job[w].now)
          THEN /\ job' = [job EXCEPT ![w].row = row, ![w].pc = "start"]
               /\ UNCHANGED claims
          ELSE Release(w)
    /\ UNCHANGED <<day, stamp, list, ledger, old, turn, links, proc, upd, entry,
                   stale, edits, crashes, paused>>

\* Run now: no claim, whatever the schedule says.
Press(a) ==
    /\ "button" \in Runner /\ At("button", "idle") /\ list[a] # Deleted
    /\ Len(ledger) < MaxRuns
    /\ job' = [job EXCEPT !["button"] = [Idle EXCEPT !.pc = "start", !.auto = a,
                                                     !.row = list[a]]]
    /\ UNCHANGED <<day, stamp, list, ledger, old, turn, links, proc, claims,
                   upd, entry, stale, edits, crashes, paused>>
-----------------------------------------------------------------------------
(* One run: the ledger row, the session, the prompt, the marks.            *)

StartRun(w) ==
    /\ At(w, "start") /\ Len(ledger) < MaxRuns /\ entry[ProcessOf(w)] = None
    /\ stamp' = stamp + 1
    /\ ledger' = Append(ledger, [auto |-> job[w].auto, by |-> w,
                                 slot |-> IF w = "button" THEN 0
                                          ELSE job[w].row.next,
                                 at |-> stamp', status |-> "started"])
    /\ turn' = Append(turn, "none")
    /\ active' = IF w = "button" THEN active \cup {Len(ledger')} ELSE active
    /\ job' = [job EXCEPT ![w].run = Len(ledger'), ![w].pc = "open"]
    /\ UNCHANGED <<day, list, old, after, proc, claims, upd, entry, stale,
                   edits, crashes, paused>>

\* attach_session writes the run's row, attach_automation_run makes the run the
\* active one of its session; Run now has done both at its start.
Open(w) ==
    /\ At(w, "open") /\ entry[ProcessOf(w)] = None
    /\ IF w = "button" THEN UNCHANGED <<ledger, old, active>>
       ELSE /\ Touch(job[w].run, ledger[job[w].run])
            /\ active' = active \cup {job[w].run}
    /\ Goto(w, "send")
    /\ UNCHANGED <<day, stamp, list, turn, after, proc, claims, upd, entry,
                   stale, edits, crashes, paused>>

\* Connected and sent.  The daemon waits for the end of the turn.
Send(w) ==
    /\ At(w, "send")
    /\ turn' = [turn EXCEPT ![job[w].run] = "running"]
    /\ Goto(w, CASE w = "scheduler" -> "dispatched" [] w = "button" -> "mark"
                 [] w = "daemon" -> "await")
    /\ UNCHANGED <<day, stamp, list, ledger, old, links, proc, claims, upd,
                   entry, stale, edits, crashes, paused>>

\* A step before the prompt fails: an untrusted project, a connect, a write.
Fail(w) ==
    /\ At(w, "open") \/ At(w, "send")
    /\ Goto(w, "fail")
    /\ UNCHANGED <<day, stamp, list, ledger, old, turn, links, proc, claims,
                   upd, entry, stale, edits, crashes, paused>>

Over(end) == IF end = "done" THEN "done" ELSE "over"

AwaitEnds(end) ==
    /\ "daemon" \in Runner /\ At("daemon", "await")
    /\ turn' = [turn EXCEPT ![job["daemon"].run] = Over(end)]
    /\ Goto("daemon", IF end = "done" THEN "dispatched" ELSE "fail")
    /\ UNCHANGED <<day, stamp, list, ledger, old, links, proc, claims, upd,
                   entry, stale, edits, crashes, paused>>

MarkDispatched(w) ==
    /\ At(w, "dispatched") /\ entry[ProcessOf(w)] = None
    /\ Touch(job[w].run, Dispatched(ledger[job[w].run]))
    /\ Goto(w, "mark")
    /\ UNCHANGED <<day, stamp, list, turn, links, proc, claims, upd, entry,
                   stale, edits, crashes, paused>>

\* The update of the list that a runner is about to make: mark_automation_run,
\* set_automation_enabled(false) after it, or what follows a failed run:
\* mark_automation_failure, dated at its tick by the desktop scheduler, or the
\* outcome that automation_run_finish writes for Run now.
Update(w) ==
    LET j == job[w]
        a == j.auto
        late == w = "scheduler"
    IN CASE j.pc = "mark"    -> [kind |-> "ran", auto |-> a, at |-> stamp + 1,
                                 next |-> IF w = "button"
                                          THEN IF a \in Once THEN 0 ELSE day + 1
                                          ELSE NextRunAt(a, j.row, day)]
         [] j.pc = "disable" -> [kind |-> "off", auto |-> a]
         [] j.pc = "outcome" -> [kind |-> "outcome", auto |-> a,
                                 at |-> ledger[j.run].at,
                                 status |-> ledger[j.run].status]
         [] j.pc = "failed"  -> [kind |-> "failed", auto |-> a,
                                 at |-> IF late THEN j.at ELSE stamp + 1,
                                 next |-> NextRunAt(a, j.row,
                                                    IF late THEN j.now ELSE day)]

Marking(w) == job[w].pc \in {"mark", "disable", "outcome", "failed"}

MarkLoad(w) ==
    /\ Up(w) /\ Marking(w)
    /\ Load(w, Update(w))
    /\ stamp' = stamp + 1
    /\ UNCHANGED <<day, list, ledger, old, turn, links, proc, claims, job,
                   entry, stale, edits, crashes, paused>>

\* Mutant: the daemon drops the run after its last mark.
AfterMarkEnds(w) ==
    IF job[w].pc \in {"outcome", "failed"} THEN "end"
    ELSE IF ~Found(upd[w]) THEN "fail"
    ELSE IF job[w].pc = "mark" /\ job[w].auto \in Once THEN "disable"
    ELSE "end"

\* What follows a mark: a failed one (the row was deleted) fails the run.
AfterMark(w) ==
    IF job[w].pc \in {"outcome", "failed"} THEN "end"
    ELSE IF ~Found(upd[w]) THEN "fail"
    ELSE IF job[w].pc = "mark" /\ job[w].auto \in Once THEN "disable"
    ELSE IF w = "daemon" THEN "finish"
    ELSE "end"

MarkSave(w) ==
    /\ Up(w) /\ Marking(w)
    /\ Save(w)
    /\ IF AfterMark(w) = "end" THEN Release(w)
       ELSE Goto(w, AfterMark(w)) /\ UNCHANGED claims
    /\ UNCHANGED <<day, stamp, ledger, old, turn, links, proc, entry, stale,
                   edits, crashes, paused>>

\* finish(run, completed or failed), split between its read and its append.
FinishRead(w) ==
    /\ At(w, "finish") \/ At(w, "fail")
    /\ entry[ProcessOf(w)] = None
    /\ entry' = [entry EXCEPT ![ProcessOf(w)] =
                   [run |-> job[w].run, by |-> w, row |-> ledger[job[w].run]]]
    /\ UNCHANGED <<day, stamp, list, ledger, old, turn, links, proc, claims,
                   job, upd, stale, edits, crashes, paused>>

FinishAppend(w) ==
    LET e == entry[ProcessOf(w)]
    IN /\ At(w, "finish") \/ At(w, "fail")
       /\ e # None /\ e.by = w
       /\ Touch(e.run, Finished(e.row, IF job[w].pc = "finish" THEN "completed"
                                       ELSE "failed"))
       /\ entry' = [entry EXCEPT ![ProcessOf(w)] = None]
       /\ IF job[w].pc = "fail"
          THEN Goto(w, IF w = "button" THEN "outcome" ELSE "failed")
               /\ UNCHANGED claims
          ELSE Release(w)
       /\ UNCHANGED <<day, stamp, list, turn, links, proc, upd, stale, edits,
                      crashes, paused>>
-----------------------------------------------------------------------------
(* The desktop's sessions (settle_automation_run).  A session keeps its     *)
(* active run until one of its turns is settled: an error, a stop or the    *)
(* end of the agent, and of the turns that end well those in the background *)
(* and, in focus, those without a tool call.  Any other end leaves the run  *)
(* to the next turn that is settled, which may be one of the user's own, in *)
(* the session of a run of the daemon too.                                  *)

\* Mutant: only errors are not completions.
StatusOfExit(end) == CASE end \in {"done", "exit"} -> "completed"
                       [] end = "error" -> "failed" [] end = "stop" -> "cancelled"

StatusOf(end) == CASE end = "done" -> "completed" [] end = "error" -> "failed"
                   [] end = "exit" -> "interrupted" [] end = "stop" -> "cancelled"

\* The row is finished, then the summary of the automation updated.
Settled(r, end) ==
    /\ proc["desktop"] = "up" /\ entry["desktop"] = None
    /\ r \in active /\ active' = active \ {r}
    /\ Touch(r, Finished(ledger[r], StatusOf(end)))
    /\ Load("session", [kind |-> "outcome", auto |-> ledger[r].auto,
                        at |-> ledger[r].at, status |-> ledger'[r].status])
    /\ UNCHANGED <<day, stamp, list, proc, claims, job, entry, stale, edits,
                   crashes, paused>>

OfDesktop(r) == r \in RunId /\ ledger[r].by # "daemon"

Settle(r, end) ==
    /\ OfDesktop(r) /\ turn[r] = "running"
    /\ Settled(r, end)
    /\ turn' = [turn EXCEPT ![r] = Over(end)] /\ UNCHANGED after

\* The turn of r ends and is not settled: it has used a tool in focus, it is
\* cut by a disconnect or a new start of the agents, or r was settled before.
TurnEnds(r, end) ==
    /\ proc["desktop"] = "up" /\ OfDesktop(r) /\ turn[r] = "running"
    /\ turn' = [turn EXCEPT ![r] = Over(end)]
    /\ UNCHANGED <<day, stamp, list, ledger, old, links, proc, claims, job, upd,
                   entry, stale, edits, crashes, paused>>

\* Another turn of the session of r is settled.  During the turn of r itself
\* that is the failed prompt of another session: its error goes to the session
\* that has the focus by then.
OtherTurn(r, end) ==
    /\ OfDesktop(r) /\ turn[r] = "running" => end = "error"
    /\ Settled(r, end)
    /\ after' = IF end = "done" THEN after \cup {r} ELSE after
    /\ UNCHANGED turn

SettleSave ==
    /\ proc["desktop"] # "down"
    /\ Save("session")
    /\ UNCHANGED <<day, stamp, ledger, old, turn, links, proc, claims, job,
                   entry, stale, edits, crashes, paused>>
-----------------------------------------------------------------------------
(* The user's edits, the passing of time, ends and starts of processes.    *)

EditLoad(a, e) ==
    /\ proc["desktop"] = "up" /\ edits < MaxEdits /\ list[a] # Deleted
    /\ Load("user", [kind |-> e, auto |-> a])
    /\ edits' = edits + 1
    /\ UNCHANGED <<day, stamp, list, ledger, old, turn, links, proc, claims,
                   job, entry, stale, crashes, paused>>

EditSave ==
    /\ proc["desktop"] = "up"
    /\ Save("user")
    /\ paused' = IF upd["user"].op.kind = "off" /\ Found(upd["user"])
                 THEN paused \cup {upd["user"].op.auto}
                 ELSE paused \ {upd["user"].op.auto}
    /\ UNCHANGED <<day, stamp, ledger, old, turn, links, proc, claims, job,
                   entry, stale, edits, crashes>>

\* Ten minutes or more pass, perhaps up to the next slot.
Later ==
    /\ old' = RunId
    /\ day' \in {day, day + 1} /\ day' <= MaxDay
    /\ <<day', old'>> # <<day, old>>
    /\ UNCHANGED <<stamp, list, ledger, turn, links, proc, claims, job, upd,
                   entry, stale, edits, crashes, paused>>

InFlight(r) == r \in RunId /\ ledger[r].status \notin Terminal

\* A process ends, by quitting or by a crash: its locks are gone with it, and
\* the runs it had not finished die.
OfProcess(p) == {w \in Runner : ProcessOf(w) = p}

\* Mutant: the claim of a process that has ended remains.
ClaimsStay(p) == UNCHANGED <<open, locked>>
ClaimsEnd(p) ==
    /\ open' = [w \in Runner |-> IF w \in OfProcess(p) THEN None ELSE open[w]]
    /\ locked' = locked \ OfProcess(p)

End(p) ==
    /\ proc[p] # "down" /\ crashes < MaxCrash
    /\ crashes' = crashes + 1
    /\ proc' = [proc EXCEPT ![p] = "down"]
    /\ job' = [w \in Runner |-> IF w \in OfProcess(p) THEN Idle ELSE job[w]]
    /\ ClaimsEnd(p)
    /\ upd' = [w \in Writer |-> IF ProcessOf(w) = p THEN None ELSE upd[w]]
    /\ entry' = [entry EXCEPT ![p] = None]
    /\ turn' = [r \in RunId |->
                  IF /\ ProcessOf(ledger[r].by) = p
                     /\ \/ turn[r] = "running"
                        \/ InFlight(r) /\ \E w \in Runner : job[w].run = r
                  THEN "dead" ELSE turn[r]]
    /\ stale' = IF p = "desktop" THEN {} ELSE stale
    /\ UNCHANGED <<day, stamp, list, ledger, old, path, edits, paused, links>>

\* reconcile_stale: the runs in flight without news for ten minutes.
StaleRuns == {r \in old : InFlight(r)}

Start(p) ==
    /\ proc[p] = "down"
    /\ proc' = [proc EXCEPT ![p] = IF p = "desktop" THEN "starting" ELSE "up"]
    /\ stale' = IF p = "desktop" THEN StaleRuns ELSE stale
    /\ UNCHANGED <<day, stamp, list, ledger, old, turn, links, claims, job, upd,
                   entry, edits, crashes, paused>>

ReconcileRead(r) ==
    /\ proc["desktop"] = "starting" /\ r \in stale
    /\ entry["desktop"] = None /\ upd["session"] = None
    /\ entry' = [entry EXCEPT !["desktop"] =
                   [run |-> r, by |-> "session", row |-> ledger[r]]]
    /\ stale' = stale \ {r}
    /\ UNCHANGED <<day, stamp, list, ledger, old, turn, links, proc, claims,
                   job, upd, edits, crashes, paused>>

ReconcileAppend ==
    LET e == entry["desktop"]
    IN /\ proc["desktop"] = "starting" /\ e # None
       /\ Touch(e.run, Finished(e.row, "interrupted"))
       /\ Load("session", [kind |-> "outcome", auto |-> e.row.auto,
                           at |-> e.row.at, status |-> ledger'[e.run].status])
       /\ entry' = [entry EXCEPT !["desktop"] = None]
       /\ UNCHANGED <<day, stamp, list, turn, links, proc, claims, job, stale,
                      edits, crashes, paused>>

Started ==
    /\ proc["desktop"] = "starting" /\ stale = {}
    /\ entry["desktop"] = None /\ upd["session"] = None
    /\ proc' = [proc EXCEPT !["desktop"] = "up"]
    /\ UNCHANGED <<day, stamp, list, ledger, old, turn, links, claims, job, upd,
                   entry, stale, edits, crashes, paused>>
-----------------------------------------------------------------------------
Init ==
    /\ day = 0 /\ stamp = 0
    /\ list = [a \in Automation |->
                 [on |-> TRUE, next |-> 1, last |-> 0, err |-> FALSE]]
    /\ ledger = <<>> /\ turn = <<>> /\ old = {}
    /\ active = {} /\ after = {}
    /\ proc = [p \in Process |-> "up"]
    /\ path = [a \in Automation |-> None]
    /\ open = [w \in Runner |-> None] /\ locked = {}
    /\ job = [w \in Runner |-> Idle]
    /\ upd = [w \in Writer |-> None]
    /\ entry = [p \in Process |-> None]
    /\ stale = {} /\ edits = 0 /\ crashes = 0 /\ paused = {}

RunStep(w) == \/ StartRun(w) \/ Open(w) \/ Send(w) \/ MarkDispatched(w)
              \/ MarkLoad(w) \/ MarkSave(w) \/ FinishRead(w) \/ FinishAppend(w)

Ends == {"done", "error"}

Walk(w) == Tick(w) \/ OpenClaim(w) \/ Claim(w) \/ Skip(w) \/ Reread(w) \/ RunStep(w)

Reconcile == (\E r \in stale : ReconcileRead(r)) \/ ReconcileAppend \/ Started

Next ==
    \/ \E w \in Runner : Walk(w) \/ Fail(w)
    \/ \E a \in Automation : Press(a)
    \/ \E end \in Ends : AwaitEnds(end)
    \/ \E r \in RunId, end \in Ends \cup {"exit", "stop"} :
         Settle(r, end) \/ OtherTurn(r, end)
    \/ \E r \in RunId, end \in {"done", "cut"} : TurnEnds(r, end)
    \/ SettleSave
    \/ \E a \in Automation, e \in Edit : EditLoad(a, e)
    \/ EditSave \/ Later
    \/ \E p \in Process : End(p) \/ Start(p)
    \/ Reconcile

Spec == Init /\ [][Next]_vars

\* The steps of a running process happen; a turn of the daemon ends, by its
\* timers.  Nothing makes a turn of the desktop be settled, the user act, a
\* process end or start, a step fail, or time pass.
FairSpec ==
    /\ Spec
    /\ \A w \in Runner : WF_vars(Walk(w))
    /\ WF_vars(\E end \in Ends : AwaitEnds(end))
    /\ WF_vars(SettleSave) /\ WF_vars(EditSave) /\ WF_vars(Reconcile)
-----------------------------------------------------------------------------
JobType ==
    [pc : {"idle", "scan", "claim", "reread", "start", "open", "send", "await",
           "dispatched", "mark", "disable", "finish", "fail", "failed",
           "outcome"},
     todo : SUBSET (Automation \X Row), now : Nat, at : Nat,
     auto : Automation \cup {None}, row : Row \cup {Deleted},
     run : RunId \cup {None}]

\* Every variable has its type.
TypeOK ==
    /\ day \in 0 .. MaxDay /\ stamp \in Nat
    /\ list \in List
    /\ ledger \in Seq(Run) /\ Len(ledger) <= MaxRuns
    /\ old \subseteq RunId
    /\ turn \in [RunId -> {"none", "running", "done", "over", "dead"}]
    /\ active \subseteq RunId /\ after \subseteq RunId
    /\ proc \in [Process -> {"down", "starting", "up"}]
    /\ path \in [Automation -> File \cup {None}]
    /\ open \in [Runner -> File \cup {None}]
    /\ locked \subseteq {w \in Runner : open[w] # None}
    /\ job \in [Runner -> JobType]
    /\ \A w \in Writer : upd[w] # None => /\ upd[w].seen \in List
                                         /\ upd[w].op.auto \in Automation
    /\ \A p \in Process : entry[p] # None => /\ entry[p].run \in RunId
                                             /\ entry[p].row \in Run
    /\ stale \subseteq RunId /\ paused \subseteq Automation
    /\ edits \in 0 .. MaxEdits /\ crashes \in 0 .. MaxCrash

\* The ledger is right about success: a run that it shows as completed had a
\* turn that ended well, or was still the active run of its session when a later
\* turn of it did; nothing that ended, restarted or was reconciled meanwhile has
\* completed it (automation_ledger.rs: "not silently presented as successful").
EndedWell(r) == turn[r] = "done" \/ r \in after
CompletedIsTrue ==
    \A r \in RunId : ledger[r].status = "completed" => EndedWell(r)

\* The first end recorded for a run of the desktop stays: the settlement of its
\* turn, a stop, a failed mark, a late mark_dispatched and the reconciliation
\* of a restart never replace one another's.
SettledOnce ==
    [][\A r \in RunId :
         ledger[r].by # "daemon" /\ ledger[r].status \in Terminal
         => ledger'[r].status = ledger[r].status]_vars

\* An automation that is due does not stay due while a scheduler runs, whatever
\* the other scheduler, the user's edits, lost updates of the list and the end of
\* a process in the middle of a run do to its row and its claim file.  A runner
\* that is about to make one run more than the bound has not got stuck.
Due(a) == IsDue(list[a], day)
Beyond == \E w \in Runner : At(w, "start") /\ Len(ledger) = MaxRuns
CaughtUp ==
    \A a \in Automation :
        Due(a) ~> \/ ~Due(a)
                  \/ \A w \in Runner \ {"button"} : ~Up(w)
                  \/ Beyond

\* Every run of the daemon gets an end in the ledger, unless the daemon ends in
\* the middle of it: also one whose automation the user deletes meanwhile and
\* one that the desktop settles by a turn of the user in its session.
DaemonRunsEnd ==
    \A r \in 1 .. MaxRuns :
        InFlight(r) /\ ledger[r].by = "daemon" ~> ~InFlight(r) \/ turn[r] = "dead"

\* Violated.  automations.md: a run "moves through started -> dispatched ->
\* completed / failed / interrupted / cancelled".  One whose turn ended well in
\* focus, with a tool call, stays dispatched although nobody works on it.
RunsEnd ==
    \A r \in RunId :
        turn[r] = "done" /\ (\A w \in Runner : job[w].run # r) => ~InFlight(r)

\* Violated.  The doc comment of settle_automation_run: "ordinary user turns are
\* not attached to an old scheduled task".  A turn of the user that ends well
\* completes the run whose own turn was cut or died.
CompletedByItsTurn ==
    \A r \in RunId : ledger[r].status = "completed" => turn[r] = "done"

\* Violated.  store_lock.rs: ExclusiveLock "holds an exclusive lock until
\* dropped".  A waiter gets the lock of the file that the holder before it has
\* removed, a newcomer that of the file it creates: both schedulers hold the
\* claim of one automation.
OneScheduler ==
    \A v, w \in locked : v # w => job[v].auto # job[w].auto

\* Violated.  docs/llm-wiki/automations.md: the daemon "claims each automation
\* through a cross-process lock so it cannot double-fire alongside the desktop
\* scheduler".
NoDoubleFire ==
    \A q, r \in RunId :
        /\ q < r /\ ledger[q].by = "daemon" /\ ledger[r].by = "scheduler"
        /\ ledger[q].auto = ledger[r].auto
        /\ turn[q] # "none" /\ turn[r] # "none"
        => ledger[q].slot # ledger[r].slot

\* Violated.  The comment of mark_automation_run_outcome: "this keeps the
\* existing Automations list accurate as well".  Once nothing is under way, the
\* row of an automation whose latest run failed shows an error.
Latest(a) == {r \in RunId : /\ ledger[r].auto = a
                            /\ \A q \in RunId : ledger[q].auto = a => q <= r}
Quiet == (\A w \in Runner : job[w].run = None) /\ (\A w \in Writer : upd[w] = None)
FailureIsShown ==
    Quiet => \A a \in Automation : \A r \in Latest(a) :
                list[a] # Deleted /\ ledger[r].status = "failed" => list[a].err

\* Violated.  The comment of reconcile_stale: it is about runs whose "owning
\* process disappeared".
InterruptedIsOver ==
    \A r \in RunId : ledger[r].status = "interrupted" => turn[r] # "running"

\* Violated.  store_lock.rs: "an exclusive lock around read-modify-write of
\* index files".  An automation the user has switched off stays off.
OffIsKept == \A a \in paused : list[a] = Deleted \/ ~list[a].on
=============================================================================
