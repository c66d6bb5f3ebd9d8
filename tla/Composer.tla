------------------------------ MODULE Composer ------------------------------
(***************************************************************************)
(* The desktop composer: per-session follow-up queues, the one send that   *)
(* may be in flight, the session the user views, and the Rust host that    *)
(* owns the agent processes.                                               *)
(*                                                                         *)
(* The user interface and the host run concurrently.  The interface works  *)
(* on copies of host state (live: the last snapshot received; shown: the   *)
(* snapshot of the viewed session) and is interrupted at every await, so   *)
(* an action is the code between two awaits.  A call to the host is three  *)
(* steps: issued, executed by the host, answered.  State events are        *)
(* delivered in the order the host emitted them, but independently of the  *)
(* answers.                                                                *)
(*                                                                         *)
(* A message is a number: the order in which the user composed it.         *)
(* Draft stands for the absent session id: the not yet created chat, the   *)
(* queue key "__draft__" and a host without a live session.                *)
(***************************************************************************)
EXTENDS Naturals, FiniteSets, SequencesExt

CONSTANTS
    Session,        \* ids that sessions get
    Draft,          \* no session id
    MaxItem,        \* bound: messages the user composes
    QueueMax,       \* SEND_QUEUE_MAX
    MaxMoves,       \* bound: sessions opened, new chats, deletions, deaths of
                    \* agent processes and budget dialogs, together
    MaxEvents       \* bound: state events under way

ASSUME ComposerAssumption ==
    /\ Draft \notin Session
    /\ MaxItem \in Nat /\ QueueMax \in Nat \ {0} /\ MaxEvents \in Nat \ {0}
    /\ MaxMoves \in Nat

Key  == Session \cup {Draft}
Item == 1 .. MaxItem
State == {"idle", "connecting", "ready", "streaming", "awaiting_permission",
          "disconnected"}
Snapshot == [id : Key, st : State]

\* A connect at the host, a send, and what a session accepted.
Call == [by : {"open", "send", "host"}, to : Key,
         ph : {"sent", "spawning", "done", "failed"}, snap : Snapshot]
Send == [ph : {"budget", "create", "connect", "submit", "target", "bound",
               "prepared", "accepted", "refused"},
         item : Item, target : Key, q : BOOLEAN, cap : Snapshot,
         sid : Key, before : Key, prep : Key]
Receipt == [item : Item, to : Key, sid : Key]

VARIABLES
    known,    \* sessions in the host's index
    minted,   \* session ids ever made: an id is not used again
    host,     \* state of each session's agent process; "idle": no process
    focus,    \* the host's live session; others are parked or in background
    events,   \* session://state events under way
    calls,    \* connect calls under way
    drop,     \* the sessionDisconnect of a new chat: "no", "sent", "done"
    view,     \* viewingSessionIdRef
    shown,    \* the session state the view renders
    live,     \* liveHostRef
    opening,  \* openingSessionIdRef
    loads,    \* openSession calls waiting for the stored messages
    deleting, \* the session whose deletion was confirmed
    queue,    \* sendQueueByKey
    hold,     \* queueFlushHoldRef
    timer,    \* a flush is scheduled
    job,      \* the executeSend in flight
    dialog,   \* a budget confirmation on the screen
    home,     \* history: where each message was composed
    queued,   \* history: messages that were ever put in a queue
    gone,     \* history: queued messages dropped, removed, cleared or deleted
    sent,     \* history: messages the host accepted, in order
    asked,    \* history: queued messages sent through the budget dialog
    used      \* moves made so far

hostVars  == <<known, minted, host, focus, events>>
viewVars  == <<view, shown, live, opening, loads, deleting, drop>>
queueVars == <<queue, hold, timer>>
sendVars  == <<job, dialog>>
pastVars  == <<home, queued, gone, sent, asked>>
vars == <<hostVars, calls, viewVars, queueVars, sendVars, pastVars, used>>

Busy(st) == st \in {"connecting", "streaming", "awaiting_permission"}
Turn(st) == st \in {"streaming", "awaiting_permission"}

NoJob == [ph |-> "idle"]
NoDialog == [item |-> 0]

\* sendInFlightRef, and the connecting flag that ensureConnected sets.
InFlight == job # NoJob
Connecting == job.ph \in {"create", "connect"}

ShouldEnqueueSend(st, connecting) ==
    st # "awaiting_permission" /\ (connecting \/ Busy(st))

------------------------------------------------------------------------------
(* Queues: the pure functions of sendQueue.ts.                             *)

LastN(q, n) == SubSeq(q, Len(q) - n + 1, Len(q))
AtMost(q, n) == IF Len(q) <= n THEN q ELSE LastN(q, n)

EnqueueSend(q, i) == AtMost(Append(q, i), QueueMax)

\* Mutant: the claimed message goes to the end of the queue.
RequeueAtBack(q, i) == IF Contains(q, i) THEN q ELSE EnqueueSend(q, i)

RequeueAtFront(q, i) ==
    IF Contains(q, i) THEN q ELSE <<i>> \o AtMost(q, QueueMax - 1)

\* Mutant: the draft's follow-ups replace those the session already has.
MigrateReplaces(q, s) ==
    IF q[Draft] = <<>> THEN q
    ELSE [q EXCEPT ![s] = q[Draft], ![Draft] = <<>>]

MigrateDraftQueue(q, s) ==
    [q EXCEPT ![s] = @ \o q[Draft], ![Draft] = <<>>]

------------------------------------------------------------------------------
(* The host.                                                               *)

Emit(e) == /\ Len(events) < MaxEvents
           /\ events' = Append(events, e)

Snap(s) == [id |-> s, st |-> IF s = Draft THEN "idle" ELSE host[s]]

\* The session a connect names, or a fresh one when the index lacks it.
Resolved(s) == IF s \in known THEN {s} ELSE Session \ minted

\* The live session leaves the focus: a busy one keeps streaming in the
\* background, a ready one is parked, or gives its process away (reuse),
\* a disconnected shell is dropped.
\* try_park_live.  The code's lock of inner blocks it for good when the session
\* it leaves is busy, and a connect to the ready session in focus likewise
\* (AgentPool, ConnectBlocks): here both return, which only adds behaviours.
Parked(reuse) ==
    IF focus = Draft \/ Busy(host[focus]) THEN host
    ELSE [host EXCEPT ![focus] =
            IF @ = "ready" /\ ~reuse THEN "ready" ELSE "idle"]

ConnectLocked == \E c \in calls : c.ph = "spawning"

Answer(c, ph, snap) ==
    calls' = (calls \ {c}) \cup {[c EXCEPT !.ph = ph, !.snap = snap]}

\* connect finds a process: ready in focus, in the background, or parked.
ConnectWarm(c) ==
    /\ c \in calls /\ c.ph = "sent" /\ ~ConnectLocked
    /\ c.to \in known
    /\ IF focus = c.to
       THEN /\ host[c.to] = "ready"
            /\ Answer(c, "done", Snap(c.to))
            /\ UNCHANGED hostVars
       ELSE /\ Busy(host[c.to]) \/ host[c.to] = "ready"
            /\ focus' = c.to
            /\ host' = Parked(FALSE)
            /\ Emit(Snap(c.to))
            /\ Answer(c, "done", Snap(c.to))
            /\ UNCHANGED <<known, minted>>
    /\ UNCHANGED <<viewVars, queueVars, sendVars, pastVars, used>>

\* connect starts a process; one that the focused session still has, in the middle
\* of a turn, or ready but of another effort or project, is killed first.
ConnectCold(c) ==
    /\ c \in calls /\ c.ph = "sent" /\ ~ConnectLocked
    /\ \E s \in Resolved(c.to), reuse \in BOOLEAN :
        /\ host[s] \in {"idle", "disconnected"} \/ focus = s
        /\ focus = s => ~reuse
        /\ focus' = s
        /\ host' = [Parked(reuse) EXCEPT ![s] = "connecting"]
        /\ known' = known \cup {s} /\ minted' = minted \cup {s}
        /\ Emit([id |-> s, st |-> "connecting"])
        /\ Answer(c, "spawning", [id |-> s, st |-> "connecting"])
    /\ UNCHANGED <<viewVars, queueVars, sendVars, pastVars, used>>

\* The handshake succeeds or fails.  A disconnect may have taken the live
\* session away: the answer is then the snapshot of an empty host.
Spawned(c, st) ==
    /\ c \in calls /\ c.ph = "spawning"
    /\ IF focus = c.snap.id /\ host[focus] = "connecting"
       THEN /\ host' = [host EXCEPT ![focus] = st]
            /\ Answer(c, "done", [id |-> focus, st |-> st])
            /\ Emit([id |-> focus, st |-> st])
       ELSE /\ st = "disconnected"
            /\ Answer(c, "done", Snap(focus))
            /\ Emit(Snap(focus))
            /\ UNCHANGED host
    /\ UNCHANGED <<known, minted, focus, viewVars, queueVars, sendVars, pastVars, used>>

\* The process limit refuses the connect before anything changed.
ConnectRefused(c) ==
    /\ c \in calls /\ c.ph = "sent" /\ ~ConnectLocked
    /\ focus # c.to
    /\ Answer(c, "failed", Snap(Draft))
    /\ UNCHANGED <<hostVars, viewVars, queueVars, sendVars, pastVars, used>>

\* A turn ends, waits for the user's permission, or goes on.  The end of a
\* background turn reports the focused session, not the one that ended.
TurnStep(s, st) ==
    /\ Turn(host[s]) /\ st # host[s]
    /\ st \in {"ready", "awaiting_permission", "streaming"}
    /\ host' = [host EXCEPT ![s] = st]
    /\ Emit(IF focus = s THEN [id |-> s, st |-> st] ELSE Snap(focus))
    /\ UNCHANGED <<known, minted, focus, calls, viewVars, queueVars, sendVars, pastVars,
                   used>>

\* An agent process dies: the live session keeps a disconnected shell.
ProcessDies(s) ==
    /\ host[s] \in {"ready", "streaming", "awaiting_permission"}
    /\ used < MaxMoves
    /\ used' = used + 1
    /\ host' = [host EXCEPT ![s] = IF focus = s THEN "disconnected" ELSE "idle"]
    /\ IF focus = s THEN Emit([id |-> s, st |-> "disconnected"])
       ELSE UNCHANGED events
    /\ UNCHANGED <<known, minted, focus, calls, viewVars, queueVars, sendVars, pastVars>>

HostDisconnect ==
    /\ drop = "sent" /\ drop' = "done"
    /\ focus' = Draft
    /\ host' = IF focus = Draft THEN host ELSE [host EXCEPT ![focus] = "idle"]
    /\ Emit([id |-> Draft, st |-> "idle"])
    /\ UNCHANGED <<known, minted, calls, view, shown, live, opening, loads, deleting,
                   queueVars, sendVars, pastVars, used>>

------------------------------------------------------------------------------
(* The viewed session.                                                     *)

\* useSendQueue clears its hold when the shown session begins a turn.
HoldAfter(sh) == IF Turn(sh.st) /\ sh.st # shown.st THEN FALSE ELSE hold

\* A session://state event.
StateEvent ==
    /\ events # <<>>
    /\ LET e == Head(events) IN
        /\ events' = Tail(events)
        /\ live' = e
        /\ shown' = IF e.id # Draft /\ e.id = view THEN e ELSE shown
        /\ hold' = HoldAfter(shown')
    /\ UNCHANGED <<known, minted, host, focus, calls, view, opening, loads, deleting, drop,
                   queue, timer, sendVars, pastVars, used>>

\* openSession up to its first await, and after the messages arrived.
OpenSession(s) ==
    /\ s \in known /\ used < MaxMoves
    /\ used' = used + 1
    /\ opening' = s /\ view' = s /\ loads' = loads \cup {s}
    /\ UNCHANGED <<hostVars, calls, shown, live, deleting, drop, queueVars, sendVars,
                   pastVars>>

OpenLoaded(s, trusted) ==
    /\ s \in loads /\ loads' = loads \ {s}
    /\ opening' = IF opening = s THEN Draft ELSE opening
    /\ IF view # s THEN UNCHANGED <<shown, hold, calls>>
       ELSE /\ shown' = IF live.id = s THEN live ELSE [id |-> s, st |-> "idle"]
            /\ hold' = HoldAfter(shown')
            /\ calls' = IF trusted /\ live # [id |-> s, st |-> "ready"]
                        THEN calls \cup {[by |-> "open", to |-> s, ph |-> "sent",
                                          snap |-> Snap(Draft)]}
                        ELSE calls
    /\ UNCHANGED <<hostVars, view, live, deleting, drop, queue, timer, sendVars,
                   pastVars, used>>

\* The answer to the warm connect of openSession.
OpenConnected(c) ==
    /\ c \in calls /\ c.by = "open" /\ c.ph \in {"done", "failed"}
    /\ calls' = calls \ {c}
    /\ IF c.ph = "failed" \/ view # c.to THEN UNCHANGED <<live, shown, hold>>
       ELSE /\ live' = c.snap
            /\ shown' = IF c.snap.id = c.to THEN c.snap ELSE shown
            /\ hold' = HoldAfter(shown')
    /\ UNCHANGED <<hostVars, view, opening, loads, deleting, drop, queue, timer,
                   sendVars, pastVars, used>>

\* newChat up to the sessionDisconnect, and after its answer.
Emptied(q) ==
    /\ drop = "no" /\ drop' = "sent"
    /\ view' = Draft
    /\ shown' = [id |-> Draft, st |-> "idle"]
    /\ queue' = [q EXCEPT ![Draft] = <<>>]

NewChat ==
    /\ used < MaxMoves /\ used' = used + 1
    /\ Emptied(queue)
    /\ gone' = gone \cup ToSet(queue[Draft])
    /\ UNCHANGED <<hostVars, calls, live, opening, loads, deleting, hold, timer,
                   sendVars, home, queued, sent, asked>>

Disconnected ==
    /\ drop = "done" /\ drop' = "no"
    /\ live' = [id |-> Draft, st |-> "idle"]
    /\ UNCHANGED <<hostVars, calls, view, shown, opening, loads, deleting, queueVars,
                   sendVars, pastVars, used>>

\* deleteSessionsConfirm: the index loses the session, then its queue goes
\* and a viewed session gives way to a new chat.
DeleteSession(s) ==
    /\ s \in known /\ deleting = Draft
    /\ used < MaxMoves /\ used' = used + 1
    /\ known' = known \ {s}
    /\ deleting' = s
    /\ UNCHANGED <<minted, host, focus, events, calls, view, shown, live, opening, loads,
                   drop, queueVars, sendVars, pastVars>>

Deleted ==
    /\ deleting # Draft /\ deleting' = Draft
    /\ LET q == [queue EXCEPT ![deleting] = <<>>] IN
        IF deleting = IF shown.id # Draft THEN shown.id ELSE view
        THEN /\ Emptied(q)
             /\ gone' = gone \cup ToSet(queue[deleting]) \cup ToSet(queue[Draft])
        ELSE /\ queue' = q
             /\ gone' = gone \cup ToSet(queue[deleting])
             /\ UNCHANGED <<view, shown, drop>>
    /\ UNCHANGED <<hostVars, calls, live, opening, loads, hold, timer, sendVars,
                   home, queued, sent, asked, used>>

------------------------------------------------------------------------------
(* executeSend.                                                            *)

\* Optimistic state: the turn is shown before anything was sent.
ShownOptimistic(j) ==
    IF view = j.target /\ ~Turn(shown.st) THEN [shown EXCEPT !.st = "streaming"]
    ELSE shown

OtherLive(j, lv) == j.target # Draft /\ lv.id # Draft /\ lv.id # j.target

LiveOptimistic(j) ==
    IF OtherLive(j, live) THEN live
    ELSE [id |-> IF j.target # Draft THEN j.target ELSE live.id, st |-> "streaming"]

\* failStrip takes the optimistic state back, and the flush that claimed the
\* message puts it back and holds.  A draft keeps its "streaming".
Fails(j, sh, vw, lv) ==
    /\ job' = NoJob
    /\ view' = vw
    /\ shown' = IF vw = j.target /\ sh.st = "streaming" /\ sh.id # Draft
                THEN [sh EXCEPT !.st = "ready"] ELSE sh
    /\ live' = IF OtherLive(j, lv) \/ lv.st # "streaming" THEN lv
               ELSE [lv EXCEPT !.st = IF lv.id # Draft THEN "ready" ELSE "idle"]
    /\ IF j.q
       THEN LET q == queue[j.target] IN
            /\ queue' = [queue EXCEPT ![j.target] = RequeueAtFront(q, j.item)]
            /\ gone' = gone \cup (ToSet(q) \ ToSet(queue'[j.target]))
            /\ hold' \in IF Turn(shown'.st) /\ shown'.st # shown.st THEN BOOLEAN
                         ELSE {TRUE}
       ELSE /\ hold' = HoldAfter(shown')
            /\ UNCHANGED <<queue, gone>>

\* The session is bound: a queued message goes to the session it was queued
\* for or back to its queue.
Submits(j, s, sh, vw, lv) ==
    IF j.q /\ (OtherLive(j, lv) \/ (j.target # Draft /\ s # j.target))
    THEN Fails(j, sh, vw, lv)
    ELSE /\ job' = [j EXCEPT !.ph = "submit", !.sid = s]
         /\ view' = vw /\ shown' = sh /\ live' = lv
         /\ hold' = HoldAfter(sh)
         /\ UNCHANGED <<queue, gone>>

\* From the budget answer to the next await.  React may apply the optimistic
\* snapshot before or after liveHostRef is read (seen); trusted is FALSE when
\* the project is not trusted or its folder is missing.
Proceeds(j) ==
    LET sh == ShownOptimistic(j)
        lv == LiveOptimistic(j)
        ready == [id |-> j.target, st |-> "ready"]
    IN \E seen \in {live, lv}, trusted \in BOOLEAN :
        CASE j.target # Draft /\ seen = ready ->
                /\ Submits(j, j.target, sh, view, lv)
                /\ UNCHANGED calls
          [] j.q /\ j.target # Draft /\ seen # ready /\ view # j.target ->
                /\ Fails(j, sh, view, lv)
                /\ UNCHANGED calls
          [] OTHER ->
                IF ~trusted THEN Fails(j, sh, view, lv) /\ UNCHANGED calls
                ELSE IF j.target # Draft /\ j.cap = ready
                THEN Submits(j, j.target, sh, view, lv) /\ UNCHANGED calls
                ELSE /\ job' = [j EXCEPT !.ph = IF j.target = Draft THEN "create"
                                                ELSE "connect",
                                         !.before = view]
                     /\ calls' = IF j.target = Draft THEN calls
                                 ELSE calls \cup {[by |-> "send", to |-> j.target,
                                       ph |-> "sent", snap |-> Snap(Draft)]}
                     /\ shown' = sh /\ live' = lv
                     /\ hold' = HoldAfter(sh)
                     /\ UNCHANGED <<view, queue, gone>>

Job(i, target, q) ==
    [ph |-> "budget", item |-> i, target |-> target, q |-> q, cap |-> shown,
     sid |-> Draft, before |-> Draft, prep |-> Draft]

\* The usage budget answers: go on, or ask the user first.
BudgetPasses ==
    /\ job.ph = "budget"
    /\ Proceeds(job)
    /\ UNCHANGED <<hostVars, opening, loads, deleting, drop, timer, dialog, home,
                   queued, sent, asked, used>>

BudgetAsks ==
    /\ job.ph = "budget"
    /\ used < MaxMoves /\ used' = used + 1
    /\ job' = NoJob
    /\ dialog' = job
    /\ IF job.q
       THEN /\ queue' = [queue EXCEPT ![job.target] = RequeueAtFront(@, job.item)]
            /\ gone' = gone \cup (ToSet(queue[job.target]) \ ToSet(queue'[job.target]))
            /\ hold' = TRUE
       ELSE UNCHANGED <<queue, gone, hold>>
    /\ UNCHANGED <<hostVars, calls, viewVars, timer, home, queued, sent, asked>>

\* The user answers the dialog: the send starts again, already confirmed.
DialogConfirmed ==
    /\ dialog # NoDialog /\ dialog' = NoDialog
    /\ asked' = IF dialog.q THEN asked \cup {dialog.item} ELSE asked
    /\ IF InFlight
       THEN UNCHANGED <<calls, view, shown, live, queue, hold, job, gone>>
       ELSE Proceeds(dialog)
    /\ UNCHANGED <<hostVars, opening, loads, deleting, drop, timer, home, queued,
                   sent, used>>

DialogDismissed ==
    /\ dialog # NoDialog /\ dialog' = NoDialog
    /\ UNCHANGED <<hostVars, calls, viewVars, queueVars, job, pastVars, used>>

\* sessionCreate answers, in ensureConnected: the new session takes the view
\* unless the user moved on, and is connected.
SessionCreated(s) ==
    /\ job.ph = "create"
    /\ s \notin minted
    /\ known' = known \cup {s} /\ minted' = minted \cup {s}
    /\ IF view \in {job.before, Draft}
       THEN view' = s /\ shown' = [shown EXCEPT !.id = s]
       ELSE UNCHANGED <<view, shown>>
    /\ job' = [job EXCEPT !.ph = "connect", !.sid = s]
    /\ calls' = calls \cup {[by |-> "send", to |-> s, ph |-> "sent",
                             snap |-> Snap(Draft)]}
    /\ UNCHANGED <<host, focus, events, live, opening, loads, deleting, drop,
                   queueVars, dialog, pastVars, used>>

CreateFails ==
    /\ job.ph = "create"
    /\ Fails(job, shown, view, live)
    /\ UNCHANGED <<hostVars, calls, opening, loads, deleting, drop, timer, dialog,
                   home, queued, sent, asked, used>>

\* sessionConnect answers, in ensureConnected.
JobConnected(c) ==
    /\ c \in calls /\ c.by = "send" /\ c.ph \in {"done", "failed"}
    /\ job.ph = "connect"
    /\ calls' = calls \ {c}
    /\ IF c.ph = "failed" THEN Fails(job, shown, view, live)
       ELSE LET mine == c.snap.id # Draft /\ view \in {c.snap.id, job.before}
                vw == IF mine THEN c.snap.id ELSE view
                sh == IF mine THEN c.snap ELSE shown
            IN IF c.snap.st = "ready"
               THEN Submits(job, c.snap.id, sh, vw, c.snap)
               ELSE Fails(job, sh, vw, c.snap)
    /\ UNCHANGED <<hostVars, opening, loads, deleting, drop, timer, dialog, home,
                   queued, sent, asked, used>>

\* send_message at the host, which holds no lock from step to step: a target
\* without the focus is connected,
HostTargets ==
    /\ job.ph = "submit"
    /\ IF focus = job.sid
       THEN job' = [job EXCEPT !.ph = "bound"] /\ UNCHANGED calls
       ELSE /\ job' = [job EXCEPT !.ph = "target"]
            /\ calls' = calls \cup {[by |-> "host", to |-> job.sid, ph |-> "sent",
                                     snap |-> Snap(Draft)]}
    /\ UNCHANGED <<hostVars, viewVars, queueVars, dialog, pastVars, used>>

HostConnected(c) ==
    /\ c \in calls /\ c.by = "host" /\ c.ph \in {"done", "failed"}
    /\ job.ph = "target"
    /\ calls' = calls \ {c}
    /\ job' = [job EXCEPT !.ph = IF c.ph = "done" THEN "bound" ELSE "refused"]
    /\ UNCHANGED <<hostVars, viewVars, queueVars, dialog, pastVars, used>>

\* a checkpoint is taken of the session in focus, when that has a project,
HostPrepares ==
    /\ job.ph = "bound"
    /\ IF focus = Draft THEN job' = [job EXCEPT !.ph = "refused"]
       ELSE \E s \in {focus, Draft} : job' = [job EXCEPT !.ph = "prepared", !.prep = s]
    /\ UNCHANGED <<hostVars, calls, viewVars, queueVars, dialog, pastVars, used>>

\* and the session in focus takes the message, unless a checkpoint was taken
\* of another one or it is not ready.
FocusTakes ==
    /\ focus # Draft /\ job.prep \in {focus, Draft}
    /\ host[focus] = "ready"

HostAccepts ==
    /\ job.ph = "prepared" /\ FocusTakes
    /\ host' = [host EXCEPT ![focus] = "streaming"]
    /\ Emit([id |-> focus, st |-> "streaming"])
    /\ sent' = Append(sent, [item |-> job.item, to |-> focus, sid |-> job.sid])
    /\ job' = [job EXCEPT !.ph = "accepted"]
    /\ UNCHANGED <<known, minted, focus, calls, viewVars, queueVars, dialog, home,
                   queued, gone, asked, used>>

HostRefuses ==
    /\ job.ph = "prepared" /\ ~FocusTakes
    /\ job' = [job EXCEPT !.ph = "refused"]
    /\ UNCHANGED <<hostVars, calls, viewVars, queueVars, dialog, pastVars, used>>

\* sessionSend answers.  The follow-ups of a draft move to its session.
SendReturns ==
    /\ job.ph = "accepted"
    /\ job' = NoJob
    /\ queue' = IF job.target = Draft THEN MigrateDraftQueue(queue, job.sid) ELSE queue
    /\ UNCHANGED <<hostVars, calls, viewVars, hold, timer, dialog, pastVars, used>>

SendFails ==
    /\ job.ph = "refused"
    /\ Fails(job, shown, view, live)
    /\ UNCHANGED <<hostVars, calls, opening, loads, deleting, drop, timer, dialog,
                   home, queued, sent, asked, used>>

------------------------------------------------------------------------------
(* The composer and its queue strip.                                       *)

Composing == Len(home) < MaxItem /\ shown.st # "awaiting_permission"

\* send while the session is busy.
EnqueueFollowUp ==
    /\ Composing /\ ShouldEnqueueSend(shown.st, Connecting)
    /\ LET i == Len(home) + 1
           q == queue[shown.id] IN
        /\ home' = Append(home, shown.id)
        /\ queued' = queued \cup {i}
        /\ queue' = [queue EXCEPT ![shown.id] = EnqueueSend(q, i)]
        /\ gone' = gone \cup (ToSet(q) \ ToSet(queue'[shown.id]))
    /\ hold' = FALSE
    /\ UNCHANGED <<hostVars, calls, viewVars, timer, sendVars, sent, asked, used>>

\* send otherwise.  While another send is in flight the text is lost.
SendNow ==
    /\ Composing /\ ~ShouldEnqueueSend(shown.st, Connecting)
    /\ home' = Append(home, shown.id)
    /\ hold' = FALSE
    /\ job' = IF InFlight THEN job ELSE Job(Len(home) + 1, shown.id, FALSE)
    /\ UNCHANGED <<hostVars, calls, viewVars, queue, timer, dialog, queued, gone,
                   sent, asked, used>>

\* removeItem; clearQueue is removeItem of every message.  The code filters by
\* id: a queue has an id once.
RemoveItem(n) ==
    /\ n \in DOMAIN queue[shown.id]
    /\ queue' = [queue EXCEPT ![shown.id] = RemoveAt(@, n)]
    /\ gone' = gone \cup {queue[shown.id][n]}
    /\ timer' = IF queue'[shown.id] = <<>> THEN FALSE ELSE timer
    /\ UNCHANGED <<hostVars, calls, viewVars, hold, sendVars, home, queued, sent,
                   asked, used>>

\* The auto-flush effect schedules a flush, and its cleanup cancels it.
Flushable ==
    /\ shown.st \in {"ready", "idle"}
    /\ ~Connecting /\ ~InFlight /\ ~hold
    /\ queue[shown.id] # <<>>

ArmTimer ==
    /\ ~timer /\ Flushable /\ timer' = TRUE
    /\ UNCHANGED <<hostVars, calls, viewVars, queue, hold, sendVars, pastVars, used>>

CancelTimer ==
    /\ timer /\ ~Flushable /\ timer' = FALSE
    /\ UNCHANGED <<hostVars, calls, viewVars, queue, hold, sendVars, pastVars, used>>

\* The user's retry on a held queue.
ResumeFlush ==
    /\ hold /\ queue[shown.id] # <<>>
    /\ hold' = FALSE /\ timer' = TRUE
    /\ UNCHANGED <<hostVars, calls, viewVars, queue, sendVars, pastVars, used>>

ClaimKey == IF view # Draft THEN view ELSE live.id

FlushAllowed ==
    /\ ~InFlight /\ ~Connecting /\ ~hold
    /\ view = Draft \/ live.id \in {Draft, view}
    /\ ~ShouldEnqueueSend(live.st, FALSE)
    /\ queue[ClaimKey] # <<>>

\* Mutant: the head stays in the queue while it is sent.
FlushPeeks ==
    /\ timer /\ timer' = FALSE
    /\ job' = IF FlushAllowed THEN Job(Head(queue[ClaimKey]), ClaimKey, TRUE) ELSE job
    /\ UNCHANGED <<hostVars, calls, viewVars, queue, hold, dialog, pastVars, used>>

\* Mutant: the head goes to the session that is shown.
FlushToShown ==
    /\ timer /\ timer' = FALSE
    /\ IF FlushAllowed
       THEN /\ job' = Job(Head(queue[ClaimKey]), shown.id, TRUE)
            /\ queue' = [queue EXCEPT ![ClaimKey] = Tail(@)]
       ELSE UNCHANGED <<job, queue>>
    /\ UNCHANGED <<hostVars, calls, viewVars, hold, dialog, pastVars, used>>

\* flush claims the head of the queue and hands it to executeSend.
Flush ==
    /\ timer /\ timer' = FALSE
    /\ IF FlushAllowed
       THEN /\ job' = Job(Head(queue[ClaimKey]), ClaimKey, TRUE)
            /\ queue' = [queue EXCEPT ![ClaimKey] = Tail(@)]
       ELSE UNCHANGED <<job, queue>>
    /\ UNCHANGED <<hostVars, calls, viewVars, hold, dialog, pastVars, used>>

------------------------------------------------------------------------------
\* One session exists; the window opens on a new chat or, when the host
\* already has a live session, on that one (sessionGetState).
Init ==
    \E s \in Session, st \in {"idle", "ready", "streaming"} :
        /\ known = {s} /\ minted = {s} /\ calls = {} /\ events = <<>> /\ drop = "no"
        /\ host = [x \in Session |-> IF x = s THEN st ELSE "idle"]
        /\ focus = IF st = "idle" THEN Draft ELSE s
        /\ live = [id |-> focus, st |-> st]
        /\ shown = live /\ view = focus
        /\ opening = Draft /\ loads = {} /\ deleting = Draft
        /\ queue = [k \in Key |-> <<>>] /\ hold = FALSE /\ timer = FALSE
        /\ job = NoJob /\ dialog = NoDialog
        /\ home = <<>> /\ queued = {} /\ gone = {} /\ sent = <<>>
        /\ asked = {} /\ used = 0

HostStep ==
    \/ \E c \in calls : ConnectWarm(c) \/ ConnectCold(c) \/ ConnectRefused(c)
                       \/ HostConnected(c)
                       \/ \E st \in {"ready", "disconnected"} : Spawned(c, st)
    \/ HostDisconnect \/ HostTargets \/ HostPrepares \/ HostAccepts \/ HostRefuses

Turns == \E s \in Session : \E st \in State : TurnStep(s, st)

Answered ==
    \/ StateEvent \/ Disconnected \/ Deleted
    \/ BudgetPasses \/ BudgetAsks \/ CreateFails \/ SendReturns \/ SendFails
    \/ \E s \in Session : SessionCreated(s)
    \/ \E s \in Session, trusted \in BOOLEAN : OpenLoaded(s, trusted)
    \/ \E c \in calls : OpenConnected(c) \/ JobConnected(c)

Timers == ArmTimer \/ CancelTimer \/ Flush

User ==
    \/ EnqueueFollowUp \/ SendNow \/ ResumeFlush
    \/ DialogConfirmed \/ DialogDismissed \/ NewChat
    \/ \E n \in DOMAIN queue[shown.id] : RemoveItem(n)
    \/ \E s \in Session : OpenSession(s) \/ DeleteSession(s) \/ ProcessDies(s)

Next == HostStep \/ Turns \/ Answered \/ Timers \/ User

Spec == Init /\ [][Next]_vars

------------------------------------------------------------------------------
(* Properties.                                                             *)

\* Types, and the shape of a send in flight.
TypeOK ==
    /\ known \subseteq minted /\ minted \subseteq Session /\ host \in [Session -> State]
    /\ focus \in Key /\ events \in Seq(Snapshot) /\ calls \subseteq Call
    /\ drop \in {"no", "sent", "done"}
    /\ view \in Key /\ shown \in Snapshot /\ live \in Snapshot
    /\ opening \in Key /\ loads \subseteq Session /\ deleting \in Key
    /\ queue \in [Key -> Seq(Item)] /\ hold \in BOOLEAN /\ timer \in BOOLEAN
    /\ job \in Send \cup {NoJob} /\ dialog \in Send \cup {NoDialog}
    /\ home \in Seq(Key) /\ Len(home) <= MaxItem
    /\ queued \subseteq Item /\ gone \subseteq Item /\ asked \subseteq Item
    /\ sent \in Seq(Receipt) /\ used \in Nat

\* Where message i is: in a queue, in the send in flight, in the session that
\* accepted it.
Waiting(i) == UNION {{<<"queue", k, n>> : n \in {m \in DOMAIN queue[k] :
                                                 queue[k][m] = i}} : k \in Key}
Flying(i) == IF InFlight /\ job.ph # "accepted" /\ job.item = i
             THEN {<<"send", job.target, 0>>} ELSE {}
Accepted(i) == {<<"session", sent[n].to, n>> : n \in {m \in DOMAIN sent :
                                                       sent[m].item = i}}
Places(i) == Waiting(i) \cup Flying(i) \cup Accepted(i)

\* A message is in one place: a queue, the send in flight, or the session
\* that accepted it.  Claim and requeue, migration, deletion and the host's
\* answers never double it, unless the user sent it through the budget dialog.
OnePlace == \A i \in Item \ asked : \A p, q \in Places(i) : p = q

\* A queued message is not lost: it is somewhere, unless the limit dropped it,
\* the user removed it, or its session or draft was given up.
QueuedKept == \A i \in queued \ gone : Places(i) # {}

\* A follow-up written in a session is queued for that session and submitted
\* for it and no other, wherever the user and the host's focus have moved since.
OwnSession ==
    \A i \in queued : home[i] \in Session =>
        /\ \A p \in Waiting(i) : p[2] = home[i]
        /\ InFlight /\ job.item = i /\ job.sid # Draft => job.sid = home[i]

\* The follow-ups written in a session reach it in the order of writing,
\* across failed flushes that put the head back.
FollowUpsInOrder ==
    \A m, n \in DOMAIN sent :
        /\ m < n
        /\ {sent[m].item, sent[n].item} \subseteq queued \ asked
        /\ home[sent[m].item] = home[sent[n].item] /\ home[sent[n].item] # Draft
        => sent[m].item < sent[n].item

\* The session that takes a message is the one it was submitted for, unless
\* that was deleted (session_manager.rs, send_message: "A batch can therefore
\* never connect one session and send to another because the focused session
\* changed in between").
SentToTarget ==
    \A n \in DOMAIN sent : sent[n].to = sent[n].sid \/ sent[n].sid \notin known
=============================================================================
