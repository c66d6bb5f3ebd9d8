------------------------------ MODULE AgentPool ------------------------------
(***************************************************************************)
(* The agent processes of the desktop host (session_manager.rs).  One      *)
(* session has the focus (inner), busy ones stream on in the background,   *)
(* idle ones stay warm (parked); a connect moves processes between these   *)
(* slots, spawns and kills them, and is exclusive (connect_lock).          *)
(* Everything else, the events of the processes included, runs             *)
(* concurrently.                                                           *)
(*                                                                         *)
(* An action is the code between two awaits.  Each slot has a lock of its  *)
(* own; that another thread comes between two of them is left out, but a   *)
(* thread that locks inner while it holds it is not.                       *)
(*                                                                         *)
(* Waiting for a permission is part of "streaming": no slot treats it      *)
(* differently.  Whether launch flags match, and which parked process was  *)
(* used least recently, is left open.                                      *)
(***************************************************************************)
EXTENDS Naturals, FiniteSets

CONSTANTS
    Session,
    Process,        \* bound: processes ever spawned
    None,
    MaxConcurrent,  \* maxConcurrentAgents
    Relock          \* what locking a mutex does to the thread that holds it:
                    \* "blocks" it for good (parking_lot, the code's) or is "granted"

ASSUME AgentPoolAssumption ==
    /\ None \notin Session /\ None \notin Process
    /\ MaxConcurrent \in Nat \ {0}
    /\ Relock \subseteq {"blocks", "granted"}

VARIABLES
    proc,    \* of each process: "none", "up", "dead" (its output was closed)
    live,    \* inner: the session in focus
    back,    \* background
    parked,  \* parked: the process of each parked session
    kills,   \* processes that were taken out of a slot to be killed
    exits,   \* processes whose ProcessExited event is under way
    turn,    \* processes with a prompt under way
    conn     \* the connect under way

vars == <<proc, live, back, parked, kills, exits, turn, conn>>

\* No thread holds inner for good.
InnerFree == conn.ph # "blocked"

\* LiveSession: acp is its process, pid the one whose events it takes.
NoShell == [sid |-> None, st |-> "idle", acp |-> None, pid |-> None]
NoConn  == [ph |-> "idle", sid |-> None, p |-> None, w |-> None]

Alive(p) == p # None /\ proc[p] = "up"
Busy(st) == st \in {"connecting", "streaming"}

\* connect_failed, and fail_with of any state that is not over already.
ConnectFailed(l) == IF l.st = "connecting" THEN [l EXCEPT !.st = "disconnected"] ELSE l
FailWith(l) ==
    IF l.st \in {"connecting", "ready", "streaming"} THEN [l EXCEPT !.st = "disconnected"]
    ELSE l

\* active_process_count, given the slots.
Active(l, bk, pk) ==
    {p \in Process : /\ proc[p] = "up"
                     /\ \/ l.acp = p
                        \/ \E s \in Session : bk[s].acp = p \/ pk[s] = p}
\* Mutant: one process too many.
RoomForOneMore(l, bk, pk) == Cardinality(Active(l, bk, pk)) <= MaxConcurrent

Room(l, bk, pk) == Cardinality(Active(l, bk, pk)) < MaxConcurrent

\* The processes of P that a kill still has to end.
Doomed(P) == {p \in P : Alive(p)}

------------------------------------------------------------------------------
(* try_park_live: where the session in focus goes.                         *)

Sweep == [s \in Session |-> IF Alive(parked[s]) THEN parked[s] ELSE None]

\* Mutant: a process is parked without a look at whether it lives.
ParksDead == live.st = "ready" /\ live.acp # None

Parks   == Alive(live.acp) /\ live.st = "ready"
Demotes == Alive(live.acp) /\ Busy(live.st)

\* A busy session is demoted only within the limit, and active_process_count
\* locks inner while try_park_live holds it.
CanPark ==
    Demotes => /\ "granted" \in Relock
               /\ Cardinality(Active(live, back, Sweep)) <= MaxConcurrent

LiveAfter   == IF Parks \/ Demotes THEN NoShell ELSE live
BackAfter   == [s \in Session |-> IF Demotes /\ s = live.sid THEN live ELSE back[s]]
ParkedAfter == [s \in Session |-> IF Parks /\ s = live.sid THEN live.acp ELSE Sweep[s]]

------------------------------------------------------------------------------
(* connect, exclusive until it returns.                                    *)

Idle == conn = NoConn
\* Mutant: the background is not looked at.
ColdUnlessParked(s) == ~Alive(parked[s])

Cold(s) == back[s] = NoShell /\ ~Alive(parked[s])

\* The focused session is ready: nothing to do but the snapshot, which locks
\* inner while connect_inner holds it.
NoOp(s) == live.sid = s /\ live.st = "ready" /\ Alive(live.acp)
ConnectNoOp(s) ==
    /\ Idle /\ NoOp(s) /\ "granted" \in Relock
    /\ parked' = Sweep
    /\ UNCHANGED <<proc, live, back, kills, exits, turn, conn>>

\* The thread waits for inner, which it holds, and so do all that need inner.
ConnectBlocks(s) ==
    /\ Idle /\ "blocks" \in Relock
    /\ NoOp(s) \/ (Demotes /\ live.sid # s)
    /\ parked' = Sweep
    /\ conn' = [NoConn EXCEPT !.ph = "blocked", !.sid = s]
    /\ UNCHANGED <<proc, live, back, kills, exits, turn>>

\* The session streams in the background: it takes the focus.
ConnectPromote(s) ==
    /\ Idle /\ back[s] # NoShell /\ CanPark
    /\ live' = back[s]
    /\ back' = [BackAfter EXCEPT ![s] = NoShell]
    /\ parked' = ParkedAfter
    /\ UNCHANGED <<proc, kills, exits, turn, conn>>

\* The session is parked: its process is in no slot while the model and the
\* mode are set.
ConnectUnpark(s) ==
    /\ Idle /\ back[s] = NoShell /\ Alive(parked[s]) /\ CanPark
    /\ live' = LiveAfter
    /\ back' = BackAfter
    /\ parked' = [ParkedAfter EXCEPT ![s] = None]
    /\ conn' = [ph |-> "unpark", sid |-> s, p |-> parked[s], w |-> None]
    /\ UNCHANGED <<proc, kills, exits, turn>>

UnparkDone ==
    /\ conn.ph = "unpark"
    /\ live' = [sid |-> conn.sid, st |-> "ready", acp |-> conn.p, pid |-> conn.p]
    /\ conn' = NoConn
    /\ UNCHANGED <<proc, back, parked, kills, exits, turn>>

Connecting(s, pid) == [sid |-> s, st |-> "connecting", acp |-> None, pid |-> pid]

\* The process of the focused session is taken over by another session.
ConnectReuse(s) ==
    /\ Idle /\ Cold(s) /\ live.sid # s
    /\ live.st = "ready" /\ Alive(live.acp)
    /\ live' = Connecting(s, live.pid)
    /\ parked' = Sweep
    /\ conn' = [ph |-> "open", sid |-> s, p |-> live.acp, w |-> None]
    /\ UNCHANGED <<proc, back, kills, exits, turn>>

\* The focused session connects again: its process is killed first.
ConnectAgain(s) ==
    /\ Idle /\ Cold(s) /\ live.sid = s /\ live.acp # None
    /\ live' = NoShell
    /\ parked' = Sweep
    /\ kills' = kills \cup Doomed({live.acp})
    /\ conn' = [ph |-> "leftover", sid |-> s, p |-> None, w |-> live.acp]
    /\ UNCHANGED <<proc, back, exits, turn>>

\* A new shell, and a process for it if the limit allows; the least recently
\* used parked process may have to go first.
Start(s, bk, pk) ==
    \E p \in Process :
        /\ proc[p] = "none"
        /\ back' = bk
        /\ \/ /\ Room(NoShell, bk, pk)
              /\ live' = Connecting(s, p) /\ parked' = pk
              /\ proc' = [proc EXCEPT ![p] = "up"]
              /\ conn' = [ph |-> "open", sid |-> s, p |-> p, w |-> None]
              /\ UNCHANGED kills
           \/ /\ ~Room(NoShell, bk, pk)
              /\ \E t \in Session :
                    /\ pk[t] # None
                    /\ parked' = [pk EXCEPT ![t] = None]
                    /\ kills' = kills \cup {pk[t]}
                    /\ conn' = [ph |-> "room", sid |-> s, p |-> p, w |-> pk[t]]
              /\ live' = Connecting(s, p)
              /\ UNCHANGED proc
           \/ \* the limit, no command line interface, or a failed spawn
              /\ Room(NoShell, bk, pk) \/ \A t \in Session : pk[t] = None
              /\ live' = ConnectFailed(Connecting(s, p)) /\ parked' = pk
              /\ conn' = NoConn
              /\ UNCHANGED <<proc, kills>>

ConnectCold(s) ==
    /\ Idle /\ Cold(s)
    /\ IF live.sid = s
       THEN live.acp = None /\ Start(s, back, Sweep)
       ELSE CanPark /\ Start(s, BackAfter, ParkedAfter)
    /\ UNCHANGED <<exits, turn>>

LeftoverKilled ==
    /\ conn.ph = "leftover" /\ conn.w \notin kills
    /\ Start(conn.sid, back, Sweep)
    /\ UNCHANGED <<exits, turn>>

RoomMade ==
    /\ conn.ph = "room" /\ conn.w \notin kills
    /\ \/ /\ Room(live, back, parked)
          /\ proc' = [proc EXCEPT ![conn.p] = "up"]
          /\ conn' = [conn EXCEPT !.ph = "open", !.w = None]
          /\ UNCHANGED live
       \/ /\ live' = ConnectFailed(live)
          /\ conn' = NoConn
          /\ UNCHANGED proc
    /\ UNCHANGED <<back, parked, kills, exits, turn>>

\* The agent session is opened or resumed; then model and mode are set, and
\* whatever session shell is in focus by then gets the process.
OpenAnswered ==
    /\ conn.ph = "open" /\ Alive(conn.p)
    /\ conn' = [conn EXCEPT !.ph = "align"]
    /\ UNCHANGED <<proc, live, back, parked, kills, exits, turn>>

Connected ==
    /\ conn.ph = "align"
    /\ live' = IF live = NoShell THEN NoShell
               ELSE [live EXCEPT !.st = IF @ = "connecting" THEN "ready" ELSE @,
                                 !.acp = conn.p, !.pid = conn.p]
    /\ conn' = NoConn
    /\ UNCHANGED <<proc, back, parked, kills, exits, turn>>

OpenFails ==
    /\ conn.ph = "open"
    /\ kills' = kills \cup Doomed({conn.p})
    /\ conn' = [conn EXCEPT !.ph = "failing", !.p = None, !.w = conn.p]
    /\ UNCHANGED <<proc, live, back, parked, exits, turn>>

ConnectFails ==
    /\ conn.ph = "failing" /\ conn.w \notin kills
    /\ live' = ConnectFailed(live)
    /\ conn' = NoConn
    /\ UNCHANGED <<proc, back, parked, kills, exits, turn>>

------------------------------------------------------------------------------
(* Processes and their events.                                             *)

\* A process ends, killed or on its own; its output closes.
ProcessDies(p) ==
    /\ proc[p] = "up"
    /\ proc' = [proc EXCEPT ![p] = "dead"]
    /\ kills' = kills \ {p}
    /\ exits' = exits \cup {p}
    /\ UNCHANGED <<live, back, parked, turn, conn>>

\* ProcessExited, routed by process id.
ExitHandled(p) ==
    /\ InnerFree /\ p \in exits /\ exits' = exits \ {p}
    /\ parked' = IF live.pid # p /\ \E s \in Session : back[s].pid = p THEN parked
                 ELSE [s \in Session |-> IF parked[s] = p THEN None ELSE parked[s]]
    /\ IF live.pid = p
       THEN /\ live' = [live EXCEPT !.st = IF @ \in {"ready", "streaming"}
                                           THEN "disconnected" ELSE @,
                                    !.acp = None]
            /\ UNCHANGED back
       ELSE /\ back' = [s \in Session |-> IF back[s].pid = p THEN NoShell ELSE back[s]]
            /\ UNCHANGED live
    /\ UNCHANGED <<proc, kills, turn, conn>>

\* PromptComplete, routed by process id.  A background session that is done
\* is parked.
TurnEnds(p) ==
    /\ InnerFree /\ p \in turn
    /\ proc[p] = "up" \/ p \in exits
    /\ turn' = turn \ {p}
    /\ IF live.pid = p
       THEN /\ live' = [live EXCEPT !.st = IF @ = "streaming" THEN "ready" ELSE @]
            /\ UNCHANGED <<back, parked>>
       ELSE LET done(s) == back[s].pid = p /\ back[s].st \in {"streaming", "ready"}
            IN /\ back' = [s \in Session |->
                             IF ~done(s) THEN back[s]
                             ELSE IF Alive(p) THEN NoShell
                             ELSE [back[s] EXCEPT !.st = "ready"]]
               /\ parked' = [s \in Session |->
                               IF done(s) /\ Alive(p) THEN p ELSE parked[s]]
               /\ UNCHANGED live
    /\ UNCHANGED <<proc, kills, exits, conn>>

\* The prompt call returns an error: the session in focus is marked, whichever
\* it is.
TurnFails(p) ==
    /\ InnerFree /\ p \in turn /\ turn' = turn \ {p}
    /\ live' = FailWith(live)
    /\ UNCHANGED <<proc, back, parked, kills, exits, conn>>

\* An error event, or retries exhausted, routed by process id.
AgentError(p) ==
    /\ InnerFree /\ p \in turn
    /\ IF live.pid = p
       THEN live' = FailWith(live) /\ UNCHANGED back
       ELSE /\ back' = [s \in Session |-> IF back[s].pid = p THEN FailWith(back[s])
                                          ELSE back[s]]
            /\ UNCHANGED live
    /\ UNCHANGED <<proc, parked, kills, exits, turn, conn>>

------------------------------------------------------------------------------
(* The user, the settings and the idle watchdog.                           *)

SendMessage ==
    /\ InnerFree /\ live.st = "ready"
    /\ live' = [live EXCEPT !.st = "streaming"]
    /\ turn' = turn \cup ({live.acp} \ {None})
    /\ UNCHANGED <<proc, back, parked, kills, exits, conn>>

Stop ==
    /\ InnerFree /\ live.st = "streaming"
    /\ live' = [live EXCEPT !.st = "ready"]
    /\ UNCHANGED <<proc, back, parked, kills, exits, turn, conn>>

\* sessionDisconnect: a new chat.
Disconnect ==
    /\ InnerFree /\ live # NoShell
    /\ live' = NoShell
    /\ kills' = kills \cup Doomed({live.acp})
    /\ UNCHANGED <<proc, back, parked, exits, turn, conn>>

Softened(pid) ==
    [live EXCEPT !.st = IF @ = "idle" THEN @ ELSE "disconnected", !.acp = None,
                 !.pid = pid]

\* A changed setting restarts the focused agent,
SoftRespawn ==
    /\ InnerFree /\ live.acp # None
    /\ live' = Softened(None)
    /\ kills' = kills \cup Doomed({live.acp})
    /\ UNCHANGED <<proc, back, parked, exits, turn, conn>>

\* or all of them.
RecycleAll ==
    /\ InnerFree /\ live' = Softened(None)
    /\ back' = [s \in Session |-> NoShell]
    /\ parked' = [s \in Session |-> None]
    /\ kills' = kills \cup Active(live, back, parked)
    /\ UNCHANGED <<proc, exits, turn, conn>>

\* The watchdog sweeps, kills parked processes that were idle too long,
IdleParked(S) ==
    /\ parked' = [s \in Session |-> IF s \in S THEN None ELSE Sweep[s]]
    /\ kills' = kills \cup Doomed({parked[s] : s \in S})
    /\ UNCHANGED <<proc, live, back, exits, turn, conn>>

\* and that of a focused session that is ready.
IdleLive ==
    /\ InnerFree /\ live.st = "ready" /\ live.acp # None
    /\ live' = Softened(live.pid)
    /\ kills' = kills \cup Doomed({live.acp})
    /\ UNCHANGED <<proc, back, parked, exits, turn, conn>>

------------------------------------------------------------------------------
Init ==
    /\ proc = [p \in Process |-> "none"]
    /\ live = NoShell
    /\ back = [s \in Session |-> NoShell]
    /\ parked = [s \in Session |-> None]
    /\ kills = {} /\ exits = {} /\ turn = {}
    /\ conn = NoConn

Connect ==
    \/ \E s \in Session : \/ ConnectNoOp(s) \/ ConnectBlocks(s) \/ ConnectPromote(s)
                          \/ ConnectUnpark(s) \/ ConnectReuse(s) \/ ConnectAgain(s) \/ ConnectCold(s)
    \/ UnparkDone \/ LeftoverKilled \/ RoomMade
    \/ OpenAnswered \/ Connected \/ OpenFails \/ ConnectFails

Agents ==
    \E p \in Process : \/ ProcessDies(p) \/ ExitHandled(p)
                       \/ TurnEnds(p) \/ TurnFails(p) \/ AgentError(p)

User == SendMessage \/ Stop \/ Disconnect \/ SoftRespawn \/ RecycleAll

Watchdog == IdleLive \/ \E S \in SUBSET Session : IdleParked(S)

Next == Connect \/ Agents \/ User \/ Watchdog

Spec == Init /\ [][Next]_vars

------------------------------------------------------------------------------
(* Properties.                                                             *)

Shell == [sid : Session \cup {None}, st : {"idle", "connecting", "ready", "streaming",
          "disconnected"}, acp : Process \cup {None}, pid : Process \cup {None}]

\* Types; a shell takes the events of its own process.
TypeOK ==
    /\ proc \in [Process -> {"none", "up", "dead"}]
    /\ live \in Shell /\ live.acp \in {None, live.pid}
    /\ back \in [Session -> Shell]
    /\ \A s \in Session : back[s] # NoShell => back[s].sid = s /\ back[s].acp = back[s].pid
    /\ parked \in [Session -> Process \cup {None}]
    /\ kills \subseteq Process /\ exits \subseteq Process /\ turn \subseteq Process
    /\ conn \in [ph : {"idle", "leftover", "room", "open", "align", "unpark", "failing",
                        "blocked"},
                 sid : Session \cup {None}, p : Process \cup {None},
                 w : Process \cup {None}]

\* The process that connect holds; until there is room it has only its name.
InConn == IF conn.ph = "room" THEN None ELSE conn.p
Held(p) ==
    live.acp = p \/ InConn = p \/ \E s \in Session : back[s].acp = p \/ parked[s] = p

\* No process is in two slots, or in a slot and being killed: no session gets
\* the events, the focus or the death of another one's agent.
HeldOnce ==
    \A p \in Process :
        /\ Held(p) => p \notin kills
        /\ live.acp = p => InConn # p
        /\ \A s \in Session : back[s].acp = p \/ parked[s] = p => live.acp # p /\ InConn # p
        /\ \A s, t \in Session : back[s].acp = p => parked[t] # p
        /\ \A s, t \in Session : back[s].acp = p /\ back[t].acp = p => s = t
        /\ \A s, t \in Session : parked[s] = p /\ parked[t] = p => s = t

\* The slots are exclusive both ways: no process is in two of them, and a
\* session has one agent at most, in focus, in the background or parked.
OneSlot ==
    /\ HeldOnce
    /\ \A s \in Session :
         /\ live.sid = s => back[s] = NoShell /\ parked[s] = None
         /\ back[s] # NoShell => parked[s] = None

\* The processes that the host knows, the one it is starting included, stay
\* within the limit through every move between the slots.
HeldCap == Cardinality({p \in Process : proc[p] = "up" /\ Held(p)}) <= MaxConcurrent

\* A process that dies in the background or while parked gives up its slot:
\* nothing stays there that no event will ever remove.
DeadLeave ==
    \A s \in Session : \A p \in {back[s].acp, parked[s]} \ {None} :
        proc[p] = "up" \/ p \in exits

\* "Busy: keep full LiveSession in background so streaming continues"
\* (session_manager.rs): opening another chat never leaves a turn whose events
\* nobody takes any more.
StreamsOn == ~InnerFree => \A p \in turn : proc[p] # "up"
=============================================================================
