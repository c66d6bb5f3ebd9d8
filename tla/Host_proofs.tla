----------------------------- MODULE Host_proofs -----------------------------
(***************************************************************************)
(* The two stateful parts of the desktop's Rust host, for any constants.   *)
(*                                                                         *)
(* AgentPool: the slots hold every process once, every session in one      *)
(* place and no more running processes than the limit.                     *)
(*                                                                         *)
(* Checkpoints: the refs of every listed snapshot are kept, the journal    *)
(* tells what a revert did, and what a revert overwrote is in its safety   *)
(* checkpoint.                                                             *)
(***************************************************************************)
EXTENDS AgentPool, Checkpoints, FiniteSetTheorems, TLAPS

------------------------------------------------------------------------------
(* The inductive invariant, over slots given as arguments so that a connect  *)
(* can be followed through the parking that it begins with.                  *)

Some(p) == p # None

ShellOK(l) == l \in Shell /\ l.acp \in {None, l.pid}
BackOK(bk) ==
    /\ bk \in [Session -> Shell]
    /\ \A s \in Session : bk[s] # NoShell => bk[s].sid = s /\ bk[s].acp = bk[s].pid
ParkedOK(pk) == pk \in [Session -> Process \cup {None}]
OpenOK(c) == c \in Process \cup {None}

\* The process of each slot is in no other slot.
LiveAlone(l, bk, pk, c) ==
    Some(l.acp) => l.acp # c /\ \A s \in Session : bk[s].acp # l.acp /\ pk[s] # l.acp
OpenAlone(bk, pk, c) == Some(c) => \A s \in Session : bk[s].acp # c /\ pk[s] # c
BackAlone(bk, pk) ==
    \A s, t \in Session : Some(bk[s].acp) =>
        pk[t] # bk[s].acp /\ (bk[t].acp = bk[s].acp => s = t)
ParkedAlone(pk) == \A s, t \in Session : Some(pk[s]) /\ pk[t] = pk[s] => s = t

\* Each session is in one place.
Once(l, bk, pk) ==
    \A s \in Session : /\ l.sid = s => bk[s] = NoShell /\ pk[s] = None
                       /\ bk[s] # NoShell => pk[s] = None

\* The events of the focused session are nobody else's.
OwnEvents(l, bk) == Some(l.pid) => \A s \in Session : bk[s].acp # l.pid

Placed(l, bk, pk, c) ==
    /\ ShellOK(l) /\ BackOK(bk) /\ ParkedOK(pk) /\ OpenOK(c)
    /\ LiveAlone(l, bk, pk, c) /\ OpenAlone(bk, pk, c) /\ BackAlone(bk, pk) /\ ParkedAlone(pk)
    /\ Once(l, bk, pk) /\ OwnEvents(l, bk)

\* What the slots hold was started and is not being killed; outside the focus
\* it lives or its exit is under way.
Holding(l, bk, pk, c, p) ==
    l.acp = p \/ c = p \/ \E s \in Session : bk[s].acp = p \/ pk[s] = p
Sound(l, bk, pk, c, pr, ki, ex) ==
    /\ \A p \in Process : Holding(l, bk, pk, c, p) => p \notin ki /\ pr[p] # "none"
    /\ \A s \in Session : Some(bk[s].acp) => pr[bk[s].acp] = "up" \/ bk[s].acp \in ex
    /\ \A s \in Session : Some(pk[s]) => pr[pk[s]] = "up" \/ pk[s] \in ex

ProcOK ==
    /\ proc \in [Process -> {"none", "up", "dead"}]
    /\ kills \subseteq Process /\ exits \subseteq Process /\ turn \subseteq Process
    /\ \A p \in kills : proc[p] = "up"

\* A session that connect is about to open or to unpark is nowhere else; a
\* process that waits for room was not started.
ConnOK ==
    /\ conn \in [ph : {"idle", "leftover", "room", "open", "align", "unpark", "failing",
                       "blocked"},
                 sid : Session \cup {None}, p : Process \cup {None}, w : Process \cup {None}]
    /\ conn.ph \in {"leftover", "unpark"} =>
         /\ conn.sid \in Session
         /\ back[conn.sid] = NoShell /\ parked[conn.sid] = None
    /\ conn.ph = "room" => conn.p \in Process /\ proc[conn.p] = "none"

IInv ==
    /\ Placed(live, back, parked, InConn)
    /\ Sound(live, back, parked, InConn, proc, kills, exits)
    /\ ProcOK /\ ConnOK

------------------------------------------------------------------------------
(* Slots that only lose what they held.                                      *)

Lost(x, y) == x \in {None, y}
BackShrinks(bk2, bk) ==
    \A s \in Session :
        bk2[s] # NoShell => /\ bk[s] # NoShell
                            /\ bk2[s].acp = bk[s].acp /\ bk2[s].pid = bk[s].pid

LEMMA PlacedShrinks ==
    ASSUME NEW l, NEW bk, NEW pk, NEW c, Placed(l, bk, pk, c),
           NEW l2, NEW bk2, NEW pk2, NEW c2,
           ShellOK(l2), Lost(l2.acp, l.acp), Lost(l2.pid, l.pid), Lost(l2.sid, l.sid),
           BackOK(bk2), BackShrinks(bk2, bk),
           ParkedOK(pk2), \A s \in Session : Lost(pk2[s], pk[s]),
           Lost(c2, c)
    PROVE  Placed(l2, bk2, pk2, c2)
<1>1. NoShell.acp = None /\ NoShell.pid = None
  BY DEF NoShell
<1>2. \A s \in Session : Lost(bk2[s].acp, bk[s].acp)
  BY <1>1 DEF Lost, BackShrinks
<1>3. OpenOK(c2)
  BY DEF OpenOK, Lost, Placed
<1>4. LiveAlone(l2, bk2, pk2, c2)
  BY <1>2 DEF LiveAlone, Lost, Placed, Some
<1>5. OpenAlone(bk2, pk2, c2)
  BY <1>2 DEF OpenAlone, Lost, Placed, Some
<1>6. BackAlone(bk2, pk2)
  BY <1>2 DEF BackAlone, Lost, Placed, Some
<1>7. ParkedAlone(pk2)
  BY DEF ParkedAlone, Lost, Placed, Some
<1>8. Once(l2, bk2, pk2)
  BY AgentPoolAssumption DEF Once, Lost, Placed, BackShrinks
<1>9. OwnEvents(l2, bk2)
  BY <1>2 DEF OwnEvents, Lost, Placed, Some
<1> QED BY <1>3, <1>4, <1>5, <1>6, <1>7, <1>8, <1>9 DEF Placed

LEMMA SoundShrinks ==
    ASSUME NEW l, NEW bk, NEW pk, NEW c, NEW pr, NEW ki, NEW ex,
           Sound(l, bk, pk, c, pr, ki, ex),
           NEW l2, NEW bk2, NEW pk2, NEW c2, NEW pr2, NEW ki2, NEW ex2,
           Lost(l2.acp, l.acp), \A s \in Session : Lost(bk2[s].acp, bk[s].acp),
           \A s \in Session : Lost(pk2[s], pk[s]), Lost(c2, c),
           \A p \in Process : pr2[p] = "none" => pr[p] = "none",
           \A p \in Process : pr[p] = "up" => pr2[p] = "up" \/ p \in ex2,
           \A p \in Process : p \in ki2 => p \in ki \/ ~Holding(l2, bk2, pk2, c2, p),
           BackOK(bk2), ParkedOK(pk2),
           \A s \in Session : Some(bk2[s].acp) /\ bk2[s].acp \in ex => bk2[s].acp \in ex2,
           \A s \in Session : Some(pk2[s]) /\ pk2[s] \in ex => pk2[s] \in ex2
    PROVE  Sound(l2, bk2, pk2, c2, pr2, ki2, ex2)
<1>1. \A p \in Process : Holding(l2, bk2, pk2, c2, p) => Holding(l, bk, pk, c, p)
  BY AgentPoolAssumption DEF Holding, Lost
<1>2. \A p \in Process : Holding(l2, bk2, pk2, c2, p) => p \notin ki2 /\ pr2[p] # "none"
  BY <1>1 DEF Sound
<1>3. \A s \in Session : Some(bk2[s].acp) => pr2[bk2[s].acp] = "up" \/ bk2[s].acp \in ex2
  <2> SUFFICES ASSUME NEW s \in Session, Some(bk2[s].acp)
               PROVE pr2[bk2[s].acp] = "up" \/ bk2[s].acp \in ex2
    OBVIOUS
  <2>1. bk2[s].acp \in Process
    BY DEF BackOK, Shell, Some
  <2>2. bk2[s].acp = bk[s].acp
    BY DEF Lost, Some
  <2> QED BY <2>1, <2>2 DEF Sound, Some
<1>4. \A s \in Session : Some(pk2[s]) => pr2[pk2[s]] = "up" \/ pk2[s] \in ex2
  <2> SUFFICES ASSUME NEW s \in Session, Some(pk2[s])
               PROVE pr2[pk2[s]] = "up" \/ pk2[s] \in ex2
    OBVIOUS
  <2>1. pk2[s] \in Process /\ pk2[s] = pk[s]
    BY DEF ParkedOK, Lost, Some
  <2> QED BY <2>1 DEF Sound, Some
<1> QED BY <1>2, <1>3, <1>4 DEF Sound

\* A step in which the slots only lose what they held.
SlotsShrink ==
    /\ ShellOK(live') /\ Lost(live'.acp, live.acp) /\ Lost(live'.pid, live.pid)
                      /\ Lost(live'.sid, live.sid)
    /\ BackOK(back') /\ BackShrinks(back', back)
    /\ ParkedOK(parked') /\ \A s \in Session : Lost(parked'[s], parked[s])
    /\ Lost(InConn', InConn)
    /\ \A p \in Process : proc'[p] = "none" => proc[p] = "none"
    /\ \A p \in Process : proc[p] = "up" => proc'[p] = "up" \/ p \in exits'
    /\ \A p \in Process :
          p \in kills' => p \in kills \/ ~Holding(live', back', parked', InConn', p)
    /\ \A s \in Session :
          /\ Some(back'[s].acp) /\ back'[s].acp \in exits => back'[s].acp \in exits'
          /\ Some(parked'[s]) /\ parked'[s] \in exits => parked'[s] \in exits'

Kept == Placed(live', back', parked', InConn')
        /\ Sound(live', back', parked', InConn', proc', kills', exits')

LEMMA ShrinkKept == IInv /\ SlotsShrink => Kept
<1> SUFFICES ASSUME IInv, SlotsShrink PROVE Kept
  OBVIOUS
<1>1. Placed(live', back', parked', InConn')
  BY PlacedShrinks DEF IInv, SlotsShrink
<1>2. \A s \in Session : Lost(back'[s].acp, back[s].acp)
  BY DEF SlotsShrink, Lost, NoShell, BackShrinks
<1>3. Sound(live', back', parked', InConn', proc', kills', exits')
  BY <1>2, SoundShrinks DEF IInv, SlotsShrink
<1> QED BY <1>1, <1>3 DEF Kept

------------------------------------------------------------------------------
(* The steps that only empty slots.                                          *)

LEMMA ProcessDiesKept == ASSUME IInv, NEW q \in Process, ProcessDies(q) PROVE IInv'
<1> USE DEF ProcessDies, IInv
<1>1. SlotsShrink
  BY DEF SlotsShrink, BackShrinks, Placed, Lost, ProcOK, Sound, InConn, Holding
<1>2. ProcOK' /\ ConnOK'
  BY DEF ProcOK, ConnOK
<1> QED BY <1>1, <1>2, ShrinkKept DEF Kept

LEMMA ExitHandledKept == ASSUME IInv, NEW q \in Process, ExitHandled(q) PROVE IInv'
<1> USE DEF ExitHandled, IInv
<1>0. q # None
  BY AgentPoolAssumption
<1>1. ShellOK(live') /\ Lost(live'.acp, live.acp) /\ Lost(live'.pid, live.pid)
      /\ Lost(live'.sid, live.sid)
  BY DEF Placed, ShellOK, Shell, Lost
<1>2. BackOK(back') /\ \A s \in Session : back'[s] \in {NoShell, back[s]}
  BY DEF Placed, BackOK, NoShell, Shell
<1>3. ParkedOK(parked') /\ \A s \in Session : Lost(parked'[s], parked[s])
  BY DEF Placed, ParkedOK, Lost
<1>4. \A s \in Session : back'[s].acp # q
  BY <1>0 DEF Placed, OwnEvents, BackOK, NoShell, Some
<1>5. \A s \in Session : parked'[s] # q
  <2>1. CASE live.pid # q /\ \E s \in Session : back[s].pid = q
    <3>1. PICK s \in Session : back[s].pid = q
      BY <2>1
    <3>2. back[s] # NoShell
      BY <3>1, <1>0 DEF NoShell
    <3>3. back[s].acp = q
      BY <3>1, <3>2 DEF Placed, BackOK
    <3> QED BY <3>3, <2>1, <1>0 DEF Placed, BackAlone, Some
  <2>2. CASE ~(live.pid # q /\ \E s \in Session : back[s].pid = q)
    BY <2>2, <1>0 DEF Placed, ParkedOK
  <2> QED BY <2>1, <2>2
<1>6. InConn' = InConn /\ UNCHANGED <<proc, kills>> /\ exits' = exits \ {q}
  BY DEF InConn
<1>7. SlotsShrink
  <2>1. BackShrinks(back', back)
    BY <1>2 DEF BackShrinks
  <2> QED BY <2>1, <1>1, <1>2, <1>3, <1>4, <1>5, <1>6 DEF SlotsShrink, Lost
<1>8. ProcOK'
  BY DEF ProcOK
<1>9. ConnOK'
  BY <1>2, <1>3 DEF ConnOK, Lost
<1> QED BY <1>7, <1>8, <1>9, ShrinkKept DEF Kept

SameOwner(l2, l) == l2.acp = l.acp /\ l2.pid = l.pid /\ l2.sid = l.sid

LEMMA StatesKept ==
    ASSUME NEW l, ShellOK(l)
    PROVE  /\ ShellOK(FailWith(l)) /\ SameOwner(FailWith(l), l)
           /\ ShellOK(ConnectFailed(l)) /\ SameOwner(ConnectFailed(l), l)
BY DEF ShellOK, Shell, SameOwner, FailWith, ConnectFailed

LEMMA SoftenedKept ==
    ASSUME ShellOK(live), NEW q \in {None, live.pid}
    PROVE  ShellOK(Softened(q)) /\ Softened(q).acp = None /\ Softened(q).pid = q
           /\ Softened(q).sid = live.sid
BY DEF ShellOK, Shell, Softened

LEMMA NoShellOK ==
    ShellOK(NoShell) /\ NoShell.acp = None /\ NoShell.pid = None /\ NoShell.sid = None
BY DEF ShellOK, Shell, NoShell

\* Only the state of the focused session changes, and what may be killed.
LEMMA FocusKept ==
    ASSUME IInv, ShellOK(live'), Lost(live'.acp, live.acp), Lost(live'.pid, live.pid),
           Lost(live'.sid, live.sid),
           UNCHANGED <<proc, exits>>,
           back' = back, ParkedOK(parked'), \A s \in Session : Lost(parked'[s], parked[s]),
           Lost(InConn', InConn),
           kills' \in SUBSET Process, \A p \in kills' : proc[p] = "up",
           \A p \in kills' : p \in kills \/ ~Holding(live', back', parked', InConn', p),
           turn' \subseteq Process
    PROVE  Kept /\ ProcOK'
<1>1. BackShrinks(back', back) /\ BackOK(back')
  BY DEF BackShrinks, IInv, Placed
<1>2. SlotsShrink
  BY <1>1 DEF SlotsShrink, Lost
<1>3. ProcOK'
  BY DEF ProcOK, IInv
<1> QED BY <1>2, <1>3, ShrinkKept

\* A step that changes nothing but the state of the focused session.
LEMMA TurnKept ==
    ASSUME IInv, ShellOK(live'), SameOwner(live', live), turn' \subseteq Process,
           UNCHANGED <<proc, back, parked, kills, exits, conn>>
    PROVE  IInv'
<1>1. Kept /\ ProcOK'
  <2>1. ParkedOK(parked') /\ InConn' = InConn
    BY DEF IInv, Placed, InConn
  <2> QED BY <2>1, FocusKept DEF SameOwner, Lost, IInv, ProcOK
<1>2. ConnOK'
  BY DEF ConnOK, IInv
<1> QED BY <1>1, <1>2 DEF IInv, Kept

LEMMA SendMessageKept == IInv /\ SendMessage => IInv'
<1> SUFFICES ASSUME IInv, SendMessage PROVE IInv'
  OBVIOUS
<1>1. ShellOK(live') /\ SameOwner(live', live) /\ turn' \subseteq Process
  BY DEF IInv, SendMessage, Placed, ShellOK, Shell, SameOwner, ProcOK
<1> QED BY <1>1, TurnKept DEF SendMessage

LEMMA StopKept == IInv /\ Stop => IInv'
<1> SUFFICES ASSUME IInv, Stop PROVE IInv'
  OBVIOUS
<1>1. ShellOK(live') /\ SameOwner(live', live) /\ turn' \subseteq Process
  BY DEF IInv, Stop, Placed, ShellOK, Shell, SameOwner, ProcOK
<1> QED BY <1>1, TurnKept DEF Stop

LEMMA TurnFailsKept == ASSUME IInv, NEW q \in Process, TurnFails(q) PROVE IInv'
<1>1. ShellOK(live') /\ SameOwner(live', live) /\ turn' \subseteq Process
  BY StatesKept DEF IInv, TurnFails, Placed, ProcOK
<1> QED BY <1>1, TurnKept DEF TurnFails

LEMMA AgentErrorKept == ASSUME IInv, NEW q \in Process, AgentError(q) PROVE IInv'
<1>1. CASE live.pid = q
  <2>1. ShellOK(live') /\ SameOwner(live', live) /\ turn' \subseteq Process
    BY <1>1, StatesKept DEF IInv, AgentError, Placed, ProcOK
  <2> QED BY <1>1, <2>1, TurnKept DEF AgentError
<1>2. CASE live.pid # q
  <2>1. UNCHANGED <<proc, live, parked, kills, exits, turn, conn>> /\ InConn' = InConn
    BY <1>2 DEF AgentError, InConn
  <2>2. BackOK(back') /\ BackShrinks(back', back)
        /\ \A s \in Session : back[s] = NoShell => back'[s] = NoShell
    <3>1. \A s \in Session : back[s] \in Shell /\ FailWith(back[s]) \in Shell
                            /\ SameOwner(FailWith(back[s]), back[s])
      BY DEF IInv, Placed, BackOK, Shell, FailWith, SameOwner
    <3>2. \A s \in Session : back[s] = NoShell => back[s].pid # q
      BY AgentPoolAssumption DEF NoShell
    <3>3. back' = [s \in Session |-> IF back[s].pid = q THEN FailWith(back[s]) ELSE back[s]]
      BY <1>2 DEF AgentError
    <3> QED BY <3>1, <3>2, <3>3 DEF IInv, Placed, BackOK, BackShrinks, SameOwner
  <2>3. SlotsShrink
    BY <2>1, <2>2 DEF SlotsShrink, Lost, IInv, Placed
  <2>4. ProcOK' /\ ConnOK'
    BY <2>1, <2>2 DEF ProcOK, ConnOK, IInv
  <2> QED BY <2>3, <2>4, ShrinkKept DEF IInv, Kept
<1> QED BY <1>1, <1>2

\* A process that is taken from the focus to be killed is in no other slot.
LEMMA TakenAlone ==
    ASSUME IInv, NEW l2, l2.acp = None
    PROVE  \A p \in Doomed({live.acp}) : proc[p] = "up"
                                     /\ ~Holding(l2, back, parked, InConn, p)
BY AgentPoolAssumption DEF IInv, Placed, LiveAlone, Doomed, Alive, Holding, Some

LEMMA SweepOK ==
    ASSUME IInv
    PROVE  /\ ParkedOK(Sweep)
           /\ \A s \in Session : Lost(Sweep[s], parked[s]) /\ (Some(Sweep[s]) => Alive(Sweep[s]))
BY DEF IInv, Placed, ParkedOK, Sweep, Lost, Some, Alive

LEMMA DisconnectKept == IInv /\ Disconnect => IInv'
<1> SUFFICES ASSUME IInv, Disconnect PROVE IInv'
  OBVIOUS
<1>1. UNCHANGED <<proc, back, parked, exits, turn, conn>> /\ InConn' = InConn
  BY DEF Disconnect, InConn
<1>2. ShellOK(live') /\ live'.acp = None /\ live'.pid = None /\ live'.sid = None
  BY NoShellOK DEF Disconnect
<1>3. kills' = kills \cup Doomed({live.acp}) /\ Doomed({live.acp}) \subseteq Process
  BY DEF Disconnect, Doomed, Alive, IInv, Placed, ShellOK, Shell
<1>4. Kept /\ ProcOK'
  BY <1>1, <1>2, <1>3, TakenAlone, FocusKept DEF Lost, IInv, Placed, ProcOK
<1> QED BY <1>1, <1>4 DEF ConnOK, IInv, Kept

LEMMA SoftDropKept ==
    ASSUME IInv, NEW q \in {None, live.pid}, live' = Softened(q),
           kills' = kills \cup Doomed({live.acp}),
           UNCHANGED <<proc, back, parked, exits, turn, conn>>
    PROVE  IInv'
<1>1. InConn' = InConn
  BY DEF InConn
<1>2. ShellOK(live') /\ live'.acp = None /\ Lost(live'.pid, live.pid) /\ live'.sid = live.sid
  BY SoftenedKept DEF IInv, Placed, Lost
<1>3. Doomed({live.acp}) \subseteq Process
  BY DEF Doomed, Alive, IInv, Placed, ShellOK, Shell
<1>4. Kept /\ ProcOK'
  BY <1>1, <1>2, <1>3, TakenAlone, FocusKept DEF Lost, IInv, Placed, ProcOK
<1> QED BY <1>1, <1>4 DEF ConnOK, IInv, Kept

LEMMA RecycleAllKept == IInv /\ RecycleAll => IInv'
<1> SUFFICES ASSUME IInv, RecycleAll PROVE IInv'
  OBVIOUS
<1>1. UNCHANGED <<proc, exits, turn, conn>> /\ InConn' = InConn
  BY DEF RecycleAll, InConn
<1>2. ShellOK(live') /\ live'.acp = None /\ Lost(live'.pid, live.pid) /\ live'.sid = live.sid
  BY SoftenedKept DEF IInv, Placed, Lost, RecycleAll
<1>3. /\ BackOK(back') /\ BackShrinks(back', back)
      /\ \A s \in Session : back'[s] = NoShell /\ back'[s].acp = None
  BY NoShellOK DEF RecycleAll, BackOK, BackShrinks, ShellOK
<1>4. ParkedOK(parked') /\ \A s \in Session : parked'[s] = None
  BY DEF RecycleAll, ParkedOK
<1>5. /\ kills' \subseteq Process
      /\ \A p \in kills' : proc[p] = "up"
      /\ \A p \in kills' : p \in kills \/ p # InConn
  <2>1. \A p \in Active(live, back, parked) :
           p \in Process /\ proc[p] = "up" /\ p # InConn
    BY AgentPoolAssumption
    DEF Active, IInv, Placed, LiveAlone, OpenAlone, Some
  <2> QED BY <2>1 DEF RecycleAll, IInv, ProcOK
<1>6. SlotsShrink
  <2>1. \A p \in Process : p \in kills' =>
           p \in kills \/ ~Holding(live', back', parked', InConn', p)
    BY <1>1, <1>2, <1>3, <1>4, <1>5, AgentPoolAssumption DEF Holding
  <2> QED BY <2>1, <1>1, <1>2, <1>3, <1>4 DEF SlotsShrink, Lost, IInv, ProcOK
<1>7. ProcOK' /\ ConnOK'
  BY <1>1, <1>3, <1>4, <1>5 DEF ProcOK, ConnOK, IInv
<1> QED BY <1>6, <1>7, ShrinkKept DEF IInv, Kept

LEMMA IdleParkedKept == ASSUME IInv, NEW S \in SUBSET Session, IdleParked(S) PROVE IInv'
<1>1. UNCHANGED <<proc, live, back, exits, turn, conn>> /\ InConn' = InConn
  BY DEF IdleParked, InConn
<1>2. ParkedOK(parked') /\ \A s \in Session : Lost(parked'[s], parked[s])
                                          /\ (s \in S => parked'[s] = None)
  BY SweepOK DEF IdleParked, ParkedOK, Lost
<1>3. \A p \in kills' : /\ p \in Process /\ proc[p] = "up"
                        /\ p \in kills \/ ~Holding(live, back, parked', InConn, p)
  <2> SUFFICES ASSUME NEW p \in kills', p \notin kills
               PROVE p \in Process /\ proc[p] = "up" /\ ~Holding(live, back, parked', InConn, p)
    BY DEF IInv, ProcOK
  <2>1. PICK s \in S : p = parked[s]
    BY DEF IdleParked, Doomed
  <2>2. Alive(p)
    BY DEF IdleParked, Doomed
  <2>3. p \in Process
    BY <2>1, <2>2 DEF Alive, IInv, Placed, ParkedOK
  <2>4. live.acp # p /\ InConn # p /\ \A t \in Session : back[t].acp # p
    BY <2>1, <2>3, AgentPoolAssumption
    DEF IInv, Placed, LiveAlone, OpenAlone, BackAlone, Some
  <2>5. \A t \in Session : parked'[t] # p
    BY <1>2, <2>1, <2>3, AgentPoolAssumption DEF IInv, Placed, ParkedAlone, Some, Lost
  <2> QED BY <2>2, <2>3, <2>4, <2>5 DEF Holding, Alive
<1>4. Kept /\ ProcOK'
  <2>1. \A p \in kills' : p \in kills \/ ~Holding(live', back', parked', InConn', p)
    BY <1>1, <1>3
  <2>2. kills' \in SUBSET Process /\ \A p \in kills' : proc[p] = "up"
    BY <1>3
  <2>3. ShellOK(live') /\ turn' \subseteq Process
    BY <1>1 DEF IInv, Placed, ProcOK
  <2> QED BY <1>1, <1>2, <2>1, <2>2, <2>3, FocusKept DEF Lost
<1> QED BY <1>1, <1>2, <1>4 DEF ConnOK, IInv, Kept, Lost

LEMMA ConnectNoOpKept == ASSUME IInv, NEW s \in Session, ConnectNoOp(s) PROVE IInv'
<1>1. UNCHANGED <<proc, live, back, kills, exits, turn, conn>> /\ parked' = Sweep
      /\ InConn' = InConn
  BY DEF ConnectNoOp, InConn
<1>2. Kept /\ ProcOK'
  BY <1>1, SweepOK, FocusKept DEF Lost, IInv, Placed, ProcOK
<1> QED BY <1>1, <1>2, SweepOK DEF ConnOK, IInv, Kept, Lost

LEMMA ConnectBlocksKept == ASSUME IInv, NEW s \in Session, ConnectBlocks(s) PROVE IInv'
<1>1. UNCHANGED <<proc, live, back, kills, exits, turn>> /\ parked' = Sweep
  BY DEF ConnectBlocks
<1>2. InConn' = None /\ ConnOK'
  BY DEF ConnectBlocks, InConn, NoConn, ConnOK
<1>3. Kept /\ ProcOK'
  BY <1>1, <1>2, SweepOK, FocusKept DEF Lost, IInv, Placed, ProcOK
<1> QED BY <1>2, <1>3 DEF IInv, Kept

LEMMA ConnectAgainKept == ASSUME IInv, NEW s \in Session, ConnectAgain(s) PROVE IInv'
<1>1. UNCHANGED <<proc, back, exits, turn>> /\ parked' = Sweep /\ live' = NoShell
      /\ kills' = kills \cup Doomed({live.acp})
  BY DEF ConnectAgain
<1>2. live.acp \in Process \cup {None} /\ Doomed({live.acp}) \subseteq Process
  BY DEF Doomed, Alive, IInv, Placed, ShellOK, Shell
<1>3. InConn' = None /\ ConnOK'
  <2>1. back[s] = NoShell /\ Sweep[s] = None
    BY DEF ConnectAgain, Cold, Sweep
  <2>2. conn' = [ph |-> "leftover", sid |-> s, p |-> None, w |-> live.acp]
    BY DEF ConnectAgain
  <2> QED BY <1>1, <1>2, <2>1, <2>2 DEF InConn, ConnOK
<1>4. Kept /\ ProcOK'
  <2>1. \A p \in kills' : p \in kills \/ ~Holding(live', back', parked', InConn', p)
    <3>1. \A p \in Doomed({live.acp}) : ~Holding(NoShell, back, parked, InConn, p)
      BY TakenAlone, NoShellOK
    <3>2. \A p \in Process : Holding(live', back', parked', InConn', p)
                              => Holding(NoShell, back, parked, InConn, p)
      BY <1>1, <1>3, SweepOK, AgentPoolAssumption DEF Holding, Lost
    <3> QED BY <1>1, <1>2, <3>1, <3>2
  <2>2. kills' \in SUBSET Process /\ \A p \in kills' : proc[p] = "up"
    BY <1>1, <1>2 DEF Doomed, Alive, IInv, ProcOK
  <2>3. ShellOK(live') /\ Lost(live'.acp, live.acp) /\ Lost(live'.pid, live.pid)
        /\ Lost(live'.sid, live.sid)
    BY <1>1, NoShellOK DEF Lost
  <2> QED BY <1>1, <1>3, <2>1, <2>2, <2>3, SweepOK, FocusKept DEF Lost, IInv, ProcOK
<1> QED BY <1>3, <1>4 DEF IInv, Kept

LEMMA OpenAnsweredKept == IInv /\ OpenAnswered => IInv'
<1> SUFFICES ASSUME IInv, OpenAnswered PROVE IInv'
  OBVIOUS
<1>1. UNCHANGED <<proc, live, back, parked, kills, exits, turn>>
  BY DEF OpenAnswered
<1>2. InConn' = InConn /\ ConnOK'
  BY DEF OpenAnswered, InConn, ConnOK, IInv
<1> QED BY <1>1, <1>2 DEF IInv, ProcOK

LEMMA OpenFailsKept == IInv /\ OpenFails => IInv'
<1> SUFFICES ASSUME IInv, OpenFails PROVE IInv'
  OBVIOUS
<1>1. UNCHANGED <<proc, live, back, parked, exits, turn>>
      /\ kills' = kills \cup Doomed({conn.p})
  BY DEF OpenFails
<1>2. InConn' = None /\ ConnOK'
  BY DEF OpenFails, InConn, ConnOK, IInv
<1>3. \A p \in Doomed({conn.p}) :
         p \in Process /\ proc[p] = "up" /\ ~Holding(live, back, parked, None, p)
  <2>1. InConn = conn.p
    BY DEF OpenFails, InConn
  <2> QED BY <2>1, AgentPoolAssumption
          DEF Doomed, Alive, IInv, Placed, OpenOK, LiveAlone, OpenAlone, Some, Holding
<1>4. Kept /\ ProcOK'
  <2>1. \A p \in kills' : p \in kills \/ ~Holding(live', back', parked', InConn', p)
    BY <1>1, <1>2, <1>3
  <2>2. kills' \in SUBSET Process /\ \A p \in kills' : proc[p] = "up"
    BY <1>1, <1>3 DEF IInv, ProcOK
  <2>3. ShellOK(live') /\ ParkedOK(parked') /\ turn' \subseteq Process
    BY <1>1 DEF IInv, Placed, ProcOK
  <2> QED BY <1>1, <1>2, <2>1, <2>2, <2>3, FocusKept DEF Lost
<1> QED BY <1>2, <1>4 DEF IInv, Kept

LEMMA ConnectFailsKept == IInv /\ ConnectFails => IInv'
<1> SUFFICES ASSUME IInv, ConnectFails PROVE IInv'
  OBVIOUS
<1>1. UNCHANGED <<proc, back, parked, kills, exits, turn>>
  BY DEF ConnectFails
<1>2. InConn' = None /\ ConnOK'
  BY DEF ConnectFails, InConn, NoConn, ConnOK
<1>3. ShellOK(live') /\ SameOwner(live', live)
  BY StatesKept DEF ConnectFails, IInv, Placed
<1>4. Kept /\ ProcOK'
  <2>1. ParkedOK(parked') /\ turn' \subseteq Process /\ kills' \in SUBSET Process
        /\ \A p \in kills' : proc[p] = "up"
    BY <1>1 DEF IInv, Placed, ProcOK
  <2> QED BY <1>1, <1>2, <1>3, <2>1, FocusKept DEF Lost, SameOwner
<1> QED BY <1>2, <1>4 DEF IInv, Kept

------------------------------------------------------------------------------
(* Moves between the slots.                                                  *)

\* A shell without a process comes into focus.
LEMMA Refocused ==
    ASSUME NEW l, NEW bk, NEW pk, NEW c, Placed(l, bk, pk, c),
           NEW l2, ShellOK(l2), l2.acp = None,
           \A s \in Session : l2.sid = s => bk[s] = NoShell /\ pk[s] = None,
           Some(l2.pid) => \A s \in Session : bk[s].acp # l2.pid
    PROVE  Placed(l2, bk, pk, c)
BY DEF Placed, LiveAlone, Once, OwnEvents, Some

\* connect holds a process that nobody has.
LEMMA Opened ==
    ASSUME NEW l, NEW bk, NEW pk, Placed(l, bk, pk, None),
           NEW c \in Process, ~Holding(l, bk, pk, None, c)
    PROVE  Placed(l, bk, pk, c)
<1>1. l.acp # c /\ \A s \in Session : bk[s].acp # c /\ pk[s] # c
  BY DEF Holding
<1> QED BY <1>1 DEF Placed, LiveAlone, OpenAlone, OpenOK, Some

\* The focused session gets the process that connect held.
LEMMA Handed ==
    ASSUME NEW l, NEW bk, NEW pk, NEW c, Placed(l, bk, pk, c),
           NEW l2, ShellOK(l2), l2.acp = c, l2.pid = c,
           \A s \in Session : l2.sid = s => bk[s] = NoShell /\ pk[s] = None
    PROVE  Placed(l2, bk, pk, None)
BY DEF Placed, OpenOK, LiveAlone, OpenAlone, Once, OwnEvents, Some

\* A session comes from the background into focus.
LEMMA Promoted ==
    ASSUME NEW l, NEW bk, NEW pk, NEW c, Placed(l, bk, pk, c),
           NEW s \in Session, bk[s] # NoShell
    PROVE  Placed(bk[s], [bk EXCEPT ![s] = NoShell], pk, c)
<1> DEFINE b2 == [bk EXCEPT ![s] = NoShell]
<1>1. b2 \in [Session -> Shell] /\ b2[s] = NoShell /\ NoShell.acp = None
      /\ \A t \in Session : t # s => b2[t] = bk[t]
  BY NoShellOK DEF Placed, BackOK, ShellOK
<1>2. bk[s] \in Shell /\ bk[s].sid = s /\ bk[s].acp = bk[s].pid
  BY DEF Placed, BackOK
<1> HIDE DEF b2
<1>3. ShellOK(bk[s]) /\ BackOK(b2)
  BY <1>1, <1>2 DEF ShellOK, BackOK, Placed
<1>4. LiveAlone(bk[s], b2, pk, c) /\ OpenAlone(b2, pk, c)
  BY <1>1 DEF LiveAlone, OpenAlone, BackAlone, Placed, Some
<1>5. BackAlone(b2, pk) /\ OwnEvents(bk[s], b2)
  BY <1>1, <1>2 DEF OwnEvents, BackAlone, Placed, Some
<1>6. Once(bk[s], b2, pk)
  BY <1>1, <1>2 DEF Once, Placed
<1> QED BY <1>3, <1>4, <1>5, <1>6 DEF Placed, b2

\* A parked process is taken out to be opened.
LEMMA Unparked ==
    ASSUME NEW l, NEW bk, NEW pk, Placed(l, bk, pk, None),
           NEW s \in Session, Some(pk[s])
    PROVE  Placed(l, bk, [pk EXCEPT ![s] = None], pk[s])
<1> DEFINE k2 == [pk EXCEPT ![s] = None]
<1>1. ParkedOK(k2) /\ k2[s] = None /\ \A t \in Session : t # s => k2[t] = pk[t]
  BY DEF Placed, ParkedOK
<1>2. OpenOK(pk[s])
  BY DEF Placed, ParkedOK, OpenOK
<1> HIDE DEF k2
<1>3. LiveAlone(l, bk, k2, pk[s]) /\ OpenAlone(bk, k2, pk[s])
  BY <1>1, <1>2 DEF LiveAlone, OpenAlone, BackAlone, ParkedAlone, Placed, Some
<1>4. BackAlone(bk, k2) /\ ParkedAlone(k2) /\ Once(l, bk, k2)
  BY <1>1 DEF BackAlone, ParkedAlone, Once, Placed, Some
<1> QED BY <1>1, <1>2, <1>3, <1>4 DEF Placed, k2

\* Another session takes the process of the focus over.
LEMMA Reused ==
    ASSUME NEW l, NEW bk, NEW pk, Placed(l, bk, pk, None), Some(l.acp),
           NEW l2, ShellOK(l2), l2.acp = None, l2.pid = l.pid,
           \A s \in Session : l2.sid = s => bk[s] = NoShell /\ pk[s] = None
    PROVE  Placed(l2, bk, pk, l.acp)
<1>1. OpenOK(l.acp) /\ OpenAlone(bk, pk, l.acp)
  BY DEF Placed, ShellOK, Shell, OpenOK, OpenAlone, LiveAlone
<1> QED BY <1>1 DEF Placed, LiveAlone, OwnEvents, Once, Some

\* A background session whose turn is over is parked.
LEMMA Rested ==
    ASSUME NEW l, NEW bk, NEW pk, NEW c, Placed(l, bk, pk, c),
           NEW s \in Session, bk[s] # NoShell
    PROVE  Placed(l, [bk EXCEPT ![s] = NoShell], [pk EXCEPT ![s] = bk[s].acp], c)
<1> DEFINE b2 == [bk EXCEPT ![s] = NoShell]
           k2 == [pk EXCEPT ![s] = bk[s].acp]
<1>1. b2 \in [Session -> Shell] /\ b2[s] = NoShell /\ NoShell.acp = None
      /\ \A t \in Session : t # s => b2[t] = bk[t]
  BY NoShellOK DEF Placed, BackOK, ShellOK
<1>2. ParkedOK(k2) /\ k2[s] = bk[s].acp /\ \A t \in Session : t # s => k2[t] = pk[t]
  BY DEF Placed, ParkedOK, BackOK, Shell
<1> HIDE DEF b2, k2
<1>3. BackOK(b2)
  BY <1>1 DEF BackOK, Placed
<1>4. LiveAlone(l, b2, k2, c) /\ OpenAlone(b2, k2, c)
  BY <1>1, <1>2 DEF LiveAlone, OpenAlone, Placed, Some
<1>5. BackAlone(b2, k2) /\ ParkedAlone(k2)
  BY <1>1, <1>2 DEF BackAlone, ParkedAlone, Placed, Some
<1>6. Once(l, b2, k2) /\ OwnEvents(l, b2)
  BY <1>1, <1>2 DEF Once, OwnEvents, Placed, Some
<1> QED BY <1>2, <1>3, <1>4, <1>5, <1>6 DEF Placed, b2, k2

\* Slots hold only what slots held.
LEMMA SoundMoves ==
    ASSUME NEW l, NEW bk, NEW pk, NEW c, NEW pr, NEW ki, NEW ex,
           Sound(l, bk, pk, c, pr, ki, ex),
           NEW l2, NEW bk2, NEW pk2, NEW c2,
           \A p \in Process : Holding(l2, bk2, pk2, c2, p) => Holding(l, bk, pk, c, p),
           \A s \in Session : Some(bk2[s].acp) => pr[bk2[s].acp] = "up" \/ bk2[s].acp \in ex,
           \A s \in Session : Some(pk2[s]) => pr[pk2[s]] = "up" \/ pk2[s] \in ex
    PROVE  Sound(l2, bk2, pk2, c2, pr, ki, ex)
BY DEF Sound

------------------------------------------------------------------------------
(* try_park_live, and the connects that begin with it.                       *)

\* The focused session goes to the parked ones,
LEMMA PutParked ==
    ASSUME NEW l, NEW bk, NEW pk, NEW c, Placed(l, bk, pk, c),
           Some(l.acp), l.sid \in Session
    PROVE  Placed(NoShell, bk, [pk EXCEPT ![l.sid] = l.acp], c)
<1> DEFINE k2 == [pk EXCEPT ![l.sid] = l.acp]
<1>1. ParkedOK(k2) /\ k2[l.sid] = l.acp /\ \A t \in Session : t # l.sid => k2[t] = pk[t]
  BY DEF Placed, ParkedOK, ShellOK, Shell
<1> HIDE DEF k2
<1>2. LiveAlone(NoShell, bk, k2, c) /\ OwnEvents(NoShell, bk) /\ Once(NoShell, bk, k2)
  BY <1>1, NoShellOK, AgentPoolAssumption DEF LiveAlone, OwnEvents, Once, Placed, Some
<1>3. OpenAlone(bk, k2, c)
  BY <1>1 DEF OpenAlone, LiveAlone, Placed, Some
<1>4. BackAlone(bk, k2) /\ ParkedAlone(k2)
  BY <1>1 DEF BackAlone, ParkedAlone, LiveAlone, Placed, Some
<1> QED BY <1>1, <1>2, <1>3, <1>4, NoShellOK DEF Placed, k2

\* or to the background.
LEMMA PutBack ==
    ASSUME NEW l, NEW bk, NEW pk, NEW c, Placed(l, bk, pk, c),
           Some(l.acp), l.sid \in Session
    PROVE  Placed(NoShell, [bk EXCEPT ![l.sid] = l], pk, c)
<1> DEFINE b2 == [bk EXCEPT ![l.sid] = l]
<1>1. b2 \in [Session -> Shell] /\ b2[l.sid] = l
      /\ \A t \in Session : t # l.sid => b2[t] = bk[t]
  BY DEF Placed, BackOK, ShellOK
<1> HIDE DEF b2
<1>2. BackOK(b2)
  BY <1>1 DEF BackOK, ShellOK, Placed, Some
<1>3. LiveAlone(NoShell, b2, pk, c) /\ OwnEvents(NoShell, b2)
  BY NoShellOK DEF LiveAlone, OwnEvents, Some
<1>4. Once(NoShell, b2, pk)
  BY <1>1, NoShellOK, AgentPoolAssumption DEF Once, Placed
<1>5. OpenAlone(b2, pk, c) /\ BackAlone(b2, pk)
  BY <1>1 DEF OpenAlone, BackAlone, LiveAlone, Placed, Some
<1> QED BY <1>2, <1>3, <1>4, <1>5, NoShellOK DEF Placed, b2

\* What a connect sees of the slots before and after it has parked the focus.
Fit(l, bk, pk) ==
    /\ Placed(l, bk, pk, None) /\ Sound(l, bk, pk, None, proc, kills, exits)
    /\ \A s \in Session : Some(pk[s]) => Alive(pk[s])

LEMMA SweepFit == IInv => Fit(live, back, Sweep)
<1> SUFFICES ASSUME IInv PROVE Fit(live, back, Sweep)
  OBVIOUS
<1>1. Placed(live, back, Sweep, None)
  BY SweepOK, PlacedShrinks DEF IInv, Placed, Lost, BackShrinks
<1>2. Sound(live, back, Sweep, None, proc, kills, exits)
  BY SweepOK, SoundShrinks DEF IInv, Placed, Lost
<1> QED BY <1>1, <1>2, SweepOK DEF Fit

LEMMA Parking ==
    ASSUME IInv
    PROVE  /\ Fit(LiveAfter, BackAfter, ParkedAfter)
           /\ \A s \in Session : s # live.sid => BackAfter[s] = back[s]
                                              /\ ParkedAfter[s] = Sweep[s]
<1>1. Fit(live, back, Sweep)
  BY SweepFit
<1>2. back \in [Session -> Shell] /\ Sweep \in [Session -> Process \cup {None}]
      /\ live \in Shell
  BY <1>1 DEF Fit, Placed, BackOK, ParkedOK, ShellOK
<1>3. \A s \in Session : s # live.sid => BackAfter[s] = back[s] /\ ParkedAfter[s] = Sweep[s]
  BY DEF BackAfter, ParkedAfter
<1>4. CASE ~Parks /\ ~Demotes
  <2>1. LiveAfter = live /\ BackAfter = back /\ ParkedAfter = Sweep
    BY <1>2, <1>4 DEF LiveAfter, BackAfter, ParkedAfter
  <2> QED BY <1>1, <1>3, <2>1
<1>5. CASE (Parks \/ Demotes) /\ live.sid = None
  <2>1. LiveAfter = NoShell /\ BackAfter = back /\ ParkedAfter = Sweep
    BY <1>2, <1>5, AgentPoolAssumption DEF LiveAfter, BackAfter, ParkedAfter
  <2>2. Placed(NoShell, back, Sweep, None)
    BY <1>1, NoShellOK, PlacedShrinks DEF Fit, Placed, Lost, BackShrinks
  <2>3. Sound(NoShell, back, Sweep, None, proc, kills, exits)
    BY <1>1, NoShellOK, SoundShrinks DEF Fit, Placed, Lost
  <2> QED BY <1>1, <1>3, <2>1, <2>2, <2>3 DEF Fit
<1>6. CASE Parks /\ live.sid \in Session
  <2>1. LiveAfter = NoShell /\ BackAfter = back
        /\ ParkedAfter = [Sweep EXCEPT ![live.sid] = live.acp]
    BY <1>2, <1>6 DEF LiveAfter, BackAfter, ParkedAfter, Parks, Demotes, Busy
  <2>2. Some(live.acp) /\ Alive(live.acp) /\ live.acp \in Process
    BY <1>2, <1>6 DEF Parks, Alive, Some, Shell
  <2>3. Placed(NoShell, BackAfter, ParkedAfter, None)
    BY <1>1, <1>6, <2>1, <2>2, PutParked DEF Fit
  <2>4. \A s \in Session : ParkedAfter[s] \in {Sweep[s], live.acp}
    BY <1>2, <2>1
  <2>5. \A s \in Session : Some(ParkedAfter[s]) => Alive(ParkedAfter[s])
    BY <1>1, <2>2, <2>4 DEF Fit
  <2>6. \A p \in Process : Holding(NoShell, BackAfter, ParkedAfter, None, p)
                            => Holding(live, back, Sweep, None, p)
    BY <2>1, <2>4, NoShellOK, AgentPoolAssumption DEF Holding
  <2>7. Sound(NoShell, BackAfter, ParkedAfter, None, proc, kills, exits)
    BY <1>1, <2>1, <2>5, <2>6, SoundMoves DEF Fit, Sound, Alive
  <2> QED BY <1>3, <2>1, <2>3, <2>5, <2>7 DEF Fit
<1>7. CASE Demotes /\ live.sid \in Session
  <2>1. LiveAfter = NoShell /\ BackAfter = [back EXCEPT ![live.sid] = live]
        /\ ParkedAfter = Sweep
    BY <1>2, <1>7 DEF LiveAfter, BackAfter, ParkedAfter, Parks, Demotes, Busy
  <2>2. Some(live.acp) /\ Alive(live.acp) /\ live.acp \in Process
    BY <1>2, <1>7 DEF Demotes, Alive, Some, Shell
  <2>3. Placed(NoShell, BackAfter, ParkedAfter, None)
    BY <1>1, <1>7, <2>1, <2>2, PutBack DEF Fit
  <2>4. \A s \in Session : BackAfter[s] \in {back[s], live}
    BY <1>2, <2>1
  <2>5. \A p \in Process : Holding(NoShell, BackAfter, ParkedAfter, None, p)
                            => Holding(live, back, Sweep, None, p)
    BY <2>1, <2>4, NoShellOK, AgentPoolAssumption DEF Holding
  <2>6. \A s \in Session : Some(BackAfter[s].acp) =>
           proc[BackAfter[s].acp] = "up" \/ BackAfter[s].acp \in exits
    BY <1>1, <2>2, <2>4 DEF Fit, Sound, Alive
  <2>7. Sound(NoShell, BackAfter, ParkedAfter, None, proc, kills, exits)
    BY <1>1, <2>1, <2>5, <2>6, SoundMoves DEF Fit, Sound
  <2> QED BY <1>1, <1>3, <2>1, <2>3, <2>7 DEF Fit
<1> QED BY <1>2, <1>4, <1>5, <1>6, <1>7 DEF Shell

LEMMA ConnectPromoteKept == ASSUME IInv, NEW s \in Session, ConnectPromote(s) PROVE IInv'
<1>1. UNCHANGED <<proc, kills, exits, turn, conn>> /\ live' = back[s]
      /\ back' = [BackAfter EXCEPT ![s] = NoShell] /\ parked' = ParkedAfter
      /\ conn = NoConn
  BY DEF ConnectPromote, Idle
<1>2. InConn = None /\ InConn' = None
  BY <1>1 DEF InConn, NoConn
<1>3. s # live.sid /\ BackAfter[s] = back[s] /\ back[s] # NoShell
  BY Parking DEF ConnectPromote, IInv, Placed, Once
<1>4. Fit(LiveAfter, BackAfter, ParkedAfter)
  BY Parking
<1>5. Placed(live', back', parked', InConn')
  BY <1>1, <1>2, <1>3, <1>4, Promoted DEF Fit
<1>6. Sound(live', back', parked', InConn', proc', kills', exits')
  <2>1. \A t \in Session : back'[t].acp \in {None, BackAfter[t].acp}
    BY <1>1, <1>4, NoShellOK DEF Fit, Placed, BackOK
  <2>2. \A p \in Process : Holding(live', back', parked', InConn', p)
                            => Holding(LiveAfter, BackAfter, ParkedAfter, None, p)
    BY <1>1, <1>2, <1>3, <2>1, AgentPoolAssumption DEF Holding
  <2>3. /\ \A t \in Session : Some(back'[t].acp) =>
              proc[back'[t].acp] = "up" \/ back'[t].acp \in exits
        /\ \A t \in Session : Some(parked'[t]) =>
              proc[parked'[t]] = "up" \/ parked'[t] \in exits
    BY <1>1, <1>4, <2>1 DEF Fit, Sound, Some
  <2>4. Sound(live', back', parked', InConn', proc, kills, exits)
    BY <1>4, <2>2, <2>3, SoundMoves DEF Fit
  <2> QED BY <1>1, <2>4
<1>7. ProcOK' /\ ConnOK'
  BY <1>1 DEF IInv, ProcOK, ConnOK, NoConn
<1> QED BY <1>5, <1>6, <1>7 DEF IInv

LEMMA ConnectUnparkKept == ASSUME IInv, NEW s \in Session, ConnectUnpark(s) PROVE IInv'
<1>1. UNCHANGED <<proc, kills, exits, turn>> /\ live' = LiveAfter /\ back' = BackAfter
      /\ parked' = [ParkedAfter EXCEPT ![s] = None]
      /\ conn' = [ph |-> "unpark", sid |-> s, p |-> parked[s], w |-> None]
  BY DEF ConnectUnpark
<1>2. InConn' = parked[s]
  BY <1>1 DEF InConn
<1>3. Some(parked[s]) /\ parked[s] \in Process /\ Sweep[s] = parked[s]
  BY DEF ConnectUnpark, Alive, Some, Sweep, IInv, Placed, ParkedOK
<1>4. s # live.sid /\ BackAfter[s] = NoShell /\ ParkedAfter[s] = parked[s]
  BY <1>3, Parking DEF ConnectUnpark, IInv, Placed, Once, Some
<1>5. Fit(LiveAfter, BackAfter, ParkedAfter)
  BY Parking
<1>6. Placed(live', back', parked', InConn')
  BY <1>1, <1>2, <1>3, <1>4, <1>5, Unparked DEF Fit
<1>7. Sound(live', back', parked', InConn', proc', kills', exits')
  <2>1. \A t \in Session : parked'[t] \in {None, ParkedAfter[t]}
    BY <1>1, <1>5 DEF Fit, Placed, ParkedOK
  <2>2. \A p \in Process : Holding(live', back', parked', InConn', p)
                            => Holding(LiveAfter, BackAfter, ParkedAfter, None, p)
    BY <1>1, <1>2, <1>4, <2>1, AgentPoolAssumption DEF Holding
  <2>3. /\ \A t \in Session : Some(back'[t].acp) =>
              proc[back'[t].acp] = "up" \/ back'[t].acp \in exits
        /\ \A t \in Session : Some(parked'[t]) =>
              proc[parked'[t]] = "up" \/ parked'[t] \in exits
    BY <1>1, <1>5, <2>1 DEF Fit, Sound, Some
  <2>4. Sound(live', back', parked', InConn', proc, kills, exits)
    BY <1>5, <2>2, <2>3, SoundMoves DEF Fit
  <2> QED BY <1>1, <2>4
<1>8. ProcOK' /\ ConnOK'
  <2>1. parked'[s] = None
    BY <1>1, <1>5 DEF Fit, Placed, ParkedOK
  <2> QED BY <1>1, <1>3, <1>4, <2>1 DEF IInv, ProcOK, ConnOK
<1> QED BY <1>6, <1>7, <1>8 DEF IInv

\* The process that connect held goes to the focus, or is forgotten.
LEMMA HandedKept ==
    ASSUME IInv, UNCHANGED <<proc, back, parked, kills, exits, turn>>, conn' = NoConn,
           ShellOK(live'), live'.acp = InConn, live'.pid = InConn,
           \A s \in Session : live'.sid = s => back[s] = NoShell /\ parked[s] = None
    PROVE  IInv'
<1>1. InConn' = None
  BY DEF InConn, NoConn
<1>2. Placed(live', back', parked', InConn')
  BY <1>1, Handed DEF IInv
<1>3. \A p \in Process : Holding(live', back', parked', InConn', p)
                          => Holding(live, back, parked, InConn, p)
  BY <1>1, AgentPoolAssumption DEF Holding
<1>4. Sound(live', back', parked', InConn', proc', kills', exits')
  BY <1>3, SoundMoves DEF IInv, Sound
<1>5. ProcOK' /\ ConnOK'
  BY DEF IInv, ProcOK, ConnOK, NoConn
<1> QED BY <1>2, <1>4, <1>5 DEF IInv

LEMMA UnparkDoneKept == IInv /\ UnparkDone => IInv'
<1> SUFFICES ASSUME IInv, UnparkDone PROVE IInv'
  OBVIOUS
<1>1. InConn = conn.p /\ conn.p \in Process \cup {None} /\ conn.sid \in Session
      /\ back[conn.sid] = NoShell /\ parked[conn.sid] = None
  BY DEF UnparkDone, InConn, IInv, ConnOK
<1>2. live' = [sid |-> conn.sid, st |-> "ready", acp |-> conn.p, pid |-> conn.p]
  BY DEF UnparkDone
<1>3. ShellOK(live') /\ live'.acp = InConn /\ live'.pid = InConn /\ live'.sid = conn.sid
  BY <1>1, <1>2 DEF ShellOK, Shell
<1> QED BY <1>1, <1>3, HandedKept DEF UnparkDone

LEMMA ConnectedKept == IInv /\ Connected => IInv'
<1> SUFFICES ASSUME IInv, Connected PROVE IInv'
  OBVIOUS
<1>1. UNCHANGED <<proc, back, parked, kills, exits, turn>> /\ conn' = NoConn
      /\ InConn = conn.p /\ conn.p \in Process \cup {None}
  BY DEF Connected, InConn, IInv, ConnOK
<1>2. CASE live = NoShell
  <2>1. live' = live /\ InConn' = None
    BY <1>1, <1>2 DEF Connected, InConn, NoConn
  <2>2. Kept /\ ProcOK'
    BY <1>1, <2>1, FocusKept DEF Lost, IInv, Placed, ProcOK
  <2> QED BY <1>1, <2>2 DEF IInv, Kept, ConnOK, NoConn
<1>3. CASE live # NoShell
  <2>1. live' = [live EXCEPT !.st = IF @ = "connecting" THEN "ready" ELSE @,
                             !.acp = conn.p, !.pid = conn.p]
    BY <1>3 DEF Connected
  <2>2. ShellOK(live') /\ live'.acp = InConn /\ live'.pid = InConn /\ live'.sid = live.sid
    BY <1>1, <2>1 DEF IInv, Placed, ShellOK, Shell
  <2> QED BY <1>1, <2>2, HandedKept DEF IInv, Placed, Once
<1> QED BY <1>2, <1>3

LEMMA ConnectReuseKept == ASSUME IInv, NEW s \in Session, ConnectReuse(s) PROVE IInv'
<1>1. UNCHANGED <<proc, back, kills, exits, turn>> /\ parked' = Sweep
      /\ live' = Connecting(s, live.pid) /\ back[s] = NoShell /\ Sweep[s] = None
      /\ conn' = [ph |-> "open", sid |-> s, p |-> live.acp, w |-> None]
  BY DEF ConnectReuse, Cold, Sweep
<1>2. Some(live.acp) /\ InConn' = live.acp /\ live.acp \in Process /\ live.pid \in Process
  BY <1>1 DEF ConnectReuse, Alive, Some, InConn, IInv, Placed, ShellOK, Shell
<1>3. ShellOK(live') /\ live'.acp = None /\ live'.pid = live.pid /\ live'.sid = s
  BY <1>1, <1>2 DEF Connecting, ShellOK, Shell
<1>4. Fit(live, back, Sweep)
  BY SweepFit
<1>5. Placed(live', back', parked', InConn')
  BY <1>1, <1>2, <1>3, <1>4, Reused DEF Fit
<1>6. Sound(live', back', parked', InConn', proc', kills', exits')
  <2>1. \A p \in Process : Holding(live', back', parked', InConn', p)
                            => Holding(live, back, Sweep, None, p)
    BY <1>1, <1>2, <1>3, AgentPoolAssumption DEF Holding
  <2> QED BY <1>1, <1>4, <2>1, SoundMoves DEF Fit, Sound
<1>7. ProcOK' /\ ConnOK'
  BY <1>1, <1>2 DEF IInv, ProcOK, ConnOK
<1> QED BY <1>5, <1>6, <1>7 DEF IInv

\* A new shell and its process, over the slots l, bk and pk that are left.
LEMMA StartKept ==
    ASSUME IInv, NEW l, NEW bk, NEW pk, Fit(l, bk, pk),
           NEW s \in Session, bk[s] = NoShell, pk[s] = None,
           Start(s, bk, pk), UNCHANGED <<exits, turn>>
    PROVE  IInv'
<1>1. PICK q \in Process :
         /\ proc[q] = "none" /\ back' = bk
         /\ \/ /\ live' = Connecting(s, q) /\ parked' = pk
               /\ proc' = [proc EXCEPT ![q] = "up"]
               /\ conn' = [ph |-> "open", sid |-> s, p |-> q, w |-> None]
               /\ UNCHANGED kills
            \/ /\ \E t \in Session :
                     /\ pk[t] # None
                     /\ parked' = [pk EXCEPT ![t] = None]
                     /\ kills' = kills \cup {pk[t]}
                     /\ conn' = [ph |-> "room", sid |-> s, p |-> q, w |-> pk[t]]
               /\ live' = Connecting(s, q)
               /\ UNCHANGED proc
            \/ /\ live' = ConnectFailed(Connecting(s, q)) /\ parked' = pk
               /\ conn' = NoConn
               /\ UNCHANGED <<proc, kills>>
  BY DEF Start
<1>2. Some(q) /\ ~Holding(l, bk, pk, None, q)
  BY <1>1, AgentPoolAssumption DEF Fit, Sound, Some
<1>3. bk \in [Session -> Shell] /\ pk \in [Session -> Process \cup {None}]
  BY DEF Fit, Placed, BackOK, ParkedOK
<1>4. /\ ShellOK(live') /\ live'.acp = None /\ live'.pid = q /\ live'.sid = s
      /\ Placed(live', bk, pk, None)
  <2>1. ShellOK(Connecting(s, q))
    BY DEF ShellOK, Shell, Connecting
  <2>2. live' \in {Connecting(s, q), ConnectFailed(Connecting(s, q))}
    BY <1>1
  <2>3. ShellOK(live') /\ SameOwner(live', Connecting(s, q))
    BY <2>1, <2>2, StatesKept DEF SameOwner
  <2>4. ShellOK(live') /\ live'.acp = None /\ live'.pid = q /\ live'.sid = s
    BY <2>3 DEF SameOwner, Connecting
  <2>5. \A t \in Session : bk[t].acp # q
    BY <1>2 DEF Holding
  <2> QED BY <2>4, <2>5, Refocused DEF Fit
<1>5. Sound(live', bk, pk, None, proc, kills, exits)
  <2>1. \A p \in Process : Holding(live', bk, pk, None, p) => Holding(l, bk, pk, None, p)
    BY <1>4, AgentPoolAssumption DEF Holding
  <2> QED BY <2>1, SoundMoves DEF Fit, Sound
<1>6. ~Holding(live', bk, pk, None, q)
  BY <1>1, <1>5 DEF Sound
<1>7. CASE /\ parked' = pk
           /\ proc' = [proc EXCEPT ![q] = "up"]
           /\ conn' = [ph |-> "open", sid |-> s, p |-> q, w |-> None]
           /\ UNCHANGED kills
  <2>1. InConn' = q
    BY <1>7 DEF InConn
  <2>2. Placed(live', back', parked', InConn')
    BY <1>1, <1>4, <1>6, <1>7, <2>1, Opened
  <2>3. proc \in [Process -> {"none", "up", "dead"}] /\ q \notin kills
    BY <1>1 DEF IInv, ProcOK
  <2>4. \A p \in Process : proc'[p] = IF p = q THEN "up" ELSE proc[p]
    BY <1>7, <2>3
  <2>5. \A p \in Process : Holding(live', bk, pk, q, p) => p = q \/ Holding(live', bk, pk, None, p)
    BY DEF Holding
  <2>6. \A t \in Session : /\ Some(bk[t].acp) => bk[t].acp \in Process
                           /\ Some(pk[t]) => pk[t] \in Process
    BY <1>3 DEF Some, Shell
  <2>7. Sound(live', bk, pk, q, proc', kills, exits)
    BY <1>5, <2>3, <2>4, <2>5, <2>6 DEF Sound
  <2>8. ProcOK' /\ ConnOK'
    BY <1>7, <2>3, <2>4 DEF IInv, ProcOK, ConnOK
  <2> QED BY <1>1, <1>7, <2>1, <2>2, <2>7, <2>8 DEF IInv
<1>8. ASSUME NEW t \in Session,
             pk[t] # None, parked' = [pk EXCEPT ![t] = None],
             kills' = kills \cup {pk[t]},
             conn' = [ph |-> "room", sid |-> s, p |-> q, w |-> pk[t]],
             UNCHANGED proc
      PROVE  IInv'
  <2>1. InConn' = None /\ pk[t] \in Process /\ proc[pk[t]] = "up"
    BY <1>3, <1>8 DEF InConn, Fit, Some, Alive
  <2>2. ParkedOK(parked') /\ parked'[t] = None
        /\ \A r \in Session : Lost(parked'[r], pk[r]) /\ (r # t => parked'[r] = pk[r])
    BY <1>3, <1>8 DEF ParkedOK, Lost
  <2>3. Placed(live', back', parked', InConn')
    BY <1>1, <1>4, <2>1, <2>2, PlacedShrinks DEF Placed, Lost, BackShrinks
  <2>4. ~Holding(live', bk, parked', None, pk[t])
    BY <1>4, <1>8, <2>1, <2>2, AgentPoolAssumption
    DEF Holding, Placed, BackAlone, ParkedAlone, Some
  <2>5. Sound(live', bk, parked', None, proc, kills', exits)
    <3>1. \A p \in Process : p \in kills' => p \in kills \/ ~Holding(live', bk, parked', None, p)
      BY <1>8, <2>4
    <3>2. BackOK(bk)
      BY DEF Fit, Placed
    <3> QED BY <1>5, <2>2, <3>1, <3>2, SoundShrinks DEF Lost
  <2>6. ProcOK' /\ ConnOK'
    BY <1>1, <1>8, <2>1 DEF IInv, ProcOK, ConnOK
  <2> QED BY <1>1, <1>8, <2>1, <2>3, <2>5, <2>6 DEF IInv
<1>9. CASE parked' = pk /\ conn' = NoConn /\ UNCHANGED <<proc, kills>>
  <2>1. InConn' = None
    BY <1>9 DEF InConn, NoConn
  <2>2. ProcOK' /\ ConnOK'
    BY <1>9 DEF IInv, ProcOK, ConnOK, NoConn
  <2> QED BY <1>1, <1>4, <1>5, <1>9, <2>1, <2>2 DEF IInv
<1> QED BY <1>1, <1>7, <1>8, <1>9

LEMMA ConnectColdKept == ASSUME IInv, NEW s \in Session, ConnectCold(s) PROVE IInv'
<1>1. back[s] = NoShell /\ Sweep[s] = None
  BY DEF ConnectCold, Cold, Sweep
<1>2. CASE live.sid = s
  BY <1>1, <1>2, SweepFit, StartKept DEF ConnectCold
<1>3. CASE live.sid # s
  BY <1>1, <1>3, Parking, StartKept DEF ConnectCold
<1> QED BY <1>2, <1>3

LEMMA LeftoverKilledKept == IInv /\ LeftoverKilled => IInv'
<1> SUFFICES ASSUME IInv, LeftoverKilled PROVE IInv'
  OBVIOUS
<1>1. conn.sid \in Session /\ back[conn.sid] = NoShell /\ parked[conn.sid] = None
  BY DEF LeftoverKilled, IInv, ConnOK
<1>2. Sweep[conn.sid] = None
  BY <1>1 DEF Sweep
<1> QED BY <1>1, <1>2, SweepFit, StartKept DEF LeftoverKilled

LEMMA RoomMadeKept == IInv /\ RoomMade => IInv'
<1> SUFFICES ASSUME IInv, RoomMade PROVE IInv'
  OBVIOUS
<1>1. UNCHANGED <<back, parked, kills, exits, turn>> /\ InConn = None
      /\ conn.p \in Process /\ proc[conn.p] = "none"
  BY DEF RoomMade, InConn, IInv, ConnOK
<1>2. CASE proc' = [proc EXCEPT ![conn.p] = "up"]
           /\ conn' = [conn EXCEPT !.ph = "open", !.w = None] /\ UNCHANGED live
  <2>1. InConn' = conn.p
    BY <1>2 DEF InConn, IInv, ConnOK
  <2>2. ~Holding(live, back, parked, None, conn.p)
    BY <1>1 DEF IInv, Sound
  <2>3. Placed(live', back', parked', InConn')
    BY <1>1, <1>2, <2>1, <2>2, Opened DEF IInv
  <2>4. conn.p \notin kills
        /\ \A p \in Process : proc'[p] = IF p = conn.p THEN "up" ELSE proc[p]
    BY <1>1, <1>2 DEF IInv, ProcOK
  <2>5. \A p \in Process : Holding(live, back, parked, conn.p, p)
           => p = conn.p \/ Holding(live, back, parked, None, p)
    BY DEF Holding
  <2>6. \A t \in Session : /\ Some(back[t].acp) => back[t].acp \in Process
                           /\ Some(parked[t]) => parked[t] \in Process
    BY DEF Some, Shell, IInv, Placed, BackOK, ParkedOK
  <2>7. Sound(live, back, parked, conn.p, proc', kills, exits)
    BY <1>1, <2>4, <2>5, <2>6 DEF IInv, Sound
  <2>8. ProcOK' /\ ConnOK'
    BY <1>1, <1>2, <2>4 DEF IInv, ProcOK, ConnOK
  <2> QED BY <1>1, <1>2, <2>1, <2>3, <2>7, <2>8 DEF IInv
<1>3. CASE live' = ConnectFailed(live) /\ conn' = NoConn /\ UNCHANGED proc
  <2>1. InConn' = None /\ ConnOK'
    BY <1>3 DEF InConn, NoConn, ConnOK
  <2>2. ShellOK(live') /\ SameOwner(live', live)
    BY <1>3, StatesKept DEF IInv, Placed
  <2>3. Kept /\ ProcOK'
    BY <1>1, <1>3, <2>1, <2>2, FocusKept DEF Lost, SameOwner, IInv, Placed, ProcOK
  <2> QED BY <2>1, <2>3 DEF IInv, Kept
<1> QED BY <1>2, <1>3 DEF RoomMade

LEMMA TurnEndsKept == ASSUME IInv, NEW q \in Process, TurnEnds(q) PROVE IInv'
<1> DEFINE done(s) == back[s].pid = q /\ back[s].st \in {"streaming", "ready"}
<1>0. q # None /\ back \in [Session -> Shell] /\ parked \in [Session -> Process \cup {None}]
  BY AgentPoolAssumption DEF IInv, Placed, BackOK, ParkedOK
<1>1. UNCHANGED <<proc, kills, exits, conn>> /\ InConn' = InConn /\ turn' \subseteq Process
  BY DEF TurnEnds, InConn, IInv, ProcOK
<1>2. CASE live.pid = q
  <2>1. ShellOK(live') /\ SameOwner(live', live)
    BY <1>2 DEF TurnEnds, IInv, Placed, ShellOK, Shell, SameOwner
  <2> QED BY <1>1, <1>2, <2>1, TurnKept DEF TurnEnds
<1>3. CASE live.pid # q
  <2>1. /\ back' = [s \in Session |->
                      IF ~done(s) THEN back[s]
                      ELSE IF Alive(q) THEN NoShell
                      ELSE [back[s] EXCEPT !.st = "ready"]]
        /\ parked' = [s \in Session |-> IF done(s) /\ Alive(q) THEN q ELSE parked[s]]
        /\ UNCHANGED live
    BY <1>3 DEF TurnEnds
  <2>2. ASSUME NEW s \in Session, done(s)
        PROVE  /\ back[s] # NoShell /\ back[s].acp = q
               /\ \A t \in Session : done(t) => t = s
    <3>1. \A t \in Session : done(t) => back[t] # NoShell /\ back[t].acp = q
      BY <1>0, NoShellOK DEF IInv, Placed, BackOK
    <3> QED BY <1>0, <2>2, <3>1 DEF IInv, Placed, BackAlone, Some
  <2>3. CASE \A s \in Session : ~done(s)
    <3>1. back' = back /\ parked' = parked
      BY <1>0, <2>1, <2>3
    <3> QED BY <1>1, <2>1, <3>1 DEF IInv, ProcOK, ConnOK
  <2>4. ASSUME NEW s \in Session, done(s), Alive(q) PROVE IInv'
    <3>1. back[s] # NoShell /\ back[s].acp = q /\ \A t \in Session : done(t) => t = s
      BY <2>2, <2>4
    <3> HIDE DEF done
    <3>2. back' = [back EXCEPT ![s] = NoShell] /\ parked' = [parked EXCEPT ![s] = q]
      BY <1>0, <2>1, <2>4, <3>1
    <3>3. Placed(live', back', parked', InConn')
      BY <1>1, <2>1, <3>1, <3>2, Rested DEF IInv
    <3>4. \A t \in Session : /\ back'[t].acp \in {None, back[t].acp}
                             /\ parked'[t] \in {q, parked[t]}
      BY <1>0, <3>2, NoShellOK
    <3>5. Sound(live', back', parked', InConn', proc, kills, exits)
      <4>1. \A p \in Process : Holding(live', back', parked', InConn', p)
                                => Holding(live, back, parked, InConn, p)
        BY <1>1, <2>1, <3>1, <3>4, AgentPoolAssumption DEF Holding
      <4>2. /\ \A t \in Session : Some(back'[t].acp) =>
                  proc[back'[t].acp] = "up" \/ back'[t].acp \in exits
            /\ \A t \in Session : Some(parked'[t]) =>
                  proc[parked'[t]] = "up" \/ parked'[t] \in exits
        BY <2>4, <3>4 DEF IInv, Sound, Some, Alive
      <4> QED BY <4>1, <4>2, SoundMoves DEF IInv
    <3>6. conn.sid \in Session /\ back[conn.sid] = NoShell => s # conn.sid
      BY <3>1
    <3>7. ProcOK' /\ ConnOK'
      BY <1>0, <1>1, <3>2, <3>6 DEF IInv, ProcOK, ConnOK
    <3> QED BY <1>1, <3>3, <3>5, <3>7 DEF IInv
  <2>5. CASE ~Alive(q)
    <3>1. back' = [s \in Session |-> IF done(s) THEN [back[s] EXCEPT !.st = "ready"]
                                     ELSE back[s]]
          /\ parked' = parked
      BY <1>0, <2>1, <2>5
    <3>2. /\ BackOK(back') /\ BackShrinks(back', back)
          /\ \A s \in Session : back[s] = NoShell => back'[s] = NoShell
      <4>1. \A s \in Session : done(s) => back[s] # NoShell
        BY <2>2
      <4>2. \A s \in Session : back[s] \in Shell /\ [back[s] EXCEPT !.st = "ready"] \in Shell
                              /\ SameOwner([back[s] EXCEPT !.st = "ready"], back[s])
        BY <1>0 DEF Shell, SameOwner
      <4> HIDE DEF done
      <4> QED BY <3>1, <4>1, <4>2 DEF IInv, Placed, BackOK, BackShrinks, SameOwner
    <3>3. SlotsShrink
      BY <1>1, <2>1, <3>1, <3>2 DEF SlotsShrink, Lost, IInv, Placed
    <3>4. ProcOK' /\ ConnOK'
      BY <1>1, <3>1, <3>2 DEF ProcOK, ConnOK, IInv
    <3> QED BY <3>3, <3>4, ShrinkKept DEF IInv, Kept
  <2> QED BY <2>3, <2>4, <2>5
<1> QED BY <1>2, <1>3

------------------------------------------------------------------------------
(* The invariant.                                                            *)

LEMMA InitKept == Init => IInv
<1> SUFFICES ASSUME Init PROVE IInv
  OBVIOUS
<1>1. /\ live = NoShell /\ conn = NoConn /\ InConn = None /\ kills = {}
      /\ \A s \in Session : back[s] = NoShell /\ parked[s] = None
      /\ back \in [Session -> {NoShell}] /\ parked \in [Session -> {None}]
  BY DEF Init, InConn, NoConn
<1>2. Placed(live, back, parked, InConn)
  BY <1>1, NoShellOK
  DEF Placed, BackOK, ParkedOK, OpenOK, ShellOK, LiveAlone, OpenAlone, BackAlone, ParkedAlone,
      Once, OwnEvents, Some
<1>3. Sound(live, back, parked, InConn, proc, kills, exits)
  BY <1>1, NoShellOK, AgentPoolAssumption DEF Sound, Holding, Some
<1>4. ProcOK /\ ConnOK
  BY <1>1 DEF Init, ProcOK, ConnOK, NoConn
<1> QED BY <1>2, <1>3, <1>4 DEF IInv

LEMMA StepKept == IInv /\ [Next]_vars => IInv'
<1> SUFFICES ASSUME IInv, [Next]_vars PROVE IInv'
  OBVIOUS
<1>1. CASE UNCHANGED vars
  <2>1. UNCHANGED <<proc, live, back, parked, kills, exits, turn, conn>> /\ InConn' = InConn
    BY <1>1 DEF vars, InConn
  <2> QED BY <2>1 DEF IInv, ProcOK, ConnOK
<1>2. CASE Connect
  BY <1>2, ConnectNoOpKept, ConnectBlocksKept, ConnectPromoteKept, ConnectUnparkKept,
     ConnectReuseKept, ConnectAgainKept, ConnectColdKept, UnparkDoneKept, LeftoverKilledKept,
     RoomMadeKept, OpenAnsweredKept, ConnectedKept, OpenFailsKept, ConnectFailsKept
  DEF Connect
<1>3. CASE Agents
  BY <1>3, ProcessDiesKept, ExitHandledKept, TurnEndsKept, TurnFailsKept, AgentErrorKept
  DEF Agents
<1>4. CASE User
  <2>1. CASE SoftRespawn
    BY <2>1, SoftDropKept DEF SoftRespawn
  <2> QED BY <1>4, <2>1, SendMessageKept, StopKept, DisconnectKept, RecycleAllKept DEF User
<1>5. CASE Watchdog
  <2>1. CASE IdleLive
    BY <2>1, SoftDropKept DEF IdleLive
  <2> QED BY <1>5, <2>1, IdleParkedKept DEF Watchdog
<1> QED BY <1>1, <1>2, <1>3, <1>4, <1>5 DEF Next

\* The inductive invariant holds: whatever the agents, the user, the settings
\* and the watchdog do while a connect waits, the slots stay apart.
THEOREM SlotsStayApart == Spec => []IInv
<1>1. Init => IInv
  BY InitKept
<1>2. IInv /\ [Next]_vars => IInv'
  BY StepKept
<1> QED BY <1>1, <1>2, PTL DEF Spec

\* Every variable keeps its type, and a session shell takes the events of the
\* process it holds (LiveSession.acp and .active_process_id).
THEOREM TypesHold == Spec => []TypeOK
<1>1. IInv => TypeOK
  BY DEF IInv, TypeOK, Placed, BackOK, ShellOK, ParkedOK, ProcOK, ConnOK
<1> QED BY <1>1, SlotsStayApart, PTL

\* No agent process is in two slots, nor in a slot and being killed: connect,
\* demotion, promotion, parking, eviction and restart move a process, and
\* never copy it.
LEMMA ProcessesAreHeldOnce == IInv => HeldOnce
<1> SUFFICES ASSUME IInv, NEW p \in Process
             PROVE  /\ Held(p) => p \notin kills
                    /\ live.acp = p => InConn # p
                    /\ \A s \in Session :
                          back[s].acp = p \/ parked[s] = p => live.acp # p /\ InConn # p
                    /\ \A s, t \in Session : back[s].acp = p => parked[t] # p
                    /\ \A s, t \in Session : back[s].acp = p /\ back[t].acp = p => s = t
                    /\ \A s, t \in Session : parked[s] = p /\ parked[t] = p => s = t
  BY DEF HeldOnce
<1>1. Held(p) => p \notin kills
  BY DEF IInv, Sound, Held, Holding
<1>2. p # None
  BY AgentPoolAssumption
<1>3. live.acp = p => InConn # p
  BY <1>2 DEF IInv, Placed, LiveAlone, Some
<1>4. \A s \in Session : back[s].acp = p \/ parked[s] = p => live.acp # p /\ InConn # p
  BY <1>2 DEF IInv, Placed, LiveAlone, OpenAlone, Some
<1>5. \A s, t \in Session : back[s].acp = p => parked[t] # p
  BY <1>2 DEF IInv, Placed, BackAlone, Some
<1>6. \A s, t \in Session : /\ back[s].acp = p /\ back[t].acp = p => s = t
                            /\ parked[s] = p /\ parked[t] = p => s = t
  BY <1>2 DEF IInv, Placed, BackAlone, ParkedAlone, Some
<1> QED BY <1>1, <1>3, <1>4, <1>5, <1>6

\* The slots are exclusive: no process is in two of them, and no session has
\* two agents: it is in focus, in the background or parked.
THEOREM SlotsAreExclusive == Spec => []OneSlot
<1>1. IInv => OneSlot
  BY ProcessesAreHeldOnce DEF IInv, Placed, Once, OneSlot
<1> QED BY <1>1, SlotsStayApart, PTL

\* A background or parked process that died is removed by an exit event that
\* is still to come; none stays for good.
THEOREM TheDeadLeave == Spec => []DeadLeave
<1>1. IInv => DeadLeave
  BY DEF IInv, Sound, DeadLeave, Some
<1> QED BY <1>1, SlotsStayApart, PTL

------------------------------------------------------------------------------
(* The limit.  Only a spawn adds a running process to the slots.             *)

Running(l, bk, pk, c, pr) == {p \in Process : pr[p] = "up" /\ Holding(l, bk, pk, c, p)}
Within(P) == IsFiniteSet(P) /\ Cardinality(P) <= MaxConcurrent

RunningNow == Running(live, back, parked, InConn, proc)

LEMMA FewerWithin ==
    ASSUME NEW P, NEW Q, P \subseteq Q, Within(Q)
    PROVE  Within(P)
<1>1. IsFiniteSet(P) /\ Cardinality(P) <= Cardinality(Q)
  BY FS_Subset DEF Within
<1>2. Cardinality(P) \in Nat /\ Cardinality(Q) \in Nat
  BY <1>1, FS_CardinalityType DEF Within
<1> QED BY <1>1, <1>2, AgentPoolAssumption DEF Within

LEMMA OneMoreWithin ==
    ASSUME NEW P, NEW Q, NEW q, Within(Q), Cardinality(P) < MaxConcurrent,
           P \subseteq Q, NEW R, R \subseteq P \cup {q}
    PROVE  Within(R)
<1>1. IsFiniteSet(P) /\ Cardinality(P) \in Nat
  BY FS_Subset, FS_CardinalityType DEF Within
<1>2. IsFiniteSet(P \cup {q}) /\ Cardinality(P \cup {q}) <= Cardinality(P) + 1
      /\ Cardinality(P \cup {q}) \in Nat
  <2>1. /\ IsFiniteSet(P \cup {q})
        /\ Cardinality(P \cup {q}) = IF q \in P THEN Cardinality(P) ELSE Cardinality(P) + 1
    BY <1>1, FS_AddElement
  <2> QED BY <1>1, <2>1
<1>3. Within(P \cup {q})
  BY <1>1, <1>2, AgentPoolAssumption DEF Within
<1> QED BY <1>3, FewerWithin

\* The slots hold no more than before.
Fewer == \A p \in Process : Holding(live', back', parked', InConn', p)
                            => Holding(live, back, parked, InConn, p)

LEMMA FewerKept ==
    ASSUME Fewer, \A p \in Process : proc'[p] = "up" => proc[p] = "up", Within(RunningNow)
    PROVE  Within(RunningNow)'
<1>1. RunningNow' \subseteq RunningNow
  BY DEF RunningNow, Running, Fewer
<1> QED BY <1>1, FewerWithin DEF Within

LEMMA ParkingHolds ==
    \A p \in Process : /\ Holding(live, back, Sweep, None, p)
                          => Holding(live, back, parked, InConn, p)
                       /\ Holding(LiveAfter, BackAfter, ParkedAfter, None, p)
                          => Holding(live, back, parked, InConn, p)
BY AgentPoolAssumption, NoShellOK
DEF Holding, LiveAfter, BackAfter, ParkedAfter, Sweep

LEMMA ConnectFewer ==
    ASSUME IInv, NEW s \in Session,
           \/ ConnectNoOp(s) \/ ConnectBlocks(s) \/ ConnectPromote(s) \/ ConnectUnpark(s)
           \/ ConnectReuse(s) \/ ConnectAgain(s)
    PROVE  Fewer /\ proc' = proc
<1>1. CASE ConnectNoOp(s)
  BY <1>1, ParkingHolds, AgentPoolAssumption
  DEF ConnectNoOp, Fewer, Holding, InConn, Sweep
<1>2. CASE ConnectBlocks(s)
  BY <1>2, AgentPoolAssumption DEF ConnectBlocks, Fewer, Holding, InConn, Sweep, NoConn
<1>3. CASE ConnectPromote(s)
  <2>1. BackAfter \in [Session -> Shell] /\ BackAfter[s] = back[s]
    BY Parking, <1>3 DEF ConnectPromote, Fit, Placed, BackOK, IInv, Once
  <2>2. /\ live' = BackAfter[s] /\ parked' = ParkedAfter
        /\ \A t \in Session : back'[t].acp \in {None, BackAfter[t].acp}
        /\ InConn' = None /\ proc' = proc
    BY <1>3, <2>1, NoShellOK DEF ConnectPromote, InConn, Idle, NoConn
  <2>3. \A p \in Process : Holding(live', back', parked', InConn', p)
                            => Holding(LiveAfter, BackAfter, ParkedAfter, None, p)
    BY <2>2, AgentPoolAssumption DEF Holding
  <2> QED BY <2>2, <2>3, ParkingHolds DEF Fewer
<1>4. CASE ConnectUnpark(s)
  <2>1. ParkedAfter \in [Session -> Process \cup {None}]
    BY Parking DEF Fit, Placed, ParkedOK
  <2>2. /\ live' = LiveAfter /\ back' = BackAfter /\ InConn' = parked[s] /\ proc' = proc
        /\ \A t \in Session : parked'[t] \in {None, ParkedAfter[t]}
    BY <1>4, <2>1 DEF ConnectUnpark, InConn
  <2>3. \A p \in Process : Holding(live', back', parked', InConn', p)
           => Holding(LiveAfter, BackAfter, ParkedAfter, None, p) \/ parked[s] = p
    BY <2>2, AgentPoolAssumption DEF Holding
  <2> QED BY <2>2, <2>3, ParkingHolds DEF Fewer, Holding
<1>5. CASE ConnectReuse(s)
  BY <1>5, AgentPoolAssumption DEF ConnectReuse, Connecting, Fewer, Holding, InConn, Sweep
<1>6. CASE ConnectAgain(s)
  BY <1>6, NoShellOK, AgentPoolAssumption DEF ConnectAgain, Fewer, Holding, InConn, Sweep
<1> QED BY <1>1, <1>2, <1>3, <1>4, <1>5, <1>6

LEMMA AnswerFewer ==
    ASSUME IInv, UnparkDone \/ OpenAnswered \/ Connected \/ OpenFails \/ ConnectFails
    PROVE  Fewer /\ proc' = proc
<1>1. CASE UnparkDone \/ Connected
  <2>1. UNCHANGED <<proc, back, parked>> /\ InConn' = None /\ InConn = conn.p
    BY <1>1 DEF UnparkDone, Connected, InConn, NoConn
  <2>2. live'.acp \in {None, conn.p}
    <3>1. CASE UnparkDone
      BY <3>1 DEF UnparkDone
    <3>2. CASE Connected
      <4>1. live \in Shell
        BY DEF IInv, Placed, ShellOK
      <4> QED BY <3>2, <4>1, NoShellOK DEF Connected, Shell
    <3> QED BY <1>1, <3>1, <3>2
  <2> QED BY <2>1, <2>2, AgentPoolAssumption DEF Fewer, Holding
<1>2. CASE OpenAnswered
  BY <1>2 DEF OpenAnswered, Fewer, Holding, InConn, IInv, ConnOK
<1>3. CASE OpenFails
  BY <1>3, AgentPoolAssumption DEF OpenFails, Fewer, Holding, InConn, IInv, ConnOK
<1>4. CASE ConnectFails
  <2>1. live'.acp = live.acp
    BY <1>4, StatesKept DEF ConnectFails, IInv, Placed, SameOwner
  <2> QED BY <1>4, <2>1, AgentPoolAssumption DEF ConnectFails, Fewer, Holding, InConn, NoConn
<1> QED BY <1>1, <1>2, <1>3, <1>4

LEMMA AgentsFewer ==
    ASSUME IInv, Agents
    PROVE  Fewer /\ \A p \in Process : proc'[p] = "up" => proc[p] = "up"
<1>1. PICK q \in Process : \/ ProcessDies(q) \/ ExitHandled(q)
                           \/ TurnEnds(q) \/ TurnFails(q) \/ AgentError(q)
  BY DEF Agents
<1>2. q # None /\ InConn' = InConn /\ live \in Shell /\ back \in [Session -> Shell]
  <2>1. conn' = conn
    BY <1>1 DEF ProcessDies, ExitHandled, TurnEnds, TurnFails, AgentError
  <2> QED BY <2>1, AgentPoolAssumption DEF InConn, IInv, Placed, ShellOK, BackOK
<1>3. CASE ProcessDies(q)
  BY <1>2, <1>3 DEF ProcessDies, Fewer, Holding, IInv, ProcOK
<1>4. CASE ExitHandled(q)
  <2>1. /\ proc' = proc /\ live'.acp \in {None, live.acp}
        /\ \A s \in Session : back'[s].acp \in {None, back[s].acp}
                           /\ parked'[s] \in {None, parked[s]}
    BY <1>2, <1>4, NoShellOK DEF ExitHandled, Shell
  <2> QED BY <1>2, <2>1, AgentPoolAssumption DEF Fewer, Holding
<1>5. CASE TurnEnds(q)
  <2>1. /\ proc' = proc /\ live'.acp = live.acp
        /\ \A s \in Session :
              /\ back'[s].acp \in {None, back[s].acp}
              /\ parked'[s] = parked[s] \/ (parked'[s] = q /\ back[s].pid = q)
    BY <1>2, <1>5, NoShellOK DEF TurnEnds, Shell
  <2>2. \A s \in Session : back[s].pid = q => back[s].acp = q
    BY <1>2, NoShellOK DEF IInv, Placed, BackOK
  <2> QED BY <1>2, <2>1, <2>2, AgentPoolAssumption DEF Fewer, Holding
<1>6. CASE TurnFails(q) \/ AgentError(q)
  <2>1. \A l \in Shell : FailWith(l).acp = l.acp
    BY DEF Shell, FailWith
  <2>2. /\ proc' = proc /\ live'.acp = live.acp /\ parked' = parked
        /\ \A s \in Session : back'[s].acp = back[s].acp
    BY <1>2, <1>6, <2>1 DEF TurnFails, AgentError
  <2> QED BY <1>2, <2>2 DEF Fewer, Holding
<1> QED BY <1>1, <1>3, <1>4, <1>5, <1>6

LEMMA OthersFewer ==
    ASSUME IInv, User \/ Watchdog
    PROVE  Fewer /\ proc' = proc
<1>1. InConn' = InConn /\ live \in Shell /\ proc' = proc
  <2>1. UNCHANGED <<conn, proc>>
    BY DEF User, Watchdog, SendMessage, Stop, Disconnect, SoftRespawn, RecycleAll, IdleLive,
           IdleParked
  <2> QED BY <2>1 DEF InConn, IInv, Placed, ShellOK
<1>2. /\ live'.acp \in {None, live.acp}
      /\ \A s \in Session : back'[s].acp \in {None, back[s].acp}
                         /\ parked'[s] \in {None, parked[s]}
  BY <1>1, NoShellOK
  DEF User, Watchdog, SendMessage, Stop, Disconnect, SoftRespawn, RecycleAll, IdleLive,
      IdleParked, Softened, Sweep, Shell
<1> QED BY <1>1, <1>2, AgentPoolAssumption DEF Fewer, Holding

\* A spawn counts the slots first.
LEMMA StartWithin ==
    ASSUME IInv, Within(RunningNow), NEW l, NEW bk, NEW pk, Fit(l, bk, pk),
           NEW s \in Session, Start(s, bk, pk),
           \A p \in Process : Holding(l, bk, pk, None, p)
                              => Holding(live, back, parked, InConn, p)
    PROVE  Within(RunningNow)'
<1> DEFINE A == Active(NoShell, bk, pk)
<1>1. A \subseteq RunningNow
  BY NoShellOK, AgentPoolAssumption DEF Active, RunningNow, Running, Holding
<1>2. pk \in [Session -> Process \cup {None}]
  BY DEF Fit, Placed, ParkedOK
<1>3. PICK q \in Process :
         /\ proc[q] = "none" /\ back' = bk
         /\ \/ /\ Room(NoShell, bk, pk)
               /\ live' = Connecting(s, q) /\ parked' = pk
               /\ proc' = [proc EXCEPT ![q] = "up"]
               /\ conn' = [ph |-> "open", sid |-> s, p |-> q, w |-> None]
            \/ /\ \E t \in Session :
                     /\ parked' = [pk EXCEPT ![t] = None]
                     /\ conn' = [ph |-> "room", sid |-> s, p |-> q, w |-> pk[t]]
               /\ live' = Connecting(s, q)
               /\ UNCHANGED proc
            \/ /\ live' = ConnectFailed(Connecting(s, q)) /\ parked' = pk
               /\ conn' = NoConn
               /\ UNCHANGED proc
  BY DEF Start
<1>4. live'.acp = None /\ \A t \in Session : parked'[t] \in {None, pk[t]}
  <2>1. ShellOK(Connecting(s, q)) /\ Connecting(s, q).acp = None
    BY DEF ShellOK, Shell, Connecting
  <2> QED BY <1>2, <1>3, <2>1, StatesKept DEF SameOwner
<1>5. RunningNow' \subseteq {p \in Process : proc'[p] = "up" /\
                               (p = InConn' \/ \E t \in Session : bk[t].acp = p \/ pk[t] = p)}
  BY <1>3, <1>4, AgentPoolAssumption DEF RunningNow, Running, Holding
<1>6. CASE /\ Room(NoShell, bk, pk) /\ proc' = [proc EXCEPT ![q] = "up"]
           /\ conn' = [ph |-> "open", sid |-> s, p |-> q, w |-> None]
  <2>1. InConn' = q /\ \A p \in Process : p # q /\ proc'[p] = "up" => proc[p] = "up"
    BY <1>6 DEF InConn, IInv, ProcOK
  <2>2. RunningNow' \subseteq A \cup {q}
    BY <1>5, <2>1 DEF Active
  <2>3. Cardinality(A) < MaxConcurrent
    BY <1>6 DEF Room
  <2>4. Within(RunningNow')
    BY <1>1, <2>2, <2>3, OneMoreWithin
  <2> QED BY <2>4 DEF Within
<1>7. CASE UNCHANGED proc /\ conn'.ph \in {"room", "idle"} /\ InConn' = None
  <2>1. RunningNow' \subseteq RunningNow
    BY <1>1, <1>5, <1>7, AgentPoolAssumption DEF Active
  <2> QED BY <2>1, FewerWithin DEF Within
<1> QED BY <1>3, <1>6, <1>7 DEF InConn, NoConn

LEMMA RoomMadeWithin ==
    ASSUME IInv, Within(RunningNow), RoomMade
    PROVE  Within(RunningNow)'
<1>1. UNCHANGED <<back, parked>> /\ InConn = None
  BY DEF RoomMade, InConn
<1>2. CASE /\ Room(live, back, parked) /\ proc' = [proc EXCEPT ![conn.p] = "up"]
           /\ conn' = [conn EXCEPT !.ph = "open", !.w = None] /\ UNCHANGED live
  <2>1. InConn' = conn.p /\ \A p \in Process : p # conn.p /\ proc'[p] = "up" => proc[p] = "up"
    BY <1>2 DEF InConn, IInv, ConnOK, ProcOK
  <2>2. Active(live, back, parked) \subseteq RunningNow
    BY DEF Active, RunningNow, Running, Holding
  <2>3. RunningNow' \subseteq Active(live, back, parked) \cup {conn.p}
    BY <1>1, <1>2, <2>1 DEF Active, RunningNow, Running, Holding
  <2>4. Cardinality(Active(live, back, parked)) < MaxConcurrent
    BY <1>2 DEF Room
  <2>5. Within(RunningNow')
    BY <2>2, <2>3, <2>4, OneMoreWithin
  <2> QED BY <2>5 DEF Within
<1>3. CASE live' = ConnectFailed(live) /\ conn' = NoConn /\ UNCHANGED proc
  <2>1. live'.acp = live.acp /\ InConn' = None
    BY <1>3, StatesKept DEF IInv, Placed, SameOwner, InConn, NoConn
  <2>2. Fewer
    BY <1>1, <2>1 DEF Fewer, Holding
  <2> QED BY <1>3, <2>2, FewerKept
<1> QED BY <1>2, <1>3 DEF RoomMade

LEMMA StepWithin == IInv /\ Within(RunningNow) /\ [Next]_vars => Within(RunningNow)'
<1> SUFFICES ASSUME IInv, Within(RunningNow), [Next]_vars PROVE Within(RunningNow)'
  OBVIOUS
<1>1. CASE UNCHANGED vars
  BY <1>1, FewerKept DEF vars, Fewer, InConn
<1>2. CASE Agents
  BY <1>2, AgentsFewer, FewerKept
<1>3. CASE User \/ Watchdog
  BY <1>3, OthersFewer, FewerKept
<1>4. ASSUME NEW s \in Session, ConnectCold(s) PROVE Within(RunningNow)'
  <2>1. CASE live.sid = s
    BY <1>4, <2>1, SweepFit, ParkingHolds, StartWithin DEF ConnectCold
  <2>2. CASE live.sid # s
    BY <1>4, <2>2, Parking, ParkingHolds, StartWithin DEF ConnectCold
  <2> QED BY <2>1, <2>2
<1>5. CASE LeftoverKilled
  BY <1>5, SweepFit, ParkingHolds, StartWithin DEF LeftoverKilled, IInv, ConnOK
<1>6. CASE RoomMade
  BY <1>6, RoomMadeWithin
<1>7. CASE UnparkDone \/ OpenAnswered \/ Connected \/ OpenFails \/ ConnectFails
  BY <1>7, AnswerFewer, FewerKept
<1>8. ASSUME NEW s \in Session,
             \/ ConnectNoOp(s) \/ ConnectBlocks(s) \/ ConnectPromote(s) \/ ConnectUnpark(s)
             \/ ConnectReuse(s) \/ ConnectAgain(s)
      PROVE  Within(RunningNow)'
  BY <1>8, ConnectFewer, FewerKept
<1> QED BY <1>1, <1>2, <1>3, <1>4, <1>5, <1>6, <1>7, <1>8 DEF Next, Connect

\* The processes that the host knows never exceed maxConcurrentAgents: the
\* check before a spawn is enough, although it is made before the parked
\* process it evicts has ended and while exits, turns and settings go on.
THEOREM TheLimitHolds == Spec => []HeldCap
<1>1. Init => Within(RunningNow)
  <2> SUFFICES ASSUME Init PROVE Within(RunningNow)
    OBVIOUS
  <2>1. RunningNow = {}
    BY DEF Init, RunningNow, Running
  <2> QED BY <2>1, FS_EmptySet, AgentPoolAssumption DEF Within
<1>2. IInv /\ Within(RunningNow) /\ [Next]_vars => Within(RunningNow)'
  BY StepWithin
<1>3. IInv /\ Within(RunningNow) => HeldCap
  <2>1. RunningNow = {p \in Process : proc[p] = "up" /\ Held(p)}
    BY DEF RunningNow, Running, Held, Holding
  <2> QED BY <2>1 DEF Within, HeldCap
<1> QED BY <1>1, <1>2, <1>3, SlotsStayApart, PTL DEF Spec

------------------------------------------------------------------------------
(* CHECKPOINTS.  Three facts carry the theorems.  A checkpoint whose         *)
(* snapshots are all taken never opens again (StatusInv), so that what is    *)
(* collected, or marked as reverted, has no capture under way.  A snapshot   *)
(* holds only what was written before it (PastInv), so that a file which is  *)
(* as the turn left it cannot have been written since the safety capture     *)
(* (SafetyInv).  And the command on the main thread goes on to its snapshot  *)
(* exactly when the whole patch was taken back (JournalInv).                 *)

\* The record of i may still be written: its turn has not ended, its revert has
\* not been applied, or a capture of it runs or is about to report its failure.
Open(i) ==
  \/ i \in Turn /\ (turns[i] = "new" \/ i \in active)
  \/ i \in Revert /\ op[<<i, "revert">>] = "none"
  \/ i = main.id /\ main.pc \in {"safety", "apply"}
  \/ /\ job[i].pc # "idle"
     /\ \/ job[i].phase = "before" \/ job[i].pc \in {"begin", "tree", "record"}
        \/ job[i].pc = "end" /\ ~job[i].ok

\* Its first snapshot is not recorded.
Fresh(i) ==
  \/ i \in Turn /\ turns[i] = "new"
  \/ i \in Revert /\ op[<<i, "revert">>] = "none"
  \/ job[i].phase = "before" /\ job[i].pc \in {"begin", "tree", "record"}

Asked   == main.pc \in {"safety", "apply"}
Applied == main.pc \in {"after", "mark", "doubt", "close"}
Broke   == main.pc = "failed"

\* A capture before a turn belongs to a turn that waits for it, one after it to
\* a turn that is over; the session owns the checkpoint of a turn under way.
TurnJobs ==
  /\ \A t \in Turn : job[t].pc # "idle" =>
       turns[t] = IF job[t].phase = "before" THEN "capturing" ELSE "over"
  /\ \A t \in active : turns[t] \in {"prepared", "running"} /\ job[t].pc = "idle"

\* A safety checkpoint is captured by the command that waits for it.
RevertJobs == \A r \in Revert : job[r].pc # "idle" =>
  main.id = r /\ main.pc = IF job[r].phase = "before" THEN "safety" ELSE "after"

\* The command knows what it reverts, and forgets it.
CommandInv ==
  /\ Asked \/ Applied \/ Broke =>
                         /\ main.id \in Revert /\ main.cp \in Id
                         /\ main.rec \in Record
  /\ ~(Asked \/ Applied \/ Broke) => main.id = Nothing /\ main.cp = Nothing
  /\ main.pc # "refs" => main.gone = {}

\* A capture that failed goes on to its end.
JobsInv == \A i \in Id : job[i].pc \in {"begin", "tree", "record"} => job[i].ok

ControlInv == TurnJobs /\ RevertJobs /\ CommandInv /\ JobsInv

StatusInv == \A i \in Id :
  /\ Open(i) => /\ i # main.cp /\ i \notin main.gone
                /\ Exists(i) => cp[i].status \in {"capturing", "partial"}
  /\ Fresh(i) \/ i \in main.gone => ~Exists(i)

RefInv ==
  /\ RefsKept
  /\ \A i \in Id : job[i].pc = "record" => <<i, job[i].phase>> \in refs
  /\ main.cp # Nothing => {main.cp} \X Phase \subseteq refs

JournalInv ==
  /\ JournalTells
  /\ \A r \in Revert : op[<<r, "revert">>] = "none" => undone[r] = Nothing
  /\ Asked => /\ undone[main.id] = Nothing
              /\ op[<<main.id, "revert">>] \in {"pending", "uncertain"}
  /\ Applied => /\ Whole(main.id) /\ undone[main.id].cp = main.cp
                /\ op[<<main.id, "revert">>] # "none"
  /\ Broke => ~Whole(main.id) /\ op[<<main.id, "revert">>] # "none"

Written == [Path -> 0 .. Len(author)]
PastInv ==
  /\ tree \in Written
  /\ \A i \in Id : Exists(i) =>
       /\ cp[i].before \in Written
       /\ cp[i].status = "ready" => cp[i].after \in Written
  /\ \A i \in Id : job[i].pc = "record" => job[i].tree \in Written
  /\ Asked => main.rec.before \in Written /\ main.rec.after \in Written

SafetyInv ==
  /\ SafetyHolds
  /\ Asked => \A p \in Changed(main.rec) : tree[p] = main.rec.after[p] =>
       /\ job[main.id].pc = "record" => job[main.id].tree[p] = tree[p]
       /\ Exists(main.id) => cp[main.id].before[p] = tree[p]

CPInv == /\ CPTypeOK /\ ControlInv /\ StatusInv
         /\ RefInv /\ JournalInv /\ PastInv /\ SafetyInv

------------------------------------------------------------------------------
(* What the updates of a capture and of the command write.                 *)

USE DEF work, stores, screen, ends

\* Only the capture of i changes.
Only(i) == /\ job' \in [Id -> CaptureJob]
           /\ \A k \in Id : k # i => job'[k] = job[k]

LEMMA JobToIs ==
  ASSUME CPTypeOK, NEW i \in Id, NEW pc \in {"tree", "record", "end", "out"}, JobTo(i, pc)
  PROVE  /\ Only(i)
         /\ job'[i].pc = pc /\ job'[i].phase = job[i].phase
         /\ job'[i].tree = job[i].tree /\ job'[i].ok = job[i].ok
<1>1. job[i] \in CaptureJob /\ job \in [Id -> CaptureJob]
  BY DEF CPTypeOK
<1>2. [job[i] EXCEPT !.pc = pc] \in CaptureJob
  BY <1>1 DEF CaptureJob
<1> QED
  BY <1>1, <1>2 DEF JobTo, Only, CaptureJob

LEMMA BrokenIs ==
  ASSUME CPTypeOK, NEW i \in Id, NEW pc \in {"end", "out"}, Broken(i, pc)
  PROVE  /\ Only(i)
         /\ job'[i].pc = pc /\ job'[i].phase = job[i].phase
         /\ job'[i].tree = job[i].tree /\ job'[i].ok = FALSE
<1>1. job[i] \in CaptureJob /\ job \in [Id -> CaptureJob]
  BY DEF CPTypeOK
<1>2. [job[i] EXCEPT !.pc = pc, !.ok = FALSE] \in CaptureJob
  BY <1>1 DEF CaptureJob
<1> QED
  BY <1>1, <1>2 DEF Broken, Only, CaptureJob

LEMMA CaptureIs ==
  ASSUME CPTypeOK, NEW i \in Id, NEW phase \in Phase, Capture(i, phase)
  PROVE  /\ Only(i)
         /\ job'[i].pc = "begin" /\ job'[i].phase = phase
         /\ job'[i].tree = <<>> /\ job'[i].ok = TRUE
<1>1. job \in [Id -> CaptureJob]
  BY DEF CPTypeOK
<1>2. [NoJob EXCEPT !.pc = "begin", !.phase = phase] \in CaptureJob
  BY DEF CaptureJob, NoJob
<1> QED
  BY <1>1, <1>2 DEF Capture, Only, NoJob

LEMMA DoneIs ==
  ASSUME CPTypeOK, NEW i \in Id, Done(i)
  PROVE  /\ Only(i)
         /\ job'[i].pc = "idle" /\ job'[i].phase = "before" /\ job'[i].tree = <<>>
<1>1. NoJob \in CaptureJob /\ job \in [Id -> CaptureJob]
  BY DEF CPTypeOK, CaptureJob, NoJob, Phase
<1> QED
  BY <1>1 DEF Done, Only, NoJob

LEMMA MainToIs ==
  ASSUME CPTypeOK, NEW pc \in {"apply", "after", "mark", "doubt", "close", "failed"}, MainTo(pc)
  PROVE  /\ main' \in Command /\ main'.pc = pc
         /\ main'.cp = main.cp /\ main'.id = main.id
         /\ main'.rec = main.rec /\ main'.gone = main.gone
BY DEF CPTypeOK, MainTo, Command

LEMMA ReadyIs ==
  ASSUME main' = Ready
  PROVE  /\ main' \in Command /\ main'.pc = "idle"
         /\ main'.cp = Nothing /\ main'.id = Nothing /\ main'.gone = {}
BY DEF Ready, Command

LEMMA OpIsType ==
  ASSUME CPTypeOK, NEW key \in OpKey, NEW status \in OpState \ {"none"}, OpIs(key, status)
  PROVE  /\ op' \in [OpKey -> OpState]
         /\ \A k \in OpKey : k # key => op'[k] = op[k]
         /\ (op'[key] = status /\ op[key] = "pending") \/ op'[key] = op[key]
BY DEF CPTypeOK, OpIs

\* The operations of captures and those of reverts are apart.
LEMMA KeysApart ==
  ASSUME NEW i \in Id, NEW phase \in Phase
  PROVE  /\ <<i, phase>> \in OpKey
         /\ \A r \in Revert : <<r, "revert">> \in OpKey /\ <<r, "revert">> # <<i, phase>>
BY DEF OpKey, Phase

LEMMA Apart ==
  ASSUME CheckpointsAssumption
  PROVE  /\ Turn \subseteq Id /\ Revert \subseteq Id
         /\ \A i \in Id : (i \in Turn /\ i \notin Revert) \/ (i \in Revert /\ i \notin Turn)
         /\ Nothing \notin Id /\ Nothing \notin Record /\ Nothing \notin Overwrite
<1>1. Nothing \notin Turn /\ Nothing \notin Revert
  BY DEF CheckpointsAssumption
<1>2. Nothing \notin Record /\ Nothing \notin Overwrite
  BY Zenon DEF CheckpointsAssumption
<1>3. \A i \in Turn : i \notin Revert
  BY DEF CheckpointsAssumption
<1>4. \A i \in Id : (i \in Turn /\ i \notin Revert) \/ (i \in Revert /\ i \notin Turn)
  BY <1>3 DEF Id
<1>5. Nothing \notin Id /\ Turn \subseteq Id /\ Revert \subseteq Id
  BY <1>1 DEF Id
<1> QED
  BY <1>2, <1>4, <1>5

LEMMA WrittenIsTree ==
  ASSUME CPTypeOK, CheckpointsAssumption
  PROVE  Written \subseteq Tree
<1>1. Len(author) \in Nat /\ Len(author) <= MaxEdits /\ MaxEdits \in Nat
  BY DEF CPTypeOK, CheckpointsAssumption
<1> QED
  BY <1>1 DEF Written, Tree

\* Records get another label: a ready or a reverted one is as it was.
Relabelled ==
  /\ cp' \in [Id -> Record \cup {Nothing}]
  /\ \A k \in Id : (Exists(k)' <=> Exists(k)) /\
       (Exists(k) => /\ cp'[k].before = cp[k].before /\ cp'[k].after = cp[k].after
                     /\ cp'[k].status \in {cp[k].status, "partial"})

LEMMA WholeStays ==
  ASSUME UNCHANGED undone
  PROVE  \A r \in Revert : Whole(r)' <=> Whole(r)
BY DEF Whole

LEMMA SameIs ==
  ASSUME CPTypeOK, UNCHANGED cp
  PROVE  Relabelled
BY DEF CPTypeOK, Relabelled, Exists

LEMMA PartialIs ==
  ASSUME CheckpointsAssumption, CPTypeOK, NEW i \in Id, Exists(i),
         cp' = [cp EXCEPT ![i].status = "partial"]
  PROVE  Relabelled
<1>1. cp[i] \in Record /\ cp \in [Id -> Record \cup {Nothing}] /\ Nothing \notin Record
  BY Apart DEF CPTypeOK, Exists
<1>2. [cp[i] EXCEPT !.status = "partial"] \in Record
  BY <1>1 DEF Record, Status
<1> QED
  BY <1>1, <1>2 DEF Relabelled, Exists, Record

LEMMA ReconciledIs ==
  ASSUME CheckpointsAssumption, CPTypeOK, Reconciled
  PROVE  Relabelled
<1>1. cp \in [Id -> Record \cup {Nothing}] /\ Nothing \notin Record
  BY Apart DEF CPTypeOK
<1>2. ASSUME NEW k \in Id, Exists(k)
      PROVE  [cp[k] EXCEPT !.status = "partial"] \in Record /\ cp[k] \in Record
  BY <1>1, <1>2 DEF Record, Status, Exists
<1> QED
  BY <1>1, <1>2 DEF Reconciled, Relabelled, Exists, Record

------------------------------------------------------------------------------
(* A capture.                                                              *)

LEMMA BeginsKeeps ==
  ASSUME CheckpointsAssumption, CPInv, NEW i \in Id, CaptureBegins(i) \/ CaptureRefused(i)
  PROVE  CPInv'
<1>1. CPTypeOK /\ job[i].pc = "begin" /\ job[i].phase \in Phase
  BY DEF CPInv, CPTypeOK, CaptureJob, CaptureBegins, CaptureRefused, At
<1>2. /\ Only(i) /\ job'[i].pc \in {"tree", "out"}
      /\ job'[i].pc = "tree" => job'[i].ok = job[i].ok
      /\ job'[i].phase = job[i].phase /\ job'[i].tree = job[i].tree
  <2>1. CASE CaptureBegins(i)
    BY <1>1, <2>1, JobToIs DEF CaptureBegins
  <2>2. CASE CaptureRefused(i)
    BY <1>1, <2>2, BrokenIs DEF CaptureRefused
  <2> QED
    BY <2>1, <2>2
<1>3. /\ UNCHANGED <<tree, author, turns, active, cp, refs, guard>>
      /\ UNCHANGED <<shown, main, undone, up, starts>>
  BY DEF CaptureBegins, CaptureRefused
<1>4. faults' \in 0 .. MaxFaults
  BY <1>1 DEF CaptureBegins, CaptureRefused, NoFault, Fault, CPTypeOK, CheckpointsAssumption
<1>5. /\ op' \in [OpKey -> OpState]
      /\ \A r \in Revert : op'[<<r, "revert">>] = op[<<r, "revert">>]
  BY <1>1, KeysApart DEF CaptureBegins, CaptureRefused, Begun, CPTypeOK, OpState
<1>6. CPTypeOK'
  BY <1>1, <1>2, <1>3, <1>4, <1>5 DEF CPTypeOK, Only
<1>7. ControlInv'
  <2>1. TurnJobs'
    BY <1>1, <1>2, <1>3, Apart DEF CPInv, CPTypeOK, ControlInv, TurnJobs, Only
  <2>2. RevertJobs'
    BY <1>1, <1>2, <1>3, Apart DEF CPInv, ControlInv, RevertJobs, Only
  <2>3. CommandInv'
    BY <1>1, <1>2, <1>3 DEF CPInv, ControlInv, CommandInv, Asked, Applied, Broke
  <2>4. JobsInv'
    BY <1>1, <1>2 DEF CPInv, ControlInv, JobsInv, Only
  <2> QED
    BY <2>1, <2>2, <2>3, <2>4 DEF ControlInv
<1>8. StatusInv'
  <2>1. \A k \in Id : (Open(k)' => Open(k)) /\ (Fresh(k)' => Fresh(k))
    BY <1>1, <1>2, <1>3, <1>5 DEF Open, Fresh, Only
  <2> QED
    BY <2>1, <1>3 DEF CPInv, StatusInv, Exists
<1>9. RefInv'
  BY <1>1, <1>2, <1>3 DEF CPInv, RefInv, RefsKept, Only, Exists
<1>10. JournalInv'
  BY <1>3, <1>5 DEF CPInv, JournalInv, JournalTells, Whole, Asked, Applied, Broke, Exists, ControlInv,
                    CommandInv
<1>11. PastInv'
  BY <1>2, <1>3 DEF CPInv, PastInv, Written, Only, Exists, Asked
<1>12. SafetyInv'
  BY <1>1, <1>2, <1>3, Apart DEF CPInv, SafetyInv, SafetyHolds, ControlInv, CommandInv,
                                 Only, Asked, Changed, Exists
<1> QED
  BY <1>6, <1>7, <1>8, <1>9, <1>10, <1>11, <1>12 DEF CPInv

LEMMA TreeKeeps ==
  ASSUME CheckpointsAssumption, CPInv, NEW i \in Id, CaptureTree(i)
  PROVE  CPInv'
<1>1. CPTypeOK /\ job[i].pc = "tree" /\ job[i].phase \in Phase
  BY DEF CPInv, CPTypeOK, CaptureJob, CaptureTree, At
<1>2. /\ Only(i) /\ job'[i].pc \in {"record", "end"} /\ job'[i].phase = job[i].phase
      /\ job'[i].pc = "record" => job'[i].ok = job[i].ok
      /\ job'[i].pc = "record" => job'[i].tree = tree
      /\ refs \subseteq refs' /\ refs' \subseteq Id \X Phase
      /\ job'[i].pc = "record" => <<i, job[i].phase>> \in refs'
      /\ faults' \in 0 .. MaxFaults
  <2>1. CASE /\ job' = [job EXCEPT ![i].tree = tree, ![i].pc = "record"]
             /\ refs' = refs \cup {<<i, job[i].phase>>} /\ NoFault
    <3>1. job \in [Id -> CaptureJob] /\ job[i] \in CaptureJob /\ tree \in Tree
      BY <1>1 DEF CPTypeOK
    <3>2. [job[i] EXCEPT !.tree = tree, !.pc = "record"] \in CaptureJob
      BY <3>1 DEF CaptureJob
    <3>3. /\ Only(i) /\ job'[i].pc = "record" /\ job'[i].phase = job[i].phase
          /\ job'[i].tree = tree /\ job'[i].ok = job[i].ok
      BY <2>1, <3>1, <3>2 DEF Only, CaptureJob
    <3> QED
      BY <1>1, <2>1, <3>3 DEF CPTypeOK, NoFault
  <2>2. CASE Fault /\ Broken(i, "end") /\ UNCHANGED refs
    <3>1. faults' \in 0 .. MaxFaults
      BY <1>1, <2>2 DEF CPTypeOK, Fault, CheckpointsAssumption
    <3> QED
      BY <1>1, <2>2, <3>1, BrokenIs DEF CPTypeOK
  <2> QED
    BY <2>1, <2>2 DEF CaptureTree
<1>3. /\ UNCHANGED <<tree, author, turns, active, cp, op>> /\ guard' = i
      /\ UNCHANGED <<shown, main, undone, up, starts>>
  BY DEF CaptureTree
<1>4. CPTypeOK'
  BY <1>1, <1>2, <1>3 DEF CPTypeOK, Only
<1>5. ControlInv'
  <2>1. TurnJobs'
    BY <1>1, <1>2, <1>3, Apart DEF CPInv, CPTypeOK, ControlInv, TurnJobs, Only
  <2>2. RevertJobs'
    BY <1>1, <1>2, <1>3, Apart DEF CPInv, ControlInv, RevertJobs, Only
  <2>3. CommandInv'
    BY <1>3 DEF CPInv, ControlInv, CommandInv, Asked, Applied, Broke
  <2>4. JobsInv'
    BY <1>1, <1>2 DEF CPInv, ControlInv, JobsInv, Only
  <2> QED
    BY <2>1, <2>2, <2>3, <2>4 DEF ControlInv
<1>6. StatusInv'
  <2>1. \A k \in Id : (Open(k)' => Open(k)) /\ (Fresh(k)' => Fresh(k))
    BY <1>1, <1>2, <1>3 DEF Open, Fresh, Only
  <2> QED
    BY <2>1, <1>3 DEF CPInv, StatusInv, Exists
<1>7. RefInv'
  BY <1>1, <1>2, <1>3 DEF CPInv, RefInv, RefsKept, Only, Exists
<1>8. JournalInv'
  BY <1>3 DEF CPInv, JournalInv, JournalTells, Whole, Asked, Applied,
                          Broke, Exists
<1>9. PastInv'
  BY <1>2, <1>3 DEF CPInv, PastInv, Written, Only, Exists, Asked
<1>10. SafetyInv'
  BY <1>2, <1>3, Apart DEF CPInv, SafetyInv, SafetyHolds, ControlInv, CommandInv, Only,
                           Asked, Changed, Exists
<1> QED
  BY <1>4, <1>5, <1>6, <1>7, <1>8, <1>9, <1>10 DEF CPInv

LEMMA RecordsKeeps ==
  ASSUME CheckpointsAssumption, CPInv, NEW i \in Id, CaptureRecords(i)
  PROVE  CPInv'
<1> DEFINE first == job[i].phase = "before"
<1>1. CPTypeOK /\ job[i].pc = "record" /\ job[i].phase \in Phase
  BY DEF CPInv, CPTypeOK, CaptureJob, CaptureRecords, At
<1>2. /\ Only(i) /\ job'[i].pc = "end" /\ job'[i].phase = job[i].phase
      /\ UNCHANGED <<tree, author, turns, active, refs, op, guard>>
      /\ UNCHANGED <<shown, main, undone, up, starts>>
  BY <1>1, JobToIs, BrokenIs DEF CaptureRecords
<1>3. faults' \in 0 .. MaxFaults
  BY <1>1 DEF CaptureRecords, NoFault, Fault, CPTypeOK, CheckpointsAssumption
<1>4. \/ UNCHANGED cp /\ ~job'[i].ok
      \/ /\ cp' \in [Id -> Record \cup {Nothing}] /\ Exists(i)' /\ job'[i].ok
         /\ \A k \in Id : k # i => cp'[k] = cp[k]
         /\ IF first THEN cp'[i].status = "capturing" /\ cp'[i].before = job[i].tree
            ELSE /\ Exists(i) /\ cp'[i].status = "ready"
                 /\ cp'[i].before = cp[i].before /\ cp'[i].after = job[i].tree
  <2>1. SUFFICES ASSUME cp' = [cp EXCEPT ![i] = Recorded(i)], ~first => Exists(i)
        PROVE  /\ cp' \in [Id -> Record \cup {Nothing}] /\ Exists(i)'
               /\ \A k \in Id : k # i => cp'[k] = cp[k]
               /\ IF first THEN cp'[i].status = "capturing" /\ cp'[i].before = job[i].tree
                  ELSE /\ Exists(i) /\ cp'[i].status = "ready"
                       /\ cp'[i].before = cp[i].before /\ cp'[i].after = job[i].tree
    <3>1. job[i].ok
      BY <1>1 DEF CPInv, ControlInv, JobsInv
    <3> QED
      BY <1>1, <3>1, JobToIs, BrokenIs DEF CaptureRecords, Phase
  <2>2. cp \in [Id -> Record \cup {Nothing}] /\ Nothing \notin Record
    BY <1>1, Apart DEF CPTypeOK
  <2>3. job[i].tree \in Tree
    BY <1>1, WrittenIsTree DEF CPInv, PastInv
  <2>4. /\ Recorded(i) \in Record
        /\ IF first THEN Recorded(i).status = "capturing" /\ Recorded(i).before = job[i].tree
           ELSE /\ Recorded(i).status = "ready" /\ Recorded(i).before = cp[i].before
                /\ Recorded(i).after = job[i].tree
    <3>1. CASE first
      BY <2>3, <3>1 DEF Recorded, Record, Status
    <3>2. CASE ~first
      <4>1. /\ cp[i] \in Record
            /\ Recorded(i) = [cp[i] EXCEPT !.status = "ready", !.after = job[i].tree]
        BY <2>1, <2>2, <3>2 DEF Recorded, Exists
      <4> QED
        BY <2>3, <3>2, <4>1 DEF Record, Status
    <3> QED
      BY <3>1, <3>2
  <2> QED
    BY <2>1, <2>2, <2>4 DEF Exists
<1> HIDE DEF first
<1>5. CPTypeOK'
  BY <1>1, <1>2, <1>3, <1>4 DEF CPTypeOK, Only
<1>6. ControlInv'
  <2>1. TurnJobs'
    BY <1>1, <1>2, Apart DEF CPInv, CPTypeOK, ControlInv, TurnJobs, Only
  <2>2. RevertJobs'
    BY <1>1, <1>2, Apart DEF CPInv, ControlInv, RevertJobs, Only
  <2>3. CommandInv'
    BY <1>2 DEF CPInv, ControlInv, CommandInv, Asked, Applied, Broke
  <2>4. JobsInv'
    BY <1>1, <1>2 DEF CPInv, ControlInv, JobsInv, Only
  <2> QED
    BY <2>1, <2>2, <2>3, <2>4 DEF ControlInv
<1>7. Open(i) /\ ~Fresh(i)' /\ (Open(i)' => first \/ ~job'[i].ok)
  <2>1. i \in Turn => turns[i] # "new" /\ (first \/ i \notin active)
    BY <1>1, <1>2 DEF CPInv, ControlInv, TurnJobs
  <2>2. i \in Revert => /\ op[<<i, "revert">>] # "none" /\ main.id = i
                        /\ main.pc = IF first THEN "safety" ELSE "after"
    BY <1>1 DEF CPInv, ControlInv, RevertJobs, JournalInv, Asked, Applied, Broke, first
  <2>3. i \in Turn => ~(i = main.id /\ Asked)
    BY Apart DEF CPInv, ControlInv, CommandInv
  <2> QED
    BY <1>1, <1>2, <2>1, <2>2, <2>3, Apart DEF Open, Fresh, Phase, Asked, first
<1>8. StatusInv'
  <2>1. \A k \in Id : k # i => (Open(k)' => Open(k)) /\ (Fresh(k)' => Fresh(k))
    BY <1>1, <1>2 DEF Open, Fresh, Only
  <2>2. \A k \in Id : k # i => (Exists(k)' <=> Exists(k)) /\ cp'[k] = cp[k]
    BY <1>4 DEF Exists
  <2>3. i # main.cp /\ i \notin main.gone
    BY <1>7 DEF CPInv, StatusInv
  <2>4. Open(i)' /\ Exists(i)' => cp'[i].status \in {"capturing", "partial"}
    BY <1>4, <1>7 DEF CPInv, StatusInv, Exists
  <2> QED
    BY <1>2, <1>7, <2>1, <2>2, <2>3, <2>4 DEF CPInv, StatusInv
<1>9. RefInv'
  <2>1. RefsKept'
    BY <1>1, <1>2, <1>4 DEF CPInv, RefInv, RefsKept, Exists, first, Phase
  <2> QED
    BY <1>1, <1>2, <2>1 DEF CPInv, RefInv, Only
<1>10. JournalInv'
  BY <1>2, <1>4 DEF CPInv, JournalInv, JournalTells, Whole, Asked, Applied,
                          Broke, Exists
<1>11. PastInv'
  BY <1>1, <1>2, <1>4 DEF CPInv, PastInv, Written, Only, Exists, Asked
<1>12. SafetyInv'
  <2>1. i \in Revert /\ first => undone[i] = Nothing
    BY <1>1 DEF CPInv, ControlInv, RevertJobs, JournalInv, Asked, first
  <2>2. i = main.id /\ Asked => first
    BY <1>1, Apart DEF CPInv, ControlInv, CommandInv, RevertJobs, Asked, first
  <2>3. SafetyHolds'
    BY <1>2, <1>4, <2>1, Apart DEF CPInv, SafetyInv, SafetyHolds, Exists
  <2>4. ASSUME Asked', NEW p \in Changed(main.rec)', (tree[p] = main.rec.after[p])'
        PROVE  /\ (job[main.id].pc = "record" => job[main.id].tree[p] = tree[p])'
               /\ (Exists(main.id) => cp[main.id].before[p] = tree[p])'
    <3>1. /\ job[main.id].pc = "record" => job[main.id].tree[p] = tree[p]
          /\ Exists(main.id) => cp[main.id].before[p] = tree[p]
      BY <1>2, <2>4 DEF CPInv, SafetyInv, Asked, Changed
    <3>2. main.id \in Id
      BY <1>2, <2>4, Apart DEF CPInv, ControlInv, CommandInv, Asked
    <3> QED
      BY <1>1, <1>2, <1>4, <2>2, <2>4, <3>1, <3>2 DEF Only, Exists, Asked
  <2> QED
    BY <2>3, <2>4 DEF SafetyInv
<1> QED
  BY <1>5, <1>6, <1>8, <1>9, <1>10, <1>11, <1>12 DEF CPInv

LEMMA EndsKeeps ==
  ASSUME CheckpointsAssumption, CPInv, NEW i \in Id, CaptureEnds(i) \/ CaptureEndsDirty(i)
  PROVE  CPInv'
<1>1. CPTypeOK /\ job[i].pc = "end" /\ job[i].phase \in Phase
  BY DEF CPInv, CPTypeOK, CaptureJob, CaptureEnds, CaptureEndsDirty, At
<1>2. /\ Only(i) /\ job'[i].pc = "out" /\ job'[i].phase = job[i].phase
      /\ UNCHANGED <<tree, author, turns, active, refs>> /\ guard' = Nothing
      /\ UNCHANGED <<shown, main, undone, up, starts>>
  BY <1>1, JobToIs DEF CaptureEnds, CaptureEndsDirty
<1>3. faults' \in 0 .. MaxFaults
  BY <1>1 DEF CaptureEnds, CaptureEndsDirty, NoFault, Fault, CPTypeOK, CheckpointsAssumption
<1>4. Relabelled
  BY <1>1, SameIs, PartialIs DEF CaptureEnds, CaptureEndsDirty
<1>5. /\ op' \in [OpKey -> OpState]
      /\ \A r \in Revert : op'[<<r, "revert">>] = op[<<r, "revert">>]
  <2>1. CASE UNCHANGED op
    BY <1>1, <2>1 DEF CPTypeOK
  <2>2. CASE \E status \in {"completed", "failed"} : OpIs(<<i, job[i].phase>>, status)
    <3>1. PICK status \in {"completed", "failed"} : OpIs(<<i, job[i].phase>>, status)
      BY <2>2
    <3>2. status \in OpState \ {"none"} /\ <<i, job[i].phase>> \in OpKey
      BY <1>1, KeysApart DEF OpState
    <3> QED
      BY <1>1, <3>1, <3>2, KeysApart, OpIsType
  <2> QED
    BY <1>1, <2>1, <2>2 DEF CaptureEnds, CaptureEndsDirty
<1>6. CPTypeOK'
  BY <1>1, <1>2, <1>3, <1>4, <1>5 DEF CPTypeOK, Only, Relabelled
<1>7. ControlInv'
  <2>1. TurnJobs'
    BY <1>1, <1>2, Apart DEF CPInv, CPTypeOK, ControlInv, TurnJobs, Only
  <2>2. RevertJobs'
    BY <1>1, <1>2, Apart DEF CPInv, ControlInv, RevertJobs, Only
  <2>3. CommandInv'
    BY <1>2 DEF CPInv, ControlInv, CommandInv, Asked, Applied, Broke
  <2>4. JobsInv'
    BY <1>1, <1>2 DEF CPInv, ControlInv, JobsInv, Only
  <2> QED
    BY <2>1, <2>2, <2>3, <2>4 DEF ControlInv
<1>8. StatusInv'
  <2>1. \A k \in Id : (Open(k)' => Open(k)) /\ (Fresh(k)' => Fresh(k))
    BY <1>1, <1>2, <1>5 DEF Open, Fresh, Only
  <2> QED
    BY <2>1, <1>2, <1>4 DEF CPInv, StatusInv, Relabelled
<1>9. RefInv'
  BY <1>1, <1>2, <1>4 DEF CPInv, RefInv, RefsKept, Only, Relabelled
<1>10. JournalInv'
  <2>1. \A r \in Revert : Whole(r)' <=> Whole(r)
    BY <1>2, WholeStays
  <2>2. JournalTells'
    BY <1>2, <1>4, <1>5, <2>1 DEF CPInv, JournalInv, JournalTells, Relabelled
  <2>3. Asked \/ Applied \/ Broke => main.id \in Revert
    BY DEF CPInv, ControlInv, CommandInv
  <2> QED
    BY <1>2, <1>5, <2>1, <2>2, <2>3 DEF CPInv, JournalInv, Asked, Applied, Broke
<1>11. PastInv'
  BY <1>2, <1>4 DEF CPInv, PastInv, Written, Only, Relabelled, Asked
<1>12. SafetyInv'
  BY <1>2, <1>4, Apart DEF CPInv, SafetyInv, SafetyHolds, ControlInv, CommandInv, Only,
                           Asked,
                           Changed, Relabelled
<1> QED
  BY <1>6, <1>7, <1>8, <1>9, <1>10, <1>11, <1>12 DEF CPInv

------------------------------------------------------------------------------
(* Turns.                                                                  *)

\* What a step of turn t writes: its own capture, which it starts or has done
\* with, and the turn; no snapshot opens.
TurnSteps(t) ==
  /\ Only(t) /\ job'[t].pc # "record"
  /\ job'[t].pc \in {"begin", "tree"} => job'[t].ok
  /\ turns' \in [Turn -> {"new", "capturing", "prepared", "running", "over"}]
  /\ active' \subseteq Turn
  /\ TurnJobs'
  /\ \A i \in Id : (Open(i)' => Open(i)) /\ (Fresh(i)' => Fresh(i))

LEMMA ChatSteps ==
  ASSUME CheckpointsAssumption, CPInv, NEW t \in Turn, Chat(t)
  PROVE  TurnSteps(t)
<1>1. CPTypeOK /\ TurnJobs /\ t \in Id /\ t \notin Revert
  BY Apart DEF CPInv, ControlInv
<1>2. /\ turns \in [Turn -> {"new", "capturing", "prepared", "running", "over"}]
      /\ active \subseteq Turn /\ job \in [Id -> CaptureJob] /\ Turn \subseteq Id
  BY <1>1, Apart DEF CPTypeOK
<1>3. CASE Send(t)
  <2>1. /\ Only(t) /\ job'[t].pc = "begin" /\ job'[t].phase = "before" /\ job'[t].ok
        /\ turns[t] = "new" /\ turns' = [turns EXCEPT ![t] = "capturing"]
        /\ UNCHANGED <<active, op, main>>
    BY <1>1, <1>3, CaptureIs DEF Send, Phase
  <2>2. TurnJobs'
    BY <1>1, <1>2, <2>1 DEF TurnJobs, Only
  <2>3. \A i \in Id : (Open(i)' => Open(i)) /\ (Fresh(i)' => Fresh(i))
    BY <1>1, <1>2, <2>1 DEF Open, Fresh, Only
  <2> QED
    BY <1>2, <2>1, <2>2, <2>3 DEF TurnSteps
<1>4. CASE Prepared(t)
  <2>1. /\ Only(t) /\ job'[t].pc = "idle" /\ job'[t].phase = "before"
        /\ job[t].pc = "out" /\ job[t].phase = "before" /\ active' \subseteq {t}
        /\ turns' = [turns EXCEPT ![t] = "prepared"]
        /\ UNCHANGED <<op, main>>
    BY <1>1, <1>4, DoneIs DEF Prepared, Returned, At
  <2>2. TurnJobs'
    BY <1>1, <1>2, <2>1 DEF TurnJobs, Only
  <2>3. \A i \in Id : (Open(i)' => Open(i)) /\ (Fresh(i)' => Fresh(i))
    BY <1>1, <1>2, <2>1 DEF Open, Fresh, Only
  <2> QED
    BY <1>2, <2>1, <2>2, <2>3 DEF TurnSteps
<1>5. CASE TurnBegins(t)
  <2>1. /\ UNCHANGED <<job, active, op, main>> /\ turns[t] = "prepared"
        /\ turns' = [turns EXCEPT ![t] = "running"]
    BY <1>5 DEF TurnBegins
  <2>2. TurnJobs'
    BY <1>1, <1>2, <2>1 DEF TurnJobs
  <2>3. \A i \in Id : (Open(i)' => Open(i)) /\ (Fresh(i)' => Fresh(i))
    BY <1>1, <1>2, <2>1 DEF Open, Fresh
  <2>4. job[t].pc = "idle"
    BY <1>1, <2>1 DEF TurnJobs
  <2> QED
    BY <1>2, <2>1, <2>2, <2>3, <2>4 DEF TurnSteps, Only
<1>6. CASE TurnCloses(t)
  <2>1. /\ turns[t] \in {"prepared", "running"} /\ turns' = [turns EXCEPT ![t] = "over"]
        /\ active' = {} /\ UNCHANGED <<op, main>> /\ job[t].pc = "idle"
    BY <1>1, <1>6 DEF TurnCloses, TurnJobs
  <2>2. \/ UNCHANGED job
        \/ /\ t \in active /\ Only(t)
           /\ job'[t].pc = "begin" /\ job'[t].phase = "after" /\ job'[t].ok
    BY <1>1, <1>6, CaptureIs DEF TurnCloses, Phase
  <2>3. TurnJobs'
    BY <1>1, <1>2, <2>1, <2>2 DEF TurnJobs, Only
  <2>4. \A i \in Id : (Open(i)' => Open(i)) /\ (Fresh(i)' => Fresh(i))
    BY <1>1, <1>2, <2>1, <2>2 DEF Open, Fresh, Only
  <2> QED
    BY <1>2, <2>1, <2>2, <2>3, <2>4 DEF TurnSteps, Only
<1>7. CASE TurnDropped(t)
  <2>1. /\ turns[t] \in {"prepared", "running"} /\ turns' = [turns EXCEPT ![t] = "over"]
        /\ active' = {} /\ UNCHANGED <<job, op, main>> /\ job[t].pc = "idle"
    BY <1>1, <1>7 DEF TurnDropped, TurnJobs
  <2>2. TurnJobs'
    BY <1>1, <1>2, <2>1 DEF TurnJobs
  <2>3. \A i \in Id : (Open(i)' => Open(i)) /\ (Fresh(i)' => Fresh(i))
    BY <1>1, <1>2, <2>1 DEF Open, Fresh
  <2> QED
    BY <1>2, <2>1, <2>2, <2>3 DEF TurnSteps, Only
<1>8. CASE AfterReturns(t)
  <2>1. /\ Only(t) /\ job'[t].pc = "idle" /\ job'[t].phase = "before"
        /\ UNCHANGED <<turns, active, op, main>>
    BY <1>1, <1>8, DoneIs DEF AfterReturns
  <2>2. TurnJobs'
    BY <1>1, <1>2, <2>1 DEF TurnJobs, Only
  <2>3. \A i \in Id : (Open(i)' => Open(i)) /\ (Fresh(i)' => Fresh(i))
    BY <1>1, <1>2, <2>1 DEF Open, Fresh, Only
  <2> QED
    BY <1>2, <2>1, <2>2, <2>3 DEF TurnSteps
<1> QED
  BY <1>3, <1>4, <1>5, <1>6, <1>7, <1>8 DEF Chat

LEMMA ChatKeeps ==
  ASSUME CheckpointsAssumption, CPInv, NEW t \in Turn, Chat(t)
  PROVE  CPInv'
<1>1. TurnSteps(t) /\ CPTypeOK /\ t \in Id /\ t \notin Revert
  BY ChatSteps, Apart DEF CPInv
<1>2. /\ UNCHANGED <<tree, author, cp, refs, op, guard>>
      /\ UNCHANGED <<shown, main, undone, up, faults, starts>>
  BY DEF Chat, Send, Prepared, TurnBegins, TurnCloses, TurnDropped, AfterReturns
<1>3. CPTypeOK'
  BY <1>1, <1>2 DEF CPTypeOK, TurnSteps, Only
<1>4. ControlInv'
  BY <1>1, <1>2, Apart DEF CPInv, ControlInv, RevertJobs, CommandInv, JobsInv, TurnSteps,
                           Only,
                           Asked, Applied, Broke
<1>5. StatusInv'
  BY <1>1, <1>2 DEF CPInv, StatusInv, TurnSteps, Exists
<1>6. RefInv'
  BY <1>1, <1>2 DEF CPInv, RefInv, RefsKept, TurnSteps, Only, Exists
<1>7. JournalInv'
  BY <1>2 DEF CPInv, JournalInv, JournalTells, Whole, Asked, Applied,
                          Broke, Exists
<1>8. PastInv'
  BY <1>1, <1>2 DEF CPInv, PastInv, Written, TurnSteps, Only, Exists, Asked
<1>9. SafetyInv'
  BY <1>1, <1>2, Apart DEF CPInv, SafetyInv, SafetyHolds, ControlInv, CommandInv, TurnSteps,
                           Only, Asked, Changed, Exists
<1> QED
  BY <1>3, <1>4, <1>5, <1>6, <1>7, <1>8, <1>9 DEF CPInv

------------------------------------------------------------------------------
(* Writes to the tree, and the preview.                                    *)

LEMMA EditKeeps ==
  ASSUME CheckpointsAssumption, CPInv, NEW p \in Path, Edit(p)
  PROVE  CPInv'
<1> DEFINE n == Len(author) + 1
<1>1. PICK who \in Turn \cup {"user"} : Write(p, who)
  BY DEF Edit
<1>2. /\ CPTypeOK /\ tree \in Tree /\ author \in Seq(Turn \cup {"user"})
      /\ Len(author) \in Nat /\ MaxEdits \in Nat /\ n <= MaxEdits
  BY <1>1 DEF CPInv, CPTypeOK, CheckpointsAssumption, Write
<1>3. author' \in Seq(Turn \cup {"user"}) /\ Len(author') = n
  BY <1>1, <1>2 DEF Write
<1>4. /\ tree' = [tree EXCEPT ![p] = n]
      /\ UNCHANGED <<turns, active, cp, refs, op, job, guard>>
      /\ UNCHANGED <<shown, main, undone, up, faults, starts>>
  BY <1>1, <1>3 DEF Write
<1>5. tree' \in Tree
  BY <1>2, <1>4 DEF Tree
<1>6. CPTypeOK'
  BY <1>2, <1>3, <1>4, <1>5 DEF CPTypeOK
<1>7. ControlInv'
  BY <1>4 DEF CPInv, ControlInv, TurnJobs, RevertJobs, CommandInv, JobsInv, Asked, Applied, Broke
<1>8. StatusInv'
  BY <1>4 DEF CPInv, StatusInv, Open, Fresh, Exists
<1>9. RefInv' /\ JournalInv'
  BY <1>4 DEF CPInv, RefInv, RefsKept, JournalInv, JournalTells, Whole, Asked, Applied,
                          Broke, Exists
<1>10. PastInv'
  <2>1. Written \subseteq Written' /\ tree' \in Written'
    BY <1>2, <1>3, <1>4 DEF CPInv, PastInv, Written
  <2> QED
    BY <1>4, <2>1 DEF CPInv, PastInv, Exists, Asked
<1>11. SafetyInv'
  <2>1. SafetyHolds'
    BY <1>4 DEF CPInv, SafetyInv, SafetyHolds, Exists
  <2>2. ASSUME Asked, NEW q \in Changed(main.rec), tree'[q] = main.rec.after[q]
        PROVE  tree'[q] = tree[q]
    <3>1. main.rec.after \in Written /\ q \in Path
      BY <2>2 DEF CPInv, PastInv, Changed
    <3>2. main.rec.after[q] # n
      BY <1>2, <3>1 DEF Written
    <3> QED
      BY <1>2, <1>4, <2>2, <3>1, <3>2 DEF Tree
  <2> QED
    BY <1>4, <2>1, <2>2 DEF CPInv, SafetyInv, Asked, Changed, Exists
<1> QED
  BY <1>6, <1>7, <1>8, <1>9, <1>10, <1>11 DEF CPInv

\* The invariant does not read the screen, the guard or the counters.
Others == <<tree, author, turns, active, cp, refs, op, job, main, undone>>

LEMMA FrameKeeps ==
  ASSUME CPInv, UNCHANGED Others, CPTypeOK'
  PROVE  CPInv'
<1>1. UNCHANGED <<tree, author, turns, active, cp, refs, op, job, main, undone>>
  BY DEF Others
<1>2. ControlInv'
  BY <1>1 DEF CPInv, ControlInv, TurnJobs, RevertJobs, CommandInv, JobsInv, Asked, Applied, Broke
<1>3. StatusInv'
  BY <1>1 DEF CPInv, StatusInv, Open, Fresh, Exists
<1>4. RefInv' /\ JournalInv'
  BY <1>1 DEF CPInv, RefInv, RefsKept, JournalInv, JournalTells, Whole, Asked, Applied,
                          Broke, Exists
<1>5. PastInv' /\ SafetyInv'
  BY <1>1 DEF CPInv, PastInv, Written, SafetyInv, SafetyHolds, Asked, Changed, Exists
<1> QED
  BY <1>2, <1>3, <1>4, <1>5 DEF CPInv

LEMMA PreviewKeeps ==
  ASSUME CPInv, NEW i \in Id, Preview(i)
  PROVE  CPInv'
<1>1. UNCHANGED Others /\ UNCHANGED <<guard, up, faults, starts>>
  BY DEF Preview, Others
<1>2. CPTypeOK'
  BY <1>1 DEF CPInv, CPTypeOK, Preview, Others
<1> QED
  BY <1>1, <1>2, FrameKeeps

------------------------------------------------------------------------------
(* The revert.                                                             *)

LEMMA ApplyKeeps ==
  ASSUME CheckpointsAssumption, CPInv, NEW r \in Revert, Apply(r)
  PROVE  CPInv'
<1> DEFINE i == shown.cp
<1>1. /\ CPTypeOK /\ r \in Id /\ r \notin Turn /\ i \in Id /\ cp[i] \in Record
      /\ Exists(i) /\ cp[i].status = "ready" /\ main.pc = "idle"
      /\ op[<<r, "revert">>] = "none"
  BY Apart DEF Apply, CPInv, CPTypeOK, MainAt, Exists
<1>2. /\ main' \in Command /\ main'.pc = "safety" /\ main'.cp = i /\ main'.id = r
      /\ main'.rec = cp[i] /\ main'.gone = {}
  BY <1>1 DEF Apply, Ready, Command
<1>3. /\ Only(r) /\ job'[r].pc = "begin" /\ job'[r].phase = "before" /\ job'[r].ok
      /\ UNCHANGED <<tree, author, turns, active, cp, refs, guard>>
      /\ UNCHANGED <<shown, undone, up, faults, starts>>
  BY <1>1, CaptureIs DEF Apply, Phase
<1>4. /\ op' \in [OpKey -> OpState] /\ op'[<<r, "revert">>] = "pending"
      /\ \A s \in Revert : s # r => op'[<<s, "revert">>] = op[<<s, "revert">>]
  BY <1>1, KeysApart DEF Apply, Begun, CPTypeOK, OpState, OpKey
<1>5. CPTypeOK'
  BY <1>1, <1>2, <1>3, <1>4 DEF CPTypeOK, Only
<1>6. main.id = Nothing /\ \A s \in Revert : job[s].pc = "idle"
  BY <1>1, Apart DEF CPInv, ControlInv, RevertJobs, CommandInv, JobsInv, Asked, Applied, Broke
<1>7. ControlInv'
  <2>1. TurnJobs'
    BY <1>1, <1>3, Apart DEF CPInv, CPTypeOK, ControlInv, TurnJobs, Only
  <2>2. RevertJobs'
    BY <1>2, <1>3, <1>6, Apart DEF RevertJobs, Only
  <2>3. CommandInv'
    BY <1>1, <1>2 DEF CommandInv, Asked, Applied, Broke
  <2>4. JobsInv'
    BY <1>1, <1>3 DEF CPInv, ControlInv, JobsInv, Only
  <2> QED
    BY <2>1, <2>2, <2>3, <2>4 DEF ControlInv
<1>8. StatusInv'
  <2>1. \A k \in Id : (Open(k)' => Open(k)) /\ (Fresh(k)' => Fresh(k))
    BY <1>1, <1>2, <1>3, <1>4 DEF Open, Fresh, Only
  <2>2. ~Open(i)
    BY <1>1 DEF CPInv, StatusInv
  <2> QED
    BY <1>1, <1>2, <1>3, <2>1, <2>2 DEF CPInv, StatusInv, Exists
<1>9. RefInv'
  <2>1. <<i, "before">> \in refs /\ <<i, "after">> \in refs
    BY <1>1 DEF CPInv, RefInv, RefsKept
  <2>2. {i} \X Phase \subseteq refs
    BY <2>1 DEF Phase
  <2> HIDE DEF i
  <2> QED
    BY <1>2, <1>3, <2>2 DEF CPInv, RefInv, RefsKept, Only, Exists
<1>10. JournalInv'
  BY <1>1, <1>2, <1>3, <1>4 DEF CPInv, JournalInv, JournalTells, Whole, Asked, Applied,
                          Broke, Exists
<1>11. PastInv'
  BY <1>1, <1>2, <1>3 DEF CPInv, PastInv, Written, Only, Exists, Asked
<1>12. SafetyInv'
  <2>1. ~Exists(r)
    BY <1>1 DEF CPInv, StatusInv, Fresh
  <2> QED
    BY <1>2, <1>3, <2>1 DEF CPInv, SafetyInv, SafetyHolds, Exists, Asked
<1> QED
  BY <1>5, <1>7, <1>8, <1>9, <1>10, <1>11, <1>12 DEF CPInv

LEMMA SafetyReturnsKeeps ==
  ASSUME CheckpointsAssumption, CPInv, SafetyReturns
  PROVE  CPInv'
<1> DEFINE r == main.id
<1>1. /\ CPTypeOK /\ main.pc = "safety" /\ r \in Revert /\ r \in Id /\ r \notin Turn
      /\ job[r].pc = "out" /\ job[r].phase = "before"
  BY Apart DEF SafetyReturns, MainAt, Returned, At, CPInv, ControlInv, CommandInv, Asked
<1>2. /\ main' \in Command /\ main'.gone = {}
      /\ \/ main'.pc = "apply" /\ main'.cp = main.cp /\ main'.id = r /\ main'.rec = main.rec
         \/ main'.pc = "idle" /\ main'.cp = Nothing /\ main'.id = Nothing
  BY <1>1, MainToIs, ReadyIs DEF SafetyReturns, CPInv, ControlInv, CommandInv
<1>3. /\ Only(r) /\ job'[r].pc = "idle" /\ job'[r].phase = "before"
      /\ UNCHANGED <<tree, author, turns, active, cp, refs, op, guard>>
      /\ UNCHANGED <<shown, undone, up, faults, starts>>
  BY <1>1, DoneIs DEF SafetyReturns
<1>4. CPTypeOK'
  BY <1>1, <1>2, <1>3 DEF CPTypeOK, Only
<1>5. ControlInv'
  <2>1. TurnJobs'
    <3>1. Turn \subseteq Id /\ active \subseteq Turn /\ \A t \in Turn : job'[t] = job[t]
      BY <1>1, <1>3, Apart DEF CPTypeOK, Only
    <3> QED
      BY <1>3, <3>1 DEF CPInv, ControlInv, TurnJobs
  <2>2. RevertJobs'
    BY <1>1, <1>3, Apart DEF CPInv, ControlInv, RevertJobs, Only
  <2>3. CommandInv'
    BY <1>1, <1>2 DEF CPInv, ControlInv, CommandInv, Asked, Applied, Broke
  <2>4. JobsInv'
    BY <1>1, <1>3 DEF CPInv, ControlInv, JobsInv, Only
  <2> QED
    BY <2>1, <2>2, <2>3, <2>4 DEF ControlInv
<1>6. StatusInv'
  <2>1. \A k \in Id : (Open(k)' => Open(k)) /\ (Fresh(k)' => Fresh(k))
    BY <1>1, <1>2, <1>3, Apart DEF Open, Fresh, Only
  <2> QED
    BY <1>2, <1>3, <2>1, Apart DEF CPInv, StatusInv, Exists
<1>7. RefInv'
  BY <1>1, <1>2, <1>3 DEF CPInv, RefInv, RefsKept, Only, Exists
<1>8. JournalInv'
  BY <1>1, <1>2, <1>3 DEF CPInv, JournalInv, JournalTells, Whole, Asked, Applied,
                          Broke, Exists
<1>9. PastInv'
  BY <1>1, <1>2, <1>3 DEF CPInv, PastInv, Written, Only, Exists, Asked
<1>10. SafetyInv'
  BY <1>1, <1>2, <1>3 DEF CPInv, SafetyInv, SafetyHolds, Exists, Asked, Changed, Only
<1> QED
  BY <1>4, <1>5, <1>6, <1>7, <1>8, <1>9, <1>10 DEF CPInv

\* What git overwrites: files of the patch, as they were when the turn ended.
LEMMA OverwritesIs ==
  ASSUME CheckpointsAssumption, CPInv, main.pc = "apply", Clean(main.rec),
         NEW taken \in SUBSET Changed(main.rec), NEW lost \in SUBSET Changed(main.rec),
         Overwrites(taken, lost)
  PROVE  /\ main.id \in Revert /\ main.cp \in Id /\ main.rec \in Record
         /\ undone[main.id] = Nothing
         /\ op[<<main.id, "revert">>] \in {"pending", "uncertain"}
         /\ tree' \in Written /\ tree' \in Tree
         /\ undone' \in [Revert -> Overwrite \cup {Nothing}]
         /\ \A s \in Revert : s # main.id => undone'[s] = undone[s]
         /\ undone'[main.id] # Nothing /\ undone'[main.id].cp = main.cp
         /\ undone'[main.id].rest = Changed(main.rec) \ taken
         /\ ~Exists(main.id) \/ \A p \in undone'[main.id].paths :
              cp[main.id].before[p] = undone'[main.id].tree[p]
<1> DEFINE r == main.id
           gone == [cp |-> main.cp, tree |-> tree, paths |-> taken \cup lost,
                    rest |-> Changed(main.rec) \ taken]
<1>1. /\ CPTypeOK /\ Asked /\ r \in Revert /\ main.cp \in Id /\ main.rec \in Record
      /\ undone[r] = Nothing /\ op[<<r, "revert">>] \in {"pending", "uncertain"}
  BY DEF CPInv, ControlInv, CommandInv, JournalInv, Asked
<1>2. tree' \in Written
  <2>1. 0 \in 0 .. Len(author)
    BY <1>1 DEF CPTypeOK
  <2> QED
    BY <1>1, <2>1 DEF Overwrites, CPInv, PastInv, Written
<1>3. tree' \in Tree
  <2>1. Len(author) \in Nat /\ Len(author) <= MaxEdits /\ MaxEdits \in Nat
    BY <1>1 DEF CPTypeOK, CheckpointsAssumption
  <2> QED
    BY <1>2, <2>1 DEF Written, Tree
<1>4. gone \in Overwrite /\ gone # Nothing /\ undone' = [undone EXCEPT ![r] = gone]
  <2>1. gone \in Overwrite
    BY <1>1 DEF Overwrite, CPTypeOK, Changed
  <2> QED
    BY <2>1, Apart DEF Overwrites
<1>5. /\ undone' \in [Revert -> Overwrite \cup {Nothing}] /\ undone'[r] = gone
      /\ \A s \in Revert : s # r => undone'[s] = undone[s]
  BY <1>1, <1>4 DEF CPTypeOK
<1>6. ~Exists(r) \/ \A p \in gone.paths : cp[r].before[p] = gone.tree[p]
  BY <1>1 DEF Clean, CPInv, SafetyInv
<1> QED
  BY <1>1, <1>2, <1>3, <1>4, <1>5, <1>6

LEMMA ApplyPatchKeeps ==
  ASSUME CheckpointsAssumption, CPInv, ApplyPatch
  PROVE  CPInv'
<1> DEFINE r == main.id
<1>1. /\ CPTypeOK /\ main.pc = "apply" /\ r \in Revert /\ r \in Id /\ r \notin Turn
      /\ main.cp \in Id /\ main.rec \in Record
  BY Apart DEF ApplyPatch, MainAt, CPInv, ControlInv, CommandInv, Asked
<1>2. /\ main' \in Command /\ main'.pc = "after" /\ main'.cp = main.cp /\ main'.id = r
      /\ main'.rec = main.rec /\ main'.gone = main.gone
  BY <1>1, MainToIs DEF ApplyPatch
<1>3. /\ Only(r) /\ job'[r].pc = "begin" /\ job'[r].phase = "after" /\ job'[r].ok
      /\ UNCHANGED <<author, turns, active, cp, refs, op, guard>>
      /\ UNCHANGED <<shown, up, faults, starts>>
  BY <1>1, CaptureIs DEF ApplyPatch, Phase
<1>4. /\ undone[r] = Nothing /\ op[<<r, "revert">>] \in {"pending", "uncertain"}
      /\ tree' \in Written /\ tree' \in Tree
      /\ undone' \in [Revert -> Overwrite \cup {Nothing}]
      /\ \A s \in Revert : s # r => undone'[s] = undone[s]
      /\ undone'[r] # Nothing /\ undone'[r].cp = main.cp /\ undone'[r].rest = {}
      /\ ~Exists(r) \/ \A p \in undone'[r].paths :
           cp[r].before[p] = undone'[r].tree[p]
  <2>1. /\ Clean(main.rec) /\ Overwrites(Changed(main.rec), {})
        /\ {} \in SUBSET Changed(main.rec)
    BY DEF ApplyPatch
  <2> QED
    BY <1>1, <2>1, OverwritesIs
<1>8. CPTypeOK'
  BY <1>1, <1>2, <1>3, <1>4 DEF CPTypeOK, Only
<1>9. ControlInv'
  <2>1. TurnJobs'
    BY <1>1, <1>3, Apart DEF CPInv, CPTypeOK, ControlInv, TurnJobs, Only
  <2>2. RevertJobs'
    BY <1>1, <1>2, <1>3, Apart DEF CPInv, ControlInv, RevertJobs, Only
  <2>3. CommandInv'
    BY <1>1, <1>2 DEF CPInv, ControlInv, CommandInv, Asked, Applied, Broke
  <2>4. JobsInv'
    BY <1>1, <1>3 DEF CPInv, ControlInv, JobsInv, Only
  <2> QED
    BY <2>1, <2>2, <2>3, <2>4 DEF ControlInv
<1>10. StatusInv'
  <2>1. \A k \in Id : (Open(k)' => Open(k)) /\ (Fresh(k)' => Fresh(k))
    BY <1>1, <1>2, <1>3 DEF Open, Fresh, Only
  <2> QED
    BY <1>2, <1>3, <2>1 DEF CPInv, StatusInv, Exists
<1>11. RefInv'
  BY <1>1, <1>2, <1>3 DEF CPInv, RefInv, RefsKept, Only, Exists
<1>12. JournalInv'
  <2>1. JournalTells'
    BY <1>3, <1>4 DEF CPInv, JournalInv, JournalTells, Whole, Exists
  <2> QED
    BY <1>1, <1>2, <1>3, <1>4, <2>1 DEF CPInv, JournalInv, Whole, Asked, Applied, Broke
<1>13. PastInv'
  BY <1>2, <1>3, <1>4 DEF CPInv, PastInv, Written, Only, Exists, Asked
<1>14. SafetyInv'
  BY <1>2, <1>3, <1>4 DEF CPInv, SafetyInv, SafetyHolds, Exists, Asked
<1> QED
  BY <1>8, <1>9, <1>10, <1>11, <1>12, <1>13, <1>14 DEF CPInv

\* git refuses the patch, or breaks off in it.
LEMMA PatchFailedKeeps ==
  ASSUME CheckpointsAssumption, CPInv, PatchRefused \/ PatchBreaks
  PROVE  CPInv'
<1> DEFINE r == main.id
<1>1. /\ CPTypeOK /\ main.pc = "apply" /\ r \in Revert /\ r \in Id
      /\ main.cp \in Id /\ undone[r] = Nothing
      /\ op[<<r, "revert">>] \in {"pending", "uncertain"}
      /\ \A s \in Revert : job[s].pc = "idle"
  BY Apart DEF PatchRefused, PatchBreaks, MainAt, CPInv, ControlInv, CommandInv, RevertJobs,
               JournalInv, Asked
<1>2. /\ main' \in Command /\ main'.pc = "failed" /\ main'.cp = main.cp /\ main'.id = r
      /\ main'.rec = main.rec /\ main'.gone = main.gone
  BY <1>1, MainToIs DEF PatchRefused, PatchBreaks
<1>3. /\ UNCHANGED <<author, turns, active, cp, refs, op, job, guard>>
      /\ UNCHANGED <<shown, up, starts>>
  BY DEF PatchRefused, PatchBreaks
<1>4. faults' \in 0 .. MaxFaults
  BY <1>1 DEF PatchRefused, PatchBreaks, NoFault, Fault, CPTypeOK, CheckpointsAssumption
<1>5. /\ tree' \in Written /\ tree' \in Tree
      /\ undone' \in [Revert -> Overwrite \cup {Nothing}]
      /\ \A s \in Revert : s # r => undone'[s] = undone[s]
      /\ undone'[r] = Nothing \/ undone'[r].rest # {}
      /\ undone'[r] # Nothing /\ Exists(r) => \A p \in undone'[r].paths :
           cp[r].before[p] = undone'[r].tree[p]
  <2>1. CASE UNCHANGED <<tree, undone>>
    BY <1>1, <2>1 DEF CPTypeOK, CPInv, PastInv, Written
  <2>2. CASE PatchBreaks
    <3>1. PICK taken \in SUBSET Changed(main.rec), lost \in SUBSET Changed(main.rec) :
            taken # Changed(main.rec) /\ Overwrites(taken, lost)
      BY <2>2 DEF PatchBreaks
    <3>2. Clean(main.rec) /\ Changed(main.rec) \ taken # {}
      BY <2>2, <3>1 DEF PatchBreaks
    <3> QED
      BY <1>1, <3>1, <3>2, OverwritesIs
  <2> QED
    BY <2>1, <2>2 DEF PatchRefused
<1>6. CPTypeOK'
  BY <1>1, <1>2, <1>3, <1>4, <1>5 DEF CPTypeOK
<1>7. ControlInv'
  BY <1>1, <1>2, <1>3 DEF CPInv, ControlInv, TurnJobs, RevertJobs, CommandInv, JobsInv,
                          Asked, Applied, Broke
<1>8. StatusInv'
  <2>1. \A k \in Id : (Open(k)' => Open(k)) /\ (Fresh(k)' => Fresh(k))
    BY <1>1, <1>2, <1>3 DEF Open, Fresh
  <2> QED
    BY <1>2, <1>3, <2>1 DEF CPInv, StatusInv, Exists
<1>9. RefInv'
  BY <1>2, <1>3 DEF CPInv, RefInv, RefsKept, Exists
<1>10. JournalInv'
  <2>1. JournalTells'
    <3>1. ~Whole(r) /\ ~Whole(r)' /\ \A s \in Revert : s # r => (Whole(s)' <=> Whole(s))
      BY <1>1, <1>2, <1>5 DEF Whole
    <3>2. \A s \in Revert : Whole(s) => undone'[s] = undone[s]
      BY <1>5, <3>1
    <3> QED
      BY <1>1, <1>3, <3>1, <3>2 DEF CPInv, JournalInv, JournalTells, Exists
  <2> QED
    BY <1>1, <1>2, <1>3, <1>5, <2>1 DEF CPInv, JournalInv, Whole, Asked, Applied, Broke
<1>11. PastInv'
  BY <1>2, <1>3, <1>5 DEF CPInv, PastInv, Written, Exists, Asked
<1>12. SafetyInv'
  BY <1>2, <1>3, <1>5 DEF CPInv, SafetyInv, SafetyHolds, Exists, Asked
<1> QED
  BY <1>6, <1>7, <1>8, <1>9, <1>10, <1>11, <1>12 DEF CPInv

LEMMA PatchFailsKeeps ==
  ASSUME CheckpointsAssumption, CPInv, PatchFails
  PROVE  CPInv'
<1>1. /\ CPTypeOK /\ main.pc = "apply" /\ \A s \in Revert : job[s].pc = "idle"
      /\ op[<<main.id, "revert">>] # "none"
  BY Apart DEF PatchFails, MainAt, CPInv, ControlInv, RevertJobs, JournalInv, Asked
<1>2. /\ main' \in Command /\ main'.pc = "idle"
      /\ main'.cp = Nothing /\ main'.id = Nothing /\ main'.gone = {}
  BY ReadyIs DEF PatchFails
<1>3. /\ UNCHANGED <<tree, author, turns, active, cp, refs, op, job, guard>>
      /\ UNCHANGED <<shown, undone, up, starts>>
  BY DEF PatchFails
<1>4. faults' \in 0 .. MaxFaults
  BY <1>1 DEF PatchFails, Fault, CPTypeOK, CheckpointsAssumption
<1>5. CPTypeOK'
  BY <1>1, <1>2, <1>3, <1>4 DEF CPTypeOK
<1>6. ControlInv'
  BY <1>1, <1>2, <1>3 DEF CPInv, ControlInv, TurnJobs, RevertJobs, CommandInv, JobsInv,
                          Asked, Applied, Broke
<1>7. StatusInv'
  <2>1. \A k \in Id : (Open(k)' => Open(k)) /\ (Fresh(k)' => Fresh(k))
    BY <1>1, <1>2, <1>3 DEF Open, Fresh
  <2> QED
    BY <1>2, <1>3, <2>1, Apart DEF CPInv, StatusInv, Exists
<1>8. RefInv' /\ JournalInv'
  BY <1>2, <1>3 DEF CPInv, RefInv, RefsKept, JournalInv, JournalTells, Whole, Asked, Applied,
                    Broke, Exists
<1>9. PastInv' /\ SafetyInv'
  BY <1>2, <1>3 DEF CPInv, PastInv, Written, SafetyInv, SafetyHolds, Exists, Asked
<1> QED
  BY <1>5, <1>6, <1>7, <1>8, <1>9 DEF CPInv

LEMMA SafetyEndsKeeps ==
  ASSUME CheckpointsAssumption, CPInv, SafetyEnds
  PROVE  CPInv'
<1> DEFINE r == main.id
<1>1. /\ CPTypeOK /\ main.pc = "after" /\ r \in Revert /\ r \in Id /\ r \notin Turn
      /\ job[r].pc = "out" /\ job[r].phase = "after"
  BY Apart DEF SafetyEnds, MainAt, Returned, At, CPInv, ControlInv, CommandInv, Applied, Broke
<1>2. /\ main' \in Command /\ main'.pc \in {"mark", "doubt"} /\ main'.cp = main.cp
      /\ main'.id = r /\ main'.rec = main.rec /\ main'.gone = main.gone
  BY <1>1, MainToIs DEF SafetyEnds
<1>3. /\ Only(r) /\ job'[r].pc = "idle" /\ job'[r].phase = "before"
      /\ UNCHANGED <<tree, author, turns, active, cp, refs, op, guard>>
      /\ UNCHANGED <<shown, undone, up, faults, starts>>
  BY <1>1, DoneIs DEF SafetyEnds
<1>4. CPTypeOK'
  BY <1>1, <1>2, <1>3 DEF CPTypeOK, Only
<1>5. ControlInv'
  <2>1. TurnJobs'
    <3>1. Turn \subseteq Id /\ active \subseteq Turn /\ \A t \in Turn : job'[t] = job[t]
      BY <1>1, <1>3, Apart DEF CPTypeOK, Only
    <3> QED
      BY <1>3, <3>1 DEF CPInv, ControlInv, TurnJobs
  <2>2. RevertJobs'
    BY <1>1, <1>3, Apart DEF CPInv, ControlInv, RevertJobs, Only
  <2>3. CommandInv'
    BY <1>1, <1>2 DEF CPInv, ControlInv, CommandInv, Asked, Applied, Broke
  <2>4. JobsInv'
    BY <1>1, <1>3 DEF CPInv, ControlInv, JobsInv, Only
  <2> QED
    BY <2>1, <2>2, <2>3, <2>4 DEF ControlInv
<1>6. StatusInv'
  <2>1. \A k \in Id : (Open(k)' => Open(k)) /\ (Fresh(k)' => Fresh(k))
    BY <1>1, <1>2, <1>3 DEF Open, Fresh, Only
  <2> QED
    BY <1>2, <1>3, <2>1 DEF CPInv, StatusInv, Exists
<1>7. RefInv'
  BY <1>1, <1>2, <1>3 DEF CPInv, RefInv, RefsKept, Only, Exists
<1>8. JournalInv'
  BY <1>1, <1>2, <1>3 DEF CPInv, JournalInv, JournalTells, Whole, Asked, Applied,
                          Broke, Exists
<1>9. PastInv'
  BY <1>1, <1>2, <1>3 DEF CPInv, PastInv, Written, Only, Exists, Asked
<1>10. SafetyInv'
  BY <1>2, <1>3 DEF CPInv, SafetyInv, SafetyHolds, Exists, Asked
<1> QED
  BY <1>4, <1>5, <1>6, <1>7, <1>8, <1>9, <1>10 DEF CPInv

LEMMA MarkKeeps ==
  ASSUME CheckpointsAssumption, CPInv, MarkReverted
  PROVE  CPInv'
<1>0. PICK i \in Id : i = main.cp
  BY DEF MarkReverted, MainAt, CPInv, ControlInv, CommandInv, Applied, Broke
<1>1. /\ CPTypeOK /\ main.pc = "mark" /\ main.id \in Revert
      /\ Whole(main.id) /\ undone[main.id].cp = i
      /\ <<i, "before">> \in refs /\ <<i, "after">> \in refs /\ ~Open(i)
  BY <1>0, Apart DEF MarkReverted, MainAt, CPInv, ControlInv, CommandInv, JournalInv,
                     RefInv,
               StatusInv, Applied, Broke, Phase
<1>2. /\ main' \in Command /\ main'.pc = "close" /\ main'.cp = i
      /\ main'.id = main.id /\ main'.rec = main.rec /\ main'.gone = main.gone
  BY <1>0, <1>1, MainToIs DEF MarkReverted
<1>3. /\ UNCHANGED <<tree, author, turns, active, refs, op, job, guard>>
      /\ UNCHANGED <<shown, undone, up, starts>>
  BY DEF MarkReverted
<1>4. faults' \in 0 .. MaxFaults
  BY <1>1 DEF MarkReverted, NoFault, Fault, CPTypeOK, CheckpointsAssumption
<1>5. /\ cp' \in [Id -> Record \cup {Nothing}]
      /\ \A k \in Id : k # i => cp'[k] = cp[k]
      /\ Exists(i)' <=> Exists(i)
      /\ \/ cp'[i] = cp[i]
         \/ cp'[i].status = "reverted" /\ cp'[i].before = cp[i].before
  <2>1. cp \in [Id -> Record \cup {Nothing}] /\ Nothing \notin Record
    BY <1>1, Apart DEF CPTypeOK
  <2>2. CASE UNCHANGED cp
    BY <2>1, <2>2 DEF Exists
  <2>3. CASE Exists(i) /\ cp' = [cp EXCEPT ![i].status = "reverted"]
    <3>1. cp[i] \in Record /\ [cp[i] EXCEPT !.status = "reverted"] \in Record
      BY <1>1, <2>1, <2>3 DEF Exists, Record, Status
    <3> QED
      BY <1>1, <2>1, <2>3, <3>1 DEF Exists, Record
  <2> QED
    BY <1>0, <2>2, <2>3 DEF MarkReverted
<1>6. CPTypeOK'
  BY <1>1, <1>2, <1>3, <1>4, <1>5 DEF CPTypeOK
<1>7. ControlInv'
  BY <1>0, <1>1, <1>2, <1>3 DEF CPInv, ControlInv, TurnJobs, RevertJobs, CommandInv,
                                JobsInv, Asked, Applied, Broke
<1>8. StatusInv'
  <2>1. \A k \in Id : (Open(k)' => Open(k)) /\ (Fresh(k)' => Fresh(k))
    BY <1>1, <1>2, <1>3 DEF Open, Fresh
  <2>2. \A k \in Id : Exists(k)' <=> Exists(k)
    BY <1>5 DEF Exists
  <2> QED
    BY <1>0, <1>1, <1>2, <1>3, <1>5, <2>1, <2>2 DEF CPInv, StatusInv
<1>9. RefInv'
  BY <1>0, <1>1, <1>2, <1>3, <1>5 DEF CPInv, RefInv, RefsKept, Exists
<1>10. JournalInv'
  <2>1. JournalTells'
    BY <1>1, <1>3, <1>5 DEF CPInv, JournalInv, JournalTells, Whole, Exists
  <2> QED
    BY <1>0, <1>1, <1>2, <1>3, <2>1, WholeStays DEF CPInv, JournalInv, Asked, Applied, Broke
<1>11. PastInv'
  BY <1>2, <1>3, <1>5 DEF CPInv, PastInv, Written, Exists, Asked
<1>12. SafetyInv'
  BY <1>2, <1>3, <1>5, Apart DEF CPInv, SafetyInv, SafetyHolds, Exists, Asked
<1> QED
  BY <1>6, <1>7, <1>8, <1>9, <1>10, <1>11, <1>12 DEF CPInv

LEMMA RevertEndsKeeps ==
  ASSUME CheckpointsAssumption, CPInv, RevertEnds
  PROVE  CPInv'
<1> DEFINE r == main.id
<1>1. /\ CPTypeOK /\ main.pc \in {"close", "doubt", "failed"} /\ r \in Revert /\ r \in Id
      /\ IF main.pc = "failed" THEN ~Whole(r) ELSE Whole(r)
      /\ op[<<r, "revert">>] # "none"
      /\ \A s \in Revert : job[s].pc = "idle"
  BY Apart DEF RevertEnds, MainAt, CPInv, ControlInv, CommandInv, RevertJobs, JournalInv,
               Applied, Broke
<1>2. /\ main' \in Command /\ main'.pc = "idle"
      /\ main'.cp = Nothing /\ main'.id = Nothing /\ main'.gone = {}
  BY ReadyIs DEF RevertEnds
<1>3. /\ UNCHANGED <<tree, author, turns, active, cp, refs, job, guard>>
      /\ UNCHANGED <<undone, up, starts>> /\ shown' \in {shown, Nothing}
  BY DEF RevertEnds
<1>4. faults' \in 0 .. MaxFaults
  BY <1>1 DEF RevertEnds, NoFault, Fault, CPTypeOK, CheckpointsAssumption
<1>5. /\ op' \in [OpKey -> OpState]
      /\ op'[<<r, "revert">>] \in {Outcome(main.pc), op[<<r, "revert">>]}
      /\ \A s \in Revert : s # r => op'[<<s, "revert">>] = op[<<s, "revert">>]
  <2>1. CASE UNCHANGED op
    BY <1>1, <2>1 DEF CPTypeOK
  <2>2. CASE OpIs(<<r, "revert">>, Outcome(main.pc))
    <3>1. /\ Outcome(main.pc) \in OpState \ {"none"}
          /\ \A s \in Revert : <<s, "revert">> \in OpKey
      BY <1>1 DEF OpState, OpKey, Outcome
    <3> QED
      BY <1>1, <2>2, <3>1, OpIsType
  <2> QED
    BY <2>1, <2>2 DEF RevertEnds
<1>6. CPTypeOK'
  BY <1>1, <1>2, <1>3, <1>4, <1>5 DEF CPTypeOK
<1>7. ControlInv'
  BY <1>1, <1>2, <1>3 DEF CPInv, ControlInv, TurnJobs, RevertJobs, CommandInv, JobsInv,
                          Asked, Applied, Broke
<1>8. StatusInv'
  <2>1. \A k \in Id : (Open(k)' => Open(k)) /\ (Fresh(k)' => Fresh(k))
    <3>1. op'[<<r, "revert">>] # "none"
      BY <1>1, <1>5 DEF Outcome
    <3> QED
      BY <1>1, <1>2, <1>3, <1>5, <3>1 DEF Open, Fresh
  <2> QED
    BY <1>2, <1>3, <2>1, Apart DEF CPInv, StatusInv, Exists
<1>9. RefInv'
  BY <1>2, <1>3 DEF CPInv, RefInv, RefsKept, Exists
<1>10. JournalInv'
  <2>1. /\ \A s \in Revert : Whole(s)' <=> Whole(s)
        /\ op'[<<r, "revert">>] # "none"
        /\ op'[<<r, "revert">>] # op[<<r, "revert">>] =>
             /\ op'[<<r, "revert">>] = "completed" => Whole(r)
             /\ op'[<<r, "revert">>] = "failed" => ~Whole(r)
    BY <1>1, <1>3, <1>5, WholeStays DEF Outcome
  <2>2. JournalTells'
    BY <1>3, <1>5, <2>1 DEF CPInv, JournalInv, JournalTells, Exists
  <2> QED
    BY <1>1, <1>2, <1>3, <1>5, <2>1, <2>2 DEF CPInv, JournalInv, Asked, Applied, Broke
<1>11. PastInv' /\ SafetyInv'
  BY <1>2, <1>3 DEF CPInv, PastInv, Written, SafetyInv, SafetyHolds, Exists, Asked
<1> QED
  BY <1>6, <1>7, <1>8, <1>9, <1>10, <1>11 DEF CPInv

------------------------------------------------------------------------------
(* The collection of old checkpoints.                                      *)

LEMMA GcKeeps ==
  ASSUME CheckpointsAssumption, CPInv, NEW gone \in SUBSET Collectable, Gc(gone)
  PROVE  CPInv'
<1>1. /\ CPTypeOK /\ main.pc = "idle" /\ main.id = Nothing
      /\ gone \subseteq Id
      /\ \A i \in gone : Exists(i) /\ cp[i].status \in {"ready", "reverted"} /\ ~Open(i)
  BY Apart DEF Gc, MainAt, CPInv, ControlInv, CommandInv, StatusInv, Collectable, Asked,
               Applied, Broke
<1>2. /\ main' \in Command /\ main'.pc = "refs" /\ main'.gone = gone
      /\ main'.cp = Nothing /\ main'.id = Nothing
  BY <1>1 DEF Gc, Ready, Command
<1>3. /\ UNCHANGED <<tree, author, turns, active, refs, op, job, guard>>
      /\ UNCHANGED <<shown, undone, up, faults, starts>>
  BY DEF Gc
<1>4. /\ cp' \in [Id -> Record \cup {Nothing}]
      /\ \A k \in Id : /\ Exists(k)' <=> (Exists(k) /\ k \notin gone)
                       /\ Exists(k)' => cp'[k] = cp[k]
  BY <1>1 DEF Gc, CPTypeOK, Exists
<1>5. CPTypeOK'
  BY <1>1, <1>2, <1>3, <1>4 DEF CPTypeOK
<1>6. ControlInv'
  BY <1>1, <1>2, <1>3 DEF CPInv, ControlInv, TurnJobs, RevertJobs, CommandInv, JobsInv,
                          Asked, Applied, Broke
<1>7. StatusInv'
  <2>1. \A k \in Id : (Open(k)' => Open(k)) /\ (Fresh(k)' => Fresh(k))
    BY <1>1, <1>2, <1>3 DEF Open, Fresh
  <2> QED
    BY <1>1, <1>2, <1>4, <2>1, Apart DEF CPInv, StatusInv
<1>8. RefInv'
  BY <1>2, <1>3, <1>4 DEF CPInv, RefInv, RefsKept
<1>9. JournalInv'
  BY <1>2, <1>3, <1>4 DEF CPInv, JournalInv, JournalTells, Whole, Asked, Applied, Broke
<1>10. PastInv'
  BY <1>2, <1>3, <1>4 DEF CPInv, PastInv, Written, Asked
<1>11. SafetyInv'
  BY <1>2, <1>3, <1>4, Apart DEF CPInv, SafetyInv, SafetyHolds, Asked
<1> QED
  BY <1>5, <1>6, <1>7, <1>8, <1>9, <1>10, <1>11 DEF CPInv

LEMMA GcRefsKeeps ==
  ASSUME CheckpointsAssumption, CPInv, GcRefs
  PROVE  CPInv'
<1>1. /\ CPTypeOK /\ main.pc = "refs"
      /\ \A i \in Id : i \in main.gone => ~Exists(i) /\ ~Open(i)
      /\ \A s \in Revert : job[s].pc = "idle"
  BY DEF GcRefs, MainAt, CPInv, ControlInv, RevertJobs, StatusInv
<1>2. /\ main' \in Command /\ main'.pc = "idle"
      /\ main'.cp = Nothing /\ main'.id = Nothing /\ main'.gone = {}
  BY ReadyIs DEF GcRefs
<1>3. /\ UNCHANGED <<tree, author, turns, active, cp, op, job, guard>>
      /\ UNCHANGED <<shown, undone, up, faults, starts>>
  BY DEF GcRefs
<1>4. /\ refs' \subseteq refs
      /\ \A i \in Id, phase \in Phase :
           i \notin main.gone /\ <<i, phase>> \in refs => <<i, phase>> \in refs'
  BY DEF GcRefs, RefsOf
<1>5. CPTypeOK'
  BY <1>1, <1>2, <1>3, <1>4 DEF CPTypeOK
<1>6. ControlInv'
  BY <1>1, <1>2, <1>3 DEF CPInv, ControlInv, TurnJobs, RevertJobs, CommandInv, JobsInv,
                          Asked, Applied, Broke
<1>7. StatusInv'
  <2>1. \A k \in Id : (Open(k)' => Open(k)) /\ (Fresh(k)' => Fresh(k))
    BY <1>1, <1>2, <1>3 DEF Open, Fresh
  <2> QED
    BY <1>2, <1>3, <2>1, Apart DEF CPInv, StatusInv, Exists
<1>8. RefInv'
  <2>1. RefsKept'
    BY <1>1, <1>3, <1>4 DEF CPInv, RefInv, RefsKept, Exists, Phase
  <2>2. ASSUME NEW i \in Id, job[i].pc = "record"
        PROVE  <<i, job[i].phase>> \in refs'
    <3>1. i \notin main.gone
      BY <1>1, <2>2 DEF Open
    <3>2. job[i].phase \in Phase /\ <<i, job[i].phase>> \in refs
      BY <1>1, <2>2 DEF CPTypeOK, CaptureJob, CPInv, RefInv
    <3> QED
      BY <1>4, <3>1, <3>2
  <2> QED
    BY <1>2, <1>3, <2>1, <2>2 DEF RefInv
<1>9. JournalInv'
  BY <1>2, <1>3 DEF CPInv, JournalInv, JournalTells, Whole, Asked, Applied,
                          Broke, Exists
<1>10. PastInv' /\ SafetyInv'
  BY <1>2, <1>3 DEF CPInv, PastInv, Written, SafetyInv, SafetyHolds, Exists, Asked
<1> QED
  BY <1>5, <1>6, <1>7, <1>8, <1>9, <1>10 DEF CPInv

------------------------------------------------------------------------------
(* The process ends and starts.                                            *)

LEMMA CrashKeeps ==
  ASSUME CheckpointsAssumption, CPInv, Crash
  PROVE  CPInv'
<1>1. CPTypeOK /\ Turn \subseteq Id /\ Revert \subseteq Id
  BY Apart DEF CPInv
<1>2. /\ main' \in Command /\ main'.pc = "idle"
      /\ main'.cp = Nothing /\ main'.id = Nothing /\ main'.gone = {}
  BY ReadyIs DEF Crash
<1>3. /\ job' \in [Id -> CaptureJob] /\ \A i \in Id : job'[i].pc = "idle"
      /\ active' = {} /\ guard' = Nothing /\ shown' = Nothing /\ up' = FALSE
      /\ UNCHANGED <<tree, author, cp, refs, op, undone, faults>>
  BY DEF Crash, NoJob, CaptureJob, Phase
<1>4. /\ turns' \in [Turn -> {"new", "capturing", "prepared", "running", "over"}]
      /\ \A t \in Turn : turns'[t] = "new" => turns[t] = "new"
  BY DEF Crash
<1>5. starts' \in 0 .. MaxStarts
  BY <1>1 DEF Crash, CPTypeOK, CheckpointsAssumption
<1>6. CPTypeOK'
  BY <1>1, <1>2, <1>3, <1>4, <1>5 DEF CPTypeOK
<1>7. ControlInv'
  BY <1>1, <1>2, <1>3 DEF ControlInv, TurnJobs, RevertJobs, CommandInv, JobsInv, Asked,
                          Applied, Broke
<1>8. StatusInv'
  <2>1. \A k \in Id : (Open(k)' => Open(k)) /\ (Fresh(k)' => Fresh(k))
    BY <1>1, <1>2, <1>3, <1>4 DEF Open, Fresh
  <2> QED
    BY <1>2, <1>3, <2>1, Apart DEF CPInv, StatusInv, Exists
<1>9. RefInv'
  BY <1>2, <1>3 DEF CPInv, RefInv, RefsKept, Exists
<1>10. JournalInv'
  BY <1>2, <1>3 DEF CPInv, JournalInv, JournalTells, Whole, Asked, Applied,
                          Broke, Exists
<1>11. PastInv' /\ SafetyInv'
  BY <1>2, <1>3 DEF CPInv, PastInv, Written, SafetyInv, SafetyHolds, Exists, Asked
<1> QED
  BY <1>6, <1>7, <1>8, <1>9, <1>10, <1>11 DEF CPInv

LEMMA ReconcileKeeps ==
  ASSUME CheckpointsAssumption, CPInv, Restart \/ SecondLaunch
  PROVE  CPInv'
<1>1. CPTypeOK /\ Relabelled
  BY ReconciledIs DEF CPInv, Restart, SecondLaunch
<1>2. /\ UNCHANGED <<tree, author, turns, active, refs, job, guard>>
      /\ UNCHANGED <<shown, main, undone, faults>> /\ up' \in BOOLEAN
  BY <1>1 DEF Restart, SecondLaunch, CPTypeOK
<1>3. starts' \in 0 .. MaxStarts
  BY <1>1 DEF Restart, SecondLaunch, CPTypeOK, CheckpointsAssumption
<1>4. /\ op' \in [OpKey -> OpState]
      /\ \A k \in OpKey : op'[k] = IF op[k] = "pending" THEN "uncertain" ELSE op[k]
      /\ \A r \in Revert : <<r, "revert">> \in OpKey
  BY <1>1 DEF Restart, SecondLaunch, Reconciled, CPTypeOK, OpState, OpKey
<1>5. CPTypeOK'
  BY <1>1, <1>2, <1>3, <1>4 DEF CPTypeOK, Relabelled
<1>6. ControlInv'
  BY <1>2 DEF CPInv, ControlInv, TurnJobs, RevertJobs, CommandInv, JobsInv, Asked, Applied, Broke
<1>7. StatusInv'
  <2>1. \A k \in Id : (Open(k)' => Open(k)) /\ (Fresh(k)' => Fresh(k))
    BY <1>2, <1>4 DEF Open, Fresh
  <2> QED
    BY <1>1, <1>2, <2>1 DEF CPInv, StatusInv, Relabelled
<1>8. RefInv'
  BY <1>1, <1>2 DEF CPInv, RefInv, RefsKept, Relabelled
<1>9. JournalInv'
  <2>1. JournalTells'
    BY <1>1, <1>2, <1>4, WholeStays DEF CPInv, JournalInv, JournalTells, Relabelled
  <2>2. Asked \/ Applied \/ Broke => main.id \in Revert
    BY DEF CPInv, ControlInv, CommandInv
  <2> QED
    BY <1>2, <1>4, <2>1, <2>2, WholeStays DEF CPInv, JournalInv, Asked, Applied, Broke
<1>10. PastInv'
  BY <1>1, <1>2 DEF CPInv, PastInv, Written, Relabelled, Asked
<1>11. SafetyInv'
  BY <1>1, <1>2, Apart DEF CPInv, SafetyInv, SafetyHolds, Relabelled, ControlInv,
                           CommandInv,
                           Asked, Changed
<1> QED
  BY <1>5, <1>6, <1>7, <1>8, <1>9, <1>10, <1>11 DEF CPInv

------------------------------------------------------------------------------
(* The theorems about the checkpoints.                                     *)

LEMMA CPInvInit ==
  ASSUME CheckpointsAssumption, CPInit
  PROVE  CPInv
<1>1. /\ main \in Command /\ main.pc = "idle"
      /\ main.cp = Nothing /\ main.id = Nothing /\ main.gone = {}
  BY DEF CPInit, Ready, Command
<1>2. /\ job \in [Id -> CaptureJob] /\ \A i \in Id : job[i].pc = "idle"
      /\ Turn \subseteq Id /\ Revert \subseteq Id
  BY Apart DEF CPInit, NoJob, CaptureJob, Phase
<1>3. /\ tree \in Tree /\ tree \in Written /\ author = <<>> /\ Len(author) = 0
      /\ MaxEdits \in Nat /\ MaxFaults \in Nat /\ MaxStarts \in Nat
  BY DEF CPInit, Tree, Written, CheckpointsAssumption
<1>4. /\ \A i \in Id : ~Exists(i)
      /\ \A r \in Revert : op[<<r, "revert">>] = "none" /\ undone[r] = Nothing
  BY DEF CPInit, Exists, OpKey
<1>5. CPTypeOK
  BY <1>1, <1>2, <1>3 DEF CPInit, CPTypeOK, OpState
<1>6. ControlInv
  BY <1>1, <1>2 DEF CPInit, ControlInv, TurnJobs, RevertJobs, CommandInv, JobsInv, Asked,
                    Applied, Broke
<1>7. StatusInv
  BY <1>1, <1>4, Apart DEF StatusInv
<1>8. RefInv /\ JournalInv
  BY <1>1, <1>2, <1>4 DEF RefInv, RefsKept, JournalInv, JournalTells, Whole, Asked, Applied, Broke
<1>9. PastInv /\ SafetyInv
  BY <1>1, <1>2, <1>3, <1>4 DEF PastInv, SafetyInv, SafetyHolds, Asked
<1> QED
  BY <1>5, <1>6, <1>7, <1>8, <1>9 DEF CPInv

LEMMA CPInvNext ==
  ASSUME CheckpointsAssumption, CPInv, [CPNext]_checkpointVars
  PROVE  CPInv'
<1>1. CASE UNCHANGED checkpointVars
  <2>1. UNCHANGED Others /\ CPTypeOK'
    BY <1>1 DEF checkpointVars, Others, CPInv, CPTypeOK
  <2> QED
    BY <2>1, FrameKeeps
<1>2. ASSUME NEW i \in Id, Step(i) PROVE CPInv'
  BY <1>2, BeginsKeeps, TreeKeeps, RecordsKeeps, EndsKeeps DEF Step
<1>3. CASE Main
  BY <1>3, SafetyReturnsKeeps, ApplyPatchKeeps, PatchFailedKeeps, PatchFailsKeeps, SafetyEndsKeeps,
     MarkKeeps, RevertEndsKeeps, GcRefsKeeps DEF Main
<1> QED
  BY <1>1, <1>2, <1>3, ChatKeeps, EditKeeps, PreviewKeeps, ApplyKeeps, GcKeeps, CrashKeeps,
     ReconcileKeeps DEF CPNext

LEMMA CPInvAlways ==
  ASSUME CheckpointsAssumption
  PROVE  CPSpec => []CPInv
BY CPInvInit, CPInvNext, PTL DEF CPSpec

\* Every variable of the checkpoints has its type, whatever the files, turns,
\* reverts and bounds.
THEOREM CheckpointTypes == CPSpec => []CPTypeOK
BY CheckpointsAssumption, CPInvAlways, PTL DEF CPInv

\* checkpoints.rs never loses a snapshot that a listed checkpoint needs: captures,
\* collections, reverts, failed steps and ends of the process in any order leave
\* its refs.
THEOREM RefsAreKept == CPSpec => []RefsKept
BY CheckpointsAssumption, CPInvAlways, PTL DEF CPInv, RefInv

\* operations.json says completed only of a revert that took every file of its patch
\* back, failed only of one that left some file; a checkpoint is marked reverted only
\* when a revert took it back as a whole, wherever git breaks off and wherever the
\* process ends.
THEOREM TheJournalTells == CPSpec => []JournalTells
BY CheckpointsAssumption, CPInvAlways, PTL DEF CPInv, JournalInv

\* What a revert overwrote is in its safety checkpoint, for as long as that is
\* listed, whoever wrote to the tree between the preview and the patch, when every
\* write is a content of its own.
THEOREM SafetyIsHeld == CPSpec => []SafetyHolds
BY CheckpointsAssumption, CPInvAlways, PTL DEF CPInv, SafetyInv

------------------------------------------------------------------------------
(* What is recorded stays.                                                 *)

Settled(i) == Exists(i) /\ cp[i].status \in {"ready", "reverted"}

StaysSettled(i) ==
  Settled(i) /\ Exists(i)' =>
    /\ Settled(i)'
    /\ cp'[i].before = cp[i].before /\ cp'[i].after = cp[i].after

LEMMA OpenIsUnsettled ==
  ASSUME CPInv, NEW i \in Id, Open(i)
  PROVE  ~Settled(i)
BY DEF CPInv, StatusInv, Settled

\* Only three of its steps write to the records.
LEMMA StepStays ==
  ASSUME CheckpointsAssumption, CPInv, NEW k \in Id, Step(k), NEW i \in Id
  PROVE  StaysSettled(i)
<1>1. /\ cp \in [Id -> Record \cup {Nothing}] /\ Nothing \notin Record
      /\ job[k].phase \in Phase
  BY Apart DEF CPInv, CPTypeOK, CaptureJob
<1>2. CASE UNCHANGED cp
  BY <1>2 DEF StaysSettled, Settled, Exists
<1>3. CASE CaptureRecords(k)
  <2>1. Open(k)
    BY <1>1, <1>3 DEF CaptureRecords, At, Open
  <2>2. i # k => cp'[i] = cp[i]
    BY <1>1, <1>3 DEF CaptureRecords
  <2> QED
    BY <2>1, <2>2, OpenIsUnsettled DEF StaysSettled, Settled, Exists
<1>4. CASE CaptureEnds(k)
  <2>1. Open(k) \/ UNCHANGED cp
    BY <1>4 DEF CaptureEnds, At, Open
  <2>2. i # k => cp'[i] = cp[i]
    BY <1>1, <1>4 DEF CaptureEnds
  <2> QED
    BY <1>2, <2>1, <2>2, OpenIsUnsettled DEF StaysSettled, Settled, Exists
<1> QED
  BY <1>2, <1>3, <1>4 DEF Step, CaptureBegins, CaptureRefused, CaptureTree, CaptureEndsDirty

LEMMA MarkStays ==
  ASSUME CheckpointsAssumption, CPInv, MarkReverted, NEW i \in Id
  PROVE  StaysSettled(i)
<1>1. cp \in [Id -> Record \cup {Nothing}] /\ Nothing \notin Record
  BY Apart DEF CPInv, CPTypeOK
<1>2. CASE i # main.cp \/ UNCHANGED cp
  BY <1>1, <1>2 DEF MarkReverted, StaysSettled, Settled, Exists
<1>3. CASE i = main.cp /\ Exists(i) /\ cp' = [cp EXCEPT ![main.cp].status = "reverted"]
  <2>1. cp[i] \in Record /\ cp'[i] = [cp[i] EXCEPT !.status = "reverted"]
    BY <1>1, <1>3 DEF Exists
  <2> QED
    BY <2>1 DEF StaysSettled, Settled, Record
<1> QED
  BY <1>2, <1>3 DEF MarkReverted

LEMMA ReconcileStays ==
  ASSUME Reconciled, NEW i \in Id
  PROVE  StaysSettled(i)
BY DEF Reconciled, StaysSettled, Settled

LEMMA GcStays ==
  ASSUME NEW gone \in SUBSET Collectable, Gc(gone), NEW i \in Id
  PROVE  StaysSettled(i)
BY DEF Gc, StaysSettled, Settled, Exists

LEMMA NextStays ==
  ASSUME CheckpointsAssumption, CPInv, CPNext, NEW i \in Id
  PROVE  StaysSettled(i)
<1>1. CASE UNCHANGED cp
  BY <1>1 DEF StaysSettled, Settled, Exists
<1>2. CASE Main
  BY <1>1, <1>2, MarkStays DEF Main, SafetyReturns, ApplyPatch, PatchRefused, PatchBreaks,
                              PatchFails, SafetyEnds,
                              RevertEnds, GcRefs
<1>3. ASSUME NEW t \in Turn, Chat(t) PROVE UNCHANGED cp
  BY <1>3 DEF Chat, Send, Prepared, TurnBegins, TurnCloses, TurnDropped, AfterReturns
<1>4. ASSUME NEW p \in Path, Edit(p) PROVE UNCHANGED cp
  BY <1>4 DEF Edit, Write
<1>5. CASE Restart \/ SecondLaunch
  BY <1>5, ReconcileStays DEF Restart, SecondLaunch
<1> QED
  BY <1>1, <1>2, <1>3, <1>4, <1>5, StepStays, GcStays DEF CPNext, Preview, Apply, Crash

\* A checkpoint whose snapshots are recorded keeps them, and its status but for
\* the mark of a revert, until it is collected: no late thread of a capture, no
\* failure and no reconciliation of the stores changes what a revert would take
\* back.
THEOREM SnapshotsAreFinal ==
  CPSpec => [][\A i \in Id : StaysSettled(i)]_checkpointVars
<1>1. ASSUME CPInv, CPNext
      PROVE  \A i \in Id : StaysSettled(i)
  BY <1>1, CheckpointsAssumption, NextStays
<1> QED
  BY <1>1, CheckpointsAssumption, CPInvAlways, PTL DEF CPSpec
==============================================================================
