------------------------------ MODULE Session ------------------------------
(***************************************************************************)
(* One session of the runtime: how user messages reach the task controller *)
(* (runtime.ts wraps the native prompt, steer and followUp), and the       *)
(* Python accelerator (python.ts), whose kernel every accepted message     *)
(* discards.                                                               *)
(*                                                                         *)
(* An action is the code between two awaits.  The engine of pi-repl-py and *)
(* the agent's routing of a prompt are external and modelled from how the  *)
(* source uses them: killSync ends a start or a cell under way, a start    *)
(* and a cell may hang until then.  A failing task journal is the subject  *)
(* of TaskLoop and left out here.                                          *)
(***************************************************************************)
EXTENDS Naturals, Sequences, FiniteSets

CONSTANTS
    MaxMessage,   \* bound: messages and commands given to the session
    MaxKernel,    \* bound: kernels ever made
    MaxEpoch      \* bound: resets up to which stops and the python-reset command
                  \* reset again and new cells begin

ASSUME SessionAssumption ==
    MaxMessage \in Nat /\ MaxKernel \in Nat /\ MaxEpoch \in Nat

Message == 1 .. MaxMessage
Kernel  == 1 .. MaxKernel
NoEngine == 0

VARIABLES
    phase,    \* of the session: "new", "ready", "leaving", "closing", "closed"
    given,    \* messages given to the session so far
    calls,    \* prompt calls under way: [m, ph, user]
    depth,    \* inputDepth
    turn,     \* the prompt whose turn the agent runs, or 0
    log,      \* messages recorded by controller.input, in order
    engine,   \* this.engine
    kernel,   \* state of each engine: "none", "new", "up", "down"
    dying,    \* the engine whose dispose is awaited, or 0
    epoch,    \* this.epoch
    called,   \* this.calls > 0
    busy,     \* this.busy
    cell,     \* the cell under way
    born,     \* history: revision in which a kernel was made
    ran       \* history: kernel of the last cell that began to run, or 0

inputVars  == <<phase, given, calls, depth, turn, log>>
pythonVars == <<engine, kernel, dying, epoch, called, busy, cell, born, ran>>
vars == <<inputVars, pythonVars>>

NoCell == [ph |-> "none"]

Revision == Len(log)
IsRunning(k) == k # NoEngine /\ kernel[k] = "up"

------------------------------------------------------------------------------
(* The Python accelerator.                                                 *)

KillSync(k) == IF k = NoEngine THEN kernel ELSE [kernel EXCEPT ![k] = "down"]

Reset ==
    /\ epoch' = epoch + 1
    /\ kernel' = KillSync(engine)
    /\ engine' = NoEngine

\* Mutant: the notice is given only for a kernel found dead.
LostKernel == engine # NoEngine /\ called

\* execute up to its first await.  A signal may be aborted already.
PriorKernelLost == called

NewCell(ph, eng, notice, aborted) ==
    [ph |-> ph, eng |-> eng, own |-> epoch, prev |-> ran, notice |-> notice,
     aborted |-> aborted, armed |-> FALSE]

CellBegins(aborted) ==
    /\ epoch < MaxEpoch
    /\ turn # 0 /\ ~busy /\ busy' = TRUE
    /\ IF IsRunning(engine)
       THEN /\ cell' = NewCell("start", engine, FALSE, aborted)
            /\ UNCHANGED kernel
       ELSE /\ \E k \in Kernel : kernel[k] = "none"
            /\ kernel' = KillSync(engine)
            /\ cell' = NewCell("import", NoEngine, PriorKernelLost, aborted)
    /\ UNCHANGED <<inputVars, engine, dying, epoch, called, born, ran>>

\* The cell's files cannot be written: busy is set and no cell runs.
CellNotRecorded ==
    /\ epoch < MaxEpoch
    /\ turn # 0 /\ ~busy /\ busy' = TRUE
    /\ UNCHANGED <<inputVars, engine, kernel, dying, epoch, called, cell, born, ran>>

\* The engine module is loaded: a new engine, whoever reset the old one.
Imported ==
    /\ cell.ph = "import"
    /\ \E k \in Kernel :
        /\ kernel[k] = "none" /\ \A j \in Kernel : j < k => kernel[j] # "none"
        /\ engine' = k
        /\ kernel' = [kernel EXCEPT ![k] = "new"]
        /\ born' = [born EXCEPT ![k] = Revision]
        /\ epoch' = epoch + 1
        /\ cell' = [cell EXCEPT !.ph = "start", !.eng = k, !.own = epoch + 1]
    /\ UNCHANGED <<inputVars, dying, called, busy, ran>>

\* start resolves; an aborted cell goes no further.
Started ==
    /\ cell.ph = "start" /\ kernel[cell.eng] \in {"new", "up"}
    /\ ~cell.aborted
    /\ kernel' = [kernel EXCEPT ![cell.eng] = "up"]
    /\ called' = TRUE
    /\ cell' = [cell EXCEPT !.ph = "run"]
    /\ ran' = cell.eng
    /\ UNCHANGED <<inputVars, engine, dying, epoch, busy, born>>

\* bootTimer: a start that hangs is killed.
BootTimeout ==
    /\ cell.ph = "start" /\ kernel[cell.eng] = "new"
    /\ kernel' = KillSync(cell.eng)
    /\ UNCHANGED <<inputVars, engine, dying, epoch, called, busy, cell, born, ran>>

\* Import, start or the cell throws: the accelerator resets itself.
CellThrows ==
    /\ cell # NoCell /\ cell' = NoCell
    /\ busy' = FALSE
    /\ Reset
    /\ UNCHANGED <<inputVars, dying, called, born, ran>>

\* The abort of the turn, the cell deadline and the output quota.
CellAborted ==
    /\ cell # NoCell /\ ~cell.aborted
    /\ cell' = [cell EXCEPT !.aborted = TRUE, !.armed = TRUE]
    /\ UNCHANGED <<inputVars, engine, kernel, dying, epoch, called, busy, born, ran>>

\* Mutant: no hard kill after an abort.
NeverKilled == FALSE /\ UNCHANGED vars

\* hardKill, three seconds after the abort.
HardKill ==
    /\ cell # NoCell /\ cell.armed
    /\ cell' = [cell EXCEPT !.armed = FALSE]
    /\ Reset
    /\ UNCHANGED <<inputVars, dying, called, busy, born, ran>>

\* The mark (reset: true) a result carries when its kernel was discarded.
Marked == cell.own # epoch

\* The cell returns its result, with the notice and the mark.
CellReturns ==
    /\ cell.ph = "run" /\ cell' = NoCell
    /\ busy' = FALSE
    /\ UNCHANGED <<inputVars, engine, kernel, dying, epoch, called, born, ran>>

\* The kernel process dies on its own.
KernelDies(k) ==
    /\ IsRunning(k)
    /\ kernel' = [kernel EXCEPT ![k] = "down"]
    /\ UNCHANGED <<inputVars, engine, dying, epoch, called, busy, cell, born, ran>>

\* resetPython by a stop, a latch or an acceptance, and the python-reset command.
ResetPython ==
    /\ epoch < MaxEpoch
    /\ Reset
    /\ UNCHANGED <<inputVars, dying, called, busy, cell, born, ran>>

------------------------------------------------------------------------------
(* User messages.                                                          *)

\* binding.ready: the loop's handler of session_shutdown clears it.
Open == phase \in {"ready", "leaving"}

Given(m) == /\ m = given + 1 /\ m \in Message
            /\ given' = m

\* Mutant: the kernel outlives the revision.
InputKeepsKernel(m) ==
    /\ log' = Append(log, m)
    /\ UNCHANGED <<engine, kernel, epoch>>

\* controller.input: the message becomes a revision, the kernel goes.
Input(m) ==
    /\ log' = Append(log, m)
    /\ Reset

NoInput == UNCHANGED <<log, engine, kernel, epoch>>

\* session.prompt up to the native prompt.  Text that begins with a slash and
\* the extension's own messages are no input.
Prompt(m, user) ==
    /\ Open /\ Given(m)
    /\ IF user THEN Input(m) ELSE NoInput
    /\ depth' = depth + 1
    /\ calls' = calls \cup {[m |-> m, ph |-> "sent", user |-> user]}
    /\ UNCHANGED <<phase, turn, dying, called, busy, cell, born, ran>>

\* Mutant: one flag for all calls.
DepthFlag == 0

\* What inputDepth is after a prompt returns.
DepthAfter == depth - 1

Returns(c) == calls' = calls \ {c} /\ depth' = DepthAfter

\* The native prompt of an idle agent begins a turn.
TurnBegins(c) ==
    /\ c \in calls /\ c.ph = "sent"
    /\ turn = 0 /\ turn' = c.m
    /\ calls' = (calls \ {c}) \cup {[c EXCEPT !.ph = "turn"]}
    /\ UNCHANGED <<phase, given, depth, log, pythonVars>>

\* The native prompt of a streaming agent goes on through session.steer or
\* session.followUp, after awaits of its own.
Routed(c) ==
    /\ c \in calls /\ c.ph = "sent"
    /\ turn # 0
    /\ calls' = (calls \ {c}) \cup {[c EXCEPT !.ph = "routed"]}
    /\ UNCHANGED <<phase, given, depth, turn, log, pythonVars>>

\* The wrapped steer and followUp, reached from a prompt or called directly.
SteerRouted(c) ==
    /\ c \in calls /\ c.ph = "routed"
    /\ calls' = (calls \ {c}) \cup {[c EXCEPT !.ph = "queued"]}
    /\ IF depth = 0 THEN Input(c.m) ELSE NoInput
    /\ UNCHANGED <<phase, given, depth, turn, dying, called, busy, cell, born, ran>>

SteerDirect(m) ==
    /\ Open /\ Given(m)
    /\ IF depth = 0 THEN Input(m) ELSE NoInput
    /\ UNCHANGED <<phase, calls, depth, turn, dying, called, busy, cell, born, ran>>

\* The native prompt returns or throws.
PromptReturns(c) ==
    /\ c \in calls
    /\ \/ c.ph = "queued"
       \/ c.ph = "sent"
       \/ c.ph = "turn" /\ turn # c.m
    /\ Returns(c)
    /\ UNCHANGED <<phase, given, turn, log, pythonVars>>

\* The agent settles; it waits for a tool call under way.
TurnEnds ==
    /\ turn # 0 /\ cell = NoCell
    /\ turn' = 0
    /\ UNCHANGED <<phase, given, calls, depth, log, pythonVars>>

\* session_start attached the controller.
Attached ==
    /\ phase = "new" /\ phase' = "ready"
    /\ UNCHANGED <<given, calls, depth, turn, log, pythonVars>>

\* dispose of the accelerator up to its await; the engine is killed three
\* seconds later at the latest.
Dispose ==
    /\ dying' = engine /\ engine' = NoEngine
    /\ epoch' = epoch + 1
    /\ UNCHANGED <<given, calls, depth, turn, log, kernel, called, busy, cell, born, ran>>

\* session_shutdown has two handlers, each awaited.  The one of installPython,
\* registered first, disposes of the accelerator while the session still takes
\* messages ...
ShutdownPython == phase = "ready" /\ phase' = "leaving" /\ Dispose

\* ... then the one of the loop: the controller latches ...
Shutdown ==
    /\ phase = "leaving" /\ dying = NoEngine /\ phase' = "closing"
    /\ Reset
    /\ UNCHANGED <<given, calls, depth, turn, log, dying, called, busy, cell, born, ran>>

\* ... and when its runs have settled the accelerator disposes of the engine a
\* cell may have made since.
ShutdownEnds == phase = "closing" /\ phase' = "closed" /\ Dispose

DisposeEnds ==
    /\ dying # NoEngine /\ dying' = NoEngine
    /\ kernel' = KillSync(dying)
    /\ UNCHANGED <<inputVars, engine, epoch, called, busy, cell, born, ran>>

------------------------------------------------------------------------------
Init ==
    /\ phase = "new" /\ given = 0 /\ calls = {} /\ depth = 0 /\ turn = 0 /\ log = <<>>
    /\ engine = NoEngine /\ kernel = [k \in Kernel |-> "none"] /\ epoch = 0 /\ dying = NoEngine
    /\ called = FALSE /\ busy = FALSE /\ cell = NoCell
    /\ born = [k \in Kernel |-> 0] /\ ran = NoEngine

Python ==
    \/ \E aborted \in BOOLEAN : CellBegins(aborted)
    \/ CellNotRecorded \/ Imported \/ Started \/ BootTimeout \/ CellThrows
    \/ CellAborted \/ HardKill \/ CellReturns \/ ResetPython \/ DisposeEnds
    \/ \E k \in Kernel : KernelDies(k)

Messages ==
    \/ \E m \in Message, user \in BOOLEAN : Prompt(m, user)
    \/ \E m \in Message : SteerDirect(m)
    \/ \E c \in calls : TurnBegins(c) \/ Routed(c) \/ SteerRouted(c) \/ PromptReturns(c)
    \/ TurnEnds

Lifecycle == Attached \/ ShutdownPython \/ Shutdown \/ ShutdownEnds

Next == Python \/ Messages \/ Lifecycle

Spec == Init /\ [][Next]_vars

\* A cell whose engine is dead, or that was aborted before it ran, throws.
CellMustThrow ==
    /\ cell.ph \in {"start", "run"}
    /\ \/ kernel[cell.eng] = "down"
       \/ cell.ph = "start" /\ cell.aborted /\ kernel[cell.eng] = "up"
    /\ CellThrows

\* A running engine starts at once, and the timers fire: bootTimer, the cell
\* deadline, hardKill, the timer of dispose; killSync ends a start or a cell.  No
\* timer covers the import of the engine module, which owes nothing.
FairSpec ==
    /\ Spec
    /\ WF_vars(BootTimeout) /\ WF_vars(CellMustThrow)
    /\ WF_vars(Started /\ IsRunning(cell.eng))
    /\ WF_vars(CellAborted) /\ WF_vars(HardKill) /\ WF_vars(DisposeEnds)

------------------------------------------------------------------------------
(* Properties.                                                             *)

\* Types; a cell under way has set busy, and has an engine once the module of
\* the engine is loaded.
CellTypeOK ==
    cell # NoCell => /\ busy
                     /\ cell.ph \in {"import", "start", "run"}
                     /\ cell.ph # "import" => cell.eng \in Kernel

TypeOK ==
    /\ phase \in {"new", "ready", "leaving", "closing", "closed"}
    /\ given \in 0 .. MaxMessage /\ turn \in 0 .. MaxMessage
    /\ calls \subseteq [m : Message, ph : {"sent", "turn", "routed", "queued"},
                        user : BOOLEAN]
    /\ depth = Cardinality(calls)
    /\ log \in Seq(Message)
    /\ engine \in Kernel \cup {NoEngine} /\ dying \in Kernel \cup {NoEngine}
    /\ kernel \in [Kernel -> {"none", "new", "up", "down"}]
    /\ epoch \in Nat /\ called \in BOOLEAN /\ busy \in BOOLEAN
    /\ CellTypeOK
    /\ born \in [Kernel -> Nat] /\ ran \in Kernel \cup {NoEngine}

\* A user message is recorded once, though the native prompt may hand it to
\* the wrapped steer or followUp after any number of other prompts came and
\* went (runtime.ts: "one user revision, not another independently accepted
\* input").
RecordedOnce == \A m, n \in DOMAIN log : log[m] = log[n] => m = n

\* "Kernel restart is explicitly reported": a result that a running cell may
\* return without notice comes from the kernel of the cell before it.
RestartReported ==
    cell.ph = "run" /\ ~cell.notice => cell.prev \in {NoEngine, cell.eng}

\* Nothing computed before a user revision goes unmarked into a result after
\* it: the kernel of a result that may be returned unmarked was made under
\* the current revision.
RevisionIsolated ==
    cell.ph = "run" /\ ~Marked => born[cell.eng] = Revision

\* A cell that has its engine ends, whatever hangs then: the start, the cell
\* itself, its abort, also when the engine is disposed of or replaced meanwhile.
CellsEnd == (cell.ph \in {"start", "run"}) ~> (cell = NoCell)

------------------------------------------------------------------------------
(* A claim that the code does not keep (see the README).                   *)

\* "wait for the current cell before issuing another" (python.ts): the wait is
\* over some day.  An import that hangs, which neither the deadline nor hardKill
\* ends, and a cell whose files cannot be written leave busy set for good.
BusyEnds == busy ~> ~busy
=============================================================================
