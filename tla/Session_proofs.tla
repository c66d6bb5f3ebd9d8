--------------------------- MODULE Session_proofs ---------------------------
(***************************************************************************)
(* Proofs about Session for every number of messages, kernels and resets:  *)
(* the types, the recording of user messages, and what the result of a     *)
(* Python cell says about the kernel it came from.                         *)
(***************************************************************************)
EXTENDS Session, FiniteSetTheorems, TLAPS

(* The prompts under way are counted by depth and are about different      *)
(* messages, so that no depth of zero is seen by a prompt under way.       *)
CallsInv ==
    /\ IsFiniteSet(calls)
    /\ \A c \in calls : c.m <= given
    /\ \A c, d \in calls : c.m = d.m => c = d

LogInv ==
    /\ \A n \in DOMAIN log : log[n] <= given
    /\ RecordedOnce

CellType == [ph : {"import", "start", "run"}, eng : Kernel \cup {NoEngine}, own : Nat,
             prev : Kernel \cup {NoEngine}, notice : BOOLEAN, aborted : BOOLEAN,
             armed : BOOLEAN]

(* A cell that was not reset runs in the accelerator's engine, and no      *)
(* engine is made while a cell starts or runs.                             *)
CellInv ==
    cell # NoCell =>
        /\ cell \in CellType /\ busy
        /\ cell.own <= epoch
        /\ cell.ph = "import" => ~IsRunning(engine)
        /\ cell.ph # "import" =>
              /\ cell.eng \in Kernel
              /\ IF cell.own = epoch THEN engine = cell.eng ELSE engine = NoEngine
        /\ ~cell.notice =>
              \/ cell.prev = NoEngine
              \/ cell.ph # "import" /\ cell.prev = cell.eng

(* The engine was made under the current revision, and when it runs it is  *)
(* the one of the last cell that began to run.                             *)
EngineInv ==
    /\ engine # NoEngine => born[engine] = Revision
    /\ IsRunning(engine) => ran = engine
    /\ ~called => ran = NoEngine

IInv == TypeOK /\ CallsInv /\ LogInv /\ CellInv /\ EngineInv

-----------------------------------------------------------------------------
(* Kernels and calls                                                       *)

LEMMA KernelFacts == Kernel \subseteq Nat /\ NoEngine \notin Kernel
BY SessionAssumption DEF Kernel, NoEngine

LEMMA KilledType ==
  ASSUME TypeOK, NEW k \in Kernel \cup {NoEngine}
  PROVE  /\ KillSync(k) \in [Kernel -> {"none", "new", "up", "down"}]
         /\ \A j \in Kernel : KillSync(k)[j] = IF j = k THEN "down" ELSE kernel[j]
BY KernelFacts DEF TypeOK, KillSync

LEMMA ResetType ==
  ASSUME TypeOK, Reset
  PROVE  /\ engine' = NoEngine /\ epoch' = epoch + 1 /\ epoch' \in Nat
         /\ kernel' \in [Kernel -> {"none", "new", "up", "down"}]
BY KilledType DEF Reset, TypeOK

Phase == {"sent", "turn", "routed", "queued"}
Call == [m : Message, ph : Phase, user : BOOLEAN]

(* A prompt under way that changes its phase. *)
Moved(c, p) == (calls \ {c}) \cup {[c EXCEPT !.ph = p]}

LEMMA CallMoved ==
  ASSUME TypeOK, CallsInv, NEW c \in calls, NEW p \in Phase
  PROVE  /\ Moved(c, p) \subseteq Call /\ IsFiniteSet(Moved(c, p))
         /\ Cardinality(Moved(c, p)) = Cardinality(calls)
         /\ \A d \in Moved(c, p) : d.m <= given
         /\ \A d, e \in Moved(c, p) : d.m = e.m => d = e
<1> DEFINE e == [c EXCEPT !.ph = p]
           R == calls \ {c}
           D == Moved(c, p)
<1>1. c \in Call /\ e \in Call /\ e.m = c.m /\ calls \subseteq Call
  BY DEF TypeOK, Call, Phase
<1>2. \A d \in R : d.m # c.m
  BY DEF CallsInv
<1>3. e \notin R
  BY <1>1, <1>2
<1>4. IsFiniteSet(R) /\ Cardinality(R) = Cardinality(calls) - 1
  BY FS_RemoveElement DEF CallsInv
<1>5. IsFiniteSet(R \cup {e}) /\ Cardinality(R \cup {e}) = Cardinality(R) + 1
  BY <1>3, <1>4, FS_AddElement
<1>6. Cardinality(calls) \in Nat
  BY FS_CardinalityType DEF CallsInv
<1>7. D = R \cup {e}
  BY DEF Moved
<1>8. Cardinality(D) = Cardinality(calls)
  BY <1>4, <1>5, <1>6, <1>7
<1>9. \A d \in D : d.m <= given
  BY <1>1, <1>7 DEF CallsInv
<1>10. \A d, f \in D : d.m = f.m => d = f
  BY <1>1, <1>2, <1>7 DEF CallsInv
<1> QED
  BY <1>1, <1>5, <1>7, <1>8, <1>9, <1>10

(* A prompt that is new: no message of its number was given before. *)
Added(m, user) == calls \cup {[m |-> m, ph |-> "sent", user |-> user]}

LEMMA CallAdded ==
  ASSUME TypeOK, CallsInv, NEW m \in Message, Given(m), NEW user \in BOOLEAN
  PROVE  /\ Added(m, user) \subseteq Call /\ IsFiniteSet(Added(m, user))
         /\ Cardinality(Added(m, user)) = Cardinality(calls) + 1
         /\ \A d \in Added(m, user) : d.m <= given'
         /\ \A d, e \in Added(m, user) : d.m = e.m => d = e
<1> DEFINE e == [m |-> m, ph |-> "sent", user |-> user]
           D == Added(m, user)
<1> USE DEF Added
<1>1. e \in Call /\ e.m = m /\ calls \subseteq Call /\ Message \subseteq Nat
  BY SessionAssumption DEF TypeOK, Call, Phase, Message
<1>2. given \in Nat /\ given' = given + 1 /\ m = given + 1
  BY SessionAssumption DEF Given, TypeOK
<1>3. ASSUME NEW d \in calls
      PROVE  d.m \in Nat /\ d.m < m
  <2>1. d.m \in Nat
    BY <1>1 DEF Call
  <2>2. d.m <= given
    BY DEF CallsInv
  <2> QED
    BY <1>2, <2>1, <2>2
<1>4. e \notin calls
  BY <1>1, <1>3
<1>5. IsFiniteSet(D) /\ Cardinality(D) = Cardinality(calls) + 1
  BY <1>4, FS_AddElement DEF CallsInv
<1>6. \A d \in D : d.m <= given'
  BY <1>1, <1>2, <1>3
<1>7. \A d, f \in D : d.m = f.m => d = f
  BY <1>1, <1>2, <1>3 DEF CallsInv
<1> QED
  BY <1>1, <1>5, <1>6, <1>7

LEMMA CallRemoved ==
  ASSUME TypeOK, CallsInv, NEW c \in calls
  PROVE  /\ IsFiniteSet(calls \ {c})
         /\ Cardinality(calls \ {c}) = Cardinality(calls) - 1
BY FS_RemoveElement DEF CallsInv

(* While a prompt is under way the depth is not zero. *)
LEMMA DepthSeen ==
  ASSUME TypeOK, CallsInv, NEW c \in calls
  PROVE  depth # 0
BY FS_EmptySet DEF TypeOK, CallsInv

-----------------------------------------------------------------------------
(* What a step does to the calls, and to the engine                        *)

(* The actions of the accelerator and the life cycle, in one list. *)
CellStep ==
    \/ \E aborted \in BOOLEAN : CellBegins(aborted)
    \/ CellNotRecorded \/ Imported \/ Started \/ BootTimeout \/ CellThrows
    \/ CellAborted \/ HardKill \/ CellReturns \/ ResetPython \/ DisposeEnds
    \/ \E k \in Kernel : KernelDies(k)
    \/ Attached \/ ShutdownPython \/ Shutdown \/ ShutdownEnds

CallsKept ==
    /\ calls' \subseteq Call /\ depth' = Cardinality(calls')
    /\ given' \in 0 .. MaxMessage /\ turn' \in 0 .. MaxMessage
    /\ given' >= given
    /\ CallsInv'

LEMMA CallsStep ==
  ASSUME TypeOK, CallsInv, [Next]_vars
  PROVE  CallsKept
<1> USE DEF Phase, CallsKept
<1>1. CASE UNCHANGED <<given, calls, depth, turn>>
  BY <1>1 DEF TypeOK, CallsInv, Call
<1>2. ASSUME NEW m \in Message, NEW user \in BOOLEAN, Prompt(m, user)
      PROVE  CallsKept
  <2>1. given' \in 0 .. MaxMessage /\ given' >= given /\ turn' = turn
    BY <1>2, SessionAssumption DEF Prompt, Given, Message, TypeOK
  <2>2. calls' = Added(m, user) /\ Given(m) /\ depth' = depth + 1
    BY <1>2 DEF Prompt, Added
  <2> QED
    BY <2>1, <2>2, CallAdded DEF TypeOK, CallsInv
<1>3. ASSUME NEW m \in Message, SteerDirect(m)
      PROVE  CallsKept
  <2>1. given' \in 0 .. MaxMessage /\ given' >= given
    BY <1>3, SessionAssumption DEF SteerDirect, Given, Message, TypeOK
  <2>2. UNCHANGED <<calls, depth, turn>>
    BY <1>3 DEF SteerDirect
  <2>3. \A c \in calls : c.m <= given'
    <3>1. \A c \in calls : c.m \in Nat /\ c.m <= given
      BY SessionAssumption DEF TypeOK, CallsInv, Message
    <3> QED
      BY <2>1, <3>1 DEF TypeOK
  <2> QED
    BY <2>1, <2>2, <2>3 DEF TypeOK, CallsInv, Call
<1>4. ASSUME NEW c \in calls, TurnBegins(c) \/ Routed(c) \/ SteerRouted(c)
      PROVE  CallsKept
  <2>1. PICK p \in Phase : calls' = Moved(c, p)
    BY <1>4 DEF Moved, TurnBegins, Routed, SteerRouted
  <2>2. UNCHANGED <<given, depth>>
    BY <1>4 DEF TurnBegins, Routed, SteerRouted
  <2>3. turn' \in 0 .. MaxMessage
    <3>1. c.m \in 0 .. MaxMessage
      BY SessionAssumption DEF TypeOK, Message
    <3> QED
      BY <1>4, <3>1 DEF TurnBegins, Routed, SteerRouted, TypeOK
  <2> QED
    BY <2>1, <2>2, <2>3, CallMoved DEF TypeOK, CallsInv
<1>5. ASSUME NEW c \in calls, PromptReturns(c)
      PROVE  CallsKept
  <2>1. UNCHANGED <<given, turn>> /\ calls' = calls \ {c} /\ depth' = depth - 1
    BY <1>5 DEF PromptReturns, Returns, DepthAfter
  <2> QED
    BY <2>1, CallRemoved DEF TypeOK, CallsInv, Call
<1>6. CASE TurnEnds
  BY <1>6, SessionAssumption DEF TurnEnds, TypeOK, CallsInv, Call
<1>7. CASE CellStep
  <2>1. UNCHANGED <<given, calls, depth, turn>>
    BY <1>7 DEF CellStep, CellBegins, CellNotRecorded, Imported, Started, BootTimeout,
       CellThrows, CellAborted, HardKill, CellReturns, ResetPython, DisposeEnds,
       KernelDies, Attached, ShutdownPython, Shutdown, ShutdownEnds, Dispose, inputVars
  <2> QED
    BY <1>1, <2>1
<1>8. CASE UNCHANGED vars
  BY <1>1, <1>8 DEF vars, inputVars
<1> QED
  BY <1>2, <1>3, <1>4, <1>5, <1>6, <1>7, <1>8
     DEF Next, Python, Messages, Lifecycle, CellStep

-----------------------------------------------------------------------------
(* The log: a message is recorded when it is given, and at no other step   *)

(* What a step may do to the log and, with it, to the engine. *)
Recorded == \E m \in Message : Given(m) /\ Input(m)
LogUnchanged == log' = log

LEMMA LogStep ==
  ASSUME TypeOK, CallsInv, [Next]_vars
  PROVE  Recorded \/ LogUnchanged
<1>1. ASSUME NEW m \in Message, NEW user \in BOOLEAN, Prompt(m, user)
      PROVE  Recorded \/ LogUnchanged
  BY <1>1 DEF Prompt, NoInput, Recorded, LogUnchanged
<1>2. ASSUME NEW m \in Message, SteerDirect(m)
      PROVE  Recorded \/ LogUnchanged
  BY <1>2 DEF SteerDirect, NoInput, Recorded, LogUnchanged
<1>3. ASSUME NEW c \in calls, SteerRouted(c)
      PROVE  LogUnchanged
  BY <1>3, DepthSeen DEF SteerRouted, NoInput, LogUnchanged
<1>4. ASSUME NEW c \in calls, TurnBegins(c) \/ Routed(c) \/ PromptReturns(c)
      PROVE  LogUnchanged
  BY <1>4 DEF TurnBegins, Routed, PromptReturns, LogUnchanged
<1>5. CASE TurnEnds \/ UNCHANGED vars
  BY <1>5 DEF TurnEnds, vars, inputVars, LogUnchanged
<1>6. CASE CellStep
  BY <1>6 DEF CellStep, CellBegins, CellNotRecorded, Imported, Started, BootTimeout,
     CellThrows, CellAborted, HardKill, CellReturns, ResetPython, DisposeEnds,
     KernelDies, Attached, ShutdownPython, Shutdown, ShutdownEnds, Dispose, inputVars, LogUnchanged
<1> QED
  BY <1>1, <1>2, <1>3, <1>4, <1>5, <1>6
     DEF Next, Python, Messages, Lifecycle, CellStep

LEMMA LogKept ==
  ASSUME TypeOK, CallsInv, LogInv, [Next]_vars
  PROVE  log' \in Seq(Message) /\ LogInv'
<1> USE SessionAssumption DEF Message
<1>1. CASE LogUnchanged
  <2>1. given' >= given /\ given' \in Nat /\ given \in Nat
    BY CallsStep DEF CallsKept, TypeOK
  <2>2. \A n \in DOMAIN log : log[n] \in Nat /\ log[n] <= given'
    BY <2>1 DEF TypeOK, LogInv
  <2> QED
    BY <1>1, <2>2 DEF LogUnchanged, TypeOK, LogInv, RecordedOnce
<1>2. ASSUME NEW m \in Message, Given(m), Input(m)
      PROVE  log' \in Seq(Message) /\ LogInv'
  <2>1. log' = Append(log, m) /\ given' = m /\ m = given + 1 /\ given \in Nat
    BY <1>2 DEF Given, Input, TypeOK
  <2>2. log' \in Seq(Message) /\ log \in Seq(Message)
    BY <2>1 DEF TypeOK
  <2>3. /\ Len(log') = Len(log) + 1 /\ Len(log) \in Nat
        /\ log'[Len(log) + 1] = m
        /\ \A n \in 1 .. Len(log) : log'[n] = log[n]
    BY <2>1, <2>2
  <2>4. DOMAIN log = 1 .. Len(log) /\ DOMAIN log' = 1 .. (Len(log) + 1)
    BY <2>2, <2>3
  <2>5. ASSUME NEW n \in 1 .. Len(log)
        PROVE  log[n] \in Nat /\ log[n] < m
    <3>1. log[n] \in Nat
      BY <2>2
    <3>2. log[n] <= given
      BY <2>4 DEF LogInv
    <3> QED
      BY <2>1, <3>1, <3>2
  <2>6. \A n \in DOMAIN log' : log'[n] <= given'
    BY <2>1, <2>3, <2>4, <2>5
  <2>7. \A i, j \in DOMAIN log' : log'[i] = log'[j] => i = j
    BY <2>1, <2>3, <2>4, <2>5 DEF LogInv, RecordedOnce
  <2> QED
    BY <2>2, <2>6, <2>7 DEF LogInv, RecordedOnce
<1> QED
  BY <1>1, <1>2, LogStep DEF Recorded

-----------------------------------------------------------------------------
(* The accelerator                                                         *)

(* The steps outside the accelerator reset it or leave it alone. *)
Outside == /\ UNCHANGED <<dying, called, busy, cell, born, ran>>
           /\ \/ Reset
              \/ UNCHANGED <<engine, kernel, epoch>> /\ log' = log

LEMMA OutsideStep ==
  ASSUME TypeOK, CallsInv, Messages \/ Attached \/ Shutdown \/ ResetPython \/ UNCHANGED vars
  PROVE  Outside
<1>1. ASSUME NEW m \in Message, NEW user \in BOOLEAN, Prompt(m, user)
      PROVE  Outside
  BY <1>1 DEF Prompt, Input, NoInput, Outside
<1>2. ASSUME NEW m \in Message, SteerDirect(m)
      PROVE  Outside
  BY <1>2 DEF SteerDirect, Input, NoInput, Outside
<1>3. ASSUME NEW c \in calls, SteerRouted(c)
      PROVE  Outside
  BY <1>3, DepthSeen DEF SteerRouted, NoInput, Outside
<1>4. ASSUME NEW c \in calls, TurnBegins(c) \/ Routed(c) \/ PromptReturns(c)
      PROVE  Outside
  BY <1>4 DEF TurnBegins, Routed, PromptReturns, pythonVars, Outside
<1>5. CASE TurnEnds \/ Attached \/ UNCHANGED vars
  BY <1>5 DEF TurnEnds, Attached, vars, inputVars, pythonVars, Outside
<1>6. CASE Shutdown \/ ResetPython
  BY <1>6 DEF Shutdown, ResetPython, Outside
<1> QED
  BY <1>1, <1>2, <1>3, <1>4, <1>5, <1>6 DEF Messages

(* The part of the type invariant that is about the accelerator. *)
PythonTypeOK ==
    /\ engine \in Kernel \cup {NoEngine} /\ dying \in Kernel \cup {NoEngine}
    /\ kernel \in [Kernel -> {"none", "new", "up", "down"}]
    /\ epoch \in Nat /\ called \in BOOLEAN /\ busy \in BOOLEAN
    /\ born \in [Kernel -> Nat] /\ ran \in Kernel \cup {NoEngine}

PythonKept == PythonTypeOK' /\ CellInv' /\ EngineInv'

LEMMA OutsideKept ==
  ASSUME IInv, log' \in Seq(Message), Outside
  PROVE  PythonKept
<1>1. CASE Reset
  <2>1. /\ engine' = NoEngine /\ epoch' = epoch + 1 /\ epoch' \in Nat
        /\ kernel' \in [Kernel -> {"none", "new", "up", "down"}]
    BY <1>1, ResetType DEF IInv
  <2>2. UNCHANGED <<dying, called, busy, cell, born, ran>>
    BY DEF Outside
  <2>3. PythonTypeOK'
    BY <2>1, <2>2 DEF IInv, TypeOK, PythonTypeOK
  <2>4. EngineInv'
    BY <2>1, <2>2 DEF IInv, EngineInv, IsRunning
  <2>5. CellInv'
    BY <2>1, <2>2 DEF IInv, TypeOK, CellInv, CellType, IsRunning
  <2> QED
    BY <2>3, <2>4, <2>5 DEF PythonKept
<1>2. CASE UNCHANGED <<engine, kernel, epoch, log>>
  <2>1. UNCHANGED <<dying, called, busy, cell, born, ran>>
    BY DEF Outside
  <2> QED
    BY <1>2, <2>1 DEF IInv, TypeOK, PythonTypeOK, CellInv, EngineInv, PythonKept,
       IsRunning, Revision
<1> QED
  BY <1>1, <1>2 DEF Outside

LEMMA CellBeginsKept ==
  ASSUME IInv, NEW aborted \in BOOLEAN, CellBegins(aborted)
  PROVE  PythonKept
<1> USE KernelFacts DEF IInv, TypeOK
<1>1. /\ UNCHANGED <<log, engine, dying, epoch, called, born, ran>>
      /\ busy' = TRUE /\ cell = NoCell
  BY DEF CellBegins, inputVars, CellInv
<1>2. CASE IsRunning(engine)
  <2>1. kernel' = kernel /\ engine \in Kernel
        /\ cell' = [ph |-> "start", eng |-> engine, own |-> epoch, prev |-> ran,
                    notice |-> FALSE, aborted |-> aborted, armed |-> FALSE]
    BY <1>2 DEF CellBegins, NewCell, IsRunning
  <2>2. PythonTypeOK' /\ EngineInv'
    BY <1>1, <2>1 DEF PythonTypeOK, EngineInv, IsRunning, Revision
  <2>3. ran = engine
    BY <1>2 DEF EngineInv
  <2>4. CellInv'
    BY <1>1, <2>1, <2>3 DEF CellInv, CellType
  <2> QED
    BY <2>2, <2>4 DEF PythonKept
<1>3. CASE ~IsRunning(engine)
  <2>1. kernel' = KillSync(engine)
        /\ cell' = [ph |-> "import", eng |-> NoEngine, own |-> epoch, prev |-> ran,
                    notice |-> called, aborted |-> aborted, armed |-> FALSE]
    BY <1>3 DEF CellBegins, NewCell, PriorKernelLost
  <2>2. /\ kernel' \in [Kernel -> {"none", "new", "up", "down"}]
        /\ ~IsRunning(engine)'
    BY <1>1, <2>1, KilledType DEF IsRunning
  <2>3. PythonTypeOK' /\ EngineInv'
    BY <1>1, <2>1, <2>2 DEF PythonTypeOK, EngineInv, Revision
  <2>4. CellInv'
    BY <1>1, <2>1, <2>2 DEF CellInv, CellType, EngineInv
  <2> QED
    BY <2>3, <2>4 DEF PythonKept
<1> QED
  BY <1>2, <1>3

LEMMA ImportedKept ==
  ASSUME IInv, Imported
  PROVE  PythonKept
<1> USE KernelFacts DEF IInv, TypeOK
<1>1. /\ UNCHANGED <<log, dying, called, busy, ran>>
      /\ cell.ph = "import" /\ cell # NoCell /\ cell \in CellType /\ busy
  BY DEF Imported, inputVars, CellInv, NoCell
<1>2. PICK k \in Kernel :
        /\ kernel[k] = "none" /\ engine' = k
        /\ kernel' = [kernel EXCEPT ![k] = "new"]
        /\ born' = [born EXCEPT ![k] = Revision]
        /\ epoch' = epoch + 1
        /\ cell' = [cell EXCEPT !.ph = "start", !.eng = k, !.own = epoch + 1]
  BY DEF Imported
<1>3. Revision \in Nat /\ Revision' = Revision
  BY <1>1 DEF Revision
<1>4. PythonTypeOK' /\ ~IsRunning(engine)'
  BY <1>1, <1>2, <1>3 DEF PythonTypeOK, IsRunning
<1>5. EngineInv'
  BY <1>1, <1>2, <1>3, <1>4 DEF EngineInv
<1>6. cell' \in CellType /\ cell'.ph = "start" /\ cell'.eng = k /\ cell'.own = epoch'
      /\ cell'.prev = cell.prev /\ cell'.notice = cell.notice
  <2>1. epoch + 1 \in Nat /\ k \in Kernel \cup {NoEngine}
    OBVIOUS
  <2> DEFINE c1 == [cell EXCEPT !.ph = "start"]
             c2 == [c1 EXCEPT !.eng = k]
             c3 == [c2 EXCEPT !.own = epoch + 1]
  <2>2. c1 \in CellType /\ c1.ph = "start" /\ c1.prev = cell.prev
        /\ c1.notice = cell.notice
    BY <1>1 DEF CellType
  <2>3. c2 \in CellType /\ c2.ph = c1.ph /\ c2.eng = k /\ c2.prev = c1.prev
        /\ c2.notice = c1.notice
    <3> HIDE DEF c1
    <3> QED
      BY <2>1, <2>2 DEF CellType
  <2>4. c3 \in CellType /\ c3.ph = c2.ph /\ c3.eng = c2.eng /\ c3.own = epoch + 1
        /\ c3.prev = c2.prev /\ c3.notice = c2.notice
    <3> HIDE DEF c2
    <3> QED
      BY <2>1, <2>3 DEF CellType
  <2>5. cell' = c3
    BY <1>2
  <2> HIDE DEF c1, c2, c3
  <2> QED
    BY <1>2, <2>2, <2>3, <2>4, <2>5
<1>7. CellInv'
  BY <1>1, <1>2, <1>6 DEF CellInv
<1> QED
  BY <1>4, <1>5, <1>7 DEF PythonKept

LEMMA StartedKept ==
  ASSUME IInv, Started
  PROVE  PythonKept
<1> USE KernelFacts DEF IInv, TypeOK
<1>1. /\ UNCHANGED <<log, engine, dying, epoch, busy, born>>
      /\ called' = TRUE /\ ran' = cell.eng
      /\ kernel' = [kernel EXCEPT ![cell.eng] = "up"]
      /\ cell' = [cell EXCEPT !.ph = "run"]
      /\ cell.ph = "start" /\ cell # NoCell /\ cell \in CellType /\ busy
  BY DEF Started, inputVars, CellInv, NoCell
<1>2. /\ cell.eng \in Kernel
      /\ IF cell.own = epoch THEN engine = cell.eng ELSE engine = NoEngine
  BY <1>1 DEF CellInv
<1>3. PythonTypeOK'
  BY <1>1, <1>2 DEF PythonTypeOK
<1>4. EngineInv'
  BY <1>1, <1>2 DEF EngineInv, IsRunning, Revision
<1>5. /\ cell' \in CellType /\ cell'.ph = "run" /\ cell'.eng = cell.eng
      /\ cell'.own = cell.own /\ cell'.prev = cell.prev /\ cell'.notice = cell.notice
  BY <1>1 DEF CellType
<1>6. CellInv'
  BY <1>1, <1>2, <1>5 DEF CellInv
<1> QED
  BY <1>3, <1>4, <1>6 DEF PythonKept

(* A kernel that goes down, by itself, by a timer or by a dispose. *)
LEMMA KernelDownKept ==
  ASSUME IInv, NEW k \in Kernel \cup {NoEngine},
         kernel' = KillSync(k),
         UNCHANGED <<log, engine, epoch, called, busy, cell, born, ran>>,
         dying' \in Kernel \cup {NoEngine}
  PROVE  PythonKept
<1> USE KernelFacts DEF IInv
<1>1. /\ kernel' \in [Kernel -> {"none", "new", "up", "down"}]
      /\ \A j \in Kernel : kernel'[j] = "up" => kernel[j] = "up"
  BY KilledType
<1>2. IsRunning(engine)' => IsRunning(engine)
  BY <1>1 DEF IsRunning, TypeOK
<1>3. PythonTypeOK'
  BY <1>1 DEF PythonTypeOK, TypeOK
<1>4. EngineInv' /\ CellInv'
  BY <1>2 DEF EngineInv, CellInv, Revision
<1> QED
  BY <1>3, <1>4 DEF PythonKept

(* A cell that ends, with or without a reset. *)
LEMMA CellEndsKept ==
  ASSUME IInv, CellThrows \/ CellReturns
  PROVE  PythonKept
<1> USE DEF IInv
<1>1. UNCHANGED <<log, dying, called, born, ran>> /\ cell' = NoCell /\ busy' = FALSE
  BY DEF CellThrows, CellReturns, inputVars
<1>2. CellInv'
  BY <1>1 DEF CellInv
<1>3. CASE Reset
  <2>1. /\ engine' = NoEngine /\ epoch' \in Nat
        /\ kernel' \in [Kernel -> {"none", "new", "up", "down"}]
    BY <1>3, ResetType
  <2> QED
    BY <1>1, <1>2, <2>1 DEF PythonTypeOK, TypeOK, EngineInv, IsRunning, PythonKept
<1>4. CASE UNCHANGED <<engine, kernel, epoch>>
  BY <1>1, <1>2, <1>4 DEF PythonTypeOK, TypeOK, EngineInv, IsRunning, Revision, PythonKept
<1> QED
  BY <1>3, <1>4 DEF CellThrows, CellReturns

(* The flags of a cell that goes on, with or without a reset. *)
LEMMA CellFlaggedKept ==
  ASSUME IInv, CellAborted \/ HardKill
  PROVE  PythonKept
<1> USE DEF IInv
<1>1. UNCHANGED <<log, dying, called, busy, born, ran>> /\ cell # NoCell
  BY DEF CellAborted, HardKill, inputVars
<1>2. /\ cell' \in CellType /\ cell'.ph = cell.ph /\ cell'.eng = cell.eng
      /\ cell'.own = cell.own /\ cell'.prev = cell.prev /\ cell'.notice = cell.notice
      /\ cell \in CellType
  BY <1>1 DEF CellAborted, HardKill, CellInv, CellType
<1>3. CASE CellAborted
  <2>1. UNCHANGED <<engine, kernel, epoch>>
    BY <1>3 DEF CellAborted
  <2>2. CellInv'
    BY <1>1, <1>2, <2>1 DEF CellInv, IsRunning
  <2> QED
    BY <1>1, <2>1, <2>2 DEF PythonTypeOK, TypeOK, EngineInv, IsRunning, Revision, PythonKept
<1>4. CASE HardKill
  <2>1. /\ engine' = NoEngine /\ epoch' = epoch + 1 /\ epoch' \in Nat
        /\ kernel' \in [Kernel -> {"none", "new", "up", "down"}]
    BY <1>4, ResetType DEF HardKill
  <2>2. cell.own \in Nat /\ cell.own <= epoch /\ epoch \in Nat
    BY <1>1, <1>2 DEF CellInv, CellType, TypeOK
  <2>3. CellInv'
    BY <1>1, <1>2, <2>1, <2>2 DEF CellInv, IsRunning
  <2> QED
    BY <1>1, <2>1, <2>3 DEF PythonTypeOK, TypeOK, EngineInv, IsRunning, PythonKept
<1> QED
  BY <1>3, <1>4

LEMMA DisposeKept ==
  ASSUME IInv, Dispose
  PROVE  PythonKept
<1> USE DEF IInv
<1>1. /\ UNCHANGED <<log, kernel, called, busy, cell, born, ran>>
      /\ dying' = engine /\ engine' = NoEngine /\ epoch' = epoch + 1
  BY DEF Dispose
<1>2. CellInv'
  BY <1>1 DEF CellInv, CellType, IsRunning, TypeOK
<1> QED
  BY <1>1, <1>2 DEF PythonTypeOK, TypeOK, EngineInv, IsRunning, PythonKept

LEMMA PythonStep ==
  ASSUME IInv, log' \in Seq(Message), [Next]_vars
  PROVE  PythonKept
<1>1. CASE Messages \/ Attached \/ Shutdown \/ ResetPython \/ UNCHANGED vars
  BY <1>1, OutsideStep, OutsideKept DEF IInv
<1>2. ASSUME NEW aborted \in BOOLEAN, CellBegins(aborted)
      PROVE  PythonKept
  BY <1>2, CellBeginsKept
<1>3. CASE CellNotRecorded
  BY <1>3 DEF CellNotRecorded, inputVars, IInv, TypeOK, PythonTypeOK, CellInv, EngineInv,
     IsRunning, Revision, PythonKept
<1>4. CASE BootTimeout \/ DisposeEnds \/ \E k \in Kernel : KernelDies(k)
  <2>1. CASE BootTimeout
    <3>1. cell # NoCell /\ cell.eng \in Kernel
      BY <2>1 DEF BootTimeout, NoCell, IInv, CellInv
    <3> QED
      BY <2>1, <3>1, KernelDownKept DEF BootTimeout, inputVars, IInv, TypeOK
  <2>2. CASE DisposeEnds
    BY <2>2, KernelDownKept DEF DisposeEnds, inputVars, IInv, TypeOK
  <2>3. ASSUME NEW k \in Kernel, KernelDies(k)
        PROVE  PythonKept
    <3>1. kernel' = KillSync(k)
      BY <2>3, KernelFacts DEF KernelDies, KillSync
    <3> QED
      BY <2>3, <3>1, KernelDownKept DEF KernelDies, inputVars, IInv, TypeOK
  <2> QED
    BY <1>4, <2>1, <2>2, <2>3
<1> QED
  BY <1>1, <1>2, <1>3, <1>4, ImportedKept, StartedKept, CellEndsKept, CellFlaggedKept,
     DisposeKept DEF Next, Python, Lifecycle, ShutdownPython, ShutdownEnds

-----------------------------------------------------------------------------
(* The inductive invariant and what it implies                             *)

LEMMA IInvInit == Init => IInv
<1> SUFFICES ASSUME Init PROVE IInv
  OBVIOUS
<1>1. IsFiniteSet({}) /\ Cardinality({}) = 0
  BY FS_EmptySet
<1>2. log = <<>> /\ log \in Seq(Message) /\ Len(log) = 0 /\ DOMAIN log = {}
  BY DEF Init
<1>3. TypeOK
  <2>1. called \in BOOLEAN /\ busy \in BOOLEAN
    BY DEF Init
  <2>2. given \in 0 .. MaxMessage /\ turn \in 0 .. MaxMessage
    BY SessionAssumption DEF Init
  <2>3. calls \subseteq Call /\ depth = Cardinality(calls)
    BY <1>1 DEF Init
  <2>4. kernel \in [Kernel -> {"none", "new", "up", "down"}] /\ born \in [Kernel -> Nat]
    BY DEF Init
  <2> QED
    BY <1>2, <2>1, <2>2, <2>3, <2>4 DEF Init, TypeOK, CellTypeOK, Call, Phase
<1>4. CallsInv /\ LogInv
  BY <1>1, <1>2 DEF Init, CallsInv, LogInv, RecordedOnce
<1>5. CellInv /\ EngineInv
  BY DEF Init, CellInv, EngineInv, IsRunning
<1> QED
  BY <1>3, <1>4, <1>5 DEF IInv

LEMMA PhaseStep ==
  ASSUME TypeOK, [Next]_vars
  PROVE  phase' \in {"new", "ready", "leaving", "closing", "closed"}
<1>1. CASE CellStep
  BY <1>1 DEF CellStep, CellBegins, CellNotRecorded, Imported, Started, BootTimeout,
     CellThrows, CellAborted, HardKill, CellReturns, ResetPython, DisposeEnds,
     KernelDies, Attached, ShutdownPython, Shutdown, ShutdownEnds, Dispose, inputVars, TypeOK
<1>2. CASE Messages
  BY <1>2 DEF Messages, Prompt, SteerDirect, TurnBegins, Routed, SteerRouted,
     PromptReturns, TurnEnds, TypeOK
<1>3. CASE UNCHANGED vars
  BY <1>3 DEF vars, inputVars, TypeOK
<1> QED
  BY <1>1, <1>2, <1>3 DEF Next, Python, Lifecycle, CellStep

LEMMA IInvStep == IInv /\ [Next]_vars => IInv'
<1> SUFFICES ASSUME IInv, [Next]_vars PROVE IInv'
  OBVIOUS
<1>1. CallsKept
  BY CallsStep DEF IInv
<1>2. log' \in Seq(Message) /\ LogInv'
  BY LogKept DEF IInv
<1>3. PythonKept
  BY <1>2, PythonStep
<1>4. phase' \in {"new", "ready", "leaving", "closing", "closed"}
  BY PhaseStep DEF IInv
<1>5. TypeOK'
  <2>1. /\ given' \in 0 .. MaxMessage /\ turn' \in 0 .. MaxMessage
        /\ calls' \subseteq [m : Message, ph : {"sent", "turn", "routed", "queued"},
                             user : BOOLEAN]
        /\ depth' = Cardinality(calls')
    BY <1>1 DEF CallsKept, Call, Phase
  <2>2. PythonTypeOK'
    BY <1>3 DEF PythonKept
  <2>3. CellTypeOK'
    BY <1>3 DEF PythonKept, CellInv, CellType, CellTypeOK
  <2>4. /\ engine' \in Kernel \cup {NoEngine} /\ dying' \in Kernel \cup {NoEngine}
        /\ kernel' \in [Kernel -> {"none", "new", "up", "down"}]
        /\ epoch' \in Nat
        /\ born' \in [Kernel -> Nat] /\ ran' \in Kernel \cup {NoEngine}
    BY <2>2 DEF PythonTypeOK
  <2>5. called' \in BOOLEAN /\ busy' \in BOOLEAN
    BY <2>2 DEF PythonTypeOK
  <2> QED
    BY <1>2, <1>4, <2>1, <2>3, <2>4, <2>5 DEF TypeOK
<1> QED
  BY <1>1, <1>2, <1>3, <1>5 DEF CallsKept, PythonKept, IInv

THEOREM InvariantHolds == Spec => []IInv
BY IInvInit, IInvStep, PTL DEF Spec

(* Types: a cell has an engine once its module is loaded, busy is set as   *)
(* long as a cell is under way, and inputDepth counts the prompts.         *)
THEOREM TypesHold == Spec => []TypeOK
<1>1. IInv => TypeOK
  BY DEF IInv
<1> QED
  BY <1>1, InvariantHolds, PTL

(* A user message is recorded once, however prompts overlap and whichever  *)
(* of them the native prompt hands to steer or followUp.                   *)
THEOREM RevisionsAreRecordedOnce == Spec => []RecordedOnce
<1>1. IInv => RecordedOnce
  BY DEF IInv, LogInv
<1> QED
  BY <1>1, InvariantHolds, PTL

(* A cell that does not run in the kernel of the cell before it says so.   *)
THEOREM RestartsAreReported == Spec => []RestartReported
<1>1. IInv => RestartReported
  <2> SUFFICES ASSUME IInv, cell.ph = "run", ~cell.notice
               PROVE  cell.prev \in {NoEngine, cell.eng}
    BY DEF RestartReported
  <2>1. cell # NoCell
    BY DEF NoCell
  <2> QED
    BY <2>1 DEF IInv, CellInv
<1> QED
  BY <1>1, InvariantHolds, PTL

(* Variables made before a user revision do not reach an unmarked result   *)
(* after it, whatever of import, start and cell the revision interrupts.   *)
THEOREM RevisionsIsolateKernels == Spec => []RevisionIsolated
<1>1. IInv => RevisionIsolated
  <2> SUFFICES ASSUME IInv, cell.ph = "run", cell.own = epoch
               PROVE  born[cell.eng] = Revision
    BY DEF RevisionIsolated, Marked
  <2>1. cell # NoCell
    BY DEF NoCell
  <2>2. cell.eng \in Kernel /\ engine = cell.eng
    BY <2>1 DEF IInv, CellInv
  <2> QED
    BY <2>2, KernelFacts DEF IInv, EngineInv
<1> QED
  BY <1>1, InvariantHolds, PTL
=============================================================================
