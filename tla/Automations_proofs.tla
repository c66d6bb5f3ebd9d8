------------------------- MODULE Automations_proofs -------------------------
(***************************************************************************)
(* Proofs about Automations for any automations, runners, edits and        *)
(* bounds: the types, that a run is recorded as completed only if its turn *)
(* ended well, and that the first end recorded for a run of the desktop    *)
(* stays.                                                                  *)
(***************************************************************************)
EXTENDS Automations, FiniteSetTheorems, SequenceTheorems, TLAPS

USE DEF links

(* The steps of a job in which it has an automation, and those in which it *)
(* has a row in the ledger.                                                *)
Ran    == {"open", "send", "await", "dispatched", "mark", "disable", "finish",
           "fail", "failed", "outcome"}
Taking == {"claim", "reread", "start"} \cup Ran
Pc     == {"idle", "scan"} \cup Taking

JobRecord(n) ==
    [pc : Pc, todo : SUBSET (Automation \X Row), now : Nat, at : Nat,
     auto : Automation \cup {None}, row : Row \cup {Deleted},
     run : (1 .. n) \cup {None}]

(* A job j of the runner w that has opened the file o, when the ledger has *)
(* n runs.                                                                 *)
JobOK(w, j, o, n) ==
    /\ j \in JobRecord(n)
    /\ j.pc \in {"idle", "scan"} => o = None
    /\ j.pc = "claim" => o \in File
    /\ j.pc \in Taking => j.auto \in Automation /\ j.row \in Row
    /\ j.pc \in Ran => j.run \in 1 .. n
    /\ j.pc \in {"await", "finish"} => w = "daemon"

TurnState == {"none", "running", "done", "over", "dead"}

(* An update of the list under way, and an update of the ledger.           *)
Op == [kind : {"ran", "failed"}, auto : Automation, at : Nat, next : Nat]
      \cup [kind : {"outcome"}, auto : Automation, at : Nat, status : Status]
      \cup [kind : {"off", "on", "delete"}, auto : Automation]
Upd   == [seen : List, op : Op]
Entry == [run : Nat, by : Runner \cup {"session"}, row : Run]

TimeOK ==
    /\ day \in 0 .. MaxDay /\ stamp \in Nat /\ list \in List
    /\ paused \subseteq Automation
    /\ edits \in 0 .. MaxEdits /\ crashes \in 0 .. MaxCrash

LedgerOK ==
    /\ ledger \in Seq(Run) /\ Len(ledger) <= MaxRuns
    /\ turn \in Seq(TurnState) /\ Len(turn) = Len(ledger)
    /\ old \subseteq RunId /\ stale \subseteq RunId
    /\ active \subseteq RunId /\ after \subseteq RunId

RunnerOK ==
    /\ path \in [Automation -> File \cup {None}]
    /\ open \in [Runner -> File \cup {None}]
    /\ locked \subseteq {w \in Runner : open[w] # None}
    /\ job \in [Runner -> JobRecord(Len(ledger))]
    /\ \A w \in Runner : JobOK(w, job[w], open[w], Len(ledger))

WorkOK ==
    /\ proc \in [Process -> {"down", "starting", "up"}]
    /\ upd \in [Writer -> Upd \cup {None}]
    /\ entry \in [Process -> Entry \cup {None}]
    /\ \A p \in Process : entry[p] # None => entry[p].run \in RunId

(* The inductive invariant of the types.                                   *)
TypeInv == TimeOK /\ LedgerOK /\ RunnerOK /\ WorkOK

-----------------------------------------------------------------------------
(* Operators                                                               *)

LEMMA Counted ==
  /\ IsFiniteSet(Automation) /\ Cardinality(Automation) \in Nat
  /\ IsFiniteSet(Runner) /\ Cardinality(Runner) \in Nat
  /\ IsFiniteSet(File)
  /\ Cardinality(File) = Cardinality(Automation) + Cardinality(Runner)
<1>1. IsFiniteSet(Automation) /\ Cardinality(Automation) \in Nat
  BY AutomationsAssumption, FS_CardinalityType
<1>2. IsFiniteSet({"scheduler", "button", "daemon"})
  <2>1. IsFiniteSet({"scheduler"})
    BY FS_Singleton
  <2>2. IsFiniteSet({"scheduler"} \cup {"button"})
    BY <2>1, FS_AddElement
  <2>3. IsFiniteSet(({"scheduler"} \cup {"button"}) \cup {"daemon"})
    BY <2>2, FS_AddElement
  <2>4. {"scheduler", "button", "daemon"} = ({"scheduler"} \cup {"button"}) \cup {"daemon"}
    OBVIOUS
  <2> QED BY <2>3, <2>4
<1>3. IsFiniteSet(Runner)
  BY <1>2, FS_Subset, AutomationsAssumption
<1>4. Cardinality(Runner) \in Nat
  BY <1>3, FS_CardinalityType
<1>5. Cardinality(Automation) + Cardinality(Runner) \in Nat
  BY <1>1, <1>4
<1>6. IsFiniteSet(1 .. Cardinality(Automation) + Cardinality(Runner))
      /\ Cardinality(1 .. Cardinality(Automation) + Cardinality(Runner))
           = Cardinality(Automation) + Cardinality(Runner)
  BY <1>5, FS_Interval
<1> QED BY <1>1, <1>3, <1>4, <1>6 DEF File

(* A function from a finite set has no more values than arguments.         *)
LEMMA FewValues ==
  ASSUME NEW S, IsFiniteSet(S), NEW f, NEW V, \A v \in V : \E x \in S : f[x] = v
  PROVE  IsFiniteSet(V) /\ Cardinality(V) <= Cardinality(S) /\ Cardinality(V) \in Nat
<1> DEFINE D == {x \in S : f[x] \in V}
           g == [x \in D |-> f[x]]
<1>1. IsFiniteSet(D) /\ Cardinality(D) <= Cardinality(S)
  BY FS_Subset, D \in SUBSET S
<1>2. g \in Surjection(D, V)
  BY DEF Surjection
<1>3. IsFiniteSet(V) /\ Cardinality(V) <= Cardinality(D)
  BY <1>1, <1>2, FS_Surjection
<1>4. Cardinality(V) \in Nat /\ Cardinality(D) \in Nat /\ Cardinality(S) \in Nat
  BY <1>1, <1>3, FS_CardinalityType
<1> QED BY <1>1, <1>3, <1>4

(* A runner that has no file open finds a file that nobody uses.           *)
LEMMA NewIsFile ==
  ASSUME RunnerOK, NEW w \in Runner, open[w] = None
  PROVE  New \in File
<1> DEFINE A == {f \in File : \E a \in Automation : path[a] = f}
           B == {f \in File : \E v \in Runner \ {w} : open[v] = f}
<1>1. IsFiniteSet(A) /\ Cardinality(A) <= Cardinality(Automation) /\ Cardinality(A) \in Nat
  BY Counted, FewValues
<1>2. IsFiniteSet(Runner \ {w}) /\ Cardinality(Runner \ {w}) = Cardinality(Runner) - 1
  BY Counted, FS_RemoveElement
<1>3. IsFiniteSet(B) /\ Cardinality(B) <= Cardinality(Runner \ {w}) /\ Cardinality(B) \in Nat
  BY <1>2, FewValues
<1>4. IsFiniteSet(A \cup B)
      /\ Cardinality(A \cup B) = Cardinality(A) + Cardinality(B) - Cardinality(A \cap B)
  BY <1>1, <1>3, FS_Union
<1>5. IsFiniteSet(A \cap B) /\ Cardinality(A \cap B) \in Nat
  BY <1>1, FS_Subset, FS_CardinalityType, A \cap B \in SUBSET A
<1>6. Cardinality(A \cup B) < Cardinality(File)
  BY <1>1, <1>2, <1>3, <1>4, <1>5, Counted
<1>7. PICK f \in File : f \notin A \cup B
  <2>1. Cardinality(File) \in Nat
    BY Counted
  <2>2. A \cup B # File
    <3> HIDE DEF A, B
    <3> QED BY <1>6, <2>1
  <2> QED BY <2>2
<1>8. f # None
  BY AutomationsAssumption, Counted DEF File
<1>9. f \notin {path[a] : a \in Automation} \cup {open[v] : v \in Runner}
  BY <1>7, <1>8
<1> QED BY <1>9 DEF New

LEMMA Names ==
  /\ Runner \subseteq {"scheduler", "button", "daemon"}
  /\ \A w \in Writer : ProcessOf(w) \in Process
  /\ Runner \subseteq Writer /\ {"user", "session"} \subseteq Writer
  /\ \A w \in Runner : ProcessOf(w) \in Process
  /\ "session" \notin Runner
  /\ \A w \in Runner : w # "daemon" => ProcessOf(w) = "desktop"
  /\ ProcessOf("daemon") = "daemon"
BY AutomationsAssumption DEF Writer, ProcessOf, Process
LEMMA MarkedOK ==
  ASSUME NEW row \in Row, NEW op \in Op
  PROVE  Marked(row, op) \in Row \cup {Deleted}
<1>1. CASE op \in [kind : {"ran", "failed"}, auto : Automation, at : Nat, next : Nat]
  BY <1>1 DEF Marked, Row
<1>2. CASE op \in [kind : {"outcome"}, auto : Automation, at : Nat, status : Status]
  BY <1>2 DEF Marked, Row
<1>3. CASE op \in [kind : {"off", "on", "delete"}, auto : Automation]
  BY <1>3 DEF Marked, Row
<1> QED BY <1>1, <1>2, <1>3 DEF Op

LEMMA OpAuto == \A op \in Op : op.auto \in Automation
BY DEF Op

LEMMA SaveOK ==
  ASSUME TimeOK, WorkOK, NEW w \in Writer, Save(w)
  PROVE  /\ list' \in List
         /\ upd' \in [Writer -> Upd \cup {None}]
         /\ upd[w] \in Upd
<1>1. upd[w] \in Upd
  BY DEF WorkOK, Save
<1>2. upd[w].seen \in List /\ upd[w].op \in Op /\ upd[w].op.auto \in Automation
  BY <1>1, OpAuto DEF Upd
<1>3. Found(upd[w]) => Marked(upd[w].seen[upd[w].op.auto], upd[w].op) \in Row \cup {Deleted}
  BY <1>2, MarkedOK DEF Found, List
<1>4. Found(upd[w]) => Written(upd[w]) \in List
  BY <1>2, <1>3 DEF Written, List
<1>5. list' \in List
  BY <1>4 DEF Save, TimeOK
<1> QED BY <1>1, <1>5 DEF Save, WorkOK

LEMMA LoadOK ==
  ASSUME TimeOK, WorkOK, NEW w \in Writer, NEW op \in Op, Load(w, op)
  PROVE  upd' \in [Writer -> Upd \cup {None}]
<1>1. [seen |-> list, op |-> op] \in Upd
  BY DEF Upd, TimeOK
<1> QED BY <1>1 DEF Load, WorkOK

LEMMA FinishedOK ==
  ASSUME NEW row \in Run, NEW status \in Status
  PROVE  Finished(row, status) \in Run /\ Dispatched(row) \in Run
BY DEF Finished, Dispatched, Run, Status

LEMMA TouchOK ==
  ASSUME LedgerOK, NEW r \in RunId, NEW row \in Run, Touch(r, row)
  PROVE  /\ ledger' \in Seq(Run) /\ Len(ledger') = Len(ledger) /\ RunId' = RunId
         /\ \A q \in RunId : ledger'[q] = IF q = r THEN row ELSE ledger[q]
         /\ old' \subseteq RunId
<1>1. ledger \in Seq(Run) /\ r \in 1 .. Len(ledger) /\ ledger' = [ledger EXCEPT ![r] = row]
  BY DEF LedgerOK, RunId, Touch
<1>2. /\ ledger' \in Seq(Run) /\ Len(ledger') = Len(ledger)
      /\ \A q \in 1 .. Len(ledger) : ledger'[q] = IF q = r THEN row ELSE ledger[q]
  BY <1>1, ExceptSeq
<1> QED BY <1>2 DEF RunId, LedgerOK, Touch

LEMMA RowOfRun == LedgerOK => \A r \in RunId : ledger[r] \in Run /\ turn[r] \in TurnState
BY ElementOfSeq DEF LedgerOK, RunId

LEMMA JobLonger ==
  ASSUME NEW w, NEW j, NEW o, NEW n \in Nat, NEW m \in Nat, n <= m, JobOK(w, j, o, n)
  PROVE  JobOK(w, j, o, m)
<1>1. 1 .. n \subseteq 1 .. m
  OBVIOUS
<1>2. j \in JobRecord(m)
  BY <1>1 DEF JobOK, JobRecord
<1> QED BY <1>1, <1>2 DEF JobOK

LEMMA LengthIsNat == LedgerOK => Len(ledger) \in Nat
BY LenProperties DEF LedgerOK

(* One job changes, and nothing else of the runners.                       *)
LEMMA JobSet ==
  ASSUME LedgerOK, RunnerOK, NEW w \in Runner, NEW j,
         job' = [job EXCEPT ![w] = j], UNCHANGED claims, ledger' \in Seq(Run),
         Len(ledger) <= Len(ledger'), JobOK(w, j, open[w], Len(ledger'))
  PROVE  RunnerOK'
<1>1. Len(ledger) \in Nat /\ Len(ledger') \in Nat
  BY LengthIsNat, LenProperties
<1>2. \A v \in Runner : JobOK(v, job'[v], open[v], Len(ledger'))
  <2> SUFFICES ASSUME NEW v \in Runner PROVE JobOK(v, job'[v], open[v], Len(ledger'))
    OBVIOUS
  <2>1. CASE v = w
    BY <2>1 DEF RunnerOK
  <2>2. CASE v # w
    <3>1. job'[v] = job[v] /\ JobOK(v, job[v], open[v], Len(ledger))
      BY <2>2 DEF RunnerOK
    <3> QED BY <3>1, <1>1, JobLonger
  <2> QED BY <2>1, <2>2
<1>3. job' \in [Runner -> JobRecord(Len(ledger'))]
  BY <1>2 DEF RunnerOK, JobOK
<1> QED BY <1>2, <1>3 DEF RunnerOK, claims

LEMMA GotoOK ==
  ASSUME LedgerOK, RunnerOK, NEW w \in Runner, NEW pc \in Taking \ {"claim"}, Goto(w, pc),
         job[w].pc \in Taking, pc \in Ran => job[w].pc \in Ran,
         pc \in {"await", "finish"} => w = "daemon",
         UNCHANGED claims, ledger' \in Seq(Run), Len(ledger') = Len(ledger)
  PROVE  RunnerOK'
<1> DEFINE j == [job[w] EXCEPT !.pc = pc]
<1>1. JobOK(w, job[w], open[w], Len(ledger)) /\ job[w] \in JobRecord(Len(ledger))
  BY DEF RunnerOK
<1>2. j \in JobRecord(Len(ledger)) /\ j.pc = pc /\ j.auto = job[w].auto
      /\ j.row = job[w].row /\ j.run = job[w].run
  <2>1. pc \in Pc
    BY DEF Pc
  <2> QED BY <1>1, <2>1 DEF JobRecord
<1>3. JobOK(w, j, open[w], Len(ledger))
  BY <1>1, <1>2 DEF JobOK, Taking, Ran
<1>4. job' = [job EXCEPT ![w] = j]
  BY DEF Goto, RunnerOK
<1>5. Len(ledger) \in Nat
  BY LengthIsNat
<1>6. Len(ledger) <= Len(ledger') /\ JobOK(w, j, open[w], Len(ledger'))
  BY <1>3, <1>5
<1> HIDE DEF j
<1> QED BY <1>4, <1>6, JobSet

LEMMA IdleOK ==
  ASSUME NEW w \in Runner, NEW n \in Nat
  PROVE  JobOK(w, Idle, None, n)
BY DEF JobOK, Idle, JobRecord, Pc, Taking, Ran

LEMMA ScanningOK ==
  ASSUME NEW w \in Runner, NEW n \in Nat, NEW j \in JobRecord(n)
  PROVE  JobOK(w, Scanning(j), None, n)
<1>1. CASE j.todo = {}
  BY <1>1, IdleOK DEF Scanning
<1>2. CASE j.todo # {}
  BY <1>2 DEF Scanning, JobOK, Idle, JobRecord, Pc, Taking, Ran
<1> QED BY <1>1, <1>2

LEMMA ReleaseOK ==
  ASSUME LedgerOK, RunnerOK, NEW w \in Runner, Release(w), job[w].pc \in Taking,
         ledger' \in Seq(Run), Len(ledger') = Len(ledger)
  PROVE  RunnerOK'
<1>1. Len(ledger) \in Nat
  BY LengthIsNat
<1>2. job[w] \in JobRecord(Len(ledger)) /\ job[w].auto \in Automation
  BY DEF RunnerOK, JobOK
<1>3. JobOK(w, Scanning(job[w]), None, Len(ledger))
  BY <1>1, <1>2, ScanningOK
<1>4. /\ job' = [job EXCEPT ![w] = Scanning(job[w])]
      /\ open' = [open EXCEPT ![w] = None]
      /\ locked' = locked \ {w}
      /\ path' \in {path, [path EXCEPT ![job[w].auto] = None]}
  BY DEF Release, Unlocked, Removed, RunnerOK
<1>5. path' \in [Automation -> File \cup {None}] /\ open' \in [Runner -> File \cup {None}]
      /\ locked' \subseteq {v \in Runner : open'[v] # None}
  BY <1>4 DEF RunnerOK
<1>6. \A v \in Runner : JobOK(v, job'[v], open'[v], Len(ledger'))
  BY <1>3, <1>4 DEF RunnerOK
<1>7. job' \in [Runner -> JobRecord(Len(ledger'))]
  BY <1>4, <1>6 DEF RunnerOK, JobOK
<1> QED BY <1>5, <1>6, <1>7 DEF RunnerOK
LEMMA NextIsNat ==
  ASSUME NEW a, NEW row \in Row, NEW from \in Nat
  PROVE  NextRunAt(a, row, from) \in Nat
BY DEF NextRunAt

LEMMA UpdateOK ==
  ASSUME TimeOK, LedgerOK, RunnerOK, NEW w \in Runner, Marking(w)
  PROVE  Update(w) \in Op /\ job[w].pc \in Ran
<1>1. job[w].pc \in Ran /\ job[w].auto \in Automation /\ job[w].row \in Row
      /\ job[w].run \in RunId /\ job[w].at \in Nat /\ job[w].now \in Nat
  BY DEF RunnerOK, JobOK, JobRecord, Marking, Ran, Taking, RunId
<1>2. day \in Nat /\ stamp + 1 \in Nat /\ day + 1 \in Nat
  BY AutomationsAssumption DEF TimeOK
<1>3. ledger[job[w].run].at \in Nat /\ ledger[job[w].run].status \in Status
  BY <1>1, RowOfRun DEF Run
<1>4. NextRunAt(job[w].auto, job[w].row, day) \in Nat
      /\ NextRunAt(job[w].auto, job[w].row, job[w].now) \in Nat
  BY <1>1, <1>2, NextIsNat
<1>5. CASE job[w].pc = "mark"
  BY <1>1, <1>2, <1>4, <1>5 DEF Update, Op
<1>6. CASE job[w].pc = "disable"
  BY <1>1, <1>6 DEF Update, Op
<1>7. CASE job[w].pc = "outcome"
  BY <1>1, <1>3, <1>7 DEF Update, Op
<1>8. CASE job[w].pc = "failed"
  BY <1>1, <1>2, <1>4, <1>8 DEF Update, Op
<1> QED BY <1>1, <1>5, <1>6, <1>7, <1>8 DEF Marking

(* What a step leaves alone keeps its type.                                *)
LEMMA TimeKept ==
  TimeOK /\ UNCHANGED <<day, stamp, list, edits, crashes, paused>> => TimeOK'
BY DEF TimeOK

LEMMA LedgerKept == LedgerOK /\ UNCHANGED <<ledger, turn, old, stale, links>> => LedgerOK'
BY DEF LedgerOK, RunId

LEMMA RunnerKept ==
  RunnerOK /\ UNCHANGED <<claims, job>> /\ Len(ledger') = Len(ledger) => RunnerOK'
BY DEF RunnerOK, claims

LEMMA WorkKept ==
  WorkOK /\ UNCHANGED <<proc, upd, entry>> /\ RunId \subseteq RunId' => WorkOK'
BY DEF WorkOK

LEMMA WorkUpdated ==
  WorkOK /\ UNCHANGED <<proc, entry>> /\ upd' \in [Writer -> Upd \cup {None}]
    /\ RunId \subseteq RunId' => WorkOK'
BY DEF WorkOK

LEMMA WorkEntered ==
  ASSUME WorkOK, NEW p \in Process, NEW e \in Entry \cup {None}, UNCHANGED <<proc, upd>>,
         entry' = [entry EXCEPT ![p] = e], e # None => e.run \in RunId, RunId' = RunId
  PROVE  WorkOK'
BY DEF WorkOK

LEMMA TurnSet ==
  ASSUME LedgerOK, NEW r \in RunId, NEW t \in TurnState, turn' = [turn EXCEPT ![r] = t]
  PROVE  /\ turn' \in Seq(TurnState) /\ Len(turn') = Len(turn)
         /\ \A q \in RunId : turn'[q] = IF q = r THEN t ELSE turn[q]
<1>1. r \in 1 .. Len(turn) /\ turn \in Seq(TurnState)
  BY DEF LedgerOK, RunId
<1> QED BY <1>1, ExceptSeq DEF LedgerOK, RunId

-----------------------------------------------------------------------------
(* The walk of the schedulers                                              *)

LEMMA TickTypes == ASSUME TypeInv, NEW w \in Runner, Tick(w) PROVE TypeInv'
<1> USE DEF TypeInv
<1> DEFINE due == {<<a, list[a]>> : a \in {b \in Automation : IsDue(list[b], day)}}
           j == [Idle EXCEPT !.pc = "scan", !.todo = due, !.now = day, !.at = stamp]
<1>1. due \subseteq Automation \X Row
  BY DEF IsDue, TimeOK, List
<1>2. day \in Nat /\ stamp \in Nat
  BY AutomationsAssumption DEF TimeOK
<1>3. JobOK(w, j, open[w], Len(ledger))
  <2>1. open[w] = None
    BY DEF Tick, At, RunnerOK, JobOK
  <2> HIDE DEF due
  <2> QED BY <1>1, <1>2, <2>1 DEF JobOK, JobRecord, Idle, Pc, Taking, Ran
<1>4. RunnerOK'
  <2>1. job' = [job EXCEPT ![w] = j] /\ UNCHANGED <<ledger, claims>>
    BY DEF Tick
  <2>2. Len(ledger) <= Len(ledger') /\ ledger' \in Seq(Run)
    BY <2>1, LengthIsNat DEF LedgerOK
  <2> HIDE DEF j
  <2> QED BY <1>3, <2>1, <2>2, JobSet
<1> QED BY <1>4, TimeKept, LedgerKept, WorkKept DEF Tick, RunId

LEMMA OpenClaimTypes == ASSUME TypeInv, NEW w \in Runner, OpenClaim(w) PROVE TypeInv'
<1> USE DEF TypeInv
<1>1. PICK due \in job[w].todo :
        LET file == IF path[due[1]] = None THEN New ELSE path[due[1]]
        IN  /\ path' = [path EXCEPT ![due[1]] = file]
            /\ open' = [open EXCEPT ![w] = file]
            /\ job' = [job EXCEPT ![w].todo = @ \ {due}, ![w].auto = due[1],
                                  ![w].row = due[2], ![w].pc = "claim"]
  BY DEF OpenClaim
<1> DEFINE file == IF path[due[1]] = None THEN New ELSE path[due[1]]
           j == [[[[job[w] EXCEPT !.todo = @ \ {due}] EXCEPT !.auto = due[1]]
                   EXCEPT !.row = due[2]] EXCEPT !.pc = "claim"]
<1>2. job[w] \in JobRecord(Len(ledger)) /\ open[w] = None
  BY DEF OpenClaim, At, RunnerOK, JobOK
<1>3. due[1] \in Automation /\ due[2] \in Row
  BY <1>2 DEF JobRecord
<1>4. file \in File
  BY <1>2, <1>3, NewIsFile DEF RunnerOK
<1>5. JobOK(w, j, file, Len(ledger))
  <2>1. j \in JobRecord(Len(ledger)) /\ j.pc = "claim" /\ j.auto = due[1] /\ j.row = due[2]
    BY <1>2, <1>3 DEF JobRecord, Pc, Taking
  <2> HIDE DEF j, file
  <2> QED BY <2>1, <1>3, <1>4 DEF JobOK, Ran
<1>6. job' = [job EXCEPT ![w] = j] /\ open' = [open EXCEPT ![w] = file]
      /\ path' = [path EXCEPT ![due[1]] = file]
  BY <1>1 DEF RunnerOK
<1>8. UNCHANGED <<ledger, locked>>
  BY DEF OpenClaim
<1>7. RunnerOK'
  <2> HIDE DEF j, file
  <2>1. file # None
    BY <1>4, AutomationsAssumption, Counted DEF File
  <2>2. \A v \in Runner : JobOK(v, job'[v], open'[v], Len(ledger'))
    BY <1>5, <1>6, <1>8 DEF RunnerOK
  <2>3. job' \in [Runner -> JobRecord(Len(ledger'))]
    BY <1>6, <2>2 DEF RunnerOK, JobOK
  <2> QED BY <1>3, <1>4, <1>6, <1>8, <2>1, <2>2, <2>3 DEF RunnerOK
<1> QED BY <1>7, TimeKept, LedgerKept, WorkKept DEF OpenClaim, RunId

LEMMA ClaimTypes == ASSUME TypeInv, NEW w \in Runner, Claim(w) PROVE TypeInv'
<1> USE DEF TypeInv
<1> DEFINE pc == IF w = "daemon" THEN "reread" ELSE "start"
           j == [job[w] EXCEPT !.pc = pc]
<1>1. JobOK(w, job[w], open[w], Len(ledger)) /\ job[w].pc = "claim"
      /\ job[w] \in JobRecord(Len(ledger)) /\ open[w] \in File
  BY DEF RunnerOK, Claim, At, JobOK
<1>2. open[w] # None
  BY <1>1, AutomationsAssumption, Counted DEF File
<1>3. j \in JobRecord(Len(ledger)) /\ j.pc = pc /\ j.auto = job[w].auto /\ j.row = job[w].row
  <2>1. pc \in Pc
    BY DEF Pc, Taking
  <2> HIDE DEF pc
  <2> QED BY <1>1, <2>1 DEF JobRecord
<1>4. JobOK(w, j, open[w], Len(ledger))
  <2> HIDE DEF j
  <2> QED BY <1>1, <1>3 DEF JobOK, Taking, Ran
<1>5. job' = [job EXCEPT ![w] = j] /\ locked' = locked \cup {w} /\ UNCHANGED <<path, open, ledger>>
  BY DEF Claim, Goto, RunnerOK
<1>6. RunnerOK'
  <2> HIDE DEF j
  <2>1. \A v \in Runner : JobOK(v, job'[v], open'[v], Len(ledger'))
    BY <1>4, <1>5 DEF RunnerOK
  <2>2. job' \in [Runner -> JobRecord(Len(ledger'))]
    BY <1>5, <2>1 DEF RunnerOK, JobOK
  <2> QED BY <1>2, <1>5, <2>1, <2>2 DEF RunnerOK
<1> QED BY <1>6, TimeKept, LedgerKept, WorkKept DEF Claim, RunId

LEMMA SkipTypes == ASSUME TypeInv, NEW w \in Runner, Skip(w) PROVE TypeInv'
<1> USE DEF TypeInv
<1>1. job[w].pc \in Taking
  BY DEF Skip, At, Taking
<1>2. RunnerOK'
  BY <1>1, ReleaseOK DEF Skip, LedgerOK
<1> QED BY <1>2, TimeKept, LedgerKept, WorkKept DEF Skip, RunId

LEMMA RereadTypes == ASSUME TypeInv, NEW w \in Runner, Reread(w) PROVE TypeInv'
<1> USE DEF TypeInv
<1>1. job[w].pc = "reread" /\ job[w].auto \in Automation /\ ledger' = ledger
  BY DEF Reread, At, RunnerOK, JobOK, Taking
<1>2. CASE IsDue(list[job[w].auto], job[w].now)
  <2> DEFINE row == list[job[w].auto]
             j == [[job[w] EXCEPT !.row = row] EXCEPT !.pc = "start"]
  <2>1. row \in Row
    BY <1>1, <1>2 DEF IsDue, TimeOK, List
  <2>2. job[w] \in JobRecord(Len(ledger))
    BY DEF RunnerOK
  <2>3. j \in JobRecord(Len(ledger)) /\ j.pc = "start" /\ j.auto = job[w].auto /\ j.row = row
    <3> HIDE DEF row
    <3> QED BY <2>1, <2>2 DEF JobRecord, Pc, Taking
  <2>4. JobOK(w, j, open[w], Len(ledger))
    <3> HIDE DEF j, row
    <3> QED BY <1>1, <2>1, <2>3 DEF JobOK, Ran
  <2>5. job' = [job EXCEPT ![w] = j] /\ UNCHANGED claims
    BY <1>2 DEF Reread, RunnerOK
  <2>6. Len(ledger) <= Len(ledger') /\ ledger' \in Seq(Run)
    BY <1>1, LengthIsNat DEF LedgerOK
  <2>7. RunnerOK'
    <3> HIDE DEF j
    <3> QED BY <1>1, <2>4, <2>5, <2>6, JobSet
  <2> QED BY <2>7, TimeKept, LedgerKept, WorkKept DEF Reread, RunId
<1>3. CASE ~IsDue(list[job[w].auto], job[w].now)
  <2>1. Release(w) /\ job[w].pc \in Taking
    BY <1>1, <1>3 DEF Reread, Taking
  <2>2. RunnerOK'
    BY <1>1, <2>1, ReleaseOK DEF LedgerOK
  <2> QED BY <2>2, TimeKept, LedgerKept, WorkKept DEF Reread, RunId
<1> QED BY <1>2, <1>3

LEMMA PressTypes == ASSUME TypeInv, NEW a \in Automation, Press(a) PROVE TypeInv'
<1> USE DEF TypeInv
<1> DEFINE j == [Idle EXCEPT !.pc = "start", !.auto = a, !.row = list[a]]
<1>1. "button" \in Runner /\ list[a] \in Row /\ job["button"].pc = "idle"
  BY DEF Press, TimeOK, List, At
<1>2. JobOK("button", j, open["button"], Len(ledger))
  BY <1>1 DEF JobOK, JobRecord, Idle, Pc, Taking, Ran
<1>3. job' = [job EXCEPT !["button"] = j] /\ UNCHANGED <<ledger, claims>>
  BY DEF Press
<1>4. Len(ledger) <= Len(ledger') /\ ledger' \in Seq(Run)
  BY <1>3, LengthIsNat DEF LedgerOK
<1>5. RunnerOK'
  <2> HIDE DEF j
  <2> QED BY <1>1, <1>2, <1>3, <1>4, JobSet
<1> QED BY <1>5, TimeKept, LedgerKept, WorkKept DEF Press, RunId
-----------------------------------------------------------------------------
(* One run                                                                 *)

LEMMA StartRunTypes == ASSUME TypeInv, NEW w \in Runner, StartRun(w) PROVE TypeInv'
<1> USE DEF TypeInv
<1> DEFINE row == [auto |-> job[w].auto, by |-> w,
                   slot |-> IF w = "button" THEN 0 ELSE job[w].row.next,
                   at |-> stamp', status |-> "started"]
           j == [[job[w] EXCEPT !.run = Len(ledger')] EXCEPT !.pc = "open"]
<1>1. job[w].pc = "start" /\ job[w].auto \in Automation /\ job[w].row \in Row
      /\ job[w] \in JobRecord(Len(ledger))
  BY DEF StartRun, At, RunnerOK, JobOK, Taking
<1>2. stamp' = stamp + 1 /\ stamp' \in Nat
  BY DEF StartRun, TimeOK
<1>3. row \in Run
  BY <1>1, <1>2 DEF Run, Row, Status
<1>4. ledger' = Append(ledger, row) /\ turn' = Append(turn, "none")
  BY DEF StartRun
<1>5. /\ ledger' \in Seq(Run) /\ Len(ledger') = Len(ledger) + 1
      /\ \A r \in RunId : ledger'[r] = ledger[r]
  <2> HIDE DEF row
  <2> QED BY <1>3, <1>4, AppendProperties DEF LedgerOK, RunId
<1>6. turn' \in Seq(TurnState) /\ Len(turn') = Len(turn) + 1
  BY <1>4, AppendProperties DEF LedgerOK, TurnState
<1>7. Len(ledger) \in Nat /\ Len(ledger) < MaxRuns /\ MaxRuns \in Nat /\ RunId \subseteq RunId'
  BY <1>5, LengthIsNat, AutomationsAssumption DEF StartRun, RunId
<1>8. LedgerOK'
  <2>1. Len(ledger') \in RunId'
    BY <1>5, <1>7 DEF RunId
  <2>2. active' \subseteq RunId' /\ after' \subseteq RunId'
    BY <1>7, <2>1 DEF LedgerOK, StartRun
  <2> QED BY <1>5, <1>6, <1>7, <2>2 DEF LedgerOK, StartRun
<1>9. RunnerOK'
  <2>1. j \in JobRecord(Len(ledger')) /\ j.pc = "open" /\ j.auto = job[w].auto
        /\ j.row = job[w].row /\ j.run = Len(ledger')
    <3>1. 1 .. Len(ledger) \subseteq 1 .. Len(ledger') /\ Len(ledger') \in 1 .. Len(ledger')
      BY <1>5, <1>7
    <3>2. "open" \in Pc
      BY DEF Pc, Taking, Ran
    <3> QED BY <1>1, <3>1, <3>2 DEF JobRecord
  <2>2. JobOK(w, j, open[w], Len(ledger'))
    <3> HIDE DEF j
    <3> QED BY <1>1, <1>5, <1>7, <2>1 DEF JobOK, Taking, Ran
  <2>3. job' = [job EXCEPT ![w] = j] /\ UNCHANGED claims
    BY DEF StartRun, RunnerOK
  <2>4. Len(ledger) <= Len(ledger')
    BY <1>5, <1>7
  <2> HIDE DEF j
  <2> QED BY <1>5, <2>2, <2>3, <2>4, JobSet
<1>10. TimeOK'
  BY <1>2 DEF StartRun, TimeOK
<1> QED BY <1>7, <1>8, <1>9, <1>10, WorkKept DEF StartRun

LEMMA OpenTypes == ASSUME TypeInv, NEW w \in Runner, Open(w) PROVE TypeInv'
<1> USE DEF TypeInv
<1>1. job[w].pc = "open" /\ job[w].run \in RunId
  BY DEF Open, At, RunnerOK, JobOK, Ran, RunId
<1>2. /\ ledger' \in Seq(Run) /\ Len(ledger') = Len(ledger) /\ RunId' = RunId
      /\ old' \subseteq RunId
  <2>1. CASE w = "button"
    BY <2>1 DEF Open, LedgerOK, RunId
  <2>2. CASE w # "button"
    <3>1. ledger[job[w].run] \in Run /\ Touch(job[w].run, ledger[job[w].run])
      BY <1>1, <2>2, RowOfRun DEF Open
    <3> QED BY <1>1, <3>1, TouchOK
  <2> QED BY <2>1, <2>2
<1>3. RunnerOK'
  BY <1>1, <1>2, GotoOK DEF Open, Taking, Ran
<1>4. LedgerOK'
  BY <1>1, <1>2 DEF Open, LedgerOK
<1> QED BY <1>2, <1>3, <1>4, TimeKept, WorkKept DEF Open

LEMMA SendTypes == ASSUME TypeInv, NEW w \in Runner, Send(w) PROVE TypeInv'
<1> USE DEF TypeInv
<1>1. job[w].pc = "send" /\ job[w].run \in RunId
  BY DEF Send, At, RunnerOK, JobOK, Ran, RunId
<1>2. turn' \in Seq(TurnState) /\ Len(turn') = Len(turn)
  BY <1>1, TurnSet DEF Send, TurnState
<1>3. LedgerOK'
  BY <1>2 DEF Send, LedgerOK, RunId
<1>4. w \in {"scheduler", "button", "daemon"}
  BY Names
<1>5. PICK pc \in {"dispatched", "mark", "await"} : Goto(w, pc) /\ (pc = "await" => w = "daemon")
  BY <1>4 DEF Send
<1>6. RunnerOK'
  BY <1>1, <1>5, GotoOK DEF Send, Taking, Ran, LedgerOK
<1> QED BY <1>3, <1>6, TimeKept, WorkKept DEF Send, RunId

LEMMA FailTypes == ASSUME TypeInv, NEW w \in Runner, Fail(w) PROVE TypeInv'
<1> USE DEF TypeInv
<1>1. job[w].pc \in Ran /\ job[w].pc \in Taking
  BY DEF Fail, At, Ran, Taking
<1>2. RunnerOK'
  BY <1>1, GotoOK DEF Fail, Taking, Ran, LedgerOK
<1> QED BY <1>2, TimeKept, LedgerKept, WorkKept DEF Fail, RunId

LEMMA AwaitEndsTypes == ASSUME TypeInv, NEW end \in Ends, AwaitEnds(end) PROVE TypeInv'
<1> USE DEF TypeInv
<1>1. "daemon" \in Runner /\ job["daemon"].pc = "await" /\ job["daemon"].run \in RunId
  BY DEF AwaitEnds, At, RunnerOK, JobOK, Ran, RunId
<1>2. turn' \in Seq(TurnState) /\ Len(turn') = Len(turn)
  BY <1>1, TurnSet DEF AwaitEnds, TurnState, Over
<1>3. LedgerOK'
  BY <1>2 DEF AwaitEnds, LedgerOK, RunId
<1>4. RunnerOK'
  BY <1>1, GotoOK DEF AwaitEnds, Taking, Ran, LedgerOK
<1> QED BY <1>3, <1>4, TimeKept, WorkKept DEF AwaitEnds, RunId

LEMMA MarkDispatchedTypes ==
  ASSUME TypeInv, NEW w \in Runner, MarkDispatched(w) PROVE TypeInv'
<1> USE DEF TypeInv
<1>1. job[w].pc = "dispatched" /\ job[w].run \in RunId
  BY DEF MarkDispatched, At, RunnerOK, JobOK, Ran, RunId
<1>2. Dispatched(ledger[job[w].run]) \in Run
  BY <1>1, RowOfRun, FinishedOK DEF Status
<1>3. /\ ledger' \in Seq(Run) /\ Len(ledger') = Len(ledger) /\ RunId' = RunId
      /\ old' \subseteq RunId
  BY <1>1, <1>2, TouchOK DEF MarkDispatched
<1>4. RunnerOK'
  BY <1>1, <1>3, GotoOK DEF MarkDispatched, Taking, Ran
<1>5. LedgerOK'
  BY <1>3 DEF MarkDispatched, LedgerOK
<1> QED BY <1>3, <1>4, <1>5, TimeKept, WorkKept DEF MarkDispatched

LEMMA MarkLoadTypes == ASSUME TypeInv, NEW w \in Runner, MarkLoad(w) PROVE TypeInv'
<1> USE DEF TypeInv
<1>1. upd' \in [Writer -> Upd \cup {None}]
  BY UpdateOK, LoadOK, Names DEF MarkLoad
<1>2. TimeOK'
  BY DEF MarkLoad, TimeOK
<1> QED BY <1>1, <1>2, LedgerKept, RunnerKept, WorkUpdated DEF MarkLoad, RunId

LEMMA MarkSaveTypes == ASSUME TypeInv, NEW w \in Runner, MarkSave(w) PROVE TypeInv'
<1> USE DEF TypeInv
<1>1. list' \in List /\ upd' \in [Writer -> Upd \cup {None}]
  BY SaveOK, Names DEF MarkSave
<1>2. TimeOK'
  BY <1>1 DEF MarkSave, TimeOK
<1>3. job[w].pc \in Ran /\ job[w].pc \in Taking /\ UNCHANGED ledger
  BY DEF MarkSave, Marking, Ran, Taking
<1>4. RunnerOK'
  <2>1. CASE AfterMark(w) = "end"
    BY <1>3, <2>1, ReleaseOK DEF MarkSave, LedgerOK
  <2>2. CASE AfterMark(w) # "end"
    <3>1. AfterMark(w) \in {"fail", "disable", "finish"} /\ (AfterMark(w) = "finish" => w = "daemon")
      BY <2>2 DEF AfterMark
    <3>2. Goto(w, AfterMark(w)) /\ UNCHANGED claims
      BY <2>2 DEF MarkSave
    <3> QED BY <1>3, <3>1, <3>2, GotoOK DEF Taking, Ran, LedgerOK
  <2> QED BY <2>1, <2>2
<1> QED BY <1>1, <1>2, <1>3, <1>4, LedgerKept, WorkUpdated DEF MarkSave, RunId

LEMMA FinishReadTypes == ASSUME TypeInv, NEW w \in Runner, FinishRead(w) PROVE TypeInv'
<1> USE DEF TypeInv
<1> DEFINE e == [run |-> job[w].run, by |-> w, row |-> ledger[job[w].run]]
<1>1. job[w].run \in RunId
  BY DEF FinishRead, At, RunnerOK, JobOK, Ran, RunId
<1>2. e \in Entry /\ e.run \in RunId
  BY <1>1, RowOfRun, LengthIsNat DEF Entry, RunId
<1>3. WorkOK'
  <2>1. /\ UNCHANGED <<proc, upd, ledger>> /\ ProcessOf(w) \in Process
        /\ entry' = [entry EXCEPT ![ProcessOf(w)] = e]
    BY Names DEF FinishRead
  <2> HIDE DEF e
  <2> QED BY <1>2, <2>1, WorkEntered DEF RunId
<1> QED BY <1>3, TimeKept, LedgerKept, RunnerKept DEF FinishRead

LEMMA FinishAppendTypes == ASSUME TypeInv, NEW w \in Runner, FinishAppend(w) PROVE TypeInv'
<1> USE DEF TypeInv
<1> DEFINE e == entry[ProcessOf(w)]
           status == IF job[w].pc = "finish" THEN "completed" ELSE "failed"
<1>1. ProcessOf(w) \in Process /\ e \in Entry /\ e.run \in RunId /\ e.row \in Run
  BY Names DEF FinishAppend, WorkOK, Entry
<1>2. Finished(e.row, status) \in Run
  BY <1>1, FinishedOK DEF Status, Terminal
<1>3. Touch(e.run, Finished(e.row, status))
  BY DEF FinishAppend
<1>4. /\ ledger' \in Seq(Run) /\ Len(ledger') = Len(ledger) /\ RunId' = RunId
      /\ old' \subseteq RunId
  <2> HIDE DEF e, status
  <2> QED BY <1>1, <1>2, <1>3, TouchOK
<1>5. job[w].pc \in {"finish", "fail"} /\ job[w].pc \in Ran /\ job[w].pc \in Taking
  BY DEF FinishAppend, At, Ran, Taking
<1>6. RunnerOK'
  <2>1. CASE job[w].pc = "fail"
    BY <1>4, <1>5, <2>1, GotoOK DEF FinishAppend, Taking, Ran
  <2>2. CASE job[w].pc # "fail"
    BY <1>4, <1>5, <2>2, ReleaseOK DEF FinishAppend
  <2> QED BY <2>1, <2>2
<1>7. LedgerOK'
  BY <1>4 DEF FinishAppend, LedgerOK
<1>8. WorkOK'
  <2>1. entry' = [entry EXCEPT ![ProcessOf(w)] = None] /\ UNCHANGED <<proc, upd>>
    BY DEF FinishAppend
  <2> QED BY <1>1, <1>4, <2>1, WorkEntered
<1> QED BY <1>6, <1>7, <1>8, TimeKept DEF FinishAppend
-----------------------------------------------------------------------------
(* The session manager, the user, time and processes                       *)

LEMMA OutcomeIsOp ==
  ASSUME NEW row \in Run, NEW status \in Status
  PROVE  [kind |-> "outcome", auto |-> row.auto, at |-> row.at, status |-> status] \in Op
BY DEF Op, Run

LEMMA SettledTypes ==
  ASSUME TypeInv, NEW r \in RunId, NEW end \in Ends \cup {"exit", "stop"}, Settled(r, end),
         turn' \in Seq(TurnState), Len(turn') = Len(turn), after' \subseteq RunId
  PROVE  TypeInv'
<1> USE DEF TypeInv
<1>1. ledger[r] \in Run
  BY RowOfRun
<1>2. StatusOf(end) \in Status
  BY DEF StatusOf, Ends, Status, Terminal
<1>3. Finished(ledger[r], StatusOf(end)) \in Run
  BY <1>1, <1>2, FinishedOK
<1>4. /\ ledger' \in Seq(Run) /\ Len(ledger') = Len(ledger) /\ RunId' = RunId
      /\ old' \subseteq RunId /\ ledger'[r] = Finished(ledger[r], StatusOf(end))
  BY <1>3, TouchOK DEF Settled
<1>5. LedgerOK'
  BY <1>4 DEF Settled, LedgerOK
<1>6. ledger'[r].status \in Status
  BY <1>3, <1>4 DEF Run
<1>7. upd' \in [Writer -> Upd \cup {None}]
  BY <1>1, <1>6, OutcomeIsOp, LoadOK, Names DEF Settled
<1> QED BY <1>4, <1>5, <1>7, TimeKept, RunnerKept, WorkUpdated DEF Settled

LEMMA SettleTypes ==
  ASSUME TypeInv, NEW r \in RunId, NEW end \in Ends \cup {"exit", "stop"}, Settle(r, end)
  PROVE  TypeInv'
<1>1. turn' \in Seq(TurnState) /\ Len(turn') = Len(turn)
  BY TurnSet DEF Settle, Over, TurnState, TypeInv
<1> QED BY <1>1, SettledTypes DEF Settle, TypeInv, LedgerOK

LEMMA OtherTurnTypes ==
  ASSUME TypeInv, NEW r \in RunId, NEW end \in Ends \cup {"exit", "stop"}, OtherTurn(r, end)
  PROVE  TypeInv'
BY SettledTypes DEF OtherTurn, TypeInv, LedgerOK

LEMMA TurnEndsTypes ==
  ASSUME TypeInv, NEW r \in RunId, NEW end \in {"done", "cut"}, TurnEnds(r, end)
  PROVE  TypeInv'
<1> USE DEF TypeInv
<1>1. turn' \in Seq(TurnState) /\ Len(turn') = Len(turn)
  BY TurnSet DEF TurnEnds, Over, TurnState
<1>2. LedgerOK'
  BY <1>1 DEF TurnEnds, LedgerOK, RunId
<1> QED BY <1>2, TimeKept, RunnerKept, WorkKept DEF TurnEnds, RunId

LEMMA SettleSaveTypes == ASSUME TypeInv, SettleSave PROVE TypeInv'
<1> USE DEF TypeInv
<1>1. list' \in List /\ upd' \in [Writer -> Upd \cup {None}]
  BY SaveOK, Names DEF SettleSave
<1>2. TimeOK'
  BY <1>1 DEF SettleSave, TimeOK
<1> QED BY <1>1, <1>2, LedgerKept, RunnerKept, WorkUpdated DEF SettleSave, RunId

LEMMA EditLoadTypes ==
  ASSUME TypeInv, NEW a \in Automation, NEW e \in Edit, EditLoad(a, e) PROVE TypeInv'
<1> USE DEF TypeInv
<1>1. [kind |-> e, auto |-> a] \in Op
  BY AutomationsAssumption DEF Op
<1>2. upd' \in [Writer -> Upd \cup {None}]
  BY <1>1, LoadOK, Names DEF EditLoad
<1>3. TimeOK'
  BY AutomationsAssumption DEF EditLoad, TimeOK
<1> QED BY <1>2, <1>3, LedgerKept, RunnerKept, WorkUpdated DEF EditLoad, RunId

LEMMA EditSaveTypes == ASSUME TypeInv, EditSave PROVE TypeInv'
<1> USE DEF TypeInv
<1>1. list' \in List /\ upd' \in [Writer -> Upd \cup {None}] /\ upd["user"] \in Upd
  BY SaveOK, Names DEF EditSave
<1>2. upd["user"].op.auto \in Automation
  BY <1>1, OpAuto DEF Upd
<1>3. TimeOK'
  BY <1>1, <1>2 DEF EditSave, TimeOK
<1> QED BY <1>1, <1>3, LedgerKept, RunnerKept, WorkUpdated DEF EditSave, RunId

LEMMA LaterTypes == ASSUME TypeInv, Later PROVE TypeInv'
<1> USE DEF TypeInv
<1>1. TimeOK'
  BY AutomationsAssumption DEF Later, TimeOK
<1>2. LedgerOK'
  BY DEF Later, LedgerOK, RunId
<1> QED BY <1>1, <1>2, RunnerKept, WorkKept DEF Later, RunId

(* The turns after the process p has ended.                                *)
LEMMA TurnsEnd ==
  ASSUME LedgerOK, NEW p \in Process, End(p)
  PROVE  /\ turn' \in Seq(TurnState) /\ Len(turn') = Len(turn)
         /\ \A r \in RunId : ProcessOf(ledger[r].by) # p => turn'[r] = turn[r]
         /\ \A r \in RunId : ledger[r].status \in Terminal /\ turn[r] = "done"
                            => turn'[r] = "done"
<1>1. Len(ledger) \in Nat
  BY LengthIsNat
<1>2. turn' \in [1 .. Len(ledger) -> TurnState]
  BY RowOfRun DEF End, RunId, TurnState
<1>3. turn' \in Seq(TurnState)
  BY <1>1, <1>2, SeqDef
<1>4. Len(turn') = Len(ledger)
  BY <1>1, <1>2, <1>3, LenProperties
<1>5. \A r \in RunId : ProcessOf(ledger[r].by) # p => turn'[r] = turn[r]
  BY DEF End
<1>6. \A r \in RunId : ledger[r].status \in Terminal /\ turn[r] = "done" => turn'[r] = "done"
  BY DEF End, InFlight
<1>7. Len(turn') = Len(turn)
  BY <1>4 DEF LedgerOK
<1> QED BY <1>3, <1>5, <1>6, <1>7

LEMMA EndTypes == ASSUME TypeInv, NEW p \in Process, End(p) PROVE TypeInv'
<1> USE DEF TypeInv
<1>1. TimeOK'
  BY AutomationsAssumption DEF End, TimeOK
<1>2. LedgerOK'
  BY TurnsEnd DEF End, LedgerOK, RunId
<1>3. RunnerOK'
  <2>1. Len(ledger) \in Nat /\ UNCHANGED <<ledger, path>>
    BY LengthIsNat DEF End
  <2>2. /\ open' = [w \in Runner |-> IF w \in OfProcess(p) THEN None ELSE open[w]]
        /\ locked' = locked \ OfProcess(p)
        /\ job' = [w \in Runner |-> IF w \in OfProcess(p) THEN Idle ELSE job[w]]
    BY DEF End, ClaimsEnd
  <2>3. \A w \in Runner : JobOK(w, job'[w], open'[w], Len(ledger'))
    BY <2>1, <2>2, IdleOK DEF RunnerOK
  <2>4. job' \in [Runner -> JobRecord(Len(ledger'))]
    BY <2>2, <2>3 DEF JobOK
  <2> QED BY <2>1, <2>2, <2>3, <2>4 DEF RunnerOK
<1>4. WorkOK'
  BY DEF End, WorkOK, RunId
<1> QED BY <1>1, <1>2, <1>3, <1>4

LEMMA StartTypes == ASSUME TypeInv, NEW p \in Process, Start(p) PROVE TypeInv'
<1> USE DEF TypeInv
<1>1. LedgerOK'
  BY DEF Start, LedgerOK, RunId, StaleRuns
<1>2. WorkOK'
  BY DEF Start, WorkOK, RunId
<1> QED BY <1>1, <1>2, TimeKept, RunnerKept DEF Start

LEMMA ReconcileReadTypes ==
  ASSUME TypeInv, NEW r \in stale, ReconcileRead(r) PROVE TypeInv'
<1> USE DEF TypeInv
<1> DEFINE e == [run |-> r, by |-> "session", row |-> ledger[r]]
<1>1. r \in RunId /\ ledger[r] \in Run /\ r \in Nat
  BY RowOfRun, LengthIsNat DEF LedgerOK, RunId
<1>2. e \in Entry /\ e.run \in RunId
  BY <1>1 DEF Entry
<1>3. WorkOK'
  <2>1. /\ UNCHANGED <<proc, upd, ledger>> /\ "desktop" \in Process
        /\ entry' = [entry EXCEPT !["desktop"] = e]
    BY DEF ReconcileRead, Process
  <2> HIDE DEF e
  <2> QED BY <1>2, <2>1, WorkEntered DEF RunId
<1>4. LedgerOK'
  BY DEF ReconcileRead, LedgerOK, RunId
<1> QED BY <1>3, <1>4, TimeKept, RunnerKept DEF ReconcileRead

LEMMA ReconcileAppendTypes == ASSUME TypeInv, ReconcileAppend PROVE TypeInv'
<1> USE DEF TypeInv
<1> DEFINE e == entry["desktop"]
<1>1. e \in Entry /\ e.run \in RunId /\ e.row \in Run
  BY DEF ReconcileAppend, WorkOK, Entry, Process
<1>2. Finished(e.row, "interrupted") \in Run
  BY <1>1, FinishedOK DEF Status, Terminal
<1>3. Touch(e.run, Finished(e.row, "interrupted"))
  BY DEF ReconcileAppend
<1>4. /\ ledger' \in Seq(Run) /\ Len(ledger') = Len(ledger) /\ RunId' = RunId
      /\ old' \subseteq RunId /\ ledger'[e.run] = Finished(e.row, "interrupted")
  <2> HIDE DEF e
  <2> QED BY <1>1, <1>2, <1>3, TouchOK
<1>5. LedgerOK'
  BY <1>4 DEF ReconcileAppend, LedgerOK
<1>6. ledger'[e.run].status \in Status
  BY <1>2, <1>4 DEF Run
<1>7. upd' \in [Writer -> Upd \cup {None}]
  BY <1>1, <1>6, OutcomeIsOp, LoadOK, Names DEF ReconcileAppend
<1>8. WorkOK'
  BY <1>4, <1>7 DEF ReconcileAppend, WorkOK
<1> QED BY <1>4, <1>5, <1>8, TimeKept, RunnerKept DEF ReconcileAppend

LEMMA StartedTypes == ASSUME TypeInv, Started PROVE TypeInv'
<1> USE DEF TypeInv
<1>1. WorkOK'
  BY DEF Started, WorkOK, RunId
<1> QED BY <1>1, TimeKept, LedgerKept, RunnerKept DEF Started

LEMMA InitTypes == Init => TypeInv
<1> SUFFICES ASSUME Init PROVE TypeInv
  OBVIOUS
<1>1. TimeOK
  BY AutomationsAssumption DEF Init, TimeOK, List, Row
<1>2. LedgerOK /\ Len(ledger) = 0
  BY EmptySeq, AutomationsAssumption DEF Init, LedgerOK, RunId
<1>3. \A w \in Runner : JobOK(w, job[w], open[w], Len(ledger))
  BY <1>2, IdleOK DEF Init
<1>4. RunnerOK
  BY <1>3 DEF Init, RunnerOK, JobOK
<1>5. WorkOK
  BY DEF Init, WorkOK
<1> QED BY <1>1, <1>2, <1>4, <1>5 DEF TypeInv

LEMMA StepTypes == TypeInv /\ [Next]_vars => TypeInv'
<1> SUFFICES ASSUME TypeInv, [Next]_vars PROVE TypeInv'
  OBVIOUS
<1>1. CASE UNCHANGED vars
  BY <1>1, TimeKept, LedgerKept, RunnerKept, WorkKept DEF TypeInv, vars, RunId
<1>2. ASSUME NEW w \in Runner, Walk(w) \/ Fail(w) PROVE TypeInv'
  BY <1>2, TickTypes, OpenClaimTypes, ClaimTypes, SkipTypes, RereadTypes, StartRunTypes,
     OpenTypes, SendTypes, FailTypes, MarkDispatchedTypes, MarkLoadTypes, MarkSaveTypes,
     FinishReadTypes, FinishAppendTypes DEF Walk, RunStep
<1>3. CASE Reconcile
  BY <1>3, ReconcileReadTypes, ReconcileAppendTypes, StartedTypes DEF Reconcile
<1> QED BY <1>1, <1>2, <1>3, PressTypes, AwaitEndsTypes, SettleTypes, OtherTurnTypes,
     TurnEndsTypes, SettleSaveTypes,
     EditLoadTypes, EditSaveTypes, LaterTypes, EndTypes, StartTypes DEF Next

LEMMA TypesAlways == Spec => []TypeInv
BY InitTypes, StepTypes, PTL DEF Spec

LEMMA TypeInvTypes == TypeInv => TypeOK
<1> SUFFICES ASSUME TypeInv PROVE TypeOK
  OBVIOUS
<1>1. turn \in [RunId -> {"none", "running", "done", "over", "dead"}]
  BY LenProperties DEF TypeInv, LedgerOK, RunId, TurnState
<1>2. job \in [Runner -> JobType]
  BY DEF TypeInv, RunnerOK, JobRecord, JobType, Pc, Taking, Ran, RunId
<1>3. \A w \in Writer : upd[w] # None => upd[w].seen \in List /\ upd[w].op.auto \in Automation
  BY OpAuto DEF TypeInv, WorkOK, Upd
<1>4. \A p \in Process : entry[p] # None => entry[p].run \in RunId /\ entry[p].row \in Run
  BY DEF TypeInv, WorkOK, Entry
<1> QED BY <1>1, <1>2, <1>3, <1>4 DEF TypeInv, TimeOK, LedgerOK, RunnerOK, WorkOK, TypeOK

(* Every variable has its type.                                            *)
THEOREM TypesHold == Spec => []TypeOK
BY TypesAlways, TypeInvTypes, PTL

-----------------------------------------------------------------------------
(* The ends of the runs                                                    *)

USE DEF EndedWell

(* The run of a job is the runner's own; its turn has not begun before the *)
(* prompt was sent, and the daemon goes on to the end of the run only when *)
(* the turn has ended well.                                                *)
OfRun(w) ==
    LET j == job[w]
    IN /\ j.pc \in Ran => ledger[j.run].by = w
       /\ j.pc \in {"open", "send"} => turn[j.run] = "none"
       /\ w = "daemon" =>
            /\ j.pc = "await" => turn[j.run] = "running"
            /\ j.pc \in {"dispatched", "mark", "disable", "finish"}
               => turn[j.run] = "done"

(* The row that an update of the ledger has read may be old, but only for  *)
(* a run of the daemon, and then it is right about success and its end.    *)
OfEntry(p) ==
    LET e == entry[p]
    IN e # None =>
         /\ e.row.by = ledger[e.run].by
         /\ e.row.status = "completed" => EndedWell(e.run)
         /\ e.row.status \in Terminal => ledger[e.run].status \in Terminal
         /\ e.row.by # "daemon" => p = "desktop" /\ e.row = ledger[e.run]
         /\ e.by = "session" => p = "desktop"
         /\ e.by \in Runner => /\ ProcessOf(e.by) = p
                               /\ job[e.by].pc \in {"finish", "fail"}
                               /\ job[e.by].run = e.run

(* The inductive invariant of the ends, besides the types.                 *)
EndsInv ==
    /\ \A w \in Runner : OfRun(w)
    /\ \A p \in Process : OfEntry(p)
    /\ CompletedIsTrue

EndStays ==
    \A r \in RunId : ledger[r].by # "daemon" /\ ledger[r].status \in Terminal
                    => ledger'[r].status = ledger[r].status

LEMMA RunOfJob ==
  TypeInv => \A w \in Runner : job[w].pc \in Ran => job[w].run \in RunId
BY DEF TypeInv, RunnerOK, JobOK, RunId

LEMMA RunOfEntry ==
  TypeInv => \A p \in Process : entry[p] # None =>
               /\ entry[p].run \in RunId /\ entry[p].row \in Run
               /\ entry[p].by \in Runner \cup {"session"}
BY DEF TypeInv, WorkOK, Entry

LEMMA OthersKept ==
  ASSUME EndsInv, NEW v \in Runner, job'[v] = job[v],
         job[v].pc \in Ran => /\ ledger'[job[v].run].by = ledger[job[v].run].by
                             /\ turn'[job[v].run] = turn[job[v].run]
  PROVE  OfRun(v)'
BY DEF EndsInv, OfRun, Ran

(* Two runners do not share a run.                                         *)
LEMMA OwnRuns ==
  ASSUME EndsInv, NEW v \in Runner, NEW w \in Runner, v # w,
         job[v].pc \in Ran, job[w].pc \in Ran
  PROVE  job[v].run # job[w].run
BY DEF EndsInv, OfRun

LEMMA EndsKept ==
  ASSUME EndsInv, UNCHANGED <<job, ledger, turn, entry, after>>
  PROVE  EndsInv' /\ EndStays
<1>1. \A w \in Runner : OfRun(w)'
  BY OthersKept
<1>2. \A p \in Process : OfEntry(p)'
  BY DEF EndsInv, OfEntry
<1>3. CompletedIsTrue'
  BY DEF EndsInv, CompletedIsTrue, RunId
<1> QED BY <1>1, <1>2, <1>3 DEF EndsInv, EndStays

(* One job goes on, and nothing else of the runs changes.                  *)
LEMMA JobMoves ==
  ASSUME TypeInv, EndsInv, NEW w \in Runner, NEW j, job' = [job EXCEPT ![w] = j],
         UNCHANGED <<ledger, turn, entry, after>>, job[w].pc \notin {"finish", "fail"}, OfRun(w)'
  PROVE  EndsInv' /\ EndStays
<1>1. \A v \in Runner \ {w} : job'[v] = job[v]
  BY DEF TypeInv, RunnerOK
<1>2. \A v \in Runner : OfRun(v)'
  BY <1>1, OthersKept
<1>3. \A p \in Process : OfEntry(p)'
  <2> SUFFICES ASSUME NEW p \in Process, entry[p] # None PROVE OfEntry(p)'
    BY DEF OfEntry
  <2>1. OfEntry(p)
    BY DEF EndsInv
  <2>2. entry[p].by # w
    BY <2>1 DEF OfEntry
  <2>3. entry[p].by \in Runner => job'[entry[p].by] = job[entry[p].by]
    BY <1>1, <2>2
  <2> QED BY <2>1, <2>3 DEF OfEntry
<1>4. CompletedIsTrue'
  BY DEF EndsInv, CompletedIsTrue, RunId
<1> QED BY <1>2, <1>3, <1>4 DEF EndsInv, EndStays

(* A job that has no run, or goes on with its run.                         *)
LEMMA FreeJobMoves ==
  ASSUME TypeInv, EndsInv, NEW w \in Runner, NEW j, job' = [job EXCEPT ![w] = j],
         UNCHANGED <<ledger, turn, entry, after>>, job[w].pc \notin {"finish", "fail"},
         j.pc \notin Ran
  PROVE  EndsInv' /\ EndStays
<1>1. job'[w] = j
  BY DEF TypeInv, RunnerOK
<1>2. OfRun(w)'
  BY <1>1 DEF OfRun, Ran
<1> QED BY <1>2, JobMoves

LEMMA ScanningFree == \A j : Scanning(j).pc \notin Ran
BY DEF Scanning, Idle, Ran

LEMMA TickEnds ==
  ASSUME TypeInv, EndsInv, NEW w \in Runner, Tick(w) PROVE EndsInv' /\ EndStays
<1>1. PICK due : job' = [job EXCEPT ![w] = [Idle EXCEPT !.pc = "scan", !.todo = due,
                                                       !.now = day, !.at = stamp]]
  BY DEF Tick
<1> DEFINE j == [Idle EXCEPT !.pc = "scan", !.todo = due, !.now = day, !.at = stamp]
<1>2. j.pc \notin Ran /\ job' = [job EXCEPT ![w] = j]
  BY <1>1 DEF Idle, Ran
<1>3. job[w].pc \notin {"finish", "fail"} /\ UNCHANGED <<ledger, turn, entry, after>>
  BY DEF Tick, At
<1> HIDE DEF j
<1> QED BY <1>2, <1>3, FreeJobMoves

LEMMA OpenClaimEnds ==
  ASSUME TypeInv, EndsInv, NEW w \in Runner, OpenClaim(w) PROVE EndsInv' /\ EndStays
<1>1. PICK due \in job[w].todo :
        job' = [job EXCEPT ![w].todo = @ \ {due}, ![w].auto = due[1],
                           ![w].row = due[2], ![w].pc = "claim"]
  BY DEF OpenClaim
<1> DEFINE j == [[[[job[w] EXCEPT !.todo = @ \ {due}] EXCEPT !.auto = due[1]]
                   EXCEPT !.row = due[2]] EXCEPT !.pc = "claim"]
<1>2. job[w] \in JobRecord(Len(ledger)) /\ job \in [Runner -> JobRecord(Len(ledger))]
  BY DEF TypeInv, RunnerOK
<1>3. j.pc \notin Ran /\ job' = [job EXCEPT ![w] = j]
  BY <1>1, <1>2 DEF JobRecord, Ran
<1>4. job[w].pc \notin {"finish", "fail"} /\ UNCHANGED <<ledger, turn, entry, after>>
  BY DEF OpenClaim, At
<1> HIDE DEF j
<1> QED BY <1>3, <1>4, FreeJobMoves

(* A step of a job that changes its step only.                             *)
LEMMA GotoEnds ==
  ASSUME TypeInv, EndsInv, NEW w \in Runner, NEW pc \in Pc, Goto(w, pc),
         UNCHANGED <<ledger, turn, entry, after>>, job[w].pc \notin {"finish", "fail"},
         pc \in Ran => job[w].pc \in Ran,
         pc \in {"open", "send"} => job[w].pc \in {"open", "send"},
         w = "daemon" /\ pc \in {"dispatched", "mark", "disable", "finish"}
           => job[w].pc \in {"dispatched", "mark", "disable"},
         pc # "await"
  PROVE  EndsInv' /\ EndStays
<1> DEFINE j == [job[w] EXCEPT !.pc = pc]
<1>1. job[w] \in JobRecord(Len(ledger)) /\ job' = [job EXCEPT ![w] = j]
      /\ job \in [Runner -> JobRecord(Len(ledger))]
  BY DEF TypeInv, RunnerOK, Goto
<1>2. j.pc = pc /\ j.run = job[w].run /\ job'[w] = j
  BY <1>1 DEF JobRecord
<1>3. OfRun(w)
  BY DEF EndsInv
<1> HIDE DEF j
<1>4. OfRun(w)'
  BY <1>2, <1>3 DEF OfRun
<1> QED BY <1>1, <1>4, JobMoves

LEMMA ClaimEnds ==
  ASSUME TypeInv, EndsInv, NEW w \in Runner, Claim(w) PROVE EndsInv' /\ EndStays
<1>1. PICK pc \in {"reread", "start"} : Goto(w, pc)
  BY DEF Claim
<1>2. job[w].pc \notin {"finish", "fail"} /\ UNCHANGED <<ledger, turn, entry, after>>
  BY DEF Claim, At
<1>3. pc \in Pc /\ pc \notin Ran
  BY DEF Pc, Taking, Ran
<1> QED BY <1>1, <1>2, <1>3, GotoEnds

LEMMA ReleaseEnds ==
  ASSUME TypeInv, EndsInv, NEW w \in Runner, Release(w), UNCHANGED <<ledger, turn, entry, after>>,
         job[w].pc \notin {"finish", "fail"}
  PROVE  EndsInv' /\ EndStays
<1>1. job' = [job EXCEPT ![w] = Scanning(job[w])]
  BY DEF Release, TypeInv, RunnerOK
<1> QED BY <1>1, ScanningFree, FreeJobMoves

LEMMA SkipEnds ==
  ASSUME TypeInv, EndsInv, NEW w \in Runner, Skip(w) PROVE EndsInv' /\ EndStays
BY ReleaseEnds DEF Skip, At

LEMMA RereadEnds ==
  ASSUME TypeInv, EndsInv, NEW w \in Runner, Reread(w) PROVE EndsInv' /\ EndStays
<1>1. job[w].pc \notin {"finish", "fail"} /\ UNCHANGED <<ledger, turn, entry, after>>
  BY DEF Reread, At
<1>2. CASE Release(w)
  BY <1>1, <1>2, ReleaseEnds
<1>3. CASE ~Release(w)
  <2> DEFINE j == [[job[w] EXCEPT !.row = list[job[w].auto]] EXCEPT !.pc = "start"]
  <2>1. job[w] \in JobRecord(Len(ledger)) /\ job \in [Runner -> JobRecord(Len(ledger))]
    BY DEF TypeInv, RunnerOK
  <2>2. job' = [job EXCEPT ![w] = j]
    BY <1>3, <2>1 DEF Reread
  <2>3. j.pc \notin Ran
    BY <2>1 DEF JobRecord, Ran
  <2> HIDE DEF j
  <2> QED BY <1>1, <2>2, <2>3, FreeJobMoves
<1> QED BY <1>2, <1>3

LEMMA PressEnds ==
  ASSUME TypeInv, EndsInv, NEW a \in Automation, Press(a) PROVE EndsInv' /\ EndStays
<1> DEFINE j == [Idle EXCEPT !.pc = "start", !.auto = a, !.row = list[a]]
<1>1. "button" \in Runner /\ job' = [job EXCEPT !["button"] = j]
      /\ job["button"].pc \notin {"finish", "fail"} /\ UNCHANGED <<ledger, turn, entry, after>>
  BY DEF Press, At
<1>2. j.pc \notin Ran
  BY DEF Idle, Ran
<1> HIDE DEF j
<1> QED BY <1>1, <1>2, FreeJobMoves

LEMMA FailEnds ==
  ASSUME TypeInv, EndsInv, NEW w \in Runner, Fail(w) PROVE EndsInv' /\ EndStays
<1>1. Goto(w, "fail") /\ job[w].pc \in {"open", "send"} /\ UNCHANGED <<ledger, turn, entry, after>>
  BY DEF Fail, At
<1> QED BY <1>1, GotoEnds DEF Pc, Taking, Ran

LEMMA MarkLoadEnds ==
  ASSUME EndsInv, NEW w \in Runner, MarkLoad(w) PROVE EndsInv' /\ EndStays
BY EndsKept DEF MarkLoad

LEMMA MarkSaveEnds ==
  ASSUME TypeInv, EndsInv, NEW w \in Runner, MarkSave(w) PROVE EndsInv' /\ EndStays
<1>1. job[w].pc \in {"mark", "disable", "outcome", "failed"}
      /\ UNCHANGED <<ledger, turn, entry, after>>
  BY DEF MarkSave, Marking
<1>2. CASE AfterMark(w) = "end"
  BY <1>1, <1>2, ReleaseEnds DEF MarkSave
<1>3. CASE AfterMark(w) # "end"
  <2>1. /\ AfterMark(w) \in {"fail", "disable", "finish"}
        /\ AfterMark(w) # "fail" => job[w].pc \in {"mark", "disable"}
    BY <1>1, <1>3 DEF AfterMark
  <2>2. Goto(w, AfterMark(w))
    BY <1>3 DEF MarkSave
  <2>3. AfterMark(w) \in Pc /\ job[w].pc \in Ran
    BY <1>1, <2>1 DEF Pc, Taking, Ran
  <2> QED BY <1>1, <2>1, <2>2, <2>3, GotoEnds
<1> QED BY <1>2, <1>3

LEMMA StartRunEnds ==
  ASSUME TypeInv, EndsInv, NEW w \in Runner, StartRun(w) PROVE EndsInv' /\ EndStays
<1> DEFINE n == Len(ledger) + 1
           j == [[job[w] EXCEPT !.run = n] EXCEPT !.pc = "open"]
<1>1. job[w].pc = "start" /\ job[w] \in JobRecord(Len(ledger)) /\ UNCHANGED <<entry, after>>
      /\ job \in [Runner -> JobRecord(Len(ledger))]
      /\ job[w].auto \in Automation /\ job[w].row \in Row
  BY DEF StartRun, At, TypeInv, RunnerOK, JobOK, Taking
<1>2. PICK r \in Run : ledger' = Append(ledger, r) /\ r.by = w /\ r.status = "started"
  <2> DEFINE r == [auto |-> job[w].auto, by |-> w,
                   slot |-> IF w = "button" THEN 0 ELSE job[w].row.next,
                   at |-> stamp', status |-> "started"]
  <2>1. stamp' \in Nat
    BY DEF StartRun, TypeInv, TimeOK
  <2>2. r \in Run
    BY <1>1, <2>1 DEF Run, Row, Status
  <2> QED BY <2>2 DEF StartRun
<1>3. Len(ledger) \in Nat /\ Len(turn) = Len(ledger)
  BY LengthIsNat DEF TypeInv, LedgerOK
<1>4. /\ Len(ledger') = n /\ ledger'[n] = r
      /\ \A q \in RunId : ledger'[q] = ledger[q]
  BY <1>2, AppendProperties DEF TypeInv, LedgerOK, RunId
<1>5. turn'[n] = "none" /\ \A q \in RunId : turn'[q] = turn[q]
  BY <1>3, AppendProperties DEF StartRun, TypeInv, LedgerOK, RunId, TurnState
<1>6. job' = [job EXCEPT ![w] = j]
  BY <1>1, <1>4 DEF StartRun
<1>7. job'[w] = j /\ j.run = n /\ j.pc = "open" /\ \A v \in Runner \ {w} : job'[v] = job[v]
  BY <1>1, <1>6 DEF JobRecord
<1> HIDE DEF n, j
<1>8. OfRun(w)'
  BY <1>2, <1>4, <1>5, <1>7 DEF OfRun
<1>9. \A v \in Runner \ {w} : OfRun(v)'
  <2> SUFFICES ASSUME NEW v \in Runner \ {w} PROVE OfRun(v)'
    OBVIOUS
  <2>1. job[v].pc \in Ran => job[v].run \in RunId
    BY RunOfJob
  <2> QED BY <1>4, <1>5, <1>7, <2>1, OthersKept
<1>10. \A p \in Process : OfEntry(p)'
  <2> SUFFICES ASSUME NEW p \in Process, entry[p] # None PROVE OfEntry(p)'
    BY <1>1 DEF OfEntry
  <2>1. OfEntry(p) /\ entry[p].run \in RunId
    BY RunOfEntry DEF EndsInv
  <2>2. entry[p].by # w
    BY <1>1, <2>1 DEF OfEntry
  <2>3. entry[p].by \in Runner => job'[entry[p].by] = job[entry[p].by]
    BY <1>7, <2>2
  <2> QED BY <1>1, <1>4, <1>5, <2>1, <2>3 DEF OfEntry
<1>11. CompletedIsTrue'
  <2>1. \A q \in RunId' : q \in RunId \/ q = n
    BY <1>3, <1>4 DEF RunId, n
  <2> QED BY <1>1, <1>2, <1>4, <1>5, <2>1 DEF EndsInv, CompletedIsTrue
<1>12. EndStays
  BY <1>4 DEF EndStays
<1> QED BY <1>8, <1>9, <1>10, <1>11, <1>12 DEF EndsInv

(* A runner writes the row of its run without changing what it ended as.   *)
LEMMA RowWritten ==
  ASSUME TypeInv, EndsInv, NEW w \in Runner, NEW pc \in Taking, Goto(w, pc),
         job[w].pc \in Ran \ {"finish", "fail"}, entry[ProcessOf(w)] = None,
         UNCHANGED <<turn, entry, after>>, RunId' = RunId, NEW row \in Run,
         \A q \in RunId : ledger'[q] = IF q = job[w].run THEN row ELSE ledger[q],
         row.by = w,
         row.status = "completed" => ledger[job[w].run].status = "completed",
         ledger[job[w].run].status \in Terminal
           => row.status = ledger[job[w].run].status,
         pc \in {"open", "send"} => job[w].pc \in {"open", "send"},
         w = "daemon" /\ pc \in {"dispatched", "mark", "disable", "finish"}
           => job[w].pc \in {"dispatched", "mark", "disable"},
         pc # "await"
  PROVE  EndsInv' /\ EndStays
<1> DEFINE j == [job[w] EXCEPT !.pc = pc]
<1>1. job[w] \in JobRecord(Len(ledger)) /\ job' = [job EXCEPT ![w] = j]
      /\ job \in [Runner -> JobRecord(Len(ledger))]
  BY DEF TypeInv, RunnerOK, Goto
<1>2. j.pc = pc /\ j.run = job[w].run /\ job'[w] = j
      /\ \A v \in Runner \ {w} : job'[v] = job[v]
  BY <1>1 DEF JobRecord
<1>3. OfRun(w) /\ job[w].run \in RunId /\ ledger[job[w].run].by = w
  BY RunOfJob DEF EndsInv, OfRun
<1> HIDE DEF j
<1>4. \A v \in Runner : OfRun(v)'
  <2>1. OfRun(w)'
    BY <1>2, <1>3 DEF OfRun
  <2>2. ASSUME NEW v \in Runner \ {w} PROVE OfRun(v)'
    <3>1. job[v].pc \in Ran => job[v].run \in RunId /\ job[v].run # job[w].run
      BY RunOfJob, OwnRuns
    <3> QED BY <1>2, <3>1, OthersKept
  <2> QED BY <2>1, <2>2
<1>5. \A p \in Process : OfEntry(p)'
  <2> SUFFICES ASSUME NEW p \in Process, entry[p] # None PROVE OfEntry(p)'
    BY DEF OfEntry
  <2>1. OfEntry(p) /\ entry[p].run \in RunId /\ p # ProcessOf(w)
    BY RunOfEntry DEF EndsInv
  <2>2. entry[p].by \in Runner => entry[p].by # w /\ job'[entry[p].by] = job[entry[p].by]
    BY <1>2, <2>1 DEF OfEntry
  <2>3. CASE entry[p].run # job[w].run
    BY <2>1, <2>2, <2>3 DEF OfEntry
  <2>4. CASE entry[p].run = job[w].run
    <3>1. entry[p].row.by = w
      BY <1>3, <2>1, <2>4 DEF OfEntry
    <3>2. w = "daemon"
      BY <2>1, <3>1, Names DEF OfEntry
    <3> QED BY <1>3, <2>1, <2>2, <2>4, <3>1, <3>2 DEF OfEntry
  <2> QED BY <2>3, <2>4
<1>6. CompletedIsTrue' /\ EndStays
  BY DEF EndsInv, CompletedIsTrue, EndStays
<1> QED BY <1>4, <1>5, <1>6 DEF EndsInv

LEMMA OpenEnds ==
  ASSUME TypeInv, EndsInv, NEW w \in Runner, Open(w) PROVE EndsInv' /\ EndStays
<1>1. job[w].pc = "open" /\ job[w].pc \in Ran /\ Goto(w, "send") /\ job[w].run \in RunId
      /\ entry[ProcessOf(w)] = None /\ UNCHANGED <<turn, entry, after>> /\ "send" \in Pc
      /\ "send" \in Taking
  BY RunOfJob DEF Open, At, Ran, Pc, Taking
<1>2. CASE w = "button"
  <2>1. UNCHANGED ledger
    BY <1>2 DEF Open
  <2> QED BY <1>1, <2>1, GotoEnds
<1>3. CASE w # "button"
  <2> DEFINE row == ledger[job[w].run]
  <2>1. row \in Run /\ Touch(job[w].run, row)
    BY <1>1, <1>3, RowOfRun DEF Open, TypeInv
  <2>2. row.by = w
    BY <1>1 DEF EndsInv, OfRun
  <2>3. RunId' = RunId /\ \A q \in RunId : ledger'[q] = IF q = job[w].run THEN row ELSE ledger[q]
    BY <1>1, <2>1, TouchOK DEF TypeInv
  <2> QED BY <1>1, <2>1, <2>2, <2>3, RowWritten
<1> QED BY <1>2, <1>3

LEMMA MarkDispatchedEnds ==
  ASSUME TypeInv, EndsInv, NEW w \in Runner, MarkDispatched(w) PROVE EndsInv' /\ EndStays
<1>1. job[w].pc = "dispatched" /\ job[w].pc \in Ran /\ Goto(w, "mark")
      /\ job[w].run \in RunId /\ entry[ProcessOf(w)] = None /\ UNCHANGED <<turn, entry, after>>
      /\ "mark" \in Taking
  BY RunOfJob DEF MarkDispatched, At, Ran, Taking
<1> DEFINE old_row == ledger[job[w].run]
           row == Dispatched(old_row)
<1>2. old_row \in Run /\ old_row.by = w
  BY <1>1, RowOfRun DEF EndsInv, OfRun, TypeInv
<1>3. /\ row \in Run /\ row.by = w
      /\ row.status = "completed" => old_row.status = "completed"
      /\ old_row.status \in Terminal => row.status = old_row.status
  <2> HIDE DEF old_row
  <2>1. row \in Run
    BY <1>2, FinishedOK DEF Status
  <2> QED BY <1>2, <2>1 DEF Dispatched, Run, Terminal
<1>4. Touch(job[w].run, row)
  BY DEF MarkDispatched
<1> HIDE DEF row
<1>5. RunId' = RunId /\ \A q \in RunId : ledger'[q] = IF q = job[w].run THEN row ELSE ledger[q]
  BY <1>1, <1>3, <1>4, TouchOK DEF TypeInv
<1> QED BY <1>1, <1>3, <1>5, RowWritten

(* The turn of a run of one runner changes with the runner's step.         *)
LEMMA TurnMoves ==
  ASSUME TypeInv, EndsInv, NEW w \in Runner, job[w].pc \in {"send", "await"},
         NEW pc, Goto(w, pc), UNCHANGED <<ledger, entry, after>>, NEW t \in TurnState,
         turn' = [turn EXCEPT ![job[w].run] = t], OfRun(w)',
         turn[job[w].run] # "done"
  PROVE  EndsInv' /\ EndStays
<1>1. job[w].pc \in Ran
  BY DEF Ran
<1>2. job[w].run \in RunId
  BY <1>1, RunOfJob
<1>3. \A q \in RunId : turn'[q] = IF q = job[w].run THEN t ELSE turn[q]
  BY <1>2, TurnSet DEF TypeInv
<1>4. \A v \in Runner \ {w} : job'[v] = job[v]
  BY DEF Goto, TypeInv, RunnerOK
<1>5. \A v \in Runner : OfRun(v)'
  <2> SUFFICES ASSUME NEW v \in Runner \ {w} PROVE OfRun(v)'
    OBVIOUS
  <2>1. job[v].pc \in Ran => job[v].run \in RunId /\ job[v].run # job[w].run
    BY <1>1, RunOfJob, OwnRuns
  <2> QED BY <1>3, <1>4, <2>1, OthersKept
<1>6. \A p \in Process : OfEntry(p)'
  <2> SUFFICES ASSUME NEW p \in Process, entry[p] # None PROVE OfEntry(p)'
    BY DEF OfEntry
  <2>1. OfEntry(p) /\ entry[p].run \in RunId
    BY RunOfEntry DEF EndsInv
  <2>2. entry[p].by \in Runner => entry[p].by # w /\ job'[entry[p].by] = job[entry[p].by]
    BY <1>4, <2>1 DEF OfEntry
  <2>3. entry[p].row.status = "completed" => EndedWell(entry[p].run)'
    BY <1>3, <2>1 DEF OfEntry
  <2> QED BY <2>1, <2>2, <2>3 DEF OfEntry
<1>7. CompletedIsTrue'
  BY <1>3 DEF EndsInv, CompletedIsTrue, RunId
<1> QED BY <1>5, <1>6, <1>7 DEF EndsInv, EndStays

LEMMA SendEnds ==
  ASSUME TypeInv, EndsInv, NEW w \in Runner, Send(w) PROVE EndsInv' /\ EndStays
<1>1. job[w].pc = "send" /\ job[w].pc \in Ran /\ UNCHANGED <<ledger, entry, after>>
      /\ turn' = [turn EXCEPT ![job[w].run] = "running"]
  BY DEF Send, At, Ran
<1>2. job[w].run \in RunId /\ turn[job[w].run] = "none" /\ ledger[job[w].run].by = w
  BY <1>1, RunOfJob DEF EndsInv, OfRun
<1>3. w \in {"scheduler", "button", "daemon"}
  BY Names
<1>4. PICK pc \in {"dispatched", "mark", "await"} : Goto(w, pc) /\ (w = "daemon" => pc = "await")
  BY <1>3 DEF Send
<1>5. job'[w].pc = pc /\ job'[w].run = job[w].run
  BY <1>4 DEF Goto, TypeInv, RunnerOK, JobRecord
<1>6. turn'[job[w].run] = "running" /\ "running" \in TurnState
  <2>1. "running" \in TurnState
    BY DEF TurnState
  <2>2. \A q \in RunId : turn'[q] = IF q = job[w].run THEN "running" ELSE turn[q]
    BY <1>1, <1>2, <2>1, TurnSet DEF TypeInv
  <2> QED BY <1>2, <2>1, <2>2
<1>7. OfRun(w)'
  BY <1>1, <1>2, <1>4, <1>5, <1>6 DEF OfRun
<1> QED BY <1>1, <1>2, <1>4, <1>6, <1>7, TurnMoves

LEMMA AwaitEndsEnds ==
  ASSUME TypeInv, EndsInv, NEW end \in Ends, AwaitEnds(end) PROVE EndsInv' /\ EndStays
<1> DEFINE w == "daemon"
           pc == IF end = "done" THEN "dispatched" ELSE "fail"
<1>1. w \in Runner /\ job[w].pc = "await" /\ job[w].pc \in Ran /\ UNCHANGED <<ledger, entry, after>>
      /\ turn' = [turn EXCEPT ![job[w].run] = Over(end)] /\ Goto(w, pc)
      /\ Over(end) \in TurnState
  BY DEF AwaitEnds, At, Ran, Over, TurnState
<1>2. job[w].run \in RunId /\ turn[job[w].run] = "running" /\ ledger[job[w].run].by = w
  BY <1>1, RunOfJob DEF EndsInv, OfRun
<1>3. job'[w].pc = pc /\ job'[w].run = job[w].run
  BY <1>1 DEF Goto, TypeInv, RunnerOK, JobRecord
<1>4. turn'[job[w].run] = Over(end)
  <2>1. \A q \in RunId : turn'[q] = IF q = job[w].run THEN Over(end) ELSE turn[q]
    BY <1>1, <1>2, TurnSet DEF TypeInv
  <2> QED BY <1>2, <2>1
<1>5. OfRun(w)'
  BY <1>1, <1>2, <1>3, <1>4 DEF OfRun, Over
<1> HIDE DEF w, pc
<1> QED BY <1>1, <1>2, <1>5, TurnMoves

(* An update of the ledger reads the row of its run.                       *)
LEMMA EntryRead ==
  ASSUME TypeInv, EndsInv, NEW p \in Process, NEW r \in RunId,
         NEW by \in Runner \cup {"session"}, entry[p] = None,
         entry' = [entry EXCEPT ![p] = [run |-> r, by |-> by, row |-> ledger[r]]],
         UNCHANGED <<job, ledger, turn, after>>, ledger[r].by # "daemon" => p = "desktop",
         by = "session" => p = "desktop",
         by \in Runner => /\ ProcessOf(by) = p /\ job[by].pc \in {"finish", "fail"}
                         /\ job[by].run = r
  PROVE  EndsInv' /\ EndStays
<1> DEFINE e == [run |-> r, by |-> by, row |-> ledger[r]]
<1>1. \A w \in Runner : OfRun(w)'
  BY OthersKept
<1>2. CompletedIsTrue' /\ EndStays
  BY DEF EndsInv, CompletedIsTrue, EndStays, RunId
<1>3. e.run = r /\ e.by = by /\ e.row = ledger[r] /\ entry'[p] = e
  BY DEF TypeInv, WorkOK
<1>4. \A q \in Process \ {p} : entry'[q] = entry[q]
  BY DEF TypeInv, WorkOK
<1> HIDE DEF e
<1>5. OfEntry(p)'
  BY <1>3 DEF OfEntry, EndsInv, CompletedIsTrue
<1>6. \A q \in Process \ {p} : OfEntry(q)'
  BY <1>4 DEF OfEntry, EndsInv
<1> QED BY <1>1, <1>2, <1>5, <1>6 DEF EndsInv

LEMMA FinishReadEnds ==
  ASSUME TypeInv, EndsInv, NEW w \in Runner, FinishRead(w) PROVE EndsInv' /\ EndStays
<1>1. /\ job[w].pc \in {"finish", "fail"} /\ entry[ProcessOf(w)] = None
      /\ UNCHANGED <<job, ledger, turn, after>>
      /\ entry' = [entry EXCEPT ![ProcessOf(w)] =
                     [run |-> job[w].run, by |-> w, row |-> ledger[job[w].run]]]
  BY DEF FinishRead, At
<1>2. job[w].pc \in Ran
  BY <1>1 DEF Ran
<1>3. job[w].run \in RunId /\ ledger[job[w].run].by = w
  BY <1>2, RunOfJob DEF EndsInv, OfRun
<1>4. ProcessOf(w) \in Process /\ (w # "daemon" => ProcessOf(w) = "desktop") /\ w # "session"
  BY Names
<1> QED BY <1>1, <1>3, <1>4, EntryRead

LEMMA ReconcileReadEnds ==
  ASSUME TypeInv, EndsInv, NEW r \in stale, ReconcileRead(r) PROVE EndsInv' /\ EndStays
<1>1. /\ entry["desktop"] = None /\ UNCHANGED <<job, ledger, turn, after>>
      /\ entry' = [entry EXCEPT !["desktop"] =
                     [run |-> r, by |-> "session", row |-> ledger[r]]]
  BY DEF ReconcileRead
<1>2. r \in RunId /\ "desktop" \in Process
  BY DEF TypeInv, LedgerOK, Process
<1> QED BY <1>1, <1>2, Names, EntryRead

(* An update of the ledger appends the row it has read, finished.          *)
LEMMA EntryWritten ==
  ASSUME TypeInv, EndsInv, NEW p \in Process, entry[p] # None, NEW status \in Terminal,
         status = "completed" => turn[entry[p].run] = "done",
         Touch(entry[p].run, Finished(entry[p].row, status)),
         entry' = [entry EXCEPT ![p] = None], UNCHANGED <<turn, after>>,
         \A v \in Runner : v # entry[p].by => job'[v] = job[v],
         entry[p].by \in Runner => job'[entry[p].by].pc \notin Ran \ {"failed", "outcome"}
           /\ (job'[entry[p].by].pc \in Ran => job'[entry[p].by].run = entry[p].run)
  PROVE  EndsInv' /\ EndStays
<1> DEFINE r == entry[p].run
           was == entry[p].row
           row == Finished(was, status)
<1>1. OfEntry(p) /\ r \in RunId /\ was \in Run
  BY RunOfEntry DEF EndsInv
<1>2. was.by = ledger[r].by /\ (was.by # "daemon" => p = "desktop" /\ was = ledger[r])
      /\ (was.status = "completed" => EndedWell(r))
  BY <1>1 DEF OfEntry
<1> HIDE DEF was
<1>3. /\ row \in Run /\ row.by = ledger[r].by /\ row.status \in Terminal
      /\ row.status = "completed" => EndedWell(r)
      /\ was.status \in Terminal => row.status = was.status
  <2>1. row \in Run
    BY <1>1, FinishedOK DEF Status
  <2> HIDE DEF r
  <2> QED BY <1>1, <1>2, <2>1 DEF Finished, Run, r
<1>4. Touch(r, row)
  BY DEF was
<1> HIDE DEF row, r
<1>5. RunId' = RunId /\ \A q \in RunId : ledger'[q] = IF q = r THEN row ELSE ledger[q]
  BY <1>1, <1>3, <1>4, TouchOK DEF TypeInv
<1>6. \A v \in Runner : OfRun(v)'
  <2> SUFFICES ASSUME NEW v \in Runner PROVE OfRun(v)'
    OBVIOUS
  <2>1. CASE v # entry[p].by
    <3>1. job[v].pc \in Ran => job[v].run \in RunId
      BY RunOfJob
    <3> QED BY <1>3, <1>5, <2>1, <3>1, OthersKept
  <2>2. CASE v = entry[p].by
    <3>1. job[v].run = r /\ job[v].pc \in Ran
      BY <1>1, <2>2 DEF OfEntry, Ran, r
    <3>2. ledger[r].by = v
      BY <3>1 DEF EndsInv, OfRun
    <3>3. ledger'[r].by = v
      BY <1>1, <1>3, <1>5, <3>2
    <3>4. job'[v].pc \notin Ran \ {"failed", "outcome"} /\ (job'[v].pc \in Ran => job'[v].run = r)
      BY <2>2 DEF r
    <3> QED BY <3>3, <3>4 DEF OfRun, Ran
  <2> QED BY <2>1, <2>2
<1>7. entry'[p] = None /\ \A q \in Process \ {p} : entry'[q] = entry[q]
  BY DEF TypeInv, WorkOK
<1>8. \A q \in Process : OfEntry(q)'
  <2>1. OfEntry(p)'
    BY <1>7 DEF OfEntry
  <2> SUFFICES ASSUME NEW q \in Process \ {p}, entry[q] # None PROVE OfEntry(q)'
    BY <1>7, <2>1 DEF OfEntry
  <2>2. OfEntry(q) /\ entry[q].run \in RunId /\ entry'[q] = entry[q]
    BY <1>7, RunOfEntry DEF EndsInv
  <2>3. entry[q].by \in Runner => job'[entry[q].by] = job[entry[q].by]
    <3>1. entry[q].by \in Runner => entry[q].by # entry[p].by
      BY <1>1, <2>2 DEF OfEntry
    <3> QED BY <3>1
  <2>4. CASE entry[q].run # r
    BY <1>5, <2>2, <2>3, <2>4 DEF OfEntry
  <2>5. CASE entry[q].run = r
    <3>1. entry[q].row.by = was.by
      BY <1>2, <2>2, <2>5 DEF OfEntry
    <3>2. was.by = "daemon"
      BY <1>2, <2>2, <3>1 DEF OfEntry
    <3> QED BY <1>2, <1>3, <1>5, <2>2, <2>3, <2>5, <3>1, <3>2 DEF OfEntry
  <2> QED BY <2>4, <2>5
<1>9. CompletedIsTrue' /\ EndStays
  <2>1. CompletedIsTrue'
    BY <1>3, <1>5 DEF EndsInv, CompletedIsTrue
  <2>2. EndStays
    BY <1>2, <1>3, <1>5 DEF EndStays
  <2> QED BY <2>1, <2>2
<1> QED BY <1>6, <1>8, <1>9 DEF EndsInv

LEMMA FinishAppendEnds ==
  ASSUME TypeInv, EndsInv, NEW w \in Runner, FinishAppend(w) PROVE EndsInv' /\ EndStays
<1> DEFINE p == ProcessOf(w)
           status == IF job[w].pc = "finish" THEN "completed" ELSE "failed"
<1>1. /\ p \in Process /\ entry[p] # None /\ entry[p].by = w
      /\ Touch(entry[p].run, Finished(entry[p].row, status))
      /\ entry' = [entry EXCEPT ![p] = None] /\ UNCHANGED <<turn, after>>
      /\ job[w].pc \in {"finish", "fail"}
  BY Names DEF FinishAppend, At
<1>2. OfEntry(p) /\ OfRun(w)
  BY <1>1 DEF EndsInv
<1>3. entry[p].run = job[w].run
  BY <1>1, <1>2 DEF OfEntry
<1>4. status = "completed" => turn[entry[p].run] = "done"
  <2>1. job[w].pc = "finish" => w = "daemon"
    BY DEF TypeInv, RunnerOK, JobOK
  <2> QED BY <1>2, <1>3, <2>1 DEF OfRun
<1>5. status \in Terminal
  BY DEF Terminal
<1>6. /\ \A v \in Runner : v # w => job'[v] = job[v]
      /\ job'[w].pc \notin Ran \ {"failed", "outcome"}
      /\ job'[w].pc \in Ran => job'[w].run = job[w].run
  <2>1. job \in [Runner -> JobRecord(Len(ledger))]
    BY DEF TypeInv, RunnerOK
  <2>2. CASE job[w].pc = "fail"
    <3>1. PICK pc \in {"failed", "outcome"} : Goto(w, pc)
      BY <2>2 DEF FinishAppend
    <3> QED BY <2>1, <3>1 DEF Goto, JobRecord
  <2>3. CASE job[w].pc # "fail"
    <3>1. job' = [job EXCEPT ![w] = Scanning(job[w])]
      BY <2>1, <2>3 DEF FinishAppend, Release
    <3> QED BY <2>1, <3>1, ScanningFree
  <2> QED BY <2>2, <2>3
<1> HIDE DEF p, status
<1> QED BY <1>1, <1>3, <1>4, <1>5, <1>6, EntryWritten

(* A process that does not run has no job; the starting desktop reconciles *)
(* before its runners begin.                                               *)
RestInv == \A w \in Runner : ~Up(w) => job[w].pc = "idle"

LEMMA RestMoves ==
  ASSUME RestInv, NEW w \in Runner, Up(w), UNCHANGED proc,
         \A v \in Runner \ {w} : job'[v] = job[v]
  PROVE  RestInv'
BY DEF RestInv, Up

LEMMA WalkerIsUp ==
  ASSUME TypeInv, NEW w \in Runner, Walk(w) \/ Fail(w)
  PROVE  /\ Up(w) /\ UNCHANGED proc
         /\ \A v \in Runner \ {w} : job'[v] = job[v]
<1>1. ASSUME Tick(w) \/ OpenClaim(w) \/ Claim(w) \/ Skip(w) \/ Reread(w) \/ StartRun(w)
             \/ Open(w) \/ Send(w) \/ MarkDispatched(w) \/ FinishRead(w)
             \/ FinishAppend(w) \/ Fail(w) \/ MarkLoad(w) \/ MarkSave(w)
      PROVE  Up(w) /\ UNCHANGED proc
  BY <1>1 DEF Tick, OpenClaim, Claim, Skip, Reread, StartRun, Open, Send, MarkDispatched,
     FinishRead, FinishAppend, Fail, MarkLoad, MarkSave, At
<1> SUFFICES \A v \in Runner \ {w} : job'[v] = job[v]
  BY <1>1 DEF Walk, RunStep
<1>2. job \in [Runner -> JobRecord(Len(ledger))]
  BY DEF TypeInv, RunnerOK
<1>3. CASE Tick(w)
  BY <1>2, <1>3 DEF Tick
<1>4. CASE OpenClaim(w)
  <2>1. PICK due \in job[w].todo :
          job' = [job EXCEPT ![w].todo = @ \ {due}, ![w].auto = due[1],
                             ![w].row = due[2], ![w].pc = "claim"]
    BY <1>4 DEF OpenClaim
  <2> QED BY <1>2, <2>1
<1>5. CASE Claim(w) \/ Fail(w) \/ Open(w) \/ Send(w) \/ MarkDispatched(w)
  BY <1>2, <1>5 DEF Claim, Fail, Open, Send, MarkDispatched, Goto
<1>6. CASE Skip(w) \/ Reread(w)
  BY <1>2, <1>6 DEF Skip, Reread, Release
<1>7. CASE StartRun(w)
  BY <1>2, <1>7 DEF StartRun
<1>8. CASE MarkLoad(w) \/ FinishRead(w)
  BY <1>8 DEF MarkLoad, FinishRead
<1>9. CASE MarkSave(w) \/ FinishAppend(w)
  BY <1>2, <1>9 DEF MarkSave, FinishAppend, Release, Goto
<1> QED BY <1>3, <1>4, <1>5, <1>6, <1>7, <1>8, <1>9 DEF Walk, RunStep

LEMMA RestStep == TypeInv /\ RestInv /\ [Next]_vars => RestInv'
<1> SUFFICES ASSUME TypeInv, RestInv, [Next]_vars PROVE RestInv'
  OBVIOUS
<1> USE DEF RestInv, Up
<1>1. CASE UNCHANGED vars
  BY <1>1 DEF vars
<1>2. ASSUME NEW w \in Runner, Walk(w) \/ Fail(w) PROVE RestInv'
  BY <1>2, WalkerIsUp, RestMoves
<1>3. ASSUME NEW a \in Automation, Press(a) PROVE RestInv'
  BY <1>3 DEF Press, At, TypeInv, RunnerOK
<1>4. ASSUME NEW end \in Ends, AwaitEnds(end) PROVE RestInv'
  BY <1>4 DEF AwaitEnds, At, Goto, TypeInv, RunnerOK
<1>5. ASSUME NEW r \in RunId, NEW end, Settle(r, end) \/ OtherTurn(r, end) \/ TurnEnds(r, end)
      PROVE  RestInv'
  BY <1>5 DEF Settle, OtherTurn, Settled, TurnEnds
<1>6. CASE SettleSave \/ EditSave \/ Later \/ \E a \in Automation, e \in Edit : EditLoad(a, e)
  BY <1>6 DEF SettleSave, EditSave, Later, EditLoad
<1>7. ASSUME NEW p \in Process, End(p) PROVE RestInv'
  BY <1>7 DEF End, OfProcess, Idle, TypeInv, WorkOK
<1>8. ASSUME NEW p \in Process, Start(p) PROVE RestInv'
  BY <1>8, Names DEF Start, TypeInv, WorkOK
<1>9. CASE Reconcile
  BY <1>9, Names DEF Reconcile, ReconcileRead, ReconcileAppend, Started, TypeInv, WorkOK
<1> HIDE DEF RestInv, Up
<1> QED BY <1>1, <1>2, <1>3, <1>4, <1>5, <1>6, <1>7, <1>8, <1>9 DEF Next

LEMMA ReconcileAppendEnds ==
  ASSUME TypeInv, RestInv, EndsInv, ReconcileAppend PROVE EndsInv' /\ EndStays
<1>1. /\ "desktop" \in Process /\ entry["desktop"] # None
      /\ Touch(entry["desktop"].run, Finished(entry["desktop"].row, "interrupted"))
      /\ entry' = [entry EXCEPT !["desktop"] = None] /\ UNCHANGED <<turn, job, after>>
      /\ proc["desktop"] = "starting"
  BY DEF ReconcileAppend, Process
<1>2. entry["desktop"].by \notin Runner
  BY <1>1 DEF EndsInv, OfEntry, RestInv, Up
<1>3. "interrupted" \in Terminal
  BY DEF Terminal
<1> QED BY <1>1, <1>2, <1>3, EntryWritten

(* A session settles its active run, and no other turn changes.            *)
LEMMA SettledEnds ==
  ASSUME TypeInv, EndsInv, NEW r \in RunId, NEW end \in Ends \cup {"exit", "stop"},
         Settled(r, end), after \subseteq after', end = "done" => EndedWell(r)',
         \A q \in RunId : \/ turn'[q] = turn[q]
                         \/ /\ q = r /\ ledger[q].by # "daemon"
                            /\ turn[q] = "running"
  PROVE  EndsInv' /\ EndStays
<1> DEFINE row == Finished(ledger[r], StatusOf(end))
<1>1. entry["desktop"] = None /\ Touch(r, row) /\ UNCHANGED <<job, entry>>
  BY DEF Settled
<1>2. StatusOf(end) \in Terminal /\ (StatusOf(end) = "completed" => end = "done")
  BY DEF StatusOf, Ends, Terminal
<1>3. /\ row \in Run /\ row.by = ledger[r].by /\ row.status \in Terminal
      /\ row.status = "completed" => ledger[r].status = "completed" \/ end = "done"
      /\ ledger[r].status \in Terminal => row.status = ledger[r].status
  <2>1. row \in Run /\ ledger[r] \in Run
    BY <1>2, RowOfRun, FinishedOK DEF TypeInv, Status
  <2> QED BY <1>2, <2>1 DEF Finished, Run
<1> HIDE DEF row
<1>4. RunId' = RunId /\ \A q \in RunId : ledger'[q] = IF q = r THEN row ELSE ledger[q]
  BY <1>1, <1>3, TouchOK DEF TypeInv
<1>5. \A q \in RunId : EndedWell(q) => EndedWell(q)'
  BY DEF EndedWell
<1>6. \A v \in Runner : OfRun(v)'
  <2> SUFFICES ASSUME NEW v \in Runner PROVE OfRun(v)'
    OBVIOUS
  <2>1. job[v].pc \in Ran => job[v].run \in RunId
    BY RunOfJob
  <2>2. OfRun(v)
    BY DEF EndsInv
  <2> QED BY <1>1, <1>3, <1>4, <2>1, <2>2 DEF OfRun, Ran
<1>7. \A p \in Process : OfEntry(p)'
  <2> SUFFICES ASSUME NEW p \in Process, entry[p] # None PROVE OfEntry(p)'
    BY <1>1 DEF OfEntry
  <2>1. OfEntry(p) /\ entry[p].run \in RunId /\ p # "desktop"
    BY <1>1, RunOfEntry DEF EndsInv
  <2>2. ledger'[entry[p].run].by = ledger[entry[p].run].by
        /\ (ledger[entry[p].run].status \in Terminal
             => ledger'[entry[p].run].status \in Terminal)
    BY <1>3, <1>4, <2>1
  <2> QED BY <1>1, <1>5, <2>1, <2>2 DEF OfEntry
<1>8. CompletedIsTrue' /\ EndStays
  <2>1. CompletedIsTrue'
    BY <1>3, <1>4, <1>5 DEF EndsInv, CompletedIsTrue
  <2>2. EndStays
    BY <1>3, <1>4 DEF EndStays
  <2> QED BY <2>1, <2>2
<1> QED BY <1>6, <1>7, <1>8 DEF EndsInv

LEMMA SettleEnds ==
  ASSUME TypeInv, EndsInv, NEW r \in RunId, NEW end \in Ends \cup {"exit", "stop"},
         Settle(r, end)
  PROVE  EndsInv' /\ EndStays
<1>1. /\ ledger[r].by # "daemon" /\ turn[r] = "running" /\ Over(end) \in TurnState
      /\ turn' = [turn EXCEPT ![r] = Over(end)] /\ UNCHANGED after /\ Settled(r, end)
  BY DEF Settle, OfDesktop, Over, TurnState
<1>2. \A q \in RunId : turn'[q] = IF q = r THEN Over(end) ELSE turn[q]
  BY <1>1, TurnSet DEF TypeInv
<1>3. end = "done" => EndedWell(r)'
  BY <1>2 DEF EndedWell, Over
<1>4. \A q \in RunId : \/ turn'[q] = turn[q]
                      \/ /\ q = r /\ ledger[q].by # "daemon"
                         /\ turn[q] = "running"
  BY <1>1, <1>2
<1>5. Settled(r, end) /\ after \subseteq after'
  BY <1>1
<1> HIDE DEF EndedWell
<1> QED BY <1>3, <1>4, <1>5, SettledEnds

LEMMA OtherTurnEnds ==
  ASSUME TypeInv, EndsInv, NEW r \in RunId, NEW end \in Ends \cup {"exit", "stop"},
         OtherTurn(r, end)
  PROVE  EndsInv' /\ EndStays
<1>1. /\ Settled(r, end) /\ UNCHANGED turn /\ after \subseteq after'
      /\ end = "done" => EndedWell(r)'
  BY DEF OtherTurn, EndedWell
<1>2. \A q \in RunId : turn'[q] = turn[q]
  BY <1>1
<1> HIDE DEF EndedWell
<1> QED BY <1>1, <1>2, SettledEnds

LEMMA TurnEndsEnds ==
  ASSUME TypeInv, EndsInv, NEW r \in RunId, NEW end, TurnEnds(r, end)
  PROVE  EndsInv' /\ EndStays
<1>1. /\ ledger[r].by # "daemon" /\ turn[r] = "running" /\ Over(end) \in TurnState
      /\ turn' = [turn EXCEPT ![r] = Over(end)] /\ UNCHANGED <<job, ledger, entry, after>>
  BY DEF TurnEnds, OfDesktop, Over, TurnState
<1>2. \A q \in RunId : turn'[q] = IF q = r THEN Over(end) ELSE turn[q]
  BY <1>1, TurnSet DEF TypeInv
<1>3. \A q \in RunId : EndedWell(q) => EndedWell(q)'
  BY <1>1, <1>2 DEF EndedWell
<1>4. \A v \in Runner : OfRun(v)'
  <2> SUFFICES ASSUME NEW v \in Runner PROVE OfRun(v)'
    OBVIOUS
  <2>1. job[v].pc \in Ran => job[v].run \in RunId
    BY RunOfJob
  <2>2. OfRun(v)
    BY DEF EndsInv
  <2> QED BY <1>1, <1>2, <2>1, <2>2 DEF OfRun, Ran
<1>5. \A p \in Process : OfEntry(p)'
  <2> SUFFICES ASSUME NEW p \in Process, entry[p] # None PROVE OfEntry(p)'
    BY <1>1 DEF OfEntry
  <2>1. OfEntry(p) /\ entry[p].run \in RunId
    BY RunOfEntry DEF EndsInv
  <2> QED BY <1>1, <1>3, <2>1 DEF OfEntry
<1>6. CompletedIsTrue' /\ EndStays
  BY <1>1, <1>3 DEF EndsInv, CompletedIsTrue, EndStays, RunId
<1> QED BY <1>4, <1>5, <1>6 DEF EndsInv

LEMMA EndEnds ==
  ASSUME TypeInv, EndsInv, NEW p \in Process, End(p) PROVE EndsInv' /\ EndStays
<1>1. /\ job' = [w \in Runner |-> IF w \in OfProcess(p) THEN Idle ELSE job[w]]
      /\ entry' = [entry EXCEPT ![p] = None] /\ UNCHANGED <<ledger, after>>
  BY DEF End
<1>2. /\ \A r \in RunId : ProcessOf(ledger[r].by) # p => turn'[r] = turn[r]
      /\ \A r \in RunId : ledger[r].status \in Terminal /\ turn[r] = "done"
                         => turn'[r] = "done"
  BY TurnsEnd DEF TypeInv
<1>3. \A w \in Runner : OfRun(w)'
  <2> SUFFICES ASSUME NEW w \in Runner PROVE OfRun(w)'
    OBVIOUS
  <2>1. CASE w \in OfProcess(p)
    BY <1>1, <2>1 DEF OfRun, Idle, Ran
  <2>2. CASE w \notin OfProcess(p)
    <3>1. job[w].pc \in Ran => job[w].run \in RunId /\ ledger[job[w].run].by = w
      BY RunOfJob DEF EndsInv, OfRun
    <3>2. ProcessOf(w) # p /\ job'[w] = job[w] /\ ledger' = ledger
      BY <1>1, <2>2 DEF OfProcess
    <3>3. job[w].pc \in Ran => turn'[job[w].run] = turn[job[w].run]
      <4> SUFFICES ASSUME job[w].pc \in Ran PROVE turn'[job[w].run] = turn[job[w].run]
        OBVIOUS
      <4>1. job[w].run \in RunId /\ ProcessOf(ledger[job[w].run].by) # p
        BY <3>1, <3>2
      <4> QED BY <1>2, <4>1
    <3> QED BY <3>1, <3>2, <3>3, OthersKept
  <2> QED BY <2>1, <2>2
<1>4. \A q \in Process : OfEntry(q)'
  <2> SUFFICES ASSUME NEW q \in Process \ {p}, entry[q] # None PROVE OfEntry(q)'
    BY <1>1 DEF OfEntry, TypeInv, WorkOK
  <2>1. OfEntry(q) /\ entry[q].run \in RunId /\ entry'[q] = entry[q]
    BY <1>1, RunOfEntry DEF EndsInv
  <2>2. entry[q].by \in Runner => job'[entry[q].by] = job[entry[q].by]
    BY <1>1, <2>1 DEF OfEntry, OfProcess
  <2>3. entry[q].row.status = "completed" => EndedWell(entry[q].run)'
    <3>1. entry[q].row.status = "completed" => EndedWell(entry[q].run)
      BY <2>1 DEF OfEntry
    <3>2. entry[q].row.status = "completed" => ledger[entry[q].run].status \in Terminal
      BY <2>1 DEF OfEntry, Terminal
    <3> QED BY <1>1, <1>2, <2>1, <3>1, <3>2
  <2> QED BY <1>1, <2>1, <2>2, <2>3 DEF OfEntry
<1>5. CompletedIsTrue' /\ EndStays
  BY <1>1, <1>2 DEF EndsInv, CompletedIsTrue, EndStays, RunId, Terminal
<1> QED BY <1>3, <1>4, <1>5 DEF EndsInv

-----------------------------------------------------------------------------
(* The theorems                                                            *)

LEMMA StepEnds == TypeInv /\ RestInv /\ EndsInv /\ [Next]_vars => EndsInv' /\ EndStays
<1> SUFFICES ASSUME TypeInv, RestInv, EndsInv, [Next]_vars PROVE EndsInv' /\ EndStays
  OBVIOUS
<1>1. CASE UNCHANGED vars
  BY <1>1, EndsKept DEF vars
<1>2. ASSUME NEW w \in Runner, Walk(w) \/ Fail(w) PROVE EndsInv' /\ EndStays
  BY <1>2, TickEnds, OpenClaimEnds, ClaimEnds, SkipEnds, RereadEnds, StartRunEnds, OpenEnds,
     SendEnds, FailEnds, MarkDispatchedEnds, MarkLoadEnds, MarkSaveEnds, FinishReadEnds,
     FinishAppendEnds DEF Walk, RunStep
<1>3. CASE SettleSave \/ EditSave \/ Later \/ Started
           \/ (\E p \in Process : Start(p)) \/ \E a \in Automation, e \in Edit : EditLoad(a, e)
  BY <1>3, EndsKept DEF SettleSave, EditSave, Later, Started, Start, EditLoad
<1>4. CASE Reconcile
  BY <1>3, <1>4, ReconcileReadEnds, ReconcileAppendEnds DEF Reconcile
<1> QED BY <1>1, <1>2, <1>3, <1>4, PressEnds, AwaitEndsEnds, SettleEnds,
     OtherTurnEnds, TurnEndsEnds, EndEnds DEF Next

LEMMA InitEnds == Init => RestInv /\ EndsInv
BY DEF Init, RestInv, Idle, EndsInv, OfRun, OfEntry, Ran, CompletedIsTrue, RunId

LEMMA EndsAlways == Spec => [](TypeInv /\ RestInv /\ EndsInv)
<1>1. TypeInv /\ RestInv /\ EndsInv /\ [Next]_vars => (TypeInv /\ RestInv /\ EndsInv)'
  BY StepTypes, RestStep, StepEnds
<1> QED BY InitTypes, InitEnds, <1>1, PTL DEF Spec

(* A run that the ledger shows as completed had a turn that ended well, or *)
(* was still the active run of its session when a later turn did.          *)
THEOREM CompletionIsTrue == Spec => []CompletedIsTrue
<1>1. EndsInv => CompletedIsTrue
  BY DEF EndsInv
<1> QED BY EndsAlways, <1>1, PTL

(* The first end recorded for a run of the desktop stays, whatever its     *)
(* settlement, a late mark, a failed step and a restart write later.       *)
THEOREM FirstEndStays == Spec => SettledOnce
<1>1. TypeInv /\ RestInv /\ EndsInv /\ [Next]_vars
      => [\A r \in RunId :
            ledger[r].by # "daemon" /\ ledger[r].status \in Terminal
            => ledger'[r].status = ledger[r].status]_vars
  BY StepEnds DEF EndStays
<1> QED BY EndsAlways, <1>1, PTL DEF Spec, SettledOnce
=============================================================================
