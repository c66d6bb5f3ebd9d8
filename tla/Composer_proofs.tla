--------------------------- MODULE Composer_proofs ---------------------------
(***************************************************************************)
(* Proofs about Composer for any sessions, messages, queue limit and       *)
(* bounds: no follow-up is doubled, lost, misdirected or overtaken.        *)
(***************************************************************************)
EXTENDS Composer, SequenceTheorems, TLAPS

------------------------------------------------------------------------------
(* The queues' functions                                                   *)

LEMMA AtMostKeepsTheLast ==
  ASSUME NEW S, NEW q \in Seq(S), NEW n \in Nat
  PROVE  /\ AtMost(q, n) \in Seq(S)
         /\ Len(AtMost(q, n)) <= n
         /\ n > 0 /\ Len(q) > 0 => Len(AtMost(q, n)) > 0
         /\ Len(AtMost(q, n)) <= Len(q)
         /\ \A m \in 1 .. Len(AtMost(q, n)) :
              AtMost(q, n)[m] = q[m + Len(q) - Len(AtMost(q, n))]
<1>1. CASE Len(q) <= n
  BY <1>1 DEF AtMost
<1>2. CASE Len(q) > n
  <2> DEFINE r == SubSeq(q, Len(q) - n + 1, Len(q))
  <2>1. AtMost(q, n) = r
    BY <1>2 DEF AtMost, LastN
  <2>2. \A m \in Len(q) - n + 1 .. Len(q) : q[m] \in S
    BY <1>2
  <2>3. /\ r \in Seq(S) /\ Len(r) = n
        /\ \A m \in 1 .. n : r[m] = q[m + Len(q) - n]
    <3>1. /\ r \in Seq(S)
          /\ Len(r) = IF Len(q) - n + 1 <= Len(q) THEN Len(q) - (Len(q) - n + 1) + 1 ELSE 0
          /\ \A m \in 1 .. Len(q) - (Len(q) - n + 1) + 1 :
               r[m] = q[Len(q) - n + 1 + m - 1]
      BY <2>2, SubSeqProperties
    <3> HIDE DEF r
    <3> QED
      BY <1>2, <3>1
  <2> HIDE DEF r
  <2> QED
    BY <1>2, <2>1, <2>3
<1> QED
  BY <1>1, <1>2

\* Putting a message back: it is in the queue, in front of what stays.
LEMMA RequeuedInFront ==
  ASSUME ComposerAssumption, NEW q \in Seq(Item), NEW i \in Item
  PROVE  LET r == RequeueAtFront(q, i)
         IN  /\ r \in Seq(Item)
             /\ \E n \in DOMAIN r : r[n] = i
             /\ r = q \/ /\ r[1] = i
                         /\ \E d \in Nat : \A n \in 2 .. Len(r) :
                              n - 1 + d \in DOMAIN q /\ r[n] = q[n - 1 + d]
<1> DEFINE t == AtMost(q, QueueMax - 1)
           r == RequeueAtFront(q, i)
<1>1. CASE Contains(q, i)
  BY <1>1 DEF RequeueAtFront, Contains
<1>2. CASE ~Contains(q, i)
  <2>1. QueueMax - 1 \in Nat
    BY DEF ComposerAssumption
  <2>2. /\ t \in Seq(Item) /\ Len(t) <= Len(q)
        /\ \A m \in 1 .. Len(t) : t[m] = q[m + Len(q) - Len(t)]
    BY <2>1, AtMostKeepsTheLast
  <2>3. r = <<i>> \o t
    BY <1>2 DEF RequeueAtFront
  <2> HIDE DEF t, r
  <2>4. /\ r \in Seq(Item) /\ Len(r) = 1 + Len(t) /\ r[1] = i
        /\ \A n \in 2 .. Len(r) : r[n] = t[n - 1]
    <3>1. <<i>> \in Seq(Item) /\ Len(<<i>>) = 1 /\ <<i>>[1] = i
      OBVIOUS
    <3>2. /\ r \in Seq(Item) /\ Len(r) = Len(<<i>>) + Len(t)
          /\ \A n \in 1 .. Len(<<i>>) + Len(t) :
               r[n] = IF n <= Len(<<i>>) THEN <<i>>[n] ELSE t[n - Len(<<i>>)]
      BY <2>2, <2>3, <3>1, ConcatProperties
    <3> QED
      BY <2>2, <3>1, <3>2
  <2>5. Len(q) - Len(t) \in Nat
    BY <2>2
  <2>6. \A n \in 2 .. Len(r) : /\ n - 1 + (Len(q) - Len(t)) \in DOMAIN q
                               /\ r[n] = q[n - 1 + (Len(q) - Len(t))]
    <3> SUFFICES ASSUME NEW n \in 2 .. Len(r)
                 PROVE  /\ n - 1 + (Len(q) - Len(t)) \in DOMAIN q
                        /\ r[n] = q[n - 1 + (Len(q) - Len(t))]
      OBVIOUS
    <3>1. /\ Len(q) \in Nat /\ Len(t) \in Nat /\ DOMAIN q = 1 .. Len(q)
          /\ n - 1 \in 1 .. Len(t)
      BY <2>2, <2>4
    <3>2. r[n] = t[n - 1] /\ t[n - 1] = q[n - 1 + Len(q) - Len(t)]
      BY <2>2, <2>4, <3>1
    <3>3. n - 1 + Len(q) - Len(t) = n - 1 + (Len(q) - Len(t))
      BY <3>1
    <3> QED
      BY <2>2, <3>1, <3>2, <3>3
  <2>7. 1 \in DOMAIN r
    BY <2>2, <2>4
  <2> QED
    BY <2>4, <2>5, <2>6, <2>7 DEF r
<1> QED
  BY <1>1, <1>2

LEMMA EnqueuedLast ==
  ASSUME ComposerAssumption, NEW q \in Seq(Item), NEW i \in Item
  PROVE  LET r == EnqueueSend(q, i)
         IN  /\ r \in Seq(Item) /\ Len(r) > 0 /\ r[Len(r)] = i
             /\ \E d \in Nat \cup {-1} : \A n \in 1 .. Len(r) - 1 :
                  n + d \in DOMAIN q /\ r[n] = q[n + d]
<1> DEFINE a == Append(q, i)
           r == EnqueueSend(q, i)
<1>1. /\ a \in Seq(Item) /\ Len(a) = Len(q) + 1 /\ a[Len(a)] = i
      /\ \A n \in 1 .. Len(q) : a[n] = q[n]
  BY AppendProperties
<1>2. r = AtMost(a, QueueMax)
  BY DEF EnqueueSend
<1> HIDE DEF a, r
<1>3. /\ r \in Seq(Item) /\ Len(r) <= Len(a) /\ Len(r) > 0
      /\ \A m \in 1 .. Len(r) : r[m] = a[m + Len(a) - Len(r)]
  <2>1. QueueMax \in Nat /\ QueueMax > 0
    BY DEF ComposerAssumption
  <2>2. Len(q) \in Nat /\ Len(a) > 0
    BY <1>1
  <2>3. /\ r \in Seq(Item) /\ Len(r) <= Len(a)
        /\ Len(a) > 0 => Len(r) > 0
        /\ \A m \in 1 .. Len(r) : r[m] = a[m + Len(a) - Len(r)]
    BY <1>1, <1>2, <2>1, AtMostKeepsTheLast, Zenon
  <2> QED
    BY <2>2, <2>3
<1>4. r[Len(r)] = i
  BY <1>1, <1>3
<1>5. Len(a) - Len(r) \in Nat
  BY <1>1, <1>3
<1>6. \A n \in 1 .. Len(r) - 1 : /\ n + (Len(a) - Len(r)) \in DOMAIN q
                                 /\ r[n] = q[n + (Len(a) - Len(r))]
  <2> SUFFICES ASSUME NEW n \in 1 .. Len(r) - 1
               PROVE  /\ n + (Len(a) - Len(r)) \in DOMAIN q
                      /\ r[n] = q[n + (Len(a) - Len(r))]
    OBVIOUS
  <2>1. /\ Len(q) \in Nat /\ Len(a) \in Nat /\ Len(r) \in Nat
        /\ DOMAIN q = 1 .. Len(q)
    BY <1>1, <1>3
  <2>2. n + (Len(a) - Len(r)) \in 1 .. Len(q)
    BY <1>1, <1>3, <2>1
  <2>3. n + Len(a) - Len(r) = n + (Len(a) - Len(r)) /\ n \in 1 .. Len(r)
    BY <2>1
  <2> QED
    BY <1>1, <1>3, <2>1, <2>2, <2>3
<1> QED
  BY <1>3, <1>4, <1>5, <1>6 DEF r

LEMMA RemovedOne ==
  ASSUME NEW q \in Seq(Item), NEW n \in DOMAIN q
  PROVE  /\ RemoveAt(q, n) \in Seq(Item)
         /\ Len(RemoveAt(q, n)) = Len(q) - 1
         /\ \A m \in 1 .. Len(q) - 1 :
              RemoveAt(q, n)[m] = q[IF m < n THEN m ELSE m + 1]
<1> DEFINE a == SubSeq(q, 1, n - 1)
           b == SubSeq(q, n + 1, Len(q))
<1>1. n \in 1 .. Len(q)
  OBVIOUS
<1>2. /\ a \in Seq(Item) /\ Len(a) = n - 1
      /\ \A m \in 1 .. n - 1 : a[m] = q[m]
  BY <1>1, SubSeqProperties
<1>3. /\ b \in Seq(Item) /\ Len(b) = Len(q) - n
      /\ \A m \in 1 .. Len(q) - n : b[m] = q[m + n]
  BY <1>1, SubSeqProperties
<1>4. RemoveAt(q, n) = a \o b
  BY DEF RemoveAt
<1> HIDE DEF a, b
<1>5. /\ a \o b \in Seq(Item) /\ Len(a \o b) = Len(a) + Len(b)
      /\ \A m \in 1 .. Len(a) + Len(b) :
           (a \o b)[m] = IF m <= Len(a) THEN a[m] ELSE b[m - Len(a)]
  BY <1>2, <1>3, ConcatProperties
<1> DEFINE c == a \o b
<1> HIDE DEF c
<1>6. Len(q) \in Nat /\ n \in Nat
  BY <1>1
<1>7. c \in Seq(Item) /\ Len(c) = Len(q) - 1
  BY <1>2, <1>3, <1>5, <1>6 DEF c
<1>8. ASSUME NEW m \in 1 .. Len(q) - 1
      PROVE  c[m] = q[IF m < n THEN m ELSE m + 1]
  <2>1. m \in 1 .. Len(a) + Len(b)
    BY <1>2, <1>3, <1>6
  <2>2. c[m] = IF m <= Len(a) THEN a[m] ELSE b[m - Len(a)]
    BY <1>5, <2>1 DEF c
  <2>3. CASE m < n
    BY <1>2, <1>6, <2>2, <2>3
  <2>4. CASE ~(m < n)
    <3>1. m - Len(a) \in 1 .. Len(q) - n /\ m - Len(a) + n = m + 1
      BY <1>2, <1>6, <2>4
    <3>2. ~(m <= Len(a))
      BY <1>2, <1>6, <2>4
    <3> QED
      BY <1>3, <2>2, <2>4, <3>1, <3>2
  <2> QED
    BY <2>3, <2>4
<1> QED
  BY <1>4, <1>7, <1>8 DEF c
------------------------------------------------------------------------------
(* Types.  Part of TypeOK is what a send changes.                          *)

SendTypes ==
  /\ view \in Key /\ shown \in Snapshot /\ live \in Snapshot
  /\ queue \in [Key -> Seq(Item)] /\ hold \in BOOLEAN /\ gone \subseteq Item
  /\ job \in Send \cup {NoJob}

LEMMA SnapType ==
  ASSUME TypeOK, NEW s \in Key
  PROVE  Snap(s) \in Snapshot
BY DEF TypeOK, Snap, Snapshot, Key, State

LEMMA JobIsSend ==
  ASSUME TypeOK
  PROVE  /\ job.ph # "idle" => job \in Send /\ InFlight
         /\ InFlight => job \in Send /\ job.ph # "idle"
         /\ dialog # NoDialog => dialog \in Send
         /\ ~InFlight => job.ph = "idle"
BY DEF TypeOK, Send, NoJob, InFlight

LEMMA RequeueType ==
  ASSUME ComposerAssumption, NEW q \in [Key -> Seq(Item)], NEW k \in Key, NEW i \in Item
  PROVE  [q EXCEPT ![k] = RequeueAtFront(q[k], i)] \in [Key -> Seq(Item)]
<1>1. RequeueAtFront(q[k], i) \in Seq(Item)
  BY RequeuedInFront
<1> QED
  BY <1>1

LEMMA QueueSets ==
  ASSUME NEW q \in [Key -> Seq(Item)], NEW k \in Key
  PROVE  ToSet(q[k]) \subseteq Item
BY DEF ToSet

LEMMA FailsTypes ==
  ASSUME ComposerAssumption, TypeOK, NEW j \in Send, NEW sh \in Snapshot,
         NEW vw \in Key, NEW lv \in Snapshot, Fails(j, sh, vw, lv)
  PROVE  SendTypes'
<1>1. /\ job' = NoJob /\ view' = vw
      /\ shown' \in {sh, [sh EXCEPT !.st = "ready"]}
      /\ live' \in {lv, [lv EXCEPT !.st = IF lv.id # Draft THEN "ready" ELSE "idle"]}
  BY DEF Fails
<1>2. shown' \in Snapshot /\ live' \in Snapshot
  BY <1>1 DEF Snapshot, State
<1>3. hold' \in BOOLEAN
  BY DEF Fails, HoldAfter, TypeOK
<1>4. queue' \in [Key -> Seq(Item)] /\ gone' \subseteq Item
  <2>1. CASE j.q
    <3>1. /\ queue' = [queue EXCEPT ![j.target] = RequeueAtFront(queue[j.target], j.item)]
          /\ gone' = gone \cup (ToSet(queue[j.target]) \ ToSet(queue'[j.target]))
      BY <2>1 DEF Fails
    <3>2. j.target \in Key /\ j.item \in Item /\ queue \in [Key -> Seq(Item)] /\ gone \subseteq Item
      BY DEF Send, TypeOK
    <3> QED
      BY <3>1, <3>2, RequeueType, QueueSets
  <2>2. CASE ~j.q
    BY <2>2 DEF Fails, TypeOK
  <2> QED
    BY <2>1, <2>2
<1> QED
  BY <1>1, <1>2, <1>3, <1>4 DEF SendTypes

LEMMA SubmitsTypes ==
  ASSUME ComposerAssumption, TypeOK, NEW j \in Send, NEW s \in Key, NEW sh \in Snapshot,
         NEW vw \in Key, NEW lv \in Snapshot, Submits(j, s, sh, vw, lv)
  PROVE  SendTypes'
<1>1. CASE Fails(j, sh, vw, lv)
  BY <1>1, FailsTypes
<1>2. CASE ~Fails(j, sh, vw, lv)
  <2>1. /\ job' = [j EXCEPT !.ph = "submit", !.sid = s]
        /\ view' = vw /\ shown' = sh /\ live' = lv
        /\ hold' = HoldAfter(sh)
        /\ UNCHANGED <<queue, gone>>
    BY <1>2 DEF Submits
  <2>2. job' \in Send
    BY <2>1 DEF Send
  <2> QED
    BY <2>1, <2>2 DEF SendTypes, TypeOK, HoldAfter
<1> QED
  BY <1>1, <1>2

\* What becomes of a send whose budget is settled.
Goes(j, sh, lv) ==
  \/ Fails(j, sh, view, lv) /\ UNCHANGED calls
  \/ j.target # Draft /\ Submits(j, j.target, sh, view, lv) /\ UNCHANGED calls
  \/ /\ job' = [j EXCEPT !.ph = IF j.target = Draft THEN "create" ELSE "connect",
                         !.before = view]
     /\ \/ UNCHANGED calls
        \/ calls' = calls \cup {[by |-> "send", to |-> j.target,
                                 ph |-> "sent", snap |-> Snap(Draft)]}
     /\ shown' = sh /\ live' = lv /\ hold' = HoldAfter(sh)
     /\ UNCHANGED <<view, queue, gone>>

LEMMA ProceedsCases ==
  ASSUME TypeOK, NEW j \in Send, Proceeds(j)
  PROVE  \E sh, lv \in Snapshot : Goes(j, sh, lv)
<1> DEFINE sh == ShownOptimistic(j)
           lv == LiveOptimistic(j)
<1>1. sh \in Snapshot
  BY DEF ShownOptimistic, TypeOK, Snapshot, State
<1>2. lv \in Snapshot
  BY DEF LiveOptimistic, TypeOK, Snapshot, State, Send
<1>3. Goes(j, sh, lv)
  <2> DEFINE ready == [id |-> j.target, st |-> "ready"]
  <2>1. PICK seen \in {live, lv}, trusted \in BOOLEAN :
          CASE j.target # Draft /\ seen = ready ->
                /\ Submits(j, j.target, sh, view, lv)
                /\ UNCHANGED calls
          [] j.q /\ j.target # Draft /\ seen # ready /\ view # j.target ->
                /\ Fails(j, sh, view, lv)
                /\ UNCHANGED calls
          [] OTHER ->
                IF ~trusted THEN Fails(j, sh, view, lv) /\ UNCHANGED calls
                ELSE IF j.target # Draft /\ j.cap = ready
                THEN Submits(j, j.target, sh, view, lv) /\ UNCHANGED calls
                ELSE /\ job' = [j EXCEPT !.ph = IF j.target = Draft THEN "create"
                                                ELSE "connect",
                                         !.before = view]
                     /\ calls' = IF j.target = Draft THEN calls
                                 ELSE calls \cup {[by |-> "send", to |-> j.target,
                                       ph |-> "sent", snap |-> Snap(Draft)]}
                     /\ shown' = sh /\ live' = lv
                     /\ hold' = HoldAfter(sh)
                     /\ UNCHANGED <<view, queue, gone>>
    BY DEF Proceeds
  <2> HIDE DEF sh, lv, ready
  <2> QED
    BY <2>1 DEF Goes
<1> QED
  BY <1>1, <1>2, <1>3

LEMMA ProceedsTypes ==
  ASSUME ComposerAssumption, TypeOK, NEW j \in Send, Proceeds(j)
  PROVE  SendTypes' /\ calls' \subseteq Call
<1>1. PICK sh \in Snapshot, lv \in Snapshot : Goes(j, sh, lv)
  BY ProceedsCases
<1>2. view \in Key /\ j.target \in Key /\ calls \subseteq Call
  BY DEF TypeOK, Send
<1>3. CASE Fails(j, sh, view, lv) /\ UNCHANGED calls
  BY <1>2, <1>3, FailsTypes
<1>4. CASE Submits(j, j.target, sh, view, lv) /\ UNCHANGED calls
  BY <1>2, <1>4, SubmitsTypes
<1>5. CASE /\ job' = [j EXCEPT !.ph = IF j.target = Draft THEN "create" ELSE "connect",
                               !.before = view]
           /\ \/ UNCHANGED calls
              \/ calls' = calls \cup {[by |-> "send", to |-> j.target,
                                       ph |-> "sent", snap |-> Snap(Draft)]}
           /\ shown' = sh /\ live' = lv /\ hold' = HoldAfter(sh)
           /\ UNCHANGED <<view, queue, gone>>
  <2>1. job' \in Send
    BY <1>2, <1>5 DEF Send
  <2>2. [by |-> "send", to |-> j.target, ph |-> "sent", snap |-> Snap(Draft)] \in Call
    BY <1>2, SnapType DEF Call, Key
  <2> QED
    BY <1>2, <1>5, <2>1, <2>2 DEF SendTypes, TypeOK, HoldAfter
<1> QED
  BY <1>1, <1>3, <1>4, <1>5 DEF Goes

USE DEF hostVars, viewVars, queueVars, sendVars, pastVars, vars

LEMMA AnswerType ==
  ASSUME TypeOK, NEW c \in calls, NEW ph \in {"sent", "spawning", "done", "failed"},
         NEW sn \in Snapshot, Answer(c, ph, sn)
  PROVE  calls' \subseteq Call
<1>1. c \in Call
  BY DEF TypeOK
<1>2. [c EXCEPT !.ph = ph, !.snap = sn] \in Call
  BY <1>1 DEF Call
<1> QED
  BY <1>2 DEF Answer, TypeOK

LEMMA EmitType ==
  ASSUME TypeOK, NEW e \in Snapshot, Emit(e)
  PROVE  events' \in Seq(Snapshot)
BY DEF TypeOK, Emit

LEMMA ParkedType ==
  ASSUME TypeOK, NEW reuse \in BOOLEAN
  PROVE  Parked(reuse) \in [Session -> State]
BY DEF TypeOK, Parked, State

LEMMA HostTypes ==
  ASSUME ComposerAssumption, TypeOK, HostStep \/ Turns
  PROVE  TypeOK'
<1>0. \A c \in calls : /\ c \in Call /\ c.to \in Key
                       /\ c.snap \in Snapshot /\ c.snap.id \in Key
  BY DEF TypeOK, Call, Snapshot
<1>1. ASSUME NEW c \in calls, ConnectWarm(c)
      PROVE  TypeOK'
  <2>1. c.to \in Session /\ c.to \in Key
    BY <1>1 DEF ConnectWarm, TypeOK, Key
  <2>2. calls' \subseteq Call
    BY <1>1, <2>1, SnapType, AnswerType DEF ConnectWarm
  <2>3. CASE focus = c.to
    BY <1>1, <2>2, <2>3 DEF ConnectWarm, TypeOK
  <2>4. CASE focus # c.to
    BY <1>1, <2>1, <2>2, <2>4, SnapType, EmitType, ParkedType DEF ConnectWarm, TypeOK
  <2> QED
    BY <2>3, <2>4
<1>2. ASSUME NEW c \in calls, ConnectCold(c)
      PROVE  TypeOK'
  <2>1. PICK s \in Resolved(c.to), reuse \in BOOLEAN :
          /\ focus' = s
          /\ host' = [Parked(reuse) EXCEPT ![s] = "connecting"]
          /\ known' = known \cup {s} /\ minted' = minted \cup {s}
          /\ Emit([id |-> s, st |-> "connecting"])
          /\ Answer(c, "spawning", [id |-> s, st |-> "connecting"])
    BY <1>2 DEF ConnectCold
  <2>2. s \in Session
    BY DEF Resolved, TypeOK
  <2>3. [id |-> s, st |-> "connecting"] \in Snapshot
    BY <2>2 DEF Snapshot, Key, State
  <2>4. host' \in [Session -> State]
    BY <2>1, <2>2, ParkedType DEF State
  <2> QED
    BY <1>2, <2>1, <2>2, <2>3, <2>4, AnswerType, EmitType DEF ConnectCold, TypeOK, Key
<1>3. ASSUME NEW c \in calls, ConnectRefused(c)
      PROVE  TypeOK'
  <2>1. calls' \subseteq Call
    BY <1>3, SnapType, AnswerType DEF ConnectRefused, Key
  <2> QED
    BY <1>3, <2>1 DEF ConnectRefused, TypeOK
<1>4. ASSUME NEW c \in calls, HostConnected(c)
      PROVE  TypeOK'
  <2>1. job \in Send
    BY <1>4, JobIsSend DEF HostConnected
  <2>2. job' \in Send
    BY <1>4, <2>1 DEF HostConnected, Send
  <2> QED
    BY <1>4, <2>2 DEF HostConnected, TypeOK
<1>5. ASSUME NEW c \in calls, NEW st \in {"ready", "disconnected"}, Spawned(c, st)
      PROVE  TypeOK'
  <2>1. focus \in Key /\ [id |-> focus, st |-> st] \in Snapshot
    BY DEF TypeOK, Snapshot, State
  <2>2. calls' \subseteq Call
    BY <1>5, <2>1, SnapType, AnswerType DEF Spawned
  <2>3. events' \in Seq(Snapshot)
    BY <1>5, <2>1, SnapType, EmitType DEF Spawned
  <2>4. host' \in [Session -> State]
    BY <1>5 DEF Spawned, TypeOK, State
  <2> QED
    BY <1>5, <2>2, <2>3, <2>4 DEF Spawned, TypeOK
<1>6. CASE HostDisconnect
  <2>1. [id |-> Draft, st |-> "idle"] \in Snapshot
    BY DEF Snapshot, Key, State
  <2>2. host' \in [Session -> State] /\ focus' \in Key
    BY <1>6 DEF HostDisconnect, TypeOK, State, Key
  <2> QED
    BY <1>6, <2>1, <2>2, EmitType DEF HostDisconnect, TypeOK
<1>7. CASE HostTargets
  <2>1. job \in Send
    BY <1>7, JobIsSend DEF HostTargets
  <2>2. [by |-> "host", to |-> job.sid, ph |-> "sent", snap |-> Snap(Draft)] \in Call
    BY <2>1, SnapType DEF Call, Key, Send
  <2>3. job' \in Send
    BY <1>7, <2>1 DEF HostTargets, Send
  <2> QED
    BY <1>7, <2>2, <2>3 DEF HostTargets, TypeOK
<1>8. CASE HostPrepares
  <2>1. job \in Send
    BY <1>8, JobIsSend DEF HostPrepares
  <2>2. PICK s \in {focus, Draft} : \/ job' = [job EXCEPT !.ph = "refused"]
                                   \/ job' = [job EXCEPT !.ph = "prepared", !.prep = s]
    BY <1>8 DEF HostPrepares
  <2>3. s \in Key
    BY DEF TypeOK, Key
  <2>4. job' \in Send
    BY <2>1, <2>2, <2>3 DEF Send
  <2> QED
    BY <1>8, <2>4 DEF HostPrepares, TypeOK
<1>9. CASE HostAccepts
  <2>1. job \in Send /\ job.item \in Item
    BY <1>9, JobIsSend DEF HostAccepts, Send
  <2>2. [id |-> focus, st |-> "streaming"] \in Snapshot
    BY DEF Snapshot, State, TypeOK
  <2>3. [item |-> job.item, to |-> focus, sid |-> job.sid] \in Receipt
    BY <2>1 DEF Receipt, TypeOK, Send
  <2>4. sent' \in Seq(Receipt)
    BY <1>9, <2>3 DEF HostAccepts, TypeOK
  <2>5. job' \in Send
    BY <1>9, <2>1 DEF HostAccepts, Send
  <2> QED
    BY <1>9, <2>2, <2>4, <2>5, EmitType DEF HostAccepts, TypeOK, State
<1>10. CASE HostRefuses
  <2>1. job \in Send
    BY <1>10, JobIsSend DEF HostRefuses
  <2> QED
    BY <1>10, <2>1 DEF HostRefuses, TypeOK, Send
<1>11. CASE Turns
  <2>1. PICK s \in Session, st \in State : TurnStep(s, st)
    BY <1>11 DEF Turns
  <2>2. focus \in Key /\ [id |-> s, st |-> st] \in Snapshot
    BY DEF Snapshot, Key, TypeOK
  <2>3. events' \in Seq(Snapshot)
    BY <2>1, <2>2, SnapType, EmitType DEF TurnStep
  <2> QED
    BY <2>1, <2>3 DEF TurnStep, TypeOK
<1> QED
  BY <1>1, <1>2, <1>3, <1>4, <1>5, <1>6, <1>7, <1>8, <1>9, <1>10, <1>11 DEF HostStep

LEMMA AnsweredTypes ==
  ASSUME ComposerAssumption, TypeOK, Answered
  PROVE  TypeOK'
<1>1. CASE StateEvent
  <2>1. Head(events) \in Snapshot /\ Tail(events) \in Seq(Snapshot)
    BY <1>1 DEF StateEvent, TypeOK
  <2> QED
    BY <1>1, <2>1 DEF StateEvent, TypeOK, HoldAfter
<1>2. CASE Disconnected
  <2>1. [id |-> Draft, st |-> "idle"] \in Snapshot
    BY DEF Snapshot, Key, State
  <2> QED
    BY <1>2, <2>1 DEF Disconnected, TypeOK
<1>3. CASE Deleted
  <2> DEFINE q == [queue EXCEPT ![deleting] = <<>>]
  <2>1. q \in [Key -> Seq(Item)] /\ [q EXCEPT ![Draft] = <<>>] \in [Key -> Seq(Item)]
    <3>1. /\ queue \in [Key -> Seq(Item)] /\ deleting \in Key /\ Draft \in Key
          /\ <<>> \in Seq(Item)
      BY DEF TypeOK, Key
    <3>2. q \in [Key -> Seq(Item)]
      BY <3>1
    <3> HIDE DEF q
    <3> QED
      BY <3>1, <3>2
  <2>2. ToSet(queue[deleting]) \subseteq Item /\ ToSet(queue[Draft]) \subseteq Item
    BY QueueSets DEF TypeOK, Key
  <2>3. [id |-> Draft, st |-> "idle"] \in Snapshot
    BY DEF Snapshot, Key, State
  <2> HIDE DEF q
  <2>4. /\ queue' \in {q, [q EXCEPT ![Draft] = <<>>]}
        /\ gone' \subseteq gone \cup ToSet(queue[deleting]) \cup ToSet(queue[Draft])
        /\ view' \in {view, Draft} /\ shown' \in {shown, [id |-> Draft, st |-> "idle"]}
        /\ drop' \in {drop, "sent"} /\ deleting' = Draft
    BY <1>3 DEF Deleted, Emptied, q
  <2>5. queue' \in [Key -> Seq(Item)]
    BY <2>1, <2>4
  <2>6. gone' \subseteq Item
    BY <2>2, <2>4 DEF TypeOK
  <2>7. /\ view' \in Key /\ shown' \in Snapshot /\ deleting' \in Key
        /\ drop' \in {"no", "sent", "done"}
    BY <2>3, <2>4 DEF TypeOK, Key
  <2> QED
    BY <1>3, <2>5, <2>6, <2>7 DEF Deleted, TypeOK
<1>4. CASE BudgetPasses
  <2>1. job \in Send
    BY <1>4, JobIsSend DEF BudgetPasses
  <2>2. SendTypes' /\ calls' \subseteq Call
    BY <1>4, <2>1, ProceedsTypes DEF BudgetPasses
  <2> QED
    BY <1>4, <2>2 DEF BudgetPasses, TypeOK, SendTypes
<1>5. CASE BudgetAsks
  <2>1. job \in Send /\ job.target \in Key /\ job.item \in Item
    BY <1>5, JobIsSend DEF BudgetAsks, Send
  <2>2. queue' \in [Key -> Seq(Item)]
    <3>1. CASE job.q
      <4>1. queue' = [queue EXCEPT ![job.target] =
                                  RequeueAtFront(queue[job.target], job.item)]
        BY <1>5, <3>1 DEF BudgetAsks
      <4>2. queue \in [Key -> Seq(Item)]
        BY DEF TypeOK
      <4> QED
        BY <2>1, <4>1, <4>2, RequeueType
    <3>2. CASE ~job.q
      BY <1>5, <3>2 DEF BudgetAsks, TypeOK
    <3> QED
      BY <3>1, <3>2
  <2>3. gone' \subseteq Item
    BY <1>5, <2>1, QueueSets DEF BudgetAsks, TypeOK
  <2>4. hold' \in BOOLEAN /\ used' \in Nat
    <3>1. hold' = TRUE \/ hold' = hold
      BY <1>5 DEF BudgetAsks
    <3>2. used' \in Nat
      BY <1>5 DEF BudgetAsks, TypeOK
    <3> QED
      BY <3>1, <3>2 DEF TypeOK
  <2> QED
    BY <1>5, <2>1, <2>2, <2>3, <2>4 DEF BudgetAsks, TypeOK
<1>6. CASE CreateFails
  <2>1. job \in Send
    BY <1>6, JobIsSend DEF CreateFails
  <2>2. SendTypes'
    BY <1>6, <2>1, FailsTypes DEF CreateFails, TypeOK
  <2> QED
    BY <1>6, <2>2 DEF CreateFails, TypeOK, SendTypes
<1>7. CASE SendReturns
  <2>1. job \in Send /\ job.sid \in Key
    BY <1>7, JobIsSend DEF SendReturns, Send
  <2>2. queue' \in [Key -> Seq(Item)]
    <3>1. queue \in [Key -> Seq(Item)] /\ Draft \in Key /\ <<>> \in Seq(Item)
      BY DEF TypeOK, Key
    <3>2. queue[job.sid] \o queue[Draft] \in Seq(Item)
      BY <2>1, <3>1
    <3>3. MigrateDraftQueue(queue, job.sid) \in [Key -> Seq(Item)]
      <4> DEFINE q == [queue EXCEPT ![job.sid] = queue[job.sid] \o queue[Draft]]
      <4>1. q \in [Key -> Seq(Item)]
        BY <2>1, <3>1, <3>2
      <4>2. MigrateDraftQueue(queue, job.sid) = [q EXCEPT ![Draft] = <<>>]
        BY DEF MigrateDraftQueue
      <4> HIDE DEF q
      <4> QED
        BY <3>1, <4>1, <4>2
    <3> QED
      BY <1>7, <3>1, <3>3 DEF SendReturns
  <2> QED
    BY <1>7, <2>2 DEF SendReturns, TypeOK
<1>8. CASE SendFails
  <2>1. job \in Send
    BY <1>8, JobIsSend DEF SendFails
  <2>2. SendTypes'
    BY <1>8, <2>1, FailsTypes DEF SendFails, TypeOK
  <2> QED
    BY <1>8, <2>2 DEF SendFails, TypeOK, SendTypes
<1>9. ASSUME NEW s \in Session, SessionCreated(s)
      PROVE  TypeOK'
  <2>1. job \in Send
    BY <1>9, JobIsSend DEF SessionCreated
  <2>2. job' \in Send
    BY <1>9, <2>1 DEF SessionCreated, Send, Key
  <2>3. [by |-> "send", to |-> s, ph |-> "sent", snap |-> Snap(Draft)] \in Call
    BY SnapType DEF Call, Key
  <2>4. view' \in Key /\ shown' \in Snapshot
    BY <1>9 DEF SessionCreated, TypeOK, Snapshot, Key
  <2> QED
    BY <1>9, <2>2, <2>3, <2>4 DEF SessionCreated, TypeOK
<1>10. ASSUME NEW s \in Session, NEW trusted \in BOOLEAN, OpenLoaded(s, trusted)
       PROVE  TypeOK'
  <2>1. [by |-> "open", to |-> s, ph |-> "sent", snap |-> Snap(Draft)] \in Call
    BY SnapType DEF Call, Key
  <2>2. calls' \subseteq Call
    BY <1>10, <2>1 DEF OpenLoaded, TypeOK
  <2>3. [id |-> s, st |-> "idle"] \in Snapshot
    BY DEF Snapshot, Key, State
  <2>4. shown' \in Snapshot /\ hold' \in BOOLEAN
    BY <1>10, <2>3 DEF OpenLoaded, TypeOK, HoldAfter
  <2> QED
    BY <1>10, <2>2, <2>4 DEF OpenLoaded, TypeOK, Key
<1>11. ASSUME NEW c \in calls, OpenConnected(c)
       PROVE  TypeOK'
  <2>1. c.snap \in Snapshot
    BY DEF TypeOK, Call
  <2> QED
    BY <1>11, <2>1 DEF OpenConnected, TypeOK, HoldAfter
<1>12. ASSUME NEW c \in calls, JobConnected(c)
       PROVE  TypeOK'
  <2>1. c.snap \in Snapshot /\ c.snap.id \in Key
    BY DEF TypeOK, Call, Snapshot
  <2>2. job \in Send
    BY <1>12, JobIsSend DEF JobConnected
  <2>3. SendTypes'
    <3> DEFINE mine == c.snap.id # Draft /\ view \in {c.snap.id, job.before}
               vw == IF mine THEN c.snap.id ELSE view
               sh == IF mine THEN c.snap ELSE shown
    <3>1. vw \in Key /\ sh \in Snapshot /\ view \in Key /\ shown \in Snapshot /\ live \in Snapshot
      BY <2>1 DEF TypeOK
    <3>2. \/ Fails(job, shown, view, live)
          \/ Submits(job, c.snap.id, sh, vw, c.snap)
          \/ Fails(job, sh, vw, c.snap)
      BY <1>12 DEF JobConnected
    <3> HIDE DEF mine, vw, sh
    <3> QED
      BY <2>1, <2>2, <3>1, <3>2, FailsTypes, SubmitsTypes
  <2> QED
    BY <1>12, <2>3 DEF JobConnected, TypeOK, SendTypes
<1> QED
  BY <1>1, <1>2, <1>3, <1>4, <1>5, <1>6, <1>7, <1>8, <1>9, <1>10, <1>11, <1>12
     DEF Answered

LEMMA JobType ==
  ASSUME TypeOK, NEW i \in Item, NEW k \in Key, NEW b \in BOOLEAN
  PROVE  Job(i, k, b) \in Send
BY DEF Job, Send, TypeOK, Key

LEMMA TimerTypes ==
  ASSUME ComposerAssumption, TypeOK, Timers
  PROVE  TypeOK'
<1>1. CASE ArmTimer \/ CancelTimer
  BY <1>1 DEF ArmTimer, CancelTimer, TypeOK
<1>2. CASE Flush
  <2>1. CASE FlushAllowed
    <3>1. ClaimKey \in Key
      BY DEF ClaimKey, TypeOK, Snapshot
    <3>2. queue[ClaimKey] \in Seq(Item) /\ queue[ClaimKey] # <<>>
      BY <2>1, <3>1 DEF FlushAllowed, TypeOK
    <3>3. Head(queue[ClaimKey]) \in Item /\ Tail(queue[ClaimKey]) \in Seq(Item)
      BY <3>2
    <3>4. Job(Head(queue[ClaimKey]), ClaimKey, TRUE) \in Send
      BY <3>1, <3>3, JobType
    <3> QED
      BY <1>2, <2>1, <3>1, <3>3, <3>4 DEF Flush, TypeOK
  <2>2. CASE ~FlushAllowed
    BY <1>2, <2>2 DEF Flush, TypeOK
  <2> QED
    BY <2>1, <2>2
<1> QED
  BY <1>1, <1>2 DEF Timers

LEMMA Written ==
  ASSUME ComposerAssumption, TypeOK, Len(home) < MaxItem
  PROVE  /\ Len(home) + 1 \in Item /\ shown.id \in Key
         /\ Append(home, shown.id) \in Seq(Key)
         /\ Len(Append(home, shown.id)) = Len(home) + 1
         /\ Append(home, shown.id)[Len(home) + 1] = shown.id
         /\ \A i \in 1 .. Len(home) : Append(home, shown.id)[i] = home[i]
<1>1. shown.id \in Key /\ home \in Seq(Key) /\ Len(home) \in Nat /\ MaxItem \in Nat
  BY DEF TypeOK, Snapshot, ComposerAssumption
<1> QED
  BY <1>1 DEF Item

LEMMA UserTypes ==
  ASSUME ComposerAssumption, TypeOK, User
  PROVE  TypeOK'
<1>0. shown.id \in Key /\ queue[shown.id] \in Seq(Item)
  BY DEF TypeOK, Snapshot
<1>1. CASE EnqueueFollowUp
  <2>1. Len(home) < MaxItem
    BY <1>1 DEF EnqueueFollowUp, Composing
  <2>2. EnqueueSend(queue[shown.id], Len(home) + 1) \in Seq(Item)
    BY <1>0, <2>1, Written, EnqueuedLast
  <2>3. queue' \in [Key -> Seq(Item)] /\ gone' \subseteq Item
    BY <1>0, <1>1, <2>2, QueueSets DEF EnqueueFollowUp, TypeOK
  <2>4. home' \in Seq(Key) /\ Len(home') <= MaxItem /\ queued' \subseteq Item
    BY <1>1, <2>1, Written DEF EnqueueFollowUp, TypeOK, ComposerAssumption
  <2> QED
    BY <1>1, <2>3, <2>4 DEF EnqueueFollowUp, TypeOK
<1>2. CASE SendNow
  <2>1. Len(home) < MaxItem
    BY <1>2 DEF SendNow, Composing
  <2>2. job' \in Send \cup {NoJob}
    BY <1>2, <2>1, Written, JobType DEF SendNow, TypeOK
  <2>3. home' \in Seq(Key) /\ Len(home') <= MaxItem
    BY <1>2, <2>1, Written DEF SendNow, TypeOK, ComposerAssumption
  <2> QED
    BY <1>2, <2>2, <2>3 DEF SendNow, TypeOK
<1>3. CASE ResumeFlush
  BY <1>3 DEF ResumeFlush, TypeOK
<1>4. CASE DialogConfirmed
  <2>1. dialog \in Send /\ dialog.item \in Item
    BY <1>4, JobIsSend DEF DialogConfirmed, Send
  <2>2. SendTypes' /\ calls' \subseteq Call
    <3>1. CASE InFlight
      BY <1>4, <3>1 DEF DialogConfirmed, TypeOK, SendTypes
    <3>2. CASE ~InFlight
      BY <1>4, <2>1, <3>2, ProceedsTypes DEF DialogConfirmed
    <3> QED
      BY <3>1, <3>2
  <2>3. asked' \subseteq Item
    BY <1>4, <2>1 DEF DialogConfirmed, TypeOK
  <2> QED
    BY <1>4, <2>2, <2>3 DEF DialogConfirmed, TypeOK, SendTypes
<1>5. CASE DialogDismissed
  BY <1>5 DEF DialogDismissed, TypeOK
<1>6. CASE NewChat
  <2>1. [id |-> Draft, st |-> "idle"] \in Snapshot /\ Draft \in Key
    BY DEF Snapshot, Key, State
  <2>2. gone' \subseteq Item
    BY <1>6, <2>1, QueueSets DEF NewChat, TypeOK
  <2>3. queue' \in [Key -> Seq(Item)]
    BY <1>6, <2>1 DEF NewChat, Emptied, TypeOK
  <2> QED
    BY <1>6, <2>1, <2>2, <2>3 DEF NewChat, Emptied, TypeOK
<1>7. ASSUME NEW n \in DOMAIN queue[shown.id], RemoveItem(n)
      PROVE  TypeOK'
  <2>1. RemoveAt(queue[shown.id], n) \in Seq(Item) /\ queue[shown.id][n] \in Item
    BY <1>0, RemovedOne
  <2> QED
    BY <1>0, <1>7, <2>1 DEF RemoveItem, TypeOK
<1>8. ASSUME NEW s \in Session, OpenSession(s) \/ DeleteSession(s)
      PROVE  TypeOK'
  BY <1>8 DEF OpenSession, DeleteSession, TypeOK, Key
<1>9. ASSUME NEW s \in Session, ProcessDies(s)
      PROVE  TypeOK'
  <2>1. [id |-> s, st |-> "disconnected"] \in Snapshot
    BY DEF Snapshot, Key, State
  <2>2. events' \in Seq(Snapshot)
    BY <1>9, <2>1, EmitType DEF ProcessDies, TypeOK
  <2>3. host' \in [Session -> State]
    BY <1>9 DEF ProcessDies, TypeOK, State
  <2> QED
    BY <1>9, <2>2, <2>3 DEF ProcessDies, TypeOK
<1> QED
  BY <1>1, <1>2, <1>3, <1>4, <1>5, <1>6, <1>7, <1>8, <1>9 DEF User

LEMMA InitTypes == ASSUME ComposerAssumption, Init PROVE TypeOK
<1>1. PICK s \in Session, st \in {"idle", "ready", "streaming"} :
        /\ known = {s} /\ minted = {s} /\ calls = {} /\ events = <<>> /\ drop = "no"
        /\ host = [x \in Session |-> IF x = s THEN st ELSE "idle"]
        /\ focus = IF st = "idle" THEN Draft ELSE s
        /\ live = [id |-> focus, st |-> st]
        /\ shown = live /\ view = focus
        /\ opening = Draft /\ loads = {} /\ deleting = Draft
        /\ queue = [k \in Key |-> <<>>] /\ hold = FALSE /\ timer = FALSE
        /\ job = NoJob /\ dialog = NoDialog
        /\ home = <<>> /\ queued = {} /\ gone = {} /\ sent = <<>>
        /\ asked = {} /\ used = 0
  BY DEF Init
<1>2. host \in [Session -> State] /\ focus \in Key
  BY <1>1 DEF State, Key
<1>3. live \in Snapshot
  BY <1>1, <1>2 DEF Snapshot, State
<1>4. queue \in [Key -> Seq(Item)]
  BY <1>1
<1>5. Len(home) <= MaxItem
  BY <1>1 DEF ComposerAssumption
<1> QED
  <2>1. /\ known \subseteq minted /\ minted \subseteq Session
        /\ events \in Seq(Snapshot) /\ calls \subseteq Call
        /\ opening \in Key /\ loads \subseteq Session /\ deleting \in Key
    BY <1>1 DEF Key
  <2>2. home \in Seq(Key) /\ sent \in Seq(Receipt) /\ used \in Nat
    BY <1>1
  <2> QED
    BY <1>1, <1>2, <1>3, <1>4, <1>5, <2>1, <2>2 DEF TypeOK

LEMMA TypeStep == ASSUME ComposerAssumption, TypeOK, [Next]_vars PROVE TypeOK'
<1>1. CASE HostStep
  BY <1>1, HostTypes
<1>2. CASE Turns
  BY <1>2, HostTypes
<1>3. CASE UNCHANGED vars
  BY <1>3 DEF TypeOK
<1> QED
  BY <1>1, <1>2, <1>3, AnsweredTypes, TimerTypes, UserTypes DEF Next

\* TypeOK holds of every state, for any sessions, messages, limit and bounds.
THEOREM TypeCorrect == ASSUME ComposerAssumption PROVE Spec => []TypeOK
<1>1. Init => TypeOK
  BY InitTypes
<1>2. TypeOK /\ [Next]_vars => TypeOK'
  BY TypeStep
<1> QED
  BY <1>1, <1>2, PTL DEF Spec
------------------------------------------------------------------------------
(* The inductive invariant.                                                *)

\* A send that has a session.
Sure(j) == j.ph \in {"submit", "target", "bound", "prepared", "accepted", "refused"}

\* What a send, or one that waits for the dialog, knows of its message: a queued
\* one was claimed from its own queue or from one that took over a draft, and is
\* not submitted to another session.
Meant(j) ==
  /\ j.item <= Len(home)
  /\ j.q <=> j.item \in queued
  /\ j.q => home[j.item] \in {j.target, Draft}
  /\ j.q /\ Draft \notin {j.target, j.sid} => j.sid = j.target

JobInv == InFlight =>
  /\ Meant(job)
  /\ job.ph = "create" => job.target = Draft
  /\ Sure(job) => job.sid # Draft

DialogInv == dialog # NoDialog => Meant(dialog)

\* A connect answers ready, or starts a process, for a session.
CallInv == \A c \in calls :
  /\ c.snap.st = "ready" => c.snap.id # Draft
  /\ c.ph = "spawning" => c.snap.id # Draft

\* A queue holds what was queued for it, or for the draft it took over.
QueueInv == \A k \in Key : \A n \in DOMAIN queue[k] :
  queue[k][n] \in queued /\ home[queue[k][n]] \in {k, Draft}

PastInv ==
  /\ gone \subseteq queued /\ asked \subseteq queued /\ queued \subseteq 1 .. Len(home)
  /\ \A n \in DOMAIN sent : sent[n].item <= Len(home)

Claimed == InFlight /\ job.ph # "accepted"

\* Two places hold two messages, and those of one session in their order; not so
\* what went through the dialog.
Apart(i, j) == i = j => i \in asked
InOrder(i, j) ==
  {i, j} \subseteq queued \ asked /\ home[i] = home[j] /\ home[j] # Draft => i < j
Ahead(i, j) == Apart(i, j) /\ InOrder(i, j)

\* What was sent is ahead of what is in flight, and that of what waits.
LineInv ==
  /\ \A k \in Key : \A m, n \in DOMAIN queue[k] : m < n => Ahead(queue[k][m], queue[k][n])
  /\ \A k, l \in Key : k # l =>
       \A m \in DOMAIN queue[k], n \in DOMAIN queue[l] : Apart(queue[k][m], queue[l][n])
  /\ Claimed => \A k \in Key : \A n \in DOMAIN queue[k] : Ahead(job.item, queue[k][n])
  /\ \A k \in Key : \A m \in DOMAIN sent, n \in DOMAIN queue[k] :
       Ahead(sent[m].item, queue[k][n])
  /\ Claimed => \A m \in DOMAIN sent : Ahead(sent[m].item, job.item)
  /\ \A m, n \in DOMAIN sent : m < n => Ahead(sent[m].item, sent[n].item)

\* A message that waits for the dialog only is nowhere else.
AskedInv == dialog # NoDialog /\ ~dialog.q =>
  /\ Claimed => job.item # dialog.item
  /\ \A m \in DOMAIN sent : sent[m].item # dialog.item

InQueue(i) == \E k \in Key : \E n \in DOMAIN queue[k] : queue[k][n] = i
Somewhere(i) ==
  \/ InQueue(i)
  \/ Claimed /\ job.item = i
  \/ \E n \in DOMAIN sent : sent[n].item = i

KeptInv == \A i \in queued \ gone : Somewhere(i)

LedgerInv == JobInv /\ DialogInv /\ QueueInv /\ PastInv

------------------------------------------------------------------------------
(* The calls.                                                              *)

LEMMA AnswerCalls ==
  ASSUME CallInv, NEW c \in calls, NEW ph, NEW sn, Answer(c, ph, sn), calls \subseteq Call,
         sn.st = "ready" => sn.id # Draft, ph = "spawning" => sn.id # Draft
  PROVE  CallInv'
<1>1. /\ [c EXCEPT !.ph = ph, !.snap = sn].ph = ph
      /\ [c EXCEPT !.ph = ph, !.snap = sn].snap = sn
  BY DEF Call
<1> QED
  BY <1>1 DEF Answer, CallInv

LEMMA NewCalls ==
  ASSUME CallInv, NEW x, NEW y, ComposerAssumption,
         calls' \subseteq calls \cup {[by |-> x, to |-> y, ph |-> "sent", snap |-> Snap(Draft)]}
  PROVE  CallInv'
BY DEF CallInv, Snap

LEMMA SnapReady ==
  ASSUME NEW s, Snap(s).st = "ready" PROVE Snap(s).id # Draft
BY DEF Snap

LEMMA ProceedsCalls ==
  ASSUME ComposerAssumption, TypeOK, CallInv, NEW j \in Send, Proceeds(j)
  PROVE  CallInv'
<1>1. PICK sh \in Snapshot, lv \in Snapshot : Goes(j, sh, lv)
  BY ProceedsCases
<1>2. calls' \subseteq calls \cup {[by |-> "send", to |-> j.target, ph |-> "sent",
                                   snap |-> Snap(Draft)]}
  BY <1>1 DEF Goes
<1> QED
  BY <1>2, NewCalls

LEMMA CallStep ==
  ASSUME ComposerAssumption, TypeOK, CallInv, [Next]_vars
  PROVE  CallInv'
<1>0. calls \subseteq Call
  BY DEF TypeOK
<1>1. ASSUME NEW c \in calls, ConnectWarm(c) \/ ConnectRefused(c)
      PROVE  CallInv'
  BY <1>0, <1>1, SnapReady, AnswerCalls DEF ConnectWarm, ConnectRefused
<1>2. ASSUME NEW c \in calls, ConnectCold(c)
      PROVE  CallInv'
  <2>1. PICK s \in Resolved(c.to) : Answer(c, "spawning", [id |-> s, st |-> "connecting"])
    BY <1>2 DEF ConnectCold
  <2>2. s # Draft
    BY DEF Resolved, TypeOK, ComposerAssumption
  <2> QED
    BY <1>0, <2>1, <2>2, AnswerCalls
<1>3. ASSUME NEW c \in calls, NEW st \in {"ready", "disconnected"}, Spawned(c, st)
      PROVE  CallInv'
  <2>1. c.snap.id # Draft
    BY <1>3 DEF Spawned, CallInv
  <2>2. CASE focus = c.snap.id /\ host[focus] = "connecting"
    BY <1>0, <1>3, <2>1, <2>2, AnswerCalls DEF Spawned
  <2>3. CASE ~(focus = c.snap.id /\ host[focus] = "connecting")
    BY <1>0, <1>3, <2>3, SnapReady, AnswerCalls DEF Spawned
  <2> QED
    BY <2>2, <2>3
<1>4. CASE HostTargets
  BY <1>4, NewCalls DEF HostTargets
<1>5. ASSUME NEW s \in Session, NEW trusted \in BOOLEAN, OpenLoaded(s, trusted)
      PROVE  CallInv'
  BY <1>5, NewCalls DEF OpenLoaded
<1>6. ASSUME NEW s \in Session, SessionCreated(s)
      PROVE  CallInv'
  BY <1>6, NewCalls DEF SessionCreated
<1>7. CASE BudgetPasses
  BY <1>7, JobIsSend, ProceedsCalls DEF BudgetPasses
<1>8. CASE DialogConfirmed
  BY <1>8, JobIsSend, ProceedsCalls DEF DialogConfirmed, CallInv
<1>9. ASSUME NEW c \in calls, HostConnected(c) \/ OpenConnected(c) \/ JobConnected(c)
      PROVE  CallInv'
  BY <1>9 DEF HostConnected, OpenConnected, JobConnected, CallInv
<1>10. CASE UNCHANGED calls
  BY <1>10 DEF CallInv
<1>11. HostStep => \/ UNCHANGED calls
                   \/ HostTargets
                   \/ \E c \in calls : \/ ConnectWarm(c) \/ ConnectRefused(c)
                                       \/ ConnectCold(c) \/ HostConnected(c)
                                       \/ \E st \in {"ready", "disconnected"} : Spawned(c, st)
  BY DEF HostStep, HostDisconnect, HostPrepares, HostAccepts, HostRefuses
<1>12. Turns => UNCHANGED calls
  BY DEF Turns, TurnStep
<1>13. Answered => \/ UNCHANGED calls
                   \/ BudgetPasses
                   \/ \E s \in Session : SessionCreated(s)
                   \/ \E s \in Session, trusted \in BOOLEAN : OpenLoaded(s, trusted)
                   \/ \E c \in calls : OpenConnected(c) \/ JobConnected(c)
  BY DEF Answered, StateEvent, Disconnected, Deleted, BudgetAsks, CreateFails,
         SendReturns, SendFails
<1>14. Timers => UNCHANGED calls
  BY DEF Timers, ArmTimer, CancelTimer, Flush
<1>15. User => UNCHANGED calls \/ DialogConfirmed
  BY DEF User, EnqueueFollowUp, SendNow, ResumeFlush, DialogDismissed, NewChat,
         RemoveItem, OpenSession, DeleteSession, ProcessDies
<1> QED
  BY <1>1, <1>2, <1>3, <1>4, <1>5, <1>6, <1>7, <1>8, <1>9, <1>10, <1>11, <1>12,
     <1>13, <1>14, <1>15 DEF Next
------------------------------------------------------------------------------
(* What a step does to the messages.                                       *)

\* The send j ends, and its message goes back to its queue.
Restored(j) ==
  /\ job' = NoJob
  /\ j.q => /\ queue' = [queue EXCEPT ![j.target] =
                                      RequeueAtFront(queue[j.target], j.item)]
            /\ gone' = gone \cup (ToSet(queue[j.target]) \ ToSet(queue'[j.target]))
  /\ ~j.q => UNCHANGED <<queue, gone>>

\* The send j goes on with its message.
Onward(j) ==
  /\ job' \in Send /\ job'.ph # "accepted"
  /\ job'.item = j.item /\ job'.target = j.target /\ job'.q = j.q
  /\ j.q /\ Draft \notin {j.target, job'.sid} => job'.sid = j.target
  /\ job'.ph = "create" => j.target = Draft
  /\ Sure(job') => job'.sid # Draft
  /\ UNCHANGED <<queue, gone>>

Still  == UNCHANGED <<queue, gone, job, dialog, home, queued, sent, asked>>
Sends  == /\ Claimed /\ (Restored(job) \/ Onward(job))
          /\ UNCHANGED <<dialog, home, queued, sent, asked>>
Asks   == /\ Claimed /\ Restored(job) /\ dialog' = job
          /\ UNCHANGED <<home, queued, sent, asked>>
Closes == /\ dialog # NoDialog /\ dialog' = NoDialog
          /\ asked \subseteq asked' /\ asked' \subseteq asked \cup {dialog.item}
          /\ dialog.q \/ asked' = asked
          /\ UNCHANGED <<queue, gone, job, home, queued, sent>>
Starts == /\ dialog # NoDialog /\ dialog' = NoDialog /\ ~InFlight
          /\ asked' = IF dialog.q THEN asked \cup {dialog.item} ELSE asked
          /\ Restored(dialog) \/ Onward(dialog)
          /\ UNCHANGED <<home, queued, sent>>
Takes  == /\ Claimed /\ Sure(job) /\ job' = [job EXCEPT !.ph = "accepted"]
          /\ sent' = Append(sent, [item |-> job.item, to |-> focus, sid |-> job.sid])
          /\ UNCHANGED <<queue, gone, dialog, home, queued, asked>>
Ends   == /\ InFlight /\ job.ph = "accepted" /\ job' = NoJob
          /\ queue' = IF job.target = Draft THEN MigrateDraftQueue(queue, job.sid) ELSE queue
          /\ UNCHANGED <<gone, dialog, home, queued, sent, asked>>
Adds   == LET i == Len(home) + 1 IN
          /\ Len(home) < MaxItem
          /\ home' = Append(home, shown.id) /\ queued' = queued \cup {i}
          /\ queue' = [queue EXCEPT ![shown.id] = EnqueueSend(queue[shown.id], i)]
          /\ gone' = gone \cup (ToSet(queue[shown.id]) \ ToSet(queue'[shown.id]))
          /\ UNCHANGED <<job, dialog, sent, asked>>
Writes == /\ Len(home) < MaxItem
          /\ home' = Append(home, shown.id)
          /\ job' = IF InFlight THEN job ELSE Job(Len(home) + 1, shown.id, FALSE)
          /\ UNCHANGED <<queue, gone, dialog, queued, sent, asked>>
Claims(k) == /\ ~InFlight /\ queue[k] # <<>>
             /\ job' = Job(Head(queue[k]), k, TRUE)
             /\ queue' = [queue EXCEPT ![k] = Tail(queue[k])]
             /\ UNCHANGED <<gone, dialog, home, queued, sent, asked>>
Removes(k, n) == /\ queue' = [queue EXCEPT ![k] = RemoveAt(queue[k], n)]
                 /\ gone' = gone \cup {queue[k][n]}
                 /\ UNCHANGED <<job, dialog, home, queued, sent, asked>>
Drops(D) == /\ queue' = [k \in Key |-> IF k \in D THEN <<>> ELSE queue[k]]
            /\ gone' = gone \cup UNION {ToSet(queue[k]) : k \in D}
            /\ UNCHANGED <<job, dialog, home, queued, sent, asked>>

Moves ==
  \/ Still \/ Sends \/ Asks \/ Closes \/ Starts \/ Takes \/ Ends \/ Adds \/ Writes
  \/ \E k \in Key : Claims(k)
  \/ \E k \in Key : \E n \in DOMAIN queue[k] : Removes(k, n)
  \/ \E D \in SUBSET Key : Drops(D)

LEMMA FailsMoves ==
  ASSUME NEW j, NEW sh, NEW vw, NEW lv, Fails(j, sh, vw, lv), j.q \in BOOLEAN
  PROVE  Restored(j)
BY DEF Fails, Restored

LEMMA SubmitsMoves ==
  ASSUME NEW j \in Send, NEW s \in Key, s # Draft, NEW sh, NEW vw, NEW lv,
         Submits(j, s, sh, vw, lv)
  PROVE  Restored(j) \/ Onward(j)
<1>1. CASE Fails(j, sh, vw, lv)
  BY <1>1, FailsMoves DEF Send
<1>2. CASE ~Fails(j, sh, vw, lv)
  <2>1. /\ ~(j.q /\ j.target # Draft /\ s # j.target)
        /\ job' = [j EXCEPT !.ph = "submit", !.sid = s]
        /\ UNCHANGED <<queue, gone>>
    BY <1>2 DEF Submits
  <2>2. /\ job' \in Send /\ job'.ph = "submit" /\ job'.sid = s
        /\ job'.item = j.item /\ job'.target = j.target /\ job'.q = j.q
    BY <2>1 DEF Send
  <2> QED
    BY <2>1, <2>2 DEF Onward
<1> QED
  BY <1>1, <1>2

LEMMA ProceedsMoves ==
  ASSUME TypeOK, NEW j \in Send, Proceeds(j), Meant(j)
  PROVE  Restored(j) \/ Onward(j)
<1>1. PICK sh \in Snapshot, lv \in Snapshot : Goes(j, sh, lv)
  BY ProceedsCases
<1>2. CASE Fails(j, sh, view, lv)
  BY <1>2, FailsMoves DEF Send
<1>3. CASE j.target # Draft /\ Submits(j, j.target, sh, view, lv)
  BY <1>3, SubmitsMoves DEF Send
<1>4. CASE /\ job' = [j EXCEPT !.ph = IF j.target = Draft THEN "create" ELSE "connect",
                               !.before = view]
           /\ UNCHANGED <<queue, gone>>
  <2>1. /\ job' \in Send /\ job'.sid = j.sid
        /\ job'.ph = IF j.target = Draft THEN "create" ELSE "connect"
        /\ job'.item = j.item /\ job'.target = j.target /\ job'.q = j.q
    BY <1>4 DEF Send, TypeOK
  <2> QED
    BY <1>4, <2>1 DEF Onward, Meant, Sure
<1> QED
  BY <1>1, <1>2, <1>3, <1>4 DEF Goes

LEMMA HostMoves ==
  ASSUME ComposerAssumption, TypeOK, LedgerInv, HostStep \/ Turns
  PROVE  Moves
<1>1. ASSUME NEW c \in calls, \/ ConnectWarm(c) \/ ConnectCold(c) \/ ConnectRefused(c)
                             \/ \E st \in {"ready", "disconnected"} : Spawned(c, st)
      PROVE  Still
  BY <1>1 DEF ConnectWarm, ConnectCold, ConnectRefused, Spawned, Still
<1>2. CASE HostDisconnect \/ Turns
  BY <1>2 DEF HostDisconnect, Turns, TurnStep, Still, Moves
<1>3. ASSUME HostTargets \/ HostPrepares \/ HostRefuses \/ \E c \in calls : HostConnected(c)
      PROVE  Sends
  <2>1. /\ job \in Send /\ InFlight /\ job.ph \in {"submit", "target", "bound", "prepared"}
        /\ Meant(job) /\ job.sid # Draft
    BY <1>3, JobIsSend DEF HostTargets, HostConnected, HostPrepares, HostRefuses,
                           LedgerInv, JobInv, Sure
  <2>2. PICK ph \in {"target", "bound", "prepared", "refused"}, s \in Key :
          job' = [job EXCEPT !.ph = ph] \/ job' = [job EXCEPT !.ph = ph, !.prep = s]
    BY <1>3 DEF HostTargets, HostConnected, HostPrepares, HostRefuses, TypeOK, Key
  <2>3. /\ job' \in Send /\ job'.ph = ph /\ job'.sid = job.sid
        /\ job'.item = job.item /\ job'.target = job.target /\ job'.q = job.q
    BY <2>1, <2>2 DEF Send
  <2>4. UNCHANGED <<queue, gone, dialog, home, queued, sent, asked>>
    BY <1>3 DEF HostTargets, HostConnected, HostPrepares, HostRefuses
  <2> QED
    BY <2>1, <2>3, <2>4 DEF Sends, Onward, Claimed, Meant
<1>4. CASE HostAccepts
  BY <1>4, JobIsSend DEF HostAccepts, Takes, Claimed, Sure, Moves
<1> QED
  BY <1>1, <1>2, <1>3, <1>4 DEF HostStep, Moves

LEMMA AnsweredMoves ==
  ASSUME ComposerAssumption, TypeOK, CallInv, LedgerInv, Answered
  PROVE  Moves
<1>0. /\ job.ph # "idle" => job \in Send /\ job.q \in BOOLEAN /\ InFlight /\ Meant(job)
      /\ job.ph # "idle" /\ job.ph # "accepted" => Claimed
  BY JobIsSend DEF Claimed, LedgerInv, JobInv, Send
<1>1. CASE StateEvent \/ Disconnected
  BY <1>1 DEF StateEvent, Disconnected, Still, Moves
<1>2. CASE Deleted
  <2> DEFINE q == [queue EXCEPT ![deleting] = <<>>]
             D == IF queue' = q THEN {deleting} ELSE {deleting, Draft}
  <2>1. /\ deleting \in Key /\ Draft \in Key /\ queue \in [Key -> Seq(Item)]
    BY DEF TypeOK, Key
  <2>2. UNCHANGED <<job, dialog, home, queued, sent, asked>>
    BY <1>2 DEF Deleted
  <2>3. \/ /\ queue' = q /\ gone' = gone \cup ToSet(queue[deleting])
        \/ /\ queue' = [q EXCEPT ![Draft] = <<>>]
           /\ gone' = gone \cup ToSet(queue[deleting]) \cup ToSet(queue[Draft])
    BY <1>2 DEF Deleted, Emptied
  <2>4. CASE queue' = q /\ gone' = gone \cup ToSet(queue[deleting])
    <3>1. queue' = [k \in Key |-> IF k \in {deleting} THEN <<>> ELSE queue[k]]
      BY <2>1, <2>4
    <3>2. gone' = gone \cup UNION {ToSet(queue[k]) : k \in {deleting}}
      BY <2>4
    <3>3. Drops({deleting}) /\ {deleting} \in SUBSET Key
      BY <2>1, <2>2, <3>1, <3>2 DEF Drops
    <3> QED
      BY <3>3 DEF Moves
  <2>5. CASE /\ queue' = [q EXCEPT ![Draft] = <<>>]
             /\ gone' = gone \cup ToSet(queue[deleting]) \cup ToSet(queue[Draft])
    <3>1. queue' = [k \in Key |-> IF k \in {deleting, Draft} THEN <<>> ELSE queue[k]]
      BY <2>1, <2>5
    <3>2. gone' = gone \cup UNION {ToSet(queue[k]) : k \in {deleting, Draft}}
      BY <2>5
    <3>3. Drops({deleting, Draft}) /\ {deleting, Draft} \in SUBSET Key
      BY <2>1, <2>2, <3>1, <3>2 DEF Drops
    <3> QED
      BY <3>3 DEF Moves
  <2> QED
    BY <2>3, <2>4, <2>5
<1>3. CASE BudgetPasses
  <2>1. Restored(job) \/ Onward(job)
    BY <1>0, <1>3, ProceedsMoves DEF BudgetPasses
  <2> QED
    BY <1>0, <1>3, <2>1 DEF BudgetPasses, Sends, Moves
<1>4. CASE BudgetAsks
  <2>1. Restored(job)
    BY <1>0, <1>4 DEF BudgetAsks, Restored
  <2> QED
    BY <1>0, <1>4, <2>1 DEF BudgetAsks, Asks, Moves
<1>5. CASE CreateFails \/ SendFails
  <2>1. Restored(job)
    BY <1>0, <1>5, FailsMoves DEF CreateFails, SendFails
  <2> QED
    BY <1>0, <1>5, <2>1 DEF CreateFails, SendFails, Sends, Moves
<1>6. CASE SendReturns
  BY <1>0, <1>6 DEF SendReturns, Ends, Moves
<1>7. ASSUME NEW s \in Session, SessionCreated(s)
      PROVE  Moves
  <2>1. job.target = Draft
    BY <1>0, <1>7 DEF SessionCreated, LedgerInv, JobInv
  <2>2. /\ job' \in Send /\ job'.ph = "connect"
        /\ job'.item = job.item /\ job'.target = job.target /\ job'.q = job.q
    BY <1>0, <1>7 DEF SessionCreated, Send, Key
  <2>3. Onward(job)
    BY <1>7, <2>1, <2>2 DEF SessionCreated, Onward, Sure
  <2> QED
    BY <1>0, <1>7, <2>3 DEF SessionCreated, Sends, Moves
<1>8. ASSUME NEW s \in Session, NEW trusted \in BOOLEAN, OpenLoaded(s, trusted)
      PROVE  Still
  BY <1>8 DEF OpenLoaded, Still
<1>9. ASSUME NEW c \in calls, OpenConnected(c)
      PROVE  Still
  BY <1>9 DEF OpenConnected, Still
<1>10. ASSUME NEW c \in calls, JobConnected(c)
       PROVE  Moves
  <2> DEFINE mine == c.snap.id # Draft /\ view \in {c.snap.id, job.before}
             vw == IF mine THEN c.snap.id ELSE view
             sh == IF mine THEN c.snap ELSE shown
  <2>1. \/ Fails(job, shown, view, live)
        \/ c.snap.st = "ready" /\ Submits(job, c.snap.id, sh, vw, c.snap)
        \/ Fails(job, sh, vw, c.snap)
    BY <1>10 DEF JobConnected
  <2>2. c.snap.id \in Key /\ (c.snap.st = "ready" => c.snap.id # Draft)
    BY DEF TypeOK, CallInv, Call, Snapshot
  <2>3. job.ph = "connect"
    BY <1>10 DEF JobConnected
  <2> HIDE DEF mine, vw, sh
  <2>4. Restored(job) \/ Onward(job)
    BY <1>0, <2>1, <2>2, <2>3, FailsMoves, SubmitsMoves
  <2> QED
    BY <1>0, <1>10, <2>3, <2>4 DEF JobConnected, Sends, Moves
<1> QED
  BY <1>1, <1>2, <1>3, <1>4, <1>5, <1>6, <1>7, <1>8, <1>9, <1>10 DEF Answered, Moves

LEMMA TimerMoves ==
  ASSUME ComposerAssumption, TypeOK, Timers
  PROVE  Moves
<1>1. ClaimKey \in Key
  BY DEF ClaimKey, TypeOK, Snapshot
<1>2. CASE Flush /\ FlushAllowed
  BY <1>1, <1>2 DEF Flush, FlushAllowed, Claims, Moves
<1>3. CASE ArmTimer \/ CancelTimer \/ (Flush /\ ~FlushAllowed)
  BY <1>3 DEF ArmTimer, CancelTimer, Flush, Still, Moves
<1> QED
  BY <1>2, <1>3 DEF Timers

LEMMA UserMoves ==
  ASSUME ComposerAssumption, TypeOK, LedgerInv, User
  PROVE  Moves
<1>0. shown.id \in Key /\ Draft \in Key
  BY DEF TypeOK, Snapshot, Key
<1>1. CASE EnqueueFollowUp
  BY <1>1 DEF EnqueueFollowUp, Composing, Adds, Moves
<1>2. CASE SendNow
  BY <1>2 DEF SendNow, Composing, Writes, Moves
<1>3. CASE DialogConfirmed
  <2>1. dialog \in Send /\ Meant(dialog)
    BY <1>3, JobIsSend DEF DialogConfirmed, LedgerInv, DialogInv
  <2>2. CASE InFlight
    BY <1>3, <2>2 DEF DialogConfirmed, Closes, Moves
  <2>3. CASE ~InFlight
    <3>1. Restored(dialog) \/ Onward(dialog)
      BY <1>3, <2>1, <2>3, ProceedsMoves DEF DialogConfirmed
    <3> QED
      BY <1>3, <2>3, <3>1 DEF DialogConfirmed, Starts, Moves
  <2> QED
    BY <2>2, <2>3
<1>4. CASE DialogDismissed
  BY <1>4 DEF DialogDismissed, Closes, Moves
<1>5. CASE NewChat
  <2>1. queue \in [Key -> Seq(Item)]
    BY DEF TypeOK
  <2>2. queue' = [k \in Key |-> IF k \in {Draft} THEN <<>> ELSE queue[k]]
    BY <1>0, <1>5, <2>1 DEF NewChat, Emptied
  <2>3. gone' = gone \cup UNION {ToSet(queue[k]) : k \in {Draft}}
    BY <1>5 DEF NewChat
  <2> QED
    BY <1>0, <1>5, <2>2, <2>3 DEF NewChat, Drops, Moves
<1>6. ASSUME NEW n \in DOMAIN queue[shown.id], RemoveItem(n)
      PROVE  Moves
  BY <1>0, <1>6 DEF RemoveItem, Removes, Moves
<1>7. CASE ResumeFlush \/ \E s \in Session : OpenSession(s) \/ DeleteSession(s) \/ ProcessDies(s)
  BY <1>7 DEF ResumeFlush, OpenSession, DeleteSession, ProcessDies, Still, Moves
<1> QED
  BY <1>1, <1>2, <1>3, <1>4, <1>5, <1>6, <1>7 DEF User

\* Every step is one of the moves.
LEMMA StepMoves ==
  ASSUME ComposerAssumption, TypeOK, CallInv, LedgerInv, [Next]_vars
  PROVE  Moves
<1>1. CASE UNCHANGED vars
  BY <1>1 DEF Still, Moves
<1> QED
  BY <1>1, HostMoves, AnsweredMoves, TimerMoves, UserMoves DEF Next
------------------------------------------------------------------------------
(* What sends, queues and the past know of messages.                       *)

\* Where the elements of the queues come from when a send ends.
LEMMA RestoredElements ==
  ASSUME ComposerAssumption, TypeOK, NEW j \in Send, Restored(j)
  PROVE  /\ queue' \in [Key -> Seq(Item)]
         /\ \A k \in Key : k # j.target \/ ~j.q => queue'[k] = queue[k]
         /\ j.q => LET q == queue[j.target]
                       r == queue'[j.target]
                   IN  /\ \E n \in DOMAIN r : r[n] = j.item
                       /\ r = q \/ /\ r[1] = j.item
                                   /\ \E d \in Nat : \A n \in 2 .. Len(r) :
                                        n - 1 + d \in DOMAIN q /\ r[n] = q[n - 1 + d]
<1>0. queue \in [Key -> Seq(Item)] /\ j.target \in Key /\ j.item \in Item /\ j.q \in BOOLEAN
  BY DEF TypeOK, Send
<1>1. CASE j.q
  <2> DEFINE q == queue[j.target]
             r == RequeueAtFront(q, j.item)
  <2>1. /\ r \in Seq(Item)
        /\ \E n \in DOMAIN r : r[n] = j.item
        /\ r = q \/ /\ r[1] = j.item
                    /\ \E d \in Nat : \A n \in 2 .. Len(r) :
                         n - 1 + d \in DOMAIN q /\ r[n] = q[n - 1 + d]
    <3>1. q \in Seq(Item) /\ j.item \in Item
      BY <1>0
    <3> HIDE DEF q
    <3> QED
      BY <3>1, RequeuedInFront
  <2>2. queue' = [queue EXCEPT ![j.target] = r]
    BY <1>1 DEF Restored
  <2> HIDE DEF r
  <2>3. queue'[j.target] = r /\ \A k \in Key : k # j.target => queue'[k] = queue[k]
    BY <1>0, <2>2
  <2> QED
    BY <1>0, <1>1, <2>1, <2>2, <2>3
<1>2. CASE ~j.q
  BY <1>0, <1>2 DEF Restored
<1> QED
  BY <1>0, <1>1, <1>2

LEMMA RestoredFrom ==
  ASSUME ComposerAssumption, TypeOK, NEW j \in Send, Restored(j),
         NEW k \in Key, NEW n \in DOMAIN queue'[k]
  PROVE  \/ \E m \in DOMAIN queue[k] : queue'[k][n] = queue[k][m]
         \/ j.q /\ k = j.target /\ queue'[k][n] = j.item
<1>0. queue' \in [Key -> Seq(Item)]
  BY RestoredElements
<1>1. CASE k # j.target \/ ~j.q
  BY <1>1, RestoredElements
<1>2. CASE k = j.target /\ j.q /\ queue'[k] = queue[k]
  BY <1>2
<1>3. CASE k = j.target /\ j.q /\ queue'[k] # queue[k]
  <2>0. /\ queue'[j.target][1] = j.item
        /\ \E d \in Nat : \A m \in 2 .. Len(queue'[j.target]) :
             /\ m - 1 + d \in DOMAIN queue[j.target]
             /\ queue'[j.target][m] = queue[j.target][m - 1 + d]
    BY <1>3, RestoredElements
  <2>1. PICK d \in Nat : /\ queue'[k][1] = j.item
                         /\ \A m \in 2 .. Len(queue'[k]) :
                              /\ m - 1 + d \in DOMAIN queue[k]
                              /\ queue'[k][m] = queue[k][m - 1 + d]
    BY <1>3, <2>0
  <2>2. n = 1 \/ n \in 2 .. Len(queue'[k])
    BY <1>0
  <2> QED
    BY <1>3, <2>1, <2>2
<1> QED
  BY <1>1, <1>2, <1>3 DEF Send

LEMMA RestoredLedger ==
  ASSUME ComposerAssumption, TypeOK, LedgerInv, NEW j \in Send, Meant(j), Restored(j),
         UNCHANGED <<home, queued>>
  PROVE  QueueInv' /\ JobInv' /\ gone' \subseteq queued'
<1>1. JobInv'
  BY DEF Restored, JobInv, InFlight
<1>2. QueueInv'
  <2> SUFFICES ASSUME NEW k \in Key, NEW n \in DOMAIN queue'[k]
               PROVE  queue'[k][n] \in queued /\ home[queue'[k][n]] \in {k, Draft}
    BY DEF QueueInv
  <2>1. CASE \E m \in DOMAIN queue[k] : queue'[k][n] = queue[k][m]
    BY <2>1 DEF LedgerInv, QueueInv
  <2>2. CASE j.q /\ k = j.target /\ queue'[k][n] = j.item
    BY <2>2 DEF Meant
  <2> QED
    BY <2>1, <2>2, RestoredFrom
<1>3. gone' \subseteq queued'
  <2>1. gone \subseteq queued /\ j.target \in Key
    BY DEF LedgerInv, PastInv, Send
  <2>2. \A k \in Key : ToSet(queue[k]) \subseteq queued
    BY DEF LedgerInv, QueueInv, ToSet
  <2> QED
    BY <2>1, <2>2 DEF Restored, Send
<1> QED
  BY <1>1, <1>2, <1>3

LEMMA OnwardLedger ==
  ASSUME TypeOK, LedgerInv, NEW j \in Send, Meant(j), Onward(j), UNCHANGED <<home, queued>>
  PROVE  QueueInv' /\ JobInv' /\ gone' \subseteq queued'
BY DEF Onward, Meant, JobInv, QueueInv, LedgerInv, PastInv

LEMMA LedgerStep ==
  ASSUME ComposerAssumption, TypeOK, LedgerInv, Moves
  PROVE  LedgerInv'
<1>0. /\ queue \in [Key -> Seq(Item)] /\ home \in Seq(Key) /\ Len(home) \in Nat
      /\ JobInv /\ DialogInv /\ QueueInv /\ PastInv
      /\ Claimed => job \in Send /\ Meant(job)
      /\ dialog # NoDialog => dialog \in Send /\ Meant(dialog)
  BY JobIsSend DEF TypeOK, LedgerInv, Claimed, JobInv, DialogInv
<1>1. CASE Still
  BY <1>0, <1>1 DEF Still, LedgerInv, JobInv, DialogInv, QueueInv, PastInv, Meant, InFlight
<1>2. CASE Sends
  <2>1. QueueInv' /\ JobInv' /\ gone' \subseteq queued'
    BY <1>0, <1>2, RestoredLedger, OnwardLedger DEF Sends
  <2> QED
    BY <1>0, <1>2, <2>1 DEF Sends, LedgerInv, DialogInv, PastInv, Meant
<1>3. CASE Asks
  <2>1. QueueInv' /\ JobInv' /\ gone' \subseteq queued'
    BY <1>0, <1>3, RestoredLedger DEF Asks
  <2> QED
    BY <1>0, <1>3, <2>1 DEF Asks, LedgerInv, DialogInv, PastInv, Meant
<1>4. CASE Closes
  <2>1. dialog.q => dialog.item \in queued
    BY <1>0, <1>4 DEF Closes, Meant
  <2> QED
    BY <1>0, <1>4, <2>1 DEF Closes, LedgerInv, JobInv, DialogInv, QueueInv, PastInv, Meant, InFlight
<1>5. CASE Starts
  <2>1. QueueInv' /\ JobInv' /\ gone' \subseteq queued'
    BY <1>0, <1>5, RestoredLedger, OnwardLedger DEF Starts
  <2>2. asked' \subseteq queued
    BY <1>0, <1>5 DEF Starts, Meant, PastInv
  <2> QED
    BY <1>0, <1>5, <2>1, <2>2 DEF Starts, LedgerInv, DialogInv, PastInv
<1>6. CASE Takes
  <2>1. /\ job \in Send /\ Meant(job) /\ job.sid # Draft
        /\ job'.item = job.item /\ job'.target = job.target /\ job'.q = job.q
        /\ job'.ph = "accepted" /\ job'.sid = job.sid
    BY <1>0, <1>6 DEF Takes, Send, JobInv, Claimed
  <2>2. JobInv'
    BY <1>6, <2>1 DEF Takes, JobInv, Meant
  <2>3. \A n \in DOMAIN sent' : sent'[n].item <= Len(home)
    <3>1. sent \in Seq(Receipt)
      BY DEF TypeOK
    <3> DEFINE x == [item |-> job.item, to |-> focus, sid |-> job.sid]
    <3>2. sent' = Append(sent, x) /\ x.item <= Len(home)
      BY <1>6, <2>1 DEF Takes, Meant
    <3> HIDE DEF x
    <3>3. \A n \in DOMAIN sent' : (n \in DOMAIN sent /\ sent'[n] = sent[n]) \/ sent'[n] = x
      BY <3>1, <3>2
    <3> QED
      BY <1>0, <3>2, <3>3 DEF PastInv
  <2> QED
    BY <1>0, <1>6, <2>2, <2>3 DEF Takes, LedgerInv, DialogInv, QueueInv, PastInv, Meant
<1>7. CASE Ends
  <2>1. job \in Send /\ job.sid \in Key /\ job.sid # Draft /\ Draft \in Key
    BY <1>0, <1>7, JobIsSend DEF Ends, JobInv, Sure, Send, Key
  <2>2. QueueInv'
    <3> SUFFICES ASSUME NEW k \in Key, NEW n \in DOMAIN queue'[k]
                 PROVE  queue'[k][n] \in queued /\ home[queue'[k][n]] \in {k, Draft}
      BY <1>7 DEF QueueInv, Ends
    <3>1. CASE job.target # Draft
      BY <1>0, <1>7, <3>1 DEF Ends, QueueInv
    <3>2. CASE job.target = Draft
      <4>1. queue' = MigrateDraftQueue(queue, job.sid)
        BY <1>7, <3>2 DEF Ends
      <4>2. \/ k \notin {job.sid, Draft} /\ queue'[k] = queue[k]
            \/ k = Draft /\ queue'[k] = <<>>
            \/ k = job.sid /\ queue'[k] = queue[k] \o queue[Draft]
        BY <1>0, <2>1, <4>1 DEF MigrateDraftQueue
      <4>3. CASE k = job.sid /\ queue'[k] = queue[k] \o queue[Draft]
        <5>1. \/ \E m \in DOMAIN queue[k] : queue'[k][n] = queue[k][m]
              \/ \E m \in DOMAIN queue[Draft] : queue'[k][n] = queue[Draft][m]
          <6> DEFINE a == queue[k]
                     b == queue[Draft]
                     r == queue'[k]
          <6>1. a \in Seq(Item) /\ b \in Seq(Item) /\ r = a \o b /\ n \in DOMAIN r
            BY <1>0, <2>1, <4>3
          <6> HIDE DEF a, b, r
          <6>2. Len(a) \in Nat /\ Len(b) \in Nat /\ DOMAIN a = 1 .. Len(a) /\ DOMAIN b = 1 .. Len(b)
            BY <6>1
          <6>3. /\ n \in 1 .. Len(a) + Len(b)
                /\ r[n] = IF n <= Len(a) THEN a[n] ELSE b[n - Len(a)]
            <7>1. r \in Seq(Item) /\ Len(r) = Len(a) + Len(b)
              BY <6>1, ConcatProperties
            <7>2. n \in 1 .. Len(a) + Len(b)
              BY <6>1, <7>1
            <7> QED
              BY <6>1, <7>2, ConcatProperties
          <6>4. (\E m \in DOMAIN a : r[n] = a[m]) \/ (\E m \in DOMAIN b : r[n] = b[m])
            <7>1. CASE n <= Len(a)
              BY <6>2, <6>3, <7>1
            <7>2. CASE ~(n <= Len(a))
              <8>1. n - Len(a) \in DOMAIN b
                BY <6>2, <6>3, <7>2
              <8> QED
                BY <6>3, <7>2, <8>1
            <7> QED
              BY <7>1, <7>2
          <6> QED
            BY <6>4 DEF a, b, r
        <5> QED
          BY <1>0, <2>1, <5>1 DEF QueueInv
      <4> QED
        BY <1>0, <4>2, <4>3 DEF QueueInv
    <3> QED
      BY <3>1, <3>2
  <2> QED
    BY <1>0, <1>7, <2>2 DEF Ends, LedgerInv, JobInv, DialogInv, PastInv, Meant, InFlight
<1>8. CASE Adds
  <2>1. /\ shown.id \in Key
        /\ Len(home') = Len(home) + 1 /\ home'[Len(home) + 1] = shown.id
        /\ \A i \in 1 .. Len(home) : home'[i] = home[i]
    BY <1>8, Written DEF Adds
  <2>2. /\ queued' = queued \cup {Len(home) + 1} /\ queued \subseteq 1 .. Len(home)
        /\ Len(home) + 1 \notin queued
    BY <1>0, <1>8 DEF Adds, PastInv
  <2>3. ASSUME NEW j \in Send, Meant(j)
        PROVE  /\ j.item <= Len(home')
               /\ j.q <=> j.item \in queued'
               /\ j.q => home'[j.item] \in {j.target, Draft}
               /\ j.q /\ Draft \notin {j.target, j.sid} => j.sid = j.target
    <3>1. j.item \in Nat /\ j.item <= Len(home) /\ j.q \in BOOLEAN
      BY <2>3 DEF Meant, Send, Item
    <3>2. j.item <= Len(home') /\ j.item # Len(home) + 1
      BY <1>0, <2>1, <3>1
    <3>3. j.item \in queued' <=> j.item \in queued
      BY <2>2, <3>2
    <3>4. j.q => home'[j.item] = home[j.item]
      <4>1. j.q => j.item \in 1 .. Len(home)
        BY <2>2, <2>3 DEF Meant
      <4> QED
        BY <2>1, <4>1
    <3> QED
      BY <2>3, <3>2, <3>3, <3>4 DEF Meant
  <2>4. JobInv' /\ DialogInv'
    <3>1. UNCHANGED <<job, dialog>>
      BY <1>8 DEF Adds
    <3>2. InFlight => Meant(job)'
      BY <1>0, <2>3, <3>1, JobIsSend DEF JobInv, Meant
    <3>3. dialog # NoDialog => Meant(dialog)'
      BY <1>0, <2>3, <3>1 DEF Meant
    <3> QED
      BY <1>0, <3>1, <3>2, <3>3 DEF JobInv, DialogInv, InFlight
  <2>5. ASSUME NEW k \in Key, NEW n \in DOMAIN queue'[k]
        PROVE  \/ \E m \in DOMAIN queue[k] : queue'[k][n] = queue[k][m]
               \/ k = shown.id /\ queue'[k][n] = Len(home) + 1
    <3> DEFINE r == EnqueueSend(queue[shown.id], Len(home) + 1)
    <3>1. Len(home) + 1 \in Item /\ queue[shown.id] \in Seq(Item)
      BY <1>0, <1>8, <2>1, Written DEF Adds
    <3>2. /\ r \in Seq(Item) /\ r[Len(r)] = Len(home) + 1
          /\ \E d \in Nat \cup {-1} : \A m \in 1 .. Len(r) - 1 :
               m + d \in DOMAIN queue[shown.id] /\ r[m] = queue[shown.id][m + d]
      BY <3>1, EnqueuedLast
    <3>3. queue' = [queue EXCEPT ![shown.id] = r]
      BY <1>8 DEF Adds
    <3> HIDE DEF r
    <3>4. CASE k # shown.id
      BY <1>0, <3>3, <3>4
    <3>5. CASE k = shown.id
      <4>1. queue'[k] = r
        BY <1>0, <3>3, <3>5
      <4>2. n = Len(r) \/ n \in 1 .. Len(r) - 1
        BY <3>2, <4>1
      <4> QED
        BY <3>2, <3>5, <4>1, <4>2
    <3> QED
      BY <3>4, <3>5
  <2>6. QueueInv'
    <3> SUFFICES ASSUME NEW k \in Key, NEW n \in DOMAIN queue'[k]
                 PROVE  queue'[k][n] \in queued' /\ home'[queue'[k][n]] \in {k, Draft}
      BY DEF QueueInv
    <3>1. ASSUME NEW m \in DOMAIN queue[k], queue'[k][n] = queue[k][m]
          PROVE  queue'[k][n] \in queued' /\ home'[queue'[k][n]] \in {k, Draft}
      <4>1. queue[k][m] \in queued /\ home[queue[k][m]] \in {k, Draft}
        BY <1>0 DEF QueueInv
      <4>2. queue[k][m] \in 1 .. Len(home)
        BY <2>2, <4>1
      <4> QED
        BY <2>1, <2>2, <3>1, <4>1, <4>2
    <3>2. CASE k = shown.id /\ queue'[k][n] = Len(home) + 1
      BY <2>1, <2>2, <3>2
    <3> QED
      BY <2>5, <3>1, <3>2
  <2>7. gone' \subseteq queued'
    <3>1. ToSet(queue[shown.id]) \subseteq queued
      BY <1>0, <2>1 DEF QueueInv, ToSet
    <3> QED
      BY <1>0, <1>8, <3>1 DEF Adds, PastInv
  <2>8. \A n \in DOMAIN sent : sent[n].item <= Len(home')
    <3>1. \A n \in DOMAIN sent : sent[n].item \in Nat /\ sent[n].item <= Len(home)
      <4>1. \A n \in DOMAIN sent : sent[n] \in Receipt
        BY DEF TypeOK
      <4> QED
        BY <1>0, <4>1 DEF Receipt, Item, PastInv
    <3> QED
      BY <1>0, <2>1, <3>1
  <2>9. queued' \subseteq 1 .. Len(home') /\ asked \subseteq queued'
    <3>1. 1 .. Len(home) \subseteq 1 .. Len(home') /\ Len(home) + 1 \in 1 .. Len(home')
      BY <1>0, <2>1
    <3> QED
      BY <1>0, <2>2, <3>1 DEF PastInv
  <2> QED
    BY <1>8, <2>4, <2>6, <2>7, <2>8, <2>9 DEF Adds, LedgerInv, PastInv
<1>9. CASE Writes
  <2>1. /\ shown.id \in Key /\ Len(home) + 1 \in Item
        /\ Len(home') = Len(home) + 1
        /\ \A i \in 1 .. Len(home) : home'[i] = home[i]
    BY <1>9, Written DEF Writes
  <2>2. /\ UNCHANGED <<queue, gone, dialog, queued, sent, asked>>
        /\ queued \subseteq 1 .. Len(home) /\ Len(home) + 1 \notin queued
    BY <1>0, <1>9 DEF Writes, PastInv
  <2>3. ASSUME NEW j \in Send, Meant(j)
        PROVE  /\ j.item <= Len(home')
               /\ j.q <=> j.item \in queued'
               /\ j.q => home'[j.item] \in {j.target, Draft}
               /\ j.q /\ Draft \notin {j.target, j.sid} => j.sid = j.target
    <3>1. j.item \in Nat /\ j.item <= Len(home) /\ j.q \in BOOLEAN
      BY <2>3 DEF Meant, Send, Item
    <3>2. j.item <= Len(home') /\ j.item # Len(home) + 1
      BY <1>0, <2>1, <3>1
    <3>3. j.item \in queued' <=> j.item \in queued
      BY <2>2, <3>2
    <3>4. j.q => home'[j.item] = home[j.item]
      <4>1. j.q => j.item \in 1 .. Len(home)
        BY <2>2, <2>3 DEF Meant
      <4> QED
        BY <2>1, <4>1
    <3> QED
      BY <2>3, <3>2, <3>3, <3>4 DEF Meant
  <2>4. DialogInv'
    BY <1>0, <2>2, <2>3 DEF DialogInv, Meant
  <2>5. JobInv'
    <3>1. CASE InFlight
      <4>1. job' = job
        BY <1>9, <3>1 DEF Writes
      <4>2. Meant(job)'
        BY <1>0, <2>3, <3>1, <4>1, JobIsSend DEF JobInv, Meant
      <4> QED
        BY <1>0, <3>1, <4>1, <4>2 DEF JobInv, InFlight
    <3>2. CASE ~InFlight
      <4>1. job' = Job(Len(home) + 1, shown.id, FALSE)
        BY <1>9, <3>2 DEF Writes
      <4>2. /\ job'.item = Len(home) + 1 /\ job'.q = FALSE /\ job'.ph = "budget"
        BY <4>1 DEF Job
      <4> QED
        BY <2>1, <2>2, <4>2 DEF JobInv, Meant, Sure
    <3> QED
      BY <3>1, <3>2
  <2>6. QueueInv'
    BY <1>0, <2>1, <2>2 DEF QueueInv
  <2>8. \A n \in DOMAIN sent : sent[n].item <= Len(home')
    <3>1. \A n \in DOMAIN sent : sent[n].item \in Nat /\ sent[n].item <= Len(home)
      <4>1. \A n \in DOMAIN sent : sent[n] \in Receipt
        BY DEF TypeOK
      <4> QED
        BY <1>0, <4>1 DEF Receipt, Item, PastInv
    <3> QED
      BY <1>0, <2>1, <3>1
  <2>9. queued' \subseteq 1 .. Len(home') /\ asked \subseteq queued'
    <3>1. 1 .. Len(home) \subseteq 1 .. Len(home') /\ Len(home) + 1 \in 1 .. Len(home')
      BY <1>0, <2>1
    <3> QED
      BY <1>0, <2>2, <3>1 DEF PastInv
  <2> QED
    BY <1>0, <2>2, <2>4, <2>5, <2>6, <2>8, <2>9 DEF LedgerInv, PastInv
<1>10. ASSUME NEW k \in Key, Claims(k)
       PROVE  LedgerInv'
  <2>1. /\ queue[k] \in Seq(Item) /\ queue[k] # <<>>
        /\ queue' = [queue EXCEPT ![k] = Tail(queue[k])]
    BY <1>0, <1>10 DEF Claims
  <2>2. /\ 1 \in DOMAIN queue[k] /\ Head(queue[k]) = queue[k][1]
        /\ \A n \in DOMAIN Tail(queue[k]) : /\ n + 1 \in DOMAIN queue[k]
                                           /\ Tail(queue[k])[n] = queue[k][n + 1]
    BY <2>1
  <2>3. QueueInv'
    BY <1>0, <1>10, <2>1, <2>2 DEF Claims, QueueInv
  <2>4. JobInv'
    <3>1. /\ job'.item = queue[k][1] /\ job'.q = TRUE /\ job'.target = k
          /\ job'.sid = Draft /\ job'.ph = "budget"
      BY <1>10, <2>2 DEF Claims, Job
    <3>2. /\ queue[k][1] \in queued /\ home[queue[k][1]] \in {k, Draft}
          /\ queue[k][1] \in 1 .. Len(home)
      BY <1>0, <2>2 DEF QueueInv, PastInv
    <3>3. queue[k][1] <= Len(home)
      BY <1>0, <3>2
    <3> QED
      BY <1>10, <3>1, <3>2, <3>3 DEF Claims, JobInv, Meant, Sure
  <2> QED
    BY <1>0, <1>10, <2>3, <2>4 DEF Claims, LedgerInv, DialogInv, PastInv, Meant
<1>11. ASSUME NEW k \in Key, NEW n \in DOMAIN queue[k], Removes(k, n)
       PROVE  LedgerInv'
  <2>1. /\ queue[k] \in Seq(Item) /\ queue' = [queue EXCEPT ![k] = RemoveAt(queue[k], n)]
    BY <1>0, <1>11 DEF Removes
  <2>2. \A m \in DOMAIN RemoveAt(queue[k], n) :
          \E l \in DOMAIN queue[k] : RemoveAt(queue[k], n)[m] = queue[k][l]
    <3>1. /\ RemoveAt(queue[k], n) \in Seq(Item)
          /\ Len(RemoveAt(queue[k], n)) = Len(queue[k]) - 1
          /\ \A m \in 1 .. Len(queue[k]) - 1 :
               RemoveAt(queue[k], n)[m] = queue[k][IF m < n THEN m ELSE m + 1]
      BY <2>1, RemovedOne
    <3> QED
      BY <2>1, <3>1
  <2>3. QueueInv'
    BY <1>0, <1>11, <2>1, <2>2 DEF Removes, QueueInv
  <2>4. gone' \subseteq queued
    BY <1>0, <1>11 DEF Removes, QueueInv, PastInv
  <2> QED
    BY <1>0, <1>11, <2>3, <2>4
       DEF Removes, LedgerInv, JobInv, DialogInv, PastInv, Meant, InFlight
<1>12. ASSUME NEW D \in SUBSET Key, Drops(D)
       PROVE  LedgerInv'
  <2>1. QueueInv'
    BY <1>0, <1>12 DEF Drops, QueueInv
  <2>2. gone' \subseteq queued
    <3>1. \A k \in Key : ToSet(queue[k]) \subseteq queued
      BY <1>0 DEF QueueInv, ToSet
    <3>2. UNION {ToSet(queue[k]) : k \in D} \subseteq queued
      BY <3>1
    <3> QED
      BY <1>0, <1>12, <3>2 DEF Drops, PastInv
  <2> QED
    BY <1>0, <1>12, <2>1, <2>2
       DEF Drops, LedgerInv, JobInv, DialogInv, PastInv, Meant, InFlight
<1> QED
  BY <1>1, <1>2, <1>3, <1>4, <1>5, <1>6, <1>7, <1>8, <1>9, <1>10, <1>11, <1>12 DEF Moves
------------------------------------------------------------------------------
(* The line of messages.                                                   *)

\* Apart and Ahead after the step.
ApartNext(i, j) == i = j => i \in asked'
AheadNext(i, j) ==
  /\ ApartNext(i, j)
  /\ {i, j} \subseteq queued' \ asked' /\ home'[i] = home'[j] /\ home'[j] # Draft => i < j

LEMMA LineNext ==
  ASSUME \A k \in Key : \A m, n \in DOMAIN queue'[k] :
           m < n => AheadNext(queue'[k][m], queue'[k][n]),
         \A k, l \in Key : k # l => \A m \in DOMAIN queue'[k], n \in DOMAIN queue'[l] :
           ApartNext(queue'[k][m], queue'[l][n]),
         Claimed' => \A k \in Key : \A n \in DOMAIN queue'[k] :
                       AheadNext(job'.item, queue'[k][n]),
         \A k \in Key : \A m \in DOMAIN sent', n \in DOMAIN queue'[k] :
           AheadNext(sent'[m].item, queue'[k][n]),
         Claimed' => \A m \in DOMAIN sent' : AheadNext(sent'[m].item, job'.item),
         \A m, n \in DOMAIN sent' : m < n => AheadNext(sent'[m].item, sent'[n].item)
  PROVE  LineInv'
BY DEF LineInv, Ahead, Apart, InOrder, ApartNext, AheadNext

\* Steps that write no message keep the relations.
LEMMA AheadStays ==
  ASSUME UNCHANGED <<home, queued>>, asked \subseteq asked', NEW i, NEW j
  PROVE  /\ Apart(i, j) => ApartNext(i, j)
         /\ Ahead(i, j) => AheadNext(i, j)
BY DEF Ahead, Apart, InOrder, ApartNext, AheadNext

\* A send whose message is behind what was sent and ahead of what waits.
Placed(j) ==
  /\ \A k \in Key : \A n \in DOMAIN queue[k] : AheadNext(j.item, queue[k][n])
  /\ \A m \in DOMAIN sent : AheadNext(sent[m].item, j.item)

LEMMA JobPlaced ==
  ASSUME LineInv, Claimed, UNCHANGED <<home, queued, asked>>
  PROVE  Placed(job)
<1>1. /\ \A k \in Key : \A n \in DOMAIN queue[k] : Ahead(job.item, queue[k][n])
      /\ \A m \in DOMAIN sent : Ahead(sent[m].item, job.item)
  BY DEF LineInv
<1> QED
  BY <1>1, AheadStays DEF Placed

LEMMA DialogPlaced ==
  ASSUME LedgerInv, AskedInv, dialog # NoDialog, UNCHANGED <<home, queued>>,
         asked' = IF dialog.q THEN asked \cup {dialog.item} ELSE asked
  PROVE  Placed(dialog)
<1>1. CASE dialog.q
  <2>1. dialog.item \in asked'
    BY <1>1
  <2> QED
    BY <2>1 DEF Placed, AheadNext, ApartNext
<1>2. CASE ~dialog.q
  <2>1. dialog.item \notin queued /\ dialog.item \notin queued'
    BY <1>2 DEF LedgerInv, DialogInv, Meant
  <2>2. \A k \in Key : \A n \in DOMAIN queue[k] : queue[k][n] # dialog.item
    BY <2>1 DEF LedgerInv, QueueInv
  <2>3. \A m \in DOMAIN sent : sent[m].item # dialog.item
    BY <1>2 DEF AskedInv
  <2> QED
    BY <2>1, <2>2, <2>3 DEF Placed, AheadNext, ApartNext
<1> QED
  BY <1>1, <1>2

LEMMA OnwardLine ==
  ASSUME LineInv, NEW j, Placed(j), Onward(j), UNCHANGED <<home, queued, sent>>,
         asked \subseteq asked'
  PROVE  LineInv'
<1>1. /\ queue' = queue /\ job'.item = j.item
  BY DEF Onward
<1> QED
  BY <1>1, AheadStays, LineNext DEF LineInv, Placed

LEMMA RestoredLine ==
  ASSUME ComposerAssumption, TypeOK, LineInv, NEW j \in Send, Placed(j), Restored(j),
         UNCHANGED <<home, queued, sent>>, asked \subseteq asked'
  PROVE  LineInv'
<1>0. ~Claimed' /\ queue' \in [Key -> Seq(Item)]
  BY RestoredElements DEF Restored, Claimed, InFlight
<1>1. ASSUME NEW k \in Key, NEW m \in DOMAIN queue'[k], NEW n \in DOMAIN queue'[k], m < n
      PROVE  AheadNext(queue'[k][m], queue'[k][n])
  <2>1. CASE queue'[k] = queue[k]
    BY <1>1, <2>1, AheadStays DEF LineInv
  <2>2. CASE queue'[k] # queue[k]
    <3>1. k = j.target /\ j.q
      BY <2>2, RestoredElements DEF Send
    <3>2. /\ queue'[j.target][1] = j.item
          /\ \E d \in Nat : \A i \in 2 .. Len(queue'[j.target]) :
               /\ i - 1 + d \in DOMAIN queue[j.target]
               /\ queue'[j.target][i] = queue[j.target][i - 1 + d]
      BY <2>2, <3>1, RestoredElements
    <3>3. PICK d \in Nat : \A i \in 2 .. Len(queue'[k]) :
               i - 1 + d \in DOMAIN queue[k] /\ queue'[k][i] = queue[k][i - 1 + d]
      BY <3>1, <3>2
    <3>4. /\ m \in Nat /\ n \in Nat /\ n \in 2 .. Len(queue'[k])
          /\ m = 1 \/ m \in 2 .. Len(queue'[k])
      BY <1>0, <1>1
    <3>5. CASE m = 1
      BY <3>1, <3>2, <3>3, <3>4, <3>5 DEF Placed
    <3>6. CASE m \in 2 .. Len(queue'[k])
      <4>1. m - 1 + d < n - 1 + d
        BY <1>1, <3>4
      <4>2. Ahead(queue[k][m - 1 + d], queue[k][n - 1 + d])
        BY <3>3, <3>4, <3>6, <4>1 DEF LineInv
      <4> QED
        BY <3>3, <3>4, <3>6, <4>2, AheadStays
    <3> QED
      BY <3>4, <3>5, <3>6
  <2> QED
    BY <2>1, <2>2
<1>2. ASSUME NEW k \in Key, NEW l \in Key, k # l,
             NEW m \in DOMAIN queue'[k], NEW n \in DOMAIN queue'[l]
      PROVE  ApartNext(queue'[k][m], queue'[l][n])
  <2>1. \/ \E i \in DOMAIN queue[k] : queue'[k][m] = queue[k][i]
        \/ k = j.target /\ queue'[k][m] = j.item
    BY RestoredFrom
  <2>2. \/ \E i \in DOMAIN queue[l] : queue'[l][n] = queue[l][i]
        \/ l = j.target /\ queue'[l][n] = j.item
    BY RestoredFrom
  <2>3. ASSUME NEW i \in DOMAIN queue[k], NEW h \in DOMAIN queue[l]
        PROVE  ApartNext(queue[k][i], queue[l][h])
    BY <1>2, AheadStays DEF LineInv
  <2>4. ASSUME NEW x \in Key, NEW i \in DOMAIN queue[x]
        PROVE  ApartNext(j.item, queue[x][i]) /\ ApartNext(queue[x][i], j.item)
    BY DEF Placed, AheadNext, ApartNext
  <2> QED
    BY <1>2, <2>1, <2>2, <2>3, <2>4
<1>3. ASSUME NEW k \in Key, NEW m \in DOMAIN sent', NEW n \in DOMAIN queue'[k]
      PROVE  AheadNext(sent'[m].item, queue'[k][n])
  <2>1. m \in DOMAIN sent /\ sent'[m] = sent[m]
    OBVIOUS
  <2>2. CASE \E i \in DOMAIN queue[k] : queue'[k][n] = queue[k][i]
    BY <2>1, <2>2, AheadStays DEF LineInv
  <2>3. CASE queue'[k][n] = j.item
    BY <2>1, <2>3 DEF Placed
  <2> QED
    BY <2>2, <2>3, RestoredFrom
<1>4. \A m, n \in DOMAIN sent' : m < n => AheadNext(sent'[m].item, sent'[n].item)
  BY AheadStays DEF LineInv
<1> QED
  BY <1>0, <1>1, <1>2, <1>3, <1>4, LineNext
\* A new message is behind every other.
LEMMA AheadWritten ==
  ASSUME ComposerAssumption, TypeOK, PastInv, Len(home) < MaxItem,
         home' = Append(home, shown.id), asked' = asked,
         queued' \in {queued, queued \cup {Len(home) + 1}},
         NEW i \in 1 .. Len(home)
  PROVE  /\ AheadNext(i, Len(home) + 1) /\ ApartNext(Len(home) + 1, i)
         /\ \A j \in 1 .. Len(home) : /\ Apart(i, j) => ApartNext(i, j)
                                      /\ Ahead(i, j) => AheadNext(i, j)
<1>1. \A j \in 1 .. Len(home) : home'[j] = home[j]
  BY Written
<1>2. Len(home) \in Nat
  BY DEF TypeOK
<1>3. AheadNext(i, Len(home) + 1) /\ ApartNext(Len(home) + 1, i)
  BY <1>2 DEF AheadNext, ApartNext
<1>4. ASSUME NEW j \in 1 .. Len(home)
      PROVE  (Apart(i, j) => ApartNext(i, j)) /\ (Ahead(i, j) => AheadNext(i, j))
  <2>1. /\ i \in queued' <=> i \in queued
        /\ j \in queued' <=> j \in queued
    BY <1>2
  <2>2. home'[i] = home[i] /\ home'[j] = home[j]
    BY <1>1
  <2> QED
    BY <2>1, <2>2 DEF Ahead, Apart, InOrder, AheadNext, ApartNext
<1> QED
  BY <1>3, <1>4

\* Every message in a place was written.
LEMMA PlacesWritten ==
  ASSUME ComposerAssumption, TypeOK, LedgerInv
  PROVE  /\ \A k \in Key : \A n \in DOMAIN queue[k] : queue[k][n] \in 1 .. Len(home)
         /\ \A m \in DOMAIN sent : sent[m].item \in 1 .. Len(home)
         /\ InFlight => job.item \in 1 .. Len(home)
         /\ dialog # NoDialog => dialog.item \in 1 .. Len(home)
<1>0. Len(home) \in Nat
  BY DEF TypeOK
<1>1. \A k \in Key : \A n \in DOMAIN queue[k] : queue[k][n] \in 1 .. Len(home)
  BY DEF LedgerInv, QueueInv, PastInv
<1>2. \A m \in DOMAIN sent : sent[m].item \in 1 .. Len(home)
  <2>1. \A m \in DOMAIN sent : sent[m] \in Receipt
    BY DEF TypeOK
  <2> QED
    BY <1>0, <2>1 DEF LedgerInv, PastInv, Receipt, Item
<1>3. \A j \in Send : Meant(j) => j.item \in 1 .. Len(home)
  BY <1>0 DEF Meant, Send, Item
<1> QED
  BY <1>1, <1>2, <1>3, JobIsSend DEF LedgerInv, JobInv, DialogInv

LEMMA AddsElements ==
  ASSUME ComposerAssumption, TypeOK, Adds
  PROVE  /\ queue' \in [Key -> Seq(Item)] /\ shown.id \in Key
         /\ \A k \in Key : k # shown.id => queue'[k] = queue[k]
         /\ LET r == queue'[shown.id]
                q == queue[shown.id]
            IN  /\ Len(r) > 0 /\ r[Len(r)] = Len(home) + 1
                /\ \E d \in Nat \cup {-1} : \A n \in 1 .. Len(r) - 1 :
                     n + d \in DOMAIN q /\ r[n] = q[n + d]
<1> DEFINE q == queue[shown.id]
           r == EnqueueSend(q, Len(home) + 1)
<1>1. queue \in [Key -> Seq(Item)] /\ shown.id \in Key /\ q \in Seq(Item)
  BY DEF TypeOK, Snapshot
<1>2. Len(home) + 1 \in Item
  BY Written DEF Adds
<1>3. queue' = [queue EXCEPT ![shown.id] = r]
  BY DEF Adds
<1> HIDE DEF q
<1>4. /\ r \in Seq(Item) /\ Len(r) > 0 /\ r[Len(r)] = Len(home) + 1
      /\ \E d \in Nat \cup {-1} : \A n \in 1 .. Len(r) - 1 :
           n + d \in DOMAIN q /\ r[n] = q[n + d]
  BY <1>1, <1>2, EnqueuedLast
<1> HIDE DEF r
<1>5. queue'[shown.id] = r /\ \A k \in Key : k # shown.id => queue'[k] = queue[k]
  BY <1>1, <1>3
<1>6. queue' \in [Key -> Seq(Item)]
  BY <1>1, <1>3, <1>4
<1> QED
  BY <1>1, <1>4, <1>5, <1>6 DEF q

LEMMA AddsLine ==
  ASSUME ComposerAssumption, TypeOK, LedgerInv, LineInv, AskedInv, Adds
  PROVE  LineInv' /\ AskedInv'
<1> DEFINE w == Len(home) + 1
<1>0. /\ UNCHANGED <<job, dialog, sent, asked>>
      /\ \A i \in 1 .. Len(home) :
           /\ AheadNext(i, w) /\ ApartNext(w, i) /\ ApartNext(i, w)
           /\ \A j \in 1 .. Len(home) : /\ Apart(i, j) => ApartNext(i, j)
                                        /\ Ahead(i, j) => AheadNext(i, j)
  BY AheadWritten DEF Adds, AheadNext, LedgerInv
<1>1. /\ queue' \in [Key -> Seq(Item)] /\ shown.id \in Key
      /\ \A k \in Key : k # shown.id => queue'[k] = queue[k]
  BY AddsElements
<1>2. PICK d \in Nat \cup {-1} :
        /\ Len(queue'[shown.id]) > 0 /\ queue'[shown.id][Len(queue'[shown.id])] = w
        /\ \A n \in 1 .. Len(queue'[shown.id]) - 1 :
             /\ n + d \in DOMAIN queue[shown.id]
             /\ queue'[shown.id][n] = queue[shown.id][n + d]
  BY AddsElements
<1>3. ASSUME NEW k \in Key, NEW n \in DOMAIN queue'[k]
      PROVE  \/ \E m \in DOMAIN queue[k] : queue'[k][n] = queue[k][m]
             \/ k = shown.id /\ queue'[k][n] = w
  <2>1. CASE k = shown.id
    <3>1. n = Len(queue'[k]) \/ n \in 1 .. Len(queue'[k]) - 1
      BY <1>1
    <3> QED
      BY <1>2, <2>1, <3>1
  <2> QED
    BY <1>1, <2>1
<1> HIDE DEF w
<1>4. ASSUME NEW k \in Key, NEW m \in DOMAIN queue'[k], NEW n \in DOMAIN queue'[k], m < n
      PROVE  AheadNext(queue'[k][m], queue'[k][n])
  <2>1. CASE k # shown.id
    BY <1>0, <1>1, <1>4, <2>1, PlacesWritten DEF LineInv
  <2>2. CASE k = shown.id
    <3>1. m \in 1 .. Len(queue'[k]) - 1 /\ (n = Len(queue'[k]) \/ n \in 1 .. Len(queue'[k]) - 1)
      BY <1>1, <1>4
    <3>2. m + d \in DOMAIN queue[k] /\ queue'[k][m] = queue[k][m + d]
      BY <1>2, <2>2, <3>1
    <3>3. CASE n = Len(queue'[k])
      BY <1>0, <1>2, <2>2, <3>2, <3>3, PlacesWritten
    <3>4. CASE n \in 1 .. Len(queue'[k]) - 1
      <4>1. n + d \in DOMAIN queue[k] /\ queue'[k][n] = queue[k][n + d] /\ m + d < n + d
        BY <1>2, <1>4, <2>2, <3>1, <3>4
      <4> QED
        BY <1>0, <3>2, <4>1, PlacesWritten DEF LineInv
    <3> QED
      BY <3>1, <3>3, <3>4
  <2> QED
    BY <2>1, <2>2
<1>5. ASSUME NEW k \in Key, NEW l \in Key, k # l,
             NEW m \in DOMAIN queue'[k], NEW n \in DOMAIN queue'[l]
      PROVE  ApartNext(queue'[k][m], queue'[l][n])
  BY <1>0, <1>3, <1>5, PlacesWritten DEF LineInv
<1>6. Claimed' => \A k \in Key : \A n \in DOMAIN queue'[k] : AheadNext(job'.item, queue'[k][n])
  BY <1>0, <1>3, PlacesWritten DEF LineInv, Claimed, InFlight
<1>7. \A k \in Key : \A m \in DOMAIN sent', n \in DOMAIN queue'[k] :
        AheadNext(sent'[m].item, queue'[k][n])
  BY <1>0, <1>3, PlacesWritten DEF LineInv
<1>8. /\ Claimed' => \A m \in DOMAIN sent' : AheadNext(sent'[m].item, job'.item)
      /\ \A m, n \in DOMAIN sent' : m < n => AheadNext(sent'[m].item, sent'[n].item)
  BY <1>0, PlacesWritten DEF LineInv, Claimed, InFlight
<1> QED
  BY <1>0, <1>4, <1>5, <1>6, <1>7, <1>8, LineNext DEF AskedInv, Claimed, InFlight

LEMMA WritesLine ==
  ASSUME ComposerAssumption, TypeOK, LedgerInv, LineInv, AskedInv, Writes
  PROVE  LineInv' /\ AskedInv'
<1> DEFINE w == Len(home) + 1
<1>0. /\ UNCHANGED <<queue, dialog, sent, queued, asked>>
      /\ \A i \in 1 .. Len(home) :
           /\ AheadNext(i, w) /\ ApartNext(w, i) /\ i # w
           /\ \A j \in 1 .. Len(home) : /\ Apart(i, j) => ApartNext(i, j)
                                        /\ Ahead(i, j) => AheadNext(i, j)
  BY AheadWritten DEF Writes, LedgerInv, TypeOK
<1>1. w \notin queued'
  BY <1>0 DEF LedgerInv, PastInv
<1>2. job' = job \/ (~InFlight /\ job'.item = w)
  BY DEF Writes, Job
<1> HIDE DEF w
<1>3. /\ \A k \in Key : \A m, n \in DOMAIN queue'[k] :
           m < n => AheadNext(queue'[k][m], queue'[k][n])
      /\ \A k, l \in Key : k # l => \A m \in DOMAIN queue'[k], n \in DOMAIN queue'[l] :
           ApartNext(queue'[k][m], queue'[l][n])
      /\ \A k \in Key : \A m \in DOMAIN sent', n \in DOMAIN queue'[k] :
           AheadNext(sent'[m].item, queue'[k][n])
      /\ \A m, n \in DOMAIN sent' : m < n => AheadNext(sent'[m].item, sent'[n].item)
  BY <1>0, PlacesWritten DEF LineInv
<1>4. CASE job' = job
  BY <1>0, <1>3, <1>4, PlacesWritten, LineNext DEF LineInv, AskedInv, Claimed, InFlight
<1>5. CASE ~InFlight /\ job'.item = w
  <2>1. \A k \in Key : \A n \in DOMAIN queue'[k] : AheadNext(w, queue'[k][n])
    BY <1>0, <1>1, PlacesWritten DEF AheadNext
  <2>2. \A m \in DOMAIN sent' : AheadNext(sent'[m].item, w)
    BY <1>0, PlacesWritten
  <2>3. LineInv'
    BY <1>3, <1>5, <2>1, <2>2, LineNext
  <2> QED
    BY <1>0, <1>5, <2>3, PlacesWritten DEF AskedInv
<1> QED
  BY <1>2, <1>4, <1>5

LEMMA TakesLine ==
  ASSUME ComposerAssumption, TypeOK, LineInv, AskedInv, Takes
  PROVE  LineInv' /\ AskedInv'
<1>1. /\ UNCHANGED <<queue, dialog, home, queued, asked>> /\ Claimed
      /\ job \in Send /\ sent \in Seq(Receipt)
  BY JobIsSend DEF Takes, Claimed, TypeOK
<1>2. job'.ph = "accepted"
  BY <1>1 DEF Takes, Send
<1>3. ~Claimed'
  BY <1>2 DEF Claimed
<1>4. /\ Len(sent) \in Nat /\ DOMAIN sent = 1 .. Len(sent)
      /\ DOMAIN sent' = 1 .. Len(sent) + 1
      /\ sent'[Len(sent) + 1].item = job.item
      /\ \A m \in 1 .. Len(sent) : sent'[m] = sent[m]
  <2> DEFINE x == [item |-> job.item, to |-> focus, sid |-> job.sid]
  <2>1. sent' = Append(sent, x) /\ x.item = job.item
    BY DEF Takes
  <2> HIDE DEF x
  <2> QED
    BY <1>1, <2>1
<1>5. \A m \in DOMAIN sent' :
        \/ m \in DOMAIN sent /\ sent'[m] = sent[m]
        \/ m = Len(sent) + 1 /\ sent'[m].item = job.item
  <2> SUFFICES ASSUME NEW m \in DOMAIN sent'
               PROVE  \/ m \in DOMAIN sent /\ sent'[m] = sent[m]
                      \/ m = Len(sent) + 1 /\ sent'[m].item = job.item
    OBVIOUS
  <2>1. m \in 1 .. Len(sent) \/ m = Len(sent) + 1
    BY <1>4
  <2>2. CASE m \in 1 .. Len(sent)
    BY <1>4, <2>2, Zenon
  <2>3. CASE m = Len(sent) + 1
    <3>1. sent'[m].item = job.item
      BY <1>4, <2>3, Zenon
    <3> QED
      BY <2>3, <3>1
  <2> QED
    BY <2>1, <2>2, <2>3
<1>6. \A m, n \in DOMAIN sent' : m < n => m \in DOMAIN sent
  BY <1>4
<1>7. \A k \in Key : \A m \in DOMAIN sent', n \in DOMAIN queue'[k] :
        AheadNext(sent'[m].item, queue'[k][n])
  BY <1>1, <1>5, AheadStays DEF LineInv
<1>8. \A m, n \in DOMAIN sent' : m < n => AheadNext(sent'[m].item, sent'[n].item)
  <2> SUFFICES ASSUME NEW m \in DOMAIN sent', NEW n \in DOMAIN sent', m < n
               PROVE  AheadNext(sent'[m].item, sent'[n].item)
    OBVIOUS
  <2>1. m \in DOMAIN sent /\ sent'[m] = sent[m]
    BY <1>4, <1>6
  <2>2. CASE n \in DOMAIN sent /\ sent'[n] = sent[n]
    BY <1>1, <2>1, <2>2, AheadStays DEF LineInv
  <2>3. CASE sent'[n].item = job.item
    BY <1>1, <2>1, <2>3, AheadStays DEF LineInv
  <2> QED
    BY <1>5, <2>2, <2>3
<1>9. /\ \A k \in Key : \A m, n \in DOMAIN queue'[k] :
           m < n => AheadNext(queue'[k][m], queue'[k][n])
      /\ \A k, l \in Key : k # l => \A m \in DOMAIN queue'[k], n \in DOMAIN queue'[l] :
           ApartNext(queue'[k][m], queue'[l][n])
  BY <1>1, AheadStays DEF LineInv
<1>10. LineInv'
  BY <1>3, <1>7, <1>8, <1>9, LineNext
<1> QED
  BY <1>1, <1>3, <1>5, <1>10 DEF AskedInv

\* The queues after a step that only takes messages out of them.
Thinner ==
  \A k \in Key : \E f \in [DOMAIN queue'[k] -> DOMAIN queue[k]] :
    /\ \A n \in DOMAIN queue'[k] : queue'[k][n] = queue[k][f[n]]
    /\ \A m, n \in DOMAIN queue'[k] : m < n => f[m] < f[n]

LEMMA ThinnerLine ==
  ASSUME LineInv, AskedInv, Thinner, UNCHANGED <<job, dialog, home, queued, sent, asked>>
  PROVE  LineInv' /\ AskedInv'
<1>1. ASSUME NEW k \in Key, NEW m \in DOMAIN queue'[k], NEW n \in DOMAIN queue'[k], m < n
      PROVE  AheadNext(queue'[k][m], queue'[k][n])
  <2>1. PICK f \in [DOMAIN queue'[k] -> DOMAIN queue[k]] :
          /\ \A i \in DOMAIN queue'[k] : queue'[k][i] = queue[k][f[i]]
          /\ \A i, j \in DOMAIN queue'[k] : i < j => f[i] < f[j]
    BY DEF Thinner
  <2>2. f[m] \in DOMAIN queue[k] /\ f[n] \in DOMAIN queue[k] /\ f[m] < f[n]
    BY <1>1, <2>1
  <2>3. Ahead(queue[k][f[m]], queue[k][f[n]])
    BY <2>2 DEF LineInv
  <2> QED
    BY <2>1, <2>3, AheadStays
<1>2. ASSUME NEW k \in Key, NEW n \in DOMAIN queue'[k]
      PROVE  \E m \in DOMAIN queue[k] : queue'[k][n] = queue[k][m]
  BY DEF Thinner
<1>3. ASSUME NEW k \in Key, NEW l \in Key, k # l,
             NEW m \in DOMAIN queue'[k], NEW n \in DOMAIN queue'[l]
      PROVE  ApartNext(queue'[k][m], queue'[l][n])
  BY <1>2, <1>3, AheadStays DEF LineInv
<1>4. /\ Claimed' => \A k \in Key : \A n \in DOMAIN queue'[k] :
                       AheadNext(job'.item, queue'[k][n])
      /\ \A k \in Key : \A m \in DOMAIN sent', n \in DOMAIN queue'[k] :
           AheadNext(sent'[m].item, queue'[k][n])
  BY <1>2, AheadStays DEF LineInv, Claimed, InFlight
<1>5. /\ Claimed' => \A m \in DOMAIN sent' : AheadNext(sent'[m].item, job'.item)
      /\ \A m, n \in DOMAIN sent' : m < n => AheadNext(sent'[m].item, sent'[n].item)
  BY AheadStays DEF LineInv, Claimed, InFlight
<1> QED
  BY <1>1, <1>3, <1>4, <1>5, LineNext DEF AskedInv, Claimed, InFlight

LEMMA RemovesLine ==
  ASSUME TypeOK, LineInv, AskedInv, NEW k \in Key, NEW n \in DOMAIN queue[k], Removes(k, n)
  PROVE  LineInv' /\ AskedInv'
<1> DEFINE r == RemoveAt(queue[k], n)
           f == [m \in DOMAIN r |-> IF m < n THEN m ELSE m + 1]
<1>1. queue \in [Key -> Seq(Item)] /\ queue[k] \in Seq(Item)
  BY DEF TypeOK
<1>2. /\ r \in Seq(Item) /\ Len(r) = Len(queue[k]) - 1
      /\ \A m \in 1 .. Len(queue[k]) - 1 : r[m] = queue[k][IF m < n THEN m ELSE m + 1]
  BY <1>1, RemovedOne
<1>3. queue' = [queue EXCEPT ![k] = r]
  BY DEF Removes
<1> HIDE DEF r
<1>4. /\ DOMAIN r = 1 .. Len(queue[k]) - 1 /\ DOMAIN queue[k] = 1 .. Len(queue[k])
      /\ Len(queue[k]) \in Nat /\ n \in 1 .. Len(queue[k])
  BY <1>1, <1>2
<1>5. /\ f \in [DOMAIN r -> DOMAIN queue[k]]
      /\ \A m \in DOMAIN r : r[m] = queue[k][f[m]]
      /\ \A m, l \in DOMAIN r : m < l => f[m] < f[l]
  <2>1. \A m \in 1 .. Len(queue[k]) - 1 :
          (IF m < n THEN m ELSE m + 1) \in 1 .. Len(queue[k])
    BY <1>4
  <2>2. \A m \in DOMAIN r : f[m] = IF m < n THEN m ELSE m + 1
    OBVIOUS
  <2>3. f \in [DOMAIN r -> DOMAIN queue[k]]
    BY <1>4, <2>1
  <2> HIDE DEF f
  <2>4. \A m \in DOMAIN r : r[m] = queue[k][f[m]]
    BY <1>2, <1>4, <2>2
  <2>5. \A m, l \in DOMAIN r : m < l => f[m] < f[l]
    BY <1>4, <2>2
  <2> QED
    BY <2>3, <2>4, <2>5
<1> HIDE DEF f
<1>6. queue'[k] = r /\ \A l \in Key : l # k => queue'[l] = queue[l]
  BY <1>1, <1>3
<1>7. Thinner
  <2> SUFFICES ASSUME NEW l \in Key
               PROVE  \E g \in [DOMAIN queue'[l] -> DOMAIN queue[l]] :
                        /\ \A m \in DOMAIN queue'[l] : queue'[l][m] = queue[l][g[m]]
                        /\ \A i, j \in DOMAIN queue'[l] : i < j => g[i] < g[j]
    BY DEF Thinner
  <2>1. CASE l = k
    BY <1>5, <1>6, <2>1
  <2>2. CASE l # k
    <3> DEFINE g == [m \in DOMAIN queue[l] |-> m]
    <3>1. /\ g \in [DOMAIN queue[l] -> DOMAIN queue[l]]
          /\ \A m \in DOMAIN queue[l] : g[m] = m
      OBVIOUS
    <3> HIDE DEF g
    <3> QED
      BY <1>6, <2>2, <3>1
  <2> QED
    BY <2>1, <2>2
<1> QED
  BY <1>7, ThinnerLine DEF Removes

LEMMA DropsLine ==
  ASSUME TypeOK, LineInv, AskedInv, NEW D \in SUBSET Key, Drops(D)
  PROVE  LineInv' /\ AskedInv'
<1>1. \A k \in Key : queue'[k] = <<>> \/ queue'[k] = queue[k]
  BY DEF Drops
<1>2. Thinner
  <2> SUFFICES ASSUME NEW l \in Key
               PROVE  \E g \in [DOMAIN queue'[l] -> DOMAIN queue[l]] :
                        /\ \A m \in DOMAIN queue'[l] : queue'[l][m] = queue[l][g[m]]
                        /\ \A i, j \in DOMAIN queue'[l] : i < j => g[i] < g[j]
    BY DEF Thinner
  <2> DEFINE g == [m \in DOMAIN queue'[l] |-> m]
  <2>1. DOMAIN queue'[l] \subseteq DOMAIN queue[l] /\ \A m \in DOMAIN queue'[l] : queue'[l][m] = queue[l][m]
    BY <1>1
  <2>2. /\ g \in [DOMAIN queue'[l] -> DOMAIN queue[l]]
        /\ \A m \in DOMAIN queue'[l] : g[m] = m
    BY <2>1
  <2> HIDE DEF g
  <2> QED
    BY <2>1, <2>2
<1> QED
  BY <1>2, ThinnerLine DEF Drops

LEMMA ClaimsLine ==
  ASSUME ComposerAssumption, TypeOK, LedgerInv, LineInv, AskedInv, NEW k \in Key, Claims(k)
  PROVE  LineInv' /\ AskedInv'
<1>1. /\ queue \in [Key -> Seq(Item)] /\ queue[k] \in Seq(Item) /\ queue[k] # <<>>
      /\ queue' = [queue EXCEPT ![k] = Tail(queue[k])]
      /\ UNCHANGED <<dialog, home, queued, sent, asked>>
  BY DEF Claims, TypeOK
<1>2. /\ 1 \in DOMAIN queue[k] /\ job'.item = queue[k][1]
  <2>1. 1 \in DOMAIN queue[k] /\ Head(queue[k]) = queue[k][1]
    BY <1>1
  <2> QED
    BY <2>1 DEF Claims, Job
<1>3. ASSUME NEW l \in Key, NEW n \in DOMAIN queue'[l]
      PROVE  LET d == IF l = k THEN 1 ELSE 0
             IN  n \in Nat /\ n + d \in DOMAIN queue[l] /\ queue'[l][n] = queue[l][n + d]
  <2>1. CASE l = k
    BY <1>1, <2>1
  <2>2. CASE l # k
    BY <1>1, <2>2
  <2> QED
    BY <2>1, <2>2
<1>4. ASSUME NEW l \in Key, NEW m \in DOMAIN queue'[l], NEW n \in DOMAIN queue'[l], m < n
      PROVE  AheadNext(queue'[l][m], queue'[l][n])
  <2> DEFINE d == IF l = k THEN 1 ELSE 0
  <2>1. /\ m + d \in DOMAIN queue[l] /\ queue'[l][m] = queue[l][m + d]
        /\ n + d \in DOMAIN queue[l] /\ queue'[l][n] = queue[l][n + d]
        /\ m + d < n + d
    BY <1>3, <1>4
  <2> HIDE DEF d
  <2>2. Ahead(queue[l][m + d], queue[l][n + d])
    BY <2>1 DEF LineInv
  <2> QED
    BY <1>1, <2>1, <2>2, AheadStays
<1>5. ASSUME NEW l \in Key, NEW n \in DOMAIN queue'[l]
      PROVE  \E m \in DOMAIN queue[l] : queue'[l][n] = queue[l][m] /\ (l = k => 1 < m)
  <2>1. CASE l = k
    <3>1. n + 1 \in DOMAIN queue[l] /\ queue'[l][n] = queue[l][n + 1] /\ n \in DOMAIN Tail(queue[k])
      BY <1>1, <1>3, <2>1
    <3>2. 1 < n + 1
      BY <1>1, <3>1
    <3> QED
      BY <3>1, <3>2
  <2>2. CASE l # k
    BY <1>1, <2>2
  <2> QED
    BY <2>1, <2>2
<1>6. ASSUME NEW l \in Key, NEW h \in Key, l # h,
             NEW m \in DOMAIN queue'[l], NEW n \in DOMAIN queue'[h]
      PROVE  ApartNext(queue'[l][m], queue'[h][n])
  BY <1>1, <1>5, <1>6, AheadStays DEF LineInv
<1>7. ASSUME NEW l \in Key, NEW n \in DOMAIN queue'[l]
      PROVE  AheadNext(job'.item, queue'[l][n])
  <2>1. PICK m \in DOMAIN queue[l] : queue'[l][n] = queue[l][m] /\ (l = k => 1 < m)
    BY <1>5
  <2>2. Ahead(queue[k][1], queue[l][m])
    <3>1. CASE l = k
      BY <1>2, <2>1, <3>1 DEF LineInv
    <3>2. CASE l # k
      <4>1. Apart(queue[k][1], queue[l][m])
        BY <1>2, <3>2 DEF LineInv
      <4>2. home[queue[k][1]] \in {k, Draft} /\ home[queue[l][m]] \in {l, Draft}
        BY <1>2 DEF LedgerInv, QueueInv
      <4> QED
        BY <3>2, <4>1, <4>2 DEF Ahead, InOrder
    <3> QED
      BY <3>1, <3>2
  <2> QED
    BY <1>1, <1>2, <2>1, <2>2, AheadStays
<1>8. \A m \in DOMAIN sent' : AheadNext(sent'[m].item, job'.item)
  BY <1>1, <1>2, AheadStays DEF LineInv
<1>9. /\ \A l \in Key : \A m \in DOMAIN sent', n \in DOMAIN queue'[l] :
           AheadNext(sent'[m].item, queue'[l][n])
      /\ \A m, n \in DOMAIN sent' : m < n => AheadNext(sent'[m].item, sent'[n].item)
  BY <1>1, <1>5, AheadStays DEF LineInv
<1>10. LineInv'
  BY <1>4, <1>6, <1>7, <1>8, <1>9, LineNext
<1>11. AskedInv'
  <2>1. queue[k][1] \in queued
    BY <1>2 DEF LedgerInv, QueueInv
  <2> QED
    BY <1>1, <1>2, <2>1 DEF AskedInv, LedgerInv, DialogInv, Meant
<1> QED
  BY <1>10, <1>11

LEMMA EndsQueues ==
  ASSUME ComposerAssumption, TypeOK, LedgerInv, Ends
  PROVE  \/ queue' = queue
         \/ /\ job.sid \in Key /\ job.sid # Draft /\ Draft \in Key
            /\ queue' \in [Key -> Seq(Item)] /\ queue'[Draft] = <<>>
            /\ queue'[job.sid] = queue[job.sid] \o queue[Draft]
            /\ \A k \in Key : k \notin {job.sid, Draft} => queue'[k] = queue[k]
            /\ Len(queue'[job.sid]) = Len(queue[job.sid]) + Len(queue[Draft])
            /\ \A n \in DOMAIN queue'[job.sid] :
                 \/ /\ n \in DOMAIN queue[job.sid] /\ n <= Len(queue[job.sid])
                    /\ queue'[job.sid][n] = queue[job.sid][n]
                 \/ /\ n > Len(queue[job.sid])
                    /\ n - Len(queue[job.sid]) \in DOMAIN queue[Draft]
                    /\ queue'[job.sid][n] = queue[Draft][n - Len(queue[job.sid])]
<1>1. /\ job \in Send /\ job.sid \in Key /\ job.sid # Draft /\ Draft \in Key
      /\ queue \in [Key -> Seq(Item)]
  BY JobIsSend DEF Ends, LedgerInv, JobInv, Sure, Send, Key, TypeOK
<1>2. CASE job.target # Draft
  BY <1>2 DEF Ends
<1>3. CASE job.target = Draft
  <2> DEFINE a == queue[job.sid]
             b == queue[Draft]
             q == [queue EXCEPT ![job.sid] = a \o b]
  <2>1. a \in Seq(Item) /\ b \in Seq(Item)
    BY <1>1
  <2>2. queue' = [q EXCEPT ![Draft] = <<>>]
    BY <1>3 DEF Ends, MigrateDraftQueue
  <2>3. /\ q \in [Key -> Seq(Item)] /\ q[job.sid] = a \o b
        /\ \A k \in Key : k # job.sid => q[k] = queue[k]
    BY <1>1, <2>1
  <2> HIDE DEF q
  <2>4. /\ queue' \in [Key -> Seq(Item)] /\ queue'[Draft] = <<>>
        /\ \A k \in Key : k # Draft => queue'[k] = q[k]
    BY <1>1, <2>2, <2>3
  <2> DEFINE r == a \o b
  <2>5. queue'[job.sid] = r
    BY <1>1, <2>3, <2>4
  <2> HIDE DEF a, b
  <2>6. /\ r \in Seq(Item) /\ Len(r) = Len(a) + Len(b)
        /\ \A n \in 1 .. Len(a) + Len(b) : r[n] = IF n <= Len(a) THEN a[n] ELSE b[n - Len(a)]
    BY <2>1, ConcatProperties
  <2> HIDE DEF r
  <2>7. /\ Len(a) \in Nat /\ Len(b) \in Nat /\ DOMAIN a = 1 .. Len(a)
        /\ DOMAIN b = 1 .. Len(b) /\ DOMAIN r = 1 .. Len(a) + Len(b)
    BY <2>1, <2>6
  <2>8. ASSUME NEW n \in DOMAIN r
        PROVE  \/ n \in DOMAIN a /\ n <= Len(a) /\ r[n] = a[n]
               \/ n > Len(a) /\ n - Len(a) \in DOMAIN b /\ r[n] = b[n - Len(a)]
    <3>1. CASE n <= Len(a)
      BY <2>6, <2>7, <3>1
    <3>2. CASE ~(n <= Len(a))
      BY <2>6, <2>7, <3>2
    <3> QED
      BY <3>1, <3>2
  <2>9. \A k \in Key : k \notin {job.sid, Draft} => queue'[k] = queue[k]
    BY <2>3, <2>4
  <2> QED
    BY <1>1, <2>4, <2>5, <2>6, <2>8, <2>9 DEF a, b, r
<1> QED
  BY <1>2, <1>3

LEMMA EndsLine ==
  ASSUME ComposerAssumption, TypeOK, LedgerInv, LineInv, AskedInv, Ends
  PROVE  LineInv' /\ AskedInv'
<1>0. /\ UNCHANGED <<dialog, home, queued, sent, asked>> /\ ~Claimed'
      /\ queue \in [Key -> Seq(Item)]
  BY DEF Ends, Claimed, InFlight, TypeOK
<1>1. CASE queue' = queue
  BY <1>0, <1>1, AheadStays, LineNext DEF LineInv, AskedInv
<1>2. CASE queue' # queue
  <2> DEFINE s == job.sid
             a == queue[s]
             b == queue[Draft]
  <2>1. /\ s \in Key /\ s # Draft /\ Draft \in Key
        /\ queue' \in [Key -> Seq(Item)] /\ queue'[Draft] = <<>>
        /\ \A k \in Key : k \notin {s, Draft} => queue'[k] = queue[k]
        /\ \A n \in DOMAIN queue'[s] :
                 \/ n \in DOMAIN a /\ n <= Len(a) /\ queue'[s][n] = a[n]
                 \/ n > Len(a) /\ n - Len(a) \in DOMAIN b /\ queue'[s][n] = b[n - Len(a)]
    BY <1>2, EndsQueues
  <2>2. ASSUME NEW i \in DOMAIN a, NEW j \in DOMAIN b
        PROVE  Ahead(a[i], b[j])
    <3>1. Apart(a[i], b[j])
      BY <2>1 DEF LineInv
    <3>2. home[b[j]] = Draft
      BY <2>1 DEF LedgerInv, QueueInv
    <3> QED
      BY <3>1, <3>2 DEF Ahead, InOrder
  <2>3. ASSUME NEW k \in Key, NEW m \in DOMAIN queue'[k], NEW n \in DOMAIN queue'[k], m < n
        PROVE  AheadNext(queue'[k][m], queue'[k][n])
    <3>1. CASE k # s
      <4>1. k # Draft
        BY <2>1
      <4> QED
        BY <1>0, <2>1, <2>3, <3>1, <4>1, AheadStays DEF LineInv
    <3>2. CASE k = s
      <4>1. m \in Nat /\ n \in Nat /\ Len(a) \in Nat
        BY <1>0, <2>1
      <4>2. CASE n <= Len(a)
        <5>1. /\ m \in DOMAIN a /\ queue'[k][m] = a[m]
              /\ n \in DOMAIN a /\ queue'[k][n] = a[n]
          BY <2>1, <2>3, <3>2, <4>1, <4>2
        <5>2. Ahead(a[m], a[n])
          BY <2>1, <2>3, <5>1 DEF LineInv
        <5> QED
          BY <1>0, <5>1, <5>2, AheadStays
      <4>3. CASE ~(n <= Len(a)) /\ m <= Len(a)
        <5>1. /\ m \in DOMAIN a /\ queue'[k][m] = a[m]
              /\ n - Len(a) \in DOMAIN b /\ queue'[k][n] = b[n - Len(a)]
          BY <2>1, <3>2, <4>1, <4>3
        <5> QED
          BY <1>0, <2>2, <5>1, AheadStays
      <4>4. CASE ~(n <= Len(a)) /\ ~(m <= Len(a))
        <5>1. /\ m - Len(a) \in DOMAIN b /\ queue'[k][m] = b[m - Len(a)]
              /\ n - Len(a) \in DOMAIN b /\ queue'[k][n] = b[n - Len(a)]
              /\ m - Len(a) < n - Len(a)
          BY <2>1, <2>3, <3>2, <4>1, <4>4
        <5>2. Ahead(b[m - Len(a)], b[n - Len(a)])
          BY <2>1, <5>1 DEF LineInv
        <5> QED
          BY <1>0, <5>1, <5>2, AheadStays
      <4> QED
        BY <4>2, <4>3, <4>4
    <3> QED
      BY <3>1, <3>2
  <2>4. ASSUME NEW k \in Key, NEW n \in DOMAIN queue'[k]
        PROVE  \/ \E m \in DOMAIN queue[k] : queue'[k][n] = queue[k][m] /\ k # Draft
               \/ k = s /\ \E m \in DOMAIN b : queue'[k][n] = b[m]
    <3>1. k # Draft
      BY <2>1
    <3> QED
      BY <2>1, <3>1
  <2>5. ASSUME NEW k \in Key, NEW l \in Key, k # l,
               NEW m \in DOMAIN queue'[k], NEW n \in DOMAIN queue'[l]
        PROVE  ApartNext(queue'[k][m], queue'[l][n])
    <3>1. \A x, y \in Key : x # y => \A i \in DOMAIN queue[x], j \in DOMAIN queue[y] :
            ApartNext(queue[x][i], queue[y][j])
      BY <1>0, AheadStays DEF LineInv
    <3>2. PICK x \in {k, Draft} :
            /\ x \in Key /\ (x = Draft => k = s)
            /\ \E i \in DOMAIN queue[x] : queue'[k][m] = queue[x][i]
      BY <2>1, <2>4
    <3>3. PICK y \in {l, Draft} :
            /\ y \in Key /\ (y = Draft => l = s)
            /\ \E j \in DOMAIN queue[y] : queue'[l][n] = queue[y][j]
      BY <2>1, <2>4
    <3>4. x # y
      <4>1. k # Draft /\ l # Draft
        BY <2>1
      <4> QED
        BY <2>5, <3>2, <3>3, <4>1
    <3> QED
      BY <3>1, <3>2, <3>3, <3>4
  <2>6. \A k \in Key : \A m \in DOMAIN sent', n \in DOMAIN queue'[k] :
          AheadNext(sent'[m].item, queue'[k][n])
    BY <1>0, <2>1, <2>4, AheadStays DEF LineInv
  <2>7. \A m, n \in DOMAIN sent' : m < n => AheadNext(sent'[m].item, sent'[n].item)
    BY <1>0, AheadStays DEF LineInv
  <2>8. LineInv'
    BY <1>0, <2>3, <2>5, <2>6, <2>7, LineNext
  <2> QED
    BY <1>0, <2>8 DEF AskedInv
<1> QED
  BY <1>1, <1>2

LEMMA LineStep ==
  ASSUME ComposerAssumption, TypeOK, LedgerInv, LineInv, AskedInv, Moves
  PROVE  LineInv' /\ AskedInv'
<1>0. /\ InFlight => job \in Send
      /\ dialog # NoDialog => dialog \in Send
  BY JobIsSend
<1>1. CASE Still
  BY <1>1, AheadStays, LineNext DEF Still, LineInv, AskedInv, Claimed, InFlight
<1>2. CASE Sends
  <2>1. Placed(job)
    BY <1>2, JobPlaced DEF Sends
  <2>2. LineInv'
    BY <1>0, <1>2, <2>1, RestoredLine, OnwardLine DEF Sends, Claimed
  <2>3. Claimed' => job'.item = job.item
    BY <1>2 DEF Sends, Restored, Onward, Claimed, InFlight
  <2> QED
    BY <1>2, <2>2, <2>3 DEF Sends, AskedInv
<1>3. CASE Asks
  <2>1. Placed(job)
    BY <1>3, JobPlaced DEF Asks
  <2>2. LineInv' /\ ~Claimed'
    BY <1>0, <1>3, <2>1, RestoredLine DEF Asks, Claimed, Restored, InFlight
  <2>3. ~job.q => \A m \in DOMAIN sent : sent[m].item # job.item
    <3>1. ~job.q => job.item \notin asked
      BY <1>3 DEF Asks, Claimed, LedgerInv, JobInv, Meant, PastInv
    <3>2. \A m \in DOMAIN sent : Apart(sent[m].item, job.item)
      BY <1>3 DEF Asks, LineInv, Ahead
    <3> QED
      BY <3>1, <3>2 DEF Apart
  <2> QED
    BY <1>3, <2>2, <2>3 DEF Asks, AskedInv
<1>4. CASE Closes
  BY <1>4, AheadStays, LineNext DEF Closes, LineInv, AskedInv, Claimed, InFlight
<1>5. CASE Starts
  <2>1. Placed(dialog)
    BY <1>5, DialogPlaced DEF Starts
  <2>2. LineInv'
    BY <1>0, <1>5, <2>1, RestoredLine, OnwardLine DEF Starts
  <2> QED
    BY <1>5, <2>2 DEF Starts, AskedInv
<1> QED
  BY <1>1, <1>2, <1>3, <1>4, <1>5, TakesLine, EndsLine, AddsLine, WritesLine,
     ClaimsLine, RemovesLine, DropsLine DEF Moves
------------------------------------------------------------------------------
(* What was queued stays somewhere.                                        *)

\* Leaving one queue is recorded.
LEMMA QueueStays ==
  ASSUME NEW k \in Key, \A l \in Key : l # k => queue'[l] = queue[l],
         gone' = gone \cup (ToSet(queue[k]) \ ToSet(queue'[k])),
         NEW i, i \notin gone', InQueue(i)
  PROVE  InQueue(i)'
<1>1. PICK l \in Key : \E n \in DOMAIN queue[l] : queue[l][n] = i
  BY DEF InQueue
<1>2. CASE l # k
  BY <1>1, <1>2 DEF InQueue
<1>3. CASE l = k
  <2>1. i \in ToSet(queue[k])
    BY <1>1, <1>3 DEF ToSet
  <2>2. i \in ToSet(queue'[k])
    BY <2>1
  <2> QED
    BY <2>2 DEF ToSet, InQueue
<1> QED
  BY <1>2, <1>3

LEMMA RestoredKept ==
  ASSUME ComposerAssumption, TypeOK, NEW j \in Send, Meant(j), Restored(j),
         NEW i \in queued, i \notin gone', InQueue(i) \/ i = j.item
  PROVE  InQueue(i)'
<1>0. j.target \in Key
  BY DEF Send
<1>1. CASE ~j.q
  <2>1. i # j.item
    BY <1>1 DEF Meant
  <2> QED
    BY <1>1, <2>1 DEF Restored, InQueue
<1>2. CASE j.q /\ i = j.item
  BY <1>0, <1>2, RestoredElements DEF InQueue
<1>3. CASE j.q /\ i # j.item
  <2>1. \A l \in Key : l # j.target => queue'[l] = queue[l]
    BY RestoredElements
  <2> QED
    BY <1>0, <1>3, <2>1, QueueStays DEF Restored
<1> QED
  BY <1>1, <1>2, <1>3 DEF Send

LEMMA KeptStep ==
  ASSUME ComposerAssumption, TypeOK, LedgerInv, KeptInv, Moves
  PROVE  KeptInv'
<1> SUFFICES ASSUME NEW i \in queued', i \notin gone'
             PROVE  Somewhere(i)'
  BY DEF KeptInv
<1>0. /\ queue \in [Key -> Seq(Item)]
      /\ i \in queued /\ i \notin gone => Somewhere(i)
      /\ InFlight => job \in Send /\ Meant(job)
      /\ dialog # NoDialog => dialog \in Send /\ Meant(dialog)
  BY JobIsSend DEF TypeOK, KeptInv, LedgerInv, JobInv, DialogInv
<1>1. CASE Still
  BY <1>0, <1>1 DEF Still, Somewhere, InQueue, Claimed, InFlight
<1>2. CASE Sends
  <2>1. i \in queued /\ sent' = sent /\ job \in Send /\ Meant(job) /\ i \notin gone
    BY <1>0, <1>2 DEF Sends, Claimed, Restored, Onward
  <2>2. CASE Restored(job)
    BY <1>0, <2>1, <2>2, RestoredKept DEF Somewhere
  <2>3. CASE Onward(job)
    <3>1. Claimed' /\ job'.item = job.item
      BY <2>3, JobIsSend DEF Onward, Claimed, InFlight, Send, NoJob
    <3> QED
      BY <1>0, <2>1, <2>3, <3>1 DEF Somewhere, InQueue, Onward
  <2> QED
    BY <1>2, <2>2, <2>3 DEF Sends
<1>3. CASE Asks
  <2>1. /\ i \in queued /\ sent' = sent /\ job \in Send /\ Meant(job) /\ i \notin gone
        /\ Restored(job)
    BY <1>0, <1>3 DEF Asks, Claimed, Restored
  <2> QED
    BY <1>0, <2>1, RestoredKept DEF Somewhere
<1>4. CASE Closes
  BY <1>0, <1>4 DEF Closes, Somewhere, InQueue, Claimed, InFlight
<1>5. CASE Starts
  <2>1. /\ i \in queued /\ sent' = sent /\ dialog \in Send /\ Meant(dialog) /\ i \notin gone
        /\ ~Claimed
    BY <1>0, <1>5 DEF Starts, Claimed, Restored, Onward
  <2>2. CASE Restored(dialog)
    BY <1>0, <2>1, <2>2, RestoredKept DEF Somewhere
  <2>3. CASE Onward(dialog)
    BY <1>0, <2>1, <2>3 DEF Somewhere, InQueue, Onward
  <2> QED
    BY <1>5, <2>2, <2>3 DEF Starts
<1>6. CASE Takes
  <2>1. i \in queued /\ i \notin gone /\ queue' = queue /\ sent \in Seq(Receipt)
    BY <1>6 DEF Takes, TypeOK
  <2>2. CASE InQueue(i)
    BY <2>1, <2>2 DEF InQueue, Somewhere
  <2>3. CASE \E n \in DOMAIN sent : sent[n].item = i
    <3>1. \A n \in DOMAIN sent : n \in DOMAIN sent' /\ sent'[n] = sent[n]
      BY <1>6, <2>1 DEF Takes
    <3> QED
      BY <2>3, <3>1 DEF Somewhere
  <2>4. CASE job.item = i
    <3> DEFINE x == [item |-> job.item, to |-> focus, sid |-> job.sid]
    <3>1. sent' = Append(sent, x) /\ x.item = i
      BY <1>6, <2>4 DEF Takes
    <3> HIDE DEF x
    <3>2. Len(sent) + 1 \in DOMAIN sent' /\ sent'[Len(sent) + 1] = x
      BY <2>1, <3>1
    <3> QED
      BY <3>1, <3>2 DEF Somewhere
  <2> QED
    BY <1>0, <2>1, <2>2, <2>3, <2>4 DEF Somewhere
<1>7. CASE Ends
  <2>1. i \in queued /\ i \notin gone /\ sent' = sent /\ ~Claimed
    BY <1>7 DEF Ends, Claimed
  <2>2. CASE InQueue(i)
    <3>1. PICK k \in Key : \E n \in DOMAIN queue[k] : queue[k][n] = i
      BY <2>2 DEF InQueue
    <3>2. CASE queue' = queue
      BY <3>1, <3>2 DEF InQueue, Somewhere
    <3>3. CASE queue' # queue
      <4> DEFINE a == queue[job.sid]
                 b == queue[Draft]
                 r == a \o b
      <4>1. /\ job.sid \in Key /\ job.sid # Draft /\ Draft \in Key
            /\ queue'[job.sid] = r
            /\ \A l \in Key : l \notin {job.sid, Draft} => queue'[l] = queue[l]
        BY <1>7, <3>3, EndsQueues
      <4>2. a \in Seq(Item) /\ b \in Seq(Item)
        BY <1>0, <4>1 DEF TypeOK
      <4> HIDE DEF a, b
      <4>3. /\ \A n \in DOMAIN a : n \in DOMAIN r /\ r[n] = a[n]
            /\ \A n \in DOMAIN b : n + Len(a) \in DOMAIN r /\ r[n + Len(a)] = b[n]
        BY <4>2
      <4> HIDE DEF r
      <4>4. CASE k \notin {job.sid, Draft}
        BY <3>1, <4>1, <4>4 DEF InQueue, Somewhere
      <4>5. CASE k = job.sid
        BY <3>1, <4>1, <4>3, <4>5 DEF InQueue, Somewhere, a
      <4>6. CASE k = Draft
        BY <3>1, <4>1, <4>3, <4>6 DEF InQueue, Somewhere, b
      <4> QED
        BY <4>4, <4>5, <4>6
    <3> QED
      BY <3>2, <3>3
  <2>3. CASE \E n \in DOMAIN sent : sent[n].item = i
    BY <2>1, <2>3 DEF Somewhere
  <2> QED
    BY <1>0, <2>1, <2>2, <2>3 DEF Somewhere
<1>8. CASE Adds
  <2>1. /\ queue' \in [Key -> Seq(Item)] /\ shown.id \in Key
        /\ \A k \in Key : k # shown.id => queue'[k] = queue[k]
        /\ Len(queue'[shown.id]) > 0
        /\ queue'[shown.id][Len(queue'[shown.id])] = Len(home) + 1
    BY <1>8, AddsElements
  <2>2. CASE i = Len(home) + 1
    <3>1. Len(queue'[shown.id]) \in DOMAIN queue'[shown.id]
      BY <2>1
    <3> QED
      BY <2>1, <2>2, <3>1 DEF InQueue, Somewhere
  <2>3. CASE i # Len(home) + 1
    <3>1. /\ i \in queued /\ i \notin gone /\ UNCHANGED <<job, sent>>
          /\ gone' = gone \cup (ToSet(queue[shown.id]) \ ToSet(queue'[shown.id]))
      BY <1>8, <2>3 DEF Adds
    <3>2. InQueue(i) => InQueue(i)'
      BY <2>1, <3>1, QueueStays
    <3> QED
      BY <1>0, <3>1, <3>2 DEF Somewhere, Claimed, InFlight
  <2> QED
    BY <2>2, <2>3
<1>9. CASE Writes
  BY <1>0, <1>9 DEF Writes, Somewhere, InQueue, Claimed, InFlight
<1>10. ASSUME NEW k \in Key, Claims(k)
       PROVE  Somewhere(i)'
  <2>1. /\ i \in queued /\ i \notin gone /\ sent' = sent /\ ~Claimed
        /\ queue' = [queue EXCEPT ![k] = Tail(queue[k])]
        /\ queue[k] \in Seq(Item) /\ queue[k] # <<>>
    BY <1>0, <1>10 DEF Claims, Claimed, TypeOK
  <2>2. Claimed' /\ job'.item = Head(queue[k])
    BY <1>10 DEF Claims, Claimed, InFlight, Job, NoJob
  <2>3. CASE InQueue(i)
    <3>1. PICK l \in Key : \E n \in DOMAIN queue[l] : queue[l][n] = i
      BY <2>3 DEF InQueue
    <3>2. PICK n \in DOMAIN queue[l] : queue[l][n] = i
      BY <3>1
    <3>3. CASE l # k
      BY <2>1, <3>2, <3>3 DEF Somewhere, InQueue, TypeOK
    <3>4. CASE l = k /\ n = 1
      BY <2>1, <2>2, <3>2, <3>4 DEF Somewhere
    <3>5. CASE l = k /\ n # 1
      <4>1. queue'[l] = Tail(queue[k])
        BY <2>1, <3>5 DEF TypeOK
      <4>2. n - 1 \in DOMAIN Tail(queue[k]) /\ Tail(queue[k])[n - 1] = queue[k][n]
        BY <2>1, <3>2, <3>5
      <4> QED
        BY <3>2, <3>5, <4>1, <4>2 DEF Somewhere, InQueue
    <3> QED
      BY <3>3, <3>4, <3>5
  <2> QED
    BY <1>0, <2>1, <2>3 DEF Somewhere
<1>11. ASSUME NEW k \in Key, NEW n \in DOMAIN queue[k], Removes(k, n)
       PROVE  Somewhere(i)'
  <2>1. /\ i \in queued /\ i \notin gone /\ UNCHANGED <<job, sent>> /\ i # queue[k][n]
        /\ queue[k] \in Seq(Item) /\ queue \in [Key -> Seq(Item)]
        /\ queue' = [queue EXCEPT ![k] = RemoveAt(queue[k], n)]
    BY <1>0, <1>11 DEF Removes, TypeOK
  <2>2. CASE InQueue(i)
    <3>1. PICK l \in Key : \E m \in DOMAIN queue[l] : queue[l][m] = i
      BY <2>2 DEF InQueue
    <3>2. PICK m \in DOMAIN queue[l] : queue[l][m] = i
      BY <3>1
    <3>3. CASE l # k
      BY <2>1, <3>2, <3>3 DEF Somewhere, InQueue
    <3>4. CASE l = k
      <4> DEFINE r == RemoveAt(queue[k], n)
      <4>1. /\ r \in Seq(Item) /\ Len(r) = Len(queue[k]) - 1
            /\ \A o \in 1 .. Len(queue[k]) - 1 : r[o] = queue[k][IF o < n THEN o ELSE o + 1]
        BY <2>1, RemovedOne
      <4>2. queue'[k] = r
        BY <2>1
      <4> HIDE DEF r
      <4>3. m # n /\ m \in 1 .. Len(queue[k]) /\ n \in 1 .. Len(queue[k])
        BY <2>1, <3>2, <3>4
      <4>4. \E o \in 1 .. Len(queue[k]) - 1 : r[o] = queue[k][m]
        <5>1. CASE m < n
          <6>1. m \in 1 .. Len(queue[k]) - 1
            BY <2>1, <4>3, <5>1
          <6> QED
            BY <4>1, <5>1, <6>1
        <5>2. CASE ~(m < n)
          <6>1. m - 1 \in 1 .. Len(queue[k]) - 1 /\ ~(m - 1 < n) /\ (m - 1) + 1 = m
            BY <2>1, <4>3, <5>2
          <6> QED
            BY <4>1, <6>1
        <5> QED
          BY <5>1, <5>2
      <4> QED
        BY <3>2, <3>4, <4>1, <4>2, <4>4 DEF Somewhere, InQueue
    <3> QED
      BY <3>3, <3>4
  <2> QED
    BY <1>0, <2>1, <2>2 DEF Somewhere, Claimed, InFlight
<1>12. ASSUME NEW D \in SUBSET Key, Drops(D)
       PROVE  Somewhere(i)'
  <2>1. /\ i \in queued /\ i \notin gone /\ UNCHANGED <<job, sent>>
        /\ \A k \in D : i \notin ToSet(queue[k])
        /\ \A k \in Key : k \notin D => queue'[k] = queue[k]
    BY <1>12 DEF Drops
  <2>2. InQueue(i) => InQueue(i)'
    BY <2>1 DEF InQueue, ToSet
  <2> QED
    BY <1>0, <2>1, <2>2 DEF Somewhere, Claimed, InFlight
<1> QED
  BY <1>1, <1>2, <1>3, <1>4, <1>5, <1>6, <1>7, <1>8, <1>9, <1>10, <1>11, <1>12 DEF Moves

------------------------------------------------------------------------------
(* The theorems.                                                           *)

IInv == TypeOK /\ CallInv /\ LedgerInv /\ LineInv /\ AskedInv /\ KeptInv

LEMMA InitInv == ASSUME ComposerAssumption, Init PROVE IInv
<1>1. /\ calls = {} /\ queue = [k \in Key |-> <<>>] /\ job = NoJob /\ dialog = NoDialog
      /\ home = <<>> /\ queued = {} /\ gone = {} /\ sent = <<>> /\ asked = {}
  BY DEF Init
<1>2. ~InFlight /\ ~Claimed /\ DOMAIN sent = {} /\ \A k \in Key : DOMAIN queue[k] = {}
  BY <1>1 DEF InFlight, Claimed
<1>3. CallInv /\ LineInv /\ AskedInv /\ KeptInv
  BY <1>1, <1>2 DEF CallInv, LineInv, AskedInv, KeptInv
<1>4. JobInv /\ DialogInv /\ QueueInv /\ PastInv
  BY <1>1, <1>2 DEF JobInv, DialogInv, QueueInv, PastInv
<1> QED
  BY <1>3, <1>4, InitTypes DEF IInv, LedgerInv

LEMMA InvStep == ASSUME ComposerAssumption, IInv, [Next]_vars PROVE IInv'
<1>1. Moves
  BY StepMoves DEF IInv
<1> QED
  BY <1>1, TypeStep, CallStep, LedgerStep, LineStep, KeptStep DEF IInv

LEMMA IInvAlways == ASSUME ComposerAssumption PROVE Spec => []IInv
<1>1. Init => IInv
  BY InitInv
<1>2. IInv /\ [Next]_vars => IInv'
  BY InvStep
<1> QED
  BY <1>1, <1>2, PTL DEF Spec

\* A message that did not go through the budget dialog is in one place, whatever
\* sessions, deletions, failed sends and answers come between.
THEOREM NothingTwice == ASSUME ComposerAssumption PROVE Spec => []OnePlace
<1>1. IInv => OnePlace
  <2> SUFFICES ASSUME IInv, NEW i \in Item \ asked, NEW p \in Places(i), NEW q \in Places(i)
               PROVE  p = q
    BY DEF OnePlace
  <2>1. p \in Waiting(i) \/ p \in Flying(i) \/ p \in Accepted(i)
    BY DEF Places
  <2>2. q \in Waiting(i) \/ q \in Flying(i) \/ q \in Accepted(i)
    BY DEF Places
  <2>3. \A x \in Waiting(i) : \E k \in Key : \E n \in DOMAIN queue[k] :
          queue[k][n] = i /\ x = <<"queue", k, n>>
    BY DEF Waiting
  <2>4. \A x \in Flying(i) : Claimed /\ job.item = i /\ x = <<"send", job.target, 0>>
    BY DEF Flying, Claimed
  <2>5. \A x \in Accepted(i) : \E n \in DOMAIN sent :
          sent[n].item = i /\ x = <<"session", sent[n].to, n>>
    BY DEF Accepted
  <2>6. /\ \A k \in Key : DOMAIN queue[k] \subseteq Nat
        /\ DOMAIN sent \subseteq Nat
    BY DEF IInv, TypeOK
  <2>7. \A x, y \in Waiting(i) : x = y
    <3> SUFFICES ASSUME NEW x \in Waiting(i), NEW y \in Waiting(i)
                 PROVE  x = y
      OBVIOUS
    <3>1. PICK k \in Key : \E n \in DOMAIN queue[k] : queue[k][n] = i /\ x = <<"queue", k, n>>
      BY <2>3
    <3>2. PICK n \in DOMAIN queue[k] : queue[k][n] = i /\ x = <<"queue", k, n>>
      BY <3>1
    <3>3. PICK l \in Key : \E m \in DOMAIN queue[l] : queue[l][m] = i /\ y = <<"queue", l, m>>
      BY <2>3
    <3>4. PICK m \in DOMAIN queue[l] : queue[l][m] = i /\ y = <<"queue", l, m>>
      BY <3>3
    <3>5. k = l
      BY <3>2, <3>4 DEF IInv, LineInv, Apart
    <3>6. n \in Nat /\ m \in Nat
      BY <2>6
    <3>7. ~(n < m) /\ ~(m < n)
      BY <3>2, <3>4, <3>5 DEF IInv, LineInv, Ahead, Apart
    <3> QED
      BY <3>2, <3>4, <3>5, <3>6, <3>7
  <2>8. \A x, y \in Accepted(i) : x = y
    <3> SUFFICES ASSUME NEW x \in Accepted(i), NEW y \in Accepted(i)
                 PROVE  x = y
      OBVIOUS
    <3>1. PICK n \in DOMAIN sent : sent[n].item = i /\ x = <<"session", sent[n].to, n>>
      BY <2>5
    <3>2. PICK m \in DOMAIN sent : sent[m].item = i /\ y = <<"session", sent[m].to, m>>
      BY <2>5
    <3>3. n \in Nat /\ m \in Nat
      BY <2>6
    <3>4. ~(n < m) /\ ~(m < n)
      BY <3>1, <3>2 DEF IInv, LineInv, Ahead, Apart
    <3>5. n = m
      BY <3>3, <3>4
    <3> QED
      BY <3>1, <3>2, <3>5
  <2>9. /\ Waiting(i) = {} \/ Flying(i) = {}
        /\ Waiting(i) = {} \/ Accepted(i) = {}
        /\ Flying(i) = {} \/ Accepted(i) = {}
    <3>1. Waiting(i) # {} => \E k \in Key : \E n \in DOMAIN queue[k] : queue[k][n] = i
      BY <2>3
    <3>2. Flying(i) # {} => Claimed /\ job.item = i
      BY <2>4
    <3>3. Accepted(i) # {} => \E n \in DOMAIN sent : sent[n].item = i
      BY <2>5
    <3> QED
      BY <3>1, <3>2, <3>3 DEF IInv, LineInv, Ahead, Apart
  <2> QED
    BY <2>1, <2>2, <2>4, <2>7, <2>8, <2>9
<1> QED
  BY <1>1, IInvAlways, PTL

\* A queued message that was not dropped, removed or given up with its session
\* is in a queue, in flight or accepted: no failed send, requeue or migration
\* loses it.
THEOREM NothingLost == ASSUME ComposerAssumption PROVE Spec => []QueuedKept
<1>1. IInv => QueuedKept
  <2> SUFFICES ASSUME IInv, NEW i \in queued \ gone
               PROVE  Places(i) # {}
    BY DEF QueuedKept
  <2>1. Somewhere(i)
    BY DEF IInv, KeptInv
  <2>2. InQueue(i) => Waiting(i) # {}
    <3> SUFFICES ASSUME NEW k \in Key, NEW n \in DOMAIN queue[k], queue[k][n] = i
                 PROVE  Waiting(i) # {}
      BY DEF InQueue
    <3>1. <<"queue", k, n>> \in Waiting(i)
      BY DEF Waiting
    <3> QED
      BY <3>1
  <2>3. Claimed /\ job.item = i => Flying(i) # {}
    BY DEF Flying, Claimed
  <2>4. (\E n \in DOMAIN sent : sent[n].item = i) => Accepted(i) # {}
    BY DEF Accepted
  <2> QED
    BY <2>1, <2>2, <2>3, <2>4 DEF Somewhere, Places
<1> QED
  BY <1>1, IInvAlways, PTL

\* A follow-up written in a session waits in that session's queue and is
\* submitted for that session.
THEOREM NothingAstray == ASSUME ComposerAssumption PROVE Spec => []OwnSession
<1>1. ComposerAssumption /\ IInv => OwnSession
  <2> SUFFICES ASSUME ComposerAssumption, IInv, NEW i \in queued, home[i] \in Session
               PROVE  /\ \A p \in Waiting(i) : p[2] = home[i]
                      /\ InFlight /\ job.item = i /\ job.sid # Draft => job.sid = home[i]
    BY DEF OwnSession
  <2>0. home[i] # Draft
    BY DEF ComposerAssumption
  <2>1. ASSUME NEW p \in Waiting(i)
        PROVE  p[2] = home[i]
    <3>1. PICK k \in Key : \E n \in DOMAIN queue[k] : queue[k][n] = i /\ p = <<"queue", k, n>>
      BY DEF Waiting
    <3>2. home[i] \in {k, Draft}
      BY <3>1 DEF IInv, LedgerInv, QueueInv
    <3> QED
      BY <2>0, <3>1, <3>2
  <2>2. ASSUME InFlight, job.item = i, job.sid # Draft
        PROVE  job.sid = home[i]
    <3>1. Meant(job)
      BY <2>2 DEF IInv, LedgerInv, JobInv
    <3> QED
      BY <2>0, <2>2, <3>1 DEF Meant
  <2> QED
    BY <2>1, <2>2
<1> QED
  BY <1>1, IInvAlways, PTL

\* The follow-ups written in one session are accepted in the order of writing.
THEOREM NothingOvertakes == ASSUME ComposerAssumption PROVE Spec => []FollowUpsInOrder
<1>1. IInv => FollowUpsInOrder
  <2> SUFFICES ASSUME IInv, NEW m \in DOMAIN sent, NEW n \in DOMAIN sent, m < n,
                      {sent[m].item, sent[n].item} \subseteq queued \ asked,
                      home[sent[m].item] = home[sent[n].item], home[sent[n].item] # Draft
               PROVE  sent[m].item < sent[n].item
    BY DEF FollowUpsInOrder
  <2>1. Ahead(sent[m].item, sent[n].item)
    BY DEF IInv, LineInv
  <2> QED
    BY <2>1 DEF Ahead, InOrder
<1> QED
  BY <1>1, IInvAlways, PTL
=============================================================================
