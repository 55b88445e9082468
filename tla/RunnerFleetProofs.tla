------------------------- MODULE RunnerFleetProofs --------------------------
(***************************************************************************)
(* Theorems about RunnerFleet, for every number of copies, containers and  *)
(* sockets and every budget of claims and faults.                          *)
(***************************************************************************)
EXTENDS RunnerFleet, FiniteSetTheorems, SequenceTheorems, TLAPS

-----------------------------------------------------------------------------
(***************************************************************************)
(* Types of the operators the actions are built from.                      *)
(***************************************************************************)
\* 0 is no copy, container or socket.
LEMMA Numbers ==
    /\ Copies \in Nat /\ MaxContainers \in Nat /\ MaxSockets \in Nat /\ MaxReports \in Nat
    /\ 0 \notin Copy /\ 0 \notin Container /\ 0 \notin Socket
  BY FleetAssumption DEF Copy, Container, Socket

LEMMA SpendType ==
    ASSUME TypeOK, NEW b \in Budget, Spend(b)
    PROVE  budget' \in [Budget -> Nat]
  <1>1. budget[b] \in Nat /\ budget[b] > 0 /\ budget' = [budget EXCEPT ![b] = budget[b] - 1]
    BY DEF TypeOK, Spend
  <1>2. budget[b] - 1 \in Nat
    BY <1>1
  <1> QED BY <1>1, <1>2 DEF TypeOK

LEMMA CallsType ==
    ASSUME TypeOK, NEW c, Calls(c)
    PROVE  heard' \in [Copy -> {"live", "stale", "retired"}]
  BY DEF TypeOK, Calls

\* What a field of a copy's memory, of a socket and of a container may become.
LEMMA MindField ==
    ASSUME NEW r \in Mind
    PROVE  /\ \A j \in Job : [r EXCEPT !.job = j] \in Mind
           /\ \A x \in {"none", "start", "stop"} : [r EXCEPT !.next = x] \in Mind
           /\ \A s \in Seq(Report) : [r EXCEPT !.chain = s] \in Mind
           /\ \A e \in SUBSET Report : [r EXCEPT !.aside = e] \in Mind
           /\ \A n \in Container \cup {0} : [r EXCEPT !.watch = n] \in Mind
           /\ \A p \in Read : \A b \in BOOLEAN : [r EXCEPT !.reading = b, !.pass = p] \in Mind
           /\ \A w \in SUBSET {"start", "report"} : [r EXCEPT !.late = w] \in Mind
           /\ \A b \in BOOLEAN : [r EXCEPT !.missed = b] \in Mind
           /\ \A S \in SUBSET Container : [r EXCEPT !.dead = S] \in Mind /\ [r EXCEPT !.stray = S] \in Mind
  BY DEF Mind

LEMMA SockField ==
    ASSUME NEW s \in Sock
    PROVE  /\ \A at \in {"asking", "open", "closing", "closed", "refused"} : [s EXCEPT !.at = at] \in Sock
           /\ \A b \in BOOLEAN : [s EXCEPT !.owed = b] \in Sock
  BY DEF Sock

LEMMA BoxField ==
    ASSUME NEW b \in Box
    PROVE  /\ \A at \in {"up", "dead", "gone"} : [b EXCEPT !.at = at] \in Box
           /\ [b EXCEPT !.session = TRUE] \in Box /\ [b EXCEPT !.told = TRUE] \in Box
  BY DEF Box

LEMMA TellsType ==
    ASSUME NEW m \in [Copy -> Mind], NEW c \in Copy, NEW e \in Report
    PROVE  Tells(m, c, e) \in [Copy -> Mind]
  <1> DEFINE told == [step |-> "tell", of |-> 0]
  <1>1. Append(m[c].chain, e) \in Seq(Report) /\ told \in Job
    BY DEF Mind, Job
  <1>2. [m[c] EXCEPT !.job = told, !.chain = Append(m[c].chain, e)] \in Mind
    BY ZenonT(40), <1>1 DEF Mind
  <1> QED BY <1>2 DEF Tells

LEMMA WatchingType ==
    ASSUME TypeOK, NEW m \in [Copy -> Mind], NEW ns
    PROVE  Watching(m, ns) \in [Copy -> Mind]
  <1>1. \A k \in Socket : sock[k].of \in Container \cup {0}
    BY DEF TypeOK, Sock
  <1>2. \A c \in Copy : Watches(c, ns) \subseteq Container \cup {0}
    BY <1>1 DEF Watches
  <1>3. \A c \in Copy : Watches(c, ns) # {} =>
                          (CHOOSE n \in Watches(c, ns) : TRUE) \in Container \cup {0}
    BY <1>2
  <1> QED BY <1>3, MindField DEF Watching

LEMMA LeavesType ==
    ASSUME TypeOK, NEW ns, NEW at \in {"dead", "gone"}, Leaves(ns, at)
    PROVE  box' \in [Container -> Box] /\ sock' \in [Socket -> Sock]
  BY BoxField, SockField DEF TypeOK, Leaves, Ended

LEMMA OvertakesType ==
    ASSUME TypeOK, NEW c \in Copy
    PROVE  Overtakes(c) \in [Copy -> Mind]
  <1>1. \A d \in Copy : mind[d].late \cup inHand(d) \in SUBSET {"start", "report"}
    BY DEF TypeOK, Mind, inHand
  <1> QED BY <1>1, MindField DEF TypeOK, Overtakes

LEMMA TurnType ==
    ASSUME TypeOK, NEW c \in Copy, NEW s \in {"idle", "tell"} \cup Starting \cup Stopping,
           NEW n \in Container \cup {0}
    PROVE  Turn(c, s, n) \in [Copy -> Mind]
  <1>1. [step |-> s, of |-> n] \in Job
    BY DEF Job
  <1> QED BY <1>1, MindField DEF Turn, TypeOK

\* The containers that memories and sockets name.
LEMMA NamesType ==
    ASSUME TypeOK
    PROVE  /\ \A c \in Copy : /\ mind[c] \in Mind /\ mind[c].job \in Job
                              /\ mind[c].job.of \in Container \cup {0}
                              /\ mind[c].chain \in Seq(Report)
                              /\ mind[c].watch \in Container \cup {0}
                              /\ mind[c].pass \in Read /\ mind[c].pass.ref \in Container \cup {0}
                              /\ mind[c].aside \subseteq Report
                              /\ mind[c].dead \subseteq Container
                              /\ mind[c].stray \subseteq Container
           /\ \A k \in Socket : /\ sock[k] \in Sock
                                /\ sock[k].of \in Container \cup {0}
                                /\ sock[k].on \in Copy \cup {0}
           /\ Listed \subseteq Container
  BY DEF TypeOK, Mind, Job, Read, Sock, Listed

LEMMA SaysType ==
    ASSUME NEW kind \in {"ready", "starting", "stopped", "failed"},
           NEW n \in Container \cup {0}, NEW k \in Container \cup {0}
    PROVE  SaysOf(kind, n, k) \in Report
  BY DEF SaysOf, Report

LEMMA RowWrites ==
    ASSUME TypeOK
    PROVE  /\ \A c \in Copy : claimStart(c) \in Row /\ claimStop(c) \in Row
           /\ \A n \in Container \cup {0} : recordSpawn(n) \in Row /\ [row EXCEPT !.ref = n] \in Row
           /\ \A c \in Copy : \A e \in Report : applyRunnerEvent(c, e) \in Row
           /\ \A x \in Status : [row EXCEPT !.status = x] \in Row
           /\ [row EXCEPT !.conn = 0] \in Row
           /\ \A c \in Copy \cup {0}, k \in Socket : [row EXCEPT !.token = 0, !.holder = c, !.conn = k] \in Row
  <1>1. row \in Row
    BY DEF TypeOK
  <1>2. \A e \in Report : (IF e.kind = "ready" THEN "running" ELSE e.kind) \in Status
    BY DEF Report, Status
  <1>3. \A x \in Status : [row EXCEPT !.status = x] \in Row
    BY <1>1 DEF Row
  <1>4. \A c \in Copy : \A e \in Report : applyRunnerEvent(c, e) \in Row
    BY <1>1, <1>2, <1>3 DEF applyRunnerEvent
  <1>5. \A c \in Copy : claimStart(c) \in Row /\ claimStop(c) \in Row
    BY <1>1 DEF Row, claimStart, claimStop, Status
  <1>6. \A n \in Container \cup {0} : recordSpawn(n) \in Row /\ [row EXCEPT !.ref = n] \in Row
    BY <1>1 DEF Row, recordSpawn
  <1>7. /\ [row EXCEPT !.conn = 0] \in Row
        /\ \A c \in Copy \cup {0}, k \in Socket : [row EXCEPT !.token = 0, !.holder = c, !.conn = k] \in Row
    BY <1>1 DEF Row
  <1> QED BY <1>3, <1>4, <1>5, <1>6, <1>7

\* The ledger's writes.
LEMMA LedgerWrites ==
    ASSUME TypeOK
    PROVE  /\ closeRuntimeInterval \in [Container -> {"none", "open", "closed"}]
           /\ \A n \in Container : openRuntimeInterval(n) \in [Container -> {"none", "open", "closed"}]
           /\ \A c, e : closedBy(c, e) \in [Container -> {"none", "open", "closed"}]
  BY DEF TypeOK, closeRuntimeInterval, openRuntimeInterval, closedBy

-----------------------------------------------------------------------------
(***************************************************************************)
(* Type correctness, one lemma per group of actions.                       *)
(***************************************************************************)
LEMMA TypeInit == Init => TypeOK
  <1> SUFFICES ASSUME Init PROVE TypeOK
    OBVIOUS
  <1> DEFINE warm == budget["warm"] > 0
             one == IF warm THEN 1 ELSE 0
  <1>1. one \in {0, 1} /\ 1 \in Copy /\ 1 \in Container /\ 1 \in Socket
    BY FleetAssumption DEF Copy, Container, Socket
  <1>2. one \in Copy \cup {0} /\ one \in Container \cup {0} /\ one \in Socket \cup {0}
    BY <1>1
  <1>3. /\ row = [status |-> IF warm THEN "running" ELSE "unprovisioned", owner |-> one,
                  ref |-> one, token |-> 0, holder |-> one, conn |-> one]
        /\ box = [n \in Container |-> [at |-> IF n = one THEN "up" ELSE "none",
                                       session |-> n = one, told |-> n = one]]
        /\ sock = [k \in Socket |-> [at |-> IF k = one THEN "open" ELSE "none",
                                     of |-> IF k = one THEN one ELSE 0,
                                     on |-> IF k = one THEN one ELSE 0, owed |-> FALSE]]
        /\ ledger = [n \in Container |-> IF n = one THEN "open" ELSE "none"]
    BY DEF Init
  <1>4. row \in Row
    <2> HIDE DEF warm, one
    <2> QED BY <1>2, <1>3 DEF Row, Status
  <1>5. box \in [Container -> Box]
    <2> HIDE DEF warm, one
    <2>1. \A n \in Container : (n = one) \in BOOLEAN
      OBVIOUS
    <2> QED BY <1>3, <2>1 DEF Box
  <1>6. sock \in [Socket -> Sock]
    <2> HIDE DEF warm, one
    <2> QED BY <1>2, <1>3 DEF Sock
  <1>7. Fresh \in Mind
    BY DEF Fresh, Mind, Idle, Job, NotReading, Read, Status
  <1>8. ledger \in [Container -> {"none", "open", "closed"}]
    BY <1>3
  <1>9. budget \in [Budget -> Nat]
    BY FleetAssumption DEF Init
  <1> QED BY <1>4, <1>5, <1>6, <1>7, <1>8, <1>9 DEF Init, TypeOK

\* The claims, and a respawn.
LEMMA TypeClaims ==
    ASSUME TypeOK, NEW c \in Copy,
           ClaimStart(c) \/ ClaimRefused(c) \/ ClaimStop(c) \/ Respawn
    PROVE  TypeOK'
  <1>1. Overtakes(c) \in [Copy -> Mind]
    BY OvertakesType
  <1>2. \A x \in {"none", "start", "stop"} : [Overtakes(c) EXCEPT ![c].next = x] \in [Copy -> Mind]
    BY <1>1, MindField
  <1>3. CASE ClaimStart(c)
    <2>1. row' \in Row /\ mind' \in [Copy -> Mind]
      BY <1>1, <1>2, <1>3, RowWrites DEF ClaimStart, Enqueue, Absorb
    <2>2. budget' \in [Budget -> Nat] /\ heard' \in [Copy -> {"live", "stale", "retired"}]
      BY <1>3, SpendType, CallsType DEF ClaimStart, Budget
    <2> QED BY <1>3, <2>1, <2>2 DEF ClaimStart, TypeOK
  <1>4. CASE ClaimRefused(c)
    <2>1. claimStart(c) \in Row
      BY RowWrites
    <2>2. row' \in Row
      <3>1. PICK s \in {"unprovisioned", "failed"} : row' = [claimStart(c) EXCEPT !.status = s]
        BY <1>4 DEF ClaimRefused
      <3> QED BY <2>1, <3>1 DEF Row, Status
    <2>3. budget' \in [Budget -> Nat] /\ heard' \in [Copy -> {"live", "stale", "retired"}]
      BY <1>4, SpendType, CallsType DEF ClaimRefused, Budget
    <2> QED BY <1>1, <1>4, <2>2, <2>3 DEF ClaimRefused, TypeOK
  <1>5. CASE ClaimStop(c)
    <2>1. row' \in Row /\ mind' \in [Copy -> Mind]
      BY <1>2, <1>5, RowWrites DEF ClaimStop, Enqueue
    <2>2. budget' \in [Budget -> Nat] /\ heard' \in [Copy -> {"live", "stale", "retired"}]
      BY <1>5, SpendType, CallsType DEF ClaimStop, Budget
    <2> QED BY <1>5, <2>1, <2>2 DEF ClaimStop, TypeOK
  <1>6. CASE Respawn
    <2>1. row' \in Row /\ ledger' \in [Container -> {"none", "open", "closed"}]
      BY <1>6, RowWrites, LedgerWrites DEF Respawn, Status
    <2>2. budget' \in [Budget -> Nat]
      BY <1>6, SpendType DEF Respawn, Budget
    <2> QED BY <1>6, <2>1, <2>2 DEF Respawn, TypeOK
  <1> QED BY <1>3, <1>4, <1>5, <1>6

\* The steps of a start and of a stop.
LEMMA TypeStart ==
    ASSUME TypeOK, NEW c \in Copy, NextJob(c) \/ Start(c)
    PROVE  TypeOK'
  <1> USE DEF Starting, Stopping
  <1>0. mind \in [Copy -> Mind] /\ mind[c].job.of \in Container \cup {0}
    BY NamesType DEF TypeOK
  <1>1. \A n \in Container \cup {0} : /\ Turn(c, "create", 0) \in [Copy -> Mind]
                                     /\ Turn(c, "replace", n) \in [Copy -> Mind]
                                     /\ Turn(c, "record", n) \in [Copy -> Mind]
                                     /\ Turn(c, "boot", n) \in [Copy -> Mind]
                                     /\ Turn(c, "leave", n) \in [Copy -> Mind]
                                     /\ Turn(c, "undo", n) \in [Copy -> Mind]
                                     /\ Turn(c, "idle", 0) \in [Copy -> Mind]
    BY TurnType
  <1>2. \A n \in Container \cup {0} : /\ SaysOf("failed", 0, 0) \in Report
                                     /\ SaysOf("starting", n, 0) \in Report
    BY SaysType
  <1>3. \A n \in Container \cup {0} : /\ Tells(mind, c, SaysOf("failed", 0, 0)) \in [Copy -> Mind]
                                     /\ Tells(mind, c, SaysOf("starting", n, 0)) \in [Copy -> Mind]
    BY <1>0, <1>2, TellsType
  <1>4. CASE NextJob(c)
    <2>1. [step |-> IF mind[c].next = "start" THEN "list" ELSE "look", of |-> 0] \in Job
      BY DEF Job
    <2>2. [mind[c] EXCEPT !.next = "none",
                          !.job = [step |-> IF mind[c].next = "start" THEN "list" ELSE "look",
                                   of |-> 0]] \in Mind
      BY ZenonT(40), <1>0, <2>1 DEF Mind
    <2> QED BY <1>0, <1>4, <2>2 DEF NextJob, TypeOK
  <1>5. CASE ListExisting(c)
    <2>1. \A n \in Listed : Turn(c, "replace", n) \in [Copy -> Mind]
      BY <1>1 DEF Listed
    <2>2. mind' \in [Copy -> Mind]
      BY <1>1, <1>5, <2>1 DEF ListExisting
    <2> QED BY <1>5, <2>2 DEF ListExisting, TypeOK
  <1>6. CASE ReplaceExisting(c)
    BY <1>1, <1>6, WatchingType, LeavesType DEF ReplaceExisting, TypeOK
  <1>7. CASE CreateContainer(c)
    <2>1. PICK n \in Container : /\ box' = [box EXCEPT ![n].at = "up"]
                                 /\ mind' = Turn(c, "record", n)
      BY <1>7 DEF CreateContainer
    <2>2. box' \in [Container -> Box]
      BY <2>1, BoxField DEF TypeOK
    <2>3. mind' \in [Copy -> Mind]
      BY <1>1, <2>1
    <2> QED BY <1>7, <2>2, <2>3 DEF CreateContainer, TypeOK
  <1>8. CASE RecordSpawn(c)
    <2>1. row' \in Row
      BY <1>0, <1>8, RowWrites DEF RecordSpawn, TypeOK
    <2>2. mind' \in [Copy -> Mind]
      BY <1>0, <1>1, <1>8 DEF RecordSpawn
    <2> QED BY <1>8, <2>1, <2>2, CallsType DEF RecordSpawn, TypeOK
  <1>9. CASE SpawnUnanswered(c)
    <2>1. row' \in Row
      BY <1>0, <1>9, RowWrites DEF SpawnUnanswered, TypeOK
    <2>2. budget' \in [Budget -> Nat]
      BY <1>9, SpendType DEF SpawnUnanswered, Budget
    <2> QED BY <1>0, <1>1, <1>9, <2>1, <2>2 DEF SpawnUnanswered, TypeOK
  <1>10. CASE RemoveQuietly(c)
    <2> DEFINE after == IF mind[c].job.step = "undo" THEN Tells(mind, c, SaysOf("failed", 0, 0))
                                                     ELSE Turn(c, "idle", 0)
    <2>1. after \in [Copy -> Mind]
      BY <1>1, <1>3
    <2>2. CASE Leaves({mind[c].job.of}, "gone") /\ mind' = Watching(after, {mind[c].job.of})
               /\ UNCHANGED budget
      BY <1>10, <2>1, <2>2, WatchingType, LeavesType DEF RemoveQuietly, TypeOK
    <2>3. CASE Spend("failures") /\ mind' = after /\ UNCHANGED <<box, sock>>
      BY <1>10, <2>1, <2>3, SpendType DEF RemoveQuietly, TypeOK, Budget
    <2> QED BY <1>10, <2>2, <2>3 DEF RemoveQuietly
  <1>11. CASE BootContainer(c)
    BY <1>0, <1>3, <1>11 DEF BootContainer, TypeOK
  <1>12. CASE StartFails(c)
    <2> DEFINE n == mind[c].job.of
               failed == Tells(mind, c, SaysOf("failed", 0, 0))
    <2>1. budget' \in [Budget -> Nat]
      BY <1>12, SpendType DEF StartFails, TypeOK, Budget
    <2>2. failed \in [Copy -> Mind] /\ Watching(failed, {n}) \in [Copy -> Mind]
      BY <1>3, WatchingType
    <2>3. mind' \in [Copy -> Mind]
      BY <1>12, <2>2 DEF StartFails, EndedBy
    <2>4. box' \in [Container -> Box] /\ sock' \in [Socket -> Sock]
      BY <1>12, LeavesType DEF StartFails, MayEnd, TypeOK
    <2> QED BY <1>12, <2>1, <2>3, <2>4 DEF StartFails, TypeOK
  <1> QED
    BY <1>4, <1>5, <1>6, <1>7, <1>8, <1>9, <1>10, <1>11, <1>12 DEF Start

LEMMA TypeStop ==
    ASSUME TypeOK, NEW c \in Copy, Stop(c)
    PROVE  TypeOK'
  <1> USE DEF Starting, Stopping
  <1>0. mind \in [Copy -> Mind] /\ mind[c].job.of \in Container \cup {0}
    BY NamesType DEF TypeOK
  <1>1. \A n \in Container \cup {0} : Tells(mind, c, SaysOf("stopped", 0, n)) \in [Copy -> Mind]
    BY <1>0, SaysType, TellsType
  <1>2. Tells(mind, c, SaysOf("failed", 0, 0)) \in [Copy -> Mind]
    BY <1>0, SaysType, TellsType
  <1>3. CASE LookForContainer(c)
    <2>1. \A n \in Listed : Turn(c, "stop", n) \in [Copy -> Mind]
      BY TurnType, NamesType
    <2> QED BY <1>1, <1>3, <2>1 DEF LookForContainer, TypeOK
  <1>4. CASE StopContainer(c)
    BY <1>1, <1>4, WatchingType, LeavesType DEF StopContainer, TypeOK
  <1>5. CASE SweepStray(c)
    BY <1>0, <1>1, <1>5, WatchingType, LeavesType DEF SweepStray, TypeOK
  <1>6. CASE StopFails(c)
    <2> DEFINE job == mind[c].job
               after == IF job.step = "sweep"
                        THEN [mind EXCEPT ![c].stray = @ \ {job.of}, ![c].job = Idle]
                        ELSE Tells(mind, c, SaysOf("failed", 0, 0))
    <2>1. budget' \in [Budget -> Nat]
      BY <1>6, SpendType DEF StopFails, Budget
    <2>2. [mind[c] EXCEPT !.stray = @ \ {job.of}, !.job = Idle] \in Mind
      <3>1. Idle \in Job /\ mind[c].stray \ {job.of} \in SUBSET Container
        BY NamesType DEF Job, Idle
      <3> QED BY ZenonT(40), <1>0, <3>1 DEF Mind
    <2>3. after \in [Copy -> Mind] /\ Watching(after, {job.of}) \in [Copy -> Mind]
      BY <1>0, <1>2, <2>2, WatchingType
    <2>4. mind' \in [Copy -> Mind]
      BY <1>6, <2>3 DEF StopFails, EndedBy
    <2>5. box' \in [Container -> Box] /\ sock' \in [Socket -> Sock]
      BY <1>6, LeavesType DEF StopFails, MayEnd, TypeOK
    <2> QED BY <1>6, <2>1, <2>4, <2>5 DEF StopFails, TypeOK
  <1> QED BY <1>3, <1>4, <1>5, <1>6 DEF Stop

\* The reports.
LEMMA TypeReports ==
    ASSUME TypeOK, NEW c \in Copy,
           PostRef(c) \/ PostReport(c) \/ Heartbeat(c) \/ PostAside(c) \/ ReportLost(c)
    PROVE  TypeOK'
  <1>0. mind \in [Copy -> Mind] /\ mind[c] \in Mind /\ mind[c].chain \in Seq(Report)
    BY NamesType DEF TypeOK
  <1>1. mind[c].chain # << >> => Head(mind[c].chain) \in Report
    BY <1>0
  <1>2. mind[c].chain # << >> => Posted(c) \in [Copy -> Mind]
    <2>1. SUFFICES ASSUME mind[c].chain # << >> PROVE Posted(c) \in [Copy -> Mind]
      OBVIOUS
    <2>2. /\ Tail(mind[c].chain) \in Seq(Report)
          /\ (IF Head(mind[c].chain).kind = "ready" THEN mind[c].job ELSE Idle) \in Job
      BY <1>0, <2>1, NamesType DEF Job, Idle
    <2>3. [mind[c] EXCEPT !.chain = Tail(mind[c].chain),
                          !.job = IF Head(mind[c].chain).kind = "ready" THEN mind[c].job ELSE Idle] \in Mind
      BY <1>0, <2>2 DEF Mind
    <2> QED BY <1>0, <2>3 DEF Posted
  <1>3. \A e : [mind EXCEPT ![c].aside = @ \ {e}] \in [Copy -> Mind]
    <2>1. \A e : mind[c].aside \ {e} \in SUBSET Report
      BY NamesType
    <2> QED BY <1>0, <2>1, MindField
  <1>4. CASE PostRef(c)
    <2> DEFINE n == Head(mind[c].chain).ref
    <2>1. n \in Container
      BY <1>1, <1>4 DEF PostRef, Report
    <2>2. row' \in Row /\ ledger' \in [Container -> {"none", "open", "closed"}]
      <3>1. [row EXCEPT !.ref = n] \in Row /\ openRuntimeInterval(n) \in [Container -> {"none", "open", "closed"}]
        BY <2>1, RowWrites, LedgerWrites
      <3> QED BY <1>4, <3>1 DEF PostRef, TypeOK
    <2>3. mind' \in [Copy -> Mind]
      <3>1. 1 \in DOMAIN mind[c].chain
        BY <1>0, <1>4 DEF PostRef
      <3>2. [mind[c].chain[1] EXCEPT !.ref = 0] \in Report
        <4>1. mind[c].chain[1] \in Report
          BY <1>0, <3>1
        <4> QED BY <4>1 DEF Report
      <3>3. [mind[c].chain EXCEPT ![1] = [mind[c].chain[1] EXCEPT !.ref = 0]] \in Seq(Report)
        BY <1>0, <3>1, <3>2, ExceptSeq
      <3> QED BY <1>0, <1>4, <3>3, MindField DEF PostRef
    <2> QED BY <1>4, <2>2, <2>3, CallsType DEF PostRef, TypeOK
  <1>5. CASE PostReport(c)
    <2>1. row' \in Row /\ ledger' \in [Container -> {"none", "open", "closed"}]
      BY <1>1, <1>5, RowWrites, LedgerWrites DEF PostReport
    <2> QED BY <1>2, <1>5, <2>1, CallsType DEF PostReport, TypeOK
  <1>6. CASE Heartbeat(c)
    <2>1. SaysOf("starting", 0, 0) \in Report
      BY SaysType
    <2> QED BY <1>6, <2>1, RowWrites, CallsType DEF Heartbeat, TypeOK
  <1>7. CASE PostAside(c)
    <2>1. PICK e \in mind[c].aside : /\ row' = applyRunnerEvent(c, e)
                                     /\ ledger' = closedBy(c, e)
                                     /\ mind' = [mind EXCEPT ![c].aside = @ \ {e}]
      BY <1>7 DEF PostAside
    <2>2. e \in Report
      BY <2>1, NamesType
    <2>3. row' \in Row /\ ledger' \in [Container -> {"none", "open", "closed"}]
      BY <2>1, <2>2, RowWrites, LedgerWrites
    <2> QED BY <1>3, <1>7, <2>1, <2>3, CallsType DEF PostAside, TypeOK
  <1>8. CASE ReportLost(c)
    <2>1. mind' \in [Copy -> Mind]
      BY <1>2, <1>3, <1>8 DEF ReportLost
    <2> QED BY <1>8, <2>1, SpendType DEF ReportLost, TypeOK, Budget
  <1> QED BY <1>4, <1>5, <1>6, <1>7, <1>8

LEMMA AttachedType ==
    ASSUME TypeOK, NEW k \in Socket, NEW owed \in BOOLEAN
    PROVE  /\ Attached(k, owed) \in [Socket -> Sock]
           /\ Attached(k, owed)[k].on = sock[k].on
           /\ LooksAfter(k) \in [Copy -> Mind]
  <1>1. sock[k] \in Sock
    BY DEF TypeOK
  <1>2. [sock[k] EXCEPT !.at = IF lasts(k) THEN "open" ELSE "closing", !.owed = owed] \in Sock
    BY <1>1 DEF Sock
  <1>3. \A j \in Socket : [sock[j] EXCEPT !.at = "closing"] \in Sock
    BY SockField DEF TypeOK
  <1>4. sock[k].of \in Container \cup {0} /\ sock \in [Socket -> Sock] /\ mind \in [Copy -> Mind]
    BY NamesType DEF TypeOK
  <1>5. Attached(k, owed) \in [Socket -> Sock]
    BY <1>2, <1>3, <1>4 DEF Attached
  <1>6. Attached(k, owed)[k].on = sock[k].on
    BY <1>1 DEF Attached, Sock
  <1>7. LooksAfter(k) \in [Copy -> Mind]
    <2> DEFINE w(d) == IF box[sock[k].of].at # "up" /\ heard[sock[k].on] # "retired"
                       THEN sock[k].of ELSE mind[d].watch
    <2>1. \A d \in Copy : w(d) \in Container \cup {0}
      BY <1>4, NamesType
    <2>2. \A d \in Copy : [mind[d] EXCEPT !.watch = w(d)] \in Mind
      BY <1>4, <2>1, MindField
    <2> QED BY <1>4, <2>2 DEF LooksAfter
  <1> QED BY <1>5, <1>6, <1>7

\* The sockets.
LEMMA TypeSockets ==
    ASSUME TypeOK, NEW k \in Socket,
           \/ Admit(k) \/ AdmitUnanswered(k) \/ SettleOwedClaim(k) \/ Release(k)
           \/ SocketDrops(k) \/ SupervisorReady(k)
    PROVE  TypeOK'
  <1>0. sock \in [Socket -> Sock] /\ sock[k] \in Sock /\ sock[k].on \in Copy \cup {0}
    BY NamesType DEF TypeOK
  <1>1. \A at \in {"refused", "closing", "closed"} : [sock EXCEPT ![k].at = at] \in [Socket -> Sock]
    BY <1>0, SockField
  <1>2. sock'[k].on = sock[k].on => takesChannel(k) \in Row
    BY <1>0, RowWrites DEF takesChannel
  <1>3. CASE Admit(k)
    <2>1. CASE doorApplies(k)
      <3>1. sock' \in [Socket -> Sock] /\ row' \in Row /\ mind' \in [Copy -> Mind]
        BY <1>2, <1>3, <2>1, AttachedType DEF Admit
      <3>2. box' = [box EXCEPT ![sock[k].of].session = TRUE]
        BY <1>3, <2>1 DEF Admit
      <3>3. box' \in [Container -> Box]
        BY <3>2, BoxField DEF TypeOK
      <3> QED BY <1>3, <3>1, <3>3, CallsType DEF Admit, TypeOK
    <2>2. CASE ~doorApplies(k)
      BY <1>1, <1>3, <2>2, CallsType DEF Admit, TypeOK
    <2> QED BY <2>1, <2>2
  <1>4. CASE AdmitUnanswered(k)
    <2>1. /\ sock' \in [Socket -> Sock] /\ sock'[k].on = sock[k].on
          /\ mind' \in [Copy -> Mind]
      <3>1. [sock EXCEPT ![k].at = "refused"][k].on = sock[k].on
        BY <1>0 DEF Sock
      <3> QED BY <1>1, <1>4, <3>1, AttachedType DEF AdmitUnanswered, TypeOK
    <2>2. row' \in Row
      BY <1>2, <1>4, <2>1 DEF AdmitUnanswered, TypeOK
    <2> QED BY <1>4, <2>1, <2>2, SpendType DEF AdmitUnanswered, TypeOK, Budget
  <1>5. CASE SettleOwedClaim(k)
    <2>1. [sock[k] EXCEPT !.owed = FALSE] \in Sock /\ [sock[k] EXCEPT !.owed = FALSE].on = sock[k].on
      BY <1>0 DEF Sock
    <2>2. [sock[k] EXCEPT !.owed = FALSE, !.at = "closing"] \in Sock
      BY <1>0 DEF Sock
    <2>3. CASE sessionApplies(k)
      <3>1. sock' = [sock EXCEPT ![k].owed = FALSE] /\ row' = takesChannel(k)
        BY <1>5, <2>3 DEF SettleOwedClaim
      <3>2. sock' \in [Socket -> Sock] /\ sock'[k].on = sock[k].on
        BY <1>0, <2>1, <3>1
      <3> QED BY <1>2, <1>5, <3>1, <3>2, CallsType DEF SettleOwedClaim, TypeOK
    <2>4. CASE ~sessionApplies(k)
      <3>1. sock' = [sock EXCEPT ![k].owed = FALSE, ![k].at = "closing"]
        BY <1>5, <2>4 DEF SettleOwedClaim
      <3>2. sock' \in [Socket -> Sock]
        BY <1>0, <2>2, <3>1
      <3> QED BY <1>5, <2>4, <3>2, CallsType DEF SettleOwedClaim, TypeOK
    <2> QED BY <2>3, <2>4
  <1>6. CASE Release(k)
    <2>1. row' \in Row
      BY <1>6, RowWrites DEF Release, TypeOK
    <2>2. heard' \in [Copy -> {"live", "stale", "retired"}] /\ budget' \in [Budget -> Nat]
      BY <1>6, CallsType, SpendType DEF Release, TypeOK, Budget
    <2> QED BY <1>1, <1>6, <2>1, <2>2 DEF Release, TypeOK
  <1>7. CASE SocketDrops(k)
    <2>1. mind' \in [Copy -> Mind]
      BY <1>7, WatchingType DEF SocketDrops, TypeOK
    <2> QED BY <1>1, <1>7, <2>1, SpendType DEF SocketDrops, TypeOK, Budget
  <1>8. CASE SupervisorReady(k)
    <2>1. box' \in [Container -> Box]
      BY <1>8, BoxField DEF SupervisorReady, TypeOK
    <2>2. SaysOf("ready", 0, 0) \in Report
      BY SaysType
    <2>3. \A d \in Copy : Append(mind[d].chain, SaysOf("ready", 0, 0)) \in Seq(Report)
      BY <2>2, NamesType
    <2>4. mind' \in [Copy -> Mind]
      BY <1>8, <2>3, MindField DEF SupervisorReady, TypeOK
    <2> QED BY <1>8, <2>1, <2>4 DEF SupervisorReady, TypeOK
  <1> QED BY <1>3, <1>4, <1>5, <1>6, <1>7, <1>8

LEMMA EndsType ==
    ASSUME NEW m \in [Copy -> Mind], NEW c \in Copy
    PROVE  Ends(m, c) \in [Copy -> Mind]
  <1>1. NotReading \in Read
    BY DEF NotReading, Read, Status
  <1>2. [m[c] EXCEPT !.reading = FALSE, !.pass = NotReading, !.missed = FALSE] \in Mind
    BY ZenonT(40), <1>1 DEF Mind
  <1> QED BY <1>2 DEF Ends

\* The looks and the passes.
LEMMA TypePasses ==
    ASSUME TypeOK, NEW c \in Copy, LookAtClosed(c) \/ BeginPass(c) \/ Verdict(c)
    PROVE  TypeOK'
  <1>0. /\ mind \in [Copy -> Mind] /\ mind[c] \in Mind
        /\ mind[c].aside \in SUBSET Report
        /\ mind[c].dead \in SUBSET Container /\ mind[c].stray \in SUBSET Container
        /\ mind[c].watch \in Container \cup {0} /\ mind[c].pass.ref \in Container \cup {0}
        /\ Listed \subseteq Container
    BY NamesType DEF TypeOK
  <1>1. NotReading \in Read
    BY DEF NotReading, Read, Status
  <1>2. \A kind \in {"stopped", "failed"}, n \in Container \cup {0} :
            mind[c].aside \cup {SaysOf(kind, 0, n)} \in SUBSET Report
    BY <1>0, SaysType
  <1>3. \A kind \in {"stopped", "failed"}, n \in Container : ReportsDead(c, kind, n) \in [Copy -> Mind]
    <2>1. \A n \in Container : mind[c].dead \cup {n} \in SUBSET Container
      BY <1>0
    <2>2. \A kind \in {"stopped", "failed"}, n \in Container :
              [mind[c] EXCEPT !.dead = mind[c].dead \cup {n},
                              !.aside = mind[c].aside \cup {SaysOf(kind, 0, n)}] \in Mind
      BY <1>0, <1>2, <2>1 DEF Mind
    <2> QED BY <1>0, <2>2 DEF ReportsDead
  <1>4. CASE LookAtClosed(c)
    <2> DEFINE n == mind[c].watch
    <2>1. n \in Container
      BY <1>0, <1>4 DEF LookAtClosed
    <2>2. mind[c].dead \cup {n} \in SUBSET Container
      BY <1>0, <2>1
    <2>3. [mind[c] EXCEPT !.watch = 0, !.dead = mind[c].dead \cup {n},
                          !.aside = mind[c].aside \cup {SaysOf("stopped", 0, n)}] \in Mind
      BY <1>0, <1>2, <2>1, <2>2 DEF Mind
    <2>4. [mind[c] EXCEPT !.watch = 0] \in Mind
      BY <1>0, MindField
    <2>5. mind' \in [Copy -> Mind]
      BY <1>0, <1>4, <2>3, <2>4 DEF LookAtClosed
    <2> QED BY <1>4, <2>5 DEF LookAtClosed, TypeOK
  <1>5. CASE BeginPass(c)
    <2>1. row \in Row
      BY DEF TypeOK
    <2>2. row.status \in Status /\ row.ref \in Container \cup {0} /\ row.holder \in Copy \cup {0}
      BY <2>1 DEF Row
    <2>3. channelStateOf(row) \in {"awaiting", "starting", "none", "lost", "held", "dropped"}
      BY DEF channelStateOf
    <2>4. [status |-> row.status, ref |-> row.ref, channel |-> channelStateOf(row)] \in Read
      BY <2>2, <2>3 DEF Read
    <2>5. mind' \in [Copy -> Mind]
      BY <1>0, <1>5, <2>4, MindField DEF BeginPass
    <2> QED BY <1>5, <2>5, CallsType DEF BeginPass, TypeOK
  <1>6. CASE PassReportsDead(c)
    <2>1. PICK n \in Listed \ mind[c].dead : mind' = Ends(ReportsDead(c, "stopped", n), c)
      BY <1>6 DEF PassReportsDead
    <2>2. mind' \in [Copy -> Mind]
      BY <1>0, <1>3, <2>1, EndsType
    <2> QED BY <1>6, <2>2 DEF PassReportsDead, TypeOK
  <1>7. CASE PassFindsBootCrash(c)
    <2>1. PICK n \in Listed \ mind[c].dead : /\ Leaves({n}, "gone")
                                             /\ mind' = Ends(ReportsDead(c, "failed", n), c)
      BY <1>7 DEF PassFindsBootCrash
    <2>2. mind' \in [Copy -> Mind]
      BY <1>0, <1>3, <2>1, EndsType
    <2>3. box' \in [Container -> Box] /\ sock' \in [Socket -> Sock]
      BY <2>1, LeavesType
    <2> QED BY <1>7, <2>2, <2>3 DEF PassFindsBootCrash, TypeOK
  <1>8. CASE PassStopsStray(c)
    <2>1. PICK n \in Listed \ mind[c].stray :
            /\ Calls(c)
            /\ IF strayStopApplies(c, n)
               THEN /\ row' = claimStop(c)
                    /\ mind' = Ends([Overtakes(c) EXCEPT ![c].stray = @ \cup {n},
                                                 ![c].job = [step |-> "sweep", of |-> n]], c)
               ELSE mind' = Ends(mind, c) /\ UNCHANGED row
      BY <1>8 DEF PassStopsStray
    <2>2. /\ Overtakes(c) \in [Copy -> Mind] /\ n \in Container
          /\ Overtakes(c)[c] = mind[c]
      BY <1>0, <2>1, OvertakesType DEF Overtakes
    <2>3. /\ [step |-> "sweep", of |-> n] \in Job
          /\ mind[c].stray \cup {n} \in SUBSET Container
      BY <1>0, <2>2 DEF Job, Stopping
    <2>4. [mind[c] EXCEPT !.stray = mind[c].stray \cup {n}, !.job = [step |-> "sweep", of |-> n]] \in Mind
      BY <1>0, <2>3 DEF Mind
    <2>5. [Overtakes(c) EXCEPT ![c].stray = @ \cup {n},
                               ![c].job = [step |-> "sweep", of |-> n]] \in [Copy -> Mind]
      BY <2>2, <2>4
    <2>6. mind' \in [Copy -> Mind] /\ row' \in Row
      <3>1. CASE strayStopApplies(c, n)
        <4> DEFINE m == [Overtakes(c) EXCEPT ![c].stray = @ \cup {n},
                                             ![c].job = [step |-> "sweep", of |-> n]]
        <4>1. mind' = Ends(m, c) /\ row' = claimStop(c) /\ m \in [Copy -> Mind]
          BY <2>1, <2>5, <3>1
        <4> HIDE DEF m
        <4> QED BY <4>1, EndsType, RowWrites
      <3>2. CASE ~strayStopApplies(c, n)
        BY <1>0, <2>1, <3>2, EndsType DEF TypeOK
      <3> QED BY <3>1, <3>2
    <2> QED BY <1>8, <2>1, <2>6, CallsType DEF PassStopsStray, TypeOK
  <1>9. CASE StrayUnanswered(c)
    <2> DEFINE after(m, n) == [m EXCEPT ![c].stray = @ \cup {n}, ![c].reading = FALSE,
                                        ![c].pass = NotReading]
    <2>1. PICK n \in Listed \ mind[c].stray :
            /\ Spend("losses")
            /\ \/ strayStopApplies(c, n) /\ row' = claimStop(c) /\ mind' = after(Overtakes(c), n)
               \/ UNCHANGED row /\ mind' = after(mind, n)
      BY <1>9 DEF StrayUnanswered
    <2>2. \A m \in [Copy -> Mind] : after(m, n) \in [Copy -> Mind]
      <3> SUFFICES ASSUME NEW m \in [Copy -> Mind] PROVE after(m, n) \in [Copy -> Mind]
        OBVIOUS
      <3>1. m[c] \in Mind /\ m[c].stray \in SUBSET Container /\ n \in Container
        BY <1>0, <2>1 DEF Mind
      <3>2. m[c].stray \cup {n} \in SUBSET Container
        BY <3>1
      <3>3. [m[c] EXCEPT !.stray = m[c].stray \cup {n}, !.reading = FALSE, !.pass = NotReading] \in Mind
        BY <1>1, <3>1, <3>2 DEF Mind
      <3> QED BY <3>3
    <2>3. mind' \in [Copy -> Mind] /\ row' \in Row
      <3> HIDE DEF after
      <3> QED BY <1>0, <2>1, <2>2, OvertakesType, RowWrites DEF TypeOK
    <2>4. budget' \in [Budget -> Nat]
      BY <2>1, SpendType DEF Budget
    <2> QED BY <1>9, <2>3, <2>4 DEF StrayUnanswered, TypeOK
  <1>10. CASE PassFindsNone(c)
    <2> DEFINE p == mind[c].pass
               missing == p.status = "running" /\ ~busy(c)
    <2>1. [mind EXCEPT ![c].aside = @ \cup {SaysOf("stopped", 0, p.ref)}] \in [Copy -> Mind]
      BY <1>0, <1>2, MindField
    <2>2. [Ends(mind, c) EXCEPT ![c].missed = missing] \in [Copy -> Mind]
      <3>1. missing \in BOOLEAN
        OBVIOUS
      <3> HIDE DEF missing
      <3>2. Ends(mind, c) \in [Copy -> Mind]
        BY <1>0, EndsType
      <3>3. [Ends(mind, c)[c] EXCEPT !.missed = missing] \in Mind
        BY <3>1, <3>2, MindField
      <3> QED BY <3>2, <3>3
    <2>3. mind' \in [Copy -> Mind]
      BY <1>0, <1>10, <2>1, <2>2, EndsType DEF PassFindsNone
    <2> QED BY <1>10, <2>3 DEF PassFindsNone, TypeOK
  <1>11. CASE PassLeaves(c)
    BY <1>0, <1>11, EndsType DEF PassLeaves, TypeOK
  <1> QED BY <1>4, <1>5, <1>6, <1>7, <1>8, <1>9, <1>10, <1>11 DEF Verdict

\* Dials and deaths, the copies, and the sweep of the ledger.
LEMMA TypeOthers ==
    ASSUME TypeOK,
           \/ \E c \in Copy : Lapse(c) \/ Crash(c) \/ Retire(c) \/ \E n \in Container : Dial(n, c)
           \/ \E n \in Container : ContainerDies(n)
           \/ CloseOrphan \/ OpenUnrecorded
    PROVE  TypeOK'
  <1>1. ASSUME NEW c \in Copy, Lapse(c) PROVE TypeOK'
    <2>1. budget' \in [Budget -> Nat]
      BY <1>1, SpendType DEF Lapse, TypeOK, Budget
    <2> QED BY <1>1, <2>1 DEF Lapse, TypeOK
  <1>2. ASSUME NEW c \in Copy, Crash(c) PROVE TypeOK'
    <2>1. Fresh \in Mind
      BY DEF Fresh, Mind, Idle, Job, NotReading, Read, Status
    <2>2. mind[c].late \in SUBSET {"start", "report"}
      BY DEF TypeOK, Mind
    <2>3. [Fresh EXCEPT !.up = FALSE, !.late = mind[c].late] \in Mind
      BY <2>1, <2>2 DEF Mind
    <2>4. \A k \in Socket : [sock[k] EXCEPT !.at = "closed", !.owed = FALSE] \in Sock
      BY DEF TypeOK, Sock
    <2>5. sock' \in [Socket -> Sock]
      BY <1>2, <2>4 DEF Crash, TypeOK
    <2> QED BY <1>2, <2>3, <2>5, SpendType DEF Crash, TypeOK, Budget
  <1>3. ASSUME NEW c \in Copy, Retire(c) PROVE TypeOK'
    <2>1. NotReading \in Read
      BY DEF NotReading, Read, Status
    <2>2. mind' \in [Copy -> Mind]
      <3>1. [mind[c] EXCEPT !.reading = FALSE, !.pass = NotReading] \in Mind
        BY <2>1, MindField DEF TypeOK
      <3> QED BY <1>3, <3>1 DEF Retire, TypeOK
    <2>3. sock' \in [Socket -> Sock]
      BY <1>3, SockField DEF Retire, TypeOK
    <2> QED BY <1>3, <2>2, <2>3, SpendType DEF Retire, TypeOK, Budget
  <1>4. ASSUME NEW c \in Copy, NEW n \in Container, Dial(n, c) PROVE TypeOK'
    <2>1. [at |-> "asking", of |-> n, on |-> c, owed |-> FALSE] \in Sock
      BY DEF Sock
    <2>2. PICK k \in Socket :
            sock' = [sock EXCEPT ![k] = [at |-> "asking", of |-> n, on |-> c, owed |-> FALSE]]
      BY <1>4 DEF Dial
    <2>3. sock' \in [Socket -> Sock]
      BY <2>1, <2>2 DEF TypeOK
    <2> QED BY <1>4, <2>3, SpendType DEF Dial, TypeOK, Budget
  <1>5. ASSUME NEW n \in Container, ContainerDies(n) PROVE TypeOK'
    <2>1. mind' \in [Copy -> Mind]
      BY <1>5, WatchingType DEF ContainerDies, TypeOK
    <2> QED BY <1>5, <2>1, SpendType, LeavesType DEF ContainerDies, TypeOK, Budget
  <1>6. CASE CloseOrphan
    BY <1>6, LedgerWrites DEF CloseOrphan, TypeOK
  <1>7. CASE OpenUnrecorded
    BY <1>7 DEF OpenUnrecorded, TypeOK
  <1> QED BY <1>1, <1>2, <1>3, <1>4, <1>5, <1>6, <1>7

LEMMA TypeNext == TypeOK /\ [Next]_vars => TypeOK'
  <1> SUFFICES ASSUME TypeOK, [Next]_vars PROVE TypeOK'
    OBVIOUS
  <1>1. CASE UNCHANGED vars
    BY <1>1 DEF vars, TypeOK
  <1>2. CASE Next
    <2>1. \A c \in Copy : ClaimStart(c) \/ ClaimRefused(c) \/ ClaimStop(c) => TypeOK'
      BY TypeClaims
    <2>2. Respawn => TypeOK'
      <3>1. 1 \in Copy
        BY FleetAssumption DEF Copy
      <3> QED BY <3>1, TypeClaims
    <2>3. \A c \in Copy : NextJob(c) \/ Start(c) \/ Stop(c) => TypeOK'
      BY TypeStart, TypeStop
    <2>4. \A c \in Copy : PostRef(c) \/ PostReport(c) \/ Heartbeat(c) \/ PostAside(c) \/ ReportLost(c)
                            => TypeOK'
      BY TypeReports
    <2>5. \A c \in Copy : LookAtClosed(c) \/ BeginPass(c) \/ Verdict(c) => TypeOK'
      BY TypePasses
    <2>6. \A k \in Socket : (\/ Admit(k) \/ AdmitUnanswered(k) \/ SettleOwedClaim(k) \/ Release(k)
                             \/ SocketDrops(k) \/ SupervisorReady(k)) => TypeOK'
      BY TypeSockets
    <2> QED BY <1>2, <2>1, <2>2, <2>3, <2>4, <2>5, <2>6, TypeOthers DEF Next
  <1> QED BY <1>1, <1>2

\* Rows, containers, sockets, memories and the ledger keep their types, however
\* claims, reports, sockets, passes and faults of any number of copies
\* interleave: a report's word is turned into a status before it is stored.
THEOREM TypeCorrect == Spec => []TypeOK
  <1>1. Init => TypeOK
    BY TypeInit
  <1>2. TypeOK /\ [Next]_vars => TypeOK'
    BY TypeNext
  <1> QED BY <1>1, <1>2, PTL DEF Spec

-----------------------------------------------------------------------------
(***************************************************************************)
(* The runtime ledger.                                                     *)
(***************************************************************************)
\* The steps that write the ledger are a start's report, the reports that end a
\* run, a respawn and the sweep's two statements.
LEMMA LedgerSteps ==
    ASSUME Next, ledger' # ledger
    PROVE  \/ \E n : ledger' = openRuntimeInterval(n)
           \/ ledger' = closeRuntimeInterval
           \/ OpenUnrecorded
  <1>1. CASE \E c \in Copy : \/ ClaimStart(c) \/ ClaimRefused(c) \/ ClaimStop(c) \/ NextJob(c)
                           \/ Heartbeat(c) \/ ReportLost(c) \/ LookAtClosed(c) \/ BeginPass(c)
                           \/ Lapse(c) \/ Crash(c) \/ Retire(c) \/ \E n \in Container : Dial(n, c)
    BY ZenonT(40), <1>1 DEF ClaimStart, ClaimRefused, ClaimStop, NextJob, Heartbeat, ReportLost, LookAtClosed,
                BeginPass, Lapse, Crash, Retire, Dial
  <1>2. CASE \E c \in Copy : Start(c) \/ Stop(c) \/ Verdict(c)
    <2>1. \A c \in Copy : ~Start(c)
      BY DEF Start, ListExisting, ReplaceExisting, CreateContainer, RecordSpawn,
             SpawnUnanswered, RemoveQuietly, BootContainer, StartFails
    <2>2. \A c \in Copy : ~Stop(c)
      BY DEF Stop, LookForContainer, StopContainer, SweepStray, StopFails
    <2>3. \A c \in Copy : ~Verdict(c)
      BY DEF Verdict, PassReportsDead, PassFindsBootCrash, PassStopsStray, StrayUnanswered,
             PassFindsNone, PassLeaves
    <2> QED BY <1>2, <2>1, <2>2, <2>3
  <1>3. CASE \E c \in Copy : PostRef(c) \/ PostReport(c) \/ PostAside(c)
    BY <1>3 DEF PostRef, PostReport, PostAside, closedBy
  <1>4. CASE \E k \in Socket : \/ Admit(k) \/ AdmitUnanswered(k) \/ SettleOwedClaim(k) \/ Release(k)
                             \/ SocketDrops(k) \/ SupervisorReady(k)
    BY <1>4 DEF Admit, AdmitUnanswered, SettleOwedClaim, Release, SocketDrops, SupervisorReady
  <1>5. CASE \E n \in Container : ContainerDies(n)
    BY <1>5 DEF ContainerDies
  <1>6. CASE Respawn \/ CloseOrphan
    BY <1>6 DEF Respawn, CloseOrphan
  <1> QED BY <1>1, <1>2, <1>3, <1>4, <1>5, <1>6 DEF Next

LEMMA OneRunInit == Init => OneRunIsOpen
  BY DEF Init, OneRunIsOpen

LEMMA OneRunNext == TypeOK /\ OneRunIsOpen /\ [Next]_vars => OneRunIsOpen'
  <1> SUFFICES ASSUME TypeOK, OneRunIsOpen, [Next]_vars PROVE OneRunIsOpen'
    OBVIOUS
  <1>1. CASE ledger' = ledger
    BY <1>1 DEF OneRunIsOpen
  <1>2. ASSUME NEW n, ledger' = openRuntimeInterval(n) PROVE OneRunIsOpen'
    <2>1. \A m \in Container : ledger'[m] = "open" => m = n
      BY <1>2 DEF openRuntimeInterval
    <2> QED BY <2>1 DEF OneRunIsOpen
  <1>3. CASE ledger' = closeRuntimeInterval
    BY <1>3 DEF closeRuntimeInterval, OneRunIsOpen
  <1>4. CASE OpenUnrecorded
    BY <1>4 DEF OpenUnrecorded, isUnrecorded, Recorded, OneRunIsOpen, TypeOK
  <1> QED BY <1>1, <1>2, <1>3, <1>4, LedgerSteps DEF vars

\* A sandbox is never counted twice at the same time: whichever start's report
\* comes late, whichever copy's, and whenever the sweep opens a run nobody
\* recorded (openRuntimeInterval closes every other run, the sweep asks for
\* none), at most one run is open.
THEOREM OneRunHolds == Spec => []OneRunIsOpen
  <1>1. Init => TypeOK /\ OneRunIsOpen
    BY TypeInit, OneRunInit
  <1>2. (TypeOK /\ OneRunIsOpen) /\ [Next]_vars => (TypeOK /\ OneRunIsOpen)'
    BY TypeNext, OneRunNext
  <1> QED BY <1>1, <1>2, PTL DEF Spec

-----------------------------------------------------------------------------
(***************************************************************************)
(* The channel.                                                            *)
(*                                                                         *)
(* That the channel is of the recorded container is not inductive: a late  *)
(* report of a start may name another one.  What keeps it true is that     *)
(* whatever a copy may still name as the container is the one on the row,  *)
(* as long as nothing it had in hand was overtaken, and that a first       *)
(* connect is awaited only while nobody holds the channel.                 *)
(***************************************************************************)
\* A copy's chain holds one status at a time, and its job waits for it: every
\* other report says "ready" and names no container.
OneStatus(m) ==
    /\ \A i \in DOMAIN m.chain : m.chain[i].kind = "ready" => m.chain[i].ref = 0
    /\ \A i \in DOMAIN m.chain : m.chain[i].kind # "ready" => m.job.step = "tell"
    /\ \A i, j \in DOMAIN m.chain : m.chain[i].kind # "ready" /\ m.chain[j].kind # "ready" => i = j

\* The containers a copy may still report as the sandbox's.
Owed(m) ==
    {n \in Container : \/ m.job = [step |-> "boot", of |-> n]
                       \/ \E i \in DOMAIN m.chain : m.chain[i].ref = n}

ChainsInv == \A c \in Copy : OneStatus(mind[c])

SocketsInv ==
    /\ \A k \in Socket : IF sock[k].at = "none" THEN sock[k].on = 0
                                               ELSE sock[k].of # 0 /\ sock[k].on # 0
    /\ row.conn # 0 => sock[row.conn].at # "none"

TokenInv ==
    row.token # 0 => /\ row.ref = row.token
                     /\ row.holder = 0 /\ row.conn = 0
                     /\ row.status # "running"
                     /\ row.owner # 0 => Owed(mind[row.owner]) \subseteq {row.token}

OwedInv ==
    \A c \in Copy : mind[c].late = {} =>
        \A n \in Owed(mind[c]) : row.owner = c /\ row.ref = n

ChannelInv == ChainsInv /\ SocketsInv /\ TokenInv /\ OwedInv /\ ChannelIsOfTheContainer

-----------------------------------------------------------------------------
(***************************************************************************)
(* The containers.                                                         *)
(***************************************************************************)
\* A start that was not overtaken is the owner's.
StartOwned == \A c \in Copy : hasStart(c) /\ "start" \notin mind[c].late => row.owner = c

\* No start was overtaken.
NotOvertaken == \A c \in Copy : "start" \notin mind[c].late

\* The backend lists one container at most, the one to be replaced if there is
\* one, and none when a start is about to create its own.
OneListed ==
    NotOvertaken =>
        /\ \A m, n \in Listed : m = n
        /\ \A c \in Copy : /\ mind[c].job.step = "create" => Listed = {}
                           /\ mind[c].job.step = "replace" => Listed \subseteq {mind[c].job.of}

ContainersInv == StartOwned /\ OneListed

-----------------------------------------------------------------------------
(***************************************************************************)
(* What a step does to a copy's work, to the row, to the sockets and to    *)
(* the containers.  The invariants follow from these four alone.           *)
(***************************************************************************)
CopyStep(d) ==
    /\ OneStatus(mind'[d])
    /\ mind[d].late \subseteq mind'[d].late
    /\ \/ Owed(mind'[d]) \subseteq Owed(mind[d])
       \/ /\ recordSpawnApplies(d) /\ row' = recordSpawn(mind[d].job.of)
          /\ Owed(mind'[d]) \subseteq {mind[d].job.of}
    /\ hasStart(d)' => hasStart(d) \/ row'.owner = d
    /\ mind'[d].job.step = "replace" => mind'[d].job = mind[d].job \/ mind'[d].job.of \in Listed
    /\ mind'[d].job.step = "create" =>
          \/ mind[d].job.step = "create"
          \/ Listed = {}
          \/ mind[d].job.step = "replace" /\ Listed' \subseteq Listed \ {mind[d].job.of}

\* A claim of c: whoever does not count as live and had something in hand is
\* known to be late.
Overtook(c) ==
    /\ lifecycleFreeFor(c)
    /\ \A d \in Copy \ {c} : ~liveReplica(d) => inHand(d) \subseteq mind'[d].late

RowStep ==
    \/ \E s \in Status : /\ row' = [row EXCEPT !.status = s]
                         /\ s = "running" => row.status = "running" \/ row.holder # 0
    \/ \E c \in Copy : \E s \in Status \ {"running"} :
          row' = [claimStart(c) EXCEPT !.status = s] /\ Overtook(c)
    \/ \E c \in Copy : /\ row' = claimStop(c) /\ Overtook(c)
                       /\ row.status = "running" \/ Owed(mind[c]) = {}
    \/ \E c \in Copy : /\ recordSpawnApplies(c) /\ row' = recordSpawn(mind[c].job.of)
                       /\ Owed(mind'[c]) \subseteq {mind[c].job.of}
    \/ \E c \in Copy : \E n \in Owed(mind[c]) : row.owner = c /\ row' = [row EXCEPT !.ref = n]
    \/ \E k \in Socket : /\ sock[k].at # "none" /\ row' = takesChannel(k)
                         /\ doorApplies(k) \/ sessionApplies(k)
    \/ \E k \in Socket : sock[k].at = "closing" /\ row.conn = k /\ row' = [row EXCEPT !.conn = 0]

SockStep ==
    \A k \in Socket :
        \/ sock'[k] = sock[k]
        \/ /\ sock[k].at # "none" /\ sock'[k].at # "none"
           /\ sock'[k].of = sock[k].of /\ sock'[k].on = sock[k].on
        \/ /\ sock[k].at = "none" /\ sock'[k].at # "none"
           /\ sock'[k].of # 0 /\ sock'[k].on # 0

BoxStep ==
    \/ Listed' \subseteq Listed
    \/ \E c \in Copy, n \in Container :
          /\ mind[c].job.step = "create" /\ mind'[c].job.step = "record"
          /\ \A d \in Copy \ {c} : mind'[d] = mind[d]
          /\ Listed' = Listed \cup {n} /\ row' = row

Effects == (\A d \in Copy : CopyStep(d)) /\ RowStep /\ SockStep /\ BoxStep

-----------------------------------------------------------------------------
(***************************************************************************)
(* One memory's chain.                                                     *)
(***************************************************************************)
LEMMA SameChain ==
    ASSUME NEW m, NEW r, OneStatus(m), r.chain = m.chain, r.job = m.job
    PROVE  OneStatus(r) /\ Owed(r) = Owed(m)
  BY DEF OneStatus, Owed

\* No report of this copy is a status, so its job may go on.
LEMMA TurnChain ==
    ASSUME NEW m, NEW r, OneStatus(m), m.job.step # "tell", r.chain = m.chain
    PROVE  /\ OneStatus(r)
           /\ Owed(r) = {n \in Container : r.job = [step |-> "boot", of |-> n]}
           /\ Owed(m) = {n \in Container : m.job = [step |-> "boot", of |-> n]}
  <1>1. \A i \in DOMAIN m.chain : m.chain[i].kind = "ready" /\ m.chain[i].ref = 0
    BY DEF OneStatus
  <1> QED BY <1>1, Numbers DEF OneStatus, Owed

LEMMA TurnOwes ==
    ASSUME NEW m, NEW r, OneStatus(m), m.job.step # "tell", r.chain = m.chain
    PROVE  /\ OneStatus(r)
           /\ r.job.step # "boot" => Owed(r) = {}
           /\ Owed(r) \subseteq {r.job.of}
  <1>1. OneStatus(r) /\ Owed(r) = {n \in Container : r.job = [step |-> "boot", of |-> n]}
    BY TurnChain
  <1>2. \A n : r.job = [step |-> "boot", of |-> n] => r.job.step = "boot" /\ r.job.of = n
    OBVIOUS
  <1> QED BY <1>1, <1>2

LEMMA TellChain ==
    ASSUME NEW m, NEW r, OneStatus(m), m.chain \in Seq(Report), m.job.step # "tell",
           NEW e \in Report, e.kind # "ready",
           r.chain = Append(m.chain, e), r.job = [step |-> "tell", of |-> 0]
    PROVE  OneStatus(r) /\ Owed(r) \subseteq {e.ref}
  <1>1. \A i \in DOMAIN m.chain : m.chain[i].kind = "ready" /\ m.chain[i].ref = 0
    BY DEF OneStatus
  <1>2. /\ DOMAIN r.chain = 1 .. Len(m.chain) + 1 /\ Len(m.chain) \in Nat
        /\ DOMAIN m.chain = 1 .. Len(m.chain)
        /\ \A i \in 1 .. Len(m.chain) : r.chain[i] = m.chain[i]
        /\ r.chain[Len(m.chain) + 1] = e
    OBVIOUS
  <1>3. \A i \in DOMAIN r.chain : \/ i = Len(m.chain) + 1 /\ r.chain[i] = e
                                  \/ r.chain[i].kind = "ready" /\ r.chain[i].ref = 0
    BY <1>1, <1>2
  <1>4. OneStatus(r)
    BY <1>3 DEF OneStatus
  <1>5. Owed(r) \subseteq {e.ref}
    BY <1>3, Numbers DEF Owed
  <1> QED BY <1>4, <1>5

LEMMA ReadyChain ==
    ASSUME NEW m, NEW r, OneStatus(m), m.chain \in Seq(Report),
           r.chain = Append(m.chain, SaysOf("ready", 0, 0)), r.job = m.job
    PROVE  OneStatus(r) /\ Owed(r) \subseteq Owed(m)
  <1> DEFINE e == SaysOf("ready", 0, 0)
  <1>1. e \in Report /\ e.kind = "ready" /\ e.ref = 0
    BY SaysType DEF SaysOf
  <1> HIDE DEF e
  <1>2. /\ DOMAIN r.chain = 1 .. Len(m.chain) + 1 /\ Len(m.chain) \in Nat
        /\ DOMAIN m.chain = 1 .. Len(m.chain)
        /\ \A i \in 1 .. Len(m.chain) : r.chain[i] = m.chain[i]
        /\ r.chain[Len(m.chain) + 1] = e
    BY <1>1 DEF e
  <1>3. \A i \in DOMAIN r.chain : \/ i \in DOMAIN m.chain /\ r.chain[i] = m.chain[i]
                                  \/ r.chain[i] = e
    BY <1>2
  <1>4. OneStatus(r)
    BY <1>1, <1>3 DEF OneStatus
  <1>5. Owed(r) \subseteq Owed(m)
    BY <1>1, <1>3, Numbers DEF Owed
  <1> QED BY <1>4, <1>5

\* A report leaves the chain, and a status ends the job.
LEMMA PostChain ==
    ASSUME NEW m, NEW r, OneStatus(m), m.chain \in Seq(Report), m.chain # << >>,
           r.chain = Tail(m.chain),
           r.job = IF Head(m.chain).kind = "ready" THEN m.job ELSE Idle
    PROVE  OneStatus(r) /\ Owed(r) \subseteq Owed(m)
  <1>1. /\ Len(m.chain) \in Nat /\ Len(m.chain) > 0 /\ DOMAIN m.chain = 1 .. Len(m.chain)
        /\ DOMAIN r.chain = 1 .. Len(m.chain) - 1
        /\ Head(m.chain) = m.chain[1]
    OBVIOUS
  <1>2. \A i \in DOMAIN r.chain : i + 1 \in DOMAIN m.chain /\ r.chain[i] = m.chain[i + 1]
    BY <1>1
  <1>3. \A i \in DOMAIN r.chain : i \in Int
    BY <1>1
  <1>4. CASE Head(m.chain).kind = "ready"
    <2>1. OneStatus(r)
      BY <1>2, <1>3, <1>4 DEF OneStatus
    <2>2. Owed(r) \subseteq Owed(m)
      BY <1>2, <1>4 DEF Owed
    <2> QED BY <2>1, <2>2
  <1>5. CASE Head(m.chain).kind # "ready"
    <2>1. \A i \in DOMAIN m.chain : i # 1 => m.chain[i].kind = "ready" /\ m.chain[i].ref = 0
      BY <1>1, <1>5 DEF OneStatus
    <2>2. \A i \in DOMAIN r.chain : r.chain[i].kind = "ready" /\ r.chain[i].ref = 0
      BY <1>1, <1>2, <2>1
    <2> QED BY <1>5, <2>2, Numbers DEF OneStatus, Owed, Idle
  <1> QED BY <1>4, <1>5

\* The head's container was named.
LEMMA RefChain ==
    ASSUME NEW m, NEW r, OneStatus(m), m.chain \in Seq(Report), m.chain # << >>,
           r.chain = [m.chain EXCEPT ![1].ref = 0], r.job = m.job
    PROVE  OneStatus(r) /\ Owed(r) \subseteq Owed(m)
  <1>1. 1 \in DOMAIN m.chain /\ DOMAIN r.chain = DOMAIN m.chain
    OBVIOUS
  <1>2. m.chain[1] \in Report
    BY <1>1
  <1>3. r.chain[1].kind = m.chain[1].kind /\ r.chain[1].ref = 0
    BY <1>1, <1>2 DEF Report
  <1>4. \A i \in DOMAIN r.chain : /\ r.chain[i].kind = m.chain[i].kind
                                  /\ r.chain[i].ref \in {0, m.chain[i].ref}
    BY <1>1, <1>3
  <1>5. OneStatus(r)
    BY <1>1, <1>4 DEF OneStatus
  <1>6. Owed(r) \subseteq Owed(m)
    BY <1>1, <1>4, Numbers DEF Owed
  <1> QED BY <1>5, <1>6

-----------------------------------------------------------------------------
(***************************************************************************)
(* The parts of a step that actions share.                                 *)
(***************************************************************************)
\* The work of every copy is as m has it.
Agrees(m) ==
    \A d \in Copy : /\ mind'[d].chain = m[d].chain /\ mind'[d].job = m[d].job
                    /\ mind'[d].next = m[d].next /\ mind'[d].late = m[d].late

LEMMA SameCopy ==
    ASSUME ChainsInv, NEW d \in Copy,
           mind'[d].chain = mind[d].chain, mind'[d].job = mind[d].job,
           mind'[d].next = "start" => mind[d].next = "start" \/ row'.owner = d,
           mind[d].late \subseteq mind'[d].late
    PROVE  CopyStep(d)
  <1>1. OneStatus(mind'[d]) /\ Owed(mind'[d]) = Owed(mind[d])
    BY SameChain DEF ChainsInv
  <1>2. hasStart(d)' => hasStart(d) \/ row'.owner = d
    BY DEF hasStart
  <1> QED BY <1>1, <1>2 DEF CopyStep

LEMMA SameCopies == ASSUME ChainsInv, Agrees(mind) PROVE \A d \in Copy : CopyStep(d)
  BY SameCopy DEF Agrees

\* The rest of a copy's memory is not its work.
LEMMA CopyAgrees ==
    ASSUME TypeOK, NEW c, NEW r, mind' = [mind EXCEPT ![c] = r],
           r.chain = mind[c].chain, r.job = mind[c].job, r.next = mind[c].next, r.late = mind[c].late
    PROVE  Agrees(mind)
  BY DEF Agrees, TypeOK

LEMMA AgreeTurn ==
    ASSUME TypeOK, ChainsInv, NEW c \in Copy, NEW s, NEW n, Agrees(Turn(c, s, n)),
           mind[c].job.step # "tell",
           s \in Starting => mind[c].job.step \in Starting,
           s = "boot" => recordSpawnApplies(c) /\ row' = recordSpawn(n) /\ n = mind[c].job.of,
           s = "replace" => n \in Listed,
           s = "create" => \/ Listed = {}
                           \/ mind[c].job.step = "replace" /\ Listed' \subseteq Listed \ {mind[c].job.of}
    PROVE  \A d \in Copy : CopyStep(d)
  <1>1. ASSUME NEW d \in Copy, d # c PROVE CopyStep(d)
    <2>1. Turn(c, s, n)[d] = mind[d]
      BY <1>1 DEF Turn, TypeOK
    <2> QED BY <1>1, <2>1, SameCopy DEF Agrees
  <1>2. CopyStep(c)
    <2> DEFINE j == [step |-> s, of |-> n]
    <2>1. Turn(c, s, n)[c] = [mind[c] EXCEPT !.job = j] /\ mind[c] \in Mind
      BY DEF Turn, TypeOK
    <2>2. /\ Turn(c, s, n)[c].chain = mind[c].chain /\ Turn(c, s, n)[c].job = j
          /\ Turn(c, s, n)[c].next = mind[c].next /\ Turn(c, s, n)[c].late = mind[c].late
      BY <2>1 DEF Mind
    <2>3. /\ mind'[c].chain = mind[c].chain /\ mind'[c].job = j
          /\ mind'[c].next = mind[c].next /\ mind'[c].late = mind[c].late
      BY <2>2 DEF Agrees
    <2>4. j.step = s /\ j.of = n
      OBVIOUS
    <2>5. /\ OneStatus(mind'[c])
          /\ Owed(mind'[c]) = {k \in Container : j = [step |-> "boot", of |-> k]}
      BY <2>3, TurnChain DEF ChainsInv
    <2>6. Owed(mind'[c]) \subseteq {n} /\ (s # "boot" => Owed(mind'[c]) = {})
      BY <2>5
    <2>7. hasStart(c)' => hasStart(c)
      BY <2>3, <2>4 DEF hasStart
    <2> HIDE DEF j
    <2> QED BY <2>3, <2>4, <2>5, <2>6, <2>7 DEF CopyStep
  <1> QED BY <1>1, <1>2

LEMMA AgreeTell ==
    ASSUME TypeOK, ChainsInv, NEW c \in Copy, NEW e \in Report, e.kind # "ready",
           Agrees(Tells(mind, c, e)), mind[c].job.step # "tell",
           e.ref # 0 => mind[c].job = [step |-> "boot", of |-> e.ref]
    PROVE  \A d \in Copy : CopyStep(d)
  <1>1. ASSUME NEW d \in Copy, d # c PROVE CopyStep(d)
    <2>1. Tells(mind, c, e)[d] = mind[d]
      BY <1>1 DEF Tells, TypeOK
    <2> QED BY <1>1, <2>1, SameCopy DEF Agrees
  <1>2. CopyStep(c)
    <2> DEFINE j == [step |-> "tell", of |-> 0]
    <2>1. /\ Tells(mind, c, e)[c] = [mind[c] EXCEPT !.job = j, !.chain = Append(mind[c].chain, e)]
          /\ mind[c] \in Mind /\ mind[c].chain \in Seq(Report)
      BY NamesType DEF Tells, TypeOK
    <2>2. /\ Tells(mind, c, e)[c].chain = Append(mind[c].chain, e) /\ Tells(mind, c, e)[c].job = j
          /\ Tells(mind, c, e)[c].next = mind[c].next /\ Tells(mind, c, e)[c].late = mind[c].late
      BY <2>1 DEF Mind
    <2>3. /\ mind'[c].chain = Append(mind[c].chain, e) /\ mind'[c].job = j
          /\ mind'[c].next = mind[c].next /\ mind'[c].late = mind[c].late
      BY <2>2 DEF Agrees
    <2>4. OneStatus(mind'[c]) /\ Owed(mind'[c]) \subseteq {e.ref}
      BY <2>1, <2>3, TellChain DEF ChainsInv
    <2>5. Owed(mind'[c]) \subseteq Owed(mind[c])
      BY <2>4, Numbers DEF Owed
    <2>6. j.step = "tell"
      OBVIOUS
    <2>7. hasStart(c)' => hasStart(c)
      BY <2>3, <2>6 DEF hasStart, Starting
    <2> HIDE DEF j
    <2> QED BY <2>3, <2>4, <2>5, <2>6, <2>7 DEF CopyStep
  <1> QED BY <1>1, <1>2

LEMMA WatchingAgrees ==
    ASSUME NEW m \in [Copy -> Mind], NEW ns, mind' = Watching(m, ns)
    PROVE  Agrees(m)
  <1> SUFFICES ASSUME NEW d \in Copy
               PROVE  /\ mind'[d].chain = m[d].chain /\ mind'[d].job = m[d].job
                      /\ mind'[d].next = m[d].next /\ mind'[d].late = m[d].late
    BY DEF Agrees
  <1>1. m[d] \in Mind
    OBVIOUS
  <1>2. \A n : LET r == [m[d] EXCEPT !.watch = n]
              IN  r.chain = m[d].chain /\ r.job = m[d].job /\ r.next = m[d].next /\ r.late = m[d].late
    BY <1>1 DEF Mind
  <1> QED BY <1>2 DEF Watching

LEMMA RowSame == ASSUME TypeOK, row' = row PROVE RowStep
  <1>1. row \in Row /\ row.status \in Status
    BY DEF TypeOK, Row
  <1>2. row' = [row EXCEPT !.status = row.status]
    BY <1>1 DEF Row
  <1> QED BY <1>1, <1>2 DEF RowStep

LEMMA BoxSame == ASSUME box' = box PROVE BoxStep /\ Listed' = Listed
  BY DEF BoxStep, Listed

LEMMA SockSame == ASSUME sock' = sock PROVE SockStep
  BY DEF SockStep

\* A socket keeps its container and its copy.
LEMMA SockMoves ==
    ASSUME TypeOK, NEW S \in SUBSET Socket, \A k \in S : sock[k].at # "none",
           \A k \in Socket \ S : sock'[k] = sock[k],
           \A k \in S : /\ sock'[k].at # "none"
                        /\ sock'[k].of = sock[k].of /\ sock'[k].on = sock[k].on
    PROVE  SockStep
  BY DEF SockStep

LEMMA LeavesStep ==
    ASSUME TypeOK, NEW ns, NEW at \in {"dead", "gone"}, Leaves(ns, at),
           at = "dead" => \A n \in ns : box[n].at = "up"
    PROVE  /\ SockStep /\ BoxStep
           /\ at = "gone" => Listed' \subseteq Listed \ ns
  <1>1. \A k \in Socket : /\ [sock[k] EXCEPT !.at = "closing"].at = "closing"
                         /\ [sock[k] EXCEPT !.at = "closing"].of = sock[k].of
                         /\ [sock[k] EXCEPT !.at = "closing"].on = sock[k].on
    BY DEF TypeOK, Sock
  <1>2. SockStep
    BY <1>1 DEF SockStep, Leaves, Ended
  <1>3. \A n \in Container : [box[n] EXCEPT !.at = at].at = at
    BY DEF TypeOK, Box
  <1>4. Listed' \subseteq Listed /\ (at = "gone" => Listed' \subseteq Listed \ ns)
    BY <1>3 DEF Listed, Leaves
  <1> QED BY <1>2, <1>4 DEF BoxStep

\* What a claim of c leaves in the copies' memories.
LEMMA OvertakesStep ==
    ASSUME TypeOK, NEW c \in Copy
    PROVE  /\ Overtakes(c)[c] = mind[c]
           /\ \A d \in Copy : /\ Overtakes(c)[d] \in Mind
                              /\ Overtakes(c)[d].chain = mind[d].chain
                              /\ Overtakes(c)[d].job = mind[d].job
                              /\ Overtakes(c)[d].next = mind[d].next
                              /\ mind[d].late \subseteq Overtakes(c)[d].late
                              /\ d # c /\ ~liveReplica(d) => inHand(d) \subseteq Overtakes(c)[d].late
  <1>1. \A d \in Copy : Overtakes(c)[d] \in Mind
    BY OvertakesType
  <1>2. \A d \in Copy : \A w :
          LET r == [mind[d] EXCEPT !.late = w]
          IN  r.chain = mind[d].chain /\ r.job = mind[d].job /\ r.next = mind[d].next /\ r.late = w
    BY DEF TypeOK, Mind
  <1> QED BY <1>1, <1>2 DEF Overtakes

LEMMA ClaimEffects ==
    ASSUME TypeOK, ChainsInv, NEW c \in Copy, ClaimStart(c) \/ ClaimRefused(c) \/ ClaimStop(c)
    PROVE  Effects
  <1>1. SockStep /\ BoxStep
    BY BoxSame, SockSame DEF ClaimStart, ClaimRefused, ClaimStop
  <1>2. /\ \A d \in Copy : /\ mind'[d].chain = mind[d].chain
                           /\ mind'[d].job = mind[d].job
                           /\ mind[d].late \subseteq mind'[d].late
                           /\ d # c => mind'[d].next = mind[d].next
                           /\ d # c /\ ~liveReplica(d) => inHand(d) \subseteq mind'[d].late
        /\ mind'[c].next = "start" => mind[c].next = "start" \/ ClaimStart(c)
    <2> DEFINE m == Overtakes(c)
    <2>1. m \in [Copy -> Mind]
      BY OvertakesType
    <2>2. ASSUME NEW x \in {"start", "stop"}, mind' = [m EXCEPT ![c].next = x]
          PROVE  /\ \A d \in Copy \ {c} : mind'[d] = m[d]
                 /\ mind'[c].chain = m[c].chain /\ mind'[c].job = m[c].job
                 /\ mind'[c].late = m[c].late /\ mind'[c].next = x
      <3> HIDE DEF m
      <3>1. m[c] \in Mind /\ mind'[c] = [m[c] EXCEPT !.next = x]
        BY <2>1, <2>2
      <3>2. \A d \in Copy \ {c} : mind'[d] = m[d]
        BY <2>1, <2>2
      <3> QED BY <3>1, <3>2 DEF Mind
    <2>3. \/ mind' = m
          \/ ClaimStart(c) /\ mind' = [m EXCEPT ![c].next = "start"]
          \/ mind' = [m EXCEPT ![c].next = "stop"]
      BY DEF ClaimStart, ClaimRefused, ClaimStop, Enqueue, Absorb
    <2>4. CASE mind' = m
      BY <2>4, OvertakesStep
    <2>5. CASE ClaimStart(c) /\ mind' = [m EXCEPT ![c].next = "start"]
      <3> HIDE DEF m
      <3>1. /\ \A d \in Copy \ {c} : mind'[d] = m[d]
            /\ mind'[c].chain = m[c].chain /\ mind'[c].job = m[c].job
            /\ mind'[c].late = m[c].late /\ mind'[c].next = "start"
        BY <2>2, <2>5
      <3> QED BY <2>5, <3>1, OvertakesStep DEF m
    <2>6. CASE mind' = [m EXCEPT ![c].next = "stop"]
      <3> HIDE DEF m
      <3>1. /\ \A d \in Copy \ {c} : mind'[d] = m[d]
            /\ mind'[c].chain = m[c].chain /\ mind'[c].job = m[c].job
            /\ mind'[c].late = m[c].late /\ mind'[c].next = "stop"
        BY <2>2, <2>6
      <3> QED BY <3>1, OvertakesStep DEF m
    <2> QED BY <2>3, <2>4, <2>5, <2>6
  <1>3. ClaimStart(c) => row'.owner = c
    <2>1. claimStart(c).owner = c
      BY DEF claimStart, TypeOK, Row
    <2> QED BY <2>1 DEF ClaimStart
  <1>4. \A d \in Copy : CopyStep(d)
    BY <1>2, <1>3, SameCopy
  <1>5. Overtook(c)
    BY <1>2 DEF Overtook, ClaimStart, ClaimRefused, ClaimStop
  <1>6. RowStep
    <2>1. CASE ClaimStart(c)
      <3>1. row' = [claimStart(c) EXCEPT !.status = "starting"]
        BY <2>1 DEF ClaimStart, claimStart, TypeOK, Row
      <3> QED BY <1>5, <3>1 DEF RowStep, Status
    <2>2. CASE ClaimRefused(c)
      BY <1>5, <2>2 DEF RowStep, Status, ClaimRefused
    <2>3. CASE ClaimStop(c)
      BY <1>5, <2>3 DEF RowStep, ClaimStop
    <2> QED BY <2>1, <2>2, <2>3
  <1> QED BY <1>1, <1>4, <1>6 DEF Effects

LEMMA StartEffects ==
    ASSUME TypeOK, ChainsInv, NEW c \in Copy, NextJob(c) \/ Start(c)
    PROVE  Effects
  <1> USE DEF Starting
  <1>0. mind \in [Copy -> Mind] /\ mind[c].job.of \in Container \cup {0}
    BY NamesType DEF TypeOK
  <1>1. /\ SaysOf("failed", 0, 0) \in Report
        /\ SaysOf("failed", 0, 0).kind # "ready" /\ SaysOf("failed", 0, 0).ref = 0
    BY SaysType DEF SaysOf
  <1>2. Tells(mind, c, SaysOf("failed", 0, 0)) \in [Copy -> Mind]
    BY <1>0, <1>1, TellsType
  <1>3. CASE NextJob(c)
    <2> DEFINE j == [step |-> IF mind[c].next = "start" THEN "list" ELSE "look", of |-> 0]
    <2>1. mind' = [mind EXCEPT ![c].next = "none", ![c].job = j]
      BY <1>3 DEF NextJob
    <2>2. mind[c] \in Mind /\ mind'[c] = [mind[c] EXCEPT !.next = "none", !.job = j]
      BY <1>0, <2>1
    <2>3. /\ mind'[c].chain = mind[c].chain /\ mind'[c].job = j
          /\ mind'[c].next = "none" /\ mind'[c].late = mind[c].late
      BY <2>2 DEF Mind
    <2>4. mind[c].job.step # "tell" /\ mind[c].job.step # "boot"
      BY <1>3 DEF NextJob, Idle
    <2>5. j.step \in {"list", "look"} /\ (j.step = "list" => hasStart(c))
      BY DEF hasStart
    <2>6. OneStatus(mind'[c]) /\ Owed(mind'[c]) = {}
      BY <2>3, <2>4, <2>5, TurnOwes DEF ChainsInv
    <2>7. hasStart(c)' => hasStart(c)
      BY <2>3, <2>5 DEF hasStart
    <2>8. CopyStep(c)
      <3> HIDE DEF j
      <3> QED BY <2>3, <2>5, <2>6, <2>7 DEF CopyStep
    <2>9. \A d \in Copy \ {c} : CopyStep(d)
      BY <1>0, <2>1, SameCopy
    <2> QED BY <1>3, <2>8, <2>9, RowSame, BoxSame, SockSame DEF Effects, NextJob
  <1>4. CASE ListExisting(c)
    <2>1. RowStep /\ BoxStep /\ SockStep
      BY <1>4, RowSame, BoxSame, SockSame DEF ListExisting
    <2>2. mind[c].job.step = "list"
      BY <1>4 DEF ListExisting, At
    <2>3. \A d \in Copy : CopyStep(d)
      <3>1. CASE Listed = {}
        <4>1. Agrees(Turn(c, "create", 0))
          BY <1>4, <3>1 DEF ListExisting, Agrees
        <4> QED BY <2>2, <3>1, <4>1, AgreeTurn
      <3>2. CASE Listed # {}
        <4>1. PICK n \in Listed : mind' = Turn(c, "replace", n)
          BY <1>4, <3>2 DEF ListExisting
        <4>2. Agrees(Turn(c, "replace", n))
          BY <4>1 DEF Agrees
        <4> QED BY <2>2, <4>2, AgreeTurn
      <3> QED BY <3>1, <3>2
    <2> QED BY <2>1, <2>3 DEF Effects
  <1>5. CASE ReplaceExisting(c)
    <2>1. /\ mind[c].job.step = "replace" /\ Leaves({mind[c].job.of}, "gone")
          /\ mind' = Watching(Turn(c, "create", 0), {mind[c].job.of})
      BY <1>5 DEF ReplaceExisting, At
    <2>2. SockStep /\ BoxStep /\ Listed' \subseteq Listed \ {mind[c].job.of}
      BY <2>1, LeavesStep
    <2>3. Turn(c, "create", 0) \in [Copy -> Mind]
      BY TurnType
    <2>4. \A d \in Copy : CopyStep(d)
      BY <2>1, <2>2, <2>3, WatchingAgrees, AgreeTurn
    <2> QED BY <1>5, <2>2, <2>4, RowSame DEF Effects, ReplaceExisting
  <1>6. CASE CreateContainer(c)
    <2>1. PICK n \in Container : /\ box' = [box EXCEPT ![n].at = "up"]
                                 /\ mind' = Turn(c, "record", n)
      BY <1>6 DEF CreateContainer
    <2>2. mind[c].job.step = "create"
      BY <1>6 DEF CreateContainer, At
    <2>3. \A d \in Copy : CopyStep(d)
      <3>1. Agrees(Turn(c, "record", n))
        BY <2>1 DEF Agrees
      <3> QED BY <2>2, <3>1, AgreeTurn
    <2>4. mind'[c].job.step = "record" /\ \A d \in Copy \ {c} : mind'[d] = mind[d]
      BY <1>0, <2>1 DEF Turn, Mind
    <2>5. Listed' = Listed \cup {n}
      <3>1. [box[n] EXCEPT !.at = "up"].at = "up" /\ box \in [Container -> Box]
        BY DEF TypeOK, Box
      <3>2. box'[n].at = "up" /\ \A k \in Container \ {n} : box'[k] = box[k]
        BY <2>1, <3>1
      <3> QED BY <3>2 DEF Listed
    <2>6. BoxStep
      BY <1>6, <2>2, <2>4, <2>5 DEF BoxStep, CreateContainer
    <2> QED BY <1>6, <2>3, <2>6, RowSame, SockSame DEF Effects, CreateContainer
  <1>7. CASE RecordSpawn(c)
    <2> DEFINE n == mind[c].job.of
    <2>1. mind[c].job.step = "record"
      BY <1>7 DEF RecordSpawn, At
    <2>2. SockStep /\ BoxStep
      BY <1>7, SockSame, BoxSame DEF RecordSpawn
    <2>3. CASE recordSpawnApplies(c)
      <3>1. row' = recordSpawn(n) /\ mind' = Turn(c, "boot", n)
        BY <1>7, <2>3 DEF RecordSpawn
      <3>2. \A d \in Copy : CopyStep(d)
        <4>1. Agrees(Turn(c, "boot", n))
          BY <3>1 DEF Agrees
        <4> QED BY <2>1, <2>3, <3>1, <4>1, AgreeTurn
      <3>3. mind'[c].job.step = "boot" /\ mind'[c].job.of = n /\ mind'[c].chain = mind[c].chain
        BY <1>0, <3>1 DEF Turn, Mind
      <3>4. Owed(mind'[c]) \subseteq {n}
        BY <2>1, <3>3, TurnOwes DEF ChainsInv
      <3> QED BY <2>2, <2>3, <3>1, <3>2, <3>4 DEF Effects, RowStep
    <2>4. CASE ~recordSpawnApplies(c)
      <3>1. Agrees(Turn(c, "leave", n)) /\ row' = row
        BY <1>7, <2>4 DEF RecordSpawn, Agrees
      <3> QED BY <2>1, <2>2, <3>1, AgreeTurn, RowSame DEF Effects
    <2> QED BY <2>3, <2>4
  <1>8. CASE SpawnUnanswered(c)
    <2> DEFINE n == mind[c].job.of
    <2>1. mind[c].job.step = "record"
      BY <1>8 DEF SpawnUnanswered, At
    <2>2. SockStep /\ BoxStep
      BY <1>8, SockSame, BoxSame DEF SpawnUnanswered
    <2>3. \A d \in Copy : CopyStep(d)
      <3>1. Agrees(Turn(c, "undo", n))
        BY <1>8 DEF SpawnUnanswered, Agrees
      <3> QED BY <2>1, <3>1, AgreeTurn
    <2>4. mind'[c].job.step = "undo" /\ mind'[c].chain = mind[c].chain
      BY <1>0, <1>8 DEF SpawnUnanswered, Turn, Mind
    <2>5. Owed(mind'[c]) = {}
      BY <2>1, <2>4, TurnOwes DEF ChainsInv
    <2>6. RowStep
      <3>1. row' = row \/ (recordSpawnApplies(c) /\ row' = recordSpawn(n))
        <4>1. row' \in {row} \cup (IF recordSpawnApplies(c) THEN {recordSpawn(n)} ELSE {})
          BY <1>8 DEF SpawnUnanswered
        <4>2. CASE recordSpawnApplies(c)
          BY <4>1, <4>2
        <4>3. CASE ~recordSpawnApplies(c)
          BY <4>1, <4>3
        <4> QED BY <4>2, <4>3
      <3> QED BY <2>5, <3>1, RowSame DEF RowStep
    <2> QED BY <2>2, <2>3, <2>6 DEF Effects
  <1>9. CASE RemoveQuietly(c)
    <2> DEFINE n == mind[c].job.of
               after == IF mind[c].job.step = "undo" THEN Tells(mind, c, SaysOf("failed", 0, 0))
                                                     ELSE Turn(c, "idle", 0)
    <2>1. mind[c].job.step \in {"undo", "leave"} /\ row' = row
      BY <1>9 DEF RemoveQuietly
    <2>2. after \in [Copy -> Mind]
      BY <1>2, TurnType
    <2>3. \/ Leaves({n}, "gone") /\ mind' = Watching(after, {n})
          \/ mind' = after /\ box' = box /\ sock' = sock
      BY <1>9 DEF RemoveQuietly
    <2>4. SockStep /\ BoxStep
      BY <2>3, LeavesStep, SockSame, BoxSame
    <2>5. Agrees(after)
      <3> HIDE DEF after
      <3>1. CASE mind' = after
        BY <3>1 DEF Agrees
      <3> QED BY <2>2, <2>3, <3>1, WatchingAgrees
    <2>6. \A d \in Copy : CopyStep(d)
      <3>1. CASE mind[c].job.step = "undo"
        BY <1>1, <2>1, <2>5, <3>1, AgreeTell
      <3>2. CASE mind[c].job.step = "leave"
        BY <2>1, <2>5, <3>2, AgreeTurn
      <3> QED BY <2>1, <3>1, <3>2
    <2> QED BY <2>1, <2>4, <2>6, RowSame DEF Effects
  <1>10. CASE BootContainer(c)
    <2> DEFINE n == mind[c].job.of
               e == SaysOf("starting", n, 0)
    <2>1. /\ mind[c].job.step = "boot" /\ mind' = Tells(mind, c, e)
          /\ row' = row /\ box' = box /\ sock' = sock
      BY <1>10 DEF BootContainer, At
    <2>2. e \in Report /\ e.kind # "ready" /\ e.ref = n
      BY <1>0, SaysType DEF SaysOf
    <2>3. mind[c].job = [step |-> "boot", of |-> n]
      BY <2>1, NamesType DEF Job
    <2>4. \A d \in Copy : CopyStep(d)
      <3> HIDE DEF e
      <3>1. Agrees(Tells(mind, c, e))
        BY <2>1 DEF Agrees
      <3> QED BY <2>1, <2>2, <2>3, <3>1, AgreeTell
    <2> QED BY <2>1, <2>4, RowSame, BoxSame, SockSame DEF Effects
  <1>11. CASE StartFails(c)
    <2> DEFINE n == mind[c].job.of
               failed == Tells(mind, c, SaysOf("failed", 0, 0))
    <2>1. mind[c].job.step \in {"list", "replace", "create", "boot"} /\ row' = row
      BY <1>11 DEF StartFails
    <2>2. /\ Leaves({n}, "gone") \/ (box' = box /\ sock' = sock)
          /\ mind' = failed \/ mind' = Watching(failed, {n})
      <3> HIDE DEF failed
      <3>1. IF mind[c].job.step = "replace"
            THEN MayEnd(n) /\ mind' = EndedBy(failed, n)
            ELSE mind' = failed /\ UNCHANGED <<box, sock>>
        BY <1>11 DEF StartFails, failed
      <3>2. CASE mind[c].job.step = "replace"
        BY <3>1, <3>2 DEF MayEnd, EndedBy
      <3>3. CASE mind[c].job.step # "replace"
        BY <3>1, <3>3
      <3> QED BY <3>2, <3>3
    <2>3. SockStep /\ BoxStep
      BY <2>2, LeavesStep, SockSame, BoxSame
    <2>4. Agrees(failed)
      <3> HIDE DEF failed
      <3>1. CASE mind' = failed
        BY <3>1 DEF Agrees
      <3> QED BY <1>2, <2>2, <3>1, WatchingAgrees DEF failed
    <2>5. \A d \in Copy : CopyStep(d)
      BY <1>1, <2>1, <2>4, AgreeTell
    <2> QED BY <2>1, <2>3, <2>5, RowSame DEF Effects
  <1> QED BY <1>3, <1>4, <1>5, <1>6, <1>7, <1>8, <1>9, <1>10, <1>11 DEF Start

LEMMA StopEffects ==
    ASSUME TypeOK, ChainsInv, NEW c \in Copy, Stop(c)
    PROVE  Effects
  <1> USE DEF Starting, Stopping
  <1>0. mind \in [Copy -> Mind] /\ mind[c] \in Mind /\ mind[c].job.of \in Container \cup {0}
    BY NamesType DEF TypeOK
  <1>1. /\ mind[c].job.step \in Stopping /\ row' = row
        /\ mind[c].job.step # "tell" /\ mind[c].job.step # "boot"
    BY DEF Stop, LookForContainer, StopContainer, SweepStray, StopFails, At
  <1>2. SockStep /\ BoxStep
    BY LeavesStep, SockSame, BoxSame
       DEF Stop, LookForContainer, StopContainer, SweepStray, StopFails, MayEnd
  <1>3. ASSUME NEW e \in Report, e.kind # "ready", e.ref = 0, NEW ns,
               mind' \in {Tells(mind, c, e), Watching(Tells(mind, c, e), ns)}
        PROVE  \A d \in Copy : CopyStep(d)
    <2>1. Tells(mind, c, e) \in [Copy -> Mind]
      BY <1>0, TellsType
    <2>2. CASE mind' = Tells(mind, c, e)
      BY <1>1, <1>3, <2>2, AgreeTell DEF Agrees
    <2>3. CASE mind' = Watching(Tells(mind, c, e), ns)
      BY <1>1, <1>3, <2>1, <2>3, WatchingAgrees, AgreeTell
    <2> QED BY <1>3, <2>2, <2>3
  <1>4. \A kind \in {"stopped", "failed"}, n \in Container \cup {0} :
          LET e == SaysOf(kind, 0, n) IN e \in Report /\ e.kind # "ready" /\ e.ref = 0
    BY SaysType DEF SaysOf
  <1>5. CASE LookForContainer(c)
    <2>1. CASE Listed = {}
      BY <1>3, <1>4, <1>5, <2>1, <1>1, <1>2, RowSame DEF LookForContainer, Effects
    <2>2. CASE Listed # {}
      <3>1. PICK n \in Listed : mind' = Turn(c, "stop", n)
        BY <1>5, <2>2 DEF LookForContainer
      <3>2. Agrees(Turn(c, "stop", n))
        BY <3>1 DEF Agrees
      <3> QED BY <1>1, <1>2, <3>2, AgreeTurn, RowSame DEF Effects
    <2> QED BY <2>1, <2>2
  <1>6. CASE StopContainer(c)
    BY <1>1, <1>2, <1>3, <1>4, <1>6, RowSame DEF StopContainer, Effects
  <1>7. CASE SweepStray(c)
    BY <1>0, <1>1, <1>2, <1>3, <1>4, <1>7, RowSame DEF SweepStray, Effects
  <1>8. CASE StopFails(c)
    <2> DEFINE n == mind[c].job.of
               r == [mind EXCEPT ![c].stray = @ \ {n}, ![c].job = Idle]
    <2>1. CASE mind[c].job.step # "sweep"
      <3>1. mind' \in {Tells(mind, c, SaysOf("failed", 0, 0)),
                       Watching(Tells(mind, c, SaysOf("failed", 0, 0)), {n})}
        BY <1>8, <2>1 DEF StopFails, EndedBy
      <3> QED BY <1>1, <1>2, <1>3, <1>4, <3>1, RowSame DEF Effects
    <2>2. CASE mind[c].job.step = "sweep"
      <3>1. mind' = r \/ mind' = Watching(r, {n})
        BY <1>8, <2>2 DEF StopFails, EndedBy
      <3>2. [mind[c] EXCEPT !.stray = @ \ {n}, !.job = Idle] \in Mind
        <4>1. Idle \in Job /\ mind[c].stray \ {n} \in SUBSET Container
          BY NamesType DEF Job, Idle
        <4> QED BY <1>0, <4>1 DEF Mind
      <3>3. r \in [Copy -> Mind] /\ \A d \in Copy \ {c} : r[d] = mind[d]
        BY <1>0, <3>2
      <3>4. /\ r[c].chain = mind[c].chain /\ r[c].job = Idle
            /\ r[c].next = mind[c].next /\ r[c].late = mind[c].late
        BY <1>0 DEF Mind
      <3> HIDE DEF r
      <3>5. Agrees(r)
        <4>1. CASE mind' = r
          BY <4>1 DEF Agrees
        <4> QED BY <3>1, <3>3, <4>1, WatchingAgrees
      <3>6. \A d \in Copy \ {c} : CopyStep(d)
        BY <3>3, <3>5, SameCopy DEF Agrees
      <3>7. CopyStep(c)
        <4>1. /\ mind'[c].chain = mind[c].chain /\ mind'[c].job = Idle
              /\ mind'[c].next = mind[c].next /\ mind'[c].late = mind[c].late
          BY <3>4, <3>5 DEF Agrees
        <4>0. Idle.step = "idle"
          BY DEF Idle
        <4>2. OneStatus(mind'[c]) /\ Owed(mind'[c]) = {}
          BY <1>1, <4>0, <4>1, TurnOwes DEF ChainsInv
        <4>3. hasStart(c)' => hasStart(c)
          BY <4>1 DEF hasStart, Idle
        <4> QED BY <4>1, <4>2, <4>3 DEF CopyStep, Idle
      <3> QED BY <1>1, <1>2, <3>6, <3>7, RowSame DEF Effects
    <2> QED BY <2>1, <2>2
  <1> QED BY <1>5, <1>6, <1>7, <1>8 DEF Stop

\* A report's status: only the channel's holder makes it "running".
LEMMA EventStep ==
    ASSUME TypeOK, NEW c \in Copy, NEW e \in Report, row' = applyRunnerEvent(c, e)
    PROVE  RowStep
  <1> DEFINE s == IF e.kind = "ready" THEN "running" ELSE e.kind
  <1>1. s \in Status /\ (s = "running" => e.kind = "ready")
    BY DEF Report, Status
  <1>2. CASE reportApplies(c, e)
    <2>1. row' = [row EXCEPT !.status = s]
      BY <1>2 DEF applyRunnerEvent
    <2>2. s = "running" => row.holder # 0
      BY <1>1, <1>2, Numbers DEF reportApplies
    <2> HIDE DEF s
    <2> QED BY <1>1, <2>1, <2>2 DEF RowStep
  <1>3. CASE ~reportApplies(c, e)
    BY <1>3, RowSame DEF applyRunnerEvent
  <1> QED BY <1>2, <1>3

LEMMA PostedStep ==
    ASSUME TypeOK, ChainsInv, NEW c \in Copy, mind[c].chain # << >>, mind' = Posted(c)
    PROVE  \A d \in Copy : CopyStep(d)
  <1> DEFINE j == IF Head(mind[c].chain).kind = "ready" THEN mind[c].job ELSE Idle
  <1>1. mind \in [Copy -> Mind] /\ mind[c] \in Mind /\ mind[c].chain \in Seq(Report)
    BY NamesType DEF TypeOK
  <1>2. /\ mind'[c] = [mind[c] EXCEPT !.chain = Tail(mind[c].chain), !.job = j]
        /\ \A d \in Copy \ {c} : mind'[d] = mind[d]
    BY <1>1 DEF Posted
  <1>3. /\ mind'[c].chain = Tail(mind[c].chain) /\ mind'[c].job = j
        /\ mind'[c].next = mind[c].next /\ mind'[c].late = mind[c].late
    BY <1>1, <1>2 DEF Mind
  <1>4. OneStatus(mind'[c]) /\ Owed(mind'[c]) \subseteq Owed(mind[c])
    BY <1>1, <1>3, PostChain DEF ChainsInv
  <1>5. j = mind[c].job \/ j.step = "idle"
    BY DEF Idle
  <1>6. hasStart(c)' => hasStart(c)
    BY <1>3, <1>5 DEF hasStart, Starting
  <1>7. CopyStep(c)
    <2> HIDE DEF j
    <2> QED BY <1>3, <1>4, <1>5, <1>6 DEF CopyStep
  <1>8. \A d \in Copy \ {c} : CopyStep(d)
    BY <1>2, SameCopy
  <1> QED BY <1>7, <1>8

LEMMA ReportEffects ==
    ASSUME TypeOK, ChainsInv, NEW c \in Copy,
           PostRef(c) \/ PostReport(c) \/ Heartbeat(c) \/ PostAside(c) \/ ReportLost(c)
    PROVE  Effects
  <1>0. mind \in [Copy -> Mind] /\ mind[c] \in Mind /\ mind[c].chain \in Seq(Report)
    BY NamesType DEF TypeOK
  <1>1. SockStep /\ BoxStep
    BY SockSame, BoxSame DEF PostRef, PostReport, Heartbeat, PostAside, ReportLost
  <1>2. ASSUME NEW e, mind' = [mind EXCEPT ![c].aside = @ \ {e}]
        PROVE  \A d \in Copy : CopyStep(d)
    <2> DEFINE r == [mind[c] EXCEPT !.aside = mind[c].aside \ {e}]
    <2>1. r.chain = mind[c].chain /\ r.job = mind[c].job /\ r.next = mind[c].next /\ r.late = mind[c].late
      BY <1>0 DEF Mind
    <2>2. mind' = [mind EXCEPT ![c] = r]
      BY <1>2
    <2> HIDE DEF r
    <2>3. Agrees(mind)
      BY <2>1, <2>2, CopyAgrees
    <2> QED BY <2>3, SameCopies
  <1>3. CASE PostRef(c)
    <2> DEFINE n == Head(mind[c].chain).ref
               t == [mind[c].chain EXCEPT ![1].ref = 0]
    <2>1. mind[c].chain # << >> /\ n # 0
      BY <1>3 DEF PostRef
    <2>2. 1 \in DOMAIN mind[c].chain /\ Head(mind[c].chain) = mind[c].chain[1]
      BY <1>0, <2>1
    <2>3. n \in Container
      <3>1. Head(mind[c].chain) \in Report
        BY <1>0, <2>1
      <3> QED BY <2>1, <3>1 DEF Report
    <2>4. n \in Owed(mind[c])
      BY <2>2, <2>3 DEF Owed
    <2>5. RowStep
      <3>1. CASE row.owner = c
        BY <1>3, <2>4, <3>1 DEF RowStep, PostRef
      <3>2. CASE row.owner # c
        BY <1>3, <3>2, RowSame DEF PostRef
      <3> QED BY <3>1, <3>2
    <2>6. /\ mind'[c] = [mind[c] EXCEPT !.chain = t]
          /\ \A d \in Copy \ {c} : mind'[d] = mind[d]
      BY <1>0, <1>3 DEF PostRef
    <2>7. /\ mind'[c].chain = t /\ mind'[c].job = mind[c].job
          /\ mind'[c].next = mind[c].next /\ mind'[c].late = mind[c].late
      BY <1>0, <2>6 DEF Mind
    <2>8. OneStatus(mind'[c]) /\ Owed(mind'[c]) \subseteq Owed(mind[c])
      BY <1>0, <2>1, <2>7, RefChain DEF ChainsInv
    <2>9. hasStart(c)' => hasStart(c)
      BY <2>7 DEF hasStart
    <2>10. CopyStep(c)
      BY <2>7, <2>8, <2>9 DEF CopyStep
    <2>11. \A d \in Copy \ {c} : CopyStep(d)
      BY <2>6, SameCopy
    <2> QED BY <1>1, <2>5, <2>10, <2>11 DEF Effects
  <1>4. CASE PostReport(c)
    <2>1. Head(mind[c].chain) \in Report
      BY <1>0, <1>4 DEF PostReport
    <2> QED BY <1>1, <1>4, <2>1, EventStep, PostedStep DEF Effects, PostReport
  <1>5. CASE Heartbeat(c)
    <2>1. SaysOf("starting", 0, 0) \in Report
      BY SaysType
    <2>2. Agrees(mind)
      BY <1>5 DEF Heartbeat, Agrees
    <2> QED BY <1>1, <1>5, <2>1, <2>2, EventStep, SameCopies DEF Effects, Heartbeat
  <1>6. CASE PostAside(c)
    <2>1. PICK e \in mind[c].aside : /\ row' = applyRunnerEvent(c, e)
                                     /\ mind' = [mind EXCEPT ![c].aside = @ \ {e}]
      BY <1>6 DEF PostAside
    <2>2. e \in Report
      BY <2>1, NamesType
    <2> QED BY <1>1, <1>2, <2>1, <2>2, EventStep DEF Effects
  <1>7. CASE ReportLost(c)
    <2>1. \/ mind[c].chain # << >> /\ mind' = Posted(c)
          \/ \E e \in mind[c].aside : mind' = [mind EXCEPT ![c].aside = @ \ {e}]
      BY <1>7 DEF ReportLost
    <2>2. \A d \in Copy : CopyStep(d)
      BY <1>2, <2>1, PostedStep
    <2> QED BY <1>1, <1>7, <2>2, RowSame DEF Effects, ReportLost
  <1> QED BY <1>3, <1>4, <1>5, <1>6, <1>7

LEMMA SocketEffects ==
    ASSUME TypeOK, ChainsInv, SocketsInv, NEW k \in Socket,
           \/ Admit(k) \/ AdmitUnanswered(k) \/ SettleOwedClaim(k) \/ Release(k)
           \/ SocketDrops(k) \/ SupervisorReady(k)
    PROVE  Effects
  <1>0. /\ sock \in [Socket -> Sock] /\ sock[k] \in Sock /\ mind \in [Copy -> Mind]
        /\ sock[k].at # "none"
    BY NamesType DEF TypeOK, Admit, AdmitUnanswered, Asking, SettleOwedClaim, Release, SocketDrops,
                     SupervisorReady
  <1>1. \A at \in {"refused", "closing", "closed"} : sock' = [sock EXCEPT ![k].at = at] => SockStep
    <2>1. \A at : LET r == [sock[k] EXCEPT !.at = at]
                 IN  r.at = at /\ r.of = sock[k].of /\ r.on = sock[k].on
      BY <1>0 DEF Sock
    <2> QED BY <1>0, <2>1 DEF SockStep
  <1>2. \A owed \in BOOLEAN : sock' = Attached(k, owed) => SockStep
    <2>1. \A at, owed : LET r == [sock[k] EXCEPT !.at = at, !.owed = owed]
                       IN  r.at = at /\ r.of = sock[k].of /\ r.on = sock[k].on
      BY <1>0 DEF Sock
    <2>2. \A j \in Socket : LET r == [sock[j] EXCEPT !.at = "closing"]
                           IN  r.at = "closing" /\ r.of = sock[j].of /\ r.on = sock[j].on
      BY <1>0 DEF Sock
    <2> QED BY <1>0, <2>1, <2>2 DEF SockStep, Attached, OpenOn
  <1>3. mind' = LooksAfter(k) => \A d \in Copy : CopyStep(d)
    <2> SUFFICES ASSUME mind' = LooksAfter(k) PROVE \A d \in Copy : CopyStep(d)
      OBVIOUS
    <2> DEFINE c == sock[k].on
               w == IF box[sock[k].of].at # "up" /\ heard[c] # "retired" THEN sock[k].of ELSE mind[c].watch
               r == [mind[c] EXCEPT !.watch = w]
    <2>1. mind' = [mind EXCEPT ![c] = r]
      BY DEF LooksAfter
    <2>2. c \in Copy => /\ r.chain = mind[c].chain /\ r.job = mind[c].job
                        /\ r.next = mind[c].next /\ r.late = mind[c].late
      <3> HIDE DEF w
      <3> QED BY <1>0 DEF Mind
    <2>3. c \in Copy
      BY <1>0, NamesType DEF SocketsInv
    <2> HIDE DEF r
    <2> QED BY <2>1, <2>2, <2>3, CopyAgrees, SameCopies
  <1>4. mind' = mind => \A d \in Copy : CopyStep(d)
    BY SameCopies DEF Agrees
  <1>5. CASE Admit(k)
    <2>1. CASE doorApplies(k)
      <3>1. Listed' = Listed
        <4>1. \A n \in Container : [box[n] EXCEPT !.session = TRUE].at = box[n].at
          BY DEF TypeOK, Box
        <4>2. \A n \in Container : box'[n].at = box[n].at
          BY <1>5, <2>1, <4>1 DEF Admit, TypeOK
        <4> QED BY <4>2 DEF Listed
      <3>2. RowStep
        BY <1>0, <1>5, <2>1 DEF RowStep, Admit
      <3> QED BY <1>2, <1>3, <1>5, <2>1, <3>1, <3>2 DEF Effects, BoxStep, Admit
    <2>2. CASE ~doorApplies(k)
      BY <1>1, <1>4, <1>5, <2>2, RowSame, BoxSame DEF Effects, Admit
    <2> QED BY <2>1, <2>2
  <1>6. CASE AdmitUnanswered(k)
    <2>1. RowStep
      <3>1. CASE doorApplies(k)
        BY <1>0, <1>6, <3>1, RowSame DEF RowStep, AdmitUnanswered
      <3>2. CASE ~doorApplies(k)
        BY <1>6, <3>2, RowSame DEF AdmitUnanswered
      <3> QED BY <3>1, <3>2
    <2>2. SockStep /\ \A d \in Copy : CopyStep(d)
      BY <1>1, <1>2, <1>3, <1>4, <1>6 DEF AdmitUnanswered
    <2> QED BY <1>6, <2>1, <2>2, BoxSame DEF Effects, AdmitUnanswered
  <1>7. CASE SettleOwedClaim(k)
    <2>1. SockStep
      <3>1. \A at, owed : LET r == [sock[k] EXCEPT !.owed = owed, !.at = at]
                         IN  r.at = at /\ r.of = sock[k].of /\ r.on = sock[k].on
        BY <1>0 DEF Sock
      <3>2. \A owed : LET r == [sock[k] EXCEPT !.owed = owed]
                     IN  r.at = sock[k].at /\ r.of = sock[k].of /\ r.on = sock[k].on
        BY <1>0 DEF Sock
      <3>3. CASE sock' = [sock EXCEPT ![k].owed = FALSE]
        BY <1>0, <3>2, <3>3 DEF SockStep
      <3>4. CASE sock' = [sock EXCEPT ![k].owed = FALSE, ![k].at = "closing"]
        BY <1>0, <3>1, <3>4 DEF SockStep
      <3> QED BY <1>7, <3>3, <3>4 DEF SettleOwedClaim
    <2>2. RowStep
      BY <1>0, <1>7, RowSame DEF RowStep, SettleOwedClaim
    <2> QED BY <1>4, <1>7, <2>1, <2>2, BoxSame DEF Effects, SettleOwedClaim
  <1>8. CASE Release(k)
    <2>1. RowStep
      BY <1>8, RowSame DEF RowStep, Release, releaseApplies
    <2> QED BY <1>1, <1>4, <1>8, <2>1, BoxSame DEF Effects, Release
  <1>9. CASE SocketDrops(k)
    <2>1. \A d \in Copy : CopyStep(d)
      BY <1>0, <1>9, WatchingAgrees, SameCopies DEF SocketDrops
    <2> QED BY <1>1, <1>9, <2>1, RowSame, BoxSame DEF Effects, SocketDrops
  <1>10. CASE SupervisorReady(k)
    <2>0. PICK c \in Copy : c = sock[k].on
      BY <1>0, NamesType DEF SocketsInv
    <2> DEFINE t == Append(mind[c].chain, SaysOf("ready", 0, 0))
    <2>1. /\ mind'[c] = [mind[c] EXCEPT !.chain = t] /\ mind[c] \in Mind
          /\ mind[c].chain \in Seq(Report)
          /\ \A d \in Copy \ {c} : mind'[d] = mind[d]
      BY <1>0, <1>10, <2>0, NamesType DEF SupervisorReady
    <2>2. /\ mind'[c].chain = t /\ mind'[c].job = mind[c].job
          /\ mind'[c].next = mind[c].next /\ mind'[c].late = mind[c].late
      BY <2>1 DEF Mind
    <2>3. OneStatus(mind'[c]) /\ Owed(mind'[c]) \subseteq Owed(mind[c])
      BY <2>0, <2>1, <2>2, ReadyChain DEF ChainsInv
    <2>4. hasStart(c)' => hasStart(c)
      BY <2>2 DEF hasStart
    <2>5. CopyStep(c)
      BY <2>2, <2>3, <2>4 DEF CopyStep
    <2>6. \A d \in Copy \ {c} : CopyStep(d)
      BY <2>1, SameCopy
    <2>7. Listed' = Listed
      <3>1. \A n \in Container : [box[n] EXCEPT !.told = TRUE].at = box[n].at
        BY DEF TypeOK, Box
      <3>2. \A n \in Container : box'[n].at = box[n].at
        BY <1>10, <3>1 DEF SupervisorReady, TypeOK
      <3> QED BY <3>2 DEF Listed
    <2> QED BY <1>10, <2>5, <2>6, <2>7, RowSame, SockSame DEF Effects, BoxStep, SupervisorReady
  <1> QED BY <1>5, <1>6, <1>7, <1>8, <1>9, <1>10

\* A pass ends: the copy's work stays as it is.
LEMMA EndsAgrees ==
    ASSUME NEW m \in [Copy -> Mind], NEW c \in Copy
    PROVE  \A d \in Copy : /\ Ends(m, c)[d].chain = m[d].chain /\ Ends(m, c)[d].job = m[d].job
                           /\ Ends(m, c)[d].next = m[d].next /\ Ends(m, c)[d].late = m[d].late
  <1> DEFINE r == [m[c] EXCEPT !.reading = FALSE, !.pass = NotReading, !.missed = FALSE]
  <1>1. Ends(m, c)[c] = r /\ \A d \in Copy \ {c} : Ends(m, c)[d] = m[d]
    BY DEF Ends
  <1>2. r.chain = m[c].chain /\ r.job = m[c].job /\ r.next = m[c].next /\ r.late = m[c].late
    BY DEF Mind
  <1> HIDE DEF r
  <1> QED BY <1>1, <1>2

\* The stop of a stray is a claim, and its copy had nothing in hand.
LEMMA StrayEffects ==
    ASSUME TypeOK, ChainsInv, NEW c \in Copy, ~inFlight(c), row' = claimStop(c),
           lifecycleFreeFor(c), SockStep, BoxStep,
           NEW m, Agrees(m),
           \A d \in Copy \ {c} : m[d] = Overtakes(c)[d],
           m[c].chain = mind[c].chain, m[c].next = mind[c].next, m[c].late = mind[c].late,
           m[c].job.step \in {"sweep", "idle"}
    PROVE  Effects
  <1>1. mind[c].job.step = "idle" /\ mind[c].next = "none"
    BY DEF inFlight, Idle
  <1>2. OneStatus(mind'[c]) /\ Owed(mind'[c]) = {} /\ Owed(mind[c]) = {}
    BY <1>1, TurnOwes DEF ChainsInv, Agrees
  <1>3. ~hasStart(c)'
    BY <1>1 DEF hasStart, Starting, Agrees
  <1>4. CopyStep(c)
    BY <1>2, <1>3 DEF CopyStep, Agrees
  <1>5. ASSUME NEW d \in Copy \ {c} PROVE CopyStep(d)
    BY OvertakesStep, SameCopy DEF Agrees
  <1>6. Overtook(c)
    BY OvertakesStep DEF Overtook, Agrees
  <1> QED BY <1>2, <1>4, <1>5, <1>6 DEF Effects, RowStep

LEMMA PassEffects ==
    ASSUME TypeOK, ChainsInv, NEW c \in Copy, LookAtClosed(c) \/ BeginPass(c) \/ Verdict(c)
    PROVE  Effects
  <1>0. mind \in [Copy -> Mind] /\ mind[c] \in Mind /\ Listed \subseteq Container
    BY NamesType DEF TypeOK
  <1>1. SockStep /\ BoxStep
    BY SockSame, BoxSame, LeavesStep
       DEF LookAtClosed, BeginPass, Verdict, PassReportsDead, PassFindsBootCrash, PassStopsStray,
           StrayUnanswered, PassFindsNone, PassLeaves
  <1>2. \A kind \in {"stopped", "failed"}, n \in Container :
            ReportsDead(c, kind, n) \in [Copy -> Mind] /\
            \A d \in Copy : /\ ReportsDead(c, kind, n)[d].chain = mind[d].chain
                            /\ ReportsDead(c, kind, n)[d].job = mind[d].job
                            /\ ReportsDead(c, kind, n)[d].next = mind[d].next
                            /\ ReportsDead(c, kind, n)[d].late = mind[d].late
    <2> SUFFICES ASSUME NEW kind \in {"stopped", "failed"}, NEW n \in Container
                 PROVE  ReportsDead(c, kind, n) \in [Copy -> Mind] /\
                        \A d \in Copy : /\ ReportsDead(c, kind, n)[d].chain = mind[d].chain
                                        /\ ReportsDead(c, kind, n)[d].job = mind[d].job
                                        /\ ReportsDead(c, kind, n)[d].next = mind[d].next
                                        /\ ReportsDead(c, kind, n)[d].late = mind[d].late
      OBVIOUS
    <2> DEFINE r == [mind[c] EXCEPT !.dead = mind[c].dead \cup {n},
                                    !.aside = mind[c].aside \cup {SaysOf(kind, 0, n)}]
    <2>1. /\ mind[c].dead \cup {n} \in SUBSET Container
          /\ mind[c].aside \cup {SaysOf(kind, 0, n)} \in SUBSET Report
      <3>1. SaysOf(kind, 0, n) \in Report
        BY SaysType
      <3>2. mind[c].dead \subseteq Container /\ mind[c].aside \subseteq Report
        BY NamesType
      <3> QED BY <3>1, <3>2
    <2>2. r \in Mind /\ r.chain = mind[c].chain /\ r.job = mind[c].job
          /\ r.next = mind[c].next /\ r.late = mind[c].late
      BY <1>0, <2>1 DEF Mind
    <2>3. ReportsDead(c, kind, n) = [mind EXCEPT ![c] = r]
      BY DEF ReportsDead
    <2> HIDE DEF r
    <2> QED BY <1>0, <2>2, <2>3
  <1>3. row' = row /\ Agrees(mind) => Effects
    BY <1>1, RowSame, SameCopies DEF Effects
  <1>4. CASE LookAtClosed(c)
    <2> DEFINE n == mind[c].watch
               r == [mind[c] EXCEPT !.watch = 0]
               s == [mind[c] EXCEPT !.watch = 0, !.dead = mind[c].dead \cup {n},
                                    !.aside = mind[c].aside \cup {SaysOf("stopped", 0, n)}]
    <2>1. /\ r.chain = mind[c].chain /\ r.job = mind[c].job
          /\ r.next = mind[c].next /\ r.late = mind[c].late
          /\ s.chain = mind[c].chain /\ s.job = mind[c].job
          /\ s.next = mind[c].next /\ s.late = mind[c].late
      BY <1>0 DEF Mind
    <2>2. mind' = [mind EXCEPT ![c] = r] \/ mind' = [mind EXCEPT ![c] = s]
      BY <1>4 DEF LookAtClosed
    <2> HIDE DEF r, s
    <2> QED BY <1>3, <1>4, <2>1, <2>2, CopyAgrees DEF LookAtClosed
  <1>5. CASE BeginPass(c)
    <2> DEFINE p == [status |-> row.status, ref |-> row.ref, channel |-> channelStateOf(row)]
               r == [mind[c] EXCEPT !.reading = TRUE, !.pass = p]
    <2>1. r.chain = mind[c].chain /\ r.job = mind[c].job /\ r.next = mind[c].next /\ r.late = mind[c].late
      <3> HIDE DEF p
      <3> QED BY <1>0 DEF Mind
    <2>2. mind' = [mind EXCEPT ![c] = r]
      BY <1>5 DEF BeginPass
    <2>3. Agrees(mind)
      <3> HIDE DEF r
      <3> QED BY <2>1, <2>2, CopyAgrees
    <2> QED BY <1>3, <1>5, <2>3 DEF BeginPass
  <1>6. CASE PassReportsDead(c)
    <2>1. PICK n \in Listed \ mind[c].dead : mind' = Ends(ReportsDead(c, "stopped", n), c)
      BY <1>6 DEF PassReportsDead
    <2>2. Agrees(mind)
      BY <1>0, <1>2, <2>1, EndsAgrees DEF Agrees
    <2> QED BY <1>3, <1>6, <2>2 DEF PassReportsDead
  <1>7. CASE PassFindsBootCrash(c)
    <2>1. PICK n \in Listed \ mind[c].dead : mind' = Ends(ReportsDead(c, "failed", n), c)
      BY <1>7 DEF PassFindsBootCrash
    <2>2. Agrees(mind)
      BY <1>0, <1>2, <2>1, EndsAgrees DEF Agrees
    <2> QED BY <1>3, <1>7, <2>2 DEF PassFindsBootCrash
  <1>8. CASE PassStopsStray(c)
    <2>0. ~inFlight(c)
      BY <1>8 DEF PassStopsStray
    <2>1. PICK n \in Listed :
            IF strayStopApplies(c, n)
            THEN /\ row' = claimStop(c)
                 /\ mind' = Ends([Overtakes(c) EXCEPT ![c].stray = @ \cup {n},
                                              ![c].job = [step |-> "sweep", of |-> n]], c)
            ELSE mind' = Ends(mind, c) /\ UNCHANGED row
      BY <1>8 DEF PassStopsStray
    <2>2. CASE strayStopApplies(c, n)
      <3> DEFINE j == [step |-> "sweep", of |-> n]
                 r == [mind[c] EXCEPT !.stray = mind[c].stray \cup {n}, !.job = j]
                 m == [Overtakes(c) EXCEPT ![c] = r]
      <3>1. /\ r.chain = mind[c].chain /\ r.job = j
            /\ r.next = mind[c].next /\ r.late = mind[c].late
        BY <1>0 DEF Mind
      <3>2. j \in Job /\ j.step = "sweep" /\ mind[c].stray \cup {n} \in SUBSET Container
        BY <1>0, NamesType DEF Job, Stopping
      <3>3. r \in Mind
        BY <1>0, <3>2 DEF Mind
      <3>4. row' = claimStop(c) /\ mind' = Ends(m, c)
        BY <2>1, <2>2, OvertakesStep
      <3> HIDE DEF r, j
      <3>5. m \in [Copy -> Mind] /\ m[c] = r /\ \A d \in Copy \ {c} : m[d] = Overtakes(c)[d]
        BY <3>3, OvertakesType
      <3> HIDE DEF m
      <3>6. Agrees(m)
        BY <3>4, <3>5, EndsAgrees DEF Agrees
      <3>7. lifecycleFreeFor(c)
        BY <2>2 DEF strayStopApplies
      <3> QED BY <1>1, <2>0, <3>1, <3>2, <3>4, <3>5, <3>6, <3>7, StrayEffects
    <2>3. CASE ~strayStopApplies(c, n)
      BY <1>0, <1>3, <2>1, <2>3, EndsAgrees DEF Agrees
    <2> QED BY <2>2, <2>3
  <1>9. CASE StrayUnanswered(c)
    <2> DEFINE after(m, n) == [m EXCEPT ![c].stray = @ \cup {n}, ![c].reading = FALSE,
                                        ![c].pass = NotReading]
    <2>1. PICK n \in Listed :
            \/ strayStopApplies(c, n) /\ row' = claimStop(c) /\ mind' = after(Overtakes(c), n)
            \/ UNCHANGED row /\ mind' = after(mind, n)
      BY <1>9 DEF StrayUnanswered
    <2>2. ~inFlight(c)
      BY <1>9 DEF StrayUnanswered
    <2> DEFINE r == [mind[c] EXCEPT !.stray = mind[c].stray \cup {n}, !.reading = FALSE,
                                    !.pass = NotReading]
    <2>3. r.chain = mind[c].chain /\ r.job = mind[c].job /\ r.next = mind[c].next /\ r.late = mind[c].late
      BY <1>0 DEF Mind
    <2>4. CASE strayStopApplies(c, n) /\ row' = claimStop(c) /\ mind' = after(Overtakes(c), n)
      <3>1. mind' = [Overtakes(c) EXCEPT ![c] = r]
        BY <2>4, OvertakesStep
      <3> HIDE DEF r
      <3>2. mind'[c] = r /\ \A d \in Copy \ {c} : mind'[d] = Overtakes(c)[d]
        BY <3>1, OvertakesType
      <3>3. lifecycleFreeFor(c) /\ row' = claimStop(c)
        BY <2>4 DEF strayStopApplies
      <3>4. r.job.step = "idle"
        BY <2>2, <2>3 DEF inFlight, Idle
      <3>5. Agrees([d \in Copy |-> IF d = c THEN r ELSE Overtakes(c)[d]])
        BY <3>2 DEF Agrees
      <3> QED BY <1>1, <2>2, <2>3, <3>3, <3>4, <3>5, StrayEffects
    <2>5. CASE UNCHANGED row /\ mind' = after(mind, n)
      <3>1. mind' = [mind EXCEPT ![c] = r]
        BY <2>5
      <3> HIDE DEF r
      <3> QED BY <1>3, <2>3, <2>5, <3>1, CopyAgrees
    <2> QED BY <2>1, <2>4, <2>5
  <1>10. CASE PassFindsNone(c)
    <2> DEFINE p == mind[c].pass
               missing == p.status = "running" /\ ~busy(c)
               m == [mind EXCEPT ![c].aside = @ \cup {SaysOf("stopped", 0, p.ref)}]
    <2>1. mind' = Ends(m, c) \/ mind' = [Ends(mind, c) EXCEPT ![c].missed = missing]
      BY <1>10 DEF PassFindsNone
    <2>2. CASE mind' = Ends(m, c)
      <3> DEFINE r == [mind[c] EXCEPT !.aside = mind[c].aside \cup {SaysOf("stopped", 0, p.ref)}]
      <3>1. mind[c].aside \cup {SaysOf("stopped", 0, p.ref)} \in SUBSET Report
        <4>1. SaysOf("stopped", 0, p.ref) \in Report
          BY NamesType, SaysType
        <4>2. mind[c].aside \subseteq Report
          BY NamesType
        <4> QED BY <4>1, <4>2
      <3>2. /\ r \in Mind /\ r.chain = mind[c].chain /\ r.job = mind[c].job
            /\ r.next = mind[c].next /\ r.late = mind[c].late
        BY <1>0, <3>1 DEF Mind
      <3>3. m = [mind EXCEPT ![c] = r]
        OBVIOUS
      <3> HIDE DEF r, m
      <3>4. m \in [Copy -> Mind] /\ m[c] = r /\ \A d \in Copy \ {c} : m[d] = mind[d]
        BY <1>0, <3>2, <3>3
      <3>5. Agrees(mind)
        BY <2>2, <3>2, <3>4, EndsAgrees DEF Agrees
      <3> QED BY <1>3, <1>10, <3>5 DEF PassFindsNone
    <2>3. CASE mind' = [Ends(mind, c) EXCEPT ![c].missed = missing]
      <3> DEFINE r == [Ends(mind, c)[c] EXCEPT !.missed = missing]
      <3>1. Ends(mind, c) \in [Copy -> Mind]
        BY <1>0, EndsType
      <3>2. /\ r.chain = Ends(mind, c)[c].chain /\ r.job = Ends(mind, c)[c].job
            /\ r.next = Ends(mind, c)[c].next /\ r.late = Ends(mind, c)[c].late
        <4> HIDE DEF missing
        <4> QED BY <3>1 DEF Mind
      <3>3. mind'[c] = r /\ \A d \in Copy \ {c} : mind'[d] = Ends(mind, c)[d]
        BY <2>3, <3>1
      <3> HIDE DEF r
      <3>4. Agrees(mind)
        BY <1>0, <3>2, <3>3, EndsAgrees DEF Agrees
      <3> QED BY <1>3, <1>10, <3>4 DEF PassFindsNone
    <2> QED BY <2>1, <2>2, <2>3
  <1>11. CASE PassLeaves(c)
    BY <1>0, <1>3, <1>11, EndsAgrees DEF PassLeaves, Agrees
  <1> QED BY <1>4, <1>5, <1>6, <1>7, <1>8, <1>9, <1>10, <1>11 DEF Verdict

LEMMA OtherEffects ==
    ASSUME TypeOK, ChainsInv, SocketsInv,
           \/ \E c \in Copy : Lapse(c) \/ Crash(c) \/ Retire(c) \/ \E n \in Container : Dial(n, c)
           \/ \E n \in Container : ContainerDies(n)
           \/ Respawn \/ CloseOrphan \/ OpenUnrecorded
    PROVE  Effects
  <1>0. mind \in [Copy -> Mind] /\ sock \in [Socket -> Sock]
    BY DEF TypeOK
  <1>1. mind' = mind => \A d \in Copy : CopyStep(d)
    BY SameCopies DEF Agrees
  <1>2. ASSUME NEW c \in Copy, Lapse(c) PROVE Effects
    BY <1>1, <1>2, RowSame, BoxSame, SockSame DEF Effects, Lapse
  <1>3. ASSUME NEW c \in Copy, Crash(c) PROVE Effects
    <2> DEFINE r == [Fresh EXCEPT !.up = FALSE, !.late = mind[c].late]
    <2>1. r.chain = << >> /\ r.job = Idle /\ r.next = "none" /\ r.late = mind[c].late
      BY DEF Fresh
    <2>2. mind' = [mind EXCEPT ![c] = r]
      BY <1>3 DEF Crash
    <2> HIDE DEF r
    <2>3. mind'[c] = r /\ \A d \in Copy \ {c} : mind'[d] = mind[d]
      BY <1>0, <2>2
    <2>4. DOMAIN r.chain = {}
      BY <2>1
    <2>5. Idle.step = "idle"
      BY DEF Idle
    <2>6. OneStatus(mind'[c]) /\ Owed(mind'[c]) = {}
      BY <2>1, <2>3, <2>4, <2>5 DEF OneStatus, Owed
    <2>7. ~hasStart(c)'
      BY <2>1, <2>3, <2>5 DEF hasStart, Starting
    <2>8. CopyStep(c)
      BY <2>1, <2>3, <2>5, <2>6, <2>7 DEF CopyStep
    <2>9. \A d \in Copy \ {c} : CopyStep(d)
      BY <2>3, SameCopy
    <2>10. SockStep
      <3>1. \A k \in Socket : LET s == [sock[k] EXCEPT !.at = "closed", !.owed = FALSE]
                             IN  s.at = "closed" /\ s.of = sock[k].of /\ s.on = sock[k].on
        BY <1>0 DEF Sock
      <3>2. \A k \in Socket : sock[k].on = c => sock[k].at # "none"
        BY Numbers DEF SocketsInv
      <3> QED BY <1>3, <3>1, <3>2 DEF SockStep, Crash
    <2> QED BY <1>3, <2>8, <2>9, <2>10, RowSame, BoxSame DEF Effects, Crash
  <1>4. ASSUME NEW c \in Copy, Retire(c) PROVE Effects
    <2> DEFINE r == [mind[c] EXCEPT !.reading = FALSE, !.pass = NotReading]
    <2>1. r.chain = mind[c].chain /\ r.job = mind[c].job /\ r.next = mind[c].next /\ r.late = mind[c].late
      BY <1>0 DEF Mind
    <2>2. mind' = [mind EXCEPT ![c] = r]
      BY <1>4 DEF Retire
    <2>3. Agrees(mind)
      <3> HIDE DEF r
      <3> QED BY <2>1, <2>2, CopyAgrees
    <2>4. SockStep
      <3>1. \A k \in Socket : LET s == [sock[k] EXCEPT !.at = "closing"]
                             IN  s.at = "closing" /\ s.of = sock[k].of /\ s.on = sock[k].on
        BY <1>0 DEF Sock
      <3> QED BY <1>4, <3>1 DEF SockStep, Retire, OpenOn
    <2> QED BY <1>4, <2>3, <2>4, SameCopies, RowSame, BoxSame DEF Effects, Retire
  <1>5. ASSUME NEW c \in Copy, NEW n \in Container, Dial(n, c) PROVE Effects
    <2> DEFINE s == [at |-> "asking", of |-> n, on |-> c, owed |-> FALSE]
    <2>1. PICK k \in Socket : sock[k].at = "none" /\ sock' = [sock EXCEPT ![k] = s]
      BY <1>5 DEF Dial
    <2>2. s.at # "none" /\ s.of # 0 /\ s.on # 0
      BY Numbers
    <2>3. SockStep
      <3> HIDE DEF s
      <3> QED BY <1>0, <2>1, <2>2 DEF SockStep
    <2> QED BY <1>1, <1>5, <2>3, RowSame, BoxSame DEF Effects, Dial
  <1>6. ASSUME NEW n \in Container, ContainerDies(n) PROVE Effects
    <2>1. SockStep /\ BoxStep
      BY <1>6, LeavesStep DEF ContainerDies
    <2>2. \A d \in Copy : CopyStep(d)
      BY <1>0, <1>6, WatchingAgrees, SameCopies DEF ContainerDies
    <2> QED BY <1>6, <2>1, <2>2, RowSame DEF Effects, ContainerDies
  <1>7. CASE Respawn
    <2>1. RowStep
      BY <1>7 DEF Respawn, RowStep, Status
    <2> QED BY <1>1, <1>7, <2>1, BoxSame, SockSame DEF Effects, Respawn
  <1>8. CASE CloseOrphan \/ OpenUnrecorded
    BY <1>1, <1>8, RowSame, BoxSame, SockSame DEF Effects, CloseOrphan, OpenUnrecorded
  <1> QED BY <1>2, <1>3, <1>4, <1>5, <1>6, <1>7, <1>8

LEMMA NextEffects ==
    ASSUME TypeOK, ChainsInv, SocketsInv, [Next]_vars
    PROVE  Effects
  <1>1. CASE UNCHANGED vars
    BY <1>1, SameCopies, RowSame, BoxSame, SockSame DEF Effects, Agrees, vars
  <1>2. CASE Next
    <2>1. \A c \in Copy : ClaimStart(c) \/ ClaimRefused(c) \/ ClaimStop(c) => Effects
      BY ClaimEffects
    <2>2. \A c \in Copy : NextJob(c) \/ Start(c) \/ Stop(c) => Effects
      BY StartEffects, StopEffects
    <2>3. \A c \in Copy : PostRef(c) \/ PostReport(c) \/ Heartbeat(c) \/ PostAside(c) \/ ReportLost(c)
                            => Effects
      BY ReportEffects
    <2>4. \A c \in Copy : LookAtClosed(c) \/ BeginPass(c) \/ Verdict(c) => Effects
      BY PassEffects
    <2>5. \A k \in Socket : (\/ Admit(k) \/ AdmitUnanswered(k) \/ SettleOwedClaim(k) \/ Release(k)
                             \/ SocketDrops(k) \/ SupervisorReady(k)) => Effects
      BY SocketEffects
    <2> QED BY <1>2, <2>1, <2>2, <2>3, <2>4, <2>5, OtherEffects DEF Next
  <1> QED BY <1>1, <1>2

-----------------------------------------------------------------------------
(***************************************************************************)
(* The channel's invariant is inductive.                                   *)
(***************************************************************************)
\* The row's steps, field by field.
RowKeeps(fields) == \A f \in fields : row'[f] = row[f]

RowCases ==
    \/ /\ RowKeeps({"owner", "ref", "token", "holder", "conn"})
       /\ row'.status = "running" => row.status = "running" \/ row.holder # 0
    \/ \E c \in Copy : /\ row'.owner = c /\ row'.token = 0 /\ row'.holder = 0 /\ row'.conn = 0
                       /\ RowKeeps({"ref"}) /\ Overtook(c)
    \/ \E c \in Copy : /\ row'.owner = c /\ row'.status = "stopping"
                       /\ RowKeeps({"ref", "token", "holder", "conn"})
                       /\ Overtook(c)
                       /\ row.status = "running" \/ Owed(mind[c]) = {}
    \/ \E c \in Copy : \E n \in Container \cup {0} :
          /\ row.owner = c /\ row'.ref = n /\ row'.token = n
          /\ row'.holder = 0 /\ row'.conn = 0 /\ row'.status = "starting"
          /\ RowKeeps({"owner"})
          /\ Owed(mind'[c]) \subseteq {n}
    \/ \E c \in Copy : \E n \in Owed(mind[c]) :
          /\ row.owner = c /\ row'.ref = n
          /\ RowKeeps({"status", "owner", "token", "holder", "conn"})
    \/ \E k \in Socket : /\ row'.token = 0 /\ row'.holder = sock'[k].on /\ row'.conn = k
                         /\ RowKeeps({"status", "owner", "ref"})
                         /\ sock[k].at # "none"
                         /\ doorApplies(k) \/ sessionApplies(k)
    \/ \E k \in Socket : /\ sock[k].at = "closing" /\ row.conn = k /\ row'.conn = 0
                         /\ RowKeeps({"status", "owner", "ref", "token", "holder"})

LEMMA RowFields == ASSUME TypeOK, RowStep PROVE RowCases
  <1>0. row \in Row
    BY DEF TypeOK
  <1>1. ASSUME NEW s \in Status, row' = [row EXCEPT !.status = s],
               s = "running" => row.status = "running" \/ row.holder # 0
        PROVE  RowCases
    BY <1>0, <1>1 DEF RowCases, RowKeeps, Row
  <1>2. ASSUME NEW c \in Copy, NEW s \in Status, row' = [claimStart(c) EXCEPT !.status = s], Overtook(c)
        PROVE  RowCases
    <2>1. /\ row'.owner = c /\ row'.token = 0 /\ row'.holder = 0 /\ row'.conn = 0
          /\ row'.ref = row.ref
      BY <1>0, <1>2 DEF claimStart, Row
    <2> QED BY <1>2, <2>1 DEF RowCases, RowKeeps
  <1>3. ASSUME NEW c \in Copy, row' = claimStop(c), Overtook(c),
               row.status = "running" \/ Owed(mind[c]) = {}
        PROVE  RowCases
    <2>1. /\ row'.owner = c /\ row'.status = "stopping" /\ row'.ref = row.ref
          /\ row'.token = row.token /\ row'.holder = row.holder /\ row'.conn = row.conn
      BY <1>0, <1>3 DEF claimStop, Row
    <2> QED BY <1>3, <2>1 DEF RowCases, RowKeeps
  <1>4. ASSUME NEW c \in Copy, recordSpawnApplies(c), row' = recordSpawn(mind[c].job.of),
               Owed(mind'[c]) \subseteq {mind[c].job.of}
        PROVE  RowCases
    <2>1. PICK n \in Container \cup {0} : n = mind[c].job.of
      BY NamesType
    <2>2. /\ row'.ref = n /\ row'.token = n /\ row'.holder = 0 /\ row'.conn = 0
          /\ row'.status = row.status /\ row'.owner = row.owner
      BY <1>0, <1>4, <2>1 DEF recordSpawn, Row
    <2>3. row.owner = c /\ row'.status = "starting" /\ Owed(mind'[c]) \subseteq {n}
      BY <1>4, <2>1, <2>2 DEF recordSpawnApplies
    <2> QED BY <2>2, <2>3 DEF RowCases, RowKeeps
  <1>5. ASSUME NEW c \in Copy, NEW n \in Owed(mind[c]), row.owner = c, row' = [row EXCEPT !.ref = n]
        PROVE  RowCases
    <2>1. /\ row'.ref = n /\ row'.status = row.status /\ row'.owner = row.owner
          /\ row'.token = row.token /\ row'.holder = row.holder /\ row'.conn = row.conn
      BY <1>0, <1>5 DEF Row
    <2> QED BY <1>5, <2>1 DEF RowCases, RowKeeps
  <1>6. ASSUME NEW k \in Socket, sock[k].at # "none", row' = takesChannel(k),
               doorApplies(k) \/ sessionApplies(k)
        PROVE  RowCases
    <2>1. /\ row'.token = 0 /\ row'.holder = sock'[k].on /\ row'.conn = k
          /\ row'.status = row.status /\ row'.owner = row.owner /\ row'.ref = row.ref
      BY <1>0, <1>6 DEF takesChannel, Row
    <2> QED BY <1>6, <2>1 DEF RowCases, RowKeeps
  <1>7. ASSUME NEW k \in Socket, sock[k].at = "closing", row.conn = k, row' = [row EXCEPT !.conn = 0]
        PROVE  RowCases
    <2>1. /\ row'.conn = 0 /\ row'.status = row.status /\ row'.owner = row.owner
          /\ row'.ref = row.ref /\ row'.token = row.token /\ row'.holder = row.holder
      BY <1>0, <1>7 DEF Row
    <2> QED BY <1>7, <2>1 DEF RowCases, RowKeeps
  <1> QED BY <1>1, <1>2, <1>3, <1>4, <1>5, <1>6, <1>7 DEF RowStep

\* What may still be named as the container is something in hand.
LEMMA OwedInHand ==
    ASSUME TypeOK, NEW c \in Copy, NEW n \in Owed(mind[c])
    PROVE  inHand(c) # {} /\ n # 0
  <1>1. n \in Container /\ n # 0
    BY Numbers DEF Owed
  <1>2. CASE mind[c].job = [step |-> "boot", of |-> n]
    <2>1. mind[c].job.step = "boot"
      BY <1>2
    <2> QED BY <1>1, <2>1 DEF inHand, hasStart, Starting
  <1>3. CASE \E i \in DOMAIN mind[c].chain : mind[c].chain[i].ref = n
    BY <1>1, <1>3 DEF inHand, owesRef
  <1> QED BY <1>2, <1>3 DEF Owed

LEMMA ChannelNext == TypeOK /\ ChannelInv /\ [Next]_vars => ChannelInv'
  <1> SUFFICES ASSUME TypeOK, ChannelInv, [Next]_vars PROVE ChannelInv'
    OBVIOUS
  <1>0. ChainsInv /\ SocketsInv /\ TokenInv /\ OwedInv /\ ChannelIsOfTheContainer
    BY DEF ChannelInv
  <1>1. /\ \A d \in Copy : CopyStep(d)
        /\ RowCases /\ SockStep
    BY <1>0, NextEffects, RowFields DEF Effects
  <1>2. \A d \in Copy : /\ OneStatus(mind'[d])
                       /\ mind[d].late \subseteq mind'[d].late
                       /\ \/ Owed(mind'[d]) \subseteq Owed(mind[d])
                          \/ \E n \in Container \cup {0} :
                                /\ row.owner = d /\ row'.ref = n /\ row'.token = n /\ row'.owner = d
                                /\ Owed(mind'[d]) \subseteq {n}
    <2> SUFFICES ASSUME NEW d \in Copy
                 PROVE  /\ OneStatus(mind'[d])
                        /\ mind[d].late \subseteq mind'[d].late
                        /\ \/ Owed(mind'[d]) \subseteq Owed(mind[d])
                           \/ \E n \in Container \cup {0} :
                                 /\ row.owner = d /\ row'.ref = n /\ row'.token = n /\ row'.owner = d
                                 /\ Owed(mind'[d]) \subseteq {n}
      OBVIOUS
    <2>1. CopyStep(d)
      BY <1>1
    <2>2. CASE recordSpawnApplies(d) /\ row' = recordSpawn(mind[d].job.of)
               /\ Owed(mind'[d]) \subseteq {mind[d].job.of}
      <3>1. PICK n \in Container \cup {0} : n = mind[d].job.of
        BY NamesType
      <3>2. row.owner = d /\ row'.ref = n /\ row'.token = n /\ row'.owner = d
        BY <2>2, <3>1 DEF recordSpawnApplies, recordSpawn, TypeOK, Row
      <3> QED BY <2>1, <2>2, <3>1, <3>2 DEF CopyStep
    <2> QED BY <2>1, <2>2 DEF CopyStep
  <1>3. ChainsInv'
    BY <1>2 DEF ChainsInv
  <1>4. \A k \in Socket : sock[k].at # "none" => sock'[k].at # "none" /\ sock'[k].of = sock[k].of
    BY <1>1 DEF SockStep
  <1>5. row.conn \in Socket \cup {0} /\ row.owner \in Copy \cup {0} /\ row'.owner \in Copy \cup {0}
    <2>1. TypeOK'
      BY TypeNext
    <2> QED BY <2>1 DEF TypeOK, Row
  <1>6. SocketsInv'
    <2>1. \A k \in Socket : IF sock'[k].at = "none" THEN sock'[k].on = 0
                                                  ELSE sock'[k].of # 0 /\ sock'[k].on # 0
      BY <1>0, <1>1 DEF SocketsInv, SockStep
    <2>2. \/ row'.conn \in {0, row.conn}
          \/ row'.conn \in Socket /\ sock[row'.conn].at # "none"
      BY <1>1 DEF RowCases, RowKeeps
    <2>3. row'.conn # 0 => sock'[row'.conn].at # "none"
      BY <1>0, <1>4, <1>5, <2>2 DEF SocketsInv
    <2> QED BY <2>1, <2>3 DEF SocketsInv
  <1>7. TokenInv'
    <2> SUFFICES ASSUME row'.token # 0
                 PROVE  /\ row'.ref = row'.token /\ row'.holder = 0 /\ row'.conn = 0
                        /\ row'.status # "running"
                        /\ row'.owner # 0 => Owed(mind'[row'.owner]) \subseteq {row'.token}
      BY DEF TokenInv
    <2>1. CASE /\ RowKeeps({"owner", "ref", "token", "holder", "conn"})
               /\ row'.status = "running" => row.status = "running" \/ row.holder # 0
      BY <1>0, <1>2, <1>5, <2>1 DEF RowKeeps, TokenInv
    <2>2. ASSUME NEW c \in Copy, row'.owner = c, row'.status = "stopping",
                 RowKeeps({"ref", "token", "holder", "conn"}),
                 row.status = "running" \/ Owed(mind[c]) = {}
          PROVE  /\ row'.ref = row'.token /\ row'.holder = 0 /\ row'.conn = 0
                 /\ row'.status # "running"
                 /\ Owed(mind'[row'.owner]) \subseteq {row'.token}
      BY <1>0, <1>2, <2>2 DEF RowKeeps, TokenInv
    <2>3. ASSUME NEW c \in Copy, NEW n \in Container \cup {0},
                 row.owner = c, row'.ref = n, row'.token = n,
                 row'.holder = 0, row'.conn = 0, row'.status = "starting", RowKeeps({"owner"}),
                 Owed(mind'[c]) \subseteq {n}
          PROVE  /\ row'.ref = row'.token /\ row'.holder = 0 /\ row'.conn = 0
                 /\ row'.status # "running"
                 /\ Owed(mind'[row'.owner]) \subseteq {row'.token}
      BY <2>3 DEF RowKeeps
    <2>4. ASSUME NEW c \in Copy, NEW n \in Owed(mind[c]), row.owner = c, row'.ref = n,
                 RowKeeps({"status", "owner", "token", "holder", "conn"})
          PROVE  /\ row'.ref = row'.token /\ row'.holder = 0 /\ row'.conn = 0
                 /\ row'.status # "running"
                 /\ Owed(mind'[row'.owner]) \subseteq {row'.token}
      <3>1. row.token # 0 /\ row'.owner = c /\ row'.token = row.token
        BY <2>4 DEF RowKeeps
      <3>2. Owed(mind[c]) \subseteq {row.token} /\ n = row.token
        BY <1>0, <2>4, <3>1, Numbers DEF TokenInv
      <3> QED BY <1>0, <1>2, <2>4, <3>1, <3>2 DEF RowKeeps, TokenInv
    <2>5. ASSUME NEW k \in Socket, row.conn = k, RowKeeps({"status", "owner", "ref", "token", "holder"})
          PROVE  FALSE
      BY <1>0, <2>5, Numbers DEF RowKeeps, TokenInv
    <2> QED BY <1>1, <2>1, <2>2, <2>3, <2>4, <2>5 DEF RowCases
  <1>8. OwedInv'
    <2> SUFFICES ASSUME NEW c \in Copy, mind'[c].late = {}, NEW n \in Owed(mind'[c])
                 PROVE  row'.owner = c /\ row'.ref = n
      BY DEF OwedInv
    <2>1. mind[c].late = {}
      BY <1>2
    <2>2. CASE \E m \in Container \cup {0} :
                  /\ row.owner = c /\ row'.ref = m /\ row'.token = m /\ row'.owner = c
                  /\ Owed(mind'[c]) \subseteq {m}
      BY <2>2
    <2>3. CASE n \in Owed(mind[c])
      <3>1. row.owner = c /\ row.ref = n /\ c # 0
        BY <1>0, <2>1, <2>3, Numbers DEF OwedInv
      <3>2. \A d \in Copy : Overtook(d) => d = c
        <4> SUFFICES ASSUME NEW d \in Copy, d # c, Overtook(d) PROVE FALSE
          OBVIOUS
        <4>1. ~liveReplica(c)
          BY <3>1 DEF Overtook, lifecycleFreeFor
        <4>2. inHand(c) \subseteq mind'[c].late
          BY <4>1 DEF Overtook
        <4> QED BY <2>3, <4>2, OwedInHand
      <3>3. \A m \in Owed(mind[c]) : m = n
        BY <1>0, <2>1, <3>1 DEF OwedInv
      <3> QED BY <1>1, <3>1, <3>2, <3>3 DEF RowCases, RowKeeps
    <2> QED BY <1>2, <2>2, <2>3
  <1>9. ChannelIsOfTheContainer'
    <2>1. row'.token # 0 => row'.ref = row'.token
      BY <1>7 DEF TokenInv
    <2>2. ASSUME row'.conn # 0, \A c \in Copy : mind'[c].late = {}
          PROVE  sock'[row'.conn].of = row'.ref
      <3>1. \A c \in Copy : mind[c].late = {}
        BY <1>2, <2>2
      <3>2. row.conn # 0 => sock[row.conn].of = row.ref
        BY <1>0, <3>1 DEF ChannelIsOfTheContainer
      <3>3. row.conn # 0 => sock'[row.conn].of = sock[row.conn].of
        BY <1>0, <1>4, <1>5 DEF SocketsInv
      <3>4. ASSUME NEW c \in Copy, NEW n \in Owed(mind[c]) PROVE row.ref = n
        BY <1>0, <3>1, <3>4 DEF OwedInv
      <3>5. ASSUME NEW k \in Socket, sock[k].at # "none", doorApplies(k) \/ sessionApplies(k)
            PROVE  sock'[k].of = row.ref
        <4>1. sock[k].of # 0 /\ sock'[k].of = sock[k].of
          BY <1>0, <1>4, <3>5 DEF SocketsInv
        <4> QED BY <1>0, <3>5, <4>1 DEF doorApplies, sessionApplies, TokenInv
      <3> QED BY <1>1, <2>2, <3>2, <3>3, <3>4, <3>5 DEF RowCases, RowKeeps
    <2> QED BY <2>1, <2>2 DEF ChannelIsOfTheContainer
  <1> QED BY <1>3, <1>6, <1>7, <1>8, <1>9 DEF ChannelInv

LEMMA ChannelInit == Init => ChannelInv
  <1> SUFFICES ASSUME Init PROVE ChannelInv
    OBVIOUS
  <1>1. PICK one \in {0, 1} :
          /\ row.owner = one /\ row.ref = one /\ row.token = 0 /\ row.holder = one /\ row.conn = one
          /\ \A k \in Socket : /\ sock[k].at = IF k = one THEN "open" ELSE "none"
                               /\ sock[k].of = IF k = one THEN one ELSE 0
                               /\ sock[k].on = IF k = one THEN one ELSE 0
    BY DEF Init
  <1>2. 1 \in Socket
    BY FleetAssumption DEF Socket
  <1>3. \A c \in Copy : mind[c].chain = << >> /\ mind[c].job = Idle
    BY DEF Init, Fresh
  <1>4. DOMAIN << >> = {}
    OBVIOUS
  <1>5. Idle.step = "idle"
    BY DEF Idle
  <1>6. \A c \in Copy : OneStatus(mind[c]) /\ Owed(mind[c]) = {}
    BY <1>3, <1>4, <1>5 DEF OneStatus, Owed
  <1>7. SocketsInv
    BY <1>1, <1>2, Numbers DEF SocketsInv
  <1>8. ChannelIsOfTheContainer
    BY <1>1, <1>2 DEF ChannelIsOfTheContainer
  <1> QED BY <1>1, <1>6, <1>7, <1>8 DEF ChannelInv, ChainsInv, TokenInv, OwedInv

\* A container that was replaced never has the channel: a recorded token is the
\* recorded container's, and the socket that holds the channel is of it, for
\* any number of copies that claim, fall silent, shut down or are killed, and
\* sockets that dial in, break and are settled late.  Only where a copy was
\* overtaken with a start or its report in hand may the reference move under
\* an open channel.
THEOREM ChannelHolds == Spec => []ChannelIsOfTheContainer
  <1>1. Init => TypeOK /\ ChannelInv
    BY TypeInit, ChannelInit
  <1>2. (TypeOK /\ ChannelInv) /\ [Next]_vars => (TypeOK /\ ChannelInv)'
    BY TypeNext, ChannelNext
  <1>3. ChannelInv => ChannelIsOfTheContainer
    BY DEF ChannelInv
  <1> QED BY <1>1, <1>2, <1>3, PTL DEF Spec

\* An open socket keeps the channel until a newer one takes it or a start
\* replaces its container: a release names its own socket, which is closing, a
\* later claim compares the number, and a first connect is admitted only while
\* nobody holds the channel.
THEOREM NewestHolds == Spec => NewestKeepsChannel
  <1> DEFINE Keeps == LET k == row.conn
                      IN  k # 0 /\ sock[k].at = "open" /\ row'.conn # k =>
                            row'.conn > k \/ row'.holder = 0
  <1>1. Init => TypeOK /\ ChannelInv
    BY TypeInit, ChannelInit
  <1>2. (TypeOK /\ ChannelInv) /\ [Next]_vars => (TypeOK /\ ChannelInv)'
    BY TypeNext, ChannelNext
  <1>3. (TypeOK /\ ChannelInv) /\ [Next]_vars => [Keeps]_vars
    <2> SUFFICES ASSUME TypeOK, ChannelInv, [Next]_vars,
                        row.conn # 0, sock[row.conn].at = "open", row'.conn # row.conn
                 PROVE  row'.conn > row.conn \/ row'.holder = 0
      OBVIOUS
    <2>1. SocketsInv /\ TokenInv /\ RowCases
      BY NextEffects, RowFields DEF ChannelInv, Effects
    <2>2. row.conn \in Socket /\ row.conn \in Nat
      BY DEF TypeOK, Row, Socket
    <2>3. ASSUME NEW k \in Socket, sock[k].at # "none", doorApplies(k) \/ sessionApplies(k),
                 row'.conn = k
          PROVE  row'.conn > row.conn
      <3>1. sock[k].of # 0 /\ k \in Nat
        BY <2>1, <2>3 DEF SocketsInv, Socket
      <3>2. sessionApplies(k)
        BY <2>1, <2>3, <3>1 DEF doorApplies, TokenInv
      <3> QED BY <2>2, <2>3, <3>1, <3>2 DEF sessionApplies
    <2> QED BY <2>1, <2>3 DEF RowCases, RowKeeps
  <1> QED BY <1>1, <1>2, <1>3, PTL DEF Spec, NewestKeepsChannel

-----------------------------------------------------------------------------
(***************************************************************************)
(* The containers' invariant is inductive.                                 *)
(***************************************************************************)
LEMMA ContainersInit == Init => ContainersInv
  <1> SUFFICES ASSUME Init PROVE ContainersInv
    OBVIOUS
  <1>1. \A c \in Copy : mind[c].job = Idle /\ mind[c].next = "none"
    BY DEF Init, Fresh
  <1>2. Idle.step = "idle"
    BY DEF Idle
  <1>3. PICK one \in {0, 1} : \A n \in Container : box[n].at = IF n = one THEN "up" ELSE "none"
    BY DEF Init
  <1>4. StartOwned
    BY <1>1, <1>2 DEF StartOwned, hasStart, Starting
  <1>5. OneListed
    BY <1>1, <1>2, <1>3 DEF OneListed, Listed
  <1> QED BY <1>4, <1>5 DEF ContainersInv

LEMMA ContainersNext ==
    TypeOK /\ ChannelInv /\ ContainersInv /\ [Next]_vars => ContainersInv'
  <1> SUFFICES ASSUME TypeOK, ChannelInv, ContainersInv, [Next]_vars PROVE ContainersInv'
    OBVIOUS
  <1>0. StartOwned /\ OneListed
    BY DEF ContainersInv
  <1>1. (\A d \in Copy : CopyStep(d)) /\ RowCases /\ BoxStep
    BY NextEffects, RowFields DEF ChannelInv, Effects
  <1>2. \A d \in Copy : "start" \notin mind'[d].late => "start" \notin mind[d].late
    BY <1>1 DEF CopyStep
  <1>3. StartOwned'
    <2> SUFFICES ASSUME NEW c \in Copy, hasStart(c)', "start" \notin mind'[c].late
                 PROVE  row'.owner = c
      BY DEF StartOwned
    <2>1. CASE hasStart(c)
      <3>1. row.owner = c /\ c # 0
        BY <1>0, <1>2, <2>1, Numbers DEF StartOwned
      <3>2. \A d \in Copy : Overtook(d) => d = c
        <4> SUFFICES ASSUME NEW d \in Copy, d # c, Overtook(d) PROVE FALSE
          OBVIOUS
        <4>1. ~liveReplica(c)
          BY <3>1 DEF Overtook, lifecycleFreeFor
        <4>2. inHand(c) \subseteq mind'[c].late
          BY <4>1 DEF Overtook
        <4> QED BY <2>1, <4>2 DEF inHand
      <3> QED BY <1>1, <3>1, <3>2 DEF RowCases, RowKeeps
    <2> QED BY <1>1, <2>1 DEF CopyStep
  <1>4. OneListed'
    <2> SUFFICES ASSUME NotOvertaken'
                 PROVE  /\ \A m, n \in Listed' : m = n
                        /\ \A d \in Copy :
                              /\ mind'[d].job.step = "create" => Listed' = {}
                              /\ mind'[d].job.step = "replace" => Listed' \subseteq {mind'[d].job.of}
      BY DEF OneListed
    <2>1. /\ NotOvertaken
          /\ \A m, n \in Listed : m = n
          /\ \A d \in Copy : /\ mind[d].job.step = "create" => Listed = {}
                             /\ mind[d].job.step = "replace" => Listed \subseteq {mind[d].job.of}
      BY <1>0, <1>2 DEF OneListed, NotOvertaken
    <2>2. CASE Listed' \subseteq Listed
      <3>1. \A m, n \in Listed' : m = n
        BY <2>1, <2>2
      <3>2. ASSUME NEW d \in Copy, mind'[d].job.step = "create" PROVE Listed' = {}
        BY <1>1, <2>1, <2>2, <3>2 DEF CopyStep
      <3>3. ASSUME NEW d \in Copy, mind'[d].job.step = "replace"
            PROVE  Listed' \subseteq {mind'[d].job.of}
        BY <1>1, <2>1, <2>2, <3>3 DEF CopyStep
      <3> QED BY <3>1, <3>2, <3>3
    <2>3. ASSUME NEW c \in Copy, NEW n \in Container,
                 mind[c].job.step = "create", mind'[c].job.step = "record",
                 \A d \in Copy \ {c} : mind'[d] = mind[d],
                 Listed' = Listed \cup {n}, row' = row
          PROVE  /\ \A l, m \in Listed' : l = m
                 /\ \A d \in Copy : mind'[d].job.step \notin {"create", "replace"}
      <3>1. \A l, m \in Listed' : l = m
        BY <2>1, <2>3
      <3>2. row.owner = c
        BY <1>0, <2>1, <2>3 DEF StartOwned, NotOvertaken, hasStart, Starting
      <3>3. ASSUME NEW d \in Copy, d # c PROVE mind[d].job.step \notin {"create", "replace"}
        BY <1>0, <2>1, <3>2, <3>3 DEF StartOwned, NotOvertaken, hasStart, Starting
      <3> QED BY <2>3, <3>1, <3>3
    <2> QED BY <1>1, <2>2, <2>3 DEF BoxStep
  <1> QED BY <1>3, <1>4 DEF ContainersInv

LEMMA ContainersImply == ContainersInv => OneContainerRuns
  <1> SUFFICES ASSUME ContainersInv, NotOvertaken
               PROVE  Cardinality({n \in Container : box[n].at = "up"}) <= 1
    BY DEF OneContainerRuns, NotOvertaken
  <1> DEFINE Up == {n \in Container : box[n].at = "up"}
  <1>1. \A m, n \in Up : m = n
    BY DEF ContainersInv, OneListed, Listed
  <1>2. CASE Up = {}
    BY <1>2, FS_EmptySet
  <1>3. CASE Up # {}
    <2>1. PICK n : Up = {n}
      <3>1. PICK n : n \in Up
        BY <1>3
      <3> QED BY <1>1, <3>1
    <2> HIDE DEF Up
    <2>2. Cardinality(Up) = 1
      BY <2>1, FS_Singleton
    <2> QED BY <2>2 DEF Up
  <1> QED BY <1>2, <1>3

\* At most one container of the sandbox runs, whichever copies start, replace,
\* stop and sweep it: unless a start was overtaken, only the owner has one in
\* hand, so the listing it read is still true when it creates (startSandbox
\* replaces what the backend lists; lifecycleFreeFor lets nobody else claim
\* while the owner counts as live).
THEOREM OneContainerHolds == Spec => []OneContainerRuns
  <1>1. Init => TypeOK /\ ChannelInv /\ ContainersInv
    BY TypeInit, ChannelInit, ContainersInit
  <1>2. (TypeOK /\ ChannelInv /\ ContainersInv) /\ [Next]_vars
          => (TypeOK /\ ChannelInv /\ ContainersInv)'
    BY TypeNext, ChannelNext, ContainersNext
  <1>3. ContainersInv => OneContainerRuns
    BY ContainersImply
  <1> QED BY <1>1, <1>2, <1>3, PTL DEF Spec

=============================================================================
