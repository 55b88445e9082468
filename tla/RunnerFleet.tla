---------------------------- MODULE RunnerFleet ----------------------------
(***************************************************************************)
(* One sandbox and the copies of the runner that serve it: who owns its    *)
(* lifecycle, which container it has, whose socket holds its channel, and  *)
(* which of its runs the awake-time ledger counts.                         *)
(*                                                                         *)
(* The row is the control plane's only record; each copy has its own       *)
(* lifecycle chain, report chain and memory.  A copy may fall silent past  *)
(* the liveness window and come back with a step in hand, retire, or be    *)
(* killed.  Copies and containers are numbered by age, sockets by the      *)
(* moment they were opened (the copies' clocks agree).  The backend is     *)
(* the one several copies share: a container runs as soon as it is created *)
(* and is removed when it is stopped (kubernetes-backend).                 *)
(***************************************************************************)
EXTENDS Integers, Sequences, FiniteSets

CONSTANTS
    Copies,         \* copies of the runner, numbered by age
    MaxContainers,  \* containers are numbered up to this bound
    MaxSockets,     \* sockets are numbered up to this bound
    MaxReports,     \* bound: reports that wait in a copy's chain
    Scenes          \* bounds: what may happen, and how often

\* starts claimed, sockets opened, containers that exit by themselves,
\* running copies that fall silent, copies killed or shut down, sockets that
\* break, calls to the control plane and to the backend that fail, stops and
\* respawns asked for, claims that are refused; and whether the sandbox runs already.
Budget == {"starts", "sockets", "deaths", "lapses", "crashes", "retires", "drops",
           "losses", "failures", "stops", "respawns", "refusals", "warm"}

ASSUME FleetAssumption ==
    /\ {Copies, MaxContainers, MaxSockets} \subseteq Nat \ {0}
    /\ MaxReports \in Nat
    /\ Scenes \subseteq [Budget -> Nat]

VARIABLES
    row,     \* the sandbox's row
    box,     \* the containers of the sandbox on the backend
    sock,    \* the sockets supervisors opened, by the order of opening
    heard,   \* what runner_replicas says of each copy
    mind,    \* the memory of each copy's process
    ledger,  \* the runtime interval of each container
    budget   \* what may still happen in this scene

vars == <<row, box, sock, heard, mind, ledger, budget>>

Copy == 1 .. Copies
Container == 1 .. MaxContainers
Socket == 1 .. MaxSockets

Status == {"unprovisioned", "starting", "running", "stopping", "stopped", "failed"}

\* token: the container whose bootstrap token's hash is recorded; holder and
\* conn: the copy and the socket of the channel.  0 is NULL.
Row == [status: Status, owner: Copy \cup {0}, ref: Container \cup {0},
        token: Container \cup {0}, holder: Copy \cup {0}, conn: Socket \cup {0}]

\* at: the container on the backend; session: its supervisor was handed a
\* credential; told: it said that it is ready.
Box == [at: {"none", "up", "dead", "gone"}, session: BOOLEAN, told: BOOLEAN]

\* owed: admitted while the control plane could not be asked.
Sock == [at: {"none", "asking", "open", "closing", "closed", "refused"}, of: Container \cup {0},
         on: Copy \cup {0}, owed: BOOLEAN]

\* A report names a container in ref (the one started) or seen (the one
\* observed).
Report == [kind: {"ready", "starting", "stopped", "failed"},
           ref: Container \cup {0}, seen: Container \cup {0}]

Starting == {"list", "replace", "create", "record", "boot", "undo", "leave"}
Stopping == {"look", "stop", "sweep"}
Job == [step: {"idle", "tell"} \cup Starting \cup Stopping, of: Container \cup {0}]

Read == [status: Status, ref: Container \cup {0},
         channel: {"awaiting", "starting", "none", "lost", "held", "dropped"}]
NotReading == [status |-> "stopped", ref |-> 0, channel |-> "none"]

\* up: the process runs.  next: the item queued behind the job.  chain: the
\* report chain; aside: a report of its own, off the chain.  dead, stray:
\* reportedDead and strayStopped.  watch: the closed socket's container
\* under the looks.  pass: the listing a reconcile pass read; missed: the
\* pass before found no container.  late, a history: what this copy had in
\* hand when another one claimed while it did not count as live.
Mind == [up: BOOLEAN, job: Job, next: {"none", "start", "stop"},
         chain: Seq(Report), aside: SUBSET Report,
         dead: SUBSET Container, stray: SUBSET Container,
         watch: Container \cup {0}, reading: BOOLEAN, pass: Read, missed: BOOLEAN,
         late: SUBSET {"start", "report"}]

TypeOK ==
    /\ row \in Row
    /\ box \in [Container -> Box]
    /\ sock \in [Socket -> Sock]
    /\ heard \in [Copy -> {"live", "stale", "retired"}]
    /\ mind \in [Copy -> Mind]
    /\ ledger \in [Container -> {"none", "open", "closed"}]
    /\ budget \in [Budget -> Nat]

Idle == [step |-> "idle", of |-> 0]
Fresh == [up |-> TRUE, job |-> Idle, next |-> "none", chain |-> << >>, aside |-> {},
          dead |-> {}, stray |-> {}, watch |-> 0, reading |-> FALSE, pass |-> NotReading,
          missed |-> FALSE, late |-> {}]

\* Nothing yet; or, in a warm scene, the oldest copy has started the sandbox
\* and holds its socket.
Init ==
    /\ budget \in Scenes
    /\ LET warm == budget["warm"] > 0
           one == IF warm THEN 1 ELSE 0
       IN  /\ row = [status |-> IF warm THEN "running" ELSE "unprovisioned", owner |-> one,
                     ref |-> one, token |-> 0, holder |-> one, conn |-> one]
           /\ box = [n \in Container |-> [at |-> IF n = one THEN "up" ELSE "none",
                                          session |-> n = one, told |-> n = one]]
           /\ sock = [k \in Socket |-> [at |-> IF k = one THEN "open" ELSE "none",
                                        of |-> IF k = one THEN one ELSE 0,
                                        on |-> IF k = one THEN one ELSE 0, owed |-> FALSE]]
           /\ ledger = [n \in Container |-> IF n = one THEN "open" ELSE "none"]
    /\ heard = [c \in Copy |-> "live"]
    /\ mind = [c \in Copy |-> Fresh]

Spend(b) ==
    /\ budget[b] > 0
    /\ budget' = [budget EXCEPT ![b] = @ - 1]

\* Every call of a copy touches its heartbeat; a retirement stays.
Calls(c) ==
    heard' = [heard EXCEPT ![c] = IF @ = "stale" THEN "live" ELSE @]

Listed == {n \in Container : box[n].at \in {"up", "dead"}}

(***************************************************************************)
(* runner-replica-fence                                                    *)
(***************************************************************************)
liveReplica(c) == heard[c] = "live"

\* Mutated form: any copy may take the next step.
lifecycleFreeFor_any(c) == heard[c] # "retired"

lifecycleFreeFor(c) ==
    /\ row.owner \notin {0, c} => ~liveReplica(row.owner)
    /\ heard[c] # "retired"

(***************************************************************************)
(* The row's writes                                                        *)
(***************************************************************************)
channelStateOf(r) ==
    CASE r.token # 0 -> "awaiting"
      [] r.token = 0 /\ r.holder = 0 -> IF r.status = "starting" THEN "starting" ELSE "none"
      [] r.token = 0 /\ r.holder # 0 ->
            IF ~liveReplica(r.holder) THEN "lost"
            ELSE IF r.conn # 0 THEN "held" ELSE "dropped"

\* The start arm: the channel of the old container is history, the recorded
\* container stays.
claimStart(c) ==
    [row EXCEPT !.status = "starting", !.owner = c, !.holder = 0, !.conn = 0, !.token = 0]

claimStop(c) == [row EXCEPT !.status = "stopping", !.owner = c]

\* Mutated form: the copy that owns the sandbox is not compared.
recordSpawnApplies_unowned(c) == row.status = "starting"

recordSpawnApplies(c) == row.owner = c /\ row.status = "starting"

recordSpawn(n) == [row EXCEPT !.ref = n, !.token = n, !.holder = 0, !.conn = 0]

sessionApplies(k) == row.ref = sock[k].of /\ row.token = 0 /\ row.conn <= k

takesChannel(k) ==
    [row EXCEPT !.token = 0, !.holder = sock'[k].on, !.conn = k]

\* Mutated form: the release names the copy alone.
releaseApplies_byCopy(k) == row.holder = sock[k].on

releaseApplies(k) == row.conn = k /\ row.holder = sock[k].on

\* applyRunnerEvent: who may report what, and over which status.
reportApplies(c, e) ==
    CASE e.kind = "ready" -> row.holder = c
      [] e.kind # "ready" ->
            /\ IF e.seen # 0 THEN row.ref = e.seen ELSE row.owner = c
            /\ e.kind = "stopped" => row.status \in {"running", "stopping"}
            /\ e.kind \in {"starting", "failed"} => row.status # "running"

\* Mutated form: the event's word is stored as the status.
applyRunnerEvent_raw(c, e) ==
    IF reportApplies(c, e) THEN [row EXCEPT !.status = e.kind] ELSE row

applyRunnerEvent(c, e) ==
    IF reportApplies(c, e)
    THEN [row EXCEPT !.status = IF e.kind = "ready" THEN "running" ELSE e.kind]
    ELSE row

(***************************************************************************)
(* runtime-ledger: one row per container, unique by its reference          *)
(***************************************************************************)
Recorded == \E n \in Container : ledger[n] = "open"

\* Mutated form: the run of the container before is left to its own report.
openRuntimeInterval_only(n) ==
    IF ledger[n] = "none" THEN [ledger EXCEPT ![n] = "open"] ELSE ledger

\* Every other run is over; a row that exists is not touched.
openRuntimeInterval(n) ==
    [m \in Container |-> CASE m = n /\ ledger[m] = "none" -> "open"
                           [] m # n /\ ledger[m] = "open" -> "closed"
                           [] OTHER -> ledger[m]]

closeRuntimeInterval ==
    [m \in Container |-> IF ledger[m] = "open" THEN "closed" ELSE ledger[m]]

\* A report that is applied and ends the run closes its row with the status.
closedBy(c, e) ==
    IF reportApplies(c, e) /\ e.kind \in {"stopped", "failed"} THEN closeRuntimeInterval ELSE ledger

\* Mutated form: a run a respawn discarded is not taken for over.
isOrphaned_reported == Recorded /\ row.status \in {"stopped", "failed"}

isOrphaned == Recorded /\ row.status \notin {"starting", "running", "stopping"}

\* Mutated form: any row of the sandbox counts, also one that ended.
isUnrecorded_ever ==
    /\ row.status = "running" /\ row.ref # 0
    /\ \A n \in Container : ledger[n] = "none"

isUnrecorded ==
    /\ row.status = "running" /\ row.ref # 0
    /\ ~Recorded

\* sweepRuntimeLedger, on a poll: its statements are independent.  A row of
\* that container stays as it is.
CloseOrphan ==
    /\ isOrphaned
    /\ ledger' = closeRuntimeInterval
    /\ UNCHANGED <<row, box, sock, heard, mind, budget>>

OpenUnrecorded ==
    /\ isUnrecorded /\ ledger[row.ref] = "none"
    /\ ledger' = [ledger EXCEPT ![row.ref] = "open"]
    /\ UNCHANGED <<row, box, sock, heard, mind, budget>>

(***************************************************************************)
(* Claims of lifecycle work                                                *)
(***************************************************************************)
hasStart(c) == mind[c].job.step \in Starting \/ mind[c].next = "start"

\* A start that waits or runs on a copy the control plane hears from keeps
\* its claim fresh.
heartbeats == \E c \in Copy : row.owner = c /\ liveReplica(c) /\ mind[c].up /\ hasStart(c)

startDue ==
    \/ row.status \in {"unprovisioned", "stopped", "failed", "stopping"}
    \/ row.status = "starting" /\ ~heartbeats

inFlight(c) == mind[c].job # Idle \/ mind[c].next # "none"

\* The report of a start that is still to name its container.
owesRef(c) == \E i \in DOMAIN mind[c].chain : mind[c].chain[i].ref # 0

inHand(c) == {w \in {"start", "report"} : IF w = "start" THEN hasStart(c) ELSE owesRef(c)}

\* A claim of c overtakes what other copies have in hand.
Overtakes(c) ==
    [d \in Copy |-> IF d = c \/ liveReplica(d) THEN mind[d]
                    ELSE [mind[d] EXCEPT !.late = @ \cup inHand(d)]]

\* enqueueWork: the item is queued behind the job or takes the place of the
\* one queued.  Bound: one item waits.
Enqueue(c, item) ==
    /\ mind[c].next \in {"none", item}
    /\ mind' = [Overtakes(c) EXCEPT ![c].next = item]

\* A start is also absorbed by the same start executing right now.
Absorb(c) ==
    /\ mind[c].next = "none"
    /\ mind[c].job.step \in Starting \cup {"tell"}
    /\ mind' = Overtakes(c)

ClaimStart(c) ==
    /\ mind[c].up
    /\ startDue /\ lifecycleFreeFor(c)
    /\ Spend("starts")
    /\ row' = claimStart(c)
    /\ Enqueue(c, "start") \/ Absorb(c)
    /\ Calls(c)
    /\ UNCHANGED <<box, sock, ledger>>

\* A claim whose start cannot be composed goes back into the queue, or is
\* parked; the copy is told of neither.
ClaimRefused(c) ==
    /\ mind[c].up
    /\ startDue /\ lifecycleFreeFor(c)
    /\ Spend("refusals")
    /\ \E s \in {"unprovisioned", "failed"} : row' = [claimStart(c) EXCEPT !.status = s]
    /\ mind' = Overtakes(c)
    /\ Calls(c)
    /\ UNCHANGED <<box, sock, ledger>>

\* Idle, evicted or restarted.
ClaimStop(c) ==
    /\ mind[c].up
    /\ row.status = "running" /\ lifecycleFreeFor(c)
    /\ Spend("stops")
    /\ row' = claimStop(c)
    /\ Enqueue(c, "stop")
    /\ Calls(c)
    /\ UNCHANGED <<box, sock, ledger>>

\* requestSandboxRespawn: new settings want a new container.
Respawn ==
    /\ row.status \in {"starting", "running"}
    /\ Spend("respawns")
    /\ row' = [row EXCEPT !.status = "unprovisioned"]
    /\ ledger' = closeRuntimeInterval
    /\ UNCHANGED <<box, sock, heard, mind>>

(***************************************************************************)
(* The lifecycle chain of a copy                                           *)
(***************************************************************************)
Turn(c, step, n) == [mind EXCEPT ![c].job = [step |-> step, of |-> n]]

NextJob(c) ==
    /\ mind[c].up
    /\ mind[c].job = Idle /\ mind[c].next # "none"
    /\ mind' = [mind EXCEPT ![c].next = "none",
                            ![c].job = [step |-> IF mind[c].next = "start" THEN "list" ELSE "look",
                                        of |-> 0]]
    /\ UNCHANGED <<row, box, sock, heard, budget, ledger>>

At(c, step) == mind[c].up /\ mind[c].job.step = step

\* A container that stops or is removed takes its sockets with it.
Ended(ns) == [k \in Socket |-> IF sock[k].of \in ns /\ sock[k].at = "open"
                               THEN [sock[k] EXCEPT !.at = "closing"] ELSE sock[k]]

\* The copies that held an open socket of these containers look at them, and
\* only the newest socket of a copy counts.
Newest(c, k) == \A j \in Socket : sock[j].on = c /\ sock[j].at = "open" => j <= k
Watches(c, ns) ==
    {sock[k].of : k \in {j \in Socket : sock[j].of \in ns /\ sock[j].at = "open"
                                        /\ sock[j].on = c /\ Newest(c, j)}}

Leaves(ns, at) ==
    /\ box' = [n \in Container |-> IF n \in ns THEN [box[n] EXCEPT !.at = at] ELSE box[n]]
    /\ sock' = Ended(ns)

Watching(m, ns) ==
    [c \in Copy |-> IF Watches(c, ns) = {} \/ ~m[c].up \/ heard[c] = "retired" THEN m[c]
                    ELSE [m[c] EXCEPT !.watch = CHOOSE n \in Watches(c, ns) : TRUE]]

\* startSandbox: whichever container the backend lists is replaced.
ListExisting(c) ==
    /\ At(c, "list")
    /\ IF Listed = {} THEN mind' = Turn(c, "create", 0)
                      ELSE \E n \in Listed : mind' = Turn(c, "replace", n)
    /\ UNCHANGED <<row, box, sock, heard, budget, ledger>>

ReplaceExisting(c) ==
    LET old == mind[c].job.of
    IN  /\ At(c, "replace")
        /\ Leaves({old}, "gone")
        /\ mind' = Watching(Turn(c, "create", 0), {old})
        /\ UNCHANGED <<row, heard, budget, ledger>>

\* The create returns once the container runs.
CreateContainer(c) ==
    /\ At(c, "create")
    /\ \E n \in Container :
          /\ box[n].at = "none" /\ \A m \in 1 .. n - 1 : box[m].at # "none"
          /\ box' = [box EXCEPT ![n].at = "up"]
          /\ mind' = Turn(c, "record", n)
    /\ UNCHANGED <<row, sock, heard, budget, ledger>>

\* From here its supervisor's first connect is admitted; a start that no
\* longer applies stands down.
RecordSpawn(c) ==
    LET n == mind[c].job.of
    IN  /\ At(c, "record")
        /\ Calls(c)
        /\ IF recordSpawnApplies(c)
           THEN row' = recordSpawn(n) /\ mind' = Turn(c, "boot", n)
           ELSE mind' = Turn(c, "leave", n) /\ UNCHANGED row
        /\ UNCHANGED <<box, sock, budget, ledger>>

\* The call fails, with or without landing.
SpawnUnanswered(c) ==
    LET n == mind[c].job.of
    IN  /\ At(c, "record")
        /\ Spend("failures")
        /\ mind' = Turn(c, "undo", n)
        /\ row' \in {row} \cup (IF recordSpawnApplies(c) THEN {recordSpawn(n)} ELSE {})
        /\ UNCHANGED <<box, sock, heard, ledger>>

SaysOf(kind, ref, seen) == [kind |-> kind, ref |-> ref, seen |-> seen]

\* The job's report goes on the chain, and the job ends when it is posted.
Tells(m, c, report) ==
    [m EXCEPT ![c].job = [step |-> "tell", of |-> 0], ![c].chain = Append(@, report)]

\* removeQuietly: what a start created and may not keep goes, unless the
\* backend fails.  A start that stood down says nothing.
RemoveQuietly(c) ==
    LET n == mind[c].job.of
        after == IF mind[c].job.step = "undo" THEN Tells(mind, c, SaysOf("failed", 0, 0))
                                              ELSE Turn(c, "idle", 0)
    IN  /\ mind[c].up /\ mind[c].job.step \in {"undo", "leave"}
        /\ \/ /\ Leaves({n}, "gone")
              /\ mind' = Watching(after, {n})
              /\ UNCHANGED budget
           \/ /\ Spend("failures")
              /\ mind' = after
              /\ UNCHANGED <<box, sock>>
        /\ UNCHANGED <<row, heard, ledger>>

BootContainer(c) ==
    LET n == mind[c].job.of
    IN  /\ At(c, "boot")
        /\ box[n].at # "gone"
        /\ mind' = Tells(mind, c, SaysOf("starting", n, 0))
        /\ UNCHANGED <<row, box, sock, heard, budget, ledger>>

\* A backend call that ends a container may fail after it did.
MayEnd(n) == Leaves({n}, "gone") \/ UNCHANGED <<box, sock>>
EndedBy(m, n) == IF box'[n].at = "gone" THEN Watching(m, {n}) ELSE m

\* A backend call of the start fails, or there is no container to boot.
StartFails(c) ==
    LET job == mind[c].job
        failed == Tells(mind, c, SaysOf("failed", 0, 0))
    IN  /\ mind[c].up /\ job.step \in {"list", "replace", "create", "boot"}
        /\ \/ /\ job.step = "boot" /\ box[job.of].at = "gone"
              /\ UNCHANGED budget
           \/ Spend("failures")
        /\ IF job.step = "replace"
           THEN MayEnd(job.of) /\ mind' = EndedBy(failed, job.of)
           ELSE mind' = failed /\ UNCHANGED <<box, sock>>
        /\ UNCHANGED <<row, heard, ledger>>

\* stopSandbox: the container the backend lists, whoever made it.
LookForContainer(c) ==
    /\ At(c, "look")
    /\ IF Listed = {} THEN mind' = Tells(mind, c, SaysOf("stopped", 0, 0))
                      ELSE \E n \in Listed : mind' = Turn(c, "stop", n)
    /\ UNCHANGED <<row, box, sock, heard, budget, ledger>>

StopContainer(c) ==
    LET n == mind[c].job.of
    IN  /\ At(c, "stop")
        /\ Leaves({n}, "gone")
        /\ mind' = Watching(Tells(mind, c, SaysOf("stopped", 0, 0)), {n})
        /\ UNCHANGED <<row, heard, budget, ledger>>

\* A stray's stop names the container, and a failed one is tried again.
SweepStray(c) ==
    LET n == mind[c].job.of
    IN  /\ At(c, "sweep")
        /\ Leaves({n}, "gone")
        /\ mind' = Watching(Tells(mind, c, SaysOf("stopped", 0, n)), {n})
        /\ UNCHANGED <<row, heard, budget, ledger>>

StopFails(c) ==
    LET job == mind[c].job
        after == IF job.step = "sweep"
                 THEN [mind EXCEPT ![c].stray = @ \ {job.of}, ![c].job = Idle]
                 ELSE Tells(mind, c, SaysOf("failed", 0, 0))
    IN  /\ mind[c].up /\ job.step \in Stopping
        /\ Spend("failures")
        /\ IF job.step = "look"
           THEN mind' = after /\ UNCHANGED <<box, sock>>
           ELSE MayEnd(job.of) /\ mind' = EndedBy(after, job.of)
        /\ UNCHANGED <<row, heard, ledger>>

(***************************************************************************)
(* Reports                                                                 *)
(***************************************************************************)
\* A posted status ends the job that waited for it.
Posted(c) ==
    [mind EXCEPT ![c].chain = Tail(@),
                 ![c].job = IF Head(mind[c].chain).kind = "ready" THEN @ ELSE Idle]

\* applyRunnerEvent's first transaction: the container a report of the owner
\* names, whatever the status, and the run it opens.
PostRef(c) ==
    LET n == Head(mind[c].chain).ref
    IN  /\ mind[c].up /\ mind[c].chain # << >>
        /\ n # 0
        /\ IF row.owner = c
           THEN row' = [row EXCEPT !.ref = n] /\ ledger' = openRuntimeInterval(n)
           ELSE UNCHANGED <<row, ledger>>
        /\ mind' = [mind EXCEPT ![c].chain[1].ref = 0]
        /\ Calls(c)
        /\ UNCHANGED <<box, sock, budget>>

\* Its second: the status.
PostReport(c) ==
    LET e == Head(mind[c].chain)
    IN  /\ mind[c].up /\ mind[c].chain # << >>
        /\ e.ref = 0
        /\ row' = applyRunnerEvent(c, e)
        /\ ledger' = closedBy(c, e)
        /\ mind' = Posted(c)
        /\ Calls(c)
        /\ UNCHANGED <<box, sock, budget>>

\* beginStartHeartbeat: a start that waits or runs says so from time to time,
\* behind the reports of the chain.
Heartbeat(c) ==
    /\ mind[c].up /\ heard[c] # "retired"
    /\ hasStart(c) /\ mind[c].chain = << >>
    /\ row' = applyRunnerEvent(c, SaysOf("starting", 0, 0))
    /\ Calls(c)
    /\ UNCHANGED <<box, sock, mind, budget, ledger>>

PostAside(c) ==
    /\ mind[c].up
    /\ \E e \in mind[c].aside :
          /\ row' = applyRunnerEvent(c, e)
          /\ ledger' = closedBy(c, e)
          /\ mind' = [mind EXCEPT ![c].aside = @ \ {e}]
    /\ Calls(c)
    /\ UNCHANGED <<box, sock, budget>>

\* "Events are advisory": a report that fails is logged and forgotten.
ReportLost(c) ==
    /\ mind[c].up
    /\ Spend("losses")
    /\ \/ mind[c].chain # << >> /\ mind' = Posted(c)
       \/ \E e \in mind[c].aside : mind' = [mind EXCEPT ![c].aside = @ \ {e}]
    /\ UNCHANGED <<row, box, sock, heard, ledger>>

(***************************************************************************)
(* Sockets                                                                 *)
(***************************************************************************)
OpenOn(c) == {k \in Socket : sock[k].on = c /\ sock[k].at = "open"}
OpenOf(n) == {k \in Socket : sock[k].of = n /\ sock[k].at = "open"}

\* The supervisor dials the runner's address and lands on a copy that
\* admits.  It may have lost a socket the other end still holds.
Dial(n, c) ==
    /\ box[n].at = "up"
    /\ mind[c].up /\ heard[c] # "retired"
    /\ ~\E k \in Socket : sock[k].of = n /\ sock[k].at = "asking"
    /\ OpenOf(n) # {} => budget["drops"] > 0
    /\ Spend("sockets")
    /\ \E k \in Socket :
          /\ sock[k].at = "none" /\ \A j \in 1 .. k - 1 : sock[j].at # "none"
          /\ sock' = [sock EXCEPT ![k] = [at |-> "asking", of |-> n, on |-> c, owed |-> FALSE]]
    /\ UNCHANGED <<row, box, heard, mind, ledger>>

\* attach: the newest dial-in replaces this copy's earlier socket, and is
\* handed a session.  A draining copy closes it at once; the socket of a
\* container that ended while the claim was on its way breaks.
lasts(k) == heard[sock[k].on] # "retired" /\ box[sock[k].of].at = "up"

Attached(k, owed) ==
    [j \in Socket |->
        IF j = k THEN [sock[k] EXCEPT !.at = IF lasts(k) THEN "open" ELSE "closing", !.owed = owed]
        ELSE IF j \in OpenOn(sock[k].on) THEN [sock[j] EXCEPT !.at = "closing"]
        ELSE sock[j]]

\* What the copy then looks at.
LooksAfter(k) ==
    [mind EXCEPT ![sock[k].on].watch =
        IF box[sock[k].of].at # "up" /\ heard[sock[k].on] # "retired" THEN sock[k].of ELSE @]

doorApplies(k) ==
    IF box[sock[k].of].session THEN sessionApplies(k) ELSE row.token = sock[k].of

Asking(k) == sock[k].at = "asking" /\ mind[sock[k].on].up

Admit(k) ==
    /\ Asking(k)
    /\ Calls(sock[k].on)
    /\ IF doorApplies(k)
       THEN /\ sock' = Attached(k, FALSE)
            /\ row' = takesChannel(k)
            /\ box' = [box EXCEPT ![sock[k].of].session = TRUE]
            /\ mind' = LooksAfter(k)
       ELSE /\ sock' = [sock EXCEPT ![k].at = "refused"]
            /\ UNCHANGED <<row, box, mind>>
    /\ UNCHANGED <<budget, ledger>>

\* The last container this copy admitted the sandbox as.
known(c) ==
    LET admitted == {k \in Socket : sock[k].on = c /\ sock[k].at \in {"open", "closing", "closed"}}
    IN  {sock[k].of : k \in {j \in admitted : \A i \in admitted : i <= j}}

\* The claim fails, with or without landing: a first connect is refused, a
\* session this copy knows is admitted and its claim stays owed.
AdmitUnanswered(k) ==
    LET n == sock[k].of
    IN  /\ Asking(k)
        /\ Spend("losses")
        /\ IF box[n].session /\ n \in known(sock[k].on)
           THEN sock' = Attached(k, TRUE) /\ mind' = LooksAfter(k)
           ELSE sock' = [sock EXCEPT ![k].at = "refused"] /\ UNCHANGED mind
        /\ row' \in {row} \cup (IF doorApplies(k) THEN {takesChannel(k)} ELSE {})
        /\ UNCHANGED <<box, heard, ledger>>

\* settleOwedClaim, while the socket is open.
SettleOwedClaim(k) ==
    /\ sock[k].at = "open" /\ sock[k].owed
    /\ mind[sock[k].on].up
    /\ Calls(sock[k].on)
    /\ IF sessionApplies(k)
       THEN /\ sock' = [sock EXCEPT ![k].owed = FALSE]
            /\ row' = takesChannel(k)
       ELSE /\ sock' = [sock EXCEPT ![k].owed = FALSE, ![k].at = "closing"]
            /\ UNCHANGED row
    /\ UNCHANGED <<box, mind, budget, ledger>>

\* The socket's close handler releases the channel, after its claim; a
\* release is given up when all its attempts fail.
Release(k) ==
    LET c == sock[k].on
    IN  /\ sock[k].at = "closing"
        /\ mind[c].up
        /\ sock' = [sock EXCEPT ![k].at = "closed"]
        /\ \/ /\ row' = IF releaseApplies(k) THEN [row EXCEPT !.conn = 0] ELSE row
              /\ Calls(c)
              /\ UNCHANGED budget
           \/ /\ Spend("losses")
              /\ UNCHANGED <<row, heard>>
        /\ UNCHANGED <<box, mind, ledger>>

\* A socket breaks while its container runs; the copy looks at the container.
SocketDrops(k) ==
    /\ sock[k].at = "open"
    /\ Spend("drops")
    /\ sock' = [sock EXCEPT ![k].at = "closing"]
    /\ mind' = Watching(mind, {sock[k].of})
    /\ UNCHANGED <<row, box, heard, ledger>>

\* The supervisor says once that it is ready.
SupervisorReady(k) ==
    LET n == sock[k].of
    IN  /\ sock[k].at = "open" /\ ~box[n].told
        /\ mind[sock[k].on].up /\ box[n].at = "up"
        /\ Len(mind[sock[k].on].chain) < MaxReports
        /\ box' = [box EXCEPT ![n].told = TRUE]
        /\ mind' = [mind EXCEPT ![sock[k].on].chain = Append(@, SaysOf("ready", 0, 0))]
        /\ UNCHANGED <<row, sock, heard, budget, ledger>>

\* A container exits by itself (its supervisor gave up, or it was killed).
ContainerDies(n) ==
    /\ box[n].at = "up"
    /\ Spend("deaths")
    /\ Leaves({n}, "dead")
    /\ mind' = Watching(mind, {n})
    /\ UNCHANGED <<row, heard, ledger>>

(***************************************************************************)
(* Looks and reconcile passes                                              *)
(***************************************************************************)
\* lookAtClosed: only the container the socket was for, and only while this
\* copy does nothing with the sandbox and holds no socket of it.
LookAtClosed(c) ==
    LET n == mind[c].watch
        open == n \notin mind[c].dead /\ ~inFlight(c) /\ OpenOn(c) = {}
        died == open /\ Listed \subseteq {n} /\ box[n].at # "up"
    IN  /\ mind[c].up /\ n # 0
        /\ mind' = IF died
                   THEN [mind EXCEPT ![c].watch = 0, ![c].dead = @ \cup {n},
                                     ![c].aside = @ \cup {SaysOf("stopped", 0, n)}]
                   ELSE [mind EXCEPT ![c].watch = 0]
        /\ UNCHANGED <<row, box, sock, heard, budget, ledger>>

\* The oldest live copy reads the listing.  A listing that allows no verdict
\* is left out: its pass changes nothing.
BeginPass(c) ==
    /\ mind[c].up /\ ~mind[c].reading
    /\ heard[c] # "retired" /\ \A d \in 1 .. c - 1 : ~liveReplica(d)
    /\ channelStateOf(row) \notin {"held", "starting"} \/ row.status = "running"
    /\ mind' = [mind EXCEPT ![c].reading = TRUE,
                            ![c].pass = [status |-> row.status, ref |-> row.ref,
                                         channel |-> channelStateOf(row)]]
    /\ Calls(c)
    /\ UNCHANGED <<row, box, sock, budget, ledger>>

\* Mutated form: a dead container without a socket waits for a reconnect.
classifySandbox_dropped(p, n) ==
    IF p.ref \notin {0, n} \/ p.channel \in {"held", "starting", "dropped"} THEN "leave"
    ELSE IF box[n].at # "up" THEN IF p.channel = "awaiting" THEN "boot-crash" ELSE "dead"
    ELSE IF p.channel = "awaiting" THEN "leave"
    ELSE IF p.status \in {"stopped", "failed"} THEN "stray" ELSE "channelless"

\* classifySandbox, each grace taken as over whenever it can be.
classifySandbox(p, n) ==
    IF p.ref \notin {0, n} THEN "leave"
    ELSE IF box[n].at # "up"
    THEN CASE p.channel = "awaiting" -> "boot-crash"
           [] p.channel \in {"held", "starting"} -> "leave"
           [] p.channel \in {"none", "lost", "dropped"} -> "dead"
    ELSE IF p.channel \in {"held", "awaiting", "starting", "dropped"} THEN "leave"
    ELSE IF p.status \in {"stopped", "failed"} THEN "stray" ELSE "channelless"

\* This copy's own lifecycle work in flight: its verdicts wait.
busy(c) == mind[c].next # "none" \/ mind[c].job.step \in Starting \cup {"tell"}

Ends(m, c) == [m EXCEPT ![c].reading = FALSE, ![c].pass = NotReading, ![c].missed = FALSE]

ReportsDead(c, kind, n) ==
    [mind EXCEPT ![c].dead = @ \cup {n}, ![c].aside = @ \cup {SaysOf(kind, 0, n)}]

PassReportsDead(c) ==
    /\ mind[c].up /\ mind[c].reading /\ ~busy(c)
    /\ \E n \in Listed \ mind[c].dead :
          /\ classifySandbox(mind[c].pass, n) \in {"dead", "channelless"}
          /\ mind' = Ends(ReportsDead(c, "stopped", n), c)
    /\ UNCHANGED <<row, box, sock, heard, budget, ledger>>

PassFindsBootCrash(c) ==
    /\ mind[c].up /\ mind[c].reading /\ ~busy(c)
    /\ \E n \in Listed \ mind[c].dead :
          /\ classifySandbox(mind[c].pass, n) = "boot-crash"
          /\ Leaves({n}, "gone")
          /\ mind' = Ends(ReportsDead(c, "failed", n), c)
    /\ UNCHANGED <<row, heard, budget, ledger>>

\* claimStrayStop is fenced on the container and on the lifecycle.
strayStopApplies(c, n) ==
    row.ref = n /\ row.status \in {"stopped", "failed"} /\ lifecycleFreeFor(c)

PassStopsStray(c) ==
    /\ mind[c].up /\ mind[c].reading /\ ~inFlight(c)
    /\ \E n \in Listed \ mind[c].stray :
          /\ classifySandbox(mind[c].pass, n) = "stray"
          /\ Calls(c)
          /\ IF strayStopApplies(c, n)
             THEN /\ row' = claimStop(c)
                  /\ mind' = Ends([Overtakes(c) EXCEPT ![c].stray = @ \cup {n},
                                               ![c].job = [step |-> "sweep", of |-> n]], c)
             ELSE mind' = Ends(mind, c) /\ UNCHANGED row
    /\ UNCHANGED <<box, sock, budget, ledger>>

\* The claim fails, with or without landing, and the pass with it; the
\* container stays marked as stopped.
StrayUnanswered(c) ==
    /\ mind[c].up /\ mind[c].reading /\ ~inFlight(c)
    /\ \E n \in Listed \ mind[c].stray :
          LET after(m) == [m EXCEPT ![c].stray = @ \cup {n}, ![c].reading = FALSE,
                                    ![c].pass = NotReading]
          IN  /\ classifySandbox(mind[c].pass, n) = "stray"
              /\ Spend("losses")
              /\ \/ strayStopApplies(c, n) /\ row' = claimStop(c) /\ mind' = after(Overtakes(c))
                 \/ UNCHANGED row /\ mind' = after(mind)
    /\ UNCHANGED <<box, sock, heard, ledger>>

\* No container at all, on this pass and on the one before.
PassFindsNone(c) ==
    LET p == mind[c].pass
        missing == p.status = "running" /\ ~busy(c)
    IN  /\ mind[c].up /\ mind[c].reading
        /\ Listed = {}
        /\ mind' = IF missing /\ mind[c].missed
                   THEN Ends([mind EXCEPT ![c].aside = @ \cup {SaysOf("stopped", 0, p.ref)}], c)
                   ELSE [Ends(mind, c) EXCEPT ![c].missed = missing]
        /\ UNCHANGED <<row, box, sock, heard, budget, ledger>>

\* Nothing to act on, or a grace that is not over.
PassLeaves(c) ==
    /\ mind[c].up /\ mind[c].reading
    /\ Listed # {}
    /\ busy(c) \/ ~\E n \in Listed \ mind[c].dead : classifySandbox(mind[c].pass, n) = "dead"
    /\ mind' = Ends(mind, c)
    /\ UNCHANGED <<row, box, sock, heard, budget, ledger>>

(***************************************************************************)
(* The copies                                                              *)
(***************************************************************************)
\* The liveness window passes without a call.
Lapse(c) ==
    /\ heard[c] = "live"
    /\ IF mind[c].up THEN Spend("lapses") ELSE UNCHANGED budget
    /\ heard' = [heard EXCEPT ![c] = "stale"]
    /\ UNCHANGED <<row, box, sock, mind, ledger>>

\* Killed: its memory is gone and its sockets break without a release.
Crash(c) ==
    /\ mind[c].up
    /\ Spend("crashes")
    /\ mind' = [mind EXCEPT ![c] = [Fresh EXCEPT !.up = FALSE, !.late = mind[c].late]]
    /\ sock' = [k \in Socket |-> IF sock[k].on = c /\ sock[k].at # "refused"
                                 THEN [sock[k] EXCEPT !.at = "closed", !.owed = FALSE] ELSE sock[k]]
    /\ UNCHANGED <<row, box, heard, ledger>>

\* stop: retire first, then hand the sockets over.
Retire(c) ==
    /\ mind[c].up /\ heard[c] # "retired"
    /\ Spend("retires")
    /\ heard' = [heard EXCEPT ![c] = "retired"]
    /\ sock' = [k \in Socket |-> IF k \in OpenOn(c) THEN [sock[k] EXCEPT !.at = "closing"] ELSE sock[k]]
    /\ mind' = [mind EXCEPT ![c].reading = FALSE, ![c].pass = NotReading]
    /\ UNCHANGED <<row, box, ledger>>

(***************************************************************************)
(* The specification                                                       *)
(***************************************************************************)
Start(c) == \/ ListExisting(c) \/ ReplaceExisting(c) \/ CreateContainer(c) \/ RecordSpawn(c)
            \/ SpawnUnanswered(c) \/ RemoveQuietly(c) \/ BootContainer(c) \/ StartFails(c)
Stop(c) == LookForContainer(c) \/ StopContainer(c) \/ SweepStray(c) \/ StopFails(c)
Verdict(c) == \/ PassReportsDead(c) \/ PassFindsBootCrash(c) \/ PassStopsStray(c)
              \/ StrayUnanswered(c) \/ PassFindsNone(c) \/ PassLeaves(c)

Next ==
    \/ \E c \in Copy :
          \/ ClaimStart(c) \/ ClaimRefused(c) \/ ClaimStop(c) \/ NextJob(c) \/ Start(c) \/ Stop(c)
          \/ PostRef(c) \/ PostReport(c) \/ Heartbeat(c) \/ PostAside(c) \/ ReportLost(c)
          \/ LookAtClosed(c) \/ BeginPass(c) \/ Verdict(c)
          \/ Lapse(c) \/ Crash(c) \/ Retire(c)
          \/ \E n \in Container : Dial(n, c)
    \/ \E k \in Socket :
          \/ Admit(k) \/ AdmitUnanswered(k) \/ SettleOwedClaim(k) \/ Release(k)
          \/ SocketDrops(k) \/ SupervisorReady(k)
    \/ \E n \in Container : ContainerDies(n)
    \/ Respawn \/ CloseOrphan \/ OpenUnrecorded

Spec == Init /\ [][Next]_vars

\* What a copy has begun, it goes on with; the window of a killed one passes.
Work(c) ==
    \/ NextJob(c) \/ Start(c) \/ Stop(c)
    \/ PostRef(c) \/ PostReport(c) \/ PostAside(c) \/ LookAtClosed(c)
    \/ \E k \in Socket : sock[k].on = c /\ Release(k)
    \/ ~mind[c].up /\ Lapse(c)

\* Every running copy goes on with its work and its reconcile passes, and every
\* poll sweeps the ledger.  Nothing makes a supervisor dial, a claim come or a
\* fault happen.
Fairness ==
    /\ \A c \in Copy : WF_vars(Work(c)) /\ WF_vars(BeginPass(c) \/ Verdict(c))
    /\ WF_vars(CloseOrphan) /\ WF_vars(OpenUnrecorded)

FairSpec == Spec /\ Fairness

(***************************************************************************)
(* Properties                                                              *)
(***************************************************************************)
\* At most one container of the sandbox runs at any time: two would write one
\* home.  Copies are killed, claim again and stand down; only one that does
\* not count as live any more, with a start in hand, can be overtaken, and
\* then the two starts do meet ("never the same key on two workers",
\* lifecycleFreeFor).
OneContainerRuns ==
    (\A c \in Copy : "start" \notin mind[c].late) =>
        Cardinality({n \in Container : box[n].at = "up"}) <= 1

\* "A token hash only ever exists beside the container recordSpawn wrote with
\* it", and the socket that holds the channel is of the recorded container: "a
\* container that was replaced can never take the channel".  Only a copy that
\* was overtaken, and then claims again before its old report of a start went
\* out, can move the reference under an open channel: that write compares the
\* owner and nothing else ("last-write is correct", applyRunnerEvent).
ChannelIsOfTheContainer ==
    /\ row.token # 0 => row.ref = row.token
    /\ row.conn # 0 /\ (\A c \in Copy : mind[c].late = {}) => sock[row.conn].of = row.ref

\* A socket that is open keeps the channel until a newer one takes it or a
\* start replaces its container: not a late release or an owed claim of an
\* older socket.
NewestKeepsChannel ==
    [][LET k == row.conn
       IN  k # 0 /\ sock[k].at = "open" /\ row'.conn # k =>
             row'.conn > k \/ row'.holder = 0]_vars

RunsNothing == row.status = "running" /\ \A n \in Container : row.ref = n => box[n].at # "up"

\* The row names as the channel's a socket that is gone: its release was given
\* up, or the claim landed and its answer was lost.
HeldByNone == row.conn # 0 /\ sock[row.conn].at \in {"closed", "refused"}

\* A row that reads running over a container that ended is corrected, however
\* copies, sockets and claims come and go, unless a copy holds its one report
\* of that container for given ("one report per container, shared with the
\* reconciler's") or no holder is left to see the close ("Held (its holder will
\* see the close)").
DeathIsNoticed ==
    <>[]RunsNothing => <>[](HeldByNone \/ \E c \in Copy : row.ref \in mind[c].dead)

\* A sandbox is counted once: however late a start's report opens its run, no
\* two runs are open ("a sandbox runs one container at a time").
OneRunIsOpen ==
    \A m, n \in Container : ledger[m] = "open" /\ ledger[n] = "open" => m = n

\* A run that nothing reported over is closed once its sandbox stays down: the
\* report that opened it was torn from its status, or the claim of the next
\* start was refused ("this arm is load-bearing", sweepRuntimeLedger).
DownIsNotCounted ==
    <>[](row.status \notin {"starting", "running", "stopping"}) => <>[]~Recorded

RanBefore == \E n \in Container : row.ref = n /\ ledger[n] = "closed"

\* A sandbox that stays running is counted, whichever reports of its start were
\* lost, unless its container's own row was closed before (a respawn or a stop
\* that a late ready undid).
RunningIsCounted ==
    <>[](row.status = "running" /\ row.ref # 0) => <>[](Recorded \/ RanBefore)

=============================================================================
