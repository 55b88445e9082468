# TLA+ models of the onecli agent platform

onecli runs agents in sandboxes. A person (or a schedule, a watch, a job) sends
a message to a conversation of an agent; the control plane stores it as a
*turn*, a runner polls for due work, starts the agent's sandbox, hands the turn
to the supervisor inside it, and reports back what became of it. This directory
models the part of the program where that is decided, checks it with TLC on
small instances, and proves the central invariants with TLAPS for all instances.

## 1. Inventory

| Part | State | Operations | Hard because |
|---|---|---|---|
| Turn lifecycle, follow-ups (`packages/api/src/services/turn-service.ts`, `follow-up-service.ts`) | `turns` rows, `conversations.harness_session_ref` | send, follow up, stop, send now, apply events and progress, finish, revive, resume, strand, promote | handlers of several statements without a transaction; reports late, duplicated or lost; a stop racing everything |
| Work poll (`due-work.ts`, `routes/runner.ts`) | reads and claims both tables | eight claim arms in one transaction, sweeps before it, composition of a start after it | claims that are lost, windows that expire, arms that interact |
| Sandbox lifecycle (`sandbox-service.ts`) | `sandboxes` row | runner reports, start-failure reasons, restart, respawn | status and turns are written by two transactions; reports of older containers |
| Home sync (`home-sync-service.ts`, `runner.ts` `syncHome`, the supervisor's sync queue) | desired and applied generation, lease, the parts on disk | bump, claim, compose, send, apply, ack, reset at start | acks of an old container, parts lost or failing midway, content read after the claim |
| Report chain (`apps/runner/src/report-chain.ts`, `control-plane.ts`) | queue, resend pool | report, post, hold, resend | a post that failed may have been applied |
| Runtime ledger (`runtime-ledger.ts`) | run intervals | open on the first container report, close on the status that ends it, sweep both ways on a poll | lost and late reports, two copies of a runner |
| Schedules, watches, webhooks, evals, platform jobs | clocks, failure counters | claim, fire, settle | fire and settle far apart, swept runs |
| Runner channel and copies (`runner-channel-service.ts`, `runner-replica-fence.ts`) | owner, container, token and channel columns of the row; the copies' heartbeats | record a spawn, claim by token or session, release, claim a stray's stop, retire | two copies at once, one of them silent or dead; claims and releases out of order |
| Runner (`apps/runner`) | per copy: lifecycle chains, sockets, what it reported dead | deliver, start, stop, stand down, look at closed sockets, reconcile | every await of a start is a gap; reconcile acts on a listing it read earlier |
| Resumable channel (supervisor's `transport/ws.ts`, runner's `ws/server.ts`) | backlog, write cursor, session; per copy a cursor | send, ack, replay, redial, give up | two ends that see different sockets, a copy that forgot, a container that was replaced |
| Supervisor (`apps/sandbox-supervisor`) | the running turn | run, steer, abort, terminal frame | one turn at a time, the channel may break |
| Gateway approvals (`apps/gateway/crates/approval`, `ee/.../ha/approval.rs`) | pending cards, waiters, windows; in memory or in Redis | hold, decide, poll, expire, approve similar | a decision racing its waiter, its timeout, another reviewer; commands that fail halfway |
| Channel adapter, the rest of the gateway, SSH terminator, web | – | mirror, proxy, UI | systems of their own |

The parts meet in the database. API requests and polls run in several
processes at once; the only mutual exclusion is a transaction, a row lock, a
guarded `UPDATE ... WHERE status = ...` and the partial unique index
`turns_one_active_per_conversation`. Runner and supervisor reach the database
only through reports that may come late, twice or never.

What makes these parts correct: one active turn per conversation; an outcome is
final; a turn is recovered at most once; a follow-up is only "joined" if it was
delivered, and follow-ups keep their order; a stop is a stop; a restart forgets
sessions; nothing stays in flight on a dead sandbox; every message settles. A
home that counts as synced is on disk, and every change gets there; a report is
applied once, and a turn's end is not given up while it can still land. A
sandbox has one container, its channel belongs to that container's newest
socket, its death is noticed; a frame that is kept is not lost. A reviewer's
decision is what the held request gets, and a hold that is over leaves nothing.

## 2. Plan

1. Done: `TurnRows`, `ConversationPlane`, `TurnLifecycle` and their proofs, the
   core protocol between requests, polls and reports.
2. Done: `HomeSync`, the projection of the home across boots and runner copies;
   `ReportChain` and its proofs, the one way a report travels.
3. Done: `RunnerFleet`, ownership of a sandbox among runner copies, its channel,
   the reconciler and the runtime ledger; `SessionTransport`, the resumable
   channel under it;
   `ApprovalHold`, the gateway's approvals.
4. `Automation`: cron, watch and platform-job fires and `settleAutomationRun`,
   against an abstract specification "each due fire is settled once".
5. `Supervisor`: the one-turn-at-a-time harness, composed with the plane in
   place of its report actions, and `ReportChain` between the two.
6. Transcript sequence numbers and the channel mirror.

Theorems to come: those of the modules 4 to 6. Every invariant and every
action property of the passing runs has its theorem (section 5).

## 3. Modules

`TurnRows` — the `turns` table as a function from turn ids (ordered like
`created_at`) to rows, and every SQL statement on it as an operator from tables
to tables: `reviveColdTurns`, `resumeInterruptedTurns`, `settleJoinedFollowUps`,
the claim arms, the sweeps. Names are those of the code. A timestamp that the
code only tests for `NULL` is a Boolean.

`ConversationPlane` — one agent with its conversations and its sandbox. Each API
request is a handler with a program counter in `req`; a statement, or a
transaction, is one action, so other handlers, polls, reports, deaths and the
end of the serving process fit between any two statements. The correspondence:

| Code | Actions |
|---|---|
| `sendConversationMessage`, `createTurn`, `createFollowUp` | `SendMessage`, `SendRead`, `SendReread`, `CreateTurn`, `InsertTurn`, `CreateBlocker`, `CreateWake`, `CountParked`, `CreateFollowUp`, `RecheckTarget` |
| `promoteOldestParkedFollowUp`, `promoteParkedFollowUps` | `PromoteStopped`, `PromoteOldest`, `PromoteFlip`, `PromoteWake`, `PromoteParkedFollowUps` |
| `abortTurn` | `AbortTurn`, `AbortRead`, `AbortJoining`, `AbortQueued`, `AbortSweepAll`, `AbortFlag`, `AbortSweep`, `AbortFlagHeld` |
| `requestSendNow` | `RequestSendNow`, `SendNowFlag` |
| `applyTurnEvents`, `applyTurnProgress` | `ApplyTurnEvents`, `ApplyTurnProgress`, `ProgressRef` |
| `finishTurn` | `FinishRecovers`, `FinishTurn`, `FinishLost`, `FinishSalvage` |
| `applyRunnerEvent`, `applyStartFailureReason` | `SupervisorReady`, `StartReported`, `EventStatus`, `StartFailed`, `StopReported`, `SandboxDied`, `EventStrand`, `EventWake`, `EventReason`, `EventPark` |
| `claimDueWork` and the poll around it | `ClaimDueWork` (arms `ClaimStart`, `ClaimStop`, `ClaimTurnWork`), `ComposeStart`, `ReleaseClaim`, `ParkUnstartableClaim`, `ReclaimStaleTurns`, `FailStalledTurns`, `ExpireWedgedFollowUps` |
| `requestAgentRestart`, `requestSandboxRespawn` | the actions of the same name |
| outside the control plane | `ReportLost`, `Crash` |

The runner is the sequence `work` of items it has not reported (it reports in
order), the set `booting` of containers that may still say ready, and `handed`,
the session refs each turn was handed over with. `stopAsked` is a history
variable, read by properties alone. Deadlines are nondeterministic: a window may
have passed whenever the code asks.

`TurnLifecycle` — the abstract promise about each message: its phases, the edges
between them, the one recovery, one active message per conversation.

`MCConversationPlane` — the instance for TLC.

`HomeSync` — the home of one sandbox, from the write of a service to the files
on disk. The content of the projection is a version number, `truth`; a home is
the version of each of its `Parts`. The lifecycle is reduced to three statuses
and to the columns a sync reads (`desired`, `applied`, `lease`, `holder` and
`open`, the copy and the connection of the channel). A container has a socket to
one copy or none, `frames` under way to its sync queue, and `outbound`, what it
said and nobody acked: a copy that has not seen a message gets it again at the
next connect. Acknowledgements go through the report chain of the copy they
reached, one queue per copy. `StartContainer` may find the home it left or an
empty one, as the backends differ in what they keep. `claimed` is a history
variable.

| Code | Actions |
|---|---|
| a service's write, `bumpHomeFor...` | `Write`, `bumpHomeForAgent` |
| `claimDueWork` (start and sync arms), `buildHomeSyncItem` | `ClaimStart`, `ClaimSync`, `ComposeSync`, `PollLost` |
| `applyRunnerEvent` (`home.synced`, `supervisor.ready`) | `PostReport`, `ReportLost`, `SandboxDown` |
| `recordSpawn`, `claimChannel`, `releaseChannel` | `StartContainer`, `Connect`, `releaseChannel` |
| `syncHome` of the runner | `SyncHome` |
| the supervisor's `skills.changed` arm, `applyHomeSync`, its transport | `ApplyPart`, `SkipPart`, `PartFails`, `acknowledge` |
| outside | `Disconnect`, `ContainerDies` |

`ReportChain` — the report chain of a runner: `chain` is the promise chain, its
head the post under way; `resending` are the live resend loops, `sleeping` those
in their backoff. `Failure` is what the runner can tell about a failed post; one
whose answer was lost may or may not have been applied. The in-place retries of
`postEvents` are part of one post: they repeat what provably did not apply.

`RunnerFleet` — one sandbox and the copies of its runner. `row` has the columns
the fences read (status, owner, recorded container, token, channel holder and
connection); `box` are the containers on the backend, `sock` every socket a
supervisor opened, numbered by `connectedAt`; `heard` is what the control plane
knows of each copy; `mind` is a copy's memory: the job on its lifecycle chain
and where in it, the item queued behind, the report chain, the sets
`reportedDead` and `strayStopped`, the closed socket it looks at, the listing a
reconcile pass read. `late`, a history variable, is what a copy had in hand (a start, a
report that names a container) when another copy's claim overtook it. `ledger` is the runtime
interval of each container: `container_ref` is unique, so there is at most one,
and it is absent, open or closed. A report that names a container is applied in
two transactions, its reference and run (`PostRef`) and then its status. A claim
that the control plane refuses to compose is claimed and given back in one step. The backend is the Kubernetes
one, which several copies can share: a created container runs, a stopped one is
removed. Graces and windows are nondeterministic.

| Code | Actions |
|---|---|
| `claimDueWork` (start and stop arms), `enqueueWork` | `ClaimStart`, `ClaimStop`, `NextJob` |
| `releaseClaim`, `parkUnstartableClaim` | `ClaimRefused` |
| `startSandbox` of the runner, `recordSpawn`, `removeQuietly` | `ListExisting`, `ReplaceExisting`, `CreateContainer`, `RecordSpawn`, `SpawnUnanswered`, `RemoveQuietly`, `BootContainer`, `StartFails` |
| `stopSandbox`, `stopContainer`, the stray's stop | `LookForContainer`, `StopContainer`, `SweepStray`, `StopFails` |
| `report`, `enqueueReport`, `beginStartHeartbeat`, `applyRunnerEvent` | `PostRef`, `PostReport`, `PostAside`, `Heartbeat`, `ReportLost` |
| `sweepRuntimeLedger` (both arms) | `CloseOrphan`, `OpenUnrecorded` |
| `admit`, `claimChannel`, `attach`, `settleOwedClaim`, `releaseWithRetry` | `Admit`, `AdmitUnanswered`, `SettleOwedClaim`, `Release`, `SupervisorReady` |
| `lookAtClosed`, `reconcilePass`, `actOn`, `classifySandbox`, `claimStrayStop` | `LookAtClosed`, `BeginPass`, `PassReportsDead`, `PassFindsBootCrash`, `PassStopsStray`, `StrayUnanswered`, `PassFindsNone`, `PassLeaves` |
| `requestSandboxRespawn`, `retireReplica` | `Respawn`, `Retire` |
| outside | `Dial`, `SocketDrops`, `ContainerDies`, `Lapse`, `Crash` |

`SessionTransport` — the channel itself. A socket is two queues and the state of
either end, which may disagree; a frame is its number (0 if it has none) and
whether it is a heartbeat. `TransportSend`, `ClientReads` (the handlers of `open`
and `message`), `WatchdogCloses` and `GiveUp` are the supervisor's transport;
`Attach` and `OnFrame` the copy's. `CopyRestarts` and `Recreate` are the faults
the cursors exist for. `applied`, `reached`, `discarded` and `raced` are history
variables.

`ApprovalHold` — an operation of the approval store is a *script*, the commands
it issues one per step; `store`, `remove` and `submit_outcome` give the scripts
of both backends and the actions `SetCard` to `Push` execute them, so a reviewer,
a poll, the cleanup task, a cancelled future or a failing command fits between
any two.

| Code | Actions |
|---|---|
| `forward_request`, `similar::claim` | `Arrive`, `Claim` |
| `hold`, `wait_in_memory`, `wait_redis` | `BeginHold`, `BeginWait`, `Blpop`, `Receive`, `TimeOut`, `Shutdown`, `WaitFails` |
| `ApprovalGuard` | `Cancel` |
| `cleanup_expired`, `start_cleanup_task` | `Expire`, `Cleanup`, `Prune` |
| `submit_approval_decision`, `similar::open` | `Decide`, `OpenWindow`, `CloseWindow` |
| `get_pending_approvals` and its twin for organizations | `PollStart`, `PollIds`, `PollRows`, `PollSubscribe`, `PollWake` |

`MCHomeSync`, `MCReportChain`, `MCRunnerFleet`, `MCSessionTransport`,
`MCApprovalHold` — their instances for TLC.

`TurnRowsProofs`, `ConversationPlaneProofs`, `PlaneSafetyProofs`, `ReportChainProofs`,
`RunnerFleetProofs`, `ApprovalHoldProofs`, `HomeSyncProofs`,
`SessionTransportProofs` — the proofs.

Operators whose comment begins "Mutated form" are plausible mistakes in the
operator that follows them. No specification uses them; they exist to show that
the properties would notice.

## 4. Runs

`Feature` selects which requests and failures an instance contains, so that each
run explores one question to exhaustion. `"warm"` begins with a sandbox that is
up. Handlers are symmetric, which the safety runs use. A behaviour may end (all
messages settled, no boot left), so deadlock is not checked.

| Run | Instance | Shows |
|---|---|---|
| `parked` | 3 turns, 2 requests; send, send now | `SteeredInOrder`, `JoinedWasDelivered` |
| `deaths` | 2 turns, 2 requests, 2 boots; deaths reported by runner and run | `TypeOK`, `OneActivePerConversation`, `FinishedStaysFinished`, `InFlightIsServed`, `RecoveredOnce`, `ImplementsLifecycle` |
| `starts` | cold, 2 conversations, 2 boots; automation, job conversation, start failures, losses, key missing, respawn, restart, heartbeats, late refs | `InFlightIsServed`, `RestartStaysReset` |
| `queue` | 1 turn, 3 boots; death, loss, idle stop, crash | liveness `QueuedIsServed` |
| `settle` | 2 turns; crash, ceiling, stop, heartbeats | liveness `EveryMessageSettles`, `SweptRunIsStopped` |
| `converge` | 2 copies, 2 boots, 2 parts; a write, a loss, a drop, a failed part | `TypeOK`, `AppliedIsMaterialized`, `AckAnswersAClaim`, liveness `HomeConverges` |
| `reports` | 2 sandboxes, 4 reports, 2 failures, queue 1 + 1, pool 2 (1 each), 2 resends | `TypeOK`, `LandsOnce`, `PoolIsExact`, `ChainIsBounded`, liveness `HeldEndLands` |
| `fleet` | 2 copies, 3 containers, 3 sockets; 17 scenes of faults | `TypeOK`, `OneContainerRuns`, `ChannelIsOfTheContainer`, `OneRunIsOpen`, action `NewestKeepsChannel`, liveness `DeathIsNoticed`, `DownIsNotCounted`, `RunningIsCounted` |
| `sessions` | 2 copies, 2 containers, 2 dials, 3 frames, backlog 2, a restart | `TypeOK`, `OncePerCopy`, `KeptUnlessRaced`, liveness `KeptIsAcked` |
| `lostframe` | 1 container, 3 dials, 2 frames | **violated**: `Kept` |
| `approvals` | 3 requests, 2 reviewers, a poll, both stores; 5 scenes | `TypeOK`, `MemoryDecisionReaches`, `OneDecisionWins`, `HoldLeavesNothing`, `NoLostWakeup`, `WindowIsBounded` |
| `lostdecision` | Redis, 1 request, 1 reviewer | **violated**: `DecisionReaches` |

Bounds. Two turns of one conversation are a target and a follow-up, or two
racing sends; three are needed for two follow-ups in order. Two requests give
every pairwise race of statements. One boot is a live sandbox, the second what
follows a death or restart, the third a lost start that is claimed again.
`MaxBoots` is a bound of the model: a failure happens only while a boot is left
to recover with. `SEND_ATTEMPTS` and the two attempts of `abortTurn` are the
code's own.

For the home, two parts are the least that can be torn, and two copies the least
between which a channel can move. `AppliedIsMaterialized` speaks of one boot on
purpose: across a restart that loses the home it fails (below); what does hold
across restarts is `AckAnswersAClaim`. `MaxFrames` and `MaxReports` bound how
much is under way when the next sync is claimed. For the chain, the sizes are
small enough for the cap, the reserve, the share of a sandbox, the pool and the
budget all to be reached; there are as many failures as resends, so the last
resend counts.

In the fleet a *scene* is a budget of claims and faults, and the instance takes
those whose parts interact: a silent copy with starts in hand, first connects
that fail, a channel that moves while calls fail, deaths with and without the
copy that would see them, replacement while a supervisor dials, stops and
shutdowns, a start whose reports are torn or lost before and after a respawn, a
refused claim. Two copies give an owner and a rival; three containers the one
replaced, the one of an overtaken start and the last. In the transport two dials
are the old and the new socket, three frames fill a backlog of two; faults need a
dial left to recover with. For approvals a scene is a store with the actors of
one kind of race; a window of one request makes two rivals enough. The sets of
scenes are bounds of the model: faults from two scenes do not meet.

Fairness. `Fairness` says that an API process goes on with a request it serves
unless it crashes, that the runner polls and composes what it claimed, reports
the items it executed, and that a started container connects; `SweepFairness`
adds that each poll runs the sweeps and that deadlines pass. Nothing is assumed
of people, of the harness (a run may never report) or of the poll's promotion
backstop. In `HomeSync` the poll, the chains, the supervisor's reconnect and its
sync queue go on, and a write is bumped; no loss, drop or failure is fair, and
neither is `releaseChannel`. In `SessionTransport` both event loops run, the
supervisor redials, and a socket whose other end is gone is noticed (by its close
or by the watchdog). In `RunnerFleet` a running copy goes on with the work it has
begun and with its reconcile passes, the window of a killed copy passes, and some
poll (of any runner: `routes/runner.ts` runs the sweeps for all) sweeps the ledger; no
claim, dial or fault is fair. In `ReportChain` every post settles (the client has
a timeout) and every backoff ends; the outcome of a post is free.

### Disagreements between code and comments

Two are runs:

* `lostdecision`: on Redis, `submit_outcome` pushes the decision and then runs
  `remove`, whose last command deletes the list it was pushed to. The card is
  visible before the waiter's own connection has issued its `BLPOP`; a decision
  in that gap is answered "success", deleted, and the request expires. The module
  comment gives exactly this race as the reason for `BLPOP`.
* `lostframe`: after a reconnect `transportSend` flushes as soon as the socket is
  open, while `sentUpTo` is still the cursor of the old socket. The new frame
  goes out ahead of the unacked tail, the runner's cursor jumps to it, and the
  tail that the hand-off then replays is dropped as already seen. The comments
  say that the cursor is set from the hand-off on every connect, and that the
  replay waits for it.

More were met while modelling, under instances that are not kept as runs:

* The abort arm clears `abort_requested` when it hands the abort to the runner.
  If the sandbox dies before it acted, `resumeInterruptedTurns` no longer sees
  that somebody asked for a stop and runs the turn again, while its doc says "the
  stop wins" (`turn-service.ts:640`).
* The fence `stopRequestedAt IS NULL` opens at the next start claim. A report of
  the discarded boot that comes later still writes its session ref, which the
  comment at `turn-service.ts:1772` rules out.
* A part that fails poisons its generation for the life of the supervisor
  (`supervisor.ts:2021`), and the paced re-push sends the same generation. The
  retry the comment relies on is skipped whole; only a new bump or a restart
  helps. `HomeConverges` therefore excepts a poisoned generation.
* `promoteOldestParkedFollowUp` aborts stopped follow-ups in its
  first statement and flips the oldest in its last; a stop between the two is
  not seen, while the comment says a stopped follow-up "is never promoted".
* In `HomeSync` with two copies and two boots, the lease tells an old
  container's acknowledgement from a new one's only until the new boot claims
  its own sync. An acknowledgement that waits longer, in the chain of another
  copy, is taken for the new one; if the new sync is then lost, the agent stays
  without its files. It takes a backend that does not keep the home.
* In the fleet, a copy overtaken with a start in hand: `startSandbox` lists once
  and replaces the first container it finds, so two overlapping starts can leave
  two containers up, or the late one can remove the container of the new owner;
  `recordSpawn` compares the copy and not the claim, so an older start of the same
  copy passes. `OneContainerRuns` excepts overtaken starts ("never the same key
  on two workers", `runner-replica-fence.ts`).
* A report that an overtaken copy posts late moves the recorded container under
  an open channel. Copy c records container n and its report "starting n" waits;
  c falls silent, d claims, replaces n by m, and m's supervisor connects; d dies
  and c claims the sandbox again, which the running container absorbs; then c's
  old report is posted, its fence (owner and status) passes, and the row names n
  while its channel is m's. "last-write is correct" (`sandbox-service.ts:388-424`)
  presumes that reports of one owner are of one claim. Met when the proof of
  `ChannelIsOfTheContainer` did not close; TLC then found it with three starts,
  a lapse, a crash and two sockets. The property excepts copies with such a
  report in `late`; the clause on the token needs no exception.
* A start queued behind a boot whose `ready` lands first replaces the good
  container and is then refused by `recordSpawn`: the row reads running over
  nothing until two reconcile passes have missed the container.
* A respawn during a boot is undone by that boot's `ready`, or by a `starting`
  heartbeat, while the comment says "The flip IS the end of this run"
  (`sandbox-service.ts:817`). The run it closed stays closed: `container_ref` is
  unique and the sweep inserts `ON CONFLICT DO NOTHING`, so that container's
  further time is not counted, while rule 3 says "a running sandbox with no open
  row gets one" (`runtime-ledger.ts:27`). Likewise after a stop that a late
  `ready` undid. `RunningIsCounted` excepts a row that was closed before.
* `reportedDead` is set before the report is posted, and a report that fails is
  logged and forgotten: that copy never reports the container again. A release
  that was given up, or a claim whose answer was lost, leaves a live copy as the
  holder of a socket that is gone, and `classifySandbox` leaves a dead container
  with a held channel to "its holder". Both are the exceptions in
  `DeathIsNoticed`.
* `strayStopped` is set before `claimStrayStop`, and not taken back when that
  call throws: the copy never stops that container again.
* "Both doors refuse a claim older than the connection already holding the
  channel" (`runner-channel-service.ts:80`): the token door has no such clause.
  It needs none, since a token exists only while nothing is connected.

Three more weaknesses are not contradicted by any comment: `createTurn` fails a turn without a model key by its id and so may
overwrite what happened to it since the INSERT (`FinishedStaysFinished` and
`ImplementsLifecycle` are checked with `BlockerAnswers = {FALSE}`), a send may
overtake a follow-up that is parked while it inserts, and sends that count the
parked follow-ups together pass their cap, as the code's comment accepts.

## 5. Proofs

For every `Turn`, `Conversation`, `Handler`, `MaxBoots`, `MaxParked`,
`BlockerAnswers` and `Feature` that satisfy the named assumptions (ids are
positive numbers, handlers are finitely many, bounds are naturals, answers are
Booleans):

* `TypeCorrect`: `Spec => []TypeOK`.
* `OneActiveHolds`: `Spec => []OneActivePerConversation`.
* `RecoveredOnceHolds`: `Spec => RecoveredOnce`.
* `FinishedStaysFinishedHolds`: `Spec => FinishedStaysFinished` if the
  credential check never blocks.
* `SteeredInOrderHolds`: `Spec => []SteeredInOrder`.
* `JoinedWasDeliveredHolds`: `Spec => []JoinedWasDelivered`.
* `RestartStaysResetHolds`: `Spec => []RestartStaysReset`.
* `InFlightIsServedHolds`: `Spec => []InFlightIsServed` if no process crashes
  (a crash between the status and the strand of a report leaves turns in flight
  that only the sweeps end).
* `ImplementsLifecycleHolds`: `Spec => ImplementsLifecycle`, the refinement of
  `TurnLifecycle`, if the credential check never blocks.

The argument has two layers. `TurnRowsProofs` shows that each statement moves
each row along `Moves`, a preorder (same conversation, nothing leaves an
outcome, nothing becomes active that was not, the once-fence is spent by a
re-queue and never returned); as it is transitive, transactions inherit it
from their statements. `ConversationPlaneProofs` then shows (`RowsNext`) that
every step either moves the whole table so or is one of three writes: an INSERT
or a promotion the index let pass, or the unguarded write of `createTurn`.

`TypeOK` is not inductive. `TypeInv` adds that before the first boot there is
nothing to report (`FirstBoot`, so that a hand-over always has a session), that
a handler which may insert works for a conversation that exists (`ReqOK`,
`RowsHome`), and that the row a handler is about to promote or to fail by id is
in the table and, for a promotion, of the conversation whose index was asked
(`HeldRows`). The last is what carries `OneActivePerConversation` through the
gap between reading the oldest follow-up and flipping it. `RecoveredOnce` needs
in addition that a row not yet inserted has not spent its recovery
(`RowsFresh`).

The last five are in `PlaneSafetyProofs`. `Moves` is transitive and so too
coarse for a refinement: it would let a step take a row along two edges at once.
`Settles` is one edge, and each transaction is shown to take each row along one:
a death's three statements, because a row that a recovery re-queued is out of
reach of the next two; a close that won, because the closed turn, the joined
and the aborted follow-ups are different rows. The claim is apart (`Hands`): it
puts turns into flight, and it steers. On `PlaneStep` rest `SteerInv` and the
refinement. `SteerInv` adds to `SteeredInOrder` that ids are taken in their order
(an insert is never older than a steered sibling), that a turn in flight was
handed over, that a follow-up was delivered to such a turn, and that what joined
was delivered; `JoinedWasDelivered` follows. The refinement needs in addition
that a row not inserted yet was neither steered nor recovered, and
`OneActivePerConversation`. `InFlightIsServed` needs that a sandbox which is asked
to stop runs nothing (`ResetIdle`): the stop arm does not ask for idleness then.
`RestartStaysReset` is inductive: a session is only ever written through
`keepSessionRef` (`ResetStep`).

For every `MaxReported`, `MaxFailures`, `Sandbox` and size of the queue, the
reserve and the pool, if there is at least one resend (`ResendAssumption`):

* `LandsOnceHolds`: `Spec => []LandsOnce`.
* `PoolIsExactHolds`: `Spec => []PoolIsExact`.
* `ReportTypeCorrect`: `Spec => []TypeOK` of `ReportChain`.
* `ChainIsBoundedHolds`: `Spec => []ChainIsBounded`.

The first three share one inductive invariant. `LandsOnce` rests on `OnePlace`: a report is
queued at most once, or sleeps, never both, and while it is in either place it
has not landed; a failure after which it may have landed takes it out of both.
`TypeOK` needs `PoolIsExact` (a counter that is released counted a loop) and, for
the budget, that a first post has made no resend and a sleeping loop has a round
left. `ChainIsBounded` adds `BoundInv`, which counts the places of the chain
that hold a first post and those that hold an event: the former pass a cap, and
the rest are distinct members of the pool.

For any sets of copies, containers and sockets and any scenes of faults, in
`RunnerFleetProofs`:

* `TypeCorrect`: `Spec => []TypeOK`.
* `OneRunHolds`: `Spec => []OneRunIsOpen`.
* `ChannelHolds`: `Spec => []ChannelIsOfTheContainer`.
* `NewestHolds`: `Spec => NewestKeepsChannel`.
* `OneContainerHolds`: `Spec => []OneContainerRuns`.

The module has fifty actions, and most change the record of one copy and
perhaps the row. So each action is first shown to have `Effects`: what it may do
to each copy (`CopyStep`), to the row (`RowStep`), to the sockets (`SockStep`)
and to the containers (`BoxStep`). The invariants follow from `Effects` alone.
None of the properties is inductive. `ChannelInv` adds that a report chain holds
one status at a time and the job waits for it (`ChainsInv`), that a socket which
was opened has a container and a copy (`SocketsInv`), that a token exists only
while nothing is connected and its owner owes no other container (`TokenInv`),
and that a copy which may still report a container, and was not overtaken, owns
a row that names this container (`OwedInv`); without the last, the late post of
a reference could not be told from a current one. `ContainersInv` says that a
start which was not overtaken is the owner's (`StartOwned`) and that the backend
lists at most one container, none when a start is about to create its own and
only the one it replaces when it is about to replace (`OneListed`).

For any requests, reviewers, decisions, scenes and size of the window, in
`ApprovalHoldProofs`:

* `TypeCorrect`: `Spec => []TypeOK`.
* `WindowHolds`: `Spec => []WindowIsBounded`.
* `OneDecisionHolds`: `Spec => []OneDecisionWins`.
* `DecisionHolds`: `Spec => []MemoryDecisionReaches`.
* `LeavesHolds`: `Spec => []HoldLeavesNothing`.
* `WakeupHolds`: `Spec => []NoLostWakeup`.

Scripts make the interleavings, so the first invariant is about them:
`ScriptsOK` says what is left of which operation each actor can be at, given the
phase of the request or the state of the reviewer, and `FreshOK` that nothing of
a request is in the store before it is held. On this core the others rest:
`WindowInv` (the counter is never behind the requests it let through),
`WinInv` (whoever has the sender, or had it, is alone, and what was sent in time
is what the channel holds until the hold ends), `LeavesInv` (whatever is in the
store of a hold that ended is still on the script of the hold, its guard or, for
a pushed decision, the reviewer; a sender out of the map is in the hands of a
decision about to send) and `WakeInv` (a poll that has read its ids and will find
them empty, as much as one that sleeps, will be told of what it misses).

For any copies, number of parts and bounds, in `HomeSyncProofs`:

* `TypeCorrect`: `Spec => []TypeOK`.
* `AckHolds`: `Spec => []AckAnswersAClaim`.
* `MaterializedHolds`: `Spec => []AppliedIsMaterialized`.

The second needs only that an open claim is one of this boot (`ClaimOK`). The
third rests on `Versions` and `FirstBoot`. Every write is bumped for once, so
desired plus what is owed is the version of the truth, and a sync that is
composed after its claim shows at least its generation. What is under way never
goes back in time and loses only a tail, so the parts before the next one were
applied or their generation is poisoned (`HeadOK`), and the last part is
acknowledged only over a whole home. Wherever that acknowledgement is by then (in a chain, in what the
supervisor keeps, in the row), every part shows its generation or a later
version (`AcksOK`): within a boot a home only moves on (`HomeOK`). The limit to the
first boot is the property's own: a later container may lose the home while
acknowledgements of the earlier one are still under way.

For any copies, sockets, frames, containers, restarts and cap of the backlog, in
`SessionTransportProofs`:

* `TypeCorrect`: `Spec => []TypeOK`.
* `OncePerCopyHolds`: `Spec => []OncePerCopy`.
* `KeptUnlessRacedHolds`: `Spec => []KeptUnlessRaced`.

`OncePerCopy` needs that a process is not behind what it passed on (`Passed`).
`KeptUnlessRaced` rests on two layers. `Shape` is about one socket at a time:
the backlog is in the order of its numbers (`BacklogOK`), no number is anywhere
that was not given (`Given`), and a socket that still dials has been written
nothing and brings down the answer to the upgrade and then the hand-off
(`SocketsOK`).
`Flow` is about all of them. Call a number settled when every number up to it
was passed on or dropped. What is not settled is in the backlog, every cursor of
this container and every ack under way is settled (`CursorsSettled`,
`AcksSettled`), no number overtakes an unsettled one on a socket
(`SocketsInOrder`), and once the hand-off was read, every number given is settled
or on the open socket (`AllOnSocket`). An ack then removes only what is settled. A
frame written before the hand-off was read breaks exactly the last two, which is
what `raced` records; the `lostframe` run shows the loss that follows.

Only model-checked: liveness, that is the temporal properties `QueuedIsServed`,
`EveryMessageSettles`, `SweptRunIsStopped`, `HomeConverges`, `HeldEndLands`,
`KeptIsAcked`, `DeathIsNoticed`, `RunningIsCounted` and `DownIsNotCounted`
(fairness and `ENABLED` are beyond the prover).

## 6. Not modelled

Row limits of the claim arms (`TURN_LIMIT`; several agents on one runner),
several copies of a runner in the plane (they are in `RunnerFleet`, without
turns), capability
gates of old runners, attachments, titles, usage, transcript events and notices,
engagement clocks (the idle window is nondeterministic), hosted hooks
(maintenance, resource observations, budgets), `settleAutomationRun`. Of the
home: the composition and packing of the projection, and memory files the agent
wrote itself, which a refused harvest keeps on disk although the sync is
acknowledged. Of the chain: the lengths of the backoffs. Of the fleet: capacity and
homes, the times of a run and the daily rollup, the deletion of an agent, the Docker and cloud backends, orphans of deleted sandboxes, clock skew
between copies, the API that predates copies. Of the transport: what the runner
sends down, the `shutdown` item. Of approvals: how the scope of a window is
derived, the cards a poll asks to leave out, a decision from another workspace,
Redis errors on the side of polls, a gateway instance that is killed. Also the components listed as `not_modelled` in
`PROJECT.json`, each with its reason or its place in the plan.
