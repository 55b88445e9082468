-------------------------- MODULE ConversationPlane --------------------------
(***************************************************************************)
(* The conversation plane of one agent: its conversations and turns, its   *)
(* sandbox row, the API requests that are being served, and the runner and *)
(* supervisor as far as their reports reach the control plane.             *)
(*                                                                         *)
(* A database transaction, or a single statement, is one step.  A handler  *)
(* of several statements is a program counter in `req`, one step per       *)
(* statement, so that everything may happen between two of them: another   *)
(* handler, a poll of the runner, a sandbox death, or the end of the API   *)
(* process that serves it (Crash).                                         *)
(*                                                                         *)
(* Time is not a variable.  A deadline (the turn ceiling, the stall and    *)
(* idle windows, the claim and dispatch windows) may have passed or not    *)
(* whenever the code asks.                                                 *)
(***************************************************************************)
EXTENDS TurnRows, Sequences

CONSTANTS
    Handler,        \* API requests that are served at one time
    MaxBoots,       \* bound: containers the runner may be asked to start
    MaxParked,      \* MAX_JOINING_FOLLOW_UPS
    BlockerAnswers, \* answers findAgentLlmBlocker may give
    Feature         \* which requests and failures the instance contains

ASSUME HandlerAssumption == IsFiniteSet(Handler)
ASSUME BoundAssumption == MaxBoots \in Nat /\ MaxParked \in Nat
ASSUME BlockerAssumption == BlockerAnswers \subseteq BOOLEAN

VARIABLES
    turns,      \* the turns table
    sandbox,    \* the sandbox row
    sessionRef, \* conversations.harness_session_ref
    req,        \* the requests being served
    boot,       \* containers asked for so far; the last one's number
    composing,  \* a poll claimed a start and has not composed its payload
    work,       \* start and stop items the runner has not reported yet
    booting,    \* containers whose supervisor may still report ready
    handed,     \* the sessions each turn was handed to a supervisor with
    stopSent,   \* turns whose abort a poll handed to the runner
    stopAsked   \* history: turns in flight that a person asked to stop

db      == <<turns, sandbox, sessionRef>>
runner  == <<boot, composing, work, booting, handed, stopSent>>
history == <<stopAsked>>
vars    == <<turns, sandbox, sessionRef, req, boot, composing, work, booting,
             handed, stopSent, stopAsked>>

SEND_ATTEMPTS  == 3
ABORT_ATTEMPTS == 2

Boot == 1 .. MaxBoots
\* Container 0 and session 0 are the null references.
NoRef == 0
Ref   == {NoRef} \cup Boot

SandboxStatus == {"unprovisioned", "starting", "running", "stopping", "stopped", "failed"}
Sandbox == [status : SandboxStatus, stopRequested : BOOLEAN, containerRef : Ref]

\* A stop item of the runner; a start item is the number of its container.
Stop == 0

Step == {"idle",
         "send.read", "send.reread", "send.insert", "send.count", "send.park", "send.recheck",
         "create.insert", "create.blocker", "create.wake",
         "promote.stopped", "promote.oldest", "promote.flip", "promote.wake",
         "abort.read", "abort.joining", "abort.queued", "abort.sweepAll",
         "abort.flag", "abort.sweep", "abort.flagHeld",
         "sendNow.flag", "progress.ref", "finish.salvage",
         "event.status", "event.strand", "event.wake", "event.reason", "event.park"}

\* What a sandbox report says beyond its status.
Reason == {"none", "image_unavailable", "start_failed", "home_read_only"}

Request == [step : Step,
            conv : Conversation \cup {NoConversation},
            turn : Turn \cup {NoTurn},  \* the row the handler read or is about
            tries : 0 .. SEND_ATTEMPTS,
            ret : {"end", "send"},      \* who called promoteOldestParkedFollowUp
            ref : Ref,                  \* the session or container reported
            reason : Reason]

NoRequest == [step |-> "idle", conv |-> NoConversation, turn |-> NoTurn,
              tries |-> 0, ret |-> "end", ref |-> NoRef, reason |-> "none"]

\* The steps at which a handler holds a row it has read or written.
AboutTurn == {"send.count", "send.park", "send.recheck", "create.blocker", "create.wake",
              "promote.flip", "abort.read", "abort.joining", "abort.queued",
              "abort.sweepAll", "abort.flag", "abort.sweep", "abort.flagHeld",
              "sendNow.flag", "finish.salvage"}

TypeOK ==
    /\ turns \in Table
    /\ sandbox \in Sandbox
    /\ sessionRef \in [Conversation -> Ref]
    /\ req \in [Handler -> Request]
    /\ \A h \in Handler : req[h].step \in AboutTurn => req[h].turn \in Turn
    /\ boot \in 0 .. MaxBoots
    /\ composing \in BOOLEAN
    /\ work \in Seq({Stop} \cup Boot)
    /\ booting \subseteq Boot
    /\ handed \in [Turn -> SUBSET Boot]
    /\ stopSent \subseteq Turn
    /\ stopAsked \subseteq Turn

\* A behaviour begins without a container, or ("warm") with one that is up.
Init ==
    /\ turns = EmptyTable
    /\ boot = IF "warm" \in Feature /\ MaxBoots > 0 THEN 1 ELSE 0
    /\ sandbox = [status |-> IF boot = 0 THEN "unprovisioned" ELSE "running",
                  stopRequested |-> FALSE, containerRef |-> boot]
    /\ sessionRef = [c \in Conversation |-> NoRef]
    /\ req = [h \in Handler |-> NoRequest]
    /\ composing = FALSE
    /\ work = << >>
    /\ booting = {}
    /\ handed = [t \in Turn |-> {}]
    /\ stopSent = {}
    /\ stopAsked = {}

(***************************************************************************)
(* Handlers                                                                *)
(***************************************************************************)
Idle(h) == req[h].step = "idle"
At(h, step) == req[h].step = step
Goto(h, r) == req' = [req EXCEPT ![h] = r]
Continue(h, step) == Goto(h, [req[h] EXCEPT !.step = step])
End(h) == Goto(h, NoRequest)

\* Bound: a failure or a stop happens only while another boot is left.
AnotherBoot == boot < MaxBoots

\* wakeSandboxFor
wakeSandbox ==
    IF sandbox.status \in {"stopped", "failed"}
    THEN [sandbox EXCEPT !.status = "unprovisioned"]
    ELSE sandbox

(***************************************************************************)
(* promoteOldestParkedFollowUp: three statements and the wake.  Called by  *)
(* the send door, by the close of a turn and by the poll's backstop.       *)
(***************************************************************************)
promotion(c, ret, tries) ==
    [NoRequest EXCEPT !.step = "promote.stopped", !.conv = c, !.ret = ret, !.tries = tries]

\* What the caller does when the promotion answers FALSE, respectively TRUE.
NotPromoted(h) ==
    IF req[h].ret = "send" THEN Continue(h, "send.insert") ELSE End(h)
Promoted(h) ==
    IF req[h].ret = "send" THEN Continue(h, "send.reread") ELSE End(h)

PromoteStopped(h) ==
    /\ At(h, "promote.stopped")
    /\ turns' = abortStoppedFollowUps(turns, req[h].conv)
    /\ Continue(h, "promote.oldest")
    /\ UNCHANGED <<sandbox, sessionRef, runner, history>>

PromoteOldest(h) ==
    /\ At(h, "promote.oldest")
    /\ \/ \E t \in Turn :
            /\ IsOldestOf(t, JoiningIn(turns, req[h].conv))
            /\ Goto(h, [req[h] EXCEPT !.step = "promote.flip", !.turn = t])
       \/ JoiningIn(turns, req[h].conv) = {} /\ NotPromoted(h)
    /\ UNCHANGED <<db, runner, history>>

\* The guarded flip; the index answers P2002 while a turn is active.
promotes(t, c) == turns[t].status = "joining" /\ indexAdmits(turns, c)

PromoteFlip(h) ==
    LET t == req[h].turn
    IN  /\ At(h, "promote.flip")
        /\ \/ /\ promotes(t, req[h].conv)
              /\ turns' = promoteFollowUp(turns, t)
              /\ Continue(h, "promote.wake")
           \/ /\ ~promotes(t, req[h].conv)
              /\ NotPromoted(h)
              /\ UNCHANGED turns
        /\ UNCHANGED <<sandbox, sessionRef, runner, history>>

PromoteWake(h) ==
    /\ At(h, "promote.wake")
    /\ sandbox' = wakeSandbox
    /\ Promoted(h)
    /\ UNCHANGED <<turns, sessionRef, runner, history>>

\* The poll's backstop, for a close whose own promotion was lost.
PromoteParkedFollowUps(h, c) ==
    /\ Idle(h)
    /\ JoiningIn(turns, c) # {}
    /\ ActiveIn(turns, c) = {}
    /\ Goto(h, promotion(c, "end", 0))
    /\ UNCHANGED <<db, runner, history>>

(***************************************************************************)
(* sendConversationMessage and createTurn                                  *)
(***************************************************************************)
\* Bound: a message is sent only while a row is left for it.
CreatingStep == {"send.read", "send.reread", "send.insert", "send.count", "send.park",
                 "create.insert"}
Creating ==
    {g \in Handler : \/ req[g].step \in CreatingStep
                     \/ req[g].ret = "send" /\ req[g].step # "idle"}
RowIsLeft ==
    Cardinality({t \in Turn : turns[t].status = "none"}) > Cardinality(Creating)

\* The read of the loop's head: follow up on the active turn, or promote.
readTarget(h, c, tries) ==
    \/ \E t \in Turn :
         /\ IsNewestOf(t, ActiveIn(turns, c))
         /\ Goto(h, [NoRequest EXCEPT !.step = "send.count", !.conv = c,
                                      !.turn = t, !.tries = tries])
    \/ /\ ActiveIn(turns, c) = {}
       /\ Goto(h, promotion(c, "send", tries))

\* `continue`, until the attempts are used up and the send is refused.
retrySend(h) ==
    IF req[h].tries + 1 < SEND_ATTEMPTS
    THEN Goto(h, [NoRequest EXCEPT !.step = "send.read", !.conv = req[h].conv,
                                   !.tries = req[h].tries + 1])
    ELSE End(h)

SendMessage(h, c) ==
    /\ "send" \in Feature
    /\ Idle(h)
    /\ RowIsLeft
    /\ c \notin JobConversation
    /\ readTarget(h, c, 0)
    /\ UNCHANGED <<db, runner, history>>

SendRead(h) ==
    /\ At(h, "send.read")
    /\ readTarget(h, req[h].conv, req[h].tries)
    /\ UNCHANGED <<db, runner, history>>

SendReread(h) ==
    /\ At(h, "send.reread")
    /\ \/ \E t \in Turn :
            /\ IsNewestOf(t, ActiveIn(turns, req[h].conv))
            /\ Goto(h, [req[h] EXCEPT !.step = "send.count", !.turn = t, !.ret = "end"])
       \/ ActiveIn(turns, req[h].conv) = {} /\ retrySend(h)
    /\ UNCHANGED <<db, runner, history>>

\* An automation (cron, watch, eval, platform job) calls createTurn itself.
CreateTurn(h, c) ==
    /\ "automation" \in Feature
    /\ Idle(h)
    /\ RowIsLeft
    /\ Goto(h, [NoRequest EXCEPT !.step = "create.insert", !.conv = c])
    /\ UNCHANGED <<db, runner, history>>

\* createTurn's INSERT; the index answers P2002 while a turn is active.
InsertTurn(h) ==
    LET c == req[h].conv
    IN  /\ \/ At(h, "send.insert")
           \/ At(h, "create.insert")
        /\ \/ /\ indexAdmits(turns, c)
              /\ \E t \in Turn :
                   /\ IsNextTurn(turns, t)
                   /\ turns' = insertTurn(turns, t, c, "queued", NoTurn)
                   /\ Goto(h, [NoRequest EXCEPT !.step = "create.blocker",
                                                !.conv = c, !.turn = t])
           \/ /\ ~indexAdmits(turns, c)
              /\ IF At(h, "send.insert") THEN retrySend(h) ELSE End(h)
              /\ UNCHANGED turns
        /\ UNCHANGED <<sandbox, sessionRef, runner, history>>

\* Door 1: a turn that no model credential can serve is failed by its id,
\* whatever became of it since the INSERT.
failBlockedTurn(tab, t) == [tab EXCEPT ![t].status = "failed"]

CreateBlocker(h) ==
    /\ At(h, "create.blocker")
    /\ \E blocked \in BlockerAnswers :
         IF blocked
         THEN turns' = failBlockedTurn(turns, req[h].turn) /\ End(h)
         ELSE Continue(h, "create.wake") /\ UNCHANGED turns
    /\ UNCHANGED <<sandbox, sessionRef, runner, history>>

CreateWake(h) ==
    /\ At(h, "create.wake")
    /\ sandbox' = wakeSandbox
    /\ End(h)
    /\ UNCHANGED <<turns, sessionRef, runner, history>>

atCap(c) == Cardinality(JoiningIn(turns, c)) >= MaxParked

\* The cap is read in one statement and the row inserted in another.
CountParked(h) ==
    /\ At(h, "send.count")
    /\ IF atCap(req[h].conv)
       THEN End(h)
       ELSE Continue(h, "send.park")
    /\ UNCHANGED <<db, runner, history>>

CreateFollowUp(h) ==
    /\ At(h, "send.park")
    /\ \E t \in Turn :
         /\ IsNextTurn(turns, t)
         /\ turns' = insertTurn(turns, t, req[h].conv, "joining", req[h].turn)
    /\ Continue(h, "send.recheck")
    /\ UNCHANGED <<sandbox, sessionRef, runner, history>>

\* The target may have closed, and promoted, before the row existed.
RecheckTarget(h) ==
    /\ At(h, "send.recheck")
    /\ IF turns[req[h].turn].status \in Active
       THEN End(h)
       ELSE Goto(h, promotion(req[h].conv, "end", 0))
    /\ UNCHANGED <<db, runner, history>>

(***************************************************************************)
(* abortTurn                                                               *)
(***************************************************************************)
\* The arm for the status just read; a finished turn answers CONFLICT.
abortArm(h, t, tries) ==
    LET arm(step) == Goto(h, [NoRequest EXCEPT !.step = step, !.turn = t,
                                               !.conv = turns[t].conv, !.tries = tries])
    IN  CASE turns[t].status = "joining"    -> arm("abort.joining")
          [] turns[t].status = "queued"     -> arm("abort.queued")
          [] turns[t].status \in InFlight   -> arm("abort.flag")
          [] OTHER                          -> End(h)

\* A guarded write matched nothing: read again, once.
missedAbort(h) ==
    IF req[h].tries + 1 < ABORT_ATTEMPTS
    THEN Goto(h, [req[h] EXCEPT !.step = "abort.read", !.tries = @ + 1])
    ELSE End(h)

AbortTurn(h, t) ==
    /\ "abort" \in Feature
    /\ Idle(h)
    /\ turns[t].status \in Active \cup {"joining"}
    /\ t \in stopAsked => "abortAgain" \in Feature
    /\ abortArm(h, t, 0)
    /\ UNCHANGED <<db, runner, history>>

AbortRead(h) ==
    /\ At(h, "abort.read")
    /\ abortArm(h, req[h].turn, req[h].tries)
    /\ UNCHANGED <<db, runner, history>>

AbortJoining(h) ==
    /\ At(h, "abort.joining")
    /\ turns' = close(turns, {req[h].turn}, {"joining"}, "aborted")
    /\ IF turns[req[h].turn].status = "joining" THEN End(h) ELSE missedAbort(h)
    /\ UNCHANGED <<sandbox, sessionRef, runner, history>>

AbortQueued(h) ==
    /\ At(h, "abort.queued")
    /\ turns' = close(turns, {req[h].turn}, {"queued"}, "aborted")
    /\ IF turns[req[h].turn].status = "queued"
       THEN Continue(h, "abort.sweepAll")
       ELSE missedAbort(h)
    /\ UNCHANGED <<sandbox, sessionRef, runner, history>>

AbortSweepAll(h) ==
    /\ At(h, "abort.sweepAll")
    /\ turns' = close(turns, JoiningIn(turns, req[h].conv), {"joining"}, "aborted")
    /\ End(h)
    /\ UNCHANGED <<sandbox, sessionRef, runner, history>>

\* By id, without a status guard.
AbortFlag(h) ==
    /\ At(h, "abort.flag")
    /\ turns' = requestAbort(turns, {req[h].turn})
    /\ stopAsked' = stopAsked \cup {req[h].turn}
    /\ Continue(h, "abort.sweep")
    /\ UNCHANGED <<sandbox, sessionRef, runner>>

AbortSweep(h) ==
    /\ At(h, "abort.sweep")
    /\ turns' = sweepUnheldFollowUps(turns, req[h].turn)
    /\ Continue(h, "abort.flagHeld")
    /\ UNCHANGED <<sandbox, sessionRef, runner, history>>

AbortFlagHeld(h) ==
    /\ At(h, "abort.flagHeld")
    /\ turns' = requestAbort(turns, heldFollowUps(turns, req[h].turn))
    /\ stopAsked' = stopAsked \cup heldFollowUps(turns, req[h].turn)
    /\ End(h)
    /\ UNCHANGED <<sandbox, sessionRef, runner>>

(***************************************************************************)
(* requestSendNow                                                          *)
(***************************************************************************)
RequestSendNow(h, f) ==
    /\ "sendNow" \in Feature
    /\ Idle(h)
    /\ turns[f].status = "joining"
    /\ turns[f].followUpOf \in Turn
    /\ turns[turns[f].followUpOf].status \in Active
    /\ Goto(h, [NoRequest EXCEPT !.step = "sendNow.flag", !.turn = f])
    /\ UNCHANGED <<db, runner, history>>

SendNowFlag(h) ==
    LET f == req[h].turn
    IN  /\ At(h, "sendNow.flag")
        /\ turns' = IF turns[f].status = "joining"
                    THEN [turns EXCEPT ![f].sendNow = TRUE]
                    ELSE turns
        /\ End(h)
        /\ UNCHANGED <<sandbox, sessionRef, runner, history>>

(***************************************************************************)
(* Reports of a supervisor about a turn it was handed.  They pass the      *)
(* reporter fence (one runner, one sandbox) and may arrive late, more than *)
(* once, or never.                                                         *)
(***************************************************************************)
\* A report may name any follow-up of its turn, delivered or not.
mayReportJoined(t) ==
    SUBSET {f \in Turn : turns[f].followUpOf = t /\ turns[f].status = "joining"}

mayReportRef(t) == IF "ref" \in Feature THEN {NoRef} \cup handed[t] ELSE {NoRef}

\* One batch of events: `turn.started`, `message.joined`, or both.
ApplyTurnEvents(t) ==
    /\ handed[t] # {}
    /\ \E starts \in BOOLEAN, joined \in mayReportJoined(t) :
         LET started == IF starts THEN startTurn(turns, t) ELSE turns
         IN  turns' = settleJoinedFollowUps(started, t, joined)
    /\ UNCHANGED <<sandbox, sessionRef, req, runner, history>>

\* The heartbeat; the session it names is kept in a second statement.
ApplyTurnProgress(h, t) ==
    /\ "heartbeat" \in Feature
    /\ Idle(h)
    /\ handed[t] # {}
    /\ turns[t].status = "running"
    /\ turns' = [turns EXCEPT ![t].beat = TRUE]
    /\ \E ref \in mayReportRef(t) :
         IF ref = NoRef \/ turns[t].conv \in JobConversation
         THEN UNCHANGED req
         ELSE Goto(h, [NoRequest EXCEPT !.step = "progress.ref", !.ref = ref,
                                        !.conv = turns[t].conv])
    /\ UNCHANGED <<sandbox, sessionRef, runner, history>>

\* Mutated form: a ref is kept although a restart waits for the next boot.
keepSessionRef_always(c, ref) ==
    IF ref # NoRef THEN [sessionRef EXCEPT ![c] = ref] ELSE sessionRef

\* harness_session_ref, unless a restart waits for the next boot.
keepSessionRef(c, ref) ==
    IF ref # NoRef /\ ~sandbox.stopRequested
    THEN [sessionRef EXCEPT ![c] = ref]
    ELSE sessionRef

ProgressRef(h) ==
    /\ At(h, "progress.ref")
    /\ sessionRef' = keepSessionRef(req[h].conv, req[h].ref)
    /\ End(h)
    /\ UNCHANGED <<turns, sandbox, runner, history>>

\* finishTurn with a death code: re-queue the turn, once, instead of closing.
FinishRecovers(t) ==
    LET revived == reviveColdTurns(turns, {t})
        resumed == resumeInterruptedTurns(turns, {t})
    IN  /\ "death" \in Feature
        /\ handed[t] # {}
        /\ turns' = IF revived # turns THEN revived ELSE resumed
        /\ turns' # turns
        /\ UNCHANGED <<sandbox, sessionRef, req, runner, history>>

\* Only the report of an abort that was handed over says "aborted".
mayReport(t) == {"done", "failed"} \cup (IF t \in stopSent THEN {"aborted"} ELSE {})

\* finishTurn: the close that wins, and then the promotion.
FinishTurn(h, t) ==
    /\ Idle(h)
    /\ handed[t] # {}
    /\ \E outcome \in mayReport(t), ref \in mayReportRef(t), joined \in mayReportJoined(t) :
         /\ turns[t].status \in closableBy(outcome)
         /\ turns' = finishTurnClose(turns, t, outcome, joined)
         /\ sessionRef' = keepSessionRef(turns[t].conv, ref)
    /\ Goto(h, promotion(turns[t].conv, "end", 0))
    /\ UNCHANGED <<sandbox, runner, history>>

\* finishTurn for a row the report may not close: the session is salvaged.
FinishLost(h, t) ==
    /\ Idle(h)
    /\ handed[t] # {}
    /\ \E outcome \in mayReport(t), ref \in mayReportRef(t) \ {NoRef} :
         /\ turns[t].status \notin closableBy(outcome)
         /\ Goto(h, [NoRequest EXCEPT !.step = "finish.salvage", !.turn = t,
                                      !.conv = turns[t].conv, !.ref = ref])
    /\ UNCHANGED <<db, runner, history>>

salvages(t, c) == turns[t].status \in {"failed", "aborted"} /\ ActiveIn(turns, c) = {}

FinishSalvage(h) ==
    LET c == req[h].conv
    IN  /\ At(h, "finish.salvage")
        /\ sessionRef' = IF salvages(req[h].turn, c)
                         THEN keepSessionRef(c, req[h].ref)
                         ELSE sessionRef
        /\ End(h)
        /\ UNCHANGED <<turns, sandbox, runner, history>>

(***************************************************************************)
(* Reports of the runner about the sandbox (applyRunnerEvent).  The        *)
(* runner's reports keep their order; any of them may be lost.             *)
(***************************************************************************)
pending(items) == {items[i] : i \in DOMAIN items}

\* supervisor.ready carries no container and is applied to the row as it is.
\* It comes from a container the runner has got to.
SupervisorReady ==
    \E b \in booting :
        /\ b \in pending(work) => b = Head(work)
        /\ sandbox' = [sandbox EXCEPT !.status = "running"]
        /\ booting' = booting \ {b}
        /\ UNCHANGED <<turns, sessionRef, req, boot, composing, work, handed, stopSent, history>>

\* Where the status transaction may write a reported status.
accepts(status) ==
    IF status = "stopped" THEN sandbox.status \in {"running", "stopping"}
                          ELSE sandbox.status # "running"

\* The status transaction of a report without a container reference.
applyDown(h, status, reason) ==
    IF accepts(status)
    THEN /\ sandbox' = [sandbox EXCEPT !.status = status]
         /\ Goto(h, [NoRequest EXCEPT !.step = "event.strand", !.reason = reason])
    ELSE UNCHANGED <<sandbox, req>>

\* The start worked: its container reference first, the status after it.
StartReported(h) ==
    /\ Idle(h)
    /\ work # << >> /\ Head(work) # Stop
    /\ sandbox' = [sandbox EXCEPT !.containerRef = Head(work)]
    /\ booting' = {b \in booting : b >= Head(work)}
    /\ work' = Tail(work)
    /\ Goto(h, [NoRequest EXCEPT !.step = "event.status"])
    /\ UNCHANGED <<turns, sessionRef, boot, composing, handed, stopSent, history>>

EventStatus(h) ==
    /\ At(h, "event.status")
    /\ sandbox' = IF accepts("starting") THEN [sandbox EXCEPT !.status = "starting"] ELSE sandbox
    /\ End(h)
    /\ UNCHANGED <<turns, sessionRef, runner, history>>

StartFailed(h) ==
    /\ "startFailure" \in Feature
    /\ Idle(h) /\ AnotherBoot
    /\ work # << >> /\ Head(work) # Stop
    /\ work' = Tail(work)
    /\ booting' = booting \ {Head(work)}
    /\ \E reason \in {"image_unavailable", "start_failed"} : applyDown(h, "failed", reason)
    /\ UNCHANGED <<turns, sessionRef, boot, composing, handed, stopSent, history>>

\* The runner stopped the container, or could not.
StopReported(h) ==
    /\ Idle(h)
    /\ work # << >> /\ Head(work) = Stop
    /\ work' = Tail(work)
    /\ booting' = booting \cap pending(Tail(work))
    /\ \E status \in {"stopped", "failed"} : applyDown(h, status, "none")
    /\ UNCHANGED <<turns, sessionRef, boot, composing, handed, stopSent, history>>

\* The container the row names is seen dead, or unhealthy, or it crashed
\* while it booted; the report names the container it is about.
SandboxDied(h) ==
    /\ "death" \in Feature
    /\ Idle(h) /\ AnotherBoot
    /\ sandbox.containerRef # NoRef
    /\ booting' = booting \ {sandbox.containerRef}
    /\ \/ applyDown(h, "stopped", "none")
       \/ applyDown(h, "stopped", "home_read_only")
       \/ applyDown(h, "failed", "start_failed")
    /\ UNCHANGED <<turns, sessionRef, boot, composing, work, handed, stopSent, history>>

\* A work item, or the report of it, that is lost; a container it started
\* may still come up.
ReportLost ==
    /\ "loss" \in Feature
    /\ AnotherBoot
    /\ work # << >>
    /\ work' = Tail(work)
    /\ booting' \in {booting, booting \ {Head(work)}}
    /\ UNCHANGED <<db, req, boot, composing, handed, stopSent, history>>

\* What is left for the handler once the turns were stranded and woken for.
afterStrand(h) ==
    IF req[h].reason \in {"image_unavailable", "start_failed"}
    THEN Continue(h, "event.reason")
    ELSE End(h)

\* The strand transaction, after the status transaction and apart from it.
EventStrand(h) ==
    LET stranded == IF req[h].reason = "home_read_only"
                    THEN failStrandedTurns(turns, Turn)
                    ELSE strandTurns(turns, Turn)
        recovered == \E t \in Turn :
                        turns[t].status \in InFlight /\ stranded[t].status = "queued"
    IN  /\ At(h, "event.strand")
        /\ turns' = stranded
        /\ IF recovered THEN Continue(h, "event.wake") ELSE afterStrand(h)
        /\ UNCHANGED <<sandbox, sessionRef, runner, history>>

EventWake(h) ==
    /\ At(h, "event.wake")
    /\ sandbox' = wakeSandbox
    /\ afterStrand(h)
    /\ UNCHANGED <<turns, sessionRef, runner, history>>

\* applyStartFailureReason: an image that is missing parks at once, any
\* other failure once some queued turn has waited out the patience window.
EventReason(h) ==
    /\ At(h, "event.reason")
    /\ \/ req[h].reason = "image_unavailable" /\ Continue(h, "event.park")
       \/ /\ req[h].reason = "start_failed"
          /\ \E t \in Turn : turns[t].status = "queued"
          /\ Continue(h, "event.park")
       \/ req[h].reason = "start_failed" /\ End(h)
    /\ UNCHANGED <<db, runner, history>>

EventPark(h) ==
    /\ At(h, "event.park")
    /\ turns' = close(turns, Turn, {"queued", "joining"}, "failed")
    /\ End(h)
    /\ UNCHANGED <<sandbox, sessionRef, runner, history>>

(***************************************************************************)
(* The work poll: claimDueWork is one transaction over all its arms.       *)
(***************************************************************************)
owesWork == \E t \in Turn : turns[t].status \in {"queued", "dispatched"}
noActiveTurn == \A t \in Turn : turns[t].status \notin Active

\* Mutated form: a start needs a wake, no matter what the queue holds.
startsSandbox_byWakeOnly(late) ==
    \/ sandbox.status = "unprovisioned"
    \/ sandbox.status \in {"starting", "stopping"} /\ late

\* Start arm; `late` is a claim, or a failure, older than its window.
startsSandbox(late) ==
    \/ sandbox.status = "unprovisioned"
    \/ sandbox.status \in {"starting", "stopping"} /\ late
    \/ sandbox.status = "stopped" /\ owesWork
    \/ sandbox.status = "failed" /\ late /\ owesWork

\* Mutated form: an idle window that a turn in flight does not hold open.
stopsSandbox_busy(idle) ==
    /\ sandbox.status = "running"
    /\ sandbox.stopRequested \/ idle

\* Stop and eviction arms; `idle` is the idle window, or the held-awake cap.
stopsSandbox(idle) ==
    /\ sandbox.status = "running"
    /\ sandbox.stopRequested \/ (idle /\ noActiveTurn)

\* Mutated form: a conversation without a session is handed over with none.
sessionFor_stored(c) == IF c \in JobConversation THEN boot ELSE sessionRef[c]

\* The session a turn is handed over with: the conversation's, or a new one.
sessionFor(c) ==
    IF c \in JobConversation \/ sessionRef[c] = NoRef THEN boot ELSE sessionRef[c]

\* The start arm took the sandbox: only the abort arm can match besides.
ClaimStart(late) ==
    /\ ~composing /\ AnotherBoot
    /\ startsSandbox(late)
    /\ sandbox' = [sandbox EXCEPT !.status = "starting", !.stopRequested = FALSE]
    /\ boot' = boot + 1
    /\ composing' = TRUE
    /\ turns' = claimAborts(turns)
    /\ stopSent' = stopSent \cup claimableAborts(turns)
    /\ UNCHANGED <<sessionRef, req, work, booting, handed, history>>

\* The stop arm took the sandbox.
ClaimStop(idle) ==
    /\ ~composing /\ AnotherBoot
    /\ stopsSandbox(idle)
    /\ sandbox' = [sandbox EXCEPT !.status = "stopping"]
    /\ work' = Append(work, Stop)
    /\ turns' = claimAborts(turns)
    /\ stopSent' = stopSent \cup claimableAborts(turns)
    /\ UNCHANGED <<sessionRef, req, boot, composing, booting, handed, history>>

\* Neither: the turn arms, in the order of the transaction.  A claimed abort
\* stamps updated_at, so its turn is not stale to the turn arm.
ClaimTurnWork(stale, near) ==
    LET up       == sandbox.status = "running"
        aborted  == claimAborts(turns)
        steered  == IF up THEN claimSteers(aborted) ELSE aborted
        cautioned == IF up THEN claimCeilingWarnings(steered, near) ELSE steered
        overdue  == stale \ claimableAborts(turns)
        takes    == up /\ ~sandbox.stopRequested
        claimed  == IF takes THEN claimableTurns(cautioned, overdue) ELSE {}
        taken    == IF takes THEN claimTurns(cautioned, overdue) ELSE cautioned
    IN  /\ ~composing
        /\ turns' = IF up THEN claimSendNows(taken) ELSE taken
        /\ handed' = [t \in Turn |-> IF t \in claimed
                                     THEN handed[t] \cup {sessionFor(turns[t].conv)}
                                     ELSE handed[t]]
        /\ stopSent' = stopSent \cup claimableAborts(turns)
        /\ UNCHANGED <<sandbox, sessionRef, req, boot, composing, work, booting, history>>

\* Rows whose dispatch is stale, and running rows that near their ceiling.
mayBeStale == {t \in Turn : "stale" \in Feature /\ turns[t].status = "dispatched"}
mayBeNear  == {t \in Turn : "ceiling" \in Feature /\ turns[t].status = "running"}

ClaimDueWork ==
    \E late, idle \in BOOLEAN :
        \/ (late => "loss" \in Feature \/ sandbox.status = "failed") /\ ClaimStart(late)
        \/ (idle => "idle" \in Feature) /\ ~startsSandbox(late) /\ ClaimStop(idle)
        \/ /\ ~startsSandbox(late) /\ ~stopsSandbox(idle)
           /\ \E stale \in SUBSET mayBeStale, near \in SUBSET mayBeNear :
                ClaimTurnWork(stale, near)

\* The start's payload is composed after the claim, in the same poll.
ComposeStart ==
    /\ composing
    /\ composing' = FALSE
    /\ work' = Append(work, boot)
    /\ booting' = booting \cup {boot}
    /\ UNCHANGED <<db, req, boot, handed, stopSent, history>>

ReleaseClaim ==
    /\ "startFailure" \in Feature
    /\ composing /\ AnotherBoot
    /\ composing' = FALSE
    /\ sandbox' = IF sandbox.status = "starting"
                  THEN [sandbox EXCEPT !.status = "unprovisioned"]
                  ELSE sandbox
    /\ UNCHANGED <<turns, sessionRef, req, boot, work, booting, handed, stopSent, history>>

ParkUnstartableClaim ==
    /\ TRUE \in BlockerAnswers
    /\ composing /\ AnotherBoot
    /\ composing' = FALSE
    /\ IF sandbox.status = "starting"
       THEN /\ sandbox' = [sandbox EXCEPT !.status = "failed"]
            /\ turns' = close(turns, Turn, Active \cup {"joining"}, "failed")
       ELSE UNCHANGED <<sandbox, turns>>
    /\ UNCHANGED <<sessionRef, req, boot, work, booting, handed, stopSent, history>>

(***************************************************************************)
(* The sweeps a poll runs before it claims (runPollSweeps)                 *)
(***************************************************************************)
ReclaimStaleTurns(t) ==
    /\ "ceiling" \in Feature
    /\ turns[t].status \in Active
    /\ turns' = reclaimStaleTurns(turns, {t})
    /\ UNCHANGED <<sandbox, sessionRef, req, runner, history>>

FailStalledTurns(t) ==
    /\ "ceiling" \in Feature
    /\ turns[t].status = "running" /\ turns[t].beat
    /\ turns' = failStalledTurns(turns, {t})
    /\ UNCHANGED <<sandbox, sessionRef, req, runner, history>>

ExpireWedgedFollowUps(t) ==
    /\ "ceiling" \in Feature
    /\ turns[t].status = "joining"
    /\ ActiveIn(turns, turns[t].conv) = {}
    /\ turns' = expireWedgedFollowUps(turns, {t})
    /\ UNCHANGED <<sandbox, sessionRef, req, runner, history>>

(***************************************************************************)
(* A person's or an operator's requests on the sandbox                     *)
(***************************************************************************)
RequestAgentRestart ==
    /\ "restart" \in Feature
    /\ AnotherBoot
    /\ sessionRef' = [c \in Conversation |-> NoRef]
    /\ turns' = close(turns, Turn, InFlight, "failed")
    /\ sandbox' = IF sandbox.status \in {"starting", "running", "stopping"}
                  THEN [sandbox EXCEPT !.stopRequested = TRUE]
                  ELSE sandbox
    /\ UNCHANGED <<req, runner, history>>

RequestSandboxRespawn ==
    /\ "respawn" \in Feature
    /\ AnotherBoot
    /\ sandbox.status \in {"starting", "running"}
    /\ sandbox' = [sandbox EXCEPT !.status = "unprovisioned"]
    /\ turns' = strandTurns(turns, Turn)
    /\ UNCHANGED <<sessionRef, req, runner, history>>

\* The API process that serves a request ends.
Crash(h) ==
    /\ "crash" \in Feature
    /\ ~Idle(h)
    /\ End(h)
    /\ UNCHANGED <<db, runner, history>>

(***************************************************************************)
(* The specification                                                       *)
(***************************************************************************)
Promotion(h) ==
    PromoteStopped(h) \/ PromoteOldest(h) \/ PromoteFlip(h) \/ PromoteWake(h)
Sending(h) ==
    \/ SendRead(h) \/ SendReread(h) \/ InsertTurn(h) \/ CreateBlocker(h)
    \/ CreateWake(h) \/ CountParked(h) \/ CreateFollowUp(h) \/ RecheckTarget(h)
Aborting(h) ==
    \/ AbortRead(h) \/ AbortJoining(h) \/ AbortQueued(h) \/ AbortSweepAll(h)
    \/ AbortFlag(h) \/ AbortSweep(h) \/ AbortFlagHeld(h)
Reporting(h) ==
    \/ SendNowFlag(h) \/ ProgressRef(h) \/ FinishSalvage(h)
    \/ EventStatus(h) \/ EventStrand(h) \/ EventWake(h) \/ EventReason(h) \/ EventPark(h)

\* The next statement of a request that is being served.
Serve(h) == Promotion(h) \/ Sending(h) \/ Aborting(h) \/ Reporting(h)

Client(h) ==
    \/ \E c \in Conversation :
         SendMessage(h, c) \/ CreateTurn(h, c) \/ PromoteParkedFollowUps(h, c)
    \/ \E t \in Turn : AbortTurn(h, t) \/ RequestSendNow(h, t)

SupervisorReport(h) ==
    \E t \in Turn : ApplyTurnProgress(h, t) \/ FinishTurn(h, t) \/ FinishLost(h, t)

RunnerReport(h) ==
    StartReported(h) \/ StartFailed(h) \/ StopReported(h) \/ SandboxDied(h)

Poll ==
    \/ ClaimDueWork \/ ComposeStart \/ ReleaseClaim \/ ParkUnstartableClaim
    \/ \E t \in Turn :
         ReclaimStaleTurns(t) \/ FailStalledTurns(t) \/ ExpireWedgedFollowUps(t)

Next ==
    \/ \E h \in Handler :
         Serve(h) \/ Client(h) \/ SupervisorReport(h) \/ RunnerReport(h) \/ Crash(h)
    \/ \E t \in Turn : ApplyTurnEvents(t) \/ FinishRecovers(t)
    \/ SupervisorReady \/ ReportLost
    \/ Poll
    \/ RequestAgentRestart \/ RequestSandboxRespawn

Spec == Init /\ [][Next]_vars

(***************************************************************************)
(* Safety                                                                  *)
(***************************************************************************)
\* A conversation has at most one active turn, although no statement but the
\* INSERT and the promotion is prepared for the index to refuse it
\* (reviveColdTurns: "No P2002 catch, deliberately").
OneActivePerConversation == OneActive(turns)

\* "joined" is only reached by a follow-up that a poll handed to the run of
\* its target: "a sandbox cannot swallow messages that were never delivered
\* to it" (settleJoinedFollowUps).
JoinedWasDelivered ==
    \A f \in Turn :
        turns[f].status = "joined" =>
            /\ turns[f].delivered
            /\ turns[f].followUpOf \in Turn
            /\ handed[turns[f].followUpOf] # {}

\* "a newer message must never steer PAST an older sibling" (the steer arm):
\* whatever is parked before a steered follow-up went to the same run.
SteeredInOrder ==
    \A f, g \in Turn :
        /\ f < g
        /\ turns[f].conv = turns[g].conv
        /\ turns[f].status = "joining"
        /\ turns[g].status = "joining"
        /\ turns[g].delivered
        => turns[f].delivered /\ turns[f].followUpOf = turns[g].followUpOf

\* From a restart until the next start claim no conversation has a session:
\* no report of the boot that is being discarded writes one back
\* (requestAgentRestart, "what keeps the reset reset").
RestartStaysReset ==
    sandbox.stopRequested => \A c \in Conversation : sessionRef[c] = NoRef

\* "A sandbox that went down takes its in-flight turns with it"
\* (applyRunnerEvent).  The row and the turns are written by two transactions,
\* and anything may come between them, a wake and the next boot included: a
\* turn is in flight only on a sandbox that is up, or else a handler has its
\* strand still to come.
InFlightIsServed ==
    (\E t \in Turn : turns[t].status \in InFlight) =>
        \/ sandbox.status = "running"
        \/ \E h \in Handler : At(h, "event.strand")

(***************************************************************************)
(* Action properties                                                       *)
(***************************************************************************)
\* A finished turn keeps its outcome: no late report, sweep, promotion or
\* strand overwrites it (finishTurn: "Only a turn that is still OPEN can be
\* closed").
FinishedStaysFinished ==
    [][\A t \in Turn :
          turns[t].status \in Terminal => turns'[t].status = turns[t].status]_vars

\* A turn is re-queued after its hand-over at most once, whichever of the
\* death doors get there, in whichever order (`retriedAt` is the once-fence).
RecoveredOnce ==
    [][\A t \in Turn :
          /\ turns[t].retried => turns'[t].retried
          /\ turns[t].status \in InFlight /\ turns'[t].status = "queued"
             => ~turns[t].retried /\ turns'[t].retried]_vars

(***************************************************************************)
(* The lifecycle this plane implements                                     *)
(***************************************************************************)
Lifecycle == INSTANCE TurnLifecycle WITH
    phase     <- [t \in Turn |-> turns[t].status],
    home      <- [t \in Turn |-> turns[t].conv],
    recovered <- [t \in Turn |-> turns[t].retried],
    steered   <- [t \in Turn |-> turns[t].delivered]

\* Every behaviour of the plane is one of TurnLifecycle: no interleaving of
\* handlers, polls, reports, deaths and crashes moves a message along an edge
\* the lifecycle does not have.
ImplementsLifecycle == Lifecycle!Spec

(***************************************************************************)
(* Liveness                                                                *)
(***************************************************************************)
\* API processes finish the requests they serve (or crash), the runner polls,
\* executes its work items and reports them, and a container that was
\* started connects.
Fairness ==
    /\ \A h \in Handler : WF_vars(Serve(h))
    /\ WF_vars(ClaimDueWork)
    /\ WF_vars(ComposeStart)
    /\ WF_vars(\E h \in Handler : StartReported(h) \/ StopReported(h))
    /\ WF_vars(SupervisorReady)

\* Every poll runs the sweeps, and every deadline passes in the end.
SweepFairness ==
    /\ \A t \in Turn : WF_vars(ReclaimStaleTurns(t))
    /\ \A t \in Turn : WF_vars(ExpireWedgedFollowUps(t))

FairSpec  == Spec /\ Fairness
SweptSpec == Spec /\ Fairness /\ SweepFairness

\* "Deriving dueness from the queue" (the start arm): a queued turn is handed
\* over, or ends, without the help of any sweep, although its sandbox may be
\* parked, dying, or lost at the time.
QueuedIsServed ==
    \A t \in Turn : turns[t].status = "queued" ~> turns[t].status # "queued"

\* A run whose turn a sweep failed is told to stop, once ("this arm is how that
\* orphaned work actually gets stopped", the abort arm of claimDueWork).
SweptRunIsStopped ==
    \A t \in Turn :
        turns[t].status = "failed" /\ turns[t].abortRequested
           ~> t \in stopSent /\ ~turns[t].abortRequested

\* Every message reaches an outcome, whatever was lost on the way.
EveryMessageSettles ==
    \A t \in Turn : turns[t].status \in Active \cup {"joining"} ~> turns[t].status \in Terminal
=============================================================================
