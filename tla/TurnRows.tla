------------------------------ MODULE TurnRows ------------------------------
(***************************************************************************)
(* The `turns` table of the control plane and the SQL statements that      *)
(* write it (packages/api/src/services/turn-service.ts and due-work.ts).   *)
(*                                                                         *)
(* A turn is one message of a conversation and the run that answers it.    *)
(* Turn ids are numbers: `created_at` order is their order.  The table is  *)
(* a total function; a row not inserted yet has status "none".             *)
(*                                                                         *)
(* Every statement is an operator from a table to the table it leaves      *)
(* behind.  A transaction of the code is the composition of its            *)
(* statements, which ConversationPlane takes in one step; statements that  *)
(* the code does not put into one transaction are separate steps there.    *)
(* The set `where` stands for the rows a statement's caller restricts it   *)
(* to; clocks (`updated_at`, `created_at`, `promoted_at`) appear as the    *)
(* set of rows whose clock ran out.                                        *)
(***************************************************************************)
EXTENDS Integers, FiniteSets

CONSTANTS
    Turn,           \* ids of the messages that may ever be sent
    Conversation,   \* conversations of the one agent that is modelled
    JobConversation \* those that a platform job opened for its hidden runs

ASSUME TurnAssumption == Turn \subseteq Nat \ {0}
ASSUME ConversationAssumption ==
    /\ Conversation \subseteq Nat \ {0}
    /\ JobConversation \subseteq Conversation

NoTurn == 0
NoConversation == 0

InFlight == {"dispatched", "running"}
Active   == {"queued"} \cup InFlight
Terminal == {"done", "failed", "aborted", "joined"}
Status   == {"none", "joining"} \cup Active \cup Terminal

\* `model Turn`; a nullable timestamp is the Boolean "it is set".
Row == [status : Status,
        conv : Conversation \cup {NoConversation},
        started : BOOLEAN,         \* started_at
        retried : BOOLEAN,         \* retried_at, the once-fence of recovery
        beat : BOOLEAN,            \* last_progress_at
        warned : BOOLEAN,          \* ceiling_warned_at
        abortRequested : BOOLEAN,
        followUpOf : Turn \cup {NoTurn},
        delivered : BOOLEAN,       \* steer_delivered_at
        sendNow : BOOLEAN]         \* send_now_requested

Table == [Turn -> Row]

EmptyRow == [status |-> "none", conv |-> NoConversation, started |-> FALSE,
             retried |-> FALSE, beat |-> FALSE, warned |-> FALSE,
             abortRequested |-> FALSE, followUpOf |-> NoTurn,
             delivered |-> FALSE, sendNow |-> FALSE]

EmptyTable == [t \in Turn |-> EmptyRow]

(***************************************************************************)
(* Reads                                                                   *)
(***************************************************************************)
ActiveIn(tab, c)  == {t \in Turn : tab[t].conv = c /\ tab[t].status \in Active}
JoiningIn(tab, c) == {t \in Turn : tab[t].conv = c /\ tab[t].status = "joining"}

\* The turn `activeTurnOf` returns for a conversation that has one.
IsNewestOf(t, S) == t \in S /\ \A u \in S : u <= t
IsOldestOf(t, S) == t \in S /\ \A u \in S : t <= u

\* The id the next INSERT takes.
IsNextTurn(tab, t) ==
    /\ tab[t].status = "none"
    /\ \A u \in Turn : u < t => tab[u].status # "none"

\* Mutated form: an index that leaves the queued rows out.
indexAdmits_inFlightOnly(tab, c) == \A t \in ActiveIn(tab, c) : tab[t].status \notin InFlight

\* The partial unique index `turns_one_active_per_conversation`: it refuses an
\* active row to a conversation that has one.
indexAdmits(tab, c) == ActiveIn(tab, c) = {}

\* No two active rows of one conversation.
OneActive(tab) ==
    \A t, u \in Turn :
        /\ tab[t].status \in Active
        /\ tab[u].status \in Active
        /\ tab[t].conv = tab[u].conv
        => t = u

(***************************************************************************)
(* Statements of turn-service.ts                                           *)
(***************************************************************************)
\* INSERT of createTurn (status "queued") and createFollowUp ("joining").
insertTurn(tab, t, c, status, target) ==
    [tab EXCEPT ![t] = [EmptyRow EXCEPT !.status = status, !.conv = c,
                                        !.followUpOf = target]]

\* An UPDATE that only closes rows: `status`, `finished_at`, `error`.
close(tab, where, from, to) ==
    [t \in Turn |-> IF t \in where /\ tab[t].status \in from
                    THEN [tab[t] EXCEPT !.status = to]
                    ELSE tab[t]]

\* Promotion's first statement: a follow-up somebody stopped is not promoted.
abortStoppedFollowUps(tab, c) ==
    close(tab, {t \in Turn : tab[t].conv = c /\ tab[t].abortRequested},
          {"joining"}, "aborted")

\* Promotion's last statement; the index refuses it while a turn is active.
promoteFollowUp(tab, t) ==
    [tab EXCEPT ![t].status = "queued"]

\* Mutated form: the once-fence is stamped and not asked for.
reviveColdTurns_unfenced(tab, where) ==
    [t \in Turn |->
        IF t \in where /\ tab[t].status = "dispatched" /\ ~tab[t].started
        THEN [tab[t] EXCEPT !.status = "queued", !.retried = TRUE]
        ELSE tab[t]]

reviveColdTurns(tab, where) ==
    [t \in Turn |->
        IF /\ t \in where
           /\ tab[t].status = "dispatched"
           /\ ~tab[t].started
           /\ ~tab[t].retried
        THEN [tab[t] EXCEPT !.status = "queued", !.retried = TRUE]
        ELSE tab[t]]

resumeInterruptedTurns(tab, where) ==
    [t \in Turn |->
        IF /\ t \in where
           /\ tab[t].status \in InFlight
           /\ tab[t].started
           /\ ~tab[t].retried
           /\ ~tab[t].abortRequested
           /\ tab[t].conv \notin JobConversation
        THEN [tab[t] EXCEPT !.status = "queued", !.retried = TRUE,
                            !.beat = FALSE, !.warned = FALSE]
        ELSE tab[t]]

\* Mutated form: a turn that was handed over and not begun is forgotten.
failStrandedTurns_runningOnly(tab, where) == close(tab, where, {"running"}, "failed")

failStrandedTurns(tab, where) == close(tab, where, InFlight, "failed")

\* The three arms of a sandbox death, in the order of their transaction.
strandTurns(tab, where) ==
    LET revived == reviveColdTurns(tab, where)
        resumed == resumeInterruptedTurns(revived, where)
    IN  failStrandedTurns(resumed, where)

\* Mutated form: `turn.started` without its status guard.
startTurn_unguarded(tab, t) ==
    [tab EXCEPT ![t].status = "running", ![t].started = TRUE]

\* `turn.started`: only a dispatched turn starts.
startTurn(tab, t) ==
    IF tab[t].status = "dispatched"
    THEN [tab EXCEPT ![t].status = "running", ![t].started = TRUE]
    ELSE tab

\* Mutated form: the report is believed about follow-ups never handed over.
settleJoinedFollowUps_trusting(tab, target, followUps) ==
    close(tab, {f \in followUps : tab[f].followUpOf = target}, {"joining"}, "joined")

settleJoinedFollowUps(tab, target, followUps) ==
    close(tab, {f \in followUps : /\ tab[f].conv = tab[target].conv
                                  /\ tab[f].followUpOf = target
                                  /\ tab[f].delivered},
          {"joining"}, "joined")

\* Mutated form: the close does not ask whether the turn is still open.
closableBy_any(outcome) == Active \cup Terminal

\* The rows finishTurn's close matches for a reported outcome.
closableBy(outcome) == IF outcome = "failed" THEN InFlight ELSE Active

\* What follows the close that won, in its transaction.
finishTurnClose(tab, t, outcome, followUps) ==
    LET closed  == close(tab, {t}, closableBy(outcome), outcome)
        settled == settleJoinedFollowUps(closed, t, followUps)
    IN  IF outcome = "aborted"
        THEN close(settled, JoiningIn(settled, settled[t].conv), {"joining"}, "aborted")
        ELSE settled

requestAbort(tab, where) ==
    [t \in Turn |-> IF t \in where
                    THEN [tab[t] EXCEPT !.abortRequested = TRUE]
                    ELSE tab[t]]

\* abortTurn's sweep while the turn is in flight spares what its run holds.
sweepUnheldFollowUps(tab, target) ==
    close(tab, {f \in Turn : /\ tab[f].conv = tab[target].conv
                             /\ ~(tab[f].followUpOf = target /\ tab[f].delivered)},
          {"joining"}, "aborted")

heldFollowUps(tab, target) ==
    {f \in Turn : /\ tab[f].conv = tab[target].conv
                  /\ tab[f].followUpOf = target
                  /\ tab[f].status = "joining"
                  /\ tab[f].delivered}

(***************************************************************************)
(* Statements of due-work.ts: the claim arms and the sweeps                *)
(***************************************************************************)
\* Mutated form: a turn that a sweep has failed is finished business.
claimableAborts_inFlightOnly(tab) ==
    {t \in Turn : tab[t].abortRequested /\ tab[t].status \in InFlight}

claimableAborts(tab) ==
    {t \in Turn : tab[t].abortRequested /\ tab[t].status \in InFlight \cup {"failed"}}

claimAborts(tab) ==
    [t \in Turn |-> IF t \in claimableAborts(tab)
                    THEN [tab[t] EXCEPT !.abortRequested = FALSE]
                    ELSE tab[t]]

\* Mutated form: the sibling that must have gone first is the newer one.
claimableSteers_reversed(tab) ==
    {f \in Turn :
        /\ tab[f].status = "joining"
        /\ ~tab[f].delivered
        /\ tab[f].followUpOf \in Turn
        /\ tab[tab[f].followUpOf].status \in InFlight
        /\ \A g \in JoiningIn(tab, tab[f].conv) :
              g > f => tab[g].delivered /\ tab[g].followUpOf = tab[f].followUpOf}

\* A follow-up is steered once, toward a turn that was handed over, and
\* never past an older one that is not on its way to the same run.
claimableSteers(tab) ==
    {f \in Turn :
        /\ tab[f].status = "joining"
        /\ ~tab[f].delivered
        /\ tab[f].followUpOf \in Turn
        /\ tab[tab[f].followUpOf].status \in InFlight
        /\ \A g \in JoiningIn(tab, tab[f].conv) :
              g < f => tab[g].delivered /\ tab[g].followUpOf = tab[f].followUpOf}

claimSteers(tab) ==
    [f \in Turn |-> IF f \in claimableSteers(tab)
                    THEN [tab[f] EXCEPT !.delivered = TRUE]
                    ELSE tab[f]]

claimCeilingWarnings(tab, nearCeiling) ==
    [t \in Turn |-> IF /\ t \in nearCeiling
                       /\ tab[t].status = "running"
                       /\ ~tab[t].warned
                    THEN [tab[t] EXCEPT !.warned = TRUE]
                    ELSE tab[t]]

\* `stale` are the rows whose hand-over is older than STALE_DISPATCH_SECONDS.
claimableTurns(tab, stale) ==
    {t \in Turn : \/ tab[t].status = "queued"
                  \/ tab[t].status = "dispatched" /\ t \in stale}

claimTurns(tab, stale) ==
    [t \in Turn |-> IF t \in claimableTurns(tab, stale)
                    THEN [tab[t] EXCEPT !.status = "dispatched"]
                    ELSE tab[t]]

claimableSendNows(tab) ==
    {f \in Turn :
        /\ tab[f].sendNow
        /\ tab[f].status = "joining"
        /\ tab[f].delivered
        /\ tab[f].followUpOf \in Turn
        /\ tab[tab[f].followUpOf].status = "running"}

claimSendNows(tab) ==
    [f \in Turn |-> IF f \in claimableSendNows(tab)
                    THEN [tab[f] EXCEPT !.sendNow = FALSE]
                    ELSE tab[f]]

reclaimStaleTurns(tab, expired) ==
    [t \in Turn |-> IF t \in expired /\ tab[t].status \in Active
                    THEN [tab[t] EXCEPT !.status = "failed",
                                        !.abortRequested = tab[t].started]
                    ELSE tab[t]]

failStalledTurns(tab, silent) ==
    [t \in Turn |-> IF t \in silent /\ tab[t].status = "running" /\ tab[t].beat
                    THEN [tab[t] EXCEPT !.status = "failed",
                                        !.abortRequested = TRUE]
                    ELSE tab[t]]

\* Mutated form: a follow-up that some run has received counts as served.
expireWedgedFollowUps_unsteered(tab, expired) ==
    close(tab, {t \in expired : ActiveIn(tab, tab[t].conv) = {} /\ ~tab[t].delivered},
          {"joining"}, "failed")

expireWedgedFollowUps(tab, expired) ==
    close(tab, {t \in expired : ActiveIn(tab, tab[t].conv) = {}},
          {"joining"}, "failed")
=============================================================================
