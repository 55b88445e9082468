---------------------------- MODULE ReportChain -----------------------------
(***************************************************************************)
(* The report chain of a runner (apps/runner/src/report-chain.ts): every   *)
(* report of a supervisor is posted to the control plane one at a time, in *)
(* the order it was made.  A failed post is dropped, except a turn's end   *)
(* whose post provably never applied: that one is sent again, through the  *)
(* chain, after a backoff.                                                 *)
(*                                                                         *)
(* A report is known by the order in which it was made.  The chain of      *)
(* promises is the sequence of the reports that are queued; its head is    *)
(* the one being posted.                                                   *)
(***************************************************************************)
EXTENDS Integers, Sequences, FiniteSets

CONSTANTS
    Sandbox,
    MaxReported,                      \* bound: reports that are ever made
    MaxFailures,                      \* bound: posts that fail
    MAX_QUEUED_REPORTS,
    TERMINAL_RESERVE,
    MAX_PENDING_RESENDS,
    MAX_PENDING_RESENDS_PER_SANDBOX,
    MAX_RESENDS

ASSUME ReportAssumption ==
    {MaxReported, MaxFailures, MAX_QUEUED_REPORTS, TERMINAL_RESERVE, MAX_PENDING_RESENDS,
     MAX_PENDING_RESENDS_PER_SANDBOX} \subseteq Nat
ASSUME ResendAssumption == MAX_RESENDS \in Nat \ {0}
ASSUME SandboxAssumption == IsFiniteSet(Sandbox)

VARIABLES
    made,                 \* the reports made so far, first to last
    chain,                \* those queued, by number
    resending,            \* those whose resend loop is alive
    sleeping,             \* those of them in their backoff
    attempts,             \* posts each resend loop has made
    pendingResends,       \* the counter of each sandbox
    totalPendingResends,
    landed,               \* history: how often the control plane applied each
    unrepeated,           \* history: those whose post failed for good
    failures              \* how often a post failed

counters == <<pendingResends, totalPendingResends>>
vars == <<made, chain, resending, sleeping, attempts, counters, landed, unrepeated, failures>>

Number == 1..MaxReported
Report == [kind : {"event", "end", "death"}, box : Sandbox]

TypeOK ==
    /\ made \in Seq(Report) /\ Len(made) <= MaxReported
    /\ chain \in Seq(1..Len(made))
    /\ sleeping \subseteq resending /\ resending \subseteq 1..Len(made)
    /\ attempts \in [Number -> 0..MAX_RESENDS]
    /\ pendingResends \in [Sandbox -> Nat]
    /\ totalPendingResends \in Nat
    /\ landed \in [Number -> Nat]
    /\ unrepeated \subseteq Number
    /\ failures \in Nat

Init ==
    /\ made = << >> /\ chain = << >>
    /\ resending = {} /\ sleeping = {}
    /\ attempts = [r \in Number |-> 0]
    /\ pendingResends = [s \in Sandbox |-> 0]
    /\ totalPendingResends = 0
    /\ landed = [r \in Number |-> 0]
    /\ unrepeated = {} /\ failures = 0

(***************************************************************************)
(* The queue                                                               *)
(***************************************************************************)
\* Mutated form: the reserve is open to every report.
capFor_shared(kind) == MAX_QUEUED_REPORTS + TERMINAL_RESERVE

\* A death report ends a turn too: the reserve goes by the event's kind.
capFor(kind) == IF kind = "event" THEN MAX_QUEUED_REPORTS
                ELSE MAX_QUEUED_REPORTS + TERMINAL_RESERVE

\* report: past the cap an event is dropped.
MakeReport(report) ==
    /\ Len(made) < MaxReported
    /\ made' = Append(made, report)
    /\ chain' = IF Len(chain) >= capFor(report.kind)
                THEN chain
                ELSE Append(chain, Len(made) + 1)
    /\ UNCHANGED <<resending, sleeping, attempts, counters, landed, unrepeated, failures>>

(***************************************************************************)
(* The resend pool                                                         *)
(***************************************************************************)
\* holdResend's condition: room in the pool and in the sandbox's share.
mayHold(s) ==
    /\ totalPendingResends < MAX_PENDING_RESENDS
    /\ pendingResends[s] < MAX_PENDING_RESENDS_PER_SANDBOX

holdResend(s) ==
    /\ pendingResends' = [pendingResends EXCEPT ![s] = @ + 1]
    /\ totalPendingResends' = totalPendingResends + 1

\* Mutated form: the sandbox's share is never given back.
releaseResend_totalOnly(s) ==
    /\ totalPendingResends' = totalPendingResends - 1
    /\ UNCHANGED pendingResends

releaseResend(s) ==
    /\ pendingResends' = [pendingResends EXCEPT ![s] = @ - 1]
    /\ totalPendingResends' = totalPendingResends - 1

\* Mutated form: the first post gives back a place, too.
loopEnds_always(r) == resending' = resending \ {r} /\ releaseResend(made[r].box)

\* The resend loop of r returns, whichever way (`finally`); a first post has
\* no loop.
loopEnds(r) ==
    IF r \in resending
    THEN resending' = resending \ {r} /\ releaseResend(made[r].box)
    ELSE UNCHANGED <<resending, counters>>

(***************************************************************************)
(* The post at the head of the chain                                       *)
(***************************************************************************)
Lands(r) == landed' = [landed EXCEPT ![r] = @ + 1]

PostLands ==
    /\ chain # << >>
    /\ Lands(Head(chain))
    /\ chain' = Tail(chain)
    /\ loopEnds(Head(chain))
    /\ UNCHANGED <<made, sleeping, attempts, unrepeated, failures>>

\* How a post fails: its request never left; it was answered 429, 500 or 503;
\* it was answered otherwise; or its answer was lost (a timeout, a reset).
Failure == {"neverSent", "refused", "rejected", "lost"}

\* Mutated form: a network error is taken for a request that never left.
isProvablyUnapplied_network(failure) == failure \in {"neverSent", "refused", "lost"}

isProvablyUnapplied(failure) == failure \in {"neverSent", "refused"}

isResendable(r) == made[r].kind = "end"

\* `failed`, for a first post: a turn's end may enter the pool.
firstPostFails(r, failure) ==
    IF isResendable(r) /\ isProvablyUnapplied(failure) /\ mayHold(made[r].box)
    THEN /\ holdResend(made[r].box)
         /\ resending' = resending \cup {r}
         /\ sleeping' = sleeping \cup {r}
    ELSE UNCHANGED <<resending, sleeping, counters>>

\* Mutated form: the budget counts the first post.
hasBudget_oneLess(r) == attempts[r] + 1 < MAX_RESENDS

\* The condition of the resend loop.
hasBudget(r) == attempts[r] < MAX_RESENDS

\* The next round of r's resend loop, or its end.
resendFails(r, failure) ==
    IF isProvablyUnapplied(failure) /\ hasBudget(r)
    THEN sleeping' = sleeping \cup {r} /\ UNCHANGED <<resending, counters>>
    ELSE loopEnds(r) /\ UNCHANGED sleeping

PostFails ==
    LET r == Head(chain)
    IN  /\ chain # << >>
        /\ failures < MaxFailures
        /\ failures' = failures + 1
        /\ chain' = Tail(chain)
        /\ \E failure \in Failure :
             /\ \/ failure = "lost" /\ Lands(r)
                \/ UNCHANGED landed
             /\ unrepeated' = IF failure \in {"rejected", "lost"}
                              THEN unrepeated \cup {r} ELSE unrepeated
             /\ IF r \in resending THEN resendFails(r, failure)
                                   ELSE firstPostFails(r, failure)
        /\ UNCHANGED <<made, attempts>>

\* The backoff is over: back through the chain, whatever its length.
Resend(r) ==
    /\ r \in sleeping
    /\ sleeping' = sleeping \ {r}
    /\ attempts' = [attempts EXCEPT ![r] = @ + 1]
    /\ chain' = Append(chain, r)
    /\ UNCHANGED <<made, resending, counters, landed, unrepeated, failures>>

Next ==
    \/ \E report \in Report : MakeReport(report)
    \/ PostLands \/ PostFails
    \/ \E r \in sleeping : Resend(r)

Spec == Init /\ [][Next]_vars

\* Every post settles ("bounded by the client's 15s timeout") and every
\* backoff ends.  What a post's outcome is, nothing promises.
FairSpec ==
    /\ Spec
    /\ WF_vars(PostLands \/ PostFails)
    /\ \A r \in Number : WF_vars(Resend(r))

(***************************************************************************)
(* Properties                                                              *)
(***************************************************************************)
\* "a post that may have landed is never repeated, so no close is ever
\* applied twice", and no transcript event either: over every mix of lost
\* answers, refusals and resends, the control plane applies a report once.
LandsOnce == \A r \in Number : landed[r] <= 1

\* The pool's counters count the loops that are alive, so a pool that was
\* full never stays full: "one sandbox must not crowd out other tenants".
PoolIsExact ==
    /\ totalPendingResends = Cardinality(resending)
    /\ \A s \in Sandbox :
         pendingResends[s] = Cardinality({r \in resending : made[r].box = s})

\* "bounded so an untrusted sandbox cannot grow it without limit": events
\* stay within the cap and leave the reserve to turn ends; resends pass no
\* cap of their own, and the pool bounds what they add.
ChainIsBounded ==
    /\ Cardinality({i \in 1..Len(chain) : made[chain[i]].kind = "event"})
           <= MAX_QUEUED_REPORTS
    /\ Len(chain) <= MAX_QUEUED_REPORTS + TERMINAL_RESERVE + MAX_PENDING_RESENDS

\* A turn's end that was taken into the pool lands, or some post of it failed
\* in a way that is never repeated, as long as the control plane is back
\* before the budget of resends is spent.
HeldEndLands ==
    \A r \in Number : r \in resending ~> (landed[r] = 1 \/ r \in unrepeated)

=============================================================================
