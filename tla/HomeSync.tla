------------------------------ MODULE HomeSync ------------------------------
(***************************************************************************)
(* The home projection of one sandbox: its skills, memory files and brief, *)
(* pushed to the container by generations.                                 *)
(*                                                                         *)
(* A write that changes the projection is followed by a bump of the        *)
(* desired generation (home-sync-service.ts).  The work poll claims a sync *)
(* while applied is behind desired, composes it from what is true by then, *)
(* and the runner's copy that holds the sandbox's socket sends its parts   *)
(* down (runner.ts).  The supervisor applies part after part and           *)
(* acknowledges the last (supervisor.ts, materializer.ts); the             *)
(* acknowledgement goes through the report chain of that copy to           *)
(* applyRunnerEvent (sandbox-service.ts).                                  *)
(*                                                                         *)
(* The content of the projection is a version number.  The lifecycle of    *)
(* the sandbox is reduced to down, starting and running, and its claims to *)
(* the columns the sync reads; ConversationPlane has them in full.         *)
(***************************************************************************)
EXTENDS Integers, Sequences, FiniteSets

CONSTANTS
    Copy,        \* copies of the runner
    NoCopy,
    Parts,       \* parts of one sync
    MaxWrites,   \* bound: writes to what the home shows
    MaxBoots,    \* bound: starts of a container
    MaxLosses,   \* bound: reports and polls that are lost
    MaxDrops,    \* bound: sockets that drop
    MaxFailures, \* bound: parts whose write to disk fails
    MaxFrames,   \* bound: frames under way to a supervisor
    MaxReports   \* bound: reports that wait in a chain when a sync is claimed

ASSUME CopyAssumption == NoCopy \notin Copy
ASSUME PartsAssumption == Parts \in Nat \ {0}
ASSUME BoundsAssumption ==
    {MaxWrites, MaxBoots, MaxLosses, MaxDrops, MaxFailures, MaxFrames, MaxReports}
        \subseteq Nat

VARIABLES
    truth,     \* version of what the home should show
    owed,      \* writes whose bump is still to come
    desired,   \* home_desired_generation
    applied,   \* home_applied_generation
    lease,     \* home_sync_claimed_at is set
    status,    \* status of the sandbox
    holder,    \* channel_replica_id
    open,      \* channel_connection_id is set
    starting,  \* a start was claimed and is not carried out yet
    poll,      \* the sync that a poll claimed and did not answer yet
    reports,   \* the report chain of each copy
    up,        \* the container that was started last is alive
    socket,    \* the copy its socket is open to
    outbound,  \* what its supervisor said and no copy acked yet
    frames,    \* parts under way to it, or waiting in its sync queue
    poisoned,  \* poisonedSyncGeneration
    home,      \* the version of each part of the home it works on
    budget,    \* how often each bounded event happened
    claimed    \* history: a sync was claimed since the last start claim

channel    == <<holder, open>>
db         == <<desired, applied, lease, status, channel>>
supervisor == <<up, socket, outbound, frames, poisoned, home>>
vars       == <<truth, owed, db, starting, poll, reports, supervisor, budget, claimed>>

\* Generations count from 1, so 0 stands for the other report of a supervisor.
Ready    == 0
NoSync   == [gen |-> 0, content |-> 0, copy |-> NoCopy]
NoPoison == 0
Frame    == [gen : Nat, content : Nat, part : 1..Parts]
Message  == [report : Nat, seen : SUBSET Copy]
Bounded  == {"boots", "losses", "drops", "failures"}

TypeOK ==
    /\ {truth, owed, desired, applied, poisoned} \subseteq Nat
    /\ {lease, open, starting, up, claimed} \subseteq BOOLEAN
    /\ status \in {"down", "starting", "running"}
    /\ {holder, socket} \subseteq Copy \cup {NoCopy}
    /\ poll \in [gen : Nat, content : Nat, copy : Copy \cup {NoCopy}]
    /\ reports \in [Copy -> Seq(Nat)]
    /\ outbound \in Seq(Message)
    /\ frames \in Seq(Frame)
    /\ home \in [1..Parts -> Nat]
    /\ budget \in [Bounded -> Nat]

Empty == [p \in 1..Parts |-> 0]

Init ==
    /\ truth = 1 /\ owed = 0
    /\ desired = 1 /\ applied = 0 /\ lease = FALSE
    /\ status = "down" /\ holder = NoCopy /\ open = FALSE
    /\ starting = FALSE /\ poll = NoSync
    /\ reports = [c \in Copy |-> << >>]
    /\ up = FALSE /\ socket = NoCopy /\ outbound = << >> /\ frames = << >>
    /\ poisoned = NoPoison /\ home = Empty
    /\ budget = [b \in Bounded |-> 0]
    /\ claimed = FALSE

Spend(b, max) ==
    /\ budget[b] < max
    /\ budget' = [budget EXCEPT ![b] = @ + 1]

(***************************************************************************)
(* The control plane                                                       *)
(***************************************************************************)
\* A service commits a change of what the home shows, and bumps after it.
Write ==
    /\ truth <= MaxWrites
    /\ truth' = truth + 1
    /\ owed' = owed + 1
    /\ UNCHANGED <<db, poll, reports, supervisor, budget, claimed, starting>>

\* A bump touches the sandbox whatever its status.
bumpHomeForAgent ==
    /\ owed > 0
    /\ owed' = owed - 1
    /\ desired' = desired + 1
    /\ UNCHANGED <<truth, applied, lease, status, channel, poll, reports, supervisor,
                   budget, claimed, starting>>

\* claimDueWork's start arm: a parked sandbox, or a start that went stale.
\* "Boot = first sync": the claim forgets what the last boot had applied.
ClaimStart ==
    /\ status \in {"down", "starting"}
    /\ Spend("boots", MaxBoots)
    /\ status' = "starting"
    /\ applied' = 0 /\ lease' = FALSE
    /\ holder' = NoCopy /\ open' = FALSE
    /\ starting' = TRUE
    /\ claimed' = FALSE
    /\ UNCHANGED <<truth, owed, desired, poll, reports, supervisor>>

\* A stop, a death or a respawn takes the sandbox out of its status.
SandboxDown ==
    /\ status # "down"
    /\ status' = "down"
    /\ UNCHANGED <<truth, owed, desired, applied, lease, channel, poll, reports,
                   supervisor, budget, claimed, starting>>

\* Mutated form: an open claim is not taken again, acknowledged or not.
syncDue_once == status = "running" /\ applied < desired /\ open /\ ~lease

\* The sync arm's condition: the sandbox runs behind, and its socket is open
\* as far as the row knows.  A claim that was not acknowledged is due again
\* after HOME_SYNC_RETRY_SECONDS.
syncDue == status = "running" /\ applied < desired /\ open

\* The sync arm, for a poll of the copy that holds the socket.
ClaimSync ==
    /\ poll = NoSync
    /\ syncDue
    /\ Len(frames) + Parts <= MaxFrames
    /\ Len(reports[holder]) < MaxReports
    /\ lease' = TRUE
    /\ poll' = [gen |-> desired, content |-> 0, copy |-> holder]
    /\ claimed' = TRUE
    /\ UNCHANGED <<truth, owed, desired, applied, status, channel, reports, supervisor,
                   budget, starting>>

\* buildHomeSyncItem reads what is true now, after the claim.
ComposeSync ==
    /\ poll # NoSync /\ poll.content = 0
    /\ poll' = [poll EXCEPT !.content = truth]
    /\ UNCHANGED <<truth, owed, db, reports, supervisor, budget, claimed, starting>>

\* A composer that fails, or a poll whose answer never arrives.
PollLost ==
    /\ poll # NoSync
    /\ Spend("losses", MaxLosses)
    /\ poll' = NoSync
    /\ UNCHANGED <<truth, owed, db, reports, supervisor, claimed, starting>>

\* Mutated form: an acknowledgement is taken whether or not a claim is open.
acknowledges_unclaimed(generation) == applied < generation

\* `home.synced` applies where it can still be true.
acknowledges(generation) == applied < generation /\ lease

\* One report of a chain reaches applyRunnerEvent.  `supervisor.ready` is
\* fenced by the copy that holds the channel, `home.synced` by the lease.
PostReport(c) ==
    LET report == Head(reports[c])
    IN  /\ reports[c] # << >>
        /\ reports' = [reports EXCEPT ![c] = Tail(@)]
        /\ status' = IF report = Ready /\ holder = c THEN "running" ELSE status
        /\ IF report # Ready /\ acknowledges(report)
           THEN applied' = report /\ lease' = FALSE
           ELSE UNCHANGED <<applied, lease>>
        /\ UNCHANGED <<truth, owed, desired, channel, poll, supervisor, budget, claimed,
                       starting>>

ReportLost(c) ==
    /\ reports[c] # << >>
    /\ Spend("losses", MaxLosses)
    /\ reports' = [reports EXCEPT ![c] = Tail(@)]
    /\ UNCHANGED <<truth, owed, db, poll, supervisor, claimed, starting>>

(***************************************************************************)
(* The runner and the supervisor                                           *)
(***************************************************************************)
\* A start recreates the container; its home is the one that was left, or an
\* empty one where the backend lost it.
StartContainer ==
    /\ starting /\ status = "starting"
    /\ starting' = FALSE
    /\ holder' = NoCopy /\ open' = FALSE
    /\ up' = TRUE /\ socket' = NoCopy
    /\ outbound' = <<[report |-> Ready, seen |-> {}]>>
    /\ frames' = << >>
    /\ poisoned' = NoPoison
    /\ home' \in {home, Empty}
    /\ UNCHANGED <<truth, owed, desired, applied, lease, status, poll, reports, budget, claimed>>

\* How many of the kept frames the cursor of copy c covers: those come first.
cursor(c) == Cardinality({i \in DOMAIN outbound : c \in outbound[i].seen})

\* What the supervisor writes to a socket to copy c: a copy applies a frame
\* once, and its cursor, which the hand-off tells, covers what it has seen.
unseen(c) == SubSeq(outbound, cursor(c) + 1, Len(outbound))

\* What is said is kept until it is acked, but for the ready of a boot, which
\* goes out before the session and is not numbered.
numbered(said) == IF said # << >> /\ Head(said).report = Ready THEN Tail(said) ELSE said

\* The supervisor dials in at some copy and says what that copy lacks.
Connect(c) ==
    LET said == unseen(c)
        kept == numbered(said)
    IN  /\ up /\ socket = NoCopy
        /\ socket' = c
        /\ holder' = c /\ open' = TRUE
        /\ reports' = [reports EXCEPT ![c] = @ \o [i \in 1..Len(said) |-> said[i].report]]
        /\ outbound' = [i \in 1..Len(kept) |-> [kept[i] EXCEPT !.seen = @ \cup {c}]]
        /\ UNCHANGED <<truth, owed, desired, applied, lease, status, poll, up, frames,
                       poisoned, home, budget, claimed, starting>>

\* The ack of a frame arrives: it will not be said again.
acknowledge ==
    /\ outbound # << >> /\ socket \in Head(outbound).seen
    /\ outbound' = Tail(outbound)
    /\ UNCHANGED <<truth, owed, db, poll, reports, up, socket, frames, poisoned, home,
                   budget, claimed, starting>>

\* The socket drops: of the frames on it, the later ones are lost.
Disconnect ==
    /\ socket # NoCopy
    /\ Spend("drops", MaxDrops)
    /\ socket' = NoCopy
    /\ \E n \in 0..Len(frames) : frames' = SubSeq(frames, 1, n)
    /\ UNCHANGED <<truth, owed, db, poll, reports, up, outbound, poisoned, home, claimed, starting>>

\* The copy reports that the socket it recorded has closed, sooner or later
\* or never; once another one is recorded it says nothing new.
releaseChannel ==
    /\ open /\ socket = NoCopy
    /\ open' = FALSE
    /\ UNCHANGED <<truth, owed, desired, applied, lease, status, holder, poll, reports,
                   supervisor, budget, claimed, starting>>

ContainerDies ==
    /\ up
    /\ up' = FALSE /\ socket' = NoCopy
    /\ outbound' = << >> /\ frames' = << >>
    /\ UNCHANGED <<truth, owed, db, poll, reports, poisoned, home, budget, claimed, starting>>

\* Mutated form: parts are numbered from zero.
partsOf_fromZero(sync) ==
    [p \in 1..Parts |-> [gen |-> sync.gen, content |-> sync.content, part |-> p - 1]]

partsOf(sync) ==
    [p \in 1..Parts |-> [gen |-> sync.gen, content |-> sync.content, part |-> p]]

\* syncHome: the parts go down this copy's socket in order, or nowhere.
SyncHome ==
    /\ poll.content # 0
    /\ poll' = NoSync
    /\ frames' = IF socket = poll.copy
                 THEN frames \o partsOf(poll)
                 ELSE frames
    /\ UNCHANGED <<truth, owed, db, reports, up, socket, outbound, poisoned, home,
                   budget, claimed, starting>>

\* Mutated form: a failed part does not hold the rest of its generation back.
skips_never(frame) == FALSE

\* The rest of a generation that failed is skipped.
skips(frame) == poisoned = frame.gen

\* The last part is acknowledged, to the copy the socket is open to, if any.
sendAck(frame) ==
    IF frame.part < Parts
    THEN UNCHANGED <<reports, outbound>>
    ELSE /\ outbound' = Append(outbound, [report |-> frame.gen, seen |-> {socket} \cap Copy])
         /\ reports' = [c \in Copy |-> IF c = socket THEN Append(reports[c], frame.gen)
                                                     ELSE reports[c]]

\* applyHomeSync for the next part of the sync queue.
ApplyPart ==
    LET frame == Head(frames)
    IN  /\ frames # << >>
        /\ ~skips(frame)
        /\ frames' = Tail(frames)
        /\ home' = [home EXCEPT ![frame.part] = frame.content]
        /\ sendAck(frame)
        /\ UNCHANGED <<truth, owed, db, poll, up, socket, poisoned, budget, claimed, starting>>

SkipPart ==
    /\ frames # << >>
    /\ skips(Head(frames))
    /\ frames' = Tail(frames)
    /\ UNCHANGED <<truth, owed, db, poll, reports, up, socket, outbound, poisoned, home,
                   budget, claimed, starting>>

\* applyHomeSync throws: no acknowledgement for this generation.
PartFails ==
    /\ frames # << >>
    /\ ~skips(Head(frames))
    /\ Spend("failures", MaxFailures)
    /\ frames' = Tail(frames)
    /\ poisoned' = Head(frames).gen
    /\ UNCHANGED <<truth, owed, db, poll, reports, up, socket, outbound, home, claimed, starting>>

(***************************************************************************)
(* The specification                                                       *)
(***************************************************************************)
Next ==
    \/ Write \/ bumpHomeForAgent
    \/ ClaimStart \/ SandboxDown
    \/ ClaimSync \/ ComposeSync \/ PollLost
    \/ \E c \in Copy : PostReport(c) \/ ReportLost(c) \/ Connect(c)
    \/ StartContainer \/ acknowledge \/ Disconnect \/ releaseChannel \/ ContainerDies
    \/ SyncHome \/ ApplyPart \/ SkipPart \/ PartFails

Spec == Init /\ [][Next]_vars

\* The poll loop, the report chains, the supervisor's reconnect and its sync
\* queue keep going; a service that wrote bumps.  No failure is fair.
Fairness ==
    /\ WF_vars(bumpHomeForAgent)
    /\ WF_vars(ClaimSync) /\ WF_vars(ComposeSync) /\ WF_vars(SyncHome)
    /\ \A c \in Copy : WF_vars(PostReport(c))
    /\ WF_vars(\E c \in Copy : Connect(c))
    /\ WF_vars(ApplyPart) /\ WF_vars(SkipPart)

FairSpec == Spec /\ Fairness

(***************************************************************************)
(* Properties                                                              *)
(***************************************************************************)
\* A running sandbox whose applied generation has caught up, with no bump to
\* come, works on a home that shows the current projection whole: within its
\* first boot no dropped socket, failed part, lost poll or replayed acknowledgement
\* marks a home synced "that was never materialized" (applyRunnerEvent).
AppliedIsMaterialized ==
    status = "running" /\ applied = desired /\ owed = 0 /\ budget["boots"] = 1 =>
        \A p \in 1..Parts : home[p] = truth

\* "Every real ack answers a claim that stamped the lease": a boot starts
\* with nothing applied, and what a container of an earlier boot said about
\* its home does not count before this boot claimed a sync of its own.
AckAnswersAClaim == applied > 0 => claimed

\* A sync that is lost anywhere is pushed again, so a sandbox that stays up
\* and connected ends with everything applied ("a claim lost anywhere
\* (runner death, dropped frame, ...) re-arms after the window",
\* HOME_SYNC_RETRY_SECONDS), unless the generation it should reach is one
\* whose part failed: that one waits for the next bump.
HomeConverges ==
    <>[](status = "running" /\ up /\ holder # NoCopy /\ poisoned # desired) => <>[](applied = desired)

=============================================================================
