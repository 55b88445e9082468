---------------------------- MODULE ApprovalHold ----------------------------
(***************************************************************************)
(* Manual approval in the gateway: a request that a policy rule holds, the *)
(* store that makes its card visible, the reviewers who decide, the poll   *)
(* that shows cards, and the "approve similar" window that lets later      *)
(* requests through.  The store has two backends: maps of one process, and *)
(* Redis shared by several.                                                *)
(*                                                                         *)
(* An operation of the store is a script: the commands it issues, one per  *)
(* step, so that every other actor fits between two of them.               *)
(***************************************************************************)
EXTENDS Naturals, Sequences, FiniteSets

CONSTANTS
    Request,        \* requests a manual_approval rule matches; also their approvals
    Decider,        \* decisions that reviewers submit
    Decisions,      \* what reviewers answer in this instance
    Scenes,         \* bounds of the model: the deployments an instance considers
    SIMILAR_WINDOW_MAX_REQUESTS,
    NoRequest

ASSUME ApprovalAssumption ==
    /\ Decisions \subseteq {"approve", "similar", "deny", "supersede"}
    /\ Scenes \subseteq [backend : {"memory", "redis"}, requests : SUBSET Request,
                          asks : SUBSET (Decider \X Request \X Decisions),
                          polls : BOOLEAN, leaves : BOOLEAN, errors : Nat]
    /\ SIMILAR_WINDOW_MAX_REQUESTS \in Nat
    /\ NoRequest \notin Request

VARIABLES
    scene,      \* the store that wiring chose, who uses it, how many commands fail
    phase,      \* of the request: new, claiming, storing, opening, waiting, served, ended
    verdict,    \* how it ended
    via,        \* the approval whose window it read
    card,       \* approvals with an entry (pending map, or the SETEX key)
    index,      \* Redis: <<scope, approval>> in the sets that polls read
    sender,     \* memory: where the watch sender is: absent, map, taken
    mail,       \* decisions sent and not received
    expired,    \* approvals whose expires_at has passed
    script,     \* what each actor has still to issue
    desk,       \* of each decision: the request, the answer, the state
    poll,       \* the long poll of one client
    window,     \* the approval that opened the window, or NoRequest
    uses,       \* its counter
    errors,
    inTime,     \* history: the decision sent while the request was held
    loose       \* history: approvals a failed or cut-short command touched

storeVars == <<card, index, sender, mail>>
holdVars == <<phase, verdict, via>>
windowVars == <<window, uses>>
history == <<inTime, loose>>
vars == <<scene, holdVars, storeVars, expired, script, desk, poll,
          windowVars, errors, history>>

backend == scene.backend
Scope == {"workspace", "org"}
Actor == {"hold", "guard", "janitor"} \X Request \cup {"desk"} \X Decider

Verdict == {"none", "approved", "declined", "superseded", "expired", "unavailable",
            "failed", "shutdown", "cancelled", "similar"}
Command == [op : {"setCard", "addIndex", "publish", "dropIndex", "dropCard",
                  "dropMail", "dropSender", "takeSender", "send", "push"},
            on : Request, with : Scope \cup Decisions \cup {"-"}]

cmd(op, r, x) == [op |-> op, on |-> r, with |-> x]

-----------------------------------------------------------------------------
(* The scripts of the store's operations.                                  *)

\* ApprovalStore::store.  The EXPIRE of a set only bounds how long it stays.
store(r) ==
    IF backend = "memory"
    THEN <<cmd("setCard", r, "-"), cmd("publish", r, "workspace"), cmd("publish", r, "org")>>
    ELSE <<cmd("setCard", r, "-"),
           cmd("addIndex", r, "workspace"), cmd("publish", r, "workspace"),
           cmd("addIndex", r, "org"), cmd("publish", r, "org")>>

\* ApprovalStore::remove.
remove(r) ==
    IF backend = "memory"
    THEN <<cmd("dropCard", r, "-"), cmd("dropSender", r, "-")>>
    ELSE <<cmd("dropIndex", r, "workspace"), cmd("dropIndex", r, "org"),
           cmd("dropCard", r, "-"), cmd("dropMail", r, "-")>>

\* ApprovalStore::submit_outcome: the in-memory store takes the sender out of
\* its map before it sends, Redis pushes and removes.
submit_outcome(r, d) ==
    IF backend = "memory"
    THEN <<cmd("takeSender", r, d)>>
    ELSE <<cmd("push", r, d)>> \o remove(r)

\* cleanup_expired, for one approval.
cleanup_expired(r) == <<cmd("dropSender", r, "-"), cmd("dropCard", r, "-")>>

\* What a card offers a reviewer: get_pending and the lists check expires_at.
isLive(r) == r \in card /\ r \notin expired

\* The rows of list_pending and list_pending_for_org.
listed(ids) == {r \in Request : isLive(r) /\ (backend = "memory" \/ r \in ids)}

-----------------------------------------------------------------------------
Init ==
    /\ scene \in Scenes
    /\ phase = [r \in Request |-> "new"]
    /\ verdict = [r \in Request |-> "none"]
    /\ via = [r \in Request |-> NoRequest]
    /\ card = {}
    /\ index = {}
    /\ sender = [r \in Request |-> "absent"]
    /\ mail = [r \in Request |-> <<>>]
    /\ expired = {}
    /\ script = [a \in Actor |-> <<>>]
    /\ desk = [d \in Decider |-> [on |-> NoRequest, decision |-> "-", state |-> "idle"]]
    /\ poll = [at |-> "idle", scope |-> "workspace", read |-> FALSE, ids |-> {}, note |-> FALSE]
    /\ window = NoRequest
    /\ uses = [r \in Request |-> 0]
    /\ errors = 0
    /\ inTime = [r \in Request |-> "-"]
    /\ loose = {}

-----------------------------------------------------------------------------
(* A held request.                                                         *)

\* prepare_wait and the guard, which come before anything is visible.
prepare_wait(r) ==
    sender' = IF backend = "memory" THEN [sender EXCEPT ![r] = "map"] ELSE sender

\* hold, up to its call of store.
BeginHold(r) ==
    /\ prepare_wait(r)
    /\ phase' = [phase EXCEPT ![r] = "storing"]
    /\ script' = [script EXCEPT ![<<"hold", r>>] = store(r)]

\* The gateway matched the rule and reads the window of the request's scope;
\* without one the request is held.
Arrive(r) ==
    /\ phase[r] = "new" /\ r \in scene.requests
    /\ \/ /\ window # NoRequest
          /\ phase' = [phase EXCEPT ![r] = "claiming"]
          /\ via' = [via EXCEPT ![r] = window]
          /\ UNCHANGED <<sender, script>>
       \/ /\ window = NoRequest
          /\ BeginHold(r)
          /\ UNCHANGED via
    /\ UNCHANGED <<scene, verdict, card, index, mail, expired, desk, poll,
                   windowVars, errors, history>>

\* Mutated form: compares the value from before the increment.
fitsWindow_before(used) == used - 1 <= SIMILAR_WINDOW_MAX_REQUESTS

\* Whether the counter's new value lets a request through.
fitsWindow(used) == used <= SIMILAR_WINDOW_MAX_REQUESTS

\* claim, after its read: the increment decides.
Claim(r) ==
    /\ phase[r] = "claiming"
    /\ uses' = [uses EXCEPT ![via[r]] = @ + 1]
    /\ \/ /\ fitsWindow(uses[via[r]] + 1)
          /\ phase' = [phase EXCEPT ![r] = "ended"]
          /\ verdict' = [verdict EXCEPT ![r] = "similar"]
          /\ UNCHANGED <<sender, script>>
       \/ /\ ~fitsWindow(uses[via[r]] + 1)
          /\ BeginHold(r)
          /\ UNCHANGED verdict
    /\ UNCHANGED <<scene, via, card, index, mail, expired, desk, poll, window,
                   errors, history>>

\* store returned: on_stored, then the wait begins.  The Redis waiter first
\* opens a connection of its own; the in-memory one is already listening.
BeginWait(r) ==
    /\ phase[r] = "storing" /\ script[<<"hold", r>>] = <<>>
    /\ phase' = [phase EXCEPT ![r] = IF backend = "memory" THEN "waiting" ELSE "opening"]
    /\ UNCHANGED <<scene, verdict, via, storeVars, expired, script, desk, poll,
                   windowVars, errors, history>>

\* The end of the wait: defuse the guard, remove, and answer the agent.
endHold(r, v) ==
    /\ phase' = [phase EXCEPT ![r] = "ended"]
    /\ verdict' = [verdict EXCEPT ![r] = v]
    /\ script' = [script EXCEPT ![<<"hold", r>>] = remove(r)]

\* Mutated form: the decision is handed on as it was sent.
verdictOf_raw(d) == d

\* How hold maps an outcome; "similar" is an approval with a wider scope.
verdictOf(d) ==
    CASE d \in {"approve", "similar"} -> "approved"
      [] d = "deny" -> "declined"
      [] d = "supersede" -> "superseded"

\* wait_redis: BLPOP on the fresh connection is served what is there, or blocks.
Blpop(r) ==
    /\ phase[r] = "opening"
    /\ \/ /\ mail[r] # <<>>
          /\ mail' = [mail EXCEPT ![r] = Tail(@)]
          /\ phase' = [phase EXCEPT ![r] = "served"]
          /\ verdict' = [verdict EXCEPT ![r] = verdictOf(Head(mail[r]))]
       \/ /\ mail[r] = <<>>
          /\ phase' = [phase EXCEPT ![r] = "waiting"]
          /\ UNCHANGED <<mail, verdict>>
    /\ UNCHANGED <<scene, via, card, index, sender, expired, script, desk, poll,
                   windowVars, errors, history>>

\* The wait resolves: wait_in_memory finds the value of its watch channel, or
\* the reply of BLPOP arrives.
Receive(r) ==
    /\ \/ phase[r] = "served" /\ endHold(r, verdict[r])
       \/ /\ backend = "memory" /\ phase[r] = "waiting" /\ mail[r] # <<>>
          /\ endHold(r, verdictOf(Head(mail[r])))
    /\ UNCHANGED <<scene, via, storeVars, expired, desk, poll, windowVars, errors, history>>

\* Whether the wait gives up: its window, which ends with or after the card's,
\* or a sender that the cleanup dropped.
givesUp(r) == r \in expired \/ (backend = "memory" /\ sender[r] = "absent")

\* Mutated form: the deadline is looked at before the channel.
undecided_deadlineFirst(r) == TRUE

\* Nothing was sent; the timeout polls the channel before its deadline.
undecided(r) == mail[r] = <<>>

\* Nobody decided: a rejection of its own, "expired".
TimeOut(r) ==
    /\ phase[r] = "waiting" /\ undecided(r) /\ givesUp(r)
    /\ endHold(r, "expired")
    /\ UNCHANGED <<scene, via, storeVars, expired, desk, poll, windowVars, errors, history>>

\* The shutdown signal wins the select.
Shutdown(r) ==
    /\ scene.leaves
    /\ phase[r] \in {"opening", "waiting", "served"}
    /\ endHold(r, "shutdown")
    /\ UNCHANGED <<scene, via, storeVars, expired, desk, poll, windowVars, errors, history>>

\* The connection for BLPOP fails, or breaks: nothing was approved.
WaitFails(r) ==
    /\ backend = "redis" /\ errors < scene.errors
    /\ phase[r] \in {"opening", "waiting", "served"}
    /\ errors' = errors + 1
    /\ endHold(r, "failed")
    /\ UNCHANGED <<scene, via, storeVars, expired, desk, poll, windowVars, history>>

\* Mutated form: the guard is armed once the approval is stored.
guarded_late == {"opening", "waiting", "served"}

\* The phases in which dropping the future runs the guard.
guarded == {"storing", "opening", "waiting", "served"}

\* The agent disconnects and the future is dropped where it awaits: the
\* in-memory store never suspends, so there only in the wait itself.  After
\* defuse nobody finishes a removal that the drop cut short.
Cancel(r) ==
    /\ scene.leaves
    /\ \/ phase[r] = "waiting"
       \/ backend = "redis" /\ phase[r] \in {"storing", "opening", "served"}
       \/ backend = "redis" /\ phase[r] = "ended" /\ script[<<"hold", r>>] # <<>>
    /\ phase' = [phase EXCEPT ![r] = "ended"]
    /\ verdict' = [verdict EXCEPT ![r] = "cancelled"]
    /\ script' = [script EXCEPT ![<<"hold", r>>] = <<>>,
                                ![<<"guard", r>>] = IF phase[r] \in guarded THEN remove(r) ELSE @]
    /\ loose' = IF phase[r] = "ended" THEN loose \cup {r} ELSE loose
    /\ UNCHANGED <<scene, via, storeVars, expired, desk, poll, windowVars, errors, inTime>>

\* expires_at, set before the hold began, passes.
Expire(r) ==
    /\ phase[r] \notin {"new", "claiming"} /\ r \notin expired
    /\ verdict[r] # "similar"
    /\ expired' = expired \cup {r}
    /\ UNCHANGED <<scene, holdVars, storeVars, script, desk, poll, windowVars, errors, history>>

\* The background task of the in-memory store finds an expired approval.
Cleanup(r) ==
    /\ backend = "memory"
    /\ r \in card \cap expired
    /\ script[<<"janitor", r>>] = <<>>
    /\ script' = [script EXCEPT ![<<"janitor", r>>] = cleanup_expired(r)]
    /\ UNCHANGED <<scene, holdVars, storeVars, expired, desk, poll, windowVars, errors, history>>

-----------------------------------------------------------------------------
(* The commands.  issue(a) takes the command off the actor's script.       *)

next(a) == Head(script[a])
issues(a, op) == script[a] # <<>> /\ next(a).op = op
issue(a) == script' = [script EXCEPT ![a] = Tail(@)]

SetCard(a) ==
    /\ issues(a, "setCard") /\ issue(a)
    /\ card' = card \cup {next(a).on}
    /\ UNCHANGED <<scene, holdVars, index, sender, mail, expired, desk, poll,
                   windowVars, errors, history>>

AddIndex(a) ==
    /\ issues(a, "addIndex") /\ issue(a)
    /\ index' = index \cup {<<next(a).with, next(a).on>>}
    /\ UNCHANGED <<scene, holdVars, card, sender, mail, expired, desk, poll,
                   windowVars, errors, history>>

\* Whoever is subscribed to the channel keeps the notification until it waits.
Publish(a) ==
    /\ issues(a, "publish") /\ issue(a)
    /\ poll' = [poll EXCEPT !.note = @ \/ (poll.at \in {"list2", "wait"}
                                            /\ poll.scope = next(a).with)]
    /\ UNCHANGED <<scene, holdVars, storeVars, expired, desk, windowVars, errors, history>>

DropIndex(a) ==
    /\ issues(a, "dropIndex") /\ issue(a)
    /\ index' = index \ {<<next(a).with, next(a).on>>}
    /\ UNCHANGED <<scene, holdVars, card, sender, mail, expired, desk, poll,
                   windowVars, errors, history>>

DropCard(a) ==
    /\ issues(a, "dropCard") /\ issue(a)
    /\ card' = card \ {next(a).on}
    /\ UNCHANGED <<scene, holdVars, index, sender, mail, expired, desk, poll,
                   windowVars, errors, history>>

DropMail(a) ==
    /\ issues(a, "dropMail") /\ issue(a)
    /\ mail' = [mail EXCEPT ![next(a).on] = <<>>]
    /\ UNCHANGED <<scene, holdVars, card, index, sender, expired, desk, poll,
                   windowVars, errors, history>>

\* decisions.remove: a sender that a decision took is no longer in the map.
DropSender(a) ==
    /\ issues(a, "dropSender") /\ issue(a)
    /\ sender' = [sender EXCEPT ![next(a).on] = IF @ = "map" THEN "absent" ELSE @]
    /\ UNCHANGED <<scene, holdVars, card, index, mail, expired, desk, poll,
                   windowVars, errors, history>>

\* Mutated form: the sender is read, not removed.
afterTake_get == "map"

\* Where the map's entry is after a decision looked it up.
afterTake == "taken"

TakeSender(a) ==
    /\ issues(a, "takeSender")
    /\ LET r == next(a).on IN
       \/ /\ sender[r] = "map"
          /\ sender' = [sender EXCEPT ![r] = afterTake]
          /\ script' = [script EXCEPT ![a] = <<cmd("send", r, next(a).with),
                                               cmd("dropCard", r, "-")>>]
          /\ UNCHANGED desk
       \/ /\ sender[r] # "map"
          /\ issue(a)
          /\ desk' = [desk EXCEPT ![a[2]].state = "refused"]
          /\ UNCHANGED sender
    /\ UNCHANGED <<scene, holdVars, card, index, mail, expired, poll, windowVars,
                   errors, history>>

\* The decision leaves the reviewer's side; the reviewer will hear "success".
deliver(a) ==
    /\ desk' = [desk EXCEPT ![a[2]].state = "delivered"]
    /\ inTime' = [inTime EXCEPT ![next(a).on] =
                     IF phase[next(a).on] # "ended" /\ @ = "-" THEN next(a).with ELSE @]

\* tx.send: the watch channel keeps the last value for its receiver.
Send(a) ==
    /\ issues(a, "send") /\ issue(a)
    /\ mail' = [mail EXCEPT ![next(a).on] = <<next(a).with>>]
    /\ sender' = [sender EXCEPT ![next(a).on] = IF @ = "taken" THEN "absent" ELSE @]
    /\ deliver(a)
    /\ UNCHANGED <<scene, holdVars, card, index, expired, poll, windowVars, errors, loose>>

\* LPUSH: a blocked BLPOP takes the value before any other command runs, so
\* the list is never seen with it; otherwise it becomes the list's head.
lpush(r, d) ==
    \/ /\ phase[r] = "waiting"
       /\ phase' = [phase EXCEPT ![r] = "served"]
       /\ verdict' = [verdict EXCEPT ![r] = verdictOf(d)]
       /\ UNCHANGED mail
    \/ /\ phase[r] # "waiting"
       /\ mail' = [mail EXCEPT ![r] = <<d>> \o @]
       /\ UNCHANGED <<phase, verdict>>

Push(a) ==
    /\ issues(a, "push") /\ issue(a)
    /\ lpush(next(a).on, next(a).with)
    /\ deliver(a)
    /\ UNCHANGED <<scene, via, card, index, sender, expired, poll, windowVars, errors, loose>>

\* A Redis command fails.  SETEX and LPUSH stop their operation, and may have
\* been applied all the same; the errors of the others are dropped.
CommandFails(a) ==
    /\ backend = "redis" /\ errors < scene.errors /\ script[a] # <<>>
    /\ errors' = errors + 1
    /\ loose' = loose \cup {next(a).on}
    /\ LET r == next(a).on IN
       \/ /\ next(a).op = "setCard"
          /\ \E applied \in BOOLEAN : card' = IF applied THEN card \cup {r} ELSE card
          /\ endHold(r, "unavailable")
          /\ UNCHANGED <<mail, desk>>
       \/ /\ next(a).op = "push"
          /\ lpush(r, next(a).with) \/ UNCHANGED <<phase, verdict, mail>>
          /\ script' = [script EXCEPT ![a] = <<>>]
          /\ desk' = [desk EXCEPT ![a[2]].state = "refused"]
          /\ UNCHANGED card
       \/ /\ next(a).op \notin {"setCard", "push"}
          /\ issue(a)
          /\ UNCHANGED <<card, mail, desk, phase, verdict>>
    /\ UNCHANGED <<scene, via, index, sender, expired, poll, windowVars, inTime>>

-----------------------------------------------------------------------------
(* Reviewers, and the window an "approve similar" opens.                   *)

\* submit_approval_decision: look the approval up; get_pending of the
\* in-memory store drops an expired entry it meets.
Decide(d, r, decision) ==
    /\ desk[d].state = "idle" /\ <<d, r, decision>> \in scene.asks
    /\ phase[r] \notin {"new", "claiming"}
    /\ \/ /\ isLive(r)
          /\ desk' = [desk EXCEPT ![d] = [on |-> r, decision |-> decision, state |-> "found"]]
          /\ script' = [script EXCEPT ![<<"desk", d>>] = submit_outcome(r, decision)]
          /\ UNCHANGED card
       \/ /\ ~isLive(r)
          /\ desk' = [desk EXCEPT ![d] = [on |-> r, decision |-> decision, state |-> "refused"]]
          /\ card' = IF backend = "memory" THEN card \ {r} ELSE card
          /\ UNCHANGED script
    /\ UNCHANGED <<scene, holdVars, index, sender, mail, expired, poll, windowVars,
                   errors, history>>

\* submit_outcome returned true: the window opens, or replaces an open one.
OpenWindow(d) ==
    /\ desk[d].state = "delivered" /\ script[<<"desk", d>>] = <<>>
    /\ desk[d].decision = "similar"
    /\ window' = desk[d].on
    /\ desk' = [desk EXCEPT ![d].state = "opened"]
    /\ UNCHANGED <<scene, holdVars, storeVars, expired, script, poll, uses, errors, history>>

\* SIMILAR_WINDOW_SECS pass.
CloseWindow ==
    /\ window # NoRequest
    /\ window' = NoRequest
    /\ UNCHANGED <<scene, holdVars, storeVars, expired, script, desk, poll, uses, errors, history>>

-----------------------------------------------------------------------------
(* The long poll: get_pending_approvals and its twin for an organization.  *)

PollStart(s) ==
    /\ poll.at = "idle" /\ scene.polls
    /\ poll' = [poll EXCEPT !.at = "list1", !.scope = s]
    /\ UNCHANGED <<scene, holdVars, storeVars, expired, script, desk, windowVars, errors, history>>

Listing == {"list1", "list2", "list3"}

\* SMEMBERS, the first half of a list of the Redis store.
PollIds ==
    /\ backend = "redis" /\ poll.at \in Listing /\ ~poll.read
    /\ poll' = [poll EXCEPT !.read = TRUE,
                            !.ids = {r \in Request : <<poll.scope, r>> \in index}]
    /\ UNCHANGED <<scene, holdVars, storeVars, expired, script, desk, windowVars, errors, history>>

\* What follows a list that came back empty.
afterEmpty(at) ==
    CASE at = "list1" -> "subscribe"
      [] at = "list2" -> "wait"
      [] at = "list3" -> "idle"

\* MGET, or the iteration over the in-memory map: rows are answered at once.
PollRows ==
    /\ poll.at \in Listing /\ (backend = "memory" \/ poll.read)
    /\ poll' = [poll EXCEPT !.at = IF listed(poll.ids) = {} THEN afterEmpty(@) ELSE "idle",
                            !.read = FALSE, !.ids = {}]
    /\ UNCHANGED <<scene, holdVars, storeVars, expired, script, desk, windowVars, errors, history>>

\* Mutated form: subscribes after the list that came back empty.
subscribed_lastly == "wait"

\* Where a poll goes from its subscription: to the list that decides.
subscribed == "list2"

PollSubscribe ==
    /\ poll.at = "subscribe"
    /\ poll' = [poll EXCEPT !.at = subscribed, !.note = FALSE]
    /\ UNCHANGED <<scene, holdVars, storeVars, expired, script, desk, windowVars, errors, history>>

\* The wait ends: notified (the burst is listed again), timed out or shut down.
PollWake ==
    /\ poll.at = "wait"
    /\ poll' = [poll EXCEPT !.at = IF poll.note THEN "list3" ELSE "idle"]
    /\ UNCHANGED <<scene, holdVars, storeVars, expired, script, desk, windowVars, errors, history>>

\* The cleanup task drops the notification channels: the keys it compares
\* with workspace ids never match, so every channel goes, and a receiver
\* whose channel closed wakes as if notified.
Prune ==
    /\ backend = "memory" /\ poll.at \in {"list2", "wait"} /\ ~poll.note
    /\ poll' = [poll EXCEPT !.note = TRUE]
    /\ UNCHANGED <<scene, holdVars, storeVars, expired, script, desk, windowVars, errors, history>>

-----------------------------------------------------------------------------
HoldStep(r) ==
    \/ Arrive(r) \/ Claim(r) \/ BeginWait(r) \/ Blpop(r) \/ Receive(r) \/ TimeOut(r)

CommandStep(a) ==
    \/ SetCard(a) \/ AddIndex(a) \/ Publish(a) \/ DropIndex(a) \/ DropCard(a)
    \/ DropMail(a) \/ DropSender(a) \/ TakeSender(a) \/ Send(a) \/ Push(a)

PollStep ==
    \/ \E s \in Scope : PollStart(s)
    \/ PollIds \/ PollRows \/ PollSubscribe \/ PollWake

Next ==
    \/ \E r \in Request :
          \/ HoldStep(r) \/ Shutdown(r) \/ WaitFails(r) \/ Cancel(r)
          \/ Expire(r) \/ Cleanup(r)
    \/ \E a \in Actor : CommandStep(a) \/ CommandFails(a)
    \/ \E d \in Decider : \/ \E r \in Request, decision \in Decisions : Decide(d, r, decision)
                          \/ OpenWindow(d)
    \/ CloseWindow
    \/ PollStep
    \/ Prune

Spec == Init /\ [][Next]_vars

-----------------------------------------------------------------------------
TypeOK ==
    /\ scene \in Scenes
    /\ phase \in [Request -> {"new", "claiming", "storing", "opening", "waiting",
                              "served", "ended"}]
    /\ verdict \in [Request -> Verdict]
    /\ via \in [Request -> Request \cup {NoRequest}]
    /\ card \subseteq Request
    /\ index \subseteq Scope \X Request
    /\ sender \in [Request -> {"absent", "map", "taken"}]
    /\ mail \in [Request -> Seq(Decisions)]
    /\ expired \subseteq Request
    /\ script \in [Actor -> Seq(Command)]
    /\ desk \in [Decider -> [on : Request \cup {NoRequest}, decision : Decisions \cup {"-"},
                             state : {"idle", "found", "refused", "delivered", "opened"}]]
    /\ poll \in [at : Listing \cup {"idle", "subscribe", "wait"}, scope : Scope,
                 read : BOOLEAN, ids : SUBSET Request, note : BOOLEAN]
    /\ window \in Request \cup {NoRequest}
    /\ uses \in [Request -> Nat]
    /\ errors \in 0..scene.errors
    /\ inTime \in [Request -> Decisions \cup {"-"}]
    /\ loose \subseteq Request

\* A decision that was sent while the request was held is what the request
\* ends with, unless the agent left, the gateway stopped or the store failed:
\* it is never answered as expired (the order of hold's four steps).
DecisionReaches ==
    \A r \in Request : phase[r] = "ended" /\ inTime[r] # "-" =>
        verdict[r] \in {verdictOf(inTime[r]), "cancelled", "shutdown", "failed"}

\* The same, for the in-memory store: the sender is open before the card is
\* visible.
MemoryDecisionReaches == backend = "memory" => DecisionReaches

\* In the in-memory store at most one reviewer of a request hears "success":
\* whoever took the sender out of the map.
OneDecisionWins ==
    backend = "memory" =>
        \A d, e \in Decider :
            /\ d # e /\ desk[d].on = desk[e].on
            /\ desk[d].state \in {"delivered", "opened"}
            => desk[e].state \notin {"delivered", "opened"}

\* Some actor has still to issue a command on the approval.
touched(r) == \E a \in Actor : \E i \in DOMAIN script[a] : script[a][i].on = r

\* A hold that is over, however it ended, leaves nothing in the store: no card
\* that could be approved into nothing, no waiter and no decision, unless a
\* command failed or the removal itself was cut short.
HoldLeavesNothing ==
    \A r \in Request :
        phase[r] = "ended" /\ ~touched(r) /\ r \notin loose =>
            /\ r \notin card
            /\ \A s \in Scope : <<s, r>> \notin index
            /\ sender[r] = "absent"
            /\ backend = "redis" => mail[r] = <<>>

\* A poll that sleeps while a held request's card could be shown has been
\* notified, or the notification is still to come.
NoLostWakeup ==
    poll.at = "wait" /\ ~poll.note =>
        \A r \in Request :
            /\ phase[r] # "ended" /\ r \notin loose /\ isLive(r)
            /\ backend = "redis" => <<poll.scope, r>> \in index
            => \E i \in DOMAIN script[<<"hold", r>>] :
                  script[<<"hold", r>>][i] = cmd("publish", r, poll.scope)

\* One "approve similar" lets at most SIMILAR_WINDOW_MAX_REQUESTS requests
\* through, and only a window that a delivered decision opened does.
WindowIsBounded ==
    \A q \in Request :
        LET through == {r \in Request : verdict[r] = "similar" /\ via[r] = q}
        IN  /\ Cardinality(through) <= SIMILAR_WINDOW_MAX_REQUESTS
            /\ through # {} => \E d \in Decider : desk[d].on = q /\ desk[d].state = "opened"
=============================================================================
