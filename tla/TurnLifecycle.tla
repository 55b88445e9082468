---------------------------- MODULE TurnLifecycle ----------------------------
(***************************************************************************)
(* What the conversation plane promises about every message, whatever the  *)
(* order in which clients, polls, reports, sandbox deaths and crashes      *)
(* reach the control plane:                                                *)
(*                                                                         *)
(*   none -> queued -> dispatched -> running -> done | failed | aborted    *)
(*   none -> joining -> joined | aborted | failed                          *)
(*           joining -> queued              (promoted: its own turn)       *)
(*           dispatched, running -> queued  (recovered, once in its life)  *)
(*                                                                         *)
(* One transaction may move several messages.  At most one message of a    *)
(* conversation is active, a message stays in its conversation, an outcome *)
(* is final, and "joined" needs a hand-over to the run it joined.          *)
(***************************************************************************)
CONSTANTS Turn, Conversation

VARIABLES
    phase,      \* the status of each message
    home,       \* the conversation it was sent to
    recovered,  \* whether its one recovery is spent
    steered     \* whether it was handed to a live run as a follow-up

vars == <<phase, home, recovered, steered>>

InFlight == {"dispatched", "running"}
Active   == {"queued"} \cup InFlight
Outcome  == {"done", "failed", "aborted", "joined"}

Init ==
    /\ phase = [t \in Turn |-> "none"]
    /\ home \in [Turn -> {0}]
    /\ recovered = [t \in Turn |-> FALSE]
    /\ steered = [t \in Turn |-> FALSE]

Becomes(t, from, to) == phase[t] \in from /\ phase'[t] = to

Sent(t) == Becomes(t, {"none"}, "queued") \/ Becomes(t, {"none"}, "joining")
Promoted(t) == Becomes(t, {"joining"}, "queued")
HandedOver(t) == Becomes(t, {"queued"}, "dispatched")
Begun(t) == Becomes(t, {"dispatched"}, "running")
Recovered(t) == Becomes(t, InFlight, "queued") /\ ~recovered[t] /\ recovered'[t]
Closed(t) ==
    \/ Becomes(t, Active, "done")
    \/ Becomes(t, Active \cup {"joining"}, "failed")
    \/ Becomes(t, Active \cup {"joining"}, "aborted")
    \/ Becomes(t, {"joining"}, "joined") /\ steered[t]

Lifecycle(t) ==
    /\ \/ phase'[t] = phase[t]
       \/ Sent(t) \/ Promoted(t) \/ HandedOver(t) \/ Begun(t) \/ Recovered(t) \/ Closed(t)
    /\ home'[t] # home[t] => Sent(t) /\ home'[t] \in Conversation
    /\ recovered'[t] # recovered[t] => Recovered(t)
    /\ steered'[t] # steered[t] => steered'[t] /\ phase[t] = "joining" /\ phase'[t] = "joining"

OneActive ==
    \A t, u \in Turn :
        phase[t] \in Active /\ phase[u] \in Active /\ home[t] = home[u] => t = u

Next == (\A t \in Turn : Lifecycle(t)) /\ OneActive'

Spec == Init /\ [][Next]_vars
=============================================================================
