--------------------------- MODULE MCRunnerFleet ---------------------------
(* RunnerFleet for TLC: a few scenes, each with the faults it is about.    *)
EXTENDS RunnerFleet, TLC

Calm == [b \in Budget |-> 0]

\* A copy falls silent with a start in hand and comes back, or shuts down.
Overtaken == [Calm EXCEPT !["starts"] = 3, !["lapses"] = 1]
Leaving == [Calm EXCEPT !["starts"] = 2, !["retires"] = 1]

\* A start is overtaken and the backend fails.
Failures == [Calm EXCEPT !["starts"] = 2, !["lapses"] = 1, !["failures"] = 1]

\* Sockets break and the control plane cannot be asked, from the first
\* connect on and on a sandbox that runs.
FirstConnect == [Calm EXCEPT !["starts"] = 1, !["sockets"] = 1, !["drops"] = 1, !["losses"] = 1]
Channel == [Calm EXCEPT !["warm"] = 1, !["sockets"] = 2, !["drops"] = 1, !["losses"] = 1]

\* Containers exit, and copies with them.
BootCrash == [Calm EXCEPT !["starts"] = 2, !["deaths"] = 1]
Deaths == [Calm EXCEPT !["warm"] = 1, !["starts"] = 1, !["sockets"] = 1, !["deaths"] = 1,
                       !["crashes"] = 1]
Unheard == [Calm EXCEPT !["warm"] = 1, !["sockets"] = 1, !["deaths"] = 1, !["drops"] = 1,
                        !["losses"] = 1]

\* A container outlives the copy that held its channel.
Strays == [Calm EXCEPT !["warm"] = 1, !["crashes"] = 1, !["losses"] = 1]

\* A container is replaced while its supervisor dials.
Replaced == [Calm EXCEPT !["warm"] = 1, !["starts"] = 1, !["sockets"] = 2, !["respawns"] = 1,
                         !["drops"] = 1]

\* New settings while a start is under way.
Respawned == [Calm EXCEPT !["starts"] = 2, !["respawns"] = 1]

\* A second run, with a report lost.
Unrecorded == [Calm EXCEPT !["warm"] = 1, !["starts"] = 1, !["sockets"] = 1, !["respawns"] = 1,
                           !["losses"] = 1]

Torn == [Calm EXCEPT !["starts"] = 1, !["respawns"] = 1, !["losses"] = 1]
Refused == [Calm EXCEPT !["warm"] = 1, !["stops"] = 1, !["losses"] = 1, !["refusals"] = 1]

\* Stops of a sandbox that runs, a copy that shuts down, a backend that fails.
Rolls == [Calm EXCEPT !["warm"] = 1, !["starts"] = 1, !["sockets"] = 1, !["retires"] = 1,
                      !["stops"] = 1]
Parked == [Calm EXCEPT !["warm"] = 1, !["starts"] = 1, !["sockets"] = 1, !["stops"] = 1,
                       !["drops"] = 1]
Stops == [Calm EXCEPT !["warm"] = 1, !["starts"] = 1, !["stops"] = 1, !["failures"] = 1]

MCScenes == {Overtaken, Leaving, Failures, FirstConnect, Channel, BootCrash, Deaths, Unheard,
             Strays, Replaced, Respawned, Unrecorded, Torn, Refused, Rolls,
             Parked, Stops}
=============================================================================
