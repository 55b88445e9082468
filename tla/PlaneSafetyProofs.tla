------------------------- MODULE PlaneSafetyProofs -------------------------
(***************************************************************************)
(* More theorems about ConversationPlane: what a restart, a steer, a join  *)
(* and a sandbox death promise, and that the plane implements              *)
(* TurnLifecycle.  For every set of turns, conversations and handlers,     *)
(* every bound and, unless a theorem says otherwise, every choice of       *)
(* features.                                                               *)
(***************************************************************************)
EXTENDS ConversationPlaneProofs

-----------------------------------------------------------------------------
(***************************************************************************)
(* What one transaction does to a row, unless it inserts, promotes or      *)
(* claims it.  Unlike Moves this is not transitive: a transaction takes a  *)
(* row along one edge of the lifecycle.                                    *)
(***************************************************************************)
\* The row keeps its place in the lifecycle.
Stays(r, s) == s.status = r.status /\ s.retried = r.retried

\* A run begins, or the row gets its outcome.
Ends(r, s) ==
    /\ s.retried = r.retried
    /\ \/ r.status = "dispatched" /\ s.status = "running"
       \/ r.status \in Active /\ s.status \in {"done", "failed", "aborted"}
       \/ r.status = "joining" /\ s.status \in {"failed", "aborted"}
       \/ r.status = "joining" /\ s.status = "joined" /\ r.delivered

\* A death re-queues the row and spends its recovery.
Requeues(r, s) == r.status \in InFlight /\ s.status = "queued" /\ ~r.retried /\ s.retried

Settles(r, s) ==
    /\ s.conv = r.conv /\ s.followUpOf = r.followUpOf /\ s.delivered = r.delivered
    /\ Stays(r, s) \/ Ends(r, s) \/ Requeues(r, s)

TableSettles(tab, new) == \A t \in Turn : Settles(tab[t], new[t])

\* A row that is left alone.
LEMMA SettlesRefl == \A r : Settles(r, r)
  BY DEF Settles, Stays

\* close leads to an outcome the row's status allows.
LEMMA CloseSettles ==
    ASSUME NEW tab \in Table, NEW where, NEW from, NEW to,
           \/ from \subseteq Active /\ to \in {"done", "failed", "aborted"}
           \/ from \subseteq Active \cup {"joining"} /\ to \in {"failed", "aborted"}
    PROVE  TableSettles(tab, close(tab, where, from, to))
<1> SUFFICES ASSUME NEW t \in Turn
             PROVE  Settles(tab[t], close(tab, where, from, to)[t])
  BY DEF TableSettles
<1> DEFINE new == close(tab, where, from, to)[t]
<1>1. tab[t] \in Row
  BY DEF Table
<1>2. CASE t \in where /\ tab[t].status \in from
  <2>1. new = [tab[t] EXCEPT !.status = to]
    BY <1>2 DEF close
  <2>2. /\ new.status = to /\ new.retried = tab[t].retried /\ new.conv = tab[t].conv
        /\ new.followUpOf = tab[t].followUpOf /\ new.delivered = tab[t].delivered
    BY <1>1, <2>1 DEF Row
  <2> QED
    BY <1>2, <2>2 DEF Settles, Ends
<1>3. CASE ~(t \in where /\ tab[t].status \in from)
  BY <1>3, SettlesRefl DEF close
<1> QED
  BY <1>2, <1>3

\* A follow-up joins only when it was delivered.
JoinsOnly(tab, new) ==
    \A f \in Turn :
        \/ new[f] = tab[f]
        \/ /\ tab[f].status = "joining" /\ tab[f].delivered
           /\ new[f] = [tab[f] EXCEPT !.status = "joined"]

LEMMA SettleRows ==
    ASSUME NEW tab \in Table, NEW target, NEW followUps
    PROVE  JoinsOnly(tab, settleJoinedFollowUps(tab, target, followUps))
  BY DEF JoinsOnly, settleJoinedFollowUps, close

\* The row of a follow-up that joins.
LEMMA JoinSettles ==
    ASSUME NEW r \in Row, r.status = "joining", r.delivered
    PROVE  Settles(r, [r EXCEPT !.status = "joined"])
<1> DEFINE s == [r EXCEPT !.status = "joined"]
<1>1. /\ s.status = "joined" /\ s.retried = r.retried /\ s.conv = r.conv
      /\ s.followUpOf = r.followUpOf /\ s.delivered = r.delivered
  BY DEF Row
<1> QED
  BY <1>1 DEF Settles, Ends

LEMMA SettleSettles ==
    ASSUME NEW tab \in Table, NEW target, NEW followUps
    PROVE  TableSettles(tab, settleJoinedFollowUps(tab, target, followUps))
<1> SUFFICES ASSUME NEW f \in Turn
             PROVE  Settles(tab[f], settleJoinedFollowUps(tab, target, followUps)[f])
  BY DEF TableSettles
<1>1. tab[f] \in Row
  BY DEF Table
<1> DEFINE new == settleJoinedFollowUps(tab, target, followUps)
<1>2. JoinsOnly(tab, new)
  BY SettleRows
<1> HIDE DEF new
<1>3. Settles(tab[f], new[f])
  <2>1. CASE new[f] = tab[f]
    BY <2>1, SettlesRefl
  <2>2. CASE /\ tab[f].status = "joining" /\ tab[f].delivered
             /\ new[f] = [tab[f] EXCEPT !.status = "joined"]
    BY <1>1, <2>2, JoinSettles
  <2> QED
    BY <1>2, <2>1, <2>2 DEF JoinsOnly
<1> QED
  BY <1>3 DEF new

\* The two recoveries.
LEMMA RequeueSettles ==
    ASSUME NEW r \in Row, r.status \in InFlight, ~r.retried, NEW s \in Row,
           s.status = "queued", s.retried, s.conv = r.conv, s.followUpOf = r.followUpOf,
           s.delivered = r.delivered
    PROVE  Settles(r, s)
  BY DEF Settles, Requeues

LEMMA ReviveSettles ==
    ASSUME NEW tab \in Table, NEW where
    PROVE  TableSettles(tab, reviveColdTurns(tab, where))
<1> SUFFICES ASSUME NEW t \in Turn
             PROVE  Settles(tab[t], reviveColdTurns(tab, where)[t])
  BY DEF TableSettles
<1> DEFINE new == [tab[t] EXCEPT !.status = "queued", !.retried = TRUE]
<1>1. tab[t] \in Row
  BY DEF Table
<1>2. \/ reviveColdTurns(tab, where)[t] = tab[t]
      \/ /\ tab[t].status = "dispatched" /\ ~tab[t].retried
         /\ reviveColdTurns(tab, where)[t] = new
  BY DEF reviveColdTurns
<1>3. /\ new.status = "queued" /\ new.retried /\ new.conv = tab[t].conv
      /\ new.followUpOf = tab[t].followUpOf /\ new.delivered = tab[t].delivered
  BY <1>1 DEF Row
<1> HIDE DEF new
<1> QED
  BY <1>2, <1>3, SettlesRefl DEF Settles, Requeues, InFlight

LEMMA ResumeSettles ==
    ASSUME NEW tab \in Table, NEW where
    PROVE  TableSettles(tab, resumeInterruptedTurns(tab, where))
<1> SUFFICES ASSUME NEW t \in Turn
             PROVE  Settles(tab[t], resumeInterruptedTurns(tab, where)[t])
  BY DEF TableSettles
<1> DEFINE new == [tab[t] EXCEPT !.status = "queued", !.retried = TRUE,
                                 !.beat = FALSE, !.warned = FALSE]
<1>1. tab[t] \in Row
  BY DEF Table
<1>2. \/ resumeInterruptedTurns(tab, where)[t] = tab[t]
      \/ /\ tab[t].status \in InFlight /\ ~tab[t].retried
         /\ resumeInterruptedTurns(tab, where)[t] = new
  BY DEF resumeInterruptedTurns
<1>3. /\ new.status = "queued" /\ new.retried /\ new.conv = tab[t].conv
      /\ new.followUpOf = tab[t].followUpOf /\ new.delivered = tab[t].delivered
  BY <1>1 DEF Row
<1> HIDE DEF new
<1> QED
  BY <1>2, <1>3, SettlesRefl DEF Settles, Requeues

\* A row that left the lanes of a run is not touched by the other recovery
\* nor by the close that follows it.
LEMMA OutOfFlight ==
    ASSUME NEW tab \in Table, NEW where, NEW t \in Turn, tab[t].status \notin InFlight
    PROVE  /\ reviveColdTurns(tab, where)[t] = tab[t]
           /\ resumeInterruptedTurns(tab, where)[t] = tab[t]
           /\ failStrandedTurns(tab, where)[t] = tab[t]
  BY DEF reviveColdTurns, resumeInterruptedTurns, failStrandedTurns, close, InFlight

\* The transaction of a sandbox death takes each row along one edge, and
\* leaves nothing in flight.
LEMMA StrandSettles ==
    ASSUME NEW tab \in Table
    PROVE  /\ TableSettles(tab, strandTurns(tab, Turn))
           /\ \A t \in Turn : strandTurns(tab, Turn)[t].status \notin InFlight
<1> DEFINE revived == reviveColdTurns(tab, Turn)
           resumed == resumeInterruptedTurns(revived, Turn)
           failed  == failStrandedTurns(resumed, Turn)
<1>1. revived \in Table /\ TableSettles(tab, revived)
  BY ReviveMoves, ReviveSettles
<1> HIDE DEF revived
<1>2. resumed \in Table /\ TableSettles(revived, resumed)
  BY <1>1, ResumeMoves, ResumeSettles
<1> HIDE DEF resumed
<1>3. TableSettles(resumed, failed)
  BY <1>2, CloseSettles DEF failStrandedTurns, Active
<1>4. \A t \in Turn : revived[t] = tab[t] \/ revived[t].status \notin InFlight
  BY DEF reviveColdTurns, Table, Row, InFlight, revived
<1>5. \A t \in Turn : resumed[t] = revived[t] \/ resumed[t].status \notin InFlight
  BY <1>1 DEF resumeInterruptedTurns, Table, Row, InFlight, resumed
<1>6. strandTurns(tab, Turn) = failed
  BY DEF strandTurns, revived, resumed, failed
<1>7. ASSUME NEW t \in Turn PROVE failed[t].status \notin InFlight
  <2>1. resumed[t] \in Row
    BY <1>2 DEF Table
  <2> QED
    BY <2>1 DEF failStrandedTurns, close, Row, InFlight
<1>8. ASSUME NEW t \in Turn PROVE Settles(tab[t], failed[t])
  <2>1. CASE revived[t].status \notin InFlight
    <3>1. resumed[t] = revived[t]
      BY <1>1, <2>1, OutOfFlight DEF resumed
    <3>2. failed[t] = revived[t]
      BY <1>2, <2>1, <3>1, OutOfFlight
    <3> QED
      BY <1>1, <3>2 DEF TableSettles
  <2>2. CASE revived[t] = tab[t] /\ resumed[t].status \notin InFlight
    <3>1. failed[t] = resumed[t]
      BY <1>2, <2>2, OutOfFlight
    <3> QED
      BY <1>2, <2>2, <3>1 DEF TableSettles
  <2>3. CASE revived[t] = tab[t] /\ resumed[t] = revived[t]
    BY <1>3, <2>3 DEF TableSettles
  <2> QED
    BY <1>4, <1>5, <2>1, <2>2, <2>3
<1> HIDE DEF failed
<1> QED
  BY <1>6, <1>7, <1>8 DEF TableSettles

\* The transaction of a close that won.
LEMMA FinishSettles ==
    ASSUME NEW tab \in Table, NEW t \in Turn, NEW outcome \in {"done", "failed", "aborted"},
           NEW followUps
    PROVE  TableSettles(tab, finishTurnClose(tab, t, outcome, followUps))
<1> DEFINE closed  == close(tab, {t}, closableBy(outcome), outcome)
           settled == settleJoinedFollowUps(closed, t, followUps)
           swept   == close(settled, JoiningIn(settled, settled[t].conv), {"joining"}, "aborted")
<1>0. closableBy(outcome) \subseteq Active
  BY DEF closableBy, Active
<1>1. closed \in Table /\ TableSettles(tab, closed)
  BY <1>0, CloseMoves, CloseSettles
<1>2. \A u \in Turn : closed[u] = tab[u] \/ closed[u].status # "joining"
  BY <1>0 DEF close, Table, Row
<1> HIDE DEF closed
<1>3. settled \in Table /\ TableSettles(closed, settled)
  BY <1>1, SettleMoves, SettleSettles
<1>4. \A u \in Turn : \/ settled[u] = closed[u]
                      \/ closed[u].status = "joining" /\ settled[u].status = "joined"
  <2>1. JoinsOnly(closed, settled)
    BY <1>1, SettleRows
  <2> SUFFICES ASSUME NEW u \in Turn
               PROVE  \/ settled[u] = closed[u]
                      \/ closed[u].status = "joining" /\ settled[u].status = "joined"
    OBVIOUS
  <2>2. closed[u] \in Row
    BY <1>1 DEF Table
  <2>3. CASE /\ closed[u].status = "joining"
             /\ settled[u] = [closed[u] EXCEPT !.status = "joined"]
    BY <2>2, <2>3 DEF Row
  <2> QED
    BY <2>1, <2>3 DEF JoinsOnly
<1> HIDE DEF settled
<1>5. TableSettles(settled, swept)
  BY <1>3, CloseSettles
<1>6. \A u \in Turn : swept[u] = settled[u] \/ settled[u].status = "joining"
  BY DEF close
<1> HIDE DEF swept
<1>7. ASSUME NEW u \in Turn PROVE Settles(tab[u], settled[u]) /\ Settles(tab[u], swept[u])
  <2>1. CASE closed[u] = tab[u] /\ settled[u] = closed[u]
    BY <1>5, <2>1, SettlesRefl DEF TableSettles
  <2>2. CASE closed[u] = tab[u] /\ settled[u].status = "joined"
    BY <1>3, <1>6, <2>2 DEF TableSettles
  <2>3. CASE closed[u].status # "joining"
    <3>1. settled[u] = closed[u] /\ swept[u] = closed[u]
      BY <1>4, <1>6, <2>3
    <3> QED
      BY <1>1, <3>1 DEF TableSettles
  <2> QED
    BY <1>2, <1>4, <2>1, <2>2, <2>3
<1>8. finishTurnClose(tab, t, outcome, followUps) \in {settled, swept}
  BY DEF finishTurnClose, closed, settled, swept
<1> QED
  BY <1>7, <1>8 DEF TableSettles

\* One batch of a run's events: it begins, and follow-ups join it.
LEMMA EventsSettle ==
    ASSUME NEW tab \in Table, NEW t \in Turn, NEW starts \in BOOLEAN, NEW followUps
    PROVE  TableSettles(tab, settleJoinedFollowUps(IF starts THEN startTurn(tab, t) ELSE tab,
                                                   t, followUps))
<1> DEFINE started == IF starts THEN startTurn(tab, t) ELSE tab
           settled == settleJoinedFollowUps(started, t, followUps)
           new     == [tab[t] EXCEPT !.status = "running", !.started = TRUE]
<1>0. tab[t] \in Row
  BY DEF Table
<1>1. /\ new \in Row /\ new.status = "running" /\ new.retried = tab[t].retried
      /\ new.conv = tab[t].conv /\ new.followUpOf = tab[t].followUpOf
      /\ new.delivered = tab[t].delivered
  BY <1>0 DEF Row, Status, Active, InFlight
<1>2. started = tab \/ (tab[t].status = "dispatched" /\ started = [tab EXCEPT ![t] = new])
  BY DEF startTurn
<1> HIDE DEF new
<1>3. started \in Table
  BY <1>1, <1>2 DEF Table
<1>4. ASSUME NEW u \in Turn
      PROVE  \/ started[u] = tab[u]
             \/ Settles(tab[u], started[u]) /\ started[u].status = "running"
  <2>1. CASE started = tab \/ u # t
    BY <1>2, <2>1 DEF Table
  <2>2. CASE u = t /\ tab[t].status = "dispatched" /\ started = [tab EXCEPT ![t] = new]
    <3>1. started[u] = new
      BY <2>2 DEF Table
    <3> QED
      BY <1>1, <2>2, <3>1 DEF Settles, Ends
  <2> QED
    BY <1>2, <2>1, <2>2
<1> HIDE DEF started
<1>5. TableSettles(started, settled)
  BY <1>3, SettleSettles
<1>6. \A u \in Turn : settled[u] = started[u] \/ started[u].status = "joining"
  <2>1. JoinsOnly(started, settled)
    BY <1>3, SettleRows
  <2> QED
    BY <2>1 DEF JoinsOnly
<1> HIDE DEF settled
<1>7. \A u \in Turn : Settles(tab[u], settled[u])
  BY <1>4, <1>5, <1>6 DEF TableSettles
<1> QED
  BY <1>7 DEF TableSettles, settled, started

\* The statements that only write flags.
Alike(tab, new) ==
    \A t \in Turn :
        /\ new[t].status = tab[t].status /\ new[t].conv = tab[t].conv
        /\ new[t].followUpOf = tab[t].followUpOf /\ new[t].delivered = tab[t].delivered
        /\ new[t].retried = tab[t].retried

LEMMA FlagsAlike ==
    ASSUME NEW tab \in Table, NEW where
    PROVE  /\ Alike(tab, requestAbort(tab, where))
           /\ Alike(tab, claimAborts(tab))
           /\ Alike(tab, claimCeilingWarnings(tab, where))
           /\ Alike(tab, claimSendNows(tab))
<1>0. \A t \in Turn : tab[t] \in Row
  BY DEF Table
<1>1. Alike(tab, requestAbort(tab, where))
  BY <1>0 DEF Alike, requestAbort, Row
<1>2. Alike(tab, claimAborts(tab))
  BY <1>0 DEF Alike, claimAborts, Row
<1>3. Alike(tab, claimCeilingWarnings(tab, where))
  BY <1>0 DEF Alike, claimCeilingWarnings, Row
<1>4. Alike(tab, claimSendNows(tab))
  BY <1>0 DEF Alike, claimSendNows, Row
<1> QED
  BY <1>1, <1>2, <1>3, <1>4

LEMMA AlikeSettles ==
    ASSUME NEW tab, NEW new, Alike(tab, new)
    PROVE  TableSettles(tab, new)
  BY DEF Alike, TableSettles, Settles, Stays

\* The two sweeps of running turns.
LEMMA SweepSettles ==
    ASSUME NEW tab \in Table, NEW where
    PROVE  /\ TableSettles(tab, reclaimStaleTurns(tab, where))
           /\ TableSettles(tab, failStalledTurns(tab, where))
<1>1. ASSUME NEW t \in Turn PROVE Settles(tab[t], reclaimStaleTurns(tab, where)[t])
  <2> DEFINE new == [tab[t] EXCEPT !.status = "failed", !.abortRequested = tab[t].started]
  <2>1. /\ new.status = "failed" /\ new.retried = tab[t].retried /\ new.conv = tab[t].conv
        /\ new.followUpOf = tab[t].followUpOf /\ new.delivered = tab[t].delivered
    BY DEF Table, Row
  <2>2. \/ reclaimStaleTurns(tab, where)[t] = tab[t]
        \/ tab[t].status \in Active /\ reclaimStaleTurns(tab, where)[t] = new
    BY DEF reclaimStaleTurns
  <2> HIDE DEF new
  <2> QED
    BY <2>1, <2>2, SettlesRefl DEF Settles, Ends
<1>2. ASSUME NEW t \in Turn PROVE Settles(tab[t], failStalledTurns(tab, where)[t])
  <2> DEFINE new == [tab[t] EXCEPT !.status = "failed", !.abortRequested = TRUE]
  <2>1. /\ new.status = "failed" /\ new.retried = tab[t].retried /\ new.conv = tab[t].conv
        /\ new.followUpOf = tab[t].followUpOf /\ new.delivered = tab[t].delivered
    BY DEF Table, Row
  <2>2. \/ failStalledTurns(tab, where)[t] = tab[t]
        \/ tab[t].status \in Active /\ failStalledTurns(tab, where)[t] = new
    BY DEF failStalledTurns, Active, InFlight
  <2> HIDE DEF new
  <2> QED
    BY <2>1, <2>2, SettlesRefl DEF Settles, Ends
<1> QED
  BY <1>1, <1>2 DEF TableSettles

-----------------------------------------------------------------------------
(***************************************************************************)
(* What a step of the plane does to the rows and to what runs were handed. *)
(***************************************************************************)
\* An INSERT takes the first id that is free.
Adds ==
    \E t \in Turn, c \in Conversation,
       status \in {"queued", "joining"}, target \in Turn \cup {NoTurn} :
        /\ IsNextTurn(turns, t)
        /\ turns' = insertTurn(turns, t, c, status, target)

\* The claim's turn arms: the rows in K are handed over, and rows are steered.
HandsOver(K) ==
    /\ sandbox' = sandbox
    /\ K # {} => sandbox.status = "running" /\ ~sandbox.stopRequested
    /\ \A t \in Turn :
         /\ turns'[t].conv = turns[t].conv
         /\ turns'[t].followUpOf = turns[t].followUpOf
         /\ turns'[t].retried = turns[t].retried
         /\ turns'[t].status = IF t \in K THEN "dispatched" ELSE turns[t].status
         /\ t \in K => turns[t].status \in {"queued", "dispatched"} /\ handed'[t] # {}
         /\ turns[t].delivered => turns'[t].delivered
         /\ turns'[t].delivered => turns[t].delivered \/ t \in claimableSteers(turns)
         /\ handed[t] \subseteq handed'[t]

Hands == \E K \in SUBSET Turn : HandsOver(K)

WritesRows ==
    TableSettles(turns, turns') \/ Adds \/ Flips(turns, turns') \/ Blocks(turns, turns')

PlaneStep == (WritesRows /\ handed' = handed) \/ Hands

\* A step that leaves the table alone, or writes flags.
LEMMA SameWrites ==
    ASSUME turns' = turns
    PROVE  WritesRows
  BY SettlesRefl DEF WritesRows, TableSettles

\* One handler goes on; no other does.
Goes(h) == \E r : Goto(h, r)

\* A client's request begins at a handler that is free, and writes nothing yet.
Begins(h) == UNCHANGED <<db, runner>> /\ Idle(h) /\ Goes(h)

LEMMA ClientBegins ==
    ASSUME NEW h \in Handler, Client(h)
    PROVE  Begins(h)
<1>1. ASSUME NEW c \in Conversation, SendMessage(h, c) PROVE Begins(h)
  BY <1>1 DEF SendMessage, readTarget, Begins, Goes
<1>2. ASSUME NEW c \in Conversation, CreateTurn(h, c) \/ PromoteParkedFollowUps(h, c)
      PROVE  Begins(h)
  BY <1>2 DEF CreateTurn, PromoteParkedFollowUps, Begins, Goes
<1>3. ASSUME NEW t \in Turn, AbortTurn(h, t) PROVE Begins(h)
  BY <1>3 DEF AbortTurn, abortArm, End, Begins, Goes
<1>4. ASSUME NEW t \in Turn, RequestSendNow(h, t) PROVE Begins(h)
  BY <1>4 DEF RequestSendNow, Begins, Goes
<1> QED
  BY <1>1, <1>2, <1>3, <1>4 DEF Client

LEMMA HandlerWrites ==
    ASSUME TypeInv, NEW h \in Handler,
           Serve(h) \/ Client(h) \/ SupervisorReport(h) \/ RunnerReport(h) \/ Crash(h)
    PROVE  WritesRows
<1>0. turns \in Table /\ ReqOK
  BY DEF TypeInv, TypeOK
<1>1. CASE turns' = turns
  BY <1>1, SameWrites
<1>2. CASE PromoteStopped(h)
  BY <1>0, <1>2, CloseSettles DEF PromoteStopped, abortStoppedFollowUps, WritesRows
<1>3. CASE PromoteFlip(h) /\ turns' # turns
  <2>1. /\ At(h, "promote.flip") /\ promotes(req[h].turn, req[h].conv)
        /\ turns' = promoteFollowUp(turns, req[h].turn)
    BY <1>3 DEF PromoteFlip
  <2> QED
    BY <2>1 DEF WritesRows, Flips, promotes, indexAdmits
<1>4. CASE InsertTurn(h) /\ turns' # turns
  <2>1. PICK t \in Turn : /\ IsNextTurn(turns, t)
                          /\ turns' = insertTurn(turns, t, req[h].conv, "queued", NoTurn)
    BY <1>4 DEF InsertTurn
  <2>2. req[h].conv \in Conversation
    BY <1>0, <1>4 DEF InsertTurn, At, ReqOK, GoodRequest, AboutConversation
  <2> QED
    BY <2>1, <2>2 DEF WritesRows, Adds
<1>5. CASE CreateBlocker(h) /\ turns' # turns
  <2>1. /\ At(h, "create.blocker") /\ TRUE \in BlockerAnswers
        /\ turns' = failBlockedTurn(turns, req[h].turn)
    BY <1>5, BlockerAssumption DEF CreateBlocker
  <2> QED
    BY <2>1 DEF WritesRows, Blocks
<1>6. CASE CreateFollowUp(h)
  <2>1. PICK t \in Turn : /\ IsNextTurn(turns, t)
                          /\ turns' = insertTurn(turns, t, req[h].conv, "joining", req[h].turn)
    BY <1>6 DEF CreateFollowUp
  <2>2. req[h].conv \in Conversation /\ req[h].turn \in Turn
    BY <1>0, <1>6 DEF CreateFollowUp, At, ReqOK, GoodRequest, AboutConversation, AboutTurn
  <2> QED
    BY <2>1, <2>2 DEF WritesRows, Adds
<1>7. CASE AbortJoining(h) \/ AbortQueued(h) \/ AbortSweepAll(h) \/ AbortSweep(h)
  <2>1. PICK where, from : /\ from \in {{"joining"}, {"queued"}}
                           /\ turns' = close(turns, where, from, "aborted")
    BY <1>7 DEF AbortJoining, AbortQueued, AbortSweepAll, AbortSweep, sweepUnheldFollowUps
  <2> QED
    BY <1>0, <2>1, CloseSettles DEF WritesRows, Active
<1>8. CASE EventPark(h)
  BY <1>0, <1>8, CloseSettles DEF EventPark, WritesRows, Active
<1>9. CASE AbortFlag(h) \/ AbortFlagHeld(h)
  <2>1. PICK where : turns' = requestAbort(turns, where)
    BY <1>9 DEF AbortFlag, AbortFlagHeld
  <2> QED
    BY <1>0, <2>1, FlagsAlike, AlikeSettles DEF WritesRows
<1>10. CASE SendNowFlag(h) /\ turns' # turns
  <2>1. At(h, "sendNow.flag") /\ turns' = [turns EXCEPT ![req[h].turn].sendNow = TRUE]
    BY <1>10 DEF SendNowFlag
  <2>2. Alike(turns, turns')
    BY <1>0, <2>1 DEF Alike, Table, Row
  <2> QED
    BY <2>2, AlikeSettles DEF WritesRows
<1>11. CASE EventStrand(h)
  <2>1. turns' = failStrandedTurns(turns, Turn) \/ turns' = strandTurns(turns, Turn)
    BY <1>11 DEF EventStrand
  <2> QED
    BY <1>0, <2>1, StrandSettles, CloseSettles DEF failStrandedTurns, WritesRows, Active
<1>12. ASSUME NEW t \in Turn, ApplyTurnProgress(h, t)
       PROVE  WritesRows
  <2>1. turns' = [turns EXCEPT ![t].beat = TRUE]
    BY <1>12 DEF ApplyTurnProgress
  <2>2. Alike(turns, turns')
    BY <1>0, <2>1 DEF Alike, Table, Row
  <2> QED
    BY <2>2, AlikeSettles DEF WritesRows
<1>13. ASSUME NEW t \in Turn, FinishTurn(h, t)
       PROVE  WritesRows
  <2>1. PICK outcome \in {"done", "failed", "aborted"}, joined \in mayReportJoined(t) :
            turns' = finishTurnClose(turns, t, outcome, joined)
    BY <1>13 DEF FinishTurn, mayReport
  <2> QED
    BY <1>0, <2>1, FinishSettles DEF WritesRows
<1>14. CASE Promotion(h)
  BY <1>14, <1>1, <1>2, <1>3 DEF Promotion, PromoteOldest, PromoteWake, db
<1>15. CASE Sending(h)
  BY <1>15, <1>1, <1>4, <1>5, <1>6
     DEF Sending, SendRead, SendReread, CreateWake, CountParked, RecheckTarget, db
<1>16. CASE Aborting(h)
  BY <1>16, <1>1, <1>7, <1>9 DEF Aborting, AbortRead, db
<1>17. CASE Reporting(h)
  BY <1>17, <1>1, <1>8, <1>10, <1>11
     DEF Reporting, ProgressRef, FinishSalvage, EventStatus, EventWake, EventReason, db
<1>18. CASE Client(h)
  BY <1>18, <1>1, ClientBegins DEF Begins, db
<1>19. CASE SupervisorReport(h)
  BY <1>19, <1>1, <1>12, <1>13 DEF SupervisorReport, FinishLost, db
<1>20. CASE RunnerReport(h) \/ Crash(h)
  BY <1>20, <1>1 DEF RunnerReport, StartReported, StartFailed, StopReported, SandboxDied, Crash, db
<1> QED
  BY <1>14, <1>15, <1>16, <1>17, <1>18, <1>19, <1>20 DEF Serve

\* Only the claim hands turns over.
LEMMA HandlerHands ==
    ASSUME NEW h \in Handler,
           Serve(h) \/ Client(h) \/ SupervisorReport(h) \/ RunnerReport(h) \/ Crash(h)
    PROVE  handed' = handed
<1>1. CASE Promotion(h)
  BY <1>1 DEF Promotion, PromoteStopped, PromoteOldest, PromoteFlip, PromoteWake, runner
<1>2. CASE Sending(h)
  BY <1>2 DEF Sending, SendRead, SendReread, InsertTurn, CreateBlocker, CreateWake, CountParked,
     CreateFollowUp, RecheckTarget, runner
<1>3. CASE Aborting(h)
  BY <1>3 DEF Aborting, AbortRead, AbortJoining, AbortQueued, AbortSweepAll, AbortFlag,
     AbortSweep, AbortFlagHeld, runner
<1>4. CASE Reporting(h)
  BY <1>4 DEF Reporting, SendNowFlag, ProgressRef, FinishSalvage, EventStatus, EventStrand,
     EventWake, EventReason, EventPark, runner
<1>5. CASE Client(h) \/ Crash(h)
  BY <1>5, ClientBegins DEF Begins, Crash, runner
<1>6. CASE SupervisorReport(h)
  BY <1>6 DEF SupervisorReport, ApplyTurnProgress, FinishTurn, FinishLost, runner
<1>7. CASE RunnerReport(h)
  BY <1>7 DEF RunnerReport, StartReported, StartFailed, StopReported, SandboxDied
<1> QED
  BY <1>1, <1>2, <1>3, <1>4, <1>5, <1>6, <1>7 DEF Serve

\* What the steer arm takes does not depend on the flags.
LEMMA SteersAlike ==
    ASSUME NEW tab, NEW new, Alike(tab, new)
    PROVE  claimableSteers(new) = claimableSteers(tab)
<1>1. \A c : JoiningIn(new, c) = JoiningIn(tab, c)
  BY DEF Alike, JoiningIn
<1>2. ASSUME NEW f \in Turn
      PROVE  f \in claimableSteers(new) <=> f \in claimableSteers(tab)
  <2>1. /\ new[f].status = tab[f].status /\ new[f].delivered = tab[f].delivered
        /\ new[f].followUpOf = tab[f].followUpOf /\ new[f].conv = tab[f].conv
    BY DEF Alike
  <2>2. new[f].followUpOf \in Turn => new[new[f].followUpOf].status = tab[tab[f].followUpOf].status
    BY <2>1 DEF Alike
  <2>3. JoiningIn(new, new[f].conv) = JoiningIn(tab, tab[f].conv)
    BY <1>1, <2>1
  <2>4. \A g \in JoiningIn(tab, tab[f].conv) :
          new[g].delivered = tab[g].delivered /\ new[g].followUpOf = tab[g].followUpOf
    BY DEF Alike, JoiningIn
  <2> QED
    BY <2>1, <2>2, <2>3, <2>4 DEF claimableSteers
<1> QED
  BY <1>2 DEF claimableSteers

\* The steer arm stamps the rows it takes and nothing else.
LEMMA SteerRows ==
    ASSUME NEW tab \in Table, NEW f \in Turn
    PROVE  /\ claimSteers(tab)[f].status = tab[f].status
           /\ claimSteers(tab)[f].conv = tab[f].conv
           /\ claimSteers(tab)[f].followUpOf = tab[f].followUpOf
           /\ claimSteers(tab)[f].retried = tab[f].retried
           /\ tab[f].delivered => claimSteers(tab)[f].delivered
           /\ claimSteers(tab)[f].delivered => tab[f].delivered \/ f \in claimableSteers(tab)
<1>1. tab[f] \in Row
  BY DEF Table
<1>2. CASE f \in claimableSteers(tab)
  <2>1. claimSteers(tab)[f] = [tab[f] EXCEPT !.delivered = TRUE]
    BY <1>2 DEF claimSteers
  <2> QED
    BY <1>1, <1>2, <2>1 DEF Row
<1>3. CASE f \notin claimableSteers(tab)
  BY <1>3 DEF claimSteers
<1> QED
  BY <1>2, <1>3

\* The turn arm writes one status.
LEMMA ClaimedRows ==
    ASSUME NEW tab \in Table, NEW stale, NEW t \in Turn
    PROVE  /\ claimTurns(tab, stale)[t].conv = tab[t].conv
           /\ claimTurns(tab, stale)[t].followUpOf = tab[t].followUpOf
           /\ claimTurns(tab, stale)[t].retried = tab[t].retried
           /\ claimTurns(tab, stale)[t].delivered = tab[t].delivered
           /\ claimTurns(tab, stale)[t].status =
                IF t \in claimableTurns(tab, stale) THEN "dispatched" ELSE tab[t].status
<1>1. tab[t] \in Row
  BY DEF Table
<1>2. CASE t \in claimableTurns(tab, stale)
  <2>1. claimTurns(tab, stale)[t] = [tab[t] EXCEPT !.status = "dispatched"]
    BY <1>2 DEF claimTurns
  <2> QED
    BY <1>1, <1>2, <2>1 DEF Row
<1>3. CASE t \notin claimableTurns(tab, stale)
  BY <1>3 DEF claimTurns
<1> QED
  BY <1>2, <1>3

\* The turn arms of the claim, in the order of their transaction.
LEMMA ClaimHands ==
    ASSUME TypeInv, NEW stale, NEW near, ClaimTurnWork(stale, near)
    PROVE  Hands
<1> DEFINE up        == sandbox.status = "running"
           aborted   == claimAborts(turns)
           steered   == IF up THEN claimSteers(aborted) ELSE aborted
           cautioned == IF up THEN claimCeilingWarnings(steered, near) ELSE steered
           overdue   == stale \ claimableAborts(turns)
           takes     == up /\ ~sandbox.stopRequested
           claimed   == IF takes THEN claimableTurns(cautioned, overdue) ELSE {}
           taken     == IF takes THEN claimTurns(cautioned, overdue) ELSE cautioned
           sent      == IF up THEN claimSendNows(taken) ELSE taken
<1>0. turns \in Table
  BY DEF TypeInv, TypeOK
<1>1. /\ turns' = sent
      /\ handed' = [t \in Turn |-> IF t \in claimed
                                    THEN handed[t] \cup {sessionFor(turns[t].conv)}
                                    ELSE handed[t]]
      /\ sandbox' = sandbox
  BY DEF ClaimTurnWork
<1>2. aborted \in Table /\ Alike(turns, aborted) /\ claimableSteers(aborted) = claimableSteers(turns)
  BY <1>0, ClaimAbortsMoves, FlagsAlike, SteersAlike
<1> HIDE DEF aborted
<1>3. /\ steered \in Table
      /\ \A t \in Turn :
           /\ steered[t].status = aborted[t].status /\ steered[t].conv = aborted[t].conv
           /\ steered[t].followUpOf = aborted[t].followUpOf
           /\ steered[t].retried = aborted[t].retried
           /\ aborted[t].delivered => steered[t].delivered
           /\ steered[t].delivered => aborted[t].delivered \/ t \in claimableSteers(aborted)
  <2>1. CASE up
    BY <1>2, <2>1, ClaimSteersMoves, SteerRows
  <2>2. CASE ~up
    BY <1>2, <2>2
  <2> QED
    BY <2>1, <2>2
<1> HIDE DEF steered
<1>4. cautioned \in Table /\ Alike(steered, cautioned)
  <2>1. Alike(steered, steered)
    BY DEF Alike
  <2> QED
    BY <1>3, <2>1, ClaimWarningsMoves, FlagsAlike
<1> HIDE DEF cautioned
<1>5. /\ taken \in Table
      /\ \A t \in Turn :
           /\ taken[t].status = IF t \in claimed THEN "dispatched" ELSE cautioned[t].status
           /\ taken[t].conv = cautioned[t].conv
           /\ taken[t].followUpOf = cautioned[t].followUpOf
           /\ taken[t].retried = cautioned[t].retried
           /\ taken[t].delivered = cautioned[t].delivered
  <2>1. CASE takes
    BY <1>4, <2>1, ClaimTurnsMoves, ClaimedRows
  <2>2. CASE ~takes
    BY <1>4, <2>2
  <2> QED
    BY <2>1, <2>2
<1> HIDE DEF taken
<1>6. Alike(taken, sent)
  <2>1. Alike(taken, taken)
    BY DEF Alike
  <2> QED
    BY <1>5, <2>1, FlagsAlike
<1> HIDE DEF sent
<1>7. \A t \in claimed : t \in Turn /\ takes /\ cautioned[t].status \in {"queued", "dispatched"}
  BY DEF claimableTurns
<1>8. claimed # {} => sandbox.status = "running" /\ ~sandbox.stopRequested
  BY <1>7
<1> HIDE DEF claimed
<1>9. ASSUME NEW t \in Turn
      PROVE  /\ turns'[t].conv = turns[t].conv
             /\ turns'[t].followUpOf = turns[t].followUpOf
             /\ turns'[t].retried = turns[t].retried
             /\ turns'[t].status = IF t \in claimed THEN "dispatched" ELSE turns[t].status
             /\ turns[t].delivered => turns'[t].delivered
             /\ turns'[t].delivered => turns[t].delivered \/ t \in claimableSteers(turns)
  BY <1>1, <1>2, <1>3, <1>4, <1>5, <1>6 DEF Alike
<1>10. ASSUME NEW t \in Turn
       PROVE  t \in claimed => turns[t].status \in {"queued", "dispatched"}
  BY <1>2, <1>3, <1>4, <1>7 DEF Alike
<1>11. ASSUME NEW t \in Turn
       PROVE  handed[t] \subseteq handed'[t] /\ (t \in claimed => handed'[t] # {})
  BY <1>1
<1>12. claimed \in SUBSET Turn
  BY <1>7
<1>13. HandsOver(claimed)
  BY <1>1, <1>8, <1>9, <1>10, <1>11 DEF HandsOver
<1> QED
  BY <1>12, <1>13 DEF Hands

LEMMA PollWrites ==
    ASSUME TypeInv, Poll
    PROVE  PlaneStep
<1>0. turns \in Table
  BY DEF TypeInv, TypeOK
<1>1. ASSUME NEW late, ClaimStart(late)
      PROVE  PlaneStep
  BY <1>0, <1>1, FlagsAlike, AlikeSettles DEF ClaimStart, PlaneStep, WritesRows
<1>2. ASSUME NEW idle, ClaimStop(idle)
      PROVE  PlaneStep
  BY <1>0, <1>2, FlagsAlike, AlikeSettles DEF ClaimStop, PlaneStep, WritesRows
<1>3. CASE ClaimDueWork
  BY <1>1, <1>2, <1>3, ClaimHands DEF ClaimDueWork, PlaneStep
<1>4. CASE ComposeStart \/ ReleaseClaim
  BY <1>4, SameWrites DEF ComposeStart, ReleaseClaim, PlaneStep, db
<1>5. CASE ParkUnstartableClaim
  <2>1. turns' = turns \/ turns' = close(turns, Turn, Active \cup {"joining"}, "failed")
    BY <1>5 DEF ParkUnstartableClaim
  <2>2. WritesRows
    BY <1>0, <2>1, SameWrites, CloseSettles DEF WritesRows
  <2> QED
    BY <1>5, <2>2 DEF PlaneStep, ParkUnstartableClaim
<1>6. ASSUME NEW t \in Turn,
             ReclaimStaleTurns(t) \/ FailStalledTurns(t) \/ ExpireWedgedFollowUps(t)
      PROVE  PlaneStep
  <2>1. \/ turns' = reclaimStaleTurns(turns, {t})
        \/ turns' = failStalledTurns(turns, {t})
        \/ turns' = expireWedgedFollowUps(turns, {t})
    BY <1>6 DEF ReclaimStaleTurns, FailStalledTurns, ExpireWedgedFollowUps
  <2>2. ASSUME turns' = expireWedgedFollowUps(turns, {t}) PROVE WritesRows
    BY <1>0, <2>2, CloseSettles DEF expireWedgedFollowUps, WritesRows
  <2>3. WritesRows
    BY <1>0, <2>1, <2>2, SweepSettles DEF WritesRows
  <2> QED
    BY <1>6, <2>3 DEF PlaneStep, ReclaimStaleTurns, FailStalledTurns, ExpireWedgedFollowUps, runner
<1> QED
  BY <1>3, <1>4, <1>5, <1>6 DEF Poll

\* Every step of the plane takes each row along one edge.
LEMMA PlaneNext ==
    ASSUME TypeInv, [Next]_vars
    PROVE  PlaneStep
<1>0. turns \in Table
  BY DEF TypeInv, TypeOK
<1>1. ASSUME NEW h \in Handler,
             Serve(h) \/ Client(h) \/ SupervisorReport(h) \/ RunnerReport(h) \/ Crash(h)
      PROVE  PlaneStep
  BY <1>1, HandlerWrites, HandlerHands DEF PlaneStep
<1>2. ASSUME NEW t \in Turn, ApplyTurnEvents(t)
      PROVE  PlaneStep
  <2>1. PICK starts \in BOOLEAN, joined \in mayReportJoined(t) :
          turns' = settleJoinedFollowUps(IF starts THEN startTurn(turns, t) ELSE turns, t, joined)
    BY <1>2 DEF ApplyTurnEvents
  <2>2. WritesRows
    BY <1>0, <2>1, EventsSettle DEF WritesRows
  <2> QED
    BY <1>2, <2>2 DEF PlaneStep, ApplyTurnEvents, runner
<1>3. ASSUME NEW t \in Turn, FinishRecovers(t)
      PROVE  PlaneStep
  <2>1. turns' = reviveColdTurns(turns, {t}) \/ turns' = resumeInterruptedTurns(turns, {t})
    BY <1>3 DEF FinishRecovers
  <2>2. WritesRows
    BY <1>0, <2>1, ReviveSettles, ResumeSettles DEF WritesRows
  <2> QED
    BY <1>3, <2>2 DEF PlaneStep, FinishRecovers, runner
<1>4. CASE RequestAgentRestart
  <2>1. WritesRows
    BY <1>0, <1>4, CloseSettles DEF RequestAgentRestart, WritesRows, Active
  <2> QED
    BY <1>4, <2>1 DEF PlaneStep, RequestAgentRestart, runner
<1>5. CASE RequestSandboxRespawn
  <2>1. WritesRows
    BY <1>0, <1>5, StrandSettles DEF RequestSandboxRespawn, WritesRows
  <2> QED
    BY <1>5, <2>1 DEF PlaneStep, RequestSandboxRespawn, runner
<1>6. CASE SupervisorReady \/ ReportLost \/ UNCHANGED vars
  BY <1>6, SameWrites DEF SupervisorReady, ReportLost, db, vars, PlaneStep
<1> QED
  BY <1>1, <1>2, <1>3, <1>4, <1>5, <1>6, PollWrites DEF Next

-----------------------------------------------------------------------------
(***************************************************************************)
(* Steers and joins.                                                       *)
(***************************************************************************)
\* Ids are taken in their order.
RowsFromStart ==
    \A t, u \in Turn : t < u /\ turns[u].status # "none" => turns[t].status # "none"

\* A row that is not in the table has not been steered.
NoneSteered == \A t \in Turn : turns[t].status = "none" => ~turns[t].delivered

\* A turn in flight was handed over.
InFlightHanded == \A t \in Turn : turns[t].status \in InFlight => handed[t] # {}

\* A follow-up is delivered to a turn that was handed over.
DeliveredToRun ==
    \A f \in Turn : turns[f].delivered =>
                        turns[f].followUpOf \in Turn /\ handed[turns[f].followUpOf] # {}

JoinedDelivered == \A f \in Turn : turns[f].status = "joined" => turns[f].delivered

SteerInv ==
    /\ RowsFromStart /\ NoneSteered /\ InFlightHanded /\ DeliveredToRun /\ JoinedDelivered
    /\ SteeredInOrder

\* What an INSERT, a promotion and the credential check leave of the rows.
LEMMA AddedRow ==
    ASSUME turns \in Table, NEW t \in Turn, NEW c, NEW status, NEW target,
           turns' = insertTurn(turns, t, c, status, target)
    PROVE  /\ turns'[t].status = status /\ turns'[t].conv = c /\ turns'[t].followUpOf = target
           /\ ~turns'[t].delivered /\ ~turns'[t].retried
           /\ \A u \in Turn : u # t => turns'[u] = turns[u]
  BY DEF insertTurn, EmptyRow, Table

LEMMA WrittenRow ==
    ASSUME turns \in Table, NEW t \in Turn, NEW status,
           turns' = [turns EXCEPT ![t].status = status]
    PROVE  /\ turns'[t].status = status
           /\ turns'[t].conv = turns[t].conv /\ turns'[t].followUpOf = turns[t].followUpOf
           /\ turns'[t].delivered = turns[t].delivered /\ turns'[t].retried = turns[t].retried
           /\ \A u \in Turn : u # t => turns'[u] = turns[u]
  BY DEF Table, Row

\* A promotion and the credential check write the status of one row that is
\* in the table.
LEMMA WritesOne ==
    ASSUME TypeInv, Flips(turns, turns') \/ Blocks(turns, turns')
    PROVE  \E t \in Turn, status \in {"queued", "failed"} :
             /\ turns[t].status # "none"
             /\ status = "queued" => turns[t].status = "joining"
             /\ status = "failed" => TRUE \in BlockerAnswers
             /\ turns' = [turns EXCEPT ![t].status = status]
<1>1. CASE Flips(turns, turns')
  <2>1. PICK h \in Handler : /\ At(h, "promote.flip")
                             /\ turns[req[h].turn].status = "joining"
                             /\ turns' = promoteFollowUp(turns, req[h].turn)
    BY <1>1 DEF Flips
  <2>2. req[h].turn \in Turn
    BY <2>1 DEF TypeInv, TypeOK, At, AboutTurn
  <2> QED
    BY <2>1, <2>2 DEF promoteFollowUp
<1>2. CASE Blocks(turns, turns')
  <2>1. PICK h \in Handler : /\ At(h, "create.blocker")
                             /\ TRUE \in BlockerAnswers
                             /\ turns' = failBlockedTurn(turns, req[h].turn)
    BY <1>2 DEF Blocks
  <2>2. req[h].turn \in Turn /\ turns[req[h].turn].status # "none"
    BY <2>1 DEF TypeInv, TypeOK, HeldRows, At, AboutTurn
  <2> QED
    BY <2>1, <2>2 DEF failBlockedTurn
<1> QED
  BY <1>1, <1>2

LEMMA SteerInvInit == Init => SteerInv
<1> SUFFICES ASSUME Init PROVE SteerInv
  OBVIOUS
<1>1. \A t \in Turn : turns[t].status = "none" /\ ~turns[t].delivered
  BY DEF Init, EmptyTable, EmptyRow
<1> QED
  BY <1>1 DEF SteerInv, RowsFromStart, NoneSteered, InFlightHanded, DeliveredToRun,
     JoinedDelivered, SteeredInOrder, InFlight

\* The rows move on by themselves, or one of them is written.
LEMMA SettlesSteers ==
    ASSUME TypeInv, SteerInv, TableSettles(turns, turns'), handed' = handed
    PROVE  SteerInv'
<1>1. \A t \in Turn :
        /\ turns'[t].conv = turns[t].conv /\ turns'[t].followUpOf = turns[t].followUpOf
        /\ turns'[t].delivered = turns[t].delivered
        /\ turns'[t].status = "none" <=> turns[t].status = "none"
        /\ turns'[t].status = "joining" => turns[t].status = "joining"
        /\ turns'[t].status \in InFlight => turns[t].status \in InFlight
        /\ turns'[t].status = "joined" => turns[t].status = "joined" \/ turns[t].delivered
  BY DEF TableSettles, Settles, Stays, Ends, Requeues, Active, InFlight
<1>2. (RowsFromStart /\ NoneSteered /\ InFlightHanded)'
  BY <1>1 DEF SteerInv, RowsFromStart, NoneSteered, InFlightHanded
<1>3. (DeliveredToRun /\ JoinedDelivered)'
  BY <1>1 DEF SteerInv, DeliveredToRun, JoinedDelivered
<1>4. SteeredInOrder'
  BY <1>1 DEF SteerInv, SteeredInOrder
<1> QED
  BY <1>2, <1>3, <1>4 DEF SteerInv

LEMMA AddsSteers ==
    ASSUME TypeInv, SteerInv, Adds, handed' = handed
    PROVE  SteerInv'
<1>0. turns \in Table
  BY DEF TypeInv, TypeOK
<1>1. PICK t \in Turn, c \in Conversation, status \in {"queued", "joining"},
           target \in Turn \cup {NoTurn} :
             IsNextTurn(turns, t) /\ turns' = insertTurn(turns, t, c, status, target)
  BY DEF Adds
<1>2. /\ turns'[t].status = status /\ ~turns'[t].delivered
      /\ \A u \in Turn : u # t => turns'[u] = turns[u]
  BY <1>0, <1>1, AddedRow
<1>3. \A u \in Turn : u < t => turns[u].status # "none"
  BY <1>1 DEF IsNextTurn
<1>4. \A u \in Turn : u > t => turns[u].status = "none"
  BY <1>1, TurnAssumption DEF IsNextTurn, SteerInv, RowsFromStart
<1>5. RowsFromStart'
  BY <1>2, <1>3, <1>4, TurnAssumption DEF SteerInv, RowsFromStart
<1>6. (NoneSteered /\ InFlightHanded)'
  BY <1>2 DEF SteerInv, NoneSteered, InFlightHanded, InFlight
<1>7. (DeliveredToRun /\ JoinedDelivered)'
  BY <1>2 DEF SteerInv, DeliveredToRun, JoinedDelivered
<1>8. SteeredInOrder'
  <2> SUFFICES ASSUME NEW f \in Turn, NEW g \in Turn, f < g,
                      turns'[f].conv = turns'[g].conv, turns'[f].status = "joining",
                      turns'[g].status = "joining", turns'[g].delivered
               PROVE  turns'[f].delivered /\ turns'[f].followUpOf = turns'[g].followUpOf
    BY DEF SteeredInOrder
  <2>1. g # t
    BY <1>2
  <2>2. f # t
    BY <1>2, <1>4, <2>1, TurnAssumption
  <2> QED
    BY <1>2, <2>1, <2>2 DEF SteerInv, SteeredInOrder
<1> QED
  BY <1>5, <1>6, <1>7, <1>8 DEF SteerInv

LEMMA WritesSteers ==
    ASSUME TypeInv, SteerInv, Flips(turns, turns') \/ Blocks(turns, turns'), handed' = handed
    PROVE  SteerInv'
<1>0. turns \in Table
  BY DEF TypeInv, TypeOK
<1>1. PICK t \in Turn, status \in {"queued", "failed"} :
        turns[t].status # "none" /\ turns' = [turns EXCEPT ![t].status = status]
  BY WritesOne
<1>2. /\ turns'[t].status = status /\ turns'[t].followUpOf = turns[t].followUpOf
      /\ turns'[t].delivered = turns[t].delivered
      /\ \A u \in Turn : u # t => turns'[u] = turns[u]
  BY <1>0, <1>1, WrittenRow
<1>3. (RowsFromStart /\ NoneSteered /\ InFlightHanded)'
  BY <1>1, <1>2 DEF SteerInv, RowsFromStart, NoneSteered, InFlightHanded, InFlight
<1>4. (DeliveredToRun /\ JoinedDelivered)'
  BY <1>2 DEF SteerInv, DeliveredToRun, JoinedDelivered
<1>5. SteeredInOrder'
  BY <1>2 DEF SteerInv, SteeredInOrder
<1> QED
  BY <1>3, <1>4, <1>5 DEF SteerInv

LEMMA HandsSteers ==
    ASSUME TypeInv, SteerInv, Hands
    PROVE  SteerInv'
<1>1. PICK K \in SUBSET Turn : HandsOver(K)
  BY DEF Hands
<1>2. \A t \in Turn :
        /\ turns'[t].conv = turns[t].conv /\ turns'[t].followUpOf = turns[t].followUpOf
        /\ turns'[t].status = IF t \in K THEN "dispatched" ELSE turns[t].status
        /\ t \in K => turns[t].status \in {"queued", "dispatched"} /\ handed'[t] # {}
        /\ turns[t].delivered => turns'[t].delivered
        /\ turns'[t].delivered => turns[t].delivered \/ t \in claimableSteers(turns)
        /\ handed[t] # {} => handed'[t] # {}
  BY <1>1 DEF HandsOver
<1>3. (RowsFromStart /\ JoinedDelivered)'
  BY <1>2 DEF SteerInv, RowsFromStart, JoinedDelivered
<1>4. InFlightHanded'
  BY <1>2 DEF SteerInv, InFlightHanded
<1>5. NoneSteered'
  BY <1>2 DEF SteerInv, NoneSteered, claimableSteers
<1>6. DeliveredToRun'
  <2> SUFFICES ASSUME NEW f \in Turn, turns'[f].delivered
               PROVE  turns'[f].followUpOf \in Turn /\ handed'[turns'[f].followUpOf] # {}
    BY DEF DeliveredToRun
  <2>1. CASE turns[f].delivered
    BY <1>2, <2>1 DEF SteerInv, DeliveredToRun
  <2>2. CASE f \in claimableSteers(turns)
    <3>1. turns[f].followUpOf \in Turn /\ turns[turns[f].followUpOf].status \in InFlight
      BY <2>2 DEF claimableSteers
    <3> QED
      BY <1>2, <3>1 DEF SteerInv, InFlightHanded
  <2> QED
    BY <1>2, <2>1, <2>2
<1>7. SteeredInOrder'
  <2> SUFFICES ASSUME NEW f \in Turn, NEW g \in Turn, f < g,
                      turns'[f].conv = turns'[g].conv, turns'[f].status = "joining",
                      turns'[g].status = "joining", turns'[g].delivered
               PROVE  turns'[f].delivered /\ turns'[f].followUpOf = turns'[g].followUpOf
    BY DEF SteeredInOrder
  <2>1. /\ turns[f].conv = turns[g].conv /\ turns[f].status = "joining"
        /\ turns[g].status = "joining"
    BY <1>2
  <2>2. turns[f].delivered /\ turns[f].followUpOf = turns[g].followUpOf
    <3>1. CASE turns[g].delivered
      BY <2>1, <3>1 DEF SteerInv, SteeredInOrder
    <3>2. CASE g \in claimableSteers(turns)
      BY <2>1, <3>2 DEF claimableSteers, JoiningIn
    <3> QED
      BY <1>2, <3>1, <3>2
  <2> QED
    BY <1>2, <2>2
<1> QED
  BY <1>3, <1>4, <1>5, <1>6, <1>7 DEF SteerInv

LEMMA SteerInvNext == TypeInv /\ SteerInv /\ [Next]_vars => SteerInv'
  BY PlaneNext, SettlesSteers, AddsSteers, WritesSteers, HandsSteers DEF PlaneStep, WritesRows

LEMMA SteerInvAlways == Spec => []SteerInv
  BY SteerInvInit, SteerInvNext, TypeInvAlways, PTL DEF Spec

\* Whatever is parked before a steered follow-up went to the same run, in any
\* interleaving of sends, promotions, aborts, deaths and claims (the steer arm
\* of claimDueWork: "a newer message must never steer PAST an older sibling").
THEOREM SteeredInOrderHolds == Spec => []SteeredInOrder
<1>1. SteerInv => SteeredInOrder
  BY DEF SteerInv
<1> QED
  BY <1>1, SteerInvAlways, PTL

\* Whatever follow-ups a report names, only those that a poll handed to the
\* run of their target join it (settleJoinedFollowUps).
THEOREM JoinedWasDeliveredHolds == Spec => []JoinedWasDelivered
<1>1. SteerInv => JoinedWasDelivered
  BY DEF SteerInv, JoinedDelivered, DeliveredToRun, JoinedWasDelivered
<1> QED
  BY <1>1, SteerInvAlways, PTL

-----------------------------------------------------------------------------
(***************************************************************************)
(* Restarts and deaths: what a step does to the sandbox row, to the        *)
(* sessions and to a handler whose strand is still to come.                *)
(***************************************************************************)
NoneInFlight == \A t \in Turn : turns[t].status \notin InFlight

\* A sandbox that is asked to stop runs nothing.
ResetIdle == sandbox.stopRequested => NoneInFlight

ServedInv == InFlightIsServed /\ ResetIdle

\* No restart is asked for, and a sandbox that is up stays up.
SandboxQuiet ==
    /\ sandbox'.stopRequested = sandbox.stopRequested
    /\ sandbox.status = "running" => sandbox'.status = "running"

\* A session is written only by way of keepSessionRef.
SessionsKept ==
    \/ sessionRef' = sessionRef
    \/ sandbox' = sandbox /\ \E c, ref : sessionRef' = keepSessionRef(c, ref)

LEMMA SameSandbox ==
    ASSUME sandbox' = sandbox
    PROVE  SandboxQuiet
  BY DEF SandboxQuiet

LEMMA WakeQuiet ==
    ASSUME TypeInv, sandbox' = wakeSandbox
    PROVE  SandboxQuiet
  BY DEF TypeInv, TypeOK, Sandbox, wakeSandbox, SandboxQuiet

LEMMA PromotionQuiet ==
    ASSUME TypeInv, NEW h \in Handler, Promotion(h)
    PROVE  SandboxQuiet /\ SessionsKept /\ Goes(h) /\ ~At(h, "event.strand")
<1>1. SandboxQuiet /\ SessionsKept /\ ~At(h, "event.strand")
  BY SameSandbox, WakeQuiet DEF Promotion, PromoteStopped, PromoteOldest, PromoteFlip, PromoteWake,
     At, SessionsKept, db
<1>2. Goes(h)
  BY DEF Promotion, PromoteStopped, PromoteOldest, PromoteFlip, PromoteWake, Continue, End,
     NotPromoted, Promoted, Goes
<1> QED
  BY <1>1, <1>2

LEMMA SendingQuiet ==
    ASSUME TypeInv, NEW h \in Handler, Sending(h)
    PROVE  SandboxQuiet /\ SessionsKept /\ Goes(h) /\ ~At(h, "event.strand")
<1>1. SandboxQuiet /\ SessionsKept /\ ~At(h, "event.strand")
  BY SameSandbox, WakeQuiet DEF Sending, SendRead, SendReread, InsertTurn, CreateBlocker,
     CreateWake, CountParked, CreateFollowUp, RecheckTarget, At, SessionsKept, db
<1>2. Goes(h)
  BY DEF Sending, SendRead, SendReread, InsertTurn, CreateBlocker, CreateWake, CountParked,
     CreateFollowUp, RecheckTarget, readTarget, retrySend, Continue, End, Goes
<1> QED
  BY <1>1, <1>2

LEMMA AbortingQuiet ==
    ASSUME TypeInv, NEW h \in Handler, Aborting(h)
    PROVE  SandboxQuiet /\ SessionsKept /\ Goes(h) /\ ~At(h, "event.strand")
<1>1. SandboxQuiet /\ SessionsKept /\ ~At(h, "event.strand")
  BY SameSandbox DEF Aborting, AbortRead, AbortJoining, AbortQueued, AbortSweepAll, AbortFlag,
     AbortSweep, AbortFlagHeld, At, SessionsKept, db
<1>2. Goes(h)
  BY DEF Aborting, AbortRead, AbortJoining, AbortQueued, AbortSweepAll, AbortFlag, AbortSweep,
     AbortFlagHeld, abortArm, missedAbort, Continue, End, Goes
<1> QED
  BY <1>1, <1>2

\* The strand leaves nothing in flight, and no other statement is at its step.
LEMMA ReportingQuiet ==
    ASSUME TypeInv, NEW h \in Handler, Reporting(h)
    PROVE  /\ SandboxQuiet /\ SessionsKept /\ Goes(h)
           /\ At(h, "event.strand") => NoneInFlight'
<1>0. turns \in Table /\ sandbox \in Sandbox
  BY DEF TypeInv, TypeOK
<1>1. CASE EventStatus(h)
  <2>1. SandboxQuiet
    BY <1>0, <1>1 DEF EventStatus, accepts, SandboxQuiet, Sandbox
  <2> QED
    BY <1>1, <2>1 DEF EventStatus, SessionsKept, End, Goes, At
<1>2. CASE EventStrand(h)
  <2>1. turns' = failStrandedTurns(turns, Turn) \/ turns' = strandTurns(turns, Turn)
    BY <1>2 DEF EventStrand
  <2>2. \A t \in Turn : failStrandedTurns(turns, Turn)[t].status \notin InFlight
    BY <1>0 DEF failStrandedTurns, close, Table, Row, InFlight
  <2>3. NoneInFlight'
    BY <1>0, <2>1, <2>2, StrandSettles DEF NoneInFlight
  <2>4. Goes(h)
    BY <1>2 DEF EventStrand, afterStrand, Continue, End, Goes
  <2> QED
    BY <1>2, <2>3, <2>4, SameSandbox DEF EventStrand, SessionsKept
<1>3. CASE SendNowFlag(h) \/ EventPark(h) \/ EventReason(h) \/ EventWake(h)
  <2>1. SandboxQuiet /\ SessionsKept /\ ~At(h, "event.strand")
    BY <1>3, SameSandbox, WakeQuiet DEF SendNowFlag, EventPark, EventReason, EventWake, At,
       SessionsKept, db
  <2>2. Goes(h)
    BY <1>3 DEF SendNowFlag, EventPark, EventReason, EventWake, afterStrand, Continue, End, Goes
  <2> QED
    BY <2>1, <2>2
<1>4. CASE ProgressRef(h) \/ FinishSalvage(h)
  <2>1. SessionsKept
    BY <1>4 DEF ProgressRef, FinishSalvage, SessionsKept
  <2>2. SandboxQuiet /\ Goes(h) /\ ~At(h, "event.strand")
    BY <1>4, SameSandbox DEF ProgressRef, FinishSalvage, At, End, Goes
  <2> QED
    BY <2>1, <2>2
<1> QED
  BY <1>1, <1>2, <1>3, <1>4 DEF Reporting

\* A request begins at a handler that is free.
LEMMA ClientQuiet ==
    ASSUME TypeInv, NEW h \in Handler, Client(h) \/ SupervisorReport(h)
    PROVE  /\ SandboxQuiet /\ SessionsKept /\ Idle(h)
           /\ Goes(h) \/ req' = req
<1>1. CASE Client(h)
  BY <1>1, SameSandbox, ClientBegins DEF Begins, SessionsKept, db
<1>2. ASSUME NEW t \in Turn, ApplyTurnProgress(h, t) \/ FinishTurn(h, t) \/ FinishLost(h, t)
      PROVE  /\ SandboxQuiet /\ SessionsKept /\ Idle(h)
             /\ Goes(h) \/ req' = req
  <2>1. sandbox' = sandbox /\ SessionsKept /\ Idle(h)
    BY <1>2 DEF ApplyTurnProgress, FinishTurn, FinishLost, SessionsKept, db
  <2>2. Goes(h) \/ req' = req
    BY <1>2 DEF ApplyTurnProgress, FinishTurn, FinishLost, Goes
  <2> QED
    BY <2>1, <2>2, SameSandbox
<1> QED
  BY <1>1, <1>2 DEF SupervisorReport

\* A report that takes a sandbox down leaves its handler with the strand.
LEMMA RunnerQuiet ==
    ASSUME TypeInv, NEW h \in Handler, RunnerReport(h)
    PROVE  /\ Idle(h) /\ sessionRef' = sessionRef /\ turns' = turns
           /\ Goes(h) \/ req' = req
           /\ sandbox'.stopRequested = sandbox.stopRequested
           /\ sandbox.status = "running" =>
                sandbox'.status = "running" \/ At(h, "event.strand")'
<1>0. sandbox \in Sandbox /\ req \in [Handler -> Request]
  BY DEF TypeInv, TypeOK
<1>1. ASSUME NEW status, NEW reason, applyDown(h, status, reason)
      PROVE  /\ Goes(h) \/ req' = req
             /\ sandbox'.stopRequested = sandbox.stopRequested
             /\ sandbox.status = "running" =>
                  sandbox'.status = "running" \/ At(h, "event.strand")'
  <2>1. CASE accepts(status)
    <3>1. /\ sandbox' = [sandbox EXCEPT !.status = status]
          /\ Goto(h, [NoRequest EXCEPT !.step = "event.strand", !.reason = reason])
      BY <1>1, <2>1 DEF applyDown
    <3>2. req'[h].step = "event.strand"
      BY <1>0, <3>1 DEF Goto, NoRequest
    <3> QED
      BY <1>0, <3>1, <3>2 DEF Sandbox, Goes, At
  <2>2. CASE ~accepts(status)
    BY <1>1, <2>2 DEF applyDown
  <2> QED
    BY <2>1, <2>2
<1>2. CASE StartReported(h)
  BY <1>0, <1>2 DEF StartReported, Sandbox, Goes
<1>3. CASE StartFailed(h)
  BY <1>1, <1>3 DEF StartFailed
<1>4. CASE StopReported(h)
  BY <1>1, <1>4 DEF StopReported
<1>5. CASE SandboxDied(h)
  BY <1>1, <1>5 DEF SandboxDied
<1> QED
  BY <1>2, <1>3, <1>4, <1>5 DEF RunnerReport

\* A handler that is not at its strand leaves those that are.
LEMMA GoesKeeps ==
    ASSUME TypeInv, NEW h \in Handler, Goes(h) \/ req' = req, ~At(h, "event.strand")
    PROVE  \A g \in Handler : At(g, "event.strand") => At(g, "event.strand")'
  BY DEF TypeInv, TypeOK, Goes, Goto, At

\* The step either keeps every session or resets them all; only the reset
\* asks a sandbox to stop.
ResetStep ==
    \/ (sandbox'.stopRequested => sandbox.stopRequested) /\ SessionsKept
    \/ sessionRef' = [c \in Conversation |-> NoRef]

LEMMA ResetNext ==
    ASSUME TypeInv, [Next]_vars
    PROVE  ResetStep
<1>0. sandbox \in Sandbox
  BY DEF TypeInv, TypeOK
<1>1. ASSUME NEW h \in Handler, Serve(h) \/ Client(h) \/ SupervisorReport(h) \/ RunnerReport(h)
      PROVE  ResetStep
  BY <1>1, PromotionQuiet, SendingQuiet, AbortingQuiet, ReportingQuiet, ClientQuiet, RunnerQuiet
     DEF Serve, ResetStep, SandboxQuiet, SessionsKept
<1>2. ASSUME NEW h \in Handler, Crash(h)
      PROVE  ResetStep
  BY <1>2 DEF Crash, db, ResetStep, SessionsKept
<1>3. ASSUME NEW t \in Turn, ApplyTurnEvents(t) \/ FinishRecovers(t)
      PROVE  ResetStep
  BY <1>3 DEF ApplyTurnEvents, FinishRecovers, ResetStep, SessionsKept
<1>4. CASE SupervisorReady
  BY <1>0, <1>4 DEF SupervisorReady, Sandbox, ResetStep, SessionsKept
<1>5. CASE ReportLost \/ UNCHANGED vars
  BY <1>5 DEF ReportLost, db, vars, ResetStep, SessionsKept
<1>6. CASE Poll
  <2>1. CASE ClaimDueWork
    <3>1. ASSUME NEW late, ClaimStart(late) PROVE ResetStep
      BY <1>0, <3>1 DEF ClaimStart, Sandbox, ResetStep, SessionsKept
    <3>2. ASSUME NEW idle, ClaimStop(idle) PROVE ResetStep
      BY <1>0, <3>2 DEF ClaimStop, Sandbox, ResetStep, SessionsKept
    <3>3. ASSUME NEW stale, NEW near, ClaimTurnWork(stale, near) PROVE ResetStep
      BY <3>3 DEF ClaimTurnWork, ResetStep, SessionsKept
    <3> QED
      BY <2>1, <3>1, <3>2, <3>3 DEF ClaimDueWork
  <2>2. CASE ComposeStart \/ ReleaseClaim \/ ParkUnstartableClaim
    BY <1>0, <2>2 DEF ComposeStart, ReleaseClaim, ParkUnstartableClaim, db, Sandbox, ResetStep,
       SessionsKept
  <2> QED
    BY <1>6, <2>1, <2>2 DEF Poll, ReclaimStaleTurns, FailStalledTurns, ExpireWedgedFollowUps,
       ResetStep, SessionsKept
<1>7. CASE RequestAgentRestart
  BY <1>7 DEF RequestAgentRestart, ResetStep
<1>8. CASE RequestSandboxRespawn
  BY <1>0, <1>8 DEF RequestSandboxRespawn, Sandbox, ResetStep, SessionsKept
<1> QED
  BY <1>1, <1>2, <1>3, <1>4, <1>5, <1>6, <1>7, <1>8 DEF Next

\* From a restart until the next start claim no conversation has a session,
\* whatever the boot that is being discarded still reports, and however late
\* (requestAgentRestart, "what keeps the reset reset").
THEOREM RestartStaysResetHolds == Spec => []RestartStaysReset
<1>1. Init => RestartStaysReset
  BY DEF Init, RestartStaysReset
<1>2. TypeInv /\ RestartStaysReset /\ [Next]_vars => RestartStaysReset'
  <2> SUFFICES ASSUME TypeInv, RestartStaysReset, [Next]_vars, sandbox'.stopRequested,
                      NEW c \in Conversation
               PROVE  sessionRef'[c] = NoRef
    BY DEF RestartStaysReset
  <2>1. CASE sessionRef' = [d \in Conversation |-> NoRef]
    BY <2>1
  <2>2. CASE sandbox.stopRequested /\ SessionsKept
    BY <2>2 DEF SessionsKept, keepSessionRef, RestartStaysReset
  <2> QED
    BY <2>1, <2>2, ResetNext DEF ResetStep
<1> QED
  BY <1>1, <1>2, TypeInvAlways, PTL DEF Spec

\* What a step leaves of the strands to come, of a sandbox that is up, and of
\* a stop that was asked for.
ServedStep ==
    \/ NoneInFlight'
    \/ /\ \A g \in Handler : At(g, "event.strand") => At(g, "event.strand")'
       /\ sandbox.status = "running" =>
            sandbox'.status = "running" \/ \E g \in Handler : At(g, "event.strand")'
       /\ sandbox'.stopRequested => sandbox.stopRequested

LEMMA QuietServed ==
    ASSUME SandboxQuiet, \A g \in Handler : At(g, "event.strand") => At(g, "event.strand")'
    PROVE  ServedStep
  BY DEF SandboxQuiet, ServedStep

LEMMA SameReqServed ==
    ASSUME SandboxQuiet, req' = req
    PROVE  ServedStep
  BY DEF SandboxQuiet, ServedStep, At

LEMMA HandlerServed ==
    ASSUME TypeInv, NEW h \in Handler,
           Serve(h) \/ Client(h) \/ SupervisorReport(h) \/ RunnerReport(h)
    PROVE  ServedStep
<1>1. CASE Promotion(h) \/ Sending(h) \/ Aborting(h)
  BY <1>1, PromotionQuiet, SendingQuiet, AbortingQuiet, GoesKeeps, QuietServed
<1>2. CASE Reporting(h)
  <2>1. CASE At(h, "event.strand")
    BY <1>2, <2>1, ReportingQuiet DEF ServedStep
  <2>2. CASE ~At(h, "event.strand")
    BY <1>2, <2>2, ReportingQuiet, GoesKeeps, QuietServed
  <2> QED
    BY <2>1, <2>2
<1>3. Idle(h) => ~At(h, "event.strand")
  BY DEF Idle, At
<1>4. CASE Client(h) \/ SupervisorReport(h)
  BY <1>3, <1>4, ClientQuiet, GoesKeeps, QuietServed
<1>5. CASE RunnerReport(h)
  <2>1. \A g \in Handler : At(g, "event.strand") => At(g, "event.strand")'
    BY <1>3, <1>5, RunnerQuiet, GoesKeeps
  <2> QED
    BY <1>5, <2>1, RunnerQuiet DEF ServedStep
<1> QED
  BY <1>1, <1>2, <1>4, <1>5 DEF Serve

\* A sandbox is stopped only while nothing is in flight.
LEMMA StopServed ==
    ASSUME TypeInv, ServedInv, NEW idle, ClaimStop(idle)
    PROVE  NoneInFlight'
<1>0. turns \in Table
  BY DEF TypeInv, TypeOK
<1>1. NoneInFlight
  BY DEF ClaimStop, stopsSandbox, noActiveTurn, ServedInv, ResetIdle, NoneInFlight, Active
<1>2. Alike(turns, turns')
  BY <1>0, FlagsAlike DEF ClaimStop
<1> QED
  BY <1>1, <1>2 DEF Alike, NoneInFlight

LEMMA ServedNext ==
    ASSUME TypeInv, ServedInv, [Next]_vars, "crash" \notin Feature
    PROVE  ServedStep
<1>0. sandbox \in Sandbox /\ turns \in Table
  BY DEF TypeInv, TypeOK
<1>1. ASSUME NEW h \in Handler PROVE ~Crash(h)
  BY DEF Crash
<1>2. ASSUME NEW t \in Turn, ApplyTurnEvents(t) \/ FinishRecovers(t)
      PROVE  ServedStep
  BY <1>2, SameSandbox, SameReqServed DEF ApplyTurnEvents, FinishRecovers
<1>3. CASE SupervisorReady
  <2>1. SandboxQuiet
    BY <1>0, <1>3 DEF SupervisorReady, Sandbox, SandboxQuiet
  <2> QED
    BY <1>3, <2>1, SameReqServed DEF SupervisorReady
<1>4. CASE ReportLost \/ UNCHANGED vars
  BY <1>4, SameSandbox, SameReqServed DEF ReportLost, db, vars
<1>5. CASE ClaimDueWork
  <2>1. ASSUME NEW late, ClaimStart(late) PROVE ServedStep
    <3>1. sandbox.status # "running" /\ ~sandbox'.stopRequested /\ req' = req
      BY <1>0, <2>1 DEF ClaimStart, startsSandbox, Sandbox
    <3> QED
      BY <3>1 DEF ServedStep, At
  <2>2. ASSUME NEW idle, ClaimStop(idle) PROVE ServedStep
    BY <2>2, StopServed DEF ServedStep
  <2>3. ASSUME NEW stale, NEW near, ClaimTurnWork(stale, near) PROVE ServedStep
    BY <2>3, SameSandbox, SameReqServed DEF ClaimTurnWork
  <2> QED
    BY <1>5, <2>1, <2>2, <2>3 DEF ClaimDueWork
<1>6. CASE ComposeStart \/ ReleaseClaim \/ ParkUnstartableClaim
  <2>1. SandboxQuiet
    BY <1>0, <1>6 DEF ComposeStart, ReleaseClaim, ParkUnstartableClaim, db, Sandbox, SandboxQuiet
  <2> QED
    BY <1>6, <2>1, SameReqServed DEF ComposeStart, ReleaseClaim, ParkUnstartableClaim
<1>7. ASSUME NEW t \in Turn,
             ReclaimStaleTurns(t) \/ FailStalledTurns(t) \/ ExpireWedgedFollowUps(t)
      PROVE  ServedStep
  BY <1>7, SameSandbox, SameReqServed DEF ReclaimStaleTurns, FailStalledTurns, ExpireWedgedFollowUps
<1>8. CASE RequestAgentRestart
  <2>1. turns' = close(turns, Turn, InFlight, "failed")
    BY <1>8 DEF RequestAgentRestart
  <2>2. NoneInFlight'
    BY <1>0, <2>1 DEF close, Table, Row, InFlight, NoneInFlight
  <2> QED
    BY <2>2 DEF ServedStep
<1>9. CASE RequestSandboxRespawn
  BY <1>0, <1>9, StrandSettles DEF RequestSandboxRespawn, ServedStep, NoneInFlight
<1> QED
  BY <1>1, <1>2, <1>3, <1>4, <1>5, <1>6, <1>7, <1>8, <1>9, HandlerServed DEF Next, Poll

\* Only the claim of a sandbox that is up, and not asked to stop, puts a turn
\* into flight.
LEMMA FlightNext ==
    ASSUME TypeInv, [Next]_vars, NEW t \in Turn, turns'[t].status \in InFlight,
           turns[t].status \notin InFlight
    PROVE  sandbox.status = "running" /\ ~sandbox.stopRequested /\ sandbox' = sandbox
<1>0. turns \in Table
  BY DEF TypeInv, TypeOK
<1>1. ~TableSettles(turns, turns')
  BY DEF TableSettles, Settles, Stays, Ends, Requeues, InFlight
<1>2. ~Adds
  <2> SUFFICES ASSUME Adds PROVE FALSE
    OBVIOUS
  <2>1. PICK u \in Turn, c \in Conversation, status \in {"queued", "joining"},
             target \in Turn \cup {NoTurn} : turns' = insertTurn(turns, u, c, status, target)
    BY DEF Adds
  <2> QED
    BY <1>0, <2>1, AddedRow DEF InFlight
<1>3. ~(Flips(turns, turns') \/ Blocks(turns, turns'))
  <2> SUFFICES ASSUME Flips(turns, turns') \/ Blocks(turns, turns') PROVE FALSE
    OBVIOUS
  <2>1. PICK u \in Turn, status \in {"queued", "failed"} :
            turns' = [turns EXCEPT ![u].status = status]
    BY WritesOne
  <2> QED
    BY <1>0, <2>1, WrittenRow DEF InFlight
<1>4. PICK K \in SUBSET Turn : HandsOver(K)
  BY <1>1, <1>2, <1>3, PlaneNext DEF PlaneStep, WritesRows, Hands
<1> QED
  BY <1>4 DEF HandsOver

\* A turn is in flight only on a sandbox that is up, or else a handler has its
\* strand still to come, provided that no process ends between the two
\* transactions of a report (applyRunnerEvent: "A sandbox that went down takes
\* its in-flight turns with it").
THEOREM InFlightIsServedHolds ==
    ASSUME "crash" \notin Feature
    PROVE  Spec => []InFlightIsServed
<1>1. Init => ServedInv
  BY DEF Init, EmptyTable, EmptyRow, ServedInv, InFlightIsServed, ResetIdle, NoneInFlight, InFlight
<1>2. TypeInv /\ ServedInv /\ [Next]_vars => ServedInv'
  <2> SUFFICES ASSUME TypeInv, ServedInv, [Next]_vars PROVE ServedInv'
    OBVIOUS
  <2>1. CASE NoneInFlight'
    BY <2>1 DEF ServedInv, InFlightIsServed, ResetIdle, NoneInFlight
  <2>2. ASSUME NEW t \in Turn, turns'[t].status \in InFlight
        PROVE  ServedInv'
    <3>1. /\ \A g \in Handler : At(g, "event.strand") => At(g, "event.strand")'
          /\ sandbox.status = "running" =>
               sandbox'.status = "running" \/ \E g \in Handler : At(g, "event.strand")'
          /\ sandbox'.stopRequested => sandbox.stopRequested
      BY <2>2, ServedNext DEF ServedStep, NoneInFlight
    <3>2. CASE turns[t].status \in InFlight
      <4>1. /\ sandbox.status = "running" \/ \E g \in Handler : At(g, "event.strand")
            /\ ~sandbox.stopRequested
        BY <3>2 DEF ServedInv, InFlightIsServed, ResetIdle, NoneInFlight
      <4> QED
        BY <3>1, <4>1 DEF ServedInv, InFlightIsServed, ResetIdle
    <3>3. CASE turns[t].status \notin InFlight
      BY <2>2, <3>3, FlightNext DEF ServedInv, InFlightIsServed, ResetIdle
    <3> QED
      BY <3>2, <3>3
  <2> QED
    BY <2>1, <2>2 DEF NoneInFlight
<1>3. ServedInv => InFlightIsServed
  BY DEF ServedInv
<1> QED
  BY <1>1, <1>2, <1>3, TypeInvAlways, PTL DEF Spec

-----------------------------------------------------------------------------
(***************************************************************************)
(* The plane implements TurnLifecycle.                                     *)
(***************************************************************************)
\* An edge of the lifecycle, in terms of the rows before and after a step.
Edge(r, s) ==
    /\ \/ s.status = r.status
       \/ r.status = "none" /\ s.status \in {"queued", "joining"}
       \/ r.status = "joining" /\ s.status = "queued"
       \/ r.status = "queued" /\ s.status = "dispatched"
       \/ Ends(r, s) \/ Requeues(r, s)
    /\ s.conv # r.conv =>
         r.status = "none" /\ s.status \in {"queued", "joining"} /\ s.conv \in Conversation
    /\ s.retried # r.retried => Requeues(r, s)
    /\ s.delivered # r.delivered => s.delivered /\ r.status = "joining" /\ s.status = "joining"

LEMMA EdgeNext ==
    ASSUME TypeInv, RowsFresh, SteerInv, [Next]_vars, TRUE \notin BlockerAnswers, NEW t \in Turn
    PROVE  Edge(turns[t], turns'[t])
<1>0. turns \in Table /\ turns' \in Table
  BY RowsNext DEF TypeInv, TypeOK
<1>1. turns[t] \in Row /\ turns'[t] \in Row
  BY <1>0 DEF Table
<1>2. CASE TableSettles(turns, turns')
  <2>1. Settles(turns[t], turns'[t])
    BY <1>2 DEF TableSettles
  <2>2. CASE Stays(turns[t], turns'[t])
    BY <2>1, <2>2 DEF Settles, Stays, Edge
  <2>3. CASE Ends(turns[t], turns'[t])
    <3>1. turns'[t].retried = turns[t].retried
      BY <2>3 DEF Ends
    <3> QED
      BY <2>1, <2>3, <3>1 DEF Settles, Edge
  <2>4. CASE Requeues(turns[t], turns'[t])
    BY <2>1, <2>4 DEF Settles, Edge
  <2> QED
    BY <2>1, <2>2, <2>3, <2>4 DEF Settles
<1>3. CASE turns'[t] = turns[t]
  BY <1>3 DEF Edge
<1>4. CASE Adds
  <2>1. PICK u \in Turn, c \in Conversation, status \in {"queued", "joining"},
             target \in Turn \cup {NoTurn} :
               IsNextTurn(turns, u) /\ turns' = insertTurn(turns, u, c, status, target)
    BY <1>4 DEF Adds
  <2>2. CASE t = u
    <3>1. turns[t].status = "none" /\ ~turns[t].retried /\ ~turns[t].delivered
      BY <2>1, <2>2 DEF IsNextTurn, RowsFresh, SteerInv, NoneSteered
    <3>2. /\ turns'[t].status \in {"queued", "joining"} /\ turns'[t].conv \in Conversation
          /\ ~turns'[t].delivered /\ ~turns'[t].retried
      BY <1>0, <2>1, <2>2, AddedRow
    <3>3. turns'[t].delivered = turns[t].delivered /\ turns'[t].retried = turns[t].retried
      BY <1>1, <3>1, <3>2 DEF Row
    <3> QED
      BY <3>1, <3>2, <3>3 DEF Edge
  <2>3. CASE t # u
    BY <1>0, <1>3, <2>1, <2>3, AddedRow
  <2> QED
    BY <2>2, <2>3
<1>5. CASE Flips(turns, turns') \/ Blocks(turns, turns')
  <2>1. PICK u \in Turn : /\ turns[u].status = "joining"
                          /\ turns' = [turns EXCEPT ![u].status = "queued"]
    BY <1>5, WritesOne
  <2>2. CASE t = u
    <3>1. /\ turns'[t].status = "queued" /\ turns'[t].conv = turns[t].conv
          /\ turns'[t].delivered = turns[t].delivered /\ turns'[t].retried = turns[t].retried
      BY <1>0, <2>1, <2>2, WrittenRow
    <3> QED
      BY <2>1, <2>2, <3>1 DEF Edge
  <2>3. CASE t # u
    BY <1>0, <1>3, <2>1, <2>3, WrittenRow
  <2> QED
    BY <2>2, <2>3
<1>6. CASE Hands
  <2>1. PICK K \in SUBSET Turn : HandsOver(K)
    BY <1>6 DEF Hands
  <2>2. /\ turns'[t].conv = turns[t].conv /\ turns'[t].retried = turns[t].retried
        /\ turns'[t].status = IF t \in K THEN "dispatched" ELSE turns[t].status
        /\ t \in K => turns[t].status \in {"queued", "dispatched"}
        /\ turns[t].delivered => turns'[t].delivered
        /\ turns'[t].delivered => turns[t].delivered \/ t \in claimableSteers(turns)
    BY <2>1 DEF HandsOver
  <2>3. CASE turns'[t].delivered = turns[t].delivered
    BY <2>2, <2>3 DEF Edge
  <2>4. CASE turns'[t].delivered # turns[t].delivered
    <3>1. turns'[t].delivered /\ t \in claimableSteers(turns)
      BY <1>1, <2>2, <2>4 DEF Row
    <3>2. turns[t].status = "joining"
      BY <3>1 DEF claimableSteers
    <3> QED
      BY <2>2, <3>1, <3>2 DEF Edge
  <2> QED
    BY <2>3, <2>4
<1> QED
  BY <1>2, <1>4, <1>5, <1>6, PlaneNext DEF PlaneStep, WritesRows

\* An edge of the rows is an edge of the lifecycle.
LEMMA EdgeRefines ==
    ASSUME NEW t \in Turn, Edge(turns[t], turns'[t])
    PROVE  Lifecycle!Lifecycle(t)
<1> USE DEF Lifecycle!Becomes, Lifecycle!InFlight, Lifecycle!Active, InFlight, Active
<1>1. \/ turns'[t].status = turns[t].status
      \/ Lifecycle!Sent(t) \/ Lifecycle!Promoted(t) \/ Lifecycle!HandedOver(t)
      \/ Lifecycle!Begun(t) \/ Lifecycle!Recovered(t) \/ Lifecycle!Closed(t)
  <2>1. CASE Ends(turns[t], turns'[t])
    BY <2>1 DEF Ends, Lifecycle!Begun, Lifecycle!Closed
  <2>2. CASE Requeues(turns[t], turns'[t])
    BY <2>2 DEF Requeues, Lifecycle!Recovered
  <2> QED
    BY <2>1, <2>2 DEF Edge, Lifecycle!Sent, Lifecycle!Promoted, Lifecycle!HandedOver
<1>2. turns'[t].conv # turns[t].conv => Lifecycle!Sent(t) /\ turns'[t].conv \in Conversation
  BY DEF Edge, Lifecycle!Sent
<1>3. turns'[t].retried # turns[t].retried => Lifecycle!Recovered(t)
  BY DEF Edge, Requeues, Lifecycle!Recovered
<1>4. turns'[t].delivered # turns[t].delivered =>
        turns'[t].delivered /\ turns[t].status = "joining" /\ turns'[t].status = "joining"
  BY DEF Edge
<1> QED
  BY <1>1, <1>2, <1>3, <1>4 DEF Lifecycle!Lifecycle

\* Every behaviour of the plane is one of TurnLifecycle, provided that
\* createTurn's credential check never fails a turn: no interleaving of
\* handlers, polls, reports, deaths and crashes moves a message along an edge
\* the lifecycle does not have (turn-service.ts, due-work.ts).
THEOREM ImplementsLifecycleHolds ==
    ASSUME TRUE \notin BlockerAnswers
    PROVE  Spec => ImplementsLifecycle
<1>1. Init => Lifecycle!Init
  BY DEF Init, EmptyTable, EmptyRow, Lifecycle!Init, NoConversation
<1>2. /\ TypeInv /\ RowsFresh /\ SteerInv /\ OneActivePerConversation /\ [Next]_vars
      => [Lifecycle!Next]_(Lifecycle!vars)
  <2> SUFFICES ASSUME TypeInv, RowsFresh, SteerInv, OneActivePerConversation, [Next]_vars
               PROVE  Lifecycle!Next
    OBVIOUS
  <2>1. \A t \in Turn : Lifecycle!Lifecycle(t)
    BY EdgeNext, EdgeRefines
  <2>2. OneActive(turns')
    BY OneActiveNext DEF OneActivePerConversation
  <2>3. Lifecycle!OneActive'
    BY <2>2 DEF OneActive, Active, InFlight, Lifecycle!OneActive, Lifecycle!Active, Lifecycle!InFlight
  <2> QED
    BY <2>1, <2>3 DEF Lifecycle!Next
<1>3. Init => RowsFresh
  BY DEF Init, EmptyTable, EmptyRow, RowsFresh
<1>4. Spec => []RowsFresh
  BY <1>3, RowsFreshNext, TypeInvAlways, PTL DEF Spec
<1> QED
  BY <1>1, <1>2, <1>4, TypeInvAlways, SteerInvAlways, OneActiveHolds, PTL
     DEF Spec, ImplementsLifecycle, Lifecycle!Spec
=============================================================================
