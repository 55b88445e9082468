--------------------------- MODULE TurnRowsProofs ---------------------------
(***************************************************************************)
(* Facts about the statements of TurnRows, for any set of turns and        *)
(* conversations: each one leaves a table behind, and each one but the     *)
(* INSERT and the promotion moves every row along the order Moves.         *)
(***************************************************************************)
EXTENDS TurnRows, TLAPS

\* What may happen to a row, in any number of statements, while no INSERT
\* and no promotion touches it.  The relation is transitive, so it holds of
\* a transaction when it holds of its statements.
Moves(r, s) ==
    /\ s.conv = r.conv
    /\ s.followUpOf = r.followUpOf
    /\ s.status = "none" <=> r.status = "none"
    /\ s.status \in Active => r.status \in Active
    /\ s.status = "joining" => r.status = "joining"
    /\ r.status \in Terminal => s.status = r.status
    /\ r.retried => s.retried
    /\ r.status = "none" => s.retried = r.retried
    /\ r.status \in InFlight /\ s.status = "queued" => ~r.retried /\ s.retried
    /\ r.delivered => s.delivered
    /\ s.status = "joined" => r.status = "joined" \/ s.delivered

TableMoves(tab, new) == \A t \in Turn : Moves(tab[t], new[t])

\* The rows a statement does not steer keep their hand-over clock.
SteersNothing(tab, new) == \A t \in Turn : new[t].delivered = tab[t].delivered

-----------------------------------------------------------------------------
\* Moves is a preorder on rows: statements compose to transactions.
LEMMA MovesRefl == \A r \in Row : Moves(r, r)
  BY DEF Moves, Row, InFlight

LEMMA MovesTrans ==
    ASSUME NEW a \in Table, NEW b \in Table, NEW c \in Table,
           TableMoves(a, b), TableMoves(b, c)
    PROVE  TableMoves(a, c)
<1> SUFFICES ASSUME NEW t \in Turn PROVE Moves(a[t], c[t])
  BY DEF TableMoves
<1>1. a[t] \in Row /\ b[t] \in Row /\ c[t] \in Row
  BY DEF Table
<1>2. Moves(a[t], b[t]) /\ Moves(b[t], c[t])
  BY DEF TableMoves
<1> QED
  BY <1>1, <1>2 DEF Moves, Row, Status, Active, InFlight, Terminal

\* close, the UPDATE that only writes an outcome, into anything but "joined".
LEMMA CloseMoves ==
    ASSUME NEW tab \in Table, NEW where, NEW from,
           from \subseteq Active \cup {"joining"},
           NEW to \in {"done", "failed", "aborted"}
    PROVE  /\ close(tab, where, from, to) \in Table
           /\ TableMoves(tab, close(tab, where, from, to))
           /\ SteersNothing(tab, close(tab, where, from, to))
<1> DEFINE new == close(tab, where, from, to)
<1>1. ASSUME NEW t \in Turn
      PROVE  /\ new[t] \in Row
             /\ Moves(tab[t], new[t])
             /\ new[t].delivered = tab[t].delivered
  <2>1. tab[t] \in Row
    BY DEF Table
  <2>2. CASE t \in where /\ tab[t].status \in from
    <3>1. new[t] = [tab[t] EXCEPT !.status = to]
      BY <2>2 DEF close
    <3> QED
      BY <2>1, <2>2, <3>1 DEF Moves, Row, Status, Active, InFlight, Terminal
  <2>3. CASE ~(t \in where /\ tab[t].status \in from)
    <3>1. new[t] = tab[t]
      BY <2>3 DEF close
    <3> QED
      BY <2>1, <3>1, MovesRefl
  <2> QED
    BY <2>2, <2>3
<1>2. new = [t \in Turn |-> new[t]]
  BY DEF close
<1> QED
  BY <1>1, <1>2 DEF TableMoves, SteersNothing, Table

\* The two recoveries re-queue a row that is in flight and spend its once-fence.
LEMMA ReviveMoves ==
    ASSUME NEW tab \in Table, NEW where
    PROVE  /\ reviveColdTurns(tab, where) \in Table
           /\ TableMoves(tab, reviveColdTurns(tab, where))
           /\ SteersNothing(tab, reviveColdTurns(tab, where))
<1> DEFINE new == reviveColdTurns(tab, where)
<1>1. ASSUME NEW t \in Turn
      PROVE  /\ new[t] \in Row
             /\ Moves(tab[t], new[t])
             /\ new[t].delivered = tab[t].delivered
  <2>1. tab[t] \in Row
    BY DEF Table
  <2>2. CASE new[t] = tab[t]
    BY <2>1, <2>2, MovesRefl
  <2>3. CASE (tab[t].status = "dispatched" /\ ~tab[t].retried) /\ new[t] = [tab[t] EXCEPT !.status = "queued", !.retried = TRUE]
    BY <2>1, <2>3 DEF Moves, Row, Status, Active, InFlight, Terminal
  <2> QED
    BY <2>2, <2>3 DEF reviveColdTurns
<1>2. new = [t \in Turn |-> new[t]]
  BY DEF reviveColdTurns
<1> QED
  BY <1>1, <1>2 DEF TableMoves, SteersNothing, Table

\* See ReviveMoves.
LEMMA ResumeMoves ==
    ASSUME NEW tab \in Table, NEW where
    PROVE  /\ resumeInterruptedTurns(tab, where) \in Table
           /\ TableMoves(tab, resumeInterruptedTurns(tab, where))
           /\ SteersNothing(tab, resumeInterruptedTurns(tab, where))
<1> DEFINE new == resumeInterruptedTurns(tab, where)
<1>1. ASSUME NEW t \in Turn
      PROVE  /\ new[t] \in Row
             /\ Moves(tab[t], new[t])
             /\ new[t].delivered = tab[t].delivered
  <2>1. tab[t] \in Row
    BY DEF Table
  <2>2. CASE new[t] = tab[t]
    BY <2>1, <2>2, MovesRefl
  <2>3. CASE (tab[t].status \in InFlight /\ ~tab[t].retried) /\ new[t] = [tab[t] EXCEPT !.status = "queued", !.retried = TRUE,
                                            !.beat = FALSE, !.warned = FALSE]
    BY <2>1, <2>3 DEF Moves, Row, Status, Active, InFlight, Terminal
  <2> QED
    BY <2>2, <2>3 DEF resumeInterruptedTurns
<1>2. new = [t \in Turn |-> new[t]]
  BY DEF resumeInterruptedTurns
<1> QED
  BY <1>1, <1>2 DEF TableMoves, SteersNothing, Table

\* abortTurn's flag moves no row.
LEMMA RequestAbortMoves ==
    ASSUME NEW tab \in Table, NEW where
    PROVE  /\ requestAbort(tab, where) \in Table
           /\ TableMoves(tab, requestAbort(tab, where))
           /\ SteersNothing(tab, requestAbort(tab, where))
<1> DEFINE new == requestAbort(tab, where)
<1>1. ASSUME NEW t \in Turn
      PROVE  /\ new[t] \in Row
             /\ Moves(tab[t], new[t])
             /\ new[t].delivered = tab[t].delivered
  <2>1. tab[t] \in Row
    BY DEF Table
  <2>2. CASE new[t] = tab[t]
    BY <2>1, <2>2, MovesRefl
  <2>3. CASE new[t] = [tab[t] EXCEPT !.abortRequested = TRUE]
    BY <2>1, <2>3 DEF Moves, Row, Status, Active, InFlight, Terminal
  <2> QED
    BY <2>2, <2>3 DEF requestAbort
<1>2. new = [t \in Turn |-> new[t]]
  BY DEF requestAbort
<1> QED
  BY <1>1, <1>2 DEF TableMoves, SteersNothing, Table

\* The abort arm clears flags and moves no row.
LEMMA ClaimAbortsMoves ==
    ASSUME NEW tab \in Table
    PROVE  /\ claimAborts(tab) \in Table
           /\ TableMoves(tab, claimAborts(tab))
           /\ SteersNothing(tab, claimAborts(tab))
<1> DEFINE new == claimAborts(tab)
<1>1. ASSUME NEW t \in Turn
      PROVE  /\ new[t] \in Row
             /\ Moves(tab[t], new[t])
             /\ new[t].delivered = tab[t].delivered
  <2>1. tab[t] \in Row
    BY DEF Table
  <2>2. CASE new[t] = tab[t]
    BY <2>1, <2>2, MovesRefl
  <2>3. CASE new[t] = [tab[t] EXCEPT !.abortRequested = FALSE]
    BY <2>1, <2>3 DEF Moves, Row, Status, Active, InFlight, Terminal
  <2> QED
    BY <2>2, <2>3 DEF claimAborts
<1>2. new = [t \in Turn |-> new[t]]
  BY DEF claimAborts
<1> QED
  BY <1>1, <1>2 DEF TableMoves, SteersNothing, Table

\* The steer arm stamps deliveries; it is the one statement that does.
LEMMA ClaimSteersMoves ==
    ASSUME NEW tab \in Table
    PROVE  /\ claimSteers(tab) \in Table
           /\ TableMoves(tab, claimSteers(tab))
<1> DEFINE new == claimSteers(tab)
<1>1. ASSUME NEW t \in Turn
      PROVE  /\ new[t] \in Row
             /\ Moves(tab[t], new[t])
  <2>1. tab[t] \in Row
    BY DEF Table
  <2>2. CASE new[t] = tab[t]
    BY <2>1, <2>2, MovesRefl
  <2>3. CASE new[t] = [tab[t] EXCEPT !.delivered = TRUE]
    BY <2>1, <2>3 DEF Moves, Row, Status, Active, InFlight, Terminal
  <2> QED
    BY <2>2, <2>3 DEF claimSteers
<1>2. new = [t \in Turn |-> new[t]]
  BY DEF claimSteers
<1> QED
  BY <1>1, <1>2 DEF TableMoves, Table

\* The ceiling warning stamps its own fence.
LEMMA ClaimWarningsMoves ==
    ASSUME NEW tab \in Table, NEW near
    PROVE  /\ claimCeilingWarnings(tab, near) \in Table
           /\ TableMoves(tab, claimCeilingWarnings(tab, near))
           /\ SteersNothing(tab, claimCeilingWarnings(tab, near))
<1> DEFINE new == claimCeilingWarnings(tab, near)
<1>1. ASSUME NEW t \in Turn
      PROVE  /\ new[t] \in Row
             /\ Moves(tab[t], new[t])
             /\ new[t].delivered = tab[t].delivered
  <2>1. tab[t] \in Row
    BY DEF Table
  <2>2. CASE new[t] = tab[t]
    BY <2>1, <2>2, MovesRefl
  <2>3. CASE new[t] = [tab[t] EXCEPT !.warned = TRUE]
    BY <2>1, <2>3 DEF Moves, Row, Status, Active, InFlight, Terminal
  <2> QED
    BY <2>2, <2>3 DEF claimCeilingWarnings
<1>2. new = [t \in Turn |-> new[t]]
  BY DEF claimCeilingWarnings
<1> QED
  BY <1>1, <1>2 DEF TableMoves, SteersNothing, Table

\* The turn arm hands over queued rows, and stale ones again.
LEMMA ClaimTurnsMoves ==
    ASSUME NEW tab \in Table, NEW stale
    PROVE  /\ claimTurns(tab, stale) \in Table
           /\ TableMoves(tab, claimTurns(tab, stale))
           /\ SteersNothing(tab, claimTurns(tab, stale))
<1> DEFINE new == claimTurns(tab, stale)
<1>1. ASSUME NEW t \in Turn
      PROVE  /\ new[t] \in Row
             /\ Moves(tab[t], new[t])
             /\ new[t].delivered = tab[t].delivered
  <2>1. tab[t] \in Row
    BY DEF Table
  <2>2. CASE new[t] = tab[t]
    BY <2>1, <2>2, MovesRefl
  <2>3. CASE tab[t].status \in {"queued", "dispatched"} /\ new[t] = [tab[t] EXCEPT !.status = "dispatched"]
    BY <2>1, <2>3 DEF Moves, Row, Status, Active, InFlight, Terminal
  <2> QED
    BY <2>2, <2>3 DEF claimTurns, claimableTurns
<1>2. new = [t \in Turn |-> new[t]]
  BY DEF claimTurns
<1> QED
  BY <1>1, <1>2 DEF TableMoves, SteersNothing, Table

\* The send-now arm clears its flag.
LEMMA ClaimSendNowsMoves ==
    ASSUME NEW tab \in Table
    PROVE  /\ claimSendNows(tab) \in Table
           /\ TableMoves(tab, claimSendNows(tab))
           /\ SteersNothing(tab, claimSendNows(tab))
<1> DEFINE new == claimSendNows(tab)
<1>1. ASSUME NEW t \in Turn
      PROVE  /\ new[t] \in Row
             /\ Moves(tab[t], new[t])
             /\ new[t].delivered = tab[t].delivered
  <2>1. tab[t] \in Row
    BY DEF Table
  <2>2. CASE new[t] = tab[t]
    BY <2>1, <2>2, MovesRefl
  <2>3. CASE new[t] = [tab[t] EXCEPT !.sendNow = FALSE]
    BY ZenonT(40), <2>1, <2>3 DEF Moves, Row, Status, Active, InFlight, Terminal
  <2> QED
    BY <2>2, <2>3 DEF claimSendNows
<1>2. new = [t \in Turn |-> new[t]]
  BY DEF claimSendNows
<1> QED
  BY <1>1, <1>2 DEF TableMoves, SteersNothing, Table

\* The ceiling sweep fails active rows.
LEMMA ReclaimMoves ==
    ASSUME NEW tab \in Table, NEW expired
    PROVE  /\ reclaimStaleTurns(tab, expired) \in Table
           /\ TableMoves(tab, reclaimStaleTurns(tab, expired))
           /\ SteersNothing(tab, reclaimStaleTurns(tab, expired))
<1> DEFINE new == reclaimStaleTurns(tab, expired)
<1>1. ASSUME NEW t \in Turn
      PROVE  /\ new[t] \in Row
             /\ Moves(tab[t], new[t])
             /\ new[t].delivered = tab[t].delivered
  <2>1. tab[t] \in Row
    BY DEF Table
  <2>2. CASE new[t] = tab[t]
    BY <2>1, <2>2, MovesRefl
  <2>3. CASE tab[t].status \in Active /\ new[t] = [tab[t] EXCEPT !.status = "failed",
                                            !.abortRequested = tab[t].started]
    BY <2>1, <2>3 DEF Moves, Row, Status, Active, InFlight, Terminal
  <2> QED
    BY <2>2, <2>3 DEF reclaimStaleTurns
<1>2. new = [t \in Turn |-> new[t]]
  BY DEF reclaimStaleTurns
<1> QED
  BY <1>1, <1>2 DEF TableMoves, SteersNothing, Table

\* The stall sweep fails running rows.
LEMMA StalledMoves ==
    ASSUME NEW tab \in Table, NEW silent
    PROVE  /\ failStalledTurns(tab, silent) \in Table
           /\ TableMoves(tab, failStalledTurns(tab, silent))
           /\ SteersNothing(tab, failStalledTurns(tab, silent))
<1> DEFINE new == failStalledTurns(tab, silent)
<1>1. ASSUME NEW t \in Turn
      PROVE  /\ new[t] \in Row
             /\ Moves(tab[t], new[t])
             /\ new[t].delivered = tab[t].delivered
  <2>1. tab[t] \in Row
    BY DEF Table
  <2>2. CASE new[t] = tab[t]
    BY <2>1, <2>2, MovesRefl
  <2>3. CASE tab[t].status = "running" /\ new[t] = [tab[t] EXCEPT !.status = "failed",
                                            !.abortRequested = TRUE]
    BY <2>1, <2>3 DEF Moves, Row, Status, Active, InFlight, Terminal
  <2> QED
    BY <2>2, <2>3 DEF failStalledTurns
<1>2. new = [t \in Turn |-> new[t]]
  BY DEF failStalledTurns
<1> QED
  BY <1>1, <1>2 DEF TableMoves, SteersNothing, Table

\* A follow-up joins only when it was delivered.
LEMMA SettleMoves ==
    ASSUME NEW tab \in Table, NEW target, NEW followUps
    PROVE  /\ settleJoinedFollowUps(tab, target, followUps) \in Table
           /\ TableMoves(tab, settleJoinedFollowUps(tab, target, followUps))
           /\ SteersNothing(tab, settleJoinedFollowUps(tab, target, followUps))
<1> DEFINE new == settleJoinedFollowUps(tab, target, followUps)
<1>1. ASSUME NEW t \in Turn
      PROVE  /\ new[t] \in Row
             /\ Moves(tab[t], new[t])
             /\ new[t].delivered = tab[t].delivered
  <2>1. tab[t] \in Row
    BY DEF Table
  <2>2. CASE new[t] = tab[t]
    BY <2>1, <2>2, MovesRefl
  <2>3. CASE /\ tab[t].status = "joining"
             /\ tab[t].delivered
             /\ new[t] = [tab[t] EXCEPT !.status = "joined"]
    BY <2>1, <2>3 DEF Moves, Row, Status, Active, InFlight, Terminal
  <2> QED
    BY <2>2, <2>3 DEF settleJoinedFollowUps, close
<1>2. new = [t \in Turn |-> new[t]]
  BY DEF settleJoinedFollowUps, close
<1> QED
  BY <1>1, <1>2 DEF TableMoves, SteersNothing, Table

\* Transactions steer nothing when their statements do not.
LEMMA SteersNothingTrans ==
    ASSUME NEW a, NEW b, NEW c, SteersNothing(a, b), SteersNothing(b, c)
    PROVE  SteersNothing(a, c)
  BY DEF SteersNothing

\* The transaction of a sandbox death.
LEMMA StrandMoves ==
    ASSUME NEW tab \in Table, NEW where
    PROVE  /\ strandTurns(tab, where) \in Table
           /\ TableMoves(tab, strandTurns(tab, where))
           /\ SteersNothing(tab, strandTurns(tab, where))
<1> DEFINE revived == reviveColdTurns(tab, where)
           resumed == resumeInterruptedTurns(revived, where)
           failed  == failStrandedTurns(resumed, where)
<1>1. revived \in Table /\ TableMoves(tab, revived) /\ SteersNothing(tab, revived)
  BY ReviveMoves
<1> HIDE DEF revived
<1>2. resumed \in Table /\ TableMoves(revived, resumed) /\ SteersNothing(revived, resumed)
  BY <1>1, ResumeMoves
<1> HIDE DEF resumed
<1>3. failed \in Table /\ TableMoves(resumed, failed) /\ SteersNothing(resumed, failed)
  <2>1. InFlight \subseteq Active \cup {"joining"}
    BY DEF Active
  <2> QED
    BY <1>2, <2>1, CloseMoves DEF failStrandedTurns
<1> HIDE DEF failed
<1>4. TableMoves(tab, failed) /\ SteersNothing(tab, failed)
  BY <1>1, <1>2, <1>3, MovesTrans, SteersNothingTrans
<1>5. strandTurns(tab, where) = failed
  BY DEF strandTurns, revived, resumed, failed
<1> QED
  BY <1>3, <1>4, <1>5

\* The transaction of a close that won.
LEMMA FinishMoves ==
    ASSUME NEW tab \in Table, NEW t, NEW outcome \in {"done", "failed", "aborted"},
           NEW followUps
    PROVE  /\ finishTurnClose(tab, t, outcome, followUps) \in Table
           /\ TableMoves(tab, finishTurnClose(tab, t, outcome, followUps))
           /\ SteersNothing(tab, finishTurnClose(tab, t, outcome, followUps))
<1> DEFINE closed  == close(tab, {t}, closableBy(outcome), outcome)
           settled == settleJoinedFollowUps(closed, t, followUps)
           swept   == close(settled, JoiningIn(settled, settled[t].conv), {"joining"}, "aborted")
<1>1. closed \in Table /\ TableMoves(tab, closed) /\ SteersNothing(tab, closed)
  <2>1. closableBy(outcome) \subseteq Active \cup {"joining"}
    BY DEF closableBy, Active
  <2> QED
    BY <2>1, CloseMoves
<1> HIDE DEF closed
<1>2. settled \in Table /\ TableMoves(closed, settled) /\ SteersNothing(closed, settled)
  BY <1>1, SettleMoves
<1>3. TableMoves(tab, settled) /\ SteersNothing(tab, settled)
  BY <1>1, <1>2, MovesTrans, SteersNothingTrans
<1> HIDE DEF settled
<1>4. swept \in Table /\ TableMoves(settled, swept) /\ SteersNothing(settled, swept)
  BY <1>2, CloseMoves
<1>5. TableMoves(tab, swept) /\ SteersNothing(tab, swept)
  BY <1>2, <1>3, <1>4, MovesTrans, SteersNothingTrans
<1>6. finishTurnClose(tab, t, outcome, followUps) \in {settled, swept}
  BY DEF finishTurnClose, closed, settled, swept
<1> QED
  BY <1>2, <1>3, <1>4, <1>5, <1>6

\* A change of one row that moves it.
LEMMA OneRowMoves ==
    ASSUME NEW tab \in Table, NEW t \in Turn, NEW r \in Row, Moves(tab[t], r)
    PROVE  /\ [tab EXCEPT ![t] = r] \in Table
           /\ TableMoves(tab, [tab EXCEPT ![t] = r])
<1> DEFINE new == [tab EXCEPT ![t] = r]
<1>1. new \in Table
  BY DEF Table
<1>2. ASSUME NEW u \in Turn PROVE Moves(tab[u], new[u])
  <2>1. CASE u = t
    BY <2>1 DEF Table
  <2>2. CASE u # t
    BY <2>2, MovesRefl DEF Table
  <2> QED
    BY <2>1, <2>2
<1> QED
  BY <1>1, <1>2 DEF TableMoves
=============================================================================
