---------------------- MODULE ConversationPlaneProofs ----------------------
(***************************************************************************)
(* Theorems about ConversationPlane, for every set of turns, conversations *)
(* and handlers, every bound and every choice of features.                 *)
(***************************************************************************)
EXTENDS ConversationPlane, TurnRowsProofs

\* Before the first start claim there is no container, so nothing to report.
FirstBoot ==
    boot = 0 =>
        /\ ~composing
        /\ work = << >>
        /\ booting = {}
        /\ sandbox.status = "unprovisioned"
        /\ sandbox.containerRef = NoRef
        /\ \A h \in Handler : ~At(h, "event.status")

\* The steps at which a handler works for a conversation that exists: from
\* here it may insert a row into it.
AboutConversation ==
    {"send.read", "send.reread", "send.insert", "send.count", "send.park", "send.recheck",
     "create.insert", "promote.stopped", "promote.oldest", "promote.flip", "promote.wake"}

GoodRequest(r) ==
    /\ r \in Request
    /\ r.step \in AboutTurn => r.turn \in Turn
    /\ r.step \in AboutConversation => r.conv \in Conversation

ReqOK == req \in [Handler -> Request] /\ \A h \in Handler : GoodRequest(req[h])

\* A row in the table belongs to a conversation that exists.
RowsHome == \A t \in Turn : turns[t].status # "none" => turns[t].conv \in Conversation

\* The row a handler is about to write by its id is in the table; the one it
\* is about to promote is of the conversation it promotes in.
HeldRows ==
    \A h \in Handler :
        /\ At(h, "create.blocker") => turns[req[h].turn].status # "none"
        /\ At(h, "promote.flip") => /\ turns[req[h].turn].status # "none"
                                    /\ turns[req[h].turn].conv = req[h].conv

\* The inductive invariant behind the type invariant.
TypeInv == TypeOK /\ FirstBoot /\ ReqOK /\ RowsHome /\ HeldRows

\* A row that is not in the table has not spent its recovery.
RowsFresh == \A t \in Turn : turns[t].status = "none" => ~turns[t].retried

-----------------------------------------------------------------------------
(***************************************************************************)
(* What a step does to the requests.                                       *)
(***************************************************************************)
\* The steps TypeInv says more about than GoodRequest.
Special == {"event.status", "create.blocker", "promote.flip"}

\* The requests stay well-formed, and none arrives at a special step.
ReqStep == ReqOK' /\ \A g \in Handler : req'[g] = req[g] \/ req'[g].step \notin Special

\* A handler that goes on to a well-formed request leaves all well-formed.
LEMMA GotoOK ==
    ASSUME ReqOK, NEW h \in Handler, NEW r, GoodRequest(r), Goto(h, r)
    PROVE  /\ ReqOK'
           /\ \A g \in Handler : req'[g] = IF g = h THEN r ELSE req[g]
           /\ r.step \notin Special => ReqStep
<1>1. req' = [req EXCEPT ![h] = r] /\ req \in [Handler -> Request] /\ r \in Request
  BY DEF Goto, ReqOK, GoodRequest
<1>2. \A g \in Handler : req'[g] = IF g = h THEN r ELSE req[g]
  BY <1>1
<1>3. req' \in [Handler -> Request]
  BY <1>1
<1>4. \A g \in Handler : GoodRequest(req'[g])
  BY <1>2 DEF ReqOK
<1>5. ReqOK'
  BY <1>3, <1>4 DEF ReqOK, GoodRequest
<1> QED
  BY <1>2, <1>5 DEF ReqStep

\* No handler goes on.
LEMMA SameReq ==
    ASSUME ReqOK, req' = req
    PROVE  ReqStep
  BY DEF ReqOK, ReqStep, GoodRequest

\* Ending a request, and the next statement of the same one.
LEMMA NoRequestGood == GoodRequest(NoRequest) /\ NoRequest.step = "idle"
  BY DEF GoodRequest, NoRequest, Request, Step, Reason, Ref, AboutTurn, AboutConversation,
     SEND_ATTEMPTS

LEMMA EndOK ==
    ASSUME ReqOK, NEW h \in Handler, End(h)
    PROVE  ReqStep
<1>1. "idle" \notin Special
  BY DEF Special
<1> QED
  BY <1>1, GotoOK, NoRequestGood DEF End

LEMMA ContinueOK ==
    ASSUME ReqOK, NEW h \in Handler, NEW step \in Step, Continue(h, step), step \notin Special,
           step \in AboutTurn => req[h].turn \in Turn,
           step \in AboutConversation => req[h].conv \in Conversation
    PROVE  ReqStep
<1> DEFINE r == [req[h] EXCEPT !.step = step]
<1>1. req[h] \in Request
  BY DEF ReqOK
<1>2. GoodRequest(r) /\ r.step = step
  BY <1>1 DEF GoodRequest, Request
<1>3. Goto(h, r)
  BY DEF Continue
<1> HIDE DEF r
<1> QED
  BY <1>2, <1>3, GotoOK

\* The head of a promotion.
LEMMA PromotionGood ==
    ASSUME NEW c \in Conversation, NEW ret \in {"end", "send"}, NEW tries \in 0 .. SEND_ATTEMPTS
    PROVE  /\ GoodRequest(promotion(c, ret, tries))
           /\ promotion(c, ret, tries).step = "promote.stopped"
  BY DEF promotion, GoodRequest, NoRequest, Request, Step, Reason, Ref, AboutTurn,
     AboutConversation, SEND_ATTEMPTS

-----------------------------------------------------------------------------
(***************************************************************************)
(* What a step does to the table of turns.                                 *)
(***************************************************************************)
\* An INSERT, which the index lets pass.
Inserts(tab, new) ==
    \E t \in Turn, c \in Conversation,
       status \in {"queued", "joining"}, target \in Turn \cup {NoTurn} :
        /\ tab[t].status = "none"
        /\ status = "queued" => ActiveIn(tab, c) = {}
        /\ new = insertTurn(tab, t, c, status, target)

\* A promotion, which the index lets pass.
Flips(tab, new) ==
    \E h \in Handler :
        /\ At(h, "promote.flip")
        /\ tab[req[h].turn].status = "joining"
        /\ ActiveIn(tab, req[h].conv) = {}
        /\ new = promoteFollowUp(tab, req[h].turn)

\* Door 1 of the credential check.
Blocks(tab, new) ==
    \E h \in Handler :
        /\ At(h, "create.blocker")
        /\ TRUE \in BlockerAnswers
        /\ new = failBlockedTurn(tab, req[h].turn)

RowsStep(tab, new) ==
    TableMoves(tab, new) \/ Inserts(tab, new) \/ Flips(tab, new) \/ Blocks(tab, new)

\* A step that leaves the table alone.
LEMMA SameRows ==
    ASSUME turns \in Table, turns' = turns
    PROVE  turns' \in Table /\ RowsStep(turns, turns')
<1>1. \A t \in Turn : turns[t] \in Row
  BY DEF Table
<1> QED
  BY <1>1, MovesRefl DEF RowsStep, TableMoves

\* The two statements that bring a row into play leave a table behind.
LEMMA InsertTable ==
    ASSUME NEW tab \in Table, NEW t \in Turn, NEW c \in Conversation,
           NEW status \in {"queued", "joining"}, NEW target \in Turn \cup {NoTurn}
    PROVE  insertTurn(tab, t, c, status, target) \in Table
<1>1. [EmptyRow EXCEPT !.status = status, !.conv = c, !.followUpOf = target] \in Row
  BY DEF EmptyRow, Row, Status, Active, InFlight, Terminal
<1> QED
  BY <1>1 DEF insertTurn, Table

LEMMA StatusTable ==
    ASSUME NEW tab \in Table, NEW t \in Turn, NEW status \in Status
    PROVE  [tab EXCEPT ![t].status = status] \in Table
  BY DEF Table, Row

\* The requests' statements.
LEMMA HandlerRows ==
    ASSUME TypeOK, ReqOK, NEW h \in Handler,
           Serve(h) \/ Client(h) \/ SupervisorReport(h) \/ RunnerReport(h) \/ Crash(h)
    PROVE  turns' \in Table /\ RowsStep(turns, turns')
<1> USE DEF TypeOK
<1>1. CASE turns' = turns
  BY <1>1, SameRows
<1>2. CASE PromoteStopped(h)
  BY <1>2, CloseMoves DEF PromoteStopped, abortStoppedFollowUps, RowsStep
<1>3. CASE PromoteFlip(h) /\ turns' # turns
  <2>1. /\ At(h, "promote.flip") /\ promotes(req[h].turn, req[h].conv)
        /\ turns' = promoteFollowUp(turns, req[h].turn)
    BY <1>3 DEF PromoteFlip
  <2>2. req[h].turn \in Turn
    BY <2>1 DEF At, AboutTurn
  <2>3. turns' \in Table
    BY <2>1, <2>2, StatusTable DEF promoteFollowUp, Status, Active
  <2> QED
    BY <2>1, <2>3 DEF RowsStep, Flips, promotes, indexAdmits
<1>4. CASE InsertTurn(h) /\ turns' # turns
  <2>1. PICK t \in Turn : /\ ActiveIn(turns, req[h].conv) = {}
                          /\ turns[t].status = "none"
                          /\ turns' = insertTurn(turns, t, req[h].conv, "queued", NoTurn)
    BY <1>4 DEF InsertTurn, IsNextTurn, indexAdmits
  <2>2. req[h].conv \in Conversation
    BY <1>4 DEF InsertTurn, At, ReqOK, GoodRequest, AboutConversation
  <2>3. turns' \in Table
    BY <2>1, <2>2, InsertTable
  <2> QED
    BY <2>1, <2>2, <2>3 DEF RowsStep, Inserts
<1>5. CASE CreateBlocker(h) /\ turns' # turns
  <2>1. /\ At(h, "create.blocker") /\ TRUE \in BlockerAnswers
        /\ turns' = failBlockedTurn(turns, req[h].turn)
    BY <1>5, BlockerAssumption DEF CreateBlocker
  <2>2. req[h].turn \in Turn
    BY <2>1 DEF At, AboutTurn
  <2>3. turns' \in Table
    BY <2>1, <2>2, StatusTable DEF failBlockedTurn, Status, Terminal
  <2> QED
    BY <2>1, <2>3 DEF RowsStep, Blocks
<1>6. CASE CreateFollowUp(h)
  <2>1. PICK t \in Turn : /\ turns[t].status = "none"
                          /\ turns' = insertTurn(turns, t, req[h].conv, "joining", req[h].turn)
    BY <1>6 DEF CreateFollowUp, IsNextTurn
  <2>2. req[h].conv \in Conversation /\ req[h].turn \in Turn
    BY <1>6 DEF CreateFollowUp, At, ReqOK, GoodRequest, AboutConversation, AboutTurn
  <2>3. turns' \in Table
    BY <2>1, <2>2, InsertTable
  <2> QED
    BY <2>1, <2>2, <2>3 DEF RowsStep, Inserts
<1>7. CASE AbortJoining(h) \/ AbortQueued(h) \/ AbortSweepAll(h) \/ AbortSweep(h) \/ EventPark(h)
  <2>1. PICK where, from : /\ from \in {{"joining"}, {"queued"}}
                           /\ turns' = close(turns, where, from, "aborted")
        \/ EventPark(h)
    BY <1>7 DEF AbortJoining, AbortQueued, AbortSweepAll, AbortSweep, sweepUnheldFollowUps
  <2>2. CASE EventPark(h)
    BY <2>2, CloseMoves DEF EventPark, RowsStep, Active
  <2> QED
    BY <2>1, <2>2, CloseMoves DEF RowsStep, Active
<1>8. CASE AbortFlag(h) \/ AbortFlagHeld(h)
  BY <1>8, RequestAbortMoves DEF AbortFlag, AbortFlagHeld, RowsStep
<1>9. CASE SendNowFlag(h) /\ turns' # turns
  <2>1. At(h, "sendNow.flag") /\ turns' = [turns EXCEPT ![req[h].turn].sendNow = TRUE]
    BY <1>9 DEF SendNowFlag
  <2>2. req[h].turn \in Turn
    BY <2>1 DEF At, AboutTurn
  <2> DEFINE r == [turns[req[h].turn] EXCEPT !.sendNow = TRUE]
  <2>3. turns[req[h].turn] \in Row
    BY <2>2 DEF Table
  <2>4. r \in Row /\ Moves(turns[req[h].turn], r)
    BY <2>3 DEF Row, Moves, InFlight
  <2>5. turns' = [turns EXCEPT ![req[h].turn] = r]
    BY <2>1
  <2> QED
    BY <2>2, <2>4, <2>5, OneRowMoves DEF RowsStep
<1>10. CASE EventStrand(h)
  <2>1. turns' = failStrandedTurns(turns, Turn) \/ turns' = strandTurns(turns, Turn)
    BY <1>10 DEF EventStrand
  <2> QED
    BY <2>1, StrandMoves, CloseMoves DEF failStrandedTurns, RowsStep, Active
<1>11. ASSUME NEW t \in Turn, ApplyTurnProgress(h, t)
       PROVE  turns' \in Table /\ RowsStep(turns, turns')
  <2> DEFINE r == [turns[t] EXCEPT !.beat = TRUE]
  <2>1. turns[t] \in Row
    BY DEF Table
  <2>2. r \in Row /\ Moves(turns[t], r)
    BY <2>1 DEF Row, Moves, InFlight
  <2>3. turns' = [turns EXCEPT ![t] = r]
    BY <1>11 DEF ApplyTurnProgress
  <2> QED
    BY <2>2, <2>3, OneRowMoves DEF RowsStep
<1>12. ASSUME NEW t \in Turn, FinishTurn(h, t)
       PROVE  turns' \in Table /\ RowsStep(turns, turns')
  <2>1. PICK outcome \in {"done", "failed", "aborted"}, joined \in mayReportJoined(t) :
            turns' = finishTurnClose(turns, t, outcome, joined)
    BY <1>12 DEF FinishTurn, mayReport
  <2> QED
    BY <2>1, FinishMoves DEF RowsStep
<1>13. CASE Promotion(h)
  BY <1>13, <1>1, <1>2, <1>3 DEF Promotion, PromoteOldest, PromoteWake, db
<1>14. CASE Sending(h)
  BY <1>14, <1>1, <1>4, <1>5, <1>6
     DEF Sending, SendRead, SendReread, CreateWake, CountParked, RecheckTarget, db
<1>15. CASE Aborting(h)
  BY <1>15, <1>1, <1>7, <1>8 DEF Aborting, AbortRead, db
<1>16. CASE Reporting(h)
  BY <1>16, <1>1, <1>7, <1>9, <1>10
     DEF Reporting, ProgressRef, FinishSalvage, EventStatus, EventWake, EventReason, db
<1>17. CASE Client(h)
  BY <1>17, <1>1 DEF Client, SendMessage, CreateTurn, PromoteParkedFollowUps, AbortTurn,
     RequestSendNow, db
<1>18. CASE SupervisorReport(h)
  BY <1>18, <1>1, <1>11, <1>12 DEF SupervisorReport, FinishLost, db
<1>19. CASE RunnerReport(h) \/ Crash(h)
  BY <1>19, <1>1 DEF RunnerReport, StartReported, StartFailed, StopReported, SandboxDied, Crash, db
<1> QED
  BY <1>13, <1>14, <1>15, <1>16, <1>17, <1>18, <1>19 DEF Serve

\* The poll's statements, the claim's arms composed in their order.
LEMMA PollRows ==
    ASSUME TypeOK, Poll
    PROVE  turns' \in Table /\ RowsStep(turns, turns')
<1> USE DEF TypeOK
<1>1. CASE turns' = turns
  BY <1>1, SameRows
<1>2. CASE turns' = claimAborts(turns)
  BY <1>2, ClaimAbortsMoves DEF RowsStep
<1>3. ASSUME NEW stale, NEW near, ClaimTurnWork(stale, near)
      PROVE  turns' \in Table /\ RowsStep(turns, turns')
  <2> DEFINE up        == sandbox.status = "running"
             aborted   == claimAborts(turns)
             steered   == IF up THEN claimSteers(aborted) ELSE aborted
             cautioned == IF up THEN claimCeilingWarnings(steered, near) ELSE steered
             overdue   == stale \ claimableAborts(turns)
             takes     == up /\ ~sandbox.stopRequested
             taken     == IF takes THEN claimTurns(cautioned, overdue) ELSE cautioned
             sent      == IF up THEN claimSendNows(taken) ELSE taken
  <2>1. aborted \in Table /\ TableMoves(turns, aborted)
    BY ClaimAbortsMoves
  <2>2. steered \in Table /\ TableMoves(turns, steered)
    BY <2>1, ClaimSteersMoves, MovesTrans
  <2>3. cautioned \in Table /\ TableMoves(turns, cautioned)
    <3> HIDE DEF steered
    <3> QED BY <2>2, ClaimWarningsMoves, MovesTrans
  <2>4. taken \in Table /\ TableMoves(turns, taken)
    <3> HIDE DEF cautioned
    <3> QED BY <2>3, ClaimTurnsMoves, MovesTrans
  <2>5. sent \in Table /\ TableMoves(turns, sent)
    <3> HIDE DEF taken
    <3> QED BY <2>4, ClaimSendNowsMoves, MovesTrans
  <2>6. turns' = sent
    BY <1>3 DEF ClaimTurnWork
  <2> HIDE DEF sent
  <2> QED
    BY <2>5, <2>6 DEF RowsStep
<1>4. CASE ClaimDueWork
  BY <1>4, <1>2, <1>3 DEF ClaimDueWork, ClaimStart, ClaimStop
<1>5. CASE ParkUnstartableClaim
  <2>1. turns' = turns \/ turns' = close(turns, Turn, Active \cup {"joining"}, "failed")
    BY <1>5 DEF ParkUnstartableClaim
  <2> QED
    BY <1>1, <2>1, CloseMoves DEF RowsStep
<1>6. ASSUME NEW t \in Turn,
             ReclaimStaleTurns(t) \/ FailStalledTurns(t) \/ ExpireWedgedFollowUps(t)
      PROVE  turns' \in Table /\ RowsStep(turns, turns')
  <2>1. \/ turns' = reclaimStaleTurns(turns, {t})
        \/ turns' = failStalledTurns(turns, {t})
        \/ turns' = expireWedgedFollowUps(turns, {t})
    BY <1>6 DEF ReclaimStaleTurns, FailStalledTurns, ExpireWedgedFollowUps
  <2>2. CASE turns' = expireWedgedFollowUps(turns, {t})
    BY <2>2, CloseMoves DEF expireWedgedFollowUps, RowsStep
  <2> QED
    BY <2>1, <2>2, ReclaimMoves, StalledMoves DEF RowsStep
<1> QED
  BY <1>1, <1>4, <1>5, <1>6 DEF Poll, ComposeStart, ReleaseClaim, db

\* Every step of the plane is an INSERT or a promotion that passes the index,
\* the unguarded write of createTurn's first door, or moves rows forward.
LEMMA RowsNext ==
    ASSUME TypeOK, ReqOK, [Next]_vars
    PROVE  turns' \in Table /\ RowsStep(turns, turns')
<1> USE DEF TypeOK
<1>1. CASE turns' = turns
  BY <1>1, SameRows
<1>2. ASSUME NEW t \in Turn, ApplyTurnEvents(t)
      PROVE  turns' \in Table /\ RowsStep(turns, turns')
  <2>1. PICK starts \in BOOLEAN, joined \in mayReportJoined(t) :
          turns' = settleJoinedFollowUps(IF starts THEN startTurn(turns, t) ELSE turns, t, joined)
    BY <1>2 DEF ApplyTurnEvents
  <2> DEFINE started == IF starts THEN startTurn(turns, t) ELSE turns
  <2>2. started \in Table /\ TableMoves(turns, started)
    <3>1. CASE starts /\ turns[t].status = "dispatched"
      <4> DEFINE r == [turns[t] EXCEPT !.status = "running", !.started = TRUE]
      <4>1. turns[t] \in Row
        BY DEF Table
      <4>2. r \in Row /\ Moves(turns[t], r)
        BY <3>1, <4>1 DEF Row, Moves, Status, Active, InFlight, Terminal
      <4>3. started = [turns EXCEPT ![t] = r]
        BY <3>1 DEF startTurn
      <4> HIDE DEF r
      <4> QED
        BY <4>2, <4>3, OneRowMoves
    <3>2. CASE ~(starts /\ turns[t].status = "dispatched")
      <4>1. started = turns
        BY <3>2 DEF startTurn
      <4>2. \A u \in Turn : turns[u] \in Row
        BY DEF Table
      <4> QED
        BY <4>1, <4>2, MovesRefl DEF TableMoves
    <3> QED
      BY <3>1, <3>2
  <2>3. turns' = settleJoinedFollowUps(started, t, joined)
    BY <2>1
  <2> HIDE DEF started
  <2>4. turns' \in Table /\ TableMoves(started, turns')
    BY <2>2, <2>3, SettleMoves
  <2> QED
    BY <2>2, <2>4, MovesTrans DEF RowsStep
<1>3. ASSUME NEW t \in Turn, FinishRecovers(t)
      PROVE  turns' \in Table /\ RowsStep(turns, turns')
  <2>1. turns' = reviveColdTurns(turns, {t}) \/ turns' = resumeInterruptedTurns(turns, {t})
    BY <1>3 DEF FinishRecovers
  <2> QED
    BY <2>1, ReviveMoves, ResumeMoves DEF RowsStep
<1>4. CASE RequestAgentRestart
  BY <1>4, CloseMoves DEF RequestAgentRestart, RowsStep, Active
<1>5. CASE RequestSandboxRespawn
  BY <1>5, StrandMoves DEF RequestSandboxRespawn, RowsStep
<1>6. CASE SupervisorReady \/ ReportLost \/ UNCHANGED vars
  BY <1>6, <1>1 DEF SupervisorReady, ReportLost, db, vars
<1> QED
  BY <1>2, <1>3, <1>4, <1>5, <1>6, HandlerRows, PollRows DEF Next

-----------------------------------------------------------------------------
(***************************************************************************)
(* What a step does to the requests, continued: one case per statement.    *)
(***************************************************************************)
\* What holds when a handler arrives at a special step.
Arrives(g) ==
    \/ req'[g].step = "event.status" /\ work # << >>
    \/ req'[g].step = "create.blocker" /\ turns'[req'[g].turn].status # "none"
    \/ /\ req'[g].step = "promote.flip" /\ turns' = turns
       /\ turns[req'[g].turn].status # "none"
       /\ turns[req'[g].turn].conv = req'[g].conv

ReqGoal ==
    ReqOK' /\ \A g \in Handler : req'[g] = req[g] \/ req'[g].step \notin Special \/ Arrives(g)

LEMMA StepGoal == ReqStep => ReqGoal
  BY DEF ReqStep, ReqGoal

\* A fresh request is built from NoRequest.
LEMMA FreshRequest == NoRequest \in Request
  BY NoRequestGood DEF GoodRequest

\* The promotion's two ways back to its caller.
LEMMA PromotionReq ==
    ASSUME TypeInv, NEW h \in Handler, Promotion(h)
    PROVE  ReqGoal
<1> USE DEF TypeInv
<1>1. req[h] \in Request /\ GoodRequest(req[h])
  BY DEF ReqOK
<1>2. /\ {"promote.stopped", "promote.oldest", "promote.flip", "promote.wake",
          "send.insert", "send.reread"} \subseteq AboutConversation \cap Step
      /\ {"promote.oldest", "promote.wake", "send.insert", "send.reread"}
            \cap (AboutTurn \cup Special) = {}
  BY DEF AboutConversation, AboutTurn, Special, Step
<1>3. req[h].conv \in Conversation
  BY <1>1, <1>2 DEF Promotion, PromoteStopped, PromoteOldest, PromoteFlip, PromoteWake, At,
     GoodRequest
<1>4. CASE NotPromoted(h)
  BY <1>2, <1>3, <1>4, ContinueOK, EndOK, StepGoal DEF NotPromoted
<1>5. CASE Promoted(h)
  BY <1>2, <1>3, <1>5, ContinueOK, EndOK, StepGoal DEF Promoted
<1>6. CASE PromoteStopped(h) \/ Continue(h, "promote.wake")
  BY <1>2, <1>3, <1>6, ContinueOK, StepGoal DEF PromoteStopped
<1>7. ASSUME NEW t \in Turn, IsOldestOf(t, JoiningIn(turns, req[h].conv)),
             Goto(h, [req[h] EXCEPT !.step = "promote.flip", !.turn = t]), turns' = turns
      PROVE  ReqGoal
  <2> DEFINE r == [req[h] EXCEPT !.step = "promote.flip", !.turn = t]
  <2>1. GoodRequest(r) /\ r.step = "promote.flip" /\ r.turn = t /\ r.conv = req[h].conv
    BY <1>1, <1>3 DEF GoodRequest, Request, Step
  <2>2. turns[t].status = "joining" /\ turns[t].conv = req[h].conv
    BY <1>7 DEF IsOldestOf, JoiningIn
  <2>3. Goto(h, r)
    BY <1>7
  <2> HIDE DEF r
  <2>4. ReqOK' /\ \A g \in Handler : req'[g] = IF g = h THEN r ELSE req[g]
    BY <2>1, <2>3, GotoOK
  <2> QED
    BY <1>7, <2>1, <2>2, <2>4 DEF ReqGoal, Arrives
<1>8. CASE PromoteOldest(h)
  BY <1>8, <1>4, <1>7 DEF PromoteOldest, db
<1> QED
  BY <1>4, <1>5, <1>6, <1>8 DEF Promotion, PromoteFlip, PromoteWake

\* The send door's read of the active turn.
LEMMA ReadTargetReq ==
    ASSUME TypeInv, NEW h \in Handler, NEW c \in Conversation, NEW tries \in 0 .. SEND_ATTEMPTS,
           readTarget(h, c, tries)
    PROVE  ReqStep
<1> USE DEF TypeInv
<1>1. CASE Goto(h, promotion(c, "send", tries))
  BY <1>1, PromotionGood, GotoOK DEF Special
<1>2. ASSUME NEW t \in Turn,
             Goto(h, [NoRequest EXCEPT !.step = "send.count", !.conv = c, !.turn = t, !.tries = tries])
      PROVE  ReqStep
  <2> DEFINE r == [NoRequest EXCEPT !.step = "send.count", !.conv = c, !.turn = t, !.tries = tries]
  <2>1. GoodRequest(r) /\ r.step = "send.count"
    BY FreshRequest DEF GoodRequest, Request, Step
  <2>2. Goto(h, r)
    BY <1>2
  <2> HIDE DEF r
  <2> QED
    BY <2>1, <2>2, GotoOK DEF Special
<1> QED
  BY <1>1, <1>2 DEF readTarget

LEMMA RetrySendReq ==
    ASSUME TypeInv, NEW h \in Handler, req[h].conv \in Conversation, retrySend(h)
    PROVE  ReqStep
<1> USE DEF TypeInv
<1>1. req[h].tries \in 0 .. SEND_ATTEMPTS
  BY DEF ReqOK, Request
<1>2. CASE End(h)
  BY <1>2, EndOK
<1>3. CASE req[h].tries + 1 < SEND_ATTEMPTS
  <2> DEFINE r == [NoRequest EXCEPT !.step = "send.read", !.conv = req[h].conv,
                                    !.tries = req[h].tries + 1]
  <2>1. req[h].tries + 1 \in 0 .. SEND_ATTEMPTS
    BY <1>1, <1>3 DEF SEND_ATTEMPTS
  <2>2. GoodRequest(r) /\ r.step = "send.read"
    BY <2>1, FreshRequest DEF GoodRequest, Request, Step, AboutTurn
  <2>3. Goto(h, r)
    BY <1>3 DEF retrySend
  <2> HIDE DEF r
  <2> QED
    BY <2>2, <2>3, GotoOK DEF Special
<1> QED
  BY <1>2, <1>3 DEF retrySend

\* The rest of the send door.
LEMMA SendingReq ==
    ASSUME TypeInv, NEW h \in Handler, Sending(h)
    PROVE  ReqGoal
<1> USE DEF TypeInv
<1>1. req[h] \in Request /\ GoodRequest(req[h])
  BY DEF ReqOK
<1>2. CASE SendRead(h)
  <2>1. req[h].conv \in Conversation /\ req[h].tries \in 0 .. SEND_ATTEMPTS
    BY <1>1, <1>2 DEF SendRead, At, GoodRequest, AboutConversation, Request
  <2> QED
    BY <1>2, <2>1, ReadTargetReq, StepGoal DEF SendRead
<1>3. CASE SendReread(h)
  <2>1. req[h].conv \in Conversation
    BY <1>1, <1>3 DEF SendReread, At, GoodRequest, AboutConversation
  <2>2. ASSUME NEW t \in Turn,
               Goto(h, [req[h] EXCEPT !.step = "send.count", !.turn = t, !.ret = "end"])
        PROVE  ReqStep
    <3> DEFINE r == [req[h] EXCEPT !.step = "send.count", !.turn = t, !.ret = "end"]
    <3>1. GoodRequest(r) /\ r.step = "send.count"
      BY <1>1, <2>1 DEF GoodRequest, Request, Step
    <3>2. Goto(h, r)
      BY <2>2
    <3> HIDE DEF r
    <3> QED
      BY <3>1, <3>2, GotoOK DEF Special
  <2> QED
    BY <1>3, <2>1, <2>2, RetrySendReq, StepGoal DEF SendReread
<1>4. CASE InsertTurn(h)
  <2>1. req[h].conv \in Conversation
    BY <1>1, <1>4 DEF InsertTurn, At, GoodRequest, AboutConversation
  <2>2. ASSUME NEW t \in Turn, turns' = insertTurn(turns, t, req[h].conv, "queued", NoTurn),
               Goto(h, [NoRequest EXCEPT !.step = "create.blocker", !.conv = req[h].conv, !.turn = t])
        PROVE  ReqGoal
    <3> DEFINE r == [NoRequest EXCEPT !.step = "create.blocker", !.conv = req[h].conv, !.turn = t]
    <3>1. GoodRequest(r) /\ r.step = "create.blocker" /\ r.turn = t
      BY <2>1, FreshRequest DEF GoodRequest, Request, Step
    <3>2. Goto(h, r)
      BY <2>2
    <3> HIDE DEF r
    <3>3. ReqOK' /\ \A g \in Handler : req'[g] = IF g = h THEN r ELSE req[g]
      BY <3>1, <3>2, GotoOK
    <3>4. turns'[t].status = "queued"
      BY <2>2 DEF insertTurn, TypeOK, Table, EmptyRow
    <3> QED
      BY <3>1, <3>3, <3>4 DEF ReqGoal, Arrives
  <2> QED
    BY <1>4, <2>1, <2>2, RetrySendReq, EndOK, StepGoal DEF InsertTurn
<1>5. CASE CreateBlocker(h)
  <2>1. req[h].turn \in Turn
    BY <1>1, <1>5 DEF CreateBlocker, At, GoodRequest, AboutTurn
  <2>2. "create.wake" \in Step \ (Special \cup AboutConversation)
    BY DEF Step, Special, AboutConversation
  <2>3. End(h) \/ Continue(h, "create.wake")
    BY <1>5 DEF CreateBlocker
  <2> QED
    BY <2>1, <2>2, <2>3, EndOK, ContinueOK, StepGoal
<1>6. CASE CountParked(h) \/ CreateFollowUp(h)
  <2>1. req[h].turn \in Turn /\ req[h].conv \in Conversation
    BY <1>1, <1>6 DEF CountParked, CreateFollowUp, At, GoodRequest, AboutTurn, AboutConversation
  <2>2. {"send.park", "send.recheck"} \subseteq Step \ Special
    BY DEF Step, Special
  <2> QED
    BY <1>6, <2>1, <2>2, EndOK, ContinueOK, StepGoal DEF CountParked, CreateFollowUp
<1>7. CASE RecheckTarget(h)
  <2>1. req[h].conv \in Conversation
    BY <1>1, <1>7 DEF RecheckTarget, At, GoodRequest, AboutConversation
  <2>2. 0 \in 0 .. SEND_ATTEMPTS /\ "promote.stopped" \notin Special
    BY DEF SEND_ATTEMPTS, Special
  <2>3. End(h) \/ Goto(h, promotion(req[h].conv, "end", 0))
    BY <1>7 DEF RecheckTarget
  <2> QED
    BY <2>1, <2>2, <2>3, EndOK, PromotionGood, GotoOK, StepGoal
<1>8. CASE CreateWake(h)
  BY <1>8, EndOK, StepGoal DEF CreateWake
<1> QED
  BY <1>2, <1>3, <1>4, <1>5, <1>6, <1>7, <1>8 DEF Sending

\* abortTurn picks an arm by the status it has read.
LEMMA AbortArmReq ==
    ASSUME TypeInv, NEW h \in Handler, NEW t \in Turn, NEW tries \in 0 .. SEND_ATTEMPTS,
           abortArm(h, t, tries)
    PROVE  ReqStep
<1> USE DEF TypeInv
<1>1. turns[t].conv \in Conversation \cup {NoConversation}
  BY DEF TypeOK, Table, Row
<1>2. ASSUME NEW step \in {"abort.joining", "abort.queued", "abort.flag"},
             Goto(h, [NoRequest EXCEPT !.step = step, !.turn = t,
                                       !.conv = turns[t].conv, !.tries = tries])
      PROVE  ReqStep
  <2> DEFINE r == [NoRequest EXCEPT !.step = step, !.turn = t,
                                    !.conv = turns[t].conv, !.tries = tries]
  <2>1. step \in Step \ (Special \cup AboutConversation)
    BY DEF Step, Special, AboutConversation
  <2>2. GoodRequest(r) /\ r.step = step
    BY <1>1, <2>1, FreshRequest DEF GoodRequest, Request
  <2>3. Goto(h, r)
    BY <1>2
  <2> HIDE DEF r
  <2> QED
    BY <2>1, <2>2, <2>3, GotoOK
<1> QED
  BY <1>2, EndOK DEF abortArm

LEMMA AbortingReq ==
    ASSUME TypeInv, NEW h \in Handler, Aborting(h)
    PROVE  ReqGoal
<1> USE DEF TypeInv
<1>1. req[h] \in Request /\ GoodRequest(req[h])
  BY DEF ReqOK
<1>2. /\ {"abort.read", "abort.joining", "abort.queued", "abort.sweepAll", "abort.flag",
          "abort.sweep", "abort.flagHeld"} \subseteq AboutTurn \cap Step
      /\ {"abort.read", "abort.sweepAll", "abort.sweep", "abort.flagHeld"}
            \cap (Special \cup AboutConversation) = {}
  BY DEF AboutTurn, Step, Special, AboutConversation
<1>3. req[h].turn \in Turn /\ req[h].tries \in 0 .. SEND_ATTEMPTS
  BY <1>1, <1>2 DEF Aborting, AbortRead, AbortJoining, AbortQueued, AbortSweepAll, AbortFlag,
     AbortSweep, AbortFlagHeld, At, GoodRequest, Request
<1>4. CASE missedAbort(h)
  <2>1. CASE req[h].tries + 1 < ABORT_ATTEMPTS
    <3> DEFINE r == [req[h] EXCEPT !.step = "abort.read", !.tries = @ + 1]
    <3>1. req[h].tries + 1 \in 0 .. SEND_ATTEMPTS
      BY <1>3, <2>1 DEF SEND_ATTEMPTS, ABORT_ATTEMPTS
    <3>2. GoodRequest(r) /\ r.step = "abort.read"
      BY <1>1, <1>2, <1>3, <3>1 DEF GoodRequest, Request
    <3>3. Goto(h, r)
      BY <1>4, <2>1 DEF missedAbort
    <3> HIDE DEF r
    <3> QED
      BY <1>2, <3>2, <3>3, GotoOK, StepGoal
  <2>2. CASE End(h)
    BY <2>2, EndOK, StepGoal
  <2> QED
    BY <1>4, <2>1, <2>2 DEF missedAbort
<1>5. CASE AbortRead(h)
  BY <1>3, <1>5, AbortArmReq, StepGoal DEF AbortRead
<1>6. CASE End(h)
  BY <1>6, EndOK, StepGoal
<1>7. ASSUME NEW step \in {"abort.sweepAll", "abort.sweep", "abort.flagHeld"}, Continue(h, step)
      PROVE  ReqGoal
  BY <1>2, <1>3, <1>7, ContinueOK, StepGoal
<1> QED
  BY <1>4, <1>5, <1>6, <1>7 DEF Aborting, AbortJoining, AbortQueued, AbortSweepAll, AbortFlag,
     AbortSweep, AbortFlagHeld

\* The reports.
LEMMA ReportingReq ==
    ASSUME TypeInv, NEW h \in Handler, Reporting(h)
    PROVE  ReqGoal
<1> USE DEF TypeInv
<1>1. {"event.wake", "event.reason", "event.park"}
         \subseteq Step \ (Special \cup AboutTurn \cup AboutConversation)
  BY DEF Step, Special, AboutTurn, AboutConversation
<1>2. CASE End(h)
  BY <1>2, EndOK, StepGoal
<1>3. ASSUME NEW step \in {"event.wake", "event.reason", "event.park"}, Continue(h, step)
      PROVE  ReqGoal
  BY <1>1, <1>3, ContinueOK, StepGoal
<1> QED
  BY <1>2, <1>3 DEF Reporting, SendNowFlag, ProgressRef, FinishSalvage, EventStatus, EventStrand,
     EventWake, EventReason, EventPark, afterStrand

LEMMA ClientReq ==
    ASSUME TypeInv, NEW h \in Handler, Client(h)
    PROVE  ReqGoal
<1> USE DEF TypeInv
<1>1. 0 \in 0 .. SEND_ATTEMPTS
  BY DEF SEND_ATTEMPTS
<1>2. ASSUME NEW c \in Conversation, SendMessage(h, c)
      PROVE  ReqGoal
  BY <1>1, <1>2, ReadTargetReq, StepGoal DEF SendMessage
<1>3. ASSUME NEW c \in Conversation, CreateTurn(h, c)
      PROVE  ReqGoal
  <2> DEFINE r == [NoRequest EXCEPT !.step = "create.insert", !.conv = c]
  <2>1. GoodRequest(r) /\ r.step = "create.insert"
    BY FreshRequest DEF GoodRequest, Request, Step, AboutTurn
  <2>2. Goto(h, r)
    BY <1>3 DEF CreateTurn
  <2> HIDE DEF r
  <2> QED
    BY <2>1, <2>2, GotoOK, StepGoal DEF Special
<1>4. ASSUME NEW c \in Conversation, PromoteParkedFollowUps(h, c)
      PROVE  ReqGoal
  <2>1. Goto(h, promotion(c, "end", 0))
    BY <1>4 DEF PromoteParkedFollowUps
  <2> QED
    BY <1>1, <2>1, PromotionGood, GotoOK, StepGoal DEF Special
<1>5. ASSUME NEW t \in Turn, AbortTurn(h, t)
      PROVE  ReqGoal
  BY <1>1, <1>5, AbortArmReq, StepGoal DEF AbortTurn
<1>6. ASSUME NEW f \in Turn, RequestSendNow(h, f)
      PROVE  ReqGoal
  <2> DEFINE r == [NoRequest EXCEPT !.step = "sendNow.flag", !.turn = f]
  <2>1. GoodRequest(r) /\ r.step = "sendNow.flag"
    BY FreshRequest DEF GoodRequest, Request, Step, AboutConversation
  <2>2. Goto(h, r)
    BY <1>6 DEF RequestSendNow
  <2> HIDE DEF r
  <2> QED
    BY <2>1, <2>2, GotoOK, StepGoal DEF Special
<1> QED
  BY <1>2, <1>3, <1>4, <1>5, <1>6 DEF Client

\* The session refs a report may carry.
LEMMA ReportedRef ==
    ASSUME TypeOK, NEW t \in Turn, NEW ref \in mayReportRef(t)
    PROVE  ref \in Ref
<1>1. handed[t] \in SUBSET Boot
  BY DEF TypeOK
<1> QED
  BY <1>1 DEF mayReportRef, Ref

LEMMA SupervisorReq ==
    ASSUME TypeInv, NEW h \in Handler, SupervisorReport(h)
    PROVE  ReqGoal
<1> USE DEF TypeInv
<1> SUFFICES ASSUME NEW t \in Turn, ApplyTurnProgress(h, t) \/ FinishTurn(h, t) \/ FinishLost(h, t)
             PROVE  ReqGoal
  BY DEF SupervisorReport
<1>1. /\ turns[t].conv \in Conversation \cup {NoConversation}
      /\ turns[t].status \in Active => turns[t].conv \in Conversation
  BY DEF TypeOK, Table, Row, RowsHome, Active, InFlight
<1>2. CASE ApplyTurnProgress(h, t)
  <2>1. CASE req' = req
    BY <2>1, SameReq, StepGoal
  <2>2. ASSUME NEW ref \in mayReportRef(t),
               Goto(h, [NoRequest EXCEPT !.step = "progress.ref", !.ref = ref, !.conv = turns[t].conv])
        PROVE  ReqGoal
    <3> DEFINE r == [NoRequest EXCEPT !.step = "progress.ref", !.ref = ref, !.conv = turns[t].conv]
    <3>1. GoodRequest(r) /\ r.step = "progress.ref"
      BY <1>1, FreshRequest, ReportedRef DEF GoodRequest, Request, Step, AboutConversation, AboutTurn
    <3>2. Goto(h, r)
      BY <2>2
    <3> HIDE DEF r
    <3> QED
      BY <3>1, <3>2, GotoOK, StepGoal DEF Special
  <2> QED
    BY <1>2, <2>1, <2>2 DEF ApplyTurnProgress
<1>3. CASE FinishTurn(h, t)
  <2>1. turns[t].conv \in Conversation
    BY <1>1, <1>3 DEF FinishTurn, closableBy, Active
  <2>2. Goto(h, promotion(turns[t].conv, "end", 0))
    BY <1>3 DEF FinishTurn
  <2>3. 0 \in 0 .. SEND_ATTEMPTS
    BY DEF SEND_ATTEMPTS
  <2> QED
    BY <2>1, <2>2, <2>3, PromotionGood, GotoOK, StepGoal DEF Special
<1>4. CASE FinishLost(h, t)
  <2>1. PICK ref \in mayReportRef(t) :
           Goto(h, [NoRequest EXCEPT !.step = "finish.salvage", !.turn = t,
                                     !.conv = turns[t].conv, !.ref = ref])
    BY <1>4 DEF FinishLost
  <2> DEFINE r == [NoRequest EXCEPT !.step = "finish.salvage", !.turn = t,
                                    !.conv = turns[t].conv, !.ref = ref]
  <2>2. GoodRequest(r) /\ r.step = "finish.salvage"
    BY <1>1, FreshRequest, ReportedRef DEF GoodRequest, Request, Step, AboutConversation
  <2>3. Goto(h, r)
    BY <2>1
  <2> HIDE DEF r
  <2> QED
    BY <2>2, <2>3, GotoOK, StepGoal DEF Special
<1> QED
  BY <1>2, <1>3, <1>4

LEMMA RunnerReq ==
    ASSUME TypeInv, NEW h \in Handler, RunnerReport(h)
    PROVE  ReqGoal
<1> USE DEF TypeInv
<1>1. ASSUME NEW status, NEW reason \in Reason, applyDown(h, status, reason)
      PROVE  ReqGoal
  <2> DEFINE r == [NoRequest EXCEPT !.step = "event.strand", !.reason = reason]
  <2>1. GoodRequest(r) /\ r.step = "event.strand"
    BY FreshRequest DEF GoodRequest, Request, Step, AboutConversation, AboutTurn
  <2>2. Goto(h, r) \/ req' = req
    BY <1>1 DEF applyDown
  <2> HIDE DEF r
  <2> QED
    BY <2>1, <2>2, GotoOK, SameReq, StepGoal DEF Special
<1>2. CASE StartReported(h)
  <2> DEFINE r == [NoRequest EXCEPT !.step = "event.status"]
  <2>1. GoodRequest(r) /\ r.step = "event.status"
    BY FreshRequest DEF GoodRequest, Request, Step, AboutConversation, AboutTurn
  <2>2. Goto(h, r) /\ work # << >>
    BY <1>2 DEF StartReported
  <2> HIDE DEF r
  <2> QED
    BY <2>1, <2>2, GotoOK DEF ReqGoal, Arrives
<1> QED
  BY <1>1, <1>2 DEF RunnerReport, StartFailed, StopReported, SandboxDied, Reason

\* Every step keeps the requests well-formed.
LEMMA ReqNext ==
    ASSUME TypeInv, [Next]_vars
    PROVE  ReqGoal
<1> USE DEF TypeInv
<1>1. CASE req' = req
  BY <1>1, SameReq, StepGoal
<1>2. ASSUME NEW h \in Handler,
             Serve(h) \/ Client(h) \/ SupervisorReport(h) \/ RunnerReport(h) \/ Crash(h)
      PROVE  ReqGoal
  BY <1>2, PromotionReq, SendingReq, AbortingReq, ReportingReq, ClientReq, SupervisorReq,
     RunnerReq, EndOK, StepGoal DEF Serve, Crash
<1>3. CASE Poll
  BY <1>1, <1>3 DEF Poll, ClaimDueWork, ClaimStart, ClaimStop, ClaimTurnWork, ComposeStart,
     ReleaseClaim, ParkUnstartableClaim, ReclaimStaleTurns, FailStalledTurns, ExpireWedgedFollowUps
<1> QED
  BY <1>1, <1>2, <1>3 DEF Next, ApplyTurnEvents, FinishRecovers, SupervisorReady, ReportLost,
     RequestAgentRestart, RequestSandboxRespawn, vars

-----------------------------------------------------------------------------
(***************************************************************************)
(* What a step does to the sandbox row, the sessions and the runner.       *)
(***************************************************************************)
RestOK ==
    /\ sandbox \in Sandbox
    /\ sessionRef \in [Conversation -> Ref]
    /\ boot \in 0 .. MaxBoots
    /\ composing \in BOOLEAN
    /\ work \in Seq({Stop} \cup Boot)
    /\ booting \subseteq Boot
    /\ handed \in [Turn -> SUBSET Boot]
    /\ stopSent \subseteq Turn
    /\ stopAsked \subseteq Turn

\* FirstBoot without the requests.
NoBootYet ==
    boot = 0 => /\ ~composing /\ work = << >> /\ booting = {}
                /\ sandbox.status = "unprovisioned" /\ sandbox.containerRef = NoRef

RestGoal == RestOK' /\ NoBootYet' /\ boot <= boot'

LEMMA RestNow ==
    ASSUME TypeInv
    PROVE  RestOK /\ NoBootYet /\ boot \in Nat
  BY BoundAssumption DEF TypeInv, TypeOK, FirstBoot, RestOK, NoBootYet

\* The lists that most statements leave alone.
LEMMA SameRest ==
    ASSUME TypeInv, UNCHANGED <<sandbox, sessionRef, runner, history>>
    PROVE  RestGoal
  BY RestNow DEF RestGoal, RestOK, NoBootYet, runner, history

\* The sandbox row alone.
LEMMA SandboxRest ==
    ASSUME TypeInv, UNCHANGED <<sessionRef, runner, history>>, sandbox' \in Sandbox,
           boot = 0 => sandbox' = sandbox
    PROVE  RestGoal
  BY RestNow DEF RestGoal, RestOK, NoBootYet, runner, history

\* The sessions alone.
LEMMA SessionRest ==
    ASSUME TypeInv, UNCHANGED <<sandbox, runner, history>>, sessionRef' \in [Conversation -> Ref]
    PROVE  RestGoal
  BY RestNow DEF RestGoal, RestOK, NoBootYet, runner, history

LEMMA WakeRest ==
    ASSUME TypeInv, sandbox' = wakeSandbox, UNCHANGED <<sessionRef, runner, history>>
    PROVE  RestGoal
<1>1. sandbox' \in Sandbox /\ (boot = 0 => sandbox' = sandbox)
  BY RestNow DEF RestOK, NoBootYet, wakeSandbox, Sandbox, SandboxStatus
<1> QED
  BY <1>1, SandboxRest

LEMMA KeepRef ==
    ASSUME RestOK, NEW c, NEW ref \in Ref
    PROVE  keepSessionRef(c, ref) \in [Conversation -> Ref]
  BY DEF RestOK, keepSessionRef

LEMMA ServeRest ==
    ASSUME TypeInv, NEW h \in Handler, Serve(h)
    PROVE  RestGoal
<1>1. req[h] \in Request /\ GoodRequest(req[h])
  BY DEF TypeInv, ReqOK
<1>2. CASE Promotion(h)
  BY <1>2, SameRest, WakeRest DEF Promotion, PromoteStopped, PromoteOldest, PromoteFlip, PromoteWake, db
<1>3. CASE Sending(h)
  BY <1>3, SameRest, WakeRest DEF Sending, SendRead, SendReread, InsertTurn, CreateBlocker,
     CreateWake, CountParked, CreateFollowUp, RecheckTarget, db
<1>4. CASE AbortFlag(h) \/ AbortFlagHeld(h)
  <2>1. req[h].turn \in Turn
    BY <1>1, <1>4 DEF AbortFlag, AbortFlagHeld, At, GoodRequest, AboutTurn
  <2>2. stopAsked' \subseteq Turn /\ UNCHANGED <<sandbox, sessionRef, runner>>
    BY <1>4, <2>1, RestNow DEF AbortFlag, AbortFlagHeld, heldFollowUps, RestOK
  <2> QED
    BY <2>2, RestNow DEF RestGoal, RestOK, NoBootYet, runner
<1>5. CASE Aborting(h)
  BY <1>4, <1>5, SameRest DEF Aborting, AbortRead, AbortJoining, AbortQueued, AbortSweepAll,
     AbortSweep, db
<1>6. CASE ProgressRef(h) \/ FinishSalvage(h)
  <2>1. req[h].ref \in Ref
    BY <1>1 DEF Request
  <2>2. sessionRef' = keepSessionRef(req[h].conv, req[h].ref) \/ sessionRef' = sessionRef
    BY <1>6 DEF ProgressRef, FinishSalvage
  <2>3. sessionRef' \in [Conversation -> Ref]
    BY <2>1, <2>2, KeepRef, RestNow DEF RestOK
  <2> QED
    BY <1>6, <2>3, SessionRest DEF ProgressRef, FinishSalvage
<1>7. CASE EventStatus(h)
  <2>1. sandbox' \in Sandbox
    BY <1>7, RestNow DEF EventStatus, RestOK, Sandbox, SandboxStatus
  <2>2. boot # 0
    BY <1>7 DEF EventStatus, TypeInv, FirstBoot
  <2> QED
    BY <1>7, <2>1, <2>2, SandboxRest DEF EventStatus
<1>8. CASE Reporting(h)
  BY <1>6, <1>7, <1>8, SameRest, WakeRest DEF Reporting, SendNowFlag, EventStrand, EventWake,
     EventReason, EventPark, db
<1> QED
  BY <1>2, <1>3, <1>5, <1>8 DEF Serve

LEMMA ReportRest ==
    ASSUME TypeInv, NEW h \in Handler, SupervisorReport(h) \/ RunnerReport(h)
    PROVE  RestGoal
<1> USE RestNow
<1>1. ASSUME NEW t \in Turn, FinishTurn(h, t)
      PROVE  RestGoal
  <2>1. PICK ref \in mayReportRef(t) : sessionRef' = keepSessionRef(turns[t].conv, ref)
    BY <1>1 DEF FinishTurn
  <2>2. sessionRef' \in [Conversation -> Ref]
    BY <2>1, KeepRef, ReportedRef DEF TypeInv
  <2> QED
    BY <1>1, <2>2, SessionRest DEF FinishTurn
<1>2. CASE SupervisorReport(h)
  BY <1>1, <1>2, SameRest DEF SupervisorReport, ApplyTurnProgress, FinishLost, db
<1>3. ASSUME NEW status \in {"stopped", "failed"}, NEW reason, applyDown(h, status, reason)
      PROVE  sandbox' \in Sandbox
  BY <1>3 DEF applyDown, RestOK, Sandbox, SandboxStatus
<1>4. work # << >> => /\ Tail(work) \in Seq({Stop} \cup Boot) /\ Head(work) \in {Stop} \cup Boot
                      /\ boot # 0
  BY DEF RestOK, NoBootYet
<1>5. CASE StartReported(h)
  <2>1. sandbox' \in Sandbox
    BY <1>4, <1>5 DEF StartReported, RestOK, Sandbox, Ref
  <2>2. booting' \subseteq Boot /\ work' \in Seq({Stop} \cup Boot)
    BY <1>4, <1>5 DEF StartReported, RestOK
  <2> QED
    BY <1>4, <1>5, <2>1, <2>2 DEF StartReported, RestGoal, RestOK, NoBootYet, history
<1>6. CASE StartFailed(h) \/ StopReported(h)
  <2>1. sandbox' \in Sandbox
    BY <1>3, <1>6 DEF StartFailed, StopReported
  <2>2. booting' \subseteq Boot /\ work' \in Seq({Stop} \cup Boot)
    BY <1>4, <1>6 DEF StartFailed, StopReported, RestOK
  <2> QED
    BY <1>4, <1>6, <2>1, <2>2 DEF StartFailed, StopReported, RestGoal, RestOK, NoBootYet, history
<1>7. CASE SandboxDied(h)
  <2>1. sandbox' \in Sandbox
    BY <1>3, <1>7 DEF SandboxDied
  <2>2. boot # 0
    BY <1>7 DEF SandboxDied, NoBootYet
  <2> QED
    BY <1>7, <2>1, <2>2 DEF SandboxDied, RestGoal, RestOK, NoBootYet, history
<1> QED
  BY <1>2, <1>5, <1>6, <1>7 DEF RunnerReport

\* A turn that the claim hands over has a session to be handed over with.
LEMMA SessionForBoot ==
    ASSUME TypeInv, sandbox.status = "running", NEW c \in Conversation
    PROVE  sessionFor(c) \in Boot
<1>1. boot \in Boot
  BY RestNow, BoundAssumption DEF RestOK, NoBootYet, Boot
<1>2. sessionRef[c] \in Ref
  BY RestNow DEF RestOK
<1> QED
  BY <1>1, <1>2 DEF sessionFor, Ref

LEMMA PollRest ==
    ASSUME TypeInv, Poll
    PROVE  RestGoal
<1> USE RestNow
<1>1. claimableAborts(turns) \subseteq Turn
  BY DEF claimableAborts
<1>2. boot \in 0 .. MaxBoots /\ MaxBoots \in Nat
  BY BoundAssumption DEF RestOK
<1>3. ASSUME NEW late, ClaimStart(late)
      PROVE  RestGoal
  <2>1. sandbox' \in Sandbox
    BY <1>3 DEF ClaimStart, RestOK, Sandbox, SandboxStatus
  <2>2. boot' = boot + 1 /\ boot' \in 0 .. MaxBoots
    BY <1>2, <1>3 DEF ClaimStart, AnotherBoot
  <2> QED
    BY <1>1, <1>2, <1>3, <2>1, <2>2 DEF ClaimStart, RestGoal, RestOK, NoBootYet, history
<1>4. ASSUME NEW idle, ClaimStop(idle)
      PROVE  RestGoal
  <2>1. sandbox' \in Sandbox
    BY <1>4 DEF ClaimStop, RestOK, Sandbox, SandboxStatus
  <2>2. boot # 0
    BY <1>4 DEF ClaimStop, stopsSandbox, NoBootYet
  <2>3. work' \in Seq({Stop} \cup Boot)
    BY <1>4 DEF ClaimStop, RestOK
  <2> QED
    BY <1>1, <1>4, <2>1, <2>2, <2>3 DEF ClaimStop, RestGoal, RestOK, NoBootYet, history
<1>5. ASSUME NEW stale, NEW near, ClaimTurnWork(stale, near)
      PROVE  RestGoal
  <2> DEFINE up        == sandbox.status = "running"
             aborted   == claimAborts(turns)
             steered   == IF up THEN claimSteers(aborted) ELSE aborted
             cautioned == IF up THEN claimCeilingWarnings(steered, near) ELSE steered
             overdue   == stale \ claimableAborts(turns)
             takes     == up /\ ~sandbox.stopRequested
             claimed   == IF takes THEN claimableTurns(cautioned, overdue) ELSE {}
  <2>1. turns \in Table
    BY DEF TypeInv, TypeOK
  <2>2. aborted \in Table /\ TableMoves(turns, aborted)
    BY <2>1, ClaimAbortsMoves
  <2>3. steered \in Table /\ TableMoves(turns, steered)
    BY <2>1, <2>2, ClaimSteersMoves, MovesTrans
  <2>4. cautioned \in Table /\ TableMoves(turns, cautioned)
    <3> HIDE DEF steered
    <3> QED BY <2>1, <2>3, ClaimWarningsMoves, MovesTrans
  <2>5. \A t \in claimed : turns[t].conv \in Conversation /\ up
    <3> HIDE DEF cautioned, overdue
    <3>1. \A t \in claimed : t \in Turn /\ cautioned[t].status \in Active /\ up
      BY DEF claimableTurns, Active, InFlight
    <3>2. \A t \in claimed : turns[t].status \in Active
      BY <2>4, <3>1 DEF TableMoves, Moves
    <3> HIDE DEF claimed
    <3> QED
      BY <3>1, <3>2 DEF TypeInv, RowsHome, Active, InFlight
  <2>6. handed' = [t \in Turn |-> IF t \in claimed
                                  THEN handed[t] \cup {sessionFor(turns[t].conv)}
                                  ELSE handed[t]]
    BY <1>5 DEF ClaimTurnWork
  <2> HIDE DEF claimed
  <2>7. handed' \in [Turn -> SUBSET Boot]
    BY <2>5, <2>6, SessionForBoot DEF RestOK
  <2>8. /\ UNCHANGED <<sandbox, sessionRef, boot, composing, work, booting, history>>
        /\ stopSent' \subseteq Turn
    BY <1>1, <1>5 DEF ClaimTurnWork, RestOK
  <2> QED
    BY <2>7, <2>8 DEF RestGoal, RestOK, NoBootYet, history
<1>6. CASE ClaimDueWork
  BY <1>3, <1>4, <1>5, <1>6 DEF ClaimDueWork
<1>7. CASE ComposeStart
  <2>1. boot \in Boot
    BY <1>2, <1>7 DEF ComposeStart, NoBootYet, Boot
  <2>2. work' \in Seq({Stop} \cup Boot) /\ booting' \subseteq Boot
    BY <1>7, <2>1 DEF ComposeStart, RestOK
  <2>3. composing' \in BOOLEAN /\ UNCHANGED <<sandbox, sessionRef, boot, handed, stopSent, history>>
    BY <1>7 DEF ComposeStart, db
  <2>4. boot # 0
    BY <2>1, BoundAssumption DEF Boot
  <2> QED
    BY <2>2, <2>3, <2>4 DEF RestGoal, RestOK, NoBootYet, history
<1>8. CASE ReleaseClaim \/ ParkUnstartableClaim
  <2>1. sandbox' \in Sandbox
    BY <1>8 DEF ReleaseClaim, ParkUnstartableClaim, RestOK, Sandbox, SandboxStatus
  <2>2. boot # 0
    BY <1>8 DEF ReleaseClaim, ParkUnstartableClaim, NoBootYet
  <2>3. /\ composing' \in BOOLEAN
        /\ UNCHANGED <<sessionRef, boot, work, booting, handed, stopSent, history>>
    BY <1>8 DEF ReleaseClaim, ParkUnstartableClaim
  <2> QED
    BY <2>1, <2>2, <2>3 DEF RestGoal, RestOK, NoBootYet, history
<1> QED
  BY <1>6, <1>7, <1>8, SameRest DEF Poll, ReclaimStaleTurns, FailStalledTurns, ExpireWedgedFollowUps

LEMMA RestNext ==
    ASSUME TypeInv, [Next]_vars
    PROVE  RestGoal
<1> USE RestNow
<1>1. ASSUME NEW h \in Handler, Client(h) \/ Crash(h)
      PROVE  RestGoal
  BY <1>1, SameRest DEF Client, SendMessage, CreateTurn, PromoteParkedFollowUps, AbortTurn,
     RequestSendNow, Crash, db
<1>2. ASSUME NEW t \in Turn, ApplyTurnEvents(t) \/ FinishRecovers(t)
      PROVE  RestGoal
  BY <1>2, SameRest DEF ApplyTurnEvents, FinishRecovers
<1>3. CASE SupervisorReady
  <2>1. sandbox' \in Sandbox /\ booting' \subseteq Boot /\ boot # 0
    BY <1>3 DEF SupervisorReady, RestOK, NoBootYet, Sandbox, SandboxStatus
  <2> QED
    BY <1>3, <2>1 DEF SupervisorReady, RestGoal, RestOK, NoBootYet, history
<1>4. CASE ReportLost
  <2>1. work' \in Seq({Stop} \cup Boot) /\ booting' \subseteq Boot /\ boot # 0
    BY <1>4 DEF ReportLost, RestOK, NoBootYet
  <2> QED
    BY <1>4, <2>1 DEF ReportLost, RestGoal, RestOK, NoBootYet, history, db
<1>5. CASE RequestAgentRestart
  <2>1. sandbox' \in Sandbox /\ sessionRef' \in [Conversation -> Ref]
    BY <1>5 DEF RequestAgentRestart, RestOK, Sandbox, Ref
  <2>2. boot = 0 => sandbox' = sandbox
    BY <1>5 DEF RequestAgentRestart, NoBootYet
  <2> QED
    BY <1>5, <2>1, <2>2 DEF RequestAgentRestart, RestGoal, RestOK, NoBootYet, runner, history
<1>6. CASE RequestSandboxRespawn
  <2>1. sandbox' \in Sandbox /\ boot # 0
    BY <1>6 DEF RequestSandboxRespawn, RestOK, NoBootYet, Sandbox, SandboxStatus
  <2> QED
    BY <1>6, <2>1, SandboxRest DEF RequestSandboxRespawn
<1>7. CASE UNCHANGED vars
  BY <1>7, SameRest DEF vars, runner, history
<1> QED
  BY <1>1, <1>2, <1>3, <1>4, <1>5, <1>6, <1>7, ServeRest, ReportRest, PollRest DEF Next

-----------------------------------------------------------------------------
(***************************************************************************)
(* The theorems                                                            *)
(***************************************************************************)
\* A row stays in the table and in its conversation; a new one is in one.
LEMMA RowsStay ==
    ASSUME TypeInv, [Next]_vars, NEW t \in Turn
    PROVE  /\ turns[t].status # "none" =>
                turns'[t].status # "none" /\ turns'[t].conv = turns[t].conv
           /\ turns[t].status = "none" /\ turns'[t].status # "none" =>
                turns'[t].conv \in Conversation
<1>1. turns \in Table /\ turns' \in Table /\ RowsStep(turns, turns')
  BY RowsNext DEF TypeInv, TypeOK
<1>2. CASE TableMoves(turns, turns')
  BY <1>2 DEF TableMoves, Moves
<1>3. CASE Inserts(turns, turns')
  BY <1>1, <1>3 DEF Inserts, insertTurn, EmptyRow, Table
<1>4. CASE Flips(turns, turns')
  BY <1>1, <1>4 DEF Flips, promoteFollowUp, Table, Row
<1>5. CASE Blocks(turns, turns')
  BY <1>1, <1>5 DEF Blocks, failBlockedTurn, Table, Row, TypeInv, HeldRows
<1> QED
  BY <1>1, <1>2, <1>3, <1>4, <1>5 DEF RowsStep

LEMMA TypeInvInit == Init => TypeInv
<1> SUFFICES ASSUME Init PROVE TypeInv
  OBVIOUS
<1>1. EmptyRow \in Row
  BY DEF EmptyRow, Row, Status, Active
<1>2. turns \in Table /\ \A t \in Turn : turns[t].status = "none"
  BY <1>1 DEF Init, EmptyTable, Table, EmptyRow
<1>3. boot \in 0 .. MaxBoots /\ boot \in Ref
  BY BoundAssumption DEF Init, Ref, Boot, NoRef
<1>4. /\ sandbox \in Sandbox
      /\ boot = 0 => sandbox.status = "unprovisioned" /\ sandbox.containerRef = NoRef
  BY <1>3 DEF Init, Sandbox, SandboxStatus, NoRef
<1>5. sessionRef \in [Conversation -> Ref] /\ handed \in [Turn -> SUBSET Boot]
  BY DEF Init, Ref
<1>6. ReqOK /\ \A h \in Handler : req[h].step = "idle"
  BY NoRequestGood, FreshRequest DEF Init, ReqOK
<1>8. /\ work = << >> /\ work \in Seq({Stop} \cup Boot) /\ booting = {}
      /\ stopSent = {} /\ stopAsked = {}
  BY DEF Init
<1>9. ~composing /\ composing \in BOOLEAN
  BY DEF Init
<1>10. TypeOK
  BY <1>2, <1>3, <1>4, <1>5, <1>6, <1>8, <1>9 DEF TypeOK, ReqOK, GoodRequest
<1> QED
  BY <1>2, <1>4, <1>6, <1>8, <1>9, <1>10 DEF TypeInv, FirstBoot, RowsHome, HeldRows, At

LEMMA TypeInvNext == TypeInv /\ [Next]_vars => TypeInv'
<1> SUFFICES ASSUME TypeInv, [Next]_vars PROVE TypeInv'
  OBVIOUS
<1>1. turns' \in Table
  BY RowsNext DEF TypeInv
<1>2. ReqGoal /\ RestGoal
  BY ReqNext, RestNext
<1>3. ReqOK'
  BY <1>2 DEF ReqGoal
<1>4. \A h \in Handler : req'[h].step \in AboutTurn => req'[h].turn \in Turn
  BY <1>3 DEF ReqOK, GoodRequest
<1>5. TypeOK'
  BY <1>1, <1>2, <1>3, <1>4 DEF TypeOK, ReqOK, RestGoal, RestOK
<1>6. FirstBoot'
  <2> SUFFICES ASSUME boot' = 0
               PROVE  \A h \in Handler : req'[h].step # "event.status"
    BY <1>2 DEF FirstBoot, RestGoal, NoBootYet, At
  <2>1. boot = 0
    BY <1>2, RestNow DEF RestGoal
  <2>2. work = << >> /\ \A h \in Handler : req[h].step # "event.status"
    BY <2>1 DEF TypeInv, FirstBoot, At
  <2> QED
    BY <1>2, <2>2 DEF ReqGoal, Arrives, Special
<1>7. RowsHome'
  BY RowsStay DEF RowsHome, TypeInv
<1>8. HeldRows'
  <2> SUFFICES ASSUME NEW h \in Handler, req'[h].step \in {"create.blocker", "promote.flip"}
               PROVE  /\ turns'[req'[h].turn].status # "none"
                      /\ req'[h].step = "promote.flip" => turns'[req'[h].turn].conv = req'[h].conv
    BY DEF HeldRows, At
  <2>1. CASE req'[h] = req[h]
    <3>1. req[h].turn \in Turn
      BY <2>1 DEF TypeInv, ReqOK, GoodRequest, AboutTurn
    <3> QED
      BY <2>1, <3>1, RowsStay DEF TypeInv, HeldRows, At
  <2>2. CASE Arrives(h)
    BY <2>2 DEF Arrives
  <2> QED
    BY <1>2, <2>1, <2>2 DEF ReqGoal, Special
<1> QED
  BY <1>3, <1>5, <1>6, <1>7, <1>8 DEF TypeInv

LEMMA TypeInvAlways == Spec => []TypeInv
  BY TypeInvInit, TypeInvNext, PTL DEF Spec

\* The plane stays in its types: no interleaving makes a handler use a row,
\* a session or a container that does not exist, or run out of its retries.
THEOREM TypeCorrect == Spec => []TypeOK
<1>1. TypeInv => TypeOK
  BY DEF TypeInv
<1> QED
  BY <1>1, TypeInvAlways, PTL

\* The partial unique index is never what stops a recovery: whatever a step
\* does, at most one turn of a conversation is active afterwards.
LEMMA OneActiveNext ==
    ASSUME TypeInv, OneActive(turns), [Next]_vars
    PROVE  OneActive(turns')
<1>1. turns \in Table /\ turns' \in Table /\ RowsStep(turns, turns')
  BY RowsNext DEF TypeInv, TypeOK
<1>2. CASE TableMoves(turns, turns')
  BY <1>2 DEF TableMoves, Moves, OneActive
<1>3. CASE Inserts(turns, turns')
  <2>1. PICK t \in Turn, c \in Conversation, status \in {"queued", "joining"},
             target \in Turn \cup {NoTurn} :
                /\ status = "queued" => ActiveIn(turns, c) = {}
                /\ turns' = insertTurn(turns, t, c, status, target)
    BY <1>3 DEF Inserts
  <2>2. turns'[t].status = status /\ turns'[t].conv = c /\ \A u \in Turn \ {t} : turns'[u] = turns[u]
    BY <1>1, <2>1 DEF insertTurn, EmptyRow, Table
  <2> QED
    BY <2>1, <2>2 DEF OneActive, ActiveIn, Active, InFlight
<1>4. CASE Flips(turns, turns')
  <2>1. PICK h \in Handler : /\ At(h, "promote.flip")
                             /\ ActiveIn(turns, req[h].conv) = {}
                             /\ turns' = promoteFollowUp(turns, req[h].turn)
    BY <1>4 DEF Flips
  <2>2. req[h].turn \in Turn /\ turns[req[h].turn].conv = req[h].conv
    BY <2>1 DEF TypeInv, HeldRows, At, ReqOK, GoodRequest, AboutTurn
  <2>3. /\ turns'[req[h].turn].conv = req[h].conv
        /\ \A u \in Turn \ {req[h].turn} : turns'[u] = turns[u]
    BY <1>1, <2>1, <2>2 DEF promoteFollowUp, Table, Row
  <2> QED
    BY <2>1, <2>2, <2>3 DEF OneActive, ActiveIn
<1>5. CASE Blocks(turns, turns')
  BY <1>1, <1>5 DEF Blocks, failBlockedTurn, OneActive, Table, Row, Active, InFlight
<1> QED
  BY <1>1, <1>2, <1>3, <1>4, <1>5 DEF RowsStep

\* A conversation has at most one active turn, for any number of requests,
\* conversations and turns and any mix of failures: what the recoveries of
\* turn-service.ts rely on when they catch no P2002.
THEOREM OneActiveHolds == Spec => []OneActivePerConversation
<1>1. Init => OneActivePerConversation
  BY DEF Init, EmptyTable, EmptyRow, OneActivePerConversation, OneActive, Active, InFlight
<1>2. TypeInv /\ OneActivePerConversation /\ [Next]_vars => OneActivePerConversation'
  BY OneActiveNext DEF OneActivePerConversation
<1> QED
  BY <1>1, <1>2, TypeInvAlways, PTL DEF Spec

LEMMA RowsFreshNext == TypeInv /\ RowsFresh /\ [Next]_vars => RowsFresh'
<1> SUFFICES ASSUME TypeInv, RowsFresh, [Next]_vars, NEW t \in Turn, turns'[t].status = "none"
             PROVE  ~turns'[t].retried
  BY DEF RowsFresh
<1>1. turns \in Table /\ turns' \in Table /\ RowsStep(turns, turns')
  BY RowsNext DEF TypeInv, TypeOK
<1>2. CASE TableMoves(turns, turns')
  BY <1>2 DEF TableMoves, Moves, RowsFresh
<1>3. CASE Inserts(turns, turns')
  BY <1>1, <1>3 DEF Inserts, insertTurn, EmptyRow, Table, RowsFresh
<1>4. CASE Flips(turns, turns')
  BY <1>1, <1>4 DEF Flips, promoteFollowUp, Table, Row, RowsFresh
<1>5. CASE Blocks(turns, turns')
  BY <1>1, <1>5 DEF Blocks, failBlockedTurn, Table, Row, RowsFresh
<1> QED
  BY <1>1, <1>2, <1>3, <1>4, <1>5 DEF RowsStep

\* A turn is re-queued after its hand-over at most once, whatever reports of
\* its sandbox's deaths arrive, in whatever order.
THEOREM RecoveredOnceHolds == Spec => RecoveredOnce
<1> DEFINE Once == \A t \in Turn :
                     /\ turns[t].retried => turns'[t].retried
                     /\ turns[t].status \in InFlight /\ turns'[t].status = "queued"
                          => ~turns[t].retried /\ turns'[t].retried
<1>1. Init => RowsFresh
  BY DEF Init, EmptyTable, EmptyRow, RowsFresh
<1>2. TypeInv /\ RowsFresh /\ [Next]_vars => Once
  <2> SUFFICES ASSUME TypeInv, RowsFresh, [Next]_vars, NEW t \in Turn
               PROVE  /\ turns[t].retried => turns'[t].retried
                      /\ turns[t].status \in InFlight /\ turns'[t].status = "queued"
                           => ~turns[t].retried /\ turns'[t].retried
    OBVIOUS
  <2>1. turns \in Table /\ turns' \in Table /\ RowsStep(turns, turns')
    BY RowsNext DEF TypeInv, TypeOK
  <2>2. CASE TableMoves(turns, turns')
    BY <2>2 DEF TableMoves, Moves
  <2>3. CASE Inserts(turns, turns')
    BY <2>1, <2>3 DEF Inserts, insertTurn, EmptyRow, Table, RowsFresh, InFlight
  <2>4. CASE Flips(turns, turns')
    BY <2>1, <2>4 DEF Flips, promoteFollowUp, Table, Row, InFlight
  <2>5. CASE Blocks(turns, turns')
    BY <2>1, <2>5 DEF Blocks, failBlockedTurn, Table, Row, InFlight
  <2> QED
    BY <2>1, <2>2, <2>3, <2>4, <2>5 DEF RowsStep
<1>3. [](TypeInv /\ RowsFresh) /\ [][Next]_vars => [][Once]_vars
  BY <1>2, PTL
<1>4. Spec => [](TypeInv /\ RowsFresh)
  BY <1>1, RowsFreshNext, TypeInvAlways, PTL DEF Spec
<1> QED
  BY <1>3, <1>4, PTL DEF Spec, RecoveredOnce

\* A finished turn keeps its outcome, provided that createTurn's credential
\* check never fails a turn: its write by id is the one door without a guard.
THEOREM FinishedStaysFinishedHolds ==
    ASSUME TRUE \notin BlockerAnswers
    PROVE  Spec => FinishedStaysFinished
<1> DEFINE Final == \A t \in Turn :
                      turns[t].status \in Terminal => turns'[t].status = turns[t].status
<1>1. TypeInv /\ [Next]_vars => Final
  <2> SUFFICES ASSUME TypeInv, [Next]_vars, NEW t \in Turn, turns[t].status \in Terminal
               PROVE  turns'[t].status = turns[t].status
    OBVIOUS
  <2>1. turns \in Table /\ turns' \in Table /\ RowsStep(turns, turns')
    BY RowsNext DEF TypeInv, TypeOK
  <2>2. CASE TableMoves(turns, turns')
    BY <2>2 DEF TableMoves, Moves
  <2>3. CASE Inserts(turns, turns')
    BY <2>1, <2>3 DEF Inserts, insertTurn, EmptyRow, Table, Terminal
  <2>4. CASE Flips(turns, turns')
    BY <2>1, <2>4 DEF Flips, promoteFollowUp, Table, Row, Terminal
  <2>5. ~Blocks(turns, turns')
    BY DEF Blocks
  <2> QED
    BY <2>1, <2>2, <2>3, <2>4, <2>5 DEF RowsStep
<1>2. []TypeInv /\ [][Next]_vars => [][Final]_vars
  BY <1>1, PTL
<1> QED
  BY <1>2, TypeInvAlways, PTL DEF Spec, FinishedStaysFinished
=============================================================================
