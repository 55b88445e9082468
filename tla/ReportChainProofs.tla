------------------------- MODULE ReportChainProofs --------------------------
(***************************************************************************)
(* Theorems about ReportChain, for every number of reports, failures and   *)
(* sandboxes and every size of the queue, the reserve and the pool.        *)
(***************************************************************************)
EXTENDS ReportChain, FiniteSetTheorems, SequenceTheorems, TLAPS

\* No report is queued twice.
QueuedOnce == \A i, j \in 1..Len(chain) : chain[i] = chain[j] => i = j

\* What is queued is not asleep and did not land; a report that no resend
\* loop sends was not sent again.
QueuedPending ==
    \A i \in 1..Len(chain) :
        /\ chain[i] \notin sleeping
        /\ landed[chain[i]] = 0
        /\ chain[i] \notin resending => attempts[chain[i]] = 0

\* What sleeps did not land, and a round of its loop is left.
AsleepPending == \A r \in sleeping : landed[r] = 0 /\ attempts[r] < MAX_RESENDS

\* Nothing happened to a report that was not made.
Unmade == \A r \in Number : r > Len(made) => landed[r] = 0 /\ attempts[r] = 0

\* A report is in one place at most, and while it is there it did not land.
OnePlace == QueuedOnce /\ QueuedPending /\ AsleepPending /\ Unmade

\* The resend loops of sandbox s among S.
Ends(m, S, s) == {r \in S : m[r].box = s}

\* The inductive invariant.
Inv == TypeOK /\ OnePlace /\ LandsOnce /\ PoolIsExact

-----------------------------------------------------------------------------
\* Reports that were made have numbers, and a sandbox each.
LEMMA MadeFacts ==
    ASSUME TypeOK
    PROVE  /\ Len(made) \in Nat
           /\ \A r \in 1..Len(made) : made[r] \in Report /\ made[r].box \in Sandbox /\ r \in Number
           /\ IsFiniteSet(resending)
  <1>1. Len(made) \in Nat /\ \A r \in 1..Len(made) : made[r] \in Report
    BY DEF TypeOK
  <1>2. MaxReported \in Nat
    BY ReportAssumption
  <1>3. \A r \in 1..Len(made) : made[r].box \in Sandbox /\ r \in Number
    BY <1>1, <1>2 DEF TypeOK, Report, Number
  <1>4. IsFiniteSet(1..Len(made))
    BY <1>1, FS_Interval
  <1>5. IsFiniteSet(resending)
    BY <1>4, FS_Subset DEF TypeOK
  <1> QED BY <1>1, <1>3, <1>5

\* Only reports that were made are queued.
LEMMA ChainMembers ==
    ASSUME TypeOK
    PROVE  /\ Len(chain) \in Nat
           /\ \A i \in 1..Len(chain) : chain[i] \in 1..Len(made) /\ chain[i] \in Number
  <1>1. chain \in Seq(1..Len(made))
    BY DEF TypeOK
  <1>2. Len(chain) \in Nat /\ \A i \in 1..Len(chain) : chain[i] \in 1..Len(made)
    BY <1>1
  <1> QED BY <1>2, MadeFacts

\* An empty chain and an empty pool satisfy the invariant.
LEMMA InvInit == Init => Inv
  <1> SUFFICES ASSUME Init PROVE Inv
    OBVIOUS
  <1>1. MAX_RESENDS \in Nat /\ MaxReported \in Nat
    BY ReportAssumption, ResendAssumption
  <1>2. TypeOK
    BY <1>1 DEF Init, TypeOK
  <1>3. OnePlace
    BY <1>1 DEF Init, OnePlace, QueuedOnce, QueuedPending, AsleepPending, Unmade
  <1>4. LandsOnce
    BY DEF Init, LandsOnce
  <1>5. PoolIsExact
    <2>1. \A s : {r \in resending : made[r].box = s} = {}
      BY DEF Init
    <2> QED BY <2>1, FS_EmptySet DEF Init, PoolIsExact
  <1> QED BY <1>2, <1>3, <1>4, <1>5 DEF Inv

-----------------------------------------------------------------------------
(***************************************************************************)
(* The pool: a loop that starts and a loop that ends.                      *)
(***************************************************************************)
\* The counters stay exact when r's loop starts.
LEMMA PoolHolds ==
    ASSUME TypeOK, PoolIsExact, NEW r \in 1..Len(made), r \notin resending,
           resending' = resending \cup {r}, made' = made, holdResend(made[r].box)
    PROVE  /\ PoolIsExact'
           /\ pendingResends' \in [Sandbox -> Nat] /\ totalPendingResends' \in Nat
  <1>1. made[r].box \in Sandbox /\ IsFiniteSet(resending)
    BY MadeFacts
  <1>2. Cardinality(resending') = Cardinality(resending) + 1
    BY <1>1, FS_AddElement
  <1>3. ASSUME NEW s \in Sandbox
        PROVE  Cardinality(Ends(made, resending', s)) =
                   Cardinality(Ends(made, resending, s)) + (IF s = made[r].box THEN 1 ELSE 0)
    <2>1. IsFiniteSet(Ends(made, resending, s))
      BY <1>1, FS_Subset DEF Ends
    <2>2. CASE s = made[r].box
      <3>1. Ends(made, resending', s) = Ends(made, resending, s) \cup {r} /\ r \notin Ends(made, resending, s)
        BY <2>2 DEF Ends
      <3> QED BY <2>1, <2>2, <3>1, FS_AddElement
    <2>3. CASE s # made[r].box
      <3>1. Ends(made, resending', s) = Ends(made, resending, s)
        BY <2>3 DEF Ends
      <3>2. Cardinality(Ends(made, resending, s)) \in Nat
        BY <2>1, FS_CardinalityType
      <3> QED BY <2>3, <3>1, <3>2
    <2> QED BY <2>2, <2>3
  <1>4. \A s \in Sandbox : pendingResends[s] = Cardinality(Ends(made, resending, s))
    BY DEF PoolIsExact, Ends
  <1>5. \A s \in Sandbox : pendingResends'[s] = Cardinality(Ends(made, resending', s))
    <2> TAKE s \in Sandbox
    <2>1. pendingResends'[s] = IF s = made[r].box THEN pendingResends[s] + 1
                                                 ELSE pendingResends[s]
      BY <1>1 DEF TypeOK, holdResend
    <2>2. pendingResends[s] \in Nat /\ pendingResends[s] = Cardinality(Ends(made, resending, s))
      BY <1>4 DEF TypeOK
    <2>3. Cardinality(Ends(made, resending', s)) =
              pendingResends[s] + (IF s = made[r].box THEN 1 ELSE 0)
      BY <1>3, <2>2
    <2> QED BY <2>1, <2>2, <2>3
  <1>6. totalPendingResends' = Cardinality(resending')
    BY <1>2 DEF holdResend, PoolIsExact
  <1>7. PoolIsExact'
    BY <1>5, <1>6 DEF PoolIsExact, Ends
  <1>8. pendingResends' \in [Sandbox -> Nat] /\ totalPendingResends' \in Nat
    BY <1>1 DEF TypeOK, holdResend
  <1> QED BY <1>7, <1>8

\* The counters stay exact when r's loop returns.
LEMMA PoolReleases ==
    ASSUME TypeOK, PoolIsExact, NEW r \in resending,
           resending' = resending \ {r}, made' = made, releaseResend(made[r].box)
    PROVE  /\ PoolIsExact'
           /\ pendingResends' \in [Sandbox -> Nat] /\ totalPendingResends' \in Nat
  <1>1. made[r].box \in Sandbox /\ IsFiniteSet(resending)
    BY MadeFacts DEF TypeOK
  <1>2. Cardinality(resending') = Cardinality(resending) - 1
    BY <1>1, FS_RemoveElement
  <1>3. ASSUME NEW s \in Sandbox
        PROVE  /\ Cardinality(Ends(made, resending', s)) =
                     Cardinality(Ends(made, resending, s)) - (IF s = made[r].box THEN 1 ELSE 0)
               /\ Cardinality(Ends(made, resending', s)) \in Nat
    <2>1. IsFiniteSet(Ends(made, resending, s))
      BY <1>1, FS_Subset DEF Ends
    <2>2. CASE s = made[r].box
      <3>1. Ends(made, resending', s) = Ends(made, resending, s) \ {r} /\ r \in Ends(made, resending, s)
        BY <2>2 DEF Ends
      <3>2. IsFiniteSet(Ends(made, resending', s))
        BY <2>1, <3>1, FS_RemoveElement
      <3> QED BY <2>1, <2>2, <3>1, <3>2, FS_RemoveElement, FS_CardinalityType
    <2>3. CASE s # made[r].box
      <3>1. Ends(made, resending', s) = Ends(made, resending, s)
        BY <2>3 DEF Ends
      <3>2. Cardinality(Ends(made, resending, s)) \in Nat
        BY <2>1, FS_CardinalityType
      <3> QED BY <2>3, <3>1, <3>2
    <2> QED BY <2>2, <2>3
  <1>4. \A s \in Sandbox : pendingResends[s] = Cardinality(Ends(made, resending, s))
    BY DEF PoolIsExact, Ends
  <1>5. \A s \in Sandbox : pendingResends'[s] = Cardinality(Ends(made, resending', s))
    <2> TAKE s \in Sandbox
    <2>1. pendingResends'[s] = IF s = made[r].box THEN pendingResends[s] - 1
                                                 ELSE pendingResends[s]
      BY <1>1 DEF TypeOK, releaseResend
    <2>2. pendingResends[s] \in Nat /\ pendingResends[s] = Cardinality(Ends(made, resending, s))
      BY <1>4 DEF TypeOK
    <2>3. Cardinality(Ends(made, resending', s)) =
              pendingResends[s] - (IF s = made[r].box THEN 1 ELSE 0)
      BY <1>3, <2>2
    <2> QED BY <2>1, <2>2, <2>3
  <1>6. totalPendingResends' = Cardinality(resending')
    BY <1>2 DEF releaseResend, PoolIsExact
  <1>7. PoolIsExact'
    BY <1>5, <1>6 DEF PoolIsExact, Ends
  <1>8. IsFiniteSet(resending')
    BY <1>1, FS_RemoveElement
  <1>9. totalPendingResends' \in Nat
    BY <1>6, <1>8, FS_CardinalityType
  <1>10. pendingResends' \in [Sandbox -> Nat]
    BY <1>1, <1>3, <1>5 DEF TypeOK, releaseResend
  <1> QED BY <1>7, <1>9, <1>10

\* Whatever a report does, loopEnds leaves the pool exact.
LEMMA LoopEndsPool ==
    ASSUME TypeOK, PoolIsExact, NEW r, made' = made, loopEnds(r)
    PROVE  /\ PoolIsExact'
           /\ pendingResends' \in [Sandbox -> Nat] /\ totalPendingResends' \in Nat
           /\ resending' = resending \ {r}
  <1>1. CASE r \in resending
    BY <1>1, PoolReleases DEF loopEnds
  <1>2. CASE r \notin resending
    BY <1>2 DEF loopEnds, counters, PoolIsExact, TypeOK
  <1> QED BY <1>1, <1>2

-----------------------------------------------------------------------------
(***************************************************************************)
(* The places: what a post takes off the chain is nowhere else.            *)
(***************************************************************************)
\* What a post takes off the chain, and what it leaves.
LEMMA ChainTail ==
    ASSUME TypeOK, QueuedOnce, chain # << >>
    PROVE  /\ Head(chain) \in 1..Len(made)
           /\ Head(chain) = chain[1] /\ 1 \in 1..Len(chain)
           /\ Tail(chain) \in Seq(1..Len(made))
           /\ Len(Tail(chain)) = Len(chain) - 1
           /\ \A i \in 1..Len(Tail(chain)) :
                /\ i + 1 \in 1..Len(chain) /\ Tail(chain)[i] = chain[i + 1]
                /\ Tail(chain)[i] # Head(chain)
  <1>1. chain \in Seq(1..Len(made)) /\ Len(chain) \in Nat /\ Len(chain) # 0
    BY DEF TypeOK
  <1>2. /\ Head(chain) \in 1..Len(made) /\ Tail(chain) \in Seq(1..Len(made))
        /\ Head(chain) = chain[1] /\ Len(Tail(chain)) = Len(chain) - 1
        /\ \A i \in 1..Len(chain) - 1 : Tail(chain)[i] = chain[i + 1]
    BY <1>1, HeadTailProperties
  <1>3. \A i \in 1..Len(chain) - 1 : i + 1 \in 1..Len(chain) /\ i + 1 # 1 /\ 1 \in 1..Len(chain)
    BY <1>1
  <1>4. \A i \in 1..Len(chain) - 1 : chain[i + 1] # chain[1]
    BY <1>3 DEF QueuedOnce
  <1> QED BY <1>1, <1>2, <1>3, <1>4

\* QueuedOnce holds of what is left.
LEMMA TailOnce ==
    ASSUME TypeOK, QueuedOnce, chain # << >>, chain' = Tail(chain)
    PROVE  QueuedOnce'
  <1> SUFFICES ASSUME NEW i \in 1..Len(chain'), NEW j \in 1..Len(chain'), chain'[i] = chain'[j]
               PROVE  i = j
    BY DEF QueuedOnce
  <1>1. chain[i + 1] = chain[j + 1] /\ i + 1 \in 1..Len(chain) /\ j + 1 \in 1..Len(chain)
    BY ChainTail
  <1>2. i + 1 = j + 1
    BY <1>1 DEF QueuedOnce
  <1>3. i \in Int /\ j \in Int
    BY ChainTail DEF TypeOK
  <1> QED BY <1>2, <1>3

\* A report that is not queued may be.
LEMMA AppendOnce ==
    ASSUME QueuedOnce, Len(chain) \in Nat, NEW x, \A i \in 1..Len(chain) : chain[i] # x,
           Len(chain') = Len(chain) + 1, chain'[Len(chain) + 1] = x,
           \A i \in 1..Len(chain) : chain'[i] = chain[i]
    PROVE  QueuedOnce'
  <1> SUFFICES ASSUME NEW i \in 1..Len(chain'), NEW j \in 1..Len(chain'), chain'[i] = chain'[j]
               PROVE  i = j
    BY DEF QueuedOnce
  <1>1. /\ i \in 1..Len(chain) \/ i = Len(chain) + 1
        /\ j \in 1..Len(chain) \/ j = Len(chain) + 1
    OBVIOUS
  <1>2. CASE i \in 1..Len(chain) /\ j \in 1..Len(chain)
    BY <1>2 DEF QueuedOnce
  <1> QED BY <1>1, <1>2

\* Facts about the places that survive when the head leaves the chain: the
\* rest of the chain is as it was, and only the head's place changes.
LEMMA HeadLeaves ==
    ASSUME Inv, chain # << >>, chain' = Tail(chain), made' = made, attempts' = attempts,
           \A r \in Number : r # Head(chain) => landed'[r] = landed[r],
           sleeping' \subseteq sleeping \cup {Head(chain)},
           resending' \in {resending, resending \cup {Head(chain)}, resending \ {Head(chain)}},
           Head(chain) \in sleeping' => /\ landed'[Head(chain)] = 0
                                        /\ attempts[Head(chain)] < MAX_RESENDS
    PROVE  OnePlace'
  <1>1. QueuedOnce'
    BY TailOnce DEF Inv, OnePlace
  <1>2. QueuedPending'
    <2> SUFFICES ASSUME NEW i \in 1..Len(chain')
                 PROVE  /\ chain'[i] \notin sleeping'
                        /\ landed'[chain'[i]] = 0
                        /\ chain'[i] \notin resending' => attempts'[chain'[i]] = 0
      BY DEF QueuedPending
    <2>1. i + 1 \in 1..Len(chain) /\ chain'[i] = chain[i + 1] /\ chain'[i] # Head(chain)
      BY ChainTail DEF Inv, OnePlace
    <2>2. chain'[i] \in Number
      BY <2>1, ChainMembers DEF Inv
    <2>3. /\ chain'[i] \notin sleeping /\ landed[chain'[i]] = 0
          /\ chain'[i] \notin resending => attempts[chain'[i]] = 0
      BY <2>1 DEF Inv, OnePlace, QueuedPending
    <2> QED BY <2>1, <2>2, <2>3
  <1>3. AsleepPending'
    <2> SUFFICES ASSUME NEW r \in sleeping'
                 PROVE  landed'[r] = 0 /\ attempts'[r] < MAX_RESENDS
      BY DEF AsleepPending
    <2>1. CASE r = Head(chain)
      BY <2>1
    <2>2. CASE r # Head(chain)
      <3>1. r \in sleeping /\ r \in Number
        BY <2>2, MadeFacts DEF Inv, TypeOK
      <3> QED BY <2>2, <3>1 DEF Inv, OnePlace, AsleepPending
    <2> QED BY <2>1, <2>2
  <1>4. Unmade'
    <2>1. Head(chain) \in 1..Len(made)
      BY ChainTail DEF Inv, OnePlace
    <2>2. Len(made) \in Nat
      BY MadeFacts DEF Inv
    <2> QED BY <2>1, <2>2 DEF Inv, OnePlace, Unmade, Number
  <1> QED BY <1>1, <1>2, <1>3, <1>4 DEF OnePlace

-----------------------------------------------------------------------------
(***************************************************************************)
(* One step of each action.                                                *)
(***************************************************************************)
\* A report that is queued, or dropped at the cap.
LEMMA MakeReportInv ==
    ASSUME Inv, NEW report \in Report, MakeReport(report)
    PROVE  Inv'
  <1> DEFINE n == Len(made) + 1
  <1>1. /\ Len(made) \in Nat /\ MaxReported \in Nat /\ n \in Number
        /\ \A r \in 1..Len(made) : r \in Number
    BY MadeFacts, ReportAssumption DEF Inv, MakeReport, Number
  <1>2. /\ made' \in Seq(Report) /\ Len(made') = n
        /\ \A r \in 1..Len(made) : made'[r] = made[r]
    BY <1>1 DEF MakeReport, Inv, TypeOK
  <1>3. chain \in Seq(1..n)
    <2>1. 1..Len(made) \subseteq 1..n
      BY <1>1
    <2> QED BY <2>1 DEF Inv, TypeOK
  <1>4. /\ chain' \in Seq(1..n)
        /\ \A i \in 1..Len(chain) : chain[i] \in 1..Len(made)
        /\ Len(chain) \in Nat
    <2>1. n \in 1..n
      BY <1>1
    <2>2. chain' \in Seq(1..n)
      <3>1. Append(chain, n) \in Seq(1..n)
        BY <1>3, <2>1, AppendProperties
      <3> QED BY <1>3, <3>1 DEF MakeReport
    <2> QED BY <2>2, ChainMembers DEF Inv
  <1>5. \/ chain' = chain
        \/ /\ Len(chain') = Len(chain) + 1 /\ chain'[Len(chain) + 1] = n
           /\ \A i \in 1..Len(chain) : chain'[i] = chain[i]
    BY <1>3, <1>4 DEF MakeReport
  <1>6. TypeOK'
    BY <1>1, <1>2, <1>4 DEF MakeReport, counters, Inv, TypeOK
  <1>7. resending \subseteq 1..Len(made) /\ sleeping \subseteq 1..Len(made)
    BY DEF Inv, TypeOK
  <1>8. landed[n] = 0 /\ attempts[n] = 0
    BY <1>1 DEF Inv, OnePlace, Unmade
  <1>9. OnePlace'
    <2>1. QueuedOnce'
      <3>1. CASE chain' = chain
        BY <3>1 DEF QueuedOnce, Inv, OnePlace
      <3>2. CASE chain' # chain
        <4>1. \A i \in 1..Len(chain) : chain[i] # n
          BY <1>1, <1>4
        <4> QED BY <1>4, <1>5, <3>2, <4>1, AppendOnce DEF Inv, OnePlace
      <3> QED BY <3>1, <3>2
    <2>2. QueuedPending'
      BY <1>1, <1>4, <1>5, <1>7, <1>8 DEF QueuedPending, Inv, OnePlace, MakeReport
    <2>3. AsleepPending'
      BY DEF AsleepPending, Inv, OnePlace, MakeReport
    <2>4. Unmade'
      BY <1>1, <1>2 DEF Unmade, Inv, OnePlace, MakeReport, Number
    <2> QED BY <2>1, <2>2, <2>3, <2>4 DEF OnePlace
  <1>10. LandsOnce'
    BY DEF LandsOnce, Inv, MakeReport
  <1>11. PoolIsExact'
    <2>1. \A s : {r \in resending : made'[r].box = s} = {r \in resending : made[r].box = s}
      BY <1>2, <1>7
    <2> QED BY <2>1 DEF PoolIsExact, Inv, MakeReport, counters
  <1> QED BY <1>6, <1>9, <1>10, <1>11 DEF Inv

\* A post that lands, of a first try or of a resend.
LEMMA PostLandsInv ==
    ASSUME Inv, PostLands
    PROVE  Inv'
  <1> DEFINE h == Head(chain)
  <1>1. /\ h \in 1..Len(made) /\ h \in Number
        /\ Tail(chain) \in Seq(1..Len(made))
        /\ landed[h] = 0 /\ h \notin sleeping
    BY ChainTail, MadeFacts DEF PostLands, Inv, OnePlace, QueuedPending
  <1>2. landed' = [landed EXCEPT ![h] = 1]
    BY <1>1 DEF PostLands, Lands, Inv, TypeOK
  <1>3. /\ PoolIsExact'
        /\ pendingResends' \in [Sandbox -> Nat] /\ totalPendingResends' \in Nat
        /\ resending' = resending \ {h}
    BY LoopEndsPool DEF PostLands, Inv
  <1>4. TypeOK'
    BY <1>1, <1>2, <1>3 DEF PostLands, Inv, TypeOK
  <1>5. OnePlace'
    BY <1>1, <1>2, <1>3, HeadLeaves DEF PostLands, Inv, TypeOK
  <1>6. LandsOnce'
    BY <1>1, <1>2 DEF Inv, LandsOnce, TypeOK
  <1> QED BY <1>3, <1>4, <1>5, <1>6 DEF Inv

\* A resend goes back into the chain.
LEMMA ResendInv ==
    ASSUME Inv, NEW r \in sleeping, Resend(r)
    PROVE  Inv'
  <1>1. /\ Len(made) \in Nat /\ r \in 1..Len(made) /\ r \in Number /\ r \in resending
        /\ MAX_RESENDS \in Nat
    BY MadeFacts, ResendAssumption DEF Inv, TypeOK
  <1>2. landed[r] = 0 /\ attempts[r] < MAX_RESENDS
    BY DEF Inv, OnePlace, AsleepPending
  <1>3. /\ chain' \in Seq(1..Len(made)) /\ Len(chain) \in Nat
        /\ Len(chain') = Len(chain) + 1 /\ chain'[Len(chain) + 1] = r
        /\ \A i \in 1..Len(chain) : chain'[i] = chain[i]
    BY <1>1 DEF Resend, Inv, TypeOK
  <1>4. /\ attempts' \in [Number -> 0..MAX_RESENDS]
        /\ \A q \in Number : q # r => attempts'[q] = attempts[q]
    BY <1>1, <1>2 DEF Resend, Inv, TypeOK
  <1>5. TypeOK'
    BY <1>3, <1>4 DEF Resend, counters, Inv, TypeOK
  <1>6. \A i \in 1..Len(chain) : chain[i] # r /\ chain[i] \in Number
    <2>1. \A i \in 1..Len(chain) : chain[i] \in Number
      BY MadeFacts DEF Inv, TypeOK
    <2>2. \A i \in 1..Len(chain) : chain[i] # r
      BY <2>1 DEF Inv, OnePlace, QueuedPending, TypeOK
    <2> QED BY <2>1, <2>2
  <1>7. QueuedOnce'
    BY <1>3, <1>6, AppendOnce DEF Inv, OnePlace
  <1>8. QueuedPending'
    BY <1>1, <1>2, <1>3, <1>4, <1>6 DEF QueuedPending, Inv, OnePlace, Resend
  <1>9. AsleepPending'
    <2>1. \A q \in sleeping' : q \in sleeping /\ q # r /\ q \in Number
      BY MadeFacts DEF Resend, Inv, TypeOK
    <2> QED BY <1>4, <2>1 DEF AsleepPending, Inv, OnePlace, Resend
  <1>10. Unmade'
    BY <1>1, <1>4 DEF Unmade, Inv, OnePlace, Resend, Number
  <1>11. LandsOnce' /\ PoolIsExact'
    BY DEF LandsOnce, PoolIsExact, Inv, Resend, counters
  <1> QED BY <1>5, <1>7, <1>8, <1>9, <1>10, <1>11 DEF Inv, OnePlace

\* A post that fails: dropped, held for a resend, or put to sleep again.
LEMMA PostFailsInv ==
    ASSUME Inv, PostFails
    PROVE  Inv'
  <1> DEFINE h == Head(chain)
  <1>1. /\ h \in 1..Len(made) /\ h \in Number
        /\ Tail(chain) \in Seq(1..Len(made))
        /\ landed[h] = 0 /\ h \notin sleeping
        /\ h \notin resending => attempts[h] = 0
        /\ MAX_RESENDS \in Nat \ {0}
    BY ChainTail, MadeFacts, ResendAssumption DEF PostFails, Inv, OnePlace, QueuedPending
  <1>2. PICK failure \in Failure :
          /\ (failure = "lost" /\ Lands(h)) \/ UNCHANGED landed
          /\ unrepeated' = IF failure \in {"rejected", "lost"}
                           THEN unrepeated \cup {h} ELSE unrepeated
          /\ IF h \in resending THEN resendFails(h, failure) ELSE firstPostFails(h, failure)
    BY DEF PostFails
  <1>3. /\ landed' \in [Number -> Nat] /\ landed'[h] \in 0..1
        /\ \A r \in Number : r # h => landed'[r] = landed[r]
        /\ isProvablyUnapplied(failure) => landed'[h] = 0
    BY <1>1, <1>2 DEF Lands, isProvablyUnapplied, Inv, TypeOK
  <1>4. made' = made /\ attempts' = attempts /\ chain' = Tail(chain) /\ chain # << >>
    BY DEF PostFails
  <1>5. /\ PoolIsExact'
        /\ pendingResends' \in [Sandbox -> Nat] /\ totalPendingResends' \in Nat
        /\ resending' \in {resending, resending \cup {h}, resending \ {h}}
        /\ sleeping' \in {sleeping, sleeping \cup {h}}
        /\ sleeping' \subseteq resending'
        /\ h \in sleeping' => landed'[h] = 0 /\ attempts[h] < MAX_RESENDS
    <2>1. CASE h \in resending /\ isProvablyUnapplied(failure) /\ hasBudget(h)
      <3>1. /\ sleeping' = sleeping \cup {h} /\ resending' = resending
            /\ pendingResends' = pendingResends
            /\ totalPendingResends' = totalPendingResends
        BY <1>2, <2>1 DEF resendFails, counters
      <3>2. PoolIsExact'
        BY <1>4, <3>1 DEF Inv, PoolIsExact
      <3>3. landed'[h] = 0 /\ attempts[h] < MAX_RESENDS
        BY <1>3, <2>1 DEF hasBudget
      <3> QED BY <2>1, <3>1, <3>2, <3>3 DEF Inv, TypeOK
    <2>2. CASE h \in resending /\ ~(isProvablyUnapplied(failure) /\ hasBudget(h))
      <3>1. loopEnds(h) /\ sleeping' = sleeping
        BY <1>2, <2>2 DEF resendFails
      <3>2. /\ PoolIsExact'
            /\ pendingResends' \in [Sandbox -> Nat] /\ totalPendingResends' \in Nat
            /\ resending' = resending \ {h}
        BY <1>4, <3>1, LoopEndsPool DEF Inv
      <3> QED BY <1>1, <3>1, <3>2 DEF Inv, TypeOK
    <2>3. CASE /\ h \notin resending
               /\ isResendable(h) /\ isProvablyUnapplied(failure) /\ mayHold(made[h].box)
      <3>1. /\ holdResend(made[h].box)
            /\ resending' = resending \cup {h} /\ sleeping' = sleeping \cup {h}
        BY <1>2, <2>3 DEF firstPostFails
      <3>2. /\ PoolIsExact'
            /\ pendingResends' \in [Sandbox -> Nat] /\ totalPendingResends' \in Nat
        BY <1>1, <1>4, <2>3, <3>1, PoolHolds DEF Inv
      <3>3. landed'[h] = 0 /\ attempts[h] < MAX_RESENDS
        BY <1>1, <1>3, <2>3
      <3> QED BY <3>1, <3>2, <3>3 DEF Inv, TypeOK
    <2>4. CASE /\ h \notin resending
               /\ ~(isResendable(h) /\ isProvablyUnapplied(failure) /\ mayHold(made[h].box))
      BY <1>1, <1>2, <1>4, <2>4 DEF firstPostFails, counters, Inv, PoolIsExact, TypeOK
    <2> QED BY <2>1, <2>2, <2>3, <2>4
  <1>6. TypeOK'
    <2>1. resending' \subseteq 1..Len(made)
      BY <1>1, <1>5 DEF Inv, TypeOK
    <2>2. unrepeated' \subseteq Number /\ failures' \in Nat
      BY <1>1, <1>2 DEF PostFails, Inv, TypeOK
    <2> QED BY <1>1, <1>3, <1>4, <1>5, <2>1, <2>2 DEF Inv, TypeOK
  <1>7. OnePlace'
    <2>1. sleeping' \subseteq sleeping \cup {h}
      BY <1>5
    <2> QED BY <1>3, <1>4, <1>5, <2>1, HeadLeaves
  <1>8. LandsOnce'
    <2> SUFFICES ASSUME NEW r \in Number PROVE landed'[r] <= 1
      BY DEF LandsOnce
    <2>1. CASE r = h
      BY <1>3, <2>1
    <2>2. CASE r # h
      BY <1>3, <2>2 DEF Inv, LandsOnce
    <2> QED BY <2>1, <2>2
  <1> QED BY <1>5, <1>6, <1>7, <1>8 DEF Inv

-----------------------------------------------------------------------------
\* Every step preserves the invariant.
LEMMA InvNext == Inv /\ [Next]_vars => Inv'
  <1> SUFFICES ASSUME Inv, [Next]_vars PROVE Inv'
    OBVIOUS
  <1>1. CASE \E report \in Report : MakeReport(report)
    BY <1>1, MakeReportInv
  <1>2. CASE PostLands
    BY <1>2, PostLandsInv
  <1>3. CASE PostFails
    BY <1>3, PostFailsInv
  <1>4. CASE \E r \in sleeping : Resend(r)
    BY <1>4, ResendInv
  <1>5. CASE UNCHANGED vars
    BY <1>5 DEF vars, counters, Inv, TypeOK, OnePlace, QueuedOnce, QueuedPending, AsleepPending,
                Unmade, LandsOnce, PoolIsExact
  <1> QED BY <1>1, <1>2, <1>3, <1>4, <1>5 DEF Next

\* The invariant holds always.
LEMMA InvAlways == Spec => []Inv
  <1> QED BY InvInit, InvNext, PTL DEF Spec

\* The control plane applies a report at most once, however posts fail,
\* answers are lost and turn ends are sent again (report-chain.ts, `resend`).
THEOREM LandsOnceHolds == Spec => []LandsOnce
  <1>1. Inv => LandsOnce
    BY DEF Inv
  <1> QED BY <1>1, InvAlways, PTL

\* The counters of the resend pool are the numbers of loops that are alive:
\* every path out of a loop gives back what holdResend took.
THEOREM PoolIsExactHolds == Spec => []PoolIsExact
  <1>1. Inv => PoolIsExact
    BY DEF Inv
  <1> QED BY <1>1, InvAlways, PTL

\* Type correctness of the chain: no counter goes below zero, and no loop
\* makes more rounds than MAX_RESENDS.
THEOREM ReportTypeCorrect == Spec => []TypeOK
  <1>1. Inv => TypeOK
    BY DEF Inv
  <1> QED BY <1>1, InvAlways, PTL

-----------------------------------------------------------------------------
(***************************************************************************)
(* The length of the chain.                                                *)
(***************************************************************************)
\* The places of sequence s that hold a member of B.
At(s, B) == {i \in 1..Len(s) : s[i] \in B}

\* Reports that were made: the events, and those no resend loop sends.
Events == {r \in 1..Len(made) : made[r].kind = "event"}
Firsts == (1..Len(made)) \ resending

\* Only turn ends are sent again, and the pool bounds them.
PoolBounded ==
    /\ totalPendingResends <= MAX_PENDING_RESENDS
    /\ \A r \in resending : made[r].kind = "end"

\* First posts pass the cap of their kind; what is above it is resends.
FirstsBounded ==
    /\ Cardinality(At(chain, Events)) <= MAX_QUEUED_REPORTS
    /\ Cardinality(At(chain, Firsts)) <= MAX_QUEUED_REPORTS + TERMINAL_RESERVE

BoundInv == PoolBounded /\ FirstsBounded

LEMMA AtFacts ==
    ASSUME NEW S, NEW s \in Seq(S), NEW B
    PROVE  /\ Len(s) \in Nat /\ IsFiniteSet(At(s, B))
           /\ Cardinality(At(s, B)) \in Nat /\ Cardinality(At(s, B)) <= Len(s)
  <1>1. Len(s) \in Nat
    OBVIOUS
  <1>2. IsFiniteSet(1..Len(s)) /\ Cardinality(1..Len(s)) = Len(s)
    BY <1>1, FS_Interval
  <1>3. At(s, B) \subseteq 1..Len(s)
    BY DEF At
  <1>4. IsFiniteSet(At(s, B)) /\ Cardinality(At(s, B)) <= Cardinality(1..Len(s))
    BY <1>2, <1>3, FS_Subset
  <1>5. Cardinality(At(s, B)) \in Nat
    BY <1>4, FS_CardinalityType
  <1> QED BY <1>1, <1>2, <1>4, <1>5

\* What leaves a sequence at its head adds nothing.
LEMMA TailAt ==
    ASSUME NEW S, NEW s \in Seq(S), s # << >>, NEW B
    PROVE  Cardinality(At(Tail(s), B)) <= Cardinality(At(s, B))
  <1>1. \A i \in 1..Len(Tail(s)) : i \in Int /\ i + 1 \in 1..Len(s) /\ Tail(s)[i] = s[i + 1]
    OBVIOUS
  <1> DEFINE f == [i \in At(Tail(s), B) |-> i + 1]
  <1>2. f \in [At(Tail(s), B) -> At(s, B)]
    BY <1>1 DEF At
  <1>3. \A i, j \in At(Tail(s), B) : f[i] = f[j] => i = j
    BY <1>1 DEF At
  <1> HIDE DEF f
  <1>4. f \in Injection(At(Tail(s), B), At(s, B))
    BY <1>2, <1>3 DEF Injection, IsInjective
  <1>5. IsFiniteSet(At(s, B))
    BY AtFacts
  <1> QED BY <1>4, <1>5, FS_Injection

\* What joins at its end adds at most itself.
LEMMA AppendAt ==
    ASSUME NEW S, NEW s \in Seq(S), NEW x \in S, NEW B
    PROVE  /\ x \notin B => At(Append(s, x), B) = At(s, B)
           /\ Cardinality(At(Append(s, x), B)) <= Len(s) + 1
  <1>1. /\ Append(s, x) \in Seq(S) /\ Len(s) \in Nat /\ Len(Append(s, x)) = Len(s) + 1
        /\ \A i \in 1..Len(s) : Append(s, x)[i] = s[i]
        /\ Append(s, x)[Len(s) + 1] = x
    OBVIOUS
  <1>2. x \notin B => At(Append(s, x), B) = At(s, B)
    BY <1>1 DEF At
  <1>3. Cardinality(At(Append(s, x), B)) <= Len(Append(s, x))
    BY <1>1, AtFacts
  <1> QED BY <1>1, <1>2, <1>3

\* Only the members of s matter.
LEMMA SameAt ==
    ASSUME NEW S, NEW s \in Seq(S), NEW B, NEW C, \A i \in 1..Len(s) : s[i] \in B <=> s[i] \in C
    PROVE  At(s, B) = At(s, C)
  BY DEF At

\* A post at the head leaves the chain shorter, and only the head may enter
\* the pool or leave it.
LEMMA HeadBound ==
    ASSUME Inv, BoundInv, chain # << >>, chain' = Tail(chain), made' = made,
           resending' \in {resending, resending \cup {Head(chain)}, resending \ {Head(chain)}}
    PROVE  FirstsBounded'
  <1>1. PICK s \in Seq(1..Len(made)) : s = chain /\ s # << >>
    BY DEF Inv, TypeOK
  <1>2. PICK t \in Seq(1..Len(made)) : t = chain' /\ t = Tail(s)
    <2>1. Tail(s) \in Seq(1..Len(made)) /\ chain' = Tail(s)
      BY <1>1, HeadTailProperties
    <2> QED BY <2>1, Zenon
  <1>3. \A i \in 1..Len(t) : t[i] # Head(chain)
    BY <1>1, <1>2, ChainTail DEF Inv, OnePlace
  <1>4. At(t, Firsts') = At(t, Firsts)
    <2>1. \A i \in 1..Len(t) : t[i] \in Firsts' <=> t[i] \in Firsts
      BY <1>3 DEF Firsts
    <2>2. PICK B, C : B = Firsts /\ C = Firsts'
      OBVIOUS
    <2> QED BY <2>1, <2>2 DEF At
  <1>5. Events' = Events
    BY DEF Events
  <1>6. PICK B, C : B = Events /\ C = Firsts
    OBVIOUS
  <1>7. /\ Cardinality(At(t, B)) <= Cardinality(At(s, B)) /\ Cardinality(At(t, B)) \in Nat
        /\ Cardinality(At(t, C)) <= Cardinality(At(s, C)) /\ Cardinality(At(t, C)) \in Nat
        /\ Cardinality(At(s, B)) \in Nat /\ Cardinality(At(s, C)) \in Nat
    BY <1>1, <1>2, TailAt, AtFacts
  <1>8. MAX_QUEUED_REPORTS \in Nat /\ TERMINAL_RESERVE \in Nat
    BY ReportAssumption
  <1>9. /\ Cardinality(At(s, B)) <= MAX_QUEUED_REPORTS
        /\ Cardinality(At(s, C)) <= MAX_QUEUED_REPORTS + TERMINAL_RESERVE
    BY <1>1, <1>6 DEF BoundInv, FirstsBounded
  <1>10. At(chain, Events)' = At(t, B) /\ At(chain, Firsts)' = At(t, C)
    BY <1>2, <1>4, <1>5, <1>6 DEF At
  <1> QED BY <1>7, <1>8, <1>9, <1>10 DEF FirstsBounded

LEMMA BoundNext == Inv /\ BoundInv /\ [Next]_vars => BoundInv'
  <1> SUFFICES ASSUME Inv, BoundInv, [Next]_vars PROVE BoundInv'
    OBVIOUS
  <1>0. /\ MAX_QUEUED_REPORTS \in Nat /\ TERMINAL_RESERVE \in Nat /\ MAX_PENDING_RESENDS \in Nat
        /\ totalPendingResends \in Nat /\ Len(made) \in Nat /\ chain \in Seq(1..Len(made))
        /\ resending \subseteq 1..Len(made)
    BY ReportAssumption, MadeFacts DEF Inv, TypeOK
  <1>1. ASSUME NEW report \in Report, MakeReport(report)
        PROVE  BoundInv'
    <2>1. PICK n \in Nat : n = Len(made) + 1
      BY <1>0
    <2>2. /\ made' = Append(made, report) /\ Len(made') = n /\ made'[n] = report
          /\ \A r \in 1..Len(made) : made'[r] = made[r]
          /\ resending' = resending /\ totalPendingResends' = totalPendingResends
      BY <1>1, <2>1 DEF MakeReport, Inv, TypeOK, counters
    <2>3. PoolBounded'
      BY <1>0, <2>2 DEF BoundInv, PoolBounded
    <2>4. n \notin 1..Len(made) /\ \A r \in 1..Len(made) : (r \in Events' <=> r \in Events) /\ (r \in Firsts' <=> r \in Firsts)
      BY <1>0, <2>1, <2>2 DEF Events, Firsts
    <2>5. PICK s \in Seq(1..n) : s = chain
      <3>1. 1..Len(made) \subseteq 1..n
        BY <1>0, <2>1
      <3> QED BY <1>0, <3>1
    <2>6. \A i \in 1..Len(s) : s[i] \in 1..Len(made)
      BY <1>0, <2>5
    <2>7. PICK E, F, E1, F1 : E = Events /\ F = Firsts /\ E1 = Events' /\ F1 = Firsts'
      OBVIOUS
    <2>8. At(s, E1) = At(s, E) /\ At(s, F1) = At(s, F)
      BY <2>4, <2>6, <2>7 DEF At
    <2>9. /\ Cardinality(At(s, E)) <= MAX_QUEUED_REPORTS
          /\ Cardinality(At(s, F)) <= MAX_QUEUED_REPORTS + TERMINAL_RESERVE
      BY <2>5, <2>7 DEF BoundInv, FirstsBounded
    <2>10. CASE chain' = chain
      BY <2>3, <2>5, <2>7, <2>8, <2>9, <2>10 DEF BoundInv, FirstsBounded
    <2>11. CASE chain' # chain
      <3>1. chain' = Append(s, n) /\ Len(s) < capFor(report.kind) /\ n \in 1..n /\ Len(s) \in Nat
        BY <1>0, <1>1, <2>1, <2>5, <2>11 DEF MakeReport, capFor
      <3>2. /\ n \notin E1 => At(Append(s, n), E1) = At(s, E1)
            /\ Cardinality(At(Append(s, n), E1)) <= Len(s) + 1
            /\ Cardinality(At(Append(s, n), F1)) <= Len(s) + 1
            /\ Cardinality(At(Append(s, n), E1)) \in Nat /\ Cardinality(At(Append(s, n), F1)) \in Nat
        <4>1. Append(s, n) \in Seq(1..n)
          BY <3>1
        <4> QED BY <3>1, <4>1, AppendAt, AtFacts
      <3>3. Cardinality(At(Append(s, n), F1)) <= MAX_QUEUED_REPORTS + TERMINAL_RESERVE
        BY <1>0, <3>1, <3>2 DEF capFor
      <3>4. Cardinality(At(Append(s, n), E1)) <= MAX_QUEUED_REPORTS
        <4>1. CASE report.kind = "event"
          BY <1>0, <3>1, <3>2, <4>1 DEF capFor
        <4>2. CASE report.kind # "event"
          <5>1. n \notin E1
            BY <2>2, <2>7, <4>2 DEF Events
          <5> QED BY <2>8, <2>9, <3>2, <5>1
        <4> QED BY <4>1, <4>2
      <3> QED BY <2>3, <2>7, <3>1, <3>3, <3>4 DEF BoundInv, FirstsBounded
    <2> QED BY <2>10, <2>11
  <1>2. CASE PostLands
    <2>1. chain # << >> /\ chain' = Tail(chain) /\ made' = made /\ loopEnds(Head(chain))
      BY <1>2 DEF PostLands
    <2>2. Head(chain) \in 1..Len(made)
      BY <2>1, ChainTail DEF Inv, OnePlace
    <2>3. /\ resending' = resending \ {Head(chain)} /\ PoolIsExact' /\ totalPendingResends' \in Nat
          /\ totalPendingResends' <= totalPendingResends
      BY <1>0, <2>1, <2>2, LoopEndsPool DEF Inv, loopEnds, releaseResend, counters
    <2>4. PoolBounded'
      BY <1>0, <2>1, <2>3 DEF BoundInv, PoolBounded
    <2> QED BY <2>1, <2>3, <2>4, HeadBound DEF BoundInv
  <1>3. CASE PostFails
    <2>1. chain # << >> /\ chain' = Tail(chain) /\ made' = made
      BY <1>3 DEF PostFails
    <2>2. PICK failure \in Failure :
            IF Head(chain) \in resending THEN resendFails(Head(chain), failure)
                                         ELSE firstPostFails(Head(chain), failure)
      BY <1>3 DEF PostFails
    <2>3. /\ resending' \in {resending, resending \cup {Head(chain)}, resending \ {Head(chain)}}
          /\ PoolBounded'
      <3>1. CASE resending' = resending /\ UNCHANGED counters
        BY <2>1, <3>1 DEF BoundInv, PoolBounded, counters
      <3>2. CASE loopEnds(Head(chain))
        <4>1. CASE Head(chain) \in resending
          <5>1. totalPendingResends' = totalPendingResends - 1 /\ resending' = resending \ {Head(chain)}
            BY <3>2, <4>1 DEF loopEnds, releaseResend
          <5> QED BY <1>0, <2>1, <5>1 DEF BoundInv, PoolBounded
        <4>2. CASE Head(chain) \notin resending
          BY <2>1, <3>2, <4>2 DEF loopEnds, counters, BoundInv, PoolBounded
        <4> QED BY <4>1, <4>2
      <3>3. CASE /\ isResendable(Head(chain)) /\ mayHold(made[Head(chain)].box)
                 /\ holdResend(made[Head(chain)].box) /\ resending' = resending \cup {Head(chain)}
        BY <1>0, <2>1, <3>3 DEF isResendable, mayHold, holdResend, BoundInv, PoolBounded
      <3> QED BY <2>2, <3>1, <3>2, <3>3 DEF resendFails, firstPostFails
    <2> QED BY <2>1, <2>3, HeadBound DEF BoundInv
  <1>4. ASSUME NEW r \in sleeping, Resend(r)
        PROVE  BoundInv'
    <2>1. /\ r \in resending /\ r \in 1..Len(made) /\ chain' = Append(chain, r)
          /\ UNCHANGED <<made, resending, totalPendingResends>>
      BY <1>4 DEF Resend, counters, Inv, TypeOK
    <2>2. r \notin Events /\ r \notin Firsts
      BY <2>1 DEF BoundInv, PoolBounded, Events, Firsts
    <2>3. PICK E, F : E = Events /\ F = Firsts /\ E = Events' /\ F = Firsts'
      BY <2>1 DEF Events, Firsts
    <2>4. At(Append(chain, r), E) = At(chain, E) /\ At(Append(chain, r), F) = At(chain, F)
      BY <1>0, <2>1, <2>2, <2>3, AppendAt
    <2>5. FirstsBounded'
      BY <2>1, <2>3, <2>4 DEF BoundInv, FirstsBounded
    <2> QED BY <2>1, <2>5 DEF BoundInv, PoolBounded
  <1>5. CASE UNCHANGED vars
    BY <1>5 DEF vars, counters, BoundInv, PoolBounded, FirstsBounded, Events, Firsts, At
  <1> QED BY <1>1, <1>2, <1>3, <1>4, <1>5 DEF Next

\* The queue stays bounded although a resend passes no cap: events stay within
\* theirs, so the reserve is left to turn ends, and what is above both caps is
\* a resend that the pool counts (report-chain.ts, `enqueue` and `holdResend`).
THEOREM ChainIsBoundedHolds == Spec => []ChainIsBounded
  <1>1. Init => BoundInv
    <2> SUFFICES ASSUME Init PROVE BoundInv
      OBVIOUS
    <2>1. At(chain, Events) = {} /\ At(chain, Firsts) = {}
      BY DEF Init, At
    <2>2. Cardinality(At(chain, Events)) = 0 /\ Cardinality(At(chain, Firsts)) = 0
      BY <2>1, FS_EmptySet
    <2>3. MAX_QUEUED_REPORTS \in Nat /\ TERMINAL_RESERVE \in Nat /\ MAX_PENDING_RESENDS \in Nat
      BY ReportAssumption
    <2> QED BY <2>2, <2>3 DEF Init, BoundInv, PoolBounded, FirstsBounded
  <1>2. Inv /\ BoundInv => ChainIsBounded
    <2> SUFFICES ASSUME Inv, BoundInv PROVE ChainIsBounded
      OBVIOUS
    <2>0. /\ MAX_QUEUED_REPORTS \in Nat /\ TERMINAL_RESERVE \in Nat /\ MAX_PENDING_RESENDS \in Nat
          /\ chain \in Seq(1..Len(made)) /\ resending \subseteq 1..Len(made) /\ IsFiniteSet(resending)
      BY ReportAssumption, MadeFacts DEF Inv, TypeOK
    <2>1. \A i \in 1..Len(chain) : chain[i] \in 1..Len(made)
      BY <2>0
    <2>2. {i \in 1..Len(chain) : made[chain[i]].kind = "event"} = At(chain, Events)
      BY <2>1 DEF At, Events
    <2>3. Cardinality(At(chain, resending)) <= Cardinality(resending)
      <3> DEFINE f == [i \in At(chain, resending) |-> chain[i]]
      <3>1. f \in [At(chain, resending) -> resending] /\ \A i, j \in At(chain, resending) : f[i] = f[j] => i = j
        BY DEF At, Inv, OnePlace, QueuedOnce
      <3>2. f \in Injection(At(chain, resending), resending)
        BY <3>1 DEF Injection, IsInjective
      <3> QED BY <2>0, <3>2, FS_Injection
    <2>4. Cardinality(resending) <= MAX_PENDING_RESENDS
      BY DEF Inv, PoolIsExact, BoundInv, PoolBounded
    <2>5. /\ IsFiniteSet(At(chain, resending)) /\ IsFiniteSet(At(chain, Firsts)) /\ Len(chain) \in Nat
          /\ Cardinality(At(chain, resending)) \in Nat /\ Cardinality(At(chain, Firsts)) \in Nat
      BY <2>0, AtFacts
    <2>6. 1..Len(chain) = At(chain, Firsts) \cup At(chain, resending) /\ At(chain, Firsts) \cap At(chain, resending) = {}
      BY <2>1 DEF At, Firsts
    <2>7. Cardinality(1..Len(chain)) = Cardinality(At(chain, Firsts)) + Cardinality(At(chain, resending))
      <3>1. PICK S, T : S = At(chain, Firsts) /\ T = At(chain, resending)
        OBVIOUS
      <3>2. IsFiniteSet(S) /\ IsFiniteSet(T) /\ S \cap T = {} /\ Cardinality(S) \in Nat /\ Cardinality(T) \in Nat
        BY <2>5, <2>6, <3>1
      <3>3. Cardinality(S \cup T) = Cardinality(S) + Cardinality(T) - Cardinality(S \cap T)
        BY <3>2, FS_Union
      <3>4. Cardinality(S \cap T) = 0
        BY <3>2, FS_EmptySet
      <3>5. Cardinality(S \cup T) = Cardinality(S) + Cardinality(T)
        BY <3>2, <3>3, <3>4
      <3>6. 1..Len(chain) = S \cup T
        BY <2>6, <3>1
      <3> QED BY <3>1, <3>5, <3>6, Zenon
    <2>8. Cardinality(1..Len(chain)) = Len(chain)
      <3>1. PICK n \in Nat : n = Len(chain)
        BY <2>5
      <3>2. Cardinality(1..n) = n
        BY FS_Interval
      <3> QED BY <3>1, <3>2
    <2>9. Cardinality(resending) \in Nat
      BY <2>0, FS_CardinalityType
    <2>10. Len(chain) <= MAX_QUEUED_REPORTS + TERMINAL_RESERVE + MAX_PENDING_RESENDS
      BY <2>0, <2>3, <2>4, <2>5, <2>7, <2>8, <2>9 DEF BoundInv, FirstsBounded
    <2> QED BY <2>2, <2>10 DEF BoundInv, FirstsBounded, ChainIsBounded
  <1> QED BY <1>1, <1>2, BoundNext, InvAlways, PTL DEF Spec

=============================================================================
