--------------------------- MODULE HomeSyncProofs ---------------------------
(***************************************************************************)
(* Theorems about HomeSync, for every number of copies, parts and events.  *)
(***************************************************************************)
EXTENDS HomeSync, FiniteSetTheorems, SequenceTheorems, TLAPS

-----------------------------------------------------------------------------
(***************************************************************************)
(* The invariant.                                                          *)
(***************************************************************************)
\* Every write is bumped for once, so a generation is a version of the truth.
CountsOK == desired >= 1 /\ desired + owed = truth

\* A sync is composed after its claim: it shows at least its generation.
PollOK ==
    poll # NoSync => /\ 1 <= poll.gen /\ poll.gen <= desired
                     /\ poll.content # 0 => poll.gen <= poll.content /\ poll.content <= truth

FrameOK(f) == 1 <= f.gen /\ f.gen <= f.content /\ f.content <= truth

\* f is followed by the next part of its sync, or by another sync.
Follows(f, g) ==
    /\ f.content <= g.content
    /\ g.part = 1 \/ (g.gen = f.gen /\ g.content = f.content /\ g.part = f.part + 1)

\* What is under way never goes back in time; of a sync only a tail is lost.
FramesOK ==
    /\ \A i \in 1..Len(frames) : FrameOK(frames[i])
    /\ \A i \in 1..Len(frames) : i + 1 <= Len(frames) => Follows(frames[i], frames[i + 1])
    /\ \A i, j \in 1..Len(frames) : i <= j => frames[i].content <= frames[j].content
    /\ poll.content # 0 => \A i \in 1..Len(frames) : frames[i].content <= poll.content

\* The parts before the next one were applied, or one of them failed.
HeadOK ==
    frames # << >> =>
        \/ poisoned = Head(frames).gen
        \/ \A p \in 1..Parts : p < Head(frames).part => home[p] >= Head(frames).content

\* The home shows nothing that is later than what is under way.
HomeOK ==
    \A p \in 1..Parts : /\ home[p] <= truth
                        /\ \A i \in 1..Len(frames) : home[p] <= frames[i].content
                        /\ poll.content # 0 => home[p] <= poll.content

\* A generation that was acknowledged, wherever the acknowledgement is by now,
\* is in every part of the home.
Covered(n) == \A p \in 1..Parts : n <= home[p]

AcksOK ==
    /\ Covered(applied)
    /\ \A c \in Copy : \A i \in 1..Len(reports[c]) : Covered(reports[c][i])
    /\ \A i \in 1..Len(outbound) : Covered(outbound[i].report)

\* Before the first container is started nothing was said.
Idle ==
    /\ ~up /\ status # "running" /\ applied = 0 /\ poll = NoSync /\ home = Empty
    /\ frames = << >> /\ outbound = << >> /\ \A c \in Copy : reports[c] = << >>

FirstBoot ==
    /\ budget["boots"] = 0 => ~starting /\ Idle
    /\ budget["boots"] = 1 /\ starting => Idle
    /\ budget["boots"] <= 1 => AcksOK

Versions == CountsOK /\ PollOK /\ FramesOK /\ HeadOK /\ HomeOK

\* An open claim is one of this boot.
ClaimOK == lease => claimed

-----------------------------------------------------------------------------
(***************************************************************************)
(* Sequences.                                                              *)
(***************************************************************************)
LEMMA TailFacts ==
    ASSUME NEW S, NEW s \in Seq(S), s # << >>
    PROVE  /\ Head(s) \in S /\ Head(s) = s[1] /\ Tail(s) \in Seq(S)
           /\ Len(s) \in Nat /\ 1 \in 1..Len(s) /\ Len(Tail(s)) = Len(s) - 1
           /\ \A i \in 1..Len(Tail(s)) : i + 1 \in 1..Len(s) /\ Tail(s)[i] = s[i + 1]
  OBVIOUS

LEMMA Mapped ==
    ASSUME NEW S, NEW n \in Nat, NEW f \in [1..n -> S]
    PROVE  f \in Seq(S) /\ Len(f) = n
  OBVIOUS

LEMMA ConcatFacts ==
    ASSUME NEW S, NEW s \in Seq(S), NEW t \in Seq(S)
    PROVE  /\ s \o t \in Seq(S) /\ Len(s \o t) = Len(s) + Len(t)
           /\ \A i \in 1..Len(s \o t) :
                \/ i \in 1..Len(s) /\ (s \o t)[i] = s[i]
                \/ i - Len(s) \in 1..Len(t) /\ (s \o t)[i] = t[i - Len(s)]
  OBVIOUS

LEMMA AppendFacts ==
    ASSUME NEW S, NEW s \in Seq(S), NEW x \in S
    PROVE  /\ Append(s, x) \in Seq(S)
           /\ \A i \in 1..Len(Append(s, x)) : (i \in 1..Len(s) /\ Append(s, x)[i] = s[i]) \/ Append(s, x)[i] = x
  OBVIOUS

LEMMA PrefixFacts ==
    ASSUME NEW S, NEW s \in Seq(S), NEW n \in 0..Len(s)
    PROVE  /\ SubSeq(s, 1, n) \in Seq(S) /\ Len(SubSeq(s, 1, n)) = n
           /\ \A i \in 1..n : i \in 1..Len(s) /\ SubSeq(s, 1, n)[i] = s[i]
  OBVIOUS

LEMMA SuffixFacts ==
    ASSUME NEW S, NEW s \in Seq(S), NEW n \in Nat
    PROVE  /\ SubSeq(s, n + 1, Len(s)) \in Seq(S)
           /\ \A i \in 1..Len(SubSeq(s, n + 1, Len(s))) :
                \E j \in 1..Len(s) : SubSeq(s, n + 1, Len(s))[i] = s[j]
  <1>1. CASE n < Len(s)
    <2>1. /\ SubSeq(s, n + 1, Len(s)) \in Seq(S) /\ Len(SubSeq(s, n + 1, Len(s))) = Len(s) - n
          /\ \A i \in 1..(Len(s) - n) : SubSeq(s, n + 1, Len(s))[i] = s[n + i] /\ n + i \in 1..Len(s)
      BY <1>1
    <2> QED BY <2>1
  <1>2. CASE ~(n < Len(s))
    <2>1. SubSeq(s, n + 1, Len(s)) = << >>
      BY <1>2
    <2> QED BY <2>1
  <1> QED BY <1>1, <1>2

\* What is said on a new socket, and what of it is kept, was kept before.
LEMMA SaidFacts ==
    ASSUME TypeOK, NEW c \in Copy
    PROVE  /\ unseen(c) \in Seq(Message)
           /\ \A i \in 1..Len(unseen(c)) : \E j \in 1..Len(outbound) : unseen(c)[i] = outbound[j]
           /\ numbered(unseen(c)) \in Seq(Message)
           /\ \A i \in 1..Len(numbered(unseen(c))) :
                 \E j \in 1..Len(outbound) : numbered(unseen(c))[i] = outbound[j]
  <1>1. outbound \in Seq(Message) /\ Len(outbound) \in Nat /\ DOMAIN outbound = 1..Len(outbound)
    BY DEF TypeOK
  <1>2. cursor(c) \in Nat
    <2> DEFINE D == {i \in DOMAIN outbound : c \in outbound[i].seen}
    <2>1. IsFiniteSet(1..Len(outbound))
      BY <1>1, FS_Interval
    <2>2. D \subseteq 1..Len(outbound)
      BY <1>1
    <2>3. IsFiniteSet(D)
      BY <2>1, <2>2, FS_Subset
    <2>4. Cardinality(D) \in Nat
      BY <2>3, FS_CardinalityType
    <2> QED BY <2>4 DEF cursor
  <1> DEFINE u == unseen(c)
  <1>3. u \in Seq(Message) /\ \A i \in 1..Len(u) : \E j \in 1..Len(outbound) : u[i] = outbound[j]
    BY <1>1, <1>2, SuffixFacts DEF unseen
  <1> HIDE DEF u
  <1>4. numbered(u) \in Seq(Message) /\ \A i \in 1..Len(numbered(u)) : \E j \in 1..Len(outbound) : numbered(u)[i] = outbound[j]
    <2>1. CASE numbered(u) = u
      BY <1>3, <2>1
    <2>2. CASE u # << >> /\ numbered(u) = Tail(u)
      BY <1>3, <2>2, TailFacts
    <2> QED BY <2>1, <2>2 DEF numbered
  <1> QED BY <1>3, <1>4 DEF u

-----------------------------------------------------------------------------
(***************************************************************************)
(* Types.                                                                  *)
(***************************************************************************)
LEMMA PartsFacts ==
    ASSUME TypeOK
    PROVE  /\ partsOf(poll) \in Seq(Frame) /\ Len(partsOf(poll)) = Parts
           /\ \A i \in 1..Parts : partsOf(poll)[i] = [gen |-> poll.gen, content |-> poll.content, part |-> i]
  <1>1. \A i \in 1..Parts : [gen |-> poll.gen, content |-> poll.content, part |-> i] \in Frame
    BY DEF TypeOK, Frame
  <1>2. partsOf(poll) \in [1..Parts -> Frame]
    BY <1>1 DEF partsOf
  <1>3. Parts \in Nat
    BY PartsAssumption
  <1>4. partsOf(poll) \in Seq(Frame) /\ Len(partsOf(poll)) = Parts
    BY <1>2, <1>3, Mapped
  <1> QED BY <1>4 DEF partsOf

LEMMA SpendType ==
    ASSUME TypeOK, NEW b \in Bounded, NEW max, Spend(b, max)
    PROVE  budget' \in [Bounded -> Nat]
  <1>1. budget \in [Bounded -> Nat] /\ budget' = [budget EXCEPT ![b] = budget[b] + 1]
    BY DEF TypeOK, Spend
  <1> QED BY <1>1

LEMMA FrameFacts ==
    ASSUME TypeOK, frames # << >>
    PROVE  /\ Head(frames) \in Frame /\ Tail(frames) \in Seq(Frame)
           /\ Head(frames).gen \in Nat /\ Head(frames).content \in Nat /\ Head(frames).part \in 1..Parts
  <1>1. frames \in Seq(Frame)
    BY DEF TypeOK
  <1>2. Head(frames) \in Frame /\ Tail(frames) \in Seq(Frame)
    BY <1>1, TailFacts
  <1> QED BY <1>2 DEF Frame

\* sendAck appends the same generation to what is kept and to one chain.
LEMMA AckFacts ==
    ASSUME TypeOK, NEW f \in Frame, sendAck(f)
    PROVE  /\ reports' \in [Copy -> Seq(Nat)] /\ outbound' \in Seq(Message)
           /\ f.part < Parts => UNCHANGED <<reports, outbound>>
           /\ \A c \in Copy : \A i \in 1..Len(reports'[c]) :
                 (i \in 1..Len(reports[c]) /\ reports'[c][i] = reports[c][i]) \/ reports'[c][i] = f.gen
           /\ \A i \in 1..Len(outbound') :
                 (i \in 1..Len(outbound) /\ outbound'[i] = outbound[i]) \/ outbound'[i].report = f.gen
  <1>1. f.gen \in Nat
    BY DEF Frame
  <1>2. reports \in [Copy -> Seq(Nat)] /\ outbound \in Seq(Message)
    BY DEF TypeOK
  <1>3. CASE f.part < Parts
    BY <1>2, <1>3 DEF sendAck
  <1>4. CASE ~(f.part < Parts)
    <2> DEFINE m == [report |-> f.gen, seen |-> {socket} \cap Copy]
    <2>1. m \in Message /\ m.report = f.gen
      BY <1>1 DEF Message
    <2>2. /\ outbound' = Append(outbound, m)
          /\ reports' = [c \in Copy |-> IF c = socket THEN Append(reports[c], f.gen) ELSE reports[c]]
      BY <1>4 DEF sendAck
    <2> HIDE DEF m
    <2>3. /\ outbound' \in Seq(Message)
          /\ \A i \in 1..Len(outbound') : (i \in 1..Len(outbound) /\ outbound'[i] = outbound[i]) \/ outbound'[i] = m
      BY <1>2, <2>1, <2>2, AppendFacts
    <2>4. \A c \in Copy : /\ Append(reports[c], f.gen) \in Seq(Nat)
                          /\ \A i \in 1..Len(Append(reports[c], f.gen)) :
                               \/ i \in 1..Len(reports[c]) /\ Append(reports[c], f.gen)[i] = reports[c][i]
                               \/ Append(reports[c], f.gen)[i] = f.gen
      BY <1>1, <1>2, AppendFacts
    <2>5. reports' \in [Copy -> Seq(Nat)]
      BY <1>2, <2>2, <2>4
    <2>6. \A c \in Copy : \A i \in 1..Len(reports'[c]) :
                 (i \in 1..Len(reports[c]) /\ reports'[c][i] = reports[c][i]) \/ reports'[c][i] = f.gen
      BY <2>2, <2>4
    <2> QED BY <1>4, <2>1, <2>3, <2>5, <2>6
  <1> QED BY <1>3, <1>4

\* What a connection adds to the chain of its copy was kept by the supervisor.
LEMMA ConnectFacts ==
    ASSUME TypeOK, NEW c \in Copy, Connect(c)
    PROVE  /\ reports' \in [Copy -> Seq(Nat)] /\ outbound' \in Seq(Message)
           /\ \A d \in Copy : \A i \in 1..Len(reports'[d]) :
                 \/ i \in 1..Len(reports[d]) /\ reports'[d][i] = reports[d][i]
                 \/ \E j \in 1..Len(outbound) : reports'[d][i] = outbound[j].report
           /\ \A i \in 1..Len(outbound') : \E j \in 1..Len(outbound) : outbound'[i].report = outbound[j].report
  <1>1. reports \in [Copy -> Seq(Nat)] /\ outbound \in Seq(Message)
    BY DEF TypeOK
  <1> DEFINE said == unseen(c)
             kept == numbered(said)
             told == [i \in 1..Len(said) |-> said[i].report]
  <1>2. /\ said \in Seq(Message) /\ kept \in Seq(Message)
        /\ \A i \in 1..Len(said) : \E j \in 1..Len(outbound) : said[i] = outbound[j]
        /\ \A i \in 1..Len(kept) : \E j \in 1..Len(outbound) : kept[i] = outbound[j]
    BY SaidFacts
  <1>3. /\ reports' = [reports EXCEPT ![c] = reports[c] \o told]
        /\ outbound' = [i \in 1..Len(kept) |-> [kept[i] EXCEPT !.seen = @ \cup {c}]]
    BY DEF Connect
  <1> HIDE DEF said, kept
  <1>4. told \in Seq(Nat) /\ Len(told) = Len(said) /\ \A i \in 1..Len(said) : told[i] = said[i].report
    <2>1. Len(said) \in Nat /\ \A i \in 1..Len(said) : said[i] \in Message
      BY <1>2
    <2>2. told \in [1..Len(said) -> Nat]
      BY <2>1 DEF Message
    <2>3. told \in Seq(Nat) /\ Len(told) = Len(said)
      BY <2>1, <2>2, Mapped
    <2> QED BY <2>3
  <1> HIDE DEF told
  <1>5. /\ reports[c] \o told \in Seq(Nat)
        /\ \A i \in 1..Len(reports[c] \o told) :
              \/ i \in 1..Len(reports[c]) /\ (reports[c] \o told)[i] = reports[c][i]
              \/ i - Len(reports[c]) \in 1..Len(told) /\ (reports[c] \o told)[i] = told[i - Len(reports[c])]
    <2>1. reports[c] \in Seq(Nat)
      BY <1>1
    <2> QED BY <1>4, <2>1, ConcatFacts
  <1>6. \A i \in 1..Len(reports[c] \o told) :
              \/ i \in 1..Len(reports[c]) /\ (reports[c] \o told)[i] = reports[c][i]
              \/ \E j \in 1..Len(outbound) : (reports[c] \o told)[i] = outbound[j].report
    <2>1. \A k \in 1..Len(told) : \E j \in 1..Len(outbound) : told[k] = outbound[j].report
      <3> TAKE k \in 1..Len(told)
      <3>1. k \in 1..Len(said) /\ told[k] = said[k].report
        BY <1>4
      <3>2. PICK j \in 1..Len(outbound) : said[k] = outbound[j]
        BY <1>2, <3>1
      <3> QED BY <3>1, <3>2
    <2> QED BY <1>5, <2>1
  <1>7. reports' \in [Copy -> Seq(Nat)] /\ reports'[c] = reports[c] \o told /\ \A d \in Copy : d # c => reports'[d] = reports[d]
    BY <1>1, <1>3, <1>5
  <1>8. /\ outbound' \in Seq(Message)
        /\ \A i \in 1..Len(outbound') : \E j \in 1..Len(outbound) : outbound'[i].report = outbound[j].report
    <2>1. Len(kept) \in Nat /\ \A i \in 1..Len(kept) : kept[i] \in Message
      BY <1>2
    <2>2. \A i \in 1..Len(kept) : /\ [kept[i] EXCEPT !.seen = @ \cup {c}] \in Message
                                  /\ [kept[i] EXCEPT !.seen = @ \cup {c}].report = kept[i].report
      BY <2>1 DEF Message
    <2>3. outbound' \in [1..Len(kept) -> Message]
      BY <1>3, <2>2
    <2>4. outbound' \in Seq(Message) /\ Len(outbound') = Len(kept)
      BY <2>1, <2>3, Mapped
    <2>5. \A i \in 1..Len(kept) : outbound'[i].report = kept[i].report
      BY <1>3, <2>2
    <2>6. ASSUME NEW i \in 1..Len(outbound')
          PROVE  \E j \in 1..Len(outbound) : outbound'[i].report = outbound[j].report
      <3>1. i \in 1..Len(kept)
        BY <2>4
      <3>2. PICK j \in 1..Len(outbound) : kept[i] = outbound[j]
        BY <1>2, <3>1
      <3> QED BY <2>5, <3>1, <3>2
    <2> QED BY <2>4, <2>6
  <1>9. ASSUME NEW d \in Copy, NEW i \in 1..Len(reports'[d])
        PROVE  \/ i \in 1..Len(reports[d]) /\ reports'[d][i] = reports[d][i]
               \/ \E j \in 1..Len(outbound) : reports'[d][i] = outbound[j].report
    <2>1. CASE d = c
      <3>1. reports'[d] = reports[c] \o told
        BY <1>7, <2>1
      <3> QED BY <1>6, <2>1, <3>1
    <2>2. CASE d # c
      <3>1. reports'[d] = reports[d] /\ reports[d] \in Seq(Nat)
        BY <1>1, <1>7, <2>2
      <3> QED BY <3>1
    <2> QED BY <2>1, <2>2
  <1> QED BY <1>7, <1>8, <1>9

LEMMA TypeNext ==
    ASSUME TypeOK, [Next]_vars
    PROVE  TypeOK'
  <1>1. CASE Write
    <2>1. truth' \in Nat /\ owed' \in Nat
      BY <1>1 DEF Write, TypeOK
    <2>2. UNCHANGED <<desired, applied, lease, status, holder, open, starting, poll, reports, up, socket,
                      outbound, frames, poisoned, home, budget, claimed>>
      BY <1>1 DEF Write, db, channel, supervisor
    <2> QED BY <2>1, <2>2 DEF TypeOK
  <1>2. CASE bumpHomeForAgent
    <2>1. owed' \in Nat /\ desired' \in Nat
      BY <1>2 DEF bumpHomeForAgent, TypeOK
    <2>2. UNCHANGED <<truth, applied, lease, status, holder, open, starting, poll, reports, up, socket,
                      outbound, frames, poisoned, home, budget, claimed>>
      BY <1>2 DEF bumpHomeForAgent, channel, supervisor
    <2> QED BY <2>1, <2>2 DEF TypeOK
  <1>3. CASE ClaimStart
    <2>1. budget' \in [Bounded -> Nat]
      BY <1>3, SpendType DEF ClaimStart, Bounded
    <2>2. {lease, open, starting, up, claimed}' \subseteq BOOLEAN
      BY <1>3, Zenon DEF ClaimStart, TypeOK, supervisor
    <2>3. applied' = 0 /\ status' = "starting" /\ holder' = NoCopy
          /\ UNCHANGED <<truth, owed, desired, poll, reports, supervisor>>
      BY <1>3 DEF ClaimStart
    <2> QED BY <2>1, <2>2, <2>3 DEF TypeOK, supervisor
  <1>4. CASE SandboxDown
    BY <1>4 DEF SandboxDown, TypeOK, channel, supervisor
  <1>5. CASE ClaimSync
    BY <1>5 DEF ClaimSync, TypeOK, channel, supervisor
  <1>6. CASE ComposeSync
    BY <1>6 DEF ComposeSync, TypeOK, db, channel, supervisor
  <1>7. CASE PollLost
    <2>1. budget' \in [Bounded -> Nat]
      BY <1>7, SpendType DEF PollLost, Bounded
    <2> QED BY <1>7, <2>1 DEF PollLost, TypeOK, db, channel, supervisor, NoSync
  <1>8. ASSUME NEW c \in Copy, PostReport(c)
        PROVE  TypeOK'
    <2>1. /\ reports \in [Copy -> Seq(Nat)] /\ reports[c] \in Seq(Nat) /\ reports[c] # << >>
          /\ reports' = [reports EXCEPT ![c] = Tail(reports[c])]
      BY <1>8 DEF PostReport, TypeOK
    <2>2. Head(reports[c]) \in Nat /\ Tail(reports[c]) \in Seq(Nat)
      BY <2>1, TailFacts
    <2>3. reports' \in [Copy -> Seq(Nat)]
      BY <2>1, <2>2
    <2>4. applied' \in Nat /\ lease' \in BOOLEAN /\ status' \in {"down", "starting", "running"}
      BY <1>8, <2>2 DEF PostReport, TypeOK
    <2> QED BY <1>8, <2>3, <2>4 DEF PostReport, TypeOK, channel, supervisor
  <1>9. ASSUME NEW c \in Copy, ReportLost(c)
        PROVE  TypeOK'
    <2>1. /\ reports \in [Copy -> Seq(Nat)] /\ reports[c] \in Seq(Nat) /\ reports[c] # << >>
          /\ reports' = [reports EXCEPT ![c] = Tail(reports[c])]
      BY <1>9 DEF ReportLost, TypeOK
    <2>2. Tail(reports[c]) \in Seq(Nat)
      BY <2>1, TailFacts
    <2>3. reports' \in [Copy -> Seq(Nat)]
      BY <2>1, <2>2
    <2>4. budget' \in [Bounded -> Nat]
      BY <1>9, SpendType DEF ReportLost, Bounded
    <2> QED BY <1>9, <2>3, <2>4 DEF ReportLost, TypeOK, db, channel, supervisor
  <1>10. ASSUME NEW c \in Copy, Connect(c)
         PROVE  TypeOK'
    <2>1. reports' \in [Copy -> Seq(Nat)] /\ outbound' \in Seq(Message)
      BY <1>10, ConnectFacts
    <2>2. /\ socket' = c /\ holder' = c /\ open' = TRUE
          /\ UNCHANGED <<truth, owed, desired, applied, lease, status, poll, up, frames,
                         poisoned, home, budget, claimed, starting>>
      BY <1>10 DEF Connect
    <2> QED BY <2>1, <2>2 DEF TypeOK
  <1>11. CASE StartContainer
    <2>1. home' \in [1..Parts -> Nat]
      BY <1>11 DEF StartContainer, TypeOK, Empty
    <2>2. <<[report |-> Ready, seen |-> {}]>> \in Seq(Message)
      BY DEF Message, Ready
    <2>3. << >> \in Seq(Frame)
      OBVIOUS
    <2>4. {lease, open, starting, up, claimed}' \subseteq BOOLEAN
      BY <1>11, Zenon DEF StartContainer, TypeOK
    <2>5. /\ holder' = NoCopy /\ socket' = NoCopy /\ poisoned' = 0
          /\ outbound' = <<[report |-> Ready, seen |-> {}]>> /\ frames' = << >>
          /\ UNCHANGED <<truth, owed, desired, applied, status, poll, reports, budget>>
      BY <1>11 DEF StartContainer, NoPoison
    <2> QED BY <2>1, <2>2, <2>3, <2>4, <2>5 DEF TypeOK
  <1>12. CASE acknowledge
    <2>1. outbound' \in Seq(Message)
      BY <1>12, TailFacts DEF acknowledge, TypeOK
    <2> QED BY <1>12, <2>1 DEF acknowledge, TypeOK, db, channel
  <1>13. CASE Disconnect
    <2>1. frames' \in Seq(Frame)
      <3>1. PICK n \in 0..Len(frames) : frames' = SubSeq(frames, 1, n)
        BY <1>13 DEF Disconnect
      <3>2. frames \in Seq(Frame)
        BY DEF TypeOK
      <3> QED BY <3>1, <3>2, PrefixFacts
    <2>2. budget' \in [Bounded -> Nat]
      BY <1>13, SpendType DEF Disconnect, Bounded
    <2>3. /\ socket' = NoCopy
          /\ UNCHANGED <<truth, owed, db, poll, reports, up, outbound, poisoned, home, claimed, starting>>
      BY <1>13 DEF Disconnect
    <2> QED BY <2>1, <2>2, <2>3 DEF TypeOK, db, channel
  <1>14. CASE releaseChannel
    BY <1>14 DEF releaseChannel, TypeOK, supervisor
  <1>15. CASE ContainerDies
    <2>1. {lease, open, starting, up, claimed}' \subseteq BOOLEAN
      BY <1>15, Zenon DEF ContainerDies, TypeOK, db, channel
    <2>2. /\ socket' = NoCopy /\ outbound' = << >> /\ frames' = << >>
          /\ UNCHANGED <<truth, owed, desired, applied, status, holder, poll, reports, poisoned, home, budget>>
      BY <1>15 DEF ContainerDies, db, channel
    <2> QED BY <2>1, <2>2 DEF TypeOK
  <1>16. CASE SyncHome
    <2>1. frames \in Seq(Frame) /\ partsOf(poll) \in Seq(Frame)
      BY PartsFacts DEF TypeOK
    <2>2. frames' \in Seq(Frame)
      BY <1>16, <2>1 DEF SyncHome
    <2> QED BY <1>16, <2>2 DEF SyncHome, TypeOK, db, channel, NoSync
  <1>17. CASE ApplyPart
    <2>1. frames # << >> /\ frames' = Tail(frames) /\ sendAck(Head(frames))
          /\ home' = [home EXCEPT ![Head(frames).part] = Head(frames).content]
          /\ UNCHANGED <<truth, owed, db, poll, up, socket, poisoned, budget, claimed, starting>>
      BY <1>17 DEF ApplyPart
    <2>2. /\ Head(frames) \in Frame /\ frames' \in Seq(Frame)
          /\ Head(frames).content \in Nat /\ Head(frames).part \in 1..Parts
      BY <2>1, FrameFacts
    <2>3. PICK f \in Frame : f = Head(frames)
      BY <2>2
    <2>4. reports' \in [Copy -> Seq(Nat)] /\ outbound' \in Seq(Message)
      BY <2>1, <2>3, AckFacts
    <2>5. home' \in [1..Parts -> Nat]
      BY <2>1, <2>2 DEF TypeOK
    <2> QED BY <2>1, <2>2, <2>4, <2>5 DEF TypeOK, db, channel
  <1>18. CASE SkipPart
    <2>1. frames' \in Seq(Frame)
      BY <1>18, FrameFacts DEF SkipPart
    <2> QED BY <1>18, <2>1 DEF SkipPart, TypeOK, db, channel
  <1>19. CASE PartFails
    <2>1. frames' \in Seq(Frame) /\ Head(frames).gen \in Nat
      BY <1>19, FrameFacts DEF PartFails
    <2>2. budget' \in [Bounded -> Nat]
      BY <1>19, SpendType DEF PartFails, Bounded
    <2> QED BY <1>19, <2>1, <2>2 DEF PartFails, TypeOK, db, channel
  <1>20. CASE UNCHANGED vars
    BY <1>20 DEF vars, TypeOK, db, channel, supervisor
  <1> QED
    BY <1>1, <1>2, <1>3, <1>4, <1>5, <1>6, <1>7, <1>8, <1>9, <1>10, <1>11, <1>12, <1>13,
       <1>14, <1>15, <1>16, <1>17, <1>18, <1>19, <1>20 DEF Next

\* Every variable of the home sync keeps its type, for any copies and parts.
THEOREM TypeCorrect == Spec => []TypeOK
  <1>1. Init => TypeOK
    <2> SUFFICES ASSUME Init PROVE TypeOK
      OBVIOUS
    <2>1. {lease, open, starting, up, claimed} \subseteq BOOLEAN
      BY Zenon DEF Init
    <2>2. {truth, owed, desired, applied, poisoned} \subseteq Nat
      BY DEF Init, NoPoison
    <2>3. poll \in [gen : Nat, content : Nat, copy : Copy \cup {NoCopy}] /\ home \in [1..Parts -> Nat]
      BY DEF Init, NoSync, Empty
    <2>4. reports \in [Copy -> Seq(Nat)] /\ outbound \in Seq(Message) /\ frames \in Seq(Frame)
      BY DEF Init
    <2>5. status = "down" /\ {holder, socket} \subseteq Copy \cup {NoCopy} /\ budget \in [Bounded -> Nat]
      BY DEF Init
    <2> QED BY <2>1, <2>2, <2>3, <2>4, <2>5 DEF TypeOK
  <1> QED BY <1>1, TypeNext, PTL DEF Spec

-----------------------------------------------------------------------------
(***************************************************************************)
(* What counts as an acknowledgement.                                      *)
(***************************************************************************)
\* The steps that leave the columns of the claim alone.
OffClaim ==
    \/ Write \/ bumpHomeForAgent \/ SandboxDown \/ ComposeSync \/ PollLost
    \/ \E c \in Copy : ReportLost(c) \/ Connect(c)
    \/ StartContainer \/ acknowledge \/ Disconnect \/ releaseChannel \/ ContainerDies
    \/ SyncHome \/ ApplyPart \/ SkipPart \/ PartFails

LEMMA OffClaimFrame ==
    ASSUME OffClaim
    PROVE  UNCHANGED <<applied, lease, claimed>>
  <1>1. CASE Write \/ bumpHomeForAgent \/ SandboxDown \/ ComposeSync \/ PollLost
    BY <1>1 DEF Write, bumpHomeForAgent, SandboxDown, ComposeSync, PollLost, db
  <1>2. CASE \E c \in Copy : ReportLost(c) \/ Connect(c)
    BY <1>2 DEF ReportLost, Connect, db
  <1>3. CASE StartContainer \/ acknowledge \/ Disconnect \/ releaseChannel \/ ContainerDies
    BY <1>3 DEF StartContainer, acknowledge, Disconnect, releaseChannel, ContainerDies, db
  <1>4. CASE SyncHome \/ ApplyPart \/ SkipPart \/ PartFails
    BY <1>4 DEF SyncHome, ApplyPart, SkipPart, PartFails, db
  <1> QED BY <1>1, <1>2, <1>3, <1>4 DEF OffClaim

LEMMA AckNext ==
    ASSUME ClaimOK, AckAnswersAClaim, [Next]_vars
    PROVE  ClaimOK' /\ AckAnswersAClaim'
  <1>1. CASE OffClaim \/ UNCHANGED vars
    <2>1. UNCHANGED <<applied, lease, claimed>>
      BY <1>1, OffClaimFrame DEF vars, db
    <2> QED BY <2>1 DEF ClaimOK, AckAnswersAClaim
  <1>2. CASE ClaimStart
    BY <1>2 DEF ClaimStart, ClaimOK, AckAnswersAClaim
  <1>3. CASE ClaimSync
    BY <1>3 DEF ClaimSync, ClaimOK, AckAnswersAClaim
  <1>4. CASE \E c \in Copy : PostReport(c)
    BY <1>4 DEF PostReport, acknowledges, ClaimOK, AckAnswersAClaim
  <1> QED BY <1>1, <1>2, <1>3, <1>4 DEF Next, OffClaim

\* A generation counts as applied only where this boot claimed a sync: the
\* acknowledgement of an earlier container is refused by the lease, which the
\* start claim clears and only a new sync claim sets (applyRunnerEvent).
THEOREM AckHolds == Spec => []AckAnswersAClaim
  <1>1. Init => ClaimOK /\ AckAnswersAClaim
    BY DEF Init, ClaimOK, AckAnswersAClaim
  <1> QED BY <1>1, AckNext, PTL DEF Spec

-----------------------------------------------------------------------------
(***************************************************************************)
(* Versions.                                                               *)
(***************************************************************************)
LEMMA NumberTypes ==
    ASSUME TypeOK
    PROVE  /\ truth \in Nat /\ owed \in Nat /\ desired \in Nat /\ applied \in Nat
           /\ poll.gen \in Nat /\ poll.content \in Nat
           /\ home \in [1..Parts -> Nat] /\ \A p \in 1..Parts : home[p] \in Nat
           /\ frames \in Seq(Frame) /\ Len(frames) \in Nat
           /\ \A i \in 1..Len(frames) : frames[i].gen \in Nat /\ frames[i].content \in Nat /\ frames[i].part \in 1..Parts
  <1>1. /\ truth \in Nat /\ owed \in Nat /\ desired \in Nat /\ applied \in Nat
        /\ poll.gen \in Nat /\ poll.content \in Nat
    BY DEF TypeOK
  <1>2. home \in [1..Parts -> Nat] /\ frames \in Seq(Frame)
    BY DEF TypeOK
  <1>3. Len(frames) \in Nat /\ \A i \in 1..Len(frames) : frames[i] \in Frame
    BY <1>2
  <1> QED BY <1>1, <1>2, <1>3 DEF Frame

\* The steps that neither write nor move a part.
Quiet ==
    \/ ClaimStart \/ SandboxDown \/ acknowledge \/ releaseChannel \/ UNCHANGED vars
    \/ \E c \in Copy : PostReport(c) \/ ReportLost(c) \/ Connect(c)

LEMMA QuietFrame ==
    ASSUME Quiet
    PROVE  UNCHANGED <<truth, owed, desired, poll, frames, poisoned, home>>
  <1>1. CASE ClaimStart \/ SandboxDown \/ acknowledge \/ releaseChannel \/ UNCHANGED vars
    BY <1>1 DEF ClaimStart, SandboxDown, acknowledge, releaseChannel, vars, db, supervisor
  <1>2. CASE \E c \in Copy : PostReport(c) \/ ReportLost(c) \/ Connect(c)
    BY <1>2 DEF PostReport, ReportLost, Connect, db, supervisor
  <1> QED BY <1>1, <1>2 DEF Quiet

\* The next part is gone; what comes then follows it.
LEMMA DropHead ==
    ASSUME TypeOK, FramesOK, frames # << >>, frames' = Tail(frames), UNCHANGED <<truth, poll>>
    PROVE  /\ FramesOK'
           /\ frames' # << >> => Head(frames') = frames[2] /\ Follows(frames[1], frames[2])
           /\ Head(frames) = frames[1] /\ 1 \in 1..Len(frames)
           /\ \A i \in 1..Len(frames') : i + 1 \in 1..Len(frames) /\ frames'[i] = frames[i + 1]
  <1>1. frames \in Seq(Frame)
    BY DEF TypeOK
  <1>2. /\ Head(frames) = frames[1] /\ frames' \in Seq(Frame) /\ Len(frames) \in Nat
        /\ 1 \in 1..Len(frames) /\ Len(frames') = Len(frames) - 1
        /\ \A i \in 1..Len(frames') : i + 1 \in 1..Len(frames) /\ frames'[i] = frames[i + 1]
    BY <1>1, TailFacts
  <1>3. FramesOK'
    <2>1. \A i \in 1..Len(frames') : 1 <= frames'[i].gen /\ frames'[i].gen <= frames'[i].content /\ frames'[i].content <= truth'
      BY <1>2 DEF FramesOK, FrameOK
    <2>2. \A i \in 1..Len(frames') : i + 1 <= Len(frames') => Follows(frames'[i], frames'[i + 1])
      BY <1>2 DEF FramesOK
    <2>3. \A i, j \in 1..Len(frames') : i <= j => frames'[i].content <= frames'[j].content
      BY <1>2 DEF FramesOK
    <2>4. poll'.content # 0 => \A i \in 1..Len(frames') : frames'[i].content <= poll'.content
      BY <1>2 DEF FramesOK
    <2> QED BY <2>1, <2>2, <2>3, <2>4 DEF FramesOK, FrameOK, Follows
  <1>4. ASSUME frames' # << >>
        PROVE  Head(frames') = frames[2] /\ Follows(frames[1], frames[2])
    <2>1. Head(frames') = frames'[1] /\ 1 \in 1..Len(frames')
      BY <1>2, <1>4, TailFacts
    <2>2. frames'[1] = frames[2] /\ 2 \in 1..Len(frames)
      BY <1>2, <2>1
    <2> QED BY <1>2, <2>1, <2>2 DEF FramesOK
  <1> QED BY <1>2, <1>3, <1>4

\* The parts of a sync go behind what is under way.
LEMMA Pushed ==
    ASSUME TypeOK, Versions, poll.content # 0, poll' = NoSync, UNCHANGED <<truth, poisoned, home>>,
           frames' = frames \o partsOf(poll)
    PROVE  FramesOK' /\ HeadOK' /\ HomeOK'
  <1>0. /\ truth \in Nat /\ desired \in Nat /\ owed \in Nat
        /\ poll.gen \in Nat /\ poll.content \in Nat /\ \A p \in 1..Parts : home[p] \in Nat
        /\ frames \in Seq(Frame) /\ Len(frames) \in Nat
        /\ \A i \in 1..Len(frames) : frames[i].content \in Nat
    BY NumberTypes
  <1>1. /\ FramesOK /\ HeadOK /\ HomeOK
        /\ 1 <= poll.gen /\ poll.gen <= poll.content /\ poll.content <= truth
    BY DEF Versions, PollOK, NoSync
  <1>2. /\ partsOf(poll) \in Seq(Frame) /\ Len(partsOf(poll)) = Parts /\ Parts \in Nat \ {0}
        /\ \A k \in 1..Parts : partsOf(poll)[k] = [gen |-> poll.gen, content |-> poll.content, part |-> k]
    BY PartsFacts, PartsAssumption
  <1>3. PICK n \in Nat : n = Len(frames)
    BY <1>0
  <1>4. /\ frames' \in Seq(Frame) /\ Len(frames') = n + Parts
        /\ \A i \in 1..n : frames'[i] = frames[i]
        /\ \A k \in 1..Parts : frames'[n + k] = [gen |-> poll.gen, content |-> poll.content, part |-> k]
    <2>1. /\ frames' \in Seq(Frame) /\ Len(frames') = n + Parts
          /\ \A i \in 1..Len(frames') :
                \/ i \in 1..n /\ frames'[i] = frames[i]
                \/ i - n \in 1..Parts /\ frames'[i] = partsOf(poll)[i - n]
      <3>1. PICK s \in Seq(Frame), t \in Seq(Frame) : s = frames /\ t = partsOf(poll)
        BY <1>0, <1>2
      <3>2. /\ s \o t \in Seq(Frame) /\ Len(s \o t) = Len(s) + Len(t)
            /\ \A i \in 1..Len(s \o t) :
                  \/ i \in 1..Len(s) /\ (s \o t)[i] = s[i]
                  \/ i - Len(s) \in 1..Len(t) /\ (s \o t)[i] = t[i - Len(s)]
        BY ConcatFacts
      <3>3. frames' = s \o t /\ Len(s) = n /\ Len(t) = Parts
        BY <1>2, <1>3, <3>1
      <3> QED BY <3>1, <3>2, <3>3
    <2>2. \A i \in 1..n : frames'[i] = frames[i]
      BY <1>2, <2>1
    <2>3. ASSUME NEW k \in 1..Parts
          PROVE  frames'[n + k] = [gen |-> poll.gen, content |-> poll.content, part |-> k]
      <3>1. n + k \in 1..Len(frames') /\ n + k \notin 1..n /\ (n + k) - n = k
        BY <1>2, <2>1
      <3>2. frames'[n + k] = partsOf(poll)[k]
        BY <2>1, <3>1
      <3> QED BY <1>2, <3>2
    <2> QED BY <2>1, <2>2, <2>3
  <1>5. \A i \in 1..Len(frames') :
           \/ i \in 1..n /\ frames'[i] = frames[i]
           \/ i - n \in 1..Parts /\ i > n /\ frames'[i].gen = poll.gen /\ frames'[i].content = poll.content /\ frames'[i].part = i - n
    <2> SUFFICES ASSUME NEW i \in 1..Len(frames'), i \notin 1..n
                 PROVE  i - n \in 1..Parts /\ i > n /\ frames'[i].gen = poll.gen /\ frames'[i].content = poll.content /\ frames'[i].part = i - n
      BY <1>4
    <2>1. i - n \in 1..Parts /\ i > n /\ n + (i - n) = i
      BY <1>2, <1>4
    <2>2. frames'[i] = [gen |-> poll.gen, content |-> poll.content, part |-> i - n]
      BY <1>4, <2>1
    <2> QED BY <2>1, <2>2
  <1>6. FramesOK'
    <2>1. \A i \in 1..Len(frames') : 1 <= frames'[i].gen /\ frames'[i].gen <= frames'[i].content /\ frames'[i].content <= truth'
      BY <1>1, <1>3, <1>5 DEF FramesOK, FrameOK
    <2>2. ASSUME NEW i \in 1..Len(frames'), i + 1 <= Len(frames')
          PROVE  Follows(frames'[i], frames'[i + 1])
      <3>0. i \in Nat /\ i + 1 \in 1..Len(frames')
        BY <1>2, <1>4, <2>2
      <3>1. CASE i + 1 \in 1..n
        BY <1>1, <1>3, <1>5, <3>0, <3>1 DEF FramesOK
      <3>2. CASE i = n
        <4>1. frames'[i] = frames[i] /\ frames[i].content <= poll.content
          BY <1>1, <1>3, <1>5, <3>2 DEF FramesOK
        <4>2. frames'[i + 1].content = poll.content /\ frames'[i + 1].part = 1
          BY <1>5, <3>0, <3>2
        <4> QED BY <4>1, <4>2 DEF Follows
      <3>3. CASE i > n
        <4>1. /\ frames'[i].gen = poll.gen /\ frames'[i].content = poll.content /\ frames'[i].part = i - n
              /\ frames'[i + 1].gen = poll.gen /\ frames'[i + 1].content = poll.content
              /\ frames'[i + 1].part = (i + 1) - n /\ (i + 1) - n = (i - n) + 1
          <5>1. i \notin 1..n /\ i + 1 \notin 1..n /\ (i + 1) - n = (i - n) + 1
            BY <3>0, <3>3
          <5> QED BY <1>5, <3>0, <5>1
        <4> QED BY <1>0, <4>1 DEF Follows
      <3> QED BY <1>3, <3>0, <3>1, <3>2, <3>3
    <2>3. ASSUME NEW i \in 1..Len(frames'), NEW j \in 1..Len(frames'), i <= j
          PROVE  frames'[i].content <= frames'[j].content
      <3>1. CASE j \in 1..n
        BY <1>1, <1>3, <1>5, <2>3, <3>1 DEF FramesOK
      <3>2. CASE j \notin 1..n
        <4>1. frames'[j].content = poll.content
          BY <1>5, <3>2
        <4>2. frames'[i].content <= poll.content
          BY <1>0, <1>1, <1>3, <1>5 DEF FramesOK
        <4> QED BY <4>1, <4>2
      <3> QED BY <3>1, <3>2
    <2>4. poll'.content = 0
      BY DEF NoSync
    <2> QED BY <2>1, <2>2, <2>3, <2>4 DEF FramesOK, FrameOK, Follows
  <1>7. HeadOK'
    <2>1. CASE n = 0
      <3>1. Head(frames') = frames'[1] /\ frames'[1].part = 1
        <4>1. 1 \in 1..Len(frames') /\ 1 \notin 1..n /\ 1 - n = 1
          BY <1>2, <1>4, <2>1
        <4>2. frames' # << >>
          BY <4>1
        <4> QED BY <1>4, <1>5, <4>1, <4>2, TailFacts
      <3> QED BY <1>2, <3>1 DEF HeadOK
    <2>2. CASE n # 0
      <3>1. frames # << >> /\ Head(frames) = frames[1]
        BY <1>0, <1>3, <2>2
      <3>2. frames' # << >> /\ Head(frames') = frames'[1] /\ frames'[1] = frames[1]
        BY <1>2, <1>4, <2>2
      <3> QED BY <1>1, <3>1, <3>2 DEF HeadOK
    <2> QED BY <2>1, <2>2
  <1>8. HomeOK'
    BY <1>0, <1>1, <1>3, <1>5 DEF HomeOK, NoSync
  <1> QED BY <1>6, <1>7, <1>8

LEMMA VersionsNext ==
    ASSUME TypeOK, TypeOK', Versions, [Next]_vars
    PROVE  Versions'
  <1>0. /\ truth \in Nat /\ owed \in Nat /\ desired \in Nat
        /\ poll.gen \in Nat /\ poll.content \in Nat /\ \A p \in 1..Parts : home[p] \in Nat
        /\ frames \in Seq(Frame) /\ Len(frames) \in Nat
        /\ \A i \in 1..Len(frames) : frames[i].gen \in Nat /\ frames[i].content \in Nat
    BY NumberTypes
  <1>1. CASE Quiet
    <2>1. UNCHANGED <<truth, owed, desired, poll, frames, poisoned, home>>
      BY <1>1, QuietFrame
    <2> QED BY <1>0, <2>1 DEF Versions, CountsOK, PollOK, FramesOK, FrameOK, Follows, HeadOK, HomeOK
  <1>2. CASE Write
    <2>1. truth' = truth + 1 /\ owed' = owed + 1 /\ UNCHANGED <<desired, poll, frames, poisoned, home>>
      BY <1>2 DEF Write, db, supervisor
    <2>2. CountsOK' /\ PollOK'
      BY <1>0, <2>1 DEF Versions, CountsOK, PollOK
    <2>3. FramesOK'
      BY <1>0, <2>1 DEF Versions, FramesOK, FrameOK, Follows
    <2>4. HeadOK' /\ HomeOK'
      BY <1>0, <2>1 DEF Versions, HeadOK, HomeOK
    <2> QED BY <2>2, <2>3, <2>4 DEF Versions
  <1>3. CASE bumpHomeForAgent
    <2>1. owed > 0 /\ owed' = owed - 1 /\ desired' = desired + 1 /\ UNCHANGED <<truth, poll, frames, poisoned, home>>
      BY <1>3 DEF bumpHomeForAgent, supervisor
    <2>2. CountsOK' /\ PollOK'
      BY <1>0, <2>1 DEF Versions, CountsOK, PollOK
    <2>3. FramesOK' /\ HeadOK' /\ HomeOK'
      BY <1>0, <2>1 DEF Versions, FramesOK, FrameOK, Follows, HeadOK, HomeOK
    <2> QED BY <2>2, <2>3 DEF Versions
  <1>4. CASE ClaimSync
    <2>1. /\ poll'.gen = desired /\ poll'.content = 0
          /\ UNCHANGED <<truth, owed, desired, frames, poisoned, home>>
      BY <1>4 DEF ClaimSync, supervisor
    <2>2. CountsOK' /\ PollOK'
      BY <1>0, <2>1 DEF Versions, CountsOK, PollOK
    <2>3. FramesOK' /\ HeadOK' /\ HomeOK'
      BY <1>0, <2>1 DEF Versions, FramesOK, FrameOK, Follows, HeadOK, HomeOK
    <2> QED BY <2>2, <2>3 DEF Versions
  <1>5. CASE ComposeSync
    <2>1. /\ poll # NoSync /\ poll'.gen = poll.gen /\ poll'.content = truth
          /\ UNCHANGED <<truth, owed, desired, frames, poisoned, home>>
      BY <1>5 DEF ComposeSync, db, supervisor, TypeOK
    <2>2. CountsOK' /\ PollOK'
      BY <1>0, <2>1 DEF Versions, CountsOK, PollOK
    <2>3. FramesOK' /\ HeadOK' /\ HomeOK'
      BY <1>0, <2>1 DEF Versions, FramesOK, FrameOK, Follows, HeadOK, HomeOK
    <2> QED BY <2>2, <2>3 DEF Versions
  <1>6. CASE PollLost
    <2>1. poll' = NoSync /\ poll'.content = 0 /\ UNCHANGED <<truth, owed, desired, frames, poisoned, home>>
      BY <1>6 DEF PollLost, db, supervisor, NoSync
    <2>2. CountsOK' /\ PollOK'
      BY <1>0, <2>1 DEF Versions, CountsOK, PollOK, NoSync
    <2>3. FramesOK' /\ HeadOK' /\ HomeOK'
      BY <1>0, <2>1 DEF Versions, FramesOK, FrameOK, Follows, HeadOK, HomeOK
    <2> QED BY <2>2, <2>3 DEF Versions
  <1>7. CASE StartContainer \/ ContainerDies
    <2>1. /\ frames' = << >> /\ UNCHANGED <<truth, owed, desired, poll>>
          /\ home' = home \/ home' = Empty
      BY <1>7 DEF StartContainer, ContainerDies, db
    <2>2. CountsOK' /\ PollOK'
      BY <1>0, <2>1 DEF Versions, CountsOK, PollOK
    <2>3. FramesOK' /\ HeadOK'
      BY <2>1 DEF FramesOK, HeadOK
    <2>4. HomeOK'
      <3>1. \A p \in 1..Parts : home'[p] \in Nat /\ home'[p] <= home[p]
        <4>1. CASE home' = home
          BY <1>0, <4>1
        <4>2. CASE home' = Empty
          <5>1. \A p \in 1..Parts : home'[p] = 0
            BY <4>2 DEF Empty
          <5> QED BY <1>0, <5>1
        <4> QED BY <2>1, <4>1, <4>2
      <3> QED BY <1>0, <2>1, <3>1 DEF Versions, HomeOK
    <2> QED BY <2>2, <2>3, <2>4 DEF Versions
  <1>8. CASE Disconnect
    <2>1. PICK n \in 0..Len(frames) : frames' = SubSeq(frames, 1, n)
      BY <1>8 DEF Disconnect
    <2>2. UNCHANGED <<truth, owed, desired, poll, poisoned, home>>
      BY <1>8 DEF Disconnect, db
    <2>3. /\ frames' \in Seq(Frame) /\ Len(frames') = n
          /\ \A i \in 1..Len(frames') : i \in 1..Len(frames) /\ frames'[i] = frames[i]
      BY <1>0, <2>1, PrefixFacts
    <2>4. FramesOK'
      <3>1. FramesOK /\ Len(frames') \in Nat
        BY <2>3 DEF Versions
      <3>2. \A i \in 1..Len(frames') : 1 <= frames'[i].gen /\ frames'[i].gen <= frames'[i].content /\ frames'[i].content <= truth'
        BY <2>2, <2>3, <3>1 DEF FramesOK, FrameOK
      <3>3. \A i \in 1..Len(frames') : i + 1 <= Len(frames') => Follows(frames'[i], frames'[i + 1])
        <4> SUFFICES ASSUME NEW i \in 1..Len(frames'), i + 1 <= Len(frames')
                     PROVE  Follows(frames'[i], frames'[i + 1])
          OBVIOUS
        <4>1. i + 1 \in 1..Len(frames')
          BY <3>1
        <4>2. /\ frames'[i] = frames[i] /\ frames'[i + 1] = frames[i + 1]
              /\ i \in 1..Len(frames) /\ i + 1 \in 1..Len(frames)
          BY <2>3, <4>1
        <4> QED BY <1>0, <3>1, <4>2 DEF FramesOK
      <3>4. \A i, j \in 1..Len(frames') : i <= j => frames'[i].content <= frames'[j].content
        BY <2>3, <3>1 DEF FramesOK
      <3>5. poll'.content # 0 => \A i \in 1..Len(frames') : frames'[i].content <= poll'.content
        BY <2>2, <2>3, <3>1 DEF FramesOK
      <3> QED BY <3>2, <3>3, <3>4, <3>5 DEF FramesOK, FrameOK, Follows
    <2>5. HeadOK'
      <3>1. CASE frames' = << >>
        BY <3>1 DEF HeadOK
      <3>2. CASE frames' # << >>
        <4>1. 1 \in 1..Len(frames') /\ Head(frames') = frames'[1]
          BY <2>3, <3>2, TailFacts
        <4>2. frames # << >> /\ Head(frames) = frames[1]
          BY <2>3, <4>1
        <4>3. Head(frames') = Head(frames)
          BY <2>3, <4>1, <4>2
        <4> QED BY <2>2, <4>2, <4>3 DEF Versions, HeadOK
      <3> QED BY <3>1, <3>2
    <2>6. HomeOK'
      BY <1>0, <2>2, <2>3 DEF Versions, HomeOK
    <2> QED BY <2>2, <2>4, <2>5, <2>6 DEF Versions, CountsOK, PollOK
  <1>9. CASE SyncHome
    <2>1. /\ poll.content # 0 /\ poll' = NoSync /\ poll'.content = 0
          /\ UNCHANGED <<truth, owed, desired, poisoned, home>>
      BY <1>9 DEF SyncHome, db, NoSync
    <2>2. CountsOK' /\ PollOK'
      BY <2>1 DEF Versions, CountsOK, PollOK, NoSync
    <2>3. CASE frames' = frames
      BY <2>1, <2>2, <2>3 DEF Versions, FramesOK, FrameOK, Follows, HeadOK, HomeOK
    <2>4. CASE frames' = frames \o partsOf(poll)
      BY <2>1, <2>2, <2>4, Pushed DEF Versions
    <2> QED BY <1>9, <2>3, <2>4 DEF SyncHome
  <1>10. CASE ApplyPart
    <2>1. /\ frames # << >> /\ ~skips(Head(frames)) /\ frames' = Tail(frames)
          /\ home' = [home EXCEPT ![Head(frames).part] = Head(frames).content]
          /\ UNCHANGED <<truth, owed, desired, poll, poisoned>>
      BY <1>10 DEF ApplyPart, db
    <2>2. FramesOK /\ HeadOK /\ HomeOK
      BY DEF Versions
    <2>3. /\ FramesOK' /\ Head(frames) = frames[1] /\ 1 \in 1..Len(frames)
          /\ frames' # << >> => Head(frames') = frames[2] /\ Follows(frames[1], frames[2])
          /\ \A i \in 1..Len(frames') : i + 1 \in 1..Len(frames) /\ frames'[i] = frames[i + 1]
      BY <2>1, <2>2, DropHead
    <2>4. PICK f \in Frame : f = frames[1]
      BY <1>0, <2>3
    <2>5. /\ f.part \in 1..Parts /\ f.content \in Nat
          /\ home' = [home EXCEPT ![f.part] = f.content]
          /\ home'[f.part] = f.content /\ \A p \in 1..Parts : p # f.part => home'[p] = home[p]
      BY <2>1, <2>3, <2>4 DEF Frame, TypeOK
    <2>6. \A p \in 1..Parts : p < f.part => home[p] >= f.content
      BY <2>1, <2>2, <2>3, <2>4 DEF HeadOK, skips
    <2>7. HeadOK'
      <3> SUFFICES ASSUME frames' # << >>, frames[2].part # 1, NEW p \in 1..Parts, p < frames[2].part
                   PROVE  home'[p] >= frames[2].content
        BY <2>3, PartsAssumption DEF HeadOK
      <3>1. frames[2].content = f.content /\ frames[2].part = f.part + 1
        BY <2>3, <2>4 DEF Follows
      <3>2. p = f.part \/ p < f.part
        BY <2>5, <3>1
      <3> QED BY <1>0, <2>5, <2>6, <3>1, <3>2
    <2>8. HomeOK'
      <3> SUFFICES ASSUME NEW p \in 1..Parts
                   PROVE  /\ home'[p] <= truth
                          /\ \A i \in 1..Len(frames') : home'[p] <= frames'[i].content
                          /\ poll.content # 0 => home'[p] <= poll.content
        BY <2>1 DEF HomeOK
      <3>1. CASE p = f.part
        <4>1. f.content <= truth /\ (poll.content # 0 => f.content <= poll.content)
          BY <2>2, <2>3, <2>4 DEF FramesOK, FrameOK
        <4>2. \A i \in 1..Len(frames) : f.content <= frames[i].content
          BY <2>2, <2>3, <2>4 DEF FramesOK
        <4> QED BY <2>3, <2>5, <3>1, <4>1, <4>2
      <3>2. CASE p # f.part
        BY <2>2, <2>3, <2>5, <3>2 DEF HomeOK
      <3> QED BY <3>1, <3>2
    <2> QED BY <2>1, <2>3, <2>7, <2>8 DEF Versions, CountsOK, PollOK
  <1>11. CASE SkipPart \/ PartFails
    <2>1. /\ frames # << >> /\ frames' = Tail(frames) /\ poisoned' = Head(frames).gen
          /\ UNCHANGED <<truth, owed, desired, poll, home>>
      BY <1>11 DEF SkipPart, PartFails, skips, db
    <2>2. FramesOK /\ HomeOK
      BY DEF Versions
    <2>3. /\ FramesOK' /\ Head(frames) = frames[1]
          /\ frames' # << >> => Head(frames') = frames[2] /\ Follows(frames[1], frames[2])
          /\ \A i \in 1..Len(frames') : i + 1 \in 1..Len(frames) /\ frames'[i] = frames[i + 1]
      BY <2>1, <2>2, DropHead
    <2>4. HeadOK'
      BY <2>1, <2>3, PartsAssumption DEF HeadOK, Follows
    <2>5. HomeOK'
      BY <2>1, <2>2, <2>3 DEF HomeOK
    <2> QED BY <2>1, <2>3, <2>4, <2>5 DEF Versions, CountsOK, PollOK
  <1> QED
    BY <1>1, <1>2, <1>3, <1>4, <1>5, <1>6, <1>7, <1>8, <1>9, <1>10, <1>11 DEF Next, Quiet

-----------------------------------------------------------------------------
(***************************************************************************)
(* The first boot.                                                         *)
(***************************************************************************)
\* n was acknowledged, or is about to be.
Acked(n) ==
    \/ n = applied
    \/ \E c \in Copy : \E i \in 1..Len(reports[c]) : n = reports[c][i]
    \/ \E i \in 1..Len(outbound) : n = outbound[i].report

\* The steps that acknowledge nothing and take no acknowledgement along.
Mute ==
    \/ Write \/ bumpHomeForAgent \/ SandboxDown \/ ClaimSync \/ ComposeSync \/ PollLost
    \/ Disconnect \/ releaseChannel \/ SyncHome \/ SkipPart \/ PartFails \/ UNCHANGED vars

LEMMA MuteFrame ==
    ASSUME Mute
    PROVE  UNCHANGED <<applied, reports, outbound, home>>
  <1>1. CASE Write \/ bumpHomeForAgent \/ SandboxDown \/ ClaimSync \/ ComposeSync \/ PollLost
    BY <1>1 DEF Write, bumpHomeForAgent, SandboxDown, ClaimSync, ComposeSync, PollLost, db, supervisor
  <1>2. CASE Disconnect \/ releaseChannel \/ SyncHome \/ SkipPart \/ PartFails \/ UNCHANGED vars
    BY <1>2 DEF Disconnect, releaseChannel, SyncHome, SkipPart, PartFails, vars, db, supervisor
  <1> QED BY <1>1, <1>2 DEF Mute

\* A new acknowledgement is the one of a last part that was just applied.
LEMMA AckedNext ==
    ASSUME TypeOK, [Next]_vars, NEW n, Acked(n)'
    PROVE  n = 0 \/ Acked(n) \/ (ApplyPart /\ n = Head(frames).gen /\ Head(frames).part = Parts)
  <1>0. reports \in [Copy -> Seq(Nat)] /\ outbound \in Seq(Message)
    BY DEF TypeOK
  <1>1. CASE Mute
    BY <1>1, MuteFrame DEF Acked
  <1>2. CASE ClaimStart
    BY <1>2 DEF ClaimStart, supervisor, Acked
  <1>3. ASSUME NEW c \in Copy, PostReport(c) \/ ReportLost(c)
        PROVE  Acked(n)
    <2>1. /\ reports[c] # << >> /\ reports' = [reports EXCEPT ![c] = Tail(reports[c])]
          /\ outbound' = outbound /\ (applied' = applied \/ applied' = Head(reports[c]))
      BY <1>3 DEF PostReport, ReportLost, supervisor, db
    <2>2. reports[c] \in Seq(Nat)
      BY <1>0
    <2>3. /\ Head(reports[c]) = reports[c][1] /\ 1 \in 1..Len(reports[c])
          /\ \A i \in 1..Len(Tail(reports[c])) : i + 1 \in 1..Len(reports[c]) /\ Tail(reports[c])[i] = reports[c][i + 1]
      BY <2>1, <2>2, TailFacts
    <2>4. CASE n = applied'
      BY <2>1, <2>3, <2>4 DEF Acked
    <2>5. ASSUME NEW d \in Copy, NEW i \in 1..Len(reports'[d]), n = reports'[d][i]
          PROVE  Acked(n)
      <3>1. CASE d = c
        <4>1. reports'[d] = Tail(reports[c])
          BY <1>0, <2>1, <3>1
        <4>2. i + 1 \in 1..Len(reports[c]) /\ n = reports[c][i + 1]
          BY <2>3, <2>5, <4>1
        <4> QED BY <4>2 DEF Acked
      <3>2. CASE d # c
        <4>1. reports'[d] = reports[d]
          BY <1>0, <2>1, <3>2
        <4> QED BY <2>5, <4>1 DEF Acked
      <3> QED BY <3>1, <3>2
    <2>6. CASE \E i \in 1..Len(outbound') : n = outbound'[i].report
      BY <2>1, <2>6 DEF Acked
    <2> QED BY <2>4, <2>5, <2>6 DEF Acked
  <1>4. ASSUME NEW c \in Copy, Connect(c)
        PROVE  Acked(n)
    <2>1. /\ \A d \in Copy : \A i \in 1..Len(reports'[d]) :
               \/ i \in 1..Len(reports[d]) /\ reports'[d][i] = reports[d][i]
               \/ \E j \in 1..Len(outbound) : reports'[d][i] = outbound[j].report
          /\ \A i \in 1..Len(outbound') : \E j \in 1..Len(outbound) : outbound'[i].report = outbound[j].report
      BY <1>4, ConnectFacts
    <2>2. applied' = applied
      BY <1>4 DEF Connect
    <2>3. ASSUME NEW d \in Copy, NEW i \in 1..Len(reports'[d]), n = reports'[d][i]
          PROVE  Acked(n)
      BY <2>1, <2>3 DEF Acked
    <2>4. ASSUME NEW i \in 1..Len(outbound'), n = outbound'[i].report
          PROVE  Acked(n)
      <3>1. PICK j \in 1..Len(outbound) : outbound'[i].report = outbound[j].report
        BY <2>1
      <3> QED BY <2>4, <3>1 DEF Acked
    <2> QED BY <2>2, <2>3, <2>4 DEF Acked
  <1>5. CASE StartContainer
    <2>1. UNCHANGED <<applied, reports>> /\ outbound' = <<[report |-> 0, seen |-> {}]>>
      BY <1>5 DEF StartContainer, Ready
    <2>2. \A i \in 1..Len(outbound') : outbound'[i].report = 0
      BY <2>1
    <2> QED BY <2>1, <2>2 DEF Acked
  <1>6. CASE acknowledge
    <2>1. outbound # << >> /\ outbound' = Tail(outbound) /\ UNCHANGED <<applied, reports>>
      BY <1>6 DEF acknowledge, db
    <2>2. \A i \in 1..Len(outbound') : i + 1 \in 1..Len(outbound) /\ outbound'[i] = outbound[i + 1]
      BY <1>0, <2>1, TailFacts
    <2> QED BY <2>1, <2>2 DEF Acked
  <1>7. CASE ContainerDies
    <2>1. outbound' = << >> /\ UNCHANGED <<applied, reports>>
      BY <1>7 DEF ContainerDies, db
    <2>2. ~ \E i \in 1..Len(outbound') : TRUE
      BY <2>1
    <2> QED BY <2>1, <2>2 DEF Acked
  <1>8. CASE ApplyPart
    <2>1. frames # << >> /\ sendAck(Head(frames)) /\ applied' = applied
      BY <1>8 DEF ApplyPart, db
    <2>2. PICK f \in Frame : f = Head(frames)
      BY <2>1, FrameFacts
    <2>3. /\ f.part < Parts => UNCHANGED <<reports, outbound>>
          /\ \A c \in Copy : \A i \in 1..Len(reports'[c]) :
                 (i \in 1..Len(reports[c]) /\ reports'[c][i] = reports[c][i]) \/ reports'[c][i] = f.gen
          /\ \A i \in 1..Len(outbound') :
                 (i \in 1..Len(outbound) /\ outbound'[i] = outbound[i]) \/ outbound'[i].report = f.gen
      BY <2>1, <2>2, AckFacts
    <2>4. CASE f.part < Parts
      BY <2>1, <2>3, <2>4 DEF Acked
    <2>5. CASE ~(f.part < Parts)
      <3>1. f.part = Parts
        BY <2>5, PartsAssumption DEF Frame
      <3>2. Acked(n) \/ n = f.gen
        BY <2>1, <2>3 DEF Acked
      <3> QED BY <1>8, <2>2, <3>1, <3>2
    <2> QED BY <2>4, <2>5
  <1> QED BY <1>1, <1>2, <1>3, <1>4, <1>5, <1>6, <1>7, <1>8 DEF Next, Mute

\* Within a boot a home only moves on, so what it covered it still covers.
LEMMA AcksNext ==
    ASSUME TypeOK, TypeOK', Versions, AcksOK, [Next]_vars, StartContainer => home' = home
    PROVE  AcksOK'
  <1>0. /\ home \in [1..Parts -> Nat] /\ \A p \in 1..Parts : home[p] \in Nat
        /\ frames \in Seq(Frame) /\ FramesOK /\ HeadOK /\ HomeOK
    BY NumberTypes DEF Versions
  <1>1. /\ \A p \in 1..Parts : home'[p] \in Nat
        /\ applied' \in Nat /\ reports' \in [Copy -> Seq(Nat)] /\ outbound' \in Seq(Message)
    BY DEF TypeOK
  <1>2. \A n : Acked(n) => Covered(n)
    BY DEF Acked, AcksOK
  <1>3. \/ ~ApplyPart /\ home' = home
        \/ /\ ApplyPart /\ \A p \in 1..Parts : home[p] <= home'[p]
           /\ Head(frames).part = Parts => \A p \in 1..Parts : Head(frames).gen <= home'[p]
    <2>1. CASE ApplyPart
      <3>1. /\ frames # << >> /\ ~skips(Head(frames))
            /\ home' = [home EXCEPT ![Head(frames).part] = Head(frames).content]
        BY <2>1 DEF ApplyPart
      <3>2. Head(frames) \in Frame /\ Head(frames) = frames[1] /\ 1 \in 1..Len(frames)
        BY <1>0, <3>1, TailFacts
      <3>3. PICK f \in Frame : f = Head(frames)
        BY <3>2
      <3>4. /\ f.part \in 1..Parts /\ f.content \in Nat /\ f.gen \in Nat /\ f.gen <= f.content
            /\ \A p \in 1..Parts : home[p] <= f.content
        BY <1>0, <3>2, <3>3 DEF FramesOK, FrameOK, HomeOK, Frame
      <3>5. home'[f.part] = f.content /\ \A p \in 1..Parts : p # f.part => home'[p] = home[p]
        BY <1>0, <3>1, <3>3, <3>4
      <3>6. \A p \in 1..Parts : p < f.part => home[p] >= f.content
        BY <1>0, <3>1, <3>3 DEF HeadOK, skips
      <3>7. \A p \in 1..Parts : home[p] <= home'[p]
        BY <1>0, <3>4, <3>5
      <3>8. ASSUME f.part = Parts, NEW p \in 1..Parts
            PROVE  f.gen <= home'[p]
        <4>1. p = f.part \/ p < f.part
          BY <3>8, PartsAssumption
        <4> QED BY <1>0, <3>4, <3>5, <3>6, <4>1
      <3> QED BY <2>1, <3>3, <3>7, <3>8
    <2>2. CASE ~ApplyPart
      <3>1. CASE Mute
        BY <2>2, <3>1, MuteFrame
      <3>2. CASE ClaimStart \/ StartContainer \/ acknowledge \/ ContainerDies
        BY <2>2, <3>2 DEF ClaimStart, acknowledge, ContainerDies, supervisor
      <3>3. CASE \E c \in Copy : PostReport(c) \/ ReportLost(c) \/ Connect(c)
        BY <2>2, <3>3 DEF PostReport, ReportLost, Connect, supervisor
      <3> QED BY <2>2, <3>1, <3>2, <3>3 DEF Next, Mute
    <2> QED BY <2>1, <2>2
  <1>4. ASSUME NEW n \in Nat, Acked(n)'
        PROVE  \A p \in 1..Parts : n <= home'[p]
    <2>1. n = 0 \/ Acked(n) \/ (ApplyPart /\ n = Head(frames).gen /\ Head(frames).part = Parts)
      BY <1>4, AckedNext
    <2>2. CASE n = 0
      BY <1>1, <2>2
    <2>3. CASE Acked(n)
      <3>1. \A p \in 1..Parts : n <= home[p]
        BY <1>2, <2>3 DEF Covered
      <3>2. \A p \in 1..Parts : home[p] <= home'[p]
        <4>1. CASE home' = home
          BY <1>0, <4>1
        <4>2. CASE \A p \in 1..Parts : home[p] <= home'[p]
          BY <4>2
        <4>3. home' = home \/ \A p \in 1..Parts : home[p] <= home'[p]
          BY <1>3, Zenon
        <4> QED BY <4>1, <4>2, <4>3, Zenon
      <3> QED BY <1>0, <1>1, <3>1, <3>2
    <2>4. CASE ApplyPart /\ n = Head(frames).gen /\ Head(frames).part = Parts
      BY <1>3, <2>4
    <2> QED BY <2>1, <2>2, <2>3, <2>4
  <1>5. Covered(applied)'
    BY <1>1, <1>4 DEF Acked, Covered
  <1>6. ASSUME NEW c \in Copy, NEW i \in 1..Len(reports'[c])
        PROVE  \A p \in 1..Parts : reports'[c][i] <= home'[p]
    <2>1. reports'[c][i] \in Nat
      BY <1>1
    <2>2. PICK n \in Nat : n = reports'[c][i]
      BY <2>1
    <2>3. Acked(n)'
      BY <2>2 DEF Acked
    <2> QED BY <1>4, <2>2, <2>3
  <1>7. ASSUME NEW i \in 1..Len(outbound')
        PROVE  \A p \in 1..Parts : outbound'[i].report <= home'[p]
    <2>1. outbound'[i].report \in Nat
      <3>1. outbound'[i] \in Message
        BY <1>1
      <3> QED BY <3>1 DEF Message
    <2>2. PICK n \in Nat : n = outbound'[i].report
      BY <2>1
    <2>3. Acked(n)'
      BY <2>2 DEF Acked
    <2> QED BY <1>4, <2>2, <2>3
  <1> QED BY <1>5, <1>6, <1>7 DEF AcksOK, Covered

LEMMA BootsFrame ==
    ASSUME TypeOK, [Next]_vars
    PROVE  IF ClaimStart THEN budget'["boots"] = budget["boots"] + 1
                         ELSE budget'["boots"] = budget["boots"]
  <1>0. budget \in [Bounded -> Nat] /\ Bounded = {"boots", "losses", "drops", "failures"}
    BY DEF TypeOK, Bounded
  <1>1. CASE ClaimStart
    BY <1>0, <1>1 DEF ClaimStart, Spend
  <1>2. CASE ~ClaimStart
    <2>1. \/ budget' = budget \/ Spend("losses", MaxLosses)
          \/ Spend("drops", MaxDrops) \/ Spend("failures", MaxFailures)
      <3>1. CASE Write \/ bumpHomeForAgent \/ SandboxDown \/ ClaimSync \/ ComposeSync \/ PollLost
        BY <3>1 DEF Write, bumpHomeForAgent, SandboxDown, ClaimSync, ComposeSync, PollLost
      <3>2. CASE \E c \in Copy : PostReport(c) \/ ReportLost(c) \/ Connect(c)
        BY <3>2 DEF PostReport, ReportLost, Connect
      <3>3. CASE StartContainer \/ acknowledge \/ Disconnect \/ releaseChannel \/ ContainerDies
        BY <3>3 DEF StartContainer, acknowledge, Disconnect, releaseChannel, ContainerDies
      <3>4. CASE SyncHome \/ ApplyPart \/ SkipPart \/ PartFails \/ UNCHANGED vars
        BY <3>4 DEF SyncHome, ApplyPart, SkipPart, PartFails, vars
      <3> QED BY <1>2, <3>1, <3>2, <3>3, <3>4 DEF Next
    <2> QED BY <1>0, <1>2, <2>1 DEF Spend
  <1> QED BY <1>1, <1>2

\* Before the first container nothing can happen to a home.
LEMMA IdleNext ==
    ASSUME Idle, [Next]_vars, ~StartContainer
    PROVE  Idle'
  <1> USE DEF Idle
  <1>1. CASE Write \/ bumpHomeForAgent \/ SandboxDown \/ releaseChannel \/ UNCHANGED vars
    <2>1. /\ UNCHANGED <<up, applied, poll, home, frames, outbound, reports>>
          /\ status' = status \/ status' = "down"
      BY <1>1 DEF Write, bumpHomeForAgent, SandboxDown, releaseChannel, vars, db, supervisor
    <2> QED BY <2>1
  <1>2. CASE ClaimStart
    <2>1. /\ UNCHANGED <<up, poll, home, frames, outbound, reports>>
          /\ status' = "starting" /\ applied' = 0
      BY <1>2 DEF ClaimStart, supervisor
    <2> QED BY <2>1
  <1>3. CASE Disconnect
    <2>1. /\ UNCHANGED <<up, status, applied, poll, home, outbound, reports>>
          /\ \E n \in 0..Len(frames) : frames' = SubSeq(frames, 1, n)
      BY <1>3 DEF Disconnect, db
    <2>2. frames' = << >>
      BY <2>1
    <2> QED BY <2>1, <2>2
  <1>4. ~(ClaimSync \/ ComposeSync \/ PollLost \/ SyncHome)
    BY DEF ClaimSync, syncDue, ComposeSync, PollLost, SyncHome, NoSync
  <1>5. ~(\E c \in Copy : PostReport(c) \/ ReportLost(c) \/ Connect(c))
    BY DEF PostReport, ReportLost, Connect
  <1>6. ~(acknowledge \/ ContainerDies \/ ApplyPart \/ SkipPart \/ PartFails)
    BY DEF acknowledge, ContainerDies, ApplyPart, SkipPart, PartFails
  <1> QED BY <1>1, <1>2, <1>3, <1>4, <1>5, <1>6 DEF Next

LEMMA StartingFrame ==
    ASSUME [Next]_vars, ~ClaimStart, ~StartContainer
    PROVE  starting' = starting
  <1>1. CASE Write \/ bumpHomeForAgent \/ SandboxDown \/ ClaimSync \/ ComposeSync \/ PollLost
    BY <1>1 DEF Write, bumpHomeForAgent, SandboxDown, ClaimSync, ComposeSync, PollLost
  <1>2. CASE \E c \in Copy : PostReport(c) \/ ReportLost(c) \/ Connect(c)
    BY <1>2 DEF PostReport, ReportLost, Connect
  <1>3. CASE acknowledge \/ Disconnect \/ releaseChannel \/ ContainerDies
    BY <1>3 DEF acknowledge, Disconnect, releaseChannel, ContainerDies
  <1>4. CASE SyncHome \/ ApplyPart \/ SkipPart \/ PartFails \/ UNCHANGED vars
    BY <1>4 DEF SyncHome, ApplyPart, SkipPart, PartFails, vars
  <1> QED BY <1>1, <1>2, <1>3, <1>4 DEF Next

LEMMA FirstBootNext ==
    ASSUME TypeOK, TypeOK', Versions, FirstBoot, [Next]_vars
    PROVE  FirstBoot'
  <1>0. budget["boots"] \in Nat
    BY DEF TypeOK, Bounded
  <1>1. CASE ClaimStart
    <2>1. budget'["boots"] = budget["boots"] + 1 /\ home' = home
      BY <1>1, BootsFrame DEF ClaimStart, supervisor
    <2> SUFFICES ASSUME budget["boots"] = 0
                 PROVE  FirstBoot'
      BY <1>0, <2>1 DEF FirstBoot
    <2>2. Idle /\ AcksOK
      BY DEF FirstBoot
    <2>3. ~StartContainer
      BY <1>1 DEF FirstBoot, StartContainer
    <2>4. Idle'
      BY <2>2, <2>3, IdleNext
    <2>5. AcksOK'
      BY <2>1, <2>2, AcksNext
    <2> QED BY <2>1, <2>4, <2>5 DEF FirstBoot
  <1>2. CASE StartContainer
    <2>1. ~ClaimStart /\ starting /\ starting' = FALSE
      BY <1>2 DEF StartContainer, ClaimStart
    <2>2. budget'["boots"] = budget["boots"]
      BY <2>1, BootsFrame
    <2> SUFFICES ASSUME budget["boots"] = 1
                 PROVE  FirstBoot'
      BY <1>0, <2>1, <2>2 DEF FirstBoot
    <2>3. home' = home /\ AcksOK
      BY <1>2, <2>1 DEF FirstBoot, Idle, StartContainer
    <2>4. AcksOK'
      BY <2>3, AcksNext
    <2> QED BY <2>1, <2>2, <2>4 DEF FirstBoot
  <1>3. CASE ~ClaimStart /\ ~StartContainer
    <2>1. budget'["boots"] = budget["boots"]
      BY <1>3, BootsFrame
    <2>2. Idle => Idle'
      BY <1>3, IdleNext
    <2>3. starting' = starting
      BY <1>3, StartingFrame
    <2>4. AcksOK => AcksOK'
      BY <1>3, AcksNext
    <2> QED BY <2>1, <2>2, <2>3, <2>4 DEF FirstBoot
  <1> QED BY <1>1, <1>2, <1>3

\* A running sandbox that has caught up works, in its first boot, on a home
\* that shows the current projection whole: applyRunnerEvent never takes an
\* acknowledgement of a home "that was never materialized", whatever sockets
\* drop, polls and reports are lost, parts fail or acknowledgements replay.
THEOREM MaterializedHolds == Spec => []AppliedIsMaterialized
  <1>1. Init => Versions /\ FirstBoot
    <2> SUFFICES ASSUME Init PROVE Versions /\ FirstBoot
      OBVIOUS
    <2>1. \A p \in 1..Parts : home[p] = 0
      BY DEF Init, Empty
    <2>2. Versions
      BY <2>1 DEF Init, NoSync, Versions, CountsOK, PollOK, FramesOK, HeadOK, HomeOK
    <2>3. Idle /\ ~starting
      BY DEF Init, Idle
    <2>4. AcksOK
      BY <2>1, <2>3 DEF Idle, AcksOK, Covered
    <2> QED BY <2>2, <2>3, <2>4 DEF Init, FirstBoot, Bounded
  <1>2. TypeOK /\ Versions /\ FirstBoot /\ TypeOK' /\ [Next]_vars => Versions' /\ FirstBoot'
    BY VersionsNext, FirstBootNext
  <1>3. TypeOK /\ Versions /\ FirstBoot => AppliedIsMaterialized
    <2> SUFFICES ASSUME TypeOK, Versions, FirstBoot, applied = desired, owed = 0,
                        budget["boots"] = 1, NEW p \in 1..Parts
                 PROVE  home[p] = truth
      BY DEF AppliedIsMaterialized
    <2>1. truth \in Nat /\ desired \in Nat /\ home[p] \in Nat
      BY NumberTypes
    <2>2. applied <= home[p] /\ home[p] <= truth
      BY DEF FirstBoot, AcksOK, Covered, Versions, HomeOK
    <2>3. desired = truth
      BY <2>1 DEF Versions, CountsOK
    <2> QED BY <2>1, <2>2, <2>3
  <1> QED BY <1>1, <1>2, <1>3, TypeCorrect, PTL DEF Spec

=============================================================================
