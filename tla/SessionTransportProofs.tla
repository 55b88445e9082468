----------------------- MODULE SessionTransportProofs -----------------------
(***************************************************************************)
(* Theorems about SessionTransport, for any copies of the runner, any      *)
(* number of sockets, frames, containers and restarts and any cap of the   *)
(* backlog.                                                                *)
(***************************************************************************)
EXTENDS SessionTransport, FiniteSetTheorems, FunctionTheorems, SequenceTheorems, TLAPS

-----------------------------------------------------------------------------
(***************************************************************************)
(* The invariants.                                                         *)
(***************************************************************************)
\* A process is not behind what it passed on; a copy that has no cursor of
\* this container passed nothing on.
Passed ==
    \A c \in Copy : \/ applied[c] = << >>
                    \/ /\ cursors[c].box = box
                       /\ \A i \in DOMAIN applied[c] : applied[c][i] <= cursors[c].seq

\* The numbers of a backlog grow.
Sorted(frames) == \A i, j \in 1..Len(frames) : i < j => frames[i].seq < frames[j].seq

Bare(frames) == \A i \in 1..Len(frames) : frames[i].seq = 0
Numbered(frames) == \A i \in 1..Len(frames) : frames[i].seq # 0

\* Frames are bare before the session and numbered after it.
BacklogOK ==
    /\ ~session => nextSeq = 0 /\ Bare(outbound)
    /\ session => Sorted(outbound) /\ Numbered(outbound)

\* No number above n is in a backlog or on a socket.
Within(frames, n) == \A i \in 1..Len(frames) : frames[i].seq <= n
Acks(items, n) == \A i \in 1..Len(items) : items[i].ack <= n
OnSockets(q, n) == \A s \in 1..Len(q) : Within(q[s].up, n) /\ Acks(q[s].down, n)

\* No number is anywhere that was not given.
Given ==
    /\ sentUpTo <= nextSeq /\ Within(outbound, nextSeq) /\ OnSockets(sock, nextSeq)
    /\ \A c \in Copy : cursors[c].box <= box /\ (cursors[c].box = box => cursors[c].seq <= nextSeq)

\* A copy writes the hand-off behind the answer to the upgrade, nothing is
\* written to a socket before that answer was read, and nothing is read from
\* one that is gone.
SocketOK(client, up, down) ==
    /\ client = "dialling" =>
          /\ up = << >>
          /\ down # << >> => Len(down) >= 2 /\ down[1].kind = "open" /\ down[2].kind = "session"
    /\ client = "gone" => down = << >>

SocketsOK == \A s \in 1..Len(sock) : SocketOK(sock[s].client, sock[s].up, sock[s].down)

\* The numbers that are settled: passed on, or dropped on purpose.
gone == reached \cup discarded

\* What a copy counts as applied is settled, and so is what it acked.
Settled(n, G) == \A k \in 1..n : k \in G
CursorsSettled == \A c \in Copy : cursors[c].box = box => Settled(cursors[c].seq, gone)

Confirms(items, G) == \A i \in 1..Len(items) : Settled(items[i].ack, G)
AcksSettled(q, G) == \A s \in 1..Len(q) : Confirms(q[s].down, G)

\* On an open socket no number overtakes an earlier one that is not settled.
InOrder(up, G) ==
    \A i \in 1..Len(up) : \A n \in 1..(up[i].seq - 1) :
        n \in G \/ \E j \in 1..(i - 1) : up[j].seq = n
SocketsInOrder(q, G) == \A s \in 1..Len(q) : q[s].server = "open" => InOrder(q[s].up, G)

\* The numbers up to m are settled or among the frames.
Carries(frames, n) == \E i \in 1..Len(frames) : frames[i].seq = n
Covers(frames, m, G) == \A n \in 1..m : n \in G \/ Carries(frames, n)

\* Once the hand-off was read everything is settled or on the socket.
HandOff(down) == \E i \in 1..Len(down) : down[i].kind = "session"
AllOn(client, server, up, down, m, G) ==
    client = "open" /\ server = "open" /\ ~HandOff(down) => Covers(up, m, G)
AllOnSocket ==
    session /\ socket # 0 =>
        AllOn(sock[socket].client, sock[socket].server, sock[socket].up, sock[socket].down, nextSeq, gone)

Shape == BacklogOK /\ Given /\ SocketsOK

\* Nothing is lost, and what says so at each end is right.
Flow ==
    /\ Covers(outbound, nextSeq, gone) /\ CursorsSettled
    /\ AcksSettled(sock, gone) /\ SocketsInOrder(sock, gone) /\ AllOnSocket

FlowUnlessRaced == raced \/ Flow

-----------------------------------------------------------------------------
(***************************************************************************)
(* Places of a sequence.                                                   *)
(***************************************************************************)
Rank(K, i) == Cardinality({j \in K : j <= i})

\* The members of a finite set of numbers are counted by their ranks.
LEMMA Ranks ==
    ASSUME NEW m \in Nat, NEW K, K \subseteq 1..m
    PROVE  /\ IsFiniteSet(K) /\ Cardinality(K) \in Nat /\ Cardinality(K) <= m
           /\ \A i \in K : Rank(K, i) \in 1..Cardinality(K)
           /\ \A i, j \in K : i < j => Rank(K, i) < Rank(K, j)
           /\ \A n \in 1..Cardinality(K) : \E i \in K : Rank(K, i) = n
  <1>0. \A i \in K : i \in Int /\ i \in 1..m
    OBVIOUS
  <1>1. IsFiniteSet(1..m) /\ Cardinality(1..m) = m
    BY FS_Interval
  <1>2. IsFiniteSet(K) /\ Cardinality(K) <= m
    BY <1>1, FS_Subset
  <1>3. Cardinality(K) \in Nat
    BY <1>2, FS_CardinalityType
  <1>4. \A i \in K : IsFiniteSet({j \in K : j <= i}) /\ Rank(K, i) \in Nat /\ Rank(K, i) <= Cardinality(K)
    <2> TAKE i \in K
    <2>1. {j \in K : j <= i} \subseteq K
      OBVIOUS
    <2>2. IsFiniteSet({j \in K : j <= i}) /\ Cardinality({j \in K : j <= i}) <= Cardinality(K)
      BY <1>2, <2>1, FS_Subset
    <2> QED BY <2>2, FS_CardinalityType DEF Rank
  <1>5. \A i \in K : Rank(K, i) # 0
    <2> TAKE i \in K
    <2>1. i \in {j \in K : j <= i}
      <3>1. i <= i
        BY <1>0
      <3> QED BY <3>1
    <2> QED BY <1>4, <2>1, FS_EmptySet DEF Rank
  <1>6. \A i, j \in K : i < j => Rank(K, i) < Rank(K, j)
    <2> SUFFICES ASSUME NEW i \in K, NEW j \in K, i < j PROVE Rank(K, i) < Rank(K, j)
      OBVIOUS
    <2> DEFINE S == {k \in K : k <= i}
               T == {k \in K : k <= j}
    <2>1. S \subseteq T /\ j \in T /\ j \notin S
      <3>1. j <= j /\ ~(j <= i) /\ \A k \in K : k <= i => k <= j
        BY <1>0
      <3> QED BY <3>1
    <2>2. IsFiniteSet(T) /\ IsFiniteSet(S) /\ Cardinality(S) \in Nat /\ Cardinality(T) \in Nat
      BY <1>4 DEF Rank
    <2> HIDE DEF S, T
    <2>3. Cardinality(S) <= Cardinality(T) /\ Cardinality(S) # Cardinality(T)
      <3>1. S # T
        BY <2>1
      <3>2. /\ Cardinality(S) <= Cardinality(T)
            /\ Cardinality(T) = Cardinality(S) => T = S
        BY <2>1, <2>2, FS_Subset
      <3> QED BY <3>1, <3>2
    <2>4. Cardinality(S) < Cardinality(T)
      BY <2>2, <2>3
    <2> QED BY <2>4 DEF S, T, Rank
  <1>7. \A i \in K : Rank(K, i) \in 1..Cardinality(K)
    <2> TAKE i \in K
    <2>1. Rank(K, i) \in Nat /\ Rank(K, i) <= Cardinality(K) /\ Rank(K, i) # 0
      BY <1>4, <1>5
    <2> QED BY <1>3, <2>1
  <1>8. ASSUME NEW n \in 1..Cardinality(K)
        PROVE  \E i \in K : Rank(K, i) = n
    <2> DEFINE f == [i \in K |-> Rank(K, i)]
               C == 1..Cardinality(K)
    <2>1. f \in [K -> C]
      BY <1>7
    <2>2. \A i, j \in K : f[i] = f[j] => i = j
      <3> SUFFICES ASSUME NEW i \in K, NEW j \in K, Rank(K, i) = Rank(K, j), i # j PROVE FALSE
        OBVIOUS
      <3>1. i < j \/ j < i
        BY <1>0
      <3>2. Rank(K, i) \in Nat /\ Rank(K, j) \in Nat
        BY <1>4
      <3>3. Rank(K, i) < Rank(K, j) \/ Rank(K, j) < Rank(K, i)
        BY <1>6, <3>1
      <3> QED BY <3>2, <3>3
    <2>3. IsFiniteSet(C) /\ Cardinality(C) = Cardinality(K)
      BY <1>3, FS_Interval
    <2> HIDE DEF f, C
    <2>4. f \in Injection(K, C)
      BY <2>1, <2>2 DEF Injection, IsInjective
    <2>5. f \in Surjection(K, C)
      BY <2>3, <2>4, FS_Injection
    <2>6. \E i \in K : f[i] = n
      BY <2>5 DEF Surjection, C
    <2> QED BY <2>6 DEF f
  <1> QED BY <1>2, <1>3, <1>6, <1>8, <1>7

\* picked keeps the members of the places it is given, in their order.
LEMMA PickedFacts ==
    ASSUME NEW S, NEW s \in Seq(S), NEW K, K \subseteq 1..Len(s)
    PROVE  /\ picked(s, K) \in Seq(S) /\ Len(picked(s, K)) <= Len(s)
           /\ \A i \in K : \E n \in 1..Len(picked(s, K)) : picked(s, K)[n] = s[i]
           /\ \E f \in [1..Len(picked(s, K)) -> K] :
                 /\ \A n \in 1..Len(picked(s, K)) : picked(s, K)[n] = s[f[n]]
                 /\ \A n, m \in 1..Len(picked(s, K)) : n < m => f[n] < f[m]
  <1>0. Len(s) \in Nat /\ \A i \in 1..Len(s) : s[i] \in S
    OBVIOUS
  <1>1. /\ IsFiniteSet(K) /\ Cardinality(K) \in Nat /\ Cardinality(K) <= Len(s)
        /\ \A i \in K : Rank(K, i) \in 1..Cardinality(K)
        /\ \A i, j \in K : i < j => Rank(K, i) < Rank(K, j)
        /\ \A n \in 1..Cardinality(K) : \E i \in K : Rank(K, i) = n
    BY <1>0, Ranks
  <1> DEFINE f == [n \in 1..Cardinality(K) |-> CHOOSE i \in K : Rank(K, i) = n]
             p == picked(s, K)
  <1>2. \A n \in 1..Cardinality(K) : f[n] \in K /\ Rank(K, f[n]) = n
    BY <1>1
  <1>3. p = [n \in 1..Cardinality(K) |-> s[f[n]]]
    BY DEF picked, Rank
  <1> HIDE DEF f, p
  <1>4. f \in [1..Cardinality(K) -> K]
    BY <1>2 DEF f
  <1>5. p \in [1..Cardinality(K) -> S]
    BY <1>0, <1>2, <1>3
  <1>6. p \in Seq(S) /\ Len(p) = Cardinality(K)
    BY <1>1, <1>5
  <1>7. \A n, m \in 1..Cardinality(K) : n < m => f[n] < f[m]
    <2> SUFFICES ASSUME NEW n \in 1..Cardinality(K), NEW m \in 1..Cardinality(K), n < m, ~(f[n] < f[m])
                 PROVE  FALSE
      OBVIOUS
    <2>1. f[n] \in 1..Len(s) /\ f[m] \in 1..Len(s)
      BY <1>2
    <2>2. f[m] < f[n] \/ f[m] = f[n]
      BY <1>0, <2>1
    <2>3. CASE f[m] < f[n]
      <3>1. Rank(K, f[m]) < Rank(K, f[n])
        BY <1>1, <1>2, <2>3
      <3> QED BY <1>2, <3>1
    <2>4. CASE f[m] = f[n]
      BY <1>2, <2>4
    <2> QED BY <2>2, <2>3, <2>4
  <1>8. ASSUME NEW i \in K
        PROVE  \E n \in 1..Cardinality(K) : p[n] = s[i]
    <2>1. PICK n \in 1..Cardinality(K) : n = Rank(K, i)
      BY <1>1
    <2>2. f[n] \in K /\ Rank(K, f[n]) = Rank(K, i)
      BY <1>2, <2>1
    <2>3. f[n] = i
      <3>1. f[n] \in Int /\ i \in Int
        <4>1. f[n] \in 1..Len(s) /\ i \in 1..Len(s)
          BY <2>2
        <4> QED BY <4>1
      <3>2. f[n] < i \/ i < f[n] \/ f[n] = i
        BY <3>1
      <3>3. Rank(K, i) \in Int
        BY <1>1
      <3>4. f[n] < i => Rank(K, f[n]) < Rank(K, i)
        BY <1>1, <2>2
      <3>5. i < f[n] => Rank(K, i) < Rank(K, f[n])
        BY <1>1, <2>2
      <3> QED BY <2>2, <3>2, <3>3, <3>4, <3>5
    <2> QED BY <1>3, <2>3
  <1>9. \A n \in 1..Cardinality(K) : p[n] = s[f[n]]
    BY <1>3
  <1> QED BY <1>1, <1>4, <1>6, <1>7, <1>8, <1>9 DEF p

-----------------------------------------------------------------------------
(***************************************************************************)
(* The operators on a backlog.                                             *)
(***************************************************************************)
\* t is what is left of s: some of its frames, in their order.
Thins(t, s) ==
    /\ t \in Seq(Frame) /\ Len(t) <= Len(s)
    /\ \A n \in 1..Len(t) : \E i \in 1..Len(s) : t[n] = s[i]
    /\ Sorted(s) => Sorted(t)

\* t has the frames of s at the places in K, and no other.
Has(t, s, K) == \A i \in K : \E n \in 1..Len(t) : t[n] = s[i]
Only(t, s, K) == \A n \in 1..Len(t) : \E i \in K : t[n] = s[i]

LEMMA FrameTypes ==
    ASSUME NEW s \in Seq(Frame)
    PROVE  /\ Len(s) \in Nat /\ DOMAIN s = 1..Len(s)
           /\ \A i \in 1..Len(s) : s[i] \in Frame /\ s[i].seq \in Nat /\ s[i].beat \in BOOLEAN
  <1>1. Len(s) \in Nat /\ DOMAIN s = 1..Len(s) /\ \A i \in 1..Len(s) : s[i] \in Frame
    OBVIOUS
  <1>2. \A f \in Frame : f.seq \in Nat /\ f.beat \in BOOLEAN
    BY DEF Frame, Number
  <1> QED BY <1>1, <1>2

LEMMA PickedThins ==
    ASSUME NEW s \in Seq(Frame), NEW K, K \subseteq 1..Len(s)
    PROVE  Thins(picked(s, K), s) /\ Has(picked(s, K), s, K) /\ Only(picked(s, K), s, K)
  <1> DEFINE p == picked(s, K)
  <1>1. /\ p \in Seq(Frame) /\ Len(p) <= Len(s)
        /\ \A i \in K : \E n \in 1..Len(p) : p[n] = s[i]
        /\ \E f \in [1..Len(p) -> K] : /\ \A n \in 1..Len(p) : p[n] = s[f[n]]
                                       /\ \A n, m \in 1..Len(p) : n < m => f[n] < f[m]
    BY PickedFacts
  <1> HIDE DEF p
  <1>2. PICK f \in [1..Len(p) -> K] : /\ \A n \in 1..Len(p) : p[n] = s[f[n]]
                                      /\ \A n, m \in 1..Len(p) : n < m => f[n] < f[m]
    BY <1>1
  <1>3. \A n \in 1..Len(p) : f[n] \in K /\ f[n] \in 1..Len(s)
    BY <1>2
  <1>4. \A n \in 1..Len(p) : \E i \in K : p[n] = s[i]
    BY <1>2, <1>3
  <1>5. Sorted(s) => Sorted(p)
    BY <1>2, <1>3 DEF Sorted
  <1>6. Thins(p, s)
    BY <1>1, <1>4, <1>5 DEF Thins
  <1> QED BY <1>1, <1>4, <1>6 DEF p, Has, Only

LEMMA WriteFacts ==
    ASSUME NEW s \in Seq(Frame), NEW held, NEW upTo
    PROVE  /\ Thins(toWrite(s, held, upTo), s)
           /\ \A i \in 1..Len(s) : ~held \/ s[i].seq = 0 \/ s[i].seq > upTo =>
                 \E n \in 1..Len(toWrite(s, held, upTo)) : toWrite(s, held, upTo)[n] = s[i]
  <1> DEFINE K == {i \in DOMAIN s : ~held \/ s[i].seq = 0 \/ s[i].seq > upTo}
  <1>1. K \subseteq 1..Len(s) /\ DOMAIN s = 1..Len(s)
    OBVIOUS
  <1>2. toWrite(s, held, upTo) = picked(s, K)
    BY DEF toWrite
  <1>3. \A i \in 1..Len(s) : ~held \/ s[i].seq = 0 \/ s[i].seq > upTo => i \in K
    BY <1>1
  <1> HIDE DEF K
  <1>4. Thins(picked(s, K), s) /\ Has(picked(s, K), s, K)
    BY <1>1, PickedThins
  <1> QED BY <1>2, <1>3, <1>4 DEF Has

LEMMA KeepFacts ==
    ASSUME NEW s \in Seq(Frame), NEW held
    PROVE  /\ Thins(toKeep(s, held), s)
           /\ \A n \in 1..Len(toKeep(s, held)) : held /\ toKeep(s, held)[n].seq # 0
           /\ \A i \in 1..Len(s) : held /\ s[i].seq # 0 =>
                 \E n \in 1..Len(toKeep(s, held)) : toKeep(s, held)[n] = s[i]
  <1> DEFINE K == {i \in DOMAIN s : held /\ s[i].seq # 0}
  <1>1. K \subseteq 1..Len(s) /\ DOMAIN s = 1..Len(s)
    OBVIOUS
  <1>3. toKeep(s, held) = picked(s, K)
    BY DEF toKeep
  <1>4. /\ \A i \in 1..Len(s) : held /\ s[i].seq # 0 => i \in K
        /\ \A i \in K : held /\ s[i].seq # 0
    BY <1>1
  <1> HIDE DEF K
  <1>2. Thins(picked(s, K), s) /\ Has(picked(s, K), s, K) /\ Only(picked(s, K), s, K)
    BY <1>1, PickedThins
  <1>5. ASSUME NEW n \in 1..Len(picked(s, K))
        PROVE  held /\ picked(s, K)[n].seq # 0
    BY <1>2, <1>4 DEF Only
  <1> QED BY <1>2, <1>3, <1>4, <1>5 DEF Has

\* A suffix.
LEMMA SuffixThins ==
    ASSUME NEW s \in Seq(Frame), NEW k \in 0..Len(s)
    PROVE  /\ Thins(SubSeq(s, k + 1, Len(s)), s) /\ Len(SubSeq(s, k + 1, Len(s))) = Len(s) - k
           /\ \A i \in 1..Len(s) : i > k =>
                 \E n \in 1..Len(SubSeq(s, k + 1, Len(s))) : SubSeq(s, k + 1, Len(s))[n] = s[i]
  <1> DEFINE t == SubSeq(s, k + 1, Len(s))
  <1>1. /\ t \in Seq(Frame) /\ Len(t) = Len(s) - k /\ Len(s) \in Nat
        /\ \A n \in 1..(Len(s) - k) : t[n] = s[k + n]
    <2>1. CASE k < Len(s)
      BY <2>1
    <2>2. CASE k = Len(s)
      BY <2>2
    <2> QED BY <2>1, <2>2
  <1> HIDE DEF t
  <1>2. \A n \in 1..Len(t) : k + n \in 1..Len(s) /\ t[n] = s[k + n]
    BY <1>1
  <1>3. Sorted(s) => Sorted(t)
    <2> SUFFICES ASSUME Sorted(s), NEW n \in 1..Len(t), NEW m \in 1..Len(t), n < m
                 PROVE  t[n].seq < t[m].seq
      BY DEF Sorted
    <2>1. /\ k + n \in 1..Len(s) /\ k + m \in 1..Len(s) /\ k + n < k + m
          /\ t[n] = s[k + n] /\ t[m] = s[k + m]
      BY <1>1, <1>2
    <2> QED BY <2>1 DEF Sorted
  <1>4. \A i \in 1..Len(s) : i > k => i - k \in 1..Len(t) /\ t[i - k] = s[i]
    BY <1>1, <1>2
  <1>5. Thins(t, s)
    BY <1>1, <1>2, <1>3 DEF Thins
  <1> QED BY <1>1, <1>4, <1>5 DEF t

\* Only acked frames go.
LEMMA AcknowledgeFacts ==
    ASSUME NEW s \in Seq(Frame), NEW ack \in Nat
    PROVE  /\ Thins(acknowledge(s, ack), s)
           /\ \A i \in 1..Len(s) : s[i].seq = 0 \/ s[i].seq > ack =>
                 \E n \in 1..Len(acknowledge(s, ack)) : acknowledge(s, ack)[n] = s[i]
  <1> DEFINE A == {i \in DOMAIN s : \A j \in 1..i : s[j].seq # 0 /\ s[j].seq <= ack}
  <1>1. Len(s) \in Nat /\ DOMAIN s = 1..Len(s) /\ A \subseteq 1..Len(s)
    OBVIOUS
  <1>2. \A k \in A : \A j \in 1..k : s[j].seq # 0 /\ s[j].seq <= ack
    OBVIOUS
  <1>4. acknowledge(s, ack) = SubSeq(s, Cardinality(A) + 1, Len(s))
    BY DEF acknowledge
  <1> HIDE DEF A
  <1>7. Cardinality(A) \in Nat /\ Cardinality(A) <= Len(s)
    BY <1>1, Ranks
  <1>3. ASSUME NEW i \in 1..Len(s), s[i].seq = 0 \/ s[i].seq > ack
        PROVE  Cardinality(A) < i
    <2>1. i - 1 \in Nat /\ A \subseteq 1..(i - 1)
      <3> SUFFICES ASSUME NEW k \in A, ~(k <= i - 1) PROVE FALSE
        BY <1>1
      <3>1. i \in 1..k
        BY <1>1
      <3>2. s[i].seq # 0 /\ s[i].seq <= ack /\ s[i].seq \in Nat
        BY <1>2, <3>1, FrameTypes
      <3> QED BY <1>3, <3>2
    <2>2. Cardinality(A) <= i - 1
      BY <2>1, Ranks
    <2> QED BY <1>1, <1>7, <2>2
  <1>5. PICK k \in 0..Len(s) : k = Cardinality(A)
    BY <1>1, <1>7
  <1>6. /\ Thins(SubSeq(s, k + 1, Len(s)), s)
        /\ \A i \in 1..Len(s) : i > k =>
              \E n \in 1..Len(SubSeq(s, k + 1, Len(s))) : SubSeq(s, k + 1, Len(s))[n] = s[i]
    BY SuffixThins
  <1> QED BY <1>3, <1>4, <1>5, <1>6

\* The overflow keeps a suffix that fits.
LEMMA CappedFacts ==
    ASSUME NEW s \in Seq(Frame)
    PROVE  Thins(capped(s), s) /\ Len(capped(s)) <= MAX_OUTBOUND_MESSAGES
  <1>0. MAX_OUTBOUND_MESSAGES \in Nat /\ Len(s) \in Nat
    BY TransportAssumption
  <1>1. CASE Len(s) > MAX_OUTBOUND_MESSAGES
    <2>1. PICK k \in 0..Len(s) : k = Len(s) - MAX_OUTBOUND_MESSAGES
      BY <1>0, <1>1
    <2>2. capped(s) = SubSeq(s, k + 1, Len(s))
      BY <1>1, <2>1 DEF capped
    <2>3. Thins(SubSeq(s, k + 1, Len(s)), s) /\ Len(SubSeq(s, k + 1, Len(s))) = Len(s) - k
      BY SuffixThins
    <2> QED BY <1>0, <2>1, <2>2, <2>3
  <1>2. CASE ~(Len(s) > MAX_OUTBOUND_MESSAGES)
    BY <1>0, <1>2 DEF capped, Thins
  <1> QED BY <1>1, <1>2

-----------------------------------------------------------------------------
(***************************************************************************)
(* Sockets.                                                                *)
(***************************************************************************)
LEMMA SocketTypes ==
    ASSUME NEW q \in Seq(Socket)
    PROVE  /\ Len(q) \in Nat /\ DOMAIN q = 1..Len(q)
           /\ \A s \in 1..Len(q) :
                 /\ q[s] \in Socket /\ q[s].copy \in Copy
                 /\ q[s].client \in {"dialling", "open", "gone"}
                 /\ q[s].server \in {"none", "open", "closed"}
                 /\ q[s].up \in Seq(Frame) /\ q[s].down \in Seq(Item)
  <1>1. Len(q) \in Nat /\ DOMAIN q = 1..Len(q) /\ \A s \in 1..Len(q) : q[s] \in Socket
    OBVIOUS
  <1>2. \A r \in Socket : /\ r.copy \in Copy
                          /\ r.client \in {"dialling", "open", "gone"}
                          /\ r.server \in {"none", "open", "closed"}
                          /\ r.up \in Seq(Frame) /\ r.down \in Seq(Item)
    BY DEF Socket
  <1> QED BY <1>1, <1>2

\* t is q with another socket at s: one to the same copy, with these ends and
\* these queues.
Turned(t, q, s, client, server, up, down) ==
    /\ t \in Seq(Socket) /\ Len(t) = Len(q)
    /\ t[s].copy = q[s].copy /\ t[s].client = client /\ t[s].server = server
    /\ t[s].up = up /\ t[s].down = down
    /\ \A i \in 1..Len(q) : i # s => t[i] = q[i]

LEMMA Turns ==
    ASSUME NEW q \in Seq(Socket), NEW s \in 1..Len(q), NEW r, NEW t,
           r.copy = q[s].copy, r \in Socket, t = [q EXCEPT ![s] = r]
    PROVE  Turned(t, q, s, r.client, r.server, r.up, r.down)
  <1>1. t \in Seq(Socket) /\ Len(t) = Len(q) /\ t[s] = r /\ \A i \in 1..Len(q) : i # s => t[i] = q[i]
    OBVIOUS
  <1> QED BY <1>1 DEF Turned

LEMMA QueueFacts ==
    ASSUME NEW S, NEW q \in Seq(S), q # << >>
    PROVE  /\ Head(q) \in S /\ Head(q) = q[1] /\ 1 \in 1..Len(q) /\ Tail(q) \in Seq(S)
           /\ Len(Tail(q)) = Len(q) - 1 /\ Len(q) \in Nat \ {0}
           /\ \A i \in 1..Len(Tail(q)) : i + 1 \in 1..Len(q) /\ Tail(q)[i] = q[i + 1]
  OBVIOUS

LEMMA JoinFacts ==
    ASSUME NEW S, NEW q \in Seq(S), NEW r \in Seq(S)
    PROVE  /\ q \o r \in Seq(S) /\ Len(q \o r) = Len(q) + Len(r) /\ Len(q) \in Nat /\ Len(r) \in Nat
           /\ \A i \in 1..Len(q) : i \in 1..Len(q \o r) /\ (q \o r)[i] = q[i]
           /\ \A i \in 1..Len(r) : Len(q) + i \in 1..Len(q \o r) /\ (q \o r)[Len(q) + i] = r[i]
           /\ \A i \in 1..Len(q \o r) : \/ i \in 1..Len(q) /\ (q \o r)[i] = q[i]
                                        \/ i - Len(q) \in 1..Len(r) /\ (q \o r)[i] = r[i - Len(q)]
  <1>1. /\ q \o r \in Seq(S) /\ Len(q \o r) = Len(q) + Len(r) /\ Len(q) \in Nat /\ Len(r) \in Nat
        /\ \A i \in 1..(Len(q) + Len(r)) : (q \o r)[i] = IF i <= Len(q) THEN q[i] ELSE r[i - Len(q)]
    OBVIOUS
  <1> QED BY <1>1

LEMMA AppendFacts ==
    ASSUME NEW S, NEW q \in Seq(S), NEW e \in S
    PROVE  /\ Append(q, e) \in Seq(S) /\ Len(Append(q, e)) = Len(q) + 1 /\ Len(q) \in Nat
           /\ Append(q, e)[Len(q) + 1] = e
           /\ \A i \in 1..Len(q) : i \in 1..Len(Append(q, e)) /\ Append(q, e)[i] = q[i]
           /\ \A i \in 1..Len(Append(q, e)) : \/ i \in 1..Len(q) /\ Append(q, e)[i] = q[i]
                                              \/ i = Len(q) + 1 /\ Append(q, e)[i] = e
  OBVIOUS

-----------------------------------------------------------------------------
(***************************************************************************)
(* What the steps that write to a socket do.                               *)
(***************************************************************************)
LEMMA WireType ==
    ASSUME NEW s, NEW frames \in Seq(Frame)
    PROVE  wire(s, frames) \in Seq(Frame)
  BY DEF wire

\* transportSend with the frame it adds, the backlog and what the cap leaves
\* of it.
Sends(frame, all, kept) ==
    /\ frame.seq = (IF session THEN nextSeq + 1 ELSE 0)
    /\ all = Append(outbound, frame) /\ kept = capped(all)
    /\ discarded' = discarded \cup (Numbers(all) \ Numbers(kept))
    /\ ~isOpen => outbound' = kept /\ UNCHANGED <<sock, sentUpTo, raced>>
    /\ isOpen =>
          /\ socket \in 1..Len(sock)
          /\ Turned(sock', sock, socket, sock[socket].client, sock[socket].server,
                    sock[socket].up \o wire(socket, toWrite(kept, session, sentUpTo)),
                    sock[socket].down)
          /\ outbound' = toKeep(kept, session)
          /\ sentUpTo' = writtenUpTo(kept, session, sentUpTo)
          /\ raced' = (raced \/ (session /\ awaitsHandOff))

LEMMA SendFacts ==
    ASSUME TypeOK, nextSeq <= sent, NEW beat \in BOOLEAN, TransportSend(beat)
    PROVE  /\ sent \in Nat /\ nextSeq \in Nat /\ sent < MaxFrames /\ sent' = sent + 1
           /\ nextSeq' = (IF session THEN nextSeq + 1 ELSE nextSeq)
           /\ UNCHANGED <<box, session, spent, socket, attempts, closed, cursors, dials, restarts,
                          applied, reached>>
           /\ \E frame \in Frame, all, kept \in Seq(Frame) : Sends(frame, all, kept)
  <1>1. /\ sent \in Nat /\ nextSeq \in Nat /\ sent < MaxFrames /\ sent' = sent + 1
        /\ nextSeq' = (IF session THEN nextSeq + 1 ELSE nextSeq)
        /\ UNCHANGED <<box, session, spent, socket, attempts, closed, cursors, dials, restarts,
                       applied, reached>>
    BY DEF TransportSend, TypeOK, Number, bounds
  <1> DEFINE full == [seq |-> nextSeq', beat |-> beat]
             frame == IF session THEN full ELSE [full EXCEPT !.seq = 0]
             all == Append(outbound, frame)
             kept == capped(all)
             out == wire(socket, toWrite(kept, session, sentUpTo))
  <1>2. /\ discarded' = discarded \cup (Numbers(all) \ Numbers(kept))
        /\ isOpen => /\ sock' = [sock EXCEPT ![socket].up = @ \o out]
                     /\ outbound' = toKeep(kept, session)
                     /\ sentUpTo' = writtenUpTo(kept, session, sentUpTo)
                     /\ raced' = (raced \/ (session /\ awaitsHandOff))
        /\ ~isOpen => outbound' = kept /\ UNCHANGED <<sock, sentUpTo, raced>>
    BY DEF TransportSend
  <1>3. frame \in Frame /\ frame.seq = IF session THEN nextSeq + 1 ELSE 0
    <2>0. 0 \in Number /\ nextSeq + 1 \in Number
      BY <1>1, TransportAssumption DEF Number
    <2>1. CASE session
      BY <1>1, <2>0, <2>1 DEF Frame
    <2>2. CASE ~session
      BY <1>1, <2>0, <2>2 DEF Frame
    <2> QED BY <2>1, <2>2
  <1> HIDE DEF frame
  <1>4. outbound \in Seq(Frame) /\ all \in Seq(Frame)
    BY <1>3, AppendFacts DEF TypeOK
  <1> HIDE DEF all
  <1>5. kept \in Seq(Frame)
    BY <1>4, CappedFacts DEF Thins
  <1> HIDE DEF kept
  <1>6. out \in Seq(Frame)
    BY <1>5, WriteFacts, WireType DEF Thins
  <1> HIDE DEF out
  <1>7. ASSUME isOpen
        PROVE  /\ socket \in 1..Len(sock)
               /\ Turned(sock', sock, socket, sock[socket].client, sock[socket].server,
                         sock[socket].up \o out, sock[socket].down)
    <2>1. sock \in Seq(Socket) /\ socket \in 1..Len(sock)
      BY <1>7 DEF isOpen, TypeOK
    <2>2. sock[socket] \in Socket /\ sock[socket].up \in Seq(Frame)
      BY <2>1, SocketTypes
    <2>3. sock[socket].up \o out \in Seq(Frame)
      BY <1>6, <2>2
    <2> DEFINE r == [sock[socket] EXCEPT !.up = sock[socket].up \o out]
    <2>4. /\ r \in Socket /\ r.copy = sock[socket].copy /\ r.client = sock[socket].client
          /\ r.server = sock[socket].server /\ r.down = sock[socket].down
          /\ r.up = sock[socket].up \o out
      BY <2>2, <2>3 DEF Socket
    <2>5. sock' = [sock EXCEPT ![socket] = r]
      BY <1>2, <1>7, <2>1
    <2> HIDE DEF r
    <2>6. PICK t : t = sock'
      OBVIOUS
    <2>7. Turned(t, sock, socket, r.client, r.server, r.up, r.down)
      BY <2>1, <2>4, <2>5, <2>6, Turns
    <2> QED BY <2>1, <2>4, <2>6, <2>7
  <1>8. Sends(frame, all, kept)
    BY <1>2, <1>3, <1>7 DEF Sends, all, kept, out
  <1> QED BY <1>1, <1>3, <1>4, <1>5, <1>8

\* A read with the item it takes, the backlog after its ack, the write cursor
\* and what it writes.
Reads(item, kept, upTo, out) ==
    LET held == session \/ item.kind = "session"
    IN /\ item = sock[socket].down[1] /\ sock[socket].down # << >>
       /\ kept = (IF item.kind = "open" THEN outbound ELSE acknowledge(outbound, item.ack))
       /\ upTo = (IF item.kind = "session" THEN item.ack ELSE sentUpTo)
       /\ out = (IF flushesOn(item.kind) THEN wire(socket, toWrite(kept, held, upTo)) ELSE << >>)
       /\ session' = held
       /\ outbound' = (IF flushesOn(item.kind) THEN toKeep(kept, held) ELSE kept)
       /\ sentUpTo' = (IF flushesOn(item.kind) THEN writtenUpTo(kept, held, upTo) ELSE upTo)
       /\ Turned(sock', sock, socket, "open", sock[socket].server, sock[socket].up \o out,
                 Tail(sock[socket].down))

LEMMA ReadFacts ==
    ASSUME TypeOK, ClientReads
    PROVE  /\ socket \in 1..Len(sock)
           /\ attempts' \in {0, attempts}
           /\ UNCHANGED <<box, spent, nextSeq, sent, socket, closed, cursors, dials, restarts,
                          applied, reached, discarded, raced>>
           /\ \E item \in Item, kept \in Seq(Frame), upTo \in Nat, out \in Seq(Frame) :
                 Reads(item, kept, upTo, out)
  <1>1. /\ socket \in 1..Len(sock) /\ attempts' \in {0, attempts}
        /\ UNCHANGED <<box, spent, nextSeq, sent, socket, closed, cursors, dials, restarts,
                       applied, reached, discarded, raced>>
    <2>1. socket # 0 /\ socket \in 0..Len(sock) /\ sock \in Seq(Socket)
      BY Zenon DEF ClientReads, TypeOK
    <2>2. /\ attempts' \in {0, attempts}
          /\ UNCHANGED <<box, spent, nextSeq, sent, socket, closed, cursors, bounds, history>>
      BY Zenon DEF ClientReads
    <2> QED BY <2>1, <2>2 DEF bounds, history
  <1> DEFINE item == Head(sock[socket].down)
             held == session \/ item.kind = "session"
             kept == IF item.kind = "open" THEN outbound ELSE acknowledge(outbound, item.ack)
             upTo == IF item.kind = "session" THEN item.ack ELSE sentUpTo
             out == IF flushesOn(item.kind) THEN wire(socket, toWrite(kept, held, upTo)) ELSE << >>
  <1>2. /\ sock[socket].down # << >>
        /\ session' = held
        /\ outbound' = (IF flushesOn(item.kind) THEN toKeep(kept, held) ELSE kept)
        /\ sentUpTo' = (IF flushesOn(item.kind) THEN writtenUpTo(kept, held, upTo) ELSE upTo)
        /\ sock' = [sock EXCEPT ![socket].down = Tail(@), ![socket].client = "open",
                       ![socket].up = IF flushesOn(item.kind) THEN @ \o wire(socket, toWrite(kept, held, upTo)) ELSE @]
    BY Zenon DEF ClientReads, cursorAfterHandOff
  <1>3. /\ sock \in Seq(Socket) /\ sock[socket] \in Socket /\ sock[socket].down \in Seq(Item)
        /\ sock[socket].up \in Seq(Frame) /\ outbound \in Seq(Frame)
    BY <1>1, SocketTypes DEF TypeOK
  <1>4. item \in Item /\ item = sock[socket].down[1] /\ Tail(sock[socket].down) \in Seq(Item)
    BY <1>2, <1>3, QueueFacts
  <1>5. item.ack \in Nat /\ upTo \in Nat
    <2>1. item.ack \in Nat
      BY <1>4 DEF Item, Number
    <2>2. sentUpTo \in Nat
      BY DEF TypeOK, Number
    <2> QED BY <2>1, <2>2
  <1>9. out = IF flushesOn(item.kind) THEN wire(socket, toWrite(kept, held, upTo)) ELSE << >>
    OBVIOUS
  <1>10. /\ kept = (IF item.kind = "open" THEN outbound ELSE acknowledge(outbound, item.ack))
         /\ upTo = (IF item.kind = "session" THEN item.ack ELSE sentUpTo)
    OBVIOUS
  <1> HIDE DEF item, upTo
  <1>6. kept \in Seq(Frame)
    BY <1>3, <1>5, AcknowledgeFacts DEF Thins
  <1> HIDE DEF kept, held
  <1>7. out \in Seq(Frame)
    <2>1. wire(socket, toWrite(kept, held, upTo)) \in Seq(Frame)
      BY <1>6, WriteFacts, WireType DEF Thins
    <2> QED BY <2>1
  <1>8. Turned(sock', sock, socket, "open", sock[socket].server, sock[socket].up \o out,
                 Tail(sock[socket].down))
    <2> DEFINE r == [sock[socket] EXCEPT !.down = Tail(sock[socket].down), !.client = "open",
                                         !.up = sock[socket].up \o out]
    <2>a. sock[socket].up \o out = IF flushesOn(item.kind) THEN sock[socket].up \o wire(socket, toWrite(kept, held, upTo)) ELSE sock[socket].up
      <3>1. CASE flushesOn(item.kind)
        BY <3>1
      <3>2. CASE ~flushesOn(item.kind)
        BY <1>3, <3>2, ConcatEmptySeq
      <3> QED BY <3>1, <3>2
    <2>5. sock' = [sock EXCEPT ![socket] = r]
      BY <1>1, <1>2, <1>3, <2>a
    <2> HIDE DEF out
    <2>3. sock[socket].up \o out \in Seq(Frame)
      BY <1>3, <1>7
    <2>4. /\ r \in Socket /\ r.copy = sock[socket].copy /\ r.client = "open"
          /\ r.server = sock[socket].server /\ r.down = Tail(sock[socket].down)
          /\ r.up = sock[socket].up \o out
      BY <1>3, <1>4, <2>3 DEF Socket
    <2> HIDE DEF r
    <2>6. PICK t : t = sock'
      OBVIOUS
    <2>7. Turned(t, sock, socket, r.client, r.server, r.up, r.down)
      BY <1>1, <1>3, <2>4, <2>5, <2>6, Turns
    <2> QED BY <2>4, <2>6, <2>7
  <1> HIDE DEF out
  <1>11. Reads(item, kept, upTo, out)
    BY <1>2, <1>4, <1>8, <1>9, <1>10, Zenon DEF Reads, held
  <1> QED BY <1>1, <1>4, <1>5, <1>6, <1>7, <1>11

-----------------------------------------------------------------------------
(***************************************************************************)
(* What the other steps do to the sockets.                                 *)
(***************************************************************************)
LEMMA NoneQueued == << >> \in Seq(Frame) /\ << >> \in Seq(Item)
  OBVIOUS

LEMMA DropFacts ==
    ASSUME TypeOK, socket # 0, Drop
    PROVE  /\ socket \in 1..Len(sock) /\ socket' = 0
           /\ Turned(sock', sock, socket, "gone", sock[socket].server, sock[socket].up, << >>)
  <1>1. socket \in 1..Len(sock) /\ sock \in Seq(Socket)
    BY DEF TypeOK
  <1>2. sock[socket] \in Socket
    BY <1>1, SocketTypes
  <1> DEFINE r == [sock[socket] EXCEPT !.client = "gone", !.down = << >>]
  <1>3. /\ r \in Socket /\ r.copy = sock[socket].copy /\ r.client = "gone"
        /\ r.server = sock[socket].server /\ r.down = << >> /\ r.up = sock[socket].up
    BY <1>2, NoneQueued DEF Socket
  <1>4. sock' = [sock EXCEPT ![socket] = r] /\ socket' = 0
    BY <1>1, <1>2 DEF Drop
  <1> HIDE DEF r
  <1>5. PICK t : t = sock'
    OBVIOUS
  <1>6. Turned(t, sock, socket, r.client, r.server, r.up, r.down)
    BY <1>1, <1>3, <1>4, <1>5, Turns
  <1> QED BY <1>1, <1>3, <1>4, <1>5, <1>6

LEMMA ServerDropFacts ==
    ASSUME TypeOK, NEW s \in Dialled, ServerDrops(s)
    PROVE  /\ s \in 1..Len(sock)
           /\ Turned(sock', sock, s, sock[s].client, "closed", << >>, sock[s].down)
  <1>1. s \in 1..Len(sock) /\ sock \in Seq(Socket)
    BY DEF TypeOK, Dialled
  <1>2. sock[s] \in Socket
    BY <1>1, SocketTypes
  <1> DEFINE r == [sock[s] EXCEPT !.server = "closed", !.up = << >>]
  <1>3. /\ r \in Socket /\ r.copy = sock[s].copy /\ r.client = sock[s].client
        /\ r.server = "closed" /\ r.down = sock[s].down /\ r.up = << >>
    BY <1>2, NoneQueued DEF Socket
  <1>4. sock' = [sock EXCEPT ![s] = r]
    BY <1>1, <1>2 DEF ServerDrops
  <1> HIDE DEF r
  <1>5. PICK t : t = sock'
    OBVIOUS
  <1>6. Turned(t, sock, s, r.client, r.server, r.up, r.down)
    BY <1>1, <1>3, <1>4, <1>5, Turns
  <1> QED BY <1>1, <1>3, <1>5, <1>6

LEMMA CursorType ==
    ASSUME TypeOK, NEW c \in Copy
    PROVE  cursorFor(c) \in Number /\ cursorFor(c) \in Nat
  <1>1. \A m \in Mark : m.seq \in Number
    BY DEF Mark
  <1>2. cursors[c].seq \in Number /\ 0 \in Number
    BY <1>1, TransportAssumption DEF TypeOK, Number
  <1> QED BY <1>2 DEF cursorFor, Number

\* The answer to an upgrade.
Answer(ack) == <<[kind |-> "open", ack |-> 0], [kind |-> "session", ack |-> ack]>>

LEMMA AttachFacts ==
    ASSUME TypeOK, NEW s \in Dialled, Attach(s)
    PROVE  /\ s \in 1..Len(sock) /\ s = socket /\ sock[s].client = "dialling" /\ sock[s].server = "none"
           /\ sock[s].copy \in Copy /\ spent' = TRUE
           /\ Turned(sock', sock, s, "dialling", "open", sock[s].up, Answer(cursorFor(sock[s].copy)))
           /\ cursors' \in [Copy -> Mark]
           /\ cursors'[sock[s].copy].box = box /\ cursors'[sock[s].copy].seq = cursorFor(sock[s].copy)
           /\ \A c \in Copy : c # sock[s].copy => cursors'[c] = cursors[c]
  <1>1. s \in 1..Len(sock) /\ sock \in Seq(Socket) /\ s = socket /\ spent' = TRUE
        /\ sock[s].client = "dialling" /\ sock[s].server = "none"
    BY DEF TypeOK, Dialled, Attach
  <1>2. sock[s] \in Socket /\ sock[s].copy \in Copy
    BY <1>1, SocketTypes
  <1>3. cursorFor(sock[s].copy) \in Number
    BY <1>2, CursorType
  <1>a. PICK ack \in Number : ack = cursorFor(sock[s].copy)
    BY <1>3
  <1>4. Answer(ack) \in Seq(Item)
    <2>1. [kind |-> "open", ack |-> 0] \in Item /\ [kind |-> "session", ack |-> ack] \in Item
      BY TransportAssumption DEF Item, Number
    <2> QED BY <2>1 DEF Answer
  <1>5. /\ cursors' = [cursors EXCEPT ![sock[s].copy] = [box |-> box, seq |-> ack]]
        /\ sock' = [sock EXCEPT ![s].server = "open", ![s].down = Answer(ack)]
    BY <1>a DEF Attach, Answer
  <1>6. [box |-> box, seq |-> ack] \in Mark /\ cursors \in [Copy -> Mark]
    BY DEF Mark, TypeOK
  <1>7. /\ cursors' \in [Copy -> Mark] /\ cursors'[sock[s].copy] = [box |-> box, seq |-> ack]
        /\ \A c \in Copy : c # sock[s].copy => cursors'[c] = cursors[c]
    BY <1>2, <1>5, <1>6
  <1> DEFINE r == [sock[s] EXCEPT !.server = "open", !.down = Answer(ack)]
  <1>8. /\ r \in Socket /\ r.copy = sock[s].copy /\ r.client = sock[s].client
        /\ r.server = "open" /\ r.down = Answer(ack) /\ r.up = sock[s].up
    BY <1>2, <1>4 DEF Socket
  <1>9. sock' = [sock EXCEPT ![s] = r]
    BY <1>1, <1>2, <1>5
  <1> HIDE DEF r
  <1>10. PICK t : t = sock'
    OBVIOUS
  <1>11. Turned(t, sock, s, r.client, r.server, r.up, r.down)
    BY <1>1, <1>8, <1>9, <1>10, Turns
  <1> QED BY <1>1, <1>2, <1>a, <1>7, <1>8, <1>10, <1>11

\* onFrame with the copy, the number and the cursor after it.
Takes(s, c, seq, upTo) ==
    LET fresh == seq > cursorFor(c)
        answer == IF seq = 0 \/ sock[s].client = "gone" THEN sock[s].down
                  ELSE Append(sock[s].down, [kind |-> "ack", ack |-> upTo])
    IN /\ c = sock[s].copy /\ seq = sock[s].up[1].seq
       /\ upTo = (IF fresh THEN seq ELSE cursorFor(c))
       /\ Turned(sock', sock, s, sock[s].client, "open", Tail(sock[s].up), answer)
       /\ seq = 0 => UNCHANGED <<cursors, applied, reached>>
       /\ seq # 0 =>
             /\ cursors'[c].box = box /\ cursors'[c].seq = upTo
             /\ \A d \in Copy : d # c => cursors'[d] = cursors[d]
             /\ applied' = IF fresh THEN [applied EXCEPT ![c] = Append(@, seq)] ELSE applied
             /\ reached' = IF fresh THEN reached \cup {seq} ELSE reached

LEMMA FrameFacts ==
    ASSUME TypeOK, NEW s \in Dialled, OnFrame(s)
    PROVE  /\ s \in 1..Len(sock) /\ sock[s].server = "open" /\ sock[s].up # << >>
           /\ cursors' \in [Copy -> Mark]
           /\ UNCHANGED <<box, supervisor, bounds, discarded, raced>>
           /\ \E c \in Copy, seq \in Number, upTo \in Number : Takes(s, c, seq, upTo)
  <1>1. s \in 1..Len(sock) /\ sock \in Seq(Socket) /\ sock[s].server = "open" /\ sock[s].up # << >>
        /\ UNCHANGED <<box, supervisor, bounds, discarded, raced>>
    BY DEF TypeOK, Dialled, OnFrame
  <1>2. sock[s] \in Socket /\ sock[s].copy \in Copy /\ sock[s].up \in Seq(Frame)
        /\ sock[s].down \in Seq(Item)
    BY <1>1, SocketTypes
  <1>3. /\ Head(sock[s].up) \in Frame /\ Head(sock[s].up) = sock[s].up[1]
        /\ Tail(sock[s].up) \in Seq(Frame)
    BY <1>1, <1>2, QueueFacts
  <1>4. PICK c \in Copy : c = sock[s].copy
    BY <1>2
  <1>5. PICK seq \in Number : seq = Head(sock[s].up).seq
    BY <1>3 DEF Frame
  <1>6. cursorFor(c) \in Number
    BY CursorType
  <1>7. PICK upTo \in Number : upTo = IF seq > cursorFor(c) THEN seq ELSE cursorFor(c)
    BY <1>6
  <1> DEFINE fresh == seq > cursorFor(c)
             answer == IF seq = 0 \/ sock[s].client = "gone" THEN sock[s].down
                       ELSE Append(sock[s].down, [kind |-> "ack", ack |-> upTo])
             r == [sock[s] EXCEPT !.up = Tail(sock[s].up), !.down = answer]
  <1>8. answer \in Seq(Item)
    <2>1. [kind |-> "ack", ack |-> upTo] \in Item
      BY DEF Item
    <2> QED BY <1>2, <2>1
  <1>9. /\ seq = 0 => sock' = [sock EXCEPT ![s].up = Tail(@)] /\ UNCHANGED <<cursors, applied, reached>>
        /\ seq # 0 =>
             /\ cursors' = [cursors EXCEPT ![c] = [box |-> box, seq |-> upTo]]
             /\ applied' = IF fresh THEN [applied EXCEPT ![c] = Append(@, seq)] ELSE applied
             /\ reached' = IF fresh THEN reached \cup {seq} ELSE reached
             /\ sock' = [sock EXCEPT ![s].up = Tail(@),
                             ![s].down = IF sock[s].client = "gone" THEN @
                                         ELSE Append(@, [kind |-> "ack", ack |-> upTo])]
    BY <1>4, <1>5, <1>7 DEF OnFrame, isNew
  <1>10. sock' = [sock EXCEPT ![s] = r]
    <2>1. CASE seq = 0
      BY <1>1, <1>2, <1>9, <2>1 DEF Socket
    <2>2. CASE seq # 0
      BY <1>1, <1>2, <1>9, <2>2 DEF Socket
    <2> QED BY <2>1, <2>2
  <1> HIDE DEF answer, fresh
  <1>11. /\ r \in Socket /\ r.copy = sock[s].copy /\ r.client = sock[s].client
         /\ r.server = sock[s].server /\ r.down = answer /\ r.up = Tail(sock[s].up)
    BY <1>2, <1>3, <1>8 DEF Socket
  <1> HIDE DEF r
  <1>12. PICK t : t = sock'
    OBVIOUS
  <1>13. Turned(t, sock, s, r.client, r.server, r.up, r.down)
    BY <1>1, <1>10, <1>11, <1>12, Turns
  <1>14. Turned(sock', sock, s, sock[s].client, "open", Tail(sock[s].up), answer)
    BY <1>1, <1>11, <1>12, <1>13
  <1>15. [box |-> box, seq |-> upTo] \in Mark /\ cursors \in [Copy -> Mark]
    BY DEF Mark, TypeOK
  <1>16. /\ cursors' \in [Copy -> Mark]
         /\ seq # 0 => /\ cursors'[c] = [box |-> box, seq |-> upTo]
                       /\ \A d \in Copy : d # c => cursors'[d] = cursors[d]
    BY <1>9, <1>15
  <1>17. Takes(s, c, seq, upTo)
    BY <1>3, <1>4, <1>5, <1>7, <1>9, <1>14, <1>16 DEF Takes, fresh, answer
  <1> QED BY <1>1, <1>16, <1>17

LEMMA ConnectFacts ==
    ASSUME TypeOK, NEW c \in Copy, Connect(c)
    PROVE  /\ socket = 0 /\ sock' \in Seq(Socket) /\ Len(sock') = Len(sock) + 1 /\ socket' = Len(sock) + 1
           /\ Len(sock) \in Nat
           /\ \A i \in 1..Len(sock') :
                 \/ i \in 1..Len(sock) /\ sock'[i] = sock[i]
                 \/ /\ i = Len(sock) + 1
                    /\ sock'[i] = [copy |-> c, client |-> "dialling", server |-> "none", up |-> << >>,
                                   down |-> << >>]
  <1> DEFINE e == [copy |-> c, client |-> "dialling", server |-> "none", up |-> << >>, down |-> << >>]
  <1>1. e \in Socket
    BY DEF Socket
  <1>2. socket = 0 /\ sock' = Append(sock, e) /\ socket' = Len(sock) + 1 /\ sock \in Seq(Socket)
    BY DEF Connect, TypeOK
  <1> HIDE DEF e
  <1>3. /\ Append(sock, e) \in Seq(Socket) /\ Len(Append(sock, e)) = Len(sock) + 1 /\ Len(sock) \in Nat
        /\ \A i \in 1..Len(Append(sock, e)) : \/ i \in 1..Len(sock) /\ Append(sock, e)[i] = sock[i]
                                              \/ i = Len(sock) + 1 /\ Append(sock, e)[i] = e
    BY <1>1, <1>2, AppendFacts
  <1>4. \A i \in 1..Len(sock') : \/ i \in 1..Len(sock) /\ sock'[i] = sock[i]
                                 \/ i = Len(sock) + 1 /\ sock'[i] = e
    BY <1>2, <1>3
  <1> QED BY <1>2, <1>3, <1>4 DEF e

LEMMA RestartFacts ==
    ASSUME TypeOK, NEW c \in Copy, CopyRestarts(c)
    PROVE  /\ sock' \in Seq(Socket) /\ Len(sock') = Len(sock)
           /\ \A i \in 1..Len(sock) :
                 \/ sock'[i] = sock[i]
                 \/ /\ sock'[i].copy = sock[i].copy /\ sock'[i].client = sock[i].client
                    /\ sock'[i].down = sock[i].down
                    /\ sock'[i].server = "closed" /\ sock'[i].up = << >>
           /\ cursors' \in [Copy -> Mark] /\ cursors'[c].box = cursors[c].box /\ cursors'[c].seq = 0
           /\ \A d \in Copy : d # c => cursors'[d] = cursors[d]
  <1>1. /\ sock \in Seq(Socket) /\ Len(sock) \in Nat /\ Dialled = 1..Len(sock)
        /\ \A i \in 1..Len(sock) : sock[i] \in Socket
    BY SocketTypes DEF TypeOK, Dialled
  <1> DEFINE n(i) == [sock[i] EXCEPT !.server = "closed", !.up = << >>]
  <1>2. sock' = [s \in 1..Len(sock) |-> IF sock[s].copy = c /\ sock[s].server = "open" THEN n(s) ELSE sock[s]]
    BY <1>1 DEF CopyRestarts
  <1>3. \A i \in 1..Len(sock) : /\ n(i) \in Socket /\ n(i).copy = sock[i].copy /\ n(i).client = sock[i].client
                                /\ n(i).down = sock[i].down /\ n(i).server = "closed" /\ n(i).up = << >>
    BY <1>1, NoneQueued DEF Socket
  <1> HIDE DEF n
  <1>4. \A i \in 1..Len(sock) : sock'[i] = sock[i] \/ sock'[i] = n(i)
    BY <1>2
  <1>5. sock' \in [1..Len(sock) -> Socket]
    BY <1>1, <1>2, <1>3
  <1>6. sock' \in Seq(Socket) /\ Len(sock') = Len(sock)
    BY <1>1, <1>5
  <1>7. cursors \in [Copy -> Mark] /\ cursors' = [cursors EXCEPT ![c].seq = 0]
    BY DEF TypeOK, CopyRestarts
  <1>8. cursors[c] \in Mark /\ 0 \in Number
    BY <1>7, TransportAssumption DEF Number
  <1>9. [cursors[c] EXCEPT !.seq = 0] \in Mark /\ [cursors[c] EXCEPT !.seq = 0].box = cursors[c].box
        /\ [cursors[c] EXCEPT !.seq = 0].seq = 0
    BY <1>8 DEF Mark
  <1>10. /\ cursors' \in [Copy -> Mark] /\ cursors'[c] = [cursors[c] EXCEPT !.seq = 0]
         /\ \A d \in Copy : d # c => cursors'[d] = cursors[d]
    BY <1>7, <1>8, <1>9
  <1> QED BY <1>3, <1>4, <1>6, <1>9, <1>10

-----------------------------------------------------------------------------
(***************************************************************************)
(* Types.                                                                  *)
(***************************************************************************)
\* The numbers a supervisor gives are counted by the frames it produced.
TypeInv == TypeOK /\ nextSeq <= sent

LEMMA WrittenType ==
    ASSUME NEW s \in Seq(Frame), NEW held, NEW upTo \in Number
    PROVE  writtenUpTo(s, held, upTo) \in Number
  <1>1. \A f \in Frame : f.seq \in Number
    BY DEF Frame
  <1>2. CASE s = << >>
    BY <1>2 DEF writtenUpTo
  <1>3. CASE s # << >>
    <2>1. Len(s) \in 1..Len(s)
      BY <1>3
    <2>2. s[Len(s)].seq \in Number
      BY <1>1, <2>1
    <2> QED BY <2>2 DEF writtenUpTo
  <1> QED BY <1>2, <1>3

LEMMA NumbersFacts ==
    ASSUME NEW s \in Seq(Frame)
    PROVE  /\ Numbers(s) \subseteq Number
           /\ \A i \in 1..Len(s) : s[i].seq \in Numbers(s)
           /\ \A n \in Numbers(s) : \E i \in 1..Len(s) : s[i].seq = n
  <1>1. \A f \in Frame : f.seq \in Number
    BY DEF Frame
  <1>2. DOMAIN s = 1..Len(s) /\ \A i \in 1..Len(s) : s[i] \in Frame
    OBVIOUS
  <1>3. \A i \in 1..Len(s) : s[i].seq \in Number
    BY <1>1, <1>2
  <1> QED BY <1>2, <1>3 DEF Numbers

\* The parts of the type invariant.
Flags == {session, spent, closed, raced} \subseteq BOOLEAN

Counted ==
    /\ box \in 1..MaxContainers /\ {nextSeq, sentUpTo, sent} \subseteq Number
    /\ attempts \in 0..DEFAULT_MAX_ATTEMPTS /\ restarts \in 0..MaxRestarts
    /\ nextSeq <= sent

Queues ==
    /\ outbound \in Seq(Frame) /\ Len(outbound) <= MAX_OUTBOUND_MESSAGES
    /\ sock \in Seq(Socket) /\ Len(sock) <= dials /\ dials \in 0..MaxSockets
    /\ socket \in 0..Len(sock)

Marked ==
    /\ cursors \in [Copy -> Mark] /\ applied \in [Copy -> Seq(Number)]
    /\ reached \cup discarded \subseteq Number

LEMMA TypeParts == TypeInv <=> Flags /\ Counted /\ Queues /\ Marked
  BY DEF TypeInv, TypeOK, Flags, Counted, Queues, Marked

LEMMA TypeInit == Init => TypeInv
  <1> SUFFICES ASSUME Init PROVE TypeInv
    OBVIOUS
  <1>1. Flags
    BY Zenon DEF Init, Booted, Flags
  <1>2. Counted /\ Queues
    BY NoneQueued, TransportAssumption DEF Init, Booted, Counted, Queues, Number
  <1>3. Marked
    BY TransportAssumption DEF Init, Marked, Mark, Number
  <1> QED BY <1>1, <1>2, <1>3, TypeParts

LEMMA TypeSend ==
    ASSUME TypeInv, NEW beat \in BOOLEAN, TransportSend(beat)
    PROVE  TypeInv'
  <1>0. TypeOK /\ nextSeq <= sent /\ Flags /\ Counted /\ Queues /\ Marked
    BY TypeParts DEF TypeInv
  <1>1. /\ sent \in Nat /\ nextSeq \in Nat /\ sent < MaxFrames /\ sent' = sent + 1
        /\ nextSeq' = (IF session THEN nextSeq + 1 ELSE nextSeq)
        /\ UNCHANGED <<box, session, spent, socket, attempts, closed, cursors, dials, restarts,
                       applied, reached>>
    BY <1>0, SendFacts
  <1>2. PICK frame \in Frame, all \in Seq(Frame), kept \in Seq(Frame) : Sends(frame, all, kept)
    BY <1>0, SendFacts
  <1>3. raced' = raced \/ raced' = (raced \/ (session /\ awaitsHandOff))
    BY <1>2 DEF Sends
  <1>4. Flags'
    BY <1>0, <1>1, <1>3, Zenon DEF Flags
  <1>5. kept = capped(all) /\ Len(kept) <= MAX_OUTBOUND_MESSAGES
    BY <1>2, CappedFacts DEF Sends
  <1>6. /\ outbound' \in Seq(Frame) /\ Len(outbound') <= MAX_OUTBOUND_MESSAGES
        /\ sentUpTo' \in Number
    <2>0. sentUpTo \in Number
      BY <1>0 DEF Counted
    <2>1. toKeep(kept, session) \in Seq(Frame) /\ Len(toKeep(kept, session)) <= Len(kept)
      BY KeepFacts DEF Thins
    <2>2. writtenUpTo(kept, session, sentUpTo) \in Number
      BY <2>0, WrittenType
    <2>3. Len(toKeep(kept, session)) <= MAX_OUTBOUND_MESSAGES
      BY <1>5, <2>1, TransportAssumption
    <2> QED BY <1>2, <1>5, <2>0, <2>1, <2>2, <2>3 DEF Sends
  <1>7. sock' \in Seq(Socket) /\ Len(sock') = Len(sock)
    BY <1>0, <1>2 DEF Sends, Turned, Queues
  <1>8. Queues'
    BY <1>0, <1>1, <1>6, <1>7 DEF Queues
  <1>9. Counted'
    <2>1. nextSeq' \in Number /\ sent' \in Number /\ nextSeq' <= sent'
      BY <1>0, <1>1, TransportAssumption DEF Number
    <2> QED BY <1>0, <1>1, <1>6, <2>1 DEF Counted
  <1>10. Numbers(all) \subseteq Number
    BY NumbersFacts
  <1>11. Marked'
    BY <1>0, <1>1, <1>2, <1>10 DEF Marked, Sends
  <1> QED BY <1>4, <1>8, <1>9, <1>11, TypeParts DEF TypeInv, TypeOK, Flags, Counted, Queues, Marked

LEMMA TypeRead ==
    ASSUME TypeInv, ClientReads
    PROVE  TypeInv'
  <1>0. TypeOK /\ nextSeq <= sent /\ Flags /\ Counted /\ Queues /\ Marked
    BY TypeParts DEF TypeInv
  <1>1. /\ socket \in 1..Len(sock)
        /\ attempts' \in {0, attempts}
        /\ UNCHANGED <<box, spent, nextSeq, sent, socket, closed, cursors, dials, restarts,
                       applied, reached, discarded, raced>>
    BY <1>0, ReadFacts
  <1>2. PICK item \in Item, kept \in Seq(Frame), upTo \in Nat, out \in Seq(Frame) :
                 Reads(item, kept, upTo, out)
    BY <1>0, ReadFacts
  <1>3. session' = (session \/ item.kind = "session")
    BY <1>2 DEF Reads
  <1>4. Flags'
    BY <1>0, <1>1, <1>3, Zenon DEF Flags
  <1>5. outbound \in Seq(Frame) /\ item.ack \in Nat /\ upTo \in Number
    BY <1>0, <1>2 DEF Queues, Counted, Item, Number, Reads
  <1>6. Len(kept) <= Len(outbound)
    <2>1. Len(acknowledge(outbound, item.ack)) <= Len(outbound)
      BY <1>5, AcknowledgeFacts DEF Thins
    <2>2. kept = outbound \/ kept = acknowledge(outbound, item.ack)
      BY <1>2 DEF Reads
    <2> QED BY <1>5, <2>1, <2>2
  <1>7. PICK held : held = (session \/ item.kind = "session")
    OBVIOUS
  <1>8. /\ outbound' \in {kept, toKeep(kept, held)}
        /\ sentUpTo' \in {upTo, writtenUpTo(kept, held, upTo)}
        /\ sock' \in Seq(Socket) /\ Len(sock') = Len(sock)
    BY <1>2, <1>7, Zenon DEF Reads, Turned
  <1>9. toKeep(kept, held) \in Seq(Frame) /\ Len(toKeep(kept, held)) <= Len(kept)
    BY KeepFacts DEF Thins
  <1>10. writtenUpTo(kept, held, upTo) \in Number
    BY <1>5, WrittenType
  <1>11. outbound' \in Seq(Frame) /\ Len(outbound') <= MAX_OUTBOUND_MESSAGES
    <2>1. Len(kept) <= MAX_OUTBOUND_MESSAGES /\ Len(toKeep(kept, held)) <= MAX_OUTBOUND_MESSAGES
      BY <1>0, <1>5, <1>6, <1>9, TransportAssumption DEF Queues
    <2> QED BY <1>8, <1>9, <2>1
  <1>12. Queues'
    BY <1>0, <1>1, <1>8, <1>11 DEF Queues
  <1>13. Counted'
    <2>1. sentUpTo' \in Number
      BY <1>5, <1>8, <1>10
    <2>2. attempts' \in 0..DEFAULT_MAX_ATTEMPTS
      BY <1>0, <1>1, TransportAssumption DEF Counted
    <2> QED BY <1>0, <1>1, <2>1, <2>2 DEF Counted
  <1>14. Marked'
    BY <1>0, <1>1 DEF Marked
  <1> QED BY <1>4, <1>12, <1>13, <1>14, TypeParts DEF TypeInv, TypeOK, Flags, Counted, Queues, Marked

LEMMA TypeFrame ==
    ASSUME TypeInv, NEW s \in Dialled, OnFrame(s)
    PROVE  TypeInv'
  <1>0. TypeOK /\ nextSeq <= sent /\ Flags /\ Counted /\ Queues /\ Marked
    BY TypeParts DEF TypeInv
  <1>1. /\ s \in 1..Len(sock) /\ cursors' \in [Copy -> Mark]
        /\ UNCHANGED <<box, session, spent, nextSeq, sent, outbound, sentUpTo, socket, attempts, closed,
                       dials, restarts, discarded, raced>>
    BY <1>0, FrameFacts DEF supervisor, bounds
  <1>2. PICK c \in Copy, seq \in Number, upTo \in Number : Takes(s, c, seq, upTo)
    BY <1>0, FrameFacts
  <1>3. sock' \in Seq(Socket) /\ Len(sock') = Len(sock)
    BY <1>2 DEF Takes, Turned
  <1>4. Flags'
    BY <1>0, <1>1, Zenon DEF Flags
  <1>5. Queues' /\ Counted'
    BY <1>0, <1>1, <1>3 DEF Queues, Counted
  <1>6. applied' \in [Copy -> Seq(Number)] /\ reached' \subseteq Number
    <2>1. applied \in [Copy -> Seq(Number)] /\ reached \subseteq Number
      BY <1>0 DEF Marked
    <2>2. Append(applied[c], seq) \in Seq(Number)
      BY <2>1
    <2>3. \/ applied' = applied /\ reached' = reached
          \/ applied' = [applied EXCEPT ![c] = Append(applied[c], seq)] /\ reached' = reached \cup {seq}
      BY <1>2, <2>1 DEF Takes
    <2> QED BY <2>1, <2>2, <2>3
  <1>7. Marked'
    BY <1>0, <1>1, <1>6 DEF Marked
  <1> QED BY <1>4, <1>5, <1>7 DEF TypeInv, TypeOK, Flags, Counted, Queues, Marked

LEMMA TypeNext ==
    ASSUME TypeInv, [Next]_vars
    PROVE  TypeInv'
  <1>0. TypeOK /\ nextSeq <= sent /\ Flags /\ Counted /\ Queues /\ Marked
    BY TypeParts DEF TypeInv
  <1>1. ASSUME NEW beat \in BOOLEAN, TransportSend(beat) PROVE TypeInv'
    BY <1>1, TypeSend
  <1>2. ASSUME NEW c \in Copy, Connect(c) PROVE TypeInv'
    <2>1. /\ sock' \in Seq(Socket) /\ Len(sock') = Len(sock) + 1 /\ socket' = Len(sock) + 1
          /\ Len(sock) \in Nat
      BY <1>0, <1>2, ConnectFacts
    <2>2. /\ attempts < DEFAULT_MAX_ATTEMPTS /\ dials < MaxSockets
          /\ attempts' = attempts + 1 /\ dials' = dials + 1
          /\ UNCHANGED <<box, session, spent, nextSeq, sent, outbound, sentUpTo, closed, cursors,
                         restarts, applied, reached, discarded, raced>>
      BY <1>2 DEF Connect, history
    <2>3. Flags'
      BY <1>0, <2>2, Zenon DEF Flags
    <2>4. attempts' \in 0..DEFAULT_MAX_ATTEMPTS /\ dials' \in 0..MaxSockets
      BY <1>0, <2>2, TransportAssumption DEF Counted, Queues
    <2>6. Len(sock') <= dials' /\ socket' \in 0..Len(sock')
      BY <1>0, <2>1, <2>2 DEF Queues
    <2>7. Counted' /\ Queues'
      BY <1>0, <2>1, <2>2, <2>4, <2>6 DEF Counted, Queues
    <2>5. Marked'
      BY <1>0, <2>2 DEF Marked
    <2> QED BY <2>3, <2>5, <2>7 DEF TypeInv, TypeOK, Flags, Counted, Queues, Marked
  <1>3. ASSUME NEW c \in Copy, CopyRestarts(c) PROVE TypeInv'
    <2>1. sock' \in Seq(Socket) /\ Len(sock') = Len(sock) /\ cursors' \in [Copy -> Mark]
      BY <1>0, <1>3, RestartFacts
    <2>2. /\ restarts < MaxRestarts /\ restarts' = restarts + 1
          /\ applied' = [applied EXCEPT ![c] = << >>]
          /\ UNCHANGED <<box, session, spent, nextSeq, sent, outbound, sentUpTo, socket, attempts, closed,
                         dials, reached, discarded, raced>>
      BY <1>3 DEF CopyRestarts, supervisor
    <2>3. Flags'
      BY <1>0, <2>2, Zenon DEF Flags
    <2>4. Counted' /\ Queues'
      <3>1. restarts' \in 0..MaxRestarts
        BY <1>0, <2>2, TransportAssumption DEF Counted
      <3> QED BY <1>0, <2>1, <2>2, <3>1 DEF Counted, Queues
    <2>5. Marked'
      <3>1. << >> \in Seq(Number)
        OBVIOUS
      <3> QED BY <1>0, <2>1, <2>2, <3>1 DEF Marked
    <2> QED BY <2>3, <2>4, <2>5 DEF TypeInv, TypeOK, Flags, Counted, Queues, Marked
  <1>4. ASSUME NEW s \in Dialled, Attach(s) PROVE TypeInv'
    <2>1. sock' \in Seq(Socket) /\ Len(sock') = Len(sock) /\ cursors' \in [Copy -> Mark] /\ spent' = TRUE
      BY <1>0, <1>4, AttachFacts DEF Turned
    <2>2. UNCHANGED <<box, session, nextSeq, sent, outbound, sentUpTo, socket, attempts, closed,
                      dials, restarts, applied, reached, discarded, raced>>
      BY <1>4 DEF Attach, bounds, history
    <2>3. Flags'
      BY <1>0, <2>1, <2>2, Zenon DEF Flags
    <2>4. Counted' /\ Queues' /\ Marked'
      BY <1>0, <2>1, <2>2 DEF Counted, Queues, Marked
    <2> QED BY <2>3, <2>4 DEF TypeInv, TypeOK, Flags, Counted, Queues, Marked
  <1>5. ASSUME NEW s \in Dialled, OnFrame(s) PROVE TypeInv'
    BY <1>5, TypeFrame
  <1>6. ASSUME NEW s \in Dialled, ServerDrops(s) PROVE TypeInv'
    <2>1. sock' \in Seq(Socket) /\ Len(sock') = Len(sock)
      BY <1>0, <1>6, ServerDropFacts DEF Turned
    <2>2. UNCHANGED <<box, session, spent, nextSeq, sent, outbound, sentUpTo, socket, attempts, closed,
                      cursors, dials, restarts, applied, reached, discarded, raced>>
      BY <1>6 DEF ServerDrops, supervisor, bounds, history
    <2>3. Flags'
      BY <1>0, <2>2, Zenon DEF Flags
    <2>4. Counted' /\ Queues' /\ Marked'
      BY <1>0, <2>1, <2>2 DEF Counted, Queues, Marked
    <2> QED BY <2>3, <2>4 DEF TypeInv, TypeOK, Flags, Counted, Queues, Marked
  <1>7. CASE ClientReads
    BY <1>7, TypeRead
  <1>8. CASE SocketLost
    <2>1. sock' \in Seq(Socket) /\ Len(sock') = Len(sock) /\ socket' = 0
      BY <1>0, <1>8, DropFacts DEF Turned, SocketLost
    <2>2. UNCHANGED <<box, session, spent, nextSeq, sent, outbound, sentUpTo, attempts, closed,
                      cursors, dials, restarts, applied, reached, discarded, raced>>
      BY <1>8 DEF SocketLost, bounds, history
    <2>3. Flags'
      BY <1>0, <2>2, Zenon DEF Flags
    <2>4. Counted' /\ Queues' /\ Marked'
      BY <1>0, <2>1, <2>2 DEF Counted, Queues, Marked
    <2> QED BY <2>3, <2>4 DEF TypeInv, TypeOK, Flags, Counted, Queues, Marked
  <1>9. CASE WatchdogCloses
    <2>1. sock' \in Seq(Socket) /\ Len(sock') = Len(sock) /\ socket' = 0
      BY <1>0, <1>9, DropFacts DEF Turned, WatchdogCloses, isOpen
    <2>2. /\ UNCHANGED <<box, session, spent, nextSeq, sent, sentUpTo, attempts, closed,
                         cursors, dials, restarts, applied, reached, raced>>
          /\ outbound' = picked(outbound, {i \in DOMAIN outbound : ~outbound[i].beat})
          /\ discarded' = discarded \cup (Numbers(outbound) \ Numbers(outbound'))
      BY <1>9 DEF WatchdogCloses, bounds
    <2>3. Flags'
      BY <1>0, <2>2, Zenon DEF Flags
    <2>4. outbound \in Seq(Frame) /\ outbound' \in Seq(Frame) /\ Len(outbound') <= Len(outbound)
      <3>1. outbound \in Seq(Frame) /\ {i \in DOMAIN outbound : ~outbound[i].beat} \subseteq 1..Len(outbound)
        BY <1>0 DEF Queues
      <3> QED BY <2>2, <3>1, PickedThins DEF Thins
    <2>5. Counted' /\ Queues'
      BY <1>0, <2>1, <2>2, <2>4, TransportAssumption DEF Counted, Queues
    <2>6. Numbers(outbound) \subseteq Number
      BY <2>4, NumbersFacts
    <2>7. Marked'
      BY <1>0, <2>2, <2>6 DEF Marked
    <2> QED BY <2>3, <2>5, <2>7 DEF TypeInv, TypeOK, Flags, Counted, Queues, Marked
  <1>10. CASE GiveUp
    <2>1. /\ closed' = TRUE
          /\ UNCHANGED <<box, session, spent, nextSeq, sent, outbound, sentUpTo, socket, attempts, sock,
                         cursors, dials, restarts, applied, reached, discarded, raced>>
      BY <1>10 DEF GiveUp, bounds, history
    <2>2. Flags'
      BY <1>0, <2>1, Zenon DEF Flags
    <2>3. Counted' /\ Queues' /\ Marked'
      BY <1>0, <2>1 DEF Counted, Queues, Marked
    <2> QED BY <2>2, <2>3 DEF TypeInv, TypeOK, Flags, Counted, Queues, Marked
  <1>11. CASE Recreate
    <2>1. Flags'
      BY <1>0, <1>11, Zenon DEF Recreate, Flags
    <2>2. Counted' /\ Queues'
      <3>1. /\ box < MaxContainers /\ box' = box + 1 /\ nextSeq' = 0 /\ sent' = 0 /\ sentUpTo' = 0
            /\ outbound' = << >> /\ socket' = 0 /\ attempts' = 0 /\ sock' = << >>
            /\ dials' = dials /\ restarts' = restarts
        BY <1>11 DEF Recreate, bounds
      <3>2. box' \in 1..MaxContainers /\ 0 \in Number /\ 0 \in 0..DEFAULT_MAX_ATTEMPTS
        BY <1>0, <3>1, TransportAssumption DEF Counted, Number
      <3>3. /\ << >> \in Seq(Socket) /\ Len(<< >>) = 0 /\ Len(<< >>) <= MAX_OUTBOUND_MESSAGES
            /\ 0 <= dials
        BY <1>0, TransportAssumption DEF Queues
      <3>4. Counted'
        BY <1>0, <3>1, <3>2 DEF Counted
      <3> QED BY <1>0, <3>1, <3>3, <3>4, NoneQueued DEF Queues
    <2>3. Marked'
      BY <1>0, <1>11 DEF Recreate, Marked
    <2> QED BY <2>1, <2>2, <2>3 DEF TypeInv, TypeOK, Flags, Counted, Queues, Marked
  <1>12. CASE UNCHANGED vars
    <2>1. Flags'
      BY <1>0, <1>12, Zenon DEF vars, supervisor, history, Flags
    <2>2. Counted' /\ Queues' /\ Marked'
      BY <1>0, <1>12 DEF Counted, Queues, Marked, vars, supervisor, history, bounds
    <2> QED BY <2>1, <2>2 DEF TypeInv, TypeOK, Flags, Counted, Queues, Marked
  <1> QED BY <1>1, <1>2, <1>3, <1>4, <1>5, <1>6, <1>7, <1>8, <1>9, <1>10, <1>11, <1>12 DEF Next

\* The backlog, the sockets and their queues, the cursors and the counters of a
\* supervisor and its copies have their types, the backlog never holds more
\* than MAX_OUTBOUND_MESSAGES frames and no number is above the frames that
\* were produced, whatever is lost, replayed or restarted (ws.ts, server.ts).
THEOREM TypeCorrect == Spec => []TypeOK
  <1>1. Init => TypeInv
    BY TypeInit
  <1>2. TypeInv /\ [Next]_vars => TypeInv'
    BY TypeNext
  <1>3. TypeInv => TypeOK
    BY DEF TypeInv
  <1> QED BY <1>1, <1>2, <1>3, PTL DEF Spec

-----------------------------------------------------------------------------
(***************************************************************************)
(* A process passes each number on at most once.                           *)
(***************************************************************************)
OnceInv == TypeInv /\ OncePerCopy /\ Passed

LEMMA OnceFrame ==
    ASSUME OnceInv, NEW s \in Dialled, OnFrame(s)
    PROVE  OncePerCopy' /\ Passed'
  <1>0. TypeOK /\ OncePerCopy /\ Passed /\ applied \in [Copy -> Seq(Number)]
    BY DEF OnceInv, TypeInv, TypeOK
  <1>1. box' = box
    BY <1>0, FrameFacts
  <1>2. PICK c \in Copy, seq \in Number, upTo \in Number : Takes(s, c, seq, upTo)
    BY <1>0, FrameFacts
  <1>3. CASE seq = 0
    BY <1>0, <1>1, <1>2, <1>3 DEF Takes, OncePerCopy, Passed
  <1>4. CASE seq # 0
    <2>1. /\ cursors'[c].box = box /\ cursors'[c].seq = upTo
          /\ \A d \in Copy : d # c => cursors'[d] = cursors[d]
          /\ applied' = IF seq > cursorFor(c) THEN [applied EXCEPT ![c] = Append(applied[c], seq)] ELSE applied
          /\ upTo = IF seq > cursorFor(c) THEN seq ELSE cursorFor(c)
      BY <1>2, <1>4 DEF Takes
    <2>2. \A d \in Copy : d # c => applied'[d] = applied[d] /\ cursors'[d] = cursors[d]
      BY <1>0, <2>1
    <2>3. cursorFor(c) \in Nat /\ seq \in Nat /\ applied[c] \in Seq(Number)
      BY <1>0, CursorType DEF Number
    <2>4. \A i \in 1..Len(applied[c]) : applied[c][i] <= cursorFor(c) /\ applied[c][i] \in Nat
      <3> TAKE i \in 1..Len(applied[c])
      <3>1. applied[c][i] \in Nat /\ applied[c] # << >>
        <4>1. applied[c][i] \in Number /\ applied[c] # << >>
          BY <2>3
        <4> QED BY <4>1 DEF Number
      <3> QED BY <1>0, <2>3, <3>1 DEF Passed, cursorFor
    <2>5. CASE seq > cursorFor(c)
      <3>1. applied'[c] = Append(applied[c], seq) /\ upTo = seq
        BY <1>0, <2>1, <2>5
      <3>2. /\ Len(applied[c]) \in Nat /\ DOMAIN applied'[c] = 1..(Len(applied[c]) + 1)
            /\ \A i \in 1..Len(applied[c]) : applied'[c][i] = applied[c][i]
            /\ applied'[c][Len(applied[c]) + 1] = seq
        BY <2>3, <3>1
      <3>3. \A i \in 1..Len(applied[c]) : applied'[c][i] < seq /\ applied'[c][i] <= upTo
        BY <2>3, <2>4, <2>5, <3>1, <3>2
      <3>4. \A i \in DOMAIN applied'[c] : applied'[c][i] <= cursors'[c].seq
        BY <2>1, <2>3, <3>1, <3>2, <3>3
      <3>5. \A i, j \in DOMAIN applied'[c] : i < j => applied'[c][i] < applied'[c][j]
        <4> SUFFICES ASSUME NEW i \in 1..(Len(applied[c]) + 1), NEW j \in 1..(Len(applied[c]) + 1), i < j
                     PROVE  applied'[c][i] < applied'[c][j]
          BY <3>2
        <4>1. i \in 1..Len(applied[c])
          BY <3>2
        <4>2. CASE j = Len(applied[c]) + 1
          BY <3>2, <3>3, <4>1, <4>2
        <4>3. CASE j \in 1..Len(applied[c])
          <5>1. applied[c][i] < applied[c][j]
            BY <1>0, <2>3, <4>1, <4>3 DEF OncePerCopy
          <5> QED BY <3>2, <4>1, <4>3, <5>1
        <4> QED BY <3>2, <4>2, <4>3
      <3>6. Passed'
        <4> SUFFICES ASSUME NEW d \in Copy
                     PROVE  (\/ applied[d] = << >>
                             \/ /\ cursors[d].box = box
                                /\ \A i \in DOMAIN applied[d] : applied[d][i] <= cursors[d].seq)'
          BY DEF Passed
        <4> QED BY <1>0, <1>1, <2>1, <2>2, <3>4 DEF Passed
      <3>7. OncePerCopy'
        <4> SUFFICES ASSUME NEW d \in Copy
                     PROVE  \A i, j \in DOMAIN applied'[d] : i < j => applied'[d][i] < applied'[d][j]
          BY DEF OncePerCopy
        <4> QED BY <1>0, <2>2, <3>5 DEF OncePerCopy
      <3> QED BY <3>6, <3>7
    <2>6. CASE ~(seq > cursorFor(c))
      <3>1. applied' = applied /\ cursors'[c].seq = cursorFor(c)
        BY <2>1, <2>6
      <3>2. \A i \in DOMAIN applied[c] : applied[c][i] <= cursorFor(c)
        BY <2>3, <2>4
      <3>3. ASSUME NEW d \in Copy
            PROVE  \/ applied[d] = << >>
                   \/ /\ cursors'[d].box = box
                      /\ \A i \in DOMAIN applied[d] : applied[d][i] <= cursors'[d].seq
        BY <1>0, <2>1, <2>2, <3>1, <3>2 DEF Passed
      <3> QED BY <1>0, <1>1, <3>1, <3>3 DEF Passed, OncePerCopy
    <2> QED BY <2>5, <2>6
  <1> QED BY <1>3, <1>4

LEMMA OnceNext ==
    ASSUME OnceInv, [Next]_vars
    PROVE  OnceInv'
  <1>0. TypeInv /\ TypeOK /\ OncePerCopy /\ Passed /\ applied \in [Copy -> Seq(Number)]
    BY DEF OnceInv, TypeInv, TypeOK
  <1> SUFFICES OncePerCopy' /\ Passed'
    BY <1>0, TypeNext DEF OnceInv
  <1>a. ASSUME UNCHANGED <<box, cursors, applied>> PROVE OncePerCopy' /\ Passed'
    BY <1>0, <1>a DEF OncePerCopy, Passed
  <1>1. ASSUME NEW beat \in BOOLEAN, TransportSend(beat) PROVE OncePerCopy' /\ Passed'
    BY <1>a, <1>1 DEF TransportSend
  <1>2. ASSUME NEW c \in Copy, Connect(c) PROVE OncePerCopy' /\ Passed'
    BY <1>a, <1>2 DEF Connect, history
  <1>3. ASSUME NEW c \in Copy, CopyRestarts(c) PROVE OncePerCopy' /\ Passed'
    <2>1. /\ applied' = [applied EXCEPT ![c] = << >>] /\ box' = box
          /\ \A d \in Copy : d # c => cursors'[d] = cursors[d]
      BY <1>0, <1>3, RestartFacts DEF CopyRestarts
    <2>2. applied'[c] = << >> /\ \A d \in Copy : d # c => applied'[d] = applied[d]
      BY <1>0, <2>1
    <2>3. Passed'
      BY <1>0, <2>1, <2>2 DEF Passed
    <2>4. OncePerCopy'
      BY <1>0, <2>2 DEF OncePerCopy
    <2> QED BY <2>3, <2>4
  <1>4. ASSUME NEW s \in Dialled, Attach(s) PROVE OncePerCopy' /\ Passed'
    <2>1. /\ sock[s].copy \in Copy
          /\ cursors'[sock[s].copy].box = box /\ cursors'[sock[s].copy].seq = cursorFor(sock[s].copy)
          /\ \A c \in Copy : c # sock[s].copy => cursors'[c] = cursors[c]
      BY <1>0, <1>4, AttachFacts
    <2>2. applied' = applied /\ box' = box
      BY <1>4 DEF Attach, history
    <2>3. Passed'
      BY <1>0, <2>1, <2>2 DEF Passed, cursorFor
    <2> QED BY <1>0, <2>2, <2>3 DEF OncePerCopy
  <1>5. ASSUME NEW s \in Dialled, OnFrame(s) PROVE OncePerCopy' /\ Passed'
    BY <1>5, OnceFrame
  <1>6. ASSUME NEW s \in Dialled, ServerDrops(s) PROVE OncePerCopy' /\ Passed'
    BY <1>a, <1>6 DEF ServerDrops, history
  <1>7. CASE ClientReads
    BY <1>a, <1>7, Zenon DEF ClientReads, history
  <1>8. CASE SocketLost
    BY <1>a, <1>8 DEF SocketLost, history
  <1>9. CASE WatchdogCloses
    BY <1>a, <1>9 DEF WatchdogCloses
  <1>10. CASE GiveUp
    BY <1>a, <1>10 DEF GiveUp, history
  <1>11. CASE Recreate
    <2>1. \A c \in Copy : applied'[c] = << >>
      BY <1>11 DEF Recreate
    <2> QED BY <2>1 DEF OncePerCopy, Passed
  <1>12. CASE UNCHANGED vars
    BY <1>a, <1>12 DEF vars, history
  <1> QED BY <1>1, <1>2, <1>3, <1>4, <1>5, <1>6, <1>7, <1>8, <1>9, <1>10, <1>11, <1>12 DEF Next

\* Whatever is replayed on however many sockets, and in whatever order they are
\* read, a process of the runner passes on the numbers of a container in their
\* order and each one at most once (server.ts, onFrame and cursorFor).
THEOREM OncePerCopyHolds == Spec => []OncePerCopy
  <1>1. Init => OnceInv
    <2>1. Init => OncePerCopy /\ Passed
      BY DEF Init, OncePerCopy, Passed
    <2> QED BY <2>1, TypeInit DEF OnceInv
  <1>2. OnceInv /\ [Next]_vars => OnceInv'
    BY OnceNext
  <1>3. OnceInv => OncePerCopy
    BY DEF OnceInv
  <1> QED BY <1>1, <1>2, <1>3, PTL DEF Spec

-----------------------------------------------------------------------------
(***************************************************************************)
(* The shape of the backlog and of the sockets.                            *)
(***************************************************************************)
LEMMA ThinFacts ==
    ASSUME NEW s \in Seq(Frame), NEW t, Thins(t, s)
    PROVE  /\ t \in Seq(Frame)
           /\ Bare(s) => Bare(t)
           /\ Numbered(s) => Numbered(t)
           /\ \A n \in Nat : Within(s, n) => Within(t, n)
  BY DEF Thins, Bare, Numbered, Within

LEMMA JoinWithin ==
    ASSUME NEW q \in Seq(Frame), NEW r \in Seq(Frame), NEW n \in Nat, Within(q, n), Within(r, n)
    PROVE  Within(q \o r, n)
  BY JoinFacts DEF Within

LEMMA TailWithin ==
    ASSUME NEW q \in Seq(Frame), q # << >>, NEW n \in Nat, Within(q, n)
    PROVE  Within(Tail(q), n) /\ q[1].seq <= n
  BY QueueFacts DEF Within

LEMMA WithinUp ==
    ASSUME NEW q \in Seq(Frame), NEW n \in Nat, NEW m \in Nat, n <= m, Within(q, n)
    PROVE  Within(q, m)
  BY FrameTypes DEF Within

LEMMA ItemTypes ==
    ASSUME NEW q \in Seq(Item)
    PROVE  Len(q) \in Nat /\ \A i \in 1..Len(q) : q[i] \in Item /\ q[i].ack \in Nat
  <1>1. \A e \in Item : e.ack \in Nat
    BY DEF Item, Number
  <1> QED BY <1>1

LEMMA AcksUp ==
    ASSUME NEW q \in Seq(Item), NEW n \in Nat, NEW m \in Nat, n <= m, Acks(q, n)
    PROVE  Acks(q, m)
  BY ItemTypes DEF Acks

LEMMA AcksTail ==
    ASSUME NEW q \in Seq(Item), q # << >>, NEW n \in Nat, Acks(q, n)
    PROVE  Acks(Tail(q), n) /\ q[1].ack <= n
  BY QueueFacts DEF Acks

LEMMA AcksAppend ==
    ASSUME NEW q \in Seq(Item), NEW e \in Item, NEW n \in Nat, Acks(q, n), e.ack <= n
    PROVE  Acks(Append(q, e), n)
  BY AppendFacts DEF Acks

LEMMA SocketsUp ==
    ASSUME NEW q \in Seq(Socket), NEW n \in Nat, NEW m \in Nat, n <= m, OnSockets(q, n)
    PROVE  OnSockets(q, m)
  <1> SUFFICES ASSUME NEW s \in 1..Len(q) PROVE Within(q[s].up, m) /\ Acks(q[s].down, m)
    BY DEF OnSockets
  <1>1. q[s].up \in Seq(Frame) /\ q[s].down \in Seq(Item) /\ Within(q[s].up, n) /\ Acks(q[s].down, n)
    BY SocketTypes DEF OnSockets
  <1> QED BY <1>1, WithinUp, AcksUp

LEMMA TurnGiven ==
    ASSUME NEW q \in Seq(Socket), NEW s \in 1..Len(q), NEW t, NEW client, NEW server, NEW up, NEW down,
           Turned(t, q, s, client, server, up, down), NEW n \in Nat, OnSockets(q, n),
           Within(up, n), Acks(down, n)
    PROVE  OnSockets(t, n)
  <1> SUFFICES ASSUME NEW i \in 1..Len(q) PROVE Within(t[i].up, n) /\ Acks(t[i].down, n)
    BY DEF OnSockets, Turned
  <1>1. CASE i = s
    BY <1>1 DEF Turned
  <1>2. CASE i # s
    BY <1>2 DEF Turned, OnSockets
  <1> QED BY <1>1, <1>2

LEMMA TurnOK ==
    ASSUME NEW q \in Seq(Socket), NEW s \in 1..Len(q), NEW t, NEW client, NEW server, NEW up, NEW down,
           Turned(t, q, s, client, server, up, down),
           \A i \in 1..Len(q) : SocketOK(q[i].client, q[i].up, q[i].down), SocketOK(client, up, down)
    PROVE  \A i \in 1..Len(t) : SocketOK(t[i].client, t[i].up, t[i].down)
  <1> SUFFICES ASSUME NEW i \in 1..Len(q) PROVE SocketOK(t[i].client, t[i].up, t[i].down)
    BY DEF Turned
  <1>1. CASE i = s
    BY <1>1 DEF Turned
  <1>2. CASE i # s
    BY <1>2 DEF Turned
  <1> QED BY <1>1, <1>2

LEMMA WrittenWithin ==
    ASSUME NEW s \in Seq(Frame), NEW held, NEW upTo \in Nat, NEW n \in Nat, upTo <= n, Within(s, n)
    PROVE  writtenUpTo(s, held, upTo) <= n
  <1>1. CASE s = << >>
    BY <1>1 DEF writtenUpTo
  <1>2. CASE s # << >>
    <2>1. Len(s) \in 1..Len(s)
      BY <1>2
    <2> QED BY <2>1 DEF writtenUpTo, Within
  <1> QED BY <1>1, <1>2

LEMMA WireWithin ==
    ASSUME NEW s, NEW frames \in Seq(Frame), NEW held, NEW upTo, NEW n \in Nat, Within(frames, n)
    PROVE  Within(wire(s, toWrite(frames, held, upTo)), n)
  <1>1. Within(toWrite(frames, held, upTo), n)
    BY WriteFacts, ThinFacts
  <1>2. Within(<< >>, n)
    BY DEF Within
  <1> QED BY <1>1, <1>2 DEF wire

\* A frame with the next number goes behind a sorted backlog.
LEMMA SortedAppend ==
    ASSUME NEW s \in Seq(Frame), NEW f \in Frame, NEW n \in Nat, Within(s, n), f.seq = n + 1
    PROVE  /\ Within(Append(s, f), n + 1)
           /\ Sorted(s) => Sorted(Append(s, f))
           /\ Numbered(s) => Numbered(Append(s, f))
  <1>1. /\ Len(Append(s, f)) = Len(s) + 1 /\ Len(s) \in Nat
        /\ \A i \in 1..Len(Append(s, f)) : \/ i \in 1..Len(s) /\ Append(s, f)[i] = s[i]
                                           \/ i = Len(s) + 1 /\ Append(s, f)[i] = f
    BY AppendFacts
  <1>2. \A i \in 1..Len(s) : s[i].seq \in Nat /\ s[i].seq <= n
    BY FrameTypes DEF Within
  <1>3. Within(Append(s, f), n + 1)
    BY <1>1, <1>2 DEF Within
  <1>4. Numbered(s) => Numbered(Append(s, f))
    BY <1>1 DEF Numbered
  <1>5. Sorted(s) => Sorted(Append(s, f))
    <2> SUFFICES ASSUME Sorted(s), NEW i \in 1..Len(Append(s, f)), NEW j \in 1..Len(Append(s, f)), i < j
                 PROVE  Append(s, f)[i].seq < Append(s, f)[j].seq
      BY DEF Sorted
    <2>1. i \in 1..Len(s) /\ Append(s, f)[i] = s[i]
      BY <1>1
    <2>2. CASE j \in 1..Len(s) /\ Append(s, f)[j] = s[j]
      BY <2>1, <2>2 DEF Sorted
    <2>3. CASE j = Len(s) + 1 /\ Append(s, f)[j] = f
      BY <1>2, <2>1, <2>3
    <2> QED BY <1>1, <2>2, <2>3
  <1> QED BY <1>3, <1>4, <1>5

LEMMA BareAppend ==
    ASSUME NEW s \in Seq(Frame), NEW f \in Frame, Bare(s), f.seq = 0
    PROVE  Bare(Append(s, f)) /\ \A n \in Nat : Within(Append(s, f), n)
  BY AppendFacts DEF Bare, Within

ShapeInv == TypeInv /\ Shape

LEMMA ShapeSend ==
    ASSUME ShapeInv, NEW beat \in BOOLEAN, TransportSend(beat)
    PROVE  Shape'
  <1>0. /\ TypeOK /\ nextSeq <= sent /\ BacklogOK /\ Given /\ SocketsOK
        /\ outbound \in Seq(Frame) /\ sock \in Seq(Socket) /\ sentUpTo \in Nat
    BY DEF ShapeInv, TypeInv, Shape, TypeOK, Number
  <1>1. /\ nextSeq \in Nat
        /\ nextSeq' = (IF session THEN nextSeq + 1 ELSE nextSeq)
        /\ UNCHANGED <<box, session, socket, cursors>>
    BY <1>0, SendFacts
  <1>2. PICK frame \in Frame, all \in Seq(Frame), kept \in Seq(Frame) : Sends(frame, all, kept)
    BY <1>0, SendFacts
  <1>3. PICK m \in Nat : m = nextSeq'
    BY <1>1
  <1>4. all = Append(outbound, frame) /\ frame.seq = (IF session THEN nextSeq + 1 ELSE 0)
        /\ kept = capped(all)
    BY <1>2 DEF Sends
  <1>5. /\ session => Sorted(all) /\ Numbered(all)
        /\ Within(all, m)
        /\ ~session => Bare(all)
    <2>1. CASE session
      BY <1>0, <1>1, <1>3, <1>4, <2>1, SortedAppend DEF BacklogOK, Given
    <2>2. CASE ~session
      BY <1>0, <1>1, <1>3, <1>4, <2>2, BareAppend DEF BacklogOK
    <2> QED BY <2>1, <2>2
  <1>6. /\ Within(kept, m) /\ (session => Sorted(kept) /\ Numbered(kept)) /\ (~session => Bare(kept))
    BY <1>4, <1>5, CappedFacts, ThinFacts DEF Thins
  <1>7. PICK left : left = toKeep(kept, session)
    OBVIOUS
  <1>8. Thins(left, kept)
    BY <1>7, KeepFacts
  <1>9. /\ Within(left, m) /\ (session => Sorted(left) /\ Numbered(left)) /\ (~session => Bare(left))
    BY <1>6, <1>8, ThinFacts DEF Thins
  <1>10. outbound' = kept \/ outbound' = left
    BY <1>2, <1>7 DEF Sends
  <1>11. BacklogOK'
    BY <1>0, <1>1, <1>6, <1>9, <1>10 DEF BacklogOK
  <1>12. nextSeq <= m /\ sentUpTo <= m
    BY <1>0, <1>1, <1>3 DEF Given
  <1>13. sentUpTo' <= m
    <2>1. writtenUpTo(kept, session, sentUpTo) <= m
      BY <1>0, <1>6, <1>12, WrittenWithin
    <2> QED BY <1>2, <1>12, <2>1 DEF Sends
  <1>14. OnSockets(sock, m)
    BY <1>0, <1>1, <1>12, SocketsUp DEF Given
  <1>15. OnSockets(sock', m) /\ SocketsOK'
    <2>1. CASE ~isOpen
      BY <1>0, <1>2, <1>14, <2>1 DEF Sends, SocketsOK
    <2>2. CASE isOpen
      <3> DEFINE out == wire(socket, toWrite(kept, session, sentUpTo))
      <3>1. PICK t : t = sock'
        OBVIOUS
      <3>2. /\ socket \in 1..Len(sock)
            /\ Turned(t, sock, socket, sock[socket].client, sock[socket].server,
                      sock[socket].up \o out, sock[socket].down)
        BY <1>2, <2>2, <3>1 DEF Sends
      <3>3. /\ sock[socket].up \in Seq(Frame) /\ Within(sock[socket].up, m)
            /\ Acks(sock[socket].down, m) /\ sock[socket].client = "open"
        BY <1>0, <1>14, <2>2, <3>2, SocketTypes DEF OnSockets, isOpen
      <3>4. Within(out, m) /\ out \in Seq(Frame)
        BY <1>6, WireWithin, WriteFacts, WireType DEF Thins
      <3> HIDE DEF out
      <3>5. Within(sock[socket].up \o out, m)
        BY <3>3, <3>4, JoinWithin
      <3>6. OnSockets(t, m)
        BY <1>0, <1>14, <3>2, <3>3, <3>5, TurnGiven
      <3>7. SocketOK(sock[socket].client, sock[socket].up \o out, sock[socket].down)
        BY <3>3 DEF SocketOK
      <3>8. \A i \in 1..Len(t) : SocketOK(t[i].client, t[i].up, t[i].down)
        BY <1>0, <3>2, <3>7, TurnOK DEF SocketsOK
      <3> QED BY <3>1, <3>6, <3>8 DEF SocketsOK
    <2> QED BY <2>1, <2>2
  <1>16. \A c \in Copy : cursors[c].box <= box /\ (cursors[c].box = box => cursors[c].seq <= m)
    <2>1. \A c \in Copy : cursors[c].seq \in Nat
      BY <1>0 DEF TypeOK, Mark, Number
    <2> QED BY <1>0, <1>1, <1>12, <2>1 DEF Given
  <1>17. Given'
    BY <1>1, <1>3, <1>6, <1>9, <1>10, <1>13, <1>15, <1>16 DEF Given
  <1> QED BY <1>11, <1>15, <1>17 DEF Shape

LEMMA ShapeRead ==
    ASSUME ShapeInv, ClientReads
    PROVE  Shape'
  <1>0. /\ TypeOK /\ BacklogOK /\ Given /\ SocketsOK /\ nextSeq \in Nat
        /\ outbound \in Seq(Frame) /\ sock \in Seq(Socket) /\ sentUpTo \in Nat
    BY DEF ShapeInv, TypeInv, Shape, TypeOK, Number
  <1>1. socket \in 1..Len(sock) /\ UNCHANGED <<box, nextSeq, cursors>>
    BY <1>0, ReadFacts
  <1>2. PICK item \in Item, kept \in Seq(Frame), upTo \in Nat, out \in Seq(Frame) :
                 Reads(item, kept, upTo, out)
    BY <1>0, ReadFacts
  <1>3. PICK held : held = (session \/ item.kind = "session")
    OBVIOUS
  <1>4. /\ sock[socket].up \in Seq(Frame) /\ Within(sock[socket].up, nextSeq)
        /\ sock[socket].down \in Seq(Item) /\ Acks(sock[socket].down, nextSeq)
    BY <1>0, <1>1, SocketTypes DEF Given, OnSockets
  <1>5. item.ack <= nextSeq /\ item.ack \in Nat /\ Acks(Tail(sock[socket].down), nextSeq)
    <2>1. item = sock[socket].down[1] /\ sock[socket].down # << >>
      BY <1>2 DEF Reads
    <2>2. item.ack \in Nat
      BY DEF Item, Number
    <2> QED BY <1>0, <1>4, <2>1, <2>2, AcksTail
  <1>6. upTo <= nextSeq
    BY <1>0, <1>2, <1>5 DEF Reads, Given
  <1>7. Thins(kept, outbound)
    <2>1. Thins(acknowledge(outbound, item.ack), outbound)
      BY <1>0, <1>5, AcknowledgeFacts
    <2>2. Thins(outbound, outbound)
      BY <1>0 DEF Thins
    <2> QED BY <1>2, <2>1, <2>2 DEF Reads
  <1>8. /\ Within(kept, nextSeq)
        /\ session => Sorted(kept) /\ Numbered(kept)
        /\ ~session => Bare(kept)
    BY <1>0, <1>7, ThinFacts DEF Thins, BacklogOK, Given
  <1>9. PICK left : left = toKeep(kept, held)
    OBVIOUS
  <1>10. /\ Thins(left, kept) /\ \A n \in 1..Len(left) : held /\ left[n].seq # 0
    BY <1>9, KeepFacts
  <1>11. /\ Within(left, nextSeq) /\ left \in Seq(Frame)
         /\ session => Sorted(left) /\ Numbered(left)
         /\ ~session => Bare(left) /\ Len(left) = 0
    <2>1. /\ Within(left, nextSeq) /\ left \in Seq(Frame)
          /\ session => Sorted(left) /\ Numbered(left)
          /\ ~session => Bare(left)
      BY <1>0, <1>8, <1>10, ThinFacts DEF Thins
    <2>2. ASSUME ~session, Len(left) # 0 PROVE FALSE
      <3>1. 1 \in 1..Len(left)
        BY <2>1, <2>2
      <3> QED BY <1>10, <2>1, <2>2, <3>1 DEF Bare
    <2> QED BY <2>1, <2>2
  <1>12. /\ session' = held
         /\ outbound' = kept \/ outbound' = left
         /\ item.kind = "session" => outbound' = left
    BY <1>2, <1>3, <1>9, Zenon DEF Reads, flushesOn
  <1>13. BacklogOK'
    <2>1. CASE session
      BY <1>3, <1>8, <1>11, <1>12, <2>1 DEF BacklogOK
    <2>2. CASE ~session /\ item.kind # "session"
      BY <1>0, <1>1, <1>3, <1>8, <1>11, <1>12, <2>2 DEF BacklogOK
    <2>3. CASE ~session /\ item.kind = "session"
      <3>1. Sorted(left) /\ Numbered(left)
        <4>1. 1..Len(left) = {}
          BY <1>11, <2>3
        <4> QED BY <4>1 DEF Sorted, Numbered
      <3>2. session' /\ outbound' = left
        BY <1>3, <1>12, <2>3
      <3> QED BY <3>1, <3>2 DEF BacklogOK
    <2> QED BY <2>1, <2>2, <2>3
  <1>14. sentUpTo' <= nextSeq
    <2>1. writtenUpTo(kept, held, upTo) <= nextSeq
      BY <1>0, <1>6, <1>8, WrittenWithin
    <2>2. sentUpTo' = upTo \/ sentUpTo' = writtenUpTo(kept, held, upTo)
      BY <1>2, <1>3 DEF Reads
    <2> QED BY <1>6, <2>1, <2>2
  <1>15. Within(sock[socket].up \o out, nextSeq)
    <2>1. Within(wire(socket, toWrite(kept, held, upTo)), nextSeq)
      BY <1>0, <1>8, WireWithin
    <2>2. Within(<< >>, nextSeq)
      BY DEF Within
    <2>3. Within(out, nextSeq)
      BY <1>2, <1>3, <2>1, <2>2 DEF Reads
    <2> QED BY <1>0, <1>4, <2>3, JoinWithin
  <1>16. OnSockets(sock', nextSeq) /\ SocketsOK'
    <2>1. PICK t : t = sock'
      OBVIOUS
    <2>2. Turned(t, sock, socket, "open", sock[socket].server, sock[socket].up \o out,
                 Tail(sock[socket].down))
      BY <1>2, <2>1 DEF Reads
    <2>3. OnSockets(t, nextSeq)
      BY <1>0, <1>1, <1>5, <1>15, <2>2, TurnGiven DEF Given
    <2>4. SocketOK("open", sock[socket].up \o out, Tail(sock[socket].down))
      BY DEF SocketOK
    <2>5. \A i \in 1..Len(t) : SocketOK(t[i].client, t[i].up, t[i].down)
      BY <1>0, <1>1, <2>2, <2>4, TurnOK DEF SocketsOK
    <2> QED BY <2>1, <2>3, <2>5 DEF SocketsOK
  <1>17. Given'
    BY <1>0, <1>1, <1>8, <1>11, <1>12, <1>14, <1>16 DEF Given
  <1> QED BY <1>13, <1>16, <1>17 DEF Shape

LEMMA ShapeFrame ==
    ASSUME ShapeInv, NEW s \in Dialled, OnFrame(s)
    PROVE  Shape'
  <1>0. TypeOK /\ BacklogOK /\ Given /\ SocketsOK /\ nextSeq \in Nat /\ sock \in Seq(Socket)
    BY DEF ShapeInv, TypeInv, Shape, TypeOK, Number
  <1>1. /\ s \in 1..Len(sock) /\ sock[s].up # << >>
        /\ UNCHANGED <<box, session, nextSeq, outbound, sentUpTo>>
    BY <1>0, FrameFacts DEF supervisor
  <1>2. PICK c \in Copy, seq \in Number, upTo \in Number : Takes(s, c, seq, upTo)
    BY <1>0, FrameFacts
  <1>3. /\ sock[s].up \in Seq(Frame) /\ Within(sock[s].up, nextSeq)
        /\ sock[s].down \in Seq(Item) /\ Acks(sock[s].down, nextSeq)
        /\ SocketOK(sock[s].client, sock[s].up, sock[s].down)
    BY <1>0, <1>1, SocketTypes DEF Given, OnSockets, SocketsOK
  <1>4. Within(Tail(sock[s].up), nextSeq) /\ seq <= nextSeq
    <2>1. seq = sock[s].up[1].seq
      BY <1>2 DEF Takes
    <2> QED BY <1>0, <1>1, <1>3, <2>1, TailWithin
  <1>5. cursorFor(c) <= nextSeq
    BY <1>0 DEF cursorFor, Given
  <1>6. upTo <= nextSeq
    BY <1>2, <1>4, <1>5 DEF Takes
  <1> DEFINE answer == IF seq = 0 \/ sock[s].client = "gone" THEN sock[s].down
                       ELSE Append(sock[s].down, [kind |-> "ack", ack |-> upTo])
  <1>7. Acks(answer, nextSeq)
    <2>1. [kind |-> "ack", ack |-> upTo] \in Item /\ [kind |-> "ack", ack |-> upTo].ack = upTo
      BY DEF Item
    <2>2. Acks(Append(sock[s].down, [kind |-> "ack", ack |-> upTo]), nextSeq)
      BY <1>0, <1>3, <1>6, <2>1, AcksAppend
    <2> QED BY <1>3, <2>2
  <1>8. SocketOK(sock[s].client, Tail(sock[s].up), answer)
    BY <1>1, <1>3 DEF SocketOK
  <1>9. OnSockets(sock', nextSeq) /\ SocketsOK'
    <2>1. PICK t : t = sock'
      OBVIOUS
    <2>2. Turned(t, sock, s, sock[s].client, "open", Tail(sock[s].up), answer)
      BY <1>2, <2>1 DEF Takes
    <2> HIDE DEF answer
    <2>3. OnSockets(t, nextSeq)
      BY <1>0, <1>1, <1>4, <1>7, <2>2, TurnGiven DEF Given
    <2>4. \A i \in 1..Len(t) : SocketOK(t[i].client, t[i].up, t[i].down)
      BY <1>0, <1>1, <1>8, <2>2, TurnOK DEF SocketsOK
    <2> QED BY <2>1, <2>3, <2>4 DEF SocketsOK
  <1>10. \A d \in Copy : cursors'[d].box <= box /\ (cursors'[d].box = box => cursors'[d].seq <= nextSeq)
    <2>1. CASE seq = 0
      BY <1>0, <1>2, <2>1 DEF Takes, Given
    <2>2. CASE seq # 0
      <3>1. /\ cursors'[c].box = box /\ cursors'[c].seq = upTo
            /\ \A d \in Copy : d # c => cursors'[d] = cursors[d]
        BY <1>2, <2>2 DEF Takes
      <3>2. box <= box
        BY <1>0 DEF TypeOK
      <3> QED BY <1>0, <1>6, <3>1, <3>2 DEF Given
    <2> QED BY <2>1, <2>2
  <1>11. Given'
    BY <1>0, <1>1, <1>9, <1>10 DEF Given
  <1> QED BY <1>0, <1>1, <1>9, <1>11 DEF Shape, BacklogOK

LEMMA ShapeNext ==
    ASSUME ShapeInv, [Next]_vars
    PROVE  ShapeInv'
  <1>0. /\ TypeInv /\ TypeOK /\ BacklogOK /\ Given /\ SocketsOK /\ nextSeq \in Nat
        /\ sock \in Seq(Socket) /\ outbound \in Seq(Frame) /\ cursors \in [Copy -> Mark]
    BY DEF ShapeInv, TypeInv, Shape, TypeOK, Number
  <1> SUFFICES Shape'
    BY <1>0, TypeNext DEF ShapeInv
  <1>a. /\ Within(<< >>, nextSeq) /\ Acks(<< >>, nextSeq) /\ box \in Nat /\ box <= box
    BY <1>0 DEF Within, Acks, TypeOK
  <1>1. ASSUME NEW beat \in BOOLEAN, TransportSend(beat) PROVE Shape'
    BY <1>1, ShapeSend
  <1>2. ASSUME NEW c \in Copy, Connect(c) PROVE Shape'
    <2>1. /\ Len(sock') = Len(sock) + 1 /\ Len(sock) \in Nat
          /\ \A i \in 1..Len(sock') :
                 \/ i \in 1..Len(sock) /\ sock'[i] = sock[i]
                 \/ sock'[i] = [copy |-> c, client |-> "dialling", server |-> "none", up |-> << >>,
                                down |-> << >>]
      BY <1>0, <1>2, ConnectFacts
    <2>2. UNCHANGED <<box, session, nextSeq, outbound, sentUpTo, cursors>>
      BY <1>2 DEF Connect
    <2>3. OnSockets(sock', nextSeq)
      BY <1>0, <1>a, <2>1 DEF OnSockets, Given
    <2>4. SocketsOK'
      <3>1. SocketOK("dialling", << >>, << >>)
        BY DEF SocketOK
      <3> QED BY <1>0, <2>1, <3>1 DEF SocketsOK
    <2> QED BY <1>0, <2>2, <2>3, <2>4 DEF Shape, BacklogOK, Given
  <1>3. ASSUME NEW c \in Copy, CopyRestarts(c) PROVE Shape'
    <2>1. /\ Len(sock') = Len(sock)
          /\ \A i \in 1..Len(sock) :
                 \/ sock'[i] = sock[i]
                 \/ /\ sock'[i].client = sock[i].client /\ sock'[i].down = sock[i].down
                    /\ sock'[i].up = << >>
          /\ cursors'[c].box = cursors[c].box /\ cursors'[c].seq = 0
          /\ \A d \in Copy : d # c => cursors'[d] = cursors[d]
      BY <1>0, <1>3, RestartFacts
    <2>2. UNCHANGED <<box, session, nextSeq, outbound, sentUpTo>>
      BY <1>3 DEF CopyRestarts, supervisor
    <2>3. OnSockets(sock', nextSeq)
      BY <1>0, <1>a, <2>1 DEF OnSockets, Given
    <2>4. SocketsOK'
      BY <1>0, <2>1 DEF SocketsOK, SocketOK
    <2>5. \A d \in Copy : cursors'[d].box <= box /\ (cursors'[d].box = box => cursors'[d].seq <= nextSeq)
      BY <1>0, <2>1 DEF Given
    <2> QED BY <1>0, <2>2, <2>3, <2>4, <2>5 DEF Shape, BacklogOK, Given
  <1>4. ASSUME NEW s \in Dialled, Attach(s) PROVE Shape'
    <2>1. /\ s \in 1..Len(sock) /\ sock[s].client = "dialling" /\ sock[s].copy \in Copy
          /\ Turned(sock', sock, s, "dialling", "open", sock[s].up, Answer(cursorFor(sock[s].copy)))
          /\ cursors'[sock[s].copy].box = box /\ cursors'[sock[s].copy].seq = cursorFor(sock[s].copy)
          /\ \A c \in Copy : c # sock[s].copy => cursors'[c] = cursors[c]
      BY <1>0, <1>4, AttachFacts
    <2>2. UNCHANGED <<box, session, nextSeq, outbound, sentUpTo>>
      BY <1>4 DEF Attach
    <2>3. cursorFor(sock[s].copy) <= nextSeq
      BY <1>0, <2>1 DEF cursorFor, Given
    <2>4. PICK ack : ack = cursorFor(sock[s].copy)
      OBVIOUS
    <2>5. Acks(Answer(ack), nextSeq)
      BY <1>0, <2>3, <2>4 DEF Acks, Answer
    <2>6. Within(sock[s].up, nextSeq) /\ SocketOK(sock[s].client, sock[s].up, sock[s].down)
      BY <1>0, <2>1 DEF Given, OnSockets, SocketsOK
    <2>7. SocketOK("dialling", sock[s].up, Answer(ack))
      BY <2>1, <2>6 DEF SocketOK, Answer
    <2>8. PICK t : t = sock'
      OBVIOUS
    <2>9. Turned(t, sock, s, "dialling", "open", sock[s].up, Answer(ack))
      BY <2>1, <2>4, <2>8
    <2>10. OnSockets(t, nextSeq)
      BY <1>0, <2>1, <2>5, <2>6, <2>9, TurnGiven DEF Given
    <2>11. \A i \in 1..Len(t) : SocketOK(t[i].client, t[i].up, t[i].down)
      BY <1>0, <2>1, <2>7, <2>9, TurnOK DEF SocketsOK
    <2>12. \A d \in Copy : cursors'[d].box <= box /\ (cursors'[d].box = box => cursors'[d].seq <= nextSeq)
      BY <1>0, <1>a, <2>1, <2>3 DEF Given
    <2> QED BY <1>0, <2>2, <2>8, <2>10, <2>11, <2>12 DEF Shape, BacklogOK, Given, SocketsOK
  <1>5. ASSUME NEW s \in Dialled, OnFrame(s) PROVE Shape'
    BY <1>5, ShapeFrame
  <1>6. ASSUME NEW s \in Dialled, ServerDrops(s) PROVE Shape'
    <2>1. PICK t : t = sock'
      OBVIOUS
    <2>2. s \in 1..Len(sock) /\ Turned(t, sock, s, sock[s].client, "closed", << >>, sock[s].down)
      BY <1>0, <1>6, <2>1, ServerDropFacts
    <2>3. Acks(sock[s].down, nextSeq) /\ SocketOK(sock[s].client, sock[s].up, sock[s].down)
      BY <1>0, <2>2 DEF Given, OnSockets, SocketsOK
    <2>4. SocketOK(sock[s].client, << >>, sock[s].down)
      BY <2>3 DEF SocketOK
    <2>5. OnSockets(t, nextSeq)
      BY <1>0, <1>a, <2>2, <2>3, TurnGiven DEF Given
    <2>6. \A i \in 1..Len(t) : SocketOK(t[i].client, t[i].up, t[i].down)
      BY <1>0, <2>2, <2>4, TurnOK DEF SocketsOK
    <2>7. UNCHANGED <<box, session, nextSeq, outbound, sentUpTo, cursors>>
      BY <1>6 DEF ServerDrops, supervisor
    <2> QED BY <1>0, <2>1, <2>5, <2>6, <2>7 DEF Shape, BacklogOK, Given, SocketsOK
  <1>7. CASE ClientReads
    BY <1>7, ShapeRead
  <1>b. ASSUME socket # 0, Drop PROVE OnSockets(sock', nextSeq) /\ SocketsOK'
    <2>1. PICK t : t = sock'
      OBVIOUS
    <2>2. socket \in 1..Len(sock) /\ Turned(t, sock, socket, "gone", sock[socket].server, sock[socket].up, << >>)
      BY <1>0, <1>b, <2>1, DropFacts
    <2>3. Within(sock[socket].up, nextSeq) /\ SocketOK("gone", sock[socket].up, << >>)
      BY <1>0, <2>2 DEF Given, OnSockets, SocketOK
    <2>4. OnSockets(t, nextSeq)
      BY <1>0, <1>a, <2>2, <2>3, TurnGiven DEF Given
    <2>5. \A i \in 1..Len(t) : SocketOK(t[i].client, t[i].up, t[i].down)
      BY <1>0, <2>2, <2>3, TurnOK DEF SocketsOK
    <2> QED BY <2>1, <2>4, <2>5 DEF SocketsOK
  <1>8. CASE SocketLost
    <2>1. OnSockets(sock', nextSeq) /\ SocketsOK'
      BY <1>b, <1>8 DEF SocketLost
    <2>2. UNCHANGED <<box, session, nextSeq, outbound, sentUpTo, cursors>>
      BY <1>8 DEF SocketLost
    <2> QED BY <1>0, <2>1, <2>2 DEF Shape, BacklogOK, Given
  <1>9. CASE WatchdogCloses
    <2>1. OnSockets(sock', nextSeq) /\ SocketsOK'
      BY <1>b, <1>9 DEF WatchdogCloses, isOpen
    <2>2. /\ UNCHANGED <<box, session, nextSeq, sentUpTo, cursors>> /\ session
          /\ outbound' = picked(outbound, {i \in DOMAIN outbound : ~outbound[i].beat})
      BY <1>9 DEF WatchdogCloses
    <2>3. PICK left : left = outbound'
      OBVIOUS
    <2>4. Thins(left, outbound)
      <3>1. {i \in DOMAIN outbound : ~outbound[i].beat} \subseteq 1..Len(outbound)
        BY <1>0
      <3> QED BY <1>0, <2>2, <2>3, <3>1, PickedThins
    <2>5. Sorted(left) /\ Numbered(left) /\ Within(left, nextSeq)
      BY <1>0, <2>2, <2>4, ThinFacts DEF Thins, BacklogOK, Given
    <2> QED BY <1>0, <2>1, <2>2, <2>3, <2>5 DEF Shape, BacklogOK, Given
  <1>10. CASE GiveUp
    BY <1>0, <1>10 DEF GiveUp, Shape, BacklogOK, Given, SocketsOK
  <1>11. CASE Recreate
    <2>1. /\ session' = FALSE /\ nextSeq' = 0 /\ outbound' = << >> /\ sentUpTo' = 0 /\ sock' = << >>
          /\ box' = box + 1 /\ cursors' = cursors
      BY <1>11 DEF Recreate
    <2>2. \A c \in Copy : cursors[c].box \in Nat /\ cursors[c].box <= box
      BY <1>0 DEF Mark, Given
    <2>3. \A c \in Copy : cursors[c].box <= box + 1 /\ cursors[c].box # box + 1
      BY <1>a, <2>2
    <2>4. Given'
      BY <2>1, <2>3 DEF Given, Within, OnSockets
    <2> QED BY <2>1, <2>4 DEF Shape, BacklogOK, SocketsOK, Bare
  <1>12. CASE UNCHANGED vars
    BY <1>0, <1>12 DEF vars, supervisor, Shape, BacklogOK, Given, SocketsOK
  <1> QED BY <1>1, <1>2, <1>3, <1>4, <1>5, <1>6, <1>7, <1>8, <1>9, <1>10, <1>11, <1>12 DEF Next

LEMMA ShapeInit == Init => ShapeInv
  <1> SUFFICES ASSUME Init PROVE ShapeInv
    OBVIOUS
  <1>1. Shape
    BY DEF Init, Booted, Shape, BacklogOK, Bare, Given, Within, OnSockets, SocketsOK
  <1> QED BY <1>1, TypeInit DEF ShapeInv

-----------------------------------------------------------------------------
(***************************************************************************)
(* What is on its way.                                                     *)
(***************************************************************************)
LEMMA KeptCovers ==
    ASSUME TypeOK
    PROVE  Kept <=> Covers(outbound, nextSeq, gone)
  <1>1. outbound \in Seq(Frame)
    BY DEF TypeOK
  <1>2. \A n : n \in Numbers(outbound) <=> Carries(outbound, n)
    BY <1>1, NumbersFacts DEF Carries
  <1> QED BY <1>2 DEF Kept, Covers, gone

LEMMA InOrderUp ==
    ASSUME NEW up, NEW G, NEW H, G \subseteq H, InOrder(up, G)
    PROVE  InOrder(up, H)
  BY DEF InOrder

LEMMA CoversUp ==
    ASSUME NEW up, NEW G, NEW H, G \subseteq H, NEW m, Covers(up, m, G)
    PROVE  Covers(up, m, H)
  BY DEF Covers

LEMMA ConfirmsUp ==
    ASSUME NEW items, NEW G, NEW H, G \subseteq H, Confirms(items, G)
    PROVE  Confirms(items, H)
  BY DEF Confirms, Settled

\* The frame at the front is read.
LEMMA InOrderHead ==
    ASSUME NEW up \in Seq(Frame), up # << >>, NEW G, InOrder(up, G)
    PROVE  \A n \in 1..(up[1].seq - 1) : n \in G
  BY QueueFacts DEF InOrder

LEMMA CarriesTail ==
    ASSUME NEW up \in Seq(Frame), up # << >>, NEW n, Carries(up, n), up[1].seq # n
    PROVE  Carries(Tail(up), n)
  <1>1. PICK i \in 1..Len(up) : up[i].seq = n
    BY DEF Carries
  <1>2. i # 1
    BY <1>1
  <1>3. /\ Len(up) \in Nat /\ Len(Tail(up)) = Len(up) - 1
        /\ \A k \in 1..Len(Tail(up)) : Tail(up)[k] = up[k + 1]
    BY QueueFacts
  <1>4. i - 1 \in 1..Len(Tail(up)) /\ (i - 1) + 1 = i
    BY <1>2, <1>3
  <1>5. Tail(up)[i - 1] = up[i]
    BY <1>3, <1>4
  <1> QED BY <1>1, <1>4, <1>5 DEF Carries

LEMMA CoversTail ==
    ASSUME NEW up \in Seq(Frame), up # << >>, NEW G, NEW H, G \subseteq H, NEW m,
           up[1].seq = 0 \/ up[1].seq \in H, Covers(up, m, G)
    PROVE  Covers(Tail(up), m, H)
  <1> SUFFICES ASSUME NEW n \in 1..m, n \notin H PROVE Carries(Tail(up), n)
    BY DEF Covers
  <1>1. Carries(up, n)
    BY DEF Covers
  <1>2. up[1].seq # n
    OBVIOUS
  <1> QED BY <1>1, <1>2, CarriesTail

LEMMA InOrderTail ==
    ASSUME NEW up \in Seq(Frame), up # << >>, NEW G, NEW H, G \subseteq H, InOrder(up, G),
           up[1].seq = 0 \/ up[1].seq \in H
    PROVE  InOrder(Tail(up), H)
  <1>1. /\ Len(up) \in Nat /\ Len(Tail(up)) = Len(up) - 1
        /\ \A k \in 1..Len(Tail(up)) : k + 1 \in 1..Len(up) /\ Tail(up)[k] = up[k + 1]
    BY QueueFacts
  <1> SUFFICES ASSUME NEW i \in 1..Len(Tail(up)), NEW n \in 1..(Tail(up)[i].seq - 1), n \notin H
               PROVE  \E j \in 1..(i - 1) : Tail(up)[j].seq = n
    BY DEF InOrder
  <1>2. i + 1 \in 1..Len(up) /\ n \in 1..(up[i + 1].seq - 1) /\ n \notin G
    BY <1>1
  <1>3. PICK j \in 1..((i + 1) - 1) : up[j].seq = n
    BY <1>2 DEF InOrder
  <1>4. j # 1
    BY <1>3
  <1>5. j - 1 \in 1..(i - 1) /\ j - 1 \in 1..Len(Tail(up)) /\ (j - 1) + 1 = j
    BY <1>1, <1>4
  <1>6. Tail(up)[j - 1] = up[j]
    BY <1>1, <1>5
  <1> QED BY <1>3, <1>5, <1>6

\* What is written goes behind what is on the socket.
LEMMA CarriesJoin ==
    ASSUME NEW up \in Seq(Frame), NEW w \in Seq(Frame), NEW n, Carries(up, n) \/ Carries(w, n)
    PROVE  Carries(up \o w, n)
  <1>1. CASE Carries(up, n)
    <2>1. PICK i \in 1..Len(up) : up[i].seq = n
      BY <1>1 DEF Carries
    <2>2. i \in 1..Len(up \o w) /\ (up \o w)[i] = up[i]
      BY JoinFacts
    <2> QED BY <2>1, <2>2 DEF Carries
  <1>2. CASE Carries(w, n)
    <2>1. PICK i \in 1..Len(w) : w[i].seq = n
      BY <1>2 DEF Carries
    <2>2. Len(up) + i \in 1..Len(up \o w) /\ (up \o w)[Len(up) + i] = w[i]
      BY JoinFacts
    <2> QED BY <2>1, <2>2 DEF Carries
  <1> QED BY <1>1, <1>2

\* w may follow up: what it would overtake is settled, on the socket already,
\* or ahead of it in w.
Follows(w, up, G) ==
    \A i \in 1..Len(w) : \A n \in 1..(w[i].seq - 1) :
        n \in G \/ Carries(up, n) \/ \E j \in 1..(i - 1) : w[j].seq = n

LEMMA InOrderJoin ==
    ASSUME NEW up \in Seq(Frame), NEW w \in Seq(Frame), NEW G, InOrder(up, G), Follows(w, up, G)
    PROVE  InOrder(up \o w, G)
  <1>1. /\ Len(up \o w) = Len(up) + Len(w) /\ Len(up) \in Nat /\ Len(w) \in Nat
        /\ \A i \in 1..Len(up) : (up \o w)[i] = up[i]
        /\ \A i \in 1..Len(w) : (up \o w)[Len(up) + i] = w[i]
        /\ \A i \in 1..Len(up \o w) : \/ i \in 1..Len(up) /\ (up \o w)[i] = up[i]
                                      \/ i - Len(up) \in 1..Len(w) /\ (up \o w)[i] = w[i - Len(up)]
    BY JoinFacts
  <1>2. PICK x : x = up \o w
    OBVIOUS
  <1> SUFFICES InOrder(x, G)
    BY <1>2
  <1> SUFFICES ASSUME NEW i \in 1..Len(x), NEW n \in 1..(x[i].seq - 1), n \notin G
               PROVE  \E j \in 1..(i - 1) : x[j].seq = n
    BY DEF InOrder
  <1>3. CASE i \in 1..Len(up) /\ x[i] = up[i]
    <2>1. PICK j \in 1..(i - 1) : up[j].seq = n
      BY <1>3 DEF InOrder
    <2>2. j \in 1..Len(up)
      BY <1>1, <1>3
    <2> QED BY <1>1, <1>2, <2>1, <2>2
  <1>4. CASE i - Len(up) \in 1..Len(w) /\ x[i] = w[i - Len(up)]
    <2>1. Carries(up, n) \/ \E j \in 1..((i - Len(up)) - 1) : w[j].seq = n
      BY <1>4 DEF Follows
    <2>2. CASE Carries(up, n)
      <3>1. PICK j \in 1..Len(up) : up[j].seq = n
        BY <2>2 DEF Carries
      <3>2. j \in 1..(i - 1) /\ x[j] = up[j]
        BY <1>1, <1>2, <1>4
      <3> QED BY <3>1, <3>2
    <2>3. CASE \E j \in 1..((i - Len(up)) - 1) : w[j].seq = n
      <3>1. PICK j \in 1..((i - Len(up)) - 1) : w[j].seq = n
        BY <2>3
      <3>2. j \in 1..Len(w) /\ Len(up) + j \in 1..(i - 1)
        BY <1>1, <1>4
      <3>3. x[Len(up) + j] = w[j]
        BY <1>1, <1>2, <3>2
      <3> QED BY <3>1, <3>2, <3>3
    <2> QED BY <2>1, <2>2, <2>3
  <1> QED BY <1>1, <1>2, <1>3, <1>4

\* A send while everything earlier is on the socket.
LEMMA SendFollows ==
    ASSUME NEW up \in Seq(Frame), NEW w \in Seq(Frame), NEW G, NEW m \in Nat,
           Within(w, m + 1), Covers(up, m, G)
    PROVE  Follows(w, up, G)
  <1> SUFFICES ASSUME NEW i \in 1..Len(w), NEW n \in 1..(w[i].seq - 1) PROVE n \in G \/ Carries(up, n)
    BY DEF Follows
  <1>1. w[i].seq \in Nat /\ w[i].seq <= m + 1
    BY FrameTypes DEF Within
  <1>2. n \in 1..m
    BY <1>1
  <1> QED BY <1>2 DEF Covers

\* A replay is sorted and has everything that is not settled.
LEMMA ReplayFollows ==
    ASSUME NEW up, NEW w \in Seq(Frame), NEW G, NEW m \in Nat,
           Sorted(w), Within(w, m), Covers(w, m, G)
    PROVE  Follows(w, up, G)
  <1> SUFFICES ASSUME NEW i \in 1..Len(w), NEW n \in 1..(w[i].seq - 1), n \notin G
               PROVE  \E j \in 1..(i - 1) : w[j].seq = n
    BY DEF Follows
  <1>1. Len(w) \in Nat /\ \A k \in 1..Len(w) : w[k].seq \in Nat
    BY FrameTypes
  <1>2. w[i].seq \in Nat /\ w[i].seq <= m
    BY <1>1 DEF Within
  <1>3. n \in 1..m /\ n < w[i].seq
    BY <1>2
  <1>4. PICK j \in 1..Len(w) : w[j].seq = n
    BY <1>3 DEF Covers, Carries
  <1>5. ~(i <= j)
    <2> SUFFICES ASSUME i <= j PROVE FALSE
      OBVIOUS
    <2>1. CASE i = j
      BY <1>2, <1>3, <1>4, <2>1
    <2>2. CASE i < j
      <3>1. w[i].seq < w[j].seq
        BY <2>2 DEF Sorted
      <3> QED BY <1>2, <1>3, <1>4, <3>1
    <2> QED BY <1>1, <2>1, <2>2
  <1>6. j \in 1..(i - 1)
    BY <1>1, <1>5
  <1> QED BY <1>4, <1>6

LEMMA TurnFlow ==
    ASSUME NEW q \in Seq(Socket), NEW s \in 1..Len(q), NEW t, NEW client, NEW server, NEW up, NEW down,
           Turned(t, q, s, client, server, up, down), NEW G, NEW H, G \subseteq H,
           AcksSettled(q, G), SocketsInOrder(q, G),
           Confirms(down, H), server = "open" => InOrder(up, H)
    PROVE  AcksSettled(t, H) /\ SocketsInOrder(t, H)
  <1> SUFFICES ASSUME NEW i \in 1..Len(q)
               PROVE  Confirms(t[i].down, H) /\ (t[i].server = "open" => InOrder(t[i].up, H))
    BY DEF Turned, AcksSettled, SocketsInOrder
  <1>1. CASE i = s
    BY <1>1 DEF Turned
  <1>2. CASE i # s
    <2>1. t[i] = q[i]
      BY <1>2 DEF Turned
    <2>2. Confirms(q[i].down, G) /\ (q[i].server = "open" => InOrder(q[i].up, G))
      BY DEF AcksSettled, SocketsInOrder
    <2> QED BY <2>1, <2>2, ConfirmsUp, InOrderUp
  <1> QED BY <1>1, <1>2

LEMMA FlowUp ==
    ASSUME NEW q \in Seq(Socket), NEW G, NEW H, G \subseteq H, AcksSettled(q, G), SocketsInOrder(q, G)
    PROVE  AcksSettled(q, H) /\ SocketsInOrder(q, H)
  <1> SUFFICES ASSUME NEW i \in 1..Len(q)
               PROVE  Confirms(q[i].down, H) /\ (q[i].server = "open" => InOrder(q[i].up, H))
    BY DEF AcksSettled, SocketsInOrder
  <1>2. Confirms(q[i].down, G) /\ (q[i].server = "open" => InOrder(q[i].up, G))
    BY DEF AcksSettled, SocketsInOrder
  <1> QED BY <1>2, ConfirmsUp, InOrderUp

\* Before the first number there is nothing to lose.
LEMMA NothingToLose ==
    ASSUME TypeInv', Given', nextSeq' = 0
    PROVE  Flow'
  <1>1. /\ outbound' \in Seq(Frame) /\ sock' \in Seq(Socket)
        /\ OnSockets(sock', 0)
        /\ \A c \in Copy : cursors'[c].box = box' => cursors'[c].seq <= 0
    BY DEF TypeInv, TypeOK, Given
  <1>2. PICK q \in Seq(Socket) : q = sock'
    BY <1>1
  <1>3. PICK G : G = gone'
    OBVIOUS
  <1>4. \A n \in Int : n <= 0 => Settled(n, G)
    BY DEF Settled
  <1>5. AcksSettled(q, G)
    <2> SUFFICES ASSUME NEW s \in 1..Len(q), NEW i \in 1..Len(q[s].down)
                 PROVE  Settled(q[s].down[i].ack, G)
      BY DEF AcksSettled, Confirms
    <2>1. q[s].down \in Seq(Item) /\ Acks(q[s].down, 0)
      BY <1>1, <1>2, SocketTypes DEF OnSockets
    <2>2. q[s].down[i].ack \in Nat /\ q[s].down[i].ack <= 0
      BY <2>1, ItemTypes DEF Acks
    <2> QED BY <1>4, <2>2
  <1>6. SocketsInOrder(q, G)
    <2> SUFFICES ASSUME NEW s \in 1..Len(q), NEW i \in 1..Len(q[s].up), NEW n \in 1..(q[s].up[i].seq - 1)
                 PROVE  FALSE
      BY DEF SocketsInOrder, InOrder
    <2>1. q[s].up \in Seq(Frame) /\ Within(q[s].up, 0)
      BY <1>1, <1>2, SocketTypes DEF OnSockets
    <2>2. q[s].up[i].seq \in Nat /\ q[s].up[i].seq <= 0
      BY <2>1, FrameTypes DEF Within
    <2> QED BY <2>2
  <1>7. CursorsSettled'
    <2>1. cursors' \in [Copy -> Mark]
      BY DEF TypeInv, TypeOK
    <2>2. \A c \in Copy : cursors'[c].seq \in Int
      BY <2>1 DEF Mark, Number
    <2>3. \A c \in Copy : cursors'[c].box = box' => Settled(cursors'[c].seq, G)
      BY <1>1, <1>4, <2>2
    <2> QED BY <1>3, <2>3 DEF CursorsSettled
  <1>8. \A up : Covers(up, 0, G)
    BY DEF Covers
  <1>9. AllOnSocket'
    BY <1>3, <1>8 DEF AllOnSocket, AllOn
  <1> QED BY <1>2, <1>3, <1>5, <1>6, <1>7, <1>8, <1>9 DEF Flow

-----------------------------------------------------------------------------
(***************************************************************************)
(* Nothing is lost as long as no send overtakes a hand-off.                *)
(***************************************************************************)
LEMMA ShapeParts ==
    ASSUME ShapeInv
    PROVE  /\ TypeOK /\ nextSeq <= sent /\ BacklogOK /\ Given /\ SocketsOK /\ nextSeq \in Nat
           /\ outbound \in Seq(Frame) /\ sock \in Seq(Socket) /\ sentUpTo \in Nat /\ sentUpTo <= nextSeq
  BY DEF ShapeInv, TypeInv, Shape, TypeOK, Number, Given

LEMMA CarriesWritten ==
    ASSUME NEW s \in Seq(Frame), NEW held, NEW upTo, NEW i \in 1..Len(s), s[i].seq > upTo
    PROVE  Carries(toWrite(s, held, upTo), s[i].seq)
  <1>1. \E n \in 1..Len(toWrite(s, held, upTo)) : toWrite(s, held, upTo)[n] = s[i]
    BY WriteFacts
  <1> QED BY <1>1 DEF Carries

LEMMA CarriesKept ==
    ASSUME NEW s \in Seq(Frame), NEW held, NEW i \in 1..Len(s), s[i].seq # 0
    PROVE  held => Carries(toKeep(s, held), s[i].seq)
  <1> SUFFICES ASSUME held PROVE Carries(toKeep(s, held), s[i].seq)
    OBVIOUS
  <1> DEFINE K == {k \in DOMAIN s : held /\ s[k].seq # 0}
  <1>1. K \subseteq 1..Len(s) /\ i \in K
    OBVIOUS
  <1>2. toKeep(s, held) = picked(s, K)
    BY DEF toKeep
  <1> HIDE DEF K
  <1>3. \E n \in 1..Len(picked(s, K)) : picked(s, K)[n] = s[i]
    BY <1>1, PickedThins DEF Has
  <1>4. Carries(picked(s, K), s[i].seq)
    BY <1>3 DEF Carries
  <1> QED BY <1>2, <1>4

LEMMA FlowSend ==
    ASSUME ShapeInv, ShapeInv', Flow, NEW beat \in BOOLEAN, TransportSend(beat), ~raced'
    PROVE  Flow'
  <1>0. /\ TypeOK /\ nextSeq <= sent /\ BacklogOK /\ Given /\ Flow /\ nextSeq \in Nat
        /\ outbound \in Seq(Frame) /\ sock \in Seq(Socket) /\ sentUpTo \in Nat /\ sentUpTo <= nextSeq
    BY ShapeParts
  <1>1. /\ nextSeq' = (IF session THEN nextSeq + 1 ELSE nextSeq)
        /\ UNCHANGED <<box, session, socket, cursors, reached>>
    BY <1>0, SendFacts
  <1>2. PICK frame \in Frame, all \in Seq(Frame), kept \in Seq(Frame) : Sends(frame, all, kept)
    BY <1>0, SendFacts
  <1>3. CASE ~session
    <2>1. nextSeq' = 0
      BY <1>0, <1>1, <1>3 DEF BacklogOK
    <2> QED BY <2>1, NothingToLose DEF ShapeInv, Shape
  <1>4. CASE session
    <2>1. PICK G, H : G = gone /\ H = gone'
      OBVIOUS
    <2>2. G \subseteq H /\ Numbers(all) \ Numbers(kept) \subseteq H
      BY <1>1, <1>2, <2>1 DEF Sends, gone
    <2>3. /\ all = Append(outbound, frame) /\ frame.seq = nextSeq + 1 /\ kept = capped(all)
          /\ nextSeq' = nextSeq + 1
      BY <1>1, <1>2, <1>4 DEF Sends
    <2>4. Numbered(all) /\ Within(all, nextSeq + 1)
      BY <1>0, <1>4, <2>3, SortedAppend DEF BacklogOK, Given
    <2>5. Numbered(kept) /\ Within(kept, nextSeq + 1)
      <3>1. Thins(kept, all)
        BY <2>3, CappedFacts
      <3>2. nextSeq + 1 \in Nat
        BY <1>0
      <3> QED BY <2>4, <3>1, <3>2, ThinFacts
    <2>6. \A n \in 1..(nextSeq + 1) : n \in G \/ Carries(all, n)
      <3> SUFFICES ASSUME NEW n \in 1..(nextSeq + 1), n \notin G PROVE Carries(all, n)
        OBVIOUS
      <3>0. /\ Len(all) = Len(outbound) + 1 /\ Len(outbound) \in Nat /\ all[Len(outbound) + 1] = frame
            /\ \A i \in 1..Len(outbound) : i \in 1..Len(all) /\ all[i] = outbound[i]
        BY <1>0, <2>3, AppendFacts
      <3>1. CASE n = nextSeq + 1
        <4>1. Len(outbound) + 1 \in 1..Len(all)
          BY <3>0
        <4> QED BY <2>3, <3>0, <3>1, <4>1 DEF Carries
      <3>2. CASE n \in 1..nextSeq
        <4>1. Carries(outbound, n)
          BY <1>0, <2>1, <3>2 DEF Flow, Covers
        <4> QED BY <3>0, <4>1 DEF Carries
      <3> QED BY <1>0, <3>1, <3>2
    <2>7. Covers(kept, nextSeq + 1, H)
      <3> SUFFICES ASSUME NEW n \in 1..(nextSeq + 1), n \notin H PROVE Carries(kept, n)
        BY DEF Covers
      <3>1. Carries(all, n)
        BY <2>2, <2>6
      <3>2. n \in Numbers(all)
        BY <3>1, NumbersFacts DEF Carries
      <3>3. n \in Numbers(kept)
        BY <2>2, <3>2
      <3> QED BY <3>3, NumbersFacts DEF Carries
    <2>8. Covers(toKeep(kept, session), nextSeq + 1, H)
      <3> SUFFICES ASSUME NEW n \in 1..(nextSeq + 1), n \notin H PROVE Carries(toKeep(kept, session), n)
        BY DEF Covers
      <3>1. PICK i \in 1..Len(kept) : kept[i].seq = n
        BY <2>7 DEF Covers, Carries
      <3>2. kept[i].seq # 0
        BY <2>5 DEF Numbered
      <3> QED BY <1>4, <3>1, <3>2, CarriesKept
    <2>9. Covers(outbound', nextSeq + 1, H)
      BY <1>2, <2>7, <2>8 DEF Sends
    <2>10. CursorsSettled'
      BY <1>0, <1>1, <2>1, <2>2 DEF Flow, CursorsSettled, Settled
    <2>11. AcksSettled(sock, G) /\ SocketsInOrder(sock, G)
      BY <1>0, <2>1 DEF Flow
    <2>12. CASE ~isOpen
      <3>1. sock' = sock
        BY <1>2, <2>12 DEF Sends
      <3>2. AcksSettled(sock, H) /\ SocketsInOrder(sock, H)
        BY <1>0, <2>2, <2>11, FlowUp
      <3>3. AllOnSocket'
        BY <1>1, <2>12, <3>1 DEF AllOnSocket, AllOn, isOpen
      <3> QED BY <2>1, <2>3, <2>9, <2>10, <3>1, <3>2, <3>3 DEF Flow
    <2>13. CASE isOpen
      <3> DEFINE w == toWrite(kept, session, sentUpTo)
                 out == wire(socket, w)
                 up == sock[socket].up
      <3>1. PICK t : t = sock'
        OBVIOUS
      <3>2. /\ socket \in 1..Len(sock) /\ socket # 0
            /\ Turned(t, sock, socket, sock[socket].client, sock[socket].server,
                      up \o out, sock[socket].down)
            /\ ~awaitsHandOff
        BY <1>2, <1>4, <2>13, <3>1 DEF Sends, isOpen
      <3>3. /\ up \in Seq(Frame) /\ sock[socket].down \in Seq(Item)
            /\ sock[socket].client = "open"
        BY <1>0, <2>13, <3>2, SocketTypes DEF isOpen
      <3>4. ~HandOff(sock[socket].down)
        BY <3>2, <3>3 DEF HandOff, awaitsHandOff
      <3>5. /\ Confirms(sock[socket].down, G)
            /\ sock[socket].server = "open" => InOrder(up, G) /\ Covers(up, nextSeq, G)
        BY <1>0, <1>4, <2>1, <2>11, <3>2, <3>3, <3>4 DEF Flow, AcksSettled, SocketsInOrder, AllOnSocket, AllOn
      <3>6. w \in Seq(Frame) /\ Within(w, nextSeq + 1)
        BY <1>0, <2>5, WriteFacts, ThinFacts
      <3>7. sock[socket].server = "open" => out = w
        BY DEF wire
      <3>8. Confirms(sock[socket].down, H)
        BY <2>2, <3>5, ConfirmsUp
      <3>a. \A i \in 1..Len(kept) : kept[i].seq > sentUpTo => Carries(w, kept[i].seq)
        BY CarriesWritten
      <3> HIDE DEF w, out, up
      <3>9. ASSUME sock[socket].server = "open"
            PROVE  InOrder(up \o out, H) /\ Covers(up \o out, nextSeq + 1, H)
        <4>1. InOrder(up, H) /\ Covers(up, nextSeq, H) /\ out = w
          BY <2>2, <3>5, <3>7, <3>9, InOrderUp, CoversUp
        <4>2. Follows(w, up, H)
          BY <1>0, <3>3, <3>6, <4>1, SendFollows
        <4>3. InOrder(up \o w, H)
          BY <3>3, <3>6, <4>1, <4>2, InOrderJoin
        <4>4. ASSUME NEW n \in 1..(nextSeq + 1), n \notin H
              PROVE  Carries(up, n) \/ Carries(w, n)
          <5>1. CASE n \in 1..nextSeq
            BY <4>1, <4>4, <5>1 DEF Covers
          <5>2. CASE n = nextSeq + 1
            <6>1. PICK i \in 1..Len(kept) : kept[i].seq = n
              BY <2>7, <4>4 DEF Covers, Carries
            <6>2. kept[i].seq > sentUpTo
              BY <1>0, <5>2, <6>1
            <6> QED BY <3>a, <6>1, <6>2
          <5> QED BY <1>0, <5>1, <5>2
        <4>5. Covers(up \o w, nextSeq + 1, H)
          BY <3>3, <3>6, <4>4, CarriesJoin DEF Covers
        <4> QED BY <4>1, <4>3, <4>5
      <3>10. AcksSettled(t, H) /\ SocketsInOrder(t, H)
        <4>1. sock[socket].server = "open" => InOrder(up \o out, H)
          BY <3>9
        <4> QED BY <1>0, <2>2, <2>11, <3>2, <3>8, <4>1, TurnFlow
      <3>11. AllOnSocket'
        <4>1. t[socket].server = sock[socket].server /\ t[socket].up = up \o out
          BY <3>2 DEF Turned
        <4> QED BY <1>1, <2>1, <2>3, <3>1, <3>9, <4>1 DEF AllOnSocket, AllOn
      <3> QED BY <2>1, <2>3, <2>9, <2>10, <3>1, <3>10, <3>11 DEF Flow
    <2> QED BY <2>12, <2>13
  <1> QED BY <1>3, <1>4

LEMMA FlowRead ==
    ASSUME ShapeInv, ShapeInv', Flow, ClientReads
    PROVE  Flow'
  <1>0. /\ TypeOK /\ BacklogOK /\ Given /\ SocketsOK /\ Flow /\ nextSeq \in Nat
        /\ outbound \in Seq(Frame) /\ sock \in Seq(Socket)
    BY ShapeParts
  <1>1. /\ socket \in 1..Len(sock)
        /\ UNCHANGED <<box, nextSeq, socket, cursors, reached, discarded>>
    BY <1>0, ReadFacts
  <1>2. PICK item \in Item, kept \in Seq(Frame), upTo \in Nat, out \in Seq(Frame) :
                 Reads(item, kept, upTo, out)
    BY <1>0, ReadFacts
  <1>3. CASE ~session
    <2>1. nextSeq' = 0
      BY <1>0, <1>1, <1>3 DEF BacklogOK
    <2> QED BY <2>1, NothingToLose DEF ShapeInv, Shape
  <1>4. CASE session
    <2>1. PICK G : G = gone
      OBVIOUS
    <2>2. gone' = G
      BY <1>1, <2>1 DEF gone
    <2> DEFINE up == sock[socket].up
               down == sock[socket].down
               server == sock[socket].server
    <2>3. /\ up \in Seq(Frame) /\ down \in Seq(Item) /\ Confirms(down, G)
          /\ server = "open" => InOrder(up, G)
      BY <1>0, <1>1, <2>1, SocketTypes DEF Flow, AcksSettled, SocketsInOrder
    <2>4. /\ item = down[1] /\ down # << >>
          /\ kept = (IF item.kind = "open" THEN outbound ELSE acknowledge(outbound, item.ack))
          /\ item.kind = "session" => upTo = item.ack
      BY <1>2 DEF Reads
    <2>5. /\ Tail(down) \in Seq(Item) /\ Len(Tail(down)) = Len(down) - 1 /\ Len(down) \in Nat \ {0}
          /\ \A i \in 1..Len(Tail(down)) : i + 1 \in 1..Len(down) /\ Tail(down)[i] = down[i + 1]
          /\ 1 \in 1..Len(down)
      BY <2>3, <2>4, QueueFacts
    <2>6. Settled(item.ack, G) /\ Confirms(Tail(down), G) /\ item.ack \in Nat
      <3>1. item.ack \in Nat
        BY DEF Item, Number
      <3> QED BY <2>3, <2>4, <2>5, <3>1 DEF Confirms
    <2>7. Thins(kept, outbound) /\ Sorted(kept) /\ Numbered(kept) /\ Within(kept, nextSeq)
      <3>1. Thins(acknowledge(outbound, item.ack), outbound)
        BY <1>0, <2>6, AcknowledgeFacts
      <3>2. Thins(outbound, outbound)
        BY <1>0 DEF Thins
      <3>3. Thins(kept, outbound)
        BY <2>4, <3>1, <3>2
      <3> QED BY <1>0, <1>4, <3>3, ThinFacts DEF Thins, BacklogOK, Given
    <2>8. \A n \in 1..nextSeq : n \notin G => Carries(kept, n) /\ n > item.ack
      <3> SUFFICES ASSUME NEW n \in 1..nextSeq, n \notin G PROVE Carries(kept, n) /\ n > item.ack
        OBVIOUS
      <3>1. n > item.ack
        BY <1>0, <2>6 DEF Settled
      <3>2. PICK i \in 1..Len(outbound) : outbound[i].seq = n
        BY <1>0, <2>1 DEF Flow, Covers, Carries
      <3>3. \E k \in 1..Len(acknowledge(outbound, item.ack)) : acknowledge(outbound, item.ack)[k] = outbound[i]
        BY <1>0, <2>6, <3>1, <3>2, AcknowledgeFacts
      <3>4. \E k \in 1..Len(kept) : kept[k] = outbound[i]
        BY <2>4, <3>3
      <3> QED BY <3>1, <3>2, <3>4 DEF Carries
    <2>9. Covers(kept, nextSeq, G)
      BY <2>8 DEF Covers
    <2>10. Covers(toKeep(kept, TRUE), nextSeq, G)
      <3> SUFFICES ASSUME NEW n \in 1..nextSeq, n \notin G PROVE Carries(toKeep(kept, TRUE), n)
        BY DEF Covers
      <3>1. PICK i \in 1..Len(kept) : kept[i].seq = n
        BY <2>9 DEF Covers, Carries
      <3>2. kept[i].seq # 0
        BY <2>7 DEF Numbered
      <3> QED BY <3>1, <3>2, CarriesKept
    <2>11. (session \/ item.kind = "session") = TRUE
      BY <1>4
    <2>12. /\ session' = TRUE
           /\ outbound' = kept \/ outbound' = toKeep(kept, TRUE)
           /\ out = (IF item.kind = "session" THEN wire(socket, toWrite(kept, TRUE, upTo)) ELSE << >>)
      BY <1>2, <1>4, <2>11 DEF Reads, flushesOn
    <2>13. Covers(outbound', nextSeq, G)
      BY <2>9, <2>10, <2>12
    <2>14. CursorsSettled'
      BY <1>0, <1>1, <2>1, <2>2 DEF Flow, CursorsSettled
    <2>15. PICK t : t = sock'
      OBVIOUS
    <2>16. Turned(t, sock, socket, "open", server, up \o out, Tail(down))
      BY <1>2, <2>15 DEF Reads
    <2>17. /\ server = "open" => InOrder(up \o out, G)
           /\ AllOn("open", server, up \o out, Tail(down), nextSeq, G)
      <3>1. CASE item.kind = "session" /\ server = "open"
        <4> DEFINE w == toWrite(kept, TRUE, upTo)
        <4>1. out = w
          BY <2>12, <3>1 DEF wire
        <4>2. Thins(w, kept)
          BY WriteFacts
        <4>3. w \in Seq(Frame) /\ Sorted(w) /\ Within(w, nextSeq)
          BY <1>0, <2>7, <4>2, ThinFacts DEF Thins
        <4>4. Covers(w, nextSeq, G)
          <5> SUFFICES ASSUME NEW n \in 1..nextSeq, n \notin G PROVE Carries(w, n)
            BY DEF Covers
          <5>1. PICK i \in 1..Len(kept) : kept[i].seq = n
            BY <2>8 DEF Carries
          <5>2. kept[i].seq > upTo
            BY <2>4, <2>8, <3>1, <5>1
          <5> QED BY <5>1, <5>2, CarriesWritten
        <4> HIDE DEF w
        <4>5. Follows(w, up, G)
          BY <1>0, <4>3, <4>4, ReplayFollows
        <4>6. InOrder(up \o w, G)
          BY <2>3, <3>1, <4>3, <4>5, InOrderJoin
        <4>7. Covers(up \o w, nextSeq, G)
          BY <2>3, <4>3, <4>4, CarriesJoin DEF Covers
        <4> QED BY <4>1, <4>6, <4>7 DEF AllOn
      <3>2. CASE item.kind # "session"
        <4>1. out = << >> /\ up \o out = up
          BY <2>3, <2>12, <3>2, ConcatEmptySeq
        <4>2. AllOn("open", server, up, Tail(down), nextSeq, G)
          <5> SUFFICES ASSUME server = "open", ~HandOff(Tail(down)) PROVE Covers(up, nextSeq, G)
            BY DEF AllOn
          <5>1. SocketOK(sock[socket].client, up, down)
            BY <1>0, <1>1 DEF SocketsOK
          <5>2. sock[socket].client # "dialling"
            <6> SUFFICES ASSUME sock[socket].client = "dialling" PROVE FALSE
              OBVIOUS
            <6>1. Len(down) >= 2 /\ down[2].kind = "session"
              BY <2>4, <5>1 DEF SocketOK
            <6>2. 1 \in 1..Len(Tail(down)) /\ Tail(down)[1] = down[2]
              BY <2>5, <6>1
            <6> QED BY <6>1, <6>2 DEF HandOff
          <5>3. sock[socket].client # "gone"
            BY <2>4, <5>1 DEF SocketOK
          <5>4. sock[socket].client = "open"
            BY <1>0, <1>1, <5>2, <5>3, SocketTypes
          <5>5. ~HandOff(down)
            <6> SUFFICES ASSUME NEW i \in 1..Len(down), down[i].kind = "session" PROVE FALSE
              BY DEF HandOff
            <6>1. i # 1
              BY <2>4, <3>2
            <6>2. i - 1 \in 1..Len(Tail(down)) /\ (i - 1) + 1 = i
              BY <2>5, <6>1
            <6>3. Tail(down)[i - 1] = down[i]
              BY <2>5, <6>2
            <6> QED BY <6>2, <6>3 DEF HandOff
          <5>6. socket # 0
            BY <1>1
          <5> QED BY <1>0, <1>4, <2>1, <5>4, <5>5, <5>6 DEF Flow, AllOnSocket, AllOn
        <4> QED BY <2>3, <4>1, <4>2
      <3>3. CASE server # "open"
        BY <3>3 DEF AllOn
      <3> QED BY <3>1, <3>2, <3>3
    <2> HIDE DEF up, down, server
    <2>18. AcksSettled(sock, G) /\ SocketsInOrder(sock, G)
      BY <1>0, <2>1 DEF Flow
    <2>19. AcksSettled(t, G) /\ SocketsInOrder(t, G)
      BY <1>0, <1>1, <2>6, <2>16, <2>17, <2>18, TurnFlow
    <2>20. AllOnSocket'
      <3>1. /\ t[socket].client = "open" /\ t[socket].server = server /\ t[socket].up = up \o out
            /\ t[socket].down = Tail(down)
        BY <2>16 DEF Turned
      <3> QED BY <1>1, <2>2, <2>15, <2>17, <3>1 DEF AllOnSocket
    <2> QED BY <1>1, <2>2, <2>13, <2>14, <2>15, <2>19, <2>20 DEF Flow
  <1> QED BY <1>3, <1>4

LEMMA FlowFrame ==
    ASSUME ShapeInv, Flow, NEW s \in Dialled, OnFrame(s)
    PROVE  Flow'
  <1>0. TypeOK /\ Flow /\ Given /\ nextSeq \in Nat /\ sock \in Seq(Socket)
    BY ShapeParts
  <1>1. /\ s \in 1..Len(sock) /\ sock[s].server = "open" /\ sock[s].up # << >>
        /\ UNCHANGED <<box, session, nextSeq, outbound, socket, discarded>>
    BY <1>0, FrameFacts DEF supervisor
  <1>2. PICK c \in Copy, seq \in Number, upTo \in Number : Takes(s, c, seq, upTo)
    BY <1>0, FrameFacts
  <1>3. PICK G, H : G = gone /\ H = gone'
    OBVIOUS
  <1> DEFINE up == sock[s].up
             down == sock[s].down
             answer == IF seq = 0 \/ sock[s].client = "gone" THEN down
                       ELSE Append(down, [kind |-> "ack", ack |-> upTo])
  <1>4. /\ up \in Seq(Frame) /\ down \in Seq(Item) /\ Confirms(down, G) /\ InOrder(up, G)
        /\ AcksSettled(sock, G) /\ SocketsInOrder(sock, G)
    BY <1>0, <1>1, <1>3, SocketTypes DEF Flow, AcksSettled, SocketsInOrder
  <1>5. PICK t : t = sock'
    OBVIOUS
  <1>6. /\ Turned(t, sock, s, sock[s].client, "open", Tail(up), answer) /\ seq = up[1].seq
        /\ upTo = (IF seq > cursorFor(c) THEN seq ELSE cursorFor(c))
        /\ seq = 0 => UNCHANGED <<cursors, applied, reached>>
        /\ seq # 0 => /\ cursors'[c].box = box /\ cursors'[c].seq = upTo
                      /\ \A d \in Copy : d # c => cursors'[d] = cursors[d]
                      /\ reached' = IF seq > cursorFor(c) THEN reached \cup {seq} ELSE reached
    BY <1>2, <1>5 DEF Takes
  <1>7. G \subseteq H
    BY <1>1, <1>3, <1>6 DEF gone
  <1>8. seq \in Nat /\ cursorFor(c) \in Nat /\ upTo \in Nat /\ Settled(cursorFor(c), G)
    <2>1. cursorFor(c) \in Nat /\ seq \in Nat
      BY <1>0, CursorType DEF Number
    <2>2. Settled(cursorFor(c), G)
      BY <1>0, <1>3 DEF Flow, CursorsSettled, cursorFor, Settled
    <2> QED BY <1>6, <2>1, <2>2
  <1>9. seq # 0 => seq \in H /\ Settled(upTo, H)
    <2> SUFFICES ASSUME seq # 0 PROVE seq \in H /\ Settled(upTo, H)
      OBVIOUS
    <2>1. CASE seq > cursorFor(c)
      <3>1. upTo = seq /\ seq \in H
        BY <1>3, <1>6, <2>1 DEF gone
      <3>2. \A n \in 1..(seq - 1) : n \in G
        BY <1>1, <1>4, <1>6, InOrderHead
      <3>3. \A n \in 1..seq : n \in H
        BY <1>7, <1>8, <3>1, <3>2
      <3> QED BY <3>1, <3>3 DEF Settled
    <2>2. CASE ~(seq > cursorFor(c))
      <3>1. upTo = cursorFor(c) /\ seq \in 1..cursorFor(c)
        BY <1>6, <1>8, <2>2
      <3> QED BY <1>7, <1>8, <3>1 DEF Settled
    <2> QED BY <2>1, <2>2
  <1>10. up[1].seq = 0 \/ up[1].seq \in H
    BY <1>6, <1>9
  <1>11. InOrder(Tail(up), H)
    BY <1>1, <1>4, <1>7, <1>10, InOrderTail
  <1>12. /\ Confirms(answer, H) /\ (HandOff(down) => HandOff(answer))
    <2>1. Confirms(down, H)
      BY <1>4, <1>7, ConfirmsUp
    <2>2. CASE answer = down
      BY <2>1, <2>2
    <2>3. CASE seq # 0 /\ answer = Append(down, [kind |-> "ack", ack |-> upTo])
      <3>1. PICK e \in Item : e = [kind |-> "ack", ack |-> upTo]
        BY DEF Item
      <3>2. /\ Len(Append(down, e)) = Len(down) + 1 /\ Len(down) \in Nat
            /\ \A i \in 1..Len(down) : i \in 1..Len(Append(down, e)) /\ Append(down, e)[i] = down[i]
            /\ \A i \in 1..Len(Append(down, e)) : \/ i \in 1..Len(down) /\ Append(down, e)[i] = down[i]
                                                  \/ i = Len(down) + 1 /\ Append(down, e)[i] = e
        BY <1>4, AppendFacts
      <3>3. Settled(e.ack, H)
        BY <1>9, <2>3, <3>1
      <3>4. Confirms(Append(down, e), H)
        BY <2>1, <3>2, <3>3 DEF Confirms
      <3>5. HandOff(down) => HandOff(Append(down, e))
        BY <3>2 DEF HandOff
      <3> QED BY <2>3, <3>1, <3>4, <3>5
    <2> QED BY <2>2, <2>3
  <1> HIDE DEF answer
  <1>13. AcksSettled(t, H) /\ SocketsInOrder(t, H)
    BY <1>0, <1>1, <1>4, <1>6, <1>7, <1>11, <1>12, TurnFlow
  <1>14. Covers(outbound, nextSeq, H)
    BY <1>0, <1>3, <1>7, CoversUp DEF Flow
  <1>15. CursorsSettled'
    <2> SUFFICES ASSUME NEW d \in Copy, cursors'[d].box = box PROVE Settled(cursors'[d].seq, H)
      BY <1>1, <1>3 DEF CursorsSettled
    <2>1. CASE seq = 0 \/ d # c
      <3>1. cursors'[d] = cursors[d]
        BY <1>6, <2>1
      <3>2. Settled(cursors[d].seq, G)
        BY <1>0, <1>3, <3>1 DEF Flow, CursorsSettled
      <3> QED BY <1>7, <3>1, <3>2 DEF Settled
    <2>2. CASE seq # 0 /\ d = c
      BY <1>6, <1>9, <2>2
    <2> QED BY <2>1, <2>2
  <1>16. AllOnSocket'
    <2> SUFFICES ASSUME session, socket # 0
                 PROVE  AllOn(t[socket].client, t[socket].server, t[socket].up, t[socket].down, nextSeq, H)
      BY <1>1, <1>3, <1>5 DEF AllOnSocket
    <2>1. AllOn(sock[socket].client, sock[socket].server, sock[socket].up, sock[socket].down, nextSeq, G)
      BY <1>0, <1>3 DEF Flow, AllOnSocket
    <2>2. CASE socket # s
      <3>1. socket \in 1..Len(sock)
        BY <1>0 DEF TypeOK
      <3>2. t[socket] = sock[socket]
        BY <1>6, <2>2, <3>1 DEF Turned
      <3> QED BY <1>7, <2>1, <3>2, CoversUp DEF AllOn
    <2>3. CASE socket = s
      <3>1. /\ t[s].client = sock[s].client /\ t[s].server = "open" /\ t[s].up = Tail(up)
            /\ t[s].down = answer
        BY <1>6 DEF Turned
      <3>2. ASSUME sock[s].client = "open", ~HandOff(answer)
            PROVE  Covers(Tail(up), nextSeq, H)
        <4>1. Covers(up, nextSeq, G)
          BY <1>1, <1>12, <2>1, <2>3, <3>2 DEF AllOn
        <4> QED BY <1>1, <1>4, <1>7, <1>10, <4>1, CoversTail
      <3> QED BY <2>3, <3>1, <3>2 DEF AllOn
    <2> QED BY <2>2, <2>3
  <1> QED BY <1>1, <1>3, <1>5, <1>13, <1>14, <1>15, <1>16 DEF Flow

FlowInv == ShapeInv /\ FlowUnlessRaced

LEMMA FlowNext ==
    ASSUME FlowInv, [Next]_vars
    PROVE  FlowInv'
  <1>0. ShapeInv /\ ShapeInv' /\ (raced \/ Flow)
    BY ShapeNext DEF FlowInv, FlowUnlessRaced
  <1> SUFFICES ASSUME ~raced' PROVE Flow'
    BY <1>0 DEF FlowInv, FlowUnlessRaced
  <1>a. CASE nextSeq' = 0
    BY <1>0, <1>a, NothingToLose DEF ShapeInv, Shape
  <1>b. raced' = TRUE \/ Recreate \/ ~raced
    BY Zenon DEF Next, TransportSend, Connect, CopyRestarts, Attach, OnFrame, ServerDrops, ClientReads,
           SocketLost, WatchdogCloses, GiveUp, history, vars
  <1>c. CASE Recreate
    BY <1>a, <1>c DEF Recreate
  <1>d. CASE ~Recreate
    <2>0. Flow /\ TypeOK /\ SocketsOK /\ sock \in Seq(Socket) /\ outbound \in Seq(Frame) /\ nextSeq \in Nat
      BY <1>0, <1>b, <1>d, ShapeParts
    <2>a. PICK G : G = gone
      OBVIOUS
    <2>b. /\ AcksSettled(sock, G) /\ SocketsInOrder(sock, G) /\ Covers(outbound, nextSeq, G)
          /\ CursorsSettled
      BY <2>0, <2>a DEF Flow
    <2>c. Confirms(<< >>, G) /\ InOrder(<< >>, G)
      BY DEF Confirms, InOrder
    <2>1. ASSUME NEW beat \in BOOLEAN, TransportSend(beat) PROVE Flow'
      BY <1>0, <2>0, <2>1, FlowSend
    <2>2. ASSUME NEW c \in Copy, Connect(c) PROVE Flow'
      <3>1. /\ Len(sock') = Len(sock) + 1 /\ Len(sock) \in Nat /\ socket' = Len(sock) + 1
            /\ \A i \in 1..Len(sock') :
                 \/ i \in 1..Len(sock) /\ sock'[i] = sock[i]
                 \/ /\ i = Len(sock) + 1
                    /\ sock'[i] = [copy |-> c, client |-> "dialling", server |-> "none", up |-> << >>,
                                   down |-> << >>]
        BY <2>0, <2>2, ConnectFacts
      <3>2. UNCHANGED <<box, nextSeq, outbound, cursors, reached, discarded>>
        BY <2>2 DEF Connect, history
      <3>3. gone' = G
        BY <2>a, <3>2 DEF gone
      <3>4. AcksSettled(sock', G) /\ SocketsInOrder(sock', G)
        BY <2>b, <2>c, <3>1 DEF AcksSettled, SocketsInOrder
      <3>5. sock'[socket'].client = "dialling"
        <4>1. socket' \in 1..Len(sock') /\ socket' \notin 1..Len(sock)
          BY <3>1
        <4> QED BY <3>1, <4>1
      <3>6. AllOnSocket'
        BY <3>5 DEF AllOnSocket, AllOn
      <3>7. CursorsSettled'
        BY <2>a, <2>b, <3>2, <3>3 DEF CursorsSettled
      <3> QED BY <2>b, <3>2, <3>3, <3>4, <3>6, <3>7 DEF Flow
    <2>3. ASSUME NEW c \in Copy, CopyRestarts(c) PROVE Flow'
      <3>1. /\ Len(sock') = Len(sock)
            /\ \A i \in 1..Len(sock) :
                 \/ sock'[i] = sock[i]
                 \/ /\ sock'[i].client = sock[i].client /\ sock'[i].down = sock[i].down
                    /\ sock'[i].server = "closed" /\ sock'[i].up = << >>
            /\ cursors'[c].seq = 0 /\ \A d \in Copy : d # c => cursors'[d] = cursors[d]
        BY <2>0, <2>3, RestartFacts
      <3>2. UNCHANGED <<box, session, socket, nextSeq, outbound, reached, discarded>>
        BY <2>3 DEF CopyRestarts, supervisor
      <3>3. gone' = G
        BY <2>a, <3>2 DEF gone
      <3>4. AcksSettled(sock', G) /\ SocketsInOrder(sock', G)
        BY <2>b, <3>1 DEF AcksSettled, SocketsInOrder
      <3>5. AllOnSocket'
        <4> SUFFICES ASSUME session, socket # 0
                     PROVE  AllOn(sock'[socket].client, sock'[socket].server, sock'[socket].up,
                                  sock'[socket].down, nextSeq, G)
          BY <3>2, <3>3 DEF AllOnSocket
        <4>1. socket \in 1..Len(sock)
          BY <2>0 DEF TypeOK
        <4>2. AllOn(sock[socket].client, sock[socket].server, sock[socket].up, sock[socket].down, nextSeq, G)
          BY <2>0, <2>a DEF Flow, AllOnSocket
        <4> QED BY <3>1, <4>1, <4>2 DEF AllOn
      <3>6. CursorsSettled'
        <4>1. Settled(0, G)
          BY DEF Settled
        <4> QED BY <2>a, <2>b, <3>1, <3>2, <3>3, <4>1 DEF CursorsSettled
      <3> QED BY <2>b, <3>2, <3>3, <3>4, <3>5, <3>6 DEF Flow
    <2>4. ASSUME NEW s \in Dialled, Attach(s) PROVE Flow'
      <3>1. PICK t : t = sock'
        OBVIOUS
      <3>2. PICK ack : ack = cursorFor(sock[s].copy)
        OBVIOUS
      <3>3. /\ s \in 1..Len(sock) /\ s = socket /\ sock[s].client = "dialling" /\ sock[s].copy \in Copy
            /\ Turned(t, sock, s, "dialling", "open", sock[s].up, Answer(ack))
            /\ cursors'[sock[s].copy].seq = ack
            /\ \A c \in Copy : c # sock[s].copy => cursors'[c] = cursors[c]
        BY <2>0, <2>4, <3>1, <3>2, AttachFacts
      <3>4. UNCHANGED <<box, session, socket, nextSeq, outbound, reached, discarded>>
        BY <2>4 DEF Attach, history
      <3>5. gone' = G
        BY <2>a, <3>4 DEF gone
      <3>6. Settled(0, G)
        BY DEF Settled
      <3>7. Settled(ack, G)
        BY <2>a, <2>b, <3>2, <3>3, <3>6 DEF CursorsSettled, cursorFor
      <3>8. Confirms(Answer(ack), G)
        BY <3>6, <3>7 DEF Confirms, Answer
      <3>9. sock[s].up = << >>
        BY <2>0, <3>3 DEF SocketsOK, SocketOK
      <3>10. AcksSettled(t, G) /\ SocketsInOrder(t, G)
        BY <2>0, <2>b, <2>c, <3>3, <3>8, <3>9, TurnFlow
      <3>11. t[socket].client = "dialling"
        BY <3>3 DEF Turned
      <3>12. AllOnSocket'
        BY <3>1, <3>4, <3>11 DEF AllOnSocket, AllOn
      <3>13. CursorsSettled'
        BY <2>a, <2>b, <3>3, <3>4, <3>5, <3>7 DEF CursorsSettled
      <3> QED BY <2>b, <3>1, <3>4, <3>5, <3>10, <3>12, <3>13 DEF Flow
    <2>5. ASSUME NEW s \in Dialled, OnFrame(s) PROVE Flow'
      BY <1>0, <2>0, <2>5, FlowFrame
    <2>6. ASSUME NEW s \in Dialled, ServerDrops(s) PROVE Flow'
      <3>1. PICK t : t = sock'
        OBVIOUS
      <3>2. s \in 1..Len(sock) /\ Turned(t, sock, s, sock[s].client, "closed", << >>, sock[s].down)
        BY <2>0, <2>6, <3>1, ServerDropFacts
      <3>3. UNCHANGED <<box, session, socket, nextSeq, outbound, cursors, reached, discarded>>
        BY <2>6 DEF ServerDrops, supervisor, history
      <3>4. gone' = G
        BY <2>a, <3>3 DEF gone
      <3>5. Confirms(sock[s].down, G)
        BY <2>b, <3>2 DEF AcksSettled
      <3>6. AcksSettled(t, G) /\ SocketsInOrder(t, G)
        BY <2>0, <2>b, <3>2, <3>5, TurnFlow
      <3>7. AllOnSocket'
        <4> SUFFICES ASSUME session, socket # 0
                     PROVE  AllOn(t[socket].client, t[socket].server, t[socket].up,
                                  t[socket].down, nextSeq, G)
          BY <3>1, <3>3, <3>4 DEF AllOnSocket
        <4>1. socket \in 1..Len(sock)
          BY <2>0 DEF TypeOK
        <4>2. AllOn(sock[socket].client, sock[socket].server, sock[socket].up, sock[socket].down, nextSeq, G)
          BY <2>0, <2>a DEF Flow, AllOnSocket
        <4> QED BY <3>2, <4>1, <4>2 DEF AllOn, Turned
      <3>8. CursorsSettled'
        BY <2>a, <2>b, <3>3, <3>4 DEF CursorsSettled
      <3> QED BY <2>b, <3>1, <3>3, <3>4, <3>6, <3>7, <3>8 DEF Flow
    <2>7. CASE ClientReads
      BY <1>0, <2>0, <2>7, FlowRead
    <2>d. ASSUME socket # 0, Drop, NEW H, G \subseteq H
          PROVE  AcksSettled(sock', H) /\ SocketsInOrder(sock', H) /\ AllOnSocket'
      <3>1. PICK t : t = sock'
        OBVIOUS
      <3>2. /\ socket \in 1..Len(sock) /\ socket' = 0
            /\ Turned(t, sock, socket, "gone", sock[socket].server, sock[socket].up, << >>)
        BY <2>0, <2>d, <3>1, DropFacts
      <3>3. Confirms(<< >>, H) /\ (sock[socket].server = "open" => InOrder(sock[socket].up, H))
        BY <2>b, <2>c, <2>d, <3>2, ConfirmsUp, InOrderUp DEF SocketsInOrder
      <3>4. AcksSettled(t, H) /\ SocketsInOrder(t, H)
        BY <2>0, <2>b, <2>d, <3>2, <3>3, TurnFlow
      <3> QED BY <3>1, <3>2, <3>4 DEF AllOnSocket
    <2>8. CASE SocketLost
      <3>1. UNCHANGED <<box, nextSeq, outbound, cursors, reached, discarded>>
        BY <2>8 DEF SocketLost, history
      <3>2. gone' = G
        BY <2>a, <3>1 DEF gone
      <3>3. AcksSettled(sock', G) /\ SocketsInOrder(sock', G) /\ AllOnSocket'
        BY <2>8, <2>d DEF SocketLost
      <3>4. CursorsSettled'
        BY <2>a, <2>b, <3>1, <3>2 DEF CursorsSettled
      <3> QED BY <2>b, <3>1, <3>2, <3>3, <3>4 DEF Flow
    <2>9. CASE WatchdogCloses
      <3>1. /\ UNCHANGED <<box, nextSeq, cursors, reached>>
            /\ outbound' = picked(outbound, {i \in DOMAIN outbound : ~outbound[i].beat})
            /\ discarded' = discarded \cup (Numbers(outbound) \ Numbers(outbound'))
        BY <2>9 DEF WatchdogCloses
      <3>2. PICK H, left : H = gone' /\ left = outbound'
        OBVIOUS
      <3>3. G \subseteq H /\ Numbers(outbound) \ Numbers(left) \subseteq H
        BY <2>a, <3>1, <3>2 DEF gone
      <3>4. left \in Seq(Frame)
        <4>1. {i \in DOMAIN outbound : ~outbound[i].beat} \subseteq 1..Len(outbound)
          BY <2>0
        <4> QED BY <2>0, <3>1, <3>2, <4>1, PickedThins DEF Thins
      <3>5. Covers(left, nextSeq, H)
        <4> SUFFICES ASSUME NEW n \in 1..nextSeq, n \notin H PROVE Carries(left, n)
          BY DEF Covers
        <4>1. Carries(outbound, n)
          BY <2>b, <3>3 DEF Covers
        <4>2. n \in Numbers(outbound)
          BY <2>0, <4>1, NumbersFacts DEF Carries
        <4>3. n \in Numbers(left)
          BY <3>3, <4>2
        <4> QED BY <3>4, <4>3, NumbersFacts DEF Carries
      <3>6. AcksSettled(sock', H) /\ SocketsInOrder(sock', H) /\ AllOnSocket'
        BY <2>9, <2>d, <3>3 DEF WatchdogCloses, isOpen
      <3>7. CursorsSettled'
        BY <2>a, <2>b, <3>1, <3>2, <3>3 DEF CursorsSettled, Settled
      <3> QED BY <3>1, <3>2, <3>5, <3>6, <3>7 DEF Flow
    <2>10. CASE GiveUp
      BY <2>0, <2>10 DEF GiveUp, history, Flow, CursorsSettled, AllOnSocket, gone
    <2>11. CASE UNCHANGED vars
      BY <2>0, <2>11 DEF vars, supervisor, history, Flow, CursorsSettled, AllOnSocket, gone
    <2> QED BY <1>d, <2>1, <2>2, <2>3, <2>4, <2>5, <2>6, <2>7, <2>8, <2>9, <2>10, <2>11 DEF Next
  <1> QED BY <1>c, <1>d

\* A number the supervisor no longer keeps was passed on by some copy or was
\* dropped on purpose, through any drops, redials to other copies, restarts of
\* copies and watchdog closes, as long as no frame was written to a socket
\* whose hand-off was not read (ws.ts, flush and acknowledge; server.ts,
\* onFrame and handOffSession).
THEOREM KeptUnlessRacedHolds == Spec => []KeptUnlessRaced
  <1>1. Init => FlowInv
    <2> SUFFICES ASSUME Init PROVE FlowInv
      OBVIOUS
    <2>1. Flow
      <3>1. nextSeq = 0 /\ sock = << >> /\ socket = 0 /\ \A c \in Copy : cursors[c].seq = 0
        BY DEF Init, Booted
      <3> QED BY <3>1 DEF Flow, Covers, CursorsSettled, Settled, AcksSettled, SocketsInOrder, AllOnSocket
    <2> QED BY <2>1, ShapeInit DEF FlowInv, FlowUnlessRaced
  <1>2. FlowInv /\ [Next]_vars => FlowInv'
    BY FlowNext
  <1>3. FlowInv => KeptUnlessRaced
    <2> SUFFICES ASSUME FlowInv PROVE KeptUnlessRaced
      OBVIOUS
    <2>1. TypeOK
      BY ShapeParts DEF FlowInv
    <2> QED BY <2>1, KeptCovers DEF FlowInv, FlowUnlessRaced, KeptUnlessRaced, Flow
  <1> QED BY <1>1, <1>2, <1>3, PTL DEF Spec

=============================================================================
