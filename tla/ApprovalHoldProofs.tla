------------------------ MODULE ApprovalHoldProofs -------------------------
(***************************************************************************)
(* Theorems about ApprovalHold, for every number of requests, reviewers    *)
(* and failures, both stores and every size of the window.                 *)
(***************************************************************************)
EXTENDS ApprovalHold, FiniteSetTheorems, SequenceTheorems, TLAPS

-----------------------------------------------------------------------------
(***************************************************************************)
(* The scripts, and what is left of them.                                  *)
(***************************************************************************)
\* What is left of store once it began, remove likewise, and of the cleanup.
StoreRest(r) ==
    IF backend = "memory"
    THEN {store(r), <<cmd("publish", r, "workspace"), cmd("publish", r, "org")>>,
          <<cmd("publish", r, "org")>>}
    ELSE {store(r),
          <<cmd("addIndex", r, "workspace"), cmd("publish", r, "workspace"),
            cmd("addIndex", r, "org"), cmd("publish", r, "org")>>,
          <<cmd("publish", r, "workspace"), cmd("addIndex", r, "org"), cmd("publish", r, "org")>>,
          <<cmd("addIndex", r, "org"), cmd("publish", r, "org")>>,
          <<cmd("publish", r, "org")>>}

RemoveRest(r) ==
    IF backend = "memory"
    THEN {remove(r), <<cmd("dropSender", r, "-")>>}
    ELSE {remove(r),
          <<cmd("dropIndex", r, "org"), cmd("dropCard", r, "-"), cmd("dropMail", r, "-")>>,
          <<cmd("dropCard", r, "-"), cmd("dropMail", r, "-")>>,
          <<cmd("dropMail", r, "-")>>}

CleanupRest(r) == {cleanup_expired(r), <<cmd("dropCard", r, "-")>>}

\* A decision that holds the sender.
sending(r, x) == <<cmd("send", r, x), cmd("dropCard", r, "-")>>

\* The commands of a script.
Todo(s) == {s[i] : i \in DOMAIN s}

-----------------------------------------------------------------------------
(***************************************************************************)
(* The invariant.                                                          *)
(***************************************************************************)
\* Nothing of the request is visible yet.
Fresh == {"new", "claiming"}

\* A hold's script stores while the request is stored and removes once it has
\* ended; the guard removes.
HoldScript(r) ==
    \/ script[<<"hold", r>>] = <<>>
    \/ phase[r] = "storing" /\ script[<<"hold", r>>] \in StoreRest(r)
    \/ phase[r] = "ended" /\ script[<<"hold", r>>] \in RemoveRest(r)

GuardScript(r) ==
    \/ script[<<"guard", r>>] = <<>>
    \/ phase[r] = "ended" /\ script[<<"guard", r>>] \in RemoveRest(r)

JanitorScript(r) ==
    \/ script[<<"janitor", r>>] = <<>>
    \/ backend = "memory" /\ script[<<"janitor", r>>] \in CleanupRest(r)

\* What a reviewer's script is at says what the reviewer was told.
DeskScript(d) ==
    LET s == script[<<"desk", d>>]
        r == desk[d].on
        x == desk[d].decision
    IN  \/ s = <<>>
        \/ /\ r \in Request /\ x \in Decisions
           /\ \/ desk[d].state = "found" /\ s = submit_outcome(r, x)
              \/ desk[d].state = "found" /\ backend = "memory" /\ s = sending(r, x)
              \/ /\ desk[d].state = "delivered" /\ backend = "memory"
                 /\ s = <<cmd("dropCard", r, "-")>>
              \/ desk[d].state = "delivered" /\ backend = "redis" /\ s \in RemoveRest(r)

ScriptsOK ==
    /\ \A r \in Request : /\ HoldScript(r) /\ GuardScript(r) /\ JanitorScript(r)
                          /\ phase[r] \in {"opening", "served"} => backend = "redis"
    /\ \A d \in Decider : /\ DeskScript(d)
                          /\ desk[d].state # "idle" => desk[d].on \in Request /\ phase[desk[d].on] \notin Fresh
                          /\ desk[d].state \in {"delivered", "opened"} => desk[d].decision \in Decisions

Base == TypeOK /\ ScriptsOK

\* Before a request is held nothing of it is in the store.
FreshOK ==
    /\ \A r \in Request : phase[r] \in Fresh =>
          /\ verdict[r] = "none" /\ r \notin card /\ mail[r] = <<>>
          /\ sender[r] = "absent" /\ inTime[r] = "-"
          /\ \A s \in Scope : <<s, r>> \notin index
    /\ \A r \in Request : \A s \in Scope :
          <<s, r>> \in index => backend = "redis" /\ script[<<"hold", r>>] # store(r)
    /\ \A r \in Request : backend = "redis" => sender[r] = "absent"

\* The requests a window let through.
through(q) == {r \in Request : verdict[r] = "similar" /\ via[r] = q}

opened(q) == \E d \in Decider : desk[d].on = q /\ desk[d].state = "opened"

WindowInv ==
    /\ \A r \in Request : verdict[r] = "similar" => phase[r] = "ended" /\ via[r] # NoRequest
    /\ \A r \in Request : phase[r] = "claiming" => via[r] # NoRequest
    /\ \A r, q \in Request : via[r] = q => opened(q)
    /\ \A q \in Request : window = q => opened(q)
    /\ \A q \in Request : /\ IsFiniteSet(through(q))
                          /\ Cardinality(through(q)) <= uses[q]
                          /\ Cardinality(through(q)) <= SIMILAR_WINDOW_MAX_REQUESTS

\* The decision has, or had, the sender.
Won(d) ==
    \/ desk[d].state \in {"delivered", "opened"}
    \/ script[<<"desk", d>>] = sending(desk[d].on, desk[d].decision)

WinInv ==
    backend = "memory" =>
        /\ \A d \in Decider : Won(d) /\ desk[d].on \in Request => sender[desk[d].on] # "map"
        /\ \A d, e \in Decider : Won(d) /\ Won(e) /\ desk[d].on = desk[e].on => d = e
        /\ \A r \in Request : inTime[r] # "-" =>
              /\ \E d \in Decider : desk[d].on = r /\ desk[d].state \in {"delivered", "opened"}
              /\ phase[r] # "ended" => mail[r] = <<inTime[r]>>

\* A command that the hold or its guard has still to issue.
Owed(r, c) == c \in Todo(script[<<"hold", r>>]) \cup Todo(script[<<"guard", r>>])

\* What is in the store of a hold that ended is still to be removed.
Leaves(r) ==
    /\ r \in card => Owed(r, cmd("dropCard", r, "-"))
    /\ \A s \in Scope : <<s, r>> \in index => Owed(r, cmd("dropIndex", r, s))
    /\ sender[r] = "map" => Owed(r, cmd("dropSender", r, "-"))
    /\ backend = "redis" /\ mail[r] # <<>> =>
          \/ Owed(r, cmd("dropMail", r, "-"))
          \/ \E d \in Decider : cmd("dropMail", r, "-") \in Todo(script[<<"desk", d>>])

\* A sender that is out of the map is in the hands of a decision.
Taken(r) ==
    sender[r] = "taken" =>
        \E d \in Decider : desk[d].on = r /\ script[<<"desk", d>>] = sending(r, desk[d].decision)

LeavesInv ==
    /\ \A r \in Request : phase[r] = "ended" /\ r \notin loose => Leaves(r)
    /\ \A r \in Request : Taken(r)

\* The hold is still to announce its card to the polls of scope s.
Announces(r, s) == cmd("publish", r, s) \in Todo(script[<<"hold", r>>])

\* A poll that sleeps, or that has read the ids it will find empty, will hear
\* of what it does not show.
Wake(r) ==
    /\ poll.at = "wait" /\ isLive(r) /\ (backend = "redis" => <<poll.scope, r>> \in index)
       => Announces(r, poll.scope)
    /\ /\ poll.at = "list2" /\ poll.read /\ backend = "redis"
       /\ r \notin poll.ids /\ <<poll.scope, r>> \in index
       => Announces(r, poll.scope)

WakeInv ==
    /\ poll.at \notin Listing => ~poll.read
    /\ ~poll.note => \A r \in Request : phase[r] # "ended" /\ r \notin loose => Wake(r)

-----------------------------------------------------------------------------
(***************************************************************************)
(* Facts about scripts.                                                    *)
(***************************************************************************)
LEMMA Backends == ASSUME TypeOK PROVE backend \in {"memory", "redis"}
  BY ApprovalAssumption DEF TypeOK, backend

LEMMA Commands ==
    /\ \A op, r, x : cmd(op, r, x).op = op /\ cmd(op, r, x).on = r /\ cmd(op, r, x).with = x
    /\ \A r \in Request, x \in Scope \cup Decisions \cup {"-"} :
          \A op \in {"setCard", "addIndex", "publish", "dropIndex", "dropCard", "dropMail",
                      "dropSender", "takeSender", "send", "push"} : cmd(op, r, x) \in Command
  BY DEF cmd, Command

LEMMA Actors ==
    /\ \A r \in Request : /\ <<"hold", r>> \in Actor /\ <<"guard", r>> \in Actor
                          /\ <<"janitor", r>> \in Actor
    /\ \A d \in Decider : <<"desk", d>> \in Actor
    /\ \A a \in Actor : \/ \E r \in Request : a \in {<<"hold", r>>, <<"guard", r>>, <<"janitor", r>>}
                        \/ \E d \in Decider : a = <<"desk", d>>
  BY DEF Actor

LEMMA Tuple1 ==
    ASSUME NEW a
    PROVE  <<a>> # <<>> /\ Head(<<a>>) = a /\ Tail(<<a>>) = <<>> /\ Todo(<<a>>) = {a}
  BY DEF Todo

LEMMA Tuple2 ==
    ASSUME NEW a, NEW b
    PROVE  /\ <<a, b>> # <<>> /\ Head(<<a, b>>) = a /\ Tail(<<a, b>>) = <<b>>
           /\ Todo(<<a, b>>) = {a, b}
  BY DEF Todo

LEMMA Tuple3 ==
    ASSUME NEW a, NEW b, NEW c
    PROVE  /\ <<a, b, c>> # <<>> /\ Head(<<a, b, c>>) = a /\ Tail(<<a, b, c>>) = <<b, c>>
           /\ Todo(<<a, b, c>>) = {a, b, c}
  BY DEF Todo

LEMMA Tuple4 ==
    ASSUME NEW a, NEW b, NEW c, NEW d
    PROVE  /\ <<a, b, c, d>> # <<>> /\ Head(<<a, b, c, d>>) = a
           /\ Tail(<<a, b, c, d>>) = <<b, c, d>> /\ Todo(<<a, b, c, d>>) = {a, b, c, d}
  BY DEF Todo

LEMMA Tuple5 ==
    ASSUME NEW a, NEW b, NEW c, NEW d, NEW e
    PROVE  /\ <<a, b, c, d, e>> # <<>> /\ Head(<<a, b, c, d, e>>) = a
           /\ Tail(<<a, b, c, d, e>>) = <<b, c, d, e>>
           /\ Todo(<<a, b, c, d, e>>) = {a, b, c, d, e}
  BY DEF Todo

LEMMA TupleSeq ==
    ASSUME NEW S
    PROVE  /\ \A a \in S : <<a>> \in Seq(S)
           /\ \A a, b \in S : <<a, b>> \in Seq(S)
           /\ \A a, b, c \in S : <<a, b, c>> \in Seq(S)
           /\ \A a, b, c, d \in S : <<a, b, c, d>> \in Seq(S)
           /\ \A a, b, c, d, e \in S : <<a, b, c, d, e>> \in Seq(S)
  OBVIOUS

LEMMA Prefixed ==
    ASSUME NEW S, NEW a \in S, NEW s \in Seq(S)
    PROVE  /\ <<a>> \o s # <<>> /\ Head(<<a>> \o s) = a /\ Tail(<<a>> \o s) = s
           /\ <<a>> \o s \in Seq(S)
  OBVIOUS

\* Issuing a command takes it, and nothing else, off the script.
LEMMA TailTodo ==
    ASSUME NEW S, NEW s \in Seq(S), s # <<>>
    PROVE  /\ Head(s) \in S /\ Tail(s) \in Seq(S)
           /\ Todo(s) = {Head(s)} \cup Todo(Tail(s))
  <1>1. Len(s) \in Nat /\ Len(s) >= 1 /\ DOMAIN s = 1..Len(s)
    OBVIOUS
  <1>2. /\ Tail(s) \in Seq(S) /\ DOMAIN Tail(s) = 1..(Len(s) - 1)
        /\ \A i \in 1..(Len(s) - 1) : Tail(s)[i] = s[i + 1]
    BY <1>1
  <1>3. Head(s) = s[1] /\ Head(s) \in S
    BY <1>1
  <1>4. \A c : c \in Todo(s) <=> c = s[1] \/ c \in Todo(Tail(s))
    <2>1. ASSUME NEW c, c \in Todo(s), c # s[1]
          PROVE  c \in Todo(Tail(s))
      <3>1. PICK i \in 1..Len(s) : c = s[i]
        BY <1>1, <2>1 DEF Todo
      <3>2. i - 1 \in 1..(Len(s) - 1) /\ (i - 1) + 1 = i
        BY <1>1, <2>1, <3>1
      <3>3. Tail(s)[i - 1] = c
        BY <1>2, <3>1, <3>2
      <3> QED BY <1>2, <3>2, <3>3 DEF Todo
    <2>2. ASSUME NEW c, c \in Todo(Tail(s))
          PROVE  c \in Todo(s)
      <3>1. PICK i \in 1..(Len(s) - 1) : c = Tail(s)[i]
        BY <1>2, <2>2 DEF Todo
      <3>2. c = s[i + 1] /\ i + 1 \in 1..Len(s)
        BY <1>1, <1>2, <3>1
      <3> QED BY <1>1, <3>2 DEF Todo
    <2>3. s[1] \in Todo(s)
      BY <1>1 DEF Todo
    <2> QED BY <2>1, <2>2, <2>3
  <1> QED BY <1>2, <1>3, <1>4

LEMMA StoreFacts ==
    ASSUME TypeOK, NEW r \in Request, NEW s \in StoreRest(r)
    PROVE  /\ s # <<>> /\ s \in Seq(Command) /\ Head(s).on = r
           /\ Head(s).op \in {"setCard", "addIndex", "publish"}
           /\ Head(s).op = "setCard" => /\ s = store(r)
                                        /\ \A x \in Scope : cmd("publish", r, x) \in Todo(Tail(s))
           /\ Head(s).op = "addIndex" => /\ backend = "redis" /\ Head(s).with \in Scope /\ s # store(r)
                                         /\ cmd("publish", r, Head(s).with) \in Todo(Tail(s))
           /\ Head(s).op = "publish" => Head(s) = cmd("publish", r, Head(s).with) /\ Head(s).with \in Scope
           /\ Tail(s) \in StoreRest(r) \cup {<<>>} /\ Tail(s) # store(r)
  <1>1. CASE backend = "memory"
    <2> DEFINE c1 == cmd("setCard", r, "-")
               c2 == cmd("publish", r, "workspace")
               c3 == cmd("publish", r, "org")
    <2>1. /\ c1 \in Command /\ c2 \in Command /\ c3 \in Command
          /\ c1.op = "setCard" /\ c2.op = "publish" /\ c3.op = "publish"
          /\ c1.on = r /\ c2.on = r /\ c3.on = r
          /\ c2.with = "workspace" /\ c3.with = "org"
      BY Commands DEF Scope
    <2>2. store(r) = <<c1, c2, c3>> /\ StoreRest(r) = {<<c1, c2, c3>>, <<c2, c3>>, <<c3>>}
      BY <1>1 DEF store, StoreRest
    <2>a. /\ c2 = cmd("publish", r, c2.with) /\ c3 = cmd("publish", r, c3.with)
          /\ \A x \in Scope : cmd("publish", r, x) \in {c2, c3}
          /\ "workspace" \in Scope /\ "org" \in Scope
      BY <2>1 DEF Scope
    <2> HIDE DEF c1, c2, c3
    <2> DEFINE s1 == <<c1, c2, c3>>
               s2 == <<c2, c3>>
               s3 == <<c3>>
    <2>3. s1 \in Seq(Command) /\ s2 \in Seq(Command) /\ s3 \in Seq(Command)
      BY <2>1, TupleSeq
    <2>4. /\ Head(s1) = c1 /\ Tail(s1) = s2 /\ s1 # <<>>
          /\ Head(s2) = c2 /\ Tail(s2) = s3 /\ s2 # <<>>
          /\ Head(s3) = c3 /\ Tail(s3) = <<>> /\ s3 # <<>>
      BY Tuple1, Tuple2, Tuple3
    <2>5. Todo(s2) = {c2, c3}
      BY Tuple2
    <2>6. StoreRest(r) = {s1, s2, s3} /\ store(r) = s1
      BY <2>2
    <2> HIDE DEF s1, s2, s3
    <2> QED BY ZenonT(40), <1>1, <2>1, <2>a, <2>3, <2>4, <2>5, <2>6
  <1>2. CASE backend # "memory"
    <2> DEFINE c1 == cmd("setCard", r, "-")
               c2 == cmd("addIndex", r, "workspace")
               c3 == cmd("publish", r, "workspace")
               c4 == cmd("addIndex", r, "org")
               c5 == cmd("publish", r, "org")
    <2>1. /\ c1 \in Command /\ c2 \in Command /\ c3 \in Command /\ c4 \in Command /\ c5 \in Command
          /\ c1.op = "setCard" /\ c2.op = "addIndex" /\ c3.op = "publish"
          /\ c4.op = "addIndex" /\ c5.op = "publish"
          /\ c1.on = r /\ c2.on = r /\ c3.on = r /\ c4.on = r /\ c5.on = r
          /\ c2.with = "workspace" /\ c3.with = "workspace" /\ c4.with = "org" /\ c5.with = "org"
      BY Commands DEF Scope
    <2>2. /\ store(r) = <<c1, c2, c3, c4, c5>>
          /\ StoreRest(r) = {<<c1, c2, c3, c4, c5>>, <<c2, c3, c4, c5>>, <<c3, c4, c5>>, <<c4, c5>>, <<c5>>}
      BY <1>2 DEF store, StoreRest
    <2>a. /\ c3 = cmd("publish", r, c2.with) /\ c5 = cmd("publish", r, c4.with)
          /\ c3 = cmd("publish", r, c3.with) /\ c5 = cmd("publish", r, c5.with)
          /\ \A x \in Scope : cmd("publish", r, x) \in {c3, c5}
          /\ "workspace" \in Scope /\ "org" \in Scope /\ backend = "redis"
      BY <1>2, <2>1, Backends DEF Scope
    <2> HIDE DEF c1, c2, c3, c4, c5
    <2> DEFINE s1 == <<c1, c2, c3, c4, c5>>
               s2 == <<c2, c3, c4, c5>>
               s3 == <<c3, c4, c5>>
               s4 == <<c4, c5>>
               s5 == <<c5>>
    <2>3. s1 \in Seq(Command) /\ s2 \in Seq(Command) /\ s3 \in Seq(Command)
      BY <2>1, TupleSeq
    <2>4. s4 \in Seq(Command) /\ s5 \in Seq(Command)
      BY <2>1, TupleSeq
    <2>5. /\ Head(s1) = c1 /\ Tail(s1) = s2 /\ s1 # <<>>
          /\ Head(s2) = c2 /\ Tail(s2) = s3 /\ s2 # <<>>
          /\ Head(s3) = c3 /\ Tail(s3) = s4 /\ s3 # <<>>
          /\ Head(s4) = c4 /\ Tail(s4) = s5 /\ s4 # <<>>
          /\ Head(s5) = c5 /\ Tail(s5) = <<>> /\ s5 # <<>>
      BY Tuple1, Tuple2, Tuple3, Tuple4, Tuple5
    <2>6. Todo(s2) = {c2, c3, c4, c5} /\ Todo(s3) = {c3, c4, c5} /\ Todo(s5) = {c5}
      BY DEF Todo
    <2>7. StoreRest(r) = {s1, s2, s3, s4, s5} /\ store(r) = s1
      BY <2>2
    <2> HIDE DEF s1, s2, s3, s4, s5
    <2>8. CASE s = s1
      BY <2>1, <2>a, <2>3, <2>5, <2>6, <2>7, <2>8
    <2>9. CASE s = s2
      BY <2>1, <2>a, <2>3, <2>5, <2>6, <2>7, <2>9
    <2>10. CASE s = s3
      BY <2>1, <2>a, <2>3, <2>5, <2>7, <2>10
    <2>11. CASE s = s4
      BY <2>1, <2>a, <2>4, <2>5, <2>6, <2>7, <2>11
    <2>12. CASE s = s5
      BY <2>1, <2>a, <2>4, <2>5, <2>7, <2>12
    <2> QED BY <2>7, <2>8, <2>9, <2>10, <2>11, <2>12
  <1> QED BY <1>1, <1>2

\* The commands remove consists of.
Drops(r) ==
    {cmd("dropCard", r, "-")} \cup
        IF backend = "memory" THEN {cmd("dropSender", r, "-")}
        ELSE {cmd("dropIndex", r, "workspace"), cmd("dropIndex", r, "org"), cmd("dropMail", r, "-")}

LEMMA RemoveFacts ==
    ASSUME TypeOK, NEW r \in Request
    PROVE  /\ remove(r) \in RemoveRest(r) /\ Todo(remove(r)) = Drops(r)
           /\ \A s \in RemoveRest(r) :
                /\ s # <<>> /\ s \in Seq(Command) /\ Head(s) \in Drops(r)
                /\ Tail(s) \in RemoveRest(r) \cup {<<>>}
  <1>1. CASE backend = "memory"
    <2> DEFINE c1 == cmd("dropCard", r, "-")
               c2 == cmd("dropSender", r, "-")
    <2>1. c1 \in Command /\ c2 \in Command
      BY Commands
    <2>2. remove(r) = <<c1, c2>> /\ RemoveRest(r) = {<<c1, c2>>, <<c2>>} /\ Drops(r) = {c1, c2}
      BY <1>1 DEF remove, RemoveRest, Drops
    <2> HIDE DEF c1, c2
    <2>3. /\ <<c1, c2>> \in Seq(Command) /\ <<c2>> \in Seq(Command) /\ Todo(<<c1, c2>>) = {c1, c2}
          /\ Head(<<c1, c2>>) = c1 /\ Tail(<<c1, c2>>) = <<c2>> /\ <<c1, c2>> # <<>>
          /\ Head(<<c2>>) = c2 /\ Tail(<<c2>>) = <<>> /\ <<c2>> # <<>>
      BY <2>1, Tuple1, Tuple2, TupleSeq
    <2> QED BY <2>2, <2>3
  <1>2. CASE backend # "memory"
    <2> DEFINE c1 == cmd("dropIndex", r, "workspace")
               c2 == cmd("dropIndex", r, "org")
               c3 == cmd("dropCard", r, "-")
               c4 == cmd("dropMail", r, "-")
    <2>1. c1 \in Command /\ c2 \in Command /\ c3 \in Command /\ c4 \in Command
      BY Commands DEF Scope
    <2>2. /\ remove(r) = <<c1, c2, c3, c4>> /\ Drops(r) = {c1, c2, c3, c4}
          /\ RemoveRest(r) = {<<c1, c2, c3, c4>>, <<c2, c3, c4>>, <<c3, c4>>, <<c4>>}
      BY <1>2 DEF remove, RemoveRest, Drops
    <2> HIDE DEF c1, c2, c3, c4
    <2> DEFINE s1 == <<c1, c2, c3, c4>>
               s2 == <<c2, c3, c4>>
               s3 == <<c3, c4>>
               s4 == <<c4>>
    <2>3. /\ s1 \in Seq(Command) /\ s2 \in Seq(Command) /\ s3 \in Seq(Command) /\ s4 \in Seq(Command)
      BY <2>1, TupleSeq
    <2>a. Todo(s1) = {c1, c2, c3, c4}
      BY DEF Todo
    <2>4. /\ Head(s1) = c1 /\ Tail(s1) = s2 /\ s1 # <<>>
          /\ Head(s2) = c2 /\ Tail(s2) = s3 /\ s2 # <<>>
          /\ Head(s3) = c3 /\ Tail(s3) = s4 /\ s3 # <<>>
          /\ Head(s4) = c4 /\ Tail(s4) = <<>> /\ s4 # <<>>
      BY Tuple1, Tuple2, Tuple3, Tuple4
    <2>5. RemoveRest(r) = {s1, s2, s3, s4} /\ remove(r) = s1
      BY <2>2
    <2> HIDE DEF s1, s2, s3, s4
    <2> QED BY <2>2, <2>a, <2>3, <2>4, <2>5
  <1> QED BY <1>1, <1>2

LEMMA CleanupFacts ==
    ASSUME NEW r \in Request
    PROVE  /\ cleanup_expired(r) \in CleanupRest(r)
           /\ \A s \in CleanupRest(r) :
                /\ s # <<>> /\ s \in Seq(Command)
                /\ Head(s) \in {cmd("dropSender", r, "-"), cmd("dropCard", r, "-")}
                /\ Tail(s) \in CleanupRest(r) \cup {<<>>}
  <1> DEFINE c1 == cmd("dropSender", r, "-")
             c2 == cmd("dropCard", r, "-")
  <1>1. c1 \in Command /\ c2 \in Command
    BY Commands
  <1>2. cleanup_expired(r) = <<c1, c2>> /\ CleanupRest(r) = {<<c1, c2>>, <<c2>>}
    BY DEF cleanup_expired, CleanupRest
  <1> HIDE DEF c1, c2
  <1>3. /\ <<c1, c2>> \in Seq(Command) /\ <<c2>> \in Seq(Command)
        /\ Head(<<c1, c2>>) = c1 /\ Tail(<<c1, c2>>) = <<c2>> /\ <<c1, c2>> # <<>>
        /\ Head(<<c2>>) = c2 /\ Tail(<<c2>>) = <<>> /\ <<c2>> # <<>>
    BY <1>1, Tuple1, Tuple2, TupleSeq
  <1> QED BY <1>2, <1>3 DEF c1, c2

\* The scripts of a decision.
LEMMA DecisionFacts ==
    ASSUME TypeOK, NEW r \in Request, NEW x \in Decisions
    PROVE  /\ submit_outcome(r, x) \in Seq(Command) /\ submit_outcome(r, x) # <<>>
           /\ backend = "memory" => /\ submit_outcome(r, x) = <<cmd("takeSender", r, x)>>
                                    /\ Head(submit_outcome(r, x)) = cmd("takeSender", r, x)
                                    /\ Tail(submit_outcome(r, x)) = <<>>
           /\ backend = "redis" => /\ Head(submit_outcome(r, x)) = cmd("push", r, x)
                                   /\ Tail(submit_outcome(r, x)) = remove(r)
           /\ sending(r, x) \in Seq(Command) /\ sending(r, x) # <<>>
           /\ Head(sending(r, x)) = cmd("send", r, x)
           /\ Tail(sending(r, x)) = <<cmd("dropCard", r, "-")>>
           /\ <<cmd("dropCard", r, "-")>> \in Seq(Command) /\ <<cmd("dropCard", r, "-")>> # <<>>
           /\ Head(<<cmd("dropCard", r, "-")>>) = cmd("dropCard", r, "-")
           /\ Tail(<<cmd("dropCard", r, "-")>>) = <<>>
  <1> DEFINE t == cmd("takeSender", r, x)
             n == cmd("send", r, x)
             p == cmd("push", r, x)
             c == cmd("dropCard", r, "-")
  <1>1. t \in Command /\ n \in Command /\ p \in Command /\ c \in Command
    BY Commands
  <1>2. remove(r) \in Seq(Command)
    BY RemoveFacts
  <1>3. /\ backend = "memory" => submit_outcome(r, x) = <<t>>
        /\ backend = "redis" => submit_outcome(r, x) = <<p>> \o remove(r)
        /\ sending(r, x) = <<n, c>>
    BY DEF submit_outcome, sending
  <1> HIDE DEF t, n, p, c
  <1>a. /\ <<t>> \in Seq(Command) /\ <<n, c>> \in Seq(Command) /\ <<c>> \in Seq(Command)
        /\ Head(<<t>>) = t /\ Tail(<<t>>) = <<>> /\ <<t>> # <<>>
        /\ Head(<<n, c>>) = n /\ Tail(<<n, c>>) = <<c>> /\ <<n, c>> # <<>>
        /\ Head(<<c>>) = c /\ Tail(<<c>>) = <<>> /\ <<c>> # <<>>
    BY <1>1, Tuple1, Tuple2, TupleSeq
  <1>4. CASE backend = "memory"
    BY <1>3, <1>4, <1>a DEF t, n, c
  <1>5. CASE backend = "redis"
    <2>1. /\ submit_outcome(r, x) # <<>> /\ submit_outcome(r, x) \in Seq(Command)
          /\ Head(submit_outcome(r, x)) = p /\ Tail(submit_outcome(r, x)) = remove(r)
      BY <1>1, <1>2, <1>3, <1>5, Prefixed
    <2> QED BY <1>3, <1>5, <1>a, <2>1 DEF n, c, p
  <1> QED BY <1>4, <1>5, Backends

-----------------------------------------------------------------------------
(***************************************************************************)
(* Whose command it is.                                                    *)
(***************************************************************************)
\* An actor with a script is at one of the operations' scripts.
LEMMA Issuer ==
    ASSUME Base, NEW a \in Actor, script[a] # <<>>
    PROVE  \/ \E r \in Request : /\ a = <<"hold", r>> /\ phase[r] = "storing"
                                 /\ script[a] \in StoreRest(r)
           \/ \E r \in Request : /\ a \in {<<"hold", r>>, <<"guard", r>>} /\ phase[r] = "ended"
                                 /\ script[a] \in RemoveRest(r)
           \/ \E r \in Request : /\ a = <<"janitor", r>> /\ backend = "memory"
                                 /\ script[a] \in CleanupRest(r)
           \/ \E d \in Decider :
                /\ a = <<"desk", d>> /\ desk[d].on \in Request /\ desk[d].decision \in Decisions
                /\ \/ desk[d].state = "found" /\ script[a] = submit_outcome(desk[d].on, desk[d].decision)
                   \/ /\ desk[d].state = "found" /\ backend = "memory"
                      /\ script[a] = sending(desk[d].on, desk[d].decision)
                   \/ /\ desk[d].state = "delivered" /\ backend = "memory"
                      /\ script[a] = <<cmd("dropCard", desk[d].on, "-")>>
                   \/ /\ desk[d].state = "delivered" /\ backend = "redis"
                      /\ script[a] \in RemoveRest(desk[d].on)
  <1>1. CASE \E r \in Request : a \in {<<"hold", r>>, <<"guard", r>>, <<"janitor", r>>}
    BY <1>1 DEF Base, ScriptsOK, HoldScript, GuardScript, JanitorScript
  <1>2. CASE \E d \in Decider : a = <<"desk", d>>
    <2>1. PICK d \in Decider : a = <<"desk", d>>
      BY <1>2
    <2>2. DeskScript(d)
      BY DEF Base, ScriptsOK
    <2> QED BY <2>1, <2>2 DEF DeskScript
  <1> QED BY <1>1, <1>2, Actors

\* A command that is neither of store nor of a decision drops something.
IsDrop(c) ==
    /\ c.on \in Request
    /\ \/ c = cmd("dropCard", c.on, "-")
       \/ c = cmd("dropSender", c.on, "-") /\ backend = "memory"
       \/ c = cmd("dropMail", c.on, "-") /\ backend = "redis"
       \/ c = cmd("dropIndex", c.on, c.with) /\ c.with \in Scope /\ backend = "redis"

LEMMA DropFacts ==
    ASSUME TypeOK, NEW r \in Request, NEW c \in Drops(r)
    PROVE  IsDrop(c) /\ c.on = r
  BY Commands, Backends DEF Drops, IsDrop, Scope

\* What the next command tells about its actor.
LEMMA Issued ==
    ASSUME Base, NEW a \in Actor, script[a] # <<>>
    PROVE  /\ script[a] \in Seq(Command) /\ next(a) \in Command /\ Tail(script[a]) \in Seq(Command)
           /\ \/ \E r \in Request : /\ a = <<"hold", r>> /\ phase[r] = "storing"
                                    /\ script[a] \in StoreRest(r)
                                    /\ next(a).op \in {"setCard", "addIndex", "publish"}
                                    /\ next(a).on = r
              \/ IsDrop(next(a))
              \/ \E d \in Decider :
                   /\ a = <<"desk", d>> /\ desk[d].on \in Request /\ desk[d].decision \in Decisions
                   /\ desk[d].state = "found"
                   /\ LET r == desk[d].on
                          x == desk[d].decision
                      IN  \/ /\ backend = "memory" /\ next(a) = cmd("takeSender", r, x)
                             /\ script[a] = submit_outcome(r, x)
                          \/ /\ backend = "memory" /\ next(a) = cmd("send", r, x)
                             /\ script[a] = sending(r, x)
                          \/ /\ backend = "redis" /\ next(a) = cmd("push", r, x)
                             /\ script[a] = submit_outcome(r, x)
  <1>0. TypeOK
    BY DEF Base
  <1>1. script[a] \in Seq(Command) /\ next(a) \in Command /\ Tail(script[a]) \in Seq(Command)
    <2>1. script[a] \in Seq(Command)
      BY <1>0 DEF TypeOK
    <2> QED BY <2>1, TailTodo DEF next
  <1>2. CASE \E r \in Request : /\ a = <<"hold", r>> /\ phase[r] = "storing"
                                /\ script[a] \in StoreRest(r)
    BY <1>0, <1>1, <1>2, StoreFacts DEF next
  <1>3. ASSUME NEW r \in Request, script[a] \in RemoveRest(r)
        PROVE  IsDrop(next(a))
    BY <1>0, <1>3, RemoveFacts, DropFacts DEF next
  <1>4. ASSUME NEW r \in Request, script[a] \in CleanupRest(r), backend = "memory"
        PROVE  IsDrop(next(a))
    BY <1>4, CleanupFacts, Commands DEF next, IsDrop
  <1>5. ASSUME NEW d \in Decider, a = <<"desk", d>>, desk[d].on \in Request, desk[d].decision \in Decisions,
               \/ desk[d].state = "found" /\ script[a] = submit_outcome(desk[d].on, desk[d].decision)
               \/ /\ desk[d].state = "found" /\ backend = "memory"
                  /\ script[a] = sending(desk[d].on, desk[d].decision)
               \/ /\ desk[d].state = "delivered" /\ backend = "memory"
                  /\ script[a] = <<cmd("dropCard", desk[d].on, "-")>>
               \/ /\ desk[d].state = "delivered" /\ backend = "redis"
                  /\ script[a] \in RemoveRest(desk[d].on)
        PROVE  \/ IsDrop(next(a))
               \/ /\ desk[d].state = "found"
                  /\ LET r == desk[d].on
                         x == desk[d].decision
                     IN  \/ /\ backend = "memory" /\ next(a) = cmd("takeSender", r, x)
                            /\ script[a] = submit_outcome(r, x)
                         \/ /\ backend = "memory" /\ next(a) = cmd("send", r, x)
                            /\ script[a] = sending(r, x)
                         \/ /\ backend = "redis" /\ next(a) = cmd("push", r, x)
                            /\ script[a] = submit_outcome(r, x)
    <2> DEFINE r == desk[d].on
               x == desk[d].decision
    <2>1. CASE desk[d].state = "found" /\ script[a] = submit_outcome(r, x)
      BY <1>0, <1>5, <2>1, DecisionFacts, Backends DEF next
    <2>2. CASE desk[d].state = "found" /\ backend = "memory" /\ script[a] = sending(r, x)
      BY <1>0, <1>5, <2>2, DecisionFacts DEF next
    <2>3. CASE script[a] = <<cmd("dropCard", r, "-")>>
      BY <1>0, <1>5, <2>3, DecisionFacts, Commands DEF next, IsDrop
    <2>4. CASE script[a] \in RemoveRest(r)
      BY <1>3, <1>5, <2>4
    <2> QED BY <1>5, <2>1, <2>2, <2>3, <2>4
  <1> QED BY <1>1, <1>2, <1>3, <1>4, <1>5, Issuer

\* An operation and its rests are the same while the scene is.
LEMMA SameScene ==
    ASSUME scene' = scene
    PROVE  /\ backend' = backend
           /\ \A r : /\ store(r)' = store(r) /\ remove(r)' = remove(r)
                     /\ StoreRest(r)' = StoreRest(r) /\ RemoveRest(r)' = RemoveRest(r)
           /\ \A r, x : submit_outcome(r, x)' = submit_outcome(r, x)
  BY DEF backend, store, remove, StoreRest, RemoveRest, submit_outcome

-----------------------------------------------------------------------------
(***************************************************************************)
(* Types, and scripts that fit the state of their actor.                   *)
(***************************************************************************)
LEMMA BaseInit == Init => Base
  <1> SUFFICES ASSUME Init PROVE Base
    OBVIOUS
  <1>1. TypeOK
    <2>1. scene.errors \in Nat
      BY ApprovalAssumption DEF Init
    <2>2. script \in [Actor -> Seq(Command)]
      BY DEF Init
    <2> QED BY <2>1, <2>2 DEF Init, TypeOK, Verdict, Scope, Listing
  <1>2. ScriptsOK
    BY Actors DEF Init, ScriptsOK, HoldScript, GuardScript, JanitorScript, DeskScript
  <1> QED BY <1>1, <1>2 DEF Base

\* A script that nobody touched still fits.
LEMMA Frame ==
    ASSUME Base, scene' = scene
    PROVE  /\ \A r \in Request :
                /\ /\ script'[<<"hold", r>>] = script[<<"hold", r>>]
                   /\ phase'[r] = phase[r] \/ script[<<"hold", r>>] = <<>>
                   => HoldScript(r)'
                /\ /\ script'[<<"guard", r>>] = script[<<"guard", r>>]
                   /\ phase[r] = "ended" => phase'[r] = "ended"
                   => GuardScript(r)'
                /\ script'[<<"janitor", r>>] = script[<<"janitor", r>>] => JanitorScript(r)'
           /\ \A d \in Decider :
                script'[<<"desk", d>>] = script[<<"desk", d>>] /\ desk'[d] = desk[d] => DeskScript(d)'
  <1>1. \A r \in Request : HoldScript(r) /\ GuardScript(r) /\ JanitorScript(r)
    BY DEF Base, ScriptsOK
  <1>2. \A d \in Decider : DeskScript(d)
    BY DEF Base, ScriptsOK
  <1>3. \A r : CleanupRest(r)' = CleanupRest(r)
    BY DEF CleanupRest, cleanup_expired
  <1>4. ASSUME NEW d \in Decider, script'[<<"desk", d>>] = script[<<"desk", d>>], desk'[d] = desk[d]
        PROVE  DeskScript(d)'
    BY <1>2, <1>4, SameScene DEF DeskScript
  <1>5. ASSUME NEW r \in Request, script'[<<"hold", r>>] = script[<<"hold", r>>],
               phase'[r] = phase[r] \/ script[<<"hold", r>>] = <<>>
        PROVE  HoldScript(r)'
    BY <1>1, <1>5, SameScene DEF HoldScript
  <1>6. ASSUME NEW r \in Request, script'[<<"guard", r>>] = script[<<"guard", r>>],
               phase[r] = "ended" => phase'[r] = "ended"
        PROVE  GuardScript(r)'
    BY <1>1, <1>6, SameScene DEF GuardScript
  <1>7. ASSUME NEW r \in Request, script'[<<"janitor", r>>] = script[<<"janitor", r>>]
        PROVE  JanitorScript(r)'
    BY <1>1, <1>3, <1>7, SameScene DEF JanitorScript
  <1> QED BY <1>4, <1>5, <1>6, <1>7

\* The request moves on and its hold has a new script; no other does.
LEMMA HoldMoves ==
    ASSUME Base, scene' = scene, desk' = desk, NEW r \in Request, NEW p, NEW s,
           phase' = [phase EXCEPT ![r] = p], script' = [script EXCEPT ![<<"hold", r>>] = s],
           phase[r] # "ended", p \notin Fresh,
           p \in {"opening", "served"} => backend = "redis",
           \/ s = <<>>
           \/ p = "storing" /\ s \in StoreRest(r)
           \/ p = "ended" /\ s \in RemoveRest(r)
    PROVE  ScriptsOK'
  <1>1. script \in [Actor -> Seq(Command)] /\ phase \in [Request -> {"new", "claiming", "storing",
            "opening", "waiting", "served", "ended"}]
    BY DEF Base, TypeOK
  <1>2. script'[<<"hold", r>>] = s /\ \A a \in Actor : a # <<"hold", r>> => script'[a] = script[a]
    BY <1>1, Actors
  <1>3. phase'[r] = p /\ \A q \in Request : q # r => phase'[q] = phase[q]
    BY <1>1
  <1>4. HoldScript(r)'
    BY <1>2, <1>3, SameScene DEF HoldScript
  <1>5. \A q \in Request : HoldScript(q)' /\ GuardScript(q)' /\ JanitorScript(q)'
    <2> SUFFICES ASSUME NEW q \in Request
                 PROVE  HoldScript(q)' /\ GuardScript(q)' /\ JanitorScript(q)'
      OBVIOUS
    <2>1. /\ q # r => script'[<<"hold", q>>] = script[<<"hold", q>>]
          /\ script'[<<"guard", q>>] = script[<<"guard", q>>]
          /\ script'[<<"janitor", q>>] = script[<<"janitor", q>>]
      BY <1>2, Actors
    <2> QED BY <1>3, <1>4, <2>1, Frame
  <1>6. \A d \in Decider : script'[<<"desk", d>>] = script[<<"desk", d>>]
    BY <1>2, Actors
  <1>7. \A d \in Decider : DeskScript(d)'
    BY <1>6, Frame
  <1> QED BY <1>3, <1>5, <1>7, SameScene DEF Base, ScriptsOK

LEMMA HoldMovesOnly ==
    ASSUME Base, scene' = scene, desk' = desk, script' = script, NEW r \in Request, NEW p,
           phase' = [phase EXCEPT ![r] = p], script[<<"hold", r>>] = <<>>,
           phase[r] # "ended", p \in Fresh => phase[r] \in Fresh,
           p \in {"opening", "served"} => backend = "redis"
    PROVE  ScriptsOK'
  <1>1. phase \in [Request -> {"new", "claiming", "storing",
            "opening", "waiting", "served", "ended"}]
    BY DEF Base, TypeOK
  <1>2. phase'[r] = p /\ \A q \in Request : q # r => phase'[q] = phase[q]
    BY <1>1
  <1>3. \A q \in Request : HoldScript(q)' /\ GuardScript(q)' /\ JanitorScript(q)'
    BY <1>2, Frame
  <1>4. \A d \in Decider : DeskScript(d)'
    BY Frame
  <1> QED BY <1>2, <1>3, <1>4, SameScene DEF Base, ScriptsOK

\* Neither requests nor reviewers move, and scripts only lose commands that
\* decide nothing.
LEMMA ScriptMoves ==
    ASSUME Base, scene' = scene, desk' = desk, phase' = phase, NEW a \in Actor,
           script[a] # <<>>, issue(a), next(a).op \notin {"takeSender", "send", "push"}
    PROVE  ScriptsOK'
  <1>0. TypeOK
    BY DEF Base
  <1>1. script \in [Actor -> Seq(Command)]
    BY <1>0 DEF TypeOK
  <1>2. script'[a] = Tail(script[a]) /\ \A b \in Actor : b # a => script'[b] = script[b]
    BY <1>1 DEF issue
  <1>a. \A r : CleanupRest(r)' = CleanupRest(r)
    BY DEF CleanupRest, cleanup_expired
  <1>3. ASSUME NEW r \in Request
        PROVE  HoldScript(r)' /\ GuardScript(r)' /\ JanitorScript(r)'
    <2>1. HoldScript(r) /\ GuardScript(r) /\ JanitorScript(r)
      BY DEF Base, ScriptsOK
    <2>2. CASE a = <<"hold", r>>
      <3>1. HoldScript(r)'
        <4>1. CASE phase[r] = "storing" /\ script[a] \in StoreRest(r)
          <5>1. Tail(script[a]) \in StoreRest(r) \cup {<<>>}
            BY <1>0, <4>1, StoreFacts
          <5> QED BY <1>2, <2>2, <4>1, <5>1, SameScene DEF HoldScript
        <4>2. CASE phase[r] = "ended" /\ script[a] \in RemoveRest(r)
          <5>1. Tail(script[a]) \in RemoveRest(r) \cup {<<>>}
            BY <1>0, <4>2, RemoveFacts
          <5> QED BY <1>2, <2>2, <4>2, <5>1, SameScene DEF HoldScript
        <4> QED BY <2>1, <2>2, <4>1, <4>2 DEF HoldScript
      <3>2. script'[<<"guard", r>>] = script[<<"guard", r>>] /\ script'[<<"janitor", r>>] = script[<<"janitor", r>>]
        BY <1>2, <2>2, Actors
      <3> QED BY <3>1, <3>2, Frame
    <2>3. CASE a = <<"guard", r>>
      <3>1. GuardScript(r)'
        BY <1>0, <1>2, <2>1, <2>3, SameScene, RemoveFacts DEF GuardScript
      <3>2. script'[<<"hold", r>>] = script[<<"hold", r>>] /\ script'[<<"janitor", r>>] = script[<<"janitor", r>>]
        BY <1>2, <2>3, Actors
      <3> QED BY <3>1, <3>2, Frame
    <2>4. CASE a = <<"janitor", r>>
      <3>1. JanitorScript(r)'
        BY <1>2, <1>a, <2>1, <2>4, SameScene, CleanupFacts DEF JanitorScript
      <3>2. script'[<<"hold", r>>] = script[<<"hold", r>>] /\ script'[<<"guard", r>>] = script[<<"guard", r>>]
        BY <1>2, <2>4, Actors
      <3> QED BY <3>1, <3>2, Frame
    <2>5. CASE a \notin {<<"hold", r>>, <<"guard", r>>, <<"janitor", r>>}
      BY <1>2, <2>5, Actors, Frame
    <2> QED BY <2>2, <2>3, <2>4, <2>5
  <1>4. ASSUME NEW d \in Decider
        PROVE  DeskScript(d)'
    <2>1. CASE a # <<"desk", d>>
      BY <1>2, <2>1, Actors, Frame
    <2>2. CASE a = <<"desk", d>>
      <3> DEFINE r == desk[d].on
                 x == desk[d].decision
                 s == script[a]
      <3>1. /\ r \in Request /\ x \in Decisions
            /\ \/ desk[d].state = "found" /\ s = submit_outcome(r, x)
               \/ desk[d].state = "found" /\ backend = "memory" /\ s = sending(r, x)
               \/ /\ desk[d].state = "delivered" /\ backend = "memory"
                  /\ s = <<cmd("dropCard", r, "-")>>
               \/ desk[d].state = "delivered" /\ backend = "redis" /\ s \in RemoveRest(r)
        <4>1. DeskScript(d)
          BY DEF Base, ScriptsOK
        <4> QED BY <2>2, <4>1 DEF DeskScript
      <3>2. ~(desk[d].state = "found")
        <4>1. CASE s = submit_outcome(r, x)
          BY <1>0, <3>1, <4>1, DecisionFacts, Commands, Backends DEF next
        <4>2. CASE s = sending(r, x)
          BY <1>0, <3>1, <4>2, DecisionFacts, Commands DEF next
        <4> QED BY <3>1, <4>1, <4>2
      <3>3. \/ Tail(s) = <<>>
            \/ desk[d].state = "delivered" /\ backend = "redis" /\ Tail(s) \in RemoveRest(r)
        BY <1>0, <3>1, <3>2, DecisionFacts, RemoveFacts
      <3>4. script'[<<"desk", d>>] = Tail(s)
        BY <1>2, <2>2
      <3> QED BY <3>1, <3>3, <3>4, SameScene DEF DeskScript
    <2> QED BY <2>1, <2>2
  <1> QED BY <1>3, <1>4, SameScene DEF Base, ScriptsOK

\* Where a request can be.
Phases == {"new", "claiming", "storing", "opening", "waiting", "served", "ended"}

LEMMA BeginHoldBase ==
    ASSUME Base, NEW r \in Request, phase[r] \in Fresh, BeginHold(r), scene' = scene, desk' = desk
    PROVE  /\ ScriptsOK' /\ phase' \in [Request -> Phases]
           /\ script' \in [Actor -> Seq(Command)]
           /\ sender' \in [Request -> {"absent", "map", "taken"}]
  <1>0. TypeOK
    BY DEF Base
  <1>1. store(r) \in StoreRest(r)
    BY DEF StoreRest
  <1>2. store(r) \in Seq(Command)
    BY <1>0, <1>1, StoreFacts
  <1>3. phase[r] # "ended" /\ "storing" \notin Fresh
    BY DEF Fresh
  <1>4. ScriptsOK'
    BY <1>1, <1>3, HoldMoves DEF BeginHold
  <1> QED BY <1>0, <1>2, <1>4 DEF BeginHold, prepare_wait, TypeOK, Phases

LEMMA ArriveBase ==
    ASSUME Base, NEW r \in Request, Arrive(r)
    PROVE  Base'
  <1>0. TypeOK
    BY DEF Base
  <1>1. CASE BeginHold(r) /\ UNCHANGED via
    <2>1. /\ ScriptsOK' /\ phase' \in [Request -> Phases] /\ script' \in [Actor -> Seq(Command)]
          /\ sender' \in [Request -> {"absent", "map", "taken"}]
      BY <1>1, BeginHoldBase DEF Arrive, Fresh
    <2> QED BY <1>0, <1>1, <2>1 DEF Arrive, Base, TypeOK, Phases, windowVars, history
  <1>2. CASE /\ window # NoRequest
             /\ phase' = [phase EXCEPT ![r] = "claiming"]
             /\ via' = [via EXCEPT ![r] = window]
             /\ UNCHANGED <<sender, script>>
    <2>1. script[<<"hold", r>>] = <<>> /\ phase[r] = "new"
      BY DEF Arrive, Base, ScriptsOK, HoldScript
    <2>2. ScriptsOK'
      BY <1>2, <2>1, HoldMovesOnly DEF Arrive, Fresh
    <2> QED BY <1>0, <1>2, <2>2 DEF Arrive, Base, TypeOK, windowVars, history
  <1> QED BY <1>1, <1>2 DEF Arrive

LEMMA ClaimBase ==
    ASSUME Base, NEW r \in Request, via[r] \in Request, Claim(r)
    PROVE  Base'
  <1>0. TypeOK
    BY DEF Base
  <1>1. uses' \in [Request -> Nat]
    BY <1>0 DEF Claim, TypeOK
  <1>2. CASE BeginHold(r) /\ UNCHANGED verdict
    <2>1. /\ ScriptsOK' /\ phase' \in [Request -> Phases] /\ script' \in [Actor -> Seq(Command)]
          /\ sender' \in [Request -> {"absent", "map", "taken"}]
      BY <1>2, BeginHoldBase DEF Claim, Fresh
    <2> QED BY <1>0, <1>1, <1>2, <2>1 DEF Claim, Base, TypeOK, Phases, history
  <1>3. CASE /\ phase' = [phase EXCEPT ![r] = "ended"]
             /\ verdict' = [verdict EXCEPT ![r] = "similar"]
             /\ UNCHANGED <<sender, script>>
    <2>1. script[<<"hold", r>>] = <<>> /\ phase[r] = "claiming"
      BY DEF Claim, Base, ScriptsOK, HoldScript
    <2>2. ScriptsOK'
      BY <1>3, <2>1, HoldMovesOnly DEF Claim, Fresh
    <2> QED BY <1>0, <1>1, <1>3, <2>2 DEF Claim, Base, TypeOK, history, Verdict
  <1> QED BY <1>2, <1>3 DEF Claim

LEMMA VerdictType == \A x \in Decisions : verdictOf(x) \in {"approved", "declined", "superseded"}
  BY ApprovalAssumption DEF verdictOf

LEMMA MailHead ==
    ASSUME TypeOK, NEW r \in Request, mail[r] # <<>>
    PROVE  Head(mail[r]) \in Decisions /\ Tail(mail[r]) \in Seq(Decisions)
  BY DEF TypeOK

LEMMA WaitBase ==
    ASSUME Base, NEW r \in Request, BeginWait(r) \/ Blpop(r)
    PROVE  Base'
  <1>0. TypeOK
    BY DEF Base
  <1>1. CASE BeginWait(r)
    <2>1. ScriptsOK'
      BY <1>0, <1>1, HoldMovesOnly, Backends DEF BeginWait, Fresh
    <2> QED BY <1>0, <1>1, <2>1 DEF BeginWait, Base, TypeOK, storeVars, windowVars, history
  <1>2. CASE Blpop(r)
    <2>1. script[<<"hold", r>>] = <<>> /\ phase[r] = "opening" /\ backend = "redis"
      BY <1>2 DEF Blpop, Base, ScriptsOK, HoldScript
    <2>2. ScriptsOK'
      BY <1>2, <2>1, HoldMovesOnly DEF Blpop, Fresh
    <2>3. mail' \in [Request -> Seq(Decisions)] /\ verdict' \in [Request -> Verdict]
      <3>1. CASE mail[r] = <<>>
        BY <1>0, <1>2, <3>1 DEF Blpop, TypeOK
      <3>2. CASE mail[r] # <<>>
        <4>1. Tail(mail[r]) \in Seq(Decisions) /\ verdictOf(Head(mail[r])) \in Verdict
          BY <1>0, <3>2, MailHead, VerdictType DEF Verdict
        <4>2. /\ mail' = [mail EXCEPT ![r] = Tail(mail[r])]
              /\ verdict' = [verdict EXCEPT ![r] = verdictOf(Head(mail[r]))]
          BY <1>2, <3>2 DEF Blpop
        <4>3. mail \in [Request -> Seq(Decisions)] /\ verdict \in [Request -> Verdict]
          BY <1>0 DEF TypeOK
        <4> QED BY <4>1, <4>2, <4>3
      <3> QED BY <3>1, <3>2
    <2> QED BY <1>0, <1>2, <2>2, <2>3 DEF Blpop, Base, TypeOK, windowVars, history
  <1> QED BY <1>1, <1>2

\* The end of a hold.
LEMMA EndHoldBase ==
    ASSUME Base, NEW r \in Request, NEW v \in Verdict, phase[r] # "ended",
           endHold(r, v), scene' = scene, desk' = desk
    PROVE  /\ ScriptsOK' /\ phase' \in [Request -> Phases]
           /\ script' \in [Actor -> Seq(Command)] /\ verdict' \in [Request -> Verdict]
  <1>0. TypeOK
    BY DEF Base
  <1>1. remove(r) \in RemoveRest(r) /\ remove(r) \in Seq(Command)
    BY <1>0, RemoveFacts
  <1>2. ScriptsOK'
    BY <1>1, HoldMoves DEF endHold, Fresh
  <1> QED BY <1>0, <1>1, <1>2 DEF endHold, TypeOK, Phases

LEMMA EndBase ==
    ASSUME Base, NEW r \in Request, Receive(r) \/ TimeOut(r) \/ Shutdown(r) \/ WaitFails(r)
    PROVE  Base'
  <1>0. TypeOK
    BY DEF Base
  <1>1. PICK v \in Verdict : endHold(r, v)
    BY ZenonT(40), <1>0, MailHead, VerdictType DEF Receive, TimeOut, Shutdown, WaitFails, TypeOK, Verdict
  <1>2. phase[r] # "ended" /\ scene' = scene /\ desk' = desk
    BY DEF Receive, TimeOut, Shutdown, WaitFails
  <1>3. /\ ScriptsOK' /\ phase' \in [Request -> Phases]
        /\ script' \in [Actor -> Seq(Command)] /\ verdict' \in [Request -> Verdict]
    BY <1>1, <1>2, EndHoldBase
  <1>4. errors' \in 0..scene.errors
    <2>1. scene.errors \in Nat
      BY <1>0, ApprovalAssumption DEF TypeOK
    <2> QED BY <1>0, <2>1 DEF Receive, TimeOut, Shutdown, WaitFails, TypeOK
  <1>5. UNCHANGED <<scene, via, storeVars, expired, desk, poll, windowVars, history>>
    BY DEF Receive, TimeOut, Shutdown, WaitFails
  <1> QED BY <1>0, <1>3, <1>4, <1>5 DEF Base, TypeOK, Phases, storeVars, windowVars, history

LEMMA CancelBase ==
    ASSUME Base, NEW r \in Request, Cancel(r)
    PROVE  Base'
  <1>0. TypeOK
    BY DEF Base
  <1> DEFINE h == <<"hold", r>>
             g == <<"guard", r>>
             t == IF phase[r] \in guarded THEN remove(r) ELSE script[g]
  <1>1. script \in [Actor -> Seq(Command)] /\ h \in Actor /\ g \in Actor /\ h # g
    BY <1>0, Actors DEF TypeOK
  <1>2. script' = [script EXCEPT ![h] = <<>>, ![g] = t]
    BY DEF Cancel
  <1>3. remove(r) \in RemoveRest(r) /\ remove(r) \in Seq(Command)
    BY <1>0, RemoveFacts
  <1>4. t \in Seq(Command)
    BY <1>1, <1>3
  <1>5. phase' = [phase EXCEPT ![r] = "ended"] /\ phase \in [Request -> Phases]
    BY <1>0 DEF Cancel, TypeOK, Phases
  <1>6. /\ script'[h] = <<>> /\ script'[g] = t /\ \A a \in Actor \ {h, g} : script'[a] = script[a]
        /\ script' \in [Actor -> Seq(Command)]
    <2> HIDE DEF h, g, t
    <2>1. script'[h] = <<>> /\ script'[g] = t /\ \A a \in Actor \ {h, g} : script'[a] = script[a]
      BY <1>1, <1>2
    <2>2. [script EXCEPT ![h] = <<>>] \in [Actor -> Seq(Command)]
      BY <1>1
    <2>3. script' = [[script EXCEPT ![h] = <<>>] EXCEPT ![g] = t]
      BY <1>1, <1>2, Zenon
    <2>4. script' \in [Actor -> Seq(Command)]
      BY <1>4, <2>2, <2>3
    <2> QED BY <2>1, <2>4
  <1>a. scene' = scene /\ desk' = desk
    BY DEF Cancel
  <1>7. \A q \in Request : HoldScript(q)' /\ GuardScript(q)' /\ JanitorScript(q)'
    <2> SUFFICES ASSUME NEW q \in Request
                 PROVE  HoldScript(q)' /\ GuardScript(q)' /\ JanitorScript(q)'
      OBVIOUS
    <2>1. JanitorScript(q)'
      BY <1>6, <1>a, Actors, Frame
    <2>2. CASE q # r
      <3>1. script'[<<"hold", q>>] = script[<<"hold", q>>] /\ script'[<<"guard", q>>] = script[<<"guard", q>>]
        BY <1>6, <2>2, Actors
      <3>2. phase'[q] = phase[q]
        BY <1>5, <2>2
      <3> QED BY <1>a, <2>1, <3>1, <3>2, Frame
    <2>3. CASE q = r
      <3>1. HoldScript(r)'
        BY <1>6 DEF HoldScript
      <3>2. phase'[r] = "ended"
        BY <1>5
      <3>3. t = <<>> \/ t \in RemoveRest(r)
        BY <1>3 DEF Base, ScriptsOK, GuardScript
      <3> QED BY <1>6, <2>1, <2>3, <3>1, <3>2, <3>3, SameScene DEF GuardScript, Cancel
    <2> QED BY <2>2, <2>3
  <1>8. \A d \in Decider : DeskScript(d)'
    BY <1>6, Actors, Frame DEF Cancel
  <1>9. ScriptsOK'
    BY <1>5, <1>7, <1>8, SameScene DEF Base, ScriptsOK, Cancel, Fresh
  <1> QED BY ZenonT(40), <1>0, <1>5, <1>6, <1>9 DEF Base, TypeOK, Cancel, Phases, Verdict, storeVars, windowVars

\* The commands that neither end a hold nor decide.
Plain(a) ==
    \/ SetCard(a) \/ AddIndex(a) \/ Publish(a) \/ DropIndex(a) \/ DropCard(a)
    \/ DropMail(a) \/ DropSender(a)

LEMMA PlainFacts ==
    ASSUME NEW a, Plain(a)
    PROVE  /\ script[a] # <<>> /\ issue(a) /\ next(a).op \notin {"takeSender", "send", "push"}
           /\ UNCHANGED <<scene, holdVars, expired, desk, windowVars, errors, history>>
  BY DEF Plain, SetCard, AddIndex, Publish, DropIndex, DropCard, DropMail, DropSender, issues

LEMMA IssueType ==
    ASSUME Base, NEW a \in Actor, script[a] # <<>>, issue(a)
    PROVE  /\ script' \in [Actor -> Seq(Command)]
           /\ script'[a] = Tail(script[a]) /\ \A b \in Actor : b # a => script'[b] = script[b]
  BY Issued DEF issue, Base, TypeOK

LEMMA PlainBase ==
    ASSUME Base, NEW a \in Actor, Plain(a)
    PROVE  Base'
  <1>0. TypeOK
    BY DEF Base
  <1>1. /\ script[a] # <<>> /\ issue(a) /\ next(a).op \notin {"takeSender", "send", "push"}
        /\ UNCHANGED <<scene, phase, verdict, via, expired, desk, window, uses, errors, inTime, loose>>
    BY PlainFacts DEF holdVars, windowVars, history
  <1>2. ScriptsOK' /\ script' \in [Actor -> Seq(Command)]
    BY <1>1, ScriptMoves, IssueType
  <1>3. next(a).on \in Request
    BY <1>1, Issued DEF Command
  <1>4. card' \subseteq Request
    BY <1>0, <1>3 DEF Plain, SetCard, AddIndex, Publish, DropIndex, DropCard, DropMail, DropSender,
                      TypeOK, storeVars
  <1>5. index' \subseteq Scope \X Request
    <2>1. CASE AddIndex(a)
      <3>1. next(a).op = "addIndex"
        BY <2>1 DEF AddIndex, issues
      <3>2. next(a).with \in Scope
        <4>1. ~IsDrop(next(a))
          BY <3>1, Commands DEF IsDrop
        <4> QED BY <1>0, <1>1, <3>1, <4>1, Issued, StoreFacts, Commands DEF next
      <3> QED BY <1>0, <1>3, <2>1, <3>2 DEF AddIndex, TypeOK
    <2>2. CASE ~AddIndex(a)
      BY <1>0, <2>2 DEF Plain, SetCard, Publish, DropIndex, DropCard, DropMail, DropSender,
                        TypeOK, storeVars
    <2> QED BY <2>1, <2>2
  <1>6. mail' \in [Request -> Seq(Decisions)]
    <2>1. CASE mail' = [mail EXCEPT ![next(a).on] = <<>>]
      BY <1>0, <1>3, <2>1 DEF TypeOK
    <2>2. CASE mail' = mail
      BY <1>0, <2>2 DEF TypeOK
    <2> QED BY <2>1, <2>2 DEF Plain, SetCard, AddIndex, Publish, DropIndex, DropCard, DropMail, DropSender,
                      storeVars
  <1>7. sender' \in [Request -> {"absent", "map", "taken"}]
    <2>1. CASE sender' = [sender EXCEPT ![next(a).on] = IF @ = "map" THEN "absent" ELSE @]
      BY <1>0, <1>3, <2>1 DEF TypeOK
    <2>2. CASE sender' = sender
      BY <1>0, <2>2 DEF TypeOK
    <2> QED BY <2>1, <2>2 DEF Plain, SetCard, AddIndex, Publish, DropIndex, DropCard, DropMail, DropSender,
                      storeVars
  <1>8. poll' \in [at : Listing \cup {"idle", "subscribe", "wait"}, scope : Scope,
                   read : BOOLEAN, ids : SUBSET Request, note : BOOLEAN]
    BY ZenonT(40), <1>0 DEF Plain, SetCard, AddIndex, Publish, DropIndex, DropCard, DropMail, DropSender, TypeOK
  <1> QED BY <1>0, <1>1, <1>2, <1>4, <1>5, <1>6, <1>7, <1>8 DEF Base, TypeOK

\* A reviewer's script, answer and perhaps the request change; nothing else.
LEMMA DeskMoves ==
    ASSUME Base, scene' = scene, NEW d \in Decider, NEW s, NEW v, NEW q \in Request, NEW p,
           script' = [script EXCEPT ![<<"desk", d>>] = s], desk' = [desk EXCEPT ![d] = v],
           phase' = [phase EXCEPT ![q] = p],
           p = phase[q] \/ (phase[q] = "waiting" /\ p = "served" /\ backend = "redis"),
           DeskScript(d)', v.on \in Request /\ phase[v.on] \notin Fresh,
           v.state \in {"delivered", "opened"} => v.decision \in Decisions
    PROVE  ScriptsOK'
  <1>1. script \in [Actor -> Seq(Command)] /\ phase \in [Request -> Phases] /\ DOMAIN desk = Decider
    BY DEF Base, TypeOK, Phases
  <1>2. \A a \in Actor : a # <<"desk", d>> => script'[a] = script[a]
    BY <1>1
  <1>3. phase'[q] = p /\ \A r \in Request : r # q => phase'[r] = phase[r]
    BY <1>1
  <1>4. desk'[d] = v /\ \A e \in Decider : e # d => desk'[e] = desk[e]
    BY <1>1
  <1>5. script[<<"hold", q>>] = <<>> \/ p = phase[q]
    BY DEF Base, ScriptsOK, HoldScript
  <1>6. \A r \in Request : HoldScript(r)' /\ GuardScript(r)' /\ JanitorScript(r)'
    <2> SUFFICES ASSUME NEW r \in Request
                 PROVE  HoldScript(r)' /\ GuardScript(r)' /\ JanitorScript(r)'
      OBVIOUS
    <2>1. /\ script'[<<"hold", r>>] = script[<<"hold", r>>]
          /\ script'[<<"guard", r>>] = script[<<"guard", r>>]
          /\ script'[<<"janitor", r>>] = script[<<"janitor", r>>]
      BY <1>2, Actors
    <2> QED BY <1>3, <1>5, <2>1, Frame
  <1>7. ASSUME NEW e \in Decider
        PROVE  DeskScript(e)'
    <2>1. e # d => script'[<<"desk", e>>] = script[<<"desk", e>>]
      BY <1>2, Actors
    <2> QED BY <1>4, <2>1, Frame
  <1>8. \A r \in Request : /\ phase'[r] \in {"opening", "served"} => backend' = "redis"
                           /\ phase'[r] \in Fresh => phase[r] \in Fresh
    BY <1>3, SameScene DEF Base, ScriptsOK, Fresh
  <1>9. ASSUME NEW e \in Decider
        PROVE  /\ desk'[e].state # "idle" => desk'[e].on \in Request /\ phase'[desk'[e].on] \notin Fresh
               /\ desk'[e].state \in {"delivered", "opened"} => desk'[e].decision \in Decisions
    BY <1>4, <1>8 DEF Base, ScriptsOK
  <1> QED BY <1>6, <1>7, <1>8, <1>9 DEF ScriptsOK

Desk == [on : Request \cup {NoRequest}, decision : Decisions \cup {"-"},
         state : {"idle", "found", "refused", "delivered", "opened"}]

\* What a decision's command tells about the reviewer.
LEMMA Deciding ==
    ASSUME Base, NEW a \in Actor, NEW op \in {"takeSender", "send", "push"}, issues(a, op)
    PROVE  \E d \in Decider :
             /\ a = <<"desk", d>> /\ a[2] = d
             /\ desk[d].on \in Request /\ desk[d].decision \in Decisions /\ desk[d].state = "found"
             /\ phase[desk[d].on] \notin Fresh
             /\ next(a) = cmd(op, desk[d].on, desk[d].decision)
             /\ next(a).on = desk[d].on /\ next(a).with = desk[d].decision
             /\ op \in {"takeSender", "send"} => backend = "memory"
             /\ op = "push" => backend = "redis"
             /\ op = "send" => /\ script[a] = sending(desk[d].on, desk[d].decision)
                               /\ Tail(script[a]) = <<cmd("dropCard", desk[d].on, "-")>>
             /\ op = "takeSender" => /\ script[a] = submit_outcome(desk[d].on, desk[d].decision)
                                     /\ Tail(script[a]) = <<>>
             /\ op = "push" => Tail(script[a]) = remove(desk[d].on)
  <1>0. TypeOK
    BY DEF Base
  <1>1. script[a] # <<>> /\ next(a).op = op
    BY DEF issues
  <1>2. ~IsDrop(next(a))
    BY <1>1, Commands DEF IsDrop
  <1>3. PICK d \in Decider :
                   /\ a = <<"desk", d>> /\ desk[d].on \in Request /\ desk[d].decision \in Decisions
                   /\ desk[d].state = "found"
                   /\ LET r == desk[d].on
                          x == desk[d].decision
                      IN  \/ /\ backend = "memory" /\ next(a) = cmd("takeSender", r, x)
                             /\ script[a] = submit_outcome(r, x)
                          \/ /\ backend = "memory" /\ next(a) = cmd("send", r, x)
                             /\ script[a] = sending(r, x)
                          \/ /\ backend = "redis" /\ next(a) = cmd("push", r, x)
                             /\ script[a] = submit_outcome(r, x)
    BY <1>1, <1>2, Issued
  <1>4. phase[desk[d].on] \notin Fresh /\ a[2] = d
    BY <1>3 DEF Base, ScriptsOK
  <1> DEFINE r == desk[d].on
             x == desk[d].decision
  <1>5. r \in Request /\ x \in Decisions
    BY <1>3
  <1>6. CASE backend = "memory" /\ next(a) = cmd("takeSender", r, x) /\ script[a] = submit_outcome(r, x)
    <2>1. op = "takeSender" /\ next(a).on = r /\ next(a).with = x
      BY <1>1, <1>6, Commands
    <2>2. Tail(script[a]) = <<>>
      BY <1>0, <1>5, <1>6, DecisionFacts
    <2> QED BY <1>3, <1>4, <1>6, <2>1, <2>2
  <1>7. CASE backend = "memory" /\ next(a) = cmd("send", r, x) /\ script[a] = sending(r, x)
    <2>1. op = "send" /\ next(a).on = r /\ next(a).with = x
      BY <1>1, <1>7, Commands
    <2>2. Tail(script[a]) = <<cmd("dropCard", r, "-")>>
      BY <1>0, <1>5, <1>7, DecisionFacts
    <2> QED BY <1>3, <1>4, <1>7, <2>1, <2>2
  <1>8. CASE backend = "redis" /\ next(a) = cmd("push", r, x) /\ script[a] = submit_outcome(r, x)
    <2>1. op = "push" /\ next(a).on = r /\ next(a).with = x
      BY <1>1, <1>8, Commands
    <2>2. Tail(script[a]) = remove(r)
      BY <1>0, <1>5, <1>8, DecisionFacts
    <2> QED BY <1>3, <1>4, <1>8, <2>1, <2>2
  <1> QED BY <1>3, <1>6, <1>7, <1>8

LEMMA TakeSenderBase ==
    ASSUME Base, NEW a \in Actor, TakeSender(a)
    PROVE  Base'
  <1>0. TypeOK
    BY DEF Base
  <1>1. PICK d \in Decider :
             /\ a = <<"desk", d>> /\ a[2] = d
             /\ desk[d].on \in Request /\ desk[d].decision \in Decisions /\ desk[d].state = "found"
             /\ phase[desk[d].on] \notin Fresh /\ backend = "memory"
             /\ next(a).on = desk[d].on /\ next(a).with = desk[d].decision
             /\ Tail(script[a]) = <<>>
    BY Deciding DEF TakeSender
  <1> DEFINE r == desk[d].on
             x == desk[d].decision
  <1>2. sending(r, x) \in Seq(Command) /\ sending(r, x) = <<cmd("send", r, x), cmd("dropCard", r, "-")>>
    BY <1>0, <1>1, DecisionFacts DEF sending
  <1>3. /\ scene' = scene /\ UNCHANGED <<holdVars, card, index, mail, expired, poll, windowVars, errors, history>>
        /\ script \in [Actor -> Seq(Command)] /\ desk \in [Decider -> Desk]
        /\ phase' = [phase EXCEPT ![r] = phase[r]] /\ desk[d] \in Desk
    BY <1>0, <1>1 DEF TakeSender, TypeOK, Desk, holdVars
  <1>4. CASE sender[r] = "map"
    <2>1. /\ script' = [script EXCEPT ![<<"desk", d>>] = sending(r, x)]
          /\ desk' = [desk EXCEPT ![d] = desk[d]]
          /\ sender' = [sender EXCEPT ![r] = "taken"]
      BY <1>1, <1>2, <1>3, <1>4 DEF TakeSender, afterTake
    <2>2. DeskScript(d)'
      <3>1. script'[<<"desk", d>>] = sending(r, x) /\ desk'[d] = desk[d] /\ backend' = "memory"
        BY <1>1, <1>3, <2>1, Actors, SameScene
      <3> QED BY <1>1, <3>1 DEF DeskScript
    <2>3. ScriptsOK'
      BY <1>1, <1>3, <2>1, <2>2, DeskMoves
    <2>4. /\ script' \in [Actor -> Seq(Command)] /\ desk' \in [Decider -> Desk]
          /\ sender' \in [Request -> {"absent", "map", "taken"}]
      BY <1>0, <1>2, <1>3, <2>1 DEF TypeOK
    <2> QED BY ZenonT(40), <1>0, <1>3, <2>3, <2>4 DEF Base, TypeOK, Desk, holdVars, windowVars, history
  <1>5. CASE sender[r] # "map"
    <2>1. /\ script' = [script EXCEPT ![<<"desk", d>>] = <<>>]
          /\ desk' = [desk EXCEPT ![d] = [desk[d] EXCEPT !.state = "refused"]]
          /\ sender' = sender
      <3>1. issue(a) /\ desk' = [desk EXCEPT ![a[2]].state = "refused"] /\ sender' = sender
        BY <1>1, <1>5 DEF TakeSender
      <3>2. script' = [script EXCEPT ![<<"desk", d>>] = <<>>]
        BY <1>1, <3>1 DEF issue
      <3> QED BY <1>1, <3>1, <3>2
    <2>2. DeskScript(d)'
      <3>1. script'[<<"desk", d>>] = <<>>
        BY <1>3, <2>1, Actors
      <3> QED BY <3>1 DEF DeskScript
    <2>3. /\ [desk[d] EXCEPT !.state = "refused"] \in Desk
          /\ [desk[d] EXCEPT !.state = "refused"].on = r
          /\ [desk[d] EXCEPT !.state = "refused"].state = "refused"
      BY <1>3 DEF Desk
    <2>4. ScriptsOK'
      BY <1>1, <1>3, <2>1, <2>2, <2>3, DeskMoves
    <2>5. script' \in [Actor -> Seq(Command)] /\ desk' \in [Decider -> Desk]
      <3>1. <<>> \in Seq(Command)
        OBVIOUS
      <3> QED BY <1>3, <2>1, <2>3, <3>1
    <2> QED BY <1>0, <1>3, <2>1, <2>4, <2>5 DEF Base, TypeOK, Desk, holdVars, windowVars, history
  <1> QED BY <1>4, <1>5

\* A reviewer's answer, with its request and decision kept.
LEMMA DeskState ==
    ASSUME TypeOK, NEW d \in Decider, NEW v \in {"refused", "delivered", "opened"}
    PROVE  /\ [desk[d] EXCEPT !.state = v] \in Desk
           /\ [desk[d] EXCEPT !.state = v].on = desk[d].on
           /\ [desk[d] EXCEPT !.state = v].decision = desk[d].decision
           /\ [desk[d] EXCEPT !.state = v].state = v
           /\ desk \in [Decider -> Desk]
  BY ZenonT(40) DEF TypeOK, Desk

LEMMA DeliverBase ==
    ASSUME Base, NEW a \in Actor, NEW d \in Decider, a = <<"desk", d>>, a[2] = d,
           script[a] # <<>>, issue(a), deliver(a), scene' = scene,
           next(a).on \in Request, next(a).with \in Decisions,
           desk[d].on \in Request, desk[d].decision \in Decisions, phase[desk[d].on] \notin Fresh,
           \/ backend = "memory" /\ Tail(script[a]) = <<cmd("dropCard", desk[d].on, "-")>>
           \/ backend = "redis" /\ Tail(script[a]) = remove(desk[d].on),
           NEW q \in Request, NEW p, phase' = [phase EXCEPT ![q] = p],
           p = phase[q] \/ (phase[q] = "waiting" /\ p = "served" /\ backend = "redis")
    PROVE  /\ ScriptsOK' /\ script' \in [Actor -> Seq(Command)] /\ desk' \in [Decider -> Desk]
           /\ inTime' \in [Request -> Decisions \cup {"-"}]
           /\ desk' = [desk EXCEPT ![d] = [desk[d] EXCEPT !.state = "delivered"]]
           /\ script' = [script EXCEPT ![<<"desk", d>>] = Tail(script[a])]
  <1>0. TypeOK
    BY DEF Base
  <1> DEFINE v == [desk[d] EXCEPT !.state = "delivered"]
             s == Tail(script[a])
  <1>1. /\ v \in Desk /\ v.on = desk[d].on /\ v.decision = desk[d].decision /\ v.state = "delivered"
        /\ desk \in [Decider -> Desk]
    BY <1>0, DeskState
  <1>2. desk' = [desk EXCEPT ![d] = v]
    BY DEF deliver
  <1>3. script' = [script EXCEPT ![<<"desk", d>>] = s] /\ script' \in [Actor -> Seq(Command)]
    BY IssueType DEF issue
  <1>4. script'[<<"desk", d>>] = s
    BY IssueType
  <1> HIDE DEF v, s
  <1>5. desk'[d] = v /\ desk' \in [Decider -> Desk]
    BY <1>1, <1>2
  <1>6. DeskScript(d)'
    <2>1. CASE backend = "memory"
      BY <1>1, <1>4, <1>5, <2>1, SameScene DEF DeskScript, s
    <2>2. CASE backend = "redis"
      <3>1. s \in RemoveRest(desk[d].on)
        BY <1>0, <2>2, RemoveFacts DEF s
      <3> QED BY <1>1, <1>4, <1>5, <2>2, <3>1, SameScene DEF DeskScript
    <2> QED BY <1>0, <2>1, <2>2, Backends
  <1>7. ScriptsOK'
    BY <1>1, <1>2, <1>3, <1>6, DeskMoves
  <1>8. inTime' \in [Request -> Decisions \cup {"-"}]
    BY <1>0 DEF deliver, TypeOK
  <1> QED BY <1>2, <1>3, <1>5, <1>7, <1>8 DEF v, s

LEMMA SendBase ==
    ASSUME Base, NEW a \in Actor, Send(a)
    PROVE  Base'
  <1>0. TypeOK
    BY DEF Base
  <1>1. PICK d \in Decider :
             /\ a = <<"desk", d>> /\ a[2] = d
             /\ desk[d].on \in Request /\ desk[d].decision \in Decisions
             /\ phase[desk[d].on] \notin Fresh
             /\ next(a).on = desk[d].on /\ next(a).with = desk[d].decision
             /\ backend = "memory" /\ Tail(script[a]) = <<cmd("dropCard", desk[d].on, "-")>>
    BY Deciding DEF Send
  <1>2. phase' = [phase EXCEPT ![desk[d].on] = phase[desk[d].on]] /\ scene' = scene /\ script[a] # <<>>
    BY <1>0, <1>1 DEF Send, TypeOK, holdVars, issues
  <1>3. /\ ScriptsOK' /\ script' \in [Actor -> Seq(Command)] /\ desk' \in [Decider -> Desk]
        /\ inTime' \in [Request -> Decisions \cup {"-"}]
    BY <1>1, <1>2, DeliverBase DEF Send
  <1>4. mail' \in [Request -> Seq(Decisions)]
    <2>1. <<next(a).with>> \in Seq(Decisions)
      BY <1>1, TupleSeq
    <2> QED BY <1>0, <2>1 DEF Send, TypeOK
  <1>5. sender' \in [Request -> {"absent", "map", "taken"}]
    BY <1>0, <1>1 DEF Send, TypeOK
  <1> QED BY <1>0, <1>3, <1>4, <1>5 DEF Send, Base, TypeOK, Desk, holdVars, windowVars

\* A value that is pushed reaches a waiter or becomes the head of the list.
LEMMA PushType ==
    ASSUME Base, NEW r \in Request, NEW x \in Decisions,
           lpush(r, x) \/ UNCHANGED <<phase, verdict, mail>>, backend = "redis"
    PROVE  /\ mail' \in [Request -> Seq(Decisions)] /\ verdict' \in [Request -> Verdict]
           /\ phase' \in [Request -> Phases]
           /\ \E p : /\ phase' = [phase EXCEPT ![r] = p]
                     /\ p = phase[r] \/ (phase[r] = "waiting" /\ p = "served")
  <1>0. /\ mail \in [Request -> Seq(Decisions)] /\ verdict \in [Request -> Verdict]
        /\ phase \in [Request -> Phases]
    BY DEF Base, TypeOK, Phases
  <1>1. CASE UNCHANGED <<phase, verdict, mail>>
    BY <1>0, <1>1
  <1>2. CASE /\ phase[r] = "waiting"
             /\ phase' = [phase EXCEPT ![r] = "served"]
             /\ verdict' = [verdict EXCEPT ![r] = verdictOf(x)]
             /\ UNCHANGED mail
    BY <1>0, <1>2, VerdictType DEF Verdict, Phases
  <1>3. CASE /\ mail' = [mail EXCEPT ![r] = <<x>> \o @]
             /\ UNCHANGED <<phase, verdict>>
    <2>1. <<x>> \o mail[r] \in Seq(Decisions)
      BY <1>0, Prefixed
    <2>2. mail' \in [Request -> Seq(Decisions)]
      BY <1>0, <1>3, <2>1
    <2> QED BY <1>0, <1>3, <2>2
  <1> QED BY <1>1, <1>2, <1>3 DEF lpush

LEMMA PushBase ==
    ASSUME Base, NEW a \in Actor, Push(a)
    PROVE  Base'
  <1>0. TypeOK
    BY DEF Base
  <1>1. PICK d \in Decider :
             /\ a = <<"desk", d>> /\ a[2] = d
             /\ desk[d].on \in Request /\ desk[d].decision \in Decisions
             /\ phase[desk[d].on] \notin Fresh
             /\ next(a).on = desk[d].on /\ next(a).with = desk[d].decision
             /\ backend = "redis" /\ Tail(script[a]) = remove(desk[d].on)
    BY Deciding DEF Push
  <1>2. PICK r \in Request : r = desk[d].on
    BY <1>1
  <1>3. /\ mail' \in [Request -> Seq(Decisions)] /\ verdict' \in [Request -> Verdict]
        /\ phase' \in [Request -> Phases]
        /\ \E p : /\ phase' = [phase EXCEPT ![r] = p]
                  /\ p = phase[r] \/ (phase[r] = "waiting" /\ p = "served")
    BY <1>1, <1>2, PushType DEF Push
  <1>4. PICK p : /\ phase' = [phase EXCEPT ![r] = p]
                 /\ p = phase[r] \/ (phase[r] = "waiting" /\ p = "served")
    BY <1>3
  <1>5. /\ ScriptsOK' /\ script' \in [Actor -> Seq(Command)] /\ desk' \in [Decider -> Desk]
        /\ inTime' \in [Request -> Decisions \cup {"-"}]
    BY <1>1, <1>2, <1>4, DeliverBase DEF Push, issues
  <1> QED BY <1>0, <1>3, <1>5 DEF Push, Base, TypeOK, Desk, Phases, windowVars

LEMMA FailsBase ==
    ASSUME Base, NEW a \in Actor, CommandFails(a)
    PROVE  Base'
  <1>0. TypeOK
    BY DEF Base
  <1> DEFINE r == next(a).on
  <1>1. /\ scene' = scene /\ backend = "redis" /\ script[a] # <<>>
        /\ UNCHANGED <<via, index, sender, expired, poll, windowVars, inTime>>
        /\ loose' = loose \cup {r} /\ errors' = errors + 1 /\ errors < scene.errors
    BY DEF CommandFails
  <1>2. r \in Request
    BY <1>1, Issued DEF Command
  <1>3. errors' \in 0..scene'.errors /\ loose' \subseteq Request
    <2>1. scene.errors \in Nat
      BY <1>0, ApprovalAssumption DEF TypeOK
    <2> QED BY <1>0, <1>1, <1>2, <2>1 DEF TypeOK
  <1>4. CASE next(a).op = "setCard"
    <2>1. endHold(r, "unavailable") /\ desk' = desk /\ mail' = mail /\ card' \subseteq Request
      BY <1>0, <1>2, <1>4 DEF CommandFails, TypeOK
    <2>2. phase[r] = "storing"
      <3>1. ~IsDrop(next(a))
        BY <1>4, Commands DEF IsDrop
      <3> QED BY <1>1, <1>4, <3>1, Issued, Commands
    <2>3. /\ ScriptsOK' /\ phase' \in [Request -> Phases]
          /\ script' \in [Actor -> Seq(Command)] /\ verdict' \in [Request -> Verdict]
      BY <1>1, <1>2, <2>1, <2>2, EndHoldBase DEF Verdict
    <2> QED BY <1>0, <1>1, <1>3, <2>1, <2>3 DEF Base, TypeOK, Phases, windowVars
  <1>5. CASE next(a).op = "push"
    <2>1. PICK d \in Decider :
             /\ a = <<"desk", d>> /\ a[2] = d
             /\ desk[d].on \in Request /\ desk[d].decision \in Decisions
             /\ phase[desk[d].on] \notin Fresh
             /\ r = desk[d].on /\ next(a).with = desk[d].decision
      BY <1>1, <1>5, Deciding DEF issues
    <2> DEFINE v == [desk[d] EXCEPT !.state = "refused"]
    <2>2. /\ lpush(r, next(a).with) \/ UNCHANGED <<phase, verdict, mail>>
          /\ script' = [script EXCEPT ![<<"desk", d>>] = <<>>]
          /\ desk' = [desk EXCEPT ![d] = v] /\ card' = card
      BY <1>5, <2>1 DEF CommandFails
    <2>3. v \in Desk /\ v.on = r /\ v.state = "refused" /\ desk \in [Decider -> Desk]
      BY <1>0, <2>1, DeskState
    <2> HIDE DEF v
    <2>4. /\ mail' \in [Request -> Seq(Decisions)] /\ verdict' \in [Request -> Verdict]
          /\ phase' \in [Request -> Phases]
          /\ \E p : /\ phase' = [phase EXCEPT ![r] = p]
                    /\ p = phase[r] \/ (phase[r] = "waiting" /\ p = "served")
      BY <1>1, <1>2, <2>1, <2>2, PushType
    <2>5. PICK p : /\ phase' = [phase EXCEPT ![r] = p]
                   /\ p = phase[r] \/ (phase[r] = "waiting" /\ p = "served")
      BY <2>4
    <2>6. script' \in [Actor -> Seq(Command)] /\ script'[<<"desk", d>>] = <<>>
      <3>1. <<>> \in Seq(Command)
        OBVIOUS
      <3> QED BY <1>0, <2>2, <3>1, Actors DEF TypeOK
    <2>7. DeskScript(d)'
      BY <2>6 DEF DeskScript
    <2>8. ScriptsOK'
      <3>1. PICK q \in Request : q = r
        BY <1>2
      <3>2. phase' = [phase EXCEPT ![q] = p] /\ (p = phase[q] \/ (phase[q] = "waiting" /\ p = "served"))
        BY <2>5, <3>1
      <3>3. v.on = q /\ phase[q] \notin Fresh
        BY <2>1, <2>3, <3>1
      <3>4. PICK w : w = v
        OBVIOUS
      <3>5. desk' = [desk EXCEPT ![d] = w] /\ w.on = q /\ w.state = "refused"
        BY <2>2, <2>3, <3>3, <3>4
      <3>6. p = phase[q] \/ (phase[q] = "waiting" /\ p = "served" /\ backend = "redis")
        BY <1>1, <3>2
      <3>7. /\ phase' = [phase EXCEPT ![q] = p] /\ w.on \in Request /\ phase[w.on] \notin Fresh
            /\ script' = [script EXCEPT ![<<"desk", d>>] = <<>>] /\ scene' = scene
            /\ w.state \in {"delivered", "opened"} => w.decision \in Decisions
        BY <1>1, <2>2, <3>2, <3>3, <3>5
      <3> QED BY <2>7, <3>5, <3>6, <3>7, DeskMoves
    <2>9. desk' \in [Decider -> Desk]
      BY <2>2, <2>3
    <2> QED BY <1>0, <1>1, <1>3, <2>2, <2>4, <2>6, <2>8, <2>9 DEF Base, TypeOK, Phases, Desk, windowVars
  <1>6. CASE next(a).op \notin {"setCard", "push"}
    <2>1. issue(a) /\ UNCHANGED <<card, mail, desk, phase, verdict>>
      BY <1>6 DEF CommandFails
    <2>2. next(a).op \notin {"takeSender", "send"}
      <3>1. ~issues(a, "takeSender") /\ ~issues(a, "send")
        BY <1>1, Deciding
      <3> QED BY <1>1, <3>1 DEF issues
    <2>3. ScriptsOK' /\ script' \in [Actor -> Seq(Command)]
      BY <1>1, <1>6, <2>1, <2>2, ScriptMoves, IssueType
    <2> QED BY <1>0, <1>1, <1>3, <2>1, <2>3 DEF Base, TypeOK, windowVars
  <1> QED BY <1>4, <1>5, <1>6

LEMMA DecideBase ==
    ASSUME Base, NEW d \in Decider, NEW r \in Request, NEW x \in Decisions, Decide(d, r, x)
    PROVE  Base'
  <1>0. TypeOK
    BY DEF Base
  <1>1. /\ scene' = scene /\ phase[r] \notin Fresh
        /\ UNCHANGED <<holdVars, index, sender, mail, expired, poll, windowVars, errors, history>>
        /\ phase' = [phase EXCEPT ![r] = phase[r]]
        /\ script \in [Actor -> Seq(Command)] /\ desk \in [Decider -> Desk]
    BY <1>0 DEF Decide, Fresh, holdVars, TypeOK, Desk
  <1>2. CASE isLive(r)
    <2> DEFINE v == [on |-> r, decision |-> x, state |-> "found"]
               s == submit_outcome(r, x)
    <2>1. /\ desk' = [desk EXCEPT ![d] = v] /\ script' = [script EXCEPT ![<<"desk", d>>] = s]
          /\ card' = card
      BY <1>2 DEF Decide
    <2>2. v \in Desk /\ v.on = r /\ v.state = "found" /\ v.decision = x /\ s \in Seq(Command)
      BY <1>0, DecisionFacts DEF Desk
    <2> HIDE DEF v, s
    <2>3. /\ desk'[d] = v /\ script'[<<"desk", d>>] = s /\ desk' \in [Decider -> Desk]
          /\ script' \in [Actor -> Seq(Command)]
      BY <1>1, <2>1, <2>2, Actors
    <2>4. DeskScript(d)'
      BY <1>1, <2>2, <2>3, SameScene DEF DeskScript, s
    <2>5. ScriptsOK'
      BY <1>1, <2>1, <2>2, <2>4, DeskMoves
    <2> QED BY <1>0, <1>1, <2>1, <2>3, <2>5 DEF Base, TypeOK, Desk, holdVars, windowVars, history
  <1>3. CASE ~isLive(r)
    <2> DEFINE v == [on |-> r, decision |-> x, state |-> "refused"]
    <2>1. /\ desk' = [desk EXCEPT ![d] = v] /\ script' = script /\ card' \subseteq card
          /\ script' = [script EXCEPT ![<<"desk", d>>] = script[<<"desk", d>>]]
      BY <1>1, <1>3, Actors DEF Decide
    <2>2. v \in Desk /\ v.on = r /\ v.state = "refused"
      BY DEF Desk
    <2> HIDE DEF v
    <2>3. desk' \in [Decider -> Desk]
      BY <1>1, <2>1, <2>2
    <2>4. script[<<"desk", d>>] = <<>>
      BY DEF Base, ScriptsOK, DeskScript, Decide
    <2>5. DeskScript(d)'
      BY <2>1, <2>4 DEF DeskScript
    <2>6. ScriptsOK'
      BY <1>1, <2>1, <2>2, <2>5, DeskMoves
    <2> QED BY <1>0, <1>1, <2>1, <2>3, <2>6 DEF Base, TypeOK, Desk, holdVars, windowVars, history
  <1> QED BY <1>2, <1>3

LEMMA OpenWindowBase ==
    ASSUME Base, NEW d \in Decider, OpenWindow(d)
    PROVE  Base'
  <1>0. TypeOK
    BY DEF Base
  <1> DEFINE v == [desk[d] EXCEPT !.state = "opened"]
  <1>1. /\ scene' = scene /\ UNCHANGED <<holdVars, storeVars, expired, script, poll, uses, errors, history>>
        /\ desk' = [desk EXCEPT ![d] = v] /\ window' = desk[d].on
        /\ desk[d].state = "delivered" /\ script[<<"desk", d>>] = <<>>
    BY DEF OpenWindow
  <1>2. desk[d].on \in Request /\ phase[desk[d].on] \notin Fresh /\ desk[d].decision \in Decisions
    BY <1>1 DEF Base, ScriptsOK
  <1>3. /\ v \in Desk /\ v.on = desk[d].on /\ v.decision = desk[d].decision /\ v.state = "opened"
        /\ desk \in [Decider -> Desk]
    BY <1>0, DeskState
  <1> HIDE DEF v
  <1>4. PICK q \in Request : q = desk[d].on
    BY <1>2
  <1>5. /\ phase' = [phase EXCEPT ![q] = phase[q]]
        /\ script' = [script EXCEPT ![<<"desk", d>>] = script[<<"desk", d>>]]
    BY <1>0, <1>1, Actors DEF TypeOK, holdVars
  <1>6. DeskScript(d)'
    BY <1>1 DEF DeskScript
  <1>7. ScriptsOK'
    BY <1>1, <1>2, <1>3, <1>5, <1>6, DeskMoves
  <1>8. desk' \in [Decider -> Desk]
    BY <1>1, <1>3
  <1> QED BY <1>0, <1>1, <1>2, <1>7, <1>8 DEF Base, TypeOK, Desk, holdVars, storeVars, history

LEMMA CleanupBase ==
    ASSUME Base, NEW r \in Request, Cleanup(r)
    PROVE  Base'
  <1>0. TypeOK
    BY DEF Base
  <1>1. /\ scene' = scene /\ backend = "memory"
        /\ UNCHANGED <<holdVars, storeVars, expired, desk, poll, windowVars, errors, history>>
        /\ script' = [script EXCEPT ![<<"janitor", r>>] = cleanup_expired(r)]
    BY DEF Cleanup
  <1>2. cleanup_expired(r) \in CleanupRest(r) /\ cleanup_expired(r) \in Seq(Command)
    BY CleanupFacts
  <1>3. /\ script' \in [Actor -> Seq(Command)] /\ script'[<<"janitor", r>>] = cleanup_expired(r)
        /\ \A a \in Actor : a # <<"janitor", r>> => script'[a] = script[a]
    BY <1>0, <1>1, <1>2, Actors DEF TypeOK
  <1>4. JanitorScript(r)'
    <2>1. CleanupRest(r)' = CleanupRest(r)
      BY DEF CleanupRest, cleanup_expired
    <2> QED BY <1>1, <1>2, <1>3, <2>1, SameScene DEF JanitorScript
  <1>5. phase' = phase /\ desk' = desk
    BY <1>1 DEF holdVars
  <1>6. ASSUME NEW q \in Request
        PROVE  HoldScript(q)' /\ GuardScript(q)' /\ JanitorScript(q)'
    <2>1. /\ script'[<<"hold", q>>] = script[<<"hold", q>>]
          /\ script'[<<"guard", q>>] = script[<<"guard", q>>]
          /\ q # r => script'[<<"janitor", q>>] = script[<<"janitor", q>>]
      BY <1>3, Actors
    <2> QED BY <1>1, <1>4, <1>5, <2>1, Frame
  <1>7. \A d \in Decider : script'[<<"desk", d>>] = script[<<"desk", d>>]
    BY <1>3, Actors
  <1>8. ScriptsOK'
    BY <1>1, <1>5, <1>6, <1>7, Frame, SameScene DEF Base, ScriptsOK
  <1> QED BY <1>0, <1>1, <1>3, <1>8 DEF Base, TypeOK, holdVars, storeVars, windowVars, history

\* Steps that leave requests, scripts and reviewers alone.
Aside ==
    \/ \E r \in Request : Expire(r)
    \/ CloseWindow
    \/ PollStep
    \/ Prune

LEMMA AsideFacts ==
    ASSUME Aside
    PROVE  UNCHANGED <<scene, holdVars, storeVars, script, desk, uses, errors, history>>
  BY DEF Aside, Expire, CloseWindow, PollStep, PollStart, PollIds, PollRows, PollSubscribe, PollWake, Prune,
         windowVars

LEMMA AsideBase ==
    ASSUME Base, Aside
    PROVE  Base'
  <1>0. TypeOK
    BY DEF Base
  <1>1. UNCHANGED <<scene, phase, verdict, via, card, index, sender, mail, script, desk, uses, errors, inTime, loose>>
    BY AsideFacts DEF holdVars, storeVars, history
  <1>2. ScriptsOK'
    <2>1. \A r \in Request : HoldScript(r)' /\ GuardScript(r)' /\ JanitorScript(r)'
      BY <1>1, Frame
    <2>2. \A d \in Decider : DeskScript(d)'
      BY <1>1, Frame
    <2> QED BY <1>1, <2>1, <2>2, SameScene DEF Base, ScriptsOK
  <1>3. expired' \subseteq Request
    BY <1>0 DEF Aside, Expire, CloseWindow, PollStep, PollStart, PollIds, PollRows, PollSubscribe, PollWake,
                Prune, TypeOK
  <1>4. window' \in Request \cup {NoRequest}
    BY <1>0 DEF Aside, Expire, CloseWindow, PollStep, PollStart, PollIds, PollRows, PollSubscribe, PollWake,
                Prune, TypeOK, windowVars
  <1>5. poll' \in [at : Listing \cup {"idle", "subscribe", "wait"}, scope : Scope,
                   read : BOOLEAN, ids : SUBSET Request, note : BOOLEAN]
    <2>1. poll \in [at : Listing \cup {"idle", "subscribe", "wait"}, scope : Scope,
                   read : BOOLEAN, ids : SUBSET Request, note : BOOLEAN]
      BY <1>0 DEF TypeOK
    <2>2. CASE (\E r \in Request : Expire(r)) \/ CloseWindow
      BY <2>1, <2>2 DEF Expire, CloseWindow
    <2>3. CASE (\E s \in Scope : PollStart(s)) \/ PollIds
      BY <2>1, <2>3 DEF PollStart, PollIds, Listing
    <2>4. CASE PollRows
      <3>1. \A at \in Listing : afterEmpty(at) \in {"subscribe", "wait", "idle"}
        BY DEF Listing, afterEmpty
      <3> QED BY <2>1, <2>4, <3>1 DEF PollRows
    <2>5. CASE PollSubscribe \/ PollWake \/ Prune
      BY <2>1, <2>5 DEF PollSubscribe, PollWake, Prune, subscribed, Listing
    <2> QED BY <2>2, <2>3, <2>4, <2>5 DEF Aside, PollStep
  <1> QED BY <1>0, <1>1, <1>2, <1>3, <1>4, <1>5 DEF Base, TypeOK

-----------------------------------------------------------------------------
(***************************************************************************)
(* The window.                                                             *)
(***************************************************************************)
LEMMA NextCases ==
    ASSUME Next
    PROVE  \/ \E r \in Request : \/ Arrive(r) \/ Claim(r) \/ BeginWait(r) \/ Blpop(r)
                                 \/ Receive(r) \/ TimeOut(r) \/ Shutdown(r) \/ WaitFails(r)
                                 \/ Cancel(r) \/ Cleanup(r)
           \/ \E a \in Actor : Plain(a) \/ TakeSender(a) \/ Send(a) \/ Push(a) \/ CommandFails(a)
           \/ \E d \in Decider : \/ \E r \in Request, x \in Decisions : Decide(d, r, x)
                                 \/ OpenWindow(d)
           \/ Aside
  BY DEF Next, HoldStep, CommandStep, Plain, Aside

\* Ends a wait.
Ends(r) == Receive(r) \/ TimeOut(r) \/ Shutdown(r) \/ WaitFails(r)

\* Ending a hold says nothing of "similar".
LEMMA EndFacts ==
    ASSUME Base, NEW r \in Request, Ends(r)
    PROVE  /\ \E v \in Verdict : endHold(r, v) /\ (v = "similar" => verdict[r] = "similar")
           /\ phase[r] \in {"opening", "waiting", "served"}
           /\ UNCHANGED <<scene, via, storeVars, expired, desk, poll, windowVars, history>>
  <1>0. TypeOK
    BY DEF Base
  <1>1. verdict[r] \in Verdict
    BY <1>0 DEF TypeOK
  <1>2. mail[r] # <<>> => verdictOf(Head(mail[r])) \in Verdict /\ verdictOf(Head(mail[r])) # "similar"
    BY <1>0, MailHead, VerdictType DEF Verdict
  <1>3. Receive(r) => \E v \in Verdict : endHold(r, v) /\ (v = "similar" => verdict[r] = "similar")
    BY <1>1, <1>2 DEF Receive
  <1>4. TimeOut(r) \/ Shutdown(r) \/ WaitFails(r) =>
           \E v \in Verdict : endHold(r, v) /\ (v = "similar" => verdict[r] = "similar")
    BY DEF TimeOut, Shutdown, WaitFails, Verdict
  <1>5. UNCHANGED <<scene, via, storeVars, expired, desk, poll, windowVars, history>>
    BY DEF Ends, Receive, TimeOut, Shutdown, WaitFails
  <1>6. phase[r] \in {"opening", "waiting", "served"}
    BY DEF Ends, Receive, TimeOut, Shutdown, WaitFails
  <1> QED BY <1>3, <1>4, <1>5, <1>6 DEF Ends, Receive

\* A request that ended, or failed to be stored, was not let through by it.
LEMMA EndHoldVerdicts ==
    ASSUME Base, NEW r \in Request, NEW v, endHold(r, v), v = "similar" => verdict[r] = "similar"
    PROVE  \A q \in Request : /\ verdict'[q] = "similar" => verdict[q] = "similar"
                              /\ phase[q] = "ended" => phase'[q] = "ended"
                              /\ phase'[q] = "claiming" => phase[q] = "claiming"
  BY DEF endHold, Base, TypeOK

\* A step that lets nobody through and keeps the window, or closes it.
Lets == \A q \in Request : /\ verdict'[q] = "similar" => verdict[q] = "similar"
                           /\ phase[q] = "ended" => phase'[q] = "ended"
                           /\ phase'[q] = "claiming" => phase[q] = "claiming"

\* No step takes an opened window back from its reviewer.
Stays == \A d \in Decider : desk[d].state = "opened" => desk'[d] = desk[d]

LEMMA WindowKept ==
    ASSUME Base, WindowInv, via' = via, uses' = uses, window' \in {window, NoRequest}, Lets, Stays
    PROVE  WindowInv'
  <1>1. \A q : opened(q) => opened(q)'
    BY DEF opened, Stays
  <1>2. ASSUME NEW q \in Request
        PROVE  /\ IsFiniteSet(through(q))'
               /\ Cardinality(through(q))' <= uses'[q]
               /\ Cardinality(through(q))' <= SIMILAR_WINDOW_MAX_REQUESTS
    <2>1. through(q)' \subseteq through(q)
      BY DEF through, Lets
    <2>2. /\ IsFiniteSet(through(q)) /\ Cardinality(through(q)) <= uses[q]
          /\ Cardinality(through(q)) <= SIMILAR_WINDOW_MAX_REQUESTS
      BY DEF WindowInv
    <2>3. IsFiniteSet(through(q)') /\ Cardinality(through(q)') <= Cardinality(through(q))
      BY <2>1, <2>2, FS_Subset
    <2>4. Cardinality(through(q)') \in Nat /\ Cardinality(through(q)) \in Nat /\ uses[q] \in Nat
      BY <2>2, <2>3, FS_CardinalityType DEF Base, TypeOK
    <2>5. SIMILAR_WINDOW_MAX_REQUESTS \in Nat
      BY ApprovalAssumption
    <2> QED BY <2>2, <2>3, <2>4, <2>5
  <1>3. \A r \in Request : verdict'[r] = "similar" => phase'[r] = "ended" /\ via'[r] # NoRequest
    BY DEF WindowInv, Lets
  <1>4. \A r \in Request : phase'[r] = "claiming" => via'[r] # NoRequest
    BY DEF WindowInv, Lets
  <1>5. \A r, q \in Request : via'[r] = q => opened(q)'
    BY <1>1 DEF WindowInv
  <1>6. \A q \in Request : window' = q => opened(q)'
    BY <1>1, ApprovalAssumption DEF WindowInv
  <1> QED BY <1>2, <1>3, <1>4, <1>5, <1>6 DEF WindowInv

LEMMA WindowInit == Init => WindowInv
  <1> SUFFICES ASSUME Init PROVE WindowInv
    OBVIOUS
  <1>1. ASSUME NEW q \in Request
        PROVE  IsFiniteSet(through(q)) /\ Cardinality(through(q)) = 0
    <2>1. through(q) = {}
      BY DEF Init, through
    <2> QED BY <2>1, FS_EmptySet
  <1>2. \A q \in Request : /\ Cardinality(through(q)) <= uses[q]
                          /\ Cardinality(through(q)) <= SIMILAR_WINDOW_MAX_REQUESTS
    BY <1>1, ApprovalAssumption DEF Init
  <1>3. \A r \in Request : phase[r] = "new" /\ verdict[r] = "none" /\ via[r] \notin Request
    BY ApprovalAssumption DEF Init
  <1>4. window \notin Request
    BY ApprovalAssumption DEF Init
  <1> QED BY <1>1, <1>2, <1>3, <1>4 DEF WindowInv

\* The steps of a reviewer keep an opened window.
LEMMA DeskStays ==
    ASSUME Base, NEW a \in Actor, TakeSender(a) \/ Send(a) \/ Push(a) \/ CommandFails(a)
    PROVE  Stays
  <1>1. CASE desk' = desk
    BY <1>1 DEF Stays
  <1>2. ASSUME NEW op \in {"takeSender", "send", "push"}, issues(a, op),
               NEW v, desk' = [desk EXCEPT ![a[2]].state = v]
        PROVE  Stays
    <2>1. PICK d \in Decider : a[2] = d /\ desk[d].state = "found"
      BY <1>2, Deciding
    <2>2. desk' = [desk EXCEPT ![d] = [desk[d] EXCEPT !.state = v]] /\ DOMAIN desk = Decider
      BY <1>2, <2>1 DEF Base, TypeOK
    <2> QED BY <2>1, <2>2 DEF Stays
  <1>3. CASE TakeSender(a)
    BY <1>1, <1>2, <1>3 DEF TakeSender
  <1>4. CASE Send(a) \/ Push(a)
    BY <1>2, <1>4 DEF Send, Push, deliver
  <1>5. CASE CommandFails(a)
    <2>1. CASE next(a).op = "push"
      BY <1>2, <1>5, <2>1 DEF CommandFails, issues
    <2>2. CASE next(a).op # "push"
      BY <1>1, <1>5, <2>2 DEF CommandFails
    <2> QED BY <2>1, <2>2
  <1> QED BY <1>3, <1>4, <1>5

LEMMA PushLets ==
    ASSUME Base, NEW r \in Request, NEW x \in Decisions, lpush(r, x) \/ UNCHANGED <<phase, verdict, mail>>
    PROVE  Lets
  BY ZenonT(40), VerdictType DEF lpush, Lets, Base, TypeOK

\* All steps but those that read, use and open the window.
LEMMA WindowOthers ==
    ASSUME Base, WindowInv,
           \/ \E r \in Request : BeginWait(r) \/ Blpop(r) \/ Ends(r) \/ Cancel(r) \/ Cleanup(r)
           \/ \E a \in Actor : Plain(a) \/ TakeSender(a) \/ Send(a) \/ Push(a) \/ CommandFails(a)
           \/ \E d \in Decider : \E r \in Request, x \in Decisions : Decide(d, r, x)
           \/ Aside
    PROVE  WindowInv'
  <1>0. TypeOK
    BY DEF Base
  <1>1. ASSUME NEW r \in Request, BeginWait(r)
        PROVE  WindowInv'
    <2>1. Lets /\ Stays
      BY <1>0, <1>1 DEF BeginWait, Lets, Stays, TypeOK
    <2> QED BY <1>1, <2>1, WindowKept DEF BeginWait, windowVars
  <1>2. ASSUME NEW r \in Request, Blpop(r)
        PROVE  WindowInv'
    <2>1. Lets
      <3>1. CASE mail[r] # <<>>
        <4>1. verdictOf(Head(mail[r])) # "similar"
          BY <1>0, <3>1, MailHead, VerdictType
        <4> QED BY <1>0, <1>2, <3>1, <4>1 DEF Blpop, Lets, TypeOK
      <3>2. CASE mail[r] = <<>>
        BY <1>0, <1>2, <3>2 DEF Blpop, Lets, TypeOK
      <3> QED BY <3>1, <3>2
    <2> QED BY <1>2, <2>1, WindowKept DEF Blpop, windowVars, Stays
  <1>3. ASSUME NEW r \in Request, Ends(r)
        PROVE  WindowInv'
    <2>1. Lets
      BY <1>3, EndFacts, EndHoldVerdicts DEF Lets
    <2> QED BY <1>3, <2>1, EndFacts, WindowKept DEF windowVars, Stays
  <1>4. ASSUME NEW r \in Request, Cancel(r)
        PROVE  WindowInv'
    <2>1. Lets
      BY <1>0, <1>4 DEF Cancel, Lets, TypeOK
    <2> QED BY <1>4, <2>1, WindowKept DEF Cancel, windowVars, Stays
  <1>5. ASSUME NEW r \in Request, Cleanup(r)
        PROVE  WindowInv'
    <2>1. Lets
      BY <1>5 DEF Cleanup, Lets, holdVars
    <2> QED BY <1>5, <2>1, WindowKept DEF Cleanup, windowVars, holdVars, Stays
  <1>6. ASSUME NEW a \in Actor, Plain(a)
        PROVE  WindowInv'
    <2>1. UNCHANGED <<phase, verdict, via, desk, window, uses>>
      BY <1>6, PlainFacts DEF holdVars, windowVars
    <2> QED BY <2>1, WindowKept DEF Lets, Stays
  <1>7. ASSUME NEW a \in Actor, TakeSender(a) \/ Send(a)
        PROVE  WindowInv'
    <2>1. UNCHANGED <<phase, verdict, via, window, uses>>
      BY <1>7 DEF TakeSender, Send, holdVars, windowVars
    <2> QED BY <1>7, <2>1, DeskStays, WindowKept DEF Lets
  <1>8. ASSUME NEW a \in Actor, Push(a)
        PROVE  WindowInv'
    <2>1. Lets
      BY <1>8, Deciding, PushLets DEF Push
    <2> QED BY <1>8, <2>1, DeskStays, WindowKept DEF Push, windowVars
  <1>9. ASSUME NEW a \in Actor, CommandFails(a)
        PROVE  WindowInv'
    <2>1. CASE next(a).op = "setCard"
      <3>1. endHold(next(a).on, "unavailable") /\ next(a).on \in Request
        BY <1>9, <2>1, Issued DEF CommandFails, Command
      <3> QED BY <1>9, <3>1, EndHoldVerdicts, DeskStays, WindowKept DEF CommandFails, Lets, windowVars
    <2>2. CASE next(a).op = "push"
      <3>1. Lets
        BY <1>9, <2>2, Deciding, PushLets DEF CommandFails, issues
      <3> QED BY <1>9, <3>1, DeskStays, WindowKept DEF CommandFails, windowVars
    <2>3. CASE next(a).op \notin {"setCard", "push"}
      BY <1>9, <2>3, DeskStays, WindowKept DEF CommandFails, Lets, windowVars
    <2> QED BY <2>1, <2>2, <2>3
  <1>10. ASSUME NEW d \in Decider, NEW r \in Request, NEW x \in Decisions, Decide(d, r, x)
        PROVE  WindowInv'
    <2>1. Stays
      BY <1>0, <1>10 DEF Decide, Stays, TypeOK
    <2> QED BY <1>10, <2>1, WindowKept DEF Decide, Lets, holdVars, windowVars
  <1>11. ASSUME Aside
         PROVE  WindowInv'
    <2>1. window' \in {window, NoRequest}
      BY <1>11 DEF Aside, Expire, CloseWindow, PollStep, PollStart, PollIds, PollRows, PollSubscribe, PollWake,
                   Prune, windowVars
    <2> QED BY <1>11, <2>1, AsideFacts, WindowKept DEF Lets, Stays, holdVars
  <1> QED BY <1>1, <1>2, <1>3, <1>4, <1>5, <1>6, <1>7, <1>8, <1>9, <1>10, <1>11

LEMMA ArriveWindow ==
    ASSUME Base, FreshOK, WindowInv, NEW r \in Request, Arrive(r)
    PROVE  WindowInv'
  <1>0. TypeOK
    BY DEF Base
  <1>1. CASE BeginHold(r) /\ UNCHANGED via
    <2>1. Lets
      BY <1>0, <1>1 DEF Arrive, BeginHold, Lets, TypeOK
    <2> QED BY <1>1, <2>1, WindowKept DEF Arrive, Stays, windowVars
  <1>2. CASE /\ window # NoRequest
             /\ phase' = [phase EXCEPT ![r] = "claiming"]
             /\ via' = [via EXCEPT ![r] = window]
             /\ UNCHANGED <<sender, script>>
    <2>1. window \in Request /\ verdict[r] # "similar" /\ phase[r] = "new"
      BY <1>0, <1>2 DEF Arrive, TypeOK, FreshOK, Fresh
    <2>2. UNCHANGED <<verdict, desk, window, uses>>
      BY DEF Arrive, windowVars
    <2>3. \A q \in Request : through(q)' = through(q)
      BY <1>0, <1>2, <2>1, <2>2 DEF through, TypeOK
    <2>4. \A q : opened(q)' = opened(q)
      BY <2>2 DEF opened
    <2>5. \A q \in Request : /\ IsFiniteSet(through(q)')
                             /\ Cardinality(through(q)') <= uses'[q]
                             /\ Cardinality(through(q)') <= SIMILAR_WINDOW_MAX_REQUESTS
      BY <2>2, <2>3 DEF WindowInv
    <2>6. \A q, p \in Request : via'[q] = p => opened(p)'
      BY <1>0, <1>2, <2>1, <2>4 DEF WindowInv, TypeOK
    <2>7. \A q \in Request : /\ phase'[q] = "claiming" => via'[q] # NoRequest
                             /\ verdict'[q] = "similar" => phase'[q] = "ended" /\ via'[q] # NoRequest
      BY <1>0, <1>2, <2>1, <2>2 DEF WindowInv, TypeOK
    <2> QED BY <2>2, <2>4, <2>5, <2>6, <2>7 DEF WindowInv
  <1> QED BY <1>1, <1>2 DEF Arrive

\* The increment decides: the counter is never behind the requests it let
\* through, so one that fits leaves the window within its bound.
LEMMA ClaimWindow ==
    ASSUME Base, FreshOK, WindowInv, NEW r \in Request, Claim(r)
    PROVE  WindowInv'
  <1>0. TypeOK
    BY DEF Base
  <1>1. phase[r] = "claiming" /\ via[r] \in Request /\ verdict[r] # "similar"
    BY <1>0 DEF Claim, TypeOK, FreshOK, Fresh, WindowInv
  <1>2. PICK p \in Request : p = via[r]
    BY <1>1
  <1>3. /\ uses' = [uses EXCEPT ![p] = uses[p] + 1] /\ uses \in [Request -> Nat]
        /\ UNCHANGED <<via, desk, window>>
    BY <1>0, <1>2 DEF Claim, TypeOK
  <1>4. \A q : opened(q)' = opened(q)
    BY <1>3 DEF opened
  <1>5. \A q \in Request : uses'[q] \in Nat /\ uses[q] <= uses'[q]
    BY <1>3
  <1>6. SIMILAR_WINDOW_MAX_REQUESTS \in Nat
    BY ApprovalAssumption
  <1>7. \A q \in Request : /\ IsFiniteSet(through(q)) /\ Cardinality(through(q)) \in Nat
                           /\ Cardinality(through(q)) <= uses[q]
                           /\ Cardinality(through(q)) <= SIMILAR_WINDOW_MAX_REQUESTS
    BY FS_CardinalityType DEF WindowInv
  <1>8. CASE BeginHold(r) /\ UNCHANGED verdict
    <2>1. \A q \in Request : through(q)' = through(q)
      BY <1>3, <1>8 DEF through
    <2>2. \A q \in Request : /\ IsFiniteSet(through(q)')
                             /\ Cardinality(through(q)') <= uses'[q]
                             /\ Cardinality(through(q)') <= SIMILAR_WINDOW_MAX_REQUESTS
      BY <1>3, <1>5, <1>7, <2>1
    <2>3. \A q \in Request : /\ phase'[q] = "claiming" => phase[q] = "claiming"
                             /\ phase[q] = "ended" => phase'[q] = "ended"
      BY <1>0, <1>1, <1>8 DEF BeginHold, TypeOK
    <2> QED BY <1>3, <1>4, <1>8, <2>2, <2>3 DEF WindowInv
  <1>9. CASE /\ fitsWindow(uses[via[r]] + 1)
             /\ phase' = [phase EXCEPT ![r] = "ended"]
             /\ verdict' = [verdict EXCEPT ![r] = "similar"]
    <2>1. through(p)' = through(p) \cup {r} /\ r \notin through(p)
      BY <1>0, <1>1, <1>2, <1>3, <1>9 DEF through, TypeOK
    <2>2. \A q \in Request : q # p => through(q)' = through(q)
      BY <1>0, <1>1, <1>2, <1>3, <1>9 DEF through, TypeOK
    <2>3. IsFiniteSet(through(p)') /\ Cardinality(through(p)') = Cardinality(through(p)) + 1
      BY <1>7, <2>1, FS_AddElement
    <2>4. uses'[p] = uses[p] + 1 /\ uses[p] + 1 <= SIMILAR_WINDOW_MAX_REQUESTS
      BY <1>2, <1>3, <1>9 DEF fitsWindow
    <2>5. /\ Cardinality(through(p)') <= uses'[p]
          /\ Cardinality(through(p)') <= SIMILAR_WINDOW_MAX_REQUESTS
      BY <1>3, <1>6, <1>7, <2>3, <2>4
    <2>6. \A q \in Request : /\ IsFiniteSet(through(q)')
                             /\ Cardinality(through(q)') <= uses'[q]
                             /\ Cardinality(through(q)') <= SIMILAR_WINDOW_MAX_REQUESTS
      <3> SUFFICES ASSUME NEW q \in Request
                   PROVE  /\ IsFiniteSet(through(q)')
                          /\ Cardinality(through(q)') <= uses'[q]
                          /\ Cardinality(through(q)') <= SIMILAR_WINDOW_MAX_REQUESTS
        OBVIOUS
      <3>1. CASE q = p
        BY <2>3, <2>5, <3>1
      <3>2. CASE q # p
        BY <1>3, <1>7, <2>2, <3>2
      <3> QED BY <3>1, <3>2
    <2>7. \A q \in Request : /\ phase'[q] = "claiming" => via'[q] # NoRequest
                             /\ verdict'[q] = "similar" => phase'[q] = "ended" /\ via'[q] # NoRequest
      BY <1>0, <1>1, <1>3, <1>9, ApprovalAssumption DEF WindowInv, TypeOK
    <2> QED BY <1>3, <1>4, <2>6, <2>7 DEF WindowInv
  <1> QED BY <1>8, <1>9 DEF Claim

LEMMA OpenWindowKeeps ==
    ASSUME Base, WindowInv, NEW d \in Decider, OpenWindow(d)
    PROVE  WindowInv'
  <1>0. TypeOK
    BY DEF Base
  <1>1. /\ UNCHANGED <<phase, verdict, via, uses>> /\ window' = desk[d].on
        /\ desk' = [desk EXCEPT ![d] = [desk[d] EXCEPT !.state = "opened"]]
        /\ desk[d].state = "delivered"
    BY DEF OpenWindow, holdVars
  <1>2. desk'[d].on = desk[d].on /\ desk'[d].state = "opened" /\ \A e \in Decider : e # d => desk'[e] = desk[e]
    BY <1>0, <1>1, DeskState
  <1>3. \A q : opened(q) => opened(q)'
    BY <1>1, <1>2 DEF opened
  <1>4. \A q \in Request : window' = q => opened(q)'
    BY <1>1, <1>2 DEF opened
  <1>5. \A q \in Request : through(q)' = through(q)
    BY <1>1 DEF through
  <1>6. \A q \in Request : /\ IsFiniteSet(through(q)')
                           /\ Cardinality(through(q)') <= uses'[q]
                           /\ Cardinality(through(q)') <= SIMILAR_WINDOW_MAX_REQUESTS
    BY <1>1, <1>5 DEF WindowInv
  <1> QED BY <1>1, <1>3, <1>4, <1>6 DEF WindowInv

-----------------------------------------------------------------------------
(***************************************************************************)
(* The store before a request is held.                                     *)
(***************************************************************************)
LEMMA FreshInit == Init => FreshOK
  BY DEF Init, FreshOK

\* What begins with setCard is no rest of anything.
LEMMA StoreIsNew ==
    ASSUME TypeOK, NEW r \in Request
    PROVE  /\ store(r) # <<>> /\ store(r) \notin RemoveRest(r) /\ Head(store(r)).op = "setCard"
           /\ Head(store(r)) = cmd("setCard", r, "-")
           /\ \A s \in StoreRest(r) : Tail(s) # store(r)
  <1>1. store(r) \in StoreRest(r)
    BY DEF StoreRest
  <1>2. Head(store(r)) = cmd("setCard", r, "-")
    BY Tuple3, Tuple5 DEF store
  <1>3. \A s \in RemoveRest(r) : IsDrop(Head(s))
    BY RemoveFacts, DropFacts
  <1>4. ~IsDrop(Head(store(r)))
    BY <1>2, Commands DEF IsDrop
  <1> QED BY <1>1, <1>2, <1>3, <1>4, StoreFacts, Commands

\* No hold is back at the beginning of store.
NotAnew == \A r \in Request : script'[<<"hold", r>>] = store(r) => script[<<"hold", r>>] = store(r)

LEMMA IssueNotAnew ==
    ASSUME Base, NEW a \in Actor, script[a] # <<>>, issue(a)
    PROVE  NotAnew
  <1> SUFFICES ASSUME NEW r \in Request, a = <<"hold", r>>
               PROVE  script'[a] # store(r)
    BY IssueType, Actors DEF NotAnew
  <1>0. TypeOK /\ HoldScript(r)
    BY DEF Base, ScriptsOK
  <1>1. script'[a] = Tail(script[a])
    BY IssueType
  <1>2. CASE script[a] \in StoreRest(r)
    BY <1>0, <1>1, <1>2, StoreIsNew
  <1>3. CASE script[a] \in RemoveRest(r)
    BY <1>0, <1>1, <1>3, RemoveFacts, StoreIsNew
  <1> QED BY <1>0, <1>2, <1>3 DEF HoldScript

LEMMA EndNotAnew ==
    ASSUME Base, NEW r \in Request, NEW v, endHold(r, v)
    PROVE  NotAnew
  <1>1. /\ script'[<<"hold", r>>] = remove(r)
        /\ \A q \in Request : q # r => script'[<<"hold", q>>] = script[<<"hold", q>>]
    BY Actors DEF endHold, Base, TypeOK
  <1>2. remove(r) # store(r)
    BY RemoveFacts, StoreIsNew DEF Base
  <1> QED BY <1>1, <1>2 DEF NotAnew

LEMMA DeskNotAnew ==
    ASSUME Base, NEW d \in Decider, NEW s, script' = [script EXCEPT ![<<"desk", d>>] = s]
    PROVE  NotAnew /\ \A r \in Request : /\ script'[<<"hold", r>>] = script[<<"hold", r>>]
                                         /\ script'[<<"guard", r>>] = script[<<"guard", r>>]
  BY Actors DEF Base, TypeOK, NotAnew

\* A step keeps off requests that nobody holds yet.
Untouched(r) ==
    /\ phase[r] \in Fresh /\ verdict'[r] = verdict[r] /\ inTime'[r] = inTime[r]
    /\ r \in card' => r \in card
    /\ mail'[r] \in {mail[r], <<>>} /\ sender'[r] \in {sender[r], "absent"}
    /\ \A s \in Scope : <<s, r>> \in index' => <<s, r>> \in index

LEMMA FreshKept ==
    ASSUME Base, FreshOK, scene' = scene,
           \A r \in Request : phase'[r] \in Fresh => Untouched(r),
           \A r \in Request, s \in Scope :
              <<s, r>> \in index' => /\ <<s, r>> \in index \/ backend = "redis"
                                     /\ script'[<<"hold", r>>] # store(r),
           \A r \in Request : backend = "redis" => sender'[r] = "absent"
    PROVE  FreshOK'
  <1>1. backend' = backend /\ \A r \in Request : store(r)' = store(r)
    BY SameScene
  <1>2. ASSUME NEW r \in Request, phase'[r] \in Fresh
        PROVE  /\ verdict'[r] = "none" /\ r \notin card' /\ mail'[r] = <<>>
               /\ sender'[r] = "absent" /\ inTime'[r] = "-"
               /\ \A s \in Scope : <<s, r>> \notin index'
    BY <1>2 DEF FreshOK, Untouched
  <1>3. \A r \in Request : \A s \in Scope :
           <<s, r>> \in index' => backend' = "redis" /\ script'[<<"hold", r>>] # store(r)'
    BY <1>1 DEF FreshOK
  <1>4. \A r \in Request : backend' = "redis" => sender'[r] = "absent"
    BY <1>1
  <1> QED BY <1>2, <1>3, <1>4 DEF FreshOK

\* The common case.
LEMMA FreshKeptOff ==
    ASSUME Base, FreshOK, scene' = scene, sender' = sender, index' \subseteq index, NotAnew,
           \A r \in Request : phase'[r] \in Fresh => Untouched(r)
    PROVE  FreshOK'
  <1>1. \A r \in Request, s \in Scope :
              <<s, r>> \in index' => /\ <<s, r>> \in index \/ backend = "redis"
                                     /\ script'[<<"hold", r>>] # store(r)
    BY DEF FreshOK, NotAnew
  <1>2. \A r \in Request : backend = "redis" => sender'[r] = "absent"
    BY DEF FreshOK
  <1> QED BY <1>1, <1>2, FreshKept

LEMMA BeginHoldFresh ==
    ASSUME Base, FreshOK, NEW r \in Request, phase[r] \in Fresh, BeginHold(r), scene' = scene,
           UNCHANGED <<verdict, card, index, mail, inTime>>
    PROVE  FreshOK'
  <1>0. TypeOK
    BY DEF Base
  <1>1. /\ phase' = [phase EXCEPT ![r] = "storing"]
        /\ sender' = IF backend = "memory" THEN [sender EXCEPT ![r] = "map"] ELSE sender
        /\ script' = [script EXCEPT ![<<"hold", r>>] = store(r)]
    BY DEF BeginHold, prepare_wait
  <1>2. \A q \in Request : phase'[q] \in Fresh => Untouched(q)
    BY <1>0, <1>1 DEF TypeOK, Fresh, Untouched
  <1>3. \A q \in Request, s \in Scope :
              <<s, q>> \in index' => /\ <<s, q>> \in index \/ backend = "redis"
                                     /\ script'[<<"hold", q>>] # store(q)
    <2> SUFFICES ASSUME NEW q \in Request, NEW s \in Scope, <<s, q>> \in index
                 PROVE  script'[<<"hold", q>>] # store(q)
      OBVIOUS
    <2>1. q # r
      BY DEF FreshOK
    <2>2. script'[<<"hold", q>>] = script[<<"hold", q>>]
      BY <1>0, <1>1, <2>1, Actors DEF TypeOK
    <2> QED BY <2>2 DEF FreshOK
  <1>4. \A q \in Request : backend = "redis" => sender'[q] = "absent"
    BY <1>1 DEF FreshOK
  <1> QED BY <1>2, <1>3, <1>4, FreshKept

\* A value that is pushed, or sent, is on a request that is held.
LEMMA PushFresh ==
    ASSUME Base, NEW r \in Request, NEW x, lpush(r, x) \/ UNCHANGED <<phase, verdict, mail>>,
           phase[r] \notin Fresh
    PROVE  /\ \A q \in Request : phase'[q] \in Fresh =>
                 phase[q] \in Fresh /\ verdict'[q] = verdict[q] /\ mail'[q] = mail[q]
  BY DEF lpush, Base, TypeOK, Fresh

LEMMA DeliverFresh ==
    ASSUME Base, NEW a \in Actor, deliver(a), phase[next(a).on] \notin Fresh
    PROVE  \A q \in Request : phase[q] \in Fresh => inTime'[q] = inTime[q]
  BY DEF deliver, Base, TypeOK

LEMMA HoldFresh ==
    ASSUME Base, FreshOK, NEW r \in Request,
           Arrive(r) \/ Claim(r) \/ BeginWait(r) \/ Blpop(r) \/ Ends(r) \/ Cancel(r) \/ Cleanup(r)
    PROVE  FreshOK'
  <1>0. TypeOK
    BY DEF Base
  <1>1. CASE Arrive(r)
    <2>1. phase[r] \in Fresh /\ UNCHANGED <<scene, verdict, card, index, mail, inTime>>
      BY <1>1 DEF Arrive, Fresh, history
    <2>2. CASE BeginHold(r)
      BY <2>1, <2>2, BeginHoldFresh
    <2>3. CASE phase' = [phase EXCEPT ![r] = "claiming"] /\ UNCHANGED <<sender, script>>
      <3>1. \A q \in Request : phase'[q] \in Fresh => Untouched(q)
        BY <1>0, <2>1, <2>3 DEF TypeOK, Untouched
      <3> QED BY <2>1, <2>3, <3>1, FreshKeptOff DEF NotAnew
    <2> QED BY <1>1, <2>2, <2>3 DEF Arrive
  <1>2. CASE Claim(r)
    <2>1. phase[r] \in Fresh /\ UNCHANGED <<scene, card, index, mail, inTime>>
      BY <1>2 DEF Claim, Fresh, history
    <2>2. CASE BeginHold(r) /\ UNCHANGED verdict
      BY <2>1, <2>2, BeginHoldFresh
    <2>3. CASE /\ phase' = [phase EXCEPT ![r] = "ended"] /\ UNCHANGED <<sender, script>>
               /\ verdict' = [verdict EXCEPT ![r] = "similar"]
      <3>1. \A q \in Request : phase'[q] \in Fresh => Untouched(q)
        BY <1>0, <2>1, <2>3 DEF TypeOK, Untouched, Fresh
      <3> QED BY <2>1, <2>3, <3>1, FreshKeptOff DEF NotAnew
    <2> QED BY <1>2, <2>2, <2>3 DEF Claim
  <1>3. CASE BeginWait(r)
    <2>1. UNCHANGED <<scene, verdict, card, index, sender, mail, script, inTime>>
      BY <1>3 DEF BeginWait, storeVars, history
    <2>2. \A q \in Request : phase'[q] \in Fresh => Untouched(q)
      BY <1>0, <1>3, <2>1 DEF BeginWait, TypeOK, Untouched, Fresh
    <2> QED BY <2>1, <2>2, FreshKeptOff DEF NotAnew
  <1>4. CASE Blpop(r)
    <2>1. UNCHANGED <<scene, card, index, sender, script, inTime>>
      BY <1>4 DEF Blpop, history
    <2>2. \A q \in Request : phase'[q] \in Fresh => Untouched(q)
      BY <1>0, <1>4, <2>1 DEF Blpop, TypeOK, Untouched, Fresh
    <2> QED BY <2>1, <2>2, FreshKeptOff DEF NotAnew
  <1>5. CASE Ends(r)
    <2>1. PICK v \in Verdict : endHold(r, v)
      BY <1>5, EndFacts
    <2>2. UNCHANGED <<scene, card, index, sender, mail, inTime>>
      BY <1>5, EndFacts DEF storeVars, history
    <2>3. \A q \in Request : phase'[q] \in Fresh => Untouched(q)
      BY <1>0, <2>1, <2>2 DEF endHold, TypeOK, Untouched, Fresh
    <2> QED BY <2>1, <2>2, <2>3, EndNotAnew, FreshKeptOff
  <1>6. CASE Cancel(r)
    <2>1. UNCHANGED <<scene, card, index, sender, mail, inTime>>
      BY <1>6 DEF Cancel, storeVars
    <2>2. \A q \in Request : phase'[q] \in Fresh => Untouched(q)
      BY <1>0, <1>6, <2>1 DEF Cancel, TypeOK, Untouched, Fresh
    <2>3. NotAnew
      <3>1. /\ script'[<<"hold", r>>] = <<>>
            /\ \A q \in Request : q # r => script'[<<"hold", q>>] = script[<<"hold", q>>]
        BY <1>0, <1>6, Actors DEF Cancel, TypeOK
      <3> QED BY <1>0, <3>1, StoreIsNew DEF NotAnew
    <2> QED BY <2>1, <2>2, <2>3, FreshKeptOff
  <1>7. CASE Cleanup(r)
    <2>1. UNCHANGED <<scene, phase, verdict, card, index, sender, mail, inTime>>
      BY <1>7 DEF Cleanup, holdVars, storeVars, history
    <2>2. NotAnew
      BY <1>0, <1>7, Actors DEF Cleanup, TypeOK, NotAnew
    <2> QED BY <2>1, <2>2, FreshKeptOff DEF Untouched
  <1> QED BY <1>1, <1>2, <1>3, <1>4, <1>5, <1>6, <1>7

LEMMA PlainFresh ==
    ASSUME Base, FreshOK, NEW a \in Actor, Plain(a)
    PROVE  FreshOK'
  <1>0. TypeOK
    BY DEF Base
  <1>1. /\ script[a] # <<>> /\ issue(a)
        /\ UNCHANGED <<scene, phase, verdict, inTime>>
    BY PlainFacts DEF holdVars, history
  <1>2. NotAnew
    BY <1>1, IssueNotAnew
  <1>3. CASE SetCard(a)
    <2>1. phase[next(a).on] = "storing"
      <3>1. ~IsDrop(next(a)) /\ next(a).op = "setCard"
        BY <1>3, Commands DEF SetCard, issues, IsDrop
      <3> QED BY <1>1, <3>1, Issued, Commands
    <2>2. \A q \in Request : phase'[q] \in Fresh => Untouched(q)
      BY <1>1, <1>3, <2>1 DEF SetCard, Untouched, Fresh
    <2> QED BY <1>1, <1>2, <1>3, <2>2, FreshKeptOff DEF SetCard
  <1>4. CASE AddIndex(a)
    <2>1. next(a).op = "addIndex" /\ ~IsDrop(next(a))
      BY <1>4, Commands DEF AddIndex, issues, IsDrop
    <2>2. PICK r \in Request : /\ a = <<"hold", r>> /\ phase[r] = "storing" /\ next(a).on = r
                               /\ script[a] \in StoreRest(r)
      BY <1>1, <2>1, Issued, Commands
    <2>3. backend = "redis" /\ Tail(script[a]) # store(r)
      BY <1>0, <2>1, <2>2, StoreFacts DEF next
    <2>4. script'[<<"hold", r>>] # store(r)
      BY <1>1, <2>2, <2>3, IssueType
    <2>5. UNCHANGED <<card, mail, sender>> /\ \A s \in Scope, q \in Request : q # r /\ <<s, q>> \in index' => <<s, q>> \in index
      BY <1>4, <2>2 DEF AddIndex
    <2>6. \A q \in Request : phase'[q] \in Fresh => Untouched(q)
      BY <1>1, <2>2, <2>5 DEF Untouched, Fresh
    <2>7. \A q \in Request, s \in Scope :
              <<s, q>> \in index' => /\ <<s, q>> \in index \/ backend = "redis"
                                     /\ script'[<<"hold", q>>] # store(q)
      BY <1>2, <2>3, <2>4, <2>5 DEF FreshOK, NotAnew
    <2>8. \A q \in Request : backend = "redis" => sender'[q] = "absent"
      BY <2>5 DEF FreshOK
    <2> QED BY <1>1, <2>6, <2>7, <2>8, FreshKept
  <1>5. CASE Publish(a) \/ DropIndex(a) \/ DropCard(a)
    <2>1. UNCHANGED <<mail, sender>> /\ index' \subseteq index /\ card' \subseteq card
      BY <1>5 DEF Publish, DropIndex, DropCard, storeVars
    <2>2. \A q \in Request : phase'[q] \in Fresh => Untouched(q)
      BY <1>1, <2>1 DEF Untouched
    <2> QED BY <1>1, <1>2, <2>1, <2>2, FreshKeptOff
  <1>6. CASE DropMail(a)
    <2>1. \A q \in Request : phase'[q] \in Fresh => Untouched(q)
      BY <1>0, <1>1, <1>6 DEF DropMail, TypeOK, Untouched
    <2> QED BY <1>1, <1>2, <1>6, <2>1, FreshKeptOff DEF DropMail
  <1>7. CASE DropSender(a)
    <2>1. UNCHANGED <<card, mail, index>> /\ \A q \in Request : sender'[q] \in {sender[q], "absent"}
      BY <1>0, <1>7 DEF DropSender, TypeOK
    <2>2. \A q \in Request : phase'[q] \in Fresh => Untouched(q)
      BY <1>1, <2>1 DEF Untouched
    <2>3. \A q \in Request : backend = "redis" => sender'[q] = "absent"
      BY <2>1 DEF FreshOK
    <2>4. \A q \in Request, s \in Scope :
              <<s, q>> \in index' => /\ <<s, q>> \in index \/ backend = "redis"
                                     /\ script'[<<"hold", q>>] # store(q)
      BY <1>2, <2>1 DEF FreshOK, NotAnew
    <2> QED BY <1>1, <2>2, <2>3, <2>4, FreshKept
  <1> QED BY <1>3, <1>4, <1>5, <1>6, <1>7 DEF Plain

LEMMA DecisionFresh ==
    ASSUME Base, FreshOK, NEW a \in Actor, TakeSender(a) \/ Send(a) \/ Push(a)
    PROVE  FreshOK'
  <1>0. TypeOK
    BY DEF Base
  <1>1. PICK d \in Decider : /\ a = <<"desk", d>> /\ next(a).on \in Request
                             /\ phase[next(a).on] \notin Fresh
                             /\ TakeSender(a) \/ Send(a) => backend = "memory"
    BY Deciding DEF TakeSender, Send, Push
  <1>2. PICK r \in Request : r = next(a).on
    BY <1>1
  <1>3. scene' = scene /\ UNCHANGED <<card, index>>
    BY DEF TakeSender, Send, Push
  <1>4. NotAnew
    BY <1>1, DeskNotAnew DEF TakeSender, Send, Push, issue
  <1>5. \A q \in Request, s \in Scope :
              <<s, q>> \in index' => /\ <<s, q>> \in index \/ backend = "redis"
                                     /\ script'[<<"hold", q>>] # store(q)
    BY <1>3, <1>4 DEF FreshOK, NotAnew
  <1>6. \A q \in Request : backend = "redis" => sender'[q] = "absent"
    BY <1>1 DEF Push, FreshOK
  <1>7. \A q \in Request : phase'[q] \in Fresh => Untouched(q)
    <2>1. CASE TakeSender(a)
      BY ZenonT(40), <1>0, <1>1, <1>3, <2>1 DEF TakeSender, TypeOK, Untouched, holdVars, history
    <2>2. CASE Send(a)
      <3>1. \A q \in Request : phase[q] \in Fresh => inTime'[q] = inTime[q]
        BY <1>1, <2>2, DeliverFresh DEF Send
      <3> QED BY <1>0, <1>1, <1>3, <2>2, <3>1 DEF Send, TypeOK, Untouched, holdVars
    <2>3. CASE Push(a)
      <3>1. \A q \in Request : phase[q] \in Fresh => inTime'[q] = inTime[q]
        BY <1>1, <2>3, DeliverFresh DEF Push
      <3>2. \A q \in Request : phase'[q] \in Fresh =>
                 phase[q] \in Fresh /\ verdict'[q] = verdict[q] /\ mail'[q] = mail[q]
        BY <1>1, <2>3, PushFresh DEF Push
      <3>3. sender' = sender
        BY <2>3 DEF Push
      <3> QED BY <1>3, <3>1, <3>2, <3>3 DEF Untouched
    <2> QED BY <2>1, <2>2, <2>3
  <1> QED BY <1>3, <1>5, <1>6, <1>7, FreshKept

LEMMA FailsFresh ==
    ASSUME Base, FreshOK, NEW a \in Actor, CommandFails(a)
    PROVE  FreshOK'
  <1>0. TypeOK
    BY DEF Base
  <1>1. /\ scene' = scene /\ script[a] # <<>> /\ next(a).on \in Request
        /\ UNCHANGED <<index, sender, inTime>>
    BY Issued DEF CommandFails, Command
  <1>2. CASE next(a).op = "setCard"
    <2>1. phase[next(a).on] = "storing"
      <3>1. ~IsDrop(next(a))
        BY <1>2, Commands DEF IsDrop
      <3> QED BY <1>1, <1>2, <3>1, Issued, Commands
    <2>2. /\ endHold(next(a).on, "unavailable") /\ mail' = mail
          /\ \A q \in Request : q # next(a).on => (q \in card' => q \in card)
      BY <1>2 DEF CommandFails
    <2>3. \A q \in Request : phase'[q] \in Fresh => Untouched(q)
      BY <1>0, <1>1, <2>1, <2>2 DEF endHold, TypeOK, Untouched, Fresh
    <2> QED BY <1>1, <2>2, <2>3, EndNotAnew, FreshKeptOff
  <1>3. CASE next(a).op = "push"
    <2>1. PICK d \in Decider : a = <<"desk", d>> /\ phase[next(a).on] \notin Fresh
      BY <1>1, <1>3, Deciding DEF issues
    <2>2. \A q \in Request : phase'[q] \in Fresh =>
                 phase[q] \in Fresh /\ verdict'[q] = verdict[q] /\ mail'[q] = mail[q]
      BY <1>1, <1>3, <2>1, PushFresh DEF CommandFails
    <2>3. NotAnew
      BY <1>3, <2>1, DeskNotAnew DEF CommandFails
    <2>4. \A q \in Request : phase'[q] \in Fresh => Untouched(q)
      BY <1>1, <1>3, <2>2 DEF CommandFails, Untouched
    <2> QED BY <1>1, <2>3, <2>4, FreshKeptOff
  <1>4. CASE next(a).op \notin {"setCard", "push"}
    <2>1. issue(a) /\ UNCHANGED <<card, mail, phase, verdict>>
      BY <1>4 DEF CommandFails
    <2>2. \A q \in Request : phase'[q] \in Fresh => Untouched(q)
      BY <1>1, <2>1 DEF Untouched
    <2> QED BY <1>1, <2>1, <2>2, IssueNotAnew, FreshKeptOff
  <1> QED BY <1>2, <1>3, <1>4

LEMMA OtherFresh ==
    ASSUME Base, FreshOK,
           \/ \E d \in Decider : \/ \E r \in Request, x \in Decisions : Decide(d, r, x)
                                 \/ OpenWindow(d)
           \/ Aside
    PROVE  FreshOK'
  <1>1. ASSUME NEW d \in Decider, NEW r \in Request, NEW x \in Decisions, Decide(d, r, x)
        PROVE  FreshOK'
    <2>1. UNCHANGED <<scene, phase, verdict, index, sender, mail, inTime>> /\ card' \subseteq card
      BY <1>1 DEF Decide, holdVars, history
    <2>2. NotAnew
      BY <1>1, DeskNotAnew DEF Decide, NotAnew
    <2> QED BY <2>1, <2>2, FreshKeptOff DEF Untouched
  <1>2. ASSUME NEW d \in Decider, OpenWindow(d)
        PROVE  FreshOK'
    BY <1>2, FreshKeptOff DEF OpenWindow, holdVars, storeVars, history, NotAnew, Untouched
  <1>3. ASSUME Aside
        PROVE  FreshOK'
    BY <1>3, AsideFacts, FreshKeptOff DEF holdVars, storeVars, history, NotAnew, Untouched
  <1> QED BY <1>1, <1>2, <1>3

-----------------------------------------------------------------------------
(***************************************************************************)
(* The core: what the other invariants rest on.                            *)
(***************************************************************************)
Core == Base /\ FreshOK /\ WindowInv

LEMMA CoreInit == Init => Core
  BY BaseInit, FreshInit, WindowInit DEF Core

LEMMA CoreNext ==
    ASSUME Core, [Next]_vars
    PROVE  Core'
  <1>0. Base /\ FreshOK /\ WindowInv /\ TypeOK
    BY DEF Core, Base
  <1>1. ASSUME NEW r \in Request, Arrive(r)
        PROVE  Core'
    BY <1>0, <1>1, ArriveBase, HoldFresh, ArriveWindow DEF Core
  <1>2. ASSUME NEW r \in Request, Claim(r)
        PROVE  Core'
    <2>1. via[r] \in Request
      BY <1>0, <1>2 DEF Claim, TypeOK, WindowInv
    <2> QED BY <1>0, <1>2, <2>1, ClaimBase, HoldFresh, ClaimWindow DEF Core
  <1>3. ASSUME NEW r \in Request, BeginWait(r) \/ Blpop(r)
        PROVE  Core'
    BY <1>0, <1>3, WaitBase, HoldFresh, WindowOthers DEF Core
  <1>4. ASSUME NEW r \in Request, Ends(r)
        PROVE  Core'
    <2>1. Base'
      BY <1>0, <1>4, EndBase DEF Ends
    <2> QED BY <1>0, <1>4, <2>1, HoldFresh, WindowOthers DEF Core
  <1>5. ASSUME NEW r \in Request, Cancel(r)
        PROVE  Core'
    BY <1>0, <1>5, CancelBase, HoldFresh, WindowOthers DEF Core
  <1>6. ASSUME NEW r \in Request, Cleanup(r)
        PROVE  Core'
    BY <1>0, <1>6, CleanupBase, HoldFresh, WindowOthers DEF Core
  <1>7. ASSUME NEW a \in Actor, Plain(a)
        PROVE  Core'
    BY <1>0, <1>7, PlainBase, PlainFresh, WindowOthers DEF Core
  <1>8. ASSUME NEW a \in Actor, TakeSender(a) \/ Send(a) \/ Push(a)
        PROVE  Core'
    BY <1>0, <1>8, TakeSenderBase, SendBase, PushBase, DecisionFresh, WindowOthers DEF Core
  <1>9. ASSUME NEW a \in Actor, CommandFails(a)
        PROVE  Core'
    BY <1>0, <1>9, FailsBase, FailsFresh, WindowOthers DEF Core
  <1>10. ASSUME NEW d \in Decider, NEW r \in Request, NEW x \in Decisions, Decide(d, r, x)
         PROVE  Core'
    BY <1>0, <1>10, DecideBase, OtherFresh, WindowOthers DEF Core
  <1>11. ASSUME NEW d \in Decider, OpenWindow(d)
         PROVE  Core'
    BY <1>0, <1>11, OpenWindowBase, OtherFresh, OpenWindowKeeps DEF Core
  <1>12. ASSUME Aside
         PROVE  Core'
    BY <1>0, <1>12, AsideBase, OtherFresh, WindowOthers DEF Core
  <1>13. ASSUME UNCHANGED vars
         PROVE  Core'
    <2>1. UNCHANGED <<scene, phase, verdict, via, card, index, sender, mail, expired, script, desk, poll,
                      window, uses, errors, inTime, loose>>
      BY <1>13 DEF vars, holdVars, storeVars, windowVars, history
    <2>2. TypeOK'
      BY <1>0, <2>1 DEF TypeOK
    <2>3. ScriptsOK'
      <3>1. \A r \in Request : HoldScript(r)' /\ GuardScript(r)' /\ JanitorScript(r)'
        BY <1>0, <2>1, Frame
      <3>2. \A d \in Decider : DeskScript(d)'
        BY <1>0, <2>1, Frame
      <3> QED BY <1>0, <2>1, <3>1, <3>2, SameScene DEF Base, ScriptsOK
    <2>4. WindowInv'
      BY <1>0, <2>1, WindowKept DEF Lets, Stays
    <2>5. FreshOK'
      BY <1>0, <2>1, FreshKeptOff DEF NotAnew, Untouched
    <2> QED BY <2>2, <2>3, <2>4, <2>5 DEF Core, Base
  <1>14. CASE Next
    BY <1>14, NextCases, <1>1, <1>2, <1>3, <1>4, <1>5, <1>6, <1>7, <1>8, <1>9, <1>10, <1>11, <1>12 DEF Ends
  <1> QED BY <1>13, <1>14

LEMMA CoreAlways == Spec => []Core
  BY CoreInit, CoreNext, PTL DEF Spec

\* Every variable keeps its type, whatever the agent, the reviewers, the clock
\* and Redis do.
THEOREM TypeCorrect == Spec => []TypeOK
  <1>1. Core => TypeOK
    BY DEF Core, Base
  <1> QED BY <1>1, CoreAlways, PTL

\* However many requests read the window before any of them increments its
\* counter, one "approve similar" lets at most SIMILAR_WINDOW_MAX_REQUESTS
\* through, and only after a decision that the reviewer was told succeeded
\* (similar_window's claim and open).
THEOREM WindowHolds == Spec => []WindowIsBounded
  <1>1. Core => WindowIsBounded
    <2> SUFFICES ASSUME Core PROVE WindowIsBounded
      OBVIOUS
    <2>1. \A q \in Request : /\ Cardinality(through(q)) <= SIMILAR_WINDOW_MAX_REQUESTS
                             /\ through(q) # {} => opened(q)
      BY DEF Core, WindowInv, through
    <2> QED BY <2>1 DEF WindowIsBounded, through, opened
  <1> QED BY <1>1, CoreAlways, PTL

-----------------------------------------------------------------------------
(***************************************************************************)
(* One decision wins, and reaches the request: the in-memory store.        *)
(***************************************************************************)
\* The reviewer was, or will be, told that the decision was applied.
Told == {"delivered", "opened"}

LEMMA WonFacts ==
    ASSUME Base, NEW d \in Decider, Won(d)
    PROVE  /\ desk[d].state # "idle" /\ desk[d].on \in Request /\ phase[desk[d].on] \notin Fresh
           /\ desk[d].state \in Told \/ desk[d].state = "found"
  <1>1. sending(desk[d].on, desk[d].decision) # <<>>
    BY Tuple2 DEF sending
  <1>2. DeskScript(d) /\ (desk[d].state # "idle" => desk[d].on \in Request /\ phase[desk[d].on] \notin Fresh)
    BY DEF Base, ScriptsOK
  <1>3. desk[d].state \in {"found", "delivered", "opened"}
    BY <1>1, <1>2 DEF Won, DeskScript
  <1> QED BY <1>2, <1>3 DEF Told

\* A decision that is no longer at its beginning is not about to send.
LEMMA NotSending ==
    ASSUME NEW r, NEW x, NEW q, NEW y
    PROVE  /\ sending(r, x) # <<>> /\ sending(r, x) # <<cmd("dropCard", q, "-")>>
           /\ sending(r, x) # <<cmd("takeSender", q, y)>>
  <1>1. sending(r, x) # <<>> /\ Head(sending(r, x)) = cmd("send", r, x)
    BY Tuple2 DEF sending
  <1>2. /\ Head(<<cmd("dropCard", q, "-")>>) = cmd("dropCard", q, "-")
        /\ Head(<<cmd("takeSender", q, y)>>) = cmd("takeSender", q, y)
    BY Tuple1
  <1>3. cmd("send", r, x) # cmd("dropCard", q, "-") /\ cmd("send", r, x) # cmd("takeSender", q, y)
    BY Commands
  <1> QED BY <1>1, <1>2, <1>3

LEMMA WinKept ==
    ASSUME Base, WinInv, backend = "memory", scene' = scene, inTime' = inTime,
           \A d \in Decider : Won(d)' => Won(d) /\ desk'[d].on = desk[d].on,
           \A d \in Decider : desk[d].state \in Told => desk'[d].state \in Told /\ desk'[d].on = desk[d].on,
           \A r \in Request : sender'[r] = "map" =>
              sender[r] = "map" \/ \A d \in Decider : Won(d) => desk[d].on # r,
           \A r \in Request : inTime[r] # "-" /\ phase'[r] # "ended" => phase[r] # "ended" /\ mail'[r] = mail[r]
    PROVE  WinInv'
  <1>1. /\ \A d \in Decider : Won(d) /\ desk[d].on \in Request => sender[desk[d].on] # "map"
        /\ \A d, e \in Decider : Won(d) /\ Won(e) /\ desk[d].on = desk[e].on => d = e
        /\ \A r \in Request : inTime[r] # "-" =>
              /\ \E d \in Decider : desk[d].on = r /\ desk[d].state \in Told
              /\ phase[r] # "ended" => mail[r] = <<inTime[r]>>
    BY DEF WinInv, Told
  <1>2. \A d \in Decider : Won(d)' /\ desk'[d].on \in Request => sender'[desk'[d].on] # "map"
    BY <1>1
  <1>3. \A d, e \in Decider : Won(d)' /\ Won(e)' /\ desk'[d].on = desk'[e].on => d = e
    BY <1>1
  <1>4. \A r \in Request : inTime'[r] # "-" =>
              /\ \E d \in Decider : desk'[d].on = r /\ desk'[d].state \in Told
              /\ phase'[r] # "ended" => mail'[r] = <<inTime'[r]>>
    BY <1>1
  <1> QED BY <1>2, <1>3, <1>4 DEF WinInv, Told

\* The common case: the reviewers' side does not move, or comes to its end.
LEMMA WinKeptAside ==
    ASSUME Base, WinInv, backend = "memory", scene' = scene, inTime' = inTime, desk' = desk,
           \A d \in Decider : script'[<<"desk", d>>] \in {script[<<"desk", d>>], <<>>},
           \A r \in Request : sender'[r] = "map" =>
              sender[r] = "map" \/ \A d \in Decider : Won(d) => desk[d].on # r,
           \A r \in Request : inTime[r] # "-" /\ phase'[r] # "ended" => phase[r] # "ended" /\ mail'[r] = mail[r]
    PROVE  WinInv'
  <1>1. \A d \in Decider : Won(d)' => Won(d) /\ desk'[d].on = desk[d].on
    BY NotSending DEF Won, sending
  <1>2. \A d \in Decider : desk[d].state \in Told => desk'[d].state \in Told /\ desk'[d].on = desk[d].on
    OBVIOUS
  <1> QED BY <1>1, <1>2, WinKept

LEMMA WinInit == Init => WinInv
  <1> SUFFICES ASSUME Init PROVE WinInv
    OBVIOUS
  <1>1. \A d \in Decider : ~Won(d)
    BY ZenonT(40), Actors, NotSending DEF Init, Won
  <1>2. \A r \in Request : inTime[r] = "-"
    BY DEF Init
  <1> QED BY <1>1, <1>2 DEF WinInv

LEMMA HoldWins ==
    ASSUME Base, FreshOK, WinInv, backend = "memory", NEW r \in Request,
           Arrive(r) \/ Claim(r) \/ BeginWait(r) \/ Blpop(r) \/ Ends(r) \/ Cancel(r) \/ Cleanup(r)
    PROVE  WinInv'
  <1>0. TypeOK
    BY DEF Base
  <1>1. \A d \in Decider : script'[<<"desk", d>>] = script[<<"desk", d>>]
    <2>1. ASSUME NEW s, script' = [script EXCEPT ![<<"hold", r>>] = s]
          PROVE  \A d \in Decider : script'[<<"desk", d>>] = script[<<"desk", d>>]
      BY <1>0, <2>1, Actors DEF TypeOK
    <2>2. CASE Arrive(r) \/ Claim(r)
      BY <2>1, <2>2 DEF Arrive, Claim, BeginHold
    <2>3. CASE BeginWait(r) \/ Blpop(r)
      BY <2>3 DEF BeginWait, Blpop
    <2>4. CASE Ends(r)
      BY <2>1, <2>4, EndFacts DEF endHold
    <2>5. CASE Cancel(r) \/ Cleanup(r)
      BY <1>0, <2>5, Actors DEF Cancel, Cleanup, TypeOK
    <2> QED BY <2>2, <2>3, <2>4, <2>5
  <1>2. scene' = scene /\ inTime' = inTime /\ desk' = desk
    <2>1. CASE Arrive(r) \/ Claim(r) \/ BeginWait(r) \/ Blpop(r) \/ Cancel(r) \/ Cleanup(r)
      BY <2>1 DEF Arrive, Claim, BeginWait, Blpop, Cancel, Cleanup, history
    <2>2. CASE Ends(r)
      BY <2>2, EndFacts DEF history
    <2> QED BY <2>1, <2>2
  <1>3. \A q \in Request : sender'[q] = "map" =>
              sender[q] = "map" \/ \A d \in Decider : Won(d) => desk[d].on # q
    <2>1. CASE Arrive(r) \/ Claim(r)
      <3>1. phase[r] \in Fresh
        BY <2>1 DEF Arrive, Claim, Fresh
      <3>2. \A d \in Decider : Won(d) => desk[d].on # r
        BY <3>1, WonFacts
      <3>3. \A q \in Request : q # r => sender'[q] = sender[q]
        BY <1>0, <2>1 DEF Arrive, Claim, BeginHold, prepare_wait, TypeOK
      <3> QED BY <3>2, <3>3
    <2>2. CASE BeginWait(r) \/ Blpop(r) \/ Cancel(r) \/ Cleanup(r)
      BY <2>2 DEF BeginWait, Blpop, Cancel, Cleanup, storeVars
    <2>3. CASE Ends(r)
      BY <2>3, EndFacts DEF storeVars
    <2> QED BY <2>1, <2>2, <2>3
  <1>4. ~Blpop(r)
    BY DEF Blpop, Base, ScriptsOK
  <1>5. mail' = mail
    <2>1. CASE Arrive(r) \/ Claim(r) \/ BeginWait(r) \/ Cancel(r) \/ Cleanup(r)
      BY <2>1 DEF Arrive, Claim, BeginWait, Cancel, Cleanup, storeVars
    <2>2. CASE Ends(r)
      BY <2>2, EndFacts DEF storeVars
    <2> QED BY <1>4, <2>1, <2>2
  <1>6. \A q \in Request : phase'[q] # "ended" => phase[q] # "ended"
    <2>1. CASE Arrive(r) \/ Claim(r) \/ BeginWait(r)
      BY <1>0, <2>1 DEF Arrive, Claim, BeginHold, BeginWait, TypeOK
    <2>2. CASE Cancel(r) \/ Cleanup(r)
      BY <1>0, <2>2 DEF Cancel, Cleanup, holdVars, TypeOK
    <2>3. CASE Ends(r)
      BY ZenonT(40), <1>0, <2>3, EndFacts DEF endHold, TypeOK
    <2> QED BY <1>4, <2>1, <2>2, <2>3
  <1> QED BY <1>1, <1>2, <1>3, <1>5, <1>6, WinKeptAside

LEMMA PlainWins ==
    ASSUME Base, WinInv, backend = "memory", NEW a \in Actor, Plain(a)
    PROVE  WinInv'
  <1>0. TypeOK
    BY DEF Base
  <1>1. /\ script[a] # <<>> /\ issue(a) /\ next(a).op \notin {"takeSender", "send", "push"}
        /\ UNCHANGED <<scene, phase, desk, inTime>>
    BY PlainFacts DEF holdVars, history
  <1>2. ASSUME NEW d \in Decider
        PROVE  script'[<<"desk", d>>] \in {script[<<"desk", d>>], <<>>}
    <2>1. CASE a # <<"desk", d>>
      BY <1>1, <2>1, IssueType, Actors
    <2>2. CASE a = <<"desk", d>>
      <3>1. DeskScript(d)
        BY DEF Base, ScriptsOK
      <3>2. desk[d].on \in Request /\ desk[d].decision \in Decisions
        BY <1>1, <2>2, <3>1 DEF DeskScript
      <3>3. /\ Head(submit_outcome(desk[d].on, desk[d].decision)).op = "takeSender"
            /\ Head(sending(desk[d].on, desk[d].decision)).op = "send"
        BY <1>0, <3>2, DecisionFacts, Commands
      <3>4. script[a] = <<cmd("dropCard", desk[d].on, "-")>>
        BY <1>1, <2>2, <3>1, <3>3 DEF DeskScript, next
      <3>5. Tail(<<cmd("dropCard", desk[d].on, "-")>>) = <<>>
        BY <1>0, <3>2, DecisionFacts
      <3>6. script'[a] = Tail(script[a])
        BY <1>1, IssueType
      <3> QED BY <2>2, <3>4, <3>5, <3>6
    <2> QED BY <2>1, <2>2
  <1>3. mail' = mail
    <2>1. ~DropMail(a)
      <3>1. SUFFICES ASSUME next(a).op = "dropMail" PROVE FALSE
        BY DEF DropMail, issues
      <3>2. IsDrop(next(a))
        BY <1>1, <3>1, Issued, Commands
      <3> QED BY <3>1, <3>2, Commands DEF IsDrop
    <2> QED BY <2>1 DEF Plain, SetCard, AddIndex, Publish, DropIndex, DropCard, DropSender, storeVars
  <1>4. \A r \in Request : sender'[r] = "map" => sender[r] = "map"
    <2>1. CASE DropSender(a)
      BY <1>0, <2>1 DEF DropSender, TypeOK
    <2>2. CASE ~DropSender(a)
      BY <2>2 DEF Plain, SetCard, AddIndex, Publish, DropIndex, DropCard, DropMail, storeVars
    <2> QED BY <2>1, <2>2
  <1> QED BY <1>1, <1>2, <1>3, <1>4, WinKeptAside

LEMMA TakeSenderWins ==
    ASSUME Base, WinInv, backend = "memory", NEW a \in Actor, TakeSender(a)
    PROVE  WinInv'
  <1>0. TypeOK
    BY DEF Base
  <1>1. PICK d \in Decider :
             /\ a = <<"desk", d>> /\ a[2] = d
             /\ desk[d].on \in Request /\ desk[d].decision \in Decisions /\ desk[d].state = "found"
             /\ next(a) = cmd("takeSender", desk[d].on, desk[d].decision)
             /\ next(a).on = desk[d].on /\ next(a).with = desk[d].decision
    BY Deciding DEF TakeSender
  <1>2. PICK r \in Request : r = desk[d].on
    BY <1>1
  <1>3. UNCHANGED <<scene, phase, mail, inTime>> /\ script[a] # <<>>
    BY DEF TakeSender, holdVars, history, issues
  <1>4. \A e \in Decider : e # d => script'[<<"desk", e>>] = script[<<"desk", e>>]
    BY <1>0, <1>1, Actors DEF TakeSender, issue, TypeOK
  <1>5. CASE /\ sender[r] = "map"
             /\ sender' = [sender EXCEPT ![r] = afterTake]
             /\ script' = [script EXCEPT ![a] = <<cmd("send", r, desk[d].decision), cmd("dropCard", r, "-")>>]
             /\ UNCHANGED desk
    <2>1. \A e \in Decider : Won(e) => desk[e].on # r
      BY <1>2, <1>5 DEF WinInv
    <2>2. \A e \in Decider : e # d => Won(e)' = Won(e)
      BY <1>4, <1>5 DEF Won, sending
    <2>3. \A q \in Request : sender'[q] = "map" => sender[q] = "map" /\ q # r
      BY <1>0, <1>5 DEF TypeOK, afterTake
    <2>4. /\ \A e \in Decider : Won(e) /\ desk[e].on \in Request => sender[desk[e].on] # "map"
          /\ \A e, f \in Decider : Won(e) /\ Won(f) /\ desk[e].on = desk[f].on => e = f
          /\ \A q \in Request : inTime[q] # "-" =>
                /\ \E e \in Decider : desk[e].on = q /\ desk[e].state \in Told
                /\ phase[q] # "ended" => mail[q] = <<inTime[q]>>
      BY DEF WinInv, Told
    <2>5. \A e \in Decider : Won(e)' /\ desk'[e].on \in Request => sender'[desk'[e].on] # "map"
      BY <1>2, <1>5, <2>2, <2>3, <2>4
    <2>6. \A e, f \in Decider : Won(e)' /\ Won(f)' /\ desk'[e].on = desk'[f].on => e = f
      BY <1>2, <1>5, <2>1, <2>2, <2>4
    <2>7. \A q \in Request : inTime'[q] # "-" =>
                /\ \E e \in Decider : desk'[e].on = q /\ desk'[e].state \in Told
                /\ phase'[q] # "ended" => mail'[q] = <<inTime'[q]>>
      BY <1>3, <1>5, <2>4
    <2> QED BY <2>5, <2>6, <2>7 DEF WinInv, Told
  <1>6. CASE issue(a) /\ desk' = [desk EXCEPT ![a[2]].state = "refused"] /\ UNCHANGED sender
    <2>1. script'[a] = <<>>
      <3>1. script[a] = submit_outcome(desk[d].on, desk[d].decision)
        BY <1>1, <1>3, Issued, Commands DEF IsDrop
      <3> QED BY ZenonT(40), <1>0, <1>1, <1>3, <1>6, <3>1, DecisionFacts, IssueType
    <2>2. desk' = [desk EXCEPT ![d] = [desk[d] EXCEPT !.state = "refused"]]
      BY <1>1, <1>6
    <2>3. desk'[d].state = "refused" /\ \A e \in Decider : e # d => desk'[e] = desk[e]
      BY <1>0, <2>2, DeskState
    <2>4. ~Won(d)'
      BY <1>1, <2>1, <2>3, NotSending DEF Won
    <2>5. \A e \in Decider : Won(e)' => Won(e) /\ desk'[e].on = desk[e].on
      BY <1>4, <2>3, <2>4 DEF Won, sending
    <2>6. \A e \in Decider : desk[e].state \in Told => desk'[e].state \in Told /\ desk'[e].on = desk[e].on
      BY <1>1, <2>3 DEF Told
    <2> QED BY <1>3, <1>6, <2>5, <2>6, WinKept
  <1> QED BY <1>1, <1>2, <1>5, <1>6 DEF TakeSender

\* Whoever sends holds the sender, so nothing was sent before.
LEMMA SendWins ==
    ASSUME Base, WinInv, backend = "memory", NEW a \in Actor, Send(a)
    PROVE  /\ WinInv'
           /\ \A q \in Request : inTime'[q] # inTime[q] => phase[q] # "ended"
           /\ \A q \in Request : phase'[q] = "ended" => inTime'[q] = inTime[q]
  <1>0. TypeOK
    BY DEF Base
  <1>1. PICK d \in Decider :
             /\ a = <<"desk", d>> /\ a[2] = d
             /\ desk[d].on \in Request /\ desk[d].decision \in Decisions /\ desk[d].state = "found"
             /\ next(a) = cmd("send", desk[d].on, desk[d].decision)
             /\ next(a).on = desk[d].on /\ next(a).with = desk[d].decision
    BY Deciding DEF Send
  <1>2. PICK r \in Request : r = desk[d].on
    BY <1>1
  <1>3. PICK x \in Decisions : x = desk[d].decision
    BY <1>1
  <1>4. /\ UNCHANGED <<scene, phase>> /\ issue(a) /\ script[a] # <<>>
        /\ mail' = [mail EXCEPT ![r] = <<x>>]
        /\ sender' = [sender EXCEPT ![r] = IF @ = "taken" THEN "absent" ELSE @]
        /\ desk' = [desk EXCEPT ![d] = [desk[d] EXCEPT !.state = "delivered"]]
        /\ inTime' = [inTime EXCEPT ![r] = IF phase[r] # "ended" /\ @ = "-" THEN x ELSE @]
    BY <1>1, <1>2, <1>3 DEF Send, deliver, holdVars, issues
  <1>5. script[a] = sending(r, x)
    BY <1>1, <1>2, <1>3, <1>4, Issued, Commands DEF IsDrop
  <1>6. Won(d)
    BY <1>1, <1>2, <1>3, <1>5 DEF Won
  <1>7. /\ \A e \in Decider : Won(e) /\ desk[e].on \in Request => sender[desk[e].on] # "map"
        /\ \A e, f \in Decider : Won(e) /\ Won(f) /\ desk[e].on = desk[f].on => e = f
        /\ \A q \in Request : inTime[q] # "-" =>
              /\ \E e \in Decider : desk[e].on = q /\ desk[e].state \in Told
              /\ phase[q] # "ended" => mail[q] = <<inTime[q]>>
    BY DEF WinInv, Told
  <1>8. inTime[r] = "-"
    <2> SUFFICES ASSUME inTime[r] # "-" PROVE FALSE
      OBVIOUS
    <2>1. PICK e \in Decider : desk[e].on = r /\ desk[e].state \in Told
      BY <1>7
    <2>2. Won(e)
      BY <2>1 DEF Won, Told
    <2> QED BY <1>1, <1>2, <1>6, <1>7, <2>1, <2>2 DEF Told
  <1>9. /\ desk'[d].on = r /\ desk'[d].state = "delivered"
        /\ \A e \in Decider : e # d => desk'[e] = desk[e]
    BY <1>0, <1>2, <1>4, DeskState
  <1>10. \A e \in Decider : e # d => script'[<<"desk", e>>] = script[<<"desk", e>>]
    BY <1>1, <1>4, IssueType, Actors
  <1>11. \A e \in Decider : Won(e)' => Won(e) /\ desk'[e].on = desk[e].on
    BY <1>2, <1>6, <1>9, <1>10 DEF Won, sending
  <1>12. \A q \in Request : sender'[q] = "map" => sender[q] = "map"
    BY <1>0, <1>4 DEF TypeOK
  <1>13. \A q \in Request : q # r => inTime'[q] = inTime[q] /\ mail'[q] = mail[q]
    BY <1>0, <1>4 DEF TypeOK
  <1>14. mail'[r] = <<x>> /\ inTime'[r] = IF phase[r] # "ended" THEN x ELSE "-"
    BY <1>0, <1>4, <1>8 DEF TypeOK
  <1>15. \A e \in Decider : Won(e)' /\ desk'[e].on \in Request => sender'[desk'[e].on] # "map"
    BY <1>7, <1>11, <1>12
  <1>16. \A e, f \in Decider : Won(e)' /\ Won(f)' /\ desk'[e].on = desk'[f].on => e = f
    BY <1>7, <1>11
  <1>17. \A q \in Request : inTime'[q] # "-" =>
                /\ \E e \in Decider : desk'[e].on = q /\ desk'[e].state \in Told
                /\ phase'[q] # "ended" => mail'[q] = <<inTime'[q]>>
    <2> SUFFICES ASSUME NEW q \in Request, inTime'[q] # "-"
                 PROVE  /\ \E e \in Decider : desk'[e].on = q /\ desk'[e].state \in Told
                        /\ phase'[q] # "ended" => mail'[q] = <<inTime'[q]>>
      OBVIOUS
    <2>1. CASE q = r
      BY <1>4, <1>9, <1>14, <2>1 DEF Told
    <2>2. CASE q # r
      <3>1. PICK e \in Decider : desk[e].on = q /\ desk[e].state \in Told
        BY <1>7, <1>13, <2>2
      <3>2. e # d
        BY <1>1, <3>1 DEF Told
      <3> QED BY <1>4, <1>7, <1>9, <1>13, <2>2, <3>1, <3>2
    <2> QED BY <2>1, <2>2
  <1> QED BY <1>4, <1>8, <1>13, <1>14, <1>15, <1>16, <1>17 DEF WinInv, Told

LEMMA ReviewWins ==
    ASSUME Base, WinInv, backend = "memory", NEW d \in Decider,
           (\E r \in Request, x \in Decisions : Decide(d, r, x)) \/ OpenWindow(d)
    PROVE  WinInv'
  <1>0. TypeOK
    BY DEF Base
  <1>1. CASE OpenWindow(d)
    <2>1. /\ UNCHANGED <<scene, phase, mail, sender, script, inTime>> /\ desk[d].state = "delivered"
          /\ desk' = [desk EXCEPT ![d] = [desk[d] EXCEPT !.state = "opened"]]
      BY <1>1 DEF OpenWindow, holdVars, storeVars, history
    <2>2. /\ desk'[d].on = desk[d].on /\ desk'[d].state = "opened"
          /\ \A e \in Decider : e # d => desk'[e] = desk[e]
      BY <1>0, <2>1, DeskState
    <2>3. \A e \in Decider : Won(e)' => Won(e) /\ desk'[e].on = desk[e].on
      BY <2>1, <2>2 DEF Won, sending
    <2>4. \A e \in Decider : desk[e].state \in Told => desk'[e].state \in Told /\ desk'[e].on = desk[e].on
      BY <2>2 DEF Told
    <2> QED BY <2>1, <2>3, <2>4, WinKept
  <1>2. ASSUME NEW r \in Request, NEW x \in Decisions, Decide(d, r, x)
        PROVE  WinInv'
    <2>1. UNCHANGED <<scene, phase, mail, sender, inTime>> /\ desk[d].state = "idle"
      BY <1>2 DEF Decide, holdVars, history
    <2>2. PICK v \in {"found", "refused"} :
             /\ desk' = [desk EXCEPT ![d] = [on |-> r, decision |-> x, state |-> v]]
             /\ \/ v = "found" /\ script' = [script EXCEPT ![<<"desk", d>>] = submit_outcome(r, x)]
                \/ v = "refused" /\ script' = script
      BY <1>2 DEF Decide
    <2>3. desk'[d].state = v /\ \A e \in Decider : e # d => desk'[e] = desk[e]
      BY <1>0, <2>2 DEF TypeOK
    <2>4. script[<<"desk", d>>] = <<>>
      BY <2>1 DEF Base, ScriptsOK, DeskScript
    <2>5. /\ script'[<<"desk", d>>] \in {<<>>, submit_outcome(r, x)}
          /\ \A e \in Decider : e # d => script'[<<"desk", e>>] = script[<<"desk", e>>]
      BY <1>0, <2>2, <2>4, Actors DEF TypeOK
    <2>6. ~Won(d)'
      BY <1>0, <2>3, <2>5, DecisionFacts, NotSending DEF Won
    <2>7. \A e \in Decider : Won(e)' => Won(e) /\ desk'[e].on = desk[e].on
      BY <2>3, <2>5, <2>6 DEF Won, sending
    <2>8. \A e \in Decider : desk[e].state \in Told => desk'[e].state \in Told /\ desk'[e].on = desk[e].on
      BY <2>1, <2>3 DEF Told
    <2> QED BY <2>1, <2>7, <2>8, WinKept
  <1> QED BY <1>1, <1>2

\* A request that ends with a decision in its channel ends with that decision.
LEMMA EndReaches ==
    ASSUME Base, WinInv, MemoryDecisionReaches, backend = "memory", NEW r \in Request, Ends(r)
    PROVE  MemoryDecisionReaches'
  <1>0. TypeOK
    BY DEF Base
  <1>1. PICK v \in Verdict : endHold(r, v)
    BY EndFacts
  <1>2. UNCHANGED <<scene, inTime>> /\ phase[r] \in {"opening", "waiting", "served"}
    BY EndFacts DEF history
  <1>3. phase[r] = "waiting"
    BY <1>2 DEF Base, ScriptsOK
  <1>4. inTime[r] # "-" => mail[r] = <<inTime[r]>>
    BY <1>3 DEF WinInv
  <1>5. inTime[r] # "-" => verdict'[r] \in {verdictOf(inTime[r]), "cancelled", "shutdown", "failed"}
    <2> SUFFICES ASSUME inTime[r] # "-"
                 PROVE  verdict'[r] \in {verdictOf(inTime[r]), "cancelled", "shutdown", "failed"}
      OBVIOUS
    <2>1. mail[r] # <<>> /\ Head(mail[r]) = inTime[r]
      BY <1>4, Tuple1
    <2>2. \A w : endHold(r, w) => verdict'[r] = w
      BY <1>0 DEF endHold, TypeOK
    <2>3. CASE Receive(r)
      BY <1>3, <2>1, <2>2, <2>3 DEF Receive
    <2>4. ~TimeOut(r)
      BY <2>1 DEF TimeOut, undecided
    <2>5. CASE Shutdown(r) \/ WaitFails(r)
      BY <2>2, <2>5 DEF Shutdown, WaitFails
    <2> QED BY <2>3, <2>4, <2>5 DEF Ends
  <1>6. \A q \in Request : q # r => phase'[q] = phase[q] /\ verdict'[q] = verdict[q]
    BY <1>0, <1>1 DEF endHold, TypeOK
  <1>7. \A q \in Request : phase'[q] = "ended" /\ inTime'[q] # "-" =>
            verdict'[q] \in {verdictOf(inTime'[q]), "cancelled", "shutdown", "failed"}
    BY <1>2, <1>5, <1>6 DEF MemoryDecisionReaches, DecisionReaches
  <1> QED BY <1>7 DEF MemoryDecisionReaches, DecisionReaches

\* Steps that end no hold that a decision was sent to.
LEMMA ReachesKept ==
    ASSUME MemoryDecisionReaches, backend = "memory",
           \A q \in Request : phase'[q] = "ended" /\ inTime'[q] # "-" =>
              \/ phase[q] = "ended" /\ inTime'[q] = inTime[q] /\ verdict'[q] = verdict[q]
              \/ verdict'[q] = "cancelled"
    PROVE  MemoryDecisionReaches'
  BY DEF MemoryDecisionReaches, DecisionReaches

WinCore == Core /\ WinInv /\ MemoryDecisionReaches

LEMMA WinCoreInit == Init => WinCore
  <1> SUFFICES ASSUME Init PROVE WinCore
    OBVIOUS
  <1>1. MemoryDecisionReaches
    BY DEF Init, MemoryDecisionReaches, DecisionReaches
  <1> QED BY <1>1, CoreInit, WinInit DEF WinCore

LEMMA SceneFixed ==
    ASSUME Base, [Next]_vars
    PROVE  scene' = scene
  <1>1. CASE UNCHANGED vars
    BY <1>1 DEF vars
  <1>2. ASSUME NEW r \in Request, Arrive(r) \/ Claim(r) \/ BeginWait(r) \/ Blpop(r) \/ Cancel(r) \/ Cleanup(r)
        PROVE  scene' = scene
    BY <1>2 DEF Arrive, Claim, BeginWait, Blpop, Cancel, Cleanup
  <1>3. ASSUME NEW r \in Request, Ends(r)
        PROVE  scene' = scene
    BY <1>3, EndFacts
  <1>4. ASSUME NEW a \in Actor, Plain(a) \/ TakeSender(a) \/ Send(a) \/ Push(a) \/ CommandFails(a)
        PROVE  scene' = scene
    BY <1>4, PlainFacts DEF TakeSender, Send, Push, CommandFails
  <1>5. ASSUME NEW d \in Decider, (\E r \in Request, x \in Decisions : Decide(d, r, x)) \/ OpenWindow(d)
        PROVE  scene' = scene
    BY <1>5 DEF Decide, OpenWindow
  <1>6. CASE Aside
    BY <1>6, AsideFacts
  <1> QED BY <1>1, <1>2, <1>3, <1>4, <1>5, <1>6, NextCases DEF Ends

LEMMA WinNext ==
    ASSUME WinCore, [Next]_vars
    PROVE  WinInv' /\ MemoryDecisionReaches'
  <1>0. Base /\ FreshOK /\ WindowInv /\ TypeOK /\ WinInv /\ MemoryDecisionReaches
    BY DEF WinCore, Core, Base
  <1>1. backend' = backend
    BY <1>0, SceneFixed, SameScene
  <1>2. CASE backend # "memory"
    BY <1>1, <1>2 DEF WinInv, MemoryDecisionReaches
  <1>3. CASE backend = "memory"
    <2>1. ASSUME NEW r \in Request, Arrive(r) \/ Claim(r) \/ BeginWait(r) \/ Blpop(r) \/ Cancel(r) \/ Cleanup(r)
          PROVE  WinInv' /\ MemoryDecisionReaches'
      <3>1. inTime' = inTime /\ ~Blpop(r)
        BY <1>0, <1>3, <2>1 DEF Arrive, Claim, BeginWait, Blpop, Cancel, Cleanup, history, Base, ScriptsOK
      <3>2. \A q \in Request : phase'[q] = "ended" /\ inTime'[q] # "-" =>
              \/ phase[q] = "ended" /\ inTime'[q] = inTime[q] /\ verdict'[q] = verdict[q]
              \/ verdict'[q] = "cancelled"
        <4>1. CASE Arrive(r) \/ BeginWait(r)
          BY <1>0, <3>1, <4>1 DEF Arrive, BeginHold, BeginWait, TypeOK
        <4>2. CASE Claim(r)
          <5>1. inTime[r] = "-"
            BY <1>0, <4>2 DEF Claim, FreshOK, Fresh
          <5> QED BY <1>0, <3>1, <4>2, <5>1 DEF Claim, BeginHold, TypeOK
        <4>3. CASE Cancel(r) \/ Cleanup(r)
          BY <1>0, <3>1, <4>3 DEF Cancel, Cleanup, holdVars, TypeOK
        <4> QED BY <2>1, <3>1, <4>1, <4>2, <4>3
      <3> QED BY <1>0, <1>3, <2>1, <3>2, HoldWins, ReachesKept
    <2>2. ASSUME NEW r \in Request, Ends(r)
          PROVE  WinInv' /\ MemoryDecisionReaches'
      BY <1>0, <1>3, <2>2, HoldWins, EndReaches
    <2>3. ASSUME NEW a \in Actor, Plain(a) \/ TakeSender(a)
          PROVE  WinInv' /\ MemoryDecisionReaches'
      <3>1. UNCHANGED <<phase, verdict, inTime>>
        BY <2>3, PlainFacts DEF TakeSender, holdVars, history
      <3> QED BY <1>0, <1>3, <2>3, <3>1, PlainWins, TakeSenderWins, ReachesKept
    <2>4. ASSUME NEW a \in Actor, Send(a)
          PROVE  WinInv' /\ MemoryDecisionReaches'
      <3>1. UNCHANGED <<phase, verdict>>
        BY <2>4 DEF Send, holdVars
      <3> QED BY <1>0, <1>3, <2>4, <3>1, SendWins, ReachesKept
    <2>5. ASSUME NEW a \in Actor, Push(a) \/ CommandFails(a)
          PROVE  FALSE
      BY <1>0, <1>3, <2>5, Deciding DEF Push, CommandFails
    <2>6. ASSUME NEW d \in Decider, (\E r \in Request, x \in Decisions : Decide(d, r, x)) \/ OpenWindow(d)
          PROVE  WinInv' /\ MemoryDecisionReaches'
      <3>1. UNCHANGED <<phase, verdict, inTime>>
        BY <2>6 DEF Decide, OpenWindow, holdVars, history
      <3> QED BY <1>0, <1>3, <2>6, <3>1, ReviewWins, ReachesKept
    <2>7. ASSUME Aside \/ UNCHANGED vars
          PROVE  WinInv' /\ MemoryDecisionReaches'
      <3>1. UNCHANGED <<scene, phase, verdict, mail, sender, script, desk, inTime>>
        BY <2>7, AsideFacts DEF vars, holdVars, storeVars, history
      <3> QED BY <1>0, <1>3, <3>1, WinKeptAside, ReachesKept
    <2> QED BY <2>1, <2>2, <2>3, <2>4, <2>5, <2>6, <2>7, NextCases DEF Ends
  <1> QED BY <1>2, <1>3

LEMMA WinCoreAlways == Spec => []WinCore
  <1>1. WinCore /\ [Next]_vars => WinCore'
    BY CoreNext, WinNext DEF WinCore
  <1> QED BY <1>1, WinCoreInit, PTL DEF Spec

\* However reviewers race, at most one of a request hears "success" from the
\* in-memory store (submit_outcome removes the sender before it sends).
THEOREM OneDecisionHolds == Spec => []OneDecisionWins
  <1>1. WinCore => OneDecisionWins
    BY DEF WinCore, WinInv, Won, OneDecisionWins
  <1> QED BY <1>1, WinCoreAlways, PTL

\* With the in-memory store a decision that was sent while the request was
\* held is what the request ends with, unless the agent left or the gateway
\* stopped: prepare_wait comes before store, and the deadline never beats the
\* channel.
THEOREM DecisionHolds == Spec => []MemoryDecisionReaches
  <1>1. WinCore => MemoryDecisionReaches
    BY DEF WinCore
  <1> QED BY <1>1, WinCoreAlways, PTL

-----------------------------------------------------------------------------
(***************************************************************************)
(* A hold that is over leaves nothing.                                     *)
(***************************************************************************)
\* The whole removal is owed.
LEMMA LeavesAll ==
    ASSUME TypeOK, scene' = scene, FreshOK', NEW r \in Request,
           Drops(r) \subseteq Todo(script'[<<"hold", r>>]) \cup Todo(script'[<<"guard", r>>])
    PROVE  Leaves(r)'
  <1>1. backend \in {"memory", "redis"} /\ backend' = backend
    BY Backends DEF backend
  <1>2. \A s \in Scope : <<s, r>> \in index' => backend = "redis"
    BY <1>1 DEF FreshOK
  <1>3. sender'[r] = "map" => backend = "memory"
    BY <1>1 DEF FreshOK
  <1>4. cmd("dropCard", r, "-") \in Drops(r)
    BY DEF Drops
  <1>5. backend = "memory" => cmd("dropSender", r, "-") \in Drops(r)
    BY DEF Drops
  <1>6. backend = "redis" => /\ cmd("dropMail", r, "-") \in Drops(r)
                             /\ \A s \in Scope : cmd("dropIndex", r, s) \in Drops(r)
    BY DEF Drops, Scope
  <1>7. \A c : Owed(r, c)' = (c \in Todo(script'[<<"hold", r>>]) \cup Todo(script'[<<"guard", r>>]))
    BY DEF Owed, Todo
  <1>8. /\ r \in card' => Owed(r, cmd("dropCard", r, "-"))'
        /\ \A s \in Scope : <<s, r>> \in index' => Owed(r, cmd("dropIndex", r, s))'
        /\ sender'[r] = "map" => Owed(r, cmd("dropSender", r, "-"))'
        /\ backend = "redis" => Owed(r, cmd("dropMail", r, "-"))'
    BY <1>2, <1>3, <1>4, <1>5, <1>6, <1>7 DEF cmd
  <1> QED BY <1>1, <1>8 DEF Leaves

\* Nothing is added to the store, and nothing is taken from the scripts.
LEMMA LeavesGrow ==
    ASSUME NEW q \in Request, Leaves(q), scene' = scene,
           q \in card' => q \in card,
           \A s \in Scope : <<s, q>> \in index' => <<s, q>> \in index,
           sender'[q] = "map" => sender[q] = "map",
           backend = "redis" /\ mail'[q] # <<>> => mail[q] # <<>>,
           Todo(script[<<"hold", q>>]) \subseteq Todo(script'[<<"hold", q>>]),
           Todo(script[<<"guard", q>>]) \subseteq Todo(script'[<<"guard", q>>]),
           backend = "redis" =>
              \A d \in Decider : cmd("dropMail", q, "-") \in Todo(script[<<"desk", d>>]) =>
                                 cmd("dropMail", q, "-") \in Todo(script'[<<"desk", d>>])
    PROVE  Leaves(q)'
  <1>1. backend' = backend
    BY DEF backend
  <1>2. \A c : Owed(q, c) => Owed(q, c)'
    BY DEF Owed
  <1>3. q \in card' => Owed(q, cmd("dropCard", q, "-"))'
    BY <1>2 DEF Leaves
  <1>4. \A s \in Scope : <<s, q>> \in index' => Owed(q, cmd("dropIndex", q, s))'
    BY <1>2 DEF Leaves
  <1>5. sender'[q] = "map" => Owed(q, cmd("dropSender", q, "-"))'
    BY <1>2 DEF Leaves
  <1>6. backend = "redis" /\ mail'[q] # <<>> =>
          \/ Owed(q, cmd("dropMail", q, "-"))'
          \/ \E d \in Decider : cmd("dropMail", q, "-") \in Todo(script'[<<"desk", d>>])
    BY <1>2 DEF Leaves
  <1>7. \A c : Owed(q, c)' = (c \in Todo(script'[<<"hold", q>>]) \cup Todo(script'[<<"guard", q>>]))
    BY DEF Owed, Todo
  <1> QED BY <1>1, <1>3, <1>4, <1>5, <1>6, <1>7 DEF Leaves, Owed, cmd, Todo

\* A command is issued, and what it drops is gone.
LEMMA LeavesIssue ==
    ASSUME Base, NEW q \in Request, Leaves(q), scene' = scene,
           NEW a \in Actor, script[a] # <<>>, issue(a),
           q \in card' => q \in card /\ next(a) # cmd("dropCard", q, "-"),
           \A s \in Scope : <<s, q>> \in index' => <<s, q>> \in index /\ next(a) # cmd("dropIndex", q, s),
           sender'[q] = "map" => sender[q] = "map" /\ next(a) # cmd("dropSender", q, "-"),
           backend = "redis" /\ mail'[q] # <<>> => mail[q] # <<>> /\ next(a) # cmd("dropMail", q, "-")
    PROVE  Leaves(q)'
  <1>1. backend' = backend
    BY DEF backend
  <1>2. \A b \in Actor : \A c : c # next(a) /\ c \in Todo(script[b]) => c \in Todo(script'[b])
    <2>1. script[a] \in Seq(Command)
      BY DEF Base, TypeOK
    <2>2. Todo(script[a]) = {next(a)} \cup Todo(Tail(script[a]))
      BY <2>1, TailTodo DEF next
    <2> QED BY <2>2, IssueType
  <1>3. \A c : c # next(a) /\ Owed(q, c) => Owed(q, c)'
    BY <1>2, Actors DEF Owed
  <1>4. q \in card' => Owed(q, cmd("dropCard", q, "-"))'
    BY <1>3 DEF Leaves
  <1>5. \A s \in Scope : <<s, q>> \in index' => Owed(q, cmd("dropIndex", q, s))'
    BY <1>3 DEF Leaves
  <1>6. sender'[q] = "map" => Owed(q, cmd("dropSender", q, "-"))'
    BY <1>3 DEF Leaves
  <1>7. backend = "redis" /\ mail'[q] # <<>> =>
          \/ Owed(q, cmd("dropMail", q, "-"))'
          \/ \E d \in Decider : cmd("dropMail", q, "-") \in Todo(script'[<<"desk", d>>])
    BY <1>2, <1>3, Actors DEF Leaves
  <1> QED BY <1>1, <1>4, <1>5, <1>6, <1>7 DEF Leaves, Owed, cmd, Todo

LEMMA TakenKept ==
    ASSUME NEW q \in Request, Taken(q), sender'[q] = "taken" => sender[q] = "taken",
           \A d \in Decider : /\ sender'[q] = "taken" /\ desk[d].on = q
                              /\ script[<<"desk", d>>] = sending(q, desk[d].decision)
                              => script'[<<"desk", d>>] = script[<<"desk", d>>] /\ desk'[d] = desk[d]
    PROVE  Taken(q)'
  <1>1. sender'[q] = "taken" =>
           \E d \in Decider : desk'[d].on = q /\ script'[<<"desk", d>>] = sending(q, desk'[d].decision)
    BY DEF Taken
  <1> QED BY <1>1 DEF Taken, sending

LEMMA LeavesInit == Init => LeavesInv
  BY DEF Init, LeavesInv, Taken

LEMMA EndLeaves ==
    ASSUME Base, TypeOK', FreshOK', LeavesInv, NEW r \in Request, NEW v, endHold(r, v), scene' = scene, desk' = desk,
           UNCHANGED <<index, sender, mail>>, loose \subseteq loose',
           card' = card \/ r \in loose',
           \A q \in Request : q # r => (q \in card' => q \in card)
    PROVE  LeavesInv'
  <1>0. TypeOK
    BY DEF Base
  <1>1. /\ script'[<<"hold", r>>] = remove(r) /\ script'[<<"guard", r>>] = script[<<"guard", r>>]
        /\ \A b \in Actor : b # <<"hold", r>> => script'[b] = script[b]
        /\ \A q \in Request : q # r => phase'[q] = phase[q]
    BY <1>0, Actors DEF endHold, TypeOK
  <1>2. Leaves(r)'
    <2>1. Todo(remove(r)) = Drops(r)
      BY <1>0, RemoveFacts
    <2>2. Drops(r) \subseteq Todo(script'[<<"hold", r>>]) \cup Todo(script'[<<"guard", r>>])
      BY <1>1, <2>1
    <2> QED BY <1>0, <2>2, LeavesAll
  <1>3. ASSUME NEW q \in Request, q # r, phase'[q] = "ended", q \notin loose'
        PROVE  Leaves(q)'
    <2>1. Leaves(q)
      BY <1>1, <1>3 DEF LeavesInv
    <2>2. /\ script'[<<"hold", q>>] = script[<<"hold", q>>] /\ script'[<<"guard", q>>] = script[<<"guard", q>>]
          /\ \A d \in Decider : script'[<<"desk", d>>] = script[<<"desk", d>>]
      BY <1>1, <1>3, Actors
    <2> QED BY <1>3, <2>1, <2>2, LeavesGrow
  <1>4. \A q \in Request : Taken(q)'
    <2>1. \A d \in Decider : script'[<<"desk", d>>] = script[<<"desk", d>>]
      BY <1>1, Actors
    <2> QED BY <2>1, TakenKept DEF LeavesInv
  <1> QED BY <1>2, <1>3, <1>4 DEF LeavesInv

\* Steps of a hold that do not end it, and those of nobody.
LEMMA LeavesKept ==
    ASSUME Base, LeavesInv, scene' = scene, desk' = desk, index' = index, loose' = loose,
           \A q \in Request : phase'[q] = "ended" =>
              /\ phase[q] = "ended" /\ (q \in card' => q \in card)
              /\ sender'[q] = sender[q] /\ mail'[q] = mail[q]
              /\ script'[<<"hold", q>>] = script[<<"hold", q>>]
              /\ script'[<<"guard", q>>] = script[<<"guard", q>>],
           \A q \in Request : sender'[q] = "taken" => sender[q] = "taken",
           \A d \in Decider : script'[<<"desk", d>>] = script[<<"desk", d>>]
    PROVE  LeavesInv'
  <1>1. ASSUME NEW q \in Request, phase'[q] = "ended", q \notin loose'
        PROVE  Leaves(q)'
    <2>1. /\ Leaves(q) /\ (q \in card' => q \in card)
          /\ sender'[q] = sender[q] /\ mail'[q] = mail[q]
          /\ script'[<<"hold", q>>] = script[<<"hold", q>>]
          /\ script'[<<"guard", q>>] = script[<<"guard", q>>]
      BY <1>1 DEF LeavesInv
    <2> QED BY <2>1, LeavesGrow
  <1>2. \A q \in Request : Taken(q)'
    BY TakenKept DEF LeavesInv
  <1> QED BY <1>1, <1>2 DEF LeavesInv

LEMMA HoldLeaves ==
    ASSUME Base, FreshOK, TypeOK', FreshOK', LeavesInv, NEW r \in Request,
           Arrive(r) \/ Claim(r) \/ BeginWait(r) \/ Blpop(r) \/ Ends(r) \/ Cancel(r) \/ Cleanup(r)
    PROVE  LeavesInv'
  <1>0. TypeOK
    BY DEF Base
  <1>1. CASE Arrive(r) \/ (Claim(r) /\ phase' # [phase EXCEPT ![r] = "ended"])
    <2>1. /\ UNCHANGED <<scene, card, index, mail, desk, loose>>
          /\ phase[r] \in Fresh
      BY <1>1 DEF Arrive, Claim, Fresh, history
    <2>2. \A q \in Request : phase'[q] = "ended" => q # r /\ phase[q] = "ended"
      <3>1. phase \in [Request -> Phases]
        BY <1>0 DEF TypeOK, Phases
      <3>2. phase' = [phase EXCEPT ![r] = "claiming"] \/ phase' = [phase EXCEPT ![r] = "storing"]
        BY <1>1 DEF Arrive, Claim, BeginHold
      <3> QED BY <3>1, <3>2
    <2>a. BeginHold(r) \/ UNCHANGED <<sender, script>>
      BY <1>1 DEF Arrive, Claim
    <2>3. \A q \in Request : q # r => /\ sender'[q] = sender[q]
                                      /\ script'[<<"hold", q>>] = script[<<"hold", q>>]
      <3>1. CASE BeginHold(r)
        <4>1. \A q \in Request : q # r => sender'[q] = sender[q]
          BY <1>0, <3>1 DEF BeginHold, prepare_wait, TypeOK
        <4>2. \A q \in Request : q # r => script'[<<"hold", q>>] = script[<<"hold", q>>]
          BY <1>0, <3>1, Actors DEF BeginHold, TypeOK
        <4> QED BY <4>1, <4>2
      <3>2. CASE UNCHANGED <<sender, script>>
        BY <3>2
      <3> QED BY <2>a, <3>1, <3>2
    <2>4. sender'[r] \in {"map", sender[r]}
      BY <1>0, <1>1 DEF Arrive, Claim, BeginHold, prepare_wait, TypeOK
    <2>5. /\ \A q \in Request : script'[<<"guard", q>>] = script[<<"guard", q>>]
          /\ \A d \in Decider : script'[<<"desk", d>>] = script[<<"desk", d>>]
      BY ZenonT(40), <1>0, <2>a, Actors DEF BeginHold, TypeOK
    <2> QED BY <2>1, <2>2, <2>3, <2>4, <2>5, LeavesKept
  <1>2. CASE Claim(r) /\ phase' = [phase EXCEPT ![r] = "ended"]
    <2>1. /\ UNCHANGED <<scene, card, index, mail, desk, loose>>
          /\ phase[r] \in Fresh /\ UNCHANGED <<sender, script>>
      BY <1>0, <1>2 DEF Claim, BeginHold, Fresh, history, TypeOK
    <2>2. Leaves(r)'
      <3>1. r \notin card' /\ mail'[r] = <<>> /\ sender'[r] = "absent" /\ \A s \in Scope : <<s, r>> \notin index'
        BY <2>1 DEF FreshOK
      <3> QED BY <3>1 DEF Leaves
    <2>3. ASSUME NEW q \in Request, q # r, phase'[q] = "ended", q \notin loose'
          PROVE  Leaves(q)'
      <3>1. Leaves(q)
        BY <1>0, <1>2, <2>1, <2>3 DEF LeavesInv, TypeOK
      <3> QED BY <2>1, <3>1, LeavesGrow
    <2>4. \A q \in Request : Taken(q)'
      BY <2>1, TakenKept DEF LeavesInv
    <2> QED BY <2>2, <2>3, <2>4 DEF LeavesInv
  <1>3. CASE BeginWait(r)
    <2>1. UNCHANGED <<scene, card, index, sender, mail, script, desk, loose>>
      BY <1>3 DEF BeginWait, storeVars, history
    <2>2. \A q \in Request : phase'[q] = "ended" => phase[q] = "ended"
      BY <1>0, <1>3 DEF BeginWait, TypeOK
    <2> QED BY <2>1, <2>2, LeavesKept
  <1>4. CASE Blpop(r)
    <2>1. UNCHANGED <<scene, card, index, sender, script, desk, loose>>
      BY <1>4 DEF Blpop, history
    <2>2. \A q \in Request : phase'[q] = "ended" => phase[q] = "ended" /\ mail'[q] = mail[q]
      <3>1. phase'[r] # "ended"
        BY <1>0, <1>4 DEF Blpop, TypeOK
      <3>2. \A q \in Request : q # r => phase'[q] = phase[q] /\ mail'[q] = mail[q]
        BY <1>0, <1>4 DEF Blpop, TypeOK
      <3> QED BY <3>1, <3>2
    <2> QED BY <2>1, <2>2, LeavesKept
  <1>5. CASE Ends(r)
    <2>1. PICK v \in Verdict : endHold(r, v)
      BY <1>5, EndFacts
    <2>2. UNCHANGED <<scene, desk, card, index, sender, mail, loose>>
      BY <1>5, EndFacts DEF storeVars, history
    <2> QED BY <2>1, <2>2, EndLeaves
  <1>6. CASE Cancel(r)
    <2>1. UNCHANGED <<scene, card, index, sender, mail, desk>> /\ loose \subseteq loose'
      BY <1>6 DEF Cancel, storeVars
    <2>2. phase[r] = "ended" => r \in loose'
      BY <1>6 DEF Cancel
    <2>3. /\ \A q \in Request : q # r => phase'[q] = phase[q]
          /\ \A b \in Actor : b \notin {<<"hold", r>>, <<"guard", r>>} => script'[b] = script[b]
          /\ phase[r] # "ended" => script'[<<"guard", r>>] = remove(r)
      <3>1. phase[r] \in guarded \/ phase[r] = "ended"
        BY <1>6 DEF Cancel, guarded
      <3> QED BY <1>0, <1>6, <3>1, Actors DEF Cancel, TypeOK
    <2>4. phase[r] # "ended" => Leaves(r)'
      <3> SUFFICES ASSUME phase[r] # "ended" PROVE Leaves(r)'
        OBVIOUS
      <3>1. Todo(remove(r)) = Drops(r)
        BY <1>0, RemoveFacts
      <3>2. Drops(r) \subseteq Todo(script'[<<"hold", r>>]) \cup Todo(script'[<<"guard", r>>])
        BY <2>3, <3>1
      <3> QED BY <1>0, <2>1, <3>2, LeavesAll
    <2>5. ASSUME NEW q \in Request, q # r, phase'[q] = "ended", q \notin loose'
          PROVE  Leaves(q)'
      <3>1. Leaves(q)
        BY <2>1, <2>3, <2>5 DEF LeavesInv
      <3>2. /\ script'[<<"hold", q>>] = script[<<"hold", q>>] /\ script'[<<"guard", q>>] = script[<<"guard", q>>]
            /\ \A d \in Decider : script'[<<"desk", d>>] = script[<<"desk", d>>]
        BY <2>3, <2>5, Actors
      <3> QED BY <2>1, <3>1, <3>2, LeavesGrow
    <2>6. \A q \in Request : Taken(q)'
      <3>1. \A d \in Decider : script'[<<"desk", d>>] = script[<<"desk", d>>]
        BY <2>3, Actors
      <3> QED BY <2>1, <3>1, TakenKept DEF LeavesInv
    <2> QED BY <2>2, <2>4, <2>5, <2>6 DEF LeavesInv
  <1>7. CASE Cleanup(r)
    <2>1. UNCHANGED <<scene, phase, card, index, sender, mail, desk, loose>>
      BY <1>7 DEF Cleanup, holdVars, storeVars, history
    <2>2. /\ \A q \in Request : /\ script'[<<"hold", q>>] = script[<<"hold", q>>]
                                /\ script'[<<"guard", q>>] = script[<<"guard", q>>]
          /\ \A d \in Decider : script'[<<"desk", d>>] = script[<<"desk", d>>]
      BY <1>0, <1>7, Actors DEF Cleanup, TypeOK
    <2> QED BY <2>1, <2>2, LeavesKept
  <1> QED BY <1>1, <1>2, <1>3, <1>4, <1>5, <1>6, <1>7

LEMMA PlainLeaves ==
    ASSUME Base, LeavesInv, NEW a \in Actor, Plain(a)
    PROVE  LeavesInv'
  <1>0. TypeOK
    BY DEF Base
  <1>1. /\ script[a] # <<>> /\ issue(a) /\ next(a).op \notin {"takeSender", "send", "push"}
        /\ UNCHANGED <<scene, phase, desk, loose>>
    BY PlainFacts DEF holdVars, history
  <1>2. next(a).op \in {"setCard", "addIndex"} => phase[next(a).on] = "storing"
    <2> SUFFICES ASSUME next(a).op \in {"setCard", "addIndex"}
                 PROVE  phase[next(a).on] = "storing"
      OBVIOUS
    <2>1. ~IsDrop(next(a))
      BY Commands DEF IsDrop
    <2> QED BY <1>1, <2>1, Issued, Commands
  <1>3. ASSUME NEW q \in Request, phase'[q] = "ended", q \notin loose'
        PROVE  Leaves(q)'
    <2>1. Leaves(q) /\ phase[q] = "ended"
      BY <1>1, <1>3 DEF LeavesInv
    <2>2. q \in card' => q \in card /\ next(a) # cmd("dropCard", q, "-")
      <3>1. CASE SetCard(a)
        BY <1>2, <2>1, <3>1, Commands DEF SetCard, issues
      <3>2. CASE DropCard(a)
        BY <3>2, Commands DEF DropCard
      <3>3. CASE ~SetCard(a) /\ ~DropCard(a)
        BY <3>3, Commands DEF Plain, AddIndex, Publish, DropIndex, DropMail, DropSender, storeVars, issues
      <3> QED BY <3>1, <3>2, <3>3
    <2>3. \A s \in Scope : <<s, q>> \in index' => <<s, q>> \in index /\ next(a) # cmd("dropIndex", q, s)
      <3>1. CASE AddIndex(a)
        BY <1>2, <2>1, <3>1, Commands DEF AddIndex, issues
      <3>2. CASE DropIndex(a)
        BY <3>2, Commands DEF DropIndex
      <3>3. CASE ~AddIndex(a) /\ ~DropIndex(a)
        BY <3>3, Commands DEF Plain, SetCard, Publish, DropCard, DropMail, DropSender, storeVars, issues
      <3> QED BY <3>1, <3>2, <3>3
    <2>4. sender'[q] = "map" => sender[q] = "map" /\ next(a) # cmd("dropSender", q, "-")
      <3>1. CASE DropSender(a)
        BY <1>0, <3>1, Commands DEF DropSender, TypeOK
      <3>2. CASE ~DropSender(a)
        BY <3>2, Commands DEF Plain, SetCard, AddIndex, Publish, DropIndex, DropCard, DropMail, storeVars, issues
      <3> QED BY <3>1, <3>2
    <2>5. mail'[q] # <<>> => mail[q] # <<>> /\ next(a) # cmd("dropMail", q, "-")
      <3>1. CASE DropMail(a)
        BY <1>0, <3>1, Commands DEF DropMail, TypeOK
      <3>2. CASE ~DropMail(a)
        BY <3>2, Commands DEF Plain, SetCard, AddIndex, Publish, DropIndex, DropCard, DropSender, storeVars, issues
      <3> QED BY <3>1, <3>2
    <2> QED BY <1>1, <2>1, <2>2, <2>3, <2>4, <2>5, LeavesIssue
  <1>4. \A q \in Request : Taken(q)'
    <2>1. \A q \in Request : sender'[q] = "taken" => sender[q] = "taken"
      <3>1. CASE DropSender(a)
        BY <1>0, <3>1 DEF DropSender, TypeOK
      <3>2. CASE ~DropSender(a)
        BY <3>2 DEF Plain, SetCard, AddIndex, Publish, DropIndex, DropCard, DropMail, storeVars
      <3> QED BY <3>1, <3>2
    <2>2. ASSUME NEW q \in Request, NEW d \in Decider, script[<<"desk", d>>] = sending(q, desk[d].decision)
          PROVE  script'[<<"desk", d>>] = script[<<"desk", d>>]
      <3>1. Head(sending(q, desk[d].decision)) = cmd("send", q, desk[d].decision)
        BY Tuple2 DEF sending
      <3>2. a # <<"desk", d>>
        BY <1>1, <2>2, <3>1, Commands DEF next
      <3> QED BY <1>1, <3>2, IssueType, Actors
    <2> QED BY <1>1, <2>1, <2>2, TakenKept DEF LeavesInv
  <1> QED BY <1>3, <1>4 DEF LeavesInv

LEMMA MemoryLeaves ==
    ASSUME Base, LeavesInv, NEW a \in Actor, TakeSender(a) \/ Send(a)
    PROVE  LeavesInv'
  <1>0. TypeOK
    BY DEF Base
  <1>1. PICK d \in Decider :
             /\ a = <<"desk", d>> /\ a[2] = d
             /\ desk[d].on \in Request /\ desk[d].decision \in Decisions /\ desk[d].state = "found"
             /\ next(a).on = desk[d].on /\ next(a).with = desk[d].decision
             /\ backend = "memory"
    BY Deciding DEF TakeSender, Send
  <1>2. PICK r \in Request : r = desk[d].on
    BY <1>1
  <1>3. UNCHANGED <<scene, phase, card, index, loose>>
    BY DEF TakeSender, Send, holdVars, history
  <1>4. /\ \A q \in Request : /\ script'[<<"hold", q>>] = script[<<"hold", q>>]
                              /\ script'[<<"guard", q>>] = script[<<"guard", q>>]
        /\ \A e \in Decider : e # d => script'[<<"desk", e>>] = script[<<"desk", e>>]
    BY ZenonT(40), <1>0, <1>1, Actors DEF TakeSender, Send, issue, TypeOK
  <1>5. \A e \in Decider : e # d => desk'[e] = desk[e]
    BY <1>0, <1>1 DEF TakeSender, Send, deliver, TypeOK
  <1>6. \A q \in Request : /\ sender'[q] = "map" => sender[q] = "map"
                           /\ q # r => sender'[q] = sender[q]
    <2>1. CASE TakeSender(a)
      BY ZenonT(40), <1>0, <1>1, <1>2, <2>1 DEF TakeSender, afterTake, TypeOK
    <2>2. CASE Send(a)
      BY <1>0, <1>1, <1>2, <2>2 DEF Send, TypeOK
    <2> QED BY <2>1, <2>2
  <1>7. ASSUME NEW q \in Request, phase'[q] = "ended", q \notin loose'
        PROVE  Leaves(q)'
    <2>1. Leaves(q)
      BY <1>3, <1>7 DEF LeavesInv
    <2> QED BY <1>1, <1>3, <1>4, <1>6, <2>1, LeavesGrow
  <1>8. ASSUME NEW q \in Request, q # r
        PROVE  Taken(q)'
    <2>1. Taken(q)
      BY DEF LeavesInv
    <2> QED BY <1>2, <1>4, <1>5, <1>6, <1>8, <2>1, TakenKept
  <1>9. Taken(r)'
    <2>1. CASE Send(a)
      <3>1. sender'[r] # "taken"
        BY <1>0, <1>1, <1>2, <2>1 DEF Send, TypeOK
      <3> QED BY <3>1 DEF Taken
    <2>2. CASE TakeSender(a) /\ sender[r] = "map"
      <3>1. /\ script' = [script EXCEPT ![a] = sending(r, desk[d].decision)]
            /\ desk' = desk
        BY <1>1, <1>2, <2>2 DEF TakeSender, sending
      <3>2. script'[<<"desk", d>>] = sending(r, desk'[d].decision)
        BY <1>0, <1>1, <3>1 DEF TypeOK
      <3> QED BY <1>2, <3>1, <3>2 DEF Taken, sending
    <2>3. CASE TakeSender(a) /\ sender[r] # "map"
      <3>1. sender' = sender /\ script[a] = submit_outcome(r, desk[d].decision)
        <4>1. next(a).op = "takeSender" /\ script[a] # <<>>
          BY <2>3 DEF TakeSender, issues
        <4>2. ~IsDrop(next(a))
          BY <4>1, Commands DEF IsDrop
        <4>3. script[a] = submit_outcome(r, desk[d].decision)
          <5>1. PICK e \in Decider : a = <<"desk", e>> /\ script[a] \in {submit_outcome(desk[e].on, desk[e].decision)}
            BY <4>1, <4>2, Issued, Commands
          <5>2. e = d
            BY <1>1, <5>1
          <5> QED BY <1>2, <5>1, <5>2
        <4> QED BY <1>1, <1>2, <2>3, <4>3 DEF TakeSender
      <3>2. script[a] = <<cmd("takeSender", r, desk[d].decision)>>
        BY <1>0, <1>1, <1>2, <3>1, DecisionFacts
      <3>3. \A e \in Decider : script[<<"desk", e>>] = sending(r, desk[e].decision) => e # d
        BY <1>1, <3>2, NotSending
      <3>4. Taken(r)
        BY DEF LeavesInv
      <3> QED BY <1>4, <1>5, <3>1, <3>3, <3>4, TakenKept
    <2> QED BY <2>1, <2>2, <2>3
  <1> QED BY <1>7, <1>8, <1>9 DEF LeavesInv

\* The decision's own removal follows what it pushed.
LEMMA PushLeaves ==
    ASSUME Base, FreshOK, LeavesInv, NEW a \in Actor, Push(a)
    PROVE  LeavesInv'
  <1>0. TypeOK
    BY DEF Base
  <1>1. PICK d \in Decider :
             /\ a = <<"desk", d>>
             /\ desk[d].on \in Request /\ desk[d].decision \in Decisions
             /\ next(a) = cmd("push", desk[d].on, desk[d].decision)
             /\ next(a).on = desk[d].on /\ next(a).with = desk[d].decision
             /\ backend = "redis"
    BY Deciding DEF Push
  <1>2. PICK r \in Request : r = desk[d].on
    BY <1>1
  <1>3. UNCHANGED <<scene, card, index, sender, loose>> /\ script[a] # <<>> /\ issue(a)
    BY DEF Push, issues
  <1>4. /\ \A q \in Request : q # r => phase'[q] = phase[q] /\ mail'[q] = mail[q]
        /\ phase'[r] = "ended" => phase[r] = "ended"
    BY ZenonT(40), <1>0, <1>1, <1>2 DEF Push, lpush, TypeOK
  <1>5. \A q \in Request : sender[q] = "absent"
    BY <1>1 DEF FreshOK
  <1>6. \A q \in Request : Taken(q)'
    BY <1>3, <1>5 DEF Taken
  <1>7. ASSUME NEW q \in Request, q # r, phase'[q] = "ended", q \notin loose'
        PROVE  Leaves(q)'
    <2>1. Leaves(q)
      BY <1>3, <1>4, <1>7 DEF LeavesInv
    <2>2. /\ next(a) # cmd("dropCard", q, "-") /\ next(a) # cmd("dropSender", q, "-")
          /\ next(a) # cmd("dropMail", q, "-") /\ \A s : next(a) # cmd("dropIndex", q, s)
      BY <1>1, Commands
    <2> QED BY <1>3, <1>4, <1>7, <2>1, <2>2, LeavesIssue
  <1>8. ASSUME phase'[r] = "ended", r \notin loose'
        PROVE  Leaves(r)'
    <2>1. Leaves(r)
      BY <1>3, <1>4, <1>8 DEF LeavesInv
    <2>2. \A q \in Request : /\ script'[<<"hold", q>>] = script[<<"hold", q>>]
                             /\ script'[<<"guard", q>>] = script[<<"guard", q>>]
      BY <1>1, <1>3, IssueType, Actors
    <2>3. cmd("dropMail", r, "-") \in Todo(script'[<<"desk", d>>])
      <3>1. script[a] = submit_outcome(r, desk[d].decision)
        <4>1. ~IsDrop(next(a)) /\ next(a).op = "push"
          BY <1>1, Commands DEF IsDrop
        <4>2. PICK e \in Decider : a = <<"desk", e>> /\ script[a] \in {submit_outcome(desk[e].on, desk[e].decision)}
          BY <1>3, <4>1, Issued, Commands
        <4>3. e = d
          BY <1>1, <4>2
        <4> QED BY <1>2, <4>2, <4>3
      <3>a. script'[a] = Tail(script[a])
        BY <1>3, IssueType
      <3>b. Tail(submit_outcome(r, desk[d].decision)) = remove(r)
        BY <1>0, <1>1, <1>2, DecisionFacts
      <3>2. script'[<<"desk", d>>] = remove(r)
        BY <1>1, <3>1, <3>a, <3>b
      <3>3. cmd("dropMail", r, "-") \in Drops(r)
        BY <1>1 DEF Drops
      <3> QED BY <1>0, <3>2, <3>3, RemoveFacts
    <2>4. \A c : Owed(r, c)' = Owed(r, c)
      BY <2>2 DEF Owed
    <2> QED BY <1>3, <2>1, <2>3, <2>4 DEF Leaves, cmd
  <1> QED BY <1>6, <1>7, <1>8 DEF LeavesInv

LEMMA FailsLeaves ==
    ASSUME Base, FreshOK, FreshOK', TypeOK', LeavesInv, NEW a \in Actor, CommandFails(a)
    PROVE  LeavesInv'
  <1>0. TypeOK
    BY DEF Base
  <1>1. /\ scene' = scene /\ script[a] # <<>> /\ next(a).on \in Request /\ backend = "redis"
        /\ UNCHANGED <<index, sender>> /\ loose' = loose \cup {next(a).on}
    BY Issued DEF CommandFails, Command
  <1>2. PICK r \in Request : r = next(a).on
    BY <1>1
  <1>3. \A q \in Request : Taken(q)'
    BY <1>1 DEF Taken, FreshOK
  <1>4. CASE next(a).op = "setCard"
    <2>1. /\ endHold(r, "unavailable") /\ mail' = mail /\ desk' = desk
          /\ \A q \in Request : q # r => (q \in card' => q \in card)
      BY <1>2, <1>4 DEF CommandFails
    <2> QED BY <1>1, <1>2, <2>1, EndLeaves
  <1>5. CASE next(a).op = "push"
    <2>1. PICK d \in Decider :
             /\ a = <<"desk", d>> /\ desk[d].on = r /\ desk[d].decision \in Decisions
             /\ next(a).with = desk[d].decision
      BY <1>1, <1>2, <1>5, Deciding DEF issues
    <2>2. /\ \A q \in Request : q # r => phase'[q] = phase[q] /\ mail'[q] = mail[q]
          /\ card' = card
      <3>1. card' = card /\ (lpush(r, next(a).with) \/ UNCHANGED <<phase, verdict, mail>>)
        BY <1>2, <1>5 DEF CommandFails
      <3> QED BY <1>0, <3>1 DEF lpush, TypeOK
    <2>3. script' = [script EXCEPT ![<<"desk", d>>] = <<>>]
      BY <1>5, <2>1 DEF CommandFails
    <2>4. /\ \A q \in Request : /\ script'[<<"hold", q>>] = script[<<"hold", q>>]
                                /\ script'[<<"guard", q>>] = script[<<"guard", q>>]
          /\ \A e \in Decider : e # d => script'[<<"desk", e>>] = script[<<"desk", e>>]
      BY <1>0, <2>3, Actors DEF TypeOK
    <2>5. \A c \in Todo(script[<<"desk", d>>]) : c.on = r
      <3>1. script[a] = submit_outcome(r, desk[d].decision)
        <4>1. ~IsDrop(next(a))
          BY <1>5, Commands DEF IsDrop
        <4>2. PICK e \in Decider : a = <<"desk", e>> /\ script[a] \in {submit_outcome(desk[e].on, desk[e].decision)}
          BY <1>1, <1>5, <4>1, Issued, Commands
        <4>3. e = d
          BY <2>1, <4>2
        <4> QED BY <2>1, <4>2, <4>3
      <3>2. script[a] \in Seq(Command)
        BY <1>0 DEF TypeOK
      <3>3. Head(script[a]) = next(a) /\ Tail(script[a]) = remove(r)
        BY <1>0, <1>1, <2>1, <3>1, DecisionFacts DEF next
      <3>4. Todo(script[a]) = {next(a)} \cup Drops(r)
        BY <1>0, <1>1, <3>2, <3>3, TailTodo, RemoveFacts
      <3> QED BY <1>0, <1>2, <2>1, <3>4, DropFacts
    <2>6. ASSUME NEW q \in Request, phase'[q] = "ended", q \notin loose'
          PROVE  Leaves(q)'
      <3>1. q # r /\ Leaves(q)
        BY <1>1, <1>2, <2>2, <2>6 DEF LeavesInv
      <3>2. \A e \in Decider : cmd("dropMail", q, "-") \in Todo(script[<<"desk", e>>]) =>
                               cmd("dropMail", q, "-") \in Todo(script'[<<"desk", e>>])
        BY <2>4, <2>5, <3>1, Commands
      <3> QED BY <1>1, <2>2, <2>4, <3>1, <3>2, LeavesGrow
    <2> QED BY <1>3, <2>6 DEF LeavesInv
  <1>6. CASE next(a).op \notin {"setCard", "push"}
    <2>1. issue(a) /\ UNCHANGED <<card, mail, phase>>
      BY <1>6 DEF CommandFails
    <2>2. ASSUME NEW q \in Request, phase'[q] = "ended", q \notin loose'
          PROVE  Leaves(q)'
      <3>1. q # r /\ Leaves(q)
        BY <1>1, <1>2, <2>1, <2>2 DEF LeavesInv
      <3>2. /\ next(a) # cmd("dropCard", q, "-") /\ next(a) # cmd("dropSender", q, "-")
            /\ next(a) # cmd("dropMail", q, "-") /\ \A s : next(a) # cmd("dropIndex", q, s)
        BY <1>2, <3>1, Commands
      <3> QED BY <1>1, <2>1, <3>1, <3>2, LeavesIssue
    <2> QED BY <1>3, <2>2 DEF LeavesInv
  <1> QED BY <1>4, <1>5, <1>6

LEMMA ReviewLeaves ==
    ASSUME Base, LeavesInv, NEW d \in Decider,
           (\E r \in Request, x \in Decisions : Decide(d, r, x)) \/ OpenWindow(d)
    PROVE  LeavesInv'
  <1>0. TypeOK
    BY DEF Base
  <1>1. /\ UNCHANGED <<scene, phase, index, sender, mail, loose>> /\ card' \subseteq card
        /\ script[<<"desk", d>>] = <<>>
    BY DEF Decide, OpenWindow, holdVars, storeVars, history, Base, ScriptsOK, DeskScript
  <1>2. /\ \A q \in Request : /\ script'[<<"hold", q>>] = script[<<"hold", q>>]
                              /\ script'[<<"guard", q>>] = script[<<"guard", q>>]
        /\ \A e \in Decider : e # d => script'[<<"desk", e>>] = script[<<"desk", e>>]
    <2>1. \/ script' = script
          \/ \E s : script' = [script EXCEPT ![<<"desk", d>>] = s]
      BY DEF Decide, OpenWindow
    <2> QED BY <1>0, <2>1, Actors DEF TypeOK
  <1>3. \A e \in Decider : e # d => desk'[e] = desk[e]
    BY ZenonT(40), <1>0 DEF Decide, OpenWindow, TypeOK
  <1>4. Todo(script[<<"desk", d>>]) = {}
    BY <1>1 DEF Todo
  <1>5. ASSUME NEW q \in Request, phase'[q] = "ended", q \notin loose'
        PROVE  Leaves(q)'
    <2>1. Leaves(q)
      BY <1>1, <1>5 DEF LeavesInv
    <2>2. \A e \in Decider : cmd("dropMail", q, "-") \in Todo(script[<<"desk", e>>]) =>
                             cmd("dropMail", q, "-") \in Todo(script'[<<"desk", e>>])
      BY <1>2, <1>4
    <2> QED BY <1>1, <1>2, <2>1, <2>2, LeavesGrow
  <1>6. ASSUME NEW q \in Request
        PROVE  Taken(q)'
    <2>1. Taken(q)
      BY DEF LeavesInv
    <2>2. \A e \in Decider : script[<<"desk", e>>] = sending(q, desk[e].decision) => e # d
      BY <1>1, NotSending
    <2> QED BY <1>1, <1>2, <1>3, <2>1, <2>2, TakenKept
  <1> QED BY <1>5, <1>6 DEF LeavesInv

LEMMA LeavesNext ==
    ASSUME Core, LeavesInv, [Next]_vars
    PROVE  LeavesInv'
  <1>0. Base /\ FreshOK /\ TypeOK /\ TypeOK' /\ FreshOK'
    BY CoreNext DEF Core, Base
  <1>1. ASSUME NEW r \in Request,
               Arrive(r) \/ Claim(r) \/ BeginWait(r) \/ Blpop(r) \/ Ends(r) \/ Cancel(r) \/ Cleanup(r)
        PROVE  LeavesInv'
    BY <1>0, <1>1, HoldLeaves
  <1>2. ASSUME NEW a \in Actor, Plain(a) \/ TakeSender(a) \/ Send(a)
        PROVE  LeavesInv'
    BY <1>0, <1>2, PlainLeaves, MemoryLeaves
  <1>3. ASSUME NEW a \in Actor, Push(a)
        PROVE  LeavesInv'
    BY <1>0, <1>3, PushLeaves
  <1>4. ASSUME NEW a \in Actor, CommandFails(a)
        PROVE  LeavesInv'
    BY <1>0, <1>4, FailsLeaves
  <1>5. ASSUME NEW d \in Decider, (\E r \in Request, x \in Decisions : Decide(d, r, x)) \/ OpenWindow(d)
        PROVE  LeavesInv'
    BY <1>0, <1>5, ReviewLeaves
  <1>6. ASSUME Aside \/ UNCHANGED vars
        PROVE  LeavesInv'
    <2>1. UNCHANGED <<scene, phase, card, index, sender, mail, script, desk, loose>>
      BY <1>6, AsideFacts DEF vars, holdVars, storeVars, history
    <2> QED BY <1>0, <2>1, LeavesKept
  <1> QED BY <1>1, <1>2, <1>3, <1>4, <1>5, <1>6, NextCases DEF Ends

LEMMA LeavesAlways == Spec => [](Core /\ LeavesInv)
  <1>1. Init => Core /\ LeavesInv
    BY CoreInit, LeavesInit
  <1>2. Core /\ LeavesInv /\ [Next]_vars => (Core /\ LeavesInv)'
    BY CoreNext, LeavesNext
  <1> QED BY <1>1, <1>2, PTL DEF Spec

\* However a hold ends (a decision, its deadline, a shutdown, a failed wait, an
\* agent that leaves at any point of it), once every actor has issued what it
\* has to, nothing of it is left in either store, unless a command failed or
\* the removal itself was cut short (the PendingGuard and hold's last step).
THEOREM LeavesHolds == Spec => []HoldLeavesNothing
  <1>1. Core /\ LeavesInv => HoldLeavesNothing
    <2> SUFFICES ASSUME Core, LeavesInv, NEW r \in Request, phase[r] = "ended", ~touched(r), r \notin loose
                 PROVE  /\ r \notin card
                        /\ \A s \in Scope : <<s, r>> \notin index
                        /\ sender[r] = "absent"
                        /\ backend = "redis" => mail[r] = <<>>
      BY DEF HoldLeavesNothing
    <2>1. \A a \in Actor : \A c \in Todo(script[a]) : c.on # r
      BY DEF touched, Todo
    <2>2. \A op, x : /\ ~Owed(r, cmd(op, r, x))
                     /\ \A d \in Decider : cmd(op, r, x) \notin Todo(script[<<"desk", d>>])
      <3>1. \A op, x : cmd(op, r, x).on = r
        BY Commands
      <3>2. \A op, x : \A a \in Actor : cmd(op, r, x) \notin Todo(script[a])
        BY <2>1, <3>1
      <3>3. <<"hold", r>> \in Actor /\ <<"guard", r>> \in Actor /\ \A d \in Decider : <<"desk", d>> \in Actor
        BY Actors
      <3> QED BY <3>2, <3>3 DEF Owed
    <2>3. Leaves(r) /\ Taken(r)
      BY DEF LeavesInv
    <2>4. sender[r] # "taken"
      <3> SUFFICES ASSUME sender[r] = "taken" PROVE FALSE
        OBVIOUS
      <3>1. PICK d \in Decider : script[<<"desk", d>>] = sending(r, desk[d].decision)
        BY <2>3 DEF Taken
      <3>2. cmd("send", r, desk[d].decision) \in Todo(sending(r, desk[d].decision))
        BY ZenonT(40), Tuple2 DEF sending
      <3> QED BY <2>2, <3>1, <3>2
    <2>5. sender[r] \in {"absent", "map", "taken"}
      BY DEF Core, Base, TypeOK
    <2> QED BY <2>2, <2>3, <2>4, <2>5 DEF Leaves
  <1> QED BY <1>1, LeavesAlways, PTL

-----------------------------------------------------------------------------
(***************************************************************************)
(* No poll sleeps through a card.                                          *)
(***************************************************************************)
LEMMA WakeInit == Init => WakeInv
  BY DEF Init, WakeInv, Wake

\* The card is no more visible than before, and no less is to be announced.
LEMMA WakeSame ==
    ASSUME NEW r \in Request, Wake(r), scene' = scene, poll' = poll, poll.scope \in Scope,
           isLive(r)' => isLive(r),
           \A s \in Scope : <<s, r>> \in index' => <<s, r>> \in index,
           \A s \in Scope : Announces(r, s) => cmd("publish", r, s) \in Todo(script'[<<"hold", r>>])
    PROVE  Wake(r)'
  <1>1. PICK s \in Scope : s = poll.scope
    OBVIOUS
  <1>2. backend' = backend
    BY DEF backend
  <1>3. cmd("publish", r, s) \in Todo(script'[<<"hold", r>>]) => Announces(r, poll.scope)'
    BY <1>1 DEF Announces, cmd
  <1> QED BY <1>1, <1>2, <1>3 DEF Wake

\* The hold is to announce to everyone.
LEMMA WakeAll ==
    ASSUME NEW r \in Request, poll' = poll, poll.scope \in Scope,
           \A s \in Scope : cmd("publish", r, s) \in Todo(script'[<<"hold", r>>])
    PROVE  Wake(r)'
  <1>1. Announces(r, poll.scope)'
    BY DEF Announces, cmd
  <1> QED BY <1>1 DEF Wake

\* Steps that show nothing new and publish nothing.
LEMMA WakeKept ==
    ASSUME Base, WakeInv, scene' = scene, poll' = poll, loose \subseteq loose', expired \subseteq expired',
           \A r \in Request : phase'[r] # "ended" /\ r \notin loose' =>
              /\ phase[r] # "ended"
              /\ r \in card' => r \in card
              /\ \A s \in Scope : <<s, r>> \in index' => <<s, r>> \in index
              /\ \A s \in Scope : Announces(r, s) => cmd("publish", r, s) \in Todo(script'[<<"hold", r>>])
    PROVE  WakeInv'
  <1>1. poll.scope \in Scope
    BY DEF Base, TypeOK
  <1>2. ASSUME ~poll.note, NEW r \in Request, phase'[r] # "ended", r \notin loose'
        PROVE  Wake(r)'
    <2>1. Wake(r)
      BY <1>2 DEF WakeInv
    <2>2. isLive(r)' => isLive(r)
      BY <1>2 DEF isLive
    <2> QED BY <1>1, <1>2, <2>1, <2>2, WakeSame
  <1> QED BY <1>2 DEF WakeInv

LEMMA HoldWakes ==
    ASSUME Base, FreshOK, WakeInv, NEW r \in Request,
           Arrive(r) \/ Claim(r) \/ BeginWait(r) \/ Blpop(r) \/ Ends(r) \/ Cancel(r) \/ Cleanup(r)
    PROVE  WakeInv'
  <1>0. TypeOK
    BY DEF Base
  <1>1. CASE (Arrive(r) \/ Claim(r)) /\ BeginHold(r)
    <2>1. UNCHANGED <<scene, poll, loose, expired, card, index>> /\ phase[r] \in Fresh
      BY <1>1 DEF Arrive, Claim, Fresh, history
    <2>2. script'[<<"hold", r>>] = store(r)
      BY <1>0, <1>1, Actors DEF BeginHold, TypeOK
    <2>3. \A q \in Request : q # r => phase'[q] = phase[q] /\ script'[<<"hold", q>>] = script[<<"hold", q>>]
      BY <1>0, <1>1, Actors DEF BeginHold, TypeOK
    <2>4. \A s \in Scope : cmd("publish", r, s) \in Todo(script'[<<"hold", r>>])
      <3>1. store(r) \in StoreRest(r) /\ Head(store(r)).op = "setCard"
        BY <1>0, StoreIsNew DEF StoreRest
      <3>2. \A s \in Scope : cmd("publish", r, s) \in Todo(Tail(store(r)))
        BY <1>0, <3>1, StoreFacts
      <3>3. Todo(store(r)) = {Head(store(r))} \cup Todo(Tail(store(r)))
        BY <1>0, <3>1, StoreFacts, TailTodo
      <3> QED BY <2>2, <3>2, <3>3
    <2>5. phase[r] # "ended"
      BY <2>1 DEF Fresh
    <2> QED BY <2>1, <2>3, <2>4, <2>5, WakeKept DEF Announces
  <1>2. CASE (Arrive(r) \/ Claim(r)) /\ UNCHANGED <<sender, script>>
    <2>1. UNCHANGED <<scene, poll, loose, expired, card, index>>
      BY <1>2 DEF Arrive, Claim, history
    <2>2. \A q \in Request : phase'[q] # "ended" => phase[q] # "ended"
      BY <1>0, <1>2 DEF Arrive, Claim, BeginHold, TypeOK
    <2> QED BY <1>2, <2>1, <2>2, WakeKept DEF Announces
  <1>3. CASE BeginWait(r) \/ Blpop(r)
    <2>1. UNCHANGED <<scene, poll, loose, expired, card, index, script>>
      BY <1>3 DEF BeginWait, Blpop, storeVars, history
    <2>2. \A q \in Request : phase'[q] # "ended" => phase[q] # "ended"
      BY <1>0, <1>3 DEF BeginWait, Blpop, TypeOK
    <2> QED BY <2>1, <2>2, WakeKept DEF Announces
  <1>4. CASE Ends(r)
    <2>1. PICK v \in Verdict : endHold(r, v)
      BY <1>4, EndFacts
    <2>2. UNCHANGED <<scene, poll, loose, expired, card, index>>
      BY <1>4, EndFacts DEF storeVars, history
    <2>3. \A q \in Request : phase'[q] # "ended" =>
             phase[q] # "ended" /\ script'[<<"hold", q>>] = script[<<"hold", q>>]
      BY <1>0, <2>1, Actors DEF endHold, TypeOK
    <2> QED BY <2>2, <2>3, WakeKept DEF Announces
  <1>5. CASE Cancel(r)
    <2>1. UNCHANGED <<scene, poll, expired, card, index>> /\ loose \subseteq loose'
      BY <1>5 DEF Cancel, storeVars
    <2>2. \A q \in Request : phase'[q] # "ended" =>
             phase[q] # "ended" /\ script'[<<"hold", q>>] = script[<<"hold", q>>]
      BY <1>0, <1>5, Actors DEF Cancel, TypeOK
    <2> QED BY <2>1, <2>2, WakeKept DEF Announces
  <1>6. CASE Cleanup(r)
    <2>1. UNCHANGED <<scene, phase, poll, loose, expired, card, index>>
      BY <1>6 DEF Cleanup, holdVars, storeVars, history
    <2>2. \A q \in Request : script'[<<"hold", q>>] = script[<<"hold", q>>]
      BY <1>0, <1>6, Actors DEF Cleanup, TypeOK
    <2> QED BY <2>1, <2>2, WakeKept DEF Announces
  <1>7. Arrive(r) \/ Claim(r) => BeginHold(r) \/ UNCHANGED <<sender, script>>
    BY DEF Arrive, Claim
  <1> QED BY <1>1, <1>2, <1>3, <1>4, <1>5, <1>6, <1>7

\* Issuing a command that is no announcement of q leaves those of q.
LEMMA IssueAnnounces ==
    ASSUME Base, NEW a \in Actor, script[a] # <<>>, issue(a), NEW q \in Request, NEW s,
           Announces(q, s), next(a) # cmd("publish", q, s)
    PROVE  cmd("publish", q, s) \in Todo(script'[<<"hold", q>>])
  <1>1. CASE a = <<"hold", q>>
    <2>1. script[a] \in Seq(Command)
      BY DEF Base, TypeOK
    <2>2. Todo(script[a]) = {next(a)} \cup Todo(Tail(script[a]))
      BY <2>1, TailTodo DEF next
    <2> QED BY <1>1, <2>2, IssueType DEF Announces
  <1>2. CASE a # <<"hold", q>>
    BY <1>2, IssueType, Actors DEF Announces
  <1> QED BY <1>1, <1>2

\* A card, or its place in an index, appears before it is announced.
LEMMA StoreWakes ==
    ASSUME Base, WakeInv, NEW a \in Actor, SetCard(a) \/ AddIndex(a)
    PROVE  WakeInv'
  <1>0. TypeOK
    BY DEF Base
  <1>1. /\ UNCHANGED <<scene, phase, expired, poll, loose>>
        /\ script[a] # <<>> /\ issue(a) /\ next(a).op \in {"setCard", "addIndex"}
    BY DEF SetCard, AddIndex, issues, holdVars, history
  <1>2. ~IsDrop(next(a))
    BY <1>1, Commands DEF IsDrop
  <1>3. PICK r \in Request : /\ a = <<"hold", r>> /\ next(a).on = r /\ script[a] \in StoreRest(r)
    BY <1>1, <1>2, Issued, Commands
  <1>4. script'[<<"hold", r>>] = Tail(script[a])
    BY <1>1, <1>3, IssueType
  <1>5. \A q \in Request : \A s \in Scope : Announces(q, s) => cmd("publish", q, s) \in Todo(script'[<<"hold", q>>])
    BY <1>1, IssueAnnounces, Commands
  <1>6. poll.scope \in Scope
    BY <1>0 DEF TypeOK
  <1>7. ASSUME ~poll.note, NEW q \in Request, phase'[q] # "ended", q \notin loose'
        PROVE  Wake(q)'
    <2>1. Wake(q)
      BY <1>1, <1>7 DEF WakeInv
    <2>2. CASE q # r
      <3>1. (q \in card' => q \in card) /\ \A s \in Scope : <<s, q>> \in index' => <<s, q>> \in index
        BY <1>3, <2>2 DEF SetCard, AddIndex
      <3>2. isLive(q)' => isLive(q)
        BY <1>1, <3>1 DEF isLive
      <3> QED BY <1>1, <1>5, <1>6, <2>1, <3>1, <3>2, WakeSame
    <2>3. CASE q = r /\ SetCard(a)
      <3>1. \A s \in Scope : cmd("publish", r, s) \in Todo(Tail(script[a]))
        BY <1>0, <1>3, <2>3, StoreFacts DEF SetCard, issues, next
      <3> QED BY <1>1, <1>4, <1>6, <2>3, <3>1, WakeAll
    <2>4. CASE q = r /\ AddIndex(a)
      <3>1. /\ next(a).with \in Scope
            /\ cmd("publish", r, next(a).with) \in Todo(Tail(script[a]))
        BY <1>0, <1>3, <2>4, StoreFacts DEF AddIndex, issues, next
      <3>2. PICK x \in Scope : x = next(a).with
        BY <3>1
      <3>3. card' = card /\ index' = index \cup {<<x, r>>}
        BY <1>3, <2>4, <3>2 DEF AddIndex
      <3>4. PICK s \in Scope : s = poll.scope
        BY <1>6
      <3>5. CASE s = x
        <4>1. Announces(r, poll.scope)'
          BY <1>1, <1>4, <3>1, <3>2, <3>4, <3>5 DEF Announces, cmd
        <4> QED BY <2>4, <4>1 DEF Wake
      <3>6. CASE s # x
        <4>1. <<s, r>> \in index' => <<s, r>> \in index
          BY <3>3, <3>6
        <4>2. Announces(r, s) => Announces(r, poll.scope)'
          BY <1>1, <1>5, <3>4 DEF Announces, cmd
        <4>3. backend' = backend /\ isLive(r)' = isLive(r)
          BY <1>1, <3>3 DEF backend, isLive
        <4> QED BY <1>1, <2>1, <2>4, <3>4, <4>1, <4>2, <4>3 DEF Wake
      <3> QED BY <3>5, <3>6
    <2> QED BY <2>2, <2>3, <2>4
  <1> QED BY <1>1, <1>7 DEF WakeInv

\* A notification reaches a poll that is subscribed, whatever it is at.
LEMMA PublishWakes ==
    ASSUME Base, WakeInv, NEW a \in Actor, Publish(a)
    PROVE  WakeInv'
  <1>0. TypeOK
    BY DEF Base
  <1>1. /\ UNCHANGED <<scene, phase, card, index, expired, loose>>
        /\ script[a] # <<>> /\ issue(a) /\ next(a).op = "publish"
    BY DEF Publish, issues, holdVars, storeVars, history
  <1>2. /\ poll'.at = poll.at /\ poll'.scope = poll.scope /\ poll'.read = poll.read /\ poll'.ids = poll.ids
        /\ poll'.note = (poll.note \/ (poll.at \in {"list2", "wait"} /\ poll.scope = next(a).with))
    BY <1>0 DEF Publish, TypeOK
  <1>3. ~IsDrop(next(a))
    BY <1>1, Commands DEF IsDrop
  <1>4. PICK r \in Request : /\ a = <<"hold", r>> /\ next(a).on = r /\ script[a] \in StoreRest(r)
    BY <1>1, <1>3, Issued, Commands
  <1>5. next(a) = cmd("publish", r, next(a).with)
    BY <1>0, <1>1, <1>4, StoreFacts DEF next
  <1>6. PICK s \in Scope : s = poll.scope
    BY <1>0 DEF TypeOK
  <1>7. ASSUME ~poll'.note, NEW q \in Request, phase'[q] # "ended", q \notin loose'
        PROVE  Wake(q)'
    <2>1. ~poll.note /\ (poll.at \in {"list2", "wait"} => s # next(a).with)
      BY <1>2, <1>6, <1>7
    <2>2. Wake(q)
      BY <1>1, <1>7, <2>1 DEF WakeInv
    <2>3. poll.at \in {"list2", "wait"} /\ Announces(q, s) => Announces(q, poll.scope)'
      <3> SUFFICES ASSUME poll.at \in {"list2", "wait"}, Announces(q, s)
                   PROVE  Announces(q, poll.scope)'
        OBVIOUS
      <3>1. next(a) # cmd("publish", q, s)
        BY <1>5, <2>1, Commands
      <3>2. cmd("publish", q, s) \in Todo(script'[<<"hold", q>>])
        BY <1>1, <3>1, IssueAnnounces
      <3> QED BY <1>2, <1>6, <3>2 DEF Announces, cmd
    <2>4. backend' = backend /\ isLive(q)' = isLive(q)
      BY <1>1 DEF backend, isLive
    <2> QED BY <1>1, <1>2, <1>6, <2>2, <2>3, <2>4 DEF Wake
  <1> QED BY <1>2, <1>7 DEF WakeInv

LEMMA CommandWakes ==
    ASSUME Base, WakeInv, NEW a \in Actor,
           \/ DropIndex(a) \/ DropCard(a) \/ DropMail(a) \/ DropSender(a)
           \/ TakeSender(a) \/ Send(a) \/ Push(a) \/ CommandFails(a)
    PROVE  WakeInv'
  <1>0. TypeOK
    BY DEF Base
  <1>1. CASE DropIndex(a) \/ DropCard(a) \/ DropMail(a) \/ DropSender(a)
    <2>1. /\ UNCHANGED <<scene, phase, expired, poll, loose>> /\ card' \subseteq card /\ index' \subseteq index
          /\ script[a] # <<>> /\ issue(a) /\ next(a).op # "publish"
      BY <1>1 DEF DropIndex, DropCard, DropMail, DropSender, issues, holdVars, history
    <2>2. \A q \in Request : \A s \in Scope : Announces(q, s) => cmd("publish", q, s) \in Todo(script'[<<"hold", q>>])
      BY <2>1, IssueAnnounces, Commands
    <2> QED BY <2>1, <2>2, WakeKept
  <1>2. CASE TakeSender(a) \/ Send(a) \/ Push(a)
    <2>1. PICK d \in Decider : a = <<"desk", d>> /\ next(a).on \in Request
      BY <1>2, Deciding DEF TakeSender, Send, Push
    <2>2. UNCHANGED <<scene, expired, poll, loose, card, index>>
      BY <1>2 DEF TakeSender, Send, Push, history
    <2>3. \A q \in Request : phase'[q] # "ended" => phase[q] # "ended"
      BY <1>0, <1>2, <2>1 DEF TakeSender, Send, Push, lpush, holdVars, TypeOK
    <2>4. \A q \in Request : script'[<<"hold", q>>] = script[<<"hold", q>>]
      BY <1>0, <1>2, <2>1, Actors DEF TakeSender, Send, Push, issue, TypeOK
    <2> QED BY <2>2, <2>3, <2>4, WakeKept DEF Announces
  <1>3. CASE CommandFails(a)
    <2>1. /\ scene' = scene /\ script[a] # <<>> /\ next(a).on \in Request
          /\ UNCHANGED <<index, expired, poll>> /\ loose' = loose \cup {next(a).on}
      BY <1>3, Issued DEF CommandFails, Command
    <2>2. PICK r \in Request : r = next(a).on
      BY <2>1
    <2>3. CASE next(a).op = "setCard"
      <3>1. /\ endHold(r, "unavailable")
            /\ \A q \in Request : q # r => (q \in card' => q \in card)
        BY <1>3, <2>2, <2>3 DEF CommandFails
      <3>2. \A q \in Request : q # r => phase'[q] = phase[q] /\ script'[<<"hold", q>>] = script[<<"hold", q>>]
        BY <1>0, <3>1, Actors DEF endHold, TypeOK
      <3> QED BY <2>1, <2>2, <3>1, <3>2, WakeKept DEF Announces
    <2>4. CASE next(a).op = "push"
      <3>1. PICK d \in Decider : a = <<"desk", d>>
        BY <2>1, <2>4, Deciding DEF issues
      <3>2. /\ lpush(r, next(a).with) \/ UNCHANGED <<phase, verdict, mail>>
            /\ script' = [script EXCEPT ![a] = <<>>] /\ card' = card
        BY <1>3, <2>2, <2>4 DEF CommandFails
      <3>3. \A q \in Request : q # r => phase'[q] = phase[q]
        BY <1>0, <3>2 DEF lpush, TypeOK
      <3>4. \A q \in Request : script'[<<"hold", q>>] = script[<<"hold", q>>]
        BY <1>0, <3>1, <3>2, Actors DEF TypeOK
      <3> QED BY <2>1, <2>2, <3>2, <3>3, <3>4, WakeKept DEF Announces
    <2>5. CASE next(a).op \notin {"setCard", "push"}
      <3>1. issue(a) /\ UNCHANGED <<card, phase>>
        BY <1>3, <2>5 DEF CommandFails
      <3>2. \A q \in Request : q # r => \A s \in Scope :
               Announces(q, s) => cmd("publish", q, s) \in Todo(script'[<<"hold", q>>])
        BY <2>1, <2>2, <3>1, IssueAnnounces, Commands
      <3> QED BY <2>1, <2>2, <3>1, <3>2, WakeKept
    <2> QED BY <2>3, <2>4, <2>5
  <1> QED BY <1>1, <1>2, <1>3

LEMMA ReviewWakes ==
    ASSUME Base, WakeInv, NEW d \in Decider,
           (\E r \in Request, x \in Decisions : Decide(d, r, x)) \/ OpenWindow(d)
    PROVE  WakeInv'
  <1>0. TypeOK
    BY DEF Base
  <1>1. UNCHANGED <<scene, phase, index, expired, poll, loose>> /\ card' \subseteq card
    BY DEF Decide, OpenWindow, holdVars, storeVars, history
  <1>2. \A q \in Request : script'[<<"hold", q>>] = script[<<"hold", q>>]
    <2>1. \/ script' = script
          \/ \E s : script' = [script EXCEPT ![<<"desk", d>>] = s]
      BY DEF Decide, OpenWindow
    <2> QED BY <1>0, <2>1, Actors DEF TypeOK
  <1> QED BY <1>1, <1>2, WakeKept DEF Announces

\* The poll itself: it subscribes before the list that lets it sleep.
LEMMA PollWakes ==
    ASSUME Base, WakeInv, PollStep \/ Prune
    PROVE  WakeInv'
  <1>0. TypeOK
    BY DEF Base
  <1>1. UNCHANGED <<scene, phase, card, index, expired, script, loose>>
    BY DEF PollStep, PollStart, PollIds, PollRows, PollSubscribe, PollWake, Prune, holdVars, storeVars, history
  <1>2. poll \in [at : Listing \cup {"idle", "subscribe", "wait"}, scope : Scope,
                  read : BOOLEAN, ids : SUBSET Request, note : BOOLEAN]
    BY <1>0 DEF TypeOK
  <1>3. poll.at \notin Listing => ~poll.read
    BY DEF WakeInv
  <1>4. backend' = backend /\ \A r : isLive(r)' = isLive(r)
    BY <1>1 DEF backend, isLive
  <1>5. CASE Prune
    <2>1. poll'.note /\ poll'.at = poll.at /\ poll'.read = poll.read
      BY <1>2, <1>5 DEF Prune
    <2> QED BY <1>3, <2>1 DEF WakeInv
  <1>6. CASE (\E s \in Scope : PollStart(s)) \/ PollWake
    <2>1. poll'.at \in {"list1", "list3", "idle"} /\ (poll'.at \notin Listing => ~poll'.read)
      BY <1>2, <1>3, <1>6 DEF PollStart, PollWake, Listing
    <2> QED BY <2>1 DEF WakeInv, Wake
  <1>7. CASE PollSubscribe
    <2>1. poll'.at = "list2" /\ ~poll'.read
      BY <1>2, <1>3, <1>7 DEF PollSubscribe, subscribed, Listing
    <2> QED BY <2>1 DEF WakeInv, Wake, Listing
  <1>8. CASE PollIds
    <2>1. /\ poll'.at = poll.at /\ poll'.scope = poll.scope /\ poll.at \in Listing
          /\ poll'.ids = {r \in Request : <<poll.scope, r>> \in index}
      BY <1>2, <1>8 DEF PollIds
    <2>2. \A r \in Request : Wake(r)'
      BY <1>1, <2>1 DEF Wake, Listing
    <2> QED BY <2>1, <2>2 DEF WakeInv
  <1>9. CASE PollRows
    <2>1. /\ poll'.scope = poll.scope /\ poll'.read = FALSE /\ poll'.note = poll.note
          /\ poll'.at = IF listed(poll.ids) = {} THEN afterEmpty(poll.at) ELSE "idle"
          /\ poll.at \in Listing /\ (backend = "memory" \/ poll.read)
      BY <1>2, <1>9 DEF PollRows
    <2>2. ASSUME ~poll'.note, NEW r \in Request, phase'[r] # "ended", r \notin loose'
          PROVE  Wake(r)'
      <3>1. CASE poll'.at = "wait"
        <4>1. poll.at = "list2" /\ listed(poll.ids) = {}
          BY <1>9, <2>1, <3>1 DEF PollRows, afterEmpty, Listing
        <4>2. Wake(r)
          BY <1>1, <2>1, <2>2 DEF WakeInv
        <4>3. isLive(r) => backend # "memory" /\ r \notin poll.ids
          BY <4>1 DEF listed
        <4>4. backend \in {"memory", "redis"}
          BY <1>0, Backends
        <4>5. isLive(r) /\ <<poll.scope, r>> \in index => Announces(r, poll.scope)
          BY <2>1, <4>1, <4>2, <4>3, <4>4 DEF Wake
        <4>6. Announces(r, poll.scope) => Announces(r, poll.scope)'
          BY <1>1, <2>1 DEF Announces
        <4> QED BY <1>1, <1>4, <2>1, <3>1, <4>3, <4>4, <4>5, <4>6 DEF Wake
      <3>2. CASE poll'.at # "wait"
        BY <2>1, <3>2 DEF Wake
      <3> QED BY <3>1, <3>2
    <2> QED BY <2>1, <2>2 DEF WakeInv
  <1> QED BY <1>5, <1>6, <1>7, <1>8, <1>9 DEF PollStep

LEMMA WakeNext ==
    ASSUME Core, WakeInv, [Next]_vars
    PROVE  WakeInv'
  <1>0. Base /\ FreshOK
    BY DEF Core
  <1>1. ASSUME NEW r \in Request,
               Arrive(r) \/ Claim(r) \/ BeginWait(r) \/ Blpop(r) \/ Ends(r) \/ Cancel(r) \/ Cleanup(r)
        PROVE  WakeInv'
    BY <1>0, <1>1, HoldWakes
  <1>2. ASSUME NEW a \in Actor, Plain(a) \/ TakeSender(a) \/ Send(a) \/ Push(a) \/ CommandFails(a)
        PROVE  WakeInv'
    BY <1>0, <1>2, StoreWakes, PublishWakes, CommandWakes DEF Plain
  <1>3. ASSUME NEW d \in Decider, (\E r \in Request, x \in Decisions : Decide(d, r, x)) \/ OpenWindow(d)
        PROVE  WakeInv'
    BY <1>0, <1>3, ReviewWakes
  <1>4. CASE PollStep \/ Prune
    BY <1>0, <1>4, PollWakes
  <1>5. CASE (\E r \in Request : Expire(r)) \/ CloseWindow \/ UNCHANGED vars
    <2>1. UNCHANGED <<scene, phase, card, index, script, poll, loose>> /\ expired \subseteq expired'
      BY <1>5 DEF Expire, CloseWindow, vars, holdVars, storeVars, history
    <2> QED BY <1>0, <2>1, WakeKept DEF Announces
  <1> QED BY <1>1, <1>2, <1>3, <1>4, <1>5, NextCases DEF Ends, Aside

LEMMA WakeAlways == Spec => [](Core /\ WakeInv)
  <1>1. Init => Core /\ WakeInv
    BY CoreInit, WakeInit
  <1>2. Core /\ WakeInv /\ [Next]_vars => (Core /\ WakeInv)'
    BY CoreNext, WakeNext
  <1> QED BY <1>1, <1>2, PTL DEF Spec

\* A poll never sleeps over a card it could have shown: it was notified, or the
\* hold has still to publish (the poll subscribes before the list that decides,
\* and store makes a card visible before it publishes).
THEOREM WakeupHolds == Spec => []NoLostWakeup
  <1>1. Core /\ WakeInv => NoLostWakeup
    BY DEF WakeInv, Wake, Announces, Todo, NoLostWakeup
  <1> QED BY <1>1, WakeAlways, PTL

=============================================================================
