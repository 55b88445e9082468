-------------------------- MODULE SessionTransport --------------------------
(***************************************************************************)
(* The resumable channel between a sandbox's supervisor                    *)
(* (apps/sandbox-supervisor/src/transport/ws.ts) and the copies of its     *)
(* runner (apps/runner/src/ws/server.ts).  A supervisor that holds a       *)
(* session numbers its frames and keeps each one until it is acked; a copy *)
(* applies a number at most once and tells every new socket how far it     *)
(* got.                                                                    *)
(*                                                                         *)
(* A socket is two queues: `up` holds the frames on their way to the copy, *)
(* `down` what the copy wrote, the answer to the upgrade first.  Either    *)
(* end may lose it without the other noticing.  A frame is its number (0   *)
(* for a bare one) and whether it is a heartbeat.                          *)
(***************************************************************************)
EXTENDS Integers, Sequences, FiniteSets

CONSTANTS
    Copy,                             \* the processes of the runner
    MaxSockets,                       \* bound: dials
    MaxFrames,                        \* bound: frames of one supervisor
    MaxContainers,                    \* bound: containers of the sandbox
    MaxRestarts,                      \* bound: restarts of copies
    MAX_OUTBOUND_MESSAGES,
    DEFAULT_MAX_ATTEMPTS

ASSUME TransportAssumption ==
    {MaxSockets, MaxFrames, MaxContainers, MaxRestarts, MAX_OUTBOUND_MESSAGES, DEFAULT_MAX_ATTEMPTS}
        \subseteq Nat \ {0}

VARIABLES
    box,                  \* the current container, counted
    session,              \* it holds a session
    spent,                \* its bootstrap token was claimed
    nextSeq,
    sent,                 \* frames its supervisor produced
    outbound,
    sentUpTo,
    socket,               \* its current socket, 0 for none
    attempts,
    closed,               \* it gave up
    sock,                 \* every socket this container dialled
    cursors,              \* of each copy, for one container
    dials,
    restarts,
    applied,              \* history: the numbers each process of a copy passed on
    reached,              \* history: numbers of this container some copy passed on
    discarded,            \* history: numbers of this container dropped on purpose
    raced                 \* history: a frame went out ahead of a hand-off

supervisor == <<session, spent, nextSeq, sent, outbound, sentUpTo, socket, attempts, closed>>
history == <<applied, reached, discarded, raced>>
bounds == <<dials, restarts>>
vars == <<box, supervisor, sock, cursors, bounds, history>>

Number == 0..MaxFrames
Frame == [seq : Number, beat : BOOLEAN]
Item == [kind : {"open", "session", "ack"}, ack : Number]
Mark == [box : 1..MaxContainers, seq : Number]
Socket == [copy : Copy, client : {"dialling", "open", "gone"}, server : {"none", "open", "closed"},
           up : Seq(Frame), down : Seq(Item)]

Dialled == DOMAIN sock

TypeOK ==
    /\ box \in 1..MaxContainers
    /\ {session, spent, closed, raced} \subseteq BOOLEAN
    /\ {nextSeq, sentUpTo, sent} \subseteq Number
    /\ outbound \in Seq(Frame) /\ Len(outbound) <= MAX_OUTBOUND_MESSAGES
    /\ sock \in Seq(Socket) /\ Len(sock) <= dials /\ dials \in 0..MaxSockets
    /\ socket \in 0..Len(sock)
    /\ attempts \in 0..DEFAULT_MAX_ATTEMPTS
    /\ cursors \in [Copy -> Mark]
    /\ restarts \in 0..MaxRestarts
    /\ applied \in [Copy -> Seq(Number)]
    /\ reached \cup discarded \subseteq Number

Booted ==
    /\ session = FALSE /\ spent = FALSE
    /\ nextSeq = 0 /\ sent = 0 /\ sentUpTo = 0
    /\ outbound = << >> /\ socket = 0
    /\ attempts = 0 /\ closed = FALSE

Init ==
    /\ box = 1 /\ Booted
    /\ sock = << >> /\ dials = 0 /\ restarts = 0
    /\ cursors = [c \in Copy |-> [box |-> 1, seq |-> 0]]
    /\ applied = [c \in Copy |-> << >>]
    /\ reached = {} /\ discarded = {} /\ raced = FALSE

(***************************************************************************)
(* The supervisor's backlog                                                *)
(***************************************************************************)
Numbers(frames) == {frames[i].seq : i \in DOMAIN frames}

\* acknowledge: the acked frames at the front go.
acknowledge(frames, ack) ==
    LET acked == {i \in DOMAIN frames : \A j \in 1..i : frames[j].seq # 0 /\ frames[j].seq <= ack}
    IN SubSeq(frames, Cardinality(acked) + 1, Len(frames))

\* The frames at the places in K, in their order.
picked(frames, K) ==
    [n \in 1..Cardinality(K) |-> frames[CHOOSE i \in K : Cardinality({j \in K : j <= i}) = n]]

\* flush: what goes out on the open socket, what stays, and the write cursor.
toWrite(frames, held, upTo) ==
    picked(frames, {i \in DOMAIN frames : ~held \/ frames[i].seq = 0 \/ frames[i].seq > upTo})
toKeep(frames, held) == picked(frames, {i \in DOMAIN frames : held /\ frames[i].seq # 0})
writtenUpTo(frames, held, upTo) ==
    IF held /\ frames # << >> /\ frames[Len(frames)].seq > upTo THEN frames[Len(frames)].seq ELSE upTo

\* Mutated form: the backlog has no cap.
capped_none(frames) == frames

\* The overflow: the oldest go.
capped(frames) ==
    IF Len(frames) > MAX_OUTBOUND_MESSAGES
    THEN SubSeq(frames, Len(frames) - MAX_OUTBOUND_MESSAGES + 1, Len(frames)) ELSE frames

\* What is written to a socket whose other end is gone never arrives.
wire(s, frames) == IF sock[s].server = "open" THEN frames ELSE << >>

isOpen == socket # 0 /\ sock[socket].client = "open"

\* The hand-off of the current socket was not read yet.
awaitsHandOff == \E i \in DOMAIN sock[socket].down : sock[socket].down[i].kind = "session"

\* transportSend, and the flush it ends with.
TransportSend(beat) ==
    /\ ~closed /\ sent < MaxFrames
    /\ sent' = sent + 1
    /\ beat => session /\ isOpen
    /\ nextSeq' = IF session THEN nextSeq + 1 ELSE nextSeq
    /\ LET frame == [seq |-> nextSeq', beat |-> beat]
           all == Append(outbound, IF session THEN frame ELSE [frame EXCEPT !.seq = 0])
           kept == capped(all)
       IN /\ discarded' = discarded \cup (Numbers(all) \ Numbers(kept))
          /\ IF isOpen
             THEN /\ sock' = [sock EXCEPT ![socket].up = @ \o wire(socket, toWrite(kept, session, sentUpTo))]
                  /\ outbound' = toKeep(kept, session)
                  /\ sentUpTo' = writtenUpTo(kept, session, sentUpTo)
                  /\ raced' = (raced \/ (session /\ awaitsHandOff))
             ELSE outbound' = kept /\ UNCHANGED <<sock, sentUpTo, raced>>
    /\ UNCHANGED <<box, session, spent, socket, attempts, closed, cursors, bounds,
                   applied, reached>>

(***************************************************************************)
(* The supervisor's sockets                                                *)
(***************************************************************************)
\* connect: the balancer picks the copy.
Connect(c) ==
    /\ ~closed /\ socket = 0 /\ attempts < DEFAULT_MAX_ATTEMPTS /\ dials < MaxSockets
    /\ sock' = Append(sock, [copy |-> c, client |-> "dialling", server |-> "none", up |-> << >>,
                             down |-> << >>])
    /\ socket' = Len(sock) + 1 /\ attempts' = attempts + 1 /\ dials' = dials + 1
    /\ UNCHANGED <<box, session, spent, nextSeq, sent, outbound, sentUpTo, closed, cursors,
                   restarts, history>>

\* Mutated form: the write cursor of the last socket is kept.
cursorAfterHandOff_kept(ack) == IF session THEN sentUpTo ELSE ack

\* The hand-off says where the replay starts.
cursorAfterHandOff(ack) == ack

\* Mutated form: the backlog waits for the next send.
flushesOn_openOnly(kind) == kind = "open" /\ ~session

\* With a session the replay waits for the hand-off; without one it does not.
flushesOn(kind) == kind = "session" \/ (kind = "open" /\ ~session)

\* The handlers of `open` and `message`, in the order the copy wrote.
ClientReads ==
    /\ socket # 0 /\ sock[socket].down # << >>
    /\ LET item == Head(sock[socket].down)
           held == session \/ item.kind = "session"
           kept == IF item.kind = "open" THEN outbound ELSE acknowledge(outbound, item.ack)
           upTo == IF item.kind = "session" THEN cursorAfterHandOff(item.ack) ELSE sentUpTo
           flushes == flushesOn(item.kind)
       IN /\ session' = held
          /\ attempts' = IF item.kind = "open" THEN 0 ELSE attempts
          /\ outbound' = IF flushes THEN toKeep(kept, held) ELSE kept
          /\ sentUpTo' = IF flushes THEN writtenUpTo(kept, held, upTo) ELSE upTo
          /\ sock' = [sock EXCEPT ![socket].down = Tail(@), ![socket].client = "open",
                                  ![socket].up = IF flushes THEN @ \o wire(socket, toWrite(kept, held, upTo))
                                                   ELSE @]
    /\ UNCHANGED <<box, spent, nextSeq, sent, socket, closed, cursors, bounds, history>>

Drop == /\ sock' = [sock EXCEPT ![socket].client = "gone", ![socket].down = << >>]
        /\ socket' = 0

\* `close` or `error`: the network, the copy, or an upgrade that was refused
\* (a spent token, an outage, a copy that drains).
SocketLost ==
    /\ socket # 0 /\ (dials < MaxSockets \/ attempts >= DEFAULT_MAX_ATTEMPTS)
    /\ Drop
    /\ UNCHANGED <<box, session, spent, nextSeq, sent, outbound, sentUpTo, attempts, closed,
                   cursors, bounds, history>>

\* The watchdog heard no ack: it redials at once, without the beats it sent.
WatchdogCloses ==
    /\ isOpen /\ session /\ dials < MaxSockets
    /\ Drop
    /\ outbound' = picked(outbound, {i \in DOMAIN outbound : ~outbound[i].beat})
    /\ discarded' = discarded \cup (Numbers(outbound) \ Numbers(outbound'))
    /\ UNCHANGED <<box, session, spent, nextSeq, sent, sentUpTo, attempts, closed, cursors,
                   bounds, applied, reached, raced>>

\* scheduleReconnect, once the budget is used up.
GiveUp ==
    /\ ~closed /\ socket = 0 /\ attempts >= DEFAULT_MAX_ATTEMPTS
    /\ closed' = TRUE
    /\ UNCHANGED <<box, session, spent, nextSeq, sent, outbound, sentUpTo, socket, attempts, sock,
                   cursors, bounds, history>>

(***************************************************************************)
(* The copies                                                              *)
(***************************************************************************)
\* cursorFor: a cursor of another container counts from the start.
cursorFor(c) == IF cursors[c].box = box THEN cursors[c].seq ELSE 0

\* admit, attach and handOffSession: a first connect spends the token.
Attach(s) ==
    /\ sock[s].client = "dialling" /\ sock[s].server = "none" /\ s = socket
    /\ session \/ ~spent
    /\ spent' = TRUE
    /\ LET ack == cursorFor(sock[s].copy)
       IN /\ cursors' = [cursors EXCEPT ![sock[s].copy] = [box |-> box, seq |-> ack]]
          /\ sock' = [sock EXCEPT ![s].server = "open",
                        ![s].down = <<[kind |-> "open", ack |-> 0], [kind |-> "session", ack |-> ack]>>]
    /\ UNCHANGED <<box, session, nextSeq, sent, outbound, sentUpTo, socket, attempts, closed,
                   bounds, history>>

\* Mutated form: the number it holds is applied once more.
isNew_again(seq, cursor) == seq >= cursor

\* onFrame: a number is new above the cursor.
isNew(seq, cursor) == seq > cursor

\* onFrame: bare frames pass; numbered ones are applied once and acked.
OnFrame(s) ==
    /\ sock[s].server = "open" /\ sock[s].up # << >>
    /\ LET c == sock[s].copy
           seq == Head(sock[s].up).seq
           fresh == isNew(seq, cursorFor(c))
           upTo == IF fresh THEN seq ELSE cursorFor(c)
       IN IF seq = 0
          THEN sock' = [sock EXCEPT ![s].up = Tail(@)] /\ UNCHANGED <<cursors, applied, reached>>
          ELSE /\ cursors' = [cursors EXCEPT ![c] = [box |-> box, seq |-> upTo]]
               /\ applied' = IF fresh THEN [applied EXCEPT ![c] = Append(@, seq)] ELSE applied
               /\ reached' = IF fresh THEN reached \cup {seq} ELSE reached
               /\ sock' = [sock EXCEPT ![s].up = Tail(@),
                             ![s].down = IF sock[s].client = "gone" THEN @
                                         ELSE Append(@, [kind |-> "ack", ack |-> upTo])]
    /\ UNCHANGED <<box, supervisor, bounds, discarded, raced>>

\* The copy's end of a socket closes; what it did not read is gone.
ServerDrops(s) ==
    /\ sock[s].server = "open" /\ (sock[s].client = "gone" \/ dials < MaxSockets)
    /\ sock' = [sock EXCEPT ![s].server = "closed", ![s].up = << >>]
    /\ UNCHANGED <<box, supervisor, cursors, bounds, history>>

\* A copy restarts: its cursors and its sockets were in memory.
CopyRestarts(c) ==
    /\ restarts < MaxRestarts /\ dials < MaxSockets
    /\ restarts' = restarts + 1
    /\ cursors' = [cursors EXCEPT ![c].seq = 0]
    /\ applied' = [applied EXCEPT ![c] = << >>]
    /\ sock' = [s \in Dialled |-> IF sock[s].copy = c /\ sock[s].server = "open"
                                  THEN [sock[s] EXCEPT !.server = "closed", !.up = << >>] ELSE sock[s]]
    /\ UNCHANGED <<box, supervisor, dials, reached, discarded, raced>>

\* A start replaces the container: a new supervisor with a token of its own.
Recreate ==
    /\ box < MaxContainers /\ dials < MaxSockets
    /\ box' = box + 1
    /\ session' = FALSE /\ spent' = FALSE /\ nextSeq' = 0 /\ sent' = 0 /\ sentUpTo' = 0
    /\ outbound' = << >> /\ socket' = 0 /\ attempts' = 0 /\ closed' = FALSE
    /\ sock' = << >> /\ applied' = [c \in Copy |-> << >>]
    /\ reached' = {} /\ discarded' = {} /\ raced' = FALSE
    /\ UNCHANGED <<cursors, bounds>>

Next ==
    \/ \E beat \in BOOLEAN : TransportSend(beat)
    \/ \E c \in Copy : Connect(c) \/ CopyRestarts(c)
    \/ \E s \in Dialled : Attach(s) \/ OnFrame(s) \/ ServerDrops(s)
    \/ ClientReads \/ SocketLost \/ WatchdogCloses \/ GiveUp \/ Recreate

Spec == Init /\ [][Next]_vars

(***************************************************************************)
(* Both event loops run, the supervisor redials, and a socket whose other  *)
(* end is gone is noticed in the end: by its close, or by the watchdog.    *)
(***************************************************************************)
SeesClose == socket # 0 /\ sock[socket].server = "closed" /\ SocketLost

Fairness ==
    /\ WF_vars(\E c \in Copy : Connect(c))
    /\ WF_vars(ClientReads) /\ WF_vars(SeesClose) /\ WF_vars(GiveUp)
    /\ WF_vars(\E s \in Dialled : Attach(s) \/ OnFrame(s))

FairSpec == Spec /\ Fairness

(***************************************************************************)
(* Properties                                                              *)
(***************************************************************************)
\* A process passes on each number of a container at most once and in order,
\* whatever was replayed to it: "each `seq` is applied at most once per
\* copy" (ws/server.ts, onFrame).
OncePerCopy ==
    \A c \in Copy : \A i, j \in DOMAIN applied[c] :
        i < j => applied[c][i] < applied[c][j]

\* Every number the supervisor no longer keeps, and did not drop on purpose,
\* was passed on by some copy (ws.ts, "every frame is numbered and STAYS
\* queued until the runner acks it").
Kept == (1..nextSeq) \ (Numbers(outbound) \cup discarded) \subseteq reached

\* As long as no frame is written to a socket before its hand-off was read,
\* nothing is lost across drops, moves between copies and restarts.
KeptUnlessRaced == raced \/ Kept

\* A frame that is kept is acked in the end, through however many sockets,
\* unless the supervisor gives up or its container ends.
KeptIsAcked == \A n \in 1..MaxFrames : n \in Numbers(outbound) ~> closed \/ n \notin Numbers(outbound)
=============================================================================
