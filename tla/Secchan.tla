------------------------------- MODULE Secchan -------------------------------
(***************************************************************************)
(* The secure channel (secchan/): the process between the datapath         *)
(* ("local") and the controller ("remote").  It relays messages both ways  *)
(* (secchan.c), limits the rate of the packet-in messages (ratelimit.c)    *)
(* and goes on to another controller when one does not answer              *)
(* (failover.c).                                                           *)
(*                                                                         *)
(* The process is one loop; a turn of it is one step here.  Between turns  *)
(* messages come in, connections come and go and time passes.  An rconn is *)
(* seen through what the loop uses of it (module Rconn has its states):    *)
(* whether it is connected, and the queue of what it has to send, each     *)
(* message with the counter that is decremented when it leaves the queue.  *)
(*                                                                         *)
(* The state of the process is one record, sc.                             *)
(***************************************************************************)
EXTENDS Integers, Sequences, FiniteSets

CONSTANTS
    MaxArrivals,      \* bound on the messages that come in at a side
    Rooms,            \* numbers of messages that a socket takes in a turn
    Iterations,       \* 50: iterations of the loop of relay_run
    TxLimit,          \* 10: packet-ins of the limiter queued for the controller
    DrainLimit,       \* 50: packet-ins that one turn of the limiter sends
    RateLimit,        \* rate_limit: tokens for a unit of time
    BurstLimit,       \* burst_limit
    TokenCost,        \* 1000: tokens for a packet
    FirstTokens,      \* rate_limit * 100
    QueueArray,       \* 65535: ARRAY_SIZE(queues)
    PortMax,          \* OFPP_MAX
    NumControllers,
    MaxBackoffTime    \* max_backoff

ASSUME SecchanConstants ==
    /\ MaxArrivals \in [{"local", "remote"} -> Nat] /\ Rooms \subseteq Int
    /\ {Iterations, TxLimit, DrainLimit, RateLimit, BurstLimit, TokenCost,
        FirstTokens, QueueArray, PortMax, NumControllers, MaxBackoffTime} \subseteq Nat \ {0}

VARIABLES
    sc,       \* the process
    arrived,  \* messages that came in so far, per side
    ideal     \* tokens of a bucket that is filled at every unit of time

secchanVars == <<sc, arrived, ideal>>

Sides == {"local", "remote"}

\* Packet-ins of packets that no flow matched, and the datapath's other messages;
\* what the controller sends.
Kinds == {"packet_in", "reply", "request"}

Peer(h) == IF h = "local" THEN "remote" ELSE "local"

Lesser(a, b) == IF a < b THEN a ELSE b

BucketSize == IF FirstTokens > BurstLimit * TokenCost THEN FirstTokens
              ELSE BurstLimit * TokenCost

\* room: what the sockets take in this turn; -1 is a broken connection.
SecchanInit ==
    /\ \E lim \in BOOLEAN : sc = [
             conn |-> [h \in Sides |-> FALSE],
             in |-> [h \in Sides |-> <<>>],
             rxbuf |-> [h \in Sides |-> <<>>],
             n_txq |-> [o \in Sides \cup {"limiter"} |-> 0],
             txq |-> [h \in Sides |-> <<>>],
             room |-> [h \in Sides |-> 0],
             last |-> [k \in Kinds |-> 0], inOrder |-> TRUE,
             limited |-> lim, queue |-> <<>>, next_tx_port |-> 0, tokens |-> FirstTokens, since |-> 0,
             used |-> 0, crashed |-> FALSE,
             index |-> 0, age |-> [c \in 0..(NumControllers - 1) |-> 0]]
    /\ arrived = [h \in Sides |-> 0]
    /\ ideal = FirstTokens

-----------------------------------------------------------------------------
(* What the loop uses of lib/rconn.c. *)

\* The message m leaves.
Leaves(s, m) ==
    [s EXCEPT !.n_txq[m.owner] = @ - 1,
              !.last[m.kind] = m.id,
              !.inOrder = @ /\ m.id > s.last[m.kind]]


flush_queue(s, h) ==
    [s EXCEPT !.txq[h] = <<>>,
              !.n_txq = [o \in DOMAIN s.n_txq |->
                  s.n_txq[o] - Cardinality({i \in DOMAIN s.txq[h] : s.txq[h][i].owner = o})]]

disconnect(s, h) == [flush_queue(s, h) EXCEPT !.conn[h] = FALSE, !.in[h] = <<>>]

try_send(s, h) ==
    IF s.room[h] = 0 THEN s
    ELSE IF s.room[h] < 0 THEN disconnect(s, h)
    ELSE [Leaves(s, Head(s.txq[h])) EXCEPT !.txq[h] = Tail(@), !.room[h] = @ - 1]

RECURSIVE do_tx_work(_, _)
do_tx_work(s, h) ==
    IF s.txq[h] = <<>> \/ s.room[h] = 0 \/ ~s.conn[h] THEN s ELSE do_tx_work(try_send(s, h), h)

rconn_run(s, h) == IF s.conn[h] THEN do_tx_work(s, h) ELSE s

\* With ENOTCONN nothing changes, and the callers drop the message.
rconn_send(s, h, m) ==
    IF ~s.conn[h] THEN s
    ELSE LET t == [s EXCEPT !.n_txq[m.owner] = @ + 1, !.txq[h] = Append(@, m)]
         IN  IF Len(t.txq[h]) = 1 THEN try_send(t, h) ELSE t

rconn_send_with_limit(s, h, m, limit) ==
    IF s.n_txq[m.owner] >= limit THEN s ELSE rconn_send(s, h, m)

-----------------------------------------------------------------------------
(* The rate limiter.  The port of a packet is always 0, so one of its       *)
(* queues is used.                                                          *)

refill_bucket(s) ==
    LET tokens == s.since * RateLimit + s.tokens
    IN  IF tokens >= TokenCost
        THEN [s EXCEPT !.since = 0, !.tokens = Lesser(tokens, BurstLimit * TokenCost)]
        ELSE s

CanGetToken(s) == s.tokens >= TokenCost

get_token(s) == [s EXCEPT !.tokens = @ - TokenCost, !.used = @ + 1]

\* Both loops over the queues end at queues[OFPP_MAX]; what is behind the array
\* is the limiter's other fields, and memory that is not its own.
drop_packet(s) ==
    IF PortMax > QueueArray THEN [s EXCEPT !.crashed = TRUE]
    ELSE [s EXCEPT !.queue = Tail(@)]

\* The search begins at next_tx_port, and reaches port 0 again after OFPP_MAX.
dequeue_packet(s) ==
    IF s.next_tx_port # 0 /\ PortMax > QueueArray THEN [s EXCEPT !.crashed = TRUE]
    ELSE [s EXCEPT !.next_tx_port = 1 % PortMax, !.queue = Tail(@)]

rate_limit_local_packet_cb(s, m) ==
    IF ~s.limited \/ m.kind # "packet_in" THEN [s |-> s, consumed |-> FALSE]
    ELSE IF s.queue = <<>> /\ CanGetToken(s)
    THEN [s |-> get_token(s), consumed |-> FALSE]
    ELSE LET t == IF Len(s.queue) >= BurstLimit THEN drop_packet(s) ELSE s
         IN  [s |-> [t EXCEPT !.queue = Append(@, [m EXCEPT !.owner = "limiter"])],
              consumed |-> TRUE]

\* A token is taken before the number of packets is compared with the limit.
RECURSIVE Drain(_, _)
Drain(s, i) ==
    IF s.crashed \/ s.queue = <<>> \/ ~CanGetToken(s) THEN s
    ELSE IF i >= DrainLimit THEN [get_token(s) EXCEPT !.used = @ - 1]
    ELSE LET t == dequeue_packet(get_token(s))
         IN  IF t.crashed THEN t
             ELSE Drain(rconn_send_with_limit(t, "remote", Head(s.queue), TxLimit), i + 1)

rate_limit_periodic_cb(s) == IF s.limited THEN Drain(refill_bucket(s), 0) ELSE s

-----------------------------------------------------------------------------
(* The other controllers. *)

is_timed_out(s) == s.age[s.index] >= MaxBackoffTime

\* The connection is down: its queue is empty.
failover_periodic_cb(s) ==
    IF s.conn["remote"] \/ ~is_timed_out(s) THEN s
    ELSE LET next == (s.index + 1) % NumControllers
         IN  [s EXCEPT !.index = next, !.age[next] = 0]

-----------------------------------------------------------------------------
(* The relay. *)

call_local_packet_cbs(s, m) == rate_limit_local_packet_cb(s, m)

rconn_recv(s, h) ==
    IF s.conn[h] /\ s.in[h] # <<>>
    THEN [s EXCEPT !.rxbuf[h] = <<Head(s.in[h])>>, !.in[h] = Tail(@)]
    ELSE s

\* One pass over half h: a new message may be consumed by a hook; one that was
\* kept, or is not consumed, is passed on when nothing of this half is waiting.
RelayHalf(s, h) ==
    LET got == IF s.rxbuf[h] = <<>> THEN rconn_recv(s, h) ELSE s
        new == s.rxbuf[h] = <<>> /\ got.rxbuf[h] # <<>>
        hook == IF new /\ h = "local" THEN call_local_packet_cbs(got, got.rxbuf[h][1])
                ELSE [s |-> got, consumed |-> FALSE]
        t == hook.s
        sends == t.rxbuf[h] # <<>> /\ t.n_txq[h] = 0
    IN  IF hook.consumed
        THEN [s |-> [t EXCEPT !.rxbuf[h] = <<>>], progress |-> TRUE, break |-> TRUE]
        ELSE [s |-> IF sends THEN rconn_send([t EXCEPT !.rxbuf[h] = <<>>], Peer(h), t.rxbuf[h][1])
                    ELSE t,
              progress |-> sends /\ t.conn[Peer(h)], break |-> FALSE]

\* The second half, after the first has done a.
OtherHalf(a) ==
    IF a.break THEN a
    ELSE [RelayHalf(a.s, "remote") EXCEPT !.progress = a.progress \/ @]

RECURSIVE RelayLoop(_, _)
RelayLoop(s, i) ==
    LET r == OtherHalf(RelayHalf(s, "local"))
    IN  IF s.crashed \/ i >= Iterations THEN s
        ELSE IF r.progress THEN RelayLoop(r.s, i + 1) ELSE r.s

relay_run(s) == RelayLoop(rconn_run(rconn_run(s, "local"), "remote"), 0)

\* The hooks, in the order they were added.
Hooks(s) == IF s.crashed THEN s ELSE rate_limit_periodic_cb(failover_periodic_cb(s))

\* One turn of the loop in main.
TurnLeaves(t) ==
    /\ sc' = [t EXCEPT !.room = [h \in Sides |-> 0], !.used = 0]
    /\ ideal' = ideal - TokenCost * t.used
    /\ UNCHANGED arrived

SecchanTurn(room) == ~sc.crashed /\ TurnLeaves(Hooks(relay_run([sc EXCEPT !.room = room])))

SecchanTurns == \E room \in [Sides -> Rooms] : SecchanTurn(room)

-----------------------------------------------------------------------------
(* What happens between turns. *)

MessageArrives(h, kind) ==
    /\ ~sc.crashed /\ sc.conn[h] /\ arrived[h] < MaxArrivals[h]
    /\ arrived' = [arrived EXCEPT ![h] = @ + 1]
    /\ sc' = [sc EXCEPT !.in[h] = Append(@, [id |-> arrived[h] + 1, kind |-> kind, owner |-> h])]
    /\ UNCHANGED ideal

Arrivals == \/ \E k \in {"packet_in", "reply"} : MessageArrives("local", k)
            \/ MessageArrives("remote", "request")

Connected(h) ==
    /\ ~sc.crashed /\ ~sc.conn[h]
    /\ sc' = [sc EXCEPT !.conn[h] = TRUE]
    /\ UNCHANGED <<arrived, ideal>>

Disconnected(h) ==
    /\ ~sc.crashed /\ sc.conn[h]
    /\ sc' = disconnect(sc, h)
    /\ UNCHANGED <<arrived, ideal>>

\* Times beyond which nothing changes any more are not told apart.
SecchanTick ==
    /\ ~sc.crashed
    /\ sc' = [sc EXCEPT !.since = Lesser(@ + 1, BucketSize),
                        !.age = [c \in DOMAIN @ |-> Lesser(@[c] + 1, MaxBackoffTime)]]
    /\ ideal' = Lesser(ideal + RateLimit, BucketSize)
    /\ UNCHANGED arrived

SecchanNext ==
    \/ SecchanTurns
    \/ Arrivals
    \/ \E h \in Sides : Connected(h) \/ Disconnected(h)
    \/ SecchanTick

SecchanSpec == SecchanInit /\ [][SecchanNext]_secchanVars

-----------------------------------------------------------------------------
(* Properties. *)

\* The controller gets the packet-ins in the order in which the datapath sent
\* them, whether they took the normal path through relay_run or waited in the
\* rate limiter's queue, and each side gets the other messages in order.
RelayedInOrder == sc.inOrder

\* The packet-ins that the rate limiter lets through never exceed, by more than
\* one burst, what a bucket allows that gets rate_limit tokens in every unit of
\* time.  The bucket is filled late, in refill_bucket: a turn of the loop that
\* comes after a pause spends the old tokens and then gets those of the pause.
WithinRate == ideal + BucketSize >= 0

\* relay_run passes nothing on for a side while its counter n_txq is not zero.
\* The counter is exactly the number of this side's messages in the queue of the
\* other one, also after a connection broke and its queue was flushed: it never
\* holds a message back for ever.
QueuesCounted ==
    /\ \A h \in Sides : sc.conn[h] \/ sc.txq[h] = <<>>
    /\ \A o \in DOMAIN sc.n_txq :
         LET q == sc.txq[IF o = "remote" THEN "local" ELSE "remote"]
         IN  sc.n_txq[o] = Cardinality({i \in DOMAIN q : q[i].owner = o})

\* "Remove and return the next packet to transmit (in round-robin order)": the
\* rate limiter's loops stay inside its array of queues.
LimiterStaysInArray == ~sc.crashed
=============================================================================
