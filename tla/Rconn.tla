------------------------------- MODULE Rconn -------------------------------
(***************************************************************************)
(* Reliable OpenFlow connections: lib/rconn.c over the version negotiation *)
(* of lib/vconn.c.  A reliable connection is the record rc; the C functions *)
(* are operators of the same name on it.  An operation whose outcome       *)
(* depends on the socket returns the set of connections it may leave.      *)
(*                                                                         *)
(* Clocks are ages: rc.age[e] is the time since e, which saturates at      *)
(* AgeLimit, above every threshold; rc.left is backoff_deadline - now.     *)
(* Monitors, statistics and the write-only probably_admitted are left out. *)
(* rc.passive tells the two uses apart: a connection that a listening      *)
(* socket accepted (udatapath) and one that the owner connects, takes down *)
(* and connects elsewhere (secchan).                                       *)
(***************************************************************************)
EXTENDS Integers, Sequences, FiniteSets

CONSTANTS ProbeInterval, MaxBackoff, \* the arguments of rconn_create
          QuestionSecs, AdmitSecs,   \* the 60 and the 30 of the code
          AgeLimit,                  \* bound: the age above which all are alike
          QueueLimit,                \* queue_limit of rconn_send_with_limit
          QueueBound,                \* bound: messages in txq when the owner sends or
                                     \* connects, or the peer speaks
          PeerVersions,              \* versions a peer may announce
          Reconnectable              \* FALSE for an "fd:" connection

ASSUME RconnConstants ==
    /\ ProbeInterval \in Nat /\ MaxBackoff \in Nat \ {0}
    /\ QuestionSecs \in Nat /\ AdmitSecs \in Nat
    /\ QueueLimit \in Nat /\ QueueBound \in Nat
    /\ AgeLimit \in Nat /\ AgeLimit > QuestionSecs /\ AgeLimit > AdmitSecs
    /\ AgeLimit >= 2 * ProbeInterval /\ AgeLimit >= MaxBackoff
    /\ PeerVersions \subseteq Nat
    /\ Reconnectable \in BOOLEAN

VARIABLES rc,  \* the reliable connection
          rc_net, \* "good": the peer is there and the network carries everything
          rc_ran  \* rconn_run was called in this second

rconnVars == <<rc, rc_net, rc_ran>>

OFP_VERSION == 4
NetGood == rc_net = "good"

Least(a, b) == IF a < b THEN a ELSE b
Most(a, b) == IF a > b THEN a ELSE b

-----------------------------------------------------------------------------
(* vconn.c: opening a connection and agreeing on a version.                *)

NoVconn == [vcs |-> "NONE", version |-> -1, owed |-> {}]

\* vconn_init: the connect() of the class may have completed at once.
vconn_init(vcs) == [vcs |-> vcs, version |-> -1, owed |-> {}]

\* The results of vconn_open; NoVconn is an error.
vconn_open == {vconn_init("CONNECTING"), vconn_init("SEND_HELLO")}
              \cup (IF NetGood THEN {} ELSE {NoVconn})

\* A non-blocking call of the class moves on, or fails, or must be repeated.
Attempt(v, next) == {[v EXCEPT !.vcs = next]} \cup
                    (IF NetGood THEN {} ELSE {v, [v EXCEPT !.vcs = "DISCONNECTED"]})

vcs_connecting(v) == Attempt(v, "SEND_HELLO")
vcs_send_hello(v) == Attempt(v, "RECV_HELLO")
vcs_send_error(v) == Attempt(v, "DISCONNECTED")

\* A hello settles the version; anything else the peer may send instead either
\* is skipped by do_recv (asynchronous messages) or ends the connection.
vcs_recv_hello(v) ==
    {LET agreed == Least(OFP_VERSION, peer)
     IN  [v EXCEPT !.version = agreed,
                   !.vcs = IF agreed < OFP_VERSION THEN "SEND_ERROR" ELSE "CONNECTED"] :
        peer \in {p \in PeerVersions : NetGood => p >= OFP_VERSION}}
    \cup (IF NetGood THEN {} ELSE {v, [v EXCEPT !.vcs = "DISCONNECTED"]})

VcsStep(v) ==
    CASE v.vcs = "CONNECTING" -> vcs_connecting(v)
      [] v.vcs = "SEND_HELLO" -> vcs_send_hello(v)
      [] v.vcs = "RECV_HELLO" -> vcs_recv_hello(v)
      [] v.vcs = "SEND_ERROR" -> vcs_send_error(v)
      [] OTHER -> {v}

VcsSteps(V) == UNION {VcsStep(v) : v \in V}

\* The loop stops where a step returns EAGAIN, which leaves the vconn as it was:
\* four steps, the longest path, reach everything the loop can reach.
vconn_connect(v) == VcsSteps(VcsSteps(VcsSteps(VcsSteps({v}))))

\* What the class hands to do_recv on a connection whose version is agreed: an
\* answer to a probe the peer has got, a request, an error (the only one that
\* is_admitted_msg refuses), or one of another version, which is EPROTO.
PeerMessages(v) ==
    {[type |-> "ECHO_REPLY", xid |-> x, version |-> v.version] : x \in v.owed}
    \cup {[type |-> t, xid |-> 0, version |-> n] :
            t \in {"REQUEST", "ERROR"}, n \in {v.version} \cup (IF NetGood THEN {} ELSE {OFP_VERSION + 1})}

do_recv_accepts(v, m) == m.version = v.version \/ m.type \in {"ERROR", "ECHO_REPLY"}
is_admitted_msg(m) == m.type # "ERROR"

-----------------------------------------------------------------------------
(* rconn.c: states, clocks and the queue.                                  *)

Clocks == {"state", "received", "connected", "admitted", "questioned"}
Never == AgeLimit + 1

is_connected_state(s) == s \in {"ACTIVE", "IDLE"}
rconn_is_connected == is_connected_state(rc.state)

\* rconn_create.
rconn_create ==
    [state |-> "VOID", v |-> NoVconn, reliable |-> FALSE, txq |-> <<>>, n_queued |-> 0,
     backoff |-> 0, left |-> 0, age |-> [e \in Clocks |-> 0],
     questionable |-> FALSE, echo_xid |-> 0, probe |-> 1, passive |-> FALSE]

state_transition(r, s) == [r EXCEPT !.state = s, !.age["state"] = 0]

question_connectivity(r) ==
    IF r.age["questioned"] > QuestionSecs
    THEN [r EXCEPT !.questionable = TRUE, !.age["questioned"] = 0] ELSE r

\* timeout_STATE and timed_out.
timed_out(r) ==
    CASE r.state = "BACKOFF" -> r.age["state"] >= r.backoff
      [] r.state = "CONNECTING" -> r.age["state"] >= Most(1, r.backoff)
      [] r.state = "ACTIVE" -> ProbeInterval > 0
                               /\ Least(r.age["received"], r.age["state"]) >= ProbeInterval
      [] r.state = "IDLE" -> r.age["state"] >= ProbeInterval
      [] OTHER -> FALSE

flush_queue(r) == [r EXCEPT !.txq = <<>>, !.n_queued = 0]

rconn_disconnect(r) ==
    IF r.state = "VOID" THEN r
    ELSE state_transition([r EXCEPT !.v = NoVconn, !.reliable = FALSE,
                                    !.backoff = 0, !.left = 0], "VOID")

disconnect(r) ==
    IF ~r.reliable THEN rconn_disconnect(r)
    ELSE LET closed == IF r.state \in {"CONNECTING", "ACTIVE", "IDLE"}
                       THEN flush_queue([r EXCEPT !.v = NoVconn]) ELSE r
             wait == IF r.left = 0 THEN 1 ELSE Least(MaxBackoff, Most(1, 2 * r.backoff))
             gone == state_transition([closed EXCEPT !.backoff = wait, !.left = wait], "BACKOFF")
         IN  IF r.age["connected"] > QuestionSecs THEN question_connectivity(gone) ELSE gone

reconnect(r) ==
    {IF v = NoVconn THEN disconnect([r EXCEPT !.left = Never])
     ELSE state_transition([r EXCEPT !.v = v, !.left = r.backoff,
                                     !.reliable = r.reliable /\ Reconnectable], "CONNECTING") :
        v \in vconn_open}

\* The first k messages of the queue pass to the vconn: the last of them leaves
\* its xid in idle_echo_xid, and a later failure clears it.
Passed(r, k) ==
    LET gone == SubSeq(r.txq, 1, k)
    IN  [r EXCEPT !.txq = SubSeq(r.txq, k + 1, Len(r.txq)),
                  !.n_queued = r.n_queued - Cardinality({i \in 1..k : gone[i].counted}),
                  !.v.owed = r.v.owed \cup {gone[i].xid : i \in {j \in 1..k : gone[j].type = "ECHO_REQUEST"}},
                  !.echo_xid = IF k = 0 THEN @ ELSE gone[k].xid]

\* Up to n calls of try_send, until one returns an error.
Sends(r, n) ==
    UNION {LET q == [r EXCEPT !.v = v]
               again == {[Passed(q, k) EXCEPT !.echo_xid = 0] : k \in 0..(n - 1)}
           IN  CASE v.vcs = "DISCONNECTED" -> {disconnect([q EXCEPT !.echo_xid = 0])}
                 [] v.vcs # "CONNECTED" -> {[q EXCEPT !.echo_xid = 0]}
                 [] OTHER -> {Passed(q, n)} \cup
                             (IF NetGood THEN {} ELSE again \cup {disconnect(s) : s \in again}) :
           v \in vconn_connect(r.v)}

try_send(r) == Sends(r, 1)
do_tx_work(r) == IF r.txq = <<>> THEN {r} ELSE Sends(r, Len(r.txq))

\* rconn_send; a message is [type, xid, counted], counted with n_queued # NULL.
rconn_send(r, m) ==
    IF ~is_connected_state(r.state) THEN {r}
    ELSE LET q == [r EXCEPT !.txq = Append(r.txq, m),
                            !.n_queued = IF m.counted THEN @ + 1 ELSE @]
         IN  IF Len(q.txq) = 1 THEN try_send(q) ELSE {q}

rconn_send_with_limit(r, m) == IF r.n_queued >= QueueLimit THEN {r} ELSE rconn_send(r, m)

rconn_recv_ok(r, m) ==
    LET admit == is_admitted_msg(m) \/ r.age["connected"] >= AdmitSecs
        q == [r EXCEPT !.age["received"] = 0,
                       !.age["admitted"] = IF admit THEN 0 ELSE @,
                       !.v.owed = @ \ {m.xid}]
        reply == m.type = "ECHO_REPLY"
        alive == ~reply \/ r.echo_xid = 0 \/ r.echo_xid = m.xid
        p == IF alive THEN state_transition(q, "ACTIVE") ELSE q
    IN  IF r.state # "IDLE" THEN q
        ELSE IF reply THEN [p EXCEPT !.echo_xid = 0] ELSE p

rconn_recv(r) ==
    UNION {LET q == [r EXCEPT !.v = v]
           IN  CASE v.vcs = "DISCONNECTED" -> {disconnect(q)}
                 [] v.vcs # "CONNECTED" -> {q}
                 [] OTHER -> {q} \cup (IF NetGood THEN {} ELSE {disconnect(q)})
                             \cup {IF do_recv_accepts(v, m) THEN rconn_recv_ok(q, m) ELSE disconnect(q) :
                                     m \in PeerMessages(v)} :
           v \in vconn_connect(r.v)}

-----------------------------------------------------------------------------
(* rconn_run.                                                              *)

run_BACKOFF(r) == IF timed_out(r) THEN reconnect(r) ELSE {r}

\* Mutant: a connection attempt whose failure is not noticed.
RunConnectingIgnores(r) ==
    {LET q == [r EXCEPT !.v = v]
     IN  IF v.vcs = "CONNECTED" THEN [state_transition(q, "ACTIVE") EXCEPT !.age["connected"] = 0]
         ELSE q :
        v \in vconn_connect(r.v)}

run_CONNECTING(r) ==
    {LET q == [r EXCEPT !.v = v]
     IN  CASE v.vcs = "CONNECTED" -> [state_transition(q, "ACTIVE") EXCEPT !.age["connected"] = 0]
           [] v.vcs = "DISCONNECTED" -> disconnect(q)
           [] timed_out(r) /\ v.vcs \notin {"CONNECTED", "DISCONNECTED"} ->
                disconnect([q EXCEPT !.left = Never])
           [] OTHER -> q :
        v \in vconn_connect(r.v)}

make_echo_request(r) == [type |-> "ECHO_REQUEST", xid |-> r.probe, counted |-> FALSE]

run_ACTIVE(r) ==
    IF timed_out(r)
    THEN rconn_send([state_transition(r, "IDLE") EXCEPT !.probe = 3 - @], make_echo_request(r))
    ELSE do_tx_work(r)

run_IDLE(r) ==
    IF timed_out(r) THEN {disconnect(question_connectivity(r))} ELSE do_tx_work(r)

RunState(r) ==
    CASE r.state = "BACKOFF" -> run_BACKOFF(r)
      [] r.state = "CONNECTING" -> run_CONNECTING(r)
      [] r.state = "ACTIVE" -> run_ACTIVE(r)
      [] r.state = "IDLE" -> run_IDLE(r)
      [] OTHER -> {r}

\* One turn of the loop, from the connections whose last turn changed the state.
Turn(P) ==
    UNION {IF p.old = p.r.state THEN {p} ELSE {[old |-> p.r.state, r |-> q] : q \in RunState(p.r)} :
           p \in P}

\* No path of the loop is longer than five turns (LoopSettles).
RunLoop(r) == Turn(Turn(Turn(Turn(Turn({[old |-> "NONE", r |-> r]})))))
rconn_run(r) == {p.r : p \in RunLoop(r)}

-----------------------------------------------------------------------------
(* The owner of the connection, its peer and time.                         *)

\* rconn_connect_unreliably, with a vconn a listening socket has accepted.
rconn_new_from_vconn ==
    state_transition([rconn_create EXCEPT !.v = vconn_init("SEND_HELLO"), !.passive = TRUE], "ACTIVE")

RconnInit ==
    rc \in {rconn_create, rconn_new_from_vconn} /\ rc_net \in {"good", "bad"} /\ rc_ran = TRUE

RconnRun == rc' \in rconn_run(rc) /\ rc_ran' = TRUE /\ UNCHANGED rc_net

RconnRecv == rconn_is_connected /\ Len(rc.txq) <= QueueBound /\ rc' \in rconn_recv(rc) /\ UNCHANGED <<rc_net, rc_ran>>

RconnSend(counted) ==
    /\ Len(rc.txq) < QueueBound
    /\ LET m == [type |-> "DATA", xid |-> 3, counted |-> counted]
       IN  rc' \in (IF counted THEN rconn_send_with_limit(rc, m) ELSE rconn_send(rc, m))
    /\ UNCHANGED <<rc_net, rc_ran>>

rconn_connect ==
    /\ ~rc.passive /\ Len(rc.txq) <= QueueBound
    /\ rc' \in reconnect([rconn_disconnect(rc) EXCEPT !.reliable = TRUE])
    /\ UNCHANGED <<rc_net, rc_ran>>

RconnDisconnect == ~rc.passive /\ rc' = rconn_disconnect(rc) /\ UNCHANGED <<rc_net, rc_ran>>

rconn_is_connectivity_questionable ==
    rc.questionable /\ rc' = [rc EXCEPT !.questionable = FALSE] /\ UNCHANGED <<rc_net, rc_ran>>

NetChanges == rc_net' \in {"good", "bad"} \ {rc_net} /\ UNCHANGED <<rc, rc_ran>>

\* rconn_run_wait wakes the main loop when the state times out, so that no
\* second passes without a call of rconn_run.
RconnTick ==
    /\ rc_ran /\ rc_ran' = FALSE
    /\ rc' = [rc EXCEPT !.age = [e \in Clocks |-> Least(AgeLimit, rc.age[e] + 1)],
                        !.left = Most(0, @ - 1)]
    /\ UNCHANGED rc_net

RconnNext ==
    \/ RconnRun \/ RconnRecv \/ RconnTick \/ NetChanges
    \/ \E counted \in BOOLEAN : RconnSend(counted)
    \/ rconn_connect \/ RconnDisconnect
    \/ rconn_is_connectivity_questionable

\* The main loop calls rconn_run again and again, and time passes.
RconnSpec == RconnInit /\ [][RconnNext]_rconnVars /\ WF_rconnVars(RconnRun) /\ WF_rconnVars(RconnTick)

-----------------------------------------------------------------------------
(* Properties.                                                             *)

Counted(q) == Cardinality({i \in 1..Len(q) : q[i].counted})

\* A connection that takes messages has a vconn to send them on (run_ACTIVE's
\* "otherwise we can end up queuing a packet with vconn == NULL"); the client's
\* counter is exactly its messages in the queue; a connection that waits to
\* reconnect has dropped its vconn and its messages, and waits between one
\* second and max_backoff.
ConnectionUsable ==
    /\ rc.state \in {"CONNECTING", "ACTIVE", "IDLE"} <=> rc.v # NoVconn
    /\ rc.n_queued = Counted(rc.txq)
    /\ rc.state = "BACKOFF" => rc.reliable /\ rc.backoff \in 1..MaxBackoff
    /\ rc.state # "VOID" /\ ~is_connected_state(rc.state) => rc.left <= MaxBackoff

\* A peer that says nothing is noticed: no connection stays up for more than
\* two probe intervals after its last message (or after it was set up).
SilentPeerNoticed ==
    ProbeInterval > 0 /\ rconn_is_connected /\ rc_ran =>
        Least(rc.age["received"], rc.age["connected"]) < 2 * ProbeInterval

\* When the network stays good, a reliable connection is up again and again.
Reconnects == <>[](NetGood /\ rc.reliable) => []<>rconn_is_connected

\* rconn_create: "If the interval passes again without a message being
\* received, the rconn disconnects": the inactivity timeout takes down only
\* connections on which nothing arrived for the whole interval.
LivePeerKept ==
    [][rc.state = "IDLE" /\ timed_out(rc) /\ rc'.state = "BACKOFF" /\ rc_ran' # rc_ran
         => rc.age["received"] >= ProbeInterval]_rconnVars

\* rconn.h: "all queued messages are dropped when reconnection becomes
\* necessary": a connection is set up with nothing left from the one before.
QueueDroppedAtReconnect == rc.state = "CONNECTING" => rc.txq = <<>>

\* rconn_run settles: no path of its loop is longer than five turns.
LoopSettles == \A p \in RunLoop(rc) : p.old = p.r.state

=============================================================================
