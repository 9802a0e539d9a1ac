---------------------------- MODULE MCConnection ----------------------------
(***************************************************************************)
(* What a program of the repository stands on: reliable connections, the   *)
(* stream of messages below them, and the main loop.  The three share no   *)
(* state; one of them, chosen at the start, takes all the steps of a       *)
(* behaviour, and the others stay in their first state.                    *)
(***************************************************************************)
EXTENDS Rconn, VconnStream, EventLoop

VARIABLE part

connectionVars == <<part, rconnVars, streamVars, loopVars>>

\* Messages of a header only, and with one and two more units.
MCLengths == <<2, 4, 3>>

MCKids == <<"k1", "k2">>

MCUserSignals == <<"SIGHUP">>

IdleRconn == rc = rconn_create /\ rc_net = "good" /\ rc_ran = TRUE
IdleLoop  == LoopInit /\ time = [now |-> 0, deadline |-> 0]

ConnectionInit ==
    /\ part \in {"rconn", "stream", "loop"}
    /\ StreamInit
    /\ IF part = "rconn" THEN RconnInit ELSE IdleRconn
    /\ IF part = "loop" THEN LoopInit ELSE IdleLoop

RconnStep(A) == part = "rconn" /\ A /\ UNCHANGED <<part, streamVars, loopVars>>

StreamStep(A) == part = "stream" /\ A /\ UNCHANGED <<part, rconnVars, loopVars>>

LoopStep(A) == part = "loop" /\ A /\ UNCHANGED <<part, rconnVars, streamVars>>

ConnectionNext == RconnStep(RconnNext) \/ StreamStep(StreamNext) \/ LoopStep(LoopNext)

\* The fairness of StreamSpec and LoopSpec, and that of RconnSpec: only RconnRun makes
\* rc_ran true, and it can whenever rc_ran is false; only RconnTick makes it false, and
\* it can whenever rc_ran is true.
ConnectionSpec ==
    /\ ConnectionInit /\ [][ConnectionNext]_connectionVars
    /\ []<>(part = "rconn" => rc_ran) /\ []<>(part = "rconn" => ~rc_ran)
    /\ WF_connectionVars(StreamStep(stream_do_tx)) /\ WF_connectionVars(StreamStep(stream_recv))
    /\ WF_connectionVars(LoopStep(MainStep))
    /\ WF_connectionVars(LoopStep(\E s \in AllSignals : Interrupted(s)))

-----------------------------------------------------------------------------
(* Properties: those of the components. *)

\* rconn.c: a connection can be used whenever it takes messages, and a silent peer is
\* noticed, whatever the network does; when the network stays good, it is up again.
ConnectionHolds == [](ConnectionUsable /\ SilentPeerNoticed) /\ Reconnects

\* vconn-stream.c: the units of messages are never lost, doubled or mixed, and a
\* message that was taken arrives.
StreamDelivers == []StreamIntact /\ SentArrives

\* poll-loop.c, process.c, signals.c: what a signal handler notes is acted on, and the
\* loop sleeps no longer than it was told.
LoopWakes == []SleepsNoLonger /\ NothingMissed
=============================================================================
