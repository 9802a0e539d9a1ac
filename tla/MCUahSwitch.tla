---------------------------- MODULE MCUahSwitch ----------------------------
(* A ToR switch with two ports, and the frames its runs use.               *)
EXTENDS UahSwitch, TLC

CONSTANTS a, b, agr, self, BC

MCDp == [id |-> 1, mac |-> self, ports |-> 1 .. 2, ports_num |-> 3]

\* The second port leads to an aggregation switch.
MCNeighbors == << MacEntry(agr, 2, 1, PORT_AGR) >>

\* Nobody has said hello yet.
NoNeighbors == << >>

\* Two hosts that resolve each other's address and talk; one of them when the
\* aggregation switch may say hello, and a frame that is dropped early.
ArpFrames ==
    {Frame("arp_req", a, BC), Frame("arp_rep", b, a), Frame("data", a, b),
     Frame("bad_ttl", a, b)}

HelloFrames ==
    {Frame("arp_req", a, BC), Frame("arp_rep", b, a),
     [kind |-> "hello", src |-> agr, dst |-> BC, vecino |-> PORT_AGR]}

ArpTraffic == {ArpFrames, HelloFrames}

\* Connections of a client a to an elephant server b: two that may reach the
\* switch as path requests, one of them from the client itself as well; the
\* answer, data, and what makes the server known.
Syn(sport) == Segment("syn", a, b, sport, 40000, TRUE, FALSE)

SynAck == Segment("synack", b, a, 40000, 1, TRUE, FALSE)

TcpFrames ==
    {Syn(1), PathRequest(Syn(1)), PathRequest(Syn(3)), SynAck,
     Segment("tcp", a, b, 1, 40000, TRUE, TRUE), Frame("arp_rep", b, a)}

\* Three connections to a server that nobody has heard of.
PurgedFrames == (TcpFrames \ {Frame("arp_rep", b, a)}) \cup {Syn(2)}

\* A SYN that is too large for a path request, a segment that has lost its type
\* of service, and a connection that is no elephant.
OtherFrames ==
    {Segment("syn", a, b, 1, 40000, FALSE, FALSE), SynAck,
     Segment("tcp", a, b, 1, 40000, TRUE, FALSE), Segment("tcp", a, b, 1, 40000, TRUE, TRUE),
     Segment("syn", a, b, 1, 80, TRUE, FALSE), Frame("ipv6", a, b), Frame("arp_req", a, BC)}

TcpTraffic == {TcpFrames, PurgedFrames, OtherFrames}

\* What a switch with recovery may receive while ports fail; the last connection is
\* to TCP port 0.
Repair == RecoveryRequest([mac |-> agr], Frame("data", b, a))

RecoveryTraffic ==
    {{Segment("syn", a, b, 1, 80, TRUE, FALSE), Segment("synack", b, a, 80, 1, TRUE, FALSE),
      Frame("arp_rep", b, a), Frame("data", a, b)},
     {Frame("arp_rep", b, a), Frame("data", a, b), Repair,
      RecoveryReply(RecoveryRequest([mac |-> agr], Frame("data", a, b)))},
     {Segment("syn", a, b, 1, 80, TRUE, FALSE), Segment("synack", b, a, 80, 1, TRUE, FALSE),
      Repair, RecoveryReply(RecoveryRequest([mac |-> agr], Frame("data", a, b)))},
     {Segment("syn", a, b, 1, 0, TRUE, FALSE), Segment("synack", b, a, 0, 1, TRUE, FALSE),
      Segment("tcp", a, b, 1, 0, TRUE, FALSE)}}

-----------------------------------------------------------------------------
(* The scenarios.                                                          *)

ArpScenario ==
    [TCP_PATH |-> 0, controlador |-> 1, recuperacion |-> 0, RepairDecoded |-> FALSE,
     BT_TIME |-> 1, LT_TIME |-> 2, TCP_TIME |-> 2, TIME_RECOVERY |-> 1,
     Traffic |-> ArpTraffic, Neighbors |-> NoNeighbors, FlowHits |-> {"miss", "taken"},
     Failures |-> FALSE, MidTick |-> TRUE,
     TIME_ARP |-> 1, TIME_TCP_DELETE |-> 9, MaxTime |-> 3, MaxEntries |-> 3]

TcpScenario ==
    [ArpScenario EXCEPT
       !.TCP_PATH = 2, !.controlador = 0, !.TCP_TIME = 1, !.Traffic = TcpTraffic,
       !.Neighbors = MCNeighbors, !.FlowHits = {"miss"}, !.MidTick = FALSE,
       !.TIME_ARP = 9, !.TIME_TCP_DELETE = 1, !.MaxTime = 2]

RecoveryScenario ==
    [TcpScenario EXCEPT
       !.TCP_PATH = 1, !.recuperacion = 1, !.RepairDecoded = TRUE,
       !.Traffic = RecoveryTraffic, !.Failures = TRUE, !.FlowHits = {"miss", "passed_on"},
       !.TIME_TCP_DELETE = 9]

LeakScenario ==
    [ArpScenario EXCEPT
       !.controlador = 0, !.Neighbors = MCNeighbors, !.FlowHits = {"miss"}, !.MaxTime = 4]

MCScenarios == ("arp" :> ArpScenario) @@ ("tcp" :> TcpScenario) @@ ("recovery" :> RecoveryScenario)

MCLeakScenarios == "leak" :> LeakScenario
=============================================================================
