----------------------------- MODULE MCDatapath -----------------------------
(***************************************************************************)
(* The parts of a datapath that share no state with each other: packet     *)
(* buffers, controllers, ports, table features, the actions on a packet    *)
(* and the checksums they keep.  One of them, chosen at the start, takes   *)
(* all the steps of a behaviour.                                           *)
(***************************************************************************)
EXTENDS DpBuffers, DpRemotes, DpPorts, TableFeatures, PacketActions, Csum

CONSTANT Chosen   \* the parts that may be chosen

VARIABLE part

allVars == <<vars, remotesVars, portsVars, featureVars, packetVars, csumVars, part>>

\* A controller may ask for everything but packets, flows that timed out and, as a
\* slave, ports.
MCAsyncConfigs ==
    {[Everything EXCEPT !.flow_removed = {"DELETE"}, !.packet_in = {}, !.port_status_slave = {}]}

\* A port is put down, put up, and left alone by a mask of its own.
MCPortMods == {<< {"PORT_DOWN"}, {"PORT_DOWN"} >>, << {"PORT_DOWN"}, {} >>, << {}, {"PORT_DOWN"} >>}

\* Requests for no table, one, one twice, all, one that is not there, and one that
\* is too large.
Feature(t) == [table_id |-> t, fits |-> TRUE]

MCBodies ==
    {<<>>, <<Feature(0)>>, <<Feature(1), Feature(0), Feature(1)>>, <<Feature(2)>>, <<Feature(3)>>,
     <<[Feature(1) EXCEPT !.fits = FALSE]>>, <<Feature(0), Feature(1), Feature(2)>>}

\* TCP on IPv4, UDP on IPv6 with a VLAN tag, ARP, and ICMP below two MPLS labels.
MCArriving ==
    {<<Hdr("eth", "ipv4"), Hdr("ipv4", "tcp"), Hdr("tcp", "-")>>,
     <<Hdr("eth", "vlan"), Hdr("vlan", "ipv6"), Hdr("ipv6", "udp"), Hdr("udp", "-")>>,
     <<Hdr("eth", "arp"), Hdr("arp", "-")>>,
     <<Hdr("eth", "mpls"), [Hdr("mpls", "-") EXCEPT !.s = FALSE], Hdr("mpls", "-"),
       Hdr("ipv4", "icmp"), Hdr("icmp", "-")>>}

\* A component whose part was not chosen stays in one of its initial states.
IdleFeatures == answer = NoAnswer(CHOOSE r \in Controllers : TRUE) /\ FeaturesInit
IdlePacket   == pkt = fresh_handle(<<>>, FALSE) /\ source = "flow" /\ asked = {} /\ executed = 0
IdleCsum     == packet = [i \in 1..PacketWords |-> 0]
                /\ checksum = [value |-> WordValues - 1, lost |-> FALSE]

DatapathInit ==
    /\ part \in Chosen
    /\ Init /\ RemotesInit /\ PortsInit
    /\ IF part = "features" THEN FeaturesInit ELSE IdleFeatures
    /\ IF part = "actions" THEN PacketInit ELSE IdlePacket
    /\ IF part = "csum" THEN CsumInit ELSE IdleCsum

BuffersStep ==
    /\ part = "buffers" /\ QuickNext
    /\ UNCHANGED <<remotesVars, portsVars, featureVars, packetVars, csumVars, part>>

RemotesStep(A) ==
    /\ part = "remotes" /\ A
    /\ UNCHANGED <<vars, portsVars, featureVars, packetVars, csumVars, part>>

PortsStep ==
    /\ part = "ports" /\ PortsNext
    /\ UNCHANGED <<vars, remotesVars, featureVars, packetVars, csumVars, part>>

FeaturesStep ==
    /\ part = "features" /\ FeaturesNext
    /\ UNCHANGED <<vars, remotesVars, portsVars, packetVars, csumVars, part>>

PacketStep ==
    /\ part = "actions" /\ PacketNext
    /\ UNCHANGED <<vars, remotesVars, portsVars, featureVars, csumVars, part>>

CsumStep ==
    /\ part = "csum" /\ CsumNext
    /\ UNCHANGED <<vars, remotesVars, portsVars, featureVars, packetVars, part>>

DatapathNext ==
    BuffersStep \/ RemotesStep(RemotesNext) \/ PortsStep \/ FeaturesStep \/ PacketStep \/ CsumStep

\* The fairness of RemotesFairSpec.
DatapathSpec ==
    /\ DatapathInit /\ [][DatapathNext]_allVars
    /\ \A r \in Remotes : WF_allVars(RemotesStep(remote_destroy(r)))
=============================================================================
