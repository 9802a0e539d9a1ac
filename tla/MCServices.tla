----------------------------- MODULE MCServices -----------------------------
(***************************************************************************)
(* The parts around the datapath: the library that packs and unpacks       *)
(* messages and matches, the secure channel with its port watcher, the     *)
(* spanning tree and the learning of addresses, the daemons' files, and    *)
(* the TFE-Path switches of the simulator.  They share no state; one of    *)
(* them, chosen at the start, takes all the steps of a behaviour, and the  *)
(* variables of the others have no value.                                  *)
(***************************************************************************)
EXTENDS MCMessages, Stp, Secchan, PortWatcher, MacLearning, TfeSwitch, Daemon

VARIABLE part

NoState == "no state"

-----------------------------------------------------------------------------
(* Instances. *)

EndsOf(links) == UNION links

OtherEnd(links) == [e \in EndsOf(links) |-> CHOOSE f \in EndsOf(links) : f # e /\ {e, f} \in links]

\* Three bridges, each with a link to the two others.
MCCable == OtherEnd({{<<1, 1>>, <<2, 1>>}, {<<1, 2>>, <<3, 1>>}, {<<2, 2>>, <<3, 2>>}})

\* Two ToR switches with a host each, under two aggregation switches.
MCTfeCable ==
    OtherEnd({{<<"client", 1>>, <<"t1", 1>>}, {<<"server", 1>>, <<"t2", 1>>},
              {<<"t1", 2>>, <<"a1", 1>>}, {<<"t1", 3>>, <<"a2", 1>>},
              {<<"t2", 2>>, <<"a1", 2>>}, {<<"t2", 3>>, <<"a2", 2>>}})
MCHierarchy  == [s \in TfeSwitches |-> IF s \in {"a1", "a2"} THEN "Aggr" ELSE "Tor"]
MCUpperPorts == {<<"t1", 2>>, <<"t1", 3>>, <<"t2", 2>>, <<"t2", 3>>}

\* Fields with and without prerequisites and masks, and one with bits outside its mask.
MCTlvs ==
    {Tlv("IN_PORT", FALSE, 1), Tlv("IN_PHY_PORT", FALSE, 1), Tlv("ETH_TYPE", FALSE, "ipv6"),
     Tlv("VLAN_VID", FALSE, 0), [Tlv("VLAN_VID", TRUE, 4097) EXCEPT !.bad = TRUE],
     Tlv("VLAN_PCP", FALSE, 3), Tlv("IP_PROTO", FALSE, "icmpv6"), Tlv("ICMPV6_TYPE", FALSE, 135),
     Tlv("ICMPV6_TYPE", FALSE, 136), Tlv("IPV6_ND_SLL", FALSE, 1), Tlv("IPV6_ND_TLL", FALSE, 1),
     Tlv("ETH_TYPE", FALSE, "ip"), Tlv("IPV4_DST", TRUE, 1)}

MCArrivals == [local |-> 2, remote |-> 1]

MCRooms == {-1, 0, 1}

\* Two stations share one bucket of the hash table.
MCHashOf == [w \in Macs \X Vlans |-> IF w[1] = 1 THEN 0 ELSE 8]

-----------------------------------------------------------------------------
NoStp     == bridges = NoState /\ lan = NoState /\ events = NoState /\ quiet = NoState
NoTrip    == sent = NoState /\ kept = NoState /\ reported = NoState /\ read = NoState
NoCodec   == outgoing = NoState /\ image = NoState /\ incoming = NoState
NoSecchan == sc = NoState /\ arrived = NoState /\ ideal = NoState
NoWatcher == pw = NoState /\ stp_on = NoState /\ dp = NoState /\ changes = NoState
NoMac     == ml = NoState /\ flows = NoState /\ evicted = NoState
NoTfe     == tfe = NoState /\ tfe_wire = NoState /\ ends = NoState /\ tfe_now = NoState /\ tfe_dead = NoState
NoDaemon  == proc = NoState /\ disk = NoState

ServicesInit ==
    /\ part \in {"stp", "trip", "codec", "secchan", "watcher", "mac", "tfe", "daemon"}
    /\ IF part = "stp" THEN StpInit ELSE NoStp
    /\ IF part = "trip" THEN TripInit ELSE NoTrip
    /\ IF part = "codec" THEN CodecInit ELSE NoCodec
    /\ IF part = "secchan" THEN SecchanInit ELSE NoSecchan
    /\ IF part = "watcher" THEN port_watcher_start ELSE NoWatcher
    /\ IF part = "mac" THEN MacInit ELSE NoMac
    /\ IF part = "tfe" THEN TfeInit ELSE NoTfe
    /\ IF part = "daemon" THEN DaemonInit ELSE NoDaemon

servicesVars == <<part, stpVars, tripVars, codecVars, secchanVars, watcherVars, macVars, tfeVars, daemonVars>>

StpStep ==
    /\ part = "stp" /\ StpNext
    /\ UNCHANGED <<part, tripVars, codecVars, secchanVars, watcherVars, macVars, tfeVars, daemonVars>>

TripStep ==
    /\ part = "trip" /\ TripNext
    /\ UNCHANGED <<part, stpVars, codecVars, secchanVars, watcherVars, macVars, tfeVars, daemonVars>>

CodecStep ==
    /\ part = "codec" /\ CodecNext
    /\ UNCHANGED <<part, stpVars, tripVars, secchanVars, watcherVars, macVars, tfeVars, daemonVars>>

SecchanStep ==
    /\ part = "secchan" /\ SecchanNext
    /\ UNCHANGED <<part, stpVars, tripVars, codecVars, watcherVars, macVars, tfeVars, daemonVars>>

WatcherStep ==
    /\ part = "watcher" /\ WatcherNext
    /\ UNCHANGED <<part, stpVars, tripVars, codecVars, secchanVars, macVars, tfeVars, daemonVars>>

MacStep ==
    /\ part = "mac" /\ MacNext
    /\ UNCHANGED <<part, stpVars, tripVars, codecVars, secchanVars, watcherVars, tfeVars, daemonVars>>

TfeStep ==
    /\ part = "tfe" /\ TfeNext
    /\ UNCHANGED <<part, stpVars, tripVars, codecVars, secchanVars, watcherVars, macVars, daemonVars>>

DaemonStep ==
    /\ part = "daemon" /\ DaemonNext
    /\ UNCHANGED <<part, stpVars, tripVars, codecVars, secchanVars, watcherVars, macVars, tfeVars>>

ServicesNext ==
    StpStep \/ TripStep \/ CodecStep \/ SecchanStep \/ WatcherStep \/ MacStep \/ TfeStep \/ DaemonStep

ServicesSpec == ServicesInit /\ [][ServicesNext]_servicesVars

-----------------------------------------------------------------------------
(* Properties: those of the components. *)

\* lib/stp.c: forwarding links close no cycle at any time, and a tree that joins
\* all bridges stands within a fixed time after the last change.
BridgesFormTree == part = "stp" => NoBridgeLoop /\ TreeStands

\* oflib/oxm-match.c: a match the switch accepts is well formed, and what it reports
\* of it unpacks to the same match.
MatchesSurvive == part = "trip" => AcceptedIsWellFormed /\ ReportedAsKept

\* oflib pack and unpack functions: a message is unpacked as it was packed, or refused
\* where openflow.h does not allow it, and fills the buffer allocated for it.
MessagesSurvive == part = "codec" => ArrivesAsSent /\ BufferIsFilled


\* port-watcher.c: names and spanning tree follow the ports, in the trie of port-array.c.
PortsFollowed == part = "watcher" => NamesAreLive /\ SpanningTreeFollows

\* mac-learning.c: hash lists and the LRU list agree, and no flow sends a station's
\* packets where the table does not know it, unless its tag was revalidated.
LearningAgrees == part = "mac" => MacListsAgree /\ FlowsFollowTable

\* The ns-3 TFE-Path switch: broadcasts go up and then down, locked ports lead back
\* to the client, and a missing port is used only after its entry expired.
TfePathsHold ==
    part = "tfe" => FloodGoesUpThenDown /\ LocksLeadToClient /\ NullOnlyAfterExpiry

\* daemon.c, fatal-signal.c: a pid file that can be read belongs to a process that holds
\* its lock, and files are removed with the process whose they are.
PidFilesHold == part = "daemon" => ObserversSeeLocked /\ FilesFollowProcess
=============================================================================
