------------------------------ MODULE DpPorts ------------------------------
(***************************************************************************)
(* The ports of a datapath and their queues: udatapath/dp_ports.c without  *)
(* the tables of TCP-Path.  A port has a configuration that controllers    *)
(* change, a link whose state dp_ports_run looks at in every pass, and     *)
(* queues, each with a class that the network device keeps.                *)
(***************************************************************************)
EXTENDS Integers, FiniteSets

CONSTANTS
    DP_MAX_PORTS,  \* the size of the array of ports
    Names,         \* the devices the datapath is started with
    LOCAL_PORT,    \* OFPP_LOCAL
    PortMods,      \* the masks and flags of the port-mods: pairs
    max_queues,    \* of a port; its queue ids are 0 .. max_queues - 1
    OFPP_ANY,      \* no port: all of them
    OFPQ_ALL       \* no queue: all of them

Flags == {"PORT_DOWN", "NO_RECV", "NO_FWD", "NO_PACKET_IN"}

ASSUME PortsAssumption ==
    /\ {DP_MAX_PORTS, max_queues} \subseteq Nat \ {0}
    /\ {LOCAL_PORT, OFPP_ANY, OFPQ_ALL} \cap Nat = {} /\ OFPP_ANY # LOCAL_PORT
    /\ IsFiniteSet(Names)
    /\ PortMods \subseteq (SUBSET Flags) \X (SUBSET Flags)

\* dp_ports_add looks for a free place in 1 .. DP_MAX_PORTS - 1.
Numbers == 1 .. DP_MAX_PORTS - 1

PortNos == Numbers \cup {LOCAL_PORT}

QueueIds == 0 .. max_queues - 1

VARIABLES
    phase,       \* of the program: "starting", then "running"
    waiting,     \* the devices of the command line not opened yet
    ports,       \* the ports of port_list, the local one included
    ports_num,   \* dp->ports_num
    conf,        \* the configuration flags of every port
    link,        \* the ports whose link is up
    link_down,   \* the ports in state OFPPS_LINK_DOWN
    live,        \* the ports in state OFPPS_LIVE
    queues,      \* the queues of every port
    num_queues   \* and how many the port says it has

portsVars == <<phase, waiting, ports, ports_num, conf, link, link_down, live, queues, num_queues>>

openedVars == <<phase, waiting, ports, ports_num>>
stateVars  == <<conf, link_down, live>>
queueVars  == <<queues, num_queues>>

PortsInit ==
    /\ phase = "starting"
    /\ waiting = Names
    /\ ports = {}
    /\ ports_num = 0
    /\ conf = [p \in PortNos |-> {}]
    /\ link = PortNos
    /\ link_down = {}
    /\ live = {}
    /\ queues = [p \in PortNos |-> {}]
    /\ num_queues = [p \in PortNos |-> 0]

-----------------------------------------------------------------------------
(* Start: the devices of the command line, then the local port if wanted.  *)

new_port(p) ==
    /\ ports' = ports \cup {p}
    /\ ports_num' = ports_num + 1
    /\ live' = live \cup {p}
    /\ UNCHANGED <<conf, link, link_down, queues, num_queues>>

Starting == phase = "starting"

\* A device that cannot be opened takes no number; when the array is full,
\* neither.
dp_ports_add(name) ==
    /\ Starting /\ name \in waiting
    /\ waiting' = waiting \ {name}
    /\ UNCHANGED phase
    /\ LET free == Numbers \ ports
       IN  \/ free # {} /\ new_port(CHOOSE p \in free : \A q \in free : p <= q)
           \/ UNCHANGED <<ports, ports_num, stateVars, link, queueVars>>

\* With --no-local-port there is none.
dp_ports_add_local ==
    /\ Starting /\ waiting = {}
    /\ phase' = "running"
    /\ \/ new_port(LOCAL_PORT)
       \/ UNCHANGED <<ports, ports_num, stateVars, link, queueVars>>
    /\ UNCHANGED waiting

-----------------------------------------------------------------------------
(* The main loop.                                                          *)

\* Does dp_ports_lookup find port p?  The local port is not one of the numbers.
dp_ports_lookup(p) ==
    \/ p = LOCAL_PORT /\ LOCAL_PORT \in ports
    \/ p \in 1 .. (IF LOCAL_PORT \in ports THEN ports_num - 1 ELSE ports_num)

\* Mutant: a port that is down by configuration stays live.
LiveByLink(p, flags, down) == IF p \in down THEN live \ {p} ELSE live \cup {p}

\* dp_port_live_update, from the flags of p and the ports with a failed link.
dp_port_live_update(p, flags, down) ==
    IF p \in down \/ "PORT_DOWN" \in flags THEN live \ {p} ELSE live \cup {p}

\* The link of a device goes up or down (external).
LinkChanges(p) ==
    /\ link' = IF p \in link THEN link \ {p} ELSE link \cup {p}
    /\ UNCHANGED <<openedVars, stateVars, queueVars>>

\* dp_ports_run looks at the link of port p.
dp_ports_run(p) ==
    /\ ~Starting /\ p \in ports
    /\ link_down' = IF p \in link THEN link_down \ {p} ELSE link_down \cup {p}
    /\ live' = dp_port_live_update(p, conf[p], link_down')
    /\ UNCHANGED <<openedVars, conf, link, queueVars>>

-----------------------------------------------------------------------------
(* Messages of controllers.  One that is refused changes nothing.          *)

dp_ports_handle_port_mod(p, mask, flags) ==
    /\ ~Starting
    /\ dp_ports_lookup(p)
    /\ conf' = [conf EXCEPT ![p] = (@ \ mask) \cup (flags \cap mask)]
    /\ live' = IF mask = {} THEN live ELSE dp_port_live_update(p, conf'[p], link_down)
    /\ UNCHANGED <<openedVars, link, link_down, queueVars>>

\* Does dp_ports_lookup_queue find queue q?  The local port has no queues.
dp_ports_lookup_queue(p, q) == q \in queues[p]

port_add_queue(p, q) ==
    /\ p # LOCAL_PORT /\ q \notin queues[p]
    /\ queues' = [queues EXCEPT ![p] = @ \cup {q}]
    /\ num_queues' = [num_queues EXCEPT ![p] = @ + 1]

\* A queue that exists gets another rate, which is not modelled; a new one is
\* created, and stays when the device refuses its class and an error is returned.
dp_ports_handle_queue_modify(p, q) ==
    /\ ~Starting
    /\ dp_ports_lookup(p) /\ ~dp_ports_lookup_queue(p, q)
    /\ port_add_queue(p, q)
    /\ UNCHANGED <<openedVars, stateVars, link>>

\* Mutant: the count is not kept.
DeletesQueueOnly(p, q) ==
    /\ queues' = [queues EXCEPT ![p] = @ \ {q}]
    /\ UNCHANGED num_queues

port_delete_queue(p, q) ==
    /\ queues' = [queues EXCEPT ![p] = @ \ {q}]
    /\ num_queues' = [num_queues EXCEPT ![p] = @ - 1]

dp_ports_handle_queue_delete(p, q) ==
    /\ ~Starting
    /\ dp_ports_lookup(p) /\ dp_ports_lookup_queue(p, q)
    /\ port_delete_queue(p, q)
    /\ UNCHANGED <<openedVars, stateVars, link>>

-----------------------------------------------------------------------------
(* Requests.  A reply is allocated with num places; stats is what is written *)
(* there.  A request about queues gets the places of every port in turn.     *)

PortsAsked(port) ==
    IF port = OFPP_ANY THEN ports ELSE IF dp_ports_lookup(port) THEN {port} ELSE {}

dp_ports_handle_stats_request_port(port) ==
    [num |-> IF port = OFPP_ANY THEN ports_num ELSE IF dp_ports_lookup(port) THEN 1 ELSE 0,
     stats |-> PortsAsked(port)]

dp_ports_handle_port_desc_request == [num |-> ports_num, stats |-> ports]

dp_ports_handle_stats_request_queue(port, q) ==
    [p \in PortsAsked(port) |->
        [num |-> IF q = OFPQ_ALL THEN num_queues[p] ELSE IF dp_ports_lookup_queue(p, q) THEN 1 ELSE 0,
         stats |-> IF q = OFPQ_ALL THEN queues[p] ELSE queues[p] \cap {q}]]

dp_ports_handle_queue_get_config_request(port) ==
    [p \in PortsAsked(port) |-> [num |-> num_queues[p], stats |-> queues[p]]]

-----------------------------------------------------------------------------

PortsNext ==
    \/ \E name \in Names : dp_ports_add(name)
    \/ dp_ports_add_local
    \/ \E p \in PortNos :
          \/ LinkChanges(p)
          \/ dp_ports_run(p)
          \/ \E m \in PortMods : dp_ports_handle_port_mod(p, m[1], m[2])
          \/ \E q \in QueueIds : \/ dp_ports_handle_queue_modify(p, q)
                                 \/ dp_ports_handle_queue_delete(p, q)

PortsSpec == PortsInit /\ [][PortsNext]_portsVars

-----------------------------------------------------------------------------
(* Properties.                                                             *)

\* The state is of its type.
PortsTypeOK ==
    /\ phase \in {"starting", "running"} /\ waiting \subseteq Names
    /\ ports \subseteq PortNos /\ ports_num \in 0 .. DP_MAX_PORTS
    /\ conf \in [PortNos -> SUBSET Flags]
    /\ {link, link_down, live} \subseteq SUBSET PortNos
    /\ queues \in [PortNos -> SUBSET QueueIds]
    /\ num_queues \in [PortNos -> Nat]

\* dp_ports_lookup, which only compares a number with how many ports there
\* are, finds the ports that were added and no others, also when devices could
\* not be opened, when the array is full and without a local port.
LookupFindsPorts == \A p \in PortNos \cup {DP_MAX_PORTS} : dp_ports_lookup(p) <=> p \in ports

\* The state OFPPS_LIVE, on which TCP-Path and fast failover rely, is always that
\* of a port whose link and configuration are up, as far as the switch knows.
LiveAgrees ==
    live = {p \in ports : p \notin link_down /\ "PORT_DOWN" \notin conf[p]}

Fits(reply) == reply.num = Cardinality(reply.stats)

\* The replies about ports and queues are allocated for the ports and the queues
\* that are counted, and filled with those there are: every place is written, and
\* nothing behind the last, whichever queues were created and deleted before.
RepliesFit ==
    /\ Fits(dp_ports_handle_port_desc_request)
    /\ \A port \in ports \cup {OFPP_ANY} :
          /\ Fits(dp_ports_handle_stats_request_port(port))
          /\ \A p \in PortsAsked(port) :
                /\ Fits(dp_ports_handle_queue_get_config_request(port)[p])
                /\ \A q \in QueueIds \cup {OFPQ_ALL} :
                      Fits(dp_ports_handle_stats_request_queue(port, q)[p])
=============================================================================
