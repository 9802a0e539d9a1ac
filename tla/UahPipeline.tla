---------------------------- MODULE UahPipeline ----------------------------
(***************************************************************************)
(* What a TCP-Path switch does with one frame: the UAH part of             *)
(* udatapath/pipeline.c, with the flooding of udatapath/dp_ports.c and the *)
(* hello and recovery frames of udatapath/packet.c.                        *)
(*                                                                         *)
(* A function of the code that works on the switch's tables is an operator *)
(* from the tables before the call, r.sw, to the tables after it.  What    *)
(* the call does with frames is collected in r: out is the sequence of     *)
(* transmissions, each a set of ports and a frame, ctl the number of       *)
(* packet-ins sent and freed the number of calls of packet_destroy for the *)
(* frame received.                                                         *)
(*                                                                         *)
(* d is the datapath: id, mac (the address of its first port), ports and   *)
(* ports_num, which counts the local port too.  live are the ports whose   *)
(* state is OFPPS_LIVE, and time is what time_msec() returns.  The modules *)
(* that use this one give the constants the values of a scenario.          *)
(***************************************************************************)
EXTENDS PathTables

CONSTANTS
    BROADCAST,       \* a broadcast or multicast destination
    Scenarios,       \* the ways the program is built, started and used, by name
    PUERTO_ELEFANTE  \* TCP ports above it are an elephant's

VARIABLE scenario    \* the scenario, which never changes

option == Scenarios[scenario]

\* Compile-time settings.
TCP_PATH      == option.TCP_PATH       \* 0: ARP-Path, 1: TCP-Path, 2: TCP-Path for elephants
controlador   == option.controlador    \* 1: the addresses of hosts are sent to the controller
recuperacion  == option.recuperacion   \* 1: recover from failed ports
RECOVERY_DIST == 1                     \* 0: the controller recovers, 1: the switches do
RepairDecoded == option.RepairDecoded  \* does the NetPDL file decode recovery requests?
BT_TIME       == option.BT_TIME        \* lifetimes: an address learnt from a broadcast,
LT_TIME       == option.LT_TIME        \*   an address confirmed by a unicast frame,
TCP_TIME      == option.TCP_TIME       \*   a TCP connection,
TIME_RECOVERY == option.TIME_RECOVERY  \*   a hello or a recovery entry

-----------------------------------------------------------------------------
(* Frames.  The fields a kind of frame does not have are left out.         *)

Frame(kind, src, dst) == [kind |-> kind, src |-> src, dst |-> dst]

TcpKinds == {"syn", "synack", "tcp"}

\* small: fewer than 93 bytes; tos: a type of service that is not 0.
Segment(kind, src, dst, sport, dport, small, tos) ==
    [kind |-> kind, src |-> src, dst |-> dst, sport |-> sport, dport |-> dport,
     small |-> small, tos |-> tos]

hello(d) == [kind |-> "hello", src |-> d.mac, dst |-> BROADCAST,
             vecino |-> IF d.id < 100 THEN PORT_TOR
                        ELSE IF d.id < 1000 THEN PORT_AGR ELSE PORT_CORE]

\* A SYN becomes a path request for mac.  Its contador, which every switch
\* counts up (switch_track_tcp), is read by nobody and left out.
PathRequest(f) ==
    [kind |-> "path", src |-> f.src, dst |-> BROADCAST, mac |-> f.dst,
     sport |-> f.sport, dport |-> f.dport, tos |-> f.tos]

desencapsulate_path_request_tcp(f) ==
    Segment("syn", f.src, f.mac, f.sport, f.dport, TRUE, f.tos)

\* packet_recovery_create: the request asks for the destination of f, the
\* reply is sent in the name of the host that was asked for.
RecoveryRequest(d, f) ==
    [kind |-> "repair_req", src |-> d.mac, dst |-> BROADCAST,
     mac_src |-> f.src, mac_dst |-> f.dst]

\* Mutant: sent in the name of the host that asks.
ReplyInWrongName(f) ==
    [kind |-> "repair_rep", src |-> f.mac_src, dst |-> BROADCAST,
     mac_src |-> f.mac_dst, mac_dst |-> f.mac_src]

RecoveryReply(f) ==
    [kind |-> "repair_rep", src |-> f.mac_dst, dst |-> BROADCAST,
     mac_src |-> f.mac_dst, mac_dst |-> f.mac_src]

ConnOf(f) ==
    Conn(f.src, IF f.kind = "path" THEN f.mac ELSE f.dst, f.sport, f.dport)

-----------------------------------------------------------------------------
(* Results and output.                                                     *)

Result(sw) == [sw |-> sw, out |-> << >>, ctl |-> 0, freed |-> 0]

packet_destroy(r) == [r EXCEPT !.freed = @ + 1]

Send(r, ports, f) ==
    [r EXCEPT !.out = Append(@, [ports |-> ports, frame |-> f])]

ToController(r) == [r EXCEPT !.ctl = @ + 1]

\* dp_actions_output_port to a port: never back to the port of arrival.
Output(r, f, in, port) == IF port = in THEN r ELSE Send(r, {port}, f)

\* dp_actions_output_port to OFPP_FLOOD; no port has OFPPC_NO_FWD.
Flood(d, r, f, in) == Send(r, d.ports \ {in}, f)

\* Up-and-down flooding: a switch near the hosts sends what comes from above
\* to its hosts only, one in the middle sends what comes from above down.
\* A row of Matriz_bc is a permutation of 0 .. ports_num - 1; as a frame goes
\* to all its ports in one step the order does not matter.
FloodsTo(d, sw, in, port) ==
    LET from == tipo_switch_port(sw.neighbor_table, in)
        to   == tipo_switch_port(sw.neighbor_table, port)
    IN  \/ d.id >= 1000
        \/ d.id \in 100 .. 999 /\ (from = PORT_TOR \/ (from = PORT_CORE /\ to = PORT_TOR))
        \/ d.id < 100 /\ (from = PORT_HOST \/ to = PORT_HOST)

dp_ports_output_random(d, r, f, in) ==
    Send(r, {p \in d.ports \ {in} : p < d.ports_num /\ FloodsTo(d, r.sw, in, p)}, f)

send_packet_recovery(d, r, frame) == Flood(d, r, frame, 0)

-----------------------------------------------------------------------------
(* ARP-Path.                                                               *)

\* The bookkeeping of a measurement: 0, then 1 at the first failure, 2 when a
\* frame gets through again.
Failed(sw) ==
    IF sw.puerto_no_disponible = 0
    THEN [sw EXCEPT !.puerto_no_disponible = 1] ELSE sw

Recovered(sw) ==
    IF recuperacion = 1 /\ sw.puerto_no_disponible = 1
    THEN [sw EXCEPT !.puerto_no_disponible = 2] ELSE sw

\* Ask for the destination of f unless that was done a moment ago.
StartRecovery(d, r, f, in, time, mac_port) ==
    IF mac_to_port_check_timeout(r.sw.recovery_table, f.dst, time) = 0 THEN r
    ELSE LET asked == [r EXCEPT !.sw.recovery_table =
                          mac_to_port_add(@, f.dst, in, time + TIME_RECOVERY),
                                !.sw.mac_port = mac_port]
         IN  IF RECOVERY_DIST = 0 THEN ToController(asked)
             ELSE send_packet_recovery(d, asked, RecoveryRequest(d, f))

\* The state of the port matters only to recovery.
Usable(out, live) == out # -1 /\ (recuperacion = 0 \/ out \in live)

arp_path_send_unicast(d, r, f, in, out, live, time) ==
    IF Usable(out, live)
    THEN Output([r EXCEPT !.sw = [Recovered(r.sw) EXCEPT !.mac_port =
                    mac_to_port_time_refresh(@, f.dst, time + LT_TIME)]],
                f, in, out)
    ELSE IF recuperacion = 0 THEN r
    ELSE StartRecovery(d, [r EXCEPT !.sw = Failed(@)], f, in, time,
             IF out = -1 THEN r.sw.mac_port
             ELSE mac_to_port_delete_port(r.sw.mac_port, out))

\* Mutant: every copy is accepted.
NeverLocked(t, f, in, found, time) == FALSE

\* What a broadcast frame teaches; a frame from another port than the one
\* its source is locked to is not accepted.
LockedOut(t, f, in, found, time) ==
    found \notin {-1, in} /\ mac_to_port_check_timeout(t, f.src, time) = 0

\* Mutant: a source that is not known is not learnt.
LearnsNothingNew(t, f, in, found, vecino, time) ==
    IF found = -1 THEN t ELSE mac_to_port_update(t, f.src, in, time + BT_TIME)

LearnBroadcast(t, f, in, found, vecino, time) ==
    IF found = -1 THEN mac_to_port_add_arp_table(t, f.src, in, time + BT_TIME, vecino)
    ELSE IF found = in THEN mac_to_port_time_refresh(t, f.src, time + BT_TIME)
    ELSE mac_to_port_update(t, f.src, in, time + BT_TIME)

\* What a unicast frame teaches: only ARP replies do.
LearnUnicast(t, f, in, found, vecino, time) ==
    IF f.kind \notin {"arp_rep", "arppath"} THEN t
    ELSE IF found = -1 THEN mac_to_port_add_arp_table(t, f.src, in, time + LT_TIME, vecino)
    ELSE IF mac_to_port_check_timeout(t, f.src, time) = 1
    THEN mac_to_port_update(t, f.src, in, time + LT_TIME)
    ELSE mac_to_port_time_refresh(t, f.src, time + LT_TIME)

\* send_macs_to_ctr, of a clone taken before the frame was processed.
TellController(r, f, in) ==
    IF /\ controlador = 1
       /\ f.kind \in {"arp_req", "arp_rep", "arppath"}
       /\ is_neighbor(r.sw.neighbor_table, in) = 1
    THEN ToController(r) ELSE r

\* The clock may tick (SIGALRM) after the first search: time is when the
\* search was made, later when the rest is done.
pipeline_arp_path(d, r, f, in, live, time, later) ==
    LET found  == FoundPort(r.sw.mac_port, f.src, time)
        table  == mac_to_port_found_port(r.sw.mac_port, f.src, time)
        vecino == is_neighbor(r.sw.neighbor_table, in)
        with(t) == [r EXCEPT !.sw.mac_port = t]
        learnt == LearnUnicast(table, f, in, found, vecino, later)
    IN  IF f.dst = BROADCAST
        THEN IF LockedOut(table, f, in, found, later)
             THEN packet_destroy(with(table))
             ELSE TellController(dp_ports_output_random(d,
                      with(LearnBroadcast(table, f, in, found, vecino, later)),
                      f, in), f, in)
        ELSE TellController(arp_path_send_unicast(d,
                 with(mac_to_port_found_port(learnt, f.dst, later)), f, in,
                 FoundPort(learnt, f.dst, later), live, later), f, in)

-----------------------------------------------------------------------------
(* TCP-Path.                                                               *)

\* Is the segment forwarded by the TCP table?
entrar_tcp(f) ==
    \/ TCP_PATH = 1
    \/ /\ TCP_PATH = 2
       /\ \/ f.tos
          \/ f.kind = "synack" /\ f.sport > PUERTO_ELEFANTE
          \/ f.kind = "syn" /\ f.dport > PUERTO_ELEFANTE

\* Mutant: port_dst is given its value.
RecoveryConnFull(f) == Conn(f.src, f.dst, f.sport, f.dport)

\* The second search of the TCP table is for TCP port 0: port_dst is never
\* given a value.
RecoveryConn(f) == Conn(f.src, f.dst, f.sport, 0)

recovery_tcp_path(d, r, frame, in, puerto_mac, live, time) ==
    LET f     == IF frame.kind = "path"
                 THEN desencapsulate_path_request_tcp(frame) ELSE frame
        port  == FoundPort(r.sw.mac_port, f.dst, time)
        found == [r EXCEPT !.sw.mac_port = mac_to_port_found_port(@, f.dst, time)]
        c     == RecoveryConn(f)
        out   == TcpFoundPort(r.sw.tcp_table, c)
        looked == [found EXCEPT !.sw.tcp_table = table_tcp_found_port(@, c)]
    IN  IF \/ port # -1 /\ port \in live /\ puerto_mac # port
           \/ Vecino(found.sw.mac_port, f.src) = 1
        THEN arp_path_send_unicast(d, found, f, in, port, live, time)
        ELSE IF out # -1 /\ out \in live
        THEN packet_destroy(Output(looked, f, in, out))
        ELSE looked

\* Mutant: no copy is late.
NeverLate(t, f, in) == FALSE

\* The first segment of a connection, or its path request, came in at another
\* port than this copy.
CopyIsLate(t, f, in) == table_tcp_found_port_in(t, ConnOf(f)) \notin {-1, in}

\* The connection is locked to the port where its first copy comes in.
LockConn(t, f, in, time) ==
    IF table_tcp_found_port_in(t, ConnOf(f)) = -1
    THEN table_tcp_add(t, ConnOf(f), in, time + TCP_TIME)
    ELSE table_tcp_update_time(t, ConnOf(f), time + TCP_TIME)

\* select_packet_tcp_path: the last switch does not refresh the connection.
LockLastHop(t, f, in, time) ==
    IF table_tcp_found_port_in(t, ConnOf(f)) = -1
    THEN table_tcp_add(t, ConnOf(f), in, time + TCP_TIME) ELSE t

\* The end of pipeline_tcp_path: f, as it is now, goes to puerto_mac.
Forward(d, r, f, in, puerto_mac, live, time) ==
    LET s == [r EXCEPT !.sw.mac_port =
                 mac_to_port_time_refresh(@, f.src, time + LT_TIME)]
        refreshed == [s EXCEPT !.sw.tcp_table =
                         table_tcp_update_time(@, Inverso(ConnOf(f)), time + TCP_TIME)]
    IN  IF f.dst = BROADCAST
        THEN packet_destroy(dp_ports_output_random(d, s, f, in))
        ELSE IF puerto_mac > 0 /\ puerto_mac \in live
        THEN packet_destroy(Output(refreshed, f, in, puerto_mac))
        ELSE IF recuperacion = 1
        THEN packet_destroy(recovery_tcp_path(d, s, f, in, puerto_mac, live, time))
        ELSE s

\* The frame goes where the ARP-Path table says its destination is.
ForwardToHost(d, r, f, in, live, time) ==
    Forward(d, [r EXCEPT !.sw.mac_port = mac_to_port_found_port(@, f.dst, time)],
            f, in, FoundPort(r.sw.mac_port, f.dst, time), live, time)

TcpSynAck(d, r, f, in, live, time) ==
    Forward(d, [r EXCEPT !.sw.tcp_table =
                   table_tcp_update_port(@, ConnOf(f), in, time + TCP_TIME)],
            f, in, UpdatedPort(r.sw.tcp_table, ConnOf(f)), live, time)

\* A SYN for a host that is not attached here becomes a path request; one too
\* long for that keeps the port the search returned.
TcpSyn(d, r, f, in, live, time) ==
    LET s == [r EXCEPT !.sw.tcp_table = LockConn(@, f, in, time)]
    IN  IF CopyIsLate(r.sw.tcp_table, f, in) THEN packet_destroy(r)
        ELSE IF Vecino(r.sw.mac_port, f.dst) # 0
        THEN ForwardToHost(d, s, f, in, live, time)
        ELSE Forward(d, s, IF f.small THEN PathRequest(f) ELSE f, in,
                     table_tcp_found_port_in(r.sw.tcp_table, ConnOf(f)), live, time)

TcpOther(d, r, f, in, live, time) ==
    Forward(d, [r EXCEPT !.sw.tcp_table = table_tcp_found_port(@, ConnOf(f))],
            f, in, TcpFoundPort(r.sw.tcp_table, ConnOf(f)), live, time)

TcpPathRequest(d, r, f, in, live, time) ==
    IF CopyIsLate(r.sw.tcp_table, f, in) THEN packet_destroy(r)
    ELSE IF Vecino(r.sw.mac_port, f.mac) = 0
    THEN Forward(d, [r EXCEPT !.sw.tcp_table = LockConn(@, f, in, time)],
                 f, in, 0, live, time)
    ELSE ForwardToHost(d, [r EXCEPT !.sw.tcp_table = LockLastHop(@, f, in, time)],
                       desencapsulate_path_request_tcp(f), in, live, time)

pipeline_tcp_path(d, r, f, in, live, time) ==
    CASE f.kind = "synack" -> TcpSynAck(d, r, f, in, live, time)
      [] f.kind = "syn"    -> TcpSyn(d, r, f, in, live, time)
      [] f.kind = "tcp"    -> TcpOther(d, r, f, in, live, time)
      [] f.kind = "path"   -> TcpPathRequest(d, r, f, in, live, time)

\* With recovery on, a segment that comes in at the port its own connection
\* is known by starts a recovery before it is processed.
BeforeTcpPath(d, r, f, in, live, time) ==
    LET c == Conn(f.dst, f.src, f.dport, f.sport)
        s == [r EXCEPT !.sw.tcp_table = table_tcp_found_port(@, c)]
    IN  IF recuperacion = 0 THEN r
        ELSE IF TcpFoundPort(r.sw.tcp_table, c) = in
        THEN recovery_tcp_path(d, s, f, in, in, live, time) ELSE s

-----------------------------------------------------------------------------
(* The whole pipeline.                                                     *)

\* A neighbour that is not a core switch is found only while its last hello
\* is in time; otherwise it gets another element.
LearnHello(t, f, in, time) ==
    LET moved == mac_to_port_found_port(t, f.src, time)
    IN  IF FoundPort(t, f.src, time) # -1
        THEN mac_to_port_update(moved, f.src, in, time + TIME_RECOVERY)
        ELSE mac_to_port_add_hello(moved, f.src, in, time + TIME_RECOVERY, f.vecino)

\* dst_is_neighbor of a recovery request looks for the broadcast address
\* when the request was not decoded.
apply_recovery(d, r, f, in, time) ==
    LET found  == FoundPort(r.sw.mac_port, f.src, time)
        table  == mac_to_port_found_port(r.sw.mac_port, f.src, time)
        vecino == is_neighbor(r.sw.neighbor_table, in)
        learnt == IF found = -1
                  THEN mac_to_port_add_arp_table(table, f.src, in, time + TIME_RECOVERY, vecino)
                  ELSE mac_to_port_update(table, f.src, in, time + TIME_RECOVERY)
        sought == IF RepairDecoded THEN f.mac_dst ELSE f.dst
    IN  packet_destroy(
          IF f.kind = "repair_rep"
          THEN dp_ports_output_random(d, [r EXCEPT !.sw.mac_port = learnt], f, in)
          ELSE IF Vecino(r.sw.mac_port, sought) = 0
          THEN dp_ports_output_random(d, r, f, in)
          ELSE send_packet_recovery(d, r, RecoveryReply(f)))

\* What the loop over the flow tables comes to; the instructions of the entries
\* are not part of this module.  miss: no entry of the first table matches;
\* taken: the entries that match take the frame; passed_on: an entry matches and
\* sends the frame to a table where none does.
Lookups == {"miss", "taken", "passed_on"}

\* An entry that matched counts as a recovery, wherever the frame goes then.
pipeline_process_Uah(d, sw, f, in, live, time, later, lookup) ==
    LET r == Result(sw)
        s == IF lookup = "miss" THEN r ELSE [r EXCEPT !.sw = Recovered(@)]
    IN  IF f.kind = "bad_ttl" THEN packet_destroy(ToController(r))
        ELSE IF f.kind = "hello"
        THEN packet_destroy([r EXCEPT !.sw.neighbor_table = LearnHello(@, f, in, time)])
        ELSE IF /\ recuperacion = 1
                /\ f.kind \in {"repair_req", "repair_rep"}
                /\ mac_to_port_check_timeout(sw.mac_port, f.src, time) # 0
        THEN apply_recovery(d, r, f, in, time)
        ELSE IF lookup = "taken" THEN s
        ELSE IF f.kind = "ipv6" THEN packet_destroy(s)
        ELSE IF /\ TCP_PATH # 0
                /\ \/ f.kind = "path"
                   \/ f.kind \in TcpKinds /\ entrar_tcp(f)
        THEN pipeline_tcp_path(d, BeforeTcpPath(d, s, f, in, live, time), f, in, live, time)
        ELSE IF TCP_PATH # 0 /\ f.kind \in TcpKinds
        THEN pipeline_arp_path(d, BeforeTcpPath(d, s, f, in, live, time), f, in, live, time, later)
        ELSE pipeline_arp_path(d, s, f, in, live, time, later)
=============================================================================
