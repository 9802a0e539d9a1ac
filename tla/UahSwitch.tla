----------------------------- MODULE UahSwitch -----------------------------
(***************************************************************************)
(* One TCP-Path switch: the main loop of udatapath/udatapath.c around the  *)
(* pipeline.  Its surroundings are arbitrary: any of a set of frames may   *)
(* come in at any port, ports fail and come back, time passes.             *)
(***************************************************************************)
EXTENDS UahPipeline

CONSTANTS
    Dp,         \* the datapath: id, mac, ports, ports_num
    TIME_SEND,  \* the period of the hellos
    MaxGrowing  \* bound of the two lists that nothing ever shortens

ASSUME SwitchAssumption ==
    /\ PUERTO_ELEFANTE \in Nat
    /\ {TIME_SEND, MaxGrowing} \subseteq Nat \ {0}
    /\ \A n \in DOMAIN Scenarios :
          LET o == Scenarios[n]
          IN  /\ o.TCP_PATH \in 0 .. 2
              /\ {o.controlador, o.recuperacion} \subseteq {0, 1}
              /\ o.FlowHits \subseteq Lookups
              /\ {o.RepairDecoded, o.Failures, o.MidTick} \subseteq BOOLEAN
              /\ {o.BT_TIME, o.LT_TIME, o.TCP_TIME, o.TIME_RECOVERY,
                  o.TIME_ARP, o.TIME_TCP_DELETE, o.MaxTime, o.MaxEntries} \subseteq Nat \ {0}

\* The port numbers of dp_ports.c start at 1, no frame comes from the broadcast
\* address, and a connection is opened to a host.
ASSUME FramesAssumption ==
    /\ Dp.ports \subseteq Nat \ {0}
    /\ \A n \in DOMAIN Scenarios : \A F \in Scenarios[n].Traffic : \A f \in F :
          /\ f.src # BROADCAST
          /\ f.kind = "path" => f.dst = BROADCAST
          /\ f.kind \in {"syn", "path"} =>
                ConnOf(f)[2] # BROADCAST /\ {f.sport, f.dport} \subseteq Nat

\* With recovery on, no connection is opened from both of its ends.
ASSUME OneOpener ==
    \A n \in DOMAIN Scenarios : Scenarios[n].recuperacion = 1 =>
        \A F \in Scenarios[n].Traffic : \A f, g \in {h \in F : h.kind \in {"syn", "path"}} :
            ConnOf(f) # Inverso(ConnOf(g))

VARIABLES
    sw,        \* the tables and puerto_no_disponible
    live,      \* the ports in state OFPPS_LIVE
    now,       \* the clock
    timers,    \* sendtime, arptime and tcptime
    running,   \* FALSE once the process has died
    frames     \* the frames that may arrive, which never change

vars == <<sw, live, now, timers, running, frames, scenario>>

Traffic         == option.Traffic          \* sets of frames: those of one may arrive
Neighbors       == option.Neighbors        \* the neighbours that have said hello
FlowHits        == option.FlowHits         \* what the flow tables may make of a frame
Failures        == option.Failures         \* can ports fail?
MidTick         == option.MidTick          \* can the clock tick while a frame is processed?
TIME_ARP        == option.TIME_ARP         \* periods of the main loop
TIME_TCP_DELETE == option.TIME_TCP_DELETE
MaxTime         == option.MaxTime          \* bound of the clock
MaxEntries      == option.MaxEntries       \* bound of the ARP-Path and TCP tables

Init ==
    /\ scenario \in DOMAIN Scenarios
    /\ sw = [mac_port |-> << >>, recovery_table |-> << >>, tcp_table |-> << >>,
             neighbor_table |-> Neighbors, puerto_no_disponible |-> 0]
    /\ live = Dp.ports
    /\ now = 0
    /\ timers = [send |-> -TIME_SEND - 1, arp |-> 0, tcp |-> 0]
    /\ running = TRUE
    /\ frames \in Traffic

Room(tables) ==
    /\ Len(tables.mac_port) <= MaxEntries
    /\ Len(tables.tcp_table) <= MaxEntries
    /\ Len(tables.neighbor_table) <= MaxGrowing
    /\ Len(tables.recovery_table) <= MaxGrowing

\* dp_ports_run and process_buffer: a frame arrives, at a port that may just have
\* been found down as well: its netdev is still read.  The clock may tick while
\* the frame is processed.
process_buffer(f, in, lookup) ==
    /\ running
    /\ now' = now \/ (MidTick /\ now < MaxTime /\ now' = now + 1)
    /\ sw' = pipeline_process_Uah(Dp, sw, f, in, live, now, now', lookup).sw
    /\ Room(sw')
    /\ UNCHANGED <<live, timers, running, frames, scenario>>

Due(timer, period) == now - timer > period

Reset(timer, period) == IF Due(timer, period) THEN now ELSE timer

\* The end of a pass of the main loop, when one of its periods is over; the
\* hello that is sent does not change the switch.
udatapath_cmd ==
    /\ running
    /\ \/ Due(timers.send, TIME_SEND)
       \/ Due(timers.arp, TIME_ARP)
       \/ Due(timers.tcp, TIME_TCP_DELETE)
    /\ running' = ~(Due(timers.arp, TIME_ARP) /\ PurgeCrashes(sw.mac_port))
    /\ sw' = [sw EXCEPT
                !.mac_port = IF Due(timers.arp, TIME_ARP)
                             THEN mac_to_port_delete_timeout(@, now) ELSE @,
                !.tcp_table = IF Due(timers.tcp, TIME_TCP_DELETE)
                              THEN table_tcp_delete_timeout(@, now) ELSE @]
    /\ timers' = [send |-> Reset(timers.send, TIME_SEND),
                  arp  |-> Reset(timers.arp, TIME_ARP),
                  tcp  |-> Reset(timers.tcp, TIME_TCP_DELETE)]
    /\ UNCHANGED <<live, now, frames, scenario>>

\* dp_ports_run finds that a link went down or came up.
dp_port_live_update(port) ==
    /\ running
    /\ Failures
    /\ live' = IF port \in live THEN live \ {port} ELSE live \cup {port}
    /\ UNCHANGED <<sw, now, timers, running, frames, scenario>>

Tick ==
    /\ now < MaxTime
    /\ now' = now + 1
    /\ UNCHANGED <<sw, live, timers, running, frames, scenario>>

Next ==
    \/ \E f \in frames, in \in Dp.ports, lookup \in FlowHits : process_buffer(f, in, lookup)
    \/ udatapath_cmd
    \/ \E port \in Dp.ports : dp_port_live_update(port)
    \/ Tick

Spec == Init /\ [][Next]_vars

-----------------------------------------------------------------------------
(* Properties.                                                             *)

\* Every search of a table finds the same entry.  mac_to_port_found_port finds the
\* first entry in time, mac_to_port_update, _time_refresh, _check_timeout and
\* dst_is_neighbor the first entry: only the first entry of an address can be in
\* time, although an expired entry stays in the list when a new one is added.  A
\* connection has one element.
SearchesAgree ==
    /\ \A i, j \in 1 .. Len(sw.mac_port) :
          i < j /\ sw.mac_port[i].mac = sw.mac_port[j].mac
              => ~Alive(sw.mac_port[j], now)
    /\ \A i, j \in 1 .. Len(sw.tcp_table) :
          sw.tcp_table[i].conn = sw.tcp_table[j].conn => i = j

\* The lock of ARP-Path: an address stays with the port where its first frame
\* came in until its time is over, whatever comes in at other ports
\* (pipeline_arp_path, 724-737), unless recovery gives up a port that is not
\* live.
LeaseKept ==
    [][\A i \in 1 .. Len(sw.mac_port) :
          LET e == sw.mac_port[i]
          IN  FoundAt(sw.mac_port, e.mac, now) = i /\ running' /\ e.port \in live /\ Alive(e, now')
                => FoundPort(sw.mac_port', e.mac, now') = e.port]_vars

\* What the pipeline would do with a frame that came in now.
Processed(f, in) == pipeline_process_Uah(Dp, sw, f, in, live, now, now, "miss")

\* A broadcast frame is flooded only when it came in at the port its source is
\* locked to, and a SYN or a path request only at the port its connection is
\* locked to: of the copies that reach a switch one goes on.  (With recovery on
\* that is so because of OneOpener: the segment that opens a connection from the
\* other end may look to pipeline_process_Uah like one that came back.)
FloodFollowsLock ==
    \A f \in frames, in \in Dp.ports :
        LET r == Processed(f, in)
        IN  /\ f.kind \in {"arp_req", "data"} /\ f.dst = BROADCAST /\ r.out # << >>
                  => FoundPort(r.sw.mac_port, f.src, now) = in
            /\ option.TCP_PATH # 0 /\ (f.kind = "path" \/ (f.kind = "syn" /\ entrar_tcp(f)))
                  /\ r.out # << >>
                  => table_tcp_found_port_in(r.sw.tcp_table, ConnOf(f)) = in

\* The lock of TCP-Path: the port towards the client never changes while the
\* switch knows the connection.
ClientPortKept ==
    [][\A i \in 1 .. Len(sw.tcp_table), j \in 1 .. Len(sw'.tcp_table) :
          sw.tcp_table[i].conn = sw'.tcp_table[j].conn
              => sw.tcp_table[i].port_in = sw'.tcp_table[j].port_in]_vars

\* recovery_tcp_path (1052-1058) and its caller (1026-1028) both destroy the frame,
\* but the search that leads there is for TCP port 0: a frame is destroyed twice
\* only when the switch knows a connection of the frame's hosts from the same TCP
\* port to port 0.
DestroyedTwiceOnlyForPortZero ==
    \A f \in frames, in \in Dp.ports :
        Processed(f, in).freed > 1 =>
            LET c == [ConnOf(f) EXCEPT ![4] = 0]
            IN  \E i \in 1 .. Len(sw.tcp_table) : sw.tcp_table[i].conn \in {c, Inverso(c)}

\* The NOTE in dp_ports_output (639): the caller deletes the packet it sent.
PacketDeletedByCaller ==
    [][\A f \in frames, in \in Dp.ports :
          LET r == Processed(f, in)
          IN  process_buffer(f, in, "miss") /\ r.out # << >> => r.freed = 1]_vars
=============================================================================
