----------------------------- MODULE TfeSwitch -----------------------------
(***************************************************************************)
(* The TCP-Path switch of the simulator, ns-3/tfe-switch/model/            *)
(* tfe-switch.cc, as it is built (with MOBILITY), in a network of such     *)
(* switches between a client and a server.                                 *)
(*                                                                         *)
(* A frame has its kind (TypeOfPacket), addresses, TCP ports and, for a    *)
(* PathRequest, the destination in its path header.  Links keep the order  *)
(* of frames and are fast: the clock moves on when no frame is on its way. *)
(* Hellos arrive in the step that sends them.                              *)
(* The wire has no faults, as in the simulations.  trail, the links that a *)
(* broadcast crossed, is there for the properties only.                    *)
(***************************************************************************)
EXTENDS Integers, Sequences, FiniteSets, SequencesExt

CONSTANTS
    TfeSwitches,   \* switches
    Hierarchy,     \* switch -> "Core", "Aggr" or "Tor"
    TfeCable,      \* <<node, port>> -> <<node, port>> at the other end
    UpperPorts,    \* <<switch, port>> that lead upwards
    TfeMode,       \* "ARPPATH", "TFEPATH" or "TCPPATH"
    FlowKinds,     \* whether the connection's ports are those of elephant flows: TRUE, FALSE
    ArpBlock, ArpExpire, TcpExpire, TfeHelloTime,
    MaxTfeTicks, MaxSyns, MaxData     \* bounds

ASSUME TfeConstants ==
    /\ {ArpBlock, ArpExpire, TcpExpire, TfeHelloTime, MaxTfeTicks, MaxSyns, MaxData} \subseteq Nat
    /\ FlowKinds \subseteq BOOLEAN
    /\ TfeMode \in {"ARPPATH", "TFEPATH", "TCPPATH"}

VARIABLES
    tfe,       \* the switches: neighbour, ARP and TCP tables, and m_tcp
    tfe_wire,  \* <<node, port>> -> frames on their way to it
    ends,      \* what client and server have done
    tfe_now,   \* ticks, and whether an entry of a table has run out
    tfe_dead   \* a null pointer was used: the simulation is over

tfeVars == <<tfe, tfe_wire, ends, tfe_now, tfe_dead>>

Client == "client"

Server == "server"

ConnPorts == <<1, 2>>

PortsOf(s) == {e[2] : e \in {x \in DOMAIN TfeCable : x[1] = s}}

NULL == 0

Broadcast == "broadcast"

-----------------------------------------------------------------------------
(* The tables.  left is the time until valid_period, -1 when it is over.     *)

SearchEntryHelloTable(sw, port) == port \in DOMAIN sw.neighbour

\* "iD==ARP_REQ || ETH_BROAD" is always true: the time is never ArpExpire.
LearnUpdateArpTable(sw, mac, port) ==
    LET at == {i \in DOMAIN sw.arp : sw.arp[i].mac = mac}
    IN  IF at # {} THEN [sw EXCEPT !.arp[CHOOSE i \in at : \A j \in at : i <= j].left = ArpBlock]
        ELSE [sw EXCEPT !.arp = Append(@, [mac |-> mac, port |-> port, left |-> ArpBlock,
                                           neighbour |-> ~SearchEntryHelloTable(sw, port)])]

\* The first entry of a host at the port lasts for m_ArpExpire again.
UpdateNeighbourArpTable(sw, port) ==
    LET i == SelectInSeq(sw.arp, LAMBDA e : e.port = port /\ e.neighbour)
    IN  IF i = 0 THEN sw ELSE [sw EXCEPT !.arp[i].left = ArpExpire]

GetPortArpTable(sw, mac) ==
    LET i == SelectLastInSeq(sw.arp, LAMBDA e : e.mac = mac /\ e.left >= 0)
    IN  IF i = 0 THEN NULL ELSE sw.arp[i].port

Forth(e, sw, src, dst) == e.src = src /\ e.dst = dst /\ e.ports = sw.m_tcp

Back(e, sw, src, dst) == e.src = dst /\ e.dst = src /\ e.ports = <<sw.m_tcp[2], sw.m_tcp[1]>>

\* Mutant: the SYN+ACK writes the port towards the client.
LearnTcpSwapped(sw, src, dst, port, kind) ==
    LET i == SelectInSeq(sw.tcp, LAMBDA e : Forth(e, sw, src, dst) \/ Back(e, sw, src, dst))
        new == [src |-> src, dst |-> dst, ports |-> sw.m_tcp, src_device |-> port,
                dst_device |-> NULL, left |-> TcpExpire]
    IN  IF i = 0 THEN [sw EXCEPT !.tcp = IF kind \in {"TCP_SYN", "PATH_REQ"} THEN Append(@, new) ELSE @]
        ELSE [sw EXCEPT !.tcp[i].left = TcpExpire,
                        !.tcp[i].src_device = IF kind = "TCP_SYN_ACK" THEN port ELSE @]

LearnUpdateTcpTable(sw, src, dst, port, kind) ==
    LET i == SelectInSeq(sw.tcp, LAMBDA e : Forth(e, sw, src, dst))
        new == [src |-> src, dst |-> dst, ports |-> sw.m_tcp, src_device |-> port,
                dst_device |-> NULL, left |-> TcpExpire]
        used(e) == Forth(e, sw, src, dst) \/ Back(e, sw, src, dst)
    IN  IF kind \in {"TCP_SYN", "PATH_REQ"}
        THEN IF i # 0 THEN [sw EXCEPT !.tcp[i].left = TcpExpire] ELSE [sw EXCEPT !.tcp = Append(@, new)]
        ELSE [sw EXCEPT !.tcp = [j \in DOMAIN sw.tcp |->
                IF ~used(sw.tcp[j]) THEN sw.tcp[j]
                ELSE [sw.tcp[j] EXCEPT !.left = TcpExpire,
                        !.dst_device = IF Back(sw.tcp[j], sw, src, dst) /\ kind = "TCP_SYN_ACK"
                                       THEN port ELSE @]]]

GetPortTcpTable(sw, src, dst, kind) ==
    LET i == SelectInSeq(sw.tcp, LAMBDA e : Forth(e, sw, src, dst) \/ Back(e, sw, src, dst))
    IN  IF i = 0 THEN NULL
        ELSE IF Back(sw.tcp[i], sw, src, dst) \/ kind = "PATH_REQ" THEN sw.tcp[i].src_device
        ELSE sw.tcp[i].dst_device

-----------------------------------------------------------------------------
(* Handling a frame: the switch afterwards, and the frames it sends by port. *)

Frame(kind, src, dst, ports, pdst) ==
    [kind |-> kind, src |-> src, dst |-> dst, ports |-> ports, pdst |-> pdst, trail |-> {}]

CreatePathPacket(f) == Frame("PATH_REQ", f.src, Broadcast, f.ports, f.dst)

DeletePathPacket(f) == Frame("TCP_SYN", f.src, f.pdst, f.ports, "")

GetDstPathPaquet(f) == f.pdst

TfeDone(sw, out) == [sw |-> sw, out |-> out]

\* outputPort->SendFrom.
SendFrom(sw, port, f) == TfeDone(sw, {[port |-> port, f |-> f]})

ResendToAllPorts(s, in, f) == {[port |-> p, f |-> f] : p \in PortsOf(s) \ {in}}

ResendToSelectivePorts(s, in, f) ==
    {[port |-> p, f |-> f] : p \in {q \in PortsOf(s) \ {in} : <<s, q>> \notin UpperPorts}}

\* What comes from above goes down only.
ResendBroadcast(s, in, f) ==
    IF Hierarchy[s] \in {"Aggr", "Tor"} /\ <<s, in>> \in UpperPorts
    THEN ResendToSelectivePorts(s, in, f) ELSE ResendToAllPorts(s, in, f)

ModeArppath(s, sw, in, f) ==
    IF f.dst = Broadcast
    THEN TfeDone(LearnUpdateArpTable(sw, f.src, in), ResendBroadcast(s, in, f))
    ELSE LET out == GetPortArpTable(sw, f.dst)
             learnt == IF f.kind # "ARP_REP" THEN sw
                       ELSE LearnUpdateArpTable(LearnUpdateArpTable(sw, f.src, in), f.dst, out)
         IN  SendFrom(LearnUpdateArpTable(learnt, f.dst, out), out, f)

TcpSyn(s, sw, in, f) ==
    LET out == GetPortArpTable(sw, f.dst)
        learnt == UpdateNeighbourArpTable(LearnUpdateTcpTable(sw, f.src, f.dst, in, f.kind), in)
    IN  IF out # NULL /\ ~SearchEntryHelloTable(sw, out) THEN SendFrom(learnt, out, f)
        ELSE TfeDone(learnt, ResendBroadcast(s, in, CreatePathPacket(f)))

\* The ARP table learns the destination, the client, at the port of the server,
\* when it has no entry for it.
TcpSynAck(sw, in, f) ==
    LET learnt == LearnUpdateArpTable(LearnUpdateTcpTable(sw, f.src, f.dst, in, f.kind), f.dst, in)
    IN  SendFrom(UpdateNeighbourArpTable(learnt, in), GetPortTcpTable(learnt, f.src, f.dst, f.kind), f)

PathRequest(s, sw, in, f) ==
    LET dst == GetDstPathPaquet(f)
        entry == GetPortTcpTable(sw, f.src, dst, f.kind)
        learnt == LearnUpdateTcpTable(sw, f.src, dst, in, f.kind)
        arp == GetPortArpTable(sw, dst)
    IN  IF entry \notin {NULL, in} THEN TfeDone(sw, {})
        ELSE IF arp = NULL \/ SearchEntryHelloTable(sw, arp)
        THEN TfeDone(learnt, ResendBroadcast(s, in, f))
        ELSE SendFrom(learnt, arp, DeletePathPacket(f))

\* TCP_FIN_ACK and the rest.
OtherTcp(sw, in, f) ==
    SendFrom(LearnUpdateTcpTable(UpdateNeighbourArpTable(sw, in), f.src, f.dst, in, f.kind),
             GetPortTcpTable(sw, f.src, f.dst, f.kind), f)

ModeTcppath(s, sw, in, f) ==
    LET r == CASE f.kind = "TCP_SYN" -> TcpSyn(s, sw, in, f)
               [] f.kind = "TCP_SYN_ACK" -> TcpSynAck(sw, in, f)
               [] f.kind = "PATH_REQ" -> PathRequest(s, sw, in, f)
               [] f.kind \in {"ARP_REQ", "ARP_REP"} -> ModeArppath(s, sw, in, f)
               [] OTHER -> OtherTcp(sw, in, f)
    IN  [r EXCEPT !.sw.m_tcp = <<0, 0>>]

\* m_tcp_src and m_tcp_dst are only set by frames with TCP ports.
TypeOfPacket(sw, f) == IF f.ports = <<>> THEN sw ELSE [sw EXCEPT !.m_tcp = f.ports]

RcvHelloPacket(sw, in) ==
    [sw EXCEPT !.neighbour = [p \in DOMAIN @ \cup {in} |-> IF p = in THEN TfeHelloTime ELSE @[p]]]

IsElephant(sw) == ends.elephant /\ sw.m_tcp # <<0, 0>>

ReceiveFromDevice(s, in, f) ==
    LET sw == TypeOfPacket(tfe[s], f)
    IN  IF TfeMode = "TCPPATH" \/ (TfeMode = "TFEPATH" /\ IsElephant(sw))
        THEN ModeTcppath(s, sw, in, f) ELSE ModeArppath(s, sw, in, f)

-----------------------------------------------------------------------------
(* The network. *)

\* Frames sent out of ports of node n.
Onto(wire, n, out) ==
    [e \in DOMAIN wire |->
        LET from == TfeCable[e]
            mine == {o \in out : <<n, o.port>> = from}
        IN  IF mine = {} THEN wire[e]
            ELSE LET f == (CHOOSE o \in mine : TRUE).f
                 IN  Append(wire[e], IF f.dst = Broadcast THEN [f EXCEPT !.trail = @ \cup {e}] ELSE f)]

\* The constructor leaves m_tcp_src and m_tcp_dst as they come.
TfeInit ==
    /\ \E m \in {<<0, 0>>, ConnPorts} :
         tfe = [s \in TfeSwitches |-> [neighbour |-> <<>>, arp |-> <<>>, tcp |-> <<>>, m_tcp |-> m]]
    /\ tfe_wire = [e \in DOMAIN TfeCable |-> <<>>]
    /\ \E kind \in FlowKinds :
         ends = [client |-> "new", elephant |-> kind, hello |-> FALSE, storm |-> FALSE,
                 syns |-> 0, data |-> 0, got |-> 0]
    /\ tfe_now = [ticks |-> 0, aged |-> FALSE]
    /\ tfe_dead = FALSE

Quiet == \A e \in DOMAIN tfe_wire : tfe_wire[e] = <<>>

\* A frame that comes back over a link it crossed would be a broadcast storm.
Looping(out, s) ==
    \E o \in out : o.f.dst = Broadcast /\ o.port # NULL /\ TfeCable[<<s, o.port>>] \in o.f.trail

SwitchReceives(s, p) ==
    /\ ~tfe_dead /\ tfe_wire[<<s, p>>] # <<>>
    /\ LET e == <<s, p>>
           r == ReceiveFromDevice(s, p, Head(tfe_wire[e]))
       IN  /\ tfe' = [tfe EXCEPT ![s] = r.sw]
           /\ tfe_wire' = Onto([tfe_wire EXCEPT ![e] = Tail(@)], s, r.out)
           /\ tfe_dead' = (\E o \in r.out : o.port = NULL)
           /\ ends' = [ends EXCEPT !.storm = @ \/ Looping(r.out, s)]
    /\ UNCHANGED tfe_now

\* The timers of all switches start with the simulation and run at the same times.
\* Neighbours that were silent for a period go, every port sends a hello, and the
\* switches at the other ends receive it in the same step.
SendPeriodicHello ==
    LET kept(s) == [tfe[s] EXCEPT !.neighbour =
                      LET on == {p \in DOMAIN @ : @[p] >= 0} IN [p \in on |-> @[p]]]
        in(s) == {p \in PortsOf(s) : TfeCable[<<s, p>>][1] \in TfeSwitches}
    IN  /\ ~tfe_dead /\ ~ends.hello
        /\ tfe' = [s \in TfeSwitches |-> FoldSet(LAMBDA p, sw : RcvHelloPacket(sw, p), kept(s), in(s))]
        /\ ends' = [ends EXCEPT !.hello = TRUE]
        /\ UNCHANGED <<tfe_wire, tfe_now, tfe_dead>>

CleanArpTable ==
    /\ ~tfe_dead /\ \E s \in TfeSwitches : \E i \in DOMAIN tfe[s].arp : tfe[s].arp[i].left < 0
    /\ tfe' = [s \in TfeSwitches |-> [tfe[s] EXCEPT !.arp = SelectSeq(@, LAMBDA e : e.left >= 0)]]
    /\ UNCHANGED <<tfe_wire, ends, tfe_now, tfe_dead>>

CleanTcpTable ==
    /\ ~tfe_dead /\ \E s \in TfeSwitches : \E i \in DOMAIN tfe[s].tcp : tfe[s].tcp[i].left < 0
    /\ tfe' = [s \in TfeSwitches |-> [tfe[s] EXCEPT !.tcp = SelectSeq(@, LAMBDA e : e.left >= 0)]]
    /\ UNCHANGED <<tfe_wire, ends, tfe_now, tfe_dead>>

Older(n) == IF n < 0 THEN n ELSE n - 1

\* A hello period has passed for all when one has passed for the clock.
TfeTick ==
    /\ ~tfe_dead /\ Quiet /\ ends.hello /\ tfe_now.ticks < MaxTfeTicks
    /\ tfe' = [s \in TfeSwitches |->
                [tfe[s] EXCEPT !.neighbour = [p \in DOMAIN @ |-> Older(@[p])],
                               !.arp = [i \in DOMAIN @ |-> [@[i] EXCEPT !.left = Older(@)]],
                               !.tcp = [i \in DOMAIN @ |-> [@[i] EXCEPT !.left = Older(@)]]]]
    /\ tfe_now' = [ticks |-> tfe_now.ticks + 1,
                   aged |-> tfe_now.aged \/ \E s \in TfeSwitches :
                       \/ \E i \in DOMAIN tfe[s].arp : tfe[s].arp[i].left <= 0
                       \/ \E i \in DOMAIN tfe[s].tcp : tfe[s].tcp[i].left <= 0]
    /\ ends' = [ends EXCEPT !.hello = IF (tfe_now.ticks + 1) % TfeHelloTime = 0 THEN FALSE ELSE @]
    /\ UNCHANGED <<tfe_wire, tfe_dead>>

-----------------------------------------------------------------------------
(* Client and server: ARP, a handshake, data, the end.  The applications start *)
(* after the first hellos, which the constructor schedules for the first       *)
(* microsecond.                                                                *)

HostSends(h, f) == Onto(tfe_wire, h, {[port |-> 1, f |-> f]})

ClientSends ==
    /\ ~tfe_dead
    /\ \/ /\ ends.client = "new" /\ Quiet /\ ends.hello
          /\ tfe_wire' = HostSends(Client, Frame("ARP_REQ", Client, Broadcast, <<>>, Server))
          /\ ends' = [ends EXCEPT !.client = "asking"]
       \/ /\ ends.client \in {"resolved", "syn"} /\ ends.syns < MaxSyns
          /\ ends.client = "syn" => Quiet
          /\ tfe_wire' = HostSends(Client, Frame("TCP_SYN", Client, Server, ConnPorts, ""))
          /\ ends' = [ends EXCEPT !.client = "syn", !.syns = @ + 1]
       \/ /\ ends.client = "established" /\ ends.data < MaxData
          /\ tfe_wire' = HostSends(Client, Frame("TCP_ACK", Client, Server, ConnPorts, ""))
          /\ ends' = [ends EXCEPT !.data = @ + 1]
       \/ /\ ends.client = "established"
          /\ tfe_wire' = HostSends(Client, Frame("TCP_FIN_ACK", Client, Server, ConnPorts, ""))
          /\ ends' = [ends EXCEPT !.client = "closed"]
    /\ UNCHANGED <<tfe, tfe_now, tfe_dead>>

HostReceives(h) ==
    LET e == <<h, 1>>
        f == Head(tfe_wire[e])
        taken == [tfe_wire EXCEPT ![e] = Tail(@)]
        answer(g) == Onto(taken, h, {[port |-> 1, f |-> g]})
    IN  /\ ~tfe_dead /\ tfe_wire[e] # <<>>
        /\ CASE h = Server /\ f.kind = "ARP_REQ" ->
                  /\ tfe_wire' = answer(Frame("ARP_REP", Server, f.src, <<>>, ""))
                  /\ UNCHANGED ends
             [] h = Server /\ f.kind = "TCP_SYN" ->
                  /\ tfe_wire' = answer(Frame("TCP_SYN_ACK", Server, f.src, <<2, 1>>, ""))
                  /\ UNCHANGED ends
             [] h = Server /\ f.kind = "TCP_ACK" ->
                  tfe_wire' = taken /\ ends' = [ends EXCEPT !.got = @ + 1]
             [] h = Client /\ f.kind = "ARP_REP" /\ ends.client = "asking" ->
                  tfe_wire' = taken /\ ends' = [ends EXCEPT !.client = "resolved"]
             [] h = Client /\ f.kind = "TCP_SYN_ACK" /\ ends.client = "syn" ->
                  tfe_wire' = taken /\ ends' = [ends EXCEPT !.client = "established"]
             [] OTHER -> tfe_wire' = taken /\ UNCHANGED ends
        /\ UNCHANGED <<tfe, tfe_now, tfe_dead>>

TfeNext ==
    \/ \E e \in DOMAIN TfeCable : e[1] \in TfeSwitches /\ SwitchReceives(e[1], e[2])
    \/ SendPeriodicHello \/ CleanArpTable \/ CleanTcpTable
    \/ \E h \in {Client, Server} : HostReceives(h)
    \/ ClientSends \/ TfeTick

TfeSpec == TfeInit /\ [][TfeNext]_tfeVars

-----------------------------------------------------------------------------
(* Properties. *)

\* No broadcast crosses a link twice, although ModeArppath never drops one: the
\* hierarchy turns what came from above downwards, and so every flood ends.
FloodGoesUpThenDown == ~ends.storm

\* A port that is not there is used only when an entry of some table has run out:
\* with fresh tables ARP replies, SYN+ACKs and data all find their way.
NullOnlyAfterExpiry == tfe_dead => tfe_now.aged

\* As long as nothing has run out, the ports towards the client that a connection
\* locked at the switches lead to the client, from switch to switch.
LocksLeadToClient ==
    ~tfe_now.aged =>
        LET locked == {s \in TfeSwitches : \E i \in DOMAIN tfe[s].tcp : tfe[s].tcp[i].src = Client}
            hop(s) == TfeCable[<<s, (CHOOSE e \in ToSet(tfe[s].tcp) : e.src = Client).src_device>>][1]
        IN  /\ \A s \in locked : hop(s) \in locked \cup {Client}
            /\ \A S \in (SUBSET locked) \ {{}} : \E s \in S : hop(s) \notin S
=============================================================================
