----------------------------- MODULE PathTables -----------------------------
(***************************************************************************)
(* The address lists of a TCP-Path switch (udatapath/dp_ports.c): the MAC  *)
(* lists (struct mac_to_port: the ARP-Path table, the recovery table and   *)
(* the neighbour table) and the TCP list (struct table_tcp).               *)
(*                                                                         *)
(* A list is a sequence, the element inicio first.  An operator named      *)
(* after a C function gives the list that the function leaves; what the    *)
(* function returns, if anyone uses it, is an operator of its own.  time   *)
(* is the value of time_msec() in the call, and lifetimes are in the same  *)
(* unit.                                                                   *)
(***************************************************************************)
EXTENDS Lists

\* The kinds of port a hello tells apart: dp_ports.h.
PORT_HOST == 0
PORT_CORE == 1
PORT_AGR  == 2
PORT_TOR  == 3

Latest(a, b) == IF a > b THEN a ELSE b

MoveToFront(t, k) ==
    [i \in 1 .. Len(t) |->
        IF i = 1 THEN t[k] ELSE IF i <= k THEN t[i - 1] ELSE t[i]]

-----------------------------------------------------------------------------
(* struct mac_to_port.                                                     *)

MacEntry(mac, port, time, vecino) ==
    [mac |-> mac, port |-> port, time |-> time, vecino |-> vecino]

\* mac_to_port_add and mac_to_port_add_hello append ...
mac_to_port_add(t, mac, port, until) == Append(t, MacEntry(mac, port, until, PORT_HOST))

mac_to_port_add_hello(t, mac, port, until, vecino) ==
    Append(t, MacEntry(mac, port, until, vecino))

\* Mutant: the new element goes to the end.
AddArpLast(t, mac, port, until, vecino) == Append(t, MacEntry(mac, port, until, vecino))

\* ... and mac_to_port_add_arp_table puts the new element first.
mac_to_port_add_arp_table(t, mac, port, until, vecino) ==
    << MacEntry(mac, port, until, vecino) >> \o t

FirstOf(t, mac) == First({i \in 1 .. Len(t) : t[i].mac = mac})

mac_to_port_update(t, mac, port, until) ==
    LET k == FirstOf(t, mac)
    IN  IF k = 0 THEN t
        ELSE [t EXCEPT ![k].port = port, ![k].time = Latest(until, @)]

mac_to_port_time_refresh(t, mac, until) ==
    LET k == FirstOf(t, mac)
    IN  IF k = 0 THEN t ELSE [t EXCEPT ![k].time = Latest(until, @)]

\* The entry may be used.  Only the value 1 of vecino keeps an entry beyond
\* its time: a host's own port in the ARP-Path table, a core switch in the
\* neighbour table.
Alive(e, time) == time < e.time \/ e.vecino = 1

FoundAt(t, mac, time) ==
    First({i \in 1 .. Len(t) : t[i].mac = mac /\ Alive(t[i], time)})

\* The value mac_to_port_found_port returns ...
FoundPort(t, mac, time) ==
    LET k == FoundAt(t, mac, time) IN IF k = 0 THEN -1 ELSE t[k].port

\* ... and the list it leaves: an element beyond the second comes first.
mac_to_port_found_port(t, mac, time) ==
    LET k == FoundAt(t, mac, time)
    IN  IF k > 2 /\ t[k].port > 0 THEN MoveToFront(t, k) ELSE t

Expired(e, time) == time > e.time /\ e.vecino = 0

\* 0: in time, 1: expired, 2: not in the list.
mac_to_port_check_timeout(t, mac, time) ==
    LET k == FirstOf(t, mac)
    IN  IF k = 0 THEN 2 ELSE IF Expired(t[k], time) THEN 1 ELSE 0

\* The loop steps from the first element to the third, and reads the
\* successor of a null pointer when there is exactly one element.
PurgeCrashes(t) == Len(t) = 1

mac_to_port_delete_timeout(t, time) ==
    Without(t, {i \in 1 .. Len(t) : i # 2 /\ Expired(t[i], time)})

\* After the first element has gone the new first one is not looked at.
mac_to_port_delete_port(t, port) ==
    LET doomed == {i \in 1 .. Len(t) : t[i].port = port /\ t[i].vecino = 0}
    IN  Without(t, IF 1 \in doomed THEN doomed \ {2} ELSE doomed)

\* dst_is_neighbor and src_is_neighbor: the first entry, expired or not.
Vecino(t, mac) ==
    LET k == FirstOf(t, mac) IN IF k = 0 THEN 0 ELSE t[k].vecino

port_is_in_table(t, port) == \E i \in 1 .. Len(t) : t[i].port = port

\* What the neighbour table says is behind a port.
tipo_switch_port(neighbors, port) ==
    LET k == First({i \in 1 .. Len(neighbors) : neighbors[i].port = port})
    IN  IF k = 0 THEN PORT_HOST ELSE neighbors[k].vecino

\* A port where no hello has been seen leads to a host.
is_neighbor(neighbors, port) ==
    IF port_is_in_table(neighbors, port) THEN 0 ELSE 1

-----------------------------------------------------------------------------
(* struct table_tcp.  A connection is the tuple of the two addresses and   *)
(* the two TCP ports, seen from the sender of a segment.                   *)

Conn(src, dst, sport, dport) == << src, dst, sport, dport >>

Inverso(c) == << c[2], c[1], c[4], c[3] >>

TcpEntry(c, port_in, until) ==
    [conn |-> c, port_in |-> port_in, port_out |-> 0, time |-> until]

table_tcp_add(t, c, port_in, until) == << TcpEntry(c, port_in, until) >> \o t

FirstConn(t, conns) == First({i \in 1 .. Len(t) : t[i].conn \in conns})

table_tcp_update_time(t, c, until) ==
    LET k == FirstConn(t, {c, Inverso(c)})
    IN  IF k = 0 THEN t ELSE [t EXCEPT ![k].time = until]

\* Mutant: the other port of the entry is assigned.
UpdatesPortIn(t, c, port, until) ==
    LET k == FirstConn(t, {Inverso(c)})
    IN  IF k = 0 THEN t ELSE [t EXCEPT ![k].port_in = port, ![k].time = until]

\* The SYN+ACK of c came in at port: the list left, and the port returned.
table_tcp_update_port(t, c, port, until) ==
    LET k == FirstConn(t, {Inverso(c)})
    IN  IF k = 0 THEN t ELSE [t EXCEPT ![k].port_out = port, ![k].time = until]

UpdatedPort(t, c) ==
    LET k == FirstConn(t, {Inverso(c)}) IN IF k = 0 THEN 0 ELSE t[k].port_in

\* Mutant: the two directions are swapped.
TcpFoundSwapped(t, c) ==
    LET k == FirstConn(t, {c, Inverso(c)})
    IN  IF k = 0 THEN -1
        ELSE IF t[k].conn = c THEN t[k].port_in ELSE t[k].port_out

\* table_tcp_found_port never looks at the time of an entry.
TcpFoundPort(t, c) ==
    LET k == FirstConn(t, {c, Inverso(c)})
    IN  IF k = 0 THEN -1
        ELSE IF t[k].conn = c THEN t[k].port_out ELSE t[k].port_in

table_tcp_found_port(t, c) ==
    LET k == FirstConn(t, {c, Inverso(c)})
    IN  IF k > 2 /\ TcpFoundPort(t, c) > 0 THEN MoveToFront(t, k) ELSE t

\* Mutant: the connection is looked for in the other direction.
FoundInOther(t, c) ==
    LET k == FirstConn(t, {Inverso(c)}) IN IF k = 0 THEN -1 ELSE t[k].port_in

table_tcp_found_port_in(t, c) ==
    LET k == FirstConn(t, {c}) IN IF k = 0 THEN -1 ELSE t[k].port_in

\* The purge stops when two elements are left, and skips the element after
\* the first when the first goes.
table_tcp_delete_timeout(t, time) ==
    LET old  == {i \in 1 .. Len(t) : time >= t[i].time}
        seen == IF 1 \in old THEN old \ {2} ELSE old
    IN  Without(t, {i \in seen :
                      Cardinality({j \in seen : j < i}) < Len(t) - 2})
=============================================================================
