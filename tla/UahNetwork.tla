----------------------------- MODULE UahNetwork -----------------------------
(***************************************************************************)
(* A network of TCP-Path switches, the links between them and the hosts at *)
(* its edge.  Every switch runs the pipeline of module UahPipeline; the    *)
(* links are first-in first-out queues that drop what does not fit; the    *)
(* hosts (external) resolve addresses, answer and open connections.        *)
(*                                                                         *)
(* A frame spends less than one unit of time on a link: the clock ticks    *)
(* when no frame is on its way.  The unit is about the shortest lifetime   *)
(* of the tables, seconds, and the delay of a link is milliseconds.        *)
(***************************************************************************)
EXTENDS UahPipeline, Functions

CONSTANTS
    Hosts,
    MaxWire       \* frames a link can hold

ASSUME NetworkAssumption ==
    /\ MaxWire \in Nat \ {0}
    /\ \A n \in DOMAIN Scenarios :
          LET o == Scenarios[n]
          IN  /\ \A e \in DOMAIN o.Peer : o.Peer[o.Peer[e]] = e /\ o.Peer[e] # e
              /\ \A s \in DOMAIN o.Dps : \A p \in o.Dps[s].ports : << s, p >> \in DOMAIN o.Peer
              /\ o.Fragile \subseteq DOMAIN o.Peer
              /\ o.Asks \cup o.Opens \cup o.Talks \subseteq Hosts \X Hosts
              /\ {o.MaxAsks, o.MaxFailures, o.MaxTime} \subseteq Nat
              /\ {o.TIME_ARP, o.TIME_TCP_DELETE, o.BT_TIME, o.LT_TIME} \subseteq Nat \ {0}

VARIABLES
    sws,      \* the tables of every switch
    running,  \* the switches that have not died
    wire,     \* the frames on their way to every end of a link
    live,     \* the ports every switch believes to be live
    cut,      \* the ends of the links that have failed
    asked,    \* how often every resolution and connection was started
    got,      \* the kinds of frame every host has received from every host
    timers,   \* arptime and tcptime of every switch
    now

vars == <<sws, running, wire, live, cut, asked, got, timers, now, scenario>>

Dps             == option.Dps          \* the datapath of every switch
Switches        == DOMAIN Dps
Peer            == option.Peer         \* the other end of every link; an end is <<node, port>>
Heard           == option.Heard        \* the neighbour tables once every switch has said hello
Learnt          == option.Learnt       \* the ARP-Path tables at the start
Asks            == option.Asks         \* the address resolutions: pairs of hosts
Talks           == option.Talks        \* who sends data to whom, once it knows the address
Opens           == option.Opens        \* the connections opened: pairs of hosts
MaxAsks         == option.MaxAsks      \* how often each of them may start
TIME_ARP        == option.TIME_ARP
TIME_TCP_DELETE == option.TIME_TCP_DELETE
Fragile         == option.Fragile      \* the links that may fail, by one end of each
MaxFailures     == option.MaxFailures  \* how many of them may
MaxTime         == option.MaxTime

Ends == DOMAIN Peer

HostEnd(h) == << h, 1 >>

Init ==
    /\ scenario \in DOMAIN Scenarios
    /\ sws = [s \in Switches |->
                [mac_port |-> Learnt[s], recovery_table |-> << >>, tcp_table |-> << >>,
                 neighbor_table |-> Heard[s], puerto_no_disponible |-> 0]]
    /\ running = Switches
    /\ wire = [e \in Ends |-> << >>]
    /\ live = [s \in Switches |-> Dps[s].ports]
    /\ cut = {}
    /\ asked = [x \in Asks \cup Opens |-> 0]
    /\ got = [h \in Hosts |-> [g \in Hosts |-> {}]]
    /\ timers = [s \in Switches |-> [arp |-> 0, tcp |-> 0]]
    /\ now = 0

Quiet == \A e \in Ends : wire[e] = << >>

\* netdev_send: a full or a failed link drops the frame, and nobody reads what is
\* sent to a switch that has died.
Put(e, queue, frames) ==
    IF e \in cut \/ e[1] \in Switches \ running THEN queue
    ELSE LET all == queue \o frames
         IN  SubSeq(all, 1, IF Len(all) < MaxWire THEN Len(all) ELSE MaxWire)

\* The links after node n has made the transmissions out.
Transmit(w, n, out) ==
    [e \in Ends |->
        LET here(x) == Peer[e][1] = n /\ Peer[e][2] \in x.ports
            sent == SelectSeq(out, here)
        IN  Put(e, w[e], [i \in 1 .. Len(sent) |-> sent[i].frame])]

HostSends(w, h, frame) == Transmit(w, h, << [ports |-> {1}, frame |-> frame] >>)

Taken(e) == [wire EXCEPT ![e] = Tail(@)]

-----------------------------------------------------------------------------
(* Switches.                                                               *)

\* A switch processes the frame that came in at one of its ports.
process_buffer(s, in) ==
    LET e == << s, in >>
    IN  /\ s \in running
        /\ wire[e] # << >>
        /\ LET r == pipeline_process_Uah(Dps[s], sws[s], Head(wire[e]), in,
                                         live[s], now, now, "miss")
           IN  /\ sws' = [sws EXCEPT ![s] = r.sw]
               /\ wire' = Transmit(Taken(e), s, r.out)
        /\ UNCHANGED <<running, live, cut, asked, got, timers, now, scenario>>

ArpDue(s) == now - timers[s].arp > TIME_ARP
TcpDue(s) == now - timers[s].tcp > TIME_TCP_DELETE

\* The purges of the main loop.
udatapath_cmd(s) ==
    /\ s \in running
    /\ ArpDue(s) \/ TcpDue(s)
    /\ running' = IF ArpDue(s) /\ PurgeCrashes(sws[s].mac_port)
                  THEN running \ {s} ELSE running
    /\ sws' = [sws EXCEPT
                 ![s].mac_port = IF ArpDue(s) THEN mac_to_port_delete_timeout(@, now) ELSE @,
                 ![s].tcp_table = IF TcpDue(s) THEN table_tcp_delete_timeout(@, now) ELSE @]
    /\ timers' = [timers EXCEPT
                    ![s].arp = IF ArpDue(s) THEN now ELSE @,
                    ![s].tcp = IF TcpDue(s) THEN now ELSE @]
    /\ wire' = [e \in Ends |-> IF e[1] = s /\ s \notin running' THEN << >> ELSE wire[e]]
    /\ UNCHANGED <<live, cut, asked, got, now, scenario>>

\* dp_ports_run looks at the link of a port.
dp_port_live_update(s, port) ==
    /\ s \in running
    /\ << s, port >> \in cut /\ port \in live[s]
    /\ live' = [live EXCEPT ![s] = @ \ {port}]
    /\ UNCHANGED <<sws, running, wire, cut, asked, got, timers, now, scenario>>

-----------------------------------------------------------------------------
(* Hosts, links and time (external).                                       *)

HostAsks(h, g) ==
    /\ << h, g >> \in Asks
    /\ asked[<< h, g >>] < MaxAsks
    /\ asked' = [asked EXCEPT ![<< h, g >>] = @ + 1]
    /\ wire' = HostSends(wire, h, [kind |-> "arp_req", src |-> h, dst |-> BROADCAST, who |-> g])
    /\ UNCHANGED <<sws, running, live, cut, got, timers, now, scenario>>

HostOpens(h, g) ==
    /\ << h, g >> \in Opens
    /\ asked[<< h, g >>] < MaxAsks
    /\ asked' = [asked EXCEPT ![<< h, g >>] = @ + 1]
    /\ wire' = HostSends(wire, h, Segment("syn", h, g, 1, 80, TRUE, FALSE))
    /\ UNCHANGED <<sws, running, live, cut, got, timers, now, scenario>>

\* A host that has heard from g sends it data.
HostTalks(h, g) ==
    /\ Quiet
    /\ << h, g >> \in Talks
    /\ got[h][g] # {}
    /\ wire' = HostSends(wire, h, Frame("data", h, g))
    /\ UNCHANGED <<sws, running, live, cut, asked, got, timers, now, scenario>>

\* What a host sends back: an ARP request is answered, a SYN and a SYN+ACK too.
Answers(h, f) ==
    CASE f.kind = "arp_req" /\ f.who = h -> << Frame("arp_rep", h, f.src) >>
      [] f.kind = "syn" /\ f.dst = h ->
            << Segment("synack", h, f.src, f.dport, f.sport, TRUE, FALSE) >>
      [] f.kind = "synack" /\ f.dst = h ->
            << Segment("tcp", h, f.src, f.dport, f.sport, TRUE, FALSE) >>
      [] OTHER -> << >>

HostReceives(h) ==
    LET e == HostEnd(h)
        f == Head(wire[e])
        answers == Answers(h, f)
    IN  /\ wire[e] # << >>
        /\ wire' = IF answers = << >> THEN Taken(e)
                   ELSE HostSends(Taken(e), h, answers[1])
        /\ got' = IF f.src \in Hosts /\ (f.dst = h \/ (f.kind = "arp_req" /\ f.who = h))
                  THEN [got EXCEPT ![h][f.src] = @ \cup {f.kind}] ELSE got
        /\ UNCHANGED <<sws, running, live, cut, asked, timers, now, scenario>>

\* A link fails; what is on it is lost.
LinkFails(e) ==
    /\ Cardinality(cut) < 2 * MaxFailures
    /\ e \in Fragile \ cut
    /\ cut' = cut \cup {e, Peer[e]}
    /\ wire' = [wire EXCEPT ![e] = << >>, ![Peer[e]] = << >>]
    /\ UNCHANGED <<sws, running, live, asked, got, timers, now, scenario>>

Tick ==
    /\ Quiet
    /\ now < MaxTime
    /\ now' = now + 1
    /\ UNCHANGED <<sws, running, wire, live, cut, asked, got, timers, scenario>>

Delivery ==
    \/ \E s \in Switches : \E in \in Dps[s].ports : process_buffer(s, in)
    \/ \E h \in Hosts : HostReceives(h)

Next ==
    \/ Delivery
    \/ \E s \in Switches : udatapath_cmd(s)
    \/ \E s \in Switches : \E port \in Dps[s].ports : dp_port_live_update(s, port)
    \/ \E h, g \in Hosts : HostAsks(h, g) \/ HostOpens(h, g) \/ HostTalks(h, g)
    \/ \E e \in Ends : LinkFails(e)
    \/ Tick

\* The step was one of Delivery: every other one needs a quiet network or changes
\* one of these.
Delivered == ~Quiet /\ UNCHANGED <<running, live, cut, asked, timers, now, scenario>>

\* Weak fairness of Delivery, with ~Quiet for ENABLED Delivery: the switches read
\* their ports in every pass of their loop, the hosts theirs.
Fairness == []<>Quiet \/ []<><<Delivered>>_vars

Spec == Init /\ [][Next]_vars

FairSpec == Spec /\ Fairness

\* A host that goes on talking: weak fairness of HostTalks, whose guard is
\* spelt out too; and every switch looks at its ports.
TalkingSpec ==
    /\ FairSpec
    /\ \A x \in UNION {Scenarios[n].Talks : n \in DOMAIN Scenarios} :
          \/ []<>(~Quiet \/ x \notin Talks \/ got[x[1]][x[2]] = {})
          \/ []<><<HostTalks(x[1], x[2])>>_vars
    /\ \A e \in UNION {Scenarios[n].Fragile : n \in DOMAIN Scenarios} :
          WF_vars(dp_port_live_update(e[1], e[2]))

-----------------------------------------------------------------------------
(* Properties.                                                             *)

\* Where switch s sends a frame for host m: an end of a link, or none.
LeaseHop(s, m) ==
    LET p == FoundPort(sws[s].mac_port, m, now)
    IN  IF p = -1 THEN {} ELSE {Peer[<< s, p >>][1]}

\* A relation on the switches, given by the next hops of each, has no cycle.
Acyclic(hop(_)) ==
    \A C \in SUBSET Switches \ {{}} : \E s \in C : hop(s) \cap C = {}

\* The next hops of the ARP-Path tables, in the networks that do not repair paths.
ArpHops ==
    UNION {{[host |-> e.mac, at |-> s, to |-> Peer[<< s, e.port >>][1]] :
               e \in {t \in Range(sws[s].mac_port) : Alive(t, now)}} :
           s \in {n \in running : option.TCP_PATH = 0 /\ option.recuperacion = 0}}

Path == INSTANCE ArpPath WITH
    Bridges <- UNION {DOMAIN Scenarios[n].Dps : n \in DOMAIN Scenarios}, Stations <- Hosts,
    hops <- ArpHops, failed <- Switches \ running

\* Where hosts resolve addresses and send no data, the switches implement ARP-Path
\* (pipeline_arp_path and the address list): an address is locked to the port of the
\* first copy, only along a path that is known back to the host, and the leases along
\* a path end from its far end, although every switch has its own table, timers and
\* purges, and may die of a purge.
ImplementsArpPath == Path!PathSpec

\* The links fall silent again after every broadcast, although the network
\* has cycles and no spanning tree.
FloodEnds == []<>Quiet

\* Who asks for an address is answered, unless a switch dies of its own purge
\* or a link fails.
Resolved ==
    \A x \in UNION {Scenarios[n].Asks : n \in DOMAIN Scenarios} :
        x \in Asks /\ asked[x] > 0
            ~> "arp_rep" \in got[x[1]][x[2]] \/ running # Switches \/ cut # {}

\* The entries of connection c in switch s: at most one.
TcpAt(s, c) ==
    LET k == FirstConn(sws[s].tcp_table, {c})
    IN  IF k = 0 THEN {} ELSE {sws[s].tcp_table[k]}

Conns == {Conn(x[1], x[2], 1, 80) : x \in Opens}

\* The TCP tables of a network are paths.  The ports towards the client lead to
\* the client: no circle.  A path that a SYN+ACK has confirmed is one path: the
\* switch behind port_out has confirmed it too, and its port towards the client
\* leads back here (table_tcp_update_port and table_tcp_found_port_in).
TcpPathsAreOne ==
    \A c \in Conns :
        /\ LET hop(s) == {Peer[<< s, t.port_in >>][1] : t \in TcpAt(s, c)} IN Acyclic(hop)
        /\ \A s \in Switches : \A t \in TcpAt(s, c) :
              t.port_out # 0 =>
                  LET e == Peer[<< s, t.port_out >>]
                  IN  \/ e = HostEnd(c[2])
                      \/ \E u \in TcpAt(e[1], c) : u.port_in = e[2] /\ u.port_out # 0

\* A connection that is opened carries data.
Connected ==
    \A x \in UNION {Scenarios[n].Opens : n \in DOMAIN Scenarios} :
        x \in Opens /\ asked[x] > 0 ~> "tcp" \in got[x[2]][x[1]]

\* Following the leases of m from switch s over links that work ends at m: no
\* set of switches keeps what is sent there.
Reaches(s, m) ==
    LET hop(n) == {q \in LeaseHop(n, m) \cap (Switches \cup {m}) :
                     << n, FoundPort(sws[n].mac_port, m, now) >> \notin cut}
    IN  \A C \in SUBSET Switches : s \in C => \E n \in C : ~(hop(n) \subseteq C)

\* With recovery on, whoever goes on talking after a link of its own switch has
\* failed is heard again: a path of leases over working links comes back
\* (arp_path_send_unicast, apply_recovery).
PathRestored ==
    \A x \in UNION {Scenarios[n].Talks : n \in DOMAIN Scenarios} :
        [](x \in Talks /\ got[x[1]][x[2]] # {}
            => <>(x \in Talks /\ Reaches(Peer[HostEnd(x[1])][1], x[2])))
=============================================================================
