---------------------------- MODULE MCUahNetwork ----------------------------
(* The networks of the runs.                                               *)
EXTENDS UahNetwork, TLC

CONSTANTS h1, h2, s1, s2, s3, s4, t1, t2, g1, g2

\* A link, in both directions.
Cable(n, p, m, q) == (<< n, p >> :> << m, q >>) @@ (<< m, q >> :> << n, p >>)

Datapath(id, mac, n) == [id |-> id, mac |-> mac, ports |-> 1 .. n, ports_num |-> n + 1]

\* What the hellos of the switches around s leave in its neighbour table.
HeardBy(s, dps, peer) ==
    LET from(p) == peer[<< s, p >>][1]
        ports == {p \in dps[s].ports : from(p) \in DOMAIN dps}
        nth(n) == CHOOSE p \in ports : Cardinality({q \in ports : q <= p}) = n
        entry(p) == MacEntry(dps[from(p)].mac, p, 2, hello(dps[from(p)]).vecino)
    IN  [n \in 1 .. Cardinality(ports) |-> entry(nth(n))]

AllHeard(dps, peer) == [s \in DOMAIN dps |-> HeardBy(s, dps, peer)]

OneWay == {<< h1, h2 >>}

\* A triangle of core switches, a host at each of two corners.
TriangleDps ==
    (s1 :> Datapath(1001, s1, 3)) @@ (s2 :> Datapath(1002, s2, 3)) @@ (s3 :> Datapath(1003, s3, 2))
TrianglePeer ==
    Cable(h1, 1, s1, 1) @@ Cable(h2, 1, s2, 1)
        @@ Cable(s1, 2, s2, 2) @@ Cable(s1, 3, s3, 1) @@ Cable(s2, 3, s3, 2)

\* Its hosts resolve addresses, and leases expire and are purged.
Triangle ==
    [Dps |-> TriangleDps, Peer |-> TrianglePeer, Heard |-> AllHeard(TriangleDps, TrianglePeer),
     Learnt |-> [s \in DOMAIN TriangleDps |-> << >>],
     TCP_PATH |-> 0, controlador |-> 0, recuperacion |-> 0, RepairDecoded |-> FALSE,
     BT_TIME |-> 1, LT_TIME |-> 2, TCP_TIME |-> 2, TIME_RECOVERY |-> 2,
     TIME_ARP |-> 1, TIME_TCP_DELETE |-> 1,
     Asks |-> OneWay, Talks |-> {}, Opens |-> {}, MaxAsks |-> 2,
     Fragile |-> {}, MaxFailures |-> 0, MaxTime |-> 3]

\* Two ToR switches t1, t2 under two aggregation switches g1, g2.
TreeDps ==
    (t1 :> Datapath(1, t1, 3)) @@ (t2 :> Datapath(2, t2, 3))
        @@ (g1 :> Datapath(101, g1, 2)) @@ (g2 :> Datapath(102, g2, 2))
TreePeer ==
    Cable(h1, 1, t1, 1) @@ Cable(h2, 1, t2, 1)
        @@ Cable(t1, 2, g1, 1) @@ Cable(t1, 3, g2, 1) @@ Cable(t2, 2, g1, 2) @@ Cable(t2, 3, g2, 2)
Uplinks == {<< t1, 2 >>, << t1, 3 >>}

\* One of the uplinks of t1 fails while h1 talks.
Tree ==
    [Triangle EXCEPT
       !.Dps = TreeDps, !.Peer = TreePeer, !.Heard = AllHeard(TreeDps, TreePeer),
       !.Learnt = [s \in DOMAIN TreeDps |-> << >>],
       !.recuperacion = 1, !.RepairDecoded = TRUE, !.BT_TIME = 2, !.LT_TIME = 3,
       !.TIME_ARP = 9, !.TIME_TCP_DELETE = 9,
       !.Talks = OneWay, !.MaxAsks = 1, !.Fragile = Uplinks, !.MaxFailures = 1, !.MaxTime = 1]

\* A triangle of core switches, the server at a fourth one behind it; and the
\* tables after h1 has resolved the address of h2.
KiteDps ==
    (s1 :> Datapath(1001, s1, 3)) @@ (s2 :> Datapath(1002, s2, 2))
        @@ (s3 :> Datapath(1003, s3, 3)) @@ (s4 :> Datapath(1004, s4, 2))
KitePeer ==
    Cable(h1, 1, s1, 1) @@ Cable(h2, 1, s4, 1)
        @@ Cable(s1, 2, s2, 1) @@ Cable(s1, 3, s3, 1) @@ Cable(s2, 2, s3, 2) @@ Cable(s3, 3, s4, 2)
KiteLearnt ==
    (s1 :> << MacEntry(h2, 3, 3, 0), MacEntry(h1, 1, 3, 1) >>)
        @@ (s2 :> << MacEntry(h1, 1, 2, 0) >>)
        @@ (s3 :> << MacEntry(h2, 3, 3, 0), MacEntry(h1, 1, 3, 0) >>)
        @@ (s4 :> << MacEntry(h2, 1, 3, 1), MacEntry(h1, 2, 3, 0) >>)

\* h1 opens a connection to h2, twice.
Kite ==
    [Triangle EXCEPT
       !.Dps = KiteDps, !.Peer = KitePeer, !.Heard = AllHeard(KiteDps, KitePeer),
       !.Learnt = KiteLearnt,
       !.TCP_PATH = 1, !.BT_TIME = 2, !.LT_TIME = 3, !.TIME_ARP = 9, !.TIME_TCP_DELETE = 9,
       !.Asks = {}, !.Opens = OneWay, !.MaxTime = 2]

MCNetworks == ("triangle" :> Triangle) @@ ("tree" :> Tree) @@ ("kite" :> Kite)
=============================================================================
