------------------------------ MODULE ArpPath ------------------------------
(***************************************************************************)
(* What ARP-Path promises, without frames, links, tables and clocks.  For  *)
(* every host a switch has at most one next hop, the neighbour from which  *)
(* the first copy of a frame of the host came.  A switch takes a next hop  *)
(* only from a neighbour that knows the way itself, keeps it while it has  *)
(* one, and no next hop outlives the one behind it unless a switch fails.  *)
(*                                                                         *)
(* While hosts only ask for addresses and answer, the switches of module   *)
(* UahNetwork keep to it: their next hops are the entries in time of the   *)
(* ARP-Path tables (udatapath/dp_ports.c, mac_port).  Data frames renew    *)
(* leases anywhere on a path, and then a next hop may outlive the one      *)
(* behind it.  Module ArpPathProofs proves that next hops never form a     *)
(* loop.                                                                   *)
(***************************************************************************)

CONSTANTS Bridges,     \* the switches
          Stations     \* the hosts

VARIABLES
    hops,              \* the next hops: switch at sends what is for host to node to
    failed             \* the switches that have died

pathVars == <<hops, failed>>

\* No switch is a host that sends to itself.
Hop ==
    {w \in [host : Stations, at : Bridges, to : Bridges \cup Stations] : w.at # w.host}

\* Switch s has a next hop for host m among those of H.
Has(H, m, s) == \E w \in H : w.host = m /\ w.at = s

\* Node n knows the way to host m: it is the host, or has a next hop, or had one
\* when it died.
Knows(H, dead, m, n) == n = m \/ n \in dead \/ Has(H, m, n)

\* Every next hop of H knows the way on.
Chain(H, dead) == \A w \in H : Knows(H, dead, w.host, w.to)

PathInit == hops = {} /\ failed = {}

\* A frame of a host reaches a switch by way of a neighbour, and the switch had no
\* next hop for that host.
Lock ==
    /\ \E w \in hops' \ hops :
          /\ w \in Hop
          /\ w.at \notin failed
          /\ ~Has(hops, w.host, w.at)
          /\ Knows(hops, failed, w.host, w.to)
          /\ hops' = hops \cup {w}
    /\ UNCHANGED failed

\* Next hops come to their end, any number at a time, but none before those that
\* lead to it.
Expire ==
    /\ hops' \subseteq hops
    /\ UNCHANGED failed
    /\ Chain(hops', failed)

\* A switch dies, and those that send to it do not know.
Fail(s) ==
    /\ failed' = failed \cup {s}
    /\ hops' = {w \in hops : w.at # s}

PathNext ==
    \/ Expire
    \/ Lock
    \/ \E s \in Bridges : Fail(s)

PathSpec == PathInit /\ [][PathNext]_pathVars

-----------------------------------------------------------------------------
(* Properties. *)

PathTypeOK == hops \subseteq Hop /\ failed \subseteq Bridges

\* Every next hop knows the way on.
Chained == Chain(hops, failed)

\* The nodes to which s sends what is meant for m.
To(m, s) == {w.to : w \in {v \in hops : v.host = m /\ v.at = s}}

\* No set of switches sends what is meant for m round among themselves.
LoopFree ==
    \A m \in Stations : \A C \in SUBSET Bridges :
        C # {} => \E s \in C : To(m, s) \cap C = {}

\* What is sent to a host arrives there or at a switch that has died: a set of
\* switches with next hops that does neither hands over to one outside of it that
\* knows the way.
LeadsToHost ==
    \A m \in Stations : \A C \in SUBSET {s \in Bridges : Has(hops, m, s)} :
        C # {} => \E s \in C, n \in (Bridges \cup Stations) \ C :
                     n \in To(m, s) /\ Knows(hops, failed, m, n)
=============================================================================
