---------------------------- MODULE PacketActions ----------------------------
(***************************************************************************)
(* What the actions do to a packet (udatapath/dp_actions.c) and to what    *)
(* the datapath remembers of it, the headers that the last parse found     *)
(* (packet_handle_std.c, nbee_link.cpp).                                   *)
(*                                                                         *)
(* A packet is its headers in their order.  A header has a kind, the type  *)
(* of the next header (where it has such a field), one value that stands   *)
(* for its other fields, and its TTL; an MPLS header also has the bottom   *)
(* of stack bit.  Pointers to headers are indexes, 0 a null pointer.       *)
(* Checksums are in module Csum.                                           *)
(***************************************************************************)
EXTENDS Integers, Sequences, FiniteSets, SequencesExt

CONSTANTS
    Arriving,        \* packets that come in: sequences of headers
    FieldValues,    \* values of fields
    Sources,        \* where action lists come from
    MaxActions,     \* bound on the actions of a list
    BehindMpls      \* whether the decoder goes on behind an MPLS header: the test
                    \* in its description names a field that MPLS has not

ASSUME PacketActionsConstants == MaxActions \in Nat /\ BehindMpls \subseteq BOOLEAN

VARIABLES
    pkt,      \* the packet, and what the parse found
    source,   \* where the list comes from: "flow", "group" or "packet_out"
    asked,    \* kinds of headers that the flow's match asks for
    executed  \* actions executed so far

packetVars == <<pkt, source, asked, executed>>

TypedKinds == {"eth", "vlan", "pbb"}

\* inner: the customer's addresses in a PBB header.
Hdr(k, type) == [k |-> k, type |-> type, v |-> 0, ttl |-> 2, s |-> TRUE, inner |-> 0]

Pointers == {"eth", "vlan", "vlan_last", "mpls", "pbb", "ipv4", "ipv6", "arp", "tcp", "udp", "icmp"}

NoProto == [p \in Pointers |-> 0]

-----------------------------------------------------------------------------
(* Parsing.  What follows a header is taken for what the header's type       *)
(* says.  No MPLS header is recognised behind a VLAN tag or a PBB header.    *)

Follows(h, deep) ==
    CASE h.k = "eth" -> IF h.type \in {"arp", "ipv4", "ipv6", "vlan", "mpls", "pbb"} THEN h.type ELSE ""
      [] h.k \in {"vlan", "pbb"} -> IF h.type \in {"arp", "ipv4", "ipv6", "vlan", "pbb"} THEN h.type ELSE ""
      [] h.k = "mpls" -> IF ~deep THEN "" ELSE IF h.s THEN "ipv4" ELSE "mpls"
      [] h.k \in {"ipv4", "ipv6"} -> IF h.type \in {"tcp", "udp", "icmp"} THEN h.type ELSE ""
      [] OTHER -> ""

\* The header at i is taken for kind k.
Found(proto, k, i) ==
    CASE k = "vlan" -> [proto EXCEPT !.vlan_last = i, !.vlan = IF @ = 0 THEN i ELSE @]
      [] OTHER -> IF proto[k] = 0 THEN [proto EXCEPT ![k] = i] ELSE proto

RECURSIVE nblink_packet_parse(_, _, _, _, _)
nblink_packet_parse(hdrs, i, k, deep, proto) ==
    IF k = "" \/ i > Len(hdrs) THEN proto
    ELSE LET next == Follows([hdrs[i] EXCEPT !.k = k], deep)
         IN  nblink_packet_parse(hdrs, i + 1, next, deep, Found(proto, k, i))

\* The fields that matching uses, by header.
MatchFields(hdrs, proto) == [p \in Pointers |-> IF proto[p] = 0 THEN -1 ELSE hdrs[proto[p]].v]

packet_handle_std_validate(p) ==
    IF p.valid THEN p
    ELSE LET proto == nblink_packet_parse(p.hdrs, 1, "eth", p.deep, NoProto)
         IN  [p EXCEPT !.valid = TRUE, !.proto = proto, !.fields = MatchFields(p.hdrs, proto)]

\* A fresh handle, as packet_create and packet_clone make it.
fresh_handle(hdrs, deep) ==
    packet_handle_std_validate([hdrs |-> hdrs, deep |-> deep, valid |-> FALSE, proto |-> NoProto,
                                fields |-> [p \in Pointers |-> -1], tunnel_id |-> 0,
                                crashed |-> FALSE])

-----------------------------------------------------------------------------
(* SET_FIELD.  Fields that are handled alike are one; every case ends with   *)
(* the handle marked invalid.                                                *)

\* Overwrite a field of the header that a pointer leads to.
Write(p, ptr, v) ==
    IF p.proto[ptr] = 0 THEN [p EXCEPT !.crashed = TRUE]
    ELSE [p EXCEPT !.hdrs[p.proto[ptr]].v = v]

\* The Ethernet type is the type of the first header, whatever follows.
SetEthType(p, type) ==
    IF p.proto["eth"] = 0 THEN [p EXCEPT !.crashed = TRUE]
    ELSE [p EXCEPT !.hdrs[p.proto["eth"]].type = type]

SetIfThere(p, ptr, v) == IF p.proto[ptr] = 0 THEN p ELSE Write(p, ptr, v)

SetDscpOrEcn(p, v) ==
    IF p.proto["ipv4"] # 0 THEN Write(p, "ipv4", v) ELSE SetIfThere(p, "ipv6", v)

\* Without a VLAN tag the case of VLAN_PCP falls through to the next one, IP_DSCP.
SetVlanPcp(p, v) == IF p.proto["vlan"] # 0 THEN Write(p, "vlan", v) ELSE SetDscpOrEcn(p, v)

\* Only IPv4 is thought of.
SetIpProto(p, v) == Write(p, "ipv4", v)

SetIpv4Address(p, v) == Write(p, "ipv4", v)

SetTcpPort(p, v) == Write(p, "tcp", v)

SetUdpPort(p, v) == Write(p, "udp", v)

SetIcmp(p, v) == Write(p, "icmp", v)

SetArp(p, v) == Write(p, "arp", v)

SetIpv6(p, v) == Write(p, "ipv6", v)

SetMpls(p, v) == Write(p, "mpls", v)

SetPbb(p, v) == Write(p, "pbb", v)

SetTunnelId(p, v) == [p EXCEPT !.tunnel_id = v]

SettableFields == {"eth_addr", "eth_type", "vlan_vid", "vlan_pcp", "ip_dscp", "ip_proto", "ipv4_addr",
                   "tcp_port", "udp_port", "icmp", "arp", "ipv6", "mpls", "pbb", "tunnel_id"}

set_field(p0, f, v) ==
    LET p == packet_handle_std_validate(p0)
        q == CASE f = "eth_addr" -> Write(p, "eth", v)
               [] f = "eth_type" -> SetEthType(p, "unknown")
               [] f = "vlan_vid" -> SetIfThere(p, "vlan", v)
               [] f = "vlan_pcp" -> SetVlanPcp(p, v)
               [] f = "ip_dscp" -> SetDscpOrEcn(p, v)
               [] f = "ip_proto" -> SetIpProto(p, v)
               [] f = "ipv4_addr" -> SetIpv4Address(p, v)
               [] f = "tcp_port" -> SetTcpPort(p, v)
               [] f = "udp_port" -> SetUdpPort(p, v)
               [] f = "icmp" -> SetIcmp(p, v)
               [] f = "arp" -> SetArp(p, v)
               [] f = "ipv6" -> SetIpv6(p, v)
               [] f = "mpls" -> SetMpls(p, v)
               [] f = "pbb" -> SetPbb(p, v)
               [] OTHER -> SetTunnelId(p, v)
    IN  [q EXCEPT !.valid = FALSE]

-----------------------------------------------------------------------------
(* The other actions.  A pointer eth_snap is never set by the parse.         *)

copy_ttl_out(p0) ==
    LET p == packet_handle_std_validate(p0)
        m == p.proto["mpls"]
    IN  IF m = 0 \/ m = Len(p.hdrs) THEN p
        ELSE IF ~p.hdrs[m].s \/ p.hdrs[m + 1].k \in {"ipv4", "ipv6"}
        THEN [p EXCEPT !.hdrs[m].ttl = p.hdrs[m + 1].ttl] ELSE p

copy_ttl_in(p0) ==
    LET p == packet_handle_std_validate(p0)
        m == p.proto["mpls"]
    IN  IF m = 0 \/ m = Len(p.hdrs) THEN p
        ELSE IF ~p.hdrs[m].s \/ p.hdrs[m + 1].k \in {"ipv4", "ipv6"}
        THEN [p EXCEPT !.hdrs[m + 1].ttl = p.hdrs[m].ttl] ELSE p

\* Mutant: a tag is pushed and the handle is not marked invalid.
PushVlanUnseen(p0) ==
    LET p == packet_handle_std_validate(p0)
        e == p.proto["eth"]
    IN  IF e = 0 THEN p
        ELSE [p EXCEPT !.hdrs = InsertAt([p.hdrs EXCEPT ![e].type = "vlan"], e + 1,
                                         Hdr("vlan", p.hdrs[e].type))]

push_vlan(p0) ==
    LET p == packet_handle_std_validate(p0)
        e == p.proto["eth"]
        old == p.proto["vlan"]
        tag == [Hdr("vlan", p.hdrs[e].type) EXCEPT !.v = IF old = 0 THEN 0 ELSE p.hdrs[old].v]
    IN  IF e = 0 THEN p
        ELSE [p EXCEPT !.hdrs = InsertAt([p.hdrs EXCEPT ![e].type = "vlan"], e + 1, tag),
                       !.valid = FALSE]

pop_vlan(p0) ==
    LET p == packet_handle_std_validate(p0)
        e == p.proto["eth"]
        t == p.proto["vlan"]
    IN  IF e = 0 \/ t = 0 THEN p
        ELSE [p EXCEPT !.hdrs = RemoveAt([p.hdrs EXCEPT ![e].type = p.hdrs[t].type], t),
                       !.valid = FALSE]

set_mpls_ttl(p0, ttl) ==
    LET p == packet_handle_std_validate(p0)
    IN  IF p.proto["mpls"] = 0 THEN p ELSE [p EXCEPT !.hdrs[p.proto["mpls"]].ttl = ttl]

dec_mpls_ttl(p0) ==
    LET p == packet_handle_std_validate(p0)
    IN  IF p.proto["mpls"] = 0 THEN p
        ELSE [p EXCEPT !.hdrs[p.proto["mpls"]].ttl = IF @ > 0 THEN @ - 1 ELSE @]

\* The header whose type tells what follows the Ethernet header and its tags.
LastTyped(p) == IF p.proto["vlan_last"] # 0 THEN p.proto["vlan_last"] ELSE p.proto["eth"]

push_mpls(p0) ==
    LET p == packet_handle_std_validate(p0)
        e == LastTyped(p)
        above(ptr) == p.hdrs[p.proto[ptr]]
        label == CASE p.proto["mpls"] # 0 -> [above("mpls") EXCEPT !.s = FALSE]
                   [] p.proto["mpls"] = 0 /\ p.proto["ipv4"] # 0 ->
                        [Hdr("mpls", "-") EXCEPT !.ttl = above("ipv4").ttl]
                   [] p.proto["mpls"] = 0 /\ p.proto["ipv4"] = 0 /\ p.proto["ipv6"] # 0 ->
                        [Hdr("mpls", "-") EXCEPT !.ttl = above("ipv6").ttl]
                   [] OTHER -> [Hdr("mpls", "-") EXCEPT !.ttl = 0]
    IN  IF p.proto["eth"] = 0 THEN p
        ELSE [p EXCEPT !.hdrs = InsertAt([p.hdrs EXCEPT ![e].type = "mpls"], e + 1, label),
                       !.valid = FALSE]

\* The controller says what the type is when the label is gone.
pop_mpls(p0, type) ==
    LET p == packet_handle_std_validate(p0)
        m == p.proto["mpls"]
    IN  IF p.proto["eth"] = 0 \/ m = 0 THEN p
        ELSE [p EXCEPT !.hdrs = RemoveAt([p.hdrs EXCEPT ![LastTyped(p)].type = type], m),
                       !.valid = FALSE]

push_pbb(p0) ==
    LET p == packet_handle_std_validate(p0)
        e == p.proto["eth"]
        old == p.proto["pbb"]
        tag == [Hdr("pbb", p.hdrs[e].type) EXCEPT
                  !.v = IF old = 0 \/ p.proto["vlan"] # 0 THEN 0 ELSE p.hdrs[old].v,
                  !.inner = p.hdrs[e].v]
    IN  IF e = 0 THEN p
        ELSE [p EXCEPT !.hdrs = InsertAt([p.hdrs EXCEPT ![e].type = "pbb"], e + 1, tag),
                       !.valid = FALSE]

\* The customer's frame begins at its addresses in the PBB header.
pop_pbb(p0) ==
    LET p == packet_handle_std_validate(p0)
        b == p.proto["pbb"]
        frame == [Hdr("eth", p.hdrs[b].type) EXCEPT !.v = p.hdrs[b].inner]
    IN  IF p.proto["eth"] = 0 \/ b = 0 THEN p
        ELSE [p EXCEPT !.hdrs = <<frame>> \o SubSeq(p.hdrs, b + 1, Len(p.hdrs)), !.valid = FALSE]

set_nw_ttl(p0, ttl) ==
    LET p == packet_handle_std_validate(p0)
        i == IF p.proto["ipv4"] # 0 THEN p.proto["ipv4"] ELSE p.proto["ipv6"]
    IN  IF i = 0 THEN p ELSE [p EXCEPT !.hdrs[i].ttl = ttl]

dec_nw_ttl(p0) ==
    LET p == packet_handle_std_validate(p0)
        i == IF p.proto["ipv4"] # 0 THEN p.proto["ipv4"] ELSE p.proto["ipv6"]
    IN  IF i = 0 THEN p ELSE [p EXCEPT !.hdrs[i].ttl = IF @ > 0 THEN @ - 1 ELSE @]

\* The packet-in carries the fields of the match.
OutputController(p) == packet_handle_std_validate(p)

-----------------------------------------------------------------------------
(* Lists of actions. *)

\* The headers that a match must ask for before a field may be set; one of them.
Prerequisite(f) ==
    CASE f \in {"ip_dscp", "ip_proto"} -> {"ipv4", "ipv6"}
      [] f = "ipv4_addr" -> {"ipv4"}
      [] f = "tcp_port" -> {"tcp"}
      [] f = "udp_port" -> {"udp"}
      [] f \in {"icmp", "arp", "ipv6", "mpls", "pbb"} -> {f}
      [] f = "vlan_pcp" -> {"vlan"}
      [] OTHER -> {}

\* Lists of packet-outs and of buckets are not tested.
dp_actions_check_set_field_req(f) ==
    source = "flow" => Prerequisite(f) = {} \/ Prerequisite(f) \cap asked # {}

PacketInit ==
    /\ \E hdrs \in Arriving, deep \in BehindMpls : pkt = fresh_handle(hdrs, deep)
    /\ source \in Sources
    /\ asked = {k \in Pointers : pkt.proto[k] # 0}
    /\ executed = 0

Executing == ~pkt.crashed /\ executed < MaxActions /\ executed' = executed + 1

SetField(f, v) ==
    /\ Executing /\ dp_actions_check_set_field_req(f)
    /\ pkt' = set_field(pkt, f, v) /\ UNCHANGED <<source, asked>>

TtlAction ==
    /\ Executing
    /\ pkt' \in {copy_ttl_out(pkt), copy_ttl_in(pkt), dec_mpls_ttl(pkt), dec_nw_ttl(pkt)}
                \cup {set_mpls_ttl(pkt, n) : n \in 0..1} \cup {set_nw_ttl(pkt, n) : n \in 0..1}
    /\ UNCHANGED <<source, asked>>

Push ==
    /\ Executing /\ pkt' \in {push_vlan(pkt), push_mpls(pkt), push_pbb(pkt)}
    /\ UNCHANGED <<source, asked>>

\* The type given for a label that goes is that of what follows it.
PopTag ==
    /\ Executing
    /\ LET m == packet_handle_std_validate(pkt).proto["mpls"]
           type == IF m = 0 \/ m = Len(pkt.hdrs) THEN "unknown" ELSE pkt.hdrs[m + 1].k
       IN  pkt' \in {pop_vlan(pkt), pop_mpls(pkt, type), pop_pbb(pkt)}
    /\ UNCHANGED <<source, asked>>

Output ==
    /\ Executing /\ pkt' = OutputController(pkt) /\ UNCHANGED <<source, asked>>

\* A group gets a copy of the packet, and so does the pipeline when a packet-out
\* hands it a packet: the copy is followed.
CloneForGroup ==
    /\ Executing /\ pkt' = fresh_handle(pkt.hdrs, pkt.deep)
    /\ source' = "group" /\ UNCHANGED asked

CloneForPipeline ==
    /\ Executing /\ source = "packet_out"
    /\ pkt' = fresh_handle(pkt.hdrs, pkt.deep)
    /\ source' = "flow" /\ asked' = {k \in Pointers : pkt'.proto[k] # 0}

PacketNext ==
    \/ \E f \in SettableFields, v \in FieldValues : SetField(f, v)
    \/ TtlAction \/ Push \/ PopTag \/ Output \/ CloneForGroup \/ CloneForPipeline

PacketSpec == PacketInit /\ [][PacketNext]_packetVars

-----------------------------------------------------------------------------
(* Properties. *)

\* A handle that is marked valid shows the packet as it is: its pointers lead to
\* the headers where they are now, and the fields it is matched by are theirs.
HandleIsCurrent ==
    pkt.valid =>
        LET proto == nblink_packet_parse(pkt.hdrs, 1, "eth", pkt.deep, NoProto)
        IN  pkt.proto = proto /\ pkt.fields = MatchFields(pkt.hdrs, proto)

\* Pushing and popping tags and labels in any order leaves every header's type
\* naming the header that follows.  (A PBB header in front of a VLAN tag is the
\* exception: pop_vlan then writes the type into the wrong header.)
TypesChain ==
    (\A i \in DOMAIN pkt.hdrs : pkt.hdrs[i].k # "pbb") =>
        \A i \in 1..(Len(pkt.hdrs) - 1) :
            pkt.hdrs[i].k \in TypedKinds => pkt.hdrs[i].type \in {pkt.hdrs[i + 1].k, "unknown"}

\* Whatever list of actions a packet goes through, what it is matched by and sent
\* with is what it consists of.
HeadersAgree == HandleIsCurrent /\ TypesChain

\* "Field existence is guaranteed by the field pre-requisite on matching"
\* (dp_actions.c, set_field): a field is only set in a header that is there.
FieldExists == ~pkt.crashed
=============================================================================
