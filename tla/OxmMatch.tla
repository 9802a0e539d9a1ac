------------------------------ MODULE OxmMatch ------------------------------
(***************************************************************************)
(* OXM matches between memory and the wire: oflib/oxm-match.c with its     *)
(* table of fields (oxm-match.def), the puts of oflib/ofl-structs-match.c, *)
(* and the packing and unpacking of struct ofp_match.                      *)
(*                                                                         *)
(* A TLV is a record: its field f, whether its header has a mask (w), its  *)
(* value val, and bad, whether its value has bits outside of its mask.     *)
(* The byte order of a value is a part of it (order: "net" or "host").     *)
(* A match in memory is a bag of TLVs, of which no two are alike, hence a  *)
(* set, with the header.length the code keeps for it.                      *)
(***************************************************************************)
EXTENDS Integers, Sequences, FiniteSets, FiniteSetsExt, SequencesExt

ROUND_UP(x, y) == ((x + (y - 1)) \div y) * y

-----------------------------------------------------------------------------
(* The fields. *)

Row(bytes, dl, proto, maskable) ==
    [bytes |-> bytes, dl_type |-> dl, nw_proto |-> proto, maskable |-> maskable]

\* oxm-match.def's OXM_DL_ macros.
DL_IP_ANY == {"ip", "ipv6"}

DL_MPLS == {"mpls", "mpls_mcast"}

\* Fields that need no other one.
LinkFields ==
    [IN_PORT     |-> Row(4, {}, "", FALSE),   IN_PHY_PORT |-> Row(4, {}, "", FALSE),
     METADATA    |-> Row(8, {}, "", TRUE),    ETH_DST     |-> Row(6, {}, "", TRUE),
     ETH_SRC     |-> Row(6, {}, "", TRUE),    ETH_TYPE    |-> Row(2, {}, "", FALSE),
     VLAN_VID    |-> Row(2, {}, "", TRUE),    VLAN_PCP    |-> Row(1, {}, "", FALSE)]

\* IP, IPv4, the transport layer and ARP.
NetFields ==
    [IP_DSCP     |-> Row(1, DL_IP_ANY, "", FALSE), IP_ECN  |-> Row(1, DL_IP_ANY, "", FALSE),
     IP_PROTO    |-> Row(1, DL_IP_ANY, "", FALSE),
     IPV4_SRC    |-> Row(4, {"ip"}, "", TRUE),     IPV4_DST |-> Row(4, {"ip"}, "", TRUE),
     TCP_SRC     |-> Row(2, DL_IP_ANY, "tcp", FALSE),
     TCP_DST     |-> Row(2, DL_IP_ANY, "tcp", FALSE),
     UDP_SRC     |-> Row(2, DL_IP_ANY, "udp", FALSE),
     UDP_DST     |-> Row(2, DL_IP_ANY, "udp", FALSE),
     SCTP_SRC    |-> Row(2, DL_IP_ANY, "sctp", FALSE),
     SCTP_DST    |-> Row(2, DL_IP_ANY, "sctp", FALSE),
     ICMPV4_TYPE |-> Row(1, {"ip"}, "icmp", FALSE),
     ICMPV4_CODE |-> Row(1, {"ip"}, "icmp", FALSE),
     ARP_OP      |-> Row(2, {"arp"}, "", FALSE),
     ARP_SPA     |-> Row(4, {"arp"}, "", TRUE), ARP_TPA   |-> Row(4, {"arp"}, "", TRUE),
     ARP_SHA     |-> Row(6, {"arp"}, "", TRUE), ARP_THA   |-> Row(6, {"arp"}, "", TRUE)]

Ipv6Fields ==
    [IPV6_SRC    |-> Row(16, {"ipv6"}, "", TRUE),  IPV6_DST |-> Row(16, {"ipv6"}, "", TRUE),
     IPV6_FLABEL |-> Row(4, {"ipv6"}, "", TRUE),   IPV6_EXTHDR |-> Row(2, {"ipv6"}, "", TRUE),
     ICMPV6_TYPE |-> Row(1, {"ipv6"}, "icmpv6", FALSE),
     ICMPV6_CODE |-> Row(1, {"ipv6"}, "icmpv6", FALSE),
     IPV6_ND_TARGET |-> Row(16, {"ipv6"}, "icmpv6", FALSE),
     IPV6_ND_SLL |-> Row(6, {"ipv6"}, "icmpv6", FALSE),
     IPV6_ND_TLL |-> Row(6, {"ipv6"}, "icmpv6", FALSE)]

\* MPLS, provider backbone bridges and tunnels.
LabelFields ==
    [MPLS_LABEL  |-> Row(4, DL_MPLS, "", FALSE),
     MPLS_TC     |-> Row(1, DL_MPLS, "", FALSE),
     MPLS_BOS    |-> Row(1, DL_MPLS, "", FALSE),
     TUNNEL_ID   |-> Row(8, {}, "", TRUE),    PBB_ISID    |-> Row(3, {"pbb"}, "", TRUE)]

all_fields == LinkFields @@ NetFields @@ Ipv6Fields @@ LabelFields

\* The table has a _W row for a maskable field only.
oxm_field_lookup(t) == t.f \in DOMAIN all_fields /\ (t.w => all_fields[t.f].maskable)

\* OXM_LENGTH of a header: a mask is as long as the value.
OXM_LENGTH(t) == IF t.w THEN 2 * all_fields[t.f].bytes ELSE all_fields[t.f].bytes

oxm_match_lookup(f, w, m) == {t \in m.fields : t.f = f /\ t.w = w}

-----------------------------------------------------------------------------
(* Filling a match: the puts of ofl-structs-match.c. *)

ofl_structs_match_init == [fields |-> {}, length |-> 0]

\* put8 ... put_ipv6m: a TLV more, and its bytes and its header's in the length.
\* put_pbb_isidm takes OXM_LENGTH of the masked header for the value's length.
ofl_structs_match_put(m, t) ==
    [fields |-> m.fields \cup {t},
     length |-> m.length + 4 + (IF t.f = "PBB_ISID" /\ t.w THEN 2 * OXM_LENGTH(t)
                                ELSE OXM_LENGTH(t))]

\* oxm_prereqs_ok: the other fields a field needs, which must come before it.
NdTypeOk(f, m) ==
    LET type == {t.val : t \in oxm_match_lookup("ICMPV6_TYPE", FALSE, m)}
    IN  CASE f \in {"IPV6_ND_SLL", "IPV6_ND_TARGET"} -> type = {135}
          [] f = "IPV6_ND_TLL" -> type = {136}
          [] OTHER -> TRUE

\* Mutant: a protocol is enough, whatever the Ethernet type.
ProtoIsEnough(f, m) ==
    LET proto == {t.val : t \in oxm_match_lookup("IP_PROTO", FALSE, m)}
        eth == {t.val : t \in oxm_match_lookup("ETH_TYPE", FALSE, m)}
    IN  /\ NdTypeOk(f, m)
        /\ IF all_fields[f].nw_proto # "" THEN proto = {all_fields[f].nw_proto}
           ELSE all_fields[f].dl_type # {} => eth \cap all_fields[f].dl_type # {}

oxm_prereqs_ok(f, m) ==
    LET proto == {t.val : t \in oxm_match_lookup("IP_PROTO", FALSE, m)}
        eth == {t.val : t \in oxm_match_lookup("ETH_TYPE", FALSE, m)}
    IN  /\ NdTypeOk(f, m)
        /\ all_fields[f].nw_proto # "" => proto = {all_fields[f].nw_proto}
        /\ all_fields[f].dl_type # {} => eth \cap all_fields[f].dl_type # {}

check_oxm_dup(t, m) == oxm_match_lookup(t.f, t.w, m) # {}

-----------------------------------------------------------------------------
(* From the wire: oxm_pull_match. *)

\* ntohs, ntohl, ntoh64 and back: on a little-endian host they swap the bytes.
Swapped(t) == [t EXCEPT !.order = IF @ = "net" THEN "host" ELSE "net"]

\* Byte arrays, and the addresses that both directions copy as they are.
ByteArray(t) == all_fields[t.f].bytes \in {1, 3, 6, 16}

AddressAsIs == {"IPV4_SRC", "IPV4_DST", "ARP_SPA", "ARP_TPA"}

OFPVID_NONE == 0

OFPVID_PRESENT == 4096

VLAN_VID_MAX == 4095

Parsed(m) == [err |-> "", m |-> m]

Refused(m, e) == [err |-> e, m |-> m]

\* check_bad_wildcard*: EXTHDR_W is not checked.  PBB_ISID_W's three bytes are
\* compared as four, so that its bad depends on the byte after the TLV, too.
check_bad_wildcard(t) == t.w /\ t.f # "IPV6_EXTHDR" /\ t.bad

ValueTooLarge(t) ==
    \/ t.f = "VLAN_VID" /\ t.val > OFPVID_PRESENT + VLAN_VID_MAX
    \/ t.f = "IP_DSCP" /\ t.val >= 64

\* The conversion of the parser's ofl_structs_match_put calls.
Stored(t) == IF ByteArray(t) \/ t.f \in AddressAsIs THEN t ELSE Swapped(t)

\* A value read beyond its TLV.
Overread == -1

\* IN_PHY_PORT falls through into METADATA's case, which puts another 8 bytes,
\* the four of the value and the four after it, under the same header.
parse_in_phy_port(m, t) ==
    IF oxm_match_lookup("IN_PORT", FALSE, m) = {} THEN Refused(m, "BAD_PREREQ")
    ELSE Parsed([fields |-> m.fields \cup {Stored(t), [Stored(t) EXCEPT !.val = Overread]},
                 length |-> m.length + 8 + 12])

\* VLAN_PCP without a tag is left out of the match.
parse_vlan_pcp(m, t) ==
    LET vid == {x.val : x \in oxm_match_lookup("VLAN_VID", FALSE, m)}
    IN  IF vid = {} THEN Refused(m, "BAD_PREREQ")
        ELSE IF vid = {OFPVID_NONE} THEN Parsed(m)
        ELSE Parsed(ofl_structs_match_put(m, Stored(t)))

parse_oxm_entry(m, t) ==
    CASE t.f = "IN_PHY_PORT" -> parse_in_phy_port(m, t)
      [] t.f = "VLAN_PCP" -> parse_vlan_pcp(m, t)
      [] check_bad_wildcard(t) -> Refused(m, "BAD_WILDCARDS")
      [] ~check_bad_wildcard(t) /\ ValueTooLarge(t) -> Refused(m, "BAD_VALUE")
      [] OTHER -> Parsed(ofl_structs_match_put(m, Stored(t)))

oxm_entry(m, t) ==
    CASE ~oxm_field_lookup(t) -> Refused(m, "BAD_FIELD")
      [] oxm_field_lookup(t) /\ ~oxm_prereqs_ok(t.f, m) -> Refused(m, "BAD_PREREQ")
      [] oxm_field_lookup(t) /\ oxm_prereqs_ok(t.f, m) /\ check_oxm_dup(t, m) ->
            Refused(m, "DUP_FIELD")
      [] OTHER -> parse_oxm_entry(m, t)

\* The loop stops at the first TLV that is refused.
oxm_pull_match(tlvs) ==
    FoldLeft(LAMBDA r, t : IF r.err # "" THEN r ELSE oxm_entry(r.m, t),
             Parsed(ofl_structs_match_init), tlvs)

-----------------------------------------------------------------------------
(* To the wire: oxm_put_match. *)

\* The requisites come first, in this order.
Requisites == <<"IN_PORT", "ETH_TYPE", "VLAN_VID", "IP_PROTO", "ICMPV6_TYPE">>

is_requisite(t) == ~t.w /\ t.f \in ToSet(Requisites)

\* oxm_put_8 ... oxm_put_ipv6m.
oxm_put(t) == IF ByteArray(t) \/ t.f \in AddressAsIs THEN t ELSE Swapped(t)

\* The sequences of TLVs that oxm_put_match may write: the other fields come in
\* the order of the hash table.
oxm_put_match(m) ==
    LET first == SelectSeq(Requisites, LAMBDA f : oxm_match_lookup(f, FALSE, m) # {})
        head == [i \in DOMAIN first |->
                   oxm_put(CHOOSE t \in m.fields : t.f = first[i] /\ ~t.w)]
        rest == {t \in m.fields : ~is_requisite(t)}
    IN  {head \o [i \in DOMAIN s |-> oxm_put(s[i])] : s \in SetToSeqs(rest)}

\* The bytes that oxm_put_match writes, and returns.
oxm_bytes(tlvs) == FoldLeft(LAMBDA n, t : n + 4 + OXM_LENGTH(t), 0, tlvs)

-----------------------------------------------------------------------------
(* struct ofp_match: type and length, the TLVs, and padding to 8 bytes that *)
(* the length does not count.                                               *)

ofl_structs_match_pack(m, tlvs) ==
    [length |-> IF m.length = 0 THEN 4 ELSE 4 + oxm_bytes(tlvs),
     tlvs |-> IF m.length = 0 THEN <<>> ELSE tlvs]

WithLength(r, length) == [r EXCEPT !.m.length = length]

ofl_structs_oxm_match_unpack(src) ==
    IF src.length > 8
    THEN WithLength(oxm_pull_match(src.tlvs), src.length - 4)
    ELSE Parsed(ofl_structs_match_init)

-----------------------------------------------------------------------------
(* The way of a match through the switch: a controller's flow mod carries  *)
(* its TLVs in any order, the switch keeps the match (oxm_pull_match), and *)
(* reports it in a flow statistics reply or a flow removed message         *)
(* (oxm_put_match), which the other side unpacks with the same library.    *)

CONSTANTS
    Tlvs,      \* TLVs of a flow mod
    MaxTlvs    \* the longest match

VARIABLES
    sent,      \* the TLVs of the flow mod
    kept,      \* what the switch made of them
    reported,  \* the TLVs of the report
    read       \* what the other side makes of the report

tripVars == <<sent, kept, reported, read>>

Nothing == [err |-> "none", m |-> ofl_structs_match_init]

TripInit ==
    /\ sent = <<>>
    /\ kept = Nothing
    /\ reported = <<>>
    /\ read = Nothing

\* The controller writes one more TLV of its match.
Write(t) ==
    /\ kept = Nothing
    /\ Len(sent) < MaxTlvs
    /\ sent' = Append(sent, t)
    /\ UNCHANGED <<kept, reported, read>>

\* The flow mod is unpacked.
Keep ==
    /\ kept = Nothing
    /\ kept' = ofl_structs_oxm_match_unpack([length |-> 4 + oxm_bytes(sent), tlvs |-> sent])
    /\ UNCHANGED <<sent, reported, read>>

\* The match is packed and unpacked.
Report ==
    /\ kept.err = ""
    /\ read = Nothing
    /\ \E s \in oxm_put_match(kept.m) :
         LET w == ofl_structs_match_pack(kept.m, s)
         IN  /\ reported' = w.tlvs
             /\ read' = ofl_structs_oxm_match_unpack(w)
    /\ UNCHANGED <<sent, kept>>

TripNext == (\E t \in Tlvs : Write(t)) \/ Keep \/ Report

TripSpec == TripInit /\ [][TripNext]_tripVars

-----------------------------------------------------------------------------
(* Properties. *)

\* The prerequisites that openflow.h states for a field.
Documented(t, before) ==
    LET has(f, vals) == \E x \in before : x.f = f /\ ~x.w /\ x.val \in vals
        row == all_fields[t.f]
    IN  /\ row.dl_type # {} => has("ETH_TYPE", row.dl_type)
        /\ row.nw_proto # "" => has("IP_PROTO", {row.nw_proto})
        /\ t.f = "IPV6_ND_TARGET" => has("ICMPV6_TYPE", {135, 136})
        /\ t.f = "IPV6_ND_SLL" => has("ICMPV6_TYPE", {135})
        /\ t.f = "IPV6_ND_TLL" => has("ICMPV6_TYPE", {136})
        /\ t.f = "IN_PHY_PORT" => \E x \in before : x.f = "IN_PORT"
        /\ t.f = "VLAN_PCP" => \E x \in before : x.f = "VLAN_VID" /\ x.val # OFPVID_NONE

\* A match that the switch accepts is well formed, in whatever order its fields
\* came: no header comes twice, and every field has the prerequisites openflow.h
\* states for it (oxm_prereqs_ok, check_oxm_dup, the checks of parse_oxm_entry).
\* IN_PHY_PORT is the exception: its case falls through to METADATA's, and leaves
\* two fields with its header.
AcceptedIsWellFormed ==
    kept.err = "" =>
        /\ \A t \in kept.m.fields : Documented(t, kept.m.fields)
        /\ \A t, u \in kept.m.fields :
              (t.f = u.f /\ t.w = u.w /\ t.f # "IN_PHY_PORT") => t = u

\* The match that the switch reports is the one it keeps, whatever order its hash
\* table has: the prerequisites come first, values keep their byte order, and
\* the length is the one of the fields (oxm_put_match against oxm_pull_match).
\* Left out: a match with IN_PHY_PORT, and one whose VLAN_PCP was dropped, whose
\* length no longer is the one of its fields.
ReportedAsKept ==
    (read # Nothing /\ \A t \in ToSet(sent) :
        t.f # "IN_PHY_PORT" /\ (t.f = "VLAN_PCP" => \E k \in kept.m.fields : k.f = t.f))
    => read = kept

\* openflow.h, at OXM_OF_IPV6_ND_TARGET: "OXM_OF_ICMPV6_TYPE must be either 135
\* or 136."  A match whose fields all have the prerequisites openflow.h states
\* before them is not refused for its prerequisites (oxm_prereqs_ok).
DocumentedIsAccepted ==
    (kept # Nothing /\ \A i \in DOMAIN sent :
        Documented(sent[i], {sent[k] : k \in 1..(i - 1)}))
    => kept.err # "BAD_PREREQ"
=============================================================================
