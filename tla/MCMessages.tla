----------------------------- MODULE MCMessages -----------------------------
(***************************************************************************)
(* Messages of every type for module OflMessages: with each kind of action,*)
(* instruction, match and multipart body, in arrays of up to two elements, *)
(* and with the arguments that the library refuses.                        *)
(***************************************************************************)
EXTENDS OflMessages

UpTo2(S) == UNION {[1..k -> S] : k \in 0..2}

Tlv(f, w, v) == [f |-> f, w |-> w, val |-> v, bad |-> FALSE, order |-> "net"]

MatchOf(tlvs) == ofl_structs_oxm_match_unpack([length |-> 4 + oxm_bytes(tlvs), tlvs |-> tlvs]).m

OnDestination == <<Tlv("ETH_TYPE", FALSE, "ip"), Tlv("IPV4_DST", TRUE, 3)>>
OnTcpPort     == <<Tlv("IN_PORT", FALSE, 2), Tlv("ETH_TYPE", FALSE, "ip"),
                   Tlv("IP_PROTO", FALSE, "tcp"), Tlv("TCP_DST", FALSE, 80)>>

SampleMatches ==
    {MatchOf(tlvs) : tlvs \in {<<>>, <<Tlv("IN_PORT", FALSE, 1)>>, OnDestination, OnTcpPort,
                              <<Tlv("ETH_TYPE", FALSE, "ipv6")>>}}

Action(t, d)  == [type |-> t, d |-> d, tlv |-> Tlv("", FALSE, 0)]
SetFieldTo(t) == [type |-> "SET_FIELD", d |-> 0, tlv |-> Stored(t)]
ToPort(p)     == Action("OUTPUT", p)

SomeActions ==
    {ToPort(1), ToPort(OFPP_LOCAL), Action("PUSH_VLAN", 33024), Action("POP_MPLS", 5),
     Action("GROUP", 7), Action("SET_NW_TTL", 3)}
SetFields ==
    {SetFieldTo(Tlv("ETH_DST", FALSE, 4)), SetFieldTo(Tlv("IPV4_DST", FALSE, 5)),
     SetFieldTo(Tlv("VLAN_PCP", FALSE, 1)), SetFieldTo(Tlv("IPV6_SRC", FALSE, 6))}
WrongActions ==
    {ToPort(0), ToPort(101), ToPort(OFPP_ANY), Action("PUSH_VLAN", 5), Action("PUSH_MPLS", 33024),
     Action("GROUP", OFPG_ALL), SetFieldTo(Tlv("IN_PORT", FALSE, 1)), Action("EXPERIMENTER", 0)}

ToEthDst == SetFieldTo(Tlv("ETH_DST", FALSE, 4))

Instruction(t, d, acts) == [type |-> t, d |-> d, actions |-> acts]
GotoNext == Instruction("GOTO_TABLE", 1, <<>>)

ActionLists == {<<>>} \cup {<<a>> : a \in SomeActions \cup SetFields} \cup {<<a, ToPort(2)>> : a \in SetFields}

SomeInstructions ==
    {GotoNext, Instruction("WRITE_METADATA", 2, <<>>), Instruction("METER", 3, <<>>),
     Instruction("CLEAR_ACTIONS", 0, <<>>)}
    \cup {Instruction(t, 0, acts) : t \in {"WRITE_ACTIONS", "APPLY_ACTIONS"}, acts \in ActionLists}
WrongInstructions ==
    {Instruction("GOTO_TABLE", PIPELINE_TABLES, <<>>), Instruction("EXPERIMENTER", 0, <<>>)}
    \cup {Instruction("APPLY_ACTIONS", 0, <<ToPort(2), a>>) : a \in WrongActions}

-----------------------------------------------------------------------------
Msg(t, b) == [type |-> t, body |-> b]

FlowModMsg(t, m, is) ==
    Msg("FLOW_MOD", [table_id |-> t, command |-> "ADD", d |-> 7, match |-> m, instructions |-> is])

WeightedBucket(w, acts) == [weight |-> w, d |-> 5, actions |-> acts]
Bucket1 == WeightedBucket(0, <<ToPort(1)>>)
Bucket2 == WeightedBucket(0, <<ToEthDst, ToPort(2)>>)
Bucket0 == WeightedBucket(0, <<>>)
Weighted == <<WeightedBucket(1, <<ToPort(1)>>), WeightedBucket(2, <<>>)>>

GroupModMsg(c, t, g, bs) ==
    Msg("GROUP_MOD", [command |-> c, type |-> t, group_id |-> g, buckets |-> bs])

MeterBand(t) == [type |-> t, rate |-> 5, d |-> 2]

MeterModMsg(c, f, id, bs) ==
    Msg("METER_MOD", [command |-> c, flags |-> f, meter_id |-> id, bands |-> bs])

PacketOutMsg(b, acts, n) ==
    Msg("PACKET_OUT", [buffer_id |-> b, in_port |-> 3, actions |-> acts, data |-> n])

PortDesc(n) == [port_no |-> n, d |-> 5]

Property(t, ids) ==
    [type |-> t, length |-> ofl_structs_table_features_properties_ofp_len(t, Len(ids)), ids |-> ids]
FeaturesOf(id, ps) == [table_id |-> id, d |-> 4, properties |-> ps]
FeatureLists ==
    {<<>>, <<FeaturesOf(0, <<>>)>>, <<FeaturesOf(2, <<Property("INSTRUCTIONS", <<1>>)>>)>>,
     <<FeaturesOf(0, <<Property("NEXT_TABLES", <<1, 2, 3>>), Property("APPLY_ACTIONS", <<0, 5>>)>>),
       FeaturesOf(1, <<Property("MATCH", <<7>>), Property("NEXT_TABLES", <<>>)>>)>>}

QueueOf(id, ps) == [queue_id |-> id, properties |-> ps]
Rate(t, r) == [type |-> t, rate |-> r]
Queues == {QueueOf(1, <<>>), QueueOf(9, <<Rate("MIN_RATE", 4)>>),
           QueueOf(2, <<Rate("MIN_RATE", 4), Rate("MAX_RATE", 5)>>)}

Experimenter(vendor, subtype, qs) ==
    Msg("EXPERIMENTER", [vendor |-> vendor, subtype |-> subtype, d |-> 4, queues |-> qs])

Request(mp, x) == Msg("MULTIPART_REQUEST", [mp |-> mp, flags |-> 0, x |-> x])
Reply(mp, x)   == Msg("MULTIPART_REPLY", [mp |-> mp, flags |-> 1, x |-> x])

FlowStats(t, m, is) == [table_id |-> t, d |-> 3, match |-> m, instructions |-> is]
SetAndGoto == <<Instruction("APPLY_ACTIONS", 0, <<ToEthDst, ToPort(1)>>), GotoNext>>

-----------------------------------------------------------------------------
(* The messages that openflow.h allows. *)

Modifications ==
    {FlowModMsg(t, m, is) : t \in {0, 63, OFPTT_ALL}, m \in SampleMatches,
                            is \in {<<>>} \cup {<<i>> : i \in SomeInstructions}
                                          \cup {<<i, GotoNext>> : i \in SomeInstructions}}
    \cup {GroupModMsg(c, "ALL", 4, bs) : c \in {"ADD", "MODIFY"}, bs \in UpTo2({Bucket0, Bucket1, Bucket2})}
    \cup {GroupModMsg("ADD", "SELECT", 4, Weighted), GroupModMsg("ADD", "INDIRECT", 5, <<Bucket0>>),
          GroupModMsg("DELETE", "ALL", OFPG_ALL, <<>>)}
    \cup {MeterModMsg("ADD", 1, 4, bs) : bs \in UpTo2({MeterBand("DROP"), MeterBand("DSCP_REMARK")})}
    \cup {MeterModMsg("DELETE", 0, OFPM_ALL, <<>>), Msg("TABLE_MOD", [table_id |-> 63, d |-> 5])}

PacketMessages ==
    {PacketOutMsg(OFP_NO_BUFFER, acts, n) : acts \in UpTo2(SomeActions), n \in {0, 60}}
    \cup {PacketOutMsg(9, <<ToPort(1)>>, 0), PacketOutMsg(9, <<ToEthDst>>, 0)}
    \cup {Msg("PACKET_IN", [table_id |-> 0, d |-> 5, match |-> m, data |-> n]) :
             m \in SampleMatches, n \in {0, 61}}
    \cup {Msg("FLOW_REMOVED", [table_id |-> 1, d |-> 5, hard_timeout |-> h, match |-> m]) :
             m \in SampleMatches, h \in {0, 10}}
    \cup {Msg("PORT_STATUS", [reason |-> 1, desc |-> PortDesc(n)]) : n \in {1, OFPP_MAX, OFPP_LOCAL}}

Others ==
    {Msg(t, <<>>) : t \in EmptyTypes} \cup {Msg("ERROR", [d |-> 3, data |-> n]) : n \in {0, 8}}
    \cup {Msg(t, [data |-> n]) : t \in {"ECHO_REQUEST", "ECHO_REPLY"}, n \in {0, 5}}
    \cup {Msg(t, [role |-> 1, generation_id |-> 5]) : t \in {"ROLE_REQUEST", "ROLE_REPLY"}}
    \cup {Msg(t, [d |-> 5]) : t \in {"FEATURES_REPLY", "GET_CONFIG_REPLY", "SET_CONFIG", "SET_ASYNC",
                                     "GET_ASYNC_REPLY", "PORT_MOD"}}
    \cup {Msg("QUEUE_GET_CONFIG_REQUEST", [port |-> p]) : p \in {1, OFPP_ANY}}
    \cup {Msg("QUEUE_GET_CONFIG_REPLY", [port |-> 2, queues |-> qs]) : qs \in UpTo2(Queues)}
    \cup {Experimenter("NX", "ROLE_REQUEST", <<>>), Experimenter("OPENFLOW", "SET_DESC", <<>>),
          Experimenter("OPENFLOW", "QUEUE_MODIFY", <<QueueOf(3, <<Rate("MIN_RATE", 4)>>)>>)}

Requests ==
    {Request(mp, <<>>) : mp \in EmptyRequests}
    \cup {Request(mp, [table_id |-> t, d |-> 5, match |-> m]) :
             mp \in {"FLOW", "AGGREGATE"}, t \in {0, OFPTT_ALL}, m \in SampleMatches}
    \cup {Request(mp, [port_no |-> p, d |-> 4]) :
             mp \in {"PORT_STATS", "QUEUE"}, p \in {1, OFPP_MAX, OFPP_ANY}}
    \cup {Request(mp, [d |-> 4]) : mp \in {"GROUP", "METER", "METER_CONFIG"}}
    \cup {Request("TABLE_FEATURES", x) : x \in FeatureLists}

Replies ==
    {Reply("TABLE_FEATURES", x) : x \in FeatureLists}
    \cup {Reply(mp, [d |-> 5]) : mp \in {"DESC", "AGGREGATE", "GROUP_FEATURES", "METER_FEATURES"}}
    \cup {Reply("FLOW", x) :
             x \in UpTo2({FlowStats(0, m, is) : m \in SampleMatches, is \in {<<>>, SetAndGoto}})}
    \cup {Reply("TABLE", x) : x \in UpTo2([table_id : {1, 2}, d : {5}])}
    \cup {Reply(mp, x) : mp \in {"PORT_STATS", "QUEUE", "PORT_DESC"},
                         x \in UpTo2({PortDesc(1), PortDesc(OFPP_MAX)})}
    \cup {Reply("GROUP", x) : x \in UpTo2([group_id : {5}, d : {5}, counters : {<<>>, <<3, 4>>}])}
    \cup {Reply("GROUP_DESC", x) :
             x \in UpTo2({[group_id |-> 5, type |-> "ALL", buckets |-> <<>>],
                          [group_id |-> 5, type |-> "SELECT", buckets |-> Weighted]})}
    \cup {Reply("METER", x) : x \in UpTo2([meter_id : {5}, d : {5}, bands : {<<>>, <<3, 4>>}])}
    \cup {Reply("METER_CONFIG", x) :
             x \in UpTo2([meter_id : {5}, d : {5}, bands : {<<>>, <<MeterBand("DROP")>>}])}

MCGoodMessages == Modifications \cup PacketMessages \cup Others \cup Requests \cup Replies

-----------------------------------------------------------------------------
(* Messages with an argument that it does not allow. *)

MCBadMessages ==
    {FlowModMsg(0, m, <<i>>) : m \in SampleMatches, i \in WrongInstructions}
    \cup {FlowModMsg(64, m, <<>>) : m \in SampleMatches}
    \cup {GroupModMsg("FOO", "ALL", 4, <<>>), GroupModMsg("ADD", "ALL", OFPG_ALL, <<>>),
          GroupModMsg("DELETE", "ALL", 4, <<Bucket0>>), GroupModMsg("ADD", "INDIRECT", 4, <<>>),
          GroupModMsg("ADD", "SELECT", 4, <<Bucket0>>),
          GroupModMsg("ADD", "ALL", 4, <<WeightedBucket(1, <<>>)>>)}
    \cup {GroupModMsg("ADD", "ALL", 4, <<WeightedBucket(0, <<a>>)>>) : a \in WrongActions}
    \cup {MeterModMsg("FOO", 0, 1, <<>>), MeterModMsg("ADD", 16, 1, <<>>),
          MeterModMsg("ADD", 0, OFPM_ALL, <<>>)}
    \cup {PacketOutMsg(9, <<>>, 60), Msg("TABLE_MOD", [table_id |-> 64, d |-> 5]),
          Msg("QUEUE_GET_CONFIG_REQUEST", [port |-> 0])}
    \cup {Msg("FLOW_REMOVED", [table_id |-> 64, d |-> 5, hard_timeout |-> 0, match |-> m]) :
             m \in SampleMatches}
    \cup {Msg("PORT_STATUS", [reason |-> 1, desc |-> PortDesc(n)]) : n \in {0, OFPP_MAX + 1, OFPP_ANY}}
    \cup {Request(mp, [port_no |-> p, d |-> 4]) :
             mp \in {"PORT_STATS", "QUEUE"}, p \in {0, OFPP_MAX + 1, OFPP_LOCAL}}
    \cup {Request(mp, [table_id |-> 64, d |-> 5, match |-> MatchOf(<<>>)]) : mp \in {"FLOW", "AGGREGATE"}}
=============================================================================
