---------------------------- MODULE OflMessages ----------------------------
(***************************************************************************)
(* OpenFlow messages in oflib: ofl-messages-pack.c, ofl-messages-unpack.c  *)
(* and the experimenter messages of oflib-exp.  A message in memory is     *)
(* [type, body]; its image is [hdr, buf_len, w]: the header, the bytes     *)
(* that were allocated, and the blocks, the first of which holds the       *)
(* header's bytes.                                                         *)
(*                                                                         *)
(* Sender and receiver use the same library: the switch, dpctl and secchan *)
(* do, and so does a controller built on it.                               *)
(***************************************************************************)
EXTENDS OflStructs

OFP_WIRE_VERSION == 4

\* uint16_t length.
MaxLength == 65536

Image(buf_len, w) == [buf_len |-> buf_len, w |-> w]

Data(n) == IF n = 0 THEN <<>> ELSE Block("data", n, 0, n)

\* n bytes copied from where w begins.
Copied(w, n) ==
    IF n = 0 THEN 0
    ELSE IF w # <<>> /\ w[1].is = "data" /\ w[1].n = n THEN n ELSE Junk

\* Messages that are one struct.
OneStruct(is, size, body) == Image(size, Block(is, size, 0, body))

AnyBody(b) == TRUE

ReadStruct(w, len, size, Ok(_), error) ==
    IF len < size THEN Bad("BAD_LEN")
    ELSE IF ~Ok(w[1].v) THEN Bad(error)
    ELSE Got(w[1].v, len - size)

-----------------------------------------------------------------------------
(* Symmetric and configuration messages. *)

ofl_msg_pack_empty == Image(sizeof_switch.header, Block("header", sizeof_switch.header, 0, <<>>))

ofl_msg_unpack_empty(w, len) == Got(<<>>, len - sizeof_switch.header)

\* [d, data]: type and code, and the bytes of the message at fault.
ofl_msg_pack_error(m) ==
    Image(sizeof_error_msg + m.data,
          Block("error", sizeof_error_msg, 0, m.d) \o Data(m.data))

ofl_msg_unpack_error(w, len) ==
    IF len < sizeof_error_msg THEN Bad("OFL_ERROR")
    ELSE Got([d |-> w[1].v,
              data |-> Copied(Skip(w, sizeof_error_msg), len - sizeof_error_msg)], 0)

ofl_msg_pack_echo(m) ==
    Image(sizeof_switch.header + m.data,
          Block("header", sizeof_switch.header, 0, <<>>) \o Data(m.data))

ofl_msg_unpack_echo(w, len) ==
    Got([data |-> Copied(Skip(w, sizeof_switch.header), len - sizeof_switch.header)], 0)

ofl_msg_pack_role_request(m) == OneStruct("role", sizeof_role.role_request, m)

ofl_msg_unpack_role_request(w, len) ==
    ReadStruct(w, len, sizeof_role.role_request, AnyBody, "")

ofl_msg_pack_features_reply(m) == OneStruct("features", sizeof_port.switch_features, m)

\* A short one is only logged.
ofl_msg_unpack_features_reply(w, len) == Got(w[1].v, len - sizeof_port.switch_features)

ofl_msg_pack_get_config_reply(m) == OneStruct("config", sizeof_switch.switch_config, m)

ofl_msg_unpack_get_config_reply(w, len) ==
    ReadStruct(w, len, sizeof_switch.switch_config, AnyBody, "")

ofl_msg_pack_set_config(m) == OneStruct("config", sizeof_switch.switch_config, m)

ofl_msg_unpack_set_config(w, len) ==
    ReadStruct(w, len, sizeof_switch.switch_config, AnyBody, "")

ofl_msg_pack_async_config(m) == OneStruct("async", sizeof_role.async_config, m)

ofl_msg_unpack_async_config(w, len) ==
    ReadStruct(w, len, sizeof_role.async_config, AnyBody, "")

ofl_msg_pack_port_mod(m) == OneStruct("port_mod", sizeof_port.port_mod, m)

ofl_msg_unpack_port_mod(w, len) == ReadStruct(w, len, sizeof_port.port_mod, AnyBody, "")

ofl_msg_pack_table_mod(m) == OneStruct("table_mod", sizeof_switch.table_mod, m)

ofl_msg_unpack_table_mod(w, len) ==
    ReadStruct(w, len, sizeof_switch.table_mod,
               LAMBDA v : v.table_id < PIPELINE_TABLES, "BAD_TABLE_ID")

ofl_msg_pack_queue_get_config_request(m) == OneStruct("queues", sizeof_queue.get_config, m)

\* The length is compared with the size of another struct.
ofl_msg_unpack_queue_get_config_request(w, len) ==
    IF len < sizeof_stats.group_desc THEN Bad("BAD_LEN")
    ELSE IF w[1].v.port = 0 \/ w[1].v.port > OFPP_ANY THEN Bad("BAD_PORT")
    ELSE Got(w[1].v, len - sizeof_queue.get_config)

-----------------------------------------------------------------------------
(* Messages of the switch. *)

\* [table_id, d, match, data].
ofl_msg_pack_packet_in(m) ==
    LET before == BeforeMatch(sizeof_packet.packet_in)
    IN  Image(sizeof_packet.packet_in + ROUND_UP(m.match.length - 4, 8) + m.data + 2,
              Block("packet_in", before, 0, [table_id |-> m.table_id, d |-> m.d])
              \o MatchAt(m.match, before) \o Pad(2) \o Data(m.data))

\* The error of the match is not looked at.
ofl_msg_unpack_packet_in(w, len) ==
    LET before == BeforeMatch(sizeof_packet.packet_in)
        atMatch == Skip(w, before)
        m == ofl_structs_oxm_match_unpack([length |-> atMatch[1].len, tlvs |-> atMatch[1].v]).m
        left == len - before - ROUND_UP(atMatch[1].len, 8) - 2
    IN  IF len < sizeof_packet.packet_in THEN Bad("BAD_LEN")
        ELSE IF w[1].v.table_id = PIPELINE_TABLES THEN Bad("BAD_TABLE_ID")
        ELSE Got([table_id |-> w[1].v.table_id, d |-> w[1].v.d, match |-> m,
                  data |-> Copied(Skip(AfterMatch(atMatch, m, before), 2), left)], 0)

\* [table_id, d, hard_timeout, match]: hard_timeout is not packed.
ofl_msg_pack_flow_removed(m) ==
    LET before == BeforeMatch(sizeof_packet.flow_removed)
    IN  Image(ROUND_UP(sizeof_packet.flow_removed - 4 + m.match.length, 8),
              Block("flow_removed", before, 0, [table_id |-> m.table_id, d |-> m.d])
              \o MatchAt(m.match, before))

ofl_msg_unpack_flow_removed(w, len) ==
    LET before == BeforeMatch(sizeof_packet.flow_removed)
    IN  IF len < before THEN Bad("OFL_ERROR")
        ELSE IF w[1].v.table_id >= PIPELINE_TABLES THEN Bad("BAD_TABLE_ID")
        ELSE Then(ofl_structs_match_unpack(Skip(w, before), len - before),
                  LAMBDA m : Got([table_id |-> w[1].v.table_id, d |-> w[1].v.d,
                                  hard_timeout |-> 0, match |-> m.val], m.len))

\* [reason, desc].
ofl_msg_pack_port_status(m) ==
    Image(sizeof_port.port_status,
          Block("port_status", sizeof_port.port_status - sizeof_port.port, 0, m.reason)
          \o ofl_structs_port_pack(m.desc))

ofl_msg_unpack_port_status(w, len) ==
    LET before == sizeof_port.port_status - sizeof_port.port
        p == ofl_structs_port_unpack(Skip(w, before), len - before)
    IN  IF len < sizeof_port.port_status THEN Bad("BAD_LEN")
        ELSE IF p.err # "" THEN p
        ELSE Got([reason |-> w[1].v, desc |-> p.val], p.len)

-----------------------------------------------------------------------------
(* Commands of the controller. *)

\* [buffer_id, in_port, actions, data].  The actions are packed with the message
\* as their `data': a SET_FIELD's value goes to the eight bytes after the
\* header, where buffer_id and in_port are.
Overwritten == -2

ofl_msg_pack_packet_out(m) ==
    LET act_len == ofl_actions_ofp_total_len(m.actions)
        hit == \E i \in DOMAIN m.actions : m.actions[i].type = "SET_FIELD"
    IN  Image(sizeof_packet.packet_out + act_len + m.data,
              Block("packet_out", sizeof_packet.packet_out, act_len,
                    [buffer_id |-> IF hit THEN Overwritten ELSE m.buffer_id,
                     in_port |-> IF hit THEN Overwritten ELSE m.in_port])
              \o Packed(m.actions, LAMBDA a : ofl_actions_pack(a, FALSE)) \o Data(m.data))

\* When an action is refused the message is freed, and used on.
ofl_msg_unpack_packet_out(w, len) ==
    LET b == w[1]
        left == len - sizeof_packet.packet_out
        acts == Skip(w, sizeof_packet.packet_out)
        n == ofl_utils_count_ofp_actions(acts, b.len)
        r == UnpackItems(acts, left, n.val, ByLength, ofl_actions_unpack)
    IN  IF len < sizeof_packet.packet_out THEN Bad("BAD_LEN")
        ELSE IF b.v.buffer_id # OFP_NO_BUFFER /\ left # b.len THEN Bad("BAD_LEN")
        ELSE IF left < b.len THEN Bad("BAD_LEN")
        ELSE IF n.err # "" THEN n
        ELSE IF r.err # "" THEN Bad("FREED")
        ELSE Got([buffer_id |-> b.v.buffer_id, in_port |-> b.v.in_port, actions |-> r.val,
                  data |-> Copied(Skip(acts, b.len), r.len)], 0)

\* [table_id, command, d, match, instructions].
ofl_msg_pack_flow_mod(m) ==
    LET before == BeforeMatch(sizeof_mod.flow_mod)
    IN  Image(ROUND_UP(sizeof_mod.flow_mod - 4 + m.match.length, 8)
              + ofl_structs_instructions_ofp_total_len(m.instructions),
              Block("flow_mod", before, 0,
                    [table_id |-> m.table_id, command |-> m.command, d |-> m.d])
              \o MatchAt(m.match, before)
              \o Packed(m.instructions, ofl_structs_instructions_pack))

ofl_msg_unpack_flow_mod(w, len) ==
    LET before == BeforeMatch(sizeof_mod.flow_mod)
        v == w[1].v
    IN  IF len < before THEN Bad("BAD_LEN")
        ELSE IF v.table_id >= PIPELINE_TABLES /\ v.table_id # OFPTT_ALL THEN Bad("BAD_TABLE_ID")
        ELSE Then(ofl_structs_match_unpack(Skip(w, before), len - before), LAMBDA m :
             Then(Instructions(AfterMatch(Skip(w, before), m.val, before), m.len), LAMBDA is :
                  Got([table_id |-> v.table_id, command |-> v.command, d |-> v.d,
                       match |-> m.val, instructions |-> is.val], is.len)))

\* [command, type, group_id, buckets].
ofl_msg_pack_group_mod(m) ==
    Image(sizeof_mod.group_mod + ofl_structs_buckets_ofp_total_len(m.buckets),
          Block("group_mod", sizeof_mod.group_mod, 0,
                [command |-> m.command, type |-> m.type, group_id |-> m.group_id])
          \o Packed(m.buckets, ofl_structs_bucket_pack))

\* The type is one byte, and ntohs of it is never between 4 and 127.
ofl_msg_unpack_group_mod(w, len) ==
    LET v == w[1].v
        body == Skip(w, sizeof_mod.group_mod)
        left == len - sizeof_mod.group_mod
        n == ofl_utils_count_ofp_buckets(body, left)
        bs == Buckets(body, left, v.type)
    IN  IF len < sizeof_mod.group_mod THEN Bad("BAD_LEN")
        ELSE IF v.command \notin {"ADD", "MODIFY", "DELETE"} THEN Bad("BAD_COMMAND")
        ELSE IF v.group_id > OFPG_MAX /\ ~(v.command = "DELETE" /\ v.group_id = OFPG_ALL)
             THEN Bad("INVALID_GROUP")
        ELSE IF n.err # "" THEN n
        ELSE IF v.command = "DELETE" /\ n.val > 0 THEN Bad("INVALID_GROUP")
        ELSE IF v.type = "INDIRECT" /\ n.val # 1 THEN Bad("INVALID_GROUP")
        ELSE IF bs.err # "" THEN bs
        ELSE Got([command |-> v.command, type |-> v.type, group_id |-> v.group_id,
                  buckets |-> bs.val], bs.len)

\* [command, flags, meter_id, bands].
ofl_msg_pack_meter_mod(m) ==
    Image(sizeof_meter.meter_mod + ofl_structs_meter_bands_ofp_total_len(m.bands),
          Block("meter_mod", sizeof_meter.meter_mod, 0,
                [command |-> m.command, flags |-> m.flags, meter_id |-> m.meter_id])
          \o Packed(m.bands, ofl_structs_meter_band_pack))

ofl_msg_unpack_meter_mod(w, len) ==
    LET v == w[1].v
        bs == Bands(Skip(w, sizeof_meter.meter_mod), len - sizeof_meter.meter_mod)
    IN  IF len < sizeof_meter.meter_mod THEN Bad("BAD_LEN")
        ELSE IF v.command \notin {"ADD", "MODIFY", "DELETE"} THEN Bad("BAD_COMMAND")
        ELSE IF v.flags \div 8 > 1 THEN Bad("BAD_FLAGS")
        ELSE IF v.meter_id > OFPM_MAX /\ ~(v.command = "DELETE" /\ v.meter_id = OFPM_ALL)
             THEN Bad("INVALID_METER")
        ELSE IF bs.err # "" THEN bs
        ELSE Got([command |-> v.command, flags |-> v.flags, meter_id |-> v.meter_id,
                  bands |-> bs.val], bs.len)

\* [port, queues].
ofl_msg_pack_queue_get_config_reply(m) ==
    Image(sizeof_queue.get_config + ofl_structs_packet_queue_ofp_total_len(m.queues),
          Block("queues", sizeof_queue.get_config, 0, m.port)
          \o Packed(m.queues, ofl_structs_packet_queue_pack))

ofl_msg_unpack_queue_get_config_reply(w, len) ==
    LET body == Skip(w, sizeof_queue.get_config)
        left == len - sizeof_queue.get_config
        qs == Items(body, left, ofl_utils_count_ofp_packet_queues(body, left), ByLength,
                    ofl_structs_packet_queue_unpack)
    IN  IF len < sizeof_queue.get_config THEN Bad("BAD_LEN")
        ELSE IF qs.err # "" THEN qs
        ELSE Got([port |-> w[1].v, queues |-> qs.val], qs.len)

-----------------------------------------------------------------------------
(* Experimenter messages [vendor, subtype, d, queues]: queues holds the one *)
(* queue of a queue command.                                                *)

sizeof_extension == [header |-> 16, queue_command |-> 24, set_dp_desc |-> 272, nx_role |-> 20]

QueueCommands == {"QUEUE_MODIFY", "QUEUE_DELETE"}

ExtHead(m) == [vendor |-> m.vendor, subtype |-> m.subtype, d |-> m.d]

ofl_exp_openflow_msg_pack(m) ==
    IF m.subtype \in QueueCommands
    THEN Image(sizeof_extension.queue_command + ofl_structs_packet_queue_ofp_len(m.queues[1]),
               Block("ext", sizeof_extension.queue_command, 0, ExtHead(m))
               \o ofl_structs_packet_queue_pack(m.queues[1]))
    ELSE OneStruct("ext", sizeof_extension.set_dp_desc, ExtHead(m))

ofl_exp_openflow_msg_unpack(w, len) ==
    LET v == w[1].v
        size == IF v.subtype \in QueueCommands THEN sizeof_extension.queue_command
                ELSE sizeof_extension.set_dp_desc
        q == ofl_structs_packet_queue_unpack(Skip(w, size), len - size)
        msg(queues) == [vendor |-> v.vendor, subtype |-> v.subtype, d |-> v.d, queues |-> queues]
    IN  IF len < sizeof_extension.header THEN Bad("BAD_LEN")
        ELSE IF v.subtype \notin QueueCommands \cup {"SET_DESC"} THEN Bad("BAD_EXPERIMENTER")
        ELSE IF len < size THEN Bad("BAD_LEN")
        ELSE IF v.subtype = "SET_DESC" THEN Got(msg(<<>>), len - size)
        ELSE IF q.err # "" THEN q
        ELSE Got(msg(<<q.val>>), q.len)

ofl_exp_nicira_msg_pack(m) == OneStruct("ext", sizeof_extension.nx_role, ExtHead(m))

ofl_exp_nicira_msg_unpack(w, len) ==
    LET v == w[1].v
    IN  IF len < sizeof_extension.header THEN Bad("BAD_LEN")
        ELSE IF v.subtype \notin {"ROLE_REQUEST", "ROLE_REPLY"} THEN Bad("BAD_EXPERIMENTER")
        ELSE IF len < sizeof_extension.nx_role THEN Bad("BAD_LEN")
        ELSE Got([vendor |-> v.vendor, subtype |-> v.subtype, d |-> v.d, queues |-> <<>>],
                 len - sizeof_extension.nx_role)

ofl_exp_msg_pack(m) ==
    IF m.vendor = "OPENFLOW" THEN ofl_exp_openflow_msg_pack(m) ELSE ofl_exp_nicira_msg_pack(m)

ofl_exp_msg_unpack(w, len) ==
    IF len < sizeof_extension.header THEN Bad("BAD_LEN")
    ELSE IF w[1].v.vendor = "OPENFLOW" THEN ofl_exp_openflow_msg_unpack(w, len)
    ELSE IF w[1].v.vendor = "NX" THEN ofl_exp_nicira_msg_unpack(w, len)
    ELSE Bad("BAD_EXPERIMENTER")

-----------------------------------------------------------------------------
(* Multipart requests [mp, flags, x]: mp the kind, x its own fields.  The   *)
(* functions for a kind see what is behind the multipart header.            *)

\* [table_id, d, match].  The match is not padded: its padding is the last four
\* bytes of the struct, wherever the match ends.
ofl_msg_pack_multipart_request_flow(x) ==
    LET before == BeforeMatch(sizeof_multipart.flow_stats_request)
        src == ofl_structs_match_pack(x.match, CHOOSE s \in oxm_put_match(x.match) : TRUE)
    IN  Image(sizeof_multipart.header + sizeof_multipart.flow_stats_request + x.match.length,
              Block("flow_request", before, 0, [table_id |-> x.table_id, d |-> x.d])
              \o Block("match", src.length, src.length, src.tlvs) \o Pad(4))

ofl_msg_unpack_multipart_request_flow(w, len) ==
    LET before == BeforeMatch(sizeof_multipart.flow_stats_request)
        v == w[1].v
    IN  IF len < before THEN Bad("BAD_LEN")
        ELSE IF v.table_id # OFPTT_ALL /\ v.table_id >= PIPELINE_TABLES THEN Bad("BAD_TABLE_ID")
        ELSE Then(ofl_structs_match_unpack(Skip(w, before), len - before),
                  LAMBDA m : Got([table_id |-> v.table_id, d |-> v.d, match |-> m.val], m.len))

OneRequest(is, size, x) == Image(sizeof_multipart.header + size, Block(is, size, 0, x))

PortAsked(v) == v.port_no # 0 /\ (v.port_no <= OFPP_MAX \/ v.port_no = OFPP_ANY)

ofl_msg_pack_multipart_request_port(x) ==
    OneRequest("port_request", sizeof_stats.port_stats_request, x)

ofl_msg_unpack_multipart_request_port(w, len) ==
    ReadStruct(w, len, sizeof_stats.port_stats_request, PortAsked, "BAD_LEN")

ofl_msg_pack_multipart_request_queue(x) ==
    OneRequest("queue_request", sizeof_queue.stats_request, x)

ofl_msg_unpack_multipart_request_queue(w, len) ==
    ReadStruct(w, len, sizeof_queue.stats_request, PortAsked, "BAD_LEN")

ofl_msg_pack_multipart_request_group(x) ==
    OneRequest("group_request", sizeof_stats.group_stats_request, x)

ofl_msg_unpack_multipart_request_group(w, len) ==
    ReadStruct(w, len, sizeof_stats.group_stats_request, AnyBody, "")

ofl_msg_pack_meter_multipart_request(x) ==
    OneRequest("meter_request", sizeof_meter_stats.request, x)

ofl_msg_unpack_meter_multipart_request(w, len) ==
    ReadStruct(w, len, sizeof_meter_stats.request, AnyBody, "")

ofl_msg_pack_multipart_request_table_features(x) ==
    Image(sizeof_multipart.header + ofl_structs_table_features_ofp_total_len(x),
          Packed(x, ofl_structs_table_features_pack))

Tables(w, len) ==
    Items(w, len, ofl_utils_count_ofp_table_features(w, len), ByLength,
          ofl_structs_table_features_unpack)

ofl_msg_unpack_multipart_request_table_features(w, len) ==
    IF len = 0 THEN Got(<<>>, 0) ELSE Tables(w, len)

ofl_msg_pack_multipart_request_empty == Image(sizeof_multipart.header, <<>>)

\* "len -= ..." moves the pointer, not the length.
ofl_msg_unpack_multipart_request_empty(len) == Got(<<>>, len)

EmptyRequests ==
    {"DESC", "TABLE", "GROUP_DESC", "GROUP_FEATURES", "METER_FEATURES", "PORT_DESC"}

MultipartHead(m, p) ==
    Image(p.buf_len,
          Block("multipart", sizeof_multipart.header, 0, [mp |-> m.mp, flags |-> m.flags]) \o p.w)

ofl_msg_pack_multipart_request(m) ==
    MultipartHead(m,
        CASE m.mp \in EmptyRequests -> ofl_msg_pack_multipart_request_empty
          [] m.mp \in {"FLOW", "AGGREGATE"} -> ofl_msg_pack_multipart_request_flow(m.x)
          [] m.mp = "PORT_STATS" -> ofl_msg_pack_multipart_request_port(m.x)
          [] m.mp = "QUEUE" -> ofl_msg_pack_multipart_request_queue(m.x)
          [] m.mp = "GROUP" -> ofl_msg_pack_multipart_request_group(m.x)
          [] m.mp \in {"METER", "METER_CONFIG"} -> ofl_msg_pack_meter_multipart_request(m.x)
          [] m.mp = "TABLE_FEATURES" -> ofl_msg_pack_multipart_request_table_features(m.x))

\* The kind's result in its multipart message.
MultipartOf(b, r) ==
    IF r.err # "" THEN r
    ELSE Got([mp |-> b.v.mp, flags |-> b.v.flags, x |-> r.val], r.len)

ofl_msg_unpack_multipart_request(w, len) ==
    LET mp == w[1].v.mp
        body == Skip(w, sizeof_multipart.header)
        left == len - sizeof_multipart.header
    IN  IF len < sizeof_multipart.header THEN Bad("BAD_LEN")
        ELSE MultipartOf(w[1],
            CASE mp \in EmptyRequests -> ofl_msg_unpack_multipart_request_empty(left)
              [] mp \in {"FLOW", "AGGREGATE"} ->
                    ofl_msg_unpack_multipart_request_flow(body, left)
              [] mp = "PORT_STATS" -> ofl_msg_unpack_multipart_request_port(body, left)
              [] mp = "QUEUE" -> ofl_msg_unpack_multipart_request_queue(body, left)
              [] mp = "GROUP" -> ofl_msg_unpack_multipart_request_group(body, left)
              [] mp \in {"METER", "METER_CONFIG"} ->
                    ofl_msg_unpack_meter_multipart_request(body, left)
              [] mp = "TABLE_FEATURES" ->
                    ofl_msg_unpack_multipart_request_table_features(body, left)
              [] OTHER -> Bad("BAD_MULTIPART"))

-----------------------------------------------------------------------------
(* Multipart replies: x is one struct, or the sequence of the statistics. *)

OneReply(is, size, x) == Image(sizeof_multipart.header + size, Block(is, size, 0, x))

ListReply(total_len, x, Pack(_)) == Image(sizeof_multipart.header + total_len, Packed(x, Pack))

ofl_msg_pack_multipart_reply_desc(x) == OneReply("desc", sizeof_multipart.desc, x)

ofl_msg_unpack_reply_desc(w, len) ==
    ReadStruct(w, len, sizeof_multipart.desc, AnyBody, "")

ofl_msg_pack_multipart_reply_flow(x) ==
    ListReply(ofl_structs_flow_stats_ofp_total_len(x), x, ofl_structs_flow_stats_pack)

ofl_msg_unpack_multipart_reply_flow(w, len) ==
    Items(w, len, ofl_utils_count_ofp_flow_stats(w, len), ByLength,
          ofl_structs_flow_stats_unpack)

ofl_msg_pack_multipart_reply_aggregate(x) ==
    OneReply("aggregate", sizeof_multipart.aggregate_stats_reply, x)

ofl_msg_unpack_multipart_reply_aggregate(w, len) ==
    ReadStruct(w, len, sizeof_multipart.aggregate_stats_reply, AnyBody, "")

ofl_msg_pack_multipart_reply_table(x) ==
    ListReply(Len(x) * sizeof_table_feature.table_stats, x, ofl_structs_table_stats_pack)

ofl_msg_unpack_multipart_reply_table(w, len) ==
    Items(w, len, ofl_utils_count_ofp_table_stats(len),
          LAMBDA b : sizeof_table_feature.table_stats, ofl_structs_table_stats_unpack)

ofl_msg_pack_multipart_reply_port(x) ==
    ListReply(Len(x) * sizeof_stats.port_stats, x, ofl_structs_port_stats_pack)

ofl_msg_unpack_multipart_reply_port(w, len) ==
    Items(w, len, ofl_utils_count_ofp_port_stats(len),
          LAMBDA b : sizeof_stats.port_stats, ofl_structs_port_stats_unpack)

ofl_msg_pack_multipart_reply_queue(x) ==
    ListReply(Len(x) * sizeof_queue.stats, x, ofl_structs_queue_stats_pack)

ofl_msg_unpack_multipart_reply_queue(w, len) ==
    Items(w, len, ofl_utils_count_ofp_queue_stats(len),
          LAMBDA b : sizeof_queue.stats, ofl_structs_queue_stats_unpack)

ofl_msg_pack_multipart_reply_group(x) ==
    ListReply(ofl_structs_group_stats_ofp_total_len(x), x, ofl_structs_group_stats_pack)

ofl_msg_unpack_multipart_reply_group(w, len) ==
    Items(w, len, ofl_utils_count_ofp_group_stats(w, len), ByLength,
          ofl_structs_group_stats_unpack)

ofl_msg_pack_multipart_reply_group_desc(x) ==
    ListReply(ofl_structs_group_desc_stats_ofp_total_len(x), x,
              ofl_structs_group_desc_stats_pack)

ofl_msg_unpack_multipart_reply_group_desc(w, len) ==
    Items(w, len, ofl_utils_count_ofp_group_desc_stats(w, len), ByLength,
          ofl_structs_group_desc_stats_unpack)

ofl_msg_pack_multipart_reply_group_features(x) ==
    OneReply("group_features", sizeof_stats.group_features, x)

ofl_msg_unpack_multipart_reply_group_features(w, len) ==
    ReadStruct(w, len, sizeof_stats.group_features, AnyBody, "")

ofl_msg_pack_multipart_reply_table_features(x) ==
    ListReply(ofl_structs_table_features_ofp_total_len(x), x, ofl_structs_table_features_pack)

ofl_msg_unpack_multipart_reply_table_features(w, len) == Tables(w, len)

ofl_msg_pack_multipart_reply_meter_stats(x) ==
    ListReply(ofl_structs_meter_stats_ofp_total_len(x), x, ofl_structs_meter_stats_pack)

ofl_msg_unpack_multipart_reply_meter_stats(w, len) ==
    Items(w, len, ofl_utils_count_ofp_meter_stats(w, len), ByLength,
          ofl_structs_meter_stats_unpack)

ofl_msg_pack_multipart_reply_meter_conf(x) ==
    ListReply(ofl_structs_meter_conf_ofp_total_len(x), x, ofl_structs_meter_conf_pack)

ofl_msg_unpack_multipart_reply_meter_config(w, len) ==
    Items(w, len, ofl_utils_count_ofp_meter_config(w, len), ByLength,
          ofl_structs_meter_config_unpack)

ofl_msg_pack_multipart_reply_port_status_desc(x) ==
    ListReply(Len(x) * sizeof_port.port, x, ofl_structs_port_pack)

ofl_msg_unpack_multipart_reply_port_desc(w, len) ==
    Items(w, len, ofl_utils_count_ofp_ports(len), LAMBDA b : sizeof_port.port,
          ofl_structs_port_unpack)

ofl_msg_pack_multipart_reply_meter_features(x) ==
    OneReply("meter_features", sizeof_meter_stats.features, x)

ofl_msg_unpack_multipart_reply_meter_features(w, len) ==
    ReadStruct(w, len, sizeof_meter_stats.features, AnyBody, "")

ofl_msg_pack_multipart_reply(m) ==
    MultipartHead(m,
        CASE m.mp = "DESC" -> ofl_msg_pack_multipart_reply_desc(m.x)
          [] m.mp = "FLOW" -> ofl_msg_pack_multipart_reply_flow(m.x)
          [] m.mp = "AGGREGATE" -> ofl_msg_pack_multipart_reply_aggregate(m.x)
          [] m.mp = "TABLE" -> ofl_msg_pack_multipart_reply_table(m.x)
          [] m.mp = "TABLE_FEATURES" -> ofl_msg_pack_multipart_reply_table_features(m.x)
          [] m.mp = "PORT_STATS" -> ofl_msg_pack_multipart_reply_port(m.x)
          [] m.mp = "QUEUE" -> ofl_msg_pack_multipart_reply_queue(m.x)
          [] m.mp = "GROUP" -> ofl_msg_pack_multipart_reply_group(m.x)
          [] m.mp = "GROUP_DESC" -> ofl_msg_pack_multipart_reply_group_desc(m.x)
          [] m.mp = "GROUP_FEATURES" -> ofl_msg_pack_multipart_reply_group_features(m.x)
          [] m.mp = "METER" -> ofl_msg_pack_multipart_reply_meter_stats(m.x)
          [] m.mp = "METER_CONFIG" -> ofl_msg_pack_multipart_reply_meter_conf(m.x)
          [] m.mp = "METER_FEATURES" -> ofl_msg_pack_multipart_reply_meter_features(m.x)
          [] m.mp = "PORT_DESC" -> ofl_msg_pack_multipart_reply_port_status_desc(m.x))

ofl_msg_unpack_multipart_reply(w, len) ==
    LET mp == w[1].v.mp
        body == Skip(w, sizeof_multipart.header)
        left == len - sizeof_multipart.header
    IN  IF len < sizeof_multipart.header THEN Bad("BAD_LEN")
        ELSE MultipartOf(w[1],
            CASE mp = "DESC" -> ofl_msg_unpack_reply_desc(body, left)
              [] mp = "FLOW" -> ofl_msg_unpack_multipart_reply_flow(body, left)
              [] mp = "AGGREGATE" -> ofl_msg_unpack_multipart_reply_aggregate(body, left)
              [] mp = "TABLE" -> ofl_msg_unpack_multipart_reply_table(body, left)
              [] mp = "TABLE_FEATURES" ->
                    ofl_msg_unpack_multipart_reply_table_features(body, left)
              [] mp = "PORT_STATS" -> ofl_msg_unpack_multipart_reply_port(body, left)
              [] mp = "QUEUE" -> ofl_msg_unpack_multipart_reply_queue(body, left)
              [] mp = "GROUP" -> ofl_msg_unpack_multipart_reply_group(body, left)
              [] mp = "GROUP_DESC" -> ofl_msg_unpack_multipart_reply_group_desc(body, left)
              [] mp = "GROUP_FEATURES" ->
                    ofl_msg_unpack_multipart_reply_group_features(body, left)
              [] mp = "METER" -> ofl_msg_unpack_multipart_reply_meter_stats(body, left)
              [] mp = "METER_CONFIG" -> ofl_msg_unpack_multipart_reply_meter_config(body, left)
              [] mp = "METER_FEATURES" ->
                    ofl_msg_unpack_multipart_reply_meter_features(body, left)
              [] mp = "PORT_DESC" -> ofl_msg_unpack_multipart_reply_port_desc(body, left)
              [] OTHER -> Bad("BAD_MULTIPART"))

-----------------------------------------------------------------------------
(* All messages. *)

EmptyTypes ==
    {"HELLO", "FEATURES_REQUEST", "GET_CONFIG_REQUEST", "GET_ASYNC_REQUEST",
     "BARRIER_REQUEST", "BARRIER_REPLY"}

PackBody(type, m) ==
    CASE type \in EmptyTypes -> ofl_msg_pack_empty
      [] type = "ERROR" -> ofl_msg_pack_error(m)
      [] type \in {"ECHO_REQUEST", "ECHO_REPLY"} -> ofl_msg_pack_echo(m)
      [] type = "EXPERIMENTER" -> ofl_exp_msg_pack(m)
      [] type = "FEATURES_REPLY" -> ofl_msg_pack_features_reply(m)
      [] type = "GET_CONFIG_REPLY" -> ofl_msg_pack_get_config_reply(m)
      [] type = "SET_CONFIG" -> ofl_msg_pack_set_config(m)
      [] type = "PACKET_IN" -> ofl_msg_pack_packet_in(m)
      [] type = "FLOW_REMOVED" -> ofl_msg_pack_flow_removed(m)
      [] type = "PORT_STATUS" -> ofl_msg_pack_port_status(m)
      [] type \in {"GET_ASYNC_REPLY", "SET_ASYNC"} -> ofl_msg_pack_async_config(m)
      [] type = "PACKET_OUT" -> ofl_msg_pack_packet_out(m)
      [] type = "FLOW_MOD" -> ofl_msg_pack_flow_mod(m)
      [] type = "GROUP_MOD" -> ofl_msg_pack_group_mod(m)
      [] type = "PORT_MOD" -> ofl_msg_pack_port_mod(m)
      [] type = "TABLE_MOD" -> ofl_msg_pack_table_mod(m)
      [] type = "METER_MOD" -> ofl_msg_pack_meter_mod(m)
      [] type = "MULTIPART_REQUEST" -> ofl_msg_pack_multipart_request(m)
      [] type = "MULTIPART_REPLY" -> ofl_msg_pack_multipart_reply(m)
      [] type = "QUEUE_GET_CONFIG_REQUEST" -> ofl_msg_pack_queue_get_config_request(m)
      [] type = "QUEUE_GET_CONFIG_REPLY" -> ofl_msg_pack_queue_get_config_reply(m)
      [] type \in {"ROLE_REQUEST", "ROLE_REPLY"} -> ofl_msg_pack_role_request(m)

\* "oh->length = htons(*buf_len)" keeps sixteen bits of the length.
WithHeader(type, p) ==
    [hdr |-> [version |-> OFP_WIRE_VERSION, type |-> type, length |-> p.buf_len % MaxLength],
     buf_len |-> p.buf_len, w |-> p.w]

ofl_msg_pack(msg) == WithHeader(msg.type, PackBody(msg.type, msg.body))

UnpackBody(type, w, len) ==
    CASE type \in EmptyTypes -> ofl_msg_unpack_empty(w, len)
      [] type = "ERROR" -> ofl_msg_unpack_error(w, len)
      [] type \in {"ECHO_REQUEST", "ECHO_REPLY"} -> ofl_msg_unpack_echo(w, len)
      [] type = "EXPERIMENTER" -> ofl_exp_msg_unpack(w, len)
      [] type = "FEATURES_REPLY" -> ofl_msg_unpack_features_reply(w, len)
      [] type = "GET_CONFIG_REPLY" -> ofl_msg_unpack_get_config_reply(w, len)
      [] type = "SET_CONFIG" -> ofl_msg_unpack_set_config(w, len)
      [] type = "PACKET_IN" -> ofl_msg_unpack_packet_in(w, len)
      [] type = "FLOW_REMOVED" -> ofl_msg_unpack_flow_removed(w, len)
      [] type = "PORT_STATUS" -> ofl_msg_unpack_port_status(w, len)
      [] type \in {"GET_ASYNC_REPLY", "SET_ASYNC"} -> ofl_msg_unpack_async_config(w, len)
      [] type = "PACKET_OUT" -> ofl_msg_unpack_packet_out(w, len)
      [] type = "FLOW_MOD" -> ofl_msg_unpack_flow_mod(w, len)
      [] type = "GROUP_MOD" -> ofl_msg_unpack_group_mod(w, len)
      [] type = "PORT_MOD" -> ofl_msg_unpack_port_mod(w, len)
      [] type = "TABLE_MOD" -> ofl_msg_unpack_table_mod(w, len)
      [] type = "METER_MOD" -> ofl_msg_unpack_meter_mod(w, len)
      [] type = "MULTIPART_REQUEST" -> ofl_msg_unpack_multipart_request(w, len)
      [] type = "MULTIPART_REPLY" -> ofl_msg_unpack_multipart_reply(w, len)
      [] type = "QUEUE_GET_CONFIG_REQUEST" -> ofl_msg_unpack_queue_get_config_request(w, len)
      [] type = "QUEUE_GET_CONFIG_REPLY" -> ofl_msg_unpack_queue_get_config_reply(w, len)
      [] type \in {"ROLE_REQUEST", "ROLE_REPLY"} -> ofl_msg_unpack_role_request(w, len)
      [] OTHER -> Bad("BAD_TYPE")

\* What is left of the length at the end is only logged.
ofl_msg_unpack(i) ==
    IF i.buf_len < sizeof_switch.header THEN Bad("BAD_LEN")
    ELSE IF i.hdr.version # OFP_WIRE_VERSION THEN Bad("HELLO_FAILED")
    ELSE IF i.buf_len # i.hdr.length THEN Bad("BAD_LEN")
    ELSE Then(UnpackBody(i.hdr.type, i.w, i.buf_len),
              LAMBDA r : Got([type |-> i.hdr.type, body |-> r.val], r.len))

-----------------------------------------------------------------------------
(* A message on its way: one end packs it, the other unpacks the image.    *)

CONSTANTS
    Messages,  \* messages that openflow.h allows
    Faulty     \* messages with an argument that it does not allow

VARIABLES
    outgoing,  \* what one end sends
    image,     \* its image, once it is packed
    incoming   \* what the other end makes of it

codecVars == <<outgoing, image, incoming>>

NotYet == [err |-> "none", val |-> 0, len |-> 0]

CodecInit ==
    /\ outgoing \in Messages \cup Faulty
    /\ image = <<>>
    /\ incoming = NotYet

PackMessage ==
    /\ image = <<>>
    /\ image' = <<ofl_msg_pack(outgoing)>>
    /\ UNCHANGED <<outgoing, incoming>>

UnpackMessage ==
    /\ image # <<>>
    /\ incoming.err = "none"
    /\ incoming' = ofl_msg_unpack(image[1])
    /\ UNCHANGED <<outgoing, image>>

CodecNext == PackMessage \/ UnpackMessage

CodecSpec == CodecInit /\ [][CodecNext]_codecVars

-----------------------------------------------------------------------------
(* Properties. *)

MultipartIs(m, type, mp) == m.type = type /\ m.body.mp = mp

\* What the library is known to lose: the hard timeout of a flow removed message,
\* the value of a packet-out's set-field action together with buffer_id and
\* in_port, the identifiers of a table's instructions, the properties of the
\* queues after the first, and an experimenter queue property's data.
Loses(m) ==
    \/ m.type = "FLOW_REMOVED" /\ m.body.hard_timeout # 0
    \/ m.type = "PACKET_OUT" /\ \E i \in DOMAIN m.body.actions :
         m.body.actions[i].type = "SET_FIELD"
    \/ m.type = "QUEUE_GET_CONFIG_REPLY" /\ Len(m.body.queues) > 1
    \/ \E t \in {"MULTIPART_REQUEST", "MULTIPART_REPLY"} :
         /\ MultipartIs(m, t, "TABLE_FEATURES")
         /\ \E i \in DOMAIN m.body.x : \E k \in DOMAIN m.body.x[i].properties :
              /\ m.body.x[i].properties[k].type = "INSTRUCTIONS"
              /\ m.body.x[i].properties[k].ids # <<>>

\* A message that openflow.h allows arrives as it was sent, and one with a port,
\* group, meter, table, command or argument that it does not allow is refused:
\* lengths, padding and the places of the parts are the same in the pack and
\* the unpack function of every message (ofl_msg_pack, ofl_msg_unpack).
ArrivesAsSent ==
    (incoming.err # "none" /\ ~Loses(outgoing)) =>
        IF outgoing \in Messages THEN incoming.err = "" /\ incoming.val = outgoing
        ELSE incoming.err # ""

\* The buffer is as large as what is written to it: the ofp_len functions, which
\* give malloc its size, agree with the pack functions.
BufferIsFilled == image # <<>> => Bytes(image[1].w) = image[1].buf_len

\* ofl_msg_unpack: "At this point the whole message must be consumed, and len
\* should equal to zero."
WholeMessageConsumed == (incoming.err # "none" /\ incoming.err = "") => incoming.len = 0
=============================================================================
