----------------------------- MODULE OflStructs -----------------------------
(***************************************************************************)
(* Actions, instructions, buckets and the other structs of oflib: matches  *)
(* in an image, meter bands, table features, flow, group, meter, port,     *)
(* table and queue statistics, queues and ports (ofl-actions-pack.c,       *)
(* ofl-actions-unpack.c, ofl-structs-pack.c, ofl-structs-unpack.c).  No    *)
(* experimenter extension is registered for actions and instructions.      *)
(*                                                                         *)
(* An action in memory is [type, d, tlv]: d its argument, tlv the field    *)
(* that a SET_FIELD sets.  An instruction is [type, d, actions], a bucket  *)
(* is [weight, d, actions].                                                *)
(***************************************************************************)
EXTENDS OflWire

\* The bytes of memory that nobody wrote.
Junk == -1

-----------------------------------------------------------------------------
(* Actions. *)

\* Mutant: a set-field action without its padding.
SetFieldUnpadded(a) ==
    CASE a.type = "OUTPUT" -> sizeof_action.output
      [] a.type = "SET_FIELD" -> sizeof_action.set_field + OXM_LENGTH(a.tlv)
      [] OTHER -> sizeof_action.header

ofl_actions_ofp_len(a) ==
    CASE a.type = "OUTPUT" -> sizeof_action.output
      [] a.type = "SET_FIELD" -> sizeof_action.set_field + ROUND_UP(OXM_LENGTH(a.tlv), 8)
      [] OTHER -> sizeof_action.header

ofl_actions_ofp_total_len(actions) == Total(actions, ofl_actions_ofp_len)

\* A SET_FIELD's value is written after the header that `data' points to; with
\* another `data' than the action's own the bytes of its value stay as they are.
ofl_actions_pack(a, own) ==
    Block("action", ofl_actions_ofp_len(a), ofl_actions_ofp_len(a),
          IF a.type # "SET_FIELD" THEN a
          ELSE IF own THEN [a EXCEPT !.tlv = oxm_put(a.tlv)]
          ELSE [a EXCEPT !.tlv.val = Junk])

\* A switch case that knows the size of its struct takes that off the length;
\* SET_FIELD takes the action's own length.
unpack_taken(b) ==
    CASE b.v.type = "OUTPUT" -> sizeof_action.output
      [] b.v.type = "SET_FIELD" -> ROUND_UP(b.len, 8)
      [] OTHER -> sizeof_action.header

unpack_output_ok(a) ==
    a.d # 0 /\ ~(a.d > OFPP_MAX /\ a.d < OFPP_IN_PORT) /\ a.d # OFPP_ANY

\* The Ethernet types a push may give: 802.1Q and 802.1ad, MPLS, 802.1ah.
PushTypes == [PUSH_VLAN |-> {33024, 34984}, PUSH_MPLS |-> {34887, 34888}, PUSH_PBB |-> {35047}]

unpack_push_ok(a) == a.type \in DOMAIN PushTypes => a.d \in PushTypes[a.type]

unpack_group_ok(a) == a.type = "GROUP" => a.d <= OFPG_MAX

unpack_set_field(a) == [a EXCEPT !.tlv = Stored(a.tlv)]

unpack_set_field_ok(a) ==
    a.type = "SET_FIELD" =>
        a.tlv.w \/ a.tlv.f \notin {"IN_PORT", "IN_PHY_PORT", "METADATA", "IPV6_EXTHDR"}

ofl_actions_unpack(w, len) ==
    LET b == w[1]
    IN  IF len < sizeof_action.header \/ len < b.len \/ b.len % 8 # 0 THEN Bad("BAD_LEN")
        ELSE IF b.v.type = "OUTPUT" /\ len < sizeof_action.output THEN Bad("BAD_LEN")
        ELSE IF b.v.type = "OUTPUT" /\ ~unpack_output_ok(b.v) THEN Bad("BAD_OUT_PORT")
        ELSE IF ~unpack_push_ok(b.v) THEN Bad("BAD_ARGUMENT")
        ELSE IF ~unpack_group_ok(b.v) THEN Bad("BAD_OUT_GROUP")
        ELSE IF ~unpack_set_field_ok(b.v) THEN Bad("BAD_SET_TYPE")
        ELSE IF b.v.type = "EXPERIMENTER" THEN Bad("BAD_EXPERIMENTER")
        ELSE Got(IF b.v.type = "SET_FIELD" THEN unpack_set_field(b.v) ELSE b.v,
                 len - unpack_taken(b))

\* The actions of an instruction, a bucket or a packet-out.
Actions(w, len) ==
    Items(w, len, ofl_utils_count_ofp_actions(w, len), ByLength, ofl_actions_unpack)

-----------------------------------------------------------------------------
(* Instructions. *)

HasActions(type) == type \in {"WRITE_ACTIONS", "APPLY_ACTIONS"}

InstructionSize(type) ==
    CASE type = "GOTO_TABLE" -> sizeof_instruction.goto_table
      [] type = "WRITE_METADATA" -> sizeof_instruction.write_metadata
      [] type = "METER" -> sizeof_instruction.meter
      [] OTHER -> sizeof_instruction.actions

ofl_structs_instructions_ofp_len(i) ==
    InstructionSize(i.type)
    + IF HasActions(i.type) THEN ofl_actions_ofp_total_len(i.actions) ELSE 0

ofl_structs_instructions_ofp_total_len(is) == Total(is, ofl_structs_instructions_ofp_len)

\* di->len is computed here, too.
pack_inst_actions(i) ==
    Block("inst", sizeof_instruction.actions,
          sizeof_instruction.actions + ofl_actions_ofp_total_len(i.actions),
          [type |-> i.type, d |-> 0])
    \o Packed(i.actions, LAMBDA a : ofl_actions_pack(a, TRUE))

ofl_structs_instructions_pack(i) ==
    IF HasActions(i.type) THEN pack_inst_actions(i)
    ELSE Block("inst", InstructionSize(i.type), InstructionSize(i.type),
               [type |-> i.type, d |-> i.d])

unpack_inst_actions(w, ilen) ==
    Then(Actions(Skip(w, sizeof_instruction.actions), ilen - sizeof_instruction.actions),
         LAMBDA r : Got([type |-> w[1].v.type, d |-> 0, actions |-> r.val], r.len))

\* The instruction and what is left of its own length.
unpack_inst(w, ilen) ==
    LET v == w[1].v
    IN  IF v.type = "EXPERIMENTER" THEN Bad("UNSUP_INST")
        ELSE IF ilen < InstructionSize(v.type) THEN Bad("BAD_LEN")
        ELSE IF v.type = "GOTO_TABLE" /\ v.d >= PIPELINE_TABLES THEN Bad("BAD_TABLE_ID")
        ELSE IF HasActions(v.type) THEN unpack_inst_actions(w, ilen)
        ELSE Got([type |-> v.type, d |-> v.d, actions |-> <<>>],
                 ilen - InstructionSize(v.type))

ofl_structs_instructions_unpack(w, len) ==
    IF len < sizeof_instruction.header \/ len < w[1].len THEN Bad("BAD_LEN")
    ELSE Then(unpack_inst(w, w[1].len),
              LAMBDA r : IF r.len # 0 THEN Bad("BAD_LEN") ELSE Got(r.val, len - w[1].len))

Instructions(w, len) ==
    Items(w, len, ofl_utils_count_ofp_instructions(w, len), ByLength,
          ofl_structs_instructions_unpack)

-----------------------------------------------------------------------------
(* Buckets. *)

ofl_structs_buckets_ofp_len(b) ==
    LET total == sizeof_mod.bucket + ofl_actions_ofp_total_len(b.actions)
        rem == total % 8
    IN  total + (IF rem = 0 THEN 0 ELSE 8 - rem)

ofl_structs_buckets_ofp_total_len(bs) == Total(bs, ofl_structs_buckets_ofp_len)

ofl_structs_bucket_pack(b) ==
    LET actions == Packed(b.actions, LAMBDA a : ofl_actions_pack(a, TRUE))
        total == sizeof_mod.bucket + ofl_actions_ofp_total_len(b.actions)
        align == (8 - (total % 8)) % 8
    IN  Block("bucket", sizeof_mod.bucket, total + align, [weight |-> b.weight, d |-> b.d])
        \o actions \o Pad(align)

ofl_structs_bucket_unpack(w, len, gtype) ==
    LET b == w[1]
    IN  IF len < sizeof_mod.bucket \/ len < b.len THEN Bad("BAD_LEN")
        ELSE IF (gtype = "SELECT") # (b.v.weight > 0) THEN Bad("INVALID_GROUP")
        ELSE Then(Actions(Skip(w, sizeof_mod.bucket), b.len - sizeof_mod.bucket), LAMBDA r :
                  IF r.len >= 8 THEN Bad("BAD_LEN")
                  ELSE Got([weight |-> b.v.weight, d |-> b.v.d, actions |-> r.val], len - b.len))

Buckets(w, len, gtype) ==
    Items(w, len, ofl_utils_count_ofp_buckets(w, len), ByLength,
          LAMBDA x, n : ofl_structs_bucket_unpack(x, n, gtype))

-----------------------------------------------------------------------------
(* A match in an image.  Any order of its fields will do here; OxmMatch     *)
(* goes through them all.                                                   *)

MatchAt(m, before) ==
    LET src == ofl_structs_match_pack(m, CHOOSE s \in oxm_put_match(m) : TRUE)
    IN  Block("match", src.length, src.length, src.tlvs)
        \o Pad(ROUND_UP(before + 4 + m.length, 8) - before - src.length)

MatchRead(r, left) == IF r.err # "" THEN Bad(r.err) ELSE Got(r.m, left)

ofl_structs_match_unpack(w, len) ==
    MatchRead(ofl_structs_oxm_match_unpack([length |-> w[1].len, tlvs |-> w[1].v]),
              len - ROUND_UP(w[1].len, 8))

\* Where the match's owner looks for what comes after it.
AfterMatch(w, m, before) == Skip(w, ROUND_UP(before + 4 + m.length, 8) - before)

-----------------------------------------------------------------------------
(* Meter bands [type, rate, d]: d is the precedence of a DSCP_REMARK and the *)
(* experimenter of an EXPERIMENTER.                                          *)

ofl_structs_meter_band_ofp_len(b) ==
    IF b.type \in {"DROP", "DSCP_REMARK", "EXPERIMENTER"} THEN sizeof_meter.band ELSE 0

ofl_structs_meter_bands_ofp_total_len(bs) == Total(bs, ofl_structs_meter_band_ofp_len)

ofl_structs_meter_band_pack(b) ==
    Block("band", sizeof_meter.band, sizeof_meter.band, b)

ofl_structs_meter_band_unpack(w, len) ==
    IF len < sizeof_meter.band_header THEN Bad("BAD_LEN") ELSE Got(w[1].v, len - w[1].len)

Bands(w, len) ==
    Items(w, len, ofl_utils_count_ofp_meter_bands(w, len), ByLength,
          ofl_structs_meter_band_unpack)

-----------------------------------------------------------------------------
(* Table features [table_id, d, properties]; a property [type, length, ids]  *)
(* keeps the length it had when it was made.                                 *)

IdSize ==
    [INSTRUCTIONS |-> sizeof_instruction.header - 4, NEXT_TABLES |-> 1,
     APPLY_ACTIONS |-> sizeof_action.header - 4, MATCH |-> 4]

ofl_structs_table_features_properties_ofp_len(type, num) ==
    sizeof_table_feature.prop_header + num * IdSize[type]

ofl_structs_table_features_properties_ofp_total_len(ps) ==
    Total(ps, LAMBDA p : ROUND_UP(p.length, 8))

ofl_structs_table_features_ofp_total_len(ts) ==
    Total(ts, LAMBDA t : sizeof_table_feature.table_features
                         + ofl_structs_table_features_properties_ofp_total_len(t.properties))

PropHeader(p) ==
    Block("prop", sizeof_table_feature.prop_header, p.length, p.type)

PropPad(p) == Pad(ROUND_UP(p.length, 8) - p.length)

\* sizeof(struct ofp_instruction) - 4 bytes of an identifier: none.
pack_prop_instructions(p) == PropHeader(p) \o PropPad(p)

pack_prop_actions(p) ==
    PropHeader(p) \o Packed(p.ids, LAMBDA id : Block("id", IdSize.APPLY_ACTIONS, IdSize.APPLY_ACTIONS, id))
    \o PropPad(p)

\* next_tables and oxm.
pack_prop_ids(p) ==
    PropHeader(p) \o Packed(p.ids, LAMBDA id : Block("id", IdSize[p.type], 0, id)) \o PropPad(p)

ofl_structs_table_properties_pack(p) ==
    CASE p.type = "INSTRUCTIONS" -> pack_prop_instructions(p)
      [] p.type = "APPLY_ACTIONS" -> pack_prop_actions(p)
      [] OTHER -> pack_prop_ids(p)

ofl_structs_table_features_pack(t) ==
    Block("table_features", sizeof_table_feature.table_features,
          sizeof_table_feature.table_features
          + ofl_structs_table_features_properties_ofp_total_len(t.properties),
          [table_id |-> t.table_id, d |-> t.d])
    \o Packed(t.properties, ofl_structs_table_properties_pack)

\* The identifiers of a property's items, of which num begin at w.
Ids(w, num, Step(_)) == UnpackItems(w, 0, num, Step, LAMBDA x, n : Got(x[1].v, 0)).val

unpack_prop_instructions(w, ilen) ==
    LET r == ofl_utils_count_ofp_instructions(w, ilen)
    IN  IF r.err # "" THEN r ELSE Got(Ids(w, r.val, ByLength), 0)

unpack_prop_actions(w, alen) ==
    LET r == ofl_utils_count_ofp_actions(w, alen)
    IN  IF r.err # "" THEN r ELSE Got(Ids(w, r.val, ByLength), 0)

unpack_prop_next_tables(w, length) == Got(Ids(w, length, LAMBDA b : 1), 0)

unpack_prop_oxm(w, length) == Got(Ids(w, length \div 4, LAMBDA b : 4), 0)

ofl_structs_table_properties_unpack(w, len) ==
    LET b == w[1]
        body == Skip(w, sizeof_table_feature.prop_header)
        left == b.len - sizeof_table_feature.prop_header
    IN  IF len < sizeof_table_feature.prop_header \/ len < b.len THEN Bad("BAD_LEN")
        ELSE Then(CASE b.v = "INSTRUCTIONS" -> unpack_prop_instructions(body, left)
                    [] b.v = "NEXT_TABLES" -> unpack_prop_next_tables(body, left)
                    [] b.v = "APPLY_ACTIONS" -> unpack_prop_actions(body, left)
                    [] b.v = "MATCH" -> unpack_prop_oxm(body, left)
                    [] OTHER -> Bad("BAD_TYPE"),
                  LAMBDA r : Got([type |-> b.v, length |-> b.len, ids |-> r.val], len - b.len))

ofl_structs_table_features_unpack(w, len) ==
    LET b == w[1]
        body == Skip(w, sizeof_table_feature.table_features)
        plen == b.len - sizeof_table_feature.table_features
    IN  IF len < sizeof_table_feature.table_features \/ len < b.len THEN Bad("BAD_LEN")
        ELSE Then(Items(body, plen, ofl_utils_count_ofp_table_features_properties(body, plen),
                        LAMBDA p : ROUND_UP(p.len, 8), ofl_structs_table_properties_unpack),
                  LAMBDA r : Got([table_id |-> b.v.table_id, d |-> b.v.d, properties |-> r.val],
                                 len - b.len))

-----------------------------------------------------------------------------
(* Flow statistics [table_id, d, match, instructions]. *)

BeforeMatch(size) == size - sizeof_match

ofl_structs_flow_stats_ofp_len(s) ==
    ROUND_UP(sizeof_multipart.flow_stats - 4 + s.match.length, 8)
    + ofl_structs_instructions_ofp_total_len(s.instructions)

ofl_structs_flow_stats_ofp_total_len(ss) == Total(ss, ofl_structs_flow_stats_ofp_len)

ofl_structs_flow_stats_pack(s) ==
    LET before == BeforeMatch(sizeof_multipart.flow_stats)
    IN  Block("flow_stats", before,
              ROUND_UP(sizeof_multipart.flow_stats - 4 + s.match.length, 8)
              + ofl_structs_instructions_ofp_total_len(s.instructions),
              [table_id |-> s.table_id, d |-> s.d])
        \o MatchAt(s.match, before) \o Packed(s.instructions, ofl_structs_instructions_pack)

ofl_structs_flow_stats_unpack(w, len) ==
    LET before == BeforeMatch(sizeof_multipart.flow_stats)
        b == w[1]
        atMatch == Skip(w, before)
    IN  IF len < before + ROUND_UP(atMatch[1].len, 8) \/ len < b.len THEN Bad("BAD_LEN")
        ELSE IF b.v.table_id >= PIPELINE_TABLES THEN Bad("BAD_TABLE_ID")
        ELSE Then(ofl_structs_match_unpack(atMatch, b.len - before), LAMBDA m :
             Then(Instructions(AfterMatch(atMatch, m.val, before), m.len), LAMBDA is :
                  IF is.len # 0 THEN Bad("BAD_LEN")
                  ELSE Got([table_id |-> b.v.table_id, d |-> b.v.d, match |-> m.val,
                            instructions |-> is.val], len - b.len)))

-----------------------------------------------------------------------------
(* Group statistics [group_id, d, counters]. *)

ofl_structs_group_stats_ofp_len(s) ==
    sizeof_stats.group_stats + sizeof_stats.bucket_counter * Len(s.counters)

ofl_structs_group_stats_ofp_total_len(ss) == Total(ss, ofl_structs_group_stats_ofp_len)

ofl_structs_bucket_counter_pack(c) == Block("counter", sizeof_stats.bucket_counter, 0, c)

ofl_structs_group_stats_pack(s) ==
    Block("group_stats", sizeof_stats.group_stats,
          sizeof_stats.group_stats + sizeof_stats.bucket_counter * Len(s.counters),
          [group_id |-> s.group_id, d |-> s.d])
    \o Packed(s.counters, ofl_structs_bucket_counter_pack)

ofl_structs_bucket_counter_unpack(w, len) ==
    IF len < sizeof_stats.bucket_counter THEN Bad("BAD_LEN")
    ELSE Got(w[1].v, len - sizeof_stats.bucket_counter)

ofl_structs_group_stats_unpack(w, len) ==
    LET b == w[1]
        slen == b.len - sizeof_stats.group_stats
        cs == Items(Skip(w, sizeof_stats.group_stats), slen,
                    ofl_utils_count_ofp_bucket_counters(slen),
                    LAMBDA c : sizeof_stats.bucket_counter, ofl_structs_bucket_counter_unpack)
    IN  IF len < sizeof_stats.group_stats \/ len < b.len THEN Bad("BAD_LEN")
        ELSE IF b.v.group_id > OFPG_MAX THEN Bad("BAD_LEN")
        ELSE IF cs.err # "" THEN cs
        ELSE IF cs.len # 0 THEN Bad("BAD_LEN")
        ELSE Got([group_id |-> b.v.group_id, d |-> b.v.d, counters |-> cs.val], len - b.len)

-----------------------------------------------------------------------------
(* Meter statistics [meter_id, d, bands] and configurations. *)

ofl_structs_meter_stats_ofp_len(s) ==
    sizeof_meter_stats.stats + sizeof_meter_stats.band_stats * Len(s.bands)

ofl_structs_meter_stats_ofp_total_len(ss) == Total(ss, ofl_structs_meter_stats_ofp_len)

ofl_structs_pack_band_stats(b) == Block("band_stats", sizeof_meter_stats.band_stats, 0, b)

ofl_structs_meter_stats_pack(s) ==
    Block("meter_stats", sizeof_meter_stats.stats,
          sizeof_meter_stats.stats + sizeof_meter_stats.band_stats * Len(s.bands),
          [meter_id |-> s.meter_id, d |-> s.d])
    \o Packed(s.bands, ofl_structs_pack_band_stats)

ofl_structs_meter_band_stats_unpack(w, len) ==
    IF len < sizeof_meter_stats.band_stats THEN Bad("BAD_LEN")
    ELSE Got(w[1].v, len - sizeof_meter_stats.band_stats)

\* A meter's statistics and its configuration, whose bands are bs.
MeterOf(b, len, bs) ==
    IF bs.err # "" THEN bs
    ELSE IF bs.len # 0 THEN Bad("BAD_LEN")
    ELSE Got([meter_id |-> b.v.meter_id, d |-> b.v.d, bands |-> bs.val], len - b.len)

ofl_structs_meter_stats_unpack(w, len) ==
    LET slen == w[1].len - sizeof_meter_stats.stats
    IN  IF len < sizeof_meter_stats.stats \/ len < w[1].len THEN Bad("BAD_LEN")
        ELSE MeterOf(w[1], len,
                     Items(Skip(w, sizeof_meter_stats.stats), slen,
                           ofl_utils_count_ofp_meter_band_stats(slen),
                           LAMBDA b : sizeof_meter_stats.band_stats,
                           ofl_structs_meter_band_stats_unpack))

ofl_structs_meter_conf_ofp_len(c) ==
    sizeof_meter_stats.config + ofl_structs_meter_bands_ofp_total_len(c.bands)

ofl_structs_meter_conf_ofp_total_len(cs) == Total(cs, ofl_structs_meter_conf_ofp_len)

ofl_structs_meter_conf_pack(c) ==
    Block("meter_config", sizeof_meter_stats.config,
          sizeof_meter_stats.config + ofl_structs_meter_bands_ofp_total_len(c.bands),
          [meter_id |-> c.meter_id, d |-> c.d])
    \o Packed(c.bands, ofl_structs_meter_band_pack)

ofl_structs_meter_config_unpack(w, len) ==
    IF len < sizeof_meter_stats.config \/ len < w[1].len THEN Bad("BAD_LEN")
    ELSE MeterOf(w[1], len, Bands(Skip(w, sizeof_meter_stats.config),
                                  w[1].len - sizeof_meter_stats.config))

-----------------------------------------------------------------------------
(* Group descriptions [type, group_id, buckets]. *)

ofl_structs_group_desc_stats_ofp_len(s) ==
    sizeof_stats.group_desc + ofl_structs_buckets_ofp_total_len(s.buckets)

ofl_structs_group_desc_stats_ofp_total_len(ss) ==
    Total(ss, ofl_structs_group_desc_stats_ofp_len)

ofl_structs_group_desc_stats_pack(s) ==
    Block("group_desc", sizeof_stats.group_desc,
          sizeof_stats.group_desc + ofl_structs_buckets_ofp_total_len(s.buckets),
          [type |-> s.type, group_id |-> s.group_id])
    \o Packed(s.buckets, ofl_structs_bucket_pack)

ofl_structs_group_desc_stats_unpack(w, len) ==
    LET b == w[1]
        bs == Buckets(Skip(w, sizeof_stats.group_desc), b.len - sizeof_stats.group_desc,
                      b.v.type)
    IN  IF len < sizeof_stats.group_desc \/ len < b.len THEN Bad("BAD_LEN")
        ELSE IF b.v.group_id > OFPG_MAX THEN Bad("BAD_LEN")
        ELSE IF bs.err # "" THEN bs
        ELSE IF bs.len # 0 THEN Bad("BAD_LEN")
        ELSE Got([type |-> b.v.type, group_id |-> b.v.group_id, buckets |-> bs.val],
                 len - b.len)

-----------------------------------------------------------------------------
(* Queues [queue_id, properties]; a property is [type, rate]. *)

ofl_structs_queue_prop_ofp_len(p) ==
    IF p.type \in {"MIN_RATE", "MAX_RATE", "EXPERIMENTER"} THEN sizeof_queue.prop ELSE 0

ofl_structs_queue_prop_ofp_total_len(ps) == Total(ps, ofl_structs_queue_prop_ofp_len)

\* The data of an experimenter's property is not packed.
ofl_structs_queue_prop_pack(p) ==
    Block("queue_prop", sizeof_queue.prop, sizeof_queue.prop,
          IF p.type = "EXPERIMENTER" THEN [p EXCEPT !.rate = Junk] ELSE p)

ofl_structs_packet_queue_ofp_len(q) ==
    sizeof_queue.packet_queue + ofl_structs_queue_prop_ofp_total_len(q.properties)

ofl_structs_packet_queue_ofp_total_len(qs) == Total(qs, ofl_structs_packet_queue_ofp_len)

ofl_structs_packet_queue_pack(q) ==
    Block("queue", sizeof_queue.packet_queue,
          sizeof_queue.packet_queue + ofl_structs_queue_prop_ofp_total_len(q.properties),
          [queue_id |-> q.queue_id])
    \o Packed(q.properties, ofl_structs_queue_prop_pack)

\* Where a property is looked for and a queue begins, the first four bytes, the
\* queue's number, are read as the property's type and length.
AsProp(b) == IF b.is = "queue" THEN [b EXCEPT !.len = b.v.queue_id] ELSE b

ofl_structs_queue_prop_unpack(w, len) ==
    IF len < sizeof_action.header \/ len < w[1].len THEN Bad("BAD_LEN")
    ELSE IF w[1].is # "queue_prop" \/ len < sizeof_queue.prop THEN Bad("BAD_LEN")
    ELSE Got(w[1].v, len - sizeof_queue.prop)

\* The properties are counted up to the end of the message, and a property that
\* cannot be unpacked leaves its place in the array as it was.
ofl_structs_packet_queue_unpack(w, len) ==
    LET left == len - sizeof_queue.packet_queue
        props == [i \in DOMAIN w |-> AsProp(w[i])]
        n == ofl_utils_count_ofp_queue_props(Skip(props, sizeof_queue.packet_queue), left)
        r == UnpackItems(Skip(props, sizeof_queue.packet_queue), left, n.val, ByLength,
                         LAMBDA x, l : LET p == ofl_structs_queue_prop_unpack(x, l)
                                       IN  IF p.err = "" THEN p
                                           ELSE Got([type |-> "", rate |-> Junk], l))
    IN  IF len < w[1].len THEN Bad("BAD_LEN")
        ELSE IF n.err # "" THEN n
        ELSE Got([queue_id |-> w[1].v.queue_id, properties |-> r.val], r.len)

-----------------------------------------------------------------------------
(* Structs of one size: [port_no, d], [table_id, d]. *)

Fixed(is, size, v) == Block(is, size, 0, v)

ofl_structs_port_pack(p) == Fixed("port", sizeof_port.port, p)

ofl_structs_table_stats_pack(s) == Fixed("table_stats", sizeof_table_feature.table_stats, s)

ofl_structs_port_stats_pack(s) == Fixed("port_stats", sizeof_stats.port_stats, s)

ofl_structs_queue_stats_pack(s) == Fixed("queue_stats", sizeof_queue.stats, s)

PortKnown(v) == v.port_no # 0 /\ (v.port_no <= OFPP_MAX \/ v.port_no = OFPP_LOCAL)

UnpackFixed(w, len, size, Ok(_)) ==
    IF len < size \/ ~Ok(w[1].v) THEN Bad("BAD_LEN") ELSE Got(w[1].v, len - size)

ofl_structs_port_unpack(w, len) == UnpackFixed(w, len, sizeof_port.port, PortKnown)

ofl_structs_table_stats_unpack(w, len) ==
    UnpackFixed(w, len, sizeof_table_feature.table_stats, LAMBDA v : v.table_id # 255)

ofl_structs_port_stats_unpack(w, len) ==
    UnpackFixed(w, len, sizeof_stats.port_stats, PortKnown)

ofl_structs_queue_stats_unpack(w, len) ==
    UnpackFixed(w, len, sizeof_queue.stats, LAMBDA v : v.port_no # 0 /\ v.port_no <= OFPP_MAX)
=============================================================================
