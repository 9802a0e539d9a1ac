------------------------------ MODULE OflWire ------------------------------
(***************************************************************************)
(* Images of OpenFlow messages, as oflib packs and unpacks them: the sizes *)
(* of openflow.h's structs, and the loops over their variable parts        *)
(* (oflib/ofl-structs.c).                                                  *)
(*                                                                         *)
(* An image is a sequence of blocks, one for each struct in it: what the   *)
(* struct is, the n bytes of it, the value len of its length field (0 when *)
(* it has none), and its other fields v.  Values that both directions only *)
(* convert are one number d.  A size_t that wrapped below 0 is negative.   *)
(***************************************************************************)
EXTENDS OxmMatch

\* Port, group, meter and table numbers in the order of the real ones.
OFPP_MAX == 100

OFPP_IN_PORT == 102

OFPP_LOCAL == 104

OFPP_ANY == 105

OFPG_MAX == 100

OFPG_ALL == 101

OFPM_MAX == 100

OFPM_ALL == 101

PIPELINE_TABLES == 64

OFPTT_ALL == 255

OFP_NO_BUFFER == 1000

-----------------------------------------------------------------------------
(* sizeof. *)

sizeof_switch == [header |-> 8, switch_config |-> 12, table_mod |-> 16]

sizeof_port == [port |-> 64, switch_features |-> 32, port_status |-> 80, port_mod |-> 40]

sizeof_match == 8

sizeof_action == [header |-> 8, output |-> 16, set_field |-> 8]

sizeof_instruction == [header |-> 4, goto_table |-> 8, write_metadata |-> 24,
                       actions |-> 8, meter |-> 8]

sizeof_mod == [flow_mod |-> 56, bucket |-> 16, group_mod |-> 16]

sizeof_packet == [packet_out |-> 24, packet_in |-> 32, flow_removed |-> 56]

sizeof_meter == [band_header |-> 12, band |-> 16, meter_mod |-> 16]

sizeof_error_msg == 12

sizeof_multipart == [header |-> 16, desc |-> 1056, flow_stats_request |-> 40,
                     flow_stats |-> 56, aggregate_stats_reply |-> 24]

sizeof_table_feature == [prop_header |-> 4, table_features |-> 64, table_stats |-> 24]

sizeof_stats == [port_stats_request |-> 8, port_stats |-> 112,
                 group_stats_request |-> 8, bucket_counter |-> 16, group_stats |-> 40,
                 group_desc |-> 8, group_features |-> 40]

sizeof_meter_stats == [request |-> 8, band_stats |-> 16, stats |-> 40, config |-> 8,
                       features |-> 16]

sizeof_queue == [prop_header |-> 8, prop |-> 16, packet_queue |-> 16,
                 get_config |-> 16, stats_request |-> 8, stats |-> 40]

sizeof_role == [role_request |-> 24, async_config |-> 32]

-----------------------------------------------------------------------------
(* Blocks. *)

Block(is, n, len, v) == <<[is |-> is, n |-> n, len |-> len, v |-> v]>>

Pad(n) == IF n = 0 THEN <<>> ELSE Block("pad", n, 0, 0)

Bytes(w) == FoldLeft(LAMBDA s, b : s + b.n, 0, w)

Packed(items, Pack(_)) == FoldLeft(LAMBDA w, x : w \o Pack(x), <<>>, items)

Total(items, OfpLen(_)) == FoldLeft(LAMBDA s, x : s + OfpLen(x), 0, items)

\* What begins n bytes further on; nothing when no block begins there.
Skip(w, n) ==
    LET ks == {k \in 0..Len(w) : Bytes(SubSeq(w, 1, k)) = n}
    IN  IF ks = {} THEN <<>> ELSE SubSeq(w, Max(ks) + 1, Len(w))

Got(val, len) == [err |-> "", val |-> val, len |-> len]

Bad(e) == [err |-> e, val |-> 0, len |-> 0]

\* "if (error) return error;": what follows uses a result without an error.
Then(r, Use(_)) == IF r.err # "" THEN r ELSE Use(r)

\* The ofl_utils_count_ofp_ loops: while there are `least' bytes an item begins,
\* its length field is not below `min' and not above what is left, and the next
\* one begins Step(its length) bytes on.
CountItems(image, length, least, min, Step(_)) ==
    LET RECURSIVE Count(_, _, _)
        Count(w, len, num) ==
            IF len < least THEN Got(num, 0)
            ELSE IF w = <<>> \/ len < w[1].len \/ w[1].len < min THEN Bad("BAD_LEN")
            ELSE Count(Skip(w, Step(w[1].len)), len - Step(w[1].len), num + 1)
    IN  Count(image, length, 0)

\* The loops that unpack the items that were counted.
UnpackItems(image, length, num, Step(_), Unpack(_, _)) ==
    LET RECURSIVE Each(_, _, _, _)
        Each(w, len, i, got) ==
            IF i = 0 THEN Got(got, len)
            ELSE LET r == Unpack(w, len)
                 IN  IF r.err # "" THEN r
                     ELSE Each(Skip(w, Step(w[1])), r.len, i - 1, Append(got, r.val))
    IN  Each(image, length, num, <<>>)

\* Count and unpack: what most of the callers do.
Items(w, len, count, Step(_), Unpack(_, _)) ==
    IF count.err # "" THEN count ELSE UnpackItems(w, len, count.val, Step, Unpack)

ByLength(b) == b.len

Exactly(n) == n

-----------------------------------------------------------------------------
(* The counts of ofl-structs.c and ofl-actions.c. *)

ofl_utils_count_ofp_actions(w, len) ==
    CountItems(w, len, sizeof_action.header - 4, sizeof_action.header - 4, Exactly)

\* "data_len > sizeof(struct ofp_instruction)".
ofl_utils_count_ofp_instructions(w, len) ==
    CountItems(w, len, sizeof_instruction.header + 1, sizeof_instruction.header - 4, Exactly)

ofl_utils_count_ofp_buckets(w, len) ==
    CountItems(w, len, sizeof_mod.bucket, sizeof_mod.bucket, Exactly)

ofl_utils_count_ofp_meter_bands(w, len) ==
    CountItems(w, len, sizeof_meter.band_header, sizeof_meter.band_header, Exactly)

ofl_utils_count_ofp_table_features_properties(w, len) ==
    CountItems(w, len, sizeof_table_feature.prop_header, sizeof_table_feature.prop_header,
               LAMBDA n : ROUND_UP(n, 8))

ofl_utils_count_ofp_table_features(w, len) ==
    CountItems(w, len, sizeof_table_feature.table_features,
               sizeof_table_feature.table_features, Exactly)

ofl_utils_count_ofp_flow_stats(w, len) ==
    CountItems(w, len, sizeof_multipart.flow_stats, sizeof_multipart.flow_stats, Exactly)

ofl_utils_count_ofp_group_stats(w, len) ==
    CountItems(w, len, sizeof_stats.group_stats, sizeof_stats.group_stats, Exactly)

ofl_utils_count_ofp_group_desc_stats(w, len) ==
    CountItems(w, len, sizeof_stats.group_desc, sizeof_stats.group_desc, Exactly)

ofl_utils_count_ofp_meter_stats(w, len) ==
    CountItems(w, len, sizeof_meter_stats.stats, sizeof_meter_stats.stats, Exactly)

ofl_utils_count_ofp_meter_config(w, len) ==
    CountItems(w, len, sizeof_meter_stats.config, sizeof_meter_stats.config, Exactly)

ofl_utils_count_ofp_packet_queues(w, len) ==
    CountItems(w, len, sizeof_queue.packet_queue, sizeof_queue.packet_queue, Exactly)

ofl_utils_count_ofp_queue_props(w, len) ==
    CountItems(w, len, sizeof_queue.prop_header, sizeof_queue.prop_header, Exactly)

\* The counts of structs of one size divide.
ofl_utils_count_ofp_ports(len) == Got(len \div sizeof_port.port, 0)

ofl_utils_count_ofp_table_stats(len) == Got(len \div sizeof_table_feature.table_stats, 0)

ofl_utils_count_ofp_bucket_counters(len) == Got(len \div sizeof_stats.bucket_counter, 0)

ofl_utils_count_ofp_port_stats(len) == Got(len \div sizeof_stats.port_stats, 0)

ofl_utils_count_ofp_queue_stats(len) == Got(len \div sizeof_queue.stats, 0)

ofl_utils_count_ofp_meter_band_stats(len) == Got(len \div sizeof_meter_stats.band_stats, 0)

=============================================================================
