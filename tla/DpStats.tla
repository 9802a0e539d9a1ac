------------------------------ MODULE DpStats ------------------------------
(***************************************************************************)
(* The statistics of the tables, as they are asked for with multipart      *)
(* requests: pipeline.c, flow_table.c, group_table.c, meter_table.c.  A    *)
(* reply is an array with room for so many pointers, num of which are      *)
(* said to be there; stats is the ones that were written.                  *)
(***************************************************************************)
EXTENDS DpTables, SequencesExt

CONSTANT FlowRequests   \* table_id, match, out_port, out_group

\* No error, and the array.
Reply(room, num, stats) == [room |-> room, num |-> num, stats |-> stats]

UNKNOWN == "unknown"

\* The pointers of a set, in the order of a hash map.
InSomeOrder(S) == SetToSeq(S)

-----------------------------------------------------------------------------
(* Flows.                                                                  *)

\* Mutant: the array is made larger only when it is too small already.
PutLate(reply, id) ==
    [reply EXCEPT !.room = IF reply.num > @ THEN 2 * @ ELSE @,
                  !.num = @ + 1, !.stats = Append(@, id)]

\* One more entry; the array is doubled when it is full.
Put(reply, id) ==
    [reply EXCEPT !.room = IF reply.num = @ THEN 2 * @ ELSE @,
                  !.num = @ + 1, !.stats = Append(@, id)]

flow_table_stats(t, msg, reply) ==
    LET Asked(id) == /\ HasOutput(entries[id], msg)
                     /\ match_std_nonstrict(msg.match, entries[id].match)
    IN  FoldLeft(Put, reply, SelectSeq(match_entries[t], Asked))

\* Table after table.
TablesAsked(msg) == IF msg.table_id = ALL THEN SetToSortSeq(TableIds, <) ELSE <<msg.table_id>>

pipeline_handle_stats_request_flow(msg) ==
    FoldLeft(LAMBDA reply, t : flow_table_stats(t, msg, reply), Reply(1, 0, <<>>), TablesAsked(msg))

\* The flow_count of a table; the message's match is not looked at.
flow_table_aggregate_stats(t, msg) ==
    Len(SelectSeq(match_entries[t], LAMBDA id : HasOutput(entries[id], msg)))

pipeline_handle_stats_request_aggregate(msg) ==
    FoldLeft(LAMBDA n, t : n + flow_table_aggregate_stats(t, msg), 0, TablesAsked(msg))

\* The active_count of every table.
pipeline_handle_stats_request_table == active_count

-----------------------------------------------------------------------------
(* Groups and meters: one by its number, or all of them.                   *)

group_table_handle_stats_request_group(g) ==
    IF g = ALL THEN Reply(groups_num, groups_num, InSomeOrder(DOMAIN groups))
    ELSE IF g \notin DOMAIN groups THEN UNKNOWN
    ELSE Reply(1, 1, <<g>>)

group_table_handle_stats_request_group_desc ==
    Reply(groups_num, groups_num, InSomeOrder(DOMAIN groups))

meter_table_handle_stats_request_meter(m) ==
    IF m = ALL THEN Reply(meters_num, meters_num, InSomeOrder(DOMAIN meters))
    ELSE IF m \notin DOMAIN meters THEN UNKNOWN
    ELSE Reply(1, 1, <<m>>)

\* The reply about one meter is said to hold as many as the table has.
meter_table_handle_stats_request_meter_conf(m) ==
    IF m = ALL THEN Reply(meters_num, meters_num, InSomeOrder(DOMAIN meters))
    ELSE IF m \notin DOMAIN meters THEN UNKNOWN
    ELSE Reply(1, meters_num, <<m>>)

-----------------------------------------------------------------------------
(* Properties.                                                             *)

\* What is said to be there was written, has room, and is S, each once.
Tells(reply, S) ==
    /\ reply.num = Len(reply.stats) /\ reply.num <= reply.room
    /\ ToSet(reply.stats) = S /\ IsInjective(reply.stats)

\* The flows of the tables that were asked for, with the outputs and the fields
\* that were asked for.
FlowsAsked(msg) ==
    {i \in DOMAIN entries :
        /\ msg.table_id \in {ALL, entries[i].table}
        /\ HasOutput(entries[i], msg)
        /\ \A f \in DOMAIN msg.match :
              f \in DOMAIN entries[i].match /\ entries[i].match[f] = msg.match[f]}

\* A reply tells of what was asked for, all of it, nothing else and nothing twice,
\* and no place of the array is written or sent that is not there - after any
\* flow-mods, group-mods, meter-mods and timeouts, which change the lists the replies
\* are collected from and the counts the arrays are allocated with apart from each
\* other.  Not so the configuration of a single meter; and an aggregate agrees with
\* the flows only for a request whose match has no field.
RepliesAreExact ==
    /\ \A msg \in FlowRequests :
          /\ Tells(pipeline_handle_stats_request_flow(msg), FlowsAsked(msg))
          /\ msg.match = NoEntries =>
                pipeline_handle_stats_request_aggregate(msg) = Cardinality(FlowsAsked(msg))
    /\ \A t \in TableIds : pipeline_handle_stats_request_table[t] = Cardinality(Live(t))
    /\ Tells(group_table_handle_stats_request_group(ALL), DOMAIN groups)
    /\ Tells(group_table_handle_stats_request_group_desc, DOMAIN groups)
    /\ Tells(meter_table_handle_stats_request_meter(ALL), DOMAIN meters)
    /\ Tells(meter_table_handle_stats_request_meter_conf(ALL), DOMAIN meters)
    /\ \A g \in DOMAIN groups : Tells(group_table_handle_stats_request_group(g), {g})
    /\ \A m \in DOMAIN meters : Tells(meter_table_handle_stats_request_meter(m), {m})
=============================================================================
