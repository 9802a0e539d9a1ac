----------------------------- MODULE PacketLife -----------------------------
(***************************************************************************)
(* What becomes of a packet that a controller sends: through the flow      *)
(* tables, their instructions, groups and action sets, with the copies     *)
(* that are made on the way (udatapath/packet.c, pipeline.c, dp_actions.c, *)
(* group_entry.c, action_set.c).  A packet is owned by the function that   *)
(* has it in hand, which destroys it or passes it on.  The functions call  *)
(* each other recursively; each is an operator from the world before the   *)
(* call to the world after it.  Which flow a packet hits, which bucket a   *)
(* select group takes, whether a meter drops and whether there is a free   *)
(* buffer is decided in DpTables, GroupSelect, MeterBands and DpBuffers;   *)
(* here a message comes with such decisions.                               *)
(***************************************************************************)
EXTENDS Integers, Sequences, SequencesExt, FiniteSets, TLC

-----------------------------------------------------------------------------
(* The action set of a packet (udatapath/action_set.c): a list of actions. *)
(* An action has a type, a field if it is of type SET_FIELD, and arguments.*)

action_set_order(act) ==
    CASE act.type = "COPY_TTL_IN" -> 10
      [] act.type \in {"POP_PBB", "POP_VLAN", "POP_MPLS"} -> 20
      [] act.type \in {"PUSH_PBB", "PUSH_VLAN", "PUSH_MPLS"} -> 30
      [] act.type = "COPY_TTL_OUT" -> 40
      [] act.type \in {"DEC_MPLS_TTL", "DEC_NW_TTL"} -> 50
      [] act.type \in {"SET_FIELD", "SET_MPLS_TTL", "SET_NW_TTL"} -> 60
      [] act.type = "SET_QUEUE" -> 70
      [] act.type = "EXPERIMENTER" -> 75
      [] act.type = "GROUP" -> 80
      [] act.type = "OUTPUT" -> 90

Replaces(new, old) == new.type = old.type /\ (new.type = "SET_FIELD" => new.field = old.field)

\* The loop stops at an action that is replaced or comes later.
action_set_write_action(set, new) ==
    LET stop == SelectInSeq(set, LAMBDA old :
                    Replaces(new, old) \/ action_set_order(new) < action_set_order(old))
    IN  IF stop = 0 THEN Append(set, new)
        ELSE IF Replaces(new, set[stop]) THEN ReplaceAt(set, stop, new)
        ELSE InsertAt(set, stop, new)

action_set_write_actions(set, acts) == FoldLeft(action_set_write_action, set, acts)

action_set_clear_actions(set) == <<>>

-----------------------------------------------------------------------------
(* The way of a packet.                                                     *)

CONSTANTS
    LifePorts,     \* the ports, as strings
    InPort,        \* the in_port of the packets
    Datas,         \* the packets of the messages: field and ttl
    PacketOuts,    \* the actions of packet-out messages
    Setups,        \* flows and groups: see below
    MaxKept,       \* the places of the buffers
    NONE           \* OFPP_ANY, OFPG_ANY; no flow

\* A setup has, for every table, a list of instructions in the order of the flow-mod,
\* or NONE; and groups with a type and buckets.  The groups that are named
\* exist and do not go in circles (ReferencesAgree, GroupsLoopFree of DpTables),
\* and Goto-Table goes forward (pipeline_handle_flow_mod).
ASSUME LifeAssumption ==
    \A s \in Setups : \A t \in DOMAIN s.flows : s.flows[t] # NONE =>
        \A i \in DOMAIN s.flows[t] :
            s.flows[t][i].type = "GOTO_TABLE" => s.flows[t][i].table_id > t

VARIABLES
    setup,     \* the flows and groups there are
    up,        \* the ports that are up
    life,      \* the world
    expected   \* what the message before should have emitted

lifeVars == <<setup, up, life, expected>>

\* heap: the packets that are allocated; kept: those saved in a buffer; emitted:
\* the ports and the data of what was sent for the message in hand; wrong: memory
\* was freed that was not allocated; expired: a packet had no ttl left; null: a meter
\* has dropped the packet that goes through the tables.
World(heap, kept) ==
    [heap |-> heap, kept |-> kept, emitted |-> <<>>, wrong |-> FALSE, expired |-> FALSE,
     null |-> FALSE]

LifeInit ==
    /\ setup \in Setups
    /\ up = LifePorts
    /\ life = World(<<>>, {})
    /\ expected = <<>>

-----------------------------------------------------------------------------
(* Packets.                                                                *)

NewPkt(w) == CHOOSE i \in 1 .. Cardinality(DOMAIN w.heap) + 1 : i \notin DOMAIN w.heap

\* packet_handle_std_create: the fields are those of the data.
packet_create(w, data, packet_out) ==
    [w EXCEPT !.heap = @ @@ NewPkt(w) :> [data |-> data, action_set |-> <<>>, packet_out |-> packet_out,
                                          out_group |-> NONE, out_port |-> NONE]]

packet_clone(w, p) ==
    [w EXCEPT !.heap = @ @@ NewPkt(w) :> [@[p] EXCEPT !.action_set = <<>>, !.out_group = NONE,
                                                      !.out_port = NONE]]

\* A packet that is saved stays: time_now() does not change here.
packet_destroy(w, p) ==
    IF p \notin DOMAIN w.heap THEN [w EXCEPT !.wrong = TRUE]
    ELSE IF p \in w.kept THEN w
    ELSE [w EXCEPT !.heap = Restrict(@, DOMAIN @ \ {p})]

packet_handle_std_is_ttl_valid(w, p) == w.heap[p].data.ttl >= 1

dp_buffers_save(w, p) ==
    IF p \in w.kept \/ Cardinality(w.kept) < MaxKept THEN [w EXCEPT !.kept = @ \cup {p}] ELSE w

Emit(w, ports, p) == [w EXCEPT !.emitted = Append(@, <<ports, w.heap[p].data>>)]

\* The message is sent and its match is freed, though it is a part of the packet.
send_packet_to_controller(w, p) ==
    [Emit(dp_buffers_save(w, p), {"CONTROLLER"}, p) EXCEPT !.wrong = TRUE, !.expired = TRUE]

-----------------------------------------------------------------------------
(* Actions, groups, tables.  c is what is decided for the message: bucket, *)
(* drop.                                                                   *)

RECURSIVE pipeline_process_packet(_, _, _), group_table_execute(_, _, _, _), FromTable(_, _, _, _)

\* What an action does by itself; output and group are only noted.
dp_execute_action(w, p, act) ==
    LET pkt == w.heap[p]
    IN  [w EXCEPT !.heap[p] =
            CASE act.type = "OUTPUT" -> [pkt EXCEPT !.out_port = act.port]
              [] act.type = "GROUP" -> [pkt EXCEPT !.out_group = act.group]
              [] act.type = "SET_FIELD" -> [pkt EXCEPT !.data.field = act.value]
              [] act.type = "DEC_NW_TTL" -> [pkt EXCEPT !.data.ttl = IF @ > 0 THEN @ - 1 ELSE 0]]

\* A port that is down sends nothing (dp_ports_output).
dp_actions_output_port(w, p, port, c) ==
    CASE port = "TABLE" ->
            IF w.heap[p].packet_out
            THEN LET copy == NewPkt(w)
                 IN  pipeline_process_packet([packet_clone(w, p) EXCEPT !.heap[copy].packet_out = FALSE], copy, c)
            ELSE w
      [] port = "IN_PORT" -> Emit(w, {InPort} \cap up, p)
      [] port = "CONTROLLER" -> Emit(dp_buffers_save(w, p), {"CONTROLLER"}, p)
      [] port = "ALL" -> Emit(w, up \ {InPort}, p)
      [] OTHER -> IF port = InPort THEN w ELSE Emit(w, {port} \cap up, p)

\* The packet goes to the group or the port that was noted.
Forward(w, p, c) ==
    LET pkt == w.heap[p]
    IN  IF pkt.out_group # NONE
        THEN LET copied == packet_clone([w EXCEPT !.heap[p].out_group = NONE], p)
             IN  group_table_execute(copied, NewPkt(w), pkt.out_group, c)
        ELSE IF pkt.out_port # NONE
        THEN dp_actions_output_port([w EXCEPT !.heap[p].out_port = NONE], p, pkt.out_port, c)
        ELSE w

dp_execute_action_list(w, p, acts, c) ==
    FoldLeft(LAMBDA v, act : Forward(dp_execute_action(v, p, act), p, c), w, acts)

\* The group comes before the port; out_port stays as it is then.
action_set_execute(w, p, c) ==
    LET done == FoldLeft(LAMBDA v, act : dp_execute_action(v, p, act), w, w.heap[p].action_set)
        pkt  == done.heap[p]
        idle == [done EXCEPT !.heap[p].action_set = action_set_clear_actions(@)]
    IN  IF pkt.out_group # NONE
        THEN group_table_execute([idle EXCEPT !.heap[p].out_group = NONE], p, pkt.out_group, c)
        ELSE IF pkt.out_port # NONE
        THEN packet_destroy(dp_actions_output_port([idle EXCEPT !.heap[p].out_port = NONE],
                                                   p, pkt.out_port, c), p)
        ELSE packet_destroy(idle, p)

\* The actions of the bucket are all there is in the set then.
ExecuteBucket(w, p, bucket, c) ==
    action_set_execute([w EXCEPT !.heap[p].action_set = action_set_write_actions(@, bucket.actions)], p, c)

\* Mutant: the packet the copies were made of is forgotten.
AllForgets(w, p, group, c) ==
    FoldLeft(LAMBDA v, bucket : ExecuteBucket(packet_clone(v, p), NewPkt(v), bucket, c), w, group.buckets)

execute_all(w, p, group, c) ==
    packet_destroy(
        FoldLeft(LAMBDA v, bucket : ExecuteBucket(packet_clone(v, p), NewPkt(v), bucket, c),
                 w, group.buckets), p)

\* The bucket of select_from_select_group.
execute_select(w, p, group, c) ==
    IF group.buckets # <<>>
    THEN ExecuteBucket(w, p, group.buckets[1 + (c.bucket % Len(group.buckets))], c)
    ELSE packet_destroy(w, p)

execute_indirect(w, p, group, c) ==
    IF group.buckets # <<>> THEN ExecuteBucket(w, p, group.buckets[1], c) ELSE packet_destroy(w, p)

bucket_is_alive(bucket) == bucket.watch_port # NONE /\ bucket.watch_port \in up

select_from_ff_group(group) == SelectInSeq(group.buckets, bucket_is_alive)

execute_ff(w, p, group, c) ==
    LET b == select_from_ff_group(group)
    IN  IF b # 0 THEN ExecuteBucket(w, p, group.buckets[b], c) ELSE packet_destroy(w, p)

group_entry_execute(w, p, group, c) ==
    CASE group.type = "ALL" -> execute_all(w, p, group, c)
      [] group.type = "SELECT" -> execute_select(w, p, group, c)
      [] group.type = "INDIRECT" -> execute_indirect(w, p, group, c)
      [] group.type = "FF" -> execute_ff(w, p, group, c)

\* The caller has given the packet away; it is lost when there is no such group.
group_table_execute(w, p, g, c) ==
    IF g \in DOMAIN setup.groups THEN group_entry_execute(w, p, setup.groups[g], c) ELSE w

\* The types of the instructions are numbered from Goto-Table to Meter.
InstructionType(inst) ==
    CASE inst.type = "GOTO_TABLE" -> 1 [] inst.type = "WRITE_ACTIONS" -> 3
      [] inst.type = "APPLY_ACTIONS" -> 4 [] inst.type = "CLEAR_ACTIONS" -> 5 [] inst.type = "METER" -> 6

\* i1 has to come after i2: what qsort is told when a flow is added or modified.
inst_compare(i1, i2) ==
    IF {i1.type, i2.type} = {"APPLY_ACTIONS", "CLEAR_ACTIONS"}
    THEN InstructionType(i1) > InstructionType(i2)
    ELSE InstructionType(i1) < InstructionType(i2)

Sorted(insts) == SortSeq(insts, LAMBDA i, j : inst_compare(j, i))

\* One instruction; a meter may drop the packet.  (Write-Metadata only changes what
\* later flows are looked up by.)
execute_entry(w, p, inst, c) ==
    IF w.null THEN w
    ELSE CASE inst.type = "WRITE_ACTIONS" ->
                [w EXCEPT !.heap[p].action_set = action_set_write_actions(@, inst.actions)]
           [] inst.type = "APPLY_ACTIONS" -> dp_execute_action_list(w, p, inst.actions, c)
           [] inst.type = "CLEAR_ACTIONS" ->
                [w EXCEPT !.heap[p].action_set = action_set_clear_actions(@)]
           [] inst.type = "METER" -> IF c.drop THEN [packet_destroy(w, p) EXCEPT !.null = TRUE] ELSE w
           [] inst.type = "GOTO_TABLE" -> w

NextTables(insts) == {inst.table_id : inst \in {i \in ToSet(insts) : i.type = "GOTO_TABLE"}}

\* The loop, from table t.
FromTable(w, p, t, c) ==
    IF setup.flows[t] = NONE THEN packet_destroy(w, p)
    ELSE LET v    == FoldLeft(LAMBDA u, inst : execute_entry(u, p, inst, c), w, Sorted(setup.flows[t]))
             next == NextTables(setup.flows[t])
         IN  IF v.null THEN [v EXCEPT !.null = FALSE]
             ELSE IF next = {} THEN action_set_execute(v, p, c)
             ELSE FromTable(v, p, CHOOSE n \in next : TRUE, c)

pipeline_process_packet(w, p, c) ==
    IF packet_handle_std_is_ttl_valid(w, p) THEN FromTable(w, p, 1, c)
    ELSE packet_destroy(send_packet_to_controller(w, p), p)

-----------------------------------------------------------------------------
(* What a packet with data d should emit, without packets in memory.  po:  *)
(* it may be given to the tables.                                          *)

RECURSIVE GroupMeans(_, _, _, _), TableMeans(_, _, _, _)

Changed(d, act) ==
    CASE act.type = "SET_FIELD" -> [d EXCEPT !.field = act.value]
      [] act.type = "DEC_NW_TTL" -> [d EXCEPT !.ttl = IF @ > 0 THEN @ - 1 ELSE 0]
      [] OTHER -> d

PortMeans(d, po, port, c) ==
    CASE port = "TABLE" /\ po ->
            IF d.ttl < 1 THEN << <<{"CONTROLLER"}, d>> >> ELSE TableMeans(d, 1, <<>>, c)
      [] port \in {"TABLE", InPort} -> <<>>
      [] port = "CONTROLLER" -> << <<{"CONTROLLER"}, d>> >>
      [] port = "ALL" -> << <<up \ {InPort}, d>> >>
      [] OTHER -> << <<{IF port = "IN_PORT" THEN InPort ELSE port} \cap up, d>> >>

\* A list of actions: each on what the ones before made of the data.
ListMeans(d, po, acts, c) ==
    FoldLeft(LAMBDA r, act :
                [data |-> Changed(r.data, act),
                 out  |-> r.out \o CASE act.type = "OUTPUT" -> PortMeans(r.data, po, act.port, c)
                                     [] act.type = "GROUP" -> GroupMeans(r.data, po, act.group, c)
                                     [] OTHER -> <<>>],
             [data |-> d, out |-> <<>>], acts)

\* A set of actions, as they were written: the last of each kind counts; first those
\* on the data, then the group or else the port.
SetMeans(d, po, written, c) ==
    LET last == {i \in DOMAIN written : \A j \in DOMAIN written : j > i => ~Replaces(written[j], written[i])}
        Of(type) == {written[i] : i \in {i \in last : written[i].type = type}}
        e == FoldLeft(Changed, d, SetToSeq(Of("DEC_NW_TTL")) \o SetToSeq(Of("SET_FIELD")))
    IN  IF Of("GROUP") # {} THEN GroupMeans(e, po, (CHOOSE a \in Of("GROUP") : TRUE).group, c)
        ELSE IF Of("OUTPUT") # {} THEN PortMeans(e, po, (CHOOSE a \in Of("OUTPUT") : TRUE).port, c)
        ELSE <<>>

Taken(group, c) ==
    LET live == {b \in DOMAIN group.buckets : group.buckets[b].watch_port \in up}
    IN  CASE group.type = "ALL" -> group.buckets
          [] group.buckets = <<>> -> <<>>
          [] group.type = "SELECT" -> <<group.buckets[1 + (c.bucket % Len(group.buckets))]>>
          [] group.type = "INDIRECT" -> <<group.buckets[1]>>
          [] group.type = "FF" ->
                IF live = {} THEN <<>> ELSE <<group.buckets[CHOOSE b \in live : \A x \in live : b <= x]>>

\* Every bucket gets the data as it came.
GroupMeans(d, po, g, c) ==
    FoldLeft(LAMBDA out, bucket : out \o SetMeans(d, po, bucket.actions, c), <<>>,
             Taken(setup.groups[g], c))

\* The instructions in the order of the comment in execute_entry.
TableMeans(d, t, written, c) ==
    LET insts == IF setup.flows[t] = NONE THEN {} ELSE ToSet(setup.flows[t])
        Of(type) == {i \in insts : i.type = type}
        ActionsOf(type) == IF Of(type) = {} THEN <<>> ELSE (CHOOSE i \in Of(type) : TRUE).actions
        r    == ListMeans(d, FALSE, ActionsOf("APPLY_ACTIONS"), c)
        set  == (IF Of("CLEAR_ACTIONS") # {} THEN <<>> ELSE written) \o ActionsOf("WRITE_ACTIONS")
        next == {i.table_id : i \in Of("GOTO_TABLE")}
    IN  IF setup.flows[t] = NONE \/ (Of("METER") # {} /\ c.drop) THEN <<>>
        ELSE r.out \o IF next = {} THEN SetMeans(r.data, FALSE, set, c)
                      ELSE TableMeans(r.data, CHOOSE n \in next : TRUE, set, c)

-----------------------------------------------------------------------------
(* Messages.                                                               *)

Decisions == [bucket : 0 .. 1, drop : BOOLEAN]

\* Packet-out, with the packet in the message.
handle_control_packet_out(data, acts, c) ==
    LET w == World(life.heap, life.kept)
        p == NewPkt(w)
    IN  /\ life' = packet_destroy(dp_execute_action_list(packet_create(w, data, TRUE), p, acts, c), p)
        /\ expected' = ListMeans(data, TRUE, acts, c).out
        /\ UNCHANGED <<setup, up>>

\* dp_buffers_retrieve: a packet that is named by its buffer may not be given to
\* the tables with OFPP_TABLE.
Retrieved(p) ==
    World([life.heap EXCEPT ![p].packet_out = FALSE], life.kept \ {p})

BufferedPacketOut(p, acts, c) ==
    /\ p \in life.kept
    /\ life' = packet_destroy(dp_execute_action_list(Retrieved(p), p, acts, c), p)
    /\ expected' = ListMeans(life.heap[p].data, FALSE, acts, c).out
    /\ UNCHANGED <<setup, up>>

\* A flow-mod with a buffer.
BufferedFlowMod(p, c) ==
    /\ p \in life.kept
    /\ life' = pipeline_process_packet(Retrieved(p), p, c)
    /\ expected' = PortMeans(life.heap[p].data, TRUE, "TABLE", c)
    /\ UNCHANGED <<setup, up>>

\* The place of a packet that nobody asked for is needed (dp_buffers_save).
Overwritten(p) ==
    /\ p \in life.kept
    /\ life' = packet_destroy(World(life.heap, life.kept \ {p}), p)
    /\ expected' = <<>>
    /\ UNCHANGED <<setup, up>>

\* The state of a port changes.
LifePortChanged(port) ==
    /\ up' = IF port \in up THEN up \ {port} ELSE up \cup {port}
    /\ life' = World(life.heap, life.kept) /\ expected' = <<>>
    /\ UNCHANGED setup

LifeMessage ==
    \/ \E acts \in PacketOuts, c \in Decisions :
          \/ \E data \in Datas : handle_control_packet_out(data, acts, c)
          \/ \E p \in life.kept : BufferedPacketOut(p, acts, c)
    \/ \E p \in life.kept : Overwritten(p) \/ \E c \in Decisions : BufferedFlowMod(p, c)
    \/ \E port \in LifePorts \ {InPort} : LifePortChanged(port)

\* What a message emitted is forgotten before the next is handled.
Recorded == <<life.emitted, expected>> # <<<<>>, <<>>>>

Forget ==
    /\ Recorded
    /\ life' = World(life.heap, life.kept) /\ expected' = <<>>
    /\ UNCHANGED <<setup, up>>

LifeNext == (~Recorded /\ LifeMessage) \/ Forget

LifeSpec == LifeInit /\ [][LifeNext]_lifeVars

-----------------------------------------------------------------------------
(* Properties.                                                             *)

\* "This function takes ownership of the packet and will destroy it." (pipeline.c:166);
\* group_entry_execute and action_set_execute do, dp_execute_action_list does not.
\* However tables, groups and lists of actions are nested, every packet and every copy
\* is destroyed exactly once when a message has been handled, but for those that a buffer
\* keeps; only a packet whose ttl has expired is freed in part by send_packet_to_controller.
DestroyedExactlyOnce ==
    /\ DOMAIN life.heap = life.kept
    /\ life.wrong => life.expired
    /\ ~life.null

\* Some bucket only changes the packet, or does nothing.
BucketDrops ==
    \E g \in DOMAIN setup.groups : \E b \in DOMAIN setup.groups[g].buckets :
        \A a \in ToSet(setup.groups[g].buckets[b].actions) : a.type \notin {"OUTPUT", "GROUP"}

\* What is sent, and in which order, is what the actions say: "so that when we return
\* we continue processing an unmodified version of the packet" (dp_actions.c:1171), the
\* buckets of a group do not see what another did, the instructions of a flow are
\* executed in the order execute_entry promises (pipeline.c:645) whatever order they
\* came in, and a set of actions is what was written last.  (Where a bucket drops, see
\* OutputIsIgnored.)
EmitsAsSpecified == ~BucketDrops => life.emitted = expected

\* On its way through tables and groups a packet and its copies are sent as the
\* actions say, and each is destroyed once.
PacketsHandled == DestroyedExactlyOnce /\ EmitsAsSpecified

\* The same with buckets that drop: "According to the spec. if there was a group action,
\* the output port action should be ignored" (action_set.c:221).
OutputIsIgnored == life.emitted = expected
=============================================================================
