------------------------------ MODULE MCTables ------------------------------
(***************************************************************************)
(* The comparisons of matches; and a datapath with two flow tables of two  *)
(* entries, two groups and two meters, either at one time and with one     *)
(* meter or with passing time and neither groups nor meters; packets that  *)
(* go through tables and groups; the choice of a bucket; meters.           *)
(***************************************************************************)
EXTENDS DpStats, GroupSelect, PacketLife, MeterBands

CONSTANTS g1, g2, m1, m2

NoField  == [f \in {} |-> {}]
OnInPort   == [f \in {"in_port"} |-> Exact({1})]
EthType  == [f \in {"eth_type"} |-> Exact({})]

FlowMod(command, table_id, priority, match, gs) ==
    [command |-> command, table_id |-> table_id, priority |-> priority, match |-> match,
     cookie |-> 1, cookies |-> {1}, check_overlap |-> FALSE, out_port |-> ANY, out_group |-> ANY,
     ports |-> {}, groups |-> gs, meters |-> {}, hard_timeout |-> 0, idle_timeout |-> 0]

MCFlowMods ==
    {[FlowMod("ADD", 0, 1, NoField, {}) EXCEPT !.hard_timeout = 2],
     [FlowMod("ADD", 0, 2, NoField, {}) EXCEPT !.hard_timeout = 1, !.meters = {m1}],
     [FlowMod("ADD", 0, 1, OnInPort, {g1, g2}) EXCEPT !.check_overlap = TRUE, !.cookie = 2],
     [FlowMod("ADD", 1, 1, EthType, {}) EXCEPT !.idle_timeout = 1, !.meters = {m1, m2}],
     FlowMod("MODIFY", 0, 0, NoField, {g2}),
     FlowMod("MODIFY_STRICT", 0, 2, NoField, {g1}),
     [FlowMod("DELETE", ALL, 0, NoField, {}) EXCEPT !.out_group = g1, !.cookies = {1, 2}],
     FlowMod("DELETE_STRICT", 0, 1, NoField, {})}

GroupMod(command, group_id, buckets, forwards) ==
    [command |-> command, group_id |-> group_id, buckets |-> buckets, forwards |-> forwards]

MCGroupMods ==
    {GroupMod("ADD", g1, 1, {}), GroupMod("ADD", g2, 1, {g1}),
     GroupMod("MODIFY", g1, 2, {g2}), GroupMod("MODIFY", g2, 1, {}),
     GroupMod("DELETE", g1, 0, {}), GroupMod("DELETE", g2, 0, {}), GroupMod("DELETE", ALL, 0, {})}

MeterMod(command, meter_id, bands) ==
    [command |-> command, meter_id |-> meter_id, bands |-> bands]

MCMeterMods ==
    {MeterMod("ADD", m1, 1), MeterMod("ADD", m2, 1), MeterMod("MODIFY", m1, 2),
     MeterMod("DELETE", m1, 0), MeterMod("DELETE", ALL, 0)}

MCFlowRequests ==
    {[table_id |-> ALL, match |-> NoField, out_port |-> ANY, out_group |-> ANY],
     [table_id |-> 0, match |-> NoField, out_port |-> ANY, out_group |-> g2],
     [table_id |-> 0, match |-> OnInPort, out_port |-> ANY, out_group |-> ANY]}

MCPackets == {[f \in {"in_port", "eth_type"} |-> {}], [f \in {"in_port", "eth_type"} |-> {1}]}

\* Packets in flight.
Out(p) == [type |-> "OUTPUT", port |-> p]
Grp(g) == [type |-> "GROUP", group |-> g]
Set(v) == [type |-> "SET_FIELD", field |-> 1, value |-> v]
Dec    == [type |-> "DEC_NW_TTL"]

Apply(acts) == [type |-> "APPLY_ACTIONS", actions |-> acts]
Write(acts) == [type |-> "WRITE_ACTIONS", actions |-> acts]
Clear       == [type |-> "CLEAR_ACTIONS"]
Meter       == [type |-> "METER"]
Goto        == [type |-> "GOTO_TABLE", table_id |-> 2]

Bucket(w, acts) == [watch_port |-> w, actions |-> acts]

\* Groups that lead to each other, to the controller and to ports.
LifeGroups ==
    [all    |-> [type |-> "ALL", buckets |-> <<Bucket(NONE, <<Set(1), Out("2")>>),
                                               Bucket(NONE, <<Grp("select"), Out("2")>>),
                                               Bucket(NONE, <<Out("CONTROLLER")>>)>>],
     select |-> [type |-> "SELECT", buckets |-> <<Bucket(NONE, <<Out("3"), Dec>>),
                                                  Bucket(NONE, <<Grp("ff"), Set(1)>>)>>],
     ff     |-> [type |-> "FF", buckets |-> <<Bucket("2", <<Out("2")>>), Bucket("3", <<Out("3")>>)>>]]

Indirect(acts) == "indirect" :> [type |-> "INDIRECT", buckets |-> <<Bucket(NONE, acts)>>]

LifeSetup(flows, acts) == [flows |-> flows, groups |-> LifeGroups @@ Indirect(acts)]

\* Flows of two tables, with their instructions in several orders; in the last setup a
\* bucket drops.
MCSetups ==
    LET ToAll == <<Grp("all"), Dec>>
        WriteApply == <<Write(<<Out("2"), Set(1)>>),
                        Apply(<<Grp("indirect"), Dec, Out("CONTROLLER")>>), Goto>>
        ApplyOnly  == <<Goto, Apply(<<Grp("all"), Set(1), Out("3"), Out("TABLE")>>)>>
        WriteGroup == <<Write(<<Grp("indirect"), Out("3")>>), Meter>>
        ClearWrite == <<Clear, Write(<<Set(1), Out("CONTROLLER"), Out("IN_PORT")>>),
                        Apply(<<Out("CONTROLLER"), Set(0), Grp("all")>>)>>
        FailOver   == <<Write(<<Grp("ff")>>), Meter>>
    IN  {LifeSetup(flows, ToAll) :
            flows \in {<<WriteApply, ClearWrite>>, <<WriteApply, FailOver>>, <<ApplyOnly, ClearWrite>>,
                       <<ApplyOnly, FailOver>>, <<WriteGroup, NONE>>}}
        \cup {LifeSetup(<<WriteGroup, NONE>>, <<Set(1)>>)}

MCPacketOuts ==
    {<<Out("TABLE")>>, <<Dec, Out("CONTROLLER"), Out("TABLE")>>,
     <<Grp("all"), Set(1), Out("2"), Out("1")>>,
     <<Set(1), Out("TABLE"), Set(0), Grp("indirect"), Out("ALL")>>}

MCDatas == {[field |-> 0, ttl |-> 1], [field |-> 0, ttl |-> 3]}

MCConfigs ==
    [flags : {{"KBPS"}, {"PKTPS"}, {"KBPS", "BURST"}, {"PKTPS", "BURST"}},
     rate : [Bands -> 0 .. 3], burst_size : [Bands -> {1, 3}]]

VARIABLE part

mcVars == <<part, pair, tablesVars, selectVars, lifeVars, bandVars>>

\* A component whose part was not chosen stays in one of its initial states.
IdleSelect == weight = NoRound /\ SelectInit
IdleLife   == setup = (CHOOSE s \in Setups : TRUE) /\ LifeInit
IdleBands  == config = (CHOOSE c \in Configs : TRUE) /\ BandInit

MCInit ==
    /\ part \in {"match", "references", "timeouts", "select", "life", "bands"}
    /\ TablesInit
    /\ IF part = "life" THEN LifeInit ELSE IdleLife
    /\ IF part = "match" THEN MatchInit ELSE pair = <<NoField, NoField>>
    /\ IF part = "select" THEN SelectInit ELSE IdleSelect
    /\ IF part = "bands" THEN BandInit ELSE IdleBands

\* With passing time, without groups and meters.
TimeoutsStep ==
    /\ part = "timeouts" /\ TablesNext /\ UNCHANGED <<groups, meters>>
    /\ UNCHANGED <<part, pair, selectVars, lifeVars, bandVars>>

\* At one time, when packets change nothing and timeouts do not matter.
ReferencesStep ==
    /\ part = "references"
    /\ \/ \E mod \in {m \in FlowMods : m.hard_timeout < 2} :
             pipeline_handle_flow_mod(mod, NO_BUFFER, {0})
       \/ \E mod \in GroupMods : group_table_handle_group_mod(mod)
       \/ \E mod \in MeterMods : meter_table_handle_meter_mod(mod) /\ DOMAIN meters' \subseteq {m1}
    /\ UNCHANGED <<part, pair, selectVars, lifeVars, bandVars>>

SelectStep ==
    part = "select" /\ SelectNext /\ UNCHANGED <<part, pair, tablesVars, lifeVars, bandVars>>

LifeStep ==
    part = "life" /\ LifeNext /\ UNCHANGED <<part, pair, tablesVars, selectVars, bandVars>>

BandStep ==
    part = "bands" /\ BandNext /\ UNCHANGED <<part, pair, tablesVars, selectVars, lifeVars>>

MCNext == TimeoutsStep \/ ReferencesStep \/ SelectStep \/ LifeStep \/ BandStep

MCSpec == MCInit /\ [][MCNext]_mcVars
=============================================================================
