------------------------------ MODULE DpTables ------------------------------
(***************************************************************************)
(* The flow tables, the group table and the meter table of a datapath and  *)
(* the references between them: udatapath/flow_table.c, flow_entry.c,      *)
(* group_table.c, group_entry.c, meter_table.c, meter_entry.c and the      *)
(* flow-mods of pipeline.c.  What becomes of a packet is in PacketLife,    *)
(* GroupSelect and MeterBands.                                             *)
(***************************************************************************)
EXTENDS Lists, Functions, MatchStd

CONSTANTS
    TableIds,                  \* 0 .. PIPELINE_TABLES - 1
    FLOW_TABLE_MAX_ENTRIES,
    GroupIds,
    GROUP_TABLE_MAX_ENTRIES, GROUP_TABLE_MAX_BUCKETS,
    MeterIds,
    DEFAULT_MAX_METER, METER_TABLE_MAX_BANDS,
    InitialBands,              \* what meter_table_create may leave in bands_num
    FlowMods, GroupMods, MeterMods,   \* the messages of the controllers
    PipelinePackets,           \* the packets, by their fields
    ALL,                       \* OFPTT_ALL, OFPG_ALL, OFPM_ALL
    ANY,                       \* OFPP_ANY, OFPG_ANY
    NO_BUFFER,
    MaxTime                    \* in seconds

ASSUME TablesAssumption ==
    /\ 0 \in TableIds /\ TableIds \subseteq Nat /\ IsFiniteSet(TableIds)
    /\ {FLOW_TABLE_MAX_ENTRIES, GROUP_TABLE_MAX_ENTRIES, GROUP_TABLE_MAX_BUCKETS,
        DEFAULT_MAX_METER, METER_TABLE_MAX_BANDS, MaxTime} \subseteq Nat
    /\ InitialBands \subseteq Nat
    /\ \A m \in FlowMods :
          /\ m.table_id \in TableIds \cup {ALL} /\ m.groups \subseteq GroupIds
          /\ {m.priority, m.idle_timeout, m.hard_timeout} \subseteq Nat
    /\ \A m \in GroupMods : m.buckets \in Nat /\ m.forwards \subseteq GroupIds
    /\ \A m \in MeterMods : m.bands \in Nat

VARIABLES
    now,
    last_timeout,    \* dp->last_timeout
    entries,         \* the flow entries there are, by their address
    match_entries,   \* of every table: its entries, in the order of lookups,
    hard_entries,    \* those with a hard timeout,
    idle_entries,    \* and those with an idle timeout
    active_count,    \* of every table
    groups,          \* the groups there are: buckets, groups they forward to, flow_refs
    groups_num, buckets_num,
    meters,          \* the meters there are: bands, flow_refs
    meters_num, bands_num,
    dangling         \* memory that was freed has been used

tablesVars == <<now, last_timeout, entries, match_entries, hard_entries, idle_entries,
                active_count, groups, groups_num, buckets_num, meters, meters_num,
                bands_num, dangling>>

flowVars  == <<entries, match_entries, hard_entries, idle_entries, active_count>>
groupVars == <<groups, groups_num, buckets_num>>
meterVars == <<meters, meters_num, bands_num>>
timeVars  == <<now, last_timeout>>

NoEntries == [i \in {} |-> {}]

\* meter_table_create does not set bands_num.
TablesInit ==
    /\ now = 0 /\ last_timeout = 0
    /\ entries = NoEntries
    /\ match_entries = [t \in TableIds |-> <<>>]
    /\ hard_entries = [t \in TableIds |-> <<>>]
    /\ idle_entries = [t \in TableIds |-> <<>>]
    /\ active_count = [t \in TableIds |-> 0]
    /\ groups = NoEntries /\ groups_num = 0 /\ buckets_num = 0
    /\ meters = NoEntries /\ meters_num = 0 /\ bands_num \in InitialBands
    /\ dangling = FALSE

-----------------------------------------------------------------------------
(* The references of groups and meters to flow entries.                    *)

\* The references of a group to the flow entries in R are added: each at most once.
group_entry_add_flow_ref(e, R) ==
    [e EXCEPT !.flow_refs = @ \cup R, !.ref_count = @ + Cardinality(R \ e.flow_refs)]

\* The ones it has are deleted.  The counts are unsigned: -1 stands for 2^32 - 1.
group_entry_del_flow_ref(e, R) ==
    [e EXCEPT !.flow_refs = @ \ R, !.ref_count = @ - Cardinality(R \cap e.flow_refs)]

\* The entries in R are added to the groups of S that exist, in the group table T.
init_group_refs(T, S, R) ==
    [g \in DOMAIN T |-> IF g \in S THEN group_entry_add_flow_ref(T[g], R) ELSE T[g]]

\* The references of the group table T to the entries in R are deleted.
del_group_refs(T, R) == [g \in DOMAIN T |-> group_entry_del_flow_ref(T[g], R)]

meter_entry_add_flow_ref(e, R) ==
    [e EXCEPT !.flow_refs = @ \cup R, !.flow_count = @ + Cardinality(R \ e.flow_refs)]

meter_entry_del_flow_ref(e, R) ==
    [e EXCEPT !.flow_refs = @ \ R, !.flow_count = @ - Cardinality(R \cap e.flow_refs)]

\* The same for the meter table T.
init_meter_refs(T, S, R) ==
    [m \in DOMAIN T |-> IF m \in S THEN meter_entry_add_flow_ref(T[m], R) ELSE T[m]]

del_meter_refs(T, R) == [m \in DOMAIN T |-> meter_entry_del_flow_ref(T[m], R)]

\* Entries whose instructions are the ones of another entry too: freeing those
\* of one leaves the other with freed memory, or frees them twice.
Shares(R) == \E i \in R, j \in DOMAIN entries : i # j /\ entries[i].array = entries[j].array

\* Mutant: an entry that is removed still counts.
KeepsCount(R) == active_count

\* The active_count of every table without the entries in R.
ActiveWithout(R) ==
    [t \in TableIds |-> active_count[t] - Cardinality({i \in R : entries[i].table = t})]

\* flow_entry_remove, flow_entry_destroy of the entries in R, with the groups G
\* and the meters M that are left.
flow_entry_remove(R, G, M) ==
    /\ match_entries' = [t \in TableIds |-> Unlisted(match_entries[t], R)]
    /\ hard_entries' = [t \in TableIds |-> Unlisted(hard_entries[t], R)]
    /\ idle_entries' = [t \in TableIds |-> Unlisted(idle_entries[t], R)]
    /\ active_count' = ActiveWithout(R)
    /\ entries' = Restrict(entries, DOMAIN entries \ R)
    /\ groups' = del_group_refs(G, R)
    /\ meters' = del_meter_refs(M, R)

-----------------------------------------------------------------------------
(* Flow entries.                                                           *)

\* flow_entry_has_out_port, flow_entry_has_out_group.
HasOutput(e, mod) ==
    /\ mod.out_port = ANY \/ mod.out_port \in e.ports
    /\ mod.out_group = ANY \/ mod.out_group \in e.groups

\* The cookies that agree with mod's in the bits of its mask are mod.cookies.
flow_entry_matches(e, mod, strict, check_cookie) ==
    /\ check_cookie => e.cookie \in mod.cookies
    /\ IF strict
       THEN e.priority = mod.priority /\ match_std_strict(mod.match, e.match)
       ELSE match_std_nonstrict(mod.match, e.match)

flow_entry_overlaps(e, mod) ==
    /\ e.priority = mod.priority
    /\ HasOutput(e, mod)
    /\ match_std_overlap(e.match, mod.match)

\* The groups of an entry's group_refs are those of its instructions; its
\* meter_refs stay when the instructions change.
flow_entry_create(t, mod, id) ==
    [table |-> t, priority |-> mod.priority, match |-> mod.match, cookie |-> mod.cookie,
     ports |-> mod.ports, groups |-> mod.groups,
     meter_refs |-> mod.meters, array |-> id,
     idle |-> mod.idle_timeout, last_used |-> now,
     remove_at |-> IF mod.hard_timeout = 0 THEN 0 ELSE now + mod.hard_timeout]

hard_timeout(e) == e.remove_at # 0 /\ now > e.remove_at

idle_timeout(e) == e.idle # 0 /\ now > e.last_used + e.idle

-----------------------------------------------------------------------------
(* Lookups.                                                                *)

\* flow_table_lookup: the first entry of the list L that matches, or 0.
flow_table_lookup(E, L, pkt) ==
    LET i == First({k \in 1 .. Len(L) : packet_match(E[L[k]].match, pkt)})
    IN  IF i = 0 THEN 0 ELSE L[i]

\* In pipeline_process_packet the packet goes through the tables of path, which
\* start with table 0 (their entries' instructions say which), up to a miss.
Used(E, L, pkt, path) ==
    LET Hit(t) == flow_table_lookup(E, L[t], pkt)
        Reached(t) == \A u \in path : u < t => Hit(u) # 0
        hits == {Hit(t) : t \in {t \in path : Reached(t)}}
    IN  [i \in DOMAIN E |-> IF i \in hits THEN [E[i] EXCEPT !.last_used = now] ELSE E[i]]

Paths == {S \in SUBSET TableIds : 0 \in S}

ProcessPacket(pkt, path) ==
    /\ ~dangling
    /\ entries' = Used(entries, match_entries, pkt, path)
    /\ UNCHANGED <<match_entries, hard_entries, idle_entries, active_count, timeVars,
                   groupVars, meterVars, dangling>>

-----------------------------------------------------------------------------
(* Flow-mods.  One that is refused changes nothing.                        *)

\* Mutant: an entry with a hard timeout goes to the end of its list.
AppendsHard(E, L, id) == IF E[id].remove_at > 0 THEN Append(L, id) ELSE L

\* add_to_timeout_lists, the list of the entries with a hard timeout.
add_to_hard_list(E, L, id) ==
    LET later == First({k \in 1 .. Len(L) : E[L[k]].remove_at > E[id].remove_at})
    IN  IF E[id].remove_at = 0 THEN L
        ELSE Linked(L, IF later = 0 THEN Len(L) + 1 ELSE later, id)

\* add_to_timeout_lists, the list of the entries with an idle timeout.
add_to_idle_list(E, L, id) == IF E[id].idle > 0 THEN Append(L, id) ELSE L

\* A packet that the message names by its buffer goes through the pipeline.
Buffered(E, L, pkt, path) == IF pkt = NO_BUFFER THEN E ELSE Used(E, L, pkt, path)

\* Mutant: the priorities are compared the other way round.
StopsAtHigher(t, mod) ==
    LET L == match_entries[t]
    IN  First({k \in 1 .. Len(L) :
            \/ flow_entry_matches(entries[L[k]], mod, TRUE, FALSE)
            \/ mod.check_overlap /\ flow_entry_overlaps(entries[L[k]], mod)
            \/ mod.priority < entries[L[k]].priority})

\* Where the loop of flow_table_add stops: at an entry that overlaps, is equal,
\* or has a lower priority; 0 at the end.
AddStops(t, mod) ==
    LET L == match_entries[t]
    IN  First({k \in 1 .. Len(L) :
            \/ flow_entry_matches(entries[L[k]], mod, TRUE, FALSE)
            \/ mod.check_overlap /\ flow_entry_overlaps(entries[L[k]], mod)
            \/ mod.priority > entries[L[k]].priority})

\* The new entry id is in the list L of table t; the entries in R are destroyed.
Adds(t, mod, id, L, R, pkt, path) ==
    LET E == [i \in (DOMAIN entries \cup {id}) \ R |->
                IF i = id THEN flow_entry_create(t, mod, id) ELSE entries[i]]
    IN  /\ match_entries' = [match_entries EXCEPT ![t] = L]
        /\ entries' = Buffered(E, match_entries', pkt, path)
        /\ hard_entries' = [hard_entries EXCEPT ![t] = add_to_hard_list(E, Unlisted(@, R), id)]
        /\ idle_entries' = [idle_entries EXCEPT ![t] = add_to_idle_list(E, Unlisted(@, R), id)]
        /\ groups' = del_group_refs(init_group_refs(groups, mod.groups, {id}), R)
        /\ meters' = del_meter_refs(init_meter_refs(meters, mod.meters, {id}), R)
        /\ dangling' = Shares(R)

HasRoom(t) == active_count[t] # FLOW_TABLE_MAX_ENTRIES

flow_table_add(t, mod, pkt, path) ==
    LET at   == AddStops(t, mod)
        old  == match_entries[t][at]
        \* An address that no entry has.
        id   == First((1 .. Cardinality(DOMAIN entries) + 1) \ DOMAIN entries)
    IN  /\ at # 0 => ~(mod.check_overlap /\ flow_entry_overlaps(entries[old], mod))
        /\ \/ /\ at # 0 /\ flow_entry_matches(entries[old], mod, TRUE, FALSE)
              /\ Adds(t, mod, id, Replaced(match_entries[t], at, id), {old}, pkt, path)
              /\ UNCHANGED active_count
           \/ /\ at # 0 => ~flow_entry_matches(entries[old], mod, TRUE, FALSE)
              /\ HasRoom(t)
              /\ Adds(t, mod, id,
                      Linked(match_entries[t],
                             IF at = 0 THEN Len(match_entries[t]) + 1 ELSE at, id),
                      {}, pkt, path)
              /\ active_count' = [active_count EXCEPT ![t] = @ + 1]
        /\ UNCHANGED <<groups_num, buckets_num, meters_num, bands_num>>

\* The entries of table t that the message is about.
Affected(t, mod, strict) ==
    {i \in Range(match_entries[t]) : flow_entry_matches(entries[i], mod, strict, TRUE)}

\* flow_entry_replace_instructions for the entries in R: all of them get the
\* array of the message.
flow_entry_replace_instructions(R, mod) ==
    LET array == CHOOSE i \in R : \A j \in R : i <= j
    IN  [i \in DOMAIN entries |->
            IF i \in R
            THEN [entries[i] EXCEPT !.ports = mod.ports, !.groups = mod.groups,
                                    !.array = array]
            ELSE entries[i]]

\* The groups after that: del_group_refs and init_group_refs of every entry in R.
ModifyRefs(R, mod) == init_group_refs(del_group_refs(groups, R), mod.groups, R)

flow_table_modify(t, mod, strict, pkt, path) ==
    LET R == Affected(t, mod, strict)
        E == IF R = {} THEN entries ELSE flow_entry_replace_instructions(R, mod)
    IN  /\ entries' = Buffered(E, match_entries, pkt, path)
        /\ groups' = ModifyRefs(R, mod)
        /\ dangling' = Shares(R)
        /\ UNCHANGED <<match_entries, hard_entries, idle_entries, active_count, groups_num,
                       buckets_num, meterVars>>

\* In the tables of T.
flow_table_delete(T, mod, strict) ==
    LET R == {i \in UNION {Affected(t, mod, strict) : t \in T} : HasOutput(entries[i], mod)}
    IN  /\ flow_entry_remove(R, groups, meters)
        /\ dangling' = Shares(R)
        /\ UNCHANGED <<groups_num, buckets_num, meters_num, bands_num>>

\* dp_actions_validate: the groups of the actions exist.
Valid(gs) == gs \subseteq DOMAIN groups

flow_table_flow_mod(T, mod, pkt, path) ==
    \/ mod.command = "ADD" /\ \E t \in T : flow_table_add(t, mod, pkt, path)
    \/ /\ mod.command \in {"MODIFY", "MODIFY_STRICT"}
       /\ \E t \in T : flow_table_modify(t, mod, mod.command = "MODIFY_STRICT", pkt, path)
    \/ /\ mod.command \in {"DELETE", "DELETE_STRICT"} /\ pkt = NO_BUFFER
       /\ flow_table_delete(T, mod, mod.command = "DELETE_STRICT")

\* Only a deletion may be for all tables.
pipeline_handle_flow_mod(mod, pkt, path) ==
    /\ ~dangling
    /\ Valid(mod.groups)
    /\ mod.table_id = ALL => mod.command \in {"DELETE", "DELETE_STRICT"}
    /\ flow_table_flow_mod(IF mod.table_id = ALL THEN TableIds ELSE {mod.table_id}, mod, pkt, path)
    /\ UNCHANGED timeVars

-----------------------------------------------------------------------------
(* Timeouts.                                                               *)

\* flow_table_timeout: from the first list, the entries before the first one
\* that has not timed out; from the second list, all that have.
TimedOut(t) ==
    LET L == hard_entries[t]
        n == First({k \in 1 .. Len(L) : ~hard_timeout(entries[L[k]])})
    IN  {L[k] : k \in 1 .. (IF n = 0 THEN Len(L) ELSE n - 1)}
        \cup {i \in Range(idle_entries[t]) : idle_timeout(entries[i])}

\* The first pass of dp_run in another second.
pipeline_timeout ==
    /\ ~dangling
    /\ now # last_timeout
    /\ last_timeout' = now
    /\ LET R == UNION {TimedOut(t) : t \in TableIds}
       IN  flow_entry_remove(R, groups, meters) /\ dangling' = Shares(R)
    /\ UNCHANGED <<now, groups_num, buckets_num, meters_num, bands_num>>

Tick ==
    /\ now < MaxTime
    /\ now' = now + 1
    /\ UNCHANGED <<last_timeout, flowVars, groupVars, meterVars, dangling>>

-----------------------------------------------------------------------------
(* Group-mods.                                                             *)

\* Mutant: only the groups the message itself names are looked at.
NamesItself(mod) == mod.group_id \notin mod.forwards

\* The groups that have been visited when nothing is left to be visited, S, are
\* those that mod forwards to and all that one of them forwards to: the loop gets
\* there unless it meets mod's own group.
is_loop_free(mod) ==
    \E S \in SUBSET GroupIds :
        /\ mod.forwards \subseteq S
        /\ \A g \in S \cap DOMAIN groups : groups[g].forwards \subseteq S
        /\ mod.group_id \notin S

\* group_entry_create; a group that is modified keeps the references of the old one,
\* and counts from 0.
NewGroup(mod, refs) ==
    [buckets |-> mod.buckets, forwards |-> mod.forwards, flow_refs |-> refs, ref_count |-> 0]

group_table_add(mod) ==
    /\ mod.group_id \notin DOMAIN groups
    /\ groups_num # GROUP_TABLE_MAX_ENTRIES
    /\ buckets_num + mod.buckets <= GROUP_TABLE_MAX_BUCKETS
    /\ groups' = [g \in DOMAIN groups \cup {mod.group_id} |->
                    IF g = mod.group_id THEN NewGroup(mod, {}) ELSE groups[g]]
    /\ groups_num' = groups_num + 1
    /\ buckets_num' = buckets_num + mod.buckets
    /\ UNCHANGED <<flowVars, meterVars, dangling>>

group_table_modify(mod) ==
    LET g == mod.group_id
    IN  /\ g \in DOMAIN groups
        /\ buckets_num - groups[g].buckets + mod.buckets <= GROUP_TABLE_MAX_BUCKETS
        /\ is_loop_free(mod)
        /\ groups' = [groups EXCEPT ![g] = NewGroup(mod, groups[g].flow_refs)]
        /\ buckets_num' = buckets_num - groups[g].buckets + mod.buckets
        /\ UNCHANGED <<flowVars, groups_num, meterVars, dangling>>

\* The entries that the entries in gone of the table T are destroyed with.
RefsOf(T, gone) == UNION {T[g].flow_refs : g \in gone}

\* All entries of T are destroyed while they are in its hash map: the search for
\* one entry goes through another that was freed, if they are in one chain.
ChainFreed(T) == \E g, h \in DOMAIN T : T[h].flow_refs \ T[g].flow_refs # {}

group_table_delete_all ==
    LET R == RefsOf(groups, DOMAIN groups)
    IN  /\ flow_entry_remove(R, NoEntries, meters)
        /\ groups_num' = 0 /\ buckets_num' = 0
        /\ dangling' \in {Shares(R), Shares(R) \/ ChainFreed(groups)}
        /\ UNCHANGED <<meters_num, bands_num>>

group_table_delete(g) ==
    LET R == RefsOf(groups, {g})
    IN  /\ g \in DOMAIN groups
        /\ \A h \in DOMAIN groups : g \notin groups[h].forwards
        /\ flow_entry_remove(R, Restrict(groups, DOMAIN groups \ {g}), meters)
        /\ groups_num' = groups_num - 1
        /\ buckets_num' = buckets_num - groups[g].buckets
        /\ dangling' = Shares(R)
        /\ UNCHANGED <<meters_num, bands_num>>

group_table_handle_group_mod(mod) ==
    /\ ~dangling
    /\ Valid(mod.forwards)
    /\ \/ mod.command = "ADD" /\ group_table_add(mod)
       \/ mod.command = "MODIFY" /\ group_table_modify(mod)
       \/ mod.command = "DELETE" /\ mod.group_id = ALL /\ group_table_delete_all
       \/ mod.command = "DELETE" /\ mod.group_id # ALL /\ group_table_delete(mod.group_id)
    /\ UNCHANGED timeVars

-----------------------------------------------------------------------------
(* Meter-mods.                                                             *)

\* meter_entry_create, likewise.
NewMeter(mod, refs) == [bands |-> mod.bands, flow_refs |-> refs, flow_count |-> 0]

meter_table_add(mod) ==
    /\ mod.meter_id \notin DOMAIN meters
    /\ meters_num # DEFAULT_MAX_METER
    /\ bands_num + mod.bands <= METER_TABLE_MAX_BANDS
    /\ meters' = [m \in DOMAIN meters \cup {mod.meter_id} |->
                    IF m = mod.meter_id THEN NewMeter(mod, {}) ELSE meters[m]]
    /\ meters_num' = meters_num + 1
    /\ bands_num' = bands_num + mod.bands
    /\ UNCHANGED <<flowVars, groupVars, dangling>>

meter_table_modify(mod) ==
    LET m == mod.meter_id
    IN  /\ m \in DOMAIN meters
        /\ bands_num - meters[m].bands + mod.bands <= METER_TABLE_MAX_BANDS
        /\ meters' = [meters EXCEPT ![m] = NewMeter(mod, meters[m].flow_refs)]
        /\ bands_num' = bands_num - meters[m].bands + mod.bands
        /\ UNCHANGED <<flowVars, groupVars, meters_num, dangling>>

meter_table_delete_all ==
    LET R == RefsOf(meters, DOMAIN meters)
    IN  /\ flow_entry_remove(R, groups, NoEntries)
        /\ meters_num' = 0 /\ bands_num' = 0
        /\ dangling' \in {Shares(R), Shares(R) \/ ChainFreed(meters)}
        /\ UNCHANGED <<groups_num, buckets_num>>

meter_table_delete(m) ==
    LET R == RefsOf(meters, {m})
    IN  /\ m \in DOMAIN meters
        /\ flow_entry_remove(R, groups, Restrict(meters, DOMAIN meters \ {m}))
        /\ meters_num' = meters_num - 1
        /\ bands_num' = bands_num - meters[m].bands
        /\ dangling' = Shares(R)
        /\ UNCHANGED <<groups_num, buckets_num>>

meter_table_handle_meter_mod(mod) ==
    /\ ~dangling
    /\ \/ mod.command = "ADD" /\ meter_table_add(mod)
       \/ mod.command = "MODIFY" /\ meter_table_modify(mod)
       \/ mod.command = "DELETE" /\ mod.meter_id = ALL /\ meter_table_delete_all
       \/ mod.command = "DELETE" /\ mod.meter_id # ALL /\ meter_table_delete(mod.meter_id)
    /\ UNCHANGED timeVars

TablesNext ==
    \/ \E pkt \in PipelinePackets, path \in Paths : ProcessPacket(pkt, path)
    \/ \E mod \in FlowMods, pkt \in PipelinePackets \cup {NO_BUFFER}, path \in Paths :
          pipeline_handle_flow_mod(mod, pkt, path)
    \/ \E mod \in GroupMods : group_table_handle_group_mod(mod)
    \/ \E mod \in MeterMods : meter_table_handle_meter_mod(mod)
    \/ pipeline_timeout
    \/ Tick

TablesSpec == TablesInit /\ [][TablesNext]_tablesVars

-----------------------------------------------------------------------------
(* Properties.                                                             *)

Live(t) == {i \in DOMAIN entries : entries[i].table = t}

\* The first entry of a list that matches is one of the highest priority of its
\* table.
HighestFirst ==
    \A t \in TableIds, pkt \in PipelinePackets :
        LET hit  == flow_table_lookup(entries, match_entries[t], pkt)
            hits == {i \in Live(t) : packet_match(entries[i].match, pkt)}
        IN  IF hits = {} THEN hit = 0
            ELSE hit \in hits /\ \A i \in hits : entries[i].priority <= entries[hit].priority

\* flow_table_lookup, which takes the first entry of the list that matches,
\* finds one of the highest priority: flow_table_add keeps the list sorted.
\* No two entries of a table are of one priority and for the same flow.
LookupIsBest ==
    /\ HighestFirst
    /\ \A t \in TableIds : \A i, j \in Live(t) :
          entries[i].priority = entries[j].priority /\ entries[i].match = entries[j].match => i = j

\* Every entry is in the list of its table once.  The counts that the limits of
\* the tables are checked with are those of what the tables hold (but for what
\* bands_num held at the start), however it went: by a flow-mod, by a timeout,
\* or with a group or a meter.
CountsAgree ==
    /\ \A t \in TableIds :
          /\ Range(match_entries[t]) = Live(t) /\ IsInjective(match_entries[t])
          /\ active_count[t] = Cardinality(Live(t))
          /\ active_count[t] <= FLOW_TABLE_MAX_ENTRIES
    /\ groups_num = Cardinality(DOMAIN groups)
    /\ buckets_num = Cardinality(Numbered([g \in DOMAIN groups |-> groups[g].buckets]))
    /\ buckets_num <= GROUP_TABLE_MAX_BUCKETS
    /\ meters_num = Cardinality(DOMAIN meters)
    /\ bands_num - Cardinality(Numbered([m \in DOMAIN meters |-> meters[m].bands]))
         \in InitialBands \cup {0}

\* When flow_table_timeout has run in a second, no entry is left that had timed
\* out: it stops at the first entry that has not, so the list must be sorted.
NoneExpired ==
    now = last_timeout =>
        \A i \in DOMAIN entries : ~hard_timeout(entries[i]) /\ ~idle_timeout(entries[i])

\* No group forwards to itself through others (is_loop_free, and an added group
\* can only forward to groups that exist): group_table_execute ends.
GroupsLoopFree ==
    \A S \in SUBSET DOMAIN groups : S # {} => \E g \in S : groups[g].forwards \cap S = {}

\* A group that is named by a flow or a bucket exists, and a flow and the groups
\* it names refer to each other: deleting a group deletes the flows that use it.
\* A meter only refers to flows that exist and were added with that meter.
ReferencesAgree ==
    /\ \A g \in DOMAIN groups :
          /\ groups[g].forwards \subseteq DOMAIN groups
          /\ groups[g].flow_refs = {i \in DOMAIN entries : g \in entries[i].groups}
    /\ \A i \in DOMAIN entries : entries[i].groups \subseteq DOMAIN groups
    /\ \A m \in DOMAIN meters :
          meters[m].flow_refs \subseteq {i \in DOMAIN entries : m \in entries[i].meter_refs}

\* After any sequence of modifications and timeouts the flow, group and meter tables
\* agree: in what they count and in whom they refer to.
TablesAgree == CountsAgree /\ ReferencesAgree

\* flow_count is the "Number of flows bound to meter." (openflow.h:2136), whatever
\* was modified before, and ref_count that of the flows that forward to a group.
FlowCountsAgree ==
    /\ \A g \in DOMAIN groups : groups[g].ref_count = Cardinality(groups[g].flow_refs)
    /\ \A m \in DOMAIN meters : meters[m].flow_count = Cardinality(meters[m].flow_refs)

\* "Replaces the current instructions of the entry with the given ones."
\* (flow_entry.h): the instructions belong to one entry, and no memory is used
\* after it was freed.
InstructionsOwned == ~dangling
=============================================================================
