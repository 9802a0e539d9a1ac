---------------------------- MODULE MacLearning ----------------------------
(***************************************************************************)
(* The MAC learning table of lib/mac-learning.c: an array of entries, each *)
(* on the free list or on the list of the entries in use, the least        *)
(* recently used first, and the buckets of a hash table.                   *)
(*                                                                         *)
(* A lookup adds the tag of the entry, or the tag that stands for an       *)
(* address not known, to the flow that is set up from it.  The client of   *)
(* the table revalidates the flows that carry a tag when the table hands   *)
(* the tag out.  The client here is the one that the comments of the       *)
(* source describe.                                                        *)
(***************************************************************************)
EXTENDS Integers, Sequences, FiniteSets, SequencesExt

CONSTANTS
    Macs, Vlans,      \* addresses and VLANs
    SrcPorts,         \* ports
    MAC_MAX,          \* entries
    HashOf,           \* bucket of an address in a VLAN
    LearnTimeout,     \* seconds an entry lasts
    MaxFlows          \* bound on the flows

ASSUME MacLearningConstants ==
    /\ MAC_MAX \in Nat \ {0} /\ LearnTimeout \in Nat \ {0} /\ MaxFlows \in Nat
    /\ DOMAIN HashOf = Macs \X Vlans

VARIABLES
    ml,        \* the table
    flows,     \* flows set up: address, port of the answer, tag
    evicted    \* addresses whose entry was taken for another one

macVars == <<ml, flows, evicted>>

MAC_FLOOD == -5

Entries == 1..MAC_MAX

\* tag_create_random: a tag that nothing carries.
FreshTag ==
    CHOOSE t \in 1..(MAC_MAX + MaxFlows + 1) :
        /\ \A e \in Entries : ml.entries[e].tag # <<"random", t>>
        /\ \A f \in flows : f.tag # <<"random", t>>

make_unknown_mac_tag(who) == <<"unknown", who>>

mac_table_bucket(who) == HashOf[who]

search_bucket(who) == {e \in ToSet(ml.table[mac_table_bucket(who)]) : ml.entries[e].who = who}

\* list_remove, and list_push_front of the bucket.
Unlinked(list, e) == SelectSeq(list, LAMBDA x : x # e)

NoTag == <<"none", 0>>

Blank == [who |-> <<>>, port |-> 0, tag |-> NoTag, left |-> 0]

mac_learning_create ==
    [free |-> [i \in Entries |-> MAC_MAX + 1 - i], lrus |-> <<>>,
     table |-> [b \in {HashOf[w] : w \in Macs \X Vlans} |-> <<>>],
     entries |-> [e \in Entries |-> Blank]]

MacInit == ml = mac_learning_create /\ flows = {} /\ evicted = {}

\* Nobody looks at what a free entry still holds.
free_mac_entry(m, e) ==
    [m EXCEPT !.entries[e] = Blank,
              !.table = [b \in DOMAIN m.table |-> Unlinked(m.table[b], e)],
              !.lrus = Unlinked(@, e),
              !.free = <<e>> \o @]

\* The entry for an address that has none: a free one or the least recently used.
Taken(m) == IF m.free # <<>> THEN m.free[1] ELSE m.lrus[1]

NewEntry(m, who) ==
    LET e == Taken(m)
        off == [b \in DOMAIN m.table |-> Unlinked(m.table[b], e)]
    IN  [m EXCEPT !.table = [off EXCEPT ![mac_table_bucket(who)] = <<e>> \o @],
                  !.entries[e] = [who |-> who, port |-> -1, tag |-> make_unknown_mac_tag(who),
                                  left |-> 0]]

MadeRecent(m, e) ==
    [m EXCEPT !.free = Unlinked(@, e), !.lrus = Append(Unlinked(@, e), e),
              !.entries[e].left = LearnTimeout]

\* The client drops the flows that carry one of the tags.
Revalidated(tags) == {f \in flows : f.tag \notin tags}

\* Mutant: an entry that moves keeps its tag.
LearnKeepsTag(who, src_port) ==
    LET old == search_bucket(who)
        e == IF old # {} THEN CHOOSE x \in old : TRUE ELSE Taken(ml)
        m == MadeRecent(IF old # {} THEN ml ELSE NewEntry(ml, who), e)
    IN  /\ ml' = [m EXCEPT !.entries[e].port = src_port]
        /\ UNCHANGED flows
        /\ evicted' = IF old = {} /\ ml.free = <<>> THEN evicted \cup {ml.entries[e].who} ELSE evicted

mac_learning_learn(who, src_port) ==
    LET old == search_bucket(who)
        e == IF old # {} THEN CHOOSE x \in old : TRUE ELSE Taken(ml)
        m == MadeRecent(IF old # {} THEN ml ELSE NewEntry(ml, who), e)
    IN  /\ IF m.entries[e].port # src_port
           THEN /\ ml' = [m EXCEPT !.entries[e].port = src_port,
                                   !.entries[e].tag = <<"random", FreshTag>>]
                /\ flows' = Revalidated({m.entries[e].tag})
           ELSE ml' = m /\ UNCHANGED flows
        /\ evicted' = IF old = {} /\ ml.free = <<>> THEN evicted \cup {ml.entries[e].who} ELSE evicted

\* What mac_learning_lookup_tag answers.
mac_learning_lookup(who) ==
    LET found == search_bucket(who)
        e == CHOOSE x \in found : TRUE
    IN  IF found = {} THEN [port |-> MAC_FLOOD, tag |-> make_unknown_mac_tag(who)]
        ELSE [port |-> ml.entries[e].port, tag |-> ml.entries[e].tag]

mac_learning_lookup_tag(who) ==
    /\ Cardinality(flows) < MaxFlows
    /\ flows' = flows \cup {[who |-> who, port |-> mac_learning_lookup(who).port,
                             tag |-> mac_learning_lookup(who).tag]}
    /\ UNCHANGED <<ml, evicted>>

mac_learning_flush ==
    /\ ml.lrus # <<>>
    /\ ml' = FoldLeft(free_mac_entry, ml, ml.lrus)
    /\ flows' = {} /\ UNCHANGED evicted

\* The entries that expired are a prefix of the list: the loop stops at the first
\* that has time left.
mac_learning_run ==
    LET first == SelectInSeq(ml.lrus, LAMBDA e : ml.entries[e].left > 0)
        gone == IF first = 0 THEN ml.lrus ELSE SubSeq(ml.lrus, 1, first - 1)
    IN  /\ gone # <<>>
        /\ ml' = FoldLeft(free_mac_entry, ml, gone)
        /\ flows' = Revalidated({ml.entries[gone[i]].tag : i \in DOMAIN gone})
        /\ UNCHANGED evicted

MacTick ==
    /\ \E e \in Entries : ml.entries[e].left > 0
    /\ ml' = [ml EXCEPT !.entries = [e \in Entries |->
                [ml.entries[e] EXCEPT !.left = IF @ > 0 THEN @ - 1 ELSE 0]]]
    /\ UNCHANGED <<flows, evicted>>

MacNext ==
    \/ \E who \in Macs \X Vlans, p \in SrcPorts : mac_learning_learn(who, p)
    \/ \E who \in Macs \X Vlans : mac_learning_lookup_tag(who)
    \/ mac_learning_flush \/ mac_learning_run \/ MacTick

MacSpec == MacInit /\ [][MacNext]_macVars

-----------------------------------------------------------------------------
(* Properties. *)

\* Every entry is on one of the two lists, once; an entry in use is in the bucket
\* of its address and in no other, and no address has two; and the list of the
\* entries in use, which mac_learning_run goes through from the front, is in the
\* order in which they expire.
MacListsAgree ==
    LET both == ml.free \o ml.lrus
    IN  /\ Len(both) = MAC_MAX /\ ToSet(both) = Entries
        /\ \A b \in DOMAIN ml.table : ToSet(ml.table[b]) =
              {e \in ToSet(ml.lrus) : HashOf[ml.entries[e].who] = b}
        /\ \A d, e \in ToSet(ml.lrus) : ml.entries[d].who = ml.entries[e].who => d = e
        /\ \A i, j \in DOMAIN ml.lrus :
              i < j => ml.entries[ml.lrus[i]].left <= ml.entries[ml.lrus[j]].left

\* A flow goes where the table would send it now: whatever changes the answer for
\* an address hands out the tag that the flow carries.  The exception is an
\* address whose entry was taken for another one: that tag is lost.
FlowsFollowTable ==
    \A f \in flows : f.who \in evicted \/ f.port = mac_learning_lookup(f.who).port
=============================================================================
