------------------------------ MODULE MatchStd ------------------------------
(***************************************************************************)
(* The comparisons of udatapath/match_std.c: of a flow entry's match with  *)
(* a packet, and of two matches.  The bits of a value or of a mask that    *)
(* are set are a set, so that &, |, ^ and ~ are operations on sets.  The   *)
(* special values of VLAN_VID and IPV6_EXTHDR are left out.                *)
(***************************************************************************)
EXTENDS FiniteSets, Naturals

CONSTANTS
    Fields,      \* the OXM fields
    ThreeBytes,  \* those whose value has three bytes: PBB_ISID
    Bits         \* the positions of a field's bits

\* A match: some fields, each with a value and, if it has one, a mask.  A field
\* without a mask is as long as its value.
MatchesOver(S) == UNION {[F -> S] : F \in SUBSET Fields}

Exact(v) == [has_mask |-> FALSE, value |-> v, mask |-> Bits]

ExactMatches == MatchesOver({Exact(v) : v \in SUBSET Bits})

\* The bits under a zero of the mask are zero (oxm-match.c checks it).
MaskedMatches ==
    MatchesOver({Exact(v) : v \in SUBSET Bits}
                \cup {[has_mask |-> TRUE, value |-> v \cap m, mask |-> m] :
                        v \in SUBSET Bits, m \in SUBSET Bits})

\* The fields nblink_packet_parse found in a packet.
MatchPackets == UNION {[F -> SUBSET Bits] : F \in SUBSET Fields}

Xor(x, y) == (x \ y) \cup (y \ x)

Not(x) == Bits \ x

-----------------------------------------------------------------------------

\* The header of a field holds whether it has a mask.
oxm_match_lookup(f, has_mask, m) == f \in DOMAIN m /\ m[f].has_mask = has_mask

\* A value under a mask, and another value; match_8 and its siblings are the same
\* with every bit under the mask.
match_mask(a, am, b) == am \cap Xor(a, b) = {}

packet_match(m, pkt) ==
    \A f \in DOMAIN m : f \in DOMAIN pkt /\ match_mask(m[f].value, m[f].mask, pkt[f])

\* header.length: a mask is as long as a value.
Length(m) == Cardinality(DOMAIN m) + Cardinality({f \in DOMAIN m : m[f].has_mask})

strict_mask(a, b) == ~(a.mask = b.mask /\ Xor(a.value, b.value) \cap a.mask # {})

match_std_strict(a, b) ==
    /\ Length(a) = Length(b)
    /\ \A f \in DOMAIN a :
        /\ oxm_match_lookup(f, a[f].has_mask, b)
        /\ IF a[f].has_mask THEN strict_mask(a[f], b[f]) ELSE a[f].value = b[f].value

nonstrict_mask(a, b) ==
    Not(a.mask) \cap (Not(a.value) \cup Not(b.value) \cup b.mask)
                \cap (a.value \cup b.value \cup b.mask) = {}

\* Mutant: a field the second match does not have is not compared.
NonstrictPresent(a, b) ==
    \A f \in DOMAIN a \cap DOMAIN b : a[f].value = b[f].value

match_std_nonstrict(a, b) ==
    \A f \in DOMAIN a :
        /\ oxm_match_lookup(f, a[f].has_mask, b)
        /\ IF a[f].has_mask THEN nonstrict_mask(a[f], b[f]) ELSE a[f].value = b[f].value

incompatible(a, b) == Xor(a.mask \cap a.value, b.mask \cap b.value) # {}

\* The field is looked up in b with and without a mask.  The switch over the
\* length of the field has no case for three bytes.
match_std_overlap(a, b) ==
    \A f \in (DOMAIN a \cap DOMAIN b) \ ThreeBytes : ~incompatible(a[f], b[f])

-----------------------------------------------------------------------------
(* Two matches, compared.                                                  *)

CONSTANT Compared   \* the matches that are compared

VARIABLE pair

MatchInit == pair \in Compared \X Compared

Accepts(m) == {pkt \in MatchPackets : packet_match(m, pkt)}

\* A match without its fields of three bytes.
Compares(m) == [f \in DOMAIN m \ ThreeBytes |-> m[f]]

\* What the three comparisons of matches without masks mean (match_std.c:378, 577,
\* 755).  Two matches are strictly equal exactly when they accept the same packets,
\* so flow_table_add replaces an entry only by one for the same flow; one reaches
\* the other non-strictly exactly when it accepts every packet that the other
\* accepts; they overlap exactly when some packet is accepted by what
\* match_std_overlap compares of both, which is all but a field of three bytes: no
\* two that have a packet in common are missed, and two that have none are taken to
\* overlap only when such a field is all that keeps them apart.
ComparisonsAreExact ==
    LET a == pair[1]
        b == pair[2]
    IN  /\ match_std_strict(a, b) <=> Accepts(a) = Accepts(b)
        /\ match_std_nonstrict(a, b) <=> Accepts(b) \subseteq Accepts(a)
        /\ match_std_overlap(a, b) <=> Accepts(Compares(a)) \cap Accepts(Compares(b)) # {}

\* A non-strict modify or delete reaches only flows that its match covers: "Flow
\* entry (a) matches flow entry (b) non-strictly if (a) matches whenever (b)
\* matches." (match_std.c:577).
NonstrictOnlyCovered ==
    match_std_nonstrict(pair[1], pair[2]) => Accepts(pair[2]) \subseteq Accepts(pair[1])
=============================================================================
