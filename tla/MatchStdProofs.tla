-------------------------- MODULE MatchStdProofs ---------------------------
(***************************************************************************)
(* What the comparisons of match_std.c mean when no field has a mask,      *)
(* whatever the fields and their values are.                               *)
(***************************************************************************)
EXTENDS MatchStd, FiniteSetTheorems, TLAPS

\* A leaf is for SMT alone; those that it does not find name Zenon.
USE SMTT(30)

-----------------------------------------------------------------------------
(* The comparisons of matches, when no field has a mask.                   *)

\* What a match without masks is.
LEMMA ExactIs ==
    ASSUME NEW a \in ExactMatches
    PROVE  /\ DOMAIN a \subseteq Fields
           /\ \A f \in DOMAIN a : a[f].value \subseteq Bits /\ a[f] = Exact(a[f].value)
                                  /\ a[f].has_mask = FALSE /\ a[f].mask = Bits
<1>1. PICK F \in SUBSET Fields : a \in [F -> {Exact(v) : v \in SUBSET Bits}]
    BY DEF ExactMatches, MatchesOver
<1>2. DOMAIN a = F /\ \A f \in F : \E v \in SUBSET Bits : a[f] = Exact(v)
    BY <1>1
<1>3. ASSUME NEW f \in F
      PROVE  /\ a[f].value \subseteq Bits /\ a[f] = Exact(a[f].value)
             /\ a[f].has_mask = FALSE /\ a[f].mask = Bits
  <2>1. PICK v \in SUBSET Bits : a[f] = Exact(v)
    BY <1>2
  <2>2. a[f].value = v
    BY <2>1 DEF Exact
  <2> QED
    BY <2>1, <2>2 DEF Exact
<1> QED
    BY ZenonT(60), <1>2, <1>3

\* Matches are functions: those with the same fields and values are the same.
LEMMA ExactSame ==
    ASSUME NEW a \in ExactMatches, NEW b \in ExactMatches, DOMAIN a = DOMAIN b,
           \A f \in DOMAIN a : a[f].value = b[f].value
    PROVE  a = b
<1>1. ASSUME NEW f \in DOMAIN a
      PROVE  a[f] = b[f]
  <2>1. a[f] = Exact(a[f].value) /\ b[f] = Exact(b[f].value) /\ a[f].value = b[f].value
    BY ZenonT(60), ExactIs
  <2> QED
    BY <2>1
<1>2. a = [f \in DOMAIN a |-> a[f]] /\ b = [f \in DOMAIN b |-> b[f]]
    BY DEF ExactMatches, MatchesOver
<1> QED
    BY <1>1, <1>2

\* Without masks the non-strict comparison asks for the fields of a in b.
LEMMA ExactNonstrict ==
    ASSUME NEW a \in ExactMatches, NEW b \in ExactMatches
    PROVE  match_std_nonstrict(a, b)
           <=> DOMAIN a \subseteq DOMAIN b /\ \A f \in DOMAIN a : a[f].value = b[f].value
    BY ZenonT(60), ExactIs DEF match_std_nonstrict, oxm_match_lookup

\* Without masks the strict comparison is equality.
LEMMA ExactStrict ==
    ASSUME IsFiniteSet(Fields), NEW a \in ExactMatches, NEW b \in ExactMatches
    PROVE  match_std_strict(a, b) <=> a = b
<1>1. /\ DOMAIN a \subseteq Fields /\ DOMAIN b \subseteq Fields
      /\ {f \in DOMAIN a : a[f].has_mask} = {} /\ {f \in DOMAIN b : b[f].has_mask} = {}
    BY ZenonT(60), ExactIs
<1>2. IsFiniteSet(DOMAIN a) /\ IsFiniteSet(DOMAIN b)
    BY <1>1, FS_Subset
<1>3. Cardinality(DOMAIN a) \in Nat /\ Cardinality(DOMAIN b) \in Nat /\ Cardinality({}) = 0
    BY <1>2, FS_CardinalityType, FS_EmptySet
<1>4. Length(a) = Cardinality(DOMAIN a) /\ Length(b) = Cardinality(DOMAIN b)
    BY <1>1, <1>3 DEF Length
<1>5. ASSUME match_std_strict(a, b) PROVE a = b
  <2>1. /\ Cardinality(DOMAIN a) = Cardinality(DOMAIN b)
        /\ \A f \in DOMAIN a : f \in DOMAIN b /\ a[f].value = b[f].value
    BY ZenonT(60), <1>4, <1>5, ExactIs DEF match_std_strict, oxm_match_lookup
  <2>2. DOMAIN a \subseteq DOMAIN b
    BY <2>1
  <2>3. DOMAIN a = DOMAIN b
    BY <1>2, <2>1, <2>2, FS_Subset
  <2> QED
    BY <2>1, <2>3, ExactSame
<1>6. match_std_strict(a, a)
    BY ZenonT(60), ExactIs DEF match_std_strict, oxm_match_lookup
<1> QED
    BY <1>5, <1>6

\* The packet that has just the fields of a match, with its values.
PacketOf(m) == [f \in DOMAIN m |-> m[f].value]

\* Without masks a packet is accepted when it has the fields and values.
LEMMA ExactAccepts ==
    ASSUME NEW a \in ExactMatches, NEW pkt \in MatchPackets
    PROVE  packet_match(a, pkt) <=> DOMAIN a \subseteq DOMAIN pkt /\ \A f \in DOMAIN a : pkt[f] = a[f].value
<1>1. PICK F \in SUBSET Fields : pkt \in [F -> SUBSET Bits]
    BY DEF MatchPackets
<1>2. DOMAIN pkt = F /\ \A f \in F : pkt[f] \subseteq Bits
    BY <1>1
<1>3. ASSUME NEW f \in DOMAIN a, f \in F
      PROVE  match_mask(a[f].value, a[f].mask, pkt[f]) <=> pkt[f] = a[f].value
  <2>1. a[f].value \subseteq Bits /\ a[f].mask = Bits /\ pkt[f] \subseteq Bits
    BY ZenonT(60), <1>2, <1>3, ExactIs
  <2> QED
    BY <2>1, ZenonT(60) DEF match_mask, Xor
<1> QED
    BY <1>2, <1>3 DEF packet_match

\* For matches without masks, whatever the fields are: the strict and the non-strict
\* comparison of match_std.c mean what their comments say, and match_std_overlap finds
\* a common packet of what it compares, which leaves out the fields of three bytes.
THEOREM ComparisonsHold ==
    ASSUME IsFiniteSet(Fields), Compared \subseteq ExactMatches
    PROVE  MatchInit => ComparisonsAreExact
<1> SUFFICES ASSUME MatchInit, NEW a \in ExactMatches, NEW b \in ExactMatches,
                    a = pair[1], b = pair[2]
             PROVE  /\ match_std_strict(a, b) <=> Accepts(a) = Accepts(b)
                    /\ match_std_nonstrict(a, b) <=> Accepts(b) \subseteq Accepts(a)
                    /\ match_std_overlap(a, b) <=> Accepts(Compares(a)) \cap Accepts(Compares(b)) # {}
    BY DEF MatchInit, ComparisonsAreExact
<1>1. ASSUME NEW c \in ExactMatches
      PROVE  /\ PacketOf(c) \in MatchPackets /\ DOMAIN PacketOf(c) = DOMAIN c
             /\ \A f \in DOMAIN c : PacketOf(c)[f] = c[f].value
             /\ PacketOf(c) \in Accepts(c)
  <2>1. PacketOf(c) \in [DOMAIN c -> SUBSET Bits] /\ DOMAIN c \in SUBSET Fields
    BY ZenonT(60), ExactIs DEF PacketOf
  <2>2. PacketOf(c) \in MatchPackets
    BY <2>1 DEF MatchPackets
  <2>3. DOMAIN PacketOf(c) = DOMAIN c /\ \A f \in DOMAIN c : PacketOf(c)[f] = c[f].value
    BY DEF PacketOf
  <2>4. packet_match(c, PacketOf(c))
    BY <2>2, <2>3, ExactAccepts
  <2> QED
    BY <2>2, <2>3, <2>4 DEF Accepts
<1>2. ASSUME NEW c \in ExactMatches, NEW d \in ExactMatches
      PROVE  match_std_nonstrict(c, d) <=> Accepts(d) \subseteq Accepts(c)
  <2>1. ASSUME match_std_nonstrict(c, d), NEW pkt \in Accepts(d) PROVE pkt \in Accepts(c)
    <3>1. pkt \in MatchPackets /\ packet_match(d, pkt)
      BY <2>1 DEF Accepts
    <3>2. DOMAIN d \subseteq DOMAIN pkt /\ \A f \in DOMAIN d : pkt[f] = d[f].value
      BY <3>1, ExactAccepts
    <3>3. DOMAIN c \subseteq DOMAIN d /\ \A f \in DOMAIN c : c[f].value = d[f].value
      BY <2>1, ExactNonstrict
    <3>4. packet_match(c, pkt)
      BY <3>1, <3>2, <3>3, ExactAccepts
    <3> QED
      BY <3>1, <3>4 DEF Accepts
  <2>2. ASSUME Accepts(d) \subseteq Accepts(c) PROVE match_std_nonstrict(c, d)
    <3>1. PacketOf(d) \in MatchPackets /\ packet_match(c, PacketOf(d))
      BY <1>1, <2>2 DEF Accepts
    <3>2. DOMAIN c \subseteq DOMAIN PacketOf(d) /\ \A f \in DOMAIN c : PacketOf(d)[f] = c[f].value
      BY <3>1, ExactAccepts
    <3>3. DOMAIN c \subseteq DOMAIN d /\ \A f \in DOMAIN c : c[f].value = d[f].value
      BY <1>1, <3>2
    <3> QED
      BY <3>3, ExactNonstrict
  <2> QED
    BY <2>1, <2>2
<1>3. match_std_strict(a, b) <=> Accepts(a) = Accepts(b)
  <2>1. match_std_strict(a, b) <=> a = b
    BY ExactStrict
  <2>2. ASSUME Accepts(a) = Accepts(b) PROVE a = b
    <3>1. match_std_nonstrict(a, b) /\ match_std_nonstrict(b, a)
      BY <1>2, <2>2
    <3>2. DOMAIN a = DOMAIN b /\ \A f \in DOMAIN a : a[f].value = b[f].value
      BY ZenonT(60), <3>1, ExactNonstrict
    <3> QED
      BY <3>2, ExactSame
  <2> QED
    BY <2>1, <2>2
<1>4. match_std_overlap(a, b) <=>
          \A f \in (DOMAIN a \cap DOMAIN b) \ ThreeBytes : a[f].value = b[f].value
  <2>1. ASSUME NEW f \in DOMAIN a \cap DOMAIN b
        PROVE  incompatible(a[f], b[f]) <=> a[f].value # b[f].value
    <3>1. a[f].value \subseteq Bits /\ b[f].value \subseteq Bits /\ a[f].mask = Bits /\ b[f].mask = Bits
      BY ZenonT(60), ExactIs
    <3>2. a[f].mask \cap a[f].value = a[f].value /\ b[f].mask \cap b[f].value = b[f].value
      BY <3>1
    <3>3. Xor(a[f].value, b[f].value) # {} <=> a[f].value # b[f].value
      BY ZenonT(60) DEF Xor
    <3> QED
      BY ZenonT(60), <3>2, <3>3 DEF incompatible
  <2> QED
    BY ZenonT(60), <2>1 DEF match_std_overlap
<1>5. ASSUME NEW c \in ExactMatches, NEW d \in ExactMatches,
             \A f \in DOMAIN c \cap DOMAIN d : c[f].value = d[f].value
      PROVE  Accepts(c) \cap Accepts(d) # {}
  <2> DEFINE pkt == [f \in DOMAIN c \cup DOMAIN d |-> IF f \in DOMAIN c THEN c[f].value ELSE d[f].value]
  <2>1. pkt \in [DOMAIN c \cup DOMAIN d -> SUBSET Bits] /\ (DOMAIN c \cup DOMAIN d) \in SUBSET Fields
    BY ZenonT(60), ExactIs
  <2>2. pkt \in MatchPackets
    BY ZenonT(60), <2>1 DEF MatchPackets
  <2>3. /\ DOMAIN c \subseteq DOMAIN pkt /\ \A f \in DOMAIN c : pkt[f] = c[f].value
        /\ DOMAIN d \subseteq DOMAIN pkt /\ \A f \in DOMAIN d : pkt[f] = d[f].value
    BY ZenonT(60), <1>5
  <2> HIDE DEF pkt
  <2>4. packet_match(c, pkt) /\ packet_match(d, pkt)
    BY <2>2, <2>3, ExactAccepts
  <2> QED
    BY <2>2, <2>4 DEF Accepts
<1>6. ASSUME NEW c \in ExactMatches, NEW d \in ExactMatches,
             NEW pkt \in Accepts(c) \cap Accepts(d), NEW f \in DOMAIN c \cap DOMAIN d
      PROVE  c[f].value = d[f].value
  <2>1. pkt \in MatchPackets /\ packet_match(c, pkt) /\ packet_match(d, pkt)
    BY <1>6 DEF Accepts
  <2> QED
    BY <2>1, ExactAccepts
<1>7. ASSUME NEW c \in ExactMatches
      PROVE  /\ Compares(c) \in ExactMatches /\ DOMAIN Compares(c) = DOMAIN c \ ThreeBytes
             /\ \A f \in DOMAIN c \ ThreeBytes : Compares(c)[f] = c[f]
  <2>1. PICK F \in SUBSET Fields : c \in [F -> {Exact(v) : v \in SUBSET Bits}]
    BY DEF ExactMatches, MatchesOver
  <2>2. Compares(c) \in [F \ ThreeBytes -> {Exact(v) : v \in SUBSET Bits}]
    BY ZenonT(60), <2>1 DEF Compares
  <2>3. F \ ThreeBytes \in SUBSET Fields
    BY <2>1
  <2>4. Compares(c) \in ExactMatches
    BY ZenonT(60), <2>2, <2>3 DEF ExactMatches, MatchesOver
  <2> QED
    BY ZenonT(60), <2>4 DEF Compares
<1>8. match_std_overlap(a, b) <=> Accepts(Compares(a)) \cap Accepts(Compares(b)) # {}
  <2> DEFINE c == Compares(a)
             d == Compares(b)
  <2>1. /\ c \in ExactMatches /\ d \in ExactMatches
        /\ DOMAIN c = DOMAIN a \ ThreeBytes /\ DOMAIN d = DOMAIN b \ ThreeBytes
        /\ \A f \in DOMAIN a \ ThreeBytes : c[f] = a[f]
        /\ \A f \in DOMAIN b \ ThreeBytes : d[f] = b[f]
    BY ZenonT(60), <1>7
  <2> HIDE DEF c, d
  <2>2. match_std_overlap(a, b) <=> \A f \in DOMAIN c \cap DOMAIN d : c[f].value = d[f].value
    BY ZenonT(60), <1>4, <2>1
  <2>3. (\A f \in DOMAIN c \cap DOMAIN d : c[f].value = d[f].value) => Accepts(c) \cap Accepts(d) # {}
    BY ZenonT(60), <1>5, <2>1
  <2>4. Accepts(c) \cap Accepts(d) # {} => \A f \in DOMAIN c \cap DOMAIN d : c[f].value = d[f].value
    BY ZenonT(60), <1>6, <2>1
  <2>5. match_std_overlap(a, b) <=> Accepts(c) \cap Accepts(d) # {}
    BY <2>2, <2>3, <2>4
  <2> QED
    BY <2>5 DEF c, d
<1> QED
    BY <1>2, <1>3, <1>8

=============================================================================
