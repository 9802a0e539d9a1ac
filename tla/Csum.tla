-------------------------------- MODULE Csum --------------------------------
(***************************************************************************)
(* Internet checksums (lib/csum.c) and how the set-field and TTL actions   *)
(* keep them right: a field of a packet is overwritten and its checksum is *)
(* corrected from the old and the new value of the field.                  *)
(*                                                                         *)
(* A word has WordBits bits instead of 16; longer fields are two or four   *)
(* words, as sequences, the low-order word first.  (recalc_csum128 is two  *)
(* times recalc_csum64, as recalc_csum64 is two times recalc_csum32.)      *)
(***************************************************************************)
EXTENDS Integers, Sequences, SequencesExt

CONSTANTS
    WordBits,     \* 16
    PacketWords,  \* words that a packet's checksum covers
    FieldSizes,   \* sizes, in words, of the fields that are overwritten
    Senders       \* "switch": its own packets; "host": packets that pass through

ASSUME CsumConstants ==
    /\ {WordBits, PacketWords} \subseteq Nat \ {0}
    /\ FieldSizes \subseteq {1, 2, 4} /\ Senders \subseteq {"host", "switch"}

VARIABLES
    packet,    \* the words
    checksum   \* its checksum field

csumVars == <<packet, checksum>>

WordValues == 2 ^ WordBits

Word == 0..(WordValues - 1)

Complement(x) == WordValues - 1 - x

Low(x) == x % WordValues
High(x) == x \div WordValues

csum_add16(partial, new) == partial + new

csum_continue(data) == FoldLeft(csum_add16, 0, data)

\* Whether adding the carry of a sum to it gives a carry again.
LosesCarry(sum) == Low(sum) + High(sum) >= WordValues

\* The carry is added once, and the sum is then cut to a word.
Folded(sum) == Low(Low(sum) + High(sum))

\* A checksum is kept with the note whether a carry was lost on its way.
csum_finish(partial) == [value |-> Complement(Folded(partial)), lost |-> LosesCarry(partial)]

csum(data) == csum_finish(csum_continue(data))

\* Mutant: the old value is added where it should be subtracted.
RecalcAddsOld(c, old, new) ==
    LET sum == Complement(c.value) + old + new
    IN  [value |-> Complement(Folded(sum)), lost |-> c.lost \/ LosesCarry(sum)]

recalc_csum16(c, old, new) ==
    LET sum == Complement(c.value) + Complement(old) + new
    IN  [value |-> Complement(Folded(sum)), lost |-> c.lost \/ LosesCarry(sum)]

recalc_csum32(c, old, new) ==
    recalc_csum16(recalc_csum16(c, old[1], new[1]), old[2], new[2])

recalc_csum64(c, old, new) ==
    recalc_csum32(recalc_csum32(c, SubSeq(old, 1, 2), SubSeq(new, 1, 2)),
                  SubSeq(old, 3, 4), SubSeq(new, 3, 4))

Recalculated(c, old, new) ==
    CASE Len(old) = 1 -> recalc_csum16(c, old[1], new[1])
      [] Len(old) = 2 -> recalc_csum32(c, old, new)
      [] OTHER -> recalc_csum64(c, old, new)

-----------------------------------------------------------------------------

RECURSIVE FoldAll(_)
FoldAll(sum) == IF sum < WordValues THEN sum ELSE FoldAll(Low(sum) + High(sum))

\* What the receiver of a packet tests.
Verifies(data, value) == FoldAll(csum_continue(data) + value) = WordValues - 1

\* The first word holds a version or a protocol number: it is not zero and stays.
\* One value stands for it.
CsumInit ==
    /\ packet \in {p \in [1..PacketWords -> Word] : p[1] = 1}
    /\ \E sender \in Senders :
         checksum = IF sender = "switch" THEN csum(packet)
                    ELSE [value |-> CHOOSE v \in Word : Verifies(packet, v), lost |-> FALSE]

\* An action overwrites the n words from the i-th on.
Overwrite(i, n, new) ==
    /\ packet' = [k \in DOMAIN packet |->
                  IF k \in i..(i + n - 1) THEN new[k - i + 1] ELSE packet[k]]
    /\ checksum' = Recalculated(checksum, SubSeq(packet, i, i + n - 1), new)

CsumNext == \E n \in FieldSizes : \E i \in 2..(PacketWords - n + 1), new \in [1..n -> Word] :
                Overwrite(i, n, new)

CsumSpec == CsumInit /\ [][CsumNext]_csumVars

-----------------------------------------------------------------------------
(* Properties. *)

\* "Returns the new checksum for a packet in which the checksum field previously
\* contained 'old_csum' and in which a field that contained 'old_u16' was changed
\* to contain 'new_u16'." (csum.c): after any number of changes the receiver
\* accepts the checksum.
ChecksumRecalculated == Verifies(packet, checksum.value)

\* The checksum is right after any number of changes of fields of all sizes, but
\* for the one case in which csum_finish or recalc_csum16 adds a carry and drops
\* the carry of that addition.
WrongOnlyByCarry == checksum.lost \/ Verifies(packet, checksum.value)
=============================================================================
