----------------------------- MODULE MeterBands -----------------------------
(***************************************************************************)
(* The token buckets of a meter's bands (udatapath/meter_entry.c).  What a *)
(* chosen band does with the packet (drop it, mark it) is left out.        *)
(***************************************************************************)
EXTENDS Integers, FiniteSets

CONSTANTS
    Bands,        \* the bands
    Configs,      \* of a meter: its flags, and the rate and burst_size of its bands
    Sizes,        \* of packets, in bits
    Kilo,         \* 1000
    Word,         \* 2^32: rate and burst_size are 32 bits wide
    Elapsed,      \* milliseconds between two calls of refill_bucket
    MaxOffered,   \* bits sent in a second
    NO_BAND

ASSUME BandsAssumption ==
    /\ IsFiniteSet(Bands)
    /\ {Kilo, Word, MaxOffered} \subseteq Nat \ {0}
    /\ Sizes \cup Elapsed \subseteq Nat \ {0}

VARIABLES
    config,
    tokens,      \* of every band
    chosen,      \* the band of the last packet
    refilled,    \* has refill_bucket been called?
    offered,     \* what was offered since it was called,
    passed       \* and what of it each band let pass

bandVars == <<config, tokens, chosen, refilled, offered, passed>>

BandInit ==
    /\ config \in Configs
    /\ tokens = [b \in Bands |-> 0]
    /\ chosen = NO_BAND /\ refilled = FALSE
    /\ offered = 0 /\ passed = [b \in Bands |-> 0]

\* What a packet takes from a bucket; a meter has one of the two flags.
Price(size) == IF "KBPS" \in config.flags THEN size ELSE Kilo

\* Mutant: the last token is kept.
ConsumeMore(b, size) == tokens[b] > Price(size)

\* consume_tokens: does it?
consume_tokens(b, size) == tokens[b] >= Price(size)

Failing(size) == {b \in Bands : ~consume_tokens(b, size) /\ config.rate[b] > 0}

choose_band(size) ==
    IF Failing(size) = {} THEN {NO_BAND}
    ELSE {b \in Failing(size) : \A c \in Failing(size) : config.rate[c] <= config.rate[b]}

meter_entry_apply(size) ==
    /\ offered + Price(size) <= MaxOffered
    /\ chosen' \in choose_band(size)
    /\ tokens' = [b \in Bands |-> IF consume_tokens(b, size) THEN tokens[b] - Price(size) ELSE tokens[b]]
    /\ passed' = [b \in Bands |-> IF consume_tokens(b, size) THEN passed[b] + Price(size) ELSE passed[b]]
    /\ offered' = offered + Price(size)
    /\ UNCHANGED <<config, refilled>>

Limit(b) == ((IF "BURST" \in config.flags THEN config.burst_size[b] ELSE config.rate[b]) * Kilo) % Word

\* The tokens band b gets for some milliseconds.
Refill(b, ms) == ms * ((config.rate[b] * Kilo) % Word) + tokens[b]

\* What refill_bucket leaves in the bucket of b.
Refilled(b, ms) ==
    IF Refill(b, ms) < (IF "KBPS" \in config.flags THEN 1 ELSE Kilo) THEN tokens[b]
    ELSE IF Refill(b, ms) < Limit(b) THEN Refill(b, ms) ELSE Limit(b)

refill_bucket(ms) ==
    /\ tokens' = [b \in Bands |-> Refilled(b, ms)]
    /\ refilled' = TRUE /\ chosen' = NO_BAND
    /\ offered' = 0 /\ passed' = [b \in Bands |-> 0]
    /\ UNCHANGED config

BandNext ==
    \/ \E size \in Sizes : meter_entry_apply(size)
    \/ \E ms \in Elapsed : refill_bucket(ms)

-----------------------------------------------------------------------------

\* In a second no band lets more pass than its limit.  Once the buckets were
\* filled, a band is only chosen when more than its rate (or its burst, if that
\* is less) was sent in the second: also when the packets before it were over
\* the rate of another band.  Rates fit in 32 bits.
RatesAreKept ==
    LET Fits(b) == config.rate[b] * Kilo < Word /\ config.burst_size[b] * Kilo < Word
    IN  /\ \A b \in Bands : passed[b] <= Limit(b)
        /\ refilled /\ chosen # NO_BAND /\ Fits(chosen) =>
              \/ offered > config.rate[chosen] * Kilo
              \/ offered > Limit(chosen)
=============================================================================
