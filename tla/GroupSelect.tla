----------------------------- MODULE GroupSelect -----------------------------
(***************************************************************************)
(* How a group of type SELECT chooses a bucket: the weighted round robin   *)
(* of udatapath/group_entry.c.  Buckets are numbered from 0 as there.      *)
(***************************************************************************)
EXTENDS Integers, FiniteSets, FiniteSetsExt

CONSTANTS MaxBuckets, MaxWeight

ASSUME SelectAssumption == {MaxBuckets, MaxWeight} \subseteq Nat

VARIABLES
    weight,                      \* of the buckets
    curr_weight, curr_bucket,    \* group_entry_wrr_data
    selected,                    \* what the last selection returned
    counts,                      \* how often each was selected in this round,
    round                        \* and in the round before, if there was one

selectVars == <<weight, curr_weight, curr_bucket, selected, counts, round>>

desc_buckets_num == Cardinality(DOMAIN weight)

Weights == UNION {[0 .. n - 1 -> 0 .. MaxWeight] : n \in 0 .. MaxBuckets}

NoRound == [b \in {} |-> 0]

\* group_entry_create, init_select_group.  curr_bucket is unsigned: -1 + 1 is 0.
SelectInit ==
    /\ weight \in Weights
    /\ curr_weight = 0 /\ curr_bucket = -1 /\ selected = -1
    /\ counts = [b \in DOMAIN weight |-> 0] /\ round = NoRound

\* Euclid's algorithm.
gcd[a \in 0 .. MaxWeight, b \in 0 .. MaxWeight] == IF a = 0 THEN b ELSE gcd[b % a, a]

gcd_weight ==
    LET upto[i \in DOMAIN weight] == IF i = 0 THEN weight[0] ELSE gcd[upto[i - 1], weight[i]]
    IN  upto[desc_buckets_num - 1]

max_weight == Max({weight[b] : b \in DOMAIN weight})

\* Mutant: the weight starts again one step early.
NextWeightEarly(w) == IF w <= 2 * gcd_weight THEN max_weight ELSE w - gcd_weight

\* The weight when bucket 0 has its turn again.
NextWeight(w) == IF w <= gcd_weight THEN max_weight ELSE w - gcd_weight

\* The loop has looked at guard buckets: at all of them?
Stops(guard) == guard = desc_buckets_num

\* The loop of select_from_select_group: the bucket (-1 if none), where it stops.
Scan ==
    LET scan[b \in -1 .. desc_buckets_num - 1, w \in 0 .. MaxWeight, guard \in 0 .. desc_buckets_num] ==
            LET next == (b + 1) % desc_buckets_num
                nw   == IF next = 0 THEN NextWeight(w) ELSE w
            IN  IF Stops(guard) THEN [found |-> -1, bucket |-> b, weight |-> w]
                ELSE IF weight[next] >= nw THEN [found |-> next, bucket |-> next, weight |-> nw]
                ELSE scan[next, nw, guard + 1]
    IN  scan[curr_bucket, curr_weight, 0]

\* A round starts when the weight is set to the greatest one.
select_from_select_group ==
    /\ desc_buckets_num # 0
    /\ LET s == Scan
           starts == s.bucket <= curr_bucket /\ s.weight = max_weight
                     /\ NextWeight(curr_weight) = max_weight
           before == IF starts THEN [b \in DOMAIN weight |-> 0] ELSE counts
       IN  /\ selected' = s.found
           /\ curr_bucket' = s.bucket
           /\ curr_weight' = s.weight
           /\ counts' = IF s.found = -1 THEN before ELSE [before EXCEPT ![s.found] = @ + 1]
           /\ round' = IF starts THEN counts ELSE round
    /\ UNCHANGED weight

SelectNext == select_from_select_group

SelectSpec == SelectInit /\ [][SelectNext]_selectVars

-----------------------------------------------------------------------------

\* The loop, which stops after it has looked at every bucket once, always finds
\* one ("Could not select from select group." is never logged), and in every
\* round a bucket is selected in proportion to its weight.
RoundIsProportional ==
    /\ curr_bucket # -1 => selected # -1
    /\ round # NoRound /\ gcd_weight # 0 =>
          \A b \in DOMAIN weight : round[b] * gcd_weight = weight[b]
=============================================================================
