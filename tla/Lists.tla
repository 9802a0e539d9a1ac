------------------------------- MODULE Lists --------------------------------
(***************************************************************************)
(* What the walks through linked lists of the datapath do: the first       *)
(* element that fits is found, elements are unlinked and linked in.        *)
(***************************************************************************)
EXTENDS Integers, Sequences, FiniteSets

\* The smallest index of a set of indices, 0 when there is none.
First(I) == IF I = {} THEN 0 ELSE CHOOSE i \in I : \A j \in I : i <= j

\* What is left of t without the elements whose indices are in gone.
Without(t, gone) ==
    LET kept == (1 .. Len(t)) \ gone
        nth(n) == CHOOSE i \in kept : Cardinality({j \in kept : j <= i}) = n
    IN  [n \in 1 .. Cardinality(kept) |-> t[nth(n)]]

\* The list t when x is linked in at place k.
Linked(t, k, x) == SubSeq(t, 1, k - 1) \o <<x>> \o SubSeq(t, k, Len(t))

\* The list t when the elements in R are unlinked.
Unlisted(t, R) == Without(t, {k \in 1 .. Len(t) : t[k] \in R})

\* The list t when x takes the place of the element at k.
Replaced(t, k, x) == [t EXCEPT ![k] = x]

\* One for each of the n[x] parts of every x: what the sum of the n[x] counts.
Numbered(n) == UNION {{x} \X (1 .. n[x]) : x \in DOMAIN n}
=============================================================================
