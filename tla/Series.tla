------------------------------- MODULE Series -------------------------------
(***************************************************************************)
(* Sorting, choosing and summing along a sequence.  The library sorts and  *)
(* selects as well, by operators without a definition to reason from.      *)
(***************************************************************************)
EXTENDS Integers, Sequences, FiniteSets

\* The members of S one after the other, under a strict total order R on them.
InLine(S, R) ==
    LET ranked == {[rank |-> Cardinality({j \in S : <<j, i>> \in R}), elem |-> i] : i \in S}
    IN  [k \in 1..Cardinality(S) |-> (CHOOSE r \in ranked : r.rank = k - 1).elem]

\* The elements of s at the places in S, in their order.
Chosen(s, S) ==
    LET some[k \in 0..Len(s)] ==
            IF k = 0 THEN <<>>
            ELSE IF k \in S THEN Append(some[k - 1], s[k]) ELSE some[k - 1]
    IN  some[Len(s)]

\* The elements of two sequences of one length by turns.
InPairs(s, t) ==
    [k \in 1..2 * Len(s) |-> IF k % 2 = 1 THEN s[(k + 1) \div 2] ELSE t[k \div 2]]

\* The sums of the amounts up to each place.
Sums(amounts) ==
    LET sum[k \in 0..Len(amounts)] == IF k = 0 THEN 0 ELSE sum[k - 1] + amounts[k]
    IN  sum
Total(amounts) == Sums(amounts)[Len(amounts)]
=============================================================================
