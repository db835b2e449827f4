------------------------------ MODULE Arrangements ------------------------------
(***************************************************************************)
(* Lists that are filtered and sorted, by Array.prototype and by the       *)
(* database.  A place of the list comes where as many others come before   *)
(* it: said by counting, without recursion, so that it can be proved       *)
(* about.                                                                  *)
(***************************************************************************)
EXTENDS Naturals, Sequences, FiniteSets

\* What the list has at these places, in the strict order before.
Rank(places, before, i) == Cardinality({j \in places : <<j, i>> \in before})
Arranged(list, places, before) ==
    [k \in 1 .. Cardinality(places) |->
        list[CHOOSE i \in places : Rank(places, before, i) = k - 1]]

\* In the order it has in the list, which a stable sort keeps among equals.
Earlier(list) == {pair \in (DOMAIN list) \X (DOMAIN list) : pair[1] < pair[2]}
Filtered(list, places) == Arranged(list, places, Earlier(list))

FirstOf(list, n) == SubSeq(list, 1, IF Len(list) < n THEN Len(list) ELSE n)
=============================================================================
