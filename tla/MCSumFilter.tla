----------------------------- MODULE MCSumFilter -----------------------------
(* Instances of SumFilter for TLC: records are numbers, and the tables that   *)
(* say what a record is are functions over them.                              *)
EXTENDS SumFilter, TLC

CONSTANTS s1, s2, c1, c2, apple, pear

\* The second client uploads record 3, the first one the others: record 2 is
\* about pears and the rest about apples.
MCClientOf == [r \in Records |-> IF r = 3 THEN c2 ELSE c1]
MCFruitOf == [r \in Records |-> IF r = 2 THEN pear ELSE apple]

\* apple goes to aggregation 0, pear to the last one.
MCTargetAggregation ==
    [f \in Fruits |-> IF f = apple THEN 0 ELSE AGGREGATION_AMOUNT - 1]

\* The Sums are interchangeable (safety only).
Symmetry == Permutations({s1, s2})

=============================================================================
