------------------------- MODULE MCAggregationFilter -------------------------
(* Instances of AggregationFilter for TLC.  Fruits 1 and 3 go to aggregation   *)
(* 0 and fruit 2 to the last one.  The first Sum has the two fruits of         *)
(* aggregation 0 with equal amounts, so that only the names order them; the    *)
(* second one makes fruit 1 the greater.                                       *)
EXTENDS AggregationFilter, TLC

CONSTANTS s1, s2, c1, c2

MCTargetAggregation == [f \in Fruits |-> IF f = 2 THEN AGGREGATION_AMOUNT - 1 ELSE 0]

MCUploaded ==
    [s \in Sums |-> [c \in Clients |->
        IF s = s1 THEN (1 :> 2 @@ 3 :> 2)
        ELSE IF c = c1 THEN (1 :> 1 @@ 2 :> 1) ELSE NoFruits]]

=============================================================================
