------------------------------ MODULE MCPipeline ------------------------------
(* Instances of Pipeline for TLC.  Record r is one of the only client, about    *)
(* fruit r, and fruit 2 goes to the last aggregation.                           *)
EXTENDS Pipeline, TLC

CONSTANTS s1, s2, c1

MCClientOf == [r \in Records |-> c1]
MCFruitOf == [r \in Records |-> r]
MCUnits == [r \in Records |-> 2]
MCTargetAggregation == [f \in Fruits |-> IF f = 2 THEN AGGREGATION_AMOUNT - 1 ELSE 0]

=============================================================================
