---------------------------- MODULE MCJoinFilter ----------------------------
(* Instances of JoinFilter for TLC.  Fruits 1 and 2 have the same amount and    *)
(* come from different aggregations; the second client has fruits in one only.  *)
EXTENDS JoinFilter, TLC

CONSTANTS c1, c2

MCPartialTop ==
    [a \in Aggs |-> [c \in Clients |->
        IF a = 0 THEN 2 :> 2 ELSE IF c = c1 THEN 1 :> 2 @@ 3 :> 1 ELSE NoFruits]]

=============================================================================
