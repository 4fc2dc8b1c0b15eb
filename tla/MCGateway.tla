------------------------------ MODULE MCGateway ------------------------------
(* Instances of Gateway for TLC.                                               *)
EXTENDS Gateway

CONSTANTS c1, c2, former

\* The first client has two records, the second one has one.
MCUploadSize == [c \in Clients |-> IF c = c1 THEN 2 ELSE 1]

=============================================================================
