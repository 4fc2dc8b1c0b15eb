---------------------------- MODULE UploadService ----------------------------
(***************************************************************************)
(* What the Sums, the aggregations and the join promise together to a      *)
(* client that uploads records: after the end of its records one answer,   *)
(* the top of the totals of what it uploaded, of which at most MaxLost     *)
(* records may be missing.                                                 *)
(***************************************************************************)
EXTENDS FruitTop, Sequences

CONSTANTS
    Clients, Records, ClientOf, FruitOf,
    AmountOf,       \* the amount of a record
    MaxLost

VARIABLES uploaded, closed, answer

vars == <<uploaded, closed, answer>>

\* The totals of a set of records, fruit by fruit.
Totals(S) ==
    [f \in {FruitOf[r] : r \in S} |->
        SumFunction([r \in {q \in S : FruitOf[q] = f} |-> AmountOf[r]])]

Init == uploaded = {} /\ closed = {} /\ answer = [c \in Clients |-> <<>>]

Upload(r) ==
    /\ ClientOf[r] \notin closed
    /\ uploaded' = uploaded \cup {r}
    /\ UNCHANGED <<closed, answer>>

Close(c) ==
    /\ closed' = closed \cup {c}
    /\ UNCHANGED <<uploaded, answer>>

Answer(c) ==
    /\ c \in closed
    /\ answer[c] = <<>>
    /\ \E lost \in SUBSET {r \in uploaded : ClientOf[r] = c} :
         /\ Cardinality(lost) <= MaxLost
         /\ answer' = [answer EXCEPT ![c] =
                          <<TopOf(Totals({r \in uploaded \ lost : ClientOf[r] = c}))>>]
    /\ UNCHANGED <<uploaded, closed>>

Next ==
    \/ \E r \in Records : Upload(r)
    \/ \E c \in Clients : Close(c) \/ Answer(c)

Fairness == \A c \in Clients : WF_vars(Answer(c))

Spec == Init /\ [][Next]_vars /\ Fairness

=============================================================================
