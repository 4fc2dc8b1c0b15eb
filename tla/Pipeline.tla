------------------------------- MODULE Pipeline -------------------------------
(***************************************************************************)
(* The Sums, the aggregations and the join together, from INPUT_QUEUE to    *)
(* the queue of final tops: the partial sums and EOFs that SumFilter sends  *)
(* are the ones AggregationFilter takes, and its partial tops and signals   *)
(* are the ones JoinFilter takes.  The three implement UploadService.       *)
(* Nothing fails: the failures are in the modules of the parts.             *)
(***************************************************************************)
EXTENDS Sequences, Middleware, FruitTop

CONSTANTS
    Sums, Clients, Records, AGGREGATION_AMOUNT, ClientOf, FruitOf, TargetAggregation,
    Units       \* the amount of each record

ASSUME PipelineAssumption ==
    /\ AGGREGATION_AMOUNT \in Nat \ {0}
    /\ IsFiniteSet(Sums) /\ Sums # {}
    /\ IsFiniteSet(Records) /\ Units \in [Records -> Nat]
    /\ ClientOf \in [Records -> Clients]
    /\ FruitOf \in [Records -> Fruits]
    /\ TargetAggregation \in [Fruits -> 0 .. (AGGREGATION_AMOUNT - 1)]

VARIABLES
    \* of SumFilter
    published, eofSent, pending, eofReady, ctrlQueue, consumer, pc, data, eof, amounts,
    active, finalizing, finished, snap, left, nextAgg, sent, dataLink, ctrlLink, dropped,
    faults, nacks,
    \* of AggregationFilter
    inbox, aggConsumer, aggPc, aggEof, fruitTop, sumsReceived, receivedPartialSums,
    receivedEofs, completed, topping, payload, outLink, coordLink,
    \* between AggregationFilter and JoinFilter
    joinQueue, coordQueue,
    \* of JoinFilter
    inputUp, coordUp, resultLink, partialTops, answered, sending, aggsFinished, ready,
    monitor, toSend, current, finalTop, results

sumVars == <<published, eofSent, pending, eofReady, ctrlQueue, consumer, pc, data, eof,
             amounts, active, finalizing, finished, snap, left, nextAgg, sent, dataLink,
             ctrlLink, dropped, faults, nacks>>
aggVars == <<aggConsumer, aggPc, aggEof, fruitTop, sumsReceived, receivedPartialSums,
             receivedEofs, completed, topping, payload, outLink, coordLink>>
topVars == <<joinQueue, coordQueue>>
joinVars == <<inputUp, coordUp, resultLink, partialTops, answered, sending, aggsFinished,
              ready, monitor, toSend, current, finalTop, results>>
vars == <<sumVars, inbox, aggVars, topVars, joinVars>>

Aggs == 0 .. (AGGREGATION_AMOUNT - 1)

Sum == INSTANCE SumFilter WITH
    LateSums <- {}, Breakable <- {}, MaxFaults <- 0, MaxNacks <- 0

\* AggregationFilter's reduced Sums are not used: the variables that describe them
\* are constant here.
Aggregation == INSTANCE AggregationFilter WITH
    consumer <- aggConsumer, pc <- aggPc, eof <- aggEof, finalizing <- topping,
    Uploaded <- {}, LateAggs <- {}, Breakable <- {}, MaxFaults <- 0, MaxResends <- 0,
    faults <- 0, offered <- {}, left <- {}, nextAgg <- {}, first <- {}, promised <- {},
    resends <- 0

\* Nor are JoinFilter's aggregations.
Join == INSTANCE JoinFilter WITH
    completed <- answered, finalizing <- sending, payload <- finalTop,
    outLink <- resultLink, PartialTop <- {}, Breakable <- {}, MaxFaults <- 0,
    faults <- 0, aggregation <- {}

Init == Sum!Init /\ Aggregation!AggInit /\ Join!JoinInit

\* A message of a Sum on its way: the records of an amount are added up.
AddedUp(bag) == SumFunction([r \in Records |-> bag[r] * Units[r]])

OnTheWire(m) ==
    IF m = Sum!EofMessage THEN Aggregation!EofMessage
    ELSE Aggregation!PartialSum(m.fruit, AddedUp(m.amount))

\* What Sum s sends in a step is put in the queues of the aggregations.
NewlySent(s, c, a) ==
    LET from == Len(sent[s][c][a]) IN
    [i \in 1 .. (Len(sent'[s][c][a]) - from) |-> OnTheWire(sent'[s][c][a][from + i])]

Forward(s) ==
    /\ inbox' = [a \in Aggs |-> [inbox[a] EXCEPT
                    ![s] = [c \in Clients |-> @[c] \o NewlySent(s, c, a)]]]
    /\ UNCHANGED <<aggVars, topVars, joinVars>>

DataThread(s) == (Sum!DataThread(s) \/ Sum!ProcessEof(s, "data")) /\ Forward(s)
ControlThread(s) == (Sum!ControlThread(s) \/ Sum!ProcessEof(s, "control")) /\ Forward(s)
AggregationThread(a) == Aggregation!Consume(a) /\ UNCHANGED <<sumVars, joinVars>>
Joining(step) == step /\ UNCHANGED <<sumVars, inbox, aggVars>>

Publish ==
    /\ \/ \E r \in Records : Sum!PublishData(r)
       \/ \E c \in Clients : Sum!PublishEof(c)
    /\ UNCHANGED <<inbox, aggVars, topVars, joinVars>>

System ==
    \/ \E s \in Sums : DataThread(s) \/ ControlThread(s)
    \/ \E a \in Aggs : AggregationThread(a)
    \/ Joining(Join!JoinStep)

Next == Publish \/ System

Spec == Init /\ [][Next]_vars

\* Something that can take a step does, which is less than fairness of each thread, and
\* enough here: nothing can step for ever.
FairSpec == Spec /\ WF_vars(System)

-----------------------------------------------------------------------------
Service == INSTANCE UploadService WITH
    AmountOf <- Units, uploaded <- published, closed <- eofSent, answer <- results,
    MaxLost <- Cardinality(Sums) - 1

\* Each client gets one answer at most, after its EOF: the top of the totals of what
\* it uploaded, although its records are shared out among the Sums and its fruits
\* among the aggregations, each of which passes on only its own top.  At most one
\* record for each Sum but one is missing from it; with one Sum none is.
ImplementsUploadService == Service!Init /\ [][Service!Next]_(Service!vars)

\* And it does get it: with ImplementsUploadService this is Service!Spec.
EveryUploadIsAnswered == Service!Fairness

\* The answer is made of the records that the Sums sent to the aggregations, each of
\* them once: none is lost or counted twice on its way through the counts of EOFs, tops
\* and signals.
AnswerIsTopOfForwarded ==
    \A c \in Clients : \A i \in DOMAIN results[c] :
        results[c][i] = TopOf(Service!Totals({r \in published \cap Sum!RecordsOf(c) :
                                                  \E s \in Sums : Sum!Carried(s, r)}))

\* Every Sum finishes every client whose EOF was sent, whichever Sum takes the EOF and
\* however the two threads of a Sum meet on the same client.
EofReachesEverySum == Sum!EofReachesEverySum

=============================================================================
