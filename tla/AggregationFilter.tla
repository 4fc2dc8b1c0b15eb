-------------------------- MODULE AggregationFilter --------------------------
(***************************************************************************)
(* The Aggregation filters (src/python/src/aggregation/main.py), each with *)
(* its own queue on the exchange of the aggregations.  A Sum sends to an   *)
(* aggregation the partial sums of its fruits and then an EOF, client by   *)
(* client; when a send fails it does so again from the start.  When an     *)
(* aggregation has the EOF of every Sum it sends its partial top to the    *)
(* join and a signal to the join's coordination queue.                     *)
(*                                                                         *)
(* An aggregation has one thread: a callback that sends nothing is one     *)
(* action, and the one that sends the top is cut at each of its two sends. *)
(***************************************************************************)
EXTENDS Sequences, Middleware, FruitTop

CONSTANTS
    Sums, Clients, AGGREGATION_AMOUNT,
    TargetAggregation,  \* crc32(fruit) % AGGREGATION_AMOUNT
    Uploaded,           \* the totals of each Sum and client
    LateAggs,           \* aggregations whose container is not up at the beginning
    Breakable,          \* the kinds of connection that can fail
    MaxFaults,          \* bound on the connections that fail
    MaxResends          \* bound on the times a Sum starts again

Aggs == 0 .. (AGGREGATION_AMOUNT - 1)
SUM_AMOUNT == Cardinality(Sums)

ASSUME AggregationAssumption ==
    /\ AGGREGATION_AMOUNT \in Nat \ {0}
    /\ IsFiniteSet(Sums) /\ Sums # {}
    /\ TargetAggregation \in [Fruits -> Aggs]
    /\ Uploaded = [s \in Sums |-> [c \in Clients |-> Uploaded[s][c]]]
    /\ \A s \in Sums, c \in Clients : IsTable(Uploaded[s][c])
    /\ LateAggs \subseteq Aggs
    /\ Breakable \subseteq {"input", "output", "coordination"}
    /\ MaxFaults \in Nat /\ MaxResends \in Nat

VARIABLES
    \* per Sum and client: the totals it sends, the fruits of them still to be
    \* sent, the next aggregation to get the EOF
    offered, left, nextAgg,
    \* per aggregation, Sum and client: the queue
    inbox,
    \* per aggregation: the consuming connection, the point its thread is at and
    \* the EOF it has in hand
    consumer, pc, eof,
    \* per aggregation: the fields of AggregationFilter, by client
    fruitTop, sumsReceived, receivedPartialSums, receivedEofs, completed, finalizing,
    \* per aggregation: the local of _send_top
    payload,
    \* per aggregation: what it sent to the join, by client, and its connections
    joinQueue, coordQueue, outLink, coordLink,
    \* history, per Sum and client: the amount each fruit was first put in a queue with;
    \* and, once an EOF is in the queue of the aggregation, the fruits put there before
    first, promised,
    \* bounds
    faults, resends

sumVars    == <<offered, left, nextAgg, first, promised, resends>>
clientVars == <<fruitTop, sumsReceived, receivedPartialSums, receivedEofs, completed, finalizing>>
outputVars == <<joinQueue, coordQueue, outLink, coordLink>>
vars == <<sumVars, inbox, consumer, pc, eof, clientVars, payload, outputVars, faults>>

PartialSum(f, n) == [type |-> "PARTIAL_SUM", fruit |-> f, amount |-> n]
EofMessage == [type |-> "EOF"]
Messages == [type : {"PARTIAL_SUM"}, fruit : Fruits, amount : Nat] \cup {EofMessage}

AggInit ==
    /\ inbox = [a \in Aggs |-> [s \in Sums |-> [c \in Clients |-> <<>>]]]
    /\ consumer = [a \in Aggs |-> IF a \in LateAggs THEN "down" ELSE "up"]
    /\ pc = [a \in Aggs |-> "idle"]
    /\ eof = [a \in Aggs |-> {}]
    /\ fruitTop = [a \in Aggs |-> [c \in Clients |-> NoFruits]]
    /\ sumsReceived = [a \in Aggs |-> [c \in Clients |-> 0]]
    /\ receivedPartialSums = [a \in Aggs |-> [c \in Clients |-> {}]]
    /\ receivedEofs = [a \in Aggs |-> [c \in Clients |-> {}]]
    /\ completed = [a \in Aggs |-> {}]
    /\ finalizing = [a \in Aggs |-> {}]
    /\ payload = [a \in Aggs |-> NoFruits]
    /\ joinQueue = [a \in Aggs |-> [c \in Clients |-> <<>>]]
    /\ coordQueue = [a \in Aggs |-> [c \in Clients |-> 0]]
    /\ outLink = [a \in Aggs |-> "open"]
    /\ coordLink = [a \in Aggs |-> "open"]
    /\ faults = 0

Init ==
    /\ offered = Uploaded
    /\ left = [s \in Sums |-> [c \in Clients |-> DOMAIN Uploaded[s][c]]]
    /\ nextAgg = [s \in Sums |-> [c \in Clients |-> 0]]
    /\ first = [s \in Sums |-> [c \in Clients |-> NoFruits]]
    /\ promised = [a \in Aggs |-> [s \in Sums |-> [c \in Clients |-> {}]]]
    /\ resends = 0
    /\ AggInit

-----------------------------------------------------------------------------
(* The Sums, as far as the aggregations see them (SumFilter.tla has their   *)
(* threads).  A message for an aggregation that has no queue is lost.       *)

HasQueue(a) == consumer[a] = "up"
Queued(a, s, c, m) ==
    IF HasQueue(a) THEN [inbox EXCEPT ![a][s][c] = Append(@, m)] ELSE inbox

SumSendsFruit(s, c, f) ==
    LET a == TargetAggregation[f]  n == offered[s][c][f] IN
    /\ f \in left[s][c]
    /\ left' = [left EXCEPT ![s][c] = @ \ {f}]
    /\ inbox' = Queued(a, s, c, PartialSum(f, n))
    /\ first' = IF ~HasQueue(a) \/ f \in DOMAIN first[s][c] THEN first
                ELSE [first EXCEPT ![s][c] = Plus(@, f, n)]
    /\ UNCHANGED <<offered, nextAgg, promised, resends, consumer, pc, eof, clientVars, payload,
                   outputVars, faults>>

FruitsQueued(a, s, c) == {f \in DOMAIN first[s][c] : TargetAggregation[f] = a}

SumSendsEof(s, c) ==
    LET a == nextAgg[s][c] IN
    /\ left[s][c] = {}
    /\ a \in Aggs
    /\ nextAgg' = [nextAgg EXCEPT ![s][c] = @ + 1]
    /\ inbox' = Queued(a, s, c, EofMessage)
    /\ promised' = IF ~HasQueue(a) \/ promised[a][s][c] # {} THEN promised
                   ELSE [promised EXCEPT ![a][s][c] = {FruitsQueued(a, s, c)}]
    /\ UNCHANGED <<offered, left, first, resends, consumer, pc, eof, clientVars, payload,
                   outputVars, faults>>

\* A send of the Sum raised, and its EOF was given to it again: it starts over,
\* and the record its data thread had in hand the first time is now in the total.
SumStartsAgain(s, c) ==
    /\ resends < MaxResends
    /\ nextAgg[s][c] \in Aggs
    /\ \/ UNCHANGED offered
       \/ \E f \in Fruits : offered' = [offered EXCEPT ![s][c] = Plus(@, f, 1)]
    /\ left' = [left EXCEPT ![s][c] = DOMAIN offered'[s][c]]
    /\ nextAgg' = [nextAgg EXCEPT ![s][c] = 0]
    /\ resends' = resends + 1
    /\ UNCHANGED <<inbox, first, promised, consumer, pc, eof, clientVars, payload, outputVars,
                   faults>>

-----------------------------------------------------------------------------
(* The callback of an aggregation.                                         *)

\* __init__ declares the queue, start() begins to consume it.
Start(a) ==
    /\ consumer[a] = "down"
    /\ consumer' = [consumer EXCEPT ![a] = "up"]
    /\ UNCHANGED <<sumVars, inbox, pc, eof, clientVars, payload, outputVars, faults>>

Receives(a, s, c, type) ==
    /\ consumer[a] = "up" /\ pc[a] = "idle"
    /\ inbox[a][s][c] # <<>>
    /\ Head(inbox[a][s][c]).type = type
    /\ inbox' = [inbox EXCEPT ![a][s][c] = Tail(@)]

\* Lines 56-61: a message of a client that is completed, or that came already.
\* The message id is "<sum>:<fruit>".
OnlyCompleted(a, s, c, f) == c \in completed[a]
OnlyReceived(a, s, c, f) == <<s, f>> \in receivedPartialSums[a][c]
KnownPartialSum(a, s, c, f) == c \in completed[a] \/ <<s, f>> \in receivedPartialSums[a][c]

\* _process_data.
ReceivePartialSum(a, s, c) ==
    LET m == Head(inbox[a][s][c]) IN
    /\ Receives(a, s, c, "PARTIAL_SUM")
    /\ \/ /\ KnownPartialSum(a, s, c, m.fruit)
          /\ UNCHANGED <<fruitTop, receivedPartialSums>>
       \/ /\ ~KnownPartialSum(a, s, c, m.fruit)
          /\ receivedPartialSums' =
                [receivedPartialSums EXCEPT ![a][c] = @ \cup {<<s, m.fruit>>}]
          /\ fruitTop' = [fruitTop EXCEPT ![a][c] = Plus(@, m.fruit, m.amount)]
    /\ UNCHANGED <<sumVars, consumer, pc, eof, sumsReceived, receivedEofs, completed,
                   finalizing, payload, outputVars, faults>>

\* Lines 82-86.
KnownEof(a, s, c) == c \in completed[a] \/ s \in receivedEofs[a][c]

SkipEof(a, s, c) ==
    /\ Receives(a, s, c, "EOF")
    /\ KnownEof(a, s, c)
    /\ UNCHANGED <<sumVars, consumer, pc, eof, clientVars, payload, outputVars, faults>>

\* Lines 91-92: the count reaches the number of Sums.
IsOneTooEarly(n) == n + 2 >= SUM_AMOUNT
IsOneTooLate(n) == n >= SUM_AMOUNT
IsLast(n) == n + 1 >= SUM_AMOUNT

\* Lines 88-91 and 97.
CountEof(a, s, c) ==
    /\ Receives(a, s, c, "EOF")
    /\ ~KnownEof(a, s, c)
    /\ ~IsLast(sumsReceived[a][c])
    /\ sumsReceived' = [sumsReceived EXCEPT ![a][c] = @ + 1]
    /\ receivedEofs' = [receivedEofs EXCEPT ![a][c] = @ \cup {s}]
    /\ UNCHANGED <<sumVars, consumer, pc, eof, fruitTop, receivedPartialSums, completed,
                   finalizing, payload, outputVars, faults>>

\* Lines 88-95 and the first locked region of _send_top (its test, line 102, is
\* false: the only thread has just seen that the client is not completed).
BeginTop(a, s, c) ==
    /\ Receives(a, s, c, "EOF")
    /\ ~KnownEof(a, s, c)
    /\ IsLast(sumsReceived[a][c])
    /\ sumsReceived' = [sumsReceived EXCEPT ![a][c] = @ + 1]
    /\ finalizing' = [finalizing EXCEPT ![a] = @ \cup {c}]
    /\ payload' = [payload EXCEPT ![a] = TopOf(fruitTop[a][c])]
    /\ eof' = [eof EXCEPT ![a] = {<<s, c>>}]
    /\ pc' = [pc EXCEPT ![a] = "sendTop"]
    /\ UNCHANGED <<sumVars, consumer, fruitTop, receivedPartialSums, receivedEofs, completed,
                   outputVars, faults>>

\* Lines 125 and 129: the client is no longer being finalized.
NotDiscarded(clients, c) == clients
Discarded(clients, c) == clients \ {c}

\* Lines 123-126: only MessageError is caught by process_message, so what a send
\* raises ends start_consuming and the process; its queue is exclusive and goes.
Die(a, c) ==
    /\ finalizing' = [finalizing EXCEPT ![a] = Discarded(@, c)]
    /\ pc' = [pc EXCEPT ![a] = "idle"]
    /\ eof' = [eof EXCEPT ![a] = {}]
    /\ consumer' = [consumer EXCEPT ![a] = "lost"]
    /\ inbox' = [inbox EXCEPT ![a] = [s \in Sums |-> [d \in Clients |-> <<>>]]]

\* The thread goes on after a send, unless the send raised.
Swallows(a, c, label, raised) ==
    /\ pc' = [pc EXCEPT ![a] = label]
    /\ UNCHANGED <<eof, finalizing, consumer, inbox>>
Proceeds(a, c, label, raised) ==
    \/ /\ ~raised
       /\ pc' = [pc EXCEPT ![a] = label]
       /\ UNCHANGED <<eof, finalizing, consumer, inbox>>
    \/ /\ raised
       /\ Die(a, c)

SendPartialTop(a, s, c) ==
    /\ pc[a] = "sendTop" /\ <<s, c>> \in eof[a]
    /\ \E out \in SendOutcomes(outLink[a]) :
         /\ outLink' = [outLink EXCEPT ![a] = out.link]
         /\ joinQueue' = IF out.delivered
                           THEN [joinQueue EXCEPT ![a][c] = Append(@, payload[a])]
                           ELSE joinQueue
         /\ Proceeds(a, c, "sendCoordination", out.raised)
    /\ UNCHANGED <<sumVars, fruitTop, sumsReceived, receivedPartialSums, receivedEofs, completed,
                   payload, coordQueue, coordLink, faults>>

SendCoordination(a, s, c) ==
    /\ pc[a] = "sendCoordination" /\ <<s, c>> \in eof[a]
    /\ \E out \in SendOutcomes(coordLink[a]) :
         /\ coordLink' = [coordLink EXCEPT ![a] = out.link]
         /\ coordQueue' = IF out.delivered THEN [coordQueue EXCEPT ![a][c] = @ + 1]
                                           ELSE coordQueue
         /\ Proceeds(a, c, "complete", out.raised)
    /\ UNCHANGED <<sumVars, fruitTop, sumsReceived, receivedPartialSums, receivedEofs, completed,
                   payload, joinQueue, outLink, faults>>

\* Lines 128-134, and line 97: the source of the last EOF is noted after the entry
\* of the client was popped, which makes a new entry.
CompleteTop(a, s, c) ==
    /\ pc[a] = "complete" /\ <<s, c>> \in eof[a]
    /\ finalizing' = [finalizing EXCEPT ![a] = Discarded(@, c)]
    /\ completed' = [completed EXCEPT ![a] = @ \cup {c}]
    /\ fruitTop' = [fruitTop EXCEPT ![a][c] = NoFruits]
    /\ sumsReceived' = [sumsReceived EXCEPT ![a][c] = 0]
    /\ receivedPartialSums' = [receivedPartialSums EXCEPT ![a][c] = {}]
    /\ receivedEofs' = [receivedEofs EXCEPT ![a][c] = {s}]
    /\ pc' = [pc EXCEPT ![a] = "idle"]
    /\ eof' = [eof EXCEPT ![a] = {}]
    /\ UNCHANGED <<sumVars, inbox, consumer, payload, outputVars, faults>>

-----------------------------------------------------------------------------
(* Failures.                                                               *)

\* The consuming connection is lost, or SIGTERM came: a callback in progress runs
\* to its end, no other message is processed, and the queue is gone.
LoseConsumer(a) ==
    /\ "input" \in Breakable
    /\ faults < MaxFaults
    /\ consumer[a] = "up"
    /\ consumer' = [consumer EXCEPT ![a] = "lost"]
    /\ inbox' = [inbox EXCEPT ![a] = [s \in Sums |-> [c \in Clients |-> <<>>]]]
    /\ faults' = faults + 1
    /\ UNCHANGED <<sumVars, pc, eof, clientVars, payload, outputVars>>

BreakOutput(a) ==
    /\ "output" \in Breakable
    /\ faults < MaxFaults
    /\ outLink[a] = "open"
    /\ outLink' = [outLink EXCEPT ![a] = "broken"]
    /\ faults' = faults + 1
    /\ UNCHANGED <<sumVars, inbox, consumer, pc, eof, clientVars, payload, joinQueue,
                   coordQueue, coordLink>>

BreakCoordination(a) ==
    /\ "coordination" \in Breakable
    /\ faults < MaxFaults
    /\ coordLink[a] = "open"
    /\ coordLink' = [coordLink EXCEPT ![a] = "broken"]
    /\ faults' = faults + 1
    /\ UNCHANGED <<sumVars, inbox, consumer, pc, eof, clientVars, payload, joinQueue,
                   coordQueue, outLink>>

-----------------------------------------------------------------------------
SumStep(s, c) ==
    \/ \E f \in Fruits : SumSendsFruit(s, c, f)
    \/ SumSendsEof(s, c)
    \/ SumStartsAgain(s, c)

Consume(a) ==
    \E s \in Sums, c \in Clients :
        \/ ReceivePartialSum(a, s, c)
        \/ SkipEof(a, s, c)
        \/ CountEof(a, s, c)
        \/ BeginTop(a, s, c)
        \/ SendPartialTop(a, s, c)
        \/ SendCoordination(a, s, c)
        \/ CompleteTop(a, s, c)

AggStep(a) == Start(a) \/ Consume(a) \/ LoseConsumer(a) \/ BreakOutput(a) \/ BreakCoordination(a)

Next ==
    \/ \E s \in Sums, c \in Clients : SumStep(s, c)
    \/ \E a \in Aggs : AggStep(a)

Spec == Init /\ [][Next]_vars

-----------------------------------------------------------------------------
(* Correctness.                                                            *)

\* Every variable keeps to its domain; the count of EOFs never passes the number of
\* Sums, and a client is being finalized exactly while its EOF is in hand.
TypeOK ==
    /\ \A s \in Sums, c \in Clients : IsTable(offered[s][c]) /\ IsTable(first[s][c])
    /\ left \in [Sums -> [Clients -> SUBSET Fruits]]
    /\ nextAgg \in [Sums -> [Clients -> 0 .. AGGREGATION_AMOUNT]]
    /\ inbox \in [Aggs -> [Sums -> [Clients -> Seq(Messages)]]]
    /\ consumer \in [Aggs -> {"down", "up", "lost"}]
    /\ pc \in [Aggs -> {"idle", "sendTop", "sendCoordination", "complete"}]
    /\ eof \in [Aggs -> SUBSET (Sums \X Clients)]
    /\ \A a \in Aggs, c \in Clients : IsTable(fruitTop[a][c])
    /\ sumsReceived \in [Aggs -> [Clients -> 0 .. SUM_AMOUNT]]
    /\ receivedPartialSums \in [Aggs -> [Clients -> SUBSET (Sums \X Fruits)]]
    /\ receivedEofs \in [Aggs -> [Clients -> SUBSET Sums]]
    /\ completed \in [Aggs -> SUBSET Clients]
    /\ finalizing \in [Aggs -> SUBSET Clients]
    /\ \A a \in Aggs : IsTable(payload[a])
    /\ \A a \in Aggs, c \in Clients :
         \A i \in DOMAIN joinQueue[a][c] : IsTable(joinQueue[a][c][i])
    /\ coordQueue \in [Aggs -> [Clients -> Nat]]
    /\ outLink \in [Aggs -> LinkStates] /\ coordLink \in [Aggs -> LinkStates]
    /\ promised \in [Aggs -> [Sums -> [Clients -> SUBSET SUBSET Fruits]]]
    /\ faults \in Nat /\ resends \in Nat
    /\ \A a \in Aggs : /\ pc[a] = "idle" <=> eof[a] = {}
                     /\ finalizing[a] = {e[2] : e \in eof[a]}

\* The table of the fruits in chosen[s] of each Sum, with the amounts first queued.
Summed(c, chosen) == MergeOf([s \in Sums |-> Restricted(first[s][c], chosen[s])])

\* The join gets at most one partial top of a client from an aggregation, and it is
\* the top of what came to its queue, each partial sum taken once and with the amount
\* it was FIRST queued with, whatever the Sums resend, and not before every Sum has said
\* that it is over: what was queued before the EOF of its Sum is all there.  (Lines
\* 58-61 drop the second copy, 84-92 count each Sum once, 110 takes the top.)  An
\* aggregation that comes up late misses what was sent before, and nothing else.
TopIsExact ==
    \A a \in Aggs, c \in Clients :
        /\ Len(joinQueue[a][c]) <= 1
        /\ \A i \in DOMAIN joinQueue[a][c] :
             /\ \A s \in Sums : promised[a][s][c] # {}
             /\ \E chosen \in [Sums -> SUBSET Fruits] :
                  /\ \A s \in Sums : /\ UNION promised[a][s][c] \subseteq chosen[s]
                                     /\ chosen[s] \subseteq FruitsQueued(a, s, c)
                  /\ joinQueue[a][c][i] = TopOf(Summed(c, chosen))

\* An aggregation signals a client once, and only with the partial top in the join's
\* queue, unless the connection of the partial tops swallowed it: a top whose send
\* raised is never followed by a signal (lines 113-126).
SignalFollowsTop ==
    [][\A a \in Aggs, c \in Clients : coordQueue'[a][c] # coordQueue[a][c] =>
          /\ coordQueue[a][c] = 0
          /\ joinQueue[a][c] # <<>> \/ outLink[a] = "broken"]_vars

\* A completed client is over for the aggregation: messages that the Sums resend do
\* not start a new list, count or top (lines 56, 82 and 102).
CompletedIsFinal ==
    [][\A a \in Aggs : \A c \in completed[a] :
          /\ c \in completed'[a]
          /\ fruitTop'[a][c] = NoFruits /\ sumsReceived'[a][c] = 0
          /\ joinQueue'[a][c] = joinQueue[a][c]
          /\ coordQueue'[a][c] = coordQueue[a][c]]_vars

=============================================================================
