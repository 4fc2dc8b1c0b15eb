------------------------------ MODULE SumFilter ------------------------------
(***************************************************************************)
(* Every instance of the Sum filter (src/python/src/sum/main.py) together  *)
(* with the two channels they share: the work queue INPUT_QUEUE, on which  *)
(* the gateway publishes the DATA and EOF messages of every client and     *)
(* from which each message is taken by ONE Sum, and SUM_CONTROL_EXCHANGE,  *)
(* through which the Sum that took a client's EOF tells all the Sums.      *)
(*                                                                         *)
(* Each Sum runs two threads.  The "data" thread consumes INPUT_QUEUE, the *)
(* "control" thread consumes the Sum's own queue on the control exchange.  *)
(* They share amount_by_fruit_by_client, the counters of DATA messages in  *)
(* progress and the sets of finalizing and finished clients, under one     *)
(* lock; every action below is one stretch of code that holds the lock, or *)
(* one call to the middleware.                                             *)
(*                                                                         *)
(* The data are abstracted to the identity of a record.  A record stands   *)
(* for one (fruit, amount) pair that a client uploads; an amount that a    *)
(* Sum accumulates is the bag of the records it added, so that a total can *)
(* be compared with what was uploaded record by record.                    *)
(***************************************************************************)
EXTENDS Integers, Sequences, FiniteSets, Middleware

CONSTANTS
    Sums,                \* the Sum instances
    Clients,             \* client ids given by the gateway
    Records,             \* the records the clients may upload
    Fruits,
    AGGREGATION_AMOUNT,
    ClientOf,            \* the client that uploads a record
    FruitOf,             \* the fruit a record is about
    TargetAggregation,   \* crc32(fruit) % AGGREGATION_AMOUNT
    LateSums,            \* Sums whose container is not up at the beginning
    Breakable,           \* the kinds of connection that can fail
    MaxFaults,           \* bound on the connections that fail
    MaxNacks             \* bound on the messages given back after an exception

Threads == {"data", "control"}
Aggs == 0 .. (AGGREGATION_AMOUNT - 1)
Connections == {"data", "control", "output", "broadcast"}

ASSUME SumAssumption ==
    /\ IsFiniteSet(Sums) /\ Sums # {}
    /\ AGGREGATION_AMOUNT \in Nat \ {0}
    /\ ClientOf \in [Records -> Clients]
    /\ FruitOf \in [Records -> Fruits]
    /\ TargetAggregation \in [Fruits -> Aggs]
    /\ LateSums \subseteq Sums
    /\ Breakable \subseteq Connections
    /\ MaxFaults \in Nat
    /\ MaxNacks \in Nat

VARIABLES
    \* the gateway, as far as INPUT_QUEUE sees it
    published,   \* records sent as DATA
    eofSent,     \* clients whose EOF was sent
    \* the queues
    pending,     \* DATA messages in INPUT_QUEUE
    eofReady,    \* EOF messages in INPUT_QUEUE
    ctrlQueue,   \* per Sum, the EOFs waiting in its control queue
    consumer,    \* per Sum and thread, the consuming connection
    \* per Sum, its threads: control point and message in hand
    pc, data, eof,
    \* per Sum, the fields of SumFilter that its lock protects
    amounts, active, finalizing, finished,
    \* per Sum and thread, the locals of _finalize_client
    snap,        \* fruits_dict, the copy taken under the lock
    left,        \* fruits of it still to be sent
    nextAgg,     \* next aggregation to get the EOF
    \* per Sum, what reached the aggregations and the publishing connections
    sent, dataLink, ctrlLink,
    \* history: records a Sum acknowledged and will never forward
    dropped,
    \* bounds
    faults, nacks

gatewayVars == <<published, eofSent>>
queueVars   == <<pending, eofReady, ctrlQueue>>
threadVars  == <<pc, data, eof>>
filterVars  == <<amounts, active, finalizing, finished>>
localVars   == <<snap, left, nextAgg>>
outputVars  == <<sent, dataLink, ctrlLink>>
boundVars   == <<faults, nacks>>
vars == <<gatewayVars, queueVars, consumer, threadVars, filterVars, localVars,
          outputVars, dropped, boundVars>>

-----------------------------------------------------------------------------
(* Bags of records and the messages for the aggregations.                  *)

Bag == [Records -> Nat]
NoRecords == [r \in Records |-> 0]
RecordsOf(c) == {r \in Records : ClientOf[r] = c}

\* Lines 64-67: the amount of a record is added to what its fruit has.
Overwritten(bag, r) ==
    [q \in Records |-> IF q = r THEN 1
                       ELSE IF ClientOf[q] = ClientOf[r] /\ FruitOf[q] = FruitOf[r]
                       THEN 0 ELSE bag[q]]
Added(bag, r) == [bag EXCEPT ![r] = @ + 1]

\* A client's entry of amount_by_fruit_by_client, and the rest of it.
EveryEntry(bag, c) == bag
EntryOf(bag, c) == [r \in Records |-> IF ClientOf[r] = c THEN bag[r] ELSE 0]
SameEntries(bag, c) == bag
NoEntries(bag, c) == NoRecords
WithoutEntry(bag, c) == [r \in Records |-> IF ClientOf[r] = c THEN 0 ELSE bag[r]]

FruitsIn(bag) == {f \in Fruits : \E r \in Records : FruitOf[r] = f /\ bag[r] > 0}
EveryAmount(bag, f) == bag
AmountOf(bag, f) == [r \in Records |-> IF FruitOf[r] = f THEN bag[r] ELSE 0]

\* The message id of a partial sum is "<sum>:<fruit>", that of an EOF "<sum>":
\* on the channel of one Sum and one client the fruit identifies the message.
PartialSum(f, bag) == [type |-> "PARTIAL_SUM", fruit |-> f, amount |-> bag]
EofMessage == [type |-> "EOF"]
PartialSums == [type : {"PARTIAL_SUM"}, fruit : Fruits, amount : Bag]
Messages == PartialSums \cup {EofMessage}

-----------------------------------------------------------------------------
Init ==
    /\ published = {} /\ eofSent = {}
    /\ pending = {} /\ eofReady = {}
    /\ ctrlQueue = [s \in Sums |-> [c \in Clients |-> 0]]
    /\ consumer = [s \in Sums |-> [t \in Threads |->
                        IF s \in LateSums THEN "down" ELSE "up"]]
    /\ pc = [s \in Sums |-> [t \in Threads |-> "idle"]]
    /\ data = [s \in Sums |-> {}]
    /\ eof = [s \in Sums |-> [t \in Threads |-> {}]]
    /\ amounts = [s \in Sums |-> NoRecords]
    /\ active = [s \in Sums |-> [c \in Clients |-> 0]]
    /\ finalizing = [s \in Sums |-> {}]
    /\ finished = [s \in Sums |-> {}]
    /\ snap = [s \in Sums |-> [t \in Threads |-> NoRecords]]
    /\ left = [s \in Sums |-> [t \in Threads |-> {}]]
    /\ nextAgg = [s \in Sums |-> [t \in Threads |-> 0]]
    /\ sent = [s \in Sums |-> [c \in Clients |-> [a \in Aggs |-> <<>>]]]
    /\ dataLink = [s \in Sums |-> [a \in Aggs |-> "open"]]
    /\ ctrlLink = [s \in Sums |-> "open"]
    /\ dropped = [s \in Sums |-> {}]
    /\ faults = 0 /\ nacks = 0

-----------------------------------------------------------------------------
(* The gateway publishes a client's records in the order they come, then   *)
(* its EOF; nothing of that client follows the EOF.                        *)

PublishData(r) ==
    /\ r \notin published
    /\ ClientOf[r] \notin eofSent
    /\ published' = published \cup {r}
    /\ pending' = pending \cup {r}
    /\ UNCHANGED <<eofSent, eofReady, ctrlQueue, consumer, threadVars, filterVars,
                   localVars, outputVars, dropped, boundVars>>

PublishEof(c) ==
    /\ c \notin eofSent
    /\ eofSent' = eofSent \cup {c}
    /\ eofReady' = eofReady \cup {c}
    /\ UNCHANGED <<published, pending, ctrlQueue, consumer, threadVars, filterVars,
                   localVars, outputVars, dropped, boundVars>>

(***************************************************************************)
(* A Sum that comes up late: __init__ declares its control queue, start()  *)
(* begins to consume both.  A broadcast made before is not in its queue.   *)
(***************************************************************************)
Start(s) ==
    /\ consumer[s]["data"] = "down"
    /\ consumer' = [consumer EXCEPT ![s] = [t \in Threads |-> "up"]]
    /\ UNCHANGED <<gatewayVars, queueVars, threadVars, filterVars, localVars,
                   outputVars, dropped, boundVars>>

-----------------------------------------------------------------------------
(* Delivery.  INPUT_QUEUE is FIFO and a message given back returns to its   *)
(* place, so an EOF is delivered only when no DATA of its client is still   *)
(* in the queue.  The order between two DATA messages, and between clients, *)
(* is left free: no filter depends on it.  prefetch_count=1: a consumer     *)
(* gets its next message only when it has acknowledged the last one.        *)

Listening(s, t) == consumer[s][t] = "up" /\ pc[s][t] = "idle"

DeliverData(s, r) ==
    /\ Listening(s, "data")
    /\ r \in pending
    /\ pending' = pending \ {r}
    /\ data' = [data EXCEPT ![s] = {r}]
    /\ pc' = [pc EXCEPT ![s]["data"] = "received"]
    /\ UNCHANGED <<gatewayVars, eofReady, ctrlQueue, consumer, eof, filterVars,
                   localVars, outputVars, dropped, boundVars>>

Drained(c) == pending \cap RecordsOf(c) = {}

DeliverEof(s, c) ==
    /\ Listening(s, "data")
    /\ c \in eofReady
    /\ Drained(c)
    /\ eofReady' = eofReady \ {c}
    /\ eof' = [eof EXCEPT ![s]["data"] = {c}]
    /\ pc' = [pc EXCEPT ![s]["data"] = "waiting"]
    /\ UNCHANGED <<gatewayVars, pending, ctrlQueue, consumer, data, filterVars,
                   localVars, outputVars, dropped, boundVars>>

DeliverControl(s, c) ==
    /\ Listening(s, "control")
    /\ ctrlQueue[s][c] > 0
    /\ ctrlQueue' = [ctrlQueue EXCEPT ![s][c] = @ - 1]
    /\ eof' = [eof EXCEPT ![s]["control"] = {c}]
    /\ pc' = [pc EXCEPT ![s]["control"] = "waiting"]
    /\ UNCHANGED <<gatewayVars, pending, eofReady, consumer, data, filterVars,
                   localVars, outputVars, dropped, boundVars>>

-----------------------------------------------------------------------------
(* process_data_message for a DATA message, one action per locked region.  *)

\* The tests of lines 56 and 151.
AnyFinished(s, c) == finished[s] # {}
IsFinished(s, c) == c \in finished[s]

\* Lines 150-153: the client is already finished here, the record is
\* acknowledged and forgotten.
SkipData(s, r) ==
    /\ pc[s]["data"] = "received"
    /\ r \in data[s]
    /\ IsFinished(s, ClientOf[r])
    /\ dropped' = [dropped EXCEPT ![s] = @ \cup {r}]
    /\ data' = [data EXCEPT ![s] = {}]
    /\ pc' = [pc EXCEPT ![s]["data"] = "idle"]
    /\ UNCHANGED <<gatewayVars, queueVars, consumer, eof, filterVars, localVars,
                   outputVars, boundVars>>

\* Line 154: one more DATA message of the client in progress.
CountData(s, r) ==
    /\ pc[s]["data"] = "received"
    /\ r \in data[s]
    /\ ~IsFinished(s, ClientOf[r])
    /\ active' = [active EXCEPT ![s][ClientOf[r]] = @ + 1]
    /\ pc' = [pc EXCEPT ![s]["data"] = "counted"]
    /\ UNCHANGED <<gatewayVars, queueVars, consumer, data, eof, amounts, finalizing,
                   finished, localVars, outputVars, dropped, boundVars>>

\* _process_data: it looks at the finished clients again, never at the
\* finalizing ones.
ProcessData(s, r) ==
    /\ pc[s]["data"] = "counted"
    /\ r \in data[s]
    /\ \/ /\ IsFinished(s, ClientOf[r])
          /\ dropped' = [dropped EXCEPT ![s] = @ \cup {r}]
          /\ UNCHANGED amounts
       \/ /\ ~IsFinished(s, ClientOf[r])
          /\ amounts' = [amounts EXCEPT ![s] = Added(@, r)]
          /\ UNCHANGED dropped
    /\ pc' = [pc EXCEPT ![s]["data"] = "processed"]
    /\ UNCHANGED <<gatewayVars, queueVars, consumer, data, eof, active, finalizing,
                   finished, localVars, outputVars, boundVars>>

\* The counter after the decrement of lines 164-166.  FinalizeEnd may have
\* popped it in the meantime: then it goes to -1, and is popped again.
Decremented(n) == n - 1
NotReleased(n) == n
Released(n) == IF n <= 1 THEN 0 ELSE n - 1

\* Lines 162-166, then the ack of line 173.
ReleaseData(s, r) ==
    /\ pc[s]["data"] = "processed"
    /\ r \in data[s]
    /\ active' = [active EXCEPT ![s][ClientOf[r]] = Released(@)]
    /\ data' = [data EXCEPT ![s] = {}]
    /\ pc' = [pc EXCEPT ![s]["data"] = "idle"]
    /\ UNCHANGED <<gatewayVars, queueVars, consumer, eof, amounts, finalizing,
                   finished, localVars, outputVars, dropped, boundVars>>

-----------------------------------------------------------------------------
(* _process_eof, for the thread t that has the EOF of client c in hand.     *)

AtEof(s, t, c, label) == pc[s][t] = label /\ c \in eof[s][t]

\* The callback is over: the EOF is acknowledged (on a connection that was
\* lost the ack raises and the thread ends: its message is back in the queue).
Ack(s, t) ==
    /\ pc' = [pc EXCEPT ![s][t] = "idle"]
    /\ eof' = [eof EXCEPT ![s][t] = {}]

\* An exception reached process_*_message: the EOF goes back to its queue.
Nack(s, t, c) ==
    /\ nacks < MaxNacks
    /\ nacks' = nacks + 1
    /\ pc' = [pc EXCEPT ![s][t] = "idle"]
    /\ eof' = [eof EXCEPT ![s][t] = {}]
    /\ \/ /\ consumer[s][t] # "up"
          /\ UNCHANGED <<eofReady, ctrlQueue>>
       \/ /\ consumer[s][t] = "up" /\ t = "data"
          /\ eofReady' = eofReady \cup {c}
          /\ UNCHANGED ctrlQueue
       \/ /\ consumer[s][t] = "up" /\ t = "control"
          /\ ctrlQueue' = [ctrlQueue EXCEPT ![s][c] = @ + 1]
          /\ UNCHANGED eofReady

\* _wait_for_client_idle samples the counter under the lock and returns.
WaitForClientIdle(s, t, c) ==
    /\ AtEof(s, t, c, "waiting")
    /\ active[s][c] = 0
    /\ pc' = [pc EXCEPT ![s][t] = "finalize"]
    /\ UNCHANGED <<gatewayVars, queueVars, consumer, data, eof, filterVars, localVars,
                   outputVars, dropped, boundVars>>

\* Line 78: done already, or being done by the other thread.
OnlyFinalizing(s, c) == c \in finalizing[s]
OnlyFinished(s, c) == c \in finished[s]
AlreadyFinalized(s, c) == c \in finished[s] \cup finalizing[s]

\* Line 79: nothing to do for this EOF.
FinalizeSkip(s, t, c) ==
    /\ AtEof(s, t, c, "finalize")
    /\ AlreadyFinalized(s, c)
    /\ Ack(s, t)
    /\ UNCHANGED <<gatewayVars, queueVars, consumer, data, filterVars, localVars,
                   outputVars, dropped, boundVars>>

\* Lines 80-81: the client's amounts are copied under the lock.
FinalizeBegin(s, t, c) ==
    /\ AtEof(s, t, c, "finalize")
    /\ ~AlreadyFinalized(s, c)
    /\ finalizing' = [finalizing EXCEPT ![s] = @ \cup {c}]
    /\ snap' = [snap EXCEPT ![s][t] = EntryOf(amounts[s], c)]
    /\ left' = [left EXCEPT ![s][t] = FruitsIn(EntryOf(amounts[s], c))]
    /\ nextAgg' = [nextAgg EXCEPT ![s][t] = 0]
    /\ pc' = [pc EXCEPT ![s][t] = "sending"]
    /\ UNCHANGED <<gatewayVars, queueVars, consumer, data, eof, amounts, active,
                   finished, outputVars, dropped, boundVars>>

\* Lines 107-110: a send raised, the client is no longer being finalized.
AbortFinalize(s, t, c) ==
    /\ finalizing' = [finalizing EXCEPT ![s] = @ \ {c}]
    /\ Nack(s, t, c)

\* One publish on the output exchange of aggregation a, with its outcome.
SendTo(s, c, a, m, out) ==
    /\ out \in SendOutcomes(dataLink[s][a])
    /\ dataLink' = [dataLink EXCEPT ![s][a] = out.link]
    /\ sent' = IF out.delivered THEN [sent EXCEPT ![s][c][a] = Append(@, m)] ELSE sent

SendPartialSum(s, t, c, f) ==
    /\ AtEof(s, t, c, "sending")
    /\ f \in left[s][t]
    /\ \E out \in SendOutcomes(dataLink[s][TargetAggregation[f]]) :
         /\ SendTo(s, c, TargetAggregation[f], PartialSum(f, AmountOf(snap[s][t], f)), out)
         /\ \/ /\ ~out.raised
               /\ left' = [left EXCEPT ![s][t] = @ \ {f}]
               /\ UNCHANGED <<pc, eof, finalizing, eofReady, ctrlQueue, nacks>>
            \/ /\ out.raised
               /\ AbortFinalize(s, t, c)
               /\ UNCHANGED left
    /\ UNCHANGED <<gatewayVars, pending, consumer, data, amounts, active, finished,
                   snap, nextAgg, ctrlLink, dropped, faults>>

\* Lines 99-106: an EOF to every aggregation, in order, after the amounts.
SendEof(s, t, c) ==
    /\ AtEof(s, t, c, "sending")
    /\ left[s][t] = {}
    /\ nextAgg[s][t] \in Aggs
    /\ \E out \in SendOutcomes(dataLink[s][nextAgg[s][t]]) :
         /\ SendTo(s, c, nextAgg[s][t], EofMessage, out)
         /\ \/ /\ ~out.raised
               /\ nextAgg' = [nextAgg EXCEPT ![s][t] = @ + 1]
               /\ UNCHANGED <<pc, eof, finalizing, eofReady, ctrlQueue, nacks>>
            \/ /\ out.raised
               /\ AbortFinalize(s, t, c)
               /\ UNCHANGED nextAgg
    /\ UNCHANGED <<gatewayVars, pending, consumer, data, amounts, active, finished,
                   snap, left, ctrlLink, dropped, faults>>

\* Lines 112-116.  What was added to the amounts after the copy goes with them.
\* The control thread is done (line 124); the data thread still has to
\* broadcast the EOF.
FinalizeEnd(s, t, c) ==
    /\ AtEof(s, t, c, "sending")
    /\ left[s][t] = {}
    /\ nextAgg[s][t] = AGGREGATION_AMOUNT
    /\ finalizing' = [finalizing EXCEPT ![s] = @ \ {c}]
    /\ finished' = [finished EXCEPT ![s] = @ \cup {c}]
    /\ amounts' = [amounts EXCEPT ![s] = WithoutEntry(@, c)]
    /\ active' = [active EXCEPT ![s][c] = 0]
    /\ dropped' = [dropped EXCEPT ![s] = @ \cup
                      {r \in RecordsOf(c) : amounts[s][r] > snap[s][t][r]}]
    /\ \/ t = "control" /\ Ack(s, t)
       \/ t = "data" /\ pc' = [pc EXCEPT ![s][t] = "broadcast"] /\ UNCHANGED eof
    /\ UNCHANGED <<gatewayVars, queueVars, consumer, data, localVars, outputVars,
                   boundVars>>

\* The control queues after a broadcast: those that exist get the EOF.
Broadcast(c) ==
    [s \in Sums |-> IF consumer[s]["control"] = "up"
                      THEN [ctrlQueue[s] EXCEPT ![c] = @ + 1]
                      ELSE ctrlQueue[s]]

\* Lines 128-134.  If this send raises, the client stays finished and the EOF
\* goes back to INPUT_QUEUE.
BroadcastEof(s, c) ==
    /\ AtEof(s, "data", c, "broadcast")
    /\ \E out \in SendOutcomes(ctrlLink[s]) :
         /\ ctrlLink' = [ctrlLink EXCEPT ![s] = out.link]
         /\ \/ /\ ~out.raised
               /\ ctrlQueue' = IF out.delivered THEN Broadcast(c) ELSE ctrlQueue
               /\ Ack(s, "data")
               /\ UNCHANGED <<eofReady, nacks>>
            \/ /\ out.raised /\ ~out.delivered
               /\ Nack(s, "data", c)
            \/ /\ out.raised /\ out.delivered
               /\ nacks < MaxNacks
               /\ nacks' = nacks + 1
               /\ ctrlQueue' = Broadcast(c)
               /\ eofReady' = IF consumer[s]["data"] = "up" THEN eofReady \cup {c}
                                                            ELSE eofReady
               /\ Ack(s, "data")
    /\ UNCHANGED <<gatewayVars, pending, consumer, data, filterVars, localVars, sent,
                   dataLink, dropped, faults>>

-----------------------------------------------------------------------------
(* Failures of connections.                                                *)

\* The connection thread t consumes on is lost.  What it had not acknowledged
\* goes back to INPUT_QUEUE; the control queue is exclusive, and is deleted.
\* The callback in progress runs on until its ack; then the thread is over.
LoseConsumer(s, t) ==
    /\ t \in Breakable
    /\ faults < MaxFaults
    /\ consumer[s][t] = "up"
    /\ consumer' = [consumer EXCEPT ![s][t] = "lost"]
    /\ faults' = faults + 1
    /\ \/ /\ t = "data"
          /\ pending' = pending \cup data[s]
          /\ eofReady' = eofReady \cup eof[s]["data"]
          /\ UNCHANGED ctrlQueue
       \/ /\ t = "control"
          /\ ctrlQueue' = [ctrlQueue EXCEPT ![s] = [c \in Clients |-> 0]]
          /\ UNCHANGED <<pending, eofReady>>
    /\ UNCHANGED <<gatewayVars, threadVars, filterVars, localVars, outputVars,
                   dropped, nacks>>

BreakDataLink(s, a) ==
    /\ "output" \in Breakable
    /\ faults < MaxFaults
    /\ dataLink[s][a] = "open"
    /\ dataLink' = [dataLink EXCEPT ![s][a] = "broken"]
    /\ faults' = faults + 1
    /\ UNCHANGED <<gatewayVars, queueVars, consumer, threadVars, filterVars,
                   localVars, sent, ctrlLink, dropped, nacks>>

BreakCtrlLink(s) ==
    /\ "broadcast" \in Breakable
    /\ faults < MaxFaults
    /\ ctrlLink[s] = "open"
    /\ ctrlLink' = [ctrlLink EXCEPT ![s] = "broken"]
    /\ faults' = faults + 1
    /\ UNCHANGED <<gatewayVars, queueVars, consumer, threadVars, filterVars,
                   localVars, sent, dataLink, dropped, nacks>>

-----------------------------------------------------------------------------
\* Everything was consumed and every thread waits for its next message.
Rest ==
    /\ eofSent = Clients /\ pending = {} /\ eofReady = {}
    /\ \A s \in Sums : /\ \A t \in Threads : Listening(s, t)
                      /\ \A c \in Clients : ctrlQueue[s][c] = 0
    /\ UNCHANGED vars

DataThread(s) ==
    \/ \E r \in Records : \/ DeliverData(s, r) \/ SkipData(s, r) \/ CountData(s, r)
                          \/ ProcessData(s, r) \/ ReleaseData(s, r)
    \/ \E c \in Clients : DeliverEof(s, c) \/ BroadcastEof(s, c)

ControlThread(s) == \E c \in Clients : DeliverControl(s, c)

ProcessEof(s, t) ==
    \E c \in Clients :
        \/ WaitForClientIdle(s, t, c)
        \/ FinalizeSkip(s, t, c)
        \/ FinalizeBegin(s, t, c)
        \/ \E f \in Fruits : SendPartialSum(s, t, c, f)
        \/ SendEof(s, t, c)
        \/ FinalizeEnd(s, t, c)

Fault ==
    \E s \in Sums : \/ \E t \in Threads : LoseConsumer(s, t)
                    \/ \E a \in Aggs : BreakDataLink(s, a)
                    \/ BreakCtrlLink(s)

Next ==
    \/ \E r \in Records : PublishData(r)
    \/ \E c \in Clients : PublishEof(c)
    \/ \E s \in Sums : Start(s) \/ DataThread(s) \/ ControlThread(s)
    \/ \E s \in Sums, t \in Threads : ProcessEof(s, t)
    \/ Fault
    \/ Rest

Spec == Init /\ [][Next]_vars

\* Threads are scheduled and the broker delivers: each thread that can take a
\* step takes one.  Nothing is assumed of the clients, of a Sum that has not
\* started, or of the failures.
Fairness ==
    \A s \in Sums :
        /\ WF_vars(DataThread(s) \/ ProcessEof(s, "data"))
        /\ WF_vars(ControlThread(s) \/ ProcessEof(s, "control"))

FairSpec == Spec /\ Fairness

-----------------------------------------------------------------------------
(* Correctness.                                                            *)

Pcs == {"idle", "received", "counted", "processed", "waiting", "finalize", "sending",
        "broadcast"}

\* Every variable keeps to its domain: the counters never stay negative, and what
\* is queued, in hand or dropped was sent by the gateway.
TypeOK ==
    /\ published \in SUBSET Records /\ eofSent \in SUBSET Clients
    /\ pending \in SUBSET published /\ eofReady \in SUBSET eofSent
    /\ ctrlQueue \in [Sums -> [Clients -> Nat]]
    /\ consumer \in [Sums -> [Threads -> {"down", "up", "lost"}]]
    /\ pc \in [Sums -> [Threads -> Pcs]]
    /\ data \in [Sums -> SUBSET published]
    /\ eof \in [Sums -> [Threads -> SUBSET eofSent]]
    /\ amounts \in [Sums -> Bag]
    /\ active \in [Sums -> [Clients -> Nat]]
    /\ finalizing \in [Sums -> SUBSET Clients]
    /\ finished \in [Sums -> SUBSET Clients]
    /\ snap \in [Sums -> [Threads -> Bag]]
    /\ left \in [Sums -> [Threads -> SUBSET Fruits]]
    /\ nextAgg \in [Sums -> [Threads -> 0 .. AGGREGATION_AMOUNT]]
    /\ sent \in [Sums -> [Clients -> [Aggs -> Seq(Messages)]]]
    /\ dataLink \in [Sums -> [Aggs -> LinkStates]]
    /\ ctrlLink \in [Sums -> LinkStates]
    /\ dropped \in [Sums -> SUBSET Records]
    /\ faults \in Nat /\ nacks \in Nat
    /\ \A s \in Sums, c \in Clients : ctrlQueue[s][c] > 0 => c \in eofSent

DataConsumersIntact == \A s \in Sums : consumer[s]["data"] # "lost"

\* A message of Sum s to some aggregation carries record r.
Carried(s, r) ==
    \E c \in Clients, a \in Aggs : \E i \in DOMAIN sent[s][c][a] :
        /\ sent[s][c][a][i].type = "PARTIAL_SUM"
        /\ sent[s][c][a][i].amount[r] > 0

Owns(s, r) == r \in data[s] \/ amounts[s][r] > 0 \/ Carried(s, r)

\* While no data consumer loses its connection, a record is counted by one Sum
\* only, and only once there, whatever the number of times the Sum resends its
\* partial sums; a record still in INPUT_QUEUE was not counted by any; and what a
\* message carries are records of its own client and fruit.
\* (INPUT_QUEUE hands each DATA message to one of the competing Sums, which
\* adds to its amounts and acknowledges afterwards, lines 150-173.)
NoDoubleCount ==
    DataConsumersIntact =>
        \A s \in Sums, r \in Records :
            /\ amounts[s][r] <= 1
            /\ Owns(s, r) => /\ r \notin pending
                             /\ \A q \in Sums \ {s} : ~Owns(q, r)
            /\ \A c \in Clients, a \in Aggs : \A i \in DOMAIN sent[s][c][a] :
                 (sent[s][c][a][i].type = "PARTIAL_SUM" /\ sent[s][c][a][i].amount[r] > 0) =>
                    /\ sent[s][c][a][i].amount[r] = 1
                    /\ c = ClientOf[r] /\ sent[s][c][a][i].fruit = FruitOf[r]

\* However the two threads and the Sums interleave, a Sum forgets at most one
\* record of a client: the one its data thread had in hand when the EOF
\* overtook it (the tests of lines 56, 72, 78 and 151 and the pop of line 115).
LossWindow ==
    DataConsumersIntact =>
        \A s \in Sums : \A q, r \in dropped[s] : ClientOf[q] = ClientOf[r] => q = r

\* Of the Sums that finish a client, one forgets nothing: the one whose data
\* thread took the EOF, since that thread had no DATA in hand.  With one Sum
\* nothing is lost; with N Sums at most N - 1 records of a client are.
TakerLosesNothing ==
    DataConsumersIntact =>
        \A c \in Clients :
            (\E s \in Sums : c \in finished[s]) =>
                \E s \in Sums : c \in finished[s] /\ dropped[s] \cap RecordsOf(c) = {}

OutputIntact == \A s \in Sums, a \in Aggs : dataLink[s][a] = "open"

\* While the output connections work, every aggregation gets from a Sum each
\* fruit of a client at most once, then one EOF and nothing after it, and all
\* the EOFs are out when the client is finished: the aggregation counts EOFs to
\* know it has every partial sum.
FlushThenEof ==
    OutputIntact =>
        \A s \in Sums, c \in Clients, a \in Aggs :
            LET ch == sent[s][c][a] IN
            /\ \A i, j \in DOMAIN ch : i < j => ch[i] # EofMessage
            /\ \A i, j \in DOMAIN ch :
                 (i # j /\ ch[i].type = "PARTIAL_SUM" /\ ch[j].type = "PARTIAL_SUM")
                    => ch[i].fruit # ch[j].fruit
            /\ c \in finished[s] => ch # <<>> /\ ch[Len(ch)] = EofMessage

\* While the output connections work no record vanishes: one that was published waits in
\* INPUT_QUEUE, is in a data thread's hand, was added to a Sum's amounts, is on its way to an
\* aggregation, or is one of the dropped, of which LossWindow and TakerLosesNothing say how
\* few they are.  (Lines 62-67 add, 80-81 copy, 86-95 send, 115 pops, 173 acknowledges.)
NothingVanishes ==
    OutputIntact =>
        \A r \in published : r \in pending \/ \E s \in Sums : Owns(s, r) \/ r \in dropped[s]

\* The records of a client that no Sum sent to an aggregation.
Missing(c) == {r \in published \cap RecordsOf(c) : \A s \in Sums : ~Carried(s, r)}

\* When every Sum has finished a client, all its records were sent but at most one for each
\* Sum less one, however the EOF and the control EOFs overtake what the Sums have in hand.
AlmostAllForwarded ==
    (DataConsumersIntact /\ OutputIntact) =>
        \A c \in Clients : (\A s \in Sums : c \in finished[s]) =>
            Cardinality(Missing(c)) <= Cardinality(Sums) - 1

\* A counter of DATA in progress is not left behind by the race between the
\* pop of line 116 and the decrement of line 164: it is zero unless the data
\* thread is between lines 154 and 164 with a record of that client.  (A counter
\* that stayed above zero would block _wait_for_client_idle for ever.)
CounterSettles ==
    \A s \in Sums, c \in Clients :
        active[s][c] # 0 =>
            /\ active[s][c] = 1
            /\ pc[s]["data"] \in {"counted", "processed"}
            /\ data[s] \cap RecordsOf(c) # {}

\* Once a Sum has finished a client no late DATA, repeated EOF or control
\* message makes it accumulate or send anything more for that client, or take
\* it up again.
FinishedIsFinal ==
    [][\A s \in Sums, c \in Clients : c \in finished[s] =>
          /\ c \in finished'[s] /\ c \notin finalizing'[s]
          /\ sent'[s][c] = sent[s][c]
          /\ EntryOf(amounts'[s], c) = NoRecords]_vars

\* The partial sums a Sum resends after a failed send have the message id of the
\* first ones, and the aggregation keeps the first.  They never carry less, and
\* they carry at most the one record that was in hand at the first attempt.
RetryAddsAtMostOne ==
    DataConsumersIntact =>
        \A s \in Sums, c \in Clients, a \in Aggs :
            LET ch == sent[s][c][a] IN
            \A i, j \in DOMAIN ch :
                (i < j /\ ch[i].type = "PARTIAL_SUM" /\ ch[j].type = "PARTIAL_SUM"
                       /\ ch[i].fruit = ch[j].fruit) =>
                    /\ \A r \in Records : ch[i].amount[r] <= ch[j].amount[r]
                    /\ \A q, r \in Records :
                         (ch[i].amount[q] < ch[j].amount[q] /\ ch[i].amount[r] < ch[j].amount[r])
                            => q = r

\* Without failures every Sum finishes every client whose EOF was sent, on
\* condition that it was up from the beginning.
EofReachesEverySum ==
    \A c \in Clients : c \in eofSent ~> \A s \in Sums : c \in finished[s]

-----------------------------------------------------------------------------
(* What the README of the program says, and the program does not do.       *)

\* README.md:39: when the end of the data is detected a Sum sends the totals to
\* the aggregations: when every Sum has finished a client, every record of it
\* was sent to some aggregation.
AllDataForwarded ==
    \A c \in Clients :
        (\A s \in Sums : c \in finished[s]) => Missing(c) = {}

\* README.md:301: a message of the input queue is consumed by one Sum, without
\* duplication.
CountedOnce ==
    \A r \in Records : \A s, q \in Sums :
        Carried(s, r) /\ Carried(q, r) => s = q

\* README.md:302: an EOF on the control exchange reaches all the Sums: once a
\* Sum has finished a client, every Sum does.
EofIsBroadcast ==
    \A c \in Clients : (\E s \in Sums : c \in finished[s])
                         ~> (\A s \in Sums : c \in finished[s])

-----------------------------------------------------------------------------
(* The inductive invariants of the proofs.                                 *)

HandlesData(s) == pc[s]["data"] \in {"received", "counted", "processed"}
HandlesEof(s, t) == pc[s][t] \in {"waiting", "finalize", "sending", "broadcast"}
Finalizes(s, t, c) == pc[s][t] = "sending" /\ c \in eof[s][t]

\* One message at a time per thread, of the kind its control point says; a
\* client is finalized by one thread, and never again once it is finished.
ThreadInv ==
    \A s \in Sums :
        /\ pc[s]["control"] \in {"idle", "waiting", "finalize", "sending"}
        /\ data[s] # {} => HandlesData(s)
        /\ \A q, r \in data[s] : q = r
        /\ \A t \in Threads : eof[s][t] # {} => HandlesEof(s, t)
        /\ \A t \in Threads : \A c, d \in eof[s][t] : c = d
        /\ \A t \in Threads, c \in Clients : Finalizes(s, t, c) => c \in finalizing[s]
        /\ \A c \in Clients : ~(Finalizes(s, "data", c) /\ Finalizes(s, "control", c))
        /\ finalizing[s] \cap finished[s] = {}
        /\ pc[s]["data"] = "broadcast" => eof[s]["data"] \subseteq finished[s]
        /\ \A r \in Records : ClientOf[r] \in finished[s] => amounts[s][r] = 0
        /\ \A r \in dropped[s] : ClientOf[r] \in finished[s]

\* A client whose EOF a Sum has seen has no more DATA on its way.
Settled(c) == c \in eofSent /\ Drained(c)

Seen(s, c) ==
    \/ ctrlQueue[s][c] # 0
    \/ \E t \in Threads : c \in eof[s][t]
    \/ c \in finalizing[s] \cup finished[s]

SettledInv == \A s \in Sums, c \in Clients : Seen(s, c) => Settled(c)

\* The records that the copy of a client's amounts missed.
Missed(s, r) ==
    \E t \in Threads : Finalizes(s, t, ClientOf[r]) /\ amounts[s][r] > snap[s][t][r]

\* All that a Sum can still lose of a client that it finalizes or has finished.
Exposed(s, r) == r \in dropped[s] \cup data[s] \/ Missed(s, r)

LossInv ==
    \A s \in Sums : \A q, r \in Records :
        (/\ ClientOf[q] = ClientOf[r]
         /\ ClientOf[r] \in finalizing[s] \cup finished[s]
         /\ Exposed(s, q) /\ Exposed(s, r)) => q = r

\* A control EOF comes from a Sum that has finished; the data thread's copy
\* misses nothing; and some Sum that has finished is safe for ever.
Safe(s, c) ==
    c \in finished[s] /\ \A r \in RecordsOf(c) : r \notin dropped[s] \cup data[s]

TakerInv ==
    /\ \A s \in Sums, c \in Clients :
         /\ ctrlQueue[s][c] # 0 \/ c \in eof[s]["control"] =>
                \E q \in Sums : c \in finished[q]
         /\ Finalizes(s, "data", c) =>
                \A r \in RecordsOf(c) : amounts[s][r] = snap[s]["data"][r]
    /\ \A c \in Clients :
         (\E s \in Sums : c \in finished[s]) => \E s \in Sums : Safe(s, c)

\* A record is in one place: in INPUT_QUEUE, or with one Sum.
OwnerInv ==
    \A s \in Sums, r \in Records :
        /\ Owns(s, r) => /\ r \in published \ pending
                         /\ \A q \in Sums \ {s} : ~Owns(q, r)
        /\ amounts[s][r] <= 1
        /\ (r \in data[s] /\ pc[s]["data"] \in {"received", "counted"}) => amounts[s][r] = 0
        /\ \A t \in Threads : (pc[s][t] = "sending" /\ snap[s][t][r] > 0) =>
               /\ snap[s][t][r] = 1 /\ amounts[s][r] = 1
               /\ ClientOf[r] \in eof[s][t]

MessageInv ==
    \A s \in Sums, r \in Records, c \in Clients, a \in Aggs :
        \A i \in DOMAIN sent[s][c][a] :
            (sent[s][c][a][i].type = "PARTIAL_SUM" /\ sent[s][c][a][i].amount[r] > 0) =>
                /\ sent[s][c][a][i].amount[r] = 1
                /\ c = ClientOf[r] /\ sent[s][c][a][i].fruit = FruitOf[r]

\* A Sum has accounted for a record when it was added to the amounts, sent, or dropped.
Accounted(s, r) == amounts[s][r] > 0 \/ Carried(s, r) \/ r \in dropped[s]

\* A client is being finalized by a thread; what its copy has of the client is still to be
\* sent or was sent; a message that is about to be acknowledged was accounted for.
CopyInv ==
    \A s \in Sums :
        /\ \A c \in finalizing[s] : \E t \in Threads : Finalizes(s, t, c)
        /\ \A t \in Threads, r \in Records :
             (Finalizes(s, t, ClientOf[r]) /\ snap[s][t][r] > 0) =>
                 FruitOf[r] \in left[s][t] \/ Carried(s, r)
        /\ pc[s]["data"] = "processed" => \A r \in data[s] : Accounted(s, r)

PlaceInv == \A r \in published : r \in pending \/ \E s \in Sums : r \in data[s] \/ Accounted(s, r)

=============================================================================
