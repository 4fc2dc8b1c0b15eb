----------------------------- MODULE JoinFilter -----------------------------
(***************************************************************************)
(* The Join (src/python/src/join/main.py): one thread that takes the       *)
(* partial tops from INPUT_QUEUE, one per aggregation that takes its       *)
(* signals from a coordination queue, and the monitor that looks for       *)
(* clients of which everything came, and sends their final top.            *)
(*                                                                         *)
(* JoinFilter's fields are under one lock and JoinWorker's under another.  *)
(* The listeners' callbacks hold a lock for all that they do, so each is   *)
(* one action; the monitor is cut where it lets a lock go and at the send. *)
(***************************************************************************)
EXTENDS Sequences, Middleware, FruitTop

CONSTANTS
    Clients, AGGREGATION_AMOUNT,
    PartialTop,     \* the partial top of each aggregation and client
    Breakable,      \* the kinds of connection that can fail
    MaxFaults       \* bound on the connections that fail

Aggs == 0 .. (AGGREGATION_AMOUNT - 1)

ASSUME JoinAssumption ==
    /\ AGGREGATION_AMOUNT \in Nat \ {0}
    /\ \A a \in Aggs, c \in Clients : IsTable(PartialTop[a][c])
    /\ Breakable \subseteq {"input", "coordination", "output"}
    /\ MaxFaults \in Nat

VARIABLES
    \* the queues, by aggregation and client; the order of messages of different
    \* clients or aggregations is left free, which no callback depends on
    joinQueue, coordQueue,
    \* what the aggregations did: "working", "topSent", "signalled", or "stopped"
    aggregation,
    \* the consuming connections, and the publishing one
    inputUp, coordUp, outLink,
    \* JoinFilter: by client, the tops that came (a function from aggregations)
    partialTops, completed, finalizing,
    \* JoinWorker: by client, the aggregations that signalled; the ready clients
    aggsFinished, ready,
    \* the monitor: its control point, the clients still to be sent, the one in hand
    \* and its final top
    monitor, toSend, current, payload,
    \* by client, the final tops sent to the gateway
    results,
    \* bound
    faults

queueVars   == <<joinQueue, coordQueue>>
linkVars    == <<inputUp, coordUp>>
filterVars  == <<partialTops, completed, finalizing>>
workerVars  == <<aggsFinished, ready>>
monitorVars == <<monitor, toSend, current, payload>>
vars == <<queueVars, aggregation, linkVars, outLink, filterVars, workerVars, monitorVars,
          results, faults>>

JoinInit ==
    /\ inputUp = TRUE
    /\ coordUp = [a \in Aggs |-> TRUE]
    /\ outLink = "open"
    /\ partialTops = [c \in Clients |-> [a \in {} |-> NoFruits]]
    /\ completed = {} /\ finalizing = {}
    /\ aggsFinished = [c \in Clients |-> {}]
    /\ ready = {}
    /\ monitor = "scan" /\ toSend = {} /\ current = {} /\ payload = NoFruits
    /\ results = [c \in Clients |-> <<>>]
    /\ faults = 0

Init ==
    /\ joinQueue = [a \in Aggs |-> [c \in Clients |-> <<>>]]
    /\ coordQueue = [a \in Aggs |-> [c \in Clients |-> 0]]
    /\ aggregation = [a \in Aggs |-> [c \in Clients |-> "working"]]
    /\ JoinInit

-----------------------------------------------------------------------------
(* The aggregations, as far as the join sees them (AggregationFilter.tla):  *)
(* the partial top, then the signal; or they stop in between.               *)

AggSends(a, c) ==
    /\ aggregation[a][c] = "working"
    /\ aggregation' = [aggregation EXCEPT ![a][c] = "topSent"]
    /\ joinQueue' = [joinQueue EXCEPT ![a][c] = Append(@, PartialTop[a][c])]
    /\ UNCHANGED <<coordQueue, linkVars, outLink, filterVars, workerVars, monitorVars, results,
                   faults>>

AggSignals(a, c) ==
    /\ aggregation[a][c] = "topSent"
    /\ aggregation' = [aggregation EXCEPT ![a][c] = "signalled"]
    /\ coordQueue' = [coordQueue EXCEPT ![a][c] = @ + 1]
    /\ UNCHANGED <<joinQueue, linkVars, outLink, filterVars, workerVars, monitorVars, results,
                   faults>>

-----------------------------------------------------------------------------
(* The listeners.                                                          *)

Received(c) == DOMAIN partialTops[c]

\* _process_partial_top: a completed client and a source that is known are passed.
ProcessPartialTop(a, c) ==
    /\ inputUp
    /\ joinQueue[a][c] # <<>>
    /\ joinQueue' = [joinQueue EXCEPT ![a][c] = Tail(@)]
    /\ partialTops' = IF c \in completed \/ a \in Received(c) THEN partialTops
                      ELSE [partialTops EXCEPT ![c] =
                              [i \in DOMAIN @ \cup {a} |->
                                  IF i = a THEN Head(joinQueue[a][c]) ELSE @[i]]]
    /\ UNCHANGED <<coordQueue, aggregation, linkVars, outLink, completed, finalizing,
                   workerVars, monitorVars, results, faults>>

\* Line 288: the barrier.
AllSignalled(signals) == Cardinality(signals) = AGGREGATION_AMOUNT

\* coordination_callback, in the listener of aggregation a.
ProcessSignal(a, c) ==
    LET signals == aggsFinished[c] \cup {a} IN
    /\ coordUp[a]
    /\ coordQueue[a][c] > 0
    /\ coordQueue' = [coordQueue EXCEPT ![a][c] = @ - 1]
    /\ aggsFinished' = [aggsFinished EXCEPT ![c] = signals]
    /\ ready' = IF AllSignalled(signals) THEN ready \cup {c} ELSE ready
    /\ UNCHANGED <<joinQueue, aggregation, linkVars, outLink, filterVars, monitorVars, results,
                   faults>>

-----------------------------------------------------------------------------
(* The monitor.                                                            *)

\* Lines 308-309.  get_aggs_received_count reads JoinFilter's table without its lock;
\* a top that arrives during the scan is seen now or by the next scan.
AnyCount(c) == TRUE
AllReceived(c) == Cardinality(Received(c)) >= AGGREGATION_AMOUNT

\* Lines 306-311: the clients to be sent leave the ready ones.
Scan ==
    /\ monitor = "scan"
    /\ toSend' = {c \in ready : AllReceived(c)}
    /\ toSend' # {}
    /\ ready' = ready \ toSend'
    /\ monitor' = "next"
    /\ UNCHANGED <<queueVars, aggregation, linkVars, outLink, filterVars, aggsFinished, current,
                   payload, results, faults>>

\* Line 69.
AlreadySent(c) == c \in completed \cup finalizing

\* Lines 68-85, for one of the clients to be sent.  (No client is AlreadySent as long
\* as every aggregation signals it once, which AggregationFilter.tla shows.)
BeginFinalTop(c) ==
    /\ monitor = "next"
    /\ c \in toSend
    /\ toSend' = toSend \ {c}
    /\ IF AlreadySent(c)
         THEN UNCHANGED <<finalizing, payload, current, monitor>>
         ELSE /\ finalizing' = finalizing \cup {c}
              /\ payload' = TopOf(MergeOf(partialTops[c]))
              /\ current' = {c}
              /\ monitor' = "send"
    /\ UNCHANGED <<queueVars, aggregation, linkVars, outLink, partialTops, completed,
                   workerVars, results, faults>>

\* The loop of line 313 is over; line 320.
EndScan ==
    /\ monitor = "next" /\ toSend = {}
    /\ monitor' = "scan"
    /\ UNCHANGED <<queueVars, aggregation, linkVars, outLink, filterVars, workerVars, toSend,
                   current, payload, results, faults>>

\* Lines 91 and 95.
NotDiscarded(clients, c) == clients
Discarded(clients, c) == clients \ {c}

\* Line 88; if it raises, lines 90-91 and then 317-318: the client is ready again.
NotReadyAgain(c) == ready
ReadyAgain(c) == ready \cup {c}

SendFinalTop(c) ==
    /\ monitor = "send" /\ c \in current
    /\ \E out \in SendOutcomes(outLink) :
         /\ outLink' = out.link
         /\ results' = IF out.delivered THEN [results EXCEPT ![c] = Append(@, payload)]
                                        ELSE results
         /\ \/ /\ ~out.raised
               /\ monitor' = "end"
               /\ UNCHANGED <<finalizing, ready, current>>
            \/ /\ out.raised
               /\ finalizing' = Discarded(finalizing, c)
               /\ ready' = ReadyAgain(c)
               /\ current' = {}
               /\ monitor' = "next"
    /\ UNCHANGED <<queueVars, aggregation, linkVars, partialTops, completed, aggsFinished, toSend,
                   payload, faults>>

\* Lines 97-98: the client's entries of the two dictionaries are popped.
NoTops == [a \in {} |-> NoFruits]
KeptTops(tops, c) == tops
WithoutTops(tops, c) == [tops EXCEPT ![c] = NoTops]

\* Lines 94-98.
EndFinalTop(c) ==
    /\ monitor = "end" /\ c \in current
    /\ finalizing' = Discarded(finalizing, c)
    /\ completed' = completed \cup {c}
    /\ partialTops' = WithoutTops(partialTops, c)
    /\ current' = {}
    /\ monitor' = "next"
    /\ UNCHANGED <<queueVars, aggregation, linkVars, outLink, workerVars, toSend, payload,
                   results, faults>>

-----------------------------------------------------------------------------
(* Failures.  A listener whose connection is lost logs it and ends; the     *)
(* queues are durable, and keep what nobody takes.                          *)

LoseInput ==
    /\ "input" \in Breakable /\ inputUp
    /\ faults < MaxFaults /\ faults' = faults + 1
    /\ inputUp' = FALSE
    /\ UNCHANGED <<queueVars, aggregation, coordUp, outLink, filterVars, workerVars, monitorVars,
                   results>>

LoseCoordination(a) ==
    /\ "coordination" \in Breakable /\ coordUp[a]
    /\ faults < MaxFaults /\ faults' = faults + 1
    /\ coordUp' = [coordUp EXCEPT ![a] = FALSE]
    /\ UNCHANGED <<queueVars, aggregation, inputUp, outLink, filterVars, workerVars, monitorVars,
                   results>>

BreakOutput ==
    /\ "output" \in Breakable /\ outLink = "open"
    /\ faults < MaxFaults /\ faults' = faults + 1
    /\ outLink' = "broken"
    /\ UNCHANGED <<queueVars, aggregation, linkVars, filterVars, workerVars, monitorVars,
                   results>>

-----------------------------------------------------------------------------
DataListener == \E a \in Aggs, c \in Clients : ProcessPartialTop(a, c)
CoordinationListener(a) == \E c \in Clients : ProcessSignal(a, c)
Monitor ==
    \/ Scan \/ EndScan
    \/ \E c \in Clients : BeginFinalTop(c) \/ SendFinalTop(c) \/ EndFinalTop(c)

JoinStep ==
    \/ DataListener
    \/ \E a \in Aggs : CoordinationListener(a)
    \/ Monitor
    \/ LoseInput \/ BreakOutput
    \/ \E a \in Aggs : LoseCoordination(a)

Next ==
    \/ \E a \in Aggs, c \in Clients : AggSends(a, c) \/ AggSignals(a, c)
    \/ JoinStep

Spec == Init /\ [][Next]_vars

-----------------------------------------------------------------------------
(* Correctness.                                                            *)

\* Every variable keeps to its domain, and a client is being finalized exactly while
\* the monitor is sending its final top.
TypeOK ==
    /\ \A a \in Aggs, c \in Clients : \A i \in DOMAIN joinQueue[a][c] : IsTable(joinQueue[a][c][i])
    /\ coordQueue \in [Aggs -> [Clients -> Nat]]
    /\ inputUp \in BOOLEAN /\ coordUp \in [Aggs -> BOOLEAN]
    /\ outLink \in LinkStates
    /\ \A c \in Clients : /\ Received(c) \subseteq Aggs
                          /\ \A a \in Received(c) : IsTable(partialTops[c][a])
    /\ completed \in SUBSET Clients /\ finalizing \in SUBSET Clients
    /\ aggsFinished \in [Clients -> SUBSET Aggs]
    /\ ready \in SUBSET Clients
    /\ monitor \in {"scan", "next", "send", "end"}
    /\ toSend \in SUBSET Clients /\ current \in SUBSET Clients
    /\ IsTable(payload)
    /\ \A c \in Clients : \A i \in DOMAIN results[c] : IsTable(results[c][i])
    /\ faults \in Nat
    /\ monitor \in {"scan", "next"} <=> current = {}
    /\ finalizing = current

\* A client gets one final top at most, the retries of failed sends included, and it
\* is the top of all the partial tops: it is not made before the last of them came,
\* in whatever order tops and signals come through their queues (the barrier of
\* lines 288 and 308-309, and lines 69, 96 and 317-318).
FinalTopIsExact ==
    \A c \in Clients :
        /\ Len(results[c]) <= 1
        /\ \A i \in DOMAIN results[c] :
             /\ \A a \in Aggs : aggregation[a][c] = "signalled"
             /\ results[c][i] = TopOf(MergeOf([a \in Aggs |-> PartialTop[a][c]]))

\* No client is forgotten: once all the signals of a client came, either it is
\* completed or the monitor has it or will find it; a send that raises gives it back.
NoLostWakeup ==
    \A c \in Clients :
        aggsFinished[c] = Aggs => c \in completed \cup ready \cup toSend \cup current

\* A completed client stays so, and is not accumulated or sent again.
CompletedIsFinal ==
    [][\A c \in completed : /\ c \in completed' /\ c \notin finalizing'
                            /\ Received(c)' = {}
                            /\ results'[c] = results[c]]_vars

=============================================================================
