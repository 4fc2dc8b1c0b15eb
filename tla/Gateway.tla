------------------------------- MODULE Gateway -------------------------------
(***************************************************************************)
(* The gateway (src/python/src/gateway/main.py) between the clients        *)
(* (src/python/src/client/main.py) and the queues of the system.           *)
(*                                                                         *)
(* Its main process accepts connections and lists them in client_list.  A  *)
(* pool of processes runs one handle_client_response for ever, which takes *)
(* the final tops from a queue and looks the client of each up in the      *)
(* list, and one handle_client_request for each client, which publishes    *)
(* the client's records and its end of records.  The two handlers of a     *)
(* client write on the same socket, with nothing to order them.            *)
(*                                                                         *)
(* A message on a socket is its type; a FRUIT_TOP says whose top it is.    *)
(***************************************************************************)
EXTENDS Integers, FiniteSets, SequencesExt, Middleware

CONSTANTS
    Clients,
    UploadSize,     \* the number of records each client has
    Former,         \* clients of a gateway that ran before on the same broker
    POOL_SIZE,      \* os.process_cpu_count()
    MaxCrashes,     \* bound on the clients that die
    MaxFaults       \* bound on the connections to RabbitMQ that fail

ASSUME GatewayAssumption ==
    /\ IsFiniteSet(Clients) /\ Former \cap Clients = {}
    /\ UploadSize \in [Clients -> Nat]
    /\ POOL_SIZE \in Nat \ {0}
    /\ MaxCrashes \in Nat /\ MaxFaults \in Nat

VARIABLES
    \* per client: its control point, the records it has not sent, whose top it has for
    \* its output file (written when it is done), and the two directions of its socket
    client, unsent, output, toGateway, toClient,
    \* the main process, up or down; connections to be accepted, client_list, the
    \* pool's tasks
    server, backlog, clientList, tasks,
    \* per client: the control point of its handle_client_request, its publishing
    \* connection, and the messages it put on INPUT_QUEUE
    request, link, published, eofPublished,
    \* the filters: clients whose end of records they have; the queue of final tops
    pipeline, results,
    \* handle_client_response: its control point, client_index, its connection
    responder, clientIndex, consumerUp,
    \* given with the inputs, and never changed: clients whose top has an amount of
    \* 2**32 or more; clients of a former gateway whose top was in the queue at first
    tooLarge, leftOver,
    \* bounds
    crashes, faults

clientVars   == <<client, unsent, output>>
mainVars     == <<server, backlog, clientList, tasks>>
requestVars  == <<request, link, published, eofPublished>>
givenVars    == <<tooLarge, leftOver>>
responseVars == <<responder, clientIndex, consumerUp, givenVars>>
boundVars    == <<crashes, faults>>
vars == <<clientVars, toGateway, toClient, mainVars, requestVars, pipeline, results,
          responseVars, boundVars>>

FruitTop(c) == [type |-> "FRUIT_TOP", of |-> c]
Other(type) == [type |-> type]
ClientMessages == {Other("FRUIT_RECORD"), Other("END_OF_RECODS"), Other("ACK")}
GatewayMessages == {Other("ACK")} \cup {FruitTop(c) : c \in Clients}

\* The queue of the final tops is durable: it may hold one that a former gateway did
\* not deliver.
Init ==
    /\ client = [c \in Clients |-> "start"]
    /\ unsent = UploadSize
    /\ output = [c \in Clients |-> {}]
    /\ toGateway = [c \in Clients |-> <<>>] /\ toClient = [c \in Clients |-> <<>>]
    /\ server = "up" /\ backlog = <<>> /\ clientList = <<>> /\ tasks = <<>>
    /\ request = [c \in Clients |-> "none"]
    /\ link = [c \in Clients |-> "open"]
    /\ published = [c \in Clients |-> 0]
    /\ eofPublished = [c \in Clients |-> FALSE]
    /\ pipeline = {} /\ results \in {<<>>} \cup {<<c>> : c \in Former}
    /\ leftOver = ToSet(results)
    /\ responder = "idle" /\ clientIndex = 0 /\ consumerUp = TRUE
    /\ tooLarge \in {{}} \cup {{c} : c \in Clients}
    /\ tooLarge = {} \/ results = <<>>
    /\ crashes = 0 /\ faults = 0

-----------------------------------------------------------------------------
(* The client.                                                             *)

Ended(c) == client[c] \in {"done", "failed", "gone", "lost"}

ToGateway(c, type) == toGateway' = [toGateway EXCEPT ![c] = Append(@, Other(type))]

Connect(c) ==
    /\ client[c] = "start" /\ server = "up"
    /\ client' = [client EXCEPT ![c] = "send"]
    /\ backlog' = Append(backlog, c)
    /\ UNCHANGED <<unsent, output, toGateway, toClient, server, clientList, tasks, requestVars,
                   pipeline, results, responseVars, boundVars>>

\* The loop over the rows of the file.
OneRowLeft(c) == unsent[c] <= 1
FileIsRead(c) == unsent[c] = 0

SendRecord(c) ==
    /\ client[c] = "send"
    /\ ~FileIsRead(c)
    /\ unsent' = [unsent EXCEPT ![c] = @ - 1]
    /\ ToGateway(c, "FRUIT_RECORD")
    /\ client' = [client EXCEPT ![c] = "recordAck"]
    /\ UNCHANGED <<output, toClient, mainVars, requestVars, pipeline, results, responseVars,
                   boundVars>>

SendEndOfRecords(c) ==
    /\ client[c] = "send"
    /\ FileIsRead(c)
    /\ ToGateway(c, "END_OF_RECODS")
    /\ client' = [client EXCEPT ![c] = "endAck"]
    /\ UNCHANGED <<unsent, output, toClient, mainVars, requestVars, pipeline, results,
                   responseVars, boundVars>>

\* The message that recv_msg returns after a record, or after the end of the
\* records, is not looked at.
ReceiveAck(c) ==
    /\ client[c] \in {"recordAck", "endAck"}
    /\ toClient[c] # <<>>
    /\ toClient' = [toClient EXCEPT ![c] = Tail(@)]
    /\ client' = [client EXCEPT ![c] = IF @ = "recordAck" THEN "send" ELSE "top"]
    /\ UNCHANGED <<unsent, output, toGateway, mainVars, requestVars, pipeline, results,
                   responseVars, boundVars>>

\* recv_fruit_top: it acknowledges whatever came, then looks at the type, and then
\* writes the file.
ReceiveTop(c) ==
    LET m == Head(toClient[c]) IN
    /\ client[c] = "top"
    /\ toClient[c] # <<>>
    /\ toClient' = [toClient EXCEPT ![c] = Tail(@)]
    /\ ToGateway(c, "ACK")
    /\ \/ /\ m.type = "FRUIT_TOP"
          /\ output' = [output EXCEPT ![c] = {m.of}]
          /\ client' = [client EXCEPT ![c] = "write"]
       \/ /\ m.type # "FRUIT_TOP"
          /\ client' = [client EXCEPT ![c] = "failed"]
          /\ UNCHANGED output
    /\ UNCHANGED <<unsent, mainVars, requestVars, pipeline, results, responseVars, boundVars>>

WriteTop(c) ==
    /\ client[c] = "write"
    /\ client' = [client EXCEPT ![c] = "done"]
    /\ UNCHANGED <<unsent, output, toGateway, toClient, mainVars, requestVars, pipeline, results,
                   responseVars, boundVars>>

\* A connection that is refused, or that the gateway no longer has: an exception ends
\* the client, unless it has its top.
LosesGateway(c) ==
    /\ server = "down" /\ ~Ended(c) /\ client[c] # "write"
    /\ client' = [client EXCEPT ![c] = "lost"]
    /\ UNCHANGED <<unsent, output, toGateway, toClient, mainVars, requestVars, pipeline, results,
                   responseVars, boundVars>>

\* The client dies, or SIGTERM shuts its socket down; the gateway sees it closed.
Die(c) ==
    /\ crashes < MaxCrashes
    /\ client[c] # "start" /\ ~Ended(c)
    /\ client' = [client EXCEPT ![c] = "gone"]
    /\ crashes' = crashes + 1
    /\ UNCHANGED <<unsent, output, toGateway, toClient, mainVars, requestVars, pipeline, results,
                   responseVars, faults>>

-----------------------------------------------------------------------------
(* The main process, and the pool.                                         *)

\* The client is listed before the pool has its task.
Accept ==
    /\ server = "up" /\ backlog # <<>>
    /\ backlog' = Tail(backlog)
    /\ clientList' = Append(clientList, Head(backlog))
    /\ tasks' = Append(tasks, Head(backlog))
    /\ UNCHANGED <<clientVars, toGateway, toClient, server, requestVars, pipeline, results,
                   responseVars, boundVars>>

\* A process of the pool is taken until the request handler returns.
EverStarted(c) == request[c] # "none"
IsBusy(c) == request[c] \in {"receive", "ackRecord", "ackEnd"}

\* handle_client_response has one process of the pool, until it returns.
ResponderProcesses == IF responder = "stopped" THEN 0 ELSE 1
HasOneMore == Cardinality({c \in Clients : IsBusy(c)}) < POOL_SIZE
HasProcess == Cardinality({c \in Clients : IsBusy(c)}) + ResponderProcesses < POOL_SIZE

StartRequest ==
    /\ tasks # <<>>
    /\ HasProcess
    /\ tasks' = Tail(tasks)
    /\ request' = [request EXCEPT ![Head(tasks)] = "receive"]
    /\ UNCHANGED <<clientVars, toGateway, toClient, server, backlog, clientList, link, published,
                   eofPublished, pipeline, results, responseVars, boundVars>>

\* SIGTERM: the sockets are shut down, accept() raises, and the pool is terminated,
\* each of its processes wherever it is.
Terminate ==
    /\ server = "up"
    /\ server' = "down"
    /\ backlog' = <<>> /\ tasks' = <<>>
    /\ request' = [c \in Clients |-> IF IsBusy(c) THEN "over" ELSE request[c]]
    /\ responder' = "stopped" /\ clientIndex' = 0
    /\ UNCHANGED <<clientVars, toGateway, toClient, clientList, link, published, eofPublished,
                   pipeline, results, consumerUp, givenVars, boundVars>>

-----------------------------------------------------------------------------
(* handle_client_request.                                                  *)

Takes(c, type) ==
    /\ request[c] = "receive"
    /\ toGateway[c] # <<>>
    /\ Head(toGateway[c]).type = type
    /\ toGateway' = [toGateway EXCEPT ![c] = Tail(@)]

\* What a send raises ends the handler; the client gets no acknowledgement.
AfterSend(c, raised, label) ==
    request' = [request EXCEPT ![c] = IF raised THEN "over" ELSE label]

PublishRecord(c) ==
    /\ Takes(c, "FRUIT_RECORD")
    /\ \E out \in SendOutcomes(link[c]) :
         /\ link' = [link EXCEPT ![c] = out.link]
         /\ published' = IF out.delivered THEN [published EXCEPT ![c] = @ + 1] ELSE published
         /\ AfterSend(c, out.raised, "ackRecord")
    /\ UNCHANGED <<clientVars, toClient, mainVars, eofPublished, pipeline, results, responseVars,
                   boundVars>>

PublishEof(c) ==
    /\ Takes(c, "END_OF_RECODS")
    /\ \E out \in SendOutcomes(link[c]) :
         /\ link' = [link EXCEPT ![c] = out.link]
         /\ \/ /\ out.delivered
               /\ eofPublished' = [eofPublished EXCEPT ![c] = TRUE]
               /\ pipeline' = pipeline \cup {c}
            \/ /\ ~out.delivered
               /\ UNCHANGED <<eofPublished, pipeline>>
         /\ AfterSend(c, out.raised, "ackEnd")
    /\ UNCHANGED <<clientVars, toClient, mainVars, published, results, responseVars, boundVars>>

\* recv_msg raises: the client is gone (what it had sent may be lost as well).
ReceiveFails(c) ==
    /\ request[c] = "receive" /\ client[c] = "gone"
    /\ request' = [request EXCEPT ![c] = "over"]
    /\ UNCHANGED <<clientVars, toGateway, toClient, mainVars, link, published, eofPublished,
                   pipeline, results, responseVars, boundVars>>

\* Lines 27-29 and 34-37.  A client that is gone may be noticed or not.
SendAck(c) ==
    /\ request[c] \in {"ackRecord", "ackEnd"}
    /\ \/ /\ request' = [request EXCEPT ![c] = IF @ = "ackRecord" THEN "receive" ELSE "over"]
          /\ toClient' = [toClient EXCEPT ![c] = Append(@, Other("ACK"))]
       \/ /\ client[c] = "gone"
          /\ request' = [request EXCEPT ![c] = "over"]
          /\ UNCHANGED toClient
    /\ UNCHANGED <<clientVars, toGateway, mainVars, link, published, eofPublished, pipeline,
                   results, responseVars, boundVars>>

-----------------------------------------------------------------------------
\* The filters: one final top for each client whose EOF they have, some time
\* (SumFilter, AggregationFilter and JoinFilter).
ComputeTop(c) ==
    /\ c \in pipeline
    /\ pipeline' = pipeline \ {c}
    /\ results' = Append(results, c)
    /\ UNCHANGED <<clientVars, toGateway, toClient, mainVars, requestVars, responseVars,
                   boundVars>>

-----------------------------------------------------------------------------
(* handle_client_response.  Its message stays at the head of results until  *)
(* it is acknowledged; one that is given back stays there for ever, for the *)
(* handler stops, and nothing starts it again.                              *)

\* deserialize_result_message: a top of another client is passed over.
AnyTop(result, entry) == TRUE
Matches(result, entry) == result = entry

\* client_index of the first client in the list that takes the result; 0 if none.
Lookup(result) == SelectInSeq(clientList, LAMBDA entry : Matches(result, entry))

\* Line 68 or 72, then the ack.  On a connection that was lost the ack raises,
\* and so does the nack.
PoppedLast(list, i) == Front(list)
Popped(list, i) == RemoveAt(list, i)

PopAndAck(i) ==
    /\ clientList' = Popped(clientList, i)
    /\ clientIndex' = 0
    /\ \/ consumerUp /\ responder' = "idle" /\ results' = Tail(results)
       \/ ~consumerUp /\ responder' = "stopped" /\ UNCHANGED results

\* The exceptions that are no socket.error: nack, and stop_consuming.
NackAndStop ==
    /\ responder' = "stopped"
    /\ clientIndex' = 0
    /\ UNCHANGED <<clientList, results>>

\* Lines 52-65.
SendTop ==
    LET i == Lookup(Head(results)) IN
    /\ responder = "idle" /\ consumerUp
    /\ results # <<>>
    /\ i # 0 /\ Head(results) \notin tooLarge
    /\ \/ /\ responder' = "ack"
          /\ clientIndex' = i
          /\ toClient' = [toClient EXCEPT ![clientList[i]] = Append(@, FruitTop(Head(results)))]
          /\ UNCHANGED <<clientList, results>>
       \/ /\ Ended(clientList[i])
          /\ PopAndAck(i)
          /\ UNCHANGED toClient
    /\ UNCHANGED <<clientVars, toGateway, server, backlog, tasks, requestVars, pipeline,
                   consumerUp, givenVars, boundVars>>

\* An amount of the top does not fit in four bytes, and nothing is written.
TopDoesNotFit ==
    /\ responder = "idle" /\ consumerUp
    /\ results # <<>>
    /\ Lookup(Head(results)) # 0 /\ Head(results) \in tooLarge
    /\ NackAndStop
    /\ UNCHANGED <<clientVars, toGateway, toClient, server, backlog, tasks, requestVars, pipeline,
                   consumerUp, givenVars, boundVars>>

\* No client of the list takes it: the loop ends behind the last one.
FindNobody ==
    /\ responder = "idle" /\ consumerUp
    /\ results # <<>>
    /\ Lookup(Head(results)) = 0
    /\ responder' = "pop" /\ clientIndex' = Len(clientList) + 1
    /\ UNCHANGED <<clientVars, toGateway, toClient, mainVars, requestVars, pipeline, results,
                   consumerUp, givenVars, boundVars>>

\* Line 68, behind that loop: out of range; or the main process has listed a client
\* meanwhile, the first of those listed since is removed, and the result acknowledged.
PopBehindLast ==
    /\ responder = "pop"
    /\ \/ clientIndex \in DOMAIN clientList /\ PopAndAck(clientIndex)
       \/ clientIndex \notin DOMAIN clientList /\ NackAndStop
    /\ UNCHANGED <<clientVars, toGateway, toClient, server, backlog, tasks, requestVars, pipeline,
                   consumerUp, givenVars, boundVars>>

\* Line 66, then 68-69.
ReceiveTopAck ==
    LET c == clientList[clientIndex] IN
    /\ responder = "ack"
    /\ toGateway[c] # <<>>
    /\ toGateway' = [toGateway EXCEPT ![c] = Tail(@)]
    /\ PopAndAck(clientIndex)
    /\ UNCHANGED <<clientVars, toClient, server, backlog, tasks, requestVars, pipeline,
                   consumerUp, givenVars, boundVars>>

\* Line 66 raises: a connection that was reset is a socket.error (lines 70-73),
\* the end of the stream an IncompleteReadError (lines 74-77).
ReceiveTopAckFails ==
    LET c == clientList[clientIndex] IN
    /\ responder = "ack"
    /\ Ended(c) /\ toGateway[c] = <<>>
    /\ PopAndAck(clientIndex) \/ NackAndStop
    /\ UNCHANGED <<clientVars, toGateway, toClient, server, backlog, tasks, requestVars, pipeline,
                   consumerUp, givenVars, boundVars>>

-----------------------------------------------------------------------------
(* Failures of the connections to RabbitMQ.                                *)

BreakLink(c) ==
    /\ faults < MaxFaults /\ faults' = faults + 1
    /\ IsBusy(c) /\ link[c] = "open"
    /\ link' = [link EXCEPT ![c] = "broken"]
    /\ UNCHANGED <<clientVars, toGateway, toClient, mainVars, request, published, eofPublished,
                   pipeline, results, responseVars, crashes>>

LoseConsumer ==
    /\ faults < MaxFaults /\ faults' = faults + 1
    /\ consumerUp /\ responder # "stopped"
    /\ consumerUp' = FALSE
    /\ responder' = IF responder = "idle" THEN "stopped" ELSE responder
    /\ UNCHANGED <<clientVars, toGateway, toClient, mainVars, requestVars, pipeline, results,
                   clientIndex, givenVars, crashes>>

-----------------------------------------------------------------------------
ClientStep(c) ==
    \/ SendRecord(c) \/ SendEndOfRecords(c) \/ ReceiveAck(c) \/ ReceiveTop(c) \/ WriteTop(c)
    \/ LosesGateway(c)

RequestStep(c) == PublishRecord(c) \/ PublishEof(c) \/ ReceiveFails(c) \/ SendAck(c)

ResponseStep ==
    \/ SendTop \/ ReceiveTopAck \/ ReceiveTopAckFails
    \/ TopDoesNotFit \/ FindNobody \/ PopBehindLast

Next ==
    \/ \E c \in Clients : \/ Connect(c) \/ ClientStep(c) \/ Die(c)
                          \/ RequestStep(c) \/ ComputeTop(c) \/ BreakLink(c)
    \/ Accept \/ StartRequest \/ Terminate
    \/ ResponseStep \/ LoseConsumer

Spec == Init /\ [][Next]_vars

\* Processes are scheduled, a client that is alive goes on with its protocol, and
\* the filters answer.  Nothing makes a client connect.
Fairness ==
    /\ \A c \in Clients : /\ WF_vars(ClientStep(c))
                          /\ WF_vars(RequestStep(c))
                          /\ WF_vars(ComputeTop(c))
    /\ WF_vars(Accept) /\ WF_vars(StartRequest)
    /\ WF_vars(ResponseStep)

FairSpec == Spec /\ Fairness

-----------------------------------------------------------------------------
(* Correctness.                                                            *)

\* Every variable keeps to its domain; the request handlers that run, and the response
\* handler while it does, are no more than the pool has processes; and client_index is
\* that of a client in the list while the response handler waits for its acknowledgement,
\* and behind a client or none when it has found nobody.
TypeOK ==
    /\ client \in [Clients -> {"start", "send", "recordAck", "endAck", "top",
                               "write", "done", "failed", "gone", "lost"}]
    /\ \A c \in Clients : unsent[c] \in 0 .. UploadSize[c]
    /\ output \in [Clients -> SUBSET Clients]
    /\ toGateway \in [Clients -> Seq(ClientMessages)]
    /\ toClient \in [Clients -> Seq(GatewayMessages)]
    /\ server \in {"up", "down"}
    /\ {backlog, clientList, tasks} \subseteq Seq(Clients)
    /\ results \in Seq(Clients \cup Former)
    /\ request \in [Clients -> {"none", "receive", "ackRecord", "ackEnd", "over"}]
    /\ link \in [Clients -> LinkStates]
    /\ published \in [Clients -> Nat] /\ eofPublished \in [Clients -> BOOLEAN]
    /\ pipeline \in SUBSET Clients
    /\ responder \in {"idle", "ack", "pop", "stopped"} /\ consumerUp \in BOOLEAN
    /\ clientIndex \in 0 .. Len(clientList) + 1
    /\ clientIndex = 0 <=> responder \in {"idle", "stopped"}
    /\ responder = "ack" => clientIndex \in DOMAIN clientList
    /\ tooLarge \in SUBSET Clients /\ leftOver \in SUBSET Former
    /\ crashes \in Nat /\ faults \in Nat
    /\ Cardinality({c \in Clients : request[c] \in {"receive", "ackRecord", "ackEnd"}})
         + ResponderProcesses <= POOL_SIZE

\* client_index is counted in one round over the list, and used for the pop after a
\* wait, or just behind the last client, with nothing to keep the main process from
\* listing others meanwhile (lines 52-59 and 68, 72, 115).  While the response handler
\* runs no client is listed twice, and the tops being computed or waiting that will find
\* nobody are no more than those a former gateway left: such a top takes no client with
\* it, or one, whose own top is then the one that finds nobody.  When none was left, the
\* top of every client finds it.
StrayTops == {c \in pipeline \cup ToSet(results) : c \notin ToSet(clientList)}

ResultFindsItsClient ==
    responder # "stopped" =>
        /\ IsInjective(clientList)
        /\ Cardinality(StrayTops) <= Cardinality(leftOver)

\* A client never gets, or writes, the top of another one (message_handler.py:154
\* against the list that lines 52-59 go through).
OwnTopOnly ==
    \A c \in Clients :
        /\ output[c] \subseteq {c}
        /\ \A i \in DOMAIN toClient[c] : toClient[c][i] \in {Other("ACK"), FruitTop(c)}

Trouble ==
    \/ crashes > 0 \/ faults > 0 \/ server = "down"
    \/ tooLarge # {}
    \/ leftOver # {} /\ ~(ToSet(results) \subseteq ToSet(clientList))

\* The one process that delivers tops stops only on SIGTERM, when a client died, a
\* connection was lost, a top cannot be written, or, if a former gateway left one, it or
\* that of a client that lost its place to it is in the queue: no order of accepts,
\* uploads, tops and acknowledgements brings it to lines 74-77 otherwise.
ResponderSurvives == responder = "stopped" => Trouble

\* When the EOF of a client is in INPUT_QUEUE all its records are, before it, unless
\* its connection swallowed some.  (The Sums take for granted that nothing follows.)
EofIsLast ==
    \A c \in Clients :
        /\ (eofPublished[c] /\ faults = 0) => published[c] = UploadSize[c]
        /\ eofPublished[c] => request[c] \in {"ackEnd", "over"}

\* Each client that connects gets its turn in the pool, is served and answered, the
\* others taking theirs at the same time, unless something goes wrong with a client, a
\* connection or a top.  SIGTERM ends all of them, whatever went wrong before.
EveryClientAnswered ==
    \A c \in Clients : client[c] = "send" ~> Ended(c) \/ (Trouble /\ server = "up")

-----------------------------------------------------------------------------
(* What the README of the program says, and the program does not do.       *)

\* README.md:25: when it has sent its data the client waits for its top and writes
\* it to its output file: it does not take another message for the top.
ClientWritesItsTop == \A c \in Clients : client[c] # "failed"

=============================================================================
