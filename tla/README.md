# Specifications of tp-coord

TLA+ specifications of the Python program under `src/python`: clients upload
(fruit, amount) records to a gateway, several *Sum* processes add them up,
several *Aggregation* processes keep the fruits assigned to them, a *Join* makes
the final top, and the gateway gives each client its own. The processes talk
through RabbitMQ. Paths below are relative to `src/python/src` unless they start
with `src/`.

Contents: [the system](#the-system) · [the modules](#the-modules) ·
[model and code](#model-and-code) · [the runs](#the-runs) ·
[fairness](#fairness) · [the proofs](#the-proofs) ·
[where the code departs from its documentation](#where-the-code-departs-from-its-documentation) ·
[not modelled](#what-is-not-modelled) · [plan](#plan)

## The system

```
                    INPUT_QUEUE               aggregation exchange
 clients <-> Gateway ---------> Sum_0..Sum_n-1 ------> Agg_0..Agg_m-1
   ^            ^                |  ^ control          |        |
   | TCP        |                +--+ exchange         | tops   | signals
   |            |   results queue                      v        v
   +---------- Gateway <---------------------------------- Join
```

| component | source | state it keeps | operations | interacts with |
|---|---|---|---|---|
| Client | `client/main.py` | socket, rows not sent, output file | connect, send record / wait for ACK, send end of records / wait, receive the top and acknowledge it | the gateway, one socket |
| Gateway | `gateway/main.py` | `client_list` (shared through a Manager), the process pool, a socket and a `MessageHandler` per client | accept; `handle_client_request` (one per client); `handle_client_response` (one for ever) | clients; `INPUT_QUEUE`; the queue of final tops |
| Message handler, internal protocol | `gateway/message_handler/`, `common/message_protocol/internal.py` | the client's id | build and parse the messages of the queues; say whose a result is | everybody |
| External protocol | `common/message_protocol/external*.py` | none | bytes of a message on a socket | client, gateway |
| Sum filter | `sum/main.py` | `amount_by_fruit_by_client`, counters of DATA in progress, `finalizing_clients`, `finished_clients`, one lock | DATA, EOF, control EOF; two threads | `INPUT_QUEUE` (competing consumers), the control exchange (to and from all the Sums), the exchange of the aggregations |
| Aggregation filter | `aggregation/main.py` | sorted list per client, count and set of EOFs, ids of partial sums, completed and finalizing clients | partial sum, EOF, top, signal; one thread | the Sums; the join's queue; one coordination queue each |
| Top, `FruitItem` | `common/fruit_item/`, `aggregation/main.py`, `join/main.py` | none | add, compare, sort and cut | aggregations, join |
| Join | `join/main.py` | partial tops per client, sources, completed and finalizing clients (one lock); signals per client, ready clients (another lock) | partial top, signal, scan, final top; one thread for tops, one per aggregation for signals, one monitor | the aggregations; the gateway |
| Middleware | `common/middleware/` | a connection, a channel, the consumer tag | send, consume with ack and nack, stop, close | RabbitMQ, through pika |
| Shutdown | every `main.py` | `should_exit`, `sigterm_received` | SIGTERM, stop the consumers, join the threads, close | |
| Output verifier | `src/python/verify_output.py` | none | expected totals of a client | |
| Go skeleton | `src/golang` | | the unfinished starting point of the exercise | |
| Deployment | `docker-compose.yaml`, `Makefile` | | number of instances, ids, no restart policy | |

What is hard about it:

* **Order between channels.** A client's DATA messages share a queue with its
  EOF, but they are taken by competing Sums; the EOF reaches the other Sums
  through a second channel, and may overtake a DATA message that a Sum has in
  hand. In the join, tops and signals come through different queues to
  different threads. On a client's socket two gateway processes write.
* **Threads.** A Sum's two threads and the join's three or more share tables
  under a lock that they let go around every send.
* **Failures.** Publishes are not confirmed; a connection that nobody services
  can be dead without pika knowing; messages are acknowledged after their
  effect; a send in the middle of several may raise, and the whole is tried
  again; the queues of Sums' controls and of aggregations exist only while their
  owner is connected.
* **Counting to know the end.** Who answers depends on three counts over three
  kinds of process: one EOF per Sum, one top and one signal per aggregation.
* **Ending.** Each process has a handler that interrupts its main thread anywhere,
  while other threads, or other processes of a pool, use the connections that it
  stops and closes.
* **Bytes.** Lengths in characters read as lengths in bytes, integers of four
  bytes for totals without a limit, and a stream that `recv` cuts anywhere.

For each component, what makes it correct:

* *Sums*: a record is counted once; each aggregation gets each fruit once and
  then one EOF; every Sum finishes every client; a finished client is never
  taken up again; what is lost of a client is bounded and has a known cause.
* *Aggregations*: the partial top is the top of what the Sums sent, with no
  duplicate counted and nothing missing; the signal comes after the top and once.
* *Join*: one final top per client, made of all the partial ones; no ready
  client forgotten.
* *The three together*: one answer per client, the top of what it uploaded but for
  the records that may be lost, made of each forwarded record once.
* *Gateway*: each result finds its client and nobody else's, unless a former gateway
  left a result that has no client; the only process that delivers does not stop
  without cause; the EOF is the last message of a
  client in the queue; every client is answered, or comes to know.
* *External protocol*: what is received is what was sent; a message that cannot be
  written is not half written; no end of an upload is made up of other bytes.
* *Shutdown*: a signal ends the process; a consumer that is stopped takes nothing
  more; nobody uses a connection that was closed.

`PROJECT.json` lists every hazard with its line and the properties that are
about it.

## The modules

| module | what it is |
|---|---|
| `Middleware` | what a component can observe of a publishing connection: open, broken, closed |
| `SumFilter` | all the Sums, `INPUT_QUEUE` and the control exchange |
| `FruitTop` | tables of amounts, the order of `FruitItem`, sum and top |
| `AggregationFilter` | all the aggregations, with the Sums reduced to what they send |
| `JoinFilter` | the join, with the aggregations reduced to what they send |
| `UploadService` | abstract: a client uploads records, closes, and gets one answer |
| `Pipeline` | `SumFilter`, `AggregationFilter` and `JoinFilter` composed; implements `UploadService` |
| `Gateway` | the gateway and its clients, with the filters reduced to a delay |
| `ExternalProtocol` | the bytes between a client and the gateway, one direction at a time |
| `Shutdown` | one worker process (Sum, aggregation or join) from its start to its end |
| `MC*` | constants of the instances TLC checks |
| `SumFilter_proofs` | theorems about the Sums: types, counters, what may be lost; what they count and what they send |
| `FruitTop_proofs` | theorems about tables: tops exist, are unique, and compose |
| `AggregationFilter_proofs`, `JoinFilter_proofs`, `Gateway_proofs`, `ExternalProtocol_proofs`, `Shutdown_proofs` | theorems about the module each is named after |
| `Pipeline_proofs` | theorems about the three filters together: an answer is the top of what was forwarded, and the safety half of the refinement |

`AggregationFilter` and `JoinFilter` stand alone with a nondeterministic
neighbour that does more than the real one (Sums that start their sends again at
any point, aggregations that stop between top and signal), and with the failures.
`Pipeline` puts the real ones in their place, without failures: an action of a Sum
that sends also puts what it sent in the queues of the aggregations (`Forward`), and
the queues of tops and signals are the variables that `AggregationFilter` and
`JoinFilter` share. With failures the correspondence is by what each shows of itself:

| assumed by | of | shown as |
|---|---|---|
| `AggregationFilter!SumSendsFruit`, `SumSendsEof` | each fruit once, then one EOF per aggregation | `SumFilter!FlushThenEof` |
| `AggregationFilter!SumStartsAgain` | a resend never carries less, at most one record more | `SumFilter!RetryAddsAtMostOne` |
| `JoinFilter!AggSends`, `AggSignals` | one top, then one signal | `AggregationFilter!SignalFollowsTop`, `TopIsExact` |
| `SumFilter!PublishData`, `PublishEof` | no DATA after the EOF | `Gateway!EofIsLast` |
| `Gateway`: a socket carries messages, a top that does not fit writes nothing | | `ExternalProtocol!ReceivedIsSent`, `NothingHalfWritten` |
| `AggregationFilter!LoseConsumer`: a stopped aggregation takes nothing more | | `Shutdown!FewMessagesAfterStop` |

## Model and code

General choices:

* **One action is one stretch of code that holds the lock, or one call to the
  middleware.** A thread can be interrupted between a locked region and a send,
  and between two sends; those are the control points (`pc`, `monitor`,
  `responder`). Callbacks that hold a lock for all that they do are one action.
* **A record is an identity.** In `SumFilter` an amount is the bag of the
  records it was added up from, so that a total can be compared with the upload
  record by record: a record lost or counted twice cannot hide in a sum. In
  `FruitTop` amounts are numbers, since there order and sum matter.
* **`INPUT_QUEUE` is two sets**, DATA and EOFs. The queue is FIFO and a message
  that is given back returns to its place; what matters of this is that an EOF
  is never delivered while DATA of the same client is in the queue
  (`Drained`). The order of DATA messages among themselves, and of clients, is
  left free: the filters do not depend on it.
* **Queues of a channel with one sender** (Sum to aggregation) are sequences;
  channels of different senders are not ordered against each other.
* **A publishing connection** is `open`; `broken` when the peer is gone and pika
  has not noticed, because nobody services the heartbeats of a connection that
  only publishes; `closed` once pika knows. On a broken one a publish may return
  although nothing was routed, or raise, with or without the message routed
  (`SendOutcomes`). Nothing in the code opens a connection again.
* **A consuming connection** that is lost gives its unacknowledged message back
  (durable queue), or takes the queue with it (exclusive queue); the callback in
  progress runs on to its ack, which raises, and the thread ends.
* **Containers may come up late** (`LateSums`, `LateAggs`): until then their
  exclusive queues do not exist and what is sent to them is gone.
* **Bounds**: `MaxFaults`, `MaxNacks`, `MaxResends`, `MaxCrashes`, each in the
  guard of the action it bounds. Nothing else is bounded: the rest of the state
  is finite because the uploads are.

### SumFilter

| code (`sum/main.py`) | model |
|---|---|
| `amount_by_fruit_by_client` | `amounts[s]`, a bag of records |
| `active_data_messages_by_client` | `active[s][c]`; an absent key is 0 |
| `finalizing_clients`, `finished_clients` | `finalizing[s]`, `finished[s]` |
| `process_data_message`, DATA: lines 150-153 / 154 / 161 / 162-173 | `SkipData` / `CountData` / `ProcessData` / `ReleaseData` |
| `_wait_for_client_idle` | `WaitForClientIdle`: samples the counter under the lock |
| `_finalize_client`: lines 77-81 / 85-98 / 99-106 / 107-110 / 112-116 | `FinalizeSkip`, `FinalizeBegin` / `SendPartialSum` / `SendEof` / `AbortFinalize` / `FinalizeEnd` |
| `_process_eof` | the sequence of the above; from the data thread, `BroadcastEof` last |
| `ack`, `nack` of the callback | `Ack`, `Nack` |
| `sent[s][c][a]` | everything a Sum got delivered to an aggregation for a client |
| `dropped[s]` | history: records acknowledged that the Sum never forwards |

The counter can go below zero for an instant in the code, inside the locked region
of lines 163-166, when `FinalizeEnd` popped it while a record was in progress; it
is popped again in the same region, which `Released` models.

### FruitTop

A list of (fruit, amount) pairs without repeated fruits is a *table*, a function
from fruits to amounts. `FruitItem.__lt__` is a total order on the items of a
table, so the sorted and cut list is determined by the set of its items;
`TopOf` gives that set with its amounts.

### AggregationFilter and JoinFilter

An aggregation has one thread: a callback that sends nothing is one action
(`ReceivePartialSum`, `SkipEof`, `CountEof`), and the last EOF is cut at the
sends (`BeginTop`, `SendPartialTop`, `SendCoordination`, `CompleteTop`).
`process_message` catches `MessageError` only, so what a send raises ends
`start_consuming` and the process (`Die`). `CompleteTop` keeps the order of line
97 after the pops: the last source is added to a new entry. `first` and
`promised` are history: the amount a fruit was first put in the queue with, and what
a Sum had put there before its first EOF. `TopIsExact` is stated in their terms, and so
covers an aggregation that comes up late: it misses what was sent before its queue
existed, and nothing else.

In the join the two kinds of listener are one action per message, and the
monitor is `Scan`, `BeginFinalTop`, `SendFinalTop`, `EndFinalTop`, `EndScan`; the
0.1 s sleep is the monitor's return to `scan`. `SendFinalTop` that raises puts
the client back among the ready ones. The test of line 69 (`AlreadySent`) is kept
although it is never true while each aggregation signals a client once, as
`AggregationFilter` shows it does.

### Gateway

`client_list` is a sequence; one process of the pool is the response handler's
until it stops, and then takes requests like the others (`ResponderProcesses`). The
response handler's message is the head of `results` until it is acknowledged.

The loop of lines 52-59 reads `client_list` entry by entry, with no lock, while the
main process appends (line 115); only the response handler removes. So an entry that
it passed does not change, and the loop is one action at its last read: `SendTop` if
that entry takes the result, `FindNobody` if the read is behind the last one. What
follows is a step of its own. With a client found it is the wait for the
acknowledgement (line 66, control point `"ack"`) and then the pop; with nobody found it
is the pop of line 68 (control point `"pop"`, `PopBehindLast`), which raises an
`IndexError`, or, if a client was listed since the last read, removes that client's
entry and goes on to acknowledge the result.

`Former` are clients of a gateway that ran before: the results queue is durable and
`client_list` is not, so that one of their tops may be in the queue at first
(`leftOver`). Either it stops the response handler, or it takes the place of a client
that is just being listed; that client is served, its own top is then the one that finds
nobody, and so on. `ResultFindsItsClient` says that this is a chain and not an
avalanche: at any time no more tops are without a client than were left over, and
none if none was. `ResponderSurvives` and `EveryClientAnswered` except a run with a left
over top only while some top in the queue has no client in the list.

A client's end
(`done`, `failed`, `gone`) closes its socket; reading it then gives either a
reset (a `socket.error`) or the end of the stream (an `IncompleteReadError`, which
is not), with the two outcomes of lines 70-77. The client acknowledges its top before
it writes its file (control point `"write"`), and may die in between. `tooLarge`
are clients whose top has an amount that does not fit in four bytes; the model of
the bytes shows that then nothing is written. `Terminate` is SIGTERM: the sockets are
shut down, `accept` raises, and the pool is terminated wherever its processes are.

### ExternalProtocol

A connection carries one *script*, an upload or a top, from a sender to a receiver
that runs `recv_msg`. A sender that cannot put a message together gives up: a client
closes its socket, the gateway's response handler leaves the client's socket open. The
receiver is a machine over the field it is reading
(`field`, `size`, `buf`), since `recv` may return at any byte; each field that is
complete is one action. `BASE` and `UINT32_SIZE` are 256 and 4 in the code. A name
is a sequence of characters of one byte or two, since only their lengths in
characters and bytes matter; the three bytes that stand for them are no message
types, and as a length or an amount they are as large as a byte can be.

A script is an upload (a message per record, then the end of records) or an answer (one
top); the assumption on `Scripts` says so, with any names and any integers. What
`to_bytes` and `from_bytes` compute is defined byte by byte: `Shifted` drops bytes from
the end, a number fits if nothing is left, and `FromUint32` takes bytes in from the
front. They are recursive functions, which proofs can be about, and that the second
undoes the first is a theorem.

### Shutdown

| code | model |
|---|---|
| `_consuming`, `consumer_tag`, whether pika has a consumer, `is_open` | the fields of `listener[x]` |
| `start_consuming`: lines 55-57 / 84-88 / 90, 94-107 | `Begin` / `Subscribe` / `Leave` |
| `on_message`: the callback / lines 72-73, or the ack that raises | `Take`, `EnterCallback` / `EndCallback` |
| `stop_consuming`, `close` | `Stopped`, `Closed` |
| the three signal handlers | `Signal` |
| `_request_queue_stop` (join) | `Requested`, and `RunRequest` when pika's loop gets to it |
| `SumFilter.start`, `JoinWorker.run`, `AggregationWorker.run` | `Start`, `SumCheck`, `SumJoin`, `JoinMonitor`, `JoinListeners`, `AggregationReturns` |
| the three `close` methods | `Close`, in the order of `Closes` |

A listener stands for a thread that consumes: `data`, and `second` for the control
thread of a Sum or any coordination thread of the join. The Sum's handler calls
`basic_cancel` on connections that other threads poll, which pika does not allow: the
thread may wake up and leave its loop or may stay asleep (`deaf`) until its connection
closes. A signal that comes before the consumer tag exists is `missed` (before line
57, which sets `_consuming` again) or `early` (between lines 57 and 88: it takes
effect after the next message).

## The runs

Distinct states in brackets.

| run | instance | what it shows |
|---|---|---|
| `sum_pair` (264,037) | 2 Sums, 2 clients with 2 and 1 records on 2 fruits, 2 aggregations, no failure; Sums symmetric | `TypeOK`; `NoDoubleCount`; `LossWindow`: a Sum loses at most one record of a client; `TakerLosesNothing`: some Sum that finishes loses none; `AlmostAllForwarded`: so one record of a client is not forwarded, at most; `FlushThenEof`; `CounterSettles`; `FinishedIsFinal` |
| `sum_faults` (345,801) | 2 Sums of which one comes up late, 1 client with 3 records, one connection of any kind fails, one message given back | `NoDoubleCount`, `RetryAddsAtMostOne`, `NothingVanishes`, `FinishedIsFinal` |
| `agg_faults` (1,250,778) | 2 Sums of which one starts again once with a record more, 2 aggregations of which one is late, one connection fails, top of 1 out of 3 fruits | `TypeOK`, `TopIsExact`, `SignalFollowsTop`, `CompletedIsFinal` |
| `join_barrier` (15,657) | 2 aggregations, 2 clients, one connection fails, top of 1 | `TypeOK`, `FinalTopIsExact`, `NoLostWakeup`, `CompletedIsFinal` |
| `pipeline` (36,682) | 2 Sums, 1 aggregation, the join, 1 client with 2 records of 2 fruits that tie, top of 1, no failure, fairness | `ImplementsUploadService`, the refinement, and `EveryUploadIsAnswered`, the fairness of `UploadService`; `AnswerIsTopOfForwarded`; `EofReachesEverySum` |
| `gateway_pool` (254,660) | 2 clients, pool of 2, one death, one connection that fails, perhaps a former result or one that does not fit, SIGTERM; fairness | `TypeOK`, `ResultFindsItsClient`, `OwnTopOnly`, `ResponderSurvives`, `EofIsLast`, `EveryClientAnswered` |
| `shutdown` (11,219) | a Sum, an aggregation and the join, one connection fails, SIGTERM at any point or never; fairness | `TypeOK`, `FewMessagesAfterStop`, `OutputOutlivesItsUsers`, `SignalEndsWorker` |
| `external` (1,848) | uploads of 2 records and tops of 2 out of 7 items (names of 0 to 4 characters, 0 to 3 of them wide; amounts of one byte, more than one, negative, too large); 3 bytes to an integer; fairness | `TypeOK`, `ReceivedIsSent`, `WideNameIsLast`, `NothingHalfWritten`, `PlainMessagesArrive` |
| `late_data` | 2 Sums, 1 client, 2 records, no failure | `AllDataForwarded` is violated |
| `redelivery` | the data connection of a Sum fails | `CountedOnce` is violated |
| `broadcast_lost` | the broadcasting connection of a Sum fails | `EofIsBroadcast` is violated |
| `top_overtakes_ack` | 1 client, no failure | `ClientWritesItsTop` is violated |

Why the bounds are enough to meet the interesting cases:

* Two Sums are the taker of an EOF and one that is told, which are all the roles
  a Sum has for a client; two clients let a Sum take one and be told of the
  other, on both its threads at once. Three records are enough for one to be in
  the queue, one in hand and one added, and for two of the same fruit. The
  theorems extend these safety properties to any number.
* Two aggregations make the EOFs a loop with a middle, in which a send can fail;
  two Sums make an EOF that is not the last. With `TOP_SIZE` 1 and three fruits
  something is always cut, and the chosen amounts tie, so that the order of names
  decides, within an aggregation and across two.
* One failure is enough for each handler of failures to run, and for the retry to
  meet the effect of the first attempt. Two failures add combinations of
  independent connections.
* `late_data` needs no failure: the two messages meet in the normal run.
* `pipeline` has one aggregation, because fairness and two aggregations do not go into
  five minutes; with two of them `AnswerIsTopOfForwarded` alone holds in 500,932
  states, and two aggregations are what `agg_faults` and `join_barrier` have. Two Sums
  and two records are enough for a record to be lost, which `UploadService` allows.
* In `shutdown` a second listener is needed for the order of stops and closes; more
  coordination threads of the join do what the second one does. Messages come for
  ever or not at all. In `external` three bytes to an integer let a shift of one or
  two bytes be told from one of a whole integer.

`sum_pair` uses symmetry, which is sound there: its properties are safety
properties and no constant tells the Sums apart. Deadlock is checked in
`sum_pair` and `late_data`, where a Sum waits for messages for ever and
the only state without another step is `Rest`, everything consumed and everybody
listening: two threads of a Sum that waited on each other would be found. The other
systems really stop, with every client answered, or with a thread or a process
that ended on a failure.

Every property of a run that passes is also checked against a mutated definition,
`mutants` in `PROJECT.json`, and TLC finds it violated. The mutants are bugs such as:
looking for any finished client instead of the message's own (lines 56, 151); not
decrementing the counter; taking every client's entry for the copy; testing only
one of the two sets on line 78; overwriting an amount instead of adding to it;
not deduplicating partial sums; sending the top one EOF too early or too late; popping the entries of all clients; going on after
a send that raised; scanning without counting the tops; not putting a client back
after a failed send; popping the last entry of `client_list` instead of the one
found; keeping a process of the pool after its client is over; not looking at
`_consuming` after a callback; closing without waiting for the monitor; a stop that does
not cancel; parsing a field before all of it came; accepting any type; writing the type
of a message before the rest is serialized.

## Fairness

Fairness appears in five runs: four that pass and one that finds a violation.

* *Pipeline*: some thread that can take a step does (weak fairness of `System`, the
  whole but for the gateway). It is less than fairness of every thread, which the code
  justifies: a thread is either in its callback, which Python schedules, or consuming,
  and the broker delivers; locks are held for short regions, and an action is a whole
  region. It is enough because nothing can step for ever: a scan of the join's
  monitor that finds nobody is no step. The gateway is not assumed to publish.
* *Gateway*: the accept loop, each request handler, the response handler, the
  pool's hand-out of tasks, each connected client and the filters. Nothing makes a
  client connect. Per process, not per action: the choice among outcomes of one
  send is left to the environment.

* *Shutdown*: the main thread, the monitor and each listener run, callbacks return, and
  a listener that is asked to stop through `add_callback_threadsafe` gets to it although
  messages keep coming: strong fairness of `RunRequest`, since the request is not enabled
  inside a callback and pika runs the callbacks of its loop between two polls.
  Nothing brings a message.
* *External protocol*: some end can always go on; TCP delivers.

`EveryClientAnswered` is conditional on no client's death, no lost connection, no
result that does not fit and none that has no client because a former gateway left one;
with any of those it fails, and `hazards` says why. It assumes that a client that is alive
goes on: a client that is silent for ever keeps the response handler in line 66, and
then nobody else is answered. After SIGTERM it holds whatever went wrong: every client ends. It
counts as answered a client that got its top too early (`failed`), see the fourth
finding.

## The proofs

TLAPS proves the following for every value of the constants that satisfies the
assumption of the component's module. None of them bounds the number of processes,
clients, records or failures; TLC evaluates each of them in the runs of its module.

| assumption | says |
|---|---|
| `SumAssumption` | finitely many Sums and at least one; one aggregation at least; records have a client and a fruit, fruits an aggregation; bounds are natural numbers |
| `FruitTopAssumption` | fruits are numbers, finitely many; `TOP_SIZE` is a natural number |
| `AggregationAssumption` | one aggregation at least; finitely many Sums and at least one, each with a table per client; fruits have an aggregation; bounds are natural numbers |
| `JoinAssumption` | one aggregation at least, each with a table per client; the bound is a natural number |
| `GatewayAssumption` | finitely many clients, none of which is one of a former gateway; a pool of one process at least; uploads and bounds are natural numbers |
| `ShutdownAssumption` | bounds are natural numbers |
| `ExternalAssumption` | a byte has more than seven values, an integer one byte at least; a script is an upload or an answer |
| `PipelineAssumption` | one aggregation at least; finitely many Sums and at least one; finitely many records, each with an amount, a client and a fruit; fruits have an aggregation |

| theorem | module | says |
|---|---|---|
| `TypeCorrect` | `SumFilter_proofs` | `Spec => []TypeOK` |
| `CounterAlwaysSettles` | " | `Spec => []CounterSettles` |
| `LossIsBounded` | " | `Spec => []LossWindow` |
| `TakerIsSafe` | " | `Spec => []TakerLosesNothing` |
| `FinishedStaysFinal` | " | `Spec => FinishedIsFinal` |
| `NothingCountedTwice` | " | `Spec => []NoDoubleCount` |
| `ResendsAddAtMostOne` | " | `Spec => []RetryAddsAtMostOne` |
| `FruitsThenOneEof` | " | `Spec => []FlushThenEof` |
| `NoRecordVanishes` | " | `Spec => []NothingVanishes` |
| `FewAreMissing` | " | `Spec => []AlmostAllForwarded` |
| `TopExists`, `TopIsUnique` | `FruitTop_proofs` | a table has one top |
| `SumOfNumbers` | " | the sum of a table is a number and takes each amount once, in any order |
| `TopOfTops` | " | the top of the tops of the parts is the top of the whole |
| `JoinTopIsTop` | " | the same of `TopOf` and `MergeOf`, the operators of the models |
| `TypeCorrect` | `AggregationFilter_proofs` | `Spec => []TypeOK` |
| `TopIsRight` | " | `Spec => []TopIsExact` |
| `SignalAfterTop` | " | `Spec => SignalFollowsTop` |
| `CompletedStaysFinal` | " | `Spec => CompletedIsFinal` |
| `TypeCorrect` | `JoinFilter_proofs` | `Spec => []TypeOK` |
| `FinalTopIsRight` | " | `Spec => []FinalTopIsExact` |
| `AnswerIsTop` | " | if the partial tops are the tops of the parts of a table, the answer is the top of that table |
| `NobodyIsForgotten` | " | `Spec => []NoLostWakeup` |
| `CompletedStaysFinal` | " | `Spec => CompletedIsFinal` |
| `TypeCorrect` | `Gateway_proofs` | `Spec => []TypeOK` |
| `ResultAlwaysFinds` | " | `Spec => []ResultFindsItsClient` |
| `OnlyOwnTop` | " | `Spec => []OwnTopOnly` |
| `ResponderStopsInTrouble` | " | `Spec => []ResponderSurvives` |
| `EofAlwaysLast` | " | `Spec => []EofIsLast` |
| `TypeCorrect` | `Shutdown_proofs` | `Spec => []TypeOK` |
| `FewAfterStop` | " | `Spec => []FewMessagesAfterStop` |
| `OutputLivesLongEnough` | " | `Spec => []OutputOutlivesItsUsers` |
| `Uint32ComesBack` | `ExternalProtocol_proofs` | a number that fits is read as it was written |
| `TypeCorrect` | " | `Spec => []TypeOK` |
| `ReceivedAsSent` | " | `Spec => []ReceivedIsSent` |
| `WideNameEnds` | " | `Spec => []WideNameIsLast` |
| `AllOrNothing` | " | `Spec => []NothingHalfWritten` |
| `ForwardedIsAnswered` | `Pipeline_proofs` | `Spec => []AnswerIsTopOfForwarded` |
| `PipelineKeepsPromise` | " | `Spec => ImplementsUploadService` |

**Sums.** The inductive invariant of `SumFilter_proofs` is

    Invariant == /\ TypeOK /\ ThreadInv /\ CounterSettles
                 /\ DataConsumersIntact => SettledInv /\ LossInv /\ TakerInv

The property `LossWindow` alone is not inductive: it says what has been lost and
not what is about to be. `LossInv` speaks of all that a Sum can still lose of a
client it finalizes or has finished (`Exposed`): what it dropped, what is in
hand, and what was added after the copy was taken (`Missed`). For a step to keep
it no new DATA of such a client may arrive, which is `SettledInv`: once a Sum has
seen an EOF of a client, in its control queue, in hand or done, nothing of that
client is in `INPUT_QUEUE`. This in turn needs that the broker delivers an EOF
after the DATA before it, and that no DATA returns to the queue, hence the
condition on the data connections. `TakerInv` says that an EOF broadcast comes
from a Sum that has finished, that the data thread's copy misses nothing, because
the thread that would add is busy finalizing, and that some finished Sum is
`Safe`. `ThreadInv` is what each thread has in hand at each control point, and
that a client is finalized by one thread of a Sum at a time. `CounterSettles` and
`FinishedIsFinal` need only the unconditional part, and hold with any failures.

**What the Sums send.** Each of the other five theorems about the Sums has an invariant of
its own.

* `NothingCountedTwice` has `OwnerInv` and `MessageInv` while the data connections hold:
  a record is in the queue or with one Sum (in hand, added, or carried by a message it
  sent), it is not in the amounts while it is in hand and not added, and the copy being
  sent agrees with the amounts. `Owns` includes what was sent, so that a record cannot
  come back after its Sum finished and popped it.
* `ResendsAddAtMostOne` has `RetryInv`: a partial sum on a channel of a client that its Sum
  has not finished carries no more than the amounts and no more than the copy being
  sent, and there is one record at most, added or in the data thread's hand, that it may
  still lack (`Behind`). That there is one at most comes from `LossInv`; that the amounts
  do not count it twice, from `OwnerInv`.
* `FruitsThenOneEof` has `FlushInv`: a channel to an aggregation is empty before the
  client is finalized; meanwhile it has nothing of the fruits that the thread has still
  to send (`left`), and an EOF if and only if `nextAgg` passed the aggregation;
  afterwards it ends with the EOF.
* `NoRecordVanishes` has `PlaceInv`, that a record that was published is waiting, in hand, or
  `Accounted` by a Sum: in its amounts, sent or dropped. What makes it inductive is
  `CopyInv`: what the copy of a client has is still to be sent or was sent, so that the pop
  of line 115 takes from the amounts only what was sent and what the copy missed, which
  is dropped; and what is about to be acknowledged was accounted for.
* `FewAreMissing` needs no invariant of its own. A record that is not forwarded, when no Sum
  sends any more of its client, is one that some Sum can lose (`MissingIsExposed`);
  a Sum can lose one at most (`LossInv`), and one of them none (`OneIsSafe`, from `TakerInv`).
  So to take each missing record to the Sum that loses it is an injection into the
  other Sums, and there are at most as many as these (`FewMissing`).

**Top.** That the join may work on the partial tops rests on `TopOfTops`: if the
fruits of a table are shared out among parts in any way and each part gives its
top, the top of the union of these tops is the top of the table. The argument is
a pigeonhole: a fruit that its part cut (`CutFruit`) has `TOP_SIZE` fruits of the
same part before it, and so is not in the top of the whole. That a top exists, and that
a sum does not depend on the order of its terms, are facts that one would prove by
induction on the number of fruits. `SmallestSubset` stands for the induction: among the
subsets of a finite set that are counterexamples one includes no other (the strict
subset order is well founded), and taking an element out of it gives the contradiction.

**Aggregations.** A queue from a Sum may hold a fruit twice, with different amounts. `QueueInv`
says that the first copy that was not taken has the amount it was first queued with, and
that all that a Sum promised is taken or stands before every EOF in the queue. `TopInv` says
that the list is the merge of what was taken, so that adding one by one (line 42) and
ignoring a copy (`received_partial_sums`) come to the same; `EofInv`, that an EOF that was
noted found everything promised taken; `CountInv`, that the count of line 91 is the number
of Sums noted at line 97, which is why the last EOF is the last; `OutputInv`, at which
control point of `_send_top` the two queues of the join get something. When an aggregation
dies between lines 91 and 97 the count is ahead of the set, and `CountInv` excepts it.

**Join.** `MessagesInv` follows one top and one signal per aggregation and client. `PlaceInv`
is what makes the property inductive: a client whose signals are all in is in exactly one of
the ready clients, the clients the monitor is about to send, the one in its hand, and the
completed ones, so that the scan and the clear of the event lose nobody. `ResultInv`
covers a send that was delivered and raised: the client goes back to the ready ones with
its result already out, and is not answered again because the connection is closed from
then on. `AnswerIsTop` puts `FinalTopIsExact` and `JoinTopIsTop` together.

**Gateway.** All four safety properties follow from one invariant, `Invariant(w)`, where `w`
names the one top that may have no client in the list; `AlwaysOne` says that at any
time there is such a `w`. It matters only if a former gateway left a top (`Stray`): at first
`w` is that top's client, and when `PopBehindLast` removes the entry of another client `w`
becomes that one (`PopOfAnotherKeeps`). Hence `ResultFindsItsClient`: all stray tops are `w`'s.
`ListInv`: `client_list` holds a client once, and so do the other lists. Per client, `Channel` and `Turn` say that
the client and its request handler take turns on the socket until the end of records;
`Account`, that no record is lost or published twice while no connection failed; `Budget`,
that after the end of records the client is sent one ACK and one top and has no third
message to read; `Place` and `Result`, that a client is in one stage of the gateway, and its
top in one of the pipeline; `Listed`, that a client leaves `client_list` only when it is
answered, or as `w`. `Blame` names the failure behind a client that ended early and a connection that
closed. `ResponderSurvives` needs nearly all of it: the lookup of lines 52-59 finds the
client, and its socket has an acknowledgement to read and no reset. The least index found
by the lookup exists by the well-foundedness of `<` on natural numbers.

**Shutdown.** `MainInv` says how far the main thread and the monitor are, `WaitInv` which
listeners have ended by then or never began, `SignalInv` what a listener is told before
and by the signal, and `Told` that one which was told to stop and may still take a
message was subscribing and has taken none. `SwallowInv` says the same of the message
that an aggregation acknowledges unread.

**External protocol.** None of the properties says what the bytes on their way are, so
none is inductive. The invariant is

    IInv  == TypeOK /\ Ends /\ ReceivedIsSent /\ Shape
    Shape == InStep \/ \E j \in FirstWide : Garbled(j)

* `InStep` has a part for each stage of a message: about to be sent (`Sending`), on its way
  (`InTransit`), acknowledged (`Acknowledging`), the last one (`AllDone`), or refused
  (`GivenUp`). On its way, the bytes in the buffer and on the wire (`Ahead`) are those
  written of the field that is being read and of all that follows it: `AtType`, `AtCount`,
  `AtSize`, `AtName`, `AtAmount`. To receive bytes leaves `Ahead` alone however many they
  are, which is why the cuts do not matter (`ReceivingMoves`); to parse a field takes it
  off the front (`Splits`), and it is read as it was written (`FieldRead`).
* `Garbled(j)` begins when the name of message j is read with its length in characters.
  With fewer than `UINT32_SIZE` bytes too many, message j is `Lost`, is still being read
  with that name cut short (`Misread`), or is `Taken` as the last one. After an upload's
  record one to `UINT32_SIZE - 1` bytes are left over; the type of the next message has
  only zeros in the bytes that are read with them (`OneByte`), so that the type that is
  read ends in a zero byte and is none (`ZeroByteIsNoType`).

Three facts about data support it. `Uint32ComesBack`: after k bytes, `FromUint32` has the
number without its last `UINT32_SIZE - k` bytes. `FlattenFirst`: the first of the
sequences that `FlattenSeq` joins comes first, so that the records of a message can be
taken one by one (`RecordsFromStep`). `Utf8Type`: a name has at least a byte for each
character, and decodes if it has just one. Each is an induction on positions, which is
not taken from the library but stated for sets (`UpTo`, from the well-foundedness of the
strict subset order), and that a recursive definition has a solution at all is
`RecursionExists`, stated for a sequence of step functions.

**The filters together.** `ForwardedIsAnswered` follows the amounts from the Sums to the
answer of the join, in four stages.

1. *Sums.* A step of `Pipeline` is a step of `SumFilter` without failures or leaves its
   variables alone (`SumsStep`), so that what is proved of the Sums holds here as it is
   (`SumsAreRight`).
2. *Aggregations.* `AggregationFilter` reduces a Sum to what it still has to offer, what is
   left of it and the next aggregation to be sent an EOF. Here these three are
   functions of the thread that finalizes the client (`OfferedBySum`, `LeftBySum`,
   `NextBySum`); with them a send of a Sum is a step of the Sum of `AggregationFilter`,
   and the inductive invariant of that module holds (`AggregationsStep`). The queues to the
   join stand for all that was ever put in them, since nobody takes from them there.
   `SumsInv` supplies what the mapping needs: one thread finalizes a client, and its copy
   does not change. `ContentInv` adds that a partial sum has something in it and goes to
   the aggregation of its fruit.
3. *Join.* `AnswersInv` says that a top in the join's queue, in its hand or in an answer is
   the one that its aggregation sent, and that a client is answered when all of them
   have sent. It does not go through the invariant of `JoinFilter`, whose
   aggregations know their top from the start; here it comes to be.
4. *Records.* What a Sum forwarded of a fruit is the sum over the records that its messages
   carry; no record is carried twice (`OwnerInv`), so that the tables of the Sums add
   up to the total of the records carried by any (`TotalsOfCarried`); a fruit goes
   to one aggregation, so that `JoinTopIsTop` applies (`RightAnswerIsTop`).

`PipelineKeepsPromise` is the refinement of `UploadService`, step by step (`ServiceStep`):
`PublishData` is `Upload`, `PublishEof` is `Close`, `SendFinalTop` is `Answer`, and the other
steps leave the three variables of the service alone. The answer is not made when the
Sums have finished the client but when the join has the tops; by then every aggregation has
an EOF of every Sum (`AllEnded`), and a Sum sends an EOF only when it has no fruit of the
client left to send (`AllSentIsAll`), which is all that `FewMissing` asks for. What
`Answer` may leave out is `Missing`, and the rest is what the answer is made of.

**Only model-checked**, and why:

* Liveness, which TLAPS does not do under fairness: `EofReachesEverySum`,
  `EveryUploadIsAnswered`, `EveryClientAnswered`, `SignalEndsWorker`, `PlainMessagesArrive`.
  Every other property of a run that passes is the subject of a theorem.
* The findings, which are violations.

## Where the code departs from its documentation

Four runs find a behaviour that the program's README says does not happen.

1. `late_data`: the totals a Sum sends at the end of the data are not always
   complete. A DATA message in the hands of one Sum when another takes the EOF is
   overtaken by the control EOF, skipped and acknowledged. `LossWindow`,
   `TakerLosesNothing` and `AlmostAllForwarded` say how bad it gets: at most one record per
   Sum and client, and none in the Sum that took the EOF.
2. `redelivery`: a record is forwarded by two Sums when a data connection is lost
   between adding it and acknowledging it.
3. `broadcast_lost`: when the broadcast of an EOF fails, the other Sums never
   finish the client; the EOF that is given back is taken for a repeated one.
4. `top_overtakes_ack`: the final top can be on the client's socket before the
   ACK of the end of records. The client takes one for the other and ends without
   writing its file.

The exact lines and quotations are in `PROJECT.json`, `findings`.

A fifth departure is in the statement of a property instead of a run of its own.
README.md:418-441 of the program says that the signal handlers stop the consumption,
close the connections and free the resources. `SignalEndsWorker` has to except a Sum or
an aggregation that was signalled while it started: `stop_consuming` returns when there
is no consumer tag yet (lines 114-115 of the middleware), and `start_consuming` then
sets `_consuming` again (line 57). Without the exception TLC finds a Sum that waits for
ever in the join of line 221. An aggregation in the same case goes on consuming and
acknowledges everything unread (`aggregation/main.py:149`), which `FewMessagesAfterStop`
excepts as well.

## What is not modelled

* **Messages that do not parse, unknown types, messages without a source id**
  (an older form that `join/main.py` still accepts): nothing in the program sends
  them.
* **JSON**: a message between the filters is a record of its fields.
* **A wide name that is longer than an integer**: with as many bytes too many as an
  integer has, an amount is read as a type, and the stream may mean anything;
  `WideNameIsLast` is about fewer. Characters of three and four bytes are runs of
  shorter ones.
* **Failures in `Pipeline`**: they are in the modules of its parts; together they are
  out of TLC's reach.
* **What a signal interrupts inside the middleware**: an action of `Shutdown` is one call
  to pika. A message in hand when its process dies goes back to a durable queue
  (`SumFilter!LoseConsumer`) or goes with an exclusive one.
* **pika**: its threads' safety, frames, heartbeats; a connection has the outcomes
  above. Two threads of a Sum publish on the same connections, which pika does
  not support; the models let the publishes interleave and no more.
* **The queues that nobody consumes** (each publishing exchange object declares
  one): memory of the broker.
* **`src/golang`**, the unfinished skeleton of the exercise: its middleware is
  empty and its handlers do nothing about coordination.
* **The deployment**: numbers of instances are constants of the models; that
  containers come up in any order is `LateSums` and `LateAggs`.

## Plan

Done, in this order: Sums (model, checks, inductive invariant and proofs),
`FruitTop`, aggregations, join, gateway and clients; then the composition of Sums,
aggregations and join and its abstract service, the shutdown of the workers and of
the gateway, and the bytes of the external protocol; then the proofs of the
channels of the Sums, of tops, the join, the aggregations, the gateway, shutdown and
the answer of the three filters together and the safety of its refinement, and of the
external protocol, to the bytes of an integer.

What is left would need other tools or other code: liveness for any number of processes,
the failures of the three filters together, and the wide names with more bytes too many
than an integer has, of which nothing better can be said than `ReceivedIsSent`.

## Running

    tlc -workers 2 -config SumPair.cfg MCSumFilter
    tlapm SumFilter_proofs.tla

Each run's module and configuration are in `PROJECT.json`. The largest runs take about a
minute and a half. From nothing, the proofs of `Pipeline` take about eighteen minutes,
those of `SumFilter`, `AggregationFilter`, `ExternalProtocol` and `Gateway` several minutes each,
the others about a minute.
