------------------------------- MODULE Shutdown -------------------------------
(***************************************************************************)
(* How one filter process (a Sum, an aggregation or the join) ends: its    *)
(* SIGTERM handler, its main thread, the threads that consume and, in the  *)
(* join, the monitor that sends.  A listener is what start_consuming,      *)
(* stop_consuming and close of the middleware do to one connection.  What  *)
(* the messages do is in the other modules; here one is taken or not.      *)
(*                                                                         *)
(* The handler runs on the main thread.  In an aggregation that thread is  *)
(* also the listener's; in a Sum it is not, although it calls the          *)
(* listener's pika connection, which is not safe for threads; the join     *)
(* asks the listener's own thread to stop instead.                         *)
(***************************************************************************)
EXTENDS Naturals, Sequences

CONSTANTS
    MaxFaults,      \* bound on the connections that fail
    MaxSwallowed    \* swallowed messages are counted up to this number

ASSUME ShutdownAssumption == MaxFaults \in Nat /\ MaxSwallowed \in Nat

Kinds == {"sum", "aggregation", "join"}
\* "second" is the control thread of a Sum; it stands for every coordination thread
\* of the join; an aggregation has none.
Listeners == {"data", "second"}

VARIABLES
    kind,       \* which program this is
    signalled,  \* SIGTERM came: should_exit
    main, monitor, closing, outputOpen,
    listener,
    \* history: how the handler found each listener, whether a Sum waited for its
    \* threads, the messages each took after it was told to stop, and those an
    \* aggregation acknowledged without a look
    stop, waited, late, swallowed,
    faults

vars == <<kind, signalled, main, monitor, closing, outputOpen, listener, stop, waited, late,
          swallowed, faults>>

NoListener == [at |-> "ended", consuming |-> FALSE, tag |-> FALSE, subscribed |-> FALSE,
               open |-> TRUE, request |-> FALSE]
Idle == [NoListener EXCEPT !.at = "none"]

Init ==
    /\ kind \in Kinds
    /\ signalled = FALSE
    /\ main = "start" /\ closing = <<>> /\ outputOpen = TRUE
    /\ monitor = IF kind = "join" THEN "none" ELSE "ended"
    /\ listener = [x \in Listeners |-> IF kind = "aggregation" /\ x = "second"
                                         THEN NoListener ELSE Idle]
    /\ stop = [x \in Listeners |-> "none"]
    /\ waited = FALSE
    /\ late = [x \in Listeners |-> 0] /\ swallowed = 0
    /\ faults = 0

-----------------------------------------------------------------------------
(* The middleware.                                                         *)

\* stop_consuming: before basic_consume there is no tag, and nothing to cancel.
OnlyMarked(l) == [l EXCEPT !.consuming = FALSE]
Stopped(l) == [l EXCEPT !.consuming = FALSE, !.subscribed = @ /\ ~(l.tag /\ l.open)]

Closed(l) == [l EXCEPT !.consuming = FALSE, !.subscribed = FALSE, !.open = FALSE]
\* Lines 106-107.
LeftConsuming(l) == [l EXCEPT !.at = "ended"]
Ended(l) == [l EXCEPT !.at = "ended", !.consuming = FALSE]

Becomes(x, l) ==
    /\ listener' = [listener EXCEPT ![x] = l]
    /\ UNCHANGED <<kind, signalled, main, monitor, closing, outputOpen, stop, waited, faults>>
Silent == UNCHANGED <<late, swallowed>>

\* start_consuming raises on a connection that is closed.  It forgets a stop that
\* came before it.
Begin(x) ==
    LET l == listener[x] IN
    /\ l.at = "new"
    /\ Becomes(x, IF l.open THEN [l EXCEPT !.at = "subscribing", !.consuming = TRUE]
                            ELSE Ended(l))
    /\ Silent

\* basic_consume; the tag is there when it returns.
Subscribe(x) ==
    LET l == listener[x] IN
    /\ l.at = "subscribing"
    /\ Becomes(x, IF l.open THEN [l EXCEPT !.at = "loop", !.tag = TRUE, !.subscribed = TRUE]
                            ELSE Ended(l))
    /\ Silent

Take(x) ==
    LET l == listener[x] IN
    /\ l.at = "loop" /\ l.subscribed /\ l.open
    /\ Becomes(x, [l EXCEPT !.at = "delivered"])
    /\ late' = IF l.consuming THEN late ELSE [late EXCEPT ![x] = @ + 1]
    /\ UNCHANGED swallowed

\* An aggregation that has its signal acknowledges the message and forgets it.
Swallows == kind = "aggregation" /\ signalled

EnterCallback(x) ==
    /\ listener[x].at = "delivered"
    /\ Becomes(x, [listener[x] EXCEPT !.at = "callback"])
    /\ swallowed' = IF Swallows /\ swallowed < MaxSwallowed THEN swallowed + 1 ELSE swallowed
    /\ UNCHANGED late

\* After its callback a listener looks whether it was told to stop.
GoesOn(l) == [l EXCEPT !.at = "loop"]
LooksAtStop(l) == [l EXCEPT !.at = "loop", !.subscribed = @ /\ l.consuming]

\* The ack raises if the connection is gone; the message goes back to its queue.
EndCallback(x) ==
    LET l == listener[x] IN
    /\ l.at = "callback"
    /\ Becomes(x, IF l.open THEN LooksAtStop(l) ELSE Ended(l))
    /\ Silent

\* start_consuming of pika returns when nothing is subscribed, and raises when the
\* connection is closed.
Leave(x) ==
    LET l == listener[x] IN
    /\ \/ l.at = "loop" /\ ~(l.subscribed /\ l.open)
       \/ l.at = "deaf" /\ ~l.open
    /\ Becomes(x, Ended(l))
    /\ Silent

\* The stop that the join asked for, run by pika's loop in the listener's thread.
RunRequest(x) ==
    LET l == listener[x] IN
    /\ l.at = "loop" /\ l.request /\ l.open
    /\ Becomes(x, [Stopped(l) EXCEPT !.request = FALSE])
    /\ Silent

ListenerStep(x) ==
    Begin(x) \/ Subscribe(x) \/ EnterCallback(x) \/ EndCallback(x) \/ Leave(x) \/ RunRequest(x)

-----------------------------------------------------------------------------
(* The handlers.                                                           *)

Requested(l) == IF l.open THEN [l EXCEPT !.request = TRUE] ELSE Stopped(l)

\* How the handler finds a listener.
Found(x, deaf) ==
    CASE kind = "join" \/ listener[x].at = "ended" -> "heard"
      [] listener[x].at \in {"none", "new"} -> "missed"
      [] listener[x].at = "subscribing" -> "early"
      [] OTHER -> IF x \in deaf THEN "deaf" ELSE "heard"

\* The Sum's handler cancels, from its thread, the consumer of a thread that may be
\* waiting in pika's loop: that thread may not wake up before its connection closes.
Waiting == {x \in Listeners : /\ kind = "sum" /\ listener[x].at = "loop"
                              /\ listener[x].subscribed /\ listener[x].open}

Signal ==
    /\ ~signalled /\ main # "exit"
    /\ signalled' = TRUE
    /\ \E deaf \in SUBSET Waiting :
         /\ listener' = [x \in Listeners |->
                IF kind = "join" THEN Requested(listener[x])
                ELSE IF x \in deaf THEN [Stopped(listener[x]) EXCEPT !.at = "deaf"]
                ELSE Stopped(listener[x])]
         /\ stop' = [x \in Listeners |-> Found(x, deaf)]
    /\ UNCHANGED <<kind, main, monitor, closing, outputOpen, waited, late, swallowed, faults>>

-----------------------------------------------------------------------------
(* The main threads and the monitor.                                       *)

MainOnly == UNCHANGED <<kind, signalled, monitor, stop, late, swallowed, faults>>

\* The threads are started; an aggregation calls start_consuming itself.
Start ==
    /\ main = "start"
    /\ main' = IF kind = "sum" THEN "check" ELSE "join"
    /\ listener' = [x \in Listeners |-> IF listener[x].at = "none"
                        THEN [listener[x] EXCEPT !.at = "new"] ELSE listener[x]]
    /\ monitor' = IF kind = "join" THEN "scan" ELSE monitor
    /\ UNCHANGED <<kind, signalled, closing, outputOpen, stop, waited, late, swallowed, faults>>

\* In the order of close().
Closes == CASE kind = "sum" -> <<"data", "second", "output">>
            [] kind = "aggregation" -> <<"data", "output">>
            [] kind = "join" -> <<"data", "output", "second">>

\* The Sum's loop: it waits for its threads again and again until it was signalled,
\* also when they are over.
SumCheck ==
    /\ main = "check"
    /\ main' = IF signalled THEN "close" ELSE "join"
    /\ closing' = IF signalled THEN Closes ELSE <<>>
    /\ UNCHANGED <<listener, outputOpen, waited>> /\ MainOnly

AllEnded == \A x \in Listeners : listener[x].at = "ended"

SumJoin ==
    /\ kind = "sum" /\ main = "join" /\ AllEnded
    /\ main' = "check" /\ waited' = TRUE
    /\ UNCHANGED <<listener, closing, outputOpen>> /\ MainOnly

AggregationReturns ==
    /\ kind = "aggregation" /\ main = "join" /\ AllEnded
    /\ main' = "close" /\ closing' = Closes
    /\ UNCHANGED <<listener, outputOpen, waited>> /\ MainOnly

\* Of the monitor the join waits for as long as it takes.
NotJoined == TRUE
MonitorJoined == monitor = "ended"

\* It asks the listeners to stop, once more.
JoinMonitor ==
    /\ kind = "join" /\ main = "join" /\ MonitorJoined
    /\ listener' = [x \in Listeners |-> Requested(listener[x])]
    /\ main' = "wait"
    /\ UNCHANGED <<closing, outputOpen, waited>> /\ MainOnly

\* The waits for the listeners time out.  (All of it is done twice, to the same end.)
JoinListeners ==
    /\ main = "wait"
    /\ main' = "close" /\ closing' = Closes
    /\ UNCHANGED <<listener, outputOpen, waited>> /\ MainOnly

Close ==
    /\ main = "close" /\ closing # <<>>
    /\ IF Head(closing) = "output"
         THEN outputOpen' = FALSE /\ UNCHANGED listener
         ELSE /\ listener' = [listener EXCEPT ![Head(closing)] = Closed(@)]
              /\ UNCHANGED outputOpen
    /\ closing' = Tail(closing)
    /\ UNCHANGED <<main, waited>> /\ MainOnly

Exit ==
    /\ main = "close" /\ closing = <<>>
    /\ main' = "exit"
    /\ UNCHANGED <<listener, closing, outputOpen, waited>> /\ MainOnly

MainStep ==
    Start \/ SumCheck \/ SumJoin \/ AggregationReturns \/ JoinMonitor \/ JoinListeners \/ Close
        \/ Exit

\* A scan, and the final tops that it found, are done before should_exit is looked at.
MonitorStep ==
    /\ \/ monitor = "scan" /\ monitor' = IF signalled THEN "ended" ELSE "sending"
       \/ monitor = "sending" /\ monitor' = "scan"
    /\ UNCHANGED <<kind, signalled, main, closing, outputOpen, listener, stop, waited, late,
                   swallowed, faults>>

LoseConnection(x) ==
    /\ faults < MaxFaults /\ faults' = faults + 1
    /\ listener[x].open /\ listener[x].at \notin {"none", "ended"}
    /\ listener' = [listener EXCEPT ![x].open = FALSE]
    /\ UNCHANGED <<kind, signalled, main, monitor, closing, outputOpen, stop, waited, late,
                   swallowed>>

-----------------------------------------------------------------------------
Next ==
    \/ Signal \/ MainStep \/ MonitorStep
    \/ \E x \in Listeners : ListenerStep(x) \/ Take(x) \/ LoseConnection(x)

Spec == Init /\ [][Next]_vars

\* Threads run and callbacks return.  A loop of pika that always has messages still
\* gets to the stop that it was asked for.  Nothing brings a message.
Fairness ==
    /\ WF_vars(MainStep) /\ WF_vars(MonitorStep)
    /\ \A x \in Listeners : WF_vars(ListenerStep(x)) /\ SF_vars(RunRequest(x))

FairSpec == Spec /\ Fairness

-----------------------------------------------------------------------------
(* Correctness.                                                            *)

\* Every variable keeps to its domain; a listener is subscribed only once it has a tag,
\* and a thread that ended does not consume.
TypeOK ==
    /\ kind \in Kinds /\ signalled \in BOOLEAN
    /\ main \in {"start", "check", "join", "wait", "close", "exit"}
    /\ monitor \in {"none", "scan", "sending", "ended"}
    /\ listener \in [Listeners ->
           [at : {"none", "new", "subscribing", "loop", "delivered", "callback", "deaf", "ended"},
            consuming : BOOLEAN, tag : BOOLEAN, subscribed : BOOLEAN, open : BOOLEAN,
            request : BOOLEAN]]
    /\ stop \in [Listeners -> {"none", "heard", "missed", "early", "deaf"}]
    /\ late \in [Listeners -> Nat] /\ swallowed \in 0 .. MaxSwallowed /\ faults \in Nat
    /\ \A x \in Listeners : /\ listener[x].subscribed => listener[x].tag
                            /\ listener[x].at = "ended" => ~listener[x].consuming

Over == main = "exit" /\ monitor = "ended" /\ AllEnded

\* SIGTERM ends the process (README.md:418-441), whatever its threads are at and
\* also if a connection fails: the join always, a Sum or an aggregation unless it
\* waits for a listener that had not subscribed yet when the signal came, or that the
\* signal left asleep.
SignalEndsWorker ==
    signalled ~> \/ Over
                 \/ main = "join" /\ \E x \in Listeners : stop[x] \in {"missed", "early", "deaf"}

\* A listener that was told to stop takes no message more; one only if it was told
\* while it was subscribing (line 72 of the middleware).  An aggregation throws away
\* at most one message, unless the signal came before it began to consume: then it
\* throws away all that it gets.
FewMessagesAfterStop ==
    /\ \A x \in Listeners : late[x] <= IF stop[x] = "early" THEN 1 ELSE 0
    /\ swallowed <= 1 \/ stop["data"] = "missed"

\* The connections that publish are closed after the last use: the monitor is over,
\* and the callbacks of an aggregation, and those of a Sum that waited for its threads.
OutputOutlivesItsUsers ==
    ~outputOpen => /\ monitor = "ended"
                   /\ kind = "aggregation" \/ waited => AllEnded

=============================================================================
