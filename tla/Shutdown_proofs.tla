--------------------------- MODULE Shutdown_proofs ---------------------------
(***************************************************************************)
(* Proofs about Shutdown: the end of a Sum, an aggregation or the join,    *)
(* whatever its threads are at when SIGTERM comes and however many         *)
(* connections fail.                                                       *)
(***************************************************************************)
EXTENDS Shutdown, Integers, TLAPS

USE DEF vars

-----------------------------------------------------------------------------
(* The invariant.                                                          *)

Ats == {"none", "new", "subscribing", "loop", "delivered", "callback", "deaf", "ended"}

ListenerType ==
    [at : Ats, consuming : BOOLEAN, tag : BOOLEAN, subscribed : BOOLEAN, open : BOOLEAN,
     request : BOOLEAN]

\* TypeOK, of one listener.
IsListener(l) ==
    /\ l \in ListenerType
    /\ l.subscribed => l.tag
    /\ l.at = "ended" => ~l.consuming

TypeInv ==
    /\ kind \in Kinds /\ signalled \in BOOLEAN
    /\ main \in {"start", "check", "join", "wait", "close", "exit"}
    /\ monitor \in {"none", "scan", "sending", "ended"}
    /\ outputOpen \in BOOLEAN /\ waited \in BOOLEAN
    /\ DOMAIN listener = Listeners /\ listener = [x \in Listeners |-> listener[x]]
    /\ \A x \in Listeners : IsListener(listener[x])
    /\ stop \in [Listeners -> {"none", "heard", "missed", "early", "deaf"}]
    /\ late \in [Listeners -> Nat] /\ swallowed \in 0 .. MaxSwallowed /\ faults \in Nat

\* How far the main thread and the monitor are, and what they have waited for.
MainInv ==
    /\ kind # "join" => monitor = "ended"
    /\ main \in {"wait", "close", "exit"} => monitor = "ended"
    /\ main = "wait" => kind = "join"
    /\ main = "check" => kind = "sum"
    /\ ~outputOpen => main \in {"close", "exit"}

\* The listeners that the main thread has waited for, or has not started, and the one that
\* an aggregation does not have.
WaitInv ==
    /\ waited => AllEnded
    /\ kind = "aggregation" /\ main \in {"close", "exit"} => AllEnded
    /\ kind = "aggregation" => listener["second"].at = "ended"
    /\ \A x \in Listeners : main = "start" => listener[x].at \in {"none", "ended"}

\* Before the signal no listener is told to stop; after it one that has not begun to
\* consume missed it, but for those of the join.
SignalInv ==
    /\ ~signalled => /\ \A x \in Listeners : stop[x] = "none" /\ late[x] = 0
                     /\ swallowed = 0
    /\ kind # "aggregation" => swallowed = 0
    /\ signalled /\ kind # "join" =>
         \A x \in Listeners : listener[x].at \in {"none", "new"} => stop[x] = "missed"

\* A listener that was told to stop and may still take a message was told while it was
\* subscribing, and has taken none.
MayTake(l) ==
    /\ l.at = "subscribing" \/ (l.at = "loop" /\ l.subscribed)
    /\ l.open

Told(x) ==
    /\ ~listener[x].consuming /\ MayTake(listener[x]) => stop[x] = "early" /\ late[x] = 0
    /\ late[x] <= 1
    /\ late[x] = 1 => stop[x] = "early"

\* An aggregation that heard the signal throws away the message that it has taken, or the
\* one that it may take, and no other.
SwallowInv ==
    (kind = "aggregation" /\ signalled /\ stop["data"] # "missed") =>
        /\ ~listener["data"].consuming
        /\ swallowed <= 1
        /\ listener["data"].at = "delivered" \/ MayTake(listener["data"]) => swallowed = 0

Invariant ==
    /\ TypeInv /\ MainInv /\ WaitInv /\ SignalInv /\ SwallowInv
    /\ \A x \in Listeners : Told(x)

-----------------------------------------------------------------------------
(* What the middleware makes of a listener.                                *)

\* stop_consuming and close keep a listener well formed and where it is; after either it
\* does not consume, and takes no message unless it was still subscribing.
LEMMA StoppedListener ==
    ASSUME NEW l, IsListener(l)
    PROVE  /\ IsListener(Stopped(l)) /\ Stopped(l).at = l.at /\ ~Stopped(l).consuming
           /\ MayTake(Stopped(l)) => l.at = "subscribing" /\ l.open
           /\ IsListener(Closed(l)) /\ Closed(l).at = l.at /\ ~Closed(l).consuming
           /\ ~MayTake(Closed(l))
  BY DEF IsListener, ListenerType, Stopped, Closed, MayTake

\* The stop that the join asks for is only noted, when the connection is open.
LEMMA RequestedListener ==
    ASSUME NEW l, IsListener(l)
    PROVE  /\ IsListener(Requested(l)) /\ Requested(l).at = l.at
           /\ MayTake(Requested(l)) => MayTake(l) /\ Requested(l).consuming = l.consuming
  BY DEF IsListener, ListenerType, Requested, Stopped, MayTake

\* A listener that ends takes nothing.
LEMMA EndedListener ==
    ASSUME NEW l, IsListener(l)
    PROVE  /\ IsListener(Ended(l)) /\ Ended(l).at = "ended" /\ ~MayTake(Ended(l))
           /\ ~Ended(l).consuming
  BY DEF IsListener, ListenerType, Ended, MayTake, Ats

-----------------------------------------------------------------------------
(* The steps of a listener.                                                *)

\* What becomes of a listener keeps the invariant when it is well formed, goes neither
\* back nor on from its end, and keeps what the signal told it; late and swallowed may
\* grow as Told and SwallowInv allow.
LEMMA BecomesKeeps ==
    ASSUME Invariant, NEW x \in Listeners, NEW l, Becomes(x, l), IsListener(l),
           listener[x].at \notin {"none", "ended"}, l.at \notin {"none", "new"},
           late' \in [Listeners -> Nat], \A y \in Listeners \ {x} : late'[y] = late[y],
           swallowed' \in 0 .. MaxSwallowed,
           ~signalled => late' = late /\ swallowed' = swallowed,
           kind # "aggregation" => swallowed' = swallowed,
           Told(x)', SwallowInv'
    PROVE  Invariant'
<1>1. /\ UNCHANGED <<kind, signalled, main, monitor, closing, outputOpen, stop, waited, faults>>
      /\ listener' = [listener EXCEPT ![x] = l]
  BY DEF Becomes
<1>2. TypeInv /\ MainInv /\ WaitInv /\ SignalInv /\ \A y \in Listeners : Told(y)
  BY DEF Invariant
<1>3. listener'[x] = l /\ \A y \in Listeners \ {x} : listener'[y] = listener[y]
  BY <1>1, <1>2 DEF TypeInv
<1>4. TypeInv'
  <2>1. \A y \in Listeners : IsListener(listener'[y])
    BY <1>2, <1>3 DEF TypeInv
  <2>2. DOMAIN listener' = Listeners /\ listener' = [y \in Listeners |-> listener'[y]]
    BY <1>1, <1>2 DEF TypeInv
  <2> QED
    BY <1>1, <1>2, <2>1, <2>2 DEF TypeInv
<1>5. MainInv'
  BY <1>1, <1>2 DEF MainInv
<1>6. ~AllEnded
  BY DEF AllEnded
<1>7. WaitInv'
  BY <1>1, <1>2, <1>3, <1>6 DEF WaitInv
<1>8. SignalInv'
  BY <1>1, <1>2, <1>3 DEF SignalInv
<1>9. ASSUME NEW y \in Listeners PROVE Told(y)'
  <2>1. CASE y = x
    BY <2>1
  <2>2. CASE y # x
    BY <1>1, <1>2, <1>3, <2>2 DEF Told
  <2> QED
    BY <2>1, <2>2
<1> QED
  BY <1>4, <1>5, <1>7, <1>8, <1>9 DEF Invariant

\* What is kept of the invariant when a listener's step takes no message: a listener that
\* does not consume may still take one only if it might before.
LEMMA QuietKeeps ==
    ASSUME Invariant, NEW x \in Listeners, NEW l, Becomes(x, l), Silent, IsListener(l),
           listener[x].at \notin {"none", "ended"}, l.at \notin {"none", "new", "delivered"},
           ~l.consuming /\ MayTake(l) => ~listener[x].consuming /\ MayTake(listener[x]),
           l.consuming => listener[x].consuming \/ listener[x].at = "new"
    PROVE  Invariant'
<1>1. /\ UNCHANGED <<kind, signalled, stop>>
      /\ listener' = [listener EXCEPT ![x] = l]
  BY DEF Becomes
<1>2. late' = late /\ swallowed' = swallowed
  BY DEF Silent
<1>3. TypeInv /\ WaitInv /\ SignalInv /\ SwallowInv /\ Told(x)
  BY DEF Invariant
<1>4. listener'[x] = l /\ \A y \in Listeners \ {x} : listener'[y] = listener[y]
  BY <1>1, <1>3 DEF TypeInv
<1>5. Told(x)'
  BY <1>1, <1>2, <1>3, <1>4 DEF Told
<1>6. SwallowInv'
  <2> SUFFICES ASSUME kind = "aggregation", signalled, stop["data"] # "missed"
               PROVE  /\ ~listener'["data"].consuming /\ swallowed <= 1
                      /\ listener'["data"].at = "delivered" \/ MayTake(listener'["data"])
                           => swallowed = 0
    BY <1>1, <1>2 DEF SwallowInv
  <2>1. x = "data"
    BY <1>3 DEF WaitInv, Listeners
  <2>2. /\ ~listener[x].consuming /\ swallowed <= 1
        /\ listener[x].at = "delivered" \/ MayTake(listener[x]) => swallowed = 0
    BY <1>3, <2>1 DEF SwallowInv
  <2>3. listener[x].at # "new"
    BY <1>3, <2>1 DEF SignalInv
  <2> QED
    BY <1>4, <2>1, <2>2, <2>3
<1>7. late' \in [Listeners -> Nat] /\ \A y \in Listeners \ {x} : late'[y] = late[y]
  BY <1>2, <1>3 DEF TypeInv
<1>8. swallowed' \in 0 .. MaxSwallowed
  BY <1>2, <1>3 DEF TypeInv
<1>9. l.at \notin {"none", "new"}
  OBVIOUS
<1> QED
  BY <1>2, <1>5, <1>6, <1>7, <1>8, <1>9, BecomesKeeps

\* start_consuming forgets a stop that came before it, and basic_consume does not.
LEMMA BeginKeeps ==
    ASSUME Invariant, NEW x \in Listeners, Begin(x) \/ Subscribe(x)
    PROVE  Invariant'
<1> PICK l : l = listener[x]
  OBVIOUS
<1>1. IsListener(l)
  BY DEF Invariant, TypeInv
<1>2. CASE Begin(x)
  <2> PICK m : m = IF l.open THEN [l EXCEPT !.at = "subscribing", !.consuming = TRUE] ELSE Ended(l)
    OBVIOUS
  <2>1. l.at = "new" /\ Becomes(x, m) /\ Silent
    BY <1>2 DEF Begin
  <2>2. /\ IsListener(m) /\ m.at \in {"subscribing", "ended"}
        /\ MayTake(m) => m.consuming
    <3>1. CASE l.open
      <4>1. m = [l EXCEPT !.at = "subscribing", !.consuming = TRUE]
        BY <3>1
      <4> QED
        BY <1>1, <4>1 DEF IsListener, ListenerType, Ats
    <3>2. CASE ~l.open
      BY <1>1, <3>2, EndedListener
    <3> QED
      BY <3>1, <3>2
  <2> QED
    BY <2>1, <2>2, QuietKeeps
<1>3. CASE Subscribe(x)
  <2> PICK m : m = IF l.open THEN [l EXCEPT !.at = "loop", !.tag = TRUE, !.subscribed = TRUE]
                             ELSE Ended(l)
    OBVIOUS
  <2>1. l.at = "subscribing" /\ Becomes(x, m) /\ Silent
    BY <1>3 DEF Subscribe
  <2>2. /\ IsListener(m) /\ m.at \in {"loop", "ended"}
        /\ MayTake(m) => MayTake(l)
        /\ MayTake(m) \/ m.consuming => m.consuming = l.consuming
    <3>1. CASE l.open
      <4>1. m = [l EXCEPT !.at = "loop", !.tag = TRUE, !.subscribed = TRUE]
        BY <3>1
      <4> QED
        BY <1>1, <2>1, <3>1, <4>1 DEF IsListener, ListenerType, Ats, MayTake
    <3>2. CASE ~l.open
      BY <1>1, <3>2, EndedListener
    <3> QED
      BY <3>1, <3>2
  <2> QED
    BY <2>1, <2>2, QuietKeeps
<1> QED
  BY <1>2, <1>3

\* A message that is taken by a listener that was told to stop is the one that it may take.
LEMMA TakeKeeps ==
    ASSUME Invariant, NEW x \in Listeners, Take(x)
    PROVE  Invariant'
<1> PICK l : l = listener[x]
  OBVIOUS
<1> PICK m : m = [l EXCEPT !.at = "delivered"]
  OBVIOUS
<1>1. TypeInv /\ WaitInv /\ SignalInv /\ SwallowInv /\ Told(x) /\ IsListener(l)
  BY DEF Invariant, TypeInv
<1>2. /\ l.at = "loop" /\ l.subscribed /\ l.open /\ Becomes(x, m)
      /\ late' = IF l.consuming THEN late ELSE [late EXCEPT ![x] = @ + 1]
      /\ swallowed' = swallowed
  BY DEF Take
<1>3. /\ IsListener(m) /\ m.at = "delivered" /\ m.consuming = l.consuming /\ ~MayTake(m)
  BY <1>1, <1>2 DEF IsListener, ListenerType, Ats, MayTake
<1>4. MayTake(l)
  BY <1>2 DEF MayTake
<1>5. UNCHANGED <<kind, signalled, stop>> /\ listener'[x] = m
  BY <1>1, <1>2 DEF Becomes, TypeInv
<1>6. ~l.consuming => stop[x] = "early" /\ late[x] = 0 /\ signalled
  BY <1>1, <1>4 DEF Told, SignalInv
<1>7. /\ late' \in [Listeners -> Nat] /\ \A y \in Listeners \ {x} : late'[y] = late[y]
      /\ late'[x] = IF l.consuming THEN late[x] ELSE late[x] + 1
  BY <1>1, <1>2 DEF TypeInv
<1>8. Told(x)'
  BY <1>1, <1>3, <1>5, <1>6, <1>7 DEF Told
<1>9. SwallowInv'
  <2> SUFFICES ASSUME kind = "aggregation", signalled, stop["data"] # "missed"
               PROVE  /\ ~listener'["data"].consuming /\ swallowed <= 1
                      /\ listener'["data"].at = "delivered" \/ MayTake(listener'["data"])
                           => swallowed = 0
    BY <1>2, <1>5 DEF SwallowInv
  <2>1. x = "data"
    BY <1>1, <1>2 DEF WaitInv, Listeners
  <2>2. ~l.consuming /\ swallowed = 0
    BY <1>1, <1>4, <2>1 DEF SwallowInv
  <2>3. ~listener'["data"].consuming
    BY <1>3, <1>5, <2>1, <2>2
  <2> QED
    BY <2>2, <2>3
<1>10. swallowed' \in 0 .. MaxSwallowed /\ (~signalled => late' = late)
  BY <1>1, <1>2, <1>6 DEF TypeInv
<1> QED
  BY <1>2, <1>3, <1>7, <1>8, <1>9, <1>10, BecomesKeeps

\* An aggregation that has its signal throws away the message that it has in hand.
LEMMA EnterKeeps ==
    ASSUME Invariant, NEW x \in Listeners, EnterCallback(x)
    PROVE  Invariant'
<1> PICK l : l = listener[x]
  OBVIOUS
<1> PICK m : m = [l EXCEPT !.at = "callback"]
  OBVIOUS
<1>1. TypeInv /\ WaitInv /\ SignalInv /\ SwallowInv /\ Told(x) /\ IsListener(l)
  BY DEF Invariant, TypeInv
<1>2. /\ l.at = "delivered" /\ Becomes(x, m) /\ late' = late
      /\ swallowed' = IF Swallows /\ swallowed < MaxSwallowed THEN swallowed + 1 ELSE swallowed
  BY DEF EnterCallback
<1>3. /\ IsListener(m) /\ m.at = "callback" /\ m.consuming = l.consuming /\ ~MayTake(m)
  BY <1>1, <1>2 DEF IsListener, ListenerType, Ats, MayTake
<1>4. UNCHANGED <<kind, signalled, stop>> /\ listener'[x] = m
  BY <1>1, <1>2 DEF Becomes, TypeInv
<1>5. swallowed' \in 0 .. MaxSwallowed /\ swallowed' <= swallowed + 1
  BY <1>1, <1>2, ShutdownAssumption DEF TypeInv
<1>6. (~signalled \/ kind # "aggregation") => swallowed' = swallowed
  BY <1>2 DEF Swallows
<1>7. Told(x)'
  BY <1>1, <1>2, <1>3, <1>4 DEF Told
<1>8. SwallowInv'
  <2> SUFFICES ASSUME kind = "aggregation", signalled, stop["data"] # "missed"
               PROVE  /\ ~listener'["data"].consuming /\ swallowed' <= 1
                      /\ ~(listener'["data"].at = "delivered" \/ MayTake(listener'["data"]))
    BY <1>4 DEF SwallowInv
  <2>1. x = "data"
    BY <1>1, <1>2 DEF WaitInv, Listeners
  <2>2. ~l.consuming /\ swallowed = 0
    BY <1>1, <1>2, <2>1 DEF SwallowInv
  <2>3. ~listener'["data"].consuming
    BY <1>3, <1>4, <2>1, <2>2
  <2>4. ~(listener'["data"].at = "delivered" \/ MayTake(listener'["data"]))
    BY <1>3, <1>4, <2>1
  <2>5. swallowed' <= 1
    BY <1>5, <2>2
  <2> QED
    BY <2>3, <2>4, <2>5
<1>9. late' \in [Listeners -> Nat] /\ \A y \in Listeners \ {x} : late'[y] = late[y]
  BY <1>1, <1>2 DEF TypeInv
<1>10. l.at \notin {"none", "ended"} /\ m.at \notin {"none", "new"}
  BY <1>2, <1>3
<1> QED
  BY <1>2, <1>3, <1>5, <1>6, <1>7, <1>8, <1>9, <1>10, BecomesKeeps

\* After its callback a listener that was told to stop is not subscribed any more.
LEMMA EndCallbackKeeps ==
    ASSUME Invariant, NEW x \in Listeners, EndCallback(x)
    PROVE  Invariant'
<1> PICK l : l = listener[x]
  OBVIOUS
<1> PICK m : m = IF l.open THEN LooksAtStop(l) ELSE Ended(l)
  OBVIOUS
<1>1. IsListener(l)
  BY DEF Invariant, TypeInv
<1>2. l.at = "callback" /\ Becomes(x, m) /\ Silent
  BY DEF EndCallback
<1>3. /\ IsListener(m) /\ m.at \in {"loop", "ended"}
      /\ MayTake(m) => m.consuming
      /\ m.consuming => l.consuming
  <2>1. CASE l.open
    <3>1. m = [l EXCEPT !.at = "loop", !.subscribed = @ /\ l.consuming]
      BY <2>1 DEF LooksAtStop
    <3> QED
      BY <1>1, <3>1 DEF IsListener, ListenerType, Ats, MayTake
  <2>2. CASE ~l.open
    BY <1>1, <2>2, EndedListener
  <2> QED
    BY <2>1, <2>2
<1> QED
  BY <1>2, <1>3, QuietKeeps

\* A listener leaves its loop for good; the stop that the join asked for runs in the loop.
LEMMA LeaveKeeps ==
    ASSUME Invariant, NEW x \in Listeners, Leave(x) \/ RunRequest(x)
    PROVE  Invariant'
<1> PICK l : l = listener[x]
  OBVIOUS
<1>1. IsListener(l)
  BY DEF Invariant, TypeInv
<1>2. CASE Leave(x)
  <2>1. l.at \in {"loop", "deaf"} /\ Becomes(x, Ended(l)) /\ Silent
    BY <1>2 DEF Leave
  <2>2. IsListener(Ended(l)) /\ Ended(l).at = "ended" /\ ~MayTake(Ended(l)) /\ ~Ended(l).consuming
    BY <1>1, EndedListener
  <2> QED
    BY <2>1, <2>2, QuietKeeps
<1>3. CASE RunRequest(x)
  <2> PICK m : m = [Stopped(l) EXCEPT !.request = FALSE]
    OBVIOUS
  <2>1. l.at = "loop" /\ Becomes(x, m) /\ Silent
    BY <1>3 DEF RunRequest
  <2>2. IsListener(m) /\ m.at = "loop" /\ ~MayTake(m) /\ ~m.consuming
    BY <1>1, <2>1 DEF IsListener, ListenerType, Stopped, MayTake
  <2> QED
    BY <2>1, <2>2, QuietKeeps
<1> QED
  BY <1>2, <1>3

-----------------------------------------------------------------------------
(* The handlers, the main threads and the monitor.                         *)

\* The signal finds each listener somewhere: only one that is subscribing may take a
\* message afterwards.
LEMMA SignalKeeps ==
    ASSUME Invariant, Signal
    PROVE  Invariant'
<1>1. PICK deaf \in SUBSET Waiting :
        /\ listener' = [x \in Listeners |->
               IF kind = "join" THEN Requested(listener[x])
               ELSE IF x \in deaf THEN [Stopped(listener[x]) EXCEPT !.at = "deaf"]
               ELSE Stopped(listener[x])]
        /\ stop' = [x \in Listeners |-> Found(x, deaf)]
  BY DEF Signal
<1>2. /\ ~signalled /\ signalled' = TRUE
      /\ UNCHANGED <<kind, main, monitor, closing, outputOpen, waited, late, swallowed, faults>>
  BY DEF Signal
<1>3. TypeInv /\ MainInv /\ WaitInv /\ SignalInv /\ \A x \in Listeners : Told(x)
  BY DEF Invariant
<1>4. ASSUME NEW x \in Listeners
      PROVE  /\ IsListener(listener'[x])
             /\ listener[x].at \in {"none", "ended"} => listener'[x].at = listener[x].at
             /\ listener'[x].at \in {"none", "new"} => listener'[x].at = listener[x].at
             /\ stop'[x] \in {"heard", "missed", "early", "deaf"}
             /\ kind # "join" /\ listener'[x].at \in {"none", "new"} => stop'[x] = "missed"
             /\ ~listener'[x].consuming /\ MayTake(listener'[x]) => stop'[x] = "early"
             /\ kind # "join" => ~listener'[x].consuming
  <2> PICK l : l = listener[x]
    OBVIOUS
  <2>1. IsListener(l)
    BY <1>3 DEF TypeInv
  <2>2. /\ stop'[x] = Found(x, deaf)
        /\ Found(x, deaf) \in {"heard", "missed", "early", "deaf"}
        /\ kind # "join" /\ l.at \in {"none", "new"} => Found(x, deaf) = "missed"
        /\ kind # "join" /\ l.at = "subscribing" => Found(x, deaf) = "early"
    BY <1>1 DEF Found
  <2>3. CASE kind = "join"
    <3>1. listener'[x] = Requested(l)
      BY <1>1, <2>3
    <3>2. stop[x] = "none"
      BY <1>2, <1>3 DEF SignalInv
    <3>3. ~(~l.consuming /\ MayTake(l))
      BY <1>3, <3>2 DEF Told
    <3> QED
      BY <2>1, <2>2, <2>3, <3>1, <3>3, RequestedListener
  <2>4. CASE kind # "join" /\ x \in deaf
    <3>1. listener'[x] = [Stopped(l) EXCEPT !.at = "deaf"]
      BY <1>1, <2>4
    <3>2. l.at = "loop"
      BY <2>4 DEF Waiting
    <3>3. IsListener(Stopped(l)) /\ ~Stopped(l).consuming
      BY <2>1, StoppedListener
    <3>4. /\ IsListener(listener'[x]) /\ listener'[x].at = "deaf" /\ ~listener'[x].consuming
          /\ ~MayTake(listener'[x])
      BY <3>1, <3>3 DEF IsListener, ListenerType, Ats, MayTake
    <3> QED
      BY <2>2, <3>2, <3>4
  <2>5. CASE kind # "join" /\ x \notin deaf
    <3>1. listener'[x] = Stopped(l)
      BY <1>1, <2>5
    <3>2. /\ IsListener(Stopped(l)) /\ Stopped(l).at = l.at /\ ~Stopped(l).consuming
          /\ MayTake(Stopped(l)) => l.at = "subscribing" /\ l.open
      BY <2>1, StoppedListener
    <3> QED
      BY <2>2, <2>5, <3>1, <3>2
  <2> QED
    BY <2>3, <2>4, <2>5
<1>5. TypeInv'
  <2>1. DOMAIN listener' = Listeners /\ listener' = [x \in Listeners |-> listener'[x]]
    BY <1>1
  <2>2. stop' \in [Listeners -> {"none", "heard", "missed", "early", "deaf"}]
    <3>1. DOMAIN stop' = Listeners /\ stop' = [x \in Listeners |-> stop'[x]]
      BY <1>1
    <3> QED
      BY <1>4, <3>1
  <2> QED
    BY <1>2, <1>3, <1>4, <2>1, <2>2 DEF TypeInv
<1>6. MainInv'
  BY <1>2, <1>3 DEF MainInv
<1>7. AllEnded => AllEnded'
  BY <1>4 DEF AllEnded
<1>8. WaitInv'
  BY <1>2, <1>3, <1>4, <1>7 DEF WaitInv, Listeners
<1>9. \A x \in Listeners : late[x] = 0
  BY <1>2, <1>3 DEF SignalInv
<1>10. swallowed = 0
  BY <1>2, <1>3 DEF SignalInv
<1>11. SignalInv'
  BY <1>2, <1>4, <1>10 DEF SignalInv
<1>12. \A x \in Listeners : Told(x)'
  BY <1>2, <1>4, <1>9 DEF Told
<1>13. SwallowInv'
  BY <1>2, <1>4, <1>10 DEF SwallowInv, Listeners
<1> QED
  BY <1>5, <1>6, <1>8, <1>11, <1>12, <1>13 DEF Invariant

\* A step of the main thread, of the monitor or of a connection that fails keeps the
\* invariant when it moves no listener but those that were not started, lets none take a
\* message, and waits for those that it says it waited for.
LEMMA OtherKeeps ==
    ASSUME Invariant,
           UNCHANGED <<kind, signalled, stop, late, swallowed>>, faults' \in Nat,
           DOMAIN listener' = Listeners, listener' = [x \in Listeners |-> listener'[x]],
           \A x \in Listeners :
             /\ IsListener(listener'[x])
             /\ \/ listener'[x].at = listener[x].at
                \/ main # main' /\ listener[x].at = "none" /\ listener'[x].at = "new"
             /\ MayTake(listener'[x]) => MayTake(listener[x])
             /\ MayTake(listener'[x]) => listener'[x].consuming = listener[x].consuming
             /\ listener'[x].consuming => listener[x].consuming,
           main' \in {"start", "check", "join", "wait", "close", "exit"},
           monitor' \in {"none", "scan", "sending", "ended"},
           outputOpen' \in BOOLEAN, waited' \in BOOLEAN, MainInv',
           waited' => waited \/ AllEnded,
           kind = "aggregation" /\ main' \in {"close", "exit"} =>
             AllEnded \/ main \in {"close", "exit"},
           main' = "start" => main = "start"
    PROVE  Invariant'
<1>1. /\ TypeInv /\ MainInv /\ WaitInv /\ SignalInv /\ SwallowInv
      /\ \A x \in Listeners : Told(x)
  BY DEF Invariant
<1>2. TypeInv'
  BY <1>1 DEF TypeInv
<1>3. AllEnded => AllEnded'
  BY DEF AllEnded
<1>4. WaitInv'
  BY <1>1, <1>3 DEF WaitInv, Listeners
<1>5. SignalInv'
  BY <1>1 DEF SignalInv
<1>6. \A x \in Listeners : Told(x)'
  <2> SUFFICES ASSUME NEW x \in Listeners PROVE Told(x)'
    OBVIOUS
  <2>1. ~listener'[x].consuming /\ MayTake(listener'[x]) =>
          ~listener[x].consuming /\ MayTake(listener[x])
    OBVIOUS
  <2>2. Told(x)
    BY <1>1
  <2> QED
    BY <2>1, <2>2 DEF Told
<1>7. SwallowInv'
  <2> SUFFICES ASSUME kind = "aggregation", signalled, stop["data"] # "missed"
               PROVE  /\ ~listener'["data"].consuming /\ swallowed <= 1
                      /\ listener'["data"].at = "delivered" \/ MayTake(listener'["data"])
                           => swallowed = 0
    BY DEF SwallowInv
  <2>1. /\ ~listener["data"].consuming /\ swallowed <= 1
        /\ listener["data"].at = "delivered" \/ MayTake(listener["data"]) => swallowed = 0
    BY <1>1 DEF SwallowInv
  <2>2. "data" \in Listeners
    BY DEF Listeners
  <2> QED
    BY <2>1, <2>2
<1> QED
  BY <1>2, <1>4, <1>5, <1>6, <1>7 DEF Invariant

\* Most of these steps move no listener.
LEMMA NoListenerMoves ==
    ASSUME Invariant, UNCHANGED <<listener, kind, signalled, stop, late, swallowed, faults>>,
           main' \in {"start", "check", "join", "wait", "close", "exit"},
           monitor' \in {"none", "scan", "sending", "ended"},
           outputOpen' \in BOOLEAN, waited' \in BOOLEAN, MainInv',
           waited' => waited \/ AllEnded,
           kind = "aggregation" /\ main' \in {"close", "exit"} =>
             AllEnded \/ main \in {"close", "exit"},
           main' = "start" => main = "start"
    PROVE  Invariant'
<1>1. TypeInv
  BY DEF Invariant
<1>2. DOMAIN listener' = Listeners /\ listener' = [x \in Listeners |-> listener'[x]]
  BY <1>1 DEF TypeInv
<1>3. \A x \in Listeners :
        /\ IsListener(listener'[x]) /\ listener'[x].at = listener[x].at
        /\ MayTake(listener'[x]) => MayTake(listener[x])
        /\ MayTake(listener'[x]) => listener'[x].consuming = listener[x].consuming
        /\ listener'[x].consuming => listener[x].consuming
  BY <1>1 DEF TypeInv
<1>4. faults' \in Nat
  BY <1>1 DEF TypeInv
<1> QED
  BY <1>2, <1>3, <1>4, OtherKeeps

\* The threads are started.
LEMMA StartKeeps ==
    ASSUME Invariant, Start
    PROVE  Invariant'
<1>1. /\ main = "start"
      /\ main' = IF kind = "sum" THEN "check" ELSE "join"
      /\ listener' = [x \in Listeners |-> IF listener[x].at = "none"
                          THEN [listener[x] EXCEPT !.at = "new"] ELSE listener[x]]
      /\ monitor' = IF kind = "join" THEN "scan" ELSE monitor
      /\ UNCHANGED <<kind, signalled, closing, outputOpen, stop, waited, late, swallowed, faults>>
  BY DEF Start
<1>2. TypeInv /\ MainInv
  BY DEF Invariant
<1>3. DOMAIN listener' = Listeners /\ listener' = [x \in Listeners |-> listener'[x]]
  BY <1>1
<1>4. ASSUME NEW x \in Listeners
      PROVE  /\ IsListener(listener'[x])
             /\ \/ listener'[x].at = listener[x].at
                \/ main # main' /\ listener[x].at = "none" /\ listener'[x].at = "new"
             /\ MayTake(listener'[x]) => MayTake(listener[x])
             /\ MayTake(listener'[x]) => listener'[x].consuming = listener[x].consuming
             /\ listener'[x].consuming => listener[x].consuming
  <2> PICK l : l = listener[x]
    OBVIOUS
  <2>1. IsListener(l)
    BY <1>2 DEF TypeInv
  <2>2. CASE l.at = "none"
    <3>1. listener'[x] = [l EXCEPT !.at = "new"]
      BY <1>1, <2>2
    <3>2. IsListener(listener'[x]) /\ listener'[x].at = "new" /\ ~MayTake(listener'[x])
          /\ listener'[x].consuming = l.consuming
      BY <2>1, <3>1 DEF IsListener, ListenerType, Ats, MayTake
    <3>3. main # main'
      BY <1>1
    <3> QED
      BY <2>2, <3>2, <3>3
  <2>3. CASE l.at # "none"
    <3>1. listener'[x] = l
      BY <1>1, <2>3
    <3> QED
      BY <2>1, <3>1
  <2> QED
    BY <2>2, <2>3
<1>5. main' \in {"check", "join"} /\ monitor' \in {"none", "scan", "sending", "ended"}
  BY <1>1, <1>2 DEF TypeInv
<1>6. MainInv'
  BY <1>1, <1>2 DEF MainInv
<1>7. outputOpen' \in BOOLEAN /\ waited' \in BOOLEAN /\ faults' \in Nat /\ (waited' => waited)
  BY <1>1, <1>2 DEF TypeInv
<1> QED
  BY <1>1, <1>3, <1>4, <1>5, <1>6, <1>7, OtherKeeps

\* The main thread waits for its threads, or not, and goes on to close.
LEMMA WaitKeeps ==
    ASSUME Invariant, SumCheck \/ SumJoin \/ AggregationReturns \/ JoinListeners \/ Exit
    PROVE  Invariant'
<1>1. TypeInv /\ MainInv
  BY DEF Invariant
<1>2. UNCHANGED <<listener, kind, signalled, monitor, outputOpen, stop, late, swallowed, faults>>
  BY DEF SumCheck, SumJoin, AggregationReturns, JoinListeners, Exit, MainOnly
<1>3. /\ main' \in {"start", "check", "join", "wait", "close", "exit"} /\ main' # "start"
      /\ waited' \in BOOLEAN /\ outputOpen' \in BOOLEAN
      /\ monitor' \in {"none", "scan", "sending", "ended"}
  BY <1>1, <1>2 DEF TypeInv, SumCheck, SumJoin, AggregationReturns, JoinListeners, Exit
<1>4. waited' => waited \/ AllEnded
  BY DEF SumCheck, SumJoin, AggregationReturns, JoinListeners, Exit
<1>5. kind = "aggregation" /\ main' \in {"close", "exit"} => AllEnded \/ main \in {"close", "exit"}
  BY <1>1 DEF MainInv, SumCheck, SumJoin, AggregationReturns, JoinListeners, Exit
<1>6. MainInv'
  BY <1>1, <1>2 DEF MainInv, SumCheck, SumJoin, AggregationReturns, JoinListeners, Exit
<1> QED
  BY <1>2, <1>3, <1>4, <1>5, <1>6, NoListenerMoves

\* The join asks its listeners to stop once its monitor is over.
LEMMA JoinMonitorKeeps ==
    ASSUME Invariant, JoinMonitor
    PROVE  Invariant'
<1>1. /\ kind = "join" /\ main = "join" /\ monitor = "ended" /\ main' = "wait"
      /\ listener' = [x \in Listeners |-> Requested(listener[x])]
      /\ UNCHANGED <<kind, signalled, monitor, outputOpen, waited, stop, late, swallowed, faults>>
  BY DEF JoinMonitor, MonitorJoined, MainOnly
<1>2. TypeInv /\ MainInv
  BY DEF Invariant
<1>3. DOMAIN listener' = Listeners /\ listener' = [x \in Listeners |-> listener'[x]]
  BY <1>1
<1>4. ASSUME NEW x \in Listeners
      PROVE  /\ IsListener(listener'[x]) /\ listener'[x].at = listener[x].at
             /\ MayTake(listener'[x]) => MayTake(listener[x])
             /\ MayTake(listener'[x]) => listener'[x].consuming = listener[x].consuming
             /\ listener'[x].consuming => listener[x].consuming
  <2> PICK l : l = listener[x]
    OBVIOUS
  <2>1. IsListener(l) /\ listener'[x] = Requested(l)
    BY <1>1, <1>2 DEF TypeInv
  <2>2. Requested(l).consuming => l.consuming
    BY <2>1 DEF IsListener, ListenerType, Requested, Stopped
  <2> QED
    BY <2>1, <2>2, RequestedListener
<1>5. MainInv'
  BY <1>1, <1>2 DEF MainInv
<1>6. outputOpen' \in BOOLEAN /\ waited' \in BOOLEAN /\ faults' \in Nat /\ (waited' => waited)
  BY <1>1, <1>2 DEF TypeInv
<1>7. main' \in {"start", "check", "join", "wait", "close", "exit"}
      /\ monitor' \in {"none", "scan", "sending", "ended"}
      /\ kind # "aggregation" /\ main' # "start"
  BY <1>1
<1> QED
  BY <1>1, <1>3, <1>4, <1>5, <1>6, <1>7, OtherKeeps

\* A connection that is closed takes nothing.
LEMMA CloseKeeps ==
    ASSUME Invariant, Close
    PROVE  Invariant'
<1>1. /\ main = "close" /\ main' = "close"
      /\ UNCHANGED <<kind, signalled, monitor, waited, stop, late, swallowed, faults>>
  BY DEF Close, MainOnly
<1>2. TypeInv /\ MainInv
  BY DEF Invariant
<1>3. CASE outputOpen' = FALSE /\ UNCHANGED listener
  <2>1. MainInv'
    BY <1>1, <1>2, <1>3 DEF MainInv
  <2>2. /\ outputOpen' \in BOOLEAN /\ waited' \in BOOLEAN /\ (waited' => waited)
        /\ main' \in {"start", "check", "join", "wait", "close", "exit"} /\ main' # "start"
        /\ monitor' \in {"none", "scan", "sending", "ended"} /\ main \in {"close", "exit"}
    BY <1>1, <1>2, <1>3 DEF TypeInv
  <2> QED
    BY <1>1, <1>3, <2>1, <2>2, NoListenerMoves
<1>4. CASE /\ listener' = [listener EXCEPT ![Head(closing)] = Closed(@)]
           /\ UNCHANGED outputOpen
  <2> PICK z : z = Head(closing)
    OBVIOUS
  <2>1. DOMAIN listener' = Listeners /\ listener' = [x \in Listeners |-> listener'[x]]
    BY <1>2, <1>4 DEF TypeInv
  <2>2. ASSUME NEW x \in Listeners
        PROVE  /\ IsListener(listener'[x]) /\ listener'[x].at = listener[x].at
               /\ MayTake(listener'[x]) => MayTake(listener[x])
               /\ MayTake(listener'[x]) => listener'[x].consuming = listener[x].consuming
               /\ listener'[x].consuming => listener[x].consuming
    <3> PICK l : l = listener[x]
      OBVIOUS
    <3>1. IsListener(l)
      BY <1>2 DEF TypeInv
    <3>2. listener'[x] = IF x = z THEN Closed(l) ELSE l
      BY <1>2, <1>4 DEF TypeInv
    <3> QED
      BY <3>1, <3>2, StoppedListener
  <2>3. MainInv'
    BY <1>1, <1>2, <1>4 DEF MainInv
  <2>4. /\ outputOpen' \in BOOLEAN /\ waited' \in BOOLEAN /\ (waited' => waited) /\ faults' \in Nat
        /\ main' \in {"start", "check", "join", "wait", "close", "exit"} /\ main' # "start"
        /\ monitor' \in {"none", "scan", "sending", "ended"} /\ main \in {"close", "exit"}
    BY <1>1, <1>2, <1>4 DEF TypeInv
  <2> QED
    BY <1>1, <2>1, <2>2, <2>3, <2>4, OtherKeeps
<1> QED
  BY <1>3, <1>4 DEF Close

\* The monitor of the join ends when it sees the signal.
LEMMA MonitorKeeps ==
    ASSUME Invariant, MonitorStep
    PROVE  Invariant'
<1>1. /\ monitor \in {"scan", "sending"} /\ monitor' \in {"scan", "sending", "ended"}
      /\ UNCHANGED <<kind, signalled, main, closing, outputOpen, listener, stop, waited, late,
                     swallowed, faults>>
  BY DEF MonitorStep
<1>2. TypeInv /\ MainInv
  BY DEF Invariant
<1>3. MainInv'
  BY <1>1, <1>2 DEF MainInv
<1>4. /\ main' \in {"start", "check", "join", "wait", "close", "exit"}
      /\ monitor' \in {"none", "scan", "sending", "ended"}
      /\ outputOpen' \in BOOLEAN /\ waited' \in BOOLEAN /\ (waited' => waited) /\ main' = main
  BY <1>1, <1>2 DEF TypeInv
<1> QED
  BY <1>1, <1>3, <1>4, NoListenerMoves

\* A connection that fails takes nothing more.
LEMMA LoseConnectionKeeps ==
    ASSUME Invariant, NEW z \in Listeners, LoseConnection(z)
    PROVE  Invariant'
<1>1. /\ listener' = [listener EXCEPT ![z].open = FALSE] /\ faults' = faults + 1
      /\ UNCHANGED <<kind, signalled, main, monitor, closing, outputOpen, stop, waited, late,
                     swallowed>>
  BY DEF LoseConnection
<1>2. TypeInv /\ MainInv
  BY DEF Invariant
<1>3. DOMAIN listener' = Listeners /\ listener' = [x \in Listeners |-> listener'[x]]
  BY <1>1, <1>2 DEF TypeInv
<1>4. ASSUME NEW x \in Listeners
      PROVE  /\ IsListener(listener'[x]) /\ listener'[x].at = listener[x].at
             /\ MayTake(listener'[x]) => MayTake(listener[x])
             /\ MayTake(listener'[x]) => listener'[x].consuming = listener[x].consuming
             /\ listener'[x].consuming => listener[x].consuming
  <2> PICK l : l = listener[x]
    OBVIOUS
  <2>1. IsListener(l)
    BY <1>2 DEF TypeInv
  <2>2. listener'[x] = IF x = z THEN [l EXCEPT !.open = FALSE] ELSE l
    BY <1>1, <1>2 DEF TypeInv
  <2> QED
    BY <2>1, <2>2 DEF IsListener, ListenerType, MayTake
<1>5. MainInv'
  BY <1>1, <1>2 DEF MainInv
<1>6. /\ main' \in {"start", "check", "join", "wait", "close", "exit"} /\ main' = main
      /\ monitor' \in {"none", "scan", "sending", "ended"} /\ faults' \in Nat
      /\ outputOpen' \in BOOLEAN /\ waited' \in BOOLEAN /\ (waited' => waited)
  BY <1>1, <1>2 DEF TypeInv
<1> QED
  BY <1>1, <1>3, <1>4, <1>5, <1>6, OtherKeeps

-----------------------------------------------------------------------------
(* The invariant holds.                                                    *)

\* At first no thread runs.
LEMMA InitIsRight ==
    ASSUME Init
    PROVE  Invariant
<1>1. /\ kind \in Kinds /\ signalled = FALSE /\ main = "start" /\ outputOpen = TRUE
      /\ monitor = IF kind = "join" THEN "none" ELSE "ended"
      /\ listener = [x \in Listeners |-> IF kind = "aggregation" /\ x = "second"
                                           THEN NoListener ELSE Idle]
      /\ stop = [x \in Listeners |-> "none"] /\ late = [x \in Listeners |-> 0]
      /\ waited = FALSE /\ swallowed = 0 /\ faults = 0
  BY DEF Init
<1>2. /\ IsListener(NoListener) /\ NoListener.at = "ended" /\ ~MayTake(NoListener)
      /\ IsListener(Idle) /\ Idle.at = "none" /\ ~MayTake(Idle)
  BY DEF IsListener, ListenerType, NoListener, Idle, Ats, MayTake
<1>3. \A x \in Listeners : listener[x] \in {NoListener, Idle}
  BY <1>1
<1>4. TypeInv
  <2>1. /\ kind \in Kinds /\ signalled \in BOOLEAN
        /\ main \in {"start", "check", "join", "wait", "close", "exit"}
        /\ outputOpen \in BOOLEAN /\ waited \in BOOLEAN
    BY <1>1
  <2>2. monitor \in {"none", "scan", "sending", "ended"}
    BY <1>1
  <2>3. DOMAIN listener = Listeners /\ listener = [x \in Listeners |-> listener[x]]
    BY <1>1, Zenon
  <2>4. \A x \in Listeners : IsListener(listener[x])
    BY <1>2, <1>3
  <2>5. /\ stop \in [Listeners -> {"none", "heard", "missed", "early", "deaf"}]
        /\ late \in [Listeners -> Nat]
    BY <1>1
  <2>6. swallowed \in 0 .. MaxSwallowed /\ faults \in Nat
    BY <1>1, ShutdownAssumption
  <2> QED
    BY <2>1, <2>2, <2>3, <2>4, <2>5, <2>6 DEF TypeInv
<1>5. MainInv
  BY <1>1 DEF MainInv, Kinds
<1>6. kind = "aggregation" => listener["second"] = NoListener
  BY <1>1 DEF Listeners
<1>7. WaitInv
  BY <1>1, <1>2, <1>3, <1>6 DEF WaitInv
<1>8. SignalInv /\ SwallowInv
  BY <1>1 DEF SignalInv, SwallowInv
<1>9. \A x \in Listeners : Told(x)
  BY <1>1, <1>2, <1>3 DEF Told
<1> QED
  BY <1>4, <1>5, <1>7, <1>8, <1>9 DEF Invariant

\* Every step keeps it.
LEMMA StepIsRight ==
    ASSUME Invariant, [Next]_vars
    PROVE  Invariant'
<1>1. CASE Signal
  BY <1>1, SignalKeeps
<1>2. CASE MainStep
  BY <1>2, StartKeeps, WaitKeeps, JoinMonitorKeeps, CloseKeeps DEF MainStep
<1>3. CASE MonitorStep
  BY <1>3, MonitorKeeps
<1>4. ASSUME NEW x \in Listeners, ListenerStep(x) PROVE Invariant'
  BY <1>4, BeginKeeps, EnterKeeps, EndCallbackKeeps, LeaveKeeps DEF ListenerStep
<1>5. ASSUME NEW x \in Listeners, Take(x) PROVE Invariant'
  BY <1>5, TakeKeeps
<1>6. ASSUME NEW x \in Listeners, LoseConnection(x) PROVE Invariant'
  BY <1>6, LoseConnectionKeeps
<1>7. CASE UNCHANGED vars
  <2>1. TypeInv /\ MainInv
    BY DEF Invariant
  <2>2. MainInv'
    BY <1>7, <2>1 DEF MainInv
  <2>3. /\ main' \in {"start", "check", "join", "wait", "close", "exit"} /\ main' = main
        /\ monitor' \in {"none", "scan", "sending", "ended"}
        /\ outputOpen' \in BOOLEAN /\ waited' \in BOOLEAN /\ (waited' => waited)
        /\ UNCHANGED <<listener, kind, signalled, stop, late, swallowed, faults>>
    BY <1>7, <2>1 DEF TypeInv
  <2> QED
    BY <2>2, <2>3, NoListenerMoves
<1> QED
  BY <1>1, <1>2, <1>3, <1>4, <1>5, <1>6, <1>7 DEF Next

\* So it holds in every state of every behaviour.
LEMMA AlwaysRight == Spec => []Invariant
<1>1. Init => Invariant
  BY InitIsRight
<1>2. Invariant /\ [Next]_vars => Invariant'
  BY StepIsRight
<1> QED
  BY <1>1, <1>2, PTL DEF Spec

-----------------------------------------------------------------------------
(* The theorems.                                                           *)

\* Every variable keeps to its domain; a listener is subscribed only once it has a tag, and
\* a thread that ended does not consume.
THEOREM TypeCorrect == Spec => []TypeOK
<1>1. Invariant => TypeOK
  <2> SUFFICES ASSUME Invariant PROVE TypeOK
    OBVIOUS
  <2>1. TypeInv
    BY DEF Invariant
  <2>2. listener \in [Listeners -> ListenerType]
    BY <2>1 DEF TypeInv, IsListener
  <2>3. \A x \in Listeners : /\ listener[x].subscribed => listener[x].tag
                             /\ listener[x].at = "ended" => ~listener[x].consuming
    BY <2>1 DEF TypeInv, IsListener
  <2> QED
    BY <2>1, <2>2, <2>3 DEF TypeInv, TypeOK, ListenerType, Ats
<1> QED
  BY <1>1, AlwaysRight, PTL

\* Wherever SIGTERM finds a listener, it takes no message more, or one if it was just
\* subscribing; an aggregation throws away one message at most, unless the signal came
\* before it began to consume (start_consuming and stop_consuming of the middleware, and
\* process_message of the aggregation).
THEOREM FewAfterStop == Spec => []FewMessagesAfterStop
<1>1. Invariant => FewMessagesAfterStop
  <2> SUFFICES ASSUME Invariant PROVE FewMessagesAfterStop
    OBVIOUS
  <2>1. TypeInv /\ SignalInv /\ SwallowInv /\ \A x \in Listeners : Told(x)
    BY DEF Invariant
  <2>2. \A x \in Listeners : late[x] <= IF stop[x] = "early" THEN 1 ELSE 0
    <3> SUFFICES ASSUME NEW x \in Listeners PROVE late[x] <= IF stop[x] = "early" THEN 1 ELSE 0
      OBVIOUS
    <3>1. late[x] \in Nat /\ late[x] <= 1 /\ (late[x] = 1 => stop[x] = "early")
      BY <2>1 DEF TypeInv, Told
    <3> QED
      BY <3>1
  <2>3. swallowed <= 1 \/ stop["data"] = "missed"
    <3>1. CASE kind = "aggregation" /\ signalled
      BY <2>1, <3>1 DEF SwallowInv
    <3>2. CASE kind # "aggregation" \/ ~signalled
      BY <2>1, <3>2 DEF SignalInv
    <3> QED
      BY <3>1, <3>2
  <2> QED
    BY <2>2, <2>3 DEF FewMessagesAfterStop
<1> QED
  BY <1>1, AlwaysRight, PTL

\* A connection that publishes is closed after its last use: when the monitor of the join
\* is over, and the callbacks of an aggregation, and those of a Sum that waited for its
\* threads (the close() and stop() of the three main.py).
THEOREM OutputLivesLongEnough == Spec => []OutputOutlivesItsUsers
<1>1. Invariant => OutputOutlivesItsUsers
  BY DEF Invariant, MainInv, WaitInv, OutputOutlivesItsUsers
<1> QED
  BY <1>1, AlwaysRight, PTL

=============================================================================
