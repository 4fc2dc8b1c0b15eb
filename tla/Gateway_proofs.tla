--------------------------- MODULE Gateway_proofs ---------------------------
(***************************************************************************)
(* Proofs about Gateway: for any number of clients, any sizes of their     *)
(* uploads and of the pool, and any deaths and failures.                   *)
(***************************************************************************)
EXTENDS Gateway, FiniteSetTheorems, SequenceTheorems, TLAPS

USE DEF vars, clientVars, mainVars, requestVars, responseVars, givenVars, boundVars

-----------------------------------------------------------------------------
(* The lists of the gateway.                                               *)

In(s, x) == \E i \in DOMAIN s : s[i] = x
Once(s) == \A i, j \in DOMAIN s : s[i] = s[j] => i = j

\* In says what ToSet says.
LEMMA InToSet ==
    \A s, x : x \in ToSet(s) <=> In(s, x)
  BY DEF ToSet, In

\* The last place of a list, for a client that connects, is listed, or has a top.
LEMMA AppendedList ==
    ASSUME NEW S, NEW s \in Seq(S), NEW x \in S
    PROVE  /\ Append(s, x) \in Seq(S)
           /\ \A y : In(Append(s, x), y) <=> In(s, y) \/ y = x
           /\ Once(s) /\ ~In(s, x) => Once(Append(s, x))
           /\ s # <<>> => Head(Append(s, x)) = Head(s)
           /\ \A i \in DOMAIN s : i \in DOMAIN Append(s, x) /\ Append(s, x)[i] = s[i]
<1> DEFINE t == Append(s, x)
<1>1. /\ t \in Seq(S) /\ Len(t) = Len(s) + 1 /\ DOMAIN t = 1 .. Len(s) + 1
      /\ \A i \in 1 .. Len(s) : t[i] = s[i]
      /\ t[Len(s) + 1] = x
  OBVIOUS
<1>2. DOMAIN s = 1 .. Len(s) /\ Len(s) \in Nat
  OBVIOUS
<1>3. s # <<>> => Head(t) = Head(s)
  BY <1>1, <1>2
<1> HIDE DEF t
<1>4. \A y : In(t, y) <=> In(s, y) \/ y = x
  <2> SUFFICES ASSUME NEW y PROVE In(t, y) <=> In(s, y) \/ y = x
    OBVIOUS
  <2>1. Len(s) + 1 \in DOMAIN t
    BY <1>1, <1>2
  <2>2. \A i \in DOMAIN t : i \in DOMAIN s \/ i = Len(s) + 1
    BY <1>1, <1>2
  <2>3. \A i \in DOMAIN s : i \in DOMAIN t /\ t[i] = s[i]
    BY <1>1, <1>2
  <2> QED
    BY <1>1, <2>1, <2>2, <2>3 DEF In
<1>5. Once(s) /\ ~In(s, x) => Once(t)
  BY <1>1, <1>2 DEF Once, In
<1>6. \A i \in DOMAIN s : i \in DOMAIN t /\ t[i] = s[i]
  BY <1>1, <1>2
<1> QED
  BY <1>1, <1>3, <1>4, <1>5, <1>6 DEF t

\* It is one longer.
LEMMA AppendedLength ==
    \A S : \A s \in Seq(S) : \A x \in S : Len(s) \in Nat /\ Len(Append(s, x)) = Len(s) + 1
  OBVIOUS

\* The first of a list, for a connection that is accepted, a task that is started, or a
\* top that is acknowledged.
LEMMA TailOfList ==
    ASSUME NEW S, NEW s \in Seq(S), s # <<>>
    PROVE  /\ Head(s) \in S /\ Tail(s) \in Seq(S) /\ In(s, Head(s))
           /\ \A y : In(s, y) <=> In(Tail(s), y) \/ y = Head(s)
           /\ Once(s) => Once(Tail(s)) /\ ~In(Tail(s), Head(s))
<1> DEFINE t == Tail(s)
<1>1. /\ t \in Seq(S) /\ DOMAIN t = 1 .. Len(s) - 1 /\ Len(s) >= 1
      /\ \A i \in 1 .. Len(s) - 1 : t[i] = s[i + 1]
      /\ Head(s) = s[1] /\ Head(s) \in S
  OBVIOUS
<1>2. DOMAIN s = 1 .. Len(s) /\ Len(s) \in Nat
  OBVIOUS
<1> HIDE DEF t
<1>3. In(s, Head(s))
  BY <1>1, <1>2 DEF In
<1>4. \A i \in DOMAIN t : i + 1 \in DOMAIN s /\ t[i] = s[i + 1]
  BY <1>1, <1>2
<1>5. \A y : In(s, y) <=> In(t, y) \/ y = Head(s)
  <2> SUFFICES ASSUME NEW y PROVE In(s, y) <=> In(t, y) \/ y = Head(s)
    OBVIOUS
  <2>1. ASSUME NEW i \in DOMAIN s, s[i] = y, y # Head(s) PROVE In(t, y)
    <3>1. i - 1 \in DOMAIN t /\ t[i - 1] = s[i]
      BY <1>1, <1>2, <2>1
    <3> QED
      BY <2>1, <3>1 DEF In
  <2> QED
    BY <1>3, <1>4, <2>1 DEF In
<1>6. Once(s) => Once(t) /\ ~In(t, Head(s))
  <2> SUFFICES ASSUME Once(s) PROVE Once(t) /\ ~In(t, Head(s))
    OBVIOUS
  <2>1. Once(t)
    <3> SUFFICES ASSUME NEW i \in DOMAIN t, NEW j \in DOMAIN t, t[i] = t[j] PROVE i = j
      BY DEF Once
    <3>1. i + 1 = j + 1
      BY <1>4 DEF Once
    <3> QED
      BY <1>1, <3>1
  <2>2. ~In(t, Head(s))
    BY <1>1, <1>2 DEF Once, In
  <2> QED
    BY <2>1, <2>2
<1> QED
  BY <1>1, <1>3, <1>5, <1>6 DEF t

\* pop(i), the index being that of a client that is in the list once.
LEMMA PoppedList ==
    ASSUME NEW S, NEW s \in Seq(S), NEW i \in DOMAIN s, Once(s)
    PROVE  /\ RemoveAt(s, i) \in Seq(S)
           /\ \A y : In(RemoveAt(s, i), y) <=> In(s, y) /\ y # s[i]
           /\ Once(RemoveAt(s, i))
<1> DEFINE t == RemoveAt(s, i)
           n == Len(s)
<1>1. n \in Nat /\ i \in 1 .. n /\ DOMAIN s = 1 .. n
  OBVIOUS
<1>2. /\ t \in Seq(S) /\ Len(t) = n - 1 /\ DOMAIN t = 1 .. n - 1
      /\ \A j \in 1 .. n - 1 : t[j] = IF j < i THEN s[j] ELSE s[j + 1]
  <2> DEFINE a == SubSeq(s, 1, i - 1)
             b == SubSeq(s, i + 1, n)
  <2>1. /\ a \in Seq(S) /\ Len(a) = i - 1
        /\ \A j \in 1 .. i - 1 : a[j] = s[j]
    BY <1>1
  <2>2. /\ b \in Seq(S) /\ Len(b) = n - i
        /\ \A j \in 1 .. n - i : b[j] = s[i + j]
    BY <1>1
  <2>3. t = a \o b
    BY DEF RemoveAt
  <2> HIDE DEF a, b, t
  <2>4. /\ t \in Seq(S) /\ Len(t) = n - 1 /\ DOMAIN t = 1 .. n - 1
        /\ \A j \in 1 .. n - 1 : t[j] = IF j <= i - 1 THEN a[j] ELSE b[j - (i - 1)]
    <3>1. t \in Seq(S) /\ Len(t) = Len(a) + Len(b)
      BY <2>1, <2>2, <2>3, ConcatProperties
    <3>2. \A j \in 1 .. Len(a) + Len(b) : t[j] = IF j <= Len(a) THEN a[j] ELSE b[j - Len(a)]
      BY <2>1, <2>2, <2>3, ConcatProperties
    <3>3. Len(a) + Len(b) = n - 1 /\ DOMAIN t = 1 .. Len(t)
      BY <1>1, <2>1, <2>2, <3>1
    <3> QED
      BY <2>1, <3>1, <3>2, <3>3
  <2>5. ASSUME NEW j \in 1 .. n - 1 PROVE t[j] = IF j < i THEN s[j] ELSE s[j + 1]
    <3>1. CASE j < i
      BY <1>1, <2>1, <2>4, <3>1
    <3>2. CASE ~(j < i)
      <4>1. j - (i - 1) \in 1 .. n - i /\ i + (j - (i - 1)) = j + 1
        BY <1>1, <3>2
      <4> QED
        BY <1>1, <2>2, <2>4, <3>2, <4>1
    <3> QED
      BY <3>1, <3>2
  <2> QED
    BY <2>4, <2>5
<1> HIDE DEF t, n
<1>3. ASSUME NEW y PROVE In(t, y) <=> In(s, y) /\ y # s[i]
  <2> DEFINE Dom == 1 .. n
             Rest == 1 .. n - 1
  <2>1. ASSUME NEW j \in 1 .. n - 1 PROVE \E k \in 1 .. n : k # i /\ t[j] = s[k]
    <3>1. CASE j < i
      BY <1>1, <1>2, <3>1
    <3>2. CASE ~(j < i)
      BY <1>1, <1>2, <3>2
    <3> QED
      BY <3>1, <3>2
  <2>2. ASSUME NEW k \in 1 .. n, k # i PROVE \E j \in 1 .. n - 1 : t[j] = s[k]
    <3>1. CASE k < i
      BY <1>1, <1>2, <3>1
    <3>2. CASE ~(k < i)
      <4>1. k - 1 \in 1 .. n - 1 /\ t[k - 1] = s[k]
        BY <1>1, <1>2, <2>2, <3>2
      <4> QED
        BY <4>1
    <3> QED
      BY <3>1, <3>2
  <2>3. DOMAIN s = Dom /\ DOMAIN t = Rest /\ i \in Dom
    BY <1>1, <1>2
  <2>4. \A j \in Rest : \E k \in Dom : k # i /\ t[j] = s[k]
    BY <2>1
  <2>5. \A k \in Dom : k # i => \E j \in Rest : t[j] = s[k]
    BY <2>2
  <2> HIDE DEF Dom, Rest
  <2> QED
    BY <2>3, <2>4, <2>5 DEF In, Once
<1>4. Once(t)
  <2> SUFFICES ASSUME NEW j \in 1 .. n - 1, NEW k \in 1 .. n - 1, t[j] = t[k] PROVE j = k
    BY <1>2 DEF Once
  <2>1. PICK p \in 1 .. n : t[j] = s[p] /\ ((p = j /\ j < i) \/ (p = j + 1 /\ ~(j < i)))
    <3>1. j \in 1 .. n /\ j + 1 \in 1 .. n
      BY <1>1
    <3> QED
      BY <1>2, <3>1
  <2>2. PICK q \in 1 .. n : t[k] = s[q] /\ ((q = k /\ k < i) \/ (q = k + 1 /\ ~(k < i)))
    <3>1. k \in 1 .. n /\ k + 1 \in 1 .. n
      BY <1>1
    <3> QED
      BY <1>2, <3>1
  <2>3. p = q
    BY <1>1, <2>1, <2>2 DEF Once
  <2> QED
    BY <1>1, <2>1, <2>2, <2>3
<1> QED
  BY <1>2, <1>3, <1>4 DEF t

\* A set of numbers that is not empty has a least one.
LEMMA LeastNumber ==
    ASSUME NEW I \in SUBSET Nat, I # {}
    PROVE  Min(I) \in I
<1> DEFINE Less == OpToRel(<, Nat)
<1>1. PICK m \in I : \A y \in I : <<y, m>> \notin Less
  <2>1. IsWellFoundedOn(Less, Nat)
    BY NatLessThanWellFounded
  <2> HIDE DEF Less
  <2> QED
    BY <2>1, WFMin
<1>2. \A y \in I : ~(y < m)
  BY <1>1 DEF OpToRel
<1>3. \A y \in I : m <= y
  BY <1>2
<1> QED
  BY <1>3 DEF Min

\* The loop of lines 52-59 finds the client of a result where the list has it.
LEMMA LookupFinds ==
    ASSUME clientList \in Seq(Clients), NEW x
    PROVE  /\ Lookup(x) # 0 <=> In(clientList, x)
           /\ Lookup(x) # 0 => Lookup(x) \in DOMAIN clientList /\ clientList[Lookup(x)] = x
<1> DEFINE I == {i \in 1 .. Len(clientList) : x = clientList[i]}
<1>1. Lookup(x) = IF I # {} THEN Min(I) ELSE 0
  BY DEF Lookup, SelectInSeq, Matches
<1>2. DOMAIN clientList = 1 .. Len(clientList) /\ Len(clientList) \in Nat
  OBVIOUS
<1>3. CASE I = {}
  BY <1>1, <1>2, <1>3 DEF In
<1>4. CASE I # {}
  <2>1. I \in SUBSET Nat
    OBVIOUS
  <2>3. Min(I) \in I
    BY <1>4, <2>1, LeastNumber
  <2>2. Lookup(x) \in I
    BY <1>1, <1>4, <2>3
  <2> HIDE DEF Lookup
  <2> QED
    BY <1>2, <2>2 DEF In
<1> QED
  BY <1>3, <1>4

-----------------------------------------------------------------------------
(* The invariant.                                                          *)

Rec == Other("FRUIT_RECORD")
End == Other("END_OF_RECODS")
Ack == Other("ACK")

\* The parts of TypeOK, by who keeps the variables.
ClientTypes ==
    /\ client \in [Clients -> {"start", "send", "recordAck", "endAck", "top",
                               "write", "done", "failed", "gone", "lost"}]
    /\ unsent \in [Clients -> Nat] /\ \A c \in Clients : unsent[c] <= UploadSize[c]
    /\ output \in [Clients -> SUBSET Clients]

SocketTypes ==
    /\ toGateway \in [Clients -> Seq(ClientMessages)]
    /\ toClient \in [Clients -> Seq(GatewayMessages)]

MainTypes ==
    /\ server \in {"up", "down"}
    /\ backlog \in Seq(Clients) /\ clientList \in Seq(Clients) /\ tasks \in Seq(Clients)

RequestTypes ==
    /\ request \in [Clients -> {"none", "receive", "ackRecord", "ackEnd", "over"}]
    /\ link \in [Clients -> LinkStates]
    /\ published \in [Clients -> Nat] /\ eofPublished \in [Clients -> BOOLEAN]

PoolBound == Cardinality({c \in Clients : IsBusy(c)}) + ResponderProcesses <= POOL_SIZE

ResponseTypes ==
    /\ pipeline \in SUBSET Clients
    /\ results \in Seq(Clients \cup Former)
    /\ responder \in {"idle", "ack", "pop", "stopped"} /\ consumerUp \in BOOLEAN
    /\ tooLarge \in SUBSET Clients
    /\ leftOver = {} \/ \E f \in Former : leftOver = {f}

IndexType ==
    /\ clientIndex \in 0 .. Len(clientList) + 1
    /\ clientIndex = 0 <=> responder \in {"idle", "stopped"}
    /\ responder = "ack" => clientIndex \in DOMAIN clientList

BoundTypes == crashes \in Nat /\ faults \in Nat

TypeInv ==
    /\ ClientTypes /\ SocketTypes /\ MainTypes /\ RequestTypes /\ PoolBound
    /\ ResponseTypes /\ IndexType /\ BoundTypes

\* With a top that a former gateway left there is one, w, whose top may find nobody: the
\* former client, or the one that was taken off the list for it, and so on.
Stray(x, w) == x = w /\ leftOver # {}

\* A list has a client once.
ListInv(w) ==
    /\ Once(backlog) /\ Once(tasks) /\ Once(clientList) /\ Once(results)
    /\ responder # "stopped" => \A f \in Former : In(results, f) => Stray(f, w)

\* The client and its request handler take turns: there is one message at most on its
\* way to the gateway, nothing else while a record is, and no record behind the end.
Waiting == {"none", "receive", "over"}
Ending  == {"ackEnd", "over"}

RecordTurn(c) ==
    \/ toGateway[c] = <<Rec>> /\ toClient[c] = <<>>
    \/ toGateway[c] = <<>> /\ toClient[c] = <<>> /\ request[c] \in {"ackRecord", "over"}
    \/ toGateway[c] = <<>> /\ toClient[c] = <<Ack>> /\ request[c] \in {"receive", "over"}

EndTurn(c) ==
    \/ toGateway[c] = <<End>> /\ toClient[c] = <<>>
    \/ toGateway[c] = <<>> /\ request[c] \in Ending

Channel(c) ==
    /\ toGateway[c] \in {<<>>, <<Rec>>, <<End>>, <<Ack>>}
    /\ toGateway[c] \in {<<Rec>>, <<End>>} => ~eofPublished[c] /\ request[c] \in Waiting
    /\ toGateway[c] = <<End>> => unsent[c] = 0
    /\ toGateway[c] = <<Ack>> => client[c] \in {"write", "done", "failed", "gone"}
    /\ eofPublished[c] => unsent[c] = 0 /\ request[c] \in Ending

Turn(c) ==
    /\ client[c] = "start" => request[c] = "none" /\ toGateway[c] = <<>> /\ toClient[c] = <<>>
    /\ client[c] = "send" => /\ request[c] \in Waiting /\ ~eofPublished[c]
                             /\ toGateway[c] = <<>> /\ toClient[c] = <<>>
    /\ client[c] = "recordAck" => ~eofPublished[c] /\ RecordTurn(c)
    /\ client[c] = "endAck" => EndTurn(c)
    /\ client[c] = "top" => toGateway[c] = <<>> /\ request[c] \in Ending
    /\ client[c] \in {"write", "done", "failed"} =>
         toGateway[c] \in {<<>>, <<Ack>>} /\ request[c] \in Ending

\* As long as no connection was lost a record is not sent, on its way, or published.
Account(c) ==
    faults = 0 =>
        published[c] + unsent[c] + (IF toGateway[c] = <<Rec>> THEN 1 ELSE 0) = UploadSize[c]

\* OwnTopOnly, of one client.
Own(c) ==
    /\ output[c] \subseteq {c}
    /\ \A i \in DOMAIN toClient[c] : toClient[c][i] \in {Ack, FruitTop(c)}

\* A client goes through the backlog, the tasks and the pool in this order.
Place(c) ==
    /\ In(clientList, c) => client[c] # "start"
    /\ In(tasks, c) => client[c] # "start" /\ request[c] = "none"
    /\ In(backlog, c) => /\ client[c] # "start" /\ request[c] = "none"
                         /\ ~In(tasks, c) /\ ~In(clientList, c)

\* A top is computed and queued once, when the client's end of records was published.
Result(c) ==
    /\ c \in pipeline => eofPublished[c] /\ ~In(results, c)
    /\ In(results, c) => eofPublished[c]

\* The top of the client was computed, and is not queued any more.
Answered(c) == eofPublished[c] /\ c \notin pipeline /\ ~In(results, c)

\* A client leaves the list of the gateway only when it is answered, but for one.
Listed(c, w) ==
    (responder # "stopped" /\ (In(tasks, c) \/ request[c] # "none"))
       => In(clientList, c) \/ Answered(c) \/ Stray(c, w)

\* After its end of records a client is sent one acknowledgement and one top, in either
\* order; Taken is what it has received of them.
TopIsSent(c) == Answered(c) \/ (responder = "ack" /\ c = Head(results))
Taken(c) == IF client[c] = "endAck" THEN 0 ELSE IF client[c] = "top" THEN 1 ELSE 2
Budget(c) ==
    (responder # "stopped" /\ client[c] \in {"endAck", "top", "write", "done", "failed"})
       => Len(toClient[c]) + Taken(c)
            <= (IF request[c] = "over" THEN 1 ELSE 0) + (IF TopIsSent(c) THEN 1 ELSE 0)

\* What ended a client early, or closed a connection.
Blame(c) ==
    /\ client[c] = "gone" => crashes > 0
    /\ client[c] = "lost" => server = "down"
    /\ link[c] # "open" => faults > 0

\* The response handler waits for the acknowledgement of the top at the head of its
\* queue; it is on its way once the client has its top.  Or it has found nobody for that
\* top, which nobody who connects meanwhile will take either.
WaitInv ==
    /\ responder = "ack" =>
         /\ results # <<>> /\ clientList[clientIndex] = Head(results)
         /\ client[Head(results)] \in {"write", "done", "failed"} => toGateway[Head(results)] # <<>>
    /\ responder = "pop" => results # <<>> /\ ~In(clientList, Head(results))

StopInv ==
    /\ ~consumerUp => faults > 0
    /\ ResponderSurvives

ClientInv(c, w) ==
    Channel(c) /\ Turn(c) /\ Account(c) /\ Own(c) /\ Place(c) /\ Result(c) /\ Listed(c, w)
      /\ Budget(c) /\ Blame(c)

Invariant(w) ==
    TypeInv /\ ListInv(w) /\ WaitInv /\ StopInv /\ \A c \in Clients : ClientInv(c, w)

-----------------------------------------------------------------------------
(* Messages.                                                               *)

\* The messages that the invariant names differ, and have the types they are told by.
LEMMA Messages ==
    /\ Rec # End /\ Rec # Ack /\ End # Ack
    /\ {Rec, End, Ack} = ClientMessages
    /\ Rec.type = "FRUIT_RECORD" /\ End.type = "END_OF_RECODS" /\ Ack.type = "ACK"
    /\ Ack \in GatewayMessages
    /\ \A c \in Clients : /\ FruitTop(c) \in GatewayMessages /\ FruitTop(c) # Ack
                          /\ FruitTop(c).type = "FRUIT_TOP" /\ FruitTop(c).of = c
<1>1. /\ Rec.type = "FRUIT_RECORD" /\ End.type = "END_OF_RECODS" /\ Ack.type = "ACK"
      /\ \A c \in Clients : FruitTop(c).type = "FRUIT_TOP" /\ FruitTop(c).of = c
  BY DEF Rec, End, Ack, Other, FruitTop
<1>2. /\ {Rec, End, Ack} = ClientMessages /\ Ack \in GatewayMessages
      /\ \A c \in Clients : FruitTop(c) \in GatewayMessages
  BY DEF Rec, End, Ack, ClientMessages, GatewayMessages
<1> QED
  BY <1>1, <1>2

\* A message put on an empty socket, and the one message taken from it.
LEMMA OneMessage ==
    /\ \A m : /\ <<m>> # <<>> /\ Append(<<>>, m) = <<m>> /\ Head(<<m>>) = m
              /\ Tail(<<m>>) = <<>> /\ Len(<<m>>) = 1
    /\ \A m, n : <<m>> = <<n>> => m = n
    /\ Len(<<>>) = 0
  OBVIOUS

-----------------------------------------------------------------------------
(* What a step leaves alone.                                               *)

SameClient(d) ==
    /\ client'[d] = client[d] /\ unsent'[d] = unsent[d] /\ output'[d] = output[d]
    /\ toGateway'[d] = toGateway[d] /\ toClient'[d] = toClient[d]
    /\ request'[d] = request[d] /\ link'[d] = link[d]
    /\ published'[d] = published[d] /\ eofPublished'[d] = eofPublished[d]

SamePlace(d) ==
    /\ In(clientList', d) <=> In(clientList, d)
    /\ In(tasks', d) <=> In(tasks, d)
    /\ In(backlog', d) <=> In(backlog, d)

SameResult(d) ==
    /\ d \in pipeline' <=> d \in pipeline
    /\ In(results', d) <=> In(results, d)

\* The response handler goes on, and is or is not at the top of client d as before.
SameResponder(d) ==
    /\ responder = "stopped" => responder' = "stopped"
    /\ leftOver' = leftOver
    /\ (responder = "ack" /\ d = Head(results)) <=> (responder' = "ack" /\ d = Head(results'))

\* The troubles that a step does not undo.
MoreTrouble ==
    /\ crashes \in Nat /\ crashes' \in Nat /\ crashes' >= crashes
    /\ faults \in Nat /\ faults' \in Nat /\ faults' >= faults
    /\ server = "down" => server' = "down"

\* A step of somebody else keeps the invariant of a client.
LEMMA OthersKept ==
    ASSUME NEW w, NEW d \in Clients, ClientInv(d, w), SameClient(d), SamePlace(d), SameResult(d),
           SameResponder(d), MoreTrouble
    PROVE  ClientInv(d, w)'
<1>1. Channel(d)' /\ Own(d)'
  BY DEF ClientInv, SameClient, Channel, Own
<1>2. Turn(d)'
  BY DEF ClientInv, SameClient, Turn, RecordTurn, EndTurn
<1>3. Account(d)'
  BY DEF ClientInv, SameClient, MoreTrouble, Account
<1>4. Place(d)'
  BY DEF ClientInv, SameClient, SamePlace, Place
<1>5. Result(d)'
  BY DEF ClientInv, SameClient, SameResult, Result
<1>6. Listed(d, w)'
  BY DEF ClientInv, SameClient, SamePlace, SameResult, SameResponder, Listed, Answered, Stray
<1>7. Budget(d)'
  BY DEF ClientInv, SameClient, SameResult, SameResponder, Budget, Answered, TopIsSent, Taken
<1>8. Blame(d)'
  BY DEF ClientInv, SameClient, MoreTrouble, Blame
<1> QED
  BY <1>1, <1>2, <1>3, <1>4, <1>5, <1>6, <1>7, <1>8 DEF ClientInv

\* What the steps of a client leave alone: the main process, the request handlers, the
\* filters and the response handler.
ClientOnly ==
    UNCHANGED <<mainVars, requestVars, pipeline, results, responseVars, faults>>

\* Its steps change its own variables and sockets.
OnlyClient(c) ==
    \A d \in Clients \ {c} :
        /\ client'[d] = client[d] /\ unsent'[d] = unsent[d] /\ output'[d] = output[d]
        /\ toGateway'[d] = toGateway[d] /\ toClient'[d] = toClient[d]

\* So a step of a client is right when it is right of that client, and keeps the wait
\* of the response handler.
LEMMA ClientStepKeeps ==
    ASSUME NEW w, Invariant(w), NEW c \in Clients, ClientOnly, OnlyClient(c),
           ClientTypes', SocketTypes', crashes' \in Nat, crashes' >= crashes,
           Channel(c)', Turn(c)', Account(c)', Own(c)', Budget(c)', Blame(c)',
           client'[c] # "start",
           client'[c] \in {"write", "done", "failed"} =>
             \/ toGateway'[c] # <<>>
             \/ client[c] \in {"write", "done", "failed"} /\ toGateway'[c] = toGateway[c]
    PROVE  Invariant(w)'
<1>1. TypeInv'
  BY DEF Invariant, TypeInv, ClientOnly, MainTypes, RequestTypes, PoolBound,
       IsBusy, ResponderProcesses,
         ResponseTypes, IndexType, BoundTypes
<1>2. ListInv(w)'
  BY DEF Invariant, ListInv, Stray, ClientOnly
<1>3. WaitInv'
  <2> SUFFICES ASSUME responder = "ack"
               PROVE  /\ results # <<>> /\ clientList[clientIndex] = Head(results)
                      /\ client'[Head(results)] \in {"write", "done", "failed"}
                           => toGateway'[Head(results)] # <<>>
    BY DEF Invariant, WaitInv, ClientOnly
  <2>1. /\ results # <<>> /\ clientList[clientIndex] = Head(results)
        /\ client[Head(results)] \in {"write", "done", "failed"} => toGateway[Head(results)] # <<>>
    BY DEF Invariant, WaitInv
  <2>2. clientIndex \in DOMAIN clientList /\ clientList \in Seq(Clients)
    BY DEF Invariant, TypeInv, MainTypes, IndexType
  <2>3. Head(results) \in Clients
    BY <2>1, <2>2
  <2>4. CASE Head(results) = c
    BY <2>1, <2>4
  <2>5. CASE Head(results) # c
    BY <2>1, <2>3, <2>5 DEF OnlyClient
  <2> QED
    BY <2>4, <2>5
<1>4. StopInv'
  BY DEF Invariant, StopInv, ResponderSurvives, Trouble, ClientOnly, TypeInv, BoundTypes
<1>5. ClientInv(c, w)'
  <2>1. ClientInv(c, w)
    BY DEF Invariant
  <2>2. Place(c)'
    BY <2>1 DEF ClientInv, Place, ClientOnly
  <2>3. Result(c)'
    BY <2>1 DEF ClientInv, Result, ClientOnly
  <2>4. Listed(c, w)'
    BY <2>1 DEF ClientInv, Listed, Answered, Stray, ClientOnly
  <2> QED
    BY <2>2, <2>3, <2>4 DEF ClientInv
<1>6. ASSUME NEW d \in Clients, d # c PROVE ClientInv(d, w)'
  <2>1. SameClient(d)
    BY <1>6 DEF SameClient, ClientOnly, OnlyClient
  <2>2. SamePlace(d) /\ SameResult(d) /\ SameResponder(d)
    BY DEF SamePlace, SameResult, SameResponder, ClientOnly
  <2>3. MoreTrouble
    BY DEF MoreTrouble, ClientOnly, Invariant, TypeInv, BoundTypes
  <2> QED
    BY <2>1, <2>2, <2>3, OthersKept DEF Invariant
<1> QED
  BY <1>1, <1>2, <1>3, <1>4, <1>5, <1>6 DEF Invariant

-----------------------------------------------------------------------------
(* The client.                                                             *)

\* A record is sent in the client's turn, and is not sent any more.
LEMMA SendRecordKeeps ==
    ASSUME NEW w, Invariant(w), NEW c \in Clients, SendRecord(c)
    PROVE  Invariant(w)'
<1>1. /\ client[c] = "send" /\ unsent[c] # 0
      /\ unsent' = [unsent EXCEPT ![c] = @ - 1]
      /\ toGateway' = [toGateway EXCEPT ![c] = Append(@, Rec)]
      /\ client' = [client EXCEPT ![c] = "recordAck"]
      /\ UNCHANGED <<output, toClient, crashes>> /\ ClientOnly
  BY DEF SendRecord, FileIsRead, ToGateway, Rec, ClientOnly
<1>2. ClientTypes /\ SocketTypes /\ BoundTypes /\ RequestTypes /\ ClientInv(c, w)
  BY DEF Invariant, TypeInv
<1>3. Channel(c) /\ Turn(c) /\ Account(c) /\ Own(c) /\ Blame(c)
  BY <1>2 DEF ClientInv
<1>4. request[c] \in Waiting /\ ~eofPublished[c] /\ toGateway[c] = <<>> /\ toClient[c] = <<>>
  BY <1>1, <1>3 DEF Turn
<1>5. toGateway'[c] = <<Rec>> /\ client'[c] = "recordAck" /\ unsent'[c] = unsent[c] - 1
  BY <1>1, <1>2, <1>4, OneMessage DEF ClientTypes, SocketTypes
<1>6. ClientTypes' /\ SocketTypes'
  <2>1. ClientTypes'
    BY <1>1, <1>2, GatewayAssumption DEF ClientTypes
  <2>2. SocketTypes'
    BY <1>1, <1>2, <1>4, <1>5, Messages DEF SocketTypes
  <2> QED
    BY <2>1, <2>2
<1>7. OnlyClient(c)
  BY <1>1, <1>2 DEF OnlyClient, ClientTypes, SocketTypes
<1>8. Channel(c)' /\ Turn(c)'
  BY <1>1, <1>4, <1>5, Messages, OneMessage
     DEF Channel, Turn, RecordTurn, Waiting, ClientOnly
<1>9. Account(c)'
  BY <1>1, <1>2, <1>3, <1>4, <1>5, OneMessage DEF Account, ClientOnly, ClientTypes, RequestTypes
<1>10. Own(c)' /\ Budget(c)' /\ Blame(c)'
  BY <1>1, <1>3, <1>5 DEF Own, Budget, Blame, ClientOnly
<1>11. crashes' \in Nat /\ crashes' >= crashes
  BY <1>1, <1>2 DEF BoundTypes
<1> QED
  BY <1>1, <1>5, <1>6, <1>7, <1>8, <1>9, <1>10, <1>11, ClientStepKeeps

\* The end of the records is sent when there is none left.
LEMMA SendEndKeeps ==
    ASSUME NEW w, Invariant(w), NEW c \in Clients, SendEndOfRecords(c)
    PROVE  Invariant(w)'
<1>1. /\ client[c] = "send" /\ unsent[c] = 0
      /\ toGateway' = [toGateway EXCEPT ![c] = Append(@, End)]
      /\ client' = [client EXCEPT ![c] = "endAck"]
      /\ UNCHANGED <<unsent, output, toClient, crashes>> /\ ClientOnly
  BY DEF SendEndOfRecords, FileIsRead, ToGateway, End, ClientOnly
<1>2. ClientTypes /\ SocketTypes /\ BoundTypes /\ RequestTypes /\ ClientInv(c, w)
  BY DEF Invariant, TypeInv
<1>3. Channel(c) /\ Turn(c) /\ Account(c) /\ Own(c) /\ Blame(c)
  BY <1>2 DEF ClientInv
<1>4. request[c] \in Waiting /\ ~eofPublished[c] /\ toGateway[c] = <<>> /\ toClient[c] = <<>>
  BY <1>1, <1>3 DEF Turn
<1>5. toGateway'[c] = <<End>> /\ client'[c] = "endAck"
  BY <1>1, <1>2, <1>4, OneMessage DEF ClientTypes, SocketTypes
<1>6. ClientTypes' /\ SocketTypes'
  <2>1. ClientTypes'
    BY <1>1, <1>2 DEF ClientTypes
  <2>2. SocketTypes'
    BY <1>1, <1>2, <1>4, <1>5, Messages DEF SocketTypes
  <2> QED
    BY <2>1, <2>2
<1>7. OnlyClient(c)
  BY <1>1, <1>2 DEF OnlyClient, ClientTypes, SocketTypes
<1>8. Channel(c)' /\ Turn(c)'
  BY <1>1, <1>4, <1>5, Messages, OneMessage DEF Channel, Turn, EndTurn, Waiting, ClientOnly
<1>9. Account(c)'
  BY <1>1, <1>2, <1>3, <1>4, <1>5, Messages, OneMessage DEF Account, ClientOnly
<1>10. Own(c)' /\ Blame(c)'
  BY <1>1, <1>3, <1>5 DEF Own, Blame, ClientOnly
<1>11. Budget(c)'
  BY <1>1, <1>4, <1>5, OneMessage DEF Budget, Taken, ClientOnly
<1>12. crashes' \in Nat /\ crashes' >= crashes
  BY <1>1, <1>2 DEF BoundTypes
<1> QED
  BY <1>1, <1>5, <1>6, <1>7, <1>8, <1>9, <1>10, <1>11, <1>12, ClientStepKeeps

\* Taking the first message of a socket leaves the others.
LEMMA FirstTaken ==
    ASSUME NEW S, NEW s \in Seq(S), s # <<>>
    PROVE  /\ Tail(s) \in Seq(S) /\ Head(s) \in S /\ Len(Tail(s)) = Len(s) - 1
           /\ 1 \in DOMAIN s /\ s[1] = Head(s)
           /\ \A i \in DOMAIN Tail(s) : i + 1 \in DOMAIN s /\ Tail(s)[i] = s[i + 1]
  OBVIOUS

\* Of an acknowledgement, or of a top that overtakes it, the client only sees that it is
\* a message.
LEMMA ReceiveAckKeeps ==
    ASSUME NEW w, Invariant(w), NEW c \in Clients, ReceiveAck(c)
    PROVE  Invariant(w)'
<1>1. /\ client[c] \in {"recordAck", "endAck"} /\ toClient[c] # <<>>
      /\ toClient' = [toClient EXCEPT ![c] = Tail(@)]
      /\ client' = [client EXCEPT ![c] = IF @ = "recordAck" THEN "send" ELSE "top"]
      /\ UNCHANGED <<unsent, output, toGateway, crashes>> /\ ClientOnly
  BY DEF ReceiveAck, ClientOnly
<1>2. ClientTypes /\ SocketTypes /\ BoundTypes /\ ClientInv(c, w)
  BY DEF Invariant, TypeInv
<1>3. Channel(c) /\ Turn(c) /\ Account(c) /\ Own(c) /\ Budget(c) /\ Blame(c)
  BY <1>2 DEF ClientInv
<1>4. /\ Len(toClient[c]) \in Nat /\ toClient'[c] = Tail(toClient[c])
      /\ Len(toClient'[c]) = Len(toClient[c]) - 1
      /\ client'[c] = IF client[c] = "recordAck" THEN "send" ELSE "top"
  BY <1>1, <1>2, FirstTaken DEF ClientTypes, SocketTypes
<1>5. ClientTypes' /\ SocketTypes'
  <2>1. ClientTypes'
    BY <1>1, <1>2 DEF ClientTypes
  <2>2. SocketTypes'
    BY <1>1, <1>2, FirstTaken DEF SocketTypes
  <2> QED
    BY <2>1, <2>2
<1>6. OnlyClient(c)
  BY <1>1, <1>2 DEF OnlyClient, ClientTypes, SocketTypes
<1>7. Channel(c)' /\ Account(c)' /\ Blame(c)'
  <2>1. toGateway[c] # <<Ack>>
    BY <1>1, <1>3 DEF Channel
  <2> QED
    BY <1>1, <1>3, <1>4, <2>1 DEF Channel, Account, Blame, ClientOnly
<1>8. Turn(c)'
  <2>1. CASE client[c] = "recordAck"
    <3>1. /\ ~eofPublished[c] /\ toGateway[c] = <<>> /\ toClient[c] = <<Ack>>
          /\ request[c] \in Waiting
      BY <1>1, <1>3, <2>1 DEF Turn, RecordTurn, Waiting
    <3> QED
      BY <1>1, <1>4, <2>1, <3>1, OneMessage DEF Turn, ClientOnly
  <2>2. CASE client[c] = "endAck"
    <3>1. toGateway[c] = <<>> /\ request[c] \in Ending
      BY <1>1, <1>3, <2>2 DEF Turn, EndTurn
    <3> QED
      BY <1>1, <1>4, <2>2, <3>1 DEF Turn, ClientOnly
  <2> QED
    BY <1>1, <2>1, <2>2
<1>9. Own(c)'
  BY <1>1, <1>2, <1>3, <1>4, FirstTaken DEF Own, SocketTypes
<1>10. Budget(c)'
  <2>1. Answered(c)' <=> Answered(c)
    BY <1>1 DEF Answered, ClientOnly
  <2>2. TopIsSent(c)' <=> TopIsSent(c)
    BY <1>1, <2>1 DEF TopIsSent, ClientOnly
  <2>3. CASE client[c] = "recordAck"
    BY <1>4, <2>3 DEF Budget
  <2>4. CASE client[c] = "endAck"
    <3>1. Taken(c) = 0 /\ Taken(c)' = 1 /\ client'[c] = "top"
      BY <1>4, <2>4 DEF Taken
    <3>2. UNCHANGED <<responder, request>>
      BY <1>1 DEF ClientOnly
    <3> QED
      BY <1>3, <1>4, <2>2, <2>4, <3>1, <3>2 DEF Budget
  <2> QED
    BY <1>1, <2>3, <2>4
<1>11. crashes' \in Nat /\ crashes' >= crashes
  BY <1>1, <1>2 DEF BoundTypes
<1>12. client'[c] # "start" /\ client'[c] \notin {"write", "done", "failed"}
  BY <1>4
<1> QED
  BY <1>1, <1>5, <1>6, <1>7, <1>8, <1>9, <1>10, <1>11, <1>12, ClientStepKeeps

\* The client acknowledges what it takes for its top, and is done; a top on its socket
\* is its own.
LEMMA ReceiveTopKeeps ==
    ASSUME NEW w, Invariant(w), NEW c \in Clients, ReceiveTop(c)
    PROVE  Invariant(w)'
<1> DEFINE m == Head(toClient[c])
<1>1. /\ client[c] = "top" /\ toClient[c] # <<>>
      /\ toClient' = [toClient EXCEPT ![c] = Tail(@)]
      /\ toGateway' = [toGateway EXCEPT ![c] = Append(@, Ack)]
      /\ \/ /\ m.type = "FRUIT_TOP"
            /\ output' = [output EXCEPT ![c] = {m.of}]
            /\ client' = [client EXCEPT ![c] = "write"]
         \/ client' = [client EXCEPT ![c] = "failed"] /\ output' = output
      /\ UNCHANGED <<unsent, crashes>> /\ ClientOnly
  BY DEF ReceiveTop, ToGateway, Ack, ClientOnly
<1>2. ClientTypes /\ SocketTypes /\ BoundTypes /\ ClientInv(c, w)
  BY DEF Invariant, TypeInv
<1>3. Channel(c) /\ Turn(c) /\ Account(c) /\ Own(c) /\ Budget(c) /\ Blame(c)
  BY <1>2 DEF ClientInv
<1>4. toGateway[c] = <<>> /\ request[c] \in Ending
  BY <1>1, <1>3 DEF Turn
<1>5. /\ Len(toClient[c]) \in Nat /\ toClient'[c] = Tail(toClient[c])
      /\ Len(toClient'[c]) = Len(toClient[c]) - 1
      /\ client'[c] \in {"write", "done", "failed"} /\ toGateway'[c] = <<Ack>>
  BY <1>1, <1>2, <1>4, FirstTaken, OneMessage DEF ClientTypes, SocketTypes
<1>6. m = Ack \/ m = FruitTop(c)
  BY <1>1, <1>2, <1>3, FirstTaken DEF Own, SocketTypes
<1>7. m.type = "FRUIT_TOP" => m.of = c
  BY <1>6, Messages
<1> HIDE DEF m
<1>8. output'[c] \subseteq {c} /\ output' \in [Clients -> SUBSET Clients]
      /\ \A d \in Clients \ {c} : output'[d] = output[d]
  <2>1. output \in [Clients -> SUBSET Clients] /\ output[c] \subseteq {c}
    BY <1>2, <1>3 DEF Own, ClientTypes
  <2>2. output' = [output EXCEPT ![c] = {c}] \/ output' = output
    BY <1>1, <1>7
  <2> QED
    BY <2>1, <2>2
<1>9. ClientTypes' /\ SocketTypes'
  <2>1. client' \in [Clients -> {"start", "send", "recordAck", "endAck", "top",
                                 "write", "done", "failed", "gone", "lost"}]
    BY <1>1, <1>2 DEF ClientTypes
  <2>2. ClientTypes'
    BY <1>1, <1>2, <1>8, <2>1 DEF ClientTypes
  <2>3. SocketTypes'
    BY <1>1, <1>2, <1>4, <1>5, FirstTaken, Messages DEF SocketTypes
  <2> QED
    BY <2>2, <2>3
<1>10. OnlyClient(c)
  <2>1. \A d \in Clients \ {c} : client'[d] = client[d]
    BY <1>1, <1>2 DEF ClientTypes
  <2> QED
    BY <1>1, <1>2, <1>8, <2>1 DEF OnlyClient, SocketTypes
<1>11. Channel(c)' /\ Turn(c)'
  BY <1>1, <1>3, <1>4, <1>5, Messages, OneMessage DEF Channel, Turn, Ending, ClientOnly
<1>12. Account(c)' /\ Blame(c)'
  BY <1>1, <1>3, <1>4, <1>5, Messages, OneMessage DEF Account, Blame, ClientOnly
<1>13. Own(c)'
  BY <1>1, <1>2, <1>3, <1>5, <1>8, FirstTaken DEF Own, SocketTypes
<1>14. Budget(c)'
  <2>1. Answered(c)' <=> Answered(c)
    BY <1>1 DEF Answered, ClientOnly
  <2>2. TopIsSent(c)' <=> TopIsSent(c)
    BY <1>1, <2>1 DEF TopIsSent, ClientOnly
  <2>3. Taken(c) = 1 /\ Taken(c)' = 2
    BY <1>1, <1>5 DEF Taken
  <2>4. UNCHANGED <<responder, request>>
    BY <1>1 DEF ClientOnly
  <2> QED
    BY <1>1, <1>3, <1>5, <2>2, <2>3, <2>4 DEF Budget
<1>15. crashes' \in Nat /\ crashes' >= crashes
  BY <1>1, <1>2 DEF BoundTypes
<1>16. client'[c] # "start" /\ toGateway'[c] # <<>>
  BY <1>5, OneMessage
<1> QED
  BY <1>1, <1>9, <1>10, <1>11, <1>12, <1>13, <1>14, <1>15, <1>16, ClientStepKeeps

\* The client that has its top writes it, which nobody sees.
LEMMA WriteTopKeeps ==
    ASSUME NEW w, Invariant(w), NEW c \in Clients, WriteTop(c)
    PROVE  Invariant(w)'
<1>1. /\ client[c] = "write" /\ client' = [client EXCEPT ![c] = "done"]
      /\ UNCHANGED <<unsent, output, toGateway, toClient, crashes>> /\ ClientOnly
  BY DEF WriteTop, ClientOnly
<1>2. ClientTypes /\ SocketTypes /\ BoundTypes /\ ClientInv(c, w)
  BY DEF Invariant, TypeInv
<1>3. Channel(c) /\ Turn(c) /\ Account(c) /\ Own(c) /\ Budget(c) /\ Blame(c)
  BY <1>2 DEF ClientInv
<1>4. client'[c] = "done" /\ \A d \in Clients \ {c} : client'[d] = client[d]
  BY <1>1, <1>2 DEF ClientTypes
<1>5. ClientTypes' /\ SocketTypes' /\ OnlyClient(c)
  BY <1>1, <1>2, <1>4 DEF ClientTypes, SocketTypes, OnlyClient
<1>6. Channel(c)' /\ Turn(c)' /\ Account(c)' /\ Own(c)' /\ Blame(c)'
  BY <1>1, <1>3, <1>4 DEF Channel, Turn, Account, Own, Blame, ClientOnly
<1>7. Budget(c)'
  <2>1. Taken(c) = 2 /\ Taken(c)' = 2
    BY <1>1, <1>4 DEF Taken
  <2> QED
    BY <1>1, <1>3, <1>4, <2>1 DEF Budget, TopIsSent, Answered, ClientOnly
<1>8. crashes' \in Nat /\ crashes' >= crashes
  BY <1>1, <1>2 DEF BoundTypes
<1> QED
  BY <1>1, <1>4, <1>5, <1>6, <1>7, <1>8, ClientStepKeeps

\* A client that ends early leaves its sockets as they are, and the blame.
LEMMA EarlyEndKeeps ==
    ASSUME NEW w, Invariant(w), NEW c \in Clients, NEW end \in {"gone", "lost"},
           client' = [client EXCEPT ![c] = end], end = "gone" => crashes' > 0,
           end = "lost" => /\ server = "down"
                           /\ client[c] \notin {"write", "done", "failed", "gone"},
           crashes' \in Nat, crashes' >= crashes,
           UNCHANGED <<unsent, output, toGateway, toClient>>, ClientOnly
    PROVE  Invariant(w)'
<1>1. ClientTypes /\ SocketTypes /\ ClientInv(c, w)
  BY DEF Invariant, TypeInv
<1>2. Channel(c) /\ Account(c) /\ Own(c) /\ Blame(c)
  BY <1>1 DEF ClientInv
<1>3. ClientTypes' /\ SocketTypes' /\ client'[c] = end
  BY <1>1 DEF ClientTypes, SocketTypes
<1>4. OnlyClient(c)
  BY <1>1 DEF OnlyClient, ClientTypes
<1>5. Channel(c)' /\ Account(c)' /\ Own(c)'
  BY <1>2, <1>3 DEF Channel, Account, Own, ClientOnly
<1>6. Turn(c)' /\ Budget(c)'
  BY <1>3 DEF Turn, Budget
<1>7. Blame(c)'
  BY <1>2, <1>3 DEF Blame, ClientOnly
<1> QED
  BY <1>3, <1>4, <1>5, <1>6, <1>7, ClientStepKeeps

\* A client that finds no gateway ends.
LEMMA LosesGatewayKeeps ==
    ASSUME NEW w, Invariant(w), NEW c \in Clients, LosesGateway(c)
    PROVE  Invariant(w)'
<1>1. crashes \in Nat
  BY DEF Invariant, TypeInv, BoundTypes
<1>2. ClientOnly /\ UNCHANGED <<unsent, output, toGateway, toClient>>
  BY DEF LosesGateway, ClientOnly
<1>4. crashes' \in Nat /\ crashes' >= crashes
  BY <1>1 DEF LosesGateway
<1>3. /\ client' = [client EXCEPT ![c] = "lost"]
      /\ client[c] \notin {"write", "done", "failed", "gone"} /\ server = "down"
  BY DEF LosesGateway, Ended
<1> QED
  BY <1>2, <1>3, <1>4, EarlyEndKeeps

\* A client that dies ends.
LEMMA DieKeeps ==
    ASSUME NEW w, Invariant(w), NEW c \in Clients, Die(c)
    PROVE  Invariant(w)'
<1>1. crashes' \in Nat /\ crashes' >= crashes /\ crashes' > 0
  BY DEF Die, Invariant, TypeInv, BoundTypes
<1>2. ClientOnly /\ UNCHANGED <<unsent, output, toGateway, toClient>>
  BY DEF Die, ClientOnly
<1>3. client' = [client EXCEPT ![c] = "gone"]
  BY DEF Die, Ended
<1> QED
  BY <1>1, <1>2, <1>3, EarlyEndKeeps

\* A client that connects is in no list yet.
LEMMA ConnectKeeps ==
    ASSUME NEW w, Invariant(w), NEW c \in Clients, Connect(c)
    PROVE  Invariant(w)'
<1>1. /\ client[c] = "start"
      /\ client' = [client EXCEPT ![c] = "send"]
      /\ backlog' = Append(backlog, c)
  BY DEF Connect
<1>2. UNCHANGED <<unsent, output, toGateway, toClient, server, clientList, tasks, requestVars,
                  pipeline, results, responseVars, boundVars>>
  BY DEF Connect
<1>3. TypeInv /\ ListInv(w) /\ WaitInv /\ StopInv /\ ClientInv(c, w)
  BY DEF Invariant
<1>4. ClientTypes /\ MainTypes /\ BoundTypes
  BY <1>3 DEF TypeInv
<1>5. /\ Channel(c) /\ Turn(c) /\ Account(c) /\ Own(c) /\ Place(c) /\ Result(c) /\ Listed(c, w)
      /\ Blame(c)
  BY <1>3 DEF ClientInv
<1>6. client'[c] = "send" /\ \A d \in Clients \ {c} : client'[d] = client[d]
  BY <1>1, <1>4 DEF ClientTypes
<1>7. request[c] = "none" /\ toGateway[c] = <<>> /\ toClient[c] = <<>> /\ ~eofPublished[c]
  BY <1>1, <1>5 DEF Turn, Channel, Ending
<1>8. ~In(backlog, c) /\ ~In(tasks, c) /\ ~In(clientList, c)
  BY <1>1, <1>5 DEF Place
<1>9. /\ backlog' \in Seq(Clients) /\ Once(backlog')
      /\ \A d : In(backlog', d) <=> In(backlog, d) \/ d = c
  BY <1>1, <1>3, <1>4, <1>8, AppendedList DEF MainTypes, ListInv
<1>10. TypeInv'
  <2>1. ClientTypes'
    BY <1>1, <1>2, <1>4 DEF ClientTypes
  <2>2. MainTypes'
    BY <1>2, <1>4, <1>9 DEF MainTypes
  <2> QED
    BY <1>2, <1>3, <2>1, <2>2 DEF TypeInv, SocketTypes, RequestTypes, PoolBound,
       IsBusy, ResponderProcesses,
       ResponseTypes, IndexType, BoundTypes
<1>11. ListInv(w)'
  BY <1>2, <1>3, <1>9 DEF ListInv, Stray
<1>12. WaitInv'
  <2> SUFFICES ASSUME responder = "ack"
               PROVE  /\ results # <<>> /\ clientList[clientIndex] = Head(results)
                      /\ client'[Head(results)] \in {"write", "done", "failed"}
                           => toGateway[Head(results)] # <<>>
    BY <1>2, <1>3 DEF WaitInv
  <2>1. clientIndex \in DOMAIN clientList
    BY <1>3 DEF TypeInv, IndexType
  <2>2. Head(results) \in Clients
    BY <1>3, <1>4, <2>1 DEF WaitInv, MainTypes
  <2> QED
    BY <1>3, <1>6, <2>2 DEF WaitInv
<1>13. StopInv'
  BY <1>2, <1>3 DEF StopInv, ResponderSurvives, Trouble
<1>14. ClientInv(c, w)'
  <2>1. Channel(c)' /\ Account(c)' /\ Own(c)' /\ Result(c)' /\ Listed(c, w)'
    BY <1>2, <1>5, <1>6, <1>7, OneMessage DEF Channel, Account, Own, Result, Listed, Answered, Stray
  <2>2. Turn(c)' /\ Budget(c)' /\ Blame(c)'
    BY <1>2, <1>5, <1>6, <1>7 DEF Turn, Budget, Blame, Waiting
  <2>3. Place(c)'
    BY <1>2, <1>6, <1>7, <1>8 DEF Place
  <2> QED
    BY <2>1, <2>2, <2>3 DEF ClientInv
<1>15. ASSUME NEW d \in Clients, d # c PROVE ClientInv(d, w)'
  <2>1. SameClient(d) /\ SamePlace(d)
    BY <1>2, <1>6, <1>9, <1>15 DEF SameClient, SamePlace
  <2>2. SameResult(d) /\ SameResponder(d) /\ MoreTrouble
    BY <1>2, <1>4 DEF SameResult, SameResponder, MoreTrouble, BoundTypes
  <2> QED
    BY <2>1, <2>2, OthersKept DEF Invariant
<1> QED
  BY <1>10, <1>11, <1>12, <1>13, <1>14, <1>15 DEF Invariant

-----------------------------------------------------------------------------
(* The main process, and the pool.                                         *)

\* A connection that is accepted is listed and has its task; the client for which the
\* response handler waits stays where it is.
LEMMA AcceptKeeps ==
    ASSUME NEW w, Invariant(w), Accept
    PROVE  Invariant(w)'
<1> PICK c : c = Head(backlog)
  OBVIOUS
<1>1. /\ backlog # <<>> /\ backlog' = Tail(backlog)
      /\ clientList' = Append(clientList, c) /\ tasks' = Append(tasks, c)
  BY DEF Accept
<1>2. UNCHANGED <<clientVars, toGateway, toClient, server, requestVars, pipeline, results,
                  responseVars, boundVars>>
  BY DEF Accept
<1>3. TypeInv /\ ListInv(w) /\ WaitInv /\ StopInv
  BY DEF Invariant
<1>4. MainTypes /\ BoundTypes /\ IndexType
  BY <1>3 DEF TypeInv
<1>5. /\ c \in Clients /\ In(backlog, c) /\ backlog' \in Seq(Clients)
      /\ \A d : In(backlog, d) <=> In(backlog', d) \/ d = c
      /\ Once(backlog') /\ ~In(backlog', c)
  BY <1>1, <1>3, <1>4, TailOfList DEF MainTypes, ListInv
<1>6. ClientInv(c, w)
  BY <1>5 DEF Invariant
<1>7. client[c] # "start" /\ request[c] = "none" /\ ~In(tasks, c) /\ ~In(clientList, c)
  BY <1>5, <1>6 DEF ClientInv, Place
<1>8. /\ clientList' \in Seq(Clients) /\ Once(clientList')
      /\ \A d : In(clientList', d) <=> In(clientList, d) \/ d = c
      /\ \A i \in DOMAIN clientList : i \in DOMAIN clientList' /\ clientList'[i] = clientList[i]
  BY <1>1, <1>3, <1>4, <1>5, <1>7, AppendedList DEF MainTypes, ListInv
<1>9. /\ tasks' \in Seq(Clients) /\ Once(tasks')
      /\ \A d : In(tasks', d) <=> In(tasks, d) \/ d = c
  BY <1>1, <1>3, <1>4, <1>5, <1>7, AppendedList DEF MainTypes, ListInv
<1>10. TypeInv'
  <2>1. MainTypes'
    BY <1>2, <1>4, <1>5, <1>8, <1>9 DEF MainTypes
  <2>2. IndexType'
    BY <1>1, <1>2, <1>4, <1>8, AppendedLength DEF IndexType, MainTypes
  <2> QED
    BY <1>2, <1>3, <2>1, <2>2 DEF TypeInv, ClientTypes, SocketTypes, RequestTypes, PoolBound,
       IsBusy, ResponderProcesses, ResponseTypes, BoundTypes
<1>11. ListInv(w)'
  BY <1>2, <1>3, <1>5, <1>8, <1>9 DEF ListInv, Stray
<1>12. ~In(results, c)
  BY <1>6, <1>7 DEF ClientInv, Result, Channel, Ending
<1>13. WaitInv' /\ StopInv'
  <2>1. WaitInv'
    <3>1. responder = "pop" => In(results, Head(results))
      BY <1>3, TailOfList DEF WaitInv, TypeInv, ResponseTypes
    <3> QED
      BY <1>2, <1>3, <1>4, <1>8, <1>12, <3>1 DEF WaitInv, IndexType
  <2>2. ~(ToSet(results) \subseteq ToSet(clientList))
          => ~(ToSet(results) \subseteq ToSet(clientList'))
    BY <1>8, <1>12, InToSet
  <2> QED
    BY <1>2, <1>3, <2>1, <2>2 DEF StopInv, ResponderSurvives, Trouble
<1>14. ClientInv(c, w)'
  <2>1. Channel(c)' /\ Turn(c)' /\ Account(c)' /\ Own(c)' /\ Result(c)' /\ Blame(c)'
    BY <1>2, <1>6 DEF ClientInv, Channel, Turn, RecordTurn, EndTurn, Account, Own, Result, Blame
  <2>2. Budget(c)'
    BY <1>2, <1>6 DEF ClientInv, Budget, Answered, TopIsSent, Taken
  <2>3. Place(c)'
    BY <1>2, <1>5, <1>7 DEF Place
  <2>4. Listed(c, w)'
    BY <1>8 DEF Listed
  <2> QED
    BY <2>1, <2>2, <2>3, <2>4 DEF ClientInv
<1>15. ASSUME NEW d \in Clients, d # c PROVE ClientInv(d, w)'
  <2>1. SameClient(d) /\ SamePlace(d)
    BY <1>2, <1>5, <1>8, <1>9, <1>15 DEF SameClient, SamePlace
  <2>2. SameResult(d) /\ SameResponder(d) /\ MoreTrouble
    BY <1>2, <1>4 DEF SameResult, SameResponder, MoreTrouble, BoundTypes
  <2> QED
    BY <2>1, <2>2, OthersKept DEF Invariant
<1> QED
  BY <1>10, <1>11, <1>12, <1>13, <1>14, <1>15 DEF Invariant

\* The processes of the pool that are busy are no more than before, when none starts.
LEMMA NoMoreBusy ==
    ASSUME PoolBound, \A d \in Clients : IsBusy(d)' => IsBusy(d),
           responder = "stopped" => responder' = "stopped"
    PROVE  PoolBound'
<1> DEFINE B == {c \in Clients : IsBusy(c)}
           N == {c \in Clients : IsBusy(c)'}
<1>1. N \in SUBSET B /\ IsFiniteSet(B)
  BY FS_Subset, GatewayAssumption
<1>2. Cardinality(N) <= Cardinality(B) /\ Cardinality(N) \in Nat /\ Cardinality(B) \in Nat
  BY <1>1, FS_Subset, FS_CardinalityType
<1>3. /\ ResponderProcesses' <= ResponderProcesses
      /\ ResponderProcesses \in Nat /\ ResponderProcesses' \in Nat
  BY DEF ResponderProcesses
<1>4. Cardinality(B) + ResponderProcesses <= POOL_SIZE
  BY DEF PoolBound
<1>5. Cardinality(N) + ResponderProcesses' <= POOL_SIZE
  BY <1>2, <1>3, <1>4, GatewayAssumption
<1> QED
  BY <1>5 DEF PoolBound

\* A task is started when a process is free beside the response handler's.
LEMMA StartRequestKeeps ==
    ASSUME NEW w, Invariant(w), StartRequest
    PROVE  Invariant(w)'
<1> PICK c : c = Head(tasks)
  OBVIOUS
<1>1. /\ tasks # <<>> /\ tasks' = Tail(tasks) /\ HasProcess
      /\ request' = [request EXCEPT ![c] = "receive"]
  BY DEF StartRequest
<1>2. UNCHANGED <<clientVars, toGateway, toClient, server, backlog, clientList, link, published,
                  eofPublished, pipeline, results, responseVars, boundVars>>
  BY DEF StartRequest
<1>3. TypeInv /\ ListInv(w) /\ WaitInv /\ StopInv
  BY DEF Invariant
<1>4. MainTypes /\ RequestTypes /\ PoolBound /\ BoundTypes
  BY <1>3 DEF TypeInv
<1>5. /\ c \in Clients /\ In(tasks, c) /\ tasks' \in Seq(Clients)
      /\ \A d : In(tasks, d) <=> In(tasks', d) \/ d = c
      /\ Once(tasks') /\ ~In(tasks', c)
  BY <1>1, <1>3, <1>4, TailOfList DEF MainTypes, ListInv
<1>6. ClientInv(c, w)
  BY <1>5 DEF Invariant
<1>7. client[c] # "start" /\ request[c] = "none" /\ ~In(backlog, c)
  BY <1>5, <1>6 DEF ClientInv, Place
<1>8. /\ request'[c] = "receive" /\ \A d \in Clients \ {c} : request'[d] = request[d]
      /\ request' \in [Clients -> {"none", "receive", "ackRecord", "ackEnd", "over"}]
  BY <1>1, <1>4, <1>5 DEF RequestTypes
<1>9. PoolBound'
  <2> DEFINE B == {d \in Clients : IsBusy(d)}
             N == {d \in Clients : IsBusy(d)'}
  <2>1. N = B \cup {c} /\ IsFiniteSet(B)
    BY <1>5, <1>7, <1>8, FS_Subset, GatewayAssumption DEF IsBusy
  <2>2. Cardinality(N) <= Cardinality(B) + 1 /\ Cardinality(N) \in Nat /\ Cardinality(B) \in Nat
    <3> HIDE DEF B, N
    <3>1. IsFiniteSet(N) /\ Cardinality(N) \in {Cardinality(B), Cardinality(B) + 1}
      BY <2>1, FS_AddElement
    <3>2. Cardinality(B) \in Nat
      BY <2>1, FS_CardinalityType
    <3> QED
      BY <3>1, <3>2
  <2>3. Cardinality(B) + ResponderProcesses < POOL_SIZE
    BY <1>1 DEF HasProcess
  <2>4. ResponderProcesses' = ResponderProcesses /\ ResponderProcesses \in Nat
    BY <1>2 DEF ResponderProcesses
  <2>5. Cardinality(N) + ResponderProcesses' <= POOL_SIZE
    BY <2>2, <2>3, <2>4, GatewayAssumption
  <2> QED
    BY <2>5 DEF PoolBound
<1>10. TypeInv'
  <2>1. MainTypes'
    BY <1>2, <1>4, <1>5 DEF MainTypes
  <2>2. RequestTypes'
    BY <1>2, <1>4, <1>8 DEF RequestTypes
  <2> QED
    BY <1>2, <1>3, <1>9, <2>1, <2>2 DEF TypeInv, ClientTypes, SocketTypes, ResponseTypes,
       IndexType, BoundTypes
<1>11. ListInv(w)' /\ WaitInv' /\ StopInv'
  BY <1>2, <1>3, <1>5 DEF ListInv, Stray, WaitInv, StopInv, ResponderSurvives, Trouble
<1>12. ClientInv(c, w)'
  <2>1. Channel(c)' /\ Account(c)' /\ Own(c)' /\ Result(c)' /\ Blame(c)'
    BY <1>2, <1>6, <1>7, <1>8 DEF ClientInv, Channel, Waiting, Ending, Account, Own, Result, Blame
  <2>2. Turn(c)'
    BY <1>2, <1>6, <1>7, <1>8 DEF ClientInv, Turn, RecordTurn, EndTurn, Waiting, Ending, Channel
  <2>3. Budget(c)'
    <3>1. client[c] \notin {"top", "write", "done", "failed"}
      BY <1>6, <1>7 DEF ClientInv, Turn, Ending
    <3>2. client[c] = "endAck" => toClient[c] = <<>>
      BY <1>6, <1>7 DEF ClientInv, Turn, EndTurn, Ending
    <3>3. client[c] = "endAck" => Len(toClient'[c]) + Taken(c)' = 0
      BY <1>2, <3>2, OneMessage DEF Taken
    <3>4. client' = client
      BY <1>2
    <3> QED
      BY <3>1, <3>3, <3>4 DEF Budget
  <2>4. Place(c)' /\ Listed(c, w)'
    BY <1>2, <1>5, <1>6, <1>7 DEF ClientInv, Place, Listed, Answered, Stray
  <2> QED
    BY <2>1, <2>2, <2>3, <2>4 DEF ClientInv
<1>13. ASSUME NEW d \in Clients, d # c PROVE ClientInv(d, w)'
  <2>1. SameClient(d) /\ SamePlace(d)
    BY <1>2, <1>5, <1>8, <1>13 DEF SameClient, SamePlace
  <2>2. SameResult(d) /\ SameResponder(d) /\ MoreTrouble
    BY <1>2, <1>4 DEF SameResult, SameResponder, MoreTrouble, BoundTypes
  <2> QED
    BY <2>1, <2>2, OthersKept DEF Invariant
<1> QED
  BY <1>10, <1>11, <1>12, <1>13 DEF Invariant

\* SIGTERM ends every process, wherever it is.
LEMMA TerminateKeeps ==
    ASSUME NEW w, Invariant(w), Terminate
    PROVE  Invariant(w)'
<1>1. /\ server' = "down" /\ backlog' = <<>> /\ tasks' = <<>>
      /\ request' = [c \in Clients |-> IF IsBusy(c) THEN "over" ELSE request[c]]
      /\ responder' = "stopped" /\ clientIndex' = 0
      /\ UNCHANGED <<clientVars, toGateway, toClient, clientList, link, published, eofPublished,
                     pipeline, results, consumerUp, givenVars, boundVars>>
  BY DEF Terminate
<1>2. TypeInv /\ ListInv(w) /\ WaitInv /\ StopInv
  BY DEF Invariant
<1>3. MainTypes /\ RequestTypes /\ PoolBound /\ ResponseTypes /\ IndexType
  BY <1>2 DEF TypeInv
<1>4. \A d : ~In(<<>>, d)
  BY DEF In
<1>5. \A c \in Clients : request'[c] = IF IsBusy(c) THEN "over" ELSE request[c]
  BY <1>1
<1>6. TypeInv'
  <2>1. MainTypes' /\ IndexType'
    BY <1>1, <1>3 DEF MainTypes, IndexType
  <2>2. RequestTypes'
    BY <1>1, <1>3 DEF RequestTypes, IsBusy
  <2>3. ResponseTypes'
    BY <1>1, <1>3 DEF ResponseTypes
  <2>4. PoolBound'
    <3>1. \A d \in Clients : IsBusy(d)' => IsBusy(d)
      BY <1>5 DEF IsBusy
    <3>2. responder' = "stopped"
      BY <1>1
    <3> QED
      BY <1>3, <3>1, <3>2, NoMoreBusy
  <2> QED
    BY <1>1, <1>2, <2>1, <2>2, <2>3, <2>4 DEF TypeInv, ClientTypes, SocketTypes, BoundTypes
<1>7. ListInv(w)' /\ WaitInv' /\ StopInv'
  BY <1>1, <1>2 DEF ListInv, Once, WaitInv, StopInv, ResponderSurvives, Trouble
<1>8. ASSUME NEW c \in Clients PROVE ClientInv(c, w)'
  <2>1. ClientInv(c, w)
    BY DEF Invariant
  <2>2. Channel(c)'
    BY <1>1, <1>5, <2>1 DEF ClientInv, Channel, Waiting, Ending, IsBusy
  <2>3. Turn(c)'
    BY <1>1, <1>5, <2>1 DEF ClientInv, Turn, RecordTurn, EndTurn, Waiting, Ending, IsBusy
  <2>4. Account(c)' /\ Own(c)' /\ Result(c)' /\ Blame(c)'
    BY <1>1, <2>1 DEF ClientInv, Account, Own, Result, Blame
  <2>5. Place(c)'
    BY <1>1, <1>4, <2>1 DEF ClientInv, Place
  <2>6. Listed(c, w)' /\ Budget(c)'
    BY <1>1 DEF Listed, Budget
  <2> QED
    BY <2>2, <2>3, <2>4, <2>5, <2>6 DEF ClientInv
<1> QED
  BY <1>6, <1>7, <1>8 DEF Invariant

-----------------------------------------------------------------------------
(* handle_client_request.                                                  *)

\* What the steps of a request handler leave alone: the client itself, the main process
\* and the response handler; and of the variables they change, those of other clients.
RequestOnly ==
    UNCHANGED <<clientVars, mainVars, results, responseVars, boundVars>>

OnlyRequest(c) ==
    \A d \in Clients \ {c} :
        /\ toGateway'[d] = toGateway[d] /\ toClient'[d] = toClient[d]
        /\ request'[d] = request[d] /\ link'[d] = link[d]
        /\ published'[d] = published[d] /\ eofPublished'[d] = eofPublished[d]
        /\ d \in pipeline' <=> d \in pipeline

\* So a step of a handler that runs is right when it is right of its client, and takes
\* no acknowledgement that the response handler waits for.
LEMMA RequestStepKeeps ==
    ASSUME NEW w, Invariant(w), NEW c \in Clients, RequestOnly, OnlyRequest(c),
           SocketTypes', RequestTypes', pipeline' \in SUBSET Clients,
           IsBusy(c),
           Channel(c)', Turn(c)', Account(c)', Own(c)', Result(c)', Listed(c, w)', Budget(c)',
           Blame(c)',
           client[c] \in {"write", "done", "failed"} => toGateway'[c] = toGateway[c]
    PROVE  Invariant(w)'
<1>1. TypeInv /\ ListInv(w) /\ WaitInv /\ StopInv /\ ClientInv(c, w)
  BY DEF Invariant
<1>2. MainTypes /\ RequestTypes /\ PoolBound /\ ResponseTypes /\ IndexType /\ BoundTypes
  BY <1>1 DEF TypeInv
<1>3. TypeInv'
  <2>1. PoolBound'
    <3>1. \A d \in Clients : IsBusy(d)' => IsBusy(d)
      BY DEF IsBusy, OnlyRequest
    <3>2. responder' = responder
      BY DEF RequestOnly
    <3> QED
      BY <1>2, <3>1, <3>2, NoMoreBusy
  <2>2. ResponseTypes'
    BY <1>2 DEF ResponseTypes, RequestOnly
  <2> QED
    BY <1>1, <2>1, <2>2 DEF TypeInv, RequestOnly, ClientTypes, MainTypes, IndexType, BoundTypes
<1>4. ListInv(w)' /\ StopInv'
  BY <1>1 DEF ListInv, Stray, StopInv, ResponderSurvives, Trouble, RequestOnly
<1>5. WaitInv'
  <2> SUFFICES ASSUME responder = "ack"
               PROVE  /\ results # <<>> /\ clientList[clientIndex] = Head(results)
                      /\ client[Head(results)] \in {"write", "done", "failed"}
                           => toGateway'[Head(results)] # <<>>
    BY <1>1 DEF WaitInv, RequestOnly
  <2>1. clientIndex \in DOMAIN clientList
    BY <1>2 DEF IndexType
  <2>2. Head(results) \in Clients
    BY <1>1, <1>2, <2>1 DEF WaitInv, MainTypes
  <2>3. CASE Head(results) = c
    BY <1>1, <2>3 DEF WaitInv
  <2>4. CASE Head(results) # c
    BY <1>1, <2>2, <2>4 DEF WaitInv, OnlyRequest
  <2> QED
    BY <2>3, <2>4
<1>6. ClientInv(c, w)'
  <2>1. Place(c)'
    BY <1>1 DEF ClientInv, Place, RequestOnly, IsBusy
  <2> QED
    BY <2>1 DEF ClientInv
<1>7. ASSUME NEW d \in Clients, d # c PROVE ClientInv(d, w)'
  <2>1. SameClient(d) /\ SameResult(d)
    BY <1>7 DEF SameClient, SameResult, RequestOnly, OnlyRequest
  <2>2. SamePlace(d) /\ SameResponder(d) /\ MoreTrouble
    BY <1>2 DEF SamePlace, SameResponder, MoreTrouble, BoundTypes, RequestOnly
  <2> QED
    BY <2>1, <2>2, OthersKept DEF Invariant
<1> QED
  BY <1>3, <1>4, <1>5, <1>6, <1>7 DEF Invariant

\* What a handler that runs knows of its client: it is listed, but for the stray; and
\* while it has taken nothing, or a record, it has published no end of records, so that
\* no top was made.
LEMMA HandlerTurn ==
    ASSUME NEW w, Invariant(w), NEW c \in Clients, IsBusy(c)
    PROVE  /\ responder # "stopped" => In(clientList, c) \/ Answered(c) \/ Stray(c, w)
           /\ request[c] \in {"receive", "ackRecord"} => /\ ~eofPublished[c]
                                                         /\ c \notin pipeline /\ ~In(results, c)
<1>1. Channel(c) /\ Result(c) /\ Listed(c, w)
  BY DEF Invariant, ClientInv
<1> QED
  BY <1>1 DEF Channel, Result, Listed, IsBusy, Ending

\* A handler takes the one message on its socket, and the client waits for the answer.
LEMMA MessageTaken ==
    ASSUME NEW w, Invariant(w), NEW c \in Clients, NEW m \in {Rec, End}, Takes(c, m.type)
    PROVE  /\ toGateway[c] = <<m>> /\ toGateway'[c] = <<>>
           /\ toGateway' \in [Clients -> Seq(ClientMessages)]
           /\ \A d \in Clients \ {c} : toGateway'[d] = toGateway[d]
           /\ request[c] = "receive" /\ IsBusy(c)
           /\ client[c] \in {IF m = Rec THEN "recordAck" ELSE "endAck", "gone", "lost"}
           /\ client[c] \in {"recordAck", "endAck"} => toClient[c] = <<>>
<1>1. /\ request[c] = "receive" /\ toGateway[c] # <<>> /\ Head(toGateway[c]).type = m.type
      /\ toGateway' = [toGateway EXCEPT ![c] = Tail(@)]
  BY DEF Takes
<1>2. SocketTypes /\ ClientTypes /\ Channel(c) /\ Turn(c)
  BY DEF Invariant, TypeInv, ClientInv
<1>3. toGateway[c] = <<m>>
  <2>1. toGateway[c] \in {<<Rec>>, <<End>>, <<Ack>>}
    BY <1>1, <1>2 DEF Channel
  <2>2. PICK n \in {Rec, End, Ack} : toGateway[c] = <<n>>
    BY <2>1
  <2>3. n.type = m.type
    BY <1>1, <2>2, OneMessage
  <2>4. n = m
    BY <2>3, Messages
  <2> QED
    BY <2>2, <2>4
<1>4. toGateway'[c] = <<>> /\ \A d \in Clients \ {c} : toGateway'[d] = toGateway[d]
  BY <1>1, <1>2, <1>3, OneMessage DEF SocketTypes
<1>5. toGateway' \in [Clients -> Seq(ClientMessages)]
  BY <1>1, <1>2, <1>3, OneMessage DEF SocketTypes
<1>6. toGateway[c] # <<>> /\ (m = Rec => toGateway[c] # <<End>>)
      /\ (m = End => toGateway[c] # <<Rec>>) /\ toGateway[c] # <<Ack>>
  BY <1>3, OneMessage, Messages
<1>7. client[c] \notin {"start", "send", "top", "write", "done", "failed"}
  BY <1>1, <1>2, <1>6 DEF Turn, Ending
<1>8. client[c] = "recordAck" => m = Rec /\ toClient[c] = <<>>
  BY <1>2, <1>3, <1>6, Messages, OneMessage DEF Turn, RecordTurn
<1>9. client[c] = "endAck" => m # Rec /\ toClient[c] = <<>>
  BY <1>2, <1>3, <1>6, Messages, OneMessage DEF Turn, EndTurn
<1>10. client[c] \in {"start", "send", "recordAck", "endAck", "top",
                      "write", "done", "failed", "gone", "lost"}
  BY <1>2 DEF ClientTypes
<1> QED
  BY <1>1, <1>3, <1>4, <1>5, <1>7, <1>8, <1>9, <1>10 DEF IsBusy

\* How a publish ends, on a connection that may have been lost.
LEMMA PublishOutcome ==
    ASSUME NEW state, NEW out \in SendOutcomes(state)
    PROVE  /\ out.link \in LinkStates /\ out.delivered \in BOOLEAN /\ out.raised \in BOOLEAN
           /\ state = "open" => out.link = "open" /\ out.delivered /\ ~out.raised
  BY DEF SendOutcomes, LinkStates

\* A record that was taken is published, unless a connection was lost.
LEMMA PublishRecordKeeps ==
    ASSUME NEW w, Invariant(w), NEW c \in Clients, PublishRecord(c)
    PROVE  Invariant(w)'
<1>1. PICK out \in SendOutcomes(link[c]) :
        /\ link' = [link EXCEPT ![c] = out.link]
        /\ published' = IF out.delivered THEN [published EXCEPT ![c] = @ + 1] ELSE published
        /\ request' = [request EXCEPT ![c] = IF out.raised THEN "over" ELSE "ackRecord"]
  BY DEF PublishRecord, AfterSend
<1>2. RequestOnly /\ UNCHANGED <<toClient, eofPublished, pipeline>>
  BY DEF PublishRecord, RequestOnly
<1>3. /\ toGateway[c] = <<Rec>> /\ toGateway'[c] = <<>>
      /\ toGateway' \in [Clients -> Seq(ClientMessages)]
      /\ \A d \in Clients \ {c} : toGateway'[d] = toGateway[d]
      /\ request[c] = "receive" /\ IsBusy(c)
      /\ client[c] \in {"recordAck", "gone", "lost"}
      /\ client[c] = "recordAck" => toClient[c] = <<>>
  <2>1. Takes(c, Rec.type)
    BY Messages DEF PublishRecord
  <2> QED
    BY <2>1, MessageTaken, Messages
<1>4. SocketTypes /\ RequestTypes /\ BoundTypes /\ ResponseTypes /\ ClientTypes
  BY DEF Invariant, TypeInv
<1>5. Channel(c) /\ Account(c) /\ Own(c) /\ Result(c) /\ Blame(c)
  BY DEF Invariant, ClientInv
<1>6. /\ out.link \in LinkStates /\ out.delivered \in BOOLEAN /\ out.raised \in BOOLEAN
      /\ link[c] = "open" => out.link = "open" /\ out.delivered /\ ~out.raised
  BY PublishOutcome
<1>7. /\ link'[c] = out.link /\ request'[c] \in {"over", "ackRecord"}
      /\ published'[c] = IF out.delivered THEN published[c] + 1 ELSE published[c]
  BY <1>1, <1>4 DEF RequestTypes
<1>8. \A d \in Clients \ {c} : /\ link'[d] = link[d] /\ request'[d] = request[d]
                               /\ published'[d] = published[d]
  BY <1>1, <1>4 DEF RequestTypes
<1>9. SocketTypes' /\ RequestTypes' /\ pipeline' \in SUBSET Clients
  <2>1. link' \in [Clients -> LinkStates] /\ published' \in [Clients -> Nat]
    BY <1>1, <1>4, <1>6 DEF RequestTypes
  <2>2. request' \in [Clients -> {"none", "receive", "ackRecord", "ackEnd", "over"}]
    BY <1>1, <1>4 DEF RequestTypes
  <2> QED
    BY <1>2, <1>3, <1>4, <2>1, <2>2 DEF SocketTypes, RequestTypes, ResponseTypes
<1>10. OnlyRequest(c)
  BY <1>2, <1>3, <1>8 DEF OnlyRequest
<1>11. client' = client /\ unsent' = unsent /\ output' = output /\ faults' = faults
  BY <1>2 DEF RequestOnly
<1>12. ~eofPublished[c] /\ (responder # "stopped" => In(clientList, c) \/ Stray(c, w))
  BY <1>3, HandlerTurn DEF Answered
<1>13. Channel(c)'
  BY <1>2, <1>3, <1>12, OneMessage DEF Channel
<1>14. Turn(c)'
  BY <1>2, <1>3, <1>7, <1>11, <1>12 DEF Turn, RecordTurn
<1>15. Account(c)'
  <2> SUFFICES ASSUME faults = 0 PROVE published'[c] + unsent[c] = UploadSize[c]
    BY <1>3, <1>4, <1>9, <1>11, OneMessage DEF Account, ClientTypes, RequestTypes
  <2>1. link[c] = "open"
    BY <1>4, <1>5 DEF Blame, BoundTypes
  <2>2. published[c] + unsent[c] + 1 = UploadSize[c]
    BY <1>3, <1>5 DEF Account
  <2>3. published[c] \in Nat /\ unsent[c] \in Nat
    BY <1>4 DEF ClientTypes, RequestTypes
  <2> QED
    BY <1>6, <1>7, <2>1, <2>2, <2>3
<1>16. Own(c)' /\ Result(c)' /\ Blame(c)'
  BY <1>2, <1>5, <1>6, <1>7, <1>11 DEF Own, Result, Blame, RequestOnly
<1>17. Listed(c, w)' /\ Budget(c)'
  BY <1>2, <1>3, <1>11, <1>12 DEF Listed, Stray, Budget, RequestOnly
<1> QED
  BY <1>2, <1>3, <1>9, <1>10, <1>13, <1>14, <1>15, <1>16, <1>17, RequestStepKeeps

\* The end of records is published when no record is left, and once.
LEMMA PublishEofKeeps ==
    ASSUME NEW w, Invariant(w), NEW c \in Clients, PublishEof(c)
    PROVE  Invariant(w)'
<1>1. PICK out \in SendOutcomes(link[c]) :
        /\ link' = [link EXCEPT ![c] = out.link]
        /\ \/ /\ eofPublished' = [eofPublished EXCEPT ![c] = TRUE]
              /\ pipeline' = pipeline \cup {c}
           \/ UNCHANGED <<eofPublished, pipeline>>
        /\ request' = [request EXCEPT ![c] = IF out.raised THEN "over" ELSE "ackEnd"]
  BY DEF PublishEof, AfterSend
<1>2. RequestOnly /\ UNCHANGED <<toClient, published>>
  BY DEF PublishEof, RequestOnly
<1>3. /\ toGateway[c] = <<End>> /\ toGateway'[c] = <<>>
      /\ toGateway' \in [Clients -> Seq(ClientMessages)]
      /\ \A d \in Clients \ {c} : toGateway'[d] = toGateway[d]
      /\ request[c] = "receive" /\ IsBusy(c)
      /\ client[c] \in {"endAck", "gone", "lost"}
      /\ client[c] = "endAck" => toClient[c] = <<>>
  <2>1. Takes(c, End.type)
    BY Messages DEF PublishEof
  <2> QED
    BY <2>1, MessageTaken, Messages
<1>4. SocketTypes /\ RequestTypes /\ BoundTypes /\ ResponseTypes
  BY DEF Invariant, TypeInv
<1>5. Channel(c) /\ Account(c) /\ Own(c) /\ Result(c) /\ Blame(c)
  BY DEF Invariant, ClientInv
<1>6. /\ out.link \in LinkStates
      /\ link[c] = "open" => out.link = "open"
  BY PublishOutcome
<1>7. link'[c] = out.link /\ request'[c] \in {"over", "ackEnd"}
  BY <1>1, <1>4 DEF RequestTypes
<1>8. \A d \in Clients \ {c} :
        /\ link'[d] = link[d] /\ request'[d] = request[d] /\ eofPublished'[d] = eofPublished[d]
        /\ d \in pipeline' <=> d \in pipeline
  BY <1>1, <1>4 DEF RequestTypes
<1>9. SocketTypes' /\ RequestTypes' /\ pipeline' \in SUBSET Clients
  <2>1. link' \in [Clients -> LinkStates] /\ eofPublished' \in [Clients -> BOOLEAN]
        /\ pipeline' \in SUBSET Clients
    BY <1>1, <1>4, <1>6 DEF RequestTypes, ResponseTypes
  <2>2. request' \in [Clients -> {"none", "receive", "ackRecord", "ackEnd", "over"}]
    BY <1>1, <1>4 DEF RequestTypes
  <2> QED
    BY <1>2, <1>3, <1>4, <2>1, <2>2 DEF SocketTypes, RequestTypes
<1>10. OnlyRequest(c)
  BY <1>2, <1>3, <1>8 DEF OnlyRequest
<1>11. client' = client /\ unsent' = unsent /\ faults' = faults /\ responder' = responder
       /\ results' = results /\ clientList' = clientList /\ leftOver' = leftOver
  BY <1>2 DEF RequestOnly
<1>12. ~In(results, c) /\ (responder # "stopped" => In(clientList, c) \/ Stray(c, w))
  BY <1>3, HandlerTurn DEF Answered
<1>13. unsent[c] = 0
  BY <1>3, <1>5 DEF Channel
<1>14. Channel(c)' /\ Turn(c)'
  <2>1. Channel(c)'
    BY <1>3, <1>7, <1>11, <1>13, OneMessage DEF Channel, Ending
  <2>2. Turn(c)'
    BY <1>3, <1>7, <1>11 DEF Turn, EndTurn, Ending
  <2> QED
    BY <2>1, <2>2
<1>15. Account(c)'
  BY <1>2, <1>3, <1>5, <1>11, OneMessage, Messages DEF Account
<1>16. Own(c)' /\ Blame(c)'
  BY <1>2, <1>5, <1>6, <1>7, <1>11 DEF Own, Blame, RequestOnly
<1>17. Result(c)' /\ Listed(c, w)'
  <2>1. c \in pipeline' => eofPublished'[c]
    BY <1>1, <1>4, <1>5 DEF Result, RequestTypes
  <2> QED
    BY <1>11, <1>12, <2>1 DEF Result, Listed, Stray
<1>18. Budget(c)'
  <2>1. client[c] = "endAck" => Len(toClient'[c]) + Taken(c)' = 0
    BY <1>2, <1>3, <1>11, OneMessage DEF Taken
  <2> QED
    BY <1>3, <1>11, <2>1 DEF Budget
<1>19. client[c] \notin {"write", "done", "failed"}
  BY <1>3
<1> QED
  BY <1>2, <1>3, <1>9, <1>10, <1>14, <1>15, <1>16, <1>17, <1>18, <1>19, RequestStepKeeps

\* A handler whose client is gone ends, whatever it was doing.
LEMMA HandlerEndKeeps ==
    ASSUME NEW w, Invariant(w), NEW c \in Clients, IsBusy(c), client[c] = "gone",
           request' = [request EXCEPT ![c] = "over"], RequestOnly,
           UNCHANGED <<toGateway, toClient, link, published, eofPublished, pipeline>>
    PROVE  Invariant(w)'
<1>1. SocketTypes /\ RequestTypes /\ ResponseTypes
  BY DEF Invariant, TypeInv
<1>2. Channel(c) /\ Account(c) /\ Own(c) /\ Result(c) /\ Blame(c)
  BY DEF Invariant, ClientInv
<1>3. request'[c] = "over" /\ \A d \in Clients \ {c} : request'[d] = request[d]
  BY <1>1 DEF RequestTypes
<1>4. SocketTypes' /\ RequestTypes' /\ pipeline' \in SUBSET Clients
  BY <1>1 DEF SocketTypes, RequestTypes, ResponseTypes
<1>5. OnlyRequest(c)
  BY <1>3 DEF OnlyRequest
<1>6. Channel(c)' /\ Account(c)' /\ Own(c)' /\ Result(c)' /\ Blame(c)'
  BY <1>2, <1>3 DEF Channel, Account, Own, Result, Blame, RequestOnly, Waiting, Ending
<1>7. Turn(c)' /\ Budget(c)'
  BY DEF Turn, Budget, RequestOnly
<1>8. Listed(c, w)'
  BY HandlerTurn DEF Listed, Answered, Stray, RequestOnly
<1> QED
  BY <1>4, <1>5, <1>6, <1>7, <1>8, RequestStepKeeps

\* What recv_msg raises ends the handler.
LEMMA ReceiveFailsKeeps ==
    ASSUME NEW w, Invariant(w), NEW c \in Clients, ReceiveFails(c)
    PROVE  Invariant(w)'
<1>1. IsBusy(c) /\ client[c] = "gone" /\ request' = [request EXCEPT ![c] = "over"]
  BY DEF ReceiveFails, IsBusy
<1>2. /\ RequestOnly
      /\ UNCHANGED <<toGateway, toClient, link, published, eofPublished, pipeline>>
  BY DEF ReceiveFails, RequestOnly
<1> QED
  BY <1>1, <1>2, HandlerEndKeeps

\* The acknowledgement of a record gives the client its turn; that of the end is the last
\* message of the handler.
LEMMA SendAckKeeps ==
    ASSUME NEW w, Invariant(w), NEW c \in Clients, SendAck(c)
    PROVE  Invariant(w)'
<1> DEFINE next == IF request[c] = "ackRecord" THEN "receive" ELSE "over"
<1>1. /\ request[c] \in {"ackRecord", "ackEnd"} /\ IsBusy(c) /\ RequestOnly
      /\ UNCHANGED <<toGateway, link, published, eofPublished, pipeline>>
  BY DEF SendAck, IsBusy, RequestOnly
<1>2. CASE /\ client[c] = "gone" /\ request' = [request EXCEPT ![c] = "over"]
           /\ UNCHANGED toClient
  BY <1>1, <1>2, HandlerEndKeeps
<1>3. CASE /\ request' = [request EXCEPT ![c] = next]
           /\ toClient' = [toClient EXCEPT ![c] = Append(@, Ack)]
  <2>1. SocketTypes /\ RequestTypes /\ ResponseTypes
    BY DEF Invariant, TypeInv
  <2>2. /\ Channel(c) /\ Turn(c) /\ Account(c) /\ Own(c) /\ Result(c) /\ Listed(c, w)
        /\ Budget(c) /\ Blame(c)
    BY DEF Invariant, ClientInv
  <2>3. /\ request'[c] = next /\ toClient'[c] = Append(toClient[c], Ack)
        /\ \A d \in Clients \ {c} : request'[d] = request[d] /\ toClient'[d] = toClient[d]
    BY <1>3, <2>1 DEF SocketTypes, RequestTypes
  <2>4. SocketTypes' /\ RequestTypes' /\ pipeline' \in SUBSET Clients
    <3>1. toClient' \in [Clients -> Seq(GatewayMessages)]
      BY <1>3, <2>1, Messages DEF SocketTypes
    <3>2. request' \in [Clients -> {"none", "receive", "ackRecord", "ackEnd", "over"}]
      BY <1>3, <2>1 DEF RequestTypes
    <3> QED
      BY <1>1, <2>1, <3>1, <3>2 DEF SocketTypes, RequestTypes, ResponseTypes
  <2>5. OnlyRequest(c)
    BY <1>1, <2>3 DEF OnlyRequest
  <2>6. client' = client /\ unsent' = unsent /\ faults' = faults /\ responder' = responder
        /\ results' = results /\ clientList' = clientList /\ output' = output
        /\ leftOver' = leftOver
    BY <1>1 DEF RequestOnly
  <2>7. toGateway[c] \notin {<<Rec>>, <<End>>}
    BY <1>1, <2>2 DEF Channel, Waiting
  <2>8. Channel(c)' /\ Account(c)' /\ Result(c)' /\ Blame(c)'
    <3>1. request[c] \in Ending => request'[c] \in Ending
      BY <1>1, <2>3 DEF Ending
    <3>2. Channel(c)'
      BY <1>1, <2>2, <2>6, <2>7, <3>1 DEF Channel
    <3>3. Account(c)' /\ Result(c)' /\ Blame(c)'
      BY <1>1, <2>2, <2>6 DEF Account, Result, Blame, RequestOnly
    <3> QED
      BY <3>2, <3>3
  <2>9. Own(c)'
    <3>1. \A i \in DOMAIN toClient'[c] : toClient'[c][i] \in {Ack, FruitTop(c)}
      BY <2>1, <2>2, <2>3, Messages DEF Own, SocketTypes
    <3> QED
      BY <2>2, <2>6, <3>1 DEF Own
  <2>10. Turn(c)'
    <3>1. CASE client[c] = "recordAck"
      <4>1. /\ ~eofPublished[c] /\ toGateway[c] = <<>> /\ toClient[c] = <<>>
            /\ request[c] = "ackRecord"
        BY <1>1, <2>2, <2>7, <3>1 DEF Turn, RecordTurn
      <4>2. toClient'[c] = <<Ack>> /\ request'[c] = "receive"
        BY <2>3, <4>1, OneMessage
      <4> QED
        BY <1>1, <2>6, <3>1, <4>1, <4>2 DEF Turn, RecordTurn
    <3>2. CASE client[c] # "recordAck"
      <4>1. client[c] \notin {"start", "send"}
        BY <1>1, <2>2 DEF Turn, Waiting
      <4>2. request[c] \in Ending => request'[c] \in Ending
        BY <1>1, <2>3 DEF Ending
      <4> QED
        BY <1>1, <2>2, <2>6, <2>7, <3>2, <4>1, <4>2 DEF Turn, EndTurn
    <3> QED
      BY <3>1, <3>2
  <2>11. Listed(c, w)'
    BY <1>1, <2>2, <2>6, HandlerTurn DEF Listed, Answered, Stray
  <2>12. Budget(c)'
    <3> SUFFICES ASSUME responder # "stopped",
                        client[c] \in {"endAck", "top", "write", "done", "failed"}
                 PROVE  Len(toClient'[c]) + Taken(c)
                          <= (IF request'[c] = "over" THEN 1 ELSE 0)
                               + (IF TopIsSent(c) THEN 1 ELSE 0)
      BY <1>1, <2>6 DEF Budget, Taken, TopIsSent, Answered
    <3>1. request[c] = "ackEnd" /\ request'[c] = "over"
      BY <1>1, <2>2, <2>3, <2>7 DEF Turn, EndTurn, Ending
    <3>2. Len(toClient[c]) \in Nat /\ Len(toClient'[c]) = Len(toClient[c]) + 1
      BY <2>1, <2>3 DEF SocketTypes
    <3>3. Len(toClient[c]) + Taken(c) <= 0 + (IF TopIsSent(c) THEN 1 ELSE 0)
      BY <2>2, <3>1 DEF Budget
    <3>4. Taken(c) \in Nat /\ (IF TopIsSent(c) THEN 1 ELSE 0) \in Nat
      BY DEF Taken
    <3> QED
      BY <3>1, <3>2, <3>3, <3>4
  <2>13. client[c] \in {"write", "done", "failed"} => toGateway'[c] = toGateway[c]
    BY <1>1
  <2> QED
    BY <1>1, <2>4, <2>5, <2>8, <2>9, <2>10, <2>11, <2>12, <2>13, RequestStepKeeps
<1> QED
  BY <1>2, <1>3 DEF SendAck, Ack

-----------------------------------------------------------------------------
(* The filters and the failures.                                           *)

\* A top goes from the filters to the end of the queue: the one that the response handler
\* is at stays the first.
LEMMA ComputeTopKeeps ==
    ASSUME NEW w, Invariant(w), NEW c \in Clients, ComputeTop(c)
    PROVE  Invariant(w)'
<1>1. /\ c \in pipeline /\ pipeline' = pipeline \ {c} /\ results' = Append(results, c)
      /\ UNCHANGED <<clientVars, toGateway, toClient, mainVars, requestVars, responseVars,
                     boundVars>>
  BY DEF ComputeTop
<1>2. TypeInv /\ ListInv(w) /\ WaitInv /\ StopInv /\ ClientInv(c, w)
  BY DEF Invariant
<1>3. ResponseTypes /\ BoundTypes
  BY <1>2 DEF TypeInv
<1>4. eofPublished[c] /\ ~In(results, c)
  BY <1>1, <1>2 DEF ClientInv, Result
<1>5. /\ results' \in Seq(Clients \cup Former) /\ Once(results')
      /\ \A d : In(results', d) <=> In(results, d) \/ d = c
      /\ results # <<>> => Head(results') = Head(results)
      /\ results' # <<>>
  <2>1. c \in Clients \cup Former /\ results \in Seq(Clients \cup Former)
    BY <1>3 DEF ResponseTypes
  <2>2. In(results', c)
    BY <1>1, <2>1, AppendedList
  <2>3. results' # <<>>
    BY <2>2 DEF In
  <2> QED
    BY <1>1, <1>2, <1>4, <2>1, <2>3, AppendedList DEF ListInv
<1>6. TypeInv'
  BY <1>1, <1>2, <1>5 DEF TypeInv, ClientTypes, SocketTypes, MainTypes, RequestTypes, PoolBound,
     IsBusy, ResponderProcesses, ResponseTypes, IndexType, BoundTypes
<1>7. ListInv(w)' /\ WaitInv'
  <2>1. c \notin Former
    BY GatewayAssumption
  <2> QED
    BY <1>1, <1>2, <1>5, <2>1 DEF ListInv, Stray, WaitInv
<1>8. StopInv'
  <2>1. ~(ToSet(results) \subseteq ToSet(clientList))
          => ~(ToSet(results') \subseteq ToSet(clientList))
    BY <1>5, InToSet
  <2> QED
    BY <1>1, <1>2, <2>1 DEF StopInv, ResponderSurvives, Trouble
<1>9. responder = "ack" => results # <<>>
  BY <1>2 DEF WaitInv
<1>10. ClientInv(c, w)'
  <2>1. Channel(c)' /\ Turn(c)' /\ Account(c)' /\ Own(c)' /\ Place(c)' /\ Blame(c)'
    BY <1>1, <1>2 DEF ClientInv, Channel, Turn, RecordTurn, EndTurn, Account, Own, Place, Blame
  <2>2. Result(c)' /\ Listed(c, w)'
    BY <1>1, <1>2, <1>4, <1>5 DEF ClientInv, Result, Listed, Answered, Stray
  <2>3. Budget(c)'
    <3>1. ~TopIsSent(c)
      <4>1. ~Answered(c)
        BY <1>1 DEF Answered
      <4>2. responder = "ack" => c # Head(results)
        <5>1. results # <<>> => In(results, Head(results))
          BY <1>3, TailOfList DEF ResponseTypes
        <5> QED
          BY <1>4, <1>9, <5>1
      <4> QED
        BY <4>1, <4>2 DEF TopIsSent
    <3>2. /\ Taken(c)' = Taken(c)
          /\ UNCHANGED <<responder, client, request, toClient>>
      BY <1>1 DEF Taken
    <3>3. Taken(c) \in Nat
      BY DEF Taken
    <3>4. Budget(c)
      BY <1>2 DEF ClientInv
    <3>5. toClient[c] \in Seq(GatewayMessages)
      BY <1>2 DEF TypeInv, SocketTypes
    <3> QED
      BY <3>1, <3>2, <3>3, <3>4, <3>5 DEF Budget
  <2> QED
    BY <2>1, <2>2, <2>3 DEF ClientInv
<1>11. ASSUME NEW d \in Clients, d # c PROVE ClientInv(d, w)'
  <2>1. SameClient(d) /\ SamePlace(d) /\ SameResult(d) /\ MoreTrouble
    BY <1>1, <1>3, <1>5, <1>11 DEF SameClient, SamePlace, SameResult, MoreTrouble, BoundTypes
  <2>2. SameResponder(d)
    BY <1>1, <1>5, <1>9 DEF SameResponder
  <2> QED
    BY <2>1, <2>2, OthersKept DEF Invariant
<1> QED
  BY <1>6, <1>7, <1>8, <1>10, <1>11 DEF Invariant

\* A publishing connection that breaks is a fault.
LEMMA BreakLinkKeeps ==
    ASSUME NEW w, Invariant(w), NEW c \in Clients, BreakLink(c)
    PROVE  Invariant(w)'
<1>1. /\ faults' = faults + 1
      /\ link' = [link EXCEPT ![c] = "broken"]
      /\ UNCHANGED <<clientVars, toGateway, toClient, mainVars, request, published, eofPublished,
                     pipeline, results, responseVars, crashes>>
  BY DEF BreakLink
<1>2. TypeInv /\ ListInv(w) /\ WaitInv /\ StopInv /\ ClientInv(c, w)
  BY DEF Invariant
<1>3. RequestTypes /\ BoundTypes
  BY <1>2 DEF TypeInv
<1>4. faults \in Nat /\ faults' \in Nat /\ faults' > 0
  BY <1>1, <1>3 DEF BoundTypes
<1>5. TypeInv'
  <2>1. RequestTypes' /\ BoundTypes'
    BY <1>1, <1>3, <1>4 DEF RequestTypes, BoundTypes, LinkStates
  <2> QED
    BY <1>1, <1>2, <2>1 DEF TypeInv, ClientTypes, SocketTypes, MainTypes, PoolBound,
       IsBusy, ResponderProcesses,
       ResponseTypes, IndexType
<1>6. ListInv(w)' /\ WaitInv' /\ StopInv'
  BY <1>1, <1>2, <1>4 DEF ListInv, Stray, WaitInv, StopInv, ResponderSurvives, Trouble
<1>7. ClientInv(c, w)'
  <2>1. Channel(c)' /\ Turn(c)' /\ Own(c)' /\ Place(c)' /\ Result(c)' /\ Listed(c, w)'
    BY <1>1, <1>2
       DEF ClientInv, Channel, Turn, RecordTurn, EndTurn, Own, Place, Result, Listed,
           Answered, Stray
  <2>2. Budget(c)'
    BY <1>1, <1>2 DEF ClientInv, Budget, Answered, TopIsSent, Taken
  <2>3. Account(c)'
    BY <1>4 DEF Account
  <2>4. Blame(c)'
    BY <1>1, <1>2, <1>4 DEF ClientInv, Blame
  <2> QED
    BY <2>1, <2>2, <2>3, <2>4 DEF ClientInv
<1>8. ASSUME NEW d \in Clients, d # c PROVE ClientInv(d, w)'
  <2>1. SameClient(d)
    BY <1>1, <1>3, <1>8 DEF SameClient, RequestTypes
  <2>2. SamePlace(d) /\ SameResult(d) /\ SameResponder(d)
    BY <1>1 DEF SamePlace, SameResult, SameResponder
  <2>3. MoreTrouble
    BY <1>1, <1>3, <1>4 DEF MoreTrouble, BoundTypes
  <2> QED
    BY <2>1, <2>2, <2>3, OthersKept DEF Invariant
<1> QED
  BY <1>5, <1>6, <1>7, <1>8 DEF Invariant

\* So is a consuming one; the handler stops now, or when it acknowledges.
LEMMA LoseConsumerKeeps ==
    ASSUME NEW w, Invariant(w), LoseConsumer
    PROVE  Invariant(w)'
<1>1. /\ faults' = faults + 1 /\ consumerUp' = FALSE /\ responder # "stopped"
      /\ responder' = IF responder = "idle" THEN "stopped" ELSE responder
      /\ UNCHANGED <<clientVars, toGateway, toClient, mainVars, requestVars, pipeline, results,
                     clientIndex, givenVars, crashes>>
  BY DEF LoseConsumer
<1>2. TypeInv /\ ListInv(w) /\ WaitInv /\ StopInv
  BY DEF Invariant
<1>3. ResponseTypes /\ BoundTypes /\ IndexType
  BY <1>2 DEF TypeInv
<1>4. faults \in Nat /\ faults' \in Nat /\ faults' > 0
  BY <1>1, <1>3 DEF BoundTypes
<1>5. /\ responder' \in {"idle", "ack", "pop", "stopped"}
      /\ responder' = "ack" <=> responder = "ack"
      /\ responder' = "pop" <=> responder = "pop"
      /\ responder' \in {"idle", "stopped"} <=> responder \in {"idle", "stopped"}
  BY <1>1, <1>3 DEF ResponseTypes
<1>6. TypeInv'
  <2>1. ResponseTypes' /\ BoundTypes' /\ IndexType'
    BY <1>1, <1>3, <1>4, <1>5 DEF ResponseTypes, BoundTypes, IndexType
  <2> QED
    <3>1. PoolBound'
      BY <1>1, <1>2, NoMoreBusy DEF TypeInv, IsBusy
    <3> QED
      BY <1>1, <1>2, <2>1, <3>1 DEF TypeInv, ClientTypes, SocketTypes, MainTypes, RequestTypes
<1>7. ListInv(w)' /\ WaitInv' /\ StopInv'
  BY <1>1, <1>2, <1>4, <1>5 DEF ListInv, Stray, WaitInv, StopInv, ResponderSurvives, Trouble
<1>8. ASSUME NEW d \in Clients PROVE ClientInv(d, w)'
  <2>1. SameClient(d) /\ SamePlace(d) /\ SameResult(d)
    BY <1>1 DEF SameClient, SamePlace, SameResult
  <2>2. SameResponder(d)
    BY <1>1, <1>5 DEF SameResponder
  <2>3. MoreTrouble
    BY <1>1, <1>3, <1>4 DEF MoreTrouble, BoundTypes
  <2> QED
    BY <2>1, <2>2, <2>3, OthersKept DEF Invariant
<1> QED
  BY <1>6, <1>7, <1>8 DEF Invariant

-----------------------------------------------------------------------------
(* handle_client_response.                                                 *)

\* What its steps leave alone: the clients, the request handlers, the main process but for
\* the list, and the filters.
ResponseOnly ==
    UNCHANGED <<clientVars, server, backlog, tasks, requestVars, pipeline, consumerUp, givenVars,
                boundVars>>

\* What holds of the client whose top is at the head of the queue, when it is listed.
LEMMA HeadOfResults ==
    ASSUME NEW w, Invariant(w), NEW i \in DOMAIN clientList, results # <<>>,
           NEW c, c = Head(results), clientList[i] = c
    PROVE  /\ c \in Clients /\ c \notin Former /\ In(results, c)
           /\ eofPublished[c] /\ c \notin pipeline /\ request[c] \in Ending
           /\ toGateway[c] \in {<<>>, <<Ack>>}
           /\ client[c] \notin {"start", "send", "recordAck"}
<1>1. TypeInv
  BY DEF Invariant
<1>2. MainTypes /\ ResponseTypes
  BY <1>1 DEF TypeInv
<1>3. c \in Clients
  BY <1>2 DEF MainTypes
<1>4. In(results, c)
  BY <1>2, TailOfList DEF ResponseTypes
<1>5. Channel(c) /\ Turn(c) /\ Result(c)
  BY <1>3 DEF Invariant, ClientInv
<1>6. eofPublished[c] /\ c \notin pipeline
  BY <1>4, <1>5 DEF Result
<1>7. request[c] \in Ending /\ toGateway[c] \in {<<>>, <<Ack>>}
  BY <1>5, <1>6 DEF Channel
<1>8. client[c] \notin {"start", "send", "recordAck"}
  BY <1>5, <1>6, <1>7 DEF Turn, Ending
<1> QED
  BY <1>3, <1>4, <1>6, <1>7, <1>8, GatewayAssumption

\* An acknowledgement on its way is neither a record nor an end of records.
LEMMA NoAckIsData ==
    \A s \in {<<>>, <<Ack>>} : s # <<Rec>> /\ s # <<End>>
<1>1. <<Ack>> # <<Rec>> /\ <<Ack>> # <<End>>
  <2>1. Head(<<Ack>>) # Head(<<Rec>>) /\ Head(<<Ack>>) # Head(<<End>>)
    BY OneMessage, Messages
  <2> QED
    BY <2>1
<1>2. <<>> # <<Rec>> /\ <<>> # <<End>>
  BY OneMessage
<1> QED
  BY <1>1, <1>2

\* A result that is given back stops the handler.
LEMMA NackKeeps ==
    ASSUME NEW w, Invariant(w), NackAndStop, ResponseOnly, UNCHANGED <<toGateway, toClient>>,
           Trouble
    PROVE  Invariant(w)'
<1>1. /\ responder' = "stopped" /\ clientIndex' = 0
      /\ UNCHANGED <<clientVars, server, backlog, tasks, requestVars, pipeline, consumerUp,
                     givenVars, boundVars, toGateway, toClient, clientList, results>>
  BY DEF NackAndStop, ResponseOnly
<1>2. TypeInv /\ ListInv(w) /\ WaitInv /\ StopInv
  BY DEF Invariant
<1>3. TypeInv'
  <2>1. PoolBound'
    BY <1>1, <1>2, NoMoreBusy DEF TypeInv, IsBusy
  <2>2. IndexType'
    BY <1>1, <1>2 DEF TypeInv, IndexType, MainTypes
  <2> QED
    BY <1>1, <1>2, <2>1, <2>2
       DEF TypeInv, ClientTypes, SocketTypes, MainTypes, RequestTypes, ResponseTypes, BoundTypes
<1>4. ListInv(w)' /\ WaitInv' /\ StopInv'
  BY <1>1, <1>2 DEF ListInv, Stray, WaitInv, StopInv, ResponderSurvives, Trouble
<1>5. ASSUME NEW d \in Clients PROVE ClientInv(d, w)'
  <2>1. ClientInv(d, w)
    BY DEF Invariant
  <2>2. Channel(d)' /\ Turn(d)' /\ Account(d)' /\ Own(d)' /\ Place(d)' /\ Result(d)' /\ Blame(d)'
    BY <1>1, <2>1
       DEF ClientInv, Channel, Turn, RecordTurn, EndTurn, Account, Own, Place, Result, Blame
  <2>3. Listed(d, w)' /\ Budget(d)'
    BY <1>1 DEF Listed, Budget
  <2> QED
    BY <2>2, <2>3 DEF ClientInv
<1> QED
  BY <1>3, <1>4, <1>5 DEF Invariant

\* A client leaves the list with its result; on a connection that was lost the result stays
\* and the handler stops.  Its acknowledgement is taken, or there was none.
LEMMA PopKeeps ==
    ASSUME NEW w, Invariant(w), NEW i \in DOMAIN clientList, results # <<>>,
           NEW c, c = Head(results), clientList[i] = c,
           PopAndAck(i), ResponseOnly, responder # "stopped", UNCHANGED toClient,
           SocketTypes', toGateway'[c] \in {<<>>, toGateway[c]},
           \A d \in Clients \ {c} : toGateway'[d] = toGateway[d]
    PROVE  Invariant(w)'
<1>1. /\ clientList' = RemoveAt(clientList, i) /\ clientIndex' = 0
      /\ \/ consumerUp /\ responder' = "idle" /\ results' = Tail(results)
         \/ ~consumerUp /\ responder' = "stopped" /\ UNCHANGED results
  BY DEF PopAndAck, Popped
<1>2. UNCHANGED <<clientVars, server, backlog, tasks, requestVars, pipeline, consumerUp, givenVars,
                  boundVars, toClient>>
  BY DEF ResponseOnly
<1>3. TypeInv /\ ListInv(w) /\ WaitInv /\ StopInv
  BY DEF Invariant
<1>4. MainTypes /\ ResponseTypes /\ BoundTypes
  BY <1>3 DEF TypeInv
<1>5. /\ c \in Clients /\ In(results, c)
      /\ eofPublished[c] /\ c \notin pipeline /\ request[c] \in Ending
      /\ toGateway[c] \in {<<>>, <<Ack>>}
  BY HeadOfResults
<1>6. ClientInv(c, w)
  BY <1>5 DEF Invariant
<1>7. /\ clientList' \in Seq(Clients) /\ Once(clientList')
      /\ \A d : In(clientList', d) <=> In(clientList, d) /\ d # c
  BY <1>1, <1>3, <1>4, PoppedList DEF MainTypes, ListInv
<1>8. /\ results' \in Seq(Clients \cup Former) /\ Once(results')
      /\ \A d : d # c => (In(results', d) <=> In(results, d))
      /\ responder' = "idle" => ~In(results', c)
      /\ In(results', c) => In(results, c)
  <2>1. CASE results' = Tail(results)
    <3>1. /\ results' \in Seq(Clients \cup Former) /\ Once(results') /\ ~In(results', c)
          /\ \A d : In(results, d) <=> In(results', d) \/ d = c
      BY <1>3, <1>4, <2>1, TailOfList DEF ResponseTypes, ListInv
    <3> QED
      BY <3>1
  <2>2. CASE responder' = "stopped" /\ UNCHANGED results
    BY <1>3, <1>4, <2>2 DEF ResponseTypes, ListInv
  <2> QED
    BY <1>1, <2>1, <2>2
<1>9. responder' \in {"idle", "stopped"} /\ (responder' = "stopped" => faults > 0)
  BY <1>1, <1>3 DEF StopInv
<1>10. TypeInv'
  <2>1. MainTypes'
    BY <1>2, <1>4, <1>7 DEF MainTypes
  <2>2. ResponseTypes' /\ IndexType'
    <3>1. Len(clientList') \in Nat
      BY <1>7
    <3> QED
      BY <1>1, <1>2, <1>4, <1>8, <1>9, <3>1 DEF ResponseTypes, IndexType
  <2>3. PoolBound'
    BY <1>2, <1>3, NoMoreBusy DEF TypeInv, IsBusy
  <2> QED
    BY <1>2, <1>3, <2>1, <2>2, <2>3 DEF TypeInv, ClientTypes, RequestTypes, BoundTypes
<1>11. ListInv(w)' /\ WaitInv'
  <2>1. c \notin Former
    BY <1>5, GatewayAssumption
  <2> QED
    BY <1>2, <1>3, <1>7, <1>8, <1>9, <2>1 DEF ListInv, Stray, WaitInv
<1>12. StopInv'
  BY <1>2, <1>3, <1>9 DEF StopInv, ResponderSurvives, Trouble
<1>13. ClientInv(c, w)'
  <2>1. Channel(c)'
    BY <1>2, <1>5, <1>6, OneMessage, Messages DEF ClientInv, Channel
  <2>2. Turn(c)'
    <3>1. client[c] \notin {"start", "send", "recordAck"}
      BY HeadOfResults
    <3>2. toGateway'[c] \in {<<>>, <<Ack>>}
      BY <1>5
    <3>3. client[c] = "top" => toGateway'[c] = <<>>
      BY <1>6 DEF ClientInv, Turn
    <3>4. client[c] = "endAck" => toGateway'[c] = <<>>
      <4>1. toGateway[c] # <<End>>
        BY <1>5, NoAckIsData
      <4> QED
        BY <1>6, <4>1 DEF ClientInv, Turn, EndTurn
    <3> QED
      BY <1>2, <1>5, <3>1, <3>2, <3>3, <3>4 DEF Turn, EndTurn
  <2>3. Account(c)'
    <3>1. toGateway[c] # <<Rec>> /\ toGateway'[c] # <<Rec>>
      BY <1>5, NoAckIsData
    <3> QED
      BY <1>2, <1>6, <3>1 DEF ClientInv, Account
  <2>4. Own(c)' /\ Blame(c)'
    BY <1>2, <1>6 DEF ClientInv, Own, Blame
  <2>5. Place(c)'
    BY <1>2, <1>6, <1>7 DEF ClientInv, Place
  <2>6. Result(c)'
    BY <1>2, <1>5 DEF Result
  <2>7. Listed(c, w)'
    BY <1>2, <1>5, <1>8, <1>9 DEF Listed, Answered, Stray
  <2>8. Budget(c)'
    <3> SUFFICES ASSUME responder' = "idle",
                        client[c] \in {"endAck", "top", "write", "done", "failed"}
                 PROVE  Len(toClient[c]) + Taken(c)
                          <= (IF request[c] = "over" THEN 1 ELSE 0)
                               + (IF TopIsSent(c)' THEN 1 ELSE 0)
      BY <1>2, <1>9 DEF Budget, Taken
    <3>1. TopIsSent(c)'
      BY <1>2, <1>5, <1>8 DEF TopIsSent, Answered
    <3>2. toClient[c] \in Seq(GatewayMessages) /\ Taken(c) \in Nat
      BY <1>3, <1>5 DEF TypeInv, SocketTypes, Taken
    <3>3. Budget(c)
      BY <1>6 DEF ClientInv
    <3> QED
      BY <3>1, <3>2, <3>3 DEF Budget
  <2> QED
    BY <2>1, <2>2, <2>3, <2>4, <2>5, <2>6, <2>7, <2>8 DEF ClientInv
<1>14. ASSUME NEW d \in Clients, d # c PROVE ClientInv(d, w)'
  <2>1. SameClient(d) /\ SamePlace(d) /\ SameResult(d)
    BY <1>2, <1>7, <1>8, <1>14 DEF SameClient, SamePlace, SameResult
  <2>2. SameResponder(d)
    BY <1>2, <1>9, <1>14 DEF SameResponder
  <2>3. MoreTrouble
    BY <1>2, <1>4 DEF MoreTrouble, BoundTypes
  <2> QED
    BY <2>1, <2>2, <2>3, OthersKept DEF Invariant
<1> QED
  BY <1>10, <1>11, <1>12, <1>13, <1>14 DEF Invariant

\* A top is sent to the client it is of, which has not ended on its own and takes it, so
\* that an acknowledgement will come; or its socket is closed, and it leaves the list.
LEMMA SendTopKeeps ==
    ASSUME NEW w, Invariant(w), SendTop
    PROVE  Invariant(w)'
<1> PICK i : i = Lookup(Head(results))
  OBVIOUS
<1> PICK c : c = Head(results)
  OBVIOUS
<1>1. TypeInv /\ ListInv(w) /\ WaitInv /\ StopInv
  BY DEF Invariant
<1>2. /\ MainTypes /\ ResponseTypes /\ BoundTypes /\ SocketTypes /\ ClientTypes /\ RequestTypes
      /\ IndexType
  BY <1>1 DEF TypeInv
<1>3. responder = "idle" /\ results # <<>> /\ i # 0 /\ ResponseOnly /\ toGateway' = toGateway
  BY DEF SendTop, ResponseOnly
<1>4. i \in DOMAIN clientList /\ clientList[i] = c
  BY <1>2, <1>3, LookupFinds DEF MainTypes
<1>5. CASE PopAndAck(i) /\ UNCHANGED toClient
  <2>1. toGateway'[c] \in {<<>>, toGateway[c]}
        /\ \A d \in Clients \ {c} : toGateway'[d] = toGateway[d]
    BY <1>3
  <2>2. SocketTypes'
    BY <1>2, <1>3, <1>5 DEF SocketTypes
  <2>3. responder # "stopped" /\ toClient' = toClient /\ PopAndAck(i)
    BY <1>3, <1>5
  <2> QED
    BY <1>3, <1>4, <2>1, <2>2, <2>3, PopKeeps
<1>6. CASE /\ responder' = "ack" /\ clientIndex' = i
           /\ toClient' = [toClient EXCEPT ![clientList[i]] = Append(@, FruitTop(Head(results)))]
           /\ UNCHANGED <<clientList, results>>
  <2>1. /\ c \in Clients /\ In(results, c) /\ eofPublished[c] /\ c \notin pipeline
        /\ request[c] \in Ending /\ toGateway[c] \in {<<>>, <<Ack>>}
        /\ client[c] \notin {"start", "send", "recordAck"}
    BY <1>3, <1>4, HeadOfResults
  <2>2. ClientInv(c, w)
    BY <2>1 DEF Invariant
  <2>3. UNCHANGED <<clientVars, server, backlog, tasks, requestVars, pipeline, consumerUp,
                    givenVars, boundVars, toGateway, clientList, results>>
    BY <1>3, <1>6 DEF ResponseOnly
  <2>4. toClient' = [toClient EXCEPT ![c] = Append(@, FruitTop(c))]
    BY <1>4, <1>6
  <2>5. /\ toClient'[c] = Append(toClient[c], FruitTop(c))
        /\ toClient' \in [Clients -> Seq(GatewayMessages)]
        /\ \A d \in Clients \ {c} : toClient'[d] = toClient[d]
    BY <1>2, <2>1, <2>4, Messages DEF SocketTypes
  <2>6. Len(toClient[c]) \in Nat /\ Len(toClient'[c]) = Len(toClient[c]) + 1
    BY <1>2, <2>1, <2>5 DEF SocketTypes
  <2>7. ~TopIsSent(c) /\ TopIsSent(c)'
    BY <1>3, <1>6, <2>1, <2>3 DEF TopIsSent, Answered
  <2>8. Budget(c) /\ Budget(c)'
    <3>1. Budget(c)
      BY <2>2 DEF ClientInv
    <3>2. Taken(c) \in Nat /\ Taken(c)' = Taken(c)
      BY <2>3 DEF Taken
    <3>3. request' = request /\ client' = client /\ responder # "stopped"
      BY <1>3, <2>3
    <3> QED
      BY <2>6, <2>7, <3>1, <3>2, <3>3 DEF Budget
  <2>9. client[c] \notin {"write", "done", "failed"}
    <3> SUFFICES ASSUME client[c] \in {"write", "done", "failed"} PROVE FALSE
      OBVIOUS
    <3>1. Taken(c) = 2
      BY DEF Taken
    <3>2. Len(toClient[c]) + 2 <= (IF request[c] = "over" THEN 1 ELSE 0) + 0
      BY <1>3, <2>7, <2>8, <3>1 DEF Budget
    <3> QED
      BY <2>6, <3>2
  <2>10. TypeInv'
    <3>1. SocketTypes'
      BY <1>2, <2>3, <2>5 DEF SocketTypes
    <3>2. ResponseTypes'
      BY <1>2, <1>6, <2>3 DEF ResponseTypes
    <3>3. IndexType'
      <4>1. i \in 1 .. Len(clientList) /\ Len(clientList) \in Nat
        BY <1>2, <1>4 DEF MainTypes
      <4> QED
        BY <1>4, <1>6, <2>3, <4>1 DEF IndexType
    <3>4. PoolBound'
      BY <1>1, <1>3, <2>3, NoMoreBusy DEF TypeInv, IsBusy
    <3> QED
      BY <1>1, <2>3, <3>1, <3>2, <3>3, <3>4
         DEF TypeInv, ClientTypes, MainTypes, RequestTypes, BoundTypes
  <2>11. ListInv(w)' /\ StopInv'
    BY <1>1, <1>3, <1>6, <2>3 DEF ListInv, Stray, StopInv, ResponderSurvives, Trouble
  <2>12. WaitInv'
    BY <1>3, <1>4, <1>6, <2>3, <2>9 DEF WaitInv
  <2>13. ClientInv(c, w)'
    <3>1. Channel(c)' /\ Account(c)' /\ Place(c)' /\ Result(c)' /\ Blame(c)'
      BY <2>2, <2>3 DEF ClientInv, Channel, Account, Place, Result, Blame
    <3>2. Turn(c)'
      <4>1. toGateway[c] # <<End>>
        BY <2>1, NoAckIsData
      <4> QED
        BY <2>1, <2>2, <2>3, <4>1 DEF ClientInv, Turn, EndTurn
    <3>3. Own(c)'
      <4>1. \A j \in DOMAIN toClient'[c] : toClient'[c][j] \in {Ack, FruitTop(c)}
        BY <1>2, <2>1, <2>2, <2>5, Messages DEF ClientInv, Own, SocketTypes
      <4> QED
        BY <2>2, <2>3, <4>1 DEF ClientInv, Own
    <3>4. Listed(c, w)'
      BY <1>4, <2>3 DEF Listed, In
    <3> QED
      BY <2>8, <3>1, <3>2, <3>3, <3>4 DEF ClientInv
  <2>14. ASSUME NEW d \in Clients, d # c PROVE ClientInv(d, w)'
    <3>1. SameClient(d) /\ SamePlace(d) /\ SameResult(d)
      BY <2>3, <2>5, <2>14 DEF SameClient, SamePlace, SameResult
    <3>2. SameResponder(d)
      BY <1>3, <2>3, <2>14 DEF SameResponder
    <3>3. MoreTrouble
      BY <1>2, <2>3 DEF MoreTrouble, BoundTypes
    <3> QED
      BY <3>1, <3>2, <3>3, OthersKept DEF Invariant
  <2> QED
    BY <2>10, <2>11, <2>12, <2>13, <2>14 DEF Invariant
<1> QED
  BY <1>5, <1>6 DEF SendTop

\* A result that does not fit is given back.
LEMMA TopDoesNotFitKeeps ==
    ASSUME NEW w, Invariant(w), TopDoesNotFit
    PROVE  Invariant(w)'
<1>1. NackAndStop /\ ResponseOnly /\ UNCHANGED <<toGateway, toClient>>
  BY DEF TopDoesNotFit, ResponseOnly
<1>2. Trouble
  BY DEF TopDoesNotFit, Trouble
<1> QED
  BY <1>1, <1>2, NackKeeps

\* A result that finds nobody is that of the stray.
LEMMA NobodyIsStray ==
    ASSUME NEW w, Invariant(w), responder # "stopped", results # <<>>,
           ~In(clientList, Head(results))
    PROVE  Stray(Head(results), w) /\ In(results, Head(results))
<1> PICK x : x = Head(results)
  OBVIOUS
<1>1. ResponseTypes
  BY DEF Invariant, TypeInv
<1>2. In(results, x) /\ x \in Clients \cup Former
  BY <1>1, TailOfList DEF ResponseTypes
<1>3. CASE x \in Former
  BY <1>2, <1>3 DEF Invariant, ListInv
<1>4. CASE x \in Clients
  <2>1. Result(x) /\ Listed(x, w) /\ Channel(x)
    BY <1>4 DEF Invariant, ClientInv
  <2>2. eofPublished[x] /\ request[x] # "none"
    BY <1>2, <2>1 DEF Result, Channel, Ending
  <2> QED
    BY <1>2, <2>1, <2>2 DEF Listed, Answered
<1> QED
  BY <1>2, <1>3, <1>4

\* The loop that ends behind the last client changes client_index only.
LEMMA FindNobodyKeeps ==
    ASSUME NEW w, Invariant(w), FindNobody
    PROVE  Invariant(w)'
<1>1. /\ responder = "idle" /\ results # <<>> /\ Lookup(Head(results)) = 0
      /\ responder' = "pop" /\ clientIndex' = Len(clientList) + 1
      /\ UNCHANGED <<clientVars, toGateway, toClient, mainVars, requestVars, pipeline, results,
                     consumerUp, givenVars, boundVars>>
  BY DEF FindNobody
<1>2. TypeInv /\ ListInv(w) /\ WaitInv /\ StopInv
  BY DEF Invariant
<1>3. TypeInv'
  <2>1. IndexType'
    BY <1>1, <1>2 DEF TypeInv, MainTypes, IndexType
  <2>2. PoolBound'
    BY <1>1, <1>2, NoMoreBusy DEF TypeInv, IsBusy
  <2> QED
    BY <1>1, <1>2, <2>1, <2>2
       DEF TypeInv, ClientTypes, SocketTypes, MainTypes, RequestTypes, ResponseTypes, BoundTypes
<1>4. ListInv(w)' /\ StopInv'
  BY <1>1, <1>2 DEF ListInv, Stray, StopInv, ResponderSurvives, Trouble
<1>5. WaitInv'
  <2>1. ~In(clientList, Head(results))
    BY <1>1, <1>2, LookupFinds DEF TypeInv, MainTypes
  <2> QED
    BY <1>1, <2>1 DEF WaitInv
<1>6. ASSUME NEW d \in Clients PROVE ClientInv(d, w)'
  <2>1. SameClient(d) /\ SamePlace(d) /\ SameResult(d)
    BY <1>1 DEF SameClient, SamePlace, SameResult
  <2>2. SameResponder(d)
    BY <1>1 DEF SameResponder
  <2>3. MoreTrouble
    BY <1>1, <1>2 DEF MoreTrouble, TypeInv, BoundTypes
  <2> QED
    BY <2>1, <2>2, <2>3, OthersKept DEF Invariant
<1> QED
  BY <1>3, <1>4, <1>5, <1>6 DEF Invariant

\* The result of the stray, acknowledged with the place of another client, makes that
\* client the stray: nobody else loses its place.
LEMMA PopOfAnotherKeeps ==
    ASSUME NEW w, Invariant(w), NEW i \in DOMAIN clientList, responder = "pop",
           NEW e, e = clientList[i],
           PopAndAck(i), ResponseOnly, UNCHANGED <<toGateway, toClient>>
    PROVE  Invariant(e)'
<1> PICK x : x = Head(results)
  OBVIOUS
<1>1. /\ clientList' = RemoveAt(clientList, i) /\ clientIndex' = 0
      /\ \/ consumerUp /\ responder' = "idle" /\ results' = Tail(results)
         \/ ~consumerUp /\ responder' = "stopped" /\ UNCHANGED results
  BY DEF PopAndAck, Popped
<1>2. UNCHANGED <<clientVars, server, backlog, tasks, requestVars, pipeline, consumerUp, givenVars,
                  boundVars, toGateway, toClient>>
  BY DEF ResponseOnly
<1>3. TypeInv /\ ListInv(w) /\ WaitInv /\ StopInv
  BY DEF Invariant
<1>4. MainTypes /\ ResponseTypes /\ BoundTypes
  BY <1>3 DEF TypeInv
<1>5. results # <<>> /\ ~In(clientList, x) /\ Stray(x, w) /\ In(results, x)
  <2>1. results # <<>> /\ ~In(clientList, x)
    BY <1>3 DEF WaitInv
  <2> QED
    BY <2>1, NobodyIsStray
<1>6. /\ clientList' \in Seq(Clients) /\ Once(clientList')
      /\ \A d : In(clientList', d) <=> In(clientList, d) /\ d # e
  BY <1>1, <1>3, <1>4, PoppedList DEF MainTypes, ListInv
<1>7. /\ results' \in Seq(Clients \cup Former) /\ Once(results')
      /\ \A d : In(results', d) => In(results, d)
      /\ \A d : d # x => (In(results', d) <=> In(results, d))
      /\ responder' = "idle" => ~In(results', x)
  <2>1. CASE results' = Tail(results)
    <3>1. /\ results' \in Seq(Clients \cup Former) /\ Once(results') /\ ~In(results', x)
          /\ \A d : In(results, d) <=> In(results', d) \/ d = x
      BY <1>3, <1>4, <1>5, <2>1, TailOfList DEF ResponseTypes, ListInv
    <3> QED
      BY <3>1
  <2>2. CASE responder' = "stopped" /\ UNCHANGED results
    BY <1>3, <1>4, <2>2 DEF ResponseTypes, ListInv
  <2> QED
    BY <1>1, <2>1, <2>2
<1>8. responder' \in {"idle", "stopped"} /\ (responder' = "stopped" => faults > 0)
  BY <1>1, <1>3 DEF StopInv
<1>9. TypeInv'
  <2>1. MainTypes'
    BY <1>2, <1>4, <1>6 DEF MainTypes
  <2>2. ResponseTypes' /\ IndexType'
    <3>1. Len(clientList') \in Nat
      BY <1>6
    <3> QED
      BY <1>1, <1>2, <1>4, <1>7, <1>8, <3>1 DEF ResponseTypes, IndexType
  <2>3. PoolBound'
    BY <1>2, <1>3, NoMoreBusy DEF TypeInv, IsBusy
  <2> QED
    BY <1>2, <1>3, <2>1, <2>2, <2>3
       DEF TypeInv, ClientTypes, SocketTypes, RequestTypes, BoundTypes
<1>10. ListInv(e)' /\ WaitInv' /\ StopInv'
  <2>1. responder' # "stopped" => \A f \in Former : ~In(results', f)
    BY <1>3, <1>5, <1>7, <1>8 DEF ListInv, Stray
  <2>2. ListInv(e)'
    BY <1>2, <1>3, <1>6, <1>7, <2>1 DEF ListInv
  <2> QED
    BY <1>2, <1>3, <1>8, <2>2 DEF WaitInv, StopInv, ResponderSurvives, Trouble
<1>11. ASSUME NEW d \in Clients PROVE ClientInv(d, e)'
  <2>1. ClientInv(d, w)
    BY DEF Invariant
  <2>2. Channel(d)' /\ Turn(d)' /\ Account(d)' /\ Own(d)' /\ Blame(d)'
    BY <1>2, <2>1
       DEF ClientInv, Channel, Turn, RecordTurn, EndTurn, Account, Own, Blame
  <2>3. Place(d)'
    BY <1>2, <1>6, <2>1 DEF ClientInv, Place
  <2>4. Result(d)'
    BY <1>2, <1>7, <2>1 DEF ClientInv, Result
  <2>5. Answered(d) => Answered(d)'
    BY <1>2, <1>7 DEF Answered
  <2>6. Listed(d, e)'
    <3> SUFFICES ASSUME responder' # "stopped", In(tasks, d) \/ request[d] # "none"
                 PROVE  In(clientList', d) \/ Answered(d)' \/ Stray(d, e)'
      BY <1>2 DEF Listed
    <3>1. leftOver # {} /\ leftOver' = leftOver
      BY <1>2, <1>5 DEF Stray
    <3>2. In(clientList, d) \/ Answered(d) \/ d = x
      BY <1>5, <2>1 DEF ClientInv, Listed, Stray
    <3>3. CASE In(clientList, d)
      BY <1>6, <3>1, <3>3 DEF Stray
    <3>4. CASE d = x
      <4>1. eofPublished[d] /\ d \notin pipeline
        BY <1>5, <2>1, <3>4 DEF ClientInv, Result
      <4> QED
        BY <1>2, <1>7, <1>8, <3>4, <4>1 DEF Answered
    <3> QED
      BY <2>5, <3>2, <3>3, <3>4
  <2>7. Budget(d)'
    <3> SUFFICES ASSUME responder' # "stopped",
                        client[d] \in {"endAck", "top", "write", "done", "failed"}
                 PROVE  Len(toClient[d]) + Taken(d)
                          <= (IF request[d] = "over" THEN 1 ELSE 0)
                               + (IF TopIsSent(d)' THEN 1 ELSE 0)
      BY <1>2 DEF Budget, Taken
    <3>1. TopIsSent(d) => TopIsSent(d)'
      BY <2>5 DEF TopIsSent
    <3>2. toClient[d] \in Seq(GatewayMessages) /\ Taken(d) \in Nat
      BY <1>3 DEF TypeInv, SocketTypes, Taken
    <3>3. Budget(d)
      BY <2>1 DEF ClientInv
    <3> QED
      BY <3>1, <3>2, <3>3 DEF Budget
  <2> QED
    BY <2>2, <2>3, <2>4, <2>6, <2>7 DEF ClientInv
<1> QED
  BY <1>9, <1>10, <1>11 DEF Invariant

\* The pop behind the loop that found nobody takes another client, which is the stray
\* then, or stops the handler with the stray's top in the queue.
LEMMA PopBehindLastKeeps ==
    ASSUME NEW w, Invariant(w), PopBehindLast
    PROVE  \E x : Invariant(x)'
<1>1. /\ responder = "pop" /\ ResponseOnly /\ UNCHANGED <<toGateway, toClient>>
      /\ \/ clientIndex \in DOMAIN clientList /\ PopAndAck(clientIndex)
         \/ NackAndStop
  BY DEF PopBehindLast, ResponseOnly
<1>2. CASE clientIndex \in DOMAIN clientList /\ PopAndAck(clientIndex)
  <2> PICK i : i = clientIndex
    OBVIOUS
  <2>1. i \in DOMAIN clientList /\ PopAndAck(i)
    BY <1>2
  <2> PICK e : e = clientList[i]
    OBVIOUS
  <2>2. Invariant(e)'
    BY <1>1, <2>1, PopOfAnotherKeeps
  <2> QED
    BY <2>2
<1>3. CASE NackAndStop
  <2>1. results # <<>> /\ ~In(clientList, Head(results))
    BY <1>1 DEF Invariant, WaitInv
  <2>2. Stray(Head(results), w) /\ In(results, Head(results))
    BY <1>1, <2>1, NobodyIsStray
  <2>3. Trouble
    BY <2>1, <2>2, InToSet DEF Trouble, Stray
  <2>4. Invariant(w)'
    BY <1>1, <1>3, <2>3, NackKeeps
  <2> QED
    BY <2>4
<1> QED
  BY <1>1, <1>2, <1>3

\* The message that the response handler takes from the client is its acknowledgement.
LEMMA ReceiveTopAckKeeps ==
    ASSUME NEW w, Invariant(w), ReceiveTopAck
    PROVE  Invariant(w)'
<1> PICK c : c = clientList[clientIndex]
  OBVIOUS
<1> PICK i : i = clientIndex
  OBVIOUS
<1>1. /\ responder = "ack" /\ toGateway[c] # <<>>
      /\ toGateway' = [toGateway EXCEPT ![c] = Tail(@)]
      /\ PopAndAck(i) /\ ResponseOnly /\ toClient' = toClient
  BY DEF ReceiveTopAck, ResponseOnly
<1>2. SocketTypes /\ IndexType /\ WaitInv
  BY DEF Invariant, TypeInv
<1>3. /\ i \in DOMAIN clientList /\ clientList[i] = c /\ results # <<>> /\ c = Head(results)
  BY <1>1, <1>2 DEF IndexType, WaitInv
<1>4. c \in Clients /\ toGateway[c] = <<Ack>>
  BY <1>1, <1>3, HeadOfResults
<1>5. toGateway'[c] = <<>> /\ \A d \in Clients \ {c} : toGateway'[d] = toGateway[d]
  BY <1>1, <1>2, <1>4, OneMessage DEF SocketTypes
<1>6. SocketTypes'
  BY <1>1, <1>2, <1>4, <1>5, OneMessage DEF SocketTypes
<1>7. responder # "stopped" /\ toGateway'[c] \in {<<>>, toGateway[c]}
  BY <1>1, <1>5
<1> QED
  BY <1>1, <1>3, <1>5, <1>6, <1>7, PopKeeps

\* No acknowledgement will come only from a client that died, or lost its gateway.
LEMMA ReceiveTopAckFailsKeeps ==
    ASSUME NEW w, Invariant(w), ReceiveTopAckFails
    PROVE  Invariant(w)'
<1> PICK c : c = clientList[clientIndex]
  OBVIOUS
<1> PICK i : i = clientIndex
  OBVIOUS
<1>1. /\ responder = "ack" /\ Ended(c) /\ toGateway[c] = <<>>
      /\ PopAndAck(i) \/ NackAndStop
      /\ ResponseOnly /\ toGateway' = toGateway /\ toClient' = toClient
  BY DEF ReceiveTopAckFails, ResponseOnly
<1>2. SocketTypes /\ IndexType /\ WaitInv
  BY DEF Invariant, TypeInv
<1>3. /\ i \in DOMAIN clientList /\ clientList[i] = c /\ results # <<>> /\ c = Head(results)
  BY <1>1, <1>2 DEF IndexType, WaitInv
<1>4. Trouble
  <2>1. client[c] \in {"gone", "lost"}
    BY <1>1, <1>2, <1>3 DEF WaitInv, Ended
  <2>2. c \in Clients
    BY <1>3, HeadOfResults
  <2>3. Blame(c)
    BY <2>2 DEF Invariant, ClientInv
  <2> QED
    BY <2>1, <2>3 DEF Blame, Trouble
<1>5. CASE NackAndStop
  BY <1>1, <1>4, <1>5, NackKeeps
<1>6. CASE PopAndAck(i)
  <2>1. responder # "stopped" /\ toGateway'[c] \in {<<>>, toGateway[c]}
        /\ \A d \in Clients \ {c} : toGateway'[d] = toGateway[d]
    BY <1>1
  <2>2. SocketTypes'
    BY <1>1, <1>2 DEF SocketTypes
  <2> QED
    BY <1>1, <1>3, <1>6, <2>1, <2>2, PopKeeps
<1> QED
  BY <1>1, <1>5, <1>6

-----------------------------------------------------------------------------
(* The invariant holds.                                                    *)

\* There is always one such stray, if any.
AlwaysOne == \E w : Invariant(w)

\* At first no client has connected, and the queue of the results has at most one top of a
\* former client.
LEMMA InitIsRight ==
    ASSUME Init
    PROVE  AlwaysOne
<1>1. /\ client = [c \in Clients |-> "start"] /\ unsent = UploadSize
      /\ output = [c \in Clients |-> {}]
      /\ toGateway = [c \in Clients |-> <<>>] /\ toClient = [c \in Clients |-> <<>>]
      /\ server = "up" /\ backlog = <<>> /\ clientList = <<>> /\ tasks = <<>>
      /\ request = [c \in Clients |-> "none"] /\ link = [c \in Clients |-> "open"]
      /\ published = [c \in Clients |-> 0] /\ eofPublished = [c \in Clients |-> FALSE]
      /\ pipeline = {} /\ responder = "idle" /\ clientIndex = 0 /\ consumerUp = TRUE
      /\ crashes = 0 /\ faults = 0
  BY DEF Init
<1>2. results = <<>> \/ \E f \in Former : results = <<f>>
  BY DEF Init
<1>0. leftOver = ToSet(results)
  BY DEF Init
<1>3. tooLarge \in SUBSET Clients
  BY DEF Init
<1>4. \A x : ~In(<<>>, x)
  BY DEF In
<1>5. /\ results \in Seq(Clients \cup Former) /\ Once(results)
      /\ \A c \in Clients : ~In(results, c)
      /\ leftOver = {} \/ \E f \in Former : leftOver = {f}
      /\ \E w : \A f \in Former : In(results, f) => Stray(f, w)
  <2>1. CASE results = <<>>
    <3>1. leftOver = {}
      BY <1>0, <2>1 DEF ToSet
    <3> QED
      BY <1>4, <2>1, <3>1 DEF Once
  <2>2. ASSUME NEW f \in Former, results = <<f>>
        PROVE  /\ results \in Seq(Clients \cup Former) /\ Once(results)
               /\ \A c \in Clients : ~In(results, c)
               /\ leftOver = {f}
               /\ \A g \in Former : In(results, g) => Stray(g, f)
    <3>1. /\ results \in Seq(Clients \cup Former) /\ DOMAIN results = {1} /\ results[1] = f
      BY <2>2
    <3>2. f \notin Clients
      BY GatewayAssumption
    <3>3. leftOver = {f}
      BY <1>0, <3>1 DEF ToSet
    <3> QED
      BY <3>1, <3>2, <3>3 DEF Once, In, Stray
  <2> QED
    BY <1>2, <2>1, <2>2
<1> PICK w : \A f \in Former : In(results, f) => Stray(f, w)
  BY <1>5
<1>6. PoolBound
  <2>1. {c \in Clients : IsBusy(c)} = {}
    BY <1>1 DEF IsBusy
  <2>2. ResponderProcesses = 1
    BY <1>1 DEF ResponderProcesses
  <2>3. Cardinality({}) = 0
    BY FS_EmptySet
  <2>4. 0 + 1 <= POOL_SIZE
    BY GatewayAssumption
  <2> QED
    BY <2>1, <2>2, <2>3, <2>4 DEF PoolBound
<1>7. TypeInv
  <2>1. ClientTypes
    BY <1>1, GatewayAssumption DEF ClientTypes
  <2>2. SocketTypes
    BY <1>1 DEF SocketTypes
  <2>3. MainTypes /\ RequestTypes
    BY <1>1 DEF MainTypes, RequestTypes, LinkStates
  <2>4. ResponseTypes /\ IndexType /\ BoundTypes
    BY <1>1, <1>3, <1>5 DEF ResponseTypes, IndexType, BoundTypes
  <2> QED
    BY <1>6, <2>1, <2>2, <2>3, <2>4 DEF TypeInv
<1>8. ListInv(w) /\ WaitInv /\ StopInv
  BY <1>1, <1>5 DEF ListInv, Once, WaitInv, StopInv, ResponderSurvives
<1>9. ASSUME NEW c \in Clients PROVE ClientInv(c, w)
  <2>1. /\ client[c] = "start" /\ unsent[c] = UploadSize[c] /\ output[c] = {}
        /\ toGateway[c] = <<>> /\ toClient[c] = <<>> /\ request[c] = "none"
        /\ link[c] = "open" /\ published[c] = 0 /\ ~eofPublished[c]
    BY <1>1
  <2>2. Channel(c) /\ Turn(c) /\ Budget(c) /\ Blame(c)
    BY <2>1, OneMessage DEF Channel, Turn, Budget, Blame
  <2>3. Account(c)
    BY <2>1, OneMessage, GatewayAssumption DEF Account
  <2>4. Own(c)
    BY <2>1 DEF Own
  <2>5. Place(c) /\ Result(c) /\ Listed(c, w)
    BY <1>1, <1>4, <1>5, <2>1 DEF Place, Result, Listed
  <2> QED
    BY <2>2, <2>3, <2>4, <2>5 DEF ClientInv
<1> QED
  BY <1>7, <1>8, <1>9 DEF Invariant, AlwaysOne

\* Every step keeps it.
LEMMA StepIsRight ==
    ASSUME AlwaysOne, [Next]_vars
    PROVE  AlwaysOne'
<1> PICK w : Invariant(w)
  BY DEF AlwaysOne
<1>1. ASSUME NEW c \in Clients, Connect(c) PROVE Invariant(w)'
  BY <1>1, ConnectKeeps
<1>2. ASSUME NEW c \in Clients, ClientStep(c) PROVE Invariant(w)'
  BY <1>2, SendRecordKeeps, SendEndKeeps, ReceiveAckKeeps, ReceiveTopKeeps, WriteTopKeeps,
         LosesGatewayKeeps
     DEF ClientStep
<1>3. ASSUME NEW c \in Clients, Die(c) PROVE Invariant(w)'
  BY <1>3, DieKeeps
<1>4. ASSUME NEW c \in Clients, RequestStep(c) PROVE Invariant(w)'
  BY <1>4, PublishRecordKeeps, PublishEofKeeps, ReceiveFailsKeeps, SendAckKeeps DEF RequestStep
<1>5. ASSUME NEW c \in Clients, ComputeTop(c) PROVE Invariant(w)'
  BY <1>5, ComputeTopKeeps
<1>6. ASSUME NEW c \in Clients, BreakLink(c) PROVE Invariant(w)'
  BY <1>6, BreakLinkKeeps
<1>7. ASSUME Accept PROVE Invariant(w)'
  BY <1>7, AcceptKeeps
<1>8. ASSUME StartRequest PROVE Invariant(w)'
  BY <1>8, StartRequestKeeps
<1>9. ASSUME Terminate PROVE Invariant(w)'
  BY <1>9, TerminateKeeps
<1>10. CASE ResponseStep
  <2>1. CASE PopBehindLast
    BY <2>1, PopBehindLastKeeps DEF AlwaysOne
  <2>2. CASE ~PopBehindLast
    <3>1. Invariant(w)'
      BY <1>10, <2>2, SendTopKeeps, ReceiveTopAckKeeps, ReceiveTopAckFailsKeeps,
         TopDoesNotFitKeeps, FindNobodyKeeps
         DEF ResponseStep
    <3> QED
      BY <3>1 DEF AlwaysOne
  <2> QED
    BY <2>1, <2>2
<1>11. ASSUME LoseConsumer PROVE Invariant(w)'
  BY <1>11, LoseConsumerKeeps
<1>12. ASSUME UNCHANGED vars PROVE Invariant(w)'
  <2>1. TypeInv' /\ ListInv(w)' /\ WaitInv' /\ StopInv'
    BY <1>12 DEF Invariant, TypeInv, ClientTypes, SocketTypes, MainTypes, RequestTypes, PoolBound,
       IsBusy, ResponderProcesses, ResponseTypes, IndexType, BoundTypes, ListInv, Stray, WaitInv,
       StopInv,
       ResponderSurvives, Trouble
  <2>2. ASSUME NEW d \in Clients PROVE ClientInv(d, w)'
    <3>1. SameClient(d) /\ SamePlace(d) /\ SameResult(d) /\ SameResponder(d)
      BY <1>12 DEF SameClient, SamePlace, SameResult, SameResponder
    <3>2. MoreTrouble
      BY <1>12 DEF MoreTrouble, Invariant, TypeInv, BoundTypes
    <3> QED
      BY <3>1, <3>2, OthersKept DEF Invariant
  <2> QED
    BY <2>1, <2>2 DEF Invariant
<1> QED
  BY <1>1, <1>2, <1>3, <1>4, <1>5, <1>6, <1>7, <1>8, <1>9, <1>10, <1>11, <1>12 DEF Next, AlwaysOne

\* So it holds in every state of every behaviour.
LEMMA AlwaysRight == Spec => []AlwaysOne
<1>1. Init => AlwaysOne
  BY InitIsRight
<1>2. AlwaysOne /\ [Next]_vars => AlwaysOne'
  BY StepIsRight
<1> QED
  BY <1>1, <1>2, PTL DEF Spec

-----------------------------------------------------------------------------
(* The theorems.                                                           *)

\* Every variable keeps to its domain; the handlers that run are no more than the pool has
\* processes, the response handler's being free when it has stopped; and client_index is
\* that of a client in the list while the response handler waits (main.py:52-80, 96-120).
THEOREM TypeCorrect == Spec => []TypeOK
<1>1. AlwaysOne => TypeOK
  <2> SUFFICES ASSUME NEW w, Invariant(w) PROVE TypeOK
    BY DEF AlwaysOne
  <2>1. /\ ClientTypes /\ SocketTypes /\ MainTypes /\ RequestTypes /\ PoolBound
        /\ ResponseTypes /\ IndexType /\ BoundTypes
    BY DEF Invariant, TypeInv
  <2>2. \A c \in Clients : unsent[c] \in 0 .. UploadSize[c]
    BY <2>1, GatewayAssumption DEF ClientTypes
  <2>3. Cardinality({c \in Clients : request[c] \in {"receive", "ackRecord", "ackEnd"}})
          + ResponderProcesses <= POOL_SIZE
    BY <2>1 DEF PoolBound, IsBusy
  <2>4. {backlog, clientList, tasks} \subseteq Seq(Clients) /\ server \in {"up", "down"}
    BY <2>1 DEF MainTypes
  <2>5. leftOver \in SUBSET Former
    BY <2>1 DEF ResponseTypes
  <2> QED
    BY <2>1, <2>2, <2>3, <2>4, <2>5 DEF TypeOK, ClientTypes, SocketTypes, RequestTypes,
       ResponseTypes, IndexType, BoundTypes
<1> QED
  BY <1>1, AlwaysRight, PTL

\* Whatever the list does while the response handler waits or is behind its end, and for
\* any number of clients that connect and are answered meanwhile, the top of a client
\* finds it; but for one client at a time, if a former gateway left a top in the queue.
THEOREM ResultAlwaysFinds == Spec => []ResultFindsItsClient
<1>1. AlwaysOne => ResultFindsItsClient
  <2> SUFFICES ASSUME NEW w, Invariant(w), responder # "stopped"
               PROVE  /\ IsInjective(clientList)
                      /\ Cardinality(StrayTops) <= Cardinality(leftOver)
    BY DEF AlwaysOne, ResultFindsItsClient
  <2>1. MainTypes /\ ResponseTypes /\ Once(clientList)
    BY DEF Invariant, TypeInv, ListInv
  <2>2. IsInjective(clientList)
    BY <2>1 DEF Once, IsInjective
  <2>3. ASSUME NEW x \in StrayTops PROVE Stray(x, w)
    <3>1. ~In(clientList, x) /\ (x \in pipeline \/ In(results, x))
      BY InToSet DEF StrayTops
    <3>2. CASE x \in Former
      <4>1. In(results, x)
        BY <2>1, <3>1, <3>2, GatewayAssumption DEF ResponseTypes
      <4> QED
        BY <3>2, <4>1 DEF Invariant, ListInv
    <3>3. CASE x \in Clients
      <4>1. Result(x) /\ Listed(x, w) /\ Channel(x)
        BY <3>3 DEF Invariant, ClientInv
      <4>2. eofPublished[x] /\ request[x] # "none"
        BY <3>1, <4>1 DEF Result, Channel, Ending
      <4> QED
        BY <3>1, <4>1, <4>2 DEF Listed, Answered
    <3>4. x \in Clients \cup Former
      BY <2>1, <3>1 DEF ResponseTypes, In
    <3> QED
      BY <3>2, <3>3, <3>4
  <2>4. CASE StrayTops = {}
    <3>1. IsFiniteSet(leftOver)
      <4>1. CASE leftOver = {}
        BY <4>1, FS_EmptySet
      <4>2. ASSUME NEW f, leftOver = {f} PROVE IsFiniteSet(leftOver)
        BY <4>2, FS_Singleton
      <4> QED
        BY <2>1, <4>1, <4>2 DEF ResponseTypes
    <3>2. Cardinality(leftOver) \in Nat
      BY <3>1, FS_CardinalityType
    <3>3. Cardinality(StrayTops) = 0
      BY <2>4, FS_EmptySet
    <3> QED
      BY <2>2, <3>2, <3>3
  <2>5. CASE StrayTops # {}
    <3>1. StrayTops = {w} /\ leftOver # {}
      BY <2>3, <2>5 DEF Stray
    <3>2. PICK f : leftOver = {f}
      BY <2>1, <3>1 DEF ResponseTypes
    <3>3. Cardinality(StrayTops) = 1 /\ Cardinality(leftOver) = 1
      BY <3>1, <3>2, FS_Singleton
    <3> QED
      BY <2>2, <3>3
  <2> QED
    BY <2>4, <2>5
<1> QED
  BY <1>1, AlwaysRight, PTL

\* A client never gets, or writes, the top of another one (message_handler.py:154 against
\* the loop of lines 52-59).
THEOREM OnlyOwnTop == Spec => []OwnTopOnly
<1>1. AlwaysOne => OwnTopOnly
  BY DEF AlwaysOne, Invariant, ClientInv, Own, OwnTopOnly, Ack
<1> QED
  BY <1>1, AlwaysRight, PTL

\* The process that delivers the tops stops only when a client died, a connection was lost,
\* a top could not be written, or on SIGTERM; or, if a former gateway left a top in the
\* queue, with a top in it that nobody in the list takes (lines 52-77).
THEOREM ResponderStopsInTrouble == Spec => []ResponderSurvives
<1>1. AlwaysOne => ResponderSurvives
  BY DEF AlwaysOne, Invariant, StopInv
<1> QED
  BY <1>1, AlwaysRight, PTL

\* The end of records of a client is behind all its records, unless its connection
\* swallowed some, and nothing of the client is published after it (lines 18-40).
THEOREM EofAlwaysLast == Spec => []EofIsLast
<1>1. AlwaysOne => EofIsLast
  <2> SUFFICES ASSUME NEW w, Invariant(w), NEW c \in Clients, eofPublished[c]
               PROVE  /\ faults = 0 => published[c] = UploadSize[c]
                      /\ request[c] \in {"ackEnd", "over"}
    BY DEF AlwaysOne, EofIsLast
  <2>1. Channel(c) /\ Account(c) /\ RequestTypes
    BY DEF Invariant, ClientInv, TypeInv
  <2>2. unsent[c] = 0 /\ request[c] \in Ending /\ toGateway[c] # <<Rec>>
    BY <2>1 DEF Channel
  <2>3. published[c] \in Nat
    BY <2>1 DEF RequestTypes
  <2> QED
    BY <2>1, <2>2, <2>3 DEF Account, Ending
<1> QED
  BY <1>1, AlwaysRight, PTL

=============================================================================
