--------------------------- MODULE JoinFilter_proofs ---------------------------
(***************************************************************************)
(* The join, for any number of aggregations, clients and failures.         *)
(* Invariant is inductive.  It follows the messages of an aggregation      *)
(* about a client (MessagesInv), and says where a client is: nowhere until *)
(* all its signals came, and then ready, to be sent, in the monitor's hand *)
(* or completed, and in one of these only (PlaceInv); a top that the       *)
(* monitor's send delivered although it raised is the last one, since the  *)
(* connection is then closed (ResultInv).                                  *)
(***************************************************************************)
EXTENDS JoinFilter, FruitTop_proofs

USE DEF queueVars, linkVars, filterVars, workerVars, monitorVars

-----------------------------------------------------------------------------
(* The invariant.                                                          *)

Tables == UNION {[S -> Nat] : S \in SUBSET Fruits}
TopsByAgg == UNION {[A -> Tables] : A \in SUBSET Aggs}

\* The final top of a client, whenever it is made.
FinalTop(c) == TopOf(MergeOf([a \in Aggs |-> PartialTop[a][c]]))

TypeInv ==
    /\ joinQueue \in [Aggs -> [Clients -> Seq(Tables)]]
    /\ coordQueue \in [Aggs -> [Clients -> Nat]]
    /\ aggregation \in [Aggs -> [Clients -> {"working", "topSent", "signalled"}]]
    /\ inputUp \in BOOLEAN /\ coordUp \in [Aggs -> BOOLEAN]
    /\ outLink \in LinkStates
    /\ partialTops \in [Clients -> TopsByAgg]
    /\ completed \in SUBSET Clients /\ finalizing \in SUBSET Clients
    /\ aggsFinished \in [Clients -> SUBSET Aggs]
    /\ ready \in SUBSET Clients
    /\ monitor \in {"scan", "next", "send", "end"}
    /\ toSend \in SUBSET Clients /\ current \in SUBSET Clients
    /\ payload \in Tables
    /\ results \in [Clients -> Seq(Tables)]
    /\ faults \in Nat

MonitorInv ==
    /\ monitor \in {"scan", "next"} <=> current = {}
    /\ monitor = "scan" => toSend = {}
    /\ finalizing = current
    /\ \A c, d \in current : c = d
    /\ \A c \in current : payload = FinalTop(c)

\* One top and one signal of each aggregation, the top first; a top that waits in the
\* queue is not one that came.
MessagesInv ==
    \A a \in Aggs, c \in Clients :
        /\ joinQueue[a][c] \in {<<>>, <<PartialTop[a][c]>>}
        /\ joinQueue[a][c] # <<>> => a \notin Received(c)
        /\ aggregation[a][c] = "working" => joinQueue[a][c] = <<>> /\ a \notin Received(c)
        /\ a \in Received(c) => partialTops[c][a] = PartialTop[a][c]
        /\ aggregation[a][c] # "signalled" => coordQueue[a][c] = 0 /\ a \notin aggsFinished[c]
        /\ coordQueue[a][c] > 0 => coordQueue[a][c] = 1 /\ a \notin aggsFinished[c]

PlaceInv ==
    \A c \in Clients :
        /\ c \in completed \cup ready \cup toSend \cup current <=> aggsFinished[c] = Aggs
        /\ c \in completed => c \notin ready /\ c \notin toSend /\ c \notin current
        /\ c \in ready => c \notin toSend /\ c \notin current
        /\ c \in toSend => c \notin current
        /\ c \in toSend \cup current => Received(c) = Aggs
        /\ c \in completed => Received(c) = {}

ResultInv ==
    \A c \in Clients :
        /\ results[c] \in {<<>>, <<FinalTop(c)>>}
        /\ results[c] # <<>> => /\ aggsFinished[c] = Aggs
                                /\ \/ c \in completed
                                   \/ c \in current /\ monitor = "end"
                                   \/ outLink = "closed"

Invariant == TypeInv /\ MonitorInv /\ MessagesInv /\ PlaceInv /\ ResultInv


-----------------------------------------------------------------------------
(* Lemmas about the data.                                                  *)

\* A table is a member of Tables.
LEMMA TablesAreTables == \A t : t \in Tables <=> IsTable(t)
BY DEF Tables, IsTable

\* The aggregations are finitely many: the barrier is passed when all of them are there.
LEMMA AggsAreFinite ==
    /\ IsFiniteSet(Aggs)
    /\ \A S \in SUBSET Aggs : /\ Cardinality(S) = AGGREGATION_AMOUNT <=> S = Aggs
                              /\ Cardinality(S) >= AGGREGATION_AMOUNT <=> S = Aggs
<1>1. IsFiniteSet(Aggs) /\ Cardinality(Aggs) = AGGREGATION_AMOUNT
  BY FS_Interval, JoinAssumption DEF Aggs
<1>2. ASSUME NEW S \in SUBSET Aggs
      PROVE  /\ Cardinality(S) = AGGREGATION_AMOUNT <=> S = Aggs
             /\ Cardinality(S) >= AGGREGATION_AMOUNT <=> S = Aggs
  <2>1. /\ Cardinality(S) \in Nat /\ Cardinality(S) <= AGGREGATION_AMOUNT
        /\ Cardinality(S) = AGGREGATION_AMOUNT => S = Aggs
    BY <1>1, FS_Subset, FS_CardinalityType
  <2> QED
    BY <1>1, <2>1, JoinAssumption
<1> QED
  BY <1>1, <1>2

\* The tops that came of a client are a function from some of the aggregations.
LEMMA TopsByAggType ==
    \A tops : tops \in TopsByAgg <=> /\ DOMAIN tops \in SUBSET Aggs
                                     /\ tops \in [DOMAIN tops -> Tables]
BY DEF TopsByAgg

\* The partial tops are tables.
LEMMA PartialTopType == \A a \in Aggs, c \in Clients : PartialTop[a][c] \in Tables
BY JoinAssumption, TablesAreTables

\* Merging what came and taking the top gives a table.
LEMMA FinalTopType == \A tops \in TopsByAgg : TopOf(MergeOf(tops)) \in Tables
<1> SUFFICES ASSUME NEW tops \in TopsByAgg PROVE TopOf(MergeOf(tops)) \in Tables
  OBVIOUS
<1>1. IsFiniteSet(DOMAIN tops) /\ \A i \in DOMAIN tops : IsTable(tops[i])
  BY TopsByAggType, AggsAreFinite, FS_Subset, TablesAreTables
<1>2. IsTable(MergeOf(tops))
  BY <1>1, MergeIsTable
<1> QED
  BY <1>2, TopFruitsIsTop, TablesAreTables

\* Queues of one message at most.
LEMMA OneMessage ==
    ASSUME NEW S, NEW m \in S
    PROVE  /\ <<>> \in Seq(S) /\ <<m>> \in Seq(S)
           /\ Append(<<>>, m) = <<m>> /\ Head(<<m>>) = m /\ Tail(<<m>>) = <<>>
           /\ <<m>> # <<>> /\ Len(<<>>) = 0 /\ Len(<<m>>) = 1
OBVIOUS

\* A publish on an open connection is delivered; a closed connection stays so and
\* delivers nothing; one that raises is closed.
LEMMA SendOutcomesType ==
    ASSUME NEW link \in LinkStates, NEW out \in SendOutcomes(link)
    PROVE  /\ out.delivered \in BOOLEAN /\ out.raised \in BOOLEAN
           /\ out.link \in LinkStates
           /\ link = "closed" => out.link = "closed" /\ ~out.delivered
           /\ out.raised => out.link = "closed"
BY DEF SendOutcomes, LinkStates

-----------------------------------------------------------------------------
(* The invariant holds at the beginning and after every step.              *)

\* No client is known yet.
LEMMA InvariantInit == Init => Invariant
<1> SUFFICES ASSUME Init PROVE Invariant
  OBVIOUS
<1> USE DEF Init, JoinInit
<1>1. NoFruits \in Tables /\ NoTops \in TopsByAgg /\ DOMAIN NoTops = {}
  BY DEF Tables, TopsByAgg, NoFruits, NoTops
<1>2. \A c \in Clients : partialTops[c] = NoTops
  BY DEF NoTops
<1>3. partialTops \in [Clients -> TopsByAgg]
  BY <1>1 DEF NoTops
<1>4. TypeInv
  BY <1>1, <1>3 DEF TypeInv, LinkStates
<1>5. Aggs # {}
  BY JoinAssumption DEF Aggs
<1>6. MonitorInv
  BY DEF MonitorInv
<1>7. \A c \in Clients : Received(c) = {}
  BY <1>1, <1>2 DEF Received
<1>8. MessagesInv
  BY <1>7 DEF MessagesInv
<1>9. PlaceInv
  BY <1>5, <1>7 DEF PlaceInv
<1>10. ResultInv
  BY DEF ResultInv
<1> QED
  BY <1>4, <1>6, <1>8, <1>9, <1>10 DEF Invariant

\* An aggregation sends its partial top.
LEMMA AggSendsStep ==
    ASSUME Invariant, NEW a \in Aggs, NEW c \in Clients, AggSends(a, c)
    PROVE  Invariant'
<1> USE DEF Invariant, AggSends
<1>1. joinQueue[a][c] = <<>> /\ PartialTop[a][c] \in Tables
  BY PartialTopType DEF MessagesInv
<1>2. Append(joinQueue[a][c], PartialTop[a][c]) = <<PartialTop[a][c]>>
  BY <1>1, OneMessage
<1>3. /\ joinQueue' \in [Aggs -> [Clients -> Seq(Tables)]]
      /\ \A b \in Aggs, d \in Clients :
           joinQueue'[b][d] = IF b = a /\ d = c THEN <<PartialTop[a][c]>> ELSE joinQueue[b][d]
  BY <1>1, <1>2, OneMessage DEF TypeInv
<1>4. /\ aggregation' \in [Aggs -> [Clients -> {"working", "topSent", "signalled"}]]
      /\ \A b \in Aggs, d \in Clients :
           aggregation'[b][d] = IF b = a /\ d = c THEN "topSent" ELSE aggregation[b][d]
  BY DEF TypeInv
<1>5. TypeInv'
  BY <1>3, <1>4 DEF TypeInv
<1>6. MessagesInv'
  BY <1>3, <1>4 DEF MessagesInv, Received
<1>7. MonitorInv' /\ PlaceInv' /\ ResultInv'
  BY DEF MonitorInv, PlaceInv, ResultInv, Received, FinalTop
<1> QED
  BY <1>5, <1>6, <1>7

\* An aggregation sends its signal.
LEMMA AggSignalsStep ==
    ASSUME Invariant, NEW a \in Aggs, NEW c \in Clients, AggSignals(a, c)
    PROVE  Invariant'
<1> USE DEF Invariant, AggSignals
<1>1. coordQueue[a][c] = 0 /\ a \notin aggsFinished[c]
  BY DEF MessagesInv
<1>2. /\ coordQueue' \in [Aggs -> [Clients -> Nat]]
      /\ \A b \in Aggs, d \in Clients :
           coordQueue'[b][d] = IF b = a /\ d = c THEN 1 ELSE coordQueue[b][d]
  <2>1. coordQueue' = [coordQueue EXCEPT ![a][c] = 1]
    BY <1>1
  <2> QED
    BY <2>1 DEF TypeInv
<1>3. /\ aggregation' \in [Aggs -> [Clients -> {"working", "topSent", "signalled"}]]
      /\ \A b \in Aggs, d \in Clients :
           aggregation'[b][d] = IF b = a /\ d = c THEN "signalled" ELSE aggregation[b][d]
  BY DEF TypeInv
<1>4. TypeInv'
  BY <1>2, <1>3 DEF TypeInv
<1>5. MessagesInv'
  BY <1>1, <1>2, <1>3 DEF MessagesInv, Received
<1>6. MonitorInv' /\ PlaceInv' /\ ResultInv'
  BY DEF MonitorInv, PlaceInv, ResultInv, Received, FinalTop
<1> QED
  BY <1>4, <1>5, <1>6

\* The data listener takes a partial top.
LEMMA ProcessPartialTopStep ==
    ASSUME Invariant, NEW a \in Aggs, NEW c \in Clients, ProcessPartialTop(a, c)
    PROVE  Invariant'
<1> USE DEF Invariant, ProcessPartialTop
<1> DEFINE With(tops) == [i \in DOMAIN tops \cup {a} |-> IF i = a THEN PartialTop[a][c] ELSE tops[i]]
<1>1. /\ joinQueue[a][c] = <<PartialTop[a][c]>> /\ a \notin Received(c)
      /\ PartialTop[a][c] \in Tables
  BY PartialTopType DEF MessagesInv
<1>2. Head(joinQueue[a][c]) = PartialTop[a][c] /\ Tail(joinQueue[a][c]) = <<>>
  BY <1>1, OneMessage
<1>3. /\ joinQueue' \in [Aggs -> [Clients -> Seq(Tables)]]
      /\ \A b \in Aggs, d \in Clients :
           joinQueue'[b][d] = IF b = a /\ d = c THEN <<>> ELSE joinQueue[b][d]
  BY <1>2, OneMessage, <1>1 DEF TypeInv
<1>4. aggregation[a][c] # "working"
  BY <1>1, OneMessage DEF MessagesInv
<1>5. c \notin toSend /\ c \notin current
  BY <1>1 DEF PlaceInv
<1>6. CASE c \in completed
  <2>1. partialTops' = partialTops
    BY <1>6
  <2>2. TypeInv'
    BY <1>3, <2>1 DEF TypeInv
  <2>3. MessagesInv'
    BY <1>3, <2>1 DEF MessagesInv, Received
  <2>4. MonitorInv' /\ PlaceInv' /\ ResultInv'
    BY <2>1 DEF MonitorInv, PlaceInv, ResultInv, Received, FinalTop
  <2> QED
    BY <2>2, <2>3, <2>4
<1>7. CASE c \notin completed
  <2>1. partialTops' = [partialTops EXCEPT ![c] = With(partialTops[c])]
    BY <1>1, <1>2, <1>7
  <2>2. partialTops[c] \in TopsByAgg
    BY DEF TypeInv
  <2>3. /\ With(partialTops[c]) \in TopsByAgg
        /\ DOMAIN With(partialTops[c]) = Received(c) \cup {a}
        /\ With(partialTops[c])[a] = PartialTop[a][c]
        /\ \A i \in Received(c) : i # a => With(partialTops[c])[i] = partialTops[c][i]
    BY <1>1, <2>2, TopsByAggType DEF Received
  <2> HIDE DEF With
  <2>4. /\ partialTops' \in [Clients -> TopsByAgg]
        /\ \A d \in Clients : partialTops'[d] = IF d = c THEN With(partialTops[c])
                                                         ELSE partialTops[d]
    BY <2>1, <2>3 DEF TypeInv
  <2>5. \A d \in Clients : Received(d)' = IF d = c THEN Received(c) \cup {a} ELSE Received(d)
    BY <2>3, <2>4 DEF Received
  <2>6. TypeInv'
    BY <1>3, <2>4 DEF TypeInv
  <2>7. MessagesInv'
    <3>1. ASSUME NEW b \in Aggs, NEW d \in Clients, b \in Received(d)'
          PROVE  partialTops'[d][b] = PartialTop[b][d] /\ joinQueue'[b][d] = <<>>
      <4>1. CASE b = a /\ d = c
        BY <1>3, <2>3, <2>4, <4>1
      <4>2. CASE ~(b = a /\ d = c)
        <5>1. b \in Received(d) /\ joinQueue'[b][d] = joinQueue[b][d]
          BY <1>3, <2>5, <3>1, <4>2
        <5>2. partialTops'[d][b] = partialTops[d][b]
          BY <2>3, <2>4, <4>2, <5>1
        <5> QED
          BY <5>1, <5>2 DEF MessagesInv
      <4> QED
        BY <4>1, <4>2
    <3>2. \A b \in Aggs, d \in Clients : joinQueue'[b][d] \in {<<>>, <<PartialTop[b][d]>>}
      BY <1>3 DEF MessagesInv
    <3>3. ASSUME NEW b \in Aggs, NEW d \in Clients, aggregation'[b][d] = "working"
          PROVE  joinQueue'[b][d] = <<>> /\ b \notin Received(d)'
      BY <1>3, <1>4, <2>5, <3>3 DEF MessagesInv
    <3>4. \A b \in Aggs, d \in Clients :
            /\ aggregation'[b][d] # "signalled" =>
                   coordQueue'[b][d] = 0 /\ b \notin aggsFinished'[d]
            /\ coordQueue'[b][d] > 0 => coordQueue'[b][d] = 1 /\ b \notin aggsFinished'[d]
      BY DEF MessagesInv
    <3>5. ASSUME NEW b \in Aggs, NEW d \in Clients
          PROVE  joinQueue'[b][d] # <<>> => b \notin Received(d)'
      BY <3>1
    <3> HIDE DEF Invariant, ProcessPartialTop
    <3> QED
      BY <3>1, <3>2, <3>3, <3>4, <3>5 DEF MessagesInv
  <2>8. PlaceInv'
    BY <1>5, <1>7, <2>5 DEF PlaceInv
  <2>9. MonitorInv' /\ ResultInv'
    BY DEF MonitorInv, ResultInv, FinalTop
  <2> QED
    BY <2>6, <2>7, <2>8, <2>9
<1> QED
  BY <1>6, <1>7

\* A coordination listener takes a signal; the last one makes the client ready.
LEMMA ProcessSignalStep ==
    ASSUME Invariant, NEW a \in Aggs, NEW c \in Clients, ProcessSignal(a, c)
    PROVE  Invariant'
<1> USE DEF Invariant, ProcessSignal
<1> DEFINE signals == aggsFinished[c] \cup {a}
<1>1. /\ coordQueue[a][c] = 1 /\ a \notin aggsFinished[c]
      /\ aggregation[a][c] = "signalled"
  BY DEF MessagesInv
<1>2. /\ coordQueue' \in [Aggs -> [Clients -> Nat]]
      /\ \A b \in Aggs, d \in Clients :
           coordQueue'[b][d] = IF b = a /\ d = c THEN 0 ELSE coordQueue[b][d]
  <2>1. coordQueue' = [coordQueue EXCEPT ![a][c] = 0]
    BY <1>1
  <2> QED
    BY <2>1 DEF TypeInv
<1>3. signals \in SUBSET Aggs
  BY DEF TypeInv
<1>4. ready' = IF signals = Aggs THEN ready \cup {c} ELSE ready
  BY <1>3, AggsAreFinite DEF AllSignalled
<1>5. aggsFinished' = [aggsFinished EXCEPT ![c] = signals]
  OBVIOUS
<1> HIDE DEF signals
<1>6. /\ aggsFinished' \in [Clients -> SUBSET Aggs]
      /\ \A d \in Clients : aggsFinished'[d] = IF d = c THEN signals ELSE aggsFinished[d]
  BY <1>3, <1>5 DEF TypeInv
<1>7. aggsFinished[c] # Aggs
  BY <1>1
<1>8. c \notin completed /\ c \notin ready /\ c \notin toSend /\ c \notin current
  BY <1>7 DEF PlaceInv
<1>9. TypeInv'
  BY <1>2, <1>4, <1>6 DEF TypeInv
<1>10. MonitorInv'
  BY DEF MonitorInv, FinalTop
<1>11. MessagesInv'
  BY <1>1, <1>2, <1>6 DEF MessagesInv, Received, signals
<1>12. PlaceInv'
  BY <1>4, <1>6, <1>8 DEF PlaceInv, Received
<1>13. ResultInv'
  BY <1>6, <1>7 DEF ResultInv, FinalTop
<1> QED
  BY <1>9, <1>10, <1>11, <1>12, <1>13

\* The monitor takes the ready clients of which every top came.
LEMMA ScanStep == Invariant /\ Scan => Invariant'
<1> SUFFICES ASSUME Invariant, Scan PROVE Invariant'
  OBVIOUS
<1> USE DEF Invariant, Scan
<1>1. \A c \in Clients : Received(c) \in SUBSET Aggs
  BY TopsByAggType DEF TypeInv, Received
<1>2. \A c \in Clients : AllReceived(c) <=> Received(c) = Aggs
  BY <1>1, AggsAreFinite DEF AllReceived
<1>3. current = {} /\ monitor' = "next"
  BY DEF MonitorInv
<1>4. TypeInv'
  BY DEF TypeInv
<1>5. MonitorInv'
  BY <1>3 DEF MonitorInv
<1>6. MessagesInv'
  BY DEF MessagesInv, Received
<1>7. PlaceInv'
  <2>1. toSend = {}
    BY DEF MonitorInv
  <2> QED
    BY <1>2, <1>3, <2>1 DEF PlaceInv, Received
<1>8. ResultInv'
  BY <1>3 DEF ResultInv, FinalTop
<1> QED
  BY <1>4, <1>5, <1>6, <1>7, <1>8

\* The monitor makes the final top of the next client.
LEMMA BeginFinalTopStep ==
    ASSUME Invariant, NEW c \in Clients, BeginFinalTop(c)
    PROVE  Invariant'
<1> USE DEF Invariant, BeginFinalTop
<1>1. /\ current = {} /\ finalizing = {} /\ c \notin completed /\ c \notin ready
      /\ Received(c) = Aggs
  BY DEF MonitorInv, PlaceInv
<1>2. ~AlreadySent(c)
  BY <1>1 DEF AlreadySent
<1>3. /\ finalizing' = {c} /\ current' = {c} /\ monitor' = "send"
      /\ payload' = TopOf(MergeOf(partialTops[c]))
      /\ toSend' = toSend \ {c}
  BY <1>1, <1>2
<1>4. partialTops[c] \in TopsByAgg
  BY DEF TypeInv
<1>5. partialTops[c] = [a \in Aggs |-> PartialTop[a][c]]
  <2>1. \A a \in Aggs : partialTops[c][a] = PartialTop[a][c]
    BY <1>1 DEF MessagesInv
  <2>2. partialTops[c] = [a \in Aggs |-> partialTops[c][a]]
    BY <1>1, <1>4, TopsByAggType DEF Received
  <2> QED
    BY <2>1, <2>2
<1>6. payload' = FinalTop(c) /\ payload' \in Tables
  BY <1>3, <1>4, <1>5, FinalTopType DEF FinalTop
<1>7. TypeInv'
  BY <1>3, <1>6 DEF TypeInv
<1>8. MonitorInv'
  BY <1>3, <1>6 DEF MonitorInv, FinalTop
<1>9. MessagesInv'
  BY DEF MessagesInv, Received
<1>10. PlaceInv'
  BY <1>1, <1>3 DEF PlaceInv, Received
<1>11. ResultInv'
  BY <1>1, <1>3 DEF ResultInv, FinalTop
<1> QED
  BY <1>7, <1>8, <1>9, <1>10, <1>11

\* The scan is over.
LEMMA EndScanStep == Invariant /\ EndScan => Invariant'
<1> SUFFICES ASSUME Invariant, EndScan PROVE Invariant'
  OBVIOUS
<1> USE DEF Invariant, EndScan
<1>1. TypeInv'
  BY DEF TypeInv
<1>2. MonitorInv'
  BY DEF MonitorInv
<1>3. MessagesInv' /\ PlaceInv'
  BY DEF MessagesInv, PlaceInv, Received
<1>4. ResultInv'
  BY DEF ResultInv, FinalTop, MonitorInv
<1> QED
  BY <1>1, <1>2, <1>3, <1>4

\* The monitor sends the final top: it is delivered at most once, since the send was
\* the first, or the one before closed the connection.
LEMMA SendFinalTopStep ==
    ASSUME Invariant, NEW c \in Clients, SendFinalTop(c)
    PROVE  Invariant'
<1> USE DEF Invariant, SendFinalTop
<1>1. PICK out \in SendOutcomes(outLink) :
        /\ outLink' = out.link
        /\ results' = IF out.delivered THEN [results EXCEPT ![c] = Append(@, payload)] ELSE results
        /\ \/ /\ ~out.raised
              /\ monitor' = "end"
              /\ UNCHANGED <<finalizing, ready, current>>
           \/ /\ out.raised
              /\ finalizing' = Discarded(finalizing, c)
              /\ ready' = ReadyAgain(c)
              /\ current' = {}
              /\ monitor' = "next"
  OBVIOUS
<1>2. /\ out.delivered \in BOOLEAN /\ out.raised \in BOOLEAN /\ out.link \in LinkStates
      /\ outLink = "closed" => out.link = "closed" /\ ~out.delivered
      /\ out.raised => out.link = "closed"
  BY SendOutcomesType DEF TypeInv
<1>3. /\ current = {c} /\ finalizing = {c} /\ payload = FinalTop(c) /\ payload \in Tables
      /\ c \notin toSend
  BY DEF MonitorInv, TypeInv, PlaceInv
<1>4. aggsFinished[c] = Aggs /\ Received(c) = Aggs /\ c \notin completed
  BY <1>3 DEF PlaceInv
<1>5. outLink = "closed" \/ results[c] = <<>>
  BY <1>4 DEF ResultInv
<1>6. /\ results' \in [Clients -> Seq(Tables)]
      /\ \A d \in Clients : d # c => results'[d] = results[d]
      /\ results'[c] \in {results[c], <<FinalTop(c)>>}
      /\ outLink = "closed" => results' = results
  <2>1. CASE out.delivered
    <3>1. results[c] = <<>> /\ Append(results[c], payload) = <<FinalTop(c)>>
      BY <1>2, <1>3, <1>5, <2>1, OneMessage
    <3>2. results' = [results EXCEPT ![c] = <<FinalTop(c)>>]
      BY <1>1, <2>1, <3>1
    <3> QED
      BY <1>2, <1>3, <2>1, <3>2, OneMessage DEF TypeInv
  <2>2. CASE ~out.delivered
    BY <1>1, <2>2 DEF TypeInv
  <2> QED
    BY <2>1, <2>2
<1>7. CASE ~out.raised
  <2>1. monitor' = "end" /\ UNCHANGED <<finalizing, ready, current>>
    BY <1>1, <1>7
  <2>2. TypeInv'
    BY <1>1, <1>2, <1>6, <2>1 DEF TypeInv
  <2>3. MonitorInv'
    BY <1>3, <2>1 DEF MonitorInv, FinalTop
  <2>4. MessagesInv' /\ PlaceInv'
    BY <2>1 DEF MessagesInv, PlaceInv, Received
  <2>5. ASSUME NEW d \in Clients
        PROVE  /\ results'[d] \in {<<>>, <<FinalTop(d)>>}
               /\ results'[d] # <<>> => /\ aggsFinished[d] = Aggs
                                        /\ \/ d \in completed
                                           \/ d \in current' /\ monitor' = "end"
                                           \/ outLink' = "closed"
    <3>1. CASE d = c
      BY <1>3, <1>4, <1>6, <2>1, <3>1 DEF ResultInv
    <3>2. CASE d # c
      BY <1>1, <1>2, <1>3, <1>6, <3>2 DEF ResultInv
    <3> QED
      BY <3>1, <3>2
  <2>6. ResultInv'
    BY <2>5 DEF ResultInv, FinalTop
  <2> QED
    BY <2>2, <2>3, <2>4, <2>6
<1>8. CASE out.raised
  <2>1. /\ finalizing' = {} /\ current' = {} /\ ready' = ready \cup {c} /\ monitor' = "next"
        /\ outLink' = "closed"
    BY <1>1, <1>2, <1>3, <1>8 DEF Discarded, ReadyAgain
  <2>2. TypeInv'
    BY <1>1, <1>2, <1>6, <2>1 DEF TypeInv
  <2>3. MonitorInv'
    BY <2>1 DEF MonitorInv
  <2>4. MessagesInv'
    BY DEF MessagesInv, Received
  <2>5. PlaceInv'
    BY <1>3, <1>4, <2>1 DEF PlaceInv, Received
  <2>6. ResultInv'
    <3>1. \A d \in Clients : /\ results'[d] \in {<<>>, <<FinalTop(d)>>}
                             /\ results'[d] # <<>> => aggsFinished[d] = Aggs
      BY <1>4, <1>6 DEF ResultInv
    <3> QED
      BY <2>1, <3>1 DEF ResultInv, FinalTop
  <2> QED
    BY <2>2, <2>3, <2>4, <2>5, <2>6
<1> QED
  BY <1>2, <1>7, <1>8

\* The monitor marks the client completed, and forgets its tops.
LEMMA EndFinalTopStep ==
    ASSUME Invariant, NEW c \in Clients, EndFinalTop(c)
    PROVE  Invariant'
<1> USE DEF Invariant, EndFinalTop
<1>1. current = {c} /\ finalizing = {c} /\ c \notin completed /\ c \notin ready /\ c \notin toSend
  BY DEF MonitorInv, PlaceInv
<1>2. finalizing' = {} /\ current' = {} /\ completed' = completed \cup {c} /\ monitor' = "next"
  BY <1>1 DEF Discarded
<1>3. NoTops \in TopsByAgg /\ DOMAIN NoTops = {}
  BY DEF TopsByAgg, NoTops
<1>4. /\ partialTops' \in [Clients -> TopsByAgg]
      /\ \A d \in Clients : partialTops'[d] = IF d = c THEN NoTops ELSE partialTops[d]
  BY <1>3 DEF TypeInv, WithoutTops
<1>5. \A d \in Clients : Received(d)' = IF d = c THEN {} ELSE Received(d)
  BY <1>3, <1>4 DEF Received
<1>6. aggsFinished[c] = Aggs /\ Received(c) = Aggs
  BY <1>1 DEF PlaceInv
<1>7. TypeInv'
  BY <1>2, <1>4 DEF TypeInv
<1>8. MonitorInv'
  BY <1>2 DEF MonitorInv
<1>9. MessagesInv'
  BY <1>4, <1>5 DEF MessagesInv
<1>10. PlaceInv'
  BY <1>1, <1>2, <1>5, <1>6 DEF PlaceInv
<1>11. ResultInv'
  BY <1>1, <1>2 DEF ResultInv, FinalTop
<1> QED
  BY <1>7, <1>8, <1>9, <1>10, <1>11

\* A connection fails: an open one only, so that a closed one is closed for ever.
LEMMA FailureStep ==
    ASSUME Invariant, LoseInput \/ BreakOutput \/ \E a \in Aggs : LoseCoordination(a)
    PROVE  Invariant'
<1> USE DEF Invariant, LoseInput, BreakOutput, LoseCoordination
<1>1. /\ UNCHANGED <<joinQueue, coordQueue, aggregation, partialTops, completed, finalizing,
                     aggsFinished, ready, monitor, toSend, current, payload, results>>
      /\ outLink' = outLink \/ (outLink = "open" /\ outLink' = "broken")
  OBVIOUS
<1>2. TypeInv'
  <2>1. inputUp' \in BOOLEAN /\ coordUp' \in [Aggs -> BOOLEAN] /\ faults' \in Nat
    <3>1. CASE LoseInput
      <4>1. inputUp' = FALSE /\ coordUp' = coordUp /\ faults' = faults + 1
        BY <3>1, Zenon
      <4>2. coordUp \in [Aggs -> BOOLEAN] /\ faults' \in Nat
        BY <3>1 DEF TypeInv
      <4> HIDE DEF Invariant, LoseInput, BreakOutput, LoseCoordination
      <4> QED
        BY <4>1, <4>2, Zenon
    <3>2. ASSUME NEW a \in Aggs, LoseCoordination(a)
          PROVE  inputUp' \in BOOLEAN /\ coordUp' \in [Aggs -> BOOLEAN] /\ faults' \in Nat
      BY <3>2 DEF TypeInv
    <3>3. CASE BreakOutput
      <4>1. UNCHANGED <<inputUp, coordUp>> /\ faults' = faults + 1
        BY <3>3
      <4> QED
        BY <4>1 DEF TypeInv
    <3> HIDE DEF LoseInput, BreakOutput, LoseCoordination
    <3> QED
      BY <3>1, <3>2, <3>3
  <2> QED
    BY <1>1, <2>1 DEF TypeInv, LinkStates
<1> QED
  BY <1>1, <1>2 DEF MonitorInv, MessagesInv, PlaceInv, ResultInv, Received, FinalTop

\* Every step keeps the invariant.
LEMMA InvariantStep == Invariant /\ [Next]_vars => Invariant'
<1> SUFFICES ASSUME Invariant, [Next]_vars PROVE Invariant'
  OBVIOUS
<1>1. CASE UNCHANGED vars
  BY <1>1 DEF vars, Invariant, TypeInv, MonitorInv, MessagesInv, PlaceInv, ResultInv, Received,
     FinalTop
<1>2. CASE \E a \in Aggs, c \in Clients : AggSends(a, c) \/ AggSignals(a, c)
  BY <1>2, AggSendsStep, AggSignalsStep
<1>3. CASE DataListener
  BY <1>3, ProcessPartialTopStep DEF DataListener
<1>4. CASE \E a \in Aggs : CoordinationListener(a)
  BY <1>4, ProcessSignalStep DEF CoordinationListener
<1>5. CASE Monitor
  BY <1>5, ScanStep, EndScanStep, BeginFinalTopStep, SendFinalTopStep, EndFinalTopStep DEF Monitor
<1>6. CASE LoseInput \/ BreakOutput \/ \E a \in Aggs : LoseCoordination(a)
  BY <1>6, FailureStep
<1> QED
  BY <1>1, <1>2, <1>3, <1>4, <1>5, <1>6 DEF Next, JoinStep

\* The invariant holds in every state.
LEMMA InvariantHolds == Spec => []Invariant
<1>1. Init => Invariant
  BY InvariantInit
<1>2. Invariant /\ [Next]_vars => Invariant'
  BY InvariantStep
<1> QED
  BY <1>1, <1>2, PTL DEF Spec

-----------------------------------------------------------------------------
(* The theorems.                                                           *)

\* Every variable keeps to its domain, and a client is being finalized exactly while
\* the monitor is sending its final top; in particular what the join sends is a table
\* of fruits and amounts, whatever the aggregations sent.
THEOREM TypeCorrect == Spec => []TypeOK
<1>1. Invariant => TypeOK
  <2> SUFFICES ASSUME Invariant PROVE TypeOK
    OBVIOUS
  <2>1. \A q \in Seq(Tables) : \A i \in DOMAIN q : IsTable(q[i])
    BY TablesAreTables
  <2>2. \A c \in Clients : /\ Received(c) \subseteq Aggs
                           /\ \A a \in Received(c) : IsTable(partialTops[c][a])
    BY TopsByAggType, TablesAreTables DEF Invariant, TypeInv, Received
  <2> QED
    BY <2>1, <2>2, TablesAreTables DEF TypeOK, Invariant, TypeInv, MonitorInv
<1> QED
  BY <1>1, InvariantHolds, PTL

\* A client gets one final top at most, however often its send raised and was done
\* again, made when every aggregation had signalled and from the top of each of them.
THEOREM FinalTopIsRight == Spec => []FinalTopIsExact
<1>1. Invariant => FinalTopIsExact
  <2> SUFFICES ASSUME Invariant, NEW c \in Clients
               PROVE  /\ Len(results[c]) <= 1
                      /\ \A i \in DOMAIN results[c] :
                           /\ \A a \in Aggs : aggregation[a][c] = "signalled"
                           /\ results[c][i] = FinalTop(c)
    BY DEF FinalTopIsExact, FinalTop
  <2>1. CASE results[c] = <<>>
    BY <2>1
  <2>2. CASE results[c] # <<>>
    <3>1. results[c] = <<FinalTop(c)>> /\ aggsFinished[c] = Aggs
      BY <2>2 DEF Invariant, ResultInv
    <3>2. \A a \in Aggs : aggregation[a][c] = "signalled"
      BY <3>1 DEF Invariant, MessagesInv
    <3> QED
      BY <3>1, <3>2
  <2> QED
    BY <2>1, <2>2
<1> QED
  BY <1>1, InvariantHolds, PTL

\* When the partial tops of a client are the tops of the parts of one table, whatever the
\* parts, what its client gets is the top of the table.
THEOREM AnswerIsTop ==
    ASSUME NEW c \in Clients, NEW t, IsTable(t),
           NEW part \in [Aggs -> SUBSET DOMAIN t], UNION {part[a] : a \in Aggs} = DOMAIN t,
           \A a, b \in Aggs : a # b => part[a] \cap part[b] = {},
           \A a \in Aggs : PartialTop[a][c] = TopOf(Restricted(t, part[a]))
    PROVE  Spec => [](\A i \in DOMAIN results[c] : results[c][i] = TopOf(t))
<1>1. [a \in Aggs |-> PartialTop[a][c]] = [a \in Aggs |-> TopOf(Restricted(t, part[a]))]
  OBVIOUS
<1>2. TopOf(MergeOf([a \in Aggs |-> TopOf(Restricted(t, part[a]))])) = TopOf(t)
  BY AggsAreFinite, JoinTopIsTop
<1>3. TopOf(MergeOf([a \in Aggs |-> PartialTop[a][c]])) = TopOf(t)
  BY <1>1, <1>2
<1>4. FinalTopIsExact => \A i \in DOMAIN results[c] : results[c][i] = TopOf(t)
  BY <1>3 DEF FinalTopIsExact
<1> QED
  BY <1>4, FinalTopIsRight, PTL

\* Whatever the order of tops, signals, scans and sends that raise, a client of which
\* every signal came is completed, in the monitor's hand or will be found by it.
THEOREM NobodyIsForgotten == Spec => []NoLostWakeup
<1>1. Invariant => NoLostWakeup
  BY DEF Invariant, PlaceInv, NoLostWakeup
<1> QED
  BY <1>1, InvariantHolds, PTL

\* A completed client stays so, and is not accumulated or sent again.
THEOREM CompletedStaysFinal == Spec => CompletedIsFinal
<1> DEFINE Kept == \A c \in completed : /\ c \in completed' /\ c \notin finalizing'
                                        /\ Received(c)' = {}
                                        /\ results'[c] = results[c]
<1>1. Invariant /\ Invariant' /\ [Next]_vars => [Kept]_vars
  <2> SUFFICES ASSUME Invariant, Invariant', Next, NEW c \in completed
               PROVE  c \in completed' /\ results'[c] = results[c]
    BY DEF Invariant, TypeInv, MonitorInv, PlaceInv
  <2>1. c \in Clients /\ c \notin current
    BY DEF Invariant, TypeInv, PlaceInv
  <2>2. CASE \E a \in Aggs, d \in Clients : AggSends(a, d) \/ AggSignals(a, d)
    BY <2>2 DEF AggSends, AggSignals
  <2>3. CASE DataListener
    BY <2>3 DEF DataListener, ProcessPartialTop
  <2>4. CASE \E a \in Aggs : CoordinationListener(a)
    BY <2>4 DEF CoordinationListener, ProcessSignal
  <2>5. CASE Scan \/ EndScan \/ \E d \in Clients : BeginFinalTop(d)
    BY <2>5 DEF Scan, EndScan, BeginFinalTop
  <2>6. ASSUME NEW d \in Clients, SendFinalTop(d) PROVE c \in completed' /\ results'[c] = results[c]
    BY <2>1, <2>6 DEF SendFinalTop, Invariant, TypeInv
  <2>7. CASE \E d \in Clients : EndFinalTop(d)
    BY <2>7 DEF EndFinalTop
  <2>8. CASE LoseInput \/ BreakOutput \/ \E a \in Aggs : LoseCoordination(a)
    BY <2>8 DEF LoseInput, BreakOutput, LoseCoordination
  <2> QED
    BY <2>2, <2>3, <2>4, <2>5, <2>6, <2>7, <2>8 DEF Next, JoinStep, Monitor
<1> QED
  BY <1>1, InvariantHolds, PTL DEF Spec, CompletedIsFinal

=============================================================================
