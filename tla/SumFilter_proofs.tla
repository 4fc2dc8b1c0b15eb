--------------------------- MODULE SumFilter_proofs ---------------------------
(***************************************************************************)
(* The Sums, for any number of them, of clients, records, fruits and       *)
(* aggregations, with any number of failures.  First what they may lose:   *)
(* Invariant is inductive; it says what each thread has in hand            *)
(* (ThreadInv), that the DATA of a client are over when its EOF is seen    *)
(* (SettledInv), which records can still be lost (LossInv), and that the   *)
(* Sum that took an EOF loses none (TakerInv).  The last three need the    *)
(* data connections: a message that is redelivered when one is lost breaks *)
(* them.                                                                   *)
(*                                                                         *)
(* Then what they send, in five parts that each have an invariant: no      *)
(* record is counted twice; a resend adds one record at most; on the       *)
(* channel to an aggregation come each fruit once and then one EOF; no     *)
(* record is gone without a trace; and all are sent but a few.             *)
(***************************************************************************)
EXTENDS SumFilter, SequenceTheorems, FiniteSetTheorems, TLAPS

USE DEF gatewayVars, queueVars, threadVars, filterVars, localVars, outputVars, boundVars

\* The constants' types, and the members of the small sets the model uses.
LEMMA ConstantTypes ==
    /\ ClientOf \in [Records -> Clients]
    /\ FruitOf \in [Records -> Fruits]
    /\ TargetAggregation \in [Fruits -> Aggs]
BY SumAssumption

\* The two threads and the control points, as members of their sets.
LEMMA Labels ==
    /\ "data" \in Threads /\ "control" \in Threads
    /\ \A t \in Threads : t = "data" \/ t = "control"
    /\ "idle" \in Pcs /\ "received" \in Pcs /\ "counted" \in Pcs /\ "processed" \in Pcs
    /\ "waiting" \in Pcs /\ "finalize" \in Pcs /\ "sending" \in Pcs /\ "broadcast" \in Pcs
BY DEF Threads, Pcs

\* A publish on an open connection is delivered, and a broken one stays broken.
LEMMA SendOutcomesType ==
    ASSUME NEW link \in LinkStates, NEW out \in SendOutcomes(link)
    PROVE  /\ out.delivered \in BOOLEAN /\ out.raised \in BOOLEAN
           /\ out.link \in LinkStates
           /\ link = "open" => out.delivered /\ ~out.raised /\ out.link = "open"
           /\ out.link = "open" => link = "open"
BY DEF SendOutcomes, LinkStates

\* Every operation on bags gives a bag, and the messages are built from them.
LEMMA BagType ==
    /\ \A bag \in Bag : \A c \in Clients : EntryOf(bag, c) \in Bag /\ WithoutEntry(bag, c) \in Bag
    /\ \A bag \in Bag : \A f \in Fruits : AmountOf(bag, f) \in Bag
    /\ \A bag \in Bag : \A r \in Records : Added(bag, r) \in Bag
    /\ \A bag \in Bag : FruitsIn(bag) \in SUBSET Fruits
    /\ \A bag \in Bag : \A f \in Fruits : PartialSum(f, bag) \in Messages
    /\ EofMessage \in Messages
BY ConstantTypes DEF Bag, EntryOf, WithoutEntry, AmountOf, Added, FruitsIn, PartialSum,
   Messages, PartialSums, EofMessage

\* What the operations on bags do to each record.
LEMMA BagValues ==
    /\ \A bag, c : \A r \in Records :
         /\ EntryOf(bag, c)[r] = IF ClientOf[r] = c THEN bag[r] ELSE 0
         /\ WithoutEntry(bag, c)[r] = IF ClientOf[r] = c THEN 0 ELSE bag[r]
    /\ \A bag, f : \A r \in Records : AmountOf(bag, f)[r] = IF FruitOf[r] = f THEN bag[r] ELSE 0
    /\ \A bag \in Bag : \A r, q \in Records :
         Added(bag, r)[q] = IF q = r THEN bag[q] + 1 ELSE bag[q]
BY DEF EntryOf, WithoutEntry, AmountOf, Added, Bag

\* The part of TypeOK about the channels to the aggregations, and what one
\* publish does to it.
SendTypeOK == /\ sent \in [Sums -> [Clients -> [Aggs -> Seq(Messages)]]]
              /\ dataLink \in [Sums -> [Aggs -> LinkStates]]

\* One publish keeps the channels and the connections typed.
LEMMA SendTyped ==
    ASSUME SendTypeOK, NEW s \in Sums, NEW c \in Clients, NEW a \in Aggs,
           NEW m \in Messages, NEW out, SendTo(s, c, a, m, out)
    PROVE  SendTypeOK'
<1>1. out.link \in LinkStates
  BY SendOutcomesType DEF SendTo, SendTypeOK
<1>2. dataLink' \in [Sums -> [Aggs -> LinkStates]]
  BY <1>1 DEF SendTo, SendTypeOK
<1>3. sent' \in [Sums -> [Clients -> [Aggs -> Seq(Messages)]]]
  <2>1. CASE sent' = sent
    BY <2>1 DEF SendTypeOK
  <2>2. CASE sent' = [sent EXCEPT ![s][c][a] = Append(@, m)]
    <3>1. Append(sent[s][c][a], m) \in Seq(Messages)
      BY DEF SendTypeOK
    <3> QED
      BY <2>2, <3>1 DEF SendTypeOK
  <2> QED
    BY <2>1, <2>2 DEF SendTo
<1> QED
  BY <1>2, <1>3 DEF SendTypeOK

\* The part of TypeOK that giving an EOF back can disturb.
AbortTypeOK ==
    /\ pc \in [Sums -> [Threads -> Pcs]]
    /\ eof \in [Sums -> [Threads -> SUBSET eofSent]]
    /\ finalizing \in [Sums -> SUBSET Clients]
    /\ eofReady \in SUBSET eofSent
    /\ ctrlQueue \in [Sums -> [Clients -> Nat]]
    /\ nacks \in Nat
    /\ \A s \in Sums, c \in Clients : ctrlQueue[s][c] > 0 => c \in eofSent

\* Giving an EOF back keeps the threads and the queues typed.
LEMMA AbortTyped ==
    ASSUME AbortTypeOK, eofSent' = eofSent, NEW s \in Sums, NEW t \in Threads,
           NEW c \in Clients, c \in eof[s][t], Nack(s, t, c),
           finalizing' \in [Sums -> SUBSET Clients]
    PROVE  AbortTypeOK'
<1> USE Labels DEF AbortTypeOK
<1>1. pc' \in [Sums -> [Threads -> Pcs]] /\ nacks' \in Nat
  BY DEF Nack
<1>2. eof' \in [Sums -> [Threads -> SUBSET eofSent']]
  BY DEF Nack
<1>3. c \in eofSent
  OBVIOUS
<1>4. eofReady' \in SUBSET eofSent'
  BY <1>3 DEF Nack
<1>5. /\ ctrlQueue' \in [Sums -> [Clients -> Nat]]
      /\ \A q \in Sums, d \in Clients : ctrlQueue'[q][d] > 0 => d \in eofSent'
  <2>1. CASE ctrlQueue' = ctrlQueue
    BY <2>1
  <2>2. CASE ctrlQueue' = [ctrlQueue EXCEPT ![s][c] = @ + 1]
    BY <1>3, <2>2
  <2> QED
    BY <2>1, <2>2 DEF Nack
<1> QED
  BY <1>1, <1>2, <1>4, <1>5

\* The initial state is well typed, and every step keeps it so.
LEMMA TypeInit == Init => TypeOK
BY Labels, SumAssumption DEF Init, TypeOK, NoRecords, Bag, LinkStates, Aggs

\* Every action keeps every variable in its domain.
LEMMA TypeStep == TypeOK /\ [Next]_vars => TypeOK'
<1> SUFFICES ASSUME TypeOK, [Next]_vars PROVE TypeOK'
  OBVIOUS
<1> USE ConstantTypes, Labels DEF TypeOK
<1>1. ASSUME NEW r \in Records, PublishData(r) PROVE TypeOK'
  BY <1>1 DEF PublishData
<1>2. ASSUME NEW c \in Clients, PublishEof(c) PROVE TypeOK'
  BY <1>2 DEF PublishEof
<1>3. ASSUME NEW s \in Sums, Start(s) PROVE TypeOK'
  BY <1>3 DEF Start
<1>4. ASSUME NEW s \in Sums, NEW r \in Records, DeliverData(s, r) PROVE TypeOK'
  BY <1>4 DEF DeliverData
<1>5. ASSUME NEW s \in Sums, NEW r \in Records, SkipData(s, r) PROVE TypeOK'
  BY <1>5 DEF SkipData
<1>6. ASSUME NEW s \in Sums, NEW r \in Records, CountData(s, r) PROVE TypeOK'
  BY <1>6 DEF CountData
<1>7. ASSUME NEW s \in Sums, NEW r \in Records, ProcessData(s, r) PROVE TypeOK'
  <2>1. pc' \in [Sums -> [Threads -> Pcs]]
    BY <1>7 DEF ProcessData
  <2>2. CASE /\ dropped' = [dropped EXCEPT ![s] = @ \cup {r}]
             /\ UNCHANGED amounts
    BY <1>7, <2>1, <2>2 DEF ProcessData
  <2>3. CASE /\ amounts' = [amounts EXCEPT ![s] = Added(@, r)]
             /\ UNCHANGED dropped
    <3>1. amounts' \in [Sums -> Bag]
      BY <2>3, BagType
    <3> QED
      BY <1>7, <2>1, <2>3, <3>1 DEF ProcessData
  <2> QED
    BY <1>7, <2>2, <2>3 DEF ProcessData
<1>8. ASSUME NEW s \in Sums, NEW r \in Records, ReleaseData(s, r) PROVE TypeOK'
  BY <1>8 DEF ReleaseData, Released
<1>9. ASSUME NEW s \in Sums, NEW c \in Clients, DeliverEof(s, c) PROVE TypeOK'
  BY <1>9 DEF DeliverEof
<1>10. ASSUME NEW s \in Sums, NEW c \in Clients, DeliverControl(s, c) PROVE TypeOK'
  BY <1>10 DEF DeliverControl
<1>11. ASSUME NEW s \in Sums, NEW t \in Threads, NEW c \in Clients, WaitForClientIdle(s, t, c)
       PROVE  TypeOK'
  BY <1>11 DEF WaitForClientIdle
<1>12. ASSUME NEW s \in Sums, NEW t \in Threads, NEW c \in Clients, FinalizeSkip(s, t, c)
       PROVE  TypeOK'
  BY <1>12 DEF FinalizeSkip, Ack
<1>13. ASSUME NEW s \in Sums, NEW t \in Threads, NEW c \in Clients, FinalizeBegin(s, t, c)
       PROVE  TypeOK'
  <2>1. EntryOf(amounts[s], c) \in Bag /\ FruitsIn(EntryOf(amounts[s], c)) \in SUBSET Fruits
    BY BagType
  <2>2. snap' \in [Sums -> [Threads -> Bag]] /\ left' \in [Sums -> [Threads -> SUBSET Fruits]]
    BY <1>13, <2>1 DEF FinalizeBegin
  <2>3. nextAgg' \in [Sums -> [Threads -> 0 .. AGGREGATION_AMOUNT]]
    BY <1>13, SumAssumption DEF FinalizeBegin
  <2>4. /\ finalizing' \in [Sums -> SUBSET Clients]
        /\ pc' \in [Sums -> [Threads -> Pcs]]
    BY <1>13 DEF FinalizeBegin
  <2> QED
    BY <1>13, <2>2, <2>3, <2>4 DEF FinalizeBegin
<1>14. ASSUME NEW s \in Sums, NEW t \in Threads, NEW c \in Clients, FinalizeEnd(s, t, c)
       PROVE  TypeOK'
  <2>1. WithoutEntry(amounts[s], c) \in Bag
    BY BagType
  <2>2. amounts' \in [Sums -> Bag] /\ active' \in [Sums -> [Clients -> Nat]]
    BY <1>14, <2>1 DEF FinalizeEnd
  <2>3. finalizing' \in [Sums -> SUBSET Clients] /\ finished' \in [Sums -> SUBSET Clients]
    BY <1>14 DEF FinalizeEnd
  <2>4. dropped' \in [Sums -> SUBSET Records]
    BY <1>14 DEF FinalizeEnd, RecordsOf
  <2>5. /\ pc' \in [Sums -> [Threads -> Pcs]]
        /\ eof' \in [Sums -> [Threads -> SUBSET eofSent]]
    <3>1. CASE Ack(s, t)
      BY <3>1 DEF Ack
    <3>2. CASE pc' = [pc EXCEPT ![s][t] = "broadcast"] /\ UNCHANGED eof
      BY <3>2
    <3> QED
      BY <1>14, <3>1, <3>2 DEF FinalizeEnd
  <2> QED
    BY <1>14, <2>2, <2>3, <2>4, <2>5 DEF FinalizeEnd
<1>15. ASSUME NEW s \in Sums, NEW t \in Threads, NEW c \in Clients, NEW f \in Fruits,
              SendPartialSum(s, t, c, f)
       PROVE  TypeOK'
  <2> DEFINE a == TargetAggregation[f]
             m == PartialSum(f, AmountOf(snap[s][t], f))
  <2>1. a \in Aggs /\ m \in Messages
    BY BagType
  <2>2. PICK out \in SendOutcomes(dataLink[s][a]) : SendTo(s, c, a, m, out)
    BY <1>15 DEF SendPartialSum
  <2>3. SendTypeOK'
    BY <2>1, <2>2, SendTyped DEF SendTypeOK
  <2>4. CASE /\ left' = [left EXCEPT ![s][t] = @ \ {f}]
             /\ UNCHANGED <<pc, eof, finalizing, eofReady, ctrlQueue, nacks>>
    <3>1. left' \in [Sums -> [Threads -> SUBSET Fruits]]
      BY <2>4
    <3> QED
      BY <1>15, <2>3, <2>4, <3>1 DEF SendPartialSum, SendTypeOK
  <2>5. CASE AbortFinalize(s, t, c) /\ UNCHANGED left
    <3>1. AbortTypeOK'
      BY <1>15, <2>5, AbortTyped DEF SendPartialSum, AbortFinalize, AbortTypeOK, AtEof
    <3> QED
      BY <1>15, <2>3, <2>5, <3>1 DEF SendPartialSum, SendTypeOK, AbortTypeOK
  <2> QED
    BY <1>15, <2>4, <2>5 DEF SendPartialSum
<1>16. ASSUME NEW s \in Sums, NEW t \in Threads, NEW c \in Clients, SendEof(s, t, c)
       PROVE  TypeOK'
  <2> DEFINE a == nextAgg[s][t]
  <2>1. a \in Aggs /\ EofMessage \in Messages
    BY <1>16, BagType DEF SendEof
  <2>2. PICK out \in SendOutcomes(dataLink[s][a]) : SendTo(s, c, a, EofMessage, out)
    BY <1>16 DEF SendEof
  <2>3. SendTypeOK'
    BY <2>1, <2>2, SendTyped DEF SendTypeOK
  <2>4. CASE /\ nextAgg' = [nextAgg EXCEPT ![s][t] = @ + 1]
             /\ UNCHANGED <<pc, eof, finalizing, eofReady, ctrlQueue, nacks>>
    <3> AGGREGATION_AMOUNT \in Nat
      BY SumAssumption
    <3>1. a + 1 \in 0 .. AGGREGATION_AMOUNT
      BY <2>1 DEF Aggs
    <3>2. nextAgg' \in [Sums -> [Threads -> 0 .. AGGREGATION_AMOUNT]]
      BY <2>4, <3>1
    <3> QED
      BY <1>16, <2>3, <2>4, <3>2 DEF SendEof, SendTypeOK
  <2>5. CASE AbortFinalize(s, t, c) /\ UNCHANGED nextAgg
    <3>1. AbortTypeOK'
      BY <1>16, <2>5, AbortTyped DEF SendEof, AbortFinalize, AbortTypeOK, AtEof
    <3> QED
      BY <1>16, <2>3, <2>5, <3>1 DEF SendEof, SendTypeOK, AbortTypeOK
  <2> QED
    BY <1>16, <2>4, <2>5 DEF SendEof
<1>17. ASSUME NEW s \in Sums, NEW c \in Clients, BroadcastEof(s, c) PROVE TypeOK'
  <2>1. ctrlLink' \in [Sums -> LinkStates]
    BY <1>17, SendOutcomesType DEF BroadcastEof
  <2>2. Broadcast(c) \in [Sums -> [Clients -> Nat]]
    BY DEF Broadcast
  <2>3. \A q \in Sums, d \in Clients : Broadcast(c)[q][d] > 0 => ctrlQueue[q][d] > 0 \/ d = c
    BY DEF Broadcast
  <2>4. c \in eofSent
    BY <1>17 DEF BroadcastEof, AtEof
  <2>5. CASE Nack(s, "data", c)
    <3>1. AbortTypeOK'
      BY <1>17, <2>5, AbortTyped DEF BroadcastEof, AbortTypeOK, AtEof
    <3> QED
      BY <1>17, <2>1, <3>1 DEF BroadcastEof, AbortTypeOK
  <2>6. CASE Ack(s, "data")
    <3>1. /\ ctrlQueue' \in [Sums -> [Clients -> Nat]]
          /\ \A q \in Sums, d \in Clients : ctrlQueue'[q][d] > 0 => d \in eofSent
      BY <1>17, <2>2, <2>3, <2>4 DEF BroadcastEof, Nack
    <3>2. eofReady' \in SUBSET eofSent /\ nacks' \in Nat
      BY <1>17, <2>4 DEF BroadcastEof, Nack
    <3>3. /\ pc' \in [Sums -> [Threads -> Pcs]]
          /\ eof' \in [Sums -> [Threads -> SUBSET eofSent]]
      BY <2>6 DEF Ack
    <3> QED
      BY <1>17, <2>1, <3>1, <3>2, <3>3 DEF BroadcastEof
  <2> QED
    BY <1>17, <2>5, <2>6 DEF BroadcastEof
<1>18. ASSUME NEW s \in Sums, NEW t \in Threads, LoseConsumer(s, t) PROVE TypeOK'
  <2>1. /\ pending' \in SUBSET published /\ eofReady' \in SUBSET eofSent
        /\ faults' \in Nat
    BY <1>18 DEF LoseConsumer
  <2>2. /\ ctrlQueue' \in [Sums -> [Clients -> Nat]]
        /\ \A q \in Sums, d \in Clients : ctrlQueue'[q][d] > 0 => d \in eofSent
    <3>1. CASE ctrlQueue' = ctrlQueue
      BY <3>1
    <3>2. CASE ctrlQueue' = [ctrlQueue EXCEPT ![s] = [d \in Clients |-> 0]]
      BY <3>2
    <3> QED
      BY <1>18, <3>1, <3>2 DEF LoseConsumer
  <2>3. consumer' \in [Sums -> [Threads -> {"down", "up", "lost"}]]
    BY <1>18 DEF LoseConsumer
  <2> QED
    BY <1>18, <2>1, <2>2, <2>3 DEF LoseConsumer
<1>19. ASSUME NEW s \in Sums, NEW a \in Aggs, BreakDataLink(s, a) PROVE TypeOK'
  <2>1. dataLink' \in [Sums -> [Aggs -> LinkStates]] /\ faults' \in Nat
    BY <1>19 DEF BreakDataLink, LinkStates
  <2> QED
    BY <1>19, <2>1 DEF BreakDataLink
<1>20. ASSUME NEW s \in Sums, BreakCtrlLink(s) PROVE TypeOK'
  <2>1. ctrlLink' \in [Sums -> LinkStates] /\ faults' \in Nat
    BY <1>20 DEF BreakCtrlLink, LinkStates
  <2> QED
    BY <1>20, <2>1 DEF BreakCtrlLink
<1>21. ASSUME UNCHANGED vars PROVE TypeOK'
  BY <1>21 DEF vars
<1> QED
  BY <1>1, <1>2, <1>3, <1>4, <1>5, <1>6, <1>7, <1>8, <1>9, <1>10, <1>11, <1>12, <1>13,
     <1>14, <1>15, <1>16, <1>17, <1>18, <1>19, <1>20, <1>21
     DEF Next, DataThread, ControlThread, ProcessEof, Fault, Rest

\* Every variable stays in its domain; the counters of DATA are never negative.
THEOREM TypeCorrect == Spec => []TypeOK
BY TypeInit, TypeStep, PTL DEF Spec

-----------------------------------------------------------------------------
\* What the two sending actions do to the threads: they go on, or they give the
\* EOF back and stop finalizing the client.
Continues == UNCHANGED <<pc, eof, finalizing, eofReady, ctrlQueue>>
Aborts(s, t, c) ==
    /\ pc' = [pc EXCEPT ![s][t] = "idle"]
    /\ eof' = [eof EXCEPT ![s][t] = {}]
    /\ finalizing' = [finalizing EXCEPT ![s] = @ \ {c}]
    /\ \/ UNCHANGED ctrlQueue
       \/ ctrlQueue' = [ctrlQueue EXCEPT ![s][c] = @ + 1] /\ t = "control"
Sends(s, t, c) ==
    /\ Finalizes(s, t, c)
    /\ UNCHANGED <<gatewayVars, pending, consumer, data, amounts, active, finished, snap,
                   dropped>>
    /\ Continues \/ Aborts(s, t, c)

\* SendPartialSum and SendEof are steps of the form Sends.
LEMMA SendsStep ==
    ASSUME NEW s \in Sums, NEW t \in Threads, NEW c \in Clients,
           (\E f \in Fruits : SendPartialSum(s, t, c, f)) \/ SendEof(s, t, c)
    PROVE  Sends(s, t, c)
<1>1. ASSUME NEW f \in Fruits, SendPartialSum(s, t, c, f) PROVE Sends(s, t, c)
  BY <1>1 DEF SendPartialSum, AtEof, Finalizes, AbortFinalize, Nack, Sends, Continues, Aborts
<1>2. CASE SendEof(s, t, c)
  BY <1>2 DEF SendEof, AtEof, Finalizes, AbortFinalize, Nack, Sends, Continues, Aborts
<1> QED
  BY <1>1, <1>2

\* The steps of the system, for the proofs by cases: those of the data thread on a
\* DATA message, those on an EOF, and those that touch no thread.
DataStep(s, r) == \/ DeliverData(s, r) \/ SkipData(s, r) \/ CountData(s, r)
                  \/ ProcessData(s, r) \/ ReleaseData(s, r)
EofStep(s, t, c) == \/ WaitForClientIdle(s, t, c) \/ FinalizeSkip(s, t, c)
                    \/ FinalizeBegin(s, t, c) \/ Sends(s, t, c) \/ FinalizeEnd(s, t, c)
DeliveryStep(s, c) == \/ DeliverEof(s, c) \/ DeliverControl(s, c) \/ BroadcastEof(s, c)
OutsideStep ==
    \/ \E r \in Records : PublishData(r)
    \/ \E c \in Clients : PublishEof(c)
    \/ \E s \in Sums : Start(s) \/ BreakCtrlLink(s)
    \/ \E s \in Sums, a \in Aggs : BreakDataLink(s, a)
    \/ \E s \in Sums, t \in Threads : LoseConsumer(s, t)
    \/ UNCHANGED vars

\* Every step is of one of these four kinds.
LEMMA NextCases ==
    ASSUME [Next]_vars
    PROVE  \/ \E s \in Sums, r \in Records : DataStep(s, r)
           \/ \E s \in Sums, t \in Threads, c \in Clients : EofStep(s, t, c)
           \/ \E s \in Sums, c \in Clients : DeliveryStep(s, c)
           \/ OutsideStep
<1>1. ASSUME NEW s \in Sums, DataThread(s)
      PROVE  \/ \E r \in Records : DataStep(s, r)
             \/ \E c \in Clients : DeliveryStep(s, c)
  BY <1>1 DEF DataThread, DataStep, DeliveryStep
<1>2. ASSUME NEW s \in Sums, ControlThread(s) PROVE \E c \in Clients : DeliveryStep(s, c)
  BY <1>2 DEF ControlThread, DeliveryStep
<1>3. ASSUME NEW s \in Sums, NEW t \in Threads, ProcessEof(s, t)
      PROVE  \E c \in Clients : EofStep(s, t, c)
  BY <1>3, SendsStep DEF ProcessEof, EofStep
<1>4. ASSUME Fault \/ Rest \/ UNCHANGED vars PROVE OutsideStep
  BY <1>4 DEF Fault, Rest, OutsideStep
<1> QED
  BY <1>1, <1>2, <1>3, <1>4 DEF Next, OutsideStep

\* The gateway, the broker and the failures touch no thread and no filter field.
LEMMA OutsideFrame ==
    ASSUME OutsideStep
    PROVE  UNCHANGED <<threadVars, filterVars, localVars, sent, dropped>>
BY DEF OutsideStep, PublishData, PublishEof, Start, LoseConsumer, BreakDataLink,
       BreakCtrlLink, vars

\* One message at a time per thread, one finalizing thread per client.
LEMMA ThreadStep == TypeOK /\ ThreadInv /\ [Next]_vars => ThreadInv'
<1> SUFFICES ASSUME TypeOK, ThreadInv, [Next]_vars PROVE ThreadInv'
  OBVIOUS
<1> USE ConstantTypes, Labels DEF TypeOK, ThreadInv, HandlesData, HandlesEof, Finalizes
<1>1. CASE OutsideStep
  BY <1>1, OutsideFrame
<1>2. ASSUME NEW s \in Sums, NEW r \in Records, DeliverData(s, r) PROVE ThreadInv'
  BY <1>2 DEF DeliverData, Listening
<1>3. ASSUME NEW s \in Sums, NEW r \in Records, SkipData(s, r) PROVE ThreadInv'
  BY <1>3 DEF SkipData, IsFinished
<1>4. ASSUME NEW s \in Sums, NEW r \in Records, CountData(s, r) PROVE ThreadInv'
  BY <1>4 DEF CountData
<1>5. ASSUME NEW s \in Sums, NEW r \in Records, ProcessData(s, r) PROVE ThreadInv'
  <2>1. CASE IsFinished(s, ClientOf[r])
    BY <1>5, <2>1 DEF ProcessData, IsFinished
  <2>2. CASE ~IsFinished(s, ClientOf[r])
    <3>1. amounts' = [amounts EXCEPT ![s][r] = @ + 1] /\ dropped' = dropped
      BY <1>5, <2>2 DEF ProcessData, Added
    <3>2. \A q \in Sums, x \in Records : ClientOf[x] \in finished[q] => amounts'[q][x] = 0
      BY <2>2, <3>1 DEF IsFinished, Bag
    <3> QED
      BY <1>5, <3>1, <3>2 DEF ProcessData
  <2> QED
    BY <2>1, <2>2
<1>6. ASSUME NEW s \in Sums, NEW r \in Records, ReleaseData(s, r) PROVE ThreadInv'
  BY <1>6 DEF ReleaseData
<1>7. ASSUME NEW s \in Sums, NEW c \in Clients, DeliverEof(s, c) PROVE ThreadInv'
  BY <1>7 DEF DeliverEof, Listening
<1>8. ASSUME NEW s \in Sums, NEW c \in Clients, DeliverControl(s, c) PROVE ThreadInv'
  BY <1>8 DEF DeliverControl, Listening
<1>9. ASSUME NEW s \in Sums, NEW t \in Threads, NEW c \in Clients, WaitForClientIdle(s, t, c)
      PROVE  ThreadInv'
  BY <1>9 DEF WaitForClientIdle, AtEof
<1>10. ASSUME NEW s \in Sums, NEW t \in Threads, NEW c \in Clients, FinalizeSkip(s, t, c)
       PROVE  ThreadInv'
  BY <1>10 DEF FinalizeSkip, AtEof, Ack
<1>11. ASSUME NEW s \in Sums, NEW t \in Threads, NEW c \in Clients, FinalizeBegin(s, t, c)
       PROVE  ThreadInv'
  BY <1>11 DEF FinalizeBegin, AtEof, AlreadyFinalized
<1>12. ASSUME NEW s \in Sums, NEW t \in Threads, NEW c \in Clients, FinalizeEnd(s, t, c)
       PROVE  ThreadInv'
  <2>1. c \in finalizing[s] /\ c \in eof[s][t] /\ pc[s][t] = "sending"
    BY <1>12 DEF FinalizeEnd, AtEof
  <2>2. \A d \in eof[s][t] : d = c
    BY <2>1
  <2>3. \A u \in Threads, d \in Clients : Finalizes(s, u, d) /\ d # c => u # t
    BY <2>2
  <2>4. /\ finalizing' = [finalizing EXCEPT ![s] = @ \ {c}]
        /\ finished' = [finished EXCEPT ![s] = @ \cup {c}]
    BY <1>12 DEF FinalizeEnd
  <2>5. \A q \in Sums, r \in Records : ClientOf[r] \in finished'[q] => amounts'[q][r] = 0
    <3>0. amounts' = [amounts EXCEPT ![s] = WithoutEntry(@, c)]
      BY <1>12 DEF FinalizeEnd
    <3>1. /\ amounts'[s] = WithoutEntry(amounts[s], c)
          /\ \A q \in Sums \ {s} : amounts'[q] = amounts[q]
      BY <3>0
    <3>2. \A r \in Records : amounts'[s][r] = IF ClientOf[r] = c THEN 0 ELSE amounts[s][r]
      BY <3>1, BagValues
    <3>3. /\ finished'[s] = finished[s] \cup {c}
          /\ \A q \in Sums \ {s} : finished'[q] = finished[q]
      BY <2>4
    <3>4. \A q \in Sums, r \in Records : ClientOf[r] \in finished[q] => amounts[q][r] = 0
      OBVIOUS
    <3> HIDE DEF TypeOK, ThreadInv
    <3>5. \A r \in Records : ClientOf[r] \in finished'[s] => amounts'[s][r] = 0
      BY <3>2, <3>3, <3>4
    <3> QED
      BY <3>1, <3>3, <3>4, <3>5
  <2>6. \A q \in Sums : \A r \in dropped'[q] : ClientOf[r] \in finished'[q]
    <3>1. \A q \in Sums : \A r \in dropped'[q] : r \in dropped[q] \/ (q = s /\ ClientOf[r] = c)
      <4>1. dropped' = [dropped EXCEPT ![s] = @ \cup
                            {r \in RecordsOf(c) : amounts[s][r] > snap[s][t][r]}]
        BY <1>12 DEF FinalizeEnd
      <4>2. dropped'[s] = dropped[s] \cup {r \in RecordsOf(c) : amounts[s][r] > snap[s][t][r]}
        BY <4>1
      <4>3. \A q \in Sums \ {s} : dropped'[q] = dropped[q]
        BY <4>1
      <4> QED
        BY <4>2, <4>3 DEF RecordsOf
    <3>2. \A q \in Sums : finished[q] \subseteq finished'[q] /\ c \in finished'[s]
      BY <2>4
    <3> QED
      BY <3>1, <3>2
  <2>7. \A q \in Sums : finalizing'[q] \cap finished'[q] = {}
    BY <2>4
  <2>8. CASE t = "control" /\ Ack(s, t)
    <3>1. /\ pc' = [pc EXCEPT ![s]["control"] = "idle"]
          /\ eof' = [eof EXCEPT ![s]["control"] = {}]
          /\ data' = data
      BY <1>12, <2>8 DEF Ack, FinalizeEnd
    <3> QED
      BY <2>1, <2>2, <2>4, <2>5, <2>6, <2>7, <2>8, <3>1
  <2>9. CASE t = "data" /\ pc' = [pc EXCEPT ![s][t] = "broadcast"] /\ UNCHANGED eof
    <3>1. pc' = [pc EXCEPT ![s]["data"] = "broadcast"] /\ eof' = eof /\ data' = data
      BY <1>12, <2>9 DEF FinalizeEnd
    <3> QED
      BY <2>1, <2>2, <2>4, <2>5, <2>6, <2>7, <2>9, <3>1
  <2> QED
    BY <1>12, <2>8, <2>9 DEF FinalizeEnd
<1>13. ASSUME NEW s \in Sums, NEW t \in Threads, NEW c \in Clients, Sends(s, t, c)
       PROVE  ThreadInv'
  <2>1. CASE Continues
    BY <1>13, <2>1 DEF Sends, Continues
  <2>2. CASE Aborts(s, t, c)
    <3>1. UNCHANGED <<data, amounts, finished, dropped>>
      BY <1>13 DEF Sends
    <3>2. \A d \in eof[s][t] : d = c
      BY <1>13 DEF Sends
    <3>3. c \in finalizing[s] /\ pc[s][t] = "sending"
      BY <1>13 DEF Sends
    <3>4. /\ pc' = [pc EXCEPT ![s][t] = "idle"]
          /\ eof' = [eof EXCEPT ![s][t] = {}]
          /\ finalizing' = [finalizing EXCEPT ![s] = @ \ {c}]
      BY <2>2 DEF Aborts
    <3>5. \A q \in Sums, u \in Threads, d \in Clients :
            Finalizes(q, u, d)' => Finalizes(q, u, d) /\ ~(q = s /\ d = c)
      <4>1. CASE t = "data"
        BY <1>13, <3>2, <3>4, <4>1 DEF Sends
      <4>2. CASE t = "control"
        BY <1>13, <3>2, <3>4, <4>2 DEF Sends
      <4> QED
        BY <4>1, <4>2
    <3>6. \A q \in Sums, u \in Threads, d \in Clients :
            Finalizes(q, u, d)' => d \in finalizing'[q]
      BY <3>4, <3>5
    <3>7. \A q \in Sums, d \in Clients :
            ~(Finalizes(q, "data", d)' /\ Finalizes(q, "control", d)')
      BY <3>5
    <3>8. \A q \in Sums : /\ finalizing'[q] \cap finished'[q] = {}
                          /\ data'[q] # {} => HandlesData(q)'
                          /\ pc'[q]["data"] = "broadcast" => eof'[q]["data"] \subseteq finished'[q]
      BY <3>1, <3>3, <3>4
    <3>9. \A q \in Sums : \A u \in Threads : /\ eof'[q][u] # {} => HandlesEof(q, u)'
                                            /\ \A x, y \in eof'[q][u] : x = y
      BY <3>4
    <3>10. \A q \in Sums : pc'[q]["control"] \in {"idle", "waiting", "finalize", "sending"}
      BY <3>4
    <3> QED
      BY <3>1, <3>6, <3>7, <3>8, <3>9, <3>10
  <2> QED
    BY <1>13, <2>1, <2>2 DEF Sends
<1>14. ASSUME NEW s \in Sums, NEW c \in Clients, BroadcastEof(s, c) PROVE ThreadInv'
  <2>1. /\ UNCHANGED <<data, amounts, finalizing, finished, dropped>>
        /\ pc' = [pc EXCEPT ![s]["data"] = "idle"]
        /\ eof' = [eof EXCEPT ![s]["data"] = {}]
        /\ pc[s]["data"] = "broadcast"
    BY <1>14 DEF BroadcastEof, Ack, Nack, AtEof
  <2> QED
    BY <2>1
<1> QED
  BY <1>1, <1>2, <1>3, <1>4, <1>5, <1>6, <1>7, <1>8, <1>9, <1>10, <1>11, <1>12, <1>13, <1>14,
     NextCases DEF DataStep, EofStep, DeliveryStep

\* Counters: only the data thread between its two locked regions keeps one up.
LEMMA CounterStep == TypeOK /\ ThreadInv /\ CounterSettles /\ [Next]_vars => CounterSettles'
<1> SUFFICES ASSUME TypeOK, ThreadInv, CounterSettles, [Next]_vars PROVE CounterSettles'
  OBVIOUS
<1>0. /\ active \in [Sums -> [Clients -> Nat]]
      /\ pc \in [Sums -> [Threads -> Pcs]]
      /\ data \in [Sums -> SUBSET Records]
      /\ \A s \in Sums : \A q, r \in data[s] : q = r
  BY DEF TypeOK, ThreadInv
<1> USE <1>0, ConstantTypes, Labels DEF CounterSettles
<1>1. CASE OutsideStep
  BY <1>1, OutsideFrame
<1>2. ASSUME NEW s \in Sums, NEW r \in Records, DeliverData(s, r) PROVE CounterSettles'
  BY <1>2 DEF DeliverData, Listening
<1>3. ASSUME NEW s \in Sums, NEW r \in Records, SkipData(s, r) PROVE CounterSettles'
  BY <1>3 DEF SkipData
<1>4. ASSUME NEW s \in Sums, NEW r \in Records, CountData(s, r) PROVE CounterSettles'
  BY <1>4 DEF CountData, RecordsOf
<1>5. ASSUME NEW s \in Sums, NEW r \in Records, ProcessData(s, r) PROVE CounterSettles'
  BY <1>5 DEF ProcessData
<1>6. ASSUME NEW s \in Sums, NEW r \in Records, ReleaseData(s, r) PROVE CounterSettles'
  BY <1>6 DEF ReleaseData, Released, RecordsOf
<1>7. ASSUME NEW s \in Sums, NEW c \in Clients, DeliverEof(s, c) PROVE CounterSettles'
  BY <1>7 DEF DeliverEof, Listening
<1>8. ASSUME NEW s \in Sums, NEW c \in Clients, DeliverControl(s, c) PROVE CounterSettles'
  BY <1>8 DEF DeliverControl
<1>9. ASSUME NEW s \in Sums, NEW t \in Threads, NEW c \in Clients, WaitForClientIdle(s, t, c)
      PROVE  CounterSettles'
  BY <1>9 DEF WaitForClientIdle, AtEof
<1>10. ASSUME NEW s \in Sums, NEW t \in Threads, NEW c \in Clients, FinalizeSkip(s, t, c)
       PROVE  CounterSettles'
  BY <1>10 DEF FinalizeSkip, AtEof, Ack
<1>11. ASSUME NEW s \in Sums, NEW t \in Threads, NEW c \in Clients, FinalizeBegin(s, t, c)
       PROVE  CounterSettles'
  BY <1>11 DEF FinalizeBegin, AtEof
<1>12. ASSUME NEW s \in Sums, NEW t \in Threads, NEW c \in Clients, FinalizeEnd(s, t, c)
       PROVE  CounterSettles'
  <2>1. /\ active' = [active EXCEPT ![s][c] = 0] /\ data' = data
        /\ pc[s][t] = "sending"
        /\ \/ pc' = [pc EXCEPT ![s][t] = "idle"]
           \/ pc' = [pc EXCEPT ![s][t] = "broadcast"]
    BY <1>12 DEF FinalizeEnd, AtEof, Ack
  <2> QED
    BY <2>1
<1>13. ASSUME NEW s \in Sums, NEW t \in Threads, NEW c \in Clients, Sends(s, t, c)
       PROVE  CounterSettles'
  <2>1. /\ UNCHANGED <<active, data>> /\ pc[s][t] = "sending"
        /\ UNCHANGED pc \/ pc' = [pc EXCEPT ![s][t] = "idle"]
    BY <1>13 DEF Sends, Finalizes, Continues, Aborts
  <2>2. CASE UNCHANGED pc
    BY <2>1, <2>2
  <2>3. CASE pc' = [pc EXCEPT ![s][t] = "idle"]
    BY <2>1, <2>3
  <2> QED
    BY <2>1, <2>2, <2>3
<1>14. ASSUME NEW s \in Sums, NEW c \in Clients, BroadcastEof(s, c) PROVE CounterSettles'
  <2>1. /\ UNCHANGED <<active, data>> /\ pc[s]["data"] = "broadcast"
        /\ pc' = [pc EXCEPT ![s]["data"] = "idle"]
    BY <1>14 DEF BroadcastEof, AtEof, Ack, Nack
  <2> QED
    BY <2>1
<1> QED
  BY <1>1, <1>2, <1>3, <1>4, <1>5, <1>6, <1>7, <1>8, <1>9, <1>10, <1>11, <1>12, <1>13, <1>14,
     NextCases DEF DataStep, EofStep, DeliveryStep

-----------------------------------------------------------------------------
\* A lost connection is never replaced.
LEMMA IntactBefore == TypeOK /\ [Next]_vars /\ DataConsumersIntact' => DataConsumersIntact
<1> SUFFICES ASSUME TypeOK, [Next]_vars, DataConsumersIntact', NEW q \in Sums
             PROVE  consumer[q]["data"] # "lost"
  BY DEF DataConsumersIntact
<1>1. consumer \in [Sums -> [Threads -> {"down", "up", "lost"}]]
  BY DEF TypeOK
<1>2. CASE consumer' = consumer
  BY <1>2 DEF DataConsumersIntact
<1>3. ASSUME NEW s \in Sums, Start(s) PROVE consumer[q]["data"] # "lost"
  BY <1>1, <1>3, Labels DEF Start, DataConsumersIntact
<1>4. ASSUME NEW s \in Sums, NEW t \in Threads, LoseConsumer(s, t)
      PROVE  consumer[q]["data"] # "lost"
  BY <1>1, <1>4, Labels DEF LoseConsumer, DataConsumersIntact
<1>5. ASSUME NEW s \in Sums, NEW r \in Records, DataStep(s, r) PROVE consumer' = consumer
  BY <1>5 DEF DataStep, DeliverData, SkipData, CountData, ProcessData, ReleaseData
<1>6. ASSUME NEW s \in Sums, NEW t \in Threads, NEW c \in Clients, EofStep(s, t, c)
      PROVE  consumer' = consumer
  BY <1>6 DEF EofStep, WaitForClientIdle, FinalizeSkip, FinalizeBegin, FinalizeEnd, Sends
<1>7. ASSUME NEW s \in Sums, NEW c \in Clients, DeliveryStep(s, c) PROVE consumer' = consumer
  BY <1>7 DEF DeliveryStep, DeliverEof, DeliverControl, BroadcastEof
<1>8. CASE OutsideStep
  BY <1>2, <1>3, <1>4, <1>8
     DEF OutsideStep, PublishData, PublishEof, BreakDataLink, BreakCtrlLink, vars
<1> QED
  BY <1>2, <1>5, <1>6, <1>7, <1>8, NextCases

\* Then the DATA of a client are gone from INPUT_QUEUE for good once its EOF is
\* sent and none is left.
LEMMA SettledStays ==
    ASSUME TypeOK, [Next]_vars, DataConsumersIntact', NEW c \in Clients, Settled(c)
    PROVE  Settled(c)'
<1>1. ASSUME NEW s \in Sums, NEW r \in Records, DataStep(s, r)
      PROVE  pending' \subseteq pending /\ eofSent' = eofSent
  BY <1>1 DEF DataStep, DeliverData, SkipData, CountData, ProcessData, ReleaseData
<1>2. ASSUME NEW s \in Sums, NEW t \in Threads, NEW d \in Clients, EofStep(s, t, d)
      PROVE  UNCHANGED <<pending, eofSent>>
  BY <1>2 DEF EofStep, WaitForClientIdle, FinalizeSkip, FinalizeBegin, FinalizeEnd, Sends
<1>3. ASSUME NEW s \in Sums, NEW d \in Clients, DeliveryStep(s, d)
      PROVE  UNCHANGED <<pending, eofSent>>
  BY <1>3 DEF DeliveryStep, DeliverEof, DeliverControl, BroadcastEof
<1>4. ASSUME NEW r \in Records, PublishData(r) PROVE Settled(c)'
  BY <1>4 DEF PublishData, Settled, Drained, RecordsOf
<1>5. ASSUME NEW d \in Clients, PublishEof(d) PROVE Settled(c)'
  BY <1>5 DEF PublishEof, Settled, Drained
<1>6. ASSUME NEW s \in Sums, NEW t \in Threads, LoseConsumer(s, t)
      PROVE  UNCHANGED <<pending, eofSent>>
  BY <1>6, Labels DEF LoseConsumer, DataConsumersIntact, TypeOK
<1>7. CASE OutsideStep
  BY <1>4, <1>5, <1>6, <1>7
     DEF OutsideStep, Start, BreakDataLink, BreakCtrlLink, vars, Settled, Drained
<1> QED
  BY <1>1, <1>2, <1>3, <1>7, NextCases DEF Settled, Drained

\* Only an EOF that left INPUT_QUEUE after the DATA of its client makes it seen.
LEMMA SettledStep ==
    ASSUME TypeOK, [Next]_vars, DataConsumersIntact', SettledInv
    PROVE  SettledInv'
<1> DEFINE Known(d) == Settled(d) \/ \E q \in Sums : Seen(q, d)
<1>0. /\ ctrlQueue \in [Sums -> [Clients -> Nat]]
      /\ eof \in [Sums -> [Threads -> SUBSET Clients]]
      /\ finalizing \in [Sums -> SUBSET Clients]
      /\ finished \in [Sums -> SUBSET Clients]
      /\ eofReady \subseteq eofSent
  BY DEF TypeOK
<1> USE Labels
<1>1. ASSUME NEW s \in Sums, NEW r \in Records, DataStep(s, r)
      PROVE  \A q \in Sums, d \in Clients : Seen(q, d)' => Known(d)
  <2>1. UNCHANGED <<ctrlQueue, eof, finalizing, finished>>
    BY <1>1 DEF DataStep, DeliverData, SkipData, CountData, ProcessData, ReleaseData
  <2> QED
    BY <2>1 DEF Seen
<1>2. ASSUME NEW s \in Sums, NEW t \in Threads, NEW c \in Clients, EofStep(s, t, c)
      PROVE  \A q \in Sums, d \in Clients : Seen(q, d)' => Known(d)
  <2>1. c \in eof[s][t]
    BY <1>2 DEF EofStep, WaitForClientIdle, FinalizeSkip, FinalizeBegin, FinalizeEnd, Sends,
                AtEof, Finalizes
  <2>2. \/ UNCHANGED ctrlQueue
        \/ ctrlQueue' = [ctrlQueue EXCEPT ![s][c] = @ + 1]
    BY <1>2 DEF EofStep, WaitForClientIdle, FinalizeSkip, FinalizeBegin, FinalizeEnd, Sends,
                Continues, Aborts
  <2>3. UNCHANGED eof \/ eof' = [eof EXCEPT ![s][t] = {}]
    BY <1>2 DEF EofStep, WaitForClientIdle, FinalizeSkip, FinalizeBegin, FinalizeEnd, Sends,
                Continues, Aborts, Ack
  <2>4. /\ \A q \in Sums : finalizing'[q] \subseteq finalizing[q] \cup (IF q = s THEN {c} ELSE {})
        /\ \A q \in Sums : finished'[q] \subseteq finished[q] \cup (IF q = s THEN {c} ELSE {})
    <3>1. /\ \/ UNCHANGED finalizing
             \/ finalizing' = [finalizing EXCEPT ![s] = @ \cup {c}]
             \/ finalizing' = [finalizing EXCEPT ![s] = @ \ {c}]
          /\ \/ UNCHANGED finished
             \/ finished' = [finished EXCEPT ![s] = @ \cup {c}]
      BY <1>2 DEF EofStep, WaitForClientIdle, FinalizeSkip, FinalizeBegin, FinalizeEnd,
                  Sends, Continues, Aborts
    <3> QED
      BY <1>0, <3>1
  <2>5. \A q \in Sums, d \in Clients : ctrlQueue'[q][d] # 0 => ctrlQueue[q][d] # 0 \/ d = c
    <3>1. CASE UNCHANGED ctrlQueue
      BY <3>1
    <3>2. CASE ctrlQueue' = [ctrlQueue EXCEPT ![s][c] = @ + 1]
      BY <1>0, <3>2
    <3> QED
      BY <2>2, <3>1, <3>2
  <2>6. \A q \in Sums, u \in Threads : eof'[q][u] \subseteq eof[q][u]
    <3>1. CASE UNCHANGED eof
      BY <3>1
    <3>2. CASE eof' = [eof EXCEPT ![s][t] = {}]
      BY <1>0, <3>2
    <3> QED
      BY <2>3, <3>1, <3>2
  <2>7. \A q \in Sums, d \in Clients : Seen(q, d)' => Seen(q, d) \/ d = c
    BY <2>4, <2>5, <2>6 DEF Seen
  <2>8. Seen(s, c)
    BY <2>1 DEF Seen
  <2> QED
    BY <2>7, <2>8
<1>3. ASSUME NEW s \in Sums, NEW c \in Clients, DeliverEof(s, c)
      PROVE  \A q \in Sums, d \in Clients : Seen(q, d)' => Known(d)
  BY <1>0, <1>3 DEF DeliverEof, Seen, Settled
<1>4. ASSUME NEW s \in Sums, NEW c \in Clients, DeliverControl(s, c)
      PROVE  \A q \in Sums, d \in Clients : Seen(q, d)' => Known(d)
  BY <1>0, <1>4 DEF DeliverControl, Seen
<1>5. ASSUME NEW s \in Sums, NEW c \in Clients, BroadcastEof(s, c)
      PROVE  \A q \in Sums, d \in Clients : Seen(q, d)' => Known(d)
  <2>1. /\ c \in eof[s]["data"] /\ UNCHANGED <<finalizing, finished>>
        /\ eof' = [eof EXCEPT ![s]["data"] = {}]
        /\ ctrlQueue' = Broadcast(c) \/ ctrlQueue' = ctrlQueue
    BY <1>5 DEF BroadcastEof, AtEof, Ack, Nack
  <2>2. \A q \in Sums, d \in Clients : ctrlQueue'[q][d] # 0 => ctrlQueue[q][d] # 0 \/ d = c
    BY <1>0, <2>1 DEF Broadcast
  <2> QED
    BY <1>0, <2>1, <2>2 DEF Seen
<1>6. ASSUME OutsideStep
      PROVE  \A q \in Sums, d \in Clients : Seen(q, d)' => Known(d)
  <2>1. UNCHANGED <<eof, finalizing, finished>>
    BY <1>6, OutsideFrame
  <2>2. \A q \in Sums, d \in Clients : ctrlQueue'[q][d] # 0 => ctrlQueue[q][d] # 0
    <3>1. ASSUME NEW s \in Sums, NEW t \in Threads, LoseConsumer(s, t)
          PROVE  \/ UNCHANGED ctrlQueue
                 \/ ctrlQueue' = [ctrlQueue EXCEPT ![s] = [d \in Clients |-> 0]]
      BY <3>1 DEF LoseConsumer
    <3>2. \/ UNCHANGED ctrlQueue
          \/ \E s \in Sums : ctrlQueue' = [ctrlQueue EXCEPT ![s] = [d \in Clients |-> 0]]
      BY <1>6, <3>1 DEF OutsideStep, PublishData, PublishEof, Start, BreakDataLink,
                        BreakCtrlLink, vars
    <3>3. ASSUME NEW s \in Sums, ctrlQueue' = [ctrlQueue EXCEPT ![s] = [d \in Clients |-> 0]],
                 NEW q \in Sums, NEW d \in Clients
          PROVE  ctrlQueue'[q][d] # 0 => ctrlQueue[q][d] # 0
      BY <1>0, <3>3
    <3> QED
      BY <3>2, <3>3
  <2>3. \A q \in Sums, d \in Clients : Seen(q, d)' => Seen(q, d)
    BY <2>1, <2>2 DEF Seen
  <2> QED
    BY <2>3
<1> HIDE DEF Known
<1>7. \A q \in Sums, d \in Clients : Seen(q, d)' => Known(d)
  BY <1>1, <1>2, <1>3, <1>4, <1>5, <1>6, NextCases DEF DeliveryStep
<1>8. \A d \in Clients : Known(d) => Settled(d)
  BY DEF SettledInv, Known
<1> QED
  BY <1>7, <1>8, SettledStays DEF SettledInv

-----------------------------------------------------------------------------
\* What a Sum can still lose of a client it is closing only shrinks or moves from
\* the data thread's hand, to the amounts the copy missed, to the dropped records.
Closing(s, c) == c \in finalizing[s] \cup finished[s]

\* No step adds a second record to those that a Sum may still lose of a client.
LEMMA LossStep ==
    ASSUME TypeOK, ThreadInv, SettledInv, LossInv, [Next]_vars
    PROVE  LossInv'
<1>0. /\ pc \in [Sums -> [Threads -> Pcs]]
      /\ eof \in [Sums -> [Threads -> SUBSET Clients]]
      /\ data \in [Sums -> SUBSET Records]
      /\ amounts \in [Sums -> Bag]
      /\ snap \in [Sums -> [Threads -> Bag]]
      /\ finalizing \in [Sums -> SUBSET Clients]
      /\ finished \in [Sums -> SUBSET Clients]
      /\ dropped \in [Sums -> SUBSET Records]
  BY DEF TypeOK
<1> USE Labels, ConstantTypes
<1> DEFINE Shrinks == \A q \in Sums, x \in Records :
                        Closing(q, ClientOf[x]) /\ Exposed(q, x)' => Exposed(q, x)
           NoNew == \A q \in Sums, d \in Clients : Closing(q, d)' => Closing(q, d)
<1>1. ASSUME Shrinks, NoNew PROVE LossInv'
  <2> SUFFICES ASSUME NEW q \in Sums, NEW x \in Records, NEW y \in Records,
                      ClientOf[x] = ClientOf[y], Closing(q, ClientOf[y])',
                      Exposed(q, x)', Exposed(q, y)'
               PROVE  x = y
    BY DEF LossInv, Closing
  <2>1. Closing(q, ClientOf[y])
    BY <1>1
  <2>2. Exposed(q, x) /\ Exposed(q, y)
    BY <1>1, <2>1
  <2> QED
    BY <2>1, <2>2 DEF LossInv, Closing
<1>2. ASSUME UNCHANGED <<pc, eof, data, amounts, snap, finalizing, finished, dropped>>
      PROVE  LossInv'
  BY <1>2 DEF LossInv, Exposed, Missed, Finalizes
<1>3. ASSUME NEW s \in Sums, NEW r \in Records, DeliverData(s, r) PROVE LossInv'
  <2>1. /\ UNCHANGED <<eof, amounts, snap, finalizing, finished, dropped>>
        /\ data' = [data EXCEPT ![s] = {r}]
        /\ pc' = [pc EXCEPT ![s]["data"] = "received"]
        /\ r \in pending
    BY <1>3 DEF DeliverData
  <2>2. ~Closing(s, ClientOf[r])
    BY <2>1 DEF SettledInv, Seen, Settled, Drained, RecordsOf, Closing
  <2>3. \A q \in Sums : \A x \in data'[q] : x \in data[q] \/ (q = s /\ x = r)
    BY <1>0, <2>1
  <2>4. \A q \in Sums, x \in Records : Missed(q, x)' => Missed(q, x)
    BY <1>0, <2>1 DEF Missed, Finalizes
  <2>5. Shrinks /\ NoNew
    BY <2>1, <2>2, <2>3, <2>4 DEF Exposed, Closing
  <2> QED
    BY <1>1, <2>5
<1>4. ASSUME NEW s \in Sums, NEW r \in Records, SkipData(s, r) PROVE LossInv'
  <2>1. /\ UNCHANGED <<eof, amounts, snap, finalizing, finished>>
        /\ data' = [data EXCEPT ![s] = {}]
        /\ dropped' = [dropped EXCEPT ![s] = @ \cup {r}]
        /\ pc' = [pc EXCEPT ![s]["data"] = "idle"]
        /\ r \in data[s]
    BY <1>4 DEF SkipData
  <2>2. \A q \in Sums, x \in Records :
          x \in dropped'[q] \cup data'[q] => x \in dropped[q] \cup data[q]
    BY <1>0, <2>1
  <2>3. \A q \in Sums, x \in Records : Missed(q, x)' => Missed(q, x)
    BY <1>0, <2>1 DEF Missed, Finalizes
  <2>4. Shrinks /\ NoNew
    BY <2>1, <2>2, <2>3 DEF Exposed, Closing
  <2> QED
    BY <1>1, <2>4
<1>5. ASSUME NEW s \in Sums, NEW r \in Records, CountData(s, r) PROVE LossInv'
  <2>1. /\ UNCHANGED <<eof, data, amounts, snap, finalizing, finished, dropped>>
        /\ pc' = [pc EXCEPT ![s]["data"] = "counted"]
    BY <1>5 DEF CountData
  <2>2. \A q \in Sums, x \in Records : Missed(q, x)' => Missed(q, x)
    BY <1>0, <2>1 DEF Missed, Finalizes
  <2>3. Shrinks /\ NoNew
    BY <2>1, <2>2 DEF Exposed, Closing
  <2> QED
    BY <1>1, <2>3
<1>6. ASSUME NEW s \in Sums, NEW r \in Records, ProcessData(s, r) PROVE LossInv'
  <2>1. /\ UNCHANGED <<eof, data, snap, finalizing, finished>>
        /\ pc' = [pc EXCEPT ![s]["data"] = "processed"]
        /\ r \in data[s]
    BY <1>6 DEF ProcessData
  <2>2. \A q \in Sums, u \in Threads, d \in Clients : Finalizes(q, u, d)' => Finalizes(q, u, d)
    BY <1>0, <2>1 DEF Finalizes
  <2>3. \A q \in Sums, x \in Records : amounts'[q][x] # amounts[q][x] => q = s /\ x = r
    <3>1. CASE UNCHANGED amounts
      BY <3>1
    <3>2. CASE amounts' = [amounts EXCEPT ![s] = Added(@, r)]
      BY <1>0, <3>2, BagValues
    <3> QED
      BY <1>6, <3>1, <3>2 DEF ProcessData
  <2>4. \A q \in Sums, x \in Records : x \in dropped'[q] => x \in dropped[q] \/ (q = s /\ x = r)
    <3>1. CASE UNCHANGED dropped
      BY <3>1
    <3>2. CASE dropped' = [dropped EXCEPT ![s] = @ \cup {r}]
      BY <1>0, <3>2
    <3> QED
      BY <1>6, <3>1, <3>2 DEF ProcessData
  <2>5. \A q \in Sums, x \in Records : Missed(q, x)' => Missed(q, x) \/ (q = s /\ x = r)
    BY <2>1, <2>2, <2>3 DEF Missed
  <2>6. Shrinks /\ NoNew
    BY <2>1, <2>4, <2>5 DEF Exposed, Closing
  <2> QED
    BY <1>1, <2>6
<1>7. ASSUME NEW s \in Sums, NEW r \in Records, ReleaseData(s, r) PROVE LossInv'
  <2>1. /\ UNCHANGED <<eof, amounts, snap, finalizing, finished, dropped>>
        /\ data' = [data EXCEPT ![s] = {}]
        /\ pc' = [pc EXCEPT ![s]["data"] = "idle"]
    BY <1>7 DEF ReleaseData
  <2>2. \A q \in Sums, x \in Records : x \in data'[q] => x \in data[q]
    BY <1>0, <2>1
  <2>3. \A q \in Sums, x \in Records : Missed(q, x)' => Missed(q, x)
    BY <1>0, <2>1 DEF Missed, Finalizes
  <2>4. Shrinks /\ NoNew
    BY <2>1, <2>2, <2>3 DEF Exposed, Closing
  <2> QED
    BY <1>1, <2>4
<1>8. ASSUME NEW s \in Sums, NEW c \in Clients, DeliveryStep(s, c) PROVE LossInv'
  <2>1. /\ UNCHANGED <<data, amounts, snap, finalizing, finished, dropped>>
        /\ \E t \in Threads :
             /\ \E e : eof' = [eof EXCEPT ![s][t] = e]
             /\ \/ pc' = [pc EXCEPT ![s][t] = "idle"]
                \/ pc' = [pc EXCEPT ![s][t] = "waiting"]
    BY <1>8 DEF DeliveryStep, DeliverEof, DeliverControl, BroadcastEof, Ack, Nack
  <2>2. \A q \in Sums, u \in Threads, d \in Clients : Finalizes(q, u, d)' => Finalizes(q, u, d)
    BY <1>0, <2>1 DEF Finalizes
  <2>3. Shrinks /\ NoNew
    BY <2>1, <2>2 DEF Exposed, Closing, Missed
  <2> QED
    BY <1>1, <2>3
<1>9. ASSUME NEW s \in Sums, NEW t \in Threads, NEW c \in Clients, FinalizeBegin(s, t, c)
      PROVE  LossInv'
  <2>1. /\ UNCHANGED <<eof, data, amounts, finished, dropped>>
        /\ pc' = [pc EXCEPT ![s][t] = "sending"]
        /\ snap' = [snap EXCEPT ![s][t] = EntryOf(amounts[s], c)]
        /\ finalizing' = [finalizing EXCEPT ![s] = @ \cup {c}]
        /\ c \in eof[s][t] /\ ~Closing(s, c)
    BY <1>9 DEF FinalizeBegin, AtEof, AlreadyFinalized, Closing
  <2>2. \A d \in eof[s][t] : d = c
    BY <2>1 DEF ThreadInv
  <2>3. \A u \in Threads : ~Finalizes(s, u, c)
    BY <2>1 DEF ThreadInv, Closing
  <2>4. \A x \in Records : snap'[s][t][x] = (IF ClientOf[x] = c THEN amounts[s][x] ELSE 0)
    BY <1>0, <2>1, BagValues
  <2>5. \A q \in Sums, u \in Threads :
           ~(q = s /\ u = t) => snap'[q][u] = snap[q][u] /\ pc'[q][u] = pc[q][u]
    BY <1>0, <2>1
  <2>6. \A q \in Sums, u \in Threads, d \in Clients :
          Finalizes(q, u, d)' => Finalizes(q, u, d) \/ (q = s /\ u = t /\ d = c)
    BY <2>1, <2>2, <2>5 DEF Finalizes
  <2>7. \A x \in Records : ClientOf[x] = c => ~Missed(s, x)'
    <3> SUFFICES ASSUME NEW x \in Records, ClientOf[x] = c, NEW u \in Threads,
                        Finalizes(s, u, c)', amounts'[s][x] > snap'[s][u][x]
                 PROVE  FALSE
      BY DEF Missed
    <3>1. u = t
      BY <2>3, <2>6
    <3>2. snap'[s][u][x] = amounts[s][x] /\ amounts'[s][x] = amounts[s][x]
      BY <2>1, <2>4, <3>1
    <3>3. amounts[s][x] \in Nat
      BY <1>0 DEF Bag
    <3> QED
      BY <3>2, <3>3
  <2>8. \A q \in Sums, x \in Records :
          ~(q = s /\ ClientOf[x] = c) /\ Missed(q, x)' => Missed(q, x)
    <3> SUFFICES ASSUME NEW q \in Sums, NEW x \in Records, ~(q = s /\ ClientOf[x] = c),
                        NEW u \in Threads, Finalizes(q, u, ClientOf[x])',
                        amounts'[q][x] > snap'[q][u][x]
                 PROVE  Missed(q, x)
      BY DEF Missed
    <3>1. Finalizes(q, u, ClientOf[x])
      BY <2>6
    <3>2. ~(q = s /\ u = t)
      BY <2>2, <3>1 DEF Finalizes
    <3> QED
      BY <2>1, <2>5, <3>1, <3>2 DEF Missed
  <2>9. \A x \in dropped[s] : ClientOf[x] # c
    BY <2>1 DEF ThreadInv, Closing
  <2>10. \A x, y \in data[s] : x = y
    BY DEF ThreadInv
  <2> SUFFICES ASSUME NEW q \in Sums, NEW x \in Records, NEW y \in Records,
                      ClientOf[x] = ClientOf[y], Closing(q, ClientOf[y])',
                      Exposed(q, x)', Exposed(q, y)'
               PROVE  x = y
    BY DEF LossInv, Closing
  <2>11. CASE q = s /\ ClientOf[y] = c
    <3>1. x \in data[s] /\ y \in data[s]
      BY <2>1, <2>7, <2>9, <2>11 DEF Exposed
    <3> QED
      BY <2>10, <3>1
  <2>12. CASE ~(q = s /\ ClientOf[y] = c)
    <3>1. Exposed(q, x) /\ Exposed(q, y)
      BY <2>1, <2>8, <2>12 DEF Exposed
    <3>2. Closing(q, ClientOf[y])
      BY <1>0, <2>1, <2>12 DEF Closing
    <3> QED
      BY <3>1, <3>2 DEF LossInv, Closing
  <2> QED
    BY <2>11, <2>12
<1>10. ASSUME NEW s \in Sums, NEW t \in Threads, NEW c \in Clients, FinalizeEnd(s, t, c)
       PROVE  LossInv'
  <2>1. /\ UNCHANGED <<data, snap>>
        /\ finalizing' = [finalizing EXCEPT ![s] = @ \ {c}]
        /\ finished' = [finished EXCEPT ![s] = @ \cup {c}]
        /\ amounts' = [amounts EXCEPT ![s] = WithoutEntry(@, c)]
        /\ dropped' = [dropped EXCEPT ![s] = @ \cup
                          {x \in RecordsOf(c) : amounts[s][x] > snap[s][t][x]}]
        /\ Finalizes(s, t, c)
    BY <1>10 DEF FinalizeEnd, AtEof, Finalizes
  <2>2. \/ pc' = [pc EXCEPT ![s][t] = "idle"] /\ eof' = [eof EXCEPT ![s][t] = {}]
        \/ pc' = [pc EXCEPT ![s][t] = "broadcast"] /\ eof' = eof
    BY <1>10 DEF FinalizeEnd, Ack
  <2>3. \A q \in Sums, u \in Threads, d \in Clients : Finalizes(q, u, d)' => Finalizes(q, u, d)
    <3>1. CASE pc' = [pc EXCEPT ![s][t] = "idle"] /\ eof' = [eof EXCEPT ![s][t] = {}]
      BY <1>0, <3>1 DEF Finalizes
    <3>2. CASE pc' = [pc EXCEPT ![s][t] = "broadcast"] /\ eof' = eof
      BY <1>0, <3>2 DEF Finalizes
    <3> QED
      BY <2>2, <3>1, <3>2
  <2>4. \A q \in Sums, x \in Records :
          amounts'[q][x] = IF q = s /\ ClientOf[x] = c THEN 0 ELSE amounts[q][x]
    <3>1. \A q \in Sums : amounts'[q] = IF q = s THEN WithoutEntry(amounts[s], c) ELSE amounts[q]
      BY <1>0, <2>1
    <3> QED
      BY <3>1, BagValues
  <2>5. \A q \in Sums, x \in Records : /\ amounts[q][x] \in Nat /\ amounts'[q][x] \in Nat
                                      /\ amounts'[q][x] <= amounts[q][x]
    <3>1. \A q \in Sums, x \in Records : amounts[q][x] \in Nat
      BY <1>0 DEF Bag
    <3> QED
      BY <2>4, <3>1
  <2>6. \A q \in Sums, x \in Records : Missed(q, x)' => Missed(q, x)
    <3> SUFFICES ASSUME NEW q \in Sums, NEW x \in Records,
                        NEW u \in Threads, Finalizes(q, u, ClientOf[x])',
                        amounts'[q][x] > snap[q][u][x]
                 PROVE  Missed(q, x)
      BY <2>1 DEF Missed
    <3>1. Finalizes(q, u, ClientOf[x])
      BY <2>3
    <3>2. snap[q][u][x] \in Nat
      BY <1>0 DEF Bag
    <3>3. amounts[q][x] > snap[q][u][x]
      BY <2>5, <3>2
    <3> QED
      BY <3>1, <3>3 DEF Missed
  <2>7. \A q \in Sums, x \in Records : x \in dropped'[q] => x \in dropped[q] \/ Missed(q, x)
    <3>1. dropped'[s] = dropped[s] \cup {x \in RecordsOf(c) : amounts[s][x] > snap[s][t][x]}
      BY <1>0, <2>1
    <3>2. \A q \in Sums \ {s} : dropped'[q] = dropped[q]
      BY <1>0, <2>1
    <3>3. \A x \in RecordsOf(c) : amounts[s][x] > snap[s][t][x] => Missed(s, x)
      BY <2>1 DEF Missed, RecordsOf
    <3> QED
      BY <3>1, <3>2, <3>3
  <2>8. \A q \in Sums : /\ finalizing'[q] \subseteq finalizing[q]
                        /\ finished'[q] \subseteq finished[q] \cup finalizing[q]
    BY <1>0, <2>1 DEF ThreadInv
  <2>9. NoNew
    BY <2>8 DEF Closing
  <2>10. Shrinks
    BY <2>1, <2>6, <2>7 DEF Exposed
  <2> QED
    BY <1>1, <2>9, <2>10
<1>11. ASSUME NEW s \in Sums, NEW t \in Threads, NEW c \in Clients,
              WaitForClientIdle(s, t, c) \/ FinalizeSkip(s, t, c) \/ Sends(s, t, c)
       PROVE  LossInv'
  <2>1. /\ UNCHANGED <<data, amounts, snap, finished, dropped>>
        /\ \/ UNCHANGED pc
           \/ pc' = [pc EXCEPT ![s][t] = "finalize"]
           \/ pc' = [pc EXCEPT ![s][t] = "idle"]
        /\ UNCHANGED eof \/ eof' = [eof EXCEPT ![s][t] = {}]
        /\ UNCHANGED finalizing \/ finalizing' = [finalizing EXCEPT ![s] = @ \ {c}]
    BY <1>11 DEF WaitForClientIdle, FinalizeSkip, Sends, Continues, Aborts, Ack
  <2>2. \A q \in Sums, u \in Threads : pc'[q][u] = "sending" => pc[q][u] = "sending"
    <3>1. CASE UNCHANGED pc
      BY <3>1
    <3>2. CASE pc' = [pc EXCEPT ![s][t] = "finalize"]
      BY <1>0, <3>2
    <3>3. CASE pc' = [pc EXCEPT ![s][t] = "idle"]
      BY <1>0, <3>3
    <3> QED
      BY <2>1, <3>1, <3>2, <3>3
  <2>3. \A q \in Sums, u \in Threads : eof'[q][u] \subseteq eof[q][u]
    <3>1. CASE UNCHANGED eof
      BY <3>1
    <3>2. CASE eof' = [eof EXCEPT ![s][t] = {}]
      BY <1>0, <3>2
    <3> QED
      BY <2>1, <3>1, <3>2
  <2>4. \A q \in Sums : finalizing'[q] \subseteq finalizing[q]
    <3>1. CASE UNCHANGED finalizing
      BY <3>1
    <3>2. CASE finalizing' = [finalizing EXCEPT ![s] = @ \ {c}]
      BY <1>0, <3>2
    <3> QED
      BY <2>1, <3>1, <3>2
  <2>5. \A q \in Sums, x \in Records : Missed(q, x)' => Missed(q, x)
    BY <2>1, <2>2, <2>3 DEF Missed, Finalizes
  <2>6. Shrinks /\ NoNew
    BY <2>1, <2>4, <2>5 DEF Exposed, Closing
  <2> QED
    BY <1>1, <2>6
<1>12. CASE OutsideStep
  BY <1>2, <1>12, OutsideFrame
<1> QED
  BY <1>3, <1>4, <1>5, <1>6, <1>7, <1>8, <1>9, <1>10, <1>11, <1>12, NextCases
     DEF DataStep, EofStep

-----------------------------------------------------------------------------
\* A client finished somewhere has a Sum that is safe, and stays safe.
Told(s, c) == ctrlQueue[s][c] # 0 \/ c \in eof[s]["control"]
SomeFinished(c) == \E s \in Sums : c \in finished[s]
CopyExact(s, c) == \A r \in RecordsOf(c) : amounts[s][r] = snap[s]["data"][r]

\* A client is never removed from the finished ones.
LEMMA FinishedGrows ==
    ASSUME TypeOK, [Next]_vars
    PROVE  \A q \in Sums : finished[q] \subseteq finished'[q]
<1>1. ASSUME NEW s \in Sums, NEW t \in Threads, NEW c \in Clients, EofStep(s, t, c)
      PROVE  \A q \in Sums : finished[q] \subseteq finished'[q]
  <2>1. UNCHANGED finished \/ finished' = [finished EXCEPT ![s] = @ \cup {c}]
    BY <1>1 DEF EofStep, WaitForClientIdle, FinalizeSkip, FinalizeBegin, FinalizeEnd, Sends
  <2>2. finished \in [Sums -> SUBSET Clients]
    BY DEF TypeOK
  <2>3. CASE UNCHANGED finished
    BY <2>3
  <2>4. CASE finished' = [finished EXCEPT ![s] = @ \cup {c}]
    BY <2>2, <2>4
  <2> QED
    BY <2>1, <2>3, <2>4
<1>2. ASSUME NEW s \in Sums, NEW r \in Records, DataStep(s, r) PROVE UNCHANGED finished
  BY <1>2 DEF DataStep, DeliverData, SkipData, CountData, ProcessData, ReleaseData
<1>3. ASSUME NEW s \in Sums, NEW c \in Clients, DeliveryStep(s, c) PROVE UNCHANGED finished
  BY <1>3 DEF DeliveryStep, DeliverEof, DeliverControl, BroadcastEof
<1>4. ASSUME OutsideStep PROVE UNCHANGED finished
  BY <1>4, OutsideFrame
<1> QED
  BY <1>1, <1>2, <1>3, <1>4, NextCases

\* An EOF gets to a control queue only from a Sum that has finished its client.
LEMMA ToldStep ==
    ASSUME TypeOK, ThreadInv, [Next]_vars,
           \A s \in Sums, c \in Clients : Told(s, c) => SomeFinished(c)
    PROVE  \A s \in Sums, c \in Clients : Told(s, c)' => SomeFinished(c)'
<1>0. /\ ctrlQueue \in [Sums -> [Clients -> Nat]]
      /\ eof \in [Sums -> [Threads -> SUBSET Clients]]
  BY DEF TypeOK
<1> USE Labels
<1> DEFINE Kept == \A q \in Sums, d \in Clients : Told(q, d)' => Told(q, d) \/ SomeFinished(d)
<1>1. ASSUME NEW s \in Sums, NEW r \in Records, DataStep(s, r) PROVE Kept
  <2>1. UNCHANGED <<ctrlQueue, eof>>
    BY <1>1 DEF DataStep, DeliverData, SkipData, CountData, ProcessData, ReleaseData
  <2> QED
    BY <2>1 DEF Told
<1>2. ASSUME NEW s \in Sums, NEW t \in Threads, NEW c \in Clients, EofStep(s, t, c)
      PROVE  Kept
  <2>1. c \in eof[s][t]
    BY <1>2 DEF EofStep, WaitForClientIdle, FinalizeSkip, FinalizeBegin, FinalizeEnd, Sends,
                AtEof, Finalizes
  <2>2. \/ UNCHANGED ctrlQueue
        \/ t = "control" /\ ctrlQueue' = [ctrlQueue EXCEPT ![s][c] = @ + 1]
    BY <1>2 DEF EofStep, WaitForClientIdle, FinalizeSkip, FinalizeBegin, FinalizeEnd, Sends,
                Continues, Aborts
  <2>3. UNCHANGED eof \/ eof' = [eof EXCEPT ![s][t] = {}]
    BY <1>2 DEF EofStep, WaitForClientIdle, FinalizeSkip, FinalizeBegin, FinalizeEnd, Sends,
                Continues, Aborts, Ack
  <2>4. \A q \in Sums : eof'[q]["control"] \subseteq eof[q]["control"]
    <3>1. CASE UNCHANGED eof
      BY <3>1
    <3>2. CASE eof' = [eof EXCEPT ![s][t] = {}]
      BY <1>0, <3>2
    <3> QED
      BY <2>3, <3>1, <3>2
  <2>5. CASE UNCHANGED ctrlQueue
    BY <2>4, <2>5 DEF Told
  <2>6. CASE t = "control" /\ ctrlQueue' = [ctrlQueue EXCEPT ![s][c] = @ + 1]
    <3>1. \A q \in Sums, d \in Clients :
             ctrlQueue'[q][d] # 0 => ctrlQueue[q][d] # 0 \/ (q = s /\ d = c)
      BY <1>0, <2>6
    <3>2. Told(s, c)
      BY <2>1, <2>6 DEF Told
    <3> QED
      BY <2>4, <3>1, <3>2 DEF Told
  <2> QED
    BY <2>2, <2>5, <2>6
<1>3. ASSUME NEW s \in Sums, NEW c \in Clients, DeliverEof(s, c) PROVE Kept
  BY <1>0, <1>3 DEF DeliverEof, Told
<1>4. ASSUME NEW s \in Sums, NEW c \in Clients, DeliverControl(s, c) PROVE Kept
  BY <1>0, <1>4 DEF DeliverControl, Told
<1>5. ASSUME NEW s \in Sums, NEW c \in Clients, BroadcastEof(s, c) PROVE Kept
  <2>1. /\ c \in finished[s]
        /\ eof' = [eof EXCEPT ![s]["data"] = {}]
        /\ ctrlQueue' = Broadcast(c) \/ ctrlQueue' = ctrlQueue
    BY <1>5 DEF BroadcastEof, AtEof, Ack, Nack, ThreadInv
  <2>2. \A q \in Sums, d \in Clients : ctrlQueue'[q][d] # 0 => ctrlQueue[q][d] # 0 \/ d = c
    BY <1>0, <2>1 DEF Broadcast
  <2>3. \A q \in Sums : eof'[q]["control"] = eof[q]["control"]
    BY <1>0, <2>1
  <2> QED
    BY <2>1, <2>2, <2>3 DEF Told, SomeFinished
<1>6. ASSUME OutsideStep PROVE Kept
  <2>1. UNCHANGED eof
    BY <1>6, OutsideFrame
  <2>2. ASSUME NEW s \in Sums, NEW t \in Threads, LoseConsumer(s, t)
        PROVE  \/ UNCHANGED ctrlQueue
               \/ ctrlQueue' = [ctrlQueue EXCEPT ![s] = [d \in Clients |-> 0]]
    BY <2>2 DEF LoseConsumer
  <2>3. \/ UNCHANGED ctrlQueue
        \/ \E s \in Sums : ctrlQueue' = [ctrlQueue EXCEPT ![s] = [d \in Clients |-> 0]]
    BY <1>6, <2>2 DEF OutsideStep, PublishData, PublishEof, Start, BreakDataLink,
                      BreakCtrlLink, vars
  <2>4. ASSUME NEW s \in Sums, ctrlQueue' = [ctrlQueue EXCEPT ![s] = [d \in Clients |-> 0]],
               NEW q \in Sums, NEW d \in Clients
        PROVE  ctrlQueue'[q][d] # 0 => ctrlQueue[q][d] # 0
    BY <1>0, <2>4
  <2> QED
    BY <2>1, <2>3, <2>4 DEF Told
<1>7. Kept
  BY <1>1, <1>2, <1>3, <1>4, <1>5, <1>6, NextCases DEF DeliveryStep
<1> HIDE DEF Kept
<1>8. \A d \in Clients : SomeFinished(d) => SomeFinished(d)'
  BY FinishedGrows DEF SomeFinished
<1> QED
  BY <1>7, <1>8 DEF Kept

\* While the data thread finalizes a client, its copy stays equal to the amounts.
LEMMA CopyStep ==
    ASSUME TypeOK, ThreadInv, [Next]_vars,
           \A s \in Sums, c \in Clients : Finalizes(s, "data", c) => CopyExact(s, c)
    PROVE  \A s \in Sums, c \in Clients : Finalizes(s, "data", c)' => CopyExact(s, c)'
<1>0. /\ pc \in [Sums -> [Threads -> Pcs]]
      /\ eof \in [Sums -> [Threads -> SUBSET Clients]]
      /\ amounts \in [Sums -> Bag]
      /\ snap \in [Sums -> [Threads -> Bag]]
  BY DEF TypeOK
<1> USE Labels
<1> DEFINE Goal == \A s \in Sums, c \in Clients : Finalizes(s, "data", c)' => CopyExact(s, c)'
<1>1. ASSUME NEW s \in Sums, NEW r \in Records, DataStep(s, r) PROVE Goal
  <2>1. /\ UNCHANGED <<eof, snap>>
        /\ \E label \in Pcs \ {"sending"} : pc' = [pc EXCEPT ![s]["data"] = label]
        /\ UNCHANGED amounts \/ amounts' = [amounts EXCEPT ![s] = Added(@, r)]
    BY <1>1 DEF DataStep, DeliverData, SkipData, CountData, ProcessData, ReleaseData
  <2>2. \A d \in Clients : ~Finalizes(s, "data", d)'
    BY <1>0, <2>1 DEF Finalizes
  <2>3. \A q \in Sums \ {s} : /\ amounts'[q] = amounts[q]
                              /\ pc'[q] = pc[q]
    BY <1>0, <2>1
  <2> QED
    BY <2>1, <2>2, <2>3 DEF Finalizes, CopyExact
<1>2. ASSUME NEW s \in Sums, NEW c \in Clients, DeliveryStep(s, c) PROVE Goal
  <2>1. /\ UNCHANGED <<amounts, snap>>
        /\ \E t \in Threads :
             /\ \E e : eof' = [eof EXCEPT ![s][t] = e]
             /\ \/ pc' = [pc EXCEPT ![s][t] = "idle"]
                \/ pc' = [pc EXCEPT ![s][t] = "waiting"]
    BY <1>2 DEF DeliveryStep, DeliverEof, DeliverControl, BroadcastEof, Ack, Nack
  <2>2. \A q \in Sums, u \in Threads, d \in Clients : Finalizes(q, u, d)' => Finalizes(q, u, d)
    BY <1>0, <2>1 DEF Finalizes
  <2> QED
    BY <2>1, <2>2 DEF CopyExact
<1>3. ASSUME NEW s \in Sums, NEW t \in Threads, NEW c \in Clients, FinalizeBegin(s, t, c)
      PROVE  Goal
  <2>1. /\ UNCHANGED <<eof, amounts>>
        /\ pc' = [pc EXCEPT ![s][t] = "sending"]
        /\ snap' = [snap EXCEPT ![s][t] = EntryOf(amounts[s], c)]
        /\ c \in eof[s][t]
    BY <1>3 DEF FinalizeBegin, AtEof
  <2>2. \A q \in Sums : ~(q = s /\ t = "data") =>
                        snap'[q]["data"] = snap[q]["data"] /\ pc'[q]["data"] = pc[q]["data"]
    BY <1>0, <2>1
  <2>3. \A q \in Sums, d \in Clients : ~(q = s /\ t = "data") /\ Finalizes(q, "data", d)' =>
                                        CopyExact(q, d)'
    BY <2>1, <2>2 DEF Finalizes, CopyExact
  <2>4. ASSUME t = "data", NEW d \in Clients, Finalizes(s, "data", d)' PROVE CopyExact(s, d)'
    <3>1. d = c
      BY <2>1, <2>4 DEF Finalizes, ThreadInv
    <3>2. snap'[s]["data"] = EntryOf(amounts[s], c)
      BY <1>0, <2>1, <2>4
    <3>3. \A x \in RecordsOf(c) : snap'[s]["data"][x] = amounts[s][x]
      BY <3>2, BagValues DEF RecordsOf
    <3> QED
      BY <2>1, <3>1, <3>3 DEF CopyExact
  <2> QED
    BY <2>3, <2>4
<1>4. ASSUME NEW s \in Sums, NEW t \in Threads, NEW c \in Clients, FinalizeEnd(s, t, c)
      PROVE  Goal
  <2>1. /\ UNCHANGED snap
        /\ amounts' = [amounts EXCEPT ![s] = WithoutEntry(@, c)]
        /\ Finalizes(s, t, c)
    BY <1>4 DEF FinalizeEnd, AtEof, Finalizes
  <2>2. \A q \in Sums, d \in Clients :
          Finalizes(q, "data", d)' => Finalizes(q, "data", d) /\ ~(q = s /\ t = "data")
    <3>1. CASE t = "control" /\ Ack(s, t)
      BY <1>0, <3>1 DEF Ack, Finalizes
    <3>2. CASE t = "data" /\ pc' = [pc EXCEPT ![s][t] = "broadcast"] /\ UNCHANGED eof
      BY <1>0, <3>2 DEF Finalizes
    <3> QED
      BY <1>4, <3>1, <3>2 DEF FinalizeEnd
  <2>3. \A d \in Clients : Finalizes(s, "data", d)' => d # c
    BY <2>1, <2>2 DEF ThreadInv
  <2>4. \A q \in Sums, x \in Records :
          ~(q = s /\ ClientOf[x] = c) => amounts'[q][x] = amounts[q][x]
    <3>1. \A q \in Sums : amounts'[q] = IF q = s THEN WithoutEntry(amounts[s], c) ELSE amounts[q]
      BY <1>0, <2>1
    <3> QED
      BY <3>1, BagValues
  <2> QED
    BY <2>1, <2>2, <2>3, <2>4 DEF CopyExact, RecordsOf
<1>5. ASSUME NEW s \in Sums, NEW t \in Threads, NEW c \in Clients,
             WaitForClientIdle(s, t, c) \/ FinalizeSkip(s, t, c) \/ Sends(s, t, c)
      PROVE  Goal
  <2>1. /\ UNCHANGED <<amounts, snap>>
        /\ \/ UNCHANGED <<pc, eof>>
           \/ pc' = [pc EXCEPT ![s][t] = "finalize"] /\ UNCHANGED eof
           \/ pc' = [pc EXCEPT ![s][t] = "idle"] /\ eof' = [eof EXCEPT ![s][t] = {}]
    BY <1>5 DEF WaitForClientIdle, FinalizeSkip, Sends, Continues, Aborts, Ack
  <2>2. \A q \in Sums, u \in Threads, d \in Clients : Finalizes(q, u, d)' => Finalizes(q, u, d)
    <3>1. CASE UNCHANGED <<pc, eof>>
      BY <3>1 DEF Finalizes
    <3>2. CASE pc' = [pc EXCEPT ![s][t] = "finalize"] /\ UNCHANGED eof
      BY <1>0, <3>2 DEF Finalizes
    <3>3. CASE pc' = [pc EXCEPT ![s][t] = "idle"] /\ eof' = [eof EXCEPT ![s][t] = {}]
      BY <1>0, <3>3 DEF Finalizes
    <3> QED
      BY <2>1, <3>1, <3>2, <3>3
  <2> QED
    BY <2>1, <2>2 DEF CopyExact
<1>6. ASSUME OutsideStep PROVE Goal
  <2>1. UNCHANGED <<pc, eof, amounts, snap>>
    BY <1>6, OutsideFrame
  <2> QED
    BY <2>1 DEF Finalizes, CopyExact
<1> QED
  BY <1>1, <1>2, <1>3, <1>4, <1>5, <1>6, NextCases DEF EofStep

\* A Sum that has finished a client and forgot nothing of it stays so: there is no
\* DATA of that client left for it to take.
LEMMA SafeStays ==
    ASSUME TypeOK, ThreadInv, SettledInv, [Next]_vars,
           NEW q \in Sums, NEW d \in Clients, Safe(q, d)
    PROVE  Safe(q, d)'
<1>0. /\ data \in [Sums -> SUBSET Records]
      /\ dropped \in [Sums -> SUBSET Records]
  BY DEF TypeOK
<1> DEFINE Goal == \A x \in RecordsOf(d) : x \notin dropped'[q] \cup data'[q]
<1>1. d \in finished[q] /\ \A x \in RecordsOf(d) : x \notin dropped[q] \cup data[q]
  BY DEF Safe
<1>2. \A x \in RecordsOf(d) : x \notin pending
  BY <1>1 DEF SettledInv, Seen, Settled, Drained
<1>3. ASSUME NEW s \in Sums, NEW r \in Records, DataStep(s, r) PROVE Goal
  <2>1. \/ data' = data
        \/ data' = [data EXCEPT ![s] = {}]
        \/ data' = [data EXCEPT ![s] = {r}] /\ r \in pending
    BY <1>3 DEF DataStep, DeliverData, SkipData, CountData, ProcessData, ReleaseData
  <2>2. \A x \in RecordsOf(d) : x \notin data'[q]
    <3>1. CASE data' = data
      BY <1>1, <3>1
    <3>2. CASE data' = [data EXCEPT ![s] = {}]
      BY <1>0, <1>1, <3>2
    <3>3. CASE data' = [data EXCEPT ![s] = {r}] /\ r \in pending
      BY <1>0, <1>1, <1>2, <3>3
    <3> QED
      BY <2>1, <3>1, <3>2, <3>3
  <2>3. dropped' = dropped \/ (dropped' = [dropped EXCEPT ![s] = @ \cup {r}] /\ r \in data[s])
    BY <1>3 DEF DataStep, DeliverData, SkipData, CountData, ProcessData, ReleaseData
  <2>4. \A x \in RecordsOf(d) : x \notin dropped'[q]
    <3>1. CASE dropped' = dropped
      BY <1>1, <3>1
    <3>2. CASE dropped' = [dropped EXCEPT ![s] = @ \cup {r}] /\ r \in data[s]
      BY <1>0, <1>1, <3>2
    <3> QED
      BY <2>3, <3>1, <3>2
  <2> QED
    BY <2>2, <2>4
<1>4. ASSUME NEW s \in Sums, NEW t \in Threads, NEW c \in Clients, FinalizeEnd(s, t, c)
      PROVE  Goal
  <2>1. /\ UNCHANGED data
        /\ dropped' = [dropped EXCEPT ![s] = @ \cup
                          {x \in RecordsOf(c) : amounts[s][x] > snap[s][t][x]}]
        /\ Finalizes(s, t, c)
    BY <1>4 DEF FinalizeEnd, AtEof, Finalizes
  <2>2. q = s => d # c
    BY <1>1, <2>1 DEF ThreadInv
  <2>3. \A x \in RecordsOf(d) : x \notin dropped'[q]
    <3>1. CASE q = s
      <4>1. dropped'[q] \subseteq dropped[q] \cup RecordsOf(c)
        BY <1>0, <2>1, <3>1
      <4>2. \A x \in RecordsOf(d) : x \notin RecordsOf(c)
        BY <2>2, <3>1 DEF RecordsOf
      <4> QED
        BY <1>1, <4>1, <4>2
    <3>2. CASE q # s
      BY <1>0, <1>1, <2>1, <3>2
    <3> QED
      BY <3>1, <3>2
  <2> QED
    BY <1>1, <2>1, <2>3
<1>5. ASSUME UNCHANGED <<data, dropped>> PROVE Goal
  BY <1>1, <1>5
<1>6. ASSUME NEW s \in Sums, NEW t \in Threads, NEW c \in Clients, EofStep(s, t, c)
      PROVE  Goal
  BY <1>4, <1>5, <1>6
     DEF EofStep, WaitForClientIdle, FinalizeSkip, FinalizeBegin, Sends
<1>7. ASSUME NEW s \in Sums, NEW c \in Clients, DeliveryStep(s, c) PROVE Goal
  BY <1>5, <1>7 DEF DeliveryStep, DeliverEof, DeliverControl, BroadcastEof
<1>8. ASSUME OutsideStep PROVE Goal
  BY <1>5, <1>8, OutsideFrame
<1>9. Goal
  BY <1>3, <1>6, <1>7, <1>8, NextCases
<1>10. d \in finished'[q]
  BY <1>1, FinishedGrows
<1> QED
  BY <1>9, <1>10 DEF Safe, RecordsOf

\* Finishing a client, a Sum either is safe itself or was told by one that had.
LEMMA TakerStep ==
    ASSUME TypeOK, ThreadInv, SettledInv, TakerInv, [Next]_vars
    PROVE  TakerInv'
<1>0. /\ finished \in [Sums -> SUBSET Clients]
      /\ dropped \in [Sums -> SUBSET Records]
      /\ amounts \in [Sums -> Bag]
  BY DEF TypeOK
<1>1. \A s \in Sums, c \in Clients : Told(s, c) => SomeFinished(c)
  BY DEF TakerInv, Told, SomeFinished
<1>2. \A s \in Sums, c \in Clients : Finalizes(s, "data", c) => CopyExact(s, c)
  BY DEF TakerInv, CopyExact
<1>3. \A c \in Clients : SomeFinished(c) => \E s \in Sums : Safe(s, c)
  BY DEF TakerInv, SomeFinished
<1> DEFINE Kept == \A c \in Clients : SomeFinished(c)' =>
                       SomeFinished(c) \/ \E s \in Sums : Safe(s, c)'
<1>4. ASSUME NEW s \in Sums, NEW t \in Threads, NEW c \in Clients, FinalizeEnd(s, t, c)
      PROVE  Kept
  <2>1. /\ UNCHANGED data
        /\ finished' = [finished EXCEPT ![s] = @ \cup {c}]
        /\ dropped' = [dropped EXCEPT ![s] = @ \cup
                          {x \in RecordsOf(c) : amounts[s][x] > snap[s][t][x]}]
        /\ pc[s][t] = "sending" /\ c \in eof[s][t]
    BY <1>4 DEF FinalizeEnd, AtEof
  <2>2. \A d \in Clients : SomeFinished(d)' => SomeFinished(d) \/ d = c
    BY <1>0, <2>1 DEF SomeFinished
  <2>3. CASE t = "control"
    BY <1>1, <2>1, <2>2, <2>3 DEF Told
  <2>4. CASE t = "data"
    <3>1. Finalizes(s, "data", c)
      BY <2>1, <2>4 DEF Finalizes
    <3>2. c \notin finished[s] /\ data[s] = {}
      BY <2>1, <2>4, <3>1, Labels DEF ThreadInv, HandlesData
    <3>3. \A x \in RecordsOf(c) : x \notin dropped[s]
      BY <3>2 DEF ThreadInv, RecordsOf
    <3>4. \A x \in RecordsOf(c) : ~(amounts[s][x] > snap[s]["data"][x])
      <4>1. \A x \in RecordsOf(c) : amounts[s][x] \in Nat
        BY <1>0 DEF Bag, RecordsOf
      <4> QED
        BY <1>2, <3>1, <4>1 DEF CopyExact
    <3>5. \A x \in RecordsOf(c) : x \notin dropped'[s]
      BY <1>0, <2>1, <2>4, <3>3, <3>4
    <3>6. c \in finished'[s] /\ data'[s] = {}
      BY <1>0, <2>1, <3>2
    <3>7. Safe(s, c)'
      BY <3>5, <3>6 DEF Safe, RecordsOf
    <3> QED
      BY <2>2, <3>7
  <2> QED
    BY <2>3, <2>4, Labels
<1>5. ASSUME UNCHANGED finished PROVE Kept
  BY <1>5 DEF SomeFinished
<1>6. ASSUME NEW s \in Sums, NEW t \in Threads, NEW c \in Clients, EofStep(s, t, c)
      PROVE  Kept
  BY <1>4, <1>5, <1>6
     DEF EofStep, WaitForClientIdle, FinalizeSkip, FinalizeBegin, Sends
<1>7. ASSUME NEW s \in Sums, NEW r \in Records, DataStep(s, r) PROVE Kept
  BY <1>5, <1>7 DEF DataStep, DeliverData, SkipData, CountData, ProcessData, ReleaseData
<1>8. ASSUME NEW s \in Sums, NEW c \in Clients, DeliveryStep(s, c) PROVE Kept
  BY <1>5, <1>8 DEF DeliveryStep, DeliverEof, DeliverControl, BroadcastEof
<1>9. ASSUME OutsideStep PROVE Kept
  BY <1>5, <1>9, OutsideFrame
<1>10. Kept
  BY <1>6, <1>7, <1>8, <1>9, NextCases
<1>11. \A c \in Clients : (\E s \in Sums : Safe(s, c)) => \E s \in Sums : Safe(s, c)'
  BY SafeStays
<1>12. \A c \in Clients : SomeFinished(c)' => \E s \in Sums : Safe(s, c)'
  BY <1>3, <1>10, <1>11
<1>13. \A s \in Sums, c \in Clients : Told(s, c)' => SomeFinished(c)'
  BY <1>1, ToldStep
<1>14. \A s \in Sums, c \in Clients : Finalizes(s, "data", c)' => CopyExact(s, c)'
  BY <1>2, CopyStep
<1> QED
  BY <1>12, <1>13, <1>14 DEF TakerInv, Told, SomeFinished, CopyExact, RecordsOf

-----------------------------------------------------------------------------
\* The invariant of the interleavings of one Sum's threads and of the Sums among
\* themselves.  What depends on each DATA message being delivered once is claimed
\* only while no data consumer has lost its connection.
Invariant ==
    /\ TypeOK /\ ThreadInv /\ CounterSettles
    /\ DataConsumersIntact => SettledInv /\ LossInv /\ TakerInv

\* The inductive invariant of the Sums.
THEOREM InvariantHolds == Spec => []Invariant
<1>1. Init => Invariant
  <2> SUFFICES ASSUME Init PROVE ThreadInv /\ CounterSettles /\ SettledInv /\ LossInv /\ TakerInv
    BY TypeInit DEF Invariant
  <2> USE Labels DEF Init
  <2>1. \A s \in Sums, t \in Threads, c \in Clients : ~Finalizes(s, t, c)
    BY DEF Finalizes
  <2>2. ThreadInv
    BY <2>1 DEF ThreadInv, HandlesData, HandlesEof, NoRecords
  <2>3. CounterSettles
    BY DEF CounterSettles
  <2>4. SettledInv
    BY DEF SettledInv, Seen
  <2>5. LossInv
    BY DEF LossInv
  <2>6. TakerInv
    BY <2>1 DEF TakerInv
  <2> QED
    BY <2>2, <2>3, <2>4, <2>5, <2>6
<1>2. Invariant /\ [Next]_vars => Invariant'
  <2> SUFFICES ASSUME Invariant, [Next]_vars PROVE Invariant'
    OBVIOUS
  <2>1. TypeOK /\ ThreadInv /\ CounterSettles
    BY DEF Invariant
  <2>2. TypeOK' /\ ThreadInv' /\ CounterSettles'
    BY <2>1, TypeStep, ThreadStep, CounterStep
  <2>3. ASSUME DataConsumersIntact' PROVE SettledInv' /\ LossInv' /\ TakerInv'
    <3>1. SettledInv /\ LossInv /\ TakerInv
      BY <2>1, <2>3, IntactBefore DEF Invariant
    <3> QED
      BY <2>1, <2>3, <3>1, SettledStep, LossStep, TakerStep
  <2> QED
    BY <2>2, <2>3 DEF Invariant
<1> QED
  BY <1>1, <1>2, PTL DEF Spec

\* No counter of DATA in progress is ever left behind, whatever the failures.
THEOREM CounterAlwaysSettles == Spec => []CounterSettles
<1>1. Invariant => CounterSettles
  BY DEF Invariant
<1> QED
  BY <1>1, InvariantHolds, PTL

\* A Sum forgets at most one record of each client.
THEOREM LossIsBounded == Spec => []LossWindow
<1>1. Invariant => LossWindow
  <2> SUFFICES ASSUME TypeOK, ThreadInv, LossInv, NEW s \in Sums, NEW q \in dropped[s],
                      NEW r \in dropped[s], ClientOf[q] = ClientOf[r]
               PROVE  q = r
    BY DEF Invariant, LossWindow
  <2>1. q \in Records /\ r \in Records
    BY DEF TypeOK
  <2>2. ClientOf[r] \in finished[s]
    BY DEF ThreadInv
  <2> QED
    BY <2>1, <2>2 DEF LossInv, Exposed
<1> QED
  BY <1>1, InvariantHolds, PTL

\* Of the Sums that have finished a client, one forgot nothing of it.
THEOREM TakerIsSafe == Spec => []TakerLosesNothing
<1>1. Invariant => TakerLosesNothing
  <2> SUFFICES ASSUME TakerInv, NEW c \in Clients, \E s \in Sums : c \in finished[s]
               PROVE  \E s \in Sums : c \in finished[s] /\ dropped[s] \cap RecordsOf(c) = {}
    BY DEF Invariant, TakerLosesNothing
  <2>1. PICK s \in Sums : Safe(s, c)
    BY DEF TakerInv
  <2>2. c \in finished[s] /\ dropped[s] \cap RecordsOf(c) = {}
    BY <2>1 DEF Safe
  <2> QED
    BY <2>2
<1> QED
  BY <1>1, InvariantHolds, PTL

\* A Sum sends on the channel of a client only while a thread finalizes it.
LEMMA SentStep ==
    ASSUME TypeOK, [Next]_vars, NEW q \in Sums, NEW d \in Clients
    PROVE  sent'[q][d] = sent[q][d] \/ \E t \in Threads : Finalizes(q, t, d)
<1>0. sent \in [Sums -> [Clients -> [Aggs -> Seq(Messages)]]]
  BY DEF TypeOK
<1> DEFINE Goal == sent'[q][d] = sent[q][d] \/ \E t \in Threads : Finalizes(q, t, d)
<1>1. ASSUME NEW s \in Sums, NEW t \in Threads, NEW c \in Clients, NEW a \in Aggs, NEW m,
             NEW out, SendTo(s, c, a, m, out), Finalizes(s, t, c)
      PROVE  Goal
  <2>1. CASE UNCHANGED sent
    BY <2>1
  <2>2. CASE sent' = [sent EXCEPT ![s][c][a] = Append(@, m)]
    BY <1>0, <1>1, <2>2
  <2> QED
    BY <1>1, <2>1, <2>2 DEF SendTo
<1>2. ASSUME NEW s \in Sums, NEW t \in Threads, NEW c \in Clients,
             (\E f \in Fruits : SendPartialSum(s, t, c, f)) \/ SendEof(s, t, c)
      PROVE  Goal
  <2>1. ASSUME NEW f \in Fruits, SendPartialSum(s, t, c, f) PROVE Goal
    BY <1>1, <2>1, ConstantTypes DEF SendPartialSum, AtEof, Finalizes
  <2>2. CASE SendEof(s, t, c)
    BY <1>1, <2>2 DEF SendEof, AtEof, Finalizes
  <2> QED
    BY <1>2, <2>1, <2>2
<1>3. ASSUME NEW s \in Sums, NEW r \in Records, DataStep(s, r) PROVE UNCHANGED sent
  BY <1>3 DEF DataStep, DeliverData, SkipData, CountData, ProcessData, ReleaseData
<1>4. ASSUME NEW s \in Sums, NEW t \in Threads, NEW c \in Clients,
             \/ WaitForClientIdle(s, t, c) \/ FinalizeSkip(s, t, c)
             \/ FinalizeBegin(s, t, c) \/ FinalizeEnd(s, t, c)
      PROVE  UNCHANGED sent
  BY <1>4 DEF WaitForClientIdle, FinalizeSkip, FinalizeBegin, FinalizeEnd
<1>5. ASSUME NEW s \in Sums, NEW c \in Clients, DeliveryStep(s, c) PROVE UNCHANGED sent
  BY <1>5 DEF DeliveryStep, DeliverEof, DeliverControl, BroadcastEof
<1>6. ASSUME OutsideStep PROVE UNCHANGED sent
  BY <1>6 DEF OutsideStep, PublishData, PublishEof, Start, BreakCtrlLink, BreakDataLink,
              LoseConsumer, vars
<1> HIDE DEF Goal
<1>7. UNCHANGED sent => Goal
  BY DEF Goal
<1>8. Goal
  BY <1>2, <1>3, <1>4, <1>5, <1>6, <1>7
     DEF Next, DataThread, ControlThread, ProcessEof, Fault, Rest, DataStep, DeliveryStep,
         OutsideStep
<1> QED
  BY <1>8 DEF Goal

\* Whatever the failures, a finished client is never taken up again.
THEOREM FinishedStaysFinal == Spec => FinishedIsFinal
<1>1. Invariant /\ [Next]_vars =>
        [\A s \in Sums, c \in Clients : c \in finished[s] =>
            /\ c \in finished'[s] /\ c \notin finalizing'[s]
            /\ sent'[s][c] = sent[s][c]
            /\ EntryOf(amounts'[s], c) = NoRecords]_vars
  <2> SUFFICES ASSUME TypeOK, ThreadInv, [Next]_vars, NEW s \in Sums, NEW c \in Clients,
                      c \in finished[s]
               PROVE  /\ c \in finished'[s] /\ c \notin finalizing'[s]
                      /\ sent'[s][c] = sent[s][c]
                      /\ EntryOf(amounts'[s], c) = NoRecords
    BY DEF Invariant
  <2>1. c \in finished'[s]
    BY FinishedGrows
  <2>2. ThreadInv'
    BY ThreadStep
  <2>3. c \notin finalizing'[s]
    BY <2>1, <2>2 DEF ThreadInv
  <2>4. \A t \in Threads : ~Finalizes(s, t, c)
    BY DEF ThreadInv
  <2>5. sent'[s][c] = sent[s][c]
    BY <2>4, SentStep
  <2>6. \A r \in Records : EntryOf(amounts'[s], c)[r] = 0
    BY <2>1, <2>2, BagValues DEF ThreadInv
  <2>7. EntryOf(amounts'[s], c) = NoRecords
    BY <2>6 DEF EntryOf, NoRecords
  <2> QED
    BY <2>1, <2>3, <2>5, <2>7
<1> QED
  BY <1>1, InvariantHolds, PTL DEF Spec, FinishedIsFinal

-----------------------------------------------------------------------------
(* What the Sums send: the message ids that the aggregations deduplicate on    *)
(* name messages of one client and one fruit.                                  *)

\* The messages thread t of Sum s sends while it finalizes a client.
Outgoing(s, t) == {EofMessage} \cup {PartialSum(f, AmountOf(snap[s][t], f)) : f \in Fruits}

\* A channel stays as it is, or a thread that finalizes its client appends to it.
Extends(s, c, a) ==
    \/ sent'[s][c][a] = sent[s][c][a]
    \/ \E t \in Threads : /\ Finalizes(s, t, c)
                          /\ \E m \in Outgoing(s, t) :
                                sent'[s][c][a] = Append(sent[s][c][a], m)

\* Every step leaves a channel alone or appends a message of a finalizing thread.
LEMMA ChannelStep ==
    ASSUME TypeOK, [Next]_vars, NEW q \in Sums, NEW d \in Clients, NEW b \in Aggs
    PROVE  Extends(q, d, b)
<1>0. sent \in [Sums -> [Clients -> [Aggs -> Seq(Messages)]]]
  BY DEF TypeOK
<1>1. ASSUME NEW s \in Sums, NEW t \in Threads, NEW c \in Clients, NEW a \in Aggs,
             NEW m \in Outgoing(s, t), NEW out, SendTo(s, c, a, m, out), Finalizes(s, t, c)
      PROVE  Extends(q, d, b)
  <2>1. CASE UNCHANGED sent
    BY <2>1 DEF Extends
  <2>2. CASE sent' = [sent EXCEPT ![s][c][a] = Append(@, m)]
    <3>1. CASE q = s /\ d = c /\ b = a
      <4>1. sent'[q][d][b] = Append(sent[q][d][b], m)
        BY <1>0, <2>2, <3>1
      <4> QED
        BY <1>1, <3>1, <4>1 DEF Extends
    <3>2. CASE ~(q = s /\ d = c /\ b = a)
      <4>1. sent'[q][d][b] = sent[q][d][b]
        BY <1>0, <2>2, <3>2
      <4> QED
        BY <4>1 DEF Extends
    <3> QED
      BY <3>1, <3>2
  <2> QED
    BY <1>1, <2>1, <2>2 DEF SendTo
<1>2. ASSUME NEW s \in Sums, NEW t \in Threads, NEW c \in Clients,
             (\E f \in Fruits : SendPartialSum(s, t, c, f)) \/ SendEof(s, t, c)
      PROVE  Extends(q, d, b)
  <2>1. ASSUME NEW f \in Fruits, SendPartialSum(s, t, c, f) PROVE Extends(q, d, b)
    <3>1. PartialSum(f, AmountOf(snap[s][t], f)) \in Outgoing(s, t)
      BY DEF Outgoing
    <3> QED
      BY <1>1, <2>1, <3>1, ConstantTypes DEF SendPartialSum, AtEof, Finalizes
  <2>2. CASE SendEof(s, t, c)
    <3>1. EofMessage \in Outgoing(s, t)
      BY DEF Outgoing
    <3> QED
      BY <1>1, <2>2, <3>1 DEF SendEof, AtEof, Finalizes
  <2> QED
    BY <1>2, <2>1, <2>2
<1>3. UNCHANGED sent => Extends(q, d, b)
  BY DEF Extends
<1>4. ASSUME NEW s \in Sums, NEW r \in Records, DataStep(s, r) PROVE UNCHANGED sent
  BY <1>4 DEF DataStep, DeliverData, SkipData, CountData, ProcessData, ReleaseData
<1>5. ASSUME NEW s \in Sums, NEW t \in Threads, NEW c \in Clients,
             \/ WaitForClientIdle(s, t, c) \/ FinalizeSkip(s, t, c)
             \/ FinalizeBegin(s, t, c) \/ FinalizeEnd(s, t, c)
      PROVE  UNCHANGED sent
  BY <1>5 DEF WaitForClientIdle, FinalizeSkip, FinalizeBegin, FinalizeEnd
<1>6. ASSUME NEW s \in Sums, NEW c \in Clients, DeliveryStep(s, c) PROVE UNCHANGED sent
  BY <1>6 DEF DeliveryStep, DeliverEof, DeliverControl, BroadcastEof
<1>7. ASSUME OutsideStep PROVE UNCHANGED sent
  BY <1>7, OutsideFrame
<1> QED
  BY <1>2, <1>3, <1>4, <1>5, <1>6, <1>7
     DEF Next, DataThread, ControlThread, ProcessEof, Fault, Rest, DataStep, DeliveryStep,
         OutsideStep

\* A message of a channel that carries record r.
Carries(m, r) == m.type = "PARTIAL_SUM" /\ m.amount[r] > 0

\* What a thread sends carries only records of its copy, each under its fruit.
LEMMA OutgoingCarries ==
    ASSUME NEW s, NEW t, NEW m \in Outgoing(s, t), NEW r \in Records, Carries(m, r)
    PROVE  m.fruit = FruitOf[r] /\ m.amount[r] = snap[s][t][r] /\ snap[s][t][r] > 0
<1>1. PICK f \in Fruits : m = PartialSum(f, AmountOf(snap[s][t], f))
  BY DEF Outgoing, EofMessage, Carries
<1>2. /\ m.fruit = f /\ m.amount = AmountOf(snap[s][t], f)
  BY <1>1 DEF PartialSum
<1>3. m.amount[r] = IF FruitOf[r] = f THEN snap[s][t][r] ELSE 0
  BY <1>2, BagValues
<1> QED
  BY <1>2, <1>3 DEF Carries

\* What a thread sends is a message.
LEMMA OutgoingType ==
    ASSUME TypeOK, NEW s \in Sums, NEW t \in Threads, NEW m \in Outgoing(s, t)
    PROVE  m \in Messages
<1>1. snap[s][t] \in Bag
  BY DEF TypeOK
<1> QED
  BY <1>1, BagType DEF Outgoing

\* A message on a channel after a step was there before, or was just sent.
LEMMA NewMessage ==
    ASSUME TypeOK, [Next]_vars, NEW s \in Sums, NEW c \in Clients, NEW a \in Aggs,
           NEW i \in DOMAIN sent'[s][c][a]
    PROVE  \/ i \in DOMAIN sent[s][c][a] /\ sent'[s][c][a][i] = sent[s][c][a][i]
           \/ \E t \in Threads : Finalizes(s, t, c) /\ sent'[s][c][a][i] \in Outgoing(s, t)
<1>1. sent[s][c][a] \in Seq(Messages)
  BY DEF TypeOK
<1>2. Extends(s, c, a)
  BY ChannelStep
<1>3. CASE sent'[s][c][a] = sent[s][c][a]
  BY <1>3
<1>4. ASSUME NEW t \in Threads, Finalizes(s, t, c), NEW m \in Outgoing(s, t),
             sent'[s][c][a] = Append(sent[s][c][a], m)
      PROVE  \/ i \in DOMAIN sent[s][c][a] /\ sent'[s][c][a][i] = sent[s][c][a][i]
             \/ sent'[s][c][a][i] = m
  <2> DEFINE ch == sent[s][c][a]
  <2>1. /\ DOMAIN Append(ch, m) = 1 .. (Len(ch) + 1) /\ DOMAIN ch = 1 .. Len(ch)
        /\ Len(ch) \in Nat /\ Append(ch, m)[Len(ch) + 1] = m
        /\ \A j \in 1 .. Len(ch) : Append(ch, m)[j] = ch[j]
    <3>1. m \in Messages
      BY OutgoingType
    <3>2. ch \in Seq(Messages)
      BY <1>1
    <3>3. Append(ch, m) \in Seq(Messages)
      BY <3>1, <3>2, AppendProperties
    <3> HIDE DEF ch
    <3> QED
      BY <3>1, <3>2, <3>3, AppendProperties
  <2>2. CASE i = Len(ch) + 1
    BY <1>4, <2>1, <2>2
  <2>3. CASE i # Len(ch) + 1
    <3>1. i \in 1 .. Len(ch)
      BY <1>4, <2>1, <2>3
    <3> QED
      BY <1>4, <2>1, <3>1
  <2> QED
    BY <2>2, <2>3
<1> QED
  BY <1>2, <1>3, <1>4 DEF Extends

-----------------------------------------------------------------------------
(* Who has a record.                                                       *)

\* A Sum comes to have a record only by taking it from INPUT_QUEUE.
Takes(s, r) == /\ r \in pending
               /\ pending' = pending \ {r}
               /\ data' = [data EXCEPT ![s] = {r}]
               /\ UNCHANGED <<amounts, sent>>

\* What a channel carries after a step, its Sum had before it.
LEMMA CarriedStep ==
    ASSUME TypeOK, ThreadInv, OwnerInv, [Next]_vars, NEW s \in Sums, NEW r \in Records,
           Carried(s, r)'
    PROVE  Owns(s, r)
<1>1. PICK c \in Clients, a \in Aggs : \E i \in DOMAIN sent'[s][c][a] :
            Carries(sent'[s][c][a][i], r)
  BY DEF Carried, Carries
<1>2. PICK i \in DOMAIN sent'[s][c][a] : Carries(sent'[s][c][a][i], r)
  BY <1>1
<1>3. CASE i \in DOMAIN sent[s][c][a] /\ sent'[s][c][a][i] = sent[s][c][a][i]
  <2>1. Carried(s, r)
    BY <1>2, <1>3 DEF Carried, Carries
  <2> QED
    BY <2>1 DEF Owns
<1>4. ASSUME NEW t \in Threads, Finalizes(s, t, c), sent'[s][c][a][i] \in Outgoing(s, t)
      PROVE  Owns(s, r)
  <2>1. snap[s][t][r] > 0
    BY <1>2, <1>4, OutgoingCarries
  <2>2. amounts[s][r] = 1
    BY <1>4, <2>1 DEF OwnerInv, Finalizes
  <2> QED
    BY <2>2 DEF Owns
<1> QED
  BY <1>2, <1>3, <1>4, NewMessage

\* A Sum that has a record had it before, or takes it from INPUT_QUEUE.
LEMMA TakeStep ==
    ASSUME TypeOK, ThreadInv, OwnerInv, [Next]_vars, NEW s \in Sums, NEW r \in Records,
           Owns(s, r)'
    PROVE  Owns(s, r) \/ Takes(s, r)
<1>0. /\ data \in [Sums -> SUBSET published]
      /\ amounts \in [Sums -> Bag]
  BY DEF TypeOK
<1> DEFINE Goal == Owns(s, r) \/ Takes(s, r)
<1>1. Carried(s, r)' => Goal
  BY CarriedStep
<1>2. UNCHANGED <<data, amounts>> => Goal
  BY <1>1 DEF Owns
<1>3. ASSUME NEW q \in Sums, NEW p \in Records, DataStep(q, p) PROVE Goal
  <2>1. CASE DeliverData(q, p)
    <3>1. CASE q = s /\ p = r
      BY <2>1, <3>1 DEF DeliverData, Takes
    <3>2. CASE ~(q = s /\ p = r)
      <4>1. r \in data'[s] => r \in data[s]
        BY <1>0, <2>1, <3>2 DEF DeliverData
      <4>2. UNCHANGED amounts
        BY <2>1 DEF DeliverData
      <4> QED
        BY <1>1, <4>1, <4>2 DEF Owns
    <3> QED
      BY <3>1, <3>2
  <2>2. CASE SkipData(q, p) \/ ReleaseData(q, p)
    <3>1. r \in data'[s] => r \in data[s]
      BY <1>0, <2>2 DEF SkipData, ReleaseData
    <3>2. UNCHANGED amounts
      BY <2>2 DEF SkipData, ReleaseData
    <3> QED
      BY <1>1, <3>1, <3>2 DEF Owns
  <2>3. CASE CountData(q, p)
    BY <1>2, <2>3 DEF CountData
  <2>4. CASE ProcessData(q, p)
    <3>1. UNCHANGED data /\ p \in data[q]
      BY <2>4 DEF ProcessData
    <3>2. amounts'[s][r] > 0 => amounts[s][r] > 0 \/ r \in data[s]
      <4>1. CASE UNCHANGED amounts
        BY <4>1
      <4>2. CASE amounts' = [amounts EXCEPT ![q] = Added(@, p)]
        BY <1>0, <3>1, <4>2, BagValues
      <4> QED
        BY <2>4, <4>1, <4>2 DEF ProcessData
    <3> QED
      BY <1>1, <3>1, <3>2 DEF Owns
  <2> QED
    BY <1>3, <2>1, <2>2, <2>3, <2>4 DEF DataStep
<1>4. ASSUME NEW q \in Sums, NEW t \in Threads, NEW c \in Clients, EofStep(q, t, c) PROVE Goal
  <2>1. CASE FinalizeEnd(q, t, c)
    <3>1. UNCHANGED data /\ amounts' = [amounts EXCEPT ![q] = WithoutEntry(@, c)]
      BY <2>1 DEF FinalizeEnd
    <3>2. amounts'[s][r] > 0 => amounts[s][r] > 0
      BY <1>0, <3>1, BagValues
    <3> QED
      BY <1>1, <3>1, <3>2 DEF Owns
  <2>2. CASE ~FinalizeEnd(q, t, c)
    <3>1. UNCHANGED <<data, amounts>>
      BY <1>4, <2>2 DEF EofStep, WaitForClientIdle, FinalizeSkip, FinalizeBegin, Sends
    <3> QED
      BY <1>2, <3>1
  <2> QED
    BY <2>1, <2>2
<1>5. ASSUME NEW q \in Sums, NEW c \in Clients, DeliveryStep(q, c) PROVE Goal
  <2>1. UNCHANGED <<data, amounts>>
    BY <1>5 DEF DeliveryStep, DeliverEof, DeliverControl, BroadcastEof
  <2> QED
    BY <1>2, <2>1
<1>6. ASSUME OutsideStep PROVE Goal
  BY <1>2, <1>6, OutsideFrame
<1> QED
  BY <1>3, <1>4, <1>5, <1>6, NextCases

\* While no data consumer is lost, what left INPUT_QUEUE does not come back.
LEMMA QueueStep ==
    ASSUME TypeOK, [Next]_vars, DataConsumersIntact', NEW r \in published \ pending
    PROVE  r \in published' \ pending'
<1>0. consumer \in [Sums -> [Threads -> {"down", "up", "lost"}]]
  BY DEF TypeOK
<1>1. ASSUME NEW s \in Sums, NEW p \in Records, DataStep(s, p) PROVE r \in published' \ pending'
  BY <1>1 DEF DataStep, DeliverData, SkipData, CountData, ProcessData, ReleaseData
<1>2. ASSUME NEW s \in Sums, NEW t \in Threads, NEW c \in Clients, EofStep(s, t, c)
      PROVE  r \in published' \ pending'
  BY <1>2 DEF EofStep, WaitForClientIdle, FinalizeSkip, FinalizeBegin, Sends, FinalizeEnd
<1>3. ASSUME NEW s \in Sums, NEW c \in Clients, DeliveryStep(s, c)
      PROVE  r \in published' \ pending'
  BY <1>3 DEF DeliveryStep, DeliverEof, DeliverControl, BroadcastEof
<1>4. ASSUME NEW s \in Sums, NEW t \in Threads, LoseConsumer(s, t)
      PROVE  r \in published' \ pending'
  <2>1. t # "data"
    <3> SUFFICES ASSUME t = "data" PROVE FALSE
      OBVIOUS
    <3>1. consumer'[s]["data"] = "lost"
      BY <1>0, <1>4, Labels DEF LoseConsumer
    <3> QED
      BY <3>1 DEF DataConsumersIntact
  <2> QED
    BY <1>4, <2>1 DEF LoseConsumer
<1>5. ASSUME NEW p \in Records, PublishData(p) PROVE r \in published' \ pending'
  BY <1>5 DEF PublishData
<1>6. CASE \/ \E c \in Clients : PublishEof(c)
           \/ \E s \in Sums : Start(s) \/ BreakCtrlLink(s)
           \/ \E s \in Sums, a \in Aggs : BreakDataLink(s, a)
           \/ UNCHANGED vars
  BY <1>6 DEF PublishEof, Start, BreakCtrlLink, BreakDataLink, vars
<1> QED
  BY <1>1, <1>2, <1>3, <1>4, <1>5, <1>6, NextCases DEF OutsideStep

\* The first part of OwnerInv: one Sum at most has a record, out of INPUT_QUEUE.
OneOwner ==
    \A s \in Sums, r \in Records :
        Owns(s, r) => /\ r \in published \ pending
                      /\ \A q \in Sums \ {s} : ~Owns(q, r)

\* What the gateway published stays published.
LEMMA PublishedGrows ==
    ASSUME [Next]_vars
    PROVE  published \subseteq published'
<1>1. ASSUME NEW s \in Sums, NEW r \in Records, DataStep(s, r) PROVE UNCHANGED published
  BY <1>1 DEF DataStep, DeliverData, SkipData, CountData, ProcessData, ReleaseData
<1>2. ASSUME NEW s \in Sums, NEW t \in Threads, NEW c \in Clients, EofStep(s, t, c)
      PROVE  UNCHANGED published
  BY <1>2 DEF EofStep, WaitForClientIdle, FinalizeSkip, FinalizeBegin, Sends, FinalizeEnd
<1>3. ASSUME NEW s \in Sums, NEW c \in Clients, DeliveryStep(s, c) PROVE UNCHANGED published
  BY <1>3 DEF DeliveryStep, DeliverEof, DeliverControl, BroadcastEof
<1>4. ASSUME OutsideStep PROVE published \subseteq published'
  BY <1>4 DEF OutsideStep, PublishData, PublishEof, Start, LoseConsumer, BreakDataLink,
              BreakCtrlLink, vars
<1> QED
  BY <1>1, <1>2, <1>3, <1>4, NextCases

\* A record that leaves INPUT_QUEUE has one owner, and keeps it.
LEMMA OneOwnerStep ==
    ASSUME TypeOK, ThreadInv, OwnerInv, [Next]_vars, DataConsumersIntact'
    PROVE  OneOwner'
<1> SUFFICES ASSUME NEW s \in Sums, NEW r \in Records, Owns(s, r)'
             PROVE  /\ r \in published' \ pending'
                    /\ \A q \in Sums \ {s} : ~Owns(q, r)'
  BY DEF OneOwner
<1>0. /\ data \in [Sums -> SUBSET published]
      /\ pending \in SUBSET published
      /\ \A q \in Sums : Owns(q, r) => r \in published \ pending
      /\ \A q, p \in Sums : Owns(q, r) /\ Owns(p, r) => q = p
  BY DEF TypeOK, OwnerInv
<1>1. \A q \in Sums : Owns(q, r)' => Owns(q, r) \/ Takes(q, r)
  BY TakeStep
<1>2. CASE Owns(s, r)
  <2>1. r \in published' \ pending'
    BY <1>0, <1>2, QueueStep
  <2>2. \A q \in Sums : ~Takes(q, r)
    BY <1>0, <1>2 DEF Takes
  <2> QED
    BY <1>0, <1>1, <1>2, <2>1, <2>2
<1>3. CASE Takes(s, r)
  <2>1. r \in pending /\ r \notin pending'
    BY <1>3 DEF Takes
  <2>2. r \in published'
    <3>1. r \in published
      BY <1>0, <2>1
    <3>2. \A x \in published : x \in published'
      BY PublishedGrows
    <3> QED
      BY <3>1, <3>2
  <2>3. ASSUME NEW q \in Sums \ {s}, Owns(q, r)' PROVE FALSE
    <3>1. ~Owns(q, r) /\ Takes(q, r)
      BY <1>0, <1>1, <2>1, <2>3
    <3>2. data' = [data EXCEPT ![s] = {r}] /\ data' = [data EXCEPT ![q] = {r}]
      BY <1>3, <3>1 DEF Takes
    <3>3. r \in data[q]
      BY <1>0, <2>3, <3>2
    <3> QED
      BY <3>1, <3>3 DEF Owns
  <2> QED
    BY <2>1, <2>2, <2>3
<1> QED
  BY <1>1, <1>2, <1>3

-----------------------------------------------------------------------------
(* How often a Sum adds a record.                                          *)

\* The other parts of OwnerInv: a record is added once, one in hand has not been
\* added yet, and a copy holds records of the client it was made for.
AddedOnce ==
    \A s \in Sums, r \in Records :
        /\ amounts[s][r] <= 1
        /\ (r \in data[s] /\ pc[s]["data"] \in {"received", "counted"}) => amounts[s][r] = 0
        /\ \A t \in Threads : (pc[s][t] = "sending" /\ snap[s][t][r] > 0) =>
               /\ snap[s][t][r] = 1 /\ amounts[s][r] = 1
               /\ ClientOf[r] \in eof[s][t]

\* OwnerInv, as it is defined for the runs, is these two parts.
LEMMA OwnerParts == OwnerInv <=> OneOwner /\ AddedOnce
BY DEF OwnerInv, OneOwner, AddedOnce

\* Steps that add nothing, copy nothing, and only let threads leave the control
\* points that AddedOnce is about.
Quiet ==
    /\ UNCHANGED <<amounts, snap>>
    /\ \A q \in Sums : data'[q] \subseteq data[q]
    /\ \A q \in Sums, u \in Threads :
         pc'[q][u] \in {"received", "counted", "sending"} =>
            pc'[q][u] = pc[q][u] /\ eof'[q][u] = eof[q][u]

\* Such a step preserves AddedOnce.
LEMMA QuietStep ==
    ASSUME AddedOnce, Quiet
    PROVE  AddedOnce'
<1>1. SUFFICES ASSUME NEW s \in Sums, NEW r \in Records
               PROVE  /\ amounts'[s][r] <= 1
                      /\ (r \in data'[s] /\ pc'[s]["data"] \in {"received", "counted"})
                            => amounts'[s][r] = 0
                      /\ \A t \in Threads : (pc'[s][t] = "sending" /\ snap'[s][t][r] > 0) =>
                            /\ snap'[s][t][r] = 1 /\ amounts'[s][r] = 1
                            /\ ClientOf[r] \in eof'[s][t]
  BY DEF AddedOnce
<1>2. amounts'[s][r] <= 1
  BY DEF AddedOnce, Quiet
<1>3. (r \in data'[s] /\ pc'[s]["data"] \in {"received", "counted"}) => amounts'[s][r] = 0
  BY Labels DEF AddedOnce, Quiet
<1>4. ASSUME NEW t \in Threads, pc'[s][t] = "sending", snap'[s][t][r] > 0
      PROVE  /\ snap'[s][t][r] = 1 /\ amounts'[s][r] = 1
             /\ ClientOf[r] \in eof'[s][t]
  BY <1>4 DEF AddedOnce, Quiet
<1> QED
  BY <1>2, <1>3, <1>4

\* Every step preserves AddedOnce.
LEMMA AddedOnceStep ==
    ASSUME TypeOK, ThreadInv, OwnerInv, [Next]_vars
    PROVE  AddedOnce'
<1>0. /\ pc \in [Sums -> [Threads -> Pcs]]
      /\ eof \in [Sums -> [Threads -> SUBSET eofSent]]
      /\ data \in [Sums -> SUBSET published]
      /\ amounts \in [Sums -> Bag]
      /\ snap \in [Sums -> [Threads -> Bag]]
  BY DEF TypeOK
<1> USE Labels
<1>1. AddedOnce /\ OneOwner
  BY OwnerParts
<1>2. Quiet => AddedOnce'
  BY <1>1, QuietStep
<1>3. ASSUME NEW s \in Sums, NEW r \in Records, DeliverData(s, r) PROVE AddedOnce'
  <2>1. /\ UNCHANGED <<amounts, snap, eof>>
        /\ data' = [data EXCEPT ![s] = {r}]
        /\ pc' = [pc EXCEPT ![s]["data"] = "received"]
        /\ r \in pending
    BY <1>3 DEF DeliverData
  <2>2. amounts[s][r] = 0
    <3>1. ~(amounts[s][r] > 0)
      BY <1>1, <2>1 DEF OneOwner, Owns
    <3>2. amounts[s][r] \in Nat
      BY <1>0 DEF Bag
    <3> QED
      BY <3>1, <3>2
  <2>3. \A q \in Sums, x \in Records :
          (x \in data'[q] /\ pc'[q]["data"] \in {"received", "counted"}) =>
            \/ q = s /\ x = r
            \/ x \in data[q] /\ pc[q]["data"] \in {"received", "counted"}
    BY <1>0, <2>1
  <2>4. \A q \in Sums, u \in Threads : pc'[q][u] = "sending" => pc[q][u] = "sending"
    BY <1>0, <2>1
  <2> QED
    BY <1>1, <2>1, <2>2, <2>3, <2>4 DEF AddedOnce
<1>4. ASSUME NEW s \in Sums, NEW r \in Records, SkipData(s, r) \/ ReleaseData(s, r)
      PROVE  AddedOnce'
  <2>1. /\ UNCHANGED <<amounts, snap, eof>>
        /\ data' = [data EXCEPT ![s] = {}]
        /\ pc' = [pc EXCEPT ![s]["data"] = "idle"]
    BY <1>4 DEF SkipData, ReleaseData
  <2>2. \A q \in Sums : data'[q] \subseteq data[q]
    BY <1>0, <2>1
  <2>3. \A q \in Sums, u \in Threads : pc'[q][u] = "idle" \/ pc'[q][u] = pc[q][u]
    BY <1>0, <2>1
  <2> QED
    BY <1>2, <2>1, <2>2, <2>3 DEF Quiet
<1>5. ASSUME NEW s \in Sums, NEW r \in Records, CountData(s, r) PROVE AddedOnce'
  <2>1. /\ UNCHANGED <<amounts, snap, eof, data>>
        /\ pc' = [pc EXCEPT ![s]["data"] = "counted"]
        /\ pc[s]["data"] = "received"
    BY <1>5 DEF CountData
  <2>2. \A q \in Sums : pc'[q]["data"] \in {"received", "counted"} =>
                            pc[q]["data"] \in {"received", "counted"}
    BY <1>0, <2>1
  <2>3. \A q \in Sums, u \in Threads : pc'[q][u] = "sending" => pc[q][u] = "sending"
    BY <1>0, <2>1
  <2> QED
    BY <1>1, <2>1, <2>2, <2>3 DEF AddedOnce
<1>6. ASSUME NEW s \in Sums, NEW r \in Records, ProcessData(s, r) PROVE AddedOnce'
  <2>1. /\ UNCHANGED <<snap, eof, data>>
        /\ pc' = [pc EXCEPT ![s]["data"] = "processed"]
        /\ pc[s]["data"] = "counted" /\ r \in data[s]
    BY <1>6 DEF ProcessData
  <2>2. \A q \in Sums, u \in Threads : pc'[q][u] = "processed" \/ pc'[q][u] = pc[q][u]
    BY <1>0, <2>1
  <2>3. CASE UNCHANGED amounts
    BY <1>2, <2>1, <2>2, <2>3 DEF Quiet
  <2>4. CASE amounts' = [amounts EXCEPT ![s] = Added(@, r)]
    <3>1. r \in Records /\ amounts[s][r] = 0
      BY <1>1, <2>1 DEF AddedOnce
    <3>2. \A q \in Sums, x \in Records :
            amounts'[q][x] = IF q = s /\ x = r THEN 1 ELSE amounts[q][x]
      <4>1. \A q \in Sums : amounts'[q] = IF q = s THEN Added(amounts[s], r) ELSE amounts[q]
        BY <1>0, <2>4
      <4> QED
        BY <1>0, <3>1, <4>1, BagValues
    <3>3. \A q \in Sums, x \in Records :
            (x \in data'[q] /\ pc'[q]["data"] \in {"received", "counted"}) =>
                q # s /\ x \in data[q] /\ pc[q]["data"] \in {"received", "counted"}
      BY <1>0, <2>1
    <3>4. \A u \in Threads : pc[s][u] = "sending" => ~(snap[s][u][r] > 0)
      BY <1>1, <3>1 DEF AddedOnce
    <3>5. \A q \in Sums, u \in Threads : pc'[q][u] = "sending" => pc[q][u] = "sending"
      BY <2>2
    <3> QED
      BY <1>1, <2>1, <3>2, <3>3, <3>4, <3>5 DEF AddedOnce
  <2> QED
    BY <1>6, <2>3, <2>4 DEF ProcessData
<1>7. ASSUME NEW s \in Sums, NEW t \in Threads, NEW c \in Clients,
             WaitForClientIdle(s, t, c) \/ FinalizeSkip(s, t, c) \/ Sends(s, t, c)
      PROVE  AddedOnce'
  <2>1. /\ UNCHANGED <<amounts, snap, data>>
        /\ \/ UNCHANGED <<pc, eof>>
           \/ pc' = [pc EXCEPT ![s][t] = "finalize"] /\ UNCHANGED eof
           \/ pc' = [pc EXCEPT ![s][t] = "idle"] /\ eof' = [eof EXCEPT ![s][t] = {}]
    BY <1>7 DEF WaitForClientIdle, FinalizeSkip, Sends, Continues, Aborts, Ack
  <2>2. \A q \in Sums, u \in Threads :
          \/ pc'[q][u] \in {"idle", "finalize"}
          \/ pc'[q][u] = pc[q][u] /\ eof'[q][u] = eof[q][u]
    <3>1. CASE UNCHANGED <<pc, eof>>
      BY <3>1
    <3>2. CASE pc' = [pc EXCEPT ![s][t] = "finalize"] /\ UNCHANGED eof
      BY <1>0, <3>2
    <3>3. CASE pc' = [pc EXCEPT ![s][t] = "idle"] /\ eof' = [eof EXCEPT ![s][t] = {}]
      BY <1>0, <3>3
    <3> QED
      BY <2>1, <3>1, <3>2, <3>3
  <2> QED
    BY <1>2, <2>1, <2>2 DEF Quiet
<1>8. ASSUME NEW s \in Sums, NEW t \in Threads, NEW c \in Clients, FinalizeBegin(s, t, c)
      PROVE  AddedOnce'
  <2>1. /\ UNCHANGED <<amounts, eof, data>>
        /\ pc' = [pc EXCEPT ![s][t] = "sending"]
        /\ snap' = [snap EXCEPT ![s][t] = EntryOf(amounts[s], c)]
        /\ c \in eof[s][t]
    BY <1>8 DEF FinalizeBegin, AtEof
  <2>2. \A q \in Sums : pc'[q]["data"] \in {"received", "counted"} =>
                            pc[q]["data"] \in {"received", "counted"}
    BY <1>0, <2>1
  <2>3. \A q \in Sums, u \in Threads : ~(q = s /\ u = t) =>
                            pc'[q][u] = pc[q][u] /\ snap'[q][u] = snap[q][u]
    BY <1>0, <2>1
  <2>4. ASSUME NEW x \in Records, snap'[s][t][x] > 0
        PROVE  snap'[s][t][x] = 1 /\ amounts[s][x] = 1 /\ ClientOf[x] \in eof[s][t]
    <3>1. snap'[s][t][x] = IF ClientOf[x] = c THEN amounts[s][x] ELSE 0
      BY <1>0, <2>1, BagValues
    <3>2. amounts[s][x] \in Nat /\ amounts[s][x] <= 1
      BY <1>0, <1>1 DEF Bag, AddedOnce
    <3> QED
      BY <2>1, <2>4, <3>1, <3>2
  <2> QED
    BY <1>1, <2>1, <2>2, <2>3, <2>4 DEF AddedOnce
<1>9. ASSUME NEW s \in Sums, NEW t \in Threads, NEW c \in Clients, FinalizeEnd(s, t, c)
      PROVE  AddedOnce'
  <2>1. /\ UNCHANGED <<snap, data>>
        /\ amounts' = [amounts EXCEPT ![s] = WithoutEntry(@, c)]
        /\ Finalizes(s, t, c)
    BY <1>9 DEF FinalizeEnd, AtEof, Finalizes
  <2>2. \A q \in Sums, u \in Threads :
          pc'[q][u] \in {"received", "counted", "sending"} =>
            pc'[q][u] = pc[q][u] /\ eof'[q][u] = eof[q][u] /\ ~(q = s /\ u = t)
    <3>1. CASE t = "control" /\ Ack(s, t)
      BY <1>0, <3>1 DEF Ack
    <3>2. CASE t = "data" /\ pc' = [pc EXCEPT ![s][t] = "broadcast"] /\ UNCHANGED eof
      BY <1>0, <3>2
    <3> QED
      BY <1>9, <3>1, <3>2 DEF FinalizeEnd
  <2>3. \A q \in Sums, x \in Records :
          amounts'[q][x] = IF q = s /\ ClientOf[x] = c THEN 0 ELSE amounts[q][x]
    <3>1. \A q \in Sums : amounts'[q] = IF q = s THEN WithoutEntry(amounts[s], c) ELSE amounts[q]
      BY <1>0, <2>1
    <3> QED
      BY <3>1, BagValues
  <2>4. ASSUME NEW u \in Threads, NEW x \in Records, u # t, pc[s][u] = "sending",
               ClientOf[x] \in eof[s][u]
        PROVE  ClientOf[x] # c
    BY <2>1, <2>4, ConstantTypes DEF ThreadInv, Finalizes
  <2>5. SUFFICES ASSUME NEW q \in Sums, NEW x \in Records
                 PROVE  /\ amounts'[q][x] <= 1
                        /\ (x \in data'[q] /\ pc'[q]["data"] \in {"received", "counted"})
                              => amounts'[q][x] = 0
                        /\ \A u \in Threads : (pc'[q][u] = "sending" /\ snap'[q][u][x] > 0) =>
                              /\ snap'[q][u][x] = 1 /\ amounts'[q][x] = 1
                              /\ ClientOf[x] \in eof'[q][u]
    BY DEF AddedOnce
  <2>6. amounts'[q][x] <= 1
    BY <1>1, <2>3 DEF AddedOnce
  <2>7. (x \in data'[q] /\ pc'[q]["data"] \in {"received", "counted"}) => amounts'[q][x] = 0
    BY <1>1, <2>1, <2>2, <2>3 DEF AddedOnce
  <2>8. ASSUME NEW u \in Threads, pc'[q][u] = "sending", snap'[q][u][x] > 0
        PROVE  /\ snap'[q][u][x] = 1 /\ amounts'[q][x] = 1
               /\ ClientOf[x] \in eof'[q][u]
    <3>1. /\ pc[q][u] = "sending" /\ eof'[q][u] = eof[q][u] /\ ~(q = s /\ u = t)
          /\ snap[q][u][x] > 0
      BY <2>1, <2>2, <2>8
    <3>2. snap[q][u][x] = 1 /\ amounts[q][x] = 1 /\ ClientOf[x] \in eof[q][u]
      BY <1>1, <3>1 DEF AddedOnce
    <3>3. ~(q = s /\ ClientOf[x] = c)
      BY <2>4, <3>1, <3>2
    <3> QED
      BY <2>1, <2>3, <3>1, <3>2, <3>3
  <2> QED
    BY <2>6, <2>7, <2>8
<1>10. ASSUME NEW s \in Sums, NEW c \in Clients, DeliveryStep(s, c) PROVE AddedOnce'
  <2>1. /\ UNCHANGED <<amounts, snap, data>>
        /\ \E t \in Threads :
             /\ \E e : eof' = [eof EXCEPT ![s][t] = e]
             /\ \/ pc' = [pc EXCEPT ![s][t] = "idle"]
                \/ pc' = [pc EXCEPT ![s][t] = "waiting"]
    BY <1>10 DEF DeliveryStep, DeliverEof, DeliverControl, BroadcastEof, Ack, Nack
  <2>2. \A q \in Sums, u \in Threads :
          \/ pc'[q][u] \in {"idle", "waiting"}
          \/ pc'[q][u] = pc[q][u] /\ eof'[q][u] = eof[q][u]
    BY <1>0, <2>1
  <2> QED
    BY <1>2, <2>1, <2>2 DEF Quiet
<1>11. ASSUME OutsideStep PROVE AddedOnce'
  <2>1. UNCHANGED <<pc, eof, data, amounts, snap>>
    BY <1>11, OutsideFrame
  <2> QED
    BY <1>2, <2>1 DEF Quiet
<1> QED
  BY <1>3, <1>4, <1>5, <1>6, <1>7, <1>8, <1>9, <1>10, <1>11, NextCases DEF DataStep, EofStep

\* The messages carry records of their own client and fruit, each once.
LEMMA MessageStep ==
    ASSUME TypeOK, ThreadInv, OwnerInv, MessageInv, [Next]_vars
    PROVE  MessageInv'
<1> SUFFICES ASSUME NEW s \in Sums, NEW r \in Records, NEW c \in Clients, NEW a \in Aggs,
                    NEW i \in DOMAIN sent'[s][c][a], Carries(sent'[s][c][a][i], r)
             PROVE  /\ sent'[s][c][a][i].amount[r] = 1
                    /\ c = ClientOf[r] /\ sent'[s][c][a][i].fruit = FruitOf[r]
  BY DEF MessageInv, Carries
<1>1. CASE i \in DOMAIN sent[s][c][a] /\ sent'[s][c][a][i] = sent[s][c][a][i]
  BY <1>1 DEF MessageInv, Carries
<1>2. ASSUME NEW t \in Threads, Finalizes(s, t, c), sent'[s][c][a][i] \in Outgoing(s, t)
      PROVE  /\ sent'[s][c][a][i].amount[r] = 1
             /\ c = ClientOf[r] /\ sent'[s][c][a][i].fruit = FruitOf[r]
  <2>1. /\ sent'[s][c][a][i].fruit = FruitOf[r]
        /\ sent'[s][c][a][i].amount[r] = snap[s][t][r] /\ snap[s][t][r] > 0
    BY <1>2, OutgoingCarries
  <2>2. snap[s][t][r] = 1 /\ ClientOf[r] \in eof[s][t]
    BY <1>2, <2>1 DEF OwnerInv, Finalizes
  <2>3. c = ClientOf[r]
    BY <1>2, <2>2 DEF ThreadInv, Finalizes
  <2> QED
    BY <2>1, <2>2, <2>3
<1> QED
  BY <1>1, <1>2, NewMessage

-----------------------------------------------------------------------------
\* While the data consumers keep their connections, a record is with one Sum.
OwnedOnce == DataConsumersIntact => OwnerInv /\ MessageInv

\* It stays so.
LEMMA OwnedOnceHolds == Spec => []OwnedOnce
<1>1. Init => OwnedOnce
  <2> SUFFICES ASSUME Init PROVE OwnerInv /\ MessageInv
    BY DEF OwnedOnce
  <2> USE Labels DEF Init
  <2>1. \A s \in Sums, r \in Records : ~Owns(s, r)
    BY DEF Owns, Carried, NoRecords
  <2>2. OwnerInv
    BY <2>1 DEF OwnerInv, NoRecords
  <2>3. MessageInv
    BY DEF MessageInv
  <2> QED
    BY <2>2, <2>3
<1>2. Invariant /\ OwnedOnce /\ [Next]_vars => OwnedOnce'
  <2> SUFFICES ASSUME TypeOK, ThreadInv, OwnedOnce, [Next]_vars, DataConsumersIntact'
               PROVE  OwnerInv' /\ MessageInv'
    BY DEF Invariant, OwnedOnce
  <2>1. OwnerInv /\ MessageInv
    BY IntactBefore DEF OwnedOnce
  <2>2. OneOwner' /\ AddedOnce'
    BY <2>1, OneOwnerStep, AddedOnceStep
  <2>3. OwnerInv'
    BY <2>2 DEF OwnerInv, OneOwner, AddedOnce
  <2> QED
    BY <2>1, <2>3, MessageStep
<1> QED
  BY <1>1, <1>2, InvariantHolds, PTL DEF Spec

\* No record is counted twice, by two Sums or by one, whatever is sent again.
THEOREM NothingCountedTwice == Spec => []NoDoubleCount
<1>1. OwnedOnce => NoDoubleCount
  BY DEF OwnedOnce, OwnerInv, MessageInv, NoDoubleCount
<1> QED
  BY <1>1, OwnedOnceHolds, PTL

-----------------------------------------------------------------------------
(* The kinds of message.                                                   *)

Partial(m) == m.type = "PARTIAL_SUM"

\* A message is a partial sum or the EOF.
LEMMA TwoKinds ==
    ASSUME NEW m \in Messages
    PROVE  /\ m # EofMessage => Partial(m)
           /\ Partial(m) => m # EofMessage /\ m \in PartialSums
BY DEF Messages, PartialSums, EofMessage, Partial

\* What a thread sends, when it is not the EOF, is an amount of its copy.
LEMMA OutgoingPartial ==
    ASSUME TypeOK, NEW s \in Sums, NEW t \in Threads, NEW m \in Outgoing(s, t), Partial(m)
    PROVE  /\ m \in PartialSums
           /\ \A r \in Records :
                m.amount[r] = IF FruitOf[r] = m.fruit THEN snap[s][t][r] ELSE 0
<1>1. m \in PartialSums
  BY OutgoingType, TwoKinds
<1>2. m # EofMessage
  BY <1>1 DEF PartialSums, EofMessage
<1>3. PICK f \in Fruits : m = PartialSum(f, AmountOf(snap[s][t], f))
  BY <1>2 DEF Outgoing
<1>4. m.fruit = f /\ m.amount = AmountOf(snap[s][t], f)
  BY <1>3 DEF PartialSum
<1> QED
  BY <1>1, <1>4, BagValues

\* The messages of a channel after a step that appends one: the old ones, then the new.
LEMMA AppendedChannel ==
    ASSUME NEW ch \in Seq(Messages), NEW m \in Messages
    PROVE  /\ Len(ch) \in Nat /\ DOMAIN ch = 1 .. Len(ch)
           /\ DOMAIN Append(ch, m) = 1 .. (Len(ch) + 1)
           /\ Len(Append(ch, m)) = Len(ch) + 1 /\ Append(ch, m)[Len(ch) + 1] = m
           /\ \A i \in 1 .. Len(ch) : Append(ch, m)[i] = ch[i]
<1>1. Append(ch, m) \in Seq(Messages)
  BY AppendProperties
<1> QED
  BY <1>1, AppendProperties

-----------------------------------------------------------------------------
(* What is sent again.                                                     *)

\* The records of a client that a message of its fruit misses and a later one may have.
Behind(s, c, m, r) ==
    /\ ClientOf[r] = c /\ FruitOf[r] = m.fruit /\ m.amount[r] = 0
    /\ amounts[s][r] > 0 \/ r \in data[s]

UpToDate(s, c, m) ==
    /\ \A r \in Records : m.amount[r] <= amounts[s][r]
    /\ \A q, r \in Records : Behind(s, c, m, q) /\ Behind(s, c, m, r) => q = r

NoMoreThan(m, bag) == \A r \in Records : m.amount[r] <= bag[r]

\* A message on a channel carries no more than its Sum has, and no more than the copy that
\* is being sent; one record may still be added to it.
PartialInv(s, c, m) ==
    /\ Settled(c)
    /\ c \notin finished[s] => UpToDate(s, c, m)
    /\ \A t \in Threads : Finalizes(s, t, c) => NoMoreThan(m, snap[s][t])

Resent(m, n) ==
    /\ \A r \in Records : m.amount[r] <= n.amount[r]
    /\ \A q, r \in Records :
         (m.amount[q] < n.amount[q] /\ m.amount[r] < n.amount[r]) => q = r

RetryInv ==
    \A s \in Sums, c \in Clients, a \in Aggs :
        /\ \A i \in DOMAIN sent[s][c][a] :
             Partial(sent[s][c][a][i]) => PartialInv(s, c, sent[s][c][a][i])
        /\ \A i, j \in DOMAIN sent[s][c][a] :
             (/\ i < j /\ Partial(sent[s][c][a][i]) /\ Partial(sent[s][c][a][j])
              /\ sent[s][c][a][i].fruit = sent[s][c][a][j].fruit) =>
                 Resent(sent[s][c][a][i], sent[s][c][a][j])

\* Amounts only grow, until the client is finished.
LEMMA AmountsStay ==
    ASSUME TypeOK, [Next]_vars, NEW s \in Sums, NEW r \in Records
    PROVE  \/ amounts[s][r] <= amounts'[s][r]
           \/ \E t \in Threads : FinalizeEnd(s, t, ClientOf[r])
<1>0. amounts \in [Sums -> Bag] /\ amounts[s][r] \in Nat
  BY DEF TypeOK, Bag
<1> DEFINE Goal == \/ amounts[s][r] <= amounts'[s][r]
                   \/ \E t \in Threads : FinalizeEnd(s, t, ClientOf[r])
<1>1. UNCHANGED amounts => Goal
  BY <1>0
<1>2. ASSUME NEW q \in Sums, NEW p \in Records, ProcessData(q, p) PROVE Goal
  <2>1. CASE amounts' = [amounts EXCEPT ![q] = Added(@, p)]
    <3>1. CASE q = s
      <4>1. amounts'[s][r] = IF r = p THEN amounts[s][r] + 1 ELSE amounts[s][r]
        BY <1>0, <2>1, <3>1, BagValues
      <4> QED
        BY <1>0, <4>1
    <3>2. CASE q # s
      BY <1>0, <2>1, <3>2
    <3> QED
      BY <3>1, <3>2
  <2> QED
    BY <1>1, <1>2, <2>1 DEF ProcessData
<1>3. ASSUME NEW q \in Sums, NEW t \in Threads, NEW c \in Clients, FinalizeEnd(q, t, c)
      PROVE  Goal
  <2>1. amounts' = [amounts EXCEPT ![q] = WithoutEntry(@, c)]
    BY <1>3 DEF FinalizeEnd
  <2>2. CASE q = s /\ ClientOf[r] = c
    BY <1>3, <2>2
  <2>3. CASE q = s /\ ClientOf[r] # c
    <3>1. amounts'[s][r] = amounts[s][r]
      BY <1>0, <2>1, <2>3, BagValues
    <3> QED
      BY <1>0, <3>1
  <2>4. CASE q # s
    BY <1>0, <2>1, <2>4
  <2> QED
    BY <2>2, <2>3, <2>4
<1>4. ASSUME NEW q \in Sums, NEW p \in Records, DataStep(q, p) PROVE Goal
  BY <1>1, <1>2, <1>4 DEF DataStep, DeliverData, SkipData, CountData, ReleaseData
<1>5. ASSUME NEW q \in Sums, NEW t \in Threads, NEW c \in Clients, EofStep(q, t, c) PROVE Goal
  BY <1>1, <1>3, <1>5 DEF EofStep, WaitForClientIdle, FinalizeSkip, FinalizeBegin, Sends
<1>6. ASSUME NEW q \in Sums, NEW c \in Clients, DeliveryStep(q, c) PROVE Goal
  BY <1>1, <1>6 DEF DeliveryStep, DeliverEof, DeliverControl, BroadcastEof
<1>7. ASSUME OutsideStep PROVE Goal
  BY <1>1, <1>7, OutsideFrame
<1> QED
  BY <1>4, <1>5, <1>6, <1>7, NextCases

\* The amounts of a client that is not finished only grow.
LEMMA AmountsGrow ==
    ASSUME TypeOK, [Next]_vars, NEW s \in Sums, NEW r \in Records,
           ClientOf[r] \notin finished'[s]
    PROVE  amounts[s][r] <= amounts'[s][r]
<1>1. ASSUME NEW t \in Threads, FinalizeEnd(s, t, ClientOf[r]) PROVE FALSE
  <2>1. finished' = [finished EXCEPT ![s] = @ \cup {ClientOf[r]}]
    BY <1>1 DEF FinalizeEnd
  <2> QED
    BY <2>1 DEF TypeOK
<1> QED
  BY <1>1, AmountsStay

\* What a thread does to an EOF changes its own control point and hand.
LEMMA EofFrame ==
    ASSUME NEW q \in Sums, NEW u \in Threads, NEW d \in Clients, EofStep(q, u, d)
    PROVE  /\ UNCHANGED pc \/ \E l : pc' = [pc EXCEPT ![q][u] = l]
           /\ UNCHANGED eof \/ \E e : eof' = [eof EXCEPT ![q][u] = e]
<1>1. CASE WaitForClientIdle(q, u, d)
  BY <1>1 DEF WaitForClientIdle
<1>2. CASE FinalizeSkip(q, u, d)
  BY <1>2 DEF FinalizeSkip, Ack
<1>3. CASE FinalizeBegin(q, u, d)
  BY <1>3 DEF FinalizeBegin
<1>4. CASE Sends(q, u, d)
  BY <1>4 DEF Sends, Continues, Aborts
<1>5. CASE FinalizeEnd(q, u, d)
  BY <1>5 DEF FinalizeEnd, Ack
<1> QED
  BY <1>1, <1>2, <1>3, <1>4, <1>5 DEF EofStep

\* A thread that finalizes a client after a step did so before it with the same copy, or it
\* has just taken the copy.
LEMMA FinalizesStep ==
    ASSUME TypeOK, ThreadInv, [Next]_vars, NEW s \in Sums, NEW t \in Threads, NEW c \in Clients,
           Finalizes(s, t, c)'
    PROVE  \/ Finalizes(s, t, c) /\ snap'[s][t] = snap[s][t]
           \/ FinalizeBegin(s, t, c)
<1>0. /\ pc \in [Sums -> [Threads -> Pcs]] /\ snap \in [Sums -> [Threads -> Bag]]
      /\ eof \in [Sums -> [Threads -> SUBSET eofSent]]
  BY DEF TypeOK
<1> DEFINE Goal == \/ Finalizes(s, t, c) /\ snap'[s][t] = snap[s][t]
                   \/ FinalizeBegin(s, t, c)
<1>1. (pc'[s][t] = pc[s][t] /\ eof'[s][t] = eof[s][t] /\ snap'[s][t] = snap[s][t]) => Goal
  BY DEF Finalizes
<1>2. pc'[s][t] = "sending" /\ c \in eof'[s][t]
  BY DEF Finalizes
<1>3. ASSUME NEW q \in Sums, NEW p \in Records, DataStep(q, p) PROVE Goal
  <2>1. /\ UNCHANGED <<eof, snap>>
        /\ \E l \in {"received", "idle", "counted", "processed"} :
             pc' = [pc EXCEPT ![q]["data"] = l]
    BY <1>3 DEF DataStep, DeliverData, SkipData, CountData, ProcessData, ReleaseData
  <2>2. ~(q = s /\ t = "data")
    BY <1>0, <1>2, <2>1, Labels
  <2> QED
    BY <1>0, <1>1, <2>1, <2>2, Labels
<1>4. ASSUME NEW q \in Sums, NEW u \in Threads, NEW d \in Clients, EofStep(q, u, d)
      PROVE  Goal
  <2>1. CASE ~(q = s /\ u = t)
    <3>1. pc'[s][t] = pc[s][t] /\ eof'[s][t] = eof[s][t]
      <4>1. /\ UNCHANGED pc \/ \E l : pc' = [pc EXCEPT ![q][u] = l]
            /\ UNCHANGED eof \/ \E e : eof' = [eof EXCEPT ![q][u] = e]
        BY <1>4, EofFrame
      <4>2. pc'[s][t] = pc[s][t]
        BY <1>0, <2>1, <4>1
      <4> QED
        BY <1>0, <2>1, <4>1, <4>2
    <3>2. snap'[s][t] = snap[s][t]
      <4>1. UNCHANGED snap \/ \E b : snap' = [snap EXCEPT ![q][u] = b]
        BY <1>4 DEF EofStep, WaitForClientIdle, FinalizeSkip, FinalizeBegin, FinalizeEnd, Sends
      <4> QED
        BY <1>0, <2>1, <4>1
    <3> QED
      BY <1>1, <3>1, <3>2
  <2>2. CASE q = s /\ u = t
    <3>1. CASE WaitForClientIdle(s, t, d)
      BY <1>0, <1>2, <3>1 DEF WaitForClientIdle
    <3>2. CASE FinalizeSkip(s, t, d)
      BY <1>0, <1>2, <3>2 DEF FinalizeSkip, Ack
    <3>3. CASE FinalizeBegin(s, t, d)
      <4>1. c = d
        BY <1>2, <3>3 DEF FinalizeBegin, AtEof, ThreadInv
      <4> QED
        BY <3>3, <4>1
    <3>4. CASE Sends(s, t, d)
      <4>1. CASE Continues
        BY <1>1, <3>4, <4>1 DEF Sends, Continues
      <4>2. CASE Aborts(s, t, d)
        BY <1>0, <1>2, <4>2 DEF Aborts
      <4> QED
        BY <3>4, <4>1, <4>2 DEF Sends
    <3>5. CASE FinalizeEnd(s, t, d)
      BY <1>0, <1>2, <3>5 DEF FinalizeEnd, Ack
    <3> QED
      BY <1>4, <2>2, <3>1, <3>2, <3>3, <3>4, <3>5 DEF EofStep
  <2> QED
    BY <2>1, <2>2
<1>5. ASSUME NEW q \in Sums, NEW d \in Clients, DeliveryStep(q, d) PROVE Goal
  <2>1. /\ UNCHANGED snap
        /\ \E u \in Threads, l \in {"waiting", "idle"} : \E e :
             pc' = [pc EXCEPT ![q][u] = l] /\ eof' = [eof EXCEPT ![q][u] = e]
    BY <1>5, Labels DEF DeliveryStep, DeliverEof, DeliverControl, BroadcastEof, Ack, Nack
  <2>2. PICK u \in Threads, l \in {"waiting", "idle"} : \E e :
             pc' = [pc EXCEPT ![q][u] = l] /\ eof' = [eof EXCEPT ![q][u] = e]
    BY <2>1
  <2>3. ~(q = s /\ u = t)
    BY <1>0, <1>2, <2>2
  <2> QED
    BY <1>0, <1>1, <2>1, <2>2, <2>3
<1>6. ASSUME OutsideStep PROVE Goal
  BY <1>1, <1>6, OutsideFrame
<1> QED
  BY <1>3, <1>4, <1>5, <1>6, NextCases

\* A message that carries only records of client c stays up to date: what is added to the
\* amounts was in hand, since no DATA of the client is on its way.
LEMMA UpToDateStays ==
    ASSUME TypeOK, ThreadInv, OwnerInv, MessageInv, RetryInv, [Next]_vars,
           NEW s \in Sums, NEW c \in Clients, NEW m \in PartialSums,
           Settled(c), UpToDate(s, c, m), c \notin finished'[s],
           \A r \in Records : m.amount[r] > 0 => ClientOf[r] = c
    PROVE  UpToDate(s, c, m)'
<1>0. /\ m.amount \in [Records -> Nat] /\ amounts \in [Sums -> Bag] /\ c \notin finished[s]
  BY FinishedGrows DEF TypeOK, PartialSums, Bag
<1>1. ASSUME NEW r \in Records PROVE m.amount[r] <= amounts'[s][r]
  <2>1. amounts'[s][r] \in Nat
    BY TypeStep DEF TypeOK, Bag
  <2>2. CASE m.amount[r] = 0
    BY <2>1, <2>2
  <2>3. CASE m.amount[r] > 0
    <3>1. m.amount[r] <= amounts[s][r] /\ amounts[s][r] <= amounts'[s][r]
      BY <2>3, AmountsGrow DEF UpToDate
    <3>2. m.amount[r] \in Nat /\ amounts[s][r] \in Nat
      BY <1>0 DEF Bag
    <3> QED
      BY <2>1, <3>1, <3>2
  <2> QED
    BY <1>0, <2>2, <2>3
<1>2. ASSUME NEW r \in Records, Behind(s, c, m, r)' PROVE Behind(s, c, m, r)
  <2>1. /\ ClientOf[r] = c /\ FruitOf[r] = m.fruit /\ m.amount[r] = 0
        /\ amounts'[s][r] > 0 \/ r \in data'[s]
    BY <1>2 DEF Behind
  <2>2. Owns(s, r)'
    BY <2>1 DEF Owns
  <2>3. ~Takes(s, r)
    BY <2>1 DEF Takes, Settled, Drained, RecordsOf
  <2>4. Owns(s, r)
    BY <2>2, <2>3, TakeStep
  <2>5. Carried(s, r) => amounts[s][r] > 0
    <3> SUFFICES ASSUME Carried(s, r) PROVE amounts[s][r] > 0
      OBVIOUS
    <3>1. PICK d \in Clients, a \in Aggs : \E i \in DOMAIN sent[s][d][a] :
                  Carries(sent[s][d][a][i], r)
      BY DEF Carried, Carries
    <3>2. PICK i \in DOMAIN sent[s][d][a] : Carries(sent[s][d][a][i], r)
      BY <3>1
    <3>3. Partial(sent[s][d][a][i]) /\ d = c
      BY <2>1, <3>2 DEF MessageInv, Carries, Partial
    <3>4. PartialInv(s, c, sent[s][d][a][i])
      BY <3>3 DEF RetryInv
    <3>5. sent[s][d][a][i].amount[r] = 1 /\ sent[s][d][a][i].amount[r] <= amounts[s][r]
      BY <1>0, <3>2, <3>4 DEF PartialInv, UpToDate, MessageInv, Carries
    <3> QED
      BY <1>0, <3>5 DEF Bag
  <2> QED
    BY <2>1, <2>4, <2>5 DEF Behind, Owns
<1> QED
  BY <1>1, <1>2 DEF UpToDate

\* What a thread sends is no more than the amounts, and misses one record of them at most:
\* the one that LossInv leaves to a Sum that finalizes.
LEMMA SentUpToDate ==
    ASSUME TypeOK, ThreadInv, LossInv, OwnerInv, NEW s \in Sums, NEW t \in Threads,
           NEW c \in Clients, Finalizes(s, t, c), NEW m \in Outgoing(s, t), Partial(m)
    PROVE  /\ m \in PartialSums /\ UpToDate(s, c, m) /\ c \notin finished[s]
           /\ NoMoreThan(m, snap[s][t])
           /\ \A r \in Records : m.amount[r] > 0 => ClientOf[r] = c /\ FruitOf[r] = m.fruit
<1>0. /\ snap[s][t] \in Bag /\ amounts[s] \in Bag
      /\ c \in finalizing[s] /\ c \notin finished[s]
  BY DEF TypeOK, ThreadInv
<1>1. /\ m \in PartialSums
      /\ \A r \in Records : m.amount[r] = IF FruitOf[r] = m.fruit THEN snap[s][t][r] ELSE 0
  BY OutgoingPartial
<1>2. \A r \in Records : snap[s][t][r] > 0 => /\ snap[s][t][r] = 1 /\ amounts[s][r] = 1
                                             /\ ClientOf[r] \in eof[s][t]
  BY DEF OwnerInv, Finalizes
<1>3. \A r \in Records : snap[s][t][r] > 0 => ClientOf[r] = c
  BY <1>2 DEF ThreadInv, Finalizes
<1>4. \A r \in Records : m.amount[r] <= amounts[s][r] /\ m.amount[r] <= snap[s][t][r]
  BY <1>0, <1>1, <1>2 DEF Bag
<1>5. ASSUME NEW r \in Records, Behind(s, c, m, r) PROVE Exposed(s, r)
  <2>1. /\ ClientOf[r] = c /\ FruitOf[r] = m.fruit /\ m.amount[r] = 0
        /\ amounts[s][r] > 0 \/ r \in data[s]
    BY <1>5 DEF Behind
  <2>2. snap[s][t][r] = 0
    BY <1>1, <2>1
  <2> QED
    BY <2>1, <2>2 DEF Exposed, Missed
<1>6. ASSUME NEW q \in Records, NEW r \in Records, Behind(s, c, m, q), Behind(s, c, m, r)
      PROVE  q = r
  <2>1. Exposed(s, q) /\ Exposed(s, r) /\ ClientOf[q] = c /\ ClientOf[r] = c
    BY <1>5, <1>6 DEF Behind
  <2> QED
    BY <1>0, <2>1 DEF LossInv
<1> QED
  BY <1>0, <1>1, <1>3, <1>4, <1>6 DEF UpToDate, NoMoreThan

\* What PartialInv says of a message stays true.
LEMMA PartialStays ==
    ASSUME TypeOK, ThreadInv, OwnerInv, MessageInv, RetryInv, [Next]_vars, DataConsumersIntact',
           NEW s \in Sums, NEW c \in Clients, NEW m \in PartialSums, PartialInv(s, c, m),
           \A r \in Records : m.amount[r] > 0 => ClientOf[r] = c
    PROVE  PartialInv(s, c, m)'
<1>1. Settled(c)'
  BY SettledStays DEF PartialInv
<1>2. ASSUME c \notin finished'[s] PROVE UpToDate(s, c, m)'
  <2>1. c \notin finished[s]
    BY <1>2, FinishedGrows
  <2> QED
    BY <1>2, <2>1, UpToDateStays DEF PartialInv
<1>3. ASSUME NEW t \in Threads, Finalizes(s, t, c)' PROVE NoMoreThan(m, snap'[s][t])
  <2>1. CASE Finalizes(s, t, c) /\ snap'[s][t] = snap[s][t]
    BY <2>1 DEF PartialInv
  <2>2. CASE FinalizeBegin(s, t, c)
    <3>1. c \notin finished[s] /\ snap' = [snap EXCEPT ![s][t] = EntryOf(amounts[s], c)]
      BY <2>2 DEF FinalizeBegin, AlreadyFinalized
    <3>2. snap'[s][t] = EntryOf(amounts[s], c)
      BY <3>1 DEF TypeOK
    <3>3. \A r \in Records : m.amount[r] <= amounts[s][r]
      BY <3>1 DEF PartialInv, UpToDate
    <3>4. \A r \in Records : m.amount[r] \in Nat
      BY DEF PartialSums, Bag
    <3>5. ASSUME NEW r \in Records PROVE m.amount[r] <= snap'[s][t][r]
      <4>1. snap'[s][t][r] = IF ClientOf[r] = c THEN amounts[s][r] ELSE 0
        BY <3>2, BagValues
      <4> QED
        BY <3>3, <3>4, <4>1
    <3> QED
      BY <3>5 DEF NoMoreThan
  <2> QED
    BY <1>3, <2>1, <2>2, FinalizesStep
<1> QED
  BY <1>1, <1>2, <1>3 DEF PartialInv

\* A message that a thread sends is as PartialInv says.
LEMMA SentPartial ==
    ASSUME TypeOK, ThreadInv, SettledInv, LossInv, OwnerInv, NEW s \in Sums, NEW t \in Threads,
           NEW c \in Clients, Finalizes(s, t, c), NEW m \in Outgoing(s, t), Partial(m)
    PROVE  PartialInv(s, c, m)
<1>1. Settled(c)
  BY DEF SettledInv, Seen, ThreadInv
<1>2. UpToDate(s, c, m) /\ NoMoreThan(m, snap[s][t])
  BY SentUpToDate
<1>3. \A u \in Threads : Finalizes(s, u, c) => u = t
  BY Labels DEF ThreadInv
<1> QED
  BY <1>1, <1>2, <1>3 DEF PartialInv

\* Two messages on a channel after a step were both there, or the later one was just sent.
LEMMA NewPair ==
    ASSUME TypeOK, [Next]_vars, NEW s \in Sums, NEW c \in Clients, NEW a \in Aggs,
           NEW i \in DOMAIN sent'[s][c][a], NEW j \in DOMAIN sent'[s][c][a], i < j
    PROVE  /\ i \in DOMAIN sent[s][c][a] /\ sent'[s][c][a][i] = sent[s][c][a][i]
           /\ \/ j \in DOMAIN sent[s][c][a] /\ sent'[s][c][a][j] = sent[s][c][a][j]
              \/ \E t \in Threads : Finalizes(s, t, c) /\ sent'[s][c][a][j] \in Outgoing(s, t)
<1> PICK ch : ch = sent[s][c][a]
  OBVIOUS
<1>1. ch \in Seq(Messages)
  BY DEF TypeOK
<1>2. CASE sent'[s][c][a] = sent[s][c][a]
  BY <1>2
<1>3. ASSUME NEW t \in Threads, Finalizes(s, t, c), NEW m \in Outgoing(s, t),
             sent'[s][c][a] = Append(ch, m)
      PROVE  i \in DOMAIN ch /\ Append(ch, m)[i] = ch[i]
  <2>1. m \in Messages
    BY OutgoingType
  <2>2. /\ Len(ch) \in Nat /\ DOMAIN ch = 1 .. Len(ch)
        /\ DOMAIN Append(ch, m) = 1 .. (Len(ch) + 1)
        /\ \A k \in 1 .. Len(ch) : Append(ch, m)[k] = ch[k]
    BY <1>1, <2>1, AppendedChannel
  <2>3. i \in 1 .. (Len(ch) + 1) /\ j \in 1 .. (Len(ch) + 1)
    BY <1>3, <2>2
  <2>4. i \in 1 .. Len(ch)
    BY <2>2, <2>3
  <2> QED
    BY <2>2, <2>4
<1>4. Extends(s, c, a)
  BY ChannelStep
<1>5. i \in DOMAIN sent[s][c][a] /\ sent'[s][c][a][i] = sent[s][c][a][i]
  BY <1>2, <1>3, <1>4 DEF Extends
<1> QED
  BY <1>5, NewMessage

\* Every step keeps what is said of the messages that are sent again.
LEMMA RetryStep ==
    ASSUME TypeOK, ThreadInv, SettledInv, LossInv, OwnerInv, MessageInv, RetryInv, [Next]_vars,
           DataConsumersIntact'
    PROVE  RetryInv'
<1>1. ASSUME NEW s \in Sums, NEW c \in Clients, NEW a \in Aggs, NEW i \in DOMAIN sent[s][c][a],
             Partial(sent[s][c][a][i])
      PROVE  /\ sent[s][c][a][i] \in PartialSums /\ PartialInv(s, c, sent[s][c][a][i])
             /\ \A r \in Records : sent[s][c][a][i].amount[r] > 0 =>
                  ClientOf[r] = c /\ FruitOf[r] = sent[s][c][a][i].fruit
  <2>1. sent[s][c][a][i] \in Messages
    BY DEF TypeOK
  <2>2. sent[s][c][a][i] \in PartialSums
    BY <1>1, <2>1, TwoKinds
  <2>3. PartialInv(s, c, sent[s][c][a][i])
    BY <1>1 DEF RetryInv
  <2> QED
    BY <1>1, <2>2, <2>3 DEF MessageInv, Partial
<1>2. ASSUME NEW s \in Sums, NEW c \in Clients, NEW a \in Aggs, NEW i \in DOMAIN sent'[s][c][a],
             Partial(sent'[s][c][a][i])
      PROVE  PartialInv(s, c, sent[s][c][a][i])'
  <2> PICK m : m = sent'[s][c][a][i]
    OBVIOUS
  <2>1. /\ m \in PartialSums /\ PartialInv(s, c, m)
        /\ \A r \in Records : m.amount[r] > 0 => ClientOf[r] = c
    <3>1. CASE i \in DOMAIN sent[s][c][a] /\ sent'[s][c][a][i] = sent[s][c][a][i]
      BY <1>1, <1>2, <3>1
    <3>2. ASSUME NEW t \in Threads, Finalizes(s, t, c), m \in Outgoing(s, t)
          PROVE  /\ m \in PartialSums /\ PartialInv(s, c, m)
                 /\ \A r \in Records : m.amount[r] > 0 => ClientOf[r] = c
      <4>1. Partial(m)
        BY <1>2
      <4> QED
        BY <3>2, <4>1, SentPartial, SentUpToDate
    <3> QED
      BY <3>1, <3>2, NewMessage
  <2>2. PartialInv(s, c, m)'
    BY <2>1, PartialStays
  <2> QED
    BY <2>2 DEF PartialInv, UpToDate, Behind, NoMoreThan
<1>3. ASSUME NEW s \in Sums, NEW c \in Clients, NEW a \in Aggs,
             NEW i \in DOMAIN sent'[s][c][a], NEW j \in DOMAIN sent'[s][c][a], i < j,
             Partial(sent'[s][c][a][i]), Partial(sent'[s][c][a][j]),
             sent'[s][c][a][i].fruit = sent'[s][c][a][j].fruit
      PROVE  Resent(sent'[s][c][a][i], sent'[s][c][a][j])
  <2> PICK m, n : m = sent'[s][c][a][i] /\ n = sent'[s][c][a][j]
    OBVIOUS
  <2>0. Partial(m) /\ Partial(n) /\ m.fruit = n.fruit
    BY <1>3
  <2>1. i \in DOMAIN sent[s][c][a] /\ m = sent[s][c][a][i]
    BY <1>3, NewPair
  <2>2. CASE j \in DOMAIN sent[s][c][a] /\ n = sent[s][c][a][j]
    BY <1>3, <2>0, <2>1, <2>2 DEF RetryInv
  <2>3. ASSUME NEW t \in Threads, Finalizes(s, t, c), n \in Outgoing(s, t) PROVE Resent(m, n)
    <3>1. /\ m \in PartialSums /\ PartialInv(s, c, m)
          /\ \A r \in Records : m.amount[r] > 0 => ClientOf[r] = c /\ FruitOf[r] = m.fruit
      BY <1>1, <2>0, <2>1
    <3>2. /\ n \in PartialSums /\ c \notin finished[s] /\ UpToDate(s, c, n)
          /\ \A r \in Records : n.amount[r] > 0 => ClientOf[r] = c /\ FruitOf[r] = n.fruit
      BY <2>0, <2>3, SentUpToDate
    <3>3. \A r \in Records : n.amount[r] = IF FruitOf[r] = n.fruit THEN snap[s][t][r] ELSE 0
      BY <2>0, <2>3, OutgoingPartial
    <3>4. \A r \in Records : m.amount[r] \in Nat /\ n.amount[r] \in Nat /\ amounts[s][r] \in Nat
      <4>1. amounts[s] \in Bag
        BY DEF TypeOK
      <4>2. m.amount \in Bag /\ n.amount \in Bag
        BY <3>1, <3>2 DEF PartialSums
      <4> QED
        BY <4>1, <4>2 DEF Bag
    <3>5. \A r \in Records : m.amount[r] <= n.amount[r]
      <4>1. \A r \in Records : m.amount[r] <= snap[s][t][r]
        BY <2>3, <3>1 DEF PartialInv, NoMoreThan
      <4> QED
        BY <2>0, <3>1, <3>3, <3>4, <4>1
    <3>6. ASSUME NEW r \in Records, m.amount[r] < n.amount[r] PROVE Behind(s, c, m, r)
      <4>1. n.amount[r] > 0 /\ n.amount[r] <= amounts[s][r]
        BY <3>2, <3>4, <3>6 DEF UpToDate
      <4>2. amounts[s][r] <= 1
        BY DEF OwnerInv
      <4>3. m.amount[r] = 0 /\ amounts[s][r] > 0
        BY <3>4, <3>6, <4>1, <4>2
      <4> QED
        BY <2>0, <3>2, <4>1, <4>3 DEF Behind
    <3>7. \A q, r \in Records : Behind(s, c, m, q) /\ Behind(s, c, m, r) => q = r
      BY <3>1, <3>2 DEF PartialInv, UpToDate
    <3> QED
      BY <3>5, <3>6, <3>7 DEF Resent
  <2> QED
    BY <1>3, <2>2, <2>3, NewPair
<1> QED
  BY <1>2, <1>3 DEF RetryInv

\* The partial sums that are sent again after a failed send are as RetryAddsAtMostOne says
\* (_finalize_client takes a new copy at each attempt).
THEOREM ResendsAddAtMostOne == Spec => []RetryAddsAtMostOne
<1> DEFINE Intact == DataConsumersIntact => RetryInv
<1>1. Init => Intact
  <2> SUFFICES ASSUME Init PROVE RetryInv
    OBVIOUS
  <2>1. \A s \in Sums, c \in Clients, a \in Aggs : sent[s][c][a] = <<>>
    BY DEF Init
  <2> QED
    BY <2>1 DEF RetryInv
<1>2. Invariant /\ OwnedOnce /\ Intact /\ [Next]_vars => Intact'
  <2> SUFFICES ASSUME Invariant, OwnedOnce, Intact, [Next]_vars, DataConsumersIntact'
               PROVE  RetryInv'
    OBVIOUS
  <2>1. TypeOK /\ ThreadInv /\ DataConsumersIntact
    BY IntactBefore DEF Invariant
  <2>2. SettledInv /\ LossInv /\ OwnerInv /\ MessageInv /\ RetryInv
    BY <2>1 DEF Invariant, OwnedOnce
  <2> QED
    BY <2>1, <2>2, RetryStep
<1>3. Intact => RetryAddsAtMostOne
  BY DEF RetryInv, RetryAddsAtMostOne, Partial, Resent
<1> HIDE DEF Intact
<1> QED
  BY <1>1, <1>2, <1>3, InvariantHolds, OwnedOnceHolds, PTL DEF Spec

-----------------------------------------------------------------------------
(* Each fruit once, then one EOF.                                          *)

WellOrdered(ch) ==
    /\ \A i, j \in DOMAIN ch : i < j => ch[i] # EofMessage
    /\ \A i, j \in DOMAIN ch :
         (i # j /\ ch[i].type = "PARTIAL_SUM" /\ ch[j].type = "PARTIAL_SUM")
            => ch[i].fruit # ch[j].fruit

EndsWithEof(ch) == ch # <<>> /\ ch[Len(ch)] = EofMessage
NoEofIn(ch) == \A i \in DOMAIN ch : ch[i] # EofMessage
HasNoneOf(ch, fruits) == \A i \in DOMAIN ch : Partial(ch[i]) => ch[i].fruit \notin fruits

\* How far a thread that finalizes client c is: the aggregations before nextAgg have got
\* their EOF, and nobody has got a fruit that is still to be sent.
Flushing(s, t, c) ==
    /\ nextAgg[s][t] # 0 => left[s][t] = {}
    /\ \A a \in Aggs : /\ a < nextAgg[s][t] => EndsWithEof(sent[s][c][a])
                       /\ a >= nextAgg[s][t] => NoEofIn(sent[s][c][a])
                       /\ HasNoneOf(sent[s][c][a], left[s][t])

ChannelInv(s, c) ==
    /\ \A a \in Aggs : WellOrdered(sent[s][c][a])
    /\ c \notin finalizing[s] \cup finished[s] => \A a \in Aggs : sent[s][c][a] = <<>>
    /\ \A t \in Threads : Finalizes(s, t, c) => Flushing(s, t, c)
    /\ c \in finished[s] => \A a \in Aggs : EndsWithEof(sent[s][c][a])

FlushInv == \A s \in Sums, c \in Clients : ChannelInv(s, c)

\* A fruit that was still to be sent goes after what has no EOF.
LEMMA FruitAppended ==
    ASSUME NEW ch \in Seq(Messages), NEW m \in PartialSums, NEW fruits,
           WellOrdered(ch), NoEofIn(ch), HasNoneOf(ch, fruits), m.fruit \in fruits
    PROVE  /\ WellOrdered(Append(ch, m)) /\ NoEofIn(Append(ch, m))
           /\ HasNoneOf(Append(ch, m), fruits \ {m.fruit})
<1>1. m \in Messages /\ m # EofMessage /\ m.type = "PARTIAL_SUM"
  BY TwoKinds DEF Messages, PartialSums, EofMessage
<1>2. /\ Len(ch) \in Nat /\ DOMAIN ch = 1 .. Len(ch)
      /\ DOMAIN Append(ch, m) = 1 .. (Len(ch) + 1) /\ Append(ch, m)[Len(ch) + 1] = m
      /\ \A i \in 1 .. Len(ch) : Append(ch, m)[i] = ch[i]
  BY <1>1, AppendedChannel
<1> PICK new, n : new = Append(ch, m) /\ n = Len(ch)
  OBVIOUS
<1>3. ASSUME NEW i \in DOMAIN new PROVE (i \in DOMAIN ch /\ new[i] = ch[i]) \/ (i = n + 1 /\ new[i] = m)
  BY <1>2
<1>4. NoEofIn(new)
  BY <1>1, <1>3 DEF NoEofIn
<1>5. HasNoneOf(new, fruits \ {m.fruit})
  BY <1>3 DEF HasNoneOf
<1>6. ASSUME NEW i \in DOMAIN new, NEW j \in DOMAIN new, i # j, new[i].type = "PARTIAL_SUM",
             new[j].type = "PARTIAL_SUM"
      PROVE  new[i].fruit # new[j].fruit
  <2>1. CASE i \in DOMAIN ch /\ new[i] = ch[i] /\ j \in DOMAIN ch /\ new[j] = ch[j]
    BY <1>6, <2>1 DEF WellOrdered
  <2>2. CASE i \in DOMAIN ch /\ new[i] = ch[i] /\ new[j] = m
    BY <1>6, <2>2 DEF HasNoneOf, Partial
  <2>3. CASE new[i] = m /\ j \in DOMAIN ch /\ new[j] = ch[j]
    BY <1>6, <2>3 DEF HasNoneOf, Partial
  <2> QED
    BY <1>3, <1>6, <2>1, <2>2, <2>3
<1>7. WellOrdered(new)
  BY <1>4, <1>6 DEF WellOrdered, NoEofIn
<1> QED
  BY <1>4, <1>5, <1>7

\* The EOF goes after what has none.
LEMMA EofAppended ==
    ASSUME NEW ch \in Seq(Messages), WellOrdered(ch), NoEofIn(ch)
    PROVE  WellOrdered(Append(ch, EofMessage)) /\ EndsWithEof(Append(ch, EofMessage))
<1> PICK m : m = EofMessage
  OBVIOUS
<1>1. m \in Messages /\ ~Partial(m)
  BY BagType DEF EofMessage, Partial
<1>2. /\ Len(ch) \in Nat /\ DOMAIN ch = 1 .. Len(ch)
      /\ DOMAIN Append(ch, m) = 1 .. (Len(ch) + 1) /\ Len(Append(ch, m)) = Len(ch) + 1
      /\ Append(ch, m)[Len(ch) + 1] = m
      /\ \A i \in 1 .. Len(ch) : Append(ch, m)[i] = ch[i]
  BY <1>1, AppendedChannel
<1> PICK new, n : new = Append(ch, m) /\ n = Len(ch)
  OBVIOUS
<1>3. ASSUME NEW i \in DOMAIN new PROVE (i \in DOMAIN ch /\ new[i] = ch[i]) \/ (i = n + 1 /\ new[i] = m)
  BY <1>2
<1>4. EndsWithEof(new)
  <2>1. n + 1 \in DOMAIN new
    BY <1>2
  <2>2. new # <<>>
    BY <1>2, <2>1
  <2> QED
    BY <1>2, <2>2 DEF EndsWithEof
<1>5. ASSUME NEW i \in DOMAIN new, NEW j \in DOMAIN new, i < j PROVE new[i] # EofMessage
  <2>1. i \in DOMAIN ch /\ new[i] = ch[i]
    BY <1>2, <1>5
  <2> QED
    BY <2>1 DEF NoEofIn
<1>6. ASSUME NEW i \in DOMAIN new, NEW j \in DOMAIN new, i # j, new[i].type = "PARTIAL_SUM",
             new[j].type = "PARTIAL_SUM"
      PROVE  new[i].fruit # new[j].fruit
  <2>1. i \in DOMAIN ch /\ new[i] = ch[i] /\ j \in DOMAIN ch /\ new[j] = ch[j]
    BY <1>1, <1>3, <1>6 DEF Partial
  <2> QED
    BY <1>6, <2>1 DEF WellOrdered
<1> QED
  BY <1>4, <1>5, <1>6 DEF WellOrdered

\* A channel on which nothing is sent, whose client is neither begun nor finished, and
\* whose thread is not further, keeps what is said of it.
LEMMA ChannelKept ==
    ASSUME NEW s \in Sums, NEW c \in Clients, ChannelInv(s, c), sent'[s][c] = sent[s][c],
           c \in finalizing[s] \cup finished[s] => c \in finalizing'[s] \cup finished'[s],
           c \in finished'[s] => c \in finished[s],
           \A t \in Threads : Finalizes(s, t, c)' =>
             Finalizes(s, t, c) /\ left'[s][t] = left[s][t] /\ nextAgg'[s][t] = nextAgg[s][t]
    PROVE  ChannelInv(s, c)'
<1>1. ASSUME NEW t \in Threads, Finalizes(s, t, c)' PROVE Flushing(s, t, c)'
  <2>1. Flushing(s, t, c)
    BY <1>1 DEF ChannelInv
  <2> QED
    BY <1>1, <2>1 DEF Flushing
<1> QED
  BY <1>1 DEF ChannelInv

\* The same of every channel, when a step sends, begins and finishes nothing.
LEMMA QuietChannels ==
    ASSUME TypeOK, ThreadInv, FlushInv, [Next]_vars,
           UNCHANGED <<sent, left, nextAgg, finalizing, finished>>
    PROVE  FlushInv'
<1> SUFFICES ASSUME NEW s \in Sums, NEW c \in Clients PROVE ChannelInv(s, c)'
  BY DEF FlushInv
<1>1. ASSUME NEW t \in Threads, Finalizes(s, t, c)' PROVE Finalizes(s, t, c)
  <2>1. ~FinalizeBegin(s, t, c)
    BY DEF FinalizeBegin, AlreadyFinalized, TypeOK
  <2> QED
    BY <1>1, <2>1, FinalizesStep
<1>2. ChannelInv(s, c)
  BY DEF FlushInv
<1> QED
  BY <1>1, <1>2, ChannelKept

\* What a thread does to the EOF of its client leaves the other channels alone.
LEMMA OtherChannels ==
    ASSUME TypeOK, ThreadInv, FlushInv, [Next]_vars, NEW q \in Sums, NEW u \in Threads,
           NEW d \in Clients, pc[q][u] \in {"finalize", "sending"}, d \in eof[q][u],
           NEW s \in Sums, NEW c \in Clients, ~(s = q /\ c = d),
           sent'[s][c] = sent[s][c],
           \A x \in Sums, t \in Threads : ~(x = q /\ t = u) =>
             left'[x][t] = left[x][t] /\ nextAgg'[x][t] = nextAgg[x][t],
           \A x \in Sums, b \in Clients : ~(x = q /\ b = d) =>
             /\ b \in finalizing'[x] <=> b \in finalizing[x]
             /\ b \in finished'[x] <=> b \in finished[x]
    PROVE  ChannelInv(s, c)'
<1>1. ASSUME NEW t \in Threads, Finalizes(s, t, c)' PROVE Finalizes(s, t, c) /\ ~(s = q /\ t = u)
  <2>1. ThreadInv'
    BY ThreadStep
  <2>2. c \in finalizing'[s]
    BY <1>1, <2>1 DEF ThreadInv
  <2>3. c \in finalizing[s]
    BY <2>2
  <2>4. ~FinalizeBegin(s, t, c)
    BY <2>3 DEF FinalizeBegin, AlreadyFinalized
  <2>5. Finalizes(s, t, c)
    BY <1>1, <2>4, FinalizesStep
  <2>6. ~(s = q /\ t = u)
    BY <2>5 DEF Finalizes, ThreadInv
  <2> QED
    BY <2>5, <2>6
<1>2. ChannelInv(s, c)
  BY DEF FlushInv
<1> QED
  BY <1>1, <1>2, ChannelKept

\* A connection that broke is never open again.
LEMMA OutputBefore ==
    ASSUME TypeOK, [Next]_vars, OutputIntact'
    PROVE  OutputIntact
<1> SUFFICES ASSUME NEW q \in Sums, NEW b \in Aggs PROVE dataLink[q][b] = "open"
  BY DEF OutputIntact
<1> DEFINE Goal == dataLink[q][b] = "open"
<1>0. dataLink \in [Sums -> [Aggs -> LinkStates]] /\ dataLink'[q][b] = "open"
  BY DEF TypeOK, OutputIntact
<1>1. UNCHANGED dataLink => Goal
  BY <1>0
<1>2. ASSUME NEW s \in Sums, NEW c \in Clients, NEW a \in Aggs, NEW m, NEW out,
             SendTo(s, c, a, m, out)
      PROVE  Goal
  <2>1. /\ out \in SendOutcomes(dataLink[s][a]) /\ dataLink[s][a] \in LinkStates
        /\ dataLink' = [dataLink EXCEPT ![s][a] = out.link]
    BY <1>0, <1>2 DEF SendTo
  <2>2. out.link = "open" => dataLink[s][a] = "open"
    BY <2>1, SendOutcomesType
  <2> QED
    BY <1>0, <2>1, <2>2
<1>3. ASSUME NEW s \in Sums, NEW a \in Aggs, BreakDataLink(s, a) PROVE Goal
  BY <1>0, <1>3 DEF BreakDataLink
<1>4. ASSUME NEW s \in Sums, NEW t \in Threads, NEW c \in Clients, NEW f \in Fruits,
             SendPartialSum(s, t, c, f)
      PROVE  Goal
  BY <1>2, <1>4, ConstantTypes DEF SendPartialSum
<1>5. ASSUME NEW s \in Sums, NEW t \in Threads, NEW c \in Clients, SendEof(s, t, c) PROVE Goal
  BY <1>2, <1>5 DEF SendEof
<1>6. ASSUME NEW s \in Sums, NEW t \in Threads, NEW c \in Clients,
             \/ WaitForClientIdle(s, t, c) \/ FinalizeSkip(s, t, c)
             \/ FinalizeBegin(s, t, c) \/ FinalizeEnd(s, t, c)
      PROVE  Goal
  BY <1>1, <1>6 DEF WaitForClientIdle, FinalizeSkip, FinalizeBegin, FinalizeEnd
<1>7. ASSUME NEW s \in Sums, NEW r \in Records, DataStep(s, r) PROVE Goal
  BY <1>1, <1>7 DEF DataStep, DeliverData, SkipData, CountData, ProcessData, ReleaseData
<1>8. ASSUME NEW s \in Sums, NEW c \in Clients, DeliveryStep(s, c) PROVE Goal
  BY <1>1, <1>8 DEF DeliveryStep, DeliverEof, DeliverControl, BroadcastEof
<1>9. ASSUME OutsideStep PROVE Goal
  BY <1>1, <1>3, <1>9 DEF OutsideStep, PublishData, PublishEof, Start, BreakCtrlLink,
     LoseConsumer, vars
<1> HIDE DEF Goal
<1>10. Goal
  BY <1>4, <1>5, <1>6, <1>7, <1>8, <1>9
     DEF Next, DataThread, ControlThread, ProcessEof, Fault, Rest, DataStep, DeliveryStep,
         OutsideStep
<1> QED
  BY <1>10 DEF Goal

\* On a connection that works a send is routed, and raises nothing.
LEMMA SentOnOpen ==
    ASSUME OutputIntact, NEW s \in Sums, NEW c \in Clients, NEW a \in Aggs, NEW m,
           NEW out \in SendOutcomes(dataLink[s][a]), SendTo(s, c, a, m, out)
    PROVE  ~out.raised /\ sent' = [sent EXCEPT ![s][c][a] = Append(@, m)]
<1>1. dataLink[s][a] = "open"
  BY DEF OutputIntact
<1>2. out.delivered /\ ~out.raised
  BY <1>1 DEF SendOutcomes
<1> QED
  BY <1>2 DEF SendTo

\* The thread that sends is the one that finalizes its client; the client is not finished.
LEMMA OneFlusher ==
    ASSUME TypeOK, ThreadInv, NEW s \in Sums, NEW u \in Threads, NEW c \in Clients,
           Finalizes(s, u, c)
    PROVE  /\ c \in finalizing[s] /\ c \notin finished[s]
           /\ \A t \in Threads : Finalizes(s, t, c) => t = u
BY Labels DEF ThreadInv

\* A send of a fruit keeps FlushInv.
LEMMA FruitSent ==
    ASSUME TypeOK, ThreadInv, FlushInv, OutputIntact, [Next]_vars,
           NEW q \in Sums, NEW u \in Threads, NEW d \in Clients, NEW f \in Fruits,
           SendPartialSum(q, u, d, f)
    PROVE  FlushInv'
<1> PICK a, m : a = TargetAggregation[f] /\ m = PartialSum(f, AmountOf(snap[q][u], f))
  OBVIOUS
<1>0. /\ a \in Aggs /\ m \in PartialSums /\ m.fruit = f
      /\ sent \in [Sums -> [Clients -> [Aggs -> Seq(Messages)]]]
      /\ left \in [Sums -> [Threads -> SUBSET Fruits]]
      /\ nextAgg[q][u] \in 0 .. AGGREGATION_AMOUNT
  <2>1. AmountOf(snap[q][u], f) \in Bag
    BY BagType DEF TypeOK
  <2>2. m \in PartialSums /\ m.fruit = f
    BY <2>1 DEF PartialSum, PartialSums
  <2> QED
    BY <2>2, ConstantTypes DEF TypeOK
<1>1. /\ sent' = [sent EXCEPT ![q][d][a] = Append(@, m)]
      /\ left' = [left EXCEPT ![q][u] = @ \ {f}]
      /\ f \in left[q][u] /\ Finalizes(q, u, d)
      /\ UNCHANGED <<pc, eof, finalizing, finished, nextAgg>>
  <2>1. PICK out \in SendOutcomes(dataLink[q][a]) :
          /\ SendTo(q, d, a, m, out)
          /\ \/ /\ ~out.raised
                /\ left' = [left EXCEPT ![q][u] = @ \ {f}]
                /\ UNCHANGED <<pc, eof, finalizing, eofReady, ctrlQueue, nacks>>
             \/ /\ out.raised
                /\ AbortFinalize(q, u, d)
                /\ UNCHANGED left
    BY DEF SendPartialSum
  <2>2. ~out.raised /\ sent' = [sent EXCEPT ![q][d][a] = Append(@, m)]
    BY <1>0, <2>1, SentOnOpen
  <2> QED
    BY <2>1, <2>2 DEF SendPartialSum, AtEof, Finalizes
<1>2. ASSUME NEW s \in Sums, NEW c \in Clients, ~(s = q /\ c = d) PROVE ChannelInv(s, c)'
  <2>1. sent'[s][c] = sent[s][c]
    BY <1>0, <1>1, <1>2
  <2>2. \A x \in Sums, t \in Threads : ~(x = q /\ t = u) =>
          left'[x][t] = left[x][t] /\ nextAgg'[x][t] = nextAgg[x][t]
    BY <1>0, <1>1
  <2>3. pc[q][u] \in {"finalize", "sending"} /\ d \in eof[q][u]
    BY <1>1 DEF Finalizes
  <2> QED
    BY <1>1, <1>2, <2>1, <2>2, <2>3, OtherChannels
<1>3. /\ ChannelInv(q, d) /\ Flushing(q, u, d) /\ nextAgg[q][u] = 0
      /\ d \in finalizing[q] /\ d \notin finished[q]
      /\ \A t \in Threads : Finalizes(q, t, d) => t = u
  <2>1. ChannelInv(q, d) /\ Flushing(q, u, d)
    BY <1>1 DEF FlushInv, ChannelInv
  <2> QED
    BY <1>1, <2>1, OneFlusher DEF Flushing
<1>4. left'[q][u] = left[q][u] \ {f} /\ nextAgg'[q][u] = 0
  BY <1>0, <1>1, <1>3
<1>5. ASSUME NEW b \in Aggs
      PROVE  /\ WellOrdered(sent'[q][d][b]) /\ NoEofIn(sent'[q][d][b])
             /\ HasNoneOf(sent'[q][d][b], left[q][u] \ {f})
  <2>1. /\ WellOrdered(sent[q][d][b]) /\ NoEofIn(sent[q][d][b])
        /\ HasNoneOf(sent[q][d][b], left[q][u]) /\ sent[q][d][b] \in Seq(Messages)
    <3>1. b >= 0
      BY DEF Aggs
    <3> QED
      BY <1>0, <1>3, <3>1 DEF ChannelInv, Flushing
  <2>2. CASE b = a
    <3>1. sent'[q][d][b] = Append(sent[q][d][b], m)
      BY <1>0, <1>1, <2>2
    <3>2. m \in PartialSums /\ m.fruit \in left[q][u] /\ m.fruit = f
      BY <1>0, <1>1
    <3>3. /\ WellOrdered(Append(sent[q][d][b], m)) /\ NoEofIn(Append(sent[q][d][b], m))
          /\ HasNoneOf(Append(sent[q][d][b], m), left[q][u] \ {m.fruit})
      BY <2>1, <3>2, FruitAppended
    <3> QED
      BY <3>1, <3>2, <3>3
  <2>3. CASE b # a
    <3>1. sent'[q][d][b] = sent[q][d][b]
      BY <1>0, <1>1, <2>3
    <3> QED
      BY <2>1, <3>1 DEF HasNoneOf
  <2> QED
    BY <2>2, <2>3
<1>6. Flushing(q, u, d)'
  <2>1. \A b \in Aggs : ~(b < 0)
    BY DEF Aggs
  <2> QED
    BY <1>4, <1>5, <2>1 DEF Flushing
<1>7. \A t \in Threads : Finalizes(q, t, d)' => t = u
  BY <1>1, <1>3 DEF Finalizes
<1>8. d \in finalizing'[q] /\ d \notin finished'[q]
  BY <1>1, <1>3
<1>9. ChannelInv(q, d)'
  BY <1>5, <1>6, <1>7, <1>8 DEF ChannelInv
<1> QED
  BY <1>2, <1>9 DEF FlushInv

\* A send of an EOF keeps FlushInv.
LEMMA EofSent ==
    ASSUME TypeOK, ThreadInv, FlushInv, OutputIntact, [Next]_vars,
           NEW q \in Sums, NEW u \in Threads, NEW d \in Clients, SendEof(q, u, d)
    PROVE  FlushInv'
<1> PICK a : a = nextAgg[q][u]
  OBVIOUS
<1>0. /\ a \in Aggs
      /\ sent \in [Sums -> [Clients -> [Aggs -> Seq(Messages)]]]
      /\ nextAgg \in [Sums -> [Threads -> 0 .. AGGREGATION_AMOUNT]]
  BY DEF SendEof, TypeOK
<1>1. /\ sent' = [sent EXCEPT ![q][d][a] = Append(@, EofMessage)]
      /\ nextAgg' = [nextAgg EXCEPT ![q][u] = @ + 1]
      /\ left[q][u] = {} /\ Finalizes(q, u, d)
      /\ UNCHANGED <<pc, eof, finalizing, finished, left>>
  <2>1. PICK out \in SendOutcomes(dataLink[q][a]) :
          /\ SendTo(q, d, a, EofMessage, out)
          /\ \/ /\ ~out.raised
                /\ nextAgg' = [nextAgg EXCEPT ![q][u] = @ + 1]
                /\ UNCHANGED <<pc, eof, finalizing, eofReady, ctrlQueue, nacks>>
             \/ /\ out.raised
                /\ AbortFinalize(q, u, d)
                /\ UNCHANGED nextAgg
    BY DEF SendEof
  <2>2. ~out.raised /\ sent' = [sent EXCEPT ![q][d][a] = Append(@, EofMessage)]
    BY <1>0, <2>1, SentOnOpen
  <2> QED
    BY <2>1, <2>2 DEF SendEof, AtEof, Finalizes
<1>2. ASSUME NEW s \in Sums, NEW c \in Clients, ~(s = q /\ c = d) PROVE ChannelInv(s, c)'
  <2>1. sent'[s][c] = sent[s][c]
    BY <1>0, <1>1, <1>2
  <2>2. \A x \in Sums, t \in Threads : ~(x = q /\ t = u) =>
          left'[x][t] = left[x][t] /\ nextAgg'[x][t] = nextAgg[x][t]
    BY <1>0, <1>1
  <2>3. pc[q][u] \in {"finalize", "sending"} /\ d \in eof[q][u]
    BY <1>1 DEF Finalizes
  <2> QED
    BY <1>1, <1>2, <2>1, <2>2, <2>3, OtherChannels
<1>3. /\ ChannelInv(q, d) /\ Flushing(q, u, d)
      /\ d \in finalizing[q] /\ d \notin finished[q]
      /\ \A t \in Threads : Finalizes(q, t, d) => t = u
  <2>1. ChannelInv(q, d) /\ Flushing(q, u, d)
    BY <1>1 DEF FlushInv, ChannelInv
  <2> QED
    BY <1>1, <2>1, OneFlusher
<1>4. left'[q][u] = {} /\ nextAgg'[q][u] = a + 1 /\ a \in Nat
  BY <1>0, <1>1 DEF Aggs
<1>5. ASSUME NEW b \in Aggs
      PROVE  /\ WellOrdered(sent'[q][d][b])
             /\ b < a + 1 => EndsWithEof(sent'[q][d][b])
             /\ b >= a + 1 => NoEofIn(sent'[q][d][b])
             /\ HasNoneOf(sent'[q][d][b], {})
  <2>0. b \in Nat
    BY DEF Aggs
  <2>1. /\ WellOrdered(sent[q][d][b])
        /\ b < a => EndsWithEof(sent[q][d][b])
        /\ b >= a => NoEofIn(sent[q][d][b])
        /\ sent[q][d][b] \in Seq(Messages)
    BY <1>0, <1>3 DEF ChannelInv, Flushing
  <2>2. CASE b = a
    <3>1. sent'[q][d][b] = Append(sent[q][d][b], EofMessage)
      BY <1>0, <1>1, <2>2
    <3>2. NoEofIn(sent[q][d][b]) /\ ~(b >= a + 1)
      BY <1>4, <2>1, <2>2
    <3> QED
      BY <2>1, <3>1, <3>2, EofAppended DEF HasNoneOf
  <2>3. CASE b # a
    <3>1. sent'[q][d][b] = sent[q][d][b]
      BY <1>0, <1>1, <2>3
    <3>2. (b < a + 1 => b < a) /\ (b >= a + 1 => b >= a)
      BY <1>4, <2>0, <2>3
    <3> QED
      BY <2>1, <3>1, <3>2 DEF HasNoneOf
  <2> QED
    BY <2>2, <2>3
<1>6. Flushing(q, u, d)'
  BY <1>4, <1>5 DEF Flushing
<1>7. \A t \in Threads : Finalizes(q, t, d)' => t = u
  BY <1>1, <1>3 DEF Finalizes
<1>8. d \in finalizing'[q] /\ d \notin finished'[q]
  BY <1>1, <1>3
<1>9. ChannelInv(q, d)'
  BY <1>5, <1>6, <1>7, <1>8 DEF ChannelInv
<1> QED
  BY <1>2, <1>9 DEF FlushInv

\* A copy is taken for a client to which nothing was sent.
LEMMA CopyTaken ==
    ASSUME TypeOK, ThreadInv, FlushInv, [Next]_vars,
           NEW q \in Sums, NEW u \in Threads, NEW d \in Clients, FinalizeBegin(q, u, d)
    PROVE  FlushInv'
<1>0. /\ left \in [Sums -> [Threads -> SUBSET Fruits]]
      /\ nextAgg \in [Sums -> [Threads -> 0 .. AGGREGATION_AMOUNT]]
      /\ finalizing \in [Sums -> SUBSET Clients]
  BY DEF TypeOK
<1>1. /\ UNCHANGED <<sent, finished>> /\ finalizing' = [finalizing EXCEPT ![q] = @ \cup {d}]
      /\ left' = [left EXCEPT ![q][u] = FruitsIn(EntryOf(amounts[q], d))]
      /\ nextAgg' = [nextAgg EXCEPT ![q][u] = 0]
      /\ pc[q][u] = "finalize" /\ d \in eof[q][u] /\ d \notin finished[q] \cup finalizing[q]
  BY DEF FinalizeBegin, AtEof, AlreadyFinalized
<1>2. ASSUME NEW s \in Sums, NEW c \in Clients, ~(s = q /\ c = d) PROVE ChannelInv(s, c)'
  <2>1. sent'[s][c] = sent[s][c] /\ pc[q][u] \in {"finalize", "sending"}
    BY <1>1
  <2>2. \A x \in Sums, t \in Threads : ~(x = q /\ t = u) =>
          left'[x][t] = left[x][t] /\ nextAgg'[x][t] = nextAgg[x][t]
    <3> SUFFICES ASSUME NEW x \in Sums, NEW t \in Threads, ~(x = q /\ t = u)
                 PROVE  left'[x][t] = left[x][t] /\ nextAgg'[x][t] = nextAgg[x][t]
      OBVIOUS
    <3> PICK fruits : left' = [left EXCEPT ![q][u] = fruits]
      BY <1>1
    <3> QED
      BY <1>0, <1>1
  <2>3. \A x \in Sums, b \in Clients : ~(x = q /\ b = d) =>
          /\ b \in finalizing'[x] <=> b \in finalizing[x]
          /\ b \in finished'[x] <=> b \in finished[x]
    BY <1>0, <1>1
  <2> QED
    BY <1>1, <1>2, <2>1, <2>2, <2>3, OtherChannels
<1>3. \A a \in Aggs : sent'[q][d][a] = <<>>
  BY <1>1 DEF FlushInv, ChannelInv
<1>4. ASSUME NEW t \in Threads, Finalizes(q, t, d)' PROVE Flushing(q, t, d)'
  <2>1. ~Finalizes(q, t, d)
    BY <1>1, OneFlusher
  <2>2. FinalizeBegin(q, t, d)
    BY <1>4, <2>1, FinalizesStep
  <2>3. nextAgg'[q][t] = 0
    BY <1>0, <2>2 DEF FinalizeBegin
  <2>4. \A a \in Aggs : ~(a < 0)
    BY DEF Aggs
  <2> QED
    BY <1>3, <2>3, <2>4 DEF Flushing, NoEofIn, HasNoneOf
<1>5. d \in finalizing'[q] /\ d \notin finished'[q]
  BY <1>0, <1>1
<1>6. \A a \in Aggs : WellOrdered(sent'[q][d][a])
  BY <1>3 DEF WellOrdered
<1>7. ChannelInv(q, d)'
  BY <1>4, <1>5, <1>6 DEF ChannelInv
<1> QED
  BY <1>2, <1>7 DEF FlushInv

\* A client is finished when every aggregation has got its EOF.
LEMMA ClientFinished ==
    ASSUME TypeOK, ThreadInv, FlushInv, [Next]_vars,
           NEW q \in Sums, NEW u \in Threads, NEW d \in Clients, FinalizeEnd(q, u, d)
    PROVE  FlushInv'
<1>0. finalizing \in [Sums -> SUBSET Clients] /\ finished \in [Sums -> SUBSET Clients]
  BY DEF TypeOK
<1>1. /\ UNCHANGED <<sent, left, nextAgg>>
      /\ finalizing' = [finalizing EXCEPT ![q] = @ \ {d}]
      /\ finished' = [finished EXCEPT ![q] = @ \cup {d}]
      /\ Finalizes(q, u, d) /\ nextAgg[q][u] = AGGREGATION_AMOUNT
  BY DEF FinalizeEnd, AtEof, Finalizes
<1>2. ASSUME NEW s \in Sums, NEW c \in Clients, ~(s = q /\ c = d) PROVE ChannelInv(s, c)'
  <2>1. \A x \in Sums, b \in Clients : ~(x = q /\ b = d) =>
          /\ b \in finalizing'[x] <=> b \in finalizing[x]
          /\ b \in finished'[x] <=> b \in finished[x]
    BY <1>0, <1>1
  <2>2. pc[q][u] \in {"finalize", "sending"} /\ d \in eof[q][u]
    BY <1>1 DEF Finalizes
  <2> QED
    BY <1>1, <1>2, <2>1, <2>2, OtherChannels
<1>3. ChannelInv(q, d) /\ Flushing(q, u, d)
  BY <1>1 DEF FlushInv, ChannelInv
<1>4. \A a \in Aggs : WellOrdered(sent'[q][d][a]) /\ EndsWithEof(sent'[q][d][a])
  <2>1. \A a \in Aggs : a < AGGREGATION_AMOUNT
    BY SumAssumption DEF Aggs
  <2> QED
    BY <1>1, <1>3, <2>1 DEF ChannelInv, Flushing
<1>5. d \in finished'[q] /\ d \notin finalizing'[q]
  BY <1>0, <1>1
<1>6. \A t \in Threads : ~Finalizes(q, t, d)'
  <2>1. ThreadInv'
    BY ThreadStep
  <2> QED
    BY <1>5, <2>1 DEF ThreadInv
<1> QED
  <2>1. ChannelInv(q, d)'
    BY <1>4, <1>5, <1>6 DEF ChannelInv
  <2> QED
    BY <1>2, <2>1 DEF FlushInv

\* While the output connections work, every step keeps FlushInv.
LEMMA FlushStep ==
    ASSUME TypeOK, ThreadInv, FlushInv, OutputIntact, [Next]_vars
    PROVE  FlushInv'
<1> DEFINE Same == UNCHANGED <<sent, left, nextAgg, finalizing, finished>>
<1>1. Same => FlushInv'
  BY QuietChannels
<1>2. ASSUME NEW s \in Sums, NEW t \in Threads, NEW c \in Clients,
             WaitForClientIdle(s, t, c) \/ FinalizeSkip(s, t, c)
      PROVE  Same
  BY <1>2 DEF WaitForClientIdle, FinalizeSkip
<1>3. ASSUME NEW s \in Sums, NEW r \in Records, DataStep(s, r) PROVE Same
  BY <1>3 DEF DataStep, DeliverData, SkipData, CountData, ProcessData, ReleaseData
<1>4. ASSUME NEW s \in Sums, NEW c \in Clients, DeliveryStep(s, c) PROVE Same
  BY <1>4 DEF DeliveryStep, DeliverEof, DeliverControl, BroadcastEof
<1>5. ASSUME OutsideStep PROVE Same
  BY <1>5, OutsideFrame
<1> HIDE DEF Same
<1> QED
  BY <1>1, <1>2, <1>3, <1>4, <1>5, FruitSent, EofSent, CopyTaken, ClientFinished
     DEF Next, DataThread, ControlThread, ProcessEof, Fault, Rest, DataStep, DeliveryStep,
         OutsideStep

Flushed == OutputIntact => FlushInv

\* It always holds.
LEMMA FlushedHolds == Spec => []Flushed
<1>1. Init => Flushed
  <2> SUFFICES ASSUME Init PROVE FlushInv
    BY DEF Flushed
  <2>1. \A s \in Sums, c \in Clients :
          /\ c \notin finished[s] /\ \A a \in Aggs : sent[s][c][a] = <<>>
          /\ \A t \in Threads : ~Finalizes(s, t, c)
    BY Labels DEF Init, Finalizes
  <2> QED
    BY <2>1 DEF FlushInv, ChannelInv, WellOrdered
<1>2. Invariant /\ Flushed /\ [Next]_vars => Flushed'
  <2> SUFFICES ASSUME TypeOK, ThreadInv, Flushed, [Next]_vars, OutputIntact' PROVE FlushInv'
    BY DEF Invariant, Flushed
  <2> QED
    BY OutputBefore, FlushStep DEF Flushed
<1> QED
  BY <1>1, <1>2, InvariantHolds, PTL DEF Spec

\* While its output connections work, a Sum sends an aggregation each fruit of a client once,
\* then one EOF, and nothing more (lines 85-106 of sum/main.py): an aggregation that counts
\* EOFs misses nothing.
THEOREM FruitsThenOneEof == Spec => []FlushThenEof
<1>1. Flushed => FlushThenEof
  BY DEF Flushed, FlushInv, ChannelInv, WellOrdered, EndsWithEof, FlushThenEof
<1> QED
  BY <1>1, FlushedHolds, PTL

-----------------------------------------------------------------------------
(* Where a record is.                                                      *)

\* What a Sum sent stays sent.
LEMMA CarriedStays ==
    ASSUME TypeOK, [Next]_vars, NEW s \in Sums, NEW r \in Records, Carried(s, r)
    PROVE  Carried(s, r)'
<1>1. PICK c \in Clients, a \in Aggs : \E i \in DOMAIN sent[s][c][a] :
            Carries(sent[s][c][a][i], r)
  BY DEF Carried, Carries
<1>2. PICK i \in DOMAIN sent[s][c][a] : Carries(sent[s][c][a][i], r)
  BY <1>1
<1>3. i \in DOMAIN sent'[s][c][a] /\ sent'[s][c][a][i] = sent[s][c][a][i]
  <2>1. Extends(s, c, a)
    BY ChannelStep
  <2>2. ASSUME NEW t \in Threads, NEW m \in Outgoing(s, t),
               sent'[s][c][a] = Append(sent[s][c][a], m)
        PROVE  i \in DOMAIN sent'[s][c][a] /\ sent'[s][c][a][i] = sent[s][c][a][i]
    <3>1. m \in Messages
      BY OutgoingType
    <3>2. sent[s][c][a] \in Seq(Messages)
      BY DEF TypeOK
    <3> QED
      BY <2>2, <3>1, <3>2
  <2> QED
    BY <2>1, <2>2 DEF Extends
<1> QED
  BY <1>2, <1>3 DEF Carried, Carries

\* A thread goes on finalizing a client as long as the Sum has it among those being finalized.
LEMMA FinalizesStays ==
    ASSUME TypeOK, ThreadInv, [Next]_vars, NEW s \in Sums, NEW t \in Threads, NEW c \in Clients,
           Finalizes(s, t, c), c \in finalizing'[s]
    PROVE  Finalizes(s, t, c)'
<1>0. /\ pc \in [Sums -> [Threads -> Pcs]] /\ eof \in [Sums -> [Threads -> SUBSET eofSent]]
      /\ finalizing \in [Sums -> SUBSET Clients]
      /\ pc[s][t] = "sending" /\ c \in eof[s][t]
  BY DEF TypeOK, Finalizes
<1> DEFINE Goal == pc'[s][t] = "sending" /\ c \in eof'[s][t]
<1>1. (pc'[s][t] = pc[s][t] /\ eof'[s][t] = eof[s][t]) => Goal
  BY <1>0
<1>2. ASSUME NEW q \in Sums, NEW u \in Threads, NEW l, NEW e, ~(q = s /\ u = t),
             UNCHANGED pc \/ pc' = [pc EXCEPT ![q][u] = l],
             UNCHANGED eof \/ eof' = [eof EXCEPT ![q][u] = e]
      PROVE  Goal
  <2>1. pc'[s][t] = pc[s][t]
    <3>1. CASE q = s
      BY <1>0, <1>2, <3>1
    <3>2. CASE q # s
      BY <1>0, <1>2, <3>2
    <3> QED
      BY <3>1, <3>2
  <2>2. eof'[s][t] = eof[s][t]
    <3>1. CASE q = s
      BY <1>0, <1>2, <3>1
    <3>2. CASE q # s
      BY <1>0, <1>2, <3>2
    <3> QED
      BY <3>1, <3>2
  <2> QED
    BY <1>1, <2>1, <2>2
<1>3. ASSUME NEW q \in Sums, NEW p \in Records, DataStep(q, p) PROVE Goal
  <2>1. /\ UNCHANGED eof /\ \E l : pc' = [pc EXCEPT ![q]["data"] = l]
        /\ pc[q]["data"] # "sending"
    BY <1>3 DEF DataStep, DeliverData, Listening, SkipData, CountData, ProcessData, ReleaseData
  <2>2. ~(q = s /\ "data" = t)
    BY <1>0, <2>1
  <2> QED
    BY <1>2, <2>1, <2>2, Labels
<1>4. ASSUME NEW q \in Sums, NEW u \in Threads, NEW d \in Clients, EofStep(q, u, d) PROVE Goal
  <2>1. CASE ~(q = s /\ u = t)
    <3>1. /\ UNCHANGED pc \/ \E l : pc' = [pc EXCEPT ![q][u] = l]
          /\ UNCHANGED eof \/ \E e : eof' = [eof EXCEPT ![q][u] = e]
      BY <1>4, EofFrame
    <3> QED
      BY <1>2, <2>1, <3>1
  <2>2. CASE q = s /\ u = t
    <3>1. ASSUME finalizing' = [finalizing EXCEPT ![s] = @ \ {d}], d \in eof[s][t] PROVE FALSE
      <4>1. d = c
        BY <1>0, <3>1 DEF ThreadInv
      <4> QED
        BY <1>0, <3>1, <4>1
    <3>2. ~WaitForClientIdle(q, u, d) /\ ~FinalizeSkip(q, u, d) /\ ~FinalizeBegin(q, u, d)
      BY <1>0, <2>2 DEF WaitForClientIdle, FinalizeSkip, FinalizeBegin, AtEof
    <3>3. ~FinalizeEnd(q, u, d)
      BY <2>2, <3>1 DEF FinalizeEnd, AtEof
    <3>4. CASE Sends(q, u, d)
      <4>1. ~Aborts(q, u, d)
        BY <2>2, <3>1, <3>4 DEF Sends, Aborts, Finalizes
      <4> QED
        BY <1>1, <3>4, <4>1 DEF Sends, Continues
    <3> QED
      BY <1>4, <3>2, <3>3, <3>4 DEF EofStep
  <2> QED
    BY <2>1, <2>2
<1>5. ASSUME NEW q \in Sums, NEW d \in Clients, DeliveryStep(q, d) PROVE Goal
  <2>1. \E u \in Threads : /\ pc[q][u] # "sending"
                           /\ \E l : pc' = [pc EXCEPT ![q][u] = l]
                           /\ \E e : eof' = [eof EXCEPT ![q][u] = e]
    BY <1>5, Labels DEF DeliveryStep, DeliverEof, DeliverControl, BroadcastEof, Listening, AtEof,
       Ack, Nack
  <2>2. PICK u \in Threads : /\ pc[q][u] # "sending"
                             /\ \E l : pc' = [pc EXCEPT ![q][u] = l]
                             /\ \E e : eof' = [eof EXCEPT ![q][u] = e]
    BY <2>1
  <2>3. ~(q = s /\ u = t)
    BY <1>0, <2>2
  <2>4. PICK l, e : pc' = [pc EXCEPT ![q][u] = l] /\ eof' = [eof EXCEPT ![q][u] = e]
    BY <2>2
  <2> QED
    BY <1>2, <2>3, <2>4
<1>6. ASSUME OutsideStep PROVE Goal
  BY <1>1, <1>6, OutsideFrame
<1> QED
  BY <1>3, <1>4, <1>5, <1>6, NextCases DEF Finalizes

\* A client that is being finalized has a thread that finalizes it.
LEMMA FinalizingStep ==
    ASSUME TypeOK, ThreadInv, [Next]_vars, NEW s \in Sums, NEW c \in Clients,
           c \in finalizing[s] => \E t \in Threads : Finalizes(s, t, c),
           c \in finalizing'[s]
    PROVE  \E t \in Threads : Finalizes(s, t, c)'
<1>0. /\ finalizing \in [Sums -> SUBSET Clients] /\ pc \in [Sums -> [Threads -> Pcs]]
  BY DEF TypeOK
<1>1. CASE c \in finalizing[s]
  BY <1>1, FinalizesStays
<1>2. CASE c \notin finalizing[s]
  <2>1. ASSUME NEW q \in Sums, NEW u \in Threads, NEW d \in Clients, EofStep(q, u, d)
        PROVE  \E t \in Threads : FinalizeBegin(s, t, c)
    <3>1. CASE FinalizeBegin(q, u, d)
      <4>1. q = s /\ d = c
        BY <1>0, <1>2, <3>1 DEF FinalizeBegin
      <4> QED
        BY <3>1, <4>1
    <3>2. CASE UNCHANGED finalizing
      BY <1>2, <3>2
    <3>3. CASE finalizing' = [finalizing EXCEPT ![q] = @ \ {d}]
      BY <1>0, <1>2, <3>3
    <3> QED
      BY <2>1, <3>1, <3>2, <3>3
         DEF EofStep, WaitForClientIdle, FinalizeSkip, FinalizeEnd, Sends, Continues, Aborts
  <2>2. ASSUME NEW q \in Sums, NEW p \in Records, DataStep(q, p) PROVE UNCHANGED finalizing
    BY <2>2 DEF DataStep, DeliverData, SkipData, CountData, ProcessData, ReleaseData
  <2>3. ASSUME NEW q \in Sums, NEW d \in Clients, DeliveryStep(q, d) PROVE UNCHANGED finalizing
    BY <2>3 DEF DeliveryStep, DeliverEof, DeliverControl, BroadcastEof
  <2>4. PICK t \in Threads : FinalizeBegin(s, t, c)
    BY <1>2, <2>1, <2>2, <2>3, NextCases, OutsideFrame
  <2>5. Finalizes(s, t, c)'
    BY <1>0, <2>4 DEF FinalizeBegin, AtEof, Finalizes
  <2> QED
    BY <2>5
<1> QED
  BY <1>1, <1>2

\* What a Sum dropped stays dropped.
LEMMA DroppedGrows ==
    ASSUME TypeOK, [Next]_vars, NEW s \in Sums
    PROVE  dropped[s] \subseteq dropped'[s]
<1>0. dropped \in [Sums -> SUBSET Records]
  BY DEF TypeOK
<1> DEFINE Goal == UNCHANGED dropped \/ \E q \in Sums : \E R : dropped' = [dropped EXCEPT ![q] = @ \cup R]
<1>1. ASSUME NEW q \in Sums, NEW p \in Records, DataStep(q, p) PROVE Goal
  BY <1>1 DEF DataStep, DeliverData, SkipData, CountData, ProcessData, ReleaseData
<1>2. ASSUME NEW q \in Sums, NEW u \in Threads, NEW d \in Clients, EofStep(q, u, d) PROVE Goal
  BY <1>2 DEF EofStep, WaitForClientIdle, FinalizeSkip, FinalizeBegin, Sends, FinalizeEnd
<1>3. ASSUME NEW q \in Sums, NEW d \in Clients, DeliveryStep(q, d) PROVE Goal
  BY <1>3 DEF DeliveryStep, DeliverEof, DeliverControl, BroadcastEof
<1>4. Goal
  BY <1>1, <1>2, <1>3, NextCases, OutsideFrame
<1> QED
  BY <1>0, <1>4

\* What a Sum has accounted for it does not forget: the amounts that are popped were sent,
\* or are dropped.
LEMMA AccountedStays ==
    ASSUME TypeOK, CopyInv, [Next]_vars, NEW s \in Sums, NEW r \in Records, Accounted(s, r)
    PROVE  Accounted(s, r)'
<1>1. Carried(s, r) => Accounted(s, r)'
  BY CarriedStays DEF Accounted
<1>2. r \in dropped[s] => Accounted(s, r)'
  BY DroppedGrows DEF Accounted
<1>3. ASSUME amounts[s][r] > 0 PROVE Accounted(s, r)'
  <2>0. amounts[s][r] \in Nat /\ dropped \in [Sums -> SUBSET Records]
    BY DEF TypeOK, Bag
  <2>1. CASE amounts[s][r] <= amounts'[s][r]
    <3>1. amounts'[s][r] > 0
      <4>1. amounts' \in [Sums -> Bag]
        BY TypeStep DEF TypeOK
      <4>2. amounts'[s][r] \in Nat
        BY <4>1 DEF Bag
      <4> QED
        BY <1>3, <2>0, <2>1, <4>2
    <3> QED
      BY <3>1 DEF Accounted
  <2>2. ASSUME NEW t \in Threads, FinalizeEnd(s, t, ClientOf[r]) PROVE Accounted(s, r)'
    <3>1. /\ left[s][t] = {} /\ Finalizes(s, t, ClientOf[r])
          /\ dropped' = [dropped EXCEPT ![s] = @ \cup
                            {p \in RecordsOf(ClientOf[r]) : amounts[s][p] > snap[s][t][p]}]
      BY <2>2 DEF FinalizeEnd, AtEof, Finalizes
    <3>2. CASE amounts[s][r] > snap[s][t][r]
      <4>1. r \in dropped'[s]
        BY <2>0, <3>1, <3>2 DEF RecordsOf
      <4> QED
        BY <4>1 DEF Accounted
    <3>3. CASE ~(amounts[s][r] > snap[s][t][r])
      <4>1. snap[s][t][r] > 0
        <5>1. snap[s][t][r] \in Nat
          BY DEF TypeOK, Bag
        <5> QED
          BY <1>3, <2>0, <3>3, <5>1
      <4>2. Carried(s, r)
        BY <3>1, <4>1 DEF CopyInv
      <4> QED
        BY <1>1, <4>2
    <3> QED
      BY <3>2, <3>3
  <2> QED
    BY <2>1, <2>2, AmountsStay
<1> QED
  BY <1>1, <1>2, <1>3 DEF Accounted

\* A message in the data thread's hand that was processed is accounted for.
LEMMA ProcessedStep ==
    ASSUME TypeOK, ThreadInv, CopyInv, [Next]_vars, NEW s \in Sums,
           pc'[s]["data"] = "processed", NEW r \in data'[s]
    PROVE  Accounted(s, r)'
<1>0. /\ pc \in [Sums -> [Threads -> Pcs]] /\ data \in [Sums -> SUBSET published]
      /\ published \in SUBSET Records /\ amounts \in [Sums -> Bag]
      /\ dropped \in [Sums -> SUBSET Records]
  BY DEF TypeOK
<1> DEFINE Goal == (pc[s]["data"] = "processed" /\ r \in data[s]) \/ ProcessData(s, r)
<1>1. pc'[s]["data"] = pc[s]["data"] /\ data'[s] = data[s] => Goal
  OBVIOUS
<1>2. ASSUME NEW q \in Sums, NEW p \in Records, DataStep(q, p) PROVE Goal
  <2>1. CASE q = s
    <3>1. ~DeliverData(q, p) /\ ~SkipData(q, p) /\ ~CountData(q, p) /\ ~ReleaseData(q, p)
      BY <1>0, <2>1, Labels DEF DeliverData, SkipData, CountData, ReleaseData
    <3>2. ProcessData(q, p) /\ UNCHANGED data /\ p \in data[q]
      BY <1>2, <3>1 DEF DataStep, ProcessData
    <3>3. r = p
      BY <2>1, <3>2 DEF ThreadInv
    <3> QED
      BY <2>1, <3>2, <3>3
  <2>2. CASE q # s
    <3>1. /\ \E l : pc' = [pc EXCEPT ![q]["data"] = l]
          /\ UNCHANGED data \/ \E e : data' = [data EXCEPT ![q] = e]
      BY <1>2 DEF DataStep, DeliverData, SkipData, CountData, ProcessData, ReleaseData
    <3> QED
      BY <1>0, <1>1, <2>2, <3>1
  <2> QED
    BY <2>1, <2>2
<1>3. ASSUME UNCHANGED data, NEW q \in Sums, NEW u \in Threads, NEW l,
             pc' = [pc EXCEPT ![q][u] = l], l # "processed"
      PROVE  Goal
  <2>1. CASE q = s /\ u = "data"
    BY <1>0, <1>3, <2>1
  <2>2. CASE ~(q = s /\ u = "data")
    <3>1. pc'[s]["data"] = pc[s]["data"]
      BY <1>0, <1>3, <2>2, Labels
    <3> QED
      BY <1>1, <1>3, <3>1
  <2> QED
    BY <2>1, <2>2
<1>4. ASSUME NEW q \in Sums, NEW u \in Threads, NEW d \in Clients, EofStep(q, u, d) PROVE Goal
  <2>1. /\ UNCHANGED data
        /\ UNCHANGED pc \/ \E l \in {"idle", "finalize", "sending", "broadcast"} :
                              pc' = [pc EXCEPT ![q][u] = l]
    BY <1>4 DEF EofStep, WaitForClientIdle, FinalizeSkip, FinalizeBegin, Sends, Continues, Aborts,
       FinalizeEnd, Ack
  <2> QED
    BY <1>1, <1>3, <2>1
<1>5. ASSUME NEW q \in Sums, NEW d \in Clients, DeliveryStep(q, d) PROVE Goal
  <2>1. UNCHANGED data /\ \E u \in Threads : \E l \in {"idle", "waiting"} :
                             pc' = [pc EXCEPT ![q][u] = l]
    BY <1>5, Labels DEF DeliveryStep, DeliverEof, DeliverControl, BroadcastEof, Ack, Nack
  <2> QED
    BY <1>3, <2>1
<1>6. Goal
  BY <1>1, <1>2, <1>4, <1>5, NextCases, OutsideFrame
<1>7. CASE pc[s]["data"] = "processed" /\ r \in data[s]
  <2>1. Accounted(s, r) /\ r \in Records
    BY <1>0, <1>7 DEF CopyInv
  <2> QED
    BY <2>1, AccountedStays
<1>8. CASE ProcessData(s, r)
  <2>0. r \in Records
    BY <1>0, <1>8 DEF ProcessData
  <2>1. CASE dropped' = [dropped EXCEPT ![s] = @ \cup {r}]
    BY <1>0, <2>1 DEF Accounted
  <2>2. CASE amounts' = [amounts EXCEPT ![s] = Added(@, r)]
    <3>1. amounts'[s][r] = amounts[s][r] + 1 /\ amounts[s][r] \in Nat
      BY <1>0, <2>0, <2>2, BagValues DEF Bag
    <3> QED
      BY <3>1 DEF Accounted
  <2> QED
    BY <1>8, <2>1, <2>2 DEF ProcessData
<1> QED
  BY <1>6, <1>7, <1>8

\* A fruit that is no longer to be sent was sent.
LEMMA LeftStep ==
    ASSUME TypeOK, ThreadInv, OutputIntact, [Next]_vars, NEW s \in Sums, NEW t \in Threads,
           NEW r \in Records, Finalizes(s, t, ClientOf[r]), snap[s][t][r] > 0,
           FruitOf[r] \in left[s][t], FruitOf[r] \notin left'[s][t]
    PROVE  Carried(s, r)'
<1>0. left \in [Sums -> [Threads -> SUBSET Fruits]]
  BY DEF TypeOK
<1> DEFINE Goal == \E c \in Clients : SendPartialSum(s, t, c, FruitOf[r])
<1>1. UNCHANGED left => Goal
  OBVIOUS
<1>2. ASSUME NEW q \in Sums, NEW u \in Threads, NEW d \in Clients, NEW f \in Fruits,
             SendPartialSum(q, u, d, f)
      PROVE  Goal
  <2>1. left' = [left EXCEPT ![q][u] = @ \ {f}]
    BY <1>1, <1>2 DEF SendPartialSum
  <2>2. q = s /\ u = t
    <3>1. CASE q = s
      BY <1>0, <2>1, <3>1
    <3>2. CASE q # s
      BY <1>0, <2>1, <3>2
    <3> QED
      BY <3>1, <3>2
  <2>3. f = FruitOf[r]
    BY <1>0, <2>1, <2>2
  <2> QED
    BY <1>2, <2>2, <2>3
<1>3. ASSUME NEW q \in Sums, NEW u \in Threads, NEW d \in Clients, FinalizeBegin(q, u, d)
      PROVE  FALSE
  <2>1. ~(q = s /\ u = t)
    BY <1>3 DEF FinalizeBegin, AtEof, Finalizes
  <2>2. PICK e : left' = [left EXCEPT ![q][u] = e]
    BY <1>3 DEF FinalizeBegin
  <2>3. left'[s][t] = left[s][t]
    <3>1. CASE q = s
      BY <1>0, <2>1, <2>2, <3>1
    <3>2. CASE q # s
      BY <1>0, <2>2, <3>2
    <3> QED
      BY <3>1, <3>2
  <2> QED
    BY <2>3
<1>4. ASSUME NEW q \in Sums, NEW u \in Threads, NEW d \in Clients,
             \/ WaitForClientIdle(q, u, d) \/ FinalizeSkip(q, u, d) \/ SendEof(q, u, d)
             \/ FinalizeEnd(q, u, d)
      PROVE  Goal
  BY <1>1, <1>4 DEF WaitForClientIdle, FinalizeSkip, SendEof, FinalizeEnd
<1>5. ASSUME NEW q \in Sums, NEW p \in Records, DataStep(q, p) PROVE Goal
  BY <1>1, <1>5 DEF DataStep, DeliverData, SkipData, CountData, ProcessData, ReleaseData
<1>6. ASSUME NEW q \in Sums, NEW d \in Clients, DeliveryStep(q, d) PROVE Goal
  BY <1>1, <1>6 DEF DeliveryStep, DeliverEof, DeliverControl, BroadcastEof
<1>7. ASSUME OutsideStep PROVE Goal
  BY <1>1, <1>7, OutsideFrame
<1> HIDE DEF Goal
<1>8. Goal
  BY <1>2, <1>3, <1>4, <1>5, <1>6, <1>7
     DEF Next, DataThread, ControlThread, ProcessEof, Fault, Rest, DataStep, DeliveryStep,
         OutsideStep
<1>9. PICK c \in Clients : SendPartialSum(s, t, c, FruitOf[r])
  BY <1>8 DEF Goal
<1> DEFINE a == TargetAggregation[FruitOf[r]]
           m == PartialSum(FruitOf[r], AmountOf(snap[s][t], FruitOf[r]))
<1>10. a \in Aggs /\ m \in Messages
  BY ConstantTypes, BagType DEF TypeOK
<1>11. sent' = [sent EXCEPT ![s][c][a] = Append(@, m)]
  <2>1. PICK out \in SendOutcomes(dataLink[s][a]) : SendTo(s, c, a, m, out)
    BY <1>9 DEF SendPartialSum
  <2> HIDE DEF a, m
  <2> QED
    BY <1>10, <2>1, SentOnOpen
<1>12. Carries(m, r)
  <2>1. m.amount = AmountOf(snap[s][t], FruitOf[r]) /\ m.type = "PARTIAL_SUM"
    BY DEF PartialSum
  <2>2. AmountOf(snap[s][t], FruitOf[r])[r] = snap[s][t][r]
    BY BagValues
  <2> QED
    BY <2>1, <2>2 DEF Carries
<1> HIDE DEF a, m
<1>13. /\ sent[s][c][a] \in Seq(Messages)
       /\ sent'[s][c][a] = Append(sent[s][c][a], m)
  BY <1>10, <1>11 DEF TypeOK
<1>14. \E i \in DOMAIN sent'[s][c][a] : sent'[s][c][a][i] = m
  <2> PICK ch : ch = sent[s][c][a]
    OBVIOUS
  <2>1. ch \in Seq(Messages) /\ sent'[s][c][a] = Append(ch, m)
    BY <1>13
  <2>2. Len(ch) + 1 \in DOMAIN Append(ch, m) /\ Append(ch, m)[Len(ch) + 1] = m
    BY <1>10, <2>1, AppendProperties
  <2> QED
    BY <2>1, <2>2
<1> QED
  BY <1>10, <1>12, <1>14 DEF Carried, Carries

\* While the output connections work, CopyInv is kept.
LEMMA CopyInvStep ==
    ASSUME TypeOK, ThreadInv, CopyInv, OutputIntact, [Next]_vars
    PROVE  CopyInv'
<1>1. ASSUME NEW s \in Sums, NEW c \in finalizing'[s]
      PROVE  \E t \in Threads : Finalizes(s, t, c)'
  <2>1. c \in Clients
    BY TypeStep DEF TypeOK
  <2>2. c \in finalizing[s] => \E t \in Threads : Finalizes(s, t, c)
    BY DEF CopyInv
  <2> QED
    BY <2>1, <2>2, FinalizingStep
<1>2. ASSUME NEW s \in Sums, NEW t \in Threads, NEW r \in Records,
             Finalizes(s, t, ClientOf[r])', snap'[s][t][r] > 0
      PROVE  FruitOf[r] \in left'[s][t] \/ Carried(s, r)'
  <2>0. ClientOf[r] \in Clients /\ FruitOf[r] \in Fruits
    BY ConstantTypes
  <2>1. CASE Finalizes(s, t, ClientOf[r]) /\ snap'[s][t] = snap[s][t]
    <3>1. FruitOf[r] \in left[s][t] \/ Carried(s, r)
      BY <1>2, <2>1 DEF CopyInv
    <3> QED
      BY <1>2, <2>1, <3>1, LeftStep, CarriedStays
  <2>2. CASE FinalizeBegin(s, t, ClientOf[r])
    <3> DEFINE copy == EntryOf(amounts[s], ClientOf[r])
    <3>1. snap'[s][t] = copy /\ left'[s][t] = FruitsIn(copy)
      BY <2>2 DEF FinalizeBegin, TypeOK
    <3> HIDE DEF copy
    <3>2. FruitOf[r] \in FruitsIn(copy)
      BY <1>2, <2>0, <3>1 DEF FruitsIn
    <3> QED
      BY <3>1, <3>2
  <2> QED
    BY <1>2, <2>0, <2>1, <2>2, FinalizesStep
<1>3. ASSUME NEW s \in Sums, pc'[s]["data"] = "processed", NEW r \in data'[s]
      PROVE  Accounted(s, r)'
  BY <1>3, ProcessedStep
<1> QED
  BY <1>1, <1>2, <1>3 DEF CopyInv

\* Nor does a record leave all the places where it can be.
LEMMA PlaceStep ==
    ASSUME TypeOK, ThreadInv, CopyInv, PlaceInv, [Next]_vars
    PROVE  PlaceInv'
<1>0. /\ data \in [Sums -> SUBSET published] /\ pending \in SUBSET published
      /\ published \in SUBSET Records /\ dropped \in [Sums -> SUBSET Records]
  BY DEF TypeOK
<1> SUFFICES ASSUME NEW r \in published'
             PROVE  r \in pending' \/ \E s \in Sums : r \in data'[s] \/ Accounted(s, r)'
  BY DEF PlaceInv
<1> DEFINE Goal == r \in pending' \/ \E s \in Sums : r \in data'[s] \/ Accounted(s, r)'
<1>1. \A s \in Sums : r \in Records /\ Accounted(s, r) => Goal
  BY AccountedStays
<1>2. pending \subseteq pending' /\ (\A s \in Sums : data[s] \subseteq data'[s]) /\ r \in published
        => Goal
  BY <1>0, <1>1 DEF PlaceInv
<1>3. ASSUME NEW q \in Sums, NEW p \in Records, DataStep(q, p) PROVE Goal
  <2>0. published' = published /\ r \in published /\ r \in Records
    BY <1>0, <1>3 DEF DataStep, DeliverData, SkipData, CountData, ProcessData, ReleaseData
  <2>1. CASE DeliverData(q, p)
    <3>1. /\ pending' = pending \ {p} /\ data' = [data EXCEPT ![q] = {p}]
          /\ pc[q]["data"] = "idle"
      BY <2>1 DEF DeliverData, Listening
    <3>2. data[q] = {}
      BY <3>1 DEF ThreadInv, HandlesData
    <3>3. p \in data'[q] /\ \A s \in Sums : data[s] \subseteq data'[s]
      BY <1>0, <3>1, <3>2
    <3>4. r = p \/ (r \in pending => r \in pending')
      BY <3>1
    <3> QED
      BY <1>1, <2>0, <3>3, <3>4 DEF PlaceInv
  <2>2. CASE SkipData(q, p)
    <3>1. /\ pending' = pending /\ data' = [data EXCEPT ![q] = {}] /\ p \in data[q]
          /\ dropped' = [dropped EXCEPT ![q] = @ \cup {p}]
      BY <2>2 DEF SkipData
    <3>2. \A s \in Sums : r \in data[s] => r \in data'[s] \/ Accounted(s, r)'
      <4>1. ASSUME r \in data[q] PROVE r \in dropped'[q]
        BY <1>0, <3>1, <4>1 DEF ThreadInv
      <4>2. \A s \in Sums : s # q => data'[s] = data[s]
        BY <1>0, <3>1
      <4> QED
        BY <4>1, <4>2 DEF Accounted
    <3> QED
      BY <1>1, <2>0, <3>1, <3>2 DEF PlaceInv
  <2>3. CASE ReleaseData(q, p)
    <3>1. /\ pending' = pending /\ data' = [data EXCEPT ![q] = {}] /\ p \in data[q]
          /\ pc[q]["data"] = "processed"
      BY <2>3 DEF ReleaseData
    <3>2. \A s \in Sums : r \in data[s] => r \in data'[s] \/ Accounted(s, r)
      <4>1. r \in data[q] => Accounted(q, r)
        BY <3>1 DEF CopyInv
      <4>2. \A s \in Sums : s # q => data'[s] = data[s]
        BY <1>0, <3>1
      <4> QED
        BY <4>1, <4>2
    <3> QED
      BY <1>1, <2>0, <3>1, <3>2 DEF PlaceInv
  <2>4. CASE CountData(q, p) \/ ProcessData(q, p)
    BY <1>2, <2>0, <2>4 DEF CountData, ProcessData
  <2> QED
    BY <1>3, <2>1, <2>2, <2>3, <2>4 DEF DataStep
<1>4. ASSUME NEW q \in Sums, NEW u \in Threads, NEW d \in Clients, EofStep(q, u, d) PROVE Goal
  BY <1>2, <1>4
     DEF EofStep, WaitForClientIdle, FinalizeSkip, FinalizeBegin, Sends, FinalizeEnd
<1>5. ASSUME NEW q \in Sums, NEW d \in Clients, DeliveryStep(q, d) PROVE Goal
  BY <1>2, <1>5 DEF DeliveryStep, DeliverEof, DeliverControl, BroadcastEof
<1>6. ASSUME OutsideStep PROVE Goal
  <2>1. UNCHANGED data /\ pending \subseteq pending'
    BY <1>6 DEF OutsideStep, PublishData, PublishEof, Start, LoseConsumer, BreakDataLink,
       BreakCtrlLink, vars
  <2>2. r \in published \/ r \in pending'
    BY <1>6 DEF OutsideStep, PublishData, PublishEof, Start, LoseConsumer, BreakDataLink,
       BreakCtrlLink, vars
  <2> QED
    BY <1>2, <2>1, <2>2
<1> QED
  BY <1>3, <1>4, <1>5, <1>6, NextCases

\* While the output connections work, a record has a place.
Placed == OutputIntact => CopyInv /\ PlaceInv

\* It always has.
LEMMA PlacedHolds == Spec => []Placed
<1>1. Init => Placed
  <2> SUFFICES ASSUME Init PROVE CopyInv /\ PlaceInv
    BY DEF Placed
  <2>1. \A s \in Sums : /\ finalizing[s] = {} /\ data[s] = {}
                        /\ \A t \in Threads : \A c : ~Finalizes(s, t, c)
    BY Labels DEF Init, Finalizes
  <2>2. published = {}
    BY DEF Init
  <2> QED
    BY <2>1, <2>2 DEF CopyInv, PlaceInv
<1>2. Invariant /\ Placed /\ [Next]_vars => Placed'
  <2> SUFFICES ASSUME TypeOK, ThreadInv, Placed, [Next]_vars, OutputIntact'
               PROVE  CopyInv' /\ PlaceInv'
    BY DEF Invariant, Placed
  <2> QED
    BY OutputBefore, CopyInvStep, PlaceStep DEF Placed
<1> QED
  BY <1>1, <1>2, InvariantHolds, PTL DEF Spec

\* While the output connections work no record vanishes between INPUT_QUEUE and the
\* aggregations (lines 56-97, 107-116 and 150-173 of sum/main.py), but for those that were
\* dropped.
THEOREM NoRecordVanishes == Spec => []NothingVanishes
<1>1. Placed => NothingVanishes
  BY DEF Placed, PlaceInv, Accounted, Owns, NothingVanishes
<1> QED
  BY <1>1, PlacedHolds, PTL

-----------------------------------------------------------------------------
(* How many records are not forwarded.                                     *)

\* A Sum that sends no more of a client.
SendsNoMore(s, c) ==
    c \in finished[s] \/ \E t \in Threads : Finalizes(s, t, c) /\ left[s][t] = {}

\* What is known while the connections work.
WhileIntact ==
    /\ TypeOK /\ ThreadInv /\ SettledInv /\ LossInv /\ TakerInv
    /\ CopyInv /\ PlaceInv

\* A record that a Sum does not send, when it sends no more, is one that it can lose.
LEMMA MissingIsExposed ==
    ASSUME WhileIntact, NEW c \in Clients, \A s \in Sums : SendsNoMore(s, c), NEW r \in Missing(c)
    PROVE  \E s \in Sums : Exposed(s, r)
<1>0. r \in published /\ r \in Records /\ ClientOf[r] = c /\ \A s \in Sums : ~Carried(s, r)
  BY DEF Missing, RecordsOf
<1>1. r \notin pending
  <2>1. PICK s : s \in Sums
    BY SumAssumption
  <2>2. Seen(s, c)
    BY <2>1 DEF SendsNoMore, Finalizes, Seen
  <2>3. Drained(c)
    BY <2>1, <2>2 DEF WhileIntact, SettledInv, Settled
  <2> QED
    BY <1>0, <2>3 DEF Drained, RecordsOf
<1>2. PICK s \in Sums : r \in data[s] \/ Accounted(s, r)
  BY <1>0, <1>1 DEF WhileIntact, PlaceInv
<1>3. CASE r \in data[s] \cup dropped[s]
  BY <1>3 DEF Exposed
<1>4. CASE amounts[s][r] > 0
  <2>1. c \notin finished[s]
    BY <1>0, <1>4 DEF WhileIntact, ThreadInv
  <2>2. PICK t \in Threads : Finalizes(s, t, c) /\ left[s][t] = {}
    BY <2>1 DEF SendsNoMore
  <2>3. ~(snap[s][t][r] > 0)
    BY <1>0, <2>2 DEF WhileIntact, CopyInv
  <2>4. snap[s][t][r] \in Nat /\ amounts[s][r] \in Nat
    BY <1>0 DEF WhileIntact, TypeOK, Bag
  <2>5. amounts[s][r] > snap[s][t][r]
    BY <1>4, <2>3, <2>4
  <2> QED
    BY <1>0, <2>2, <2>5 DEF Exposed, Missed
<1> QED
  BY <1>0, <1>2, <1>3, <1>4 DEF Accounted

\* One of the Sums that send no more can lose nothing: the one that took the EOF.
LEMMA OneIsSafe ==
    ASSUME WhileIntact, NEW c \in Clients, \A s \in Sums : SendsNoMore(s, c)
    PROVE  \E s \in Sums : \A r \in RecordsOf(c) : ~Exposed(s, r)
<1>1. CASE \E s \in Sums : c \in finished[s]
  <2>1. PICK s \in Sums : Safe(s, c)
    BY <1>1 DEF WhileIntact, TakerInv
  <2>2. \A t \in Threads : ~Finalizes(s, t, c)
    BY <2>1 DEF WhileIntact, ThreadInv, Safe
  <2> QED
    BY <2>1, <2>2 DEF Safe, Exposed, Missed, RecordsOf
<1>2. CASE \A s \in Sums : c \notin finished[s]
  <2>1. PICK s : s \in Sums
    BY SumAssumption
  <2>2. PICK t \in Threads : Finalizes(s, t, c)
    BY <1>2, <2>1 DEF SendsNoMore
  <2>3. ~Finalizes(s, "control", c)
    BY <1>2, <2>1 DEF Finalizes, WhileIntact, TakerInv
  <2>4. Finalizes(s, "data", c)
    BY <2>2, <2>3, Labels
  <2>5. data[s] = {}
    BY <2>1, <2>4 DEF WhileIntact, ThreadInv, HandlesData, Finalizes
  <2>6. \A r \in RecordsOf(c) : r \notin dropped[s]
    BY <1>2, <2>1 DEF WhileIntact, ThreadInv, RecordsOf
  <2>7. ASSUME NEW r \in RecordsOf(c) PROVE ~Missed(s, r)
    <3>1. amounts[s][r] = snap[s]["data"][r] /\ amounts[s][r] \in Nat
      BY <2>1, <2>4, <2>7 DEF WhileIntact, TakerInv, TypeOK, Bag, RecordsOf
    <3>2. ~(amounts[s][r] > snap[s]["data"][r])
      BY <3>1
    <3> QED
      BY <2>3, <2>7, <3>2, Labels DEF Missed, RecordsOf
  <2> QED
    BY <2>1, <2>5, <2>6, <2>7 DEF Exposed
<1> QED
  BY <1>1, <1>2

\* So there is a Sum for each record that is not forwarded, another for each, and one for none.
LEMMA FewMissing ==
    ASSUME WhileIntact, NEW c \in Clients, \A s \in Sums : SendsNoMore(s, c)
    PROVE  IsFiniteSet(Missing(c)) /\ Cardinality(Missing(c)) <= Cardinality(Sums) - 1
<1>1. PICK safe \in Sums : \A r \in RecordsOf(c) : ~Exposed(safe, r)
  BY OneIsSafe
<1>2. Missing(c) \subseteq RecordsOf(c)
  BY DEF Missing
<1> DEFINE others == Sums \ {safe}
           Loses(s, r) == Exposed(s, r)
           loser == [r \in Missing(c) |-> CHOOSE s \in Sums : Loses(s, r)]
<1>3. ASSUME NEW r \in Missing(c) PROVE loser[r] \in others /\ Exposed(loser[r], r)
  <2>1. \E s \in Sums : Loses(s, r)
    BY MissingIsExposed
  <2> HIDE DEF Loses
  <2>2. loser[r] \in Sums /\ Loses(loser[r], r)
    BY <1>3, <2>1
  <2> HIDE DEF loser
  <2>3. Exposed(loser[r], r)
    BY <2>2 DEF Loses
  <2> QED
    BY <1>1, <1>2, <2>2, <2>3
<1>4. loser \in [Missing(c) -> others]
  BY <1>3
<1> HIDE DEF loser
<1>5. ASSUME NEW q \in Missing(c), NEW r \in Missing(c), loser[q] = loser[r] PROVE q = r
  <2> PICK s \in Sums : s = loser[q] /\ s = loser[r]
    BY <1>3, <1>5
  <2>1. Exposed(s, q) /\ Exposed(s, r)
    BY <1>3
  <2>2. q \in Records /\ r \in Records /\ ClientOf[q] = c /\ ClientOf[r] = c
    BY <1>2 DEF RecordsOf
  <2>3. c \in finalizing[s] \cup finished[s]
    BY DEF SendsNoMore, WhileIntact, ThreadInv
  <2> QED
    BY <2>1, <2>2, <2>3 DEF WhileIntact, LossInv
<1>6. loser \in Injection(Missing(c), others)
  BY <1>4, <1>5 DEF Injection, IsInjective
<1>7. IsFiniteSet(others) /\ Cardinality(others) = Cardinality(Sums) - 1
  BY SumAssumption, FS_RemoveElement
<1> HIDE DEF others
<1> QED
  BY <1>6, <1>7, FS_Injection

\* When every Sum has finished a client, all its records have been forwarded but at most one
\* for each Sum less one, however the EOF overtook the DATA (lines 78, 115, 151).
THEOREM FewAreMissing == Spec => []AlmostAllForwarded
<1>1. Invariant /\ Placed => AlmostAllForwarded
  <2> SUFFICES ASSUME Invariant, Placed, DataConsumersIntact, OutputIntact,
                      NEW c \in Clients, \A s \in Sums : c \in finished[s]
               PROVE  Cardinality(Missing(c)) <= Cardinality(Sums) - 1
    BY DEF AlmostAllForwarded
  <2>1. WhileIntact
    BY DEF Invariant, Placed, WhileIntact
  <2>2. \A s \in Sums : SendsNoMore(s, c)
    BY DEF SendsNoMore
  <2> QED
    BY <2>1, <2>2, FewMissing
<1> QED
  BY <1>1, InvariantHolds, PlacedHolds, PTL

=============================================================================
