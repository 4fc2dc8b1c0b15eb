------------------------ MODULE AggregationFilter_proofs ------------------------
(***************************************************************************)
(* The aggregations, for any number of them, of Sums, clients and fruits,  *)
(* with any failures and any number of times that the Sums send again.     *)
(* Invariant is inductive.  It says, of each queue, that the first copy of *)
(* a partial sum has the amount it was first queued with, and that all     *)
(* that a Sum promised is before its EOF (QueueInv); that the list of an   *)
(* aggregation is the merge of what it took (TopInv); that the count of    *)
(* line 91 is the number of Sums noted at line 97 (CountInv); and at which *)
(* point of _send_top the join's queues get something (OutputInv).         *)
(***************************************************************************)
EXTENDS AggregationFilter, FruitTop_proofs, SequenceTheorems

USE DEF sumVars, clientVars, outputVars

-----------------------------------------------------------------------------
(* The invariant.                                                          *)

Tables == UNION {[S -> Nat] : S \in SUBSET Fruits}

\* A queue: a message about f is in it, before some place or anywhere.
IsSum(m, f) == m.type = "PARTIAL_SUM" /\ m.fruit = f
SumBefore(q, i, f) == \E j \in DOMAIN q : j < i /\ IsSum(q[j], f)
InQueue(q, f) == \E j \in DOMAIN q : IsSum(q[j], f)

\* Of a fruit that was not taken the first copy has the amount in table t.
FirstIsRight(q, taken, t) ==
    \A i \in DOMAIN q : \A f \in Fruits :
        IsSum(q[i], f) /\ f \notin taken /\ ~SumBefore(q, i, f) => q[i].amount = t[f]
\* The fruits of S were taken, or are in the queue; or they are before every EOF in it.
Covers(q, taken, S) == \A f \in S : f \in taken \/ InQueue(q, f)
EofAfter(q, taken, S) ==
    \A i \in DOMAIN q : q[i] = EofMessage => \A f \in S : f \in taken \/ SumBefore(q, i, f)

Taken(a, s, c) == {f \in Fruits : <<s, f>> \in receivedPartialSums[a][c]}
TakenTables(a, c) == [s \in Sums |-> Restricted(first[s][c], Taken(a, s, c))]

TypeInv ==
    /\ offered \in [Sums -> [Clients -> Tables]]
    /\ first \in [Sums -> [Clients -> Tables]]
    /\ left \in [Sums -> [Clients -> SUBSET Fruits]]
    /\ nextAgg \in [Sums -> [Clients -> 0 .. AGGREGATION_AMOUNT]]
    /\ inbox \in [Aggs -> [Sums -> [Clients -> Seq(Messages)]]]
    /\ consumer \in [Aggs -> {"down", "up", "lost"}]
    /\ pc \in [Aggs -> {"idle", "sendTop", "sendCoordination", "complete"}]
    /\ eof \in [Aggs -> SUBSET (Sums \X Clients)]
    /\ fruitTop \in [Aggs -> [Clients -> Tables]]
    /\ sumsReceived \in [Aggs -> [Clients -> 0 .. SUM_AMOUNT]]
    /\ receivedPartialSums \in [Aggs -> [Clients -> SUBSET (Sums \X Fruits)]]
    /\ receivedEofs \in [Aggs -> [Clients -> SUBSET Sums]]
    /\ completed \in [Aggs -> SUBSET Clients]
    /\ finalizing \in [Aggs -> SUBSET Clients]
    /\ payload \in [Aggs -> Tables]
    /\ joinQueue \in [Aggs -> [Clients -> Seq(Tables)]]
    /\ coordQueue \in [Aggs -> [Clients -> Nat]]
    /\ outLink \in [Aggs -> LinkStates] /\ coordLink \in [Aggs -> LinkStates]
    /\ promised \in [Aggs -> [Sums -> [Clients -> SUBSET SUBSET Fruits]]]
    /\ faults \in Nat /\ resends \in Nat

SumInv == \A s \in Sums, c \in Clients : left[s][c] \subseteq DOMAIN offered[s][c]

QueueOK(a, s, c) ==
    /\ \A i \in DOMAIN inbox[a][s][c] :
         /\ \A f \in Fruits : IsSum(inbox[a][s][c][i], f) => f \in FruitsQueued(a, s, c)
         /\ inbox[a][s][c][i] = EofMessage => promised[a][s][c] # {}
    /\ c \notin completed[a] =>
         /\ FirstIsRight(inbox[a][s][c], Taken(a, s, c), first[s][c])
         /\ EofAfter(inbox[a][s][c], Taken(a, s, c), UNION promised[a][s][c])
         /\ consumer[a] = "up" => Covers(inbox[a][s][c], Taken(a, s, c), FruitsQueued(a, s, c))
    /\ consumer[a] # "up" => inbox[a][s][c] = <<>>
    /\ consumer[a] = "down" => FruitsQueued(a, s, c) = {}
    /\ UNION promised[a][s][c] \subseteq FruitsQueued(a, s, c)
QueueInv == \A a \in Aggs, s \in Sums, c \in Clients : QueueOK(a, s, c)

TopInv ==
    \A a \in Aggs, c \in Clients :
        /\ \A s \in Sums : Taken(a, s, c) \subseteq FruitsQueued(a, s, c)
        /\ c \notin completed[a] => fruitTop[a][c] = MergeOf(TakenTables(a, c))
        /\ c \in completed[a] => fruitTop[a][c] = NoFruits

\* The EOF in hand, and the EOFs that were noted.
EofInv ==
    \A a \in Aggs :
        /\ pc[a] = "idle" <=> eof[a] = {}
        /\ \A d, e \in eof[a] : d = e
        /\ \A c \in Clients : c \in finalizing[a] <=> \E s \in Sums : <<s, c>> \in eof[a]
        /\ \A s \in Sums, c \in Clients : <<s, c>> \in eof[a] =>
             /\ c \notin completed[a]
             /\ \A other \in Sums : other = s \/ other \in receivedEofs[a][c]
             /\ payload[a] = TopOf(fruitTop[a][c])
        /\ \A s \in Sums, c \in Clients :
             c \notin completed[a] /\ (s \in receivedEofs[a][c] \/ <<s, c>> \in eof[a]) =>
                promised[a][s][c] # {} /\ UNION promised[a][s][c] \subseteq Taken(a, s, c)

CountInv ==
    \A a \in Aggs, c \in Clients :
        /\ c \in completed[a] => sumsReceived[a][c] = 0
        /\ c \notin completed[a] /\ c \notin finalizing[a] /\ consumer[a] # "lost" =>
             sumsReceived[a][c] = Cardinality(receivedEofs[a][c])

\* The partial top of line 2 of TopIsExact.
IsPartialTop(top, a, c) ==
    /\ \A s \in Sums : promised[a][s][c] # {}
    /\ \E chosen \in [Sums -> SUBSET Fruits] :
         /\ \A s \in Sums : /\ UNION promised[a][s][c] \subseteq chosen[s]
                            /\ chosen[s] \subseteq FruitsQueued(a, s, c)
         /\ top = TopOf(Summed(c, chosen))

OutputOK(a, c) ==
    /\ joinQueue[a][c] # <<>> =>
         /\ Len(joinQueue[a][c]) = 1 /\ IsPartialTop(joinQueue[a][c][1], a, c)
         /\ \/ c \in completed[a]
            \/ c \in finalizing[a] /\ pc[a] \in {"sendCoordination", "complete"}
            \/ c \notin finalizing[a] /\ consumer[a] = "lost"
    /\ coordQueue[a][c] # 0 => \/ c \in completed[a]
                               \/ c \in finalizing[a] /\ pc[a] = "complete"
                               \/ c \notin finalizing[a] /\ consumer[a] = "lost"
    /\ c \in finalizing[a] /\ pc[a] = "sendCoordination" =>
         joinQueue[a][c] # <<>> \/ outLink[a] = "broken"
OutputInv == \A a \in Aggs, c \in Clients : OutputOK(a, c)

Invariant == /\ TypeInv /\ SumInv /\ QueueInv /\ TopInv /\ EofInv /\ CountInv /\ OutputInv

-----------------------------------------------------------------------------
(* Lemmas about the data.                                                  *)

\* A table is a member of Tables.
LEMMA TablesAreTables == \A t : t \in Tables <=> IsTable(t)
BY DEF Tables, IsTable

\* What changes one entry of a table of tables leaves the others.
LEMMA Updated2 ==
    ASSUME NEW S, NEW T, NEW V, NEW g \in [S -> [T -> V]], NEW s \in S, NEW t \in T, NEW v \in V,
           NEW h, h = [g EXCEPT ![s][t] = v]
    PROVE  /\ h \in [S -> [T -> V]] /\ h[s][t] = v
           /\ \A r \in S, u \in T : ~(r = s /\ u = t) => h[r][u] = g[r][u]
OBVIOUS

LEMMA Updated3 ==
    ASSUME NEW R, NEW S, NEW T, NEW V, NEW g \in [R -> [S -> [T -> V]]],
           NEW r \in R, NEW s \in S, NEW t \in T, NEW v \in V,
           NEW h, h = [g EXCEPT ![r][s][t] = v]
    PROVE  /\ h \in [R -> [S -> [T -> V]]] /\ h[r][s][t] = v
           /\ \A p \in R, q \in S, u \in T :
                ~(p = r /\ q = s /\ u = t) => h[p][q][u] = g[p][q][u]
OBVIOUS

\* The messages of the Sums.
LEMMA MessageTypes ==
    /\ EofMessage \in Messages /\ \A f \in Fruits : ~IsSum(EofMessage, f)
    /\ EofMessage.type = "EOF"
    /\ \A f \in Fruits, n \in Nat :
         /\ PartialSum(f, n) \in Messages /\ PartialSum(f, n) # EofMessage
         /\ PartialSum(f, n).amount = n
         /\ \A g \in Fruits : IsSum(PartialSum(f, n), g) <=> g = f
    /\ \A m \in Messages : m.type = "EOF" => m = EofMessage
    /\ \A m \in Messages : m.type = "PARTIAL_SUM" =>
         /\ m # EofMessage /\ m.fruit \in Fruits /\ m.amount \in Nat
         /\ \A f \in Fruits : IsSum(m, f) <=> f = m.fruit
BY DEF Messages, EofMessage, PartialSum, IsSum

\* A queue with one message more.
LEMMA Appended ==
    ASSUME NEW q \in Seq(Messages), NEW m \in Messages
    PROVE  /\ Append(q, m) \in Seq(Messages)
           /\ DOMAIN Append(q, m) = DOMAIN q \cup {Len(q) + 1}
           /\ Len(q) + 1 \in Nat /\ DOMAIN q \subseteq Nat /\ DOMAIN Append(q, m) \subseteq Nat
           /\ \A i \in DOMAIN q : Append(q, m)[i] = q[i] /\ i < Len(q) + 1
           /\ Append(q, m)[Len(q) + 1] = m
BY AppendProperties, LenProperties

\* A queue without its first message.
LEMMA Shortened ==
    ASSUME NEW q \in Seq(Messages), q # <<>>
    PROVE  /\ Tail(q) \in Seq(Messages) /\ Head(q) \in Messages
           /\ Head(q) = q[1] /\ 1 \in DOMAIN q /\ DOMAIN q \subseteq Nat \ {0}
           /\ \A i \in DOMAIN Tail(q) : i + 1 \in DOMAIN q /\ Tail(q)[i] = q[i + 1] /\ i \in Nat \ {0}
           /\ \A i \in DOMAIN q : i # 1 => i - 1 \in DOMAIN Tail(q) /\ Tail(q)[i - 1] = q[i]
BY HeadTailProperties, LenProperties

\* What a message more does to what is said of a queue.
LEMMA AppendedRight ==
    ASSUME NEW q \in Seq(Messages), NEW m \in Messages, NEW taken
    PROVE  /\ \A f : InQueue(Append(q, m), f) <=> InQueue(q, f) \/ IsSum(m, f)
           /\ \A t : /\ FirstIsRight(q, taken, t)
                     /\ \A f \in Fruits : IsSum(m, f) =>
                           f \in taken \/ InQueue(q, f) \/ m.amount = t[f]
                     => FirstIsRight(Append(q, m), taken, t)
           /\ \A S : /\ EofAfter(q, taken, S)
                     /\ m = EofMessage => Covers(q, taken, S)
                     => EofAfter(Append(q, m), taken, S)
<1> DEFINE n == Len(q) + 1
<1>1. /\ DOMAIN Append(q, m) = DOMAIN q \cup {n}
      /\ n \in Nat /\ DOMAIN q \subseteq Nat
      /\ \A i \in DOMAIN q : Append(q, m)[i] = q[i] /\ i < n
      /\ Append(q, m)[n] = m
  BY Appended
<1> HIDE DEF n
<1>2. ASSUME NEW f PROVE InQueue(Append(q, m), f) <=> InQueue(q, f) \/ IsSum(m, f)
  BY <1>1 DEF InQueue
<1>3. \A f : \A i \in DOMAIN q : SumBefore(Append(q, m), i, f) <=> SumBefore(q, i, f)
  BY <1>1 DEF SumBefore
<1>4. \A f : SumBefore(Append(q, m), n, f) <=> InQueue(q, f)
  BY <1>1 DEF SumBefore, InQueue
<1>5. ASSUME NEW t, FirstIsRight(q, taken, t),
             \A f \in Fruits : IsSum(m, f) => f \in taken \/ InQueue(q, f) \/ m.amount = t[f]
      PROVE  FirstIsRight(Append(q, m), taken, t)
  BY <1>1, <1>3, <1>4, <1>5 DEF FirstIsRight
<1>6. ASSUME NEW S, EofAfter(q, taken, S), m = EofMessage => Covers(q, taken, S)
      PROVE  EofAfter(Append(q, m), taken, S)
  BY <1>1, <1>3, <1>4, <1>6 DEF EofAfter, Covers
<1> QED
  BY <1>2, <1>5, <1>6

\* What taking the first message does to it, when its fruit is now one of the taken.
LEMMA ShortenedRight ==
    ASSUME NEW q \in Seq(Messages), q # <<>>, NEW taken, NEW more, taken \subseteq more,
           \A f \in Fruits : IsSum(Head(q), f) => f \in more
    PROVE  /\ \A t : FirstIsRight(q, taken, t) => FirstIsRight(Tail(q), more, t)
           /\ \A S : S \subseteq Fruits /\ EofAfter(q, taken, S) => EofAfter(Tail(q), more, S)
           /\ \A S : S \subseteq Fruits /\ Covers(q, taken, S) => Covers(Tail(q), more, S)
<1>1. /\ Head(q) = q[1] /\ 1 \in DOMAIN q /\ DOMAIN q \subseteq Nat \ {0}
      /\ \A i \in DOMAIN Tail(q) : i + 1 \in DOMAIN q /\ Tail(q)[i] = q[i + 1] /\ i \in Nat \ {0}
      /\ \A i \in DOMAIN q : i # 1 => i - 1 \in DOMAIN Tail(q) /\ Tail(q)[i - 1] = q[i]
  BY Shortened
<1>2. ASSUME NEW f \in Fruits, NEW i \in DOMAIN Tail(q), SumBefore(q, i + 1, f), f \notin more
      PROVE  SumBefore(Tail(q), i, f)
  <2>1. PICK j \in DOMAIN q : j < i + 1 /\ IsSum(q[j], f)
    BY <1>2 DEF SumBefore
  <2>2. j # 1
    BY <1>1, <1>2, <2>1
  <2>3. j - 1 \in DOMAIN Tail(q) /\ Tail(q)[j - 1] = q[j] /\ j - 1 < i
    BY <1>1, <2>1, <2>2
  <2> QED
    BY <2>1, <2>3 DEF SumBefore
<1>3. ASSUME NEW f \in Fruits, InQueue(q, f), f \notin more PROVE InQueue(Tail(q), f)
  <2>1. PICK j \in DOMAIN q : IsSum(q[j], f)
    BY <1>3 DEF InQueue
  <2>2. j # 1
    BY <1>1, <1>3, <2>1
  <2> QED
    BY <1>1, <2>1, <2>2 DEF InQueue
<1>4. ASSUME NEW t, FirstIsRight(q, taken, t) PROVE FirstIsRight(Tail(q), more, t)
  BY <1>1, <1>2, <1>4 DEF FirstIsRight
<1>5. ASSUME NEW S, S \subseteq Fruits, EofAfter(q, taken, S) PROVE EofAfter(Tail(q), more, S)
  <2> SUFFICES ASSUME NEW i \in DOMAIN Tail(q), Tail(q)[i] = EofMessage, NEW f \in S
               PROVE  f \in more \/ SumBefore(Tail(q), i, f)
    BY DEF EofAfter
  <2>1. f \in taken \/ SumBefore(q, i + 1, f)
    BY <1>1, <1>5 DEF EofAfter
  <2> QED
    BY <1>2, <1>5, <2>1
<1>6. ASSUME NEW S, S \subseteq Fruits, Covers(q, taken, S) PROVE Covers(Tail(q), more, S)
  BY <1>3, <1>6 DEF Covers
<1> QED
  BY <1>4, <1>5, <1>6

\* What the first message says: an EOF, that all that was promised was taken; a partial
\* sum that was not taken, its amount.
LEMMA FirstMessage ==
    ASSUME NEW q \in Seq(Messages), q # <<>>, NEW taken
    PROVE  /\ \A S : EofAfter(q, taken, S) /\ Head(q) = EofMessage => S \subseteq taken
           /\ \A t : \A f \in Fruits :
                FirstIsRight(q, taken, t) /\ IsSum(Head(q), f) /\ f \notin taken =>
                   Head(q).amount = t[f]
<1>1. Head(q) = q[1] /\ 1 \in DOMAIN q /\ DOMAIN q \subseteq Nat \ {0}
  BY Shortened
<1>2. \A f : ~SumBefore(q, 1, f)
  BY <1>1 DEF SumBefore
<1> QED
  BY <1>1, <1>2 DEF EofAfter, FirstIsRight

LEMMA FirstAmount ==
    ASSUME NEW q \in Seq(Messages), q # <<>>, NEW taken, NEW t, FirstIsRight(q, taken, t),
           NEW f \in Fruits, IsSum(Head(q), f), f \notin taken
    PROVE  Head(q).amount = t[f]
BY FirstMessage

\* What a publish can do.
LEMMA SendOutcomesType ==
    ASSUME NEW link \in LinkStates, NEW out \in SendOutcomes(link)
    PROVE  /\ out.delivered \in BOOLEAN /\ out.raised \in BOOLEAN
           /\ out.link \in LinkStates
           /\ ~out.raised => out.delivered \/ out.link = "broken"
BY DEF SendOutcomes, LinkStates

-----------------------------------------------------------------------------
(* What a step leaves alone.                                               *)

\* What was first queued stays, and a promise is made once.
Grows ==
    \A s \in Sums, c \in Clients :
        /\ DOMAIN first[s][c] \subseteq DOMAIN first'[s][c]
        /\ \A f \in DOMAIN first[s][c] : first'[s][c][f] = first[s][c][f]
        /\ \A a \in Aggs : promised[a][s][c] # {} => promised'[a][s][c] = promised[a][s][c]

\* What Summed merges.
ChosenTables(c, chosen) == [s \in Sums |-> Restricted(first[s][c], chosen[s])]

\* A top that is right stays right.
LEMMA PartialTopStays ==
    ASSUME Grows, NEW a \in Aggs, NEW c \in Clients, NEW top, IsPartialTop(top, a, c)
    PROVE  IsPartialTop(top, a, c)'
<1>1. PICK chosen \in [Sums -> SUBSET Fruits] :
        /\ \A s \in Sums : /\ UNION promised[a][s][c] \subseteq chosen[s]
                           /\ chosen[s] \subseteq FruitsQueued(a, s, c)
        /\ top = TopOf(Summed(c, chosen))
  BY DEF IsPartialTop
<1>2. \A s \in Sums : promised[a][s][c] # {} /\ promised'[a][s][c] = promised[a][s][c]
  BY DEF Grows, IsPartialTop
<1>3. ASSUME NEW s \in Sums
      PROVE  /\ chosen[s] \subseteq FruitsQueued(a, s, c)'
             /\ Restricted(first'[s][c], chosen[s]) = Restricted(first[s][c], chosen[s])
  <2>1. \A f \in chosen[s] : /\ f \in DOMAIN first[s][c] /\ TargetAggregation[f] = a
                             /\ f \in DOMAIN first'[s][c] /\ first'[s][c][f] = first[s][c][f]
    BY <1>1 DEF FruitsQueued, Grows
  <2> QED
    BY <2>1 DEF FruitsQueued, Restricted
<1>4. ChosenTables(c, chosen)' = ChosenTables(c, chosen)
  BY <1>3 DEF ChosenTables
<1>5. Summed(c, chosen)' = Summed(c, chosen)
  <2>1. Summed(c, chosen) = MergeOf(ChosenTables(c, chosen))
    BY Zenon DEF Summed, ChosenTables
  <2>2. Summed(c, chosen)' = MergeOf(ChosenTables(c, chosen)')
    BY Zenon DEF Summed, ChosenTables
  <2> QED
    BY <1>4, <2>1, <2>2
<1>6. \A s \in Sums : UNION promised'[a][s][c] \subseteq chosen[s]
  BY <1>1, <1>2
<1> QED
  BY <1>1, <1>2, <1>3, <1>5, <1>6 DEF IsPartialTop

\* A queue keeps its part of the invariant when all that it speaks of is as before.
LEMMA QueueKept ==
    ASSUME NEW a \in Aggs, NEW s \in Sums, NEW c \in Clients, QueueOK(a, s, c),
           inbox'[a][s][c] = inbox[a][s][c], promised'[a][s][c] = promised[a][s][c],
           first'[s][c] = first[s][c], consumer'[a] = consumer[a],
           Taken(a, s, c)' = Taken(a, s, c), c \in completed'[a] <=> c \in completed[a]
    PROVE  QueueOK(a, s, c)'
<1>1. FruitsQueued(a, s, c)' = FruitsQueued(a, s, c)
  BY DEF FruitsQueued
<1> QED
  BY <1>1 DEF QueueOK

LEMMA QueueFrame ==
    ASSUME NEW a \in Aggs, NEW s \in Sums, NEW c \in Clients, QueueOK(a, s, c),
           inbox'[a][s][c] = inbox[a][s][c], promised'[a][s][c] = promised[a][s][c],
           first'[s][c] = first[s][c], consumer'[a] = consumer[a],
           receivedPartialSums'[a][c] = receivedPartialSums[a][c],
           c \in completed'[a] <=> c \in completed[a]
    PROVE  QueueOK(a, s, c)'
<1>1. Taken(a, s, c)' = Taken(a, s, c)
  BY DEF Taken
<1> QED
  BY <1>1, QueueKept

\* A step that keeps what the parts of the invariant speak of keeps these parts.
LEMMA Frames ==
    /\ UNCHANGED <<first, promised>> => Grows
    /\ QueueInv /\ UNCHANGED <<inbox, first, promised, consumer, receivedPartialSums, completed>>
         => QueueInv'
    /\ TopInv /\ UNCHANGED <<first, receivedPartialSums, completed, fruitTop>> => TopInv'
    /\ EofInv /\ UNCHANGED <<pc, eof, finalizing, completed, receivedEofs, payload, fruitTop,
                             promised, receivedPartialSums>> => EofInv'
    /\ CountInv /\ UNCHANGED <<completed, sumsReceived, finalizing, consumer, receivedEofs>>
         => CountInv'
<1>1. ASSUME UNCHANGED <<first, promised>> PROVE Grows
  <2>1. first' = first /\ promised' = promised
    BY <1>1
  <2> QED
    BY <2>1, Zenon DEF Grows
<1>2. ASSUME QueueInv,
             UNCHANGED <<inbox, first, promised, consumer, receivedPartialSums, completed>>
      PROVE  QueueInv'
  <2>1. /\ inbox' = inbox /\ first' = first /\ promised' = promised /\ consumer' = consumer
        /\ receivedPartialSums' = receivedPartialSums /\ completed' = completed
    BY <1>2
  <2>2. ASSUME NEW a \in Aggs, NEW s \in Sums, NEW c \in Clients PROVE QueueOK(a, s, c)'
    BY <1>2, <2>1, QueueFrame DEF QueueInv
  <2> QED
    BY <2>2 DEF QueueInv
<1>3. ASSUME TopInv, UNCHANGED <<first, receivedPartialSums, completed, fruitTop>> PROVE TopInv'
  <2>1. /\ first' = first /\ receivedPartialSums' = receivedPartialSums
        /\ completed' = completed /\ fruitTop' = fruitTop
    BY <1>3
  <2>2. \A a, s, c : /\ Taken(a, s, c)' = Taken(a, s, c)
                     /\ FruitsQueued(a, s, c)' = FruitsQueued(a, s, c)
    BY <2>1, Zenon DEF Taken, FruitsQueued
  <2>3. \A a, c : TakenTables(a, c)' = TakenTables(a, c)
    BY <2>1, <2>2, Zenon DEF TakenTables
  <2> QED
    BY <1>3, <2>1, <2>2, <2>3 DEF TopInv
<1>4. EofInv /\ UNCHANGED <<pc, eof, finalizing, completed, receivedEofs, payload, fruitTop,
                            promised, receivedPartialSums>> => EofInv'
  BY DEF EofInv, Taken
<1>5. CountInv /\ UNCHANGED <<completed, sumsReceived, finalizing, consumer, receivedEofs>>
        => CountInv'
  BY DEF CountInv
<1> QED
  BY <1>1, <1>2, <1>3, <1>4, <1>5

\* The same for what is sent to the join.
LEMMA OutputKept ==
    ASSUME Grows, NEW a \in Aggs, NEW c \in Clients, OutputOK(a, c),
           joinQueue'[a][c] = joinQueue[a][c], coordQueue'[a][c] = coordQueue[a][c],
           c \in completed'[a] <=> c \in completed[a],
           c \in finalizing'[a] <=> c \in finalizing[a],
           c \in finalizing[a] => pc'[a] = pc[a] /\ outLink'[a] = outLink[a],
           consumer[a] = "lost" => consumer'[a] = "lost"
    PROVE  OutputOK(a, c)'
<1>1. \A top : IsPartialTop(top, a, c) => IsPartialTop(top, a, c)'
  BY PartialTopStays
<1> QED
  BY <1>1 DEF OutputOK

LEMMA OutputFrame ==
    ASSUME OutputInv, Grows,
           UNCHANGED <<joinQueue, completed, finalizing, pc, consumer, coordQueue, outLink>>
    PROVE  OutputInv'
BY OutputKept DEF OutputInv

-----------------------------------------------------------------------------
(* The Sums' steps.                                                        *)

\* A Sum sends a fruit: the first copy of it fixes its amount.
LEMMA SumSendsFruitStep ==
    ASSUME Invariant, NEW s \in Sums, NEW c \in Clients, NEW f \in Fruits, SumSendsFruit(s, c, f)
    PROVE  Invariant'
<1> USE DEF Invariant, SumSendsFruit
<1> DEFINE a == TargetAggregation[f]
           n == offered[s][c][f]
           m == PartialSum(f, n)
           q == inbox[a][s][c]
           t == first[s][c]
           IsNew == f \notin DOMAIN t
<1>1. a \in Aggs /\ n \in Nat /\ m \in Messages /\ q \in Seq(Messages) /\ IsTable(t)
  <2>1. a \in Aggs
    BY AggregationAssumption
  <2>2. IsTable(offered[s][c]) /\ IsTable(t)
    BY TablesAreTables DEF TypeInv
  <2>3. f \in DOMAIN offered[s][c]
    BY DEF SumInv
  <2>4. n \in Nat
    BY <2>2, <2>3 DEF IsTable
  <2> QED
    BY <2>1, <2>2, <2>4, MessageTypes DEF TypeInv
<1>2. SumInv' /\ left' \in [Sums -> [Clients -> SUBSET Fruits]]
  BY DEF SumInv, TypeInv
<1>3. EofInv' /\ CountInv'
  BY Frames
<1>4. CASE ~HasQueue(a)
  <2>1. inbox' = inbox /\ first' = first
    BY <1>4 DEF Queued
  <2>2. TypeInv'
    BY <1>2, <2>1 DEF TypeInv
  <2>3. Grows /\ QueueInv' /\ TopInv'
    BY <2>1, Frames
  <2> QED
    BY <1>2, <1>3, <2>2, <2>3, OutputFrame
<1>5. CASE HasQueue(a)
  <2>1. /\ inbox' = [inbox EXCEPT ![a][s][c] = Append(q, m)]
        /\ IsNew => first' = [first EXCEPT ![s][c] = Plus(t, f, n)]
        /\ ~IsNew => first' = first
    <3>1. inbox' = [inbox EXCEPT ![a][s][c] = Append(q, m)]
      BY <1>5 DEF Queued
    <3>2. first' = IF ~HasQueue(a) \/ ~IsNew THEN first
                   ELSE [first EXCEPT ![s][c] = Plus(@, f, n)]
      BY Zenon
    <3> QED
      BY <1>5, <3>1, <3>2
  <2>2. /\ IsTable(Plus(t, f, n)) /\ DOMAIN Plus(t, f, n) = DOMAIN t \cup {f}
        /\ \A g \in DOMAIN t : g # f => Plus(t, f, n)[g] = t[g]
        /\ f \notin DOMAIN t => Plus(t, f, n)[f] = n
    <3> HIDE DEF Invariant, SumSendsFruit, n, t
    <3>1. \A u : \A k \in Nat : IsTable(u) =>
            /\ IsTable(Plus(u, f, k)) /\ DOMAIN Plus(u, f, k) = DOMAIN u \cup {f}
            /\ \A g \in DOMAIN u : g # f => Plus(u, f, k)[g] = u[g]
            /\ f \notin DOMAIN u => Plus(u, f, k)[f] = k
      BY PlusIsTable
    <3>2. IsTable(t) /\ n \in Nat
      BY <1>1
    <3> QED
      BY <3>1, <3>2
  <2> HIDE DEF m, n, q
  <2>3. /\ inbox' \in [Aggs -> [Sums -> [Clients -> Seq(Messages)]]]
        /\ inbox'[a][s][c] = Append(q, m)
        /\ \A b \in Aggs, r \in Sums, d \in Clients :
             ~(b = a /\ r = s /\ d = c) => inbox'[b][r][d] = inbox[b][r][d]
    <3>1. Append(q, m) \in Seq(Messages)
      BY <1>1, Appended
    <3> HIDE DEF a
    <3> QED
      BY <1>1, <2>1, <3>1 DEF TypeInv
  <2>4. /\ first' \in [Sums -> [Clients -> Tables]]
        /\ first'[s][c] = IF IsNew THEN Plus(t, f, n) ELSE t
        /\ \A r \in Sums, d \in Clients : ~(r = s /\ d = c) => first'[r][d] = first[r][d]
    <3>1. Plus(t, f, n) \in Tables /\ first \in [Sums -> [Clients -> Tables]]
      BY <2>2, TablesAreTables DEF TypeInv
    <3>2. CASE IsNew
      <4> DEFINE p == Plus(t, f, n)
      <4>1. first' = [first EXCEPT ![s][c] = p] /\ p \in Tables
        BY <2>1, <3>1, <3>2
      <4> HIDE DEF p
      <4>2. /\ first' \in [Sums -> [Clients -> Tables]] /\ first'[s][c] = p
            /\ \A r \in Sums, d \in Clients : ~(r = s /\ d = c) => first'[r][d] = first[r][d]
        BY <3>1, <4>1
      <4> QED
        BY <3>2, <4>2 DEF p
    <3>3. CASE ~IsNew
      BY <2>1, <3>1, <3>3
    <3> QED
      BY <3>2, <3>3
  <2>5. TypeInv'
    BY <1>2, <2>3, <2>4 DEF TypeInv
  <2>6. Grows
    BY <2>2, <2>4 DEF Grows
  <2>7. /\ \A b \in Aggs, r \in Sums, d \in Clients :
             ~(b = a /\ r = s /\ d = c) => FruitsQueued(b, r, d)' = FruitsQueued(b, r, d)
        /\ FruitsQueued(a, s, c)' = FruitsQueued(a, s, c) \cup {f}
        /\ f \in FruitsQueued(a, s, c) <=> ~IsNew
    BY <2>2, <2>4 DEF FruitsQueued
  <2>8. \A b \in Aggs, r \in Sums, d \in Clients : Taken(b, r, d)' = Taken(b, r, d)
    BY DEF Taken
  <2>9. ASSUME NEW b \in Aggs, NEW r \in Sums, NEW d \in Clients,
               ~(b = a /\ r = s /\ d = c)
        PROVE  QueueOK(b, r, d)'
    <3>1. QueueOK(b, r, d) /\ inbox'[b][r][d] = inbox[b][r][d]
      BY <2>3, <2>9 DEF QueueInv
    <3>2. CASE ~(r = s /\ d = c)
      BY <2>4, <3>1, <3>2, QueueFrame
    <3>3. CASE r = s /\ d = c
      \* The same client's fruits of another aggregation.
      <4>1. /\ FruitsQueued(b, r, d)' = FruitsQueued(b, r, d) /\ Taken(b, r, d)' = Taken(b, r, d)
            /\ f \notin FruitsQueued(b, r, d)
        BY <2>7, <2>8, <2>9, <3>3 DEF FruitsQueued
      <4>2. FirstIsRight(inbox[b][r][d], Taken(b, r, d), first[r][d]) =>
              FirstIsRight(inbox[b][r][d], Taken(b, r, d), first'[r][d])
        <5>1. \A i \in DOMAIN inbox[b][r][d] : ~IsSum(inbox[b][r][d][i], f)
          BY <3>1, <4>1 DEF QueueOK
        <5>2. \A i \in DOMAIN inbox[b][r][d] : \A g \in Fruits :
                IsSum(inbox[b][r][d][i], g) => g \in DOMAIN t /\ g # f
          BY <3>1, <3>3, <5>1 DEF QueueOK, FruitsQueued
        <5>3. \A g \in DOMAIN t : g # f => first'[r][d][g] = first[r][d][g]
          BY <2>2, <2>4, <3>3
        <5> QED
          BY <3>3, <5>2, <5>3 DEF FirstIsRight
      <4> QED
        BY <3>1, <4>1, <4>2 DEF QueueOK
    <3> QED
      BY <3>2, <3>3
  <2>10. QueueOK(a, s, c)'
    <3>1. QueueOK(a, s, c) /\ consumer[a] = "up"
      BY <1>1, <1>5 DEF QueueInv, HasQueue
    <3>2. \A g \in Fruits : IsSum(m, g) <=> g = f
      BY <1>1, MessageTypes DEF m
    <3>3. m # EofMessage /\ m.amount = n
      BY <1>1, MessageTypes DEF m
    <3>4. \A i \in DOMAIN inbox'[a][s][c] :
            /\ \A g \in Fruits :
                 IsSum(inbox'[a][s][c][i], g) => g \in FruitsQueued(a, s, c)'
            /\ inbox'[a][s][c][i] = EofMessage => promised'[a][s][c] # {}
      <4>1. /\ DOMAIN Append(q, m) = DOMAIN q \cup {Len(q) + 1}
            /\ \A i \in DOMAIN q : Append(q, m)[i] = q[i]
            /\ Append(q, m)[Len(q) + 1] = m
        BY <1>1, Appended
      <4>2. ASSUME NEW i \in DOMAIN q
            PROVE  /\ \A g \in Fruits : IsSum(q[i], g) => g \in FruitsQueued(a, s, c)
                   /\ q[i] = EofMessage => promised[a][s][c] # {}
        BY <3>1 DEF QueueOK, q
      <4>3. \A i \in DOMAIN inbox'[a][s][c] : i \in DOMAIN q \/ i = Len(q) + 1
        BY <2>3, <4>1
      <4>4. ASSUME NEW i \in DOMAIN inbox'[a][s][c], i \in DOMAIN q
            PROVE  /\ \A g \in Fruits :
                        IsSum(inbox'[a][s][c][i], g) => g \in FruitsQueued(a, s, c)'
                   /\ inbox'[a][s][c][i] = EofMessage => promised'[a][s][c] # {}
        <5>1. inbox'[a][s][c][i] = q[i] /\ promised' = promised
          BY <2>3, <4>1, <4>4
        <5> HIDE DEF a, IsNew, t, SumSendsFruit, Invariant
        <5> QED
          BY <2>7, <4>2, <4>4, <5>1
      <4>5. inbox'[a][s][c][Len(q) + 1] = m
        BY <2>3, <4>1
      <4> HIDE DEF a, IsNew, t, SumSendsFruit, Invariant
      <4> QED
        BY <2>7, <3>2, <3>3, <4>3, <4>4, <4>5
    <3>5. ASSUME c \notin completed[a]
          PROVE  /\ FirstIsRight(inbox'[a][s][c], Taken(a, s, c), first'[s][c])
                 /\ EofAfter(inbox'[a][s][c], Taken(a, s, c), UNION promised[a][s][c])
                 /\ Covers(inbox'[a][s][c], Taken(a, s, c), FruitsQueued(a, s, c) \cup {f})
      <4>1. /\ FirstIsRight(q, Taken(a, s, c), t)
            /\ EofAfter(q, Taken(a, s, c), UNION promised[a][s][c])
            /\ Covers(q, Taken(a, s, c), FruitsQueued(a, s, c))
        BY <3>1, <3>5 DEF QueueOK, q
      <4>2. \A i \in DOMAIN q : \A g \in Fruits : IsSum(q[i], g) => g \in DOMAIN t
        BY <3>1 DEF QueueOK, FruitsQueued, q
      <4>3. FirstIsRight(q, Taken(a, s, c), first'[s][c])
        <5>1. \A g \in DOMAIN t : first'[s][c][g] = t[g]
          BY <2>2, <2>4
        <5> QED
          BY <4>1, <4>2, <5>1 DEF FirstIsRight
      <4>4. f \in Taken(a, s, c) \/ InQueue(q, f) \/ m.amount = first'[s][c][f]
        <5>1. CASE IsNew
          BY <2>2, <2>4, <3>3, <5>1
        <5>2. CASE ~IsNew
          BY <2>7, <4>1, <5>2 DEF Covers
        <5> QED
          BY <5>1, <5>2
      <4>5. \A g : InQueue(Append(q, m), g) <=> InQueue(q, g) \/ IsSum(m, g)
        BY <1>1, AppendedRight
      <4>6. FirstIsRight(Append(q, m), Taken(a, s, c), first'[s][c])
        BY <1>1, <3>2, <4>3, <4>4, AppendedRight
      <4>7. EofAfter(Append(q, m), Taken(a, s, c), UNION promised[a][s][c])
        BY <1>1, <3>3, <4>1, AppendedRight
      <4>8. Covers(Append(q, m), Taken(a, s, c), FruitsQueued(a, s, c) \cup {f})
        BY <3>2, <4>1, <4>5 DEF Covers
      <4> QED
        BY <2>3, <4>6, <4>7, <4>8
    <3>6. promised' = promised /\ consumer' = consumer /\ completed' = completed
      OBVIOUS
    <3>7. UNION promised'[a][s][c] \subseteq FruitsQueued(a, s, c)'
      BY <2>7, <3>1, <3>6 DEF QueueOK
    <3> HIDE DEF Invariant, SumSendsFruit
    <3> QED
      BY <1>1, <2>7, <2>8, <3>1, <3>4, <3>5, <3>6, <3>7 DEF QueueOK
  <2>11. QueueInv'
    BY <2>9, <2>10 DEF QueueInv
  <2>12. TopInv'
    <3>1. ASSUME NEW b \in Aggs, NEW d \in Clients
          PROVE  /\ \A r \in Sums : Taken(b, r, d)' \subseteq FruitsQueued(b, r, d)'
                 /\ TakenTables(b, d)' = TakenTables(b, d)
      <4>1. \A r \in Sums : Taken(b, r, d) \subseteq FruitsQueued(b, r, d)
        BY DEF TopInv
      <4>2. \A r \in Sums : \A g \in Taken(b, r, d) :
              g \in DOMAIN first[r][d] /\ first'[r][d][g] = first[r][d][g]
        BY <2>6, <4>1 DEF FruitsQueued, Grows
      <4>3. \A r \in Sums : Restricted(first'[r][d], Taken(b, r, d)) =
                              Restricted(first[r][d], Taken(b, r, d))
        BY <4>2 DEF Restricted
      <4>4. TakenTables(b, d)' = TakenTables(b, d)
        BY <2>8, <4>3 DEF TakenTables
      <4> QED
        BY <2>7, <2>8, <4>1, <4>4
    <3> QED
      BY <3>1 DEF TopInv
  <2> QED
    BY <1>2, <1>3, <2>5, <2>6, <2>11, <2>12, OutputFrame
<1> QED
  BY <1>4, <1>5

\* A Sum sends an EOF: all it queued for the aggregation is before it.
LEMMA SumSendsEofStep ==
    ASSUME Invariant, NEW s \in Sums, NEW c \in Clients, SumSendsEof(s, c),
           NEW a \in Aggs, a = nextAgg[s][c]
    PROVE  Invariant'
<1> USE DEF Invariant, SumSendsEof
<1> DEFINE q == inbox[a][s][c]
           P == FruitsQueued(a, s, c)
<1>1. a \in Aggs /\ q \in Seq(Messages) /\ a + 1 \in 0 .. AGGREGATION_AMOUNT
  BY AggregationAssumption DEF TypeInv, Aggs
<1>2. SumInv' /\ TopInv' /\ CountInv'
  BY Frames DEF SumInv
<1>3. nextAgg' \in [Sums -> [Clients -> 0 .. AGGREGATION_AMOUNT]]
  BY <1>1 DEF TypeInv
<1>4. CASE ~HasQueue(a)
  <2>1. inbox' = inbox /\ promised' = promised
    BY <1>4 DEF Queued
  <2>2. TypeInv'
    BY <1>3, <2>1 DEF TypeInv
  <2>3. Grows /\ QueueInv' /\ EofInv'
    BY <2>1, Frames
  <2> QED
    BY <1>2, <2>2, <2>3, OutputFrame
<1>5. CASE HasQueue(a)
  <2>1. inbox' = [inbox EXCEPT ![a][s][c] = Append(q, EofMessage)]
    BY <1>5 DEF Queued
  <2>2. /\ inbox' \in [Aggs -> [Sums -> [Clients -> Seq(Messages)]]]
        /\ inbox'[a][s][c] = Append(q, EofMessage)
        /\ \A b \in Aggs, r \in Sums, d \in Clients :
             ~(b = a /\ r = s /\ d = c) => inbox'[b][r][d] = inbox[b][r][d]
    <3>1. Append(q, EofMessage) \in Seq(Messages)
      BY <1>1, MessageTypes, Appended
    <3>2. inbox \in [Aggs -> [Sums -> [Clients -> Seq(Messages)]]]
      BY DEF TypeInv
    <3> DEFINE e == Append(q, EofMessage)
    <3>3. e \in Seq(Messages) /\ inbox' = [inbox EXCEPT ![a][s][c] = e]
      BY <2>1, <3>1
    <3> HIDE DEF e, SumSendsEof, Invariant
    <3>4. /\ inbox' \in [Aggs -> [Sums -> [Clients -> Seq(Messages)]]]
          /\ inbox'[a][s][c] = e
          /\ \A b \in Aggs, r \in Sums, d \in Clients :
               ~(b = a /\ r = s /\ d = c) => inbox'[b][r][d] = inbox[b][r][d]
      BY <3>2, <3>3, Updated3
    <3> QED
      BY <3>4 DEF e
  <2>3. /\ promised' \in [Aggs -> [Sums -> [Clients -> SUBSET SUBSET Fruits]]]
        /\ promised[a][s][c] = {} => promised'[a][s][c] = {P}
        /\ promised[a][s][c] # {} => promised'[a][s][c] = promised[a][s][c]
        /\ \A b \in Aggs, r \in Sums, d \in Clients :
             ~(b = a /\ r = s /\ d = c) => promised'[b][r][d] = promised[b][r][d]
    <3>1. {P} \in SUBSET SUBSET Fruits
      <4>1. IsTable(first[s][c])
        BY TablesAreTables DEF TypeInv
      <4> QED
        BY <4>1 DEF FruitsQueued, IsTable
    <3>2. CASE promised[a][s][c] = {}
      <4>1. promised' = [promised EXCEPT ![a][s][c] = {P}]
        BY <1>5, <3>2
      <4>2. promised \in [Aggs -> [Sums -> [Clients -> SUBSET SUBSET Fruits]]]
        BY DEF TypeInv
      <4> HIDE DEF P, SumSendsEof, Invariant
      <4>3. /\ promised' \in [Aggs -> [Sums -> [Clients -> SUBSET SUBSET Fruits]]]
            /\ promised'[a][s][c] = {P}
            /\ \A b \in Aggs, r \in Sums, d \in Clients :
                 ~(b = a /\ r = s /\ d = c) => promised'[b][r][d] = promised[b][r][d]
        BY <1>1, <3>1, <4>1, <4>2, Updated3
      <4> QED
        BY <3>2, <4>3
    <3>3. CASE promised[a][s][c] # {}
      <4>1. promised' = promised
        BY <1>5, <3>3
      <4> QED
        BY <3>3, <4>1 DEF TypeInv
    <3> QED
      BY <3>2, <3>3
  <2>4. TypeInv'
    BY <1>3, <2>2, <2>3 DEF TypeInv
  <2>5. Grows
    BY <2>3 DEF Grows
  <2>6. /\ \A b, r, d : Taken(b, r, d)' = Taken(b, r, d)
        /\ \A b, r, d : FruitsQueued(b, r, d)' = FruitsQueued(b, r, d)
    BY DEF Taken, FruitsQueued
  <2>7. promised'[a][s][c] # {} /\ UNION promised'[a][s][c] \subseteq P
    <3>1. QueueOK(a, s, c)
      BY <1>1 DEF QueueInv
    <3> QED
      BY <2>3, <3>1 DEF QueueOK
  <2>8. QueueOK(a, s, c)'
    <3>1. QueueOK(a, s, c) /\ consumer[a] = "up"
      BY <1>1, <1>5 DEF QueueInv, HasQueue
    <3>2. EofMessage \in Messages /\ \A f \in Fruits : ~IsSum(EofMessage, f)
      BY MessageTypes
    <3>3. \A i \in DOMAIN inbox'[a][s][c] :
            /\ \A f \in Fruits :
                 IsSum(inbox'[a][s][c][i], f) => f \in FruitsQueued(a, s, c)'
            /\ inbox'[a][s][c][i] = EofMessage => promised'[a][s][c] # {}
      <4>1. /\ DOMAIN Append(q, EofMessage) = DOMAIN q \cup {Len(q) + 1}
            /\ \A i \in DOMAIN q : Append(q, EofMessage)[i] = q[i]
            /\ Append(q, EofMessage)[Len(q) + 1] = EofMessage
        <5> HIDE DEF q, SumSendsEof, Invariant
        <5> QED
          BY <1>1, <3>2, Appended
      <4>2. ASSUME NEW i \in DOMAIN q
            PROVE  \A f \in Fruits : IsSum(q[i], f) => f \in FruitsQueued(a, s, c)
        BY <3>1 DEF QueueOK
      <4>3. \A i \in DOMAIN inbox'[a][s][c] : i \in DOMAIN q \/ i = Len(q) + 1
        BY <2>2, <4>1
      <4>4. \A i \in DOMAIN q : inbox'[a][s][c][i] = q[i]
        BY <2>2, <4>1
      <4>5. inbox'[a][s][c][Len(q) + 1] = EofMessage
        BY <2>2, <4>1
      <4> HIDE DEF SumSendsEof, Invariant, q
      <4> QED
        BY <2>6, <2>7, <3>2, <4>2, <4>3, <4>4, <4>5
    <3>4. ASSUME c \notin completed[a]
          PROVE  /\ FirstIsRight(inbox'[a][s][c], Taken(a, s, c), first[s][c])
                 /\ EofAfter(inbox'[a][s][c], Taken(a, s, c), UNION promised'[a][s][c])
                 /\ Covers(inbox'[a][s][c], Taken(a, s, c), P)
      <4>1. /\ FirstIsRight(q, Taken(a, s, c), first[s][c])
            /\ EofAfter(q, Taken(a, s, c), UNION promised[a][s][c])
            /\ Covers(q, Taken(a, s, c), P)
        BY <3>1, <3>4 DEF QueueOK
      <4>2. EofAfter(q, Taken(a, s, c), UNION promised'[a][s][c])
        <5>1. promised[a][s][c] = {} => \A i \in DOMAIN q : q[i] # EofMessage
          BY <3>1 DEF QueueOK
        <5> QED
          BY <2>3, <4>1, <5>1 DEF EofAfter
      <4>3. Covers(q, Taken(a, s, c), UNION promised'[a][s][c])
        BY <2>7, <4>1 DEF Covers
      <4>4. \A f : InQueue(Append(q, EofMessage), f) <=> InQueue(q, f) \/ IsSum(EofMessage, f)
        BY <1>1, <3>2, AppendedRight
      <4>5. FirstIsRight(Append(q, EofMessage), Taken(a, s, c), first[s][c])
        BY <1>1, <3>2, <4>1, AppendedRight
      <4>6. EofAfter(Append(q, EofMessage), Taken(a, s, c), UNION promised'[a][s][c])
        BY <1>1, <3>2, <4>2, <4>3, AppendedRight
      <4>7. Covers(Append(q, EofMessage), Taken(a, s, c), P)
        BY <4>1, <4>4 DEF Covers
      <4> QED
        BY <2>2, <4>5, <4>6, <4>7
    <3>5. first' = first /\ consumer' = consumer /\ completed' = completed
      OBVIOUS
    <3>6. /\ Taken(a, s, c)' = Taken(a, s, c) /\ FruitsQueued(a, s, c)' = FruitsQueued(a, s, c)
          /\ P = FruitsQueued(a, s, c)
      BY <2>6
    <3> HIDE DEF Invariant, SumSendsEof, q, P
    <3> QED
      BY <2>7, <3>1, <3>3, <3>4, <3>5, <3>6 DEF QueueOK
  <2>9. QueueInv'
    <3>1. ASSUME NEW b \in Aggs, NEW r \in Sums, NEW d \in Clients,
                 ~(b = a /\ r = s /\ d = c)
          PROVE  QueueOK(b, r, d)'
      <4>1. inbox'[b][r][d] = inbox[b][r][d] /\ promised'[b][r][d] = promised[b][r][d]
        <5> HIDE DEF q, P, SumSendsEof, Invariant
        <5> QED
          BY <2>2, <2>3, <3>1
      <4>2. QueueOK(b, r, d)
        BY DEF QueueInv
      <4>3. /\ first' = first /\ consumer' = consumer /\ completed' = completed
            /\ receivedPartialSums' = receivedPartialSums
        OBVIOUS
      <4> HIDE DEF Invariant, SumSendsEof
      <4> QED
        BY <4>1, <4>2, <4>3, QueueFrame
    <3> HIDE DEF Invariant, SumSendsEof
    <3>2. ASSUME NEW b \in Aggs, NEW r \in Sums, NEW d \in Clients PROVE QueueOK(b, r, d)'
      <4>1. CASE b = a /\ r = s /\ d = c
        BY <2>8, <4>1
      <4> QED
        BY <3>1, <4>1
    <3> QED
      BY <3>2 DEF QueueInv
  <2>10. EofInv'
    <3>1. ASSUME NEW b \in Aggs, NEW r \in Sums, NEW d \in Clients, d \notin completed[b],
                 r \in receivedEofs[b][d] \/ <<r, d>> \in eof[b]
          PROVE  promised'[b][r][d] # {} /\ UNION promised'[b][r][d] \subseteq Taken(b, r, d)
      <4>1. promised[b][r][d] # {} /\ UNION promised[b][r][d] \subseteq Taken(b, r, d)
        BY <3>1 DEF EofInv
      <4> QED
        BY <2>3, <4>1
    <3>2. /\ pc' = pc /\ eof' = eof /\ finalizing' = finalizing /\ completed' = completed
          /\ receivedEofs' = receivedEofs /\ payload' = payload /\ fruitTop' = fruitTop
      OBVIOUS
    <3>3. EofInv
      OBVIOUS
    <3> HIDE DEF Invariant, SumSendsEof
    <3> QED
      BY <2>6, <3>1, <3>2, <3>3 DEF EofInv
  <2> QED
    BY <1>2, <2>4, <2>5, <2>9, <2>10, OutputFrame
<1> QED
  BY <1>4, <1>5

\* A Sum starts again.
LEMMA SumStartsAgainStep ==
    ASSUME Invariant, NEW s \in Sums, NEW c \in Clients, SumStartsAgain(s, c)
    PROVE  Invariant'
<1> USE DEF Invariant, SumStartsAgain
<1>1. /\ offered' \in [Sums -> [Clients -> Tables]]
      /\ \A r \in Sums, d \in Clients : ~(r = s /\ d = c) => offered'[r][d] = offered[r][d]
  <2>1. CASE UNCHANGED offered
    BY <2>1 DEF TypeInv
  <2>2. ASSUME NEW f \in Fruits, offered' = [offered EXCEPT ![s][c] = Plus(@, f, 1)]
        PROVE  /\ offered' \in [Sums -> [Clients -> Tables]]
               /\ \A r \in Sums, d \in Clients :
                    ~(r = s /\ d = c) => offered'[r][d] = offered[r][d]
    <3> DEFINE t == Plus(offered[s][c], f, 1)
    <3>1. offered \in [Sums -> [Clients -> Tables]] /\ IsTable(offered[s][c])
      BY TablesAreTables DEF TypeInv
    <3>2. offered' = [offered EXCEPT ![s][c] = t]
      BY <2>2
    <3> HIDE DEF Invariant, SumStartsAgain
    <3>3. \A u : IsTable(u) => IsTable(Plus(u, f, 1))
      BY PlusIsTable
    <3>4. t \in Tables
      BY <3>1, <3>3, TablesAreTables
    <3> HIDE DEF t
    <3> QED
      BY <3>1, <3>2, <3>4, Updated2
  <2> QED
    BY <2>1, <2>2
<1>2. /\ left' \in [Sums -> [Clients -> SUBSET Fruits]]
      /\ left'[s][c] = DOMAIN offered'[s][c]
      /\ \A r \in Sums, d \in Clients : ~(r = s /\ d = c) => left'[r][d] = left[r][d]
  <2> DEFINE D == DOMAIN offered'[s][c]
  <2>1. IsTable(offered'[s][c])
    BY <1>1, TablesAreTables
  <2>2. D \in SUBSET Fruits /\ left' = [left EXCEPT ![s][c] = D]
    BY <2>1 DEF IsTable
  <2> HIDE DEF D
  <2>3. /\ left' \in [Sums -> [Clients -> SUBSET Fruits]] /\ left'[s][c] = D
        /\ \A r \in Sums, d \in Clients : ~(r = s /\ d = c) => left'[r][d] = left[r][d]
    BY <2>2 DEF TypeInv
  <2> QED
    BY <2>3 DEF D
<1>3. SumInv'
  BY <1>1, <1>2 DEF SumInv
<1>4. TypeInv'
  <2>1. nextAgg' \in [Sums -> [Clients -> 0 .. AGGREGATION_AMOUNT]]
    BY AggregationAssumption DEF TypeInv
  <2>2. resends' \in Nat
    BY DEF TypeInv
  <2>3. /\ inbox' = inbox /\ first' = first /\ promised' = promised /\ consumer' = consumer
        /\ pc' = pc /\ eof' = eof /\ payload' = payload /\ faults' = faults
        /\ UNCHANGED clientVars /\ UNCHANGED outputVars /\ TypeInv
    OBVIOUS
  <2> HIDE DEF Invariant, SumStartsAgain
  <2> QED
    BY <1>1, <1>2, <2>1, <2>2, <2>3 DEF TypeInv
<1> QED
  BY <1>3, <1>4, Frames, OutputFrame

-----------------------------------------------------------------------------
(* The callback of an aggregation.                                         *)

\* The queue is declared: nothing was promised yet, for nothing could be queued.
LEMMA StartStep ==
    ASSUME Invariant, NEW a \in Aggs, Start(a)
    PROVE  Invariant'
<1> USE DEF Invariant, Start
<1>1. /\ TypeInv' /\ SumInv' /\ TopInv' /\ EofInv' /\ Grows
  BY Frames DEF TypeInv, SumInv
<1>2. /\ consumer'[a] = "up" /\ consumer[a] = "down"
      /\ \A b \in Aggs : b # a => consumer'[b] = consumer[b]
  BY DEF TypeInv
<1>3. CountInv'
  BY <1>2 DEF CountInv
<1>4. OutputInv'
  <2>1. \A b \in Aggs : consumer[b] = "lost" => consumer'[b] = "lost"
    BY <1>2
  <2> QED
    BY <1>1, <2>1, OutputKept DEF OutputInv
<1>5. QueueInv'
  <2> SUFFICES ASSUME NEW b \in Aggs, NEW s \in Sums, NEW c \in Clients
               PROVE  QueueOK(b, s, c)'
    BY DEF QueueInv
  <2>1. QueueOK(b, s, c)
    BY DEF QueueInv
  <2>2. CASE b # a
    BY <1>2, <2>1, <2>2, QueueFrame
  <2>3. CASE b = a
    <3>1. Taken(b, s, c)' = Taken(b, s, c) /\ FruitsQueued(b, s, c)' = FruitsQueued(b, s, c)
      BY DEF Taken, FruitsQueued
    <3>2. FruitsQueued(a, s, c) = {}
      BY <1>2, <2>1, <2>3 DEF QueueOK
    <3>3. Covers(inbox[a][s][c], Taken(a, s, c), {})
      BY DEF Covers
    <3> QED
      BY <1>2, <2>1, <2>3, <3>1, <3>2, <3>3 DEF QueueOK
  <2> QED
    BY <2>2, <2>3
<1> QED
  BY <1>1, <1>3, <1>4, <1>5

\* A message is taken from the head of a queue; a partial sum is noted, unless its
\* client is completed.
LEMMA QueueShortened ==
    ASSUME TypeInv, QueueInv, NEW a \in Aggs, NEW s \in Sums, NEW c \in Clients,
           inbox[a][s][c] # <<>>, inbox' = [inbox EXCEPT ![a][s][c] = Tail(inbox[a][s][c])],
           first' = first, promised' = promised, consumer' = consumer, completed' = completed,
           \A b \in Aggs, r \in Sums, d \in Clients :
                ~(b = a /\ r = s /\ d = c) => Taken(b, r, d)' = Taken(b, r, d),
           Taken(a, s, c) \subseteq Taken(a, s, c)',
           c \notin completed[a] =>
                \A f \in Fruits : IsSum(Head(inbox[a][s][c]), f) => f \in Taken(a, s, c)'
    PROVE  QueueInv' /\ inbox' \in [Aggs -> [Sums -> [Clients -> Seq(Messages)]]]
<1> DEFINE q == inbox[a][s][c]
           tl == Tail(q)
<1>1. inbox \in [Aggs -> [Sums -> [Clients -> Seq(Messages)]]] /\ q \in Seq(Messages)
  BY DEF TypeInv
<1>2. q # <<>> /\ inbox' = [inbox EXCEPT ![a][s][c] = tl] /\ tl \in Seq(Messages)
  BY <1>1, Shortened
<1>3. QueueOK(a, s, c)
  BY DEF QueueInv
<1>4. /\ q = inbox[a][s][c]
      /\ c \notin completed[a] => \A f \in Fruits : IsSum(Head(q), f) => f \in Taken(a, s, c)'
  OBVIOUS
<1> HIDE DEF tl
<1>5. /\ inbox' \in [Aggs -> [Sums -> [Clients -> Seq(Messages)]]] /\ inbox'[a][s][c] = tl
      /\ \A b \in Aggs, r \in Sums, d \in Clients :
           ~(b = a /\ r = s /\ d = c) => inbox'[b][r][d] = inbox[b][r][d]
  BY <1>1, <1>2, Updated3
<1> HIDE DEF q
<1>6. ASSUME NEW b \in Aggs, NEW r \in Sums, NEW d \in Clients, ~(b = a /\ r = s /\ d = c)
      PROVE  QueueOK(b, r, d)'
  <2>1. QueueOK(b, r, d)
    BY DEF QueueInv
  <2>2. inbox'[b][r][d] = inbox[b][r][d] /\ Taken(b, r, d)' = Taken(b, r, d)
    BY <1>5, <1>6
  <2> QED
    BY <2>1, <2>2, QueueKept
<1>7. QueueOK(a, s, c)'
  <2>1. FruitsQueued(a, s, c)' = FruitsQueued(a, s, c)
    BY DEF FruitsQueued
  <2>2. FruitsQueued(a, s, c) \subseteq Fruits
    <3>1. IsTable(first[s][c])
      BY TablesAreTables DEF TypeInv
    <3> QED
      BY <3>1 DEF FruitsQueued, IsTable
  <2>3. \A i \in DOMAIN tl : i + 1 \in DOMAIN q /\ tl[i] = q[i + 1]
    BY <1>1, <1>2, Shortened DEF tl
  <2>4. UNION promised[a][s][c] \subseteq FruitsQueued(a, s, c)
    BY <1>3 DEF QueueOK
  <2>5. ASSUME c \notin completed[a]
        PROVE  /\ FirstIsRight(tl, Taken(a, s, c)', first[s][c])
               /\ EofAfter(tl, Taken(a, s, c)', UNION promised[a][s][c])
               /\ consumer[a] = "up" => Covers(tl, Taken(a, s, c)', FruitsQueued(a, s, c))
    <3>1. /\ FirstIsRight(q, Taken(a, s, c), first[s][c])
          /\ EofAfter(q, Taken(a, s, c), UNION promised[a][s][c])
          /\ consumer[a] = "up" => Covers(q, Taken(a, s, c), FruitsQueued(a, s, c))
      BY <1>3, <1>4, <2>5 DEF QueueOK
    <3>2. \A f \in Fruits : IsSum(Head(q), f) => f \in Taken(a, s, c)'
      BY <1>4, <2>5
    <3>3. \A more : Taken(a, s, c) \subseteq more /\ (\A f \in Fruits : IsSum(Head(q), f) => f \in more)
            => /\ \A t : FirstIsRight(q, Taken(a, s, c), t) => FirstIsRight(Tail(q), more, t)
               /\ \A S : S \subseteq Fruits /\ EofAfter(q, Taken(a, s, c), S) => EofAfter(Tail(q), more, S)
               /\ \A S : S \subseteq Fruits /\ Covers(q, Taken(a, s, c), S) => Covers(Tail(q), more, S)
      BY <1>1, <1>2, ShortenedRight
    <3>4. UNION promised[a][s][c] \subseteq Fruits
      BY <2>2, <2>4
    <3> QED
      BY <2>2, <3>1, <3>2, <3>3, <3>4 DEF tl
  <2>6. \A i \in DOMAIN q :
          /\ \A f \in Fruits : IsSum(q[i], f) => f \in FruitsQueued(a, s, c)
          /\ q[i] = EofMessage => promised[a][s][c] # {}
    BY <1>3, <1>4 DEF QueueOK
  <2>7. consumer[a] = "up"
    BY <1>2, <1>3, <1>4 DEF QueueOK
  <2>8. consumer'[a] = "up" /\ promised'[a][s][c] = promised[a][s][c]
        /\ first'[s][c] = first[s][c] /\ completed' = completed
    BY <2>7
  <2>9. \A i \in DOMAIN tl :
          /\ \A f \in Fruits : IsSum(tl[i], f) => f \in FruitsQueued(a, s, c)
          /\ tl[i] = EofMessage => promised[a][s][c] # {}
    BY <2>3, <2>6
  <2>10. inbox'[a][s][c] = tl
    BY <1>5
  <2> QED
    BY <2>1, <2>4, <2>5, <2>7, <2>8, <2>9, <2>10 DEF QueueOK
<1>8. ASSUME NEW b \in Aggs, NEW r \in Sums, NEW d \in Clients PROVE QueueOK(b, r, d)'
  <2>1. CASE b = a /\ r = s /\ d = c
    BY <1>7, <2>1
  <2> QED
    BY <1>6, <2>1
<1> QED
  BY <1>5, <1>8 DEF QueueInv

\* An EOF that is noted or not, and the queue without it.
LEMMA EofTaken ==
    ASSUME Invariant, NEW a \in Aggs, NEW s \in Sums, NEW c \in Clients, Receives(a, s, c, "EOF"),
           UNCHANGED <<first, promised, consumer, completed, receivedPartialSums>>
    PROVE  /\ QueueInv' /\ inbox' \in [Aggs -> [Sums -> [Clients -> Seq(Messages)]]]
           /\ c \notin completed[a] =>
                promised[a][s][c] # {} /\ UNION promised[a][s][c] \subseteq Taken(a, s, c)
<1>1. /\ TypeInv /\ QueueInv /\ inbox[a][s][c] # <<>> /\ consumer[a] = "up"
      /\ Head(inbox[a][s][c]).type = "EOF"
      /\ inbox' = [inbox EXCEPT ![a][s][c] = Tail(inbox[a][s][c])]
  BY DEF Invariant, Receives
<1>2. /\ first' = first /\ promised' = promised /\ consumer' = consumer /\ completed' = completed
      /\ receivedPartialSums' = receivedPartialSums
  OBVIOUS
<1>3. \A b, r, d : Taken(b, r, d)' = Taken(b, r, d)
  BY <1>2, Zenon DEF Taken
<1>4. inbox[a][s][c] \in Seq(Messages)
  BY <1>1 DEF TypeInv
<1>5. Head(inbox[a][s][c]) = EofMessage /\ Head(inbox[a][s][c]) = inbox[a][s][c][1]
      /\ 1 \in DOMAIN inbox[a][s][c]
  BY <1>1, <1>4, Shortened, MessageTypes
<1>6. \A f \in Fruits : ~IsSum(Head(inbox[a][s][c]), f)
  BY <1>5, MessageTypes
<1>7. QueueInv' /\ inbox' \in [Aggs -> [Sums -> [Clients -> Seq(Messages)]]]
  BY <1>1, <1>2, <1>3, <1>6, QueueShortened
<1>8. ASSUME c \notin completed[a]
      PROVE  promised[a][s][c] # {} /\ UNION promised[a][s][c] \subseteq Taken(a, s, c)
  <2>1. /\ promised[a][s][c] # {}
        /\ EofAfter(inbox[a][s][c], Taken(a, s, c), UNION promised[a][s][c])
    <3>1. QueueOK(a, s, c)
      BY <1>1 DEF QueueInv
    <3> QED
      BY <1>5, <1>8, <3>1 DEF QueueOK
  <2> QED
    BY <1>1, <1>4, <1>5, <2>1, FirstMessage
<1> QED
  BY <1>7, <1>8

\* An EOF that came before, or of a completed client.
LEMMA SkipEofStep ==
    ASSUME Invariant, NEW a \in Aggs, NEW s \in Sums, NEW c \in Clients, SkipEof(a, s, c)
    PROVE  Invariant'
<1>1. /\ Receives(a, s, c, "EOF")
      /\ UNCHANGED <<sumVars, consumer, pc, eof, clientVars, payload, outputVars, faults>>
  BY DEF SkipEof
<1>2. QueueInv' /\ inbox' \in [Aggs -> [Sums -> [Clients -> Seq(Messages)]]]
  BY <1>1, EofTaken
<1>3. TypeInv' /\ SumInv'
  BY <1>1, <1>2 DEF Invariant, TypeInv, SumInv
<1>4. TopInv' /\ EofInv' /\ CountInv' /\ Grows /\ OutputInv
  BY <1>1, Frames DEF Invariant
<1> QED
  BY <1>1, <1>2, <1>3, <1>4, OutputFrame DEF Invariant

\* The tables of what was taken are tables.
LEMMA TakenAreTables ==
    ASSUME TypeInv, TopInv, NEW a \in Aggs, NEW c \in Clients
    PROVE  /\ DOMAIN TakenTables(a, c) = Sums
           /\ \A s \in Sums : /\ TakenTables(a, c)[s] = Restricted(first[s][c], Taken(a, s, c))
                              /\ IsTable(TakenTables(a, c)[s])
                              /\ DOMAIN TakenTables(a, c)[s] = Taken(a, s, c)
                              /\ Taken(a, s, c) \subseteq DOMAIN first[s][c]
<1>1. /\ DOMAIN TakenTables(a, c) = Sums
      /\ \A s \in Sums : TakenTables(a, c)[s] = Restricted(first[s][c], Taken(a, s, c))
  BY DEF TakenTables
<1>2. ASSUME NEW s \in Sums
      PROVE  /\ Taken(a, s, c) \subseteq DOMAIN first[s][c]
             /\ IsTable(Restricted(first[s][c], Taken(a, s, c)))
             /\ DOMAIN Restricted(first[s][c], Taken(a, s, c)) = Taken(a, s, c)
  <2>1. IsTable(first[s][c])
    BY TablesAreTables DEF TypeInv
  <2>2. Taken(a, s, c) \subseteq DOMAIN first[s][c]
    BY DEF TopInv, FruitsQueued
  <2> QED
    BY <2>1, <2>2, PartOfTable DEF Restricted
<1> QED
  BY <1>1, <1>2

\* A partial sum is taken, with the amount it was first queued with.
LEMMA NewPartialSum ==
    ASSUME Invariant, NEW a \in Aggs, NEW s \in Sums, NEW c \in Clients,
           ReceivePartialSum(a, s, c), NEW m, m = Head(inbox[a][s][c]),
           NEW f, f = m.fruit, ~KnownPartialSum(a, s, c, f)
    PROVE  Invariant'
<1>0. /\ Receives(a, s, c, "PARTIAL_SUM")
      /\ receivedPartialSums' = [receivedPartialSums EXCEPT ![a][c] = @ \cup {<<s, f>>}]
      /\ fruitTop' = [fruitTop EXCEPT ![a][c] = Plus(@, f, m.amount)]
      /\ UNCHANGED <<sumVars, consumer, pc, eof, sumsReceived, receivedEofs, completed,
                     finalizing, payload, outputVars, faults>>
  BY DEF ReceivePartialSum
<1>1. /\ TypeInv /\ QueueInv /\ TopInv /\ EofInv /\ CountInv /\ SumInv /\ OutputInv
      /\ inbox[a][s][c] # <<>> /\ consumer[a] = "up" /\ pc[a] = "idle"
      /\ inbox' = [inbox EXCEPT ![a][s][c] = Tail(inbox[a][s][c])]
      /\ m.type = "PARTIAL_SUM"
  BY <1>0 DEF Invariant, Receives
<1>2. /\ first' = first /\ promised' = promised /\ consumer' = consumer /\ completed' = completed
      /\ pc' = pc /\ eof' = eof /\ finalizing' = finalizing /\ receivedEofs' = receivedEofs
      /\ payload' = payload /\ sumsReceived' = sumsReceived /\ c \notin completed[a]
  BY <1>0 DEF KnownPartialSum
<1>3. inbox[a][s][c] \in Seq(Messages)
  BY <1>1 DEF TypeInv
<1>4. m \in Messages /\ m = inbox[a][s][c][1] /\ 1 \in DOMAIN inbox[a][s][c]
  BY <1>1, <1>3, Shortened
<1>5. f \in Fruits /\ m.amount \in Nat /\ \A g \in Fruits : IsSum(m, g) <=> g = f
  BY <1>1, <1>4, MessageTypes
<1>5a. f \notin Taken(a, s, c)
  BY <1>5 DEF KnownPartialSum, Taken
<1>6. f \in FruitsQueued(a, s, c) /\ m.amount = first[s][c][f]
  <2>1. QueueOK(a, s, c)
    BY <1>1 DEF QueueInv
  <2>2. f \in FruitsQueued(a, s, c)
    BY <1>4, <1>5, <2>1 DEF QueueOK
  <2>3. FirstIsRight(inbox[a][s][c], Taken(a, s, c), first[s][c])
    BY <1>2, <2>1 DEF QueueOK
  <2>4. m.amount = first[s][c][f]
    <3> DEFINE q == inbox[a][s][c]
    <3>1. q \in Seq(Messages) /\ q # <<>> /\ IsSum(Head(q), f)
      BY <1>1, <1>3, <1>5
    <3>2. FirstIsRight(q, Taken(a, s, c), first[s][c]) /\ m = Head(q)
      BY <2>3
    <3> HIDE DEF q
    <3> QED
      BY <1>5, <1>5a, <3>1, <3>2, FirstAmount
  <2> QED
    BY <2>2, <2>4
<1>7. /\ receivedPartialSums' \in [Aggs -> [Clients -> SUBSET (Sums \X Fruits)]]
      /\ receivedPartialSums'[a][c] = receivedPartialSums[a][c] \cup {<<s, f>>}
      /\ \A b \in Aggs, d \in Clients :
           ~(b = a /\ d = c) => receivedPartialSums'[b][d] = receivedPartialSums[b][d]
  <2> DEFINE R == receivedPartialSums[a][c] \cup {<<s, f>>}
  <2>1. receivedPartialSums \in [Aggs -> [Clients -> SUBSET (Sums \X Fruits)]]
    BY <1>1 DEF TypeInv
  <2>2. R \in SUBSET (Sums \X Fruits) /\ receivedPartialSums' = [receivedPartialSums EXCEPT ![a][c] = R]
    BY <1>0, <1>5, <2>1
  <2>3. R = receivedPartialSums[a][c] \cup {<<s, f>>}
    OBVIOUS
  <2> HIDE DEF R
  <2> QED
    BY <2>1, <2>2, <2>3, Updated2
<1>8. /\ Taken(a, s, c)' = Taken(a, s, c) \cup {f}
      /\ \A b \in Aggs, r \in Sums, d \in Clients :
           ~(b = a /\ r = s /\ d = c) => Taken(b, r, d)' = Taken(b, r, d)
  BY <1>5, <1>7 DEF Taken
<1>9. QueueInv' /\ inbox' \in [Aggs -> [Sums -> [Clients -> Seq(Messages)]]]
  <2>1. \A g \in Fruits : IsSum(Head(inbox[a][s][c]), g) => g \in Taken(a, s, c)'
    BY <1>5, <1>8
  <2>2. Taken(a, s, c) \subseteq Taken(a, s, c)'
    BY <1>8
  <2>3. \A b \in Aggs, r \in Sums, d \in Clients :
          ~(b = a /\ r = s /\ d = c) => Taken(b, r, d)' = Taken(b, r, d)
    BY <1>8
  <2>4. /\ TypeInv /\ QueueInv /\ inbox[a][s][c] # <<>>
        /\ inbox' = [inbox EXCEPT ![a][s][c] = Tail(inbox[a][s][c])]
    BY <1>1
  <2>5. first' = first /\ promised' = promised /\ consumer' = consumer /\ completed' = completed
    BY <1>2
  <2> QED
    BY <2>1, <2>2, <2>3, <2>4, <2>5, QueueShortened
<1>10. /\ fruitTop' \in [Aggs -> [Clients -> Tables]]
       /\ fruitTop'[a][c] = Plus(fruitTop[a][c], f, m.amount)
       /\ \A b \in Aggs, d \in Clients : ~(b = a /\ d = c) => fruitTop'[b][d] = fruitTop[b][d]
  <2> DEFINE t == Plus(fruitTop[a][c], f, m.amount)
  <2>1. fruitTop \in [Aggs -> [Clients -> Tables]] /\ IsTable(fruitTop[a][c])
    BY <1>1, TablesAreTables DEF TypeInv
  <2>2. \A u : IsTable(u) => IsTable(Plus(u, f, m.amount))
    BY <1>5, PlusIsTable
  <2>3. t \in Tables /\ fruitTop' = [fruitTop EXCEPT ![a][c] = t]
    BY <1>0, <2>1, <2>2, TablesAreTables
  <2> HIDE DEF t
  <2>4. /\ fruitTop' \in [Aggs -> [Clients -> Tables]] /\ fruitTop'[a][c] = t
        /\ \A b \in Aggs, d \in Clients : ~(b = a /\ d = c) => fruitTop'[b][d] = fruitTop[b][d]
    BY <2>1, <2>3, Updated2
  <2> QED
    BY <2>4 DEF t
<1>11. TypeInv' /\ SumInv'
  BY <1>0, <1>1, <1>7, <1>9, <1>10 DEF TypeInv, SumInv
<1>12. CountInv' /\ Grows
  BY <1>1, <1>2, Frames
<1>13. TopInv'
  <2>1. \A b \in Aggs, r \in Sums, d \in Clients :
          /\ FruitsQueued(b, r, d)' = FruitsQueued(b, r, d)
          /\ Taken(b, r, d) \subseteq FruitsQueued(b, r, d)
    BY <1>1, <1>2 DEF FruitsQueued, TopInv
  <2>2. \A b \in Aggs, r \in Sums, d \in Clients : Taken(b, r, d)' \subseteq FruitsQueued(b, r, d)'
    BY <1>6, <1>8, <2>1
  <2>3. ASSUME NEW b \in Aggs, NEW d \in Clients, ~(b = a /\ d = c)
        PROVE  TakenTables(b, d)' = TakenTables(b, d)
    <3>1. \A r \in Sums : Taken(b, r, d)' = Taken(b, r, d)
      BY <1>8, <2>3
    <3> QED
      BY <1>2, <3>1 DEF TakenTables
  <2>4. MergeOf(TakenTables(a, c)') = Plus(MergeOf(TakenTables(a, c)), f, m.amount)
    <3> DEFINE tables == TakenTables(a, c)
               more == TakenTables(a, c)'
               n == m.amount
    <3>1. /\ DOMAIN tables = Sums
          /\ \A r \in Sums : /\ tables[r] = Restricted(first[r][c], Taken(a, r, c))
                             /\ IsTable(tables[r]) /\ DOMAIN tables[r] = Taken(a, r, c)
                             /\ Taken(a, r, c) \subseteq DOMAIN first[r][c]
      BY <1>1, TakenAreTables
    <3>2. /\ DOMAIN more = Sums
          /\ \A r \in Sums : more[r] = Restricted(first[r][c], Taken(a, r, c)')
      BY <1>2 DEF TakenTables
    <3>3. \A r \in Sums : r # s => more[r] = tables[r]
      BY <1>8, <3>1, <3>2
    <3>4. more[s] = Restricted(first[s][c], Taken(a, s, c) \cup {f})
      BY <1>8, <3>2
    <3>5. f \in DOMAIN first[s][c] /\ IsTable(first[s][c])
      BY <1>1, <1>6, TablesAreTables DEF TypeInv, FruitsQueued
    <3>6. IsTable(more[s])
      BY <3>1, <3>4, <3>5, PartOfTable
    <3>7. /\ DOMAIN more[s] = DOMAIN tables[s] \cup {f} /\ more[s][f] = n
          /\ \A g \in DOMAIN tables[s] : more[s][g] = tables[s][g]
      <4>1. tables[s] = Restricted(first[s][c], Taken(a, s, c)) /\ DOMAIN tables[s] = Taken(a, s, c)
        BY <3>1
      <4> HIDE DEF tables, more
      <4>2. /\ DOMAIN more[s] = Taken(a, s, c) \cup {f}
            /\ \A g \in Taken(a, s, c) \cup {f} : more[s][g] = first[s][c][g]
        BY <3>4 DEF Restricted
      <4>3. \A g \in Taken(a, s, c) : tables[s][g] = first[s][c][g]
        BY <4>1 DEF Restricted
      <4> QED
        BY <1>6, <4>1, <4>2, <4>3
    <3>8. f \notin DOMAIN tables[s] /\ n \in Nat /\ IsFiniteSet(DOMAIN tables) /\ s \in DOMAIN tables
      BY <1>5, <1>5a, <3>1, AggregationAssumption
    <3>9. /\ \A r \in DOMAIN tables : IsTable(tables[r])
          /\ \A r \in DOMAIN tables : r # s => more[r] = tables[r]
          /\ DOMAIN more = DOMAIN tables
      BY <3>1, <3>2, <3>3
    <3> HIDE DEF tables, more, n
    <3>10. MergeOf(more) = Plus(MergeOf(tables), f, n)
      BY <1>5, <3>6, <3>7, <3>8, <3>9, MergePlus
    <3> QED
      BY <3>10 DEF tables, more, n
  <2>5. ASSUME NEW b \in Aggs, NEW d \in Clients
        PROVE  /\ d \notin completed'[b] => fruitTop'[b][d] = MergeOf(TakenTables(b, d)')
               /\ d \in completed'[b] => fruitTop'[b][d] = NoFruits
    <3>1. /\ d \notin completed[b] => fruitTop[b][d] = MergeOf(TakenTables(b, d))
          /\ d \in completed[b] => fruitTop[b][d] = NoFruits
      BY <1>1 DEF TopInv
    <3>2. CASE b = a /\ d = c
      BY <1>2, <1>10, <2>4, <3>1, <3>2
    <3>3. CASE ~(b = a /\ d = c)
      BY <1>2, <1>10, <2>3, <3>1, <3>3
    <3> QED
      BY <1>5a, <3>2, <3>3
  <2> QED
    BY <2>2, <2>5 DEF TopInv
<1>14. EofInv'
  <2>1. ASSUME NEW b \in Aggs, NEW r \in Sums, NEW d \in Clients, d \notin completed[b],
               r \in receivedEofs[b][d] \/ <<r, d>> \in eof[b]
        PROVE  promised[b][r][d] # {} /\ UNION promised[b][r][d] \subseteq Taken(b, r, d)'
    <3>1. promised[b][r][d] # {} /\ UNION promised[b][r][d] \subseteq Taken(b, r, d)
      BY <1>1, <2>1 DEF EofInv
    <3>2. Taken(b, r, d) \subseteq Taken(b, r, d)'
      BY <1>8
    <3> QED
      BY <3>1, <3>2
  <2>2. eof[a] = {}
    BY <1>1 DEF EofInv
  <2>3. \A b \in Aggs : b # a => \A d \in Clients : fruitTop'[b][d] = fruitTop[b][d]
    BY <1>10
  <2> QED
    BY <1>1, <1>2, <2>1, <2>2, <2>3, SMTT(30) DEF EofInv
<1> QED
  BY <1>0, <1>1, <1>9, <1>11, <1>12, <1>13, <1>14, OutputFrame DEF Invariant

\* A partial sum comes.
LEMMA ReceivePartialSumStep ==
    ASSUME Invariant, NEW a \in Aggs, NEW s \in Sums, NEW c \in Clients, ReceivePartialSum(a, s, c)
    PROVE  Invariant'
<1> DEFINE m == Head(inbox[a][s][c])
<1>1. /\ Receives(a, s, c, "PARTIAL_SUM")
      /\ UNCHANGED <<sumVars, consumer, pc, eof, sumsReceived, receivedEofs, completed,
                     finalizing, payload, outputVars, faults>>
  BY DEF ReceivePartialSum
<1>2. /\ TypeInv /\ QueueInv /\ TopInv /\ EofInv /\ CountInv /\ SumInv /\ OutputInv
      /\ inbox[a][s][c] # <<>> /\ m.type = "PARTIAL_SUM"
      /\ inbox' = [inbox EXCEPT ![a][s][c] = Tail(inbox[a][s][c])]
  BY <1>1 DEF Invariant, Receives
<1>3. m \in Messages
  BY <1>2, Shortened DEF TypeInv
<1>4. m.fruit \in Fruits /\ \A g \in Fruits : IsSum(m, g) <=> g = m.fruit
  BY <1>2, <1>3, MessageTypes
<1>5. m.fruit \in Taken(a, s, c) <=> <<s, m.fruit>> \in receivedPartialSums[a][c]
  BY <1>4 DEF Taken
<1>6. CASE /\ KnownPartialSum(a, s, c, m.fruit)
           /\ UNCHANGED <<fruitTop, receivedPartialSums>>
  <2>1. /\ first' = first /\ promised' = promised /\ consumer' = consumer /\ completed' = completed
        /\ receivedPartialSums' = receivedPartialSums
    BY <1>1, <1>6
  <2>2. \A b, r, d : Taken(b, r, d)' = Taken(b, r, d)
    BY <2>1, Zenon DEF Taken
  <2>3. c \notin completed[a] => m.fruit \in Taken(a, s, c)
    BY <1>5, <1>6 DEF KnownPartialSum
  <2>4. QueueInv' /\ inbox' \in [Aggs -> [Sums -> [Clients -> Seq(Messages)]]]
    <3> HIDE DEF m
    <3>1. c \notin completed[a] => \A f \in Fruits : IsSum(m, f) => f \in Taken(a, s, c)'
      BY <1>4, <2>2, <2>3
    <3> QED
      BY <1>2, <2>1, <2>2, <3>1, QueueShortened DEF m
  <2>5. TypeInv' /\ SumInv'
    BY <1>1, <1>2, <1>6, <2>4 DEF TypeInv, SumInv
  <2>6. TopInv' /\ EofInv' /\ CountInv' /\ Grows
    BY <1>1, <1>2, <1>6, Frames
  <2> QED
    BY <1>1, <1>2, <2>4, <2>5, <2>6, OutputFrame DEF Invariant
<1>7. CASE ~KnownPartialSum(a, s, c, m.fruit)
  BY <1>7, NewPartialSum
<1> QED
  BY <1>6, <1>7 DEF ReceivePartialSum

\* An EOF is noted, and it is not the last.
LEMMA CountEofStep ==
    ASSUME Invariant, NEW a \in Aggs, NEW s \in Sums, NEW c \in Clients, CountEof(a, s, c)
    PROVE  Invariant'
<1> DEFINE n == sumsReceived[a][c]
           noted == receivedEofs[a][c]
<1>1. /\ Receives(a, s, c, "EOF") /\ c \notin completed[a] /\ s \notin noted
      /\ ~IsLast(n)
      /\ sumsReceived' = [sumsReceived EXCEPT ![a][c] = n + 1]
      /\ receivedEofs' = [receivedEofs EXCEPT ![a][c] = noted \cup {s}]
      /\ UNCHANGED <<sumVars, consumer, pc, eof, fruitTop, receivedPartialSums, completed,
                     finalizing, payload, outputVars, faults>>
  BY DEF CountEof, KnownEof
<1>2. /\ TypeInv /\ SumInv /\ TopInv /\ EofInv /\ CountInv /\ OutputInv
      /\ consumer[a] = "up" /\ pc[a] = "idle"
  BY <1>1 DEF Invariant, Receives
<1>3. /\ QueueInv' /\ inbox' \in [Aggs -> [Sums -> [Clients -> Seq(Messages)]]]
      /\ promised[a][s][c] # {} /\ UNION promised[a][s][c] \subseteq Taken(a, s, c)
  BY <1>1, EofTaken
<1>4. TopInv' /\ Grows
  BY <1>1, <1>2, Frames
<1>5. /\ sumsReceived' \in [Aggs -> [Clients -> 0 .. SUM_AMOUNT]] /\ sumsReceived'[a][c] = n + 1
      /\ \A b \in Aggs, d \in Clients :
           ~(b = a /\ d = c) => sumsReceived'[b][d] = sumsReceived[b][d]
  <2>1. SUM_AMOUNT \in Nat
    BY AggregationAssumption, FS_CardinalityType DEF SUM_AMOUNT
  <2>2. sumsReceived \in [Aggs -> [Clients -> 0 .. SUM_AMOUNT]] /\ n \in 0 .. SUM_AMOUNT
    BY <1>2 DEF TypeInv
  <2>3. n + 1 \in 0 .. SUM_AMOUNT
    BY <1>1, <2>1, <2>2 DEF IsLast
  <2> HIDE DEF n
  <2>4. sumsReceived' = [sumsReceived EXCEPT ![a][c] = n + 1]
    BY <1>1
  <2> QED
    BY <2>2, <2>3, <2>4, Updated2
<1>6. /\ receivedEofs' \in [Aggs -> [Clients -> SUBSET Sums]]
      /\ receivedEofs'[a][c] = noted \cup {s}
      /\ \A b \in Aggs, d \in Clients :
           ~(b = a /\ d = c) => receivedEofs'[b][d] = receivedEofs[b][d]
  <2> DEFINE R == noted \cup {s}
  <2>1. receivedEofs \in [Aggs -> [Clients -> SUBSET Sums]] /\ R \in SUBSET Sums
    BY <1>2 DEF TypeInv
  <2>2. receivedEofs' = [receivedEofs EXCEPT ![a][c] = R]
    BY <1>1
  <2> HIDE DEF R
  <2>3. /\ receivedEofs' \in [Aggs -> [Clients -> SUBSET Sums]] /\ receivedEofs'[a][c] = R
        /\ \A b \in Aggs, d \in Clients :
             ~(b = a /\ d = c) => receivedEofs'[b][d] = receivedEofs[b][d]
    BY <2>1, <2>2, Updated2
  <2> QED
    BY <2>3 DEF R
<1>7. TypeInv' /\ SumInv'
  BY <1>1, <1>2, <1>3, <1>5, <1>6 DEF TypeInv, SumInv
<1>8. CountInv'
  <2>1. completed' = completed /\ finalizing' = finalizing /\ consumer' = consumer
    BY <1>1
  <2>2. IsFiniteSet(noted)
    BY <1>2, AggregationAssumption, FS_Subset DEF TypeInv
  <2>3. Cardinality(noted \cup {s}) = Cardinality(noted) + 1
    BY <1>1, <2>2, FS_AddElement
  <2>4. c \notin finalizing[a] => n = Cardinality(noted)
    BY <1>1, <1>2 DEF CountInv
  <2> HIDE DEF n, noted
  <2>5. c \notin finalizing[a] => sumsReceived'[a][c] = Cardinality(receivedEofs'[a][c])
    BY <1>5, <1>6, <2>3, <2>4
  <2>6. ASSUME NEW b \in Aggs, NEW d \in Clients
        PROVE  /\ d \in completed[b] => sumsReceived'[b][d] = 0
               /\ d \notin completed[b] /\ d \notin finalizing[b] /\ consumer[b] # "lost" =>
                    sumsReceived'[b][d] = Cardinality(receivedEofs'[b][d])
    <3>1. CASE b = a /\ d = c
      BY <1>1, <2>5, <3>1
    <3>2. CASE ~(b = a /\ d = c)
      BY <1>2, <1>5, <1>6, <3>2 DEF CountInv
    <3> QED
      BY <3>1, <3>2
  <2> QED
    BY <2>1, <2>6 DEF CountInv
<1>9. EofInv'
  <2>1. /\ pc' = pc /\ eof' = eof /\ finalizing' = finalizing /\ completed' = completed
        /\ payload' = payload /\ fruitTop' = fruitTop /\ promised' = promised
        /\ receivedPartialSums' = receivedPartialSums
    BY <1>1
  <2>2. \A b, r, d : Taken(b, r, d)' = Taken(b, r, d)
    BY <2>1, Zenon DEF Taken
  <2>3. eof[a] = {}
    BY <1>2 DEF EofInv
  <2>4. \A b \in Aggs, d \in Clients : receivedEofs[b][d] \subseteq receivedEofs'[b][d]
    BY <1>6
  <2>5. ASSUME NEW b \in Aggs, NEW r \in Sums, NEW d \in Clients, d \notin completed[b],
               r \in receivedEofs'[b][d] \/ <<r, d>> \in eof[b]
        PROVE  promised[b][r][d] # {} /\ UNION promised[b][r][d] \subseteq Taken(b, r, d)
    <3>1. CASE b = a /\ r = s /\ d = c
      BY <1>3, <3>1
    <3>2. CASE ~(b = a /\ r = s /\ d = c)
      <4>1. r \in receivedEofs[b][d] \/ <<r, d>> \in eof[b]
        BY <1>6, <2>5, <3>2
      <4> QED
        BY <1>2, <2>5, <4>1 DEF EofInv
    <3> QED
      BY <3>1, <3>2
  <2>6. ASSUME NEW b \in Aggs
        PROVE  /\ pc[b] = "idle" <=> eof[b] = {}
               /\ \A d, e \in eof[b] : d = e
               /\ \A d \in Clients : d \in finalizing[b] <=> \E r \in Sums : <<r, d>> \in eof[b]
               /\ \A r \in Sums, d \in Clients : <<r, d>> \in eof[b] =>
                    /\ d \notin completed[b]
                    /\ \A other \in Sums : other = r \/ other \in receivedEofs'[b][d]
                    /\ payload[b] = TopOf(fruitTop[b][d])
    <3>1. /\ pc[b] = "idle" <=> eof[b] = {}
          /\ \A d, e \in eof[b] : d = e
          /\ \A d \in Clients : d \in finalizing[b] <=> \E r \in Sums : <<r, d>> \in eof[b]
      BY <1>2 DEF EofInv
    <3>2. ASSUME NEW r \in Sums, NEW d \in Clients, <<r, d>> \in eof[b]
          PROVE  /\ d \notin completed[b]
                 /\ \A other \in Sums : other = r \/ other \in receivedEofs[b][d]
                 /\ payload[b] = TopOf(fruitTop[b][d])
      BY <1>2, <3>2 DEF EofInv
    <3>3. ASSUME NEW r \in Sums, NEW d \in Clients, <<r, d>> \in eof[b]
          PROVE  \A other \in Sums : other = r \/ other \in receivedEofs'[b][d]
      BY <2>4, <3>2, <3>3
    <3> QED
      BY <3>1, <3>2, <3>3
  <2> QED
    BY <2>1, <2>2, <2>5, <2>6 DEF EofInv
<1> QED
  BY <1>1, <1>2, <1>3, <1>4, <1>7, <1>8, <1>9, OutputFrame DEF Invariant

\* The last EOF: those of the others were noted, so that every Sum is over.
LEMMA BeginTopStep ==
    ASSUME Invariant, NEW a \in Aggs, NEW s \in Sums, NEW c \in Clients, BeginTop(a, s, c)
    PROVE  Invariant'
<1> DEFINE n == sumsReceived[a][c]
           noted == receivedEofs[a][c]
<1>1. /\ Receives(a, s, c, "EOF") /\ c \notin completed[a] /\ s \notin noted
      /\ IsLast(n)
      /\ sumsReceived' = [sumsReceived EXCEPT ![a][c] = n + 1]
      /\ finalizing' = [finalizing EXCEPT ![a] = @ \cup {c}]
      /\ payload' = [payload EXCEPT ![a] = TopOf(fruitTop[a][c])]
      /\ eof' = [eof EXCEPT ![a] = {<<s, c>>}]
      /\ pc' = [pc EXCEPT ![a] = "sendTop"]
      /\ UNCHANGED <<sumVars, consumer, fruitTop, receivedPartialSums, receivedEofs, completed,
                     outputVars, faults>>
  BY DEF BeginTop, KnownEof
<1>2. /\ TypeInv /\ SumInv /\ TopInv /\ EofInv /\ CountInv /\ OutputInv
      /\ consumer[a] = "up" /\ pc[a] = "idle"
  BY <1>1 DEF Invariant, Receives
<1>3. /\ QueueInv' /\ inbox' \in [Aggs -> [Sums -> [Clients -> Seq(Messages)]]]
      /\ promised[a][s][c] # {} /\ UNION promised[a][s][c] \subseteq Taken(a, s, c)
  BY <1>1, EofTaken
<1>4. TopInv' /\ Grows
  BY <1>1, <1>2, Frames
<1>5. /\ fruitTop' = fruitTop /\ receivedEofs' = receivedEofs /\ completed' = completed
      /\ consumer' = consumer /\ promised' = promised /\ receivedPartialSums' = receivedPartialSums
      /\ joinQueue' = joinQueue /\ coordQueue' = coordQueue
  BY <1>1
<1>6. eof[a] = {} /\ finalizing[a] = {}
  <2>1. eof[a] = {}
    BY <1>2 DEF EofInv
  <2>2. finalizing[a] \subseteq Clients /\ \A d \in Clients : d \notin finalizing[a]
    BY <1>2, <2>1 DEF EofInv, TypeInv
  <2> QED
    BY <2>1, <2>2
<1>7. /\ finalizing' \in [Aggs -> SUBSET Clients] /\ finalizing'[a] = {c}
      /\ eof' \in [Aggs -> SUBSET (Sums \X Clients)] /\ eof'[a] = {<<s, c>>}
      /\ pc' \in [Aggs -> {"idle", "sendTop", "sendCoordination", "complete"}]
      /\ pc'[a] = "sendTop"
      /\ \A b \in Aggs : b # a => finalizing'[b] = finalizing[b] /\ eof'[b] = eof[b] /\ pc'[b] = pc[b]
  BY <1>1, <1>2, <1>6 DEF TypeInv
<1>8. /\ payload' \in [Aggs -> Tables] /\ payload'[a] = TopOf(fruitTop[a][c])
      /\ \A b \in Aggs : b # a => payload'[b] = payload[b]
  <2>1. payload \in [Aggs -> Tables] /\ IsTable(fruitTop[a][c])
    BY <1>2, TablesAreTables DEF TypeInv
  <2>2. TopOf(fruitTop[a][c]) \in Tables
    BY <2>1, TopFruitsIsTop, TablesAreTables
  <2> QED
    BY <1>1, <2>1, <2>2
<1>9. n = Cardinality(noted) /\ IsFiniteSet(noted) /\ noted \in SUBSET Sums
  <2>1. noted \in SUBSET Sums
    BY <1>2 DEF TypeInv
  <2>2. n = Cardinality(noted)
    BY <1>1, <1>2, <1>6 DEF CountInv
  <2> QED
    BY <2>1, <2>2, AggregationAssumption, FS_Subset
<1>10. n + 1 \in 0 .. SUM_AMOUNT /\ noted \cup {s} = Sums
  <2> DEFINE R == noted \cup {s}
  <2>1. R \in SUBSET Sums /\ IsFiniteSet(Sums)
    BY <1>9, AggregationAssumption
  <2>2. Cardinality(R) = n + 1 /\ n \in Nat
    BY <1>1, <1>9, FS_AddElement, FS_CardinalityType
  <2>3. SUM_AMOUNT = Cardinality(Sums) /\ SUM_AMOUNT \in Nat
    BY <2>1, FS_CardinalityType DEF SUM_AMOUNT
  <2>4. n + 1 >= SUM_AMOUNT
    BY <1>1 DEF IsLast
  <2> HIDE DEF R, n
  <2>5. Cardinality(R) <= Cardinality(Sums) /\ (Cardinality(Sums) = Cardinality(R) => R = Sums)
    BY <2>1, FS_Subset
  <2>6. R = Sums /\ n + 1 \in 0 .. SUM_AMOUNT
    BY <2>2, <2>3, <2>4, <2>5
  <2> QED
    BY <2>6 DEF R
<1>11. /\ sumsReceived' \in [Aggs -> [Clients -> 0 .. SUM_AMOUNT]]
       /\ \A b \in Aggs, d \in Clients :
            ~(b = a /\ d = c) => sumsReceived'[b][d] = sumsReceived[b][d]
  <2>1. sumsReceived \in [Aggs -> [Clients -> 0 .. SUM_AMOUNT]]
    BY <1>2 DEF TypeInv
  <2>2. sumsReceived' = [sumsReceived EXCEPT ![a][c] = n + 1]
    BY <1>1
  <2> HIDE DEF n
  <2> QED
    BY <1>10, <2>1, <2>2, Updated2
<1>12. TypeInv' /\ SumInv'
  BY <1>1, <1>2, <1>3, <1>7, <1>8, <1>11 DEF TypeInv, SumInv
<1>13. CountInv'
  <2>1. ASSUME NEW b \in Aggs, NEW d \in Clients
        PROVE  /\ d \in completed[b] => sumsReceived'[b][d] = 0
               /\ d \notin completed[b] /\ d \notin finalizing'[b] /\ consumer[b] # "lost" =>
                    sumsReceived'[b][d] = Cardinality(receivedEofs[b][d])
    <3>1. CASE b = a /\ d = c
      BY <1>1, <1>7, <3>1
    <3>2. CASE ~(b = a /\ d = c)
      <4>1. d \notin finalizing'[b] => d \notin finalizing[b]
        BY <1>6, <1>7
      <4> QED
        BY <1>2, <1>11, <3>2, <4>1 DEF CountInv
    <3> QED
      BY <3>1, <3>2
  <2> QED
    BY <1>5, <2>1 DEF CountInv
<1>14. EofInv'
  <2>1. \A b, r, d : Taken(b, r, d)' = Taken(b, r, d)
    BY <1>5, Zenon DEF Taken
  <2>2. ASSUME NEW b \in Aggs, NEW r \in Sums, NEW d \in Clients, d \notin completed[b],
               r \in receivedEofs[b][d] \/ <<r, d>> \in eof'[b]
        PROVE  promised[b][r][d] # {} /\ UNION promised[b][r][d] \subseteq Taken(b, r, d)
    <3>1. CASE b = a /\ r = s /\ d = c
      BY <1>3, <3>1
    <3>2. CASE ~(b = a /\ r = s /\ d = c)
      <4>1. r \in receivedEofs[b][d] \/ <<r, d>> \in eof[b]
        BY <1>7, <2>2, <3>2
      <4> QED
        BY <1>2, <2>2, <4>1 DEF EofInv
    <3> QED
      BY <3>1, <3>2
  <2>3. ASSUME NEW b \in Aggs
        PROVE  /\ pc'[b] = "idle" <=> eof'[b] = {}
               /\ \A d, e \in eof'[b] : d = e
               /\ \A d \in Clients : d \in finalizing'[b] <=> \E r \in Sums : <<r, d>> \in eof'[b]
               /\ \A r \in Sums, d \in Clients : <<r, d>> \in eof'[b] =>
                    /\ d \notin completed[b]
                    /\ \A other \in Sums : other = r \/ other \in receivedEofs[b][d]
                    /\ payload'[b] = TopOf(fruitTop[b][d])
    <3>1. CASE b = a
      BY <1>1, <1>7, <1>8, <1>10, <3>1
    <3>2. CASE b # a
      <4>1. /\ pc[b] = "idle" <=> eof[b] = {}
            /\ \A d, e \in eof[b] : d = e
            /\ \A d \in Clients : d \in finalizing[b] <=> \E r \in Sums : <<r, d>> \in eof[b]
            /\ \A r \in Sums, d \in Clients : <<r, d>> \in eof[b] =>
                 /\ d \notin completed[b]
                 /\ \A other \in Sums : other = r \/ other \in receivedEofs[b][d]
                 /\ payload[b] = TopOf(fruitTop[b][d])
        BY <1>2 DEF EofInv
      <4>2. /\ pc'[b] = pc[b] /\ eof'[b] = eof[b] /\ finalizing'[b] = finalizing[b]
            /\ payload'[b] = payload[b]
        BY <1>7, <1>8, <3>2
      <4> QED
        BY <4>1, <4>2
    <3> QED
      BY <3>1, <3>2
  <2> QED
    BY <1>5, <2>1, <2>2, <2>3 DEF EofInv
<1>15. OutputInv'
  <2>1. ASSUME NEW b \in Aggs, NEW d \in Clients PROVE OutputOK(b, d)'
    <3>1. OutputOK(b, d)
      BY <1>2 DEF OutputInv
    <3>2. CASE b = a /\ d = c
      BY <1>1, <1>2, <1>5, <1>6, <1>7, <3>1, <3>2 DEF OutputOK
    <3>3. CASE ~(b = a /\ d = c)
      <4>1. /\ d \in finalizing'[b] <=> d \in finalizing[b]
            /\ d \in finalizing[b] => pc'[b] = pc[b] /\ outLink'[b] = outLink[b]
        BY <1>1, <1>6, <1>7, <3>3
      <4> QED
        BY <1>4, <1>5, <3>1, <4>1, OutputKept
    <3> QED
      BY <3>2, <3>3
  <2> QED
    BY <2>1 DEF OutputInv
<1> QED
  BY <1>3, <1>4, <1>12, <1>13, <1>14, <1>15 DEF Invariant

-----------------------------------------------------------------------------
(* The sends of the top.                                                   *)

\* What is known while an EOF is in hand: it is the only one, its client is the only
\* one that is being finalized, and the payload is the top of all that was promised.
LEMMA InHand ==
    ASSUME Invariant, NEW a \in Aggs, NEW s \in Sums, NEW c \in Clients, <<s, c>> \in eof[a]
    PROVE  /\ eof[a] = {<<s, c>>} /\ finalizing[a] = {c} /\ c \notin completed[a]
           /\ pc[a] # "idle" /\ OutputOK(a, c)
           /\ IsPartialTop(payload[a], a, c) /\ payload[a] \in Tables
<1>1. TypeInv /\ TopInv /\ EofInv /\ OutputInv
  BY DEF Invariant
<1>2. /\ pc[a] # "idle" /\ c \notin completed[a] /\ payload[a] = TopOf(fruitTop[a][c])
      /\ \A d, e \in eof[a] : d = e
      /\ \A other \in Sums : other = s \/ other \in receivedEofs[a][c]
  BY <1>1 DEF EofInv
<1>3. eof[a] = {<<s, c>>}
  BY <1>2
<1>4. finalizing[a] = {c}
  <2>1. finalizing[a] \subseteq Clients
    BY <1>1 DEF TypeInv
  <2>2. \A d \in Clients : d \in finalizing[a] <=> d = c
    BY <1>1, <1>3 DEF EofInv
  <2> QED
    BY <2>1, <2>2
<1>5. \A r \in Sums : promised[a][r][c] # {} /\ UNION promised[a][r][c] \subseteq Taken(a, r, c)
  BY <1>1, <1>2 DEF EofInv
<1>6. \A r \in Sums : Taken(a, r, c) \subseteq FruitsQueued(a, r, c)
  BY <1>1 DEF TopInv
<1>7. payload[a] = TopOf(MergeOf(TakenTables(a, c)))
  BY <1>1, <1>2 DEF TopInv
<1>8. IsPartialTop(payload[a], a, c)
  <2> DEFINE chosen == [r \in Sums |-> Taken(a, r, c)]
  <2>1. chosen \in [Sums -> SUBSET Fruits] /\ \A r \in Sums : chosen[r] = Taken(a, r, c)
    BY DEF Taken
  <2> HIDE DEF chosen
  <2>2. ChosenTables(c, chosen) = TakenTables(a, c)
    BY <2>1 DEF ChosenTables, TakenTables
  <2>3. Summed(c, chosen) = MergeOf(ChosenTables(c, chosen))
    BY Zenon DEF Summed, ChosenTables
  <2>4. payload[a] = TopOf(Summed(c, chosen))
    BY <1>7, <2>2, <2>3
  <2>5. \A r \in Sums : /\ UNION promised[a][r][c] \subseteq chosen[r]
                        /\ chosen[r] \subseteq FruitsQueued(a, r, c)
    BY <1>5, <1>6, <2>1
  <2> QED
    BY <1>5, <2>1, <2>4, <2>5 DEF IsPartialTop
<1> QED
  BY <1>1, <1>2, <1>3, <1>4, <1>8 DEF OutputInv, TypeInv

\* A queue that is gone.
LEMMA Emptied ==
    ASSUME TypeInv, QueueInv, NEW a \in Aggs,
           inbox' = [inbox EXCEPT ![a] = [s \in Sums |-> [c \in Clients |-> <<>>]]],
           consumer' = [consumer EXCEPT ![a] = "lost"],
           first' = first, promised' = promised, completed' = completed,
           receivedPartialSums' = receivedPartialSums
    PROVE  /\ QueueInv' /\ inbox' \in [Aggs -> [Sums -> [Clients -> Seq(Messages)]]]
           /\ consumer' \in [Aggs -> {"down", "up", "lost"}] /\ consumer'[a] = "lost"
           /\ \A b \in Aggs : b # a => consumer'[b] = consumer[b]
<1> DEFINE none == [s \in Sums |-> [c \in Clients |-> <<>>]]
<1>1. /\ none \in [Sums -> [Clients -> Seq(Messages)]]
      /\ \A s \in Sums, c \in Clients : none[s][c] = <<>>
  OBVIOUS
<1>2. /\ inbox \in [Aggs -> [Sums -> [Clients -> Seq(Messages)]]] /\ inbox' = [inbox EXCEPT ![a] = none]
      /\ consumer \in [Aggs -> {"down", "up", "lost"}]
  BY DEF TypeInv
<1> HIDE DEF none
<1>3. /\ inbox' \in [Aggs -> [Sums -> [Clients -> Seq(Messages)]]] /\ inbox'[a] = none
      /\ \A b \in Aggs : b # a => inbox'[b] = inbox[b]
  BY <1>1, <1>2
<1>4. /\ consumer' \in [Aggs -> {"down", "up", "lost"}] /\ consumer'[a] = "lost"
      /\ \A b \in Aggs : b # a => consumer'[b] = consumer[b]
  BY <1>2
<1>5. \A b, s, c : /\ Taken(b, s, c)' = Taken(b, s, c)
                   /\ FruitsQueued(b, s, c)' = FruitsQueued(b, s, c)
  BY Zenon DEF Taken, FruitsQueued
<1>6. ASSUME NEW b \in Aggs, NEW s \in Sums, NEW c \in Clients PROVE QueueOK(b, s, c)'
  <2>1. QueueOK(b, s, c)
    BY DEF QueueInv
  <2>2. CASE b # a
    BY <1>3, <1>4, <2>1, <2>2, QueueFrame
  <2>3. CASE b = a
    <3>1. inbox'[b][s][c] = <<>> /\ DOMAIN inbox'[b][s][c] = {} /\ consumer'[b] = "lost"
      BY <1>1, <1>3, <1>4, <2>3
    <3>2. /\ FirstIsRight(inbox'[b][s][c], Taken(b, s, c), first[s][c])
          /\ EofAfter(inbox'[b][s][c], Taken(b, s, c), UNION promised[b][s][c])
      BY <3>1 DEF FirstIsRight, EofAfter
    <3>3. UNION promised[b][s][c] \subseteq FruitsQueued(b, s, c)
      BY <2>1 DEF QueueOK
    <3> QED
      BY <1>5, <3>1, <3>2, <3>3 DEF QueueOK
  <2> QED
    BY <2>2, <2>3
<1> QED
  BY <1>3, <1>4, <1>6 DEF QueueInv

\* A send raised: the process is gone, and the client is no longer being finalized.
LEMMA DieStep ==
    ASSUME Invariant, NEW a \in Aggs, NEW s \in Sums, NEW c \in Clients, <<s, c>> \in eof[a],
           Die(a, c),
           UNCHANGED <<first, promised, completed, sumsReceived, receivedEofs,
                       receivedPartialSums, payload, fruitTop>>
    PROVE  /\ QueueInv' /\ EofInv' /\ CountInv' /\ TopInv' /\ Grows
           /\ inbox' \in [Aggs -> [Sums -> [Clients -> Seq(Messages)]]]
           /\ consumer' \in [Aggs -> {"down", "up", "lost"}] /\ consumer'[a] = "lost"
           /\ finalizing' \in [Aggs -> SUBSET Clients] /\ finalizing'[a] = {}
           /\ eof' \in [Aggs -> SUBSET (Sums \X Clients)]
           /\ pc' \in [Aggs -> {"idle", "sendTop", "sendCoordination", "complete"}]
           /\ \A b \in Aggs : b # a => finalizing'[b] = finalizing[b] /\ pc'[b] = pc[b]
           /\ \A b \in Aggs : consumer[b] = "lost" => consumer'[b] = "lost"
<1>1. /\ finalizing' = [finalizing EXCEPT ![a] = @ \ {c}]
      /\ pc' = [pc EXCEPT ![a] = "idle"] /\ eof' = [eof EXCEPT ![a] = {}]
      /\ consumer' = [consumer EXCEPT ![a] = "lost"]
      /\ inbox' = [inbox EXCEPT ![a] = [r \in Sums |-> [d \in Clients |-> <<>>]]]
  BY DEF Die, Discarded
<1>2. /\ first' = first /\ promised' = promised /\ completed' = completed
      /\ sumsReceived' = sumsReceived /\ receivedEofs' = receivedEofs
      /\ receivedPartialSums' = receivedPartialSums /\ payload' = payload /\ fruitTop' = fruitTop
  OBVIOUS
<1>3. TypeInv /\ QueueInv /\ TopInv /\ EofInv /\ CountInv
  BY DEF Invariant
<1>4. finalizing[a] = {c}
  BY InHand
<1>5. /\ QueueInv' /\ inbox' \in [Aggs -> [Sums -> [Clients -> Seq(Messages)]]]
      /\ consumer' \in [Aggs -> {"down", "up", "lost"}] /\ consumer'[a] = "lost"
      /\ \A b \in Aggs : b # a => consumer'[b] = consumer[b]
  BY <1>1, <1>2, <1>3, Emptied
<1>6. /\ finalizing' \in [Aggs -> SUBSET Clients] /\ finalizing'[a] = {}
      /\ eof' \in [Aggs -> SUBSET (Sums \X Clients)] /\ eof'[a] = {}
      /\ pc' \in [Aggs -> {"idle", "sendTop", "sendCoordination", "complete"}] /\ pc'[a] = "idle"
      /\ \A b \in Aggs : b # a => finalizing'[b] = finalizing[b] /\ eof'[b] = eof[b] /\ pc'[b] = pc[b]
  <2>1. /\ finalizing \in [Aggs -> SUBSET Clients] /\ eof \in [Aggs -> SUBSET (Sums \X Clients)]
        /\ pc \in [Aggs -> {"idle", "sendTop", "sendCoordination", "complete"}]
    BY <1>3 DEF TypeInv
  <2>2. finalizing' = [finalizing EXCEPT ![a] = {}]
    BY <1>1, <1>4
  <2> QED
    BY <1>1, <2>1, <2>2
<1>7. TopInv' /\ Grows
  BY <1>2, <1>3, Frames
<1>8. CountInv'
  <2>1. ASSUME NEW b \in Aggs, NEW d \in Clients
        PROVE  /\ d \in completed[b] => sumsReceived[b][d] = 0
               /\ d \notin completed[b] /\ d \notin finalizing'[b] /\ consumer'[b] # "lost" =>
                    sumsReceived[b][d] = Cardinality(receivedEofs[b][d])
    BY <1>3, <1>5, <1>6 DEF CountInv
  <2> QED
    BY <1>2, <2>1 DEF CountInv
<1>9. EofInv'
  <2>1. \A b, r, d : Taken(b, r, d)' = Taken(b, r, d)
    BY <1>2, Zenon DEF Taken
  <2>2. eof'[a] = {} /\ \A b \in Aggs : eof'[b] \subseteq eof[b]
    BY <1>6
  <2>3. ASSUME NEW b \in Aggs, NEW r \in Sums, NEW d \in Clients, d \notin completed[b],
               r \in receivedEofs[b][d] \/ <<r, d>> \in eof'[b]
        PROVE  promised[b][r][d] # {} /\ UNION promised[b][r][d] \subseteq Taken(b, r, d)
    BY <1>3, <2>2, <2>3 DEF EofInv
  <2>4. ASSUME NEW b \in Aggs
        PROVE  /\ pc'[b] = "idle" <=> eof'[b] = {}
               /\ \A d, e \in eof'[b] : d = e
               /\ \A d \in Clients : d \in finalizing'[b] <=> \E r \in Sums : <<r, d>> \in eof'[b]
               /\ \A r \in Sums, d \in Clients : <<r, d>> \in eof'[b] =>
                    /\ d \notin completed[b]
                    /\ \A other \in Sums : other = r \/ other \in receivedEofs[b][d]
                    /\ payload[b] = TopOf(fruitTop[b][d])
    <3>1. CASE b = a
      BY <1>6, <3>1
    <3>2. CASE b # a
      <4>1. pc'[b] = pc[b] /\ eof'[b] = eof[b] /\ finalizing'[b] = finalizing[b]
        BY <1>6, <3>2
      <4>2. /\ pc[b] = "idle" <=> eof[b] = {}
            /\ \A d, e \in eof[b] : d = e
            /\ \A d \in Clients : d \in finalizing[b] <=> \E r \in Sums : <<r, d>> \in eof[b]
            /\ \A r \in Sums, d \in Clients : <<r, d>> \in eof[b] =>
                 /\ d \notin completed[b]
                 /\ \A other \in Sums : other = r \/ other \in receivedEofs[b][d]
                 /\ payload[b] = TopOf(fruitTop[b][d])
        BY <1>3 DEF EofInv
      <4> QED
        BY <4>1, <4>2
    <3> QED
      BY <3>1, <3>2
  <2> QED
    BY <1>2, <2>1, <2>3, <2>4 DEF EofInv
<1> QED
  BY <1>5, <1>6, <1>7, <1>8, <1>9

\* The thread goes on to another point: nothing else is as it speaks of the EOF in hand.
LEMMA GoesOn ==
    ASSUME Invariant, NEW a \in Aggs, NEW s \in Sums, NEW c \in Clients, <<s, c>> \in eof[a],
           NEW label \in {"sendTop", "sendCoordination", "complete"},
           pc' = [pc EXCEPT ![a] = label],
           UNCHANGED <<eof, finalizing, consumer, inbox, first, promised, completed, sumsReceived,
                       receivedEofs, receivedPartialSums, payload, fruitTop>>
    PROVE  /\ QueueInv' /\ EofInv' /\ CountInv' /\ TopInv' /\ Grows
           /\ pc' \in [Aggs -> {"idle", "sendTop", "sendCoordination", "complete"}]
           /\ pc'[a] = label /\ \A b \in Aggs : b # a => pc'[b] = pc[b]
<1>1. TypeInv /\ QueueInv /\ TopInv /\ EofInv /\ CountInv
  BY DEF Invariant
<1>2. QueueInv' /\ CountInv' /\ TopInv' /\ Grows
  BY <1>1, Frames
<1>3. /\ pc' \in [Aggs -> {"idle", "sendTop", "sendCoordination", "complete"}]
      /\ pc'[a] = label /\ \A b \in Aggs : b # a => pc'[b] = pc[b]
  BY <1>1 DEF TypeInv
<1>4. EofInv'
  <2>1. \A b, r, d : Taken(b, r, d)' = Taken(b, r, d)
    BY Zenon DEF Taken
  <2>2. pc[a] # "idle" /\ pc'[a] # "idle"
    BY <1>3, InHand
  <2>3. \A b \in Aggs : pc'[b] = "idle" <=> pc[b] = "idle"
    BY <1>3, <2>2
  <2>4. /\ eof' = eof /\ finalizing' = finalizing /\ completed' = completed
        /\ receivedEofs' = receivedEofs /\ payload' = payload /\ fruitTop' = fruitTop
        /\ promised' = promised
    OBVIOUS
  <2>5. ASSUME NEW b \in Aggs
        PROVE  /\ pc'[b] = "idle" <=> eof[b] = {}
               /\ \A d, e \in eof[b] : d = e
               /\ \A d \in Clients : d \in finalizing[b] <=> \E r \in Sums : <<r, d>> \in eof[b]
               /\ \A r \in Sums, d \in Clients : <<r, d>> \in eof[b] =>
                    /\ d \notin completed[b]
                    /\ \A other \in Sums : other = r \/ other \in receivedEofs[b][d]
                    /\ payload[b] = TopOf(fruitTop[b][d])
    <3>1. pc[b] = "idle" <=> eof[b] = {}
      BY <1>1 DEF EofInv
    <3> QED
      BY <1>1, <2>3, <3>1 DEF EofInv
  <2>6. ASSUME NEW b \in Aggs, NEW r \in Sums, NEW d \in Clients, d \notin completed[b],
               r \in receivedEofs[b][d] \/ <<r, d>> \in eof[b]
        PROVE  promised[b][r][d] # {} /\ UNION promised[b][r][d] \subseteq Taken(b, r, d)
    BY <1>1, <2>6 DEF EofInv
  <2> QED
    BY <2>1, <2>4, <2>5, <2>6 DEF EofInv
<1> QED
  BY <1>2, <1>3, <1>4

\* The partial top is sent to the join, or lost on a connection that swallows it, or the
\* process dies.
LEMMA SendPartialTopStep ==
    ASSUME Invariant, NEW a \in Aggs, NEW s \in Sums, NEW c \in Clients, SendPartialTop(a, s, c)
    PROVE  Invariant'
<1>1. PICK out \in SendOutcomes(outLink[a]) :
         /\ pc[a] = "sendTop" /\ <<s, c>> \in eof[a]
         /\ outLink' = [outLink EXCEPT ![a] = out.link]
         /\ joinQueue' = IF out.delivered
                           THEN [joinQueue EXCEPT ![a][c] = Append(@, payload[a])]
                           ELSE joinQueue
         /\ Proceeds(a, c, "sendCoordination", out.raised)
         /\ UNCHANGED <<sumVars, fruitTop, sumsReceived, receivedPartialSums, receivedEofs,
                        completed, payload, coordQueue, coordLink, faults>>
  BY DEF SendPartialTop
<1>2. TypeInv /\ SumInv /\ OutputInv
  BY DEF Invariant
<1>3. /\ finalizing[a] = {c} /\ c \notin completed[a] /\ OutputOK(a, c)
      /\ IsPartialTop(payload[a], a, c) /\ payload[a] \in Tables
  BY <1>1, InHand
<1>4. /\ outLink[a] \in LinkStates /\ out.link \in LinkStates
      /\ ~out.raised => out.delivered \/ out.link = "broken"
  BY <1>2, SendOutcomesType DEF TypeInv
<1>5. /\ outLink' \in [Aggs -> LinkStates] /\ outLink'[a] = out.link
      /\ \A b \in Aggs : b # a => outLink'[b] = outLink[b]
  BY <1>1, <1>2, <1>4 DEF TypeInv
<1>6. joinQueue[a][c] = <<>> /\ coordQueue[a][c] = 0
  BY <1>1, <1>3 DEF OutputOK
<1>7. /\ joinQueue' \in [Aggs -> [Clients -> Seq(Tables)]]
      /\ joinQueue'[a][c] \in {<<>>, <<payload[a]>>}
      /\ out.delivered => joinQueue'[a][c] = <<payload[a]>>
      /\ \A b \in Aggs, d \in Clients : ~(b = a /\ d = c) => joinQueue'[b][d] = joinQueue[b][d]
  <2>1. joinQueue \in [Aggs -> [Clients -> Seq(Tables)]]
    BY <1>2 DEF TypeInv
  <2>2. CASE out.delivered
    <3> DEFINE q == Append(joinQueue[a][c], payload[a])
    <3>1. q \in Seq(Tables) /\ q = <<payload[a]>>
      BY <1>3, <1>6, AppendProperties
    <3>2. joinQueue' = [joinQueue EXCEPT ![a][c] = q]
      BY <1>1, <2>2
    <3> HIDE DEF q
    <3>3. /\ joinQueue' \in [Aggs -> [Clients -> Seq(Tables)]] /\ joinQueue'[a][c] = q
          /\ \A b \in Aggs, d \in Clients :
               ~(b = a /\ d = c) => joinQueue'[b][d] = joinQueue[b][d]
      BY <2>1, <3>1, <3>2, Updated2
    <3> QED
      BY <3>1, <3>3
  <2>3. CASE ~out.delivered
    BY <1>1, <1>6, <2>1, <2>3
  <2> QED
    BY <2>2, <2>3
<1>8. completed' = completed /\ coordQueue' = coordQueue /\ payload' = payload
  BY <1>1
\* What the two ways share: the parts of the invariant but for the output.
<1>9. /\ QueueInv' /\ EofInv' /\ CountInv' /\ TopInv' /\ Grows
      /\ inbox' \in [Aggs -> [Sums -> [Clients -> Seq(Messages)]]]
      /\ consumer' \in [Aggs -> {"down", "up", "lost"}]
      /\ finalizing' \in [Aggs -> SUBSET Clients]
      /\ eof' \in [Aggs -> SUBSET (Sums \X Clients)]
      /\ pc' \in [Aggs -> {"idle", "sendTop", "sendCoordination", "complete"}]
      /\ \A b \in Aggs : b # a => finalizing'[b] = finalizing[b] /\ pc'[b] = pc[b]
      /\ \A b \in Aggs : consumer[b] = "lost" => consumer'[b] = "lost"
      /\ \/ finalizing'[a] = {} /\ consumer'[a] = "lost"
         \/ ~out.raised /\ finalizing'[a] = {c} /\ pc'[a] = "sendCoordination"
  <2>1. CASE out.raised /\ Die(a, c)
    BY <1>1, <2>1, DieStep
  <2>2. CASE /\ ~out.raised /\ pc' = [pc EXCEPT ![a] = "sendCoordination"]
             /\ UNCHANGED <<eof, finalizing, consumer, inbox>>
    <3>1. /\ QueueInv' /\ EofInv' /\ CountInv' /\ TopInv' /\ Grows
          /\ pc' \in [Aggs -> {"idle", "sendTop", "sendCoordination", "complete"}]
          /\ pc'[a] = "sendCoordination" /\ \A b \in Aggs : b # a => pc'[b] = pc[b]
      BY <1>1, <2>2, GoesOn
    <3> QED
      BY <1>2, <1>3, <2>2, <3>1 DEF TypeInv
  <2> QED
    BY <1>1, <2>1, <2>2 DEF Proceeds
<1>10. TypeInv' /\ SumInv'
  BY <1>1, <1>2, <1>5, <1>7, <1>9 DEF TypeInv, SumInv
<1>11. OutputInv'
  <2>1. ASSUME NEW b \in Aggs, NEW d \in Clients, ~(b = a /\ d = c) PROVE OutputOK(b, d)'
    <3>1. OutputOK(b, d) /\ joinQueue'[b][d] = joinQueue[b][d]
      BY <1>2, <1>7, <2>1 DEF OutputInv
    <3>2. /\ d \in finalizing'[b] <=> d \in finalizing[b]
          /\ d \in finalizing[b] => pc'[b] = pc[b] /\ outLink'[b] = outLink[b]
      BY <1>3, <1>5, <1>9, <2>1
    <3> QED
      BY <1>8, <1>9, <3>1, <3>2, OutputKept
  <2>2. OutputOK(a, c)'
    <3>1. IsPartialTop(payload[a], a, c)'
      <4>1. \A top : IsPartialTop(top, a, c) => IsPartialTop(top, a, c)'
        BY <1>9, PartialTopStays
      <4> QED
        BY <1>3, <1>8, <4>1
    <3>2. joinQueue'[a][c] # <<>> =>
            Len(joinQueue'[a][c]) = 1 /\ joinQueue'[a][c][1] = payload[a]
      BY <1>7
    <3>3. joinQueue'[a][c] # <<>> => IsPartialTop(joinQueue[a][c][1], a, c)'
      BY <1>8, <3>1, <3>2
    <3>4. coordQueue'[a][c] = 0 /\ completed' = completed
      BY <1>6, <1>8
    <3>5. ~out.raised => joinQueue'[a][c] # <<>> \/ outLink'[a] = "broken"
      <4>1. ASSUME out.delivered PROVE joinQueue'[a][c] # <<>>
        <5>1. joinQueue'[a][c] = <<payload[a]>>
          BY <1>7, <4>1
        <5> QED
          BY <5>1
      <4>2. out.link = "broken" => outLink'[a] = "broken"
        BY <1>5
      <4> QED
        BY <1>4, <4>1, <4>2, Zenon
    <3> QED
      BY <1>9, <3>2, <3>3, <3>4, <3>5 DEF OutputOK
  <2>3. ASSUME NEW b \in Aggs, NEW d \in Clients PROVE OutputOK(b, d)'
    <3>1. CASE b = a /\ d = c
      BY <2>2, <3>1
    <3> QED
      BY <2>1, <3>1
  <2> QED
    BY <2>3 DEF OutputInv
<1> QED
  BY <1>9, <1>10, <1>11 DEF Invariant

\* The same for the signal.
LEMMA SendCoordinationStep ==
    ASSUME Invariant, NEW a \in Aggs, NEW s \in Sums, NEW c \in Clients, SendCoordination(a, s, c)
    PROVE  Invariant'
<1>1. PICK out \in SendOutcomes(coordLink[a]) :
         /\ pc[a] = "sendCoordination" /\ <<s, c>> \in eof[a]
         /\ coordLink' = [coordLink EXCEPT ![a] = out.link]
         /\ coordQueue' = IF out.delivered THEN [coordQueue EXCEPT ![a][c] = @ + 1]
                                           ELSE coordQueue
         /\ Proceeds(a, c, "complete", out.raised)
         /\ UNCHANGED <<sumVars, fruitTop, sumsReceived, receivedPartialSums, receivedEofs,
                        completed, payload, joinQueue, outLink, faults>>
  BY DEF SendCoordination
<1>2. TypeInv /\ SumInv /\ OutputInv
  BY DEF Invariant
<1>3. finalizing[a] = {c} /\ c \notin completed[a] /\ OutputOK(a, c)
  BY <1>1, InHand
<1>4. coordLink' \in [Aggs -> LinkStates]
  <2>1. coordLink[a] \in LinkStates /\ out.link \in LinkStates
    BY <1>2, SendOutcomesType DEF TypeInv
  <2> QED
    BY <1>1, <1>2, <2>1 DEF TypeInv
<1>5. /\ coordQueue' \in [Aggs -> [Clients -> Nat]]
      /\ \A b \in Aggs, d \in Clients : ~(b = a /\ d = c) => coordQueue'[b][d] = coordQueue[b][d]
  <2>1. coordQueue \in [Aggs -> [Clients -> Nat]]
    BY <1>2 DEF TypeInv
  <2>2. CASE out.delivered
    <3> DEFINE n == coordQueue[a][c] + 1
    <3>1. n \in Nat /\ coordQueue' = [coordQueue EXCEPT ![a][c] = n]
      BY <1>1, <2>1, <2>2
    <3> HIDE DEF n
    <3> QED
      BY <2>1, <3>1, Updated2
  <2>3. CASE ~out.delivered
    BY <1>1, <2>1, <2>3
  <2> QED
    BY <2>2, <2>3
<1>6. completed' = completed /\ joinQueue' = joinQueue /\ outLink' = outLink
  BY <1>1
<1>7. /\ QueueInv' /\ EofInv' /\ CountInv' /\ TopInv' /\ Grows
      /\ inbox' \in [Aggs -> [Sums -> [Clients -> Seq(Messages)]]]
      /\ consumer' \in [Aggs -> {"down", "up", "lost"}]
      /\ finalizing' \in [Aggs -> SUBSET Clients]
      /\ eof' \in [Aggs -> SUBSET (Sums \X Clients)]
      /\ pc' \in [Aggs -> {"idle", "sendTop", "sendCoordination", "complete"}]
      /\ \A b \in Aggs : b # a => finalizing'[b] = finalizing[b] /\ pc'[b] = pc[b]
      /\ \A b \in Aggs : consumer[b] = "lost" => consumer'[b] = "lost"
      /\ \/ finalizing'[a] = {} /\ consumer'[a] = "lost"
         \/ finalizing'[a] = {c} /\ pc'[a] = "complete"
  <2>1. CASE out.raised /\ Die(a, c)
    BY <1>1, <2>1, DieStep
  <2>2. CASE /\ ~out.raised /\ pc' = [pc EXCEPT ![a] = "complete"]
             /\ UNCHANGED <<eof, finalizing, consumer, inbox>>
    <3>1. /\ QueueInv' /\ EofInv' /\ CountInv' /\ TopInv' /\ Grows
          /\ pc' \in [Aggs -> {"idle", "sendTop", "sendCoordination", "complete"}]
          /\ pc'[a] = "complete" /\ \A b \in Aggs : b # a => pc'[b] = pc[b]
      BY <1>1, <2>2, GoesOn
    <3> QED
      BY <1>2, <1>3, <2>2, <3>1 DEF TypeInv
  <2> QED
    BY <1>1, <2>1, <2>2 DEF Proceeds
<1>8. TypeInv' /\ SumInv'
  BY <1>1, <1>2, <1>4, <1>5, <1>7 DEF TypeInv, SumInv
<1>9. OutputInv'
  <2>1. ASSUME NEW b \in Aggs, NEW d \in Clients, ~(b = a /\ d = c) PROVE OutputOK(b, d)'
    <3>1. OutputOK(b, d) /\ coordQueue'[b][d] = coordQueue[b][d]
      BY <1>2, <1>5, <2>1 DEF OutputInv
    <3>2. /\ d \in finalizing'[b] <=> d \in finalizing[b]
          /\ d \in finalizing[b] => pc'[b] = pc[b] /\ outLink'[b] = outLink[b]
      BY <1>3, <1>6, <1>7, <2>1
    <3> QED
      BY <1>6, <1>7, <3>1, <3>2, OutputKept
  <2>2. OutputOK(a, c)'
    <3>1. \A top : IsPartialTop(top, a, c) => IsPartialTop(top, a, c)'
      BY <1>7, PartialTopStays
    <3> QED
      BY <1>3, <1>6, <1>7, <3>1 DEF OutputOK
  <2>3. ASSUME NEW b \in Aggs, NEW d \in Clients PROVE OutputOK(b, d)'
    <3>1. CASE b = a /\ d = c
      BY <2>2, <3>1
    <3> QED
      BY <2>1, <3>1
  <2> QED
    BY <2>3 DEF OutputInv
<1> QED
  BY <1>7, <1>8, <1>9 DEF Invariant

\* The client is completed, and what was kept of it dropped.
LEMMA CompleteTopStep ==
    ASSUME Invariant, NEW a \in Aggs, NEW s \in Sums, NEW c \in Clients, CompleteTop(a, s, c)
    PROVE  Invariant'
<1>1. /\ pc[a] = "complete" /\ <<s, c>> \in eof[a]
      /\ finalizing' = [finalizing EXCEPT ![a] = @ \ {c}]
      /\ completed' = [completed EXCEPT ![a] = @ \cup {c}]
      /\ fruitTop' = [fruitTop EXCEPT ![a][c] = NoFruits]
      /\ sumsReceived' = [sumsReceived EXCEPT ![a][c] = 0]
      /\ receivedPartialSums' = [receivedPartialSums EXCEPT ![a][c] = {}]
      /\ receivedEofs' = [receivedEofs EXCEPT ![a][c] = {s}]
      /\ pc' = [pc EXCEPT ![a] = "idle"]
      /\ eof' = [eof EXCEPT ![a] = {}]
      /\ UNCHANGED <<sumVars, inbox, consumer, payload, outputVars, faults>>
  BY DEF CompleteTop, Discarded
<1>2. TypeInv /\ SumInv /\ QueueInv /\ TopInv /\ EofInv /\ CountInv /\ OutputInv
  BY DEF Invariant
<1>3. /\ inbox' = inbox /\ consumer' = consumer /\ first' = first /\ promised' = promised
      /\ joinQueue' = joinQueue /\ coordQueue' = coordQueue /\ outLink' = outLink
      /\ payload' = payload
  BY <1>1
<1>4. finalizing[a] = {c} /\ c \notin completed[a]
  BY <1>1, InHand
<1>5. /\ finalizing' \in [Aggs -> SUBSET Clients] /\ finalizing'[a] = {}
      /\ completed' \in [Aggs -> SUBSET Clients] /\ completed'[a] = completed[a] \cup {c}
      /\ eof' \in [Aggs -> SUBSET (Sums \X Clients)] /\ eof'[a] = {}
      /\ pc' \in [Aggs -> {"idle", "sendTop", "sendCoordination", "complete"}] /\ pc'[a] = "idle"
      /\ \A b \in Aggs : b # a => /\ finalizing'[b] = finalizing[b] /\ eof'[b] = eof[b]
                                  /\ pc'[b] = pc[b] /\ completed'[b] = completed[b]
  <2>1. /\ finalizing \in [Aggs -> SUBSET Clients] /\ eof \in [Aggs -> SUBSET (Sums \X Clients)]
        /\ pc \in [Aggs -> {"idle", "sendTop", "sendCoordination", "complete"}]
        /\ completed \in [Aggs -> SUBSET Clients]
    BY <1>2 DEF TypeInv
  <2>2. finalizing' = [finalizing EXCEPT ![a] = {}]
    BY <1>1, <1>4
  <2> QED
    BY <1>1, <2>1, <2>2
<1>6. /\ fruitTop' \in [Aggs -> [Clients -> Tables]] /\ fruitTop'[a][c] = NoFruits
      /\ \A b \in Aggs, d \in Clients : ~(b = a /\ d = c) => fruitTop'[b][d] = fruitTop[b][d]
  <2>1. fruitTop \in [Aggs -> [Clients -> Tables]] /\ NoFruits \in Tables
    BY <1>2, TablesAreTables DEF TypeInv, NoFruits, IsTable
  <2> QED
    BY <1>1, <2>1, Updated2
<1>7. /\ sumsReceived' \in [Aggs -> [Clients -> 0 .. SUM_AMOUNT]] /\ sumsReceived'[a][c] = 0
      /\ \A b \in Aggs, d \in Clients :
           ~(b = a /\ d = c) => sumsReceived'[b][d] = sumsReceived[b][d]
  <2>1. sumsReceived \in [Aggs -> [Clients -> 0 .. SUM_AMOUNT]] /\ 0 \in 0 .. SUM_AMOUNT
    BY <1>2, AggregationAssumption, FS_CardinalityType DEF TypeInv, SUM_AMOUNT
  <2> QED
    BY <1>1, <2>1, Updated2
<1>8. /\ receivedPartialSums' \in [Aggs -> [Clients -> SUBSET (Sums \X Fruits)]]
      /\ receivedPartialSums'[a][c] = {}
      /\ \A b \in Aggs, d \in Clients :
           ~(b = a /\ d = c) => receivedPartialSums'[b][d] = receivedPartialSums[b][d]
  <2>1. receivedPartialSums \in [Aggs -> [Clients -> SUBSET (Sums \X Fruits)]]
    BY <1>2 DEF TypeInv
  <2> QED
    BY <1>1, <2>1, Updated2
<1>9. /\ receivedEofs' \in [Aggs -> [Clients -> SUBSET Sums]]
      /\ \A b \in Aggs, d \in Clients :
           ~(b = a /\ d = c) => receivedEofs'[b][d] = receivedEofs[b][d]
  <2>1. receivedEofs \in [Aggs -> [Clients -> SUBSET Sums]]
    BY <1>2 DEF TypeInv
  <2> QED
    BY <1>1, <2>1, Updated2
<1>10. TypeInv' /\ SumInv'
  BY <1>1, <1>2, <1>5, <1>6, <1>7, <1>8, <1>9 DEF TypeInv, SumInv
<1>11. Grows
  BY <1>3, Frames
<1>12. /\ \A b, r, d : FruitsQueued(b, r, d)' = FruitsQueued(b, r, d)
       /\ \A r \in Sums : Taken(a, r, c)' = {}
       /\ \A b \in Aggs, r \in Sums, d \in Clients :
            ~(b = a /\ d = c) => Taken(b, r, d)' = Taken(b, r, d)
       /\ \A b \in Aggs, d \in Clients :
            ~(b = a /\ d = c) => (d \in completed'[b] <=> d \in completed[b])
  <2>1. \A b, r, d : FruitsQueued(b, r, d)' = FruitsQueued(b, r, d)
    BY <1>3, Zenon DEF FruitsQueued
  <2> QED
    BY <1>5, <1>8, <2>1 DEF Taken
<1>13. QueueInv'
  <2>1. ASSUME NEW b \in Aggs, NEW r \in Sums, NEW d \in Clients PROVE QueueOK(b, r, d)'
    <3>1. QueueOK(b, r, d)
      BY <1>2 DEF QueueInv
    <3>2. CASE b = a /\ d = c
      <4>1. c \in completed'[a]
        BY <1>5
      <4> QED
        BY <1>3, <1>12, <3>1, <3>2, <4>1 DEF QueueOK
    <3>3. CASE ~(b = a /\ d = c)
      BY <1>3, <1>12, <3>1, <3>3, QueueKept
    <3> QED
      BY <3>2, <3>3
  <2> QED
    BY <2>1 DEF QueueInv
<1>14. TopInv'
  <2>1. ASSUME NEW b \in Aggs, NEW d \in Clients
        PROVE  /\ \A r \in Sums : Taken(b, r, d)' \subseteq FruitsQueued(b, r, d)
               /\ d \notin completed'[b] => fruitTop'[b][d] = MergeOf(TakenTables(b, d)')
               /\ d \in completed'[b] => fruitTop'[b][d] = NoFruits
    <3>1. CASE b = a /\ d = c
      BY <1>5, <1>6, <1>12, <3>1
    <3>2. CASE ~(b = a /\ d = c)
      <4>1. TakenTables(b, d)' = TakenTables(b, d)
        BY <1>3, <1>12, <3>2 DEF TakenTables
      <4>2. /\ \A r \in Sums : Taken(b, r, d) \subseteq FruitsQueued(b, r, d)
            /\ d \notin completed[b] => fruitTop[b][d] = MergeOf(TakenTables(b, d))
            /\ d \in completed[b] => fruitTop[b][d] = NoFruits
        BY <1>2 DEF TopInv
      <4>3. fruitTop'[b][d] = fruitTop[b][d] /\ (d \in completed'[b] <=> d \in completed[b])
            /\ \A r \in Sums : Taken(b, r, d)' = Taken(b, r, d)
        BY <1>6, <1>12, <3>2
      <4> QED
        BY <4>1, <4>2, <4>3
    <3> QED
      BY <3>1, <3>2
  <2> QED
    BY <1>12, <2>1 DEF TopInv
<1>15. EofInv'
  <2>1. ASSUME NEW b \in Aggs, NEW r \in Sums, NEW d \in Clients, d \notin completed'[b],
               r \in receivedEofs'[b][d] \/ <<r, d>> \in eof'[b]
        PROVE  promised[b][r][d] # {} /\ UNION promised[b][r][d] \subseteq Taken(b, r, d)'
    <3>1. ~(b = a /\ d = c)
      BY <1>5, <2>1
    <3>2. /\ r \in receivedEofs[b][d] \/ <<r, d>> \in eof[b]
          /\ d \notin completed[b] /\ Taken(b, r, d)' = Taken(b, r, d)
      BY <1>5, <1>9, <1>12, <2>1, <3>1
    <3> QED
      BY <1>2, <3>2 DEF EofInv
  <2>2. ASSUME NEW b \in Aggs
        PROVE  /\ pc'[b] = "idle" <=> eof'[b] = {}
               /\ \A d, e \in eof'[b] : d = e
               /\ \A d \in Clients : d \in finalizing'[b] <=> \E r \in Sums : <<r, d>> \in eof'[b]
               /\ \A r \in Sums, d \in Clients : <<r, d>> \in eof'[b] =>
                    /\ d \notin completed'[b]
                    /\ \A other \in Sums : other = r \/ other \in receivedEofs'[b][d]
                    /\ payload[b] = TopOf(fruitTop'[b][d])
    <3>1. CASE b = a
      BY <1>5, <3>1
    <3>2. CASE b # a
      <4>1. /\ pc[b] = "idle" <=> eof[b] = {}
            /\ \A d, e \in eof[b] : d = e
            /\ \A d \in Clients : d \in finalizing[b] <=> \E r \in Sums : <<r, d>> \in eof[b]
            /\ \A r \in Sums, d \in Clients : <<r, d>> \in eof[b] =>
                 /\ d \notin completed[b]
                 /\ \A other \in Sums : other = r \/ other \in receivedEofs[b][d]
                 /\ payload[b] = TopOf(fruitTop[b][d])
        BY <1>2 DEF EofInv
      <4>2. /\ pc'[b] = pc[b] /\ eof'[b] = eof[b] /\ finalizing'[b] = finalizing[b]
            /\ completed'[b] = completed[b]
            /\ \A d \in Clients : /\ receivedEofs'[b][d] = receivedEofs[b][d]
                                  /\ fruitTop'[b][d] = fruitTop[b][d]
        BY <1>5, <1>6, <1>9, <3>2
      <4> QED
        BY <4>1, <4>2
    <3> QED
      BY <3>1, <3>2
  <2> QED
    BY <1>3, <2>1, <2>2 DEF EofInv
<1>16. CountInv'
  <2>1. ASSUME NEW b \in Aggs, NEW d \in Clients
        PROVE  /\ d \in completed'[b] => sumsReceived'[b][d] = 0
               /\ d \notin completed'[b] /\ d \notin finalizing'[b] /\ consumer[b] # "lost" =>
                    sumsReceived'[b][d] = Cardinality(receivedEofs'[b][d])
    <3>1. CASE b = a /\ d = c
      BY <1>5, <1>7, <3>1
    <3>2. CASE ~(b = a /\ d = c)
      <4>1. d \in finalizing'[b] <=> d \in finalizing[b]
        BY <1>4, <1>5, <3>2
      <4> QED
        BY <1>2, <1>7, <1>9, <1>12, <3>2, <4>1 DEF CountInv
    <3> QED
      BY <3>1, <3>2
  <2> QED
    BY <1>3, <2>1 DEF CountInv
<1>17. OutputInv'
  <2>1. ASSUME NEW b \in Aggs, NEW d \in Clients PROVE OutputOK(b, d)'
    <3>1. OutputOK(b, d)
      BY <1>2 DEF OutputInv
    <3>2. CASE b = a /\ d = c
      <4>1. \A top : IsPartialTop(top, a, c) => IsPartialTop(top, a, c)'
        BY <1>11, PartialTopStays
      <4>2. c \in completed'[a] /\ c \notin finalizing'[a]
        BY <1>5
      <4> QED
        BY <1>3, <3>1, <3>2, <4>1, <4>2 DEF OutputOK
    <3>3. CASE ~(b = a /\ d = c)
      <4>1. /\ d \in finalizing'[b] <=> d \in finalizing[b]
            /\ d \in finalizing[b] => pc'[b] = pc[b] /\ outLink'[b] = outLink[b]
        BY <1>3, <1>4, <1>5, <3>3
      <4> QED
        BY <1>3, <1>11, <1>12, <3>1, <3>3, <4>1, OutputKept
    <3> QED
      BY <3>2, <3>3
  <2> QED
    BY <2>1 DEF OutputInv
<1> QED
  BY <1>10, <1>13, <1>14, <1>15, <1>16, <1>17 DEF Invariant

-----------------------------------------------------------------------------
(* Failures.                                                               *)

\* The queue of an aggregation is lost.
LEMMA LoseConsumerStep ==
    ASSUME Invariant, NEW a \in Aggs, LoseConsumer(a)
    PROVE  Invariant'
<1>1. /\ inbox' = [inbox EXCEPT ![a] = [s \in Sums |-> [c \in Clients |-> <<>>]]]
      /\ consumer' = [consumer EXCEPT ![a] = "lost"] /\ faults' = faults + 1
      /\ UNCHANGED <<sumVars, pc, eof, clientVars, payload, outputVars>>
  BY DEF LoseConsumer
<1>2. TypeInv /\ SumInv /\ QueueInv /\ TopInv /\ EofInv /\ CountInv /\ OutputInv
  BY DEF Invariant
<1>3. /\ first' = first /\ promised' = promised /\ completed' = completed
      /\ receivedPartialSums' = receivedPartialSums
  BY <1>1
<1>4. /\ QueueInv' /\ inbox' \in [Aggs -> [Sums -> [Clients -> Seq(Messages)]]]
      /\ consumer' \in [Aggs -> {"down", "up", "lost"}] /\ consumer'[a] = "lost"
      /\ \A b \in Aggs : b # a => consumer'[b] = consumer[b]
  BY <1>1, <1>2, <1>3, Emptied
<1>5. TopInv' /\ EofInv' /\ Grows
  BY <1>1, <1>2, Frames
<1>6. TypeInv' /\ SumInv'
  <2>1. faults' \in Nat
    BY <1>1, <1>2 DEF TypeInv
  <2> QED
    BY <1>1, <1>2, <1>4, <2>1 DEF TypeInv, SumInv
<1>7. CountInv'
  BY <1>1, <1>2, <1>4 DEF CountInv
<1>8. OutputInv'
  BY <1>1, <1>2, <1>4, <1>5, OutputKept DEF OutputInv
<1> QED
  BY <1>4, <1>5, <1>6, <1>7, <1>8 DEF Invariant

\* A connection to the join breaks.
LEMMA BreakStep ==
    ASSUME Invariant, NEW a \in Aggs, BreakOutput(a) \/ BreakCoordination(a)
    PROVE  Invariant'
<1>1. /\ faults' = faults + 1
      /\ outLink' = [outLink EXCEPT ![a] = "broken"] \/ outLink' = outLink
      /\ coordLink' = [coordLink EXCEPT ![a] = "broken"] \/ coordLink' = coordLink
      /\ UNCHANGED <<sumVars, inbox, consumer, pc, eof, clientVars, payload, joinQueue, coordQueue>>
  BY DEF BreakOutput, BreakCoordination
<1>2. TypeInv /\ SumInv /\ QueueInv /\ TopInv /\ EofInv /\ CountInv /\ OutputInv
  BY DEF Invariant
<1>3. /\ outLink' \in [Aggs -> LinkStates] /\ coordLink' \in [Aggs -> LinkStates]
      /\ \A b \in Aggs : outLink'[b] = outLink[b] \/ outLink'[b] = "broken"
  BY <1>1, <1>2 DEF TypeInv, LinkStates
<1>4. QueueInv' /\ TopInv' /\ EofInv' /\ CountInv' /\ Grows
  BY <1>1, <1>2, Frames
<1>5. TypeInv' /\ SumInv'
  <2>1. faults' \in Nat
    BY <1>1, <1>2 DEF TypeInv
  <2> QED
    BY <1>1, <1>2, <1>3, <2>1 DEF TypeInv, SumInv
<1>6. ASSUME NEW b \in Aggs, NEW d \in Clients PROVE OutputOK(b, d)'
  <2>1. \A top : IsPartialTop(top, b, d) => IsPartialTop(top, b, d)'
    BY <1>4, PartialTopStays
  <2>2. OutputOK(b, d)
    BY <1>2 DEF OutputInv
  <2>3. /\ joinQueue' = joinQueue /\ coordQueue' = coordQueue /\ completed' = completed
        /\ finalizing' = finalizing /\ pc' = pc /\ consumer' = consumer
    BY <1>1
  <2> QED
    BY <1>3, <2>1, <2>2, <2>3 DEF OutputOK
<1> QED
  BY <1>4, <1>5, <1>6 DEF Invariant, OutputInv

-----------------------------------------------------------------------------
(* The invariant holds.                                                    *)

\* No queue holds anything, and nothing was taken.
LEMMA InitIsRight == Init => Invariant
<1> SUFFICES ASSUME Init PROVE Invariant
  OBVIOUS
<1> USE DEF Init, AggInit
<1>1. TypeInv
  <2>1. SUM_AMOUNT \in Nat
    BY AggregationAssumption, FS_CardinalityType DEF SUM_AMOUNT
  <2>2. NoFruits \in Tables
    BY TablesAreTables DEF NoFruits, IsTable
  <2>3. \A s \in Sums, c \in Clients : IsTable(offered[s][c]) /\ DOMAIN offered[s][c] \subseteq Fruits
    BY AggregationAssumption DEF IsTable
  <2>4. offered \in [Sums -> [Clients -> Tables]]
    <3>1. offered = [s \in Sums |-> [c \in Clients |-> Uploaded[s][c]]]
      BY AggregationAssumption
    <3> QED
      BY <2>3, <3>1, TablesAreTables
  <2> QED
    BY <2>1, <2>2, <2>3, <2>4, AggregationAssumption DEF TypeInv, LinkStates
<1>2. SumInv
  BY DEF SumInv
<1>3. \A s \in Sums, c \in Clients : first[s][c] = NoFruits /\ DOMAIN first[s][c] = {}
  BY DEF NoFruits
<1>4. ASSUME NEW a \in Aggs, NEW s \in Sums, NEW c \in Clients
      PROVE  Taken(a, s, c) = {} /\ FruitsQueued(a, s, c) = {}
  BY <1>3 DEF Taken, FruitsQueued
<1>5. QueueInv
  <2>1. ASSUME NEW a \in Aggs, NEW s \in Sums, NEW c \in Clients PROVE QueueOK(a, s, c)
    <3>1. /\ inbox[a][s][c] = <<>> /\ DOMAIN inbox[a][s][c] = {} /\ promised[a][s][c] = {}
      OBVIOUS
    <3>2. /\ FirstIsRight(inbox[a][s][c], {}, first[s][c])
          /\ \A S : EofAfter(inbox[a][s][c], {}, S)
          /\ Covers(inbox[a][s][c], {}, {})
      BY <3>1 DEF FirstIsRight, EofAfter, Covers
    <3> QED
      BY <1>4, <3>1, <3>2 DEF QueueOK
  <2> QED
    BY <2>1 DEF QueueInv
<1>6. TopInv
  <2>1. ASSUME NEW a \in Aggs, NEW c \in Clients
        PROVE  fruitTop[a][c] = MergeOf(TakenTables(a, c)) /\ c \notin completed[a]
    <3>1. \A s \in DOMAIN TakenTables(a, c) : DOMAIN TakenTables(a, c)[s] = {}
      BY <1>4 DEF TakenTables, Restricted
    <3>2. MergeOf(TakenTables(a, c)) = NoFruits
      BY <3>1, MergeOfNothing
    <3> QED
      BY <3>2
  <2> QED
    BY <1>4, <2>1 DEF TopInv
<1>7. EofInv
  BY DEF EofInv
<1>8. CountInv
  BY FS_EmptySet DEF CountInv
<1>9. OutputInv
  BY DEF OutputInv, OutputOK
<1> QED
  BY <1>1, <1>2, <1>5, <1>6, <1>7, <1>8, <1>9 DEF Invariant

\* Every step keeps it.
LEMMA StepIsRight == Invariant /\ [Next]_vars => Invariant'
<1> SUFFICES ASSUME Invariant, [Next]_vars PROVE Invariant'
  OBVIOUS
<1>1. ASSUME NEW s \in Sums, NEW c \in Clients, SumStep(s, c) PROVE Invariant'
  <2>1. ASSUME SumSendsEof(s, c) PROVE Invariant'
    <3>1. nextAgg[s][c] \in Aggs
      BY <2>1 DEF SumSendsEof
    <3> QED
      BY <2>1, <3>1, SumSendsEofStep
  <2> QED
    BY <1>1, <2>1, SumSendsFruitStep, SumStartsAgainStep DEF SumStep
<1>2. ASSUME NEW a \in Aggs, AggStep(a) PROVE Invariant'
  <2>1. ASSUME Consume(a) PROVE Invariant'
    BY <2>1, ReceivePartialSumStep, SkipEofStep, CountEofStep, BeginTopStep, SendPartialTopStep,
       SendCoordinationStep, CompleteTopStep DEF Consume
  <2> QED
    BY <1>2, <2>1, StartStep, LoseConsumerStep, BreakStep DEF AggStep
<1>3. ASSUME UNCHANGED vars PROVE Invariant'
  <2>1. UNCHANGED sumVars /\ UNCHANGED clientVars /\ UNCHANGED outputVars
        /\ UNCHANGED <<inbox, consumer, pc, eof, payload, faults>>
    BY <1>3 DEF vars
  <2>2. TypeInv /\ SumInv /\ QueueInv /\ TopInv /\ EofInv /\ CountInv /\ OutputInv
    BY DEF Invariant
  <2>3. TypeInv' /\ SumInv'
    BY <2>1, <2>2 DEF TypeInv, SumInv
  <2>4. QueueInv' /\ TopInv' /\ EofInv' /\ CountInv' /\ Grows
    BY <2>1, <2>2, Frames
  <2>5. OutputInv'
    BY <2>1, <2>2, <2>4, OutputFrame
  <2> QED
    BY <2>3, <2>4, <2>5 DEF Invariant
<1> QED
  BY <1>1, <1>2, <1>3 DEF Next

LEMMA AlwaysRight == Spec => []Invariant
BY InitIsRight, StepIsRight, PTL DEF Spec

\* Every variable keeps to its domain, with the failures and the resends of the Sums: the
\* count of EOFs never passes the number of Sums, and a client is being finalized exactly
\* while its EOF is in hand (main.py:80-134).
THEOREM TypeCorrect == Spec => []TypeOK
<1>1. Invariant => TypeOK
  <2> SUFFICES ASSUME Invariant PROVE TypeOK
    OBVIOUS
  <2>1. TypeInv /\ EofInv
    BY DEF Invariant
  <2>2. /\ \A s \in Sums, c \in Clients : IsTable(offered[s][c]) /\ IsTable(first[s][c])
        /\ \A a \in Aggs, c \in Clients : IsTable(fruitTop[a][c])
        /\ \A a \in Aggs : IsTable(payload[a])
    BY <2>1, TablesAreTables DEF TypeInv
  <2>3. \A a \in Aggs, c \in Clients :
          \A i \in DOMAIN joinQueue[a][c] : IsTable(joinQueue[a][c][i])
    BY <2>1, TablesAreTables DEF TypeInv
  <2>4. ASSUME NEW a \in Aggs
        PROVE  /\ pc[a] = "idle" <=> eof[a] = {}
               /\ finalizing[a] = {e[2] : e \in eof[a]}
    <3>1. pc[a] = "idle" <=> eof[a] = {}
      BY <2>1 DEF EofInv
    <3>2. finalizing[a] \subseteq Clients /\ eof[a] \subseteq Sums \X Clients
      BY <2>1 DEF TypeInv
    <3>3. \A d \in Clients : d \in finalizing[a] <=> \E s \in Sums : <<s, d>> \in eof[a]
      BY <2>1 DEF EofInv
    <3>4. \A e \in eof[a] : e[2] \in Clients /\ \E s \in Sums : e = <<s, e[2]>>
      BY <3>2
    <3>5. \A d : d \in finalizing[a] <=> \E e \in eof[a] : d = e[2]
      <4>1. ASSUME NEW d \in finalizing[a] PROVE \E e \in eof[a] : d = e[2]
        <5>1. PICK s \in Sums : <<s, d>> \in eof[a]
          BY <3>2, <3>3
        <5> QED
          BY <5>1
      <4>2. ASSUME NEW e \in eof[a] PROVE e[2] \in finalizing[a]
        BY <3>3, <3>4
      <4> QED
        BY <4>1, <4>2
    <3> QED
      BY <3>1, <3>5
  <2> QED
    BY <2>1, <2>2, <2>3, <2>4 DEF TypeOK, TypeInv
<1> QED
  BY <1>1, AlwaysRight, PTL

\* The partial top of an aggregation is one, is of what came to its queue with the amounts
\* first queued, and has all that any Sum promised, whatever is sent twice and whatever
\* fails (main.py:52-66, 80-126).
THEOREM TopIsRight == Spec => []TopIsExact
<1>1. Invariant => TopIsExact
  <2> SUFFICES ASSUME Invariant, NEW a \in Aggs, NEW c \in Clients
               PROVE  /\ Len(joinQueue[a][c]) <= 1
                      /\ \A i \in DOMAIN joinQueue[a][c] : IsPartialTop(joinQueue[a][c][i], a, c)
    BY Zenon DEF TopIsExact, IsPartialTop
  <2>1. OutputOK(a, c) /\ joinQueue[a][c] \in Seq(Tables)
    BY DEF Invariant, OutputInv, TypeInv
  <2>2. CASE joinQueue[a][c] = <<>>
    BY <2>2
  <2>3. CASE joinQueue[a][c] # <<>>
    <3>1. Len(joinQueue[a][c]) = 1 /\ IsPartialTop(joinQueue[a][c][1], a, c)
      BY <2>1, <2>3 DEF OutputOK
    <3>2. DOMAIN joinQueue[a][c] = {1}
      BY <2>1, <3>1
    <3> QED
      BY <3>1, <3>2
  <2> QED
    BY <2>2, <2>3
<1> QED
  BY <1>1, AlwaysRight, PTL

\* What a step does to the join's queues: only the aggregation that has the client in hand
\* sends to them, at its own point of _send_top.
LEMMA WhoSends ==
    ASSUME Invariant, [Next]_vars, NEW a \in Aggs, NEW c \in Clients
    PROVE  /\ joinQueue'[a][c] = joinQueue[a][c] \/ c \in finalizing[a]
           /\ \/ coordQueue'[a][c] = coordQueue[a][c]
              \/ c \in finalizing[a] /\ pc[a] = "sendCoordination"
           /\ c \in completed[a] => c \in completed'[a]
<1>1. TypeInv /\ EofInv
  BY DEF Invariant
<1>2. ASSUME UNCHANGED <<joinQueue, coordQueue, completed>>
      PROVE  /\ joinQueue'[a][c] = joinQueue[a][c] /\ coordQueue'[a][c] = coordQueue[a][c]
             /\ c \in completed[a] => c \in completed'[a]
  BY <1>2
<1>3. ASSUME NEW b \in Aggs, NEW s \in Sums, NEW d \in Clients, SendPartialTop(b, s, d)
      PROVE  /\ joinQueue'[a][c] = joinQueue[a][c] \/ c \in finalizing[a]
             /\ coordQueue' = coordQueue /\ completed' = completed
  <2>1. /\ <<s, d>> \in eof[b] /\ coordQueue' = coordQueue /\ completed' = completed
        /\ joinQueue' = joinQueue \/ \E v : joinQueue' = [joinQueue EXCEPT ![b][d] = v]
    BY <1>3 DEF SendPartialTop
  <2>2. d \in finalizing[b]
    BY <1>1, <2>1 DEF EofInv
  <2>3. joinQueue'[a][c] = joinQueue[a][c] \/ (b = a /\ d = c)
    <3>1. joinQueue \in [Aggs -> [Clients -> Seq(Tables)]]
      BY <1>1 DEF TypeInv
    <3>2. ASSUME NEW v, joinQueue' = [joinQueue EXCEPT ![b][d] = v], ~(b = a /\ d = c)
          PROVE  joinQueue'[a][c] = joinQueue[a][c]
      BY <3>1, <3>2
    <3> QED
      BY <2>1, <3>2
  <2> QED
    BY <2>1, <2>2, <2>3
<1>4. ASSUME NEW b \in Aggs, NEW s \in Sums, NEW d \in Clients, SendCoordination(b, s, d)
      PROVE  /\ \/ coordQueue'[a][c] = coordQueue[a][c]
                \/ c \in finalizing[a] /\ pc[a] = "sendCoordination"
             /\ joinQueue' = joinQueue /\ completed' = completed
  <2>1. /\ <<s, d>> \in eof[b] /\ joinQueue' = joinQueue /\ completed' = completed
        /\ pc[b] = "sendCoordination"
        /\ coordQueue' = coordQueue \/ \E v : coordQueue' = [coordQueue EXCEPT ![b][d] = v]
    BY <1>4 DEF SendCoordination
  <2>2. d \in finalizing[b]
    BY <1>1, <2>1 DEF EofInv
  <2>3. coordQueue'[a][c] = coordQueue[a][c] \/ (b = a /\ d = c)
    <3>1. coordQueue \in [Aggs -> [Clients -> Nat]]
      BY <1>1 DEF TypeInv
    <3>2. ASSUME NEW v, coordQueue' = [coordQueue EXCEPT ![b][d] = v], ~(b = a /\ d = c)
          PROVE  coordQueue'[a][c] = coordQueue[a][c]
      BY <3>1, <3>2
    <3> QED
      BY <2>1, <3>2
  <2> QED
    BY <2>1, <2>2, <2>3
<1>5. ASSUME NEW b \in Aggs, NEW s \in Sums, NEW d \in Clients, CompleteTop(b, s, d)
      PROVE  joinQueue' = joinQueue /\ coordQueue' = coordQueue
             /\ (c \in completed[a] => c \in completed'[a])
  BY <1>1, <1>5 DEF CompleteTop, TypeInv
<1>6. ASSUME NEW s \in Sums, NEW d \in Clients, SumStep(s, d)
      PROVE  UNCHANGED <<joinQueue, coordQueue, completed>>
  BY <1>6 DEF SumStep, SumSendsFruit, SumSendsEof, SumStartsAgain
<1>7. ASSUME NEW b \in Aggs, Start(b) \/ LoseConsumer(b) \/ BreakOutput(b) \/ BreakCoordination(b)
      PROVE  UNCHANGED <<joinQueue, coordQueue, completed>>
  BY <1>7 DEF Start, LoseConsumer, BreakOutput, BreakCoordination
<1>8. ASSUME NEW b \in Aggs, NEW s \in Sums, NEW d \in Clients,
             \/ ReceivePartialSum(b, s, d) \/ SkipEof(b, s, d)
             \/ CountEof(b, s, d) \/ BeginTop(b, s, d)
      PROVE  UNCHANGED <<joinQueue, coordQueue, completed>>
  BY <1>8 DEF ReceivePartialSum, SkipEof, CountEof, BeginTop
<1>9. ASSUME UNCHANGED vars PROVE UNCHANGED <<joinQueue, coordQueue, completed>>
  BY <1>9 DEF vars
<1>10. ASSUME NEW b \in Aggs, AggStep(b)
       PROVE  /\ joinQueue'[a][c] = joinQueue[a][c] \/ c \in finalizing[a]
              /\ \/ coordQueue'[a][c] = coordQueue[a][c]
                 \/ c \in finalizing[a] /\ pc[a] = "sendCoordination"
              /\ c \in completed[a] => c \in completed'[a]
  <2>1. CASE Consume(b)
    <3>1. PICK s \in Sums, d \in Clients :
            \/ ReceivePartialSum(b, s, d) \/ SkipEof(b, s, d) \/ CountEof(b, s, d)
            \/ BeginTop(b, s, d) \/ SendPartialTop(b, s, d) \/ SendCoordination(b, s, d)
            \/ CompleteTop(b, s, d)
      BY <2>1, Zenon DEF Consume
    <3> QED
      BY <1>2, <1>3, <1>4, <1>5, <1>8, <3>1
  <2> QED
    BY <1>2, <1>7, <1>10, <2>1 DEF AggStep
<1> QED
  BY <1>2, <1>6, <1>9, <1>10 DEF Next

\* An aggregation signals a client once, and with its partial top in the join's queue or
\* lost on a connection that swallows what it is given (main.py:113-126).
THEOREM SignalAfterTop == Spec => SignalFollowsTop
<1>1. ASSUME Invariant, [Next]_vars, NEW a \in Aggs, NEW c \in Clients,
             coordQueue'[a][c] # coordQueue[a][c]
      PROVE  /\ coordQueue[a][c] = 0
             /\ joinQueue[a][c] # <<>> \/ outLink[a] = "broken"
  <2>1. c \in finalizing[a] /\ pc[a] = "sendCoordination"
    BY <1>1, WhoSends
  <2>2. c \notin completed[a] /\ OutputOK(a, c)
    BY <1>1, <2>1 DEF Invariant, EofInv, OutputInv
  <2> QED
    BY <2>1, <2>2 DEF OutputOK
<1>2. Invariant /\ [Next]_vars =>
        [\A a \in Aggs, c \in Clients : coordQueue'[a][c] # coordQueue[a][c] =>
           /\ coordQueue[a][c] = 0
           /\ joinQueue[a][c] # <<>> \/ outLink[a] = "broken"]_vars
  BY <1>1
<1> QED
  BY <1>2, AlwaysRight, PTL DEF SignalFollowsTop, Spec

\* What the Sums send again of a completed client starts nothing (main.py:56, 82, 102).
THEOREM CompletedStaysFinal == Spec => CompletedIsFinal
<1>1. ASSUME Invariant, [Next]_vars, NEW a \in Aggs, NEW c \in completed[a]
      PROVE  /\ c \in completed'[a]
             /\ fruitTop'[a][c] = NoFruits /\ sumsReceived'[a][c] = 0
             /\ joinQueue'[a][c] = joinQueue[a][c]
             /\ coordQueue'[a][c] = coordQueue[a][c]
  <2>1. c \in Clients
    BY <1>1 DEF Invariant, TypeInv
  <2>2. c \notin finalizing[a]
    BY <1>1, <2>1 DEF Invariant, EofInv
  <2>3. /\ c \in completed'[a] /\ joinQueue'[a][c] = joinQueue[a][c]
        /\ coordQueue'[a][c] = coordQueue[a][c]
    BY <1>1, <2>1, <2>2, WhoSends
  <2>4. TopInv' /\ CountInv'
    BY <1>1, StepIsRight DEF Invariant
  <2>5. fruitTop'[a][c] = NoFruits /\ sumsReceived'[a][c] = 0
    BY <2>1, <2>3, <2>4 DEF TopInv, CountInv
  <2> QED
    BY <2>3, <2>5
<1>2. Invariant /\ [Next]_vars =>
        [\A a \in Aggs : \A c \in completed[a] :
           /\ c \in completed'[a]
           /\ fruitTop'[a][c] = NoFruits /\ sumsReceived'[a][c] = 0
           /\ joinQueue'[a][c] = joinQueue[a][c]
           /\ coordQueue'[a][c] = coordQueue[a][c]]_vars
  BY <1>1
<1> QED
  BY <1>2, AlwaysRight, PTL DEF CompletedIsFinal, Spec

=============================================================================
