---------------------------- MODULE Pipeline_proofs ----------------------------
(***************************************************************************)
(* The Sums, the aggregations and the join together, for any number of     *)
(* each, of clients and of records.  The Sums of Pipeline are those of     *)
(* SumFilter without failures, so their invariants hold here as they are.  *)
(* The aggregations keep the invariant of AggregationFilter, when a        *)
(* finalizing thread of a Sum is put for the Sum it was reduced to there.  *)
(* What is said here besides is where a partial top is between the         *)
(* aggregation that sends it and the answer.                               *)
(***************************************************************************)
EXTENDS Pipeline, FruitTop_proofs

-----------------------------------------------------------------------------
(* Sums of the amounts of records.                                         *)

\* The sum over a part of the terms.
Over(v, X) == SumFunction(Restrict(v, X))

\* What a sum over a part is, term by term.
LEMMA PartSum ==
    ASSUME NEW I, IsFiniteSet(I), NEW v \in [I -> Nat], NEW X \in SUBSET I
    PROVE  /\ Over(v, X) \in Nat
           /\ X = {} => Over(v, X) = 0
           /\ \A x \in X : Over(v, X) = v[x] + Over(v, X \ {x})
<1> DEFINE w == Restrict(v, X)
<1>1. w \in [X -> Nat] /\ IsFiniteSet(X) /\ \A x \in X : w[x] = v[x]
  BY FS_Subset DEF Restrict
<1>2. ASSUME NEW x \in X PROVE Restrict(w, X \ {x}) = Restrict(v, X \ {x})
  BY DEF Restrict
<1> HIDE DEF w
<1>3. /\ SumFunction(w) \in Nat /\ (X = {} => SumFunction(w) = 0)
      /\ \A x \in X : SumFunction(w) = w[x] + SumFunction(Restrict(w, X \ {x}))
  BY <1>1, SumOfNumbers
<1> QED
  BY <1>1, <1>2, <1>3 DEF w, Over

\* A sum over two parts that have nothing in common.
LEMMA SumOfParts ==
    ASSUME NEW I, IsFiniteSet(I), NEW v \in [I -> Nat], NEW A \in SUBSET I, NEW B \in SUBSET I,
           A \cap B = {}
    PROVE  Over(v, A \cup B) = Over(v, A) + Over(v, B)
<1> DEFINE Wrong == {T \in SUBSET A : Over(v, T \cup B) # Over(v, T) + Over(v, B)}
<1> SUFFICES ASSUME Wrong # {} PROVE FALSE
  BY Zenon
<1>1. PICK T \in Wrong : \A U \in Wrong : U \subseteq T => U = T
  <2>1. Wrong \in SUBSET (SUBSET A) /\ IsFiniteSet(A)
    BY FS_Subset
  <2> HIDE DEF Wrong
  <2> QED
    BY <2>1, SmallestSubset
<1>2. /\ T \in SUBSET I /\ T \cup B \in SUBSET I
      /\ Over(v, T) \in Nat /\ Over(v, B) \in Nat /\ Over(v, T \cup B) \in Nat
  BY PartSum
<1>3. T # {}
  <2> SUFFICES ASSUME T = {} PROVE FALSE
    OBVIOUS
  <2>1. Over(v, T) = 0 /\ T \cup B = B
    BY PartSum
  <2> QED
    BY <1>1, <1>2, <2>1
<1>4. PICK x \in T : TRUE
  BY <1>3
<1> DEFINE U == T \ {x}
<1>5. Over(v, U \cup B) = Over(v, U) + Over(v, B)
  BY <1>1, <1>4
<1>6. Over(v, T) = v[x] + Over(v, U)
  BY <1>2, <1>4, PartSum
<1>7. Over(v, T \cup B) = v[x] + Over(v, U \cup B)
  <2>1. (T \cup B) \ {x} = U \cup B
    BY <1>4
  <2> QED
    BY <1>2, <1>4, <2>1, PartSum
<1>8. v[x] \in Nat /\ Over(v, U) \in Nat /\ Over(v, T) + Over(v, B) # Over(v, T \cup B)
  BY <1>1, <1>2, <1>4, PartSum
<1> HIDE DEF U
<1> QED
  BY <1>2, <1>5, <1>6, <1>7, <1>8

\* The same for any two parts.
LEMMA SumOfTwo ==
    ASSUME NEW I, IsFiniteSet(I), NEW v \in [I -> Nat]
    PROVE  \A A \in SUBSET I : \A B \in SUBSET I :
              A \cap B = {} => Over(v, A \cup B) = Over(v, A) + Over(v, B)
BY SumOfParts

\* A sum whose terms are counted once or not at all is a sum over those that are.
LEMMA CountedOrNot ==
    ASSUME NEW I, IsFiniteSet(I), NEW v \in [I -> Nat], NEW b \in [I -> {0, 1}]
    PROVE  SumFunction([i \in I |-> b[i] * v[i]]) = Over(v, {i \in I : b[i] = 1})
<1> DEFINE w == [i \in I |-> b[i] * v[i]]
           One(T) == {i \in T : b[i] = 1}
           Wrong == {T \in SUBSET I : Over(w, T) # Over(v, One(T))}
<1>1. w \in [I -> Nat] /\ \A i \in I : w[i] = IF b[i] = 1 THEN v[i] ELSE 0
  <2>1. ASSUME NEW i \in I PROVE b[i] * v[i] = IF b[i] = 1 THEN v[i] ELSE 0
    <3>1. v[i] \in Nat /\ (b[i] = 0 \/ b[i] = 1)
      OBVIOUS
    <3> QED
      BY <3>1
  <2> QED
    BY <2>1
<1> HIDE DEF w
<1>2. Wrong = {}
  <2> SUFFICES ASSUME Wrong # {} PROVE FALSE
    BY Zenon
  <2>1. PICK T \in Wrong : \A U \in Wrong : U \subseteq T => U = T
    <3>1. Wrong \in SUBSET (SUBSET I)
      OBVIOUS
    <3> HIDE DEF Wrong
    <3> QED
      BY <3>1, SmallestSubset
  <2>2. T \in SUBSET I /\ One(T) \in SUBSET I /\ Over(w, T) # Over(v, One(T))
    BY <2>1
  <2>3. CASE T = {}
    <3>1. One(T) = {}
      BY <2>3
    <3> QED
      BY <1>1, <2>2, <2>3, <3>1, PartSum
  <2>4. CASE T # {}
    <3>1. PICK x \in T : TRUE
      BY <2>4
    <3>2. Over(w, T \ {x}) = Over(v, One(T \ {x}))
      BY <2>1, <3>1
    <3>3. Over(w, T) = w[x] + Over(w, T \ {x})
      BY <1>1, <2>2, <3>1, PartSum
    <3>4. Over(w, T \ {x}) \in Nat
      BY <1>1, <2>2, PartSum
    <3>5. CASE b[x] = 1
      <4>1. x \in One(T) /\ One(T) \ {x} = One(T \ {x})
        BY <3>1, <3>5
      <4>2. Over(v, One(T)) = v[x] + Over(v, One(T \ {x}))
        BY <2>2, <4>1, PartSum
      <4> QED
        BY <1>1, <2>2, <3>1, <3>2, <3>3, <3>5, <4>2
    <3>6. CASE b[x] # 1
      <4>1. One(T) = One(T \ {x})
        BY <3>1, <3>6
      <4> QED
        BY <1>1, <2>2, <3>1, <3>2, <3>3, <3>4, <3>6, <4>1
    <3> QED
      BY <3>5, <3>6
  <2> QED
    BY <2>3, <2>4
<1>3. Over(w, I) = SumFunction(w)
  <2>1. Restrict(w, I) = w
    BY <1>1 DEF Restrict
  <2> QED
    BY <2>1 DEF Over
<1> QED
  BY <1>2, <1>3 DEF w

\* A sum of sums is the sum over all of them, when they have no term in common.
LEMMA SumOfSums ==
    ASSUME NEW I, IsFiniteSet(I), NEW v \in [I -> Nat], NEW J, IsFiniteSet(J),
           NEW part \in [J -> SUBSET I], \A j, k \in J : j # k => part[j] \cap part[k] = {}
    PROVE  SumFunction([j \in J |-> Over(v, part[j])]) = Over(v, UNION {part[j] : j \in J})
<1> DEFINE w == [j \in J |-> Over(v, part[j])]
           All(T) == UNION {part[j] : j \in T}
           Wrong == {T \in SUBSET J : Over(w, T) # Over(v, All(T))}
<1>1. w \in [J -> Nat] /\ \A j \in J : w[j] = Over(v, part[j])
  BY PartSum
<1> HIDE DEF w
<1>4. \A A \in SUBSET I : \A B \in SUBSET I :
          A \cap B = {} => Over(v, A \cup B) = Over(v, A) + Over(v, B)
  BY SumOfTwo
<1>2. Wrong = {}
  <2> SUFFICES ASSUME Wrong # {} PROVE FALSE
    BY Zenon
  <2>1. PICK T \in Wrong : \A U \in Wrong : U \subseteq T => U = T
    <3>1. Wrong \in SUBSET (SUBSET J)
      OBVIOUS
    <3> HIDE DEF Wrong
    <3> QED
      BY <3>1, SmallestSubset
  <2>2. T \in SUBSET J /\ All(T) \in SUBSET I /\ Over(w, T) # Over(v, All(T))
    BY <2>1
  <2>3. CASE T = {}
    <3>1. All(T) = {}
      BY <2>3
    <3> QED
      BY <1>1, <2>2, <2>3, <3>1, PartSum
  <2>4. CASE T # {}
    <3>1. PICK x \in T : TRUE
      BY <2>4
    <3>2. Over(w, T \ {x}) = Over(v, All(T \ {x}))
      BY <2>1, <3>1
    <3>3. Over(w, T) = w[x] + Over(w, T \ {x})
      BY <1>1, <2>2, <3>1, PartSum
    <3>4. part[x] \in SUBSET I /\ All(T \ {x}) \in SUBSET I
      BY <2>2
    <3>5. part[x] \cap All(T \ {x}) = {} /\ All(T) = part[x] \cup All(T \ {x})
      BY <2>2, <3>1
    <3>6. Over(v, All(T)) = Over(v, part[x]) + Over(v, All(T \ {x}))
      <4> HIDE DEF All
      <4> QED
        BY <1>4, <3>4, <3>5, Zenon
    <3> QED
      BY <1>1, <2>2, <3>1, <3>2, <3>3, <3>6
  <2> QED
    BY <2>3, <2>4
<1>3. Over(w, J) = SumFunction(w)
  <2>1. Restrict(w, J) = w
    BY <1>1 DEF Restrict
  <2> QED
    BY <2>1 DEF Over
<1> QED
  BY <1>2, <1>3 DEF w

-----------------------------------------------------------------------------
(* The Sums are those of SumFilter.                                        *)

SumP == INSTANCE SumFilter_proofs WITH
    LateSums <- {}, Breakable <- {}, MaxFaults <- 0, MaxNacks <- 0

\* What the proofs about SumFilter assume.
LEMMA SumsAssumed == SumP!SumAssumption
BY PipelineAssumption DEF SumP!SumAssumption, SumP!Aggs, SumP!Connections, SumP!IsFiniteSet, IsFiniteSet

\* The parts of a Sum's step are the same in the two instances of SumFilter.
LEMMA SameSumInit == Sum!Init => SumP!Init
BY DEF Sum!Init, SumP!Init, Sum!Threads, SumP!Threads, Sum!Aggs, SumP!Aggs, Sum!NoRecords,
       SumP!NoRecords

\* The data and the control thread while they do not process an EOF.
LEMMA SameThreads ==
    ASSUME NEW s \in Sums
    PROVE  /\ Sum!DataThread(s) <=> SumP!DataThread(s)
           /\ Sum!ControlThread(s) <=> SumP!ControlThread(s)
<1> USE DEF Sum!gatewayVars, SumP!gatewayVars, Sum!filterVars, SumP!filterVars, Sum!localVars,
            SumP!localVars, Sum!outputVars, SumP!outputVars, Sum!boundVars, SumP!boundVars,
            Sum!queueVars, SumP!queueVars, Sum!threadVars, SumP!threadVars, Sum!RecordsOf,
            SumP!RecordsOf, Sum!Listening, SumP!Listening
<1>1. Sum!DataThread(s) <=> SumP!DataThread(s)
  BY Zenon DEF Sum!DataThread, SumP!DataThread, Sum!DeliverData, SumP!DeliverData,
     Sum!SkipData, SumP!SkipData, Sum!IsFinished, SumP!IsFinished, Sum!CountData, SumP!CountData,
     Sum!ProcessData, SumP!ProcessData, Sum!ReleaseData, SumP!ReleaseData, Sum!Released,
     SumP!Released, Sum!Added, SumP!Added, Sum!DeliverEof, SumP!DeliverEof, Sum!BroadcastEof,
     SumP!BroadcastEof, Sum!Broadcast, SumP!Broadcast, Sum!Drained, SumP!Drained, Sum!AtEof,
     SumP!AtEof, Sum!SendOutcomes, SumP!SendOutcomes, Sum!LinkStates, SumP!LinkStates, Sum!Nack,
     SumP!Nack, Sum!Ack, SumP!Ack
<1>2. Sum!ControlThread(s) <=> SumP!ControlThread(s)
  BY Zenon DEF Sum!ControlThread, SumP!ControlThread, Sum!DeliverControl, SumP!DeliverControl
<1> QED
  BY <1>1, <1>2

\* A thread that processes an EOF.
LEMMA SameProcessEof ==
    ASSUME NEW s \in Sums, NEW t
    PROVE  Sum!ProcessEof(s, t) <=> SumP!ProcessEof(s, t)
<1> USE DEF Sum!gatewayVars, SumP!gatewayVars, Sum!filterVars, SumP!filterVars, Sum!localVars,
            SumP!localVars, Sum!outputVars, SumP!outputVars, Sum!boundVars, SumP!boundVars,
            Sum!queueVars, SumP!queueVars, Sum!threadVars, SumP!threadVars, Sum!RecordsOf,
            SumP!RecordsOf, Sum!AtEof, SumP!AtEof
<1> QED
  BY Zenon DEF Sum!ProcessEof, SumP!ProcessEof, Sum!SendOutcomes, SumP!SendOutcomes,
     Sum!LinkStates, SumP!LinkStates, Sum!Nack, SumP!Nack, Sum!Ack, SumP!Ack,
     Sum!WaitForClientIdle, SumP!WaitForClientIdle, Sum!FinalizeSkip, SumP!FinalizeSkip,
     Sum!AlreadyFinalized, SumP!AlreadyFinalized, Sum!FinalizeBegin, SumP!FinalizeBegin,
     Sum!EntryOf, SumP!EntryOf, Sum!FruitsIn, SumP!FruitsIn, Sum!SendPartialSum,
     SumP!SendPartialSum, Sum!SendEof, SumP!SendEof, Sum!FinalizeEnd, SumP!FinalizeEnd,
     Sum!WithoutEntry, SumP!WithoutEntry, Sum!AmountOf, SumP!AmountOf, Sum!SendTo, SumP!SendTo,
     Sum!AbortFinalize, SumP!AbortFinalize, Sum!PartialSum, SumP!PartialSum, Sum!EofMessage,
     SumP!EofMessage, Sum!Aggs, SumP!Aggs

\* What one Sum does, and what the clients do.
SumMoves(s) ==
    \/ SumP!DataThread(s) \/ SumP!ControlThread(s)
    \/ SumP!ProcessEof(s, "data") \/ SumP!ProcessEof(s, "control")
Publishes == (\E r \in Records : SumP!PublishData(r)) \/ \E c \in Clients : SumP!PublishEof(c)

\* The kinds of step of the pipeline.
LEMMA StepCases ==
    ASSUME [Next]_vars
    PROVE  \/ Publishes /\ UNCHANGED <<inbox, aggVars, topVars, joinVars>>
           \/ \E s \in Sums : SumMoves(s) /\ Forward(s)
           \/ \E a \in Aggs : Aggregation!Consume(a) /\ UNCHANGED <<sumVars, joinVars>>
           \/ Join!JoinStep /\ UNCHANGED <<sumVars, inbox, aggVars>>
           \/ UNCHANGED vars
<1>1. CASE Publish
  <2>1. \A r \in Records : Sum!PublishData(r) => SumP!PublishData(r)
    BY Zenon DEF Sum!PublishData, SumP!PublishData, Sum!filterVars, SumP!filterVars, Sum!localVars,
       SumP!localVars, Sum!outputVars, SumP!outputVars, Sum!boundVars, SumP!boundVars,
       Sum!threadVars, SumP!threadVars
  <2>2. \A c \in Clients : Sum!PublishEof(c) => SumP!PublishEof(c)
    BY Zenon DEF Sum!PublishEof, SumP!PublishEof, Sum!filterVars, SumP!filterVars, Sum!localVars,
       SumP!localVars, Sum!outputVars, SumP!outputVars, Sum!boundVars, SumP!boundVars,
       Sum!threadVars, SumP!threadVars
  <2> QED
    BY <1>1, <2>1, <2>2, Zenon DEF Publish, Publishes
<1>2. ASSUME NEW s \in Sums, DataThread(s) \/ ControlThread(s) PROVE SumMoves(s) /\ Forward(s)
  BY <1>2, SameThreads, SameProcessEof, Zenon DEF DataThread, ControlThread, SumMoves
<1> QED
  BY <1>1, <1>2, Zenon DEF Next, System, AggregationThread, Joining

\* Every step of the pipeline is one of SumFilter, or leaves its variables alone.
LEMMA SumsStep == [Next]_vars => [SumP!Next]_SumP!vars
<1> SUFFICES ASSUME [Next]_vars PROVE [SumP!Next]_SumP!vars
  OBVIOUS
<1>1. UNCHANGED sumVars => UNCHANGED SumP!vars
  BY Zenon DEF sumVars, SumP!vars, SumP!gatewayVars, SumP!queueVars, SumP!threadVars,
     SumP!filterVars, SumP!localVars, SumP!outputVars, SumP!boundVars
<1>2. Publishes => SumP!Next
  BY Zenon DEF Publishes, SumP!Next
<1>3. ASSUME NEW s \in Sums, SumMoves(s) PROVE SumP!Next
  BY <1>3, Zenon DEF SumMoves, SumP!Next, SumP!Threads
<1> QED
  BY <1>1, <1>2, <1>3, StepCases DEF vars

\* What is known of the Sums.
SumsInv == SumP!Invariant /\ SumP!OwnedOnce /\ SumP!Flushed /\ SumP!Placed

\* What is proved of SumFilter always holds of the Sums here.
LEMMA SumsAreRight == Spec => []SumsInv
<1>1. Init => SumP!Init
  BY SameSumInit DEF Init
<1>2. Spec => SumP!Spec
  BY <1>1, SumsStep, PTL DEF Spec, SumP!Spec
<1>3. SumP!Spec => []SumP!Invariant
  BY SumsAssumed, SumP!InvariantHolds
<1>4. SumP!Spec => []SumP!OwnedOnce
  BY SumsAssumed, SumP!OwnedOnceHolds
<1>5. SumP!Spec => []SumP!Flushed
  BY SumsAssumed, SumP!FlushedHolds
<1>6. SumP!Spec => []SumP!Placed
  BY SumsAssumed, SumP!PlacedHolds
<1> QED
  BY <1>2, <1>3, <1>4, <1>5, <1>6, PTL DEF SumsInv

-----------------------------------------------------------------------------
(* Nothing fails.                                                          *)

Unbroken ==
    /\ \A s \in Sums : /\ consumer[s]["data"] = "up"
                       /\ \A a \in Aggs : dataLink[s][a] = "open"
    /\ \A a \in Aggs : aggConsumer[a] = "up" /\ outLink[a] = "open" /\ coordLink[a] = "open"
    /\ resultLink = "open"

\* Of an open connection a send is sure.
LEMMA OpenLink ==
    /\ \A out \in SumP!SendOutcomes("open") : out.delivered /\ ~out.raised /\ out.link = "open"
    /\ \A out \in Aggregation!SendOutcomes("open") :
         out.delivered /\ ~out.raised /\ out.link = "open"
    /\ \A out \in Join!SendOutcomes("open") : out.delivered /\ ~out.raised /\ out.link = "open"
BY DEF SumP!SendOutcomes, SumP!LinkStates, Aggregation!SendOutcomes, Aggregation!LinkStates,
       Join!SendOutcomes, Join!LinkStates

\* What a Sum sends in a step: a fruit, or an EOF.
FruitOut(s, t, c, f) ==
    /\ SumP!Finalizes(s, t, c) /\ f \in left[s][t]
    /\ sent' = [sent EXCEPT ![s][c][TargetAggregation[f]] =
                    Append(@, SumP!PartialSum(f, SumP!AmountOf(snap[s][t], f)))]
    /\ left' = [left EXCEPT ![s][t] = @ \ {f}]
    /\ UNCHANGED <<pc, eof, snap, nextAgg, finished>>

EofOut(s, t, c) ==
    /\ SumP!Finalizes(s, t, c) /\ left[s][t] = {} /\ nextAgg[s][t] \in Aggs
    /\ sent' = [sent EXCEPT ![s][c][nextAgg[s][t]] = Append(@, SumP!EofMessage)]
    /\ nextAgg' = [nextAgg EXCEPT ![s][t] = @ + 1]
    /\ UNCHANGED <<pc, eof, snap, left, finished>>

\* Or nothing: it takes the copy of a client's amounts, or leaves copies alone.
NothingOut(s) ==
    /\ UNCHANGED sent
    /\ \/ UNCHANGED <<snap, left>>
       \/ \E t \in SumP!Threads, c \in Clients :
            /\ snap' = [snap EXCEPT ![s][t] = SumP!EntryOf(amounts[s], c)]
            /\ left' = [left EXCEPT ![s][t] = SumP!FruitsIn(SumP!EntryOf(amounts[s], c))]

\* The steps of a Sum, by what they send.
LEMMA SumCases ==
    ASSUME SumsInv, Unbroken, NEW s \in Sums, SumMoves(s)
    PROVE  /\ UNCHANGED consumer
           /\ \A q \in Sums, a \in Aggs : dataLink'[q][a] = "open"
           /\ \/ \E t \in SumP!Threads, c \in Clients, f \in Fruits : FruitOut(s, t, c, f)
              \/ \E t \in SumP!Threads, c \in Clients : EofOut(s, t, c)
              \/ NothingOut(s)
<1> DEFINE Open == \A q \in Sums, a \in Aggs : dataLink'[q][a] = "open"
           Quiet == UNCHANGED <<consumer, sent, dataLink, snap, left>>
<1>0. /\ dataLink \in [Sums -> [Aggs -> SumP!LinkStates]]
      /\ \A q \in Sums, a \in Aggs : dataLink[q][a] = "open"
  BY DEF SumsInv, SumP!Invariant, SumP!TypeOK, SumP!Aggs, Aggs, Unbroken
<1>1. Quiet => UNCHANGED consumer /\ Open /\ NothingOut(s)
  BY <1>0 DEF NothingOut
<1>2. CASE SumP!DataThread(s) \/ SumP!ControlThread(s)
  <2>1. Quiet
    BY <1>2 DEF SumP!DataThread, SumP!ControlThread, SumP!DeliverData, SumP!SkipData,
       SumP!CountData, SumP!ProcessData, SumP!ReleaseData, SumP!DeliverEof, SumP!BroadcastEof,
       SumP!DeliverControl, SumP!localVars, SumP!outputVars, SumP!filterVars
  <2> HIDE DEF Quiet
  <2> QED
    BY <1>1, <2>1, Zenon
<1>3. ASSUME NEW t \in SumP!Threads, SumP!ProcessEof(s, t)
      PROVE  /\ UNCHANGED consumer /\ Open
             /\ \/ \E c \in Clients, f \in Fruits : FruitOut(s, t, c, f)
                \/ \E c \in Clients : EofOut(s, t, c)
                \/ NothingOut(s)
  <2>1. PICK c \in Clients :
          \/ SumP!WaitForClientIdle(s, t, c) \/ SumP!FinalizeSkip(s, t, c)
          \/ SumP!FinalizeBegin(s, t, c) \/ SumP!FinalizeEnd(s, t, c)
          \/ SumP!SendEof(s, t, c) \/ \E f \in Fruits : SumP!SendPartialSum(s, t, c, f)
    BY <1>3, Zenon DEF SumP!ProcessEof
  <2>2. CASE \/ SumP!WaitForClientIdle(s, t, c) \/ SumP!FinalizeSkip(s, t, c)
             \/ SumP!FinalizeEnd(s, t, c)
    <3>1. Quiet
      BY <2>2 DEF SumP!WaitForClientIdle, SumP!FinalizeSkip, SumP!FinalizeEnd, SumP!localVars,
         SumP!outputVars
    <3> HIDE DEF Quiet, Open
    <3> QED
      BY <1>1, <3>1
  <2>3. CASE SumP!FinalizeBegin(s, t, c)
    <3>1. /\ UNCHANGED <<consumer, sent, dataLink>>
          /\ snap' = [snap EXCEPT ![s][t] = SumP!EntryOf(amounts[s], c)]
          /\ left' = [left EXCEPT ![s][t] = SumP!FruitsIn(SumP!EntryOf(amounts[s], c))]
      BY <2>3 DEF SumP!FinalizeBegin, SumP!outputVars
    <3> QED
      BY <1>0, <3>1, Zenon DEF NothingOut
  <2>4. ASSUME NEW f \in Fruits, SumP!SendPartialSum(s, t, c, f)
        PROVE  UNCHANGED consumer /\ Open /\ FruitOut(s, t, c, f)
    <3> DEFINE a == TargetAggregation[f]
               m == SumP!PartialSum(f, SumP!AmountOf(snap[s][t], f))
    <3>1. a \in Aggs
      BY PipelineAssumption DEF Aggs
    <3>2. PICK out \in SumP!SendOutcomes(dataLink[s][a]) :
            /\ SumP!SendTo(s, c, a, m, out)
            /\ \/ /\ ~out.raised
                  /\ left' = [left EXCEPT ![s][t] = @ \ {f}]
                  /\ UNCHANGED <<pc, eof, finalizing, eofReady, ctrlQueue, nacks>>
               \/ /\ out.raised
                  /\ SumP!AbortFinalize(s, t, c)
                  /\ UNCHANGED left
      BY <2>4, Zenon DEF SumP!SendPartialSum
    <3>3. out.delivered /\ ~out.raised /\ out.link = "open"
      BY <1>0, <3>1, <3>2, OpenLink
    <3>4. /\ sent' = [sent EXCEPT ![s][c][a] = Append(@, m)]
          /\ dataLink' = [dataLink EXCEPT ![s][a] = "open"]
      BY <3>2, <3>3 DEF SumP!SendTo
    <3>5. /\ left' = [left EXCEPT ![s][t] = @ \ {f}]
          /\ UNCHANGED <<pc, eof>>
      BY <3>2, <3>3
    <3>6. /\ SumP!Finalizes(s, t, c) /\ f \in left[s][t]
          /\ UNCHANGED <<consumer, snap, nextAgg, finished>>
      BY <2>4 DEF SumP!SendPartialSum, SumP!AtEof, SumP!Finalizes
    <3>7. Open
      BY <1>0, <3>1, <3>4
    <3> QED
      BY <3>4, <3>5, <3>6, <3>7 DEF FruitOut
  <2>5. CASE SumP!SendEof(s, t, c)
    <3> DEFINE a == nextAgg[s][t]
    <3>1. /\ a \in Aggs /\ left[s][t] = {} /\ SumP!Finalizes(s, t, c)
          /\ UNCHANGED <<consumer, snap, left, finished>>
      BY <2>5 DEF SumP!SendEof, SumP!AtEof, SumP!Finalizes, SumP!Aggs, Aggs
    <3>2. PICK out \in SumP!SendOutcomes(dataLink[s][a]) :
            /\ SumP!SendTo(s, c, a, SumP!EofMessage, out)
            /\ \/ /\ ~out.raised
                  /\ nextAgg' = [nextAgg EXCEPT ![s][t] = @ + 1]
                  /\ UNCHANGED <<pc, eof, finalizing, eofReady, ctrlQueue, nacks>>
               \/ /\ out.raised
                  /\ SumP!AbortFinalize(s, t, c)
                  /\ UNCHANGED nextAgg
      BY <2>5, Zenon DEF SumP!SendEof
    <3>3. out.delivered /\ ~out.raised /\ out.link = "open"
      BY <1>0, <3>1, <3>2, OpenLink
    <3>4. /\ sent' = [sent EXCEPT ![s][c][a] = Append(@, SumP!EofMessage)]
          /\ dataLink' = [dataLink EXCEPT ![s][a] = "open"]
      BY <3>2, <3>3 DEF SumP!SendTo
    <3>5. nextAgg' = [nextAgg EXCEPT ![s][t] = @ + 1] /\ UNCHANGED <<pc, eof>>
      BY <3>2, <3>3
    <3>6. Open
      BY <1>0, <3>1, <3>4
    <3> QED
      BY <3>1, <3>4, <3>5, <3>6, Zenon DEF EofOut
  <2> HIDE DEF Open
  <2> QED
    BY <2>1, <2>2, <2>3, <2>4, <2>5
<1>4. "data" \in SumP!Threads /\ "control" \in SumP!Threads
  BY DEF SumP!Threads
<1> QED
  BY <1>2, <1>3, <1>4, Zenon DEF SumMoves

\* It stays so.
LEMMA UnbrokenStep == SumsInv /\ Unbroken /\ [Next]_vars => Unbroken'
<1> SUFFICES ASSUME SumsInv, Unbroken, [Next]_vars PROVE Unbroken'
  OBVIOUS
<1>1. CASE Publishes /\ UNCHANGED <<inbox, aggVars, topVars, joinVars>>
  BY <1>1 DEF Publishes, SumP!PublishData, SumP!PublishEof, SumP!outputVars, Unbroken, aggVars,
     joinVars
<1>2. ASSUME NEW s \in Sums, SumMoves(s), Forward(s) PROVE Unbroken'
  <2>1. consumer' = consumer /\ \A q \in Sums, a \in Aggs : dataLink'[q][a] = "open"
    BY <1>2, SumCases
  <2>2. UNCHANGED <<aggConsumer, outLink, coordLink, resultLink>>
    BY <1>2 DEF Forward, aggVars, joinVars
  <2> QED
    BY <2>1, <2>2 DEF Unbroken
<1>3. ASSUME NEW b \in Aggs, Aggregation!Consume(b), UNCHANGED <<sumVars, joinVars>>
      PROVE  Unbroken'
  <2>1. UNCHANGED <<consumer, dataLink, resultLink>>
    BY <1>3 DEF sumVars, joinVars
  <2>2. PICK s \in Sums, c \in Clients :
          \/ Aggregation!ReceivePartialSum(b, s, c) \/ Aggregation!SkipEof(b, s, c)
          \/ Aggregation!CountEof(b, s, c) \/ Aggregation!BeginTop(b, s, c)
          \/ Aggregation!CompleteTop(b, s, c)
          \/ Aggregation!SendPartialTop(b, s, c) \/ Aggregation!SendCoordination(b, s, c)
    BY <1>3, Zenon DEF Aggregation!Consume
  <2>3. CASE \/ Aggregation!ReceivePartialSum(b, s, c) \/ Aggregation!SkipEof(b, s, c)
             \/ Aggregation!CountEof(b, s, c) \/ Aggregation!BeginTop(b, s, c)
             \/ Aggregation!CompleteTop(b, s, c)
    <3>1. UNCHANGED <<aggConsumer, outLink, coordLink>>
      BY <2>3 DEF Aggregation!ReceivePartialSum, Aggregation!SkipEof, Aggregation!CountEof,
         Aggregation!BeginTop, Aggregation!CompleteTop, Aggregation!outputVars
    <3> QED
      BY <2>1, <3>1 DEF Unbroken
  <2>4. CASE Aggregation!SendPartialTop(b, s, c)
    <3>1. PICK out \in Aggregation!SendOutcomes(outLink[b]) :
            /\ outLink' = [outLink EXCEPT ![b] = out.link]
            /\ Aggregation!Proceeds(b, c, "sendCoordination", out.raised)
      BY <2>4, Zenon DEF Aggregation!SendPartialTop
    <3>2. ~out.raised /\ out.link = "open"
      BY <3>1, OpenLink DEF Unbroken
    <3>3. UNCHANGED <<aggConsumer, coordLink>>
      BY <2>4, <3>1, <3>2 DEF Aggregation!SendPartialTop, Aggregation!Proceeds
    <3>4. \A a \in Aggs : outLink'[a] = "open"
      BY <3>1, <3>2 DEF Unbroken
    <3> QED
      BY <2>1, <3>3, <3>4 DEF Unbroken
  <2>5. CASE Aggregation!SendCoordination(b, s, c)
    <3>1. PICK out \in Aggregation!SendOutcomes(coordLink[b]) :
            /\ coordLink' = [coordLink EXCEPT ![b] = out.link]
            /\ Aggregation!Proceeds(b, c, "complete", out.raised)
      BY <2>5, Zenon DEF Aggregation!SendCoordination
    <3>2. ~out.raised /\ out.link = "open"
      BY <3>1, OpenLink DEF Unbroken
    <3>3. UNCHANGED <<aggConsumer, outLink>>
      BY <2>5, <3>1, <3>2 DEF Aggregation!SendCoordination, Aggregation!Proceeds
    <3>4. \A a \in Aggs : coordLink'[a] = "open"
      BY <3>1, <3>2 DEF Unbroken
    <3> QED
      BY <2>1, <3>3, <3>4 DEF Unbroken
  <2> QED
    BY <2>2, <2>3, <2>4, <2>5
<1>4. CASE Join!JoinStep /\ UNCHANGED <<sumVars, inbox, aggVars>>
  <2>1. UNCHANGED <<consumer, dataLink, aggConsumer, outLink, coordLink>>
    BY <1>4 DEF sumVars, aggVars
  <2>2. resultLink' = "open"
    <3>1. ASSUME NEW c \in Clients, Join!SendFinalTop(c) PROVE resultLink' = "open"
      BY <3>1, OpenLink DEF Join!SendFinalTop, Unbroken
    <3> QED
      BY <1>4, <3>1, Zenon DEF Join!JoinStep, Join!DataListener, Join!CoordinationListener,
         Join!Monitor, Join!ProcessPartialTop, Join!ProcessSignal, Join!Scan, Join!EndScan,
         Join!BeginFinalTop, Join!EndFinalTop, Join!LoseInput, Join!BreakOutput,
         Join!LoseCoordination, Unbroken
  <2> QED
    BY <2>1, <2>2 DEF Unbroken
<1>5. CASE UNCHANGED vars
  BY <1>5 DEF vars, sumVars, aggVars, joinVars, Unbroken
<1> QED
  BY <1>1, <1>2, <1>3, <1>4, <1>5, StepCases

-----------------------------------------------------------------------------
(* What the Sums have sent, as the aggregations' proofs speak of it.       *)

IsSumOf(m, f) == m.type = "PARTIAL_SUM" /\ m.fruit = f

\* Where the partial sum of a fruit is in what a Sum sent to the fruit's aggregation, and
\* the amount that it has.
Channel(s, c, f) == sent[s][c][TargetAggregation[f]]
Places(s, c, f) == {i \in DOMAIN Channel(s, c, f) : IsSumOf(Channel(s, c, f)[i], f)}
AmountSent(s, c, f) == AddedUp(Channel(s, c, f)[CHOOSE i : i \in Places(s, c, f)].amount)

\* All that a Sum sent of a client, and the part of it for aggregation a.
TableSent(s, c) == [f \in {g \in Fruits : Places(s, c, g) # {}} |-> AmountSent(s, c, f)]
FruitsFor(a, s, c) == {f \in DOMAIN TableSent(s, c) : TargetAggregation[f] = a}
TablesFor(a, c) == [s \in Sums |-> Restricted(TableSent(s, c), FruitsFor(a, s, c))]
EofIn(s, c, a) == \E i \in DOMAIN sent[s][c][a] : sent[s][c][a][i] = SumP!EofMessage

\* The partial top that aggregation a makes of client c.
TopFor(a, c) == TopOf(MergeOf(TablesFor(a, c)))

\* The variables of the Sum that AggregationFilter speaks of are those of the thread that
\* finalizes the client.
OfFinalizer(s, c, v, none) ==
    IF SumP!Finalizes(s, "data", c) THEN v["data"]
    ELSE IF SumP!Finalizes(s, "control", c) THEN v["control"] ELSE none
Copies(s) == [t \in SumP!Threads |-> [f \in Fruits |-> AddedUp(SumP!AmountOf(snap[s][t], f))]]
Offered(s, c) == OfFinalizer(s, c, Copies(s), NoFruits)
LeftOver(s, c) == OfFinalizer(s, c, left[s], {})
NextAgg(s, c) == OfFinalizer(s, c, nextAgg[s], 0)

\* How far an aggregation is with a client.
SentTop(a, c) ==
    c \in completed[a] \/ (c \in topping[a] /\ aggPc[a] \in {"sendCoordination", "complete"})
Signalled(a, c) == c \in completed[a] \/ (c \in topping[a] /\ aggPc[a] = "complete")

\* The variables of AggregationFilter.
OfferedBySum == [s \in Sums |-> [c \in Clients |-> Offered(s, c)]]
LeftBySum == [s \in Sums |-> [c \in Clients |-> LeftOver(s, c)]]
NextBySum == [s \in Sums |-> [c \in Clients |-> NextAgg(s, c)]]
FirstBySum == [s \in Sums |-> [c \in Clients |-> TableSent(s, c)]]
Promise(a, s, c) == IF EofIn(s, c, a) THEN {FruitsFor(a, s, c)} ELSE {}
PromisedToAgg == [a \in Aggs |-> [s \in Sums |-> [c \in Clients |-> Promise(a, s, c)]]]
TopOut(a, c) == IF SentTop(a, c) THEN <<TopFor(a, c)>> ELSE <<>>
TopsByAgg == [a \in Aggs |-> [c \in Clients |-> TopOut(a, c)]]
SignalsByAgg == [a \in Aggs |-> [c \in Clients |-> IF Signalled(a, c) THEN 1 ELSE 0]]

AggP == INSTANCE AggregationFilter_proofs WITH
    consumer <- aggConsumer, pc <- aggPc, eof <- aggEof, finalizing <- topping,
    Uploaded <- [s \in Sums |-> [c \in Clients |-> NoFruits]],
    LateAggs <- {}, Breakable <- {}, MaxFaults <- 0, MaxResends <- 0, faults <- 0, resends <- 0,
    offered <- OfferedBySum, left <- LeftBySum, nextAgg <- NextBySum, first <- FirstBySum,
    promised <- PromisedToAgg, joinQueue <- TopsByAgg, coordQueue <- SignalsByAgg

\* What the proofs about AggregationFilter assume.
LEMMA AggregationsAssumed == AggP!AggregationAssumption /\ AggP!FruitTopAssumption
<1>1. IsTable(NoFruits)
  BY DEF IsTable, NoFruits
<1> QED
  BY <1>1, PipelineAssumption, FruitTopAssumption, Zenon
     DEF AggP!FruitTopAssumption, AggP!AggregationAssumption, AggP!Aggs, AggP!IsTable, IsTable, AggP!IsFiniteSet,
         IsFiniteSet

\* The operators of FruitTop are the same in all the instances.
LEMMA SameTop ==
    /\ \A t : Aggregation!TopOf(t) = TopOf(t) /\ Join!TopOf(t) = TopOf(t) /\ AggP!TopOf(t) = TopOf(t)
    /\ \A t : IsTable(t) <=> AggP!IsTable(t)
<1>1. \A t : IsTable(t) <=> AggP!IsTable(t)
  BY DEF IsTable, AggP!IsTable
<1> QED
  BY <1>1
     DEF TopOf, TopFruits, IsTop, Restricted, Before, Cardinality,
         Aggregation!TopOf, Aggregation!TopFruits, Aggregation!IsTop, Aggregation!Restricted,
         Aggregation!Before, Aggregation!Cardinality,
         Join!TopOf, Join!TopFruits, Join!IsTop, Join!Restricted, Join!Before, Join!Cardinality,
         AggP!TopOf, AggP!TopFruits, AggP!IsTop, AggP!Restricted, AggP!Before, AggP!Cardinality

\* So are the merges.
LEMMA SameMerge ==
    \A tables : Join!MergeOf(tables) = MergeOf(tables) /\ AggP!MergeOf(tables) = MergeOf(tables)
BY DEF MergeOf, SumFunction, SumFunctionOnSet, FoldFunctionOnSet, MapThenFoldSet,
       Join!MergeOf, Join!SumFunction, Join!SumFunctionOnSet, Join!FoldFunctionOnSet,
       Join!MapThenFoldSet,
       AggP!MergeOf, AggP!SumFunction, AggP!SumFunctionOnSet, AggP!FoldFunctionOnSet,
       AggP!MapThenFoldSet

-----------------------------------------------------------------------------
(* The channels from the Sums to the aggregations.                         *)

\* The types of what is used of the Sums.
LEMMA SumTypes ==
    ASSUME SumsInv
    PROVE  /\ sent \in [Sums -> [Clients -> [Aggs -> Seq(SumP!Messages)]]]
           /\ left \in [Sums -> [SumP!Threads -> SUBSET Fruits]]
           /\ nextAgg \in [Sums -> [SumP!Threads -> 0 .. AGGREGATION_AMOUNT]]
           /\ snap \in [Sums -> [SumP!Threads -> SumP!Bag]]
           /\ amounts \in [Sums -> SumP!Bag]
           /\ TargetAggregation \in [Fruits -> Aggs]
           /\ AGGREGATION_AMOUNT \in Nat /\ \A a \in Aggs : a \in Nat
BY PipelineAssumption DEF SumsInv, SumP!Invariant, SumP!TypeOK, SumP!Aggs, Aggs

\* The sum of the amounts in a bag.
LEMMA AddedUpIsNumber == \A bag \in SumP!Bag : AddedUp(bag) \in Nat
<1> SUFFICES ASSUME NEW bag \in SumP!Bag PROVE AddedUp(bag) \in Nat
  OBVIOUS
<1> DEFINE w == [r \in Records |-> bag[r] * Units[r]]
<1>1. w \in [Records -> Nat] /\ IsFiniteSet(Records)
  <2>1. \A r \in Records : bag[r] \in Nat /\ Units[r] \in Nat
    BY PipelineAssumption DEF SumP!Bag
  <2>2. \A r \in Records : bag[r] * Units[r] \in Nat
    BY <2>1
  <2> QED
    BY <2>2, PipelineAssumption
<1> HIDE DEF w
<1>2. SumFunction(w) \in Nat
  BY <1>1, SumOfNumbers
<1> QED
  BY <1>2 DEF AddedUp, w

\* A channel that gets one more message.
LEMMA Appended ==
    ASSUME NEW ch \in Seq(SumP!Messages), NEW m \in SumP!Messages
    PROVE  /\ Len(ch) + 1 \notin DOMAIN ch
           /\ DOMAIN Append(ch, m) = DOMAIN ch \cup {Len(ch) + 1}
           /\ Append(ch, m)[Len(ch) + 1] = m
           /\ \A i \in DOMAIN ch : Append(ch, m)[i] = ch[i]
           /\ Len(Append(ch, m)) = Len(ch) + 1
OBVIOUS

\* The kinds of message of a Sum.
LEMMA SumMessages ==
    /\ SumP!EofMessage \in SumP!Messages /\ SumP!EofMessage.type = "EOF"
    /\ \A f \in Fruits, bag \in SumP!Bag :
         /\ SumP!PartialSum(f, bag) \in SumP!Messages
         /\ SumP!PartialSum(f, bag).type = "PARTIAL_SUM"
         /\ SumP!PartialSum(f, bag).fruit = f /\ SumP!PartialSum(f, bag).amount = bag
         /\ SumP!PartialSum(f, bag) # SumP!EofMessage
    /\ \A m \in SumP!Messages : m.type = "PARTIAL_SUM" => m.fruit \in Fruits /\ m.amount \in SumP!Bag
    /\ \A f \in Fruits, bag \in SumP!Bag : SumP!AmountOf(bag, f) \in SumP!Bag
BY DEF SumP!EofMessage, SumP!PartialSum, SumP!Messages, SumP!PartialSums, SumP!AmountOf, SumP!Bag

\* A send of message m on the channel of s, c and a, and what it does to all of them.
Sent(s, c, a, m) == sent' = [sent EXCEPT ![s][c][a] = Append(@, m)]

\* A channel that gets a message, and the others.
LEMMA SentOn ==
    ASSUME SumsInv, NEW s \in Sums, NEW c \in Clients, NEW a \in Aggs, NEW m, Sent(s, c, a, m)
    PROVE  /\ sent'[s][c][a] = Append(sent[s][c][a], m)
           /\ \A b \in Aggs : b # a => sent'[s][c][b] = sent[s][c][b]
           /\ \A q \in Sums, d \in Clients, b \in Aggs :
                ~(q = s /\ d = c /\ b = a) => sent'[q][d][b] = sent[q][d][b]
           /\ \A q \in Sums, d \in Clients : ~(q = s /\ d = c) => sent'[q][d] = sent[q][d]
BY SumTypes DEF Sent

OneMore(new, old, a, s, c, w) == new = [old EXCEPT ![a][s][c] = Append(@, w)]

\* What a Sum sends is put on the wire: one message, or nothing.
LEMMA ForwardOne ==
    ASSUME SumsInv, inbox \in [Aggs -> [Sums -> [Clients -> Seq(AggP!Messages)]]],
           NEW s \in Sums, NEW c \in Clients, NEW a \in Aggs, NEW m \in SumP!Messages,
           Sent(s, c, a, m), Forward(s), NEW w, w = OnTheWire(m)
    PROVE  OneMore(inbox', inbox, a, s, c, w)
<1>1. \A b \in Aggs, d \in Clients :
        NewlySent(s, d, b) = IF b = a /\ d = c THEN <<OnTheWire(m)>> ELSE <<>>
  <2> SUFFICES ASSUME NEW b \in Aggs, NEW d \in Clients
               PROVE  NewlySent(s, d, b) = IF b = a /\ d = c THEN <<OnTheWire(m)>> ELSE <<>>
    OBVIOUS
  <2>1. sent[s][d][b] \in Seq(SumP!Messages)
    BY SumTypes
  <2>2. Len(sent[s][d][b]) \in Nat
    BY <2>1
  <2>3. CASE b = a /\ d = c
    <3>1. /\ Len(sent'[s][d][b]) = Len(sent[s][d][b]) + 1
          /\ sent'[s][d][b][Len(sent[s][d][b]) + 1] = m
      BY <2>1, <2>3, SentOn, Appended
    <3>2. NewlySent(s, d, b) = [i \in 1 .. 1 |-> OnTheWire(sent'[s][d][b][Len(sent[s][d][b]) + i])]
      BY <2>2, <3>1 DEF NewlySent
    <3>3. NewlySent(s, d, b) = [i \in 1 .. 1 |-> OnTheWire(m)]
      BY <3>1, <3>2
    <3>4. \A x : [i \in 1 .. 1 |-> x] = <<x>>
      OBVIOUS
    <3> QED
      BY <2>3, <3>3, <3>4
  <2>4. CASE ~(b = a /\ d = c)
    <3>1. sent'[s][d][b] = sent[s][d][b]
      BY <2>4, SentOn
    <3>2. NewlySent(s, d, b) = [i \in 1 .. 0 |-> OnTheWire(sent'[s][d][b][Len(sent[s][d][b]) + i])]
      BY <2>2, <3>1 DEF NewlySent
    <3> HIDE DEF NewlySent
    <3>3. NewlySent(s, d, b) = <<>>
      BY <3>2
    <3> QED
      BY <2>4, <3>3
  <2> QED
    BY <2>3, <2>4
<1>2. inbox' = [b \in Aggs |-> [inbox[b] EXCEPT
                  ![s] = [d \in Clients |-> @[d] \o NewlySent(s, d, b)]]]
  BY DEF Forward
<1>3. PICK new : new = [b \in Aggs |-> [d \in Clients |-> NewlySent(s, d, b)]]
  BY Zenon
<1>4. inbox' = [b \in Aggs |-> [inbox[b] EXCEPT
                  ![s] = [d \in Clients |-> inbox[b][s][d] \o new[b][d]]]]
  BY <1>2, <1>3, Zenon
<1>6. \A b \in Aggs, d \in Clients : new[b][d] = IF b = a /\ d = c THEN <<w>> ELSE <<>>
  BY <1>1, <1>3
<1>7. \A b \in Aggs, d \in Clients : inbox[b][s][d] \o <<>> = inbox[b][s][d]
  OBVIOUS
<1>8. inbox[a][s][c] \o <<w>> = Append(inbox[a][s][c], w)
  OBVIOUS
<1>9. \A b \in Aggs, d \in Clients :
        inbox[b][s][d] \o new[b][d] =
            IF b = a /\ d = c THEN Append(inbox[a][s][c], w) ELSE inbox[b][s][d]
  BY <1>6, <1>7, <1>8, Zenon
<1>10. PICK q : q = Append(inbox[a][s][c], w)
  BY Zenon
<1>11. \A b \in Aggs : [d \in Clients |-> inbox[b][s][d] \o new[b][d]] =
                        IF b = a THEN [inbox[b][s] EXCEPT ![c] = q] ELSE inbox[b][s]
  BY <1>9, <1>10, Zenon
<1>12. inbox' = [b \in Aggs |-> [inbox[b] EXCEPT
                    ![s] = IF b = a THEN [inbox[b][s] EXCEPT ![c] = q] ELSE inbox[b][s]]]
  BY <1>4, <1>11, Zenon
<1>13. inbox' = [inbox EXCEPT ![a][s][c] = q]
  BY <1>12, Zenon
<1> QED
  BY <1>10, <1>13 DEF OneMore

\* A Sum that sends nothing puts nothing on the wire.
LEMMA ForwardNothing ==
    ASSUME SumsInv, inbox \in [Aggs -> [Sums -> [Clients -> Seq(AggP!Messages)]]],
           NEW s \in Sums, UNCHANGED sent, Forward(s)
    PROVE  UNCHANGED inbox
<1>1. \A b \in Aggs, d \in Clients : NewlySent(s, d, b) = <<>>
  <2> SUFFICES ASSUME NEW b \in Aggs, NEW d \in Clients PROVE NewlySent(s, d, b) = <<>>
    OBVIOUS
  <2>1. Len(sent[s][d][b]) \in Nat
    BY SumTypes
  <2>2. NewlySent(s, d, b) = [i \in 1 .. 0 |-> OnTheWire(sent'[s][d][b][Len(sent[s][d][b]) + i])]
    BY <2>1 DEF NewlySent
  <2> HIDE DEF NewlySent
  <2> QED
    BY <2>2
<1>2. PICK new : new = [b \in Aggs |-> [d \in Clients |-> NewlySent(s, d, b)]]
  BY Zenon
<1>3. inbox' = [b \in Aggs |-> [inbox[b] EXCEPT
                  ![s] = [d \in Clients |-> inbox[b][s][d] \o new[b][d]]]]
  BY <1>2, Zenon DEF Forward
<1>4. \A b \in Aggs, d \in Clients : inbox[b][s][d] \o new[b][d] = inbox[b][s][d]
  <2>1. \A b \in Aggs, d \in Clients : inbox[b][s][d] \o <<>> = inbox[b][s][d]
    OBVIOUS
  <2> QED
    BY <1>1, <1>2, <2>1
<1>5. \A b \in Aggs : [d \in Clients |-> inbox[b][s][d] \o new[b][d]] = inbox[b][s]
  BY <1>4, Zenon
<1>6. inbox' = [b \in Aggs |-> [inbox[b] EXCEPT ![s] = inbox[b][s]]]
  BY <1>3, <1>5, Zenon
<1> QED
  BY <1>6

-----------------------------------------------------------------------------
(* The tables of what was sent.                                            *)

\* A fruit that is to be sent has something in the thread's copy, and each message to an
\* aggregation is about one of its fruits, and has something of it.
LeftContent ==
    \A s \in Sums, t \in SumP!Threads : \A f \in left[s][t] :
        \E r \in Records : FruitOf[r] = f /\ snap[s][t][r] > 0
HasContent(m, a) ==
    m.type = "PARTIAL_SUM" =>
        /\ TargetAggregation[m.fruit] = a
        /\ \E r \in Records : m.amount[r] > 0
SentContent ==
    \A s \in Sums, c \in Clients, a \in Aggs : \A i \in DOMAIN sent[s][c][a] :
        HasContent(sent[s][c][a][i], a)
ContentInv == LeftContent /\ SentContent

\* The parts of the Sums' invariant, as nothing fails.
LEMMA SumFacts ==
    ASSUME SumsInv, Unbroken
    PROVE  /\ SumP!TypeOK /\ SumP!ThreadInv /\ SumP!SettledInv /\ SumP!LossInv /\ SumP!TakerInv
           /\ SumP!OwnerInv /\ SumP!MessageInv /\ SumP!FlushInv
           /\ SumP!CopyInv /\ SumP!PlaceInv
BY DEF SumsInv, SumP!Invariant, SumP!OwnedOnce, SumP!Flushed, SumP!Placed, SumP!DataConsumersIntact,
       SumP!OutputIntact, Unbroken, SumP!Aggs, Aggs

\* A fruit is sent once, and before the EOF.
LEMMA ChannelFacts ==
    ASSUME SumsInv, Unbroken, NEW s \in Sums, NEW c \in Clients
    PROVE  /\ \A f \in Fruits : \A i, j \in Places(s, c, f) : i = j
           /\ \A t \in SumP!Threads : SumP!Finalizes(s, t, c) =>
                /\ left[s][t] # {} => nextAgg[s][t] = 0
                /\ \A a \in Aggs : a >= nextAgg[s][t] => ~EofIn(s, c, a)
                /\ \A f \in left[s][t] : Places(s, c, f) = {}
<1>1. SumP!ChannelInv(s, c)
  BY SumFacts DEF SumP!FlushInv
<1>2. SumP!Aggs = Aggs /\ TargetAggregation \in [Fruits -> Aggs]
  BY PipelineAssumption DEF SumP!Aggs, Aggs
<1>3. \A f \in Fruits : \A i, j \in Places(s, c, f) : i = j
  <2> SUFFICES ASSUME NEW f \in Fruits, NEW i \in Places(s, c, f), NEW j \in Places(s, c, f), i # j
               PROVE  FALSE
    OBVIOUS
  <2>1. SumP!WellOrdered(Channel(s, c, f))
    BY <1>1, <1>2 DEF SumP!ChannelInv, Channel
  <2> QED
    BY <2>1 DEF SumP!WellOrdered, Places, IsSumOf
<1>4. ASSUME NEW t \in SumP!Threads, SumP!Finalizes(s, t, c)
      PROVE  /\ left[s][t] # {} => nextAgg[s][t] = 0
             /\ \A a \in Aggs : a >= nextAgg[s][t] => ~EofIn(s, c, a)
             /\ \A f \in left[s][t] : Places(s, c, f) = {}
  <2>1. SumP!Flushing(s, t, c)
    BY <1>1, <1>4 DEF SumP!ChannelInv
  <2>2. left[s][t] # {} => nextAgg[s][t] = 0
    BY <2>1 DEF SumP!Flushing
  <2>3. \A a \in Aggs : a >= nextAgg[s][t] => ~EofIn(s, c, a)
    BY <1>2, <2>1 DEF SumP!Flushing, SumP!NoEofIn, EofIn
  <2>4. ASSUME NEW f \in left[s][t] PROVE Places(s, c, f) = {}
    <3>1. f \in Fruits /\ TargetAggregation[f] \in Aggs
      BY SumTypes
    <3>2. SumP!HasNoneOf(Channel(s, c, f), left[s][t])
      BY <1>2, <2>1, <3>1 DEF SumP!Flushing, Channel
    <3> QED
      BY <3>2 DEF SumP!HasNoneOf, SumP!Partial, Places, IsSumOf
  <2> QED
    BY <2>2, <2>3, <2>4
<1> QED
  BY <1>3, <1>4

\* What was sent is a table, in which a fruit has the amount of its message.
LEMMA TablesSent ==
    ASSUME SumsInv, Unbroken, NEW s \in Sums, NEW c \in Clients
    PROVE  /\ IsTable(TableSent(s, c))
           /\ \A f \in Fruits : /\ f \in DOMAIN TableSent(s, c) <=> Places(s, c, f) # {}
                                /\ \A i \in Places(s, c, f) :
                                     TableSent(s, c)[f] = AddedUp(Channel(s, c, f)[i].amount)
<1>1. \A f \in Fruits : f \in DOMAIN TableSent(s, c) <=> Places(s, c, f) # {}
  BY DEF TableSent
<1>2. ASSUME NEW f \in Fruits, NEW i \in Places(s, c, f)
      PROVE  /\ TableSent(s, c)[f] = AddedUp(Channel(s, c, f)[i].amount)
             /\ TableSent(s, c)[f] \in Nat
  <2>1. (CHOOSE j : j \in Places(s, c, f)) = i
    BY ChannelFacts
  <2>2. TableSent(s, c)[f] = AmountSent(s, c, f)
    BY <1>2 DEF TableSent
  <2>3. TableSent(s, c)[f] = AddedUp(Channel(s, c, f)[i].amount)
    BY <2>1, <2>2, Zenon DEF AmountSent
  <2>4. Channel(s, c, f) \in Seq(SumP!Messages)
    BY SumTypes DEF Channel
  <2>5. Channel(s, c, f)[i] \in SumP!Messages /\ Channel(s, c, f)[i].type = "PARTIAL_SUM"
    BY <2>4 DEF Places, IsSumOf
  <2>6. Channel(s, c, f)[i].amount \in SumP!Bag
    BY <2>5, SumMessages
  <2> QED
    BY <2>3, <2>6, AddedUpIsNumber
<1>3. \A f \in DOMAIN TableSent(s, c) : f \in Fruits /\ TableSent(s, c)[f] \in Nat
  BY <1>1, <1>2 DEF TableSent
<1>4. IsTable(TableSent(s, c))
  <2>1. PICK t : t = TableSent(s, c)
    OBVIOUS
  <2>2. t = [f \in DOMAIN t |-> t[f]]
    BY <2>1 DEF TableSent
  <2> QED
    BY <1>3, <2>1, <2>2 DEF IsTable
<1> QED
  BY <1>1, <1>2, <1>4

\* Channels in which nothing changed have the same tables.
LEMMA SameTables ==
    ASSUME NEW s \in Sums, NEW c \in Clients, sent'[s][c] = sent[s][c]
    PROVE  /\ TableSent(s, c)' = TableSent(s, c) /\ \A a : EofIn(s, c, a)' <=> EofIn(s, c, a)
           /\ \A a : FruitsFor(a, s, c)' = FruitsFor(a, s, c)
<1>1. \A f : Channel(s, c, f)' = Channel(s, c, f)
  BY DEF Channel
<1>2. \A f : Places(s, c, f)' = Places(s, c, f)
  BY <1>1 DEF Places
<1>3. \A f : AmountSent(s, c, f)' = AmountSent(s, c, f)
  BY <1>1, <1>2 DEF AmountSent, AddedUp
<1>4. TableSent(s, c)' = TableSent(s, c)
  BY <1>2, <1>3 DEF TableSent
<1> QED
  BY <1>4 DEF EofIn, FruitsFor

\* A partial sum that is sent adds a fruit to the table.
LEMMA FruitSent ==
    ASSUME SumsInv, Unbroken, NEW s \in Sums, NEW t \in SumP!Threads, NEW c \in Clients,
           NEW f \in Fruits, FruitOut(s, t, c, f)
    PROVE  /\ f \notin DOMAIN TableSent(s, c) /\ ~EofIn(s, c, TargetAggregation[f])
           /\ TableSent(s, c)' =
                Plus(TableSent(s, c), f, AddedUp(SumP!AmountOf(snap[s][t], f)))
           /\ \A a \in Aggs : EofIn(s, c, a)' <=> EofIn(s, c, a)
<1> PICK a, m : a = TargetAggregation[f] /\ m = SumP!PartialSum(f, SumP!AmountOf(snap[s][t], f))
  OBVIOUS
<1>1. /\ a \in Aggs /\ m \in SumP!Messages /\ m.type = "PARTIAL_SUM" /\ m.fruit = f
      /\ m.amount = SumP!AmountOf(snap[s][t], f) /\ m # SumP!EofMessage
      /\ sent[s][c][a] \in Seq(SumP!Messages)
  BY SumTypes, SumMessages
<1>2. Sent(s, c, a, m) /\ SumP!Finalizes(s, t, c) /\ f \in left[s][t]
  BY DEF FruitOut, Sent
<1>3. /\ sent'[s][c][a] = Append(sent[s][c][a], m)
      /\ \A b \in Aggs : b # a => sent'[s][c][b] = sent[s][c][b]
  <2>1. sent \in [Sums -> [Clients -> [Aggs -> Seq(SumP!Messages)]]]
    BY SumTypes
  <2> QED
    BY <1>1, <1>2, <2>1 DEF Sent
<1>4. Places(s, c, f) = {} /\ ~EofIn(s, c, a)
  <2>1. nextAgg[s][t] = 0 /\ a >= 0
    BY <1>1, <1>2, ChannelFacts, SumTypes
  <2> QED
    BY <1>1, <1>2, <2>1, ChannelFacts
<1>5. PICK n : n = Len(sent[s][c][a]) + 1
  OBVIOUS
<1>6. /\ n \notin DOMAIN sent[s][c][a] /\ DOMAIN sent'[s][c][a] = DOMAIN sent[s][c][a] \cup {n}
      /\ sent'[s][c][a][n] = m
      /\ \A i \in DOMAIN sent[s][c][a] : sent'[s][c][a][i] = sent[s][c][a][i]
  <2>1. PICK ch : ch = sent[s][c][a]
    OBVIOUS
  <2>2. /\ n \notin DOMAIN ch /\ DOMAIN Append(ch, m) = DOMAIN ch \cup {n}
        /\ Append(ch, m)[n] = m /\ \A i \in DOMAIN ch : Append(ch, m)[i] = ch[i]
    <3>1. ch \in Seq(SumP!Messages) /\ n = Len(ch) + 1
      BY <1>1, <1>5, <2>1
    <3> QED
      BY <1>1, <3>1, Appended
  <2>3. sent'[s][c][a] = Append(ch, m)
    BY <1>3, <2>1
  <2> QED
    BY <2>1, <2>2, <2>3, Zenon
<1>7. \A b \in Aggs : EofIn(s, c, b)' <=> EofIn(s, c, b)
  <2> SUFFICES ASSUME NEW b \in Aggs PROVE EofIn(s, c, b)' <=> EofIn(s, c, b)
    OBVIOUS
  <2>1. CASE b # a
    BY <1>3, <2>1, Zenon DEF EofIn, SumP!EofMessage
  <2>2. CASE b = a
    <3>1. PICK e : e = SumP!EofMessage
      OBVIOUS
    <3>2. e # m /\ e' = e
      BY <1>1, <3>1
    <3>3. EofIn(s, c, a)' <=> \E i \in DOMAIN sent'[s][c][a] : sent'[s][c][a][i] = e
      BY <3>1 DEF EofIn, SumP!EofMessage
    <3>4. EofIn(s, c, a) <=> \E i \in DOMAIN sent[s][c][a] : sent[s][c][a][i] = e
      BY <3>1 DEF EofIn
    <3> QED
      BY <1>6, <2>2, <3>2, <3>3, <3>4
  <2> QED
    BY <2>1, <2>2
<1>8. n \in Places(s, c, f)'
  BY <1>1, <1>6 DEF Places, Channel, IsSumOf
<1>9. ASSUME NEW g \in Fruits, g # f
      PROVE  /\ Places(s, c, g)' = Places(s, c, g)
             /\ \A i \in Places(s, c, g) : Channel(s, c, g)'[i] = Channel(s, c, g)[i]
  <2>1. TargetAggregation[g] \in Aggs
    BY SumTypes
  <2>2. CASE TargetAggregation[g] # a
    BY <1>3, <2>1, <2>2, Zenon DEF Places, Channel
  <2>3. CASE TargetAggregation[g] = a
    <3>1. ~IsSumOf(m, g)
      BY <1>1, <1>9 DEF IsSumOf
    <3> QED
      BY <1>6, <2>3, <3>1 DEF Places, Channel
  <2> QED
    BY <2>2, <2>3
<1>10. \A g \in Fruits : g \in DOMAIN TableSent(s, c)' <=> g = f \/ g \in DOMAIN TableSent(s, c)
  BY <1>8, <1>9 DEF TableSent
<1>11. TableSent(s, c)'[f] = AddedUp(m.amount)
  <2>1. Channel(s, c, f)'[n] = m
    BY <1>1, <1>6 DEF Channel
  <2>2. \A i \in Places(s, c, f)' : i = n
    BY <1>1, <1>4, <1>6 DEF Places, Channel
  <2>3. (CHOOSE i : i \in Places(s, c, f)') = n
    BY <1>8, <2>2
  <2>4. TableSent(s, c)'[f] = AmountSent(s, c, f)'
    BY <1>8 DEF TableSent
  <2>5. AmountSent(s, c, f)' = AddedUp(Channel(s, c, f)'[CHOOSE i : i \in Places(s, c, f)'].amount)
    BY DEF AmountSent, AddedUp
  <2> QED
    BY <2>1, <2>3, <2>4, <2>5, Zenon
<1>12. ASSUME NEW g \in DOMAIN TableSent(s, c), g # f
       PROVE  TableSent(s, c)'[g] = TableSent(s, c)[g]
  <2>1. g \in Fruits /\ Places(s, c, g) # {}
    BY DEF TableSent
  <2>2. Places(s, c, g)' = Places(s, c, g)
    BY <1>9, <1>12, <2>1
  <2>3. PICK i : i = CHOOSE j : j \in Places(s, c, g)
    OBVIOUS
  <2>4. i \in Places(s, c, g) /\ i = CHOOSE j : j \in Places(s, c, g)'
    BY <2>1, <2>2, <2>3
  <2>5. Channel(s, c, g)'[i] = Channel(s, c, g)[i]
    BY <1>9, <1>12, <2>1, <2>4
  <2>6. AmountSent(s, c, g)' = AmountSent(s, c, g)
    BY <2>3, <2>4, <2>5 DEF AmountSent, AddedUp
  <2> QED
    BY <2>1, <2>2, <2>6 DEF TableSent
<1>13. f \notin DOMAIN TableSent(s, c)
  BY <1>4 DEF TableSent
<1>14. TableSent(s, c)' = Plus(TableSent(s, c), f, AddedUp(m.amount))
  <2>1. PICK old, new : old = TableSent(s, c) /\ new = TableSent(s, c)'
    OBVIOUS
  <2>2. IsTable(old)
    BY <2>1, TablesSent
  <2>3. new = [g \in DOMAIN new |-> new[g]]
    BY <2>1 DEF TableSent
  <2>4. DOMAIN new \subseteq Fruits
    BY <2>1 DEF TableSent
  <2>5. DOMAIN new = DOMAIN old \cup {f}
    BY <1>10, <2>1, <2>2, <2>4, Zenon DEF IsTable
  <2>6. f \notin DOMAIN old /\ new[f] = AddedUp(m.amount) /\ \A g \in DOMAIN old : new[g] = old[g]
    BY <1>11, <1>12, <1>13, <2>1
  <2> QED
    BY <2>1, <2>3, <2>5, <2>6 DEF Plus
<1> QED
  BY <1>1, <1>4, <1>7, <1>13, <1>14

\* An EOF that is sent adds nothing to it.
LEMMA EofSent ==
    ASSUME SumsInv, Unbroken, NEW s \in Sums, NEW t \in SumP!Threads, NEW c \in Clients,
           EofOut(s, t, c)
    PROVE  /\ ~EofIn(s, c, nextAgg[s][t])
           /\ TableSent(s, c)' = TableSent(s, c)
           /\ \A a \in Aggs : EofIn(s, c, a)' <=> (EofIn(s, c, a) \/ a = nextAgg[s][t])
<1> PICK a, m : a = nextAgg[s][t] /\ m = SumP!EofMessage
  OBVIOUS
<1>1. a \in Aggs /\ Sent(s, c, a, m) /\ SumP!Finalizes(s, t, c) /\ m \in SumP!Messages
  BY SumMessages DEF EofOut, Sent
<1>2. /\ sent'[s][c][a] = Append(sent[s][c][a], m) /\ sent[s][c][a] \in Seq(SumP!Messages)
      /\ \A b \in Aggs : b # a => sent'[s][c][b] = sent[s][c][b]
  <2>1. sent[s][c][a] \in Seq(SumP!Messages)
    BY <1>1, SumTypes
  <2>2. sent \in [Sums -> [Clients -> [Aggs -> Seq(SumP!Messages)]]]
    BY SumTypes
  <2> QED
    BY <1>1, <2>1, <2>2 DEF Sent
<1>3. ~EofIn(s, c, a)
  BY <1>1, ChannelFacts, SumTypes
<1>4. PICK n : n = Len(sent[s][c][a]) + 1
  OBVIOUS
<1>5. /\ n \notin DOMAIN sent[s][c][a] /\ DOMAIN sent'[s][c][a] = DOMAIN sent[s][c][a] \cup {n}
      /\ sent'[s][c][a][n] = m
      /\ \A i \in DOMAIN sent[s][c][a] : sent'[s][c][a][i] = sent[s][c][a][i]
  <2>1. PICK ch : ch = sent[s][c][a]
    OBVIOUS
  <2>2. /\ n \notin DOMAIN ch /\ DOMAIN Append(ch, m) = DOMAIN ch \cup {n}
        /\ Append(ch, m)[n] = m /\ \A i \in DOMAIN ch : Append(ch, m)[i] = ch[i]
    <3>1. ch \in Seq(SumP!Messages) /\ n = Len(ch) + 1
      BY <1>1, <1>2, <1>4, <2>1
    <3> QED
      BY <1>1, <3>1, Appended
  <2>3. sent'[s][c][a] = Append(ch, m)
    BY <1>2, <2>1
  <2> QED
    BY <2>1, <2>2, <2>3, Zenon
<1>6. \A b \in Aggs : EofIn(s, c, b)' <=> (EofIn(s, c, b) \/ b = a)
  BY <1>2, <1>5, Zenon DEF EofIn, SumP!EofMessage
<1>7. ASSUME NEW g \in Fruits
      PROVE  /\ Places(s, c, g)' = Places(s, c, g)
             /\ \A i \in Places(s, c, g) : Channel(s, c, g)'[i] = Channel(s, c, g)[i]
  <2>1. TargetAggregation[g] \in Aggs
    BY SumTypes
  <2>2. CASE TargetAggregation[g] # a
    BY <1>2, <2>1, <2>2 DEF Places, Channel
  <2>3. CASE TargetAggregation[g] = a
    <3>1. ~IsSumOf(m, g)
      BY SumMessages DEF IsSumOf
    <3> QED
      BY <1>5, <2>3, <3>1 DEF Places, Channel
  <2> QED
    BY <2>2, <2>3
<1>8. ASSUME NEW g \in Fruits, Places(s, c, g) # {} PROVE AmountSent(s, c, g)' = AmountSent(s, c, g)
  <2>1. PICK i : i = CHOOSE j : j \in Places(s, c, g)
    OBVIOUS
  <2>2. i \in Places(s, c, g) /\ i = CHOOSE j : j \in Places(s, c, g)'
    BY <1>7, <1>8, <2>1
  <2>3. Channel(s, c, g)'[i] = Channel(s, c, g)[i]
    BY <1>7, <2>2
  <2> QED
    BY <2>1, <2>2, <2>3 DEF AmountSent, AddedUp
<1>9. TableSent(s, c)' = TableSent(s, c)
  BY <1>7, <1>8 DEF TableSent
<1> QED
  BY <1>3, <1>6, <1>9

-----------------------------------------------------------------------------
(* A step of a Sum, seen by the aggregations.                              *)

\* What Sum s sent of client c to aggregation a.
Part(a, s, c) == Restricted(TableSent(s, c), FruitsFor(a, s, c))

\* What a Sum has ended for an aggregation stays as it is.
LEMMA EndedStays ==
    ASSUME SumsInv, Unbroken, NEW s \in Sums, SumMoves(s), NEW a \in Aggs, NEW q \in Sums,
           NEW d \in Clients, EofIn(q, d, a)
    PROVE  /\ FruitsFor(a, q, d)' = FruitsFor(a, q, d) /\ Part(a, q, d)' = Part(a, q, d)
           /\ EofIn(q, d, a)'
<1>1. TableSent(q, d)' = TableSent(q, d) => FruitsFor(a, q, d)' = FruitsFor(a, q, d)
                                            /\ Part(a, q, d)' = Part(a, q, d)
  <2>1. TableSent(q, d)' = TableSent(q, d) => FruitsFor(a, q, d)' = FruitsFor(a, q, d)
    BY DEF FruitsFor
  <2> QED
    BY <2>1 DEF Part, Restricted
<1>2. sent'[q][d] = sent[q][d] => TableSent(q, d)' = TableSent(q, d) /\ EofIn(q, d, a)'
  BY SameTables
<1>3. ASSUME NEW t \in SumP!Threads, NEW c \in Clients, NEW f \in Fruits, FruitOut(s, t, c, f)
      PROVE  /\ FruitsFor(a, q, d)' = FruitsFor(a, q, d) /\ Part(a, q, d)' = Part(a, q, d)
             /\ EofIn(q, d, a)'
  <2>1. CASE ~(q = s /\ d = c)
    <3>1. PICK b, m : b = TargetAggregation[f] /\ Sent(s, c, b, m)
      BY <1>3, Zenon DEF FruitOut, Sent
    <3>2. b \in Aggs
      BY <3>1, SumTypes
    <3>3. sent'[q][d] = sent[q][d]
      BY <2>1, <3>1, <3>2, SentOn
    <3> QED
      BY <1>1, <1>2, <3>3
  <2>2. CASE q = s /\ d = c
    <3>1. /\ TargetAggregation[f] # a /\ EofIn(q, d, a)' /\ f \notin DOMAIN TableSent(q, d)
          /\ TableSent(q, d)' =
                Plus(TableSent(q, d), f, AddedUp(SumP!AmountOf(snap[s][t], f)))
      BY <1>3, <2>2, FruitSent
    <3>2. PICK old, new, n : /\ old = TableSent(q, d) /\ new = TableSent(q, d)'
                             /\ n = AddedUp(SumP!AmountOf(snap[s][t], f))
      OBVIOUS
    <3>3. /\ DOMAIN new = DOMAIN old \cup {f} /\ f \notin DOMAIN old
          /\ \A g \in DOMAIN old : new[g] = old[g]
      BY <3>1, <3>2 DEF Plus
    <3>4. FruitsFor(a, q, d)' = FruitsFor(a, q, d)
      BY <3>1, <3>2, <3>3 DEF FruitsFor
    <3>5. \A g \in FruitsFor(a, q, d) : g \in DOMAIN old
      BY <3>2 DEF FruitsFor
    <3>6. Part(a, q, d)' = Part(a, q, d)
      BY <3>2, <3>3, <3>4, <3>5 DEF Part, Restricted
    <3> QED
      BY <3>1, <3>4, <3>6
  <2> QED
    BY <2>1, <2>2
<1>4. ASSUME NEW t \in SumP!Threads, NEW c \in Clients, EofOut(s, t, c)
      PROVE  TableSent(q, d)' = TableSent(q, d) /\ EofIn(q, d, a)'
  <2>1. CASE ~(q = s /\ d = c)
    <3>1. PICK b, m : b = nextAgg[s][t] /\ Sent(s, c, b, m) /\ b \in Aggs
      BY <1>4, Zenon DEF EofOut, Sent
    <3>2. sent'[q][d] = sent[q][d]
      BY <2>1, <3>1, SentOn
    <3> QED
      BY <1>2, <3>2
  <2>2. CASE q = s /\ d = c
    BY <1>4, <2>2, EofSent
  <2> QED
    BY <2>1, <2>2
<1>5. CASE NothingOut(s)
  <2>1. sent'[q][d] = sent[q][d]
    BY <1>5 DEF NothingOut
  <2> QED
    BY <1>1, <1>2, <2>1
<1> QED
  BY <1>1, <1>2, <1>3, <1>4, <1>5, SumCases DEF NothingOut

\* When its top was sent, every Sum has said that it is over.
LEMMA AllEnded ==
    ASSUME AggP!Invariant, NEW a \in Aggs, NEW c \in Clients, SentTop(a, c), NEW s \in Sums
    PROVE  EofIn(s, c, a)
<1>1. TopsByAgg[a][c] # <<>>
  BY DEF TopsByAgg, TopOut
<1>2. a \in AggP!Aggs
  BY DEF AggP!Aggs, Aggs
<1>3. AggP!IsPartialTop(TopsByAgg[a][c][1], a, c)
  BY <1>1, <1>2 DEF AggP!Invariant, AggP!OutputInv, AggP!OutputOK
<1>4. PromisedToAgg[a][s][c] # {}
  BY <1>3 DEF AggP!IsPartialTop
<1> QED
  BY <1>4 DEF PromisedToAgg, Promise

\* A partial top is of the parts that the Sums sent.
LEMMA TopOfParts ==
    ASSUME NEW a, NEW c, \A s \in Sums : Part(a, s, c)' = Part(a, s, c)
    PROVE  TopFor(a, c)' = TopFor(a, c)
<1>1. TablesFor(a, c)' = TablesFor(a, c)
  BY DEF TablesFor, Part
<1>2. PICK x : x = TablesFor(a, c)
  OBVIOUS
<1>3. TopFor(a, c) = TopOf(MergeOf(x))
  BY <1>2 DEF TopFor
<1>4. TopFor(a, c)' = TopOf(MergeOf(TablesFor(a, c)'))
  BY Zenon DEF TopFor, TopOf, MergeOf, TopFruits, IsTop, Restricted, Before
<1> QED
  BY <1>1, <1>2, <1>3, <1>4

\* So the tops that were sent stay what they are.
LEMMA TopsStay ==
    ASSUME SumsInv, Unbroken, AggP!Invariant, NEW s \in Sums, SumMoves(s), Forward(s)
    PROVE  /\ \A a \in Aggs, c \in Clients :
                /\ SentTop(a, c)' <=> SentTop(a, c)
                /\ SentTop(a, c) => TopFor(a, c)' = TopFor(a, c)
           /\ TopsByAgg' = TopsByAgg /\ SignalsByAgg' = SignalsByAgg
<1>1. UNCHANGED <<completed, topping, aggPc>>
  BY DEF Forward, aggVars
<1>2. \A a, c : /\ SentTop(a, c)' <=> SentTop(a, c)
                /\ Signalled(a, c)' <=> Signalled(a, c)
  BY <1>1 DEF SentTop, Signalled
<1>3. ASSUME NEW a \in Aggs, NEW c \in Clients, SentTop(a, c)
      PROVE  TopFor(a, c)' = TopFor(a, c)
  <2>1. \A q \in Sums : Part(a, q, c)' = Part(a, q, c)
    BY <1>3, AllEnded, EndedStays
  <2> QED
    BY <2>1, TopOfParts
<1>4. \A a \in Aggs, c \in Clients : TopOut(a, c)' = TopOut(a, c)
  BY <1>2, <1>3 DEF TopOut
<1> QED
  BY <1>2, <1>3, <1>4 DEF TopsByAgg, SignalsByAgg


-----------------------------------------------------------------------------
(* What the messages carry.                                                *)

\* A message that has content keeps what is said of the channels.
LEMMA ContentSent ==
    ASSUME SumsInv, SentContent, NEW s \in Sums, NEW c \in Clients, NEW a \in Aggs,
           NEW m \in SumP!Messages, Sent(s, c, a, m), HasContent(m, a)
    PROVE  SentContent'
<1> SUFFICES ASSUME NEW q \in Sums, NEW d \in Clients, NEW b \in Aggs,
                    NEW i \in DOMAIN sent'[q][d][b]
             PROVE  HasContent(sent'[q][d][b][i], b)
  BY DEF SentContent, HasContent
<1>1. CASE ~(q = s /\ d = c /\ b = a)
  <2>1. sent'[q][d][b] = sent[q][d][b]
    BY <1>1, SentOn
  <2> QED
    BY <2>1 DEF SentContent
<1>2. CASE q = s /\ d = c /\ b = a
  <2>1. PICK ch : ch = sent[s][c][a]
    OBVIOUS
  <2>2. ch \in Seq(SumP!Messages)
    BY <2>1, SumTypes
  <2>3. /\ DOMAIN Append(ch, m) = DOMAIN ch \cup {Len(ch) + 1}
        /\ Append(ch, m)[Len(ch) + 1] = m /\ \A j \in DOMAIN ch : Append(ch, m)[j] = ch[j]
    BY <2>2, Appended
  <2>4. sent'[q][d][b] = Append(ch, m)
    BY <1>2, <2>1, SentOn
  <2>5. \A j \in DOMAIN ch : HasContent(ch[j], a)
    BY <2>1 DEF SentContent
  <2> QED
    BY <1>2, <2>3, <2>4, <2>5
<1> QED
  BY <1>1, <1>2

\* A Sum keeps it: it sends the fruits of which its copy has something.
LEMMA ContentOfSum ==
    ASSUME SumsInv, Unbroken, ContentInv, NEW s \in Sums, SumMoves(s)
    PROVE  ContentInv'
<1>1. /\ left \in [Sums -> [SumP!Threads -> SUBSET Fruits]]
      /\ snap \in [Sums -> [SumP!Threads -> SumP!Bag]]
  BY SumTypes
<1>2. ASSUME NEW t \in SumP!Threads, NEW c \in Clients, NEW f \in Fruits, FruitOut(s, t, c, f)
      PROVE  ContentInv'
  <2> PICK a, m : a = TargetAggregation[f] /\ m = SumP!PartialSum(f, SumP!AmountOf(snap[s][t], f))
    OBVIOUS
  <2>1. /\ Sent(s, c, a, m) /\ f \in left[s][t]
        /\ left' = [left EXCEPT ![s][t] = @ \ {f}] /\ snap' = snap
    BY <1>2 DEF FruitOut, Sent
  <2>2. /\ a \in Aggs /\ m \in SumP!Messages /\ m.fruit = f
        /\ m.amount = SumP!AmountOf(snap[s][t], f)
    BY <1>1, SumTypes, SumMessages
  <2>3. HasContent(m, a)
    <3>1. PICK r \in Records : FruitOf[r] = f /\ snap[s][t][r] > 0
      BY <2>1 DEF ContentInv, LeftContent
    <3>2. m.amount[r] > 0
      BY <2>2, <3>1 DEF SumP!AmountOf
    <3> QED
      BY <2>2, <3>2 DEF HasContent
  <2>4. SentContent'
    BY <2>1, <2>2, <2>3, ContentSent DEF ContentInv
  <2>5. \A q \in Sums, u \in SumP!Threads : left'[q][u] \subseteq left[q][u]
    BY <1>1, <2>1
  <2> QED
    BY <2>1, <2>4, <2>5 DEF ContentInv, LeftContent
<1>3. ASSUME NEW t \in SumP!Threads, NEW c \in Clients, EofOut(s, t, c) PROVE ContentInv'
  <2> PICK a, m : a = nextAgg[s][t] /\ m = SumP!EofMessage
    OBVIOUS
  <2>1. Sent(s, c, a, m) /\ a \in Aggs /\ left' = left /\ snap' = snap
    BY <1>3 DEF EofOut, Sent
  <2>2. m \in SumP!Messages /\ HasContent(m, a)
    BY SumMessages DEF HasContent
  <2> QED
    BY <2>1, <2>2, ContentSent DEF ContentInv, LeftContent
<1>4. CASE NothingOut(s)
  <2>1. SentContent'
    BY <1>4 DEF NothingOut, ContentInv, SentContent, HasContent
  <2>2. CASE UNCHANGED <<snap, left>>
    BY <2>1, <2>2 DEF ContentInv, LeftContent
  <2>3. CASE \E t \in SumP!Threads, c \in Clients :
               /\ snap' = [snap EXCEPT ![s][t] = SumP!EntryOf(amounts[s], c)]
               /\ left' = [left EXCEPT ![s][t] = SumP!FruitsIn(SumP!EntryOf(amounts[s], c))]
    <3>1. PICK t \in SumP!Threads, c \in Clients :
               /\ snap' = [snap EXCEPT ![s][t] = SumP!EntryOf(amounts[s], c)]
               /\ left' = [left EXCEPT ![s][t] = SumP!FruitsIn(SumP!EntryOf(amounts[s], c))]
      BY <2>3, Zenon
    <3>2. PICK bag : bag = SumP!EntryOf(amounts[s], c)
      OBVIOUS
    <3>3. \A f \in SumP!FruitsIn(bag) : \E r \in Records : FruitOf[r] = f /\ bag[r] > 0
      BY DEF SumP!FruitsIn
    <3>4. snap' = [snap EXCEPT ![s][t] = bag] /\ left' = [left EXCEPT ![s][t] = SumP!FruitsIn(bag)]
      BY <3>1, <3>2
    <3>5. \A q \in Sums, u \in SumP!Threads :
            IF q = s /\ u = t THEN snap'[q][u] = bag /\ left'[q][u] = SumP!FruitsIn(bag)
            ELSE snap'[q][u] = snap[q][u] /\ left'[q][u] = left[q][u]
      BY <1>1, <3>4
    <3>6. ASSUME NEW q \in Sums, NEW u \in SumP!Threads, NEW f \in left'[q][u]
          PROVE  \E r \in Records : FruitOf[r] = f /\ snap'[q][u][r] > 0
      <4>1. CASE q = s /\ u = t
        BY <3>3, <3>5, <4>1
      <4>2. CASE ~(q = s /\ u = t)
        <5>1. \E r \in Records : FruitOf[r] = f /\ snap[q][u][r] > 0
          BY <3>5, <3>6, <4>2 DEF ContentInv, LeftContent
        <5> QED
          BY <3>5, <4>2, <5>1
      <4> QED
        BY <4>1, <4>2
    <3> QED
      BY <2>1, <3>6 DEF ContentInv, LeftContent
  <2> QED
    BY <1>4, <2>2, <2>3 DEF NothingOut
<1> QED
  BY <1>2, <1>3, <1>4, SumCases

\* Nobody else changes it.
LEMMA ContentStep == SumsInv /\ Unbroken /\ ContentInv /\ [Next]_vars => ContentInv'
<1> SUFFICES ASSUME SumsInv, Unbroken, ContentInv, [Next]_vars PROVE ContentInv'
  OBVIOUS
<1>1. UNCHANGED <<sent, left, snap>> => ContentInv'
  BY DEF ContentInv, LeftContent, SentContent, HasContent
<1>2. Publishes => UNCHANGED <<sent, left, snap>>
  BY DEF Publishes, SumP!PublishData, SumP!PublishEof, SumP!localVars, SumP!outputVars
<1>3. UNCHANGED sumVars \/ UNCHANGED vars => UNCHANGED <<sent, left, snap>>
  BY DEF sumVars, vars
<1> QED
  BY <1>1, <1>2, <1>3, ContentOfSum, StepCases

-----------------------------------------------------------------------------
(* The aggregations keep their invariant when a Sum sends.                 *)

\* The variables that stand for those of a Sum have their types.
MappedTypes ==
    /\ OfferedBySum \in [Sums -> [Clients -> AggP!Tables]]
    /\ LeftBySum \in [Sums -> [Clients -> SUBSET Fruits]]
    /\ NextBySum \in [Sums -> [Clients -> 0 .. AGGREGATION_AMOUNT]]
    /\ AggP!SumInv

\* What stands for the Sum of AggregationFilter has the types it has there.
LEMMA MappedHaveTypes == SumsInv => MappedTypes
<1> SUFFICES ASSUME SumsInv PROVE MappedTypes
  OBVIOUS
<1>1. "data" \in SumP!Threads /\ "control" \in SumP!Threads
  BY DEF SumP!Threads
<1>2. ASSUME NEW s \in Sums, NEW t \in SumP!Threads
      PROVE  DOMAIN Copies(s)[t] = Fruits /\ Copies(s)[t] \in AggP!Tables
  <2>1. snap[s][t] \in SumP!Bag
    BY SumTypes
  <2>2. \A f \in Fruits : AddedUp(SumP!AmountOf(snap[s][t], f)) \in Nat
    BY <2>1, SumMessages, AddedUpIsNumber
  <2>3. Copies(s)[t] = [f \in Fruits |-> AddedUp(SumP!AmountOf(snap[s][t], f))]
    BY DEF Copies
  <2>4. Copies(s)[t] \in [Fruits -> Nat]
    BY <2>2, <2>3
  <2> QED
    BY <2>3, <2>4 DEF AggP!Tables
<1>3. NoFruits \in AggP!Tables /\ DOMAIN NoFruits = {}
  <2>1. NoFruits \in [{} -> Nat]
    BY DEF NoFruits
  <2> QED
    BY <2>1, Zenon DEF AggP!Tables
<1>4. ASSUME NEW s \in Sums, NEW c \in Clients
      PROVE  /\ Offered(s, c) \in AggP!Tables
             /\ LeftOver(s, c) \in SUBSET Fruits
             /\ NextAgg(s, c) \in 0 .. AGGREGATION_AMOUNT
             /\ LeftOver(s, c) \subseteq DOMAIN Offered(s, c)
  <2>1. \A t \in SumP!Threads : left[s][t] \in SUBSET Fruits /\ nextAgg[s][t] \in 0 .. AGGREGATION_AMOUNT
    BY SumTypes
  <2>2. 0 \in 0 .. AGGREGATION_AMOUNT
    BY SumTypes
  <2> QED
    BY <1>1, <1>2, <1>3, <2>1, <2>2 DEF Offered, LeftOver, NextAgg, OfFinalizer
<1> QED
  BY <1>4 DEF MappedTypes, OfferedBySum, LeftBySum, NextBySum, AggP!SumInv

\* A step that leaves what the aggregations get and have alone.
LEMMA AggregationsAlone ==
    ASSUME AggP!Invariant, MappedTypes',
           UNCHANGED <<inbox, aggVars, FirstBySum, PromisedToAgg, TopsByAgg, SignalsByAgg>>
    PROVE  AggP!Invariant'
<1>1. UNCHANGED <<aggConsumer, aggPc, aggEof, fruitTop, sumsReceived, receivedPartialSums,
                  receivedEofs, completed, topping, payload, outLink, coordLink>>
  BY DEF aggVars
<1>2. /\ AggP!TypeInv /\ AggP!QueueInv /\ AggP!TopInv /\ AggP!EofInv /\ AggP!CountInv
      /\ AggP!OutputInv
  BY DEF AggP!Invariant
<1>3. AggP!TypeInv'
  BY <1>1, <1>2, Zenon DEF MappedTypes, AggP!TypeInv, AggP!Aggs, AggP!SUM_AMOUNT, AggP!Messages,
     AggP!EofMessage, AggP!LinkStates, AggP!Tables
<1>4. AggP!QueueInv' /\ AggP!TopInv' /\ AggP!EofInv' /\ AggP!CountInv' /\ AggP!Grows
  BY <1>1, <1>2, AggregationsAssumed, AggP!Frames
<1>5. AggP!OutputInv'
  BY <1>1, <1>2, <1>4, AggregationsAssumed, AggP!OutputFrame
<1>6. AggP!SumInv'
  BY DEF MappedTypes
<1> QED
  BY <1>3, <1>4, <1>5, <1>6 DEF AggP!Invariant

\* The thread that finalizes a client is the only one, and finalizes no other.
LEMMA Finalizer ==
    ASSUME SumsInv, Unbroken, NEW s \in Sums, NEW t \in SumP!Threads, NEW c \in Clients,
           SumP!Finalizes(s, t, c)
    PROVE  /\ \A v, none : OfFinalizer(s, c, v, none) = v[t]
           /\ \A d \in Clients : SumP!Finalizes(s, t, d) => d = c
<1>1. SumP!ThreadInv
  BY SumFacts
<1>2. ~(SumP!Finalizes(s, "data", c) /\ SumP!Finalizes(s, "control", c))
  BY <1>1 DEF SumP!ThreadInv
<1>3. \A d \in eof[s][t] : d = c
  BY <1>1 DEF SumP!ThreadInv, SumP!Finalizes
<1> QED
  BY <1>2, <1>3 DEF OfFinalizer, SumP!Finalizes, SumP!Threads

\* What a Sum sends of one client says nothing of the others.
LEMMA OthersSame ==
    ASSUME SumsInv, NEW s \in Sums, NEW c \in Clients, NEW a \in Aggs, NEW m, Sent(s, c, a, m),
           NEW q \in Sums, NEW d \in Clients, ~(q = s /\ d = c)
    PROVE  /\ TableSent(q, d)' = TableSent(q, d)
           /\ \A b : EofIn(q, d, b)' <=> EofIn(q, d, b)
           /\ \A b : FruitsFor(b, q, d)' = FruitsFor(b, q, d)
<1>1. sent'[q][d] = sent[q][d]
  BY SentOn
<1> QED
  BY <1>1, SameTables

\* Nor do the locals of the thread that sends it.
LEMMA LocalsOfOthers ==
    ASSUME SumsInv, Unbroken, NEW s \in Sums, NEW t \in SumP!Threads, NEW c \in Clients,
           SumP!Finalizes(s, t, c),
           NEW q \in Sums, NEW d \in Clients, ~(q = s /\ d = c),
           NEW v, NEW w, \A u \in SumP!Threads : ~(q = s /\ u = t) => w[u] = v[u], NEW none
    PROVE  OfFinalizer(q, d, w, none) = OfFinalizer(q, d, v, none)
<1>1. "data" \in SumP!Threads /\ "control" \in SumP!Threads
  BY DEF SumP!Threads
<1>2. \A u \in SumP!Threads : SumP!Finalizes(q, u, d) => ~(q = s /\ u = t)
  BY Finalizer
<1> QED
  BY <1>1, <1>2 DEF OfFinalizer

\* While nobody begins or ends anything, the locals are those of the same threads.
LEMMA SameFinalizers ==
    ASSUME UNCHANGED <<pc, eof>>
    PROVE  \A s, c : /\ LeftOver(s, c)' = OfFinalizer(s, c, left'[s], {})
                     /\ NextAgg(s, c)' = OfFinalizer(s, c, nextAgg'[s], 0)
                     /\ snap' = snap => Offered(s, c)' = Offered(s, c)
<1>1. \A s, t, c : SumP!Finalizes(s, t, c)' <=> SumP!Finalizes(s, t, c)
  BY DEF SumP!Finalizes
<1>2. \A s : snap' = snap => Copies(s)' = Copies(s)
  BY DEF Copies, AddedUp, SumP!AmountOf, SumP!Threads
<1> QED
  BY <1>1, <1>2 DEF LeftOver, NextAgg, Offered, OfFinalizer, NoFruits

\* A partial sum is sent as AggregationFilter says it.
LEMMA SendsFruit ==
    ASSUME SumsInv, Unbroken, ContentInv, AggP!Invariant,
           NEW s \in Sums, NEW t \in SumP!Threads, NEW c \in Clients, NEW f \in Fruits,
           SumMoves(s), FruitOut(s, t, c, f), Forward(s)
    PROVE  AggP!SumSendsFruit(s, c, f)
<1> PICK a, m, n : /\ a = TargetAggregation[f]
                   /\ m = SumP!PartialSum(f, SumP!AmountOf(snap[s][t], f))
                   /\ n = AddedUp(SumP!AmountOf(snap[s][t], f))
  OBVIOUS
<1>1. /\ a \in Aggs /\ m \in SumP!Messages /\ m.fruit = f /\ m # SumP!EofMessage
      /\ m.amount = SumP!AmountOf(snap[s][t], f)
  BY SumTypes, SumMessages
<1>2. /\ SumP!Finalizes(s, t, c) /\ f \in left[s][t] /\ Sent(s, c, a, m)
      /\ left' = [left EXCEPT ![s][t] = @ \ {f}]
      /\ UNCHANGED <<pc, eof, snap, nextAgg>>
  BY DEF FruitOut, Sent
<1>0. SumP!Finalizes(s, t, c) /\ Sent(s, c, a, m) /\ a \in Aggs /\ m \in SumP!Messages
  BY <1>1, <1>2
<1>3. \A v, none : OfFinalizer(s, c, v, none) = v[t]
  BY <1>0, Finalizer
<1>4. OfferedBySum[s][c][f] = n
  <2>1. Offered(s, c) = Copies(s)[t]
    BY <1>3 DEF Offered
  <2> QED
    BY <2>1 DEF OfferedBySum, Copies
<1>5. f \in LeftBySum[s][c]
  BY <1>2, <1>3 DEF LeftBySum, LeftOver
<1>6. LeftBySum' = [LeftBySum EXCEPT ![s][c] = @ \ {f}]
  <2>1. left'[s][t] = left[s][t] \ {f} /\ \A q \in Sums, u \in SumP!Threads :
          ~(q = s /\ u = t) => left'[q][u] = left[q][u]
    BY <1>2, SumTypes
  <2>2. LeftOver(s, c)' = LeftOver(s, c) \ {f}
    <3>1. LeftOver(s, c)' = OfFinalizer(s, c, left'[s], {})
      BY <1>2, SameFinalizers, Zenon
    <3>2. OfFinalizer(s, c, left'[s], {}) = left'[s][t] /\ LeftOver(s, c) = left[s][t]
      BY <1>3 DEF LeftOver
    <3> QED
      BY <2>1, <3>1, <3>2
  <2>3. ASSUME NEW q \in Sums, NEW d \in Clients, ~(q = s /\ d = c)
        PROVE  LeftOver(q, d)' = LeftOver(q, d)
    <3>1. \A u \in SumP!Threads : ~(q = s /\ u = t) => left'[q][u] = left[q][u]
      BY <2>1
    <3>2. PICK v, w : v = left[q] /\ w = left'[q]
      OBVIOUS
    <3>3. \A u \in SumP!Threads : ~(q = s /\ u = t) => w[u] = v[u]
      BY <3>1, <3>2
    <3>4. OfFinalizer(q, d, w, {}) = OfFinalizer(q, d, v, {})
      BY <1>0, <2>3, <3>3, LocalsOfOthers
    <3> QED
      BY <1>2, <3>2, <3>4, SameFinalizers, Zenon DEF LeftOver
  <2>4. PICK g, h : g = LeftBySum /\ h = LeftBySum'
    OBVIOUS
  <2>5. /\ g = [q \in Sums |-> [d \in Clients |-> g[q][d]]]
        /\ h = [q \in Sums |-> [d \in Clients |-> h[q][d]]]
        /\ \A q \in Sums, d \in Clients : g[q][d] = LeftOver(q, d) /\ h[q][d] = LeftOver(q, d)'
    BY <2>4 DEF LeftBySum
  <2>6. h = [g EXCEPT ![s][c] = h[s][c]]
    BY <2>3, <2>5
  <2>7. h[s][c] = g[s][c] \ {f}
    BY <2>2, <2>5
  <2> QED
    BY <2>4, <2>6, <2>7
<1>7. inbox' = [inbox EXCEPT ![a][s][c] = Append(@, AggP!PartialSum(f, n))]
  <2>1. inbox \in [Aggs -> [Sums -> [Clients -> Seq(AggP!Messages)]]]
    BY DEF AggP!Invariant, AggP!TypeInv, AggP!Aggs, Aggs
  <2>2. OnTheWire(m) = AggP!PartialSum(f, n)
    BY <1>1 DEF OnTheWire, Sum!EofMessage, SumP!EofMessage, Aggregation!PartialSum, AggP!PartialSum
  <2>3. PICK w : w = AggP!PartialSum(f, n)
    OBVIOUS
  <2>4. w = OnTheWire(m)
    BY <2>2, <2>3
  <2>5. OneMore(inbox', inbox, a, s, c, w)
    BY <1>0, <2>1, <2>4, ForwardOne
  <2> QED
    BY <2>3, <2>5 DEF OneMore
<1>8. /\ f \notin DOMAIN FirstBySum[s][c]
      /\ FirstBySum' = [FirstBySum EXCEPT ![s][c] = AggP!Plus(@, f, n)]
  <2>1. f \notin DOMAIN TableSent(s, c) /\ TableSent(s, c)' = Plus(TableSent(s, c), f, n)
    BY FruitSent
  <2>2. \A x : AggP!Plus(x, f, n) = Plus(x, f, n)
    BY DEF Plus, AggP!Plus
  <2>3. PICK g, h : g = FirstBySum /\ h = FirstBySum'
    OBVIOUS
  <2>4. /\ g = [q \in Sums |-> [d \in Clients |-> g[q][d]]]
        /\ h = [q \in Sums |-> [d \in Clients |-> h[q][d]]]
        /\ \A q \in Sums, d \in Clients : g[q][d] = TableSent(q, d) /\ h[q][d] = TableSent(q, d)'
    BY <2>3 DEF FirstBySum
  <2>5. \A q \in Sums, d \in Clients : ~(q = s /\ d = c) => TableSent(q, d)' = TableSent(q, d)
    BY <1>1, <1>2, OthersSame
  <2>6. h = [g EXCEPT ![s][c] = h[s][c]]
    BY <2>4, <2>5
  <2>7. h[s][c] = AggP!Plus(g[s][c], f, n) /\ f \notin DOMAIN g[s][c]
    BY <2>1, <2>2, <2>4
  <2> QED
    BY <2>3, <2>6, <2>7
<1>9. PromisedToAgg' = PromisedToAgg
  <2>1. ASSUME NEW b \in Aggs, NEW q \in Sums, NEW d \in Clients
        PROVE  Promise(b, q, d)' = Promise(b, q, d)
    <3>1. EofIn(q, d, b)' <=> EofIn(q, d, b)
      BY <1>1, <1>2, OthersSame, FruitSent
    <3>2. EofIn(q, d, b) => FruitsFor(b, q, d)' = FruitsFor(b, q, d)
      BY EndedStays
    <3> QED
      BY <3>1, <3>2 DEF Promise
  <2> QED
    BY <2>1 DEF PromisedToAgg
<1>10. OfferedBySum' = OfferedBySum /\ NextBySum' = NextBySum
  BY <1>2, SameFinalizers DEF OfferedBySum, NextBySum, NextAgg
<1>11. TopsByAgg' = TopsByAgg /\ SignalsByAgg' = SignalsByAgg
  BY TopsStay
<1>12. UNCHANGED aggVars /\ aggConsumer[a] = "up"
  BY <1>1 DEF Forward, Unbroken
<1> QED
  BY <1>4, <1>5, <1>6, <1>7, <1>8, <1>9, <1>10, <1>11, <1>12
     DEF AggP!SumSendsFruit, AggP!HasQueue, AggP!Queued, AggP!clientVars, AggP!outputVars, aggVars

\* So is an EOF.
LEMMA SendsEof ==
    ASSUME SumsInv, Unbroken, ContentInv, AggP!Invariant,
           NEW s \in Sums, NEW t \in SumP!Threads, NEW c \in Clients,
           SumMoves(s), EofOut(s, t, c), Forward(s)
    PROVE  AggP!SumSendsEof(s, c) /\ NextBySum[s][c] = nextAgg[s][t]
<1> PICK a, m : a = nextAgg[s][t] /\ m = SumP!EofMessage
  OBVIOUS
<1>1. /\ SumP!Finalizes(s, t, c) /\ left[s][t] = {} /\ a \in Aggs
      /\ Sent(s, c, a, m) /\ nextAgg' = [nextAgg EXCEPT ![s][t] = @ + 1]
      /\ UNCHANGED <<pc, eof, snap, left>>
  BY DEF EofOut, Sent
<1>0. SumP!Finalizes(s, t, c) /\ Sent(s, c, a, m) /\ a \in Aggs /\ m \in SumP!Messages
  BY <1>1, SumMessages
<1>2. \A v, none : OfFinalizer(s, c, v, none) = v[t]
  BY <1>0, Finalizer
<1>3. NextBySum[s][c] = a /\ LeftBySum[s][c] = {}
  BY <1>1, <1>2 DEF NextBySum, NextAgg, LeftBySum, LeftOver
<1>4. NextBySum' = [NextBySum EXCEPT ![s][c] = @ + 1]
  <2>1. nextAgg'[s][t] = a + 1 /\ \A q \in Sums, u \in SumP!Threads :
          ~(q = s /\ u = t) => nextAgg'[q][u] = nextAgg[q][u]
    BY <1>1, SumTypes
  <2>2. NextAgg(s, c)' = a + 1
    <3>1. NextAgg(s, c)' = OfFinalizer(s, c, nextAgg'[s], 0)
      BY <1>1, SameFinalizers
    <3>2. OfFinalizer(s, c, nextAgg'[s], 0) = nextAgg'[s][t]
      BY <1>2
    <3> QED
      BY <2>1, <3>1, <3>2
  <2>3. ASSUME NEW q \in Sums, NEW d \in Clients, ~(q = s /\ d = c)
        PROVE  NextAgg(q, d)' = NextAgg(q, d)
    <3>1. PICK v, w : v = nextAgg[q] /\ w = nextAgg'[q]
      OBVIOUS
    <3>2. \A u \in SumP!Threads : ~(q = s /\ u = t) => w[u] = v[u]
      BY <2>1, <3>1
    <3>3. OfFinalizer(q, d, w, 0) = OfFinalizer(q, d, v, 0)
      BY <1>0, <2>3, <3>2, LocalsOfOthers
    <3> QED
      BY <1>1, <3>1, <3>3, SameFinalizers DEF NextAgg
  <2>4. PICK g, h : g = NextBySum /\ h = NextBySum'
    OBVIOUS
  <2>5. /\ g = [q \in Sums |-> [d \in Clients |-> g[q][d]]]
        /\ h = [q \in Sums |-> [d \in Clients |-> h[q][d]]]
        /\ \A q \in Sums, d \in Clients : g[q][d] = NextAgg(q, d) /\ h[q][d] = NextAgg(q, d)'
    BY <2>4 DEF NextBySum
  <2>6. h = [g EXCEPT ![s][c] = h[s][c]]
    BY <2>3, <2>5
  <2>7. h[s][c] = g[s][c] + 1
    BY <1>3, <2>2, <2>4, <2>5
  <2> QED
    BY <2>4, <2>6, <2>7
<1>5. inbox' = [inbox EXCEPT ![a][s][c] = Append(@, AggP!EofMessage)]
  <2>1. inbox \in [Aggs -> [Sums -> [Clients -> Seq(AggP!Messages)]]]
    BY DEF AggP!Invariant, AggP!TypeInv, AggP!Aggs, Aggs
  <2>2. PICK w : w = AggP!EofMessage
    OBVIOUS
  <2>3. w = OnTheWire(m)
    BY <2>2 DEF OnTheWire, Sum!EofMessage, SumP!EofMessage, Aggregation!EofMessage, AggP!EofMessage
  <2>4. OneMore(inbox', inbox, a, s, c, w)
    BY <1>0, <2>1, <2>3, ForwardOne
  <2> QED
    BY <2>2, <2>4 DEF OneMore
<1>6. /\ TableSent(s, c)' = TableSent(s, c) /\ ~EofIn(s, c, a)
      /\ \A b \in Aggs : EofIn(s, c, b)' <=> (EofIn(s, c, b) \/ b = a)
  BY EofSent
<1>7. \A q \in Sums, d \in Clients : TableSent(q, d)' = TableSent(q, d)
  BY <1>0, <1>6, OthersSame
<1>8. FirstBySum' = FirstBySum
  BY <1>7 DEF FirstBySum
<1>9. \A b \in Aggs, q \in Sums, d \in Clients : FruitsFor(b, q, d)' = FruitsFor(b, q, d)
  BY <1>7 DEF FruitsFor
<1>10. AggP!FruitsQueued(a, s, c) = FruitsFor(a, s, c)
  BY DEF AggP!FruitsQueued, FruitsFor, FirstBySum
<1>11. /\ PromisedToAgg[a][s][c] = {}
       /\ PromisedToAgg' = [PromisedToAgg EXCEPT ![a][s][c] = {FruitsFor(a, s, c)}]
  <2>1. Promise(a, s, c) = {} /\ Promise(a, s, c)' = {FruitsFor(a, s, c)}
    BY <1>0, <1>6, <1>9 DEF Promise
  <2>2. ASSUME NEW b \in Aggs, NEW q \in Sums, NEW d \in Clients, ~(b = a /\ q = s /\ d = c)
        PROVE  Promise(b, q, d)' = Promise(b, q, d)
    <3>1. EofIn(q, d, b)' <=> EofIn(q, d, b)
      BY <1>0, <1>6, <2>2, OthersSame
    <3> QED
      BY <1>9, <3>1 DEF Promise
  <2>3. PICK g, h : g = PromisedToAgg /\ h = PromisedToAgg'
    OBVIOUS
  <2>4. /\ g = [b \in Aggs |-> [q \in Sums |-> [d \in Clients |-> g[b][q][d]]]]
        /\ h = [b \in Aggs |-> [q \in Sums |-> [d \in Clients |-> h[b][q][d]]]]
        /\ \A b \in Aggs, q \in Sums, d \in Clients :
             g[b][q][d] = Promise(b, q, d) /\ h[b][q][d] = Promise(b, q, d)'
    BY <2>3 DEF PromisedToAgg
  <2>5. PICK p : p = FruitsFor(a, s, c)
    OBVIOUS
  <2>6. h[a][s][c] = {p} /\ \A b \in Aggs, q \in Sums, d \in Clients :
          ~(b = a /\ q = s /\ d = c) => h[b][q][d] = g[b][q][d]
    BY <1>0, <2>1, <2>2, <2>4, <2>5
  <2>7. h = [g EXCEPT ![a][s][c] = {p}]
    <3>1. \A b \in Aggs : b # a => h[b] = g[b]
      BY <2>4, <2>6
    <3>2. \A q \in Sums : q # s => h[a][q] = g[a][q]
      BY <1>0, <2>4, <2>6
    <3>3. h[a][s] = [g[a][s] EXCEPT ![c] = {p}]
      <4>1. /\ g[a][s] = [d \in Clients |-> Promise(a, s, d)]
            /\ h[a][s] = [d \in Clients |-> Promise(a, s, d)']
        BY <1>0, <2>3 DEF PromisedToAgg
      <4>2. PICK u, v : u = g[a][s] /\ v = h[a][s]
        OBVIOUS
      <4>3. /\ u = [d \in Clients |-> u[d]] /\ v = [d \in Clients |-> v[d]]
            /\ v[c] = {p} /\ \A d \in Clients : d # c => v[d] = u[d]
        BY <1>0, <2>6, <4>1, <4>2
      <4>4. v = [u EXCEPT ![c] = {p}]
        BY <4>3
      <4> QED
        BY <4>2, <4>4
    <3>4. h[a] = [g[a] EXCEPT ![s] = h[a][s]]
      BY <1>0, <2>4, <3>2, Zenon
    <3>5. h = [g EXCEPT ![a] = h[a]]
      BY <1>0, <2>4, <3>1, Zenon
    <3> QED
      BY <3>3, <3>4, <3>5
  <2>8. g[a][s][c] = {}
    BY <1>0, <2>1, <2>4
  <2> QED
    BY <2>3, <2>5, <2>7, <2>8
<1>12. OfferedBySum' = OfferedBySum /\ LeftBySum' = LeftBySum
  BY <1>1, SameFinalizers DEF OfferedBySum, LeftBySum, LeftOver
<1>13. TopsByAgg' = TopsByAgg /\ SignalsByAgg' = SignalsByAgg
  BY TopsStay
<1>14. UNCHANGED aggVars /\ aggConsumer[a] = "up" /\ a \in AggP!Aggs
  BY <1>0 DEF Forward, Unbroken, AggP!Aggs, Aggs
<1> QED
  BY <1>3, <1>4, <1>5, <1>8, <1>10, <1>11, <1>12, <1>13, <1>14
     DEF AggP!SumSendsEof, AggP!HasQueue, AggP!Queued, AggP!clientVars, AggP!outputVars, aggVars

\* A step in which no Sum sends and no aggregation does anything.
LEMMA NothingSent ==
    ASSUME AggP!Invariant, SumsInv', UNCHANGED <<sent, inbox, aggVars>>
    PROVE  /\ AggP!Invariant'
           /\ \A a \in Aggs, c \in Clients : /\ TopFor(a, c)' = TopFor(a, c)
                                             /\ SentTop(a, c)' <=> SentTop(a, c)
           /\ TopsByAgg' = TopsByAgg /\ SignalsByAgg' = SignalsByAgg
<1>1. UNCHANGED <<completed, topping, aggPc>>
  BY DEF aggVars
<1>2. ASSUME NEW s \in Sums, NEW c \in Clients
      PROVE  /\ TableSent(s, c)' = TableSent(s, c)
             /\ \A a \in Aggs : /\ Promise(a, s, c)' = Promise(a, s, c)
                                /\ Part(a, s, c)' = Part(a, s, c)
  <2>1. sent'[s][c] = sent[s][c]
    OBVIOUS
  <2>2. /\ TableSent(s, c)' = TableSent(s, c) /\ \A a : EofIn(s, c, a)' <=> EofIn(s, c, a)
        /\ \A a : FruitsFor(a, s, c)' = FruitsFor(a, s, c)
    BY <2>1, SameTables
  <2> QED
    BY <2>2 DEF Promise, Part, Restricted
<1>3. \A a \in Aggs, c \in Clients : TopFor(a, c)' = TopFor(a, c)
  BY <1>2, TopOfParts
<1>4. \A a, c : (SentTop(a, c)' <=> SentTop(a, c)) /\ (Signalled(a, c)' <=> Signalled(a, c))
  BY <1>1 DEF SentTop, Signalled
<1>5. TopsByAgg' = TopsByAgg /\ SignalsByAgg' = SignalsByAgg
  BY <1>3, <1>4 DEF TopsByAgg, TopOut, SignalsByAgg
<1>6. FirstBySum' = FirstBySum /\ PromisedToAgg' = PromisedToAgg
  BY <1>2 DEF FirstBySum, PromisedToAgg
<1>7. MappedTypes'
  <2>1. SumsInv' => MappedTypes'
    BY MappedHaveTypes, PTL
  <2> QED
    BY <2>1
<1>8. AggP!Invariant'
  BY <1>5, <1>6, <1>7, AggregationsAlone
<1> QED
  BY <1>3, <1>4, <1>5, <1>8

\* A step of a Sum.
LEMMA AggregationsOfSum ==
    ASSUME SumsInv, Unbroken, ContentInv, AggP!Invariant, SumsInv',
           NEW s \in Sums, SumMoves(s), Forward(s)
    PROVE  AggP!Invariant'
<1>1. ASSUME NEW t \in SumP!Threads, NEW c \in Clients, NEW f \in Fruits, FruitOut(s, t, c, f)
      PROVE  AggP!Invariant'
  <2>1. AggP!SumSendsFruit(s, c, f)
    BY <1>1, SendsFruit
  <2> QED
    BY <2>1, AggregationsAssumed, AggP!SumSendsFruitStep
<1>2. ASSUME NEW t \in SumP!Threads, NEW c \in Clients, EofOut(s, t, c)
      PROVE  AggP!Invariant'
  <2> PICK a : a = NextBySum[s][c]
    OBVIOUS
  <2>1. AggP!SumSendsEof(s, c) /\ a = nextAgg[s][t]
    BY <1>2, SendsEof
  <2>2. a \in AggP!Aggs
    BY <1>2, <2>1 DEF EofOut, AggP!Aggs, Aggs
  <2> QED
    BY <2>1, <2>2, AggregationsAssumed, AggP!SumSendsEofStep, Zenon
<1>3. CASE NothingOut(s)
  <2>1. sent' = sent /\ UNCHANGED aggVars
    BY <1>3 DEF NothingOut, Forward
  <2>2. inbox \in [Aggs -> [Sums -> [Clients -> Seq(AggP!Messages)]]]
    BY DEF AggP!Invariant, AggP!TypeInv, AggP!Aggs, Aggs
  <2>3. UNCHANGED inbox
    BY <2>1, <2>2, ForwardNothing
  <2>4. UNCHANGED <<sent, inbox, aggVars>>
    BY <2>1, <2>3
  <2> QED
    BY <2>4, NothingSent
<1> QED
  BY <1>1, <1>2, <1>3, SumCases

-----------------------------------------------------------------------------
(* The steps of the aggregations.                                          *)

\* What the Sums have sent is as it was when none of their variables changes.
LEMMA SumsRest ==
    ASSUME UNCHANGED sumVars
    PROVE  /\ UNCHANGED <<OfferedBySum, LeftBySum, NextBySum, FirstBySum, PromisedToAgg>>
           /\ \A a \in Aggs, c \in Clients : TopFor(a, c)' = TopFor(a, c)
<1>1. UNCHANGED <<pc, eof, snap, left, nextAgg, sent>>
  BY DEF sumVars
<1>2. ASSUME NEW s \in Sums, NEW c \in Clients
      PROVE  /\ TableSent(s, c)' = TableSent(s, c)
             /\ \A a \in Aggs : /\ Promise(a, s, c)' = Promise(a, s, c)
                                /\ Part(a, s, c)' = Part(a, s, c)
  <2>1. sent'[s][c] = sent[s][c]
    BY <1>1
  <2>2. /\ TableSent(s, c)' = TableSent(s, c) /\ \A a : EofIn(s, c, a)' <=> EofIn(s, c, a)
        /\ \A a : FruitsFor(a, s, c)' = FruitsFor(a, s, c)
    BY <2>1, SameTables
  <2> QED
    BY <2>2 DEF Promise, Part, Restricted
<1>3. \A a \in Aggs, c \in Clients : TopFor(a, c)' = TopFor(a, c)
  BY <1>2, TopOfParts
<1>4. FirstBySum' = FirstBySum /\ PromisedToAgg' = PromisedToAgg
  BY <1>2 DEF FirstBySum, PromisedToAgg
<1>5. \A s, c, t : SumP!Finalizes(s, t, c)' <=> SumP!Finalizes(s, t, c)
  BY <1>1 DEF SumP!Finalizes
<1>6. ASSUME NEW s, NEW c
      PROVE  /\ Offered(s, c)' = Offered(s, c) /\ LeftOver(s, c)' = LeftOver(s, c)
             /\ NextAgg(s, c)' = NextAgg(s, c)
  <2>1. Copies(s)' = Copies(s)
    BY <1>1 DEF Copies, SumP!AmountOf, AddedUp
  <2> QED
    BY <1>1, <1>5, <2>1 DEF Offered, LeftOver, NextAgg, OfFinalizer
<1>7. UNCHANGED <<OfferedBySum, LeftBySum, NextBySum>>
  BY <1>6 DEF OfferedBySum, LeftBySum, NextBySum
<1> QED
  BY <1>3, <1>4, <1>7

\* The EOF in hand is of a client of which all came: the payload is its partial top.
LEMMA PayloadIsTop ==
    ASSUME AggP!Invariant, NEW a \in Aggs, NEW s \in Sums, NEW c \in Clients,
           <<s, c>> \in aggEof[a]
    PROVE  payload[a] = TopFor(a, c)
<1>1. a \in AggP!Aggs
  BY DEF AggP!Aggs, Aggs
<1>2. /\ c \notin completed[a] /\ payload[a] = AggP!TopOf(fruitTop[a][c])
      /\ \A q \in Sums : q = s \/ q \in receivedEofs[a][c]
  BY <1>1 DEF AggP!Invariant, AggP!EofInv
<1>3. \A q \in Sums : /\ PromisedToAgg[a][q][c] # {}
                      /\ UNION PromisedToAgg[a][q][c] \subseteq AggP!Taken(a, q, c)
  BY <1>1, <1>2, Zenon DEF AggP!Invariant, AggP!EofInv
<1>4. fruitTop[a][c] = AggP!MergeOf(AggP!TakenTables(a, c))
  BY <1>1, <1>2 DEF AggP!Invariant, AggP!TopInv
<1>5. \A q \in Sums : AggP!Taken(a, q, c) \subseteq AggP!FruitsQueued(a, q, c)
  BY <1>1 DEF AggP!Invariant, AggP!TopInv
<1>6. ASSUME NEW q \in Sums
      PROVE  AggP!Taken(a, q, c) = FruitsFor(a, q, c)
  <2>1. PromisedToAgg[a][q][c] = Promise(a, q, c) /\ FirstBySum[q][c] = TableSent(q, c)
    BY DEF PromisedToAgg, FirstBySum
  <2>2. UNION PromisedToAgg[a][q][c] = FruitsFor(a, q, c)
    BY <1>3, <2>1 DEF Promise
  <2>3. AggP!FruitsQueued(a, q, c) = FruitsFor(a, q, c)
    BY <2>1 DEF AggP!FruitsQueued, FruitsFor
  <2> QED
    BY <1>3, <1>5, <2>2, <2>3, Zenon
<1>7. \A q \in Sums : AggP!Restricted(FirstBySum[q][c], AggP!Taken(a, q, c))
                        = Restricted(TableSent(q, c), FruitsFor(a, q, c))
  BY <1>6 DEF AggP!Restricted, Restricted, FirstBySum
<1>8. AggP!TakenTables(a, c) = TablesFor(a, c)
  BY <1>7 DEF AggP!TakenTables, TablesFor
<1> QED
  BY <1>2, <1>4, <1>8, SameTop, SameMerge DEF TopFor

\* What an aggregation has sent to the join, when no Sum does anything.
LEMMA OutputsOf ==
    ASSUME UNCHANGED sumVars,
           \A a \in Aggs, c \in Clients : /\ SentTop(a, c)' <=> SentTop(a, c)
                                          /\ Signalled(a, c)' <=> Signalled(a, c)
    PROVE  TopsByAgg' = TopsByAgg /\ SignalsByAgg' = SignalsByAgg
<1>1. \A a \in Aggs, c \in Clients : TopFor(a, c)' = TopFor(a, c)
  BY SumsRest
<1> QED
  BY <1>1 DEF TopsByAgg, SignalsByAgg, TopOut

\* While nothing is in hand, no client is being finalized.
LEMMA HandOfAgg ==
    ASSUME AggP!Invariant, NEW a \in Aggs
    PROVE  /\ aggPc[a] = "idle" => topping[a] = {}
           /\ \A s \in Sums, c \in Clients : <<s, c>> \in aggEof[a] =>
                /\ c \notin completed[a] /\ topping[a] = {c}
<1>1. a \in AggP!Aggs
  BY DEF AggP!Aggs, Aggs
<1>2. /\ aggPc[a] = "idle" <=> aggEof[a] = {}
      /\ \A d, e \in aggEof[a] : d = e
      /\ \A c \in Clients : c \in topping[a] <=> \E s \in Sums : <<s, c>> \in aggEof[a]
      /\ \A s \in Sums, c \in Clients : <<s, c>> \in aggEof[a] => c \notin completed[a]
  BY <1>1 DEF AggP!Invariant, AggP!EofInv
<1>3. topping[a] \subseteq Clients
  BY <1>1 DEF AggP!Invariant, AggP!TypeInv
<1>4. ASSUME NEW s \in Sums, NEW c \in Clients, <<s, c>> \in aggEof[a], NEW d \in topping[a]
      PROVE  d = c
  <2>1. PICK q \in Sums : <<q, d>> \in aggEof[a]
    BY <1>2, <1>3
  <2> QED
    BY <1>2, <1>4, <2>1
<1> QED
  BY <1>2, <1>3, <1>4, Zenon

\* The amounts, messages and counts are the same in the two instances.
LEMMA SameAggregation ==
    /\ AggP!SUM_AMOUNT = Aggregation!SUM_AMOUNT
    /\ AggP!EofMessage = Aggregation!EofMessage
    /\ \A t, f, n : AggP!Plus(t, f, n) = Aggregation!Plus(t, f, n)
    /\ AggP!NoFruits = Aggregation!NoFruits
    /\ \A link : AggP!SendOutcomes(link) = Aggregation!SendOutcomes(link)
    /\ AggP!Aggs = Aggs
BY DEF AggP!SUM_AMOUNT, Aggregation!SUM_AMOUNT, AggP!Cardinality, Aggregation!Cardinality,
       AggP!IsFiniteSet, Aggregation!IsFiniteSet,
       AggP!EofMessage, Aggregation!EofMessage, AggP!Plus, Aggregation!Plus, AggP!NoFruits,
       Aggregation!NoFruits, AggP!SendOutcomes, Aggregation!SendOutcomes, AggP!LinkStates,
       Aggregation!LinkStates, AggP!Aggs, Aggs

\* A message that is taken, and sends nothing.
LEMMA MessageTaken ==
    ASSUME AggP!Invariant, NEW a \in Aggs, NEW s \in Sums, NEW c \in Clients,
           \/ Aggregation!ReceivePartialSum(a, s, c) \/ Aggregation!SkipEof(a, s, c)
           \/ Aggregation!CountEof(a, s, c),
           UNCHANGED sumVars
    PROVE  \/ AggP!ReceivePartialSum(a, s, c) \/ AggP!SkipEof(a, s, c) \/ AggP!CountEof(a, s, c)
<1>1. UNCHANGED <<OfferedBySum, LeftBySum, NextBySum, FirstBySum, PromisedToAgg>>
  BY SumsRest
<1>2. UNCHANGED <<aggPc, topping, completed, outLink, coordLink>>
  BY DEF Aggregation!ReceivePartialSum, Aggregation!SkipEof, Aggregation!CountEof,
         Aggregation!clientVars, Aggregation!outputVars
<1>3. TopsByAgg' = TopsByAgg /\ SignalsByAgg' = SignalsByAgg
  BY <1>2, OutputsOf DEF SentTop, Signalled
<1>4. CASE Aggregation!ReceivePartialSum(a, s, c)
  <2>1. AggP!ReceivePartialSum(a, s, c)
    BY <1>1, <1>2, <1>3, <1>4, SameAggregation, Zenon
       DEF AggP!ReceivePartialSum, Aggregation!ReceivePartialSum,
       AggP!Receives, Aggregation!Receives, AggP!KnownPartialSum, Aggregation!KnownPartialSum,
       AggP!sumVars, AggP!outputVars, Aggregation!outputVars, AggP!clientVars, Aggregation!clientVars
  <2> QED
    BY <2>1
<1>5. CASE Aggregation!SkipEof(a, s, c)
  <2>1. AggP!SkipEof(a, s, c)
    BY <1>1, <1>2, <1>3, <1>5, SameAggregation, Zenon
       DEF AggP!SkipEof, Aggregation!SkipEof, AggP!KnownEof, Aggregation!KnownEof,
       AggP!Receives, Aggregation!Receives,
       AggP!sumVars, AggP!outputVars, Aggregation!outputVars, AggP!clientVars, Aggregation!clientVars
  <2> QED
    BY <2>1
<1>6. CASE Aggregation!CountEof(a, s, c)
  <2>1. AggP!CountEof(a, s, c)
    BY <1>1, <1>2, <1>3, <1>6, SameAggregation, Zenon
       DEF AggP!CountEof, Aggregation!CountEof, AggP!KnownEof, Aggregation!KnownEof,
       AggP!Receives, Aggregation!Receives, AggP!IsLast, Aggregation!IsLast,
       AggP!sumVars, AggP!outputVars, Aggregation!outputVars, AggP!clientVars, Aggregation!clientVars
  <2> QED
    BY <2>1
<1> QED
  BY <1>4, <1>5, <1>6

\* The last EOF, and the end of _send_top.
LEMMA TopBegunOrCompleted ==
    ASSUME AggP!Invariant, NEW a \in Aggs, NEW s \in Sums, NEW c \in Clients,
           Aggregation!BeginTop(a, s, c) \/ Aggregation!CompleteTop(a, s, c),
           UNCHANGED sumVars
    PROVE  AggP!BeginTop(a, s, c) \/ AggP!CompleteTop(a, s, c)
<1>1. UNCHANGED <<OfferedBySum, LeftBySum, NextBySum, FirstBySum, PromisedToAgg>>
  BY SumsRest
<1>2. /\ topping \in [Aggs -> SUBSET Clients] /\ completed \in [Aggs -> SUBSET Clients]
      /\ DOMAIN aggPc = Aggs
  BY SameAggregation DEF AggP!Invariant, AggP!TypeInv
<1>3. CASE Aggregation!BeginTop(a, s, c)
  <2>1. /\ aggPc[a] = "idle" /\ aggPc' = [aggPc EXCEPT ![a] = "sendTop"]
        /\ topping' = [topping EXCEPT ![a] = @ \cup {c}]
        /\ UNCHANGED <<completed, outLink, coordLink>>
    BY <1>3 DEF Aggregation!BeginTop, Aggregation!Receives, Aggregation!outputVars
  <2>2. topping[a] = {}
    BY <2>1, HandOfAgg
  <2>3. \A b \in Aggs : b # a => aggPc'[b] = aggPc[b] /\ topping'[b] = topping[b]
    BY <1>2, <2>1
  <2>4. aggPc'[a] = "sendTop"
    BY <1>2, <2>1
  <2>5. \A b \in Aggs, d \in Clients : /\ SentTop(b, d)' <=> SentTop(b, d)
                                       /\ Signalled(b, d)' <=> Signalled(b, d)
    BY <2>1, <2>2, <2>3, <2>4 DEF SentTop, Signalled
  <2>6. TopsByAgg' = TopsByAgg /\ SignalsByAgg' = SignalsByAgg
    BY <2>5, OutputsOf
  <2>7. AggP!TopOf(fruitTop[a][c]) = Aggregation!TopOf(fruitTop[a][c])
    BY SameTop
  <2>8. AggP!BeginTop(a, s, c)
    BY <1>1, <1>3, <2>1, <2>6, <2>7, SameAggregation, Zenon
       DEF AggP!BeginTop, Aggregation!BeginTop, AggP!KnownEof, Aggregation!KnownEof,
       AggP!Receives, Aggregation!Receives, AggP!IsLast, Aggregation!IsLast,
       AggP!sumVars, AggP!outputVars, Aggregation!outputVars
  <2> QED
    BY <2>8
<1>4. CASE Aggregation!CompleteTop(a, s, c)
  <2>1. /\ aggPc[a] = "complete" /\ <<s, c>> \in aggEof[a]
        /\ aggPc' = [aggPc EXCEPT ![a] = "idle"]
        /\ topping' = [topping EXCEPT ![a] = @ \ {c}]
        /\ completed' = [completed EXCEPT ![a] = @ \cup {c}]
        /\ UNCHANGED <<outLink, coordLink>>
    BY <1>4 DEF Aggregation!CompleteTop, Aggregation!Discarded, Aggregation!outputVars
  <2>2. topping[a] = {c}
    BY <2>1, HandOfAgg
  <2>3. \A b \in Aggs : b # a => /\ aggPc'[b] = aggPc[b] /\ topping'[b] = topping[b]
                                 /\ completed'[b] = completed[b]
    BY <1>2, <2>1
  <2>4. topping'[a] = {} /\ completed'[a] = completed[a] \cup {c}
    BY <1>2, <2>1, <2>2
  <2>5. \A b \in Aggs, d \in Clients : /\ SentTop(b, d)' <=> SentTop(b, d)
                                       /\ Signalled(b, d)' <=> Signalled(b, d)
    BY <2>1, <2>2, <2>3, <2>4 DEF SentTop, Signalled
  <2>6. TopsByAgg' = TopsByAgg /\ SignalsByAgg' = SignalsByAgg
    BY <2>5, OutputsOf
  <2>7. AggP!CompleteTop(a, s, c)
    BY <1>1, <1>4, <2>1, <2>6, SameAggregation, Zenon
       DEF AggP!CompleteTop, Aggregation!CompleteTop, AggP!Discarded, Aggregation!Discarded,
       AggP!sumVars, AggP!outputVars, Aggregation!outputVars
  <2> QED
    BY <2>7
<1> QED
  BY <1>3, <1>4

\* The partial top is put in the join's queue.
LEMMA TopSent ==
    ASSUME AggP!Invariant, Unbroken, NEW a \in Aggs, NEW s \in Sums, NEW c \in Clients,
           Aggregation!SendPartialTop(a, s, c), UNCHANGED sumVars
    PROVE  /\ AggP!SendPartialTop(a, s, c)
           /\ joinQueue' = [joinQueue EXCEPT ![a][c] = Append(@, TopFor(a, c))]
           /\ ~SentTop(a, c) /\ coordQueue' = coordQueue
           /\ \A b \in Aggs, d \in Clients : SentTop(b, d)' <=> SentTop(b, d) \/ (b = a /\ d = c)
<1>1. UNCHANGED <<OfferedBySum, LeftBySum, NextBySum, FirstBySum, PromisedToAgg>>
  BY SumsRest
<1>2. PICK out \in Aggregation!SendOutcomes(outLink[a]) :
         /\ outLink' = [outLink EXCEPT ![a] = out.link]
         /\ joinQueue' = IF out.delivered
                           THEN [joinQueue EXCEPT ![a][c] = Append(@, payload[a])]
                           ELSE joinQueue
         /\ Aggregation!Proceeds(a, c, "sendCoordination", out.raised)
  BY Zenon DEF Aggregation!SendPartialTop
<1>3. out.delivered /\ ~out.raised
  BY <1>2, OpenLink DEF Unbroken
<1>4. /\ aggPc[a] = "sendTop" /\ <<s, c>> \in aggEof[a]
      /\ aggPc' = [aggPc EXCEPT ![a] = "sendCoordination"]
      /\ UNCHANGED <<aggEof, topping, aggConsumer, inbox>>
      /\ UNCHANGED <<fruitTop, sumsReceived, receivedPartialSums, receivedEofs, completed,
                     payload, coordQueue, coordLink>>
  BY <1>2, <1>3 DEF Aggregation!SendPartialTop, Aggregation!Proceeds
<1>5. topping[a] = {c} /\ c \notin completed[a] /\ payload[a] = TopFor(a, c)
  BY <1>4, HandOfAgg, PayloadIsTop
<1>6. /\ DOMAIN aggPc = Aggs
  BY SameAggregation DEF AggP!Invariant, AggP!TypeInv
<1>7. aggPc'[a] = "sendCoordination" /\ \A b \in Aggs : b # a => aggPc'[b] = aggPc[b]
  BY <1>4, <1>6
<1>8. /\ ~SentTop(a, c)
      /\ \A b \in Aggs, d \in Clients : SentTop(b, d)' <=> SentTop(b, d) \/ (b = a /\ d = c)
      /\ \A b \in Aggs, d \in Clients : Signalled(b, d)' <=> Signalled(b, d)
  BY <1>4, <1>5, <1>7 DEF SentTop, Signalled
<1>9. \A b \in Aggs, d \in Clients : TopFor(b, d)' = TopFor(b, d)
  BY SumsRest
<1>10. SignalsByAgg' = SignalsByAgg
  BY <1>8 DEF SignalsByAgg
<1>11. TopsByAgg' = [TopsByAgg EXCEPT ![a][c] = Append(@, payload[a])]
  <2>1. \A b \in Aggs, d \in Clients :
           TopOut(b, d)' = IF b = a /\ d = c THEN <<TopFor(a, c)>> ELSE TopOut(b, d)
    BY <1>8, <1>9 DEF TopOut
  <2>2. TopOut(a, c) = <<>>
    BY <1>8 DEF TopOut
  <2>3. Append(TopOut(a, c), payload[a]) = <<TopFor(a, c)>>
    BY <1>5, <2>2
  <2>4. PICK top : top = <<TopFor(a, c)>>
    BY Zenon
  <2>5. TopsByAgg' = [b \in Aggs |-> [d \in Clients |-> IF b = a /\ d = c THEN top ELSE TopOut(b, d)]]
    BY <2>1, <2>4 DEF TopsByAgg
  <2>6. TopsByAgg[a][c] = TopOut(a, c)
    BY DEF TopsByAgg
  <2>7. \A b \in Aggs : b # a => TopsByAgg'[b] = TopsByAgg[b]
    BY <2>5 DEF TopsByAgg
  <2>8. TopsByAgg'[a] = [TopsByAgg[a] EXCEPT ![c] = top]
    BY <2>5, Zenon DEF TopsByAgg
  <2>9. TopsByAgg' = [TopsByAgg EXCEPT ![a] = [TopsByAgg[a] EXCEPT ![c] = top]]
    BY <2>5, <2>7, <2>8, Zenon DEF TopsByAgg
  <2> QED
    BY <2>3, <2>4, <2>6, <2>9, Zenon
<1>12. AggP!Proceeds(a, c, "sendCoordination", out.raised)
  BY <1>3, <1>4 DEF AggP!Proceeds
<1>13. out \in AggP!SendOutcomes(outLink[a])
  BY <1>2, SameAggregation
<1>14. AggP!SendPartialTop(a, s, c)
  <2>1. \E o \in AggP!SendOutcomes(outLink[a]) :
         /\ outLink' = [outLink EXCEPT ![a] = o.link]
         /\ TopsByAgg' = IF o.delivered
                           THEN [TopsByAgg EXCEPT ![a][c] = Append(@, payload[a])]
                           ELSE TopsByAgg
         /\ AggP!Proceeds(a, c, "sendCoordination", o.raised)
    BY <1>2, <1>3, <1>11, <1>12, <1>13, Zenon
  <2> QED
    BY <1>1, <1>4, <1>10, <2>1, Zenon DEF AggP!SendPartialTop, AggP!sumVars
<1> QED
  BY <1>2, <1>3, <1>4, <1>5, <1>8, <1>14

\* The signal is put in the join's coordination queue.
LEMMA SignalSent ==
    ASSUME AggP!Invariant, Unbroken, NEW a \in Aggs, NEW s \in Sums, NEW c \in Clients,
           Aggregation!SendCoordination(a, s, c), UNCHANGED sumVars
    PROVE  /\ AggP!SendCoordination(a, s, c)
           /\ coordQueue' = [coordQueue EXCEPT ![a][c] = @ + 1]
           /\ ~Signalled(a, c) /\ joinQueue' = joinQueue
           /\ \A b \in Aggs, d \in Clients : /\ SentTop(b, d)' <=> SentTop(b, d)
                                             /\ Signalled(b, d)' <=> Signalled(b, d) \/ (b = a /\ d = c)
<1>1. UNCHANGED <<OfferedBySum, LeftBySum, NextBySum, FirstBySum, PromisedToAgg>>
  BY SumsRest
<1>2. PICK out \in Aggregation!SendOutcomes(coordLink[a]) :
         /\ coordLink' = [coordLink EXCEPT ![a] = out.link]
         /\ coordQueue' = IF out.delivered THEN [coordQueue EXCEPT ![a][c] = @ + 1]
                                           ELSE coordQueue
         /\ Aggregation!Proceeds(a, c, "complete", out.raised)
  BY Zenon DEF Aggregation!SendCoordination
<1>3. out.delivered /\ ~out.raised
  BY <1>2, OpenLink DEF Unbroken
<1>4. /\ aggPc[a] = "sendCoordination" /\ <<s, c>> \in aggEof[a]
      /\ aggPc' = [aggPc EXCEPT ![a] = "complete"]
      /\ UNCHANGED <<aggEof, topping, aggConsumer, inbox>>
      /\ UNCHANGED <<fruitTop, sumsReceived, receivedPartialSums, receivedEofs, completed,
                     payload, joinQueue, outLink>>
  BY <1>2, <1>3 DEF Aggregation!SendCoordination, Aggregation!Proceeds
<1>5. topping[a] = {c} /\ c \notin completed[a]
  BY <1>4, HandOfAgg
<1>6. /\ DOMAIN aggPc = Aggs
  BY SameAggregation DEF AggP!Invariant, AggP!TypeInv
<1>7. aggPc'[a] = "complete" /\ \A b \in Aggs : b # a => aggPc'[b] = aggPc[b]
  BY <1>4, <1>6
<1>8. /\ ~Signalled(a, c)
      /\ \A b \in Aggs, d \in Clients : SentTop(b, d)' <=> SentTop(b, d)
      /\ \A b \in Aggs, d \in Clients : Signalled(b, d)' <=> Signalled(b, d) \/ (b = a /\ d = c)
  BY <1>4, <1>5, <1>7 DEF SentTop, Signalled
<1>9. TopsByAgg' = TopsByAgg
  BY <1>8, SumsRest DEF TopsByAgg, TopOut
<1>10. SignalsByAgg' = [SignalsByAgg EXCEPT ![a][c] = @ + 1]
  <2>1. SignalsByAgg' = [b \in Aggs |-> [d \in Clients |->
                             IF b = a /\ d = c THEN 1 ELSE SignalsByAgg[b][d]]]
    BY <1>8 DEF SignalsByAgg
  <2>2. SignalsByAgg[a][c] = 0
    BY <1>8 DEF SignalsByAgg
  <2>3. \A b \in Aggs : b # a => SignalsByAgg'[b] = SignalsByAgg[b]
    BY <2>1 DEF SignalsByAgg
  <2>4. SignalsByAgg'[a] = [SignalsByAgg[a] EXCEPT ![c] = 1]
    <3>1. DOMAIN SignalsByAgg[a] = Clients
      BY DEF SignalsByAgg
    <3>2. SignalsByAgg'[a] = [d \in Clients |-> IF d = c THEN 1 ELSE SignalsByAgg[a][d]]
      BY <2>1
    <3> QED
      BY <3>1, <3>2
  <2>5. SignalsByAgg' = [SignalsByAgg EXCEPT ![a] = [SignalsByAgg[a] EXCEPT ![c] = 1]]
    BY <2>1, <2>3, <2>4, Zenon DEF SignalsByAgg
  <2> QED
    BY <2>2, <2>5
<1>12. AggP!Proceeds(a, c, "complete", out.raised)
  BY <1>3, <1>4 DEF AggP!Proceeds
<1>13. out \in AggP!SendOutcomes(coordLink[a])
  BY <1>2, SameAggregation
<1>14. AggP!SendCoordination(a, s, c)
  <2>1. \E o \in AggP!SendOutcomes(coordLink[a]) :
         /\ coordLink' = [coordLink EXCEPT ![a] = o.link]
         /\ SignalsByAgg' = IF o.delivered THEN [SignalsByAgg EXCEPT ![a][c] = @ + 1]
                                           ELSE SignalsByAgg
         /\ AggP!Proceeds(a, c, "complete", o.raised)
    BY <1>2, <1>3, <1>10, <1>12, <1>13, Zenon
  <2> QED
    BY <1>1, <1>4, <1>9, <2>1, Zenon DEF AggP!SendCoordination, AggP!sumVars
<1> QED
  BY <1>2, <1>3, <1>4, <1>5, <1>8, <1>14

\* A step of an aggregation, as AggregationFilter has it: its proof applies.
LEMMA AggregationsOfAgg ==
    ASSUME AggP!Invariant, Unbroken, NEW a \in Aggs, Aggregation!Consume(a), UNCHANGED sumVars
    PROVE  AggP!Invariant'
<1>1. PICK s \in Sums, c \in Clients :
          \/ Aggregation!ReceivePartialSum(a, s, c) \/ Aggregation!SkipEof(a, s, c)
          \/ Aggregation!CountEof(a, s, c) \/ Aggregation!BeginTop(a, s, c)
          \/ Aggregation!SendPartialTop(a, s, c) \/ Aggregation!SendCoordination(a, s, c)
          \/ Aggregation!CompleteTop(a, s, c)
  BY Zenon DEF Aggregation!Consume
<1>2. a \in AggP!Aggs
  BY SameAggregation
<1>3. \/ AggP!ReceivePartialSum(a, s, c) \/ AggP!SkipEof(a, s, c) \/ AggP!CountEof(a, s, c)
      \/ AggP!BeginTop(a, s, c) \/ AggP!SendPartialTop(a, s, c) \/ AggP!SendCoordination(a, s, c)
      \/ AggP!CompleteTop(a, s, c)
  BY <1>1, MessageTaken, TopBegunOrCompleted, TopSent, SignalSent
<1>4. AggP!ReceivePartialSum(a, s, c) => AggP!Invariant'
  BY <1>2, AggregationsAssumed, AggP!ReceivePartialSumStep
<1>5. AggP!SkipEof(a, s, c) => AggP!Invariant'
  BY <1>2, AggregationsAssumed, AggP!SkipEofStep
<1>6. AggP!CountEof(a, s, c) => AggP!Invariant'
  BY <1>2, AggregationsAssumed, AggP!CountEofStep
<1>7. AggP!BeginTop(a, s, c) => AggP!Invariant'
  BY <1>2, AggregationsAssumed, AggP!BeginTopStep
<1>8. AggP!SendPartialTop(a, s, c) => AggP!Invariant'
  BY <1>2, AggregationsAssumed, AggP!SendPartialTopStep
<1>9. AggP!SendCoordination(a, s, c) => AggP!Invariant'
  BY <1>2, AggregationsAssumed, AggP!SendCoordinationStep
<1>10. AggP!CompleteTop(a, s, c) => AggP!Invariant'
  BY <1>2, AggregationsAssumed, AggP!CompleteTopStep
<1> QED
  BY <1>3, <1>4, <1>5, <1>6, <1>7, <1>8, <1>9, <1>10

\* What the pipeline's steps keep, but for the join.
SentInv == SumsInv /\ Unbroken /\ ContentInv /\ AggP!Invariant

\* Every step keeps what the proof about AggregationFilter says of the aggregations.
LEMMA AggregationsStep == SentInv /\ SumsInv' /\ [Next]_vars => AggP!Invariant'
<1> SUFFICES ASSUME SentInv, SumsInv', [Next]_vars PROVE AggP!Invariant'
  OBVIOUS
<1>0. SumsInv /\ Unbroken /\ ContentInv /\ AggP!Invariant
  BY DEF SentInv
<1>1. UNCHANGED <<sent, inbox, aggVars>> => AggP!Invariant'
  BY <1>0, NothingSent
<1>2. Publishes /\ UNCHANGED <<inbox, aggVars, topVars, joinVars>> =>
         UNCHANGED <<sent, inbox, aggVars>>
  BY DEF Publishes, SumP!PublishData, SumP!PublishEof, SumP!outputVars
<1>3. UNCHANGED <<sumVars, inbox, aggVars>> \/ UNCHANGED vars => UNCHANGED <<sent, inbox, aggVars>>
  BY DEF sumVars, vars
<1>4. ASSUME NEW s \in Sums, SumMoves(s), Forward(s) PROVE AggP!Invariant'
  BY <1>0, <1>4, AggregationsOfSum
<1>5. ASSUME NEW a \in Aggs, Aggregation!Consume(a), UNCHANGED <<sumVars, joinVars>>
      PROVE  AggP!Invariant'
  BY <1>0, <1>5, AggregationsOfAgg
<1> QED
  BY <1>1, <1>2, <1>3, <1>4, <1>5, StepCases

\* At the start nothing was sent.
LEMMA SentInit == Init /\ SumsInv => SentInv
<1> SUFFICES ASSUME Init, SumsInv PROVE SentInv
  OBVIOUS
<1>0. SumP!Init
  BY SameSumInit DEF Init
<1>1. ASSUME NEW s \in Sums
      PROVE  /\ \A c \in Clients, a \in Aggs : sent[s][c][a] = <<>>
             /\ \A t \in SumP!Threads : /\ eof[s][t] = {} /\ left[s][t] = {}
                                        /\ consumer[s][t] = "up"
             /\ \A a \in Aggs : dataLink[s][a] = "open"
  BY <1>0 DEF SumP!Init, SumP!Aggs, Aggs
<1>2. Aggregation!AggInit /\ Join!JoinInit
  BY DEF Init
<1>3. Unbroken
  BY <1>1, <1>2 DEF Unbroken, Aggregation!AggInit, Join!JoinInit, SumP!Threads,
     Aggregation!Aggs, Aggs
<1>4. \A s \in Sums, t \in SumP!Threads : \A c : ~SumP!Finalizes(s, t, c)
  BY <1>1, Zenon DEF SumP!Finalizes
<1>5. LeftContent
  BY <1>1, Zenon DEF LeftContent
<1>6. SentContent
  <2>1. DOMAIN <<>> = {}
    OBVIOUS
  <2>2. \A s \in Sums, c \in Clients, a \in Aggs : DOMAIN sent[s][c][a] = {}
    BY <1>1, <2>1
  <2> QED
    BY <2>2 DEF SentContent
<1>7. ASSUME NEW s \in Sums, NEW c \in Clients
      PROVE  /\ Offered(s, c) = NoFruits /\ LeftOver(s, c) = {} /\ NextAgg(s, c) = 0
             /\ TableSent(s, c) = NoFruits
             /\ \A a \in Aggs : ~EofIn(s, c, a)
  <2>1. "data" \in SumP!Threads /\ "control" \in SumP!Threads
    BY DEF SumP!Threads
  <2>2. /\ \A v, none : OfFinalizer(s, c, v, none) = none
    BY <1>4, <2>1, Zenon DEF OfFinalizer
  <2>3. \A f \in Fruits : Channel(s, c, f) = <<>>
    BY <1>1, SumTypes DEF Channel
  <2>4. DOMAIN <<>> = {}
    OBVIOUS
  <2>5. \A f \in Fruits : Places(s, c, f) = {}
    BY <2>3, <2>4, Zenon DEF Places
  <2>6. {g \in Fruits : Places(s, c, g) # {}} = {}
    BY <2>5
  <2>7. TableSent(s, c) = NoFruits
    BY <2>6 DEF TableSent, NoFruits
  <2>8. \A a \in Aggs : ~EofIn(s, c, a)
    <3>1. \A a \in Aggs : DOMAIN sent[s][c][a] = {}
      BY <1>1, <2>4
    <3> QED
      BY <3>1 DEF EofIn
  <2> QED
    BY <2>2, <2>7, <2>8 DEF Offered, LeftOver, NextAgg
<1>8. \A a \in Aggs, c \in Clients : ~SentTop(a, c) /\ ~Signalled(a, c)
  BY <1>2 DEF Aggregation!AggInit, Aggregation!Aggs, Aggs, SentTop, Signalled
<1>9. AggP!Init
  <2>1. AggP!NoFruits = NoFruits /\ Aggregation!NoFruits = NoFruits /\ DOMAIN NoFruits = {}
    BY DEF AggP!NoFruits, Aggregation!NoFruits, NoFruits
  <2>2. OfferedBySum = [s \in Sums |-> [c \in Clients |-> NoFruits]]
    BY <1>7 DEF OfferedBySum
  <2>3. LeftBySum = [s \in Sums |-> [c \in Clients |-> {}]]
    BY <1>7 DEF LeftBySum
  <2>4. NextBySum = [s \in Sums |-> [c \in Clients |-> 0]]
    BY <1>7 DEF NextBySum
  <2>5. FirstBySum = [s \in Sums |-> [c \in Clients |-> NoFruits]]
    BY <1>7 DEF FirstBySum
  <2>6. PromisedToAgg = [a \in Aggs |-> [s \in Sums |-> [c \in Clients |-> {}]]]
    BY <1>7 DEF PromisedToAgg, Promise
  <2>7. TopsByAgg = [a \in Aggs |-> [c \in Clients |-> <<>>]]
    BY <1>8 DEF TopsByAgg, TopOut
  <2>8. SignalsByAgg = [a \in Aggs |-> [c \in Clients |-> 0]]
    BY <1>8 DEF SignalsByAgg
  <2>9. AggP!AggInit
    BY <1>2, <2>1, <2>7, <2>8, SameAggregation
       DEF AggP!AggInit, Aggregation!AggInit, Aggregation!Aggs, Aggs
  <2>10. LeftBySum = [s \in Sums |-> [c \in Clients |-> DOMAIN OfferedBySum[s][c]]]
    BY <2>1, <2>2, <2>3
  <2> QED
    BY <2>1, <2>2, <2>4, <2>5, <2>6, <2>9, <2>10, SameAggregation DEF AggP!Init
<1>10. AggP!Invariant
  BY <1>9, AggregationsAssumed, AggP!InitIsRight
<1> QED
  BY <1>3, <1>5, <1>6, <1>10 DEF SentInv, ContentInv

\* So it is always.
LEMMA SentAlways == Spec => []SentInv
<1>1. Init /\ SumsInv => SentInv
  BY SentInit
<1>2. SentInv /\ SumsInv' /\ [Next]_vars => SentInv'
  <2>1. SentInv => SumsInv /\ Unbroken /\ ContentInv
    BY DEF SentInv
  <2> QED
    BY <2>1, AggregationsStep, UnbrokenStep, ContentStep DEF SentInv
<1> QED
  BY <1>1, <1>2, SumsAreRight, PTL DEF Spec

-----------------------------------------------------------------------------
(* From the partial tops to the answer.                                    *)

AllSent(c) == \A a \in Aggs : SentTop(a, c)
TopsFor(c) == [a \in Aggs |-> TopFor(a, c)]
RightAnswer(c) == TopOf(MergeOf(TopsFor(c)))

\* The partial tops in the queue and in the join are those that the aggregations made; a
\* client that is to be sent has all of them, unless it was sent before; the final top is
\* made of all.
QueuedTops ==
    /\ joinQueue = [a \in Aggs |-> [c \in Clients |-> joinQueue[a][c]]]
    /\ \A a \in Aggs, c \in Clients : joinQueue[a][c] # <<>> =>
         SentTop(a, c) /\ joinQueue[a][c] = <<TopFor(a, c)>>
ReceivedTops ==
    /\ partialTops = [c \in Clients |-> partialTops[c]]
    /\ \A c \in Clients :
         /\ Join!Received(c) \subseteq Aggs
         /\ partialTops[c] = [a \in Join!Received(c) |-> partialTops[c][a]]
         /\ \A a \in Join!Received(c) : SentTop(a, c) /\ partialTops[c][a] = TopFor(a, c)
FinalTops ==
    /\ ready \subseteq Clients /\ toSend \subseteq Clients
    /\ \A c \in toSend : c \in answered \/ Join!Received(c) = Aggs
    /\ sending = current
    /\ monitor \in {"scan", "next"} => current = {}
    /\ \A c, d \in current : c = d
    /\ \A c \in current : c \in Clients /\ c \notin answered
                          /\ AllSent(c) /\ finalTop = RightAnswer(c)
Answers ==
    /\ results = [c \in Clients |-> results[c]]
    /\ \A c \in Clients : results[c] # <<>> =>
         /\ c \in answered \/ (c \in current /\ monitor = "end")
         /\ AllSent(c) /\ results[c] = <<RightAnswer(c)>>
AnswersInv == QueuedTops /\ ReceivedTops /\ FinalTops /\ Answers

\* The tops that were sent are what they were.
TopsRest ==
    \A a \in Aggs, c \in Clients :
        SentTop(a, c) => SentTop(a, c)' /\ TopFor(a, c)' = TopFor(a, c)

\* So is the answer that is made of them.
LEMMA AnswerRests ==
    ASSUME TopsRest, NEW c \in Clients, AllSent(c)
    PROVE  AllSent(c)' /\ RightAnswer(c)' = RightAnswer(c)
<1>1. \A a \in Aggs : SentTop(a, c)' /\ TopFor(a, c)' = TopFor(a, c)
  BY DEF TopsRest, AllSent
<1>2. TopsFor(c)' = TopsFor(c)
  BY <1>1 DEF TopsFor
<1>3. RightAnswer(c)' = TopOf(MergeOf(TopsFor(c)'))
  BY Zenon DEF RightAnswer, TopOf, MergeOf, TopFruits, IsTop, Restricted, Before
<1>4. PICK x : x = TopsFor(c)
  OBVIOUS
<1>5. RightAnswer(c) = TopOf(MergeOf(x)) /\ RightAnswer(c)' = TopOf(MergeOf(x))
  BY <1>2, <1>3, <1>4 DEF RightAnswer
<1> QED
  BY <1>1, <1>5 DEF AllSent

\* What keeps the tops keeps each part that no other variable of changes.
LEMMA QueueRests ==
    ASSUME TopsRest, QueuedTops, joinQueue' = joinQueue
    PROVE  QueuedTops'
BY DEF TopsRest, QueuedTops

\* So does what the join has received.
LEMMA ReceivedRest ==
    ASSUME TopsRest, ReceivedTops, partialTops' = partialTops
    PROVE  ReceivedTops'
BY DEF TopsRest, ReceivedTops, Join!Received

\* So does what it makes of that.
LEMMA FinalTopsRest ==
    ASSUME TopsRest, FinalTops,
           UNCHANGED <<partialTops, answered, sending, ready, monitor, toSend, current, finalTop>>
    PROVE  FinalTops'
<1>1. \A c \in Clients : AllSent(c) => AllSent(c)' /\ RightAnswer(c)' = RightAnswer(c)
  BY AnswerRests
<1> QED
  BY <1>1 DEF FinalTops, Join!Received

\* So do the answers, when an answer in the making is kept or has been recorded.
LEMMA AnswersRest ==
    ASSUME TopsRest, Answers, results' = results, answered \subseteq answered',
           \A c \in current : monitor = "end" => c \in answered' \/ (c \in current' /\ monitor' = "end")
    PROVE  Answers'
<1>1. \A c \in Clients : AllSent(c) => AllSent(c)' /\ RightAnswer(c)' = RightAnswer(c)
  BY AnswerRests
<1> QED
  BY <1>1 DEF Answers

\* An aggregation puts its top in the queue.
LEMMA TopQueued ==
    ASSUME TopsRest, QueuedTops, NEW a \in Aggs, NEW c \in Clients, ~SentTop(a, c), SentTop(a, c)',
           TopFor(a, c)' = TopFor(a, c),
           joinQueue' = [joinQueue EXCEPT ![a][c] = Append(@, TopFor(a, c))]
    PROVE  QueuedTops'
<1> PICK top : top = TopFor(a, c)
  OBVIOUS
<1>1. joinQueue[a][c] = <<>>
  BY DEF QueuedTops
<1>2. joinQueue = [b \in Aggs |-> [d \in Clients |-> joinQueue[b][d]]]
  BY DEF QueuedTops
<1>3. joinQueue' = [b \in Aggs |-> [d \in Clients |->
                        IF b = a /\ d = c THEN <<top>> ELSE joinQueue[b][d]]]
  <2>1. joinQueue' = [joinQueue EXCEPT ![a] = [joinQueue[a] EXCEPT ![c] = <<top>>]]
    BY <1>1
  <2>2. joinQueue[a] = [d \in Clients |-> joinQueue[a][d]]
    BY <1>2
  <2>3. [joinQueue[a] EXCEPT ![c] = <<top>>] = [d \in Clients |-> IF d = c THEN <<top>> ELSE joinQueue[a][d]]
    BY <2>2
  <2>4. PICK g : g = [d \in Clients |-> IF d = c THEN <<top>> ELSE joinQueue[a][d]]
    BY Zenon
  <2>5. joinQueue' = [b \in Aggs |-> IF b = a THEN g ELSE joinQueue[b]]
    BY <1>2, <2>1, <2>3, <2>4, Zenon
  <2>6. \A b \in Aggs : joinQueue[b] = [d \in Clients |-> joinQueue[b][d]]
    BY <1>2
  <2> QED
    BY <2>4, <2>5, <2>6, Zenon
<1>4. joinQueue' = [b \in Aggs |-> [d \in Clients |-> joinQueue'[b][d]]]
  BY <1>3, Zenon
<1>5. ASSUME NEW b \in Aggs, NEW d \in Clients, joinQueue'[b][d] # <<>>
      PROVE  SentTop(b, d)' /\ joinQueue'[b][d] = <<TopFor(b, d)>>'
  <2>1. CASE b = a /\ d = c
    <3>1. joinQueue'[a][c] = <<top>>
      BY <1>3, Zenon
    <3>2. TopFor(a, c)' = top
      OBVIOUS
    <3> QED
      BY <2>1, <3>1, <3>2
  <2>2. CASE ~(b = a /\ d = c)
    <3>1. joinQueue'[b][d] = joinQueue[b][d]
      BY <1>3, <2>2
    <3> QED
      BY <1>5, <3>1, Zenon DEF QueuedTops, TopsRest
  <2> QED
    BY <2>1, <2>2
<1> QED
  BY <1>4, <1>5 DEF QueuedTops

\* The data listener takes a top.
LEMMA TopTaken ==
    ASSUME TopsRest, AnswersInv, NEW a \in Aggs, NEW c \in Clients, Join!ProcessPartialTop(a, c)
    PROVE  AnswersInv'
<1>0. QueuedTops /\ ReceivedTops /\ FinalTops /\ Answers
  BY DEF AnswersInv
<1>1. /\ joinQueue[a][c] # <<>> /\ joinQueue' = [joinQueue EXCEPT ![a][c] = Tail(@)]
      /\ UNCHANGED <<answered, sending, ready, monitor, toSend, current, finalTop, results>>
  BY DEF Join!ProcessPartialTop, Join!workerVars, Join!monitorVars
<1>2. SentTop(a, c) /\ joinQueue[a][c] = <<TopFor(a, c)>>
  BY <1>0, <1>1 DEF QueuedTops
<1>3. PICK top : top = TopFor(a, c)
  OBVIOUS
<1>4. Head(joinQueue[a][c]) = top /\ Tail(joinQueue[a][c]) = <<>>
  BY <1>2, <1>3
<1>5. QueuedTops'
  <2>1. joinQueue = [b \in Aggs |-> [d \in Clients |-> joinQueue[b][d]]]
    BY <1>0 DEF QueuedTops
  <2>2. joinQueue' = [joinQueue EXCEPT ![a] = [joinQueue[a] EXCEPT ![c] = <<>>]]
    BY <1>1, <1>4, Zenon
  <2>3. \A b \in Aggs : joinQueue[b] = [d \in Clients |-> joinQueue[b][d]]
    BY <2>1
  <2>4. [joinQueue[a] EXCEPT ![c] = <<>>] = [d \in Clients |-> IF d = c THEN <<>> ELSE joinQueue[a][d]]
    BY <2>3, Zenon
  <2>5. PICK g : g = [d \in Clients |-> IF d = c THEN <<>> ELSE joinQueue[a][d]]
    BY Zenon
  <2>6. joinQueue' = [b \in Aggs |-> IF b = a THEN g ELSE joinQueue[b]]
    BY <2>1, <2>2, <2>4, <2>5, Zenon
  <2>7. joinQueue' = [b \in Aggs |-> [d \in Clients |->
                          IF b = a /\ d = c THEN <<>> ELSE joinQueue[b][d]]]
    BY <2>3, <2>5, <2>6
  <2>8. joinQueue' = [b \in Aggs |-> [d \in Clients |-> joinQueue'[b][d]]]
    BY <2>7
  <2>9. \A b \in Aggs, d \in Clients : joinQueue'[b][d] # <<>> => joinQueue'[b][d] = joinQueue[b][d]
    BY <2>7
  <2> QED
    BY <1>0, <2>8, <2>9 DEF QueuedTops, TopsRest
<1>6. CASE partialTops' = partialTops
  <2>1. ReceivedTops'
    BY <1>0, <1>6, ReceivedRest
  <2>2. FinalTops'
    BY <1>0, <1>1, <1>6, FinalTopsRest
  <2>3. Answers'
    BY <1>0, <1>1, AnswersRest
  <2> QED
    BY <1>5, <2>1, <2>2, <2>3 DEF AnswersInv
<1>7. CASE partialTops' # partialTops
  <2>1. /\ c \notin answered /\ a \notin Join!Received(c)
        /\ partialTops' = [partialTops EXCEPT ![c] =
                              [i \in DOMAIN @ \cup {a} |->
                                  IF i = a THEN Head(joinQueue[a][c]) ELSE @[i]]]
    BY <1>7 DEF Join!ProcessPartialTop
  <2>2. partialTops = [d \in Clients |-> partialTops[d]]
    BY <1>0 DEF ReceivedTops
  <2>3. PICK old, new : /\ old = partialTops[c]
                        /\ new = [i \in DOMAIN old \cup {a} |-> IF i = a THEN top ELSE old[i]]
    BY Zenon
  <2>4. partialTops' = [partialTops EXCEPT ![c] = new]
    BY <1>4, <2>1, <2>3, Zenon
  <2>5. /\ partialTops' = [d \in Clients |-> partialTops'[d]]
        /\ partialTops'[c] = new
        /\ \A d \in Clients : d # c => partialTops'[d] = partialTops[d]
    BY <2>2, <2>4
  <2>6. /\ DOMAIN new = DOMAIN old \cup {a} /\ new[a] = top
        /\ \A i \in DOMAIN old : i # a => new[i] = old[i]
        /\ new = [i \in DOMAIN new |-> new[i]]
    BY <2>3
  <2>7. ASSUME NEW d \in Clients
        PROVE  /\ DOMAIN partialTops'[d] \subseteq Aggs
               /\ partialTops'[d] = [i \in DOMAIN partialTops'[d] |-> partialTops'[d][i]]
               /\ \A b \in DOMAIN partialTops'[d] :
                     SentTop(b, d)' /\ partialTops'[d][b] = TopFor(b, d)'
    <3>1. /\ DOMAIN partialTops[d] \subseteq Aggs
          /\ partialTops[d] = [i \in DOMAIN partialTops[d] |-> partialTops[d][i]]
          /\ \A b \in DOMAIN partialTops[d] : SentTop(b, d) /\ partialTops[d][b] = TopFor(b, d)
      BY <1>0 DEF ReceivedTops, Join!Received
    <3>2. CASE d # c
      BY <2>5, <3>1, <3>2 DEF TopsRest
    <3>3. CASE d = c
      <4>1. partialTops'[d] = new /\ partialTops[d] = old
        BY <2>3, <2>5, <3>3
      <4>2. DOMAIN new \subseteq Aggs
        BY <2>6, <3>1, <4>1
      <4>3. SentTop(a, c)' /\ TopFor(a, c)' = top
        BY <1>2, <1>3 DEF TopsRest
      <4>4. \A b \in DOMAIN new : SentTop(b, d)' /\ new[b] = TopFor(b, d)'
        BY <2>6, <3>1, <3>3, <4>1, <4>3 DEF TopsRest
      <4> QED
        BY <2>6, <4>1, <4>2, <4>4
    <3> QED
      BY <3>2, <3>3
  <2>8. ReceivedTops'
    BY <2>5, <2>7 DEF ReceivedTops, Join!Received
  <2>9. FinalTops'
    <3>1. \A d \in toSend : d \in answered \/ DOMAIN partialTops'[d] = Aggs
      <4> SUFFICES ASSUME NEW d \in toSend, d \notin answered PROVE DOMAIN partialTops'[d] = Aggs
        OBVIOUS
      <4>1. d \in Clients /\ DOMAIN partialTops[d] = Aggs
        BY <1>0 DEF FinalTops, Join!Received
      <4>2. d # c
        BY <2>1, <4>1 DEF Join!Received
      <4> QED
        BY <2>5, <4>1, <4>2
    <3>2. \A d \in Clients : AllSent(d) => AllSent(d)' /\ RightAnswer(d)' = RightAnswer(d)
      BY AnswerRests
    <3> QED
      BY <1>0, <1>1, <3>1, <3>2 DEF FinalTops, Join!Received
  <2>10. Answers'
    BY <1>0, <1>1, AnswersRest
  <2> QED
    BY <1>5, <2>8, <2>9, <2>10 DEF AnswersInv
<1> QED
  BY <1>6, <1>7

\* A table of all the partial tops: the answer is made of it.
LEMMA AllTops ==
    ASSUME ReceivedTops, NEW c \in Clients, Join!Received(c) = Aggs
    PROVE  AllSent(c) /\ partialTops[c] = TopsFor(c)
BY DEF ReceivedTops, AllSent, TopsFor

\* The barrier of line 308: as many tops as there are aggregations are those of all.
LEMMA EnoughTops ==
    ASSUME NEW S, S \subseteq Aggs, Join!Cardinality(S) >= AGGREGATION_AMOUNT
    PROVE  S = Aggs
<1>1. Cardinality(Aggs) = AGGREGATION_AMOUNT /\ IsFiniteSet(Aggs)
  BY PipelineAssumption, FS_Interval DEF Aggs
<1>2. IsFiniteSet(S) /\ Cardinality(S) <= Cardinality(Aggs) /\ Cardinality(S) \in Nat
      /\ (Cardinality(S) = Cardinality(Aggs) => S = Aggs)
  BY <1>1, FS_Subset, FS_CardinalityType
<1>3. Join!Cardinality(S) = Cardinality(S)
  BY DEF Join!Cardinality, Cardinality, Join!IsFiniteSet, IsFiniteSet
<1> QED
  BY <1>1, <1>2, <1>3, PipelineAssumption

\* The monitor finds the clients to be sent, and begins to send one.
LEMMA FinalTopBegun ==
    ASSUME TopsRest, AnswersInv,
           Join!Scan \/ Join!EndScan \/ \E c \in Clients : Join!BeginFinalTop(c)
    PROVE  AnswersInv'
<1>0. QueuedTops /\ ReceivedTops /\ FinalTops /\ Answers
  BY DEF AnswersInv
<1>1. UNCHANGED <<joinQueue, partialTops, answered, results>>
  BY DEF Join!Scan, Join!BeginFinalTop, Join!EndScan, Join!queueVars, Join!filterVars
<1>2. QueuedTops' /\ ReceivedTops'
  BY <1>0, <1>1, QueueRests, ReceivedRest
<1>3. \A d \in Clients : AllSent(d) => AllSent(d)' /\ RightAnswer(d)' = RightAnswer(d)
  BY AnswerRests
<1>4. CASE Join!Scan
  <2>1. /\ monitor = "scan" /\ monitor' = "next" /\ ready' = ready \ toSend'
        /\ toSend' = {d \in ready : Join!AllReceived(d)}
        /\ UNCHANGED <<sending, current, finalTop>>
    BY <1>4 DEF Join!Scan, Join!filterVars
  <2>2. \A d \in Clients : Join!AllReceived(d) => Join!Received(d) = Aggs
    BY <1>0, EnoughTops DEF Join!AllReceived, ReceivedTops
  <2>3. \A d \in toSend' : d \in Clients /\ Join!Received(d)' = Aggs
    BY <1>0, <1>1, <2>1, <2>2 DEF FinalTops, Join!Received
  <2>4. FinalTops'
    BY <1>0, <1>1, <2>1, <2>3 DEF FinalTops
  <2>5. Answers'
    BY <1>0, <1>1, <2>1, AnswersRest
  <2> QED
    BY <1>2, <2>4, <2>5 DEF AnswersInv
<1>5. CASE Join!EndScan
  <2>1. monitor = "next" /\ monitor' = "scan" /\ UNCHANGED <<sending, ready, toSend, current, finalTop>>
    BY <1>5 DEF Join!EndScan, Join!filterVars, Join!workerVars
  <2>2. FinalTops'
    BY <1>0, <1>1, <1>3, <2>1 DEF FinalTops, Join!Received
  <2>3. Answers'
    BY <1>0, <1>1, <2>1, AnswersRest
  <2> QED
    BY <1>2, <2>2, <2>3 DEF AnswersInv
<1>6. ASSUME NEW c \in Clients, Join!BeginFinalTop(c) PROVE AnswersInv'
  <2>1. /\ monitor = "next" /\ c \in toSend /\ toSend' = toSend \ {c} /\ UNCHANGED ready
        /\ IF Join!AlreadySent(c)
             THEN UNCHANGED <<sending, finalTop, current, monitor>>
             ELSE /\ sending' = sending \cup {c}
                  /\ finalTop' = Join!TopOf(Join!MergeOf(partialTops[c]))
                  /\ current' = {c}
                  /\ monitor' = "send"
    BY <1>6 DEF Join!BeginFinalTop, Join!workerVars
  <2>2. current = {}
    BY <1>0, <2>1 DEF FinalTops
  <2>3. Answers'
    BY <1>0, <1>1, <2>1, <2>2, AnswersRest
  <2>4. CASE Join!AlreadySent(c)
    <3>1. FinalTops'
      BY <1>0, <1>1, <2>1, <2>2, <2>4 DEF FinalTops, Join!Received
    <3> QED
      BY <1>2, <2>3, <3>1 DEF AnswersInv
  <2>5. CASE ~Join!AlreadySent(c)
    <3>1. c \notin answered /\ Join!Received(c) = Aggs
      BY <1>0, <2>1, <2>5 DEF Join!AlreadySent, FinalTops
    <3>2. AllSent(c) /\ partialTops[c] = TopsFor(c)
      BY <1>0, <3>1, AllTops
    <3>3. finalTop' = RightAnswer(c)
      BY <2>1, <2>5, <3>2, SameTop, SameMerge DEF RightAnswer
    <3>4. AllSent(c)' /\ finalTop' = RightAnswer(c)'
      BY <1>3, <3>2, <3>3
    <3>5. sending' = {c} /\ current' = {c} /\ monitor' = "send"
      BY <1>0, <2>1, <2>2, <2>5 DEF FinalTops
    <3>6. FinalTops'
      BY <1>0, <1>1, <2>1, <3>1, <3>4, <3>5 DEF FinalTops, Join!Received
    <3> QED
      BY <1>2, <2>3, <3>6 DEF AnswersInv
  <2> QED
    BY <2>4, <2>5
<1> QED
  BY <1>4, <1>5, <1>6

\* The final top is sent, and its client completed.
LEMMA FinalTopSent ==
    ASSUME TopsRest, AnswersInv, Unbroken, NEW c \in Clients, Join!SendFinalTop(c)
    PROVE  /\ AnswersInv'
           /\ results[c] = <<>> /\ AllSent(c) /\ results' = [results EXCEPT ![c] = <<RightAnswer(c)>>]
<1>0. QueuedTops /\ ReceivedTops /\ FinalTops /\ Answers
  BY DEF AnswersInv
<1>1. PICK out \in Join!SendOutcomes(resultLink) :
         /\ resultLink' = out.link
         /\ results' = IF out.delivered THEN [results EXCEPT ![c] = Append(@, finalTop)]
                                        ELSE results
         /\ ~out.raised => monitor' = "end" /\ UNCHANGED <<sending, ready, current>>
         /\ out.raised \/ ~out.raised
  BY DEF Join!SendFinalTop
<1>2. out.delivered /\ ~out.raised
  BY <1>1, OpenLink DEF Unbroken
<1>3. /\ monitor = "send" /\ c \in current /\ monitor' = "end"
      /\ UNCHANGED <<joinQueue, partialTops, answered, sending, ready, toSend, current, finalTop>>
      /\ results' = [results EXCEPT ![c] = Append(@, finalTop)]
  BY <1>1, <1>2, Zenon DEF Join!SendFinalTop, Join!queueVars
<1>4. c \notin answered /\ AllSent(c) /\ finalTop = RightAnswer(c) /\ \A d \in current : d = c
  BY <1>0, <1>3 DEF FinalTops
<1>5. results[c] = <<>>
  BY <1>0, <1>3, <1>4 DEF Answers
<1>6. PICK top : top = RightAnswer(c)
  OBVIOUS
<1>7. Append(results[c], finalTop) = <<top>>
  BY <1>4, <1>5, <1>6
<1>8. results' = [results EXCEPT ![c] = <<top>>]
  BY <1>3, <1>7
<1>9. \A d \in Clients : AllSent(d) => AllSent(d)' /\ RightAnswer(d)' = RightAnswer(d)
  BY AnswerRests
<1>10. QueuedTops' /\ ReceivedTops'
  BY <1>0, <1>3, QueueRests, ReceivedRest
<1>11. FinalTops'
  BY <1>0, <1>3, <1>9 DEF FinalTops, Join!Received
<1>12. Answers'
  <2>1. /\ results = [d \in Clients |-> results[d]]
    BY <1>0 DEF Answers
  <2>2. /\ results' = [d \in Clients |-> results'[d]] /\ results'[c] = <<top>>
        /\ \A d \in Clients : d # c => results'[d] = results[d]
    BY <1>8, <2>1
  <2>3. AllSent(c)' /\ RightAnswer(c)' = top
    BY <1>4, <1>6, <1>9
  <2>4. ASSUME NEW d \in Clients, results'[d] # <<>>
        PROVE  /\ d \in answered' \/ (d \in current' /\ monitor' = "end")
               /\ AllSent(d)' /\ results'[d] = <<RightAnswer(d)'>>
    <3>1. CASE d = c
      <4>1. d \in current' /\ monitor' = "end" /\ AllSent(d)'
        BY <1>3, <2>3, <3>1
      <4>2. results'[d] = <<RightAnswer(d)'>>
        BY <2>2, <2>3, <3>1
      <4> QED
        BY <4>1, <4>2
    <3>2. CASE d # c
      <4>1. results[d] # <<>> /\ results'[d] = results[d]
        BY <2>2, <2>4, <3>2
      <4>2. /\ d \in answered \/ (d \in current /\ monitor = "end")
            /\ AllSent(d) /\ results[d] = <<RightAnswer(d)>>
        BY <1>0, <4>1 DEF Answers
      <4>3. AllSent(d)' /\ RightAnswer(d)' = RightAnswer(d)
        BY <1>9, <4>2
      <4> QED
        BY <1>3, <4>1, <4>2, <4>3
    <3> QED
      BY <3>1, <3>2
  <2> QED
    BY <2>2, <2>4 DEF Answers
<1> QED
  BY <1>4, <1>5, <1>6, <1>8, <1>10, <1>11, <1>12 DEF AnswersInv

\* The client that was sent is completed.
LEMMA FinalTopEnded ==
    ASSUME TopsRest, AnswersInv, NEW c \in Clients, Join!EndFinalTop(c)
    PROVE  AnswersInv'
<1>0. QueuedTops /\ ReceivedTops /\ FinalTops /\ Answers
  BY DEF AnswersInv
<1>1. /\ monitor = "end" /\ c \in current
      /\ sending' = sending \ {c} /\ answered' = answered \cup {c}
      /\ partialTops' = [partialTops EXCEPT ![c] = Join!NoTops]
      /\ current' = {} /\ monitor' = "next"
      /\ UNCHANGED <<joinQueue, ready, toSend, finalTop, results>>
  BY DEF Join!EndFinalTop, Join!Discarded, Join!WithoutTops, Join!queueVars, Join!workerVars
<1>2. current = {c} /\ sending = {c}
  BY <1>0, <1>1 DEF FinalTops
<1>3. DOMAIN Join!NoTops = {} /\ Join!NoTops = [a \in DOMAIN Join!NoTops |-> Join!NoTops[a]]
  BY DEF Join!NoTops
<1>4. PICK none : none = Join!NoTops
  OBVIOUS
<1>5. partialTops = [d \in Clients |-> partialTops[d]]
  BY <1>0 DEF ReceivedTops
<1>6. /\ partialTops' = [d \in Clients |-> partialTops'[d]] /\ partialTops'[c] = none
      /\ \A d \in Clients : d # c => partialTops'[d] = partialTops[d]
  BY <1>1, <1>4, <1>5
<1>7. QueuedTops'
  BY <1>0, <1>1, QueueRests
<1>8. ReceivedTops'
  <2>1. ASSUME NEW d \in Clients
        PROVE  /\ DOMAIN partialTops'[d] \subseteq Aggs
               /\ partialTops'[d] = [i \in DOMAIN partialTops'[d] |-> partialTops'[d][i]]
               /\ \A b \in DOMAIN partialTops'[d] :
                     SentTop(b, d)' /\ partialTops'[d][b] = TopFor(b, d)'
    <3>1. CASE d = c
      BY <1>3, <1>4, <1>6, <3>1
    <3>2. CASE d # c
      <4>1. /\ DOMAIN partialTops[d] \subseteq Aggs
            /\ partialTops[d] = [i \in DOMAIN partialTops[d] |-> partialTops[d][i]]
            /\ \A b \in DOMAIN partialTops[d] : SentTop(b, d) /\ partialTops[d][b] = TopFor(b, d)
        BY <1>0 DEF ReceivedTops, Join!Received
      <4> QED
        BY <1>6, <3>2, <4>1 DEF TopsRest
    <3> QED
      BY <3>1, <3>2
  <2> QED
    BY <1>6, <2>1 DEF ReceivedTops, Join!Received
<1>9. FinalTops'
  <2>1. \A d \in toSend : d \in answered' \/ DOMAIN partialTops'[d] = Aggs
    BY <1>0, <1>1, <1>6 DEF FinalTops, Join!Received
  <2> QED
    BY <1>0, <1>1, <1>2, <2>1 DEF FinalTops, Join!Received
<1>10. Answers'
  BY <1>0, <1>1, <1>2, AnswersRest
<1> QED
  BY <1>7, <1>8, <1>9, <1>10 DEF AnswersInv

\* A signal: of what is spoken of here it changes the ready clients only.
LEMMA SignalTaken ==
    ASSUME TopsRest, AnswersInv, NEW a \in Aggs, NEW c \in Clients, Join!ProcessSignal(a, c)
    PROVE  AnswersInv'
<1>0. QueuedTops /\ ReceivedTops /\ FinalTops /\ Answers
  BY DEF AnswersInv
<1>1. /\ ready' \subseteq ready \cup {c}
      /\ UNCHANGED <<joinQueue, partialTops, answered, sending, monitor, toSend, current, finalTop,
                     results>>
  BY DEF Join!ProcessSignal, Join!filterVars, Join!monitorVars
<1>2. QueuedTops' /\ ReceivedTops'
  BY <1>0, <1>1, QueueRests, ReceivedRest
<1>3. \A d \in Clients : AllSent(d) => AllSent(d)' /\ RightAnswer(d)' = RightAnswer(d)
  BY AnswerRests
<1>4. FinalTops'
  BY <1>0, <1>1, <1>3 DEF FinalTops, Join!Received
<1>5. Answers'
  BY <1>0, <1>1, AnswersRest
<1> QED
  BY <1>2, <1>4, <1>5 DEF AnswersInv

\* A step that leaves the join and its queue of tops alone.
LEMMA JoinRests ==
    ASSUME TopsRest, AnswersInv, UNCHANGED <<joinQueue, joinVars>>
    PROVE  AnswersInv'
<1>0. QueuedTops /\ ReceivedTops /\ FinalTops /\ Answers
  BY DEF AnswersInv
<1>1. UNCHANGED <<partialTops, answered, sending, ready, monitor, toSend, current, finalTop, results>>
  BY DEF joinVars
<1>2. QueuedTops' /\ ReceivedTops' /\ FinalTops'
  BY <1>0, <1>1, QueueRests, ReceivedRest, FinalTopsRest
<1>3. Answers'
  BY <1>0, <1>1, AnswersRest
<1> QED
  BY <1>2, <1>3 DEF AnswersInv

\* The steps of the join.
LEMMA JoinCases ==
    ASSUME Join!JoinStep
    PROVE  \/ \E a \in Aggs, c \in Clients : Join!ProcessPartialTop(a, c)
           \/ \E a \in Aggs, c \in Clients : Join!ProcessSignal(a, c)
           \/ Join!Scan \/ Join!EndScan
           \/ \E c \in Clients : Join!BeginFinalTop(c)
           \/ \E c \in Clients : Join!SendFinalTop(c)
           \/ \E c \in Clients : Join!EndFinalTop(c)
<1>1. ~Join!LoseInput /\ ~Join!BreakOutput /\ \A a \in Aggs : ~Join!LoseCoordination(a)
  BY DEF Join!LoseInput, Join!BreakOutput, Join!LoseCoordination
<1>2. Join!Aggs = Aggs
  BY DEF Join!Aggs, Aggs
<1> QED
  BY <1>1, <1>2, Zenon
     DEF Join!JoinStep, Join!DataListener, Join!CoordinationListener, Join!Monitor

\* What a step of an aggregation sends to the join.
LEMMA StepOfAgg ==
    ASSUME AggP!Invariant, Unbroken, NEW a \in Aggs, Aggregation!Consume(a), UNCHANGED sumVars
    PROVE  /\ TopsRest
           /\ \/ joinQueue' = joinQueue
              \/ \E c \in Clients :
                    /\ ~SentTop(a, c) /\ SentTop(a, c)' /\ TopFor(a, c)' = TopFor(a, c)
                    /\ joinQueue' = [joinQueue EXCEPT ![a][c] = Append(@, TopFor(a, c))]
<1>1. PICK s \in Sums, c \in Clients :
          \/ Aggregation!ReceivePartialSum(a, s, c) \/ Aggregation!SkipEof(a, s, c)
          \/ Aggregation!CountEof(a, s, c) \/ Aggregation!BeginTop(a, s, c)
          \/ Aggregation!SendPartialTop(a, s, c) \/ Aggregation!SendCoordination(a, s, c)
          \/ Aggregation!CompleteTop(a, s, c)
  BY Zenon DEF Aggregation!Consume
<1>2. \A b \in Aggs, d \in Clients : TopFor(b, d)' = TopFor(b, d)
  BY SumsRest
<1>3. CASE Aggregation!SendPartialTop(a, s, c)
  BY <1>2, <1>3, TopSent DEF TopsRest
<1>4. CASE Aggregation!SendCoordination(a, s, c)
  BY <1>2, <1>4, SignalSent DEF TopsRest
<1>5. CASE \/ Aggregation!ReceivePartialSum(a, s, c) \/ Aggregation!SkipEof(a, s, c)
           \/ Aggregation!CountEof(a, s, c) \/ Aggregation!BeginTop(a, s, c)
           \/ Aggregation!CompleteTop(a, s, c)
  <2>1. joinQueue' = joinQueue
    BY <1>5 DEF Aggregation!ReceivePartialSum, Aggregation!SkipEof, Aggregation!CountEof,
       Aggregation!BeginTop, Aggregation!CompleteTop, Aggregation!outputVars
  <2>2. \/ AggP!ReceivePartialSum(a, s, c) \/ AggP!SkipEof(a, s, c) \/ AggP!CountEof(a, s, c)
        \/ AggP!BeginTop(a, s, c) \/ AggP!CompleteTop(a, s, c)
    BY <1>5, MessageTaken, TopBegunOrCompleted
  <2>3. TopsByAgg' = TopsByAgg
    BY <2>2 DEF AggP!ReceivePartialSum, AggP!SkipEof, AggP!CountEof, AggP!BeginTop,
       AggP!CompleteTop, AggP!outputVars
  <2>4. \A b \in Aggs, d \in Clients : TopOut(b, d)' = TopOut(b, d)
    BY <2>3 DEF TopsByAgg
  <2>5. \A b \in Aggs, d \in Clients : SentTop(b, d) => SentTop(b, d)'
    BY <2>4, Zenon DEF TopOut
  <2> QED
    BY <1>2, <2>1, <2>5 DEF TopsRest
<1> QED
  BY <1>1, <1>3, <1>4, <1>5

\* What every step does to the tops that were sent.
LEMMA StepOfTops == SentInv /\ SumsInv' /\ [Next]_vars => TopsRest
<1> SUFFICES ASSUME SentInv, SumsInv', [Next]_vars PROVE TopsRest
  OBVIOUS
<1>0. SumsInv /\ Unbroken /\ ContentInv /\ AggP!Invariant
  BY DEF SentInv
<1>1. UNCHANGED <<sent, inbox, aggVars>> => TopsRest
  BY <1>0, NothingSent DEF TopsRest
<1>2. Publishes /\ UNCHANGED <<inbox, aggVars, topVars, joinVars>> =>
         UNCHANGED <<sent, inbox, aggVars>>
  BY DEF Publishes, SumP!PublishData, SumP!PublishEof, SumP!outputVars
<1>3. UNCHANGED <<sumVars, inbox, aggVars>> \/ UNCHANGED vars => UNCHANGED <<sent, inbox, aggVars>>
  BY DEF sumVars, vars
<1>4. ASSUME NEW s \in Sums, SumMoves(s), Forward(s) PROVE TopsRest
  BY <1>0, <1>4, TopsStay DEF TopsRest
<1>5. ASSUME NEW a \in Aggs, Aggregation!Consume(a), UNCHANGED <<sumVars, joinVars>>
      PROVE  TopsRest
  BY <1>0, <1>5, StepOfAgg DEF TopsRest
<1> QED
  BY <1>1, <1>2, <1>3, <1>4, <1>5, StepCases

\* Every step keeps the tops and the answers right.
LEMMA AnswersStep == SentInv /\ SumsInv' /\ AnswersInv /\ [Next]_vars => AnswersInv'
<1> SUFFICES ASSUME SentInv, SumsInv', AnswersInv, [Next]_vars PROVE AnswersInv'
  OBVIOUS
<1>0. Unbroken /\ AggP!Invariant
  BY DEF SentInv
<1>1. TopsRest
  BY StepOfTops
<1>2. UNCHANGED <<joinQueue, joinVars>> => AnswersInv'
  BY <1>1, JoinRests
<1>3. (Publishes /\ UNCHANGED <<inbox, aggVars, topVars, joinVars>>) \/ UNCHANGED vars =>
         UNCHANGED <<joinQueue, joinVars>>
  BY DEF vars, topVars
<1>4. ASSUME NEW s \in Sums, SumMoves(s), Forward(s) PROVE UNCHANGED <<joinQueue, joinVars>>
  BY <1>4 DEF Forward, topVars
<1>5. ASSUME NEW a \in Aggs, Aggregation!Consume(a), UNCHANGED <<sumVars, joinVars>>
      PROVE  AnswersInv'
  <2>1. CASE joinQueue' = joinQueue
    BY <1>2, <1>5, <2>1
  <2>2. CASE joinQueue' # joinQueue
    <3>0. UNCHANGED sumVars
      BY <1>5
    <3>1. PICK c \in Clients :
            /\ ~SentTop(a, c) /\ SentTop(a, c)' /\ TopFor(a, c)' = TopFor(a, c)
            /\ joinQueue' = [joinQueue EXCEPT ![a][c] = Append(@, TopFor(a, c))]
      BY <1>0, <1>5, <2>2, <3>0, StepOfAgg
    <3>2. QueuedTops /\ ReceivedTops /\ FinalTops /\ Answers
      BY DEF AnswersInv
    <3>3. QueuedTops'
      BY <1>1, <3>1, <3>2, TopQueued, Zenon
    <3>4. UNCHANGED <<partialTops, answered, sending, ready, monitor, toSend, current, finalTop, results>>
      BY <1>5 DEF joinVars
    <3>5. ReceivedTops' /\ FinalTops'
      BY <1>1, <3>2, <3>4, ReceivedRest, FinalTopsRest
    <3>6. Answers'
      BY <1>1, <3>2, <3>4, AnswersRest
    <3> QED
      BY <3>3, <3>5, <3>6 DEF AnswersInv
  <2> QED
    BY <2>1, <2>2
<1>6. ASSUME Join!JoinStep PROVE AnswersInv'
  <2>1. ASSUME NEW a \in Aggs, NEW c \in Clients,
               Join!ProcessPartialTop(a, c) \/ Join!ProcessSignal(a, c)
        PROVE  AnswersInv'
    BY <1>1, <2>1, TopTaken, SignalTaken
  <2>2. Join!Scan \/ Join!EndScan \/ (\E c \in Clients : Join!BeginFinalTop(c)) => AnswersInv'
    BY <1>1, FinalTopBegun
  <2>3. ASSUME NEW c \in Clients, Join!SendFinalTop(c) \/ Join!EndFinalTop(c)
        PROVE  AnswersInv'
    BY <1>0, <1>1, <2>3, FinalTopSent, FinalTopEnded
  <2> QED
    BY <1>6, <2>1, <2>2, <2>3, JoinCases
<1> QED
  BY <1>2, <1>3, <1>4, <1>5, <1>6, StepCases

\* At the start there are no tops.
LEMMA AnswersInit == Init => AnswersInv
<1> SUFFICES ASSUME Init PROVE AnswersInv
  OBVIOUS
<1>1. Aggregation!AggInit /\ Join!JoinInit
  BY DEF Init
<1>2. QueuedTops
  BY <1>1 DEF Aggregation!AggInit, Aggregation!Aggs, Aggs, QueuedTops
<1>3. /\ partialTops = [c \in Clients |-> [a \in {} |-> Join!NoFruits]]
      /\ answered = {} /\ sending = {} /\ ready = {} /\ monitor = "scan" /\ toSend = {}
      /\ current = {} /\ results = [c \in Clients |-> <<>>]
  BY <1>1 DEF Join!JoinInit
<1>4. ReceivedTops
  BY <1>3 DEF ReceivedTops, Join!Received
<1>5. FinalTops
  BY <1>3 DEF FinalTops
<1>6. Answers
  BY <1>3 DEF Answers
<1> QED
  BY <1>2, <1>4, <1>5, <1>6 DEF AnswersInv

\* So it is always.
LEMMA AnswersAlways == Spec => [](SentInv /\ AnswersInv)
BY AnswersInit, AnswersStep, SentAlways, SumsAreRight, PTL DEF Spec

-----------------------------------------------------------------------------
(* The answer is the top of what the Sums sent.                            *)

\* The records of client c, and those of fruit f among them, that Sum s sent.
CarriedBy(s, c) == {r \in Records : ClientOf[r] = c /\ SumP!Carried(s, r)}
OfFruit(s, c, f) == {r \in CarriedBy(s, c) : FruitOf[r] = f}
AllCarried(c) == {r \in published \cap Sum!RecordsOf(c) : \E s \in Sums : Sum!Carried(s, r)}
AllOfFruit(c, f) == {r \in AllCarried(c) : FruitOf[r] = f}

\* A record that was sent is in the message about its fruit.
LEMMA PlaceOfRecord ==
    ASSUME SumsInv, Unbroken, ContentInv, NEW s \in Sums, NEW c \in Clients, NEW f \in Fruits,
           NEW r \in OfFruit(s, c, f)
    PROVE  r \in Records /\ \E i \in Places(s, c, f) : Channel(s, c, f)[i].amount[r] > 0
<1>1. SumP!Aggs = Aggs /\ SumP!MessageInv
  BY SumFacts DEF SumP!Aggs, Aggs
<1>2. r \in Records /\ ClientOf[r] = c /\ FruitOf[r] = f /\ SumP!Carried(s, r)
  BY DEF OfFruit, CarriedBy
<1>3. PICK d \in Clients, a \in Aggs : \E j \in DOMAIN sent[s][d][a] :
         sent[s][d][a][j].type = "PARTIAL_SUM" /\ sent[s][d][a][j].amount[r] > 0
  BY <1>1, <1>2 DEF SumP!Carried
<1>4. PICK j \in DOMAIN sent[s][d][a] :
         sent[s][d][a][j].type = "PARTIAL_SUM" /\ sent[s][d][a][j].amount[r] > 0
  BY <1>3
<1>5. d = c /\ sent[s][d][a][j].fruit = f
  BY <1>1, <1>2, <1>4 DEF SumP!MessageInv
<1>6. TargetAggregation[f] = a
  BY <1>4, <1>5 DEF ContentInv, SentContent, HasContent
<1> QED
  BY <1>2, <1>4, <1>5, <1>6 DEF Places, Channel, IsSumOf

\* The message about a fruit carries the records of it, each once.
LEMMA FruitInMessage ==
    ASSUME SumsInv, Unbroken, ContentInv, NEW s \in Sums, NEW c \in Clients, NEW f \in Fruits,
           NEW i \in Places(s, c, f), NEW m, m = Channel(s, c, f)[i]
    PROVE  /\ m \in SumP!Messages /\ m.amount \in [Records -> {0, 1}]
           /\ OfFruit(s, c, f) = {r \in Records : m.amount[r] = 1}
           /\ OfFruit(s, c, f) # {}
<1> PICK a : a = TargetAggregation[f]
  OBVIOUS
<1>1. a \in Aggs /\ sent[s][c][a] \in Seq(SumP!Messages) /\ Channel(s, c, f) = sent[s][c][a]
  BY SumTypes DEF Channel
<1>2. i \in DOMAIN sent[s][c][a] /\ m = sent[s][c][a][i] /\ m.type = "PARTIAL_SUM" /\ m.fruit = f
  BY <1>1 DEF Places, IsSumOf
<1>3. m \in SumP!Messages /\ m.amount \in [Records -> Nat]
  BY <1>1, <1>2, SumMessages DEF SumP!Bag
<1>4. SumP!Aggs = Aggs /\ SumP!MessageInv
  BY SumFacts DEF SumP!Aggs, Aggs
<1>5. \A r \in Records : m.amount[r] > 0 =>
         m.amount[r] = 1 /\ c = ClientOf[r] /\ f = FruitOf[r]
  BY <1>1, <1>2, <1>4 DEF SumP!MessageInv
<1>6. m.amount \in [Records -> {0, 1}]
  <2>1. ASSUME NEW r \in Records PROVE m.amount[r] \in {0, 1}
    <3>1. m.amount[r] \in Nat
      BY <1>3
    <3> QED
      BY <1>5, <3>1
  <2> QED
    BY <1>3, <2>1
<1>7. ASSUME NEW r \in Records, m.amount[r] = 1 PROVE r \in OfFruit(s, c, f)
  <2>1. SumP!Carried(s, r)
    BY <1>1, <1>2, <1>4, <1>7 DEF SumP!Carried
  <2> QED
    BY <1>5, <1>7, <2>1 DEF OfFruit, CarriedBy
<1>8. ASSUME NEW r \in OfFruit(s, c, f) PROVE r \in Records /\ m.amount[r] = 1
  <2>1. PICK j \in Places(s, c, f) : r \in Records /\ Channel(s, c, f)[j].amount[r] > 0
    BY PlaceOfRecord
  <2>2. j = i
    BY ChannelFacts
  <2> QED
    BY <1>5, <2>1, <2>2
<1>9. \E r \in Records : m.amount[r] > 0
  BY <1>1, <1>2 DEF ContentInv, SentContent, HasContent
<1>10. OfFruit(s, c, f) # {}
  BY <1>5, <1>7, <1>9
<1> QED
  BY <1>3, <1>6, <1>7, <1>8, <1>10

\* The table of what a Sum sent has the sums of the records that it carried.
LEMMA TableOfCarried ==
    ASSUME SumsInv, Unbroken, ContentInv, NEW s \in Sums, NEW c \in Clients, NEW f \in Fruits
    PROVE  /\ f \in DOMAIN TableSent(s, c) <=> OfFruit(s, c, f) # {}
           /\ f \in DOMAIN TableSent(s, c) => TableSent(s, c)[f] = Over(Units, OfFruit(s, c, f))
<1>1. f \in DOMAIN TableSent(s, c) <=> Places(s, c, f) # {}
  BY TablesSent
<1>2. ASSUME NEW i \in Places(s, c, f)
      PROVE  /\ OfFruit(s, c, f) # {}
             /\ TableSent(s, c)[f] = Over(Units, OfFruit(s, c, f))
  <2>1. PICK m : m = Channel(s, c, f)[i]
    OBVIOUS
  <2>2. /\ m.amount \in [Records -> {0, 1}] /\ OfFruit(s, c, f) # {}
        /\ OfFruit(s, c, f) = {r \in Records : m.amount[r] = 1}
    BY <2>1, FruitInMessage
  <2>3. TableSent(s, c)[f] = AddedUp(m.amount)
    BY <2>1, TablesSent
  <2>4. AddedUp(m.amount) = Over(Units, {r \in Records : m.amount[r] = 1})
    <3> PICK b : b = m.amount
      OBVIOUS
    <3>1. b \in [Records -> {0, 1}] /\ Units \in [Records -> Nat] /\ IsFiniteSet(Records)
      BY <2>2, PipelineAssumption
    <3>2. SumFunction([r \in Records |-> b[r] * Units[r]]) = Over(Units, {r \in Records : b[r] = 1})
      BY <3>1, CountedOrNot
    <3> QED
      BY <3>2 DEF AddedUp
  <2> QED
    BY <2>2, <2>3, <2>4
<1>3. ASSUME NEW r \in OfFruit(s, c, f) PROVE Places(s, c, f) # {}
  BY PlaceOfRecord
<1> QED
  BY <1>1, <1>2, <1>3

\* The totals of what was sent, in the words of UploadService.
TotalsSent(c) == Service!Totals(AllCarried(c))

\* What was sent of a client is what each Sum sent, and no record was sent by two.
LEMMA CarriedOnce ==
    ASSUME SumsInv, Unbroken, NEW c \in Clients, NEW f
    PROVE  /\ AllOfFruit(c, f) = UNION {OfFruit(s, c, f) : s \in Sums}
           /\ \A s, q \in Sums : s # q => OfFruit(s, c, f) \cap OfFruit(q, c, f) = {}
<1>1. \A s, r : Sum!Carried(s, r) <=> SumP!Carried(s, r)
  BY DEF Sum!Carried, SumP!Carried, Sum!Aggs, SumP!Aggs
<1>2. \A s \in Sums, r \in Records : SumP!Carried(s, r) =>
         r \in published /\ \A q \in Sums \ {s} : ~SumP!Carried(q, r)
  BY SumFacts DEF SumP!OwnerInv, SumP!Owns
<1>3. \A s \in Sums : OfFruit(s, c, f) = {r \in Records : ClientOf[r] = c /\ FruitOf[r] = f
                                                          /\ SumP!Carried(s, r)}
  BY DEF OfFruit, CarriedBy
<1>4. AllOfFruit(c, f) = {r \in Records : /\ r \in published /\ ClientOf[r] = c /\ FruitOf[r] = f
                                          /\ \E s \in Sums : SumP!Carried(s, r)}
  BY <1>1 DEF AllOfFruit, AllCarried, Sum!RecordsOf
<1> QED
  BY <1>2, <1>3, <1>4

\* The totals, fruit by fruit.
LEMMA TotalsOfCarried ==
    ASSUME NEW c \in Clients
    PROVE  /\ IsTable(TotalsSent(c))
           /\ \A f \in Fruits : /\ f \in DOMAIN TotalsSent(c) <=> AllOfFruit(c, f) # {}
                                /\ f \in DOMAIN TotalsSent(c) => TotalsSent(c)[f] = Over(Units, AllOfFruit(c, f))
<1>1. AllCarried(c) \subseteq Records /\ FruitOf \in [Records -> Fruits]
      /\ Units \in [Records -> Nat] /\ IsFiniteSet(Records)
  BY PipelineAssumption DEF AllCarried, Sum!RecordsOf
<1>2. \A g : Service!SumFunction(g) = SumFunction(g)
  BY DEF Service!SumFunction, Service!SumFunctionOnSet, Service!FoldFunctionOnSet,
     Service!MapThenFoldSet, SumFunction, SumFunctionOnSet, FoldFunctionOnSet, MapThenFoldSet
<1>3. \A f : AllOfFruit(c, f) \subseteq Records
  BY <1>1 DEF AllOfFruit
<1>4. DOMAIN TotalsSent(c) = {FruitOf[r] : r \in AllCarried(c)}
  BY DEF TotalsSent, Service!Totals
<1>5. ASSUME NEW f \in DOMAIN TotalsSent(c)
      PROVE  TotalsSent(c)[f] = Over(Units, AllOfFruit(c, f)) /\ TotalsSent(c)[f] \in Nat
  <2>1. TotalsSent(c)[f] = Service!SumFunction([r \in AllOfFruit(c, f) |-> Units[r]])
    BY <1>4 DEF TotalsSent, Service!Totals, AllOfFruit
  <2>2. [r \in AllOfFruit(c, f) |-> Units[r]] = Restrict(Units, AllOfFruit(c, f))
    BY DEF Restrict
  <2>3. TotalsSent(c)[f] = Over(Units, AllOfFruit(c, f))
    BY <1>2, <2>1, <2>2 DEF Over
  <2> QED
    BY <1>1, <1>3, <2>3, PartSum
<1>6. \A f \in Fruits : f \in DOMAIN TotalsSent(c) <=> AllOfFruit(c, f) # {}
  BY <1>4 DEF AllOfFruit
<1>7. DOMAIN TotalsSent(c) \subseteq Fruits
  BY <1>1, <1>4
<1>8. TotalsSent(c) \in [DOMAIN TotalsSent(c) -> Nat]
  <2>1. TotalsSent(c) = [f \in DOMAIN TotalsSent(c) |-> TotalsSent(c)[f]]
    BY DEF TotalsSent, Service!Totals
  <2> QED
    BY <1>5, <2>1
<1> QED
  BY <1>5, <1>6, <1>7, <1>8 DEF IsTable

\* The fruits of client c that go to aggregation a.
FruitsOf(a, c) == {f \in DOMAIN TotalsSent(c) : TargetAggregation[f] = a}

\* What an aggregation merges are the totals of its fruits.
LEMMA MergedAreTotals ==
    ASSUME SumsInv, Unbroken, ContentInv, NEW a \in Aggs, NEW c \in Clients
    PROVE  MergeOf(TablesFor(a, c)) = Restricted(TotalsSent(c), FruitsOf(a, c))
<1> PICK tables : tables = TablesFor(a, c)
  OBVIOUS
<1>1. DOMAIN tables = Sums /\ \A s \in Sums : tables[s] = Restricted(TableSent(s, c), FruitsFor(a, s, c))
  BY DEF TablesFor
<1>2. ASSUME NEW s \in Sums
      PROVE  /\ DOMAIN tables[s] = FruitsFor(a, s, c) /\ FruitsFor(a, s, c) \subseteq Fruits
             /\ \A f \in FruitsFor(a, s, c) : tables[s][f] = TableSent(s, c)[f]
             /\ \A f \in Fruits : f \in FruitsFor(a, s, c) <=>
                  TargetAggregation[f] = a /\ OfFruit(s, c, f) # {}
  <2>1. DOMAIN TableSent(s, c) \subseteq Fruits
    BY TablesSent DEF IsTable
  <2>2. \A f \in Fruits : f \in DOMAIN TableSent(s, c) <=> OfFruit(s, c, f) # {}
    BY TableOfCarried
  <2> QED
    BY <1>1, <2>1, <2>2, Zenon DEF FruitsFor, Restricted
<1>3. FruitsOf(a, c) \subseteq Fruits
  BY TotalsOfCarried DEF FruitsOf, IsTable
<1>4. ASSUME NEW f \in Fruits
      PROVE  f \in FruitsOf(a, c) <=> TargetAggregation[f] = a /\ \E s \in Sums : OfFruit(s, c, f) # {}
  <2>1. f \in DOMAIN TotalsSent(c) <=> AllOfFruit(c, f) # {}
    BY TotalsOfCarried
  <2>2. AllOfFruit(c, f) # {} <=> \E s \in Sums : OfFruit(s, c, f) # {}
    BY CarriedOnce
  <2> QED
    BY <2>1, <2>2 DEF FruitsOf
<1>5. /\ DOMAIN MergeOf(tables) = UNION {DOMAIN tables[i] : i \in DOMAIN tables}
      /\ \A f \in DOMAIN MergeOf(tables) : MergeOf(tables)[f] = SumFunction(Amounts(tables, f))
  BY MergeOfValues
<1>6. DOMAIN MergeOf(tables) = FruitsOf(a, c)
  BY <1>1, <1>2, <1>3, <1>4, <1>5
<1>7. ASSUME NEW f \in FruitsOf(a, c)
      PROVE  MergeOf(tables)[f] = TotalsSent(c)[f]
  <2> DEFINE J == {s \in Sums : f \in DOMAIN tables[s]}
             part == [s \in J |-> OfFruit(s, c, f)]
  <2>1. f \in Fruits
    BY <1>3
  <2>2. J = {s \in Sums : OfFruit(s, c, f) # {}}
    BY <1>2, <1>4, <2>1
  <2>3. \A s \in J : tables[s][f] = Over(Units, part[s])
    <3> SUFFICES ASSUME NEW s \in J PROVE tables[s][f] = Over(Units, OfFruit(s, c, f))
      OBVIOUS
    <3>1. f \in FruitsFor(a, s, c) /\ f \in DOMAIN TableSent(s, c)
      BY <1>2 DEF FruitsFor
    <3> QED
      BY <1>2, <2>1, <3>1, TableOfCarried
  <2>4. Amounts(tables, f) = [s \in J |-> Over(Units, part[s])]
    BY <1>1, <2>3, Zenon DEF Amounts
  <2>5. /\ IsFiniteSet(J) /\ part \in [J -> SUBSET Records]
        /\ \A s, q \in J : s # q => part[s] \cap part[q] = {}
    <3>1. \A s \in J : OfFruit(s, c, f) \subseteq Records
      BY DEF OfFruit, CarriedBy
    <3> QED
      BY <3>1, PipelineAssumption, FS_Subset, CarriedOnce, Zenon
  <2>6. UNION {part[s] : s \in J} = AllOfFruit(c, f)
    <3>1. AllOfFruit(c, f) = UNION {OfFruit(s, c, f) : s \in Sums}
      BY CarriedOnce
    <3>2. \A s \in J : part[s] = OfFruit(s, c, f) /\ s \in Sums
      OBVIOUS
    <3>3. \A s \in Sums : s \in J \/ OfFruit(s, c, f) = {}
      BY <2>2
    <3> HIDE DEF J, part
    <3> QED
      BY <3>1, <3>2, <3>3
  <2> HIDE DEF J, part
  <2>7. SumFunction([s \in J |-> Over(Units, part[s])]) = Over(Units, UNION {part[s] : s \in J})
    BY <2>5, PipelineAssumption, SumOfSums
  <2>8. TotalsSent(c)[f] = Over(Units, AllOfFruit(c, f))
    BY <2>1, TotalsOfCarried DEF FruitsOf
  <2> QED
    BY <1>5, <1>6, <2>4, <2>6, <2>7, <2>8, Zenon
<1>8. MergeOf(tables) = Restricted(TotalsSent(c), FruitsOf(a, c))
  <2>1. MergeOf(tables) = [f \in DOMAIN MergeOf(tables) |-> MergeOf(tables)[f]]
    BY DEF MergeOf
  <2> QED
    BY <1>6, <1>7, <2>1 DEF Restricted
<1> QED
  BY <1>8

\* So the answer of the join is the top of the totals.
LEMMA RightAnswerIsTop ==
    ASSUME SumsInv, Unbroken, ContentInv, NEW c \in Clients
    PROVE  RightAnswer(c) = TopOf(TotalsSent(c))
<1> PICK t : t = TotalsSent(c)
  OBVIOUS
<1> DEFINE part == [a \in Aggs |-> FruitsOf(a, c)]
<1>1. IsTable(t) /\ IsFiniteSet(Aggs)
  BY TotalsOfCarried, PipelineAssumption, FS_Interval DEF Aggs
<1>2. /\ part \in [Aggs -> SUBSET DOMAIN t]
      /\ \A a, b \in Aggs : a # b => part[a] \cap part[b] = {}
  BY DEF FruitsOf
<1>3. UNION {part[a] : a \in Aggs} = DOMAIN t
  <2>1. \A f \in DOMAIN t : TargetAggregation[f] \in Aggs
    BY <1>1, SumTypes DEF IsTable
  <2> QED
    BY <2>1 DEF FruitsOf
<1>4. \A a \in Aggs : TopFor(a, c) = TopOf(Restricted(t, part[a]))
  BY MergedAreTotals DEF TopFor
<1>5. TopsFor(c) = [a \in Aggs |-> TopOf(Restricted(t, part[a]))]
  BY <1>4 DEF TopsFor
<1> HIDE DEF part
<1>6. TopOf(MergeOf([a \in Aggs |-> TopOf(Restricted(t, part[a]))])) = TopOf(t)
  BY <1>1, <1>2, <1>3, JoinTopIsTop
<1> QED
  BY <1>5, <1>6 DEF RightAnswer

-----------------------------------------------------------------------------
(* The theorem.                                                            *)

\* The answer to a client is the top of the totals of the records that the Sums sent to
\* the aggregations, each once (sum/main.py:143-161, aggregation/main.py:52-134,
\* join/main.py:46-98).
THEOREM ForwardedIsAnswered == Spec => []AnswerIsTopOfForwarded
<1>1. SentInv /\ AnswersInv => AnswerIsTopOfForwarded
  <2> SUFFICES ASSUME SentInv, AnswersInv, NEW c \in Clients, NEW i \in DOMAIN results[c]
               PROVE  results[c][i] = TopOf(TotalsSent(c))
    BY Zenon DEF AnswerIsTopOfForwarded, TotalsSent, AllCarried
  <2>1. DOMAIN <<>> = {}
    OBVIOUS
  <2>2. results[c] = <<RightAnswer(c)>>
    BY <2>1 DEF AnswersInv, Answers
  <2>3. results[c][i] = RightAnswer(c)
    BY <2>2
  <2>4. SumsInv /\ Unbroken /\ ContentInv
    BY DEF SentInv
  <2> QED
    BY <2>3, <2>4, RightAnswerIsTop
<1> QED
  BY <1>1, AnswersAlways, PTL

-----------------------------------------------------------------------------
(* The answer is the one that UploadService promises.                      *)

\* When every aggregation has sent its top of a client, every Sum has sent all it will.
LEMMA AllSentIsAll ==
    ASSUME SentInv, NEW c \in Clients, AllSent(c), NEW s \in Sums
    PROVE  SumP!SendsNoMore(s, c) /\ c \in eofSent
<1>0. SumsInv /\ Unbroken /\ AggP!Invariant
  BY DEF SentInv
<1>1. SumP!Aggs = Aggs /\ 0 \in Aggs
  BY PipelineAssumption DEF SumP!Aggs, Aggs
<1>2. SumP!ThreadInv /\ SumP!CopyInv /\ SumP!SettledInv /\ SumP!FlushInv
  BY <1>0, SumFacts
<1>3. SumP!ChannelInv(s, c)
  BY <1>2 DEF SumP!FlushInv
<1>4. EofIn(s, c, 0)
  BY <1>0, <1>1, AllEnded DEF AllSent
<1>5. c \in finalizing[s] \cup finished[s]
  <2>1. sent[s][c][0] # <<>>
    BY <1>4 DEF EofIn
  <2> QED
    BY <1>1, <1>3, <2>1 DEF SumP!ChannelInv
<1>6. ASSUME c \in finalizing[s]
      PROVE  \E t \in SumP!Threads : SumP!Finalizes(s, t, c) /\ left[s][t] = {}
  <2>1. PICK t \in SumP!Threads : SumP!Finalizes(s, t, c)
    BY <1>2, <1>6 DEF SumP!CopyInv
  <2>2. left[s][t] # {} => nextAgg[s][t] = 0
    BY <1>0, <2>1, ChannelFacts
  <2>3. 0 >= nextAgg[s][t] => ~EofIn(s, c, 0)
    BY <1>0, <1>1, <2>1, ChannelFacts
  <2> QED
    BY <1>4, <2>1, <2>2, <2>3
<1>7. SumP!SendsNoMore(s, c)
  BY <1>5, <1>6 DEF SumP!SendsNoMore
<1>8. c \in eofSent
  BY <1>2, <1>5 DEF SumP!SettledInv, SumP!Seen, SumP!Settled
<1> QED
  BY <1>7, <1>8

\* So few records are missing from the answer.
LEMMA FewMissingHere ==
    ASSUME SentInv, NEW c \in Clients, AllSent(c)
    PROVE  Cardinality(SumP!Missing(c)) <= Cardinality(Sums) - 1
<1>1. SumP!WhileIntact
  BY SumFacts DEF SentInv, SumP!WhileIntact
<1>2. \A s \in Sums : SumP!SendsNoMore(s, c)
  BY AllSentIsAll
<1>3. SumP!Cardinality(SumP!Missing(c)) <= SumP!Cardinality(Sums) - 1
  BY <1>1, <1>2, SumsAssumed, SumP!FewMissing
<1>4. \A S : SumP!Cardinality(S) = Cardinality(S)
  BY DEF SumP!Cardinality, Cardinality, SumP!IsFiniteSet, IsFiniteSet
<1> QED
  BY <1>3, <1>4

\* The answer is an Answer of UploadService.
LEMMA AnswerGiven ==
    ASSUME SentInv, NEW c \in Clients, AllSent(c), results[c] = <<>>,
           results' = [results EXCEPT ![c] = <<RightAnswer(c)>>], UNCHANGED <<published, eofSent>>
    PROVE  Service!Answer(c)
<1>0. SumsInv /\ Unbroken /\ ContentInv
  BY DEF SentInv
<1> DEFINE lost == SumP!Missing(c)
<1>1. lost \in SUBSET {r \in published : ClientOf[r] = c}
  BY DEF SumP!Missing, SumP!RecordsOf
<1>2. Service!Cardinality(lost) <= Cardinality(Sums) - 1
  <2>1. \A S : Service!Cardinality(S) = Cardinality(S)
    BY DEF Service!Cardinality, Cardinality, Service!IsFiniteSet, IsFiniteSet
  <2> QED
    BY <2>1, FewMissingHere
<1>3. {r \in published \ lost : ClientOf[r] = c} = AllCarried(c)
  <2>1. published \subseteq Records
    BY <1>0, SumFacts DEF SumP!TypeOK
  <2>2. \A s, r : Sum!Carried(s, r) <=> SumP!Carried(s, r)
    BY DEF Sum!Carried, SumP!Carried, Sum!Aggs, SumP!Aggs
  <2> QED
    BY <2>1, <2>2 DEF AllCarried, SumP!Missing, Sum!RecordsOf, SumP!RecordsOf
<1>4. RightAnswer(c) = Service!TopOf(Service!Totals({r \in published \ lost : ClientOf[r] = c}))
  <2>1. \A t : Service!TopOf(t) = TopOf(t)
    BY DEF TopOf, TopFruits, IsTop, Restricted, Before, Cardinality, IsFiniteSet,
       Service!TopOf, Service!TopFruits, Service!IsTop, Service!Restricted, Service!Before,
       Service!Cardinality, Service!IsFiniteSet
  <2> QED
    BY <1>0, <1>3, <2>1, RightAnswerIsTop DEF TotalsSent
<1> HIDE DEF lost
<1>5. c \in eofSent
  BY AllSentIsAll, PipelineAssumption
<1>6. results' = [results EXCEPT ![c] =
                     <<Service!TopOf(Service!Totals({r \in published \ lost : ClientOf[r] = c}))>>]
  BY <1>4
<1>7. \E S \in SUBSET {r \in published : ClientOf[r] = c} :
         /\ Service!Cardinality(S) <= Cardinality(Sums) - 1
         /\ results' = [results EXCEPT ![c] =
                     <<Service!TopOf(Service!Totals({r \in published \ S : ClientOf[r] = c}))>>]
  BY <1>1, <1>2, <1>6, Zenon
<1> QED
  BY <1>5, <1>7, Zenon DEF Service!Answer

\* A Sum leaves what the clients sent alone.
LEMMA SumTakesOnly ==
    ASSUME NEW s \in Sums, SumMoves(s)
    PROVE  UNCHANGED <<published, eofSent>>
<1>1. ASSUME SumP!DataThread(s) \/ SumP!ControlThread(s) PROVE UNCHANGED <<published, eofSent>>
  BY <1>1, Zenon
     DEF SumP!DataThread, SumP!ControlThread, SumP!DeliverData, SumP!DeliverEof,
         SumP!DeliverControl, SumP!SkipData, SumP!CountData, SumP!ProcessData, SumP!ReleaseData,
         SumP!BroadcastEof, SumP!Ack, SumP!Nack, SumP!gatewayVars
<1>2. ASSUME NEW t, SumP!ProcessEof(s, t) PROVE UNCHANGED <<published, eofSent>>
  BY <1>2, Zenon
     DEF SumP!ProcessEof, SumP!WaitForClientIdle, SumP!FinalizeSkip, SumP!FinalizeBegin,
         SumP!SendPartialSum, SumP!SendEof, SumP!FinalizeEnd, SumP!gatewayVars
<1> QED
  BY <1>1, <1>2 DEF SumMoves

\* Only the join answers, and it answers as promised.
LEMMA JoinAnswers ==
    ASSUME SentInv, AnswersInv, TopsRest, Join!JoinStep, UNCHANGED <<published, eofSent>>
    PROVE  Service!Next \/ UNCHANGED results
<1>0. Unbroken
  BY DEF SentInv
<1>1. CASE \/ \E a \in Aggs, c \in Clients : Join!ProcessPartialTop(a, c)
           \/ \E a \in Aggs, c \in Clients : Join!ProcessSignal(a, c)
           \/ Join!Scan \/ Join!EndScan
           \/ \E c \in Clients : Join!BeginFinalTop(c)
           \/ \E c \in Clients : Join!EndFinalTop(c)
  BY <1>1, Zenon
     DEF Join!ProcessPartialTop, Join!ProcessSignal, Join!Scan, Join!EndScan,
         Join!BeginFinalTop, Join!EndFinalTop, Join!queueVars, Join!monitorVars
<1>2. ASSUME NEW c \in Clients, Join!SendFinalTop(c) PROVE Service!Next
  <2>1. /\ AllSent(c) /\ results[c] = <<>>
        /\ results' = [results EXCEPT ![c] = <<RightAnswer(c)>>]
    BY <1>0, <1>2, FinalTopSent
  <2>2. Service!Answer(c)
    BY <2>1, AnswerGiven
  <2> QED
    BY <2>2 DEF Service!Next
<1> QED
  BY <1>1, <1>2, JoinCases

\* Every step of the pipeline is one of UploadService, or none.
LEMMA ServiceStep ==
    SentInv /\ SumsInv' /\ AnswersInv /\ [Next]_vars => [Service!Next]_(Service!vars)
<1> SUFFICES ASSUME SentInv, SumsInv', AnswersInv, [Next]_vars
             PROVE  Service!Next \/ UNCHANGED <<published, eofSent, results>>
  BY DEF Service!vars
<1>1. CASE Publishes /\ UNCHANGED <<inbox, aggVars, topVars, joinVars>>
  <2>1. UNCHANGED results
    BY <1>1 DEF joinVars
  <2>2. ASSUME NEW r \in Records, SumP!PublishData(r) PROVE Service!Next
    BY <2>1, <2>2 DEF SumP!PublishData, Service!Upload, Service!Next
  <2>3. ASSUME NEW c \in Clients, SumP!PublishEof(c) PROVE Service!Next
    BY <2>1, <2>3 DEF SumP!PublishEof, Service!Close, Service!Next
  <2> QED
    BY <1>1, <2>2, <2>3 DEF Publishes
<1>2. ASSUME NEW s \in Sums, SumMoves(s), Forward(s)
      PROVE  UNCHANGED <<published, eofSent, results>>
  <2>1. UNCHANGED results
    BY <1>2 DEF Forward, joinVars
  <2> QED
    BY <1>2, <2>1, SumTakesOnly
<1>3. UNCHANGED <<sumVars, joinVars>> \/ UNCHANGED vars => UNCHANGED <<published, eofSent, results>>
  BY DEF vars, sumVars, joinVars
<1>4. CASE Join!JoinStep /\ UNCHANGED <<sumVars, inbox, aggVars>>
  <2>1. UNCHANGED <<published, eofSent>>
    BY <1>4 DEF sumVars
  <2>2. TopsRest
    BY StepOfTops
  <2> QED
    BY <1>4, <2>1, <2>2, JoinAnswers
<1> QED
  BY <1>1, <1>2, <1>3, <1>4, StepCases

\* The Sums, the aggregations and the join keep the promise of UploadService but for that an
\* answer comes at all: each client gets at most one answer, after its EOF (sum/main.py:98-106,
\* aggregation/main.py:88-134, join/main.py:46-98), which is the top of what it uploaded, at
\* most one record for each Sum but one left out (sum/main.py:69-81).
THEOREM PipelineKeepsPromise == Spec => ImplementsUploadService
<1>1. Init => Service!Init
  BY DEF Init, Sum!Init, Join!JoinInit, Service!Init
<1> QED
  BY <1>1, ServiceStep, AnswersAlways, SumsAreRight, PTL DEF Spec, ImplementsUploadService
=============================================================================
