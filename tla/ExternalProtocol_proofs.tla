------------------------ MODULE ExternalProtocol_proofs ------------------------
(***************************************************************************)
(* The bytes between a client and the gateway, for any size of an integer, *)
(* any names and amounts, and any way the stream is cut: what is received  *)
(* is what was sent, up to the first name with a character of more than    *)
(* one byte.                                                               *)
(*                                                                         *)
(* IInv is inductive.  Either both ends are in step (InStep), and then the *)
(* bytes that are not parsed (Ahead) are those of the fields that the      *)
(* receiver is about to read; or such a name has been taken (Garbled), and *)
(* then it is known how far the receiver can get.  That a field which was  *)
(* written comes back rests on Uint32ComesBack, and that the records of a  *)
(* message are one after the other in the stream, on FlattenFirst.  The    *)
(* functions that are defined by recursion exist by RecursionExists, and   *)
(* what they compute is found by UpTo, the induction on positions.         *)
(***************************************************************************)
EXTENDS ExternalProtocol, FiniteSetTheorems, SequenceTheorems, TLAPS

-----------------------------------------------------------------------------
(* The inductive invariant.  As long as no name with a wide character has been   *)
(* taken, the bytes that the receiver has not parsed are what it is about to     *)
(* read; from such a name on, it is known how far it can get.                    *)

\* The bytes that are not parsed: those in the buffer and those on their way.
Ahead == buf \o wire

\* The records of a message from the k-th on, as they are written.
RecordsFrom(m, k) ==
    FlattenSeq([i \in 1 .. Len(m.items) - k + 1 |-> FruitRecord(m.items[k - 1 + i])])

\* What is written after the amount of the k-th, and after its name, and after its length.
AmountAndOn(m, k) == Uint32(m.items[k][2]) \o RecordsFrom(m, k + 1)
NameAndOn(m, k) == Utf8(m.items[k][1]) \o AmountAndOn(m, k)

Plain(p) == \A i \in 1 .. p : ~Wide(script[i])
Boundary == field = "type" /\ size = UINT32_SIZE /\ buf = <<>> /\ wire = <<>>

\* The first records of m have been read as they were sent, and the k-th is next.
AtRecord(m, k) ==
    /\ m.type # END_OF_RECORDS /\ msgType = m.type
    /\ k \in 1 .. Len(m.items) /\ left = Len(m.items) - k + 1
    /\ \A i \in 1 .. k - 1 : /\ Excess(m.items[i][1]) = 0
                             /\ items[i] = <<Utf8(m.items[i][1]), m.items[i][2]>>

AtType(m) == field = "type" /\ size = UINT32_SIZE /\ Ahead = Serialized(m)
AtCount(m) ==
    /\ field = "count" /\ size = UINT32_SIZE
    /\ m.type = FRUIT_TOP /\ msgType = m.type /\ items = <<>>
    /\ Ahead = Uint32(Len(m.items)) \o RecordsFrom(m, 1)
AtSize(m) ==
    /\ field = "size" /\ size = UINT32_SIZE
    /\ AtRecord(m, Len(items) + 1)
    /\ Ahead = RecordsFrom(m, Len(items) + 1)
AtName(m) ==
    /\ field = "name"
    /\ AtRecord(m, Len(items) + 1)
    /\ size = Len(m.items[Len(items) + 1][1])
    /\ Ahead = NameAndOn(m, Len(items) + 1)
AtAmount(m) ==
    /\ field = "amount" /\ size = UINT32_SIZE
    /\ AtRecord(m, Len(items))
    /\ Excess(m.items[Len(items)][1]) = 0
    /\ items[Len(items)][1] = Utf8(m.items[Len(items)][1])
    /\ Ahead = AmountAndOn(m, Len(items))

Reading(m) == AtType(m) \/ AtCount(m) \/ AtSize(m) \/ AtName(m) \/ AtAmount(m)

Sending ==
    /\ sender = "send" /\ acks = 0 /\ Plain(next - 1)
    /\ Boundary /\ Len(received) = next - 1 /\ receiver = "reading"
InTransit ==
    /\ sender = "wait" /\ acks = 0 /\ Plain(next - 1) /\ Serializable(script[next])
    /\ Reading(script[next])
    /\ Len(received) = next - 1 /\ receiver = "reading"
Acknowledging ==
    /\ sender = "wait" /\ acks = 1 /\ Plain(next)
    /\ Boundary /\ Len(received) = next
    /\ receiver = IF next = Len(script) THEN "done" ELSE "reading"
AllDone ==
    /\ sender = "done" /\ acks = 0 /\ Plain(Len(script))
    /\ Boundary /\ Len(received) = Len(script) /\ receiver = "done"
GivenUp ==
    /\ sender = "failed" /\ acks = 0 /\ Plain(next - 1)
    /\ Boundary /\ Len(received) = next - 1 /\ receiver \in {"reading", "failed"}

InStep == Sending \/ InTransit \/ Acknowledging \/ AllDone \/ GivenUp

\* Message j, the first one with a wide name, was not received at all; ...
Lost(j) == receiver = "failed" /\ Len(received) = j - 1

\* ... or it is being read, and one of its names has come too short; ...
TooShort(m, k) ==
    /\ k \in 1 .. Len(m.items) /\ k \in 1 .. Len(items)
    /\ items[k][1] # Utf8(m.items[k][1])
Misread(j) ==
    /\ receiver = "reading" /\ sender = "wait" /\ next = j /\ acks = 0
    /\ Len(received) = j - 1 /\ msgType = script[j].type
    /\ field \in {"size", "name", "amount"}
    /\ \E k \in 1 .. Len(items) : TooShort(script[j], k)
    /\ ~IsTop => /\ left = 1 /\ field = "amount" /\ size = UINT32_SIZE
                 /\ Len(Ahead) \in UINT32_SIZE + 1 .. 2 * UINT32_SIZE - 1

\* ... or it was received, with that name, and what is left of it is read as a type.
Leftover == Len(Ahead) \in 1 .. UINT32_SIZE - 1
Taken(j) ==
    /\ Len(received) = j /\ received[j].type = script[j].type
    /\ received[j] # AsRead(script[j])
    /\ receiver = "reading" =>
         /\ ~IsTop /\ field = "type" /\ size = UINT32_SIZE
         /\ \/ next = j /\ sender = "wait" /\ acks = 1 /\ Leftover
            \/ next = j + 1 /\ sender \in {"send", "failed"} /\ acks = 0 /\ Leftover
            \/ /\ next = j + 1 /\ sender = "wait" /\ acks = 0
               /\ Len(Ahead) >= UINT32_SIZE /\ Ahead[UINT32_SIZE] = 0

FewBytesMore(m) == \A i \in DOMAIN m.items : Excess(m.items[i][1]) < UINT32_SIZE

Garbled(j) ==
    /\ j <= next /\ Len(received) >= j - 1
    /\ FewBytesMore(script[j]) => Lost(j) \/ Misread(j) \/ Taken(j)

Ends ==
    /\ sender \in {"send", "wait", "failed"} => next <= Len(script)
    /\ closed => sender = "failed"
    /\ field \in {"size", "name", "amount"} => left > 0
    /\ field = "amount" => items # <<>>

Shape == InStep \/ \E j \in FirstWide : Garbled(j)

IInv == TypeOK /\ Ends /\ ReceivedIsSent /\ Shape

-----------------------------------------------------------------------------
(* Induction and recursion on the positions of a sequence.                       *)

\* What holds at 0 and goes on from each number to the next holds up to n.
LEMMA UpTo ==
    ASSUME NEW n \in Nat, NEW T, 0 \in T, \A k \in 1 .. n : k - 1 \in T => k \in T
    PROVE  \A k \in 0 .. n : k \in T
<1> DEFINE Others == {1 .. k : k \in {i \in 0 .. n : i \notin T}}
<1> SUFFICES ASSUME Others # {} PROVE FALSE
  OBVIOUS
<1>1. IsFiniteSet(1 .. n) /\ IsWellFoundedOn(StrictSubsetOrdering(1 .. n), FiniteSubsetsOf(1 .. n))
  BY FS_Interval, FS_StrictSubsetOrderingWellFounded
<1>2. Others \subseteq FiniteSubsetsOf(1 .. n)
  <2> SUFFICES ASSUME NEW k \in 0 .. n PROVE 1 .. k \in FiniteSubsetsOf(1 .. n)
    OBVIOUS
  <2> QED
    BY FS_Interval DEF FiniteSubsetsOf
<1>3. PICK P \in Others : \A Q \in Others : <<Q, P>> \notin StrictSubsetOrdering(1 .. n)
  <2> HIDE DEF Others
  <2> QED
    BY <1>1, <1>2, WFMin
<1>4. PICK k \in 0 .. n : k \notin T /\ P = 1 .. k
  BY <1>3
<1>5. k # 0 /\ k - 1 \in 0 .. n /\ k - 1 \notin T
  BY <1>4
<1>6. 1 .. k - 1 \in Others
  BY <1>5
<1>7. 1 .. k - 1 \subseteq 1 .. k /\ k \in 1 .. k /\ k \notin 1 .. k - 1 /\ 1 .. k \subseteq 1 .. n
  BY <1>5
<1>8. 1 .. k - 1 \in SUBSET (1 .. n) /\ 1 .. k \in SUBSET (1 .. n) /\ 1 .. k - 1 # 1 .. k
  BY <1>7
<1>9. <<1 .. k - 1, P>> \in StrictSubsetOrdering(1 .. n)
  BY <1>4, <1>7, <1>8 DEF StrictSubsetOrdering
<1> QED
  BY <1>3, <1>6, <1>9

\* A recursion from 0 to n has a solution.
Follows(g, n, a, step) == g[0] = a /\ \A k \in 1 .. n : g[k] = step[k][g[k - 1]]

LEMMA RecursionExists ==
    ASSUME NEW n \in Nat, NEW A, NEW a \in A, NEW step \in [1 .. n -> [A -> A]]
    PROVE  \E g \in [0 .. n -> A] : Follows(g, n, a, step)
<1> DEFINE Solves(g, m) == g[0] = a /\ \A k \in 1 .. m : g[k] = step[k][g[k - 1]]
           T == {m \in 0 .. n : \E g \in [0 .. m -> A] : Solves(g, m)}
<1>1. 0 \in T
  <2> DEFINE h == [k \in 0 .. 0 |-> a]
  <2>1. h \in [0 .. 0 -> A] /\ Solves(h, 0) /\ 0 \in 0 .. n
    OBVIOUS
  <2> HIDE DEF h, Solves
  <2> QED
    BY <2>1
<1>2. ASSUME NEW m \in 1 .. n, m - 1 \in T PROVE m \in T
  <2>1. PICK g \in [0 .. m - 1 -> A] : Solves(g, m - 1)
    BY <1>2
  <2> DEFINE h == [k \in 0 .. m |-> IF k = m THEN step[m][g[m - 1]] ELSE g[k]]
  <2>2. step[m][g[m - 1]] \in A
    BY <1>2
  <2>3. h \in [0 .. m -> A]
    BY <2>2
  <2>4. h[0] = a
    BY <2>1
  <2>5. ASSUME NEW k \in 1 .. m PROVE h[k] = step[k][h[k - 1]]
    <3>1. CASE k = m
      BY <3>1
    <3>2. CASE k # m
      <4>1. k \in 1 .. m - 1 /\ k - 1 \in 0 .. m /\ k - 1 # m /\ k \in 0 .. m
        BY <3>2
      <4>2. h[k] = g[k] /\ h[k - 1] = g[k - 1]
        BY <3>2, <4>1
      <4> QED
        BY <2>1, <4>1, <4>2
    <3> QED
      BY <3>1, <3>2
  <2> HIDE DEF h
  <2>6. Solves(h, m) /\ m \in 0 .. n
    BY <2>4, <2>5
  <2> HIDE DEF Solves
  <2> QED
    BY <2>3, <2>6
<1>3. \A m \in 0 .. n : m \in T
  <2> HIDE DEF T
  <2> QED
    BY <1>1, <1>2, UpTo
<1>4. n \in T
  <2> HIDE DEF T
  <2> QED
    BY <1>3
<1> QED
  BY <1>4 DEF Follows

-----------------------------------------------------------------------------
(* Integers.                                                                     *)

LEMMA ConstantTypes == BASE \in Nat /\ BASE > 7 /\ UINT32_SIZE \in Nat /\ UINT32_SIZE > 0
BY ExternalAssumption

\* Division by BASE.
LEMMA Division ==
    ASSUME NEW n \in Nat
    PROVE  /\ n \div BASE \in Nat /\ n % BASE \in Bytes
           /\ n = (n \div BASE) * BASE + (n % BASE)
           /\ n < BASE => n \div BASE = 0 /\ n % BASE = n
BY ConstantTypes DEF Bytes

\* Dropping the last byte is a recursion that has a solution.
LEMMA ShiftedDef ==
    ASSUME NEW n \in Nat
    PROVE  /\ Shifted(n) \in [0 .. UINT32_SIZE -> Nat]
           /\ Shifted(n)[0] = n
           /\ \A k \in 1 .. UINT32_SIZE : Shifted(n)[k] = Shifted(n)[k - 1] \div BASE
<1> DEFINE Solves(g) == g = [k \in 0 .. UINT32_SIZE |-> IF k = 0 THEN n ELSE g[k - 1] \div BASE]
           step == [k \in 1 .. UINT32_SIZE |-> [v \in Nat |-> v \div BASE]]
<1>1. step \in [1 .. UINT32_SIZE -> [Nat -> Nat]]
  BY Division
<1>2. PICK g \in [0 .. UINT32_SIZE -> Nat] :
            g[0] = n /\ \A k \in 1 .. UINT32_SIZE : g[k] = step[k][g[k - 1]]
  <2> HIDE DEF step
  <2>1. \E g \in [0 .. UINT32_SIZE -> Nat] : Follows(g, UINT32_SIZE, n, step)
    BY <1>1, ConstantTypes, RecursionExists, Zenon
  <2> QED
    BY <2>1 DEF Follows
<1>3. ASSUME NEW k \in 1 .. UINT32_SIZE PROVE g[k] = g[k - 1] \div BASE
  <2>1. k - 1 \in 0 .. UINT32_SIZE
    BY ConstantTypes
  <2> QED
    BY <1>2, <2>1
<1>4. Solves(g)
  <2>1. g = [k \in 0 .. UINT32_SIZE |-> g[k]]
    BY <1>2
  <2>2. \A k \in 0 .. UINT32_SIZE : g[k] = IF k = 0 THEN n ELSE g[k - 1] \div BASE
    BY <1>2, <1>3, ConstantTypes
  <2> QED
    BY <2>1, <2>2
<1>5. Shifted(n) = CHOOSE h : Solves(h)
  BY DEF Shifted
<1>6. Solves(Shifted(n))
  <2> HIDE DEF Solves
  <2> QED
    BY <1>4, <1>5, Zenon
<1> DEFINE f == Shifted(n)
<1>7. f = [k \in 0 .. UINT32_SIZE |-> IF k = 0 THEN n ELSE f[k - 1] \div BASE]
  BY <1>6
<1> HIDE DEF f
<1>8. f[0] = n /\ \A k \in 1 .. UINT32_SIZE : f[k] = f[k - 1] \div BASE
  BY <1>7, ConstantTypes
<1> DEFINE T == {k \in 0 .. UINT32_SIZE : f[k] \in Nat}
<1>9. 0 \in T
  BY <1>8, ConstantTypes
<1>10. ASSUME NEW k \in 1 .. UINT32_SIZE, k - 1 \in T PROVE k \in T
  <2>1. f[k - 1] \div BASE \in Nat
    BY <1>10, Division
  <2> QED
    BY <1>8, <2>1, ConstantTypes
<1>11. \A k \in 0 .. UINT32_SIZE : k \in T
  <2> HIDE DEF T
  <2> QED
    BY <1>9, <1>10, ConstantTypes, UpTo
<1>12. f \in [0 .. UINT32_SIZE -> Nat]
  BY <1>7, <1>11
<1> QED
  BY <1>8, <1>12 DEF f

\* So is reading the bytes from the first to the last.
Value(g, b) == g[0] = 0 /\ \A k \in 1 .. Len(b) : g[k] = g[k - 1] * BASE + b[k]

LEMMA FromUint32Def ==
    ASSUME NEW b \in Seq(Bytes)
    PROVE  \E g \in [0 .. Len(b) -> Nat] : Value(g, b) /\ FromUint32(b) = g[Len(b)]
<1> DEFINE N == Len(b)
           Solves(g) == g = [k \in 0 .. N |-> IF k = 0 THEN 0 ELSE g[k - 1] * BASE + b[k]]
           step == [k \in 1 .. N |-> [v \in Nat |-> v * BASE + b[k]]]
<1>0. N \in Nat /\ \A k \in 1 .. N : b[k] \in Nat
  BY ConstantTypes DEF Bytes
<1>1. step \in [1 .. N -> [Nat -> Nat]]
  BY <1>0, ConstantTypes
<1>2. PICK g \in [0 .. N -> Nat] : g[0] = 0 /\ \A k \in 1 .. N : g[k] = step[k][g[k - 1]]
  <2> HIDE DEF step, N
  <2>1. 0 \in Nat
    OBVIOUS
  <2>2. \E g \in [0 .. N -> Nat] : Follows(g, N, 0, step)
    BY <1>0, <1>1, <2>1, RecursionExists, Zenon
  <2> QED
    BY <2>2 DEF Follows
<1>3. ASSUME NEW k \in 1 .. N PROVE g[k] = g[k - 1] * BASE + b[k]
  <2>1. k - 1 \in 0 .. N
    BY <1>0
  <2> QED
    BY <1>2, <2>1
<1>4. Solves(g)
  <2>1. g = [k \in 0 .. N |-> g[k]]
    BY <1>2
  <2>2. \A k \in 0 .. N : g[k] = IF k = 0 THEN 0 ELSE g[k - 1] * BASE + b[k]
    BY <1>0, <1>2, <1>3
  <2> QED
    BY <2>1, <2>2
<1>5. FromUint32(b) = (CHOOSE h : Solves(h))[N]
  BY DEF FromUint32
<1> DEFINE f == CHOOSE h : Solves(h)
<1>6. Solves(f)
  <2> HIDE DEF Solves
  <2> QED
    BY <1>4, Zenon
<1>7. f = [k \in 0 .. N |-> IF k = 0 THEN 0 ELSE f[k - 1] * BASE + b[k]] /\ FromUint32(b) = f[N]
  BY <1>5, <1>6
<1> HIDE DEF f
<1>8. f[0] = 0 /\ \A k \in 1 .. N : f[k] = f[k - 1] * BASE + b[k]
  <2>1. 0 \in 0 .. N
    BY <1>0
  <2>2. f[0] = 0
    BY <1>7, <2>1
  <2>3. \A k \in 1 .. N : k \in 0 .. N /\ k # 0
    BY <1>0
  <2>4. \A k \in 1 .. N : f[k] = f[k - 1] * BASE + b[k]
    BY <1>7, <2>3
  <2> QED
    BY <2>2, <2>4
<1> DEFINE T == {k \in 0 .. N : f[k] \in Nat}
<1>9. 0 \in T
  BY <1>0, <1>8
<1>10. ASSUME NEW k \in 1 .. N, k - 1 \in T PROVE k \in T
  <2>1. f[k - 1] * BASE + b[k] \in Nat
    BY <1>0, <1>10, ConstantTypes
  <2> QED
    BY <1>0, <1>8, <2>1
<1>11. \A k \in 0 .. N : k \in T
  <2> HIDE DEF T, N
  <2> QED
    BY <1>0, <1>9, <1>10, UpTo
<1>12. f \in [0 .. N -> Nat]
  BY <1>7, <1>11
<1> QED
  BY <1>7, <1>8, <1>12 DEF Value

LEMMA Uint32Type ==
    ASSUME NEW n \in Nat
    PROVE  Uint32(n) \in Seq(Bytes) /\ Len(Uint32(n)) = UINT32_SIZE
<1>1. \A i \in 1 .. UINT32_SIZE : Shifted(n)[UINT32_SIZE - i] \in Nat
  BY ShiftedDef, ConstantTypes
<1> QED
  BY <1>1, Division, ConstantTypes DEF Uint32

LEMMA FromUint32Type ==
    ASSUME NEW b \in Seq(Bytes)
    PROVE  FromUint32(b) \in Nat
BY FromUint32Def

\* A number that serialize_uint32 does not refuse comes back from deserialize_uint32: when
\* i of its bytes have been read it is the number without the others.
THEOREM Uint32ComesBack ==
    ASSUME NEW n, Fits(n)
    PROVE  FromUint32(Uint32(n)) = n
<1> DEFINE b == Uint32(n)
           f == Shifted(n)
<1>0. n \in Nat
  BY DEF Fits
<1>1. /\ f \in [0 .. UINT32_SIZE -> Nat] /\ f[0] = n /\ f[UINT32_SIZE] = 0
      /\ \A k \in 1 .. UINT32_SIZE : f[k] = f[k - 1] \div BASE
      /\ \A i \in 1 .. UINT32_SIZE : b[i] = f[UINT32_SIZE - i] % BASE
  BY <1>0, ShiftedDef DEF Fits, Uint32
<1>2. b \in Seq(Bytes) /\ Len(b) = UINT32_SIZE
  BY <1>0, Uint32Type
<1>3. PICK g \in [0 .. UINT32_SIZE -> Nat] : Value(g, b) /\ FromUint32(b) = g[UINT32_SIZE]
  BY <1>2, FromUint32Def
<1> HIDE DEF f, b
<1> DEFINE T == {i \in 0 .. UINT32_SIZE : g[i] = f[UINT32_SIZE - i]}
<1>4. 0 \in T
  BY <1>1, <1>3, ConstantTypes DEF Value
<1>5. ASSUME NEW i \in 1 .. UINT32_SIZE, i - 1 \in T PROVE i \in T
  <2>1. PICK j \in 0 .. UINT32_SIZE : j = UINT32_SIZE - i
    BY ConstantTypes
  <2>2. j + 1 \in 1 .. UINT32_SIZE /\ UINT32_SIZE - (i - 1) = j + 1 /\ (j + 1) - 1 = j
    BY <2>1, ConstantTypes
  <2>3. f[j] \in Nat /\ f[j + 1] = f[j] \div BASE
    BY <1>1, <2>1, <2>2
  <2>4. b[i] = f[j] % BASE
    BY <1>1, <2>1
  <2>5. g[i] = g[i - 1] * BASE + b[i]
    BY <1>2, <1>3 DEF Value
  <2>6. g[i - 1] = f[j + 1]
    BY <1>5, <2>2
  <2>7. g[i] = f[j]
    BY <2>3, <2>4, <2>5, <2>6, Division
  <2> QED
    BY <2>1, <2>7
<1>6. \A i \in 0 .. UINT32_SIZE : i \in T
  <2> HIDE DEF T
  <2> QED
    BY <1>4, <1>5, ConstantTypes, UpTo
<1>7. UINT32_SIZE \in T /\ UINT32_SIZE - UINT32_SIZE = 0
  <2> HIDE DEF T
  <2> QED
    BY <1>6, ConstantTypes
<1>8. g[UINT32_SIZE] = n
  BY <1>1, <1>7
<1> QED
  BY <1>3, <1>8 DEF b

\* A number of one byte is zeros and that byte.
LEMMA OneByte ==
    ASSUME NEW n \in Bytes
    PROVE  Fits(n) /\ \A i \in 1 .. UINT32_SIZE - 1 : Uint32(n)[i] = 0
<1> DEFINE f == Shifted(n)
           T == {k \in 0 .. UINT32_SIZE : k > 0 => f[k] = 0}
<1>1. n \in Nat /\ n < BASE /\ f[0] = n /\ \A k \in 1 .. UINT32_SIZE : f[k] = f[k - 1] \div BASE
  BY ShiftedDef, ConstantTypes DEF Bytes
<1> HIDE DEF f
<1>2. 0 \div BASE = 0 /\ 0 % BASE = 0 /\ n \div BASE = 0
  BY <1>1, Division, ConstantTypes
<1>3. 0 \in T
  BY ConstantTypes
<1>4. ASSUME NEW k \in 1 .. UINT32_SIZE, k - 1 \in T PROVE k \in T
  <2>1. CASE k = 1
    BY <1>1, <1>2, <2>1
  <2>2. CASE k # 1
    BY <1>1, <1>2, <1>4, <2>2
  <2> QED
    BY <2>1, <2>2
<1>5. \A k \in 0 .. UINT32_SIZE : k \in T
  <2> HIDE DEF T
  <2> QED
    BY <1>3, <1>4, ConstantTypes, UpTo
<1>6. \A k \in 1 .. UINT32_SIZE : f[k] = 0
  BY <1>5
<1>7. Fits(n)
  BY <1>1, <1>6, ConstantTypes DEF Fits, f
<1>8. ASSUME NEW i \in 1 .. UINT32_SIZE - 1 PROVE Uint32(n)[i] = 0
  <2>1. i \in 1 .. UINT32_SIZE /\ UINT32_SIZE - i \in 1 .. UINT32_SIZE
    BY ConstantTypes
  <2>2. Uint32(n)[i] = f[UINT32_SIZE - i] % BASE
    BY <2>1 DEF Uint32, f
  <2> QED
    BY <1>2, <1>6, <2>1, <2>2
<1> QED
  BY <1>7, <1>8

\* A number that ends in a zero byte is no type of message.
LEMMA ZeroByteIsNoType ==
    ASSUME NEW b \in Seq(Bytes), Len(b) = UINT32_SIZE, b[UINT32_SIZE] = 0
    PROVE  FromUint32(b) \notin MsgTypes
<1>1. PICK g \in [0 .. UINT32_SIZE -> Nat] : Value(g, b) /\ FromUint32(b) = g[UINT32_SIZE]
  BY FromUint32Def
<1>2. UINT32_SIZE \in 1 .. UINT32_SIZE /\ UINT32_SIZE - 1 \in 0 .. UINT32_SIZE
  BY ConstantTypes
<1>3. PICK m \in Nat : m = g[UINT32_SIZE - 1]
  BY <1>2
<1>4. FromUint32(b) = m * BASE
  BY <1>1, <1>2, <1>3, ConstantTypes DEF Value
<1>5. m * BASE \notin 1 .. 4
  BY ConstantTypes
<1> QED
  BY <1>4, <1>5 DEF MsgTypes

-----------------------------------------------------------------------------
(* Sequences, one after the other.                                               *)

Joins(g, s) == g[0] = <<>> /\ \A k \in 1 .. Len(s) : g[k] = g[k - 1] \o s[k]

LEMMA FlattenDef ==
    ASSUME NEW A, NEW s \in Seq(Seq(A))
    PROVE  \E g \in [0 .. Len(s) -> Seq(A)] : Joins(g, s) /\ FlattenSeq(s) = g[Len(s)]
<1> DEFINE N == Len(s)
           Solves(g) == g = [i \in 1 .. N |-> IF i = 1 THEN s[i] ELSE g[i - 1] \o s[i]]
           step == [k \in 1 .. N |-> [v \in Seq(A) |-> v \o s[k]]]
<1>0. N \in Nat /\ <<>> \in Seq(A) /\ \A k \in 1 .. N : s[k] \in Seq(A)
  OBVIOUS
<1>1. step \in [1 .. N -> [Seq(A) -> Seq(A)]]
  <2>1. \A k \in 1 .. N : \A v \in Seq(A) : v \o s[k] \in Seq(A)
    BY <1>0, ConcatProperties
  <2> QED
    BY <2>1
<1>2. PICK g \in [0 .. N -> Seq(A)] : Follows(g, N, <<>>, step)
  <2> HIDE DEF step, N
  <2> QED
    BY <1>0, <1>1, RecursionExists, Zenon
<1>3. g[0] = <<>> /\ \A k \in 1 .. N : g[k] = g[k - 1] \o s[k]
  <2> SUFFICES ASSUME NEW k \in 1 .. N PROVE g[k] = g[k - 1] \o s[k]
    BY <1>2 DEF Follows
  <2>1. k - 1 \in 0 .. N
    BY <1>0
  <2> QED
    BY <1>2, <2>1 DEF Follows
<1>4. CASE N = 0
  <2>1. FlattenSeq(s) = s /\ s = <<>>
    BY <1>4, EmptySeq DEF FlattenSeq
  <2> QED
    BY <1>3, <1>4, <2>1 DEF Joins
<1>5. CASE N # 0
  <2> DEFINE h == [k \in 1 .. N |-> g[k]]
  <2>1. Solves(h)
    <3>1. ASSUME NEW k \in 1 .. N PROVE h[k] = IF k = 1 THEN s[k] ELSE h[k - 1] \o s[k]
      <4>1. CASE k = 1
        <5>0. k - 1 = 0
          BY <4>1
        <5>1. g[k] = g[0] \o s[k]
          BY <1>3, <5>0, Zenon
        <5>2. g[k] = <<>> \o s[k] /\ s[k] \in Seq(A)
          BY <1>0, <1>3, <5>1
        <5>3. g[k] = s[k]
          BY <5>2, ConcatEmptySeq
        <5> QED
          BY <4>1, <5>3
      <4>2. CASE k # 1
        <5>1. k - 1 \in 1 .. N
          BY <1>0, <4>2
        <5> QED
          BY <1>3, <4>2, <5>1
      <4> QED
        BY <4>1, <4>2
    <3> QED
      BY <3>1
  <2>2. FlattenSeq(s) = (CHOOSE f : Solves(f))[N]
    BY <1>5 DEF FlattenSeq
  <2> DEFINE f == CHOOSE f : Solves(f)
  <2>3. Solves(f)
    <3> HIDE DEF Solves, h
    <3> QED
      BY <2>1, Zenon
  <2>4. f = [i \in 1 .. N |-> IF i = 1 THEN s[i] ELSE f[i - 1] \o s[i]] /\ FlattenSeq(s) = f[N]
    BY <2>2, <2>3
  <2> HIDE DEF f
  <2>5. \A k \in 1 .. N : f[k] = IF k = 1 THEN s[k] ELSE f[k - 1] \o s[k]
    BY <2>4
  <2> DEFINE T == {k \in 0 .. N : k > 0 => f[k] = g[k]}
  <2>6. 0 \in T
    BY <1>0
  <2>7. ASSUME NEW k \in 1 .. N, k - 1 \in T PROVE k \in T
    <3>1. CASE k = 1
      <4>0. k - 1 = 0
        BY <3>1
      <4>1. g[k] = g[0] \o s[k]
        BY <1>3, <4>0, Zenon
      <4>2. g[k] = <<>> \o s[k] /\ s[k] \in Seq(A)
        BY <1>0, <1>3, <4>1
      <4>3. g[k] = s[k]
        BY <4>2, ConcatEmptySeq
      <4> QED
        BY <1>0, <2>5, <3>1, <4>3
    <3>2. CASE k # 1
      <4>1. f[k - 1] = g[k - 1]
        BY <2>7, <3>2
      <4>2. f[k] = g[k]
        BY <1>3, <2>5, <3>2, <4>1
      <4> QED
        BY <1>0, <4>2
    <3> QED
      BY <3>1, <3>2
  <2>8. \A k \in 0 .. N : k \in T
    <3> HIDE DEF T, N
    <3> QED
      BY <1>0, <2>6, <2>7, UpTo
  <2>9. N \in T /\ N \in Nat
    <3> HIDE DEF T
    <3> QED
      BY <1>0, <2>8
  <2>10. FlattenSeq(s) = g[N]
    <3>1. N > 0 => f[N] = g[N]
      BY <2>9
    <3>2. N > 0
      BY <1>0, <1>5
    <3> QED
      BY <2>4, <3>1, <3>2, Zenon
  <2> QED
    BY <1>3, <2>10 DEF Joins
<1> QED
  BY <1>4, <1>5

LEMMA FlattenType ==
    ASSUME NEW A, NEW s \in Seq(Seq(A))
    PROVE  FlattenSeq(s) \in Seq(A)
<1>1. Len(s) \in 0 .. Len(s)
  OBVIOUS
<1> QED
  BY <1>1, FlattenDef

LEMMA FlattenEmpty == FlattenSeq(<<>>) = <<>>
BY DEF FlattenSeq

\* With one more sequence in front, all that is joined has it in front.
After(g, h, A, a, t, n) ==
    /\ n \in Nat /\ a \in Seq(A)
    /\ \A i \in 1 .. n : t[i] \in Seq(A)
    /\ \A k \in 0 .. n : h[k] \in Seq(A)
    /\ g[0] = <<>> /\ g[1] = g[0] \o a /\ \A k \in 1 .. n : g[k + 1] = g[k] \o t[k]
    /\ h[0] = <<>> /\ \A k \in 1 .. n : h[k] = h[k - 1] \o t[k]

LEMMA JoinsAfter ==
    ASSUME NEW A, NEW n, NEW a, NEW t, NEW g, NEW h, After(g, h, A, a, t, n)
    PROVE  g[n + 1] = a \o h[n]
<1> USE DEF After
<1> DEFINE T == {k \in 0 .. n : g[k + 1] = a \o h[k]}
<1>1. 0 \in T
  <2>1. <<>> \o a = a /\ a \o <<>> = a
    BY ConcatEmptySeq
  <2>2. g[0 + 1] = g[1] /\ 0 \in 0 .. n
    OBVIOUS
  <2>3. g[0 + 1] = a \o h[0]
    BY <2>1, <2>2, Zenon
  <2> QED
    BY <2>2, <2>3, Zenon
<1>2. ASSUME NEW k \in 1 .. n, k - 1 \in T PROVE k \in T
  <2>1. (k - 1) + 1 = k /\ k - 1 \in 0 .. n /\ k \in 0 .. n
    OBVIOUS
  <2>2. PICK b \in Seq(A), c \in Seq(A) : b = h[k - 1] /\ c = t[k]
    BY <2>1
  <2>3. g[k] = a \o b
    BY <1>2, <2>1, <2>2
  <2>4. g[k + 1] = g[k] \o c /\ h[k] = b \o c
    BY <2>2
  <2>5. (a \o b) \o c = a \o (b \o c)
    BY ConcatAssociative, SMTT(60)
  <2>6. g[k + 1] = a \o h[k]
    BY <2>3, <2>4, <2>5, Zenon
  <2> QED
    BY <2>1, <2>6
<1>3. \A k \in 0 .. n : k \in T
  <2> HIDE DEF T
  <2> QED
    BY <1>1, <1>2, UpTo
<1>4. n \in T
  <2> HIDE DEF T
  <2> QED
    BY <1>3
<1> QED
  BY <1>4

\* The first sequence comes first.
SequencesOf(A) == Seq(Seq(A))

LEMMA FlattenFirst ==
    ASSUME NEW A, NEW s \in SequencesOf(A), NEW n \in Nat, Len(s) = n + 1,
           NEW t, t = [i \in 1 .. n |-> s[i + 1]]
    PROVE  FlattenSeq(s) = s[1] \o FlattenSeq(t)
<1>1. /\ s[1] \in Seq(A) /\ \A i \in 1 .. n : t[i] \in Seq(A)
      /\ \A i \in 1 .. n : t[i] = s[i + 1]
      /\ t \in Seq(Seq(A)) /\ Len(t) = n
  BY DEF SequencesOf
<1>2. PICK g : /\ g \in [0 .. n + 1 -> Seq(A)]
               /\ Joins(g, s) /\ FlattenSeq(s) = g[n + 1]
  BY FlattenDef DEF SequencesOf
<1>3. PICK h : /\ h \in [0 .. n -> Seq(A)]
               /\ Joins(h, t) /\ FlattenSeq(t) = h[n]
  <2>1. \E h \in [0 .. Len(t) -> Seq(A)] : Joins(h, t) /\ FlattenSeq(t) = h[Len(t)]
    BY <1>1, FlattenDef, Zenon
  <2> QED
    BY <1>1, <2>1, Zenon
<1>4. \A k \in 0 .. n : h[k] \in Seq(A)
  BY <1>3
<1>5. 1 \in 1 .. n + 1 /\ 1 - 1 = 0 /\ \A k \in 1 .. n : k + 1 \in 1 .. n + 1 /\ (k + 1) - 1 = k
  OBVIOUS
<1>6. /\ g[0] = <<>> /\ g[1] = g[0] \o s[1] /\ \A k \in 1 .. n : g[k + 1] = g[k] \o t[k]
      /\ h[0] = <<>> /\ \A k \in 1 .. n : h[k] = h[k - 1] \o t[k]
  BY <1>1, <1>2, <1>3, <1>5, Zenon DEF Joins
<1>7. PICK a : a = s[1]
  OBVIOUS
<1>8. After(g, h, A, a, t, n)
  BY <1>1, <1>4, <1>6, <1>7, Zenon DEF After
<1>9. g[n + 1] = a \o h[n]
  BY <1>8, JoinsAfter
<1> QED
  BY <1>2, <1>3, <1>7, <1>9

\* A name has a byte or more for each of its characters, and when it has no more, it is
\* plain and decodes.
LEMMA Utf8Type ==
    ASSUME NEW name \in Names
    PROVE  /\ Utf8(name) \in Seq(Bytes)
           /\ Len(Utf8(name)) \in Nat /\ Len(name) \in Nat /\ Excess(name) \in Nat
           /\ Excess(name) = 0 => Decodes(Utf8(name))
<1> DEFINE N == Len(name)
           s == [i \in 1 .. N |-> IF name[i] = "wide" THEN <<Lead, Continuation>> ELSE <<Ascii>>]
<1>1. N \in Nat /\ DOMAIN name = 1 .. N
  BY DEF Names
<1>2. \A i \in 1 .. N : s[i] \in Seq(Bytes) /\ (s[i] = <<Ascii>> \/ Len(s[i]) = 2)
  <2>1. Lead \in Bytes /\ Continuation \in Bytes /\ Ascii \in Bytes
    BY ConstantTypes DEF Bytes, Lead, Continuation, Ascii
  <2>2. <<Lead, Continuation>> \in Seq(Bytes) /\ Len(<<Lead, Continuation>>) = 2 /\ <<Ascii>> \in Seq(Bytes)
    BY <2>1
  <2> QED
    BY <2>2
<1>3. s \in Seq(Seq(Bytes)) /\ Len(s) = N
  BY <1>1, <1>2
<1>4. Utf8(name) = FlattenSeq(s)
  BY <1>1 DEF Utf8
<1> HIDE DEF s, N
<1>5. PICK g \in [0 .. N -> Seq(Bytes)] : Joins(g, s) /\ FlattenSeq(s) = g[N]
  BY <1>3, FlattenDef
<1> DEFINE T == {k \in 0 .. N : /\ Len(g[k]) >= k
                                /\ Len(g[k]) = k => \A i \in 1 .. k : g[k][i] = Ascii}
<1>6. 0 \in T
  BY <1>1, <1>5 DEF Joins
<1>7. ASSUME NEW k \in 1 .. N, k - 1 \in T PROVE k \in T
  <2>0. k \in 0 .. N /\ k - 1 \in 0 .. N /\ k \in 1 .. Len(s)
    BY <1>1, <1>3
  <2>1. PICK p \in Seq(Bytes), c \in Seq(Bytes) : p = g[k - 1] /\ c = s[k]
    BY <1>2, <1>5, <2>0
  <2>2. g[k] = p \o c
    BY <1>5, <2>0, <2>1 DEF Joins
  <2>3. Len(p) \in Nat /\ Len(p) >= k - 1 /\ (Len(p) = k - 1 => \A i \in 1 .. k - 1 : p[i] = Ascii)
    BY <1>7, <2>1
  <2>4. Len(g[k]) = Len(p) + Len(c) /\ \A i \in 1 .. Len(p) + Len(c) : g[k][i] = IF i <= Len(p) THEN p[i] ELSE c[i - Len(p)]
    BY <2>2, ConcatProperties
  <2>5. CASE Len(c) = 2
    <3>1. Len(g[k]) > k
      BY <2>3, <2>4, <2>5
    <3> QED
      BY <2>0, <3>1
  <2>6. CASE c = <<Ascii>>
    <3>1. Len(c) = 1 /\ c[1] = Ascii
      BY <2>6
    <3>2. Len(g[k]) >= k
      BY <2>3, <2>4, <3>1
    <3>3. ASSUME Len(g[k]) = k, NEW i \in 1 .. k PROVE g[k][i] = Ascii
      BY <2>3, <2>4, <3>1, <3>3
    <3> QED
      BY <2>0, <3>2, <3>3
  <2> QED
    BY <1>2, <2>1, <2>5, <2>6
<1>8. \A k \in 0 .. N : k \in T
  <2> HIDE DEF T
  <2> QED
    BY <1>1, <1>6, <1>7, UpTo
<1>9. N \in T /\ N \in 0 .. N
  <2> HIDE DEF T
  <2> QED
    BY <1>1, <1>8
<1>10. Utf8(name) \in Seq(Bytes) /\ Len(Utf8(name)) >= N
  BY <1>4, <1>5, <1>9
<1>11. Len(Utf8(name)) = N => Decodes(Utf8(name))
  <2>1. Len(Utf8(name)) = N => \A i \in 1 .. N : Utf8(name)[i] = Ascii
    BY <1>4, <1>5, <1>9
  <2>2. Ascii # Lead /\ Ascii # Continuation
    BY ConstantTypes DEF Lead, Continuation, Ascii
  <2>3. DOMAIN Utf8(name) = 1 .. Len(Utf8(name))
    BY <1>10
  <2> QED
    BY <2>1, <2>2, <2>3 DEF Decodes
<1> QED
  BY <1>1, <1>10, <1>11 DEF Excess, N

-----------------------------------------------------------------------------
(* Bytes on the connection.                                                      *)

\* A field that is there in full is what the bytes begin with.
LEMMA Splits ==
    ASSUME NEW A, NEW b \in Seq(A), NEW w \in Seq(A), NEW x \in Seq(A), NEW y \in Seq(A),
           b \o w = x \o y, Len(b) = Len(x)
    PROVE  b = x /\ w = y
<1>1. /\ Len(b \o w) = Len(b) + Len(w) /\ Len(x \o y) = Len(x) + Len(y)
      /\ \A i \in 1 .. Len(b) + Len(w) : (b \o w)[i] = IF i <= Len(b) THEN b[i] ELSE w[i - Len(b)]
      /\ \A i \in 1 .. Len(x) + Len(y) : (x \o y)[i] = IF i <= Len(x) THEN x[i] ELSE y[i - Len(x)]
  BY ConcatProperties
<1>2. Len(w) = Len(y)
  BY <1>1
<1>3. \A i \in 1 .. Len(b) : b[i] = x[i]
  BY <1>1
<1>4. ASSUME NEW i \in 1 .. Len(w) PROVE w[i] = y[i]
  <2>1. i + Len(b) \in 1 .. Len(b) + Len(w) /\ ~(i + Len(b) <= Len(b)) /\ (i + Len(b)) - Len(b) = i
    OBVIOUS
  <2> QED
    BY <1>1, <1>2, <2>1
<1> QED
  BY <1>2, <1>3, <1>4, SeqEqual

\* Receiving moves bytes from the wire to the buffer.
LEMMA ReceivingMoves ==
    ASSUME NEW A, NEW b \in Seq(A), NEW w \in Seq(A), NEW n \in 1 .. Len(w)
    PROVE  /\ SubSeq(w, 1, n) \in Seq(A) /\ Len(SubSeq(w, 1, n)) = n
           /\ SubSeq(w, n + 1, Len(w)) \in Seq(A)
           /\ (b \o SubSeq(w, 1, n)) \o SubSeq(w, n + 1, Len(w)) = b \o w
<1>1. SubSeq(w, 1, n) \in Seq(A) /\ SubSeq(w, n + 1, Len(w)) \in Seq(A) /\ Len(SubSeq(w, 1, n)) = n
  OBVIOUS
<1>2. SubSeq(w, 1, n) \o SubSeq(w, n + 1, Len(w)) = w
  <2>1. SubSeq(w, 1, n) \o SubSeq(w, n + 1, Len(w)) = SubSeq(w, 1, Len(w))
    BY ConcatAdjacentSubSeq
  <2> QED
    BY <2>1, SubSeqFull
<1>3. PICK x \in Seq(A), y \in Seq(A) : x = SubSeq(w, 1, n) /\ y = SubSeq(w, n + 1, Len(w))
  BY <1>1
<1>4. (b \o x) \o y = b \o (x \o y)
  BY ConcatAssociative, SMTT(60)
<1> QED
  BY <1>1, <1>2, <1>3, <1>4

-----------------------------------------------------------------------------
(* Messages as bytes.                                                            *)

LEMMA MessageTypes ==
    ASSUME NEW m \in Messages
    PROVE  /\ m.type \in {FRUIT_RECORD, FRUIT_TOP, END_OF_RECORDS} /\ m.type \in Bytes /\ m.type \in MsgTypes
           /\ Len(m.items) \in Nat /\ DOMAIN m.items = 1 .. Len(m.items)
           /\ \A i \in 1 .. Len(m.items) : /\ m.items[i][1] \in Names /\ m.items[i][2] \in Int
                                           /\ Len(m.items[i][1]) \in Nat
<1>1. m.type \in {FRUIT_RECORD, FRUIT_TOP, END_OF_RECORDS} /\ m.items \in Seq(Names \X Int)
  BY DEF Messages
<1>2. m.type \in Bytes /\ m.type \in MsgTypes
  BY <1>1, ConstantTypes DEF Bytes, MsgTypes, FRUIT_RECORD, FRUIT_TOP, END_OF_RECORDS
<1>3. Len(m.items) \in Nat /\ DOMAIN m.items = 1 .. Len(m.items)
  BY <1>1
<1>4. ASSUME NEW i \in 1 .. Len(m.items)
      PROVE  m.items[i][1] \in Names /\ m.items[i][2] \in Int /\ Len(m.items[i][1]) \in Nat
  <2>1. m.items[i] \in Names \X Int
    BY <1>1, <1>4
  <2>2. m.items[i][1] \in Names /\ m.items[i][2] \in Int
    BY <2>1
  <2> QED
    BY <2>2 DEF Names
<1> QED
  BY <1>1, <1>2, <1>3, <1>4

LEMMA RecordTypes ==
    ASSUME NEW m \in Messages, Serializable(m), NEW i \in 1 .. Len(m.items)
    PROVE  /\ Len(m.items[i][1]) \in Nat /\ Fits(Len(m.items[i][1]))
           /\ m.items[i][2] \in Nat /\ Fits(m.items[i][2])
           /\ Uint32(Len(m.items[i][1])) \in Seq(Bytes) /\ Utf8(m.items[i][1]) \in Seq(Bytes)
           /\ Uint32(m.items[i][2]) \in Seq(Bytes)
           /\ FruitRecord(m.items[i]) \in Seq(Bytes)
           /\ FruitRecord(m.items[i])
                = Uint32(Len(m.items[i][1])) \o (Utf8(m.items[i][1]) \o Uint32(m.items[i][2]))
<1>1. Fits(Len(m.items[i][1])) /\ Fits(m.items[i][2]) /\ m.items[i][1] \in Names
  BY MessageTypes DEF Serializable
<1>2. Len(m.items[i][1]) \in Nat /\ m.items[i][2] \in Nat
  BY <1>1 DEF Fits
<1>3. PICK x \in Seq(Bytes), y \in Seq(Bytes), z \in Seq(Bytes) :
            x = Uint32(Len(m.items[i][1])) /\ y = Utf8(m.items[i][1]) /\ z = Uint32(m.items[i][2])
  BY <1>1, <1>2, Uint32Type, Utf8Type
<1>4. FruitRecord(m.items[i]) = (x \o y) \o z
  BY <1>3 DEF FruitRecord
<1>5. (x \o y) \o z = x \o (y \o z) /\ (x \o y) \o z \in Seq(Bytes)
  BY ConcatAssociative, SMTT(60)
<1> QED
  BY <1>1, <1>2, <1>3, <1>4, <1>5

\* The records from the k-th on: none, or the k-th and the others.
LEMMA RecordsFromType ==
    ASSUME NEW m \in Messages, Serializable(m), NEW k \in 1 .. Len(m.items) + 1
    PROVE  RecordsFrom(m, k) \in Seq(Bytes)
<1> DEFINE s == [i \in 1 .. Len(m.items) - k + 1 |-> FruitRecord(m.items[k - 1 + i])]
<1>1. \A i \in 1 .. Len(m.items) - k + 1 : k - 1 + i \in 1 .. Len(m.items)
  BY MessageTypes
<1>2. Len(m.items) - k + 1 \in Nat
  BY MessageTypes
<1>3. \A i \in 1 .. Len(m.items) - k + 1 : FruitRecord(m.items[k - 1 + i]) \in Seq(Bytes)
  BY <1>1, RecordTypes
<1>4. s \in Seq(Seq(Bytes))
  BY <1>2, <1>3
<1> QED
  BY <1>4, FlattenType DEF RecordsFrom

LEMMA RecordsFromEnd ==
    ASSUME NEW m \in Messages
    PROVE  RecordsFrom(m, Len(m.items) + 1) = <<>>
<1>1. [i \in 1 .. Len(m.items) - (Len(m.items) + 1) + 1 |-> FruitRecord(m.items[(Len(m.items) + 1) - 1 + i])] = <<>>
  BY MessageTypes
<1> QED
  BY <1>1, FlattenEmpty, Zenon DEF RecordsFrom

LEMMA RecordsFromStep ==
    ASSUME NEW m \in Messages, Serializable(m), NEW k \in 1 .. Len(m.items)
    PROVE  RecordsFrom(m, k) = FruitRecord(m.items[k]) \o RecordsFrom(m, k + 1)
<1> DEFINE n == Len(m.items) - k
           s == [i \in 1 .. Len(m.items) - k + 1 |-> FruitRecord(m.items[k - 1 + i])]
           t == [i \in 1 .. Len(m.items) - (k + 1) + 1 |-> FruitRecord(m.items[(k + 1) - 1 + i])]
<1>1. n \in Nat /\ Len(m.items) - k + 1 = n + 1 /\ Len(m.items) - (k + 1) + 1 = n
  BY MessageTypes
<1>2. \A i \in 1 .. n + 1 : k - 1 + i \in 1 .. Len(m.items)
  BY MessageTypes
<1>3. \A i \in 1 .. n + 1 : FruitRecord(m.items[k - 1 + i]) \in Seq(Bytes)
  BY <1>2, RecordTypes
<1>4. s \in SequencesOf(Bytes) /\ Len(s) = n + 1
  BY <1>1, <1>3 DEF SequencesOf
<1>5. \A i \in 1 .. n : i + 1 \in 1 .. n + 1 /\ k - 1 + (i + 1) = (k + 1) - 1 + i
  BY <1>1
<1>6. t = [i \in 1 .. n |-> s[i + 1]]
  BY <1>1, <1>5
<1>7. s[1] = FruitRecord(m.items[k])
  BY <1>1
<1>8. RecordsFrom(m, k) = FlattenSeq(s) /\ RecordsFrom(m, k + 1) = FlattenSeq(t)
  BY DEF RecordsFrom
<1> HIDE DEF s, t, n
<1>9. FlattenSeq(s) = s[1] \o FlattenSeq(t)
  BY <1>1, <1>4, <1>6, FlattenFirst
<1> QED
  BY <1>7, <1>8, <1>9

\* What is written of a message, field by field.
LEMMA SerializedIs ==
    ASSUME NEW m \in Messages, Serializable(m)
    PROVE  /\ Uint32(m.type) \in Seq(Bytes) /\ Len(Uint32(m.type)) = UINT32_SIZE
           /\ RecordsFrom(m, 1) \in Seq(Bytes)
           /\ Uint32(Len(m.items)) \in Seq(Bytes) /\ Len(Uint32(Len(m.items))) = UINT32_SIZE
           /\ m.type = FRUIT_TOP =>
                Serialized(m) = Uint32(m.type) \o (Uint32(Len(m.items)) \o RecordsFrom(m, 1))
           /\ m.type # FRUIT_TOP => Serialized(m) = Uint32(m.type) \o RecordsFrom(m, 1)
           /\ Serialized(m) \in Seq(Bytes)
<1>1. m.type \in Nat /\ Len(m.items) \in Nat /\ 1 \in 1 .. Len(m.items) + 1
  BY MessageTypes DEF MsgTypes
<1>2. Len(Uint32(m.type)) = UINT32_SIZE /\ Len(Uint32(Len(m.items))) = UINT32_SIZE
  BY <1>1, Uint32Type
<1>3. PICK x \in Seq(Bytes), y \in Seq(Bytes), z \in Seq(Bytes) :
            x = Uint32(m.type) /\ y = Uint32(Len(m.items)) /\ z = RecordsFrom(m, 1)
  BY <1>1, Uint32Type, RecordsFromType
<1>4. [i \in DOMAIN m.items |-> FruitRecord(m.items[i])]
        = [i \in 1 .. Len(m.items) - 1 + 1 |-> FruitRecord(m.items[1 - 1 + i])]
  <2>1. Len(m.items) - 1 + 1 = Len(m.items) /\ DOMAIN m.items = 1 .. Len(m.items)
    BY MessageTypes
  <2>2. \A i \in 1 .. Len(m.items) : 1 - 1 + i = i
    BY <2>1
  <2> QED
    BY <2>1, <2>2
<1>5. Serialized(m) = (x \o (IF m.type = FRUIT_TOP THEN y ELSE <<>>)) \o z
  BY <1>3, <1>4, Zenon DEF Serialized, RecordsFrom
<1>6. (x \o y) \o z = x \o (y \o z) /\ (x \o y) \o z \in Seq(Bytes) /\ x \o <<>> = x /\ x \o z \in Seq(Bytes)
  BY ConcatAssociative, ConcatEmptySeq, SMTT(60)
<1>7. Serialized(m) = IF m.type = FRUIT_TOP THEN x \o (y \o z) ELSE x \o z
  BY <1>5, <1>6
<1> QED
  BY <1>2, <1>3, <1>6, <1>7

-----------------------------------------------------------------------------
(* The script and the first message with a wide name.                            *)

LEMMA ScriptTypes ==
    ASSUME script \in Scripts
    PROVE  /\ Len(script) \in Nat /\ Len(script) > 0 /\ DOMAIN script = 1 .. Len(script)
           /\ \A i \in 1 .. Len(script) : script[i] \in Messages
           /\ IsTop => Len(script) = 1
           /\ IsTop => \A i \in 1 .. Len(script) : script[i].type = FRUIT_TOP
           /\ ~IsTop => \A i \in 1 .. Len(script) :
                IF i = Len(script) THEN script[i].type = END_OF_RECORDS /\ script[i].items = <<>>
                                   ELSE script[i].type = FRUIT_RECORD /\ Len(script[i].items) = 1
<1>1. script \in Seq(Messages) /\ script # <<>> /\ (IsUpload(script) \/ IsAnswer(script))
  BY ExternalAssumption
<1>2. /\ Len(script) \in Nat /\ Len(script) > 0 /\ DOMAIN script = 1 .. Len(script)
      /\ \A i \in 1 .. Len(script) : script[i] \in Messages
  BY <1>1
<1>3. CASE IsUpload(script)
  <2>1. \A i \in 1 .. Len(script) :
                IF i = Len(script) THEN script[i].type = END_OF_RECORDS /\ script[i].items = <<>>
                                   ELSE script[i].type = FRUIT_RECORD /\ Len(script[i].items) = 1
    BY <1>2, <1>3 DEF IsUpload, Message
  <2>2. ~IsTop
    <3>1. 1 \in 1 .. Len(script)
      BY <1>2
    <3> QED
      BY <2>1, <3>1 DEF IsTop, FRUIT_TOP, FRUIT_RECORD, END_OF_RECORDS
  <2> QED
    BY <1>2, <2>1, <2>2
<1>4. CASE IsAnswer(script)
  BY <1>2, <1>4 DEF IsAnswer, IsTop
<1> QED
  BY <1>1, <1>3, <1>4

\* A message is first to have a wide name if it has one and all before are plain; and all
\* are plain that come before every first one.
LEMMA FirstWideIs ==
    ASSUME script \in Scripts
    PROVE  /\ \A j \in FirstWide : j \in 1 .. Len(script) /\ Wide(script[j]) /\ Plain(j - 1)
           /\ \A j, k \in FirstWide : j = k
           /\ \A j \in FirstWide, p \in Nat : Plain(p) => p < j
           /\ \A i \in 1 .. Len(script) : Wide(script[i]) /\ Plain(i - 1) => i \in FirstWide
           /\ \A i \in 1 .. Len(script) : (\A j \in FirstWide : i < j) => Plain(i)
<1>1. Len(script) \in Nat /\ DOMAIN script = 1 .. Len(script)
  BY ScriptTypes
<1>2. \A j \in FirstWide : j \in 1 .. Len(script) /\ Wide(script[j]) /\ Plain(j - 1)
  BY <1>1 DEF FirstWide, Plain
<1>3. \A j \in FirstWide, p \in Nat : Plain(p) => p < j
  BY <1>1, <1>2 DEF Plain
<1>4. \A j, k \in FirstWide : j = k
  <2>1. \A j, k \in FirstWide : j - 1 < k /\ j \in Nat
    BY <1>1, <1>2, <1>3
  <2> QED
    BY <1>1, <1>2, <2>1
<1>5. \A i \in 1 .. Len(script) : Wide(script[i]) /\ Plain(i - 1) => i \in FirstWide
  BY <1>1 DEF FirstWide, Plain
<1>6. ASSUME NEW i \in 1 .. Len(script), \A j \in FirstWide : i < j PROVE Plain(i)
  <2> DEFINE T == {k \in 0 .. i : Plain(k)}
  <2>1. 0 \in T
    BY <1>1 DEF Plain
  <2>2. ASSUME NEW k \in 1 .. i, k - 1 \in T PROVE k \in T
    <3>1. k \in 1 .. Len(script) /\ ~(i < k) /\ k \in 0 .. i
      BY <1>1
    <3>2. ~Wide(script[k])
      BY <1>5, <1>6, <2>2, <3>1
    <3>3. Plain(k)
      BY <2>2, <3>2 DEF Plain
    <3> QED
      BY <3>1, <3>3
  <2>3. \A k \in 0 .. i : k \in T
    <3>1. i \in Nat
      BY <1>1
    <3> HIDE DEF T
    <3> QED
      BY <2>1, <2>2, <3>1, UpTo
  <2> QED
    BY <1>1, <2>3
<1> QED
  BY <1>2, <1>3, <1>4, <1>5, <1>6

-----------------------------------------------------------------------------
(* Types.                                                                        *)

Item == Seq(Bytes) \X Nat
Result == [type : MsgTypes, items : Seq(Item)]

LEMMA InitTypes == Init => TypeOK /\ Ends
<1> SUFFICES ASSUME Init PROVE TypeOK /\ Ends
  OBVIOUS
<1>1. Len(script) \in Nat /\ Len(script) > 0
  BY ScriptTypes DEF Init
<1>2. /\ script \in Scripts /\ next = 1 /\ sender = "send" /\ wire = <<>> /\ acks = 0
      /\ closed = FALSE /\ receiver = "reading" /\ field = "type" /\ size = UINT32_SIZE
      /\ buf = <<>> /\ msgType = ACK /\ left = 0 /\ items = <<>> /\ received = <<>>
  BY DEF Init
<1>3. next \in 1 .. Len(script) + 1
  BY <1>1, <1>2
<1>4. size \in Nat /\ Len(buf) <= size /\ msgType \in MsgTypes
  BY <1>2, ConstantTypes DEF MsgTypes, ACK
<1>5. /\ wire \in Seq(Bytes) /\ buf \in Seq(Bytes)
      /\ items \in Seq(Seq(Bytes) \X Nat)
      /\ received \in Seq([type : MsgTypes, items : Seq(Seq(Bytes) \X Nat)])
  BY <1>2, EmptySeq
<1>6. TypeOK
  BY <1>2, <1>3, <1>4, <1>5 DEF TypeOK
<1>7. Ends
  BY <1>1, <1>2 DEF Ends
<1> QED
  BY <1>6, <1>7

\* What an amount is filled in to.
FilledIn(t, s, n) == t = [s EXCEPT ![Len(s)][2] = n]

LEMMA AmountFilledIn ==
    ASSUME NEW s \in Seq(Item), s # <<>>, NEW n \in Nat, NEW t, FilledIn(t, s, n)
    PROVE  /\ t \in Seq(Item) /\ Len(t) = Len(s) /\ Len(s) \in Nat \ {0}
           /\ \A i \in 1 .. Len(s) - 1 : t[i] = s[i]
           /\ t[Len(s)][1] = s[Len(s)][1]
           /\ t[Len(s)] = <<s[Len(s)][1], n>>
<1>1. Len(s) \in Nat \ {0} /\ Len(s) \in 1 .. Len(s)
  BY EmptySeq
<1>2. PICK k \in 1 .. Len(s) : k = Len(s)
  BY <1>1
<1>3. PICK d \in Item : d = s[k]
  BY <1>2
<1>4. PICK e : e = [s[k] EXCEPT ![2] = n]
  OBVIOUS
<1>5. e \in Item /\ e = <<s[k][1], n>>
  <2>1. PICK a \in Seq(Bytes), c \in Nat : d = <<a, c>>
    BY DEF Item
  <2>2. e = <<a, n>>
    BY <1>3, <1>4, <2>1
  <2> QED
    BY <1>3, <2>1, <2>2 DEF Item
<1>6. t = [s EXCEPT ![k] = e]
  BY <1>2, <1>4 DEF FilledIn
<1>7. t \in Seq(Item) /\ Len(t) = Len(s) /\ \A j \in 1 .. Len(s) : t[j] = IF j = k THEN e ELSE s[j]
  <2>1. e \in Item
    BY <1>5
  <2>2. [s EXCEPT ![k] = e] \in Seq(Item) /\ Len([s EXCEPT ![k] = e]) = Len(s)
    BY <2>1, ExceptSeq
  <2>3. \A j \in 1 .. Len(s) : [s EXCEPT ![k] = e][j] = IF j = k THEN e ELSE s[j]
    BY <2>1, ExceptSeq
  <2> QED
    BY <1>6, <2>2, <2>3
<1>8. \A i \in 1 .. Len(s) - 1 : t[i] = s[i]
  BY <1>1, <1>2, <1>7
<1>9. t[k] = <<s[k][1], n>>
  BY <1>5, <1>7
<1> QED
  BY <1>1, <1>2, <1>7, <1>8, <1>9

LEMMA ReceiveBytesTypes ==
    ASSUME TypeOK, ReceiveBytes
    PROVE  /\ buf' \in Seq(Bytes) /\ Len(buf') <= size /\ wire' \in Seq(Bytes)
           /\ Ahead' = Ahead
           /\ UNCHANGED <<senderVars, acks, closed, receiver, field, size, msgType, left, items, received>>
<1>1. wire \in Seq(Bytes) /\ buf \in Seq(Bytes) /\ size \in Nat
  BY DEF TypeOK
<1>2. PICK n \in 1 .. Len(wire) :
            /\ n <= size - Len(buf)
            /\ buf' = buf \o SubSeq(wire, 1, n)
            /\ wire' = SubSeq(wire, n + 1, Len(wire))
  BY DEF ReceiveBytes, Room
<1>6. SubSeq(wire, 1, n) \in Seq(Bytes) /\ Len(SubSeq(wire, 1, n)) = n
  BY <1>1, ReceivingMoves
<1>3. PICK x \in Seq(Bytes) : x = SubSeq(wire, 1, n) /\ Len(x) = n
  BY <1>6
<1>4. buf' = buf \o x /\ buf \o x \in Seq(Bytes) /\ Len(buf \o x) = Len(buf) + n
  BY <1>1, <1>2, <1>3, ConcatProperties
<1>5. wire' \in Seq(Bytes) /\ buf' \o wire' = buf \o wire
  BY <1>1, <1>2, ReceivingMoves, ZenonT(60)
<1>7. buf' \in Seq(Bytes) /\ Len(buf') <= size
  BY <1>1, <1>2, <1>4
<1>8. Ahead' = Ahead
  BY <1>5 DEF Ahead
<1>9. UNCHANGED <<senderVars, acks, closed, receiver, field, size, msgType, left, items, received>>
  BY DEF ReceiveBytes
<1> QED
  BY <1>5, <1>7, <1>8, <1>9

LEMMA BasicTypes ==
    ASSUME TypeOK
    PROVE  /\ script \in Scripts /\ Len(script) \in Nat /\ next \in Nat /\ next > 0
           /\ acks \in Nat /\ size \in Nat
           /\ buf \in Seq(Bytes) /\ wire \in Seq(Bytes) /\ Len(buf) \in Nat /\ Len(wire) \in Nat
           /\ items \in Seq(Item) /\ Len(items) \in Nat
           /\ received \in Seq(Result) /\ Len(received) \in Nat
<1>1. script \in Scripts /\ next \in 1 .. Len(script) + 1 /\ acks \in Nat /\ size \in Nat
  BY DEF TypeOK
<1>2. Len(script) \in Nat
  BY <1>1, ScriptTypes
<1>3. next \in Nat /\ next > 0
  BY <1>1, <1>2
<1>4. buf \in Seq(Bytes) /\ wire \in Seq(Bytes) /\ Len(buf) \in Nat /\ Len(wire) \in Nat
  BY DEF TypeOK
<1>5. items \in Seq(Item) /\ Len(items) \in Nat
  BY DEF TypeOK, Item
<1>6. received \in Seq(Result) /\ Len(received) \in Nat
  BY DEF TypeOK, Item, Result
<1> QED
  BY <1>1, <1>2, <1>3, <1>4, <1>5, <1>6

LEMMA SendTypes ==
    ASSUME TypeOK, Ends, Send
    PROVE  TypeOK' /\ Ends'
<1>1. /\ script \in Scripts /\ next \in 1 .. Len(script) + 1 /\ next <= Len(script)
      /\ wire \in Seq(Bytes) /\ sender = "send"
  BY DEF TypeOK, Ends, Send
<1>2. script[next] \in Messages
  <2>1. next \in 1 .. Len(script)
    BY <1>1
  <2> QED
    BY <1>1, <2>1, ScriptTypes
<1>3. Written(script[next]) \in Seq(Bytes)
  <2>1. CASE Serializable(script[next])
    BY <1>2, <2>1, SerializedIs DEF Written
  <2>2. CASE ~Serializable(script[next])
    BY <2>2, EmptySeq DEF Written
  <2> QED
    BY <2>1, <2>2
<1>4. wire' \in Seq(Bytes)
  <2>1. wire' = wire \o Written(script[next])
    BY DEF Send
  <2> QED
    BY <1>1, <1>3, <2>1, ConcatProperties
<1>5. \/ sender' = "wait" /\ closed' = closed
      \/ sender' = "failed" /\ closed' \in BOOLEAN
  BY DEF Send, IsTop
<1>6. UNCHANGED <<script, next, acks, receiver, field, size, buf, msgType, left, items, received>>
  BY DEF Send, readVars
<1>7. TypeOK'
  BY <1>4, <1>5, <1>6 DEF TypeOK
<1>8. Ends'
  BY <1>1, <1>5, <1>6 DEF Ends
<1> QED
  BY <1>7, <1>8

LEMMA ReceiveAckTypes ==
    ASSUME TypeOK, Ends, ReceiveAck
    PROVE  TypeOK' /\ Ends'
<1>1. /\ script \in Scripts /\ next \in 1 .. Len(script) + 1 /\ next <= Len(script)
      /\ acks \in Nat /\ sender = "wait" /\ acks > 0
  BY DEF TypeOK, Ends, ReceiveAck
<1>2. Len(script) \in Nat
  BY <1>1, ScriptTypes
<1>3. /\ acks' = acks - 1 /\ next' = next + 1
      /\ sender' = IF next = Len(script) THEN "done" ELSE "send"
  BY DEF ReceiveAck
<1>4. UNCHANGED <<script, wire, closed, receiver, field, size, buf, msgType, left, items, received>>
  BY DEF ReceiveAck, readVars
<1>5. next' \in 1 .. Len(script) + 1 /\ acks' \in Nat /\ (sender' = "send" => next' <= Len(script))
  BY <1>1, <1>2, <1>3
<1>6. TypeOK'
  BY <1>3, <1>4, <1>5 DEF TypeOK
<1>7. Ends'
  BY <1>1, <1>3, <1>4, <1>5 DEF Ends
<1> QED
  BY <1>6, <1>7

\* What a parse leaves alone, and what comes of the rest.
LEMMA ParseLeaves ==
    ASSUME Parse
    PROVE  /\ receiver = "reading" /\ Len(buf) = size
           /\ UNCHANGED <<script, next, sender, wire, closed>>
           /\ ReadType \/ ReadCount \/ ReadSize \/ ReadName \/ ReadAmount
BY DEF Parse, Complete, senderVars

\* A parse that fails, one that goes on to another field and one that returns a message.
Failed == receiver' = "failed" /\ UNCHANGED <<acks, field, size, buf, msgType, left, items, received>>
Went(f, n) == field' = f /\ size' = n /\ buf' = <<>> /\ UNCHANGED <<acks, receiver, received>>
Returned(m) ==
    /\ received' = Append(received, m)
    /\ acks' = IF IsTop \/ m.type \in {FRUIT_RECORD, END_OF_RECORDS} THEN acks + 1 ELSE acks
    /\ receiver' = IF IsTop \/ m.type = END_OF_RECORDS THEN "done" ELSE "reading"
    /\ field' = "type" /\ size' = UINT32_SIZE /\ buf' = <<>>
    /\ UNCHANGED <<msgType, left, items>>

LEMMA ReadTypeSteps ==
    ASSUME ReadType
    PROVE  /\ field = "type"
           /\ \/ FromUint32(buf) \notin MsgTypes /\ Failed
              \/ /\ FromUint32(buf) \in {ACK, END_OF_RECORDS}
                 /\ Returned(Message(FromUint32(buf), <<>>))
              \/ /\ FromUint32(buf) \in {FRUIT_RECORD, FRUIT_TOP}
                 /\ Went(IF FromUint32(buf) = FRUIT_TOP THEN "count" ELSE "size", UINT32_SIZE)
                 /\ msgType' = FromUint32(buf) /\ left' = 1 /\ items' = <<>>
<1>1. CASE ~Known(FromUint32(buf)) /\ Fails
  BY <1>1 DEF ReadType, Fails, Failed, readVars, Known
<1>2. CASE /\ Known(FromUint32(buf)) /\ FromUint32(buf) \notin {FRUIT_RECORD, FRUIT_TOP}
           /\ Returns(Message(FromUint32(buf), <<>>))
  BY <1>2 DEF ReadType, Returns, Returned, Known, MsgTypes, Acknowledged, Reads, FRUIT_RECORD,
              FRUIT_TOP, ACK, END_OF_RECORDS
<1>3. CASE /\ FromUint32(buf) \in {FRUIT_RECORD, FRUIT_TOP}
           /\ Reads(IF FromUint32(buf) = FRUIT_TOP THEN "count" ELSE "size", UINT32_SIZE)
           /\ msgType' = FromUint32(buf) /\ left' = 1 /\ items' = <<>>
           /\ Continues
  BY <1>3 DEF ReadType, Went, Reads, Continues
<1> QED
  BY <1>1, <1>2, <1>3 DEF ReadType

LEMMA ReadCountSteps ==
    ASSUME ReadCount
    PROVE  /\ field = "count"
           /\ FromUint32(buf) = 0 => Returned(Message(msgType, <<>>))
           /\ FromUint32(buf) # 0 => /\ Went("size", UINT32_SIZE) /\ left' = FromUint32(buf)
                                     /\ UNCHANGED <<msgType, items>>
BY DEF ReadCount, Returns, Returned, Acknowledged, Reads, Continues, Went

LEMMA ReadSizeSteps ==
    ASSUME ReadSize
    PROVE  field = "size" /\ Went("name", FromUint32(buf)) /\ UNCHANGED <<msgType, left, items>>
BY DEF ReadSize, Reads, Continues, Went

LEMMA ReadNameSteps ==
    ASSUME ReadName
    PROVE  /\ field = "name"
           /\ \/ ~Decodes(buf) /\ Failed
              \/ /\ Decodes(buf) /\ Went("amount", UINT32_SIZE)
                 /\ items' = Append(items, <<buf, 0>>) /\ UNCHANGED <<msgType, left>>
BY DEF ReadName, Reads, Continues, Went, Fails, Failed, readVars

LEMMA ReadAmountSteps ==
    ASSUME ReadAmount
    PROVE  \E all :
             /\ FilledIn(all, items, FromUint32(buf))
             /\ field = "amount"
             /\ left = 1 => Returned(Message(msgType, all))
             /\ left # 1 => /\ Went("size", UINT32_SIZE)
                            /\ items' = all /\ left' = left - 1 /\ UNCHANGED msgType
BY DEF ReadAmount, Returns, Returned, Acknowledged, Reads, Continues, Went, FilledIn

\* What a message that is returned does to the types.
LEMMA ReturnedTypes ==
    ASSUME TypeOK, Ends, NEW m \in Result, Returned(m),
           UNCHANGED <<script, next, sender, wire, closed>>
    PROVE  TypeOK' /\ Ends'
<1>1. received \in Seq(Result) /\ acks \in Nat
  BY DEF TypeOK, Result, Item
<1>2. received' \in Seq(Result)
  BY <1>1, AppendProperties DEF Returned
<1>3. acks' \in Nat /\ receiver' \in {"reading", "done", "failed"}
  BY <1>1 DEF Returned
<1>4. /\ field' = "type" /\ size' = UINT32_SIZE /\ buf' = <<>>
      /\ UNCHANGED <<msgType, left, items, script, next, sender, wire, closed>>
  BY DEF Returned
<1>5. buf' \in Seq(Bytes) /\ Len(buf') <= size' /\ size' \in Nat
  BY <1>4, ConstantTypes, EmptySeq
<1>6. TypeOK'
  BY <1>2, <1>3, <1>4, <1>5 DEF TypeOK, Result, Item
<1>7. Ends'
  BY <1>4 DEF Ends
<1> QED
  BY <1>6, <1>7

LEMMA WentTypes ==
    ASSUME TypeOK, Ends, NEW f \in {"count", "size", "name", "amount"}, NEW n \in Nat, Went(f, n),
           UNCHANGED <<script, next, sender, wire, closed>>,
           msgType' \in MsgTypes, left' \in Nat, items' \in Seq(Item),
           f # "count" => left' > 0, f = "amount" => items' # <<>>
    PROVE  TypeOK' /\ Ends'
<1>1. field' = f /\ size' = n /\ buf' = <<>> /\ UNCHANGED <<acks, receiver, received>>
  BY DEF Went
<1>2. buf' \in Seq(Bytes) /\ Len(buf') <= size' /\ size' \in Nat
  BY <1>1, EmptySeq
<1>3. TypeOK'
  BY <1>1, <1>2 DEF TypeOK, Item
<1>4. Ends'
  BY <1>1 DEF Ends
<1> QED
  BY <1>3, <1>4

LEMMA ParseTypes ==
    ASSUME TypeOK, Ends, Parse
    PROVE  TypeOK' /\ Ends'
<1>1. /\ buf \in Seq(Bytes) /\ msgType \in MsgTypes /\ left \in Nat /\ items \in Seq(Item)
      /\ FromUint32(buf) \in Nat
  BY FromUint32Type DEF TypeOK, Item
<1>2. UNCHANGED <<script, next, sender, wire, closed>>
  BY ParseLeaves
<1>3. <<>> \in Seq(Item) /\ UINT32_SIZE \in Nat
  BY EmptySeq, ConstantTypes
<1>4. ASSUME Failed PROVE TypeOK' /\ Ends'
  BY <1>2, <1>4 DEF Failed, TypeOK, Ends
<1>5. CASE ReadType
  <2>1. CASE FromUint32(buf) \notin MsgTypes /\ Failed
    BY <1>4, <2>1
  <2>2. CASE FromUint32(buf) \in {ACK, END_OF_RECORDS} /\ Returned(Message(FromUint32(buf), <<>>))
    <3>1. Message(FromUint32(buf), <<>>) \in Result
      BY <1>3, <2>2 DEF Message, Result, MsgTypes, ACK, END_OF_RECORDS
    <3> QED
      BY <1>2, <2>2, <3>1, ReturnedTypes
  <2>3. CASE /\ FromUint32(buf) \in {FRUIT_RECORD, FRUIT_TOP}
             /\ Went(IF FromUint32(buf) = FRUIT_TOP THEN "count" ELSE "size", UINT32_SIZE)
             /\ msgType' = FromUint32(buf) /\ left' = 1 /\ items' = <<>>
    <3>1. msgType' \in MsgTypes /\ left' \in Nat /\ left' > 0 /\ items' \in Seq(Item)
      BY <1>3, <2>3 DEF MsgTypes, FRUIT_RECORD, FRUIT_TOP
    <3>2. PICK f \in {"count", "size"} : Went(f, UINT32_SIZE)
      BY <2>3
    <3> QED
      BY <1>2, <1>3, <3>1, <3>2, WentTypes
  <2> QED
    BY <1>5, <2>1, <2>2, <2>3, ReadTypeSteps
<1>6. CASE ReadCount
  <2>1. CASE FromUint32(buf) = 0
    <3>1. Message(msgType, <<>>) \in Result
      BY <1>1, <1>3 DEF Message, Result
    <3> QED
      BY <1>2, <1>6, <2>1, <3>1, ReadCountSteps, ReturnedTypes
  <2>2. CASE FromUint32(buf) # 0
    <3>1. /\ Went("size", UINT32_SIZE) /\ left' \in Nat /\ left' > 0
          /\ msgType' \in MsgTypes /\ items' \in Seq(Item)
      BY <1>1, <1>6, <2>2, ReadCountSteps
    <3> QED
      BY <1>2, <1>3, <3>1, WentTypes
  <2> QED
    BY <2>1, <2>2
<1>7. CASE ReadSize
  <2>1. field = "size" /\ Went("name", FromUint32(buf)) /\ UNCHANGED <<msgType, left, items>>
    BY <1>7, ReadSizeSteps
  <2>2. left > 0
    BY <2>1 DEF Ends
  <2> QED
    BY <1>1, <1>2, <2>1, <2>2, WentTypes
<1>8. CASE ReadName
  <2>1. CASE ~Decodes(buf) /\ Failed
    BY <1>4, <2>1
  <2>2. CASE /\ Decodes(buf) /\ Went("amount", UINT32_SIZE)
             /\ items' = Append(items, <<buf, 0>>) /\ UNCHANGED <<msgType, left>>
    <3>1. left > 0
      BY <1>8, ReadNameSteps DEF Ends
    <3>2. <<buf, 0>> \in Item
      BY <1>1 DEF Item
    <3>3. items' \in Seq(Item) /\ items' # <<>>
      BY <1>1, <2>2, <3>2, AppendProperties
    <3> QED
      BY <1>1, <1>2, <1>3, <2>2, <3>1, <3>3, WentTypes
  <2> QED
    BY <1>8, <2>1, <2>2, ReadNameSteps
<1>9. CASE ReadAmount
  <2>1. PICK all :
             /\ FilledIn(all, items, FromUint32(buf))
             /\ field = "amount"
             /\ left = 1 => Returned(Message(msgType, all))
             /\ left # 1 => /\ Went("size", UINT32_SIZE)
                            /\ items' = all /\ left' = left - 1 /\ UNCHANGED msgType
    BY <1>9, ReadAmountSteps
  <2>2. items # <<>> /\ left > 0
    BY <2>1 DEF Ends
  <2>3. all \in Seq(Item)
    BY <1>1, <2>1, <2>2, AmountFilledIn
  <2>4. CASE left = 1
    <3>1. Message(msgType, all) \in Result
      BY <1>1, <2>3 DEF Message, Result
    <3> QED
      BY <1>2, <2>1, <2>4, <3>1, ReturnedTypes
  <2>5. CASE left # 1
    <3>1. msgType' \in MsgTypes /\ items' \in Seq(Item) /\ left' = left - 1
      BY <1>1, <2>1, <2>3, <2>5
    <3>2. left \in Nat /\ left > 1
      BY <1>1, <2>2, <2>5
    <3>3. left' \in Nat /\ left' > 0
      BY <3>1, <3>2
    <3> QED
      BY <1>2, <1>3, <2>1, <2>5, <3>1, <3>3, WentTypes
  <2> QED
    BY <2>4, <2>5
<1> QED
  BY <1>5, <1>6, <1>7, <1>8, <1>9, ParseLeaves

LEMMA NextTypes == TypeOK /\ Ends /\ [Next]_vars => TypeOK' /\ Ends'
<1> SUFFICES ASSUME TypeOK, Ends, [Next]_vars PROVE TypeOK' /\ Ends'
  OBVIOUS
<1>1. CASE ReceiveBytes
  <2>1. /\ buf' \in Seq(Bytes) /\ Len(buf') <= size /\ wire' \in Seq(Bytes)
        /\ UNCHANGED <<senderVars, acks, closed, receiver, field, size, msgType, left, items, received>>
    BY <1>1, ReceiveBytesTypes
  <2>2. TypeOK'
    BY <2>1 DEF TypeOK, senderVars
  <2>3. Ends'
    BY <2>1 DEF Ends, senderVars
  <2> QED
    BY <2>2, <2>3
<1>2. CASE EndOfStream
  <2>1. /\ receiver' = "failed"
        /\ UNCHANGED <<script, next, sender, wire, acks, closed, field, size, buf, msgType, left,
                       items, received>>
    BY <1>2 DEF EndOfStream, senderVars, readVars
  <2> QED
    BY <2>1 DEF TypeOK, Ends
<1>3. CASE UNCHANGED vars
  BY <1>3 DEF vars, senderVars, readVars, TypeOK, Ends
<1> QED
  BY <1>1, <1>2, <1>3, SendTypes, ReceiveAckTypes, ParseTypes DEF Next

\* At every moment each variable is in its domain, and recv_msg never has more bytes than
\* the field that it reads (_recv_sized).
THEOREM TypeCorrect == Spec => []TypeOK
<1>1. Spec => [](TypeOK /\ Ends)
  BY InitTypes, NextTypes, PTL DEF Spec
<1> QED
  BY <1>1, PTL

-----------------------------------------------------------------------------
(* A message that is read as it was sent, field by field.                        *)

LEMMA AndOn ==
    ASSUME NEW m \in Messages, Serializable(m), NEW k \in 1 .. Len(m.items)
    PROVE  /\ AmountAndOn(m, k) \in Seq(Bytes) /\ NameAndOn(m, k) \in Seq(Bytes)
           /\ RecordsFrom(m, k + 1) \in Seq(Bytes)
           /\ RecordsFrom(m, k) = Uint32(Len(m.items[k][1])) \o NameAndOn(m, k)
<1>1. PICK x \in Seq(Bytes), y \in Seq(Bytes), z \in Seq(Bytes) :
            /\ x = Uint32(Len(m.items[k][1])) /\ y = Utf8(m.items[k][1])
            /\ z = Uint32(m.items[k][2])
  BY RecordTypes
<1>2. k \in 1 .. Len(m.items) + 1 /\ k + 1 \in 1 .. Len(m.items) + 1
  BY MessageTypes
<1>3. PICK w \in Seq(Bytes) : w = RecordsFrom(m, k + 1)
  BY <1>2, RecordsFromType
<1>4. FruitRecord(m.items[k]) = x \o (y \o z)
  BY <1>1, RecordTypes
<1>5. RecordsFrom(m, k) = (x \o (y \o z)) \o w
  BY <1>3, <1>4, RecordsFromStep
<1>6. z \o w \in Seq(Bytes) /\ y \o z \in Seq(Bytes) /\ y \o (z \o w) \in Seq(Bytes)
  BY ConcatProperties
<1>7. (x \o (y \o z)) \o w = x \o ((y \o z) \o w)
  <2>1. PICK v \in Seq(Bytes) : v = y \o z
    BY <1>6
  <2>2. (x \o v) \o w = x \o (v \o w)
    BY ConcatAssociative, SMTT(60)
  <2> QED
    BY <2>1, <2>2
<1>8. (y \o z) \o w = y \o (z \o w)
  BY ConcatAssociative, SMTT(60)
<1>9. AmountAndOn(m, k) = z \o w /\ NameAndOn(m, k) = y \o (z \o w)
  BY <1>1, <1>3 DEF AmountAndOn, NameAndOn
<1> QED
  BY <1>1, <1>3, <1>5, <1>6, <1>7, <1>8, <1>9

\* A field of n bytes that is there is a number that was written.
LEMMA FieldRead ==
    ASSUME TypeOK, Len(buf) = size, size = UINT32_SIZE,
           NEW n, Fits(n), NEW y \in Seq(Bytes), Ahead = Uint32(n) \o y
    PROVE  FromUint32(buf) = n /\ wire = y
<1>1. buf \in Seq(Bytes) /\ wire \in Seq(Bytes) /\ buf \o wire = Uint32(n) \o y
  BY DEF TypeOK, Ahead
<1>2. Uint32(n) \in Seq(Bytes) /\ Len(Uint32(n)) = UINT32_SIZE
  BY Uint32Type DEF Fits
<1>3. buf = Uint32(n) /\ wire = y
  BY <1>1, <1>2, Splits
<1> QED
  BY <1>3, Uint32ComesBack

\* Once a field has been read, the bytes ahead are those on the wire.
LEMMA AheadIsWire ==
    ASSUME TypeOK, wire' = wire, buf' = <<>>
    PROVE  Ahead' = wire
<1>1. wire \in Seq(Bytes)
  BY DEF TypeOK
<1>2. <<>> \o wire = wire
  BY <1>1, ConcatEmptySeq
<1> QED
  BY <1>2 DEF Ahead

\* A message of a script that is being read.
Current(m) ==
    /\ m = script[next] /\ m \in Messages /\ Serializable(m) /\ next \in 1 .. Len(script)
    /\ IsTop => m.type = FRUIT_TOP /\ Len(script) = 1
    /\ ~IsTop /\ next = Len(script) => m.type = END_OF_RECORDS /\ m.items = <<>>
    /\ ~IsTop /\ next # Len(script) => m.type = FRUIT_RECORD /\ Len(m.items) = 1

LEMMA InTransitMessage ==
    ASSUME TypeOK, Ends, InTransit
    PROVE  Current(script[next])
<1>1. script \in Scripts /\ next \in 1 .. Len(script) + 1 /\ next <= Len(script)
  BY DEF TypeOK, Ends, InTransit
<1>2. next \in 1 .. Len(script)
  BY <1>1
<1> QED
  BY <1>1, <1>2, ScriptTypes DEF Current, InTransit

\* What comes of a read: the next field of the same message, the message, or a name that is
\* too short.
Arrives(m) ==
    /\ Returned(AsRead(m)) /\ wire = <<>>
    /\ \A i \in 1 .. Len(m.items) : Excess(m.items[i][1]) = 0
GoesOn == UNCHANGED <<acks, receiver, received>>

LEMMA AtTypeParses ==
    ASSUME TypeOK, Ends, NEW m, Current(m), AtType(m), Parse
    PROVE  Arrives(m) \/ (Reading(m)' /\ GoesOn)
<1>1. /\ m \in Messages /\ Serializable(m) /\ m.type \in {FRUIT_RECORD, FRUIT_TOP, END_OF_RECORDS}
      /\ m.type \in Bytes /\ m.type \in MsgTypes
  BY MessageTypes DEF Current
<1>2. PICK y \in Seq(Bytes) :
        /\ Serialized(m) = Uint32(m.type) \o y
        /\ m.type = FRUIT_TOP => y = Uint32(Len(m.items)) \o RecordsFrom(m, 1)
        /\ m.type # FRUIT_TOP => y = RecordsFrom(m, 1)
  BY <1>1, SerializedIs, ConcatProperties
<1>3. Len(buf) = size /\ wire' = wire /\ ReadType
  BY ParseLeaves DEF AtType, ReadCount, ReadSize, ReadName, ReadAmount
<1>4. Fits(m.type) /\ size = UINT32_SIZE /\ Ahead = Uint32(m.type) \o y
  BY <1>1, <1>2, OneByte DEF AtType
<1>5. FromUint32(buf) = m.type /\ wire = y
  BY <1>3, <1>4, FieldRead
<1>6. CASE m.type = END_OF_RECORDS
  <2>1. m.items = <<>> /\ Len(m.items) = 0
    BY <1>6 DEF Current, FRUIT_TOP, FRUIT_RECORD, END_OF_RECORDS
  <2>2. Returned(Message(m.type, <<>>))
    BY <1>3, <1>5, <1>6, ReadTypeSteps DEF MsgTypes, FRUIT_TOP, FRUIT_RECORD, END_OF_RECORDS
  <2>3. AsRead(m) = Message(m.type, <<>>)
    BY <2>1 DEF AsRead
  <2>4. wire = <<>>
    <3>1. RecordsFrom(m, Len(m.items) + 1) = <<>>
      BY <1>1, RecordsFromEnd
    <3>2. Len(m.items) + 1 = 1
      BY <2>1
    <3> QED
      BY <1>2, <1>5, <1>6, <3>1, <3>2 DEF FRUIT_TOP, END_OF_RECORDS
  <2> QED
    BY <1>6, <2>1, <2>2, <2>3, <2>4 DEF Arrives
<1>7. CASE m.type = FRUIT_TOP
  <2>1. Went("count", UINT32_SIZE) /\ msgType' = m.type /\ items' = <<>>
    BY <1>3, <1>5, <1>7, ReadTypeSteps DEF MsgTypes, FRUIT_TOP, FRUIT_RECORD, END_OF_RECORDS, ACK
  <2>2. Ahead' = y
    BY <1>3, <1>5, <2>1, AheadIsWire DEF Went
  <2>3. AtCount(m)'
    BY <1>2, <1>7, <2>1, <2>2 DEF AtCount, Went
  <2> QED
    BY <2>1, <2>3 DEF Reading, GoesOn, Went
<1>8. CASE m.type = FRUIT_RECORD
  <2>1. /\ Went("size", UINT32_SIZE) /\ msgType' = m.type /\ left' = 1 /\ items' = <<>>
    BY <1>3, <1>5, <1>8, ReadTypeSteps DEF MsgTypes, FRUIT_TOP, FRUIT_RECORD, END_OF_RECORDS, ACK
  <2>2. Ahead' = y
    BY <1>3, <1>5, <2>1, AheadIsWire DEF Went
  <2>3. Len(m.items) = 1
    BY <1>8 DEF Current, FRUIT_TOP, FRUIT_RECORD, END_OF_RECORDS
  <2>4. Len(items') + 1 = 1
    BY <2>1
  <2>5. AtRecord(m, 1)'
    BY <1>8, <2>1, <2>3 DEF AtRecord, FRUIT_RECORD, END_OF_RECORDS
  <2>6. Ahead' = RecordsFrom(m, 1)
    BY <1>2, <1>8, <2>2 DEF FRUIT_TOP, FRUIT_RECORD
  <2>7. AtSize(m)'
    BY <2>1, <2>4, <2>5, <2>6 DEF AtSize, Went
  <2> QED
    BY <2>1, <2>7 DEF Reading, GoesOn, Went
<1> QED
  BY <1>1, <1>6, <1>7, <1>8

LEMMA AtCountParses ==
    ASSUME TypeOK, Ends, NEW m, Current(m), AtCount(m), Parse
    PROVE  Arrives(m) \/ (Reading(m)' /\ GoesOn)
<1>1. /\ m \in Messages /\ Serializable(m) /\ m.type = FRUIT_TOP /\ Len(m.items) \in Nat
      /\ Fits(Len(m.items)) /\ msgType = m.type /\ items = <<>>
  BY MessageTypes DEF Current, AtCount, Serializable
<1>2. PICK y \in Seq(Bytes) : y = RecordsFrom(m, 1)
  BY <1>1, SerializedIs
<1>3. Len(buf) = size /\ wire' = wire /\ ReadCount
  BY ParseLeaves DEF AtCount, ReadType, ReadSize, ReadName, ReadAmount
<1>4. size = UINT32_SIZE /\ Ahead = Uint32(Len(m.items)) \o y
  BY <1>2 DEF AtCount
<1>5. FromUint32(buf) = Len(m.items) /\ wire = y
  BY <1>1, <1>3, <1>4, FieldRead
<1>6. CASE Len(m.items) = 0
  <2>1. m.items = <<>>
    BY <1>1, <1>6, MessageTypes DEF Messages
  <2>2. Returned(Message(m.type, <<>>))
    BY <1>1, <1>3, <1>5, <1>6, ReadCountSteps
  <2>3. AsRead(m) = Message(m.type, <<>>)
    BY <2>1 DEF AsRead
  <2>4. wire = <<>>
    <3>1. RecordsFrom(m, Len(m.items) + 1) = <<>>
      BY <1>1, RecordsFromEnd
    <3>2. Len(m.items) + 1 = 1
      BY <1>6
    <3> QED
      BY <1>2, <1>5, <3>1, <3>2
  <2> QED
    BY <1>1, <1>6, <2>2, <2>3, <2>4 DEF Arrives
<1>7. CASE Len(m.items) # 0
  <2>1. /\ Went("size", UINT32_SIZE) /\ left' = Len(m.items) /\ UNCHANGED <<msgType, items>>
    BY <1>3, <1>5, <1>7, ReadCountSteps
  <2>2. Ahead' = RecordsFrom(m, 1)
    BY <1>2, <1>3, <1>5, <2>1, AheadIsWire DEF Went
  <2>3. Len(items') + 1 = 1
    BY <1>1, <2>1
  <2>4. AtRecord(m, 1)'
    BY <1>1, <1>7, <2>1 DEF AtRecord, FRUIT_TOP, END_OF_RECORDS
  <2>5. AtSize(m)'
    BY <2>1, <2>2, <2>3, <2>4 DEF AtSize, Went
  <2> QED
    BY <2>1, <2>5 DEF Reading, GoesOn, Went
<1> QED
  BY <1>6, <1>7

LEMMA AtSizeParses ==
    ASSUME TypeOK, Ends, NEW m, Current(m), AtSize(m), Parse
    PROVE  Reading(m)' /\ GoesOn
<1>1. PICK k : k = Len(items) + 1 /\ AtRecord(m, k)
  BY DEF AtSize
<1>2. m \in Messages /\ Serializable(m) /\ k \in 1 .. Len(m.items)
  BY <1>1 DEF Current, AtRecord
<1>3. PICK y \in Seq(Bytes) : y = NameAndOn(m, k) /\ RecordsFrom(m, k) = Uint32(Len(m.items[k][1])) \o y
  BY <1>2, AndOn
<1>4. Len(buf) = size /\ wire' = wire /\ ReadSize
  BY ParseLeaves DEF AtSize, ReadType, ReadCount, ReadName, ReadAmount
<1>5. size = UINT32_SIZE /\ Ahead = Uint32(Len(m.items[k][1])) \o y /\ Fits(Len(m.items[k][1]))
  BY <1>1, <1>2, <1>3, RecordTypes DEF AtSize
<1>6. FromUint32(buf) = Len(m.items[k][1]) /\ wire = y
  BY <1>4, <1>5, FieldRead
<1>7. Went("name", Len(m.items[k][1])) /\ UNCHANGED <<msgType, left, items>>
  BY <1>4, <1>6, ReadSizeSteps
<1>8. Ahead' = NameAndOn(m, k)
  BY <1>3, <1>4, <1>6, <1>7, AheadIsWire DEF Went
<1>9. AtRecord(m, k)' /\ k = Len(items') + 1
  BY <1>1, <1>7 DEF AtRecord
<1>10. AtName(m)'
  BY <1>7, <1>8, <1>9 DEF AtName, Went
<1> QED
  BY <1>7, <1>10 DEF Reading, GoesOn, Went

LEMMA SameLength ==
    ASSUME NEW A, NEW b \in Seq(A), NEW w \in Seq(A), NEW x \in Seq(A), NEW y \in Seq(A),
           b \o w = x \o y
    PROVE  Len(b) + Len(w) = Len(x) + Len(y)
<1>1. Len(b \o w) = Len(b) + Len(w) /\ Len(x \o y) = Len(x) + Len(y)
  BY ConcatProperties
<1> QED
  BY <1>1

\* A message is wide if one of its names has more bytes than characters.
LEMMA WideIs ==
    ASSUME NEW m \in Messages
    PROVE  /\ Wide(m) <=> \E i \in 1 .. Len(m.items) : Excess(m.items[i][1]) # 0
           /\ \A i \in 1 .. Len(m.items) :
                /\ Excess(m.items[i][1]) \in Nat /\ Utf8(m.items[i][1]) \in Seq(Bytes)
                /\ Len(Utf8(m.items[i][1])) = Len(m.items[i][1]) + Excess(m.items[i][1])
                /\ Excess(m.items[i][1]) = 0 => Decodes(Utf8(m.items[i][1]))
<1>1. DOMAIN m.items = 1 .. Len(m.items) /\ \A i \in 1 .. Len(m.items) : m.items[i][1] \in Names
  BY MessageTypes
<1>2. \A i \in 1 .. Len(m.items) :
                /\ Excess(m.items[i][1]) \in Nat /\ Utf8(m.items[i][1]) \in Seq(Bytes)
                /\ Len(Utf8(m.items[i][1])) = Len(m.items[i][1]) + Excess(m.items[i][1])
                /\ Excess(m.items[i][1]) = 0 => Decodes(Utf8(m.items[i][1]))
  BY <1>1, Utf8Type DEF Excess
<1>3. \A i \in 1 .. Len(m.items) : Excess(m.items[i][1]) > 0 <=> Excess(m.items[i][1]) # 0
  BY <1>2
<1>4. Wide(m) <=> \E i \in 1 .. Len(m.items) : Excess(m.items[i][1]) # 0
  BY <1>1, <1>3 DEF Wide
<1> QED
  BY <1>2, <1>4

\* A name that is taken too short: from here on the bytes are read in the wrong place.
Slips(m) ==
    /\ Wide(m) /\ UNCHANGED <<acks, received>>
    /\ FewBytesMore(m) =>
         \/ receiver' = "failed"
         \/ /\ UNCHANGED receiver
            /\ msgType' = m.type /\ field' = "amount" /\ size' = UINT32_SIZE
            /\ \E k \in 1 .. Len(items') : TooShort(m, k)'
            /\ ~IsTop => /\ left' = 1
                         /\ Len(Ahead') \in UINT32_SIZE + 1 .. 2 * UINT32_SIZE - 1

LEMMA AtNameParses ==
    ASSUME TypeOK, Ends, NEW m, Current(m), AtName(m), Parse
    PROVE  (Reading(m)' /\ GoesOn) \/ Slips(m)
<1>1. PICK k : k = Len(items) + 1 /\ AtRecord(m, k)
  BY DEF AtName
<1>2. /\ m \in Messages /\ Serializable(m) /\ k \in 1 .. Len(m.items) /\ items \in Seq(Item)
      /\ buf \in Seq(Bytes) /\ wire \in Seq(Bytes) /\ Len(items) \in Nat /\ Len(m.items) \in Nat
  BY <1>1, MessageTypes DEF Current, AtRecord, TypeOK, Item
<1>3. PICK u \in Seq(Bytes) : u = Utf8(m.items[k][1])
  BY <1>2, RecordTypes
<1>4. PICK z \in Seq(Bytes) : z = AmountAndOn(m, k)
  BY <1>2, AndOn
<1>5. /\ Len(buf) = size /\ UNCHANGED <<wire, script>> /\ ReadName
  BY ParseLeaves DEF AtName, ReadType, ReadCount, ReadSize, ReadAmount
<1>6. buf \o wire = u \o z /\ Len(buf) = Len(m.items[k][1])
  BY <1>1, <1>3, <1>4, <1>5 DEF AtName, Ahead, NameAndOn
<1>7. /\ Excess(m.items[k][1]) \in Nat /\ Len(u) = Len(buf) + Excess(m.items[k][1])
      /\ Excess(m.items[k][1]) = 0 => Decodes(u)
  BY <1>2, <1>3, <1>6, WideIs
<1>8. CASE Excess(m.items[k][1]) = 0
  <2>1. buf = u /\ wire = z
    <3>1. Len(buf) = Len(u)
      BY <1>2, <1>7, <1>8
    <3> QED
      BY <1>2, <1>6, <3>1, Splits
  <2>2. /\ Went("amount", UINT32_SIZE)
        /\ items' = Append(items, <<buf, 0>>) /\ UNCHANGED <<msgType, left>>
    BY <1>5, <1>7, <1>8, <2>1, ReadNameSteps
  <2>3. /\ Len(items') = k /\ items'[k] = <<u, 0>>
        /\ \A i \in 1 .. k - 1 : items'[i] = items[i]
    BY <1>1, <1>2, <2>1, <2>2, AppendProperties
  <2>4. AtRecord(m, k)'
    BY <1>1, <2>2, <2>3 DEF AtRecord
  <2>5. Ahead' = AmountAndOn(m, k)
    BY <1>4, <1>5, <2>1, <2>2, AheadIsWire DEF Went
  <2>6. items'[k][1] = Utf8(m.items[k][1])
    BY <1>3, <2>3
  <2>7. AtAmount(m)'
    BY <1>8, <2>2, <2>3, <2>4, <2>5, <2>6 DEF AtAmount, Went
  <2> QED
    BY <2>2, <2>7 DEF Reading, GoesOn, Went
<1>9. CASE Excess(m.items[k][1]) # 0
  <2>1. Wide(m)
    BY <1>2, <1>9, WideIs
  <2>2. CASE Failed
    BY <2>1, <2>2 DEF Slips, Failed
  <2>3. CASE /\ Went("amount", UINT32_SIZE)
             /\ items' = Append(items, <<buf, 0>>) /\ UNCHANGED <<msgType, left>>
    <3>1. Len(items') = k /\ items'[k] = <<buf, 0>>
      BY <1>1, <1>2, <2>3, AppendProperties
    <3>2. buf # u
      BY <1>2, <1>7, <1>9
    <3>3. items'[k][1] # Utf8(m.items[k][1]) /\ k \in 1 .. Len(items')
      BY <1>2, <1>3, <3>1, <3>2
    <3>4. TooShort(m, k)'
      BY <1>2, <3>1, <3>3 DEF TooShort
    <3>5. msgType' = m.type
      BY <1>1, <2>3 DEF AtRecord
    <3>7. Len(buf) + Len(wire) = Len(u) + Len(z)
      BY <1>2, <1>6, SameLength, ZenonT(60)
    <3>6. ASSUME ~IsTop, FewBytesMore(m)
          PROVE  left' = 1 /\ Len(Ahead') \in UINT32_SIZE + 1 .. 2 * UINT32_SIZE - 1
      <4>1. Len(m.items) = 1 /\ k = 1
        <5>1. m.items # <<>>
          BY <1>2
        <5>2. Len(m.items) = 1
          BY <3>6, <5>1 DEF Current
        <5> QED
          BY <1>2, <5>2
      <4>2. left' = 1
        BY <1>1, <2>3, <4>1 DEF AtRecord
      <4>3. RecordsFrom(m, k + 1) = <<>>
        BY <1>2, <4>1, RecordsFromEnd
      <4>4. PICK a \in Seq(Bytes) : a = Uint32(m.items[k][2]) /\ Len(a) = UINT32_SIZE
        BY <1>2, RecordTypes, Uint32Type
      <4>5. z = a
        BY <1>4, <4>3, <4>4, ConcatEmptySeq DEF AmountAndOn
      <4>7. Len(wire) = UINT32_SIZE + Excess(m.items[k][1])
        BY <1>2, <1>7, <3>7, <4>4, <4>5, ConstantTypes, SMTT(30)
      <4>8. Excess(m.items[k][1]) < UINT32_SIZE
        BY <1>2, <3>6, MessageTypes DEF FewBytesMore
      <4>9. Ahead' = wire
        BY <1>5, <2>3, AheadIsWire DEF Went
      <4> QED
        BY <1>7, <1>9, <4>2, <4>7, <4>8, <4>9, ConstantTypes
    <3> QED
      BY <2>1, <2>3, <3>3, <3>4, <3>5, <3>6 DEF Slips, Went
  <2> QED
    BY <1>5, <2>2, <2>3, ReadNameSteps
<1> QED
  BY <1>8, <1>9

LEMMA AtAmountParses ==
    ASSUME TypeOK, Ends, NEW m, Current(m), AtAmount(m), Parse
    PROVE  Arrives(m) \/ (Reading(m)' /\ GoesOn)
<1>1. PICK k : k = Len(items) /\ AtRecord(m, k)
  BY DEF AtAmount
<1>2. /\ m \in Messages /\ Serializable(m) /\ k \in 1 .. Len(m.items) /\ items \in Seq(Item)
      /\ items # <<>> /\ Len(items) \in Nat /\ Len(m.items) \in Nat
      /\ m.items[k][2] \in Nat /\ Fits(m.items[k][2])
  <2>1. m \in Messages /\ Serializable(m) /\ k \in 1 .. Len(m.items)
    BY <1>1 DEF Current, AtRecord
  <2>2. items \in Seq(Item) /\ items # <<>> /\ Len(items) \in Nat
    BY DEF TypeOK, Item, Ends, AtAmount
  <2> QED
    BY <2>1, <2>2, MessageTypes, RecordTypes
<1>3. PICK y \in Seq(Bytes) : y = RecordsFrom(m, k + 1)
  BY <1>2, AndOn
<1>4. /\ Len(buf) = size /\ UNCHANGED <<wire, script>> /\ ReadAmount
  BY ParseLeaves DEF AtAmount, ReadType, ReadCount, ReadSize, ReadName
<1>5. size = UINT32_SIZE /\ Ahead = Uint32(m.items[k][2]) \o y
  BY <1>1, <1>3 DEF AtAmount, AmountAndOn
<1>6. FromUint32(buf) = m.items[k][2] /\ wire = y
  BY <1>2, <1>4, <1>5, FieldRead
<1>7. PICK all :
             /\ FilledIn(all, items, FromUint32(buf))
             /\ left = 1 => Returned(Message(msgType, all))
             /\ left # 1 => /\ Went("size", UINT32_SIZE)
                            /\ items' = all /\ left' = left - 1 /\ UNCHANGED msgType
  BY <1>4, ReadAmountSteps
<1>8. /\ all \in Seq(Item) /\ Len(all) = k /\ all[k] = <<items[k][1], m.items[k][2]>>
      /\ \A i \in 1 .. k - 1 : all[i] = items[i]
  <2>1. FilledIn(all, items, m.items[k][2])
    BY <1>6, <1>7
  <2>2. /\ all \in Seq(Item) /\ Len(all) = Len(items)
        /\ all[Len(items)] = <<items[Len(items)][1], m.items[k][2]>>
        /\ \A i \in 1 .. Len(items) - 1 : all[i] = items[i]
    BY <1>2, <2>1, AmountFilledIn
  <2> QED
    BY <1>1, <2>2
<1>9. \A i \in 1 .. k : all[i] = <<Utf8(m.items[i][1]), m.items[i][2]>> /\ Excess(m.items[i][1]) = 0
  <2>1. /\ items[k][1] = Utf8(m.items[k][1]) /\ Excess(m.items[k][1]) = 0
    BY <1>1 DEF AtAmount
  <2>2. \A i \in 1 .. k - 1 : /\ Excess(m.items[i][1]) = 0
                              /\ items[i] = <<Utf8(m.items[i][1]), m.items[i][2]>>
    BY <1>1 DEF AtRecord
  <2>3. \A i \in 1 .. k : i \in 1 .. k - 1 \/ i = k
    BY <1>2
  <2> QED
    BY <1>8, <2>1, <2>2, <2>3
<1>10. msgType = m.type /\ m.type # END_OF_RECORDS /\ left = Len(m.items) - k + 1
  BY <1>1 DEF AtRecord
<1>11. CASE left = 1
  <2>1. k = Len(m.items)
    BY <1>2, <1>10, <1>11
  <2>2. DOMAIN m.items = 1 .. k
    BY <1>2, <2>1, MessageTypes
  <2>3. all = [i \in 1 .. k |-> <<Utf8(m.items[i][1]), m.items[i][2]>>]
    <3>1. all = [i \in 1 .. k |-> all[i]]
      BY <1>8
    <3> QED
      BY <1>9, <3>1
  <2>4. AsRead(m) = Message(m.type, all)
    BY <2>2, <2>3 DEF AsRead
  <2>5. wire = <<>>
    BY <1>2, <1>3, <1>6, <2>1, RecordsFromEnd
  <2> QED
    BY <1>7, <1>9, <1>10, <1>11, <2>1, <2>4, <2>5 DEF Arrives
<1>12. CASE left # 1
  <2>1. /\ Went("size", UINT32_SIZE) /\ items' = all /\ left' = left - 1 /\ UNCHANGED msgType
    BY <1>7, <1>12
  <2>2. k + 1 \in 1 .. Len(m.items) /\ left' = Len(m.items) - (k + 1) + 1 /\ (k + 1) - 1 = k
    BY <1>2, <1>10, <1>12, <2>1
  <2>3. AtRecord(m, k + 1)'
    BY <1>9, <1>10, <2>1, <2>2 DEF AtRecord
  <2>4. Len(items') + 1 = k + 1
    BY <1>8, <2>1
  <2>5. Ahead' = RecordsFrom(m, k + 1)
    BY <1>3, <1>4, <1>6, <2>1, AheadIsWire DEF Went
  <2>6. AtSize(m)'
    BY <2>1, <2>3, <2>4, <2>5 DEF AtSize, Went
  <2> QED
    BY <2>1, <2>6 DEF Reading, GoesOn, Went
<1> QED
  BY <1>11, <1>12

-----------------------------------------------------------------------------
(* What is received is what was sent.                                            *)

LEMMA ReceivedStays ==
    ASSUME TypeOK, ReceivedIsSent, received' = received, script' = script,
           next' \in Nat, next' >= next
    PROVE  ReceivedIsSent'
<1>1. FirstWide' = FirstWide
  BY DEF FirstWide, Wide
<1>2. next \in Nat /\ \A i \in DOMAIN received : i \in Nat
  <2>1. received \in Seq(Result) /\ next \in Nat
    BY BasicTypes
  <2> QED
    BY <2>1
<1>3. ASSUME NEW i \in DOMAIN received, \A j \in FirstWide : i < j
      PROVE  i <= next' /\ received[i] = AsRead(script[i])
  <2>1. i <= next /\ received[i] = AsRead(script[i])
    BY <1>3 DEF ReceivedIsSent
  <2> QED
    BY <1>2, <2>1
<1> QED
  BY <1>1, <1>3 DEF ReceivedIsSent, AsRead

\* One more message is as it was sent, or comes after a wide name.
LEMMA ReceivedGrows ==
    ASSUME TypeOK, ReceivedIsSent, NEW m, received' = Append(received, m), UNCHANGED <<script, next>>,
           (\A j \in FirstWide : Len(received) + 1 < j)
              => Len(received) + 1 <= next /\ m = AsRead(script[Len(received) + 1])
    PROVE  ReceivedIsSent'
<1>1. FirstWide' = FirstWide
  BY DEF FirstWide, Wide
<1>2. /\ Len(received) \in Nat /\ DOMAIN received = 1 .. Len(received)
      /\ DOMAIN received' = 1 .. Len(received) + 1
      /\ received'[Len(received) + 1] = m
      /\ \A i \in 1 .. Len(received) : received'[i] = received[i]
  BY AppendProperties DEF TypeOK
<1>3. ASSUME NEW i \in DOMAIN received', \A j \in FirstWide : i < j
      PROVE  i <= next /\ received'[i] = AsRead(script[i])
  <2>1. CASE i = Len(received) + 1
    BY <1>2, <1>3, <2>1
  <2>2. CASE i # Len(received) + 1
    <3>1. i \in DOMAIN received /\ received'[i] = received[i]
      BY <1>2, <2>2
    <3> QED
      BY <1>3, <3>1 DEF ReceivedIsSent
  <2> QED
    BY <2>1, <2>2
<1> QED
  BY <1>1, <1>3 DEF ReceivedIsSent, AsRead

-----------------------------------------------------------------------------
(* The steps as long as both ends agree.                                         *)

LEMMA AtHold ==
    ASSUME NEW m, Reading(m), Ahead' = Ahead, UNCHANGED <<field, size, msgType, left, items>>
    PROVE  Reading(m)'
BY DEF Reading, AtType, AtCount, AtSize, AtName, AtAmount, AtRecord

LEMMA FirstSends ==
    ASSUME TypeOK, Ends, Sending, Send
    PROVE  InTransit' \/ GivenUp'
<1>1. /\ script \in Scripts /\ next \in 1 .. Len(script) + 1 /\ next <= Len(script)
      /\ buf = <<>> /\ wire = <<>> /\ field = "type" /\ size = UINT32_SIZE
  BY DEF TypeOK, Ends, Sending, Boundary
<1>2. script[next] \in Messages
  <2>1. next \in 1 .. Len(script)
    BY <1>1
  <2> QED
    BY <1>1, <2>1, ScriptTypes
<1>3. /\ UNCHANGED <<script, next, acks, receiver, field, size, buf, msgType, left, items, received>>
      /\ wire' = wire \o Written(script[next])
      /\ Serializable(script[next]) => sender' = "wait"
      /\ ~Serializable(script[next]) => sender' = "failed"
  BY DEF Send, readVars
<1>4. Plain(next - 1)'
  BY <1>3 DEF Sending, Plain
<1>5. CASE Serializable(script[next])
  <2>1. Serialized(script[next]) \in Seq(Bytes)
    BY <1>2, <1>5, SerializedIs
  <2>2. wire' = Serialized(script[next])
    BY <1>1, <1>3, <1>5, <2>1, ConcatEmptySeq DEF Written
  <2>3. Ahead' = Serialized(script[next])
    BY <1>1, <1>3, <2>1, <2>2, ConcatEmptySeq DEF Ahead
  <2>4. PICK m : m = script[next] /\ m = script'[next']
    BY <1>3
  <2>5. AtType(m)'
    BY <1>1, <1>3, <2>3, <2>4 DEF AtType
  <2>6. Serializable(script[next])' /\ Reading(script[next])'
    BY <1>5, <2>4, <2>5 DEF Reading, AtType
  <2>7. InTransit'
    BY <1>3, <1>4, <1>5, <2>6 DEF InTransit, Sending
  <2> QED
    BY <2>7
<1>6. CASE ~Serializable(script[next])
  <2>1. wire' = <<>>
    BY <1>1, <1>3, <1>6, ConcatEmptySeq DEF Written
  <2>2. Boundary'
    BY <1>1, <1>3, <2>1 DEF Boundary
  <2>3. GivenUp'
    BY <1>3, <1>4, <1>6, <2>2 DEF GivenUp, Sending
  <2> QED
    BY <2>3
<1> QED
  BY <1>5, <1>6

LEMMA ArrivesWhole ==
    ASSUME TypeOK, Ends, InTransit, NEW m, Current(m), Arrives(m),
           UNCHANGED <<script, next, sender, wire, closed>>
    PROVE  Acknowledging'
<1>1. /\ Returned(AsRead(m)) /\ wire = <<>> /\ m \in Messages /\ next \in 1 .. Len(script)
      /\ m = script[next] /\ AsRead(m).type = m.type
  BY DEF Arrives, Current, AsRead, Message
<1>2. IsTop' = IsTop
  BY DEF IsTop
<1>3. Len(script) \in Nat /\ received \in Seq(Result) /\ Len(received) = next - 1
  BY ScriptTypes DEF TypeOK, InTransit, Result, Item
<1>4. Len(received') = next
  BY <1>1, <1>3, AppendProperties DEF Returned
<1>5. ~Wide(m)
  BY <1>1, WideIs DEF Arrives
<1>6. Plain(next)'
  <2>1. \A i \in 1 .. next : i \in 1 .. next - 1 \/ i = next
    BY <1>1, <1>3
  <2>2. \A i \in 1 .. next : ~Wide(script[i])
    BY <1>1, <1>5, <2>1 DEF InTransit, Plain
  <2> QED
    BY <2>2 DEF Plain
<1>7. Boundary'
  BY <1>1 DEF Boundary, Returned
<1>8. /\ IsTop \/ m.type \in {FRUIT_RECORD, END_OF_RECORDS}
      /\ (IsTop \/ m.type = END_OF_RECORDS) <=> (next = Len(script))
  <2>1. CASE IsTop
    <3>1. Len(script) = 1
      BY <2>1 DEF Current
    <3>2. next = Len(script)
      BY <1>1, <3>1
    <3> QED
      BY <2>1, <3>2
  <2>2. CASE ~IsTop /\ next = Len(script)
    BY <2>2 DEF Current
  <2>3. CASE ~IsTop /\ next # Len(script)
    BY <2>3 DEF Current, FRUIT_RECORD, END_OF_RECORDS
  <2> QED
    BY <2>1, <2>2, <2>3
<1>9. acks' = 1 /\ receiver' = IF next = Len(script) THEN "done" ELSE "reading"
  <2>1. acks = 0
    BY DEF InTransit
  <2> QED
    BY <1>1, <1>8, <2>1 DEF Returned
<1> QED
  BY <1>4, <1>6, <1>7, <1>9 DEF Acknowledging, InTransit

LEMMA SlipsAway ==
    ASSUME TypeOK, Ends, InTransit, NEW m, Current(m), Slips(m),
           UNCHANGED <<script, next, sender, wire, closed>>
    PROVE  /\ next \in FirstWide
           /\ Garbled(next)' /\ received' = received
<1>1. /\ script \in Scripts /\ next \in 1 .. Len(script) /\ m = script[next] /\ m = script'[next']
      /\ Plain(next - 1) /\ Wide(m) /\ Len(received) = next - 1 /\ acks = 0 /\ sender = "wait"
      /\ receiver = "reading"
  BY DEF TypeOK, Current, InTransit, Slips
<1>2. next \in FirstWide
  BY <1>1, FirstWideIs
<1>3. UNCHANGED <<acks, received>>
  BY DEF Slips
<1>4. next \in Nat /\ IsTop' = IsTop
  BY <1>1 DEF IsTop
<1>5. FewBytesMore(m) => Lost(next)' \/ Misread(next)'
  <2>1. CASE receiver' = "failed"
    BY <1>1, <1>3, <2>1 DEF Lost
  <2>2. CASE /\ UNCHANGED receiver
             /\ msgType' = m.type /\ field' = "amount" /\ size' = UINT32_SIZE
             /\ \E k \in 1 .. Len(items') : TooShort(m, k)'
             /\ ~IsTop => /\ left' = 1
                          /\ Len(Ahead') \in UINT32_SIZE + 1 .. 2 * UINT32_SIZE - 1
    <3>1. \E k \in 1 .. Len(items') : TooShort(script[next], k)'
      BY <1>1, <2>2 DEF TooShort
    <3> QED
      BY <1>1, <1>3, <1>4, <2>2, <3>1 DEF Misread
  <2> QED
    BY <2>1, <2>2 DEF Slips
<1>6. FewBytesMore(script[next])' <=> FewBytesMore(m)
  BY <1>1 DEF FewBytesMore
<1>7. Garbled(next)'
  BY <1>1, <1>3, <1>4, <1>5, <1>6 DEF Garbled
<1> QED
  BY <1>2, <1>3, <1>7

LEMMA InTransitParses ==
    ASSUME TypeOK, Ends, InTransit, Parse
    PROVE  \/ InTransit' /\ received' = received
           \/ Acknowledging' /\ received' = Append(received, AsRead(script[next]))
           \/ next \in FirstWide /\ Garbled(next)' /\ received' = received
<1>1. PICK m : m = script[next]
  OBVIOUS
<1>2. Current(m)
  BY <1>1, InTransitMessage
<1>3. UNCHANGED <<script, next, sender, wire, closed>>
  BY ParseLeaves
<1>4. Reading(m)
  BY <1>1 DEF InTransit
<1>5. Arrives(m) \/ (Reading(m)' /\ GoesOn) \/ Slips(m)
  <2>1. CASE AtType(m)
    BY <1>2, <2>1, AtTypeParses
  <2>2. CASE AtCount(m)
    BY <1>2, <2>2, AtCountParses
  <2>3. CASE AtSize(m)
    BY <1>2, <2>3, AtSizeParses
  <2>4. CASE AtName(m)
    BY <1>2, <2>4, AtNameParses
  <2>5. CASE AtAmount(m)
    BY <1>2, <2>5, AtAmountParses
  <2> QED
    BY <1>4, <2>1, <2>2, <2>3, <2>4, <2>5 DEF Reading
<1>6. CASE Arrives(m)
  <2>1. Acknowledging'
    BY <1>2, <1>3, <1>6, ArrivesWhole
  <2>2. received' = Append(received, AsRead(script[next]))
    BY <1>1, <1>6 DEF Arrives, Returned
  <2> QED
    BY <2>1, <2>2
<1>7. CASE Reading(m)' /\ GoesOn
  <2>1. UNCHANGED <<acks, receiver, received>> /\ m = script'[next']
    BY <1>1, <1>3, <1>7 DEF GoesOn
  <2>2. Reading(script[next])'
    BY <1>7, <2>1
  <2>3. Serializable(script[next])'
    BY <1>1, <1>2, <2>1 DEF Current
  <2>4. Plain(next - 1)'
    BY <1>3 DEF InTransit, Plain
  <2>5. InTransit'
    BY <1>3, <2>1, <2>2, <2>3, <2>4 DEF InTransit
  <2> QED
    BY <2>1, <2>5
<1>8. CASE Slips(m)
  BY <1>2, <1>3, <1>8, SlipsAway
<1> QED
  BY <1>5, <1>6, <1>7, <1>8

\* With nothing in the buffer and nothing on the wire, only an end of the stream can be read.
LEMMA BoundaryIsQuiet ==
    ASSUME TypeOK, Boundary
    PROVE  ~ReceiveBytes /\ ~Parse
<1>1. Len(wire) = 0 /\ Len(buf) = 0 /\ size > 0
  BY ConstantTypes DEF Boundary
<1> QED
  BY <1>1 DEF ReceiveBytes, Parse, Complete

LEMMA AcknowledgingSteps ==
    ASSUME TypeOK, Ends, Acknowledging, ReceiveAck
    PROVE  (Sending' \/ AllDone') /\ received' = received
<1>1. /\ UNCHANGED <<script, wire, closed, receiver, field, size, buf, msgType, left, items, received>>
      /\ acks' = acks - 1 /\ next' = next + 1
      /\ sender' = IF next = Len(script) THEN "done" ELSE "send"
  BY DEF ReceiveAck, readVars
<1>2. next \in Nat /\ acks = 1 /\ Len(received) = next /\ Plain(next) /\ Boundary
  BY BasicTypes DEF Acknowledging
<1>3. Boundary' /\ acks' = 0 /\ next' - 1 = next
  BY <1>1, <1>2 DEF Boundary
<1>5. CASE next = Len(script)
  <2>1. Plain(Len(script))'
    BY <1>1, <1>2, <1>5 DEF Plain
  <2>2. AllDone'
    BY <1>1, <1>2, <1>3, <1>5, <2>1 DEF AllDone, Acknowledging
  <2> QED
    BY <1>1, <2>2
<1>6. CASE next # Len(script)
  <2>1. Plain(next - 1)'
    BY <1>1, <1>2, <1>3 DEF Plain
  <2>2. Sending'
    BY <1>1, <1>2, <1>3, <1>6, <2>1 DEF Sending, Acknowledging
  <2> QED
    BY <1>1, <2>2
<1> QED
  BY <1>5, <1>6

LEMMA GivenUpSteps ==
    ASSUME TypeOK, Ends, GivenUp, EndOfStream
    PROVE  GivenUp' /\ received' = received
<1>1. /\ receiver' = "failed"
      /\ UNCHANGED <<script, next, sender, wire, acks, closed, field, size, buf, received>>
  BY DEF EndOfStream, senderVars, readVars
<1>2. Boundary' /\ Plain(next - 1)'
  BY <1>1 DEF GivenUp, Boundary, Plain
<1> QED
  BY <1>1, <1>2 DEF GivenUp

-----------------------------------------------------------------------------
(* The steps from the first wide name on.                                        *)

\* A script is not changed, and messages are neither taken back nor sent again.
LEMMA OnlyForward ==
    ASSUME TypeOK, Ends, [Next]_vars
    PROVE  /\ script' = script /\ FirstWide' = FirstWide /\ next' \in Nat /\ next' >= next
           /\ received' = received \/ \E m : received' = Append(received, m) /\ next' = next
           /\ Len(received') >= Len(received)
<1>1. next \in Nat /\ received \in Seq(Result) /\ Len(received) \in Nat
  BY BasicTypes
<1>2. script' = script /\ next' \in {next, next + 1}
      /\ (received' = received \/ (next' = next /\ \E m : received' = Append(received, m)))
  <2>1. CASE Send
    BY <2>1 DEF Send
  <2>2. CASE ReceiveAck
    BY <2>2 DEF ReceiveAck
  <2>3. CASE ReceiveBytes
    BY <2>3 DEF ReceiveBytes, senderVars
  <2>4. CASE EndOfStream
    BY <2>4 DEF EndOfStream, senderVars
  <2>5. CASE Parse
    <3>1. UNCHANGED <<script, next>> /\ (ReadType \/ ReadCount \/ ReadSize \/ ReadName \/ ReadAmount)
      BY <2>5, ParseLeaves
    <3>2. received' = received \/ \E m : received' = Append(received, m)
      <4>1. CASE ReadType
        BY <4>1, ReadTypeSteps DEF Failed, Went, Returned
      <4>2. CASE ReadCount
        BY <4>2, ReadCountSteps DEF Went, Returned
      <4>3. CASE ReadSize
        BY <4>3, ReadSizeSteps DEF Went
      <4>4. CASE ReadName
        BY <4>4, ReadNameSteps DEF Failed, Went
      <4>5. CASE ReadAmount
        BY <4>5, ReadAmountSteps DEF Went, Returned
      <4> QED
        BY <3>1, <4>1, <4>2, <4>3, <4>4, <4>5
    <3> QED
      BY <3>1, <3>2
  <2>6. CASE UNCHANGED vars
    BY <2>6 DEF vars, senderVars
  <2> QED
    BY <2>1, <2>2, <2>3, <2>4, <2>5, <2>6 DEF Next
<1>3. FirstWide' = FirstWide
  BY <1>2 DEF FirstWide, Wide
<1>4. Len(received') >= Len(received)
  <2>1. CASE received' = received
    BY <1>1, <2>1
  <2>2. CASE \E m : received' = Append(received, m)
    <3>1. PICK m : received' = Append(received, m)
      BY <2>2
    <3>2. Len(received') = Len(received) + 1
      BY <1>1, <3>1, AppendProperties DEF TypeOK
    <3> QED
      BY <1>1, <3>2
  <2> QED
    BY <1>2, <2>1, <2>2
<1> QED
  BY <1>1, <1>2, <1>3, <1>4

\* Who has failed, or is done, receives nothing any more.
LEMMA NotReading ==
    ASSUME TypeOK, Ends, [Next]_vars, receiver # "reading"
    PROVE  UNCHANGED <<script, receiver, received>>
<1>1. ~ReceiveBytes /\ ~EndOfStream /\ ~Parse
  BY DEF ReceiveBytes, EndOfStream, Parse
<1> QED
  BY <1>1 DEF Next, Send, ReceiveAck, vars, senderVars, readVars

LEMMA LostStays ==
    ASSUME TypeOK, Ends, [Next]_vars, NEW j, Lost(j)
    PROVE  Lost(j)'
BY NotReading DEF Lost

LEMMA TakenForGood ==
    ASSUME TypeOK, Ends, [Next]_vars, NEW j, Taken(j), receiver # "reading"
    PROVE  Taken(j)'
BY NotReading DEF Taken, AsRead

\* A name that is too short stays too short.
LEMMA MisreadReceives ==
    ASSUME TypeOK, Ends, NEW j, Misread(j), ReceiveBytes
    PROVE  Misread(j)'
<1>1. /\ Ahead' = Ahead
      /\ UNCHANGED <<senderVars, acks, receiver, field, size, msgType, left, items, received>>
  BY ReceiveBytesTypes
<1>2. UNCHANGED <<script, next, sender>>
  BY <1>1 DEF senderVars
<1>3. \E k \in 1 .. Len(items') : TooShort(script[j], k)'
  BY <1>1, <1>2 DEF Misread, TooShort
<1> QED
  BY <1>1, <1>2, <1>3 DEF Misread, IsTop

LEMMA MisreadParses ==
    ASSUME TypeOK, Ends, NEW j \in FirstWide, Misread(j), FewBytesMore(script[j]), Parse
    PROVE  Lost(j)' \/ Misread(j)' \/ Taken(j)'
<1>1. /\ receiver = "reading" /\ Len(buf) = size
      /\ UNCHANGED <<script, next, sender, wire, closed>>
      /\ ReadType \/ ReadCount \/ ReadSize \/ ReadName \/ ReadAmount
  BY ParseLeaves
<1>2. PICK k \in 1 .. Len(items) : TooShort(script[j], k)
  BY DEF Misread
<1>3. PICK m : m = script[j] /\ m = script'[j]
  BY <1>1
<1>4. /\ sender = "wait" /\ next = j /\ acks = 0 /\ Len(received) = j - 1 /\ msgType = m.type
      /\ field \in {"size", "name", "amount"}
      /\ ~IsTop => /\ left = 1 /\ field = "amount" /\ size = UINT32_SIZE
                   /\ Len(Ahead) \in UINT32_SIZE + 1 .. 2 * UINT32_SIZE - 1
  BY <1>3 DEF Misread
<1>5. /\ items \in Seq(Item) /\ Len(items) \in Nat /\ received \in Seq(Result)
      /\ Len(received) \in Nat /\ buf \in Seq(Bytes) /\ wire \in Seq(Bytes)
      /\ FromUint32(buf) \in Nat /\ script \in Scripts /\ Len(script) \in Nat
  BY BasicTypes, FromUint32Type
<1>6. j \in 1 .. Len(script) /\ Wide(script[j]) /\ m \in Messages /\ DOMAIN m.items = 1 .. Len(m.items)
  <2>1. j \in 1 .. Len(script) /\ Wide(script[j])
    BY <1>5, FirstWideIs
  <2>2. m \in Messages
    BY <1>3, <1>5, <2>1, ScriptTypes
  <2> QED
    BY <2>1, <2>2, MessageTypes
<1>7. k \in 1 .. Len(m.items) /\ items[k][1] # Utf8(m.items[k][1])
  BY <1>2, <1>3 DEF TooShort
<1>8. IsTop' = IsTop
  BY <1>1 DEF IsTop
<1>9. CASE ReadSize
  <2>1. field = "size" /\ Went("name", FromUint32(buf)) /\ UNCHANGED <<msgType, left, items>>
    BY <1>9, ReadSizeSteps
  <2>2. TooShort(script[j], k)'
    BY <1>2, <1>1, <2>1 DEF TooShort
  <2>3. Misread(j)'
    BY <1>1, <1>2, <1>3, <1>4, <1>8, <2>1, <2>2 DEF Misread, Went
  <2> QED
    BY <2>3
<1>10. CASE ReadName
  <2>1. CASE Failed
    BY <1>4, <2>1 DEF Lost, Failed
  <2>2. CASE /\ Went("amount", UINT32_SIZE)
             /\ items' = Append(items, <<buf, 0>>) /\ UNCHANGED <<msgType, left>>
    <3>1. IsTop
      BY <1>4, <1>10, ReadNameSteps
    <3>2. Len(items') = Len(items) + 1 /\ items'[k] = items[k]
      BY <1>2, <1>5, <2>2, AppendProperties
    <3>3. k \in 1 .. Len(items')
      BY <1>2, <1>5, <3>2
    <3>4. TooShort(script[j], k)'
      BY <1>3, <1>7, <3>2, <3>3 DEF TooShort
    <3>5. Misread(j)'
      BY <1>1, <1>3, <1>4, <1>8, <2>2, <3>1, <3>3, <3>4 DEF Misread, Went
    <3> QED
      BY <3>5
  <2> QED
    BY <1>10, <2>1, <2>2, ReadNameSteps
<1>11. CASE ReadAmount
  <2>1. PICK all :
             /\ FilledIn(all, items, FromUint32(buf))
             /\ field = "amount"
             /\ left = 1 => Returned(Message(msgType, all))
             /\ left # 1 => /\ Went("size", UINT32_SIZE)
                            /\ items' = all /\ left' = left - 1 /\ UNCHANGED msgType
    BY <1>11, ReadAmountSteps
  <2>2. items # <<>>
    BY <2>1 DEF Ends
  <2>3. /\ Len(all) = Len(items) /\ all[Len(items)][1] = items[Len(items)][1]
        /\ \A i \in 1 .. Len(items) - 1 : all[i] = items[i]
    <3>1. PICK n \in Nat : FilledIn(all, items, n)
      BY <1>5, <2>1
    <3>2. PICK s \in Seq(Item) : s = items
      BY <1>5
    <3>3. s # <<>> /\ FilledIn(all, s, n)
      BY <2>2, <3>1, <3>2
    <3>4. /\ Len(all) = Len(s) /\ all[Len(s)][1] = s[Len(s)][1]
          /\ \A i \in 1 .. Len(s) - 1 : all[i] = s[i]
      BY <3>3, AmountFilledIn
    <3> QED
      BY <3>2, <3>4
  <2>4. all[k][1] = items[k][1]
    <3>1. k = Len(items) \/ k \in 1 .. Len(items) - 1
      BY <1>2, <1>5
    <3> QED
      BY <2>3, <3>1
  <2>5. CASE left # 1
    <3>1. /\ Went("size", UINT32_SIZE) /\ items' = all /\ UNCHANGED msgType /\ IsTop
      BY <1>4, <2>1, <2>5
    <3>2. k \in 1 .. Len(items')
      BY <1>2, <2>3, <3>1
    <3>3. TooShort(script[j], k)'
      BY <1>3, <1>7, <2>4, <3>1, <3>2 DEF TooShort
    <3>4. Misread(j)'
      BY <1>1, <1>3, <1>4, <1>8, <3>1, <3>2, <3>3 DEF Misread, Went
    <3> QED
      BY <3>4
  <2>6. CASE left = 1
    <3>1. Returned(Message(m.type, all))
      BY <1>4, <2>1, <2>6
    <3>2. received' = Append(received, Message(m.type, all)) /\ Len(received') = j /\ received'[j] = Message(m.type, all)
      <4>1. received' = Append(received, Message(m.type, all))
        BY <3>1 DEF Returned
      <4>2. Len(received) + 1 = j
        BY <1>4, <1>5, <1>6
      <4>3. Len(received') = Len(received) + 1 /\ received'[Len(received) + 1] = Message(m.type, all)
        BY <1>5, <4>1
      <4> QED
        BY <4>1, <4>2, <4>3
    <3>3. received'[j].type = m.type /\ received'[j].items = all
      BY <3>2 DEF Message
    <3>4. AsRead(m).items[k][1] = Utf8(m.items[k][1])
      BY <1>6, <1>7 DEF AsRead, Message
    <3>5. received'[j] # AsRead(m)
      BY <1>7, <2>4, <3>3, <3>4
    <3>6. CASE IsTop
      <4>1. receiver' = "done"
        BY <3>1, <3>6 DEF Returned
      <4>2. Taken(j)'
        BY <1>3, <3>2, <3>3, <3>5, <4>1 DEF Taken, AsRead
      <4> QED
        BY <4>2
    <3>7. CASE ~IsTop
      <4>1. m.type = FRUIT_RECORD
        <5>1. m.items # <<>>
          BY <1>7
        <5>2. j # Len(script)
          BY <1>3, <1>5, <1>6, <3>7, <5>1, ScriptTypes
        <5> QED
          BY <1>3, <1>5, <1>6, <3>7, <5>2, ScriptTypes
      <4>2. acks' = 1 /\ field' = "type" /\ size' = UINT32_SIZE /\ buf' = <<>>
        BY <1>4, <3>1, <4>1 DEF Returned, Message
      <4>3. Ahead' = wire
        BY <1>1, <4>2, AheadIsWire
      <4>4. Len(Ahead) = Len(buf) + Len(wire)
        BY <1>5, ConcatProperties DEF Ahead
      <4>5. Len(wire) \in 1 .. UINT32_SIZE - 1
        BY <1>1, <1>4, <1>5, <3>7, <4>4, ConstantTypes
      <4>6. Leftover'
        BY <4>3, <4>5 DEF Leftover
      <4>7. Taken(j)'
        BY <1>1, <1>3, <1>4, <1>8, <3>2, <3>3, <3>5, <3>7, <4>2, <4>6 DEF Taken, AsRead
      <4> QED
        BY <4>7
    <3> QED
      BY <3>6, <3>7
  <2> QED
    BY <2>5, <2>6
<1> QED
  BY <1>1, <1>4, <1>9, <1>10, <1>11 DEF ReadType, ReadCount

\* What is left of the wide name is too little for a type, ...
LEMMA TakenReceives ==
    ASSUME TypeOK, Ends, NEW j, Taken(j), receiver = "reading", ReceiveBytes
    PROVE  Taken(j)'
<1>1. /\ Ahead' = Ahead
      /\ UNCHANGED <<senderVars, acks, receiver, field, size, received>>
  BY ReceiveBytesTypes
<1>2. UNCHANGED <<script, next, sender>>
  BY <1>1 DEF senderVars
<1>3. (Leftover' <=> Leftover) /\ AsRead(script[j])' = AsRead(script[j])
  BY <1>1, <1>2 DEF Leftover, AsRead
<1> QED
  BY <1>1, <1>2, <1>3 DEF Taken, IsTop

\* ... and then it is the end of one, ...
LEMMA TakenSends ==
    ASSUME TypeOK, Ends, NEW j \in FirstWide, Taken(j), receiver = "reading", Send
    PROVE  Taken(j)'
<1>1. /\ ~IsTop /\ field = "type" /\ size = UINT32_SIZE
      /\ next = j + 1 /\ sender = "send" /\ acks = 0 /\ Leftover
      /\ received[j] # AsRead(script[j]) /\ Len(received) = j /\ received[j].type = script[j].type
  BY DEF Taken, Send
<1>2. /\ UNCHANGED <<script, next, acks, receiver, field, size, buf, received>>
      /\ wire' = wire \o Written(script[next])
      /\ Serializable(script[next]) => sender' = "wait"
      /\ ~Serializable(script[next]) => sender' = "failed"
  BY DEF Send, readVars
<1>3. /\ script \in Scripts /\ buf \in Seq(Bytes) /\ wire \in Seq(Bytes) /\ next \in Nat /\ next > 0
      /\ Len(script) \in Nat /\ next <= Len(script)
  BY <1>1, BasicTypes DEF Ends
<1>4. PICK m \in Messages : m = script[next]
  <2>1. next \in 1 .. Len(script)
    BY <1>3
  <2> QED
    BY <1>3, <2>1, ScriptTypes
<1>5. PICK a \in Seq(Bytes) : a = buf \o wire /\ Len(a) \in 1 .. UINT32_SIZE - 1
  BY <1>1, <1>3, ConcatProperties DEF Leftover, Ahead
<1>6. AsRead(script[j])' = AsRead(script[j]) /\ IsTop' = IsTop
  BY <1>2 DEF AsRead, IsTop
<1>7. CASE Serializable(m)
  <2>1. PICK b \in Seq(Bytes) : b = Serialized(m)
    BY <1>7, SerializedIs
  <2>2. /\ Len(b) >= UINT32_SIZE
        /\ \A i \in 1 .. UINT32_SIZE - 1 : b[i] = 0
    <3>1. PICK x \in Seq(Bytes) : x = Uint32(m.type) /\ Len(x) = UINT32_SIZE
      BY <1>7, SerializedIs
    <3>2. \E y \in Seq(Bytes) : b = x \o y
      BY <1>7, <2>1, <3>1, SerializedIs, ConcatProperties
    <3>3. PICK y \in Seq(Bytes) : b = x \o y
      BY <3>2
    <3>4. Len(b) = Len(x) + Len(y) /\ \A i \in 1 .. Len(x) : b[i] = x[i]
      BY <3>3, ConcatProperties
    <3>5. \A i \in 1 .. UINT32_SIZE - 1 : x[i] = 0
      BY <3>1, MessageTypes, OneByte
    <3>6. \A i \in 1 .. UINT32_SIZE - 1 : i \in 1 .. Len(x)
      BY <3>1, ConstantTypes
    <3> QED
      BY <3>1, <3>4, <3>5, <3>6, ConstantTypes
  <2>3. Ahead' = a \o b
    <3>1. wire' = wire \o b /\ buf' = buf
      BY <1>2, <1>4, <1>7, <2>1 DEF Written
    <3>2. buf \o (wire \o b) = (buf \o wire) \o b
      <4>1. PICK u \in Seq(Bytes), v \in Seq(Bytes) : u = buf /\ v = wire
        BY <1>3
      <4>2. u \o (v \o b) = (u \o v) \o b
        BY ConcatAssociative, SMTT(60)
      <4> QED
        BY <4>1, <4>2
    <3> QED
      BY <1>5, <3>1, <3>2 DEF Ahead
  <2>4. Len(a \o b) = Len(a) + Len(b) /\ (a \o b)[UINT32_SIZE] = b[UINT32_SIZE - Len(a)]
    <3>1. UINT32_SIZE \in 1 .. Len(a) + Len(b) /\ ~(UINT32_SIZE <= Len(a))
      BY <1>5, <2>2, ConstantTypes
    <3>2. /\ Len(a \o b) = Len(a) + Len(b)
          /\ \A i \in 1 .. Len(a) + Len(b) : (a \o b)[i] = IF i <= Len(a) THEN a[i] ELSE b[i - Len(a)]
      BY ConcatProperties
    <3> QED
      BY <3>1, <3>2
  <2>5. UINT32_SIZE - Len(a) \in 1 .. UINT32_SIZE - 1
    BY <1>5, ConstantTypes
  <2>6. Len(Ahead') >= UINT32_SIZE /\ Ahead'[UINT32_SIZE] = 0
    BY <1>5, <2>2, <2>3, <2>4, <2>5, ConstantTypes
  <2>7. sender' = "wait"
    BY <1>2, <1>4, <1>7
  <2> QED
    BY <1>1, <1>2, <1>6, <2>6, <2>7 DEF Taken
<1>8. CASE ~Serializable(m)
  <2>1. wire' = wire
    BY <1>2, <1>3, <1>4, <1>8, ConcatEmptySeq DEF Written
  <2>2. Leftover'
    BY <1>1, <1>2, <2>1 DEF Leftover, Ahead
  <2>3. sender' = "failed"
    BY <1>2, <1>4, <1>8
  <2> QED
    BY <1>1, <1>2, <1>6, <2>2, <2>3 DEF Taken
<1> QED
  BY <1>7, <1>8

LEMMA TakenAcknowledged ==
    ASSUME TypeOK, Ends, NEW j \in FirstWide, Taken(j), receiver = "reading", ReceiveAck
    PROVE  Taken(j)'
<1>1. /\ ~IsTop /\ field = "type" /\ size = UINT32_SIZE
      /\ next = j /\ sender = "wait" /\ acks = 1 /\ Leftover
      /\ received[j] # AsRead(script[j]) /\ Len(received) = j /\ received[j].type = script[j].type
  BY DEF Taken, ReceiveAck
<1>2. /\ UNCHANGED <<script, wire, receiver, field, size, buf, received>>
      /\ acks' = acks - 1 /\ next' = next + 1
      /\ sender' = IF next = Len(script) THEN "done" ELSE "send"
  BY DEF ReceiveAck, readVars
<1>3. j # Len(script)
  <2>1. script \in Scripts /\ j \in 1 .. Len(script) /\ Wide(script[j])
    BY BasicTypes, FirstWideIs
  <2>2. script[j].items # <<>>
    BY <2>1 DEF Wide
  <2> QED
    BY <1>1, <2>1, <2>2, ScriptTypes
<1>4. AsRead(script[j])' = AsRead(script[j]) /\ IsTop' = IsTop /\ (Leftover' <=> Leftover)
  BY <1>2 DEF AsRead, IsTop, Leftover, Ahead
<1>5. next' = j + 1 /\ sender' = "send" /\ acks' = 0
  BY <1>1, <1>2, <1>3
<1> QED
  BY <1>1, <1>2, <1>4, <1>5 DEF Taken

\* ... which is none.
LEMMA TakenParses ==
    ASSUME TypeOK, Ends, NEW j, Taken(j), receiver = "reading", Parse
    PROVE  Taken(j)'
<1>1. /\ Len(buf) = size
      /\ UNCHANGED <<script, next, sender, wire, closed>>
      /\ ReadType \/ ReadCount \/ ReadSize \/ ReadName \/ ReadAmount
  BY ParseLeaves
<1>2. buf \in Seq(Bytes) /\ wire \in Seq(Bytes) /\ Len(buf) \in Nat /\ Len(wire) \in Nat
  BY BasicTypes
<1>3. field = "type" /\ Len(buf) = UINT32_SIZE
  BY <1>1 DEF Taken
<1>4. /\ Len(Ahead) = Len(buf) + Len(wire)
      /\ \A i \in 1 .. Len(buf) : Ahead[i] = buf[i]
  BY <1>2, ConcatProperties DEF Ahead
<1>5. ~Leftover
  BY <1>2, <1>3, <1>4, ConstantTypes DEF Leftover
<1>6. Ahead[UINT32_SIZE] = 0
  BY <1>5 DEF Taken
<1>7. buf[UINT32_SIZE] = 0
  <2>1. UINT32_SIZE \in 1 .. Len(buf)
    BY <1>3, ConstantTypes
  <2> QED
    BY <1>4, <1>6, <2>1
<1>8. FromUint32(buf) \notin MsgTypes
  BY <1>2, <1>3, <1>7, ZeroByteIsNoType
<1>9. ReadType
  BY <1>1, <1>3 DEF ReadCount, ReadSize, ReadName, ReadAmount
<1>10. Failed
  BY <1>8, <1>9, ReadTypeSteps DEF MsgTypes, FRUIT_RECORD, FRUIT_TOP, ACK, END_OF_RECORDS
<1>11. receiver' = "failed" /\ received' = received
  BY <1>10 DEF Failed
<1> QED
  BY <1>1, <1>11 DEF Taken, AsRead

LEMMA TakenEnds ==
    ASSUME TypeOK, Ends, NEW j, Taken(j), EndOfStream
    PROVE  Taken(j)'
<1>1. receiver' = "failed" /\ UNCHANGED <<script, received>>
  BY DEF EndOfStream, senderVars
<1> QED
  BY <1>1 DEF Taken, AsRead

LEMMA GarbledSteps ==
    ASSUME TypeOK, Ends, [Next]_vars, NEW j \in FirstWide, Garbled(j)
    PROVE  Garbled(j)'
<1>1. /\ script' = script /\ next' \in Nat /\ next' >= next /\ Len(received') >= Len(received)
  BY OnlyForward
<1>2. /\ next \in Nat /\ Len(received) \in Nat /\ j \in 1 .. Len(script) /\ Len(script) \in Nat
  BY BasicTypes, FirstWideIs
<1>3. Len(received') \in Nat
  <2>1. TypeOK'
    BY NextTypes
  <2> QED
    BY <2>1 DEF TypeOK
<1>4. j <= next' /\ Len(received') >= j - 1
  BY <1>1, <1>2, <1>3 DEF Garbled
<1>5. FewBytesMore(script[j])' <=> FewBytesMore(script[j])
  BY <1>1 DEF FewBytesMore
<1>6. ASSUME FewBytesMore(script[j]) PROVE Lost(j)' \/ Misread(j)' \/ Taken(j)'
  <2>1. CASE Lost(j)
    BY <2>1, LostStays
  <2>2. CASE Misread(j)
    <3>1. ~Send /\ ~ReceiveAck /\ ~EndOfStream
      BY <1>2, <2>2 DEF Misread, Send, ReceiveAck, EndOfStream, Ends
    <3>2. CASE ReceiveBytes
      BY <2>2, <3>2, MisreadReceives
    <3>3. CASE Parse
      BY <1>6, <2>2, <3>3, MisreadParses
    <3>4. CASE UNCHANGED vars
      BY <2>2, <3>4 DEF vars, senderVars, readVars, Misread, TooShort, Ahead, IsTop
    <3> QED
      BY <3>1, <3>2, <3>3, <3>4 DEF Next
  <2>3. CASE Taken(j) /\ receiver # "reading"
    BY <2>3, TakenForGood
  <2>4. CASE Taken(j) /\ receiver = "reading"
    <3>1. CASE UNCHANGED vars
      BY <2>4, <3>1 DEF vars, senderVars, readVars, Taken, AsRead, Leftover, Ahead, IsTop
    <3> QED
      BY <2>4, <3>1, TakenSends, TakenAcknowledged, TakenReceives, TakenEnds, TakenParses DEF Next
  <2> QED
    BY <1>6, <2>1, <2>2, <2>3, <2>4 DEF Garbled
<1> QED
  BY <1>4, <1>5, <1>6 DEF Garbled

-----------------------------------------------------------------------------
(* The invariant holds.                                                          *)

LEMMA ShapeHolds ==
    ASSUME TypeOK, Ends, ReceivedIsSent, Shape, [Next]_vars
    PROVE  Shape' /\ ReceivedIsSent'
<1>1. /\ script' = script /\ FirstWide' = FirstWide /\ next' \in Nat /\ next' >= next
      /\ received' = received \/ \E m : received' = Append(received, m) /\ next' = next
  BY OnlyForward
<1>2. received' = received => ReceivedIsSent'
  BY <1>1, ReceivedStays
<1>3. next \in Nat /\ Len(received) \in Nat /\ script \in Scripts
  BY BasicTypes
<1>4. CASE \E j \in FirstWide : Garbled(j)
  <2>1. PICK j \in FirstWide : Garbled(j)
    BY <1>4
  <2>2. Shape'
    BY <1>1, <2>1, GarbledSteps DEF Shape
  <2>3. CASE \E m : received' = Append(received, m) /\ next' = next
    <3>1. PICK m : received' = Append(received, m) /\ next' = next
      BY <2>3
    <3>2. ~(Len(received) + 1 < j)
      <4>1. j \in 1 .. Len(script) /\ Len(script) \in Nat
        BY <1>3, FirstWideIs, ScriptTypes
      <4>2. Len(received) >= j - 1
        BY <2>1 DEF Garbled
      <4> QED
        BY <1>3, <4>1, <4>2
    <3> QED
      BY <1>1, <2>1, <2>2, <3>1, <3>2, ReceivedGrows
  <2> QED
    BY <1>1, <1>2, <2>2, <2>3
<1>5. CASE Sending
  <2>1. ~ReceiveAck /\ ~EndOfStream /\ ~ReceiveBytes /\ ~Parse
    BY <1>5, BoundaryIsQuiet DEF Sending, ReceiveAck, EndOfStream, Ends
  <2>2. CASE Send
    <3>1. Shape'
      BY <1>5, <2>2, FirstSends DEF Shape, InStep
    <3> QED
      BY <1>2, <2>2, <3>1 DEF Send
  <2>3. CASE UNCHANGED vars
    <3>1. Sending'
      BY <1>5, <2>3 DEF vars, senderVars, readVars, Sending, Plain, Boundary
    <3> QED
      BY <1>2, <2>3, <3>1 DEF vars, Shape, InStep
  <2> QED
    BY <2>1, <2>2, <2>3 DEF Next
<1>6. CASE InTransit
  <2>1. ~Send /\ ~ReceiveAck /\ ~EndOfStream
    BY <1>6, <1>3 DEF InTransit, Send, ReceiveAck, EndOfStream, Ends
  <2>2. ASSUME Ahead' = Ahead,
               UNCHANGED <<senderVars, acks, receiver, field, size, msgType, left, items, received>>
        PROVE  Shape' /\ ReceivedIsSent'
    <3>1. PICK m : m = script[next] /\ m = script'[next']
      BY <2>2 DEF senderVars
    <3>2. Reading(m)
      BY <1>6, <3>1 DEF InTransit
    <3>3. Reading(m)'
      BY <2>2, <3>2, AtHold
    <3>4. Reading(script[next])' /\ Serializable(script[next])' /\ Plain(next - 1)'
      BY <1>6, <2>2, <3>1, <3>3 DEF InTransit, senderVars, Plain
    <3>5. InTransit'
      BY <1>6, <2>2, <3>4 DEF InTransit, senderVars
    <3> QED
      BY <1>2, <2>2, <3>5 DEF Shape, InStep
  <2>3. CASE ReceiveBytes
    BY <2>2, <2>3, ReceiveBytesTypes
  <2>4. CASE UNCHANGED vars
    BY <2>2, <2>4 DEF vars, readVars, Ahead
  <2>5. CASE Parse
    <3>1. CASE InTransit' /\ received' = received
      BY <1>2, <3>1 DEF Shape, InStep
    <3>2. CASE Acknowledging' /\ received' = Append(received, AsRead(script[next]))
      <4>1. next' = next /\ Len(received) + 1 = next
        BY <1>3, <1>6, <2>5, ParseLeaves DEF InTransit
      <4>2. ReceivedIsSent'
        BY <1>1, <1>3, <3>2, <4>1, ReceivedGrows
      <4> QED
        BY <3>2, <4>2 DEF Shape, InStep
    <3>3. CASE next \in FirstWide /\ Garbled(next)' /\ received' = received
      <4>1. next' = next
        BY <2>5, ParseLeaves
      <4>2. PICK j : j = next /\ j = next'
        BY <4>1
      <4>3. Garbled(j)'
        BY <3>3, <4>2 DEF Garbled, Lost, Misread, Taken
      <4>4. Shape'
        BY <1>1, <3>3, <4>2, <4>3 DEF Shape
      <4> QED
        BY <1>2, <3>3, <4>4
    <3> QED
      BY <1>6, <2>5, <3>1, <3>2, <3>3, InTransitParses
  <2> QED
    BY <2>1, <2>3, <2>4, <2>5 DEF Next
<1>7. CASE Acknowledging
  <2>1. ~Send /\ ~EndOfStream /\ ~ReceiveBytes /\ ~Parse
    BY <1>7, BoundaryIsQuiet DEF Acknowledging, Send, EndOfStream, Ends
  <2>2. CASE ReceiveAck
    BY <1>2, <1>7, <2>2, AcknowledgingSteps DEF Shape, InStep
  <2>3. CASE UNCHANGED vars
    <3>1. Acknowledging'
      BY <1>7, <2>3 DEF vars, senderVars, readVars, Acknowledging, Plain, Boundary
    <3> QED
      BY <1>2, <2>3, <3>1 DEF vars, Shape, InStep
  <2> QED
    BY <2>1, <2>2, <2>3 DEF Next
<1>8. CASE AllDone
  <2>1. ~Send /\ ~ReceiveAck /\ ~EndOfStream /\ ~ReceiveBytes /\ ~Parse
    BY <1>8, BoundaryIsQuiet DEF AllDone, Send, ReceiveAck, EndOfStream
  <2>2. UNCHANGED vars
    BY <2>1 DEF Next
  <2>3. AllDone'
    BY <1>8, <2>2 DEF vars, senderVars, readVars, AllDone, Plain, Boundary
  <2> QED
    BY <1>2, <2>2, <2>3 DEF vars, Shape, InStep
<1>9. CASE GivenUp
  <2>1. ~Send /\ ~ReceiveAck /\ ~ReceiveBytes /\ ~Parse
    BY <1>9, BoundaryIsQuiet DEF GivenUp, Send, ReceiveAck
  <2>2. CASE EndOfStream
    BY <1>2, <1>9, <2>2, GivenUpSteps DEF Shape, InStep
  <2>3. CASE UNCHANGED vars
    <3>1. GivenUp'
      BY <1>9, <2>3 DEF vars, senderVars, readVars, GivenUp, Plain, Boundary
    <3> QED
      BY <1>2, <2>3, <3>1 DEF vars, Shape, InStep
  <2> QED
    BY <2>1, <2>2, <2>3 DEF Next
<1> QED
  BY <1>4, <1>5, <1>6, <1>7, <1>8, <1>9 DEF Shape, InStep

LEMMA InitInv == Init => IInv
<1> SUFFICES ASSUME Init PROVE IInv
  OBVIOUS
<1>1. TypeOK /\ Ends
  BY InitTypes
<1>2. /\ next = 1 /\ sender = "send" /\ wire = <<>> /\ acks = 0 /\ receiver = "reading"
      /\ field = "type" /\ size = UINT32_SIZE /\ buf = <<>> /\ received = <<>>
  BY DEF Init
<1>3. ReceivedIsSent
  BY <1>2 DEF ReceivedIsSent
<1>4. Plain(next - 1) /\ Len(received) = next - 1
  BY <1>2 DEF Plain
<1>5. Sending
  BY <1>2, <1>4 DEF Sending, Boundary
<1> QED
  BY <1>1, <1>3, <1>5 DEF IInv, Shape, InStep

LEMMA NextInv == IInv /\ [Next]_vars => IInv'
<1> SUFFICES ASSUME IInv, [Next]_vars PROVE IInv'
  OBVIOUS
<1>1. TypeOK /\ Ends /\ ReceivedIsSent /\ Shape
  BY DEF IInv
<1>2. TypeOK' /\ Ends'
  BY <1>1, NextTypes
<1>3. Shape' /\ ReceivedIsSent'
  BY <1>1, ShapeHolds
<1> QED
  BY <1>2, <1>3 DEF IInv

LEMMA InductiveInvariant == Spec => []IInv
BY InitInv, NextInv, PTL DEF Spec

LEMMA InvImpliesWideNameIsLast == IInv => WideNameIsLast
<1> SUFFICES ASSUME IInv, NEW i \in FirstWide, FewBytesMore(script[i])
             PROVE  /\ Len(received) <= i
                    /\ i \in DOMAIN received => /\ received[i] # AsRead(script[i])
                                                /\ received[i].type = script[i].type
  BY DEF WideNameIsLast, FewBytesMore
<1>1. TypeOK /\ Shape
  BY DEF IInv
<1>2. /\ script \in Scripts /\ next \in Nat /\ next > 0 /\ Len(script) \in Nat
      /\ Len(received) \in Nat /\ DOMAIN received = 1 .. Len(received)
  BY <1>1, BasicTypes
<1>3. i \in 1 .. Len(script) /\ \A p \in Nat : Plain(p) => p < i
  BY <1>2, FirstWideIs
<1>4. CASE InStep
  <2>1. PICK p \in Nat : Len(received) = p /\ Plain(p)
    BY <1>2, <1>4 DEF InStep, Sending, InTransit, Acknowledging, AllDone, GivenUp
  <2> QED
    BY <1>2, <1>3, <2>1
<1>5. CASE \E j \in FirstWide : Garbled(j)
  <2>1. Garbled(i)
    BY <1>2, <1>5, FirstWideIs
  <2>2. Lost(i) \/ Misread(i) \/ Taken(i)
    BY <2>1 DEF Garbled
  <2>3. CASE Len(received) = i - 1
    BY <1>2, <1>3, <2>3
  <2>4. CASE Taken(i)
    <3>1. Len(received) = i /\ received[i].type = script[i].type /\ received[i] # AsRead(script[i])
      BY <2>4 DEF Taken
    <3> QED
      BY <1>2, <1>3, <3>1
  <2> QED
    BY <2>2, <2>3, <2>4 DEF Lost, Misread
<1> QED
  BY <1>1, <1>4, <1>5 DEF Shape

LEMMA InvImpliesNothingHalfWritten == IInv => NothingHalfWritten
<1> SUFFICES ASSUME IInv, FirstWide = {}, sender = "failed"
             PROVE  wire = <<>> /\ field = "type" /\ buf = <<>> /\ Len(received) = next - 1
  BY DEF NothingHalfWritten
<1>1. InStep
  BY DEF IInv, Shape
<1> QED
  BY <1>1 DEF InStep, Sending, InTransit, Acknowledging, AllDone, GivenUp, Boundary

\* However the bytes are cut (recv_sized), recv_msg returns the messages that were sent, in
\* order and whole, up to the first name with a character of more than one byte.
THEOREM ReceivedAsSent == Spec => []ReceivedIsSent
<1>1. IInv => ReceivedIsSent
  BY DEF IInv
<1> QED
  BY <1>1, InductiveInvariant, PTL

\* A name that is longer in bytes than in characters (send_string, recv_string) ends the
\* conversation: its message is not received, or is the last, with the name cut short.
THEOREM WideNameEnds == Spec => []WideNameIsLast
BY InductiveInvariant, InvImpliesWideNameIsLast, PTL

\* A number that to_bytes refuses is refused before a byte of its message is written: the
\* receiver waits for a type when the sender gives up.
THEOREM AllOrNothing == Spec => []NothingHalfWritten
BY InductiveInvariant, InvImpliesNothingHalfWritten, PTL

=============================================================================
