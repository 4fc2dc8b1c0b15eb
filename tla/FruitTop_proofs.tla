---------------------------- MODULE FruitTop_proofs ----------------------------
(***************************************************************************)
(* Why it is enough that an aggregation forwards the top of its own fruits *)
(* (aggregation/main.py:110) and the join takes the top of those           *)
(* (join/main.py:78-84): for every table, every way to share its fruits    *)
(* out and every TOP_SIZE, the top of the partial tops is the top of the   *)
(* table.                                                                  *)
(***************************************************************************)
EXTENDS FruitTop, FiniteSetTheorems, TLAPS

\* The order of FruitItem.__lt__ is a strict total order on the fruits of a table.
LEMMA BeforeIsStrict ==
    ASSUME NEW t, IsTable(t), NEW f \in DOMAIN t, NEW g \in DOMAIN t
    PROVE  /\ ~(Before(t, f, g) /\ Before(t, g, f))
           /\ f # g => Before(t, f, g) \/ Before(t, g, f)
<1>1. f \in Nat /\ g \in Nat /\ t[f] \in Nat /\ t[g] \in Nat
  BY FruitTopAssumption DEF IsTable
<1> QED
  BY <1>1 DEF Before

\* Fruits can be compared through a third one.
LEMMA BeforeIsTransitive ==
    ASSUME NEW t, IsTable(t), NEW f \in DOMAIN t, NEW g \in DOMAIN t, NEW h \in DOMAIN t,
           Before(t, f, g), Before(t, g, h)
    PROVE  Before(t, f, h)
<1>1. /\ f \in Nat /\ g \in Nat /\ h \in Nat
      /\ t[f] \in Nat /\ t[g] \in Nat /\ t[h] \in Nat
  BY FruitTopAssumption DEF IsTable
<1> QED
  BY <1>1 DEF Before

\* The fruits of a table are finitely many, and so are those of any part of it.
LEMMA PartIsFinite ==
    ASSUME NEW t, IsTable(t), NEW S, S \subseteq DOMAIN t
    PROVE  IsFiniteSet(S) /\ Cardinality(S) \in Nat
<1>1. S \in SUBSET Fruits
  BY DEF IsTable
<1>2. IsFiniteSet(S)
  BY <1>1, FruitTopAssumption, FS_Subset
<1> QED
  BY <1>2, FS_CardinalityType

\* A finite set that is at least as large as another has an element outside of it,
\* or is that set.
LEMMA LargerHasAnother ==
    ASSUME NEW S, NEW T, IsFiniteSet(S), IsFiniteSet(T), Cardinality(S) <= Cardinality(T),
           S # T
    PROVE  T \ S # {}
<1> SUFFICES ASSUME T \in SUBSET S PROVE FALSE
  OBVIOUS
<1>1. Cardinality(T) <= Cardinality(S) /\ (Cardinality(S) = Cardinality(T) => S = T)
  BY FS_Subset
<1>2. Cardinality(S) \in Nat /\ Cardinality(T) \in Nat
  BY FS_CardinalityType
<1> QED
  BY <1>1, <1>2

\* A part of a table is a table in which the amounts, and so the order, are the same.
LEMMA PartOfTable ==
    ASSUME NEW t, IsTable(t), NEW P, P \subseteq DOMAIN t
    PROVE  /\ IsTable(Restricted(t, P)) /\ DOMAIN Restricted(t, P) = P
           /\ \A f, g \in P : Before(Restricted(t, P), f, g) <=> Before(t, f, g)
<1>1. DOMAIN Restricted(t, P) = P /\ \A f \in P : Restricted(t, P)[f] = t[f]
  BY DEF Restricted
<1>2. IsTable(Restricted(t, P))
  BY <1>1 DEF IsTable, Restricted
<1> QED
  BY <1>1, <1>2 DEF Before

\* A list has one top only: sorting it and cutting it leaves no choice.
THEOREM TopIsUnique ==
    ASSUME NEW t, IsTable(t), NEW S, IsTop(S, t), NEW T, IsTop(T, t)
    PROVE  S = T
<1> SUFFICES ASSUME S # T PROVE FALSE
  OBVIOUS
<1>1. /\ S \subseteq DOMAIN t /\ T \subseteq DOMAIN t
      /\ Cardinality(S) = Cardinality(T)
      /\ \A f \in S, g \in DOMAIN t \ S : Before(t, f, g)
      /\ \A f \in T, g \in DOMAIN t \ T : Before(t, f, g)
  BY DEF IsTop
<1>2. IsFiniteSet(S) /\ IsFiniteSet(T) /\ Cardinality(S) \in Nat /\ Cardinality(T) \in Nat
  BY <1>1, PartIsFinite
<1>3. PICK f \in S \ T : TRUE
  BY <1>1, <1>2, LargerHasAnother
<1>4. PICK g \in T \ S : TRUE
  BY <1>1, <1>2, LargerHasAnother
<1>5. Before(t, f, g) /\ Before(t, g, f)
  BY <1>1, <1>3, <1>4
<1> QED
  BY <1>1, <1>3, <1>4, <1>5, BeforeIsStrict

\* A finite set has, among any of its subsets, one that includes no other of them: what
\* the inductions on finite sets below rest on.
LEMMA SmallestSubset ==
    ASSUME NEW D, IsFiniteSet(D), NEW Subsets \in SUBSET (SUBSET D), Subsets # {}
    PROVE  \E T \in Subsets : \A U \in Subsets : U \subseteq T => U = T
<1>1. Subsets \subseteq FiniteSubsetsOf(D)
  <2> SUFFICES ASSUME NEW T \in Subsets PROVE T \in SUBSET D /\ IsFiniteSet(T)
    BY DEF FiniteSubsetsOf
  <2> QED
    BY FS_Subset
<1>2. IsWellFoundedOn(StrictSubsetOrdering(D), FiniteSubsetsOf(D))
  BY FS_StrictSubsetOrderingWellFounded
<1>3. PICK T \in Subsets : \A U \in Subsets : <<U, T>> \notin StrictSubsetOrdering(D)
  BY <1>1, <1>2, WFMin
<1>4. \A U \in Subsets : U \subseteq T /\ U # T => <<U, T>> \in StrictSubsetOrdering(D)
  BY DEF StrictSubsetOrdering
<1>5. \A U \in Subsets : U \subseteq T => U = T
  BY <1>3, <1>4
<1> QED
  BY <1>5

\* Among some fruits of a table one goes before all the others.
LEMMA FirstExists ==
    ASSUME NEW t, IsTable(t), NEW P, P \subseteq DOMAIN t, P # {}
    PROVE  \E f \in P : \A g \in P \ {f} : Before(t, f, g)
<1> DEFINE Ahead(f) == {g \in P : Before(t, g, f)}
           Aheads   == {Ahead(f) : f \in P}
<1>1. Aheads \in SUBSET (SUBSET P) /\ Aheads # {} /\ IsFiniteSet(P)
  BY PartIsFinite
<1>2. PICK T \in Aheads : \A U \in Aheads : U \subseteq T => U = T
  <2> HIDE DEF Aheads
  <2> QED
    BY <1>1, SmallestSubset
<1>3. PICK f \in P : T = Ahead(f)
  BY <1>2
<1>4. ASSUME NEW g \in P \ {f} PROVE Before(t, f, g)
  <2> SUFFICES ASSUME Before(t, g, f) PROVE FALSE
    BY BeforeIsStrict
  <2>1. Ahead(g) \subseteq Ahead(f)
    <3> SUFFICES ASSUME NEW h \in P, Before(t, h, g) PROVE Before(t, h, f)
      OBVIOUS
    <3> QED
      BY BeforeIsTransitive
  <2>2. g \in Ahead(f) /\ g \notin Ahead(g)
    BY BeforeIsStrict
  <2>3. Ahead(g) \in Aheads
    OBVIOUS
  <2> QED
    BY <1>2, <1>3, <2>1, <2>2, <2>3
<1> QED
  BY <1>4

\* A list has a top, whatever its items: TopOf is always what
\* sorted(items, reverse=True)[:TOP_SIZE] gives.
THEOREM TopExists ==
    ASSUME NEW t, IsTable(t)
    PROVE  \E S : IsTop(S, t)
<1> DEFINE D     == DOMAIN t
           K     == IF Cardinality(D) <= TOP_SIZE THEN Cardinality(D) ELSE TOP_SIZE
           \* what is left of the list when some of its first items are taken
           IsRest(R) == /\ Cardinality(D \ R) <= K
                        /\ \A f \in D \ R, g \in R : Before(t, f, g)
           Rests == {R \in SUBSET D : IsRest(R)}
<1>1. IsFiniteSet(D) /\ Cardinality(D) \in Nat /\ K \in Nat /\ K <= Cardinality(D)
  BY PartIsFinite, FruitTopAssumption
<1>2. Rests # {}
  <2>1. Cardinality(D \ D) = 0
    BY FS_EmptySet
  <2>2. IsRest(D)
    BY <1>1, <2>1
  <2> QED
    BY <2>2
<1>3. PICK R \in Rests : \A U \in Rests : U \subseteq R => U = R
  <2>1. Rests \in SUBSET (SUBSET D)
    OBVIOUS
  <2> HIDE DEF Rests
  <2> QED
    BY <1>1, <1>2, <2>1, SmallestSubset
<1>4. R \subseteq D /\ IsRest(R)
  BY <1>3
<1>5. IsFiniteSet(D \ R) /\ Cardinality(D \ R) \in Nat
  BY PartIsFinite
<1>6. Cardinality(D \ R) = K
  <2> SUFFICES ASSUME Cardinality(D \ R) < K PROVE FALSE
    BY <1>1, <1>4, <1>5
  <2>1. R # {}
    BY <1>1
  <2>2. PICK f \in R : \A g \in R \ {f} : Before(t, f, g)
    BY <1>4, <2>1, FirstExists
  <2>3. D \ (R \ {f}) = (D \ R) \cup {f}
    BY <1>4
  <2>4. Cardinality(D \ (R \ {f})) = Cardinality(D \ R) + 1
    BY <1>5, <2>3, FS_AddElement
  <2>5. IsRest(R \ {f})
    BY <1>1, <1>4, <1>5, <2>2, <2>3, <2>4
  <2> QED
    BY <1>3, <1>4, <2>5
<1>7. /\ D \ R \subseteq DOMAIN t
      /\ \A f \in D \ R, g \in DOMAIN t \ (D \ R) : Before(t, f, g)
  BY <1>4
<1>8. IsTop(D \ R, t)
  BY <1>6, <1>7 DEF IsTop
<1> QED
  BY <1>8

\* What an aggregation does not forward has TOP_SIZE fruits of its own before it.
LEMMA CutFruit ==
    ASSUME NEW t, IsTable(t), NEW P, P \subseteq DOMAIN t, NEW K, IsTop(K, Restricted(t, P)),
           NEW g \in P \ K
    PROVE  /\ K \subseteq P /\ Cardinality(K) = TOP_SIZE
           /\ \A k \in K : Before(t, k, g)
<1>1. /\ DOMAIN Restricted(t, P) = P
      /\ \A f, h \in P : Before(Restricted(t, P), f, h) <=> Before(t, f, h)
  BY PartOfTable
<1>2. /\ K \subseteq P
      /\ Cardinality(K) = IF Cardinality(P) <= TOP_SIZE THEN Cardinality(P) ELSE TOP_SIZE
      /\ \A k \in K : Before(t, k, g)
  BY <1>1 DEF IsTop
<1>3. Cardinality(K) # Cardinality(P)
  <2>1. IsFiniteSet(P) /\ K \in SUBSET P
    BY <1>2, PartIsFinite
  <2> QED
    BY <2>1, FS_Subset
<1> QED
  BY <1>2, <1>3

\* All the fruits that the parts keep.
Forwarded(Kept, Parts) == UNION {Kept[P] : P \in Parts}

\* The top of the partial tops is the top of everything.
THEOREM TopOfTops ==
    ASSUME NEW t, IsTable(t),
           NEW Parts, UNION Parts = DOMAIN t,
           NEW Kept, \A P \in Parts : IsTop(Kept[P], Restricted(t, P)),
           NEW U, U = Forwarded(Kept, Parts),
           NEW S, IsTop(S, Restricted(t, U))
    PROVE  IsTop(S, t)
<1> USE DEF Forwarded
<1>1. \A P \in Parts : P \subseteq DOMAIN t /\ Kept[P] \subseteq P /\ Kept[P] \subseteq U
  <2> SUFFICES ASSUME NEW P \in Parts
               PROVE  P \subseteq DOMAIN t /\ Kept[P] \subseteq P /\ Kept[P] \subseteq U
    OBVIOUS
  <2>1. P \subseteq DOMAIN t
    OBVIOUS
  <2>2. DOMAIN Restricted(t, P) = P
    BY <2>1, PartOfTable
  <2>3. Kept[P] \subseteq P
    BY <2>2 DEF IsTop
  <2> QED
    BY <2>1, <2>3
<1>2. U \subseteq DOMAIN t
  BY <1>1
<1>3. /\ S \subseteq U
      /\ Cardinality(S) = IF Cardinality(U) <= TOP_SIZE THEN Cardinality(U) ELSE TOP_SIZE
      /\ \A f \in S, g \in U \ S : Before(t, f, g)
  <2>1. /\ DOMAIN Restricted(t, U) = U
        /\ \A f, h \in U : Before(Restricted(t, U), f, h) <=> Before(t, f, h)
    BY <1>2, PartOfTable
  <2> QED
    BY <2>1 DEF IsTop
<1>4. /\ IsFiniteSet(S) /\ IsFiniteSet(U)
      /\ Cardinality(S) \in Nat /\ Cardinality(U) \in Nat /\ Cardinality(DOMAIN t) \in Nat
      /\ Cardinality(U) <= Cardinality(DOMAIN t)
      /\ TOP_SIZE \in Nat
  <2>1. IsFiniteSet(DOMAIN t) /\ U \in SUBSET DOMAIN t /\ S \subseteq DOMAIN t
    BY <1>2, <1>3, PartIsFinite
  <2> QED
    BY <1>2, <2>1, PartIsFinite, FS_Subset, FruitTopAssumption
\* A fruit that no aggregation kept has TOP_SIZE kept ones before it.
<1>5. ASSUME NEW g \in DOMAIN t \ U
      PROVE  \E K : /\ K \subseteq U /\ IsFiniteSet(K) /\ Cardinality(K) = TOP_SIZE
                    /\ \A k \in K : Before(t, k, g)
  <2>1. PICK P \in Parts : g \in P
    OBVIOUS
  <2>2. P \subseteq DOMAIN t /\ Kept[P] \subseteq U /\ Kept[P] \subseteq P /\ g \in P \ Kept[P]
    BY <1>1, <1>5, <2>1
  <2>3. Cardinality(Kept[P]) = TOP_SIZE /\ \A k \in Kept[P] : Before(t, k, g)
    BY <2>1, <2>2, CutFruit
  <2>4. IsFiniteSet(Kept[P])
    BY <2>2, PartIsFinite
  <2> QED
    BY <2>2, <2>3, <2>4
<1>6. ASSUME NEW g \in DOMAIN t \ U PROVE Cardinality(S) = TOP_SIZE
  <2>1. PICK K : K \in SUBSET U /\ Cardinality(K) = TOP_SIZE
    BY <1>5
  <2>2. TOP_SIZE <= Cardinality(U)
    BY <1>4, <2>1, FS_Subset
  <2> QED
    BY <1>3, <1>4, <2>2
<1>7. Cardinality(S) = IF Cardinality(DOMAIN t) <= TOP_SIZE THEN Cardinality(DOMAIN t)
                                                            ELSE TOP_SIZE
  <2>1. CASE U = DOMAIN t
    BY <1>3, <2>1
  <2>2. CASE U # DOMAIN t
    <3>1. PICK g \in DOMAIN t \ U : TRUE
      BY <1>2, <2>2
    <3>2. Cardinality(S) = TOP_SIZE
      BY <1>6, <3>1
    <3>3. Cardinality(S) <= Cardinality(U)
      BY <1>3, <1>4
    <3> QED
      BY <1>4, <3>2, <3>3
  <2> QED
    BY <2>1, <2>2
<1>8. ASSUME NEW f \in S, NEW g \in DOMAIN t \ S PROVE Before(t, f, g)
  <2>1. CASE g \in U
    BY <1>3, <2>1
  <2>2. CASE g \notin U
    <3>1. PICK K : /\ K \subseteq U /\ IsFiniteSet(K) /\ Cardinality(K) = TOP_SIZE
                   /\ \A k \in K : Before(t, k, g)
      BY <1>5, <2>2
    <3>2. CASE f \in K
      BY <3>1, <3>2
    <3>3. CASE f \notin K
      <4>1. Cardinality(S) = Cardinality(K) /\ S # K
        BY <1>6, <2>2, <3>1, <3>3
      <4>2. PICK k \in K \ S : TRUE
        BY <1>4, <3>1, <4>1, LargerHasAnother
      <4>3. Before(t, f, k) /\ Before(t, k, g)
        BY <1>3, <3>1, <4>2
      <4>4. f \in DOMAIN t /\ k \in DOMAIN t
        BY <1>2, <1>3, <3>1, <4>2
      <4> QED
        BY <4>3, <4>4, BeforeIsTransitive
    <3> QED
      BY <3>2, <3>3
  <2> QED
    BY <2>1, <2>2
<1> QED
  BY <1>2, <1>3, <1>7, <1>8 DEF IsTop

\* What CHOOSE picks is the top, and it is a table.
LEMMA TopFruitsIsTop ==
    ASSUME NEW t, IsTable(t)
    PROVE  /\ IsTop(TopFruits(t), t) /\ TopFruits(t) \subseteq DOMAIN t
           /\ IsTable(TopOf(t)) /\ DOMAIN TopOf(t) = TopFruits(t)
           /\ \A f \in TopFruits(t) : TopOf(t)[f] = t[f]
<1>1. PICK S \in SUBSET DOMAIN t : IsTop(S, t)
  BY TopExists DEF IsTop
<1>2. IsTop(TopFruits(t), t)
  BY <1>1 DEF TopFruits
<1>3. TopFruits(t) \subseteq DOMAIN t
  BY <1>2 DEF IsTop
<1>4. IsTable(TopOf(t)) /\ DOMAIN TopOf(t) = TopFruits(t)
  BY <1>3, PartOfTable DEF TopOf
<1>5. \A f \in TopFruits(t) : TopOf(t)[f] = t[f]
  BY DEF TopOf, Restricted
<1> QED
  BY <1>2, <1>3, <1>4, <1>5

\* Two tables with the same amounts for the same fruits are the same table.
LEMMA SameTable ==
    ASSUME NEW t, IsTable(t), NEW u, IsTable(u), DOMAIN t = DOMAIN u,
           \A f \in DOMAIN t : t[f] = u[f]
    PROVE  t = u
BY DEF IsTable

-----------------------------------------------------------------------------
(* The sum of the values of a function, for as many arguments as it has: what *)
(* the recursion of SumFunction computes.                                  *)

\* One step of the recursion, and a function that is the recursion on the subsets of P.
SumOver(g, v, s) ==
    IF s = {} THEN 0 ELSE v[CHOOSE x \in s : TRUE] + g[s \ {CHOOSE x \in s : TRUE}]
Solves(g, v, P) == g = [s \in SUBSET P |-> SumOver(g, v, s)]

\* The recursion depends on nothing but the values.
LEMMA SolutionsAgree ==
    ASSUME NEW R, IsFiniteSet(R), NEW v, NEW w, \A x \in R : v[x] = w[x],
           NEW P, R \subseteq P, NEW g, Solves(g, v, P),
           NEW Q, R \subseteq Q, NEW h, Solves(h, w, Q)
    PROVE  g[R] = h[R]
<1> DEFINE Different == {s \in SUBSET R : g[s] # h[s]}
<1>1. \A s \in SUBSET R : g[s] = SumOver(g, v, s) /\ h[s] = SumOver(h, w, s)
  BY Zenon DEF Solves
<1> SUFFICES ASSUME Different # {} PROVE FALSE
  OBVIOUS
<1>2. PICK s \in Different : \A u \in Different : u \subseteq s => u = s
  <2>1. Different \in SUBSET (SUBSET R)
    OBVIOUS
  <2> HIDE DEF Different
  <2> QED
    BY <2>1, SmallestSubset
<1>3. s # {}
  BY <1>1 DEF SumOver
<1>4. PICK x \in s : x = CHOOSE y \in s : TRUE
  BY <1>3
<1>5. g[s \ {x}] = h[s \ {x}]
  BY <1>2, <1>4
<1>6. v[x] = w[x]
  BY <1>4
<1> QED
  BY <1>1, <1>3, <1>4, <1>5, <1>6 DEF SumOver

\* The recursion has a solution.
LEMMA SolutionExists ==
    ASSUME NEW I, IsFiniteSet(I), NEW v
    PROVE  \E g : Solves(g, v, I)
<1> DEFINE Without == {P \in SUBSET I : ~\E g : Solves(g, v, P)}
<1> SUFFICES ASSUME Without # {} PROVE FALSE
  OBVIOUS
<1>1. PICK P \in Without : \A u \in Without : u \subseteq P => u = P
  <2>1. Without \in SUBSET (SUBSET I)
    OBVIOUS
  <2> HIDE DEF Without
  <2> QED
    BY <2>1, SmallestSubset
<1> DEFINE H(r) == CHOOSE h : Solves(h, v, r)
           G    == [s \in SUBSET P |->
                       IF s = {} THEN 0
                       ELSE v[CHOOSE x \in s : TRUE]
                              + H(s \ {CHOOSE x \in s : TRUE})[s \ {CHOOSE x \in s : TRUE}]]
<1>2. ASSUME NEW r, r \subseteq P, r # P PROVE Solves(H(r), v, r)
  BY <1>1, <1>2
<1>3. ASSUME NEW r, r \subseteq P, r # P PROVE G[r] = H(r)[r]
  <2>1. Solves(H(r), v, r)
    BY <1>2, <1>3
  <2>2. H(r)[r] = SumOver(H(r), v, r)
    <3> HIDE DEF H
    <3> QED
      BY <2>1, Zenon DEF Solves
  <2>3. CASE r = {}
    BY <2>2, <2>3 DEF SumOver
  <2>4. CASE r # {}
    <3>1. PICK x \in r : x = CHOOSE y \in r : TRUE
      BY <2>4
    <3>2. r \ {x} \subseteq P /\ r \ {x} # P
      BY <1>3, <3>1
    <3>3. Solves(H(r \ {x}), v, r \ {x})
      BY <1>2, <3>2
    <3>4. IsFiniteSet(r \ {x})
      <4>1. r \ {x} \in SUBSET I
        BY <1>1, <3>2
      <4> QED
        BY <4>1, FS_Subset
    <3>5. H(r \ {x})[r \ {x}] = H(r)[r \ {x}]
      <4> HIDE DEF H
      <4>1. r \ {x} \subseteq r
        OBVIOUS
      <4> QED
        BY <2>1, <3>3, <3>4, <4>1, SolutionsAgree
    <3>6. G[r] = v[x] + H(r \ {x})[r \ {x}]
      <4> HIDE DEF H
      <4> QED
        BY <1>3, <2>4, <3>1
    <3>7. H(r)[r] = v[x] + H(r)[r \ {x}]
      <4> HIDE DEF H
      <4> QED
        BY <2>2, <2>4, <3>1 DEF SumOver
    <3> HIDE DEF G, H
    <3> QED
      BY <3>5, <3>6, <3>7
  <2> QED
    BY <2>3, <2>4
<1>4. ASSUME NEW s \in SUBSET P PROVE G[s] = SumOver(G, v, s)
  <2>1. CASE s = {}
    BY <2>1 DEF SumOver
  <2>2. CASE s # {}
    <3>1. PICK x \in s : x = CHOOSE y \in s : TRUE
      BY <2>2
    <3>2. s \ {x} \subseteq P /\ s \ {x} # P
      BY <3>1
    <3>3. G[s \ {x}] = H(s \ {x})[s \ {x}]
      BY <1>3, <3>2
    <3>4. G[s] = v[x] + H(s \ {x})[s \ {x}]
      <4> HIDE DEF H
      <4> QED
        BY <2>2, <3>1
    <3> HIDE DEF G, H
    <3> QED
      BY <2>2, <3>1, <3>3, <3>4 DEF SumOver
  <2> QED
    BY <2>1, <2>2
<1>5. G = [s \in SUBSET P |-> SumOver(G, v, s)]
  <2>1. G = [s \in SUBSET P |-> G[s]]
    OBVIOUS
  <2> HIDE DEF G
  <2> QED
    BY <1>4, <2>1
<1> HIDE DEF G
<1> QED
  BY <1>1, <1>5 DEF Solves

\* What SumFunction computes of the values at some arguments, and of all of them.
LEMMA SumFunctionIsSum ==
    ASSUME NEW I, IsFiniteSet(I), NEW v, NEW g, Solves(g, v, I), NEW w, DOMAIN w \subseteq I,
           \A x \in DOMAIN w : w[x] = v[x]
    PROVE  SumFunction(w) = g[DOMAIN w]
<1>1. SumFunction(w) = (CHOOSE h : Solves(h, w, DOMAIN w))[DOMAIN w]
  BY DEF SumFunction, SumFunctionOnSet, FoldFunctionOnSet, MapThenFoldSet, Solves, SumOver
<1>2. IsFiniteSet(DOMAIN w)
  BY FS_Subset
<1>3. PICK h : h = CHOOSE f : Solves(f, w, DOMAIN w)
  OBVIOUS
<1>4. Solves(h, w, DOMAIN w)
  BY <1>2, <1>3, SolutionExists
<1>5. h[DOMAIN w] = g[DOMAIN w]
  BY <1>2, <1>4, SolutionsAgree
<1> QED
  BY <1>1, <1>3, <1>5

\* Sums of numbers are numbers.
LEMMA SolutionIsNumbers ==
    ASSUME NEW I, IsFiniteSet(I), NEW v, \A x \in I : v[x] \in Nat, NEW g, Solves(g, v, I)
    PROVE  \A s \in SUBSET I : g[s] \in Nat
<1> DEFINE Others == {s \in SUBSET I : g[s] \notin Nat}
<1> SUFFICES ASSUME Others # {} PROVE FALSE
  OBVIOUS
<1>1. PICK s \in Others : \A u \in Others : u \subseteq s => u = s
  <2>1. Others \in SUBSET (SUBSET I)
    OBVIOUS
  <2> HIDE DEF Others
  <2> QED
    BY <2>1, SmallestSubset
<1>2. g[s] = SumOver(g, v, s)
  BY Zenon DEF Solves
<1>3. s # {}
  BY <1>1, <1>2 DEF SumOver
<1>4. PICK x \in s : x = CHOOSE y \in s : TRUE
  BY <1>3
<1>5. g[s \ {x}] \in Nat
  BY <1>1, <1>4
<1>6. g[s] = v[x] + g[s \ {x}] /\ v[x] \in Nat
  BY <1>2, <1>3, <1>4 DEF SumOver
<1> QED
  BY <1>1, <1>5, <1>6

\* The order in which the recursion takes the arguments does not matter.
LEMMA AnyFirst ==
    ASSUME NEW I, IsFiniteSet(I), NEW v, \A x \in I : v[x] \in Nat, NEW g, Solves(g, v, I)
    PROVE  \A s \in SUBSET I : \A x \in s : g[s] = v[x] + g[s \ {x}]
<1> DEFINE Others == {s \in SUBSET I : \E x \in s : g[s] # v[x] + g[s \ {x}]}
<1> SUFFICES ASSUME Others # {} PROVE FALSE
  OBVIOUS
<1>1. PICK s \in Others : \A u \in Others : u \subseteq s => u = s
  <2>1. Others \in SUBSET (SUBSET I)
    OBVIOUS
  <2> HIDE DEF Others
  <2> QED
    BY <2>1, SmallestSubset
<1>2. PICK x \in s : g[s] # v[x] + g[s \ {x}]
  BY <1>1
<1>3. \A u \in SUBSET I : g[u] = SumOver(g, v, u) /\ g[u] \in Nat
  BY SolutionIsNumbers, Zenon DEF Solves
<1>4. PICK y \in s : y = CHOOSE z \in s : TRUE
  BY <1>2
<1>5. g[s] = v[y] + g[s \ {y}]
  BY <1>2, <1>3, <1>4 DEF SumOver
<1>6. x # y
  BY <1>2, <1>5
<1>7. g[s \ {y}] = v[x] + g[(s \ {y}) \ {x}]
  BY <1>1, <1>4, <1>6
<1>8. g[s \ {x}] = v[y] + g[(s \ {x}) \ {y}]
  BY <1>1, <1>4, <1>6
<1>9. (s \ {y}) \ {x} = (s \ {x}) \ {y}
  OBVIOUS
<1>10. v[x] \in Nat /\ v[y] \in Nat /\ g[(s \ {x}) \ {y}] \in Nat
  BY <1>1, <1>3
<1>11. g[s] = v[x] + g[s \ {x}]
  <2> DEFINE n == g[(s \ {x}) \ {y}]
  <2>1. g[s \ {y}] = v[x] + n
    BY <1>7, <1>9
  <2>2. g[s \ {x}] = v[y] + n /\ n \in Nat
    BY <1>8, <1>10
  <2> HIDE DEF n
  <2> QED
    BY <1>5, <1>10, <2>1, <2>2
<1> QED
  BY <1>2, <1>11

\* A sum of numbers, whatever it is taken over, is a number; the sum of no values is zero;
\* and a value can be taken out of a sum.
THEOREM SumOfNumbers ==
    ASSUME NEW I, IsFiniteSet(I), NEW v \in [I -> Nat]
    PROVE  /\ SumFunction(v) \in Nat
           /\ I = {} => SumFunction(v) = 0
           /\ \A x \in I : SumFunction(v) = v[x] + SumFunction(Restrict(v, I \ {x}))
<1>1. PICK g : Solves(g, v, I)
  BY SolutionExists
<1>2. SumFunction(v) = g[I]
  BY <1>1, SumFunctionIsSum
<1>3. g[I] \in Nat
  BY <1>1, SolutionIsNumbers
<1>4. I = {} => g[I] = 0
  BY <1>1, Zenon DEF Solves, SumOver
<1>5. ASSUME NEW x \in I PROVE SumFunction(v) = v[x] + SumFunction(Restrict(v, I \ {x}))
  <2>1. g[I] = v[x] + g[I \ {x}]
    BY <1>1, AnyFirst
  <2> DEFINE w == Restrict(v, I \ {x})
  <2>2. DOMAIN w = I \ {x} /\ \A y \in DOMAIN w : w[y] = v[y]
    BY DEF Restrict
  <2> HIDE DEF w
  <2>3. SumFunction(w) = g[I \ {x}]
    BY <1>1, <2>2, SumFunctionIsSum
  <2> QED
    BY <1>2, <2>1, <2>3 DEF w
<1> QED
  BY <1>2, <1>3, <1>4, <1>5

\* The sum of one value is that value.
LEMMA SumOfOne ==
    ASSUME NEW x, NEW v \in [{x} -> Nat]
    PROVE  SumFunction(v) = v[x]
<1>1. IsFiniteSet({x}) /\ IsFiniteSet({})
  BY FS_Singleton, FS_EmptySet
<1> DEFINE w == Restrict(v, {x} \ {x})
<1>2. w \in [{} -> Nat]
  BY DEF Restrict
<1> HIDE DEF w
<1>3. SumFunction(w) = 0
  BY <1>1, <1>2, SumOfNumbers
<1>4. SumFunction(v) = v[x] + SumFunction(w)
  BY <1>1, SumOfNumbers DEF w
<1> QED
  BY <1>3, <1>4

\* The amount of a fruit in several tables.
Amounts(tables, f) == [i \in {j \in DOMAIN tables : f \in DOMAIN tables[j]} |-> tables[i][f]]

\* What MergeOf is made of.
LEMMA MergeOfValues ==
    ASSUME NEW tables
    PROVE  /\ DOMAIN MergeOf(tables) = UNION {DOMAIN tables[i] : i \in DOMAIN tables}
           /\ \A f \in DOMAIN MergeOf(tables) : MergeOf(tables)[f] = SumFunction(Amounts(tables, f))
BY Zenon DEF MergeOf, Amounts

\* Merging tables gives a table: what the join keeps of a client is one, whatever came.
LEMMA MergeIsTable ==
    ASSUME NEW tables, IsFiniteSet(DOMAIN tables), \A i \in DOMAIN tables : IsTable(tables[i])
    PROVE  IsTable(MergeOf(tables))
<1>1. ASSUME NEW f \in DOMAIN MergeOf(tables) PROVE f \in Fruits /\ MergeOf(tables)[f] \in Nat
  <2>1. PICK i \in DOMAIN tables : f \in DOMAIN tables[i]
    <3>1. f \in UNION {DOMAIN tables[i] : i \in DOMAIN tables}
      BY MergeOfValues, Zenon
    <3> QED
      BY <3>1
  <2> DEFINE I == {j \in DOMAIN tables : f \in DOMAIN tables[j]}
  <2>2. IsFiniteSet(I)
    BY FS_Subset
  <2>3. Amounts(tables, f) \in [I -> Nat]
    BY DEF Amounts, IsTable
  <2> HIDE DEF I
  <2>4. SumFunction(Amounts(tables, f)) \in Nat
    BY <2>2, <2>3, SumOfNumbers
  <2>5. f \in Fruits
    BY <2>1 DEF IsTable
  <2> QED
    BY <2>4, <2>5, MergeOfValues
<1>2. MergeOf(tables) = [f \in DOMAIN MergeOf(tables) |-> MergeOf(tables)[f]]
  BY DEF MergeOf
<1> HIDE DEF MergeOf
<1> QED
  BY <1>1, <1>2 DEF IsTable

\* A fruit that is in one of the tables only keeps its amount.
LEMMA MergeOfOne ==
    ASSUME NEW tables, NEW i \in DOMAIN tables, IsTable(tables[i]), NEW f \in DOMAIN tables[i],
           \A j \in DOMAIN tables : f \in DOMAIN tables[j] => j = i
    PROVE  f \in DOMAIN MergeOf(tables) /\ MergeOf(tables)[f] = tables[i][f]
<1>1. f \in DOMAIN MergeOf(tables)
  BY MergeOfValues
<1>2. {j \in DOMAIN tables : f \in DOMAIN tables[j]} = {i}
  OBVIOUS
<1>3. Amounts(tables, f) \in [{i} -> Nat] /\ Amounts(tables, f)[i] = tables[i][f]
  BY <1>2 DEF Amounts, IsTable
<1>4. SumFunction(Amounts(tables, f)) = tables[i][f]
  BY <1>3, SumOfOne
<1> QED
  BY <1>1, <1>4, MergeOfValues

\* Merging tables without fruits gives the table without fruits.
LEMMA MergeOfNothing ==
    ASSUME NEW tables, \A i \in DOMAIN tables : DOMAIN tables[i] = {}
    PROVE  MergeOf(tables) = NoFruits
<1>1. DOMAIN MergeOf(tables) = {}
  <2>1. DOMAIN MergeOf(tables) = UNION {DOMAIN tables[i] : i \in DOMAIN tables}
    BY MergeOfValues
  <2> QED
    BY <2>1
<1>2. MergeOf(tables) = [f \in DOMAIN MergeOf(tables) |-> MergeOf(tables)[f]]
  BY DEF MergeOf
<1> HIDE DEF MergeOf
<1> QED
  BY <1>1, <1>2 DEF NoFruits

\* One more (fruit, amount) in a list is a list again.
LEMMA PlusIsTable ==
    ASSUME NEW t, IsTable(t), NEW f \in Fruits, NEW n \in Nat
    PROVE  /\ IsTable(Plus(t, f, n)) /\ DOMAIN Plus(t, f, n) = DOMAIN t \cup {f}
           /\ \A g \in DOMAIN t : g # f => Plus(t, f, n)[g] = t[g]
           /\ Plus(t, f, n)[f] = IF f \in DOMAIN t THEN t[f] + n ELSE n
<1>1. /\ DOMAIN Plus(t, f, n) = DOMAIN t \cup {f}
      /\ \A g \in DOMAIN t : g # f => Plus(t, f, n)[g] = t[g]
      /\ Plus(t, f, n)[f] = IF f \in DOMAIN t THEN t[f] + n ELSE n
  BY DEF Plus
<1>2. \A g \in DOMAIN t \cup {f} : Plus(t, f, n)[g] \in Nat
  BY <1>1 DEF IsTable
<1>3. Plus(t, f, n) = [g \in DOMAIN t \cup {f} |-> Plus(t, f, n)[g]]
  BY DEF Plus
<1> QED
  BY <1>1, <1>2, <1>3 DEF IsTable

\* Merging does what adding the items to one list, one by one, does.
LEMMA MergePlus ==
    ASSUME NEW tables, IsFiniteSet(DOMAIN tables), \A i \in DOMAIN tables : IsTable(tables[i]),
           NEW s \in DOMAIN tables, NEW f \in Fruits, f \notin DOMAIN tables[s], NEW n \in Nat,
           NEW more, DOMAIN more = DOMAIN tables,
           \A i \in DOMAIN tables : i # s => more[i] = tables[i],
           IsTable(more[s]), DOMAIN more[s] = DOMAIN tables[s] \cup {f}, more[s][f] = n,
           \A g \in DOMAIN tables[s] : more[s][g] = tables[s][g]
    PROVE  MergeOf(more) = Plus(MergeOf(tables), f, n)
<1> DEFINE M == MergeOf(tables)
           Has(g) == {i \in DOMAIN tables : g \in DOMAIN tables[i]}
<1>1. IsTable(M) /\ IsTable(MergeOf(more))
  BY MergeIsTable
<1>2. DOMAIN MergeOf(more) = DOMAIN M \cup {f}
  <2>1. DOMAIN M = UNION {DOMAIN tables[i] : i \in DOMAIN tables}
    BY MergeOfValues
  <2>2. DOMAIN MergeOf(more) = UNION {DOMAIN more[i] : i \in DOMAIN tables}
    BY MergeOfValues
  <2>3. ASSUME NEW g PROVE g \in DOMAIN MergeOf(more) <=> g \in DOMAIN M \/ g = f
    <3>1. g \in DOMAIN MergeOf(more) <=> \E i \in DOMAIN tables : g \in DOMAIN more[i]
      BY <2>2
    <3>2. g \in DOMAIN M <=> \E i \in DOMAIN tables : g \in DOMAIN tables[i]
      BY <2>1
    <3> HIDE DEF M
    <3> QED
      BY <3>1, <3>2
  <2> HIDE DEF M
  <2> QED
    BY <2>3
<1>3. \A g \in DOMAIN M : M[g] = SumFunction(Amounts(tables, g))
  BY MergeOfValues
<1>4. \A g \in DOMAIN M \cup {f} : MergeOf(more)[g] = SumFunction(Amounts(more, g))
  BY <1>2, MergeOfValues
<1>5. ASSUME NEW g \in DOMAIN M, g # f PROVE MergeOf(more)[g] = M[g]
  <2>1. {i \in DOMAIN more : g \in DOMAIN more[i]} = Has(g)
    BY <1>5
  <2>2. \A i \in Has(g) : more[i][g] = tables[i][g]
    OBVIOUS
  <2>3. Amounts(more, g) = Amounts(tables, g)
    BY <2>1, <2>2 DEF Amounts
  <2> QED
    BY <1>3, <1>4, <2>3
<1>6. MergeOf(more)[f] = IF f \in DOMAIN M THEN M[f] + n ELSE n
  <2>1. {i \in DOMAIN more : f \in DOMAIN more[i]} = Has(f) \cup {s} /\ s \notin Has(f)
    OBVIOUS
  <2>2. IsFiniteSet(Has(f)) /\ IsFiniteSet(Has(f) \cup {s})
    BY FS_Subset, FS_AddElement
  <2>3. Amounts(tables, f) \in [Has(f) -> Nat]
    BY DEF Amounts, IsTable
  <2>4. /\ Amounts(more, f) \in [Has(f) \cup {s} -> Nat]
        /\ Amounts(more, f)[s] = n
        /\ \A i \in Has(f) : Amounts(more, f)[i] = Amounts(tables, f)[i]
    BY <2>1 DEF Amounts, IsTable
  <2>5. Restrict(Amounts(more, f), (Has(f) \cup {s}) \ {s}) = Amounts(tables, f)
    <3>1. (Has(f) \cup {s}) \ {s} = Has(f)
      BY <2>1
    <3>2. Amounts(tables, f) = [i \in Has(f) |-> Amounts(tables, f)[i]]
      BY DEF Amounts
    <3> HIDE DEF Has
    <3> QED
      BY <2>4, <3>1, <3>2 DEF Restrict
  <2>6. f \in DOMAIN M <=> Has(f) # {}
    <3>1. DOMAIN M = UNION {DOMAIN tables[i] : i \in DOMAIN tables}
      BY MergeOfValues
    <3>2. f \in DOMAIN M <=> \E i \in DOMAIN tables : f \in DOMAIN tables[i]
      BY <3>1
    <3> QED
      BY <3>2
  <2> HIDE DEF Has, M
  <2>7. /\ SumFunction(Amounts(tables, f)) \in Nat
        /\ Has(f) = {} => SumFunction(Amounts(tables, f)) = 0
    BY <2>2, <2>3, SumOfNumbers
  <2>8. SumFunction(Amounts(more, f)) = n + SumFunction(Amounts(tables, f))
    <3>1. SumFunction(Amounts(more, f)) =
             Amounts(more, f)[s] + SumFunction(Restrict(Amounts(more, f), (Has(f) \cup {s}) \ {s}))
      BY <2>2, <2>4, SumOfNumbers
    <3> QED
      BY <2>4, <2>5, <3>1
  <2> QED
    BY <1>3, <1>4, <2>6, <2>7, <2>8
<1> HIDE DEF M
<1>7. /\ IsTable(Plus(M, f, n)) /\ DOMAIN Plus(M, f, n) = DOMAIN M \cup {f}
      /\ \A g \in DOMAIN M : g # f => Plus(M, f, n)[g] = M[g]
      /\ Plus(M, f, n)[f] = IF f \in DOMAIN M THEN M[f] + n ELSE n
  BY <1>1, PlusIsTable
<1>8. \A g \in DOMAIN M \cup {f} : MergeOf(more)[g] = Plus(M, f, n)[g]
  BY <1>5, <1>6, <1>7
<1>9. MergeOf(more) = Plus(M, f, n)
  BY <1>1, <1>2, <1>7, <1>8, SameTable
<1> QED
  BY <1>9 DEF M

-----------------------------------------------------------------------------
\* The same in the words of the filters: however the fruits of a client are shared out
\* among the aggregations, the top of the merged tops that they send of their parts is
\* the top of all the fruits.
THEOREM JoinTopIsTop ==
    ASSUME NEW t, IsTable(t), NEW A, IsFiniteSet(A),
           NEW part \in [A -> SUBSET DOMAIN t], UNION {part[a] : a \in A} = DOMAIN t,
           \A a, b \in A : a # b => part[a] \cap part[b] = {}
    PROVE  TopOf(MergeOf([a \in A |-> TopOf(Restricted(t, part[a]))])) = TopOf(t)
<1> DEFINE Part(a) == Restricted(t, part[a])
           tops    == [a \in A |-> TopOf(Part(a))]
           Parts   == {part[a] : a \in A}
           Kept    == [P \in Parts |-> TopFruits(Restricted(t, P))]
           U       == UNION {Kept[part[a]] : a \in A}
<1>1. \A a \in A : part[a] \subseteq DOMAIN t
  OBVIOUS
<1>2. ASSUME NEW a \in A
      PROVE  /\ IsTable(Part(a)) /\ DOMAIN Part(a) = part[a]
             /\ \A f \in part[a] : Part(a)[f] = t[f]
  <2>1. IsTable(Part(a)) /\ DOMAIN Part(a) = part[a]
    BY <1>1, PartOfTable
  <2> QED
    BY <2>1 DEF Restricted
<1>3. \A P \in Parts : IsTop(Kept[P], Restricted(t, P))
  <2> SUFFICES ASSUME NEW a \in A PROVE IsTop(TopFruits(Part(a)), Part(a))
    OBVIOUS
  <2> HIDE DEF Part
  <2> QED
    BY <1>2, TopFruitsIsTop
<1>4. ASSUME NEW a \in A
      PROVE  /\ IsTable(tops[a]) /\ DOMAIN tops[a] = Kept[part[a]] /\ Kept[part[a]] \subseteq part[a]
             /\ \A f \in DOMAIN tops[a] : tops[a][f] = t[f]
  <2>1. tops[a] = TopOf(Part(a)) /\ Kept[part[a]] = TopFruits(Part(a))
    OBVIOUS
  <2> HIDE DEF tops, Kept, Part
  <2>2. /\ TopFruits(Part(a)) \subseteq DOMAIN Part(a)
        /\ IsTable(TopOf(Part(a))) /\ DOMAIN TopOf(Part(a)) = TopFruits(Part(a))
        /\ \A f \in TopFruits(Part(a)) : TopOf(Part(a))[f] = Part(a)[f]
    BY <1>2, TopFruitsIsTop
  <2> QED
    BY <1>2, <2>1, <2>2
<1>5. DOMAIN tops = A
  OBVIOUS
<1>6. U \subseteq DOMAIN t
  <2> HIDE DEF Kept, tops
  <2> SUFFICES ASSUME NEW a \in A PROVE Kept[part[a]] \subseteq DOMAIN t
    OBVIOUS
  <2> QED
    BY <1>1, <1>4
<1>7. DOMAIN MergeOf(tops) = U
  <2>1. \A a \in A : DOMAIN tops[a] = Kept[part[a]]
    <3> HIDE DEF Kept, tops
    <3> QED
      BY <1>4
  <2>2. UNION {DOMAIN tops[a] : a \in A} = U
    <3> HIDE DEF tops, Kept
    <3> QED
      BY <2>1
  <2> HIDE DEF tops, U
  <2> QED
    BY <1>5, <2>2, MergeOfValues
<1>8. IsTable(MergeOf(tops))
  <2> HIDE DEF tops, Kept
  <2> QED
    BY <1>4, <1>5, MergeIsTable
<1>9. ASSUME NEW f \in U PROVE MergeOf(tops)[f] = t[f]
  <2> HIDE DEF tops, Kept
  <2>1. PICK a \in A : f \in Kept[part[a]]
    OBVIOUS
  <2>2. f \in DOMAIN tops[a] /\ IsTable(tops[a]) /\ tops[a][f] = t[f]
    BY <1>4, <2>1
  <2>3. \A b \in A : f \in DOMAIN tops[b] => b = a
    BY <1>4, <2>1
  <2> QED
    BY <1>5, <2>2, <2>3, MergeOfOne
<1>10. MergeOf(tops) = Restricted(t, U)
  <2> HIDE DEF tops, U
  <2>1. IsTable(Restricted(t, U)) /\ DOMAIN Restricted(t, U) = U
    BY <1>6, PartOfTable
  <2>2. \A f \in U : Restricted(t, U)[f] = t[f]
    BY DEF Restricted
  <2> QED
    BY <1>7, <1>8, <1>9, <2>1, <2>2, SameTable
<1>11. IsTop(TopFruits(Restricted(t, U)), t)
  <2>1. U = Forwarded(Kept, Parts)
    <3> HIDE DEF Kept
    <3> QED
      BY DEF Forwarded
  <2> HIDE DEF U, Kept
  <2>2. UNION Parts = DOMAIN t
    OBVIOUS
  <2>3. IsTop(TopFruits(Restricted(t, U)), Restricted(t, U))
    BY <1>6, PartOfTable, TopFruitsIsTop
  <2> HIDE DEF Parts
  <2> QED
    BY <1>3, <2>1, <2>2, <2>3, TopOfTops
<1>12. TopFruits(Restricted(t, U)) = TopFruits(t)
  <2> HIDE DEF U
  <2> QED
    BY <1>11, TopFruitsIsTop, TopIsUnique
<1>13. TopOf(Restricted(t, U)) = TopOf(t)
  <2> HIDE DEF U
  <2>1. IsTable(Restricted(t, U)) /\ DOMAIN Restricted(t, U) = U
    BY <1>6, PartOfTable
  <2>2. \A f \in TopFruits(t) : Restricted(t, U)[f] = t[f]
    BY <1>12, <2>1, TopFruitsIsTop DEF Restricted
  <2>3. /\ IsTable(TopOf(Restricted(t, U))) /\ IsTable(TopOf(t))
        /\ DOMAIN TopOf(Restricted(t, U)) = TopFruits(t) /\ DOMAIN TopOf(t) = TopFruits(t)
        /\ \A f \in TopFruits(t) : TopOf(Restricted(t, U))[f] = Restricted(t, U)[f]
        /\ \A f \in TopFruits(t) : TopOf(t)[f] = t[f]
    BY <1>12, <2>1, TopFruitsIsTop
  <2> QED
    BY <2>2, <2>3, SameTable
<1> HIDE DEF U, tops
<1>14. TopOf(MergeOf(tops)) = TopOf(t)
  BY <1>10, <1>13
<1> QED
  BY <1>14 DEF tops

=============================================================================
