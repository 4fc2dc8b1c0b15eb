------------------------------ MODULE FruitTop ------------------------------
(***************************************************************************)
(* The data of the top: what FruitItem, the list of an aggregation and the *)
(* dictionary of the join compute.  A table stands for a list of           *)
(* (fruit, amount) pairs, or a dictionary, in which each fruit is once.    *)
(* Fruits are numbers, in the order of their names.  The comparison is a   *)
(* total order, so the list that sorted(items, reverse=True)[:TOP_SIZE]    *)
(* gives is determined by the SET of its items, which is what is kept.     *)
(***************************************************************************)
EXTENDS Integers, FiniteSets, FiniteSetsExt, Functions

CONSTANTS Fruits, TOP_SIZE

ASSUME FruitTopAssumption ==
    /\ Fruits \subseteq Nat
    /\ IsFiniteSet(Fruits)
    /\ TOP_SIZE \in Nat

IsTable(t) == DOMAIN t \subseteq Fruits /\ t \in [DOMAIN t -> Nat]

NoFruits == [f \in {} |-> 0]

\* FruitItem.__lt__, read from right to left: f goes before g in the top.
Before(t, f, g) == t[f] > t[g] \/ (t[f] = t[g] /\ f > g)

\* S is the fruits of the first TOP_SIZE items of t.
IsTop(S, t) ==
    /\ S \subseteq DOMAIN t
    /\ Cardinality(S) = IF Cardinality(DOMAIN t) <= TOP_SIZE THEN Cardinality(DOMAIN t)
                                                             ELSE TOP_SIZE
    /\ \A f \in S, g \in DOMAIN t \ S : Before(t, f, g)

Restricted(t, S) == [f \in S |-> t[f]]
TopFruits(t) == CHOOSE S \in SUBSET DOMAIN t : IsTop(S, t)
TopOf(t) == Restricted(t, TopFruits(t))

\* One more (fruit, amount) in the list: FruitItem.__add__ on the item of that
\* fruit, or a new item.
Plus(t, f, n) ==
    [g \in DOMAIN t \cup {f} |-> IF g # f THEN t[g] ELSE IF f \in DOMAIN t THEN t[f] + n ELSE n]

\* The amounts of several tables, fruit by fruit.
MergeOf(tables) ==
    [f \in UNION {DOMAIN tables[i] : i \in DOMAIN tables} |->
        SumFunction([i \in {j \in DOMAIN tables : f \in DOMAIN tables[j]} |-> tables[i][f]])]

=============================================================================
