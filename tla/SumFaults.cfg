SPECIFICATION Spec
CONSTANTS
    s1 = s1
    s2 = s2
    c1 = c1
    c2 = c2
    apple = apple
    pear = pear
    Sums = {s1, s2}
    Clients = {c1}
    Records = {1, 2, 4}
    Fruits = {apple, pear}
    AGGREGATION_AMOUNT = 2
    ClientOf <- MCClientOf
    FruitOf <- MCFruitOf
    TargetAggregation <- MCTargetAggregation
    LateSums = {s2}
    Breakable = {"data", "control", "output", "broadcast"}
    MaxFaults = 1
    MaxNacks = 1
INVARIANTS
    NoDoubleCount
    RetryAddsAtMostOne
    NothingVanishes
PROPERTIES
    FinishedIsFinal
CHECK_DEADLOCK FALSE
