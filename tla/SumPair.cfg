SPECIFICATION Spec
CONSTANTS
    s1 = s1
    s2 = s2
    c1 = c1
    c2 = c2
    apple = apple
    pear = pear
    Sums = {s1, s2}
    Clients = {c1, c2}
    Records = {1, 2, 3}
    Fruits = {apple, pear}
    AGGREGATION_AMOUNT = 2
    ClientOf <- MCClientOf
    FruitOf <- MCFruitOf
    TargetAggregation <- MCTargetAggregation
    LateSums = {}
    Breakable = {}
    MaxFaults = 0
    MaxNacks = 0
INVARIANTS
    TypeOK
    NoDoubleCount
    LossWindow
    TakerLosesNothing
    FlushThenEof
    CounterSettles
    AlmostAllForwarded
PROPERTIES
    FinishedIsFinal
SYMMETRY Symmetry
