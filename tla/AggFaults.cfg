\* A Sum starts again once, at any point, with one record more; one connection
\* fails; aggregation 1 comes up late.
SPECIFICATION Spec
CONSTANTS
    s1 = s1
    s2 = s2
    c1 = c1
    c2 = c2
    Sums = {s1, s2}
    Clients = {c1}
    Fruits = {1, 2, 3}
    TOP_SIZE = 1
    AGGREGATION_AMOUNT = 2
    TargetAggregation <- MCTargetAggregation
    Uploaded <- MCUploaded
    LateAggs = {1}
    Breakable = {"input", "output", "coordination"}
    MaxFaults = 1
    MaxResends = 1
INVARIANTS
    TypeOK
    TopIsExact
PROPERTIES
    SignalFollowsTop
    CompletedIsFinal
CHECK_DEADLOCK FALSE
