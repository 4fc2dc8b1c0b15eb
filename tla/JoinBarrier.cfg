\* Two aggregations and two clients, with one failure of any connection.
SPECIFICATION Spec
CONSTANTS
    c1 = c1
    c2 = c2
    Clients = {c1, c2}
    Fruits = {1, 2, 3}
    TOP_SIZE = 1
    AGGREGATION_AMOUNT = 2
    PartialTop <- MCPartialTop
    Breakable = {"input", "coordination", "output"}
    MaxFaults = 1
INVARIANTS
    TypeOK
    FinalTopIsExact
    NoLostWakeup
PROPERTIES
    CompletedIsFinal
CHECK_DEADLOCK FALSE
