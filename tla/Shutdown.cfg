\* A Sum, an aggregation or the join; one connection fails at most; fairness.
SPECIFICATION FairSpec
CONSTANTS
    MaxFaults = 1
    MaxSwallowed = 2
INVARIANTS
    TypeOK
    FewMessagesAfterStop
    OutputOutlivesItsUsers
PROPERTIES
    SignalEndsWorker
CHECK_DEADLOCK FALSE
