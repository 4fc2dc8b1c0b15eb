SPECIFICATION FairSpec
CONSTANTS
    c1 = c1
    c2 = c2
    former = former
    Clients = {c1, c2}
    Former = {former}
    UploadSize <- MCUploadSize
    POOL_SIZE = 2
    MaxCrashes = 1
    MaxFaults = 1
INVARIANTS
    TypeOK
    ResultFindsItsClient
    OwnTopOnly
    ResponderSurvives
    EofIsLast
PROPERTIES
    EveryClientAnswered
CHECK_DEADLOCK FALSE
