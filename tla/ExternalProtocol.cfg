\* Three bytes to an integer.
SPECIFICATION FairSpec
CONSTANTS
    BASE = 8
    UINT32_SIZE = 3
    Scripts <- MCScripts
INVARIANTS
    TypeOK
    ReceivedIsSent
    WideNameIsLast
    NothingHalfWritten
PROPERTIES
    PlainMessagesArrive
CHECK_DEADLOCK FALSE
