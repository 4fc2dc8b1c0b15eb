SPECIFICATION Spec
CONSTANTS
    c1 = c1
    c2 = c2
    former = former
    Clients = {c1}
    Former = {}
    UploadSize <- MCUploadSize
    POOL_SIZE = 2
    MaxCrashes = 0
    MaxFaults = 0
INVARIANTS
    ClientWritesItsTop
CHECK_DEADLOCK FALSE
