SPECIFICATION FairSpec
CONSTANTS
    r1 = r1
    r2 = r2
    c1 = c1
    Requests <- TwoRequests
    Consumers <- OneConsumer
    MaxCodes = 1
    MaxMessages = 1
    MaxFaults = 1
CHECK_DEADLOCK FALSE
INVARIANTS
    AskedExactlyOnce
PROPERTIES
    BarredStaysBarred
    GetsAccount
