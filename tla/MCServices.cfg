SPECIFICATION ServicesSpec
CONSTANTS
    s1 = s1
    s2 = s2
    r1 = r1
    r2 = r2
    e1 = e1
    t1 = t1
    t2 = t2
    t3 = t3
    t4 = t4
    None = None
    SignIns <- TwoSignIns
    Refreshes <- TwoRefreshes
    Ends <- OneEnd
    Tokens <- FourTokens
    Processes = {p1, p2}
    VfdCalls = {c1, c2, c3}
    MaxTokens = 4
    Notices = {n1}
    NumCustomers = 2
    BATCH = 1
    MaxOutages = 1
    MaxEmitted = 2
    MaxStalls = 1
    MaxChanges = 1
    DeadLetterExchange = FALSE
SYMMETRY AnySymmetry
CHECK_DEADLOCK FALSE
INVARIANTS
    OneChain
    CallsGetThrough
    EveryoneOncePerRun
    DeliveredAsAsked
PROPERTIES
    DeadStaysDead
