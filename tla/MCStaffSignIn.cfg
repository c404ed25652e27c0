SPECIFICATION Spec
CONSTANTS
    r1 = r1
    r2 = r2
    r3 = r3
    d1 = d1
    d2 = d2
    d3 = d3
    t1 = t1
    t2 = t2
    t3 = t3
    s1 = s1
    s2 = s2
    c1 = c1
    c2 = c2
    c3 = c3
    None = None
    Requests <- TwoRequests
    Devices <- TwoDevices
    Tokens <- ThreeTokens
    Secrets <- TwoSecrets
    RecoveryCodes <- ThreeCodes
    Steps <- TwoSteps
    MaxFailedAttempts = 1
    MaxDevices = 1
    Settings <- AllOrNothing
SYMMETRY AnySymmetry
CHECK_DEADLOCK FALSE
INVARIANTS
    CodesSpentOnce
    LimitsKept
PROPERTIES
    RevokedStaysOut
    EndedStaysEnded
