SPECIFICATION AccountsSpec
CONSTANTS
    r1 = r1
    r2 = r2
    r3 = r3
    Requests <- TwoRequests
    MaxBalance = 1
    MaxInFlight = 1
    MaxAsked = 1
    MaxSubmitted = 1
    Uploads = {u1, u2, u3}
    Customers = {a, b}
    Liveness = {l1, l2}
    Nins = {x, y}
    Checks = {q1, q2}
    Calls = {q1}
    DeviceRequired = TRUE
    Pins = {a, b}
SYMMETRY RequestSymmetry
CHECK_DEADLOCK FALSE
INVARIANTS
    ClosedEmpty
    RestoredAfterRefusal
    DecidedOnce
    FileIsThere
    LivenessSpentOnce
    TakesEffectAtOnce
    AuditedOrFailed
    PinStandsBehind
