SPECIFICATION Spec
CONSTANTS
    r1 = r1
    r2 = r2
    r3 = r3
    d1 = d1
    d2 = d2
    None = None
    Requests <- TwoRequests
    Earlier = Earlier
    Devices <- TwoDevices
    MaxItems = 2
    MaxFailedAttempts = 1
    MaxItemAttempts = 1
    MaxPasswords = 1
SYMMETRY AnySymmetry
CHECK_DEADLOCK FALSE
INVARIANTS
    GuessesBounded
    LockIsTold
    ItemsSpentOnce
    NewPasswordRules
    NewDeviceLimited
