SPECIFICATION Spec
CONSTANTS
    w1 = w1
    p1 = p1
    p2 = p2
    p3 = p3
    desk = desk
    Wallets <- OneWallet
    Payouts <- ThreePayouts
    Desks <- NoDesk
    WalletOf <- AllFromOne
    Amount <- Mixed
    Funds <- Plenty
    DailyCap <- Cap14k
    TransferCap <- Cap14k
    DeviceCap <- Cap15k
    EnforceCaps = TRUE
    FreePerDay = 1
    Attempts = 1
    MaxStalls = 0
    MaxAborts = 0
    LastDay = 1
    EarlyRequery = FALSE
    NoTransactionIsFinal = TRUE
SYMMETRY SmallSymmetry
CHECK_DEADLOCK FALSE
INVARIANT
    LimitsKept
