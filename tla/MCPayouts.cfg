SPECIFICATION Spec
CONSTANTS
    w1 = w1
    p1 = p1
    p2 = p2
    p3 = p3
    desk = desk
    Wallets <- OneWallet
    Payouts <- TwoPayouts
    Desks <- OneDesk
    WalletOf <- AllFromOne
    Amount <- Small
    Funds <- Scarce
    DailyCap <- NoCap
    TransferCap <- NoCap
    DeviceCap <- NoCap
    EnforceCaps = TRUE
    FreePerDay = 2
    Attempts = 1
    MaxStalls = 1
    MaxAborts = 1
    LastDay = 0
    EarlyRequery = FALSE
    NoTransactionIsFinal = TRUE
SYMMETRY TwoSymmetry
CHECK_DEADLOCK FALSE
INVARIANT
    NeverRefundedAndPaid
PROPERTY
    KeepsTheBooks
