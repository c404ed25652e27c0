SPECIFICATION FairSpec
CONSTANTS
    w1 = w1
    p1 = p1
    p2 = p2
    p3 = p3
    desk = desk
    Wallets <- OneWallet
    Payouts <- OnePayout
    Desks <- OneDesk
    WalletOf <- AllFromOne
    Amount <- Small
    Funds <- Plenty
    DailyCap <- NoCap
    TransferCap <- NoCap
    DeviceCap <- NoCap
    EnforceCaps = TRUE
    FreePerDay = 1
    Attempts = 2
    MaxStalls = 1
    MaxAborts = 3
    LastDay = 0
    EarlyRequery = FALSE
    NoTransactionIsFinal = TRUE
CHECK_DEADLOCK FALSE
PROPERTIES
    SettledOrEscalated
    StaffCanSettle
