SPECIFICATION Spec
CONSTANTS
    w1 = w1
    power = power
    airtime = airtime
    desk = desk
    Wallets <- OneWallet
    Bills <- OneBill
    Desks <- OneDesk
    WalletOf <- AllFromOne
    Amount <- Mixed
    Fee <- Fees
    Electric <- OneBill
    Funds <- Scarce
    DailyCap <- NoCap
    Attempts = 1
    TokenAttempts = 1
    MaxStalls = 1
    MaxAborts = 0
    TransferApiKnowsBills = FALSE
    NoTransactionIsFinal = TRUE
CHECK_DEADLOCK FALSE
INVARIANT
    PaidNeverRefunded
