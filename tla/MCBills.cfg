SPECIFICATION FairSpec
CONSTANTS
    w1 = w1
    power = power
    airtime = airtime
    desk = desk
    Wallets <- OneWallet
    Bills <- TwoBills
    Desks <- OneDesk
    WalletOf <- AllFromOne
    Amount <- Mixed
    Fee <- Fees
    Electric <- OneBill
    Funds <- Scarce
    DailyCap <- NoCap
    Attempts = 1
    TokenAttempts = 2
    MaxStalls = 1
    MaxAborts = 2
    TransferApiKnowsBills = TRUE
    NoTransactionIsFinal = TRUE
CHECK_DEADLOCK FALSE
INVARIANT
    NeverRefundedAndPaid
PROPERTIES
    KeepsTheBooks
    TokenKeptOrEscalated
