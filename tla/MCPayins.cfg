SPECIFICATION FairSpec
CONSTANTS
    w1 = w1
    d1 = d1
    h1 = h1
    h2 = h2
    k1 = k1
    k2 = k2
    Wallets <- OneWallet
    Deposits <- OneDeposit
    Handlers <- TwoHandlers
    Workers <- TwoWorkers
    WalletOf <- IntoOne
    Amount <- Hundreds
    Funds <- Empty
    Attempts = 3
    MaxStalls = 1
    MaxExtra = 2
    MaxAborts = 4
    RecordLags = FALSE
    Overlap = FALSE
CHECK_DEADLOCK FALSE
INVARIANTS
    NeverCreditedUnconfirmed
    StatusTellsCredit
PROPERTIES
    KeepsTheBooks
    DepositLands
