SPECIFICATION Spec
CONSTANTS
    w1 = w1
    w2 = w2
    p1 = p1
    p2 = p2
    d1 = d1
    ann = ann
    ben = ben
    c1 = c1
    c2 = c2
    Wallets <- TwoWallets
    Postings <- TwoPostings
    Deposits <- OneDeposit
    Calls <- TwoCalls
    Makers <- TwoStaff
    Approvers <- TwoStaff
    Funds <- Held
    Drafts <- EachKind
    Worth <- Worth500
    MaxFaults = 1
    Throttles = FALSE
SYMMETRY AnySymmetry
CHECK_DEADLOCK FALSE
INVARIANTS
    PostedHasMoved
    FailedCreditMovedNothing
PROPERTIES
    KeepsTheBooks
