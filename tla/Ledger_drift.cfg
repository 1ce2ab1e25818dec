SPECIFICATION Spec
CONSTANTS
    r1 = r1
    r2 = r2
    r3 = r3
    A = A
    B = B
    X = X
    Requests <- ThreeRequests
    References = {"R1", "R2", "R3"}
    Names <- NamesOrUnknown
    Accounts <- TwoAccounts
    Calls <- Rivals
    Opening <- OpeningBalances
    PoolSize = 4
    MaxFaults = 0
SYMMETRY Symmetry
INVARIANTS
    BalanceMatchesJournal
