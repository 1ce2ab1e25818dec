SPECIFICATION BankSpec
CONSTANTS
    s1 = s1
    s2 = s2
    A = A
    B = B
    u1 = u1
    k1 = k1
    R1 = R1
    External = External
    NoAccount = NoAccount
    Submissions <- OneSubmission
    Requests <- AttemptsOfOne
    Bodies <- OnlyAllOfA
    Users = {u1}
    Keys = {k1}
    References <- BankReferences
    Names <- BankNames
    Accounts <- BankAccounts
    Calls <- BankCalls
    Opening <- BankOpening
    AccountOf <- OwnAccounts
    FraudLimit = 2
    TopupLimit = 4
    MaxAttempts = 2
    PoolSize = 4
    MaxFaults = 0
    MaxFailures = 0
INVARIANTS
    RefusedMeansUnposted
