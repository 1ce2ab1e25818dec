SPECIFICATION Spec
CONSTANTS
    s1 = s1
    s2 = s2
    A = A
    B = B
    u1 = u1
    u2 = u2
    k1 = k1
    k2 = k2
    R1 = R1
    External = External
    NoAccount = NoAccount
    Submissions <- TwoSubmissions
    Requests <- Retried
    Users = {u1, u2}
    Keys = {k1, k2}
    References = {R1}
    Names <- BankNames
    Accounts <- BankAccounts
    AccountOf <- OwnAccounts
    FraudLimit = 2
    TopupLimit = 4
    MaxAttempts = 2
    MaxFaults = 1
PROPERTIES
    ShutdownFinishesRequests
