SPECIFICATION AdSpec
CONSTANTS
    Users = {u1}
    LastDay = 2
    Amounts = {1}
    MaxInt = 9
    Opening <- MCOpening
    Transactions = {t1}
    Owner <- MCOwner
    Deliveries = {d1, d2}
    NoTransaction = NoTransaction
    LostAnswers = FALSE
    MaxFaults = 1
    MaxCrashes = 0
INVARIANTS
    NeverSwallowed
