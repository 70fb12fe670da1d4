SPECIFICATION AdSpec
CONSTANTS
    Users = {u1}
    LastDay = 2
    Amounts = {1}
    MaxInt = 9
    Opening <- MCOpening
    Transactions = {t1, t2}
    Owner <- MCOwner
    Deliveries = {d1, d2, d3}
    NoTransaction = NoTransaction
    LostAnswers = TRUE
    MaxFaults = 2
    MaxCrashes = 1
INVARIANTS
    StateOK
    AdsAreAccountedFor
PROPERTIES
    EveryAdAcknowledged
