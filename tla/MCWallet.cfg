SPECIFICATION Spec
CONSTANTS
    Users = {u1}
    LastDay = 2
    Amounts = {1}
    MaxInt = 3
    Opening <- MCOpening
    Calls = {c1, c2, c3}
    PoolMax = 2
    NoCall = NoCall
INVARIANTS
    TypeOK
    TransactionsAreIsolated
PROPERTIES
    LedgerSpec
    EveryCallReturns
