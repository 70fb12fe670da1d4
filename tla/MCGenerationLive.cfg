SPECIFICATION Spec
CONSTANTS
    Users = {u1}
    LastDay = 1
    Amounts = {1}
    MaxInt = 2
    Opening <- MCOpening
    Requests = {r1, r2}
    Kinds <- KeyOrNone
    Mixes <- AllMixes
    Keys = {k1}
    NoKey = NoKey
    Cost = 1
    MaxConcurrent = 2
    NoRequest = NoRequest
    MaxFaults = 0
    MaxCrashes = 0
    MaxExpiries = 1
PROPERTIES
    EverythingSettles
