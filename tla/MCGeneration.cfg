SPECIFICATION Spec
CONSTANTS
    Users = {u1}
    LastDay = 1
    Amounts = {1}
    MaxInt = 2
    Opening <- MCOpening
    Requests = {r1, r2, r3}
    Kinds <- AnyKey
    Mixes <- AnyMix
    Keys = {k1}
    NoKey = NoKey
    Cost = 1
    MaxConcurrent = 2
    NoRequest = NoRequest
    MaxFaults = 1
    MaxCrashes = 1
    MaxExpiries = 1
SYMMETRY Symmetric
INVARIANTS
    StateOK
    ChargesMatchOutcomes
    ClaimsAreHeld
    OneDeliveryPerKey
