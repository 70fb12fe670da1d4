SPECIFICATION Spec
CONSTANTS
    Requests = {r1, r2, r3}
    NoRequest = NoRequest
    Processes = {n1, n2}
    Tokens = {t1}
    u1 = u1
    h1 = h1
    h2 = h2
    Bound <- MCBound
    Phone <- MCPhone
    Kinds <- AnyRequest
    PollAttempts = 2
    DecodeLimit = 1
    MaxAccidents = 1
    MaxLapses = 2
    Enforcement = "enforce"
    CertificatesListed = FALSE
SYMMETRY Symmetric
INVARIANTS
    StateOK
    InFlightIsExact
    VerdictsAreEarned
    BlockedHasACause
