SPECIFICATION Spec
CONSTANTS
    Requests = {r1, r2}
    NoRequest = NoRequest
    Processes = {n1, n2}
    Tokens = {t1}
    u1 = u1
    h1 = h1
    h2 = h2
    Bound <- MCBound
    Phone <- MCPhone
    Kinds <- Retries
    PollAttempts = 1
    DecodeLimit = 1
    MaxAccidents = 1
    MaxLapses = 0
    Enforcement = "enforce"
    CertificatesListed = FALSE
SYMMETRY Symmetric
INVARIANTS
    OutageNeverBlocks
