SPECIFICATION FairSpec
CONSTANTS
    Emails = {e1, e2}
    Googles = {g1}
    Requests = {p1, p2}
    PoolMax = 1
    Disposable = {e2}
    CaptchaEnabled = TRUE
    MailConfigured = TRUE
    NullableHash = TRUE
    None = None
    MaxLinks = 3
    MaxFaults = 1
INVARIANTS
    StateOK
    NobodyIsStranded
PROPERTIES
    LinksAreOneTime
    EveryRequestEnds
