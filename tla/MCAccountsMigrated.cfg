SPECIFICATION Spec
CONSTANTS
    Emails = {e1, e2}
    Googles = {g1}
    Requests = {p1, p2}
    PoolMax = 1
    Disposable = {e2}
    CaptchaEnabled = TRUE
    MailConfigured = TRUE
    NullableHash = FALSE
    None = None
    MaxLinks = 3
    MaxFaults = 1
PROPERTIES
    GoogleUsersGetIn
