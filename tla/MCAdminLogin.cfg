SPECIFICATION AdminSpec
CONSTANTS
    Logins = {l1, l2}
    MaxAttempts = 2
    RecoveryCodes = 1
    Window = 1
    LastStep = 1
    MaxEnrolments = 2
    MaxAdminFaults = 1
SYMMETRY Symmetric
INVARIANTS
    AdminStateOK
    CodesPayForTokens
PROPERTIES
    OneTimeUse
