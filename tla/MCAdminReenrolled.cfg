SPECIFICATION AdminSpec
CONSTANTS
    Logins = {l1, l2}
    MaxAttempts = 2
    RecoveryCodes = 1
    Window = 0
    LastStep = 1
    MaxEnrolments = 2
    MaxAdminFaults = 0
SYMMETRY Symmetric
INVARIANTS
    PresentedOnce
