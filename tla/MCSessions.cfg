SPECIFICATION Spec
CONSTANTS
    Calls = {c1, c2, c3}
    Kinds = {"login", "refresh", "logout", "logoutAll", "changePassword",
             "forgotPassword", "resetPassword", "setUserStatus"}
    Passwords = {p1, p2}
    First = p1
    MaxAttempts = 2
    MaxServed = 4
    MaxFaults = 1
SYMMETRY Symmetric
INVARIANTS
    StateOK
    OneLiveTokenPerSession
    PasswordStands
    AccessIsCurrent
