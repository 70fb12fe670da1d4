SPECIFICATION Spec
CONSTANTS
    Calls = {c1, c2}
    Kinds = {"login", "refresh", "changePassword"}
    Passwords = {p1, p2}
    First = p1
    MaxAttempts = 2
    MaxServed = 4
    MaxFaults = 0
INVARIANTS
    PasswordChangeEndsAccess
    TheftEndsTheSession
