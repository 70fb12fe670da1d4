SPECIFICATION Spec
CONSTANTS
    Users = {u1}
    Origins = {o1}
    OriginOf <- MCOriginOf
    Sweeps = {s1, s2}
    Enabled = TRUE
    Watched = {"generation_velocity", "concurrent_session_origins"}
    Verdicts = {"active", "banned"}
    Threshold = 1
    High = 2
    Window = 1
    Interval = 1
    MaxFindings = 1
    LastTick = 1
    MaxEvents = 2
    MaxDecisions = 1
    MaxFaults = 1
SYMMETRY Symmetric
INVARIANTS
    StateOK
    SuspensionsAreOnFile
PROPERTIES
    SweepsRespectStatus
