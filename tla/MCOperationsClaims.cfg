SPECIFICATION Spec
CONSTANTS
    LastFile = 2
    Versions = {v1, v2}
    Databases = {production, scratch}
    Production = production
    Scratch = scratch
    Runners = {r1}
    Critical = {1}
    None = None
    MaxEdits = 2
    MaxAccidents = 1
    Objects = {1, 2, 3}
    PageSize = 1
    MaxPages = 3
    MaxUploads = 1
    MaxFaults = 1
    Callers = {a1, a2, a3}
    Pages = 2
    PageCap = 3
    Nobody = Nobody
    MaxOutages = 2
    Plans <- MCPlans
CHECK_DEADLOCK FALSE
INVARIANTS
    CompleteIsComplete
    OneWalk
