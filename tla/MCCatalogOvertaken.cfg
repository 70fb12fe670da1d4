SPECIFICATION Spec
CONSTANTS
    s1 = s1
    s2 = s2
    t1 = t1
    t2 = t2
    Styles = {s1, s2}
    Tags = {t1, t2}
    Vocabulary = {t1}
    Requests = {q1, q2}
    Backfills = {b1}
    Readers = {r1}
    Saves <- MCSaves
    Lists <- MCLists
    SortOrder <- MCSortOrder
    MaxAttempts = 1
    FallbackModel = TRUE
    None = None
    MaxPosition = 1
    MaxChanges = 2
    MaxFaults = 0
SYMMETRY MCSymmetry
INVARIANTS
    ChangesReflected
