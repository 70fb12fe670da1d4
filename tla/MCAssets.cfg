SPECIFICATION AssetsSpec
CONSTANTS
    Generated = {g1}
    Covers = {c1}
    Users = {u1}
    Rows = {r1, r2}
    Callers = {q1, q2}
    Scripts = {k1}
    Batch = 1
    Foreign = Foreign
    MaxNames = 1
    MaxFailures = 1
SYMMETRY Symmetric
INVARIANTS
    AssetsTypeOK
    FilesMatchRows
PROPERTIES
    AvatarsStay
