SPECIFICATION MeshSpec
CONSTANTS
    m1 = m1
    m2 = m2
    d1 = d1
    r1 = r1
    r2 = r2
    Member = {m1, m2}
    Device = {d1}
    Bootstrap = {m1, m2}
    Req = {r1, r2}
    NoReq = NoReq
    NULL = NULL
    Faults = {"db", "late_storage", "mesh", "crash"}
    MaxLate = 1
    AdminHost = {"a", "b"}
    UnlockTask = {"u1", "u2"}
    MaxGeneration = 3
    Tab = {"t1", "t2"}
    Credential = {"c1", "c2"}
    MaxDeeds = 4
    Provider = {"p1"}
    DdlClient = {"d1"}
    MaxVersion = 2
    MeshRow = {1}
    MeshNode = {"n1", "n2"}
    Ring <- MCRing
    BatchOps = 2
    MaxOps = 2
INVARIANTS SomeAdmin RevokedOwnsNothing MeshMatches ShownIsOpened ProfilesKept MigratedOnce EffectivelyOnce
PROPERTIES OwnerFixed
SYMMETRY Symmetry
CHECK_DEADLOCK FALSE
