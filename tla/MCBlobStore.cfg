SPECIFICATION StoreSpec
CONSTANTS
    u1 = u1
    u2 = u2
    h1 = h1
    t1 = t1
    t2 = t2
    n1 = n1
    n2 = n2
    Npub = {u1, u2}
    Hash = {h1}
    SizeOf <- MCSizeOf
    Allowance = {1}
    Tx = {t1, t2}
    NoTx = NoTx
    NULL = NULL
    Node = {n1, n2}
    ReplicaCount = 2
    Faults = {"put", "delete", "abort", "answer", "lookup"}
INVARIANTS OwnedBytesSurvive NoOrphans ModerationAudited
SYMMETRY Symmetry
CONSTRAINT NothingRaced
