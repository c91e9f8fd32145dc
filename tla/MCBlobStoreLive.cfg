SPECIFICATION LiveStoreSpec
CONSTANTS
    u1 = u1
    u2 = u2
    h1 = h1
    t1 = t1
    t2 = t2
    n1 = n1
    n2 = n2
    Npub = {u1}
    Hash = {h1}
    SizeOf <- MCSizeOf
    Allowance = {1}
    Tx = {t1, t2}
    NoTx = NoTx
    NULL = NULL
    Node = {n1}
    ReplicaCount = 1
    Faults = {"abort", "answer", "crash"}
PROPERTIES RequestsAnswered
