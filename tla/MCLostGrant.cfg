SPECIFICATION Spec
CONSTANTS
    u1 = u1
    u2 = u2
    p1 = p1
    p2 = p2
    p3 = p3
    t1 = t1
    t2 = t2
    Npub = {u1}
    Payment = {p1, p2, p3}
    Request <- MCPurchases
    Tx = {t1, t2}
    NoTx = NoTx
    NULL = NULL
    MaxNow = 2
INVARIANTS NoLostGrant
