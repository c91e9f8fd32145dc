SPECIFICATION LiveSpec
CONSTANTS
    u1 = u1
    u2 = u2
    h1 = h1
    h2 = h2
    t1 = t1
    t2 = t2
    t3 = t3
    Npub = {u1, u2}
    Hash = {h1, h2}
    SizeOf <- MCSizeOf
    Allowance = {2, 3}
    Tx = {t1, t2}
    NoTx = NoTx
    NULL = NULL
INVARIANTS Accounting
PROPERTIES ImplementsLedger TxTerminates
