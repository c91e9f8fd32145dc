CONSTANTS
    DbOp = {"hasBlob", "deleteBlob"}
    MaxCalls = 3
    LegacyRow = {"l1", "l2"}
    NewRow = {"n"}
    MaxStarts = 3
    Sha = {1, 2, 3}
    PageLimit = 2
    MaxClock = 2
    ReportEvent = {"e1", "e2"}
    Reported = {"h1", "h2"}
    Signed = {"s1", "s2"}
    Guarded = {"g1", "g2"}
    Skew = 1
    RateWindow = 2
    RateMax = 1
    AdminTTL = 1
    AdminTimeout = 1
    MaxSecond = 3
    QFile = {1, 2, 3}
    QRun = {"q1", "q2"}
    BatchSize = 2
    Concurrency = 1
    MaxRetries = 1
    Tier = {1, 2}
    Customer = {"c1"}
    MaxInvoices = 2
    SignerKey = {"k1", "k2"}
    SiteOrigin = {"o1"}
    PopupCall = {"p1", "p2"}
    Npub = {a}
    Hash = {h}
    NULL = NULL
    GraceDays = 1
    WriteBlockedDays = 0
    ReadBlockedDays = 1
    Period = 1
    Allowance = {0, 1}
    MaxTime = 2
    Request = {r1, r2}
    TTL = 1
    MaxInflight = 1
    MaxBlob = 4
    NodeConf <- MCNodeConf
    Ask <- MCAsk
    SizeLimit = 1
    ClockSkew = 1
    LastSecond = 1
    Storage = {1, 2, 3}
    Host <- MCHost
    ReplicaTarget = 2
    Seed = {0, 1}
    MaxChanges = 3
    Holder = {"k1", "k2"}
    OwnBlob = {"h1"}
    MaxRefreshes = 2
    BlobKey = {"b1"}
    Session = {"w1", "w2"}
    MaxRemovals = 1
    MaxBoots = 2
SPECIFICATION Spec
INVARIANT AnswersMatch LegacyKept WalkComplete ReportsDismissed AcceptedOnce RoleRecent RowsWorkedOnce DialogTrue EditsKept   RangeExact   DashboardTrue StoreHonest
CHECK_DEADLOCK FALSE
