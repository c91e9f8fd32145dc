SPECIFICATION Spec
CONSTANTS
    alice = alice
    bob = bob
    r1 = r1
    r2 = r2
    png = png
    none = none
    absent = absent
    w1 = w1
    Pubkey = {alice, bob}
    Original = {1}
    Mime = {png}
    NoType = none
    OptMime = png
    Absent = absent
    Req = {r1, r2}
    Worker = {w1}
    MaxJobs = 1
    Rules = {"*"}
    Ops = {"upload", "mirror", "media", "delete", "admin", "user", "prune", "read"}
    Faults = {"worker", "commit", "insert", "unlink", "crash"}
    MaxRequests = 3
INVARIANT DiskMatchesIndex ResourcesReturned
 
SYMMETRY Symmetric
CHECK_DEADLOCK FALSE
