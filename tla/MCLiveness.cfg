SPECIFICATION FairSpec
CONSTANTS
    a1 = a1  a2 = a2  d1 = d1  d2 = d2  d3 = d3  junk = junk
    k1 = k1  k2 = k2  r1 = r1  r2 = r2  r3 = r3  u1 = u1  u2 = u2  None = None
    Digests = {d1}
    Apps = {a1}
    InitApps = {a1}
    IdemKeys = {}
    Reqs = {r1, r2}
    Calls <- LivenessCalls
    Contents = {d1, junk}
    SizeOf <- MCSizeOf
    Puts <- LivenessPuts
    PoolSize = 1
    MaxCount = 0
    MaxBytes = 1
    MaxObject = 0
    Retain = 0
    RequirePresign = FALSE
    VerifyHash = TRUE
    MaxRows = 3
    Uploads = {u1}
    Failing = {"lookup", "app", "store"}
    Legacy = {}
PROPERTIES RequestsAnswered PendingResolved
CHECK_DEADLOCK FALSE
