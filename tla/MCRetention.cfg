SPECIFICATION Spec
CONSTANTS
    a1 = a1  a2 = a2  d1 = d1  d2 = d2  d3 = d3  junk = junk
    k1 = k1  k2 = k2  r1 = r1  r2 = r2  r3 = r3  u1 = u1  u2 = u2  None = None
    Digests = {d1, d2, d3}
    Apps = {a1}
    InitApps = {a1}
    IdemKeys = {}
    Reqs = {r1, r2}
    Calls <- RetentionCalls
    Contents = {d1, d2, d3, junk}
    SizeOf <- MCSizeOf
    Puts <- NoPuts
    PoolSize = 2
    MaxCount = 0
    MaxBytes = 0
    MaxObject = 0
    Retain = 1
    RequirePresign = FALSE
    VerifyHash = FALSE
    MaxRows = 4
    Uploads = {}
    Failing = {"event", "retain", "log", "purge"}
    Legacy = {}
SYMMETRY MCSymmetry
INVARIANTS MarkedAreSurplus
PROPERTIES RetentionKeepsNewest ImplementsLifecycle RequestsAdvance
CHECK_DEADLOCK FALSE
