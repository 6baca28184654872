SPECIFICATION Spec
CONSTANTS
    a1 = a1  a2 = a2  d1 = d1  d2 = d2  d3 = d3  junk = junk
    k1 = k1  k2 = k2  r1 = r1  r2 = r2  r3 = r3  u1 = u1  u2 = u2  None = None
    Digests = {d1}
    Apps = {a1, a2}
    InitApps = {a1}
    IdemKeys = {k1, k2}
    Reqs = {r1, r2}
    Calls <- MultipartCalls
    Contents = {d1, junk}
    SizeOf <- MCSizeOf
    Puts <- MultipartPuts
    PoolSize = 2
    MaxCount = 0
    MaxBytes = 0
    MaxObject = 2
    Retain = 0
    RequirePresign = TRUE
    VerifyHash = FALSE
    MaxRows = 3
    Uploads = {u1, u2}
    Failing = {"istatus", "upsert", "mrow", "app", "store"}
    Legacy = {}
SYMMETRY MCSymmetry
INVARIANTS UploadMatchesKey
PROPERTIES RowMonotonic
CHECK_DEADLOCK FALSE
