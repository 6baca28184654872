SPECIFICATION CliSpec
CONSTANTS
    a1 = a1  d1 = d1  x1 = x1  x2 = x2  half = half
    r1 = r1  r2 = r2  u1 = u1  u2 = u2  None = None
    Digests = {d1}
    Apps = {a1}
    InitApps = {}
    IdemKeys <- MCIdemKeys
    Reqs = {r1, r2}
    Calls <- MCCalls
    Contents <- MCContents
    SizeOf <- MCSizeOf
    Puts <- MCPuts
    PoolSize = 1
    MaxCount = 0
    MaxBytes = 0
    MaxObject = 0
    Retain = 0
    RequirePresign = FALSE
    VerifyHash = FALSE
    MaxRows = 4
    Uploads = {u1, u2}
    CutBodies = {half}
    Projects <- MCProjects
    Failing = {"row", "mrow", "upsert"}
    Legacy = {}
SYMMETRY MCSymmetry
INVARIANTS CliTypeOK StoredIsRetrievable DeployedIsRetrievable
CHECK_DEADLOCK FALSE
