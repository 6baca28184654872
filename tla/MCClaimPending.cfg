SPECIFICATION FairSpec
CONSTANTS
    a1 = a1  a2 = a2  d1 = d1  d2 = d2  u1 = u1  u2 = u2  u3 = u3
    p1 = p1  p2 = p2  None = None
    Apps = {a1}
    Digests = {d1, d2}
    Urls = {u1, u2, u3}
    DigestIn <- MCDigestIn
    Requests <- SameRequests
    Patches = {}
    Replicas = {p1}
    MaxDeployments = 2
    MaxFeed = 1
    MaxFaults = 0
PROPERTIES PendingResolves
CHECK_DEADLOCK FALSE
