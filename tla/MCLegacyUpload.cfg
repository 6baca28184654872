SPECIFICATION FairSpec
CONSTANTS
    d1 = d1  d2 = d2  junk = junk  None = None
    Digests = {d1, d2}
    Contents = {d1, d2, junk}
    Oversize = {d2}
    Permits = 2
    MaxUploads = 3
    MaxFaults = 1
INVARIANTS TypeOK StoredFileComplete FilesAccounted
PROPERTIES WaitingUploadsServed
CHECK_DEADLOCK FALSE
