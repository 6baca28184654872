SPECIFICATION Spec
CONSTANTS
    d1 = d1  d2 = d2  f1 = f1  f2 = f2  f3 = f3
    None = None  Junk = Junk  Torn = Torn
    Digests = {d1, d2}
    Files = {f1, f2, f3}
    FilesOf <- Overlapping
    Durations = {1}
    TailLines = 2
    Cap = 3
    Drained = 3
    MaxChanges = 3
    MaxFaults = 2
INVARIANTS TypeOK OnlyVerifiedUnpacked CurWhole
PROPERTIES AnnotatedUnpacked TailCounted CountsSettle
CHECK_DEADLOCK FALSE
