SPECIFICATION Spec
CONSTANTS
    r1 = r1  r2 = r2  l1 = l1  l2 = l2  f1 = f1  f2 = f2
    None = None  Torn = Torn
    Roots = {r1, r2}
    Locks = {l1, l2}
    Files = {f1, f2}
SYMMETRY MCSymmetry
INVARIANTS TypeOK CacheKeyed PackagedWhole
