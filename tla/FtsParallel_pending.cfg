SPECIFICATION ParSpec
CONSTANTS
    a = a
    b = b
    c = c
    f = f
    t1 = t1
    t2 = t2
    t3 = t3
    t4 = t4
    p1 = p1
    p2 = p2
    s1 = s1
    s2 = s2
    s3 = s3
    s4 = s4
    s5 = s5
    s6 = s6
    None = None
    Docs = {a, b, c, f}
    Tids = {t1, t2, t3, t4}
    TidOf <- OwnSlots
    Oversized = {c, f}
    Blank = {}
    Procs = {p1, p2}
    Segs = {s1, s2, s3, s4, s5, s6}
    MaxSegments = 4
    MergeFanout = 4
    MergeThreshold = 3
    FlushThreshold = 1
    MaxPage = 4
    MaxWorkers = 2
SYMMETRY Symmetry
ACTION_CONSTRAINTS FirstFree Late
INVARIANTS
    NothingLost
    NoDuplicate
    PendingCounted
    SealedFrozen
    DirectoryDense
PROPERTY
    ImplementsStore
