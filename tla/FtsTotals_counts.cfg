SPECIFICATION TSpec
CONSTANTS
    a = a
    b = b
    c = c
    t1 = t1
    t2 = t2
    t3 = t3
    p1 = p1
    p2 = p2
    s1 = s1
    s2 = s2
    s3 = s3
    s4 = s4
    s5 = s5
    None = None
    Docs = {a, c}
    Tids = {t1, t2, t3}
    TidOf <- OwnSlots
    DocLen <- Lens
    Oversized = {c}
    Blank = {}
    Procs = {p1, p2}
    Segs = {s1, s2, s3, s4}
    MaxSegments = 2
    MergeFanout = 2
    MergeThreshold = 1
    FlushThreshold = 2
    MaxPage = 4
    MaxFailures = 2
SYMMETRY Symmetry
INVARIANTS
    CorpusN
    CountedOnce
    SegmentCounts
    NeverUndercounted
