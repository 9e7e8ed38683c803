SPECIFICATION SSpec
CONSTANTS
    a = a
    b = b
    c = c
    t1 = t1
    t2 = t2
    p1 = p1
    s1 = s1
    s2 = s2
    s3 = s3
    s4 = s4
    s5 = s5
    h1 = h1
    h2 = h2
    None = None
    Docs = {a, b}
    Tids = {t1}
    TidOf <- Slots
    HeapPageOf <- OneHeapPage
    Oversized = {}
    Blank = {}
    Procs = {p1}
    Segs = {s1, s2, s3, s4}
    MaxSegments = 3
    MergeFanout = 2
    MergeThreshold = 2
    FlushThreshold = 2
    MaxPage = 4
    MaxRetries = 1
SYMMETRY Symmetry
INVARIANTS
    CountExact
