SPECIFICATION Spec

CONSTANTS
    w1 = w1
    w2 = w2
    c1 = c1
    Writers <- MCWriters
    Scans <- OneScan
    Ops = {"bulkdelete", "vacuumcleanup", "fts_merge", "fts_vacuum"}
    Built = 2
    MaxBlock = 3
    MaxChain = 6
    MaxMishaps = 1

SYMMETRY Symmetry

INVARIANTS
    TypeOK
    DirectoryIntact
    OutputIntact
    ScanIntact
    Accounted

\* the file and the chains are bounded, and a corrupt index is left alone
CHECK_DEADLOCK FALSE
