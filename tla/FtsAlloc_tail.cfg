SPECIFICATION Spec

CONSTANTS
    w1 = w1
    w2 = w2
    c1 = c1
    Writers <- MCWriters
    Scans <- NoScans
    Ops = {"vacuumcleanup"}
    Built = 2
    MaxBlock = 4
    MaxChain = 6
    MaxMishaps = 0

SYMMETRY Symmetry

INVARIANTS
    CutIsFree

\* the file and the chains are bounded, and a corrupt index is left alone
CHECK_DEADLOCK FALSE
