SPECIFICATION Spec
CONSTANTS
    NDocs = 4
    Tf <- SteadyTf
    DocLen <- SteadyLen
    FirstK = 1
    Growth = 2
    OverFetch = 2
    MinFetch = 1
    CapFactor = 2
    CapFloor = 4
INVARIANTS
    TypeOK
    BatchPrefix
    AllReturned
    BoundHolds
CHECK_DEADLOCK FALSE
