SPECIFICATION Spec
CONSTANTS
    Reserved <- MCReserved
    NumberOf <- MCNumberOf
    Stop <- MCStop
    PosBuf = 2
    MaxChain = 3
    MinTrigrams = 3
    Texts <- Branches
    Corpora <- BranchCorpora
CHECK_DEADLOCK FALSE
INVARIANTS
    ScanExact
