SPECIFICATION ScanSpec
CONSTANTS
    Reserved <- MCReserved
    NumberOf <- MCNumberOf
    Stop <- MCStop
    PosBuf = 2
    MaxChain = 3
    MinTrigrams = 1
    Texts <- MCTexts
    Corpora <- MCCorpora
    BlockSize = 2
    PageBlocks = 2
    LeadingBit = 2
    Nowhere = 99
    Fraction = 2
    Wants = {1, 2}
    Settings <- MCSettings
    RankedTexts <- MCRankedTexts
    RankedCorpora <- MCRankedCorpora
CHECK_DEADLOCK FALSE
INVARIANTS
    TypeOK
    ScanExact
    PositionsDecide
    RoundTrip
    PhraseMeaning
    WalkExact
    TopKExact
