SPECIFICATION Spec
CONSTANTS
    None = None
    Backends = {b1, b2}
    Keys = {k1, k2}
    Slots = {s1, s2}
    Handles = {h1, h2, h3, h4}
    MaxRefs = 2
    MaxGen = 1
SYMMETRY Symmetry
INVARIANTS
    TypeOK
    HeldPinned
    PinnedOnce
    BuilderOwns
    OneCopy
