SPECIFICATION Spec
CONSTANTS
    Keys = {k1, k2, k3}
    MLKeys = {k1, k2}
    None = None
    MaxCrashes = 1
    MaxFailures = 2
    MaxIndices = 2
SYMMETRY KeySymmetry
INVARIANTS
    TypeOK
    OneOwner
    CacheCoherent
    HandedOutUsable
    HandedOutDurable
    RestartTransparent
    RangeMatchesExpansion
PROPERTY ImplementsLedger
