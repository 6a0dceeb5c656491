SPECIFICATION Spec
CONSTANTS
    Keys = {k1, k2}
    MLKeys = {k1}
    None = None
    MaxCrashes = 1
    MaxFailures = 1
    MaxIndices = 1
INVARIANT HandedOutSignable
