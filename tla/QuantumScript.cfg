SPECIFICATION Spends
CONSTANTS
    Keys = {ml1, ml2, slh}
    MLKeys = {ml1, ml2}
    NoKey = NoKey
    WitnessElements <- Elements
    ScriptOps <- MCScriptOps
    MaxWitness = 2
    MaxScript = 4
SYMMETRY KeySymmetry
INVARIANTS
    AddressSpending
    TwoKeySpending
    StandardImpliesActive
CHECK_DEADLOCK FALSE
