SPECIFICATION Spec
CONSTANTS
    N = 3
    Spkms = {d1, d2}
SYMMETRY SpkmSymmetry
INVARIANTS
    TypeOK
    Outcome
PROPERTY ValidStaysValid
CHECK_DEADLOCK FALSE
