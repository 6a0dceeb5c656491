SPECIFICATION Spec
CONSTANTS
    none = none
    Null = Null
    Genesis = "g"
    Blocks <- MCBlocks
    Parent <- MCParent
    Outpoints <- MCOutpoints
    Vtx <- MCVtx
INVARIANT LastBatchConsistent
