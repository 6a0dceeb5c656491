SPECIFICATION Spec
CONSTANTS
    none = none
    Null = Null
    Genesis = "g"
    Blocks <- MCBlocks
    Parent <- MCParent
    Outpoints <- MCOutpoints
    Vtx <- MCVtx
CONSTRAINT Undamaged
INVARIANTS
    TypeOK
    CacheIsTip
    MarkedConsistent
    FlagsTrue
    Recoverable
