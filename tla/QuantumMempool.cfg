SPECIFICATION Spec
CONSTANTS
    Keys = {ml, slh}
    MLKeys = {ml}
    NoKey = NoKey
    Txs <- MCTxs
    MaxSigs = 1
    Networks = {"main", "test", "vbparams"}
    MaxBlocks = 3
INVARIANTS
    TypeOK
    BlocksValid
    MempoolMinable
    ConfirmedOnce
