SPECIFICATION Spec
CONSTANTS
    Keys = {ml, slh}
    MLKeys = {ml}
    NoKey = NoKey
    Txs <- MCTxs
    MaxSigs = 1
    Networks = {"main"}
    MaxBlocks = 2
INVARIANT PolicyImpliesConsensus
