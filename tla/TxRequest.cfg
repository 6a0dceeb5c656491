SPECIFICATION TrackerSpec
CONSTANTS
    Peers <- MCPeers
    Txs <- MCTxs
    Preferred <- MCPreferred
    low_bits <- MCLowBits
    none = none
    Announceable <- MCAnnounceable
    MaxTime = 2
INVARIANTS
    TrackerTypeOK
    SanityCheck
PROPERTIES
    ImplementsRules
