SPECIFICATION Spec
CONSTANTS
    Peers <- MCPeers
    Txs <- MCTxs
    Preferred <- MCPreferred
    low_bits <- MCLowBits
    none = none
    Honest <- MCHonest
    Announceable <- MCAnnounceable
    MAX_PEER_TX_ANNOUNCEMENTS = 2
    MAX_PEER_TX_REQUEST_IN_FLIGHT = 1
    NONPREF_PEER_TX_DELAY = 1
    OVERLOADED_PEER_TX_DELAY = 1
    GETDATA_TX_INTERVAL = 2
    MaxReconnects = 1
INVARIANTS
    TypeOK
    NothingStale
PROPERTIES
    HonestAnnouncementFetched
    AnnouncementsEnd
