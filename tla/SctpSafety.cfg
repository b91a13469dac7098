CONSTANTS
    InitialTsn <- MC_InitialTsn
    PeerInitialTsn <- MC_PeerInitialTsn
    MaxMsgs = 2
    MaxHb = 1
    MaxKeepAlive = 1
    MaxRtx <- MC_MaxRtx
    MaxLoss = 1
SPECIFICATION Spec
INVARIANTS
    TypeOK
PROPERTIES
    DataChannelOpens
CHECK_DEADLOCK FALSE
