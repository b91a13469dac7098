CONSTANTS
    InitialTsn <- MC_InitialTsn
    PeerInitialTsn <- MC_PeerInitialTsn
    MaxMsgs = 2
    MaxHb = 0
    MaxKeepAlive = 0
    MaxRtx <- MC_MaxRtx
    MaxLoss = 0
SPECIFICATION Spec
PROPERTIES
    DataAcked
CHECK_DEADLOCK FALSE
