CONSTANTS
    InitialTsn <- MC_InitialTsn
    PeerInitialTsn <- MC_PeerInitialTsn
    MaxMsgs = 1
    MaxHb = 0
    MaxKeepAlive = 0
    MaxRtx <- MC_MaxRtx
    MaxLoss = 0
SPECIFICATION Spec
INVARIANTS
    FirstDataTsn
CHECK_DEADLOCK FALSE
