CONSTANTS
    InitialTsn <- MC_InitialTsn
    PeerInitialTsn <- MC_PeerInitialTsn
    MaxMsgs = 2
    MaxHb = 0
    MaxKeepAlive = 0
    MaxRtx <- MC_MaxRtx
    MaxLoss = 0
SPECIFICATION Spec
INVARIANTS
    SackSound
CHECK_DEADLOCK FALSE
