CONSTANTS
    MaxRtp <- MC_MaxRtp
    MaxFwd <- MC_MaxFwd
    RecvTimeout <- MC_RecvTimeout
    MaxLoss = 1
    MaxDup = 1
    CryptoFailures = TRUE
SPECIFICATION Spec

    
PROPERTIES
    ImplementsSession
