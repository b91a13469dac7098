CONSTANTS
    MaxRtp <- MC_MaxRtp
    MaxFwd <- MC_MaxFwd
    RecvTimeout <- MC_RecvTimeout
    MaxLoss = 1
    MaxDup = 0
    CryptoFailures = FALSE
SPECIFICATION Spec
PROPERTIES
    HandshakeCompletes
