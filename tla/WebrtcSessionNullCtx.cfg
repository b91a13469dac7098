CONSTANTS
    MaxRtp <- MC_MaxRtp
    MaxFwd <- MC_MaxFwd
    RecvTimeout <- MC_RecvTimeout
    MaxLoss = 0
    MaxDup = 0
    CryptoFailures = TRUE
SPECIFICATION Spec
INVARIANTS
    SessionSurvives
