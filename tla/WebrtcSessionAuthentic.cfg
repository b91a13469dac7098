CONSTANTS
    MaxRtp <- MC_MaxRtp
    MaxFwd <- MC_MaxFwd
    RecvTimeout <- MC_RecvTimeout
    MaxLoss = 0
    MaxDup = 1
    CryptoFailures = FALSE
SPECIFICATION Spec
INVARIANTS
    ForwardOnlyAuthentic
