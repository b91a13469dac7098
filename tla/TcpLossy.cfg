CONSTANTS
    KCap <- MC_KCap
    MaxBytes <- MC_MaxBytes
    MaxLen <- MC_MaxLen
SPECIFICATION Spec
INVARIANTS
    WriteInterest
PROPERTIES
    LossyStream
CHECK_DEADLOCK FALSE
