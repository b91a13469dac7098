CONSTANTS
    KCap <- MC_KCap
    MaxBytes <- MC_MaxBytes
    MaxLen <- MC_MaxLen
SPECIFICATION Spec
PROPERTIES
    ReliableStream
CHECK_DEADLOCK FALSE
