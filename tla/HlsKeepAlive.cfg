CONSTANTS
    Conns = {c1}
    Requests <- MC_Requests
    Registry <- MC_Registry
    TsAvail <- MC_TsAvail
    M3u8Avail <- MC_M3u8Avail
    MaxReqs = 2
SPECIFICATION Spec
PROPERTIES
    RequestsAnswered
CHECK_DEADLOCK FALSE
