CONSTANTS
    Conns = {c1, c2}
    Requests <- MC_Requests
    Registry <- MC_Registry
    TsAvail <- MC_TsAvail
    M3u8Avail <- MC_M3u8Avail
    MaxReqs = 1
SPECIFICATION Spec
INVARIANTS
    TypeOK
    AnswersCorrect
PROPERTIES
    RequestsAnswered
CHECK_DEADLOCK FALSE
