SPECIFICATION Spec
CONSTANTS
    Sessions = {s1}
    Threads = {t1}
    MaxTurns = 2
    MaxUpdates = 1
    MaxTargets = 2
    MaxDistills = 1
    MaxSeq = 3
    None = None
PROPERTIES AnsweredIsReported HandlerReturns
CHECK_DEADLOCK FALSE
