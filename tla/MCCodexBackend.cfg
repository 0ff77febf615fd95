SPECIFICATION FairSpec
CONSTANTS
    Threads = {t1}
    MaxCalls = 3
    MaxTurns = 2
    MaxItems = 1
    ApprovalStrategy = "acceptForSession"
    None = None
INVARIANTS
    TablesHoldWaiters
    ResultIsOwn
    NoLostTurn
    ShownIsAnswered
PROPERTIES
    CrashAnswersRequests
CHECK_DEADLOCK FALSE
