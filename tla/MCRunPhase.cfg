CONSTANTS
    FindingIds = {b1, b2, b3}
    BlockingIds = {b1, b2, b3}
    MaxAnswers = 1
    Budget = 2
    Roles = {r1, r2}
    MaxHumanIterations = 1
    MaxRestarts = 1
    FreeRetries <- MCFreeRetries
SPECIFICATION PhaseSpec
CHECK_DEADLOCK FALSE
INVARIANTS
    BudgetExplainsExit
    AnsweredBeforeGate
    OneStageAtRisk
    CountsMatchFindings
PROPERTIES
    DriveComesToRest
