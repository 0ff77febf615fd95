CONSTANTS
    FindingIds = {b1}
    BlockingIds = {b1}
    MaxAnswers = 1
    Reviewers = {r1}
    MaxHuman = 1
    MaxStarts = 2
    NoPhase = NoPhase
    Missing = Missing
    Torn = Torn
    Absent = Absent
    Answers <- MCAnswers
    MaxCycles <- MCMaxCycles
    FreeRetries <- MCFreeRetries
SPECIFICATION Spec
CHECK_DEADLOCK FALSE
PROPERTY PlanOnlyWritesNoCode
