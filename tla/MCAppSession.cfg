SPECIFICATION Spec
CONSTANTS
    Sessions = {s1, s2}
    Threads = {t1}
    MaxTurns = 2
    MaxUpdates = 1
    MaxTargets = 2
    MaxDistills = 1
    MaxSeq = 2
    None = None
SYMMETRY SessionSymmetry
INVARIANTS RegistriesAgree SlotsMatchPrompts PromptedStaysBound LogHoldsStream
PROPERTIES ClosedThreadIsSilent
CHECK_DEADLOCK FALSE
