SPECIFICATION Spec
CONSTANTS Tasks = {r1, r2} None = None
          MaxMillis = 1 MaxPackets = 2 MaxLogLines = 3 MaxLines = 1 Decisions = {approve, cancel}
INVARIANTS ShownIsAnswerable ParkedIsReachable PollMissesNothing
CHECK_DEADLOCK FALSE
