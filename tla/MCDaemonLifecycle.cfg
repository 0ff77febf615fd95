SPECIFICATION FairSpec
CONSTANTS
    Agents = {a1, a2}
    Conns = {x1}
    None = None
    MaxMessages = 2
INVARIANTS AgentsOutliveSession
PROPERTIES StopEndsDaemon StrayIsKilled
CHECK_DEADLOCK FALSE
