SPECIFICATION Spec
CONSTANTS
    Calls = {c1, c2, c3}
    Models = {m1, m2}
    EffortModels = {m2}
    Efforts = {e1}
    DefaultModel = m1
    ConfigModel = m1
    None = None
    m2 = m2
    e1 = e1
    Requested <- MCRequested
SYMMETRY CallSymmetry
INVARIANTS DiscoveredHasModel StoredIsInForce
CHECK_DEADLOCK FALSE
