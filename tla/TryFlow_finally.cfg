SPECIFICATION Spec
CONSTANTS
    Exceptions = {E}
    Values = {v}
    MaxDepth = 4
    None = None
    E = E
    v = v
INVARIANTS
    FinallyAlwaysRuns
CHECK_DEADLOCK FALSE
