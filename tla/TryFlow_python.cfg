SPECIFICATION Spec
CONSTANTS
    Exceptions = {E}
    Values = {v}
    MaxDepth = 4
    None = None
    E = E
    v = v
INVARIANTS
    HookIsBalanced
    UncaughtIsShown
    BodyRunsFinally
PROPERTIES
    ImplementsPython
CHECK_DEADLOCK FALSE
