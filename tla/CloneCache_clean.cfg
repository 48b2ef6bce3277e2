CONSTANTS
    p1 = p1
    p2 = p2
    p3 = p3
    c1 = c1
    c2 = c2
    Calls <- TwoCalls
    Cleaners = {"k1"}
    Commits <- TwoCommits
    Refs <- TwoRefs
    Listed <- Tails
    Annotated = {}
SPECIFICATION Spec
SYMMETRY Sym2
INVARIANTS
    ContentAddressed
    FreshAnswer
    NoLeak
CHECK_DEADLOCK FALSE
