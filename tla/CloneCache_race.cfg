CONSTANTS
    p1 = p1
    p2 = p2
    p3 = p3
    c1 = c1
    c2 = c2
    Calls <- ThreeCalls
    Cleaners = {}
    Commits <- TwoCommits
    Refs = {"HEAD"}
    Listed <- HeadOnly
    Annotated = {}
SPECIFICATION Spec
SYMMETRY Sym3
INVARIANTS
    ValidMeansComplete
PROPERTIES
    PublishedIsFrozen
    ImplementsStore
CHECK_DEADLOCK FALSE
