CONSTANTS
    r1 = r1
    r2 = r2
    Runs <- TwoRuns
    Names = {"app", "lib", "util"}
    Sources = {"app1", "lib1", "lib2", "util1"}
    Refs = {"url"}
    Catalogs <- SixUniverses
    Overlap = FALSE
SPECIFICATION FairSpec
INVARIANTS
    UnforcedKeepsPins
    DiamondsAgree
PROPERTIES
    EndsCoherent
    EveryRunEnds
CHECK_DEADLOCK FALSE
