CONSTANTS
    r1 = r1
    r2 = r2
    Runs <- TwoRuns
    Names = {"app", "lib", "util"}
    Sources = {"app1", "lib1", "lib2", "util1"}
    Refs = {"url"}
    Catalogs <- OverlapUniverses
    Overlap = TRUE
SPECIFICATION Spec
SYMMETRY RunSymmetry
INVARIANTS
    LockComplete
    LockAcyclic
CHECK_DEADLOCK FALSE
