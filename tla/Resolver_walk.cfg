SPECIFICATION FairSpec
CONSTANTS
    Files <- MCFiles
    Embedded <- MCEmbedded
    Ids <- MCIds
    Dotted = {"pkg.u"}
    Skipped = {"dataclasses"}
    Names = {"f", "g", "P"}
    Stems <- MCStems
    Dirs <- MCDirs
    StdlibDir = "std"
    Trees <- Layouts
INVARIANTS
    TopologicalOrder
    CycleIsReal
    RedirectsAreReal
PROPERTIES
    FirstReachStays
    ResolveEnds
CHECK_DEADLOCK FALSE
