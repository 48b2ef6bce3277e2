CONSTANTS
    Docs <- MCDocs
    Texts <- MCTexts
    Broken = {"broken"}
    Commented = {"uses_a"}
    Imports <- MCImports
    Tidy <- MCTidy
    MaxEvents = 4
    MaxInputs = 4
SPECIFICATION Spec
INVARIANTS
    FreshUnlessImportsChanged
    ReplayShowsTheSame
    SessionRuns
CHECK_DEADLOCK FALSE
