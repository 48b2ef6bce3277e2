CONSTANTS
    MaxClasses = 3
    MaxSize = 5
    MaxHolders = 3
    MaxHeld = 3
    ParamNames <- MCParamNames
    Keywords <- MCKeywords
    MaxGiven = 3
    MaxStatements = 3
    MaxModules = 3
    MaxLines = 3
SPECIFICATION Spec
INVARIANTS
    ClassesAgree
    CallsBind
    SelfIsLent
    GlobalsAgree
CHECK_DEADLOCK FALSE
