CONSTANT Width = 8
SPECIFICATION Spec
INVARIANTS
    OperationsAgree
    NumbersAgree
    TypesPredicted
    OperandsOnce
CHECK_DEADLOCK FALSE
