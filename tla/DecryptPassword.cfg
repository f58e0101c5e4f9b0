CONSTANTS
    b1 = b1
    b2 = b2
    b3 = b3
    None = None
    Builds <- Three
    MaxCalls = 2
    ImplicitRejection = TRUE
SPECIFICATION Spec
SYMMETRY Symmetry
INVARIANTS
    TypeOK
    OwnPassword
    AloneSucceeds
    CleanAfterSuccess
CHECK_DEADLOCK FALSE
