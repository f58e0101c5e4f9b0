\* A failed retrieveResource leaves the instance behind.
SPECIFICATION Spec
CONSTANTS
    NilPointer = NilPointer
    MaxSubnets = 1
    MaxRemotes = 2
    Configs <- OnePlain
    Faults = {"api"}
INVARIANT NoInstanceLeftBehind
