CONSTANTS
    b1 = b1
    b2 = b2
    n1 = n1
    n2 = n2
    Nobody = Nobody
    Earlier = Earlier
    Builds <- Two
    Names <- TwoNames
    Scenarios <- AllScenarios
SPECIFICATION Spec
INVARIANTS
    TypeOK
    ArtifactContract
    NothingLeftSilently
    NoPrivateKeyLeft
    DestroyWaits
    OnlySharedFilesInterfere
PROPERTY Terminates
