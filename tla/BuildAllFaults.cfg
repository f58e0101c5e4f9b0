\* Every configuration, every fault, up to three zones.
SPECIFICATION Spec
CONSTANTS
    NilPointer = NilPointer
    MaxSubnets = 3
    MaxRemotes = 2
    Configs <- AllConfigs
    Faults = {"api", "noresp", "lost", "timeout", "zone", "local", "cancel", "cleanup", "kept"}
INVARIANTS
    TypeOK
    ImageContract
    CleanOnFailure
    KeysNeverOutliveTheRun
    AtMostOneInstance
    StandingIsRecorded
    InstanceInUse
