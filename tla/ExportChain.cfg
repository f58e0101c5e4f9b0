\* Chains of one and two post-processors, every fault.
SPECIFICATION Spec
CONSTANTS
    Pipelines <- Chains
    Durations <- Timeouts
    Faults = {"api", "lost", "timeout", "zone", "cancel"}
INVARIANTS
    TypeOK
    ExportContract
    OneAccount
    PanicsOnlyWhenCancelled
    NoExportAfterFailure
PROPERTY Terminates
