\* The builder implements BuildContract, whatever fails.
SPECIFICATION Spec
CONSTANTS
    NilPointer = NilPointer
    MaxSubnets = 2
    MaxRemotes = 2
    Configs <- ContractConfigs
    Faults = {"api", "noresp", "lost", "timeout", "zone", "local", "cancel", "cleanup", "kept"}
PROPERTIES
    ContractKept
    Terminates
