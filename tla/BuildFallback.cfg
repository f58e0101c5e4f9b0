\* The capacity fallback under a cloud that finishes what it begins.
SPECIFICATION FairCloudSpec
CONSTANTS
    NilPointer = NilPointer
    MaxSubnets = 3
    MaxRemotes = 2
    Configs <- FallbackConfigs
    Faults = {"zone"}
PROPERTY CapacityFallbackWorks
