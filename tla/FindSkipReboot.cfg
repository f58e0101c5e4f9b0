\* skip_reboot reboots the instance.
SPECIFICATION Spec
CONSTANTS
    NilPointer = NilPointer
    MaxSubnets = 1
    MaxRemotes = 2
    Configs <- OneReboot
    Faults = {}
INVARIANT SkipRebootHonoured
