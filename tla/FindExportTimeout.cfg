\* An export_timeout shorter than a minute is not the time that is waited.
SPECIFICATION Spec
CONSTANTS
    Pipelines <- Chains
    Durations <- Timeouts
    Faults = {}
INVARIANT WaitAsConfigured
