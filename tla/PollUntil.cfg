\* The wait of every kind, with status requests that may never be answered.
SPECIFICATION Spec
CONSTANT WaitKinds = {"instances_ready", "floating_ips_ready", "images_ready", "instances_down", "export_job", "classic_instance"}
INVARIANTS
    TypeOK
    NobodyIsStuck
    OutcomeIsTrue
    AtMostOneLateCheck
PROPERTIES
    CallerReturns
    GoroutineStops
    PromiseKept
CHECK_DEADLOCK FALSE
