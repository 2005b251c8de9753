SPECIFICATION Spec
CONSTANTS
    Node = {1, 2}
    Cert = {1}
    Label = {on}
    SpecId = {"stop", "independent", "circle"}
    Specs <- Chains
    Deletable = {"complete", "failed"}
    MaxEdits = 0
    MaxFaults = 1
    NoJob = NoJob
    NoHash = NoHash
    on = on
    off = off
INVARIANTS
    TypeOK
    SucceededMeansCompleted
    RecordedJobsExist
    DependencyOrder
    RunNotStalled
PROPERTY
    RecordedJobsNotRecreated
    LifecycleSpec
CHECK_DEADLOCK FALSE
