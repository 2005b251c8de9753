SPECIFICATION Spec
CONSTANTS
    Node = {1}
    Cert = {1}
    Label = {on}
    SpecId = {"single"}
    Specs <- OneJob
    Deletable = {}
    MaxEdits = 1
    MaxFaults = 1
    NoJob = NoJob
    NoHash = NoHash
    on = on
    off = off
INVARIANTS
    RecordedJobsExist
    QuietMeansUpToDate
    QuietConditionsTrue
PROPERTY
    CreatedForCurrentRun
    LifecycleSpec
CHECK_DEADLOCK FALSE
