SPECIFICATION RowsSpec
CONSTANTS
    Node = {1, 2}
    Cert = {1, 2}
    Label = {on, off}
    SpecId = {"single", "apart", "row"}
    Specs <- Rows
    Deletable = {}
    MaxEdits = 1
    MaxFaults = 0
    NoJob = NoJob
    NoHash = NoHash
    on = on
    off = off
INVARIANTS
    ConditionsMatchWorkflows
    QuietConditionsTrue
    QuietMeansUpToDate
PROPERTY
    StartsBounded
    CreatedAfterDependencies
    SkipsHaveCause
CHECK_DEADLOCK FALSE
