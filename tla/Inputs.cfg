SPECIFICATION Spec
CONSTANTS
    Node = {1}
    Cert = {1}
    Label = {on, off}
    SpecId = {"every", "one", "cycle", "selector"}
    Specs <- Selections
    Deletable = {}
    MaxEdits = 1
    MaxFaults = 0
    NoJob = NoJob
    NoHash = NoHash
    on = on
    off = off
INVARIANTS
    ConditionsMatchWorkflows
    QuietMeansUpToDate
    QuietConditionsTrue
    ConditionsOfGeneration
CHECK_DEADLOCK FALSE
