SPECIFICATION PromptSpec
CONSTANTS
    Node = {1, 2}
    Cert = {1}
    Label = {on}
    SpecId = {"pair"}
    Specs <- Pair
    Deletable = {}
    MaxEdits = 1
    MaxFaults = 0
    NoJob = NoJob
    NoHash = NoHash
    on = on
    off = off
INVARIANT
    NoOverlappingRuns
CHECK_DEADLOCK FALSE
