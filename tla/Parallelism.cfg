SPECIFICATION Spec
CONSTANTS
    Node = {1, 2}
    Cert = {1}
    Label = {on}
    SpecId = {"narrow"}
    Specs <- Narrow
    Deletable = {}
    MaxEdits = 0
    MaxFaults = 0
    NoJob = NoJob
    NoHash = NoHash
    on = on
    off = off
INVARIANT
    ParallelismRespected
CHECK_DEADLOCK FALSE
