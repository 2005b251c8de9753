SPECIFICATION Spec
CONSTANTS
    Node = {1}
    Cert = {1}
    Label = {on}
    SpecId = {"single"}
    Specs <- OneJob
    Deletable = {}
    MaxEdits = 0
    MaxFaults = 0
    NoJob = NoJob
    NoHash = NoHash
    on = on
    off = off
INVARIANT
    FailedNodeHasCause
CHECK_DEADLOCK FALSE
