SPECIFICATION FairSpec
CONSTANTS
    Node = {1, 2}
    Cert = {1}
    Label = {on}
    SpecId = {"chain", "head"}
    Specs <- Shrinking
    Deletable = {}
    MaxEdits = 1
    MaxFaults = 0
    NoJob = NoJob
    NoHash = NoHash
    on = on
    off = off
PROPERTY
    DeferredInputApplied
CHECK_DEADLOCK FALSE
