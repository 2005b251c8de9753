SPECIFICATION FairSpec
CONSTANTS
    Node = {1, 2, 3}
    Cert = {1}
    Label = {on}
    SpecId = {"branches"}
    Specs <- Branches
    Deletable = {}
    MaxEdits = 0
    MaxFaults = 0
    NoJob = NoJob
    NoHash = NoHash
    on = on
    off = off
PROPERTY
    IndependentBranchesRun
CHECK_DEADLOCK FALSE
