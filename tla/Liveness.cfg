SPECIFICATION FairSpec
CONSTANTS
    Node = {1}
    Cert = {1}
    Label = {on}
    SpecId = {"single"}
    Specs <- OneJob
    Deletable = {}
    MaxEdits = 1
    MaxFaults = 0
    NoJob = NoJob
    NoHash = NoHash
    on = on
    off = off
PROPERTY
    LatestInputProcessed
    ComesToRest
CHECK_DEADLOCK FALSE
