SPECIFICATION Spec
CONSTANTS
    Node = {1, 2, 3}
    NoJob = NoJob
    EdgeId = {1, 2, 3}
INVARIANTS
    TypeOK
    VerdictCorrect
    DescendantsCorrect
PROPERTY
    LoopsEnd
    LoopsProgress
CHECK_DEADLOCK FALSE
