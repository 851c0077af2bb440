SPECIFICATION Spec
CONSTANTS
    HalfUnits = 2
    QueueDepth = 2
    MaxSeq = 2
    MaxRecordings = 2
    MaxBlocks = 5
    Block <- Blocks
INVARIANTS
    JobSendsOwnAudio
CHECK_DEADLOCK FALSE
