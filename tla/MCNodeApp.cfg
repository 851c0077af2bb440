SPECIFICATION Spec
CONSTANTS
    HalfUnits = 2
    QueueDepth = 1
    MaxSeq = 2
    MaxRecordings = 2
    MaxBlocks = 5
    Block <- Blocks
INVARIANTS
    SoloUploadExact
    PartTagHonest
CHECK_DEADLOCK FALSE
PROPERTIES
    EveryJobReported
    UploadingShownEnds
