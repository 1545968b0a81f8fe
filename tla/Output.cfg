SPECIFICATION FairSpec
CONSTANTS
    RingMax = 2
    Limit = 3
    MaxInstances = 2
    MaxLines = 3
    MaxBytes = 9
INVARIANTS LogsAreRecent LogInOrder DrainIsComplete BothEndsKept
PROPERTY NoReaderLeft
CHECK_DEADLOCK FALSE
