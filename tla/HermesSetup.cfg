SPECIFICATION Spec
CONSTANTS
    Servers = {s1, s2}
    Fields = {engineRoot}
    MaxRuns = 3
INVARIANTS
    NothingLost
    ConfigWhole
    TokensAgree
PROPERTIES
    BackupKept
\* After MaxRuns runs nothing is left to do.
CHECK_DEADLOCK FALSE
