SPECIFICATION Spec
CONSTANTS
    Servers = {s1, s2}
    Fields = {engineRoot}
    MaxRuns = 2
INVARIANT OthersKept
CHECK_DEADLOCK FALSE
