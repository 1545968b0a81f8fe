SPECIFICATION Spec
CONSTANTS
    Procs = {child, p1, p2, p3}
    Child = child
    Runners = {"service"}
    Builds = {"windows"}
    JobMayFail = FALSE
    PipeSize = 2
    MaxLines = 3
INVARIANT NoOrphans
CHECK_DEADLOCK FALSE
