SPECIFICATION FairSpec
CONSTANTS
    Procs = {child, p1, p2, p3}
    Child = child
    Runners = {"service", "foreground", "command"}
    Builds = {"windows", "other"}
    JobMayFail = TRUE
    PipeSize = 2
    MaxLines = 3
INVARIANTS MembersAreGone
PROPERTIES EndReturns WriterGoesOn CommandReturns
\* An instance that is over, all its processes gone, is a finished system.
CHECK_DEADLOCK FALSE
