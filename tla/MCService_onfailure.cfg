SPECIFICATION Spec
CONSTANTS
    Clients = {c1, c2}
    NoClient = NoClient
    Policy = "on-failure"
    MaxRestarts = 1
    Autostart = TRUE
    StartDelay = FALSE
    Foreground = FALSE
    MaxRequests = 3
    MaxFaults = 3
SYMMETRY CallersSymmetric
INVARIANTS
    AtMostOneProcess
    NoSilentDeath
    OnExitOnce
PROPERTIES
    StopIsComplete
    ImplementsContract
\* A loop that has ended, with no caller left, is a finished system.
CHECK_DEADLOCK FALSE
