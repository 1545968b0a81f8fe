SPECIFICATION FairSpec
CONSTANTS
    Clients = {c1}
    NoClient = NoClient
    Policy = "always"
    MaxRestarts = 1
    Autostart = TRUE
    StartDelay = TRUE
    Foreground = TRUE
    MaxRequests = 3
    MaxFaults = 3
PROPERTIES
    AutoRestartFollowsPolicy
    EverySendReturns
    CancelEndsLoop
    WantedIsServed
\* A loop that has ended, with no caller left, is a finished system.
CHECK_DEADLOCK FALSE
