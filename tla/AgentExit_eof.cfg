SPECIFICATION Spec
CONSTANTS
    Policies = {"ask"}
    Modes = {"foreground"}
    StdinMayEnd = TRUE
    MaxEnds = 3
PROPERTY ConsoleIsActive
CHECK_DEADLOCK FALSE
