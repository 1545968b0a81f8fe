SPECIFICATION FairSpec
CONSTANTS
    Callers = {c1, c2}
    Marks = {"a", "b"}
    MaxScripts = 2
    MaxFaults = 1
    MaxPosts = 3
    MaxKills = 1
    Bodies <- MCBodies
INVARIANTS EveryElementAnswered NoScriptLeft EditsStick
PROPERTIES PostIsAnswered
CHECK_DEADLOCK FALSE
