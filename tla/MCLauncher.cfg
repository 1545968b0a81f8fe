SPECIFICATION LaunchFairSpec
CONSTANTS
    Policies = {"ask", "shutdown", "leave"}
    Modes = {"foreground", "headless"}
    StdinMayEnd = FALSE
    MaxEnds = 3
    Yamls <- TheYamls
    Locals <- TheLocals
    Machines <- TheMachines
    Bridges = {"ue", "web", "unreagent"}
    Sites = {"no command", "no script", "no modules", "partial modules", "ready"}
INVARIANTS OneStdinReader AgentOwnsStdin ConfigIsSound AgentFindsApprove BridgesAreReported
PROPERTIES KeptUntilAsked NoSilentHang JobDoneStops StartsUp
\* The launcher ends.
CHECK_DEADLOCK FALSE
