SPECIFICATION Spec
CONSTANTS
    Callers = {c1, c2}
    Services = {"ue", "agent"}
    Orders <- TheOrders
    CtrlTimeout = 2
    MaxCalls = 2
    MaxChanges = 2
INVARIANTS OneTimeout
PROPERTY StatusIsComplete
CHECK_DEADLOCK FALSE
