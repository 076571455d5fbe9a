\* The lease ends during a flow.
SPECIFICATION Spec
CONSTANTS
    f1 = f1
    f2 = f2
    NoOwner = NoOwner
    Idle = Idle
    SafeStop = SafeStop
    Flow <- OneFlow
    Overdue <- NoFlow
    Stoppable <- NoFlow
    Grounds <- LeaseOnly
    Points = 1
    MaxFaults = 0
    MaxStops = 0
    MaxRestarts = 0
PROPERTIES
    RestoreHoldsLease
CHECK_DEADLOCK FALSE
