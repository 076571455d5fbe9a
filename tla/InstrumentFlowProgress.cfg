\* Liveness of a flow that may be stopped, with a fault, an emergency stop and a restart, under fairness.
SPECIFICATION FairSpec
CONSTANTS
    f1 = f1
    f2 = f2
    NoOwner = NoOwner
    Idle = Idle
    SafeStop = SafeStop
    Flow <- OneFlow
    Overdue <- OneFlow
    Stoppable <- OneFlow
    Grounds <- NoGround
    Points = 1
    MaxFaults = 1
    MaxStops = 1
    MaxRestarts = 1
PROPERTIES
    FlowEnds
    SessionReturned
CHECK_DEADLOCK FALSE
