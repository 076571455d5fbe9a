\* A restart of the server after an emergency stop.
SPECIFICATION Spec
CONSTANTS
    f1 = f1
    f2 = f2
    NoOwner = NoOwner
    Idle = Idle
    SafeStop = SafeStop
    Flow <- OneFlow
    Overdue <- NoFlow
    Stoppable <- NoFlow
    Grounds <- NoGround
    Points = 1
    MaxFaults = 0
    MaxStops = 1
    MaxRestarts = 1
INVARIANTS
    EmergencyLockSurvives
CHECK_DEADLOCK FALSE
