\* Safety of flows: two flows, emergency stops, and one flow that loses its authority.
SPECIFICATION CasesSpec
CONSTANTS
    f1 = f1
    f2 = f2
    NoOwner = NoOwner
    Idle = Idle
    SafeStop = SafeStop
    Flow <- TwoFlows
    Overdue <- TwoFlows
    Stoppable <- TwoFlows
    Grounds <- AnyGround
    Points = 2
    MaxFaults = 3
    MaxStops = 2
    MaxRestarts = 0
INVARIANTS
    TypeOK
    OwnerHasExecutor
    KilledStaysDead
    StopIsHonoured
    SlowDecisionIsHarmless
    RestoreAccounted
    CommandLimitSuffices
PROPERTIES
    TerminalIsFinal
SYMMETRY Alike
CHECK_DEADLOCK FALSE
