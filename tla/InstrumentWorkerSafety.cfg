\* Two callers of yellow commands, two flows, an emergency stop and the rolling window:
\* interleavings of callers and run loop.
SPECIFICATION Spec
CONSTANTS
    c1 = c1
    c2 = c2
    f1 = f1
    f2 = f2
    Command <- TwoCommands
    Yellow <- TwoCommands
    Session <- TwoSessions
    NoOwner = NoOwner
    NoCommand = NoCommand
    SafeStop = SafeStop
    HasSafeStop = TRUE
    QueueSize = 1
    RateLimit = 1
    RateWindow = 1
    MaxTime = 2
    MaxEpoch = 2
INVARIANTS
    TypeOK
    EmergencyLockHolds
    SafeStopIsLast
    YellowBudget
PROPERTIES
    ImplementsGate
CHECK_DEADLOCK FALSE
