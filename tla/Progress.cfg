\* Liveness of the worker's run loop, the task queue, a session and an update.
SPECIFICATION FairSpec
CONSTANTS
    NoOwner = NoOwner
    NoCommand = NoCommand
    SafeStop = SafeStop
    NoTask = NoTask
PROPERTIES
    StampedIsAnswered
    EmergencyIsServed
    TaskSettles
    NavigationSettles
    UpdateEnds
CHECK_DEADLOCK FALSE
