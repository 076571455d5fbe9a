\* A task that fails three times, with no fault at all: nobody is alerted.
SPECIFICATION FairSpec
CONSTANTS
    t1 = t1
    t2 = t2
    w1 = w1
    w2 = w2
    r1 = r1
    r2 = r2
    NoTask = NoTask
    Task <- TwoTasks
    Worker <- OneWorker
    Reviewer <- NoReviewer
    MaxAttempts = 3
    MaxTries = 3
    LeaseTicks = 1
    MaxFaults = 0
PROPERTY
    DeadLetterAlerts
CHECK_DEADLOCK FALSE
