\* Safety of one task that two workers claim after one another and two reviewers decide on.
SPECIFICATION Spec
CONSTANTS
    t1 = t1
    t2 = t2
    w1 = w1
    w2 = w2
    r1 = r1
    r2 = r2
    NoTask = NoTask
    Task <- OneTask
    Worker <- TwoWorkers
    Reviewer <- TwoReviewers
    MaxAttempts = 3
    MaxTries = 3
    LeaseTicks = 2
    MaxFaults = 3
INVARIANTS
    TypeOK
    CandidateOfLastClaim
    AttemptsWithinClaims
    ExecutedOnce
PROPERTY
    SettledForGood
SYMMETRY Alike
CHECK_DEADLOCK FALSE
