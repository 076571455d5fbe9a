\* Safety of the pages of the web interface and of its session.
SPECIFICATION Spec
CONSTANTS
    Tab = {"t"}
    RequestKind = {"me", "get", "write"}
    Account = {"member", "newcomer"}
    Destination = {"projects", "admin"}
    MaxLogin = 2
    MaxTrouble = 2
    Record = {"a", "b"}
    MaxListEvent = 2
    Project = {"p", "q"}
    Person = {"me", "u"}
    Me = "me"
    MaxProjectEvent = 2
    MaxItems = 3
    MaxEdit = 4
    MaxStart = 1
    Call = {"c1", "c2"}
    Poll = {"p"}
    MaxReportEvent = 3
    Run = {"r"}
    MaxAuthoringEvent = 6
    MaxLines = 2
    MaxCrash = 1
    MaxUpdateTrouble = 1
    MaxAttempts = 2
    Buffer = 2
    Instrument = {"a", "b"}
    Command = {"read", "write"}
    Yellow = {"write"}
    MaxCardEvent = 2
    MaxRows = 3
    MaxSubmit = 2
INVARIANTS
    TypeOK
    RetryIsNotRefused
    OneSessionPerLogin
    
    MembersAreOfTheRoute
    OwnersAreCounted
    DependencyFollowsItsRow
    DraftBecomesOneLog
    LeftoversAreReported
    LinesInOrder
    SuccessIsTrue
    SavedAsMeasured
    MarksFitTheRows
PROPERTIES
    EditSeesTheLatest
    SubmittedAsShown
CHECK_DEADLOCK FALSE
