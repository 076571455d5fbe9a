------------------------------ MODULE WebPages ------------------------------
(***************************************************************************)
(* The modules of the web interface explored as one state machine. A       *)
(* behaviour stays on the page it starts on, one of those of RecordPages   *)
(* or one with a module of its own; tab to trouble are the variables of    *)
(* WebSession and hold still on every other page.                          *)
(***************************************************************************)
EXTENDS Naturals, Sequences, FiniteSets

CONSTANTS
    Tab, RequestKind, Account, Destination, MaxLogin, MaxTrouble,\* of WebSession
    Record, MaxListEvent,                                      \* of RecordPage
    Project, Person, Me, MaxProjectEvent,                      \* of ProjectPage
    MaxItems, MaxEdit, MaxStart,                               \* of StepItems
    Call, Poll, MaxReportEvent,                                \* of DailyReportPage
    Run, MaxAuthoringEvent,                                    \* of StepAuthoring
    MaxLines, MaxCrash, MaxUpdateTrouble, MaxAttempts, Buffer, \* of UpdateStream
    Instrument, Command, Yellow, MaxCardEvent,                 \* of InstrumentPage
    MaxRows, MaxSubmit                                         \* of TestDataBatch

\* The bounds are numbers, a table and the editor have room for a row, and the user of the
\* dashboard is one of finitely many.
ASSUME Bounds ==
    /\ {MaxLogin, MaxTrouble, MaxListEvent, MaxProjectEvent, MaxItems, MaxEdit, MaxStart,
        MaxReportEvent, MaxAuthoringEvent, MaxLines, MaxCrash, MaxUpdateTrouble, MaxAttempts,
        Buffer, MaxCardEvent, MaxRows, MaxSubmit} \subseteq Nat
    /\ MaxItems >= 1 /\ MaxEdit >= 1 /\ MaxRows >= 1
ASSUME Users == Me \in Person /\ IsFiniteSet(Person)

VARIABLES
    page,
    ui, net, db, seen,
    tab, req, flight, jar, live, expired, issued, logins, keys, account, trouble

session == <<tab, req, flight, jar, live, expired, issued, logins, keys, account, trouble>>
vars == <<page, ui, net, db, seen, session>>

Session == INSTANCE WebSession WITH Kind <- RequestKind, Target <- Destination
List == INSTANCE RecordPage WITH Row <- Record, MaxEvent <- MaxListEvent
Dashboard == INSTANCE ProjectPage WITH User <- Person, MaxEvent <- MaxProjectEvent
Items == INSTANCE StepItems
Report == INSTANCE DailyReportPage WITH MaxEvent <- MaxReportEvent
Authoring == INSTANCE StepAuthoring WITH MaxEvent <- MaxAuthoringEvent
Update == INSTANCE UpdateStream WITH MaxTrouble <- MaxUpdateTrouble
Cards == INSTANCE InstrumentPage WITH MaxEvent <- MaxCardEvent
Batch == INSTANCE TestDataBatch

Lists == DOMAIN List!PageOf
OnList == page \in Lists
Other == {"session", "project", "items", "report", "authoring", "update", "instrument", "batch"}

\* A page that is not a list has no use for seen, and the session is signed out on pages
\* of its own.
Alone == seen = 0
NoPage == ui = 0 /\ net = 0 /\ db = 0 /\ Alone
NoSession ==
    /\ tab = 0 /\ req = 0 /\ flight = 0 /\ jar = 0 /\ live = 0 /\ expired = 0 /\ issued = 0
    /\ logins = 0 /\ keys = 0 /\ account = 0 /\ trouble = 0

Init ==
    \/ page = "session" /\ Session!Init /\ NoPage
    \/ /\ NoSession
       /\ \/ List!Init
          \/ page = "project" /\ Dashboard!Init /\ Alone
          \/ page = "items" /\ Items!Init /\ Alone
          \/ page = "report" /\ Report!Init /\ Alone
          \/ page = "authoring" /\ Authoring!Init /\ Alone
          \/ page = "update" /\ Update!Init /\ Alone
          \/ page = "instrument" /\ Cards!Init /\ Alone
          \/ page = "batch" /\ Batch!Init /\ Alone

Next ==
    \/ page = "session" /\ Session!Next /\ UNCHANGED <<page, ui, net, db, seen>>
    \/ OnList /\ List!Next /\ UNCHANGED session
    \/ /\ UNCHANGED <<page, seen, session>>
       /\ \/ page = "project" /\ Dashboard!Next
          \/ page = "items" /\ Items!Next
          \/ page = "report" /\ Report!Next
          \/ page = "authoring" /\ Authoring!Next
          \/ page = "update" /\ Update!Next
          \/ page = "instrument" /\ Cards!Next
          \/ page = "batch" /\ Batch!Next

Spec == Init /\ [][Next]_vars
-----------------------------------------------------------------------------
(* The properties, stated in the modules of the pages.                     *)

\* The types of every module.
TypeOK ==
    /\ page \in Lists \cup Other
    /\ page = "session" => Session!TypeOK
    /\ OnList => List!TypeOK
    /\ page = "project" => Dashboard!TypeOK
    /\ page = "items" => Items!TypeOK
    /\ page = "report" => Report!TypeOK
    /\ page = "authoring" => Authoring!TypeOK
    /\ page = "update" => Update!TypeOK
    /\ page = "instrument" => Cards!TypeOK
    /\ page = "batch" => Batch!TypeOK

\* No write that is sent again after a refresh of the session is answered "this key was
\* already used" (client.ts, the idempotency filter of the server).
RetryIsNotRefused == page = "session" => Session!RetryIsNotRefused

\* Refreshes that use the same cookie at the same time never get two sessions out of one
\* login (rotation of the refresh token).
OneSessionPerLogin == page = "session" => Session!OneSessionPerLogin

\* Once everything is answered a list answers the last query asked, that on the screen
\* unless a filter waits for a search, and shows every write of this user that was
\* confirmed (useAsyncData and the pages without it).
ListKeepsUp == OnList => List!ListKeepsUp

\* An edit of a todo is never accepted over a change its author was not shown.
EditSeesTheLatest ==
    [][OnList => List!EditsTheLatest]_vars

\* The members shown are those of the project shown (ProjectDashboard.vue), late lists
\* after a write excepted.
MembersAreOfTheRoute == page = "project" => Dashboard!MembersAreOfTheRoute

\* Administrators who demote and remove at the same time never leave a project without an
\* owner (projects/repository.go).
OwnersAreCounted == page = "project" => Dashboard!OwnersAreCounted

\* The position a row of the step editor names is that of the row the user chose, however
\* rows are moved and removed (StepItemsEditor.vue).
DependencyFollowsItsRow == page = "items" => Items!DependencyFollowsItsRow

\* What is submitted as the daily report is the text the user saw, unless two saves run
\* at the same time (DailyReportView.vue).
SubmittedAsShown == [][page = "report" => Report!SubmitsTheShown]_vars

\* A draft of the assistant becomes two logs only after a failure the user was told of.
DraftBecomesOneLog == page = "report" => Report!DraftBecomesOneLog

\* A run without steps, or a template never applied, is left behind only by a failure the
\* user was told of or in a dialog that was disturbed.
LeftoversAreReported == page = "authoring" => Authoring!LeftoversAreReported

\* No line of an update is shown twice or after a later one, whatever is replayed,
\* renumbered or overtaken (SettingsView.vue, system/service.go).
LinesInOrder == page = "update" => Update!LinesInOrder

\* The page reports a success only of a script that ended with 0.
SuccessIsTrue == page = "update" => Update!SuccessIsTrue

\* A value in the save form was measured by the instrument the form names.
SavedAsMeasured == page = "instrument" => Cards!SavedAsMeasured

\* A row marked as refused is one that was refused, and still as it was.
MarksFitTheRows == page = "batch" => Batch!MarksFitTheRows
=============================================================================
