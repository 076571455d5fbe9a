---------------------------- MODULE RecordPages ----------------------------
(***************************************************************************)
(* The list pages of the web interface, each handler described by what its *)
(* code does around its calls. RecordPage gives the descriptions meaning.  *)
(***************************************************************************)

New == "new"    \* what a handler that creates a record writes to

\* The useAsyncData pages are guarded against answers that arrive late. A page may have
\* a detail that shows a row ("row"), that is fetched before it is shown ("fetch", or
\* "screen" when it is shown in the place of the list), or that shows a row and fetches
\* more beside it ("beside"). A filter, tab or page of the pagination loads the list when
\* it changes (queries), or is taken by the next load only, as with a search button
\* (searches).
Guarded == [guarded |-> TRUE, detail |-> "none", queries |-> TRUE, searches |-> FALSE,
            reloads |-> TRUE]
ByHand == [Guarded EXCEPT !.guarded = FALSE]

\* A handler pressed on a row that sends one call, reloads the list after a success and
\* tells the user of a failure. The other fields:
\*   from      "row", "drawer", "page" or "form": where its button is
\*   creates   it writes a new record
\*   first     its button is offered, and the call accepted, on an untouched record only
\*   asks      ElMessageBox asks before the call
\*   flag      the loading flag its button has, perRow when it holds the row
\*   calls     how many calls it makes, tolerates when the last may fail
\*   checks    the call names the version the form was opened on
\*   closes    the form is closed after a success; leaves, shows: the drawer is left, or
\*             shows the answer
\*   reopens   the record is fetched into the drawer again
\*   listed    the write changes what the list shows
\*   anyway    it reloads after a failure as well
\*   early     the form is closed before the call
\*   drafts    the first call only makes a draft, which the user is then asked about
OnRow(name) ==
    [name |-> name, from |-> "row", creates |-> FALSE, first |-> FALSE, asks |-> FALSE,
     flag |-> "", perRow |-> FALSE, calls |-> 1, tolerates |-> FALSE, checks |-> FALSE,
     closes |-> FALSE, leaves |-> FALSE, shows |-> FALSE, reopens |-> FALSE,
     reloads |-> TRUE, listed |-> TRUE, anyway |-> FALSE, early |-> FALSE,
     drafts |-> FALSE]
InDrawer(name) == [OnRow(name) EXCEPT !.from = "drawer"]
InForm(name, flag) == [OnRow(name) EXCEPT !.from = "form", !.flag = flag, !.closes = TRUE]
Creating(name, flag) == [InForm(name, flag) EXCEPT !.creates = TRUE]
Asking(h) == [h EXCEPT !.asks = TRUE]
-----------------------------------------------------------------------------
(* Issues.                                                                 *)
IssuesList == [Guarded EXCEPT !.detail = "fetch"]
IssueTransition == [InDrawer("transition") EXCEPT !.reopens = TRUE]
IssueComment == [InDrawer("comment") EXCEPT !.reopens = TRUE, !.reloads = FALSE, !.listed = FALSE]
IssueCreate == Creating("create", "")
IssueControls == {IssueTransition, IssueComment, IssueCreate}

(* Experiences.                                                            *)
ExperienceList == [ByHand EXCEPT !.detail = "row", !.reloads = FALSE]
ExperiencePublish == [InDrawer("publish") EXCEPT !.first = TRUE, !.shows = TRUE]
ExperienceArchive == [InDrawer("archive") EXCEPT !.shows = TRUE]
ExperienceCreate == Creating("create", "")
ExperienceControls == {ExperiencePublish, ExperienceArchive, ExperienceCreate}

(* Todos: an edit names the updated_at the form was opened on.             *)
TodoList == Guarded
TodoDone == [OnRow("done") EXCEPT !.anyway = TRUE]
TodoDefer == [OnRow("defer") EXCEPT !.first = TRUE]
TodoDelete == Asking(OnRow("delete"))
TodoCreate == Creating("create", "saving")
TodoEdit == [InForm("edit", "saving") EXCEPT !.checks = TRUE, !.anyway = TRUE]
TodoControls == {TodoDone, TodoDefer, TodoDelete, TodoCreate, TodoEdit}

(* Alerts: one resolvingId for all rows.                                   *)
AlertList == Guarded
AlertResolve == [Asking(OnRow("resolve")) EXCEPT !.flag = "resolving", !.perRow = TRUE]
AlertControls == {AlertResolve}

(* The audit log: a list, and the records of one request beside it.        *)
AuditList == [Guarded EXCEPT !.detail = "fetch"]
AuditControls == {}

(* Accounts, and the invitation codes below them.                          *)
UserList == [ByHand EXCEPT !.queries = FALSE]
UserJoin == [InForm("join", "saving") EXCEPT !.listed = FALSE]
UserChangeRole == InForm("role", "saving")
UserReset == Asking(OnRow("reset"))
UserToggle == Asking(OnRow("toggle"))
UserCreate == [Creating("create", "saving") EXCEPT !.calls = 2, !.tolerates = TRUE]
UserControls == {UserJoin, UserChangeRole, UserReset, UserToggle, UserCreate}

\* The status of the invitations is chosen, and the refresh button loads them.
InvitationList == [ByHand EXCEPT !.queries = FALSE, !.searches = TRUE]
InvitationCreate == Creating("generate", "generating")
InvitationRevoke == [Asking(OnRow("revoke")) EXCEPT !.first = TRUE]
InvitationControls == {InvitationCreate, InvitationRevoke}

(* The candidates of the agent under review.                               *)
CandidateList == [Guarded EXCEPT !.detail = "beside"]
CandidateApprove == [Asking(OnRow("approve")) EXCEPT !.first = TRUE, !.leaves = TRUE]
CandidateReject == [InForm("reject", "") EXCEPT !.first = TRUE, !.leaves = TRUE]
CandidateControls == {CandidateApprove, CandidateReject}

(* Attachments: the pagination loads, the filters wait for the search button. *)
AttachmentPageList == [Guarded EXCEPT !.searches = TRUE]
AttachmentUpload == [OnRow("upload") EXCEPT !.from = "page", !.creates = TRUE]
AttachmentBind == InForm("bind", "")
AttachmentRemove == Asking(OnRow("remove"))
AttachmentControls == {AttachmentUpload, AttachmentBind, AttachmentRemove}

(* Radio-frequency matching.                                               *)
MatchingList == ByHand
MatchingCreate == Creating("create", "submitting")
MatchingVoid == [Asking(OnRow("void")) EXCEPT !.first = TRUE]
MatchingControls == {MatchingCreate, MatchingVoid}

(* Step templates: an edit saves the name and the items in two calls.      *)
TemplateList == [ByHand EXCEPT !.detail = "fetch"]
TemplateEdit == [InForm("edit", "saving") EXCEPT !.calls = 2]
TemplateCreate == Creating("create", "saving")
TemplateRemove == Asking(OnRow("remove"))
TemplateControls == {TemplateEdit, TemplateCreate, TemplateRemove}

(* Experiment runs.                                                        *)
RunList == ByHand
RunCreate == Creating("create", "creating")
RunControls == {RunCreate}

(* The steps of an assembly: starting one whose dependency is not done asks for a reason, *)
(* other changes may ask first, and a new order is fetched again even when it is refused. *)
AssemblyList == ByHand
AssemblyTransition == OnRow("transition")
AssemblyEnd == Asking(OnRow("end"))
AssemblyOverride == [InForm("override", "") EXCEPT !.early = TRUE]
AssemblyReorder == [OnRow("reorder") EXCEPT !.anyway = TRUE]
AssemblyCreate == Creating("create", "")
AssemblyRemove == Asking(OnRow("remove"))
AssemblyControls == {AssemblyTransition, AssemblyEnd, AssemblyOverride, AssemblyReorder,
                     AssemblyCreate, AssemblyRemove}

(* One experiment run, and the steps below it.                             *)
RunDetail == [ByHand EXCEPT !.queries = FALSE]
RunTransition == [OnRow("transition") EXCEPT !.flag = "transitioning"]
RunEnd == Asking([RunTransition EXCEPT !.name = "end"])
RunEdit == InForm("edit", "saving")
RunRemove == [Asking(OnRow("remove")) EXCEPT !.reloads = FALSE, !.listed = FALSE]
RunDetailControls == {RunTransition, RunEnd, RunEdit, RunRemove}

RunSteps == [RunDetail EXCEPT !.reloads = FALSE]
StepTransition == OnRow("transition")
StepEnd == Asking(OnRow("end"))
StepCreate == Creating("create", "stepSaving")
StepImport == Creating("import", "importing")
StepRemove == Asking(OnRow("remove"))
StepControls == {StepTransition, StepEnd, StepCreate, StepImport, StepRemove}

(* The projects.                                                           *)
ProjectList == [ByHand EXCEPT !.queries = FALSE, !.reloads = FALSE]
ProjectCreate == Creating("create", "")
ProjectControls == {ProjectCreate}

(* The panel of todos on the home page.                                    *)
TodoPanelList == [Guarded EXCEPT !.queries = FALSE]
PanelDone == OnRow("done")
PanelDefer == [OnRow("defer") EXCEPT !.first = TRUE]
PanelAdd == [OnRow("add") EXCEPT !.from = "page", !.creates = TRUE, !.flag = "adding"]
PanelParse == [PanelAdd EXCEPT !.name = "parse", !.flag = "parsing", !.calls = 2, !.drafts = TRUE]
PanelControls == {PanelDone, PanelDefer, PanelAdd, PanelParse}

(* Test data, entered as a batch (see TestDataBatch), and the cards of the *)
(* instruments with the form that saves a result (see InstrumentPage).     *)
TestDataList == Guarded
TestDataAdded == [OnRow("add") EXCEPT !.from = "page", !.creates = TRUE, !.flag = "submitting"]
TestDataInvalidate == Asking(OnRow("invalidate"))
TestDataControls == {TestDataAdded, TestDataInvalidate}

CardList == [ByHand EXCEPT !.queries = FALSE]
CardStop == Asking(OnRow("stop"))
CardSave == [Creating("save", "saveLoading") EXCEPT !.reloads = FALSE, !.listed = FALSE]
CardControls == {CardStop, CardSave}

(* Pages that only show: lists with filters, and details that follow the   *)
(* record in the address. The keyword of the user's own logs waits for the *)
(* enter key, their other filters load.                                    *)
AttachmentsOf == Guarded
ProjectLogs == Guarded
MyLogs == [Guarded EXCEPT !.searches = TRUE]
DailyHistory == Guarded
LogDetail == Guarded
RelatedIssues == Guarded
ReportDetail == Guarded
TeamReportDetail == Guarded
TeamReports == Guarded
Instruments == [Guarded EXCEPT !.queries = FALSE]

(* The readings of the sensors and their history, each polled and loaded   *)
(* again when another measurement is chosen.                               *)
SensorLatest == Guarded
SensorHistory == Guarded

(* The reports on the home page, shared by its panels, which count their   *)
(* own runs; the day is chosen among the reports loaded.                   *)
DashboardReports == [Guarded EXCEPT !.queries = FALSE]

(* The bell: open todos and active alerts; and the candidates to review.   *)
NoticeList == [ByHand EXCEPT !.queries = FALSE]
PendingCount == [ByHand EXCEPT !.queries = FALSE]

(* The questions asked and their answers. The history is loaded when its   *)
(* tab is opened, not after a question.                                    *)
AskHistory == [ByHand EXCEPT !.detail = "screen"]
AskSend ==
    [OnRow("send") EXCEPT !.from = "page", !.creates = TRUE, !.flag = "sending",
                          !.reloads = FALSE, !.listed = FALSE]
AskControls == {AskSend}

(* The gas cell: its snapshot is fetched at first, when frames were missed *)
(* and after a write. The frames themselves are left out.                  *)
GasStatus == [ByHand EXCEPT !.queries = FALSE]
GasWrite == [OnRow("write") EXCEPT !.flag = "writeBusy"]
GasProtect == Asking([GasWrite EXCEPT !.name = "protect"])
GasControls == {GasWrite, GasProtect}
-----------------------------------------------------------------------------
PageWith(list, controls) ==
    [guarded |-> list.guarded, detail |-> list.detail, queries |-> list.queries,
     searches |-> list.searches, reloads |-> list.reloads, handlers |-> controls]

PageOf ==
    [issues |-> PageWith(IssuesList, IssueControls),
     experiences |-> PageWith(ExperienceList, ExperienceControls),
     todos |-> PageWith(TodoList, TodoControls),
     alerts |-> PageWith(AlertList, AlertControls),
     audit |-> PageWith(AuditList, AuditControls),
     users |-> PageWith(UserList, UserControls),
     invitations |-> PageWith(InvitationList, InvitationControls),
     candidates |-> PageWith(CandidateList, CandidateControls),
     attachments |-> PageWith(AttachmentPageList, AttachmentControls),
     matching |-> PageWith(MatchingList, MatchingControls),
     templates |-> PageWith(TemplateList, TemplateControls),
     runs |-> PageWith(RunList, RunControls),
     assembly |-> PageWith(AssemblyList, AssemblyControls),
     run |-> PageWith(RunDetail, RunDetailControls),
     runSteps |-> PageWith(RunSteps, StepControls),
     projects |-> PageWith(ProjectList, ProjectControls),
     todoPanel |-> PageWith(TodoPanelList, PanelControls),
     testData |-> PageWith(TestDataList, TestDataControls),
     cards |-> PageWith(CardList, CardControls),
     attachmentsOf |-> PageWith(AttachmentsOf, {}),
     projectLogs |-> PageWith(ProjectLogs, {}),
     myLogs |-> PageWith(MyLogs, {}),
     dailyHistory |-> PageWith(DailyHistory, {}),
     logDetail |-> PageWith(LogDetail, {}),
     relatedIssues |-> PageWith(RelatedIssues, {}),
     reportDetail |-> PageWith(ReportDetail, {}),
     teamReportDetail |-> PageWith(TeamReportDetail, {}),
     teamReports |-> PageWith(TeamReports, {}),
     instruments |-> PageWith(Instruments, {}),
     sensorLatest |-> PageWith(SensorLatest, {}),
     sensorHistory |-> PageWith(SensorHistory, {}),
     dashboardReports |-> PageWith(DashboardReports, {}),
     notices |-> PageWith(NoticeList, {}),
     pending |-> PageWith(PendingCount, {}),
     ask |-> PageWith(AskHistory, AskControls),
     gas |-> PageWith(GasStatus, GasControls)]
=============================================================================
