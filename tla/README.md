# Formal models of hiaf-lab-system

TLA+ specifications of the parts of hiaf-lab-system in which the order of events
decides whether the program is right, their model-checking runs for TLC, and
proofs checked by TLAPS. The source is `src/go-server` (the server, Go),
`src/py-agent` (the agent worker, Python), `src/web-ui` (the web interface, Vue and
TypeScript) and `src/migrations` (the schema); paths below are relative to those.

## 1. The system

The server keeps the records of a physics laboratory (projects, daily reports,
logs, issues, experiences, runs, assemblies, test data, attachments) in PostgreSQL
and drives laboratory instruments over TCP. An agent process reads submitted daily
reports with a language model and proposes actions that people review. The web
interface is a single-page application in which most records are written.

| Component | State | Operations | What is hard, and what makes it correct |
|---|---|---|---|
| **Instrument worker** `instruments/worker.go` | per instrument and in memory: queue, epoch, session, state, rate limiter, emergency channel, one goroutine | Start, Submit, AcquireSession, ReleaseSession, WaitFlowYellowSlot, EmergencyStop, requireManualCheck, ConfirmManualCheck, Stop, the run loop | handlers, flow executors and the run loop interleave between lock sections; an emergency stop must cancel all that was queued, lock, send the safe stop last, and stay locked |
| **Instrument flows** `instruments/flow.go`, `repository.go`, `handler.go`, `safety_handler.go` | a row per flow, the worker's session, an executor goroutine | Create, Approve, Run, StopFlow, EmergencyStop, the reaper, recovery at start-up | three copies of one flow's state, changed behind each other's back; a slow model between check and send; unwinding that must restore the frequency |
| Leases, approvals, single commands `instruments/safety.go`, `repository.go`, `handler.go` | rows | CreateLease, RenewLease, ReleaseLease, RequestCommandApproval, Approve, AuthorizeCommand, ExecuteCommand | check, then act; renewal against revocation |
| **Agent task queue** `agent/`, `py-agent/worker.py`, `py-agent/tools/api.py`, trigger in `migrations/032` | a row per task with status, attempts, claim token and lease; a candidate action; the worker's call and its renewal thread | Claim, Renew, Complete, Fail, ApproveCandidate, RejectCandidate, run_once | leases that expire under a living worker, requests applied but not answered and repeated, crashes between commit and effect |
| **Session of the web interface** `web-ui/api/client.ts`, `stores/auth.ts`, `router/`, with `auth/repository.go`, `middleware/idempotency.go` | cookies shared by the tabs, one refresh in flight per tab, the user, the route; sessions and idempotency keys on the server | interceptors, refresh, rotation, loadMe, guard, login, logout | a second 401 joins a refresh, tabs refresh at once, a write is sent twice, the guard awaits and redirects |
| **List pages** `web-ui/views/*`, `composables/useAsyncData.ts` | a list, its query, a drawer, forms, loading flags | load, filter, poll, open, confirm, write, reload | answers overtake each other; forms are edited while the list behind them reloads; others write the same records |
| **Project dashboard** `ProjectDashboard.vue`, `projects/` | members and stage on the page and in the database | go to, add, edit, remove, transition | the page stays mounted while the route changes; two administrators; the last owner |
| **Step items and their authoring** `StepItemsEditor.vue`, three pages with the dialog, `steptemplates/`, `assembly/` | rows that refer to rows by position; a dialog over three calls | add, remove, move, depend; generate, apply, save | renumbering; a failure between the calls |
| **Daily report page** `DailyReportView.vue`, `logs/` | text in the editor, report, drafts of the assistant | type, poll, save, organise, confirm a draft, submit | handlers of several calls that run at the same time as a poll and the user |
| **System updater** `system/`, `SettingsView.vue` | files, a session in memory, subscriptions; the page's reconnects | trigger, tail, finish, recover, subscribe, follow | the update restarts the server that reports it; replay against broadcast |
| **Instrument page and chat** `InstrumentMeasureView.vue`, `InstrumentAiChat.vue` | cards, a form, a result, a chat, a save form | pick, run, parse, ask, execute a candidate, save | late answers meet another card, command or instrument |
| **Batch of test data** `TestDataBatchEditor.vue`, `testdata/` | rows and marks | type, paste, remove, submit | rows change while the batch is on its way; marks go by index |
| Audit log `audit/`, `middleware/audit.go` | a hash chain of rows | append, verify | appends serialised by an advisory lock |
| Records on the server: `issues/ logs/ runs/ experiences/ attachments/` | rows | requests | status guards within single statements |
| Generated: `todos/ weekly/ translations/ ask/`, `py-agent/serve.py` | rows, caches | schedules, model calls | translations repeat the claim-token pattern of the agent queue |
| Surroundings: `alert/ notify/ automation/ sensors/ rfmatch/`, IOC, EPICS gateway, `cli`, deployment | configuration | | adapters and clients |

**Interactions.** A handler or an executor *calls* the worker (Submit and the
session operations) and *waits* on a response channel. The emergency stop *calls*
the worker and then *updates* a flow's row. An executor *reads* its row before
every step and *updates* it at the end; the reaper and the recovery *update* it too
and *release* the session in the worker. Submitting a report *enqueues* a task by a
trigger; the agent worker *requests* everything over HTTP with retries; approving a
candidate *calls* the issues or experiences service. The pages *request* over HTTP
through one client, whose interceptors *share* one refresh of the session per tab and
one cookie jar per browser; the page of the updater *subscribes* to a stream of events.

`PROJECT.json` lists the hazards, each at its line, with the properties that would
catch it; hazards no property covers have a note. Smaller ones met while modelling are
listed at the end of section 3.

## 2. The modules

    CommandGate            what an instrument promises its callers (abstract)
      ^ implemented by        ^ used as its worker by
    InstrumentWorker       InstrumentFlow         AgentQueue
      ^ EXTENDS               ^ EXTENDS              ^ EXTENDS
    InstrumentWorkerProofs InstrumentFlowProofs   AgentQueueProofs
    MCInstrumentWorker     InstrumentFlowCases    MCAgentQueue
                           MCInstrumentFlow

    RecordPages <- RecordPage  WebSession  ProjectPage  StepItems  StepAuthoring
                   DailyReportPage  UpdateStream  InstrumentPage  TestDataBatch
                      all of them instantiated by WebPages
                          ^ EXTENDS
                      WebPagesProofs

    Progress instantiates InstrumentWorker, AgentQueue, WebSession and UpdateStream
    StepItemsProofs, WebSessionProofs, ProjectPageProofs and UpdateStreamProofs EXTEND
    StepItems, WebSession, ProjectPage and UpdateStream; WebPagesProofs instantiates them

### CommandGate
The abstract specification of one instrument, seen by whoever hands in commands: it
belongs to an owner (a flow's session) or to nobody, commands handed in are *live*
until they begin, one command is carried out at a time, and every ownership
boundary (acquire, release, a lapsed session, emergency stop, manual check)
cancels in one instant all that is live. A live command is a pair of command and
the owner it was handed in for. It has no queue, no epoch, no clock and no lock.

### InstrumentWorker
`worker.go`, one action per critical section: a caller's action is what it does
under `w.mu`, and `Submit` is split at the unlock into `Submit` (checks and stamp)
and `Enqueue` (the non-blocking channel send), since anything may happen in
between. `Start` is split into dial, failure and completion. The run loop is one
goroutine with a program counter (`runner.pc`): take (emergency first, then the
blocking select of emergency, stop and commands), validate, rate check, build,
connect, send, finish. `phase`, `sess` and `stamp` are the fields of the
`QueueCommand`; each command is used once. `armed`, `stopSent` and `yellowLog` are
history variables for properties. Abstracted: SCPI text and TCP (success or
failure), the wording of errors, alerts, the time a command takes (any number of
clock ticks). `Stop` is called by the tests only and is included.

### InstrumentFlow
`flow.go` and the handlers around it, over the worker of `CommandGate` (so what the
flows rely on is just what the worker has been shown to implement). A flow is a
record of its row (`status`, `stopReq`), the facts its checks read (`expired`,
`lost`) and its executor (`exec[f]`, with a program counter `pc` and the step number
`n`; 0 is the snapshot, -1 the restoring command). Each action is one statement of
the database or one call of the worker. `finish`, `persistenceFailure` and the
deferred calls are places of the program counter, so that everything else can
happen between them. The emergency stop handler is a process of three steps: read
the owner, stop the worker, mark the row of the owner it *read*. The reaper is a
process of two: one statement for all overdue rows, then a release per row.
`Restart` loses all memory and runs `InterruptActiveFlows`, whose failure is only
logged.

Abstracted or left out:
- the model's answer is any choice: the next command, the end, or something invalid;
- a flow's lease, its permission and the approval are things it may lose; the
  approval ends with the deadline (`flow.go`, `Create`), so `expired` stands for both;
- a communication error is not retried in the model: it leaves the worker in
  `needs_reconnect`, and `canRetryMeasure` requires `running`;
- a row that cannot be read after the approval, or when the executor starts, is a fault
  after which nobody runs the flow (`ApproveFlow`, `TakeSession`); the reaper ends it;
- the settle wait, audit content and a panic in an executor;
- single commands of members during a flow: the session excludes them;
  `NoticeExpiry` stands for the one effect they have, noticing a lapsed session.

### AgentQueue
The rows (`row`, `cand`), the workers' `run_once` with its renewal thread
(`worker`), the requests under way (`network`) and reviewers' handlers (`reviewer`).
A row's claim token is the number of the claim: tokens are random and never repeat.
A request that was not answered in time is sent again (`Retry`, three tries as in
`api.py:132`) while the earlier one stays in the network and may still be served,
or never; this covers lost requests, lost answers, late delivery and errors of the
server. Identical abandoned requests are one element of the set. One transaction of
the server is one action, as its `FOR UPDATE` makes it. Approving is three steps
(commit the fence, execute, mark) with crashes between them. A lease runs down tick
by tick; that it expires while a living worker renews it counts as a fault. A
failed parse, a report without projects and a result the server's validation
refuses are one outcome, the call of `fail`. A task stands for one report, and a
candidate for the candidates of one task, which are inserted together. A report
never returns to a draft in this program, so a report has one task; the index of
migration 031 for resubmitted reports is therefore not exercised.

### WebSession
The client of the web interface: the error interceptor of `client.ts` with its shared
refresh, the resending of a GET that got no answer, `loadMe` with a refresh of its own,
the guard of the router with its four rules, login and logout; and on the server the
filters a request passes in the order `main.go` installs them, the lookup of a refresh
token and its rotation as two transactions, and the revocation of every session. A
generation of cookies is a number; tabs share one jar. Requests and refreshes may be
lost before or after the server has served them (`MaxTrouble`).

### RecordPages and RecordPage
Most pages are a list, perhaps with a drawer and forms, and handlers that ask, call,
close and reload, each in its own variation, and the variations are where the mistakes
are. `RecordPages` is a table: one record per page (is the list guarded against late
answers by `useAsyncData`, has it a query, a filter that waits for a search, a poll, a
drawer that is fetched or not) and
one per handler (where its button is, what flag disables it, how many calls it makes,
whether it closes, reloads after a success or a failure as well, names the version it is
based on, and so on). Each row of the table is mapped to the function it describes.
`RecordPage` gives the table its meaning as a state machine against a server whose
records other users write too. A record is abstracted to the number of writes to it. On
most lists a filter, a tab or a page of the pagination starts a load when it changes
(`ChangeQuery`). Three have a filter that does not (`EditFilter`): the status of the
invitations (`AdminUsersView.vue:107`), both filters of the attachments
(`AttachmentView.vue:22`) and the keyword of the user's own logs (`MyLogsView.vue:6`). There
`query` is what the screen shows and `asked` what the newest load asked for.

### ProjectPage
`ProjectDashboard.vue` with the transactions of `projects/repository.go` it ends in: the
page stays mounted while the route goes from one project to another, dialogs and
questions stay open over that, a second administrator works at the same time, and the
server locks the project, counts its owners and writes, or adds a member in one
statement, which waits for the lock only when the row is new (its foreign key), not when
the member is one already. The change of a stage is a read and a write of their own; the
write waits for the lock. Every write to the members is followed by a fetch of the list,
also for users who removed themselves: unless they are administrators the server refuses
them the list (`MayRead`), and the handler stops there. Only with a list does it reload the
store and leave (`Leave`).

### StepItems and StepAuthoring
`StepItems` is the editor of steps that refer to each other by position, and what
`CreateMany` makes of them. Each row has an identity the code does not know, and `wants`
remembers which row the user chose. `StepAuthoring` is the dialog in which the assistant
makes the steps, on three pages, with the three calls it may take to use them, and a
dialog that can be closed and opened meanwhile.

### DailyReportPage
The text areas, the poll every five seconds, and every handler of the page as a sequence
of calls that run concurrently: save, organise, summarise, confirm a draft, submit with
and without warnings. A text is the number of the edit that made it. What the assistant
answers is a choice. The answer of the save is taken into the editor by every handler but
`generateSummary` (`Taken`).

### UpdateStream
One update from the button to its result: the script outside the server, which writes a
log and a marker; the session in the server's memory, tailing the log, numbering and
broadcasting, which looks for the marker when it has been at the end of the file and does
not read what was written in between; `finish` in its two halves; crash, restart and the
recovery from the files; the subscription, whose goroutine replays while broadcasts write
to the same bounded channel; and the page that reconnects, counts attempts, drops old
frames and gives up.

### InstrumentPage
The cards with one form, the whitelist beside them, the result of the last command and
its parsing, the chat with its candidates and the save form. The parameters of a command
are read when the question has been answered, as in the code; the expansion of a card,
the pick of a command, a late status, wish or execution interleave.

### TestDataBatch
The table of rows, its clipboard, and the batch: checked by the page, then by the server,
which stores all rows or answers with the indexes of those it refuses.

### Compositions and MC modules
`WebPages` explores the modules of the pages as one state machine: a behaviour stays on
the page it starts on. Its constants are those of the pages, under names of their own
where two pages use the same one (`MaxListEvent` and `MaxReportEvent` are both a
`MaxEvent`); `WebPages.cfg` gives them small values, and the assumptions `Bounds` and
`Users` say all that the theorems ask of them: bounds are numbers, a table and the editor
have room for a row, and the user of the dashboard is one of finitely many. `Progress`
does the same for the liveness of the worker, the queue, the session and the update, each
under its own fairness. `InstrumentFlowCases` explores three bounded instances of
`InstrumentFlow`. `MCInstrumentWorker`, `MCInstrumentFlow` and `MCAgentQueue` name the
small sets the configurations use and their symmetry. No configuration replaces a
definition.

## 3. What is checked

`tlc -config <cfg> <module>`. Every run disables the deadlock check, because the
system may stop: commands are used once, clocks, events and fault counters are bounded,
and tasks and flows end.

| Run | Instance | Properties |
|---|---|---|
| `worker_safety` | 2 yellow commands, 2 sessions, queue of 1, rate limit and window of 1, clock to 2, 2 boundaries counted by the epoch | `TypeOK`, `EmergencyLockHolds`, `SafeStopIsLast`, `YellowBudget`, `ImplementsGate` |
| `flow_safety` | three cases: 2 flows with deadlines and a fault; 2 flows and 2 emergency stops; 1 flow of 2 points, stopped, overdue or without lease or permission at any moment, 3 faults | `TypeOK`, `OwnerHasExecutor`, `KilledStaysDead`, `StopIsHonoured`, `SlowDecisionIsHarmless`, `RestoreAccounted`, `CommandLimitSuffices`, `TerminalIsFinal` |
| `flow_progress` | 1 flow, 1 fault, 1 emergency stop, 1 restart, fair | `FlowEnds`, `SessionReturned` |
| `flow_lock_lost` | 1 flow, 1 emergency stop, 1 restart | `EmergencyLockSurvives` **violated** |
| `flow_restore_lease` | 1 flow that may lose its lease | `RestoreHoldsLease` **violated** |
| `agent_safety` | 1 task, 2 workers, 2 reviewers, leases of 2 ticks, 3 faults | `TypeOK`, `CandidateOfLastClaim`, `AttemptsWithinClaims`, `ExecutedOnce`, `SettledForGood` |
| `agent_dead_letter` | 2 tasks, 1 worker, no fault, fair | `DeadLetterAlerts` **violated** |
| `web_pages` | 36 list pages with 2 records and 2 events; a session of one tab with 2 troubles; 2 projects and 2 users; 4 rows of steps; a report with 2 calls and 3 edits; the dialog with 6 events; an update of 2 lines with a crash; 2 instruments with 2 commands; 3 rows of test data | `TypeOK`, `RetryIsNotRefused`, `OneSessionPerLogin`, `ListKeepsUp`, `EditSeesTheLatest`, `MembersAreOfTheRoute`, `OwnersAreCounted`, `DependencyFollowsItsRow`, `SubmittedAsShown`, `DraftBecomesOneLog`, `LeftoversAreReported`, `LinesInOrder`, `SuccessIsTrue`, `SavedAsMeasured`, `MarksFitTheRows` |
| `progress` | fair: a worker with 2 commands, a queue of 2 tasks with 1 fault, a session with 1 trouble, an update of 1 line with a crash and 1 trouble | `StampedIsAnswered`, `EmergencyIsServed`, `TaskSettles`, `NavigationSettles`, `UpdateEnds` |
| `project_owner` | 1 project, 2 users, 2 events | `OwnerRemains` **violated** |
| `update_order` | 3 lines, a channel of 3 | `StreamInOrder` **violated** |
| `instrument_candidate` | 2 instruments, 3 events | `CandidateRunsWhereMeant` **violated** |

**What the properties say.** *Instruments.* `EmergencyLockHolds`: from an accepted
emergency stop to the manual check the worker is locked and nobody's, whatever was in
flight. `SafeStopIsLast`: after the safe stop is sent nothing else is. `YellowBudget`:
the limiter's two pruners together never admit too much. `ImplementsGate`: every step of
the worker maps to a step of `CommandGate` or to none, so a command runs only for
the owner it was handed in for. `OwnerHasExecutor`: an executor that gives up leaves
no session behind. `KilledStaysDead`: a flow that lost the instrument to an
emergency stop never reaches it again, though its executor may wake up minutes
later and the instrument may be unlocked or owned by another flow by then.
`StopIsHonoured`: at most one step overruns a stop, a deadline or a lost lease.
`SlowDecisionIsHarmless`: what changed while the model was thinking counts.
`RestoreAccounted`: a flow that ended well has restored the frequency, or a manual
check was demanded while it ran, or its time was up. `CommandLimitSuffices`: three
commands per point are enough with every retry used. `TerminalIsFinal`: endings are
not overwritten, but for a failed restoration or audit.

*Agent.* `CandidateOfLastClaim`: no result of an expired claim gets in.
`AttemptsWithinClaims`: a claim fails once, however often it says so. `ExecutedOnce`:
reviewers and crashes never execute a candidate twice, or after a rejection.
`SettledForGood`: a completed or dead task stays so, even if the worker did not hear
that its completion was applied and goes on to report a failure.

*Pages.* `RetryIsNotRefused`: a write that is sent again after a refresh is not answered
that its idempotency key was used. `OneSessionPerLogin`: refreshes with the same cookie
never make two sessions of one login. `ListKeepsUp`: when nothing is on its way, a list
answers the last query that was asked and shows every confirmed write of this user. The
query asked is the one on the screen, but on the three lists with a filter that waits for a
search. The pages that load by hand are held to it only while no two of their loads overtake
each other.
`EditSeesTheLatest`: the edit of a todo is never accepted over a change its author was
not shown. `MembersAreOfTheRoute`: the members shown belong to the project shown, unless
the list fetched after a write to another project's members came when the user had gone
on. `OwnersAreCounted`:
removal and demotion by two administrators at once leave an owner.
`DependencyFollowsItsRow`: whatever is moved and removed, a reference stays with the row
it was chosen for. `SubmittedAsShown`: what is submitted is the text that was shown when
the button was pressed, unless another save runs. `DraftBecomesOneLog`: a draft becomes
two logs only after a failure the user was told of. `LeftoversAreReported`: so does a run
without steps or a template that was to be applied and was not, or the dialog was
disturbed. `LinesInOrder`: no line of an update is shown twice or late, although the
server renumbers after a restart. `SuccessIsTrue`: a success is shown only of a script
that ended with 0. `SavedAsMeasured`: a value in the save form was measured by the
instrument it names. `MarksFitTheRows`: a marked row is one that was refused and is as it
was, unless rows were changed while their batch was on its way: then the indexes of the
answer are taken for the rows there are by now, and the wrong ones may be marked (section 3,
end).

The liveness properties say that accepted commands are answered, emergencies served,
flows ended, sessions returned, tasks settled, navigations brought to a page, and a
followed update brought to an end on the page.

**Why the bounds are enough.** The rules relate a command to one boundary, or a
flow to one event behind its back; two boundaries (`MaxEpoch` 2) already make a
command outlive a release and the next acquire, and two flows are the least that
contend. The rate limiter needs limit + 1 commands and a clock of limit + window
ticks. Two points of a sweep are the least at which a retry of the first can starve
the second. Three faults let a worker of the agent use up all its tries and a task
use up its claims in bad ways, with two workers as the old and the new claimant.
On a list page two events start two loads and two calls beside the first load, enough
for each to overtake each; `EditSeesTheLatest` needs one edit and one foreign write, and
two records tell a row from another. Two projects and two events are a write and a
change of the route, or two administrators. A reference needs three rows to be moved
past, and a fourth that was removed. Three edits are a text, one that is saved and one
typed meanwhile. Six events let the dialog be opened, typed in, generated, pressed,
closed and opened again. Two lines with one crash make the numbers of the frames
diverge; two attempts tell a count that is reset from one that is not. The theorems of
section 4 hold without these bounds.

**Fairness.** The run loop and the enqueuing of a stamped command are fair: a
goroutine runs and `Submit` has a non-blocking send. Executors, handlers and the
reaper's ticker are goroutines; the worker is fair because `StampedIsAnswered`
shows that what it accepts is answered; deadlines pass because time does. In the
agent queue workers poll in an endless loop, the parse has a hard timeout
(`worker.py:212`), leases and backoffs run out because time passes, and the server
serves a request somebody waits for, unless a (bounded) fault intervenes. In the web
interface a request is answered or times out, and the event loop runs what an answer
wakes. In an update the server is started again by its supervisor, its goroutines run,
the watchdog of a runner fires, and the timers of the page fire. Nothing is
assumed of members, reviewers, users, faults, the script of an update, or requests that
were given up.

**Divergences found** (the runs marked *violated*):
1. The lock of an emergency stop lives in memory. After a restart of the server the
   instrument runs with no manual check, which `docs/instrument-security.md:139`
   requires.
2. The deferred restoring command is yellow and goes out without `preSendGuard`,
   hence also without the lease that `docs/instrument-security.md:94` requires.
3. A task that fails three times becomes `dead` in an ordinary answer, and nobody
   is alerted, where `README.md:61` has the worker alert about dead letters. The
   alert is raised only when the `fail` request itself gets no answer.
4. Adding a member who is one already changes the role without the count of owners that
   protects a demotion: a project is left without an owner (`projects/repository.go:187`).
5. The replay of a subscription and the broadcasts share a channel frame by frame, so
   frames arrive out of order and the page drops the late ones, which the comment at
   `system/service.go:673` says cannot be.
6. A candidate that arrives after the chat was switched to another instrument joins the
   new conversation and is executed on that instrument (`InstrumentAiChat.vue:195`).

Every property of a passing run has a mutant: a plausible bug of the code, written
next to the definition it changes, under which TLC finds the property violated.

**Seen while modelling, and stated by no property.**
- `flow.go:497`: the executor of a flow that lost the instrument reports a failure to
  store its end, and the manual check it demands takes the session of whichever flow has
  the instrument by then.
- The deadline passes between the last step and the deferred restoration: the worker
  refuses the restoring command (the exception in `RestoreAccounted`).
- `Claim` counts no attempt: a task whose report kills every worker is claimed for ever.
- The edit of a step template saves the name and the items in two calls, and a failure of
  the second leaves the first (`TemplateEdit` has the two calls).
- Of two tabs that refresh at once the loser ends at the login page, since a 401 of the
  refresh is final (in `WebSession`; nothing promises otherwise).
- `runCommand` of the instrument page reads the parameters after the question has been
  answered (the question covers the page, so they are the same).
- `createFlow` of the chat takes a lease first and keeps it when the creation fails.
- The settings page that is left while `onMounted` awaits opens its stream afterwards.
- Rows typed into the batch of test data while it is on its way are lost when it is
  stored; and when it is refused its marks go to the rows that have the indexes by then
  (`TestDataBatchEditor.vue:357`), although the comment at `TestDataBatchEditor.vue:173` has
  marks cleared by every change so that they never point at wrong rows. This is the
  exception in `MarksFitTheRows`.
- Users who are no administrators and remove themselves from a project stay on its page: the
  list of members that is fetched next is refused, and the reload and the way to `/projects`
  behind it (`ProjectDashboard.vue:398-399`) are not reached, where
  `web-ui/docs/user-member-management.md:112` and `:457` send them there.
- A status chosen for the invitations takes effect with the next refresh only
  (`AdminUsersView.vue:107`), where every other status filter of the pages loads at once; until
  then the list answers another query than the one on the screen, with nothing on its way.
- Errors of an update are numbered in memory only: after a restart the numbers of the
  lines that follow are smaller, which is what `LinesInOrder` has to survive; the limit
  of lines kept in the file renumbers once more and is not modelled.
- A crash between starting the runner and noting it on disk leaves a script that nobody
  follows.

## 4. What is proved

`InstrumentWorkerProofs` proves about `InstrumentWorker`, for every set of commands
and sessions, every queue size, rate limit, window and bound (the assumption
`WorkerConstants` of the module is all that is used):

| Theorem | Statement |
|---|---|
| `TypeCorrect` | `Spec => []TypeOK` |
| `RunnerCorrect` | `Spec => []RunnerInv` |
| `LockCorrect` | `Spec => []LockInv` |
| `EmergencyLockSafe` | `Spec => []EmergencyLockHolds` |
| `SafeStopSafe` | `Spec => []SafeStopIsLast` |
| `YellowBudgetSafe` | `Spec => []YellowBudget` |

*The lock.* `EmergencyLockHolds` is not inductive: a step that sends the safe stop
or finishes a command needs to know what the run loop holds. `RunnerInv` says what
it holds at each place, and `LockInv` adds that before the run loop exists nothing
has been armed or sent, and that after the safe stop was sent the worker can be
unlocked only while the loop stands right behind the send, where it will lock again.
That last clause is the reason `execute` locks a second time: a confirmation may
have come while the sequence was being sent. `NobodyTakesOver`, `CallerKeepsLock`
and `RunLoopKeepsLock` split the step by who takes it.

*The limiter.* `YellowBudget` speaks of all commands ever let through, the limiter
only remembers some of them. `LimiterInv` says that what it remembers is the tail of
the log (`lastCmdTimes` is `yellowLog` from `Forgotten` on) and that what it forgot
is older than a window. Forgetting keeps it because the clock never goes back
(`ForgettingIsSafe`); letting a command through needs fewer than `RateLimit` entries
to be remembered, so the command `RateLimit` places back has been forgotten, hence
is old (`LettingThroughIsSafe`).

The last part of `InstrumentWorkerProofs` proves, from the same assumption, that the
worker implements what the flows were modelled over:

| Theorem | Statement |
|---|---|
| `WorkerImplementsGate` | `Spec => ImplementsGate` (`ImplementsGate` is `Gate!GateSpec`, `CommandGate` under the refinement mapping) |

*The gate.* `CommandGate` cancels all that was handed in at one instant; the worker only
counts `queueEpoch` up, leaves the commands in the channel and looks at each when it
comes to it. The mapping therefore calls a command live when its stamp is the present
epoch, and three things must hold for this to be right (`GateInv`): a waiting command's
stamp is never ahead of the epoch, and where it equals the epoch the command was handed in
for the present session (`StampInv`); a command in the channel is in it once, and no other
is (`PlacesInv`); the time a check reads is
not ahead of the clock, so a session it finds lapsed has lapsed. Then one lemma for each group
of actions shows what the step is at the gate: `SubmitSimulated` and `EnqueueSimulated`
(only stamping hands in), `OtherCallersSimulated` and `LifecycleSimulated` (a boundary
cancels, everything else stutters), `TakingSimulated`, `ValidateSimulated` (a command
begins, or is given up) and `CarryingOutSimulated`.

`InstrumentFlowProofs` proves about `InstrumentFlow`, for every set of flows and
emergency stops, every number of points of a sweep and of faults, stops and restarts
(the assumption `FlowConstants`):

| Theorem | Statement |
|---|---|
| `FlowInvariant` | `Spec => []FlowInv` |
| `FlowTypeCorrect` | `Spec => []TypeOK` |
| `FlowOwnerHasExecutor` | `Spec => []OwnerHasExecutor` |
| `FlowKilledStaysDead` | `Spec => []KilledStaysDead` |
| `FlowStopIsHonoured` | `Spec => []StopIsHonoured` |
| `FlowSlowDecision` | `Spec => []SlowDecisionIsHarmless` |
| `FlowCommandLimit` | `Spec => []CommandLimitSuffices` |
| `FlowTerminalIsFinal` | `Spec => TerminalIsFinal` |
| `FlowRestoreAccounted` | `MaxRestarts = 0 /\ Spec => []RestoreAccounted` |

*The flows.* None of these properties is inductive: each speaks of one moment of an
executor, and what makes it true was settled several steps earlier. `FlowInv` therefore
says of every place what the executor's variables can be there (`Placed`), and is the
conjunction of eight parts that are kept one after the other:
- `PlaceInv` counts: before a numbered command at most three were spent on each finished
  point, one more if a measurement is under way and one more if it is a retry. This is
  what `CommandLimitSuffices` needs, for any number of points.
- `RowInv`: a row that was not approved, or that a restart interrupted, has no executor,
  so nobody is left to overwrite the ending (`TerminalIsFinal`).
- `OwnerInv`: an owner is past taking the session, and its executor has the deferred
  release still before it, also on the way through `finish`.
- `KilledInv`: a flow an emergency stop took the instrument from was past `launched`, and
  a session is taken at `launched` only.
- `LateInv`: whatever was lost while the model was thinking is still lost when the second
  `preSendGuard` looks, since stops, deadlines and lost grounds are never taken back.
- `StopInv`: a step that overran is the one that had passed the guard, and the executor
  is in front of a guard from then on.
- `HeldInv`: an executor past `start` has the instrument, or is unwinding, or is excused
  (a manual check was demanded or its deadline has passed).

`FlowRestoreAccounted` adds `RestoreInv`, which follows the frequency from the end of the
steps to the deferred release, and uses `HeldInv`: the worker can refuse the restoring
command only to a flow that is excused. It assumes that the server is not restarted: a
restart between the end of a run and its restoration leaves the row as it is and the
frequency where it was, which is a hazard in `PROJECT.json` and not a gap of the proof.
Every step of every invariant is split by action; the lemmas that end in `Moves` say
once what an action does to one executor and that it leaves the others alone.

`AgentQueueProofs` proves the safety of `AgentQueue` for every finite set of tasks,
all workers and reviewers, and every number of attempts, tries, ticks and faults
(`QueueConstants`):

| Theorem | Statement |
|---|---|
| `QueueTyped` | `Spec => [](TypeOK /\ TaskInv)` |
| `OneClaimSafe` | `Spec => []CandidateOfLastClaim` |
| `AttemptsSafe` | `Spec => []AttemptsWithinClaims` |
| `SettledSafe` | `Spec => SettledForGood` |
| `ExecutedOnceSafe` | `Spec => []ExecutedOnce` |

*The queue.* `TypeOK` alone does not bear a step that reports on a task: `TaskInv`
adds that whoever is past a claim, in a worker or in a request, has a task. The lemma
`RowSteps` then reduces a step to what it does to one row (submit or lease or
backoff; claim; complete; fail), and three of the theorems follow from it. No
relation between the tokens of late requests and the rows is needed: `Holds` compares
them when the request is served, in the transaction that changes the row, and this
alone is what keeps late requests out. `AttemptsInv` adds to `AttemptsWithinClaims`
that the claim that holds a task has not failed yet. `ReviewInv` adds to `ExecutedOnce`
that a candidate has one handler at most and was not executed before the handler got
there; it rests on `OneClaimSafe`, since a second completion of the task would put the
candidate back to review. TLC found `TaskInv`, `AttemptsInv` and `ReviewInv` to hold
on the instance of `AgentQueueSafety` first.

`StepItemsProofs` proves about `StepItems`, for any number of rows, edits and steps
that were there before (`Bounds`, with at least one row and one edit):

| Theorem | Statement |
|---|---|
| `DependenciesKept` | `Spec => [](DependencyFollowsItsRow /\ AppliedAsEdited)` |
| `ItemsTyped` | `Spec => []TypeOK` |

Removal and exchange are first described as sequences (`RemovalRenumbers`,
`MoveRenumbers`); that a renumbered reference stays with its row then rests on the
identities of the rows being distinct (`Shaped`). `AppliedAsEdited`, that the steps created
from the rows depend on each other as the rows did, whatever steps the run had, is only
proved and checked by no run. (A row that names a later one, which moving makes
possible, loses its dependency when it is applied directly; a template refuses it.)
That a dependency is within `MAX_ITEMS` is no fact of its own: it names a row there is
(`DependencyFollowsItsRow`), and there are no more rows than that (`WithinLimits`).

`WebSessionProofs` and `ProjectPageProofs` prove, for any tabs, requests, logins, projects,
events and troubles, and any finite set of users:

| Theorem | Statement |
|---|---|
| `SessionsAreLogins` | `WebSession`: `Spec => []OneSessionPerLogin` |
| `RetriesAreNotRefused` | `WebSession`: `Spec => []RetryIsNotRefused` |
| `SessionTyped` | `WebSession`: `MaxTrouble \in Nat /\ Spec => []TypeOK` |
| `OwnersStay` | `ProjectPage`: `Users /\ Spec => []OwnersAreCounted` |
| `MembersFollow` | `ProjectPage`: `Spec => []MembersAreOfTheRoute` |
| `DashboardTyped` | `ProjectPage`: `MaxEvent \in Nat /\ Users /\ Spec => []TypeOK` |

*The session.* Sessions are honoured while their generation is in `live`: `SessionInv`
counts them, and the rotation keeps the count because its second transaction demands that
the row it replaces is still there (`RotationCounts`). For the retries `RetryInv` says
that a write whose key is stored was answered or given up, hence is never sent again: the
key is stored behind the check of the access token, and a write is sent twice only when it
failed that check. A question about the user is sent any number of times, but is no write.
The run has one tab, the theorems any number, which all share the jar.

*The owners.* `OwnersAreCounted` is not inductive, since counting and writing are two
steps. `OwnerInv` adds that a transaction which has the lock of a project is the only one
(`LockInv`) and that what it counted is still so when it writes (`CountInv`): the demotion
leaves another owner, or an addition, which takes no lock for a member's row, has demoted
one meanwhile and is remembered. That is the exception of the theorem, and the divergence
4 of section 3. Every other action is `Quiet`: it leaves members and locks alone.

`UpdateStreamProofs` proves about `UpdateStream`, for any number of lines, crashes,
troubles and attempts and any buffer:

| Theorem | Statement |
|---|---|
| `SuccessesAreTrue` | `Spec => []SuccessIsTrue` |
| `LinesAreInOrder` | `Spec => []LinesInOrder` |
| `UpdateTyped` | `Bounds /\ Spec => []TypeOK` |

*The update.* `Truth` says that whatever speaks of a success (the marker, the verdict, the
result, the frames of the history, of the replay and of the stream) is there only when the
script has ended with 0; a script ends once, so what was true stays so over crashes
(`StillFit`). `OrderInv` relates the lines shown to the numbers of the frames: in one
session a line has one number, its own or the next one (`Numbering`: at most one error,
of the watchdog or of a lost runner, comes before it), and the frames sent are those of
the history (`Known`). A rebuilt session gives every line its own number, so a line the
page has with the higher number is never newer than the last frame; one it has with its
own number keeps that number as long as the session lives (`Steady`). A second error
before a line, or a rebuilt session that numbered its lines otherwise, would break it.

`UpdateTyped` (its assumption is that the bounds are numbers; the other two need none)
rests on the same numbering: the page shows lines of the script only, since the frame it
takes is one of the history and `Numbering` keeps those within what has been read.

`WebPagesProofs` proves every safety invariant and action property of the run
`web_pages`, for any records, projects, users, runs, instruments, commands, calls, rows
and bounds, from the assumptions `Bounds` and `Users` of `WebPages`:

| Theorem | Statement | Invariant |
|---|---|---|
| `ListsKeepUp` | `Spec => []ListKeepsUp` | `ListInv` |
| `EditsSeeTheLatest` | `Spec => EditSeesTheLatest` | `ListInv` |
| `SubmittedIsShown` | `Spec => SubmittedAsShown` | `ReportInv` |
| `DraftsBecomeOneLog` | `Spec => []DraftBecomesOneLog` | `ReportInv` |
| `LeftoversAreTold` | `Spec => []LeftoversAreReported` | `AuthoringInv` |
| `ValuesAreMeasured` | `Spec => []SavedAsMeasured` | `CardsInv` |
| `MarksFit` | `Spec => []MarksFitTheRows` | `BatchInv` |
| `RetriesAreNotRefused`, `LoginsHaveOneSession` | `Spec => []RetryIsNotRefused`, `Spec => []OneSessionPerLogin` | `SessionInv` |
| `MembersFollowTheRoute`, `ProjectsKeepAnOwner` | `Spec => []MembersAreOfTheRoute`, `Spec => []OwnersAreCounted` | `DashboardInv` |
| `RowsKeepTheirChoice` | `Spec => []DependencyFollowsItsRow` | `ItemsInv` |
| `LinesAreShownInOrder`, `SuccessesAreReal` | `Spec => []LinesInOrder`, `Spec => []SuccessIsTrue` | `UpdateInv` |
| `PagesTyped` | `Spec => []TypeOK` | all of them |

*The pages.* A behaviour stays on its page, so a theorem follows from the invariant of that
page alone (`PageInits`, `PageSteps`). The last four invariants are those of the proof
modules above. An instance of such a module has definitions of its own, which say the same
as those of the instance `WebPages` made: `SessionInitsAgree` and `SessionStepsAgree`, and
the like for the other three, carry them over. TLC found the other five inductive
invariants to hold on the instance of `WebPages.cfg` before they were proved.

*The lists.* One proof covers all 36 lists with every handler of theirs, and every shape
of a load, because it asks of a page only what every page has (`GoodControls`, proved
handler by handler). `ListKeepsUp` speaks of a moment at which everything was answered;
`ListInv` says what makes it come true. The newest load is on its way, for the query last
asked (the one on the screen, where no filter waits for a search: `AskedAtOnce`), and if
the server has answered it already, after the last confirmed write of this user; or it
came to an end, and the list shows it, unless the page takes answers in any order and they
have crossed (`NewestSettles`). A write that is confirmed starts a new load, so it never
finds the newest one behind it. `LoadsAreCounted` says that each load but the first is
paid for by an event: it is why the numbers of the loads suffice for any bound.
`OwnAreWritten` says that what was confirmed to the user is in the database.
`EditsSeeTheLatest` is a fact about single steps: the handlers that send a version send
the one the user was shown (`CallOk`), and the server compares.

*The daily report.* Several handlers of the page run at once, each over several calls.
`Submits` follows the submission: it writes the text there was when the button was pressed,
and from the answer of that write to the end of the submission the report is that text,
unless a save ran at the same time (`crossed`). For the drafts `Confirms` says that the row
of a draft shows its confirmation as long as the handler runs, so none is started beside it
(`OneOfAKind`), and `DraftsFit` counts the logs against the failures the user was told of. A
draft whose log was created and whose answer was lost stays in the list: this is the
exception that `failed` counts.

*The dialog.* `Counted` adds to what is left over the run, and the template, which the
submission holds in its hands and may still use; `Proceeds` says at which step of which
button that is so, and that an undisturbed submission knows where its steps go.

*The instrument page.* A late answer names the instrument its request was sent to
(`Carried`), and while a response is parsed the panel is that of its command (`Panel`);
`SavedAsMeasured` follows for the form that copies the value and the name at once.

*The batch.* The rows on their way are those of the table unless it was changed, which is
what makes the indexes of the answer mean the rows on the screen.

**Only model-checked:** the liveness properties of `flow_progress` and `progress`
(`FlowEnds`, `SessionReturned`, `StampedIsAnswered`, `EmergencyIsServed`, `TaskSettles`,
`NavigationSettles`, `UpdateEnds`): liveness under fairness and `ENABLED` are beyond the
prover. `RestoreAccounted` is proved for a server that is not restarted. Every other
property of a passing run is a theorem. No module with a theorem
uses a recursive operator; what a recursive definition computes for all inputs could not
be proved by induction with the provers at hand, and none of the theorems depends on one.

## 5. Not modelled, and why

**Left out of modelled parts.**
- *Instruments*: leases and approvals of single commands (`safety.go`: each is a row that
  is checked by a statement of its own before the command is handed to the worker; the
  flows have them as grounds that can be lost); SCPI text, whitelists and the validation
  of parameters, which are pure; results of measurements and their charts; the wait for
  an instrument to settle; the content of the audit trail.
- *Agent queue*: parsing and the model's answers, a choice in the model; the trace query.
- *Session*: registration, the change of a password (only that it is demanded), the
  CSRF token and the rate limit of logins, which are checks of single requests.
- *List pages*: texts, validation of inputs, charts, exports, attachments, the stream of
  the gas cell, the links of runs and reports (`useRunReports.ts`). Of a guarded list only
  the rows are guarded: a late loader still writes the total (`IssuesView.vue:90`,
  `AlertCenterView.vue:168`, `AuditView.vue:161`, `AttachmentView.vue:144`,
  `MyLogsView.vue:63`) and the thumbnails (`AttachmentView.vue:150-169`), which are left out.
  A text filter counts as changed when it is taken. The user of the model
  holds every permission a button asks for, since the server asks again.
- *Project dashboard*: the creation and settings of projects, overrides of permissions,
  and the role of a maintainer, which may do to the members what an owner may
  (`ProjectDashboard.vue:189`, `permission.go:45`) and which the last owner's protection does
  not mention: the transactions are the same, the senders an owner or an administrator.
- *Daily report*: translations and attachments.
- *Updater*: the script itself, the lock file, the limit of lines kept in the log, colour
  codes and lines that are not complete yet, a marker that cannot be parsed, the sweep of
  old sessions.
- *Instrument page*: the choice of project and run in the save form, flows that are
  created in the chat and polled.

**Components that are not modelled.** The audit log (one statement under an advisory
lock), alerts and notifications (one statement that aggregates, and outgoing HTTP),
handlers of the server that change one row in one statement (issues, experiences, runs,
attachments: what a page relies on of them is in `RecordPage`), tokens and middleware
without state, automation rules (configuration), sensors and radio-frequency matching
(numeric data that is only read), the HTTP services around the language models, weekly
summaries, translations and questions (schedules and model calls; translations repeat the
pattern of claims of the agent queue), the adapters to EPICS and the simulated IOC, the
command line, the manual, menus, texts and styles, migrations and deployment.

**What is left.** The approvals of single commands; the translations beside the agent
queue. Of the proofs: `RestoreAccounted` over a restart, which needs what the recovery
leaves behind as an exception, and a refinement of a page (the todos, say) to an abstract
list that only its author's confirmed writes change.
