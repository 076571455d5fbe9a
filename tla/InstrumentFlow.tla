--------------------------- MODULE InstrumentFlow ---------------------------
(***************************************************************************)
(* Flows: sweeps of many commands that a member draws up, another one      *)
(* approves and an executor goroutine carries out step by step with a      *)
(* language model deciding (go-server/instruments/flow.go), on one         *)
(* instrument.  The state of a flow lives in three places that nothing     *)
(* updates together: its row in the database, the session in the worker    *)
(* and the executor's own variables.  Stops, the emergency stop, the       *)
(* reaper of overdue flows and a restart of the server work on the first   *)
(* two behind the executor's back.  The worker is the abstract one of      *)
(* CommandGate, which InstrumentWorker implements.                         *)
(***************************************************************************)
EXTENDS Integers, FiniteSets

CONSTANTS
    Flow,         \* the flows, which are also the sessions of the worker
    NoOwner,      \* no flow holds the instrument
    Idle,         \* the worker carries out no command
    SafeStop,     \* the worker carries out the emergency sequence
    Points,       \* length of the frequency grid
    Grounds,      \* what a flow may lose on the way: "lease", "permission"
    Stoppable,    \* bound: the flows somebody asks to stop
    Overdue,      \* bound: the flows whose deadline passes
    MaxFaults,    \* bound: database and audit errors, timeouts of commands
    MaxStops,     \* bound: emergency stops
    MaxRestarts   \* bound: restarts of the server

ASSUME FlowConstants ==
    /\ NoOwner \notin Flow
    /\ Idle # SafeStop
    /\ Points \in Nat \ {0}
    /\ Grounds \subseteq {"lease", "permission"}
    /\ Stoppable \subseteq Flow
    /\ Overdue \subseteq Flow
    /\ MaxFaults \in Nat
    /\ MaxStops \in Nat
    /\ MaxRestarts \in Nat

MaxCommands == 3 * Points   \* FlowLimits.MaxCommands
Restore == -1               \* stepNo of the command that restores the frequency
Snapshot == 0               \* stepNo of the command that reads it

VARIABLES
    owner, lapsed, locked, stopQueued, live, inflight,  \* the worker, see CommandGate
    answer,    \* the result of each flow's last command, when it has one
    status,    \* status of each flow's row
    stopReq,   \* stop_requested of each flow's row
    expired,   \* the deadline of each flow has passed
    lost,      \* the grounds each flow has lost
    exec,      \* the executor of each flow
    estop,     \* the request handler of an emergency stop
    reaping,   \* rows the reaper has timed out and not yet released
    faults, stops, restarts,  \* counters of the bounds
    armed,     \* history: an emergency stop was accepted, no manual check since
    killed,    \* history: flows whose session an emergency stop took
    overrun,   \* history: steps each flow handed in after losing its authority
    restored,  \* history: flows whose frequency was restored
    reported   \* history: flows during which a manual check was demanded

gate == <<owner, lapsed, locked, stopQueued, live, inflight>>
row == <<status, stopReq>>
bounds == <<faults, stops, restarts>>
history == <<armed, killed, overrun, restored, reported>>
vars == <<gate, answer, row, expired, lost, exec, estop, reaping, bounds, history>>

Gate == INSTANCE CommandGate WITH
    Command <- Flow \X (Restore..MaxCommands),
    Session <- Flow

Active == {"queued", "running"}
Terminal == {"completed", "failed", "stopped", "timed_out", "interrupted",
             "emergency_stopped"}

Verdict == {"completed", "failed", "stopped", "timed_out"}
Pc == {"gone", "launched", "start", "head", "decide", "guard", "submit", "wait",
       "record", "finish", "manual", "restore", "release"}
\* runRaw's error: "" for none, otherwise the class its caller looks at
RunError == {"", "stop", "deadline", "timeout", "other"}

\* pc is where the executor is, n its stepNo, next where it goes after demanding a
\* manual check, exit where finish returns to, late whether its authority was gone
\* when the model answered, sent whether the worker took the last command.
Executor == [pc : Pc, n : Restore..(MaxCommands + 1), next : Pc, exit : Pc,
             verdict : Verdict, err : RunError, pending : BOOLEAN, retried : BOOLEAN,
             points : 0..Points, late : BOOLEAN, sent : BOOLEAN]

NoExecutor == [pc |-> "gone", n |-> Snapshot, next |-> "gone", exit |-> "gone",
               verdict |-> "failed", err |-> "", pending |-> FALSE,
               retried |-> FALSE, points |-> 0, late |-> FALSE, sent |-> FALSE]

TypeOK ==
    /\ Gate!GateTypeOK
    /\ answer \in [Flow -> {"none", "ok", "failed"}]
    /\ status \in [Flow -> {"none", "awaiting_approval"} \cup Active \cup Terminal]
    /\ stopReq \in [Flow -> BOOLEAN]
    /\ expired \in [Flow -> BOOLEAN]
    /\ lost \in [Flow -> SUBSET Grounds]
    /\ exec \in [Flow -> Executor]
    /\ estop \in [pc : {"idle", "owner", "row"}, owner : Flow \cup {NoOwner}]
    /\ reaping \in SUBSET Flow
    /\ faults \in 0..MaxFaults
    /\ stops \in 0..MaxStops
    /\ restarts \in 0..MaxRestarts
    /\ armed \in BOOLEAN
    /\ killed \in SUBSET Flow
    /\ overrun \in [Flow -> Nat]
    /\ restored \in SUBSET Flow
    /\ reported \in SUBSET Flow

Init ==
    /\ Gate!GateInit
    /\ answer = [f \in Flow |-> "none"]
    /\ status = [f \in Flow |-> "none"]
    /\ stopReq = [f \in Flow |-> FALSE]
    /\ expired = [f \in Flow |-> FALSE]
    /\ lost = [f \in Flow |-> {}]
    /\ exec = [f \in Flow |-> NoExecutor]
    /\ estop = [pc |-> "idle", owner |-> NoOwner]
    /\ reaping = {}
    /\ faults = 0
    /\ stops = 0
    /\ restarts = 0
    /\ armed = FALSE
    /\ killed = {}
    /\ overrun = [f \in Flow |-> 0]
    /\ restored = {}
    /\ reported = {}

-----------------------------------------------------------------------------
(* Helpers.                                                                *)

\* A statement of the database or the audit fails, or a command takes too long.
Fault == faults < MaxFaults /\ faults' = faults + 1 /\ UNCHANGED <<stops, restarts>>

At(f, pc) == exec[f].pc = pc

GoTo(f, pc) == exec' = [exec EXCEPT ![f].pc = pc]

\* e.finish is about to be called with this status, the rest is forgotten.
EndWith(f, verdict) ==
    exec' = [exec EXCEPT ![f] =
        [NoExecutor EXCEPT !.pc = "finish", !.verdict = verdict, !.exit = exec[f].exit]]

\* requireManualCheck is about to be called; the executor goes on at next.
DemandCheck(f, next) ==
    exec' = [exec EXCEPT ![f] = [NoExecutor EXCEPT !.pc = "manual", !.next = next]]

\* The deferred calls are next.
Unwind(f) == exec' = [exec EXCEPT ![f] = [NoExecutor EXCEPT !.pc = exec[f].exit]]

\* runRaw returned.
Ran(f, err) == exec' = [exec EXCEPT ![f] = [@ EXCEPT !.pc = "record", !.err = err]]

SetRow(f, new) == status' = [status EXCEPT ![f] = new]

\* The flow was stopped, ended, is overdue or has lost a ground it stands on.
AuthorityGone(f) == stopReq[f] \/ status[f] # "running" \/ expired[f] \/ lost[f] # {}

\* Mutant: preSendGuard does not look at stop_requested.
FitIgnoresStop(f) == status[f] = "running" /\ ~expired[f] /\ lost[f] = {}

\* preSendGuard finds nothing wrong: not stopped, running, in time, lease, approval
\* (which ends with the deadline) and permission in force.
Fit(f) == ~stopReq[f] /\ status[f] = "running" /\ ~expired[f] /\ lost[f] = {}

\* The error preSendGuard returns: the first thing wrong.
GuardError(f) ==
    IF stopReq[f] THEN "stop"
    ELSE IF status[f] = "running" /\ expired[f] THEN "deadline" ELSE "other"

\* Mutant: the error code is used as the status.
GuardVerdictIsCode(err) ==
    CASE err = "stop" -> "stopped" [] err = "deadline" -> "deadline_exceeded" [] OTHER -> "failed"

\* finishGuardFailure
GuardVerdict(err) ==
    CASE err = "stop" -> "stopped" [] err = "deadline" -> "timed_out" [] OTHER -> "failed"

-----------------------------------------------------------------------------
(* Members.                                                                *)

\* A flow is drawn up under a valid lease, its approval pending.
Create(f) ==
    /\ status[f] = "none"
    /\ "lease" \notin lost[f]
    /\ SetRow(f, "awaiting_approval")
    /\ UNCHANGED <<gate, answer, stopReq, expired, lost, exec, estop, reaping, bounds, history>>

\* Somebody else approves it, once and in time, which launches the executor unless the
\* approved row cannot be read.
ApproveFlow(f) ==
    /\ status[f] = "awaiting_approval"
    /\ ~expired[f]
    /\ SetRow(f, "queued")
    /\ \/ GoTo(f, "launched") /\ UNCHANGED bounds
       \/ Fault /\ exec' = exec
    /\ UNCHANGED <<gate, answer, stopReq, expired, lost, estop, reaping, history>>

StopFlow(f) ==
    /\ f \in Stoppable
    /\ status[f] \in Active
    /\ ~stopReq[f]
    /\ stopReq' = [stopReq EXCEPT ![f] = TRUE]
    /\ UNCHANGED <<gate, answer, status, expired, lost, exec, estop, reaping, bounds, history>>

\* The lease is released, lapses or is taken by an admin; a permission is withdrawn.
Lose(f, ground) ==
    /\ status[f] # "none"
    /\ ground \notin lost[f]
    /\ lost' = [lost EXCEPT ![f] = @ \cup {ground}]
    /\ UNCHANGED <<gate, answer, row, expired, exec, estop, reaping, bounds, history>>

\* deadline_at, which is also the session's time in the worker.
DeadlinePasses(f) ==
    /\ f \in Overdue
    /\ status[f] # "none"
    /\ ~expired[f]
    /\ expired' = [expired EXCEPT ![f] = TRUE]
    /\ IF owner = f THEN Gate!Lapse ELSE UNCHANGED gate
    /\ UNCHANGED <<answer, row, lost, exec, estop, reaping, bounds, history>>

-----------------------------------------------------------------------------
(* The emergency stop handler and the manual check.                        *)

\* The handler reads who owns the instrument, for the row it will mark.
EStopOwner ==
    /\ estop.pc = "idle"
    /\ stops < MaxStops
    /\ stops' = stops + 1
    /\ estop' = [pc |-> "owner", owner |-> owner]
    /\ UNCHANGED <<gate, answer, row, expired, lost, exec, reaping, faults, restarts, history>>

\* The worker takes the emergency stop, or refuses it because one is queued.
EStopWorker ==
    /\ estop.pc = "owner"
    /\ \/ /\ Gate!EmergencyStop
          /\ estop' = [estop EXCEPT !.pc = "row"]
          /\ armed' = TRUE
          /\ killed' = killed \cup ({owner} \ {NoOwner})
          /\ reported' = {f \in Flow : ~At(f, "gone")} \cup reported
       \/ /\ stopQueued
          /\ estop' = [pc |-> "idle", owner |-> NoOwner]
          /\ UNCHANGED <<gate, armed, killed, reported>>
    /\ UNCHANGED <<answer, row, expired, lost, exec, reaping, bounds, overrun, restored>>

\* EmergencyFlow marks the row of the owner read before; its error is ignored.
EStopRow ==
    /\ estop.pc = "row"
    /\ estop' = [pc |-> "idle", owner |-> NoOwner]
    /\ \/ /\ \E f \in Flow :
                /\ f = estop.owner /\ status[f] \in Active
                /\ SetRow(f, "emergency_stopped")
                /\ stopReq' = [stopReq EXCEPT ![f] = TRUE]
          /\ UNCHANGED bounds
       \/ /\ \A f \in Flow : f = estop.owner => status[f] \notin Active
          /\ UNCHANGED <<row, bounds>>
       \/ estop.owner # NoOwner /\ Fault /\ UNCHANGED row
    /\ UNCHANGED <<gate, answer, expired, lost, exec, reaping, history>>

\* Somebody else's command finds the session's time up.
NoticeExpiry ==
    /\ Gate!Expire({})
    /\ UNCHANGED <<answer, row, expired, lost, exec, estop, reaping, bounds, history>>

ConfirmManualCheck ==
    /\ Gate!ConfirmManualCheck
    /\ armed' = FALSE
    /\ UNCHANGED <<answer, row, expired, lost, exec, estop, reaping, bounds,
                   killed, overrun, restored, reported>>

-----------------------------------------------------------------------------
(* The executor (Run and runRaw).                                          *)

executorOnly == <<answer, expired, lost, estop, reaping, armed, killed, overrun, restored>>

\* AcquireSession: the flow owns the instrument, or fails as instrument_busy. When the
\* row cannot be read the executor silently gives up.
TakeSession(f) ==
    /\ At(f, "launched")
    /\ \/ /\ ~expired[f]
          /\ Gate!Acquire(f)
          /\ GoTo(f, "start")
          /\ UNCHANGED bounds
       \/ /\ exec' = [exec EXCEPT ![f] = [@ EXCEPT !.pc = "finish", !.verdict = "failed", !.exit = "gone"]]
          /\ UNCHANGED <<gate, bounds>>
       \/ Fault /\ exec' = [exec EXCEPT ![f] = NoExecutor] /\ UNCHANGED gate
    /\ UNCHANGED <<executorOnly, row, reported>>

\* Mutant: the executor returns before it deferred the release.
StartWithoutRelease(f) ==
    /\ At(f, "start")
    /\ \/ /\ status[f] = "queued" /\ ~expired[f]
          /\ SetRow(f, "running")
          /\ exec' = [exec EXCEPT ![f] = [@ EXCEPT !.pc = "submit", !.exit = "release"]]
          /\ UNCHANGED bounds
       \/ /\ \/ (status[f] # "queued" \/ expired[f]) /\ UNCHANGED bounds
             \/ Fault
          /\ GoTo(f, "gone")
          /\ UNCHANGED status
    /\ UNCHANGED <<executorOnly, gate, stopReq, reported>>

\* StartFlow: queued and in time, or the executor silently gives up.
Start(f) ==
    /\ At(f, "start")
    /\ \/ /\ status[f] = "queued" /\ ~expired[f]
          /\ SetRow(f, "running")
          /\ exec' = [exec EXCEPT ![f] = [@ EXCEPT !.pc = "submit", !.exit = "release"]]
          /\ UNCHANGED bounds
       \/ /\ \/ (status[f] # "queued" \/ expired[f]) /\ UNCHANGED bounds
             \/ Fault
          /\ GoTo(f, "release")
          /\ UNCHANGED status
    /\ UNCHANGED <<executorOnly, gate, stopReq, reported>>

\* The loop head: preSendGuard before the model is asked.
Head(f) ==
    /\ At(f, "head")
    /\ \/ Fit(f) /\ GoTo(f, "decide") /\ UNCHANGED bounds
       \/ ~Fit(f) /\ EndWith(f, GuardVerdict(GuardError(f))) /\ UNCHANGED bounds
       \/ Fault /\ EndWith(f, "failed")
    /\ UNCHANGED <<executorOnly, gate, row, reported>>

\* The model answers with the next command of the grid, completes a finished sweep,
\* or anything else, which ends the flow.
Decide(f) ==
    /\ At(f, "decide")
    /\ \/ /\ exec[f].n <= MaxCommands /\ exec[f].points < Points
          /\ exec' = [exec EXCEPT ![f] = [@ EXCEPT !.pc = "guard", !.late = AuthorityGone(f), !.sent = FALSE]]
       \/ exec[f].points = Points /\ EndWith(f, "completed")
       \/ EndWith(f, "failed")
    /\ UNCHANGED <<executorOnly, gate, row, bounds, reported>>

\* Mutant: runRaw does not call preSendGuard again.
SecondGuardMissing(f) ==
    /\ At(f, "guard")
    /\ GoTo(f, "submit")
    /\ UNCHANGED <<executorOnly, gate, row, bounds, reported>>

\* preSendGuard again, after the decision and the wait for the yellow budget (which
\* may find that the budget will not be there in time).
SecondGuard(f) ==
    /\ At(f, "guard")
    /\ \/ Fit(f) /\ GoTo(f, "submit") /\ UNCHANGED bounds
       \/ ~Fit(f) /\ Ran(f, GuardError(f)) /\ UNCHANGED bounds
       \/ Fault /\ Ran(f, "other")
    /\ UNCHANGED <<executorOnly, gate, row, reported>>

\* Mutant: the worker does not compare SessionID with its owner.
SubmitWithoutOwner(f) ==
    /\ At(f, "submit")
    /\ \/ /\ Gate!HandIn(<<f, exec[f].n>>)
          /\ answer' = [answer EXCEPT ![f] = "none"]
          /\ exec' = [exec EXCEPT ![f] = [@ EXCEPT !.pc = "wait", !.sent = TRUE]]
          /\ overrun' = [overrun EXCEPT ![f] = @ + IF exec[f].n > 0 /\ AuthorityGone(f) THEN 1 ELSE 0]
       \/ /\ \/ Gate!Expire({}) \/ UNCHANGED gate
          /\ Ran(f, "other")
          /\ UNCHANGED <<answer, overrun>>
    /\ UNCHANGED <<row, expired, lost, estop, reaping, bounds, armed, killed, restored, reported>>

\* The command is logged and handed to the worker, which stamps or refuses it (lost
\* session, lock, full queue); the log or the audit may refuse it before.
SubmitCommand(f) ==
    /\ At(f, "submit")
    /\ \/ /\ owner = f
          /\ Gate!HandIn(<<f, exec[f].n>>)
          /\ answer' = [answer EXCEPT ![f] = "none"]
          /\ exec' = [exec EXCEPT ![f] = [@ EXCEPT !.pc = "wait", !.sent = TRUE]]
          /\ overrun' = [overrun EXCEPT ![f] = @ + IF exec[f].n > 0 /\ AuthorityGone(f) THEN 1 ELSE 0]
       \/ /\ \/ Gate!Expire({}) \/ UNCHANGED gate
          /\ Ran(f, "other")
          /\ UNCHANGED <<answer, overrun>>
    /\ UNCHANGED <<row, expired, lost, estop, reaping, bounds, armed, killed, restored, reported>>

\* The command of f that its executor waits for is with the worker.
InWorker(f) == <<<<f, exec[f].n>>, owner>> \in live \/ inflight = <<f, exec[f].n>>

\* A result or the timeout, then the completion log: when that fails the hardware
\* did something that is not on record, and the instrument must be checked.  A
\* communication error is not transient: it leaves the worker in needs_reconnect.
Collect(f) ==
    /\ At(f, "wait")
    /\ \/ Ran(f, "") /\ answer[f] = "ok" /\ UNCHANGED bounds
       \/ Ran(f, "other") /\ answer[f] # "ok" /\ ~InWorker(f) /\ UNCHANGED bounds
       \/ Ran(f, "timeout") /\ answer[f] = "none" /\ Fault
       \/ /\ exec' = [exec EXCEPT ![f] = [@ EXCEPT !.pc = "manual", !.next = "record", !.err = "other"]]
          /\ Fault
    /\ answer' = [answer EXCEPT ![f] = "none"]
    /\ UNCHANGED <<gate, row, expired, lost, estop, reaping, history>>

\* The frequency read at the start is parsed: from now on it will be restored.
RecordSnapshot(f) ==
    /\ At(f, "record") /\ exec[f].n = Snapshot
    /\ \/ /\ exec[f].err = ""
          /\ exec' = [exec EXCEPT ![f] = [NoExecutor EXCEPT !.pc = "head", !.n = 1, !.exit = "restore"]]
       \/ EndWith(f, "failed")
    /\ UNCHANGED <<executorOnly, gate, row, bounds, reported>>

\* Mutant: a timed-out measurement is retried as often as it takes.
AfterStepRetryAlways(f) ==
    LET e == exec[f]
        go == [e EXCEPT !.pc = "head", !.n = @ + 1, !.err = "", !.late = FALSE]
    IN  \/ /\ e.err = "" /\ ~e.pending
           /\ exec' = [exec EXCEPT ![f] = [go EXCEPT !.pending = TRUE]]
        \/ /\ e.err = "" /\ e.pending
           /\ \/ exec' = [exec EXCEPT ![f] =
                    [go EXCEPT !.pending = FALSE, !.retried = FALSE, !.points = @ + 1]]
              \/ EndWith(f, "failed")
        \/ /\ e.err = "timeout" /\ e.pending /\ ~locked
           /\ exec' = [exec EXCEPT ![f] = go]
        \/ e.err # "" /\ EndWith(f, GuardVerdict(e.err))

\* What follows a step on record: the next one, a retry of a timed-out measurement
\* (once per point, while the worker is running) or the end.
AfterStep(f) ==
    LET e == exec[f]
        go == [e EXCEPT !.pc = "head", !.n = @ + 1, !.err = "", !.late = FALSE]
    IN  \/ /\ e.err = "" /\ ~e.pending
           /\ exec' = [exec EXCEPT ![f] = [go EXCEPT !.pending = TRUE]]
        \/ /\ e.err = "" /\ e.pending
           /\ \/ exec' = [exec EXCEPT ![f] =
                    [go EXCEPT !.pending = FALSE, !.retried = FALSE, !.points = @ + 1]]
              \/ EndWith(f, "failed")
        \/ /\ e.err = "timeout" /\ e.pending /\ ~e.retried /\ ~locked
           /\ exec' = [exec EXCEPT ![f] = [go EXCEPT !.retried = TRUE]]
        \/ e.err # "" /\ EndWith(f, GuardVerdict(e.err))

\* persistStep: when the step of a command the worker took cannot be recorded, a
\* manual check is demanded as well.
RecordStep(f) ==
    /\ At(f, "record") /\ exec[f].n > 0
    /\ \/ AfterStep(f) /\ UNCHANGED bounds
       \/ /\ Fault
          /\ IF exec[f].sent
             THEN exec' = [exec EXCEPT ![f] = [@ EXCEPT !.pc = "manual", !.next = "finish", !.verdict = "failed"]]
             ELSE EndWith(f, "failed")
    /\ UNCHANGED <<executorOnly, gate, row, reported>>

\* Mutant: the row ends whatever it says.
FinishAnyRow(f) ==
    /\ At(f, "finish")
    /\ \/ /\ SetRow(f, exec[f].verdict)
          /\ Unwind(f)
          /\ UNCHANGED bounds
       \/ /\ Fault
          /\ DemandCheck(f, exec[f].exit)
          /\ UNCHANGED status
    /\ UNCHANGED <<executorOnly, gate, stopReq, reported>>

\* finish: only an active row can end.  When it cannot, or the database or the audit
\* fails, the executor demands a manual check.
Finish(f) ==
    /\ At(f, "finish")
    /\ \/ /\ status[f] \in Active
          /\ SetRow(f, exec[f].verdict)
          /\ Unwind(f)
          /\ UNCHANGED bounds
       \/ /\ status[f] \in Active
          /\ Fault
          /\ \E s \in {exec[f].verdict, "failed"} : SetRow(f, s)
          /\ DemandCheck(f, exec[f].exit)
       \/ /\ \/ status[f] \notin Active /\ UNCHANGED bounds
             \/ Fault
          /\ DemandCheck(f, exec[f].exit)
          /\ UNCHANGED status
    /\ UNCHANGED <<executorOnly, gate, stopReq, reported>>

\* requireManualCheck: the worker is locked and belongs to nobody.
Manual(f) ==
    /\ At(f, "manual")
    /\ Gate!RequireManualCheck
    /\ GoTo(f, exec[f].next)
    /\ reported' = {g \in Flow : ~At(g, "gone")} \cup reported
    /\ UNCHANGED <<executorOnly, row, bounds>>

\* Deferred: restore the frequency, without preSendGuard, if the session is still there.
BeginRestore(f) ==
    /\ At(f, "restore")
    /\ IF owner = f
       THEN exec' = [exec EXCEPT ![f] = [@ EXCEPT !.pc = "submit", !.n = Restore]]
       ELSE GoTo(f, "release")
    /\ UNCHANGED <<executorOnly, gate, row, bounds, reported>>

\* Mutant: the error of the restoring command is dropped.
RestoreErrorIgnored(f) ==
    /\ At(f, "record") /\ exec[f].n = Restore
    /\ GoTo(f, "release")
    /\ UNCHANGED <<executorOnly, gate, row, bounds, reported>>

\* RestoreFailed marks every row but an emergency stopped one.
RecordRestore(f) ==
    /\ At(f, "record") /\ exec[f].n = Restore
    /\ \/ exec[f].err = "" /\ GoTo(f, "release") /\ UNCHANGED <<status, bounds>>
       \/ /\ exec[f].err # ""
          /\ \/ /\ IF status[f] = "emergency_stopped" THEN UNCHANGED status ELSE SetRow(f, "failed")
                /\ GoTo(f, "release")
                /\ UNCHANGED bounds
             \/ Fault /\ DemandCheck(f, "release") /\ UNCHANGED status
    /\ UNCHANGED <<executorOnly, gate, stopReq, reported>>

\* Mutant: the release is not deferred.
ReleaseForgotten(f) ==
    /\ At(f, "release")
    /\ exec' = [exec EXCEPT ![f] = NoExecutor]
    /\ UNCHANGED <<executorOnly, gate, row, bounds, reported>>

\* Deferred: give the instrument back, if the flow still has it.
Release(f) ==
    /\ At(f, "release")
    /\ IF owner = f THEN Gate!Release ELSE UNCHANGED gate
    /\ exec' = [exec EXCEPT ![f] = NoExecutor]
    /\ UNCHANGED <<executorOnly, row, bounds, reported>>

Execute(f) ==
    \/ TakeSession(f)
    \/ Start(f)
    \/ Head(f)
    \/ Decide(f)
    \/ SecondGuard(f)
    \/ SubmitCommand(f)
    \/ Collect(f)
    \/ RecordSnapshot(f)
    \/ RecordStep(f)
    \/ Finish(f)
    \/ Manual(f)
    \/ BeginRestore(f)
    \/ RecordRestore(f)
    \/ Release(f)

-----------------------------------------------------------------------------
(* The worker, the reaper and the restart.                                 *)

workerOnly == <<row, expired, lost, exec, estop, reaping, bounds, armed, killed, overrun, reported>>

WorkerBegin ==
    /\ \E f \in Flow, n \in Restore..MaxCommands : Gate!Begin(<<f, n>>)
    /\ UNCHANGED <<workerOnly, answer, restored>>

\* Rate limit, rendering or connection: the command ends before it is sent.
WorkerDrop ==
    /\ \E f \in Flow, n \in Restore..MaxCommands : Gate!Drop(<<f, n>>)
    /\ UNCHANGED <<workerOnly, answer, restored>>

WorkerBeginStop ==
    /\ Gate!BeginStop
    /\ UNCHANGED <<workerOnly, answer, restored>>

\* An exchange with the instrument ends well or not; the result reaches the executor
\* that still waits for it.
WorkerEnd ==
    /\ Gate!End
    /\ \E good \in BOOLEAN :
          /\ answer' = [f \in Flow |->
                IF inflight = <<f, exec[f].n>> /\ At(f, "wait")
                THEN IF good THEN "ok" ELSE "failed"
                ELSE answer[f]]
          /\ restored' = restored \cup {f \in Flow : good /\ inflight = <<f, Restore>>}
    /\ UNCHANGED workerOnly

\* Mutant: the reaper looks for running flows only.
ReapRunningOnly ==
    /\ reaping = {}
    /\ reaping' = {f \in Flow : status[f] = "running" /\ expired[f]}
    /\ reaping' # {}
    /\ status' = [f \in Flow |-> IF f \in reaping' THEN "timed_out" ELSE status[f]]
    /\ UNCHANGED <<gate, answer, stopReq, expired, lost, exec, estop, bounds, history>>

\* ExpiredActiveFlows: one statement for all overdue rows.
Reap ==
    /\ reaping = {}
    /\ reaping' = {f \in Flow : status[f] \in Active /\ expired[f]}
    /\ reaping' # {}
    /\ status' = [f \in Flow |-> IF f \in reaping' THEN "timed_out" ELSE status[f]]
    /\ UNCHANGED <<gate, answer, stopReq, expired, lost, exec, estop, bounds, history>>

ReapRelease(f) ==
    /\ f \in reaping
    /\ reaping' = reaping \ {f}
    /\ IF owner = f THEN Gate!Release ELSE UNCHANGED gate
    /\ UNCHANGED <<answer, row, expired, lost, exec, estop, bounds, history>>

\* The process ends: executors, handlers, reaper and worker start from nothing, and
\* InterruptActiveFlows runs before requests are served.  Its failure is only logged.
Restart ==
    /\ restarts < MaxRestarts
    /\ restarts' = restarts + 1
    /\ UNCHANGED stops
    /\ owner' = NoOwner /\ lapsed' = FALSE /\ locked' = FALSE
    /\ stopQueued' = FALSE /\ live' = {} /\ inflight' = Idle
    /\ exec' = [f \in Flow |-> NoExecutor]
    /\ answer' = [f \in Flow |-> "none"]
    /\ estop' = [pc |-> "idle", owner |-> NoOwner]
    /\ reaping' = {}
    /\ \/ /\ status' = [f \in Flow |-> IF status[f] \in Active THEN "interrupted" ELSE status[f]]
          /\ UNCHANGED faults
       \/ /\ faults < MaxFaults /\ faults' = faults + 1
          /\ UNCHANGED status
    /\ UNCHANGED <<stopReq, expired, lost, history>>

-----------------------------------------------------------------------------

Member ==
    \/ \E f \in Flow : Create(f) \/ ApproveFlow(f) \/ StopFlow(f)
    \/ \E f \in Flow, g \in Grounds : Lose(f, g)
    \/ EStopOwner
    \/ ConfirmManualCheck
    \/ NoticeExpiry

Handler == EStopWorker \/ EStopRow

Worker == WorkerBegin \/ WorkerDrop \/ WorkerBeginStop \/ WorkerEnd

Reaper == Reap \/ \E f \in Flow : ReapRelease(f)

Next ==
    \/ Member
    \/ Handler
    \/ Worker
    \/ Reaper
    \/ Restart
    \/ \E f \in Flow : Execute(f) \/ DeadlinePasses(f)

Spec == Init /\ [][Next]_vars

\* Goroutines run, time passes, the reaper's ticker fires and the worker answers what
\* it accepted (StampedIsAnswered of InstrumentWorker).
Fairness ==
    /\ \A f \in Flow : WF_vars(Execute(f)) /\ WF_vars(DeadlinePasses(f))
    /\ WF_vars(Handler)
    /\ WF_vars(Worker)
    /\ WF_vars(Reaper)

FairSpec == Spec /\ Fairness

-----------------------------------------------------------------------------
(* Properties.                                                             *)

\* The instrument belongs to a flow only while that flow's executor is past taking
\* it and has not returned, whichever way it ends (deferred ReleaseSession).
OwnerHasExecutor ==
    \A f \in Flow : owner = f => exec[f].pc \notin {"gone", "launched"}

\* A flow whose session an emergency stop took never gets another command accepted,
\* not even after the manual check, although its executor may live on for long.
KilledStaysDead ==
    \A f \in killed : owner # f /\ \A c \in live : c[1][1] # f

\* After a flow is stopped, overdue or has lost its lease or permission, at most the
\* one command that had passed preSendGuard is still handed in (not counting the
\* restoring command).
StopIsHonoured == \A f \in Flow : overrun[f] <= 1

\* However long the model takes to answer: what the flow lost before the answer came
\* keeps the command the model asked for from being handed in.
SlowDecisionIsHarmless ==
    \A f \in Flow : exec[f].pc \in {"submit", "wait"} /\ exec[f].n > 0 => ~exec[f].late

\* A flow that is over and reads as completed or stopped has restored the frequency,
\* or a manual check was demanded meanwhile, or its time ran out before it could.
RestoreAccounted ==
    \A f \in Flow :
        status[f] \in {"completed", "stopped"} /\ At(f, "gone") =>
            f \in restored \/ f \in reported \/ expired[f]

\* The command limit of 3 per point never cuts a sweep short: a retried measurement
\* of every point still fits (FlowLimits in Create against canRetryMeasure).
CommandLimitSuffices ==
    \A f \in Flow :
        At(f, "decide") /\ exec[f].points < Points => exec[f].n <= MaxCommands

\* What a terminal row says stays, but for a failure to restore or to audit; what an
\* emergency stop or a restart ended keeps saying so.
TerminalIsFinal ==
    [][\A f \in Flow :
        status[f] \in Terminal =>
            \/ status'[f] = status[f]
            \/ status'[f] = "failed" /\ status[f] \notin {"emergency_stopped", "interrupted"}]_vars

\* Every approved flow ends, even one whose executor gave up without a word or was
\* lost in a restart that could not mark the row.
FlowEnds == \A f \in Flow : status[f] \in Active ~> status[f] \in Terminal

\* Every session ends.
SessionReturned == \A f \in Flow : owner = f ~> owner # f

\* docs/instrument-security.md: after an emergency stop the instrument is
\* locked_until_manual_check and must be confirmed by a person.
EmergencyLockSurvives == armed => locked

\* docs/instrument-security.md: a lease must be held before a yellow command is
\* executed; the command that restores the frequency is yellow.
RestoreHoldsLease ==
    [][\A f \in Flow :
        At(f, "submit") /\ exec[f].n = Restore /\ exec'[f].pc = "wait" => "lease" \notin lost[f]]_vars
=============================================================================
