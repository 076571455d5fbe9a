------------------------ MODULE InstrumentFlowProofs ------------------------
(***************************************************************************)
(* What holds of the flows for every set of flows, every length of the     *)
(* sweep and every number of faults and emergency stops: the types, who    *)
(* may have the instrument, what an executor may still do after it lost    *)
(* its authority, and that the frequency is accounted for.                 *)
(***************************************************************************)
EXTENDS InstrumentFlow, TLAPS

\* The executor is at, or will come back to, a command of its own.
Commanding(e) ==
    \/ e.pc \in {"guard", "submit", "wait", "record"}
    \/ e.pc = "manual" /\ e.next = "record"

\* What an executor's place says of its other variables. A command is numbered within
\* the limit, and a numbered one is preceded by at most three for each finished point;
\* the restoration is what finish returns to as soon as the frequency is known.
Placed(e) ==
    /\ \/ e.pc \in {"gone", "launched", "start"}
       \/ e.pc = "manual" /\ e.next = "gone"
       => e.n = Snapshot
    /\ e.pc \in {"head", "decide"} => e.n >= 1
    /\ e.pc = "manual" => e.next \in {"record", "finish", "gone", "release", "restore"}
    /\ e.pc = "manual" /\ e.next = "finish" => e.n >= 1
    /\ Commanding(e) => e.n <= MaxCommands
    /\ Commanding(e) /\ e.n >= 1 => e.points < Points
    /\ Commanding(e) /\ e.n = Snapshot => e.exit = "release"
    /\ e.exit \in {"gone", "release", "restore"}
    /\ e.n >= 1 => e.exit = "restore"
    /\ e.verdict # "failed" => e.pc = "finish" /\ e.exit = "restore"
    /\ e.n = Restore => \/ e.pc \in {"submit", "wait", "record", "release"}
                        \/ e.pc = "manual" /\ e.next = "record"

\* Commands handed in so far: the step, the measurement and its retry of every point.
Counted(e) ==
    e.n >= 1 =>
        /\ e.retried => e.pending
        /\ e.n <= 1 + 3 * e.points + (IF e.pending THEN 1 ELSE 0) + (IF e.retried THEN 1 ELSE 0)

PlaceInv == \A f \in Flow : Placed(exec[f]) /\ Counted(exec[f])

\* A row that has not been approved has no executor, nor has an interrupted one.
RowInv ==
    \A f \in Flow :
        /\ status[f] \in {"none", "awaiting_approval"} =>
               At(f, "gone") /\ f \notin killed /\ overrun[f] = 0
        /\ status[f] = "interrupted" => At(f, "gone")

OwnerInv ==
    \A f \in Flow :
        owner = f => /\ exec[f].pc \notin {"gone", "launched"}
                     /\ At(f, "finish") => exec[f].exit # "gone"

KilledInv ==
    \A f \in killed : /\ owner # f /\ \A c \in live : c[1][1] # f
                      /\ ~At(f, "launched")

LateInv ==
    \A f \in Flow :
        /\ At(f, "guard") /\ exec[f].late => AuthorityGone(f)
        /\ exec[f].pc \in {"submit", "wait"} /\ exec[f].n >= 1 => ~exec[f].late

StopInv ==
    \A f \in Flow :
        \/ overrun[f] = 0
        \/ /\ overrun[f] = 1 /\ AuthorityGone(f)
           /\ exec[f].pc \notin {"launched", "start"}
           /\ At(f, "submit") => exec[f].n < 1

\* Why a flow may not have the instrument although it is past taking it.
Excused(f) == f \in reported \/ expired[f]

Unwinding(e) == e.pc \in {"finish", "manual"} /\ (IF e.pc = "finish" THEN e.exit ELSE e.next) = "gone"

HeldInv ==
    /\ lapsed => \A f \in Flow : owner = f => expired[f]
    /\ \A f \in reaping : expired[f]
    /\ \A f \in Flow :
           exec[f].pc \in {"gone", "launched"} \/ Unwinding(exec[f]) \/ owner = f \/ Excused(f)

RestoreInv ==
    \A f \in Flow :
        LET e == exec[f] IN
        /\ e.n = Restore /\ At(f, "wait") /\ answer[f] = "ok" => f \in restored
        /\ e.n = Restore /\ Commanding(e) /\ e.pc \notin {"submit", "wait"} /\ e.err = "" => f \in restored
        /\ status[f] \in {"completed", "stopped"} =>
              \/ e.pc = "restore"
              \/ e.n = Restore /\ Commanding(e)
              \/ e.pc = "manual" /\ e.next \in {"restore", "release"}
              \/ e.pc \in {"release", "gone"} /\ (f \in restored \/ Excused(f))
-----------------------------------------------------------------------------
(* The numbers and the executor's moves.                                   *)

\* The limit of commands and the two special step numbers, as integers.
LEMMA Numbers ==
    /\ MaxCommands \in Nat /\ MaxCommands = 3 * Points /\ Points \in Nat
    /\ Restore = -1 /\ Snapshot = 0
BY FlowConstants DEF MaxCommands, Restore, Snapshot

\* The executor a flow has before and after its run is one.
LEMMA NoExecutorType == NoExecutor \in Executor
BY Numbers DEF NoExecutor, Executor, Pc, Verdict, RunError

\* Every other executor stays where it is.
Alone(f) == \A g \in Flow \ {f} : exec'[g] = exec[g]

\* The executor moves and keeps the variables of its run.
Keeps(f) ==
    /\ exec'[f].n = exec[f].n /\ exec'[f].next = exec[f].next
    /\ exec'[f].exit = exec[f].exit /\ exec'[f].verdict = exec[f].verdict
    /\ exec'[f].pending = exec[f].pending /\ exec'[f].retried = exec[f].retried
    /\ exec'[f].points = exec[f].points /\ exec'[f].late = exec[f].late

\* The executor has forgotten the run.
Blank(e) ==
    /\ e.n = Snapshot /\ e.err = "" /\ ~e.pending /\ ~e.retried /\ e.points = 0
    /\ ~e.late /\ ~e.sent

\* GoTo moves one executor and changes nothing else of it.
LEMMA GoToMoves ==
    ASSUME exec \in [Flow -> Executor], NEW f \in Flow, NEW place \in Pc, GoTo(f, place)
    PROVE  /\ exec' \in [Flow -> Executor] /\ Alone(f) /\ Keeps(f)
           /\ exec'[f].pc = place /\ exec'[f].err = exec[f].err
<1>0. exec[f] \in Executor
    OBVIOUS
<1>1. [exec[f] EXCEPT !.pc = place] \in Executor
    BY <1>0 DEF Executor
<1>2. exec' \in [Flow -> Executor] /\ Alone(f) /\ exec'[f] = [exec[f] EXCEPT !.pc = place]
    BY <1>0, <1>1 DEF GoTo, Alone
<1> QED
    BY <1>0, <1>2 DEF Executor, Keeps

\* A command that returned is about to be recorded.
LEMMA RanMoves ==
    ASSUME exec \in [Flow -> Executor], NEW f \in Flow, NEW error \in RunError, Ran(f, error)
    PROVE  /\ exec' \in [Flow -> Executor] /\ Alone(f) /\ Keeps(f)
           /\ exec'[f].pc = "record" /\ exec'[f].err = error
<1>0. exec[f] \in Executor
    OBVIOUS
<1>1. "record" \in Pc
    BY DEF Pc
<1>2. [exec[f] EXCEPT !.pc = "record", !.err = error] \in Executor
    BY <1>0, <1>1 DEF Executor
<1>3. /\ exec' \in [Flow -> Executor] /\ Alone(f)
      /\ exec'[f] = [exec[f] EXCEPT !.pc = "record", !.err = error]
    BY <1>2 DEF Ran, Alone
<1> QED
    BY <1>0, <1>3 DEF Executor, Keeps

\* A run that ends keeps only where finish returns to.
LEMMA EndWithMoves ==
    ASSUME exec \in [Flow -> Executor], NEW f \in Flow, NEW v \in Verdict, EndWith(f, v)
    PROVE  /\ exec' \in [Flow -> Executor] /\ Alone(f) /\ Blank(exec'[f])
           /\ exec'[f].pc = "finish" /\ exec'[f].verdict = v
           /\ exec'[f].exit = exec[f].exit /\ exec'[f].next = "gone"
<1>0. "finish" \in Pc /\ exec[f].exit \in Pc
    BY DEF Pc, Executor
<1>1. [NoExecutor EXCEPT !.pc = "finish", !.verdict = v, !.exit = exec[f].exit] \in Executor
    BY <1>0, NoExecutorType DEF Executor
<1>2. exec'[f] = [NoExecutor EXCEPT !.pc = "finish", !.verdict = v, !.exit = exec[f].exit]
    BY DEF EndWith
<1> QED
    BY <1>1, <1>2 DEF EndWith, Alone, NoExecutor, Blank

\* A demand for a manual check keeps only where the executor goes on.
LEMMA DemandCheckMoves ==
    ASSUME exec \in [Flow -> Executor], NEW f \in Flow, NEW place \in Pc, DemandCheck(f, place)
    PROVE  /\ exec' \in [Flow -> Executor] /\ Alone(f) /\ Blank(exec'[f])
           /\ exec'[f].pc = "manual" /\ exec'[f].verdict = "failed"
           /\ exec'[f].exit = "gone" /\ exec'[f].next = place
<1>0. "manual" \in Pc
    BY DEF Pc
<1>1. [NoExecutor EXCEPT !.pc = "manual", !.next = place] \in Executor
    BY <1>0, NoExecutorType DEF Executor
<1>2. exec'[f] = [NoExecutor EXCEPT !.pc = "manual", !.next = place]
    BY DEF DemandCheck
<1> QED
    BY <1>1, <1>2 DEF DemandCheck, Alone, NoExecutor, Blank

\* The deferred calls remember nothing of the run.
LEMMA UnwindMoves ==
    ASSUME exec \in [Flow -> Executor], NEW f \in Flow, Unwind(f)
    PROVE  /\ exec' \in [Flow -> Executor] /\ Alone(f) /\ Blank(exec'[f])
           /\ exec'[f].pc = exec[f].exit /\ exec'[f].verdict = "failed"
           /\ exec'[f].exit = "gone" /\ exec'[f].next = "gone"
<1>1. [NoExecutor EXCEPT !.pc = exec[f].exit] \in Executor
    BY NoExecutorType DEF Executor
<1>2. exec'[f] = [NoExecutor EXCEPT !.pc = exec[f].exit]
    BY DEF Unwind
<1> QED
    BY <1>1, <1>2 DEF Unwind, Alone, NoExecutor, Blank

\* The verdict on a run that was not fit to go on.
LEMMA VerdictType ==
    ASSUME NEW err
    PROVE  /\ GuardVerdict(err) \in Verdict
           /\ \A f \in Flow : GuardError(f) \in RunError
BY DEF GuardVerdict, Verdict, GuardError, RunError


\* The session was refused, and the run ends before it deferred anything.
LEMMA RefusedMoves ==
    ASSUME exec \in [Flow -> Executor], NEW f \in Flow,
           exec' = [exec EXCEPT ![f] = [@ EXCEPT !.pc = "finish", !.verdict = "failed", !.exit = "gone"]]
    PROVE  /\ exec' \in [Flow -> Executor] /\ Alone(f)
           /\ exec'[f].pc = "finish" /\ exec'[f].verdict = "failed" /\ exec'[f].exit = "gone"
           /\ exec'[f].n = exec[f].n
<1>0. exec[f] \in Executor
    OBVIOUS
<1>3. "finish" \in Pc /\ "gone" \in Pc /\ "failed" \in Verdict
    BY DEF Pc, Verdict
<1>1. [exec[f] EXCEPT !.pc = "finish", !.verdict = "failed", !.exit = "gone"] \in Executor
    BY <1>0, <1>3 DEF Executor
<1>2. exec' \in [Flow -> Executor] /\ Alone(f) /\ exec'[f] = [exec[f] EXCEPT !.pc = "finish", !.verdict = "failed", !.exit = "gone"]
    BY <1>1 DEF Alone
<1> QED
    BY <1>0, <1>2 DEF Executor

\* The row runs and the release is deferred.
LEMMA StartedMoves ==
    ASSUME exec \in [Flow -> Executor], NEW f \in Flow,
           exec' = [exec EXCEPT ![f] = [@ EXCEPT !.pc = "submit", !.exit = "release"]]
    PROVE  /\ exec' \in [Flow -> Executor] /\ Alone(f)
           /\ exec'[f].pc = "submit" /\ exec'[f].exit = "release"
           /\ exec'[f].n = exec[f].n /\ exec'[f].verdict = exec[f].verdict
<1>0. exec[f] \in Executor
    OBVIOUS
<1>3. "submit" \in Pc /\ "release" \in Pc
    BY DEF Pc
<1>1. [exec[f] EXCEPT !.pc = "submit", !.exit = "release"] \in Executor
    BY <1>0, <1>3 DEF Executor
<1>2. exec' \in [Flow -> Executor] /\ Alone(f) /\ exec'[f] = [exec[f] EXCEPT !.pc = "submit", !.exit = "release"]
    BY <1>1 DEF Alone
<1> QED
    BY <1>0, <1>2 DEF Executor

\* The model has asked for a command.
LEMMA DecidedMoves ==
    ASSUME exec \in [Flow -> Executor], NEW f \in Flow, NEW gone \in BOOLEAN,
           exec' = [exec EXCEPT ![f] = [@ EXCEPT !.pc = "guard", !.late = gone, !.sent = FALSE]]
    PROVE  /\ exec' \in [Flow -> Executor] /\ Alone(f)
           /\ exec'[f].pc = "guard" /\ exec'[f].late = gone
           /\ exec'[f].n = exec[f].n /\ exec'[f].exit = exec[f].exit
           /\ exec'[f].verdict = exec[f].verdict /\ exec'[f].points = exec[f].points
           /\ exec'[f].pending = exec[f].pending /\ exec'[f].retried = exec[f].retried
<1>0. exec[f] \in Executor
    OBVIOUS
<1>3. "guard" \in Pc
    BY DEF Pc
<1>1. [exec[f] EXCEPT !.pc = "guard", !.late = gone, !.sent = FALSE] \in Executor
    BY <1>0, <1>3 DEF Executor
<1>2. exec' \in [Flow -> Executor] /\ Alone(f) /\ exec'[f] = [exec[f] EXCEPT !.pc = "guard", !.late = gone, !.sent = FALSE]
    BY <1>1 DEF Alone
<1> QED
    BY <1>0, <1>2 DEF Executor

\* The worker has taken the command.
LEMMA SentMoves ==
    ASSUME exec \in [Flow -> Executor], NEW f \in Flow,
           exec' = [exec EXCEPT ![f] = [@ EXCEPT !.pc = "wait", !.sent = TRUE]]
    PROVE  /\ exec' \in [Flow -> Executor] /\ Alone(f) /\ Keeps(f)
           /\ exec'[f].pc = "wait"
<1>0. exec[f] \in Executor
    OBVIOUS
<1>3. "wait" \in Pc
    BY DEF Pc
<1>1. [exec[f] EXCEPT !.pc = "wait", !.sent = TRUE] \in Executor
    BY <1>0, <1>3 DEF Executor
<1>2. exec' \in [Flow -> Executor] /\ Alone(f) /\ exec'[f] = [exec[f] EXCEPT !.pc = "wait", !.sent = TRUE]
    BY <1>1 DEF Alone
<1> QED
    BY <1>0, <1>2 DEF Executor, Keeps

\* The completion of a command could not be logged.
LEMMA UnloggedMoves ==
    ASSUME exec \in [Flow -> Executor], NEW f \in Flow,
           exec' = [exec EXCEPT ![f] = [@ EXCEPT !.pc = "manual", !.next = "record", !.err = "other"]]
    PROVE  /\ exec' \in [Flow -> Executor] /\ Alone(f)
           /\ exec'[f].pc = "manual" /\ exec'[f].next = "record" /\ exec'[f].err = "other"
           /\ exec'[f].n = exec[f].n /\ exec'[f].exit = exec[f].exit
           /\ exec'[f].verdict = exec[f].verdict /\ exec'[f].points = exec[f].points
           /\ exec'[f].pending = exec[f].pending /\ exec'[f].retried = exec[f].retried
           /\ exec'[f].late = exec[f].late
<1>0. exec[f] \in Executor
    OBVIOUS
<1>3. "manual" \in Pc /\ "record" \in Pc /\ "other" \in RunError
    BY DEF Pc, RunError
<1>1. [exec[f] EXCEPT !.pc = "manual", !.next = "record", !.err = "other"] \in Executor
    BY <1>0, <1>3 DEF Executor
<1>2. exec' \in [Flow -> Executor] /\ Alone(f) /\ exec'[f] = [exec[f] EXCEPT !.pc = "manual", !.next = "record", !.err = "other"]
    BY <1>1 DEF Alone
<1> QED
    BY <1>0, <1>2 DEF Executor

\* A step could not be recorded.
LEMMA UnrecordedMoves ==
    ASSUME exec \in [Flow -> Executor], NEW f \in Flow,
           exec' = [exec EXCEPT ![f] = [@ EXCEPT !.pc = "manual", !.next = "finish", !.verdict = "failed"]]
    PROVE  /\ exec' \in [Flow -> Executor] /\ Alone(f)
           /\ exec'[f].pc = "manual" /\ exec'[f].next = "finish"
           /\ exec'[f].verdict = "failed"
           /\ exec'[f].n = exec[f].n /\ exec'[f].exit = exec[f].exit
           /\ exec'[f].points = exec[f].points
           /\ exec'[f].pending = exec[f].pending /\ exec'[f].retried = exec[f].retried
<1>0. exec[f] \in Executor
    OBVIOUS
<1>3. "manual" \in Pc /\ "finish" \in Pc /\ "failed" \in Verdict
    BY DEF Pc, Verdict
<1>1. [exec[f] EXCEPT !.pc = "manual", !.next = "finish", !.verdict = "failed"] \in Executor
    BY <1>0, <1>3 DEF Executor
<1>2. exec' \in [Flow -> Executor] /\ Alone(f) /\ exec'[f] = [exec[f] EXCEPT !.pc = "manual", !.next = "finish", !.verdict = "failed"]
    BY <1>1 DEF Alone
<1> QED
    BY <1>0, <1>2 DEF Executor

\* The restoring command is next.
LEMMA RestoringMoves ==
    ASSUME exec \in [Flow -> Executor], NEW f \in Flow,
           exec' = [exec EXCEPT ![f] = [@ EXCEPT !.pc = "submit", !.n = Restore]]
    PROVE  /\ exec' \in [Flow -> Executor] /\ Alone(f)
           /\ exec'[f].pc = "submit" /\ exec'[f].n = Restore
           /\ exec'[f].exit = exec[f].exit /\ exec'[f].verdict = exec[f].verdict
<1>0. exec[f] \in Executor
    OBVIOUS
<1>3. "submit" \in Pc /\ Restore \in Restore..(MaxCommands + 1)
    BY Numbers DEF Pc
<1>1. [exec[f] EXCEPT !.pc = "submit", !.n = Restore] \in Executor
    BY <1>0, <1>3 DEF Executor
<1>2. exec' \in [Flow -> Executor] /\ Alone(f) /\ exec'[f] = [exec[f] EXCEPT !.pc = "submit", !.n = Restore]
    BY <1>1 DEF Alone
<1> QED
    BY <1>0, <1>2 DEF Executor


\* The snapshot is taken, and the run begins.
LEMMA SnapshotMoves ==
    ASSUME exec \in [Flow -> Executor], NEW f \in Flow,
           exec' = [exec EXCEPT ![f] = [NoExecutor EXCEPT !.pc = "head", !.n = 1, !.exit = "restore"]]
    PROVE  /\ exec' \in [Flow -> Executor] /\ Alone(f)
           /\ exec'[f].pc = "head" /\ exec'[f].n = 1 /\ exec'[f].exit = "restore"
           /\ exec'[f].next = "gone" /\ exec'[f].verdict = "failed" /\ exec'[f].points = 0
           /\ ~exec'[f].pending /\ ~exec'[f].retried
<1>1. "head" \in Pc /\ "restore" \in Pc /\ 1 \in Restore..(MaxCommands + 1)
    BY Numbers DEF Pc
<1>2. [NoExecutor EXCEPT !.pc = "head", !.n = 1, !.exit = "restore"] \in Executor
    BY <1>1, NoExecutorType DEF Executor
<1>3. /\ exec' \in [Flow -> Executor] /\ Alone(f)
      /\ exec'[f] = [NoExecutor EXCEPT !.pc = "head", !.n = 1, !.exit = "restore"]
    BY <1>2 DEF Alone
<1> QED
    BY <1>3 DEF NoExecutor

\* The executor has returned.
LEMMA GoneMoves ==
    ASSUME exec \in [Flow -> Executor], NEW f \in Flow, exec' = [exec EXCEPT ![f] = NoExecutor]
    PROVE  /\ exec' \in [Flow -> Executor] /\ Alone(f) /\ exec'[f] = NoExecutor
BY NoExecutorType DEF Alone

\* What follows a step on record, in three ways, unless the flow ends.
LEMMA AfterStepMoves ==
    ASSUME exec \in [Flow -> Executor], NEW f \in Flow, AfterStep(f),
           exec[f].n <= MaxCommands, exec[f].n >= 1, exec[f].points < Points
    PROVE  \/ EndWith(f, "failed")
           \/ EndWith(f, GuardVerdict(exec[f].err))
           \/ /\ exec' \in [Flow -> Executor] /\ Alone(f)
              /\ exec'[f].pc = "head" /\ exec'[f].n = exec[f].n + 1 /\ ~exec'[f].late
              /\ exec'[f].exit = exec[f].exit /\ exec'[f].verdict = exec[f].verdict
              /\ exec'[f].next = exec[f].next
              /\ \/ /\ ~exec[f].pending /\ exec'[f].pending
                    /\ exec'[f].retried = exec[f].retried /\ exec'[f].points = exec[f].points
                 \/ /\ exec[f].pending /\ ~exec'[f].pending /\ ~exec'[f].retried
                    /\ exec'[f].points = exec[f].points + 1
                 \/ /\ exec[f].pending /\ exec'[f].pending /\ ~exec[f].retried /\ exec'[f].retried
                    /\ exec'[f].points = exec[f].points
<1> DEFINE e == exec[f]
           go == [e EXCEPT !.pc = "head", !.n = @ + 1, !.err = "", !.late = FALSE]
<1>0. e \in Executor
    OBVIOUS
<1>1. e.n \in Int /\ e.n + 1 \in Restore..(MaxCommands + 1) /\ e.points \in 0..Points /\ e.points + 1 \in 0..Points
    BY <1>0, Numbers DEF Executor
<1>2. "head" \in Pc /\ "" \in RunError
    BY DEF Pc, RunError
<1>3. go \in Executor
    BY <1>0, <1>1, <1>2 DEF Executor
<1>4. [go EXCEPT !.pending = TRUE] \in Executor
    BY <1>3 DEF Executor
<1>5. [go EXCEPT !.retried = TRUE] \in Executor
    BY <1>3 DEF Executor
<1>6. go.points = e.points
    BY <1>0 DEF Executor
<1>7. [go EXCEPT !.pending = FALSE, !.retried = FALSE, !.points = @ + 1] \in Executor
    BY <1>3, <1>6, <1>1 DEF Executor
<1>8. \/ e.err = "" /\ ~e.pending /\ exec' = [exec EXCEPT ![f] = [go EXCEPT !.pending = TRUE]]
      \/ e.err = "" /\ e.pending
         /\ \/ exec' = [exec EXCEPT ![f] = [go EXCEPT !.pending = FALSE, !.retried = FALSE, !.points = @ + 1]]
            \/ EndWith(f, "failed")
      \/ e.pending /\ ~e.retried /\ exec' = [exec EXCEPT ![f] = [go EXCEPT !.retried = TRUE]]
      \/ EndWith(f, GuardVerdict(e.err))
    BY DEF AfterStep
<1>9. CASE ~e.pending /\ exec' = [exec EXCEPT ![f] = [go EXCEPT !.pending = TRUE]]
    <2>1. exec' \in [Flow -> Executor] /\ Alone(f) /\ exec'[f] = [go EXCEPT !.pending = TRUE]
        BY <1>9, <1>4 DEF Alone
    <2> QED
        BY <1>0, <1>9, <2>1 DEF Executor
<1>10. CASE e.pending /\ exec' = [exec EXCEPT ![f] = [go EXCEPT !.pending = FALSE, !.retried = FALSE, !.points = @ + 1]]
    <2>1. /\ exec' \in [Flow -> Executor] /\ Alone(f)
          /\ exec'[f] = [go EXCEPT !.pending = FALSE, !.retried = FALSE, !.points = @ + 1]
        BY <1>10, <1>7 DEF Alone
    <2> QED
        BY <1>0, <1>10, <2>1 DEF Executor
<1>11. CASE e.pending /\ ~e.retried /\ exec' = [exec EXCEPT ![f] = [go EXCEPT !.retried = TRUE]]
    <2>1. exec' \in [Flow -> Executor] /\ Alone(f) /\ exec'[f] = [go EXCEPT !.retried = TRUE]
        BY <1>11, <1>5 DEF Alone
    <2> QED
        BY <1>0, <1>11, <2>1 DEF Executor
<1> QED
    BY <1>8, <1>9, <1>10, <1>11
-----------------------------------------------------------------------------
(* Types and places.                                                       *)

\* What happens to a flow behind its executor's back.
Outside ==
    \/ \E f \in Flow : Create(f) \/ StopFlow(f) \/ DeadlinePasses(f) \/ ReapRelease(f)
    \/ \E f \in Flow, g \in Grounds : Lose(f, g)
    \/ EStopOwner \/ ConfirmManualCheck \/ NoticeExpiry \/ EStopWorker \/ EStopRow
    \/ Worker \/ Reap \/ UNCHANGED vars

\* A step is one of an executor, launches one, ends all of them, or leaves them alone.
LEMMA Steps ==
    ASSUME [Next]_vars
    PROVE  \/ \E f \in Flow : Execute(f) \/ ApproveFlow(f)
           \/ Restart
           \/ Outside
BY DEF Next, Member, Handler, Reaper, Outside

\* Nothing outside moves an executor.
LEMMA OutsideRests == ASSUME Outside PROVE exec' = exec
BY DEF Outside, Create, StopFlow, DeadlinePasses, ReapRelease, Lose, EStopOwner,
       ConfirmManualCheck, NoticeExpiry, EStopWorker, EStopRow, Worker, WorkerBegin,
       WorkerDrop, WorkerBeginStop, WorkerEnd, workerOnly, Reap, vars

\* An executor about to hand in a command names one of the worker's commands.
LEMMA CommandType ==
    ASSUME TypeOK, PlaceInv, NEW f \in Flow, Commanding(exec[f])
    PROVE  <<f, exec[f].n>> \in Flow \X (Restore..MaxCommands)
<1>1. exec[f].n \in Restore..(MaxCommands + 1) /\ exec[f].n <= MaxCommands
    BY DEF TypeOK, Executor, PlaceInv, Placed
<1> QED
    BY <1>1, Numbers

\* The worker keeps its types whoever calls it.
LEMMA GateType ==
    ASSUME TypeOK, PlaceInv, [Next]_vars
    PROVE  Gate!GateTypeOK'
<1> USE DEF Gate!GateTypeOK
<1>0. Gate!GateTypeOK
    BY DEF TypeOK
<1>1. ASSUME NEW f \in Flow, Execute(f)
      PROVE  Gate!GateTypeOK'
    <2>1. CASE TakeSession(f)
        BY <1>0, <2>1 DEF TakeSession, Gate!Acquire, Gate!Boundary, gate
    <2>2. CASE SubmitCommand(f)
        <3>1. <<f, exec[f].n>> \in Flow \X (Restore..MaxCommands)
            BY <2>2, CommandType DEF SubmitCommand, At, Commanding
        <3>2. CASE Gate!HandIn(<<f, exec[f].n>>)
            BY <1>0, <3>1, <3>2 DEF Gate!HandIn
        <3>3. CASE Gate!Expire({})
            BY <1>0, <3>3 DEF Gate!Expire
        <3>4. CASE UNCHANGED gate
            BY <1>0, <3>4 DEF gate
        <3> QED
            BY <2>2, <3>2, <3>3, <3>4 DEF SubmitCommand
    <2>3. CASE Manual(f)
        BY <1>0, <2>3 DEF Manual, Gate!RequireManualCheck, Gate!Boundary
    <2>4. CASE Release(f)
        BY <1>0, <2>4 DEF Release, Gate!Release, Gate!Boundary, gate
    <2>5. CASE \/ Start(f) \/ Head(f) \/ Decide(f) \/ SecondGuard(f) \/ Collect(f)
               \/ RecordSnapshot(f) \/ RecordStep(f) \/ Finish(f) \/ BeginRestore(f)
               \/ RecordRestore(f)
        BY <1>0, <2>5 DEF Start, Head, Decide, SecondGuard, Collect, RecordSnapshot,
           RecordStep, Finish, BeginRestore, RecordRestore, gate
    <2> QED
        BY <1>1, <2>1, <2>2, <2>3, <2>4, <2>5 DEF Execute
<1>2. ASSUME NEW f \in Flow, DeadlinePasses(f) \/ ReapRelease(f)
      PROVE  Gate!GateTypeOK'
    BY <1>0, <1>2 DEF DeadlinePasses, ReapRelease, Gate!Lapse, Gate!Release, Gate!Boundary, gate
<1>3. CASE WorkerBegin \/ WorkerDrop \/ WorkerBeginStop \/ WorkerEnd
    BY <1>0, <1>3 DEF WorkerBegin, WorkerDrop, WorkerBeginStop, WorkerEnd, Gate!Begin,
       Gate!Drop, Gate!BeginStop, Gate!End
<1>4. CASE EStopWorker \/ ConfirmManualCheck \/ NoticeExpiry
    BY <1>0, <1>4 DEF EStopWorker, ConfirmManualCheck, NoticeExpiry, Gate!EmergencyStop,
       Gate!ConfirmManualCheck, Gate!Expire, Gate!Boundary, gate
<1>5. CASE Restart
    BY <1>0, <1>5 DEF Restart
<1>6. CASE \/ \E f \in Flow : Create(f) \/ ApproveFlow(f) \/ StopFlow(f)
           \/ \E f \in Flow, g \in Grounds : Lose(f, g)
           \/ EStopOwner \/ EStopRow \/ Reap \/ UNCHANGED vars
    BY <1>0, <1>6 DEF Create, ApproveFlow, StopFlow, Lose, EStopOwner, EStopRow, Reap, vars, gate
<1> QED
    BY <1>1, <1>2, <1>3, <1>4, <1>5, <1>6 DEF Next, Member, Handler, Worker, Reaper


-----------------------------------------------------------------------------
(* Every step of an executor leaves it in a place that fits.               *)

\* A command that returned was one of the executor's, whatever it was.
LEMMA RanFits ==
    ASSUME PlaceInv, NEW f \in Flow, exec \in [Flow -> Executor], Commanding(exec[f]), Keeps(f),
           exec'[f].pc \in {"submit", "wait", "record"}, exec'[f] \in Executor
    PROVE  Placed(exec'[f]) /\ Counted(exec'[f])
<1>1. Placed(exec[f]) /\ Counted(exec[f])
    BY DEF PlaceInv
<1>2. Placed(exec'[f])
    BY <1>1, Numbers DEF Placed, Commanding, Keeps
<1>3. Counted(exec'[f])
    BY <1>1 DEF Counted, Keeps
<1> QED
    BY <1>2, <1>3

\* A run that ended comes back to finish with nothing left of it.
LEMMA EndFits ==
    ASSUME NEW e \in Executor, Blank(e), e.pc = "finish", e.exit \in {"gone", "release", "restore"},
           e.verdict # "failed" => e.exit = "restore"
    PROVE  Placed(e) /\ Counted(e)
<1>0. e.n = Snapshot
    BY DEF Blank
<1>1. e.n = 0 /\ e.n # Restore /\ ~(e.n >= 1) /\ e.n <= MaxCommands
    BY <1>0, Numbers
<1>2. Counted(e)
    BY <1>1 DEF Counted
<1>3. Placed(e)
    BY <1>1, Numbers DEF Placed, Commanding
<1> QED
    BY <1>2, <1>3

\* So does a demand for a manual check, and what follows it.
LEMMA BlankFits ==
    ASSUME NEW e \in Executor, Blank(e), e.exit = "gone", e.verdict = "failed",
           \/ e.pc \in {"gone", "release", "restore"}
           \/ e.pc = "manual" /\ e.next \in {"gone", "release", "restore"}
    PROVE  Placed(e) /\ Counted(e)
<1>0. e.n = Snapshot
    BY DEF Blank
<1>1. e.n = 0 /\ e.n # Restore /\ ~(e.n >= 1) /\ e.n <= MaxCommands
    BY <1>0, Numbers
<1>2. Counted(e)
    BY <1>1 DEF Counted
<1>3. Placed(e)
    BY <1>1, Numbers DEF Placed, Commanding
<1> QED
    BY <1>2, <1>3

\* Nothing is left of an executor that is gone.
LEMMA NoExecutorFits == Placed(NoExecutor) /\ Counted(NoExecutor) /\ NoExecutor.pc = "gone"
<1>1. /\ NoExecutor.pc = "gone" /\ NoExecutor.exit = "gone" /\ NoExecutor.verdict = "failed"
      /\ Blank(NoExecutor)
    BY DEF NoExecutor, Blank
<1> QED
    BY <1>1, NoExecutorType, BlankFits

\* Every step of an executor leaves it in a place that fits, and the others where they are.
LEMMA ExecutePlaces ==
    ASSUME TypeOK, PlaceInv, NEW f \in Flow, Execute(f)
    PROVE  exec' \in [Flow -> Executor] /\ Alone(f) /\ Placed(exec'[f]) /\ Counted(exec'[f])
<1>0. exec \in [Flow -> Executor] /\ exec[f] \in Executor
    BY DEF TypeOK
<1>1. Placed(exec[f]) /\ Counted(exec[f])
    BY DEF PlaceInv
<1>2. exec[f].n \in Int /\ exec[f].points \in Int /\ exec[f].n <= MaxCommands + 1 /\ exec[f].points <= Points
    BY <1>0, Numbers DEF Executor
<1>3. "finish" \in Pc /\ "gone" \in Pc /\ "release" \in Pc /\ "start" \in Pc /\ "decide" \in Pc /\ "submit" \in Pc
    BY DEF Pc
<1>4. "" \in RunError /\ "other" \in RunError /\ "timeout" \in RunError /\ "failed" \in Verdict /\ "completed" \in Verdict
    BY DEF RunError, Verdict
<1>5. CASE TakeSession(f)
    <2>1. CASE GoTo(f, "start")
        <3>1. exec' \in [Flow -> Executor] /\ Alone(f) /\ Keeps(f) /\ exec'[f].pc = "start"
            BY <2>1, <1>0, <1>3, GoToMoves
        <3> QED
            BY <3>1, <1>1, <1>5, Numbers DEF TakeSession, At, Placed, Counted, Commanding, Keeps
    <2>2. CASE exec' = [exec EXCEPT ![f] = [@ EXCEPT !.pc = "finish", !.verdict = "failed", !.exit = "gone"]]
        <3>1. /\ exec' \in [Flow -> Executor] /\ Alone(f)
              /\ exec'[f].pc = "finish" /\ exec'[f].verdict = "failed" /\ exec'[f].exit = "gone"
              /\ exec'[f].n = exec[f].n
            BY <2>2, <1>0, RefusedMoves
        <3> QED
            BY <3>1, <1>1, <1>5, Numbers DEF TakeSession, At, Placed, Counted, Commanding
    <2>3. CASE exec' = [exec EXCEPT ![f] = NoExecutor]
        <3>1. exec' \in [Flow -> Executor] /\ Alone(f) /\ exec'[f] = NoExecutor
            BY <2>3, <1>0, GoneMoves
        <3> QED
            BY <3>1, NoExecutorFits
    <2> QED
        BY <1>5, <2>1, <2>2, <2>3 DEF TakeSession
<1>6. CASE Start(f)
    <2>1. CASE exec' = [exec EXCEPT ![f] = [@ EXCEPT !.pc = "submit", !.exit = "release"]]
        <3>1. /\ exec' \in [Flow -> Executor] /\ Alone(f)
              /\ exec'[f].pc = "submit" /\ exec'[f].exit = "release"
              /\ exec'[f].n = exec[f].n /\ exec'[f].verdict = exec[f].verdict
            BY <2>1, <1>0, StartedMoves
        <3> QED
            BY <3>1, <1>1, <1>6, Numbers DEF Start, At, Placed, Counted, Commanding
    <2>2. CASE GoTo(f, "release")
        <3>1. exec' \in [Flow -> Executor] /\ Alone(f) /\ Keeps(f) /\ exec'[f].pc = "release"
            BY <2>2, <1>0, <1>3, GoToMoves
        <3> QED
            BY <3>1, <1>1, <1>6, Numbers DEF Start, At, Placed, Counted, Commanding, Keeps
    <2> QED
        BY <1>6, <2>1, <2>2 DEF Start
<1>7. ASSUME NEW v \in Verdict, EndWith(f, v), v # "failed" => exec[f].exit = "restore"
      PROVE  exec' \in [Flow -> Executor] /\ Alone(f) /\ Placed(exec'[f]) /\ Counted(exec'[f])
    <2>1. /\ exec' \in [Flow -> Executor] /\ Alone(f) /\ Blank(exec'[f])
          /\ exec'[f].pc = "finish" /\ exec'[f].verdict = v /\ exec'[f].exit = exec[f].exit
        BY <1>7, <1>0, EndWithMoves
    <2>2. exec[f].exit \in {"gone", "release", "restore"}
        BY <1>1 DEF Placed
    <2> QED
        BY <2>1, <2>2, <1>7, EndFits
<1>8. CASE Head(f)
    <2>0. exec[f].exit = "restore"
        BY <1>8, <1>1 DEF Head, At, Placed
    <2>1. CASE GoTo(f, "decide")
        <3>1. exec' \in [Flow -> Executor] /\ Alone(f) /\ Keeps(f) /\ exec'[f].pc = "decide"
            BY <2>1, <1>0, <1>3, GoToMoves
        <3> QED
            BY <3>1, <1>1, <1>8, Numbers DEF Head, At, Placed, Counted, Commanding, Keeps
    <2>2. CASE EndWith(f, GuardVerdict(GuardError(f))) \/ EndWith(f, "failed")
        BY <2>0, <2>2, <1>4, <1>7, VerdictType
    <2> QED
        BY <1>8, <2>1, <2>2 DEF Head
<1>9. CASE Decide(f)
    <2>0. exec[f].exit = "restore" /\ exec[f].verdict = "failed" /\ exec[f].n >= 1
        BY <1>9, <1>1 DEF Decide, At, Placed
    <2>1. CASE /\ exec[f].n <= MaxCommands /\ exec[f].points < Points
               /\ exec' = [exec EXCEPT ![f] = [@ EXCEPT !.pc = "guard", !.late = AuthorityGone(f), !.sent = FALSE]]
        <3>1. AuthorityGone(f) \in BOOLEAN
            BY DEF AuthorityGone, TypeOK
        <3>2. /\ exec' \in [Flow -> Executor] /\ Alone(f)
              /\ exec'[f].pc = "guard"
              /\ exec'[f].n = exec[f].n /\ exec'[f].exit = exec[f].exit
              /\ exec'[f].verdict = exec[f].verdict /\ exec'[f].points = exec[f].points
              /\ exec'[f].pending = exec[f].pending /\ exec'[f].retried = exec[f].retried
            BY <2>1, <3>1, <1>0, DecidedMoves
        <3>3. Placed(exec'[f])
            BY <3>2, <2>0, <2>1, <1>2, Numbers DEF Placed, Commanding
        <3>4. Counted(exec'[f])
            BY <3>2, <1>1 DEF Counted
        <3> QED
            BY <3>2, <3>3, <3>4
    <2>2. CASE EndWith(f, "completed") \/ EndWith(f, "failed")
        BY <2>0, <2>2, <1>4, <1>7
    <2> QED
        BY <1>9, <2>1, <2>2 DEF Decide
<1>10. CASE SecondGuard(f)
    <2>0. Commanding(exec[f])
        BY <1>10 DEF SecondGuard, At, Commanding
    <2>1. CASE GoTo(f, "submit")
        <3>1. exec' \in [Flow -> Executor] /\ Alone(f) /\ Keeps(f) /\ exec'[f].pc = "submit"
            BY <2>1, <1>0, <1>3, GoToMoves
        <3> QED
            BY <3>1, <2>0, <1>0, RanFits
    <2>2. CASE Ran(f, GuardError(f)) \/ Ran(f, "other")
        <3>1. exec' \in [Flow -> Executor] /\ Alone(f) /\ Keeps(f) /\ exec'[f].pc = "record"
            BY <2>2, <1>0, <1>4, RanMoves, VerdictType
        <3> QED
            BY <3>1, <2>0, <1>0, RanFits
    <2> QED
        BY <1>10, <2>1, <2>2 DEF SecondGuard
<1>11. CASE SubmitCommand(f)
    <2>0. Commanding(exec[f])
        BY <1>11 DEF SubmitCommand, At, Commanding
    <2>1. CASE exec' = [exec EXCEPT ![f] = [@ EXCEPT !.pc = "wait", !.sent = TRUE]]
        <3>1. exec' \in [Flow -> Executor] /\ Alone(f) /\ Keeps(f) /\ exec'[f].pc = "wait"
            BY <2>1, <1>0, SentMoves
        <3> QED
            BY <3>1, <2>0, <1>0, RanFits
    <2>2. CASE Ran(f, "other")
        <3>1. exec' \in [Flow -> Executor] /\ Alone(f) /\ Keeps(f) /\ exec'[f].pc = "record"
            BY <2>2, <1>0, <1>4, RanMoves
        <3> QED
            BY <3>1, <2>0, <1>0, RanFits
    <2> QED
        BY <1>11, <2>1, <2>2 DEF SubmitCommand
<1>12. CASE Collect(f)
    <2>0. Commanding(exec[f])
        BY <1>12 DEF Collect, At, Commanding
    <2>1. CASE Ran(f, "") \/ Ran(f, "other") \/ Ran(f, "timeout")
        <3>1. exec' \in [Flow -> Executor] /\ Alone(f) /\ Keeps(f) /\ exec'[f].pc = "record"
            BY <2>1, <1>0, <1>4, RanMoves
        <3> QED
            BY <3>1, <2>0, <1>0, RanFits
    <2>2. CASE exec' = [exec EXCEPT ![f] = [@ EXCEPT !.pc = "manual", !.next = "record", !.err = "other"]]
        <3>1. /\ exec' \in [Flow -> Executor] /\ Alone(f)
              /\ exec'[f].pc = "manual" /\ exec'[f].next = "record"
              /\ exec'[f].n = exec[f].n /\ exec'[f].exit = exec[f].exit
              /\ exec'[f].verdict = exec[f].verdict /\ exec'[f].points = exec[f].points
              /\ exec'[f].pending = exec[f].pending /\ exec'[f].retried = exec[f].retried
            BY <2>2, <1>0, UnloggedMoves
        <3>2. Placed(exec'[f])
            BY <3>1, <2>0, <1>1, <1>12, Numbers DEF Placed, Commanding, Collect, At
        <3>3. Counted(exec'[f])
            BY <3>1, <1>1 DEF Counted
        <3> QED
            BY <3>1, <3>2, <3>3
    <2> QED
        BY <1>12, <2>1, <2>2 DEF Collect
<1>13. CASE RecordSnapshot(f)
    <2>1. CASE EndWith(f, "failed")
        BY <2>1, <1>4, <1>7
    <2>2. CASE exec' = [exec EXCEPT ![f] = [NoExecutor EXCEPT !.pc = "head", !.n = 1, !.exit = "restore"]]
        <3>1. /\ exec' \in [Flow -> Executor] /\ Alone(f)
              /\ exec'[f].pc = "head" /\ exec'[f].n = 1 /\ exec'[f].exit = "restore"
              /\ exec'[f].next = "gone" /\ exec'[f].verdict = "failed" /\ exec'[f].points = 0
              /\ ~exec'[f].pending /\ ~exec'[f].retried
            BY <2>2, <1>0, SnapshotMoves
        <3> QED
            BY <3>1, Numbers DEF Placed, Counted, Commanding
    <2> QED
        BY <1>13, <2>1, <2>2 DEF RecordSnapshot
<1>14. CASE RecordStep(f)
    <2>0. /\ Commanding(exec[f]) /\ exec[f].n >= 1 /\ exec[f].n <= MaxCommands /\ exec[f].points < Points
          /\ exec[f].exit = "restore" /\ exec[f].verdict = "failed"
        BY <1>14, <1>1, <1>2, Numbers DEF RecordStep, At, Commanding, Placed
    <2>1. CASE AfterStep(f)
        <3>1. CASE EndWith(f, "failed") \/ EndWith(f, GuardVerdict(exec[f].err))
            BY <3>1, <2>0, <1>4, <1>7, VerdictType
        <3>2. CASE /\ exec' \in [Flow -> Executor] /\ Alone(f)
                   /\ exec'[f].pc = "head" /\ exec'[f].n = exec[f].n + 1 /\ ~exec'[f].late
                   /\ exec'[f].exit = exec[f].exit /\ exec'[f].verdict = exec[f].verdict
                   /\ exec'[f].next = exec[f].next
                   /\ \/ /\ ~exec[f].pending /\ exec'[f].pending
                         /\ exec'[f].retried = exec[f].retried /\ exec'[f].points = exec[f].points
                      \/ /\ exec[f].pending /\ ~exec'[f].pending /\ ~exec'[f].retried
                         /\ exec'[f].points = exec[f].points + 1
                      \/ /\ exec[f].pending /\ exec'[f].pending /\ ~exec[f].retried /\ exec'[f].retried
                         /\ exec'[f].points = exec[f].points
            <4>1. Placed(exec'[f])
                BY <3>2, <2>0, <1>2, Numbers DEF Placed, Commanding
            <4>2. Counted(exec'[f])
                BY <3>2, <2>0, <1>1, <1>2 DEF Counted
            <4> QED
                BY <3>2, <4>1, <4>2
        <3> QED
            BY <2>1, <2>0, <1>0, <3>1, <3>2, AfterStepMoves
    <2>2. CASE exec' = [exec EXCEPT ![f] = [@ EXCEPT !.pc = "manual", !.next = "finish", !.verdict = "failed"]]
        <3>1. /\ exec' \in [Flow -> Executor] /\ Alone(f)
              /\ exec'[f].pc = "manual" /\ exec'[f].next = "finish" /\ exec'[f].verdict = "failed"
              /\ exec'[f].n = exec[f].n /\ exec'[f].exit = exec[f].exit
              /\ exec'[f].points = exec[f].points
              /\ exec'[f].pending = exec[f].pending /\ exec'[f].retried = exec[f].retried
            BY <2>2, <1>0, UnrecordedMoves
        <3> QED
            BY <3>1, <2>0, <1>1, <1>2, Numbers DEF Placed, Counted, Commanding
    <2>3. CASE EndWith(f, "failed")
        BY <2>3, <1>4, <1>7
    <2> QED
        BY <1>14, <2>1, <2>2, <2>3 DEF RecordStep
<1>15. CASE Finish(f)
    <2>0. exec[f].exit \in {"gone", "release", "restore"}
        BY <1>1 DEF Placed
    <2>1. CASE Unwind(f)
        <3>1. /\ exec' \in [Flow -> Executor] /\ Alone(f) /\ Blank(exec'[f])
              /\ exec'[f].pc = exec[f].exit /\ exec'[f].verdict = "failed" /\ exec'[f].exit = "gone"
            BY <2>1, <1>0, UnwindMoves
        <3> QED
            BY <3>1, <2>0, BlankFits
    <2>2. CASE DemandCheck(f, exec[f].exit)
        <3>0. exec[f].exit \in Pc
            BY <2>0 DEF Pc
        <3>1. /\ exec' \in [Flow -> Executor] /\ Alone(f) /\ Blank(exec'[f])
              /\ exec'[f].pc = "manual" /\ exec'[f].verdict = "failed"
              /\ exec'[f].exit = "gone" /\ exec'[f].next = exec[f].exit
            BY <2>2, <3>0, <1>0, DemandCheckMoves
        <3> QED
            BY <3>1, <2>0, BlankFits
    <2> QED
        BY <1>15, <2>1, <2>2 DEF Finish
<1>16. CASE Manual(f)
    <2>0. At(f, "manual") /\ exec[f].next \in {"record", "finish", "gone", "release", "restore"}
        BY <1>16, <1>1 DEF Manual, At, Placed
    <2>1. exec[f].next \in Pc
        BY <2>0 DEF Pc
    <2>2. exec' \in [Flow -> Executor] /\ Alone(f) /\ Keeps(f) /\ exec'[f].pc = exec[f].next
        BY <2>1, <1>0, <1>16, GoToMoves DEF Manual
    <2>3. Counted(exec'[f])
        BY <2>2, <1>1 DEF Counted, Keeps
    <2>4. CASE exec[f].next = "record"
        BY <2>0, <2>2, <2>3, <2>4, <1>1, Numbers DEF Placed, Commanding, Keeps, At
    <2>5. CASE exec[f].next # "record"
        BY <2>0, <2>2, <2>3, <2>5, <1>1, Numbers DEF Placed, Commanding, Keeps, At
    <2> QED
        BY <2>4, <2>5
<1>17. CASE BeginRestore(f)
    <2>1. CASE exec' = [exec EXCEPT ![f] = [@ EXCEPT !.pc = "submit", !.n = Restore]]
        <3>1. /\ exec' \in [Flow -> Executor] /\ Alone(f)
              /\ exec'[f].pc = "submit" /\ exec'[f].n = Restore
              /\ exec'[f].exit = exec[f].exit /\ exec'[f].verdict = exec[f].verdict
            BY <2>1, <1>0, RestoringMoves
        <3> QED
            BY <3>1, <1>1, <1>17, Numbers DEF BeginRestore, At, Placed, Counted, Commanding
    <2>2. CASE GoTo(f, "release")
        <3>1. exec' \in [Flow -> Executor] /\ Alone(f) /\ Keeps(f) /\ exec'[f].pc = "release"
            BY <2>2, <1>0, <1>3, GoToMoves
        <3> QED
            BY <3>1, <1>1, <1>17, Numbers DEF BeginRestore, At, Placed, Counted, Commanding, Keeps
    <2> QED
        BY <1>17, <2>1, <2>2 DEF BeginRestore
<1>18. CASE RecordRestore(f)
    <2>1. CASE GoTo(f, "release")
        <3>1. exec' \in [Flow -> Executor] /\ Alone(f) /\ Keeps(f) /\ exec'[f].pc = "release"
            BY <2>1, <1>0, <1>3, GoToMoves
        <3> QED
            BY <3>1, <1>1, <1>18, Numbers DEF RecordRestore, At, Placed, Counted, Commanding, Keeps
    <2>2. CASE DemandCheck(f, "release")
        <3>1. /\ exec' \in [Flow -> Executor] /\ Alone(f) /\ Blank(exec'[f])
              /\ exec'[f].pc = "manual" /\ exec'[f].verdict = "failed"
              /\ exec'[f].exit = "gone" /\ exec'[f].next = "release"
            BY <2>2, <1>0, <1>3, DemandCheckMoves
        <3> QED
            BY <3>1, BlankFits
    <2> QED
        BY <1>18, <2>1, <2>2 DEF RecordRestore
<1>19. CASE Release(f)
    <2>1. exec' \in [Flow -> Executor] /\ Alone(f) /\ exec'[f] = NoExecutor
        BY <1>19, <1>0, GoneMoves DEF Release
    <2>2. /\ NoExecutor.pc = "gone" /\ NoExecutor.exit = "gone" /\ NoExecutor.verdict = "failed"
          /\ Blank(NoExecutor)
        BY DEF NoExecutor, Blank
    <2> QED
        BY <2>1, <2>2, BlankFits
<1> QED
    BY <1>5, <1>6, <1>8, <1>9, <1>10, <1>11, <1>12, <1>13, <1>14, <1>15, <1>16, <1>17, <1>18, <1>19
    DEF Execute

-----------------------------------------------------------------------------
(* The types of everything but the worker and the executors.               *)

\* The conjuncts of TypeOK that GateType and ExecutePlaces leave.
RestOK ==
    /\ answer \in [Flow -> {"none", "ok", "failed"}]
    /\ status \in [Flow -> {"none", "awaiting_approval"} \cup Active \cup Terminal]
    /\ stopReq \in [Flow -> BOOLEAN]
    /\ expired \in [Flow -> BOOLEAN]
    /\ lost \in [Flow -> SUBSET Grounds]
    /\ estop \in [pc : {"idle", "owner", "row"}, owner : Flow \cup {NoOwner}]
    /\ reaping \in SUBSET Flow
    /\ faults \in 0..MaxFaults
    /\ stops \in 0..MaxStops
    /\ restarts \in 0..MaxRestarts
    /\ armed \in BOOLEAN
    /\ killed \in SUBSET Flow
    /\ overrun \in [Flow -> Nat]
    /\ restored \in SUBSET Flow
    /\ reported \in SUBSET Flow

\* A row that is set to a status has one.
LEMMA SetRowType ==
    ASSUME RestOK, NEW f \in Flow, NEW new \in {"none", "awaiting_approval"} \cup Active \cup Terminal,
           SetRow(f, new)
    PROVE  /\ status' \in [Flow -> {"none", "awaiting_approval"} \cup Active \cup Terminal]
           /\ status'[f] = new /\ \A g \in Flow \ {f} : status'[g] = status[g]
BY DEF SetRow, RestOK

\* A fault is counted up to its bound.
LEMMA FaultType ==
    ASSUME RestOK, Fault \/ UNCHANGED bounds
    PROVE  faults' \in 0..MaxFaults /\ stops' \in 0..MaxStops /\ restarts' \in 0..MaxRestarts
BY FlowConstants DEF Fault, bounds, RestOK

\* The steps of an executor and the rest of the state.
LEMMA ExecuteRest ==
    ASSUME TypeOK, NEW f \in Flow, Execute(f)
    PROVE  RestOK'
<1>0. RestOK
    BY DEF TypeOK, RestOK
<1>1. exec[f].verdict \in Verdict
    BY DEF TypeOK, Executor
<1>2. Verdict \subseteq Terminal /\ "running" \in Active /\ "failed" \in Terminal
    BY DEF Verdict, Terminal, Active
<1>3. CASE TakeSession(f)
    BY <1>0, <1>3, FaultType DEF TakeSession, executorOnly, row, RestOK
<1>4. CASE Start(f)
    <2>1. status' \in [Flow -> {"none", "awaiting_approval"} \cup Active \cup Terminal]
        <3>1. CASE UNCHANGED status
            BY <1>0, <3>1 DEF RestOK
        <3>2. CASE SetRow(f, "running")
            BY <1>0, <1>2, <3>2, SetRowType
        <3> QED
            BY <1>4, <3>1, <3>2 DEF Start
    <2>2. Fault \/ UNCHANGED bounds
        BY <1>4 DEF Start
    <2> QED
        BY <1>0, <1>4, <2>1, <2>2, FaultType DEF Start, executorOnly, RestOK
<1>5. CASE Head(f) \/ SecondGuard(f) \/ RecordStep(f)
    <2>1. Fault \/ UNCHANGED bounds
        BY <1>5 DEF Head, SecondGuard, RecordStep
    <2> QED
        BY <1>0, <1>5, <2>1, FaultType DEF Head, SecondGuard, RecordStep, executorOnly, row, RestOK
<1>6. CASE Decide(f) \/ RecordSnapshot(f) \/ BeginRestore(f) \/ Release(f)
    BY <1>0, <1>6 DEF Decide, RecordSnapshot, BeginRestore, Release, executorOnly, row, bounds, RestOK
<1>7. CASE SubmitCommand(f)
    <2>1. overrun' \in [Flow -> Nat]
        <3>1. CASE UNCHANGED overrun
            BY <1>0, <3>1 DEF RestOK
        <3>2. CASE overrun' = [overrun EXCEPT ![f] = @ + IF exec[f].n > 0 /\ AuthorityGone(f) THEN 1 ELSE 0]
            <4>1. overrun[f] \in Nat
                BY <1>0 DEF RestOK
            <4>2. overrun[f] + (IF exec[f].n > 0 /\ AuthorityGone(f) THEN 1 ELSE 0) \in Nat
                BY <4>1
            <4> QED
                BY <1>0, <3>2, <4>2 DEF RestOK
        <3> QED
            BY <1>7, <3>1, <3>2 DEF SubmitCommand
    <2>2. answer' \in [Flow -> {"none", "ok", "failed"}]
        BY <1>0, <1>7 DEF SubmitCommand, RestOK
    <2> QED
        BY <1>0, <1>7, <2>1, <2>2 DEF SubmitCommand, row, bounds, RestOK
<1>8. CASE Collect(f)
    <2>1. Fault \/ UNCHANGED bounds
        BY <1>8 DEF Collect
    <2>2. answer' \in [Flow -> {"none", "ok", "failed"}]
        BY <1>0, <1>8 DEF Collect, RestOK
    <2> QED
        BY <1>0, <1>8, <2>1, <2>2, FaultType DEF Collect, row, history, RestOK
<1>9. CASE Finish(f)
    <2>1. status' \in [Flow -> {"none", "awaiting_approval"} \cup Active \cup Terminal]
        <3>1. CASE UNCHANGED status
            BY <1>0, <3>1 DEF RestOK
        <3>2. CASE \E s \in {exec[f].verdict, "failed"} : SetRow(f, s)
            BY <1>0, <1>1, <1>2, <3>2, SetRowType
        <3> QED
            BY <1>9, <3>1, <3>2 DEF Finish
    <2>2. Fault \/ UNCHANGED bounds
        BY <1>9 DEF Finish
    <2> QED
        BY <1>0, <1>9, <2>1, <2>2, FaultType DEF Finish, executorOnly, RestOK
<1>10. CASE Manual(f)
    BY <1>0, <1>10 DEF Manual, executorOnly, row, bounds, RestOK
<1>11. CASE RecordRestore(f)
    <2>1. status' \in [Flow -> {"none", "awaiting_approval"} \cup Active \cup Terminal]
        <3>1. CASE UNCHANGED status
            BY <1>0, <3>1 DEF RestOK
        <3>2. CASE SetRow(f, "failed")
            BY <1>0, <1>2, <3>2, SetRowType
        <3> QED
            BY <1>11, <3>1, <3>2 DEF RecordRestore
    <2>2. Fault \/ UNCHANGED bounds
        BY <1>11 DEF RecordRestore
    <2> QED
        BY <1>0, <1>11, <2>1, <2>2, FaultType DEF RecordRestore, executorOnly, RestOK
<1> QED
    BY <1>3, <1>4, <1>5, <1>6, <1>7, <1>8, <1>9, <1>10, <1>11 DEF Execute

\* What happens to a flow behind its executor's back, and the rest of the state.
LEMMA OutsideRest ==
    ASSUME TypeOK, Outside
    PROVE  RestOK'
<1>0. RestOK
    BY DEF TypeOK, RestOK
<1>1. owner \in Flow \cup {NoOwner}
    BY DEF TypeOK, Gate!GateTypeOK
<1>2. "awaiting_approval" \in {"none", "awaiting_approval"} /\ "emergency_stopped" \in Terminal /\ "timed_out" \in Terminal
    BY DEF Terminal
<1>3. ASSUME NEW f \in Flow, Create(f)
      PROVE  RestOK'
    <2>1. SetRow(f, "awaiting_approval")
        BY <1>3 DEF Create
    <2>2. status' \in [Flow -> {"none", "awaiting_approval"} \cup Active \cup Terminal]
        BY <1>0, <2>1, SetRowType
    <2> QED
        BY <1>0, <1>3, <2>2 DEF Create, bounds, history, RestOK
<1>4. ASSUME NEW f \in Flow, StopFlow(f) \/ DeadlinePasses(f) \/ ReapRelease(f)
      PROVE  RestOK'
    BY <1>0, <1>4 DEF StopFlow, DeadlinePasses, ReapRelease, row, bounds, history, RestOK
<1>5. ASSUME NEW f \in Flow, NEW g \in Grounds, Lose(f, g)
      PROVE  RestOK'
    <2>1. lost' = [lost EXCEPT ![f] = @ \cup {g}]
        BY <1>5 DEF Lose
    <2>2. lost' \in [Flow -> SUBSET Grounds]
        BY <1>0, <2>1 DEF RestOK
    <2> QED
        BY <1>0, <1>5, <2>2 DEF Lose, row, bounds, history, RestOK
<1>6. CASE EStopOwner
    BY <1>0, <1>1, <1>6, FlowConstants DEF EStopOwner, row, history, RestOK
<1>7. CASE EStopWorker
    <2>1. killed' \in SUBSET Flow
        BY <1>0, <1>1, <1>7 DEF EStopWorker, RestOK
    <2>2. estop' \in [pc : {"idle", "owner", "row"}, owner : Flow \cup {NoOwner}]
        BY <1>0, <1>7 DEF EStopWorker, RestOK
    <2>3. reported' \in SUBSET Flow /\ armed' \in BOOLEAN
        BY <1>0, <1>7 DEF EStopWorker, RestOK
    <2> QED
        BY <1>0, <1>7, <2>1, <2>2, <2>3 DEF EStopWorker, row, bounds, RestOK
<1>8. CASE EStopRow
    <2>1. Fault \/ UNCHANGED bounds
        BY <1>8 DEF EStopRow
    <2>2. \/ UNCHANGED row
          \/ \E f \in Flow : SetRow(f, "emergency_stopped") /\ stopReq' = [stopReq EXCEPT ![f] = TRUE]
        BY <1>8 DEF EStopRow
    <2>3. /\ status' \in [Flow -> {"none", "awaiting_approval"} \cup Active \cup Terminal]
          /\ stopReq' \in [Flow -> BOOLEAN]
        <3>1. CASE UNCHANGED row
            BY <1>0, <3>1 DEF row, RestOK
        <3>2. ASSUME NEW f \in Flow, SetRow(f, "emergency_stopped"), stopReq' = [stopReq EXCEPT ![f] = TRUE]
              PROVE  /\ status' \in [Flow -> {"none", "awaiting_approval"} \cup Active \cup Terminal]
                     /\ stopReq' \in [Flow -> BOOLEAN]
            <4>1. status' \in [Flow -> {"none", "awaiting_approval"} \cup Active \cup Terminal]
                BY <1>0, <1>2, <3>2, SetRowType
            <4>2. stopReq' \in [Flow -> BOOLEAN]
                BY <1>0, <3>2 DEF RestOK
            <4> QED
                BY <4>1, <4>2
        <3> QED
            BY <2>2, <3>1, <3>2
    <2> QED
        BY <1>0, <1>8, <2>1, <2>3, FaultType DEF EStopRow, history, RestOK
<1>9. CASE NoticeExpiry \/ ConfirmManualCheck \/ WorkerBegin \/ WorkerDrop \/ WorkerBeginStop \/ UNCHANGED vars
    BY <1>0, <1>9 DEF NoticeExpiry, ConfirmManualCheck, WorkerBegin, WorkerDrop, WorkerBeginStop,
       workerOnly, row, bounds, history, vars, RestOK
<1>10. CASE WorkerEnd
    <2>1. PICK good \in BOOLEAN :
              /\ answer' = [f \in Flow |->
                    IF inflight = <<f, exec[f].n>> /\ At(f, "wait")
                    THEN IF good THEN "ok" ELSE "failed"
                    ELSE answer[f]]
              /\ restored' = restored \cup {f \in Flow : good /\ inflight = <<f, Restore>>}
        BY <1>10 DEF WorkerEnd
    <2>2. answer' \in [Flow -> {"none", "ok", "failed"}]
        BY <1>0, <2>1 DEF RestOK
    <2>3. restored' \in SUBSET Flow
        BY <1>0, <2>1 DEF RestOK
    <2> QED
        BY <1>0, <1>10, <2>2, <2>3 DEF WorkerEnd, workerOnly, row, bounds, RestOK
<1>11. CASE Reap
    <2>1. status' \in [Flow -> {"none", "awaiting_approval"} \cup Active \cup Terminal]
        BY <1>0, <1>2, <1>11 DEF Reap, RestOK
    <2> QED
        BY <1>0, <1>11, <2>1 DEF Reap, bounds, history, RestOK
<1> QED
    BY <1>3, <1>4, <1>5, <1>6, <1>7, <1>8, <1>9, <1>10, <1>11 DEF Outside, Worker

\* The launch of an executor, the restart and the rest of the state.
LEMMA LaunchRest ==
    ASSUME TypeOK, Restart \/ \E f \in Flow : ApproveFlow(f)
    PROVE  RestOK'
<1>0. RestOK
    BY DEF TypeOK, RestOK
<1>1. "queued" \in Active /\ "interrupted" \in Terminal
    BY DEF Active, Terminal
<1>2. ASSUME NEW f \in Flow, ApproveFlow(f)
      PROVE  RestOK'
    <2>1. SetRow(f, "queued")
        BY <1>2 DEF ApproveFlow
    <2>2. status' \in [Flow -> {"none", "awaiting_approval"} \cup Active \cup Terminal]
        BY <1>0, <1>1, <2>1, SetRowType
    <2> QED
        BY <1>0, <1>2, <2>2, FaultType DEF ApproveFlow, history, RestOK
<1>3. CASE Restart
    <2>1. status' \in [Flow -> {"none", "awaiting_approval"} \cup Active \cup Terminal]
        BY <1>0, <1>1, <1>3 DEF Restart, RestOK
    <2>2. answer' \in [Flow -> {"none", "ok", "failed"}]
        BY <1>3 DEF Restart
    <2>3. estop' \in [pc : {"idle", "owner", "row"}, owner : Flow \cup {NoOwner}]
        BY <1>3 DEF Restart
    <2> QED
        BY <1>0, <1>3, <2>1, <2>2, <2>3, FlowConstants DEF Restart, history, RestOK
<1> QED
    BY <1>2, <1>3

\* Every step keeps the types and the places.
LEMMA TypedStep ==
    ASSUME TypeOK, PlaceInv, RowInv, [Next]_vars
    PROVE  TypeOK' /\ PlaceInv'
<1>1. RestOK'
    BY Steps, ExecuteRest, OutsideRest, LaunchRest
<1>2. exec \in [Flow -> Executor]
    BY DEF TypeOK
<1>3. exec' \in [Flow -> Executor] /\ PlaceInv'
    <2>1. CASE Outside
        BY <1>2, <2>1, OutsideRests DEF PlaceInv
    <2>2. CASE Restart
        <3>1. exec' = [f \in Flow |-> NoExecutor]
            BY <2>2 DEF Restart
        <3> QED
            BY <3>1, NoExecutorFits, NoExecutorType DEF PlaceInv
    <2>3. ASSUME NEW f \in Flow, Execute(f)
          PROVE  exec' \in [Flow -> Executor] /\ PlaceInv'
        BY <2>3, ExecutePlaces DEF PlaceInv, Alone
    <2>4. ASSUME NEW f \in Flow, ApproveFlow(f)
          PROVE  exec' \in [Flow -> Executor] /\ PlaceInv'
        <3>0. "launched" \in Pc
            BY DEF Pc
        <3>1. CASE GoTo(f, "launched")
            <4>1. /\ exec' \in [Flow -> Executor] /\ Alone(f) /\ Keeps(f)
                  /\ exec'[f].pc = "launched"
                BY <3>1, <1>2, <3>0, GoToMoves
            <4>2. At(f, "gone")
                BY <2>4 DEF ApproveFlow, RowInv
            <4>3. Placed(exec'[f]) /\ Counted(exec'[f])
                BY <4>1, <4>2, Numbers DEF PlaceInv, Placed, Counted, Commanding, Keeps, At
            <4> QED
                BY <4>1, <4>3 DEF PlaceInv, Alone
        <3>2. CASE exec' = exec
            BY <1>2, <3>2 DEF PlaceInv
        <3> QED
            BY <2>4, <3>1, <3>2 DEF ApproveFlow
    <2> QED
        BY <2>1, <2>2, <2>3, <2>4, Steps
<1> QED
    BY <1>1, <1>3, GateType DEF TypeOK, RestOK

-----------------------------------------------------------------------------
(* What a step does to one flow.                                           *)

\* An executor runs, is launched, is lost in a restart, or rests.
LEMMA ExecMoves ==
    ASSUME TypeOK, PlaceInv, [Next]_vars, NEW f \in Flow
    PROVE  \/ exec'[f] = exec[f]
           \/ Execute(f)
           \/ ApproveFlow(f) /\ exec'[f].pc = "launched" /\ Keeps(f)
           \/ Restart /\ exec'[f] = NoExecutor
<1>0. exec \in [Flow -> Executor]
    BY DEF TypeOK
<1>1. CASE Outside
    BY <1>1, OutsideRests
<1>2. CASE Restart
    BY <1>2 DEF Restart
<1>3. ASSUME NEW g \in Flow, Execute(g)
      PROVE  exec'[f] = exec[f] \/ Execute(f)
    BY <1>3, ExecutePlaces DEF Alone
<1>4. ASSUME NEW g \in Flow, ApproveFlow(g)
      PROVE  exec'[f] = exec[f] \/ (ApproveFlow(f) /\ exec'[f].pc = "launched" /\ Keeps(f))
    <2>0. "launched" \in Pc
        BY DEF Pc
    <2>1. exec' = exec \/ (Alone(g) /\ Keeps(g) /\ exec'[g].pc = "launched")
        BY <1>0, <1>4, <2>0, GoToMoves DEF ApproveFlow
    <2>2. CASE g = f
        BY <1>4, <2>1, <2>2 DEF Keeps
    <2>3. CASE g # f
        BY <2>1, <2>3 DEF Alone
    <2> QED
        BY <2>2, <2>3
<1> QED
    BY <1>1, <1>2, <1>3, <1>4, Steps

\* What an executor does to the rows: its own starts, ends or fails.
LEMMA ExecuteRow ==
    ASSUME TypeOK, NEW f \in Flow, Execute(f)
    PROVE  /\ ~At(f, "gone")
           /\ \A g \in Flow \ {f} : status'[g] = status[g]
           /\ \/ status'[f] = status[f]
              \/ At(f, "start") /\ status[f] = "queued" /\ status'[f] = "running"
              \/ /\ At(f, "finish") /\ status[f] \in Active
                 /\ Finish(f) /\ status'[f] \in {exec[f].verdict, "failed"}
              \/ status[f] # "emergency_stopped" /\ status'[f] = "failed"
           /\ UNCHANGED <<stopReq, expired, lost, killed, reaping>>
<1>0. status \in [Flow -> {"none", "awaiting_approval"} \cup Active \cup Terminal]
    BY DEF TypeOK
<1>1. CASE \/ TakeSession(f) \/ Head(f) \/ Decide(f) \/ SecondGuard(f) \/ SubmitCommand(f)
           \/ Collect(f) \/ RecordSnapshot(f) \/ RecordStep(f) \/ Manual(f) \/ BeginRestore(f)
           \/ Release(f)
    BY <1>1 DEF TakeSession, Head, Decide, SecondGuard, SubmitCommand, Collect, RecordSnapshot,
       RecordStep, Manual, BeginRestore, Release, executorOnly, row, history, At
<1>2. CASE Start(f)
    BY <1>0, <1>2 DEF Start, SetRow, executorOnly, At
<1>3. CASE Finish(f)
    BY <1>0, <1>3 DEF Finish, SetRow, executorOnly, At
<1>4. CASE RecordRestore(f)
    BY <1>0, <1>4 DEF RecordRestore, SetRow, executorOnly, At
<1> QED
    BY <1>1, <1>2, <1>3, <1>4 DEF Execute

\* What happens to a row, and what a flow has lost stays lost.
LEMMA RowMoves ==
    ASSUME TypeOK, PlaceInv, [Next]_vars, NEW f \in Flow
    PROVE  /\ \/ status'[f] = status[f]
              \/ Create(f) /\ status[f] = "none" /\ status'[f] = "awaiting_approval"
              \/ ApproveFlow(f) /\ status[f] = "awaiting_approval" /\ status'[f] = "queued"
              \/ At(f, "start") /\ status[f] = "queued" /\ status'[f] = "running"
              \/ /\ At(f, "finish") /\ status[f] \in Active
                 /\ Finish(f) /\ status'[f] \in {exec[f].verdict, "failed"}
              \/ status[f] \in Active /\ status'[f] \in {"emergency_stopped", "timed_out"}
              \/ Restart /\ status[f] \in Active /\ status'[f] = "interrupted"
              \/ ~At(f, "gone") /\ status[f] # "emergency_stopped" /\ status'[f] = "failed"
           /\ stopReq[f] => stopReq'[f]
           /\ expired[f] => expired'[f]
           /\ lost[f] \subseteq lost'[f]
<1>0. /\ status \in [Flow -> {"none", "awaiting_approval"} \cup Active \cup Terminal]
      /\ stopReq \in [Flow -> BOOLEAN] /\ expired \in [Flow -> BOOLEAN]
      /\ lost \in [Flow -> SUBSET Grounds]
    BY DEF TypeOK
<1>1. ASSUME NEW g \in Flow, Execute(g)
      PROVE  /\ \/ status'[f] = status[f]
                \/ At(f, "start") /\ status[f] = "queued" /\ status'[f] = "running"
                \/ /\ At(f, "finish") /\ status[f] \in Active
                   /\ Finish(f) /\ status'[f] \in {exec[f].verdict, "failed"}
                \/ ~At(f, "gone") /\ status[f] # "emergency_stopped" /\ status'[f] = "failed"
             /\ UNCHANGED <<stopReq, expired, lost>>
    <2>1. UNCHANGED <<stopReq, expired, lost>>
        BY <1>1, ExecuteRow
    <2>2. CASE g = f
        BY <1>1, <2>1, <2>2, ExecuteRow
    <2>3. CASE g # f
        BY <1>1, <2>1, <2>3, ExecuteRow
    <2> QED
        BY <2>2, <2>3
<1>2. CASE \E g \in Flow : Create(g) \/ ApproveFlow(g)
    BY <1>0, <1>2 DEF Create, ApproveFlow, SetRow
<1>3. CASE \E g \in Flow : StopFlow(g) \/ DeadlinePasses(g) \/ ReapRelease(g)
    BY <1>0, <1>3 DEF StopFlow, DeadlinePasses, ReapRelease, row
<1>4. CASE \E g \in Flow, r \in Grounds : Lose(g, r)
    BY <1>0, <1>4 DEF Lose, row
<1>5. CASE EStopRow
    BY <1>0, <1>5 DEF EStopRow, SetRow, row
<1>6. CASE Reap
    BY <1>0, <1>6 DEF Reap
<1>7. CASE EStopOwner \/ ConfirmManualCheck \/ NoticeExpiry \/ EStopWorker \/ Worker \/ UNCHANGED vars
    BY <1>7 DEF EStopOwner, ConfirmManualCheck, NoticeExpiry, EStopWorker, Worker, WorkerBegin,
       WorkerDrop, WorkerBeginStop, WorkerEnd, workerOnly, row, vars
<1>8. CASE Restart
    BY <1>8 DEF Restart
<1> QED
    BY <1>1, <1>2, <1>3, <1>4, <1>5, <1>6, <1>7, <1>8, Steps DEF Outside

\* Who gets the instrument.
LEMMA OwnerMoves ==
    ASSUME TypeOK, [Next]_vars, NEW f \in Flow
    PROVE  owner' = f => owner = f \/ (TakeSession(f) /\ exec'[f].pc = "start")
<1>0. f # NoOwner
    BY FlowConstants
<1>1. ASSUME NEW g \in Flow, Execute(g)
      PROVE  owner' = f => owner = f \/ (TakeSession(f) /\ exec'[f].pc = "start")
    <2>1. CASE TakeSession(g)
        BY <1>0, <2>1 DEF TakeSession, GoTo, TypeOK, Executor, gate, Gate!Acquire, Gate!Boundary
    <2>2. CASE SubmitCommand(g)
        BY <1>0, <2>2 DEF SubmitCommand, Gate!HandIn, Gate!Expire, gate
    <2>3. CASE Manual(g) \/ Release(g)
        BY <1>0, <2>3 DEF Manual, Release, Gate!RequireManualCheck, Gate!Release, Gate!Boundary, gate
    <2>4. CASE \/ Start(g) \/ Head(g) \/ Decide(g) \/ SecondGuard(g) \/ Collect(g)
               \/ RecordSnapshot(g) \/ RecordStep(g) \/ Finish(g) \/ BeginRestore(g)
               \/ RecordRestore(g)
        BY <1>0, <2>4 DEF Start, Head, Decide, SecondGuard, Collect, RecordSnapshot,
           RecordStep, Finish, BeginRestore, RecordRestore, gate
    <2> QED
        BY <1>1, <2>1, <2>2, <2>3, <2>4 DEF Execute
<1>2. CASE \/ \E g \in Flow : \/ Create(g) \/ ApproveFlow(g) \/ StopFlow(g)
                              \/ DeadlinePasses(g) \/ ReapRelease(g)
           \/ \E g \in Flow, r \in Grounds : Lose(g, r)
           \/ EStopOwner \/ EStopRow \/ Reap \/ UNCHANGED vars
    BY <1>0, <1>2 DEF Create, ApproveFlow, StopFlow, DeadlinePasses, ReapRelease, Lose, EStopOwner,
       EStopRow, Reap, vars, gate, Gate!Lapse, Gate!Release, Gate!Boundary
<1>3. CASE Restart
    BY <1>0, <1>3 DEF Restart
<1>4. CASE EStopWorker \/ ConfirmManualCheck \/ NoticeExpiry
    BY <1>0, <1>4 DEF EStopWorker, ConfirmManualCheck, NoticeExpiry, Gate!EmergencyStop,
       Gate!ConfirmManualCheck, Gate!Expire, Gate!Boundary, gate
<1>5. CASE Worker
    BY <1>0, <1>5 DEF Worker, WorkerBegin, WorkerDrop, WorkerBeginStop, WorkerEnd, Gate!Begin, Gate!Drop,
       Gate!BeginStop, Gate!End
<1> QED
    BY <1>1, <1>2, <1>3, <1>4, <1>5, Steps DEF Outside

\* Only the owner hands in commands.
LEMMA LiveMoves ==
    ASSUME TypeOK, [Next]_vars, NEW f \in Flow
    PROVE  \A c \in live' : c \in live \/ c[1][1] # f \/ owner = f
<1>1. ASSUME NEW g \in Flow, Execute(g)
      PROVE  \A c \in live' : c \in live \/ c[1][1] # f \/ owner = f
    <2>1. CASE TakeSession(g)
        BY <2>1 DEF TakeSession, GoTo, TypeOK, Executor, gate, Gate!Acquire, Gate!Boundary
    <2>2. CASE SubmitCommand(g)
        <3>1. CASE owner = g /\ Gate!HandIn(<<g, exec[g].n>>)
            <4>1. owner' = owner /\ live' = live \cup {<<<<g, exec[g].n>>, g>>}
                BY <3>1 DEF Gate!HandIn
            <4>2. <<<<g, exec[g].n>>, g>>[1][1] = g
                OBVIOUS
            <4> QED
                BY <3>1, <4>1, <4>2
        <3>2. CASE Gate!Expire({})
            BY <3>2 DEF Gate!Expire
        <3>3. CASE UNCHANGED gate
            BY <3>3 DEF gate
        <3> QED
            BY <2>2, <3>1, <3>2, <3>3 DEF SubmitCommand
    <2>3. CASE Manual(g) \/ Release(g)
        BY <2>3 DEF Manual, Release, Gate!RequireManualCheck, Gate!Release, Gate!Boundary, gate
    <2>4. CASE \/ Start(g) \/ Head(g) \/ Decide(g) \/ SecondGuard(g) \/ Collect(g)
               \/ RecordSnapshot(g) \/ RecordStep(g) \/ Finish(g) \/ BeginRestore(g)
               \/ RecordRestore(g)
        BY <2>4 DEF Start, Head, Decide, SecondGuard, Collect, RecordSnapshot,
           RecordStep, Finish, BeginRestore, RecordRestore, gate
    <2> QED
        BY <1>1, <2>1, <2>2, <2>3, <2>4 DEF Execute
<1>2. CASE \/ \E g \in Flow : \/ Create(g) \/ ApproveFlow(g) \/ StopFlow(g)
                              \/ DeadlinePasses(g) \/ ReapRelease(g)
           \/ \E g \in Flow, r \in Grounds : Lose(g, r)
           \/ EStopOwner \/ EStopRow \/ Reap \/ UNCHANGED vars
    BY <1>2 DEF Create, ApproveFlow, StopFlow, DeadlinePasses, ReapRelease, Lose, EStopOwner,
       EStopRow, Reap, vars, gate, Gate!Lapse, Gate!Release, Gate!Boundary
<1>3. CASE Restart
    BY <1>3 DEF Restart
<1>4. CASE EStopWorker \/ ConfirmManualCheck \/ NoticeExpiry
    BY <1>4 DEF EStopWorker, ConfirmManualCheck, NoticeExpiry, Gate!EmergencyStop,
       Gate!ConfirmManualCheck, Gate!Expire, Gate!Boundary, gate
<1>5. CASE Worker
    BY <1>5 DEF Worker, WorkerBegin, WorkerDrop, WorkerBeginStop, WorkerEnd, Gate!Begin, Gate!Drop,
       Gate!BeginStop, Gate!End
<1> QED
    BY <1>1, <1>2, <1>3, <1>4, <1>5, Steps DEF Outside

-----------------------------------------------------------------------------
(* The moves of an executor, one by one.                                   *)

\* A run ends: what is left of it is where finish returns to.
Ends(f) ==
    /\ Head(f) \/ Decide(f) \/ RecordSnapshot(f) \/ RecordStep(f)
    /\ exec'[f].pc = "finish" /\ exec'[f].exit = exec[f].exit /\ exec'[f].n = Snapshot

\* Where an executor was and where it goes.
Shape(f) ==
    \/ TakeSession(f) /\ exec'[f].pc = "start" /\ Keeps(f)
    \/ TakeSession(f) /\ exec'[f].pc = "finish" /\ exec'[f].exit = "gone"
    \/ TakeSession(f) /\ exec'[f].pc = "gone" /\ exec'[f].n = Snapshot
    \/ Start(f) /\ exec'[f].pc = "submit" /\ exec'[f].n = exec[f].n
    \/ Start(f) /\ exec'[f].pc = "release" /\ Keeps(f)
    \/ Ends(f)
    \/ Head(f) /\ exec'[f].pc = "decide"
    \/ Decide(f) /\ exec'[f].pc = "guard" /\ exec'[f].late = AuthorityGone(f) /\ exec'[f].n = exec[f].n
    \/ SecondGuard(f) /\ exec'[f].pc = "submit" /\ Fit(f) /\ Keeps(f)
    \/ /\ SecondGuard(f) \/ SubmitCommand(f) \/ Collect(f)
       /\ exec'[f].pc = "record" /\ Keeps(f)
       /\ exec'[f].err = "" => At(f, "wait") /\ answer[f] = "ok"
    \/ SubmitCommand(f) /\ exec'[f].pc = "wait" /\ Keeps(f) /\ answer'[f] = "none"
    \/ /\ Collect(f) /\ exec'[f].pc = "manual" /\ exec'[f].next = "record"
       /\ exec'[f].n = exec[f].n /\ exec'[f].err = "other"
    \/ RecordSnapshot(f) /\ exec'[f].pc = "head"
    \/ RecordStep(f) /\ exec'[f].pc = "head"
    \/ RecordStep(f) /\ exec'[f].pc = "manual" /\ exec'[f].next = "finish"
    \/ Finish(f) /\ exec'[f].pc = exec[f].exit /\ exec'[f].n = Snapshot
    \/ /\ Finish(f) /\ exec'[f].pc = "manual" /\ exec'[f].next = exec[f].exit
       /\ exec'[f].n = Snapshot
    \/ /\ Manual(f) /\ exec'[f].pc = exec[f].next /\ Keeps(f) /\ exec'[f].err = exec[f].err
    \/ BeginRestore(f) /\ exec'[f].pc = "submit" /\ exec'[f].n = Restore /\ owner = f
    \/ BeginRestore(f) /\ exec'[f].pc = "release" /\ Keeps(f) /\ owner # f
    \/ RecordRestore(f) /\ exec'[f].pc = "release" /\ Keeps(f)
    \/ /\ RecordRestore(f) /\ exec'[f].pc = "manual" /\ exec'[f].next = "release"
       /\ exec'[f].n = Snapshot
    \/ Release(f) /\ exec'[f].pc = "gone" /\ exec'[f].n = Snapshot

\* An executor takes one of these moves and no other.
LEMMA ExecuteShape ==
    ASSUME TypeOK, PlaceInv, NEW f \in Flow, Execute(f)
    PROVE  Shape(f)
<1>0. exec \in [Flow -> Executor] /\ exec[f] \in Executor /\ Placed(exec[f])
    BY DEF TypeOK, PlaceInv
<1>1. \A place \in {"finish", "gone", "release", "start", "decide", "submit", "restore"} : place \in Pc
    BY DEF Pc
<1>2. "" \in RunError /\ "other" \in RunError /\ "timeout" \in RunError /\ "failed" \in Verdict /\ "completed" \in Verdict
    BY DEF RunError, Verdict
<1>3. ASSUME NEW v \in Verdict, EndWith(f, v), Head(f) \/ Decide(f) \/ RecordSnapshot(f) \/ RecordStep(f)
      PROVE  Ends(f)
    BY <1>0, <1>3, EndWithMoves DEF Blank, Ends
<1>4. CASE TakeSession(f)
    <2>1. CASE GoTo(f, "start")
        <3>1. exec'[f].pc = "start" /\ Keeps(f)
            BY <1>0, <1>1, <2>1, GoToMoves
        <3> QED
            BY <1>4, <3>1 DEF Shape
    <2>2. CASE exec' = [exec EXCEPT ![f] = [@ EXCEPT !.pc = "finish", !.verdict = "failed", !.exit = "gone"]]
        <3>1. exec'[f].pc = "finish" /\ exec'[f].exit = "gone"
            BY <1>0, <2>2, RefusedMoves
        <3> QED
            BY <1>4, <3>1 DEF Shape
    <2>3. CASE exec' = [exec EXCEPT ![f] = NoExecutor]
        <3>1. exec'[f].pc = "gone" /\ exec'[f].n = Snapshot
            BY <1>0, <2>3, GoneMoves DEF NoExecutor
        <3> QED
            BY <1>4, <3>1 DEF Shape
    <2> QED
        BY <1>4, <2>1, <2>2, <2>3 DEF TakeSession
<1>5. CASE Start(f)
    <2>1. CASE exec' = [exec EXCEPT ![f] = [@ EXCEPT !.pc = "submit", !.exit = "release"]]
        <3>1. exec'[f].pc = "submit" /\ exec'[f].n = exec[f].n
            BY <1>0, <2>1, StartedMoves
        <3> QED
            BY <1>5, <3>1 DEF Shape
    <2>2. CASE GoTo(f, "release")
        <3>1. exec'[f].pc = "release" /\ Keeps(f)
            BY <1>0, <1>1, <2>2, GoToMoves
        <3> QED
            BY <1>5, <3>1 DEF Shape
    <2> QED
        BY <1>5, <2>1, <2>2 DEF Start
<1>6. CASE Head(f)
    <2>1. CASE GoTo(f, "decide")
        <3>1. exec'[f].pc = "decide"
            BY <1>0, <1>1, <2>1, GoToMoves
        <3> QED
            BY <1>6, <3>1 DEF Shape
    <2>2. CASE EndWith(f, GuardVerdict(GuardError(f))) \/ EndWith(f, "failed")
        <3>1. Ends(f)
            BY <1>2, <1>3, <1>6, <2>2, VerdictType
        <3> QED
            BY <3>1 DEF Shape
    <2> QED
        BY <1>6, <2>1, <2>2 DEF Head
<1>7. CASE Decide(f)
    <2>1. CASE exec' = [exec EXCEPT ![f] = [@ EXCEPT !.pc = "guard", !.late = AuthorityGone(f), !.sent = FALSE]]
        <3>1. AuthorityGone(f) \in BOOLEAN
            BY DEF AuthorityGone, TypeOK
        <3>2. exec'[f].pc = "guard" /\ exec'[f].late = AuthorityGone(f) /\ exec'[f].n = exec[f].n
            BY <1>0, <2>1, <3>1, DecidedMoves
        <3> QED
            BY <1>7, <3>2 DEF Shape
    <2>2. CASE EndWith(f, "completed") \/ EndWith(f, "failed")
        <3>1. Ends(f)
            BY <1>2, <1>3, <1>7, <2>2
        <3> QED
            BY <3>1 DEF Shape
    <2> QED
        BY <1>7, <2>1, <2>2 DEF Decide
<1>8. CASE SecondGuard(f)
    <2>1. CASE Fit(f) /\ GoTo(f, "submit")
        <3>1. exec'[f].pc = "submit" /\ Keeps(f)
            BY <1>0, <1>1, <2>1, GoToMoves
        <3> QED
            BY <1>8, <2>1, <3>1 DEF Shape
    <2>2. ASSUME NEW error \in RunError \ {""}, Ran(f, error)
          PROVE  Shape(f)
        <3>1. exec'[f].pc = "record" /\ Keeps(f) /\ exec'[f].err # ""
            BY <1>0, <2>2, RanMoves
        <3> QED
            BY <1>8, <3>1 DEF Shape
    <2>3. GuardError(f) \in RunError \ {""} /\ "other" \in RunError \ {""}
        BY DEF GuardError, RunError
    <2> QED
        BY <1>8, <2>1, <2>2, <2>3 DEF SecondGuard
<1>9. CASE SubmitCommand(f)
    <2>1. CASE /\ exec' = [exec EXCEPT ![f] = [@ EXCEPT !.pc = "wait", !.sent = TRUE]]
               /\ answer' = [answer EXCEPT ![f] = "none"]
        <3>1. exec'[f].pc = "wait" /\ Keeps(f)
            BY <1>0, <2>1, SentMoves
        <3>2. answer'[f] = "none"
            BY <2>1 DEF TypeOK
        <3> QED
            BY <1>9, <3>1, <3>2 DEF Shape
    <2>2. CASE Ran(f, "other")
        <3>1. exec'[f].pc = "record" /\ Keeps(f) /\ exec'[f].err = "other"
            BY <1>0, <1>2, <2>2, RanMoves
        <3> QED
            BY <1>9, <3>1 DEF Shape
    <2> QED
        BY <1>9, <2>1, <2>2 DEF SubmitCommand
<1>10. CASE Collect(f)
    <2>1. ASSUME NEW error \in RunError, Ran(f, error), error = "" => answer[f] = "ok"
          PROVE  Shape(f)
        <3>1. exec'[f].pc = "record" /\ Keeps(f) /\ exec'[f].err = error
            BY <1>0, <2>1, RanMoves
        <3>2. At(f, "wait")
            BY <1>10 DEF Collect
        <3> QED
            BY <1>10, <2>1, <3>1, <3>2 DEF Shape
    <2>2. CASE exec' = [exec EXCEPT ![f] = [@ EXCEPT !.pc = "manual", !.next = "record", !.err = "other"]]
        <3>1. /\ exec'[f].pc = "manual" /\ exec'[f].next = "record" /\ exec'[f].err = "other"
              /\ exec'[f].n = exec[f].n
            BY <1>0, <2>2, UnloggedMoves
        <3> QED
            BY <1>10, <3>1 DEF Shape
    <2> QED
        BY <1>2, <1>10, <2>1, <2>2 DEF Collect
<1>11. CASE RecordSnapshot(f)
    <2>1. CASE exec' = [exec EXCEPT ![f] = [NoExecutor EXCEPT !.pc = "head", !.n = 1, !.exit = "restore"]]
        <3>1. exec'[f].pc = "head"
            BY <1>0, <2>1, SnapshotMoves
        <3> QED
            BY <1>11, <3>1 DEF Shape
    <2>2. CASE EndWith(f, "failed")
        <3>1. Ends(f)
            BY <1>2, <1>3, <1>11, <2>2
        <3> QED
            BY <3>1 DEF Shape
    <2> QED
        BY <1>11, <2>1, <2>2 DEF RecordSnapshot
<1>12. CASE RecordStep(f)
    <2>0. exec[f].n <= MaxCommands /\ exec[f].n >= 1 /\ exec[f].points < Points
        <3>1. exec[f].n \in Int
            BY <1>0, Numbers DEF Executor
        <3> QED
            BY <1>0, <1>12, <3>1, Numbers DEF RecordStep, At, Placed, Commanding
    <2>1. CASE EndWith(f, "failed") \/ EndWith(f, GuardVerdict(exec[f].err))
        <3>1. Ends(f)
            BY <1>2, <1>3, <1>12, <2>1, VerdictType
        <3> QED
            BY <3>1 DEF Shape
    <2>2. CASE exec'[f].pc = "head"
        BY <1>12, <2>2 DEF Shape
    <2>3. CASE exec' = [exec EXCEPT ![f] = [@ EXCEPT !.pc = "manual", !.next = "finish", !.verdict = "failed"]]
        <3>1. exec'[f].pc = "manual" /\ exec'[f].next = "finish"
            BY <1>0, <2>3, UnrecordedMoves
        <3> QED
            BY <1>12, <3>1 DEF Shape
    <2>4. AfterStep(f) => EndWith(f, "failed") \/ EndWith(f, GuardVerdict(exec[f].err)) \/ exec'[f].pc = "head"
        BY <1>0, <2>0, AfterStepMoves
    <2> QED
        BY <1>12, <2>1, <2>2, <2>3, <2>4 DEF RecordStep
<1>13. CASE Finish(f)
    <2>0. exec[f].exit \in Pc
        BY <1>0 DEF Executor
    <2>1. CASE Unwind(f)
        <3>1. exec'[f].pc = exec[f].exit /\ exec'[f].n = Snapshot
            BY <1>0, <2>1, UnwindMoves DEF Blank
        <3> QED
            BY <1>13, <3>1 DEF Shape
    <2>2. CASE DemandCheck(f, exec[f].exit)
        <3>1. exec'[f].pc = "manual" /\ exec'[f].next = exec[f].exit /\ exec'[f].n = Snapshot
            BY <1>0, <2>0, <2>2, DemandCheckMoves DEF Blank
        <3> QED
            BY <1>13, <3>1 DEF Shape
    <2> QED
        BY <1>13, <2>1, <2>2 DEF Finish
<1>14. CASE Manual(f)
    <2>1. exec[f].next \in Pc
        BY <1>0 DEF Executor
    <2>2. exec'[f].pc = exec[f].next /\ Keeps(f) /\ exec'[f].err = exec[f].err
        BY <1>0, <1>14, <2>1, GoToMoves DEF Manual
    <2> QED
        BY <1>14, <2>2 DEF Shape
<1>15. CASE BeginRestore(f)
    <2>1. CASE owner = f
        <3>1. exec' = [exec EXCEPT ![f] = [@ EXCEPT !.pc = "submit", !.n = Restore]]
            BY <1>15, <2>1 DEF BeginRestore
        <3>2. exec'[f].pc = "submit" /\ exec'[f].n = Restore
            BY <1>0, <3>1, RestoringMoves
        <3> QED
            BY <1>15, <2>1, <3>2 DEF Shape
    <2>2. CASE owner # f
        <3>1. exec'[f].pc = "release" /\ Keeps(f)
            BY <1>0, <1>1, <1>15, <2>2, GoToMoves DEF BeginRestore
        <3> QED
            BY <1>15, <2>2, <3>1 DEF Shape
    <2> QED
        BY <2>1, <2>2
<1>16. CASE RecordRestore(f)
    <2>1. CASE GoTo(f, "release")
        <3>1. exec'[f].pc = "release" /\ Keeps(f)
            BY <1>0, <1>1, <2>1, GoToMoves
        <3> QED
            BY <1>16, <3>1 DEF Shape
    <2>2. CASE DemandCheck(f, "release")
        <3>1. exec'[f].pc = "manual" /\ exec'[f].next = "release" /\ exec'[f].n = Snapshot
            BY <1>0, <1>1, <2>2, DemandCheckMoves DEF Blank
        <3> QED
            BY <1>16, <3>1 DEF Shape
    <2> QED
        BY <1>16, <2>1, <2>2 DEF RecordRestore
<1>17. CASE Release(f)
    <2>1. exec'[f] = NoExecutor
        BY <1>0, <1>17, GoneMoves DEF Release
    <2>2. NoExecutor.pc = "gone" /\ NoExecutor.n = Snapshot
        BY DEF NoExecutor
    <2> QED
        BY <1>17, <2>1, <2>2 DEF Shape
<1> QED
    BY <1>4, <1>5, <1>6, <1>7, <1>8, <1>9, <1>10, <1>11, <1>12, <1>13, <1>14, <1>15, <1>16, <1>17
    DEF Execute

\* No step of an executor comes back to the launch, and the session is taken only there.
LEMMA LaunchedOnlyByApproval ==
    ASSUME TypeOK, PlaceInv, NEW f \in Flow, Execute(f)
    PROVE  /\ exec'[f].pc # "launched"
           /\ exec'[f].pc = "start" => At(f, "launched")
<1>1. Placed(exec[f])
    BY DEF PlaceInv
<1>2. Finish(f) => exec[f].exit \in {"gone", "release", "restore"}
    BY <1>1 DEF Placed
<1>3. Manual(f) => exec[f].next \in {"record", "finish", "gone", "release", "restore"}
    BY <1>1 DEF Manual, At, Placed
<1>4. TakeSession(f) => At(f, "launched")
    BY DEF TakeSession
<1> QED
    BY <1>2, <1>3, <1>4, ExecuteShape DEF Shape, Ends

-----------------------------------------------------------------------------
(* Who has the instrument.                                                 *)

\* A row that was not approved or was interrupted has no executor, and no past.
LEMMA RowStep ==
    ASSUME TypeOK, PlaceInv, RowInv, OwnerInv, [Next]_vars
    PROVE  RowInv'
<1> SUFFICES ASSUME NEW f \in Flow
             PROVE  /\ status'[f] \in {"none", "awaiting_approval"} =>
                          exec'[f].pc = "gone" /\ f \notin killed' /\ overrun'[f] = 0
                    /\ status'[f] = "interrupted" => exec'[f].pc = "gone"
    BY DEF RowInv, At
<1>0. /\ status[f] \in {"none", "awaiting_approval"} =>
            At(f, "gone") /\ f \notin killed /\ overrun[f] = 0
      /\ status[f] = "interrupted" => At(f, "gone")
    BY DEF RowInv
<1>1. exec[f].verdict \in Verdict /\ NoExecutor.pc = "gone"
    BY DEF TypeOK, Executor, NoExecutor
<1>2. status'[f] \in {"none", "awaiting_approval"} => status[f] \in {"none", "awaiting_approval"}
    BY <1>1, RowMoves DEF Verdict
<1>3. status'[f] \in {"none", "awaiting_approval"} => ~ApproveFlow(f)
    BY DEF ApproveFlow, SetRow, TypeOK
<1>4. ASSUME status'[f] \in {"none", "awaiting_approval"}
      PROVE  exec'[f].pc = "gone"
    BY <1>0, <1>1, <1>2, <1>3, <1>4, ExecMoves, ExecuteRow DEF At
<1>5. status'[f] = "interrupted" =>
          \/ Restart /\ exec'[f] = NoExecutor
          \/ status[f] = "interrupted"
    BY <1>1, RowMoves DEF Verdict, Restart
<1>6. ASSUME status'[f] = "interrupted"
      PROVE  exec'[f].pc = "gone"
    <2>1. ApproveFlow(f) => status'[f] = "queued"
        BY DEF ApproveFlow, SetRow, TypeOK
    <2> QED
        BY <1>0, <1>1, <1>5, <1>6, <2>1, ExecMoves, ExecuteRow DEF At
<1>7. ASSUME status'[f] \in {"none", "awaiting_approval"}
      PROVE  f \notin killed' /\ overrun'[f] = 0
    <2>1. At(f, "gone") /\ f \notin killed /\ overrun[f] = 0 /\ owner # f
        BY <1>0, <1>2, <1>7 DEF OwnerInv, At
    <2>2. ASSUME NEW g \in Flow, Execute(g)
          PROVE  f \notin killed' /\ overrun'[f] = 0
        <3>1. g # f /\ UNCHANGED killed
            BY <2>1, <2>2, ExecuteRow
        <3>2. overrun'[f] = overrun[f]
            BY <2>2, <3>1 DEF Execute, TakeSession, Start, Head, Decide, SecondGuard, SubmitCommand,
               Collect, RecordSnapshot, RecordStep, Finish, Manual, BeginRestore, RecordRestore,
               Release, executorOnly, history, TypeOK
        <3> QED
            BY <2>1, <3>1, <3>2
    <2>3. CASE EStopWorker
        BY <2>1, <2>3 DEF EStopWorker
    <2>4. CASE Outside /\ ~EStopWorker
        BY <2>1, <2>4 DEF Outside, Create, StopFlow, DeadlinePasses, ReapRelease, Lose, EStopOwner,
           ConfirmManualCheck, NoticeExpiry, EStopRow, Worker, WorkerBegin, WorkerDrop,
           WorkerBeginStop, WorkerEnd, workerOnly, Reap, vars, history
    <2>5. CASE Restart \/ \E g \in Flow : ApproveFlow(g)
        BY <2>1, <2>5 DEF Restart, ApproveFlow, history
    <2> QED
        BY <2>2, <2>3, <2>4, <2>5, Steps
<1> QED
    BY <1>4, <1>6, <1>7

\* The executor of the flow that has the instrument is not over and will give it back.
LEMMA OwnerStep ==
    ASSUME TypeOK, PlaceInv, RowInv, OwnerInv, [Next]_vars
    PROVE  OwnerInv'
<1> SUFFICES ASSUME NEW f \in Flow, owner' = f
             PROVE  /\ exec'[f].pc \notin {"gone", "launched"}
                    /\ exec'[f].pc = "finish" => exec'[f].exit # "gone"
    BY DEF OwnerInv, At
<1>0. f # NoOwner /\ exec \in [Flow -> Executor] /\ Placed(exec[f])
    BY FlowConstants DEF TypeOK, PlaceInv
<1>1. CASE TakeSession(f) /\ exec'[f].pc = "start"
    BY <1>1
<1>2. CASE owner = f
    <2>0. /\ exec[f].pc \notin {"gone", "launched"}
          /\ exec[f].pc = "finish" => exec[f].exit # "gone"
        BY <1>2 DEF OwnerInv, At
    <2>1. CASE exec'[f] = exec[f]
        BY <2>0, <2>1
    <2>2. CASE ApproveFlow(f)
        BY <2>0, <2>2 DEF ApproveFlow, RowInv, At
    <2>3. CASE Restart
        BY <1>0, <2>3 DEF Restart
    <2>4. CASE Execute(f)
        <3>1. ~TakeSession(f) /\ ~Manual(f) /\ ~Release(f)
            BY <1>0, <1>2, <2>0 DEF TakeSession, At, Manual, Release, Gate!RequireManualCheck,
               Gate!Release, Gate!Boundary
        <3>2. Ends(f) => exec[f].exit # "gone"
            <4>1. exec[f].n \in Int
                BY <1>0, Numbers DEF TypeOK, Executor
            <4>2. Head(f) \/ Decide(f) \/ RecordStep(f) => exec[f].n >= 1
                BY <1>0, <4>1 DEF Head, Decide, RecordStep, At, Placed
            <4>3. exec[f].n >= 1 => exec[f].exit = "restore"
                BY <1>0 DEF Placed
            <4>4. RecordSnapshot(f) => exec[f].exit = "release"
                BY <1>0 DEF RecordSnapshot, At, Placed, Commanding
            <4> QED
                BY <4>2, <4>3, <4>4 DEF Ends
        <3>3. Finish(f) => exec[f].exit # "gone" /\ exec[f].exit \in {"gone", "release", "restore"}
            BY <1>0, <2>0 DEF Finish, At, Placed
        <3> QED
            BY <2>4, <3>1, <3>2, <3>3, ExecuteShape DEF Shape, Ends
    <2> QED
        BY <2>1, <2>2, <2>3, <2>4, ExecMoves
<1> QED
    BY <1>1, <1>2, OwnerMoves

\* A flow an emergency stop took the instrument from does not get it again.
LEMMA KilledStep ==
    ASSUME TypeOK, PlaceInv, RowInv, OwnerInv, KilledInv, [Next]_vars
    PROVE  KilledInv'
<1> SUFFICES ASSUME NEW f \in killed'
             PROVE  /\ owner' # f /\ (\A c \in live' : c[1][1] # f)
                    /\ exec'[f].pc # "launched"
    BY DEF KilledInv, At
<1>1. CASE EStopWorker /\ killed' # killed
    <2>1. owner' = NoOwner /\ live' = {} /\ exec' = exec
        BY <1>1 DEF EStopWorker, Gate!EmergencyStop, Gate!Boundary
    <2>2. f \in Flow /\ f # NoOwner
        BY <1>1, FlowConstants DEF EStopWorker, TypeOK, Gate!GateTypeOK
    <2>3. CASE f \in killed
        BY <2>1, <2>2, <2>3 DEF KilledInv, At
    <2>4. CASE f = owner
        BY <2>1, <2>2, <2>4 DEF OwnerInv
    <2> QED
        BY <1>1, <2>3, <2>4 DEF EStopWorker
<1>2. CASE killed' = killed
    <2>1. f \in Flow /\ f \in killed /\ owner # f /\ (\A c \in live : c[1][1] # f) /\ ~At(f, "launched")
        BY <1>2 DEF KilledInv, TypeOK
    <2>2. ~ApproveFlow(f) /\ ~TakeSession(f)
        BY <2>1 DEF ApproveFlow, TakeSession, RowInv
    <2>3. owner' # f /\ \A c \in live' : c[1][1] # f
        BY <2>1, <2>2, OwnerMoves, LiveMoves
    <2>4. exec'[f].pc # "launched"
        <3>0. NoExecutor.pc = "gone"
            BY DEF NoExecutor
        <3>1. CASE Execute(f)
            BY <2>1, <3>1, LaunchedOnlyByApproval
        <3> QED
            BY <2>1, <2>2, <3>0, <3>1, ExecMoves DEF At
    <2> QED
        BY <2>3, <2>4
<1>3. killed' = killed \/ EStopWorker
    <2>1. ASSUME NEW g \in Flow, Execute(g)
          PROVE  killed' = killed
        BY <2>1, ExecuteRow
    <2>2. Outside => killed' = killed \/ EStopWorker
        BY DEF Outside, Create, StopFlow, DeadlinePasses, ReapRelease, Lose, EStopOwner,
           ConfirmManualCheck, NoticeExpiry, EStopRow, Worker, WorkerBegin, WorkerDrop,
           WorkerBeginStop, WorkerEnd, workerOnly, Reap, vars, history
    <2>3. Restart \/ (\E g \in Flow : ApproveFlow(g)) => killed' = killed
        BY DEF Restart, ApproveFlow, history
    <2> QED
        BY <2>1, <2>2, <2>3, Steps
<1> QED
    BY <1>1, <1>2, <1>3

-----------------------------------------------------------------------------
(* What an executor does after its flow lost its authority.                *)

\* Authority once gone does not come back, but for the flow that is just starting.
LEMMA AuthorityStaysGone ==
    ASSUME TypeOK, PlaceInv, [Next]_vars, NEW f \in Flow, AuthorityGone(f), ~At(f, "start")
    PROVE  AuthorityGone(f)'
<1>1. exec[f].verdict \in Verdict /\ exec[f].verdict # "running"
    BY DEF TypeOK, Executor, Verdict
<1>2. status[f] # "running" => status'[f] # "running"
    BY <1>1, RowMoves
<1>3. (stopReq[f] => stopReq'[f]) /\ (expired[f] => expired'[f]) /\ lost[f] \subseteq lost'[f]
    BY RowMoves
<1> QED
    BY <1>2, <1>3 DEF AuthorityGone

\* What the flow lost before the model answered keeps its command from being sent.
LEMMA LateStep ==
    ASSUME TypeOK, PlaceInv, RowInv, LateInv, [Next]_vars
    PROVE  LateInv'
<1> SUFFICES ASSUME NEW f \in Flow
             PROVE  /\ exec'[f].pc = "guard" /\ exec'[f].late => AuthorityGone(f)'
                    /\ exec'[f].pc \in {"submit", "wait"} /\ exec'[f].n >= 1 => ~exec'[f].late
    BY DEF LateInv, At
<1>0. /\ At(f, "guard") /\ exec[f].late => AuthorityGone(f)
      /\ exec[f].pc \in {"submit", "wait"} /\ exec[f].n >= 1 => ~exec[f].late
    BY DEF LateInv
<1>1. CASE exec'[f] = exec[f]
    BY <1>0, <1>1, AuthorityStaysGone DEF At
<1>2. CASE ApproveFlow(f) /\ exec'[f].pc = "launched"
    BY <1>2
<1>3. CASE exec'[f] = NoExecutor
    <2>1. NoExecutor.pc = "gone"
        BY DEF NoExecutor
    <2> QED
        BY <1>3, <2>1
<1>4. CASE Execute(f)
    <2>0. Placed(exec[f])
        BY DEF PlaceInv
    <2>1. exec[f].exit \in {"gone", "release", "restore"}
        BY <2>0 DEF Placed
    <2>2. Manual(f) => exec[f].next \in {"record", "finish", "gone", "release", "restore"}
        BY <2>0 DEF Manual, At, Placed
    <2>3. ASSUME exec'[f].pc = "guard", exec'[f].late
          PROVE  AuthorityGone(f)'
        <3>1. Decide(f) /\ AuthorityGone(f)
            BY <1>4, <2>1, <2>2, <2>3, ExecuteShape DEF Shape, Ends
        <3>2. ~At(f, "start")
            BY <3>1 DEF Decide, At
        <3> QED
            BY <3>1, <3>2, AuthorityStaysGone
    <2>4. ASSUME exec'[f].pc \in {"submit", "wait"}, exec'[f].n >= 1
          PROVE  ~exec'[f].late
        <3>1. \/ SecondGuard(f) /\ Fit(f) /\ Keeps(f)
              \/ SubmitCommand(f) /\ Keeps(f)
              \/ Start(f) /\ exec'[f].n = exec[f].n
              \/ exec'[f].n = Restore
            BY <1>4, <2>1, <2>2, <2>4, ExecuteShape DEF Shape, Ends
        <3>2. CASE SecondGuard(f) /\ Fit(f) /\ Keeps(f)
            <4>1. At(f, "guard") /\ ~AuthorityGone(f)
                BY <3>2 DEF SecondGuard, Fit, AuthorityGone
            <4>2. ~exec[f].late
                BY <1>0, <4>1
            <4> QED
                BY <3>2, <4>2 DEF Keeps
        <3>3. CASE SubmitCommand(f) /\ Keeps(f)
            BY <1>0, <2>4, <3>3 DEF SubmitCommand, At, Keeps
        <3>4. CASE Start(f) /\ exec'[f].n = exec[f].n
            BY <2>0, <2>4, <3>4, Numbers DEF Start, At, Placed
        <3>5. CASE exec'[f].n = Restore
            BY <2>4, <3>5, Numbers
        <3> QED
            BY <3>1, <3>2, <3>3, <3>4, <3>5
    <2> QED
        BY <2>3, <2>4
<1> QED
    BY <1>1, <1>2, <1>3, <1>4, ExecMoves

\* Only the flow that hands in a step after its authority is gone is counted.
LEMMA OverrunMoves ==
    ASSUME TypeOK, [Next]_vars, NEW f \in Flow
    PROVE  \/ overrun'[f] = overrun[f]
           \/ /\ SubmitCommand(f) /\ overrun'[f] = overrun[f] + 1
              /\ exec[f].n > 0 /\ AuthorityGone(f) /\ exec'[f].pc = "wait"
<1>0. overrun \in [Flow -> Nat] /\ exec \in [Flow -> Executor]
    BY DEF TypeOK
<1>1. ASSUME NEW g \in Flow, SubmitCommand(g)
      PROVE  \/ overrun'[f] = overrun[f]
             \/ /\ SubmitCommand(f) /\ overrun'[f] = overrun[f] + 1
                /\ exec[f].n > 0 /\ AuthorityGone(f) /\ exec'[f].pc = "wait"
    <2>1. CASE UNCHANGED overrun
        BY <2>1
    <2>2. CASE /\ exec' = [exec EXCEPT ![g] = [@ EXCEPT !.pc = "wait", !.sent = TRUE]]
               /\ overrun' = [overrun EXCEPT ![g] = @ + IF exec[g].n > 0 /\ AuthorityGone(g) THEN 1 ELSE 0]
        <3>1. CASE f # g
            BY <1>0, <2>2, <3>1
        <3>2. CASE f = g
            <4>1. exec'[f].pc = "wait"
                BY <1>0, <2>2, <3>2, SentMoves
            <4>2. CASE exec[f].n > 0 /\ AuthorityGone(f)
                <5>1. overrun'[f] = overrun[f] + 1
                    BY <1>0, <2>2, <3>2, <4>2
                <5> QED
                    BY <1>1, <3>2, <4>1, <4>2, <5>1
            <4>3. CASE ~(exec[f].n > 0 /\ AuthorityGone(f))
                BY <1>0, <2>2, <3>2, <4>3
            <4> QED
                BY <4>2, <4>3
        <3> QED
            BY <3>1, <3>2
    <2> QED
        BY <1>1, <2>1, <2>2 DEF SubmitCommand
<1>2. ASSUME NEW g \in Flow, Execute(g), ~SubmitCommand(g)
      PROVE  overrun' = overrun
    BY <1>2 DEF Execute, TakeSession, Start, Head, Decide, SecondGuard, Collect, RecordSnapshot,
       RecordStep, Finish, Manual, BeginRestore, RecordRestore, Release, executorOnly, history
<1>3. CASE Outside
    BY <1>3 DEF Outside, Create, StopFlow, DeadlinePasses, ReapRelease, Lose, EStopOwner,
       ConfirmManualCheck, NoticeExpiry, EStopWorker, EStopRow, Worker, WorkerBegin, WorkerDrop,
       WorkerBeginStop, WorkerEnd, workerOnly, Reap, vars, history
<1>4. CASE Restart \/ \E g \in Flow : ApproveFlow(g)
    BY <1>4 DEF Restart, ApproveFlow, history
<1> QED
    BY <1>1, <1>2, <1>3, <1>4, Steps

\* After the one step that had passed preSendGuard, no other does.
LEMMA StopStep ==
    ASSUME TypeOK, PlaceInv, RowInv, StopInv, [Next]_vars
    PROVE  StopInv'
<1> SUFFICES ASSUME NEW f \in Flow
             PROVE  \/ overrun'[f] = 0
                    \/ /\ overrun'[f] = 1 /\ AuthorityGone(f)'
                       /\ exec'[f].pc \notin {"launched", "start"}
                       /\ exec'[f].pc = "submit" => exec'[f].n < 1
    BY DEF StopInv, At
<1>0. \/ overrun[f] = 0
      \/ /\ overrun[f] = 1 /\ AuthorityGone(f)
         /\ exec[f].pc \notin {"launched", "start"}
         /\ At(f, "submit") => exec[f].n < 1
    BY DEF StopInv
<1>1. CASE /\ SubmitCommand(f) /\ overrun'[f] = overrun[f] + 1
           /\ exec[f].n > 0 /\ AuthorityGone(f) /\ exec'[f].pc = "wait"
    <2>0. exec[f].n \in Int
        BY Numbers DEF TypeOK, Executor
    <2>1. At(f, "submit")
        BY <1>1 DEF SubmitCommand
    <2>2. overrun[f] = 0
        BY <1>0, <1>1, <2>0, <2>1
    <2>3. AuthorityGone(f)'
        BY <1>1, <2>1, AuthorityStaysGone DEF At
    <2> QED
        BY <1>1, <2>2, <2>3
<1>2. CASE overrun'[f] = overrun[f] /\ overrun[f] # 0
    <2>0. /\ overrun[f] = 1 /\ AuthorityGone(f)
          /\ exec[f].pc \notin {"launched", "start"}
          /\ At(f, "submit") => exec[f].n < 1
        BY <1>0, <1>2
    <2>1. AuthorityGone(f)'
        BY <2>0, AuthorityStaysGone DEF At
    <2>2. CASE exec'[f] = exec[f]
        BY <1>2, <2>0, <2>1, <2>2 DEF At
    <2>3. CASE ApproveFlow(f)
        BY <1>2, <2>3 DEF ApproveFlow, RowInv
    <2>4. CASE exec'[f] = NoExecutor
        <3>1. NoExecutor.pc = "gone"
            BY DEF NoExecutor
        <3> QED
            BY <1>2, <2>0, <2>1, <2>4, <3>1
    <2>5. CASE Execute(f)
        <3>0. Placed(exec[f])
            BY DEF PlaceInv
        <3>1. exec'[f].pc \notin {"launched", "start"}
            BY <2>0, <2>5, LaunchedOnlyByApproval DEF At
        <3>2. exec[f].exit # "submit" /\ (Manual(f) => exec[f].next # "submit")
            BY <3>0 DEF Placed, Manual, At
        <3>3. ~Fit(f) /\ ~Start(f)
            BY <2>0 DEF Fit, AuthorityGone, Start, At
        <3>4. ASSUME exec'[f].pc = "submit"
              PROVE  exec'[f].n = Restore
            BY <2>5, <3>2, <3>3, <3>4, ExecuteShape DEF Shape, Ends
        <3> QED
            BY <1>2, <2>0, <2>1, <3>1, <3>4, Numbers
    <2> QED
        BY <2>2, <2>3, <2>4, <2>5, ExecMoves
<1> QED
    BY <1>1, <1>2, OverrunMoves

-----------------------------------------------------------------------------
(* Why the frequency may not have been restored.                           *)

\* Which action an executor is about to take is a matter of its place.
LEMMA ActionOfPlace ==
    ASSUME NEW f \in Flow, Execute(f)
    PROVE  /\ At(f, "launched") => TakeSession(f)
           /\ At(f, "submit") => SubmitCommand(f)
           /\ At(f, "wait") => Collect(f)
           /\ At(f, "record") => RecordSnapshot(f) \/ RecordStep(f) \/ RecordRestore(f)
           /\ At(f, "finish") => Finish(f)
           /\ At(f, "manual") => Manual(f)
           /\ At(f, "restore") => BeginRestore(f)
           /\ At(f, "release") => Release(f)
BY DEF Execute, At, TakeSession, Start, Head, Decide, SecondGuard, SubmitCommand, Collect,
   RecordSnapshot, RecordStep, Finish, Manual, BeginRestore, RecordRestore, Release

\* Whoever has the instrument keeps it, gives it back, or is excused.
LEMMA OwnerLeaves ==
    ASSUME TypeOK, PlaceInv, OwnerInv, HeldInv, [Next]_vars, NEW f \in Flow, owner = f
    PROVE  owner' = f \/ Release(f) \/ Restart \/ f \in reported' \/ expired'[f]
<1>0. f # NoOwner /\ ~At(f, "gone") /\ ~At(f, "launched")
    BY FlowConstants DEF OwnerInv, At
<1>1. (lapsed => expired[f]) /\ (f \in reaping => expired[f]) /\ (expired[f] => expired'[f])
    BY RowMoves DEF HeldInv
<1>2. ASSUME NEW g \in Flow, Execute(g)
      PROVE  owner' = f \/ Release(f) \/ f \in reported' \/ expired'[f]
    <2>1. CASE TakeSession(g)
        BY <1>0, <1>1, <2>1 DEF TakeSession, Gate!Acquire, Gate!Boundary, gate, At
    <2>2. CASE SubmitCommand(g)
        BY <1>1, <2>2 DEF SubmitCommand, Gate!HandIn, Gate!Expire, gate
    <2>3. CASE Manual(g)
        BY <1>0, <2>3 DEF Manual
    <2>4. CASE Release(g)
        BY <2>4 DEF Release, Gate!Release, Gate!Boundary, gate
    <2>5. CASE \/ Start(g) \/ Head(g) \/ Decide(g) \/ SecondGuard(g) \/ Collect(g)
               \/ RecordSnapshot(g) \/ RecordStep(g) \/ Finish(g) \/ BeginRestore(g)
               \/ RecordRestore(g)
        BY <2>5 DEF Start, Head, Decide, SecondGuard, Collect, RecordSnapshot,
           RecordStep, Finish, BeginRestore, RecordRestore, gate
    <2> QED
        BY <1>2, <2>1, <2>2, <2>3, <2>4, <2>5 DEF Execute
<1>3. CASE \E g \in Flow : ReapRelease(g)
    BY <1>1, <1>3 DEF ReapRelease, gate
<1>4. CASE EStopWorker
    BY <1>0, <1>4 DEF EStopWorker, gate
<1>5. CASE NoticeExpiry
    BY <1>1, <1>5 DEF NoticeExpiry, Gate!Expire
<1>6. CASE \/ \E g \in Flow : Create(g) \/ ApproveFlow(g) \/ StopFlow(g) \/ DeadlinePasses(g)
           \/ \E g \in Flow, r \in Grounds : Lose(g, r)
           \/ EStopOwner \/ ConfirmManualCheck \/ EStopRow \/ Reap \/ UNCHANGED vars
    BY <1>6 DEF Create, ApproveFlow, StopFlow, DeadlinePasses, Lose, EStopOwner,
       ConfirmManualCheck, Gate!ConfirmManualCheck, EStopRow, Reap, vars, gate, Gate!Lapse
<1>7. CASE Worker
    BY <1>7 DEF Worker, WorkerBegin, WorkerDrop, WorkerBeginStop, WorkerEnd, Gate!Begin, Gate!Drop,
       Gate!BeginStop, Gate!End
<1> QED
    BY <1>2, <1>3, <1>4, <1>5, <1>6, <1>7, Steps DEF Outside

\* A session is up only when the deadline of the flow that has it has passed.
LEMMA LapsedStep ==
    ASSUME TypeOK, HeldInv, [Next]_vars, NEW f \in Flow, PlaceInv, lapsed', owner' = f
    PROVE  expired'[f]
<1>0. f # NoOwner /\ (lapsed /\ owner = f => expired[f]) /\ (expired[f] => expired'[f])
    BY FlowConstants, RowMoves DEF HeldInv
<1>1. CASE lapsed /\ owner = f
    BY <1>0, <1>1
<1>2. CASE ~(lapsed /\ owner = f)
    <2>1. ASSUME NEW g \in Flow, Execute(g)
          PROVE  FALSE
        <3>1. CASE TakeSession(g)
            BY <1>2, <3>1 DEF TakeSession, Gate!Acquire, Gate!Boundary, gate
        <3>2. CASE SubmitCommand(g)
            BY <1>2, <3>2 DEF SubmitCommand, Gate!HandIn, Gate!Expire, gate
        <3>3. CASE Manual(g) \/ Release(g)
            BY <1>2, <3>3 DEF Manual, Release, Gate!RequireManualCheck, Gate!Release, Gate!Boundary, gate
        <3>4. CASE \/ Start(g) \/ Head(g) \/ Decide(g) \/ SecondGuard(g) \/ Collect(g)
                   \/ RecordSnapshot(g) \/ RecordStep(g) \/ Finish(g) \/ BeginRestore(g)
                   \/ RecordRestore(g)
            BY <1>2, <3>4 DEF Start, Head, Decide, SecondGuard, Collect, RecordSnapshot,
               RecordStep, Finish, BeginRestore, RecordRestore, gate
        <3> QED
            BY <2>1, <3>1, <3>2, <3>3, <3>4 DEF Execute
    <2>2. ASSUME NEW g \in Flow, DeadlinePasses(g)
          PROVE  expired'[f]
        BY <1>0, <1>2, <2>2 DEF DeadlinePasses, Gate!Lapse, gate, TypeOK
    <2>3. CASE \/ \E g \in Flow : Create(g) \/ ApproveFlow(g) \/ StopFlow(g) \/ ReapRelease(g)
               \/ \E g \in Flow, r \in Grounds : Lose(g, r)
               \/ EStopOwner \/ EStopRow \/ Reap \/ UNCHANGED vars
        BY <1>2, <2>3 DEF Create, ApproveFlow, StopFlow, ReapRelease, Lose, EStopOwner, EStopRow,
           Reap, vars, gate, Gate!Release, Gate!Boundary
    <2>4. CASE EStopWorker \/ ConfirmManualCheck \/ NoticeExpiry \/ Restart
        BY <1>2, <2>4 DEF EStopWorker, ConfirmManualCheck, NoticeExpiry, Restart,
           Gate!EmergencyStop, Gate!ConfirmManualCheck, Gate!Expire, Gate!Boundary, gate
    <2>5. CASE Worker
        BY <1>2, <2>5 DEF Worker, WorkerBegin, WorkerDrop, WorkerBeginStop, WorkerEnd,
           Gate!Begin, Gate!Drop, Gate!BeginStop, Gate!End
    <2> QED
        BY <2>1, <2>2, <2>3, <2>4, <2>5, Steps DEF Outside
<1> QED
    BY <1>1, <1>2

\* Demands for a manual check are not forgotten, and the reaper takes overdue rows only.
LEMMA ReportedGrows ==
    ASSUME TypeOK, [Next]_vars
    PROVE  reported \subseteq reported' /\ (reaping' \subseteq reaping \/ \A f \in reaping' : expired[f])
<1>1. ASSUME NEW g \in Flow, Execute(g)
      PROVE  reported \subseteq reported' /\ UNCHANGED reaping
    BY <1>1 DEF Execute, TakeSession, Start, Head, Decide, SecondGuard, SubmitCommand, Collect,
       RecordSnapshot, RecordStep, Finish, Manual, BeginRestore, RecordRestore, Release,
       executorOnly, history
<1>2. CASE Reap
    BY <1>2 DEF Reap, history
<1>3. CASE Outside /\ ~Reap
    BY <1>3 DEF Outside, Create, StopFlow, DeadlinePasses, ReapRelease, Lose, EStopOwner,
       ConfirmManualCheck, NoticeExpiry, EStopWorker, EStopRow, Worker, WorkerBegin, WorkerDrop,
       WorkerBeginStop, WorkerEnd, workerOnly, vars, history
<1>4. CASE Restart \/ \E g \in Flow : ApproveFlow(g)
    BY <1>4 DEF Restart, ApproveFlow, history
<1> QED
    BY <1>1, <1>2, <1>3, <1>4, Steps

\* A flow past taking the instrument has it, is excused, or is on its way out.
LEMMA HeldStep ==
    ASSUME TypeOK, PlaceInv, RowInv, OwnerInv, HeldInv, [Next]_vars
    PROVE  HeldInv'
<1>1. lapsed' => \A f \in Flow : owner' = f => expired'[f]
    BY LapsedStep
<1>2. \A f \in reaping' : expired'[f]
    <2> SUFFICES ASSUME NEW f \in reaping'
                 PROVE  expired'[f]
        OBVIOUS
    <2>1. expired[f]
        BY ReportedGrows DEF HeldInv
    <2>2. f \in Flow
        BY TypedStep DEF TypeOK
    <2> QED
        BY <2>1, <2>2, RowMoves
<1>3. ASSUME NEW f \in Flow
      PROVE  \/ exec'[f].pc \in {"gone", "launched"} \/ Unwinding(exec'[f])
             \/ owner' = f \/ f \in reported' \/ expired'[f]
    <2>0. /\ exec[f].pc \in {"gone", "launched"} \/ Unwinding(exec[f]) \/ owner = f \/ Excused(f)
          /\ NoExecutor.pc = "gone"
        BY DEF HeldInv, NoExecutor
    <2>1. CASE Excused(f)
        BY <2>1, ReportedGrows, RowMoves DEF Excused
    <2>2. CASE Restart \/ (ApproveFlow(f) /\ exec'[f].pc = "launched") \/ exec'[f] = NoExecutor
        <3>1. Restart => exec'[f] = NoExecutor
            BY DEF Restart
        <3> QED
            BY <2>0, <2>2, <3>1
    <2>3. CASE owner = f /\ ~Restart
        <3>1. Release(f) => exec'[f].pc = "gone"
            BY <2>0, GoneMoves DEF Release, TypeOK
        <3> QED
            BY <2>3, <3>1, OwnerLeaves
    <2>4. CASE /\ exec[f].pc \in {"gone", "launched"} \/ Unwinding(exec[f])
               /\ exec'[f] = exec[f]
        BY <2>4
    <2>5. CASE (exec[f].pc \in {"gone", "launched"} \/ Unwinding(exec[f])) /\ Execute(f)
        <3>1. ~At(f, "gone")
            BY <2>5, ExecuteRow
        <3>2. CASE At(f, "launched")
            <4>1. TakeSession(f)
                BY <2>5, <3>2, ActionOfPlace
            <4>2. CASE exec'[f].pc = "start"
                <5>1. ~(exec' = [exec EXCEPT ![f] = [@ EXCEPT !.pc = "finish", !.verdict = "failed", !.exit = "gone"]])
                    BY <4>2, RefusedMoves DEF TypeOK
                <5>2. ~(exec' = [exec EXCEPT ![f] = NoExecutor])
                    BY <2>0, <4>2, GoneMoves DEF TypeOK
                <5>3. Gate!Acquire(f)
                    BY <4>1, <5>1, <5>2 DEF TakeSession
                <5> QED
                    BY <5>3 DEF Gate!Acquire, Gate!Boundary
            <4>3. CASE exec' = [exec EXCEPT ![f] = NoExecutor]
                BY <2>0, <4>3, GoneMoves DEF TypeOK
            <4>4. CASE exec'[f].pc # "start" /\ ~(exec' = [exec EXCEPT ![f] = NoExecutor])
                <5>1. exec' = [exec EXCEPT ![f] = [@ EXCEPT !.pc = "finish", !.verdict = "failed", !.exit = "gone"]]
                    <6>1. "start" \in Pc
                        BY DEF Pc
                    <6>2. ~GoTo(f, "start")
                        BY <4>4, <6>1, GoToMoves DEF TypeOK
                    <6> QED
                        BY <4>1, <4>4, <6>2 DEF TakeSession
                <5>2. exec'[f].pc = "finish" /\ exec'[f].exit = "gone"
                    BY <5>1, RefusedMoves DEF TypeOK
                <5> QED
                    BY <5>2 DEF Unwinding
            <4> QED
                BY <4>2, <4>3, <4>4
        <3>3. CASE At(f, "finish") /\ Unwinding(exec[f])
            <4>1. Finish(f) /\ exec[f].exit = "gone"
                BY <2>5, <3>3, ActionOfPlace DEF Unwinding, At
            <4>2. exec'[f].pc = "gone" \/ (exec'[f].pc = "manual" /\ exec'[f].next = "gone")
                <5>1. Unwind(f) \/ DemandCheck(f, "gone")
                    BY <4>1 DEF Finish
                <5>2. "gone" \in Pc
                    BY DEF Pc
                <5> QED
                    BY <4>1, <5>1, <5>2, UnwindMoves, DemandCheckMoves DEF TypeOK
            <4> QED
                BY <4>2 DEF Unwinding
        <3>4. CASE At(f, "manual") /\ Unwinding(exec[f])
            <4>1. Manual(f) /\ exec[f].next = "gone"
                BY <2>5, <3>4, ActionOfPlace DEF Unwinding, At
            <4>2. "gone" \in Pc
                BY DEF Pc
            <4>3. exec'[f].pc = "gone"
                BY <4>1, <4>2, GoToMoves DEF Manual, TypeOK
            <4> QED
                BY <4>3
        <3> QED
            BY <2>5, <3>1, <3>2, <3>3, <3>4 DEF Unwinding, At
    <2> QED
        BY <2>0, <2>1, <2>2, <2>3, <2>4, <2>5, ExecMoves
<1> QED
    BY <1>1, <1>2, <1>3 DEF HeldInv, Excused

\* What is restored stays so, and a restoring command answered well has restored it.
LEMMA AnswerMoves ==
    ASSUME TypeOK, [Next]_vars, NEW f \in Flow
    PROVE  /\ restored \subseteq restored'
           /\ answer'[f] = "ok" => \/ answer[f] = "ok"
                                   \/ exec[f].n = Restore => f \in restored'
<1>0. answer \in [Flow -> {"none", "ok", "failed"}]
    BY DEF TypeOK
<1>1. CASE WorkerEnd
    <2>1. PICK good \in BOOLEAN :
              /\ answer' = [g \in Flow |->
                    IF inflight = <<g, exec[g].n>> /\ At(g, "wait")
                    THEN IF good THEN "ok" ELSE "failed"
                    ELSE answer[g]]
              /\ restored' = restored \cup {g \in Flow : good /\ inflight = <<g, Restore>>}
        BY <1>1 DEF WorkerEnd
    <2> QED
        BY <2>1
<1>2. ASSUME NEW g \in Flow, Execute(g)
      PROVE  restored' = restored /\ (answer'[f] = "ok" => answer[f] = "ok")
    <2>1. restored' = restored
        BY <1>2 DEF Execute, TakeSession, Start, Head, Decide, SecondGuard, SubmitCommand, Collect,
           RecordSnapshot, RecordStep, Finish, Manual, BeginRestore, RecordRestore, Release,
           executorOnly, history
    <2>2. answer' = answer \/ answer' = [answer EXCEPT ![g] = "none"]
        BY <1>2 DEF Execute, TakeSession, Start, Head, Decide, SecondGuard, SubmitCommand, Collect,
           RecordSnapshot, RecordStep, Finish, Manual, BeginRestore, RecordRestore, Release,
           executorOnly
    <2> QED
        BY <1>0, <2>1, <2>2
<1>3. CASE Outside /\ ~WorkerEnd
    BY <1>3 DEF Outside, Create, StopFlow, DeadlinePasses, ReapRelease, Lose, EStopOwner,
       ConfirmManualCheck, NoticeExpiry, EStopWorker, EStopRow, Worker, WorkerBegin, WorkerDrop,
       WorkerBeginStop, Reap, vars, history
<1>4. CASE Restart \/ \E g \in Flow : ApproveFlow(g)
    BY <1>4 DEF Restart, ApproveFlow, history
<1> QED
    BY <1>1, <1>2, <1>3, <1>4, Steps

\* A restoring command whose run went well has restored the frequency.
LEMMA RestoringStep ==
    ASSUME TypeOK, PlaceInv, RestoreInv, [Next]_vars, NEW f \in Flow, exec'[f].n = Restore
    PROVE  /\ exec'[f].pc = "wait" /\ answer'[f] = "ok" => f \in restored'
           /\ /\ Commanding(exec'[f]) /\ exec'[f].pc \notin {"submit", "wait"}
              /\ exec'[f].err = ""
              => f \in restored'
<1>0. /\ exec[f].n = Restore /\ At(f, "wait") /\ answer[f] = "ok" => f \in restored
      /\ exec[f].n = Restore /\ Commanding(exec[f]) /\ exec[f].pc \notin {"submit", "wait"} /\ exec[f].err = ""
            => f \in restored
    BY DEF RestoreInv
<1>1. CASE exec'[f] = exec[f]
    BY <1>0, <1>1, AnswerMoves DEF At
<1>2. CASE ApproveFlow(f) /\ exec'[f].pc = "launched"
    BY <1>2 DEF Commanding
<1>3. CASE exec'[f] = NoExecutor
    <2>1. NoExecutor.pc = "gone"
        BY DEF NoExecutor
    <2> QED
        BY <1>3, <2>1 DEF Commanding
<1>4. CASE Execute(f)
    <2>0. Placed(exec[f])
        BY DEF PlaceInv
    <2>1. /\ exec[f].exit \in {"gone", "release", "restore"}
          /\ Manual(f) => exec[f].next \in {"record", "finish", "gone", "release", "restore"} /\ At(f, "manual")
        BY <2>0 DEF Placed, Manual, At
    <2>2. CASE exec'[f].pc = "wait"
        BY <1>4, <2>1, <2>2, ExecuteShape DEF Shape, Ends, Commanding
    <2>3. CASE /\ Commanding(exec'[f]) /\ exec'[f].pc \notin {"submit", "wait"}
               /\ exec'[f].err = ""
        <3>1. \/ exec'[f].pc = "guard"
              \/ exec'[f].pc = "record"
              \/ exec'[f].pc = "manual" /\ exec'[f].next = "record"
            BY <2>3 DEF Commanding
        <3>2. CASE exec'[f].pc = "guard"
            <4>1. Decide(f) /\ exec[f].n = Restore
                BY <1>4, <2>1, <3>2, ExecuteShape DEF Shape, Ends
            <4> QED
                BY <2>0, <4>1, Numbers DEF Decide, At, Placed
        <3>3. CASE exec'[f].pc = "record"
            <4>1. \/ exec[f].n = Restore /\ At(f, "wait") /\ answer[f] = "ok"
                  \/ Manual(f) /\ exec[f].next = "record" /\ exec[f].n = Restore /\ exec[f].err = ""
                BY <1>4, <2>1, <2>3, <3>3, ExecuteShape DEF Shape, Ends, Keeps
            <4>2. f \in restored
                BY <1>0, <2>1, <4>1 DEF Commanding, At
            <4> QED
                BY <4>2, AnswerMoves
        <3>4. CASE exec'[f].pc = "manual" /\ exec'[f].next = "record"
            BY <1>4, <2>1, <2>3, <3>4, ExecuteShape DEF Shape, Ends
        <3> QED
            BY <3>1, <3>2, <3>3, <3>4
    <2> QED
        BY <2>2, <2>3
<1> QED
    BY <1>1, <1>2, <1>3, <1>4, ExecMoves

\* Where the executor of a flow that reads as completed or stopped may be.
Accounted(f) ==
    LET e == exec[f] IN
    \/ e.pc = "restore"
    \/ e.n = Restore /\ Commanding(e)
    \/ e.pc = "manual" /\ e.next \in {"restore", "release"}
    \/ e.pc \in {"release", "gone"} /\ (f \in restored \/ Excused(f))

\* A flow that ends comes to its restoration, and leaves it restored or excused.
LEMMA AccountedStep ==
    ASSUME MaxRestarts = 0, TypeOK, PlaceInv, RowInv, OwnerInv, HeldInv, RestoreInv, [Next]_vars,
           NEW f \in Flow, status'[f] \in {"completed", "stopped"}
    PROVE  Accounted(f)'
<1>0. ~Restart /\ Placed(exec[f])
    BY DEF Restart, TypeOK, PlaceInv
<1>1. f \in restored => f \in restored'
    BY AnswerMoves
<1>2. Excused(f) => Excused(f)'
    BY RowMoves, ReportedGrows DEF Excused
<1>3. CASE status[f] # status'[f]
    <2>1. Finish(f) /\ At(f, "finish") /\ status'[f] = exec[f].verdict
        BY <1>0, <1>3, RowMoves
    <2>2. exec[f].exit = "restore"
        BY <1>0, <2>1 DEF Placed
    <2>3. Unwind(f) \/ DemandCheck(f, exec[f].exit)
        BY <2>1 DEF Finish
    <2>4. "restore" \in Pc
        BY DEF Pc
    <2>5. exec'[f].pc = "restore" \/ (exec'[f].pc = "manual" /\ exec'[f].next = "restore")
        BY <2>2, <2>3, <2>4, UnwindMoves, DemandCheckMoves DEF TypeOK
    <2> QED
        BY <2>5 DEF Accounted
<1>4. CASE status[f] = status'[f]
    <2>0. Accounted(f)
        BY <1>4 DEF RestoreInv, Accounted
    <2>1. CASE exec'[f] = exec[f]
        BY <1>1, <1>2, <2>0, <2>1 DEF Accounted
    <2>2. CASE ApproveFlow(f)
        BY <1>4, <2>2 DEF ApproveFlow
    <2>3. CASE Execute(f)
        <3>1. CASE At(f, "restore")
            <4>1. BeginRestore(f)
                BY <2>3, <3>1, ActionOfPlace
            <4>2. CASE owner = f
                <5>1. exec' = [exec EXCEPT ![f] = [@ EXCEPT !.pc = "submit", !.n = Restore]]
                    BY <4>1, <4>2 DEF BeginRestore
                <5>2. exec'[f].pc = "submit" /\ exec'[f].n = Restore
                    BY <5>1, RestoringMoves DEF TypeOK
                <5> QED
                    BY <5>2 DEF Accounted, Commanding
            <4>3. CASE owner # f
                <5>1. "release" \in Pc
                    BY DEF Pc
                <5>2. exec'[f].pc = "release"
                    BY <4>1, <4>3, <5>1, GoToMoves DEF BeginRestore, TypeOK
                <5>3. Excused(f)
                    BY <3>1, <4>3 DEF HeldInv, Unwinding, At
                <5> QED
                    BY <1>2, <5>2, <5>3 DEF Accounted
            <4> QED
                BY <4>2, <4>3
        <3>2. CASE exec[f].n = Restore /\ Commanding(exec[f])
            <4>1. exec[f].pc \in {"submit", "wait", "record"} \/ (exec[f].pc = "manual" /\ exec[f].next = "record")
                BY <1>0, <3>2 DEF Placed, Commanding
            <4>2. CASE At(f, "submit") \/ At(f, "wait")
                <5>1. SubmitCommand(f) \/ Collect(f)
                    BY <2>3, <4>2, ActionOfPlace
                <5>2. /\ exec'[f].n = exec[f].n
                      /\ \/ exec'[f].pc \in {"record", "wait"}
                         \/ exec'[f].pc = "manual" /\ exec'[f].next = "record"
                    <6>1. "" \in RunError /\ "other" \in RunError /\ "timeout" \in RunError
                        BY DEF RunError
                    <6>2. exec \in [Flow -> Executor]
                        BY DEF TypeOK
                    <6>3. \/ \E error \in RunError : Ran(f, error)
                          \/ exec' = [exec EXCEPT ![f] = [@ EXCEPT !.pc = "wait", !.sent = TRUE]]
                          \/ exec' = [exec EXCEPT ![f] = [@ EXCEPT !.pc = "manual", !.next = "record", !.err = "other"]]
                        BY <5>1, <6>1 DEF SubmitCommand, Collect
                    <6>4. ASSUME NEW error \in RunError, Ran(f, error)
                          PROVE  exec'[f].pc = "record" /\ exec'[f].n = exec[f].n
                        BY <6>2, <6>4, RanMoves DEF Keeps
                    <6>5. CASE exec' = [exec EXCEPT ![f] = [@ EXCEPT !.pc = "wait", !.sent = TRUE]]
                        BY <6>2, <6>5, SentMoves DEF Keeps
                    <6>6. CASE exec' = [exec EXCEPT ![f] = [@ EXCEPT !.pc = "manual", !.next = "record", !.err = "other"]]
                        BY <6>2, <6>6, UnloggedMoves
                    <6> QED
                        BY <6>3, <6>4, <6>5, <6>6
                <5> QED
                    BY <3>2, <5>2 DEF Accounted, Commanding
            <4>3. CASE At(f, "manual") /\ exec[f].next = "record"
                <5>1. Manual(f)
                    BY <2>3, <4>3, ActionOfPlace
                <5>2. "record" \in Pc
                    BY DEF Pc
                <5>3. exec'[f].pc = "record" /\ exec'[f].n = exec[f].n
                    BY <4>3, <5>1, <5>2, GoToMoves DEF Manual, TypeOK, Keeps
                <5> QED
                    BY <3>2, <5>3 DEF Accounted, Commanding
            <4>4. CASE At(f, "record")
                <5>1. RecordRestore(f)
                    <6>1. exec[f].n = -1 /\ exec[f].n # Snapshot
                        BY <3>2, Numbers
                    <6>2. ~RecordSnapshot(f)
                        BY <6>1 DEF RecordSnapshot
                    <6>3. ~RecordStep(f)
                        BY <6>1 DEF RecordStep
                    <6> QED
                        BY <2>3, <4>4, <6>2, <6>3, ActionOfPlace
                <5>2. CASE DemandCheck(f, "release")
                    <6>1. "release" \in Pc
                        BY DEF Pc
                    <6>2. exec'[f].pc = "manual" /\ exec'[f].next = "release"
                        BY <5>2, <6>1, DemandCheckMoves DEF TypeOK
                    <6> QED
                        BY <6>2 DEF Accounted
                <5>3. CASE exec[f].err = "" /\ GoTo(f, "release")
                    <6>1. "release" \in Pc
                        BY DEF Pc
                    <6>2. exec'[f].pc = "release"
                        BY <5>3, <6>1, GoToMoves DEF TypeOK
                    <6>3. f \in restored
                        BY <3>2, <4>4, <5>3 DEF RestoreInv, At
                    <6> QED
                        BY <1>1, <6>2, <6>3 DEF Accounted
                <5>4. CASE status[f] # "emergency_stopped" /\ SetRow(f, "failed")
                    BY <1>4, <5>4 DEF SetRow, TypeOK
                <5> QED
                    BY <1>4, <5>1, <5>2, <5>3, <5>4 DEF RecordRestore
            <4> QED
                BY <4>1, <4>2, <4>3, <4>4 DEF At
        <3>3. CASE At(f, "manual") /\ exec[f].next \in {"restore", "release"}
            <4>1. Manual(f)
                BY <2>3, <3>3, ActionOfPlace
            <4>2. exec[f].next \in Pc
                BY <3>3 DEF Pc
            <4>3. exec'[f].pc = exec[f].next
                BY <4>1, <4>2, GoToMoves DEF Manual, TypeOK
            <4>4. f \in reported'
                BY <3>3, <4>1 DEF Manual, At
            <4> QED
                BY <3>3, <4>3, <4>4 DEF Accounted, Excused
        <3>4. CASE exec[f].pc \in {"release", "gone"} /\ (f \in restored \/ Excused(f))
            <4>1. Release(f)
                BY <2>3, <3>4, ActionOfPlace, ExecuteRow DEF At
            <4>2. NoExecutor.pc = "gone"
                BY DEF NoExecutor
            <4>3. exec'[f].pc = "gone"
                BY <4>1, <4>2, GoneMoves DEF Release, TypeOK
            <4> QED
                BY <1>1, <1>2, <3>4, <4>3 DEF Accounted
        <3> QED
            BY <2>0, <3>1, <3>2, <3>3, <3>4 DEF Accounted, At
    <2> QED
        BY <1>0, <2>1, <2>2, <2>3, ExecMoves
<1> QED
    BY <1>3, <1>4

-----------------------------------------------------------------------------
(* The theorems.                                                           *)

\* The inductive invariant that needs no assumption: types, places, who has the
\* instrument, and what is left to do after the authority is gone.
FlowInv ==
    TypeOK /\ PlaceInv /\ RowInv /\ OwnerInv /\ KilledInv /\ LateInv /\ StopInv /\ HeldInv

\* The state of a server that has just started satisfies it.
LEMMA FlowInvInit == Init => FlowInv
<1> SUFFICES ASSUME Init PROVE FlowInv
    OBVIOUS
<1>0. 0 \in 0..MaxFaults /\ 0 \in 0..MaxStops /\ 0 \in 0..MaxRestarts
    BY FlowConstants
<1>6. RestOK
    BY <1>0 DEF Init, RestOK
<1>7. Gate!GateTypeOK
    BY DEF Init, Gate!GateInit, Gate!GateTypeOK
<1>1. TypeOK
    BY <1>6, <1>7, NoExecutorType DEF Init, RestOK, TypeOK
<1>2. /\ NoExecutor.pc = "gone" /\ NoExecutor.exit = "gone" /\ NoExecutor.verdict = "failed"
      /\ Blank(NoExecutor)
    BY DEF NoExecutor, Blank
<1>3. Placed(NoExecutor) /\ Counted(NoExecutor)
    BY <1>2, NoExecutorType, BlankFits
<1>4. PlaceInv
    BY <1>3 DEF Init, PlaceInv
<1>5. RowInv /\ OwnerInv /\ KilledInv /\ LateInv /\ StopInv /\ HeldInv
    BY <1>2, FlowConstants DEF Init, Gate!GateInit, RowInv, OwnerInv, KilledInv, LateInv, StopInv, HeldInv, At
<1> QED
    BY <1>1, <1>4, <1>5 DEF FlowInv

\* Every step keeps it.
LEMMA FlowInvStep == FlowInv /\ [Next]_vars => FlowInv'
BY TypedStep, RowStep, OwnerStep, KilledStep, LateStep, StopStep, HeldStep DEF FlowInv

\* Every reachable state of every set of flows satisfies it: the basis of the theorems
\* below.
THEOREM FlowInvariant == Spec => []FlowInv
<1>1. Init => FlowInv
    BY FlowInvInit
<1>2. FlowInv /\ [Next]_vars => FlowInv'
    BY FlowInvStep
<1> QED
    BY <1>1, <1>2, PTL DEF Spec

\* The state of the flows has its types, whatever fails (Flow, FlowStep and the
\* executor's variables in flow.go).
THEOREM FlowTypeCorrect == Spec => []TypeOK
<1>1. FlowInv => TypeOK
    BY DEF FlowInv
<1> QED
    BY <1>1, FlowInvariant, PTL

\* The instrument belongs to a flow only while that flow's executor is past taking it
\* and has not returned (the deferred ReleaseSession of Run).
THEOREM FlowOwnerHasExecutor == Spec => []OwnerHasExecutor
<1>1. FlowInv => OwnerHasExecutor
    BY DEF FlowInv, OwnerInv, OwnerHasExecutor
<1> QED
    BY <1>1, FlowInvariant, PTL

\* A flow whose session an emergency stop took never has a command accepted again, also
\* after the manual check was confirmed (EmergencyStop and AcquireSession).
THEOREM FlowKilledStaysDead == Spec => []KilledStaysDead
<1>1. FlowInv => KilledStaysDead
    BY DEF FlowInv, KilledInv, KilledStaysDead
<1> QED
    BY <1>1, FlowInvariant, PTL

\* After a flow lost its authority at most the one step that had passed preSendGuard is
\* handed in, however the executor and the stop interleave.
THEOREM FlowStopIsHonoured == Spec => []StopIsHonoured
<1>1. FlowInv => StopIsHonoured
    BY DEF FlowInv, StopInv, StopIsHonoured
<1> QED
    BY <1>1, FlowInvariant, PTL

\* What the flow lost while the model was thinking keeps the command it asked for from
\* being handed in (the second preSendGuard of runRaw).
THEOREM FlowSlowDecision == Spec => []SlowDecisionIsHarmless
<1>1. FlowInv => SlowDecisionIsHarmless
    <2> SUFFICES ASSUME FlowInv, NEW f \in Flow, exec[f].pc \in {"submit", "wait"}, exec[f].n > 0
                 PROVE  ~exec[f].late
        BY DEF SlowDecisionIsHarmless
    <2>1. exec[f].n \in Int
        BY Numbers DEF FlowInv, TypeOK, Executor
    <2>2. exec[f].n >= 1
        BY <2>1
    <2> QED
        BY <2>2 DEF FlowInv, LateInv
<1> QED
    BY <1>1, FlowInvariant, PTL

\* The limit of three commands per point never cuts a sweep short: with every measurement
\* retried once there is always a command left for an unfinished point.
THEOREM FlowCommandLimit == Spec => []CommandLimitSuffices
<1>1. FlowInv => CommandLimitSuffices
    <2> SUFFICES ASSUME FlowInv, NEW f \in Flow, At(f, "decide"), exec[f].points < Points
                 PROVE  exec[f].n <= MaxCommands
        BY DEF CommandLimitSuffices
    <2>1. exec[f].n \in Int /\ exec[f].points \in Int
        BY Numbers DEF FlowInv, TypeOK, Executor
    <2>2. exec[f].n >= 1 /\ Counted(exec[f])
        BY DEF FlowInv, PlaceInv, Placed, At
    <2>3. exec[f].n <= 1 + 3 * exec[f].points + (IF exec[f].pending THEN 1 ELSE 0) + (IF exec[f].retried THEN 1 ELSE 0)
        BY <2>2 DEF Counted
    <2>4. exec[f].n <= 3 + 3 * exec[f].points
        BY <2>1, <2>3
    <2> QED
        BY <2>1, <2>4, Numbers
<1> QED
    BY <1>1, FlowInvariant, PTL

\* What a terminal row says stays, but for a failure to restore or to audit; what an
\* emergency stop or a restart ended keeps saying so, whoever is late.
THEOREM FlowTerminalIsFinal == Spec => TerminalIsFinal
<1>1. FlowInv /\ [Next]_vars =>
          [\A f \in Flow :
              status[f] \in Terminal =>
                  \/ status'[f] = status[f]
                  \/ status'[f] = "failed" /\ status[f] \notin {"emergency_stopped", "interrupted"}]_vars
    <2> SUFFICES ASSUME FlowInv, [Next]_vars, NEW f \in Flow, status[f] \in Terminal
                 PROVE  \/ status'[f] = status[f]
                        \/ status'[f] = "failed" /\ status[f] \notin {"emergency_stopped", "interrupted"}
        OBVIOUS
    <2>1. status[f] \notin Active /\ status[f] \notin {"none", "awaiting_approval", "queued"}
        BY DEF Active, Terminal
    <2>2. status[f] = "interrupted" => At(f, "gone")
        BY DEF FlowInv, RowInv
    <2> QED
        BY <2>1, <2>2, RowMoves DEF FlowInv
<1> QED
    BY <1>1, FlowInvariant, PTL DEF Spec, TerminalIsFinal

\* While the server is not restarted: the flows and what became of the frequency.
LEMMA RestoreInvStep ==
    ASSUME MaxRestarts = 0, FlowInv, RestoreInv, [Next]_vars
    PROVE  RestoreInv'
<1> SUFFICES ASSUME NEW f \in Flow
             PROVE  /\ exec'[f].n = Restore /\ exec'[f].pc = "wait" /\ answer'[f] = "ok" => f \in restored'
                    /\ /\ exec'[f].n = Restore /\ Commanding(exec'[f])
                       /\ exec'[f].pc \notin {"submit", "wait"} /\ exec'[f].err = ""
                       => f \in restored'
                    /\ status'[f] \in {"completed", "stopped"} => Accounted(f)'
    BY DEF RestoreInv, Accounted, At
<1> QED
    BY RestoringStep, AccountedStep DEF FlowInv

\* A flow that is over and reads as completed or stopped has restored the frequency, or a
\* manual check was demanded meanwhile, or its time ran out before it could: unless the
\* server died between the end of the run and the deferred restoration.
THEOREM FlowRestoreAccounted == MaxRestarts = 0 /\ Spec => []RestoreAccounted
<1> SUFFICES ASSUME MaxRestarts = 0 PROVE Spec => []RestoreAccounted
    OBVIOUS
<1>1. Init => RestoreInv
    <2> SUFFICES ASSUME Init, NEW f \in Flow
                 PROVE  exec[f].n # Restore /\ status[f] = "none"
        BY DEF RestoreInv
    <2>1. exec[f] = NoExecutor /\ status[f] = "none" /\ NoExecutor.n = Snapshot
        BY DEF Init, NoExecutor
    <2> QED
        BY <2>1, Numbers
<1>2. FlowInv /\ RestoreInv /\ [Next]_vars => RestoreInv'
    BY RestoreInvStep
<1>3. RestoreInv => RestoreAccounted
    <2> SUFFICES ASSUME RestoreInv, NEW f \in Flow, status[f] \in {"completed", "stopped"}, At(f, "gone")
                 PROVE  f \in restored \/ f \in reported \/ expired[f]
        BY DEF RestoreAccounted
    <2> QED
        BY DEF RestoreInv, At, Commanding, Excused
<1> QED
    BY <1>1, <1>2, <1>3, FlowInvariant, PTL DEF Spec
=============================================================================
