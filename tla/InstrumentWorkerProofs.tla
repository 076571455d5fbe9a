----------------------- MODULE InstrumentWorkerProofs -----------------------
(***************************************************************************)
(* What holds of the worker for every number of commands and sessions,     *)
(* every queue size, rate limit and window, up to its implementation of    *)
(* CommandGate.                                                            *)
(***************************************************************************)
EXTENDS InstrumentWorker, SequenceTheorems, TLAPS

USE DEF Running, RateLimited, NeedsReconnect, Error, Locked, Unset

\* Dropping entries from the front of the limiter's memory leaves a sequence of times.
LEMMA WithoutType ==
    ASSUME NEW times \in Seq(Nat), NEW k \in 0..Len(times)
    PROVE  /\ Without(times, k) \in Seq(Nat)
           /\ Len(Without(times, k)) = Len(times) - k
           /\ \A i \in 1..(Len(times) - k) : Without(times, k)[i] = times[k + i]
<1>1. Len(times) \in Nat /\ \A i \in (k + 1)..Len(times) : times[i] \in Nat
    OBVIOUS
<1>2. /\ SubSeq(times, k + 1, Len(times)) \in Seq(Nat)
      /\ Len(SubSeq(times, k + 1, Len(times))) =
            IF k + 1 <= Len(times) THEN Len(times) - (k + 1) + 1 ELSE 0
      /\ \A i \in 1..(Len(times) - (k + 1) + 1) :
            SubSeq(times, k + 1, Len(times))[i] = times[(k + 1) + i - 1]
    <2>1. k + 1 \in Int /\ Len(times) \in Int
        BY <1>1
    <2> QED
        BY <1>1, <2>1, SubSeqProperties
<1> QED
    BY <1>1, <1>2 DEF Without

\* Answering a command keeps the phases well typed.
LEMMA RespondType ==
    ASSUME TypeOK, NEW c \in Command \cup {NoCommand, SafeStop}, Respond(c)
    PROVE  phase' \in [Command -> Phase]
BY DEF TypeOK, Respond, Phase

\* Noticing a lapsed session keeps the session variables well typed.
LEMMA SessionType ==
    ASSUME TypeOK, ClearExpiredSession \/ ExpireBeforeExecute
    PROVE  /\ sessionOwner' \in Session \cup {NoOwner}
           /\ sessionUntil' \in Nat
           /\ queueEpoch' \in Nat
BY DEF TypeOK, ClearExpiredSession, ExpireBeforeExecute, OwnerNow, EpochNow,
       NewOwner, session

\* The places the run loop can be put at are places of its type.
LEMMA RunnerMoves ==
    ASSUME TypeOK
    PROVE  /\ \A pc \in RunnerPc : RunnerAt(pc) \in RunnerType
           /\ \A pc \in RunnerPc : [runner EXCEPT !.pc = pc] \in RunnerType
           /\ \A pc \in RunnerPc, c \in Command \cup {SafeStop} :
                 [pc |-> pc, cmd |-> c, at |-> now] \in RunnerType
           /\ runner.pc \in RunnerPc
           /\ runner.cmd \in Command \cup {NoCommand, SafeStop}
           /\ runner.at \in Nat
BY DEF TypeOK, RunnerAt, RunnerType

\* A result never unlocks the instrument and is a state.
LEMMA StateType ==
    ASSUME TypeOK, NEW new \in {RateLimited, NeedsReconnect, Error, Running},
           SetStateUnlessLocked(new)
    PROVE  state' \in WorkerState
BY DEF TypeOK, SetStateUnlessLocked, WorkerState

\* Every variable keeps its type.
THEOREM TypeCorrect == Spec => []TypeOK
<1>1. Init => TypeOK
    <2> SUFFICES ASSUME Init
                 PROVE  TypeOK
        OBVIOUS
    <2>1. runner \in RunnerType
        BY DEF Init, RunnerAt, RunnerType, RunnerPc
    <2>2. cmdQueue \in Seq(Command) /\ Len(cmdQueue) <= QueueSize
        BY WorkerConstants DEF Init
    <2>3. lastCmdTimes \in Seq(Nat) /\ yellowLog \in Seq(YellowEntry)
        BY DEF Init
    <2>4. /\ phase \in [Command -> Phase]
          /\ sess \in [Command -> Session \cup {NoOwner}]
          /\ stamp \in [Command -> Nat]
        BY DEF Init, Phase
    <2> QED
        BY <2>1, <2>2, <2>3, <2>4 DEF Init, TypeOK, WorkerState
<1>2. TypeOK /\ [Next]_vars => TypeOK'
    <2> SUFFICES ASSUME TypeOK, [Next]_vars
                 PROVE  TypeOK'
        OBVIOUS
    <2> USE DEF TypeOK
    <2>1. CASE Lifecycle
        <3>1. runner' \in RunnerType
            BY <2>1, RunnerMoves DEF Lifecycle, StartDial, StartFail, StartDone, Stop, RunnerPc
        <3>2. state' \in WorkerState
            BY <2>1 DEF Lifecycle, StartDial, StartFail, StartDone, Stop, WorkerState
        <3>3. life' \in {"new", "starting", "failed", "started"}
              /\ stopped' \in BOOLEAN /\ connected' \in BOOLEAN
            BY <2>1 DEF Lifecycle, StartDial, StartFail, StartDone, Stop, started
        <3> QED
            BY <2>1, <3>1, <3>2, <3>3 DEF Lifecycle, StartDial, StartFail, StartDone, Stop,
               session, commands, history
    <2>2. ASSUME NEW c \in Command, NEW s \in Session \cup {NoOwner}, Submit(c, s)
          PROVE  TypeOK'
        <3>1. phase' \in [Command -> Phase]
            BY <2>2 DEF Submit, Phase
        <3>2. EpochNow \in Nat
            BY DEF EpochNow
        <3>3. stamp' \in [Command -> Nat] /\ sess' \in [Command -> Session \cup {NoOwner}]
            BY <2>2, <3>2 DEF Submit
        <3>4. /\ sessionOwner' \in Session \cup {NoOwner}
              /\ sessionUntil' \in Nat
              /\ queueEpoch' \in Nat
            BY <2>2, SessionType DEF Submit
        <3> QED
            BY <2>2, <3>1, <3>3, <3>4 DEF Submit, history
    <2>3. ASSUME NEW c \in Command, Enqueue(c)
          PROVE  TypeOK'
        <3>1. cmdQueue \in Seq(Command) /\ Append(cmdQueue, c) \in Seq(Command)
              /\ Len(Append(cmdQueue, c)) = Len(cmdQueue) + 1 /\ Len(cmdQueue) \in Nat
            OBVIOUS
        <3>2. cmdQueue' \in Seq(Command) /\ Len(cmdQueue') <= QueueSize
            <4>1. CASE Len(cmdQueue) < QueueSize
                <5>1. cmdQueue' = Append(cmdQueue, c)
                    BY <2>3, <4>1 DEF Enqueue
                <5>2. Len(cmdQueue) + 1 <= QueueSize
                    BY <3>1, <4>1, WorkerConstants
                <5> QED
                    BY <3>1, <5>1, <5>2
            <4>2. CASE ~(Len(cmdQueue) < QueueSize)
                BY <2>3, <4>2 DEF Enqueue
            <4> QED
                BY <4>1, <4>2
        <3>3. phase' \in [Command -> Phase]
            BY <2>3 DEF Enqueue, Phase
        <3> QED
            BY <2>3, <3>2, <3>3 DEF Enqueue, session, history
    <2>4. ASSUME NEW s \in Session, NEW u \in 1..MaxTime, AcquireSession(s, u)
          PROVE  TypeOK'
        BY <2>4, WorkerConstants DEF AcquireSession, NewOwner, commands, history
    <2>5. ASSUME NEW s \in Session, ReleaseSession(s)
          PROVE  TypeOK'
        BY <2>5 DEF ReleaseSession, NewOwner, commands, history
    <2>6. CASE WaitFlowYellowSlot
        BY <2>6, WithoutType DEF WaitFlowYellowSlot, session, commands, history
    <2>7. CASE EmergencyStop
        BY <2>7 DEF EmergencyStop, NewOwner, commands, WorkerState
    <2>8. CASE RequireManualCheck
        BY <2>8 DEF RequireManualCheck, NewOwner, commands, history, WorkerState
    <2>9. CASE ConfirmManualCheck
        BY <2>9 DEF ConfirmManualCheck, session, commands, WorkerState
    <2>10. CASE TakeEmergency \/ NoEmergency \/ TakeStop
        <3>1. runner' \in RunnerType
            BY <2>10, RunnerMoves DEF TakeEmergency, NoEmergency, TakeStop, RunnerPc
        <3> QED
            BY <2>10, <3>1 DEF TakeEmergency, NoEmergency, TakeStop, session, commands, history
    <2>11. CASE TakeCommand
        <3>1. Head(cmdQueue) \in Command /\ Tail(cmdQueue) \in Seq(Command)
              /\ Len(Tail(cmdQueue)) = Len(cmdQueue) - 1
            BY <2>11, HeadTailProperties DEF TakeCommand
        <3>2. Len(cmdQueue') <= QueueSize
            BY <2>11, <3>1, WorkerConstants DEF TakeCommand
        <3>3. phase' \in [Command -> Phase]
            BY <2>11, <3>1 DEF TakeCommand, Phase
        <3>4. runner' \in RunnerType
            BY <2>11, <3>1, RunnerMoves DEF TakeCommand, RunnerPc
        <3> QED
            BY <2>11, <3>1, <3>2, <3>3, <3>4 DEF TakeCommand, session, history
    <2>12. CASE Validate
        <3>1. runner' \in RunnerType
            BY <2>12, RunnerMoves DEF Validate, RunnerPc
        <3>2. phase' \in [Command -> Phase]
            BY <2>12, RespondType, RunnerMoves DEF Validate
        <3>3. /\ sessionOwner' \in Session \cup {NoOwner}
              /\ sessionUntil' \in Nat
              /\ queueEpoch' \in Nat
            BY <2>12, SessionType DEF Validate
        <3> QED
            BY <2>12, <3>1, <3>2, <3>3 DEF Validate, history
    <2>13. CASE RateCheck
        <3>1. PICK k \in 0..Len(lastCmdTimes) :
                 lastCmdTimes' \in {Without(lastCmdTimes, k),
                                    Append(Without(lastCmdTimes, k), runner.at)}
            BY <2>13 DEF RateCheck
        <3>2. lastCmdTimes' \in Seq(Nat)
            <4>1. Without(lastCmdTimes, k) \in Seq(Nat)
                BY WithoutType
            <4>2. Append(Without(lastCmdTimes, k), runner.at) \in Seq(Nat)
                BY <4>1, RunnerMoves, AppendProperties
            <4> QED
                BY <3>1, <4>1, <4>2
        <3>3. phase' \in [Command -> Phase]
            BY <2>13, RespondType, RunnerMoves DEF RateCheck
        <3>4. runner' \in RunnerType
            BY <2>13, RunnerMoves DEF RateCheck, RunnerPc
        <3>5. state' \in WorkerState
            BY <2>13, StateType DEF RateCheck
        <3>6. yellowLog' \in Seq(YellowEntry)
            <4>1. [at |-> runner.at, began |-> now] \in YellowEntry
                BY RunnerMoves DEF YellowEntry
            <4>2. Append(yellowLog, [at |-> runner.at, began |-> now]) \in Seq(YellowEntry)
                BY <4>1, AppendProperties
            <4> QED
                BY <2>13, <4>2 DEF RateCheck
        <3> QED
            BY <2>13, <3>2, <3>3, <3>4, <3>5, <3>6 DEF RateCheck, session
    <2>14. CASE Build \/ Connect \/ Finish
        <3>1. phase' \in [Command -> Phase]
            BY <2>14, RespondType, RunnerMoves DEF Build, Connect, Finish
        <3>2. runner' \in RunnerType
            BY <2>14, RunnerMoves DEF Build, Connect, Finish, RunnerPc
        <3>3. state' \in WorkerState
            BY <2>14, StateType DEF Build, Connect, Finish, WorkerState
        <3> QED
            BY <2>14, <3>1, <3>2, <3>3 DEF Build, Connect, Finish, session, history
    <2>15. CASE Send
        <3>1. runner' \in RunnerType
            BY <2>15, RunnerMoves DEF Send, RunnerPc
        <3> QED
            BY <2>15, <3>1 DEF Send, session, commands
    <2>16. CASE Tick
        BY <2>16 DEF Tick, session, commands, history
    <2>17. CASE UNCHANGED vars
        BY <2>17 DEF vars, session, commands, history
    <2> QED
        BY <2>1, <2>2, <2>3, <2>4, <2>5, <2>6, <2>7, <2>8, <2>9, <2>10, <2>11, <2>12,
           <2>13, <2>14, <2>15, <2>16, <2>17 DEF Next, Caller, RunLoop
<1> QED
    BY <1>1, <1>2, PTL DEF Spec

\* A step that leaves the run loop alone does not change what it holds.
LEMMA RunnerKeeps ==
    ASSUME TypeOK, RunnerInv,
           \/ Lifecycle \/ Caller \/ Tick \/ UNCHANGED vars
    PROVE  /\ RunnerInv'
           /\ life \in {"failed", "started"} => runner' = runner /\ life' = life
<1> USE DEF RunnerInv
<1>1. CASE Lifecycle
    BY <1>1 DEF Lifecycle, StartDial, StartFail, StartDone, Stop, RunnerAt, TypeOK
<1>2. CASE \E c \in Command : Enqueue(c) \/ \E s \in Session \cup {NoOwner} : Submit(c, s)
    BY <1>2 DEF Enqueue, Submit
<1>3. CASE \E s \in Session : ReleaseSession(s) \/ \E u \in 1..MaxTime : AcquireSession(s, u)
    BY <1>3 DEF ReleaseSession, AcquireSession
<1>4. CASE WaitFlowYellowSlot \/ EmergencyStop \/ RequireManualCheck \/ ConfirmManualCheck
    BY <1>4 DEF WaitFlowYellowSlot, EmergencyStop, RequireManualCheck, ConfirmManualCheck
<1>5. CASE Tick \/ UNCHANGED vars
    BY <1>5 DEF Tick, vars
<1> QED
    BY <1>1, <1>2, <1>3, <1>4, <1>5 DEF Caller

\* Where a step of the run loop can lead.
LEMMA RunnerSteps ==
    ASSUME TypeOK, RunnerInv, RunLoop
    PROVE  RunnerInv'
<1> USE DEF RunnerInv
<1>1. CASE TakeEmergency \/ NoEmergency \/ TakeStop
    BY <1>1 DEF TakeEmergency, NoEmergency, TakeStop, RunnerAt, TypeOK
<1>2. CASE TakeCommand
    <2>1. Head(cmdQueue) \in Command
        BY <1>2, HeadTailProperties DEF TakeCommand, TypeOK
    <2> QED
        BY <1>2, <2>1 DEF TakeCommand
<1>3. CASE Validate \/ RateCheck \/ Build \/ Connect \/ Send \/ Finish
    <2> DEFINE Past == {"rate", "build", "connect", "send", "sent", "failed"}
    <2>1. /\ runner.pc \in Past \cup {"validate"}
          /\ life' = life
          /\ \/ runner' = RunnerAt("select")
             \/ \E pc \in Past : /\ runner' = [runner EXCEPT !.pc = pc]
                                 /\ pc = "rate" => runner.pc = "validate"
        <3>1. CASE Validate
            BY <3>1 DEF Validate
        <3>2. CASE RateCheck
            BY <3>2 DEF RateCheck
        <3>3. CASE Build \/ Connect \/ Send \/ Finish
            BY <3>3 DEF Build, Connect, Send, Finish
        <3> QED
            BY <1>3, <3>1, <3>2, <3>3
    <2>2. CASE runner' = RunnerAt("select")
        BY <2>1, <2>2 DEF RunnerAt
    <2>3. ASSUME NEW pc \in Past,
                 runner' = [runner EXCEPT !.pc = pc],
                 pc = "rate" => runner.pc = "validate"
          PROVE  RunnerInv'
        <3>1. runner'.pc = pc /\ runner'.cmd = runner.cmd
            BY <2>3 DEF TypeOK, RunnerType
        <3> QED
            BY <2>1, <2>3, <3>1
    <2> QED
        BY <2>1, <2>2, <2>3
<1> QED
    BY <1>1, <1>2, <1>3 DEF RunLoop

\* The run loop holds a command exactly where its program holds one.
THEOREM RunnerCorrect == Spec => []RunnerInv
<1>1. Init => RunnerInv
    BY DEF Init, RunnerInv, RunnerAt
<1>2. TypeOK /\ RunnerInv /\ [Next]_vars => RunnerInv'
    BY RunnerKeeps, RunnerSteps DEF Next
<1> QED
    BY <1>1, <1>2, TypeCorrect, PTL DEF Spec

\* Noticing a lapsed session never gives the instrument to anybody.
LEMMA NobodyTakesOver ==
    ASSUME sessionOwner = NoOwner, ClearExpiredSession \/ ExpireBeforeExecute
    PROVE  sessionOwner' = NoOwner
BY DEF ClearExpiredSession, OwnerNow, ExpireBeforeExecute, NewOwner, session

\* Every step keeps the lock: what callers do.
LEMMA CallerKeepsLock ==
    ASSUME TypeOK, RunnerInv, LockInv,
           \/ Lifecycle \/ Caller \/ Tick \/ UNCHANGED vars
    PROVE  LockInv'
<1> USE DEF LockInv, EmergencyLockHolds, WorkInFlight
<1>1. CASE Lifecycle
    <2>1. CASE StartDial \/ Stop
        BY <2>1 DEF StartDial, Stop, session, history
    <2>2. CASE StartFail \/ StartDone
        BY <2>2 DEF StartFail, StartDone, session, history
    <2> QED
        BY <1>1, <2>1, <2>2 DEF Lifecycle
<1>2. ASSUME NEW c \in Command, NEW s \in Session \cup {NoOwner}, Submit(c, s)
      PROVE  LockInv'
    BY <1>2, NobodyTakesOver DEF Submit, history
<1>3. ASSUME NEW c \in Command, Enqueue(c)
      PROVE  LockInv'
    BY <1>3 DEF Enqueue, session, history
<1>4. ASSUME NEW s \in Session, NEW u \in 1..MaxTime, AcquireSession(s, u)
      PROVE  LockInv'
    BY <1>4 DEF AcquireSession, NewOwner, history
<1>5. ASSUME NEW s \in Session, ReleaseSession(s)
      PROVE  LockInv'
    BY <1>5 DEF ReleaseSession, NewOwner, history
<1>6. CASE WaitFlowYellowSlot \/ ConfirmManualCheck
    BY <1>6 DEF WaitFlowYellowSlot, ConfirmManualCheck, session, history
<1>7. CASE EmergencyStop
    BY <1>7 DEF EmergencyStop, NewOwner, started
<1>8. CASE RequireManualCheck
    BY <1>8 DEF RequireManualCheck, NewOwner, history
<1>9. CASE Tick \/ UNCHANGED vars
    BY <1>9 DEF Tick, vars, session, history
<1> QED
    BY <1>1, <1>2, <1>3, <1>4, <1>5, <1>6, <1>7, <1>8, <1>9 DEF Caller

\* Every step keeps the lock: what the run loop does.
LEMMA RunLoopKeepsLock ==
    ASSUME TypeOK, RunnerInv, RunnerInv', LockInv, RunLoop
    PROVE  LockInv'
<1> USE DEF LockInv, EmergencyLockHolds, WorkInFlight
<1>1. SafeStop \notin Command /\ NoCommand \notin Command
    BY WorkerConstants
<1>2. CASE TakeEmergency \/ NoEmergency \/ TakeStop
    BY <1>1, <1>2 DEF TakeEmergency, NoEmergency, TakeStop, RunnerAt, RunnerInv, session, history
<1>3. CASE TakeCommand
    BY <1>1, <1>3 DEF TakeCommand, RunnerInv, session, history
<1>4. CASE Validate
    <2>1. life' = life /\ state' = state /\ armed' = armed /\ stopSent' = stopSent
        BY <1>4 DEF Validate, history
    <2>2. armed => sessionOwner' = NoOwner
        BY <1>4, NobodyTakesOver DEF Validate
    <2>3. state = Locked => runner' = RunnerAt("select")
        BY <1>4 DEF Validate, Valid
    <2>4. stopSent => state = Locked
        BY <1>4 DEF Validate
    <2> QED
        BY <2>1, <2>2, <2>3, <2>4 DEF RunnerAt
<1>5. CASE RateCheck
    <2>1. /\ life' = life /\ armed' = armed /\ stopSent' = stopSent
          /\ sessionOwner' = sessionOwner
          /\ state = Locked => state' = Locked
        BY <1>5 DEF RateCheck, SetStateUnlessLocked, session
    <2>2. ~stopSent
        BY <1>5 DEF RateCheck, RunnerInv
    <2> QED
        BY <2>1, <2>2
<1>6. CASE Build
    <2>1. /\ life' = life /\ armed' = armed /\ stopSent' = stopSent
          /\ sessionOwner' = sessionOwner
          /\ state = Locked => state' = Locked
        BY <1>6 DEF Build, SetStateUnlessLocked, session, history
    <2>2. stopSent => state = Locked
        BY <1>6 DEF Build
    <2>3. runner'.cmd \in {runner.cmd, NoCommand}
        BY <1>6 DEF Build, RunnerAt, TypeOK, RunnerType
    <2>4. stopSent => runner.cmd \notin Command
        BY <1>6 DEF Build
    <2> QED
        BY <1>1, <2>1, <2>2, <2>3, <2>4
<1>7. CASE Connect
    <2>1. /\ life' = life /\ armed' = armed /\ stopSent' = stopSent
          /\ sessionOwner' = sessionOwner
          /\ state = Locked => state' = Locked
        BY <1>7 DEF Connect, SetStateUnlessLocked, session, history
    <2>2. stopSent => state = Locked /\ runner.cmd \notin Command
        BY <1>7 DEF Connect
    <2>3. runner'.cmd \in {runner.cmd, NoCommand}
        BY <1>7 DEF Connect, RunnerAt, TypeOK, RunnerType
    <2> QED
        BY <1>1, <2>1, <2>2, <2>3
<1>8. CASE Send
    <2>1. /\ life' = life /\ armed' = armed /\ state' = state
          /\ sessionOwner' = sessionOwner
          /\ runner'.cmd = runner.cmd
          /\ stopSent' => stopSent \/ (runner.cmd = SafeStop /\ runner'.pc = "sent")
        BY <1>8 DEF Send, TypeOK, RunnerType, session
    <2>2. stopSent => state = Locked /\ runner.cmd \notin Command
        BY <1>8 DEF Send
    <2>3. life = "started"
        BY <1>8 DEF Send, RunnerInv
    <2> QED
        BY <1>1, <2>1, <2>2, <2>3
<1>9. CASE Finish
    <2>1. /\ life' = life /\ armed' = armed /\ stopSent' = stopSent
          /\ sessionOwner' = sessionOwner
          /\ runner' = RunnerAt("select")
          /\ state = Locked => state' = Locked
          /\ runner.cmd = SafeStop => state' = Locked
        BY <1>9 DEF Finish, SetStateUnlessLocked, session, history
    <2> QED
        BY <1>1, <2>1 DEF RunnerAt
<1> QED
    BY <1>2, <1>3, <1>4, <1>5, <1>6, <1>7, <1>8, <1>9 DEF RunLoop

\* The lock of an accepted emergency stop holds until the manual check, and after the
\* safe stop was sent nothing is sent before that check.
THEOREM LockCorrect == Spec => []LockInv
<1>1. Init => LockInv
    BY DEF Init, LockInv, EmergencyLockHolds
<1>2. TypeOK /\ RunnerInv /\ RunnerInv' /\ LockInv /\ [Next]_vars => LockInv'
    BY CallerKeepsLock, RunLoopKeepsLock DEF Next
<1> QED
    BY <1>1, <1>2, TypeCorrect, RunnerCorrect, PTL DEF Spec

\* The instrument stays locked and nobody's from an emergency stop to a manual check.
THEOREM EmergencyLockSafe == Spec => []EmergencyLockHolds
<1>1. LockInv => EmergencyLockHolds
    BY DEF LockInv
<1> QED
    BY <1>1, LockCorrect, PTL

\* The safe stop is the last thing sent before a manual check.
THEOREM SafeStopSafe == Spec => []SafeStopIsLast
<1>1. LockInv => SafeStopIsLast
    BY DEF LockInv, SafeStopIsLast
<1> QED
    BY <1>1, LockCorrect, PTL

\* What the limiter's memory must be for a given clock and log.
Remembers(times, log, t) ==
    LET gone == Len(log) - Len(times)
    IN  /\ gone >= 0
        /\ \A i \in 1..Len(times) : times[i] = log[gone + i].at
        /\ \A i \in 1..gone : log[i].at + RateWindow < t

LEMMA LimiterIsRemembers ==
    LimiterInv <=> runner.at <= now /\ Remembers(lastCmdTimes, yellowLog, now)
BY DEF LimiterInv, Remembers, Forgotten

\* Forgetting what is older than the window, by any clock reading so far.
LEMMA ForgettingIsSafe ==
    ASSUME TypeOK, Remembers(lastCmdTimes, yellowLog, now),
           NEW t \in Nat, t <= now,
           NEW k \in 0..Len(lastCmdTimes), Stale(lastCmdTimes, t, k)
    PROVE  Remembers(Without(lastCmdTimes, k), yellowLog, now)
<1> DEFINE rest == Without(lastCmdTimes, k)
           gone == Len(yellowLog) - Len(lastCmdTimes)
<1>1. /\ Len(lastCmdTimes) \in Nat /\ Len(yellowLog) \in Nat
      /\ \A i \in 1..Len(lastCmdTimes) : lastCmdTimes[i] \in Nat
      /\ now \in Nat
    BY DEF TypeOK
<1>2. /\ Len(rest) = Len(lastCmdTimes) - k
      /\ \A i \in 1..(Len(lastCmdTimes) - k) : rest[i] = lastCmdTimes[k + i]
    BY WithoutType DEF TypeOK
<1>3. /\ gone >= 0
      /\ \A i \in 1..Len(lastCmdTimes) : lastCmdTimes[i] = yellowLog[gone + i].at
      /\ \A i \in 1..gone : yellowLog[i].at + RateWindow < now
    BY DEF Remembers
<1> HIDE DEF rest
<1>4. Len(yellowLog) - Len(rest) = gone + k /\ gone \in Nat /\ k \in Nat
    BY <1>1, <1>2, <1>3
<1>5. ASSUME NEW i \in 1..Len(rest)
      PROVE  rest[i] = yellowLog[(gone + k) + i].at
    <2>1. k + i \in 1..Len(lastCmdTimes) /\ gone + (k + i) = (gone + k) + i
        BY <1>1, <1>2, <1>4
    <2> QED
        BY <1>1, <1>2, <1>3, <2>1
<1>6. ASSUME NEW i \in 1..(gone + k)
      PROVE  yellowLog[i].at + RateWindow < now
    <2>1. CASE i \in 1..gone
        BY <1>3, <2>1
    <2>2. CASE i \notin 1..gone
        <3>1. i - gone \in 1..k /\ i - gone \in 1..Len(lastCmdTimes) /\ gone + (i - gone) = i
            BY <1>1, <1>4, <2>2
        <3>2. lastCmdTimes[i - gone] + RateWindow < t
            BY <3>1 DEF Stale
        <3>3. lastCmdTimes[i - gone] = yellowLog[i].at
            BY <1>3, <3>1
        <3>4. yellowLog[i].at \in Nat
            BY <1>1, <3>1, <3>3
        <3> QED
            BY <1>1, <3>2, <3>3, <3>4, WorkerConstants
    <2> QED
        BY <2>1, <2>2
<1> QED
    BY <1>4, <1>5, <1>6 DEF Remembers, rest

\* Letting a command through: the log and the memory grow together, and the command
\* RateLimit places earlier in the log has been forgotten, hence is old.
LEMMA LettingThroughIsSafe ==
    ASSUME TypeOK, YellowBudget, NEW recent \in Seq(Nat),
           Remembers(recent, yellowLog, now), Len(recent) < RateLimit,
           NEW at \in Nat,
           lastCmdTimes' = Append(recent, at),
           yellowLog' = Append(yellowLog, [at |-> at, began |-> now])
    PROVE  Remembers(lastCmdTimes', yellowLog', now) /\ YellowBudget'
<1> DEFINE entry == [at |-> at, began |-> now]
           gone == Len(yellowLog) - Len(recent)
<1>1. /\ Len(yellowLog) \in Nat /\ Len(recent) \in Nat /\ now \in Nat
      /\ yellowLog \in Seq(YellowEntry) /\ entry \in YellowEntry
      /\ entry.at = at /\ entry.began = now
    BY DEF TypeOK, YellowEntry
<1> HIDE DEF entry
<1>2. /\ yellowLog' \in Seq(YellowEntry)
      /\ Len(yellowLog') = Len(yellowLog) + 1
      /\ \A i \in 1..Len(yellowLog) : yellowLog'[i] = yellowLog[i]
      /\ yellowLog'[Len(yellowLog) + 1] = entry
    BY <1>1, AppendProperties DEF entry
<1>3. /\ Len(lastCmdTimes') = Len(recent) + 1
      /\ \A i \in 1..Len(recent) : lastCmdTimes'[i] = recent[i]
      /\ lastCmdTimes'[Len(recent) + 1] = at
    BY AppendProperties
<1>4. /\ gone \in Nat
      /\ \A i \in 1..Len(recent) : recent[i] = yellowLog[gone + i].at
      /\ \A i \in 1..gone : yellowLog[i].at + RateWindow < now
    BY <1>1 DEF Remembers
<1>5. Len(yellowLog') - Len(lastCmdTimes') = gone
    BY <1>1, <1>2, <1>3
<1>6. ASSUME NEW i \in 1..Len(lastCmdTimes')
      PROVE  lastCmdTimes'[i] = yellowLog'[gone + i].at
    <2>1. CASE i \in 1..Len(recent)
        <3>1. gone + i \in 1..Len(yellowLog)
            BY <1>1, <1>4, <2>1
        <3> QED
            BY <1>2, <1>3, <1>4, <2>1, <3>1
    <2>2. CASE i = Len(recent) + 1
        <3>1. gone + i = Len(yellowLog) + 1
            BY <1>1, <2>2
        <3> QED
            BY <1>1, <1>2, <1>3, <2>2, <3>1
    <2>3. i \in 1..Len(recent) \/ i = Len(recent) + 1
        BY <1>1, <1>3
    <2> QED
        BY <2>1, <2>2, <2>3
<1>7. ASSUME NEW i \in 1..gone
      PROVE  yellowLog'[i].at + RateWindow < now
    <2>1. i \in 1..Len(yellowLog)
        BY <1>1, <1>4
    <2> QED
        BY <1>2, <1>4, <2>1
<1>8. Remembers(lastCmdTimes', yellowLog', now)
    BY <1>4, <1>5, <1>6, <1>7 DEF Remembers
<1>9. ASSUME NEW i \in DOMAIN yellowLog', i + RateLimit \in DOMAIN yellowLog'
      PROVE  yellowLog'[i + RateLimit].began > yellowLog'[i].at + RateWindow
    <2>1. DOMAIN yellowLog' = 1..(Len(yellowLog) + 1) /\ DOMAIN yellowLog = 1..Len(yellowLog)
        <3>1. \A s \in Seq(YellowEntry) : DOMAIN s = 1..Len(s)
            OBVIOUS
        <3>2. DOMAIN yellowLog' = 1..Len(yellowLog') /\ DOMAIN yellowLog = 1..Len(yellowLog)
            BY <1>1, <1>2, <3>1
        <3> QED
            BY <1>2, <3>2
    <2>2. i \in 1..Len(yellowLog) /\ RateLimit \in Nat \ {0}
        BY <1>1, <2>1, <1>9, WorkerConstants
    <2>3. CASE i + RateLimit <= Len(yellowLog)
        <3>1. i + RateLimit \in 1..Len(yellowLog)
            BY <1>1, <2>2, <2>3
        <3> QED
            BY <1>2, <2>1, <2>2, <3>1 DEF YellowBudget
    <2>4. CASE i + RateLimit = Len(yellowLog) + 1
        <3>1. i \in 1..gone
            BY <1>1, <2>2, <2>4
        <3>2. yellowLog[i].at + RateWindow < now
            BY <1>4, <3>1
        <3>3. yellowLog[i] \in YellowEntry
            BY <1>1, <2>2
        <3>4. yellowLog[i].at \in Nat
            BY <3>3 DEF YellowEntry
        <3> QED
            BY <1>1, <1>2, <2>2, <2>4, <3>2, <3>4, WorkerConstants
    <2> QED
        BY <1>1, <1>9, <2>1, <2>2, <2>3, <2>4
<1> QED
    BY <1>8, <1>9 DEF YellowBudget

\* Every step keeps the limiter's account.
LEMMA StepsKeepBudget ==
    ASSUME TypeOK, LimiterInv, YellowBudget, [Next]_vars
    PROVE  LimiterInv' /\ YellowBudget'
<1>1. Remembers(lastCmdTimes, yellowLog, now) /\ runner.at <= now
    BY LimiterIsRemembers
<1>2. CASE RateCheck
    <2>1. PICK k \in 0..Len(lastCmdTimes) :
             /\ Stale(lastCmdTimes, runner.at, k)
             /\ \/ /\ Len(Without(lastCmdTimes, k)) < RateLimit
                   /\ lastCmdTimes' = Append(Without(lastCmdTimes, k), runner.at)
                   /\ yellowLog' = Append(yellowLog, [at |-> runner.at, began |-> now])
                \/ /\ lastCmdTimes' = Without(lastCmdTimes, k)
                   /\ yellowLog' = yellowLog
        BY <1>2 DEF RateCheck
    <2>2. runner.at \in Nat /\ now' = now /\ runner'.at <= now
        <3>1. runner.at \in Nat /\ now \in Nat /\ now' = now
            BY <1>2 DEF RateCheck, TypeOK, RunnerType
        <3>2. runner' = [runner EXCEPT !.pc = "build"] \/ runner' = RunnerAt("select")
            BY <1>2 DEF RateCheck
        <3>3. runner'.at \in {runner.at, 0}
            BY <3>2 DEF RunnerAt, TypeOK, RunnerType
        <3> QED
            BY <1>1, <3>1, <3>3
    <2>3. Remembers(Without(lastCmdTimes, k), yellowLog, now)
        BY <1>1, <2>1, <2>2, ForgettingIsSafe
    <2>4. Without(lastCmdTimes, k) \in Seq(Nat)
        BY WithoutType DEF TypeOK
    <2>5. Remembers(lastCmdTimes', yellowLog', now) /\ YellowBudget'
        <3>1. CASE yellowLog' = yellowLog /\ lastCmdTimes' = Without(lastCmdTimes, k)
            BY <2>3, <3>1 DEF YellowBudget
        <3>2. CASE /\ Len(Without(lastCmdTimes, k)) < RateLimit
                   /\ lastCmdTimes' = Append(Without(lastCmdTimes, k), runner.at)
                   /\ yellowLog' = Append(yellowLog, [at |-> runner.at, began |-> now])
            BY <2>2, <2>3, <2>4, <3>2, LettingThroughIsSafe
        <3> QED
            BY <2>1, <3>1, <3>2
    <2> QED
        BY <2>2, <2>5 DEF LimiterInv, Remembers, Forgotten
<1>3. CASE WaitFlowYellowSlot
    <2>1. PICK k \in 0..Len(lastCmdTimes) :
             Stale(lastCmdTimes, now, k) /\ lastCmdTimes' = Without(lastCmdTimes, k)
        BY <1>3 DEF WaitFlowYellowSlot
    <2>2. now \in Nat /\ now <= now /\ now' = now /\ yellowLog' = yellowLog /\ runner' = runner
        BY <1>3 DEF WaitFlowYellowSlot, TypeOK, history
    <2>3. Remembers(lastCmdTimes', yellowLog, now)
        BY <1>1, <2>1, <2>2, ForgettingIsSafe
    <2> QED
        BY <1>1, <2>2, <2>3 DEF LimiterInv, Remembers, Forgotten, YellowBudget
<1>4. CASE Tick
    <2>1. /\ now' = now + 1 /\ now \in Nat /\ runner' = runner /\ runner.at \in Nat
          /\ lastCmdTimes' = lastCmdTimes /\ yellowLog' = yellowLog
          /\ Len(yellowLog) \in Nat /\ Len(lastCmdTimes) \in Nat
        BY <1>4 DEF Tick, TypeOK, RunnerType, history
    <2>2. ASSUME NEW i \in 1..Forgotten
          PROVE  yellowLog[i].at + RateWindow < now'
        <3>1. yellowLog[i].at + RateWindow < now
            BY DEF LimiterInv
        <3>2. i \in 1..Len(yellowLog)
            BY <2>1 DEF Forgotten
        <3>3. yellowLog[i] \in YellowEntry
            BY <3>2 DEF TypeOK
        <3>4. yellowLog[i].at \in Nat
            BY <3>3 DEF YellowEntry
        <3> QED
            BY <2>1, <3>1, <3>4, WorkerConstants
    <2>3. Forgotten' = Forgotten /\ runner'.at <= now'
        BY <1>1, <2>1 DEF Forgotten
    <2>4. LimiterInv'
        <3>1. Forgotten >= 0 /\ Len(lastCmdTimes') = Len(lastCmdTimes)
            BY <2>1 DEF LimiterInv
        <3>2. \A i \in 1..Len(lastCmdTimes) : lastCmdTimes'[i] = yellowLog'[Forgotten + i].at
            BY <2>1 DEF LimiterInv
        <3> QED
            BY <2>1, <2>2, <2>3, <3>1, <3>2 DEF LimiterInv
    <2> QED
        BY <2>1, <2>4 DEF YellowBudget
<1>5. ASSUME /\ lastCmdTimes' = lastCmdTimes /\ yellowLog' = yellowLog /\ now' = now
             /\ runner'.at \in {runner.at, now, 0}
      PROVE  LimiterInv' /\ YellowBudget'
    BY <1>1, <1>5 DEF LimiterInv, Forgotten, YellowBudget, TypeOK, RunnerType
<1>6. CASE Lifecycle
    BY <1>5, <1>6 DEF Lifecycle, StartDial, StartFail, StartDone, Stop, RunnerAt, history
<1>7. CASE \E c \in Command : Enqueue(c) \/ \E s \in Session \cup {NoOwner} : Submit(c, s)
    BY <1>5, <1>7 DEF Enqueue, Submit, history
<1>8. CASE \E s \in Session : ReleaseSession(s) \/ \E u \in 1..MaxTime : AcquireSession(s, u)
    BY <1>5, <1>8 DEF ReleaseSession, AcquireSession, history
<1>9. CASE EmergencyStop \/ RequireManualCheck \/ ConfirmManualCheck
    BY <1>5, <1>9 DEF EmergencyStop, RequireManualCheck, ConfirmManualCheck, history
<1>10. CASE TakeEmergency \/ NoEmergency \/ TakeCommand \/ TakeStop
    BY <1>5, <1>10 DEF TakeEmergency, NoEmergency, TakeCommand, TakeStop, RunnerAt, history
<1>11. CASE Validate \/ Build \/ Connect \/ Send \/ Finish
    <2>1. runner'.at \in {runner.at, 0}
        BY <1>11 DEF Validate, Build, Connect, Send, Finish, RunnerAt, TypeOK, RunnerType
    <2>2. lastCmdTimes' = lastCmdTimes /\ yellowLog' = yellowLog /\ now' = now
        BY <1>11 DEF Validate, Build, Connect, Send, Finish, history
    <2> QED
        BY <1>5, <2>1, <2>2
<1>12. CASE UNCHANGED vars
    BY <1>5, <1>12 DEF vars, history
<1> QED
    BY <1>2, <1>3, <1>4, <1>6, <1>7, <1>8, <1>9, <1>10, <1>11, <1>12
       DEF Next, Caller, RunLoop

\* However callers, flows and the run loop interleave, RateLimit yellow commands after
\* another one a command is let through only when the window has passed.
THEOREM YellowBudgetSafe == Spec => []YellowBudget
<1>1. Init => LimiterInv /\ YellowBudget
    BY DEF Init, LimiterInv, Forgotten, YellowBudget, RunnerAt
<1>2. TypeOK /\ LimiterInv /\ YellowBudget /\ [Next]_vars => LimiterInv' /\ YellowBudget'
    BY StepsKeepBudget
<1> QED
    BY <1>1, <1>2, TypeCorrect, PTL DEF Spec

-----------------------------------------------------------------------------
(* The worker implements CommandGate: however its callers interleave with  *)
(* the run loop, what they see of it is a gate that gives the instrument   *)
(* to one owner, carries out one command at a time and cancels at once     *)
(* whatever was handed in before a boundary.                               *)

Waiting == {"stamped", "queued", "taken"}

\* A waiting command carries an epoch that has begun and, if it is the current one, the
\* session that owns the instrument.
StampInv ==
    \A c \in Command : phase[c] \in Waiting =>
        /\ stamp[c] <= queueEpoch
        /\ stamp[c] = queueEpoch => sess[c] = sessionOwner

\* A command is at one place: in the channel once, or in the hands of the run loop.
PlacesInv ==
    /\ \A i \in 1 .. Len(cmdQueue) : phase[cmdQueue[i]] = "queued"
    /\ \A i, j \in 1 .. Len(cmdQueue) : cmdQueue[i] = cmdQueue[j] => i = j
    /\ runner.cmd \in Command => phase[runner.cmd] = "taken"

GateInv ==
    /\ StampInv
    /\ PlacesInv
    /\ runner.at <= now
    /\ life \in {"new", "starting"} => state = Unset

-----------------------------------------------------------------------------
(* The invariant.                                                          *)

\* Answering a command takes it out of the waiting ones and leaves the others alone.
LEMMA Answering ==
    ASSUME TypeOK, NEW c \in Command, Respond(c)
    PROVE  /\ phase' \in [Command -> Phase] /\ phase'[c] \notin Waiting
           /\ \A d \in Command : d # c => phase'[d] = phase[d]
BY DEF TypeOK, Respond, Phase, Waiting

\* Nothing is answered for the emergency command.
LEMMA NoAnswer ==
    ASSUME NEW c, c \notin Command, Respond(c)
    PROVE  phase' = phase
BY DEF Respond

\* A new owner or an expired session ends the epoch; stamps of before are older then.
LEMMA OwnerSteps ==
    ASSUME TypeOK, \/ ClearExpiredSession \/ ExpireBeforeExecute
                   \/ \E s, u : NewOwner(s, u)
    PROVE  \/ queueEpoch' = queueEpoch /\ sessionOwner' = sessionOwner /\ sessionUntil' = sessionUntil
           \/ queueEpoch' = queueEpoch + 1
BY DEF TypeOK, ClearExpiredSession, ExpireBeforeExecute, OwnerNow, EpochNow, NewOwner, session

\* A step that moves no command into the waiting ones keeps their stamps in order.
LEMMA StampsStay ==
    ASSUME TypeOK, StampInv,
           \A c \in Command : phase'[c] \in Waiting => phase[c] \in Waiting,
           stamp' = stamp, sess' = sess,
           \/ queueEpoch' = queueEpoch /\ sessionOwner' = sessionOwner
           \/ queueEpoch' = queueEpoch + 1
    PROVE  StampInv'
BY DEF TypeOK, StampInv

\* What callers do to the stamps and the places of commands.
LEMMA CallerKeepsGate ==
    ASSUME TypeOK, RunnerInv, GateInv, Caller
    PROVE  GateInv'
<1> USE DEF GateInv
<1>1. ASSUME NEW c \in Command, NEW s \in Session \cup {NoOwner}, Submit(c, s)
      PROVE  GateInv'
    <2>1. phase[c] = "fresh" /\ \A d \in Command : d # c =>
              phase'[d] = phase[d] /\ stamp'[d] = stamp[d] /\ sess'[d] = sess[d]
        BY <1>1 DEF Submit, TypeOK
    <2>2. phase'[c] \in Waiting => stamp'[c] = queueEpoch' /\ sess'[c] = sessionOwner'
        BY <1>1 DEF Submit, TypeOK, ClearExpiredSession, Waiting
    <2>3. \/ queueEpoch' = queueEpoch /\ sessionOwner' = sessionOwner
          \/ queueEpoch' = queueEpoch + 1
        BY <1>1, OwnerSteps DEF Submit
    <2>4. StampInv'
        <3> SUFFICES ASSUME NEW d \in Command, phase'[d] \in Waiting
                     PROVE  /\ stamp'[d] <= queueEpoch'
                            /\ stamp'[d] = queueEpoch' => sess'[d] = sessionOwner'
            BY DEF StampInv
        <3>1. CASE d = c
            <4>1. queueEpoch' \in Nat
                BY <2>3 DEF TypeOK
            <4> QED
                BY <2>2, <3>1, <4>1
        <3>2. CASE d # c
            <4>1. phase[d] \in Waiting /\ stamp'[d] = stamp[d] /\ sess'[d] = sess[d]
                BY <2>1, <3>2
            <4>2. stamp[d] \in Nat /\ queueEpoch \in Nat
                BY DEF TypeOK
            <4> QED
                BY <2>3, <4>1, <4>2 DEF StampInv
        <3> QED
            BY <3>1, <3>2
    <2>5. PlacesInv'
        <3>1. \A i \in 1 .. Len(cmdQueue) : cmdQueue[i] \in Command
            BY DEF TypeOK
        <3>2. cmdQueue' = cmdQueue /\ runner' = runner
            BY <1>1 DEF Submit
        <3> QED
            BY <2>1, <3>1, <3>2 DEF PlacesInv
    <2> QED
        BY <1>1, <2>4, <2>5 DEF Submit
<1>2. ASSUME NEW c \in Command, Enqueue(c)
      PROVE  GateInv'
    <2>1. phase[c] = "stamped" /\ phase'[c] \in {"queued", "refused"}
          /\ \A d \in Command : d # c => phase'[d] = phase[d]
        BY <1>2 DEF Enqueue, TypeOK
    <2>2. StampInv'
        BY <1>2, <2>1, StampsStay DEF Enqueue, Waiting, session
    <2>3. \A i \in 1 .. Len(cmdQueue) : cmdQueue[i] \in Command /\ cmdQueue[i] # c
        BY <2>1 DEF TypeOK, PlacesInv
    <2>4. PlacesInv'
        <3>1. CASE cmdQueue' = cmdQueue
            BY <1>2, <2>1, <2>3, <3>1 DEF PlacesInv, Enqueue
        <3>2. CASE cmdQueue' = Append(cmdQueue, c) /\ phase'[c] = "queued"
            <4>1. Len(cmdQueue) \in Nat /\ Len(cmdQueue') = Len(cmdQueue) + 1
                  /\ cmdQueue'[Len(cmdQueue) + 1] = c
                  /\ \A i \in 1 .. Len(cmdQueue) : cmdQueue'[i] = cmdQueue[i]
                BY <3>2 DEF TypeOK
            <4>2. \A i \in 1 .. Len(cmdQueue') : i \in 1 .. Len(cmdQueue) \/ i = Len(cmdQueue) + 1
                BY <4>1
            <4>3. runner' = runner
                BY <1>2 DEF Enqueue
            <4>4. \A i \in 1 .. Len(cmdQueue') : phase'[cmdQueue'[i]] = "queued"
                BY <2>1, <2>3, <3>2, <4>1, <4>2 DEF PlacesInv
            <4>5. \A i, j \in 1 .. Len(cmdQueue') : cmdQueue'[i] = cmdQueue'[j] => i = j
                BY <2>3, <4>1, <4>2 DEF PlacesInv
            <4>6. runner'.cmd \in Command => phase'[runner'.cmd] = "taken"
                BY <2>1, <4>3 DEF PlacesInv
            <4> QED
                BY <4>4, <4>5, <4>6 DEF PlacesInv
        <3> QED
            BY <1>2, <2>1, <3>1, <3>2 DEF Enqueue, TypeOK
    <2> QED
        BY <1>2, <2>2, <2>4 DEF Enqueue
<1>3. CASE \/ \E s \in Session : ReleaseSession(s) \/ \E u \in 1..MaxTime : AcquireSession(s, u)
           \/ WaitFlowYellowSlot \/ EmergencyStop \/ RequireManualCheck \/ ConfirmManualCheck
    <2>1. /\ UNCHANGED <<phase, stamp, sess, cmdQueue, runner, now, life>>
          /\ life \in {"new", "starting"} => state' = state
        <3>1. UNCHANGED <<phase, stamp, sess, cmdQueue, runner, now, life>>
            <4>1. CASE \E s \in Session : ReleaseSession(s) \/ \E u \in 1..MaxTime : AcquireSession(s, u)
                BY <4>1 DEF ReleaseSession, AcquireSession, commands
            <4>2. CASE WaitFlowYellowSlot \/ EmergencyStop \/ RequireManualCheck \/ ConfirmManualCheck
                BY <4>2 DEF WaitFlowYellowSlot, EmergencyStop, RequireManualCheck, ConfirmManualCheck, commands
            <4> QED
                BY <1>3, <4>1, <4>2
        <3>2. CASE EmergencyStop \/ RequireManualCheck \/ ConfirmManualCheck
            BY <3>1, <3>2 DEF EmergencyStop, RequireManualCheck, ConfirmManualCheck, started
        <3>3. CASE ~(EmergencyStop \/ RequireManualCheck \/ ConfirmManualCheck)
            BY <1>3, <3>1, <3>3 DEF ReleaseSession, AcquireSession, WaitFlowYellowSlot
        <3> QED
            BY <3>2, <3>3
    <2>2. \/ queueEpoch' = queueEpoch /\ sessionOwner' = sessionOwner
          \/ queueEpoch' = queueEpoch + 1
        BY <1>3 DEF ReleaseSession, AcquireSession, WaitFlowYellowSlot, EmergencyStop,
           RequireManualCheck, ConfirmManualCheck, NewOwner, session
    <2>3. StampInv'
        BY <2>1, <2>2, StampsStay
    <2> QED
        BY <2>1, <2>3 DEF PlacesInv
<1> QED
    BY <1>1, <1>2, <1>3 DEF Caller

\* What the run loop does to them.
LEMMA RunLoopKeepsGate ==
    ASSUME TypeOK, RunnerInv, GateInv, RunLoop
    PROVE  GateInv'
<1> USE DEF GateInv
<1>0. /\ SafeStop \notin Command /\ NoCommand \notin Command
      /\ life \notin {"new", "starting"} /\ UNCHANGED <<life, now, stamp, sess>>
      /\ now \in Nat
    BY WorkerConstants DEF RunnerInv, RunLoop, TakeEmergency, NoEmergency, TakeCommand, TakeStop,
       Validate, RateCheck, Build, Connect, Send, Finish, commands, TypeOK
<1>1. CASE TakeEmergency \/ NoEmergency \/ TakeStop
    <2>1. UNCHANGED <<phase, session, cmdQueue>> /\ runner'.cmd \notin Command /\ runner'.at \in {0, now}
        BY <1>0, <1>1 DEF TakeEmergency, NoEmergency, TakeStop, RunnerAt, commands, session
    <2>2. StampInv'
        BY <1>0, <2>1, StampsStay DEF session
    <2> QED
        BY <1>0, <2>1, <2>2 DEF PlacesInv
<1>2. CASE TakeCommand
    <2> DEFINE c == Head(cmdQueue)
    <2>1. c \in Command /\ c = cmdQueue[1] /\ Len(cmdQueue) \in Nat /\ Len(cmdQueue) >= 1
          /\ Len(cmdQueue') = Len(cmdQueue) - 1
          /\ \A i \in 1 .. Len(cmdQueue') : cmdQueue'[i] = cmdQueue[i + 1]
        BY <1>2, HeadTailProperties DEF TakeCommand, TypeOK
    <2>2. \A i \in 1 .. Len(cmdQueue) : cmdQueue[i] \in Command
        BY DEF TypeOK
    <2>3. phase[c] = "queued" /\ phase'[c] = "taken" /\ runner'.cmd = c /\ runner'.at = now
          /\ \A d \in Command : d # c => phase'[d] = phase[d]
        BY <1>2, <2>1 DEF TakeCommand, TypeOK, PlacesInv
    <2>4. StampInv'
        BY <1>0, <1>2, <2>3, StampsStay DEF TakeCommand, Waiting, session
    <2>5. \A i \in 1 .. Len(cmdQueue') : i + 1 \in 1 .. Len(cmdQueue) /\ i + 1 # 1
        BY <2>1
    <2>6. \A i \in 1 .. Len(cmdQueue') : cmdQueue'[i] \in Command /\ cmdQueue'[i] # c
        BY <2>1, <2>2, <2>5 DEF PlacesInv
    <2>7. \A i \in 1 .. Len(cmdQueue') : phase'[cmdQueue'[i]] = "queued"
        BY <2>1, <2>3, <2>5, <2>6 DEF PlacesInv
    <2>8. \A i, j \in 1 .. Len(cmdQueue') : cmdQueue'[i] = cmdQueue'[j] => i = j
        BY <2>1, <2>5 DEF PlacesInv
    <2> QED
        BY <1>0, <2>3, <2>4, <2>7, <2>8 DEF PlacesInv
<1>3. CASE Validate \/ RateCheck \/ Build \/ Connect \/ Send \/ Finish
    <2>1. cmdQueue' = cmdQueue
        BY <1>3 DEF Validate, RateCheck, Build, Connect, Send, Finish
    <2>2. \/ phase' = phase /\ runner'.cmd = runner.cmd /\ runner'.at = runner.at
          \/ Respond(runner.cmd) /\ runner' = RunnerAt("select")
        BY <1>3 DEF Validate, RateCheck, Build, Connect, Send, Finish, commands, TypeOK, RunnerType
    <2>3. \/ queueEpoch' = queueEpoch /\ sessionOwner' = sessionOwner
          \/ queueEpoch' = queueEpoch + 1
        BY <1>3, OwnerSteps DEF Validate, RateCheck, Build, Connect, Send, Finish, session
    <2>4. runner'.at <= now'
        BY <1>0, <2>2 DEF RunnerAt
    <2>5. CASE phase' = phase /\ runner'.cmd = runner.cmd
        BY <1>0, <2>1, <2>3, <2>4, <2>5, StampsStay DEF PlacesInv
    <2>6. CASE Respond(runner.cmd) /\ runner' = RunnerAt("select")
        <3>1. runner'.cmd \notin Command
            BY <1>0, <2>6 DEF RunnerAt
        <3>2. CASE runner.cmd \in Command
            <4>1. /\ phase'[runner.cmd] \notin Waiting
                  /\ \A d \in Command : d # runner.cmd => phase'[d] = phase[d]
                BY <2>6, <3>2, Answering
            <4>2. StampInv'
                BY <1>0, <2>3, <4>1, StampsStay
            <4>3. \A i \in 1 .. Len(cmdQueue) : cmdQueue[i] \in Command /\ cmdQueue[i] # runner.cmd
                BY <3>2 DEF TypeOK, PlacesInv
            <4>4. PlacesInv'
                BY <2>1, <3>1, <4>1, <4>3 DEF PlacesInv
            <4> QED
                BY <1>0, <2>4, <4>2, <4>4
        <3>3. CASE runner.cmd \notin Command
            <4>1. phase' = phase
                BY <2>6, <3>3, NoAnswer
            <4>2. StampInv'
                BY <1>0, <2>3, <4>1, StampsStay
            <4>3. PlacesInv'
                BY <2>1, <3>1, <4>1 DEF PlacesInv
            <4> QED
                BY <1>0, <2>4, <4>2, <4>3
        <3> QED
            BY <3>2, <3>3
    <2> QED
        BY <2>2, <2>5, <2>6
<1> QED
    BY <1>1, <1>2, <1>3 DEF RunLoop

\* Every reachable state satisfies the invariant.
LEMMA GateInvCorrect == Spec => []GateInv
<1>1. Init => GateInv
    <2> SUFFICES ASSUME Init PROVE GateInv
        OBVIOUS
    <2>1. runner.cmd \notin Command /\ runner.at = 0 /\ now = 0
        BY WorkerConstants DEF Init, RunnerAt
    <2> QED
        BY <2>1 DEF Init, GateInv, StampInv, PlacesInv, Waiting
<1>2. TypeOK /\ RunnerInv /\ GateInv /\ [Next]_vars => GateInv'
    <2> SUFFICES ASSUME TypeOK, RunnerInv, GateInv, [Next]_vars PROVE GateInv'
        OBVIOUS
    <2>1. CASE Lifecycle \/ Tick \/ UNCHANGED vars
        <3>1. UNCHANGED <<commands, session, cmdQueue>> /\ runner'.cmd = runner.cmd /\ runner'.at <= now'
              /\ (life' \in {"new", "starting"} => life \in {"new", "starting"} /\ state' = state)
            BY <2>1 DEF Lifecycle, StartDial, StartFail, StartDone, Stop, Tick, vars, RunnerAt,
               RunnerInv, GateInv, TypeOK, RunnerType
        <3>2. StampInv'
            BY <3>1, StampsStay DEF GateInv, session, commands
        <3> QED
            BY <3>1, <3>2 DEF GateInv, PlacesInv, commands
    <2> QED
        BY <2>1, CallerKeepsGate, RunLoopKeepsGate DEF Next
<1> QED
    BY <1>1, <1>2, TypeCorrect, RunnerCorrect, PTL DEF Spec

-----------------------------------------------------------------------------
(* What the gate sees of the worker.                                       *)

\* The commands that may still begin.
MayBegin == {d \in Command : /\ phase[d] \in {"stamped", "queued", "taken"}
                             /\ ~(WorkInFlight /\ runner.cmd = d)
                             /\ stamp[d] = queueEpoch}

\* The gate's variables, as Gate maps them.
Lapsed == sessionOwner # NoOwner /\ now >= sessionUntil
IsLocked == state = Locked
Live == {<<c, sess[c]>> : c \in MayBegin}
InFlight == IF WorkInFlight \/ runner.cmd = SafeStop THEN runner.cmd ELSE NoCommand

\* Those that may begin were handed in for the owner.
LEMMA LiveIsOwned ==
    ASSUME StampInv
    PROVE  Live = {<<c, sessionOwner>> : c \in MayBegin}
BY DEF Live, MayBegin, StampInv, Waiting

\* So were those of the next state.
LEMMA LiveIsOwnedNext ==
    ASSUME StampInv'
    PROVE  Live' = {<<c, sessionOwner'>> : c \in MayBegin'}
BY DEF Live, MayBegin, StampInv, Waiting

\* The gate sees nothing of a step that changes none of this.
LEMMA GateStutters ==
    ASSUME UNCHANGED <<sessionOwner, Lapsed, IsLocked, emergencyCh, Live, InFlight>>
    PROVE  UNCHANGED Gate!gateVars
BY DEF Gate!gateVars, Lapsed, IsLocked, Live, MayBegin, InFlight

\* A boundary leaves nothing that may begin: every stamp is of an earlier epoch.
LEMMA BoundaryCancels ==
    ASSUME TypeOK, StampInv, StampInv', phase' = phase, stamp' = stamp, queueEpoch' = queueEpoch + 1
    PROVE  Live' = {}
<1>1. \A c \in Command : ~(phase'[c] \in Waiting /\ stamp'[c] = queueEpoch')
    BY DEF TypeOK, StampInv
<1> QED
    BY <1>1 DEF Live, MayBegin, Waiting

\* Pairs with one owner: one command fewer, one more.
LEMMA OnePair ==
    ASSUME NEW S, NEW c, NEW o
    PROVE  /\ {<<d, o>> : d \in S \ {c}} = {<<d, o>> : d \in S} \ {<<c, o>>}
           /\ {<<d, o>> : d \in S \cup {c}} = {<<d, o>> : d \in S} \cup {<<c, o>>}
           /\ <<c, o>> \in {<<d, o>> : d \in S} <=> c \in S
OBVIOUS

Simulated == [Gate!GateNext]_(Gate!gateVars)

\* What the simulation of a step may use.
Known == TypeOK /\ TypeOK' /\ RunnerInv /\ RunnerInv' /\ GateInv /\ GateInv'

\* Submit hands a command in, notices a lapsed session, or does both or neither.
LEMMA SubmitSimulated ==
    ASSUME Known, NEW c \in Command, NEW s \in Session \cup {NoOwner}, Submit(c, s)
    PROVE  Simulated
<1>1. /\ phase[c] = "fresh" /\ phase'[c] \in {"stamped", "refused"}
      /\ \A d \in Command : d # c => phase'[d] = phase[d] /\ stamp'[d] = stamp[d]
      /\ UNCHANGED <<state, emergencyCh, runner, now>>
      /\ phase'[c] = "stamped" => /\ state # Locked /\ s = OwnerNow /\ stamp'[c] = EpochNow
    BY DEF Known, Submit, TypeOK
<1>2. IsLocked' = IsLocked /\ InFlight' = InFlight /\ WorkInFlight' = WorkInFlight
    BY <1>1 DEF IsLocked, InFlight, WorkInFlight
<1>3. c \notin MayBegin /\ c # InFlight /\ ~(WorkInFlight /\ runner.cmd = c)
    BY <1>1, WorkerConstants DEF MayBegin, InFlight, WorkInFlight, Known, GateInv, PlacesInv
<1>4. Live = {<<d, sessionOwner>> : d \in MayBegin} /\ Live' = {<<d, sessionOwner'>> : d \in MayBegin'}
    BY LiveIsOwned, LiveIsOwnedNext DEF Known, GateInv
<1>5. CASE ~SessionExpired
    <2>1. UNCHANGED <<sessionOwner, sessionUntil, queueEpoch>> /\ OwnerNow = sessionOwner /\ EpochNow = queueEpoch
        BY <1>5 DEF Submit, ClearExpiredSession, OwnerNow, EpochNow
    <2>2. Lapsed' = Lapsed
        BY <1>1, <2>1 DEF Lapsed
    <2>3. CASE phase'[c] = "stamped"
        <3>1. MayBegin' = MayBegin \cup {c}
            BY <1>1, <1>2, <1>3, <2>1, <2>3 DEF MayBegin
        <3>2. Live' = Live \cup {<<c, sessionOwner>>} /\ <<c, sessionOwner>> \notin Live
            BY <1>3, <1>4, <2>1, <3>1, OnePair
        <3>3. Gate!HandIn(c)
            BY <1>1, <1>2, <1>3, <2>1, <2>2, <2>3, <3>2 DEF Gate!HandIn, Lapsed, IsLocked, Live, MayBegin, InFlight
        <3> QED
            BY <3>3 DEF Simulated, Gate!GateNext
    <2>4. CASE phase'[c] = "refused"
        <3>1. MayBegin' = MayBegin
            BY <1>1, <1>2, <1>3, <2>1, <2>4 DEF MayBegin
        <3>2. Live' = Live
            BY <1>4, <2>1, <3>1
        <3> QED
            BY <1>1, <1>2, <2>1, <2>2, <3>2, GateStutters DEF Simulated
    <2> QED
        BY <1>1, <2>3, <2>4
<1>6. CASE SessionExpired
    <2>1. /\ sessionOwner # NoOwner /\ sessionOwner' = NoOwner /\ queueEpoch' = queueEpoch + 1
          /\ EpochNow = queueEpoch + 1 /\ Lapsed /\ ~Lapsed'
        BY <1>1, <1>6 DEF Submit, ClearExpiredSession, OwnerNow, EpochNow, SessionExpired, Lapsed, Known, TypeOK
    <2>2. \A d \in MayBegin' : d = c
        <3> SUFFICES ASSUME NEW d \in MayBegin', d # c PROVE FALSE
            OBVIOUS
        <3>1. d \in Command /\ phase[d] \in Waiting /\ stamp[d] = queueEpoch + 1
            BY <1>1, <2>1 DEF MayBegin, Waiting
        <3> QED
            BY <3>1 DEF Known, GateInv, StampInv, TypeOK
    <2>3. CASE phase'[c] = "stamped"
        <3>1. MayBegin' = {c}
            BY <1>1, <1>2, <1>3, <2>1, <2>2, <2>3 DEF MayBegin
        <3>2. Live' = {<<d, NoOwner>> : d \in {c}}
            BY <1>4, <2>1, <3>1
        <3>3. Gate!Expire({c})
            BY <1>1, <1>2, <2>1, <2>3, <3>2 DEF Gate!Expire, Lapsed, IsLocked, Live, MayBegin, InFlight
        <3> QED
            BY <3>3 DEF Simulated, Gate!GateNext
    <2>4. CASE phase'[c] = "refused"
        <3>1. MayBegin' = {}
            BY <2>2, <2>4 DEF MayBegin
        <3>2. Live' = {<<d, NoOwner>> : d \in {}}
            BY <1>4, <2>1, <3>1
        <3>3. Gate!Expire({})
            BY <1>1, <1>2, <2>1, <3>2 DEF Gate!Expire, Lapsed, IsLocked, Live, MayBegin, InFlight
        <3> QED
            BY <3>3 DEF Simulated, Gate!GateNext
    <2> QED
        BY <1>1, <2>3, <2>4
<1> QED
    BY <1>5, <1>6

\* The channel send is nothing to the gate, unless the channel is full.
LEMMA EnqueueSimulated ==
    ASSUME Known, NEW c \in Command, Enqueue(c)
    PROVE  Simulated
<1>1. /\ phase[c] = "stamped" /\ phase'[c] \in {"queued", "refused"}
      /\ \A d \in Command : d # c => phase'[d] = phase[d]
      /\ UNCHANGED <<state, emergencyCh, runner, now, sessionOwner, sessionUntil, queueEpoch, stamp, sess>>
    BY DEF Known, Enqueue, TypeOK, session
<1>2. UNCHANGED <<IsLocked, InFlight, WorkInFlight, Lapsed>>
    BY <1>1 DEF IsLocked, InFlight, WorkInFlight, Lapsed
<1>3. Live = {<<d, sessionOwner>> : d \in MayBegin} /\ Live' = {<<d, sessionOwner'>> : d \in MayBegin'}
    BY LiveIsOwned, LiveIsOwnedNext DEF Known, GateInv
<1>4. CASE phase'[c] = "queued" \/ c \notin MayBegin
    <2>1. MayBegin' = MayBegin
        BY <1>1, <1>2, <1>4 DEF MayBegin
    <2> QED
        BY <1>1, <1>2, <1>3, <2>1, GateStutters DEF Simulated
<1>5. CASE phase'[c] = "refused" /\ c \in MayBegin
    <2>1. MayBegin' = MayBegin \ {c}
        BY <1>1, <1>2, <1>5 DEF MayBegin
    <2>2. Live' = Live \ {<<c, sessionOwner>>} /\ <<c, sessionOwner>> \in Live
        BY <1>1, <1>3, <1>5, <2>1, OnePair
    <2>3. Gate!Drop(c)
        BY <1>1, <1>2, <2>2 DEF Gate!Drop, Lapsed, IsLocked, Live, MayBegin, InFlight
    <2> QED
        BY <2>3 DEF Simulated, Gate!GateNext
<1> QED
    BY <1>1, <1>4, <1>5

\* The boundaries, the confirmation and a flow that counts its yellow commands.
LEMMA OtherCallersSimulated ==
    ASSUME Known,
           \/ \E s \in Session : ReleaseSession(s) \/ \E u \in 1..MaxTime : AcquireSession(s, u)
           \/ WaitFlowYellowSlot \/ EmergencyStop \/ RequireManualCheck \/ ConfirmManualCheck
    PROVE  Simulated
<1>1. ASSUME NEW s, NEW u, NewOwner(s, u), UNCHANGED <<commands, runner>>
      PROVE  Live' = {} /\ InFlight' = InFlight /\ sessionOwner' = s /\ sessionUntil' = u
    <2>1. phase' = phase /\ stamp' = stamp /\ queueEpoch' = queueEpoch + 1 /\ sessionOwner' = s /\ sessionUntil' = u
        BY <1>1 DEF NewOwner, commands
    <2>2. Live' = {}
        BY <2>1, BoundaryCancels DEF Known, GateInv
    <2>3. InFlight' = InFlight
        BY <1>1 DEF InFlight, WorkInFlight
    <2> QED
        BY <2>1, <2>2, <2>3
<1>2. ASSUME NEW s \in Session, ReleaseSession(s)
      PROVE  Simulated
    <2>1. NewOwner(NoOwner, 0) /\ UNCHANGED <<commands, runner, state, emergencyCh>> /\ sessionOwner = s
        BY <1>2 DEF ReleaseSession
    <2>2. sessionOwner # NoOwner /\ ~Lapsed' /\ Live' = {} /\ InFlight' = InFlight /\ sessionOwner' = NoOwner
        BY <1>1, <2>1, WorkerConstants DEF Lapsed
    <2>3. Gate!Release
        BY <2>1, <2>2 DEF Gate!Release, Gate!Boundary, Lapsed, IsLocked, Live, MayBegin, InFlight
    <2> QED
        BY <2>3 DEF Simulated, Gate!GateNext
<1>3. ASSUME NEW s \in Session, NEW u \in 1..MaxTime, AcquireSession(s, u)
      PROVE  Simulated
    <2>1. NewOwner(s, u) /\ UNCHANGED <<commands, runner, state, emergencyCh, now>>
          /\ state # Locked /\ u > now /\ (sessionOwner \in {NoOwner, s} \/ Lapsed)
        BY <1>3 DEF AcquireSession, Lapsed
    <2>2. Live' = {} /\ InFlight' = InFlight /\ sessionOwner' = s /\ sessionUntil' = u
        BY <1>1, <2>1
    <2>3. ~Lapsed'
        BY <2>1, <2>2, WorkerConstants DEF Lapsed, Known, TypeOK
    <2>4. Gate!Acquire(s)
        BY <2>1, <2>2, <2>3 DEF Gate!Acquire, Gate!Boundary, Lapsed, IsLocked, Live, MayBegin, InFlight
    <2> QED
        BY <2>4 DEF Simulated, Gate!GateNext
<1>4. CASE WaitFlowYellowSlot
    BY <1>4, GateStutters DEF WaitFlowYellowSlot, session, commands, Simulated, Lapsed, IsLocked, Live,
       MayBegin, InFlight, WorkInFlight
<1>5. CASE EmergencyStop
    <2>1. NewOwner(NoOwner, 0) /\ UNCHANGED <<commands, runner>> /\ ~emergencyCh /\ emergencyCh' /\ state' = Locked
        BY <1>5 DEF EmergencyStop
    <2>2. ~Lapsed' /\ Live' = {} /\ InFlight' = InFlight /\ sessionOwner' = NoOwner
        BY <1>1, <2>1 DEF Lapsed
    <2>3. Gate!EmergencyStop
        BY <2>1, <2>2 DEF Gate!EmergencyStop, Gate!Boundary, Lapsed, IsLocked, Live, MayBegin, InFlight, Known, TypeOK
    <2> QED
        BY <2>3 DEF Simulated, Gate!GateNext
<1>6. CASE RequireManualCheck
    <2>1. NewOwner(NoOwner, 0) /\ UNCHANGED <<commands, runner, emergencyCh>> /\ state' = Locked
        BY <1>6 DEF RequireManualCheck
    <2>2. ~Lapsed' /\ Live' = {} /\ InFlight' = InFlight /\ sessionOwner' = NoOwner
        BY <1>1, <2>1 DEF Lapsed
    <2>3. Gate!RequireManualCheck
        BY <2>1, <2>2 DEF Gate!RequireManualCheck, Gate!Boundary, Lapsed, IsLocked, Live, MayBegin, InFlight
    <2> QED
        BY <2>3 DEF Simulated, Gate!GateNext
<1>7. CASE ConfirmManualCheck
    <2>1. UNCHANGED <<sessionOwner, sessionUntil, queueEpoch, phase, stamp, sess, runner, now, emergencyCh>>
          /\ state = Locked /\ state' # Locked
        BY <1>7 DEF ConfirmManualCheck, session, commands
    <2>2. UNCHANGED <<Lapsed, Live, InFlight>>
        BY <2>1 DEF Lapsed, Live, MayBegin, InFlight, WorkInFlight
    <2>3. Gate!ConfirmManualCheck
        BY <2>1, <2>2 DEF Gate!ConfirmManualCheck, Lapsed, IsLocked, Live, MayBegin, InFlight
    <2> QED
        BY <2>3 DEF Simulated, Gate!GateNext
<1> QED
    BY <1>2, <1>3, <1>4, <1>5, <1>6, <1>7

\* The clock may make a session lapse; starting and stopping the worker is not seen.
LEMMA LifecycleSimulated ==
    ASSUME Known, Lifecycle \/ Tick \/ UNCHANGED vars
    PROVE  Simulated
<1>1. CASE Lifecycle \/ UNCHANGED vars
    <2>1. UNCHANGED <<sessionOwner, sessionUntil, queueEpoch, phase, stamp, sess, now, emergencyCh>>
          /\ runner'.cmd = runner.cmd /\ (runner' = runner \/ runner.cmd = NoCommand)
        BY <1>1 DEF Lifecycle, StartDial, StartFail, StartDone, Stop, vars, session, commands, RunnerAt,
           RunnerInv, Known
    <2>2. IsLocked' = IsLocked
        BY <1>1 DEF Lifecycle, StartDial, StartFail, StartDone, Stop, vars, IsLocked, Known, GateInv
    <2>3. WorkInFlight' = WorkInFlight
        BY <2>1, WorkerConstants DEF WorkInFlight
    <2>4. UNCHANGED <<Lapsed, Live, InFlight>>
        BY <2>1, <2>3 DEF Lapsed, Live, MayBegin, InFlight
    <2> QED
        BY <2>1, <2>2, <2>4, GateStutters DEF Simulated
<1>2. CASE Tick
    <2>1. UNCHANGED <<sessionOwner, sessionUntil, queueEpoch, phase, stamp, sess, runner, emergencyCh, state>>
          /\ now' = now + 1
        BY <1>2 DEF Tick, session, commands
    <2>2. UNCHANGED <<IsLocked, Live, InFlight>>
        BY <2>1 DEF IsLocked, Live, MayBegin, InFlight, WorkInFlight
    <2>3. CASE Lapsed' = Lapsed
        BY <2>1, <2>2, <2>3, GateStutters DEF Simulated
    <2>4. CASE Lapsed' # Lapsed
        <3>1. sessionOwner # NoOwner /\ Lapsed'
            BY <2>1, <2>4 DEF Lapsed, Known, TypeOK
        <3>2. Gate!Lapse
            BY <2>1, <2>2, <3>1 DEF Gate!Lapse, Lapsed, IsLocked, Live, MayBegin, InFlight
        <3> QED
            BY <3>2 DEF Simulated, Gate!GateNext
    <2> QED
        BY <2>3, <2>4
<1> QED
    BY <1>1, <1>2

\* The run loop takes an emergency stop, a command or its own end.
LEMMA TakingSimulated ==
    ASSUME Known, TakeEmergency \/ NoEmergency \/ TakeStop \/ TakeCommand
    PROVE  Simulated
<1>1. /\ UNCHANGED <<sessionOwner, sessionUntil, queueEpoch, stamp, sess, state, now>>
      /\ runner.pc \in {"select", "wait"} /\ runner.cmd = NoCommand
      /\ runner'.pc \in {"off", "wait", "build", "validate"}
    BY DEF TakeEmergency, NoEmergency, TakeStop, TakeCommand, session, commands, RunnerAt, Known, RunnerInv
<1>2. InFlight = NoCommand /\ ~WorkInFlight
    BY <1>1, WorkerConstants DEF InFlight, WorkInFlight
<1>3. Lapsed' = Lapsed /\ IsLocked' = IsLocked
    BY <1>1 DEF Lapsed, IsLocked
<1>4. Live = {<<d, sessionOwner>> : d \in MayBegin} /\ Live' = {<<d, sessionOwner'>> : d \in MayBegin'}
    BY LiveIsOwned, LiveIsOwnedNext DEF Known, GateInv
<1>5. CASE TakeEmergency
    <2>1. phase' = phase /\ runner'.cmd = SafeStop /\ emergencyCh /\ ~emergencyCh'
        BY <1>5 DEF TakeEmergency, commands
    <2>2. ~WorkInFlight' /\ InFlight' = SafeStop
        BY <2>1, WorkerConstants DEF WorkInFlight, InFlight
    <2>3. Live' = Live
        BY <1>1, <1>2, <2>1, <2>2 DEF Live, MayBegin
    <2>4. Gate!BeginStop
        BY <1>1, <1>2, <1>3, <2>1, <2>2, <2>3 DEF Gate!BeginStop, Lapsed, IsLocked, Live, MayBegin, InFlight
    <2> QED
        BY <2>4 DEF Simulated, Gate!GateNext
<1>6. CASE NoEmergency \/ TakeStop
    <2>1. phase' = phase /\ runner'.cmd = NoCommand /\ emergencyCh' = emergencyCh
        BY <1>6 DEF NoEmergency, TakeStop, commands, RunnerAt
    <2>2. ~WorkInFlight' /\ InFlight' = InFlight
        BY <1>2, <2>1, WorkerConstants DEF WorkInFlight, InFlight
    <2>3. Live' = Live
        BY <1>1, <1>2, <2>1, <2>2 DEF Live, MayBegin
    <2> QED
        BY <1>1, <1>3, <2>1, <2>2, <2>3, GateStutters DEF Simulated
<1>7. CASE TakeCommand
    <2> DEFINE c == Head(cmdQueue)
    <2>1. c \in Command /\ c = cmdQueue[1] /\ 1 \in 1 .. Len(cmdQueue)
        BY <1>7, HeadTailProperties DEF TakeCommand, Known, TypeOK
    <2>2. /\ phase[c] = "queued" /\ phase'[c] = "taken" /\ \A d \in Command : d # c => phase'[d] = phase[d]
          /\ runner'.cmd = c /\ runner'.pc = "validate" /\ emergencyCh' = emergencyCh
        BY <1>7, <2>1 DEF TakeCommand, Known, GateInv, PlacesInv, TypeOK
    <2>3. ~WorkInFlight' /\ InFlight' = InFlight
        BY <1>2, <2>1, <2>2, WorkerConstants DEF WorkInFlight, InFlight
    <2>4. MayBegin' = MayBegin
        BY <1>1, <1>2, <2>2, <2>3 DEF MayBegin
    <2> QED
        BY <1>1, <1>3, <1>4, <2>2, <2>3, <2>4, GateStutters DEF Simulated
<1> QED
    BY <1>5, <1>6, <1>7

\* The validation in execute: a command begins, is dropped, or was cancelled long ago;
\* a lapsed session may be noticed, which cancels it now.
LEMMA ValidateSimulated ==
    ASSUME Known, Validate, NEW c \in Command, c = runner.cmd
    PROVE  Simulated
<1>1. /\ c # SafeStop /\ c # NoCommand /\ phase[c] = "taken"
      /\ InFlight = NoCommand /\ ~WorkInFlight
    BY WorkerConstants DEF Validate, Known, RunnerInv, GateInv, PlacesInv, InFlight, WorkInFlight
<1>2. UNCHANGED <<stamp, sess, state, now, emergencyCh, IsLocked>>
    BY DEF Validate, IsLocked
<1>3. Live = {<<d, sessionOwner>> : d \in MayBegin} /\ Live' = {<<d, sessionOwner'>> : d \in MayBegin'}
    BY LiveIsOwned, LiveIsOwnedNext DEF Known, GateInv
<1>4. c \in MayBegin <=> stamp[c] = queueEpoch
    BY <1>1 DEF MayBegin
<1>5. /\ \A d \in Command : d # c => phase'[d] = phase[d]
      /\ \/ Valid(c) /\ phase' = phase /\ runner'.cmd = c /\ runner'.pc \in {"rate", "build"}
         \/ ~Valid(c) /\ phase'[c] \notin Waiting /\ runner' = RunnerAt("select")
    <2>1. CASE Valid(c)
        BY <2>1 DEF Validate, Known, TypeOK, RunnerType
    <2>2. CASE ~Valid(c)
        BY <1>1, <2>2, Answering DEF Validate, Known
    <2> QED
        BY <2>1, <2>2
<1>6. /\ Valid(c) => WorkInFlight' /\ InFlight' = c
      /\ ~Valid(c) => ~WorkInFlight' /\ InFlight' = NoCommand
    BY <1>1, <1>5, WorkerConstants DEF WorkInFlight, InFlight, RunnerAt
<1>7. CASE ~TakenExpired
    <2>1. UNCHANGED <<sessionOwner, sessionUntil, queueEpoch>>
        BY <1>7 DEF Validate, ExpireBeforeExecute, session
    <2>2. Lapsed' = Lapsed
        BY <1>2, <2>1 DEF Lapsed
    <2>3. CASE Valid(c)
        <3>1. state # Locked /\ c \in MayBegin
            BY <1>4, <2>1, <2>3 DEF Valid
        <3>2. MayBegin' = MayBegin \ {c}
            BY <1>1, <1>2, <1>5, <1>6, <2>1, <2>3, <3>1 DEF MayBegin
        <3>3. Live' = Live \ {<<c, sessionOwner>>} /\ <<c, sessionOwner>> \in Live
            BY <1>3, <2>1, <3>1, <3>2, OnePair
        <3>4. Gate!Begin(c)
            BY <1>1, <1>2, <1>6, <2>1, <2>2, <2>3, <3>1, <3>3
               DEF Gate!Begin, Lapsed, IsLocked, Live, MayBegin, InFlight
        <3> QED
            BY <1>1, <3>4 DEF Simulated, Gate!GateNext
    <2>4. CASE ~Valid(c) /\ c \in MayBegin
        <3>1. MayBegin' = MayBegin \ {c}
            BY <1>1, <1>2, <1>5, <1>6, <2>1, <2>4 DEF MayBegin, Waiting
        <3>2. Live' = Live \ {<<c, sessionOwner>>} /\ <<c, sessionOwner>> \in Live
            BY <1>3, <2>1, <2>4, <3>1, OnePair
        <3>3. Gate!Drop(c)
            BY <1>1, <1>2, <1>6, <2>1, <2>2, <2>4, <3>2
               DEF Gate!Drop, Lapsed, IsLocked, Live, MayBegin, InFlight
        <3> QED
            BY <1>1, <3>3 DEF Simulated, Gate!GateNext
    <2>5. CASE ~Valid(c) /\ c \notin MayBegin
        <3>1. MayBegin' = MayBegin
            BY <1>1, <1>2, <1>5, <1>6, <2>1, <2>5 DEF MayBegin, Waiting
        <3>2. Live' = Live
            BY <1>3, <2>1, <3>1
        <3> QED
            BY <1>1, <1>2, <1>6, <2>1, <2>2, <2>5, <3>2, GateStutters DEF Simulated
    <2> QED
        BY <2>3, <2>4, <2>5
<1>8. CASE TakenExpired
    <2>1. /\ sessionOwner # NoOwner /\ sessionOwner' = NoOwner /\ queueEpoch' = queueEpoch + 1
          /\ runner.at > sessionUntil
        BY <1>8 DEF Validate, ExpireBeforeExecute, NewOwner, TakenExpired
    <2>2. Lapsed /\ ~Lapsed'
        <3>1. runner.at \in Nat /\ now \in Nat /\ sessionUntil \in Nat /\ runner.at <= now
            BY DEF Known, TypeOK, RunnerType, GateInv
        <3> QED
            BY <2>1, <3>1 DEF Lapsed
    <2>3. \A d \in Command : phase[d] \in Waiting => stamp[d] # queueEpoch + 1
        BY DEF Known, GateInv, StampInv, TypeOK
    <2>4. ~Valid(c)
        BY <1>1, <2>1, <2>3 DEF Valid, Waiting
    <2>5. MayBegin' = {}
        BY <1>2, <1>5, <2>1, <2>3, <2>4 DEF MayBegin, Waiting
    <2>6. Live' = {<<d, NoOwner>> : d \in {}}
        BY <1>3, <2>1, <2>5
    <2>7. Gate!Expire({})
        BY <1>1, <1>2, <1>6, <2>1, <2>2, <2>4, <2>6 DEF Gate!Expire, Lapsed, IsLocked, Live, MayBegin, InFlight
    <2> QED
        BY <2>7 DEF Simulated, Gate!GateNext
<1> QED
    BY <1>7, <1>8

\* From the rate check to the end: the gate sees the command carried out, and its end.
LEMMA CarryingOutSimulated ==
    ASSUME Known, RateCheck \/ Build \/ Connect \/ Send \/ Finish
    PROVE  Simulated
<1> DEFINE c == runner.cmd
           Past == {"rate", "build", "connect", "send", "sent", "failed"}
<1>1. c \in Command \cup {SafeStop} /\ runner.pc \in Past
    BY DEF RateCheck, Build, Connect, Send, Finish, Known, RunnerInv
<1>2. InFlight = c /\ c # NoCommand /\ (c \in Command => WorkInFlight) /\ (c = SafeStop => ~WorkInFlight)
    BY <1>1, WorkerConstants DEF InFlight, WorkInFlight
<1>3. UNCHANGED <<sessionOwner, sessionUntil, queueEpoch, stamp, sess, now, emergencyCh, Lapsed>>
    BY DEF RateCheck, Build, Connect, Send, Finish, session, commands, Lapsed
<1>4. \/ phase' = phase /\ state' = state /\ runner'.cmd = c /\ runner'.pc \in Past
      \/ /\ Respond(c) /\ runner' = RunnerAt("select")
         /\ IsLocked' = IsLocked \/ (c = SafeStop /\ IsLocked')
    <2>1. runner \in RunnerType
        BY DEF Known, TypeOK
    <2>2. CASE RateCheck
        BY <2>1, <2>2 DEF RateCheck, SetStateUnlessLocked, IsLocked, RunnerType
    <2>3. CASE Build \/ Connect
        BY <2>1, <2>3 DEF Build, Connect, SetStateUnlessLocked, IsLocked, RunnerType
    <2>4. CASE Send
        BY <2>1, <2>4 DEF Send, commands, RunnerType
    <2>5. CASE Finish
        BY <2>1, <2>5 DEF Finish, SetStateUnlessLocked, IsLocked, RunnerType
    <2> QED
        BY <2>2, <2>3, <2>4, <2>5
<1>5. CASE phase' = phase /\ state' = state /\ runner'.cmd = c /\ runner'.pc \in Past
    <2>1. WorkInFlight' = WorkInFlight /\ InFlight' = InFlight /\ IsLocked' = IsLocked
        BY <1>1, <1>2, <1>5, WorkerConstants DEF WorkInFlight, InFlight, IsLocked
    <2>2. Live' = Live
        BY <1>3, <1>5, <2>1 DEF Live, MayBegin
    <2> QED
        BY <1>3, <2>1, <2>2, GateStutters DEF Simulated
<1>6. CASE /\ Respond(c) /\ runner' = RunnerAt("select")
           /\ IsLocked' = IsLocked \/ (c = SafeStop /\ IsLocked')
    <2>1. runner'.cmd = NoCommand /\ ~WorkInFlight' /\ InFlight' = NoCommand
        BY <1>6, WorkerConstants DEF RunnerAt, WorkInFlight, InFlight
    <2>2. Live = {<<d, sessionOwner>> : d \in MayBegin} /\ Live' = {<<d, sessionOwner'>> : d \in MayBegin'}
        BY LiveIsOwned, LiveIsOwnedNext DEF Known, GateInv
    <2>3. MayBegin' = MayBegin
        <3>1. CASE c \in Command
            <4>1. phase'[c] \notin Waiting /\ \A d \in Command : d # c => phase'[d] = phase[d]
                BY <1>6, <3>1, Answering DEF Known
            <4> QED
                BY <1>2, <1>3, <2>1, <3>1, <4>1 DEF MayBegin, Waiting
        <3>2. CASE c \notin Command
            <4>1. phase' = phase /\ ~WorkInFlight
                BY <1>1, <1>2, <1>6, <3>2, NoAnswer
            <4> QED
                BY <1>3, <2>1, <4>1 DEF MayBegin
        <3> QED
            BY <3>1, <3>2
    <2>4. Live' = Live
        BY <1>3, <2>2, <2>3
    <2>5. Gate!End
        BY <1>2, <1>3, <1>6, <2>1, <2>4 DEF Gate!End, Lapsed, IsLocked, Live, MayBegin, InFlight
    <2> QED
        BY <2>5 DEF Simulated, Gate!GateNext
<1> QED
    BY <1>4, <1>5, <1>6

-----------------------------------------------------------------------------

\* The worker implements CommandGate for any commands, sessions, queue and limits: every
\* boundary cancels in one instant what was handed in before (queueEpoch), a command
\* begins only for the session that then owns the instrument (execute's validation),
\* and none begins while the instrument is locked.
THEOREM WorkerImplementsGate == Spec => ImplementsGate
<1>1. Init => Gate!GateInit
    <2> SUFFICES ASSUME Init PROVE Gate!GateInit
        OBVIOUS
    <2>1. runner.pc = "off" /\ runner.cmd = NoCommand /\ \A c \in Command : phase[c] = "fresh"
        BY DEF Init, RunnerAt
    <2>2. InFlight = NoCommand /\ MayBegin = {} /\ Live = {}
        BY <2>1, WorkerConstants DEF InFlight, WorkInFlight, MayBegin, Live
    <2> QED
        BY <2>2 DEF Init, Gate!GateInit, InFlight, Live, MayBegin
<1>2. Known /\ [Next]_vars => [Gate!GateNext]_(Gate!gateVars)
    <2> SUFFICES ASSUME Known, [Next]_vars PROVE Simulated
        BY DEF Simulated
    <2>1. CASE Caller
        BY <2>1, SubmitSimulated, EnqueueSimulated, OtherCallersSimulated DEF Caller
    <2>2. CASE RunLoop
        <3>1. CASE Validate
            <4>1. runner.cmd \in Command
                BY <3>1 DEF Validate, Known, RunnerInv
            <4> QED
                BY <3>1, <4>1, ValidateSimulated
        <3> QED
            BY <2>2, <3>1, TakingSimulated, CarryingOutSimulated DEF RunLoop
    <2>3. CASE Lifecycle \/ Tick \/ UNCHANGED vars
        BY <2>3, LifecycleSimulated
    <2> QED
        BY <2>1, <2>2, <2>3 DEF Next
<1>3. TypeOK /\ TypeOK' /\ RunnerInv /\ RunnerInv' /\ GateInv /\ GateInv' => Known
    BY DEF Known
<1> QED
    BY <1>1, <1>2, <1>3, TypeCorrect, RunnerCorrect, GateInvCorrect, PTL DEF Spec, ImplementsGate, Gate!GateSpec
=============================================================================
