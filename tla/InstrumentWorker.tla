-------------------------- MODULE InstrumentWorker --------------------------
(***************************************************************************)
(* The worker that serializes the commands sent to one instrument          *)
(* (go-server/instruments/worker.go).  Callers are goroutines of the REST  *)
(* handlers and of flow executors; the run loop is one goroutine.  An      *)
(* action is one critical section of w.mu, one channel operation or one    *)
(* exchange with the instrument, so that callers interleave with the run   *)
(* loop exactly where the code releases the mutex.                         *)
(***************************************************************************)
EXTENDS Integers, Sequences, FiniteSets

CONSTANTS
    Command,      \* the commands callers submit, each at most once
    Yellow,       \* those whose risk is "yellow"
    Session,      \* ids of flow sessions
    NoOwner,      \* sessionOwner = "", and the SessionID of a REST command
    NoCommand,    \* the run loop holds no command
    SafeStop,     \* the run loop holds the emergency command
    HasSafeStop,  \* buildSCPI knows a safe-stop sequence for the instrument
    QueueSize,    \* commandQueueSize
    RateLimit,    \* cfg.RateLimit: yellow sends per window
    RateWindow,   \* cfg.RateWindow
    MaxTime,      \* bound: the clock stops here
    MaxEpoch      \* bound: no ownership boundary is asked for from this epoch on

ASSUME WorkerConstants ==
    /\ Yellow \subseteq Command
    /\ NoOwner \notin Session
    /\ NoCommand \notin Command
    /\ SafeStop \notin Command
    /\ NoCommand # SafeStop
    /\ HasSafeStop \in BOOLEAN
    /\ QueueSize \in Nat
    /\ RateLimit \in Nat \ {0}
    /\ RateWindow \in Nat \ {0}
    /\ MaxTime \in Nat
    /\ MaxEpoch \in Nat

Running == "running"
RateLimited == "rate_limited"
NeedsReconnect == "needs_reconnect"
Error == "error"
Locked == "locked_until_manual_check"
Unset == "unset"   \* the zero value, before Start

WorkerState == {Running, RateLimited, NeedsReconnect, Error, Locked, Unset}

VARIABLES
    life,          \* started: "new", "starting", "failed" or "started"
    stopped,       \* Stop was called
    state,         \* WorkerState
    sessionOwner,
    sessionUntil,
    queueEpoch,
    emergencyCh,   \* the one-place channel holds an emergency command
    cmdQueue,      \* the buffered channel
    connected,     \* conn # nil
    lastCmdTimes,  \* start times of the yellow sends the rate limiter remembers
    runner,        \* the run loop: where it is, its command and when it took it
    phase,         \* where each command is
    sess,          \* the SessionID each command carries
    stamp,         \* the queueEpoch each command carries
    now,           \* the clock
    armed,         \* history: an emergency stop was accepted, no manual check since
    stopSent,      \* history: the safe stop was sent, no manual check since
    yellowLog      \* history: all yellow commands let through: taken at, let through at

session == <<sessionOwner, sessionUntil, queueEpoch>>
commands == <<phase, sess, stamp>>
history == <<armed, stopSent, yellowLog>>
vars == <<life, stopped, state, session, emergencyCh, cmdQueue, connected,
          lastCmdTimes, runner, commands, now, history>>

Phase == {"fresh", "stamped", "queued", "taken", "refused", "answered", "unanswered"}
RunnerPc == {"off", "select", "wait", "validate", "rate", "build", "connect",
             "send", "sent", "failed"}
RunnerType == [pc : RunnerPc, cmd : Command \cup {NoCommand, SafeStop}, at : Nat]
YellowEntry == [at : Nat, began : Nat]

TypeOK ==
    /\ life \in {"new", "starting", "failed", "started"}
    /\ stopped \in BOOLEAN
    /\ state \in WorkerState
    /\ sessionOwner \in Session \cup {NoOwner}
    /\ sessionUntil \in Nat
    /\ queueEpoch \in Nat
    /\ emergencyCh \in BOOLEAN
    /\ cmdQueue \in Seq(Command)
    /\ Len(cmdQueue) <= QueueSize
    /\ connected \in BOOLEAN
    /\ lastCmdTimes \in Seq(Nat)
    /\ runner \in RunnerType
    /\ phase \in [Command -> Phase]
    /\ sess \in [Command -> Session \cup {NoOwner}]
    /\ stamp \in [Command -> Nat]
    /\ now \in Nat
    /\ armed \in BOOLEAN
    /\ stopSent \in BOOLEAN
    /\ yellowLog \in Seq(YellowEntry)

-----------------------------------------------------------------------------
(* Helpers.                                                                *)

\* The run loop at pc with no command.
RunnerAt(pc) == [pc |-> pc, cmd |-> NoCommand, at |-> 0]

started == life = "started"

\* Submit and execute notice a session whose time is up.
SessionExpired == sessionOwner # NoOwner /\ now > sessionUntil
OwnerNow == IF SessionExpired THEN NoOwner ELSE sessionOwner
EpochNow == IF SessionExpired THEN queueEpoch + 1 ELSE queueEpoch
ClearExpiredSession ==
    /\ sessionOwner' = OwnerNow
    /\ sessionUntil' = IF SessionExpired THEN 0 ELSE sessionUntil
    /\ queueEpoch' = EpochNow

\* An ownership boundary: everything stamped so far becomes invalid.
NewOwner(s, until) ==
    /\ queueEpoch' = queueEpoch + 1
    /\ sessionOwner' = s
    /\ sessionUntil' = until

\* Mutant: the state is set whether or not the instrument is locked.
SetStateAlways(new) == state' = new

SetStateUnlessLocked(new) == state' = IF state = Locked THEN Locked ELSE new

\* Mutant: an entry exactly RateWindow old is forgotten.
StaleTooSoon(times, t, k) ==
    /\ \A i \in 1..k : times[i] + RateWindow <= t
    /\ k < Len(times) => times[k + 1] + RateWindow > t

\* The first k entries, and no more at the front, are before t - RateWindow.
Stale(times, t, k) ==
    /\ \A i \in 1..k : times[i] + RateWindow < t
    /\ k < Len(times) => times[k + 1] + RateWindow >= t

Without(times, k) == SubSeq(times, k + 1, Len(times))

\* The result goes to the caller; once stopCh is closed it may be dropped.
Respond(c) ==
    IF c \in Command
    THEN \E p \in {"answered"} \cup (IF stopped THEN {"unanswered"} ELSE {}) :
            phase' = [phase EXCEPT ![c] = p]
    ELSE UNCHANGED phase

-----------------------------------------------------------------------------
(* Start and Stop.                                                         *)

Init ==
    /\ life = "new"
    /\ stopped = FALSE
    /\ state = Unset
    /\ sessionOwner = NoOwner
    /\ sessionUntil = 0
    /\ queueEpoch = 0
    /\ emergencyCh = FALSE
    /\ cmdQueue = <<>>
    /\ connected = FALSE
    /\ lastCmdTimes = <<>>
    /\ runner = RunnerAt("off")
    /\ phase = [c \in Command |-> "fresh"]
    /\ sess = [c \in Command |-> NoOwner]
    /\ stamp = [c \in Command |-> 0]
    /\ now = 0
    /\ armed = FALSE
    /\ stopSent = FALSE
    /\ yellowLog = <<>>

\* Start checks started and stopped, then dials without the mutex.
StartDial ==
    /\ life = "new"
    /\ ~stopped
    /\ life' = "starting"
    /\ UNCHANGED <<stopped, state, session, emergencyCh, cmdQueue, connected,
                   lastCmdTimes, runner, commands, now, history>>

\* The dial failed: the run loop never exists (main.go does not start again).
StartFail ==
    /\ life = "starting"
    /\ life' = "failed"
    /\ state' = NeedsReconnect
    /\ UNCHANGED <<stopped, session, emergencyCh, cmdQueue, connected,
                   lastCmdTimes, runner, commands, now, history>>

\* The dial succeeded: unless Stop came first the run loop begins.
StartDone ==
    /\ life = "starting"
    /\ \/ /\ stopped
          /\ life' = "failed"
          /\ UNCHANGED <<state, connected, runner>>
       \/ /\ ~stopped
          /\ life' = "started"
          /\ state' = Running
          /\ connected' = TRUE
          /\ runner' = RunnerAt("select")
    /\ UNCHANGED <<stopped, session, emergencyCh, cmdQueue, lastCmdTimes,
                   commands, now, history>>

\* Stop closes stopCh; when no run loop exists it closes the connection itself.
Stop ==
    /\ ~stopped
    /\ stopped' = TRUE
    /\ connected' = (started /\ connected)
    /\ UNCHANGED <<life, state, session, emergencyCh, cmdQueue, lastCmdTimes,
                   runner, commands, now, history>>

-----------------------------------------------------------------------------
(* Callers.                                                                *)

\* Submit's critical section: the command is stamped with the epoch or refused.
Submit(c, s) ==
    /\ phase[c] = "fresh"
    /\ life \in {"failed", "started"}
    /\ LET accepted == started /\ ~stopped /\ state # Locked /\ s = OwnerNow
       IN  /\ phase' = [phase EXCEPT ![c] = IF accepted THEN "stamped" ELSE "refused"]
           /\ stamp' = [stamp EXCEPT ![c] = IF accepted THEN EpochNow ELSE 0]
    /\ sess' = [sess EXCEPT ![c] = s]
    /\ ClearExpiredSession
    /\ UNCHANGED <<life, stopped, state, emergencyCh, cmdQueue, connected,
                   lastCmdTimes, runner, now, history>>

\* Mutant: the channel has no capacity.
EnqueueUnbounded(c) ==
    /\ phase[c] = "stamped"
    /\ cmdQueue' = Append(cmdQueue, c)
    /\ phase' = [phase EXCEPT ![c] = "queued"]
    /\ UNCHANGED <<life, stopped, state, session, emergencyCh, connected,
                   lastCmdTimes, runner, sess, stamp, now, history>>

\* Submit's non-blocking send, after the mutex was released.
Enqueue(c) ==
    /\ phase[c] = "stamped"
    /\ IF Len(cmdQueue) < QueueSize
       THEN /\ cmdQueue' = Append(cmdQueue, c)
            /\ phase' = [phase EXCEPT ![c] = "queued"]
       ELSE /\ phase' = [phase EXCEPT ![c] = "refused"]
            /\ UNCHANGED cmdQueue
    /\ UNCHANGED <<life, stopped, state, session, emergencyCh, connected,
                   lastCmdTimes, runner, sess, stamp, now, history>>

\* A flow takes the instrument until its deadline.
AcquireSession(s, until) ==
    /\ until > now
    /\ started /\ ~stopped
    /\ sessionOwner = NoOwner \/ now >= sessionUntil \/ sessionOwner = s
    /\ state # Locked
    /\ queueEpoch < MaxEpoch
    /\ NewOwner(s, until)
    /\ UNCHANGED <<life, stopped, state, emergencyCh, cmdQueue, connected,
                   lastCmdTimes, runner, commands, now, history>>

\* Mutant: releasing a session does not start a new epoch.
ReleaseWithoutEpoch(s) ==
    /\ sessionOwner = s
    /\ sessionOwner' = NoOwner
    /\ sessionUntil' = 0
    /\ UNCHANGED <<queueEpoch, life, stopped, state, emergencyCh, cmdQueue,
                   connected, lastCmdTimes, runner, commands, now, history>>

\* A flow gives the instrument back (or the reaper does for it).
ReleaseSession(s) ==
    /\ sessionOwner = s
    /\ NewOwner(NoOwner, 0)
    /\ UNCHANGED <<life, stopped, state, emergencyCh, cmdQueue, connected,
                   lastCmdTimes, runner, commands, now, history>>

\* A flow looks at its yellow budget, which forgets old sends.
WaitFlowYellowSlot ==
    /\ life \in {"failed", "started"}
    /\ \E k \in 0..Len(lastCmdTimes) :
          /\ Stale(lastCmdTimes, now, k)
          /\ lastCmdTimes' = Without(lastCmdTimes, k)
    /\ UNCHANGED <<life, stopped, state, session, emergencyCh, cmdQueue,
                   connected, runner, commands, now, history>>

\* Any member stops the instrument: the channel send, the boundary and the lock
\* are one critical section.
EmergencyStop ==
    /\ started /\ ~stopped
    /\ ~emergencyCh
    /\ queueEpoch < MaxEpoch
    /\ emergencyCh' = TRUE
    /\ NewOwner(NoOwner, 0)
    /\ state' = Locked
    /\ armed' = TRUE
    /\ UNCHANGED <<life, stopped, cmdQueue, connected, lastCmdTimes, runner,
                   commands, now, stopSent, yellowLog>>

\* A flow could not record what it did to the hardware.
RequireManualCheck ==
    /\ life \in {"failed", "started"}
    /\ queueEpoch < MaxEpoch
    /\ NewOwner(NoOwner, 0)
    /\ state' = Locked
    /\ UNCHANGED <<life, stopped, emergencyCh, cmdQueue, connected,
                   lastCmdTimes, runner, commands, now, history>>

\* A maintainer confirms the check.
ConfirmManualCheck ==
    /\ state = Locked
    /\ state' = Running
    /\ armed' = FALSE
    /\ stopSent' = FALSE
    /\ UNCHANGED <<life, stopped, session, emergencyCh, cmdQueue, connected,
                   lastCmdTimes, runner, commands, now, yellowLog>>

-----------------------------------------------------------------------------
(* The run loop.                                                           *)

\* Mutant: the blocking select does not listen to the emergency channel.
TakeEmergencyOnlyFirst ==
    /\ runner.pc = "select"
    /\ emergencyCh
    /\ emergencyCh' = FALSE
    /\ runner' = [pc |-> "build", cmd |-> SafeStop, at |-> now]
    /\ UNCHANGED <<life, stopped, state, session, cmdQueue, connected,
                   lastCmdTimes, commands, now, history>>

\* The loop received the emergency command; execute goes straight to buildSCPI.
TakeEmergency ==
    /\ runner.pc \in {"select", "wait"}
    /\ emergencyCh
    /\ emergencyCh' = FALSE
    /\ runner' = [pc |-> "build", cmd |-> SafeStop, at |-> now]
    /\ UNCHANGED <<life, stopped, state, session, cmdQueue, connected,
                   lastCmdTimes, commands, now, history>>

\* The first select found no emergency.
NoEmergency ==
    /\ runner.pc = "select"
    /\ ~emergencyCh
    /\ runner' = RunnerAt("wait")
    /\ UNCHANGED <<life, stopped, state, session, emergencyCh, cmdQueue,
                   connected, lastCmdTimes, commands, now, history>>

TakeCommand ==
    /\ runner.pc = "wait"
    /\ cmdQueue # <<>>
    /\ cmdQueue' = Tail(cmdQueue)
    /\ runner' = [pc |-> "validate", cmd |-> Head(cmdQueue), at |-> now]
    /\ phase' = [phase EXCEPT ![Head(cmdQueue)] = "taken"]
    /\ UNCHANGED <<life, stopped, state, session, emergencyCh, connected,
                   lastCmdTimes, sess, stamp, now, history>>

TakeStop ==
    /\ runner.pc = "wait"
    /\ stopped
    /\ runner' = RunnerAt("off")
    /\ connected' = FALSE
    /\ UNCHANGED <<life, stopped, state, session, emergencyCh, cmdQueue,
                   lastCmdTimes, commands, now, history>>

\* execute's first critical section: was the command's permission to run lost?
\* The code compares with the time it took the command, which is runner.at.
Valid(c) == state # Locked /\ stamp[c] = queueEpoch' /\ sess[c] = sessionOwner'

TakenExpired == sessionOwner # NoOwner /\ runner.at > sessionUntil

ExpireBeforeExecute ==
    IF TakenExpired THEN NewOwner(NoOwner, 0) ELSE UNCHANGED session

\* Mutant: a cancelled command gets no response.
ValidateWithoutResponse ==
    /\ runner.pc = "validate"
    /\ ExpireBeforeExecute
    /\ runner' = IF Valid(runner.cmd)
                 THEN [runner EXCEPT !.pc = IF runner.cmd \in Yellow THEN "rate" ELSE "build"]
                 ELSE RunnerAt("select")
    /\ UNCHANGED <<life, stopped, state, emergencyCh, cmdQueue, connected,
                   lastCmdTimes, commands, now, history>>

\* A valid command goes on, another one is answered "cancelled".
Validate ==
    /\ runner.pc = "validate"
    /\ ExpireBeforeExecute
    /\ IF Valid(runner.cmd)
       THEN /\ runner' = [runner EXCEPT !.pc = IF runner.cmd \in Yellow THEN "rate" ELSE "build"]
            /\ UNCHANGED phase
       ELSE /\ Respond(runner.cmd)
            /\ runner' = RunnerAt("select")
    /\ UNCHANGED <<life, stopped, state, emergencyCh, cmdQueue, connected,
                   lastCmdTimes, sess, stamp, now, history>>

\* rateLimitExceeded and recordCmdTime, both with the time of taking the command.
RateCheck ==
    /\ runner.pc = "rate"
    /\ \E k \in 0..Len(lastCmdTimes) :
          /\ Stale(lastCmdTimes, runner.at, k)
          /\ LET recent == Without(lastCmdTimes, k)
             IN  IF Len(recent) < RateLimit
                 THEN /\ lastCmdTimes' = Append(recent, runner.at)
                      /\ yellowLog' = Append(yellowLog, [at |-> runner.at, began |-> now])
                      /\ runner' = [runner EXCEPT !.pc = "build"]
                      /\ UNCHANGED <<state, phase>>
                 ELSE /\ lastCmdTimes' = recent
                      /\ SetStateUnlessLocked(RateLimited)
                      /\ Respond(runner.cmd)
                      /\ runner' = RunnerAt("select")
                      /\ UNCHANGED yellowLog
    /\ UNCHANGED <<life, stopped, session, emergencyCh, cmdQueue, connected,
                   sess, stamp, now, armed, stopSent>>

\* buildSCPI: the emergency sequence exists or not; RenderSCPI may refuse a command.
Build ==
    /\ runner.pc = "build"
    /\ \/ /\ runner.cmd = SafeStop => HasSafeStop
          /\ runner' = [runner EXCEPT !.pc = "connect"]
          /\ UNCHANGED <<state, phase>>
       \/ /\ runner.cmd = SafeStop => ~HasSafeStop
          /\ SetStateUnlessLocked(Error)
          /\ Respond(runner.cmd)
          /\ runner' = RunnerAt("select")
    /\ UNCHANGED <<life, stopped, session, emergencyCh, cmdQueue, connected,
                   lastCmdTimes, sess, stamp, now, history>>

\* A missing connection is dialled once; failure gives the command up.
Connect ==
    /\ runner.pc = "connect"
    /\ \/ /\ connected' = TRUE
          /\ runner' = [runner EXCEPT !.pc = "send"]
          /\ UNCHANGED <<state, phase>>
       \/ /\ ~connected
          /\ UNCHANGED connected
          /\ SetStateUnlessLocked(NeedsReconnect)
          /\ Respond(runner.cmd)
          /\ runner' = RunnerAt("select")
    /\ UNCHANGED <<life, stopped, session, emergencyCh, cmdQueue, lastCmdTimes,
                   sess, stamp, now, history>>

\* The exchange with the instrument, without the mutex.
Send ==
    /\ runner.pc = "send"
    /\ \/ /\ runner' = [runner EXCEPT !.pc = "sent"]
          /\ stopSent' = (stopSent \/ runner.cmd = SafeStop)
          /\ UNCHANGED connected
       \/ /\ runner' = [runner EXCEPT !.pc = "failed"]
          /\ connected' = FALSE
          /\ UNCHANGED stopSent
    /\ UNCHANGED <<life, stopped, state, session, emergencyCh, cmdQueue,
                   lastCmdTimes, commands, now, armed, yellowLog>>

\* Mutant: execute trusts the lock EmergencyStop took.
FinishWithoutRelock ==
    /\ runner.pc \in {"sent", "failed"}
    /\ \/ runner.cmd = SafeStop /\ UNCHANGED state
       \/ /\ runner.cmd # SafeStop
          /\ SetStateUnlessLocked(IF runner.pc = "sent" THEN Running ELSE NeedsReconnect)
    /\ Respond(runner.cmd)
    /\ runner' = RunnerAt("select")
    /\ UNCHANGED <<life, stopped, session, emergencyCh, cmdQueue, connected,
                   lastCmdTimes, sess, stamp, now, history>>

\* After the exchange: the new state, then the response.
Finish ==
    /\ runner.pc \in {"sent", "failed"}
    /\ \/ runner.cmd = SafeStop /\ state' = Locked
       \/ /\ runner.cmd # SafeStop
          /\ SetStateUnlessLocked(IF runner.pc = "sent" THEN Running ELSE NeedsReconnect)
    /\ Respond(runner.cmd)
    /\ runner' = RunnerAt("select")
    /\ UNCHANGED <<life, stopped, session, emergencyCh, cmdQueue, connected,
                   lastCmdTimes, sess, stamp, now, history>>

Tick ==
    /\ now < MaxTime
    /\ now' = now + 1
    /\ UNCHANGED <<life, stopped, state, session, emergencyCh, cmdQueue,
                   connected, lastCmdTimes, runner, commands, history>>

-----------------------------------------------------------------------------

Caller ==
    \/ \E c \in Command : Enqueue(c) \/ \E s \in Session \cup {NoOwner} : Submit(c, s)
    \/ \E s \in Session : ReleaseSession(s) \/ \E u \in 1..MaxTime : AcquireSession(s, u)
    \/ WaitFlowYellowSlot
    \/ EmergencyStop
    \/ RequireManualCheck
    \/ ConfirmManualCheck

RunLoop ==
    \/ TakeEmergency
    \/ NoEmergency
    \/ TakeCommand
    \/ TakeStop
    \/ Validate
    \/ RateCheck
    \/ Build
    \/ Connect
    \/ Send
    \/ Finish

Lifecycle == StartDial \/ StartFail \/ StartDone \/ Stop

Next == Caller \/ RunLoop \/ Lifecycle \/ Tick

Spec == Init /\ [][Next]_vars

\* The run loop is a goroutine and every Submit reaches its channel send.
Fairness == WF_vars(RunLoop) /\ \A c \in Command : WF_vars(Enqueue(c))

FairSpec == Spec /\ Fairness

-----------------------------------------------------------------------------
(* Properties.                                                             *)

\* A normal command passed execute's validation and has not been answered.
WorkInFlight == runner.cmd \in Command /\ runner.pc \in {"rate", "build", "connect", "send", "sent", "failed"}

\* From the moment an emergency stop is accepted until a maintainer confirms the
\* manual check the instrument stays locked and belongs to no flow, whatever the
\* command that was in flight reports when it ends (setStateUnlessLocked) and
\* whatever flow tries to take the instrument meanwhile.
EmergencyLockHolds == armed => state = Locked /\ sessionOwner = NoOwner

\* Once the safe-stop sequence is on the wire no normal command is in flight and
\* none begins before a manual check, even when the check that released the lock
\* was confirmed before the sequence was sent (execute locks again afterwards).
SafeStopIsLast ==
    stopSent => /\ ~WorkInFlight
                /\ state = Locked \/ runner.cmd = SafeStop

\* The rate limiter: RateLimit yellow commands after another one, a command is let
\* through only when more than RateWindow has passed since the other was taken,
\* although the limiter compares the time the run loop took the command and a
\* waiting flow prunes with its own, later, clock reading in between.
YellowBudget ==
    \A i \in DOMAIN yellowLog :
        i + RateLimit \in DOMAIN yellowLog =>
            yellowLog[i + RateLimit].began > yellowLog[i].at + RateWindow

\* What the worker promises, as the module CommandGate states it.  A command is
\* live while it carries the current epoch and has not begun.
Gate == INSTANCE CommandGate WITH
    Idle <- NoCommand,
    owner <- sessionOwner,
    lapsed <- (sessionOwner # NoOwner /\ now >= sessionUntil),
    locked <- (state = Locked),
    stopQueued <- emergencyCh,
    live <- {<<c, sess[c]>> : c \in {d \in Command :
                 /\ phase[d] \in {"stamped", "queued", "taken"}
                 /\ ~(WorkInFlight /\ runner.cmd = d)
                 /\ stamp[d] = queueEpoch}},
    inflight <- (IF WorkInFlight \/ runner.cmd = SafeStop THEN runner.cmd ELSE NoCommand)

\* Every step of the worker is a step of the gate, or none of its steps: an
\* ownership boundary cancels in one instant whatever is stamped, queued or taken,
\* and a command begins only for the session that then owns the instrument.
ImplementsGate == Gate!GateSpec

\* A command that Submit stamped is refused by the full queue or answered, whatever
\* boundaries, failures and emergency stops come between, unless the worker stops.
StampedIsAnswered ==
    \A c \in Command : phase[c] = "stamped" ~> (phase[c] \in {"refused", "answered"} \/ stopped)

\* Every accepted emergency stop is taken up by the run loop unless it is stopped.
EmergencyIsServed == emergencyCh ~> (~emergencyCh \/ stopped)

-----------------------------------------------------------------------------
(* Inductive invariants, proved in InstrumentWorkerProofs.                 *)

\* What the run loop holds at each place.
RunnerInv ==
    /\ runner.pc \in {"off", "select", "wait"} => runner.cmd = NoCommand
    /\ runner.pc \in {"validate", "rate"} => runner.cmd \in Command
    /\ runner.pc \in {"build", "connect", "send", "sent", "failed"} =>
          runner.cmd \in Command \cup {SafeStop}
    /\ life # "started" => runner.pc = "off"

\* EmergencyLockHolds and SafeStopIsLast, strengthened: nothing has happened before
\* the run loop exists, and only the loop that has just sent the safe stop may be
\* unlocked after it.
LockInv ==
    /\ life \in {"new", "starting"} => ~armed /\ ~stopSent
    /\ EmergencyLockHolds
    /\ stopSent => /\ ~WorkInFlight
                   /\ state = Locked \/ (runner.cmd = SafeStop /\ runner.pc = "sent")

\* The limiter remembers the tail of yellowLog, and what it forgot is old.
Forgotten == Len(yellowLog) - Len(lastCmdTimes)

LimiterInv ==
    /\ runner.at <= now
    /\ Forgotten >= 0
    /\ \A i \in 1..Len(lastCmdTimes) : lastCmdTimes[i] = yellowLog[Forgotten + i].at
    /\ \A i \in 1..Forgotten : yellowLog[i].at + RateWindow < now
=============================================================================
