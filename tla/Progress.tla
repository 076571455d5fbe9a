------------------------------ MODULE Progress ------------------------------
(***************************************************************************)
(* What must eventually happen, checked under fairness: small instances of *)
(* InstrumentWorker, AgentQueue, WebSession and UpdateStream explored as   *)
(* one state machine.  A behaviour is one of the component it starts in;   *)
(* the variables of the others keep their initial values.                  *)
(***************************************************************************)
EXTENDS Integers

CONSTANTS NoOwner, NoCommand, SafeStop, NoTask   \* model values

VARIABLES
    focus,   \* the component
    life, stopped, state, sessionOwner, sessionUntil, queueEpoch, emergencyCh, cmdQueue,
    connected, lastCmdTimes, runner, phase, sess, stamp, now, armed, stopSent, yellowLog,
    row, cand, worker, network, reviewer, origin, runs, alerted, faults,
    tab, req, flight, jar, live, expired, issued, logins, keys, account, trouble,
    ui, net, db

workerOnly == <<life, stopped, state, sessionOwner, sessionUntil, queueEpoch, emergencyCh,
                cmdQueue, connected, lastCmdTimes, runner, phase, sess, stamp, now, armed,
                stopSent, yellowLog>>
queueOnly == <<row, cand, worker, network, reviewer, origin, runs, alerted, faults>>
sessionOnly == <<tab, req, flight, jar, live, expired, issued, logins, keys, account, trouble>>
updateOnly == <<ui, net, db>>
vars == <<focus, workerOnly, queueOnly, sessionOnly, updateOnly>>

Commands == {"c1", "c2"}
Tasks == {"t1", "t2"}
Workers == {"w1"}
Tabs == {"t"}
Kinds == {"me", "get"}

\* Two callers, one of them yellow, one session, an emergency stop.
InWorker == INSTANCE InstrumentWorker WITH
    Command <- Commands, Yellow <- {"c1"}, Session <- {"s1"}, HasSafeStop <- TRUE,
    QueueSize <- 1, RateLimit <- 1, RateWindow <- 1, MaxTime <- 1, MaxEpoch <- 1

\* Two tasks in the queue of a worker, with one fault.
InQueue == INSTANCE AgentQueue WITH
    Task <- Tasks, Worker <- Workers, Reviewer <- {}, MaxAttempts <- 3, MaxTries <- 3,
    LeaseTicks <- 1, MaxFaults <- 1

\* A tab whose user may have to change the password, with one trouble.
InSession == INSTANCE WebSession WITH
    Tab <- Tabs, Kind <- Kinds, Account <- {"maintainer", "newcomer"},
    Target <- {"admin", "review"}, MaxLogin <- 2, MaxTrouble <- 1

\* An update with a line, a crash of the server and one trouble.
InUpdate == INSTANCE UpdateStream WITH
    MaxLines <- 1, MaxCrash <- 1, MaxTrouble <- 1, MaxAttempts <- 2, Buffer <- 2

Init ==
    /\ focus \in {"worker", "queue", "session", "update"}
    /\ InWorker!Init /\ InQueue!Init /\ InSession!Init /\ InUpdate!Init
    /\ focus # "session" =>
          account = "newcomer" /\ \A t \in Tabs : tab[t].target = "admin"

AtWorker == focus = "worker" /\ UNCHANGED <<focus, queueOnly, sessionOnly, updateOnly>>
AtQueue == focus = "queue" /\ UNCHANGED <<focus, workerOnly, sessionOnly, updateOnly>>
AtSession == focus = "session" /\ UNCHANGED <<focus, workerOnly, queueOnly, updateOnly>>
AtUpdate == focus = "update" /\ UNCHANGED <<focus, workerOnly, queueOnly, sessionOnly>>

Next ==
    \/ AtWorker /\ InWorker!Next
    \/ AtQueue /\ InQueue!Next
    \/ AtSession /\ InSession!Next
    \/ AtUpdate /\ InUpdate!Next

\* The fairness each component assumes, of its own behaviours.
WorkerRuns ==
    /\ WF_vars(AtWorker /\ InWorker!RunLoop)
    /\ \A c \in Commands : WF_vars(AtWorker /\ InWorker!Enqueue(c))
QueueRuns ==
    /\ \A t \in Tasks : /\ WF_vars(AtQueue /\ InQueue!LeaseTick(t))
                        /\ WF_vars(AtQueue /\ InQueue!BackoffElapses(t))
    /\ \A w \in Workers : /\ WF_vars(AtQueue /\ InQueue!Poll(w))
                          /\ WF_vars(AtQueue /\ InQueue!Parsed(w))
                          /\ WF_vars(AtQueue /\ InQueue!Renew(w))
                          /\ WF_vars(AtQueue /\ InQueue!Serve(w))
SessionRuns ==
    \A t \in Tabs : /\ WF_vars(AtSession /\ InSession!Route(t))
                    /\ \A k \in Kinds : WF_vars(AtSession /\ InSession!Progress(t, k))
                    /\ \A w \in InSession!Flight : WF_vars(AtSession /\ InSession!Refresh(t, w))
UpdateRuns ==
    /\ WF_vars(AtUpdate /\ InUpdate!Restart)
    /\ WF_vars(AtUpdate /\ InUpdate!NoteRunner)
    /\ WF_vars(AtUpdate /\ InUpdate!TailLine)
    /\ WF_vars(AtUpdate /\ InUpdate!GiveUp)
    /\ WF_vars(AtUpdate /\ InUpdate!FindMarker)
    /\ WF_vars(AtUpdate /\ InUpdate!Finish)
    /\ WF_vars(AtUpdate /\ InUpdate!FinishFiles)
    /\ WF_vars(AtUpdate /\ InUpdate!Subscription)
    /\ WF_vars(AtUpdate /\ InUpdate!Connect)
    /\ WF_vars(AtUpdate /\ InUpdate!Receive)
    /\ WF_vars(AtUpdate /\ InUpdate!Disconnect)
    /\ WF_vars(AtUpdate /\ InUpdate!Reconnect)

FairSpec ==
    /\ Init /\ [][Next]_vars
    /\ WorkerRuns /\ QueueRuns /\ SessionRuns /\ UpdateRuns
-----------------------------------------------------------------------------
\* A command that Submit stamped is refused by the full queue or answered, whatever
\* boundaries, failures and emergency stops come between, unless the worker stops.
StampedIsAnswered == InWorker!StampedIsAnswered

\* Every accepted emergency stop is taken up by the run loop unless it is stopped.
EmergencyIsServed == InWorker!EmergencyIsServed

\* Every submitted task is completed or dead in the end: a task whose worker died, or
\* whose claim never reached a worker, is claimed again.
TaskSettles == InQueue!TaskSettles

\* Every navigation ends on a page: neither loading the user nor the redirections of the
\* route guard go on for ever.
NavigationSettles == focus = "session" => InSession!NavigationSettles

\* The settings page does not follow an update for ever: it learns the result, or gives up.
UpdateEnds == InUpdate!UpdateEnds
=============================================================================
