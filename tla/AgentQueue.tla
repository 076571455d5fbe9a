----------------------------- MODULE AgentQueue -----------------------------
(***************************************************************************)
(* The queue of agent tasks: submitting a daily report puts a task in a    *)
(* table (migrations/), workers of py-agent claim the oldest task under a  *)
(* lease and a fresh claim token, renew the lease while they parse the     *)
(* report, and complete or fail the task (go-server/agent/repository.go,   *)
(* py-agent/worker.py).  Completing a task inserts a candidate action that *)
(* reviewers approve, which executes it, or reject.  Every call of a       *)
(* worker is a request that it repeats on a timeout, while the server may  *)
(* still serve the earlier one.                                            *)
(***************************************************************************)
EXTENDS Naturals, FiniteSets

CONSTANTS
    Task,         \* the tasks, one for every submitted report
    Worker,       \* the workers
    Reviewer,     \* the request handlers of members who review candidates
    NoTask,       \* no task
    MaxAttempts,  \* failed attempts after which a task is dead
    MaxTries,     \* times a worker sends one request
    LeaseTicks,   \* length of a lease, in ticks of the clock
    MaxFaults     \* bound: timeouts, crashes, leases lost in spite of renewal

ASSUME QueueConstants ==
    /\ IsFiniteSet(Task)
    /\ NoTask \notin Task
    /\ MaxAttempts \in Nat \ {0}
    /\ MaxTries \in Nat \ {0}
    /\ LeaseTicks \in Nat \ {0}
    /\ MaxFaults \in Nat

VARIABLES
    row,       \* each task's row; its token is the number of the claim
    cand,      \* status of each task's candidate action
    worker,    \* each worker's run_once
    network,   \* requests of workers the server has not served
    reviewer,  \* each reviewer's request: the task it executes or marks
    origin,    \* history: the claim whose result each candidate is
    runs,      \* history: times each candidate was executed
    alerted,   \* the tasks a dead-letter alert was raised for
    faults     \* counter of the bound

vars == <<row, cand, worker, network, reviewer, origin, runs, alerted, faults>>

TaskStatus == {"none", "pending", "processing", "done", "failed", "dead"}
CandidateStatus == {"none", "pending_review", "approved", "rejected",
                    "executed", "execution_failed"}
Settled == {"done", "dead"}

Row == [status : TaskStatus, created : Nat, attempts : Nat,
        token : Nat, lease : 0..LeaseTicks, due : BOOLEAN]
Request == [kind : {"claim", "complete", "fail"}, by : Worker,
            task : Task \cup {NoTask}, token : Nat, try : 1..MaxTries, awaited : BOOLEAN]
Run == [at : {"idle", "claim", "parse", "complete", "fail"},
        task : Task \cup {NoTask}, token : Nat, try : 1..MaxTries, renewing : BOOLEAN]

AtRest == [at |-> "idle", task |-> NoTask, token |-> 0, try |-> 1, renewing |-> FALSE]
NoReview == [at |-> "idle", task |-> NoTask]

TypeOK ==
    /\ row \in [Task -> Row]
    /\ cand \in [Task -> CandidateStatus]
    /\ worker \in [Worker -> Run]
    /\ network \subseteq Request
    /\ reviewer \in [Reviewer -> [at : {"idle", "execute", "executed", "execution_failed"},
                                  task : Task \cup {NoTask}]]
    /\ origin \in [Task -> Nat]
    /\ runs \in [Task -> Nat]
    /\ alerted \subseteq Task
    /\ faults \in 0..MaxFaults

Init ==
    /\ row = [t \in Task |-> [status |-> "none", created |-> 0, attempts |-> 0,
                              token |-> 0, lease |-> 0, due |-> FALSE]]
    /\ cand = [t \in Task |-> "none"]
    /\ worker = [w \in Worker |-> AtRest]
    /\ network = {}
    /\ reviewer = [r \in Reviewer |-> NoReview]
    /\ origin = [t \in Task |-> 0]
    /\ runs = [t \in Task |-> 0]
    /\ alerted = {}
    /\ faults = 0

Fault == faults < MaxFaults /\ faults' = faults + 1

(***************************************************************************)
(* The table.                                                              *)
(***************************************************************************)

\* The trigger on daily_reports puts a task in the queue when the report is
\* submitted.  No path of the program takes a report back to a draft.
Submit(t) ==
    /\ row[t].status = "none"
    /\ row' = [row EXCEPT ![t].status = "pending",
                          ![t].created = 1 + Cardinality({u \in Task : row[u].status # "none"})]
    /\ UNCHANGED <<cand, worker, network, reviewer, origin, runs, alerted, faults>>

\* Mutant: an expired lease is not looked at.
ClaimableForgetsExpired(t) ==
    \/ row[t].status = "pending"
    \/ row[t].status = "failed" /\ row[t].due

\* The rows Claim may hand out, and the oldest of them.
Claimable(t) ==
    \/ row[t].status = "pending"
    \/ row[t].status = "failed" /\ row[t].due
    \/ row[t].status = "processing" /\ row[t].lease = 0

Oldest(t) ==
    /\ Claimable(t)
    /\ \A u \in Task : Claimable(u) => row[t].created <= row[u].created

Claimed(t) == [row EXCEPT ![t].status = "processing",
                          ![t].token = @ + 1,
                          ![t].lease = LeaseTicks,
                          ![t].due = FALSE]

\* Mutants: any worker may finish a task that is being processed; the holder
\* of the token may finish it again.
HoldsAnyToken(q) == row[q.task].status = "processing" /\ row[q.task].lease > 0
HoldsByToken(q) == row[q.task].token = q.token

\* The request still comes from the claim that holds the task: its token is
\* the row's, and the lease has not expired.
Holds(q) ==
    /\ row[q.task].token = q.token
    /\ row[q.task].status = "processing"
    /\ row[q.task].lease > 0

\* A lease runs down; one that a living worker renews expires only by a fault.
Renewed(t) == \E w \in Worker : worker[w].renewing /\ worker[w].task = t
                                /\ worker[w].token = row[t].token

LeaseTick(t) ==
    /\ row[t].status = "processing"
    /\ row[t].lease > 0
    /\ row' = [row EXCEPT ![t].lease = @ - 1]
    /\ IF row[t].lease = 1 /\ Renewed(t) THEN Fault ELSE UNCHANGED faults
    /\ UNCHANGED <<cand, worker, network, reviewer, origin, runs, alerted>>

\* next_attempt_at of a failed task comes.
BackoffElapses(t) ==
    /\ row[t].status = "failed"
    /\ ~row[t].due
    /\ row' = [row EXCEPT ![t].due = TRUE]
    /\ UNCHANGED <<cand, worker, network, reviewer, origin, runs, alerted, faults>>

(***************************************************************************)
(* The worker's side.                                                      *)
(***************************************************************************)

\* The worker w turns to the call `kind` and sends it a first time.
Call(w, kind, renewing) ==
    /\ worker' = [worker EXCEPT ![w].at = kind, ![w].try = 1, ![w].renewing = renewing]
    /\ network' = network \cup {[kind |-> kind, by |-> w, task |-> worker[w].task,
                                 token |-> worker[w].token, try |-> 1, awaited |-> TRUE]}

\* Requests nobody waits for any more stay in the network.
Abandon(w) == {IF q.by = w THEN [q EXCEPT !.awaited = FALSE] ELSE q : q \in network}

Poll(w) ==
    /\ worker[w].at = "idle"
    /\ Call(w, "claim", FALSE)
    /\ UNCHANGED <<row, cand, reviewer, origin, runs, alerted, faults>>

\* The report has been fetched and parsed, or one of the steps failed: the
\* report has no project, the model timed out, the result was not accepted.
Parsed(w) ==
    /\ worker[w].at = "parse"
    /\ \E kind \in {"complete", "fail"} : Call(w, kind, worker[w].renewing)
    /\ UNCHANGED <<row, cand, reviewer, origin, runs, alerted, faults>>

\* The renewal thread extends the lease, or learns that the task is lost and
\* ends.  A renewal that is not answered has no effect of its own.
Renew(w) ==
    /\ worker[w].renewing
    /\ IF Holds(worker[w])
       THEN /\ row[worker[w].task].lease < LeaseTicks
            /\ row' = [row EXCEPT ![worker[w].task].lease = LeaseTicks]
            /\ UNCHANGED worker
       ELSE /\ worker' = [worker EXCEPT ![w].renewing = FALSE]
            /\ UNCHANGED row
    /\ UNCHANGED <<cand, network, reviewer, origin, runs, alerted, faults>>

\* Mutant: one try too many.
RetryOnceMore(w) ==
    /\ worker[w].at \in {"claim", "complete", "fail"}
    /\ worker[w].try <= MaxTries
    /\ Fault
    /\ worker' = [worker EXCEPT ![w].try = @ + 1]
    /\ network' = Abandon(w) \cup {[kind |-> worker[w].at, by |-> w, task |-> worker[w].task,
                                    token |-> worker[w].token, try |-> worker[w].try + 1,
                                    awaited |-> TRUE]}
    /\ UNCHANGED <<row, cand, reviewer, origin, runs, alerted>>

\* No answer in time: the request is sent again.
Retry(w) ==
    /\ worker[w].at \in {"claim", "complete", "fail"}
    /\ worker[w].try < MaxTries
    /\ Fault
    /\ worker' = [worker EXCEPT ![w].try = @ + 1]
    /\ network' = Abandon(w) \cup {[kind |-> worker[w].at, by |-> w, task |-> worker[w].task,
                                    token |-> worker[w].token, try |-> worker[w].try + 1,
                                    awaited |-> TRUE]}
    /\ UNCHANGED <<row, cand, reviewer, origin, runs, alerted>>

\* No answer to the last try either.  A claim is dropped, a completion turns
\* into a failure, and a failure into a dead-letter alert.
GiveUp(w) ==
    /\ worker[w].at \in {"claim", "complete", "fail"}
    /\ worker[w].try = MaxTries
    /\ Fault
    /\ IF worker[w].at = "complete"
       THEN /\ worker' = [worker EXCEPT ![w].at = "fail", ![w].try = 1]
            /\ network' = Abandon(w) \cup {[kind |-> "fail", by |-> w, task |-> worker[w].task,
                                            token |-> worker[w].token, try |-> 1,
                                            awaited |-> TRUE]}
       ELSE /\ worker' = [worker EXCEPT ![w] = AtRest]
            /\ network' = Abandon(w)
    /\ alerted' = IF worker[w].at = "fail" THEN alerted \cup {worker[w].task} ELSE alerted
    /\ UNCHANGED <<row, cand, reviewer, origin, runs>>

\* The process dies and starts again.
Crash(w) ==
    /\ worker[w] # AtRest
    /\ Fault
    /\ worker' = [worker EXCEPT ![w] = AtRest]
    /\ network' = Abandon(w)
    /\ UNCHANGED <<row, cand, reviewer, origin, runs, alerted>>

(***************************************************************************)
(* The server's side.  Whoever waits for the request learns the outcome;   *)
(* the worker of a completed, failed or lost task is done with it.         *)
(***************************************************************************)

Answered(q, next) ==
    /\ network' = network \ {q}
    /\ worker' = IF q.awaited THEN [worker EXCEPT ![q.by] = next] ELSE worker

ServeClaim(q) ==
    /\ q.kind = "claim"
    /\ IF \E t \in Task : Claimable(t)
       THEN \E t \in Task :
              /\ Oldest(t)
              /\ row' = Claimed(t)
              /\ Answered(q, [at |-> "parse", task |-> t, token |-> row[t].token + 1,
                              try |-> 1, renewing |-> TRUE])
       ELSE Answered(q, AtRest) /\ UNCHANGED row
    /\ UNCHANGED <<cand, reviewer, origin, runs, alerted, faults>>

\* The candidate goes in with the result, in one transaction; a completion
\* served twice changes nothing the second time.
ServeComplete(q) ==
    /\ q.kind = "complete"
    /\ Answered(q, AtRest)
    /\ IF Holds(q)
       THEN /\ row' = [row EXCEPT ![q.task].status = "done", ![q.task].lease = 0]
            /\ \/ /\ cand' = [cand EXCEPT ![q.task] = "pending_review"]
                  /\ origin' = [origin EXCEPT ![q.task] = q.token]
               \/ UNCHANGED <<cand, origin>>
       ELSE UNCHANGED <<row, cand, origin>>
    /\ UNCHANGED <<reviewer, runs, alerted, faults>>

Failed(t) == [row EXCEPT ![t].attempts = @ + 1,
                         ![t].status = IF row[t].attempts + 1 >= MaxAttempts
                                       THEN "dead" ELSE "failed",
                         ![t].due = FALSE,
                         ![t].lease = 0]

\* Mutant: a failure reported again counts again.
ServeFailUnguarded(q) ==
    /\ q.kind = "fail"
    /\ Answered(q, AtRest)
    /\ row' = IF row[q.task].token = q.token THEN Failed(q.task) ELSE row
    /\ UNCHANGED <<cand, reviewer, origin, runs, alerted, faults>>

ServeFail(q) ==
    /\ q.kind = "fail"
    /\ Answered(q, AtRest)
    /\ row' = IF Holds(q) THEN Failed(q.task) ELSE row
    /\ UNCHANGED <<cand, reviewer, origin, runs, alerted, faults>>

(***************************************************************************)
(* Reviewers.                                                              *)
(***************************************************************************)

\* Mutant: an approved candidate may be approved again.
ApproveAgain(r, t) ==
    /\ reviewer[r].at = "idle"
    /\ cand[t] \in {"pending_review", "approved"}
    /\ cand' = [cand EXCEPT ![t] = "approved"]
    /\ reviewer' = [reviewer EXCEPT ![r] = [at |-> "execute", task |-> t]]
    /\ UNCHANGED <<row, worker, network, origin, runs, alerted, faults>>

\* "approved" is the fence: it is committed before the candidate is executed.
Approve(r, t) ==
    /\ reviewer[r].at = "idle"
    /\ cand[t] = "pending_review"
    /\ cand' = [cand EXCEPT ![t] = "approved"]
    /\ reviewer' = [reviewer EXCEPT ![r] = [at |-> "execute", task |-> t]]
    /\ UNCHANGED <<row, worker, network, origin, runs, alerted, faults>>

Reject(t) ==
    /\ cand[t] = "pending_review"
    /\ cand' = [cand EXCEPT ![t] = "rejected"]
    /\ UNCHANGED <<row, worker, network, reviewer, origin, runs, alerted, faults>>

\* Creates the issue, comment or experience, or fails to.
Execute(r) ==
    /\ reviewer[r].at = "execute"
    /\ \/ /\ runs' = [runs EXCEPT ![reviewer[r].task] = @ + 1]
          /\ reviewer' = [reviewer EXCEPT ![r].at = "executed"]
       \/ /\ reviewer' = [reviewer EXCEPT ![r].at = "execution_failed"]
          /\ UNCHANGED runs
    /\ UNCHANGED <<row, cand, worker, network, origin, alerted, faults>>

\* MarkCandidateExecuted, MarkCandidateFailed: only an approved row is marked.
Mark(r) ==
    /\ reviewer[r].at \in {"executed", "execution_failed"}
    /\ cand' = IF cand[reviewer[r].task] = "approved"
               THEN [cand EXCEPT ![reviewer[r].task] = reviewer[r].at] ELSE cand
    /\ reviewer' = [reviewer EXCEPT ![r] = NoReview]
    /\ UNCHANGED <<row, worker, network, origin, runs, alerted, faults>>

\* The server crashes, or the database refuses the mark: the handler ends.
HandlerDies(r) ==
    /\ reviewer[r].at # "idle"
    /\ Fault
    /\ reviewer' = [reviewer EXCEPT ![r] = NoReview]
    /\ UNCHANGED <<row, cand, worker, network, origin, runs, alerted>>

Next ==
    \/ \E t \in Task : Submit(t) \/ LeaseTick(t) \/ BackoffElapses(t) \/ Reject(t)
    \/ \E w \in Worker : Poll(w) \/ Parsed(w) \/ Renew(w) \/ Retry(w) \/ GiveUp(w) \/ Crash(w)
    \/ \E q \in network : ServeClaim(q) \/ ServeComplete(q) \/ ServeFail(q)
    \/ \E r \in Reviewer : \/ \E t \in Task : Approve(r, t)
                           \/ Execute(r) \/ Mark(r) \/ HandlerDies(r)

Spec == Init /\ [][Next]_vars

(***************************************************************************)
(* Workers poll, work and renew, the server serves a request somebody      *)
(* still waits for, and time passes.  Nothing is assumed of requests that  *)
(* were given up, of reviewers or of faults.                               *)
(***************************************************************************)
Serve(w) ==
    \E q \in network : /\ q.by = w /\ q.awaited
                       /\ ServeClaim(q) \/ ServeComplete(q) \/ ServeFail(q)

Fairness ==
    /\ \A t \in Task : WF_vars(LeaseTick(t)) /\ WF_vars(BackoffElapses(t))
    /\ \A w \in Worker : /\ WF_vars(Poll(w)) /\ WF_vars(Parsed(w))
                         /\ WF_vars(Renew(w)) /\ WF_vars(Serve(w))

FairSpec == Spec /\ Fairness

(***************************************************************************)
(* Properties.                                                             *)
(***************************************************************************)

\* A candidate comes from one claim only, the one that holds the completed
\* task: a worker whose lease expired never adds its result to, or puts it
\* in place of, the work of the worker that claimed the task after it.
CandidateOfLastClaim ==
    \A t \in Task : cand[t] # "none" =>
        row[t].status = "done" /\ origin[t] = row[t].token

\* A claim counts as one failed attempt at most, however often its failure
\* is reported, and a task is dead only after MaxAttempts claims failed.
AttemptsWithinClaims ==
    \A t \in Task : /\ row[t].attempts <= row[t].token
                    /\ row[t].status = "dead" <=> row[t].attempts >= MaxAttempts

\* A candidate is executed at most once and never after a rejection, whoever
\* approves it at the same time and wherever the handler dies; and one that
\* is marked executed was executed.
ExecutedOnce ==
    \A t \in Task : /\ runs[t] <= 1
                    /\ runs[t] = 1 => cand[t] \in {"approved", "executed"}
                    /\ cand[t] = "executed" => runs[t] = 1

\* A settled task stays as it is: no late completion, failure or renewal, and
\* no claim, changes its row.  A worker whose completion was applied and not
\* answered goes on to report a failure.
SettledForGood ==
    [][\A t \in Task : row[t].status \in Settled => row'[t] = row[t]]_vars

\* Every submitted task is completed or dead in the end: a task whose worker
\* died, or whose claim never reached a worker, is claimed again.
TaskSettles ==
    \A t \in Task : (row[t].status # "none") ~> (row[t].status \in Settled)

\* What README.md says of the worker: a dead task raises an alert.
DeadLetterAlerts ==
    \A t \in Task : (row[t].status = "dead") ~> (t \in alerted)

-----------------------------------------------------------------------------
(* Inductive invariants, proved in AgentQueueProofs.                       *)

\* Whoever is past a claim works on a task.
TaskInv ==
    /\ \A w \in Worker : worker[w].at \in {"parse", "complete", "fail"} \/ worker[w].renewing
                          => worker[w].task \in Task
    /\ \A q \in network : q.kind \in {"complete", "fail"} => q.task \in Task
    /\ \A r \in Reviewer : reviewer[r].at # "idle" => reviewer[r].task \in Task

\* AttemptsWithinClaims, strengthened: the claim that holds the task has not failed.
AttemptsInv ==
    /\ AttemptsWithinClaims
    /\ \A t \in Task : row[t].status = "processing" => row[t].attempts < row[t].token

\* ExecutedOnce, strengthened: a candidate has one handler at most, which found it
\* unexecuted.
ReviewInv ==
    /\ ExecutedOnce
    /\ \A r \in Reviewer : reviewer[r].at # "idle" =>
          /\ cand[reviewer[r].task] = "approved"
          /\ runs[reviewer[r].task] = (IF reviewer[r].at = "executed" THEN 1 ELSE 0)
          /\ \A s \in Reviewer \ {r} : reviewer[s].at # "idle" => reviewer[s].task # reviewer[r].task
=============================================================================
