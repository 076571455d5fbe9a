-------------------------- MODULE AgentQueueProofs --------------------------
(***************************************************************************)
(* What holds of the queue for every number of tasks, workers and          *)
(* reviewers, and every number of attempts, tries and faults.              *)
(***************************************************************************)
EXTENDS AgentQueue, FiniteSetTheorems, TLAPS

Typed == TypeOK /\ TaskInv

\* A request nobody waits for any more is a request still.
LEMMA AbandonType ==
    ASSUME Typed, NEW w \in Worker
    PROVE  /\ Abandon(w) \subseteq Request
           /\ \A q \in Abandon(w) : q.kind \in {"complete", "fail"} => q.task \in Task
<1> SUFFICES ASSUME NEW q \in network
             PROVE  LET a == IF q.by = w THEN [q EXCEPT !.awaited = FALSE] ELSE q
                    IN  a \in Request /\ (a.kind \in {"complete", "fail"} => a.task \in Task)
    BY DEF Abandon
<1>1. q \in Request /\ (q.kind \in {"complete", "fail"} => q.task \in Task)
    BY DEF Typed, TypeOK, TaskInv
<1> QED
    BY <1>1 DEF Request

\* A worker that turns to a call is well typed, and so is what it sends.
LEMMA CallType ==
    ASSUME Typed, NEW w \in Worker, NEW kind \in {"claim", "complete", "fail"},
           NEW renewing \in BOOLEAN, Call(w, kind, renewing),
           kind \in {"complete", "fail"} \/ renewing => worker[w].task \in Task
    PROVE  /\ worker' \in [Worker -> Run]
           /\ network' \subseteq Request
           /\ \A v \in Worker : worker'[v].at \in {"parse", "complete", "fail"}
                                \/ worker'[v].renewing => worker'[v].task \in Task
           /\ \A q \in network' : q.kind \in {"complete", "fail"} => q.task \in Task
<1>1. 1 \in 1..MaxTries
    BY QueueConstants
<1>2. worker \in [Worker -> Run] /\ network \subseteq Request
    BY DEF Typed, TypeOK
<1>3. worker' = [worker EXCEPT ![w] = [worker[w] EXCEPT !.at = kind, !.try = 1,
                                                        !.renewing = renewing]]
    BY <1>2 DEF Call, Run
<1>4. [worker[w] EXCEPT !.at = kind, !.try = 1, !.renewing = renewing] \in Run
    BY <1>1, <1>2 DEF Run
<1>5. [kind |-> kind, by |-> w, task |-> worker[w].task, token |-> worker[w].token,
       try |-> 1, awaited |-> TRUE] \in Request
    BY <1>1, <1>2 DEF Run, Request
<1>6. worker' \in [Worker -> Run]
    BY <1>2, <1>3, <1>4
<1>7. \A v \in Worker : worker'[v].at \in {"parse", "complete", "fail"}
                        \/ worker'[v].renewing => worker'[v].task \in Task
    BY <1>2, <1>3 DEF Typed, TaskInv, Run
<1>8. network' \subseteq Request
    BY <1>2, <1>5 DEF Call
<1>9. \A q \in network' : q.kind \in {"complete", "fail"} => q.task \in Task
    <2>1. \A q \in network : q.kind \in {"complete", "fail"} => q.task \in Task
        BY DEF Typed, TaskInv
    <2> QED
        BY <2>1 DEF Call
<1> QED
    BY <1>6, <1>7, <1>8, <1>9

\* Serving a request leaves the workers and the network well typed.
LEMMA AnsweredType ==
    ASSUME Typed, NEW q \in network, NEW next \in Run, Answered(q, next),
           next.at \in {"parse", "complete", "fail"} \/ next.renewing => next.task \in Task
    PROVE  /\ worker' \in [Worker -> Run]
           /\ network' \subseteq Request
           /\ \A v \in Worker : worker'[v].at \in {"parse", "complete", "fail"}
                                \/ worker'[v].renewing => worker'[v].task \in Task
           /\ \A p \in network' : p.kind \in {"complete", "fail"} => p.task \in Task
<1>1. q.by \in Worker
    BY DEF Typed, TypeOK, Request
<1> QED
    BY <1>1 DEF Answered, Typed, TypeOK, TaskInv

\* The worker at rest is a worker.
LEMMA AtRestType == /\ AtRest \in Run
                    /\ AtRest.at = "idle" /\ AtRest.renewing = FALSE
BY QueueConstants DEF AtRest, Run

\* Sending a request again keeps the types.
LEMMA SendAgainType ==
    ASSUME Typed, NEW w \in Worker, Retry(w) \/ GiveUp(w) \/ Crash(w)
    PROVE  /\ worker' \in [Worker -> Run]
           /\ network' \subseteq Request
           /\ \A v \in Worker : worker'[v].at \in {"parse", "complete", "fail"}
                                \/ worker'[v].renewing => worker'[v].task \in Task
           /\ \A q \in network' : q.kind \in {"complete", "fail"} => q.task \in Task
           /\ faults' \in 0..MaxFaults
<1>1. /\ worker \in [Worker -> Run]
      /\ \A v \in Worker : worker[v].at \in {"parse", "complete", "fail"}
                           \/ worker[v].renewing => worker[v].task \in Task
    BY DEF Typed, TypeOK, TaskInv
<1>2. worker[w] \in Run /\ worker[w].try \in 1..MaxTries /\ 1 \in 1..MaxTries
    BY <1>1, QueueConstants DEF Run
<1>3. faults' \in 0..MaxFaults
    BY QueueConstants DEF Retry, GiveUp, Crash, Fault, Typed, TypeOK
<1>4. CASE Retry(w)
    <2>1. worker[w].try + 1 \in 1..MaxTries
        BY <1>2, <1>4, QueueConstants DEF Retry
    <2>2. [kind |-> worker[w].at, by |-> w, task |-> worker[w].task, token |-> worker[w].token,
           try |-> worker[w].try + 1, awaited |-> TRUE] \in Request
        BY <1>2, <1>4, <2>1 DEF Retry, Run, Request
    <2>3. [worker[w] EXCEPT !.try = worker[w].try + 1] \in Run
        BY <1>2, <2>1 DEF Run
    <2>4. worker' = [worker EXCEPT ![w] = [worker[w] EXCEPT !.try = worker[w].try + 1]]
        BY <1>1, <1>2, <1>4 DEF Retry, Run
    <2>5. worker' \in [Worker -> Run]
        BY <1>1, <2>3, <2>4
    <2>6. \A v \in Worker : worker'[v].at \in {"parse", "complete", "fail"}
                            \/ worker'[v].renewing => worker'[v].task \in Task
        BY <1>1, <1>2, <2>4 DEF Run
    <2>7. worker[w].at \in {"complete", "fail"} => worker[w].task \in Task
        BY <1>1
    <2>8. network' \subseteq Request
        BY <1>4, <2>2, AbandonType DEF Retry
    <2>9. \A q \in network' : q.kind \in {"complete", "fail"} => q.task \in Task
        BY <1>4, <2>7, AbandonType DEF Retry
    <2> QED
        BY <1>3, <2>5, <2>6, <2>8, <2>9
<1>5. CASE GiveUp(w) /\ worker[w].at = "complete"
    <2>1. [kind |-> "fail", by |-> w, task |-> worker[w].task, token |-> worker[w].token,
           try |-> 1, awaited |-> TRUE] \in Request
        BY <1>2 DEF Run, Request
    <2>2. [worker[w] EXCEPT !.at = "fail", !.try = 1] \in Run
        BY <1>2 DEF Run
    <2>3. worker' = [worker EXCEPT ![w] = [worker[w] EXCEPT !.at = "fail", !.try = 1]]
        BY <1>1, <1>2, <1>5 DEF GiveUp, Run
    <2>4. worker' \in [Worker -> Run]
        BY <1>1, <2>2, <2>3
    <2>5. worker[w].task \in Task
        BY <1>1, <1>5
    <2>6. \A v \in Worker : worker'[v].at \in {"parse", "complete", "fail"}
                            \/ worker'[v].renewing => worker'[v].task \in Task
        BY <1>1, <1>2, <2>3, <2>5 DEF Run
    <2>7. network' \subseteq Request
        BY <1>5, <2>1, AbandonType DEF GiveUp
    <2>8. \A q \in network' : q.kind \in {"complete", "fail"} => q.task \in Task
        BY <1>5, <2>5, AbandonType DEF GiveUp
    <2> QED
        BY <1>3, <2>4, <2>6, <2>7, <2>8
<1>6. CASE Crash(w) \/ (GiveUp(w) /\ worker[w].at # "complete")
    <2>1. worker' = [worker EXCEPT ![w] = AtRest] /\ network' = Abandon(w)
        BY <1>6 DEF Crash, GiveUp
    <2> QED
        BY <1>1, <1>3, <2>1, AtRestType, AbandonType
<1> QED
    BY <1>4, <1>5, <1>6

\* Every variable keeps its type, and whoever is past a claim has a task.
THEOREM QueueTyped == Spec => [](TypeOK /\ TaskInv)
<1>1. Init => Typed
    <2> SUFFICES ASSUME Init
                 PROVE  Typed
        OBVIOUS
    <2>1. row \in [Task -> Row]
        BY QueueConstants DEF Init, Row, TaskStatus
    <2>2. worker \in [Worker -> Run]
        BY AtRestType DEF Init
    <2>3. TypeOK
        BY <2>1, <2>2, QueueConstants DEF Init, TypeOK, CandidateStatus, NoReview
    <2>4. TaskInv
        BY AtRestType DEF Init, TaskInv, NoReview
    <2> QED
        BY <2>3, <2>4 DEF Typed
<1>2. Typed /\ [Next]_vars => Typed'
    <2> SUFFICES ASSUME Typed, [Next]_vars
                 PROVE  Typed'
        OBVIOUS
    <2>1. ASSUME NEW t \in Task, Submit(t)
          PROVE  Typed'
        <3>1. Cardinality({u \in Task : row[u].status # "none"}) \in Nat
            BY QueueConstants, FS_Subset, FS_CardinalityType
        <3>2. row' \in [Task -> Row]
            <4> DEFINE n == 1 + Cardinality({u \in Task : row[u].status # "none"})
            <4>1. n \in Nat
                BY <3>1
            <4>2. row' = [row EXCEPT ![t].status = "pending", ![t].created = n]
                BY <2>1 DEF Submit
            <4> HIDE DEF n
            <4>3. [row[t] EXCEPT !.status = "pending", !.created = n] \in Row
                BY <4>1 DEF Typed, TypeOK, Row, TaskStatus
            <4>4. row' = [row EXCEPT ![t] = [row[t] EXCEPT !.status = "pending", !.created = n]]
                BY <4>2 DEF Typed, TypeOK, Row
            <4> QED
                BY <4>3, <4>4 DEF Typed, TypeOK
        <3> QED
            BY <2>1, <3>2 DEF Submit, Typed, TypeOK, TaskInv
    <2>2. ASSUME NEW t \in Task, LeaseTick(t)
          PROVE  Typed'
        <3>1. row' \in [Task -> Row]
            BY <2>2, QueueConstants DEF LeaseTick, Typed, TypeOK, Row
        <3>2. faults' \in 0..MaxFaults
            BY <2>2, QueueConstants DEF LeaseTick, Fault, Typed, TypeOK
        <3> QED
            BY <2>2, <3>1, <3>2 DEF LeaseTick, Typed, TypeOK, TaskInv
    <2>3. ASSUME NEW t \in Task, BackoffElapses(t)
          PROVE  Typed'
        BY <2>3 DEF BackoffElapses, Typed, TypeOK, TaskInv, Row
    <2>4. ASSUME NEW t \in Task, Reject(t)
          PROVE  Typed'
        BY <2>4 DEF Reject, Typed, TypeOK, TaskInv, CandidateStatus
    <2>5. ASSUME NEW w \in Worker, Poll(w) \/ Parsed(w)
          PROVE  Typed'
        <3>1. worker[w] \in Run
            BY DEF Typed, TypeOK
        <3>2. CASE Poll(w)
            <4>1. Call(w, "claim", FALSE)
                BY <3>2 DEF Poll
            <4> QED
                BY <3>2, <4>1, CallType DEF Poll, Typed, TypeOK, TaskInv
        <3>3. CASE Parsed(w)
            <4>1. worker[w].task \in Task /\ worker[w].renewing \in BOOLEAN
                BY <3>1, <3>3 DEF Parsed, Typed, TaskInv, Run
            <4>2. PICK kind \in {"complete", "fail"} : Call(w, kind, worker[w].renewing)
                BY <3>3 DEF Parsed
            <4> QED
                BY <3>3, <4>1, <4>2, CallType DEF Parsed, Typed, TypeOK, TaskInv
        <3> QED
            BY <2>5, <3>2, <3>3
    <2>6. ASSUME NEW w \in Worker, Renew(w)
          PROVE  Typed'
        <3>1. worker[w] \in Run /\ worker[w].task \in Task
            BY <2>6 DEF Renew, Typed, TypeOK, TaskInv
        <3>2. row' \in [Task -> Row]
            BY <2>6, <3>1, QueueConstants DEF Renew, Typed, TypeOK, Row
        <3>3. worker' \in [Worker -> Run]
            <4>1. [worker[w] EXCEPT !.renewing = FALSE] \in Run
                BY <3>1 DEF Run
            <4>2. worker' = worker \/ worker' = [worker EXCEPT ![w].renewing = FALSE]
                BY <2>6 DEF Renew
            <4> QED
                BY <4>1, <4>2 DEF Typed, TypeOK
        <3>4. \A v \in Worker : worker'[v].at \in {"parse", "complete", "fail"}
                                \/ worker'[v].renewing => worker'[v].task \in Task
            BY <2>6, <3>1 DEF Renew, Typed, TypeOK, TaskInv, Run
        <3> QED
            BY <2>6, <3>2, <3>3, <3>4 DEF Renew, Typed, TypeOK, TaskInv
    <2>7. ASSUME NEW w \in Worker, Retry(w) \/ GiveUp(w) \/ Crash(w)
          PROVE  Typed'
        <3>1. alerted' \subseteq Task
            BY <2>7 DEF Retry, GiveUp, Crash, Typed, TypeOK, TaskInv
        <3>2. UNCHANGED <<row, cand, reviewer, origin, runs>>
            BY <2>7 DEF Retry, GiveUp, Crash
        <3> QED
            BY <2>7, <3>1, <3>2, SendAgainType DEF Typed, TypeOK, TaskInv
    <2>8. ASSUME NEW q \in network, ServeClaim(q)
          PROVE  Typed'
        <3>1. CASE \E t \in Task : Claimable(t)
            <4>1. PICK t \in Task :
                    /\ row' = Claimed(t)
                    /\ Answered(q, [at |-> "parse", task |-> t, token |-> row[t].token + 1,
                                    try |-> 1, renewing |-> TRUE])
                BY <2>8, <3>1 DEF ServeClaim
            <4>2. row' \in [Task -> Row]
                BY <4>1, QueueConstants DEF Claimed, Typed, TypeOK, Row, TaskStatus
            <4>3. [at |-> "parse", task |-> t, token |-> row[t].token + 1,
                   try |-> 1, renewing |-> TRUE] \in Run
                BY QueueConstants DEF Typed, TypeOK, Row, Run
            <4> QED
                BY <2>8, <4>1, <4>2, <4>3, AnsweredType DEF ServeClaim, Typed, TypeOK, TaskInv
        <3>2. CASE ~\E t \in Task : Claimable(t)
            <4>1. Answered(q, AtRest) /\ UNCHANGED row
                BY <2>8, <3>2 DEF ServeClaim
            <4> QED
                BY <2>8, <4>1, AtRestType, AnsweredType DEF ServeClaim, Typed, TypeOK, TaskInv
        <3> QED
            BY <3>1, <3>2
    <2>9. ASSUME NEW q \in network, ServeComplete(q)
          PROVE  Typed'
        <3>1. q \in Request /\ q.task \in Task
            BY <2>9 DEF ServeComplete, Typed, TypeOK, TaskInv
        <3>2. q.token \in Nat
            BY <3>1 DEF Request
        <3>3. row' \in [Task -> Row]
            <4>1. row' = row \/ row' = [row EXCEPT ![q.task].status = "done",
                                                  ![q.task].lease = 0]
                BY <2>9 DEF ServeComplete
            <4> QED
                BY <3>1, <4>1, QueueConstants DEF Typed, TypeOK, Row, TaskStatus
        <3>4. cand' \in [Task -> CandidateStatus] /\ origin' \in [Task -> Nat]
            BY <2>9, <3>1, <3>2 DEF ServeComplete, Typed, TypeOK, CandidateStatus
        <3>5. Answered(q, AtRest)
            BY <2>9 DEF ServeComplete
        <3> QED
            BY <2>9, <3>3, <3>4, <3>5, AtRestType, AnsweredType
               DEF ServeComplete, Typed, TypeOK, TaskInv
    <2>10. ASSUME NEW q \in network, ServeFail(q)
           PROVE  Typed'
        <3>1. q.task \in Task
            BY <2>10 DEF ServeFail, Typed, TypeOK, TaskInv
        <3>2. row' \in [Task -> Row]
            <4>1. row' = row \/ row' = Failed(q.task)
                BY <2>10 DEF ServeFail
            <4>2. row[q.task] \in Row /\ row[q.task].attempts + 1 \in Nat
                BY <3>1 DEF Typed, TypeOK, Row
            <4>3. Failed(q.task) \in [Task -> Row]
                <5> DEFINE st == IF row[q.task].attempts + 1 >= MaxAttempts
                                 THEN "dead" ELSE "failed"
                           n == row[q.task].attempts + 1
                           rec == [row[q.task] EXCEPT !.attempts = n, !.status = st,
                                                      !.due = FALSE, !.lease = 0]
                <5>1. st \in TaskStatus
                    BY DEF TaskStatus
                <5>2. Failed(q.task) = [row EXCEPT ![q.task] = rec]
                    BY <3>1, <4>2 DEF Failed, Typed, TypeOK, Row
                <5>3. n \in Nat /\ 0 \in 0..LeaseTicks
                    BY <4>2, QueueConstants
                <5> HIDE DEF st, n
                <5>4. rec \in Row
                    BY <4>2, <5>1, <5>3 DEF Row
                <5> HIDE DEF rec
                <5> QED
                    BY <3>1, <5>2, <5>4 DEF Typed, TypeOK
            <4> QED
                BY <4>1, <4>3 DEF Typed, TypeOK
        <3>3. Answered(q, AtRest)
            BY <2>10 DEF ServeFail
        <3> QED
            BY <2>10, <3>2, <3>3, AtRestType, AnsweredType DEF ServeFail, Typed, TypeOK, TaskInv
    <2>11. ASSUME NEW r \in Reviewer, NEW t \in Task, Approve(r, t)
           PROVE  Typed'
        BY <2>11 DEF Approve, Typed, TypeOK, TaskInv, CandidateStatus
    <2>12. ASSUME NEW r \in Reviewer, Execute(r)
           PROVE  Typed'
        <3>1. reviewer[r].task \in Task
            BY <2>12 DEF Execute, Typed, TypeOK, TaskInv
        <3>2. runs' \in [Task -> Nat]
            BY <2>12, <3>1 DEF Execute, Typed, TypeOK
        <3>3. /\ reviewer' \in [Reviewer -> [at : {"idle", "execute", "executed",
                                                   "execution_failed"},
                                             task : Task \cup {NoTask}]]
              /\ \A s \in Reviewer : reviewer'[s].at # "idle" => reviewer'[s].task \in Task
            BY <2>12, <3>1 DEF Execute, Typed, TypeOK, TaskInv
        <3> QED
            BY <2>12, <3>2, <3>3 DEF Execute, Typed, TypeOK, TaskInv
    <2>13. ASSUME NEW r \in Reviewer, Mark(r)
           PROVE  Typed'
        <3>1. reviewer[r].task \in Task
            BY <2>13 DEF Mark, Typed, TypeOK, TaskInv
        <3>2. cand' \in [Task -> CandidateStatus]
            BY <2>13, <3>1 DEF Mark, Typed, TypeOK, CandidateStatus
        <3> QED
            BY <2>13, <3>2 DEF Mark, NoReview, Typed, TypeOK, TaskInv
    <2>14. ASSUME NEW r \in Reviewer, HandlerDies(r)
           PROVE  Typed'
        BY <2>14, QueueConstants DEF HandlerDies, Fault, NoReview, Typed, TypeOK, TaskInv
    <2>15. CASE UNCHANGED vars
        BY <2>15 DEF vars, Typed, TypeOK, TaskInv
    <2> QED
        BY <2>1, <2>2, <2>3, <2>4, <2>5, <2>6, <2>7, <2>8, <2>9, <2>10, <2>11, <2>12,
           <2>13, <2>14, <2>15 DEF Next
<1>3. Typed => TypeOK /\ TaskInv
    BY DEF Typed
<1> QED
    BY <1>1, <1>2, <1>3, PTL DEF Spec

\* What one step does to the rows: nothing, and then no candidate appears; or one row
\* is submitted, changes its lease or becomes due; is claimed; is completed; or fails.
LEMMA RowSteps ==
    ASSUME Typed, [Next]_vars
    PROVE  \/ /\ UNCHANGED <<row, origin>>
              /\ \A t \in Task : cand[t] = "none" => cand'[t] = "none"
           \/ \E t \in Task : /\ row[t].status \in {"none", "failed", "processing"}
                              /\ row[t].status = "none" => row'[t].status = "pending"
                              /\ row[t].status # "none" => row'[t].status = row[t].status
                              /\ row'[t].attempts = row[t].attempts
                              /\ row'[t].token = row[t].token
                              /\ \A u \in Task \ {t} : row'[u] = row[u]
                              /\ UNCHANGED <<cand, origin, runs, reviewer>>
           \/ \E t \in Task : /\ row[t].status \in {"pending", "failed", "processing"}
                              /\ row'[t].status = "processing"
                              /\ row'[t].token = row[t].token + 1
                              /\ row'[t].attempts = row[t].attempts
                              /\ \A u \in Task \ {t} : row'[u] = row[u]
                              /\ UNCHANGED <<cand, origin, runs, reviewer>>
           \/ \E t \in Task : /\ row[t].status = "processing"
                              /\ row'[t].status = "done"
                              /\ row'[t].token = row[t].token
                              /\ row'[t].attempts = row[t].attempts
                              /\ \A u \in Task \ {t} : row'[u] = row[u]
                              /\ \/ /\ cand' = [cand EXCEPT ![t] = "pending_review"]
                                    /\ origin' = [origin EXCEPT ![t] = row[t].token]
                                 \/ UNCHANGED <<cand, origin>>
                              /\ UNCHANGED <<runs, reviewer>>
           \/ \E t \in Task : /\ row[t].status = "processing"
                              /\ row'[t].attempts = row[t].attempts + 1
                              /\ row'[t].status = (IF row'[t].attempts >= MaxAttempts
                                                   THEN "dead" ELSE "failed")
                              /\ row'[t].token = row[t].token
                              /\ \A u \in Task \ {t} : row'[u] = row[u]
                              /\ UNCHANGED <<cand, origin, runs, reviewer>>
<1>1. row \in [Task -> Row]
    BY DEF Typed, TypeOK
<1>2. ASSUME NEW t \in Task, Submit(t) \/ LeaseTick(t) \/ BackoffElapses(t)
      PROVE  /\ row[t].status \in {"none", "failed", "processing"}
             /\ row[t].status = "none" => row'[t].status = "pending"
             /\ row[t].status # "none" => row'[t].status = row[t].status
             /\ row'[t].attempts = row[t].attempts
             /\ row'[t].token = row[t].token
             /\ \A u \in Task \ {t} : row'[u] = row[u]
             /\ UNCHANGED <<cand, origin, runs, reviewer>>
    BY <1>1, <1>2 DEF Submit, LeaseTick, BackoffElapses, Row
<1>3. ASSUME NEW w \in Worker, Renew(w), row' # row
      PROVE  LET t == worker[w].task
             IN  /\ t \in Task
                 /\ row[t].status = "processing"
                 /\ row'[t].status = row[t].status
                 /\ row'[t].attempts = row[t].attempts
                 /\ row'[t].token = row[t].token
                 /\ \A u \in Task \ {t} : row'[u] = row[u]
                 /\ UNCHANGED <<cand, origin, runs, reviewer>>
    <2>1. worker[w].task \in Task /\ Holds(worker[w])
        BY <1>3 DEF Renew, Typed, TaskInv
    <2> QED
        BY <1>1, <1>3, <2>1 DEF Renew, Holds, Row
<1>4. ASSUME NEW q \in network, ServeClaim(q), row' # row
      PROVE  \E t \in Task : /\ row[t].status \in {"pending", "failed", "processing"}
                             /\ row'[t].status = "processing"
                             /\ row'[t].token = row[t].token + 1
                             /\ row'[t].attempts = row[t].attempts
                             /\ \A u \in Task \ {t} : row'[u] = row[u]
                             /\ UNCHANGED <<cand, origin, runs, reviewer>>
    <2>1. PICK t \in Task : Claimable(t) /\ row' = Claimed(t)
        BY <1>4 DEF ServeClaim, Oldest
    <2>2. row[t].status \in {"pending", "failed", "processing"}
        BY <2>1 DEF Claimable
    <2>3. /\ row'[t].status = "processing"
          /\ row'[t].token = row[t].token + 1
          /\ row'[t].attempts = row[t].attempts
          /\ \A u \in Task \ {t} : row'[u] = row[u]
        BY <1>1, <2>1 DEF Claimed, Row
    <2>4. UNCHANGED <<cand, origin, runs, reviewer>>
        BY <1>4 DEF ServeClaim
    <2> QED
        BY <2>2, <2>3, <2>4
<1>5. ASSUME NEW q \in network, ServeComplete(q), Holds(q)
      PROVE  LET t == q.task
             IN  /\ t \in Task
                 /\ row[t].status = "processing"
                 /\ row'[t].status = "done"
                 /\ row'[t].token = row[t].token
                 /\ row'[t].attempts = row[t].attempts
                 /\ \A u \in Task \ {t} : row'[u] = row[u]
                 /\ \/ /\ cand' = [cand EXCEPT ![t] = "pending_review"]
                       /\ origin' = [origin EXCEPT ![t] = row[t].token]
                    \/ UNCHANGED <<cand, origin>>
                 /\ UNCHANGED <<runs, reviewer>>
    <2>1. q.task \in Task /\ Holds(q)
        BY <1>5 DEF ServeComplete, Typed, TaskInv
    <2> QED
        BY <1>1, <1>5, <2>1 DEF ServeComplete, Holds, Row
<1>6. ASSUME NEW q \in network, ServeFail(q), row' # row
      PROVE  LET t == q.task
             IN  /\ t \in Task
                 /\ row[t].status = "processing"
                 /\ row'[t].attempts = row[t].attempts + 1
                 /\ row'[t].status = (IF row'[t].attempts >= MaxAttempts
                                      THEN "dead" ELSE "failed")
                 /\ row'[t].token = row[t].token
                 /\ \A u \in Task \ {t} : row'[u] = row[u]
                 /\ UNCHANGED <<cand, origin, runs, reviewer>>
    <2>1. q.task \in Task /\ Holds(q) /\ row' = Failed(q.task)
        BY <1>6 DEF ServeFail, Typed, TaskInv
    <2> QED
        BY <1>1, <1>6, <2>1 DEF ServeFail, Failed, Holds, Row
<1>7. CASE \E t \in Task : Submit(t) \/ LeaseTick(t) \/ BackoffElapses(t)
    BY <1>2, <1>7
<1>8. CASE \E t \in Task : Reject(t)
    BY <1>8 DEF Reject, Typed, TypeOK
<1>9. CASE \E w \in Worker : Poll(w) \/ Parsed(w) \/ Retry(w) \/ GiveUp(w) \/ Crash(w)
    BY <1>9 DEF Poll, Parsed, Retry, GiveUp, Crash
<1>10. CASE \E w \in Worker : Renew(w)
    BY <1>3, <1>10 DEF Renew
<1>11. CASE \E q \in network : ServeClaim(q)
    BY <1>4, <1>11 DEF ServeClaim
<1>12. CASE \E q \in network : ServeComplete(q)
    BY <1>5, <1>12 DEF ServeComplete
<1>13. CASE \E q \in network : ServeFail(q)
    BY <1>6, <1>13 DEF ServeFail
<1>14. CASE \E r \in Reviewer : \/ \E t \in Task : Approve(r, t)
                                \/ Execute(r) \/ Mark(r) \/ HandlerDies(r)
    <2>1. \A r \in Reviewer : reviewer[r].at # "idle" => reviewer[r].task \in Task
        BY DEF Typed, TaskInv
    <2> QED
        BY <1>14, <2>1 DEF Approve, Execute, Mark, HandlerDies, Typed, TypeOK
<1>15. CASE UNCHANGED vars
    BY <1>15 DEF vars
<1> QED
    BY <1>7, <1>8, <1>9, <1>10, <1>11, <1>12, <1>13, <1>14, <1>15 DEF Next

\* No step of the queue puts a worker's result beside, or in place of, that of the claim
\* that holds the completed task.
THEOREM OneClaimSafe == Spec => []CandidateOfLastClaim
<1>1. Init => CandidateOfLastClaim
    BY DEF Init, CandidateOfLastClaim
<1>2. TypeOK /\ TaskInv /\ CandidateOfLastClaim /\ [Next]_vars => CandidateOfLastClaim'
    <2> SUFFICES ASSUME TypeOK, TaskInv, CandidateOfLastClaim, [Next]_vars,
                        NEW t \in Task, cand'[t] # "none"
                 PROVE  row'[t].status = "done" /\ origin'[t] = row'[t].token
        BY DEF CandidateOfLastClaim
    <2>1. cand[t] # "none" => row[t].status = "done" /\ origin[t] = row[t].token
        BY DEF CandidateOfLastClaim
    <2>2. cand \in [Task -> CandidateStatus] /\ origin \in [Task -> Nat]
        BY DEF TypeOK
    <2> QED
        BY <2>1, <2>2, RowSteps DEF Typed
<1> QED
    BY <1>1, <1>2, QueueTyped, PTL DEF Spec

\* A claim counts as one failed attempt at most, and a task is dead exactly when
\* MaxAttempts claims of it failed.
THEOREM AttemptsSafe == Spec => []AttemptsWithinClaims
<1>1. Init => AttemptsInv
    BY QueueConstants DEF Init, AttemptsInv, AttemptsWithinClaims
<1>2. TypeOK /\ TaskInv /\ AttemptsInv /\ [Next]_vars => AttemptsInv'
    <2> SUFFICES ASSUME TypeOK, TaskInv, AttemptsInv, [Next]_vars, NEW t \in Task
                 PROVE  /\ row'[t].attempts <= row'[t].token
                        /\ row'[t].status = "dead" <=> row'[t].attempts >= MaxAttempts
                        /\ row'[t].status = "processing" => row'[t].attempts < row'[t].token
        BY DEF AttemptsInv, AttemptsWithinClaims
    <2>1. /\ row[t].attempts <= row[t].token
          /\ row[t].status = "dead" <=> row[t].attempts >= MaxAttempts
          /\ row[t].status = "processing" => row[t].attempts < row[t].token
        BY DEF AttemptsInv, AttemptsWithinClaims
    <2>2. row[t].attempts \in Nat /\ row[t].token \in Nat /\ MaxAttempts \in Nat
        BY QueueConstants DEF TypeOK, Row
    <2> QED
        BY <2>1, <2>2, RowSteps DEF Typed
<1>3. AttemptsInv => AttemptsWithinClaims
    BY DEF AttemptsInv
<1> QED
    BY <1>1, <1>2, <1>3, QueueTyped, PTL DEF Spec

\* No step changes the row of a task that is completed or dead.
THEOREM SettledSafe == Spec => SettledForGood
<1>1. TypeOK /\ TaskInv /\ [Next]_vars =>
        [\A t \in Task : row[t].status \in Settled => row'[t] = row[t]]_vars
    <2> SUFFICES ASSUME TypeOK, TaskInv, [Next]_vars,
                        NEW t \in Task, row[t].status \in Settled
                 PROVE  row'[t] = row[t]
        OBVIOUS
    <2> QED
        BY RowSteps DEF Typed, Settled
<1> QED
    BY <1>1, QueueTyped, PTL DEF Spec, SettledForGood

\* A candidate is executed at most once, whoever approves it at the same time and wherever
\* the handler dies, never after a rejection, and it is marked executed only if it was.
THEOREM ExecutedOnceSafe == Spec => []ExecutedOnce
<1> DEFINE Inv == TypeOK /\ TaskInv /\ CandidateOfLastClaim /\ ReviewInv
<1>1. Init => ReviewInv
    BY DEF Init, ReviewInv, ExecutedOnce, NoReview
<1>2. Inv /\ [Next]_vars => ReviewInv'
    <2> SUFFICES ASSUME Inv, [Next]_vars
                 PROVE  ReviewInv'
        OBVIOUS
    <2>1. /\ cand \in [Task -> CandidateStatus]
          /\ runs \in [Task -> Nat]
          /\ reviewer \in [Reviewer -> [at : {"idle", "execute", "executed", "execution_failed"},
                                        task : Task \cup {NoTask}]]
          /\ \A r \in Reviewer : reviewer[r].at # "idle" => reviewer[r].task \in Task
        BY DEF TypeOK, TaskInv
    <2>2. CASE UNCHANGED <<cand, runs, reviewer>>
        BY <2>2 DEF ReviewInv, ExecutedOnce
    <2>3. ASSUME NEW t \in Task, Reject(t)
          PROVE  ReviewInv'
        BY <2>1, <2>3 DEF Reject, ReviewInv, ExecutedOnce
    <2>4. ASSUME NEW q \in network, ServeComplete(q)
          PROVE  ReviewInv'
        <3>1. q.task \in Task
            BY <2>4 DEF ServeComplete, TaskInv
        <3>2. CASE Holds(q)
            <4>1. cand[q.task] = "none"
                BY <3>1, <3>2 DEF Holds, CandidateOfLastClaim
            <4>2. /\ cand' = cand \/ cand' = [cand EXCEPT ![q.task] = "pending_review"]
                  /\ UNCHANGED <<runs, reviewer>>
                BY <2>4, <3>2 DEF ServeComplete
            <4> QED
                BY <2>1, <3>1, <4>1, <4>2 DEF ReviewInv, ExecutedOnce
        <3>3. CASE ~Holds(q)
            BY <2>2, <2>4, <3>3 DEF ServeComplete
        <3> QED
            BY <3>2, <3>3
    <2>5. ASSUME NEW r \in Reviewer, NEW t \in Task, Approve(r, t)
          PROVE  ReviewInv'
        <3>1. runs[t] = 0
            <4>1. runs[t] \in Nat /\ runs[t] <= 1 /\ runs[t] # 1
                BY <2>1, <2>5 DEF Approve, ReviewInv, ExecutedOnce
            <4> QED
                BY <4>1
        <3>2. \A s \in Reviewer : reviewer[s].at # "idle" => reviewer[s].task # t
            BY <2>5 DEF Approve, ReviewInv
        <3>3. ExecutedOnce'
            BY <2>1, <2>5, <3>1 DEF Approve, ReviewInv, ExecutedOnce
        <3> QED
            BY <2>1, <2>5, <3>1, <3>2, <3>3 DEF Approve, ReviewInv
    <2>6. ASSUME NEW r \in Reviewer, Execute(r)
          PROVE  ReviewInv'
        <3>1. /\ reviewer[r].task \in Task
              /\ cand[reviewer[r].task] = "approved"
              /\ runs[reviewer[r].task] = 0
            BY <2>1, <2>6 DEF Execute, ReviewInv
        <3>2. ExecutedOnce'
            BY <2>1, <2>6, <3>1 DEF Execute, ReviewInv, ExecutedOnce
        <3>3. UNCHANGED cand
            BY <2>6 DEF Execute
        <3>4. \A s \in Reviewer : reviewer'[s].task = reviewer[s].task
                                 /\ (reviewer'[s].at # "idle" <=> reviewer[s].at # "idle")
                                 /\ (s # r => reviewer'[s] = reviewer[s])
            BY <2>1, <2>6 DEF Execute
        <3>5. /\ runs'[reviewer[r].task] = (IF reviewer'[r].at = "executed" THEN 1 ELSE 0)
              /\ \A t \in Task \ {reviewer[r].task} : runs'[t] = runs[t]
            BY <2>1, <2>6, <3>1 DEF Execute
        <3>6. \A s \in Reviewer \ {r} :
                 reviewer[s].at # "idle" => reviewer[s].task # reviewer[r].task
            BY <2>6 DEF Execute, ReviewInv
        <3> QED
            BY <2>1, <3>2, <3>3, <3>4, <3>5, <3>6 DEF ReviewInv
    <2>7. ASSUME NEW r \in Reviewer, Mark(r)
          PROVE  ReviewInv'
        <3>1. /\ reviewer[r].task \in Task
              /\ cand[reviewer[r].task] = "approved"
              /\ runs[reviewer[r].task] = (IF reviewer[r].at = "executed" THEN 1 ELSE 0)
              /\ \A s \in Reviewer \ {r} :
                    reviewer[s].at # "idle" => reviewer[s].task # reviewer[r].task
            BY <2>1, <2>7 DEF Mark, ReviewInv
        <3>2. ExecutedOnce'
            BY <2>1, <2>7, <3>1 DEF Mark, ReviewInv, ExecutedOnce
        <3> QED
            BY <2>1, <2>7, <3>1, <3>2 DEF Mark, NoReview, ReviewInv
    <2>8. ASSUME NEW r \in Reviewer, HandlerDies(r)
          PROVE  ReviewInv'
        BY <2>1, <2>8 DEF HandlerDies, NoReview, ReviewInv, ExecutedOnce
    <2>9. CASE \E t \in Task : Submit(t) \/ LeaseTick(t) \/ BackoffElapses(t)
        BY <2>2, <2>9 DEF Submit, LeaseTick, BackoffElapses
    <2>10. CASE \E w \in Worker : Poll(w) \/ Parsed(w) \/ Renew(w) \/ Retry(w) \/ GiveUp(w)
                                  \/ Crash(w)
        BY <2>2, <2>10 DEF Poll, Parsed, Renew, Retry, GiveUp, Crash
    <2>11. CASE \E q \in network : ServeClaim(q) \/ ServeFail(q)
        BY <2>2, <2>11 DEF ServeClaim, ServeFail
    <2>12. CASE UNCHANGED vars
        BY <2>2, <2>12 DEF vars
    <2> QED
        BY <2>3, <2>4, <2>5, <2>6, <2>7, <2>8, <2>9, <2>10, <2>11, <2>12 DEF Next
<1>3. ReviewInv => ExecutedOnce
    BY DEF ReviewInv
<1> QED
    BY <1>1, <1>2, <1>3, QueueTyped, OneClaimSafe, PTL DEF Spec
=============================================================================
