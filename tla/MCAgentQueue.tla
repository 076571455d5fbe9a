---------------------------- MODULE MCAgentQueue ----------------------------
(* Values for the constants of AgentQueue.                                 *)
EXTENDS AgentQueue, TLC

CONSTANTS t1, t2, w1, w2, r1, r2

OneTask == {t1}
TwoTasks == {t1, t2}
OneWorker == {w1}
TwoWorkers == {w1, w2}
NoReviewer == {}
TwoReviewers == {r1, r2}
Alike == Permutations(Task) \cup Permutations(Worker) \cup Permutations(Reviewer)
=============================================================================
