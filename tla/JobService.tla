----------------------------- MODULE JobService -----------------------------
(***************************************************************************)
(* What WorkerPool.ExecuteJob promises its callers: a job is either turned *)
(* away at once, and only under load, or accepted and answered exactly     *)
(* once.  No more jobs are pending than the queue and the workers hold.    *)
(***************************************************************************)
EXTENDS Naturals, FiniteSets

CONSTANTS
  Jobs,
  MaxJobCount,  \* capacity of the queue
  MaxWorkers,   \* jobs executed at once
  Answers       \* what an accepted job may be answered

VARIABLES
  pending,  \* jobs accepted and not answered
  answer    \* answer of each job: "none" so far, "full", or a member of Answers

vars == <<pending, answer>>

Init ==
  /\ pending = {}
  /\ answer = [j \in Jobs |-> "none"]

Accept(j) ==
  /\ j \notin pending /\ answer[j] = "none"
  /\ Cardinality(pending) < MaxJobCount + MaxWorkers
  /\ pending' = pending \cup {j}
  /\ UNCHANGED answer

TurnAway(j) ==
  /\ j \notin pending /\ answer[j] = "none"
  /\ Cardinality(pending) >= MaxJobCount
  /\ answer' = [answer EXCEPT ![j] = "full"]
  /\ UNCHANGED pending

Reply(j, a) ==
  /\ j \in pending
  /\ pending' = pending \ {j}
  /\ answer' = [answer EXCEPT ![j] = a]

Next ==
  \E j \in Jobs : Accept(j) \/ TurnAway(j) \/ \E a \in Answers : Reply(j, a)

Spec == Init /\ [][Next]_vars
=============================================================================
