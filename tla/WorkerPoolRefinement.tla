------------------------- MODULE WorkerPoolRefinement -------------------------
(***************************************************************************)
(* WorkerPool implements JobService: the jobs in the channel and those the *)
(* workers have are the pending ones of the service.                       *)
(***************************************************************************)
EXTENDS WorkerPoolProofs

\* JobService counts as WorkerPool does.
LEMMA SameCount == \A S : Service!Cardinality(S) = Cardinality(S)
  BY DEF Service!Cardinality, Cardinality

\* A sequence of jobs that are apart holds as many jobs as it is long.
LEMMA QueueCount ==
  ASSUME NEW q \in Seq(Jobs), IsInjective(q)
  PROVE  IsFiniteSet(Range(q)) /\ Cardinality(Range(q)) = Len(q)
<1> DEFINE D == 1 .. Len(q)
<1>1. /\ Len(q) \in Nat /\ D = DOMAIN q
      /\ q \in [D -> Range(q)] /\ \A t \in Range(q) : \E i \in D : q[i] = t
  BY LenProperties DEF Range
<1>2. IsFiniteSet(D) /\ Cardinality(D) = Len(q)
  <2>1. Len(q) \in Nat /\ 1 \in Int /\ Len(q) \in Int
    BY <1>1
  <2>2. /\ IsFiniteSet(1 .. Len(q))
        /\ Cardinality(1 .. Len(q)) = IF 1 > Len(q) THEN 0 ELSE Len(q) - 1 + 1
    BY <2>1, FS_Interval
  <2> QED
    BY <2>1, <2>2
<1>3. q \in Surjection(D, Range(q)) /\ q \in Injection(D, Range(q))
  BY <1>1 DEF Surjection, Injection
<1> QED
  BY <1>2, <1>3, FS_Surjection

\* The workers have at most one job each.
LEMMA CurrentCount ==
  TypeOK => IsFiniteSet(Current) /\ Cardinality(Current) <= MaxWorkers
<1> SUFFICES ASSUME TypeOK
             PROVE  IsFiniteSet(Current) /\ Cardinality(Current) <= MaxWorkers
  OBVIOUS
<1> DEFINE Busy == {w \in Workers : cur[w] # NoJob}
           job == [w \in Busy |-> cur[w]]
<1>1. IsFiniteSet(Busy) /\ Cardinality(Busy) <= MaxWorkers /\ Cardinality(Busy) \in Nat
  BY FS_Subset, FS_CardinalityType, PoolAssumption
<1>2. job \in Surjection(Busy, Current)
  BY DEF Surjection, Current, TypeOK
<1>3. IsFiniteSet(Current) /\ Cardinality(Current) <= Cardinality(Busy)
  BY <1>1, <1>2, FS_Surjection
<1>4. Cardinality(Current) \in Nat
  BY <1>3, FS_CardinalityType
<1> QED
  BY <1>1, <1>3, <1>4, PoolAssumption

\* The pending jobs are at least those in the channel, and at most a job for
\* each worker more.
LEMMA PendingCount ==
  PoolInv => /\ Cardinality(Pending) \in Nat
             /\ Len(queue) <= Cardinality(Pending)
             /\ Cardinality(Pending) <= Len(queue) + MaxWorkers
<1> SUFFICES ASSUME PoolInv
             PROVE  /\ Cardinality(Pending) \in Nat
                    /\ Len(queue) <= Cardinality(Pending)
                    /\ Cardinality(Pending) <= Len(queue) + MaxWorkers
  OBVIOUS
<1>1. IsFiniteSet(Queued) /\ Cardinality(Queued) = Len(queue) /\ Len(queue) \in Nat
  BY QueueCount, QueuedIsRange, LenProperties DEF PoolInv, TypeOK, JobInv
<1>2. IsFiniteSet(Current) /\ Cardinality(Current) <= MaxWorkers
  BY CurrentCount DEF PoolInv
<1>3. Cardinality(Current) \in Nat /\ Queued \cap Current = {}
  BY <1>2, FS_CardinalityType DEF PoolInv, JobInv
<1>4. Cardinality(Queued \cup Current)
        = Cardinality(Queued) + Cardinality(Current) - Cardinality(Queued \cap Current)
  BY <1>1, <1>2, FS_Union
<1>5. Cardinality(Pending) = Len(queue) + Cardinality(Current)
  <2>1. Cardinality(Queued \cap Current) = 0
    BY <1>3, FS_EmptySet
  <2> QED
    BY <1>1, <1>3, <1>4, <2>1 DEF Pending
<1> QED
  BY <1>1, <1>2, <1>3, <1>5, PoolAssumption

\* A job is accepted while the channel has room, and turned away only while at
\* least as many jobs are pending as it holds.
LEMMA SubmitServes ==
  ASSUME PoolInv, NEW j \in Jobs, Submit(j)
  PROVE  Service!Accept(j) \/ Service!TurnAway(j)
<1>1. /\ j \notin Pending /\ answer[j] = "none"
      /\ Current' = Current
  BY DEF Submit, Current, workerVars
<1>2. CASE Len(queue) < MaxJobCount
  <2>1. queue' = Append(queue, j) /\ answer' = answer
    BY <1>2 DEF Submit
  <2>2. Queued' = Queued \cup {j}
    <3>1. Queued' = Range(queue')
      BY DEF Queued, Range
    <3> QED
      BY <2>1, <3>1, SendJob, QueuedIsRange DEF PoolInv, TypeOK
  <2>3. Pending' = Pending \cup {j}
    BY <1>1, <2>2 DEF Pending
  <2>4. Cardinality(Pending) < MaxJobCount + MaxWorkers
    BY <1>2, PendingCount, LenProperties, PoolAssumption DEF PoolInv, TypeOK
  <2> QED
    BY <1>1, <2>1, <2>3, <2>4, SameCount DEF Service!Accept
<1>3. CASE ~(Len(queue) < MaxJobCount)
  <2>1. answer' = [answer EXCEPT ![j] = "full"] /\ queue' = queue
    BY <1>3 DEF Submit
  <2>2. Pending' = Pending
    BY <1>1, <2>1 DEF Pending, Queued
  <2>3. Cardinality(Pending) >= MaxJobCount
    BY <1>3, PendingCount, LenProperties, PoolAssumption DEF PoolInv, TypeOK
  <2> QED
    BY <1>1, <2>1, <2>2, <2>3, SameCount DEF Service!TurnAway
<1> QED
  BY <1>2, <1>3

\* Every step of the pool is one of the service, or nothing to its callers.
LEMMA ServiceStep ==
  PoolInv /\ [Next]_vars => [Service!Next]_(Service!vars)
<1> SUFFICES ASSUME PoolInv, [Next]_vars
             PROVE  Service!Next \/ UNCHANGED <<Pending, answer>>
  BY DEF Service!vars
<1> DEFINE Still == UNCHANGED <<queue, cur, answer>>
<1>1. Still => UNCHANGED <<Pending, answer>>
  BY DEF Pending, Queued, Current
<1> USE DEF jobVars, workerVars
<1>2. ASSUME NEW j \in Jobs, Submit(j) PROVE Service!Next
  BY <1>2, SubmitServes DEF Service!Next
<1>3. ASSUME NEW w \in Workers, WorkerStep(w)
      PROVE  Service!Next \/ UNCHANGED <<Pending, answer>>
  <2>1. CASE Receive(w)
    BY <2>1, TypeStep, ReceiveKeeps DEF Receive
  <2>2. CASE NoneAvailable(w) \/ Reply(w)
    <3>1. PICK a \in {"refused", "failed", "output"} :
            answer' = [answer EXCEPT ![cur[w]] = a]
      BY <2>2, TypeStep, Answered
    <3>2. Pending' = Pending \ {cur[w]} /\ cur[w] \in Pending /\ cur[w] \in Jobs
      BY <2>2, TypeStep, Answered, PendingJobs DEF PoolInv
    <3>3. Service!Reply(cur[w], a)
      BY <3>1, <3>2 DEF Service!Reply
    <3> QED
      BY <3>2, <3>3 DEF Service!Next
  <2>3. CASE ~(Receive(w) \/ NoneAvailable(w) \/ Reply(w))
    <3>1. Still
      BY <1>3, <2>3 DEF WorkerStep, GetAvailableContainer, UnsupportedLanguage, StartExec,
         CmdReturns, Release
    <3> QED
      BY <1>1, <3>1
  <2> QED
    BY <2>1, <2>2, <2>3
<1>4. ASSUME NEW j \in Jobs,
             Timeout(j) \/ ProgramStep(j) \/ WatchStep(j) \/ RemoveStep(j)
      PROVE  Still
  BY <1>4 DEF Timeout, ProgramStep, Store, Load, End, WatchStep, WatchDone, Outsurge,
     WatchCancel, RemoveStep, RemoveBox, DeleteBox
<1>5. ASSUME MonitorStep PROVE Still
  BY <1>5 DEF MonitorStep, DropVanished, Refill
<1>6. CASE UNCHANGED vars
  BY <1>1, <1>6 DEF vars
<1> QED
  BY <1>1, <1>2, <1>3, <1>4, <1>5, <1>6 DEF Next

\* Nothing is pending at the start.
LEMMA ServiceInit == Init => Service!Init
  BY PoolAssumption DEF Init, Service!Init, Pending, Queued, Current

\* The pool implements the service that its callers see: no job is turned away
\* without cause, dropped, or answered twice.
THEOREM ImplementsService == Spec => ServiceSpec
  BY ServiceInit, ServiceStep, PoolInvariant, PTL DEF Spec, ServiceSpec, Service!Spec
=============================================================================
