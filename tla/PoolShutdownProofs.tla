-------------------------- MODULE PoolShutdownProofs --------------------------
(***************************************************************************)
(* Theorems about PoolShutdown: what holds of the pool holds of it through *)
(* a shutdown, whatever the others are doing when it comes.                *)
(***************************************************************************)
EXTENDS PoolShutdown, WorkerPoolRefinement

\* The pool's invariant outlives a shutdown, with the types of Shutdown's own
\* variables.
ShutdownInv == PoolInv /\ ShutdownTypeOK

\* A step of the program under shutdown is one of the pool as it was, or one of
\* Shutdown's own, which takes containers away and leaves jobs and workers alone.
LEMMA PoolOrShutdown ==
  ASSUME [ShutdownNext]_allVars
  PROVE  \/ [Next]_vars
         \/ \E c \in ContainerIds : RemoveListed(c)
         \/ ClearPool
<1>1. ASSUME NEW j \in Jobs, Caller(j) PROVE [Next]_vars
  BY <1>1 DEF Caller, LateCall, Next
<1>2. ASSUME NEW w \in Workers, Worker(w) PROVE [Next]_vars
  BY <1>2 DEF Worker, WorkerReturns, Next
<1>3. ASSUME CloseShutdownChan \/ CloseJobs \/ ListContainers PROVE [Next]_vars
  BY <1>3 DEF CloseShutdownChan, CloseJobs, ListContainers
<1>4. ASSUME NEW j \in Jobs,
             Undisturbed(Timeout(j) \/ ProgramStep(j) \/ WatchStep(j) \/ RemoveStep(j))
      PROVE  [Next]_vars
  BY <1>4 DEF Undisturbed, Next
<1>5. ASSUME Undisturbed(MonitorRuns) PROVE [Next]_vars
  BY <1>5 DEF Undisturbed, MonitorRuns, Next
<1>6. ASSUME UNCHANGED allVars PROVE [Next]_vars
  BY <1>6 DEF allVars
<1> QED
  BY <1>1, <1>2, <1>3, <1>4, <1>5, <1>6 DEF ShutdownNext, ShutdownStep

\* A listed container is removed under whoever works in it: like any removal, it
\* ends programs and changes no one's fate.
LEMMA ListedKeeps ==
  ASSUME PoolInv, NEW c \in ContainerIds, RemoveListed(c)
  PROVE  PoolInv'
<1>1. UNCHANGED <<pool, lease, broken, jobVars, workerVars, execVars, watch, rem,
                  file, loaded>>
  BY DEF RemoveListed
<1>2. CASE Kill(c)
  <2>1. TypeOK'
    BY <1>1, <1>2, KillType
    DEF PoolInv, TypeOK, Active, jobVars, workerVars, execVars
  <2> QED
    BY <1>1, <1>2, <2>1, KillKeeps
<1>3. CASE UNCHANGED <<alive, prog>>
  <2>1. TypeOK'
    BY <1>1, <1>3 DEF PoolInv, TypeOK, jobVars, workerVars, execVars
  <2> QED
    BY <1>1, <1>3, <2>1, Elsewhere
<1> QED
  BY <1>2, <1>3 DEF RemoveListed

\* The map may be emptied while workers hold containers that were in it.
LEMMA ClearKeeps ==
  ASSUME PoolInv, ClearPool
  PROVE  PoolInv'
<1>1. /\ pool' = {} /\ broken' = {}
      /\ UNCHANGED <<lease, alive, jobVars, workerVars, execVars, watch, rem, progVars>>
  BY DEF ClearPool
<1>2. TypeOK'
  BY <1>1 DEF PoolInv, TypeOK, jobVars, workerVars, execVars, progVars
<1> QED
  BY <1>1, <1>2, Elsewhere DEF progVars

\* Every step keeps the invariant of the pool.
LEMMA ShutdownKeeps == PoolInv /\ [ShutdownNext]_allVars => PoolInv'
  BY PoolOrShutdown, PoolStep, ListedKeeps, ClearKeeps

\* Every step keeps the types of Shutdown's own variables.
LEMMA ShutdownTypes ==
  ShutdownInv /\ [ShutdownNext]_allVars => ShutdownTypeOK'
<1> SUFFICES ASSUME ShutdownInv, [ShutdownNext]_allVars PROVE ShutdownTypeOK'
  OBVIOUS
<1>1. TypeOK'
  BY ShutdownKeeps DEF ShutdownInv, PoolInv
<1> DEFINE Own == /\ process' \in {"up", "dead"}
                  /\ spc' \in {"off", "signal", "list", "remove", "wait"}
                  /\ victims' \in SUBSET ContainerIds
                  /\ goroutines' \in SUBSET (Workers \cup {Monitor})
<1> USE DEF ShutdownInv, ShutdownTypeOK, shutdownVars
<1>2. ASSUME NEW j \in Jobs, Caller(j) PROVE Own
  BY <1>2 DEF Caller, LateCall
<1>3. ASSUME NEW w \in Workers, Worker(w) PROVE Own
  BY <1>3 DEF Worker, WorkerReturns
<1>4. ASSUME CloseShutdownChan \/ ShutdownStep PROVE Own
  BY <1>4 DEF CloseShutdownChan, ShutdownStep, CloseJobs, ListContainers, RemoveListed,
     ClearPool, TypeOK
<1>5. ASSUME UNCHANGED shutdownVars PROVE Own
  BY <1>5
<1> QED
  BY <1>1, <1>2, <1>3, <1>4, <1>5 DEF ShutdownNext, Undisturbed, allVars

\* The variables keep their types, and the pool its invariant, in every state of
\* a shutdown: as its callers return, as its containers go, as it refills.
THEOREM ShutdownInvariant == ShutdownSpec => []ShutdownInv
<1>1. ShutdownInit => ShutdownInv
  BY PoolInit DEF ShutdownInit, ShutdownInv, ShutdownTypeOK, PoolInv
<1>2. ShutdownInv /\ [ShutdownNext]_allVars => ShutdownInv'
  BY ShutdownKeeps, ShutdownTypes DEF ShutdownInv
<1> QED
  BY <1>1, <1>2, PTL DEF ShutdownSpec

\* The variables of PoolShutdown keep their types.
THEOREM ShutdownTypesHold == ShutdownSpec => []ShutdownTypeOK
<1>1. ShutdownInv => ShutdownTypeOK
  BY DEF ShutdownInv
<1> QED
  BY <1>1, ShutdownInvariant, PTL

\* Of the pool's own promises a shutdown breaks none of these: successes are
\* earned, executions that are waited for do not meet, and a worker that asks a
\* complete pool for a container finds one.
THEOREM ShutdownSafe ==
  ShutdownSpec => [](OutputIsEarned /\ OneLiveExecution /\ MixedCodeNeedsAbandoned
                       /\ EnoughContainers)
<1>1. PoolInv => /\ OutputIsEarned /\ OneLiveExecution /\ MixedCodeNeedsAbandoned
                 /\ EnoughContainers
  BY SuccessEarned, LiveApart, MixedFails, OneIsLeft
<1>2. ShutdownInv => PoolInv
  BY DEF ShutdownInv
<1> QED
  BY <1>1, <1>2, ShutdownInvariant, PTL

\* Shutdown or not, the pool is the service its callers see: a job is answered at
\* most once, and none leaves the channel and the workers without its answer.
THEOREM ShutdownServes == ShutdownSpec => ServiceSpec
<1>1. ShutdownInit => Service!Init
  BY ServiceInit DEF ShutdownInit
<1>2. ShutdownInv /\ [ShutdownNext]_allVars => [Service!Next]_(Service!vars)
  <2> SUFFICES ASSUME ShutdownInv, [ShutdownNext]_allVars
               PROVE  [Service!Next]_(Service!vars)
    OBVIOUS
  <2>1. CASE [Next]_vars
    BY <2>1, ServiceStep DEF ShutdownInv
  <2>2. CASE (\E c \in ContainerIds : RemoveListed(c)) \/ ClearPool
    <3>1. UNCHANGED <<queue, cur, answer>>
      BY <2>2 DEF RemoveListed, ClearPool, jobVars, workerVars
    <3> QED
      BY <3>1 DEF Service!vars, Pending, Queued, Current
  <2> QED
    BY <2>1, <2>2, PoolOrShutdown
<1> QED
  BY <1>1, <1>2, ShutdownInvariant, PTL DEF ShutdownSpec, ServiceSpec, Service!Spec
=============================================================================
