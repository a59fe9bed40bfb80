----------------------- MODULE ContainerManagerProofs -----------------------
(***************************************************************************)
(* Theorems about ContainerManager, for any number of workers, removers,   *)
(* containers, retries, any pool size and any set of faults.               *)
(***************************************************************************)
EXTENDS ContainerManager, FiniteSetTheorems, TLAPS

\* What a worker's position says of the mutex, its container and its retries.
WorkerInv ==
  \A w \in Workers :
    /\ wpc[w] \in {"leased", "running"} <=> held[w] # NoContainer
    /\ wpc[w] = "scan" <=> mu = w
    /\ wpc[w] # "scan" => tries[w] = 0

\* A container that is held and still registered is marked busy: no scan can
\* hand it out.
HeldBusy ==
  \A w \in Workers : held[w] \in Registered => containers[held[w]] = "busy"

\* Nothing runs before InitializePool has returned.
BootInv ==
  /\ process # "serve" => \A w \in Workers : wpc[w] = "free"
  /\ process = "down" => Registered = {} /\ mpc = "tick"

\* The container being started is nobody's yet.
MonitorInv ==
  /\ mpc \in {"create", "start", "insert"} => need > 0
  /\ mpc \in {"start", "insert"} => cid \in ContainerIds \ (Registered \cup Held)

LeaseInv ==
  TypeOK /\ WorkerInv /\ HeldBusy /\ BootInv /\ MonitorInv /\ LeaseExclusive

\* A set of containers has a size: ContainerIds is finite.
LEMMA CountType == \A S \in SUBSET ContainerIds : Cardinality(S) \in Nat
  BY FS_CardinalityType, FS_Subset, ManagerAssumption

\* What is missing and what is in excess are numbers, never negative.
LEMMA CorrectionType ==
  \A n \in Nat : Missing(n) \in Nat /\ Excess(n) \in Nat
  BY ManagerAssumption DEF Missing, Excess

\* The strengthening holds before the process is started for the first time.
LEMMA LeaseInit == Init => LeaseInv
  BY ManagerAssumption
  DEF Init, LeaseInv, TypeOK, WorkerInv, HeldBusy, BootInv, MonitorInv,
      LeaseExclusive, Registered, Held, ContainerState, MonitorStep

\* The process dies: everything in memory is as in the initial state.
LEMMA DieLease == LeaseInv /\ Die => LeaseInv'
  BY ManagerAssumption
  DEF Die, LeaseInv, TypeOK, WorkerInv, HeldBusy, BootInv, MonitorInv,
      LeaseExclusive, Registered, Held, ContainerState, MonitorStep, dockerVars

\* ContainerRemove, successful or not, leaves the daemon with containers of
\* the three kinds it had.
LEMMA RemoveType == \A c \in ContainerIds \cup {NoContainer} :
  TypeOK /\ DockerRemove(c) =>
    /\ docker' \in [ContainerIds -> {"running", "stopped", "absent"}]
    /\ leaked' \in SUBSET ContainerIds
  BY DEF TypeOK, DockerRemove, Existing

-----------------------------------------------------------------------------
\* Every step keeps the strengthening.  The unlocked deletions of RemoveContainer
\* are harmless here, for they only take entries away.
LEMMA LeaseStep == LeaseInv /\ [Next]_vars => LeaseInv'
<1> SUFFICES ASSUME LeaseInv, [Next]_vars PROVE LeaseInv'
  OBVIOUS
<1> USE ManagerAssumption
    DEF LeaseInv, TypeOK, WorkerInv, HeldBusy, BootInv, MonitorInv,
        LeaseExclusive, Registered, Held, ContainerState, MonitorStep,
        dockerVars, workerVars, removerVars, monitorVars
<1>1. ASSUME InitializePool PROVE LeaseInv'
  BY <1>1, CountType, CorrectionType DEF InitializePool, removeExcessContainers, Existing
<1>2. ASSUME CheckHealthList PROVE LeaseInv'
  BY <1>2 DEF CheckHealthList, Existing
<1>3. ASSUME CheckHealthState PROVE LeaseInv'
  BY <1>3, DieLease DEF CheckHealthState
<1>4. ASSUME CheckHealthSweep PROVE LeaseInv'
  BY <1>4, CountType, CorrectionType DEF CheckHealthSweep
<1>5. ASSUME MonitorDelete PROVE LeaseInv'
  <2>1. TypeOK' /\ WorkerInv' /\ BootInv' /\ LeaseExclusive'
    BY <1>5 DEF MonitorDelete
  <2>2. Registered' \subseteq Registered /\ Held' = Held
    BY <1>5 DEF MonitorDelete
  <2>3. HeldBusy'
    BY <1>5, <2>2 DEF MonitorDelete
  <2>4. MonitorInv'
    BY <1>5 DEF MonitorDelete
  <2> QED
    BY <2>1, <2>3, <2>4
<1>6. ASSUME MonitorAdjust PROVE LeaseInv'
  BY <1>6, CountType, CorrectionType DEF MonitorAdjust, removeExcessContainers
<1>7. ASSUME StartContainer PROVE LeaseInv'
  BY <1>7 DEF StartContainer
<1>8. ASSUME ContainerCreate PROVE LeaseInv'
  BY <1>8 DEF ContainerCreate, Fresh
<1>9. ASSUME ContainerCreateFails PROVE LeaseInv'
  BY <1>9 DEF ContainerCreateFails, StartFailed
<1>10. ASSUME ContainerStart PROVE LeaseInv'
  BY <1>10 DEF ContainerStart
<1>11. ASSUME ContainerStartFails PROVE LeaseInv'
  BY <1>11, RemoveType DEF ContainerStartFails, StartFailed
<1>12. ASSUME ContainerInsert PROVE LeaseInv'
  BY <1>12 DEF ContainerInsert
<1>13. ASSUME MonitorDone PROVE LeaseInv'
  BY <1>13, DieLease DEF MonitorDone
<1>14. ASSUME NEW c \in ContainerIds, CheckHealthExists(c) PROVE LeaseInv'
  BY <1>14 DEF CheckHealthExists
<1>15. ASSUME NEW c \in ContainerIds, MonitorRemove(c) PROVE LeaseInv'
  BY <1>15, RemoveType DEF MonitorRemove
<1>16. ASSUME NEW c \in ContainerIds, ContainerExit(c) PROVE LeaseInv'
  BY <1>16 DEF ContainerExit
<1>17. ASSUME NEW w \in Workers, LockPool(w) PROVE LeaseInv'
  BY <1>17 DEF LockPool
<1>18. ASSUME NEW w \in Workers, RetryScan(w) PROVE LeaseInv'
  BY <1>18 DEF RetryScan, Idle
<1>19. ASSUME NEW w \in Workers, NoneAvailable(w) PROVE LeaseInv'
  BY <1>19 DEF NoneAvailable, Idle
<1>20. ASSUME NEW w \in Workers, SetBusy(w) PROVE LeaseInv'
  BY <1>20 DEF SetBusy, SetContainerState
<1>21. ASSUME NEW w \in Workers, SetIdle(w) PROVE LeaseInv'
  BY <1>21 DEF SetIdle, SetContainerState
<1>22. ASSUME NEW w \in Workers, NEW c \in ContainerIds, AssignIdle(w, c) PROVE LeaseInv'
  BY <1>22 DEF AssignIdle, Idle
<1>23. ASSUME NEW r \in Removers, NEW c \in ContainerIds, RequestRemove(r, c) PROVE LeaseInv'
  BY <1>23 DEF RequestRemove
<1>24. ASSUME NEW r \in Removers, RemoverRemove(r) PROVE LeaseInv'
  BY <1>24, RemoveType DEF RemoverRemove
<1>25. ASSUME NEW r \in Removers, RemoverDelete(r) PROVE LeaseInv'
  <2>1. Registered' \subseteq Registered /\ Held' = Held
    BY <1>25 DEF RemoverDelete
  <2>2. TypeOK'
    BY <1>25 DEF RemoverDelete
  <2>3. WorkerInv' /\ LeaseExclusive'
    BY <1>25 DEF RemoverDelete
  <2>4. HeldBusy'
    BY <1>25, <2>1 DEF RemoverDelete
  <2>5. BootInv'
    BY <1>25, <2>1 DEF RemoverDelete
  <2>6. MonitorInv'
    BY <1>25, <2>1 DEF RemoverDelete
  <2> QED
    BY <2>2, <2>3, <2>4, <2>5, <2>6
<1>26. ASSUME SystemPrune PROVE LeaseInv'
  BY <1>26 DEF SystemPrune
<1>27. ASSUME UNCHANGED vars PROVE LeaseInv'
  BY <1>27 DEF vars
<1> QED
  BY <1>1, <1>2, <1>3, <1>4, <1>5, <1>6, <1>7, <1>8, <1>9, <1>10, <1>11,
     <1>12, <1>13, <1>14, <1>15, <1>16, <1>17, <1>18, <1>19, <1>20, <1>21,
     <1>22, <1>23, <1>24, <1>25, <1>26, <1>27, DieLease
  DEF Next, MonitorNext, WorkerStep, RemoverStep, Environment, Crash, MapFault

\* The strengthening holds in every reachable state.
THEOREM LeaseInvariant == Spec => []LeaseInv
  BY LeaseInit, LeaseStep, PTL DEF Spec

\* Every variable keeps its type: in particular the counters of the retry loop
\* and of the refill loop never leave their range.
THEOREM TypeCorrect == Spec => []TypeOK
  BY LeaseInvariant, PTL DEF LeaseInv

\* GetAvailableContainer hands no container to two workers.
THEOREM Exclusion == Spec => []LeaseExclusive
  BY LeaseInvariant, PTL DEF LeaseInv
-----------------------------------------------------------------------------
\* Entries that the monitor has marked for removal and not yet deleted.
Doomed == IF mpc = "delete" THEN toRemove \cup {cid} ELSE toRemove

\* PoolBound, and why: what InitializePool spares fits into the pool; only the
\* monitor inserts, so the room that StartContainer saw cannot shrink before
\* its insertion, only grow.
SizeInv ==
  /\ process # "down" => Cardinality(Registered \ Doomed) <= MaxWorkers
  /\ process = "serve" => Cardinality(Registered) <= MaxWorkers
  /\ mpc \notin {"remove", "delete"} => toRemove = {}
  /\ mpc \in {"create", "start", "insert"} => Cardinality(Registered) < MaxWorkers

\* A part of a set of containers is no larger than the set.
LEMMA CountSubset ==
  \A T \in SUBSET ContainerIds : \A S \in SUBSET T : Cardinality(S) <= Cardinality(T)
  BY FS_Subset, ManagerAssumption

\* Inserting one container makes a set larger by one at most.
LEMMA CountAdd ==
  \A S \in SUBSET ContainerIds, c \in ContainerIds :
    Cardinality(S \cup {c}) <= Cardinality(S) + 1
<1> TAKE S \in SUBSET ContainerIds, c \in ContainerIds
<1>1. IsFiniteSet(S)
  BY FS_Subset, ManagerAssumption
<1> QED
  BY <1>1, FS_AddElement, FS_CardinalityType

\* Without its excess, a set of containers fits into the pool.
LEMMA CountExcess ==
  \A S \in SUBSET ContainerIds : \A victims \in SUBSET S :
    Cardinality(victims) = Excess(Cardinality(S))
      => Cardinality(S \ victims) <= MaxWorkers
<1> TAKE S \in SUBSET ContainerIds
<1> TAKE victims \in SUBSET S
<1>1. IsFiniteSet(S) /\ S \cap victims = victims
  BY FS_Subset, ManagerAssumption
<1>2. Cardinality(S \ victims) = Cardinality(S) - Cardinality(victims)
  BY <1>1, FS_Difference
<1>3. Cardinality(S) \in Nat /\ Cardinality(victims) \in Nat
  BY CountType
<1> QED
  BY <1>2, <1>3, ManagerAssumption DEF Excess

\* Nothing is registered before the process is started.
LEMMA SizeInit == Init => SizeInv
  BY DEF Init, SizeInv

\* A step that inserts nothing and leaves the monitor where it is.
LEMMA SizeKept ==
  ASSUME TypeOK, SizeInv, Registered' \subseteq Registered,
         UNCHANGED <<process, mpc, toRemove, cid>>
  PROVE  SizeInv'
<1>1. Doomed' = Doomed
  BY DEF Doomed
<1>2. Registered \in SUBSET ContainerIds
  BY DEF Registered
<1>3. Cardinality(Registered') <= Cardinality(Registered)
  BY <1>2, CountSubset
<1>4. Cardinality(Registered' \ Doomed') <= Cardinality(Registered \ Doomed)
  BY <1>1, <1>2, CountSubset
<1>5. /\ Cardinality(Registered) \in Nat /\ Cardinality(Registered') \in Nat
      /\ Cardinality(Registered \ Doomed) \in Nat
      /\ Cardinality(Registered' \ Doomed') \in Nat
  BY <1>2, CountType
<1> QED
  BY <1>3, <1>4, <1>5, ManagerAssumption DEF SizeInv

\* The map of a dead process is empty.
LEMMA DieSize == Die => SizeInv'
  BY DEF Die, SizeInv, Doomed

\* Every step keeps the bound and the reasons for it.
LEMMA SizeStep == LeaseInv /\ SizeInv /\ [Next]_vars => SizeInv'
<1> SUFFICES ASSUME LeaseInv, SizeInv, [Next]_vars PROVE SizeInv'
  OBVIOUS
<1>0. /\ TypeOK /\ TypeOK'
      /\ Registered \in SUBSET ContainerIds /\ Registered' \in SUBSET ContainerIds
  BY LeaseStep DEF LeaseInv, Registered
<1> DEFINE Kept == /\ Registered' \subseteq Registered
                   /\ UNCHANGED <<process, mpc, toRemove, cid>>
<1>a. ASSUME Kept PROVE SizeInv'
  BY <1>0, <1>a, SizeKept
<1>b. /\ Cardinality(Registered) \in Nat /\ Cardinality(Registered') \in Nat
      /\ Cardinality(Registered \ Doomed) \in Nat
      /\ Cardinality(Registered' \ Doomed') \in Nat
  BY <1>0, CountType
<1>1. ASSUME InitializePool PROVE SizeInv'
  <2>1. Registered' = Existing
    BY <1>0, <1>1 DEF InitializePool, Registered, Existing, TypeOK
  <2>2. /\ toRemove' \in SUBSET Existing
        /\ Cardinality(toRemove') = Excess(Cardinality(Existing))
        /\ process' = "boot" /\ mpc' = "remove"
    BY <1>1 DEF InitializePool, removeExcessContainers
  <2>3. Cardinality(Existing \ toRemove') <= MaxWorkers
    BY <2>2, CountExcess DEF Existing
  <2> QED
    BY <2>1, <2>2, <2>3 DEF SizeInv, Doomed
<1>2. ASSUME CheckHealthSweep PROVE SizeInv'
  <2>1. /\ Registered' = Registered /\ mpc = "scan" /\ mpc' = "remove"
        /\ process' = process
    BY <1>2 DEF CheckHealthSweep, Registered
  <2>2. Doomed = {}
    BY <2>1 DEF SizeInv, Doomed
  <2>3. Cardinality(Registered' \ Doomed') <= Cardinality(Registered \ Doomed)
    BY <1>0, <2>1, <2>2, CountSubset
  <2> QED
    BY <1>b, <2>1, <2>3, ManagerAssumption DEF SizeInv
<1>3. ASSUME NEW c \in ContainerIds, MonitorRemove(c) PROVE SizeInv'
  <2>1. /\ Registered' = Registered /\ mpc = "remove" /\ mpc' = "delete"
        /\ process' = process /\ Doomed' = Doomed
    BY <1>3 DEF MonitorRemove, Registered, Doomed
  <2> QED
    BY <2>1 DEF SizeInv
<1>4. ASSUME MonitorDelete PROVE SizeInv'
  <2>1. Registered' = Registered \ {cid}
    BY <1>0, <1>4 DEF MonitorDelete, Registered, TypeOK
  <2>2. /\ mpc = "delete" /\ mpc' = "remove" /\ process' = process
        /\ toRemove' = toRemove
    BY <1>4 DEF MonitorDelete
  <2>3. Registered' \ Doomed' = Registered \ Doomed
    BY <2>1, <2>2 DEF Doomed
  <2>4. Cardinality(Registered') <= Cardinality(Registered)
    BY <1>0, <2>1, CountSubset
  <2> QED
    BY <1>b, <2>2, <2>3, <2>4, ManagerAssumption DEF SizeInv
<1>5. ASSUME MonitorAdjust PROVE SizeInv'
  <2>1. /\ Registered' = Registered /\ mpc = "remove" /\ toRemove = {}
        /\ process' = process
        /\ \/ mpc' = "refill" /\ toRemove' = {}
           \/ mpc' = "remove"
    BY <1>5 DEF MonitorAdjust, removeExcessContainers, Registered
  <2>2. Doomed = {}
    BY <2>1 DEF Doomed
  <2>3. Cardinality(Registered' \ Doomed') <= Cardinality(Registered \ Doomed)
    BY <1>0, <2>1, <2>2, CountSubset
  <2> QED
    BY <1>b, <2>1, <2>3, ManagerAssumption DEF SizeInv
<1>6. ASSUME StartContainer PROVE SizeInv'
  <2>1. /\ Registered' = Registered /\ mpc = "refill" /\ process' = process
        /\ toRemove' = toRemove
        /\ \/ mpc' = "refill"
           \/ mpc' = "create" /\ ~(Cardinality(Registered) >= MaxWorkers)
    BY <1>6 DEF StartContainer, Registered
  <2> QED
    BY <1>b, <2>1, ManagerAssumption DEF SizeInv, Doomed
<1>7. ASSUME ContainerInsert PROVE SizeInv'
  <2>1. /\ mpc = "insert" /\ mpc' = "refill" /\ process' = process
        /\ toRemove' = toRemove
    BY <1>7 DEF ContainerInsert
  <2>2. Registered' = Registered \cup {cid} /\ cid \in ContainerIds
    BY <1>0, <1>7 DEF ContainerInsert, Registered, TypeOK, LeaseInv, MonitorInv
  <2>3. Cardinality(Registered') <= MaxWorkers
    BY <1>0, <1>b, <2>1, <2>2, CountAdd, ManagerAssumption DEF SizeInv
  <2>4. toRemove' = {} /\ Doomed' = {}
    BY <2>1 DEF SizeInv, Doomed
  <2> QED
    BY <2>1, <2>3, <2>4 DEF SizeInv
<1>8. ASSUME \/ CheckHealthList \/ \E c \in ContainerIds : CheckHealthExists(c)
             \/ ContainerCreate \/ ContainerCreateFails
             \/ ContainerStart \/ ContainerStartFails
      PROVE  SizeInv'
  <2>1. /\ Registered' = Registered /\ process' = process /\ toRemove' = toRemove
        /\ mpc \notin {"remove", "delete"} /\ mpc' \notin {"remove", "delete"}
        /\ mpc' \in {"create", "start", "insert"}
             => mpc \in {"create", "start", "insert"}
    BY <1>8 DEF CheckHealthList, CheckHealthExists, ContainerCreate,
                ContainerCreateFails, ContainerStart, ContainerStartFails,
                StartFailed, Registered
  <2> QED
    BY <2>1 DEF SizeInv, Doomed
<1>9. ASSUME CheckHealthState \/ MonitorDone PROVE SizeInv'
  <2>1. CASE Die
    BY <2>1, DieSize
  <2>2. CASE ~Die
    <3>1. /\ Registered' = Registered /\ toRemove' = toRemove
          /\ mpc \in {"deref", "refill"} /\ mpc' \in {"scan", "tick"}
          /\ process' = process \/ process' = "serve"
      BY <1>9, <2>2 DEF CheckHealthState, MonitorDone, Registered
    <3>2. process # "down"
      BY <3>1 DEF LeaseInv, BootInv
    <3> QED
      BY <3>1, <3>2 DEF SizeInv, Doomed
  <2> QED
    BY <2>1, <2>2
<1>10. ASSUME NEW w \in Workers, LockPool(w) \/ WorkerStep(w) PROVE Kept
  BY <1>0, <1>10
  DEF LockPool, WorkerStep, AssignIdle, Idle, RetryScan, NoneAvailable, SetBusy,
      SetIdle, SetContainerState, Registered, TypeOK, monitorVars
<1>11. ASSUME NEW r \in Removers,
              RemoverStep(r) \/ \E c \in ContainerIds : RequestRemove(r, c)
       PROVE  Kept
  BY <1>0, <1>11
  DEF RemoverStep, RemoverRemove, RemoverDelete, RequestRemove, Registered,
      TypeOK, monitorVars
<1>12. ASSUME SystemPrune \/ \E c \in ContainerIds : ContainerExit(c) PROVE Kept
  BY <1>12 DEF SystemPrune, ContainerExit, Registered, monitorVars
<1>13. ASSUME UNCHANGED vars PROVE Kept
  BY <1>13 DEF vars, monitorVars, Registered
<1> QED
  BY <1>a, <1>1, <1>2, <1>3, <1>4, <1>5, <1>6, <1>7, <1>8, <1>9, <1>10, <1>11,
     <1>12, <1>13, DieSize
  DEF Next, MonitorNext, Environment, Crash, MapFault

\* The pool that serves never has more than maxWorkers containers, however the
\* removals and the two halves of StartContainer interleave.
THEOREM Bounded == Spec => []PoolBound
<1>1. LeaseInv /\ SizeInv => PoolBound
  BY DEF SizeInv, PoolBound
<1> QED
  BY <1>1, LeaseInvariant, SizeInit, SizeStep, PTL DEF Spec
-----------------------------------------------------------------------------
\* Entries become idle only while cm.mu is free.
LEMMA IdleShrinks ==
  LeaseInv /\ [Next]_vars /\ process # "down" /\ mu # Nobody => Idle' \subseteq Idle
<1> SUFFICES ASSUME LeaseInv, [Next]_vars, process # "down", mu # Nobody
             PROVE  Idle' \subseteq Idle
  OBVIOUS
<1>0. TypeOK
  BY DEF LeaseInv
<1>1. ASSUME MonitorNext PROVE Idle' \subseteq Idle
  BY <1>0, <1>1
  DEF MonitorNext, CheckHealthList, CheckHealthExists, CheckHealthState,
      CheckHealthSweep, MonitorRemove, MonitorDelete, MonitorAdjust,
      StartContainer, ContainerCreate, ContainerCreateFails, ContainerStart,
      ContainerStartFails, ContainerInsert, MonitorDone, Die, Idle, TypeOK
<1>2. ASSUME NEW w \in Workers, LockPool(w) \/ WorkerStep(w)
      PROVE  Idle' \subseteq Idle
  BY <1>0, <1>2
  DEF LockPool, WorkerStep, AssignIdle, RetryScan, NoneAvailable, SetBusy,
      SetIdle, SetContainerState, Idle, TypeOK
<1>3. ASSUME NEW r \in Removers,
             RemoverStep(r) \/ \E c \in ContainerIds : RequestRemove(r, c)
      PROVE  Idle' \subseteq Idle
  BY <1>0, <1>3
  DEF RemoverStep, RemoverRemove, RemoverDelete, RequestRemove, Idle, TypeOK
<1>4. ASSUME Environment \/ UNCHANGED vars PROVE Idle' \subseteq Idle
  BY <1>4
  DEF Environment, ContainerExit, SystemPrune, Crash, MapFault, Die, Idle, vars
<1> QED
  BY <1>1, <1>2, <1>3, <1>4 DEF Next, InitializePool

\* Every step keeps the scans futile: those who could give a container back
\* need the mutex that the sleeping worker holds.
LEMMA RetryStep == LeaseInv /\ RetryFutile /\ [Next]_vars => RetryFutile'
<1> SUFFICES ASSUME LeaseInv, RetryFutile, [Next]_vars PROVE RetryFutile'
  OBVIOUS
<1>0. TypeOK /\ WorkerInv /\ BootInv
  BY DEF LeaseInv
<1>1. \A w \in Workers : wpc[w] = "scan" => process # "down" /\ mu # Nobody
  BY <1>0, ManagerAssumption DEF WorkerInv, BootInv
\* Where the workers stand still, IdleShrinks decides.
<1>2. ASSUME UNCHANGED <<wpc, tries>> PROVE RetryFutile'
  BY <1>1, <1>2, IdleShrinks DEF RetryFutile
<1>3. ASSUME Die PROVE RetryFutile'
  BY <1>3 DEF Die, RetryFutile
<1>4. ASSUME NEW w \in Workers, LockPool(w) \/ SetBusy(w) \/ SetIdle(w)
      PROVE  RetryFutile'
  <2>1. mu = Nobody
    BY <1>4 DEF LockPool, SetBusy, SetIdle, SetContainerState
  <2>2. \A v \in Workers : wpc[v] # "scan" /\ tries[v] = 0
    BY <1>0, <1>1, <2>1 DEF WorkerInv
  <2>3. tries' = tries
    BY <1>4 DEF LockPool, SetBusy, SetIdle
  <2> QED
    BY <2>2, <2>3 DEF RetryFutile
<1>5. ASSUME NEW w \in Workers,
             NoneAvailable(w) \/ \E c \in ContainerIds : AssignIdle(w, c)
      PROVE  RetryFutile'
  <2>1. mu = w
    BY <1>0, <1>5 DEF NoneAvailable, AssignIdle, WorkerInv
  <2>2. \A v \in Workers : v # w => wpc[v] # "scan"
    BY <1>0, <2>1 DEF WorkerInv
  <2>3. \A v \in Workers : wpc'[v] # "scan"
    BY <1>0, <1>5, <2>2 DEF NoneAvailable, AssignIdle, TypeOK
  <2> QED
    BY <2>3 DEF RetryFutile
<1>6. ASSUME NEW w \in Workers, RetryScan(w) PROVE RetryFutile'
  BY <1>6 DEF RetryScan, RetryFutile, Idle
<1>7. ASSUME MonitorNext \/ InitializePool \/ UNCHANGED vars, ~Die
      PROVE  UNCHANGED <<wpc, tries>>
  BY <1>7
  DEF InitializePool, MonitorNext, CheckHealthList, CheckHealthExists,
      CheckHealthState, CheckHealthSweep, MonitorRemove, MonitorDelete,
      MonitorAdjust, StartContainer, ContainerCreate, ContainerCreateFails,
      ContainerStart, ContainerStartFails, ContainerInsert, MonitorDone,
      workerVars, vars
<1>8. ASSUME NEW r \in Removers,
             RemoverStep(r) \/ \E c \in ContainerIds : RequestRemove(r, c)
      PROVE  UNCHANGED <<wpc, tries>>
  BY <1>8 DEF RemoverStep, RemoverRemove, RemoverDelete, RequestRemove, workerVars
<1>9. ASSUME SystemPrune \/ \E c \in ContainerIds : ContainerExit(c)
      PROVE  UNCHANGED <<wpc, tries>>
  BY <1>9 DEF SystemPrune, ContainerExit, workerVars
<1> QED
  BY <1>2, <1>3, <1>4, <1>5, <1>6, <1>7, <1>8, <1>9
  DEF Next, WorkerStep, Environment, Crash, MapFault

\* A worker that sleeps in GetAvailableContainer keeps the mutex, so the entry
\* it waits for cannot be given back: retrying finds nothing, ever.
THEOREM RetriesAreFutile == Spec => []RetryFutile
<1>1. Init => RetryFutile
  BY DEF Init, RetryFutile
<1> QED
  BY <1>1, LeaseInvariant, RetryStep, PTL DEF Spec
=============================================================================
