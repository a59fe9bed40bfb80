--------------------- MODULE ContainerManagerRefinement ---------------------
(***************************************************************************)
(* More about ContainerManager, from the invariants of                     *)
(* ContainerManagerProofs: who makes entries idle, where containers may be *)
(* lost, and that the manager implements ContainerLease.                   *)
(***************************************************************************)
EXTENDS ContainerManagerProofs

\* Both invariants, and that they hold on either side of every step.
ManagerInv == LeaseInv /\ SizeInv

\* The invariants of the leases and of the size hold together.
THEOREM ManagerInvariant == Spec => []ManagerInv
<1>1. Init => ManagerInv
  BY LeaseInit, SizeInit DEF ManagerInv
<1>2. ManagerInv /\ [Next]_vars => ManagerInv'
  BY LeaseStep, SizeStep DEF ManagerInv
<1> QED
  BY <1>1, <1>2, PTL DEF Spec
-----------------------------------------------------------------------------
(* Idle entries.                                                           *)

\* The conclusion of OnlyHolderReleases for one step.
Released ==
  \A c \in ContainerIds :
    containers[c] = "busy" /\ containers'[c] = "idle"
      => \E w \in Workers : held[w] = c /\ held'[w] = NoContainer

\* Only SetIdle makes a busy entry idle: an insertion is of a container without
\* an entry, and InitializePool finds no entries at all.
LEMMA ReleaseStep == LeaseInv /\ [Next]_vars => Released
<1> SUFFICES ASSUME LeaseInv, [Next]_vars, NEW c \in ContainerIds,
                    containers[c] = "busy", containers'[c] = "idle"
             PROVE  \E w \in Workers : held[w] = c /\ held'[w] = NoContainer
  BY DEF Released
<1>0. TypeOK /\ WorkerInv /\ BootInv /\ MonitorInv /\ c \in Registered
  BY DEF LeaseInv, Registered
<1>1. ASSUME InitializePool PROVE FALSE
  BY <1>0, <1>1 DEF InitializePool, BootInv
<1>2. ASSUME MonitorNext PROVE FALSE
  BY <1>0, <1>2
  DEF MonitorNext, CheckHealthList, CheckHealthExists, CheckHealthState,
      CheckHealthSweep, MonitorRemove, MonitorDelete, MonitorAdjust,
      StartContainer, ContainerCreate, ContainerCreateFails, ContainerStart,
      ContainerStartFails, ContainerInsert, MonitorDone, Die, MonitorInv, TypeOK
<1>3. ASSUME NEW w \in Workers, LockPool(w) \/ WorkerStep(w)
      PROVE  held[w] = c /\ held'[w] = NoContainer
  BY <1>0, <1>3
  DEF LockPool, WorkerStep, AssignIdle, RetryScan, NoneAvailable, SetBusy,
      SetIdle, SetContainerState, TypeOK
<1>4. ASSUME NEW r \in Removers,
             RemoverStep(r) \/ \E d \in ContainerIds : RequestRemove(r, d)
      PROVE  FALSE
  BY <1>0, <1>4
  DEF RemoverStep, RemoverRemove, RemoverDelete, RequestRemove, TypeOK
<1>5. ASSUME Environment \/ UNCHANGED vars PROVE FALSE
  BY <1>5 DEF Environment, ContainerExit, SystemPrune, Crash, MapFault, Die, vars
<1> QED
  BY <1>1, <1>2, <1>3, <1>4, <1>5 DEF Next

\* A container that a worker uses is handed out again by that worker alone: no
\* health check, no removal and no restart turns its entry idle.
THEOREM HolderReleases == Spec => OnlyHolderReleases
<1>1. LeaseInv /\ [Next]_vars => [Released]_vars
  BY ReleaseStep
<1>2. OnlyHolderReleases <=> [][Released]_vars
  BY DEF OnlyHolderReleases, Released
<1> QED
  BY <1>1, <1>2, LeaseInvariant, PTL DEF Spec
-----------------------------------------------------------------------------
(* ContainerManager implements ContainerLease.                             *)

\* The abstract pool: what workers can be given.
Pool == IF process = "serve" THEN Registered ELSE {}

\* No worker holds anything unless the process serves.
LEMMA NothingHeld ==
  LeaseInv /\ process # "serve" => held = [w \in Workers |-> NoContainer]
  BY DEF LeaseInv, BootInv, WorkerInv, TypeOK

\* ContainerLease counts as ContainerManager does.
LEMMA SameCount == \A S : Lease!Cardinality(S) = Cardinality(S)
  BY DEF Lease!Cardinality, Cardinality

\* A container that leaves the map leaves the abstract pool, if it was there.
LEMMA UnregisterStep ==
  ASSUME TypeOK, NEW c \in ContainerIds \cup {NoContainer},
         process = "serve", process' = process, held' = held,
         containers' = [containers EXCEPT ![c] = "absent"]
  PROVE  \/ Lease!Unregister(c) /\ c \in ContainerIds
         \/ UNCHANGED <<Registered, held>>
<1>1. Registered' = Registered \ {c}
  BY DEF TypeOK, Registered
<1> QED
  BY <1>1 DEF Lease!Unregister, Registered

\* The death of the process closes the pool and ends every lease.
LEMMA DieCloses ==
  LeaseInv /\ Die => \/ process = "serve" /\ Lease!Close
                     \/ UNCHANGED <<process = "serve", Pool, held>>
  BY NothingHeld DEF Die, Lease!Close, Pool

\* Every step of the manager is a step of the lease specification or changes
\* nothing that it sees.
LEMMA LeaseSimulation == ManagerInv /\ ManagerInv' /\ [Next]_vars => [Lease!Next]_(Lease!vars)
<1> SUFFICES ASSUME ManagerInv, ManagerInv', [Next]_vars
             PROVE  Lease!Next \/ UNCHANGED <<process = "serve", Pool, held>>
  BY DEF Lease!vars, Pool
<1> DEFINE Stutter == UNCHANGED <<process = "serve", Pool, held>>
           Goal == Lease!Next \/ Stutter
<1>0. /\ LeaseInv /\ TypeOK /\ TypeOK' /\ WorkerInv /\ HeldBusy /\ MonitorInv
      /\ BootInv /\ SizeInv /\ SizeInv'
  BY DEF ManagerInv, LeaseInv
<1>a. ASSUME Die PROVE Goal
  BY <1>0, <1>a, DieCloses DEF Lease!Next
<1>b. ASSUME UNCHANGED <<process, Registered, held>> PROVE Stutter
  BY <1>b DEF Pool
<1>c. ASSUME process = "serve", UNCHANGED process, Lease!Use PROVE Lease!Next
  BY <1>c DEF Lease!Next
<1>1. ASSUME InitializePool PROVE Stutter
  BY <1>1 DEF InitializePool, Pool, workerVars
<1>2. ASSUME \/ CheckHealthList \/ \E c \in ContainerIds : CheckHealthExists(c)
             \/ CheckHealthSweep \/ \E c \in ContainerIds : MonitorRemove(c)
             \/ MonitorAdjust \/ StartContainer
             \/ ContainerCreate \/ ContainerCreateFails
             \/ ContainerStart \/ ContainerStartFails
      PROVE  UNCHANGED <<process, Registered, held>>
  BY <1>2
  DEF CheckHealthList, CheckHealthExists, CheckHealthSweep, MonitorRemove,
      MonitorAdjust, StartContainer, ContainerCreate, ContainerCreateFails,
      ContainerStart, ContainerStartFails, Registered, workerVars
<1>3. ASSUME CheckHealthState PROVE Goal
  BY <1>3, <1>a, <1>b DEF CheckHealthState, Registered, workerVars
<1>4. ASSUME MonitorDelete PROVE Goal
  <2>1. CASE process = "serve"
    BY <1>0, <1>4, <1>b, <1>c, <2>1, UnregisterStep
    DEF MonitorDelete, workerVars, Lease!Use, TypeOK
  <2>2. CASE process # "serve"
    BY <1>4, <2>2 DEF MonitorDelete, workerVars, Pool
  <2> QED
    BY <2>1, <2>2
<1>5. ASSUME ContainerInsert PROVE Goal
  <2>1. /\ cid \in ContainerIds \ (Registered \cup Held)
        /\ process' = process /\ held' = held
        /\ Registered' = Registered \cup {cid}
    BY <1>0, <1>5 DEF ContainerInsert, MonitorInv, TypeOK, Registered, workerVars
  <2>2. Cardinality(Registered) < MaxWorkers
    BY <1>0, <1>5 DEF ContainerInsert, SizeInv
  <2>3. CASE process = "serve"
    <3>1. Lease!Register(cid)
      BY <2>1, <2>2, <2>3, SameCount DEF Lease!Register, Lease!Leased, Held
    <3> QED
      BY <1>c, <2>1, <2>3, <3>1 DEF Lease!Use
  <2>4. CASE process # "serve"
    BY <2>1, <2>4 DEF Pool
  <2> QED
    BY <2>3, <2>4
<1>6. ASSUME MonitorDone, ~Die PROVE Goal
  <2>1. process' = "serve" /\ held' = held /\ Registered' = Registered
    BY <1>6 DEF MonitorDone, workerVars, Registered
  <2>2. CASE process = "serve"
    BY <1>b, <2>1, <2>2
  <2>3. CASE process # "serve"
    <3>1. process = "boot"
      BY <1>0, <1>6, <2>3 DEF MonitorDone, BootInv, TypeOK
    <3>2. Registered # {}
      BY <1>6, <3>1 DEF MonitorDone
    <3>3. Cardinality(Registered) <= MaxWorkers
      BY <1>0, <2>1 DEF SizeInv
    <3>4. Lease!Open(Registered) /\ Registered \in SUBSET ContainerIds
      BY <2>1, <2>3, <3>2, <3>3, SameCount DEF Lease!Open, Registered
    <3> QED
      BY <3>4 DEF Lease!Next
  <2> QED
    BY <2>2, <2>3
<1>7. ASSUME NEW w \in Workers,
             LockPool(w) \/ RetryScan(w) \/ NoneAvailable(w) \/ SetBusy(w)
      PROVE  UNCHANGED <<process, Registered, held>>
  BY <1>0, <1>7
  DEF LockPool, RetryScan, NoneAvailable, SetBusy, SetContainerState, Registered, TypeOK
<1>8. ASSUME NEW w \in Workers, NEW c \in ContainerIds, AssignIdle(w, c) PROVE Goal
  <2>1. process = "serve" /\ held[w] = NoContainer
    BY <1>0, <1>8 DEF AssignIdle, WorkerInv, BootInv
  <2>2. c \in Registered \ Held
    BY <1>0, <1>8 DEF AssignIdle, Idle, Registered, Held, HeldBusy
  <2>3. /\ process' = process /\ held' = [held EXCEPT ![w] = c]
        /\ Registered' = Registered
    BY <1>0, <1>8 DEF AssignIdle, Idle, Registered, TypeOK
  <2>4. Lease!Acquire(w, c)
    BY <2>1, <2>2, <2>3 DEF Lease!Acquire, Lease!Leased, Held
  <2> QED
    BY <1>c, <2>1, <2>3, <2>4 DEF Lease!Use
<1>9. ASSUME NEW w \in Workers, SetIdle(w) PROVE Goal
  <2>1. process = "serve" /\ held[w] # NoContainer
    BY <1>0, <1>9 DEF SetIdle, WorkerInv, BootInv
  <2>2. /\ process' = process /\ held' = [held EXCEPT ![w] = NoContainer]
        /\ Registered' = Registered
    BY <1>0, <1>9 DEF SetIdle, SetContainerState, Registered, TypeOK
  <2>3. Lease!Release(w)
    BY <2>1, <2>2 DEF Lease!Release
  <2> QED
    BY <1>c, <2>1, <2>2, <2>3 DEF Lease!Use
<1>10. ASSUME NEW r \in Removers,
              RemoverRemove(r) \/ \E c \in ContainerIds : RequestRemove(r, c)
       PROVE  UNCHANGED <<process, Registered, held>>
  BY <1>10 DEF RemoverRemove, RequestRemove, Registered, workerVars
<1>11. ASSUME NEW r \in Removers, RemoverDelete(r) PROVE Goal
  <2>1. CASE process = "serve"
    <3>1. /\ target[r] \in ContainerIds \cup {NoContainer}
          /\ process' = process /\ held' = held
          /\ containers' = [containers EXCEPT ![target[r]] = "absent"]
      BY <1>0, <1>11 DEF RemoverDelete, workerVars, TypeOK
    <3>2. \/ Lease!Unregister(target[r]) /\ target[r] \in ContainerIds
          \/ UNCHANGED <<Registered, held>>
      BY <1>0, <2>1, <3>1, UnregisterStep
    <3> QED
      BY <1>b, <1>c, <2>1, <3>1, <3>2 DEF Lease!Use
  <2>2. CASE process # "serve"
    BY <1>11, <2>2 DEF RemoverDelete, workerVars, Pool
  <2> QED
    BY <2>1, <2>2
<1>12. ASSUME \/ SystemPrune \/ \E c \in ContainerIds : ContainerExit(c)
              \/ UNCHANGED vars
       PROVE  UNCHANGED <<process, Registered, held>>
  BY <1>12 DEF SystemPrune, ContainerExit, vars, workerVars, Registered
<1> QED
  BY <1>a, <1>b, <1>1, <1>2, <1>3, <1>4, <1>5, <1>6, <1>7, <1>8, <1>9, <1>10,
     <1>11, <1>12
  DEF Next, MonitorNext, WorkerStep, RemoverStep, Environment, Crash, MapFault

\* The manager is a bounded pool of exclusive leases: the initial states of
\* ContainerManager are ContainerLease's, and its steps are simulated.
THEOREM ImplementsLease == Spec => LeaseSpec
<1>1. Init => Lease!Init
  BY DEF Init, Lease!Init
<1> QED
  BY <1>1, ManagerInvariant, LeaseSimulation, PTL DEF Spec, LeaseSpec, Lease!Spec
-----------------------------------------------------------------------------
(* Leaks.                                                                  *)

\* NoSilentLeak, and why: the monitor has an id at hand only while it works on
\* it, and whoever is about to delete an entry has removed the container, or
\* failed to and so has leaked it.
LeakInv ==
  /\ NoSilentLeak
  /\ mpc \notin {"deref", "delete", "start", "insert"} => cid = NoContainer
  /\ mpc = "delete" => {cid} \cap Existing \subseteq leaked
  /\ \A r \in Removers :
       rpc[r] = "delete" => {target[r]} \cap Existing \subseteq leaked
  /\ process = "down" => \A r \in Removers : rpc[r] = "off"

\* Containers that nobody knows are in leaked already, once the daemon has been
\* asked to remove c: either c is gone, or it is there now too.
LEMMA RemoveLeak ==
  ASSUME TypeOK, NEW c \in ContainerIds \cup {NoContainer}, DockerRemove(c)
  PROVE  /\ Existing' \subseteq Existing
         /\ {c} \cap Existing' \subseteq leaked'
         /\ leaked \cap Existing' \subseteq leaked'
  BY DEF TypeOK, DockerRemove, Existing

\* What is leaked and exists stays leaked while the daemon only loses
\* containers, and nobody else's position changes.
LEMMA LeakKept ==
  ASSUME LeakInv, Existing' \subseteq Existing,
         leaked \cap Existing' \subseteq leaked',
         Registered \subseteq Registered',
         UNCHANGED <<process, rpc, target, mpc, cid>>
  PROVE  LeakInv'
  BY DEF LeakInv, NoSilentLeak

\* A process that has died is free to have leaked anything.
LEMMA DieLeak == Die => LeakInv'
  BY DEF Die, LeakInv, NoSilentLeak

\* Every step keeps track of the containers outside the map.
LEMMA LeakStep == LeaseInv /\ LeakInv /\ [Next]_vars => LeakInv'
<1> SUFFICES ASSUME LeaseInv, LeakInv, [Next]_vars PROVE LeakInv'
  OBVIOUS
<1> DEFINE Kept == /\ Existing' \subseteq Existing
                   /\ leaked \cap Existing' \subseteq leaked'
                   /\ Registered \subseteq Registered'
                   /\ UNCHANGED <<process, rpc, target, mpc, cid>>
           Others == UNCHANGED <<process, docker, leaked, rpc, target>>
<1>0. TypeOK /\ BootInv /\ MonitorInv
  BY DEF LeaseInv
<1>a. ASSUME Kept PROVE LeakInv'
  BY <1>a, LeakKept
\* The monitor goes on, and the id at hand is not one to lose.
<1>b. ASSUME Others, Registered' = Registered, process # "down",
             {cid} \cap Existing = {},
             mpc' = "deref" \/ (mpc' # "delete" /\ cid' = NoContainer)
      PROVE  LeakInv'
  BY <1>b DEF LeakInv, NoSilentLeak, Existing
<1>1. ASSUME InitializePool PROVE LeakInv'
  <2>1. Registered' = Existing /\ Existing' = Existing
    BY <1>0, <1>1 DEF InitializePool, Registered, Existing, TypeOK
  <2>2. /\ process = "down" /\ process' = "boot" /\ mpc' = "remove"
        /\ cid' = cid /\ mpc = "tick" /\ rpc' = rpc
    BY <1>0, <1>1 DEF InitializePool, BootInv, removerVars
  <2> QED
    BY <2>1, <2>2 DEF LeakInv, NoSilentLeak
<1>2. ASSUME \/ CheckHealthList \/ CheckHealthSweep \/ MonitorAdjust
             \/ StartContainer \/ ContainerCreateFails
             \/ \E c \in ContainerIds : CheckHealthExists(c)
      PROVE  LeakInv'
  <2>1. Others /\ Registered' = Registered /\ process # "down"
    BY <1>0, <1>2
    DEF CheckHealthList, CheckHealthSweep, MonitorAdjust, StartContainer,
        ContainerCreateFails, CheckHealthExists, Registered, dockerVars, removerVars,
        BootInv
  <2>2. /\ mpc \in {"tick", "scan", "remove", "refill", "create"}
        /\ mpc' # "delete"
        /\ mpc' # "deref" => cid' \in {cid, NoContainer}
    BY <1>2
    DEF CheckHealthList, CheckHealthSweep, MonitorAdjust, StartContainer,
        ContainerCreateFails, StartFailed, CheckHealthExists
  <2>3. cid = NoContainer /\ {cid} \cap Existing = {}
    BY <2>2, ManagerAssumption DEF LeakInv, Existing
  <2>4. mpc' = "deref" \/ (mpc' # "delete" /\ cid' = NoContainer)
    BY <2>2, <2>3
  <2> QED
    BY <2>1, <2>3, <2>4, <1>b
<1>3. ASSUME CheckHealthState \/ MonitorDone, ~Die PROVE LeakInv'
  <2>1. /\ UNCHANGED <<docker, leaked, rpc, target>> /\ Registered' = Registered
        /\ process' # "down" /\ mpc' \in {"scan", "tick"}
        /\ mpc \in {"deref", "refill"} /\ process # "down"
    BY <1>0, <1>3
    DEF CheckHealthState, MonitorDone, Registered, dockerVars, removerVars, BootInv
  <2>2. cid' = NoContainer /\ {cid} \cap Existing \subseteq Registered
    BY <1>3, <2>1, ManagerAssumption
    DEF CheckHealthState, MonitorDone, LeakInv, Existing
  <2> QED
    BY <2>1, <2>2 DEF LeakInv, NoSilentLeak, Existing
<1>4. ASSUME NEW c \in ContainerIds, MonitorRemove(c) PROVE LeakInv'
  <2>1. /\ Registered' = Registered /\ process # "down" /\ rpc' = rpc /\ target' = target
        /\ process' = process
        /\ DockerRemove(c) /\ mpc = "remove" /\ mpc' = "delete" /\ cid' = c
    BY <1>0, <1>4 DEF MonitorRemove, Registered, removerVars, BootInv
  <2>2. {cid} \cap Existing = {}
    BY <2>1, ManagerAssumption DEF LeakInv, Existing
  <2>3. /\ Existing' \subseteq Existing
        /\ {c} \cap Existing' \subseteq leaked'
        /\ leaked \cap Existing' \subseteq leaked'
    BY <1>0, <2>1, RemoveLeak
  <2> QED
    BY <2>1, <2>2, <2>3 DEF LeakInv, NoSilentLeak
<1>5. ASSUME MonitorDelete PROVE LeakInv'
  <2>1. Registered' = Registered \ {cid}
    BY <1>0, <1>5 DEF MonitorDelete, Registered, TypeOK
  <2>2. /\ UNCHANGED <<process, docker, leaked, rpc, target>> /\ process # "down"
        /\ mpc = "delete" /\ mpc' = "remove" /\ cid' = NoContainer
    BY <1>0, <1>5 DEF MonitorDelete, dockerVars, removerVars, BootInv
  <2> QED
    BY <2>1, <2>2 DEF LeakInv, NoSilentLeak, Existing
<1>6. ASSUME ContainerCreate PROVE LeakInv'
  <2>1. PICK c \in ContainerIds :
          /\ Fresh(c) /\ docker' = [docker EXCEPT ![c] = "stopped"] /\ cid' = c
    BY <1>6 DEF ContainerCreate
  <2>2. /\ UNCHANGED <<process, leaked, rpc, target>> /\ Registered' = Registered
        /\ mpc = "create" /\ mpc' = "start" /\ process # "down"
    BY <1>0, <1>6 DEF ContainerCreate, removerVars, Registered, BootInv
  <2>3. Existing' = Existing \cup {c} /\ c \notin Targets
    BY <1>0, <2>1 DEF Existing, TypeOK, Fresh
  <2>4. \A r \in Removers : rpc[r] = "delete" => {target[r]} \cap Existing' \subseteq leaked
    BY <2>1, <2>3, ManagerAssumption DEF LeakInv, Targets
  <2>5. {cid} \cap Existing = {}
    BY <2>2, ManagerAssumption DEF LeakInv, Existing
  <2> QED
    BY <2>1, <2>2, <2>3, <2>4, <2>5 DEF LeakInv, NoSilentLeak
<1>7. ASSUME ContainerStart PROVE LeakInv'
  <2>1. Existing' = Existing
    BY <1>0, <1>7 DEF ContainerStart, Existing, TypeOK
  <2>2. /\ UNCHANGED <<process, leaked, rpc, target, cid>> /\ Registered' = Registered
        /\ mpc = "start" /\ mpc' = "insert"
    BY <1>7 DEF ContainerStart, removerVars, Registered
  <2> QED
    BY <2>1, <2>2 DEF LeakInv, NoSilentLeak
<1>8. ASSUME ContainerStartFails PROVE LeakInv'
  <2>1. /\ UNCHANGED <<process, rpc, target>> /\ Registered' = Registered
        /\ process # "down" /\ DockerRemove(cid) /\ mpc' = "refill" /\ cid' = NoContainer
    BY <1>0, <1>8 DEF ContainerStartFails, StartFailed, removerVars, Registered, BootInv
  <2>2. /\ Existing' \subseteq Existing
        /\ {cid} \cap Existing' \subseteq leaked'
        /\ leaked \cap Existing' \subseteq leaked'
    BY <1>0, <2>1, RemoveLeak DEF TypeOK
  <2> QED
    BY <2>1, <2>2 DEF LeakInv, NoSilentLeak
<1>9. ASSUME ContainerInsert PROVE LeakInv'
  <2>1. Registered' = Registered \cup {cid}
    BY <1>0, <1>9 DEF ContainerInsert, Registered, TypeOK, MonitorInv
  <2>2. /\ UNCHANGED <<process, docker, leaked, rpc, target>> /\ process # "down"
        /\ mpc' = "refill" /\ cid' = NoContainer
    BY <1>0, <1>9 DEF ContainerInsert, dockerVars, removerVars, BootInv
  <2> QED
    BY <2>1, <2>2 DEF LeakInv, NoSilentLeak, Existing
<1>10. ASSUME NEW w \in Workers, LockPool(w) \/ WorkerStep(w) PROVE Kept
  BY <1>0, <1>10
  DEF LockPool, WorkerStep, AssignIdle, Idle, RetryScan, NoneAvailable, SetBusy,
      SetIdle, SetContainerState, Registered, Existing, TypeOK, ContainerState,
      dockerVars, monitorVars, removerVars
<1>11. ASSUME NEW r \in Removers, NEW c \in ContainerIds, RequestRemove(r, c)
       PROVE  LeakInv'
  <2>1. /\ UNCHANGED <<process, docker, leaked, mpc, cid>> /\ Registered' = Registered
        /\ process # "down" /\ rpc' = [rpc EXCEPT ![r] = "remove"]
        /\ target' = [target EXCEPT ![r] = c]
    BY <1>11 DEF RequestRemove, Registered, dockerVars, monitorVars
  <2>2. \A q \in Removers :
          rpc'[q] = "delete" => rpc[q] = "delete" /\ target'[q] = target[q]
    BY <1>0, <2>1 DEF TypeOK
  <2> QED
    BY <2>1, <2>2 DEF LeakInv, NoSilentLeak, Existing
<1>12. ASSUME NEW r \in Removers, RemoverRemove(r) PROVE LeakInv'
  <2>1. /\ UNCHANGED <<process, target, mpc, cid>> /\ Registered' = Registered
        /\ process # "down" /\ rpc' = [rpc EXCEPT ![r] = "delete"]
        /\ DockerRemove(target[r])
    BY <1>12 DEF RemoverRemove, Registered, monitorVars, LeakInv
  <2>2. /\ Existing' \subseteq Existing
        /\ {target[r]} \cap Existing' \subseteq leaked'
        /\ leaked \cap Existing' \subseteq leaked'
    BY <1>0, <2>1, RemoveLeak DEF TypeOK
  <2>3. \A q \in Removers : rpc'[q] = "delete" => q = r \/ rpc[q] = "delete"
    BY <1>0, <2>1 DEF TypeOK
  <2> QED
    BY <2>1, <2>2, <2>3 DEF LeakInv, NoSilentLeak
<1>13. ASSUME NEW r \in Removers, RemoverDelete(r) PROVE LeakInv'
  <2>1. Registered' = Registered \ {target[r]}
    BY <1>0, <1>13 DEF RemoverDelete, Registered, TypeOK
  <2>2. /\ UNCHANGED <<process, docker, leaked, mpc, cid>> /\ process # "down"
        /\ rpc[r] = "delete"
    BY <1>13 DEF RemoverDelete, dockerVars, monitorVars, LeakInv
  <2>3. \A q \in Removers :
          rpc'[q] = "delete" => rpc[q] = "delete" /\ target'[q] = target[q]
    BY <1>0, <1>13 DEF RemoverDelete, TypeOK
  <2> QED
    BY <2>1, <2>2, <2>3 DEF LeakInv, NoSilentLeak, Existing
<1>14. ASSUME SystemPrune \/ \E c \in ContainerIds : ContainerExit(c) PROVE Kept
  BY <1>0, <1>14
  DEF SystemPrune, ContainerExit, Existing, Registered, TypeOK, monitorVars, removerVars
<1>15. ASSUME UNCHANGED vars PROVE Kept
  BY <1>15 DEF vars, dockerVars, monitorVars, removerVars, Registered, Existing
<1> QED
  BY <1>a, <1>1, <1>2, <1>3, <1>4, <1>5, <1>6, <1>7, <1>8, <1>9, <1>10, <1>11,
     <1>12, <1>13, <1>14, <1>15, DieLeak
  DEF Next, MonitorNext, RemoverStep, Environment, Crash, MapFault

\* Whatever fails, a container the daemon has and the map has not is the one
\* being started, or a removal of it has failed: nothing else loses one.
THEOREM LeaksAreLogged == Spec => []NoSilentLeak
<1>1. Init => LeakInv
  BY DEF Init, LeakInv, NoSilentLeak
<1>2. LeakInv => NoSilentLeak
  BY DEF LeakInv
<1> QED
  BY <1>1, <1>2, LeaseInvariant, LeakStep, PTL DEF Spec
=============================================================================
