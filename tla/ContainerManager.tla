-------------------------- MODULE ContainerManager --------------------------
(***************************************************************************)
(* executor/container_manager.go: the map of worker containers, the mutex  *)
(* cm.mu around it, and the goroutines that meet there:                    *)
(*   - the workers, which call GetAvailableContainer, SetContainerState;   *)
(*   - the monitor, which runs InitializePool and then checkHealth for     *)
(*     ever;                                                               *)
(*   - the removers, the goroutines started by "go RemoveContainer(id)".   *)
(* The Docker daemon and its failures are the environment.  The process    *)
(* may die at any step and be started again; the containers outlive it.    *)
(***************************************************************************)
EXTENDS Naturals, FiniteSets

CONSTANTS
  Workers,       \* goroutines started by NewWorkerPool
  Removers,      \* bound: RemoveContainer goroutines alive at once
  ContainerIds,  \* bound: ids in use at once; an id nobody knows is fresh again
  Monitor,       \* the goroutine of InitializePool and MonitorContainers
  Nobody,        \* cm.mu is unlocked
  NoContainer,
  MaxWorkers,    \* cm.maxWorkers
  MaxRetries,    \* maxRetries of GetAvailableContainer: 10 in the code
  Faults         \* what may go wrong, a subset of FaultKinds

FaultKinds == {"create", "start", "remove", "exit", "prune", "crash"}

ASSUME ManagerAssumption ==
  /\ MaxWorkers \in Nat \ {0}
  /\ MaxRetries \in Nat \ {0}
  /\ IsFiniteSet(ContainerIds)
  /\ NoContainer \notin ContainerIds
  /\ Monitor \notin Workers
  /\ Nobody \notin Workers \cup {Monitor}
  /\ Faults \subseteq FaultKinds

VARIABLES
  process,     \* "down", "boot" (InitializePool) or "serve"
  mu,          \* the goroutine that holds cm.mu
  containers,  \* cm.containers: state of each entry, "absent" when there is none
  docker,      \* the daemon: each container running, stopped or absent
  leaked,      \* history: containers left behind by a failed ContainerRemove
  wpc, held, tries,                         \* each worker
  used,        \* history: containers in which some worker has run a job
  rpc, target,                              \* each remover
  mpc, todo, running, toRemove, need, cid   \* the monitor

workerVars == <<wpc, held, tries, used>>
removerVars == <<rpc, target>>
monitorVars == <<mpc, todo, running, toRemove, need, cid>>
dockerVars == <<docker, leaked>>
vars == <<process, mu, containers, dockerVars,
          workerVars, removerVars, monitorVars>>

ContainerState == {"idle", "busy", "error"}
MonitorStep == {"tick", "scan", "deref", "sweep", "remove", "delete",
                "refill", "create", "start", "insert"}

TypeOK ==
  /\ process \in {"down", "boot", "serve"}
  /\ mu \in Workers \cup {Monitor, Nobody}
  /\ containers \in [ContainerIds -> ContainerState \cup {"absent"}]
  /\ docker \in [ContainerIds -> {"running", "stopped", "absent"}]
  /\ leaked \in SUBSET ContainerIds
  /\ used \in SUBSET ContainerIds
  /\ wpc \in [Workers -> {"free", "scan", "leased", "running"}]
  /\ held \in [Workers -> ContainerIds \cup {NoContainer}]
  /\ tries \in [Workers -> 0 .. MaxRetries - 1]
  /\ rpc \in [Removers -> {"off", "remove", "delete"}]
  /\ target \in [Removers -> ContainerIds \cup {NoContainer}]
  /\ mpc \in MonitorStep
  /\ todo \in SUBSET ContainerIds
  /\ running \in SUBSET ContainerIds
  /\ toRemove \in SUBSET ContainerIds
  /\ need \in Nat
  /\ cid \in ContainerIds \cup {NoContainer}

Registered == {c \in ContainerIds : containers[c] # "absent"}
Existing == {c \in ContainerIds : docker[c] # "absent"}
Held == {held[w] : w \in Workers} \ {NoContainer}
Targets == {target[r] : r \in Removers} \ {NoContainer}

\* The daemon never hands out an id twice: an id is fresh when nobody knows it.
Fresh(c) ==
  c \notin UNION {Registered, Existing, Held, Targets,
                  todo, running, toRemove, leaked, {cid}}

\* Mutants, here and below: one plausible slip each.  No specification uses
\* them; a property is exercised by putting one in the place of what it mutates.
Missing_OffByOne(n) == IF n + 1 < MaxWorkers THEN MaxWorkers - n ELSE 0
Excess_OffByOne(n) == IF n > MaxWorkers THEN n - MaxWorkers - 1 ELSE 0

Missing(n) == IF n < MaxWorkers THEN MaxWorkers - n ELSE 0
Excess(n) == IF n > MaxWorkers THEN n - MaxWorkers ELSE 0
-----------------------------------------------------------------------------
(* The Docker daemon. *)

\* ContainerRemove with Force: it takes effect, or it fails and the caller
\* only logs it.
DockerRemove(c) ==
  \/ /\ docker' = [docker EXCEPT ![c] = "absent"]
     /\ leaked' = leaked \ {c}
  \/ /\ "remove" \in Faults
     /\ leaked' = leaked \cup ({c} \cap Existing)
     /\ UNCHANGED docker

\* The main process of a container ends, or somebody kills it.
ContainerExit(c) ==
  /\ "exit" \in Faults
  /\ docker[c] = "running"
  /\ docker' = [docker EXCEPT ![c] = "stopped"]
  /\ UNCHANGED <<process, mu, containers, leaked,
                 workerVars, removerVars, monitorVars>>

\* docker system prune, run by every deployment and by dockerkill: every
\* container that does not run is removed behind the manager's back.
SystemPrune ==
  /\ "prune" \in Faults
  /\ \E c \in ContainerIds : docker[c] = "stopped"
  /\ docker' = [c \in ContainerIds |->
                  IF docker[c] = "stopped" THEN "absent" ELSE docker[c]]
  /\ leaked' = {c \in leaked : docker[c] = "running"}
  /\ UNCHANGED <<process, mu, containers, workerVars, removerVars, monitorVars>>
-----------------------------------------------------------------------------
(* The process: it dies with all it holds in memory, and is started again. *)

Die ==
  /\ process' = "down"
  /\ mu' = Nobody
  /\ containers' = [c \in ContainerIds |-> "absent"]
  /\ wpc' = [w \in Workers |-> "free"]
  /\ held' = [w \in Workers |-> NoContainer]
  /\ tries' = [w \in Workers |-> 0]
  /\ used' = {}
  /\ rpc' = [r \in Removers |-> "off"]
  /\ target' = [r \in Removers |-> NoContainer]
  /\ mpc' = "tick" /\ todo' = {} /\ running' = {} /\ toRemove' = {}
  /\ need' = 0 /\ cid' = NoContainer
  /\ UNCHANGED dockerVars

Crash ==
  /\ "crash" \in Faults
  /\ process # "down"
  /\ Die

\* removeExcessContainers keeps the mutex until the last victim is gone.
\* Which entries it takes is left to the iteration order of the Go map.
removeExcessContainers(pool, count) ==
  \E victims \in SUBSET pool :
    /\ Cardinality(victims) = count
    /\ toRemove' = victims
    /\ IF count > 0 THEN mu = Nobody /\ mu' = Monitor ELSE UNCHANGED mu

\* InitializePool up to the adjustment: whatever worker container the daemon
\* lists is taken over.  When ContainerList fails the process exits again.
InitializePool ==
  /\ process = "down"
  /\ process' = "boot"
  /\ containers' = [c \in ContainerIds |->
                      CASE docker[c] = "running" -> "idle"
                        [] docker[c] = "stopped" -> "error"
                        [] OTHER -> "absent"]
  /\ leaked' = {}
  /\ removeExcessContainers(Existing, Excess(Cardinality(Existing)))
  /\ need' = Missing(Cardinality(Existing))
  /\ mpc' = "remove"
  /\ UNCHANGED <<docker, workerVars, removerVars, todo, running, cid>>
-----------------------------------------------------------------------------
(* checkHealth.  It reads the map without the mutex first. *)

\* A failed ContainerList leaves everything as it is until the next tick.
CheckHealthList ==
  /\ process = "serve" /\ mpc = "tick"
  /\ mpc' = "scan"
  /\ todo' = Existing
  /\ running' = {}
  /\ UNCHANGED <<process, mu, containers, dockerVars, workerVars, removerVars,
                 toRemove, need, cid>>

\* if _, exists := cm.containers[c.ID]
CheckHealthExists(c) ==
  /\ mpc = "scan" /\ c \in todo
  /\ todo' = todo \ {c}
  /\ IF c \in Registered
     THEN mpc' = "deref" /\ cid' = c
     ELSE UNCHANGED <<mpc, cid>>
  /\ UNCHANGED <<process, mu, containers, dockerVars, workerVars, removerVars,
                 running, toRemove, need>>

\* Mutant: a container found running is taken for an idle one.
CheckHealthState_MarksIdle ==
  /\ mpc = "deref" /\ cid \in Registered
  /\ containers' = [containers EXCEPT ![cid] = "idle"]
  /\ running' = running \cup {cid}
  /\ mpc' = "scan" /\ cid' = NoContainer
  /\ UNCHANGED <<process, mu, dockerVars, workerVars, removerVars,
                 todo, toRemove, need>>

\* cm.containers[c.ID].State: a second lookup, a nil pointer when the entry
\* went in between, and then the panic ends the process.
CheckHealthState ==
  /\ mpc = "deref"
  /\ IF cid \in Registered
     THEN /\ running' = IF containers[cid] # "error"
                        THEN running \cup {cid} ELSE running
          /\ mpc' = "scan" /\ cid' = NoContainer
          /\ UNCHANGED <<process, mu, containers, dockerVars, workerVars,
                         removerVars, todo, toRemove, need>>
     ELSE Die

\* Mutant: only entries marked "error" are taken out.
CheckHealthSweep_ErrorsOnly ==
  /\ mpc = "scan" /\ todo = {}
  /\ mu = Nobody
  /\ toRemove' = {c \in Registered : containers[c] = "error"}
  /\ need' = Missing(Cardinality(Registered \cap running))
  /\ mpc' = "remove"
  /\ UNCHANGED <<process, mu, containers, dockerVars, workerVars, removerVars,
                 todo, running, cid>>

\* Under the mutex: which entries go, and how many containers are then short.
CheckHealthSweep ==
  /\ mpc = "scan" /\ todo = {}
  /\ mu = Nobody
  /\ toRemove' = Registered \ running
  /\ need' = Missing(Cardinality(Registered \cap running))
  /\ mpc' = "remove"
  /\ UNCHANGED <<process, mu, containers, dockerVars, workerVars, removerVars,
                 todo, running, cid>>

\* RemoveContainer, called in turn for each id: first the daemon ...
MonitorRemove(c) ==
  /\ mpc = "remove" /\ c \in toRemove
  /\ DockerRemove(c)
  /\ toRemove' = toRemove \ {c}
  /\ mpc' = "delete" /\ cid' = c
  /\ UNCHANGED <<process, mu, containers, workerVars, removerVars,
                 todo, running, need>>

\* ... then the map, whatever the daemon answered and without the mutex.
MonitorDelete ==
  /\ mpc = "delete"
  /\ containers' = [containers EXCEPT ![cid] = "absent"]
  /\ mpc' = "remove" /\ cid' = NoContainer
  /\ UNCHANGED <<process, mu, dockerVars, workerVars, removerVars,
                 todo, running, toRemove, need>>

\* Every marked entry is gone: replace the missing ones, or, if none is
\* missing, take away the excess.  InitializePool decided before it removed.
MonitorAdjust ==
  /\ mpc = "remove" /\ toRemove = {}
  /\ IF need > 0 \/ process = "boot" \/ mu = Monitor
     THEN /\ mu' = IF mu = Monitor THEN Nobody ELSE mu
          /\ mpc' = "refill"
          /\ UNCHANGED toRemove
     ELSE /\ removeExcessContainers(Registered, Excess(Cardinality(running)))
          /\ mpc' = IF toRemove' = {} THEN "refill" ELSE "remove"
  /\ UNCHANGED <<process, containers, dockerVars, workerVars, removerVars,
                 todo, running, need, cid>>
-----------------------------------------------------------------------------
(* StartContainer, called need times.  The count is checked under the      *)
(* mutex, which is free again while the daemon works.                      *)

StartContainer ==
  /\ mpc = "refill" /\ need > 0
  /\ mu = Nobody
  /\ IF Cardinality(Registered) >= MaxWorkers
     THEN need' = need - 1 /\ UNCHANGED mpc
     ELSE mpc' = "create" /\ UNCHANGED need
  /\ UNCHANGED <<process, mu, containers, dockerVars, workerVars, removerVars,
                 todo, running, toRemove, cid>>

StartFailed ==
  /\ need' = need - 1
  /\ mpc' = "refill" /\ cid' = NoContainer

ContainerCreate ==
  /\ mpc = "create"
  /\ \E c \in ContainerIds :
       /\ Fresh(c)
       /\ docker' = [docker EXCEPT ![c] = "stopped"]
       /\ mpc' = "start" /\ cid' = c
       /\ used' = used \ {c}
  /\ UNCHANGED <<process, mu, containers, leaked, wpc, held, tries, removerVars,
                 todo, running, toRemove, need>>

\* The daemon refuses, or the bound on ids is reached.
ContainerCreateFails ==
  /\ mpc = "create"
  /\ "create" \in Faults \/ \A c \in ContainerIds : ~Fresh(c)
  /\ StartFailed
  /\ UNCHANGED <<process, mu, containers, dockerVars, workerVars, removerVars,
                 todo, running, toRemove>>

ContainerStart ==
  /\ mpc = "start"
  /\ docker[cid] = "stopped"
  /\ docker' = [docker EXCEPT ![cid] = "running"]
  /\ mpc' = "insert"
  /\ UNCHANGED <<process, mu, containers, leaked, workerVars, removerVars,
                 todo, running, toRemove, need, cid>>

\* Mutant: the container that cannot be started is forgotten.
ContainerStartFails_Kept ==
  /\ mpc = "start"
  /\ "start" \in Faults \/ docker[cid] = "absent"
  /\ StartFailed
  /\ UNCHANGED <<process, mu, containers, dockerVars, workerVars, removerVars,
                 todo, running, toRemove>>

\* A container that cannot be started is removed; that error is dropped.
ContainerStartFails ==
  /\ mpc = "start"
  /\ "start" \in Faults \/ docker[cid] = "absent"
  /\ DockerRemove(cid)
  /\ StartFailed
  /\ UNCHANGED <<process, mu, containers, workerVars, removerVars,
                 todo, running, toRemove>>

ContainerInsert ==
  /\ mpc = "insert"
  /\ mu = Nobody
  /\ containers' = [containers EXCEPT ![cid] = "idle"]
  /\ need' = need - 1
  /\ mpc' = "refill" /\ cid' = NoContainer
  /\ UNCHANGED <<process, mu, dockerVars, workerVars, removerVars,
                 todo, running, toRemove>>

\* Mutant: an empty pool is accepted.
MonitorDone_Empty ==
  /\ mpc = "refill" /\ need = 0
  /\ process' = "serve"
  /\ mpc' = "tick" /\ running' = {}
  /\ UNCHANGED <<mu, containers, dockerVars, workerVars, removerVars,
                 todo, toRemove, need, cid>>

\* The pass is over.  InitializePool fails on an empty map and the process
\* exits; otherwise the workers and the monitor loop are started.
MonitorDone ==
  /\ mpc = "refill" /\ need = 0
  /\ IF process = "boot" /\ Registered = {}
     THEN Die
     ELSE /\ process' = "serve"
          /\ mpc' = "tick" /\ running' = {}
          /\ UNCHANGED <<mu, containers, dockerVars, workerVars, removerVars,
                         todo, toRemove, need, cid>>
-----------------------------------------------------------------------------
(* The workers' calls. *)

LockPool(w) ==
  /\ process = "serve" /\ wpc[w] = "free"
  /\ mu = Nobody
  /\ mu' = w
  /\ wpc' = [wpc EXCEPT ![w] = "scan"]
  /\ UNCHANGED <<process, containers, dockerVars, held, tries, used,
                 removerVars, monitorVars>>

\* Mutant: the scan only skips broken entries.
Idle_NotError == {c \in ContainerIds : containers[c] \in {"idle", "busy"}}

Idle == {c \in ContainerIds : containers[c] = "idle"}

\* Some idle entry, in the order the Go map happens to iterate.
AssignIdle(w, c) ==
  /\ wpc[w] = "scan" /\ c \in Idle
  /\ containers' = [containers EXCEPT ![c] = "busy"]
  /\ mu' = Nobody
  /\ wpc' = [wpc EXCEPT ![w] = "leased"]
  /\ held' = [held EXCEPT ![w] = c]
  /\ tries' = [tries EXCEPT ![w] = 0]
  /\ UNCHANGED <<process, dockerVars, used, removerVars, monitorVars>>

\* Mutant: one attempt too many.
RetryScan_OffByOne(w) ==
  /\ wpc[w] = "scan" /\ Idle = {}
  /\ tries[w] < MaxRetries
  /\ tries' = [tries EXCEPT ![w] = @ + 1]
  /\ UNCHANGED <<process, mu, containers, dockerVars, wpc, held, used,
                 removerVars, monitorVars>>

\* time.Sleep(retryDelay), with the mutex locked.
RetryScan(w) ==
  /\ wpc[w] = "scan" /\ Idle = {}
  /\ tries[w] + 1 < MaxRetries
  /\ tries' = [tries EXCEPT ![w] = @ + 1]
  /\ UNCHANGED <<process, mu, containers, dockerVars, wpc, held, used,
                 removerVars, monitorVars>>

\* Mutant: the error return without cm.mu.Unlock().
NoneAvailable_Locked(w) ==
  /\ wpc[w] = "scan" /\ Idle = {}
  /\ tries[w] + 1 = MaxRetries
  /\ wpc' = [wpc EXCEPT ![w] = "free"]
  /\ tries' = [tries EXCEPT ![w] = 0]
  /\ UNCHANGED <<process, mu, containers, dockerVars, held, used,
                 removerVars, monitorVars>>

NoneAvailable(w) ==
  /\ wpc[w] = "scan" /\ Idle = {}
  /\ tries[w] + 1 = MaxRetries
  /\ mu' = Nobody
  /\ wpc' = [wpc EXCEPT ![w] = "free"]
  /\ tries' = [tries EXCEPT ![w] = 0]
  /\ UNCHANGED <<process, containers, dockerVars, held, used,
                 removerVars, monitorVars>>

\* Mutant: the state is written without the mutex.
SetContainerState_Unlocked(c, state) ==
  containers' = IF c \in Registered
                THEN [containers EXCEPT ![c] = state] ELSE containers

SetContainerState(c, state) ==
  /\ mu = Nobody
  /\ containers' = IF c \in Registered
                   THEN [containers EXCEPT ![c] = state] ELSE containers

SetBusy(w) ==
  /\ wpc[w] = "leased"
  /\ SetContainerState(held[w], "busy")
  /\ wpc' = [wpc EXCEPT ![w] = "running"]
  /\ used' = used \cup {held[w]}
  /\ UNCHANGED <<process, mu, dockerVars, held, tries,
                 removerVars, monitorVars>>

SetIdle(w) ==
  /\ wpc[w] = "running"
  /\ SetContainerState(held[w], "idle")
  /\ wpc' = [wpc EXCEPT ![w] = "free"]
  /\ held' = [held EXCEPT ![w] = NoContainer]
  /\ UNCHANGED <<process, mu, dockerVars, tries, used, removerVars, monitorVars>>
-----------------------------------------------------------------------------
(* RemoveContainer in a goroutine of its own, started by the resource      *)
(* watcher of some execution in that container, be it over or not.         *)

RequestRemove(r, c) ==
  /\ process = "serve" /\ rpc[r] = "off"
  /\ c \in used
  /\ rpc' = [rpc EXCEPT ![r] = "remove"]
  /\ target' = [target EXCEPT ![r] = c]
  /\ UNCHANGED <<process, mu, containers, dockerVars, workerVars, monitorVars>>

RemoverRemove(r) ==
  /\ rpc[r] = "remove"
  /\ DockerRemove(target[r])
  /\ rpc' = [rpc EXCEPT ![r] = "delete"]
  /\ UNCHANGED <<process, mu, containers, target, workerVars, monitorVars>>

\* delete(cm.containers, containerID), without the mutex.
RemoverDelete(r) ==
  /\ rpc[r] = "delete"
  /\ containers' = [containers EXCEPT ![target[r]] = "absent"]
  /\ rpc' = [rpc EXCEPT ![r] = "off"]
  /\ target' = [target EXCEPT ![r] = NoContainer]
  /\ UNCHANGED <<process, mu, dockerVars, workerVars, monitorVars>>
-----------------------------------------------------------------------------
(* Accesses to the Go map that no mutex orders.                            *)

\* Goroutines about to delete an entry without holding cm.mu.
Deleting ==
  {r \in Removers : rpc[r] = "delete"}
    \cup {m \in {Monitor} : mpc = "delete" /\ mu # Monitor}

\* Goroutines whose next step reads or writes the map.
Accessing ==
  Deleting
    \cup {w \in Workers : mu = w \/ (mu = Nobody /\ wpc[w] \in {"leased", "running"})}
    \cup {m \in {Monitor} : \/ mpc = "deref" \/ (mpc = "scan" /\ todo # {})
                            \/ mu = Nobody /\ mpc \in {"scan", "refill", "insert"}}

MapRace ==
  process = "serve" /\ \E t \in Deleting : Accessing \ {t} # {}

\* "fatal error: concurrent map ...": the runtime may notice and kill the
\* process, or may not, and then the accesses take effect one by one.
MapFault == MapRace /\ Die
-----------------------------------------------------------------------------
Init ==
  /\ process = "down"
  /\ mu = Nobody
  /\ containers = [c \in ContainerIds |-> "absent"]
  /\ docker \in [ContainerIds -> {"running", "stopped", "absent"}]
  /\ leaked = {}
  /\ wpc = [w \in Workers |-> "free"]
  /\ held = [w \in Workers |-> NoContainer]
  /\ tries = [w \in Workers |-> 0]
  /\ used = {}
  /\ rpc = [r \in Removers |-> "off"]
  /\ target = [r \in Removers |-> NoContainer]
  /\ mpc = "tick" /\ todo = {} /\ running = {} /\ toRemove = {}
  /\ need = 0 /\ cid = NoContainer

MonitorNext ==
  \/ CheckHealthList
  \/ \E c \in ContainerIds : CheckHealthExists(c)
  \/ CheckHealthState
  \/ CheckHealthSweep
  \/ \E c \in ContainerIds : MonitorRemove(c)
  \/ MonitorDelete
  \/ MonitorAdjust
  \/ StartContainer
  \/ ContainerCreate \/ ContainerCreateFails
  \/ ContainerStart \/ ContainerStartFails
  \/ ContainerInsert
  \/ MonitorDone

WorkerStep(w) ==
  \/ \E c \in ContainerIds : AssignIdle(w, c)
  \/ RetryScan(w) \/ NoneAvailable(w)
  \/ SetBusy(w) \/ SetIdle(w)

RemoverStep(r) == RemoverRemove(r) \/ RemoverDelete(r)

Environment ==
  \/ \E c \in ContainerIds : ContainerExit(c)
  \/ SystemPrune
  \/ Crash
  \/ MapFault

Next ==
  \/ InitializePool
  \/ MonitorNext
  \/ \E w \in Workers : LockPool(w) \/ WorkerStep(w)
  \/ \E r \in Removers :
       RemoverStep(r) \/ \E c \in ContainerIds : RequestRemove(r, c)
  \/ Environment

Spec == Init /\ [][Next]_vars

\* A goroutine that can run does run; one that waits for cm.mu gets it, for
\* sync.Mutex hands the lock over to a waiter that has starved for 1ms.  The
\* supervisor starts the process again.  Jobs and removals need not come.
FairSpec ==
  /\ Spec
  /\ WF_vars(InitializePool)
  /\ SF_vars(MonitorNext)
  /\ \A w \in Workers : SF_vars(WorkerStep(w))
  /\ \A r \in Removers : WF_vars(RemoverStep(r))
-----------------------------------------------------------------------------
(* Safety. *)

\* Two workers never hold the same container, whatever the monitor, the
\* removers and a restart do meanwhile (GetAvailableContainer marks an entry
\* busy under the mutex; nobody but its holder makes it idle again).
LeaseExclusive ==
  \A v, w \in Workers : v # w /\ held[v] = held[w] => held[v] = NoContainer

\* The pool that serves never outgrows maxWorkers, although StartContainer
\* checks the count and inserts under two different locks of the mutex.
PoolBound ==
  process = "serve" => Cardinality(Registered) <= MaxWorkers

\* GetAvailableContainer sleeps with the mutex locked, so no entry can become
\* idle while it waits: a retry never finds what the first scan did not.
RetryFutile ==
  \A w \in Workers : wpc[w] = "scan" /\ tries[w] > 0 => Idle = {}

\* A container of the daemon that the map does not know is the one being
\* started, or one whose ContainerRemove failed; a restart takes over the
\* others, those of a process that died included.
NoSilentLeak ==
  process # "down" => Existing \ Registered \subseteq leaked \cup {cid}

\* A busy container becomes idle only by the hand of the worker that holds it.
OnlyHolderReleases ==
  [][\A c \in ContainerIds :
       containers[c] = "busy" /\ containers'[c] = "idle"
         => \E w \in Workers : held[w] = c /\ held'[w] = NoContainer]_vars

\* The manager implements the exclusive leases of a bounded pool.
Lease == INSTANCE ContainerLease WITH
  open <- process = "serve",
  pool <- IF process = "serve" THEN Registered ELSE {},
  lease <- held
LeaseSpec == Lease!Spec
-----------------------------------------------------------------------------
(* Liveness, under FairSpec. *)

\* An entry whose container is gone leaves the map: the next complete
\* checkHealth finds that the daemon does not list it.
VanishedDropped ==
  \A c \in ContainerIds :
    (c \in Registered /\ docker[c] = "absent") ~> c \notin Registered

\* Once the process and the containers are left alone, the pool heals for good:
\* the service is up and has its maxWorkers containers.
Quiet ==
  <>[][/\ ~SystemPrune /\ ~Crash
       /\ \A c \in ContainerIds : /\ ~ContainerExit(c)
                                  /\ \A r \in Removers : ~RequestRemove(r, c)]_vars
PoolHeals ==
  Quiet => <>[](process = "serve" /\ Cardinality(Registered) = MaxWorkers)

\* A worker that waits for the mutex or sleeps with it gets its answer: a
\* container that was handed out is given back.
LeaseReturned ==
  \A w \in Workers : (held[w] # NoContainer \/ wpc[w] = "scan") ~> wpc[w] = "free"
-----------------------------------------------------------------------------
(* What the documentation says and the code does not do. *)

\* "checkHealth ensures container health and count" (container_manager.go:281),
\* "RemoveContainer safely removes a container" (236): the entry checkHealth has
\* just seen is there when it reads its state.
HealthCheckReadsEntry == mpc = "deref" => cid \in Registered

\* "Automatic container replacement when limits are exceeded or containers
\* fail" (Readme.md:44): a container that stopped leaves the pool.
StoppedReplaced ==
  \A c \in ContainerIds :
    (c \in Registered /\ docker[c] = "stopped") ~> c \notin Registered
=============================================================================
