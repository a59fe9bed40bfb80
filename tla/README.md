# xcodeEngine in TLA+

The engine takes snippets of code from NATS, screens them, and runs each of them
in one of a few Docker containers that it keeps warm. This directory holds
TLA+ modules of that program, TLC configurations that model-check them, and eight
modules of proofs checked by TLAPS. `PROJECT.json` gives, for every definition,
the lines it stands for.

    tlc -workers 2 -config manager_safety.cfg MCContainerManager
    tlapm WorkerPoolProofs.tla        # and every other *Proofs.tla, *Refinement.tla

## The system

| part | state | operations | correct when |
|---|---|---|---|
| container manager (`executor/container_manager.go`) | map of containers to idle/busy/error; `cm.mu` | InitializePool, checkHealth every second, StartContainer, RemoveContainer, GetAvailableContainer, SetContainerState, Shutdown | no container is given to two workers; the pool has at most and, in the end, exactly `maxWorkers`; none is lost; `cm.mu` is always passed on |
| worker pool (`executor/worker_pool.go`) | buffered channel of jobs; the goroutines `worker` | ExecuteJob, worker, executeJob, executeCode, Shutdown | each accepted job is answered once, and with what its own execution did |
| resource watcher (in `executeCode`, and `CheckResourceOutsurge`) | one goroutine per execution, and one more per removal | tick, cancel, `go RemoveContainer` | ends with its execution; hits no other one |
| language configurations (`executor/config.go`) | none; a file per language in each container | commands to store and run code | runs the code of the job |
| compiler service (`service/service.go`) | none | normalizeLanguage, Compile, ExecuteProblemCode | passes on only what the pool can execute |
| sanitizer (`internal/sanitize.go`) | constant tables | SanitizeCode | knows the languages the executor knows |
| NATS handlers (`natshandler/handler.go`) | none of their own; the client's queue per subscription | HandleCompilerRequest, HandleProblemRunRequest | a request that can be read has one reply, published or lost in the attempt, in order |
| start-up (`cmd/main.go`) | - | pool first, then the two subscriptions | - |
| log streamer (`logger/zap_betterstack.go`) | `fileMu`, the file, an HTTP client | NewBetterStackLogStreamer, Log | file and console agree; a call never waits for the network; no goroutine of it kills the process |
| configuration (`config/config.go`) | none | LoadConfig | modelled as far as the log streamer's environment |
| data model (`model/model.go`) | - | - | not modelled: type declarations |
| dockerkill, deployment (`cicd.yml`) | - | stop, restart, `docker system prune` | modelled as environment |

How they interact. A NATS callback calls the service, the service calls
`ExecuteJob` and waits. A worker receives the job, asks the manager for a
container, runs `docker exec` there and gives the container back. Beside it a
watcher polls the container's statistics; on an outsurge it starts
`RemoveContainer` in a goroutine of its own and cancels the execution. The
monitor compares the map with the daemon's list, removes and replaces. Workers,
watchers, removers and the monitor share the map; some of them lock the mutex,
some do not. Containers outlive the process, and programs outlive the docker
client that started them.

What is hard here: unlocked accesses to the map (`checkHealth`,
`RemoveContainer`), a check and an insertion in two critical sections
(`StartContainer`), a sleep with the mutex locked (`GetAvailableContainer`),
timeouts that abandon programs, removals that come late, daemon calls that fail
half way, restarts that adopt what is there, and a `Shutdown` that closes a
channel others send on and waits for a goroutine without an end. `PROJECT.json` lists these
hazards with their lines and the properties aimed at them.

## The modules

    CompilerService <-- Engine ------> JobService
                                           ^ implements
                      PoolShutdown --> WorkerPool -----> ContainerLease
                                           :                 ^ implements
                      ResourceWatchProofs --> ResourceWatch  ContainerManager <-- ContainerManagerProofs

    LogStreamer

Arrows are EXTENDS or INSTANCE; the dotted line says that ResourceWatch has the
detail of WorkerPool's Outsurge. Proofs about a module `M` are in `MProofs`, those
that it implements its abstract specification in `MRefinement`, which extends
`MProofs`; `PoolShutdownProofs` extends `WorkerPoolRefinement`.

**ContainerLease** (abstract): a pool of at most `MaxWorkers` containers, each
leased to at most one worker; leases and pool die with the process.

**ContainerManager** (detailed): every access to the map or to the daemon is a
step of its own, and every goroutine has a program counter.

| variable | code |
|---|---|
| `containers`, `mu` | `cm.containers` (`"absent"`: no entry), `cm.mu` (its owner) |
| `docker` | the daemon's worker containers |
| `wpc`, `held`, `tries` | a worker in GetAvailableContainer / executeJob, its `containerID`, `i` |
| `rpc`, `target` | a `go RemoveContainer(id)` |
| `mpc`, `todo`, `running`, `toRemove`, `need`, `cid` | the goroutine of InitializePool and checkHealth: position, list still to visit, `runningWorkers`, `toRemove`, containers still to start, id at hand |
| `process` | down, in InitializePool, or serving |
| `used`, `leaked` | history: containers that have run a job; containers whose removal failed |

A failing daemon call is a second outcome of the action that makes it
(`DockerRemove`, `ContainerCreateFails`, `ContainerStartFails`). A map access
that another goroutine may be racing with happens atomically, or kills the
process (`MapFault`), which is what the Go runtime does when it notices. A nil
entry in `checkHealth` kills the process too.

Simplifications. `InitializePool` up to its adjustment is one step: nothing else
runs then. `ContainerList` is read in one step. `checkHealth` reads only entries
the list names, one step per lookup. A removal may be requested for any
container that has run a job, which is more than the watcher does. An id is
reused once nobody knows it any more, where the daemon would make a new one.

**JobService** (abstract): what the callers of ExecuteJob see: a job is turned
away, only with `MaxJobCount` jobs pending, or accepted and answered once.

**WorkerPool** (detailed): the channel (`queue`), the workers (`wpc`, `cur`,
`out`), and for each job its container, context, watcher, remover and the
program inside the container (`box`, `ctx`, `watch`, `rem`, `prog`). The manager
is there by its contract, ContainerLease, whose actions it uses (`pool`,
`lease`). `prog` and `ctx` are apart because cancelling a context kills the
docker client only. `file` and `loaded` follow the code of the jobs of one
language through the file of `/app/temp` they share.

`broken` are the entries in StateError, which count and are given to nobody. The pool
starts with whatever InitializePool may leave: any number of containers from one to
`MaxWorkers`, some of them stopped ones of an earlier process.

Simplifications. Afterwards containers vanish only by
removal (ContainerManager has the other cases). The first `SetContainerState`
repeats what the assignment did and is no step here. `Heavy` jobs may exceed the
limits at any moment; ResourceWatch has the arithmetic behind it. Containers that
exit while the pool serves are in ContainerManager only. The commands of C++ go through
a second shared file, `/app/temp/exe`; storing, compiling and running are one store and
one load here for every language.

**PoolShutdown** (composes `WorkerPool.Shutdown` and `ContainerManager.Shutdown`
with everything WorkerPool has). `spc` is the position of Shutdown: it closes
`shutdownChan`, closes `jobs`, lists the map, removes container by container, clears
the map and waits. `goroutines` are those `p.wg` counts. A call of ExecuteJob after
`close(p.jobs)` panics and ends the process. Nobody calls Shutdown in the program;
the model lets somebody call it once, at any moment. There is no action for the
return of `p.wg.Wait()`: it needs the monitor to call `wg.Done()`, and no step of
`MonitorContainers` leaves its loop; that it is missing is what
`finding_shutdown` shows. Jobs that are still in the channel when the
last worker has returned are never answered, and neither property nor run says
they are.

**ResourceWatch**: one container's CPU counter, the host's, its memory, and what
CheckResourceOutsurge makes of a reading. Percentages are compared as products
(`100 * x > 99 * y`), without the rounding of floating point. The kernel's CPU
quota holds per scheduler period, so the container may use it at the start of the
period. A field the daemon leaves out is 0, as after `json.Unmarshal`.

**LogStreamer**: calls of `Log` with one position each. `environment` and `badURL` are
chosen at the start. The order of `file` and `console` is the order of their lines.
`Fatal` entries are those after which zap ends the process: FatalLevel, and the levels
on which it panics in the caller, unless that recovers (then the entry is one like any
other). The program makes a streamer and passes it on; `Log` has no caller yet.

**CompilerService**: what becomes of a request before the pool sees it, as
operators over records: base64, length, patterns, language. Whether a text
matches a regular expression is an input (`hits`), one name per category.

**Engine**: the two subscriptions with their queues, the callbacks, and the loss
of messages in NATS; the pool is there by its contract, JobService. `main`
subscribes to one subject after the other (`subscribed`). The error of `nc.Publish` is
dropped by the code: a response may be `"lost"`, because it is too large, has no
subject to go to, or the connection is gone (`closed`: the client has given up
reconnecting, and the engine stays up without subscriptions). A request that NATS loses on
its way is one that is never published.

Definitions whose name ends in a suffix such as `_OffByOne` are mutants: each
is the definition that follows it with one plausible mistake, and is used by no
specification. Put in the place of the original, it makes the property named with
it in `PROJECT.json` fail, which shows that the property depends on that code.

## The runs

| run | instance | shows |
|---|---|---|
| `manager_safety` | 2 workers, 1 remover, 3 ids, pool of 2, 2 attempts, all faults | `LeaseExclusive`, `PoolBound`, `RetryFutile`, `NoSilentLeak`, `OnlyHolderReleases`; ContainerManager implements ContainerLease |
| `manager_liveness` | 2 workers, 1 remover, 2 ids, pool of 1, faults exit, prune, crash | `VanishedDropped`, `PoolHeals`, `LeaseReturned` |
| `pool_safety` | 2 workers, 3 jobs (2 of one language, one of them heavy; 1 in an unsupported language), 3 ids, queue of 1 | WorkerPool implements JobService; `EnoughContainers`, `UsableKept`, `OneLiveExecution`, `OutputIsEarned`, `MixedCodeNeedsAbandoned` |
| `pool_liveness` | 1 worker, 2 jobs, 3 ids, removals may fail | `JobsAnswered`, `WatchersEnd`, `PoolRefilled` |
| `shutdown` | 1 worker, 2 jobs (one heavy, one in an unsupported language), 4 ids, removals may fail | the pool implements JobService through a shutdown; `WorkersReturn`, `TakenAnswered` |
| `resource_watch` | 2 cores, periods of 4 slices, half a core of quota, up to 26 slices after the container's creation | `CpuNeverOutsurges`, `OnlyHogsCut` |
| `log_streamer` | 3 calls, one hidden from the console, one fatal, every environment | `SameStory`, `NoPanicAsConfigured`, `LogReturns` |
| `engine` | 3 requests of 5 kinds, client queue of 2, pool queue of 1, lost responses, a closed connection, restarts | `OnlySupportedExecuted`, `PendingAwaited`, `RepliesInOrder`, `SuccessIsReal`, `RequestsAnswered` |

All of them but `manager_liveness` and `pool_liveness` also check their module's type invariant.

Bounds. Two workers are what `cmd/main.go` starts. Three ids let a pool of two
have one more container than it should, at a restart or during a replacement.
One remover is enough to meet the monitor and the workers between any two of
their steps; a second one only repeats that. `MaxRetries` is 10 in the code; two
attempts have a first, a retry and a last one. Three jobs let an abandoned
program meet a running one while a third job waits, and overfill a queue of
one. In `pool_safety` removals succeed: a failed one leaves its container outside
the pool for good, which `pool_liveness`, `shutdown` (with ids more for them) and
`manager_safety` cover. One worker is enough for `shutdown`, whose steps meet it at
each of its positions; the heavy job lets the watcher's removal and Shutdown's
meet, the unsupported one takes the way of `executeCode` around both. In
`resource_watch` the counters stop at `MaxSystem`, six periods after the start; the
theorem has no such bound. Three calls of Log let two wait for the mutex. Three requests let two wait behind one another on a
subject while the other subject is busy; the five kinds are what
the callbacks treat differently: not readable, executed on either subject, rejected for the
language or for the code.

Fairness. Goroutines that can run do run (weak fairness). For those that wait for
`cm.mu` it is strong fairness: a `sync.Mutex` hands the lock to a waiter that has
starved for a millisecond. The supervisor starts the process again (deployment
does, `cicd.yml:98`). Timers fire. A `select` does not prefer its ticker for
ever, hence strong fairness of `WatchDone`. Programs need not end, clients need
not send, and no outsurge need come. Shutdown need not be called, but then goes on.
In LogStreamer the network need not answer at all; in ResourceWatch no fairness is assumed,
for every reading may fail until the execution ends. `PoolHeals` is conditional on the faults and
removals having come to an end. In Engine, that the pool answers is WorkerPool's
`JobsAnswered`.

Deadlock is checked for ContainerManager, whose monitor never stops. The other
modules may stop once all jobs or messages of the instance are used up, and
their configurations say so.

## What the code does not do

Four runs end in a counterexample to something the repository says of itself.

* `finding_nil_entry`: `checkHealth` "ensures container health" but looks an entry
  up twice without the mutex. When the watcher's `RemoveContainer` falls in
  between, the second lookup is nil and the engine panics. The watcher's `RemoveContainer`
  "safely removes a container" without the mutex: other accesses to the map race with its
  delete too, and the runtime may end the process (`MapFault`).
* `finding_stopped_kept`: a container that has exited stays in the pool for ever,
  for `checkHealth` asks only whether the daemon lists it. Until someone prunes
  it, jobs are given to it and fail.
* `finding_own_code`: after a timeout the program goes on in a container that is
  handed to the next job ("isolated execution" it is not), and it may overwrite the
  file of that job between its storing and running it: the job is answered with the
  output of the other code. What is kept is `OneLiveExecution`: of the programs in a
  container one at most is still waited for, and, with it, `MixedCodeNeedsAbandoned`:
  two jobs whose code got mixed do not both succeed.
* `finding_shutdown`: "Shutdown gracefully stops the worker pool" and "cleans up all
  containers", but waits for the monitor, whose loop has no return, and does not tell it:
  the monitor replaces what Shutdown has removed, and the new containers run on.

Some properties hold and yet say something unwelcome. `RetryFutile`: the loop of
`GetAvailableContainer` sleeps with the mutex locked, so what it waits for cannot
happen. `CpuNeverOutsurges`: the CPU half of the resource check is dead code under
the quota that StartContainer sets. `EnoughContainers` has
a premise that `InitializePool` ("ensures the correct number of containers are running")
does not give it: it counts the stopped containers it finds, only logs those it cannot
start, and accepts any map that is not empty; until the health check has repaired that
(`PoolRefilled`) jobs are refused. `RequestsAnswered` says that a request has its turn, not
that its sender hears of it: the error of `nc.Publish` is dropped, and a response may be
lost. `OnlyHogsCut` has no converse:
a watcher ends with its execution or its timeout, all of its readings may have failed by
then, and a program that outlives the timeout runs on unwatched. `NoPanicAsConfigured` is limited to the two
environments the constructor knows: in any other one the first post panics.

## The proofs

Every invariant and every refinement that the passing runs check is proved as well,
for every value of the constants. What each component's proofs assume of them is the
`ASSUME` in its module: sizes are at least 1, ids and workers are finite sets, and
the values that stand for "none" are apart from the others. The proofs use
nothing else, and TLC had found the inductive invariants true on the runs'
instances before they were proved.

`ContainerManagerProofs`, for any number of workers, removers and retries, any
finite set of ids, any pool size and any faults (`ManagerAssumption`):

* `TypeCorrect` (`TypeOK`) and `Exclusion` (`LeaseExclusive`), from `LeaseInvariant`.
  `LeaseExclusive` is not inductive: a scan could hand out a held container if
  its entry were idle. `HeldBusy` says that the entry of a held container, if it
  has one, is busy; `WorkerInv` ties position, mutex and container of a worker
  together; `MonitorInv` says that the container being inserted is nobody's (or
  the insertion would break `HeldBusy`); `BootInv` that no worker runs while
  `InitializePool` overwrites the map. The unlocked deletion keeps all of them,
  because it only takes entries away.
* `Bounded` (`PoolBound`), from `SizeInv`: without the entries about to be removed
  the pool fits, and between the check of StartContainer and its insertion there
  is room for one, since only the monitor inserts.
* `RetriesAreFutile` (`RetryFutile`): while the mutex is locked the set of idle
  entries can only shrink (`IdleShrinks`), and a worker that retries has it locked.

`ContainerManagerRefinement`, from both invariants (`ManagerInv`):

* `HolderReleases` (`OnlyHolderReleases`): nothing but the worker's own
  SetContainerState makes its entry idle. An insertion could, and does not, because
  it is of a container nobody holds; nor does a restart, which finds no worker.
* `ImplementsLease` (`LeaseSpec`): each step opens or closes the abstract pool, is a
  Register, Unregister, Acquire or Release of it, or a stutter. Register needs the
  room that `SizeInv` keeps, Acquire the exclusion that `HeldBusy` gives, and Close
  that whatever ends the process ends the leases.
* `LeaksAreLogged` (`NoSilentLeak`), from `LeakInv`: whoever is about to delete an
  entry has had the container removed or failed to, and outside of a start or a
  removal the monitor has no container at hand.

`WorkerPoolProofs`, for any workers, jobs, languages and containers
(`PoolAssumption`). `PoolInvariant` keeps `PoolInv`:

| part | says | without it |
|---|---|---|
| `WorkerInv` | a worker's position tells whether it has a job, a container, a result | a worker might answer with another execution's result |
| `JobInv` | a pending job is in the channel or with one worker, unanswered | a job could be answered twice |
| `LeaseInv` | no container has two workers | two executions would meet |
| `ExecInv` | a context is open only while a worker waits; a program that runs and is not waited for belongs to a failed job | a late program could count as the next job's |
| `OutputInv` | output is reported of a program that ended well | the select between timeout and result could report either |
| `MixInv` | of two jobs one of which runs the other's code, or is about to, one has failed or will | the overwriting would be noticed too late, once the code is loaded |

From it: `PoolTypes` (`TypeOK`), `SuccessIsEarned` (`OutputIsEarned`),
`LiveExecutionsApart` (`OneLiveExecution`), `MixedCodeFails`
(`MixedCodeNeedsAbandoned`) and `ContainersSuffice` (`EnoughContainers`; a worker
that asks holds nothing, the others hold one container each, and a complete pool of
usable containers has one more than they are). `UsableStays` (`UsableKept`) needs `CalmInv`
besides: until a heavy program has begun, every usable container runs, no removal is
under way and nothing on its way to cause one.

`WorkerPoolRefinement` proves `ImplementsService` (`ServiceSpec`): channel and
workers together are the pending jobs of JobService. The bound on them is
the capacity of the channel plus one for each worker, so it takes the counting lemmas
on injective sequences and on the workers' jobs. `PoolShutdownProofs`
proves that a step of PoolShutdown is one of WorkerPool, or takes containers
away and leaves the jobs and workers alone; hence `ShutdownInvariant`,
`ShutdownTypesHold` (`ShutdownTypeOK`), `ShutdownSafe` (four of the pool's promises) and
`ShutdownServes` (`ServiceSpec`). `UsableKept` is not among them:
a shutdown takes working containers away.

`EngineProofs`, for any messages, requests and queue lengths, with and without
crashes (`EngineAssumption`). `RepliesInOrder` is not inductive: `Line` says, for each
subject, that the queue is the end of what came, that what is before it has had its turn
(its response published or lost), and that the message in between is the one at hand. `CallbackInv`, `FreshInv`
and `MessageInv` tie the response about to be published to the pool's answer: no
message is known to the pool before its callback has taken it (`FreshInv`), and
the pool answers only what a callback waits for (`AnswersAwaited`). Theorems:
`EngineTypes` (`TypeOK`), `NothingUnsupported` (`OnlySupportedExecuted`), `JobsAwaited`
(`PendingAwaited`), `SuccessReal` (`SuccessIsReal`), `OrderedReplies` (`RepliesInOrder`).

`LogStreamerProofs`, for any number of calls, every environment and any URL
(`StreamerAssumption`): `StreamTypes` (`TypeOK`), `NoPanic` (`NoPanicAsConfigured`) and
`OneStory` (`SameStory`). `SameStory` is not inductive: a call could print an entry
behind the one that overtook it. `MutexInv` says who holds `fileMu`, `TraceInv` that
a call about to print has written the last entry of the file, `OnceInv` that no
entry is written twice.

`ResourceWatchProofs` proves `ResourceTypes` (`TypeOK`), `CpuLimitNeverFires`
(`CpuNeverOutsurges`) and `OnlyHogs` (`OnlyHogsCut`, from the former) under
`ResourceAssumption`: the quota is at most 99% of the host's CPU time in a period, and
the host has been up for a period when the container is created. The property is not inductive, for
nothing in it keeps a container from having used everything before this period.
`PastPeriods` says that the periods gone by leave room for one more; a period's own
share is at most `Quota`, and is settled against the host's time at its end.

Model-checked only: the liveness properties (the prover has no fairness and no
ENABLED), which are `VanishedDropped`, `PoolHeals`, `LeaseReturned`, `JobsAnswered`,
`WatchersEnd`, `PoolRefilled`, `WorkersReturn`, `TakenAnswered`,
`LogReturns` and `RequestsAnswered`; and the four counterexamples.

## Not modelled

`ContainerCount` (unused, it only reads), texts and their matching, the quoting of
code in shell commands, logrus and the standard log, pprof, the addresses and tokens
of the configuration, the data model (type declarations), the commands of
dockerkill other than its prune, the worker image, the load test, the archived
code. A daemon that never answers, neither with a result nor with an error, is not
modelled either: no call of the code has a timeout for it.

## Plan

Done: ContainerLease, ContainerManager with its runs and first proofs; JobService
and WorkerPool; CompilerService and Engine; PoolShutdown; ResourceWatch with its
proof; LogStreamer; the proofs of every invariant, of `RetryFutile` and
`OnlyHolderReleases`, `UsableKept` and `OnlyHogsCut`, and of the refinements.

Next:

1. That WorkerPool, and PoolShutdown with it, use ContainerLease as its
   specification allows: their `pool` and `lease` implement `ContainerLease!Spec`.
2. The safety half of the liveness properties: the bounded steps under
   `LeaseReturned` and `JobsAnswered` (who must move next) as invariants, so that only the
   fairness argument itself is left to TLC.
3. Properties of the operators of CompilerService, for every request: which requests
   become jobs, and that the order of the checks does not matter for that.
