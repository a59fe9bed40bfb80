----------------------------- MODULE WorkerPool -----------------------------
(***************************************************************************)
(* executor/worker_pool.go: callers of ExecuteJob, the buffered channel of *)
(* jobs, the workers, and for every execution the goroutine that watches   *)
(* its container and, once it has found an outsurge, a second one that     *)
(* removes the container.  Programs run inside the containers and are not  *)
(* the docker client the worker waits for.                                 *)
(*                                                                         *)
(* The container manager is taken by its contract, ContainerLease, which   *)
(* ContainerManager implements.  Its pool starts with what InitializePool  *)
(* found and could start, which may be less than maxWorkers, or stopped.   *)
(* After that containers vanish only when they are removed:                *)
(* ContainerManager has the other cases.                                   *)
(***************************************************************************)
EXTENDS Naturals, Sequences, FiniteSets

CONSTANTS
  Workers, NoJob,
  Jobs,          \* bound: jobs ever submitted
  ContainerIds,  \* bound: ids in use at once
  NoContainer,
  MaxWorkers,    \* workers started, and containers kept
  MaxJobCount,   \* capacity of the channel of jobs
  RemoveMayFail, \* may ContainerRemove fail?
  Unsupported,   \* jobs in a language that GetLanguageConfig does not know
  Heavy,         \* jobs whose program may reach the limits of its container
  SameLanguage   \* jobs of one language, whose code goes through one file of
                 \* /app/temp; the other jobs' way through theirs is one step
                 \* (so is the way of C++ through its second file, /app/temp/exe)

ASSUME PoolAssumption ==
  /\ IsFiniteSet(Workers) /\ Cardinality(Workers) = MaxWorkers
  /\ MaxWorkers \in Nat \ {0}
  /\ MaxJobCount \in Nat \ {0}
  /\ IsFiniteSet(ContainerIds) /\ Cardinality(ContainerIds) >= MaxWorkers
  /\ NoContainer \notin ContainerIds
  /\ NoJob \notin Jobs
  /\ RemoveMayFail \in BOOLEAN
  /\ UNION {Heavy, SameLanguage, Unsupported} \subseteq Jobs

VARIABLES
  pool, lease,   \* the container manager, as ContainerLease has it
  broken,        \* entries in StateError: counted, but given to nobody
  alive,         \* the daemon's worker containers, the running ones
  queue,         \* p.jobs
  answer,        \* what ExecuteJob returned for each job
  wpc, cur, out, \* each worker: position, its job, the result of executeCode
  box,           \* container in which each job is executed, or was
  ctx,           \* context of each execution: "none", "open" or "done"
  watch,         \* the watcher of each execution
  rem,           \* the RemoveContainer goroutine of each execution
  prog,          \* the program of each job, inside its container
  file,          \* that file in each container: whose code it holds
  loaded         \* history: whose code each job of that language has run

poolVars == <<pool, lease, broken, alive>>
jobVars == <<queue, answer>>
workerVars == <<wpc, cur, out>>
execVars == <<box, ctx>>
progVars == <<prog, file, loaded>>
vars == <<poolVars, jobVars, workerVars, execVars, watch, rem, progVars>>

Active == {"store", "ready", "run"}

TypeOK ==
  /\ pool \in SUBSET ContainerIds
  /\ lease \in [Workers -> ContainerIds \cup {NoContainer}]
  /\ broken \in SUBSET ContainerIds
  /\ alive \in SUBSET ContainerIds
  /\ queue \in Seq(Jobs) /\ Len(queue) <= MaxJobCount
  /\ answer \in [Jobs -> {"none", "full", "refused", "failed", "output"}]
  /\ wpc \in [Workers -> {"select", "get", "start", "exec", "release", "reply"}]
  /\ cur \in [Workers -> Jobs \cup {NoJob}]
  /\ out \in [Workers -> {"none", "failed", "output"}]
  /\ box \in [Jobs -> ContainerIds \cup {NoContainer}]
  /\ ctx \in [Jobs -> {"none", "open", "done"}]
  /\ watch \in [Jobs -> {"off", "wait", "cancel", "over"}]
  /\ rem \in [Jobs -> {"off", "remove", "delete", "over"}]
  /\ prog \in [Jobs -> Active \cup {"none", "ok", "bad"}]
  /\ file \in [ContainerIds -> Jobs \cup {NoJob}]
  /\ loaded \in [Jobs -> Jobs \cup {NoJob}]

Manager == INSTANCE ContainerLease WITH open <- TRUE

\* The entries that may be handed out.
Usable == pool \ broken

Current == {cur[w] : w \in Workers} \ {NoJob}
Queued == {queue[i] : i \in DOMAIN queue}
Pending == Queued \cup Current

\* Programs that run in a container, those nobody waits for any more included.
Inside(c) == {j \in Jobs : box[j] = c /\ prog[j] \in Active}

\* A container taken away takes its programs with it.
Kill(c) ==
  /\ alive' = alive \ {c}
  /\ prog' = [j \in Jobs |-> IF j \in Inside(c) THEN "bad" ELSE prog[j]]

\* The daemon never hands out an id twice: an id is fresh when nobody knows it.
Fresh(c) ==
  /\ c \notin pool \cup alive \cup Manager!Leased
  /\ \A j \in Jobs : box[j] = c => /\ watch[j] \in {"off", "over"}
                                   /\ rem[j] \in {"off", "over"}
-----------------------------------------------------------------------------
(* ExecuteJob. *)

\* Mutants, here and below: one plausible slip each.  No specification uses
\* them; a property is exercised by putting one in the place of what it mutates.
Submit_OffByOne(j) ==
  /\ j \notin Pending /\ answer[j] = "none"
  /\ IF Len(queue) <= MaxJobCount
     THEN queue' = Append(queue, j) /\ UNCHANGED answer
     ELSE answer' = [answer EXCEPT ![j] = "full"] /\ UNCHANGED queue
  /\ UNCHANGED <<poolVars, workerVars, execVars, watch, rem, progVars>>

Submit(j) ==
  /\ j \notin Pending /\ answer[j] = "none"
  /\ IF Len(queue) < MaxJobCount
     THEN queue' = Append(queue, j) /\ UNCHANGED answer
     ELSE answer' = [answer EXCEPT ![j] = "full"] /\ UNCHANGED queue
  /\ UNCHANGED <<poolVars, workerVars, execVars, watch, rem, progVars>>
-----------------------------------------------------------------------------
(* worker, executeJob and executeCode. *)

Receive(w) ==
  /\ wpc[w] = "select" /\ queue # <<>>
  /\ cur' = [cur EXCEPT ![w] = Head(queue)]
  /\ queue' = Tail(queue)
  /\ wpc' = [wpc EXCEPT ![w] = "get"]
  /\ UNCHANGED <<poolVars, answer, out, execVars, watch, rem, progVars>>

\* Mutant: the state of the entry is not looked at.
GetAvailableContainer_AnyEntry(w) ==
  /\ wpc[w] = "get"
  /\ \E c \in pool :
       /\ lease' = [lease EXCEPT ![w] = c]
       /\ box' = [box EXCEPT ![cur[w]] = c]
  /\ wpc' = [wpc EXCEPT ![w] = "start"]
  /\ UNCHANGED <<pool, broken, alive, jobVars, cur, out, ctx, watch, rem, progVars>>

GetAvailableContainer(w) ==
  /\ wpc[w] = "get"
  /\ \E c \in ContainerIds :
       /\ Manager!Acquire(w, c)
       /\ c \notin broken
       /\ box' = [box EXCEPT ![cur[w]] = c]
  /\ wpc' = [wpc EXCEPT ![w] = "start"]
  /\ UNCHANGED <<broken, alive, jobVars, cur, out, ctx, watch, rem, progVars>>

\* Mutant: the worker gives up without writing to job.Result.
NoneAvailable_Silent(w) ==
  /\ wpc[w] = "get" /\ Usable \subseteq Manager!Leased
  /\ cur' = [cur EXCEPT ![w] = NoJob]
  /\ wpc' = [wpc EXCEPT ![w] = "select"]
  /\ UNCHANGED <<poolVars, jobVars, out, execVars, watch, rem, progVars>>

\* Every retry failed: the job is answered with the error.
NoneAvailable(w) ==
  /\ wpc[w] = "get" /\ Usable \subseteq Manager!Leased
  /\ answer' = [answer EXCEPT ![cur[w]] = "refused"]
  /\ cur' = [cur EXCEPT ![w] = NoJob]
  /\ wpc' = [wpc EXCEPT ![w] = "select"]
  /\ UNCHANGED <<poolVars, queue, out, execVars, watch, rem, progVars>>

\* executeCode gives up before it makes a context or a watcher.
UnsupportedLanguage(w) ==
  /\ wpc[w] = "start" /\ cur[w] \in Unsupported
  /\ out' = [out EXCEPT ![w] = "failed"]
  /\ wpc' = [wpc EXCEPT ![w] = "release"]
  /\ UNCHANGED <<poolVars, jobVars, cur, execVars, watch, rem, progVars>>

\* The contexts, the watcher, and docker exec, which fails at once when the
\* container is gone.
StartExec(w) ==
  LET j == cur[w] IN
  /\ wpc[w] = "start" /\ j \notin Unsupported
  /\ wpc' = [wpc EXCEPT ![w] = "exec"]
  /\ ctx' = [ctx EXCEPT ![j] = "open"]
  /\ watch' = [watch EXCEPT ![j] = "wait"]
  /\ prog' = [prog EXCEPT ![j] = IF box[j] \notin alive THEN "bad"
                                 ELSE IF j \in SameLanguage THEN "store" ELSE "run"]
  /\ UNCHANGED <<poolVars, jobVars, cur, out, box, rem, file, loaded>>

\* Mutant: the error of cmd.Run is ignored.
CmdReturns_ErrorIgnored(w) ==
  LET j == cur[w] IN
  /\ wpc[w] = "exec"
  /\ prog[j] \notin Active \/ ctx[j] = "done"
  /\ out' = [out EXCEPT ![w] = "output"]
  /\ ctx' = [ctx EXCEPT ![j] = "done"]
  /\ wpc' = [wpc EXCEPT ![w] = "release"]
  /\ UNCHANGED <<poolVars, jobVars, cur, box, watch, rem, progVars>>

\* Mutant: exec.Command, without the context.
CmdReturns_NoContext(w) ==
  LET j == cur[w] IN
  /\ wpc[w] = "exec"
  /\ prog[j] \notin Active
  /\ out' = [out EXCEPT ![w] = IF prog[j] = "ok" THEN "output" ELSE "failed"]
  /\ ctx' = [ctx EXCEPT ![j] = "done"]
  /\ wpc' = [wpc EXCEPT ![w] = "release"]
  /\ UNCHANGED <<poolVars, jobVars, cur, box, watch, rem, progVars>>

\* cmd.Run returns when the program has ended, or because the context is done,
\* and then only the docker client has been killed.  The deferred cancels run.
CmdReturns(w) ==
  LET j == cur[w] IN
  /\ wpc[w] = "exec"
  /\ \E result \in {"output", "failed"} :
       /\ result = "output" => prog[j] = "ok"
       /\ result = "failed" => prog[j] = "bad" \/ ctx[j] = "done"
       /\ out' = [out EXCEPT ![w] = result]
  /\ ctx' = [ctx EXCEPT ![j] = "done"]
  /\ wpc' = [wpc EXCEPT ![w] = "release"]
  /\ UNCHANGED <<poolVars, jobVars, cur, box, watch, rem, progVars>>

\* Mutant: the container is not given back.
Release_Skipped(w) ==
  /\ wpc[w] = "release"
  /\ wpc' = [wpc EXCEPT ![w] = "reply"]
  /\ UNCHANGED <<poolVars, jobVars, cur, out, execVars, watch, rem, progVars>>

\* SetContainerState(containerID, StateIdle)
Release(w) ==
  /\ wpc[w] = "release"
  /\ Manager!Release(w)
  /\ wpc' = [wpc EXCEPT ![w] = "reply"]
  /\ UNCHANGED <<broken, alive, jobVars, cur, out, execVars, watch, rem, progVars>>

Reply(w) ==
  /\ wpc[w] = "reply"
  /\ answer' = [answer EXCEPT ![cur[w]] = out[w]]
  /\ cur' = [cur EXCEPT ![w] = NoJob]
  /\ out' = [out EXCEPT ![w] = "none"]
  /\ wpc' = [wpc EXCEPT ![w] = "select"]
  /\ UNCHANGED <<poolVars, queue, execVars, watch, rem, progVars>>

\* context.WithTimeout
Timeout(j) ==
  /\ ctx[j] = "open"
  /\ ctx' = [ctx EXCEPT ![j] = "done"]
  /\ UNCHANGED <<poolVars, jobVars, workerVars, box, watch, rem, progVars>>
-----------------------------------------------------------------------------
(* Programs: "echo code > file && run file", the name of the file given by  *)
(* the language alone.  Any of them may fail, or never end.                 *)

Store(j) ==
  /\ prog[j] = "store"
  /\ prog' = [prog EXCEPT ![j] = "ready"]
  /\ file' = [file EXCEPT ![box[j]] = j]
  /\ UNCHANGED <<poolVars, jobVars, workerVars, execVars, watch, rem, loaded>>

Load(j) ==
  /\ prog[j] = "ready"
  /\ prog' = [prog EXCEPT ![j] = "run"]
  /\ loaded' = [loaded EXCEPT ![j] = file[box[j]]]
  /\ UNCHANGED <<poolVars, jobVars, workerVars, execVars, watch, rem, file>>

End(j) ==
  /\ \/ prog[j] = "run" /\ prog' = [prog EXCEPT ![j] = "ok"]
     \/ prog[j] \in Active /\ prog' = [prog EXCEPT ![j] = "bad"]
  /\ UNCHANGED <<poolVars, jobVars, workerVars, execVars, watch, rem, file, loaded>>
-----------------------------------------------------------------------------
(* The watcher.  Its select takes any case that is ready: a tick may win    *)
(* although the context is done.  A tick that finds no outsurge changes     *)
(* nothing.                                                                *)

\* Mutant: the watcher looks for its end only when the statistics fail.
WatchDone_OnVanished(j) ==
  /\ watch[j] = "wait" /\ ctx[j] = "done" /\ box[j] \notin alive
  /\ watch' = [watch EXCEPT ![j] = "over"]
  /\ UNCHANGED <<poolVars, jobVars, workerVars, execVars, rem, progVars>>

WatchDone(j) ==
  /\ watch[j] = "wait" /\ ctx[j] = "done"
  /\ watch' = [watch EXCEPT ![j] = "over"]
  /\ UNCHANGED <<poolVars, jobVars, workerVars, execVars, rem, progVars>>

\* Mutant: the threshold is compared the wrong way round.
Outsurge_Inverted(j) ==
  /\ watch[j] = "wait"
  /\ box[j] \in alive /\ Inside(box[j]) \cap Heavy = {}
  /\ rem' = [rem EXCEPT ![j] = "remove"]
  /\ watch' = [watch EXCEPT ![j] = "cancel"]
  /\ UNCHANGED <<poolVars, jobVars, workerVars, execVars, progVars>>

\* CheckResourceOutsurge measures the container, whoever runs in it; then go
\* RemoveContainer.  No container, no statistics: no outsurge.
Outsurge(j) ==
  /\ watch[j] = "wait"
  /\ box[j] \in alive /\ Inside(box[j]) \cap Heavy # {}
  /\ rem' = [rem EXCEPT ![j] = "remove"]
  /\ watch' = [watch EXCEPT ![j] = "cancel"]
  /\ UNCHANGED <<poolVars, jobVars, workerVars, execVars, progVars>>

WatchCancel(j) ==
  /\ watch[j] = "cancel"
  /\ ctx' = [ctx EXCEPT ![j] = "done"]
  /\ watch' = [watch EXCEPT ![j] = "over"]
  /\ UNCHANGED <<poolVars, jobVars, workerVars, box, rem, progVars>>

\* RemoveContainer: the daemon, which may fail, then in any case the map.
RemoveBox(j) ==
  /\ rem[j] = "remove"
  /\ \/ Kill(box[j])
     \/ RemoveMayFail /\ UNCHANGED <<alive, prog>>
  /\ rem' = [rem EXCEPT ![j] = "delete"]
  /\ UNCHANGED <<pool, lease, broken, jobVars, workerVars, execVars, watch, file, loaded>>

DeleteBox(j) ==
  /\ rem[j] = "delete"
  /\ IF box[j] \in pool
     THEN Manager!Unregister(box[j]) ELSE UNCHANGED <<pool, lease>>
  /\ rem' = [rem EXCEPT ![j] = "over"]
  /\ UNCHANGED <<broken, alive, jobVars, workerVars, execVars, watch, progVars>>
-----------------------------------------------------------------------------
(* The health check, by its effect: an entry in StateError or without a     *)
(* container goes, a missing container is replaced.                         *)

DropVanished(c) ==
  /\ c \notin alive
  /\ Manager!Unregister(c)
  /\ broken' = broken \ {c}
  /\ UNCHANGED <<alive, jobVars, workerVars, execVars, watch, rem, progVars>>

\* Mutant: one container too few.
Refill_OffByOne(c) ==
  /\ Fresh(c)
  /\ Cardinality(pool) + 1 < MaxWorkers
  /\ Manager!Register(c)
  /\ alive' = alive \cup {c}
  /\ file' = [file EXCEPT ![c] = NoJob]
  /\ UNCHANGED <<broken, jobVars, workerVars, execVars, watch, rem, prog, loaded>>

Refill(c) ==
  /\ Fresh(c)
  /\ Manager!Register(c)
  /\ alive' = alive \cup {c}
  /\ file' = [file EXCEPT ![c] = NoJob]
  /\ UNCHANGED <<broken, jobVars, workerVars, execVars, watch, rem, prog, loaded>>
-----------------------------------------------------------------------------
\* NewWorkerPool, with what InitializePool leaves: the containers it could start
\* and those of an earlier process, the stopped ones in StateError.
Init ==
  /\ pool \in SUBSET ContainerIds
  /\ pool # {} /\ Cardinality(pool) <= MaxWorkers
  /\ broken \in SUBSET pool
  /\ lease = [w \in Workers |-> NoContainer]
  /\ alive = pool \ broken
  /\ queue = <<>>
  /\ answer = [j \in Jobs |-> "none"]
  /\ wpc = [w \in Workers |-> "select"]
  /\ cur = [w \in Workers |-> NoJob]
  /\ out = [w \in Workers |-> "none"]
  /\ box = [j \in Jobs |-> NoContainer]
  /\ ctx = [j \in Jobs |-> "none"]
  /\ watch = [j \in Jobs |-> "off"]
  /\ rem = [j \in Jobs |-> "off"]
  /\ prog = [j \in Jobs |-> "none"]
  /\ file = [c \in ContainerIds |-> NoJob]
  /\ loaded = [j \in Jobs |-> NoJob]

WorkerStep(w) ==
  \/ Receive(w)
  \/ GetAvailableContainer(w) \/ NoneAvailable(w)
  \/ UnsupportedLanguage(w) \/ StartExec(w) \/ CmdReturns(w)
  \/ Release(w) \/ Reply(w)

ProgramStep(j) == Store(j) \/ Load(j) \/ End(j)

WatchStep(j) ==
  WatchDone(j) \/ Outsurge(j) \/ WatchCancel(j)

RemoveStep(j) == RemoveBox(j) \/ DeleteBox(j)

MonitorStep == \E c \in ContainerIds : DropVanished(c) \/ Refill(c)

Next ==
  \/ \E w \in Workers : WorkerStep(w)
  \/ \E j \in Jobs : \/ Submit(j) \/ Timeout(j)
                     \/ ProgramStep(j) \/ WatchStep(j) \/ RemoveStep(j)
  \/ MonitorStep

Spec == Init /\ [][Next]_vars

\* Goroutines that can run do run, the timer fires, the monitor keeps checking,
\* and a select does not prefer its ticker for ever.
\* A program need not ever end, nor a job be submitted.
FairSpec ==
  /\ Spec
  /\ \A w \in Workers : WF_vars(WorkerStep(w))
  /\ \A j \in Jobs : WF_vars(Timeout(j)) /\ WF_vars(RemoveStep(j))
  /\ \A j \in Jobs : WF_vars(WatchStep(j)) /\ SF_vars(WatchDone(j))
  /\ WF_vars(MonitorStep)
-----------------------------------------------------------------------------
(* Safety. *)

\* While the pool has all its containers, and none of them in StateError, a worker
\* that asks for one finds one: every other worker holds one at most, and gives it
\* back before it asks again.
EnoughContainers ==
  \A w \in Workers :
    wpc[w] = "get" /\ Cardinality(Usable) = MaxWorkers
      => Usable \ Manager!Leased # {}

\* The pool loses no container that works before a program that may reach the
\* limits has begun: neither the watchers nor the health check take one away that
\* runs.  With EnoughContainers: up to then jobs are refused for lack of
\* containers only while the pool is still short of what it was to start with.
UsableKept ==
  [][Usable \subseteq Usable' \/ \E h \in Heavy : prog[h] # "none"]_vars

\* Of the programs that share a container, one at most is still waited for:
\* executions that are not abandoned never meet.
OneLiveExecution ==
  \A j, k \in Jobs :
    /\ j # k /\ box[j] = box[k]
    /\ {j, k} \subseteq {i \in Jobs : prog[i] \in Active}
    => "done" \in {ctx[j], ctx[k]}

\* A success is reported only for a job whose own program ran to its end, no
\* matter which timeout, removal or cancellation raced with it.
OutputIsEarned ==
  \A j \in Jobs : answer[j] = "output" => prog[j] = "ok"

\* Of two jobs, one of which has run the other's code, at most one succeeds:
\* only an abandoned execution can meet another one in their language's file.
MixedCodeNeedsAbandoned ==
  \A j, k \in Jobs :
    j # k /\ loaded[j] = k => ~(answer[j] = "output" /\ answer[k] = "output")

\* The pool implements the service its callers see.
Service == INSTANCE JobService WITH
  pending <- Pending, Answers <- {"refused", "failed", "output"}
ServiceSpec == Service!Spec
-----------------------------------------------------------------------------
(* Liveness, under FairSpec. *)

\* ExecuteJob returns, even for a program that never ends.
JobsAnswered ==
  \A j \in Jobs : j \in Pending ~> answer[j] # "none"

\* No watcher outlives its execution for ever.
WatchersEnd ==
  \A j \in Jobs : ctx[j] = "done" ~> watch[j] = "over"

\* A container that has been taken away, could not be started or was found
\* stopped at the start is replaced, although removals may fail.
PoolRefilled ==
  Cardinality(Usable) < MaxWorkers ~> Cardinality(Usable) = MaxWorkers
-----------------------------------------------------------------------------
(* What the documentation says and the code does not do. *)

\* "Code is written to temporary files within containers", "Language-specific
\* compilation and execution commands are run" (Readme.md:48-49): the output a
\* job is answered with is that of its own code.
RunsOwnCode ==
  \A j \in SameLanguage : answer[j] = "output" => loaded[j] = j
=============================================================================
