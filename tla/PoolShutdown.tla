---------------------------- MODULE PoolShutdown ----------------------------
(***************************************************************************)
(* WorkerPool.Shutdown and, within it, ContainerManager.Shutdown, while    *)
(* callers, workers, programs and the monitor of WorkerPool go on.  Nobody *)
(* calls it in the program as it is; here somebody may, once.              *)
(***************************************************************************)
EXTENDS WorkerPool

CONSTANT Monitor  \* the goroutine of MonitorContainers

ASSUME ShutdownAssumption == Monitor \notin Workers

VARIABLES
  process,     \* "up", or "dead" by a panic
  spc,         \* position of Shutdown
  victims,     \* the listed containers still to remove
  goroutines   \* those p.wg counts: the workers and the monitor

shutdownVars == <<process, spc, victims, goroutines>>
allVars == <<vars, shutdownVars>>

ShutdownTypeOK ==
  /\ TypeOK
  /\ process \in {"up", "dead"}
  /\ spc \in {"off", "signal", "list", "remove", "wait"}
  /\ victims \in SUBSET ContainerIds
  /\ goroutines \in SUBSET (Workers \cup {Monitor})

Signalled == spc # "off"                          \* close(p.shutdownChan)
JobsClosed == spc \in {"list", "remove", "wait"}  \* close(p.jobs)
-----------------------------------------------------------------------------
(* Shutdown.  It ends in p.wg.Wait().  No action takes the monitor out of   *)
(* goroutines: the loop of MonitorContainers has no return, and its ticker  *)
(* is never closed.                                                         *)

CloseShutdownChan ==
  /\ spc = "off"
  /\ spc' = "signal"
  /\ UNCHANGED <<vars, process, victims, goroutines>>

CloseJobs ==
  /\ spc = "signal"
  /\ spc' = "list"
  /\ UNCHANGED <<vars, process, victims, goroutines>>

ListContainers ==
  /\ spc = "list"
  /\ victims' = pool
  /\ spc' = "remove"
  /\ UNCHANGED <<vars, process, goroutines>>

\* The error of a removal that fails is logged.
RemoveListed(c) ==
  /\ spc = "remove" /\ c \in victims
  /\ \/ Kill(c)
     \/ RemoveMayFail /\ UNCHANGED <<alive, prog>>
  /\ victims' = victims \ {c}
  /\ UNCHANGED <<pool, lease, broken, jobVars, workerVars, execVars, watch, rem,
                 file, loaded, process, spc, goroutines>>

\* The map is emptied of whatever it holds by now.
ClearPool ==
  /\ spc = "remove" /\ victims = {}
  /\ pool' = {}
  /\ broken' = {}
  /\ spc' = "wait"
  /\ UNCHANGED <<lease, alive, jobVars, workerVars, execVars, watch, rem,
                 progVars, process, victims, goroutines>>
-----------------------------------------------------------------------------
(* What changes for the others. *)

\* A send on a closed channel panics, a select's default notwithstanding.
LateCall(j) ==
  /\ JobsClosed
  /\ j \notin Pending /\ answer[j] = "none"
  /\ process' = "dead"
  /\ UNCHANGED <<vars, spc, victims, goroutines>>

\* Mutant: a worker that is signalled drops the job it could receive.
WorkerReturns_Drops(w) ==
  /\ w \in goroutines /\ wpc[w] = "select"
  /\ Signalled
  /\ queue' = IF queue = <<>> THEN <<>> ELSE Tail(queue)
  /\ goroutines' = goroutines \ {w}
  /\ UNCHANGED <<poolVars, answer, workerVars, execVars, watch, rem, progVars,
                 process, spc, victims>>

\* A worker at its select may return once it is signalled, or finds the channel
\* closed and empty; a job that is still queued may win instead.
WorkerReturns(w) ==
  /\ w \in goroutines /\ wpc[w] = "select"
  /\ Signalled
  /\ goroutines' = goroutines \ {w}
  /\ UNCHANGED <<vars, process, spc, victims>>
-----------------------------------------------------------------------------
ShutdownInit ==
  /\ Init
  /\ process = "up"
  /\ spc = "off"
  /\ victims = {}
  /\ goroutines = Workers \cup {Monitor}

Caller(j) == (~JobsClosed /\ Submit(j) /\ UNCHANGED shutdownVars) \/ LateCall(j)

Worker(w) ==
  (w \in goroutines /\ WorkerStep(w) /\ UNCHANGED shutdownVars) \/ WorkerReturns(w)

\* Shutdown, once it is called.
ShutdownStep ==
  \/ CloseJobs
  \/ ListContainers
  \/ \E c \in ContainerIds : RemoveListed(c)
  \/ ClearPool

Undisturbed(action) == process = "up" /\ action /\ UNCHANGED shutdownVars

\* A container that the monitor adds is none of those listed before it was made.
MonitorRuns ==
  /\ Monitor \in goroutines
  /\ MonitorStep
  /\ pool' \cap victims \subseteq pool

ShutdownNext ==
  \/ /\ process = "up"
     /\ \/ \E j \in Jobs : Caller(j)
        \/ \E w \in Workers : Worker(w)
        \/ CloseShutdownChan \/ ShutdownStep
  \/ \E j \in Jobs :
       Undisturbed(Timeout(j) \/ ProgramStep(j) \/ WatchStep(j) \/ RemoveStep(j))
  \/ Undisturbed(MonitorRuns)

ShutdownSpec == ShutdownInit /\ [][ShutdownNext]_allVars

\* As in WorkerPool; and Shutdown, once called, goes on.
FairShutdownSpec ==
  /\ ShutdownSpec
  /\ \A w \in Workers : WF_allVars(process = "up" /\ Worker(w))
  /\ \A j \in Jobs : /\ WF_allVars(Undisturbed(Timeout(j)))
                     /\ WF_allVars(Undisturbed(RemoveStep(j)))
                     /\ WF_allVars(Undisturbed(WatchStep(j)))
                     /\ SF_allVars(Undisturbed(WatchDone(j)))
  /\ WF_allVars(Undisturbed(MonitorRuns))
  /\ WF_allVars(process = "up" /\ ShutdownStep)
-----------------------------------------------------------------------------
(* The pool still implements JobService (ServiceSpec of WorkerPool): while  *)
(* it is shut down no job is answered twice or turned away without cause,   *)
(* and none leaves queue and workers without its answer.                    *)

\* Every worker returns, whatever its program does, and whether or not the
\* container under it has been removed, unless a late caller ends the process.
WorkersReturn ==
  spc = "wait" ~> goroutines \cap Workers = {} \/ process = "dead"

\* A caller whose job has been received gets its answer through a shutdown;
\* one whose job is still in the channel may wait for ever.
TakenAnswered ==
  \A j \in Jobs : j \in Current ~> answer[j] # "none" \/ process = "dead"
-----------------------------------------------------------------------------
(* What the comments say and the code does not do. *)

\* "Shutdown gracefully stops the worker pool" (worker_pool.go:262), "Shutdown
\* cleans up all containers" (container_manager.go:377): every goroutine it waits
\* for returns and, if no removal fails, no worker container is left, unless a late
\* caller ends the process.
ShutdownCompletes ==
  spc = "wait" ~> (goroutines = {} /\ alive = {}) \/ process = "dead"
=============================================================================
