-------------------------- MODULE WorkerPoolProofs --------------------------
(***************************************************************************)
(* Theorems about WorkerPool, for any number of workers, jobs and          *)
(* containers and any capacity of the channel of jobs.                     *)
(***************************************************************************)
EXTENDS WorkerPool, FiniteSetTheorems, SequenceTheorems, TLAPS

\* The job of a worker is answered with a failure, or will be.
Failed(j) ==
  \/ answer[j] = "failed"
  \/ \E w \in Workers : cur[w] = j /\ out[w] = "failed"

\* A worker waits for the program of the job.
Waited(j) == \E w \in Workers : cur[w] = j /\ wpc[w] = "exec"

\* What a worker's position says of its job, its container and its result.
WorkerInv ==
  \A w \in Workers :
    /\ wpc[w] = "select" <=> cur[w] = NoJob
    /\ wpc[w] \in {"start", "exec", "release"} <=> lease[w] # NoContainer
    /\ lease[w] # NoContainer => lease[w] = box[cur[w]]
    /\ out[w] # "none" <=> wpc[w] \in {"release", "reply"}

\* A pending job is in one place, and has no answer yet.
JobInv ==
  /\ \A v, w \in Workers : v # w /\ cur[v] = cur[w] => cur[v] = NoJob
  /\ IsInjective(queue)
  /\ Queued \cap Current = {}
  /\ \A j \in Pending : answer[j] = "none"

\* Two workers never hold the same container.
LeaseInv ==
  \A v, w \in Workers : v # w /\ lease[v] = lease[w] => lease[v] = NoContainer

\* A context is open only while a worker waits; a program that runs and is not
\* waited for has been given up.
Execution(j) ==
  /\ prog[j] = "none" <=> ctx[j] = "none"
  /\ watch[j] # "off" => ctx[j] # "none"
  /\ prog[j] # "none" => box[j] \in ContainerIds
  /\ ctx[j] # "none" =>
       \/ answer[j] # "none"
       \/ \E w \in Workers : cur[w] = j /\ wpc[w] \in {"exec", "release", "reply"}
  /\ ctx[j] = "open" => Waited(j)
  /\ prog[j] \in Active => Waited(j) \/ Failed(j)

\* Every execution is in order.
ExecInv == \A j \in Jobs : Execution(j)

\* A worker reports a success only of a program that ended well.
OutputInv ==
  /\ \A w \in Workers : out[w] = "output" => prog[cur[w]] = "ok"
  /\ OutputIsEarned

\* A job runs, or is about to run, another one's code only if one of them fails.
MixInv ==
  \A j, k \in Jobs :
    /\ j # k
    /\ loaded[j] = k \/ (prog[j] = "ready" /\ file[box[j]] = k)
    => Failed(j) \/ Failed(k)

\* The inductive invariant of the pool.
PoolInv ==
  TypeOK /\ WorkerInv /\ JobInv /\ LeaseInv /\ ExecInv /\ OutputInv /\ MixInv
-----------------------------------------------------------------------------
(* The channel of jobs.                                                    *)

\* A send adds the job, and keeps the jobs apart.
LEMMA SendJob ==
  ASSUME NEW q \in Seq(Jobs), NEW j \in Jobs
  PROVE  /\ Append(q, j) \in Seq(Jobs)
         /\ Len(Append(q, j)) = Len(q) + 1
         /\ Range(Append(q, j)) = Range(q) \cup {j}
         /\ IsInjective(q) /\ j \notin Range(q) => IsInjective(Append(q, j))
<1>1. /\ Append(q, j) \in Seq(Jobs)
      /\ Len(Append(q, j)) = Len(q) + 1
      /\ \A i \in 1 .. Len(q) : Append(q, j)[i] = q[i]
      /\ Append(q, j)[Len(q) + 1] = j
  BY AppendProperties
<1>2. /\ DOMAIN Append(q, j) = 1 .. Len(q) + 1 /\ DOMAIN q = 1 .. Len(q)
      /\ Len(q) \in Nat
  BY <1>1, LenProperties
<1>3. Range(Append(q, j)) = Range(q) \cup {j}
  BY <1>1, <1>2 DEF Range
<1>4. IsInjective(q) /\ j \notin Range(q) => IsInjective(Append(q, j))
  BY <1>1, <1>2 DEF Range, IsInjective
<1> QED
  BY <1>1, <1>3, <1>4

\* A receive takes the job at the head, and no other.
LEMMA ReceiveJob ==
  ASSUME NEW q \in Seq(Jobs), q # <<>>
  PROVE  /\ Head(q) \in Jobs /\ Tail(q) \in Seq(Jobs)
         /\ Len(Tail(q)) = Len(q) - 1
         /\ Range(q) = Range(Tail(q)) \cup {Head(q)}
         /\ IsInjective(q) => IsInjective(Tail(q)) /\ Head(q) \notin Range(Tail(q))
<1>1. /\ Head(q) \in Jobs /\ Tail(q) \in Seq(Jobs)
      /\ Len(Tail(q)) = Len(q) - 1
      /\ \A i \in 1 .. Len(Tail(q)) : Tail(q)[i] = q[i + 1]
  BY HeadTailProperties
<1>2. /\ DOMAIN Tail(q) = 1 .. Len(q) - 1 /\ DOMAIN q = 1 .. Len(q)
      /\ Len(q) \in Nat \ {0} /\ Head(q) = q[1]
  BY <1>1, LenProperties, EmptySeq
<1>3. Range(q) = Range(Tail(q)) \cup {Head(q)}
  <2>1. \A i \in 1 .. Len(q) : i = 1 \/ (i - 1 \in DOMAIN Tail(q) /\ q[i] = Tail(q)[i - 1])
    BY <1>1, <1>2
  <2>2. \A i \in 1 .. Len(q) : q[i] \in Range(Tail(q)) \cup {Head(q)}
    BY <1>2, <2>1 DEF Range
  <2>3. Range(Tail(q)) \cup {Head(q)} \subseteq Range(q)
    BY <1>1, <1>2 DEF Range
  <2> QED
    BY <1>2, <2>2, <2>3 DEF Range
<1>4. IsInjective(q) => IsInjective(Tail(q)) /\ Head(q) \notin Range(Tail(q))
  BY <1>1, <1>2 DEF Range, IsInjective
<1> QED
  BY <1>1, <1>3, <1>4
-----------------------------------------------------------------------------
(* The inductive invariant.                                                *)

\* The jobs that the pool holds, in the terms of the lemmas above.
LEMMA QueuedIsRange == Queued = Range(queue)
  BY DEF Queued, Range

\* Pending jobs are jobs.
LEMMA PendingJobs == TypeOK => Pending \subseteq Jobs
<1> SUFFICES ASSUME TypeOK PROVE Queued \subseteq Jobs /\ Current \subseteq Jobs
  BY DEF Pending
<1>1. Queued \subseteq Jobs
  BY LenProperties DEF TypeOK, Queued
<1>2. Current \subseteq Jobs
  BY DEF TypeOK, Current
<1> QED
  BY <1>1, <1>2

\* Nothing has been submitted yet.
LEMMA PoolInit == Init => PoolInv
<1> SUFFICES ASSUME Init PROVE PoolInv
  OBVIOUS
<1> USE PoolAssumption DEF Init
<1>1. TypeOK
  BY DEF TypeOK, Active
<1>2. WorkerInv /\ LeaseInv
  BY DEF WorkerInv, LeaseInv
<1>3. JobInv
  BY DEF JobInv, IsInjective, Queued, Current, Pending
<1>4. ExecInv /\ OutputInv /\ MixInv
  BY DEF ExecInv, Execution, Active, OutputInv, OutputIsEarned, MixInv
<1> QED
  BY <1>1, <1>2, <1>3, <1>4 DEF PoolInv

\* A step that leaves the jobs where they are and the programs to themselves.
LEMMA Elsewhere ==
  ASSUME PoolInv, TypeOK', lease' = lease,
         UNCHANGED <<jobVars, workerVars, execVars, prog, loaded>>,
         \A c \in ContainerIds : file'[c] \in {file[c], NoJob},
         \A j \in Jobs : watch'[j] = watch[j] \/ watch[j] # "off"
  PROVE  PoolInv'
<1> USE DEF PoolInv, jobVars, workerVars, execVars
<1>1. WorkerInv' /\ LeaseInv' /\ OutputInv'
  BY DEF WorkerInv, LeaseInv, OutputInv, OutputIsEarned
<1>2. JobInv'
  BY DEF JobInv, Queued, Current, Pending
<1>3. ExecInv'
  BY DEF ExecInv, Execution, Failed, Waited
<1>4. MixInv'
  BY PoolAssumption DEF MixInv, ExecInv, Execution, Failed, TypeOK
<1> QED
  BY <1>1, <1>2, <1>3, <1>4

\* The type of a removal's effect on the containers and their programs.
LEMMA KillType ==
  ASSUME TypeOK, NEW c, Kill(c)
  PROVE  /\ alive' \in SUBSET ContainerIds
         /\ prog' \in [Jobs -> Active \cup {"none", "ok", "bad"}]
  BY DEF TypeOK, Kill

\* A container that is taken away ends programs, and changes no one's fate.
LEMMA KillKeeps ==
  ASSUME PoolInv, TypeOK', NEW c, Kill(c),
         UNCHANGED <<lease, jobVars, workerVars, execVars, watch, file, loaded>>
  PROVE  PoolInv'
<1> USE DEF PoolInv, jobVars, workerVars, execVars
<1>1. \A j \in Jobs : prog'[j] = prog[j] \/ (prog[j] \in Active /\ prog'[j] = "bad")
  BY DEF Kill, Inside, TypeOK
<1>2. WorkerInv' /\ LeaseInv'
  BY DEF WorkerInv, LeaseInv
<1>3. JobInv'
  BY DEF JobInv, Queued, Current, Pending
<1>4. ExecInv'
  BY <1>1 DEF ExecInv, Execution, Failed, Waited, Active
<1>5. OutputInv'
  <2>1. ASSUME NEW w \in Workers, out[w] = "output" PROVE cur[w] \in Jobs
    BY <2>1 DEF WorkerInv, TypeOK
  <2> QED
    BY <1>1, <2>1 DEF OutputInv, OutputIsEarned, Active
<1>6. MixInv'
  BY <1>1 DEF MixInv, Failed
<1> QED
  BY <1>2, <1>3, <1>4, <1>5, <1>6

\* Every step keeps the types.
LEMMA TypeStep == PoolInv /\ [Next]_vars => TypeOK'
<1> SUFFICES ASSUME PoolInv, [Next]_vars PROVE TypeOK'
  OBVIOUS
<1> USE PoolAssumption
    DEF PoolInv, TypeOK, Active, poolVars, jobVars, workerVars, execVars, progVars,
        Manager!Acquire, Manager!Release, Manager!Register, Manager!Unregister
<1>1. ASSUME NEW j \in Jobs, Submit(j) PROVE TypeOK'
  <2>1. CASE Len(queue) < MaxJobCount
    <3>1. /\ queue' = Append(queue, j) /\ answer' = answer
          /\ UNCHANGED <<poolVars, workerVars, execVars, watch, rem, progVars>>
      BY <1>1, <2>1 DEF Submit
    <3>2. queue' \in Seq(Jobs) /\ Len(queue') = Len(queue) + 1 /\ Len(queue) \in Nat
      BY <3>1, SendJob, LenProperties
    <3> QED
      BY <2>1, <3>1, <3>2
  <2>2. CASE ~(Len(queue) < MaxJobCount)
    BY <1>1, <2>2 DEF Submit
  <2> QED
    BY <2>1, <2>2
<1>2. ASSUME NEW w \in Workers, Receive(w) PROVE TypeOK'
  BY <1>2, ReceiveJob DEF Receive
<1>3. ASSUME NEW w \in Workers, GetAvailableContainer(w) PROVE TypeOK'
  <2>1. PICK c \in ContainerIds :
          lease' = [lease EXCEPT ![w] = c] /\ pool' = pool /\ box' = [box EXCEPT ![cur[w]] = c]
    BY <1>3 DEF GetAvailableContainer
  <2> QED
    BY <1>3, <2>1 DEF GetAvailableContainer
<1>4. ASSUME NEW w \in Workers, NoneAvailable(w) PROVE TypeOK'
  BY <1>4 DEF NoneAvailable
<1>5. ASSUME NEW w \in Workers, UnsupportedLanguage(w) PROVE TypeOK'
  BY <1>5 DEF UnsupportedLanguage
<1>6. ASSUME NEW w \in Workers, StartExec(w) PROVE TypeOK'
  BY <1>6 DEF StartExec
<1>7. ASSUME NEW w \in Workers, CmdReturns(w) PROVE TypeOK'
  <2>1. PICK result \in {"output", "failed"} : out' = [out EXCEPT ![w] = result]
    BY <1>7 DEF CmdReturns
  <2>2. out' \in [Workers -> {"none", "failed", "output"}]
    BY <2>1
  <2> QED
    BY <1>7, <2>2 DEF CmdReturns
<1>8. ASSUME NEW w \in Workers, Release(w) PROVE TypeOK'
  BY <1>8 DEF Release
<1>9. ASSUME NEW w \in Workers, Reply(w) PROVE TypeOK'
  BY <1>9 DEF Reply
<1>10. ASSUME NEW j \in Jobs, Timeout(j) PROVE TypeOK'
  BY <1>10 DEF Timeout
<1>11. ASSUME NEW j \in Jobs, ProgramStep(j) PROVE TypeOK'
  <2>1. CASE Store(j)
    BY <2>1 DEF Store
  <2>2. CASE Load(j)
    <3>1. loaded' \in [Jobs -> Jobs \cup {NoJob}]
      BY <2>2, box[j] \in ContainerIds DEF Load, ExecInv, Execution
    <3> QED
      BY <2>2, <3>1 DEF Load
  <2>3. CASE End(j)
    BY <2>3 DEF End
  <2> QED
    BY <1>11, <2>1, <2>2, <2>3 DEF ProgramStep
<1>12. ASSUME NEW j \in Jobs, WatchStep(j) PROVE TypeOK'
  <2>1. CASE WatchDone(j)
    BY <2>1 DEF WatchDone
  <2>2. CASE Outsurge(j)
    BY <2>2 DEF Outsurge
  <2>3. CASE WatchCancel(j)
    BY <2>3 DEF WatchCancel
  <2> QED
    BY <1>12, <2>1, <2>2, <2>3 DEF WatchStep
<1>13. ASSUME NEW j \in Jobs, RemoveBox(j) PROVE TypeOK'
  BY <1>13, KillType DEF RemoveBox
<1>14. ASSUME NEW j \in Jobs, DeleteBox(j) PROVE TypeOK'
  BY <1>14 DEF DeleteBox
<1>15. ASSUME MonitorStep PROVE TypeOK'
  BY <1>15 DEF MonitorStep, DropVanished, Refill
<1>16. ASSUME UNCHANGED vars PROVE TypeOK'
  BY <1>16 DEF vars
<1> QED
  BY <1>1, <1>2, <1>3, <1>4, <1>5, <1>6, <1>7, <1>8, <1>9, <1>10, <1>11, <1>12,
     <1>13, <1>14, <1>15, <1>16
  DEF Next, WorkerStep, RemoveStep

\* A worker that has a job: the job is its own, unanswered, and not begun before
\* the worker begins it.
LEMMA AtWork ==
  ASSUME PoolInv, NEW w \in Workers, wpc[w] # "select"
  PROVE  /\ cur[w] \in Jobs /\ answer[cur[w]] = "none"
         /\ \A v \in Workers : cur[v] = cur[w] => v = w
         /\ wpc[w] \in {"get", "start"} => ctx[cur[w]] = "none" /\ prog[cur[w]] = "none"
<1> USE DEF PoolInv
<1>1. cur[w] \in Jobs /\ cur[w] # NoJob
  BY DEF WorkerInv, TypeOK
<1>2. answer[cur[w]] = "none"
  BY <1>1 DEF JobInv, Pending, Current
<1>3. \A v \in Workers : cur[v] = cur[w] => v = w
  BY <1>1 DEF JobInv
<1>4. ASSUME wpc[w] \in {"get", "start"}
      PROVE  ctx[cur[w]] = "none" /\ prog[cur[w]] = "none"
  BY <1>1, <1>2, <1>3, <1>4 DEF ExecInv, Execution
<1> QED
  BY <1>1, <1>2, <1>3, <1>4

\* Failures, and what they excuse, last as long as no answer is taken back.
LEMMA FailureLasts ==
  ASSUME PoolInv, NEW w \in Workers,
         cur' = cur, answer' = answer,
         \A v \in Workers : out'[v] = out[v] \/ (v = w /\ out[w] = "none")
  PROVE  \A j \in Jobs : Failed(j) => Failed(j)'
  BY DEF Failed

\* ExecuteJob adds a job that no one has, or answers it.
LEMMA SubmitKeeps ==
  ASSUME PoolInv, TypeOK', NEW j \in Jobs, Submit(j)
  PROVE  PoolInv'
<1> USE DEF PoolInv
<1>1. UNCHANGED <<poolVars, workerVars, execVars, watch, rem, progVars>>
  BY DEF Submit
<1>2. /\ answer' = answer \/ answer' = [answer EXCEPT ![j] = "full"]
      /\ answer[j] = "none" /\ j \notin Queued /\ j \notin Current
  BY DEF Submit, Pending
<1>3. \A k \in Jobs : answer'[k] = answer[k] \/ (k = j /\ answer'[k] = "full")
  BY <1>2 DEF TypeOK
<1>4. WorkerInv' /\ LeaseInv'
  BY <1>1 DEF WorkerInv, LeaseInv, poolVars, workerVars, execVars
<1>5. JobInv'
  <2>1. Current' = Current
    BY <1>1 DEF Current, workerVars
  <2>2. /\ IsInjective(queue')
        /\ queue' = queue \/ (Queued' = Queued \cup {j} /\ answer' = answer)
        /\ queue' = queue => Queued' = Queued
    <3>1. CASE Len(queue) < MaxJobCount
      <4>1. queue' = Append(queue, j) /\ answer' = answer
        BY <3>1 DEF Submit
      <4>2. queue \in Seq(Jobs) /\ IsInjective(queue) /\ j \notin Range(queue)
        BY <1>2, QueuedIsRange DEF TypeOK, JobInv
      <4>3. IsInjective(queue') /\ Range(queue') = Range(queue) \cup {j}
        BY <4>1, <4>2, SendJob
      <4>4. Queued' = Range(queue')
        BY DEF Queued, Range
      <4> QED
        BY <4>1, <4>3, <4>4, QueuedIsRange
    <3>2. CASE ~(Len(queue) < MaxJobCount)
      BY <3>2 DEF Submit, JobInv, Queued
    <3> QED
      BY <3>1, <3>2
  <2>3. Queued' \cap Current' = {}
    BY <1>2, <2>1, <2>2 DEF JobInv
  <2>4. \A k \in Pending' : answer'[k] = "none"
    <3>1. CASE queue' = queue
      <4>1. Pending' = Pending /\ j \notin Pending
        BY <1>2, <2>1, <2>2, <3>1 DEF Pending
      <4> QED
        BY <1>3, <4>1, PendingJobs DEF JobInv
    <3>2. CASE Queued' = Queued \cup {j} /\ answer' = answer
      BY <1>2, <2>1, <3>2 DEF JobInv, Pending
    <3> QED
      BY <2>2, <3>1, <3>2
  <2> QED
    BY <1>1, <2>2, <2>3, <2>4 DEF JobInv, workerVars
<1>6. \A k \in Jobs : Failed(k) => Failed(k)'
  BY <1>1, <1>2, <1>3 DEF Failed, workerVars
<1>7. ExecInv'
  BY <1>1, <1>3, <1>6 DEF ExecInv, Execution, Waited, workerVars, execVars, progVars
<1>8. OutputInv'
  BY <1>1, <1>3 DEF OutputInv, OutputIsEarned, workerVars, progVars
<1>9. MixInv'
  BY <1>1, <1>6 DEF MixInv, execVars, progVars
<1> QED
  BY <1>4, <1>5, <1>7, <1>8, <1>9

\* A worker takes the job at the head of the channel; it stays pending.
LEMMA ReceiveKeeps ==
  ASSUME PoolInv, TypeOK', NEW w \in Workers, Receive(w)
  PROVE  PoolInv' /\ Pending' = Pending
<1> USE DEF PoolInv
<1>1. /\ UNCHANGED <<poolVars, answer, out, execVars, watch, rem, progVars>>
      /\ wpc[w] = "select" /\ cur[w] = NoJob /\ out[w] = "none" /\ lease[w] = NoContainer
  BY DEF Receive, WorkerInv, TypeOK
<1>2. /\ queue \in Seq(Jobs) /\ queue # <<>>
      /\ queue' = Tail(queue) /\ cur' = [cur EXCEPT ![w] = Head(queue)]
      /\ wpc' = [wpc EXCEPT ![w] = "get"]
  BY DEF Receive, TypeOK
<1> DEFINE h == Head(queue)
<1>3. /\ h \in Jobs
      /\ Queued = Queued' \cup {h} /\ IsInjective(queue') /\ h \notin Queued'
  <2>1. IsInjective(queue)
    BY DEF JobInv
  <2>2. Queued' = Range(queue')
    BY DEF Queued, Range
  <2> QED
    BY <1>2, <2>1, <2>2, ReceiveJob, QueuedIsRange
<1> HIDE DEF h
<1>4. /\ \A v \in Workers : v # w => cur'[v] = cur[v] /\ wpc'[v] = wpc[v]
      /\ cur'[w] = h /\ wpc'[w] = "get"
  BY <1>2 DEF TypeOK, h
<1>5. WorkerInv' /\ LeaseInv'
  BY <1>1, <1>3, <1>4, PoolAssumption DEF WorkerInv, LeaseInv, poolVars, execVars
<1>6. JobInv' /\ Pending' = Pending
  <2>1. Current' = Current \cup {h}
    BY <1>1, <1>3, <1>4, PoolAssumption DEF Current
  <2>2. h \notin Current
    BY <1>3 DEF JobInv
  <2>3. \A v \in Workers : cur[v] # h
    BY <1>3, <2>2, PoolAssumption DEF Current
  <2>4. Pending' = Pending
    BY <1>3, <2>1 DEF Pending
  <2> QED
    BY <1>1, <1>3, <1>4, <2>1, <2>2, <2>3, <2>4 DEF JobInv
<1>7. \A k \in Jobs : Failed(k) => Failed(k)'
  BY <1>1, <1>4 DEF Failed
<1>8. \A k \in Jobs : Waited(k) => Waited(k)'
  BY <1>1, <1>4 DEF Waited
<1>9. ExecInv'
  BY <1>1, <1>4, <1>7, <1>8 DEF ExecInv, Execution, execVars, progVars
<1>10. OutputInv'
  BY <1>1, <1>4 DEF OutputInv, OutputIsEarned, progVars
<1>11. MixInv'
  BY <1>1, <1>7 DEF MixInv, execVars, progVars
<1> QED
  BY <1>5, <1>6, <1>9, <1>10, <1>11

\* A worker gets a container that no other worker holds.
LEMMA AcquireKeeps ==
  ASSUME PoolInv, TypeOK', NEW w \in Workers, GetAvailableContainer(w)
  PROVE  PoolInv'
<1> USE DEF PoolInv
<1>1. PICK c \in ContainerIds : Manager!Acquire(w, c) /\ box' = [box EXCEPT ![cur[w]] = c]
  BY DEF GetAvailableContainer
<1>2. /\ lease' = [lease EXCEPT ![w] = c] /\ c # NoContainer
      /\ \A v \in Workers : lease[v] # c
  BY <1>1, PoolAssumption DEF Manager!Acquire, Manager!Leased
<1>3. /\ wpc[w] = "get" /\ wpc' = [wpc EXCEPT ![w] = "start"]
      /\ UNCHANGED <<alive, jobVars, cur, out, ctx, watch, rem, progVars>>
  BY DEF GetAvailableContainer
<1>4. /\ cur[w] \in Jobs /\ ctx[cur[w]] = "none" /\ prog[cur[w]] = "none"
      /\ \A v \in Workers : cur[v] = cur[w] => v = w
  BY <1>3, AtWork
<1>5. /\ \A v \in Workers : v # w => lease'[v] = lease[v] /\ wpc'[v] = wpc[v]
      /\ lease'[w] = c /\ wpc'[w] = "start"
      /\ \A k \in Jobs : k # cur[w] => box'[k] = box[k]
      /\ box'[cur[w]] = c
  BY <1>1, <1>2, <1>3, <1>4 DEF TypeOK
<1>6. WorkerInv'
  <2>1. ASSUME NEW v \in Workers, v # w, lease[v] # NoContainer
        PROVE  cur[v] \in Jobs /\ cur[v] # cur[w]
    <3>1. wpc[v] # "select"
      BY <2>1 DEF WorkerInv
    <3> QED
      BY <1>4, <2>1, <3>1, AtWork
  <2> QED
    BY <1>2, <1>3, <1>4, <1>5, <2>1, PoolAssumption DEF WorkerInv
<1>7. LeaseInv'
  BY <1>2, <1>5 DEF LeaseInv
<1>8. JobInv'
  BY <1>3 DEF JobInv, Pending, Queued, Current, jobVars
<1>9. \A k \in Jobs : Waited(k) => Waited(k)'
  BY <1>3, <1>5 DEF Waited
<1>10. \A k \in Jobs : Failed(k) => Failed(k)'
  BY <1>3 DEF Failed, jobVars
<1>11. ExecInv'
  <2>1. \A v \in Workers : wpc[v] \in {"exec", "release", "reply"} => wpc'[v] = wpc[v]
    BY <1>3, <1>5
  <2>2. \A k \in Jobs : prog[k] # "none" => box'[k] = box[k]
    BY <1>4, <1>5
  <2> QED
    BY <1>3, <1>9, <1>10, <2>1, <2>2 DEF ExecInv, Execution, jobVars, progVars
<1>12. OutputInv'
  BY <1>3 DEF OutputInv, OutputIsEarned, jobVars, progVars
<1>13. MixInv'
  <2>1. \A k \in Jobs : prog[k] = "ready" => box'[k] = box[k]
    BY <1>4, <1>5
  <2> QED
    BY <1>3, <1>10, <2>1 DEF MixInv, progVars
<1> QED
  BY <1>6, <1>7, <1>8, <1>11, <1>12, <1>13

\* A worker answers its job, with a failure if that is what it has found, and
\* with a success only if it is one.
LEMMA AnswerKeeps ==
  ASSUME PoolInv, TypeOK', NEW w \in Workers,
         NEW a \in {"refused", "failed", "output"}, wpc[w] \in {"get", "reply"},
         out[w] = "failed" => a = "failed", a = "output" => out[w] = "output",
         answer' = [answer EXCEPT ![cur[w]] = a],
         cur' = [cur EXCEPT ![w] = NoJob],
         wpc' = [wpc EXCEPT ![w] = "select"],
         out' = [out EXCEPT ![w] = "none"],
         UNCHANGED <<poolVars, queue, execVars, watch, rem, progVars>>
  PROVE  PoolInv' /\ Pending' = Pending \ {cur[w]} /\ cur[w] \in Pending
<1> USE DEF PoolInv
<1> DEFINE j == cur[w]
<1>1. /\ j \in Jobs /\ answer[j] = "none"
      /\ \A v \in Workers : cur[v] = j => v = w
  BY AtWork
<1> HIDE DEF j
<1>2. /\ \A v \in Workers : v # w => /\ cur'[v] = cur[v] /\ wpc'[v] = wpc[v]
                                     /\ out'[v] = out[v]
      /\ cur'[w] = NoJob /\ wpc'[w] = "select" /\ out'[w] = "none"
      /\ \A k \in Jobs : k # j => answer'[k] = answer[k]
      /\ answer'[j] = a
  BY <1>1 DEF TypeOK, j
<1>3. WorkerInv' /\ LeaseInv'
  BY <1>2 DEF WorkerInv, LeaseInv, poolVars, execVars
<1>4. JobInv' /\ Pending' = Pending \ {j} /\ j \in Pending
  <2>1. Current' = Current \ {j} /\ j \in Current
    BY <1>1, <1>2, PoolAssumption DEF Current, j
  <2>2. Queued' = Queued /\ j \notin Queued
    BY <2>1 DEF Queued, JobInv
  <2>3. Pending' = Pending \ {j} /\ j \in Pending
    BY <2>1, <2>2 DEF Pending
  <2>4. \A k \in Pending' : answer'[k] = "none"
    BY <1>2, <2>3, PendingJobs DEF JobInv
  <2> QED
    BY <1>2, <2>1, <2>2, <2>3, <2>4 DEF JobInv
<1>5. \A k \in Jobs : Failed(k) => Failed(k)'
  BY <1>1, <1>2 DEF Failed, j
<1>6. \A k \in Jobs : Waited(k) => Waited(k)'
  BY <1>2 DEF Waited
<1>7. ExecInv'
  <2>1. \A k \in Jobs :
          (\E v \in Workers : cur[v] = k /\ wpc[v] \in {"exec", "release", "reply"})
            => \/ answer'[k] # "none"
               \/ \E v \in Workers : cur'[v] = k /\ wpc'[v] \in {"exec", "release", "reply"}
    BY <1>2 DEF j
  <2>2. \A k \in Jobs : answer[k] # "none" => answer'[k] # "none"
    BY <1>1, <1>2
  <2> QED
    BY <1>5, <1>6, <2>1, <2>2 DEF ExecInv, Execution, execVars, progVars
<1>8. OutputInv'
  BY <1>2 DEF OutputInv, OutputIsEarned, progVars, j
<1>9. MixInv'
  BY <1>5 DEF MixInv, execVars, progVars
<1> QED
  BY <1>3, <1>4, <1>7, <1>8, <1>9 DEF j

\* Both ways to answer a job.
LEMMA Answered ==
  ASSUME PoolInv, TypeOK', NEW w \in Workers, NoneAvailable(w) \/ Reply(w)
  PROVE  /\ PoolInv' /\ Pending' = Pending \ {cur[w]} /\ cur[w] \in Pending
         /\ \E a \in {"refused", "failed", "output"} : answer' = [answer EXCEPT ![cur[w]] = a]
<1>1. CASE NoneAvailable(w)
  <2>1. wpc[w] = "get" /\ out[w] = "none" /\ out' = [out EXCEPT ![w] = "none"]
    BY <1>1 DEF NoneAvailable, PoolInv, WorkerInv, TypeOK
  <2>2. /\ answer' = [answer EXCEPT ![cur[w]] = "refused"]
        /\ cur' = [cur EXCEPT ![w] = NoJob]
        /\ wpc' = [wpc EXCEPT ![w] = "select"]
        /\ UNCHANGED <<poolVars, queue, execVars, watch, rem, progVars>>
    BY <1>1 DEF NoneAvailable
  <2>3. PoolInv' /\ Pending' = Pending \ {cur[w]} /\ cur[w] \in Pending
    BY <2>1, <2>2, AnswerKeeps
  <2> QED
    BY <2>2, <2>3
<1>2. CASE Reply(w)
  <2>1. wpc[w] = "reply" /\ out[w] \in {"failed", "output"}
    BY <1>2 DEF Reply, PoolInv, WorkerInv, TypeOK
  <2>2. /\ answer' = [answer EXCEPT ![cur[w]] = out[w]]
        /\ cur' = [cur EXCEPT ![w] = NoJob]
        /\ out' = [out EXCEPT ![w] = "none"]
        /\ wpc' = [wpc EXCEPT ![w] = "select"]
        /\ UNCHANGED <<poolVars, queue, execVars, watch, rem, progVars>>
    BY <1>2 DEF Reply
  <2> QED
    BY <2>1, <2>2, AnswerKeeps
<1> QED
  BY <1>1, <1>2

\* executeCode gives up before anything runs.
LEMMA UnsupportedKeeps ==
  ASSUME PoolInv, TypeOK', NEW w \in Workers, UnsupportedLanguage(w)
  PROVE  PoolInv'
<1> USE DEF PoolInv
<1>1. /\ wpc[w] = "start" /\ out[w] = "none"
      /\ UNCHANGED <<poolVars, jobVars, cur, execVars, watch, rem, progVars>>
  BY DEF UnsupportedLanguage, WorkerInv
<1>2. /\ \A v \in Workers : v # w => wpc'[v] = wpc[v] /\ out'[v] = out[v]
      /\ wpc'[w] = "release" /\ out'[w] = "failed"
  BY DEF UnsupportedLanguage, TypeOK
<1>3. WorkerInv' /\ LeaseInv'
  BY <1>1, <1>2 DEF WorkerInv, LeaseInv, poolVars, execVars
<1>4. JobInv'
  BY <1>1 DEF JobInv, Pending, Queued, Current, jobVars
<1>5. \A k \in Jobs : (Failed(k) => Failed(k)') /\ (Waited(k) => Waited(k)')
  BY <1>1, <1>2 DEF Failed, Waited, jobVars
<1>6. ExecInv'
  <2>1. \A v \in Workers :
          wpc[v] \in {"exec", "release", "reply"} => wpc'[v] = wpc[v]
    BY <1>1, <1>2
  <2> QED
    BY <1>1, <1>5, <2>1 DEF ExecInv, Execution, execVars, progVars, jobVars
<1>7. OutputInv'
  BY <1>1, <1>2 DEF OutputInv, OutputIsEarned, progVars, jobVars
<1>8. MixInv'
  BY <1>1, <1>5 DEF MixInv, execVars, progVars
<1> QED
  BY <1>3, <1>4, <1>6, <1>7, <1>8

\* A program begins in the container its worker holds.
LEMMA StartKeeps ==
  ASSUME PoolInv, TypeOK', NEW w \in Workers, StartExec(w)
  PROVE  PoolInv'
<1> USE DEF PoolInv
<1>0. PICK j \in Jobs : j = cur[w]
  BY AtWork DEF StartExec
<1>1. /\ wpc[w] = "start" /\ wpc' = [wpc EXCEPT ![w] = "exec"]
      /\ UNCHANGED <<poolVars, jobVars, cur, out, box, rem, file, loaded>>
      /\ ctx' = [ctx EXCEPT ![j] = "open"] /\ watch' = [watch EXCEPT ![j] = "wait"]
  BY <1>0 DEF StartExec
<1>2. PICK s \in {"bad", "store", "run"} : prog' = [prog EXCEPT ![j] = s]
  BY <1>0 DEF StartExec
<1>3. /\ j \in Jobs /\ answer[j] = "none" /\ ctx[j] = "none" /\ prog[j] = "none"
      /\ \A v \in Workers : cur[v] = j => v = w
      /\ out[w] = "none" /\ box[j] \in ContainerIds
  <2>1. out[w] = "none" /\ lease[w] # NoContainer /\ lease[w] = box[j]
    BY <1>0, <1>1 DEF WorkerInv
  <2>2. box[j] \in ContainerIds
    BY <2>1 DEF TypeOK
  <2> QED
    BY <1>0, <1>1, <2>1, <2>2, AtWork
<1>4. /\ \A v \in Workers : v # w => wpc'[v] = wpc[v]
      /\ wpc'[w] = "exec"
      /\ \A k \in Jobs : k # j => /\ ctx'[k] = ctx[k] /\ watch'[k] = watch[k]
                                  /\ prog'[k] = prog[k]
      /\ ctx'[j] = "open" /\ prog'[j] = s
  BY <1>0, <1>1, <1>2, <1>3 DEF TypeOK
<1>5. WorkerInv' /\ LeaseInv'
  BY <1>1, <1>4 DEF WorkerInv, LeaseInv, poolVars
<1>6. JobInv'
  BY <1>1 DEF JobInv, Pending, Queued, Current, jobVars
<1>7. /\ \A k \in Jobs : (Failed(k) => Failed(k)') /\ (Waited(k) => Waited(k)')
      /\ Waited(j)'
  BY <1>0, <1>1, <1>4 DEF Failed, Waited, jobVars
<1>8. ExecInv'
  <2>1. \A v \in Workers :
          wpc[v] \in {"exec", "release", "reply"} => wpc'[v] = wpc[v]
    BY <1>1, <1>4
  <2>2. ASSUME NEW k \in Jobs, k # j PROVE Execution(k)'
    BY <1>1, <1>4, <1>7, <2>1, <2>2 DEF ExecInv, Execution, jobVars
  <2>3. Execution(j)'
    BY <1>1, <1>3, <1>4, <1>7 DEF ExecInv, Execution, Waited
  <2> QED
    BY <2>2, <2>3 DEF ExecInv
<1>9. OutputInv'
  <2>1. ASSUME NEW v \in Workers, out[v] = "output"
        PROVE  cur[v] \in Jobs \ {j}
    <3>1. wpc[v] # "select" /\ v # w
      BY <1>3, <2>1 DEF WorkerInv
    <3> QED
      BY <1>3, <3>1, AtWork
  <2> QED
    BY <1>1, <1>3, <1>4, <2>1 DEF OutputInv, OutputIsEarned, jobVars
<1>10. MixInv'
  BY <1>1, <1>4, <1>7 DEF MixInv
<1> QED
  BY <1>5, <1>6, <1>8, <1>9, <1>10

\* cmd.Run returns: the execution has a result, and nobody waits for it now.
LEMMA CmdReturnsKeeps ==
  ASSUME PoolInv, TypeOK', NEW w \in Workers, CmdReturns(w)
  PROVE  PoolInv'
<1> USE DEF PoolInv
<1>1. PICK j \in Jobs : j = cur[w]
  BY AtWork DEF CmdReturns
<1>2. PICK result \in {"output", "failed"} :
        /\ result = "output" => prog[j] = "ok"
        /\ result = "failed" => prog[j] = "bad" \/ ctx[j] = "done"
        /\ out' = [out EXCEPT ![w] = result]
  BY <1>1 DEF CmdReturns
<1>3. /\ wpc[w] = "exec" /\ out[w] = "none"
      /\ ctx' = [ctx EXCEPT ![j] = "done"] /\ wpc' = [wpc EXCEPT ![w] = "release"]
      /\ UNCHANGED <<poolVars, jobVars, cur, box, watch, rem, progVars>>
  BY <1>1 DEF CmdReturns, WorkerInv
<1>4. \A v \in Workers : cur[v] = j => v = w
  BY <1>1, <1>3, AtWork
<1>5. /\ \A v \in Workers : v # w => wpc'[v] = wpc[v] /\ out'[v] = out[v]
      /\ wpc'[w] = "release" /\ out'[w] = result
      /\ \A k \in Jobs : k # j => ctx'[k] = ctx[k]
      /\ ctx'[j] = "done"
  BY <1>2, <1>3 DEF TypeOK
<1>6. WorkerInv' /\ LeaseInv'
  BY <1>3, <1>5 DEF WorkerInv, LeaseInv, poolVars
<1>7. JobInv'
  BY <1>3 DEF JobInv, Pending, Queued, Current, jobVars
<1>8. /\ \A k \in Jobs : Failed(k) => Failed(k)'
      /\ \A k \in Jobs : k # j /\ Waited(k) => Waited(k)'
      /\ prog[j] \in Active => Failed(j)'
  BY <1>1, <1>2, <1>3, <1>5 DEF Failed, Waited, jobVars, Active
<1>9. ExecInv'
  <2>1. ASSUME NEW k \in Jobs, k # j PROVE Execution(k)'
    BY <1>1, <1>3, <1>5, <1>8, <2>1 DEF ExecInv, Execution, jobVars, progVars
  <2>2. ctx[j] # "none" /\ prog[j] # "none"
    BY <1>2 DEF ExecInv, Execution
  <2>3. Execution(j)'
    BY <1>1, <1>3, <1>5, <1>8, <2>2 DEF ExecInv, Execution, progVars
  <2> QED
    BY <2>1, <2>3 DEF ExecInv
<1>10. OutputInv'
  BY <1>1, <1>2, <1>3, <1>5 DEF OutputInv, OutputIsEarned, jobVars, progVars
<1>11. MixInv'
  BY <1>3, <1>8 DEF MixInv, progVars
<1> QED
  BY <1>6, <1>7, <1>9, <1>10, <1>11

\* The container goes back to the pool, if it is still there.
LEMMA ReleaseKeeps ==
  ASSUME PoolInv, TypeOK', NEW w \in Workers, Release(w)
  PROVE  PoolInv'
<1> USE DEF PoolInv
<1>1. /\ wpc[w] = "release"
      /\ UNCHANGED <<alive, jobVars, cur, out, execVars, watch, rem, progVars>>
      /\ lease' = [lease EXCEPT ![w] = NoContainer] /\ wpc' = [wpc EXCEPT ![w] = "reply"]
  BY DEF Release, Manager!Release
<1>2. /\ \A v \in Workers : v # w => wpc'[v] = wpc[v] /\ lease'[v] = lease[v]
      /\ wpc'[w] = "reply" /\ lease'[w] = NoContainer
  BY <1>1 DEF TypeOK
<1>3. WorkerInv' /\ LeaseInv'
  BY <1>1, <1>2 DEF WorkerInv, LeaseInv, execVars
<1>4. JobInv'
  BY <1>1 DEF JobInv, Pending, Queued, Current, jobVars
<1>5. \A k \in Jobs : (Failed(k) => Failed(k)') /\ (Waited(k) => Waited(k)')
  BY <1>1, <1>2 DEF Failed, Waited, jobVars
<1>6. ExecInv'
  <2>1. \A v \in Workers : wpc[v] \in {"exec", "release", "reply"}
                             => wpc'[v] \in {"exec", "release", "reply"}
    BY <1>1, <1>2
  <2> QED
    BY <1>1, <1>5, <2>1 DEF ExecInv, Execution, execVars, progVars, jobVars
<1>7. OutputInv'
  BY <1>1 DEF OutputInv, OutputIsEarned, progVars, jobVars
<1>8. MixInv'
  BY <1>1, <1>5 DEF MixInv, execVars, progVars
<1> QED
  BY <1>3, <1>4, <1>6, <1>7, <1>8

\* A context that is, or has been, open is done.
LEMMA ContextEnds ==
  ASSUME PoolInv, TypeOK', NEW j \in Jobs, ctx[j] # "none",
         ctx' = [ctx EXCEPT ![j] = "done"],
         \A k \in Jobs : watch'[k] = watch[k] \/ watch[k] # "off",
         UNCHANGED <<poolVars, jobVars, workerVars, box, rem, progVars>>
  PROVE  PoolInv'
<1> USE DEF PoolInv, poolVars, jobVars, workerVars, progVars
<1>1. \A k \in Jobs : ctx'[k] = ctx[k] \/ (ctx[k] # "none" /\ ctx'[k] = "done")
  BY DEF TypeOK
<1>2. WorkerInv' /\ LeaseInv' /\ OutputInv'
  BY DEF WorkerInv, LeaseInv, OutputInv, OutputIsEarned
<1>3. JobInv'
  BY DEF JobInv, Queued, Current, Pending
<1>4. ExecInv'
  BY <1>1 DEF ExecInv, Execution, Failed, Waited
<1>5. MixInv'
  BY DEF MixInv, Failed
<1> QED
  BY <1>2, <1>3, <1>4, <1>5

\* At most one program of those in a container is waited for.
LEMMA OneWaited ==
  ASSUME PoolInv, NEW j \in Jobs, NEW k \in Jobs, j # k, box[j] = box[k]
  PROVE  ~(Waited(j) /\ Waited(k))
<1> SUFFICES ASSUME Waited(j), Waited(k) PROVE FALSE
  OBVIOUS
<1>1. PICK v \in Workers : cur[v] = j /\ wpc[v] = "exec"
  BY DEF Waited
<1>2. PICK w \in Workers : cur[w] = k /\ wpc[w] = "exec"
  BY DEF Waited
<1>3. lease[v] = box[j] /\ lease[w] = box[k] /\ lease[v] # NoContainer
  BY <1>1, <1>2 DEF PoolInv, WorkerInv
<1> QED
  BY <1>1, <1>2, <1>3 DEF PoolInv, LeaseInv

\* A program writes its file, runs what it finds there, and ends.
LEMMA ProgramKeeps ==
  ASSUME PoolInv, TypeOK', NEW j \in Jobs, ProgramStep(j)
  PROVE  PoolInv'
<1> USE DEF PoolInv, poolVars, jobVars, workerVars, execVars
<1>1. /\ UNCHANGED <<poolVars, jobVars, workerVars, execVars, watch, rem>>
      /\ prog[j] \in Active
      /\ \A k \in Jobs : k # j => prog'[k] = prog[k]
      /\ prog'[j] \in {"ready", "run", "ok", "bad"}
  BY DEF ProgramStep, Store, Load, End, TypeOK, Active
<1>2. WorkerInv' /\ LeaseInv'
  BY <1>1 DEF WorkerInv, LeaseInv
<1>3. JobInv'
  BY <1>1 DEF JobInv, Queued, Current, Pending
<1>4. \A k \in Jobs : (Failed(k) <=> Failed(k)') /\ (Waited(k) <=> Waited(k)')
  BY <1>1 DEF Failed, Waited
<1>5. ExecInv'
  BY <1>1, <1>4 DEF ExecInv, Execution, Active
<1>6. OutputInv'
  <2>1. ASSUME NEW w \in Workers, out[w] = "output" PROVE cur[w] \in Jobs
    <3>1. wpc[w] # "select"
      BY <2>1 DEF WorkerInv
    <3> QED
      BY <3>1, AtWork
  <2> QED
    BY <1>1, <2>1 DEF OutputInv, OutputIsEarned, Active
<1>7. MixInv'
  <2>1. CASE Store(j)
    <3>1. /\ file' = [file EXCEPT ![box[j]] = j] /\ loaded' = loaded
          /\ box[j] \in ContainerIds
      BY <1>1, <2>1 DEF Store, ExecInv, Execution, Active
    <3>2. ASSUME NEW i \in Jobs, prog'[i] = "ready", i # j, box[i] = box[j]
          PROVE  Failed(i) \/ Failed(j)
      <4>1. prog[i] \in Active
        BY <1>1, <3>2 DEF Active
      <4> QED
        BY <1>1, <3>2, <4>1, OneWaited DEF ExecInv, Execution
    <3>3. ASSUME NEW i \in Jobs, prog'[i] = "ready"
          PROVE  /\ i = j => file'[box[i]] = j
                 /\ i # j /\ box[i] = box[j] => file'[box[i]] = j
                 /\ i # j /\ box[i] # box[j] => file'[box[i]] = file[box[i]]
      <4>1. box[i] \in ContainerIds
        BY <1>1, <3>1, <3>3 DEF ExecInv, Execution
      <4> QED
        BY <3>1, <4>1 DEF TypeOK
    <3> QED
      BY <1>1, <1>4, <3>1, <3>2, <3>3 DEF MixInv
  <2>2. CASE Load(j)
    BY <1>1, <1>4, <2>2 DEF Load, MixInv, TypeOK
  <2>3. CASE End(j)
    <3>1. prog'[j] # "ready" /\ UNCHANGED <<file, loaded>>
      BY <2>3 DEF End, TypeOK
    <3> QED
      BY <1>1, <1>4, <3>1 DEF MixInv
  <2> QED
    BY <2>1, <2>2, <2>3 DEF ProgramStep
<1> QED
  BY <1>2, <1>3, <1>5, <1>6, <1>7

\* Every step keeps the invariant.
LEMMA PoolStep == PoolInv /\ [Next]_vars => PoolInv'
<1> SUFFICES ASSUME PoolInv, [Next]_vars PROVE PoolInv'
  OBVIOUS
<1>0. TypeOK'
  BY TypeStep
<1>1. ASSUME NEW j \in Jobs, Submit(j) PROVE PoolInv'
  BY <1>0, <1>1, SubmitKeeps
<1>2. ASSUME NEW w \in Workers, WorkerStep(w) PROVE PoolInv'
  BY <1>0, <1>2, ReceiveKeeps, AcquireKeeps, Answered, UnsupportedKeeps, StartKeeps,
     CmdReturnsKeeps, ReleaseKeeps DEF WorkerStep
<1>3. ASSUME NEW j \in Jobs, Timeout(j) PROVE PoolInv'
  BY <1>0, <1>3, ContextEnds DEF Timeout
<1>4. ASSUME NEW j \in Jobs, ProgramStep(j) PROVE PoolInv'
  BY <1>0, <1>4, ProgramKeeps
<1>5. ASSUME NEW j \in Jobs, WatchStep(j) PROVE PoolInv'
  <2>1. \A k \in Jobs : watch'[k] = watch[k] \/ watch[k] # "off"
    BY <1>5 DEF WatchStep, WatchDone, Outsurge, WatchCancel, PoolInv, TypeOK
  <2>2. CASE WatchCancel(j)
    BY <1>0, <2>1, <2>2, ContextEnds DEF WatchCancel, PoolInv, ExecInv, Execution
  <2>3. CASE WatchDone(j) \/ Outsurge(j)
    BY <1>0, <2>1, <2>3, Elsewhere DEF WatchDone, Outsurge, poolVars, progVars
  <2> QED
    BY <1>5, <2>2, <2>3 DEF WatchStep
<1>6. ASSUME NEW j \in Jobs, RemoveBox(j) PROVE PoolInv'
  <2>1. CASE Kill(box[j])
    BY <1>0, <1>6, <2>1, KillKeeps DEF RemoveBox
  <2>2. CASE UNCHANGED <<alive, prog>>
    BY <1>0, <1>6, <2>2, Elsewhere DEF RemoveBox
  <2> QED
    BY <1>6, <2>1, <2>2 DEF RemoveBox
<1>7. ASSUME NEW j \in Jobs, DeleteBox(j) PROVE PoolInv'
  BY <1>0, <1>7, Elsewhere DEF DeleteBox, Manager!Unregister, progVars
<1>8. ASSUME MonitorStep PROVE PoolInv'
  <2>1. PICK c \in ContainerIds : DropVanished(c) \/ Refill(c)
    BY <1>8 DEF MonitorStep
  <2>2. /\ lease' = lease
        /\ UNCHANGED <<jobVars, workerVars, execVars, watch, prog, loaded>>
        /\ \A d \in ContainerIds : file'[d] \in {file[d], NoJob}
    BY <2>1 DEF DropVanished, Refill, Manager!Unregister, Manager!Register, progVars,
                PoolInv, TypeOK
  <2> QED
    BY <1>0, <2>2, Elsewhere
<1>9. ASSUME UNCHANGED vars PROVE PoolInv'
  BY <1>0, <1>9, Elsewhere DEF vars, poolVars, progVars
<1> QED
  BY <1>1, <1>2, <1>3, <1>4, <1>5, <1>6, <1>7, <1>8, <1>9 DEF Next, RemoveStep

\* The invariant of the pool: where each job, each container and each program
\* stands, in every reachable state.
THEOREM PoolInvariant == Spec => []PoolInv
<1> QED
  BY PoolInit, PoolStep, PTL DEF Spec
-----------------------------------------------------------------------------
(* What the pool never does.                                               *)

\* The variables keep their types.
THEOREM PoolTypes == Spec => []TypeOK
<1>1. PoolInv => TypeOK
  BY DEF PoolInv
<1> QED
  BY <1>1, PoolInvariant, PTL

\* The invariant has it as it stands.
LEMMA SuccessEarned == PoolInv => OutputIsEarned
  BY DEF PoolInv, OutputInv

\* A job's success is its program's, whatever raced with it.
THEOREM SuccessIsEarned == Spec => []OutputIsEarned
  BY SuccessEarned, PoolInvariant, PTL

\* An open context means a worker that waits, in the container it holds.
LEMMA LiveApart == PoolInv => OneLiveExecution
<1> SUFFICES ASSUME PoolInv, NEW j \in Jobs, NEW k \in Jobs, j # k, box[j] = box[k],
                    {j, k} \subseteq {i \in Jobs : prog[i] \in Active}
             PROVE  "done" \in {ctx[j], ctx[k]}
  BY DEF OneLiveExecution
<1>1. ctx[j] # "none" /\ ctx[k] # "none"
  BY DEF PoolInv, ExecInv, Execution, Active
<1>2. ~(ctx[j] = "open" /\ ctx[k] = "open")
  BY OneWaited DEF PoolInv, ExecInv, Execution
<1> QED
  BY <1>1, <1>2 DEF PoolInv, TypeOK

\* Of the programs in one container all but one have been abandoned.
THEOREM LiveExecutionsApart == Spec => []OneLiveExecution
  BY LiveApart, PoolInvariant, PTL

\* A failure that is on its way is not a success.
LEMMA MixedFails == PoolInv => MixedCodeNeedsAbandoned
<1> SUFFICES ASSUME PoolInv, NEW j \in Jobs, NEW k \in Jobs, j # k, loaded[j] = k,
                    answer[j] = "output", answer[k] = "output"
             PROVE  FALSE
  BY DEF MixedCodeNeedsAbandoned
<1>1. Failed(j) \/ Failed(k)
  BY DEF PoolInv, MixInv
<1>2. PICK i \in {j, k}, w \in Workers : cur[w] = i /\ out[w] = "failed"
  BY <1>1 DEF Failed
<1>3. answer[i] = "none"
  BY <1>2, AtWork DEF PoolInv, WorkerInv
<1> QED
  BY <1>2, <1>3

\* Two jobs that share code do not both succeed.
THEOREM MixedCodeFails == Spec => []MixedCodeNeedsAbandoned
  BY MixedFails, PoolInvariant, PTL
-----------------------------------------------------------------------------
(* Enough containers.                                                      *)

\* A worker that asks for a container holds none, so that the others, one
\* container each, cannot hold as many as there are workers.
LEMMA OneIsLeft == PoolInv => EnoughContainers
<1> SUFFICES ASSUME PoolInv, NEW w \in Workers, wpc[w] = "get",
                    Cardinality(Usable) = MaxWorkers, Usable \subseteq Manager!Leased
             PROVE  FALSE
  BY DEF EnoughContainers
<1> DEFINE Others == Workers \ {w}
           holder == [c \in Usable |-> CHOOSE v \in Others : lease[v] = c]
<1>1. IsFiniteSet(Others) /\ Cardinality(Others) = MaxWorkers - 1
  BY FS_RemoveElement, PoolAssumption
<1>2. lease[w] = NoContainer
  BY DEF PoolInv, WorkerInv
<1>3. ASSUME NEW c \in Usable PROVE \E v \in Others : lease[v] = c
  BY <1>2, <1>3, PoolAssumption DEF Manager!Leased, PoolInv, TypeOK, Usable
<1>4. \A c \in Usable : holder[c] \in Others /\ lease[holder[c]] = c
  BY <1>3
<1>5. holder \in [Usable -> Others]
  BY <1>4
<1>6. holder \in Injection(Usable, Others)
  BY <1>4, <1>5 DEF Injection, IsInjective
<1>7. Cardinality(Usable) <= Cardinality(Others)
  BY <1>1, <1>6, FS_Injection
<1> QED
  BY <1>1, <1>7, PoolAssumption

\* A worker is never told that there are no containers while the pool has all its
\* containers and can hand them out, however many workers ask at once.
THEOREM ContainersSuffice == Spec => []EnoughContainers
  BY OneIsLeft, PoolInvariant, PTL

\* As long as no program that may reach the limits has begun, the usable
\* containers run and nothing is on its way to change that.
CalmInv ==
  (\A h \in Heavy : prog[h] = "none") =>
    /\ Usable \subseteq alive
    /\ \A j \in Jobs : rem[j] = "off" /\ watch[j] # "cancel"

\* At the start what is usable runs.
LEMMA CalmInit == Init => CalmInv
  BY DEF Init, CalmInv, Usable

\* A heavy program that has begun has begun for good.
LEMMA HeavyStays ==
  ASSUME PoolInv, [Next]_vars, NEW h \in Heavy, prog[h] # "none"
  PROVE  prog'[h] # "none"
<1> USE DEF progVars
<1>1. h \in Jobs
  BY PoolAssumption
<1>2. ASSUME NEW w \in Workers, WorkerStep(w) PROVE prog'[h] # "none"
  <2>1. CASE StartExec(w)
    BY <1>1, <2>1 DEF StartExec, PoolInv, TypeOK
  <2>2. CASE ~StartExec(w)
    BY <1>2, <2>2 DEF WorkerStep, Receive, GetAvailableContainer, NoneAvailable,
       UnsupportedLanguage, CmdReturns, Release, Reply
  <2> QED
    BY <2>1, <2>2
<1>3. ASSUME NEW j \in Jobs,
             Submit(j) \/ Timeout(j) \/ ProgramStep(j) \/ WatchStep(j)
      PROVE  prog'[h] # "none"
  BY <1>1, <1>3
  DEF Submit, Timeout, ProgramStep, Store, Load, End, WatchStep, WatchDone, Outsurge,
      WatchCancel, PoolInv, TypeOK
<1>4. ASSUME NEW j \in Jobs, RemoveStep(j) PROVE prog'[h] # "none"
  BY <1>1, <1>4 DEF RemoveStep, RemoveBox, DeleteBox, Kill
<1>5. ASSUME MonitorStep PROVE prog'[h] # "none"
  BY <1>5 DEF MonitorStep, DropVanished, Refill
<1>6. CASE UNCHANGED vars
  BY <1>6 DEF vars
<1> QED
  BY <1>2, <1>3, <1>4, <1>5, <1>6 DEF Next

\* Without a heavy program no watcher finds an outsurge and nothing is removed; the
\* health check drops what does not run and adds what does.
LEMMA CalmStep ==
  ASSUME PoolInv, CalmInv, [Next]_vars
  PROVE  /\ CalmInv'
         /\ Usable \subseteq Usable' \/ \E h \in Heavy : prog[h] # "none"
<1> SUFFICES ASSUME \A h \in Heavy : prog[h] = "none"
             PROVE  /\ Usable \subseteq Usable'
                    /\ Usable' \subseteq alive'
                    /\ \A j \in Jobs : rem'[j] = "off" /\ watch'[j] # "cancel"
  BY HeavyStays DEF CalmInv
<1>2. /\ Usable \subseteq alive
      /\ \A j \in Jobs : rem[j] = "off" /\ watch[j] # "cancel"
  BY DEF CalmInv
<1> DEFINE Calm == /\ UNCHANGED <<pool, broken, alive, rem>>
                   /\ \A j \in Jobs : watch'[j] # "cancel"
<1> USE DEF poolVars
<1>3. ASSUME NEW w \in Workers, WorkerStep(w) PROVE Calm
  <2>1. CASE StartExec(w)
    BY <1>2, <2>1 DEF StartExec, PoolInv, TypeOK
  <2>2. CASE ~StartExec(w)
    BY <1>2, <1>3, <2>2
    DEF WorkerStep, Receive, GetAvailableContainer, NoneAvailable, UnsupportedLanguage,
        CmdReturns, Release, Reply, Manager!Acquire, Manager!Release
  <2> QED
    BY <2>1, <2>2
<1>4. ASSUME NEW j \in Jobs, Submit(j) \/ Timeout(j) \/ ProgramStep(j) PROVE Calm
  BY <1>2, <1>4 DEF Submit, Timeout, ProgramStep, Store, Load, End
<1>5. ASSUME NEW j \in Jobs, WatchStep(j) PROVE Calm
  <2>1. ~Outsurge(j)
    BY DEF Outsurge, Inside, Active
  <2> QED
    BY <1>2, <1>5, <2>1 DEF WatchStep, WatchDone, WatchCancel, PoolInv, TypeOK
<1>6. ASSUME NEW j \in Jobs, RemoveStep(j) PROVE FALSE
  BY <1>2, <1>6 DEF RemoveStep, RemoveBox, DeleteBox
<1>7. ASSUME NEW c \in ContainerIds, DropVanished(c)
      PROVE  Usable' = Usable /\ UNCHANGED <<alive, watch, rem>>
  <2>1. /\ pool' = pool \ {c} /\ broken' = broken \ {c} /\ c \notin alive
        /\ UNCHANGED <<alive, watch, rem>>
    BY <1>7 DEF DropVanished, Manager!Unregister
  <2>2. c \notin Usable
    BY <1>2, <2>1
  <2> QED
    BY <2>1, <2>2 DEF Usable
<1>8. ASSUME NEW c \in ContainerIds, Refill(c)
      PROVE  /\ Usable \subseteq Usable' /\ Usable' \subseteq Usable \cup {c}
             /\ alive' = alive \cup {c} /\ UNCHANGED <<watch, rem>>
  <2>1. /\ pool' = pool \cup {c} /\ broken' = broken
        /\ alive' = alive \cup {c} /\ UNCHANGED <<watch, rem>>
    BY <1>8 DEF Refill, Manager!Register
  <2> QED
    BY <2>1 DEF Usable
<1>9. CASE UNCHANGED vars
  BY <1>2, <1>9 DEF vars, Usable
<1>10. ASSUME Calm
       PROVE  /\ Usable \subseteq Usable'
              /\ Usable' \subseteq alive'
              /\ \A j \in Jobs : rem'[j] = "off" /\ watch'[j] # "cancel"
  BY <1>2, <1>10 DEF Usable
<1>11. CASE MonitorStep
  <2>1. PICK c \in ContainerIds : DropVanished(c) \/ Refill(c)
    BY <1>11 DEF MonitorStep
  <2>2. CASE DropVanished(c)
    BY <1>2, <1>7, <2>2
  <2>3. CASE Refill(c)
    BY <1>2, <1>8, <2>3
  <2> QED
    BY <2>1, <2>2, <2>3
<1> QED
  BY <1>3, <1>4, <1>5, <1>6, <1>9, <1>10, <1>11 DEF Next

\* No container that works leaves the pool before a program that may reach the
\* limits has begun: neither watchers nor health check take it away.
THEOREM UsableStays == Spec => UsableKept
<1>1. PoolInv /\ CalmInv /\ [Next]_vars => CalmInv'
  BY CalmStep
<1>2. PoolInv /\ CalmInv /\ [Next]_vars
        => [Usable \subseteq Usable' \/ \E h \in Heavy : prog[h] # "none"]_vars
  BY CalmStep
<1> QED
  BY <1>1, <1>2, CalmInit, PoolInvariant, PTL DEF Spec, UsableKept
=============================================================================
