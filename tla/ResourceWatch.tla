--------------------------- MODULE ResourceWatch ---------------------------
(***************************************************************************)
(* ContainerManager.CheckResourceOutsurge: what the watcher of one         *)
(* execution reads of its container, and what it concludes.                *)
(*                                                                         *)
(* Time goes in slices; a scheduler period of the host has Slices of them. *)
(* The CPU counters only grow: the container's counts the time it had      *)
(* since it was created, the host's what its Cores have lived through      *)
(* since boot.  The kernel holds the container to Quota in every period    *)
(* (NanoCPUs of its HostConfig) and to MemoryLimit.                        *)
(***************************************************************************)
EXTENDS Integers

CONSTANTS
  Cores,        \* of the host
  Slices,       \* slices in a period
  Quota,        \* CPU a container may use in a period, in slices of one core
  MemoryLimit,
  Uptime,       \* of the host, when the container is created
  MaxSystem     \* bound: where a run stops to count

HostPeriod == Cores * Slices

ASSUME ResourceAssumption ==
  /\ Cores \in Nat \ {0} /\ Slices \in Nat \ {0}
  /\ Quota \in Nat
  /\ 100 * Quota <= 99 * HostPeriod  \* half a core: 500 * 1000_000 nanoseconds
  /\ MemoryLimit \in Nat \ {0}
  /\ Uptime \in Nat /\ Uptime >= HostPeriod
  /\ MaxSystem \in Nat

VARIABLES
  total,    \* cpu_usage.total_usage
  system,   \* system_cpu_usage
  elapsed,  \* host CPU time gone in this period
  spent,    \* the container's share of it
  usage,    \* memory_stats.usage
  watcher   \* "on"; "cut": it has called for the removal and cancelled;
            \* or "over": the execution has ended or run out of time before

vars == <<total, system, elapsed, spent, usage, watcher>>

TypeOK ==
  /\ total \in Nat /\ system \in Nat
  /\ elapsed \in 0 .. HostPeriod /\ spent \in 0 .. Quota
  /\ usage \in 0 .. MemoryLimit
  /\ watcher \in {"on", "cut", "over"}

\* What the daemon reports.  A field it leaves out is read as 0.
Readings ==
  [total : {total}, system : {system, 0}, usage : {usage, 0}, limit : {MemoryLimit, 0}]
-----------------------------------------------------------------------------
(* CheckResourceOutsurge.  A percentage without a denominator is 0.         *)

\* Mutant: the CPU time since the container was created, as docker stats
\* shows it between two readings.
CpuOutsurge_SinceCreation(stats) ==
  stats.system > 0 /\ 100 * stats.total > 99 * (stats.system - Uptime)

CpuOutsurge(stats) ==
  stats.system > 0 /\ 100 * stats.total > 99 * stats.system

\* Mutant: a limit that was not reported divides all the same.
MemoryOutsurge_NoLimit(stats) ==
  100 * stats.usage > 99 * stats.limit

MemoryOutsurge(stats) ==
  stats.limit > 0 /\ 100 * stats.usage > 99 * stats.limit

Outsurge(stats) == CpuOutsurge(stats) \/ MemoryOutsurge(stats)
-----------------------------------------------------------------------------
\* Mutant: the HostConfig without NanoCPUs.
Slice_NoQuota ==
  /\ system + Cores <= MaxSystem
  /\ \E u \in 0 .. Cores :
       /\ total' = total + u
       /\ IF elapsed + Cores < HostPeriod
          THEN elapsed' = elapsed + Cores /\ spent' = spent + u
          ELSE elapsed' = 0 /\ spent' = 0
  /\ system' = system + Cores
  /\ UNCHANGED <<usage, watcher>>

\* One slice: every core lives through it, and the container gets what its
\* quota leaves it.
Slice ==
  /\ system + Cores <= MaxSystem
  /\ \E u \in 0 .. Cores :
       /\ spent + u <= Quota
       /\ total' = total + u
       /\ IF elapsed + Cores < HostPeriod
          THEN elapsed' = elapsed + Cores /\ spent' = spent + u
          ELSE elapsed' = 0 /\ spent' = 0
  /\ system' = system + Cores
  /\ UNCHANGED <<usage, watcher>>

\* The program takes memory or gives it back; past the limit it is killed.
Memory ==
  /\ \E m \in 0 .. MemoryLimit : m # usage /\ usage' = m
  /\ UNCHANGED <<total, system, elapsed, spent, watcher>>

\* A tick that finds an outsurge; every other one, a failed one included,
\* changes nothing.
Tick ==
  /\ watcher = "on"
  /\ \E stats \in Readings : Outsurge(stats)
  /\ watcher' = "cut"
  /\ UNCHANGED <<total, system, elapsed, spent, usage>>

\* ctx.Done() or healthCheckCtx.Done(): the watcher ends with its execution, at
\* the latest with its timeout, whatever its readings were so far.  A program that
\* outlives the timeout runs on unwatched.
WatcherEnds ==
  /\ watcher = "on"
  /\ watcher' = "over"
  /\ UNCHANGED <<total, system, elapsed, spent, usage>>

Init ==
  /\ total = 0 /\ system = Uptime
  /\ elapsed = 0 /\ spent = 0
  /\ usage = 0
  /\ watcher = "on"

Next == Slice \/ Memory \/ Tick \/ WatcherEnds

Spec == Init /\ [][Next]_vars
-----------------------------------------------------------------------------
\* The CPU half of the check never finds anything: the quota keeps what the
\* container has used, at any moment, below 99% of the host's time since boot.
CpuNeverOutsurges == \A stats \in Readings : ~CpuOutsurge(stats)

\* Only a container that is above 99% of its memory at that moment is cut off,
\* for how ever long it and its host have been up and whatever fields the daemon
\* leaves out.  (That every such container is cut off cannot be said: its readings
\* may fail for as long as the execution lasts.)
OnlyHogsCut ==
  [][watcher' = "cut" /\ watcher # "cut" => 100 * usage > 99 * MemoryLimit]_vars
=============================================================================
