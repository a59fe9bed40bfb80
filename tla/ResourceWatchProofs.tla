------------------------ MODULE ResourceWatchProofs ------------------------
(* CheckResourceOutsurge never finds a container over its CPU limit, and    *)
(* cuts off only those above 99% of their memory, for any host, any quota   *)
(* up to 99% of it, any memory limit and any uptime.                        *)
EXTENDS ResourceWatch, TLAPS

\* What the container used in the full periods before this one leaves room for
\* a whole period more: 99% of the host's time up to then, less one period.
PastPeriods == 100 * (total - spent) + 99 * HostPeriod <= 99 * (system - elapsed)

IInv == TypeOK /\ PastPeriods

\* The CPU time of the whole host in one period is a number.
LEMMA PeriodIsNat == HostPeriod \in Nat
  BY ResourceAssumption DEF HostPeriod

\* The invariant rules out a CPU outsurge in any reading: what this period adds
\* is bounded by the quota, and a reading without the host's time is passed over.
LEMMA RoomForQuota == IInv => CpuNeverOutsurges
<1> SUFFICES ASSUME IInv, NEW stats \in Readings, CpuOutsurge(stats)
             PROVE  FALSE
  BY DEF CpuNeverOutsurges
<1>1. stats.total = total /\ stats.system \in {system, 0}
  BY DEF Readings
<1>2. stats.system = system /\ 100 * total > 99 * system
  BY <1>1 DEF CpuOutsurge, IInv, TypeOK
<1>3. /\ total \in Nat /\ system \in Nat /\ elapsed \in Nat
      /\ spent \in Nat /\ spent <= Quota
  BY PeriodIsNat, ResourceAssumption DEF IInv, TypeOK
<1>4. 100 * (total - spent) + 99 * HostPeriod <= 99 * (system - elapsed)
  BY DEF IInv, PastPeriods
<1>5. 100 * Quota <= 99 * HostPeriod /\ Quota \in Nat
  BY ResourceAssumption
<1>6. QED
  BY <1>2, <1>3, <1>4, <1>5, PeriodIsNat

\* A slice keeps the invariant; at the end of a period its share is settled.
LEMMA SliceKeeps == IInv /\ Slice => IInv'
<1> SUFFICES ASSUME IInv, Slice PROVE IInv'
  OBVIOUS
<1>1. PICK u \in 0 .. Cores :
        /\ spent + u <= Quota
        /\ total' = total + u
        /\ IF elapsed + Cores < HostPeriod
           THEN elapsed' = elapsed + Cores /\ spent' = spent + u
           ELSE elapsed' = 0 /\ spent' = 0
  BY DEF Slice
<1>2. system' = system + Cores /\ usage' = usage /\ watcher' = watcher
  BY DEF Slice
<1>3. /\ total \in Nat /\ system \in Nat /\ elapsed \in 0 .. HostPeriod
      /\ spent \in 0 .. Quota /\ u \in Nat
      /\ Cores \in Nat /\ Quota \in Nat /\ 100 * Quota <= 99 * HostPeriod
  BY PeriodIsNat, ResourceAssumption DEF IInv, TypeOK
<1>4. TypeOK'
  BY <1>1, <1>2, <1>3, PeriodIsNat DEF IInv, TypeOK
<1>5. PastPeriods'
  <2>0. 100 * (total - spent) + 99 * HostPeriod <= 99 * (system - elapsed)
    BY DEF IInv, PastPeriods
  <2>1. HostPeriod' = HostPeriod
    BY DEF HostPeriod
  <2>2. CASE elapsed + Cores < HostPeriod
    BY <1>1, <1>2, <1>3, <2>0, <2>1, <2>2, PeriodIsNat DEF PastPeriods
  <2>3. CASE ~(elapsed + Cores < HostPeriod)
    BY <1>1, <1>2, <1>3, <2>0, <2>1, <2>3, PeriodIsNat DEF PastPeriods
  <2>4. QED
    BY <2>2, <2>3
<1>6. QED
  BY <1>4, <1>5 DEF IInv

\* The counters and the watcher keep their types, and the room is never used up.
THEOREM RoomInvariant == Spec => []IInv
<1>1. Init => IInv
  BY PeriodIsNat, ResourceAssumption DEF Init, IInv, TypeOK, PastPeriods
<1>2. IInv /\ [Next]_vars => IInv'
  <2> SUFFICES ASSUME IInv, [Next]_vars PROVE IInv'
    OBVIOUS
  <2>1. CASE Slice
    BY <2>1, SliceKeeps
  <2>2. CASE Memory
    BY <2>2 DEF Memory, IInv, TypeOK, PastPeriods, HostPeriod
  <2>3. CASE Tick
    BY <2>3 DEF Tick, IInv, TypeOK, PastPeriods, HostPeriod
  <2>4. CASE WatcherEnds
    BY <2>4 DEF WatcherEnds, IInv, TypeOK, PastPeriods, HostPeriod
  <2>5. CASE UNCHANGED vars
    BY <2>5 DEF vars, IInv, TypeOK, PastPeriods, HostPeriod
  <2>6. QED
    BY <2>1, <2>2, <2>3, <2>4, <2>5 DEF Next
<1>3. QED
  BY <1>1, <1>2, PTL DEF Spec

\* The counters of the daemon and the position of the watcher keep their types,
\* however long the host has been up.
THEOREM ResourceTypes == Spec => []TypeOK
<1>1. IInv => TypeOK
  BY DEF IInv
<1>2. QED
  BY <1>1, RoomInvariant, PTL

\* The CPU half of CheckResourceOutsurge is dead code while containers are
\* started with the quota of StartContainer.
THEOREM CpuLimitNeverFires == Spec => []CpuNeverOutsurges
  BY RoomInvariant, RoomForQuota, PTL

\* Whatever the daemon leaves out of a reading, a container is cut off only while
\* it is above 99% of its memory: the CPU half finds nothing, and the memory half
\* passes over a reading without a limit.
THEOREM OnlyHogs == Spec => OnlyHogsCut
<1>1. ASSUME IInv, [Next]_vars, watcher' = "cut", watcher # "cut"
      PROVE  100 * usage > 99 * MemoryLimit
  <2>1. PICK stats \in Readings : Outsurge(stats)
    BY <1>1 DEF Next, Slice, Memory, Tick, WatcherEnds, vars
  <2>2. MemoryOutsurge(stats)
    BY <1>1, <2>1, RoomForQuota DEF Outsurge, CpuNeverOutsurges
  <2>3. stats.usage \in {usage, 0} /\ stats.limit \in {MemoryLimit, 0}
    BY DEF Readings
  <2>4. usage \in Nat /\ MemoryLimit \in Nat \ {0}
    BY <1>1, ResourceAssumption DEF IInv, TypeOK
  <2> QED
    BY <2>2, <2>3, <2>4 DEF MemoryOutsurge
<1>2. IInv /\ [Next]_vars =>
        [watcher' = "cut" /\ watcher # "cut" => 100 * usage > 99 * MemoryLimit]_vars
  BY <1>1
<1>3. QED
  BY <1>2, RoomInvariant, PTL DEF Spec, OnlyHogsCut
=============================================================================
