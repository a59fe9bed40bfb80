--------------------------- MODULE ContainerLease ---------------------------
(***************************************************************************)
(* What the container manager promises the worker pool, and nothing more:  *)
(* a pool of at most MaxWorkers containers, each of them leased to at most *)
(* one worker at a time.  A container that leaves the pool while it is     *)
(* leased stays with its worker, and comes back to the pool for nobody.    *)
(***************************************************************************)
EXTENDS Naturals, FiniteSets

CONSTANTS
  Workers,       \* the goroutines that execute jobs
  ContainerIds,  \* container ids handed out by the daemon
  NoContainer,   \* a worker that holds no lease
  MaxWorkers     \* the size the pool is kept at

VARIABLES
  open,   \* has the pool been initialised?
  pool,   \* the containers a worker may be given
  lease   \* the container each worker holds

vars == <<open, pool, lease>>

Leased == {lease[w] : w \in Workers} \ {NoContainer}

Init ==
  /\ open = FALSE
  /\ pool = {}
  /\ lease = [w \in Workers |-> NoContainer]

Open(S) ==
  /\ ~open
  /\ S # {} /\ Cardinality(S) <= MaxWorkers
  /\ open' = TRUE
  /\ pool' = S
  /\ UNCHANGED lease

Register(c) ==
  /\ c \notin pool \cup Leased
  /\ Cardinality(pool) < MaxWorkers
  /\ pool' = pool \cup {c}
  /\ UNCHANGED lease

Unregister(c) ==
  /\ c \in pool
  /\ pool' = pool \ {c}
  /\ UNCHANGED lease

Acquire(w, c) ==
  /\ lease[w] = NoContainer
  /\ c \in pool \ Leased
  /\ lease' = [lease EXCEPT ![w] = c]
  /\ UNCHANGED pool

Release(w) ==
  /\ lease[w] # NoContainer
  /\ lease' = [lease EXCEPT ![w] = NoContainer]
  /\ UNCHANGED pool

\* The process dies: the pool and every lease die with it.
Close ==
  /\ open
  /\ open' = FALSE
  /\ pool' = {}
  /\ lease' = [w \in Workers |-> NoContainer]

\* What the pool's users and its manager do while it is open.
Use ==
  \/ \E c \in ContainerIds : Register(c) \/ Unregister(c)
  \/ \E w \in Workers, c \in ContainerIds : Acquire(w, c)
  \/ \E w \in Workers : Release(w)

Next ==
  \/ \E S \in SUBSET ContainerIds : Open(S)
  \/ open /\ Use /\ UNCHANGED open
  \/ Close

Spec == Init /\ [][Next]_vars
=============================================================================
