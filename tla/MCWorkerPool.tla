---------------------------- MODULE MCWorkerPool ----------------------------
(* WorkerPool for TLC. *)
EXTENDS WorkerPool, TLC

Symmetry ==
  UNION {Permutations(Workers), Permutations(ContainerIds),
         Permutations(Jobs \ UNION {Heavy, SameLanguage, Unsupported})}
=============================================================================
