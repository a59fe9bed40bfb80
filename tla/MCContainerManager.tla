------------------------- MODULE MCContainerManager -------------------------
(* ContainerManager with two workers, as in cmd/main.go, for TLC. *)
EXTENDS ContainerManager, TLC

Symmetry == Permutations(Workers) \cup Permutations(ContainerIds)
=============================================================================
