------------------------ MODULE MCContainerLifecycle ------------------------
(* Small sets of containers, names and concurrent commands. *)
EXTENDS ContainerLifecycle, TLC

(* No command depends on which slot runs it, nor on how a container is     *)
(* named; the IDs are not interchangeable: some are on a CNI network.      *)
SlotsAndNames == Permutations(Slots) \union Permutations(Names)
=============================================================================
