------------------------------ MODULE Parties -------------------------------
(***************************************************************************)
(* What the models of the single components have in common: the containers *)
(* of a namespace and the nerdctl processes that work on them.             *)
(***************************************************************************)
CONSTANTS Containers,
          Clients,   \* nerdctl processes, each with one command at a time
          NoClient   \* the holder of a free lock

ASSUME ClientAssumption == NoClient \notin Clients
ASSUME ContainerAssumption == Containers # {}

AContainer == CHOOSE c \in Containers : TRUE  \* the target of an idle client
=============================================================================
