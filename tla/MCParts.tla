------------------------------- MODULE MCParts ------------------------------
(***************************************************************************)
(* Parts of nerdctl that share no state with one another, side by side.  A *)
(* behaviour is one of a single part, the others rest in their initial     *)
(* states, so that the state space is the sum of theirs.                   *)
(***************************************************************************)
EXTENDS Volumes, HostsStore, NetConfigs, HealthCheck, Compose, Ports, Images, EcrTokens

CONSTANT Parts

ASSUME PartsAssumption ==
  Parts \subseteq {"volumes", "hosts", "networks", "health", "compose", "ports", "images", "ecr"}

MCDependsOn == {<<"web", "db">>}

VARIABLE part

storeVars == <<volumeVars, hostsVars, netVars>>
restVars == <<portVars, imageVars, ecrVars>>
vars == <<storeVars, taskVars, healthVars, composeVars, restVars, part>>

Init ==
  /\ VolumesInit /\ HostsInit /\ NetInit /\ TaskInit /\ HealthInit /\ ComposeInit
  /\ PortsInit /\ ImagesInit /\ EcrInit
  /\ part \in Parts

StoreNext ==
  /\ \/ part = "volumes" /\ VolumesNext /\ UNCHANGED <<hostsVars, netVars>>
     \/ part = "hosts" /\ HostsNext /\ UNCHANGED <<volumeVars, netVars>>
     \/ part = "networks" /\ NetNext /\ UNCHANGED <<volumeVars, hostsVars>>
  /\ UNCHANGED <<taskVars, healthVars, composeVars, restVars>>

RestNext ==
  /\ \/ part = "ports" /\ PortsNext /\ UNCHANGED <<imageVars, ecrVars>>
     \/ part = "images" /\ ImagesNext /\ UNCHANGED <<portVars, ecrVars>>
     \/ part = "ecr" /\ EcrNext /\ UNCHANGED <<portVars, imageVars>>
  /\ UNCHANGED <<storeVars, taskVars, healthVars, composeVars>>

Next ==
  /\ UNCHANGED part
  /\ \/ StoreNext
     \/ part = "health" /\ HealthNext /\ UNCHANGED <<storeVars, composeVars, restVars>>
     \/ part = "compose" /\ ComposeNext /\ UNCHANGED <<storeVars, taskVars, healthVars, restVars>>
     \/ RestNext

Spec == Init /\ [][Next]_vars

(* Every variable of the part that moves has its type; the others rest.    *)
PartsTypeOK ==
  CASE part = "volumes" -> VolumesTypeOK
    [] part = "hosts" -> HostsTypeOK
    [] part = "networks" -> NetTypeOK
    [] part = "health" -> TaskTypeOK
    [] part = "compose" -> ComposeTypeOK
    [] part = "ports" -> PortsTypeOK
    [] part = "images" -> ImagesTypeOK
    [] part = "ecr" -> EcrTypeOK
=============================================================================
