------------------------------ MODULE Volumes -------------------------------
(***************************************************************************)
(* The volume store (pkg/mountutil/volumestore), the volume commands       *)
(* (pkg/cmd/volume) and what container create and rm do with volumes.      *)
(*                                                                         *)
(* A volume is its name.  The anonymous volume that the creation of c      *)
(* makes is named c.  An operation under WithLock is one step (see         *)
(* FileStoreProofs); where the lock is held across calls that other        *)
(* processes can notice, it is several.                                    *)
(***************************************************************************)
EXTENDS Parties

CONSTANTS Named,      \* the volumes users name
          Generated,  \* those of them that "volume create" named, and labelled anonymous
          RmApart     \* users do not run "volume rm" while a container is created

ASSUME NamedAssumption == Generated \subseteq Named /\ Named \cap Containers = {}

VARIABLES
  volumes,   \* the volumes in the store
  record,    \* record[c]: c in containerd; "cleaned" and "partly": with rm -v all
             \* its anonymous volumes went, or some perhaps
  mounts,    \* mounts[c]: the volumes in c's mounts label
  anon,      \* anon[c]: the volumes in c's anonymous-volumes label
  storeLock, \* the holder of the store's lock
  vpc,       \* vpc[p]: the next step of the command of p
  von,       \* von[p]: the container or the volume it works on
  listed     \* listed[p]: the containers or volumes it has listed

volumeVars == <<volumes, record, mounts, anon, storeLock, vpc, von, listed>>

AllVolumes == Named \union Containers

VolumesTypeOK ==
  /\ volumes \in SUBSET AllVolumes
  /\ record \in [Containers -> {"none", "creating", "made", "gone", "partly", "cleaned"}]
  /\ mounts \in [Containers -> SUBSET AllVolumes]
  /\ anon \in [Containers -> SUBSET Containers]
  /\ storeLock \in Clients \union {NoClient}
  /\ vpc \in [Clients -> {"idle", "mount", "record", "rmAnon", "vrm", "prune", "pruneDelete"}]
  /\ von \in [Clients -> AllVolumes]
  /\ listed \in [Clients -> SUBSET AllVolumes]

VolumesInit ==
  /\ volumes = {}
  /\ record = [c \in Containers |-> "none"]
  /\ mounts = [c \in Containers |-> {}]
  /\ anon = [c \in Containers |-> {}]
  /\ storeLock = NoClient
  /\ vpc = [p \in Clients |-> "idle"]
  /\ von = [p \in Clients |-> AContainer]
  /\ listed = [p \in Clients |-> {}]

VGo(p, l) == vpc' = [vpc EXCEPT ![p] = l] /\ UNCHANGED <<von, listed>>
VEnd(p) ==
  /\ vpc' = [vpc EXCEPT ![p] = "idle"]
  /\ von' = [von EXCEPT ![p] = AContainer]
  /\ listed' = [listed EXCEPT ![p] = {}]

Made == {c \in Containers : record[c] = "made"}
VUnlock == storeLock' = NoClient

(* What --volumes-from takes over from the label of each container. *)
VolumesFrom(labels, from) == UNION {labels[d] : d \in from}

-----------------------------------------------------------------------------
(* Create holds the lock until it returns.  It mounts named volumes, an    *)
(* anonymous one, and those of the containers of --volumes-from, whose     *)
(* labels it copies.                                                       *)
CreateLock(p, c, named, from) ==
  /\ vpc[p] = "idle" /\ record[c] = "none" /\ storeLock = NoClient
  /\ RmApart => \A q \in Clients : vpc[q] # "vrm"
  /\ storeLock' = p
  /\ record' = [record EXCEPT ![c] = "creating"]
  /\ mounts' = [mounts EXCEPT ![c] = named \union {c} \union VolumesFrom(mounts, from)]
  /\ anon' = [anon EXCEPT ![c] = {c} \union VolumesFrom(anon, from)]
  /\ vpc' = [vpc EXCEPT ![p] = "mount"]
  /\ von' = [von EXCEPT ![p] = c]
  /\ listed' = [listed EXCEPT ![p] = named]
  /\ UNCHANGED volumes

(* CreateWithoutLock for each named volume and for the anonymous one; what *)
(* --volumes-from brings is taken as it is.                                *)
MountVolumes(p) ==
  /\ vpc[p] = "mount"
  /\ volumes' = volumes \union listed[p] \union {von[p]}
  /\ VGo(p, "record")
  /\ UNCHANGED <<record, mounts, anon, storeLock>>

(* Mutant: the record is made after the lock is released. *)
RecordContainerUnlocked(p) ==
  /\ vpc[p] = "record"
  /\ \/ storeLock = p /\ VUnlock /\ UNCHANGED <<record, vpc, von, listed>>
     \/ /\ storeLock # p
        /\ record' = [record EXCEPT ![von[p]] = "made"]
        /\ VEnd(p)
        /\ UNCHANGED storeLock
  /\ UNCHANGED <<volumes, mounts, anon>>

(* NewContainer, or an error of it or of a step before it; the volumes of  *)
(* a failed creation stay.                                                 *)
RecordContainer(p) ==
  /\ vpc[p] = "record"
  /\ \E r \in {"made", "gone"} : record' = [record EXCEPT ![von[p]] = r]
  /\ VUnlock
  /\ VEnd(p)
  /\ UNCHANGED <<volumes, mounts, anon>>

(* RemoveContainer deletes the record without the lock of the store; with  *)
(* -v it goes on to the anonymous volumes in the labels it has read.       *)
RmRecord(p, c) ==
  /\ vpc[p] = "idle" /\ record[c] = "made"
  /\ record' = [record EXCEPT ![c] = "gone"]
  /\ \/ UNCHANGED <<vpc, von, listed>>
     \/ /\ vpc' = [vpc EXCEPT ![p] = "rmAnon"]
        /\ von' = [von EXCEPT ![p] = c]
        /\ UNCHANGED listed
  /\ UNCHANGED <<volumes, mounts, anon, storeLock>>

(* Mutant: the anonymous volumes go only while the container is recorded. *)
RmAnonymousOfLive(p) ==
  /\ vpc[p] = "rmAnon" /\ storeLock = NoClient
  /\ volumes' = volumes \ (IF von[p] \in Made THEN anon[von[p]] ELSE {})
  /\ record' = [record EXCEPT ![von[p]] = "cleaned"]
  /\ VEnd(p)
  /\ UNCHANGED <<mounts, anon, storeLock>>

(* They go, whoever else mounts them.  An error of one of them ends the    *)
(* loop and is only logged.                                                *)
RmAnonymous(p) ==
  /\ vpc[p] = "rmAnon" /\ storeLock = NoClient
  /\ \E removed \in SUBSET anon[von[p]] :
       /\ volumes' = volumes \ removed
       /\ record' = [record EXCEPT ![von[p]] = IF removed = anon[von[p]] THEN "cleaned" ELSE "partly"]
  /\ VEnd(p)
  /\ UNCHANGED <<mounts, anon, storeLock>>

(* The label cannot be read, or the lock not taken, which is only logged,  *)
(* or nerdctl dies: the volumes stay, and no container names them.         *)
RmAnonymousFails(p) ==
  /\ vpc[p] = "rmAnon"
  /\ VEnd(p)
  /\ UNCHANGED <<volumes, record, mounts, anon, storeLock>>

-----------------------------------------------------------------------------
VolumeCreate(v) ==
  /\ storeLock = NoClient
  /\ volumes' = volumes \union {v}
  /\ UNCHANGED <<record, mounts, anon, storeLock, vpc, von, listed>>

(* usedVolumes: containers that are gone by now are skipped. *)
UsedVolumes(containers) == UNION {mounts[c] : c \in containers \cap Made}

(* volume rm lists the containers, and reads their labels under the lock.  *)
VolumeRm(p, v) ==
  /\ vpc[p] = "idle"
  /\ RmApart => storeLock = NoClient
  /\ vpc' = [vpc EXCEPT ![p] = "vrm"]
  /\ von' = [von EXCEPT ![p] = v]
  /\ listed' = [listed EXCEPT ![p] = Made]
  /\ UNCHANGED <<volumes, record, mounts, anon, storeLock>>

VolumeRemove(p) ==
  /\ vpc[p] = "vrm" /\ storeLock = NoClient
  /\ volumes' = volumes \ ({von[p]} \ UsedVolumes(listed[p]))
  /\ VEnd(p)
  /\ UNCHANGED <<record, mounts, anon, storeLock>>

(* volume prune does both under the lock; without --all it removes what    *)
(* "volume create" has labelled anonymous, nothing else.                   *)
PruneLock(p) ==
  /\ vpc[p] = "idle" /\ storeLock = NoClient
  /\ storeLock' = p
  /\ VGo(p, "prune")
  /\ UNCHANGED <<volumes, record, mounts, anon>>

PruneFilter(p, all) ==
  /\ vpc[p] = "prune"
  /\ listed' = [listed EXCEPT ![p] = (IF all THEN volumes ELSE volumes \cap Generated)
                                        \ UsedVolumes(Containers)]
  /\ vpc' = [vpc EXCEPT ![p] = "pruneDelete"]
  /\ UNCHANGED <<volumes, record, mounts, anon, storeLock, von>>

PruneDelete(p) ==
  /\ vpc[p] = "pruneDelete"
  /\ volumes' = volumes \ listed[p]
  /\ VUnlock
  /\ VEnd(p)
  /\ UNCHANGED <<record, mounts, anon>>

VolumesNext ==
  \/ \E p \in Clients, c \in Containers :
       \/ \E named \in SUBSET Named, from \in SUBSET Made : CreateLock(p, c, named, from)
       \/ RmRecord(p, c)
  \/ \E p \in Clients :
       \/ MountVolumes(p) \/ RecordContainer(p) \/ RmAnonymous(p) \/ RmAnonymousFails(p)
       \/ \E v \in Named : VolumeRm(p, v)
       \/ VolumeRemove(p) \/ PruneLock(p) \/ PruneDelete(p)
       \/ \E all \in BOOLEAN : PruneFilter(p, all)
  \/ \E v \in Named : VolumeCreate(v)

VolumesSpec == VolumesInit /\ [][VolumesNext]_volumeVars

-----------------------------------------------------------------------------
(* No command takes a volume from a container that exists (rm.go, prune.go *)
(* test for use); only "rm -v" of another container whose anonymous volume *)
(* it shares through --volumes-from does.                                  *)
VolumesKept ==
  \A c \in Made, v \in AllVolumes : v \in mounts[c] \ volumes =>
    \E d \in Containers : record[d] \in {"cleaned", "partly"} /\ v \in anon[d]

(* When the removal of the anonymous volumes by "rm -v" met no error, none *)
(* of them is in the store, then or later, although the record was deleted *)
(* before them and without the lock, and creations run in between          *)
(* (remove.go).  When it met one, or nerdctl died before it, rm says       *)
(* nothing and volumes may be left for good: these are excepted, and so is *)
(* rm without -v.                                                          *)
AnonymousGone ==
  \A c \in Containers : record[c] = "cleaned" => anon[c] \cap volumes = {}
=============================================================================
