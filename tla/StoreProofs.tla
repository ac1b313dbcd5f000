----------------------------- MODULE StoreProofs ----------------------------
(***************************************************************************)
(* Proofs about the stores of nerdctl and what is chosen from them:        *)
(* Volumes, HostsStore, NetConfigs and Ports.  Each part has its inductive *)
(* invariant, a lemma for each action that is not obvious, and theorems    *)
(* for its types and its property.                                         *)
(***************************************************************************)
EXTENDS Volumes, HostsStore, NetConfigs, Ports, FiniteSetTheorems, WellFoundedInduction, TLAPS

-----------------------------------------------------------------------------
(* Volumes.                                                                *)

(* Only "rm -v" of a container that shares it has taken the volume. *)
Excused(v) == \E d \in Containers : record[d] \in {"cleaned", "partly"} /\ v \in anon[d]

VHolds == {"mount", "record", "prune", "pruneDelete"}

VLockInv == \A p \in Clients : vpc[p] \in VHolds => storeLock = p

VStageInv ==
  /\ \A p \in Clients : vpc[p] \in {"mount", "record"} => von[p] \in Containers /\ record[von[p]] = "creating"
  /\ \A p \in Clients : vpc[p] = "mount" => listed[p] \subseteq Named
  /\ \A p \in Clients : vpc[p] = "rmAnon" => von[p] \in Containers /\ record[von[p]] \in {"gone", "partly", "cleaned"}

(* The anonymous volumes a container has from others are of containers     *)
(* whose creation is over.                                                 *)
AnonInv == \A c, d \in Containers : d \in anon[c] => d = c \/ record[d] \in {"made", "gone", "partly", "cleaned"}

(* What "volume prune" is about to remove is in use by no container.       *)
PruneInv == \A p \in Clients : vpc[p] = "pruneDelete" =>
              \A c \in Containers : record[c] = "made" => mounts[c] \cap listed[p] = {}

(* While "volume rm" has its list, no container comes into being. *)
RmInv == \A p \in Clients : vpc[p] = "vrm" =>
           /\ \A c \in Containers : record[c] = "made" => c \in listed[p]
           /\ \A q \in Clients : vpc[q] \notin {"mount", "record"}

(* What a creation mounts is there, or about to be made. *)
MountInv ==
  /\ \A p \in Clients : vpc[p] = "mount" =>
       \A v \in mounts[von[p]] : v \in volumes \/ v \in listed[p] \/ v = von[p] \/ Excused(v)
  /\ \A p \in Clients : vpc[p] = "record" => \A v \in mounts[von[p]] : v \in volumes \/ Excused(v)

VolumesInv ==
  /\ VolumesTypeOK /\ VLockInv /\ VStageInv /\ AnonInv /\ AnonymousGone /\ PruneInv
  /\ RmApart => RmInv /\ MountInv /\ VolumesKept

(* The target of an idle client is a container. *)
LEMMA IdleTarget == AContainer \in Containers
BY ContainerAssumption DEF AContainer

(* A creation begins: what it takes over from others is there, or excused. *)
LEMMA CreateLockKeeps ==
  ASSUME VolumesInv, NEW p \in Clients, NEW c \in Containers, NEW named \in SUBSET Named,
         NEW from \in SUBSET Made, CreateLock(p, c, named, from)
  PROVE  VolumesInv'
<1> USE NamedAssumption, ClientAssumption, IdleTarget DEF VolumesInv, VolumesTypeOK
<1>1. VolumesTypeOK'
  BY DEF AllVolumes, CreateLock, VolumesFrom, Made
<1>2. VLockInv'
  BY DEF VLockInv, VHolds, CreateLock, VolumesFrom, Made
<1>3. VStageInv'
  BY DEF VStageInv, VLockInv, VHolds, CreateLock, VolumesFrom, Made
<1>4. AnonInv'
  BY DEF AnonInv, VStageInv, CreateLock, VolumesFrom, Made
<1>5. AnonymousGone'
  BY DEF AnonymousGone, AnonInv, VStageInv, CreateLock, VolumesFrom, Made
<1>6. PruneInv'
  BY DEF PruneInv, VLockInv, VHolds, VStageInv, CreateLock, VolumesFrom, Made
<1>7. RmApart => RmInv'
  BY DEF RmInv, VLockInv, VHolds, VStageInv, CreateLock, VolumesFrom, Made
<1>8. RmApart => MountInv'
  BY DEF MountInv, VolumesKept, Excused, VLockInv, VHolds, VStageInv, CreateLock, VolumesFrom, Made
<1>9. RmApart => VolumesKept'
  BY DEF VolumesKept, MountInv, RmInv, PruneInv, Excused, VStageInv, CreateLock, VolumesFrom, Made
<1> QED BY <1>1, <1>2, <1>3, <1>4, <1>5, <1>6, <1>7, <1>8, <1>9 DEF VolumesInv

(* It makes its volumes, none of which another container has for its own. *)
LEMMA MountVolumesKeeps == ASSUME VolumesInv, NEW p \in Clients, MountVolumes(p) PROVE VolumesInv'
<1> USE NamedAssumption, ClientAssumption, IdleTarget DEF VolumesInv, VolumesTypeOK
<1>1. VolumesTypeOK'
  BY DEF AllVolumes, MountVolumes, VGo
<1>2. VLockInv'
  BY DEF VLockInv, VHolds, MountVolumes, VGo
<1>3. VStageInv'
  BY DEF VStageInv, VLockInv, VHolds, MountVolumes, VGo
<1>4. AnonInv'
  BY DEF AnonInv, VStageInv, MountVolumes, VGo
<1>5. AnonymousGone'
  BY DEF AnonymousGone, AnonInv, VStageInv, MountVolumes, VGo
<1>6. PruneInv'
  BY DEF PruneInv, VLockInv, VHolds, VStageInv, MountVolumes, VGo
<1>7. RmApart => RmInv'
  BY DEF RmInv, VLockInv, VHolds, VStageInv, Made, MountVolumes, VGo
<1>8. RmApart => MountInv'
  BY DEF MountInv, VolumesKept, Excused, VLockInv, VHolds, VStageInv, MountVolumes, VGo
<1>9. RmApart => VolumesKept'
  BY DEF VolumesKept, MountInv, RmInv, PruneInv, Excused, VStageInv, Made, MountVolumes, VGo
<1> QED BY <1>1, <1>2, <1>3, <1>4, <1>5, <1>6, <1>7, <1>8, <1>9 DEF VolumesInv

(* Its record is made, and all it mounts is there. *)
LEMMA RecordContainerKeeps == ASSUME VolumesInv, NEW p \in Clients, RecordContainer(p) PROVE VolumesInv'
<1> USE NamedAssumption, ClientAssumption, IdleTarget DEF VolumesInv, VolumesTypeOK
<1>1. VolumesTypeOK'
  BY DEF AllVolumes, VStageInv, RecordContainer, VEnd, VUnlock
<1>2. VLockInv'
  BY DEF VLockInv, VHolds, RecordContainer, VEnd, VUnlock
<1>3. VStageInv'
  BY DEF VStageInv, VLockInv, VHolds, RecordContainer, VEnd, VUnlock
<1>4. AnonInv'
  BY DEF AnonInv, VStageInv, RecordContainer, VEnd, VUnlock
<1>5. AnonymousGone'
  BY DEF AnonymousGone, AnonInv, VStageInv, RecordContainer, VEnd, VUnlock
<1>6. PruneInv'
  BY DEF PruneInv, VLockInv, VHolds, VStageInv, RecordContainer, VEnd, VUnlock
<1>7. RmApart => RmInv'
  BY DEF RmInv, VLockInv, VHolds, VStageInv, Made, RecordContainer, VEnd, VUnlock
<1>8. RmApart => MountInv'
  BY DEF MountInv, VolumesKept, Excused, VLockInv, VHolds, VStageInv, RecordContainer, VEnd, VUnlock
<1>9. RmApart => VolumesKept'
  BY DEF VolumesKept, MountInv, RmInv, PruneInv, Excused, VStageInv, Made, RecordContainer, VEnd, VUnlock
<1> QED BY <1>1, <1>2, <1>3, <1>4, <1>5, <1>6, <1>7, <1>8, <1>9 DEF VolumesInv

(* A record is deleted. *)
LEMMA RmRecordKeeps ==
  ASSUME VolumesInv, NEW p \in Clients, NEW c \in Containers, RmRecord(p, c)
  PROVE  VolumesInv'
<1> USE NamedAssumption, ClientAssumption, IdleTarget DEF VolumesInv, VolumesTypeOK
<1>1. VolumesTypeOK'
  BY DEF AllVolumes, RmRecord
<1>2. VLockInv'
  BY DEF VLockInv, VHolds, RmRecord
<1>3. VStageInv'
  BY DEF VStageInv, VLockInv, VHolds, RmRecord
<1>4. AnonInv'
  BY DEF AnonInv, VStageInv, RmRecord
<1>5. AnonymousGone'
  BY DEF AnonymousGone, AnonInv, VStageInv, RmRecord
<1>6. PruneInv'
  BY DEF PruneInv, VLockInv, VHolds, VStageInv, RmRecord
<1>7. RmApart => RmInv'
  BY DEF RmInv, VLockInv, VHolds, VStageInv, Made, RmRecord
<1>8. RmApart => MountInv'
  BY DEF MountInv, VolumesKept, Excused, VLockInv, VHolds, VStageInv, RmRecord
<1>9. RmApart => VolumesKept'
  BY DEF VolumesKept, MountInv, RmInv, PruneInv, Excused, VStageInv, Made, RmRecord
<1> QED BY <1>1, <1>2, <1>3, <1>4, <1>5, <1>6, <1>7, <1>8, <1>9 DEF VolumesInv

(* "rm -v" removes the anonymous volumes, or some of them ... *)
LEMMA RmAnonymousKeeps == ASSUME VolumesInv, NEW p \in Clients, RmAnonymous(p) PROVE VolumesInv'
<1> USE NamedAssumption, ClientAssumption, IdleTarget DEF VolumesInv, VolumesTypeOK
<1>0. PICK r \in {"cleaned", "partly"} : record' = [record EXCEPT ![von[p]] = r]
  BY DEF RmAnonymous
<1>1. VolumesTypeOK'
  BY <1>0 DEF AllVolumes, VStageInv, RmAnonymous, VEnd
<1>2. VLockInv'
  BY DEF VLockInv, VHolds, RmAnonymous, VEnd
<1>3. VStageInv'
  BY <1>0 DEF VStageInv, VLockInv, VHolds, RmAnonymous, VEnd
<1>4. AnonInv'
  BY DEF AnonInv, VStageInv, RmAnonymous, VEnd
<1>5. AnonymousGone'
  BY DEF AnonymousGone, AnonInv, VStageInv, RmAnonymous, VEnd
<1>6. PruneInv'
  BY DEF PruneInv, VLockInv, VHolds, VStageInv, RmAnonymous, VEnd
<1>7. RmApart => RmInv'
  BY DEF RmInv, VLockInv, VHolds, VStageInv, Made, RmAnonymous, VEnd
<1>8. RmApart => MountInv'
  BY DEF MountInv, VolumesKept, Excused, VLockInv, VHolds, VStageInv, RmAnonymous, VEnd
<1>9. RmApart => VolumesKept'
  BY DEF VolumesKept, MountInv, RmInv, PruneInv, Excused, VStageInv, Made, RmAnonymous, VEnd
<1> QED BY <1>1, <1>2, <1>3, <1>4, <1>5, <1>6, <1>7, <1>8, <1>9 DEF VolumesInv

(* ... or nothing, and nobody notices. *)
LEMMA RmAnonymousFailsKeeps == ASSUME VolumesInv, NEW p \in Clients, RmAnonymousFails(p) PROVE VolumesInv'
<1> USE NamedAssumption, ClientAssumption, IdleTarget DEF VolumesInv, VolumesTypeOK
<1>1. VolumesTypeOK'
  BY DEF AllVolumes, RmAnonymousFails, VEnd
<1>2. VLockInv'
  BY DEF VLockInv, VHolds, RmAnonymousFails, VEnd
<1>3. VStageInv'
  BY DEF VStageInv, VLockInv, VHolds, RmAnonymousFails, VEnd
<1>4. AnonInv'
  BY DEF AnonInv, VStageInv, RmAnonymousFails, VEnd
<1>5. AnonymousGone'
  BY DEF AnonymousGone, AnonInv, VStageInv, RmAnonymousFails, VEnd
<1>6. PruneInv'
  BY DEF PruneInv, VLockInv, VHolds, VStageInv, RmAnonymousFails, VEnd
<1>7. RmApart => RmInv'
  BY DEF RmInv, VLockInv, VHolds, VStageInv, Made, RmAnonymousFails, VEnd
<1>8. RmApart => MountInv'
  BY DEF MountInv, VolumesKept, Excused, VLockInv, VHolds, VStageInv, RmAnonymousFails, VEnd
<1>9. RmApart => VolumesKept'
  BY DEF VolumesKept, MountInv, RmInv, PruneInv, Excused, VStageInv, Made, RmAnonymousFails, VEnd
<1> QED BY <1>1, <1>2, <1>3, <1>4, <1>5, <1>6, <1>7, <1>8, <1>9 DEF VolumesInv

(* A named volume is nobody's anonymous one. *)
LEMMA VolumeCreateKeeps ==
  ASSUME VolumesInv, NEW v \in Named, VolumeCreate(v)
  PROVE  VolumesInv'
<1> USE NamedAssumption, ClientAssumption, IdleTarget DEF VolumesInv, VolumesTypeOK
<1>1. VolumesTypeOK'
  BY DEF AllVolumes, VolumeCreate
<1>2. VLockInv'
  BY DEF VLockInv, VHolds, VolumeCreate
<1>3. VStageInv'
  BY DEF VStageInv, VLockInv, VHolds, VolumeCreate
<1>4. AnonInv'
  BY DEF AnonInv, VStageInv, VolumeCreate
<1>5. AnonymousGone'
  BY DEF AnonymousGone, AnonInv, VStageInv, VolumeCreate
<1>6. PruneInv'
  BY DEF PruneInv, VLockInv, VHolds, VStageInv, VolumeCreate
<1>7. RmApart => RmInv'
  BY DEF RmInv, VLockInv, VHolds, VStageInv, Made, VolumeCreate
<1>8. RmApart => MountInv'
  BY DEF MountInv, VolumesKept, Excused, VLockInv, VHolds, VStageInv, VolumeCreate
<1>9. RmApart => VolumesKept'
  BY DEF VolumesKept, MountInv, RmInv, PruneInv, Excused, VStageInv, Made, VolumeCreate
<1> QED BY <1>1, <1>2, <1>3, <1>4, <1>5, <1>6, <1>7, <1>8, <1>9 DEF VolumesInv

(* "volume rm" has its list. *)
LEMMA VolumeRmKeeps ==
  ASSUME VolumesInv, NEW p \in Clients, NEW v \in Named, VolumeRm(p, v)
  PROVE  VolumesInv'
<1> USE NamedAssumption, ClientAssumption, IdleTarget DEF VolumesInv, VolumesTypeOK
<1>1. VolumesTypeOK'
  BY DEF AllVolumes, VolumeRm, Made
<1>2. VLockInv'
  BY DEF VLockInv, VHolds, VolumeRm, Made
<1>3. VStageInv'
  BY DEF VStageInv, VLockInv, VHolds, VolumeRm, Made
<1>4. AnonInv'
  BY DEF AnonInv, VStageInv, VolumeRm, Made
<1>5. AnonymousGone'
  BY DEF AnonymousGone, AnonInv, VStageInv, VolumeRm, Made
<1>6. PruneInv'
  BY DEF PruneInv, VLockInv, VHolds, VStageInv, VolumeRm, Made
<1>7. RmApart => RmInv'
  BY DEF RmInv, VLockInv, VHolds, VStageInv, VolumeRm, Made
<1>8. RmApart => MountInv'
  BY DEF MountInv, VolumesKept, Excused, VLockInv, VHolds, VStageInv, VolumeRm, Made
<1>9. RmApart => VolumesKept'
  BY DEF VolumesKept, MountInv, RmInv, PruneInv, Excused, VStageInv, VolumeRm, Made
<1> QED BY <1>1, <1>2, <1>3, <1>4, <1>5, <1>6, <1>7, <1>8, <1>9 DEF VolumesInv

(* It deletes a volume that is not in use. *)
LEMMA VolumeRemoveKeeps == ASSUME VolumesInv, NEW p \in Clients, VolumeRemove(p) PROVE VolumesInv'
<1> USE NamedAssumption, ClientAssumption, IdleTarget DEF VolumesInv, VolumesTypeOK
<1>1. VolumesTypeOK'
  BY DEF AllVolumes, VolumeRemove, VEnd, UsedVolumes, Made
<1>2. VLockInv'
  BY DEF VLockInv, VHolds, VolumeRemove, VEnd, UsedVolumes, Made
<1>3. VStageInv'
  BY DEF VStageInv, VLockInv, VHolds, VolumeRemove, VEnd, UsedVolumes, Made
<1>4. AnonInv'
  BY DEF AnonInv, VStageInv, VolumeRemove, VEnd, UsedVolumes, Made
<1>5. AnonymousGone'
  BY DEF AnonymousGone, AnonInv, VStageInv, VolumeRemove, VEnd, UsedVolumes, Made
<1>6. PruneInv'
  BY DEF PruneInv, VLockInv, VHolds, VStageInv, VolumeRemove, VEnd, UsedVolumes, Made
<1>7. RmApart => RmInv'
  BY DEF RmInv, VLockInv, VHolds, VStageInv, VolumeRemove, VEnd, UsedVolumes, Made
<1>8. RmApart => MountInv'
  BY DEF MountInv, VolumesKept, Excused, VLockInv, VHolds, VStageInv, VolumeRemove, VEnd, UsedVolumes, Made
<1>9. RmApart => VolumesKept'
  BY DEF VolumesKept, MountInv, RmInv, PruneInv, Excused, VStageInv, VolumeRemove, VEnd, UsedVolumes, Made
<1> QED BY <1>1, <1>2, <1>3, <1>4, <1>5, <1>6, <1>7, <1>8, <1>9 DEF VolumesInv

(* "volume prune" has the lock. *)
LEMMA PruneLockKeeps == ASSUME VolumesInv, NEW p \in Clients, PruneLock(p) PROVE VolumesInv'
<1> USE NamedAssumption, ClientAssumption, IdleTarget DEF VolumesInv, VolumesTypeOK
<1>1. VolumesTypeOK'
  BY DEF AllVolumes, PruneLock, VGo
<1>2. VLockInv'
  BY DEF VLockInv, VHolds, PruneLock, VGo
<1>3. VStageInv'
  BY DEF VStageInv, VLockInv, VHolds, PruneLock, VGo
<1>4. AnonInv'
  BY DEF AnonInv, VStageInv, PruneLock, VGo
<1>5. AnonymousGone'
  BY DEF AnonymousGone, AnonInv, VStageInv, PruneLock, VGo
<1>6. PruneInv'
  BY DEF PruneInv, VLockInv, VHolds, VStageInv, PruneLock, VGo
<1>7. RmApart => RmInv'
  BY DEF RmInv, VLockInv, VHolds, VStageInv, Made, PruneLock, VGo
<1>8. RmApart => MountInv'
  BY DEF MountInv, VolumesKept, Excused, VLockInv, VHolds, VStageInv, PruneLock, VGo
<1>9. RmApart => VolumesKept'
  BY DEF VolumesKept, MountInv, RmInv, PruneInv, Excused, VStageInv, Made, PruneLock, VGo
<1> QED BY <1>1, <1>2, <1>3, <1>4, <1>5, <1>6, <1>7, <1>8, <1>9 DEF VolumesInv

(* It lists what is not in use. *)
LEMMA PruneFilterKeeps ==
  ASSUME VolumesInv, NEW p \in Clients, NEW all \in BOOLEAN, PruneFilter(p, all)
  PROVE  VolumesInv'
<1> USE NamedAssumption, ClientAssumption, IdleTarget DEF VolumesInv, VolumesTypeOK
<1>1. VolumesTypeOK'
  BY DEF AllVolumes, PruneFilter, UsedVolumes, Made
<1>2. VLockInv'
  BY DEF VLockInv, VHolds, PruneFilter, UsedVolumes, Made
<1>3. VStageInv'
  BY DEF VStageInv, VLockInv, VHolds, PruneFilter, UsedVolumes, Made
<1>4. AnonInv'
  BY DEF AnonInv, VStageInv, PruneFilter, UsedVolumes, Made
<1>5. AnonymousGone'
  BY DEF AnonymousGone, AnonInv, VStageInv, PruneFilter, UsedVolumes, Made
<1>6. PruneInv'
  BY DEF PruneInv, VLockInv, VHolds, VStageInv, PruneFilter, UsedVolumes, Made
<1>7. RmApart => RmInv'
  BY DEF RmInv, VLockInv, VHolds, VStageInv, PruneFilter, UsedVolumes, Made
<1>8. RmApart => MountInv'
  BY DEF MountInv, VolumesKept, Excused, VLockInv, VHolds, VStageInv, PruneFilter, UsedVolumes, Made
<1>9. RmApart => VolumesKept'
  BY DEF VolumesKept, MountInv, RmInv, PruneInv, Excused, VStageInv, PruneFilter, UsedVolumes, Made
<1> QED BY <1>1, <1>2, <1>3, <1>4, <1>5, <1>6, <1>7, <1>8, <1>9 DEF VolumesInv

(* It deletes what is still not in use. *)
LEMMA PruneDeleteKeeps == ASSUME VolumesInv, NEW p \in Clients, PruneDelete(p) PROVE VolumesInv'
<1> USE NamedAssumption, ClientAssumption, IdleTarget DEF VolumesInv, VolumesTypeOK
<1>1. VolumesTypeOK'
  BY DEF AllVolumes, PruneDelete, VEnd, VUnlock
<1>2. VLockInv'
  BY DEF VLockInv, VHolds, PruneDelete, VEnd, VUnlock
<1>3. VStageInv'
  BY DEF VStageInv, VLockInv, VHolds, PruneDelete, VEnd, VUnlock
<1>4. AnonInv'
  BY DEF AnonInv, VStageInv, PruneDelete, VEnd, VUnlock
<1>5. AnonymousGone'
  BY DEF AnonymousGone, AnonInv, VStageInv, PruneDelete, VEnd, VUnlock
<1>6. PruneInv'
  BY DEF PruneInv, VLockInv, VHolds, VStageInv, PruneDelete, VEnd, VUnlock
<1>7. RmApart => RmInv'
  BY DEF RmInv, VLockInv, VHolds, VStageInv, Made, PruneDelete, VEnd, VUnlock
<1>8. RmApart => MountInv'
  BY DEF MountInv, VolumesKept, Excused, VLockInv, VHolds, VStageInv, PruneDelete, VEnd, VUnlock
<1>9. RmApart => VolumesKept'
  BY DEF VolumesKept, MountInv, RmInv, PruneInv, Excused, VStageInv, Made, PruneDelete, VEnd, VUnlock
<1> QED BY <1>1, <1>2, <1>3, <1>4, <1>5, <1>6, <1>7, <1>8, <1>9 DEF VolumesInv

(* The invariant at first. *)
LEMMA VolumesInvInit == VolumesInit => VolumesInv
<1> SUFFICES ASSUME VolumesInit PROVE VolumesInv
  OBVIOUS
<1>1. VolumesTypeOK
  BY IdleTarget DEF VolumesInit, VolumesTypeOK, AllVolumes
<1>2. VLockInv /\ VStageInv /\ AnonInv /\ PruneInv
  BY DEF VolumesInit, VLockInv, VHolds, VStageInv, AnonInv, PruneInv
<1>3. AnonymousGone /\ RmInv /\ MountInv /\ VolumesKept
  BY DEF VolumesInit, AnonymousGone, RmInv, MountInv, VolumesKept, Made
<1> QED BY <1>1, <1>2, <1>3 DEF VolumesInv

(* Every step keeps it. *)
LEMMA VolumesInvStep == VolumesInv /\ [VolumesNext]_volumeVars => VolumesInv'
<1> SUFFICES ASSUME VolumesInv, [VolumesNext]_volumeVars PROVE VolumesInv'
  OBVIOUS
<1>1. CASE UNCHANGED volumeVars
  <2>1. UNCHANGED <<volumes, record, mounts, anon, storeLock, vpc, von, listed>>
    BY <1>1 DEF volumeVars
  <2>2. (VolumesTypeOK /\ VLockInv /\ VStageInv /\ AnonInv /\ AnonymousGone /\ PruneInv)'
    BY <2>1 DEF VolumesInv, VolumesTypeOK, VLockInv, VStageInv, AnonInv, AnonymousGone, PruneInv
  <2>3. RmApart => (RmInv /\ MountInv /\ VolumesKept)'
    BY <2>1 DEF VolumesInv, RmInv, MountInv, VolumesKept, Excused, Made
  <2> QED BY <2>2, <2>3 DEF VolumesInv
<1>2. ASSUME NEW p \in Clients, NEW c \in Containers,
             \/ \E named \in SUBSET Named, from \in SUBSET Made : CreateLock(p, c, named, from)
             \/ RmRecord(p, c)
      PROVE  VolumesInv'
  BY <1>2, CreateLockKeeps, RmRecordKeeps
<1>3. ASSUME NEW p \in Clients,
             \/ MountVolumes(p) \/ RecordContainer(p) \/ RmAnonymous(p) \/ RmAnonymousFails(p)
             \/ VolumeRemove(p) \/ PruneLock(p) \/ PruneDelete(p)
      PROVE  VolumesInv'
  BY <1>3, MountVolumesKeeps, RecordContainerKeeps, RmAnonymousKeeps, RmAnonymousFailsKeeps,
     VolumeRemoveKeeps, PruneLockKeeps, PruneDeleteKeeps
<1>4. ASSUME NEW p \in Clients, (\E v \in Named : VolumeRm(p, v)) \/ \E all \in BOOLEAN : PruneFilter(p, all)
      PROVE  VolumesInv'
  BY <1>4, VolumeRmKeeps, PruneFilterKeeps
<1>5. ASSUME NEW v \in Named, VolumeCreate(v) PROVE VolumesInv'
  BY <1>5, VolumeCreateKeeps
<1> QED BY <1>1, <1>2, <1>3, <1>4, <1>5 DEF VolumesNext

(* The invariant of the volumes. *)
LEMMA VolumesInvariant == VolumesSpec => []VolumesInv
BY VolumesInvInit, VolumesInvStep, PTL DEF VolumesSpec

(* The variables of the volume commands keep their types. *)
THEOREM VolumeTypes == VolumesSpec => []VolumesTypeOK
<1>1. VolumesInv => VolumesTypeOK
  BY DEF VolumesInv
<1> QED BY <1>1, VolumesInvariant, PTL

(* No volume of an existing container is removed, when users do not run    *)
(* "volume rm" while containers are created: the lists that volume rm and  *)
(* volume prune have made include every container there is when they       *)
(* delete, and a creation keeps the lock from its first mount to its       *)
(* record.                                                                 *)
THEOREM VolumesAreKept == RmApart => (VolumesSpec => []VolumesKept)
<1> SUFFICES ASSUME RmApart PROVE VolumesSpec => []VolumesKept
  OBVIOUS
<1>1. VolumesInv => VolumesKept
  BY DEF VolumesInv
<1> QED BY <1>1, VolumesInvariant, PTL

(* "rm -v" leaves none of the anonymous volumes, when their removal met no *)
(* error: no creation that began before brings one of them back, as it     *)
(* makes only its own.                                                     *)
THEOREM AnonymousAreGone == VolumesSpec => []AnonymousGone
<1>1. VolumesInv => AnonymousGone
  BY DEF VolumesInv
<1> QED BY <1>1, VolumesInvariant, PTL

-----------------------------------------------------------------------------
(* The hosts store.                                                        *)

(* What is not left to write is current; without the lock nothing is left. *)
HostsInv ==
  /\ HostsTypeOK
  /\ ~hostsLock => todo = {}
  /\ \A c \in Hosts : life[c] = "none" => meta[c] = NoHostName
  /\ ~behind => \A c \in WithMeta(meta) \ todo : lines[c] = NewLines(c)

(* The lines of a hosts file have their type. *)
LEMMA NewLinesType == HostsTypeOK => \A c \in Hosts : NewLines(c) \in SUBSET (Hosts \X HostNames)
<1> SUFFICES ASSUME HostsTypeOK, NEW c \in Hosts PROVE NewLines(c) \in SUBSET (Hosts \X HostNames)
  OBVIOUS
<1>1. \A d \in {e \in WithMeta(meta) : SameNet(c, e)} : d \in Hosts /\ meta[d] \in HostNames
  BY DEF HostsTypeOK, WithMeta
<1>2. \A d \in {e \in WithMeta(meta) : SameNet(c, e)} : <<d, meta[d]>> \in Hosts \X HostNames
  BY <1>1
<1> QED BY <1>2 DEF NewLines

(* A change of meta.json leaves all to write. *)
LEMMA ChangeMetaKeeps ==
  ASSUME HostsInv, NEW c \in Hosts, NEW n \in HostNames \union {NoHostName}, ChangeMeta(c, n),
         life' \in [Hosts -> {"none", "created", "running", "stopped"}], life'[c] # "none",
         \A d \in Hosts \ {c} : life'[d] = life[d], UNCHANGED <<hostsDir, lines>>
  PROVE  HostsInv'
<1>1. HostsTypeOK'
  BY DEF HostsInv, HostsTypeOK, ChangeMeta, WithMeta
<1>2. \A d \in Hosts : life'[d] = "none" => meta'[d] = NoHostName
  BY DEF HostsInv, HostsTypeOK, ChangeMeta
<1>3. WithMeta(meta') \ todo' = {} /\ hostsLock' = TRUE
  BY DEF ChangeMeta
<1> QED BY <1>1, <1>2, <1>3 DEF HostsInv

(* The files depend on nothing but meta. *)
LEMMA MetaSame ==
  ASSUME meta' = meta
  PROVE  WithMeta(meta)' = WithMeta(meta) /\ \A c : NewLines(c)' = NewLines(c)
BY DEF WithMeta, NewLines

(* The invariant at first. *)
LEMMA HostsInvInit == HostsInit => HostsInv
BY HostNameAssumption DEF HostsInit, HostsInv, HostsTypeOK, WithMeta

(* Every step keeps it. *)
LEMMA HostsInvStep == HostsInv /\ [HostsNext]_hostsVars => HostsInv'
<1> SUFFICES ASSUME HostsInv, [HostsNext]_hostsVars PROVE HostsInv'
  OBVIOUS
<1>1. CASE UNCHANGED hostsVars
  BY <1>1, MetaSame DEF HostsInv, HostsTypeOK, hostsVars
<1>2. ASSUME NEW c \in Hosts, AllocHostsFile(c) PROVE HostsInv'
  <2>1. HostsTypeOK'
    BY <1>2 DEF HostsInv, HostsTypeOK, AllocHostsFile
  <2>2. c \notin WithMeta(meta)
    BY <1>2 DEF HostsInv, AllocHostsFile, WithMeta
  <2> QED BY <1>2, <2>1, <2>2, MetaSame DEF HostsInv, HostsTypeOK, AllocHostsFile, WithMeta
<1>3. ASSUME NEW c \in Hosts, LoseTask(c) PROVE HostsInv'
  BY <1>3, MetaSame DEF HostsInv, HostsTypeOK, LoseTask
<1>4. ASSUME NEW c \in Hosts, DeleteHosts(c) PROVE HostsInv'
  <2>1. HostsTypeOK'
    BY <1>4 DEF HostsInv, HostsTypeOK, DeleteHosts
  <2>2. \A d \in Hosts : life'[d] = "none" => meta'[d] = NoHostName
    BY <1>4 DEF HostsInv, HostsTypeOK, DeleteHosts
  <2>3. ASSUME ~behind' PROVE \A d \in WithMeta(meta') \ todo' : lines'[d] = NewLines(d)'
    <3>1. meta' = meta /\ c \notin WithMeta(meta) /\ ~behind
      BY <1>4, <2>3 DEF HostsInv, HostsTypeOK, DeleteHosts, WithMeta
    <3> QED BY <1>4, <3>1, MetaSame DEF HostsInv, HostsTypeOK, DeleteHosts, WithMeta
  <2> QED BY <1>4, <2>1, <2>2, <2>3 DEF HostsInv, DeleteHosts
<1>5. ASSUME NEW c \in Hosts, NEW n \in HostNames, AcquireHosts(c, n) \/ UpdateHosts(c, n) PROVE HostsInv'
  BY <1>5, ChangeMetaKeeps DEF AcquireHosts, UpdateHosts, HostsInv, HostsTypeOK
<1>6. ASSUME NEW c \in Hosts, ReleaseHosts(c) PROVE HostsInv'
  BY <1>6, ChangeMetaKeeps DEF ReleaseHosts, HostsInv, HostsTypeOK
<1>7. ASSUME NEW c \in Hosts, WriteHosts(c) PROVE HostsInv'
  <2>1. NewLines(c) \in SUBSET (Hosts \X HostNames)
    BY NewLinesType DEF HostsInv
  <2>2. HostsTypeOK'
    BY <1>7, <2>1 DEF WriteHosts, HostsInv, HostsTypeOK
  <2>3. meta' = meta /\ life' = life /\ hostsLock' = hostsLock /\ hostsLock /\ todo' = todo \ {c}
    BY <1>7 DEF WriteHosts
  <2>4. \A d : NewLines(d)' = NewLines(d)
    BY <2>3, MetaSame
  <2>5. ASSUME ~behind', NEW d \in WithMeta(meta) \ todo' PROVE lines'[d] = NewLines(d)
    <3>1. lines' = [lines EXCEPT ![c] = NewLines(c)] /\ ~behind /\ d \in Hosts
      BY <1>7, <2>5 DEF WriteHosts, WithMeta
    <3>2. CASE d = c
      BY <3>1, <3>2 DEF HostsInv, HostsTypeOK
    <3>3. CASE d # c
      BY <2>3, <2>5, <3>1, <3>3 DEF HostsInv, HostsTypeOK
    <3> QED BY <3>2, <3>3
  <2> QED BY <2>2, <2>3, <2>4, <2>5 DEF HostsInv
<1>8. CASE UnlockHosts \/ DieHoldingHosts
  BY <1>8, MetaSame DEF UnlockHosts, DieHoldingHosts, HostsInv, HostsTypeOK
<1> QED BY <1>1, <1>2, <1>3, <1>4, <1>5, <1>6, <1>7, <1>8 DEF HostsNext

(* The invariant of the hosts store. *)
LEMMA HostsInvariant == HostsSpec => []HostsInv
BY HostsInvInit, HostsInvStep, PTL DEF HostsSpec

(* The variables of the hosts store keep their types. *)
THEOREM HostsTypes == HostsSpec => []HostsTypeOK
<1>1. HostsInv => HostsTypeOK
  BY DEF HostsInv
<1> QED BY <1>1, HostsInvariant, PTL

(* Between two operations the hosts files are current, unless a death, a   *)
(* write error or the removal of a container that never left its network   *)
(* has spoiled them since the last change that went through.               *)
THEOREM HostsAreCurrent == HostsSpec => []HostsCurrent
<1>1. HostsInv => HostsCurrent
  BY DEF HostsInv, HostsCurrent
<1> QED BY <1>1, HostsInvariant, PTL

-----------------------------------------------------------------------------
(* The network configurations.                                             *)

(* A choice that is not stale is of a subnet that no network has. *)
NetInv ==
  /\ NetTypeOK /\ SubnetsDistinct
  /\ \A p \in Clients : npc[p] = "fsWrite" => subnet[p] \in Subnets
  /\ \A p \in Clients : npc[p] = "fsWrite" /\ p \notin stale => \A n \in Networks : conf[n] # subnet[p]

(* A subnet is not the lack of one. *)
LEMMA SubnetThere == \A s \in Subnets : s # NoSubnet
BY SubnetAssumption DEF Subnets, DefaultCIDR

(* A step that writes no configuration. *)
LEMMA NoWrite ==
  ASSUME NetInv, NetTypeOK', UNCHANGED <<conf, stale, raced>>, NEW p \in Clients, npc'[p] # "fsWrite",
         \A q \in Clients \ {p} : npc'[q] = npc[q] /\ subnet'[q] = subnet[q]
  PROVE  NetInv'
BY DEF NetInv, SubnetsDistinct, Exists

(* The invariant at first. *)
LEMMA NetInvInit == NetInit => NetInv
BY NetworkAssumption DEF NetInit, NetInv, NetTypeOK, SubnetsDistinct, Exists

(* Every step keeps it. *)
LEMMA NetInvStep == NetInv /\ [NetNext]_netVars => NetInv'
<1> SUFFICES ASSUME NetInv, [NetNext]_netVars PROVE NetInv'
  OBVIOUS
<1>0. CASE UNCHANGED netVars
  BY <1>0 DEF NetInv, NetTypeOK, SubnetsDistinct, Exists, netVars
<1>1. ASSUME NEW p \in Clients, EnsureDefault(p) \/ CreateDefault(p) \/ NetworkMap(p) PROVE NetInv'
  <2>1. NetTypeOK'
    BY <1>1, NetworkAssumption DEF EnsureDefault, CreateDefault, NetworkMap, NGo, NEnd, NetInv, NetTypeOK
  <2> QED BY <1>1, <2>1, NoWrite DEF EnsureDefault, CreateDefault, NetworkMap, NGo, NEnd, NetInv, NetTypeOK
<1>2. ASSUME NEW p \in Clients, NEW n \in Networks, NetworkCreate(p, n) \/ NetworkRm(p, n) PROVE NetInv'
  <2>1. NetTypeOK'
    BY <1>2 DEF NetworkCreate, NetworkRm, NetInv, NetTypeOK
  <2> QED BY <1>2, <2>1, NoWrite DEF NetworkCreate, NetworkRm, NetInv, NetTypeOK
<1>3. ASSUME NEW p \in Clients, ParseSubnet(p) PROVE NetInv'
  <2>1. CASE NEnd(p) /\ UNCHANGED <<conf, stale, raced>>
    <3>1. NetTypeOK'
      BY <2>1, NetworkAssumption DEF NEnd, NetInv, NetTypeOK
    <3> QED BY <2>1, <3>1, NoWrite DEF NEnd, NetInv, NetTypeOK
  <2>2. ASSUME NEW s \in FreeSubnets(nnet[p]), subnet' = [subnet EXCEPT ![p] = s],
               npc' = [npc EXCEPT ![p] = "fsWrite"], stale' = stale \ {p}, UNCHANGED <<nnet, conf, raced>>
        PROVE  NetInv'
    <3>1. s \in Subnets
      BY SubnetAssumption DEF FreeSubnets, Subnets, DefaultCIDR, StartingCIDR
    <3>2. \A n \in Networks : conf[n] # s
      BY <2>2, <3>1, SubnetThere DEF FreeSubnets, UsedSubnets, Exists
    <3>3. NetTypeOK'
      BY <2>2, <3>1 DEF NetInv, NetTypeOK
    <3> QED BY <2>2, <3>1, <3>2, <3>3 DEF NetInv, NetTypeOK, SubnetsDistinct, Exists
  <2> QED BY <1>3, <2>1, <2>2 DEF ParseSubnet
<1>4. ASSUME NEW p \in Clients, FsWrite(p) PROVE NetInv'
  <2>1. PICK n \in Networks : n = nnet[p]
    BY DEF NetInv, NetTypeOK
  <2>2. CASE UNCHANGED <<conf, stale, raced>>
    <3>1. NetTypeOK'
      BY <1>4, <2>2, NetworkAssumption DEF FsWrite, NEnd, NetInv, NetTypeOK
    <3> QED BY <1>4, <2>2, <3>1, NoWrite DEF FsWrite, NEnd, NetInv, NetTypeOK
  <2>3. CASE /\ ~Exists(n) /\ conf' = [conf EXCEPT ![n] = subnet[p]] /\ stale' = Clients \ {p}
             /\ raced' = IF p \in stale THEN raced \union {n} ELSE raced \ {n}
    <3>1. subnet[p] \in Subnets /\ npc[p] = "fsWrite" /\ NEnd(p)
      BY <1>4 DEF FsWrite, NetInv
    <3>2. NetTypeOK'
      BY <2>3, <3>1, NetworkAssumption DEF NEnd, NetInv, NetTypeOK
    <3>3. SubnetsDistinct'
      BY <2>3, <3>1, SubnetAssumption DEF NetInv, NetTypeOK, SubnetsDistinct, Exists
    <3> QED BY <2>3, <3>1, <3>2, <3>3 DEF NEnd, NetInv, NetTypeOK
  <2> QED BY <1>4, <2>1, <2>2, <2>3 DEF FsWrite
<1>5. ASSUME NEW p \in Clients, FsRemove(p) PROVE NetInv'
  <2>1. NetTypeOK'
    BY <1>5, NetworkAssumption DEF FsRemove, NEnd, NetInv, NetTypeOK
  <2>2. SubnetsDistinct'
    BY <1>5 DEF FsRemove, NetInv, NetTypeOK, SubnetsDistinct, Exists
  <2> QED BY <1>5, <2>1, <2>2, SubnetThere DEF FsRemove, NEnd, NetInv, NetTypeOK
<1> QED BY <1>0, <1>1, <1>2, <1>3, <1>4, <1>5 DEF NetNext

(* The invariant of the network configurations. *)
LEMMA NetInvariant == NetSpec => []NetInv
BY NetInvInit, NetInvStep, PTL DEF NetSpec

(* The variables of the network commands keep their types. *)
THEOREM NetTypes == NetSpec => []NetTypeOK
<1>1. NetInv => NetTypeOK
  BY DEF NetInv
<1> QED BY <1>1, NetInvariant, PTL

(* Two networks share a subnet only if one of them was written on a choice *)
(* that a write of somebody else had overtaken.                            *)
THEOREM SubnetsAreDistinct == NetSpec => []SubnetsDistinct
<1>1. NetInv => SubnetsDistinct
  BY DEF NetInv
<1> QED BY <1>1, NetInvariant, PTL

-----------------------------------------------------------------------------
(* Ports.                                                                  *)

(* A container is created by one client at most, and not again; a client   *)
(* without one has parsed no flags.                                        *)
OneCreator ==
  /\ \A p \in Clients : creating[p] = {} => flags[p] = 0
  /\ \A p \in Clients : \A x, y \in creating[p] : x = y
  /\ \A p \in Clients : creating[p] \cap created = {}
  /\ \A p, q \in Clients : p # q => creating[p] \cap creating[q] = {}

(* The ports that were given out lie before allocateStart. *)
AutoInv ==
  \A p \in Clients :
    /\ \A i \in auto[p] : i < allocateStart[p]
    /\ Cardinality(auto[p]) = wanted[p]
    /\ wanted[p] <= flags[p] * MaxCount

(* Who was up at the choices of x was there then, and its ports are free   *)
(* of those of x; before the first choice there are none.                  *)
ChoiceInv ==
  \A p \in Clients :
    /\ flags[p] = 0 => mapped[p] = {}
    /\ flags[p] > 0 => \A x \in creating[p] :
         sawUp[x] \subseteq created /\ \A c \in sawUp[x] : mapped[p] \cap netConf[c] = {}

ApartInv ==
  \A x \in created : sawUp[x] \subseteq created /\ \A c \in sawUp[x] \ {x} : netConf[x] \cap netConf[c] = {}

PortsInv == PortsTypeOK /\ OneCreator /\ AutoInv /\ ChoiceInv /\ ApartInv

(* A set of numbers has a least one, and Min is it. *)
LEMMA LeastOf ==
  ASSUME NEW S \in SUBSET Nat, S # {}
  PROVE  Min(S) \in S /\ \A n \in S : Min(S) <= n
<1> DEFINE R == OpToRel(<, Nat)
<1>1. IsWellFoundedOn(R, Nat)
  BY NatLessThanWellFounded
<1>2. \A x, y \in Nat : x < y => <<x, y>> \in R
  BY DEF OpToRel
<1> HIDE DEF R
<1>3. PICK k \in S : \A m \in S : <<m, k>> \notin R
  BY <1>1, WFMin
<1>4. ASSUME NEW m \in S PROVE k <= m
  <2>1. k \in Nat /\ m \in Nat /\ ~(m < k)
    BY <1>2, <1>3
  <2> QED BY <2>1
<1> QED BY <1>4 DEF Min

(* A flag more makes room for MaxCount ports more. *)
LEMMA Times ==
  ASSUME NEW f \in 0..MaxFlags
  PROVE  /\ f * MaxCount \in Nat
         /\ (f + 1) * MaxCount = f * MaxCount + MaxCount
         /\ f * MaxCount <= MaxFlags * MaxCount
<1>1. MaxCount \in Nat /\ MaxFlags \in Nat /\ f \in Nat /\ f <= MaxFlags
  BY PortsAssumption
<1>2. f * MaxCount \in Nat
  BY <1>1
<1>3. (f + 1) * MaxCount = f * MaxCount + MaxCount
  BY <1>1
<1>4. PICK d \in Nat : MaxFlags = f + d
  <2>1. MaxFlags - f \in Nat /\ MaxFlags = f + (MaxFlags - f)
    BY <1>1
  <2> QED BY <2>1
<1>5. (f + d) * MaxCount = f * MaxCount + d * MaxCount /\ d * MaxCount \in Nat
  BY <1>1, <1>4
<1>6. f * MaxCount <= MaxFlags * MaxCount
  BY <1>2, <1>4, <1>5
<1> QED BY <1>2, <1>3, <1>6

(* portAllocate gives a block of free ports at or behind its start. *)
LEMMA Allocated ==
  ASSUME PortsTypeOK, NEW p \in Clients, NEW count \in 1..MaxCount,
         portAllocate(allocateStart[p], count).ok
  PROVE  \E s \in Nat :
           /\ allocateStart[p] <= s /\ s < LastPort
           /\ portAllocate(allocateStart[p], count).ports = s..(s + count - 1)
           /\ portAllocate(allocateStart[p], count).next = s + count
           /\ (s..(s + count - 1)) \cap getUsedPorts = {}
<1> DEFINE start == allocateStart[p]
           free == FreeStarts(start, count)
<1>1. start \in Nat
  BY PortsAssumption DEF PortsTypeOK
<1>2. free # {} /\ portAllocate(start, count).ports = Block(Min(free), count)
      /\ portAllocate(start, count).next = Min(free) + count
  BY DEF portAllocate
<1>3. free \subseteq Nat
  BY <1>1, PortsAssumption DEF FreeStarts, Starts
<1>4. Min(free) \in free
  BY <1>2, <1>3, LeastOf
<1>5. PICK s \in free : s = Min(free)
  BY <1>4
<1>6. s \in Nat /\ start <= s /\ s < LastPort /\ Block(s, count) \cap getUsedPorts = {}
  BY <1>1, <1>3, <1>5, PortsAssumption DEF FreeStarts, Starts
<1> QED BY <1>2, <1>5, <1>6 DEF Block

(* A block of ports that can be mapped. *)
LEMMA BlockPorts ==
  ASSUME NEW s \in Nat \ {0}, NEW count \in 1..MaxCount, s <= LastPort
  PROVE  s..(s + count - 1) \subseteq HostPort
BY PortsAssumption DEF HostPort

(* What a flag adds is free of the containers that are up. *)
LEMMA FlagKeeps ==
  ASSUME PortsInv, NEW p \in Clients, NEW c \in creating[p], NEW ports \in SUBSET HostPort,
         flags[p] < MaxFlags, ports \cap getUsedPorts = {}, FlagParsed(p, c, ports),
         UNCHANGED <<creating, netConf, created, published, listening>>
  PROVE  /\ flags' \in [Clients -> 0..MaxFlags] /\ mapped' \in [Clients -> SUBSET HostPort]
         /\ sawUp' \in [Containers -> SUBSET Containers]
         /\ OneCreator' /\ ChoiceInv' /\ ApartInv'
<1>1. c \in Containers /\ flags[p] \in 0..MaxFlags /\ MaxFlags \in Nat
  BY PortsAssumption DEF PortsInv, PortsTypeOK
<1>2. flags' \in [Clients -> 0..MaxFlags] /\ mapped' \in [Clients -> SUBSET HostPort]
  BY <1>1 DEF PortsInv, PortsTypeOK, FlagParsed
<1>3. sawUp' \in [Containers -> SUBSET Containers]
  BY <1>1 DEF PortsInv, PortsTypeOK, FlagParsed
<1>4. OneCreator'
  BY DEF PortsInv, PortsTypeOK, OneCreator, FlagParsed
<1>5. sawUp'[c] = sawUp[c] \cap published /\ \A x \in Containers \ {c} : sawUp'[x] = sawUp[x]
  BY <1>1 DEF PortsInv, PortsTypeOK, FlagParsed
<1>6. ApartInv'
  <2>1. c \notin created
    BY DEF PortsInv, OneCreator
  <2> QED BY <1>5, <2>1 DEF PortsInv, PortsTypeOK, ApartInv
<1>7. ASSUME NEW q \in Clients
      PROVE  /\ flags'[q] = 0 => mapped'[q] = {}
             /\ flags'[q] > 0 => \A x \in creating'[q] :
                  sawUp'[x] \subseteq created' /\ \A d \in sawUp'[x] : mapped'[q] \cap netConf'[d] = {}
  <2>1. CASE q = p
    <3>1. flags'[p] = flags[p] + 1 /\ mapped'[p] = mapped[p] \union ports
      BY DEF PortsInv, PortsTypeOK, FlagParsed
    <3>2. \A x \in creating[p] : x = c
      BY DEF PortsInv, OneCreator
    <3>3. \A d \in sawUp'[c] : d \in created /\ ports \cap netConf[d] = {}
      BY <1>5 DEF getUsedPorts, PortsInv, PortsTypeOK
    <3>4. \A d \in sawUp'[c] : mapped[p] \cap netConf[d] = {}
      BY <1>1, <1>5 DEF PortsInv, ChoiceInv
    <3>5. flags'[p] # 0
      BY <1>1, <3>1
    <3> QED BY <2>1, <3>1, <3>2, <3>3, <3>4, <3>5
  <2>2. CASE q # p
    <3>1. flags'[q] = flags[q] /\ mapped'[q] = mapped[q]
      BY <2>2 DEF PortsInv, PortsTypeOK, FlagParsed
    <3>2. \A x \in creating[q] : x \in Containers /\ x # c
      BY <2>2 DEF PortsInv, PortsTypeOK, OneCreator
    <3> QED BY <1>5, <3>1, <3>2 DEF PortsInv, ChoiceInv
  <2> QED BY <2>1, <2>2
<1>8. ChoiceInv'
  BY <1>7 DEF ChoiceInv
<1> QED BY <1>2, <1>3, <1>4, <1>6, <1>8

(* A flag without host ports gets a block behind all of the earlier ones. *)
LEMMA ParseAutoKeeps ==
  ASSUME PortsInv, NEW p \in Clients, NEW c \in Containers, NEW count \in 1..MaxCount, ParseAuto(p, c, count),
         portAllocate(allocateStart[p], count).ok, UNCHANGED creating
  PROVE  PortsInv'
<1>0. /\ PortsTypeOK /\ c \in creating[p] /\ flags[p] < MaxFlags
      /\ UNCHANGED <<netConf, created, published, listening>>
  BY DEF ParseAuto, PortsInv
<1>1. PICK s \in Nat :
        /\ allocateStart[p] <= s /\ s < LastPort
        /\ portAllocate(allocateStart[p], count).ports = s..(s + count - 1)
        /\ portAllocate(allocateStart[p], count).next = s + count
        /\ (s..(s + count - 1)) \cap getUsedPorts = {}
  BY <1>0, Allocated
<1>2. PICK ports : ports = s..(s + count - 1)
  OBVIOUS
<1>3. /\ allocateStart' = [allocateStart EXCEPT ![p] = s + count]
      /\ wanted' = [wanted EXCEPT ![p] = @ + count]
      /\ auto' = [auto EXCEPT ![p] = @ \union ports]
      /\ FlagParsed(p, c, ports)
  BY <1>1, <1>2 DEF ParseAuto
<1>4. /\ allocateStart[p] \in Nat /\ allocateStart[p] >= FirstPort
      /\ count \in Nat /\ count >= 1 /\ count <= MaxCount
      /\ FirstPort \in Nat \ {0} /\ LastPort \in Nat /\ MaxCount \in Nat
  BY <1>0, PortsAssumption DEF PortsTypeOK
<1>5. ports \in SUBSET HostPort /\ s + count \in FirstPort..(LastPort + MaxCount)
  <2>1. s \in Nat \ {0} /\ s <= LastPort
    BY <1>1, <1>4
  <2>2. s..(s + count - 1) \subseteq HostPort
    BY <2>1, BlockPorts
  <2>3. s + count \in FirstPort..(LastPort + MaxCount)
    BY <1>1, <1>4
  <2> QED BY <1>2, <2>2, <2>3
<1>6. /\ flags' \in [Clients -> 0..MaxFlags] /\ mapped' \in [Clients -> SUBSET HostPort]
      /\ sawUp' \in [Containers -> SUBSET Containers]
      /\ OneCreator' /\ ChoiceInv' /\ ApartInv'
  BY <1>0, <1>1, <1>2, <1>3, <1>5, FlagKeeps
<1>7. flags[p] \in 0..MaxFlags /\ flags'[p] = flags[p] + 1 /\ \A q \in Clients \ {p} : flags'[q] = flags[q]
  BY <1>0, <1>3 DEF PortsTypeOK, FlagParsed
<1>8. Cardinality(auto[p] \union ports) = wanted[p] + count
  <2>1. IsFiniteSet(auto[p])
    <3>1. IsFiniteSet(HostPort)
      BY <1>4, FS_Interval DEF HostPort
    <3> QED BY <1>0, <3>1, FS_Subset DEF PortsTypeOK
  <2>2. IsFiniteSet(ports) /\ Cardinality(ports) = count
    BY <1>1, <1>2, <1>4, FS_Interval
  <2>3. auto[p] \cap ports = {}
    BY <1>0, <1>1, <1>2, <1>4 DEF PortsInv, PortsTypeOK, AutoInv, HostPort
  <2>4. Cardinality(auto[p]) = wanted[p] /\ wanted[p] \in Nat
    BY <1>0 DEF PortsInv, PortsTypeOK, AutoInv
  <2>5. Cardinality(auto[p] \union ports) = Cardinality(auto[p]) + Cardinality(ports) - Cardinality({})
    BY <2>1, <2>2, <2>3, FS_Union
  <2> QED BY <1>4, <2>2, <2>4, <2>5, FS_EmptySet
<1>9. /\ wanted[p] \in Nat /\ wanted[p] + count <= flags'[p] * MaxCount
      /\ wanted[p] + count \in 0..(MaxFlags * MaxCount)
  <2>1. wanted[p] \in Nat /\ wanted[p] <= flags[p] * MaxCount
    BY <1>0 DEF PortsInv, PortsTypeOK, AutoInv
  <2>2. flags[p] * MaxCount \in Nat /\ (flags[p] + 1) * MaxCount = flags[p] * MaxCount + MaxCount
    BY <1>7, Times
  <2>3. flags'[p] \in 0..MaxFlags
    BY <1>6
  <2>4. flags'[p] * MaxCount \in Nat /\ flags'[p] * MaxCount <= MaxFlags * MaxCount
    BY <2>3, Times
  <2>5. PICK m \in Int : m = MaxFlags * MaxCount
    BY PortsAssumption
  <2> QED BY <1>4, <1>7, <2>1, <2>2, <2>4, <2>5
<1>10. PortsTypeOK'
  <2>1. allocateStart' \in [Clients -> FirstPort..(LastPort + MaxCount)]
    BY <1>0, <1>3, <1>5 DEF PortsTypeOK
  <2>2. wanted' \in [Clients -> 0..(MaxFlags * MaxCount)]
    BY <1>0, <1>3, <1>9 DEF PortsTypeOK
  <2>3. auto' \in [Clients -> SUBSET HostPort]
    BY <1>0, <1>3, <1>5 DEF PortsTypeOK
  <2> QED BY <1>0, <1>6, <2>1, <2>2, <2>3 DEF PortsTypeOK
<1>11. AutoInv'
  <2>1. ASSUME NEW i \in auto[p] \union ports PROVE i < s + count
    BY <1>0, <1>1, <1>2, <1>4 DEF PortsInv, PortsTypeOK, AutoInv, HostPort
  <2>2. /\ auto'[p] = auto[p] \union ports /\ allocateStart'[p] = s + count /\ wanted'[p] = wanted[p] + count
        /\ \A q \in Clients \ {p} :
             auto'[q] = auto[q] /\ allocateStart'[q] = allocateStart[q] /\ wanted'[q] = wanted[q]
    BY <1>0, <1>3 DEF PortsTypeOK
  <2> QED BY <1>7, <1>8, <1>9, <2>1, <2>2 DEF PortsInv, AutoInv
<1> QED BY <1>6, <1>10, <1>11 DEF PortsInv

(* A flag with host ports. *)
LEMMA ParseHostKeeps ==
  ASSUME PortsInv, NEW p \in Clients, NEW c \in Containers, NEW count \in 1..MaxCount,
         NEW first \in FirstPort..(LastPort + 1 - count), ParseHost(p, c, first, count),
         Block(first, count) \cap getUsedPorts = {}
  PROVE  PortsInv'
<1>0. /\ PortsTypeOK /\ c \in creating[p] /\ flags[p] < MaxFlags
      /\ FlagParsed(p, c, Block(first, count))
      /\ UNCHANGED <<allocateStart, wanted, auto, creating, netConf, created, published, listening>>
  BY DEF ParseHost, PortsInv
<1>1. Block(first, count) \in SUBSET HostPort
  BY PortsAssumption DEF Block, HostPort
<1>2. /\ flags' \in [Clients -> 0..MaxFlags] /\ mapped' \in [Clients -> SUBSET HostPort]
      /\ sawUp' \in [Containers -> SUBSET Containers]
      /\ OneCreator' /\ ChoiceInv' /\ ApartInv'
  BY <1>0, <1>1, FlagKeeps
<1>3. PortsTypeOK'
  BY <1>0, <1>2 DEF PortsTypeOK
<1>4. flags[p] \in 0..MaxFlags /\ flags'[p] = flags[p] + 1 /\ \A q \in Clients \ {p} : flags'[q] = flags[q]
  BY <1>0 DEF PortsTypeOK, FlagParsed
<1>5. wanted[p] <= flags'[p] * MaxCount
  <2>1. wanted[p] \in Nat /\ wanted[p] <= flags[p] * MaxCount
    BY <1>0 DEF PortsInv, PortsTypeOK, AutoInv
  <2>2. flags[p] * MaxCount \in Nat /\ (flags[p] + 1) * MaxCount = flags[p] * MaxCount + MaxCount
    BY <1>4, Times
  <2>3. MaxCount \in Nat
    BY PortsAssumption
  <2> QED BY <1>4, <2>1, <2>2, <2>3
<1>6. AutoInv'
  BY <1>0, <1>4, <1>5 DEF PortsInv, AutoInv
<1> QED BY <1>2, <1>3, <1>6 DEF PortsInv

(* The command of p ends; what it knew is forgotten. *)
LEMMA EndsKeeps ==
  ASSUME PortsInv, NEW p \in Clients, CreateEnds(p)
  PROVE  /\ allocateStart' \in [Clients -> FirstPort..(LastPort + MaxCount)]
         /\ creating' \in [Clients -> SUBSET Containers] /\ flags' \in [Clients -> 0..MaxFlags]
         /\ wanted' \in [Clients -> 0..(MaxFlags * MaxCount)]
         /\ auto' \in [Clients -> SUBSET HostPort] /\ mapped' \in [Clients -> SUBSET HostPort]
         /\ creating'[p] = {} /\ flags'[p] = 0 /\ mapped'[p] = {}
         /\ \A q \in Clients \ {p} :
              creating'[q] = creating[q] /\ flags'[q] = flags[q] /\ mapped'[q] = mapped[q]
         /\ AutoInv'
<1> USE DEF CreateEnds
<1>1. /\ allocateStart' \in [Clients -> FirstPort..(LastPort + MaxCount)]
      /\ creating' \in [Clients -> SUBSET Containers] /\ flags' \in [Clients -> 0..MaxFlags]
      /\ auto' \in [Clients -> SUBSET HostPort] /\ mapped' \in [Clients -> SUBSET HostPort]
  BY PortsAssumption DEF PortsInv, PortsTypeOK
<1>2. wanted' \in [Clients -> 0..(MaxFlags * MaxCount)]
  <2>1. MaxFlags * MaxCount \in Nat
    BY PortsAssumption
  <2>2. 0 \in 0..(MaxFlags * MaxCount)
    BY <2>1
  <2> QED BY <2>2 DEF PortsInv, PortsTypeOK
<1>3. /\ creating'[p] = {} /\ flags'[p] = 0 /\ mapped'[p] = {} /\ auto'[p] = {} /\ wanted'[p] = 0
      /\ \A q \in Clients \ {p} :
           /\ creating'[q] = creating[q] /\ flags'[q] = flags[q] /\ mapped'[q] = mapped[q]
           /\ auto'[q] = auto[q] /\ wanted'[q] = wanted[q] /\ allocateStart'[q] = allocateStart[q]
  BY DEF PortsInv, PortsTypeOK
<1>4. 0 <= 0 * MaxCount /\ Cardinality({}) = 0
  BY PortsAssumption, FS_EmptySet
<1>5. AutoInv'
  BY <1>3, <1>4, ZenonT(40) DEF PortsInv, AutoInv
<1> QED BY <1>1, <1>2, <1>3, <1>5

(* A flag that cannot be had ends the command. *)
LEMMA GivesUpKeeps ==
  ASSUME PortsInv, NEW p \in Clients, CreateEnds(p), UNCHANGED <<sawUp, netConf, created, published, listening>>
  PROVE  PortsInv'
<1>1. PortsTypeOK'
  BY EndsKeeps DEF PortsInv, PortsTypeOK
<1>2. OneCreator' /\ ChoiceInv'
  BY EndsKeeps DEF PortsInv, OneCreator, ChoiceInv
<1>3. ApartInv'
  BY DEF PortsInv, ApartInv
<1> QED BY <1>1, <1>2, <1>3, EndsKeeps DEF PortsInv

(* The new container has the ports of its flags. *)
LEMMA StoreKeeps ==
  ASSUME PortsInv, NEW p \in Clients, NEW c \in Containers, StoreNetworkConfig(p, c) PROVE PortsInv'
<1>0. /\ c \in creating[p] /\ flags[p] > 0 /\ CreateEnds(p) /\ UNCHANGED <<published, listening, sawUp>>
      /\ created' = created \union {c}
  BY DEF StoreNetworkConfig
<1>1. /\ netConf' \in [Containers -> SUBSET HostPort] /\ netConf'[c] = mapped[p]
      /\ \A d \in Containers \ {c} : netConf'[d] = netConf[d]
  BY DEF StoreNetworkConfig, PortsInv, PortsTypeOK
<1>2. PortsTypeOK'
  BY <1>0, <1>1, EndsKeeps DEF PortsInv, PortsTypeOK
<1>3. OneCreator'
  BY <1>0, EndsKeeps DEF PortsInv, OneCreator
<1>4. c \notin created
  BY <1>0 DEF PortsInv, OneCreator
<1>5. ASSUME NEW q \in Clients
      PROVE  /\ flags'[q] = 0 => mapped'[q] = {}
             /\ flags'[q] > 0 => \A x \in creating'[q] :
                  sawUp'[x] \subseteq created' /\ \A d \in sawUp'[x] : mapped'[q] \cap netConf'[d] = {}
  <2>1. CASE q = p
    BY <1>0, <2>1, EndsKeeps
  <2>2. CASE q # p
    <3>1. creating'[q] = creating[q] /\ flags'[q] = flags[q] /\ mapped'[q] = mapped[q]
      BY <1>0, <2>2, EndsKeeps
    <3>2. flags[q] > 0 => \A x \in creating[q] :
                  sawUp[x] \subseteq created /\ \A d \in sawUp[x] : mapped[q] \cap netConf[d] = {}
      BY DEF PortsInv, ChoiceInv
    <3>3. \A d \in created : netConf'[d] = netConf[d]
      BY <1>1, <1>4 DEF PortsInv, PortsTypeOK
    <3> QED BY <1>0, <3>1, <3>2, <3>3 DEF PortsInv, ChoiceInv
  <2> QED BY <2>1, <2>2
<1>6. ChoiceInv'
  BY <1>5 DEF ChoiceInv
<1>7. ASSUME NEW x \in created'
      PROVE  sawUp'[x] \subseteq created' /\ \A d \in sawUp'[x] \ {x} : netConf'[x] \cap netConf'[d] = {}
  <2>1. \A d \in created : netConf'[d] = netConf[d]
    BY <1>1, <1>4 DEF PortsInv, PortsTypeOK
  <2>2. CASE x = c
    <3>1. sawUp[c] \subseteq created /\ \A d \in sawUp[c] : mapped[p] \cap netConf[d] = {}
      BY <1>0 DEF PortsInv, ChoiceInv
    <3> QED BY <1>0, <1>1, <2>1, <2>2, <3>1
  <2>3. CASE x \in created
    <3>1. sawUp[x] \subseteq created /\ \A d \in sawUp[x] \ {x} : netConf[x] \cap netConf[d] = {}
      BY <2>3 DEF PortsInv, ApartInv
    <3> QED BY <1>0, <2>1, <2>3, <3>1
  <2> QED BY <1>0, <2>2, <2>3
<1>8. ApartInv'
  BY <1>7 DEF ApartInv
<1> QED BY <1>0, <1>2, <1>3, <1>6, <1>8, EndsKeeps DEF PortsInv

(* A creation begins; as yet it has chosen no ports. *)
LEMMA CreateBeginsKeeps ==
  ASSUME PortsInv, NEW p \in Clients, NEW c \in Containers, CreateBegins(p, c) PROVE PortsInv'
<1>0. /\ creating[p] = {} /\ c \notin created /\ \A q \in Clients : c \notin creating[q]
      /\ UNCHANGED <<allocateStart, flags, wanted, auto, mapped, netConf, created, published, listening>>
  BY DEF CreateBegins, Creating
<1>1. /\ creating' \in [Clients -> SUBSET Containers] /\ creating'[p] = {c}
      /\ \A q \in Clients \ {p} : creating'[q] = creating[q]
      /\ sawUp' \in [Containers -> SUBSET Containers]
      /\ \A x \in Containers \ {c} : sawUp'[x] = sawUp[x]
  BY DEF CreateBegins, PortsInv, PortsTypeOK
<1>2. PortsTypeOK' /\ AutoInv'
  BY <1>0, <1>1 DEF PortsInv, PortsTypeOK, AutoInv
<1>3. OneCreator'
  BY <1>0, <1>1 DEF PortsInv, OneCreator
<1>4. flags[p] = 0
  BY <1>0 DEF PortsInv, OneCreator
<1>5. ChoiceInv'
  BY <1>0, <1>1, <1>4 DEF PortsInv, PortsTypeOK, ChoiceInv
<1>6. ApartInv'
  BY <1>0, <1>1 DEF PortsInv, PortsTypeOK, ApartInv
<1> QED BY <1>2, <1>3, <1>5, <1>6 DEF PortsInv

(* The containers come up, go down and are removed; other programs listen  *)
(* on ports or cease to.                                                   *)
LEMMA UpDownKeeps ==
  ASSUME PortsInv,
         \/ \E c \in Containers : Publish(c) \/ Withdraw(c)
         \/ \E i \in FirstPort..LastPort : Listen(i)
  PROVE  PortsInv'
<1>1. /\ UNCHANGED <<allocateStart, creating, flags, wanted, auto, mapped, netConf, created, sawUp>>
      /\ published' \subseteq created /\ listening' \subseteq FirstPort..LastPort
  BY DEF Publish, Withdraw, Listen, PortsInv, PortsTypeOK
<1> QED BY <1>1 DEF PortsInv, PortsTypeOK, OneCreator, AutoInv, ChoiceInv, ApartInv

(* A container that is removed counts no more for the others. *)
LEMMA RemovePortsKeeps == ASSUME PortsInv, NEW c \in Containers, RemovePorts(c) PROVE PortsInv'
<1>0. /\ c \in created /\ c \notin published /\ created' = created \ {c}
      /\ UNCHANGED <<allocateStart, creating, flags, wanted, auto, mapped, published, listening>>
  BY DEF RemovePorts
<1>1. /\ netConf' \in [Containers -> SUBSET HostPort]
      /\ \A d \in Containers \ {c} : netConf'[d] = netConf[d]
      /\ sawUp' \in [Containers -> SUBSET Containers]
      /\ \A x \in Containers : sawUp'[x] \subseteq sawUp[x] \ {c}
  BY DEF RemovePorts, PortsInv, PortsTypeOK
<1>2. PortsTypeOK' /\ AutoInv' /\ OneCreator'
  BY <1>0, <1>1 DEF PortsInv, PortsTypeOK, AutoInv, OneCreator
<1>3. ChoiceInv'
  <2>1. \A p \in Clients : creating[p] \subseteq Containers
    BY DEF PortsInv, PortsTypeOK
  <2>2. \A x, d \in Containers : d \in sawUp'[x] => d \in sawUp[x] /\ d # c /\ netConf'[d] = netConf[d]
    BY <1>1
  <2> QED BY <1>0, <1>1, <2>1, <2>2 DEF PortsInv, ChoiceInv
<1>4. ApartInv'
  BY <1>0, <1>1 DEF PortsInv, PortsTypeOK, ApartInv
<1> QED BY <1>2, <1>3, <1>4 DEF PortsInv

(* The invariant at first. *)
LEMMA PortsInvInit == PortsInit => PortsInv
<1> SUFFICES ASSUME PortsInit PROVE PortsInv
  OBVIOUS
<1>1. MaxFlags * MaxCount \in Nat /\ 0 <= 0 * MaxCount /\ Cardinality({}) = 0
  BY PortsAssumption, FS_EmptySet
<1>2. 0 \in 0..(MaxFlags * MaxCount)
  BY <1>1
<1>3. PortsTypeOK
  BY <1>2, PortsAssumption DEF PortsInit, PortsTypeOK
<1>4. AutoInv
  BY <1>1 DEF PortsInit, AutoInv
<1>5. OneCreator /\ ChoiceInv /\ ApartInv
  BY DEF PortsInit, OneCreator, ChoiceInv, ApartInv
<1> QED BY <1>3, <1>4, <1>5 DEF PortsInv

(* Every step keeps it. *)
LEMMA PortsInvStep == PortsInv /\ [PortsNext]_portVars => PortsInv'
<1> SUFFICES ASSUME PortsInv, [PortsNext]_portVars PROVE PortsInv'
  OBVIOUS
<1>1. CASE UNCHANGED portVars
  BY <1>1 DEF portVars, PortsInv, PortsTypeOK, OneCreator, AutoInv, ChoiceInv, ApartInv
<1>2. ASSUME NEW p \in Clients, NEW c \in Containers, CreateBegins(p, c) \/ StoreNetworkConfig(p, c)
      PROVE  PortsInv'
  BY <1>2, CreateBeginsKeeps, StoreKeeps
<1>3. ASSUME NEW p \in Clients, NEW c \in Containers, NEW count \in 1..MaxCount, ParseAuto(p, c, count)
      PROVE  PortsInv'
  <2>1. CASE portAllocate(allocateStart[p], count).ok /\ UNCHANGED creating
    BY <1>3, <2>1, ParseAutoKeeps
  <2>2. CASE CreateEnds(p) /\ UNCHANGED sawUp
    BY <1>3, <2>2, GivesUpKeeps DEF ParseAuto
  <2> QED BY <1>3, <2>1, <2>2 DEF ParseAuto
<1>4. ASSUME NEW p \in Clients, NEW c \in Containers, NEW count \in 1..MaxCount,
             NEW first \in FirstPort..(LastPort + 1 - count), ParseHost(p, c, first, count)
      PROVE  PortsInv'
  <2>1. CASE Block(first, count) \cap getUsedPorts = {}
    BY <1>4, <2>1, ParseHostKeeps
  <2>2. CASE Block(first, count) \cap getUsedPorts # {}
    BY <1>4, <2>2, GivesUpKeeps DEF ParseHost
  <2> QED BY <2>1, <2>2
<1>5. ASSUME NEW c \in Containers, RemovePorts(c) PROVE PortsInv'
  BY <1>5, RemovePortsKeeps
<1> QED BY <1>1, <1>2, <1>3, <1>4, <1>5, UpDownKeeps DEF PortsNext

(* The invariant of the ports. *)
LEMMA PortsInvariant == PortsSpec => []PortsInv
BY PortsInvInit, PortsInvStep, PTL DEF PortsSpec

(* The variables of the port allocation keep their types: allocateStart    *)
(* may pass the end of the range by less than the longest block.           *)
THEOREM PortTypes == PortsSpec => []PortsTypeOK
<1>1. PortsInv => PortsTypeOK
  BY DEF PortsInv
<1> QED BY <1>1, PortsInvariant, PTL

(* The ports a command gets for its flags are all different, as each block *)
(* begins behind the last; and a container shares none with one that was   *)
(* up at all of its choices, whatever came and went since.                 *)
THEOREM PortsAreApart == PortsSpec => []PortsApart
<1>1. PortsInv => PortsApart
  BY DEF PortsInv, PortsApart, AutoDistinct, AutoInv, ApartInv
<1> QED BY <1>1, PortsInvariant, PTL
=============================================================================
