---------------------- MODULE RollbackFileRefinement ----------------------
(***************************************************************************)
(* RollbackFile implements AtomicFile.  The others being idle, a step of   *)
(* process p changes the abstract file only through p: View(p) is its      *)
(* content, AbsPhase(p) and AbsOld(p) the state of the call (Frame).  Each *)
(* step of the code is then one abstract action of p or none (Maps).       *)
(***************************************************************************)
EXTENDS RollbackFileProofs

View(p) ==
  IF pc[p] \in {"backupCopy", "backupUndo"} THEN file
  ELSE IF pc[p] = "rollbackCopy" THEN backup ELSE Recovered

Still(p) == View(p)' = View(p) /\ AbsOld(p)' = AbsOld(p)

Becomes(p, from, to) == AbsPhase(p) \in from /\ AbsPhase(p)' = to

(* One abstract action of p, or none, in terms of p alone.                 *)
MBegin(p) ==
  /\ LockFree /\ Still(p)
  /\ \/ Becomes(p, {"idle"}, "writing") /\ \E v \in Values : val' = [val EXCEPT ![p] = v]
     \/ Becomes(p, {"idle"}, "reading") /\ val' = val

MDelete(p) ==
  /\ LockFree /\ View(p)' = Absent /\ AbsOld(p)' = AbsOld(p)
  /\ AbsPhase(p)' = AbsPhase(p) /\ val' = val

MCommit(p) ==
  /\ Becomes(p, {"writing"}, "committed") /\ val' = val
  /\ View(p)' = val[p] /\ AbsOld(p)' = View(p)

MRevert(p) ==
  /\ Becomes(p, {"committed"}, "reverted") /\ val' = val
  /\ View(p)' = AbsOld(p) /\ AbsOld(p)' = Absent

MGet(p) ==
  /\ Becomes(p, {"reading"}, "got") /\ Still(p)
  /\ val' = [val EXCEPT ![p] = View(p)]

MFail(p) ==
  /\ Becomes(p, {"writing", "reading", "committed", "reverted"}, "failed") /\ val' = val
  /\ View(p)' = View(p) /\ AbsOld(p)' = Absent

MEnd(p) ==
  /\ AbsPhase(p) # "idle" /\ AbsPhase(p)' = "idle" /\ val' = [val EXCEPT ![p] = Absent]
  /\ View(p)' = View(p) /\ AbsOld(p)' = Absent

MSkip(p) == Still(p) /\ AbsPhase(p)' = AbsPhase(p) /\ val' = val

Maps(p) == \/ MBegin(p) \/ MDelete(p) \/ MCommit(p) \/ MRevert(p) \/ MGet(p)
           \/ MFail(p) \/ MEnd(p) \/ MSkip(p)

-----------------------------------------------------------------------------
(* A step that maps for p alone is a step of the abstract file.            *)
LEMMA Frame ==
  ASSUME IndInv, NEW p \in Procs, pc[p] # "idle" \/ LockFree,
         \A q \in Procs \ {p} : pc'[q] = pc[q], Maps(p)
  PROVE  Atomic!ANext \/ UNCHANGED Atomic!avars
<1>1. \A q \in Procs \ {p} : pc[q] = "idle" /\ pc'[q] = "idle"
  BY DEF IndInv, Exclusion, LockFree
<1>2. AbsValue = View(p)
  BY <1>1 DEF AbsValue, At, View
<1>3. AbsValue' = View(p)'
  BY <1>1 DEF AbsValue, At, View
<1>4. \A q \in Procs \ {p} : /\ AbsPhase(q) = "idle" /\ AbsPhase(q)' = "idle"
                             /\ AbsOld(q) = Absent /\ AbsOld(q)' = Absent
  BY <1>1 DEF AbsPhase, AbsOld
<1> DEFINE F == [q \in Procs |-> AbsPhase(q)]
           O == [q \in Procs |-> AbsOld(q)]
<1>5. F' = [F EXCEPT ![p] = AbsPhase(p)'] /\ O' = [O EXCEPT ![p] = AbsOld(p)']
  BY <1>4
<1>6. F[p] = AbsPhase(p) /\ O[p] = AbsOld(p)
  OBVIOUS
<1>7. LockFree => \A q \in Procs : F[q] = "idle"
  BY DEF LockFree, AbsPhase
<1>8. AbsOld(p)' = AbsOld(p) => O' = O
  BY <1>4
<1>9. AbsPhase(p)' = AbsPhase(p) => F' = F
  BY <1>4
<1> HIDE DEF F, O
<1>a. CASE MBegin(p)
  <2>1. (\A q \in Procs : F[q] = "idle") /\ AbsValue' = AbsValue /\ O' = O
    BY <1>a, <1>2, <1>3, <1>7, <1>8 DEF MBegin, Still
  <2>2. CASE AbsPhase(p)' = "reading" /\ val' = val
    BY <2>1, <2>2, <1>5 DEF Atomic!ANext, Atomic!BeginRead, F, O
  <2>3. CASE AbsPhase(p)' = "writing" /\ \E v \in Values : val' = [val EXCEPT ![p] = v]
    <3>1. PICK v \in Values : val' = [val EXCEPT ![p] = v]
      BY <2>3
    <3>2. Atomic!BeginWrite(p, v)
      BY <2>1, <2>3, <3>1, <1>5 DEF Atomic!BeginWrite, F, O
    <3> QED BY <3>2 DEF Atomic!ANext
  <2> QED BY <1>a, <2>2, <2>3 DEF MBegin, Becomes
<1>b. CASE MCommit(p)
  BY <1>b, <1>2, <1>3, <1>5, <1>6 DEF MCommit, Becomes, Atomic!ANext, Atomic!Commit, F, O
<1>c. CASE MRevert(p)
  BY <1>c, <1>2, <1>3, <1>5, <1>6 DEF MRevert, Becomes, Atomic!ANext, Atomic!Revert, F, O
<1>d. CASE MGet(p)
  BY <1>d, <1>2, <1>3, <1>5, <1>6, <1>8 DEF MGet, Still, Becomes, Atomic!ANext, Atomic!Get, F, O
<1>e. CASE MFail(p)
  BY <1>e, <1>2, <1>3, <1>5, <1>6 DEF MFail, Becomes, Atomic!ANext, Atomic!Fail, F, O
<1>f. CASE MEnd(p)
  BY <1>f, <1>2, <1>3, <1>5, <1>6 DEF MEnd, Atomic!ANext, Atomic!End, F, O
<1>g. CASE MSkip(p)
  BY <1>g, <1>2, <1>3, <1>8, <1>9 DEF MSkip, Still, Atomic!avars, F, O
<1>h. CASE MDelete(p)
  BY <1>h, <1>3, <1>7, <1>8, <1>9 DEF MDelete, Atomic!ANext, Atomic!Delete, F, O
<1> QED BY <1>a, <1>b, <1>c, <1>d, <1>e, <1>f, <1>g, <1>h DEF Maps

(* ensureRecovery leaves the abstract file alone; after an abort it fails. *)
LEMMA RecoveryMaps ==
  ASSUME IndInv, NEW p \in Procs, EnsureRecovery(p)
  PROVE  Maps(p) /\ pc[p] # "idle" /\ \A q \in Procs \ {p} : pc'[q] = pc[q]
<1> USE ContentsDistinct DEF Goto, Abort, AfterRecovery, disk
<1>0. pc[p] # "idle"
  BY DEF EnsureRecovery, MarkerRead, BackupExists, StatFile, RemoveFile, ClearMarker, RecoverySteps
<1>. TypeOK /\ Local(p) /\ SoundDisk(p)
  BY <1>0, Before
<1> USE DEF Becomes, Still, View, AbsPhase, AbsOld, Recovered, TypeOK, Local, SoundDisk, Windows, WriteSteps
<1>1. CASE MarkerRead(p)
  <2>1. MSkip(p) \/ MFail(p)
    BY <1>1 DEF MarkerRead, MSkip, MFail, LocalRecovery, LocalWrite, LocalRead, RecoverySteps
  <2> QED BY <1>0, <1>1, <2>1 DEF MarkerRead, Maps
<1>2. CASE BackupExists(p)
  <2>1. MSkip(p)
    BY <1>2 DEF BackupExists, MSkip, LocalRecovery, LocalWrite, LocalRead, RecoverySteps
  <2> QED BY <1>0, <1>2, <2>1 DEF BackupExists, Maps
<1>3. CASE StatFile(p)
  <2>1. MSkip(p)
    BY <1>3 DEF StatFile, MSkip, LocalRecovery, LocalWrite, LocalRead, RecoverySteps
  <2> QED BY <1>0, <1>3, <2>1 DEF StatFile, Maps
<1>4. CASE RemoveFile(p)
  <2>1. MSkip(p)
    BY <1>4 DEF RemoveFile, MSkip, LocalRecovery, LocalWrite, LocalRead, RecoverySteps
  <2> QED BY <1>0, <1>4, <2>1 DEF RemoveFile, Maps
<1>5. CASE ClearMarker(p)
  <2>1. MSkip(p) \/ MFail(p)
    BY <1>5 DEF ClearMarker, MSkip, MFail, LocalRecovery, LocalWrite, LocalRead, RecoverySteps
  <2> QED BY <1>0, <1>5, <2>1 DEF ClearMarker, Maps
<1> QED BY <1>1, <1>2, <1>3, <1>4, <1>5 DEF EnsureRecovery

(* backupRestore changes the abstract file only in a rollback.             *)
LEMMA RestoreMaps ==
  ASSUME IndInv, NEW p \in Procs, BackupRestore(p)
  PROVE  Maps(p) /\ pc[p] # "idle" /\ \A q \in Procs \ {p} : pc'[q] = pc[q]
<1> USE ContentsDistinct DEF Goto, Abort, AfterRecovery, disk
<1>0. pc[p] # "idle"
  BY DEF BackupRestore, RestoreOpen, RestoreTrunc, RestoreCopy, RestoreUnlink, RecoverySteps
<1>. TypeOK /\ Local(p) /\ SoundDisk(p)
  BY <1>0, Before
<1> USE DEF Becomes, Still, View, AbsPhase, AbsOld, Recovered, TypeOK, Local, SoundDisk, Windows, WriteSteps
<1>1. CASE RestoreOpen(p)
  <2>1. MSkip(p) \/ MFail(p)
    BY <1>1 DEF RestoreOpen, MSkip, MFail, LocalRecovery, LocalWrite, LocalRead, RecoverySteps
  <2> QED BY <1>0, <1>1, <2>1 DEF RestoreOpen, Maps
<1>2. CASE RestoreTrunc(p)
  <2>1. MSkip(p) \/ MRevert(p)
    BY <1>2 DEF RestoreTrunc, MSkip, MRevert, LocalRecovery, LocalWrite, LocalRead, RecoverySteps
  <2> QED BY <1>0, <1>2, <2>1 DEF RestoreTrunc, Maps
<1>3. CASE RestoreCopy(p)
  <2>1. MSkip(p)
    BY <1>3 DEF RestoreCopy, MSkip, LocalRecovery, LocalWrite, LocalRead, RecoverySteps
  <2> QED BY <1>0, <1>3, <2>1 DEF RestoreCopy, Maps
<1>4. CASE RestoreUnlink(p)
  <2>1. MSkip(p)
    BY <1>4 DEF RestoreUnlink, MSkip, LocalRecovery, LocalWrite, LocalRead, RecoverySteps
  <2> QED BY <1>0, <1>4, <2>1 DEF RestoreUnlink, Maps
<1> QED BY <1>1, <1>2, <1>3, <1>4 DEF BackupRestore

(* The write commits when its marker is removed, and not before.           *)
LEMMA WriteMaps ==
  ASSUME IndInv, NEW p \in Procs, Write(p)
  PROVE  Maps(p) /\ pc[p] # "idle" /\ \A q \in Procs \ {p} : pc'[q] = pc[q]
<1> USE ContentsDistinct DEF Goto, Abort, AfterRecovery, disk
<1>0. pc[p] # "idle"
  BY DEF Write, StatDestination, BackupRemove, MarkerCreate, MarkerWrite, BackupTrunc, BackupCopy, BackupUndo, MarkerUndo, FileTrunc, FileWrite, MarkerRemove, RecoverySteps
<1>. TypeOK /\ Local(p) /\ SoundDisk(p)
  BY <1>0, Before
<1> USE DEF Becomes, Still, View, AbsPhase, AbsOld, Recovered, TypeOK, Local, SoundDisk, Windows, WriteSteps
<1>1. CASE StatDestination(p)
  <2>1. MSkip(p)
    BY <1>1 DEF StatDestination, MSkip, LocalRecovery, LocalWrite, LocalRead, RecoverySteps
  <2> QED BY <1>0, <1>1, <2>1 DEF StatDestination, Maps
<1>2. CASE BackupRemove(p)
  <2>1. MSkip(p)
    BY <1>2 DEF BackupRemove, MSkip, LocalRecovery, LocalWrite, LocalRead, RecoverySteps
  <2> QED BY <1>0, <1>2, <2>1 DEF BackupRemove, Maps
<1>3. CASE MarkerCreate(p)
  <2>1. MSkip(p)
    BY <1>3 DEF MarkerCreate, MSkip, LocalRecovery, LocalWrite, LocalRead, RecoverySteps
  <2> QED BY <1>0, <1>3, <2>1 DEF MarkerCreate, Maps
<1>4. CASE MarkerWrite(p)
  <2>1. MSkip(p)
    BY <1>4 DEF MarkerWrite, MSkip, LocalRecovery, LocalWrite, LocalRead, RecoverySteps
  <2> QED BY <1>0, <1>4, <2>1 DEF MarkerWrite, Maps
<1>5. CASE BackupTrunc(p)
  <2>1. MSkip(p)
    BY <1>5 DEF BackupTrunc, MSkip, LocalRecovery, LocalWrite, LocalRead, RecoverySteps
  <2> QED BY <1>0, <1>5, <2>1 DEF BackupTrunc, Maps
<1>6. CASE BackupCopy(p)
  <2>1. MSkip(p)
    BY <1>6 DEF BackupCopy, MSkip, LocalRecovery, LocalWrite, LocalRead, RecoverySteps
  <2> QED BY <1>0, <1>6, <2>1 DEF BackupCopy, Maps
<1>7. CASE BackupUndo(p)
  <2>1. MSkip(p)
    BY <1>7 DEF BackupUndo, MSkip, LocalRecovery, LocalWrite, LocalRead, RecoverySteps
  <2> QED BY <1>0, <1>7, <2>1 DEF BackupUndo, Maps
<1>8. CASE MarkerUndo(p)
  <2>1. MSkip(p)
    BY <1>8 DEF MarkerUndo, MSkip, LocalRecovery, LocalWrite, LocalRead, RecoverySteps
  <2> QED BY <1>0, <1>8, <2>1 DEF MarkerUndo, Maps
<1>9. CASE FileTrunc(p)
  <2>1. MSkip(p)
    BY <1>9 DEF FileTrunc, MSkip, LocalRecovery, LocalWrite, LocalRead, RecoverySteps
  <2> QED BY <1>0, <1>9, <2>1 DEF FileTrunc, Maps
<1>10. CASE FileWrite(p)
  <2>1. MSkip(p)
    BY <1>10 DEF FileWrite, MSkip, LocalRecovery, LocalWrite, LocalRead, RecoverySteps
  <2> QED BY <1>0, <1>10, <2>1 DEF FileWrite, Maps
<1>11. CASE MarkerRemove(p)
  <2>1. MCommit(p)
    BY <1>11 DEF MarkerRemove, MCommit, LocalRecovery, LocalWrite, LocalRead, RecoverySteps
  <2> QED BY <1>0, <1>11, <2>1 DEF MarkerRemove, Maps
<1> QED BY <1>1, <1>2, <1>3, <1>4, <1>5, <1>6, <1>7, <1>8, <1>9, <1>10, <1>11 DEF Write

(* An error return changes nothing.                                        *)
LEMMA ErrorMaps ==
  ASSUME SafeWindows, IndInv, NEW p \in Procs, Error(p)
  PROVE  Maps(p) /\ pc[p] # "idle" /\ \A q \in Procs \ {p} : pc'[q] = pc[q]
<1> USE ContentsDistinct DEF Goto, Abort, AfterRecovery, disk
<1>0. pc[p] # "idle"
  BY DEF Error, RecoveryError, WriteError, BackupError, IgnoredError, RecoverySteps
<1>. TypeOK /\ Local(p) /\ SoundDisk(p)
  BY <1>0, Before
<1> USE DEF Becomes, Still, View, AbsPhase, AbsOld, Recovered, TypeOK, Local, SoundDisk, Windows, WriteSteps
<1>1. CASE RecoveryError(p)
  <2>1. MFail(p)
    BY <1>1 DEF RecoveryError, MFail, LocalRecovery, LocalWrite, LocalRead, RecoverySteps, SafeWindows
  <2> QED BY <1>0, <1>1, <2>1 DEF RecoveryError, Maps
<1>2. CASE WriteError(p)
  <2>1. MSkip(p)
    BY <1>2 DEF WriteError, MSkip, LocalRecovery, LocalWrite, LocalRead, RecoverySteps, SafeWindows
  <2> QED BY <1>0, <1>2, <2>1 DEF WriteError, Maps
<1>3. CASE BackupError(p)
  <2>1. MSkip(p)
    BY <1>3 DEF BackupError, MSkip, LocalRecovery, LocalWrite, LocalRead, RecoverySteps, SafeWindows
  <2> QED BY <1>0, <1>3, <2>1 DEF BackupError, Maps
<1>4. CASE IgnoredError(p)
  <2>1. MSkip(p)
    BY <1>4 DEF IgnoredError, MSkip, LocalRecovery, LocalWrite, LocalRead, RecoverySteps, SafeWindows
  <2> QED BY <1>0, <1>4, <2>1 DEF IgnoredError, Maps
<1> QED BY <1>1, <1>2, <1>3, <1>4 DEF Error

(* Rollbacks, reads, returns and crashes map to the actions named after them. *)
LEMMA CallMaps ==
  ASSUME SafeWindows, IndInv, NEW p \in Procs, Rollback(p) \/ OsReadFile(p) \/ Return(p) \/ Crash(p)
  PROVE  Maps(p) /\ pc[p] # "idle" /\ \A q \in Procs \ {p} : pc'[q] = pc[q]
<1> USE ContentsDistinct DEF Goto, Abort, AfterRecovery, disk
<1>0. pc[p] # "idle"
  BY DEF Rollback, OsReadFile, Return, Crash, RecoverySteps
<1>. TypeOK /\ Local(p) /\ SoundDisk(p)
  BY <1>0, Before
<1> USE DEF Becomes, Still, View, AbsPhase, AbsOld, Recovered, TypeOK, Local, SoundDisk, Windows, WriteSteps
<1>1. CASE Rollback(p)
  <2>1. MSkip(p) \/ MRevert(p)
    BY <1>1 DEF Rollback, MSkip, MRevert, LocalRecovery, LocalWrite, LocalRead, RecoverySteps, SafeWindows
  <2> QED BY <1>0, <1>1, <2>1 DEF Rollback, Maps
<1>2. CASE OsReadFile(p)
  <2>1. MGet(p)
    BY <1>2 DEF OsReadFile, MGet, LocalRecovery, LocalWrite, LocalRead, RecoverySteps, SafeWindows
  <2> QED BY <1>0, <1>2, <2>1 DEF OsReadFile, Maps
<1>3. CASE Return(p)
  <2>1. MEnd(p)
    BY <1>3 DEF Return, Leave, MEnd, LocalRecovery, LocalWrite, LocalRead, RecoverySteps, SafeWindows
  <2> QED BY <1>0, <1>3, <2>1 DEF Return, Leave, Maps
<1>4. CASE Crash(p)
  <2>1. MEnd(p)
    BY <1>4 DEF Crash, Leave, MEnd, LocalRecovery, LocalWrite, LocalRead, RecoverySteps, SafeWindows
  <2> QED BY <1>0, <1>4, <2>1 DEF Crash, Leave, Maps
<1> QED BY <1>1, <1>2, <1>3, <1>4

(* A call begins, and a deletion acts, on the abstract file as on the disk. *)
LEMMA BeginMaps ==
  ASSUME IndInv, NEW p \in Procs,
         ReadFile(p) \/ RemoveAll(p) \/ \E v \in Values : WriteFileWithRollback(p, v)
  PROVE  Maps(p) /\ LockFree /\ \A q \in Procs \ {p} : pc'[q] = pc[q]
<1>0. LockFree /\ pc[p] = "idle"
  BY DEF ReadFile, RemoveAll, WriteFileWithRollback, LockFree
<1>1. TypeOK
  BY DEF IndInv
<1>2. CASE RemoveAll(p)
  <2>1. MDelete(p)
    BY <1>0, <1>1, <1>2 DEF MDelete, RemoveAll, View, AbsPhase, AbsOld, Recovered, TypeOK,
       IndInv, RecoverableDisk
  <2> QED BY <1>0, <1>2, <2>1 DEF Maps, RemoveAll
<1>3. CASE ReadFile(p) \/ \E v \in Values : WriteFileWithRollback(p, v)
  <2>1. MBegin(p)
    BY <1>0, <1>1, <1>3 DEF MBegin, ReadFile, WriteFileWithRollback, Goto, disk, Becomes, Still,
       View, AbsPhase, AbsOld, Recovered, TypeOK
  <2> QED BY <1>0, <1>1, <1>3, <2>1 DEF Maps, ReadFile, WriteFileWithRollback, Goto, TypeOK
<1> QED BY <1>2, <1>3

(* For every set of processes and contents, and every crash and error      *)
(* outside the windows, WriteFileWithRollback, its rollback and ReadFile   *)
(* implement the atomic file.                                              *)
THEOREM Implements == SafeWindows => (Spec => ImplementsAtomicFile)
<1> SUFFICES ASSUME SafeWindows PROVE Spec => ImplementsAtomicFile
  OBVIOUS
<1>1. Init => Atomic!AInit
  BY DEF Init, Atomic!AInit, Atomic!Contents, Contents, AbsValue, AbsPhase, AbsOld, At, Recovered
<1>2. IndInv /\ [Next]_vars => [Atomic!ANext]_(Atomic!avars)
  <2> SUFFICES ASSUME IndInv, [Next]_vars PROVE Atomic!ANext \/ UNCHANGED Atomic!avars
    OBVIOUS
  <2>1. CASE UNCHANGED vars
    BY <2>1 DEF vars, Atomic!avars, AbsValue, AbsPhase, AbsOld, At, Recovered
  <2>2. CASE Next
    <3>1. PICK p \in Procs :
            \/ ReadFile(p) \/ RemoveAll(p) \/ \E v \in Values : WriteFileWithRollback(p, v)
            \/ EnsureRecovery(p) \/ BackupRestore(p) \/ Write(p) \/ Error(p)
            \/ Rollback(p) \/ OsReadFile(p) \/ Return(p) \/ Crash(p)
      BY <2>2 DEF Next
    <3>2. Maps(p) /\ (pc[p] # "idle" \/ LockFree) /\ \A q \in Procs \ {p} : pc'[q] = pc[q]
      BY <3>1, RecoveryMaps, RestoreMaps, WriteMaps, ErrorMaps, CallMaps, BeginMaps
    <3> QED BY <3>2, Frame
  <2> QED BY <2>1, <2>2
<1> QED BY <1>1, <1>2, Inductive, PTL DEF Spec, ImplementsAtomicFile, Atomic!ASpec
=============================================================================
