------------------------- MODULE RollbackFileProofs -------------------------
(***************************************************************************)
(* For any processes and contents, and for any crash points and faults     *)
(* outside the three unprotected windows, WriteFileWithRollback and        *)
(* ReadFile implement the atomic file.  The argument is an inductive       *)
(* invariant that says, for the one process inside a call, what its next   *)
(* system call may rely on (Local).                                        *)
(***************************************************************************)
EXTENDS RollbackFile, TLAPS

(* No death while the backup is torn or a rollback copies; no error of the *)
(* removals the code ignores, nor of the copy of a rollback.               *)
SafeWindows ==
  /\ CrashPoints \intersect {"backupCopy", "backupUndo", "rollbackCopy"} = {}
  /\ Faults \intersect {"backupRemove", "backupUndo", "rollbackCopy"} = {}

Exclusion == \A p, q \in Procs : pc[p] # "idle" /\ pc[q] # "idle" => p = q

(* What the process between two system calls knows of the disk.            *)
LocalRecovery(p) ==
  /\ pc[p] = "markerRead" => ret[p] # "rollback"
  /\ pc[p] = "backupExists" => marker = op[p] /\ ret[p] # "rollback"
  /\ pc[p] \in {"restoreOpen", "restoreTrunc"} =>
       /\ backup # Absent
       /\ ret[p] # "rollback" => marker # "none"
       /\ ret[p] = "rollback" => /\ marker = "none" /\ md[p] = ""
                                 /\ file = val[p] /\ backup # Torn
  /\ pc[p] = "restoreTrunc" => src[p] = backup
  /\ pc[p] = "restoreCopy" =>
       marker # "none" /\ src[p] = backup /\ backup # Absent /\ ret[p] # "rollback"
  /\ pc[p] = "rollbackCopy" =>
       /\ marker = "none" /\ src[p] = backup /\ ret[p] = "rollback"
       /\ backup \notin {Absent, Torn}
  /\ pc[p] = "restoreUnlink" =>
       /\ file = backup /\ backup \notin {Absent, Torn}
       /\ ret[p] = "rollback" <=> marker = "none"
  /\ pc[p] = "statFile" => marker = op[p] /\ backup = Absent /\ ret[p] # "rollback"
  /\ pc[p] = "removeFile" =>
       marker = op[p] /\ marker = "remove" /\ backup = Absent /\ ret[p] # "rollback"
  /\ pc[p] = "clearMarker" =>
       /\ marker # "none" /\ backup = Absent /\ ret[p] # "rollback"
       /\ marker = "remove" => file = Absent

LocalWrite(p) ==
  /\ pc[p] \in WriteSteps \union {"done"} => ret[p] = "write"
  /\ pc[p] \in {"stat", "backupRemove", "markerCreate"} => marker = "none"
  /\ pc[p] \in {"backupRemove", "markerCreate", "markerWrite"} =>
       (md[p] = "remove" <=> file = Absent)
  /\ pc[p] \in {"markerCreate", "markerWrite", "backupTrunc"} => backup = Absent
  /\ pc[p] \in {"markerWrite", "backupTrunc", "backupCopy", "backupUndo", "markerUndo"} =>
       marker = ""
  /\ pc[p] \in {"backupTrunc", "backupCopy", "backupUndo"} =>
       file \notin {Absent, Torn} /\ md[p] = ""
  /\ pc[p] \in {"backupUndo", "backupCopy"} => backup \in {Absent, Torn}
  /\ pc[p] = "markerUndo" => backup = Absent
  /\ pc[p] \in {"fileTrunc", "fileWrite", "markerRemove"} =>
       marker = md[p] /\ (md[p] = "" => backup \notin {Absent, Torn})
  /\ pc[p] = "markerRemove" => file = val[p]
  /\ pc[p] = "done" =>
       /\ marker = "none" /\ file = val[p]
       /\ md[p] = "" => backup \notin {Absent, Torn}

LocalRead(p) ==
  /\ pc[p] = "read" => marker = "none" /\ ret[p] = "read"
  /\ pc[p] = "got" => val[p] # Torn
  /\ pc[p] \notin {"idle", "failed", "got", "reverted"} /\ ret[p] # "read" => val[p] \in Values

Local(p) == LocalRecovery(p) /\ LocalWrite(p) /\ LocalRead(p)

IndInv == TypeOK /\ Exclusion /\ RecoverableDisk /\ \A p \in Procs : Local(p)
-----------------------------------------------------------------------------
(* Only the process that takes the step can break the invariant: the       *)
(* others are idle, and an idle process relies on nothing.                 *)

Windows == {"backupCopy", "backupUndo", "rollbackCopy"}

SoundDisk(p) ==
  /\ marker = "remove" => backup = Absent
  /\ pc[p] \in Windows \/ Recovered # Torn

Preserved(p) ==
  /\ TypeOK'
  /\ \A q \in Procs \ {p} : pc'[q] = pc[q]
  /\ SoundDisk(p)'
  /\ Local(p)'

LEMMA OneActor ==
  ASSUME IndInv, NEW p \in Procs, pc[p] # "idle" \/ LockFree, Preserved(p)
  PROVE  IndInv'
<1>1. \A q \in Procs \ {p} : pc'[q] = "idle"
  BY DEF IndInv, Exclusion, LockFree, Preserved
<1>2. Exclusion'
  BY <1>1 DEF Exclusion
<1>3. ASSUME NEW q \in Procs \ {p} PROVE Local(q)'
  BY <1>1 DEF Local, LocalRecovery, LocalWrite, LocalRead, WriteSteps
<1>4. \A q \in Procs : Local(q)'
  BY <1>3 DEF Preserved
<1>5. RecoverableDisk'
  BY DEF RecoverableDisk, At, Preserved, SoundDisk, Windows
<1> QED BY <1>2, <1>4, <1>5 DEF IndInv, Preserved

(* What the acting process may rely on before its step.                    *)
LEMMA Before ==
  ASSUME IndInv, NEW p \in Procs, pc[p] # "idle" \/ LockFree
  PROVE  TypeOK /\ Local(p) /\ SoundDisk(p)
BY DEF IndInv, Exclusion, LockFree, RecoverableDisk, At, SoundDisk, Windows

(* The steps of ensureRecovery (helpers.go:33-87) preserve the invariant.  *)
LEMMA RecoveryInv ==
  ASSUME IndInv, NEW p \in Procs, EnsureRecovery(p)
  PROVE  IndInv'
<1> USE ContentsDistinct DEF Goto, Abort, AfterRecovery, disk
<1>0. pc[p] # "idle"
  BY DEF EnsureRecovery, MarkerRead, BackupExists, StatFile, RemoveFile, ClearMarker, RecoverySteps
<1>. TypeOK /\ Local(p) /\ SoundDisk(p)
  BY <1>0, Before
<1> SUFFICES Preserved(p)
  BY <1>0, OneActor
<1>1. CASE MarkerRead(p)
  <2>0. pc'[p] \in Steps /\ pc' = [pc EXCEPT ![p] = pc'[p]]
    BY <1>1 DEF MarkerRead, TypeOK, Steps, RecoverySteps, WriteSteps
  <2>a. op' \in [Procs -> {"", "remove"}]
    BY <1>1 DEF MarkerRead, TypeOK
  <2>b. pc' \in [Procs -> Steps] /\ \A q \in Procs \ {p} : pc'[q] = pc[q]
    BY <2>0 DEF TypeOK
  <2>1. TypeOK' /\ \A q \in Procs \ {p} : pc'[q] = pc[q]
    BY <1>1, <2>a, <2>b DEF MarkerRead, TypeOK
  <2>2. SoundDisk(p)'
    BY <1>1 DEF MarkerRead, TypeOK, SoundDisk, Recovered, Windows, Local, LocalRecovery, LocalWrite, LocalRead, RecoverySteps, WriteSteps, Contents
  <2>3. Local(p)'
    BY <1>1, ZenonT(40) DEF MarkerRead, TypeOK, SoundDisk, Recovered, Windows, Local, LocalRecovery, LocalWrite, LocalRead, RecoverySteps, WriteSteps, Contents
  <2> QED BY <2>1, <2>2, <2>3 DEF Preserved
<1>2. CASE BackupExists(p)
  <2>1. TypeOK' /\ \A q \in Procs \ {p} : pc'[q] = pc[q]
    BY <1>2 DEF BackupExists, TypeOK, Contents, Steps, RecoverySteps, WriteSteps
  <2>2. SoundDisk(p)'
    BY <1>2 DEF BackupExists, TypeOK, SoundDisk, Recovered, Windows, Local, LocalRecovery, LocalWrite, LocalRead, RecoverySteps, WriteSteps, Contents
  <2>3. Local(p)'
    BY <1>2 DEF BackupExists, TypeOK, SoundDisk, Recovered, Windows, Local, LocalRecovery, LocalWrite, LocalRead, RecoverySteps, WriteSteps, Contents
  <2> QED BY <2>1, <2>2, <2>3 DEF Preserved
<1>3. CASE StatFile(p)
  <2>1. TypeOK' /\ \A q \in Procs \ {p} : pc'[q] = pc[q]
    BY <1>3 DEF StatFile, TypeOK, Contents, Steps, RecoverySteps, WriteSteps
  <2>2. SoundDisk(p)'
    BY <1>3 DEF StatFile, TypeOK, SoundDisk, Recovered, Windows, Local, LocalRecovery, LocalWrite, LocalRead, RecoverySteps, WriteSteps, Contents
  <2>3. Local(p)'
    BY <1>3 DEF StatFile, TypeOK, SoundDisk, Recovered, Windows, Local, LocalRecovery, LocalWrite, LocalRead, RecoverySteps, WriteSteps, Contents
  <2> QED BY <2>1, <2>2, <2>3 DEF Preserved
<1>4. CASE RemoveFile(p)
  <2>1. TypeOK' /\ \A q \in Procs \ {p} : pc'[q] = pc[q]
    BY <1>4 DEF RemoveFile, TypeOK, Contents, Steps, RecoverySteps, WriteSteps
  <2>2. SoundDisk(p)'
    BY <1>4 DEF RemoveFile, TypeOK, SoundDisk, Recovered, Windows, Local, LocalRecovery, LocalWrite, LocalRead, RecoverySteps, WriteSteps, Contents
  <2>3. Local(p)'
    BY <1>4 DEF RemoveFile, TypeOK, SoundDisk, Recovered, Windows, Local, LocalRecovery, LocalWrite, LocalRead, RecoverySteps, WriteSteps, Contents
  <2> QED BY <2>1, <2>2, <2>3 DEF Preserved
<1>5. CASE ClearMarker(p)
  <2>1. TypeOK' /\ \A q \in Procs \ {p} : pc'[q] = pc[q]
    BY <1>5 DEF ClearMarker, TypeOK, Contents, Steps, RecoverySteps, WriteSteps
  <2>2. SoundDisk(p)'
    BY <1>5 DEF ClearMarker, TypeOK, SoundDisk, Recovered, Windows, Local, LocalRecovery, LocalWrite, LocalRead, RecoverySteps, WriteSteps, Contents
  <2>3. Local(p)'
    BY <1>5 DEF ClearMarker, TypeOK, SoundDisk, Recovered, Windows, Local, LocalRecovery, LocalWrite, LocalRead, RecoverySteps, WriteSteps, Contents
  <2> QED BY <2>1, <2>2, <2>3 DEF Preserved
<1> QED BY <1>1, <1>2, <1>3, <1>4, <1>5 DEF EnsureRecovery

(* The steps of backupRestore (helpers.go:96-103) preserve the invariant.  *)
LEMMA RestoreInv ==
  ASSUME IndInv, NEW p \in Procs, BackupRestore(p)
  PROVE  IndInv'
<1> USE ContentsDistinct DEF Goto, Abort, AfterRecovery, disk
<1>0. pc[p] # "idle"
  BY DEF BackupRestore, RestoreOpen, RestoreTrunc, RestoreCopy, RestoreUnlink, RecoverySteps
<1>. TypeOK /\ Local(p) /\ SoundDisk(p)
  BY <1>0, Before
<1> SUFFICES Preserved(p)
  BY <1>0, OneActor
<1>1. CASE RestoreOpen(p)
  <2>1. TypeOK' /\ \A q \in Procs \ {p} : pc'[q] = pc[q]
    BY <1>1 DEF RestoreOpen, TypeOK, Contents, Steps, RecoverySteps, WriteSteps
  <2>2. SoundDisk(p)'
    BY <1>1 DEF RestoreOpen, TypeOK, SoundDisk, Recovered, Windows, Local, LocalRecovery, LocalWrite, LocalRead, RecoverySteps, WriteSteps, Contents
  <2>3. Local(p)'
    BY <1>1 DEF RestoreOpen, TypeOK, SoundDisk, Recovered, Windows, Local, LocalRecovery, LocalWrite, LocalRead, RecoverySteps, WriteSteps, Contents
  <2> QED BY <2>1, <2>2, <2>3 DEF Preserved
<1>2. CASE RestoreTrunc(p)
  <2>1. TypeOK' /\ \A q \in Procs \ {p} : pc'[q] = pc[q]
    BY <1>2 DEF RestoreTrunc, TypeOK, Contents, Steps, RecoverySteps, WriteSteps
  <2>2. SoundDisk(p)'
    BY <1>2 DEF RestoreTrunc, TypeOK, SoundDisk, Recovered, Windows, Local, LocalRecovery, LocalWrite, LocalRead, RecoverySteps, WriteSteps, Contents
  <2>3. Local(p)'
    BY <1>2 DEF RestoreTrunc, TypeOK, SoundDisk, Recovered, Windows, Local, LocalRecovery, LocalWrite, LocalRead, RecoverySteps, WriteSteps, Contents
  <2> QED BY <2>1, <2>2, <2>3 DEF Preserved
<1>3. CASE RestoreCopy(p)
  <2>1. TypeOK' /\ \A q \in Procs \ {p} : pc'[q] = pc[q]
    BY <1>3 DEF RestoreCopy, TypeOK, Contents, Steps, RecoverySteps, WriteSteps
  <2>2. SoundDisk(p)'
    BY <1>3 DEF RestoreCopy, TypeOK, SoundDisk, Recovered, Windows, Local, LocalRecovery, LocalWrite, LocalRead, RecoverySteps, WriteSteps, Contents
  <2>3. Local(p)'
    BY <1>3 DEF RestoreCopy, TypeOK, SoundDisk, Recovered, Windows, Local, LocalRecovery, LocalWrite, LocalRead, RecoverySteps, WriteSteps, Contents
  <2> QED BY <2>1, <2>2, <2>3 DEF Preserved
<1>4. CASE RestoreUnlink(p)
  <2>1. TypeOK' /\ \A q \in Procs \ {p} : pc'[q] = pc[q]
    BY <1>4 DEF RestoreUnlink, TypeOK, Contents, Steps, RecoverySteps, WriteSteps
  <2>2. SoundDisk(p)'
    BY <1>4 DEF RestoreUnlink, TypeOK, SoundDisk, Recovered, Windows, Local, LocalRecovery, LocalWrite, LocalRead, RecoverySteps, WriteSteps, Contents
  <2>3. Local(p)'
    BY <1>4 DEF RestoreUnlink, TypeOK, SoundDisk, Recovered, Windows, Local, LocalRecovery, LocalWrite, LocalRead, RecoverySteps, WriteSteps, Contents
  <2> QED BY <2>1, <2>2, <2>3 DEF Preserved
<1> QED BY <1>1, <1>2, <1>3, <1>4 DEF BackupRestore

(* The steps of WriteFileWithRollback preserve the invariant.              *)
LEMMA WriteInv ==
  ASSUME IndInv, NEW p \in Procs, Write(p)
  PROVE  IndInv'
<1> USE ContentsDistinct DEF Goto, Abort, AfterRecovery, disk
<1>0. pc[p] # "idle"
  BY DEF Write, StatDestination, BackupRemove, MarkerCreate, MarkerWrite, BackupTrunc, BackupCopy, BackupUndo, MarkerUndo, FileTrunc, FileWrite, MarkerRemove, RecoverySteps
<1>. TypeOK /\ Local(p) /\ SoundDisk(p)
  BY <1>0, Before
<1> SUFFICES Preserved(p)
  BY <1>0, OneActor
<1>1. CASE StatDestination(p)
  <2>1. TypeOK' /\ \A q \in Procs \ {p} : pc'[q] = pc[q]
    BY <1>1 DEF StatDestination, TypeOK, Contents, Steps, RecoverySteps, WriteSteps
  <2>2. SoundDisk(p)'
    BY <1>1 DEF StatDestination, TypeOK, SoundDisk, Recovered, Windows, Local, LocalRecovery, LocalWrite, LocalRead, RecoverySteps, WriteSteps, Contents
  <2>3. Local(p)'
    BY <1>1 DEF StatDestination, TypeOK, SoundDisk, Recovered, Windows, Local, LocalRecovery, LocalWrite, LocalRead, RecoverySteps, WriteSteps, Contents
  <2> QED BY <2>1, <2>2, <2>3 DEF Preserved
<1>2. CASE BackupRemove(p)
  <2>1. TypeOK' /\ \A q \in Procs \ {p} : pc'[q] = pc[q]
    BY <1>2 DEF BackupRemove, TypeOK, Contents, Steps, RecoverySteps, WriteSteps
  <2>2. SoundDisk(p)'
    BY <1>2 DEF BackupRemove, TypeOK, SoundDisk, Recovered, Windows, Local, LocalRecovery, LocalWrite, LocalRead, RecoverySteps, WriteSteps, Contents
  <2>3. Local(p)'
    BY <1>2 DEF BackupRemove, TypeOK, SoundDisk, Recovered, Windows, Local, LocalRecovery, LocalWrite, LocalRead, RecoverySteps, WriteSteps, Contents
  <2> QED BY <2>1, <2>2, <2>3 DEF Preserved
<1>3. CASE MarkerCreate(p)
  <2>1. TypeOK' /\ \A q \in Procs \ {p} : pc'[q] = pc[q]
    BY <1>3 DEF MarkerCreate, TypeOK, Contents, Steps, RecoverySteps, WriteSteps
  <2>2. SoundDisk(p)'
    BY <1>3 DEF MarkerCreate, TypeOK, SoundDisk, Recovered, Windows, Local, LocalRecovery, LocalWrite, LocalRead, RecoverySteps, WriteSteps, Contents
  <2>3. Local(p)'
    BY <1>3 DEF MarkerCreate, TypeOK, SoundDisk, Recovered, Windows, Local, LocalRecovery, LocalWrite, LocalRead, RecoverySteps, WriteSteps, Contents
  <2> QED BY <2>1, <2>2, <2>3 DEF Preserved
<1>4. CASE MarkerWrite(p)
  <2>1. TypeOK' /\ \A q \in Procs \ {p} : pc'[q] = pc[q]
    BY <1>4 DEF MarkerWrite, TypeOK, Contents, Steps, RecoverySteps, WriteSteps
  <2>2. SoundDisk(p)'
    BY <1>4 DEF MarkerWrite, TypeOK, SoundDisk, Recovered, Windows, Local, LocalRecovery, LocalWrite, LocalRead, RecoverySteps, WriteSteps, Contents
  <2>3. Local(p)'
    BY <1>4 DEF MarkerWrite, TypeOK, SoundDisk, Recovered, Windows, Local, LocalRecovery, LocalWrite, LocalRead, RecoverySteps, WriteSteps, Contents
  <2> QED BY <2>1, <2>2, <2>3 DEF Preserved
<1>5. CASE BackupTrunc(p)
  <2>1. TypeOK' /\ \A q \in Procs \ {p} : pc'[q] = pc[q]
    BY <1>5 DEF BackupTrunc, TypeOK, Contents, Steps, RecoverySteps, WriteSteps
  <2>2. SoundDisk(p)'
    BY <1>5 DEF BackupTrunc, TypeOK, SoundDisk, Recovered, Windows, Local, LocalRecovery, LocalWrite, LocalRead, RecoverySteps, WriteSteps, Contents
  <2>3. Local(p)'
    BY <1>5 DEF BackupTrunc, TypeOK, SoundDisk, Recovered, Windows, Local, LocalRecovery, LocalWrite, LocalRead, RecoverySteps, WriteSteps, Contents
  <2> QED BY <2>1, <2>2, <2>3 DEF Preserved
<1>6. CASE BackupCopy(p)
  <2>1. TypeOK' /\ \A q \in Procs \ {p} : pc'[q] = pc[q]
    BY <1>6 DEF BackupCopy, TypeOK, Contents, Steps, RecoverySteps, WriteSteps
  <2>2. SoundDisk(p)'
    BY <1>6 DEF BackupCopy, TypeOK, SoundDisk, Recovered, Windows, Local, LocalRecovery, LocalWrite, LocalRead, RecoverySteps, WriteSteps, Contents
  <2>3. Local(p)'
    BY <1>6 DEF BackupCopy, TypeOK, SoundDisk, Recovered, Windows, Local, LocalRecovery, LocalWrite, LocalRead, RecoverySteps, WriteSteps, Contents
  <2> QED BY <2>1, <2>2, <2>3 DEF Preserved
<1>7. CASE BackupUndo(p)
  <2>1. TypeOK' /\ \A q \in Procs \ {p} : pc'[q] = pc[q]
    BY <1>7 DEF BackupUndo, TypeOK, Contents, Steps, RecoverySteps, WriteSteps
  <2>2. SoundDisk(p)'
    BY <1>7 DEF BackupUndo, TypeOK, SoundDisk, Recovered, Windows, Local, LocalRecovery, LocalWrite, LocalRead, RecoverySteps, WriteSteps, Contents
  <2>3. Local(p)'
    BY <1>7 DEF BackupUndo, TypeOK, SoundDisk, Recovered, Windows, Local, LocalRecovery, LocalWrite, LocalRead, RecoverySteps, WriteSteps, Contents
  <2> QED BY <2>1, <2>2, <2>3 DEF Preserved
<1>8. CASE MarkerUndo(p)
  <2>1. TypeOK' /\ \A q \in Procs \ {p} : pc'[q] = pc[q]
    BY <1>8 DEF MarkerUndo, TypeOK, Contents, Steps, RecoverySteps, WriteSteps
  <2>2. SoundDisk(p)'
    BY <1>8 DEF MarkerUndo, TypeOK, SoundDisk, Recovered, Windows, Local, LocalRecovery, LocalWrite, LocalRead, RecoverySteps, WriteSteps, Contents
  <2>3. Local(p)'
    BY <1>8 DEF MarkerUndo, TypeOK, SoundDisk, Recovered, Windows, Local, LocalRecovery, LocalWrite, LocalRead, RecoverySteps, WriteSteps, Contents
  <2> QED BY <2>1, <2>2, <2>3 DEF Preserved
<1>9. CASE FileTrunc(p)
  <2>1. TypeOK' /\ \A q \in Procs \ {p} : pc'[q] = pc[q]
    BY <1>9 DEF FileTrunc, TypeOK, Contents, Steps, RecoverySteps, WriteSteps
  <2>2. SoundDisk(p)'
    BY <1>9 DEF FileTrunc, TypeOK, SoundDisk, Recovered, Windows, Local, LocalRecovery, LocalWrite, LocalRead, RecoverySteps, WriteSteps, Contents
  <2>3. Local(p)'
    BY <1>9 DEF FileTrunc, TypeOK, SoundDisk, Recovered, Windows, Local, LocalRecovery, LocalWrite, LocalRead, RecoverySteps, WriteSteps, Contents
  <2> QED BY <2>1, <2>2, <2>3 DEF Preserved
<1>10. CASE FileWrite(p)
  <2>1. TypeOK' /\ \A q \in Procs \ {p} : pc'[q] = pc[q]
    BY <1>10 DEF FileWrite, TypeOK, Contents, Steps, RecoverySteps, WriteSteps
  <2>2. SoundDisk(p)'
    BY <1>10 DEF FileWrite, TypeOK, SoundDisk, Recovered, Windows, Local, LocalRecovery, LocalWrite, LocalRead, RecoverySteps, WriteSteps, Contents
  <2>3. Local(p)'
    BY <1>10 DEF FileWrite, TypeOK, SoundDisk, Recovered, Windows, Local, LocalRecovery, LocalWrite, LocalRead, RecoverySteps, WriteSteps, Contents
  <2> QED BY <2>1, <2>2, <2>3 DEF Preserved
<1>11. CASE MarkerRemove(p)
  <2>1. TypeOK' /\ \A q \in Procs \ {p} : pc'[q] = pc[q]
    BY <1>11 DEF MarkerRemove, TypeOK, Contents, Steps, RecoverySteps, WriteSteps
  <2>2. SoundDisk(p)'
    BY <1>11 DEF MarkerRemove, TypeOK, SoundDisk, Recovered, Windows, Local, LocalRecovery, LocalWrite, LocalRead, RecoverySteps, WriteSteps, Contents
  <2>3. Local(p)'
    BY <1>11 DEF MarkerRemove, TypeOK, SoundDisk, Recovered, Windows, Local, LocalRecovery, LocalWrite, LocalRead, RecoverySteps, WriteSteps, Contents
  <2> QED BY <2>1, <2>2, <2>3 DEF Preserved
<1> QED BY <1>1, <1>2, <1>3, <1>4, <1>5, <1>6, <1>7, <1>8, <1>9, <1>10, <1>11 DEF Write

(* Error returns preserve the invariant; here Faults must avoid the windows. *)
LEMMA ErrorInv ==
  ASSUME SafeWindows, IndInv, NEW p \in Procs, Error(p)
  PROVE  IndInv'
<1> USE ContentsDistinct DEF Goto, Abort, AfterRecovery, disk
<1>0. pc[p] # "idle"
  BY DEF Error, RecoveryError, WriteError, BackupError, IgnoredError, RecoverySteps
<1>. TypeOK /\ Local(p) /\ SoundDisk(p)
  BY <1>0, Before
<1> SUFFICES Preserved(p)
  BY <1>0, OneActor
<1>1. CASE RecoveryError(p)
  <2>1. TypeOK' /\ \A q \in Procs \ {p} : pc'[q] = pc[q]
    BY <1>1 DEF RecoveryError, TypeOK, Contents, Steps, RecoverySteps, WriteSteps
  <2>2. SoundDisk(p)'
    BY <1>1 DEF RecoveryError, TypeOK, SoundDisk, Recovered, Windows, Local, LocalRecovery, LocalWrite, LocalRead, RecoverySteps, WriteSteps, Contents, SafeWindows
  <2>3. Local(p)'
    BY <1>1 DEF RecoveryError, TypeOK, SoundDisk, Recovered, Windows, Local, LocalRecovery, LocalWrite, LocalRead, RecoverySteps, WriteSteps, Contents, SafeWindows
  <2> QED BY <2>1, <2>2, <2>3 DEF Preserved
<1>2. CASE WriteError(p)
  <2>1. TypeOK' /\ \A q \in Procs \ {p} : pc'[q] = pc[q]
    BY <1>2 DEF WriteError, TypeOK, Contents, Steps, RecoverySteps, WriteSteps
  <2>2. SoundDisk(p)'
    BY <1>2 DEF WriteError, TypeOK, SoundDisk, Recovered, Windows, Local, LocalRecovery, LocalWrite, LocalRead, RecoverySteps, WriteSteps, Contents, SafeWindows
  <2>3. Local(p)'
    BY <1>2 DEF WriteError, TypeOK, SoundDisk, Recovered, Windows, Local, LocalRecovery, LocalWrite, LocalRead, RecoverySteps, WriteSteps, Contents, SafeWindows
  <2> QED BY <2>1, <2>2, <2>3 DEF Preserved
<1>3. CASE BackupError(p)
  <2>1. TypeOK' /\ \A q \in Procs \ {p} : pc'[q] = pc[q]
    BY <1>3 DEF BackupError, TypeOK, Contents, Steps, RecoverySteps, WriteSteps
  <2>2. SoundDisk(p)'
    BY <1>3 DEF BackupError, TypeOK, SoundDisk, Recovered, Windows, Local, LocalRecovery, LocalWrite, LocalRead, RecoverySteps, WriteSteps, Contents, SafeWindows
  <2>3. Local(p)'
    BY <1>3 DEF BackupError, TypeOK, SoundDisk, Recovered, Windows, Local, LocalRecovery, LocalWrite, LocalRead, RecoverySteps, WriteSteps, Contents, SafeWindows
  <2> QED BY <2>1, <2>2, <2>3 DEF Preserved
<1>4. CASE IgnoredError(p)
  <2>1. TypeOK' /\ \A q \in Procs \ {p} : pc'[q] = pc[q]
    BY <1>4 DEF IgnoredError, TypeOK, Contents, Steps, RecoverySteps, WriteSteps
  <2>2. SoundDisk(p)'
    BY <1>4 DEF IgnoredError, TypeOK, SoundDisk, Recovered, Windows, Local, LocalRecovery, LocalWrite, LocalRead, RecoverySteps, WriteSteps, Contents, SafeWindows
  <2>3. Local(p)'
    BY <1>4 DEF IgnoredError, TypeOK, SoundDisk, Recovered, Windows, Local, LocalRecovery, LocalWrite, LocalRead, RecoverySteps, WriteSteps, Contents, SafeWindows
  <2> QED BY <2>1, <2>2, <2>3 DEF Preserved
<1> QED BY <1>1, <1>2, <1>3, <1>4 DEF Error

(* Calls, their returns, rollbacks, reads and crashes preserve it; here    *)
(* CrashPoints must avoid the windows.                                     *)
LEMMA CallInv ==
  ASSUME SafeWindows, IndInv, NEW p \in Procs,
         \/ \E v \in Values : WriteFileWithRollback(p, v)
         \/ ReadFile(p) \/ RemoveAll(p) \/ Rollback(p) \/ OsReadFile(p) \/ Return(p) \/ Crash(p)
  PROVE  IndInv'
<1> USE ContentsDistinct DEF Goto, disk
<1>0. pc[p] # "idle" \/ LockFree
  BY DEF WriteFileWithRollback, ReadFile, RemoveAll, Rollback, OsReadFile, Return, Crash
<1>. TypeOK /\ Local(p) /\ SoundDisk(p)
  BY <1>0, Before
<1> SUFFICES Preserved(p)
  BY <1>0, OneActor
<1>1. ASSUME NEW v \in Values, WriteFileWithRollback(p, v) PROVE Preserved(p)
  <2>0. pc[p] = "idle"
    BY <1>1 DEF WriteFileWithRollback, LockFree
  <2>1. TypeOK' /\ \A q \in Procs \ {p} : pc'[q] = pc[q]
    BY <1>1 DEF WriteFileWithRollback, TypeOK, Contents, Steps, RecoverySteps, WriteSteps
  <2>2. SoundDisk(p)'
    BY <1>1, <2>0 DEF WriteFileWithRollback, TypeOK, SoundDisk, Recovered, Windows
  <2>3. Local(p)'
    BY <1>1 DEF WriteFileWithRollback, TypeOK, Local, LocalRecovery, LocalWrite, LocalRead, WriteSteps
  <2> QED BY <2>1, <2>2, <2>3 DEF Preserved
<1>2. CASE ReadFile(p)
  <2>0. pc[p] = "idle"
    BY <1>2 DEF ReadFile, LockFree
  <2>1. TypeOK' /\ \A q \in Procs \ {p} : pc'[q] = pc[q]
    BY <1>2 DEF ReadFile, TypeOK, Contents, Steps, RecoverySteps, WriteSteps
  <2>2. SoundDisk(p)'
    BY <1>2, <2>0 DEF ReadFile, TypeOK, SoundDisk, Recovered, Windows
  <2>3. Local(p)'
    BY <1>2 DEF ReadFile, TypeOK, Local, LocalRecovery, LocalWrite, LocalRead, WriteSteps
  <2> QED BY <2>1, <2>2, <2>3 DEF Preserved
<1>3. CASE Rollback(p)
  <2>1. TypeOK' /\ \A q \in Procs \ {p} : pc'[q] = pc[q]
    BY <1>3 DEF Rollback, TypeOK, Contents, Steps, RecoverySteps, WriteSteps
  <2>0. marker' = "none" /\ file' # Torn
    BY <1>3 DEF Rollback, Local, LocalWrite, LocalRead, WriteSteps
  <2>2. SoundDisk(p)'
    BY <1>3, <2>0 DEF Rollback, TypeOK, SoundDisk, Recovered, Windows, Local, LocalRecovery, LocalWrite, LocalRead, WriteSteps, Contents
  <2>3. Local(p)'
    BY <1>3, ZenonT(40) DEF Rollback, TypeOK, SoundDisk, Recovered, Windows, Local, LocalRecovery, LocalWrite, LocalRead, WriteSteps
  <2> QED BY <2>1, <2>2, <2>3 DEF Preserved
<1>4. CASE OsReadFile(p)
  <2>1. TypeOK' /\ \A q \in Procs \ {p} : pc'[q] = pc[q]
    BY <1>4 DEF OsReadFile, TypeOK, Contents, Steps, RecoverySteps, WriteSteps
  <2>2. SoundDisk(p)'
    BY <1>4 DEF OsReadFile, TypeOK, SoundDisk, Recovered, Windows, Local, LocalRecovery, LocalWrite, LocalRead, WriteSteps, Contents
  <2>3. Local(p)'
    BY <1>4 DEF OsReadFile, TypeOK, SoundDisk, Recovered, Windows, Local, LocalRecovery, LocalWrite, LocalRead, WriteSteps
  <2> QED BY <2>1, <2>2, <2>3 DEF Preserved
<1>5. CASE Return(p)
  <2>1. TypeOK' /\ \A q \in Procs \ {p} : pc'[q] = pc[q]
    BY <1>5 DEF Return, Leave, TypeOK, Contents, Steps, RecoverySteps, WriteSteps
  <2>2. SoundDisk(p)'
    BY <1>5 DEF Return, Leave, TypeOK, SoundDisk, Recovered, Windows, Local, LocalRecovery, LocalWrite, LocalRead, WriteSteps, Contents
  <2>3. Local(p)'
    BY <1>5 DEF Return, Leave, TypeOK, SoundDisk, Recovered, Windows, Local, LocalRecovery, LocalWrite, LocalRead, WriteSteps
  <2> QED BY <2>1, <2>2, <2>3 DEF Preserved
<1>6. CASE Crash(p)
  <2>1. TypeOK' /\ \A q \in Procs \ {p} : pc'[q] = pc[q]
    BY <1>6 DEF Crash, Leave, TypeOK, Contents, Steps, RecoverySteps, WriteSteps
  <2>2. SoundDisk(p)'
    BY <1>6 DEF Crash, Leave, TypeOK, SoundDisk, Recovered, Windows, Local, LocalRecovery, LocalWrite, LocalRead, WriteSteps, Contents, SafeWindows
  <2>3. Local(p)'
    BY <1>6 DEF Crash, Leave, TypeOK, SoundDisk, Recovered, Windows, Local, LocalRecovery, LocalWrite, LocalRead, WriteSteps, SafeWindows
  <2> QED BY <2>1, <2>2, <2>3 DEF Preserved
<1>7. CASE RemoveAll(p)
  <2>0. pc[p] = "idle"
    BY <1>7 DEF RemoveAll, LockFree
  <2>1. TypeOK' /\ \A q \in Procs \ {p} : pc'[q] = pc[q]
    BY <1>7 DEF RemoveAll, TypeOK, Contents
  <2>2. SoundDisk(p)'
    BY <1>7, <2>0 DEF RemoveAll, TypeOK, SoundDisk, Recovered, Windows
  <2>3. Local(p)'
    BY <1>7, <2>0 DEF RemoveAll, Local, LocalRecovery, LocalWrite, LocalRead, WriteSteps
  <2> QED BY <2>1, <2>2, <2>3 DEF Preserved
<1> QED BY <1>1, <1>2, <1>3, <1>4, <1>5, <1>6, <1>7

(* The invariant holds at the start and every step keeps it.               *)
LEMMA Inductive == SafeWindows => (Spec => []IndInv)
<1> SUFFICES ASSUME SafeWindows PROVE Spec => []IndInv
  OBVIOUS
<1>1. Init => IndInv
  <2> SUFFICES ASSUME Init PROVE IndInv
    OBVIOUS
  <2>1. TypeOK
    BY DEF Init, TypeOK, Contents, Steps
  <2>2. Exclusion
    BY DEF Init, Exclusion
  <2>3. RecoverableDisk
    BY ContentsDistinct DEF Init, RecoverableDisk, Recovered, Contents
  <2>4. \A p \in Procs : Local(p)
    BY DEF Init, Local, LocalRecovery, LocalWrite, LocalRead, WriteSteps
  <2> QED BY <2>1, <2>2, <2>3, <2>4 DEF IndInv
<1>2. IndInv /\ [Next]_vars => IndInv'
  <2> SUFFICES ASSUME IndInv, [Next]_vars PROVE IndInv'
    OBVIOUS
  <2>1. CASE UNCHANGED vars
    <3>1. TypeOK' /\ Exclusion' /\ RecoverableDisk'
      BY <2>1 DEF IndInv, TypeOK, Exclusion, RecoverableDisk, At, Recovered, vars
    <3>2. ASSUME NEW p \in Procs PROVE Local(p)'
      BY <2>1 DEF IndInv, Local, LocalRecovery, LocalWrite, LocalRead, vars
    <3> QED BY <3>1, <3>2 DEF IndInv
  <2>2. CASE Next
    BY <2>2, RecoveryInv, RestoreInv, WriteInv, ErrorInv, CallInv DEF Next
  <2> QED BY <2>1, <2>2
<1> QED BY <1>1, <1>2, PTL DEF Spec

(* For every set of processes and contents: outside the windows, the disk  *)
(* always recovers to a whole file.                                        *)
THEOREM DiskRecoverable == SafeWindows => (Spec => []RecoverableDisk)
<1>1. IndInv => RecoverableDisk
  BY DEF IndInv
<1> QED BY <1>1, Inductive, PTL

(* For every set of processes and contents: ReadFile never returns a torn  *)
(* file, wherever earlier calls died or failed outside the windows.        *)
THEOREM ReadsWhole == SafeWindows => (Spec => []NoTornRead)
<1>1. IndInv => NoTornRead
  BY DEF IndInv, NoTornRead, Local, LocalRead
<1> QED BY <1>1, Inductive, PTL

-----------------------------------------------------------------------------
(* The types need no assumption on crashes and faults. *)
LEMMA TypeStep ==
  ASSUME TypeOK, NEW p \in Procs,
         EnsureRecovery(p) \/ BackupRestore(p) \/ Write(p) \/ Error(p)
  PROVE  TypeOK'
<1> USE DEF TypeOK, Contents, Steps, RecoverySteps, WriteSteps, Goto, Abort, AfterRecovery, disk
<1>1. CASE MarkerRead(p)
  <2>1. op' \in [Procs -> {"", "remove"}]
    BY <1>1 DEF MarkerRead
  <2>2. pc' \in [Procs -> Steps]
    BY <1>1 DEF MarkerRead
  <2> QED BY <1>1, <2>1, <2>2 DEF MarkerRead
<1>2. CASE BackupExists(p)
  BY <1>2 DEF BackupExists
<1>3. CASE StatFile(p)
  BY <1>3 DEF StatFile
<1>4. CASE RemoveFile(p)
  BY <1>4 DEF RemoveFile
<1>5. CASE ClearMarker(p)
  BY <1>5 DEF ClearMarker
<1>6. CASE RestoreOpen(p)
  BY <1>6 DEF RestoreOpen
<1>7. CASE RestoreTrunc(p)
  BY <1>7 DEF RestoreTrunc
<1>8. CASE RestoreCopy(p)
  BY <1>8 DEF RestoreCopy
<1>9. CASE RestoreUnlink(p)
  BY <1>9 DEF RestoreUnlink
<1>10. CASE StatDestination(p)
  BY <1>10 DEF StatDestination
<1>11. CASE BackupRemove(p)
  BY <1>11 DEF BackupRemove
<1>12. CASE MarkerCreate(p)
  BY <1>12 DEF MarkerCreate
<1>13. CASE MarkerWrite(p)
  BY <1>13 DEF MarkerWrite
<1>14. CASE BackupTrunc(p)
  BY <1>14 DEF BackupTrunc
<1>15. CASE BackupCopy(p)
  BY <1>15 DEF BackupCopy
<1>16. CASE BackupUndo(p)
  BY <1>16 DEF BackupUndo
<1>17. CASE MarkerUndo(p)
  BY <1>17 DEF MarkerUndo
<1>18. CASE FileTrunc(p)
  BY <1>18 DEF FileTrunc
<1>19. CASE FileWrite(p)
  BY <1>19 DEF FileWrite
<1>20. CASE MarkerRemove(p)
  BY <1>20 DEF MarkerRemove
<1>21. CASE RecoveryError(p)
  BY <1>21 DEF RecoveryError
<1>22. CASE WriteError(p)
  BY <1>22 DEF WriteError
<1>23. CASE BackupError(p)
  BY <1>23 DEF BackupError
<1>24. CASE IgnoredError(p)
  BY <1>24 DEF IgnoredError
<1> HIDE DEF TypeOK
<1> QED BY <1>1, <1>2, <1>3, <1>4, <1>5, <1>6, <1>7, <1>8, <1>9, <1>10, <1>11, <1>12, <1>13,
           <1>14, <1>15, <1>16, <1>17, <1>18, <1>19, <1>20, <1>21, <1>22, <1>23, <1>24 DEF EnsureRecovery,
           BackupRestore, Write, Error

LEMMA TypeCall ==
  ASSUME TypeOK, NEW p \in Procs,
         \/ \E v \in Values : WriteFileWithRollback(p, v)
         \/ ReadFile(p) \/ RemoveAll(p) \/ Rollback(p) \/ OsReadFile(p) \/ Return(p) \/ Crash(p)
  PROVE  TypeOK'
<1> USE DEF TypeOK, Contents, Steps, RecoverySteps, Goto, Leave, disk
<1>1. ASSUME NEW v \in Values, WriteFileWithRollback(p, v)
      PROVE  TypeOK'
  BY <1>1 DEF WriteFileWithRollback
<1>2. CASE ReadFile(p)
  BY <1>2 DEF ReadFile
<1>3. CASE RemoveAll(p)
  BY <1>3 DEF RemoveAll
<1>4. CASE Rollback(p)
  BY <1>4 DEF Rollback
<1>5. CASE OsReadFile(p)
  BY <1>5 DEF OsReadFile
<1>6. CASE Return(p)
  BY <1>6 DEF Return
<1>7. CASE Crash(p)
  BY <1>7 DEF Crash
<1> HIDE DEF TypeOK
<1> QED BY <1>1, <1>2, <1>3, <1>4, <1>5, <1>6, <1>7

(* Wherever a process dies or a system call fails, the windows included.   *)
THEOREM FileTypes == Spec => []TypeOK
<1>1. Init => TypeOK
  BY ZenonT(40) DEF Init, TypeOK, Contents, Steps
<1>2. TypeOK /\ [Next]_vars => TypeOK'
  <2>1. TypeOK /\ UNCHANGED vars => TypeOK'
    BY DEF vars, TypeOK
  <2> QED BY <2>1, TypeStep, TypeCall DEF Next
<1> QED BY <1>1, <1>2, PTL DEF Spec
=============================================================================
