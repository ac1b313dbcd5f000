---------------------------- MODULE RollbackFile ----------------------------
(***************************************************************************)
(* pkg/internal/filesystem: writefile_rollback.go, helpers.go, os.go.      *)
(*                                                                         *)
(* One file written in place by WriteFileWithRollback (WriteFile is the    *)
(* same call without its rollback) and read by ReadFile or Stat.  A marker *)
(* file says that a write is under way and how to undo it, a backup file   *)
(* holds the content to put back; ensureRecovery, which every call runs    *)
(* first, undoes a write that was interrupted.                             *)
(*                                                                         *)
(* Each system call that changes the disk is a step, so a process may die  *)
(* between any two of them.  An O_TRUNC open and the copy that follows are *)
(* two steps: in between the file is Torn (empty or partial).  Callers     *)
(* hold the exclusive lock of their store (hostsstore runs these calls     *)
(* under fileStore.WithLock), so one process is inside at a time.          *)
(***************************************************************************)
CONSTANTS Procs,        \* the processes that use the file
          Values,       \* the contents a caller may write
          Absent,       \* "no such file"
          Torn,         \* an empty or partly written file
          CrashPoints,  \* the steps before which a process may die
          Faults        \* the steps whose system call may return an error

ASSUME ContentsDistinct == Absent \notin Values /\ Torn \notin Values /\ Absent # Torn

VARIABLES
  file,     \* the content of the destination
  backup,   \* the content of its backup
  marker,   \* the content of its marker, "none" when there is no marker
  pc,       \* pc[p]: the next system call of process p
  ret,      \* ret[p]: who called ensureRecovery or backupRestore
  op,       \* op[p]: the marker ensureRecovery has read
  src,      \* src[p]: the content behind the descriptor backupRestore opened
  md,       \* md[p]: markerData of the write
  val       \* val[p]: the content being written, or the content read

disk == <<file, backup, marker>>
vars == <<file, backup, marker, pc, ret, op, src, md, val>>

Contents == Values \union {Absent}

(* The steps of ensureRecovery and backupRestore, then those of the write. *)
RecoverySteps == {"markerRead", "backupExists", "restoreOpen", "restoreTrunc",
                  "restoreCopy", "rollbackCopy", "restoreUnlink", "statFile",
                  "removeFile", "clearMarker"}
WriteSteps == {"stat", "backupRemove", "markerCreate", "markerWrite", "backupTrunc",
               "backupCopy", "backupUndo", "markerUndo", "fileTrunc", "fileWrite",
               "markerRemove"}
Steps == RecoverySteps \union WriteSteps
           \union {"idle", "read", "got", "done", "reverted", "failed"}

Goto(p, l) == pc' = [pc EXCEPT ![p] = l]

TypeOK ==
  /\ file \in Contents \union {Torn}
  /\ backup \in Contents \union {Torn}
  /\ marker \in {"none", "", "remove"}
  /\ pc \in [Procs -> Steps]
  /\ ret \in [Procs -> {"write", "abort", "read", "rollback"}]
  /\ op \in [Procs -> {"", "remove"}]
  /\ src \in [Procs -> Contents \union {Torn}]
  /\ md \in [Procs -> {"", "remove"}]
  /\ val \in [Procs -> Contents \union {Torn}]

Init ==
  /\ file \in Contents
  /\ backup = Absent
  /\ marker = "none"
  /\ pc = [p \in Procs |-> "idle"]
  /\ ret = [p \in Procs |-> "read"]
  /\ op = [p \in Procs |-> ""]
  /\ src = [p \in Procs |-> Absent]
  /\ md = [p \in Procs |-> ""]
  /\ val = [p \in Procs |-> Absent]

-----------------------------------------------------------------------------
(* Entering and leaving a call, under the lock of the store.               *)

LockFree == \A q \in Procs : pc[q] = "idle"

WriteFileWithRollback(p, v) ==
  /\ LockFree
  /\ val' = [val EXCEPT ![p] = v]
  /\ ret' = [ret EXCEPT ![p] = "write"]
  /\ Goto(p, "markerRead")
  /\ UNCHANGED <<disk, op, src, md>>

(* Mutant: ReadFile without its ensureRecovery. *)
ReadFileNoRecovery(p) ==
  /\ LockFree
  /\ ret' = [ret EXCEPT ![p] = "read"]
  /\ Goto(p, "read")
  /\ UNCHANGED <<disk, op, src, md, val>>

ReadFile(p) ==
  /\ LockFree
  /\ ret' = [ret EXCEPT ![p] = "read"]
  /\ Goto(p, "markerRead")
  /\ UNCHANGED <<disk, op, src, md, val>>

(* A caller deletes the file itself (fsRemove, fileStore.Delete), without  *)
(* recovering it first.  A file that may come back under the same path is  *)
(* a network configuration, which fsWrite writes only when it is absent:   *)
(* no interrupted write of it has left a marker to restore.                *)
RemoveAll(p) ==
  /\ LockFree
  /\ marker # ""
  /\ file' = Absent
  /\ UNCHANGED <<backup, marker, pc, ret, op, src, md, val>>

(* The locals of a call end with it. *)
Leave(p) ==
  /\ Goto(p, "idle")
  /\ ret' = [ret EXCEPT ![p] = "read"]
  /\ op' = [op EXCEPT ![p] = ""]
  /\ src' = [src EXCEPT ![p] = Absent]
  /\ md' = [md EXCEPT ![p] = ""]
  /\ val' = [val EXCEPT ![p] = Absent]
  /\ UNCHANGED disk

Return(p) ==
  /\ pc[p] \in {"done", "reverted", "failed", "got"}
  /\ Leave(p)

Crash(p) ==
  /\ pc[p] \in CrashPoints
  /\ pc[p] # "idle"
  /\ Leave(p)

-----------------------------------------------------------------------------
(* ensureRecovery returns to its caller.                                   *)

AfterRecovery(p) == IF ret[p] = "write" THEN "stat"
                    ELSE IF ret[p] = "read" THEN "read" ELSE "failed"

(* The deferred call of WriteFileWithRollback after an error.              *)
Abort(p) ==
  /\ ret' = [ret EXCEPT ![p] = "abort"]
  /\ Goto(p, "markerRead")

MarkerRead(p) ==
  /\ pc[p] = "markerRead"
  /\ IF marker = "none"
       THEN Goto(p, AfterRecovery(p)) /\ UNCHANGED op
       ELSE Goto(p, "backupExists") /\ op' = [op EXCEPT ![p] = marker]
  /\ UNCHANGED <<disk, ret, src, md, val>>

BackupExists(p) ==
  /\ pc[p] = "backupExists"
  /\ Goto(p, IF backup = Absent THEN "statFile" ELSE "restoreOpen")
  /\ UNCHANGED <<disk, ret, op, src, md, val>>

(* backupRestore: internalCopy from the backup, then remove the backup.    *)
RestoreOpen(p) ==
  /\ pc[p] = "restoreOpen"
  /\ IF backup = Absent
       THEN Goto(p, "failed") /\ UNCHANGED src
       ELSE Goto(p, "restoreTrunc") /\ src' = [src EXCEPT ![p] = backup]
  /\ UNCHANGED <<disk, ret, op, md, val>>

RestoreTrunc(p) ==
  /\ pc[p] = "restoreTrunc"
  /\ file' = Torn
  /\ Goto(p, IF ret[p] = "rollback" THEN "rollbackCopy" ELSE "restoreCopy")
  /\ UNCHANGED <<backup, marker, ret, op, src, md, val>>

RestoreCopy(p) ==
  /\ pc[p] \in {"restoreCopy", "rollbackCopy"}
  /\ file' = src[p]
  /\ Goto(p, "restoreUnlink")
  /\ UNCHANGED <<backup, marker, ret, op, src, md, val>>

RestoreUnlink(p) ==
  /\ pc[p] = "restoreUnlink"
  /\ backup' = Absent
  /\ Goto(p, IF ret[p] = "rollback" THEN "reverted" ELSE "clearMarker")
  /\ UNCHANGED <<file, marker, ret, op, src, md, val>>

(* Mutant: recovery removes the destination whatever the marker says. *)
StatFileAlwaysRemove(p) ==
  /\ pc[p] = "statFile"
  /\ Goto(p, IF file # Absent THEN "removeFile" ELSE "clearMarker")
  /\ UNCHANGED <<disk, ret, op, src, md, val>>

(* No backup: remove a destination that did not exist before the write.    *)
StatFile(p) ==
  /\ pc[p] = "statFile"
  /\ Goto(p, IF file # Absent /\ op[p] = "remove" THEN "removeFile" ELSE "clearMarker")
  /\ UNCHANGED <<disk, ret, op, src, md, val>>

RemoveFile(p) ==
  /\ pc[p] = "removeFile"
  /\ file' = Absent
  /\ Goto(p, "clearMarker")
  /\ UNCHANGED <<backup, marker, ret, op, src, md, val>>

ClearMarker(p) ==
  /\ pc[p] = "clearMarker"
  /\ marker' = "none"
  /\ Goto(p, AfterRecovery(p))
  /\ UNCHANGED <<file, backup, ret, op, src, md, val>>

-----------------------------------------------------------------------------
(* WriteFileWithRollback after its ensureRecovery.                         *)

StatDestination(p) ==
  /\ pc[p] = "stat"
  /\ md' = [md EXCEPT ![p] = IF file = Absent THEN "remove" ELSE ""]
  /\ Goto(p, "backupRemove")
  /\ UNCHANGED <<disk, ret, op, src, val>>

(* Mutant: the backup of an earlier write is left where it is. *)
BackupRemoveSkipped(p) ==
  /\ pc[p] = "backupRemove"
  /\ Goto(p, "markerCreate")
  /\ UNCHANGED <<disk, ret, op, src, md, val>>

BackupRemove(p) ==
  /\ pc[p] = "backupRemove"
  /\ backup' = Absent
  /\ Goto(p, "markerCreate")
  /\ UNCHANGED <<file, marker, ret, op, src, md, val>>

(* markerCreate: the O_TRUNC open leaves an empty marker, then it is filled. *)
MarkerCreate(p) ==
  /\ pc[p] = "markerCreate"
  /\ marker' = ""
  /\ Goto(p, "markerWrite")
  /\ UNCHANGED <<file, backup, ret, op, src, md, val>>

(* Mutant: the data of the write ends up in the marker. *)
MarkerWriteData(p) ==
  /\ pc[p] = "markerWrite"
  /\ marker' = val[p]
  /\ Goto(p, IF md[p] = "" THEN "backupTrunc" ELSE "fileTrunc")
  /\ UNCHANGED <<file, backup, ret, op, src, md, val>>

MarkerWrite(p) ==
  /\ pc[p] = "markerWrite"
  /\ marker' = md[p]
  /\ Goto(p, IF md[p] = "" THEN "backupTrunc" ELSE "fileTrunc")
  /\ UNCHANGED <<file, backup, ret, op, src, md, val>>

(* backupSave, only for a file that existed.                               *)
BackupTrunc(p) ==
  /\ pc[p] = "backupTrunc"
  /\ backup' = Torn
  /\ Goto(p, "backupCopy")
  /\ UNCHANGED <<file, marker, ret, op, src, md, val>>

BackupCopy(p) ==
  /\ pc[p] = "backupCopy"
  /\ backup' = file
  /\ Goto(p, "fileTrunc")
  /\ UNCHANGED <<file, marker, ret, op, src, md, val>>

(* A failed backup is removed, then its marker; the write is given up.     *)
BackupUndo(p) ==
  /\ pc[p] = "backupUndo"
  /\ backup' = Absent
  /\ Goto(p, "markerUndo")
  /\ UNCHANGED <<file, marker, ret, op, src, md, val>>

MarkerUndo(p) ==
  /\ pc[p] = "markerUndo"
  /\ marker' = "none"
  /\ Abort(p)
  /\ UNCHANGED <<file, backup, op, src, md, val>>

(* fileWrite to the destination, then the marker goes: the write is done.  *)
FileTrunc(p) ==
  /\ pc[p] = "fileTrunc"
  /\ file' = Torn
  /\ Goto(p, "fileWrite")
  /\ UNCHANGED <<backup, marker, ret, op, src, md, val>>

FileWrite(p) ==
  /\ pc[p] = "fileWrite"
  /\ file' = val[p]
  /\ Goto(p, "markerRemove")
  /\ UNCHANGED <<backup, marker, ret, op, src, md, val>>

MarkerRemove(p) ==
  /\ pc[p] = "markerRemove"
  /\ marker' = "none"
  /\ Goto(p, "done")
  /\ UNCHANGED <<file, backup, ret, op, src, md, val>>

(* The rollback closure the write returned: remove the file it created, or *)
(* restore the backup it made.  No marker protects either.                 *)
Rollback(p) ==
  /\ pc[p] = "done"
  /\ IF md[p] = "remove"
       THEN file' = Absent /\ Goto(p, "reverted") /\ UNCHANGED ret
       ELSE Goto(p, "restoreOpen") /\ ret' = [ret EXCEPT ![p] = "rollback"] /\ UNCHANGED file
  /\ UNCHANGED <<backup, marker, op, src, md, val>>

OsReadFile(p) ==
  /\ pc[p] = "read"
  /\ val' = [val EXCEPT ![p] = file]
  /\ Goto(p, "got")
  /\ UNCHANGED <<disk, ret, op, src, md>>

-----------------------------------------------------------------------------
(* Error returns of the system calls.                                      *)

(* ensureRecovery, backupRestore and the final read give up at once.       *)
RecoveryError(p) ==
  /\ pc[p] \in Faults \intersect (RecoverySteps \union {"read"})
  /\ Goto(p, "failed")
  /\ UNCHANGED <<disk, ret, op, src, md, val>>

(* The write runs its deferred ensureRecovery; markerCreate first removes  *)
(* the marker it could not fill.                                           *)
WriteError(p) ==
  /\ pc[p] \in Faults \intersect {"stat", "markerCreate", "markerWrite",
                                  "fileTrunc", "fileWrite", "markerRemove"}
  /\ marker' = IF pc[p] = "markerWrite" THEN "none" ELSE marker
  /\ Abort(p)
  /\ UNCHANGED <<file, backup, op, src, md, val>>

BackupError(p) ==
  /\ pc[p] \in Faults \intersect {"backupTrunc", "backupCopy"}
  /\ Goto(p, "backupUndo")
  /\ UNCHANGED <<disk, ret, op, src, md, val>>

(* Errors the code ignores: the file stays and the next call is made.      *)
IgnoredError(p) ==
  /\ pc[p] \in Faults \intersect {"backupRemove", "backupUndo", "markerUndo"}
  /\ IF pc[p] = "markerUndo"
       THEN Abort(p)
       ELSE /\ Goto(p, IF pc[p] = "backupRemove" THEN "markerCreate" ELSE "markerUndo")
            /\ UNCHANGED ret
  /\ UNCHANGED <<disk, op, src, md, val>>

-----------------------------------------------------------------------------
EnsureRecovery(p) ==
  \/ MarkerRead(p) \/ BackupExists(p) \/ StatFile(p) \/ RemoveFile(p) \/ ClearMarker(p)

BackupRestore(p) ==
  \/ RestoreOpen(p) \/ RestoreTrunc(p) \/ RestoreCopy(p) \/ RestoreUnlink(p)

Write(p) ==
  \/ StatDestination(p) \/ BackupRemove(p) \/ MarkerCreate(p) \/ MarkerWrite(p)
  \/ BackupTrunc(p) \/ BackupCopy(p) \/ BackupUndo(p) \/ MarkerUndo(p)
  \/ FileTrunc(p) \/ FileWrite(p) \/ MarkerRemove(p)

Error(p) == RecoveryError(p) \/ WriteError(p) \/ BackupError(p) \/ IgnoredError(p)

Next ==
  \E p \in Procs :
    \/ \E v \in Values : WriteFileWithRollback(p, v)
    \/ ReadFile(p)
    \/ RemoveAll(p)
    \/ EnsureRecovery(p)
    \/ BackupRestore(p)
    \/ Write(p)
    \/ Rollback(p)
    \/ OsReadFile(p)
    \/ Error(p)
    \/ Return(p)
    \/ Crash(p)

Spec == Init /\ [][Next]_vars

-----------------------------------------------------------------------------
(* The abstract file.  Its content is what the next ensureRecovery would   *)
(* leave, except while a live process is copying.                          *)

Recovered ==
  IF marker = "none" THEN file
  ELSE IF backup # Absent THEN backup
  ELSE IF marker = "remove" THEN Absent ELSE file

At(labels) == \E p \in Procs : pc[p] \in labels

AbsValue ==
  IF At({"backupCopy", "backupUndo"}) THEN file
  ELSE IF At({"rollbackCopy"}) THEN backup
  ELSE Recovered

AbsPhase(p) ==
  IF pc[p] \in {"idle", "failed", "got", "reverted"} THEN pc[p]
  ELSE IF pc[p] = "done" THEN "committed"
  ELSE IF ret[p] = "rollback"
    THEN IF pc[p] \in {"restoreOpen", "restoreTrunc"} THEN "committed" ELSE "reverted"
  ELSE IF ret[p] = "read" THEN "reading" ELSE "writing"

AbsOld(p) == IF AbsPhase(p) = "committed" /\ md[p] = "" THEN backup ELSE Absent

Atomic == INSTANCE AtomicFile WITH
            value <- AbsValue,
            phase <- [p \in Procs |-> AbsPhase(p)],
            arg   <- val,
            old   <- [p \in Procs |-> AbsOld(p)]

-----------------------------------------------------------------------------
(* Outside the copies of a live process, the disk always recovers to a     *)
(* whole file: a backup under a marker is complete, a destination that     *)
(* recovery keeps is complete, and a "remove" marker never stands beside a *)
(* backup (helpers.go:33-87 would restore it instead of removing).         *)
RecoverableDisk ==
  /\ marker = "remove" => backup = Absent
  /\ At({"backupCopy", "backupUndo", "rollbackCopy"}) \/ Recovered # Torn

(* ReadFile never hands out a torn file: whatever was interrupted or went  *)
(* wrong before, the content read was written by some call, or the file    *)
(* does not exist (writefile_rollback.go:26-29, os.go:45).                 *)
NoTornRead == \A p \in Procs : pc[p] = "got" => val[p] # Torn

(* WriteFileWithRollback, its rollback, ReadFile and ensureRecovery act as *)
(* a file whose writes are indivisible: an error or a death before the     *)
(* marker is removed leaves the old content, a rollback restores it.       *)
ImplementsAtomicFile == Atomic!ASpec
=============================================================================
