--------------------------- MODULE MCRollbackFile ---------------------------
(* Instances of RollbackFile for TLC.                                      *)
EXTENDS RollbackFile

(* A process may die anywhere but while the backup is torn (between the    *)
(* O_TRUNC open of the backup and the end of its copy or removal) and      *)
(* while a rollback, which no marker protects, copies.                     *)
MCCrashPoints == Steps \ {"idle", "backupCopy", "backupUndo", "rollbackCopy"}

(* Every system call may fail but the removals whose error is ignored and  *)
(* the copy of a rollback.                                                 *)
MCFaults == Steps \ {"backupRemove", "backupUndo", "rollbackCopy"}

(* The one window of the violation run: the copy into the backup.          *)
MCBackupWindow == {"backupCopy"}
=============================================================================
