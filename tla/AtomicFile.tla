----------------------------- MODULE AtomicFile -----------------------------
(***************************************************************************)
(* What pkg/internal/filesystem promises for one file that is written with *)
(* WriteFile / WriteFileWithRollback and read with ReadFile: every write   *)
(* is one indivisible change of the file.  A write that returns an error,  *)
(* or whose process dies before it commits, changes nothing; a read        *)
(* returns the last committed content; a rollback puts back the content    *)
(* the write replaced.                                                     *)
(*                                                                         *)
(* Nothing here says how this is achieved: RollbackFile does.              *)
(***************************************************************************)
CONSTANTS Procs,    \* the processes that use the file
          Values,   \* the contents a caller may write
          Absent    \* "the file does not exist"

VARIABLES value,    \* the content of the file, or Absent
          phase,    \* phase[p]: how far the call of process p has come
          arg,      \* arg[p]: what p writes, or what p has read
          old       \* old[p]: what the committed write of p has replaced

avars == <<value, phase, arg, old>>

Contents == Values \union {Absent}

Phases == {"idle", "writing", "committed", "reverted", "reading", "got", "failed"}

AInit ==
  /\ value \in Contents
  /\ phase = [p \in Procs |-> "idle"]
  /\ arg = [p \in Procs |-> Absent]
  /\ old = [p \in Procs |-> Absent]

(* One caller at a time: every caller holds the lock of its store. *)
BeginWrite(p, v) ==
  /\ \A q \in Procs : phase[q] = "idle"
  /\ phase' = [phase EXCEPT ![p] = "writing"]
  /\ arg' = [arg EXCEPT ![p] = v]
  /\ UNCHANGED <<value, old>>

BeginRead(p) ==
  /\ \A q \in Procs : phase[q] = "idle"
  /\ phase' = [phase EXCEPT ![p] = "reading"]
  /\ UNCHANGED <<value, arg, old>>

(* A caller deletes the file. *)
Delete ==
  /\ \A q \in Procs : phase[q] = "idle"
  /\ value' = Absent
  /\ UNCHANGED <<phase, arg, old>>

Commit(p) ==
  /\ phase[p] = "writing"
  /\ value' = arg[p]
  /\ old' = [old EXCEPT ![p] = value]
  /\ phase' = [phase EXCEPT ![p] = "committed"]
  /\ UNCHANGED arg

Revert(p) ==
  /\ phase[p] = "committed"
  /\ value' = old[p]
  /\ old' = [old EXCEPT ![p] = Absent]
  /\ phase' = [phase EXCEPT ![p] = "reverted"]
  /\ UNCHANGED arg

Get(p) ==
  /\ phase[p] = "reading"
  /\ arg' = [arg EXCEPT ![p] = value]
  /\ phase' = [phase EXCEPT ![p] = "got"]
  /\ UNCHANGED <<value, old>>

(* A write, a read or a rollback returns an error: the content stays.      *)
Fail(p) ==
  /\ phase[p] \in {"writing", "reading", "committed", "reverted"}
  /\ phase' = [phase EXCEPT ![p] = "failed"]
  /\ old' = [old EXCEPT ![p] = Absent]
  /\ UNCHANGED <<value, arg>>

(* The call returns, or its process dies: either way the content stays.    *)
End(p) ==
  /\ phase[p] # "idle"
  /\ phase' = [phase EXCEPT ![p] = "idle"]
  /\ arg' = [arg EXCEPT ![p] = Absent]
  /\ old' = [old EXCEPT ![p] = Absent]
  /\ UNCHANGED value

ANext ==
  \E p \in Procs :
    \/ \E v \in Values : BeginWrite(p, v)
    \/ BeginRead(p)
    \/ Delete
    \/ Commit(p)
    \/ Revert(p)
    \/ Get(p)
    \/ Fail(p)
    \/ End(p)

ASpec == AInit /\ [][ANext]_avars
=============================================================================
