-------------------------- MODULE FileStoreProofs --------------------------
(***************************************************************************)
(* Proofs about FileStore for any calls, processes and deaths.             *)
(*                                                                         *)
(* The lock excludes because each call inside holds, at once, the mutex of *)
(* its process and the flock of the inode it opened (LockInv).  When the   *)
(* directory is never removed every call opens the same inode, so one      *)
(* function runs at a time, what it read stays current until its rename    *)
(* (DataInv), and the store implements AtomicStore.                        *)
(***************************************************************************)
EXTENDS FileStore, TLAPS

LockInv ==
  \A c \in Calls :
    /\ pc[c] \in Holding => mutex[ProcOf[c]] = c
    /\ pc[c] \in Inside \union {"flock"} => fd[c] # 0
    /\ pc[c] \in Inside => holder[fd[c]] = c /\ locked[ProcOf[c]]

(* A complete copy is what Rename puts in place of the key. *)
TempInv == \A c \in Calls : pc[c] = "rename" => temp[c] # Partial

(* There is an inode left to make when the path is gone. *)
PathInv == path = 0 => made < MaxDirs

IndInv == TypeOK /\ LockInv /\ TempInv /\ PathInv

(* What TypeOK needs to know about the constants. *)
LEMMA Constants ==
  /\ ProcOf \in [Calls -> Procs]
  /\ MaxDirs \in Nat \ {0}
  /\ NoOne \notin Calls
  /\ Absent # Partial
  /\ Absent \notin SUBSET Calls /\ Partial \notin SUBSET Calls
BY ProcOfAssumption, MaxDirsAssumption, DistinctAssumption

(* What the proofs use of Contents. *)
LEMMA ContentFacts ==
  /\ Absent \in Contents
  /\ Partial \notin Contents
  /\ \A v \in Contents, c \in Calls : Contributions(v) \union {c} \in Contents \ {Absent, Partial}
<1>1. Absent \in Contents
  BY DEF Contents
<1>3. Partial \notin Contents
  BY Constants DEF Contents
<1>2. ASSUME NEW v \in Contents, NEW c \in Calls
      PROVE  Contributions(v) \union {c} \in Contents \ {Absent, Partial}
  <2>1. Contributions(v) \union {c} \in SUBSET Calls
    <3>1. v = Absent \/ v \in SUBSET Calls
      BY DEF Contents
    <3> QED BY <3>1 DEF Contributions
  <2> QED BY <2>1, Constants DEF Contents
<1> QED BY <1>1, <1>2, <1>3

LEMMA InitInv == Init => IndInv
<1> SUFFICES ASSUME Init PROVE IndInv
  OBVIOUS
<1> USE Constants, ContentFacts
    DEF IndInv, TypeOK, LockTypes, FlagTypes, DataTypes, StepTypes, LockInv, TempInv, PathInv,
        At, Goto, Fail, lockVars, dirVars, Holding, Inside, Ended, Inodes
<1>1. LockTypes /\ StepTypes
  BY DEF Init
<1>2. FlagTypes /\ DataTypes
  BY DEF Init
<1>3. LockInv /\ TempInv /\ PathInv
  BY DEF Init
<1> QED BY <1>1, <1>2, <1>3

(* New, Open and RemoveAll, which move the path from inode to inode. *)
LEMMA DirectoryInv ==
  ASSUME IndInv, NEW c \in Calls,
         New(c) \/ Open(c) \/ RemoveAll(c)
  PROVE  IndInv'
<1> USE Constants, ContentFacts
    DEF IndInv, TypeOK, LockTypes, FlagTypes, DataTypes, StepTypes, LockInv, TempInv, PathInv,
        At, Goto, Fail, lockVars, dirVars, Holding, Inside, Ended, Inodes
<1>1. CASE New(c)
  <2>1. LockTypes'
    BY <1>1 DEF New
  <2>5. StepTypes'
    BY <1>1 DEF New
  <2>2. FlagTypes'
    BY <1>1 DEF New
  <2>3. DataTypes'
    BY <1>1 DEF New
  <2>4. LockInv' /\ TempInv' /\ PathInv'
    BY <1>1 DEF New
  <2> QED BY <2>1, <2>2, <2>3, <2>4, <2>5
<1>2. CASE Open(c)
  <2>1. LockTypes' /\ StepTypes'
    BY <1>2 DEF Open
  <2>2. FlagTypes'
    BY <1>2 DEF Open
  <2>3. DataTypes'
    BY <1>2 DEF Open
  <2>4. LockInv' /\ TempInv' /\ PathInv'
    BY <1>2 DEF Open
  <2> QED BY <2>1, <2>2, <2>3, <2>4
<1>3. CASE RemoveAll(c)
  <2>1. LockTypes' /\ StepTypes'
    BY <1>3 DEF RemoveAll
  <2>2. FlagTypes'
    BY <1>3 DEF RemoveAll
  <2>3. DataTypes'
    BY <1>3 DEF RemoveAll
  <2>4. LockInv' /\ TempInv' /\ PathInv'
    BY <1>3 DEF RemoveAll
  <2> QED BY <2>1, <2>2, <2>3, <2>4
<1> QED BY <1>1, <1>2, <1>3

(* Lock and Release. *)
LEMMA LockStepInv ==
  ASSUME IndInv, NEW c \in Calls,
         MutexLock(c) \/ Flock(c) \/ LockError(c) \/ Unflock(c) \/ Deferred(c)
  PROVE  IndInv'
<1> USE Constants, ContentFacts
    DEF IndInv, TypeOK, LockTypes, FlagTypes, DataTypes, StepTypes, LockInv, TempInv, PathInv,
        At, Goto, Fail, lockVars, dirVars, Holding, Inside, Ended, Inodes
<1>1. CASE MutexLock(c)
  <2>1. LockTypes' /\ StepTypes'
    BY <1>1 DEF MutexLock
  <2>2. FlagTypes'
    BY <1>1 DEF MutexLock
  <2>3. DataTypes'
    BY <1>1 DEF MutexLock
  <2>4. LockInv' /\ TempInv' /\ PathInv'
    BY <1>1 DEF MutexLock
  <2> QED BY <2>1, <2>2, <2>3, <2>4
<1>2. CASE Flock(c)
  <2>1. LockTypes' /\ StepTypes'
    BY <1>2 DEF Flock
  <2>2. FlagTypes'
    BY <1>2 DEF Flock
  <2>3. DataTypes'
    BY <1>2 DEF Flock
  <2>4. LockInv' /\ TempInv' /\ PathInv'
    BY <1>2 DEF Flock
  <2> QED BY <2>1, <2>2, <2>3, <2>4
<1>3. CASE LockError(c)
  <2>1. LockTypes' /\ StepTypes'
    BY <1>3 DEF LockError
  <2>2. FlagTypes'
    BY <1>3 DEF LockError
  <2>3. DataTypes'
    BY <1>3 DEF LockError
  <2>4. LockInv' /\ TempInv' /\ PathInv'
    BY <1>3 DEF LockError
  <2> QED BY <2>1, <2>2, <2>3, <2>4
<1>4. CASE Unflock(c)
  <2>1. LockTypes' /\ StepTypes'
    BY <1>4 DEF Unflock
  <2>2. FlagTypes'
    BY <1>4 DEF Unflock
  <2>3. DataTypes'
    BY <1>4 DEF Unflock
  <2>4. LockInv' /\ TempInv' /\ PathInv'
    BY <1>4 DEF Unflock
  <2> QED BY <2>1, <2>2, <2>3, <2>4
<1>5. CASE Deferred(c)
  <2>1. LockTypes'
    BY <1>5 DEF Deferred
  <2>5. StepTypes'
    BY <1>5 DEF Deferred
  <2>2. FlagTypes'
    BY <1>5, ZenonT(40) DEF Deferred
  <2>3. DataTypes'
    BY <1>5 DEF Deferred
  <2>4. LockInv' /\ TempInv' /\ PathInv'
    BY <1>5 DEF Deferred
  <2> QED BY <2>1, <2>2, <2>3, <2>4, <2>5
<1> QED BY <1>1, <1>2, <1>3, <1>4, <1>5

(* The function, which leaves the locks alone. *)
LEMMA FunctionInv ==
  ASSUME IndInv, NEW c \in Calls,
         Get(c) \/ CreateTemp(c) \/ CopyDone(c) \/ CopyShort(c) \/ Rename(c) \/ Delete(c)
  PROVE  IndInv'
<1> USE Constants, ContentFacts
    DEF IndInv, TypeOK, LockTypes, FlagTypes, DataTypes, StepTypes, LockInv, TempInv, PathInv,
        At, Goto, Fail, lockVars, dirVars, Holding, Inside, Ended, Inodes
<1>1. CASE Get(c)
  <2>1. LockTypes'
    BY <1>1 DEF Get
  <2>5. StepTypes'
    <3>1. PICK l \in {"unflock", "createTemp", "delete"} : pc' = [pc EXCEPT ![c] = l]
      BY <1>1 DEF Get
    <3> QED BY <3>1
  <2>2. FlagTypes'
    BY <1>1 DEF Get
  <2>3. DataTypes'
    BY <1>1 DEF Get
  <2>4. LockInv' /\ TempInv' /\ PathInv'
    BY <1>1 DEF Get
  <2> QED BY <2>1, <2>2, <2>3, <2>4, <2>5
<1>2. CASE CreateTemp(c)
  <2>1. LockTypes' /\ StepTypes'
    BY <1>2, ZenonT(40) DEF CreateTemp
  <2>2. FlagTypes'
    <3>1. err' = err \/ err' = [err EXCEPT ![c] = TRUE]
      BY <1>2 DEF CreateTemp
    <3>2. locked' = locked /\ plain' = plain
      BY <1>2 DEF CreateTemp
    <3> QED BY <3>1, <3>2
  <2>3. DataTypes'
    BY <1>2, SMTT(20) DEF CreateTemp
  <2>4. LockInv' /\ TempInv' /\ PathInv'
    BY <1>2 DEF CreateTemp
  <2> QED BY <2>1, <2>2, <2>3, <2>4
<1>3. CASE CopyDone(c)
  <2>1. LockTypes' /\ StepTypes'
    BY <1>3 DEF CopyDone
  <2>2. FlagTypes'
    BY <1>3 DEF CopyDone
  <2>3. DataTypes'
    BY <1>3 DEF CopyDone
  <2>4. LockInv' /\ TempInv' /\ PathInv'
    BY <1>3 DEF CopyDone
  <2> QED BY <2>1, <2>2, <2>3, <2>4
<1>4. CASE CopyShort(c)
  <2>1. LockTypes' /\ StepTypes'
    BY <1>4 DEF CopyShort
  <2>2. FlagTypes'
    BY <1>4 DEF CopyShort
  <2>3. DataTypes'
    BY <1>4 DEF CopyShort
  <2>4. LockInv' /\ TempInv' /\ PathInv'
    BY <1>4 DEF CopyShort
  <2> QED BY <2>1, <2>2, <2>3, <2>4
<1>5. CASE Rename(c)
  <2>1. LockTypes' /\ StepTypes'
    BY <1>5 DEF Rename
  <2>2. FlagTypes'
    <3>1. err' = err \/ err' = [err EXCEPT ![c] = TRUE]
      BY <1>5 DEF Rename
    <3>2. locked' = locked /\ plain' = plain
      BY <1>5 DEF Rename
    <3> QED BY <3>1, <3>2
  <2>3. DataTypes'
    BY <1>5 DEF Rename
  <2>4. LockInv' /\ TempInv' /\ PathInv'
    BY <1>5 DEF Rename
  <2> QED BY <2>1, <2>2, <2>3, <2>4
<1>6. CASE Delete(c)
  <2>1. LockTypes' /\ StepTypes'
    BY <1>6 DEF Delete
  <2>2. FlagTypes'
    <3>1. err' = err \/ err' = [err EXCEPT ![c] = TRUE]
      BY <1>6 DEF Delete
    <3>2. locked' = locked /\ plain' = plain
      BY <1>6 DEF Delete
    <3> QED BY <3>1, <3>2
  <2>3. DataTypes'
    BY <1>6 DEF Delete
  <2>4. LockInv' /\ TempInv' /\ PathInv'
    BY <1>6 DEF Delete
  <2> QED BY <2>1, <2>2, <2>3, <2>4
<1> QED BY <1>1, <1>2, <1>3, <1>4, <1>5, <1>6

LEMMA DieInv == ASSUME IndInv, NEW p \in Procs, Die(p) PROVE IndInv'
<1> USE Constants, ContentFacts
    DEF IndInv, TypeOK, LockTypes, FlagTypes, DataTypes, StepTypes, LockInv, TempInv, PathInv,
        At, Goto, Fail, lockVars, dirVars, Holding, Inside, Ended, Inodes
<1>1. LockTypes' /\ StepTypes'
  BY DEF Die
<1>2. FlagTypes' /\ DataTypes'
  BY DEF Die
<1>3. LockInv' /\ TempInv' /\ PathInv'
  BY DEF Die
<1> QED BY <1>1, <1>2, <1>3

LEMMA Inductive == IndInv /\ [Next]_vars => IndInv'
<1> SUFFICES ASSUME IndInv, [Next]_vars PROVE IndInv'
  OBVIOUS
<1>1. CASE \E c \in Calls : New(c) \/ Step(c) \/ LockError(c) \/ RemoveAll(c)
  BY <1>1, DirectoryInv, LockStepInv, FunctionInv DEF Step
<1>2. CASE \E p \in Procs : Die(p)
  BY <1>2, DieInv
<1>3. CASE UNCHANGED vars
  BY <1>3 DEF vars, IndInv, TypeOK, LockTypes, FlagTypes, DataTypes, StepTypes,
              LockInv, TempInv, PathInv
<1> QED BY <1>1, <1>2, <1>3 DEF Next, AllEnded

LEMMA Invariance == Spec => []IndInv
BY InitInv, Inductive, PTL DEF Spec

(* Every call, failure and death keeps the store well formed. *)
THEOREM StoreTypes == Spec => []TypeOK
<1>1. IndInv => TypeOK
  BY DEF IndInv
<1> QED BY <1>1, Invariance, PTL

-----------------------------------------------------------------------------
(* No two functions run under the lock of one directory, however many      *)
(* times the directory is removed and made again.                          *)
THEOREM LockExcludes == Spec => []ExclusivePerDirectory
<1>1. IndInv => ExclusivePerDirectory
  BY DEF IndInv, LockInv, ExclusivePerDirectory
<1> QED BY <1>1, Invariance, PTL

(* vs.locked is set for as long as a function runs, so the guards of Get,  *)
(* Set and Delete and that of Release never refuse a caller of WithLock.   *)
THEOREM LockSeen == Spec => []LockedInside
<1>1. IndInv => LockedInside
  BY DEF IndInv, LockInv, LockedInside
<1> QED BY <1>1, Invariance, PTL

(* A step of a call touches its own temporary file and its own pc. *)
LEMMA TempStep ==
  ASSUME IndInv, NoTempLeak, [Next]_vars
  PROVE  NoTempLeak'
<1> USE DEF IndInv, TypeOK, DataTypes, StepTypes, NoTempLeak, At, Goto, Fail
<1>1. ASSUME NEW c \in Calls, New(c) \/ LockError(c) \/ MutexLock(c) \/ Open(c) \/ Flock(c)
      PROVE  NoTempLeak'
  BY <1>1 DEF New, LockError, MutexLock, Open, Flock
<1>2. ASSUME NEW c \in Calls, Get(c) \/ Delete(c) \/ Unflock(c) \/ Deferred(c)
      PROVE  NoTempLeak'
  BY <1>2 DEF Get, Delete, Unflock, Deferred
<1>3. ASSUME NEW c \in Calls, CreateTemp(c) \/ CopyDone(c)
      PROVE  NoTempLeak'
  BY <1>3 DEF CreateTemp, CopyDone
<1>4. ASSUME NEW c \in Calls, CopyShort(c) \/ Rename(c)
      PROVE  NoTempLeak'
  BY <1>4 DEF CopyShort, Rename
<1>5. ASSUME NEW c \in Calls, RemoveAll(c)
      PROVE  NoTempLeak'
  BY <1>5 DEF RemoveAll
<1>6. ASSUME NEW p \in Procs, Die(p)
      PROVE  NoTempLeak'
  BY <1>6 DEF Die, Ended
<1>7. CASE UNCHANGED vars
  BY <1>7 DEF vars
<1> QED BY <1>1, <1>2, <1>3, <1>4, <1>5, <1>6, <1>7 DEF Next, Step, AllEnded

(* Only a process that died leaves a temporary file behind, whatever fails *)
(* and also when the directory is removed under a write.                   *)
THEOREM TempRemoved == Spec => []NoTempLeak
<1>1. Init => NoTempLeak
  BY DEF Init, NoTempLeak
<1> QED BY <1>1, TempStep, InitInv, Inductive, PTL DEF Spec

-----------------------------------------------------------------------------
(* The directory is never removed. *)
Kept == MaxDirs = 1

(* What a function has read is current until it renames; what it renames   *)
(* is that content with its own contribution.                              *)
DataInv ==
  \A c \in Calls :
    /\ pc[c] \in {"createTemp", "copy", "rename"} => val[c] = data
    /\ pc[c] = "copy" => temp[c] = Partial
    /\ pc[c] = "rename" => temp[c] = Contributions(val[c]) \union {c}
    /\ err[c] => pc[c] \in {"unflock", "clearLocked", "mutexUnlock"} \union Ended

LEMMA Alone == IndInv /\ Kept => Exclusive
BY DEF IndInv, TypeOK, LockTypes, LockInv, Kept, Exclusive, Inodes

LEMMA DataInit == Init => DataInv
BY DEF Init, DataInv

LEMMA DataStep ==
  ASSUME Kept, IndInv, DataInv, [Next]_vars
  PROVE  DataInv'
<1> USE Constants, ContentFacts, Alone
    DEF IndInv, TypeOK, LockTypes, FlagTypes, DataTypes, StepTypes, DataInv,
        At, Goto, Fail, lockVars, dirVars, Inside, Ended
<1>1. ASSUME NEW c \in Calls, New(c) \/ Open(c) PROVE DataInv'
  BY <1>1 DEF New, Open
<1>2. ASSUME NEW c \in Calls, MutexLock(c) \/ Flock(c) \/ LockError(c) PROVE DataInv'
  BY <1>2 DEF MutexLock, Flock, LockError
<1>3. ASSUME NEW c \in Calls, Unflock(c) \/ Deferred(c) PROVE DataInv'
  BY <1>3 DEF Unflock, Deferred
<1>4. ASSUME NEW c \in Calls, Get(c) PROVE DataInv'
  BY <1>4 DEF Get
<1>5. ASSUME NEW c \in Calls, CreateTemp(c) PROVE DataInv'
  BY <1>5 DEF CreateTemp
<1>6. ASSUME NEW c \in Calls, CopyDone(c) PROVE DataInv'
  BY <1>6 DEF CopyDone
<1>7. ASSUME NEW c \in Calls, CopyShort(c) PROVE DataInv'
  BY <1>7 DEF CopyShort
<1>8. ASSUME NEW c \in Calls, Rename(c) PROVE DataInv'
  BY <1>8 DEF Rename, Exclusive
<1>9. ASSUME NEW c \in Calls, Delete(c) PROVE DataInv'
  BY <1>9 DEF Delete, Exclusive
<1>10. ASSUME NEW c \in Calls, RemoveAll(c) PROVE DataInv'
  BY <1>10 DEF RemoveAll, Kept, Inodes
<1>11. ASSUME NEW p \in Procs, Die(p) PROVE DataInv'
  BY <1>11 DEF Die
<1>12. CASE UNCHANGED vars
  BY <1>12 DEF vars
<1> QED
  BY <1>1, <1>2, <1>3, <1>4, <1>5, <1>6, <1>7, <1>8, <1>9, <1>10, <1>11, <1>12
  DEF Next, Step, AllEnded

-----------------------------------------------------------------------------
(* The refinement: a rename or a delete is the abstract step, everything   *)
(* before it is a call under way, everything after it a return.            *)
Phase == [c \in Calls |-> PhaseOf(c)]

(* A step of call c moves c alone from phase "from" to phase "to". *)
Moves(c, from, to) ==
  /\ PhaseOf(c) = from
  /\ Phase' = [Phase EXCEPT ![c] = to]

LEMMA PhaseMove ==
  ASSUME IndInv, NEW c \in Calls, NEW l, pc' = [pc EXCEPT ![c] = l],
         \A d \in Calls \ {c} : err'[d] = err[d]
  PROVE  Moves(c, PhaseOf(c), PhaseOf(c)')
BY DEF IndInv, TypeOK, StepTypes, Phase, PhaseOf, Moves

LEMMA AbstractMoves ==
  ASSUME NEW c \in Calls
  PROVE  /\ data' = data /\ Moves(c, "idle", "called") => Atomic!SNext
         /\ data' = data /\ Moves(c, "called", "called") => UNCHANGED Atomic!svars
         /\ data' = data /\ Moves(c, "called", "refused") => Atomic!SNext
         /\ data' = Contributions(data) \union {c} /\ Moves(c, "called", "applied") => Atomic!SNext
         /\ data # Absent /\ data' = Absent /\ Moves(c, "called", "applied") => Atomic!SNext
         /\ data' = data /\ Moves(c, "applied", "applied") => UNCHANGED Atomic!svars
         /\ data' = data /\ Moves(c, "refused", "refused") => UNCHANGED Atomic!svars
         /\ data' = data /\ Moves(c, "applied", "ended") => Atomic!SNext
         /\ data' = data /\ Moves(c, "refused", "ended") => Atomic!SNext
<1> USE DEF Moves, Phase, Atomic!svars, Atomic!SNext, Atomic!Move
<1>1. data' = data /\ Moves(c, "idle", "called") => Atomic!Begin(c)
  BY DEF Atomic!Begin
<1>2. data' = data /\ Moves(c, "called", "refused") => Atomic!Refuse(c)
  BY DEF Atomic!Refuse
<1>3. data' = Contributions(data) \union {c} /\ Moves(c, "called", "applied") => Atomic!ApplyUpdate(c)
  BY DEF Atomic!ApplyUpdate, Atomic!Contributions, Contributions
<1>4. data # Absent /\ data' = Absent /\ Moves(c, "called", "applied") => Atomic!ApplyDelete(c)
  BY DEF Atomic!ApplyDelete
<1>5. data' = data /\ (Moves(c, "applied", "ended") \/ Moves(c, "refused", "ended")) => Atomic!Finish(c)
  BY DEF Atomic!Finish
<1>6. ASSUME NEW f, data' = data /\ Moves(c, f, f) PROVE UNCHANGED Atomic!svars
  BY <1>6
<1> QED BY <1>1, <1>2, <1>3, <1>4, <1>5, <1>6

(* Calls that end without having applied anything, or after they did. *)
LEMMA EndsMap ==
  ASSUME NEW S \in SUBSET Calls, data' = data,
         Phase' = [c \in Calls |-> IF c \in S THEN "ended" ELSE Phase[c]]
  PROVE  Atomic!SNext
BY DEF Phase, Atomic!SNext, Atomic!Die

LEMMA LockMaps ==
  ASSUME IndInv, NEW c \in Calls, New(c) \/ MutexLock(c) \/ Open(c) \/ Flock(c) \/ LockError(c)
  PROVE  Atomic!SNext \/ UNCHANGED Atomic!svars
<1> USE DEF IndInv, TypeOK, StepTypes, At, Goto, Ended, PhaseOf
<1>1. CASE MutexLock(c) \/ Open(c) \/ Flock(c)
  <2>1. PICK l \in {"open", "flock", "get"} : pc' = [pc EXCEPT ![c] = l]
    BY <1>1 DEF MutexLock, Open, Flock
  <2>2. err' = err /\ data' = data /\ PhaseOf(c) = "called"
    BY <1>1 DEF MutexLock, Open, Flock
  <2>3. Moves(c, "called", "called")
    BY <2>1, <2>2, PhaseMove
  <2> QED BY <2>2, <2>3, AbstractMoves
<1>2. CASE New(c) /\ pc' = [pc EXCEPT ![c] = "mutexLock"]
  <2>1. err' = err /\ data' = data /\ PhaseOf(c) = "idle"
    BY <1>2 DEF New
  <2>2. Moves(c, "idle", "called")
    BY <1>2, <2>1, PhaseMove
  <2> QED BY <2>1, <2>2, AbstractMoves
<1>3. CASE (New(c) \/ LockError(c)) /\ pc' = [pc EXCEPT ![c] = "lockFailed"]
  <2>1. err' = err /\ data' = data
    BY <1>3 DEF New, LockError
  <2>2. Phase' = [Phase EXCEPT ![c] = "ended"]
    BY <1>3, <2>1, PhaseMove DEF Moves
  <2>3. Phase' = [d \in Calls |-> IF d \in {c} THEN "ended" ELSE Phase[d]]
    BY <2>2 DEF Phase
  <2> QED BY <2>1, <2>3, EndsMap, ZenonT(40)
<1> QED BY <1>1, <1>2, <1>3 DEF New, LockError

(* A failing operation of the function. *)
LEMMA FailMaps ==
  ASSUME IndInv, NEW c \in Calls, Fail(c), pc[c] \in Inside \ {"unflock"}, data' = data
  PROVE  Atomic!SNext
<1>1. Moves(c, PhaseOf(c), PhaseOf(c)')
  BY PhaseMove DEF Fail, Goto, IndInv, TypeOK, FlagTypes
<1>2. PhaseOf(c) = "called" /\ PhaseOf(c)' = "refused"
  BY DEF Fail, Goto, IndInv, TypeOK, StepTypes, FlagTypes, PhaseOf, Inside, Ended
<1> QED BY <1>1, <1>2, AbstractMoves

(* A step of the function that goes on without changing the key. *)
LEMMA GoesOn ==
  ASSUME IndInv, NEW c \in Calls, pc[c] \in Inside \ {"unflock"}, data' = data, err' = err,
         NEW l \in Inside \ {"unflock"}, Goto(c, l)
  PROVE  UNCHANGED Atomic!svars
<1>1. Moves(c, PhaseOf(c), PhaseOf(c)')
  BY PhaseMove DEF Goto
<1>2. PhaseOf(c) = "called" /\ PhaseOf(c)' = "called"
  BY DEF Goto, IndInv, TypeOK, StepTypes, PhaseOf, Inside, Ended
<1> QED BY <1>1, <1>2, AbstractMoves

LEMMA FunctionMaps ==
  ASSUME IndInv, DataInv, NEW c \in Calls,
         Get(c) \/ CreateTemp(c) \/ CopyDone(c) \/ CopyShort(c) \/ Rename(c) \/ Delete(c)
  PROVE  Atomic!SNext \/ UNCHANGED Atomic!svars
<1>1. CASE Fail(c) /\ data' = data
  BY <1>1, FailMaps DEF Get, CreateTemp, CopyDone, CopyShort, Rename, Delete, At, Inside
<1>2. CASE Get(c) /\ ~Fail(c)
  BY <1>2, GoesOn DEF Get, At, Inside
<1>3. CASE CreateTemp(c) /\ ~Fail(c)
  BY <1>3, GoesOn DEF CreateTemp, At, Inside
<1>4. CASE CopyDone(c)
  BY <1>4, GoesOn DEF CopyDone, At, Inside
<1>5. CASE (Rename(c) \/ Delete(c)) /\ ~(Fail(c) /\ data' = data)
  <2>1. /\ pc[c] \in {"rename", "delete"} /\ err' = err
        /\ pc' = [pc EXCEPT ![c] = "unflock"]
    BY <1>5 DEF Rename, Delete, At, Goto
  <2>2. ~err[c]
    BY <2>1 DEF DataInv, Ended
  <2>3. Moves(c, "called", "applied")
    BY <2>1, <2>2, PhaseMove DEF PhaseOf, Ended, IndInv, TypeOK, StepTypes
  <2>4. CASE Rename(c)
    <3>1. data' = Contributions(data) \union {c}
      BY <1>5, <2>4 DEF Rename, At, DataInv
    <3> QED BY <2>3, <3>1, AbstractMoves
  <2>5. CASE Delete(c)
    <3>1. data # Absent /\ data' = Absent
      BY <1>5, <2>5 DEF Delete
    <3> QED BY <2>3, <3>1, AbstractMoves
  <2> QED BY <1>5, <2>4, <2>5
<1>6. CASE CopyShort(c)
  BY <1>1, <1>6 DEF CopyShort
<1> QED BY <1>1, <1>2, <1>3, <1>4, <1>5, <1>6 DEF Get, CreateTemp

LEMMA ReleaseMaps ==
  ASSUME IndInv, NEW c \in Calls, Unflock(c) \/ Deferred(c)
  PROVE  Atomic!SNext \/ UNCHANGED Atomic!svars
<1>1. PICK l \in {"clearLocked", "mutexUnlock", "returned"} : pc' = [pc EXCEPT ![c] = l]
  BY DEF Unflock, Deferred, Goto
<1>2. err' = err /\ data' = data /\ pc[c] \in {"unflock", "clearLocked", "mutexUnlock"}
  BY DEF Unflock, Deferred, At
<1>3. Moves(c, PhaseOf(c), PhaseOf(c)')
  BY <1>1, <1>2, PhaseMove
<1>4. PhaseOf(c) = IF err[c] THEN "refused" ELSE "applied"
  BY <1>2 DEF PhaseOf, Ended
<1>5. PhaseOf(c)' = IF l = "returned" THEN "ended" ELSE PhaseOf(c)
  BY <1>1, <1>2 DEF PhaseOf, Ended, IndInv, TypeOK, StepTypes
<1> QED BY <1>2, <1>3, <1>4, <1>5, AbstractMoves

LEMMA DieMaps == ASSUME IndInv, NEW p \in Procs, Die(p) PROVE Atomic!SNext
<1> DEFINE S == {c \in Calls : ProcOf[c] = p /\ pc[c] \notin Ended}
<1>1. data' = data /\ Phase' = [c \in Calls |-> IF c \in S THEN "ended" ELSE Phase[c]]
  BY DEF Die, Phase, PhaseOf, Ended
<1> QED BY <1>1, EndsMap

LEMMA StepMaps ==
  ASSUME Kept, IndInv, DataInv, [Next]_vars
  PROVE  [Atomic!SNext]_(Atomic!svars)
<1>1. ASSUME NEW c \in Calls, RemoveAll(c) PROVE FALSE
  BY <1>1, Constants DEF RemoveAll, Kept, IndInv, TypeOK, LockTypes, Inodes
<1>2. CASE UNCHANGED vars
  BY <1>2 DEF vars, Atomic!svars, PhaseOf
<1> QED BY <1>1, <1>2, LockMaps, FunctionMaps, ReleaseMaps, DieMaps DEF Next, Step, AllEnded

(* While its directory is kept, a fileStore runs the functions of WithLock *)
(* as indivisible transactions, for any number of calls and processes, and *)
(* whichever of them dies or fails.                                        *)
THEOREM StoreImplements == Kept => (Spec => ImplementsAtomicStore)
<1> SUFFICES ASSUME Kept PROVE Spec => ImplementsAtomicStore
  OBVIOUS
<1>1. Init => Atomic!SInit
  BY DEF Init, Atomic!SInit, PhaseOf
<1>2. IndInv /\ DataInv /\ [Next]_vars => [Atomic!SNext]_(Atomic!svars)
  BY StepMaps
<1>3. IndInv /\ DataInv /\ [Next]_vars => DataInv'
  BY DataStep
<1> QED BY <1>1, <1>2, <1>3, DataInit, InitInv, Inductive, PTL
        DEF Spec, ImplementsAtomicStore, Atomic!SSpec

(* While its directory is kept, the lock is exclusive: store.go Locker.    *)
THEOREM ExclusiveLock == Kept => (Spec => []Exclusive)
<1> SUFFICES ASSUME Kept PROVE Spec => []Exclusive
  OBVIOUS
<1>1. IndInv => Exclusive
  BY Alone
<1> QED BY <1>1, Invariance, PTL
=============================================================================
