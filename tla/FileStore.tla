----------------------------- MODULE FileStore -----------------------------
(***************************************************************************)
(* pkg/store/filestore.go over pkg/internal/filesystem (lock.go,           *)
(* lock_unix.go, writefile_rename.go).                                     *)
(*                                                                         *)
(* Each call is one WithLock whose function either reads a key and writes  *)
(* it back (Get, Set) or deletes it.  The calls of one process share one   *)
(* fileStore: its mutex, then an flock on the store's directory, keep the  *)
(* function alone.  The flock belongs to the inode that was opened, not to *)
(* the path: the model numbers the inodes the path has had.                *)
(***************************************************************************)
EXTENDS Naturals

CONSTANTS Calls,     \* the calls of WithLock
          Procs,     \* the processes, with one fileStore object each
          ProcOf,    \* the process that makes a call
          Absent,    \* "no such file"
          Partial,   \* a file whose copy is not complete
          NoOne,     \* a lock that nobody holds
          MaxDirs,   \* bound: how often the directory is made
          LockFails, \* whether opening or locking the directory may fail
          MayDie     \* the processes that may be killed

ASSUME ProcOfAssumption == ProcOf \in [Calls -> Procs]
ASSUME MaxDirsAssumption == MaxDirs \in Nat \ {0}
ASSUME DistinctAssumption ==
  /\ NoOne \notin Calls
  /\ Absent # Partial
  /\ Absent \notin SUBSET Calls
  /\ Partial \notin SUBSET Calls

VARIABLES
  mutex,   \* mutex[p]: the call that holds vs.mutex
  locked,  \* locked[p]: vs.locked is not nil
  holder,  \* holder[i]: the call whose descriptor holds the flock of inode i
  fd,      \* fd[c]: the inode call c has opened, 0 for none
  made,    \* how many inodes the path has had
  path,    \* the inode the path names, 0 when it does not exist
  plain,   \* the path is a regular file, made by the O_CREATE of commonlock
  data,    \* the content of the key
  temp,    \* temp[c]: the content of the temporary file of c's Set
  val,     \* val[c]: what c's Get returned
  err,     \* err[c]: c's function returned an error
  pc       \* pc[c]: the next step of c

lockVars == <<mutex, locked, holder, fd>>
dirVars == <<made, path, plain>>
vars == <<mutex, locked, holder, fd, made, path, plain, data, temp, val, err, pc>>

(* The content of a file is the set of the calls that contributed to it. *)
Contents == {Absent} \union SUBSET Calls
Inodes == 1..MaxDirs

(* Between Lock's return and the flock's release: the function runs. *)
Inside == {"get", "createTemp", "copy", "rename", "delete", "unflock"}
(* The steps of a call that holds the mutex of its process. *)
Holding == Inside \union {"open", "flock", "clearLocked", "mutexUnlock"}
Ended == {"returned", "lockFailed", "dead"}

LockTypes ==
  /\ mutex \in [Procs -> Calls \union {NoOne}]
  /\ holder \in [Inodes -> Calls \union {NoOne}]
  /\ fd \in [Calls -> Inodes \union {0}]
  /\ made \in Inodes
  /\ path \in Inodes \union {0}

FlagTypes == locked \in [Procs -> BOOLEAN] /\ plain \in BOOLEAN /\ err \in [Calls -> BOOLEAN]

DataTypes ==
  /\ data \in Contents
  /\ temp \in [Calls -> Contents \union {Partial}]
  /\ val \in [Calls -> Contents]

StepTypes == pc \in [Calls -> Holding \union Ended \union {"new", "mutexLock"}]

TypeOK == LockTypes /\ FlagTypes /\ DataTypes /\ StepTypes

Init ==
  /\ mutex = [p \in Procs |-> NoOne]
  /\ locked = [p \in Procs |-> FALSE]
  /\ holder = [i \in Inodes |-> NoOne]
  /\ fd = [c \in Calls |-> 0]
  /\ made = 1
  /\ path = 1
  /\ plain = FALSE
  /\ data = Absent
  /\ temp = [c \in Calls |-> Absent]
  /\ val = [c \in Calls |-> Absent]
  /\ err = [c \in Calls |-> FALSE]
  /\ pc = [c \in Calls |-> "new"]

At(c, l) == pc[c] = l
Goto(c, l) == pc' = [pc EXCEPT ![c] = l]

-----------------------------------------------------------------------------
(* New: MkdirAll of the directory; it fails on a regular file. *)
New(c) ==
  /\ At(c, "new")
  /\ IF path = 0 THEN /\ made' = made + 1
                      /\ path' = made + 1
                      /\ Goto(c, "mutexLock")
                 ELSE /\ Goto(c, IF plain THEN "lockFailed" ELSE "mutexLock")
                      /\ UNCHANGED <<made, path>>
  /\ UNCHANGED <<lockVars, plain, data, temp, val, err>>

(* Lock *)
MutexLock(c) ==
  /\ At(c, "mutexLock")
  /\ mutex[ProcOf[c]] = NoOne
  /\ mutex' = [mutex EXCEPT ![ProcOf[c]] = c]
  /\ Goto(c, "open")
  /\ UNCHANGED <<locked, holder, fd, dirVars, data, temp, val, err>>

(* commonlock opens the path, and creates a file there when it is gone. *)
Open(c) ==
  /\ At(c, "open")
  /\ IF path = 0 THEN /\ made' = made + 1
                      /\ path' = made + 1
                      /\ plain' = TRUE
                      /\ fd' = [fd EXCEPT ![c] = made + 1]
                 ELSE /\ fd' = [fd EXCEPT ![c] = path]
                      /\ UNCHANGED dirVars
  /\ Goto(c, "flock")
  /\ UNCHANGED <<mutex, locked, holder, data, temp, val, err>>

(* Mutant: a shared lock where an exclusive one is asked for. *)
FlockShared(c) ==
  /\ At(c, "flock")
  /\ holder' = [holder EXCEPT ![fd[c]] = c]
  /\ locked' = [locked EXCEPT ![ProcOf[c]] = TRUE]
  /\ Goto(c, "get")
  /\ UNCHANGED <<mutex, fd, dirVars, data, temp, val, err>>

Flock(c) ==
  /\ At(c, "flock")
  /\ holder[fd[c]] = NoOne
  /\ holder' = [holder EXCEPT ![fd[c]] = c]
  /\ locked' = [locked EXCEPT ![ProcOf[c]] = TRUE]
  /\ Goto(c, "get")
  /\ UNCHANGED <<mutex, fd, dirVars, data, temp, val, err>>

(* Lock returns ErrLockFailure; vs.mutex stays locked. *)
LockError(c) ==
  /\ LockFails
  /\ At(c, "open") \/ At(c, "flock")
  /\ fd' = [fd EXCEPT ![c] = 0]
  /\ Goto(c, "lockFailed")
  /\ UNCHANGED <<mutex, locked, holder, dirVars, data, temp, val, err>>

-----------------------------------------------------------------------------
(* The function, under the lock. *)

(* An operation returns an error; the function returns it at once. *)
Fail(c) == /\ err' = [err EXCEPT ![c] = TRUE]
           /\ Goto(c, "unflock")

Get(c) ==
  /\ At(c, "get")
  /\ UNCHANGED <<lockVars, dirVars, data, temp>>
  /\ \/ /\ ~locked[ProcOf[c]]
        /\ Fail(c)
        /\ UNCHANGED val
     \/ /\ locked[ProcOf[c]]
        /\ val' = [val EXCEPT ![c] = data]
        /\ \E next \in {"createTemp", "delete"} : Goto(c, next)
        /\ UNCHANGED err

(* Set, WriteFileWithRename *)
CreateTemp(c) ==
  /\ At(c, "createTemp")
  /\ \/ /\ path = 0 \/ plain \/ ~locked[ProcOf[c]]
        /\ Fail(c)
        /\ UNCHANGED temp
     \/ /\ path # 0 /\ ~plain /\ locked[ProcOf[c]]
        /\ temp' = [temp EXCEPT ![c] = Partial]
        /\ Goto(c, "copy")
        /\ UNCHANGED err
  /\ UNCHANGED <<lockVars, dirVars, data, val>>

Contributions(v) == IF v = Absent THEN {} ELSE v

CopyDone(c) ==
  /\ At(c, "copy")
  /\ temp' = [temp EXCEPT ![c] = IF @ = Absent THEN @ ELSE Contributions(val[c]) \union {c}]
  /\ Goto(c, "rename")
  /\ UNCHANGED <<lockVars, dirVars, data, val, err>>

(* Mutant: a short write is taken for a complete one. *)
CopyShortIgnored(c) ==
  /\ At(c, "copy")
  /\ Goto(c, "rename")
  /\ UNCHANGED <<lockVars, dirVars, data, temp, val, err>>

(* Mutant: the error path forgets the temporary file. *)
CopyShortLeaks(c) ==
  /\ At(c, "copy")
  /\ Fail(c)
  /\ UNCHANGED <<lockVars, dirVars, data, temp, val>>

(* A short write, or a failing chmod, copy, sync or close. *)
CopyShort(c) ==
  /\ At(c, "copy")
  /\ temp' = [temp EXCEPT ![c] = Absent]
  /\ Fail(c)
  /\ UNCHANGED <<lockVars, dirVars, data, val>>

Rename(c) ==
  /\ At(c, "rename")
  /\ \/ /\ temp[c] = Absent
        /\ Fail(c)
        /\ UNCHANGED data
     \/ /\ temp[c] # Absent
        /\ data' = temp[c]
        /\ Goto(c, "unflock")
        /\ UNCHANGED err
  /\ temp' = [temp EXCEPT ![c] = Absent]
  /\ UNCHANGED <<lockVars, dirVars, val>>

(* Mutant: Delete without its Stat; RemoveAll of a missing path succeeds. *)
DeleteUnchecked(c) ==
  /\ At(c, "delete")
  /\ data' = Absent
  /\ Goto(c, "unflock")
  /\ UNCHANGED <<lockVars, dirVars, temp, val, err>>

Delete(c) ==
  /\ At(c, "delete")
  /\ \/ /\ data = Absent \/ ~locked[ProcOf[c]]
        /\ Fail(c)
        /\ UNCHANGED data
     \/ /\ data # Absent /\ locked[ProcOf[c]]
        /\ data' = Absent
        /\ Goto(c, "unflock")
        /\ UNCHANGED err
  /\ UNCHANGED <<lockVars, dirVars, temp, val>>

-----------------------------------------------------------------------------
(* Release: the flock, then vs.locked, then the mutex. *)
Unflock(c) ==
  /\ At(c, "unflock")
  /\ holder' = [holder EXCEPT ![fd[c]] = NoOne]
  /\ fd' = [fd EXCEPT ![c] = 0]
  /\ Goto(c, "clearLocked")
  /\ UNCHANGED <<mutex, locked, dirVars, data, temp, val, err>>

(* Mutant: the deferred calls of Release in the other order. *)
DeferredSwapped(c) ==
  /\ \/ /\ At(c, "clearLocked")
        /\ mutex' = [mutex EXCEPT ![ProcOf[c]] = NoOne]
        /\ Goto(c, "mutexUnlock")
        /\ UNCHANGED locked
     \/ /\ At(c, "mutexUnlock")
        /\ locked' = [locked EXCEPT ![ProcOf[c]] = FALSE]
        /\ Goto(c, "returned")
        /\ UNCHANGED mutex
  /\ UNCHANGED <<holder, fd, dirVars, data, temp, val, err>>

(* Mutant: Release forgets the mutex. *)
DeferredMutexKept(c) ==
  /\ At(c, "clearLocked")
  /\ locked' = [locked EXCEPT ![ProcOf[c]] = FALSE]
  /\ Goto(c, "returned")
  /\ UNCHANGED <<mutex, holder, fd, dirVars, data, temp, val, err>>

Deferred(c) ==
  /\ \/ /\ At(c, "clearLocked")
        /\ locked' = [locked EXCEPT ![ProcOf[c]] = FALSE]
        /\ Goto(c, "mutexUnlock")
        /\ UNCHANGED mutex
     \/ /\ At(c, "mutexUnlock")
        /\ mutex' = [mutex EXCEPT ![ProcOf[c]] = NoOne]
        /\ Goto(c, "returned")
        /\ UNCHANGED locked
  /\ UNCHANGED <<holder, fd, dirVars, data, temp, val, err>>

-----------------------------------------------------------------------------
(* The kernel closes the descriptors of a process that dies. *)
Die(p) ==
  /\ p \in MayDie
  /\ \E c \in Calls : ProcOf[c] = p /\ pc[c] \notin Ended
  /\ pc' = [c \in Calls |-> IF ProcOf[c] = p /\ pc[c] \notin Ended THEN "dead" ELSE pc[c]]
  /\ fd' = [c \in Calls |-> IF ProcOf[c] = p THEN 0 ELSE fd[c]]
  /\ holder' = [i \in Inodes |-> IF holder[i] # NoOne /\ ProcOf[holder[i]] = p
                                   THEN NoOne ELSE holder[i]]
  /\ UNCHANGED <<mutex, locked, dirVars, data, temp, val, err>>

(* RemoveContainer: after Release, RemoveAll of the state directory, with  *)
(* the directory that was the lock.                                        *)
RemoveAll(c) ==
  /\ At(c, "returned")
  /\ path # 0
  /\ made < MaxDirs
  /\ path' = 0
  /\ plain' = FALSE
  /\ data' = Absent
  /\ temp' = [d \in Calls |-> Absent]
  /\ UNCHANGED <<lockVars, made, val, err, pc>>

(* One step of a call that has entered New. *)
Step(c) ==
  \/ MutexLock(c) \/ Open(c) \/ Flock(c)
  \/ Get(c) \/ CreateTemp(c) \/ CopyDone(c) \/ CopyShort(c) \/ Rename(c) \/ Delete(c)
  \/ Unflock(c) \/ Deferred(c)

AllEnded == (\A c \in Calls : pc[c] \in Ended) /\ UNCHANGED vars

Next ==
  \/ \E c \in Calls : New(c) \/ Step(c) \/ LockError(c) \/ RemoveAll(c)
  \/ \E p \in Procs : Die(p)
  \/ AllEnded

Spec == Init /\ [][Next]_vars

(* The scheduler runs every process that can run.  A call is made once, so *)
(* no stronger fairness of the mutex or of flock is needed.                *)
FairSpec == Spec /\ \A c \in Calls : WF_vars(Step(c))

-----------------------------------------------------------------------------
(* Two calls never run their functions under the lock of one directory,    *)
(* whatever process they belong to (filestore.go Lock).                    *)
ExclusivePerDirectory ==
  \A c, d \in Calls : c # d /\ pc[c] \in Inside /\ pc[d] \in Inside => fd[c] # fd[d]

(* store.go: Lock grants "an exclusive lock": one function runs at a time. *)
Exclusive == \A c, d \in Calls : pc[c] \in Inside /\ pc[d] \in Inside => c = d

(* Inside its function a call finds vs.locked set, so no operation of it   *)
(* returns the ErrFaultyImplementation that is kept for callers without    *)
(* the lock, and no Release refuses to unlock.                             *)
LockedInside == \A c \in Calls : pc[c] \in Inside => locked[ProcOf[c]]

(* writefile_rename.go: a failed write removes its temporary file; only a  *)
(* process that died leaves one.                                           *)
NoTempLeak ==
  \A c \in Calls : temp[c] # Absent => pc[c] \in {"copy", "rename", "dead"}

(* Every WithLock that asks for the mutex returns, or its process dies.    *)
CallsReturn == \A c \in Calls : At(c, "mutexLock") ~> pc[c] \in Ended

(* Whether c's Set or Delete has taken effect or been refused. *)
PhaseOf(c) ==
  IF pc[c] = "new" THEN "idle"
  ELSE IF pc[c] \in Ended THEN "ended"
  ELSE IF pc[c] \in {"unflock", "clearLocked", "mutexUnlock"}
    THEN IF err[c] THEN "refused" ELSE "applied"
  ELSE "called"

Atomic == INSTANCE AtomicStore WITH value <- data, phase <- [c \in Calls |-> PhaseOf(c)]

(* WithLock makes Get-then-Set and Delete indivisible: no update is lost,  *)
(* none is applied twice, and a call that reports an error, or that dies   *)
(* before its rename, changed nothing.                                     *)
ImplementsAtomicStore == Atomic!SSpec
=============================================================================
