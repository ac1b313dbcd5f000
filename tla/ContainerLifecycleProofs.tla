---------------------- MODULE ContainerLifecycleProofs ----------------------
(***************************************************************************)
(* What holds of the commands and hooks for any containers, names, slots,  *)
(* commands and faults.                                                    *)
(*                                                                         *)
(* Without any assumption: the types, and the promise of the name store    *)
(* that only the owner of a name gives it up and only a free name is       *)
(* taken.                                                                  *)
(*                                                                         *)
(* When no two commands work on one container at once: nothing is left     *)
(* behind by a command, whatever commands on other containers do meanwhile *)
(* and whatever fails.  The inductive invariant says, for each step of     *)
(* each command, what its container looks like there (StepInv), and what a *)
(* container that no command works on looks like (AtRest).  A step touches *)
(* its own container only (Frame), so the proof looks at one command at a  *)
(* time.  The faults that do leave something behind are hypotheses of the  *)
(* theorems they break, and of no other.                                   *)
(***************************************************************************)
EXTENDS ContainerLifecycle, TLAPS

LEMMA AnIdType == AnId \in Ids
BY SomeId DEF AnId

-----------------------------------------------------------------------------
(* The types. *)

(* What past[i] may tell. *)
Events == {"failed", "renamed", "unnamed", "unplugged"}

LEMMA NoteType ==
  ASSUME TypeOK, NEW i \in Ids, NEW e \in Events, Note(i, e)
  PROVE  past' \in [Ids -> SUBSET Events]
BY DEF TypeOK, Note, Events

(* One step per operation of the commands and hooks. *)
LEMMA StepType ==
  ASSUME TypeOK, NEW s \in Slots, Step(s)
  PROVE  TypeOK'
<1> USE AnIdType
    DEF TypeOK, At, Go, Goto, Finish, Note, CreateFailed, EnterHook, LeaveHook, locals, records,
        files, locks,
        Acquire, Release, Rename, CreateSteps, CleanupSteps, StartSteps, HookSteps, RmSteps, RenameSteps
<1>1. CASE Setup(s)
  <2>1. past' \in [Ids -> SUBSET Events]
    BY <1>1, NoteType DEF Setup, Events
  <2>2. hosts' \in [Ids -> {"none", "file", "meta"}] /\ stateDir' \in [Ids -> BOOLEAN]
    BY <1>1 DEF Setup
  <2>3. volLock' \in Slots \union {NoSlot}
    BY <1>1 DEF Setup
  <2> QED BY <1>1, <2>1, <2>2, <2>3 DEF Setup, Events
<1>2. CASE AcquireName(s)
  BY <1>2 DEF AcquireName
<1>3. CASE InternalLabels(s)
  BY <1>3 DEF InternalLabels
<1>4. CASE RemoveOrphanedDirs(s)
  BY <1>4 DEF RemoveOrphanedDirs
<1>5. CASE NewContainer(s)
  BY <1>5 DEF NewContainer
<1>6. CASE SetupNetworking(s)
  BY <1>6, SMTT(20) DEF SetupNetworking
<1>7. CASE GcDirs(s)
  BY <1>7 DEF GcDirs
<1>8. CASE GcName(s)
  BY <1>8 DEF GcName
<1>9. CASE OldTask(s)
  BY <1>9 DEF OldTask
<1>10. CASE NewTask(s)
  BY <1>10 DEF NewTask
<1>11. CASE TaskStart(s)
  BY <1>11 DEF TaskStart
<1>12. CASE CreateRuntime(s)
  BY <1>12 DEF CreateRuntime
<1>13. CASE ApplyNetworkSettings(s)
  BY <1>13 DEF ApplyNetworkSettings
<1>14. CASE SetCreateError(s)
  BY <1>14 DEF SetCreateError
<1>15. CASE PostStop(s)
  BY <1>15 DEF PostStop
<1>16. CASE CniRemove(s)
  <2>1. past' \in [Ids -> SUBSET Events]
    BY <1>16, NoteType DEF CniRemove, Events
  <2> QED BY <1>16, <2>1, ZenonT(40) DEF CniRemove, Events
<1>17. CASE HostsRelease(s)
  BY <1>17 DEF HostsRelease
<1>18. CASE HookRelease(s)
  BY <1>18 DEF HookRelease
<1>19. CASE HookDone(s)
  BY <1>19 DEF HookDone
<1>20. CASE RmLock(s)
  BY <1>20 DEF RmLock
<1>21. CASE RmTask(s)
  BY <1>21 DEF RmTask
<1>22. CASE RmDelete(s)
  BY <1>22 DEF RmDelete
<1>23. CASE RmName(s)
  BY <1>23 DEF RmName
<1>24. CASE RmHosts(s)
  BY <1>24 DEF RmHosts
<1>25. CASE RmRelease(s)
  BY <1>25, SMTT(20) DEF RmRelease
<1>26. CASE RmDir(s)
  BY <1>26 DEF RmDir
<1>27. CASE RnNames(s)
  BY <1>27 DEF RnNames
<1>28. CASE RnLabel(s)
  <2>1. past' \in [Ids -> SUBSET Events]
    BY <1>28, NoteType DEF RnLabel, Events
  <2> QED BY <1>28, <2>1, SMTT(20) DEF RnLabel, Events
<1>29. CASE RnBack(s)
  BY <1>29 DEF RnBack
<1>30. CASE RnBackLabel(s)
  BY <1>30 DEF RnBackLabel
<1> QED BY <1>1, <1>2, <1>3, <1>4, <1>5, <1>6, <1>7, <1>8, <1>9, <1>10, <1>11, <1>12, <1>13, <1>14,
           <1>15, <1>16, <1>17, <1>18, <1>19, <1>20, <1>21, <1>22, <1>23, <1>24, <1>25, <1>26,
           <1>27, <1>28, <1>29, <1>30 DEF Step
LEMMA BeginType ==
  ASSUME TypeOK, NEW s \in Slots, Begin(s)
  PROVE  TypeOK'
<1> USE DEF TypeOK, Goto, records, files, locks, CreateSteps, StartSteps, RmSteps, RenameSteps
<1>1. ASSUME NEW i \in Ids, NEW n \in Names, Create(s, i, n)
      PROVE  TypeOK'
  BY <1>1 DEF Create
<1>2. ASSUME NEW i \in Ids, NEW n \in Names, RenameContainer(s, i, n)
      PROVE  TypeOK'
  BY <1>2 DEF RenameContainer
<1>3. ASSUME NEW i \in Ids, Start(s, i)
      PROVE  TypeOK'
  BY <1>3 DEF Start
<1>4. ASSUME NEW i \in Ids, RemoveContainer(s, i)
      PROVE  TypeOK'
  BY <1>4 DEF RemoveContainer
<1> HIDE DEF TypeOK
<1> QED BY <1>1, <1>2, <1>3, <1>4 DEF Begin

LEMMA OtherType ==
  ASSUME TypeOK, (\E i \in Ids : TaskExit(i) \/ Bounce(i)) \/ UNCHANGED vars
  PROVE  TypeOK'
<1>1. ASSUME NEW i \in Ids, TaskExit(i)
      PROVE  TypeOK'
  BY <1>1 DEF TypeOK, TaskExit, files, locks, locals
<1>2. ASSUME NEW i \in Ids, Bounce(i)
      PROVE  TypeOK'
  <2>1. past' \in [Ids -> SUBSET Events]
    BY <1>2, NoteType DEF Bounce, Events
  <2> QED BY <1>2, <2>1 DEF TypeOK, Bounce, Note, files, locks, locals, Events
<1>3. CASE UNCHANGED vars
  BY <1>3 DEF TypeOK, vars, records, files, locks, locals
<1> QED BY <1>1, <1>2, <1>3

LEMMA InitType == Init => TypeOK
BY AnIdType DEF Init, TypeOK

LEMMA NextType ==
  ASSUME TypeOK, [Next]_vars
  PROVE  TypeOK'
BY StepType, BeginType, OtherType DEF Next, Quiet

(* Every command, hook and fault keeps the state well formed. *)
THEOREM Types == Spec => []TypeOK
BY InitType, NextType, PTL DEF Spec

-----------------------------------------------------------------------------
(* The name store. *)

(* The steps of slot s that touch the name store. *)
NameStep(s) ==
  \/ AcquireName(s) \/ GcName(s) \/ CreateRuntime(s) \/ HookRelease(s) \/ RmName(s)
  \/ RnNames(s) \/ RnBack(s)

(* The other commands' steps do not. *)
LEMMA OthersLeaveNames ==
  ASSUME NEW s \in Slots, Begin(s) \/ Step(s), ~NameStep(s)
  PROVE  UNCHANGED names
BY DEF Begin, Create, RenameContainer, Start, RemoveContainer, Step, NameStep, Setup, InternalLabels,
       RemoveOrphanedDirs, NewContainer, SetupNetworking, GcDirs, OldTask, NewTask, TaskStart,
       ApplyNetworkSettings, SetCreateError, PostStop, CniRemove, HostsRelease, HookDone, RmLock,
       RmTask, RmDelete, RmHosts, RmRelease, RmDir, RnLabel, RnBackLabel

(* What one step of slot s may do to the name store. *)
OwnChange(s) ==
  \A n \in Names : names'[n] # names[n] =>
    /\ pc'[s] # pc[s]
    /\ \/ names[n] = NoId /\ names'[n] = on[s]
       \/ names[n] = on[s] /\ names'[n] = NoId

LEMMA NameStepOwns ==
  ASSUME TypeOK, NEW s \in Slots, NameStep(s)
  PROVE  OwnChange(s)
<1> USE AnIdType, NoIdAssumption
    DEF TypeOK, OwnChange, At, Go, Goto, Finish, locals, Acquire, CanAcquire, Release, Rename, CanRename
<1>1. CASE AcquireName(s)
  BY <1>1 DEF AcquireName
<1>2. CASE GcName(s)
  BY <1>2 DEF GcName
<1>3. CASE CreateRuntime(s)
  BY <1>3 DEF CreateRuntime
<1>4. CASE HookRelease(s)
  BY <1>4 DEF HookRelease
<1>5. CASE RmName(s)
  BY <1>5 DEF RmName
<1>6. CASE RnNames(s)
  BY <1>6 DEF RnNames
<1>7. CASE RnBack(s)
  BY <1>7 DEF RnBack
<1> QED BY <1>1, <1>2, <1>3, <1>4, <1>5, <1>6, <1>7 DEF NameStep

(* No interleaving of commands and hooks, and no failure of theirs, takes  *)
(* a name away from the container that owns it.                            *)
THEOREM NamesGuarded == Spec => NamesKept
<1> DEFINE Owned == \A n \in Names : names'[n] # names[n] =>
                      \E s \in Slots : /\ pc'[s] # pc[s]
                                       /\ \/ names[n] = NoId /\ names'[n] = on[s]
                                          \/ names[n] = on[s] /\ names'[n] = NoId
<1>1. ASSUME TypeOK, [Next]_vars
      PROVE  [Owned]_vars
  <2>1. CASE \E s \in Slots : NameStep(s)
    BY <1>1, <2>1, NameStepOwns DEF OwnChange
  <2>2. CASE \E s \in Slots : (Begin(s) \/ Step(s)) /\ ~NameStep(s)
    BY <2>2, OthersLeaveNames
  <2>3. CASE (\E i \in Ids : TaskExit(i) \/ Bounce(i)) \/ UNCHANGED vars
    BY <2>3 DEF TaskExit, Bounce, vars
  <2> QED BY <1>1, <2>1, <2>2, <2>3 DEF Next, Quiet
<1> HIDE DEF Owned
<1>2. Spec => [][Owned]_vars
  BY <1>1, Types, PTL DEF Spec
<1> QED BY <1>2 DEF Owned, NamesKept

-----------------------------------------------------------------------------
(* The inductive invariant. *)

(* What the name store holds for container i besides the name of its label *)
(* once something has gone wrong with it.                                  *)
Excused(i, n) == "unnamed" \in past[i] \/ ("renamed" \in past[i] /\ n = annot[i])
Owns(i, S) == \A n \in Names : names[n] = i => n \in S \/ Excused(i, n)
OwnsNone(i) == \A n \in Names : names[n] # i
OwnsAnnot(i) == \A n \in Names : names[n] = i => n = annot[i]

(* The label's name is owned, unless a start could not have it back.  A    *)
(* start that fails in containerd, or a creation in its networking, leaves *)
(* a container without its name.                                           *)
Titled(i) ==
  "newTask" \notin Faults /\ "setupNetworking" \notin Faults =>
    names[label[i]] = i \/ "unnamed" \in past[i]

(* No network is left without a task. *)
Unplugged(i) == net[i] => "unplugged" \in past[i]

(* A container with a record. *)
Present(i) ==
  /\ annot[i] # NoName /\ label[i] # NoName
  /\ "failed" \in past[i] => "setupNetworking" \in Faults
  /\ "renamed" \notin past[i] => label[i] = annot[i]

(* One that no hook works on. *)
Sound(i) ==
  /\ Present(i)
  /\ ~createErr[i]
  /\ task[i] \in {"none", "created", "running", "stopped"}
  /\ task[i] = "none" => Unplugged(i)

(* One that no command works on, and that has been removed. *)
Absent(i) ==
  /\ annot[i] # NoName /\ label[i] = NoName
  /\ task[i] = "none"
  /\ Unplugged(i)
  /\ "failed" \in past[i] =>
        "internalLabels" \in Faults \/ "setupNetworking" \in Faults \/ OwnsNone(i)

(* A container that no command works on. *)
AtRest(i) ==
  \/ /\ annot[i] = NoName /\ label[i] = NoName /\ task[i] = "none"
     /\ ~stateDir[i] /\ hosts[i] = "none" /\ ~net[i] /\ ~createErr[i]
     /\ past[i] = {} /\ OwnsNone(i)
  \/ /\ Absent(i)
     /\ "internalLabels" \notin Faults => Owns(i, {})
     /\ "archive" \notin Faults => ~stateDir[i] /\ hosts[i] = "none"
  \/ Sound(i) /\ Titled(i) /\ Owns(i, {label[i]})

(* A container that is being created. *)
New(i, events) ==
  /\ annot[i] # NoName /\ task[i] = "none"
  /\ ~net[i] /\ ~createErr[i]
  /\ past[i] = events

Creating(s) ==
  LET i == on[s] IN
  /\ pc[s] \in {"setup", "acquireName"} => New(i, {}) /\ label[i] = NoName /\ OwnsNone(i)
  /\ pc[s] = "setup" => hosts[i] = "none"
  /\ pc[s] \in {"internalLabels", "newContainer"} =>
       New(i, {}) /\ label[i] = NoName /\ OwnsAnnot(i) /\ names[annot[i]] = i
  /\ pc[s] = "setupNetworking" =>
       New(i, {}) /\ label[i] = annot[i] /\ OwnsAnnot(i) /\ names[annot[i]] = i

CleaningUp(s) ==
  LET i == on[s] IN
  /\ pc[s] \in CleanupSteps => New(i, {"failed"}) /\ OwnsAnnot(i)
  /\ pc[s] \in {"removeOrphanedDirs", "gcDirs"} => label[i] = NoName
  /\ pc[s] = "removeOrphanedDirs" => "internalLabels" \in Faults \/ OwnsNone(i)
  /\ pc[s] = "gcNetworking" => label[i] = annot[i] /\ "setupNetworking" \in Faults
  /\ pc[s] = "gcName" => \/ label[i] = NoName /\ ~stateDir[i] /\ hosts[i] = "none"
                         \/ label[i] = annot[i] /\ "setupNetworking" \in Faults

(* Between the postStop hook of an old task and the createRuntime hook of  *)
(* the new one the name of the annotation may be free.                     *)
Retitled(i) == label[i] = annot[i] \/ Titled(i)

Starting(s) ==
  LET i == on[s] IN
  /\ pc[s] \in StartSteps \union {"createRuntime", "networkSettings", "setStarted", "setCreateError"} =>
       Present(i) /\ ~createErr[i] /\ Owns(i, {label[i]}) /\ Retitled(i)
  /\ pc[s] = "oldTask" => Sound(i) /\ Titled(i) /\ task[i] # "running"
  /\ pc[s] = "newTask" => task[i] = "none" /\ Unplugged(i)
  /\ pc[s] \in {"createRuntime", "networkSettings", "setStarted", "setCreateError"} =>
       task[i] = "creating"
  /\ pc[s] = "taskStart" => task[i] = "created"
  /\ pc[s] = "createRuntime" => Unplugged(i)
  /\ pc[s] \in {"networkSettings", "setStarted", "setCreateError", "taskStart"} => Titled(i)
  /\ pc[s] = "networkSettings" => i \in CniIds
  /\ pc[s] = "setCreateError" => ~net[i]

(* The postStop hook, of a start, of a removal, or after createRuntime has *)
(* failed.                                                                 *)
Stopping(s) ==
  LET i == on[s] IN
  /\ pc[s] \in {"postStop", "cniRemove", "hostsRelease", "hookRelease", "hookDone"} =>
       /\ Present(i) /\ Owns(i, {label[i]})
       /\ createErr[i] <=> pc[s] = "postStop" /\ ret[s] = "failed"
       /\ ret[s] = "start" => Retitled(i) /\ task[i] = "deleting"
       /\ ret[s] = "rm" => seen[s] = label[i] /\ task[i] = "deleting"
       /\ ret[s] = "failed" => Titled(i) /\ ~net[i] /\ task[i] = "creating"
  /\ pc[s] \in {"cniRemove", "hostsRelease", "hookRelease"} => ret[s] # "failed"
  /\ pc[s] \in {"hostsRelease", "hookRelease", "hookDone"} => Unplugged(i)

Removing(s) ==
  LET i == on[s] IN
  /\ pc[s] \in {"rmLock", "rmTask", "rmFailed"} => Sound(i) /\ Titled(i)
  /\ pc[s] \in {"rmLock", "rmTask", "rmFailed", "rmDelete"} => Owns(i, {label[i]}) /\ seen[s] = label[i]
  /\ pc[s] = "rmDelete" => Sound(i) /\ task[i] = "none"
  /\ pc[s] \in {"rmName", "rmHosts", "rmRelease", "rmDir"} =>
       Absent(i) /\ Owns(i, IF pc[s] = "rmName" THEN {seen[s]} ELSE {})
  /\ pc[s] \in {"rmRelease", "rmDir"} => hosts[i] = "none"

Renaming(s) ==
  LET i == on[s] IN
  /\ pc[s] \in RenameSteps => Sound(i) /\ seen[s] = label[i] /\ arg[s] # NoName
  /\ pc[s] \in {"rnNames", "rnBackLabel"} => Titled(i) /\ Owns(i, {label[i]})
  /\ pc[s] = "rnLabel" => names[arg[s]] = i /\ names[seen[s]] # i /\ Owns(i, {arg[s]})
  /\ pc[s] = "rnBack" => \/ names[arg[s]] = i /\ names[seen[s]] # i /\ Owns(i, {arg[s]})
                         \/ Titled(i) /\ Owns(i, {label[i]})

StepInv(s) == Creating(s) /\ CleaningUp(s) /\ Starting(s) /\ Stopping(s) /\ Removing(s) /\ Renaming(s)

(* Commands work on different containers. *)
Alone == \A s, t \in Slots : s # t /\ pc[s] # "idle" /\ pc[t] # "idle" => on[s] # on[t]

(* Only containers on a CNI network have a network allocated. *)
OnCni == \A i \in Ids : net[i] => i \in CniIds

LifeInv ==
  /\ Alone /\ OnCni
  /\ \A s \in Slots : StepInv(s)
  /\ \A i \in Ids : ~Busy(i) => AtRest(i)

IndInv == TypeOK /\ LifeInv
-----------------------------------------------------------------------------
(* A step and what it leaves alone. *)

(* A step leaves container i alone. *)
Same(i) ==
  /\ label'[i] = label[i] /\ annot'[i] = annot[i] /\ task'[i] = task[i]
  /\ stateDir'[i] = stateDir[i] /\ hosts'[i] = hosts[i] /\ net'[i] = net[i]
  /\ createErr'[i] = createErr[i] /\ past'[i] = past[i]
  /\ \A n \in Names : names'[n] = i <=> names[n] = i

SameLocals(t) ==
  /\ pc'[t] = pc[t] /\ on'[t] = on[t] /\ arg'[t] = arg[t]
  /\ seen'[t] = seen[t] /\ ret'[t] = ret[t]

(* A step of slot s touches container i and the locals of s only. *)
Frame(s, i) ==
  /\ \A j \in Ids : j # i => Same(j)
  /\ \A t \in Slots : t # s => SameLocals(t)
  /\ pc'[s] # "idle" => on'[s] = i

(* A command and its hooks work on one container. *)
LEMMA StepFrame ==
  ASSUME TypeOK, NEW s \in Slots, Step(s)
  PROVE  Frame(s, on[s])
<1> USE AnIdType, NoIdAssumption
    DEF TypeOK, Frame, Same, SameLocals, At, Go, Goto, Finish, Note, CreateFailed, EnterHook,
        LeaveHook, locals, records, files, locks,
        Acquire, CanAcquire, Release, Rename, CanRename
<1>1. CASE Setup(s)
  BY <1>1 DEF Setup
<1>2. CASE AcquireName(s)
  BY <1>2 DEF AcquireName
<1>3. CASE InternalLabels(s)
  BY <1>3 DEF InternalLabels
<1>4. CASE RemoveOrphanedDirs(s)
  BY <1>4 DEF RemoveOrphanedDirs
<1>5. CASE NewContainer(s)
  BY <1>5 DEF NewContainer
<1>6. CASE SetupNetworking(s)
  BY <1>6 DEF SetupNetworking
<1>7. CASE GcDirs(s)
  BY <1>7 DEF GcDirs
<1>8. CASE GcName(s)
  BY <1>8 DEF GcName
<1>9. CASE OldTask(s)
  BY <1>9 DEF OldTask
<1>10. CASE NewTask(s)
  BY <1>10 DEF NewTask
<1>11. CASE TaskStart(s)
  BY <1>11 DEF TaskStart
<1>12. CASE CreateRuntime(s)
  BY <1>12 DEF CreateRuntime
<1>13. CASE ApplyNetworkSettings(s)
  BY <1>13 DEF ApplyNetworkSettings
<1>14. CASE SetCreateError(s)
  BY <1>14 DEF SetCreateError
<1>15. CASE PostStop(s)
  BY <1>15 DEF PostStop
<1>16. CASE CniRemove(s)
  BY <1>16 DEF CniRemove
<1>17. CASE HostsRelease(s)
  BY <1>17 DEF HostsRelease
<1>18. CASE HookRelease(s)
  BY <1>18 DEF HookRelease
<1>19. CASE HookDone(s)
  BY <1>19 DEF HookDone
<1>20. CASE RmLock(s)
  BY <1>20 DEF RmLock
<1>21. CASE RmTask(s)
  BY <1>21 DEF RmTask
<1>22. CASE RmDelete(s)
  BY <1>22 DEF RmDelete
<1>23. CASE RmName(s)
  BY <1>23 DEF RmName
<1>24. CASE RmHosts(s)
  BY <1>24 DEF RmHosts
<1>25. CASE RmRelease(s)
  BY <1>25 DEF RmRelease
<1>26. CASE RmDir(s)
  BY <1>26 DEF RmDir
<1>27. CASE RnNames(s)
  BY <1>27 DEF RnNames
<1>28. CASE RnLabel(s)
  BY <1>28 DEF RnLabel
<1>29. CASE RnBack(s)
  BY <1>29 DEF RnBack
<1>30. CASE RnBackLabel(s)
  BY <1>30 DEF RnBackLabel
<1> QED BY <1>1, <1>2, <1>3, <1>4, <1>5, <1>6, <1>7, <1>8, <1>9, <1>10, <1>11, <1>12, <1>13, <1>14,
           <1>15, <1>16, <1>17, <1>18, <1>19, <1>20, <1>21, <1>22, <1>23, <1>24, <1>25, <1>26,
           <1>27, <1>28, <1>29, <1>30 DEF Step

(* What AtRest says of a container is about that container. *)
LEMMA SameKeeps ==
  ASSUME TypeOK, NEW i \in Ids, Same(i), AtRest(i)
  PROVE  AtRest(i)'
BY DEF TypeOK, Same, AtRest, Sound, Titled, Present, Absent, Unplugged, Owns, OwnsNone, Excused

(* What StepInv says of a command is about its container and its locals. *)
LEMMA SlotKeeps ==
  ASSUME TypeOK, NEW t \in Slots, StepInv(t), SameLocals(t), pc[t] # "idle" => Same(on[t])
  PROVE  StepInv(t)'
<1>1. CASE pc[t] = "idle"
  BY <1>1 DEF SameLocals, StepInv, Creating, CleaningUp, Starting, Stopping, Removing, Renaming,
              StartSteps, CleanupSteps, RenameSteps
<1>2. CASE pc[t] # "idle"
  <2> DEFINE j == on[t]
  <2>1. /\ Same(j) /\ j \in Ids /\ on'[t] = j
        /\ pc'[t] = pc[t] /\ arg'[t] = arg[t] /\ seen'[t] = seen[t] /\ ret'[t] = ret[t]
    BY <1>2 DEF SameLocals, TypeOK
  <2> HIDE DEF j
  <2> USE <2>1 DEF TypeOK, Same, Titled, Present, Unplugged, Owns, OwnsNone, OwnsAnnot, Excused,
                   Sound, Absent, New, Retitled
  <2>2. Creating(t)'
    BY DEF StepInv, Creating, j
  <2>3. CleaningUp(t)'
    BY DEF StepInv, CleaningUp, CleanupSteps, j
  <2>4. Starting(t)'
    BY SMTT(20) DEF StepInv, Starting, StartSteps, j
  <2>5. Stopping(t)'
    BY DEF StepInv, Stopping, j
  <2>6. Removing(t)'
    BY DEF StepInv, Removing, j
  <2>7. Renaming(t)'
    BY SMTT(20) DEF StepInv, Renaming, RenameSteps, j
  <2> QED BY <2>2, <2>3, <2>4, <2>5, <2>6, <2>7 DEF StepInv
<1> QED BY <1>1, <1>2

-----------------------------------------------------------------------------
(* The steps of a command keep StepInv of its container, and the last one  *)
(* leaves it as AtRest says: a creation, a start and its createRuntime     *)
(* hook, a postStop hook, a removal, a rename.                             *)
LEMMA CreationKeeps ==
  ASSUME TypeOK, TypeOK', NEW s \in Slots, StepInv(s), OnCni, NEW i \in Ids, i = on[s],
         Setup(s) \/ AcquireName(s) \/ InternalLabels(s) \/ RemoveOrphanedDirs(s) \/ NewContainer(s)
         \/ SetupNetworking(s) \/ GcDirs(s) \/ GcName(s)
  PROVE  StepInv(s)' /\ (pc'[s] = "idle" => AtRest(i)')
<1> USE AnIdType, NoIdAssumption, SlotAssumption
    DEF At, Go, Goto, Finish, Note, CreateFailed, EnterHook, LeaveHook, locals, records, files, locks,
        Acquire, CanAcquire, Release, Rename, CanRename,
        Titled, Present, Unplugged, Owns, OwnsNone, OwnsAnnot, Excused, Sound, Absent, New, Retitled,
        AtRest, StepInv, Creating, CleaningUp, Starting, Stopping, Removing, Renaming, StartSteps,
        CleanupSteps, RenameSteps, OnCni, TypeOK
<1>1. CASE Setup(s)
  BY <1>1 DEF Setup
<1>2. CASE AcquireName(s)
  BY <1>2 DEF AcquireName
<1>3. CASE InternalLabels(s)
  BY <1>3 DEF InternalLabels
<1>4. CASE RemoveOrphanedDirs(s)
  BY <1>4 DEF RemoveOrphanedDirs
<1>5. CASE NewContainer(s)
  BY <1>5 DEF NewContainer
<1>6. CASE SetupNetworking(s)
  BY <1>6 DEF SetupNetworking
<1>7. CASE GcDirs(s)
  BY <1>7 DEF GcDirs
<1>8. CASE GcName(s)
  BY <1>8 DEF GcName
<1> HIDE DEF StepInv, AtRest, TypeOK
<1> QED BY <1>1, <1>2, <1>3, <1>4, <1>5, <1>6, <1>7, <1>8

LEMMA StartKeeps ==
  ASSUME TypeOK, TypeOK', NEW s \in Slots, StepInv(s), OnCni, NEW i \in Ids, i = on[s],
         OldTask(s) \/ NewTask(s) \/ TaskStart(s) \/ CreateRuntime(s) \/ ApplyNetworkSettings(s) \/
         SetCreateError(s)
  PROVE  StepInv(s)' /\ (pc'[s] = "idle" => AtRest(i)')
<1> USE AnIdType, NoIdAssumption, SlotAssumption
    DEF At, Go, Goto, Finish, Note, CreateFailed, EnterHook, LeaveHook, locals, records, files, locks,
        Acquire, CanAcquire, Release, Rename, CanRename,
        Titled, Present, Unplugged, Owns, OwnsNone, OwnsAnnot, Excused, Sound, Absent, New, Retitled,
        AtRest, StepInv, Creating, CleaningUp, Starting, Stopping, Removing, Renaming, StartSteps,
        CleanupSteps, RenameSteps, OnCni, TypeOK
<1>1. CASE OldTask(s)
  BY <1>1 DEF OldTask
<1>2. CASE NewTask(s)
  BY <1>2 DEF NewTask
<1>3. CASE TaskStart(s)
  BY <1>3 DEF TaskStart
<1>4. CASE CreateRuntime(s)
  BY <1>4 DEF CreateRuntime
<1>5. CASE ApplyNetworkSettings(s)
  BY <1>5 DEF ApplyNetworkSettings
<1>6. CASE SetCreateError(s)
  <2>1. CASE At(s, "setStarted")
    <3>1. createErr'[i] = FALSE
      BY <1>6, <2>1 DEF SetCreateError
    <3> QED BY <1>6, <2>1, <3>1 DEF SetCreateError
  <2>2. CASE At(s, "setCreateError")
    <3>1. createErr'[i] = TRUE
      BY <1>6, <2>2 DEF SetCreateError
    <3> QED BY <1>6, <2>2, <3>1 DEF SetCreateError
  <2>0. At(s, "setStarted") \/ At(s, "setCreateError")
    BY <1>6 DEF SetCreateError
  <2> HIDE DEF StepInv, AtRest, TypeOK, At
  <2> QED BY <2>0, <2>1, <2>2
<1> HIDE DEF StepInv, AtRest, TypeOK
<1> QED BY <1>1, <1>2, <1>3, <1>4, <1>5, <1>6

LEMMA HookKeeps ==
  ASSUME TypeOK, TypeOK', NEW s \in Slots, StepInv(s), OnCni, NEW i \in Ids, i = on[s],
         PostStop(s) \/ CniRemove(s) \/ HostsRelease(s) \/ HookRelease(s) \/ HookDone(s)
  PROVE  StepInv(s)' /\ (pc'[s] = "idle" => AtRest(i)')
<1> USE AnIdType, NoIdAssumption, SlotAssumption
    DEF At, Go, Goto, Finish, Note, CreateFailed, EnterHook, LeaveHook, locals, records, files, locks,
        Acquire, CanAcquire, Release, Rename, CanRename,
        Titled, Present, Unplugged, Owns, OwnsNone, OwnsAnnot, Excused, Sound, Absent, New, Retitled,
        AtRest, StepInv, Creating, CleaningUp, Starting, Stopping, Removing, Renaming, StartSteps,
        CleanupSteps, RenameSteps, OnCni, TypeOK
<1>1. CASE PostStop(s)
  BY <1>1 DEF PostStop
<1>2. CASE CniRemove(s)
  BY <1>2 DEF CniRemove
<1>3. CASE HostsRelease(s)
  BY <1>3 DEF HostsRelease
<1>4. CASE HookRelease(s)
  BY <1>4 DEF HookRelease
<1>5. CASE HookDone(s)
  BY <1>5 DEF HookDone
<1> HIDE DEF StepInv, AtRest, TypeOK
<1> QED BY <1>1, <1>2, <1>3, <1>4, <1>5

LEMMA RmKeeps ==
  ASSUME TypeOK, TypeOK', NEW s \in Slots, StepInv(s), OnCni, NEW i \in Ids, i = on[s],
         RmLock(s) \/ RmTask(s) \/ RmDelete(s) \/ RmName(s) \/ RmHosts(s) \/ RmRelease(s) \/ RmDir(s)
  PROVE  StepInv(s)' /\ (pc'[s] = "idle" => AtRest(i)')
<1> USE AnIdType, NoIdAssumption, SlotAssumption
    DEF At, Go, Goto, Finish, Note, CreateFailed, EnterHook, LeaveHook, locals, records, files, locks,
        Acquire, CanAcquire, Release, Rename, CanRename,
        Titled, Present, Unplugged, Owns, OwnsNone, OwnsAnnot, Excused, Sound, Absent, New, Retitled,
        AtRest, StepInv, Creating, CleaningUp, Starting, Stopping, Removing, Renaming, StartSteps,
        CleanupSteps, RenameSteps, OnCni, TypeOK
<1>1. CASE RmLock(s)
  BY <1>1 DEF RmLock
<1>2. CASE RmTask(s)
  BY <1>2 DEF RmTask
<1>3. CASE RmDelete(s)
  BY <1>3 DEF RmDelete
<1>4. CASE RmName(s)
  BY <1>4 DEF RmName
<1>5. CASE RmHosts(s)
  BY <1>5 DEF RmHosts
<1>6. CASE RmRelease(s)
  BY <1>6 DEF RmRelease
<1>7. CASE RmDir(s)
  BY <1>7 DEF RmDir
<1> HIDE DEF StepInv, AtRest, TypeOK
<1> QED BY <1>1, <1>2, <1>3, <1>4, <1>5, <1>6, <1>7

LEMMA RnKeeps ==
  ASSUME TypeOK, TypeOK', NEW s \in Slots, StepInv(s), OnCni, NEW i \in Ids, i = on[s],
         RnNames(s) \/ RnLabel(s) \/ RnBack(s) \/ RnBackLabel(s)
  PROVE  StepInv(s)' /\ (pc'[s] = "idle" => AtRest(i)')
<1> USE AnIdType, NoIdAssumption, SlotAssumption
    DEF At, Go, Goto, Finish, Note, CreateFailed, EnterHook, LeaveHook, locals, records, files, locks,
        Acquire, CanAcquire, Release, Rename, CanRename,
        Titled, Present, Unplugged, Owns, OwnsNone, OwnsAnnot, Excused, Sound, Absent, New, Retitled,
        AtRest, StepInv, Creating, CleaningUp, Starting, Stopping, Removing, Renaming, StartSteps,
        CleanupSteps, RenameSteps, OnCni, TypeOK
<1>1. CASE RnNames(s)
  BY <1>1 DEF RnNames
<1>2. CASE RnLabel(s)
  BY <1>2 DEF RnLabel
<1>3. CASE RnBack(s)
  BY <1>3 DEF RnBack
<1>4. CASE RnBackLabel(s)
  BY <1>4 DEF RnBackLabel
<1> HIDE DEF StepInv, AtRest, TypeOK
<1> QED BY <1>1, <1>2, <1>3, <1>4
-----------------------------------------------------------------------------
(* Only applyNetworkSettings allocates a network. *)
LEMMA CniStep ==
  ASSUME TypeOK, OnCni, NEW s \in Slots, Step(s), StepInv(s)
  PROVE  OnCni'
<1> USE DEF TypeOK, OnCni, files
<1>1. CASE ApplyNetworkSettings(s)
  BY <1>1 DEF ApplyNetworkSettings, At, StepInv, Starting
<1>2. CASE CniRemove(s)
  BY <1>2 DEF CniRemove
<1>3. CASE UNCHANGED net
  BY <1>3
<1> HIDE DEF TypeOK, OnCni
<1> QED BY <1>1, <1>2, <1>3 DEF Step, Setup, AcquireName, InternalLabels, RemoveOrphanedDirs,
           NewContainer,
  SetupNetworking, GcDirs, GcName, OldTask, NewTask, TaskStart, CreateRuntime, SetCreateError, PostStop,
  HostsRelease, HookRelease, HookDone, RmLock, RmTask, RmDelete, RmName, RmHosts, RmRelease, RmDir,
  RnNames, RnLabel, RnBack, RnBackLabel

(* A container that a command works on is not new to Create. *)
LEMMA BusyNamed ==
  ASSUME TypeOK, NEW s \in Slots, StepInv(s), pc[s] # "idle"
  PROVE  annot[on[s]] # NoName
BY DEF TypeOK, StepInv, Creating, CleaningUp, Starting, Stopping, Removing, Renaming, New, Sound,
   Present, Absent,
   CreateSteps, CleanupSteps, StartSteps, HookSteps, RmSteps, RenameSteps

(* A command begins on a container that no other one works on. *)
LEMMA BeginKeeps ==
  ASSUME Apart, IndInv, NEW s \in Slots, NEW i \in Ids, NEW n \in Names,
         Create(s, i, n) \/ RenameContainer(s, i, n) \/ Start(s, i) \/ RemoveContainer(s, i)
  PROVE  /\ pc[s] = "idle" /\ ~Busy(i)
         /\ Frame(s, i) /\ OnCni'
         /\ StepInv(s)' /\ pc'[s] # "idle"
<1>1. pc[s] = "idle"
  BY DEF Create, RenameContainer, Start, RemoveContainer, At
<1>2. ~Busy(i)
  BY BusyNamed DEF IndInv, LifeInv, Busy, Create, RenameContainer, Start, RemoveContainer
<1>3. AtRest(i) /\ TypeOK
  BY <1>2 DEF IndInv, LifeInv
<1>4. Frame(s, i) /\ OnCni' /\ pc'[s] # "idle"
  BY DEF IndInv, LifeInv, OnCni, TypeOK, Frame, Same, SameLocals, Create, RenameContainer, Start,
     RemoveContainer, Goto, records, files
<1>5. StepInv(s)'
  <2> USE <1>3, SlotAssumption, NoIdAssumption DEF At, Goto, records, files,
        Titled, Present, Unplugged, Owns, OwnsNone, OwnsAnnot, Excused, Sound, Absent, New, Retitled,
        AtRest, StepInv, Creating, CleaningUp, Starting, Stopping, Removing, Renaming, StartSteps,
        CleanupSteps, RenameSteps, TypeOK
  <2>1. CASE Create(s, i, n)
    BY <2>1 DEF Create
  <2>2. CASE RenameContainer(s, i, n)
    BY <2>2 DEF RenameContainer
  <2>3. CASE Start(s, i)
    BY <2>3 DEF Start
  <2>4. CASE RemoveContainer(s, i)
    BY <2>4 DEF RemoveContainer
  <2> HIDE DEF StepInv, AtRest, TypeOK
  <2> QED BY <2>1, <2>2, <2>3, <2>4
<1> QED BY <1>1, <1>2, <1>4, <1>5

(* A step on container i that keeps what the invariant says of i keeps     *)
(* what it says of every container and command.                            *)
LEMMA MoveKeeps ==
  ASSUME IndInv, NEW s \in Slots, NEW i \in Ids, Frame(s, i),
         pc[s] # "idle" => on[s] = i,
         pc[s] = "idle" => ~Busy(i),
         StepInv(s)', pc'[s] = "idle" => AtRest(i)'
  PROVE  /\ Alone'
         /\ \A t \in Slots : StepInv(t)'
         /\ \A j \in Ids : ~Busy(j)' => AtRest(j)'
<1>1. \A t \in Slots : t # s /\ pc[t] # "idle" => on[t] # i
  BY DEF IndInv, LifeInv, Alone, Busy
<1>2. Alone'
  BY <1>1 DEF IndInv, LifeInv, Alone, Frame, SameLocals
<1>3. ASSUME NEW t \in Slots
      PROVE  StepInv(t)'
  <2>1. CASE t # s
    <3>1. SameLocals(t) /\ (pc[t] # "idle" => Same(on[t]))
      BY <1>1, <2>1 DEF Frame, IndInv, TypeOK
    <3> QED BY <3>1, SlotKeeps DEF IndInv, LifeInv
  <2> QED BY <2>1
<1>4. ASSUME NEW j \in Ids, ~Busy(j)'
      PROVE  AtRest(j)'
  <2>1. CASE j = i
    BY <1>4, <2>1 DEF Busy, Frame
  <2>2. CASE j # i
    <3>1. ~Busy(j)
      BY <1>4, <2>2 DEF Busy, Frame, SameLocals
    <3> QED BY <2>2, <3>1, SameKeeps DEF IndInv, LifeInv, Frame
  <2> QED BY <2>1, <2>2
<1> QED BY <1>2, <1>3, <1>4

(* The process of a container may end in the middle of a command on it. *)
LEMMA ExitKeeps ==
  ASSUME IndInv, NEW i \in Ids, TaskExit(i)
  PROVE  LifeInv'
<1>1. Alone' /\ OnCni'
  BY DEF IndInv, LifeInv, Alone, OnCni, TaskExit, locals, files
<1>2. ASSUME NEW s \in Slots
      PROVE  StepInv(s)'
  <2> USE <1>2 DEF TypeOK, TaskExit, locals, files,
        Titled, Present, Unplugged, Owns, OwnsNone, OwnsAnnot, Excused, Sound, Absent, New, Retitled
  <2>1. StepInv(s) /\ TypeOK
    BY DEF IndInv, LifeInv
  <2>2. Creating(s)'
    BY <2>1 DEF StepInv, Creating
  <2>3. CleaningUp(s)'
    BY <2>1 DEF StepInv, CleaningUp, CleanupSteps
  <2>4. Starting(s)'
    BY <2>1 DEF StepInv, Starting, StartSteps
  <2>5. Stopping(s)'
    BY <2>1 DEF StepInv, Stopping
  <2>6. Removing(s)'
    BY <2>1 DEF StepInv, Removing
  <2>7. Renaming(s)'
    BY <2>1 DEF StepInv, Renaming, RenameSteps
  <2> QED BY <2>2, <2>3, <2>4, <2>5, <2>6, <2>7 DEF StepInv
<1>3. ASSUME NEW j \in Ids, ~Busy(j)'
      PROVE  AtRest(j)'
  <2>1. AtRest(j) /\ TypeOK
    BY <1>3 DEF IndInv, LifeInv, Busy, TaskExit, locals
  <2> QED BY <2>1 DEF TypeOK, TaskExit, files, AtRest, Sound, Titled, Present, Absent, Unplugged,
            Owns, OwnsNone, Excused
<1> QED BY <1>1, <1>2, <1>3 DEF LifeInv

(* A restart of containerd takes the tasks of containers at rest. *)
LEMMA BounceKeeps ==
  ASSUME IndInv, NEW i \in Ids, Bounce(i)
  PROVE  LifeInv'
<1>1. Alone' /\ OnCni'
  BY DEF IndInv, LifeInv, Alone, OnCni, Bounce, locals, files
<1>2. \A j \in Ids : j # i => Same(j)
  BY DEF IndInv, TypeOK, Bounce, Note, Same, files
<1>3. ASSUME NEW s \in Slots
      PROVE  StepInv(s)'
  <2>1. SameLocals(s)
    BY DEF Bounce, locals, SameLocals
  <2>2. pc[s] # "idle" => Same(on[s])
    BY <1>2 DEF Bounce, Busy, IndInv, TypeOK
  <2> QED BY <2>1, <2>2, SlotKeeps DEF IndInv, LifeInv
<1>4. ASSUME NEW j \in Ids, ~Busy(j)'
      PROVE  AtRest(j)'
  <2>1. AtRest(j) /\ TypeOK
    BY <1>4 DEF IndInv, LifeInv, Busy, Bounce, locals
  <2>2. CASE j # i
    BY <2>1, <2>2, <1>2, SameKeeps
  <2>3. CASE j = i
    BY <2>1, <2>3 DEF TypeOK, Bounce, Note, files, AtRest, Sound, Titled, Present, Absent, Unplugged,
                      Owns, OwnsNone, Excused
  <2> QED BY <2>2, <2>3
<1> QED BY <1>1, <1>3, <1>4 DEF LifeInv

-----------------------------------------------------------------------------
LEMMA InitLife == Init => IndInv
<1> SUFFICES ASSUME Init PROVE IndInv
  OBVIOUS
<1>1. TypeOK
  BY InitType
<1>2. Alone /\ OnCni
  BY DEF Init, Alone, OnCni
<1>3. \A s \in Slots : StepInv(s)
  BY DEF Init, StepInv, Creating, CleaningUp, Starting, Stopping, Removing, Renaming,
         StartSteps, CleanupSteps, RenameSteps
<1>4. \A i \in Ids : AtRest(i)
  BY NoIdAssumption DEF Init, AtRest, OwnsNone
<1> QED BY <1>1, <1>2, <1>3, <1>4 DEF IndInv, LifeInv

LEMMA StepBusy ==
  ASSUME NEW s \in Slots, Step(s)
  PROVE  pc[s] # "idle"
BY DEF At, Step, Setup, AcquireName, InternalLabels, RemoveOrphanedDirs, NewContainer, SetupNetworking,
  GcDirs, GcName, OldTask, NewTask, TaskStart, CreateRuntime, ApplyNetworkSettings, SetCreateError,
  PostStop, CniRemove, HostsRelease, HookRelease, HookDone, RmLock, RmTask, RmDelete, RmName, RmHosts,
  RmRelease, RmDir, RnNames, RnLabel, RnBack, RnBackLabel

LEMMA NextLife ==
  ASSUME Apart, IndInv, [Next]_vars
  PROVE  IndInv'
<1>1. TypeOK'
  BY NextType DEF IndInv
<1>2. ASSUME NEW s \in Slots, Begin(s)
      PROVE  LifeInv'
  <2>1. PICK i \in Ids, n \in Names :
          Create(s, i, n) \/ RenameContainer(s, i, n) \/ Start(s, i) \/ RemoveContainer(s, i)
    <3>1. \A i \in Ids : label[i] # NoName => label[i] \in Names
      BY DEF IndInv, TypeOK
    <3> QED BY <1>2, <3>1 DEF Begin, Start, RemoveContainer
  <2>2. /\ pc[s] = "idle" /\ ~Busy(i) /\ pc'[s] # "idle"
        /\ Frame(s, i) /\ OnCni' /\ StepInv(s)'
    BY <2>1, BeginKeeps
  <2> QED BY <2>2, MoveKeeps DEF LifeInv
<1>3. ASSUME NEW s \in Slots, Step(s)
      PROVE  LifeInv'
  <2>1. TypeOK /\ StepInv(s) /\ OnCni
    BY DEF IndInv, LifeInv
  <2> PICK i \in Ids : i = on[s]
    BY <2>1 DEF TypeOK
  <2>2. pc[s] # "idle"
    BY <1>3, StepBusy
  <2>3. Frame(s, i) /\ OnCni'
    BY <1>3, <2>1, StepFrame, CniStep
  <2>4. StepInv(s)' /\ (pc'[s] = "idle" => AtRest(i)')
    BY <1>1, <1>3, <2>1, CreationKeeps, StartKeeps, HookKeeps, RmKeeps, RnKeeps DEF Step
  <2> QED BY <2>1, <2>2, <2>3, <2>4, MoveKeeps DEF LifeInv
<1>4. ASSUME NEW i \in Ids, TaskExit(i) \/ Bounce(i)
      PROVE  LifeInv'
  BY <1>4, ExitKeeps, BounceKeeps
<1>5. CASE UNCHANGED vars
  <2>1. Alone' /\ OnCni'
    BY <1>5 DEF vars, files, locals, IndInv, LifeInv, Alone, OnCni
  <2>2. /\ \A s \in Slots : SameLocals(s)
        /\ \A i \in Ids : Same(i) /\ (Busy(i)' <=> Busy(i))
    BY <1>5 DEF vars, records, files, locals, Same, SameLocals, Busy
  <2>3. \A s \in Slots : StepInv(s)'
    BY <2>2, SlotKeeps DEF IndInv, LifeInv, TypeOK
  <2>4. \A i \in Ids : ~Busy(i)' => AtRest(i)'
    BY <2>2, SameKeeps DEF IndInv, LifeInv
  <2> QED BY <1>1, <2>1, <2>3, <2>4 DEF IndInv, LifeInv
<1> QED BY <1>1, <1>2, <1>3, <1>4, <1>5 DEF Next, Quiet, IndInv

LEMMA LifeHolds == Apart => (Spec => []IndInv)
<1> SUFFICES ASSUME Apart PROVE Spec => []IndInv
  OBVIOUS
<1>1. IndInv /\ [Next]_vars => IndInv'
  BY NextLife
<1> QED BY <1>1, InitLife, PTL DEF Spec

(* When users do not run two commands on one container at once, nothing    *)
(* that fails leaves a network allocated to a container without a task,    *)
(* except what the log tells of (onPostStop, applyNetworkSettings).        *)
THEOREM NetworkReleased ==
  Apart
    => (Spec => []NoLeakedNetwork)
<1> SUFFICES ASSUME Apart
             PROVE  Spec => []NoLeakedNetwork
  OBVIOUS
<1>1. IndInv => NoLeakedNetwork
  BY DEF IndInv, LifeInv, NoLeakedNetwork, Settled, AtRest, Sound, Absent, Unplugged
<1> QED BY <1>1, LifeHolds, PTL

(* The state and etchosts directories go with the container, in every      *)
(* failure but that of an OCI archive, whose error comes with no cleanup.  *)
THEOREM DirsRemoved ==
  Apart /\ "archive" \notin Faults
    => (Spec => []NoLeakedDirs)
<1> SUFFICES ASSUME Apart, "archive" \notin Faults
             PROVE  Spec => []NoLeakedDirs
  OBVIOUS
<1>1. IndInv => NoLeakedDirs
  BY DEF IndInv, LifeInv, NoLeakedDirs, Settled, AtRest, Sound, Present
<1> QED BY <1>1, LifeHolds, PTL

(* The names of a container are free once it is gone, in every failure but *)
(* that of the internal labels, whose cleanup does not release the name.   *)
THEOREM NameReleased ==
  Apart /\ "internalLabels" \notin Faults
    => (Spec => []NoLeakedName)
<1> SUFFICES ASSUME Apart, "internalLabels" \notin Faults
             PROVE  Spec => []NoLeakedName
  OBVIOUS
<1>1. IndInv => NoLeakedName
  BY DEF IndInv, LifeInv, NoLeakedName, Settled, AtRest, Sound, Present, Owns, Excused
<1> QED BY <1>1, LifeHolds, PTL

(* A container owns the name that "ps" shows, in every failure but that of *)
(* NewTask after the old task's postStop hook, and of SetupNetworking,     *)
(* whose cleanup releases the name of a container that stays.              *)
THEOREM LabelNameOwned ==
  Apart /\ "newTask" \notin Faults /\ "setupNetworking" \notin Faults
    => (Spec => []LabelOwned)
<1> SUFFICES ASSUME Apart, "newTask" \notin Faults, "setupNetworking" \notin Faults
             PROVE  Spec => []LabelOwned
  OBVIOUS
<1>1. IndInv => LabelOwned
  BY DEF IndInv, LifeInv, LabelOwned, Settled, AtRest, Sound, Absent, Titled
<1> QED BY <1>1, LifeHolds, PTL

(* A creation that fails leaves nothing behind, in every failure but the   *)
(* three whose cleanup is not complete.                                    *)
THEOREM FailedCreationCleaned ==
  Apart /\ "archive" \notin Faults /\ "internalLabels" \notin Faults /\ "setupNetworking" \notin Faults
    => (Spec => []FailedCreateCleans)
<1> SUFFICES ASSUME Apart, "archive" \notin Faults, "internalLabels" \notin Faults,
    "setupNetworking" \notin Faults
             PROVE  Spec => []FailedCreateCleans
  OBVIOUS
<1>1. IndInv => FailedCreateCleans
  BY DEF IndInv, LifeInv, FailedCreateCleans, AtRest, Sound, Present, Absent, OwnsNone
<1> QED BY <1>1, LifeHolds, PTL
=============================================================================
