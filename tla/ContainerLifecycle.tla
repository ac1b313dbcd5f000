------------------------- MODULE ContainerLifecycle -------------------------
(***************************************************************************)
(* The commands that create, start, remove and rename containers           *)
(* (pkg/cmd/container, pkg/containerutil) and the OCI hooks that runc runs *)
(* for them (pkg/ocihook), over what they share: the name store, the state *)
(* directories, the etchosts directories, the CNI allocations and the      *)
(* records of containerd.                                                  *)
(*                                                                         *)
(* Each slot is a nerdctl process (with the hooks run on its behalf) that  *)
(* executes one command at a time; a step is one operation on something    *)
(* shared.  The slots interleave between any two steps.                    *)
(***************************************************************************)
EXTENDS NameStore

CONSTANTS Slots,         \* how many commands may run at once
          NoSlot,
          NoName,
          CniIds,        \* the containers on a CNI network; others use the host's
          Kinds,         \* the commands users run
          Restart,       \* whether a container with an old task is started again
          Apart,         \* users never run two commands on one container at once
          Faults         \* what may fail

ASSUME SomeId == Ids # {}
ASSUME SlotAssumption == NoSlot \notin Slots /\ NoName \notin Names /\ CniIds \subseteq Ids

VARIABLES
  label,     \* label[i]: the name label of i's record, NoName when there is no record
  annot,     \* annot[i]: the name annotation of i's OCI spec, NoName for an unused ID
  task,      \* task[i]: the status of i's task
  stateDir,  \* stateDir[i]: the state directory of i exists
  hosts,     \* hosts[i]: what the etchosts directory of i holds
  net,       \* net[i]: CNI has allocated i's network
  createErr, \* createErr[i]: CreateError of lifecycle.json
  past,      \* past[i]: what has gone wrong or changed for i, as told by
             \* a command or the log; a history of the properties only
  volLock,   \* the holder of the volume store's lock
  oplock,    \* oplock[i]: the holder of the oplock in i's state directory
  hookLock,  \* the holder of .cni-concurrency.lock
  pc,        \* pc[s]: the next step of the command in slot s
  on,        \* on[s]: the container it works on
  arg,       \* arg[s]: the new name of a rename
  seen,      \* seen[s]: the name label it has read
  ret        \* ret[s]: who waits for the postStop hook

locks == <<volLock, oplock, hookLock>>
locals == <<on, arg, seen, ret>>
records == <<label, annot, task>>
files == <<stateDir, hosts, net, createErr>>
vars == <<names, records, files, past, locks, pc, locals>>

CreateSteps == {"setup", "acquireName", "internalLabels", "newContainer", "setupNetworking"}
CleanupSteps == {"removeOrphanedDirs", "gcDirs", "gcNetworking", "gcName"}
StartSteps == {"oldTask", "newTask", "taskStart"}
HookSteps == {"createRuntime", "networkSettings", "setStarted", "setCreateError",
              "postStop", "cniRemove", "hostsRelease", "hookRelease", "hookDone"}
RmSteps == {"rmLock", "rmTask", "rmDelete", "rmName", "rmHosts", "rmRelease", "rmDir", "rmFailed"}
RenameSteps == {"rnNames", "rnLabel", "rnBack", "rnBackLabel"}

TypeOK ==
  /\ names \in [Names -> Ids \union {NoId}]
  /\ label \in [Ids -> Names \union {NoName}]
  /\ annot \in [Ids -> Names \union {NoName}]
  /\ task \in [Ids -> {"none", "creating", "created", "running", "stopped", "deleting"}]
  /\ stateDir \in [Ids -> BOOLEAN]
  /\ hosts \in [Ids -> {"none", "file", "meta"}]
  /\ net \in [Ids -> BOOLEAN]
  /\ createErr \in [Ids -> BOOLEAN]
  /\ past \in [Ids -> SUBSET {"failed", "renamed", "unnamed", "unplugged"}]
  /\ volLock \in Slots \union {NoSlot}
  /\ oplock \in [Ids -> Slots \union {NoSlot}]
  /\ hookLock \in Slots \union {NoSlot}
  /\ pc \in [Slots -> {"idle"} \union CreateSteps \union CleanupSteps \union StartSteps
                         \union HookSteps \union RmSteps \union RenameSteps]
  /\ on \in [Slots -> Ids]
  /\ arg \in [Slots -> Names \union {NoName}]
  /\ seen \in [Slots -> Names \union {NoName}]
  /\ ret \in [Slots -> {"start", "failed", "rm"}]

AnId == CHOOSE i \in Ids : TRUE  \* the target of an idle slot

Init ==
  /\ names = [n \in Names |-> NoId]
  /\ label = [i \in Ids |-> NoName]
  /\ annot = [i \in Ids |-> NoName]
  /\ task = [i \in Ids |-> "none"]
  /\ stateDir = [i \in Ids |-> FALSE]
  /\ hosts = [i \in Ids |-> "none"]
  /\ net = [i \in Ids |-> FALSE]
  /\ createErr = [i \in Ids |-> FALSE]
  /\ past = [i \in Ids |-> {}]
  /\ volLock = NoSlot
  /\ oplock = [i \in Ids |-> NoSlot]
  /\ hookLock = NoSlot
  /\ pc = [s \in Slots |-> "idle"]
  /\ on = [s \in Slots |-> AnId]
  /\ arg = [s \in Slots |-> NoName]
  /\ seen = [s \in Slots |-> NoName]
  /\ ret = [s \in Slots |-> "start"]

At(s, l) == pc[s] = l
Goto(s, l) == pc' = [pc EXCEPT ![s] = l]
Busy(i) == \E s \in Slots : pc[s] # "idle" /\ on[s] = i

(* A command ends; its locals are gone. *)
Finish(s) ==
  /\ Goto(s, "idle")
  /\ on' = [on EXCEPT ![s] = AnId]
  /\ arg' = [arg EXCEPT ![s] = NoName]
  /\ seen' = [seen EXCEPT ![s] = NoName]
  /\ ret' = [ret EXCEPT ![s] = "start"]

Go(s, l) == Goto(s, l) /\ UNCHANGED locals
Note(i, event) == past' = [past EXCEPT ![i] = @ \union {event}]

-----------------------------------------------------------------------------
(* Create: under the lock of the volume store until it returns; the        *)
(* cleanup function it returns with an error runs after that.              *)
Create(s, i, n) ==
  /\ At(s, "idle") /\ "create" \in Kinds
  /\ annot[i] = NoName
  /\ volLock = NoSlot
  /\ volLock' = s
  /\ annot' = [annot EXCEPT ![i] = n]
  /\ stateDir' = [stateDir EXCEPT ![i] = TRUE]
  /\ on' = [on EXCEPT ![s] = i]
  /\ Goto(s, "setup")
  /\ UNCHANGED <<names, label, task, hosts, net, createErr, past, oplock, hookLock, arg, seen, ret>>

CreateFailed(s) == Note(on[s], "failed") /\ volLock' = NoSlot

(* The image, the root file system, mounts, resources; an error here comes *)
(* with generateRemoveStateDirFunc, but one of an OCI archive comes with   *)
(* no cleanup at all.  ContainerNetworkingOpts allocates the hosts file.   *)
Setup(s) ==
  /\ At(s, "setup")
  /\ \/ /\ hosts' = [hosts EXCEPT ![on[s]] = "file"]
        /\ Go(s, "acquireName")
        /\ UNCHANGED <<stateDir, past, volLock>>
     \/ /\ "setup" \in Faults
        /\ stateDir' = [stateDir EXCEPT ![on[s]] = FALSE]
        /\ CreateFailed(s)
        /\ Finish(s)
        /\ UNCHANGED hosts
     \/ /\ "archive" \in Faults
        /\ CreateFailed(s)
        /\ Finish(s)
        /\ UNCHANGED <<hosts, stateDir>>
  /\ UNCHANGED <<names, records, net, createErr, oplock, hookLock>>

(* Errors from the allocation of the hosts file to Acquire's own come with *)
(* generateRemoveOrphanedDirsFunc.                                         *)
AcquireName(s) ==
  /\ At(s, "acquireName")
  /\ \/ /\ Acquire(annot[on[s]], on[s])
        /\ Go(s, "internalLabels")
        /\ UNCHANGED <<past, volLock>>
     \/ /\ ~CanAcquire(annot[on[s]], on[s]) \/ "setup" \in Faults
        /\ CreateFailed(s)
        /\ Go(s, "removeOrphanedDirs")
        /\ UNCHANGED names
  /\ UNCHANGED <<records, files, oplock, hookLock>>

(* Extra hosts, internal labels, network-config.json. *)
InternalLabels(s) ==
  /\ At(s, "internalLabels")
  /\ \/ /\ Go(s, "newContainer")
        /\ UNCHANGED <<past, volLock>>
     \/ /\ "internalLabels" \in Faults
        /\ CreateFailed(s)
        /\ Go(s, "removeOrphanedDirs")
  /\ UNCHANGED <<names, records, files, oplock, hookLock>>

(* Mutant: the cleanup of an earlier release, without the hosts directory. *)
RemoveStateDirOnly(s) ==
  /\ At(s, "removeOrphanedDirs")
  /\ stateDir' = [stateDir EXCEPT ![on[s]] = FALSE]
  /\ Finish(s)
  /\ UNCHANGED <<names, records, hosts, net, createErr, past, locks>>

RemoveOrphanedDirs(s) ==
  /\ At(s, "removeOrphanedDirs")
  /\ stateDir' = [stateDir EXCEPT ![on[s]] = FALSE]
  /\ hosts' = [hosts EXCEPT ![on[s]] = "none"]
  /\ Finish(s)
  /\ UNCHANGED <<names, records, net, createErr, past, locks>>

NewContainer(s) ==
  LET i == on[s] IN
  /\ At(s, "newContainer")
  /\ \/ /\ label' = [label EXCEPT ![i] = annot[i]]
        /\ IF i \in CniIds THEN Finish(s) /\ volLock' = NoSlot
                           ELSE Go(s, "setupNetworking") /\ UNCHANGED volLock
        /\ UNCHANGED past
     \/ /\ "newContainer" \in Faults
        /\ CreateFailed(s)
        /\ Go(s, "gcDirs")
        /\ UNCHANGED label
  /\ UNCHANGED <<names, annot, task, files, oplock, hookLock>>

(* The host network's SetupNetworking writes the hosts' meta.json. *)
SetupNetworking(s) ==
  /\ At(s, "setupNetworking")
  /\ \/ /\ hosts' = [hosts EXCEPT ![on[s]] = "meta"]
        /\ volLock' = NoSlot
        /\ Finish(s)
        /\ UNCHANGED past
     \/ /\ "setupNetworking" \in Faults
        /\ CreateFailed(s)
        /\ Go(s, "gcNetworking")
        /\ UNCHANGED hosts
  /\ UNCHANGED <<names, records, stateDir, net, createErr, oplock, hookLock>>

(* generateGcFunc: without a container the hosts directory goes, with one  *)
(* CleanupNetworking releases its meta.json.                               *)
GcDirs(s) ==
  LET i == on[s] IN
  /\ \/ /\ At(s, "gcDirs")
        /\ hosts' = [hosts EXCEPT ![i] = "none"]
     \/ /\ At(s, "gcNetworking")
        /\ hosts' = [hosts EXCEPT ![i] = IF @ = "meta" THEN "file" ELSE @]
  /\ stateDir' = [stateDir EXCEPT ![i] = FALSE]
  /\ Go(s, "gcName")
  /\ UNCHANGED <<names, records, net, createErr, past, locks>>

GcName(s) ==
  /\ At(s, "gcName")
  /\ Release(annot[on[s]], on[s])
  /\ Finish(s)
  /\ UNCHANGED <<records, files, past, locks>>

-----------------------------------------------------------------------------
(* Start *)
Start(s, i) ==
  /\ At(s, "idle") /\ "start" \in Kinds
  /\ label[i] # NoName
  /\ Apart => ~Busy(i)
  /\ task[i] # "running"
  /\ Restart \/ task[i] = "none"
  /\ on' = [on EXCEPT ![s] = i]
  /\ Goto(s, "oldTask")
  /\ UNCHANGED <<names, records, files, past, locks, arg, seen, ret>>

(* The old task is deleted, with its postStop hook; an error is ignored. *)
OldTask(s) ==
  LET i == on[s] IN
  /\ At(s, "oldTask")
  /\ task[i] \notin {"creating", "deleting"}
  /\ IF task[i] \in {"created", "stopped"}
       THEN /\ task' = [task EXCEPT ![i] = "deleting"]
            /\ ret' = [ret EXCEPT ![s] = "start"]
            /\ Goto(s, "postStop")
            /\ UNCHANGED <<on, arg, seen>>
       ELSE Go(s, "newTask") /\ UNCHANGED task
  /\ UNCHANGED <<names, label, annot, files, past, locks>>

(* NewTask: containerd refuses without a record or with another task. *)
NewTask(s) ==
  LET i == on[s] IN
  /\ At(s, "newTask")
  /\ \/ /\ label[i] # NoName /\ task[i] = "none"
        /\ task' = [task EXCEPT ![i] = "creating"]
        /\ Go(s, "createRuntime")
     \/ /\ label[i] = NoName \/ task[i] # "none" \/ "newTask" \in Faults
        /\ Finish(s)
        /\ UNCHANGED task
  /\ UNCHANGED <<names, label, annot, files, past, locks>>

TaskStart(s) ==
  /\ At(s, "taskStart")
  /\ task' = [task EXCEPT ![on[s]] = IF @ = "created" THEN "running" ELSE @]
  /\ Finish(s)
  /\ UNCHANGED <<names, label, annot, files, past, locks>>

(* The container's process ends. *)
TaskExit(i) ==
  /\ task[i] = "running"
  /\ task' = [task EXCEPT ![i] = "stopped"]
  /\ UNCHANGED <<names, label, annot, files, past, locks, pc, locals>>

(* containerd or the host restarts: the task is gone, no hook has run. *)
Bounce(i) ==
  /\ "bounce" \in Faults
  /\ ~Busy(i)
  /\ task[i] # "none"
  /\ task' = [task EXCEPT ![i] = "none"]
  /\ Note(i, "unplugged")
  /\ UNCHANGED <<names, label, annot, files, locks, pc, locals>>

-----------------------------------------------------------------------------
(* ocihook Run: the hooks run one at a time, and make the state directory. *)
EnterHook(s) ==
  /\ hookLock = NoSlot
  /\ hookLock' = s
  /\ stateDir' = [stateDir EXCEPT ![on[s]] = TRUE]
  /\ UNCHANGED <<volLock, oplock>>

LeaveHook == hookLock' = NoSlot /\ UNCHANGED <<volLock, oplock>>

(* onCreateRuntime: a name that cannot be re-acquired is only logged. *)
CreateRuntime(s) ==
  LET i == on[s] IN
  /\ At(s, "createRuntime")
  /\ EnterHook(s)
  /\ IF CanAcquire(annot[i], i) THEN Acquire(annot[i], i) /\ UNCHANGED past
                                ELSE Note(i, "unnamed") /\ UNCHANGED names
  /\ Go(s, IF i \in CniIds THEN "networkSettings" ELSE "setStarted")
  /\ UNCHANGED <<records, hosts, net, createErr>>

(* applyNetworkSettings: a leftover allocation is removed first. *)
ApplyNetworkSettings(s) ==
  LET i == on[s] IN
  /\ At(s, "networkSettings")
  /\ \/ /\ net' = [net EXCEPT ![i] = TRUE]
        /\ hosts' = [hosts EXCEPT ![i] = "meta"]
        /\ Go(s, "setStarted")
     \/ /\ "cni" \in Faults
        /\ net' = [net EXCEPT ![i] = FALSE]
        /\ Go(s, "setCreateError")
        /\ UNCHANGED hosts
  /\ UNCHANGED <<names, records, stateDir, createErr, past, locks>>

(* Mutant: the hook does not record its error. *)
CreateErrorLost(s) ==
  LET i == on[s] IN
  /\ LeaveHook
  /\ createErr' = [createErr EXCEPT ![i] = FALSE]
  /\ \/ /\ At(s, "setStarted")
        /\ task' = [task EXCEPT ![i] = "created"]
        /\ Go(s, "taskStart")
     \/ /\ At(s, "setCreateError")
        /\ ret' = [ret EXCEPT ![s] = "failed"]
        /\ Goto(s, "postStop")
        /\ UNCHANGED <<task, on, arg, seen>>
  /\ UNCHANGED <<names, label, annot, stateDir, hosts, net, past>>

(* CreateError is stored; when the hook fails runc runs the postStop hook. *)
SetCreateError(s) ==
  LET i == on[s] IN
  /\ LeaveHook
  /\ createErr' = [createErr EXCEPT ![i] = At(s, "setCreateError")]
  /\ \/ /\ At(s, "setStarted")
        /\ task' = [task EXCEPT ![i] = "created"]
        /\ Go(s, "taskStart")
     \/ /\ At(s, "setCreateError")
        /\ ret' = [ret EXCEPT ![s] = "failed"]
        /\ Goto(s, "postStop")
        /\ UNCHANGED <<task, on, arg, seen>>
  /\ UNCHANGED <<names, label, annot, stateDir, hosts, net, past>>

(* onPostStop: nothing is released when createRuntime had failed. *)
PostStop(s) ==
  LET i == on[s] IN
  /\ At(s, "postStop")
  /\ EnterHook(s)
  /\ createErr' = [createErr EXCEPT ![i] = FALSE]
  /\ Go(s, IF createErr[i] THEN "hookDone"
           ELSE IF i \in CniIds THEN "cniRemove" ELSE "hookRelease")
  /\ UNCHANGED <<names, records, hosts, net, past>>

(* Mutant: the hook forgets the allocation. *)
CniRemoveSkipped(s) ==
  /\ At(s, "cniRemove")
  /\ Go(s, "hostsRelease")
  /\ UNCHANGED <<names, records, files, past, locks>>

CniRemove(s) ==
  /\ At(s, "cniRemove")
  /\ \/ /\ net' = [net EXCEPT ![on[s]] = FALSE]
        /\ Go(s, "hostsRelease")
        /\ UNCHANGED past
     \/ /\ "cniRemove" \in Faults
        /\ Go(s, "hookDone")
        /\ Note(on[s], "unplugged")
        /\ UNCHANGED net
  /\ UNCHANGED <<names, records, stateDir, hosts, createErr, locks>>

(* hs.Release fails, and the hook with it, when there is no meta.json. *)
HostsRelease(s) ==
  LET i == on[s] IN
  /\ At(s, "hostsRelease")
  /\ hosts' = [hosts EXCEPT ![i] = IF @ = "meta" THEN "file" ELSE @]
  /\ Go(s, IF hosts[i] = "meta" THEN "hookRelease" ELSE "hookDone")
  /\ UNCHANGED <<names, records, stateDir, net, createErr, past, locks>>

HookRelease(s) ==
  /\ At(s, "hookRelease")
  /\ Release(annot[on[s]], on[s])
  /\ Go(s, "hookDone")
  /\ UNCHANGED <<records, files, past, locks>>

(* runc ignores an error of the hook; containerd has deleted the task. *)
HookDone(s) ==
  /\ At(s, "hookDone")
  /\ LeaveHook
  /\ task' = [task EXCEPT ![on[s]] = "none"]
  /\ \/ ret[s] = "start" /\ Go(s, "newTask")
     \/ ret[s] = "rm" /\ Go(s, "rmDelete")
     \/ ret[s] = "failed" /\ Finish(s)
  /\ UNCHANGED <<names, label, annot, files, past>>

-----------------------------------------------------------------------------
(* RemoveContainer: the labels are read before the oplock is taken. *)
RemoveContainer(s, i) ==
  /\ At(s, "idle") /\ "rm" \in Kinds
  /\ label[i] # NoName
  /\ Apart => ~Busy(i)
  /\ on' = [on EXCEPT ![s] = i]
  /\ seen' = [seen EXCEPT ![s] = label[i]]
  /\ Goto(s, "rmLock")
  /\ UNCHANGED <<names, records, files, past, locks, arg, ret>>

(* containerutil.Lock makes <state directory>/oplock and locks it. *)
RmLock(s) ==
  LET i == on[s] IN
  /\ At(s, "rmLock")
  /\ oplock[i] = NoSlot
  /\ oplock' = [oplock EXCEPT ![i] = s]
  /\ stateDir' = [stateDir EXCEPT ![i] = TRUE]
  /\ Go(s, "rmTask")
  /\ UNCHANGED <<names, records, hosts, net, createErr, past, volLock, hookLock>>

(* A running task is killed when forced; a task is deleted with its hook. *)
RmTask(s) ==
  LET i == on[s] IN
  /\ At(s, "rmTask")
  /\ task[i] \notin {"creating", "deleting"}
  /\ \/ /\ task[i] = "none"
        /\ Go(s, "rmDelete")
        /\ UNCHANGED task
     \/ /\ task[i] = "running"  \* not forced
        /\ Go(s, "rmFailed")
        /\ UNCHANGED task
     \/ /\ task[i] # "none"
        /\ task' = [task EXCEPT ![i] = "deleting"]
        /\ ret' = [ret EXCEPT ![s] = "rm"]
        /\ Goto(s, "postStop")
        /\ UNCHANGED <<on, arg, seen>>
  /\ UNCHANGED <<names, label, annot, files, past, locks>>

(* CleanupNetworking, then the record, unless it or its task stands in the *)
(* way.                                                                    *)
RmDelete(s) ==
  LET i == on[s] IN
  /\ At(s, "rmDelete")
  /\ task[i] \notin {"creating", "deleting"}
  /\ IF label[i] = NoName
       THEN /\ Go(s, "rmFailed")
            /\ UNCHANGED <<label, hosts>>
       ELSE /\ hosts' = [hosts EXCEPT ![i] = IF i \notin CniIds /\ @ = "meta" THEN "file" ELSE @]
            /\ label' = [label EXCEPT ![i] = IF task[i] = "none" THEN NoName ELSE @]
            /\ Go(s, IF task[i] = "none" THEN "rmName" ELSE "rmFailed")
  /\ UNCHANGED <<names, annot, task, stateDir, net, createErr, past, locks>>

RmName(s) ==
  /\ At(s, "rmName")
  /\ Release(seen[s], on[s])
  /\ Go(s, "rmHosts")
  /\ UNCHANGED <<records, files, past, locks>>

(* Mutant: the hosts directory is kept, as on a stop. *)
RmHostsKept(s) ==
  /\ At(s, "rmHosts")
  /\ Go(s, "rmRelease")
  /\ UNCHANGED <<names, records, files, past, locks>>

RmHosts(s) ==
  /\ At(s, "rmHosts")
  /\ hosts' = [hosts EXCEPT ![on[s]] = "none"]
  /\ Go(s, "rmRelease")
  /\ UNCHANGED <<names, records, stateDir, net, createErr, past, locks>>

(* The oplock is released in either case, the directory goes on success. *)
RmRelease(s) ==
  LET i == on[s] IN
  /\ oplock' = [oplock EXCEPT ![i] = NoSlot]
  /\ \/ At(s, "rmRelease") /\ Go(s, "rmDir")
     \/ At(s, "rmFailed") /\ Finish(s)
  /\ UNCHANGED <<names, records, files, past, volLock, hookLock>>

RmDir(s) ==
  LET i == on[s] IN
  /\ At(s, "rmDir")
  /\ stateDir' = [stateDir EXCEPT ![i] = FALSE]
  /\ createErr' = [createErr EXCEPT ![i] = FALSE]
  /\ Finish(s)
  /\ UNCHANGED <<names, records, hosts, net, past, locks>>

-----------------------------------------------------------------------------
(* renameContainer, without the oplock.  The hosts' meta.json gets the new *)
(* name too, which nothing here depends on.                                *)
RenameContainer(s, i, n) ==
  /\ At(s, "idle") /\ "rename" \in Kinds
  /\ label[i] # NoName
  /\ Apart => ~Busy(i)
  /\ on' = [on EXCEPT ![s] = i]
  /\ arg' = [arg EXCEPT ![s] = n]
  /\ seen' = [seen EXCEPT ![s] = label[i]]
  /\ Goto(s, "rnNames")
  /\ UNCHANGED <<names, records, files, past, locks, ret>>

RnNames(s) ==
  /\ At(s, "rnNames")
  /\ \/ /\ Rename(seen[s], on[s], arg[s])
        /\ Go(s, "rnLabel")
     \/ /\ ~CanRename(seen[s], on[s], arg[s])
        /\ Go(s, "rnBack")
        /\ UNCHANGED names
  /\ UNCHANGED <<records, files, past, locks>>

RnLabel(s) ==
  LET i == on[s] IN
  /\ At(s, "rnLabel")
  /\ \/ /\ label[i] # NoName
        /\ label' = [label EXCEPT ![i] = arg[s]]
        /\ Note(i, "renamed")
        /\ Finish(s)
     \/ /\ label[i] = NoName \/ "setLabels" \in Faults
        /\ Go(s, "rnBack")
        /\ UNCHANGED <<label, past>>
  /\ UNCHANGED <<names, annot, task, files, locks>>

(* The deferred roll back. *)
RnBack(s) ==
  /\ At(s, "rnBack")
  /\ \/ /\ Rename(arg[s], on[s], seen[s])
        /\ UNCHANGED past
     \/ /\ ~CanRename(arg[s], on[s], seen[s])  \* logged
        /\ IF names[seen[s]] = on[s] THEN UNCHANGED past ELSE Note(on[s], "unnamed")
        /\ UNCHANGED names
  /\ Go(s, "rnBackLabel")
  /\ UNCHANGED <<records, files, locks>>

RnBackLabel(s) ==
  LET i == on[s] IN
  /\ At(s, "rnBackLabel")
  /\ label' = [label EXCEPT ![i] = IF @ = NoName THEN @ ELSE seen[s]]
  /\ Finish(s)
  /\ UNCHANGED <<names, annot, task, files, past, locks>>

-----------------------------------------------------------------------------
Begin(s) ==
  \/ \E i \in Ids, n \in Names : Create(s, i, n) \/ RenameContainer(s, i, n)
  \/ \E i \in Ids : Start(s, i) \/ RemoveContainer(s, i)

Step(s) ==
  \/ Setup(s) \/ AcquireName(s) \/ InternalLabels(s) \/ RemoveOrphanedDirs(s)
  \/ NewContainer(s) \/ SetupNetworking(s) \/ GcDirs(s) \/ GcName(s)
  \/ OldTask(s) \/ NewTask(s) \/ TaskStart(s)
  \/ CreateRuntime(s) \/ ApplyNetworkSettings(s) \/ SetCreateError(s)
  \/ PostStop(s) \/ CniRemove(s) \/ HostsRelease(s) \/ HookRelease(s) \/ HookDone(s)
  \/ RmLock(s) \/ RmTask(s) \/ RmDelete(s) \/ RmName(s) \/ RmHosts(s) \/ RmRelease(s) \/ RmDir(s)
  \/ RnNames(s) \/ RnLabel(s) \/ RnBack(s) \/ RnBackLabel(s)

(* Nobody types a command: a state without a step has a stuck command. *)
Quiet == (\A s \in Slots : At(s, "idle")) /\ UNCHANGED vars

Next ==
  \/ \E s \in Slots : Begin(s) \/ Step(s)
  \/ \E i \in Ids : TaskExit(i) \/ Bounce(i)
  \/ Quiet

Spec == Init /\ [][Next]_vars

-----------------------------------------------------------------------------
Settled(i) == annot[i] # NoName /\ ~Busy(i)

(* A container that no command works on owns the name of its label, unless *)
(* the log says that a start or the roll back of a rename could not get it *)
(* back: what "ps" shows is what the name store guards.                    *)
LabelOwned ==
  \A i \in Ids : Settled(i) /\ label[i] # NoName /\ "unnamed" \notin past[i] => names[label[i]] = i

(* ocihook.go: never "a bricked system where multiple containers may share *)
(* the same name".                                                         *)
NoSharedName ==
  \A i, j \in Ids : Settled(i) /\ Settled(j) /\ i # j /\ label[i] # NoName => label[i] # label[j]

(* Once a container is gone its names are free again (remove.go releases   *)
(* the name even when the postStop hook did not); only a container that    *)
(* was renamed may keep one, the name it was created with, and one whose   *)
(* rename could not be rolled back.                                        *)
NoLeakedName ==
  \A i \in Ids, n \in Names : Settled(i) /\ label[i] = NoName /\ names[n] = i =>
    "unnamed" \in past[i] \/ ("renamed" \in past[i] /\ n = annot[i])

(* Once a container is gone so are its state and etchosts directories.     *)
NoLeakedDirs ==
  \A i \in Ids : Settled(i) /\ label[i] = NoName => ~stateDir[i] /\ hosts[i] = "none"

(* Without a task there is no network allocation (onPostStop, and the      *)
(* roll back of applyNetworkSettings), unless CNI could not remove it or   *)
(* the task went without a hook.                                           *)
NoLeakedNetwork ==
  \A i \in Ids : Settled(i) /\ task[i] = "none" /\ "unplugged" \notin past[i] => ~net[i]

(* A creation that failed leaves no container, directory or name behind.   *)
FailedCreateCleans ==
  \A i \in Ids : ~Busy(i) /\ "failed" \in past[i] =>
    label[i] = NoName /\ ~stateDir[i] /\ hosts[i] = "none" /\ \A n \in Names : names[n] # i

(* namestore.go: a name is taken when it is free and given up by its       *)
(* owner; a command acts for the container it works on only.               *)
NamesKept ==
  [][\A n \in Names : names'[n] # names[n] =>
       \E s \in Slots : /\ pc'[s] # pc[s]
                        /\ \/ names[n] = NoId /\ names'[n] = on[s]
                           \/ names[n] = on[s] /\ names'[n] = NoId]_vars
=============================================================================
