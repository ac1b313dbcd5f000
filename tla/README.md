# A TLA+ verification of nerdctl's shared state

nerdctl is a command-line client of containerd.  It has no daemon: every command is
a process of its own, and so is every OCI hook that runc starts on a container's
behalf.  What nerdctl adds to containerd (names, volumes, hosts files, networks,
per-container state) therefore lives in files that many short-lived processes share.
This project models that shared state: how a file is written, how it is locked, and
how the commands on containers, volumes, networks and compose projects use it
together; and the parts that are concurrent inside one process: the logger of a
container, and the nydusify service and the registry logins of dsagent.  The models are of the Linux build.

`tlc -config X.cfg M` checks the configuration `X` of module `M`; `tlapm M.tla`
checks the proofs of module `M`.  `PROJECT.json` lists every run, the mutants that
show that a property can fail, the source lines each definition stands for, the
disagreements found, the hazards and the theorems.

## 1. Inventory

| Component | State it keeps | Operations | Status |
|---|---|---|---|
| in-place write, `pkg/internal/filesystem` | file, backup and marker file | `WriteFileWithRollback`, its rollback, `WriteFile`, `ReadFile`, `Stat`, `ensureRecovery` | modelled |
| file store, `pkg/store` | a directory of keys; mutex, flock, `vs.locked` | `Lock`, `Release`, `WithLock`, `Get`, `Set`, `Delete` | modelled but for `GroupEnsure` and Windows |
| name store, `pkg/namestore` | one file per name, holding an ID | `Acquire`, `Release`, `Rename` | modelled |
| container commands, `pkg/cmd/container`, `pkg/containerutil` | containerd's records and tasks, state directories, oplock | `Create`, `Start`, `RemoveContainer`, `renameContainer` | control modelled, OCI spec and most labels not |
| OCI hooks, `pkg/ocihook` | `lifecycle.json`, CNI allocations, `.cni-concurrency.lock` | `onCreateRuntime`, `onPostStop` | modelled without rootless port forwarding |
| hosts store, `pkg/dnsutil/hostsstore` | `meta.json` and `hosts` per container | `AllocHostsFile`, `Acquire`, `Release`, `Update`, `Delete`, `updateAllHosts` | modelled |
| volumes, `pkg/mountutil/volumestore`, `pkg/cmd/volume` | a directory per volume | `Create`, `Remove`, `Prune`, and the mounts of container create and rm | modelled |
| CNI configurations, `pkg/netutil` | a file per network | `CreateNetwork`, `RemoveNetwork`, the default network, free subnets | files and subnets modelled, plug-in settings not |
| stop, restart, kill, pause, unpause | task status, labels | `Stop`, `Restart`, `killContainer`, `Pause`, `Unpause`, `Start` | modelled for one container |
| health check, `pkg/healthcheck` | state in the labels, a log file | `ExecuteHealthCheck`, `updateHealthStatus`, `writeHealthLog` | writers modelled, inspect not |
| logging, `pkg/logging` | logger lock, pipes, the log | logger process, `WaitForLogger`, `logs -f` | modelled without the drivers |
| composer, `pkg/composer` | the compose lock; the containers and the network of a project | up, create, run, start, restart, stop, rm, down | control modelled, compose files not |
| dsagent: nydusify tasks | task map, queue of 100, five workers | submit, cancel, callbacks with retries, `RetryCallback` | modelled without listing and cleanup |
| ports, `pkg/portutil`, `pkg/netutil/networkstore` | `allocateStart`, `network-config.json` | `ParseFlagP`, `portAllocate`, `Acquire`, `Load` | modelled for one address and protocol, rootful |
| images, `pkg/cmd/image`, `pkg/imgutil` | containerd's image records | `Remove`, `Prune`, `Tag`, the image of `Create` | records modelled, content not |
| dsagent: ECR authentication | two token caches, their file, `config.json` | `AutoLogin`, `Login`, `saveTokenCache`, `SetRegistryAuth` | modelled without profiles and credentials |
| dsagent: container, image, event services | none of their own | gRPC front ends of `pkg/cmd` | not modelled |
| push, commit, build, convert; CLI, formatting, other platforms | see `PROJECT.json` | | not modelled |

How they interact.  `create` holds the lock of the volume store from its first steps
to its return; it makes the state directory, the etchosts directory, the name and the
record, and hands its caller a cleanup function when it fails.  `start` deletes an old
task, makes a new one and starts it.  Making a task runs the createRuntime hook,
deleting it runs the postStop hook, both as separate processes that hold
`.cni-concurrency.lock`.  `rm` holds the container's oplock, deletes the task (and so
waits for a hook), the record, the name and the etchosts directory, and removes the
state directory after it has released the lock.  `rename` takes no lock of the
container.  All of these reach the name store, which is a file store, whose `Set`
writes by rename, as does that of `lifecycle.json`; hosts files and network
configurations are written in place instead, with marker and backup.  `stop`, `start`,
`kill` and a health probe meet in the labels of a container, which containerd's restart
monitor reads; each of them gets the labels in one call and puts them back in another.  A compose command runs nerdctl as a sub-process, many at a time, under a lock
of its own that other nerdctl commands do not take.  The logger is a process that the
shim starts before the task and ends after it; `logs -f` waits for its lock.

What is hard: a process may die between any two system calls; a lock belongs to an
inode and the inode may be gone from the path; the name, the record and the
directories of a container are changed by steps of several processes under different
locks; a hook must tell a failed creation from a normal stop; labels are read early
and used late.  The list, with lines, is under "hazards" in `PROJECT.json`.

What makes each part correct:

* in-place write: an interrupted write is undone, and no read sees half of it;
* file store: one function at a time, no update lost or half applied, no call stuck;
* names: a name has one owner and changes hands only when its owner gives it up;
* commands: a container owns the name of its label, two containers never share one,
  and what a removed container or a failed creation held is free again;
* hosts store: a hosts file lists exactly the containers of its networks that have one;
* volumes: no volume of an existing container is removed, and `rm -v` leaves no anonymous
  one, when it meets no error;
* CNI configurations: two networks do not share a subnet;
* stop: when it returns without an error the task is down and stays down, and it does
  return;
* health check: the labels say what the log says;
* logging: the log is what the container wrote, and is complete when a viewer is told;
* composer: dependencies come up first, and the network stays while it is used;
* nydusify tasks: a task is run once, an accepted task ends, a cancelled task
  stays cancelled, and a callback is sent at most as often as configured, unless a
  client asks for more;
* ports: what a command chooses is neither in use nor chosen twice;
* images: rmi and prune remove no image that a container they have seen uses;
* ECR authentication: a login that is reported has left a token for the pull.

## 2. Modules

| Module | Contents |
|---|---|
| `AtomicFile` | what an in-place write promises: an indivisible write with a rollback |
| `RollbackFile` | `writefile_rollback.go`, `helpers.go`, `os.go`, one step per system call |
| `RollbackFileProofs` | the inductive invariant of `RollbackFile`, and its safety theorems |
| `RollbackFileRefinement` | `RollbackFile` implements `AtomicFile` |
| `AtomicStore` | what `WithLock` promises: indivisible read-modify-write and delete |
| `FileStore` | `filestore.go`, `lock.go`, `lock_unix.go`, `writefile_rename.go` |
| `FileStoreProofs` | exclusion, and `FileStore` implements `AtomicStore` |
| `NameStore` | `namestore.go`, each operation as one transaction |
| `ContainerLifecycle` | the commands and the hooks; extends `NameStore` |
| `ContainerLifecycleProofs` | names change hands only through their owners; what a container holds while it rests and when it is gone |
| `Parties` | the containers and the clients that the modules below share |
| `Volumes` | the volume store, the volume commands, and the volumes of create and rm |
| `HostsStore` | `hostsstore.go` as create, the hooks, rename and rm use it |
| `NetConfigs` | `netutil.go`, `store.go` and the free subnet of `subnet.go` |
| `TaskControl` | `Stop`, `Start`, restart, kill, pause and unpause on one task |
| `HealthCheck` | the probes of that task; extends `TaskControl` |
| `Compose` | one compose project and the commands on it |
| `Logger` | `logging.go` and the viewer of `logs -f` |
| `NydusTasks` | the nydusify service of dsagent |
| `Ports` | `portutil.go`, `port_allocate_linux.go`, `networkstore.go` |
| `Images` | rmi, prune, tag and the image of a new container |
| `EcrTokens` | the ECR managers of dsagent, their cache file and `config.json` |
| `MCParts`, `MCLive` | components side by side, the last with fairness |
| `StoreProofs` | proofs about `Volumes`, `HostsStore`, `NetConfigs` and `Ports` |
| `TaskProofs` | proofs about `TaskControl`, `HealthCheck` and `Compose` |
| `PartsProofs` | proofs about `Images` and `EcrTokens`, and about `MCParts` |
| `LiveProofs` | proofs about `NydusTasks` and `Logger`, and about `MCLive` |
| other `MC...` | the values that the `.cfg` files give to the constants |

The levels build on each other: `FileStoreProofs` shows that a `WithLock` is
indivisible, which is why each operation of `NameStore` is one action.

### RollbackFile

State: the contents of file, backup and marker, and per process the next system call
and the local variables of the Go functions (`op`, `md`, the open source `src`, the
content `val`).  A content is a value, `Absent` or `Torn`, the last for whatever an
`O_TRUNC` open or a partial copy leaves.  The return address of `ensureRecovery` and
`backupRestore` is `ret`.  `CrashPoints` are the steps before which a process may die,
`Faults` those whose system call may fail; the two constants let one model serve the
passing run, the violation and the proofs.

The callers of the in-place write hold an exclusive lock, so one process is inside at
a time (`LockFree`).  `netutil.fsRead` holds a shared one; two readers that recover
together are not covered.

### FileStore

A call is one `WithLock`.  `ProcOf` says which calls share a process, hence a
`fileStore` and its mutex.  Inodes are numbered; `path` is the inode the directory's
path names and `fd[c]` the one a call has opened before it waits for the flock.
`RemoveAll` is what `RemoveContainer` does to the state directory once it has released
the lock.  An `O_CREATE` open of a path that is gone makes a regular file (`plain`).
The content of the key is the set of the calls that contributed to it, so a lost
update is visible as a missing element.

### ContainerLifecycle

A slot is a nerdctl process together with the hooks that run for it: containerd and
runc make the command wait for its hook, so the two never run at the same time.  One
action is one operation on something shared.  Per container: the name in its label
(`NoName` when containerd has no record), the name in the annotations of its OCI spec
(which `rename` does not change), the status of its task, its state directory, its
etchosts directory, its CNI allocation and `CreateError`.  `CniIds` are the containers
on a CNI network; the others use the host's network, whose `SetupNetworking` writes
the hosts entry during `create`.

The oplock is one lock per container here; that a directory which was removed and made
again is a second lock is the subject of `FileStore`.

External behaviour, as the code relies on it: containerd refuses a task for a container
that has one or has no record, refuses to delete a record while there is a task, and
makes a deletion wait while a task is being created or deleted; runc runs the postStop
hook when createRuntime fails and ignores what postStop returns; the kernel releases
the flocks of a process that dies.  An ID is used once.  `Bounce` is a restart of
containerd or of the host: the task is gone and no hook has run.

`Apart` says that users never run two commands on one container at once, `Restart`
that a container with an old task is started again, `Kinds` which commands there are
and `Faults` what may fail.  A passing run whose `Apart` is TRUE or whose `Faults` are
few makes a conditional statement; the condition is needed, as the violation run and
the observations below show.  `past` is a history of what went wrong with a container
(a creation that failed, a rename, a roll back that could not have the name back, a
network that CNI could not remove), which the invariants need to say what they except.

### Volumes, HostsStore, NetConfigs

An operation under `WithLock` is one step, which `FileStoreProofs` justifies, unless
the lock is held across calls others can notice: `create` holds the volume store from
the first mount to the record, `prune` from the listing to the last deletion,
`updateAllHosts` writes file after file.  In `NetConfigs` each read and each write of
the configurations is locked by itself, as in the code.  Three histories say when a
promise is suspended: `behind` (a hosts file could not be written, the writer died, or
`rm` removed a container whose postStop hook never ran, since the last complete pass),
and `stale` and `raced` (a network was written on a choice of subnet that another
write had overtaken).  `rm -v` deletes the record first and the anonymous volumes later:
`record` then says whether all of them went ("cleaned") or an error, which is only
logged, ended the removal ("partly"); the label may be unreadable, the lock fail or the
process die before it ("gone").  `RmApart` keeps `volume rm` and the creation of a container
apart; the run `volume_rm` drops it.

### TaskControl, HealthCheck

The task belongs to containerd: a call on a task that has stopped fails, a paused task
sees a signal when it is resumed, SIGTERM may be ignored, SIGKILL may not.  The restart
monitor lists what is down and not explicitly stopped, and starts it in a later step
(`decided`).  A command reads the status in one step and acts on it in later ones.

`container.Update` is a get (`GetRecord`) and a put (`PutRecord`) of the whole record, so
a put takes back every label that others have written since the get: the two labels of
the model, `explicit` and `health`, are read and written together.  Stop, Start and
`killContainer` may fail at every call, with the task as it is (`CommandFails`), and then
write the error label, by another get and put (`ErrorLabel`, `PutBack`).  `Relabel` is a
get and put by any other command.  A probe reads its state from the labels, reads all
labels again, sets all of them, and appends to the log; it may fail or die at each step.

Two histories say when a promise ends.  `sure` are the Stops that have met no error and
that nothing has crossed: no Start, no put of an older label, no start that the monitor
had decided on before.  `skewed` says that probes have overlapped, that one has ended
between labels and log, or that a put has taken the health label back.  `Signallers` are
the clients that kill, pause and unpause, `Controllers` those that stop, start and
relabel beside the probes; the others only probe.  What `Reconfig...Container` updates
before a Start is a `Relabel` followed by a Start.  A command that dies is one that takes
no further step, and `StopEnds` is about those that live.

### Compose

A container is a service and a number.  `batch` are the sub-processes that have not
ended, which end in any order, well or not; `mine` the containers that up or run
remembers by ID and stops at its end, without the lock.  The dependencies are any
transitive, irreflexive relation.  `Foreground` clients always attach, the others
never do, which halves the state space and leaves every pair of commands possible.
`compose run` reuses a container number only when it is free, since the code gives
each run a random name.  A `run -it`, which keeps its lock while it is attached, is a
`run` that takes long.

### Logger

One stream; the other one shares nothing but the goroutine that waits for the task.
A line is in the FIFO, with the copier (`held`), in the channel of the driver, or
logged.  An `io.Pipe` holds nothing, so there is no stage for it.

### NydusTasks

The fields of a task are written by handlers, workers and callback goroutines without
a lock.  Each read and each write that another goroutine can come between is a step,
and `Attempts++` may use the value read at the test of the limit.  A panic in a callback
goroutine (a callback without a RetryConfig) ends dsagent, which starts again without
its tasks.  `sends` is the history of the requests that went out.  `AttemptsBounded`
counts these, not the counter, for tasks with at most one `RetryCallback`: none beyond
`max_attempts` when nobody calls it, and n(n + 5)/2 for n = `max_attempts` when somebody
does, since a chain that read the counter before the other's increment, or before the
reset, sets it back, and the two keep one another going.

### Ports

A process has its own `allocateStart` and a command parses its flags one by one; what
is in use is read again for each.  `published` are the containers whose rules are in
the nat table.  `sawUp` is the history of the containers that were up at every choice
a container's command made.  `getUsedPorts` is one step, although it reads three files.

### Images

A record is a name and a digest.  Each call on containerd is a step, except that the
list of containers is one moment.  Whoever pulls, commits or builds gives a name a
digest.  `throughout` is the history of the containers that had their image ever since
a command began.  A container's name for its image stays when the record is gone.
`Untagged` are the names without a tag (`name@sha256:...`); `image prune` takes these and
the record ":", called "<none>" here, and asks no container.

### EcrTokens

Tokens are numbers in the order AWS issues them and expire in that order.  The write
of `config.json` is two steps, since `os.WriteFile` truncates first and nothing locks
the file; a writer that finds another between the two (`overwrite`) may leave a mixture.
Requests of both managers, the goroutines that `loadPersistedTokens` starts, one for
each token, and those that save the cache run side by side; the manager of the image
service is made in its first request; every read and write may fail.  `lost` is the
history of the registries whose entry a failed `SetRegistryAuth` did not make, or one
that had read the file before has overwritten, until a later one enters the newest
token.  `LoginUsable` excepts these, and those whose entry is under way: it says that
nothing else, no expiry, restart, cache file of one manager or late goroutine, parts
cache and `config.json`.  Which credentials a token was fetched with is data the model
leaves out.

### MCParts, MCLive

The components put side by side here share no state, so their product says no more
than each alone.  `part` picks the one that moves; the state space is the sum, not the
product, and one TLC run covers them.

## 3. Runs

| Run | Bounds | Distinct states | Checks |
|---|---|---|---|
| `rollback_file` | 2 processes, 2 contents, death before and error of every step outside three windows | 1,550 | `TypeOK`, `RecoverableDisk`, `NoTornRead`, `ImplementsAtomicFile` |
| `rollback_file_torn_backup` | death inside the copy of the backup | | `NoTornRead` fails |
| `file_store` | 3 calls, 2 of them in one process, every process may die | 7,373 | `TypeOK`, `Exclusive`, `LockedInside`, `NoTempLeak`, `ImplementsAtomicStore`, `CallsReturn` |
| `file_store_removed` | the directory made up to three times, lock errors, deaths | 44,628 | `ExclusivePerDirectory` |
| `lifecycle` | 2 containers, one of them on a CNI network, 2 names, 2 commands at a time, on different containers, six kinds of failure, restarts of containerd | 2,475,473 | `LabelOwned`, `NoLeakedName`, `FailedCreateCleans`, `NoLeakedDirs`, `NoLeakedNetwork`, `NamesKept` |
| `lifecycle_races` | 1 container, 2 names, 3 commands at a time on it, every failure | 628,829 | `TypeOK`, no deadlock |
| `lifecycle_restart` | 2 containers, create and start | | `NoSharedName` fails |
| `parts` | 2 clients; 2 containers with 2 named volumes; 3 containers on 2 networks; 3 networks and 3 subnets; one client that stops, starts and relabels beside the probes of both, 2 probes with 2 retries; 2 services, the first with a `run` container; 4 ports, 2 flags for a command, each of 1 or 2 ports; 2 image names, one of them untagged, 1 digest, 1 container; 2 registries, 2 tokens, 2 requests or goroutines at once | 2,364,246 | `PartsTypeOK`, `VolumesKept`, `AnonymousGone`, `HostsCurrent`, `SubnetsDistinct`, `StopHolds`, `HealthMatchesLog`, `StartOrder`, `NetworkKept`, `PortsApart`, `UsedKept`, `LoginUsable` |
| `volume_rm` | `volume rm` while a container is created | | `VolumesKept` fails |
| `live` | 2 tasks, 2 workers, a queue of 1, 2 attempts, one task cancelled and one with a `RetryCallback`; 2 clients on one task, one of which also kills and pauses; 3 lines | 123,868 | `LiveTypeOK`, `RunOnce`, `AttemptsBounded`, `StopHolds`, `LogPrefix`, `LogSettled`, `AcceptedEnds`, `CallbacksEnd`, `StopEnds`, `LoggerEnds` |
| `nydus_cancel` | as `live`, both tasks may be cancelled | | `CancelledForGood` fails |
| `logger` | as `live`, without lookup errors | | `LoggedAll` fails |

Each run takes less than four minutes with two workers.

Why the bounds are enough.  Two processes reach every crash followed by a recovery in
another process, and a second crash inside that recovery; two contents tell an old one
from a new one.  Three calls in two processes have both a pair that shares a mutex and
a pair that only shares the flock, with a third waiting.  Three directories are two
removals: one while a call waits for the flock, one after that.  In the lifecycle, two
commands with two containers compete for two names, so that one takes what the other
is about to give up or take back, and an ID is used once, so a longer history would
only repeat it; three commands on one container are one that holds the oplock, one
that waits for it and one that needs neither.  For volumes, one container shares with
another while a client removes; for hosts, two containers share a network and one does
not; three networks for three subnets have two creations that race while a third holds
a subnet, and a creation that finds none.  Two probes with two retries reach
"unhealthy", or fail and succeed in either order, one after the other or at once, with a
Stop or a Start reading the record before, between and after their writes.  In compose two services are one
dependency, the container of `run` is a second one of its service, so that one of two is
stopped or removed and the other is not, and a command in the foreground and one in the
background overlap.  A queue of 1 with two tasks is full; two workers
run at once; two attempts have a retry, and a `RetryCallback` makes a second chain
beside it; that the bound on what they send holds for every `max_attempts` is proved.
Three lines are one logged, one in hand and one in the FIFO.
Four ports hold two blocks of two, so one block is full while another is chosen, and
two flags of different sizes do not line up.  With one digest two names share their
content, which is the only case where a record matters for a container it does not
belong to.  Two tokens are one for each registry, or one and its renewal, with an expiry
in between; two requests at once are the race for `config.json`.
`lifecycle` and `lifecycle_races` use symmetry in slots and names, which nothing in the
models tells apart.

Deadlock is checked in every run.  The only stuttering steps are `AllEnded` (every
call has returned or died), `Quiet` (no command runs), `Idle` (no task is left to do)
and `LoggerRests` (the logger has ended and nobody waits), so a command that waits for
ever together with everything else is reported.

Fairness, each with weak fairness unless it says otherwise:

* `CallsReturn` (file store): of each call's own steps, which is what the Go and the
  Linux schedulers give to something that can run.  A call is made once, so a mutex or
  an flock that is free stays free until somebody takes it, and at most finitely many
  calls take it first; no strong fairness is needed.  `New`, deaths, lock errors and
  removals are not fair.
* `AcceptedEnds`, `CallbacksEnd` (nydusify): of every worker and every callback
  goroutine, and of the timer of a context; a command need not end, a client need not
  do anything.
* `StopEnds` (stop): of the steps of a Stop, its error label included, and strong fairness of the death of a
  running task with a pending SIGKILL, since a task that is paused and resumed again
  and again still dies in one of the moments it runs; nothing is assumed of users, of
  errors, of the container or of the restart monitor.
* `LoggerEnds` (logger): of the goroutines of the logger and of the shim's SIGTERM after
  the task was deleted; that the task is deleted is not assumed.

### What the violation runs show

* `rollback_file_torn_backup`: the marker exists before the backup is complete, so a
  death during the copy makes recovery put a torn backup over an intact file, against
  "does ensure disaster recovery" (`writefile_rollback.go:29`).  A rollback, which
  copies the backup with no marker at all, has the same weakness.  These steps are the
  windows that `rollback_file` and the theorems leave out.
* `lifecycle_restart`: between the postStop hook of the old task and the createRuntime
  hook of the new one the name is free, and a create may take it; createRuntime only
  logs that it could not have it back.
* `volume_rm`: `volume rm` lists the containers before it locks the volume store and
  reads only the labels of those inside it ("to avoid racy behavior", `rm.go:46`); a
  container that was created while it waited for the lock loses its volume.
* `nydus_cancel`: a worker sets RUNNING and later SUCCESS whatever `CancelTask` has set;
  no cancel function is ever registered, so the command runs on as well.
* `logger`: the pipes are closed when the task has exited, which may be before its last
  line has come through them; that line is lost, and the viewers are told that the log
  is complete.

### Related observations

Made while modelling, and not all of them errors.  Those marked (T) TLC finds with
other values of the constants of the same modules, or when the property is stated
without the exception that is named.

Stores and containers:

* (T) `LockFails = TRUE`: `Lock` returns its error with the mutex still locked
  (`filestore.go:79`), and the next call of that store in the process waits for ever.
* (T) `MaxDirs = 2`: `Exclusive` fails, because a waiter gets the flock of a removed
  directory while a newcomer locks the new one, which `remove.go` notes is racy.
* Two readers of a network configuration hold a shared lock and may both recover it,
  that is, write it (`netutil/store.go:76`).
* (T) `Faults = {"internalLabels"}`: a failed creation keeps its name for ever, as the
  cleanup of that stage does not release it; with `{"archive"}` it keeps its state
  directory, as no cleanup is returned; when networking fails, it keeps the record and
  the etchosts directory.
* (T) After a rename the hook acquires the name of the annotation, the old one; a start
  that fails then leaves it owned, and `rm` releases the name of the label only.
* (T) `Apart = FALSE`: `rm` reads the labels before it takes the oplock and `rename` takes no lock, so the new
  name may outlive the container; the roll back of a rename may lose the old name to
  another create; of two `rm` the second makes the state directory again to lock it.
* `rm -v` of a container whose anonymous volumes others share through `--volumes-from`
  removes them; an error there is only logged, and the volumes stay without a container
  (`remove.go:264`); a failed creation leaves its anonymous volumes; `volume prune` without
  `--all` spares named volumes and those without the anonymous label, where
  `docs/command-reference.md:1211` says "Remove all unused local volumes".
* `createDefaultNetworkConfig` fails when another process has made the default network
  meanwhile; two creations of networks at once may choose one subnet; `network rm` may
  remove a network that a container is just being created on.

Tasks, health, logs:

* A pause between the status that Stop reads and its signals keeps Stop waiting until
  somebody resumes the task; a restart whose task exits between status and signal fails
  and leaves the container down.
* `kill` marks the container as explicitly stopped whatever the signal, and cleans up
  its network first (`kill.go:63`).
* (T) Without the exceptions that `sure` makes `StopHolds` fails: a probe, a Start's
  status label, an error label or an `update` that read the record before a Stop takes
  the explicitly-stopped label back, and the monitor starts the task again; a start the
  monitor had decided on before comes after the Stop has returned.
* (T) In the same way, and without `skewed`, a Stop or a Start puts back a health label
  that a probe has changed meanwhile, and two probes at once lose a failure.
* Stop returns an error with the task running, and the container marked as explicitly
  stopped, when a signal or a timeout does not parse or a call of it fails.
* The health log is newest-first where `health.go:60` says "oldest first"; its writer
  and its reader lock different files.
* An error of `getContainerWait` closes the log pipes while the container runs.

Compose:

* A foreground `up` or `run` stops its containers after it has released the lock;
  `up svc --remove-orphans` removes containers of services of the file that were not
  requested; `stop`, `rm`, `kill` and `pause` of a service also reach its dependencies;
  `run` starts the dependencies all at once.

Ports, images:

* `portAllocate` asks whether a block starts before `allocateEnd`, not whether it ends
  there (`port_allocate_linux.go:57`).
* A flag with host ports and one without may get the same port, since `allocateStart`
  only knows of the latter; the ports of a container that is created and not started,
  or stopped, are given away; the last port of the range is never chosen alone, and the
  search does not start over at the beginning.
* `rmi --force` of a running container's image leaves the record ":" so that its layers
  stay; as no container has an image of that name, prune and a second rmi by ID remove
  it (`remove.go:82`).
* (T) `image prune` takes every record without a tag (`filtering.go:355`), also a
  `name@sha256:...` that a container was created from and still uses, which `UsedKept`
  excepts.
* There is one record ":" only, so a second `rmi --force` of a running image fails
  while it exists; a container created after rmi or prune has listed the containers may
  lose its image; a tag over an existing name first deletes it, so that for a moment it
  is gone.

dsagent:

* A full queue drops a task whose client was told PENDING; a callback without a
  RetryConfig is a nil dereference in a goroutine and ends dsagent; `Priority` is not
  used; `ListTasks` dereferences a missing `created_before`.
* (T) With one `RetryCallback` beside a chain that has not ended, more than twice
  `max_attempts` requests may be sent, up to what `AttemptsBounded` allows.
* (T) Without `lost`, `LoginUsable` fails.  The token is cached before `config.json` has
  it.  If that write fails, or is undone by a request or a goroutine that had read the
  file before, the cache answers "Using cached ECR token" until the token expires, and
  the pull finds none.
* Credentials are set in one place for all requests of a manager and read again when the
  token is fetched (`ecr_auth_manager.go:208`, `:343`); `Logout` reports success and does
  nothing (`ecr_service.go:87`).
* `AutoLogin` looks at `tokenCache` without the lock; a cache that changed within 30
  seconds of the last save is not saved until the next login; the two managers overwrite
  each other's cache file; `AddProfile` and `RemoveProfile` may lose each other's
  change; a death during the write of `config.json` leaves half a file, which later
  logins cannot read.

## 4. Proofs

Every theorem holds for every value of the constants that satisfies the assumptions of
its module.

* **In-place write.**  `DiskRecoverable` and `ReadsWhole` (`RollbackFileProofs`): for
  any processes, contents, crash points and faults outside the windows (`SafeWindows`),
  the disk always recovers to a whole file and no read is torn.  `RecoverableDisk` is
  not inductive: a process in the middle of a write relies on what it knows of the
  disk.  The invariant says for each step of a call what the three files hold
  (`SoundDisk`) and what its locals mean (`Local`), and that at most one process is
  inside.  `Implements` (`RollbackFileRefinement`): every step maps to a step of
  `AtomicFile` or a stutter; the content of the abstract file is what the next recovery
  would leave, so a write commits in the step that removes the marker.
* **File store.**  `LockExcludes`, `LockSeen`: a call inside holds the mutex of its
  process and the flock of the inode it opened, at once (`LockInv`), for any number of
  removals and lock errors.  `ExclusiveLock`, `StoreImplements`: while the directory is
  kept (`MaxDirs = 1`) every call opens the same inode, so what a function read stays
  current until its rename (`DataInv`), and the store implements `AtomicStore`.
  Without that assumption `Exclusive` is false.
  `TempRemoved`: a temporary file is there only while its write is under way.
* **Names.**  `NamesGuarded`: no interleaving of any number of commands and hooks and
  no failure changes a name's owner except from free to the container a command works
  on, or from that container to free.  The proof splits the steps into the seven that
  reach the name store and the others, which leave it alone.
* **Containers.**  `LabelNameOwned`, `NameReleased`, `DirsRemoved`, `NetworkReleased`,
  `FailedCreationCleaned`: when users do not run two commands on one container at once
  (`Apart`), for any containers, names, commands, kinds and faults but the ones each
  theorem names, whose cleanup in the code is not complete (TLC finds a counterexample
  with each of them).  The properties speak of containers at rest; the inductive
  invariant `LifeInv` says for every step of a command or of its hook what the
  container it works on holds by then (`Creating`, `CleaningUp`, `Starting`, `Stopping`,
  `Removing`, `Renaming`), and a step touches one container and the locals of one slot
  (`Frame`), so that the others keep what they had.  The faults are not assumed away in
  the invariant but named in it, at the step after which they leave something behind.
* **Stop and health.**  `StopKept`, `StopKeptByProbes`: for any number of clients and
  failures.  `StopInv` adds to `StopHolds` that the explicitly-stopped label stays set, and
  the monitor undecided, while a Stop counts, that a Stop or a kill writes the label set
  whatever it has read, and that the task is down as soon as a Stop has heard of its
  exit.  `LabelsMatchLog`: the state a probe is about to set follows from that of the
  labels, and between its two writes the log is one entry behind them (`MatchInv`).
* **Compose.**  `StartsInOrder`, `ProjectNetworkKept`: for any services, dependencies and
  clients.  `LockInv` says which steps are under the lock, `StageInv` and `RunInv` which
  command is at which step with what in hand, `UpInv` that what is in work or ahead of up
  has its dependencies ahead, in work or up, and `MadeInv` that the network is there
  before the first container.
* **Volumes, hosts files, networks, ports.**  `VolumesAreKept`, with `RmApart`: the holder of
  the store's lock knows every container that exists (`PruneInv`, `RmInv`), and what a
  creation mounts exists from the mount to the record (`MountInv`).  `AnonymousAreGone`
  needs no such assumption: the volumes of a container that was cleaned belong to nobody
  who could make them again.  `HostsAreCurrent`: during `updateAllHosts` the files already
  written are current (`HostsInv`).  `SubnetsAreDistinct`: the subnet a creation is
  about to write is nobody's, or the choice is marked as stale (`NetInv`).  `PortsAreApart`: `allocateStart`
  is behind every port chosen before, and a choice avoids whoever was up at it
  (`PortsInv`), for any range and any sizes of blocks.
* **Images.**  `UsedImagesKept`: the containers that had their image since a command
  began are on the list it made (`ListInv`), and what `prune --all` found is not theirs;
  what prune alone found has no tag (`UnusedInv`).
* **ECR.**  `LoginsUsable`, for any number of requests and goroutines: for every token in a
  cache, `config.json` has one for that registry at least as new, or a request or a
  goroutine that will enter one is under way or still to begin, or the registry is
  `lost` (`EntryInv`).  The proof is about the writes: one that overwrites a newer entry
  marks it as lost, and one takes the mark away only with a token as new as the caches'.
* **Logger.**  `LogIsPrefix`: log, channel, line in hand and FIFO hold the output in this
  order (`InOrder`).  `LogIsSettled`: the lock is given up after the channel is empty.
* **Nydusify.**  `TasksRunOnce`: a task is at one place of the queue or with one worker, and
  has then neither succeeded nor failed (`WorkInv`).  `AttemptsAreBounded`, for every
  `max_attempts`: no callback is sent before the end of its task (`FreshInv`), and a chain
  that is alone counts each request (`Alone`).  Two chains may lose increments, so no
  counter bounds what they send; the invariant (`CountInv`) is a potential instead.
  `Fits` says what may still be sent from each pair of steps, given the counter and the
  values the chains have read; a request takes one from it, and once the second chain
  is there no step, lost increments included, adds to it.
* **Types.**  `TypeOK` of every module, for every value of the constants.
* **Composition.**  `PartsBehave`, `LiveParts`: a behaviour of `MCParts` or `MCLive` is one of
  each of their parts, so each theorem above is also one about the specification that
  the runs `parts` and `live` check.

Assumptions on constants are the `ASSUME`s of the modules, which TLC evaluates in the
runs, and the conditions named above (`SafeWindows`, `MaxDirs = 1`, `Apart` and some
faults, `RmApart`).  Each of those is also that of the passing run of the
property; the violation runs and the observations show that they are needed.
No theorem assumes that the clients, containers, names, tasks or workers are finitely
many.

Only model-checked: liveness (`CallsReturn`, `AcceptedEnds`, `CallbacksEnd`, `StopEnds`,
`LoggerEnds`) and the absence of deadlock, which need `ENABLED` and fairness and are
beyond the proof system.  Every other property of the passing runs is a theorem.

## 5. Not modelled

* Content: OCI specs and most labels, image layers and manifests, log formats and
  drivers, compose files and their parsing, plug-in settings of CNI, URLs and
  references.  These are conversions of data within one process.
* Commands that only read, or that hand a request on: inspect, list, stats, top, exec,
  cp, attach, port, history, save, load, push, commit, build, convert; pause, kill,
  exec, cp and pull of compose; the container, image and event services of dsagent.
  (Where such a command writes something shared, as pull, commit and build write image
  records, that write is an action of the model that has this state.)
* Rootless port forwarding and bypass4netns, the side-car lock file of Windows, the
  FreeBSD build.
* Within what is modelled: `GroupEnsure` of the file store; a death between the two
  writes of the name store's `Rename`; a command of `ContainerLifecycle` that dies half
  way; the durability of a write across a power failure (after the death of a process
  the kernel still has the data); sub-processes
  of a compose command that go on, without its lock, after it was killed by SIGKILL
  (`Interrupt` ends both, as a signal to the process group does); the network cleanup of
  `kill`; the reader of the
  health log; listing and the cleanup of old nydusify tasks; ECR profiles and credentials.

Most of the repository's lines are generated protobuf code, the command line,
formatting, and conversions of one process's data, which have no shared state and no
order of steps to get wrong; the models cover a few per cent of the lines and most of
the places where processes or goroutines meet.

## 6. Plan

Every safety property of the passing runs is proved.  What could follow:

1. `FileStore` with removals: an abstract store per directory, which the store implements
   for every `MaxDirs`.
2. `NameStore`: that its operations are transactions of `AtomicStore`, over the keys of
   one directory.
3. `ContainerLifecycle` without `Apart`: what remains true when two commands meet on one
   container, in particular the exclusion by oplock and by the lock of the hooks.
