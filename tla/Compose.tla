------------------------------ MODULE Compose -------------------------------
(***************************************************************************)
(* nerdctl compose (pkg/composer) on one project: up, create, run, start,  *)
(* restart, stop, rm and down.  A command holds the lock of compose, walks *)
(* through the services in or against the order of their dependencies and  *)
(* runs one nerdctl sub-process per container of a service, all at a time. *)
(* A command in the foreground gives up the lock when it shows the logs    *)
(* and stops its containers in the end without it.                         *)
(***************************************************************************)
EXTENDS Parties, Integers

CONSTANTS Services,
          Defined,    \* those in the compose file; the others are left from an older one
          DependsOn,  \* the pairs <<s, t>> where s depends on t, at once or not
          Scaled,     \* the services with two replicas
          OneOff,     \* bound: the services that "compose run" is used for, if its last container is gone
          Foreground  \* bound: the clients whose commands stay in the foreground, all of them

ASSUME ServiceAssumption ==
  /\ Services # {}
  /\ Defined \subseteq Services /\ Scaled \subseteq Defined /\ OneOff \subseteq Defined
  /\ DependsOn \subseteq Defined \X Defined
  /\ \A s \in Services : <<s, s>> \notin DependsOn
  /\ \A e, f \in DependsOn : e[2] = f[1] => <<e[1], f[2]>> \in DependsOn
  /\ \A e \in DependsOn : e[1] \in OneOff => e[2] \in OneOff

(* A container is its service and its number; 0 is the one of compose run. *)
Replicas(s) == {<<s, 1>>} \union (IF s \in Scaled THEN {<<s, 2>>} ELSE {})
Boxes == (OneOff \X {0}) \union UNION {Replicas(s) : s \in Services}

VARIABLES
  box,         \* box[c]: container c runs, is there but "down", or is not there
  network,     \* the network of the project exists
  composeLock, \* the holder of the lock
  kpc,         \* kpc[p]: the next step of the command of p
  cmd,         \* cmd[p]: what it is, and
  opts,        \* opts[p]: with which options
  left,        \* left[p]: the services it has still to go through
  want,        \* want[p]: all of them, as long as the orphans are not known
  svc,         \* svc[p]: the one whose containers it stops, then removes
  batch,       \* batch[p]: the containers whose sub-processes have not ended
  mine,        \* mine[p]: the containers that up or run has brought up, by their IDs
  failed       \* failed[p]: a sub-process has failed

local == <<kpc, cmd, opts, left, want, svc, batch, mine, failed>>
composeVars == <<box, network, composeLock, local>>

Commands == {"up", "create", "run", "start", "restart", "stop", "rm", "down"}
Options == {"never", "orphans", "attach", "stop", "rm"}

ComposeTypeOK ==
  /\ box \in [Boxes -> {"none", "running", "down"}]
  /\ network \in BOOLEAN
  /\ composeLock \in Clients \union {NoClient}
  /\ kpc \in [Clients -> {"idle", "network", "orphanRm", "service", "work", "rmAll",
                          "downNetwork", "logs", "stopMine", "rmMine"}]
  /\ cmd \in [Clients -> Commands]
  /\ opts \in [Clients -> SUBSET Options]
  /\ left \in [Clients -> SUBSET Defined] /\ want \in [Clients -> SUBSET Defined]
  /\ svc \in [Clients -> Services]
  /\ batch \in [Clients -> SUBSET Boxes] /\ mine \in [Clients -> SUBSET Boxes]
  /\ failed \in [Clients -> BOOLEAN]

AService == CHOOSE s \in Services : TRUE

(* Of an older compose file containers may be left. *)
ComposeInit ==
  /\ \E old \in SUBSET {<<s, 1>> : s \in Services \ Defined} :
       box = [c \in Boxes |-> IF c \in old THEN "running" ELSE "none"]
  /\ network = (\E c \in Boxes : box[c] = "running")
  /\ composeLock = NoClient
  /\ kpc = [p \in Clients |-> "idle"]
  /\ cmd = [p \in Clients |-> "up"]
  /\ opts = [p \in Clients |-> {}]
  /\ left = [p \in Clients |-> {}] /\ want = [p \in Clients |-> {}]
  /\ svc = [p \in Clients |-> AService]
  /\ batch = [p \in Clients |-> {}] /\ mine = [p \in Clients |-> {}]
  /\ failed = [p \in Clients |-> FALSE]

(* ForEachService takes the dependencies along. *)
WithDependencies(S) == S \union {e[2] : e \in {f \in DependsOn : f[1] \in S}}
Existing(s) == {c \in Boxes : c[1] = s /\ box[c] # "none"}
KGo(p, l) == kpc' = [kpc EXCEPT ![p] = l]

(* The process ends, and with it its lock. *)
Quit(p) ==
  /\ KGo(p, "idle")
  /\ composeLock' = IF composeLock = p THEN NoClient ELSE composeLock
  /\ cmd' = [cmd EXCEPT ![p] = "up"]
  /\ opts' = [opts EXCEPT ![p] = {}]
  /\ left' = [left EXCEPT ![p] = {}] /\ want' = [want EXCEPT ![p] = {}]
  /\ svc' = [svc EXCEPT ![p] = AService]
  /\ batch' = [batch EXCEPT ![p] = {}] /\ mine' = [mine EXCEPT ![p] = {}]
  /\ failed' = [failed EXCEPT ![p] = FALSE]

-----------------------------------------------------------------------------
(* The options each command has. *)
OptionsOf(k) ==
  CASE k = "up" -> {"never", "orphans", "attach"}
    [] k = "create" -> {"never"}
    [] k = "run" -> {"orphans", "attach", "rm"}
    [] k = "rm" -> {"stop"}
    [] k = "down" -> {"orphans"}
    [] OTHER -> {}

(* compose.New locks; down is for all services. *)
Begin(p, k, S, o) ==
  /\ kpc[p] = "idle" /\ composeLock = NoClient
  /\ k = "down" => S = Defined
  /\ k = "run" => S \subseteq OneOff /\ \A s \in WithDependencies(S) : box[<<s, 0>>] = "none"
  /\ "attach" \in o <=> p \in Foreground
  /\ "rm" \in o => "attach" \in o
  /\ composeLock' = p
  /\ KGo(p, IF k \in {"up", "create", "run"} THEN "network" ELSE "service")
  /\ cmd' = [cmd EXCEPT ![p] = k]
  /\ opts' = [opts EXCEPT ![p] = o]
  /\ left' = [left EXCEPT ![p] = WithDependencies(S)]
  /\ want' = [want EXCEPT ![p] = IF "orphans" \in o THEN WithDependencies(S) ELSE {}]
  /\ UNCHANGED <<box, network, svc, batch, mine, failed>>

(* getOrphanContainers: the containers of the project whose service is not *)
(* among those of this command.                                            *)
FindOrphans(p) ==
  /\ batch' = [batch EXCEPT ![p] = IF "orphans" \in opts[p]
                                   THEN UNION {Existing(s) : s \in Services \ want[p]} ELSE {}]
  /\ KGo(p, "orphanRm")
  /\ want' = [want EXCEPT ![p] = {}]
  /\ opts' = [opts EXCEPT ![p] = @ \ {"orphans"}]

UpNetwork(p) ==
  /\ kpc[p] = "network"
  /\ \/ /\ network' = TRUE
        /\ \/ cmd[p] = "create" /\ KGo(p, "service") /\ UNCHANGED <<opts, want, batch>>
           \/ cmd[p] # "create" /\ FindOrphans(p)
        /\ UNCHANGED <<composeLock, cmd, left, svc, mine, failed>>
     \/ ~network /\ Quit(p) /\ UNCHANGED network
  /\ UNCHANGED box

(* upServices goes on with the first service, runServices with a container *)
(* of each at once.                                                        *)
OrphansDone(p) ==
  /\ kpc[p] = "orphanRm" /\ batch[p] = {}
  /\ \/ cmd[p] = "up" /\ KGo(p, "service") /\ UNCHANGED <<left, batch>>
     \/ cmd[p] = "down" /\ KGo(p, "downNetwork") /\ UNCHANGED <<left, batch>>
     \/ /\ cmd[p] = "run"
        /\ KGo(p, "work")
        /\ left' = [left EXCEPT ![p] = {}]
        /\ batch' = [batch EXCEPT ![p] = {<<s, 0>> : s \in left[p]}]
  /\ UNCHANGED <<box, network, composeLock, cmd, opts, want, svc, mine, failed>>

(* Dependencies first, or last. *)
Turn(p, s) ==
  /\ s \in left[p]
  /\ \A t \in left[p] : (IF cmd[p] \in {"stop", "rm", "down"} THEN <<t, s>> ELSE <<s, t>>) \notin DependsOn

(* The sub-processes of the last service, if there was one, have all ended *)
(* well.                                                                   *)
ServiceDone(p) ==
  /\ kpc[p] \in {"service", "work", "rmAll"} /\ batch[p] = {} /\ ~failed[p]
  /\ ~(kpc[p] = "work" /\ cmd[p] \in {"rm", "down"})

NextService(p, s) ==
  /\ ServiceDone(p) /\ Turn(p, s)
  /\ \/ /\ cmd[p] = "start" /\ Existing(s) = {}
        /\ Quit(p)
     \/ /\ cmd[p] # "start" \/ Existing(s) # {}
        /\ KGo(p, IF cmd[p] = "rm" /\ "stop" \notin opts[p] THEN "rmAll" ELSE "work")
        /\ left' = [left EXCEPT ![p] = @ \ {s}]
        /\ svc' = [svc EXCEPT ![p] = IF cmd[p] \in {"rm", "down"} THEN s ELSE @]
        /\ batch' = [batch EXCEPT ![p] = IF cmd[p] \in {"up", "create"} THEN Replicas(s) ELSE Existing(s)]
        /\ UNCHANGED <<composeLock, cmd, opts, want, mine, failed>>
  /\ UNCHANGED <<box, network>>

-----------------------------------------------------------------------------
(* The sub-process for c ends well, or not. *)
EndsWell(p, c, status) ==
  /\ box' = [box EXCEPT ![c] = status]
  /\ batch' = [batch EXCEPT ![p] = @ \ {c}]
  /\ mine' = [mine EXCEPT ![p] = IF cmd[p] \in {"up", "run"} THEN @ \union {c} ELSE @]
  /\ UNCHANGED failed

Fails(p, c) ==
  /\ batch' = [batch EXCEPT ![p] = @ \ {c}]
  /\ failed' = [failed EXCEPT ![p] = TRUE]
  /\ UNCHANGED mine

(* rm -f: whoever knew the container by its ID does not find it any more. *)
Gone(c) ==
  /\ box' = [box EXCEPT ![c] = "none"]
  /\ mine' = [q \in Clients |-> mine[q] \ {c}]

Rest(p) == UNCHANGED <<network, composeLock, kpc, cmd, opts, left, want, svc>>

(* upServiceContainer and createServiceContainer on a container that is    *)
(* there: started or left alone with "never", else removed first.          *)
ReuseBox(p, c) ==
  /\ kpc[p] = "work" /\ cmd[p] \in {"up", "create"} /\ c \in batch[p]
  /\ box[c] # "none" /\ "never" \in opts[p]
  /\ \/ EndsWell(p, c, IF cmd[p] = "up" THEN "running" ELSE box[c])
     \/ cmd[p] = "up" /\ box[c] # "running" /\ Fails(p, c) /\ UNCHANGED box
  /\ Rest(p)

RecreateBox(p, c) ==
  /\ kpc[p] = "work" /\ cmd[p] \in {"up", "create"} /\ c \in batch[p]
  /\ box[c] # "none" /\ "never" \notin opts[p]
  /\ \/ Gone(c) /\ UNCHANGED <<batch, failed>>
     \/ Fails(p, c) /\ UNCHANGED box
  /\ Rest(p)

(* nerdctl run, or create; a start that fails leaves the container. *)
MakeBox(p, c) ==
  /\ kpc[p] = "work" /\ cmd[p] \in {"up", "create", "run"} /\ c \in batch[p]
  /\ box[c] = "none"
  /\ \/ EndsWell(p, c, IF cmd[p] = "create" THEN "down" ELSE "running")
     \/ Fails(p, c) /\ \E r \in {"none", "down"} : box' = [box EXCEPT ![c] = r]
  /\ Rest(p)

(* nerdctl start fails without the network. *)
StartBox(p, c) ==
  /\ kpc[p] = "work" /\ cmd[p] = "start" /\ c \in batch[p]
  /\ \/ (network \/ box[c] = "running") /\ box[c] # "none" /\ EndsWell(p, c, "running")
     \/ box[c] # "running" /\ Fails(p, c) /\ UNCHANGED box
  /\ Rest(p)

(* Stops c if it runs; what fails is logged. *)
Stopped(c) == \/ box[c] = "running" /\ box' = [box EXCEPT ![c] = "down"]
              \/ UNCHANGED box

(* A restart may end half way, too. *)
RestartBox(p, c) ==
  /\ kpc[p] = "work" /\ cmd[p] = "restart" /\ c \in batch[p]
  /\ \/ network /\ box[c] # "none" /\ box' = [box EXCEPT ![c] = "running"]
     \/ Stopped(c)
  /\ batch' = [batch EXCEPT ![p] = @ \ {c}]
  /\ Rest(p) /\ UNCHANGED <<mine, failed>>

StopBox(p, c) ==
  /\ kpc[p] = "work" /\ cmd[p] \in {"stop", "rm", "down"} /\ c \in batch[p]
  /\ Stopped(c)
  /\ batch' = [batch EXCEPT ![p] = @ \ {c}]
  /\ Rest(p) /\ UNCHANGED <<mine, failed>>

(* removeContainers; "compose rm" without --stop spares what is up. *)
RemoveBox(p, c) ==
  /\ kpc[p] \in {"rmAll", "orphanRm", "rmMine"} /\ c \in batch[p]
  /\ \/ /\ ~(cmd[p] = "rm" /\ "stop" \notin opts[p] /\ box[c] = "running")
        /\ kpc[p] = "rmMine" => c \in mine[p]
        /\ Gone(c)
     \/ UNCHANGED <<box, mine>>
  /\ batch' = [batch EXCEPT ![p] = @ \ {c}]
  /\ Rest(p) /\ UNCHANGED failed

(* rm and down remove what they have stopped.  Under the lock no container *)
(* is added to the ones that they have listed.                             *)
RemoveNext(p) ==
  /\ kpc[p] = "work" /\ cmd[p] \in {"rm", "down"} /\ batch[p] = {}
  /\ KGo(p, "rmAll")
  /\ batch' = [batch EXCEPT ![p] = Existing(svc[p])]
  /\ UNCHANGED <<box, network, composeLock, cmd, opts, left, want, svc, mine, failed>>

(* Mutant: the error of a service is lost. *)
ServiceFailedIgnored(p) ==
  /\ kpc[p] = "work" /\ batch[p] = {} /\ failed[p]
  /\ failed' = [failed EXCEPT ![p] = FALSE]
  /\ UNCHANGED <<box, network, composeLock, kpc, cmd, opts, left, want, svc, batch, mine>>

(* runEG.Wait returns the error, when all of the service have ended. *)
ServiceFailed(p) ==
  /\ kpc[p] = "work" /\ batch[p] = {} /\ failed[p]
  /\ Quit(p)
  /\ UNCHANGED <<box, network>>

(* After the last service; Logs gives up the lock. *)
ServicesDone(p) ==
  /\ ServiceDone(p) /\ left[p] = {}
  /\ \/ /\ "attach" \in opts[p]
        /\ KGo(p, "logs")
        /\ composeLock' = NoClient
        /\ opts' = [opts EXCEPT ![p] = @ \intersect {"rm"}]
        /\ UNCHANGED <<cmd, left, want, svc, batch, mine, failed>>
     \/ /\ cmd[p] = "down"
        /\ FindOrphans(p)
        /\ UNCHANGED <<composeLock, cmd, left, svc, mine, failed>>
     \/ "attach" \notin opts[p] /\ cmd[p] # "down" /\ Quit(p)
  /\ UNCHANGED <<box, network>>

(* Mutant: the network goes whether or not it is in use. *)
DownNetworkUsed(p) ==
  /\ kpc[p] = "downNetwork"
  /\ network' = FALSE
  /\ Quit(p)
  /\ UNCHANGED box

(* A network that running containers use is an error, a failure to remove  *)
(* it is not.                                                              *)
DownNetwork(p) ==
  /\ kpc[p] = "downNetwork"
  /\ \/ (\A c \in Boxes : box[c] # "running") /\ network' = FALSE
     \/ UNCHANGED network
  /\ Quit(p)
  /\ UNCHANGED box

-----------------------------------------------------------------------------
(* In the foreground, until Ctrl-C or the end of all containers. *)
LogsEnd(p) ==
  /\ kpc[p] = "logs"
  /\ KGo(p, "stopMine")
  /\ batch' = [batch EXCEPT ![p] = mine[p]]
  /\ UNCHANGED <<box, network, composeLock, cmd, opts, left, want, svc, mine, failed>>

(* nerdctl stop ID; a container of that name with another ID is safe. *)
StopMine(p, c) ==
  /\ kpc[p] = "stopMine" /\ c \in batch[p]
  /\ \/ c \in mine[p] /\ Stopped(c)
     \/ c \notin mine[p] /\ UNCHANGED box
  /\ batch' = [batch EXCEPT ![p] = @ \ {c}]
  /\ Rest(p) /\ UNCHANGED <<mine, failed>>

ForegroundDone(p) ==
  /\ kpc[p] \in {"stopMine", "rmMine"} /\ batch[p] = {}
  /\ \/ /\ kpc[p] = "stopMine" /\ "rm" \in opts[p]
        /\ KGo(p, "rmMine")
        /\ batch' = [batch EXCEPT ![p] = mine[p]]
        /\ UNCHANGED <<composeLock, cmd, opts, left, want, svc, mine, failed>>
     \/ (kpc[p] = "rmMine" \/ "rm" \notin opts[p]) /\ Quit(p)
  /\ UNCHANGED <<box, network>>

(* Ctrl-C, or the death of the process. *)
Interrupt(p) ==
  /\ kpc[p] # "idle"
  /\ Quit(p)
  /\ UNCHANGED <<box, network>>

BoxExits(c) ==
  /\ box[c] = "running"
  /\ box' = [box EXCEPT ![c] = "down"]
  /\ UNCHANGED <<network, composeLock, local>>

ComposeNext ==
  \/ \E p \in Clients :
       \/ /\ kpc[p] = "idle"
          /\ \E k \in Commands, S \in SUBSET Defined \ {{}} : \E o \in SUBSET OptionsOf(k) : Begin(p, k, S, o)
       \/ UpNetwork(p) \/ OrphansDone(p)
       \/ \E s \in left[p] : NextService(p, s)
       \/ \E c \in batch[p] :
            \/ ReuseBox(p, c) \/ RecreateBox(p, c) \/ MakeBox(p, c) \/ StartBox(p, c)
            \/ RestartBox(p, c) \/ StopBox(p, c) \/ RemoveBox(p, c) \/ StopMine(p, c)
       \/ RemoveNext(p) \/ ServiceFailed(p) \/ ServicesDone(p) \/ DownNetwork(p)
       \/ LogsEnd(p) \/ ForegroundDone(p) \/ Interrupt(p)
  \/ \E c \in Boxes : BoxExits(c)

ComposeSpec == ComposeInit /\ [][ComposeNext]_composeVars

-----------------------------------------------------------------------------
(* up brings a container up only when it has brought up every container of *)
(* every service that the container's service depends on, whatever fails   *)
(* on the way (upServices waits for a service and stops at an error).      *)
StartOrder ==
  \A p \in Clients : cmd[p] = "up" /\ kpc[p] = "work" =>
    \A c \in batch[p], t \in Defined : <<c[1], t>> \in DependsOn => Replicas(t) \subseteq mine[p]

(* The project's network is there while one of its containers runs, also   *)
(* when containers could not be removed, commands were interrupted, or a   *)
(* foreground command ends late (downNetwork).                             *)
NetworkKept == (\E c \in Boxes : box[c] = "running") => network
=============================================================================
