----------------------------- MODULE HostsStore -----------------------------
(***************************************************************************)
(* The hosts store (pkg/dnsutil/hostsstore) as container create, the OCI   *)
(* hooks, rename and rm use it.  Each container has a directory with a     *)
(* hosts file, mounted as /etc/hosts, and, while it has a network, a       *)
(* meta.json.  Acquire, Release and Update change one meta.json and then   *)
(* rewrite the hosts files of all, under one lock, file by file; a process *)
(* may die and a write may fail in between.                                *)
(***************************************************************************)
CONSTANTS Hosts,       \* the containers
          HostNames,   \* their names
          NoHostName,
          OtherNet     \* the containers on a second network

ASSUME HostNameAssumption == NoHostName \notin HostNames /\ OtherNet \subseteq Hosts

VARIABLES
  hostsDir,  \* hostsDir[c]: the directory, with its hosts file, exists
  meta,      \* meta[c]: the name in c's meta.json, NoHostName without one
  lines,     \* lines[c]: the containers, with their names, in c's hosts file
  life,      \* life[c]: how far c has come
  hostsLock, \* the store's lock is held
  todo,      \* the hosts files that its holder has yet to write
  behind     \* a history: what has kept files from being brought up to date

hostsVars == <<hostsDir, meta, lines, life, hostsLock, todo, behind>>

HostsTypeOK ==
  /\ hostsDir \in [Hosts -> BOOLEAN]
  /\ meta \in [Hosts -> HostNames \union {NoHostName}]
  /\ lines \in [Hosts -> SUBSET (Hosts \X HostNames)]
  /\ life \in [Hosts -> {"none", "created", "running", "stopped"}]
  /\ hostsLock \in BOOLEAN
  /\ todo \in SUBSET Hosts
  /\ behind \in BOOLEAN

HostsInit ==
  /\ hostsDir = [c \in Hosts |-> FALSE]
  /\ meta = [c \in Hosts |-> NoHostName]
  /\ lines = [c \in Hosts |-> {}]
  /\ life = [c \in Hosts |-> "none"]
  /\ hostsLock = FALSE
  /\ todo = {}
  /\ behind = FALSE

WithMeta(m) == {c \in Hosts : m[c] # NoHostName}
SameNet(c, d) == c \in OtherNet <=> d \in OtherNet

(* The lines updateAllHosts writes for c: who has a meta.json and shares a *)
(* network with c, c itself included.                                      *)
NewLines(c) == {<<d, meta[d]>> : d \in {e \in WithMeta(meta) : SameNet(c, e)}}

(* A locked change of meta.json, after which updateAllHosts goes through   *)
(* the entries that have one.                                              *)
ChangeMeta(c, name) ==
  /\ ~hostsLock
  /\ hostsLock' = TRUE
  /\ meta' = [meta EXCEPT ![c] = name]
  /\ todo' = WithMeta(meta')
  /\ behind' = FALSE

-----------------------------------------------------------------------------
(* AllocHostsFile, in the creation of the container. *)
AllocHostsFile(c) ==
  /\ life[c] = "none" /\ ~hostsLock
  /\ life' = [life EXCEPT ![c] = "created"]
  /\ hostsDir' = [hostsDir EXCEPT ![c] = TRUE]
  /\ lines' = [lines EXCEPT ![c] = {}]
  /\ UNCHANGED <<meta, hostsLock, todo, behind>>

(* Acquire, in the createRuntime hook. *)
AcquireHosts(c, name) ==
  /\ life[c] \in {"created", "stopped"}
  /\ ChangeMeta(c, name)
  /\ life' = [life EXCEPT ![c] = "running"]
  /\ UNCHANGED <<hostsDir, lines>>

(* Mutant: the hosts files of the others are left for the next start. *)
ReleaseOnly(c) ==
  /\ life[c] = "running" /\ meta[c] # NoHostName
  /\ ~hostsLock
  /\ meta' = [meta EXCEPT ![c] = NoHostName]
  /\ life' = [life EXCEPT ![c] = "stopped"]
  /\ UNCHANGED <<hostsDir, lines, hostsLock, todo, behind>>

(* Release, in the postStop hook; the hosts file is kept for a restart. *)
ReleaseHosts(c) ==
  /\ life[c] = "running" /\ meta[c] # NoHostName
  /\ ChangeMeta(c, NoHostName)
  /\ life' = [life EXCEPT ![c] = "stopped"]
  /\ UNCHANGED <<hostsDir, lines>>

(* Update, in rename; without a meta.json it fails, which is logged. *)
UpdateHosts(c, name) ==
  /\ meta[c] # NoHostName
  /\ ChangeMeta(c, name)
  /\ UNCHANGED <<hostsDir, lines, life>>

(* One file of updateAllHosts. *)
WriteHosts(c) ==
  /\ hostsLock /\ c \in todo
  /\ todo' = todo \ {c}
  /\ \/ lines' = [lines EXCEPT ![c] = NewLines(c)] /\ UNCHANGED behind
     \/ behind' = TRUE /\ UNCHANGED lines  \* an error, which is logged
  /\ UNCHANGED <<hostsDir, meta, life, hostsLock>>

UnlockHosts ==
  /\ hostsLock /\ todo = {}
  /\ hostsLock' = FALSE
  /\ UNCHANGED <<hostsDir, meta, lines, life, todo, behind>>

DieHoldingHosts ==
  /\ hostsLock
  /\ hostsLock' = FALSE
  /\ todo' = {}
  /\ behind' = TRUE
  /\ UNCHANGED <<hostsDir, meta, lines, life>>

(* containerd or the host restarts: no postStop hook runs. *)
LoseTask(c) ==
  /\ life[c] = "running"
  /\ life' = [life EXCEPT ![c] = "stopped"]
  /\ UNCHANGED <<hostsDir, meta, lines, hostsLock, todo, behind>>

(* Delete, in rm: the directory goes, the files of the others stay. *)
DeleteHosts(c) ==
  /\ life[c] \in {"created", "stopped"} /\ ~hostsLock
  /\ life' = [life EXCEPT ![c] = "none"]
  /\ hostsDir' = [hostsDir EXCEPT ![c] = FALSE]
  /\ meta' = [meta EXCEPT ![c] = NoHostName]
  /\ lines' = [lines EXCEPT ![c] = {}]
  /\ behind' = (behind \/ meta[c] # NoHostName)
  /\ UNCHANGED <<hostsLock, todo>>

HostsNext ==
  \/ \E c \in Hosts :
       \/ AllocHostsFile(c) \/ LoseTask(c) \/ DeleteHosts(c)
       \/ \E n \in HostNames : AcquireHosts(c, n) \/ UpdateHosts(c, n)
       \/ ReleaseHosts(c) \/ WriteHosts(c)
  \/ UnlockHosts \/ DieHoldingHosts

HostsSpec == HostsInit /\ [][HostsNext]_hostsVars

-----------------------------------------------------------------------------
(* Between two operations the hosts file of a running container lists the  *)
(* containers of its networks under their current names, and no other      *)
(* (updateAllHosts); what spoiled it (a death, a write error, rm of a      *)
(* container whose postStop hook never ran) is made good by the next       *)
(* operation that goes through.                                            *)
HostsCurrent ==
  ~hostsLock /\ ~behind => \A c \in WithMeta(meta) : lines[c] = NewLines(c)
=============================================================================
