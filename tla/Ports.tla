------------------------------- MODULE Ports --------------------------------
(***************************************************************************)
(* The host ports of containers (pkg/portutil, pkg/netutil/networkstore):  *)
(* nerdctl create and run parse their -p flags one after the other, choose *)
(* a block of ports for a flag that names none, and store the result in    *)
(* network-config.json.  The ports are published when the container starts *)
(* and withdrawn when it stops, by the hooks.  Rootful mode, one protocol  *)
(* and one address; a mapping is reduced to its host port.                 *)
(***************************************************************************)
EXTENDS Parties, Naturals, FiniteSets, FiniteSetsExt

CONSTANTS FirstPort,  \* the initial allocateStart
          LastPort,   \* allocateEnd
          MaxCount,   \* bound on the container ports of one flag
          MaxFlags    \* bound on the flags of one command

ASSUME PortsAssumption ==
  /\ FirstPort \in Nat \ {0} /\ LastPort \in Nat /\ FirstPort <= LastPort
  /\ MaxCount \in Nat \ {0} /\ MaxFlags \in Nat \ {0}

HostPort == 1..(LastPort + MaxCount)

VARIABLES
  allocateStart, \* allocateStart[p]: the variable of that name in process p
  creating,      \* creating[p]: the container p is about to create, if any
  flags,         \* flags[p]: how many flags p has parsed
  wanted,        \* wanted[p]: how many ports it has asked for without naming them
  auto,          \* auto[p]: the ports it got for these
  mapped,        \* mapped[p]: PortMappings, the ports of all its flags
  netConf,       \* netConf[c]: network-config.json of container c
  created,       \* the containers that exist
  published,     \* those whose ports are published, by rules of iptables
  listening,     \* the ports other programs listen on
  sawUp          \* sawUp[x]: containers up at each choice of x (a history)

portVars == <<allocateStart, creating, flags, wanted, auto, mapped, netConf, created, published,
              listening, sawUp>>

Creating == UNION {creating[p] : p \in Clients}

PortsInit ==
  /\ allocateStart = [p \in Clients |-> FirstPort]
  /\ creating = [p \in Clients |-> {}]
  /\ flags = [p \in Clients |-> 0]
  /\ wanted = [p \in Clients |-> 0]
  /\ auto = [p \in Clients |-> {}]
  /\ mapped = [p \in Clients |-> {}]
  /\ netConf = [c \in Containers |-> {}]
  /\ created = {}
  /\ published = {}
  /\ listening = {}
  /\ sawUp = [c \in Containers |-> {}]

-----------------------------------------------------------------------------
(* What /proc/net and the nat table show: other programs, and the          *)
(* containers that are up, not those that are only created.                *)
getUsedPorts == listening \union UNION {netConf[c] : c \in published}

(* portAllocate tries blocks of count ports, one behind the other, and     *)
(* takes the first that is free; a start is below LastPort, an end need    *)
(* not be.                                                                 *)
Block(start, count) == start..(start + count - 1)
Starts(start, count) == {s \in start..LastPort : s < LastPort /\ (s - start) % count = 0}
FreeStarts(start, count) == {s \in Starts(start, count) : Block(s, count) \cap getUsedPorts = {}}

(* Mutant: a block steps by one port, and is only looked at in its first. *)
AllocateFirst(start, count) ==
  LET free == {s \in start..LastPort : s < LastPort /\ s \notin getUsedPorts}
  IN  IF count > LastPort + 1 - start \/ free = {}
      THEN [ok |-> FALSE, ports |-> {}, next |-> start]
      ELSE [ok |-> TRUE, ports |-> Block(Min(free), count), next |-> Min(free) + count]

(* Where allocateStart has passed the end the uint64 subtraction wraps,    *)
(* and then the loop finds no start: an error in either case.              *)
portAllocate(start, count) ==
  LET free == FreeStarts(start, count)
  IN  IF count > LastPort + 1 - start \/ free = {}
      THEN [ok |-> FALSE, ports |-> {}, next |-> start]
      ELSE [ok |-> TRUE, ports |-> Block(Min(free), count), next |-> Min(free) + count]

-----------------------------------------------------------------------------
(* A new process, with its own allocateStart. *)
CreateBegins(p, c) ==
  /\ creating[p] = {} /\ c \notin created \union Creating
  /\ creating' = [creating EXCEPT ![p] = {c}]
  /\ sawUp' = [sawUp EXCEPT ![c] = Containers]
  /\ UNCHANGED <<allocateStart, flags, wanted, auto, mapped, netConf, created, published, listening>>

CreateEnds(p) ==
  /\ creating' = [creating EXCEPT ![p] = {}]
  /\ allocateStart' = [allocateStart EXCEPT ![p] = FirstPort]
  /\ flags' = [flags EXCEPT ![p] = 0]
  /\ wanted' = [wanted EXCEPT ![p] = 0]
  /\ auto' = [auto EXCEPT ![p] = {}]
  /\ mapped' = [mapped EXCEPT ![p] = {}]

FlagParsed(p, c, ports) ==
  /\ flags' = [flags EXCEPT ![p] = @ + 1]
  /\ mapped' = [mapped EXCEPT ![p] = @ \union ports]
  /\ sawUp' = [sawUp EXCEPT ![c] = @ \cap published]

(* ParseFlagP without a host port; an error ends the command. *)
ParseAuto(p, c, count) ==
  /\ c \in creating[p] /\ flags[p] < MaxFlags
  /\ LET got == portAllocate(allocateStart[p], count)
     IN  \/ /\ got.ok
            /\ allocateStart' = [allocateStart EXCEPT ![p] = got.next]
            /\ wanted' = [wanted EXCEPT ![p] = @ + count]
            /\ auto' = [auto EXCEPT ![p] = @ \union got.ports]
            /\ FlagParsed(p, c, got.ports)
            /\ UNCHANGED creating
         \/ ~got.ok /\ CreateEnds(p) /\ UNCHANGED sawUp
  /\ UNCHANGED <<netConf, created, published, listening>>

(* ParseFlagP with host ports, which must not be in use. *)
ParseHost(p, c, first, count) ==
  /\ c \in creating[p] /\ flags[p] < MaxFlags
  /\ \/ /\ Block(first, count) \cap getUsedPorts = {}
        /\ FlagParsed(p, c, Block(first, count))
        /\ UNCHANGED <<allocateStart, wanted, auto, creating>>
     \/ /\ Block(first, count) \cap getUsedPorts # {}
        /\ CreateEnds(p) /\ UNCHANGED sawUp
  /\ UNCHANGED <<netConf, created, published, listening>>

(* NetworkStore.Acquire. *)
StoreNetworkConfig(p, c) ==
  /\ c \in creating[p] /\ flags[p] > 0
  /\ netConf' = [netConf EXCEPT ![c] = mapped[p]]
  /\ created' = created \union {c}
  /\ CreateEnds(p)
  /\ UNCHANGED <<published, listening, sawUp>>

(* createRuntime reads the mappings and hands them to CNI, which adds its  *)
(* rules whether or not another container has some for the same port.      *)
Publish(c) ==
  /\ c \in created \ published
  /\ published' = published \union {c}
  /\ UNCHANGED <<allocateStart, creating, flags, wanted, auto, mapped, netConf, created, listening, sawUp>>

Withdraw(c) ==
  /\ c \in published
  /\ published' = published \ {c}
  /\ UNCHANGED <<allocateStart, creating, flags, wanted, auto, mapped, netConf, created, listening, sawUp>>

(* rm removes a container that is down, with its directory. *)
RemovePorts(c) ==
  /\ c \in created \ published
  /\ created' = created \ {c}
  /\ netConf' = [netConf EXCEPT ![c] = {}]
  /\ sawUp' = [x \in Containers |-> IF x = c THEN {} ELSE sawUp[x] \ {c}]
  /\ UNCHANGED <<allocateStart, creating, flags, wanted, auto, mapped, published, listening>>

Listen(i) ==
  /\ listening' = (listening \union {i}) \ (listening \cap {i})
  /\ UNCHANGED <<allocateStart, creating, flags, wanted, auto, mapped, netConf, created, published, sawUp>>

PortsNext ==
  \/ \E p \in Clients, c \in Containers :
       \/ CreateBegins(p, c) \/ StoreNetworkConfig(p, c)
       \/ \E count \in 1..MaxCount : ParseAuto(p, c, count)
       \/ \E count \in 1..MaxCount : \E first \in FirstPort..(LastPort + 1 - count) : ParseHost(p, c, first, count)
  \/ \E c \in Containers : Publish(c) \/ Withdraw(c) \/ RemovePorts(c)
  \/ \E i \in FirstPort..LastPort : Listen(i)

PortsSpec == PortsInit /\ [][PortsNext]_portVars

-----------------------------------------------------------------------------
PortsTypeOK ==
  /\ allocateStart \in [Clients -> FirstPort..(LastPort + MaxCount)]
  /\ creating \in [Clients -> SUBSET Containers]
  /\ flags \in [Clients -> 0..MaxFlags]
  /\ wanted \in [Clients -> 0..(MaxFlags * MaxCount)]
  /\ auto \in [Clients -> SUBSET HostPort] /\ mapped \in [Clients -> SUBSET HostPort]
  /\ netConf \in [Containers -> SUBSET HostPort]
  /\ created \subseteq Containers /\ published \subseteq created
  /\ listening \subseteq FirstPort..LastPort
  /\ sawUp \in [Containers -> SUBSET Containers]

(* A host port that nerdctl gives out serves one container port of one     *)
(* container.  The flags of a command that name no host port get different *)
(* ports, although these are not in use yet, and a container shares none   *)
(* with one that was up all the time while its ports were chosen, whatever *)
(* both did since.  (getUsedPorts sees the rules of a container that is    *)
(* up.  One that was created or stopped is not seen, and its ports are     *)
(* given away.)                                                            *)
AutoDistinct == \A p \in Clients : Cardinality(auto[p]) = wanted[p]
PortsApart ==
  /\ AutoDistinct
  /\ \A x \in created : \A c \in (sawUp[x] \cap created) \ {x} : netConf[x] \cap netConf[c] = {}
=============================================================================
