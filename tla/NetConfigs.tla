----------------------------- MODULE NetConfigs -----------------------------
(***************************************************************************)
(* The CNI network configurations (pkg/netutil/netutil.go, store.go,       *)
(* subnet) as network create, rm and prune and the first use of the        *)
(* default network change them.  A configuration is the subnet of its      *)
(* network.  Reads and writes of the files are locked one by one, not a    *)
(* read together with the write it leads to.                               *)
(***************************************************************************)
EXTENDS Parties, Integers

CONSTANTS Networks, DefaultNetwork,
          NoSubnet,
          LastSubnet   \* GetFreeSubnet fails after this one

ASSUME NetworkAssumption == DefaultNetwork \in Networks
ASSUME SubnetAssumption == LastSubnet \in Nat /\ NoSubnet \notin Nat

DefaultCIDR == 0
StartingCIDR == 1
Subnets == DefaultCIDR .. LastSubnet

VARIABLES
  conf,    \* conf[n]: the subnet in n's file, NoSubnet without a file
  npc,     \* npc[p]: the next step of the command of p
  nnet,    \* nnet[p]: its network
  subnet,  \* subnet[p]: the subnet it has chosen
  stale,   \* a history: the clients that chose before somebody else wrote
  raced    \* a history: the networks written on such a choice

netVars == <<conf, npc, nnet, subnet, stale, raced>>

NetTypeOK ==
  /\ conf \in [Networks -> Subnets \union {NoSubnet}]
  /\ npc \in [Clients -> {"idle", "fsExists", "networkMap", "parseSubnet", "fsWrite", "fsRemove"}]
  /\ nnet \in [Clients -> Networks]
  /\ subnet \in [Clients -> Subnets \union {NoSubnet}]
  /\ stale \in SUBSET Clients
  /\ raced \in SUBSET Networks

NetInit ==
  /\ conf = [n \in Networks |-> NoSubnet]
  /\ npc = [p \in Clients |-> "idle"]
  /\ nnet = [p \in Clients |-> DefaultNetwork]
  /\ subnet = [p \in Clients |-> NoSubnet]
  /\ stale = {}
  /\ raced = {}

NGo(p, l) == npc' = [npc EXCEPT ![p] = l] /\ UNCHANGED <<nnet, subnet>>
NEnd(p) ==
  /\ npc' = [npc EXCEPT ![p] = "idle"]
  /\ nnet' = [nnet EXCEPT ![p] = DefaultNetwork]
  /\ subnet' = [subnet EXCEPT ![p] = NoSubnet]

Exists(n) == conf[n] # NoSubnet
UsedSubnets == {conf[n] : n \in {m \in Networks : Exists(m)}}

-----------------------------------------------------------------------------
(* ensureDefaultNetworkConfig, in every command that needs a network. *)
EnsureDefault(p) ==
  /\ npc[p] = "idle" /\ ~Exists(DefaultNetwork)
  /\ NGo(p, "fsExists")
  /\ UNCHANGED <<conf, stale, raced>>

(* createDefaultNetworkConfig fails when the file has appeared. *)
CreateDefault(p) ==
  /\ npc[p] = "fsExists"
  /\ IF Exists(DefaultNetwork) THEN NEnd(p) ELSE NGo(p, "networkMap")
  /\ UNCHANGED <<conf, stale, raced>>

NetworkCreate(p, n) ==
  /\ npc[p] = "idle" /\ n # DefaultNetwork
  /\ npc' = [npc EXCEPT ![p] = "networkMap"]
  /\ nnet' = [nnet EXCEPT ![p] = n]
  /\ UNCHANGED <<conf, subnet, stale, raced>>

(* CreateNetwork: "more a perf optimization ... than a true check". *)
NetworkMap(p) ==
  /\ npc[p] = "networkMap"
  /\ IF Exists(nnet[p]) THEN NEnd(p) ELSE NGo(p, "parseSubnet")
  /\ UNCHANGED <<conf, stale, raced>>

(* Mutant: only the default network's subnet is taken into account. *)
FreeSubnetsOfOne(n) ==
  IF n = DefaultNetwork THEN {DefaultCIDR} ELSE (StartingCIDR .. LastSubnet)

(* Mutant: the search goes one subnet too far. *)
FreeSubnetsPastLast(n) ==
  (IF n = DefaultNetwork THEN {DefaultCIDR} ELSE (StartingCIDR .. LastSubnet + 1)) \ UsedSubnets

(* GetFreeSubnet goes up from StartingCIDR; the default network's subnet   *)
(* is given, and must not overlap.                                         *)
FreeSubnets(n) ==
  (IF n = DefaultNetwork THEN {DefaultCIDR} ELSE (StartingCIDR .. LastSubnet)) \ UsedSubnets

ParseSubnet(p) ==
  /\ npc[p] = "parseSubnet"
  /\ \/ /\ FreeSubnets(nnet[p]) = {}
        /\ NEnd(p)
        /\ UNCHANGED stale
     \/ \E s \in FreeSubnets(nnet[p]) :
        /\ \A r \in FreeSubnets(nnet[p]) : s <= r
        /\ subnet' = [subnet EXCEPT ![p] = s]
        /\ npc' = [npc EXCEPT ![p] = "fsWrite"]
        /\ stale' = stale \ {p}
        /\ UNCHANGED nnet
  /\ UNCHANGED <<conf, raced>>

(* fsWrite keeps a file that is already there, and CreateNetwork reports   *)
(* success.                                                                *)
FsWrite(p) ==
  LET n == nnet[p] IN
  /\ npc[p] = "fsWrite"
  /\ \/ /\ ~Exists(n)
        /\ conf' = [conf EXCEPT ![n] = subnet[p]]
        /\ stale' = Clients \ {p}
        /\ raced' = IF p \in stale THEN raced \union {n} ELSE raced \ {n}
     \/ Exists(n) /\ UNCHANGED <<conf, stale, raced>>
  /\ NEnd(p)

(* rm and prune: UsedNetworks first, the removal later; whether containers *)
(* use the network, and it is spared, is left open.                        *)
NetworkRm(p, n) ==
  /\ npc[p] = "idle" /\ Exists(n)
  /\ n # DefaultNetwork
  /\ npc' = [npc EXCEPT ![p] = "fsRemove"]
  /\ nnet' = [nnet EXCEPT ![p] = n]
  /\ UNCHANGED <<conf, subnet, stale, raced>>

FsRemove(p) ==
  /\ npc[p] = "fsRemove"
  /\ conf' = [conf EXCEPT ![nnet[p]] = NoSubnet]
  /\ NEnd(p)
  /\ UNCHANGED <<stale, raced>>

NetNext ==
  \E p \in Clients :
    \/ EnsureDefault(p) \/ CreateDefault(p) \/ NetworkMap(p) \/ ParseSubnet(p)
    \/ FsWrite(p) \/ FsRemove(p)
    \/ \E n \in Networks : NetworkCreate(p, n) \/ NetworkRm(p, n)

NetSpec == NetInit /\ [][NetNext]_netVars

-----------------------------------------------------------------------------
(* Two networks have different subnets, unless one of them was created     *)
(* while another configuration was written between its choice of a subnet  *)
(* and its own write (parseSubnet, fsWrite).                               *)
SubnetsDistinct ==
  \A m, n \in Networks : m # n /\ Exists(m) /\ conf[m] = conf[n] => {m, n} \cap raced # {}
=============================================================================
