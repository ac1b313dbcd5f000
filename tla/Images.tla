------------------------------- MODULE Images -------------------------------
(***************************************************************************)
(* Image records and the containers that use them: nerdctl pull, tag, rmi, *)
(* image prune and the image of a new container (pkg/cmd/image,            *)
(* pkg/imgutil, pkg/idutil/imagewalker, pkg/cmd/container/create.go).      *)
(*                                                                         *)
(* containerd keeps the records, one digest for each name; a deletion      *)
(* frees what no record refers to.  Each call on containerd is one step,   *)
(* and nerdctl takes no lock.  Names are references, with a tag or without *)
(* (name@digest); "<none>" is the name ":" that rmi --force gives to an    *)
(* image that is in use.                                                   *)
(***************************************************************************)
EXTENDS Parties, Naturals, FiniteSets

CONSTANTS ImageUsers,  \* the containers
          ImageNames,  \* the references
          Untagged,    \* those of them without a tag
          Digests, NoDigest

ASSUME ImagesAssumption ==
  /\ Untagged \subseteq ImageNames
  /\ NoDigest \notin Digests /\ "<none>" \notin ImageNames
  /\ ImageNames # {} /\ Digests # {}

AllNames == ImageNames \union {"<none>"}
AnImage == CHOOSE n \in ImageNames : TRUE   \* in the place of a name that is not known yet
Record == [name : AllNames, digest : Digests \union {NoDigest}]

VARIABLES
  image,    \* image[n]: the digest of the record with name n
  uses,     \* uses[c]: the name in the record of container c, or {}
  up,       \* the containers that run
  ipc,      \* ipc[p]: the next step of the command of p
  force,    \* force[p]: --force
  inUse,    \* inUse[p]: usedImages
  running,  \* running[p]: runningImages
  matches,     \* matches[p]: the records that p has found and not yet dealt with
  held,     \* held[p]: the record that p works on
  throughout \* throughout[p]: containers with their image since p began (a history)

imageVars == <<image, uses, up, ipc, force, inUse, running, matches, held, throughout>>

ImageSteps == {"idle", "create", "rmi", "found", "keep", "pruneList", "prune", "dangling",
               "tag", "tagOver", "tagAgain"}
NoRecord == [name |-> AnImage, digest |-> NoDigest]

ImagesInit ==
  /\ image = [n \in AllNames |-> NoDigest]
  /\ uses = [c \in ImageUsers |-> {}]
  /\ up = {}
  /\ ipc = [p \in Clients |-> "idle"]
  /\ force = [p \in Clients |-> FALSE]
  /\ inUse = [p \in Clients |-> {}]
  /\ running = [p \in Clients |-> {}]
  /\ matches = [p \in Clients |-> {}]
  /\ held = [p \in Clients |-> NoRecord]
  /\ throughout = [p \in Clients |-> {}]

HasRecord(n) == image[n] # NoDigest
Referenced(d) == \E n \in AllNames : image[n] = d
Found(names) == {[name |-> n, digest |-> image[n]] : n \in {x \in names : HasRecord(x)}}
HasImage(c) == \E n \in uses[c] : HasRecord(n)

ItGoes(p, l) == ipc' = [ipc EXCEPT ![p] = l]

(* The history follows a change of the records: who has no image any more  *)
(* does not count.                                                         *)
Reckon == throughout' = [p \in Clients |-> {c \in throughout[p] : \E n \in uses'[c] : image'[n] # NoDigest}]

(* A command of p that ends forgets what it knew. *)
ImageCommandEnds(p) ==
  /\ ItGoes(p, "idle")
  /\ force' = [force EXCEPT ![p] = FALSE]
  /\ inUse' = [inUse EXCEPT ![p] = {}]
  /\ running' = [running EXCEPT ![p] = {}]
  /\ matches' = [matches EXCEPT ![p] = {}]
  /\ held' = [held EXCEPT ![p] = NoRecord]
  /\ throughout' = [throughout EXCEPT ![p] = {}]

-----------------------------------------------------------------------------
(* Pull, and a commit or a build: the name gets a digest, old or new. *)
PullImage(n, d) ==
  /\ image' = [image EXCEPT ![n] = d]
  /\ UNCHANGED <<uses, up, ipc, force, inUse, running, matches, held, throughout>>

(* create with an image that is there; the record is made later. *)
EnsureImage(p, n) ==
  /\ ipc[p] = "idle" /\ HasRecord(n)
  /\ held' = [held EXCEPT ![p] = [name |-> n, digest |-> image[n]]]
  /\ ItGoes(p, "create")
  /\ UNCHANGED <<image, uses, up, force, inUse, running, matches, throughout>>

(* NewContainer fails when the content is gone, and an asynchronous        *)
(* deletion may not have freed it yet.                                     *)
NewContainer(p, c) ==
  /\ ipc[p] = "create" /\ uses[c] = {}
  /\ \/ uses' = [uses EXCEPT ![c] = {held[p].name}]
     \/ ~Referenced(held[p].digest) /\ UNCHANGED uses
  /\ ImageCommandEnds(p)
  /\ UNCHANGED <<image, up>>

StartStops(c) ==
  /\ uses[c] # {}
  /\ up' = (up \union {c}) \ (up \cap {c})
  /\ UNCHANGED <<image, uses, ipc, force, inUse, running, matches, held, throughout>>

RemoveUser(c) ==
  /\ uses[c] # {} /\ c \notin up
  /\ uses' = [uses EXCEPT ![c] = {}]
  /\ throughout' = [p \in Clients |-> throughout[p] \ {c}]
  /\ UNCHANGED <<image, up, ipc, force, inUse, running, matches, held>>

-----------------------------------------------------------------------------
(* Mutant: only the containers that run count. *)
RemoveIgnoresStopped(p, f) ==
  /\ ipc[p] = "idle"
  /\ force' = [force EXCEPT ![p] = f]
  /\ running' = [running EXCEPT ![p] = UNION {uses[c] : c \in {x \in up : HasImage(x)}}]
  /\ throughout' = [throughout EXCEPT ![p] = {c \in ImageUsers : HasImage(c)}]
  /\ ItGoes(p, "rmi")
  /\ UNCHANGED <<image, uses, up, inUse, matches, held>>

(* Remove lists the containers once, for all its arguments. *)
Remove(p, f) ==
  /\ ipc[p] = "idle"
  /\ force' = [force EXCEPT ![p] = f]
  /\ running' = [running EXCEPT ![p] = UNION {uses[c] : c \in {x \in up : HasImage(x)}}]
  /\ inUse' = [inUse EXCEPT ![p] = UNION {uses[c] : c \in {x \in ImageUsers \ up : HasImage(x)}}]
  /\ throughout' = [throughout EXCEPT ![p] = {c \in ImageUsers : HasImage(c)}]
  /\ ItGoes(p, "rmi")
  /\ UNCHANGED <<image, uses, up, matches, held>>

(* Walk: an argument is a name or the ID of an image, which several        *)
(* records may have; these are removed together only with --force.         *)
WalkFinds(p, found, byName) ==
  /\ ipc[p] = "rmi"
  /\ IF byName \/ Cardinality(found) <= 1 \/ force[p]
     THEN matches' = [matches EXCEPT ![p] = found] /\ ItGoes(p, "found")
     ELSE UNCHANGED <<matches, ipc>>
  /\ UNCHANGED <<image, uses, up, force, inUse, running, held, throughout>>

Walk(p) ==
  \/ \E n \in ImageNames : WalkFinds(p, Found({n}), TRUE)
  \/ \E d \in Digests : WalkFinds(p, Found({n \in AllNames : image[n] = d}), FALSE)

RemoveReturns(p) ==
  /\ ipc[p] = "rmi"
  /\ ImageCommandEnds(p)
  /\ UNCHANGED <<image, uses, up>>

(* imageStore.Delete, which fails when there is no such record. *)
DeleteRecord(n) == image' = [image EXCEPT ![n] = NoDigest] /\ UNCHANGED uses /\ Reckon

(* An error ends the walk of this argument. *)
WalkEnds(p) == matches' = [matches EXCEPT ![p] = {}] /\ ItGoes(p, "rmi")

(* OnFound for a record that no listed container stands in the way of. *)
OnFoundDelete(p, r) ==
  /\ ipc[p] = "found" /\ r \in matches[p]
  /\ r.name \notin running[p]
  /\ r.name \in inUse[p] => force[p]
  /\ \/ /\ HasRecord(r.name) /\ DeleteRecord(r.name)
        /\ matches' = [matches EXCEPT ![p] = @ \ {r}]
        /\ UNCHANGED ipc
     \/ ~HasRecord(r.name) /\ WalkEnds(p) /\ UNCHANGED <<image, uses, throughout>>
  /\ UNCHANGED <<up, force, inUse, running, held>>

OnFoundConflict(p, r) ==
  /\ ipc[p] = "found" /\ r \in matches[p] /\ ~force[p]
  /\ r.name \in running[p] \union inUse[p]
  /\ WalkEnds(p)
  /\ UNCHANGED <<image, uses, up, force, inUse, running, held, throughout>>

(* OnFound with --force for an image of a running container: a record ":"  *)
(* keeps the content, if there is none yet, and then the name goes.        *)
OnFoundKeep(p, r) ==
  /\ ipc[p] = "found" /\ r \in matches[p] /\ force[p] /\ r.name \in running[p]
  /\ \/ /\ ~HasRecord("<none>")
        /\ image' = [image EXCEPT !["<none>"] = r.digest]
        /\ held' = [held EXCEPT ![p] = r]
        /\ ItGoes(p, "keep") /\ UNCHANGED matches
     \/ HasRecord("<none>") /\ WalkEnds(p) /\ UNCHANGED <<image, held>>
  /\ UNCHANGED <<uses, up, force, inUse, running, throughout>>

KeptDelete(p) ==
  /\ ipc[p] = "keep"
  /\ \/ /\ HasRecord(held[p].name) /\ DeleteRecord(held[p].name)
        /\ matches' = [matches EXCEPT ![p] = @ \ {held[p]}]
        /\ ItGoes(p, "found")
     \/ ~HasRecord(held[p].name) /\ WalkEnds(p) /\ UNCHANGED <<image, uses, throughout>>
  /\ held' = [held EXCEPT ![p] = NoRecord]
  /\ UNCHANGED <<up, force, inUse, running>>

WalkDone(p) ==
  /\ ipc[p] = "found" /\ matches[p] = {}
  /\ ItGoes(p, "rmi")
  /\ UNCHANGED <<image, uses, up, force, inUse, running, matches, held, throughout>>

-----------------------------------------------------------------------------
(* Prune without --all: GetDanglingImages takes the records without a tag, *)
(* and does not look at containers.                                        *)
PruneDangling(p) ==
  /\ ipc[p] = "idle"
  /\ matches' = [matches EXCEPT ![p] = Found(Untagged \union {"<none>"})]
  /\ throughout' = [throughout EXCEPT ![p] = {c \in ImageUsers : HasImage(c)}]
  /\ ItGoes(p, "dangling")
  /\ UNCHANGED <<image, uses, up, force, inUse, running, held>>

(* Prune with --all: GetUnusedImages lists the containers, then the images. *)
PruneAll(p) ==
  /\ ipc[p] = "idle"
  /\ inUse' = [inUse EXCEPT ![p] = UNION {uses[c] : c \in ImageUsers}]
  /\ throughout' = [throughout EXCEPT ![p] = {c \in ImageUsers : HasImage(c)}]
  /\ ItGoes(p, "pruneList")
  /\ UNCHANGED <<image, uses, up, force, running, matches, held>>

GetUnusedImages(p) ==
  /\ ipc[p] = "pruneList"
  /\ matches' = [matches EXCEPT ![p] = Found(AllNames \ inUse[p])]
  /\ ItGoes(p, "prune")
  /\ UNCHANGED <<image, uses, up, force, inUse, running, held, throughout>>

(* An image that cannot be deleted is skipped. *)
PruneOne(p, r) ==
  /\ ipc[p] \in {"prune", "dangling"} /\ r \in matches[p]
  /\ DeleteRecord(r.name)
  /\ matches' = [matches EXCEPT ![p] = @ \ {r}]
  /\ UNCHANGED <<up, ipc, force, inUse, running, held>>

PruneReturns(p) ==
  /\ ipc[p] \in {"prune", "dangling"} /\ matches[p] = {}
  /\ ImageCommandEnds(p)
  /\ UNCHANGED <<image, uses, up>>

-----------------------------------------------------------------------------
(* Tag reads the source and creates the target; if there is one, it is     *)
(* deleted, and created in a second try.                                   *)
TagGet(p, src, target) ==
  /\ ipc[p] = "idle" /\ HasRecord(src)
  /\ held' = [held EXCEPT ![p] = [name |-> target, digest |-> image[src]]]
  /\ ItGoes(p, "tag")
  /\ UNCHANGED <<image, uses, up, force, inUse, running, matches, throughout>>

TagCreate(p) ==
  /\ ipc[p] \in {"tag", "tagAgain"}
  /\ \/ /\ ~HasRecord(held[p].name)
        /\ image' = [image EXCEPT ![held[p].name] = held[p].digest]
        /\ ImageCommandEnds(p)
     \/ /\ HasRecord(held[p].name) /\ ipc[p] = "tag" /\ ItGoes(p, "tagOver")
        /\ UNCHANGED <<image, force, inUse, running, matches, held, throughout>>
     \/ HasRecord(held[p].name) /\ ipc[p] = "tagAgain" /\ ImageCommandEnds(p) /\ UNCHANGED image
  /\ UNCHANGED <<uses, up>>

TagDelete(p) ==
  /\ ipc[p] = "tagOver"
  /\ \/ /\ HasRecord(held[p].name) /\ DeleteRecord(held[p].name)
        /\ ItGoes(p, "tagAgain")
        /\ UNCHANGED <<force, inUse, running, matches, held>>
     \/ ~HasRecord(held[p].name) /\ ImageCommandEnds(p) /\ UNCHANGED <<image, uses>>
  /\ UNCHANGED up

Rmi(p) ==
  \/ (\E f \in BOOLEAN : Remove(p, f)) \/ Walk(p) \/ RemoveReturns(p) \/ KeptDelete(p) \/ WalkDone(p)
  \/ \E r \in matches[p] : OnFoundDelete(p, r) \/ OnFoundConflict(p, r) \/ OnFoundKeep(p, r)

PruneStep(p) ==
  PruneDangling(p) \/ PruneAll(p) \/ GetUnusedImages(p) \/ PruneReturns(p) \/ \E r \in matches[p] : PruneOne(p, r)

TagStep(p) == (\E src, target \in ImageNames : TagGet(p, src, target)) \/ TagCreate(p) \/ TagDelete(p)

CreateStep(p) == (\E n \in ImageNames : EnsureImage(p, n)) \/ \E c \in ImageUsers : NewContainer(p, c)

ImagesNext ==
  \/ \E p \in Clients : Rmi(p) \/ PruneStep(p) \/ TagStep(p) \/ CreateStep(p)
  \/ \E c \in ImageUsers : StartStops(c) \/ RemoveUser(c)
  \/ \E n \in ImageNames, d \in Digests : PullImage(n, d)

ImagesSpec == ImagesInit /\ [][ImagesNext]_imageVars

-----------------------------------------------------------------------------
ImagesTypeOK ==
  /\ image \in [AllNames -> Digests \union {NoDigest}]
  /\ uses \in [ImageUsers -> SUBSET ImageNames]
  /\ up \subseteq {c \in ImageUsers : uses[c] # {}}
  /\ ipc \in [Clients -> ImageSteps]
  /\ force \in [Clients -> BOOLEAN]
  /\ inUse \in [Clients -> SUBSET ImageNames] /\ running \in [Clients -> SUBSET ImageNames]
  /\ matches \in [Clients -> SUBSET Record] /\ held \in [Clients -> Record]
  /\ throughout \in [Clients -> SUBSET ImageUsers]

(* rmi without --force, and image prune --all, remove no image of a        *)
(* container that had it all the time since the command began, whatever    *)
(* other commands did meanwhile: "conflict: unable to delete".  (Remove    *)
(* and GetUnusedImages list the containers before they look at the         *)
(* images.)  image prune without --all does the same for tagged images     *)
(* only: it takes every record without a tag, also one that a container    *)
(* was created from, and that is excepted here.                            *)
Removes(p, n) ==
  /\ HasRecord(n) /\ image'[n] = NoDigest
  /\ ipc[p] \in {"found", "keep", "prune", "dangling"} /\ matches'[p] # matches[p]
UsedKept ==
  [][\A p \in Clients, n \in AllNames :
       Removes(p, n) /\ ~force[p] /\ (ipc[p] = "dangling" => n \notin Untagged) =>
         \A c \in throughout[p] : n \notin uses[c]]_imageVars
=============================================================================
