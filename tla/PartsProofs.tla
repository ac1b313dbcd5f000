----------------------------- MODULE PartsProofs ----------------------------
(***************************************************************************)
(* Proofs about Images and EcrTokens, and about MCParts, in which each     *)
(* part behaves as its own specification, so that what TaskProofs,         *)
(* StoreProofs and this module prove of each holds of them side by side.   *)
(***************************************************************************)
EXTENDS MCParts, TaskProofs, StoreProofs

-----------------------------------------------------------------------------
(* Images.                                                                 *)

(* Before a listing and after the end of a command nobody counts; the name *)
(* that a creation works with is of an image; only --force keeps content.  *)
ImageStageInv ==
  /\ \A p \in Clients : ipc[p] \in {"idle", "create", "tag", "tagOver", "tagAgain"} => throughout[p] = {}
  /\ \A p \in Clients : ipc[p] = "create" => held[p].name \in ImageNames
  /\ \A p \in Clients : ipc[p] = "keep" => force[p]

(* The containers that count have an image, and it is on the list, if the  *)
(* command has made one.                                                   *)
ListInv ==
  \A p \in Clients : \A c \in throughout[p] :
    /\ uses[c] # {}
    /\ ipc[p] # "dangling" => uses[c] \subseteq inUse[p] \union running[p]
    /\ ipc[p] \in {"pruneList", "prune"} => uses[c] \subseteq inUse[p]

(* What prune --all has found is not on it, and what prune alone has found *)
(* has no tag.                                                             *)
UnusedInv ==
  /\ \A p \in Clients : ipc[p] = "prune" => \A r \in matches[p] : \A c \in throughout[p] : r.name \notin uses[c]
  /\ \A p \in Clients : ipc[p] = "dangling" => \A r \in matches[p] : r.name \in Untagged \union {"<none>"}

ImagesInv == ImagesTypeOK /\ ImageStageInv /\ ListInv /\ UnusedInv

(* Records, and the names in them. *)
LEMMA RecordFacts ==
  /\ NoRecord \in Record /\ ImageNames \subseteq AllNames /\ "<none>" \in AllNames /\ AnImage \in ImageNames
  /\ \A r \in Record : r.name \in AllNames /\ r.digest \in Digests \union {NoDigest}
  /\ \A n \in AllNames, d \in Digests \union {NoDigest} :
       [name |-> n, digest |-> d] \in Record /\ [name |-> n, digest |-> d].name = n
<1>1. AnImage \in ImageNames
  BY ImagesAssumption DEF AnImage
<1> QED BY <1>1 DEF NoRecord, Record, AllNames

(* What a search finds are records with the names that were looked for. *)
LEMMA FoundFacts ==
  ASSUME ImagesTypeOK, NEW N \in SUBSET AllNames
  PROVE  Found(N) \in SUBSET Record /\ \A r \in Found(N) : r.name \in N
<1>1. \A n \in N : image[n] \in Digests \union {NoDigest}
  BY DEF ImagesTypeOK
<1> QED BY <1>1, RecordFacts DEF Found

(* A command ends, and forgets what it knew. *)
LEMMA EndsFacts ==
  ASSUME ImagesTypeOK, NEW p \in Clients, ImageCommandEnds(p)
  PROVE  /\ ipc' \in [Clients -> ImageSteps] /\ force' \in [Clients -> BOOLEAN]
         /\ inUse' \in [Clients -> SUBSET ImageNames] /\ running' \in [Clients -> SUBSET ImageNames]
         /\ matches' \in [Clients -> SUBSET Record] /\ held' \in [Clients -> Record]
         /\ throughout' \in [Clients -> SUBSET ImageUsers]
         /\ ipc'[p] = "idle" /\ throughout'[p] = {}
         /\ \A q \in Clients \ {p} :
              /\ ipc'[q] = ipc[q] /\ inUse'[q] = inUse[q] /\ running'[q] = running[q]
              /\ matches'[q] = matches[q] /\ throughout'[q] = throughout[q]
BY RecordFacts DEF ImagesTypeOK, ImageCommandEnds, ItGoes, ImageSteps

(* A pull changes one digest. *)
LEMMA PullImageKept ==
  ASSUME ImagesInv, NEW n \in ImageNames, NEW d \in Digests, PullImage(n, d) PROVE ImagesInv'
<1> USE RecordFacts, ImagesAssumption DEF ImagesInv, ImagesTypeOK
<1>1. ImagesTypeOK'
  BY DEF ImageSteps, ImageStageInv, PullImage
<1>2. ImageStageInv'
  BY DEF ImageStageInv, ImageSteps, PullImage
<1>3. ListInv'
  BY DEF ListInv, ImageStageInv, PullImage
<1>4. UnusedInv'
  BY DEF UnusedInv, ListInv, ImageStageInv, PullImage
<1> QED BY <1>1, <1>2, <1>3, <1>4 DEF ImagesInv

(* A creation has its image. *)
LEMMA EnsureImageKept ==
  ASSUME ImagesInv, NEW p \in Clients, NEW n \in ImageNames, EnsureImage(p, n) PROVE ImagesInv'
<1> USE RecordFacts, ImagesAssumption DEF ImagesInv, ImagesTypeOK
<1>1. ImagesTypeOK'
  BY DEF ImageSteps, ImageStageInv, EnsureImage, ItGoes
<1>2. ImageStageInv'
  BY DEF ImageStageInv, ImageSteps, EnsureImage, ItGoes
<1>3. ListInv'
  BY DEF ListInv, ImageStageInv, EnsureImage, ItGoes
<1>4. UnusedInv'
  BY DEF UnusedInv, ListInv, ImageStageInv, EnsureImage, ItGoes
<1> QED BY <1>1, <1>2, <1>3, <1>4 DEF ImagesInv

(* The container is new, so it has been on no list. *)
LEMMA NewContainerKept ==
  ASSUME ImagesInv, NEW p \in Clients, NEW c \in ImageUsers, NewContainer(p, c) PROVE ImagesInv'
<1> USE RecordFacts, ImagesAssumption DEF ImagesInv, ImagesTypeOK
<1>1. ImagesTypeOK'
  <2>1. held[p].name \in ImageNames
    BY DEF ImageStageInv, NewContainer
  <2>2. uses' \in [ImageUsers -> SUBSET ImageNames] /\ \A x \in ImageUsers : uses[x] # {} => uses'[x] # {}
    BY <2>1 DEF NewContainer
  <2>3. image' = image /\ up' = up /\ ImageCommandEnds(p)
    BY DEF NewContainer
  <2> QED BY <2>2, <2>3, EndsFacts
<1>2. ImageStageInv'
  BY DEF ImageStageInv, ImageSteps, NewContainer, ImageCommandEnds, ItGoes
<1>3. ListInv'
  BY DEF ListInv, ImageStageInv, NewContainer, ImageCommandEnds, ItGoes
<1>4. UnusedInv'
  <2>1. ImageCommandEnds(p) /\ \A x \in ImageUsers : uses'[x] = uses[x] \/ uses[x] = {}
    BY DEF NewContainer
  <2>2. /\ ipc'[p] = "idle"
        /\ \A q \in Clients \ {p} : ipc'[q] = ipc[q] /\ matches'[q] = matches[q] /\ throughout'[q] = throughout[q]
    BY <2>1, EndsFacts
  <2>3. ASSUME NEW q \in Clients, ipc'[q] = "prune", NEW r \in matches'[q], NEW x \in throughout'[q]
        PROVE  r.name \notin uses'[x]
    <3>1. q # p
      BY <2>2, <2>3
    <3>2. ipc[q] = "prune" /\ r \in matches[q] /\ x \in throughout[q] /\ x \in ImageUsers
      BY <2>2, <2>3, <3>1
    <3>3. uses'[x] = uses[x]
      BY <2>1, <3>2 DEF ListInv
    <3> QED BY <3>2, <3>3 DEF UnusedInv
  <2>4. ASSUME NEW q \in Clients, ipc'[q] = "dangling", NEW r \in matches'[q]
        PROVE  r.name \in Untagged \union {"<none>"}
    BY <2>2, <2>4 DEF UnusedInv
  <2> QED BY <2>3, <2>4 DEF UnusedInv
<1> QED BY <1>1, <1>2, <1>3, <1>4 DEF ImagesInv

(* A container starts or stops. *)
LEMMA StartStopsKept == ASSUME ImagesInv, NEW c \in ImageUsers, StartStops(c) PROVE ImagesInv'
<1> USE RecordFacts, ImagesAssumption DEF ImagesInv, ImagesTypeOK
<1>1. ImagesTypeOK'
  BY DEF ImageSteps, ImageStageInv, StartStops
<1>2. ImageStageInv'
  BY DEF ImageStageInv, ImageSteps, StartStops
<1>3. ListInv'
  BY DEF ListInv, ImageStageInv, StartStops
<1>4. UnusedInv'
  BY DEF UnusedInv, ListInv, ImageStageInv, StartStops
<1> QED BY <1>1, <1>2, <1>3, <1>4 DEF ImagesInv

(* A container is removed, and counts no more. *)
LEMMA RemoveUserKept == ASSUME ImagesInv, NEW c \in ImageUsers, RemoveUser(c) PROVE ImagesInv'
<1> USE RecordFacts, ImagesAssumption DEF ImagesInv, ImagesTypeOK
<1>1. ImagesTypeOK'
  BY DEF ImageSteps, ImageStageInv, RemoveUser
<1>2. ImageStageInv'
  BY DEF ImageStageInv, ImageSteps, RemoveUser
<1>3. ListInv'
  BY DEF ListInv, ImageStageInv, RemoveUser
<1>4. UnusedInv'
  BY DEF UnusedInv, ListInv, ImageStageInv, RemoveUser
<1> QED BY <1>1, <1>2, <1>3, <1>4 DEF ImagesInv

(* rmi lists the containers, running or not. *)
LEMMA RemoveKept ==
  ASSUME ImagesInv, NEW p \in Clients, NEW f \in BOOLEAN, Remove(p, f) PROVE ImagesInv'
<1> USE RecordFacts, ImagesAssumption DEF ImagesInv, ImagesTypeOK
<1>1. ImagesTypeOK'
  BY DEF ImageSteps, ImageStageInv, Remove, ItGoes, HasImage
<1>2. ImageStageInv'
  BY DEF ImageStageInv, ImageSteps, Remove, ItGoes, HasImage
<1>3. ListInv'
  BY DEF ListInv, ImageStageInv, Remove, ItGoes, HasImage
<1>4. UnusedInv'
  BY DEF UnusedInv, ListInv, ImageStageInv, Remove, ItGoes, HasImage
<1> QED BY <1>1, <1>2, <1>3, <1>4 DEF ImagesInv

(* It looks for the records. *)
LEMMA WalkFindsKept ==
  ASSUME ImagesInv, NEW p \in Clients, NEW found \in SUBSET Record, NEW byName, WalkFinds(p, found, byName)
  PROVE  ImagesInv'
<1> USE RecordFacts, ImagesAssumption DEF ImagesInv, ImagesTypeOK
<1>1. ImagesTypeOK'
  BY DEF ImageSteps, ImageStageInv, WalkFinds, ItGoes
<1>2. ImageStageInv'
  BY DEF ImageStageInv, ImageSteps, WalkFinds, ItGoes
<1>3. ListInv'
  BY DEF ListInv, ImageStageInv, WalkFinds, ItGoes
<1>4. UnusedInv'
  BY DEF UnusedInv, ListInv, ImageStageInv, WalkFinds, ItGoes
<1> QED BY <1>1, <1>2, <1>3, <1>4 DEF ImagesInv

(* rmi returns. *)
LEMMA RemoveReturnsKept == ASSUME ImagesInv, NEW p \in Clients, RemoveReturns(p) PROVE ImagesInv'
<1> USE RecordFacts, ImagesAssumption DEF ImagesInv, ImagesTypeOK
<1>1. ImagesTypeOK'
  BY DEF ImageSteps, ImageStageInv, RemoveReturns, ImageCommandEnds, ItGoes
<1>2. ImageStageInv'
  BY DEF ImageStageInv, ImageSteps, RemoveReturns, ImageCommandEnds, ItGoes
<1>3. ListInv'
  BY DEF ListInv, ImageStageInv, RemoveReturns, ImageCommandEnds, ItGoes
<1>4. UnusedInv'
  BY DEF UnusedInv, ListInv, ImageStageInv, RemoveReturns, ImageCommandEnds, ItGoes
<1> QED BY <1>1, <1>2, <1>3, <1>4 DEF ImagesInv

(* It deletes a record. *)
LEMMA OnFoundDeleteKept ==
  ASSUME ImagesInv, NEW p \in Clients, NEW r \in matches[p], OnFoundDelete(p, r) PROVE ImagesInv'
<1> USE RecordFacts, ImagesAssumption DEF ImagesInv, ImagesTypeOK
<1>1. ImagesTypeOK'
  BY SMTT(20) DEF ImageSteps, ImageStageInv, OnFoundDelete, DeleteRecord, Reckon, WalkEnds, ItGoes
<1>2. ImageStageInv'
  BY DEF ImageStageInv, ImageSteps, OnFoundDelete, DeleteRecord, Reckon, WalkEnds, ItGoes
<1>3. ListInv'
  BY DEF ListInv, ImageStageInv, OnFoundDelete, DeleteRecord, Reckon, WalkEnds, ItGoes
<1>4. UnusedInv'
  BY DEF UnusedInv, ListInv, ImageStageInv, OnFoundDelete, DeleteRecord, Reckon, WalkEnds, ItGoes
<1> QED BY <1>1, <1>2, <1>3, <1>4 DEF ImagesInv

(* It refuses to. *)
LEMMA OnFoundConflictKept ==
  ASSUME ImagesInv, NEW p \in Clients, NEW r \in matches[p], OnFoundConflict(p, r) PROVE ImagesInv'
<1> USE RecordFacts, ImagesAssumption DEF ImagesInv, ImagesTypeOK
<1>1. ImagesTypeOK'
  BY DEF ImageSteps, ImageStageInv, OnFoundConflict, WalkEnds, ItGoes
<1>2. ImageStageInv'
  BY DEF ImageStageInv, ImageSteps, OnFoundConflict, WalkEnds, ItGoes
<1>3. ListInv'
  BY DEF ListInv, ImageStageInv, OnFoundConflict, WalkEnds, ItGoes
<1>4. UnusedInv'
  BY DEF UnusedInv, ListInv, ImageStageInv, OnFoundConflict, WalkEnds, ItGoes
<1> QED BY <1>1, <1>2, <1>3, <1>4 DEF ImagesInv

(* With --force it keeps the content under another name. *)
LEMMA OnFoundKeepKept ==
  ASSUME ImagesInv, NEW p \in Clients, NEW r \in matches[p], OnFoundKeep(p, r) PROVE ImagesInv'
<1> USE RecordFacts, ImagesAssumption DEF ImagesInv, ImagesTypeOK
<1>1. ImagesTypeOK'
  <2>1. image' \in [AllNames -> Digests \union {NoDigest}] /\ held' \in [Clients -> Record]
    BY DEF OnFoundKeep
  <2>2. matches' \in [Clients -> SUBSET Record] /\ ipc' \in [Clients -> ImageSteps]
    BY DEF OnFoundKeep, WalkEnds, ItGoes, ImageSteps
  <2> QED BY <2>1, <2>2 DEF OnFoundKeep
<1>2. ImageStageInv'
  BY DEF ImageStageInv, ImageSteps, OnFoundKeep, WalkEnds, ItGoes
<1>3. ListInv'
  BY DEF ListInv, ImageStageInv, OnFoundKeep, WalkEnds, ItGoes
<1>4. UnusedInv'
  BY DEF UnusedInv, ListInv, ImageStageInv, OnFoundKeep, WalkEnds, ItGoes
<1> QED BY <1>1, <1>2, <1>3, <1>4 DEF ImagesInv

(* Then it deletes the record. *)
LEMMA KeptDeleteKept == ASSUME ImagesInv, NEW p \in Clients, KeptDelete(p) PROVE ImagesInv'
<1> USE RecordFacts, ImagesAssumption DEF ImagesInv, ImagesTypeOK
<1>1. ImagesTypeOK'
  <2>1. image' \in [AllNames -> Digests \union {NoDigest}] /\ throughout' \in [Clients -> SUBSET ImageUsers]
    BY DEF KeptDelete, DeleteRecord, Reckon
  <2>2. matches' \in [Clients -> SUBSET Record] /\ held' \in [Clients -> Record] /\ ipc' \in [Clients -> ImageSteps]
    BY DEF KeptDelete, WalkEnds, ItGoes, ImageSteps
  <2>3. UNCHANGED <<uses, up, force, inUse, running>>
    BY DEF KeptDelete, DeleteRecord
  <2> QED BY <2>1, <2>2, <2>3
<1>2. ImageStageInv'
  BY DEF ImageStageInv, ImageSteps, KeptDelete, DeleteRecord, Reckon, WalkEnds, ItGoes
<1>3. ListInv'
  BY DEF ListInv, ImageStageInv, KeptDelete, DeleteRecord, Reckon, WalkEnds, ItGoes
<1>4. UnusedInv'
  BY DEF UnusedInv, ListInv, ImageStageInv, KeptDelete, DeleteRecord, Reckon, WalkEnds, ItGoes
<1> QED BY <1>1, <1>2, <1>3, <1>4 DEF ImagesInv

(* It is through with an argument. *)
LEMMA WalkDoneKept == ASSUME ImagesInv, NEW p \in Clients, WalkDone(p) PROVE ImagesInv'
<1> USE RecordFacts, ImagesAssumption DEF ImagesInv, ImagesTypeOK
<1>1. ImagesTypeOK'
  BY DEF ImageSteps, ImageStageInv, WalkDone, ItGoes
<1>2. ImageStageInv'
  BY DEF ImageStageInv, ImageSteps, WalkDone, ItGoes
<1>3. ListInv'
  BY DEF ListInv, ImageStageInv, WalkDone, ItGoes
<1>4. UnusedInv'
  BY DEF UnusedInv, ListInv, ImageStageInv, WalkDone, ItGoes
<1> QED BY <1>1, <1>2, <1>3, <1>4 DEF ImagesInv

(* prune without --all. *)
LEMMA PruneDanglingKept == ASSUME ImagesInv, NEW p \in Clients, PruneDangling(p) PROVE ImagesInv'
<1> USE RecordFacts, ImagesAssumption DEF ImagesInv, ImagesTypeOK
<1>1. ImagesTypeOK'
  <2>1. Found(Untagged \union {"<none>"}) \in SUBSET Record
    BY FoundFacts
  <2> QED BY <2>1 DEF PruneDangling, ItGoes, ImageSteps, HasImage
<1>2. ImageStageInv'
  BY DEF ImageStageInv, ImageSteps, PruneDangling, ItGoes
<1>3. ListInv'
  BY DEF ListInv, ImageStageInv, PruneDangling, ItGoes, HasImage
<1>4. UnusedInv'
  <2>1. \A r \in Found(Untagged \union {"<none>"}) : r.name \in Untagged \union {"<none>"}
    BY FoundFacts
  <2>2. /\ matches'[p] = Found(Untagged \union {"<none>"}) /\ UNCHANGED uses /\ ipc'[p] = "dangling"
        /\ \A q \in Clients \ {p} : matches'[q] = matches[q] /\ ipc'[q] = ipc[q] /\ throughout'[q] = throughout[q]
    BY DEF PruneDangling, ItGoes
  <2> QED BY <2>1, <2>2 DEF UnusedInv
<1> QED BY <1>1, <1>2, <1>3, <1>4 DEF ImagesInv

(* prune --all lists the containers first, *)
LEMMA PruneAllKept == ASSUME ImagesInv, NEW p \in Clients, PruneAll(p) PROVE ImagesInv'
<1> USE RecordFacts, ImagesAssumption DEF ImagesInv, ImagesTypeOK
<1>1. ImagesTypeOK'
  BY DEF ImageSteps, ImageStageInv, PruneAll, ItGoes, HasImage
<1>2. ImageStageInv'
  BY DEF ImageStageInv, ImageSteps, PruneAll, ItGoes, HasImage
<1>3. ListInv'
  BY DEF ListInv, ImageStageInv, PruneAll, ItGoes, HasImage
<1>4. UnusedInv'
  BY DEF UnusedInv, ListInv, ImageStageInv, PruneAll, ItGoes, HasImage
<1> QED BY <1>1, <1>2, <1>3, <1>4 DEF ImagesInv

(* and then the images that are not theirs. *)
LEMMA GetUnusedImagesKept ==
  ASSUME ImagesInv, NEW p \in Clients, GetUnusedImages(p) PROVE ImagesInv'
<1> USE RecordFacts, ImagesAssumption DEF ImagesInv, ImagesTypeOK
<1>1. ImagesTypeOK'
  <2>1. Found(AllNames \ inUse[p]) \in SUBSET Record
    BY FoundFacts
  <2> QED BY <2>1 DEF GetUnusedImages, ItGoes, ImageSteps
<1>2. ImageStageInv'
  BY DEF ImageStageInv, ImageSteps, GetUnusedImages, ItGoes
<1>3. ListInv'
  BY DEF ListInv, ImageStageInv, GetUnusedImages, ItGoes
<1>4. UnusedInv'
  <2>1. \A r \in Found(AllNames \ inUse[p]) : r.name \notin inUse[p]
    BY FoundFacts
  <2>2. /\ matches'[p] = Found(AllNames \ inUse[p]) /\ UNCHANGED <<uses, throughout>> /\ ipc[p] = "pruneList" /\ ipc'[p] = "prune"
        /\ \A q \in Clients \ {p} : matches'[q] = matches[q] /\ ipc'[q] = ipc[q]
    BY DEF GetUnusedImages, ItGoes
  <2> QED BY <2>1, <2>2 DEF UnusedInv, ListInv
<1> QED BY <1>1, <1>2, <1>3, <1>4 DEF ImagesInv

(* It deletes one of them. *)
LEMMA PruneOneKept ==
  ASSUME ImagesInv, NEW p \in Clients, NEW r \in matches[p], PruneOne(p, r) PROVE ImagesInv'
<1> USE RecordFacts, ImagesAssumption DEF ImagesInv, ImagesTypeOK
<1>1. ImagesTypeOK'
  BY DEF ImageSteps, ImageStageInv, PruneOne, DeleteRecord, Reckon
<1>2. ImageStageInv'
  BY DEF ImageStageInv, ImageSteps, PruneOne, DeleteRecord, Reckon
<1>3. ListInv'
  BY DEF ListInv, ImageStageInv, PruneOne, DeleteRecord, Reckon
<1>4. UnusedInv'
  BY DEF UnusedInv, ListInv, ImageStageInv, PruneOne, DeleteRecord, Reckon
<1> QED BY <1>1, <1>2, <1>3, <1>4 DEF ImagesInv

(* prune returns. *)
LEMMA PruneReturnsKept == ASSUME ImagesInv, NEW p \in Clients, PruneReturns(p) PROVE ImagesInv'
<1> USE RecordFacts, ImagesAssumption DEF ImagesInv, ImagesTypeOK
<1>1. ImagesTypeOK'
  BY DEF ImageSteps, ImageStageInv, PruneReturns, ImageCommandEnds, ItGoes
<1>2. ImageStageInv'
  BY DEF ImageStageInv, ImageSteps, PruneReturns, ImageCommandEnds, ItGoes
<1>3. ListInv'
  BY DEF ListInv, ImageStageInv, PruneReturns, ImageCommandEnds, ItGoes
<1>4. UnusedInv'
  BY DEF UnusedInv, ListInv, ImageStageInv, PruneReturns, ImageCommandEnds, ItGoes
<1> QED BY <1>1, <1>2, <1>3, <1>4 DEF ImagesInv

(* tag reads its source. *)
LEMMA TagGetKept ==
  ASSUME ImagesInv, NEW p \in Clients, NEW src \in ImageNames, NEW target \in ImageNames, TagGet(p, src, target)
  PROVE  ImagesInv'
<1> USE RecordFacts, ImagesAssumption DEF ImagesInv, ImagesTypeOK
<1>1. ImagesTypeOK'
  BY DEF ImageSteps, ImageStageInv, TagGet, ItGoes
<1>2. ImageStageInv'
  BY DEF ImageStageInv, ImageSteps, TagGet, ItGoes
<1>3. ListInv'
  BY DEF ListInv, ImageStageInv, TagGet, ItGoes
<1>4. UnusedInv'
  BY DEF UnusedInv, ListInv, ImageStageInv, TagGet, ItGoes
<1> QED BY <1>1, <1>2, <1>3, <1>4 DEF ImagesInv

(* It makes its target. *)
LEMMA TagCreateKept == ASSUME ImagesInv, NEW p \in Clients, TagCreate(p) PROVE ImagesInv'
<1> USE RecordFacts, ImagesAssumption DEF ImagesInv, ImagesTypeOK
<1>1. ImagesTypeOK'
  <2>1. held[p].name \in AllNames /\ held[p].digest \in Digests \union {NoDigest} /\ UNCHANGED <<uses, up>>
    BY DEF TagCreate
  <2>2. CASE ImageCommandEnds(p)
    <3>1. image' \in [AllNames -> Digests \union {NoDigest}]
      BY <2>1 DEF TagCreate
    <3> QED BY <2>1, <2>2, <3>1, EndsFacts
  <2>3. CASE ItGoes(p, "tagOver") /\ UNCHANGED <<image, force, inUse, running, matches, held, throughout>>
    BY <2>1, <2>3 DEF ItGoes, ImageSteps
  <2> QED BY <2>2, <2>3 DEF TagCreate
<1>2. ImageStageInv'
  BY SMTT(20) DEF ImageStageInv, ImageSteps, TagCreate, ImageCommandEnds, ItGoes
<1>3. ListInv'
  BY SMTT(20) DEF ListInv, ImageStageInv, TagCreate, ImageCommandEnds, ItGoes
<1>4. UnusedInv'
  <2>1. UNCHANGED uses
    BY DEF TagCreate
  <2>2. CASE ImageCommandEnds(p)
    BY <2>1, <2>2, EndsFacts DEF UnusedInv
  <2>3. CASE ItGoes(p, "tagOver") /\ UNCHANGED <<matches, throughout>>
    BY <2>1, <2>3 DEF UnusedInv, ItGoes
  <2> QED BY <2>2, <2>3 DEF TagCreate
<1> QED BY <1>1, <1>2, <1>3, <1>4 DEF ImagesInv

(* It deletes the old one. *)
LEMMA TagDeleteKept == ASSUME ImagesInv, NEW p \in Clients, TagDelete(p) PROVE ImagesInv'
<1> USE RecordFacts, ImagesAssumption DEF ImagesInv, ImagesTypeOK
<1>1. ImagesTypeOK'
  <2>1. image' \in [AllNames -> Digests \union {NoDigest}] /\ UNCHANGED <<uses, up>>
    BY DEF TagDelete, DeleteRecord
  <2>2. CASE ImageCommandEnds(p)
    BY <2>1, <2>2, EndsFacts
  <2>3. CASE Reckon /\ ItGoes(p, "tagAgain") /\ UNCHANGED <<force, inUse, running, matches, held>>
    <3>1. throughout' \in [Clients -> SUBSET ImageUsers] /\ ipc' \in [Clients -> ImageSteps]
      BY <2>3 DEF Reckon, ItGoes, ImageSteps
    <3> QED BY <2>1, <2>3, <3>1
  <2> QED BY <2>2, <2>3 DEF TagDelete, DeleteRecord
<1>2. ImageStageInv'
  BY DEF ImageStageInv, ImageSteps, TagDelete, DeleteRecord, Reckon, ImageCommandEnds, ItGoes
<1>3. ListInv'
  <2>1. UNCHANGED uses
    BY DEF TagDelete, DeleteRecord
  <2>2. CASE ImageCommandEnds(p)
    BY <2>1, <2>2, EndsFacts DEF ListInv
  <2>3. CASE Reckon /\ ItGoes(p, "tagAgain") /\ UNCHANGED <<force, inUse, running, matches, held>>
    <3>1. \A q \in Clients : throughout'[q] \subseteq throughout[q]
      BY <2>3 DEF Reckon
    <3>2. ipc'[p] = "tagAgain" /\ ipc[p] = "tagOver" /\ \A q \in Clients \ {p} : ipc'[q] = ipc[q]
      BY <2>3 DEF ItGoes, TagDelete
    <3>3. throughout'[p] = {}
      BY <3>1, <3>2 DEF ImageStageInv
    <3> QED BY <2>1, <2>3, <3>1, <3>2, <3>3 DEF ListInv
  <2> QED BY <2>2, <2>3 DEF TagDelete, DeleteRecord
<1>4. UnusedInv'
  BY SMTT(20) DEF UnusedInv, ListInv, ImageStageInv, TagDelete, DeleteRecord, Reckon, ImageCommandEnds, ItGoes
<1> QED BY <1>1, <1>2, <1>3, <1>4 DEF ImagesInv

(* A walk looks by name or by digest. *)
LEMMA WalkKept == ASSUME ImagesInv, NEW p \in Clients, Walk(p) PROVE ImagesInv'
<1>0. ImagesTypeOK
  BY DEF ImagesInv
<1>1. ASSUME NEW n \in ImageNames, WalkFinds(p, Found({n}), TRUE) PROVE ImagesInv'
  <2>1. {n} \in SUBSET AllNames
    BY RecordFacts
  <2> QED BY <1>0, <1>1, <2>1, FoundFacts, WalkFindsKept
<1>2. ASSUME NEW d \in Digests, WalkFinds(p, Found({n \in AllNames : image[n] = d}), FALSE) PROVE ImagesInv'
  <2>1. Found({n \in AllNames : image[n] = d}) \in SUBSET Record
    BY <1>0, FoundFacts
  <2> QED BY <1>2, <2>1, WalkFindsKept
<1> QED BY <1>1, <1>2 DEF Walk

(* The invariant at first. *)
LEMMA ImagesInvInit == ImagesInit => ImagesInv
<1> SUFFICES ASSUME ImagesInit PROVE ImagesInv
  OBVIOUS
<1>1. ImagesTypeOK
  BY RecordFacts DEF ImagesInit, ImagesTypeOK, ImageSteps
<1>2. ImageStageInv /\ ListInv /\ UnusedInv
  BY DEF ImagesInit, ImageStageInv, ListInv, UnusedInv
<1> QED BY <1>1, <1>2 DEF ImagesInv

(* Every step keeps it. *)
LEMMA ImagesInvStep == ImagesInv /\ [ImagesNext]_imageVars => ImagesInv'
<1> SUFFICES ASSUME ImagesInv, [ImagesNext]_imageVars PROVE ImagesInv'
  OBVIOUS
<1>1. CASE UNCHANGED imageVars
  <2>1. UNCHANGED <<image, uses, up, ipc, force, inUse, running, matches, held, throughout>>
    BY <1>1 DEF imageVars
  <2> QED BY <2>1 DEF ImagesInv, ImagesTypeOK, ImageStageInv, ListInv, UnusedInv
<1>2. ASSUME NEW p \in Clients, Rmi(p) PROVE ImagesInv'
  BY <1>2, RemoveKept, WalkKept, RemoveReturnsKept, KeptDeleteKept, WalkDoneKept, OnFoundDeleteKept,
     OnFoundConflictKept, OnFoundKeepKept DEF Rmi
<1>3. ASSUME NEW p \in Clients, PruneStep(p) PROVE ImagesInv'
  BY <1>3, PruneDanglingKept, PruneAllKept, GetUnusedImagesKept, PruneReturnsKept, PruneOneKept DEF PruneStep
<1>4. ASSUME NEW p \in Clients, TagStep(p) \/ CreateStep(p) PROVE ImagesInv'
  BY <1>4, TagGetKept, TagCreateKept, TagDeleteKept, EnsureImageKept, NewContainerKept DEF TagStep, CreateStep
<1>5. ASSUME NEW c \in ImageUsers, StartStops(c) \/ RemoveUser(c) PROVE ImagesInv'
  BY <1>5, StartStopsKept, RemoveUserKept
<1>6. ASSUME NEW n \in ImageNames, NEW d \in Digests, PullImage(n, d) PROVE ImagesInv'
  BY <1>6, PullImageKept
<1> QED BY <1>1, <1>2, <1>3, <1>4, <1>5, <1>6 DEF ImagesNext

(* The invariant of the images. *)
LEMMA ImagesInvariant == ImagesSpec => []ImagesInv
BY ImagesInvInit, ImagesInvStep, PTL DEF ImagesSpec

(* The steps by which p removes a record are those of rmi and of prune. *)
LEMMA RemovingSteps ==
  ASSUME ImagesInv, ImagesNext, NEW p \in Clients, NEW n \in AllNames, Removes(p, n)
  PROVE  \/ KeptDelete(p)
         \/ \E r \in matches[p] : (OnFoundDelete(p, r) \/ PruneOne(p, r)) /\ n = r.name
<1> USE DEF Removes, HasRecord
<1>0. /\ image \in [AllNames -> Digests \union {NoDigest}] /\ image[n] # NoDigest /\ image'[n] = NoDigest
      /\ matches \in [Clients -> SUBSET Record] /\ matches'[p] # matches[p]
      /\ ipc[p] \in {"found", "keep", "prune", "dangling"}
  BY DEF ImagesInv, ImagesTypeOK
<1>1. ASSUME NEW q \in Clients, Rmi(q)
      PROVE  KeptDelete(p) \/ \E r \in matches[p] : OnFoundDelete(p, r) /\ n = r.name
  <2>1. ASSUME UNCHANGED image \/ UNCHANGED matches PROVE FALSE
    BY <1>0, <2>1
  <2>2. CASE KeptDelete(q)
    <3>1. q = p
      BY <1>0, <2>2 DEF KeptDelete, WalkEnds
    <3> QED BY <2>2, <3>1
  <2>3. ASSUME NEW r \in matches[q], OnFoundDelete(q, r)
        PROVE  \E s \in matches[p] : OnFoundDelete(p, s) /\ n = s.name
    <3>1. q = p
      BY <1>0, <2>3 DEF OnFoundDelete, WalkEnds
    <3>2. image' = [image EXCEPT ![r.name] = NoDigest]
      BY <1>0, <2>3 DEF OnFoundDelete, DeleteRecord
    <3>3. n = r.name
      BY <1>0, <3>2
    <3> QED BY <2>3, <3>1, <3>3
  <2>4. ASSUME NEW r \in matches[q], OnFoundKeep(q, r) PROVE FALSE
    BY <1>0, <2>4, RecordFacts DEF OnFoundKeep, WalkEnds
  <2> QED BY <1>1, <2>1, <2>2, <2>3, <2>4
          DEF Rmi, Remove, Walk, WalkFinds, RemoveReturns, WalkDone, OnFoundConflict
<1>2. ASSUME NEW q \in Clients, PruneStep(q) PROVE \E r \in matches[p] : PruneOne(p, r) /\ n = r.name
  <2>1. PICK r \in matches[q] : PruneOne(q, r)
    BY <1>0, <1>2 DEF PruneStep, PruneDangling, PruneAll, GetUnusedImages, PruneReturns
  <2>2. q = p
    BY <1>0, <2>1 DEF PruneOne
  <2>3. n = r.name
    BY <1>0, <2>1 DEF PruneOne, DeleteRecord
  <2> QED BY <2>1, <2>2, <2>3
<1>3. ASSUME NEW q \in Clients, TagStep(q) \/ CreateStep(q) PROVE FALSE
  <2>1. ASSUME matches'[p] = matches[p] PROVE FALSE
    BY <1>0, <2>1
  <2>2. ASSUME ImageCommandEnds(q), ipc[q] \notin {"found", "keep", "prune", "dangling"} PROVE FALSE
    BY <1>0, <2>1, <2>2 DEF ImageCommandEnds
  <2> QED BY <1>3, <2>1, <2>2
          DEF TagStep, CreateStep, TagGet, TagCreate, TagDelete, EnsureImage, NewContainer
<1>4. ASSUME NEW c \in ImageUsers, StartStops(c) \/ RemoveUser(c) PROVE FALSE
  BY <1>0, <1>4 DEF StartStops, RemoveUser
<1>5. ASSUME NEW m \in ImageNames, NEW d \in Digests, PullImage(m, d) PROVE FALSE
  BY <1>0, <1>5 DEF PullImage
<1> QED BY <1>1, <1>2, <1>3, <1>4, <1>5 DEF ImagesNext

(* A record that goes without --force is of none who had it all the time. *)
LEMMA UsedKeptStep ==
  ASSUME ImagesInv, ImagesNext, NEW p \in Clients, NEW n \in AllNames, Removes(p, n), ~force[p],
         ipc[p] = "dangling" => n \notin Untagged, NEW c \in throughout[p]
  PROVE  n \notin uses[c]
<1>1. CASE KeptDelete(p)
  BY <1>1 DEF KeptDelete, ImagesInv, ImageStageInv
<1>2. ASSUME NEW r \in matches[p], OnFoundDelete(p, r), n = r.name PROVE n \notin uses[c]
  BY <1>2 DEF OnFoundDelete, ImagesInv, ListInv
<1>3. ASSUME NEW r \in matches[p], PruneOne(p, r), n = r.name PROVE n \notin uses[c]
  <2>1. CASE ipc[p] = "prune"
    BY <1>3, <2>1 DEF ImagesInv, UnusedInv
  <2>2. CASE ipc[p] = "dangling"
    <3>1. n = "<none>" /\ uses[c] \subseteq ImageNames
      BY <1>3, <2>2 DEF ImagesInv, UnusedInv, ImagesTypeOK
    <3> QED BY <3>1, ImagesAssumption
  <2> QED BY <1>3, <2>1, <2>2 DEF PruneOne
<1> QED BY <1>1, <1>2, <1>3, RemovingSteps

(* The variables of the image commands keep their types. *)
THEOREM ImageTypes == ImagesSpec => []ImagesTypeOK
<1>1. ImagesInv => ImagesTypeOK
  BY DEF ImagesInv
<1> QED BY <1>1, ImagesInvariant, PTL

(* rmi without --force and prune --all take no image from a container that *)
(* had it since they began: the container is on the list they made first,  *)
(* and the image it uses never changes while it counts.  prune alone takes *)
(* no tagged one: it has found records without a tag only.                 *)
THEOREM UsedImagesKept == ImagesSpec => UsedKept
<1>1. ImagesInv /\ [ImagesNext]_imageVars =>
        [\A p \in Clients, n \in AllNames :
           Removes(p, n) /\ ~force[p] /\ (ipc[p] = "dangling" => n \notin Untagged) =>
             \A c \in throughout[p] : n \notin uses[c]]_imageVars
  BY UsedKeptStep
<1> QED BY <1>1, ImagesInvariant, PTL DEF ImagesSpec, UsedKept

-----------------------------------------------------------------------------
(* The ECR tokens.                                                         *)

(* A client is about to enter a token for r that is at least as new as t. *)
Entering(p, r, t) == rpc[p] \in AuthSteps /\ req[p].r = r /\ t <= token[p]

(* So will a goroutine that has not begun. *)
WillEnter(r, t) == \E s \in starting : s.r = r /\ t <= s.t

(* config.json has for r a token as new as t, or gets one, or has lost it. *)
Covered(r, t) == t <= config[r] \/ r \in lost \/ (\E p \in Clients : Entering(p, r, t)) \/ WillEnter(r, t)

(* That is so for each token in a cache. *)
EntryInv == \A m \in Managers, r \in Registries : Covered(r, tokenCache[m][r])

EcrInv == EcrTypeOK /\ EntryInv

(* Requests, and the lack of tokens. *)
LEMMA EcrFacts ==
  /\ MaxTokens \in Nat /\ Managers = {"ecr", "image"} /\ Token = 0..MaxTokens
  /\ NoTokens \in [Registries -> Token] /\ \A r \in Registries : NoTokens[r] = 0
  /\ NoRequest \in Request /\ ARegistry \in Registries
  /\ \A x \in Request : x.m \in Managers /\ x.r \in Registries
<1>1. ARegistry \in Registries /\ MaxTokens \in Nat
  BY EcrAssumption DEF ARegistry
<1>2. 0 \in Token
  BY <1>1 DEF Token
<1> QED BY <1>1, <1>2 DEF Managers, Token, NoTokens, NoRequest, Request

(* The request of p is over. *)
LEMMA ForgetsFacts ==
  ASSUME EcrTypeOK, NEW p \in Clients, Forgets(p)
  PROVE  /\ req' \in [Clients -> Request] /\ token' \in [Clients -> Token]
         /\ loadedConfig' \in [Clients -> [Registries -> Token]]
         /\ \A q \in Clients \ {p} : req'[q] = req[q] /\ token'[q] = token[q]
<1>1. req' \in [Clients -> Request] /\ \A q \in Clients \ {p} : req'[q] = req[q]
  BY EcrFacts DEF EcrTypeOK, Forgets
<1>2. 0 \in Token
  BY EcrFacts
<1>3. token' \in [Clients -> Token] /\ \A q \in Clients \ {p} : token'[q] = token[q]
  BY <1>2 DEF EcrTypeOK, Forgets
<1>4. loadedConfig' \in [Clients -> [Registries -> Token]]
  BY EcrFacts DEF EcrTypeOK, Forgets
<1> QED BY <1>1, <1>3, <1>4

(* A client goes on to l. *)
LEMMA RequestGoes ==
  ASSUME EcrTypeOK, NEW p \in Clients, NEW l \in RequestSteps, rpc' = [rpc EXCEPT ![p] = l]
  PROVE  /\ rpc' \in [Clients -> RequestSteps]
         /\ rpc'[p] = l /\ \A q \in Clients \ {p} : rpc'[q] = rpc[q]
BY DEF EcrTypeOK

(* The caches and config.json stay, nothing that was lost is forgotten,    *)
(* and whoever was about to enter a token still is.                        *)
LEMMA StillCovered ==
  ASSUME EcrInv, UNCHANGED <<tokenCache, config>>, lost \subseteq lost', starting \subseteq starting',
         \A q \in Clients : rpc[q] \in AuthSteps =>
           rpc'[q] \in AuthSteps /\ req'[q] = req[q] /\ token'[q] = token[q]
  PROVE  EntryInv'
<1> SUFFICES ASSUME NEW m \in Managers, NEW r \in Registries PROVE Covered(r, tokenCache[m][r])'
  BY DEF EntryInv
<1>1. Covered(r, tokenCache[m][r])
  BY DEF EcrInv, EntryInv
<1> QED BY <1>1 DEF Covered, Entering, WillEnter

(* A login, pull or push has no valid token. *)
LEMMA AutoLoginGood ==
  ASSUME EcrInv, NEW p \in Clients, NEW m0 \in Managers, NEW r0 \in Registries, AutoLogin(p, m0, r0)
  PROVE  EcrInv'
<1>0. /\ EcrTypeOK /\ rpc[p] = "idle" /\ rpc' = [rpc EXCEPT ![p] = "fetch"]
      /\ req' = [req EXCEPT ![p] = [m |-> m0, r |-> r0]]
      /\ UNCHANGED <<tokenCache, loaded, cacheFile, config, truncated, issued, expired, token,
                     loadedConfig, saver, tokensCopy, starting, lost>>
  BY DEF EcrInv, AutoLogin
<1>1. rpc' \in [Clients -> RequestSteps] /\ rpc'[p] = "fetch" /\ \A q \in Clients \ {p} : rpc'[q] = rpc[q]
  BY <1>0, RequestGoes DEF RequestSteps
<1>2. req' \in [Clients -> Request] /\ \A q \in Clients \ {p} : req'[q] = req[q]
  <2>1. [m |-> m0, r |-> r0] \in Request
    BY DEF Request
  <2> QED BY <1>0, <2>1 DEF EcrTypeOK
<1>3. EcrTypeOK'
  BY <1>0, <1>1, <1>2 DEF EcrTypeOK
<1>4. EntryInv'
  BY <1>0, <1>1, <1>2, StillCovered DEF AuthSteps
<1> QED BY <1>3, <1>4 DEF EcrInv

(* It gets the newest token, or none. *)
LEMMA GetECRTokenGood == ASSUME EcrInv, NEW p \in Clients, GetECRToken(p) PROVE EcrInv'
<1>0. EcrTypeOK /\ rpc[p] = "fetch" /\ issued \in Nat /\ expired \in Nat
      /\ UNCHANGED <<tokenCache, loaded, cacheFile, config, truncated, expired,
                     saver, tokensCopy, starting, lost>>
  BY DEF EcrInv, EcrTypeOK, GetECRToken
<1>1. /\ rpc' \in [Clients -> RequestSteps] /\ req' \in [Clients -> Request]
      /\ token' \in [Clients -> Token] /\ loadedConfig' \in [Clients -> [Registries -> Token]]
      /\ \A q \in Clients \ {p} : rpc'[q] = rpc[q] /\ req'[q] = req[q] /\ token'[q] = token[q]
      /\ issued' \in 0..MaxTokens /\ expired' \in 0..issued'
  <2>1. CASE RequestEnds(p) /\ UNCHANGED issued
    <3>1. rpc' \in [Clients -> RequestSteps] /\ \A q \in Clients \ {p} : rpc'[q] = rpc[q]
      BY <1>0, <2>1, RequestGoes DEF RequestSteps, RequestEnds
    <3> QED BY <1>0, <2>1, <3>1, ForgetsFacts DEF EcrTypeOK, RequestEnds
  <2>2. CASE /\ issued < MaxTokens /\ issued' = issued + 1 /\ token' = [token EXCEPT ![p] = issued + 1]
             /\ rpc' = [rpc EXCEPT ![p] = "cache"] /\ UNCHANGED <<req, loadedConfig>>
    <3>1. issued + 1 \in Token
      BY <1>0, <2>2, EcrFacts
    <3>2. token' \in [Clients -> Token] /\ \A q \in Clients \ {p} : token'[q] = token[q]
      BY <1>0, <2>2, <3>1 DEF EcrTypeOK
    <3>3. issued' \in 0..MaxTokens /\ expired' \in 0..issued'
      BY <1>0, <2>2, EcrFacts DEF EcrTypeOK
    <3>4. rpc' \in [Clients -> RequestSteps] /\ \A q \in Clients \ {p} : rpc'[q] = rpc[q]
      BY <1>0, <2>2, RequestGoes DEF RequestSteps
    <3> QED BY <1>0, <2>2, <3>2, <3>3, <3>4 DEF EcrTypeOK
  <2> QED BY <2>1, <2>2 DEF GetECRToken
<1>2. EcrTypeOK'
  BY <1>0, <1>1 DEF EcrTypeOK
<1>3. EntryInv'
  BY <1>0, <1>1, StillCovered DEF AuthSteps
<1> QED BY <1>2, <1>3 DEF EcrInv

(* It caches the token, and is about to enter it. *)
LEMMA CacheTokenGood == ASSUME EcrInv, NEW p \in Clients, CacheToken(p) PROVE EcrInv'
<1>0. /\ EcrTypeOK /\ rpc[p] = "cache" /\ rpc' = [rpc EXCEPT ![p] = "load"]
      /\ UNCHANGED <<loaded, cacheFile, config, truncated, issued, expired, req, token,
                     loadedConfig, tokensCopy, starting, lost>>
      /\ saver' = [saver EXCEPT ![p] = req[p].m]
  BY DEF EcrInv, CacheToken
<1>1. PICK m0 \in Managers, r0 \in Registries : m0 = req[p].m /\ r0 = req[p].r
  BY <1>0, EcrFacts DEF EcrTypeOK
<1>2. token[p] \in Token /\ token[p] <= token[p]
  BY <1>0, EcrFacts DEF EcrTypeOK
<1>3. /\ tokenCache' \in [Managers -> [Registries -> Token]] /\ tokenCache'[m0][r0] = token[p]
      /\ \A m \in Managers, r \in Registries : m # m0 \/ r # r0 => tokenCache'[m][r] = tokenCache[m][r]
  BY <1>0, <1>1, <1>2 DEF EcrTypeOK, CacheToken
<1>4. saver' \in [Clients -> Managers \union {"save", "none"}]
  BY <1>0, <1>1 DEF EcrTypeOK
<1>5. rpc' \in [Clients -> RequestSteps] /\ rpc'[p] = "load" /\ \A q \in Clients \ {p} : rpc'[q] = rpc[q]
  BY <1>0, RequestGoes DEF RequestSteps, AuthSteps
<1>6. EcrTypeOK'
  BY <1>0, <1>3, <1>4, <1>5 DEF EcrTypeOK
<1>7. EntryInv'
  <2> SUFFICES ASSUME NEW m \in Managers, NEW r \in Registries PROVE Covered(r, tokenCache[m][r])'
    BY DEF EntryInv
  <2>1. CASE m = m0 /\ r = r0
    <3>1. rpc'[p] \in AuthSteps /\ req'[p].r = r /\ tokenCache'[m][r] <= token'[p]
      BY <1>0, <1>1, <1>2, <1>3, <1>5, <2>1 DEF AuthSteps
    <3> QED BY <3>1 DEF Covered, Entering
  <2>2. CASE ~(m = m0 /\ r = r0)
    <3>1. Covered(r, tokenCache[m][r]) /\ tokenCache'[m][r] = tokenCache[m][r]
      BY <1>3, <2>2 DEF EcrInv, EntryInv
    <3>2. \A q \in Clients : rpc[q] \in AuthSteps => rpc'[q] \in AuthSteps
      BY <1>0, <1>5 DEF AuthSteps
    <3> QED BY <1>0, <3>1, <3>2 DEF Covered, Entering, WillEnter
  <2> QED BY <2>1, <2>2
<1> QED BY <1>6, <1>7 DEF EcrInv

(* It reads config.json, *)
LEMMA LoadConfigGood == ASSUME EcrInv, NEW p \in Clients, LoadConfig(p) PROVE EcrInv'
<1>0. /\ EcrTypeOK /\ rpc[p] = "load" /\ rpc' = [rpc EXCEPT ![p] = "truncate"]
      /\ loadedConfig' = [loadedConfig EXCEPT ![p] = IF truncated THEN NoTokens ELSE config]
      /\ UNCHANGED <<tokenCache, loaded, cacheFile, config, truncated, issued, expired,
                     req, token, saver, tokensCopy, starting, lost>>
  BY DEF EcrInv, LoadConfig
<1>1. loadedConfig' \in [Clients -> [Registries -> Token]]
  BY <1>0, EcrFacts DEF EcrTypeOK
<1>2. rpc' \in [Clients -> RequestSteps] /\ rpc'[p] = "truncate" /\ \A q \in Clients \ {p} : rpc'[q] = rpc[q]
  BY <1>0, RequestGoes DEF RequestSteps, AuthSteps
<1>3. EcrTypeOK'
  BY <1>0, <1>1, <1>2 DEF EcrTypeOK
<1>4. EntryInv'
  BY <1>0, <1>2, StillCovered DEF AuthSteps
<1> QED BY <1>3, <1>4 DEF EcrInv

(* begins to write it, *)
LEMMA TruncateConfigGood == ASSUME EcrInv, NEW p \in Clients, TruncateConfig(p) PROVE EcrInv'
<1>0. /\ EcrTypeOK /\ rpc[p] = "truncate" /\ rpc' = [rpc EXCEPT ![p] = "write"] /\ truncated' = TRUE
      /\ UNCHANGED <<tokenCache, loaded, cacheFile, config, issued, expired,
                     req, token, loadedConfig, saver, tokensCopy, starting, lost>>
  BY DEF EcrInv, TruncateConfig
<1>1. rpc' \in [Clients -> RequestSteps] /\ rpc'[p] = "write" /\ \A q \in Clients \ {p} : rpc'[q] = rpc[q]
  BY <1>0, RequestGoes DEF RequestSteps, AuthSteps
<1>2. EcrTypeOK'
  BY <1>0, <1>1 DEF EcrTypeOK
<1>3. EntryInv'
  BY <1>0, <1>1, StillCovered DEF AuthSteps
<1> QED BY <1>2, <1>3 DEF EcrInv

(* and has written it: what it takes back counts as lost, and what another *)
(* client is about to enter is still to come.                              *)
LEMMA WriteConfigGood == ASSUME EcrInv, NEW p \in Clients, WriteConfig(p) PROVE EcrInv'
<1>0. /\ EcrTypeOK /\ rpc[p] \in {"write", "overwrite"} /\ truncated' \in BOOLEAN /\ Forgets(p)
      /\ lost' = LostBy(p)
      /\ config' = [loadedConfig[p] EXCEPT ![req[p].r] = token[p]]
      /\ rpc' = [q \in Clients |-> IF q = p THEN "idle" ELSE IF rpc[q] = "write" THEN "overwrite" ELSE rpc[q]]
      /\ UNCHANGED <<tokenCache, loaded, cacheFile, issued, expired, saver, tokensCopy, starting>>
  BY DEF EcrInv, WriteConfig
<1>1. PICK r0 \in Registries : r0 = req[p].r
  BY <1>0, EcrFacts DEF EcrTypeOK
<1>2. /\ config' \in [Registries -> Token] /\ config'[r0] = token[p]
      /\ \A r \in Registries \ {r0} : config'[r] = loadedConfig[p][r]
  BY <1>0, <1>1 DEF EcrTypeOK
<1>3. /\ rpc' \in [Clients -> RequestSteps]
      /\ \A q \in Clients \ {p} : rpc[q] \in AuthSteps => rpc'[q] \in AuthSteps
  BY <1>0 DEF EcrTypeOK, RequestSteps, AuthSteps
<1>4. \A r \in Registries : lost' \subseteq Registries /\ (r \in lost => r \in lost' \/ (r = r0 /\ MadeGood(p)))
  BY <1>0, <1>1 DEF EcrTypeOK, LostBy, Overwritten
<1>5. EcrTypeOK'
  <2>1. lost' \subseteq Registries
    BY <1>1, <1>4
  <2> QED BY <1>0, <1>2, <1>3, <2>1, ForgetsFacts DEF EcrTypeOK
<1>6. \A q \in Clients \ {p}, r \in Registries, t \in Token : Entering(q, r, t) => Entering(q, r, t)'
  BY <1>0, <1>3, ForgetsFacts DEF Entering
<1>7. EntryInv'
  <2> SUFFICES ASSUME NEW m \in Managers, NEW r \in Registries PROVE Covered(r, tokenCache[m][r])'
    BY DEF EntryInv
  <2>1. PICK t \in Token : t = tokenCache[m][r]
    BY <1>0 DEF EcrTypeOK
  <2>2. Covered(r, t) /\ tokenCache'[m][r] = t
    BY <1>0, <2>1 DEF EcrInv, EntryInv
  <2>3. /\ t \in Nat /\ token[p] \in Nat /\ config[r] \in Nat /\ config'[r] \in Nat
        /\ loadedConfig[p][r] \in Nat
    BY <1>0, <1>2, EcrFacts DEF EcrTypeOK
  <2>4. CASE r = r0 /\ MadeGood(p)
    <3>1. tokenCache'[m][r] <= config'[r]
      BY <1>0, <1>1, <1>2, <2>1, <2>4 DEF MadeGood
    <3> QED BY <3>1 DEF Covered
  <2>5. ASSUME r # r0 \/ ~MadeGood(p) PROVE Covered(r, tokenCache[m][r])'
    <3>1. r \in lost => r \in lost'
      BY <1>4, <2>5
    <3>2. config'[r] < config[r] => r \in lost'
      BY <1>0, <1>1, <1>2, <2>5 DEF LostBy, Overwritten
    <3>3. Entering(p, r, t) => tokenCache'[m][r] <= config'[r]
      BY <1>1, <1>2, <2>2 DEF Entering
    <3>4. CASE t <= config[r]
      <4>1. tokenCache'[m][r] <= config'[r] \/ r \in lost'
        BY <2>2, <2>3, <3>2, <3>4
      <4> QED BY <4>1 DEF Covered
    <3>5. CASE r \in lost
      BY <3>1, <3>5 DEF Covered
    <3>6. ASSUME NEW q \in Clients, Entering(q, r, t) PROVE Covered(r, tokenCache[m][r])'
      <4>1. CASE q = p
        BY <3>3, <3>6, <4>1 DEF Covered
      <4>2. CASE q # p
        <5>1. rpc'[q] \in AuthSteps /\ req'[q].r = r /\ tokenCache'[m][r] <= token'[q]
          BY <1>0, <1>3, <2>2, <3>6, <4>2, ForgetsFacts DEF Entering
        <5> QED BY <5>1 DEF Covered, Entering
      <4> QED BY <4>1, <4>2
    <3>7. CASE WillEnter(r, t)
      BY <1>0, <2>2, <3>7 DEF Covered, WillEnter
    <3> QED BY <2>2, <3>4, <3>5, <3>6, <3>7 DEF Covered
  <2> QED BY <2>4, <2>5
<1> QED BY <1>5, <1>7 DEF EcrInv

(* It fails, and its registry has lost its entry. *)
LEMMA SetRegistryAuthFailsGood == ASSUME EcrInv, NEW p \in Clients, SetRegistryAuthFails(p) PROVE EcrInv'
<1>0. /\ EcrTypeOK /\ rpc' = [rpc EXCEPT ![p] = "idle"] /\ Forgets(p) /\ lost' = lost \union {req[p].r}
      /\ UNCHANGED <<tokenCache, loaded, cacheFile, config, truncated, issued, expired,
                     saver, tokensCopy, starting>>
  BY DEF EcrInv, SetRegistryAuthFails, RequestEnds
<1>1. PICK r0 \in Registries : r0 = req[p].r
  BY <1>0, EcrFacts DEF EcrTypeOK
<1>2. rpc' \in [Clients -> RequestSteps] /\ \A q \in Clients \ {p} : rpc'[q] = rpc[q]
  BY <1>0, RequestGoes DEF RequestSteps
<1>3. EcrTypeOK'
  <2>1. lost' \subseteq Registries
    BY <1>0, <1>1 DEF EcrTypeOK
  <2> QED BY <1>0, <1>2, <2>1, ForgetsFacts DEF EcrTypeOK
<1>4. EntryInv'
  <2> SUFFICES ASSUME NEW m \in Managers, NEW r \in Registries PROVE Covered(r, tokenCache[m][r])'
    BY DEF EntryInv
  <2>1. CASE r = r0
    BY <1>0, <1>1, <2>1 DEF Covered
  <2>2. CASE r # r0
    <3>1. Covered(r, tokenCache[m][r])
      BY DEF EcrInv, EntryInv
    <3>2. \A q \in Clients : Entering(q, r, tokenCache[m][r]) => Entering(q, r, tokenCache[m][r])'
      BY <1>0, <1>1, <1>2, <2>2, ForgetsFacts DEF Entering
    <3> QED BY <1>0, <3>1, <3>2 DEF Covered, WillEnter
  <2> QED BY <2>1, <2>2
<1> QED BY <1>3, <1>4 DEF EcrInv

-----------------------------------------------------------------------------
(* A manager is made, and a goroutine for each token it takes. *)
LEMMA LoadPersistedTokensGood ==
  ASSUME EcrInv, NEW m0 \in Managers, LoadPersistedTokens(m0)
  PROVE  EcrInv'
<1>0. /\ EcrTypeOK /\ loaded' = loaded \union {m0}
      /\ UNCHANGED <<cacheFile, config, truncated, issued, expired, rpc, req, token,
                     loadedConfig, saver, tokensCopy, lost>>
  BY DEF EcrInv, LoadPersistedTokens
<1>1. PICK tokens \in {CleanExpiredTokens(cacheFile)} \union {NoTokens : p \in {q \in Clients : saver[q] = "save"}} :
         /\ tokenCache' = [tokenCache EXCEPT ![m0] = tokens]
         /\ starting' = starting \union {[m |-> m0, r |-> r, t |-> tokens[r]] : r \in {x \in Registries : tokens[x] # 0}}
  BY DEF LoadPersistedTokens
<1>2. tokens \in [Registries -> Token]
  <2>1. CASE tokens = CleanExpiredTokens(cacheFile)
    <3>1. 0 \in Token
      BY EcrFacts
    <3> QED BY <1>0, <2>1, <3>1 DEF CleanExpiredTokens, EcrTypeOK
  <2>2. CASE tokens = NoTokens
    BY <2>2, EcrFacts
  <2> QED BY <1>1, <2>1, <2>2
<1>3. /\ tokenCache' \in [Managers -> [Registries -> Token]]
      /\ tokenCache'[m0] = tokens /\ \A m \in Managers \ {m0} : tokenCache'[m] = tokenCache[m]
  BY <1>0, <1>1, <1>2 DEF EcrTypeOK
<1>4. starting' \subseteq [m : Managers, r : Registries, t : Token]
  <2>1. \A r \in Registries : [m |-> m0, r |-> r, t |-> tokens[r]] \in [m : Managers, r : Registries, t : Token]
    BY <1>2
  <2> QED BY <1>0, <1>1, <2>1 DEF EcrTypeOK
<1>5. EcrTypeOK'
  <2>1. loaded' \subseteq Managers
    BY <1>0 DEF EcrTypeOK
  <2> QED BY <1>0, <1>3, <1>4, <2>1 DEF EcrTypeOK
<1>6. EntryInv'
  <2> SUFFICES ASSUME NEW m \in Managers, NEW r \in Registries PROVE Covered(r, tokenCache[m][r])'
    BY DEF EntryInv
  <2>1. CASE m # m0
    <3>1. Covered(r, tokenCache[m][r]) /\ tokenCache'[m][r] = tokenCache[m][r] /\ starting \subseteq starting'
      BY <1>1, <1>3, <2>1 DEF EcrInv, EntryInv
    <3> QED BY <1>0, <3>1 DEF Covered, Entering, WillEnter
  <2>2. CASE m = m0 /\ tokens[r] = 0
    <3>1. config[r] \in Nat
      BY <1>0, EcrFacts DEF EcrTypeOK
    <3>2. tokenCache'[m][r] <= config'[r]
      BY <1>0, <1>3, <2>2, <3>1
    <3> QED BY <3>2 DEF Covered
  <2>3. CASE m = m0 /\ tokens[r] # 0
    <3> DEFINE x == [m |-> m0, r |-> r, t |-> tokens[r]]
    <3>1. x \in starting'
      BY <1>1, <2>3
    <3>2. x.r = r /\ x.t = tokens[r]
      OBVIOUS
    <3>3. tokens[r] <= tokens[r]
      BY <1>2, EcrFacts
    <3> HIDE DEF x
    <3>4. tokenCache'[m][r] <= x.t
      BY <1>3, <2>3, <3>2, <3>3
    <3> QED BY <3>1, <3>2, <3>4 DEF Covered, WillEnter
  <2> QED BY <2>1, <2>2, <2>3
<1> QED BY <1>5, <1>6 DEF EcrInv

(* One of its goroutines begins to enter a token. *)
LEMMA StartedAuthGood ==
  ASSUME EcrInv, NEW p \in Clients, NEW s \in starting, StartedAuth(p, s)
  PROVE  EcrInv'
<1>0. /\ EcrTypeOK /\ rpc[p] = "idle" /\ starting' = starting \ {s}
      /\ rpc' = [rpc EXCEPT ![p] = "load"]
      /\ UNCHANGED <<tokenCache, loaded, cacheFile, config, truncated, issued, expired,
                     loadedConfig, saver, tokensCopy, lost>>
  BY DEF EcrInv, StartedAuth
<1>1. s.m \in Managers /\ s.r \in Registries /\ s.t \in Token
  BY <1>0 DEF EcrTypeOK
<1>2. rpc' \in [Clients -> RequestSteps] /\ rpc'[p] = "load" /\ \A q \in Clients \ {p} : rpc'[q] = rpc[q]
  BY <1>0, RequestGoes DEF RequestSteps, AuthSteps
<1>3. req' \in [Clients -> Request] /\ req'[p].r = s.r /\ \A q \in Clients \ {p} : req'[q] = req[q]
  <2>1. [m |-> s.m, r |-> s.r] \in Request
    BY <1>1 DEF Request
  <2> QED BY <1>0, <2>1 DEF StartedAuth, EcrTypeOK
<1>4. token' \in [Clients -> Token] /\ token'[p] = s.t /\ \A q \in Clients \ {p} : token'[q] = token[q]
  BY <1>0, <1>1 DEF StartedAuth, EcrTypeOK
<1>5. EcrTypeOK'
  BY <1>0, <1>2, <1>3, <1>4 DEF EcrTypeOK
<1>6. EntryInv'
  <2> SUFFICES ASSUME NEW m \in Managers, NEW r \in Registries PROVE Covered(r, tokenCache[m][r])'
    BY DEF EntryInv
  <2>1. Covered(r, tokenCache[m][r])
    BY DEF EcrInv, EntryInv
  <2>2. \A q \in Clients : Entering(q, r, tokenCache[m][r]) => Entering(q, r, tokenCache[m][r])'
    BY <1>0, <1>2, <1>3, <1>4 DEF Entering, AuthSteps
  <2>3. ASSUME s.r = r, tokenCache[m][r] <= s.t PROVE Entering(p, r, tokenCache[m][r])'
    BY <1>0, <1>2, <1>3, <1>4, <2>3 DEF Entering, AuthSteps
  <2>4. WillEnter(r, tokenCache[m][r]) =>
          WillEnter(r, tokenCache[m][r])' \/ Entering(p, r, tokenCache[m][r])'
    BY <1>0, <2>3 DEF WillEnter
  <2> QED BY <1>0, <2>1, <2>2, <2>4 DEF Covered
<1> QED BY <1>5, <1>6 DEF EcrInv

(* The cache is copied, or was saved just before, *)
LEMMA CopyTokensGood == ASSUME EcrInv, NEW p \in Clients, CopyTokens(p) PROVE EcrInv'
<1>0. /\ EcrTypeOK /\ saver[p] \in Managers
      /\ UNCHANGED <<tokenCache, loaded, cacheFile, config, truncated, issued, expired,
                     rpc, req, token, loadedConfig, starting, lost>>
  BY DEF EcrInv, CopyTokens
<1>1. PICK m0 \in Managers : m0 = saver[p]
  BY <1>0
<1>2. /\ saver' \in [Clients -> Managers \union {"save", "none"}]
      /\ tokensCopy' \in [Clients -> [Registries -> Token]]
  <2>1. CASE saver' = [saver EXCEPT ![p] = "none"] /\ UNCHANGED tokensCopy
    BY <1>0, <2>1 DEF EcrTypeOK
  <2>2. CASE /\ tokensCopy' = [tokensCopy EXCEPT ![p] = tokenCache[saver[p]]]
             /\ saver' = [saver EXCEPT ![p] = "save"]
    <3>1. tokenCache[m0] \in [Registries -> Token]
      BY <1>0 DEF EcrTypeOK
    <3> QED BY <1>0, <1>1, <2>2, <3>1 DEF EcrTypeOK
  <2> QED BY <2>1, <2>2 DEF CopyTokens
<1>3. EcrTypeOK'
  BY <1>0, <1>2 DEF EcrTypeOK
<1>4. EntryInv'
  BY <1>0, StillCovered
<1> QED BY <1>3, <1>4 DEF EcrInv

(* and the copy is written without the expired tokens. *)
LEMMA SaveTokenCacheGood == ASSUME EcrInv, NEW p \in Clients, SaveTokenCache(p) PROVE EcrInv'
<1>0. /\ EcrTypeOK
      /\ saver' = [saver EXCEPT ![p] = "none"] /\ tokensCopy' = [tokensCopy EXCEPT ![p] = NoTokens]
      /\ UNCHANGED <<tokenCache, loaded, config, truncated, issued, expired, rpc, req, token,
                     loadedConfig, starting, lost>>
  BY DEF EcrInv, SaveTokenCache
<1>1. saver' \in [Clients -> Managers \union {"save", "none"}]
  BY <1>0 DEF EcrTypeOK
<1>2. tokensCopy' \in [Clients -> [Registries -> Token]]
  BY <1>0, EcrFacts DEF EcrTypeOK
<1>3. cacheFile' \in [Registries -> Token]
  <2>1. CASE cacheFile' = CleanExpiredTokens(tokensCopy[p])
    <3>1. 0 \in Token /\ tokensCopy[p] \in [Registries -> Token]
      BY <1>0, EcrFacts DEF EcrTypeOK
    <3> QED BY <2>1, <3>1 DEF CleanExpiredTokens
  <2>2. CASE cacheFile' \in {cacheFile, NoTokens}
    BY <1>0, <2>2, EcrFacts DEF EcrTypeOK
  <2> QED BY <2>1, <2>2 DEF SaveTokenCache
<1>4. EcrTypeOK'
  BY <1>0, <1>1, <1>2, <1>3 DEF EcrTypeOK
<1>5. EntryInv'
  BY <1>0, StillCovered
<1> QED BY <1>4, <1>5 DEF EcrInv

(* Time goes by. *)
LEMMA ExpireGood == ASSUME EcrInv, Expire PROVE EcrInv'
<1>0. /\ EcrTypeOK
      /\ UNCHANGED <<tokenCache, loaded, cacheFile, config, truncated, issued,
                     rpc, req, token, loadedConfig, saver, tokensCopy, starting, lost>>
  BY DEF EcrInv, Expire
<1>1. expired' \in 0..issued'
  BY <1>0 DEF EcrTypeOK, Expire
<1>2. EcrTypeOK'
  BY <1>0, <1>1 DEF EcrTypeOK
<1>3. EntryInv'
  BY <1>0, StillCovered
<1> QED BY <1>2, <1>3 DEF EcrInv

(* No cache has a token, and only the files do. *)
LEMMA RestartGood == ASSUME EcrInv, Restart PROVE EcrInv'
<1>0. /\ EcrTypeOK /\ loaded' = {} /\ starting' = {} /\ lost' = {}
      /\ UNCHANGED <<cacheFile, config, truncated, issued, expired>>
  BY DEF EcrInv, Restart
<1>1. \A m \in Managers, r \in Registries : tokenCache'[m][r] = 0
  BY EcrFacts DEF Restart
<1>2. EcrTypeOK'
  <2>1. tokenCache' \in [Managers -> [Registries -> Token]]
    BY EcrFacts DEF Restart
  <2>2. rpc' \in [Clients -> RequestSteps] /\ saver' \in [Clients -> Managers \union {"save", "none"}]
    BY DEF Restart, RequestSteps
  <2>3. req' \in [Clients -> Request] /\ loadedConfig' \in [Clients -> [Registries -> Token]]
        /\ tokensCopy' \in [Clients -> [Registries -> Token]]
    BY EcrFacts DEF Restart
  <2>4. token' \in [Clients -> Token]
    BY EcrFacts DEF Restart
  <2> QED BY <1>0, <2>1, <2>2, <2>3, <2>4 DEF EcrTypeOK
<1>3. EntryInv'
  <2>1. \A r \in Registries : config'[r] \in Nat
    BY <1>0, EcrFacts DEF EcrTypeOK
  <2> QED BY <1>1, <2>1 DEF EntryInv, Covered
<1> QED BY <1>2, <1>3 DEF EcrInv

(* The invariant holds at first, *)
LEMMA EcrInvInit == EcrInit => EcrInv
<1> SUFFICES ASSUME EcrInit PROVE EcrInv
  OBVIOUS
<1>1. EcrTypeOK
  <2>1. tokenCache \in [Managers -> [Registries -> Token]]
    BY EcrFacts DEF EcrInit
  <2>2. rpc \in [Clients -> RequestSteps] /\ saver \in [Clients -> Managers \union {"save", "none"}]
    BY DEF EcrInit, RequestSteps
  <2>3. req \in [Clients -> Request] /\ loadedConfig \in [Clients -> [Registries -> Token]]
        /\ tokensCopy \in [Clients -> [Registries -> Token]]
    BY EcrFacts DEF EcrInit
  <2>4. token \in [Clients -> Token]
    BY EcrFacts DEF EcrInit
  <2>5. issued \in 0..MaxTokens /\ expired \in 0..issued
    BY EcrFacts DEF EcrInit
  <2> QED BY <2>1, <2>2, <2>3, <2>4, <2>5, EcrFacts DEF EcrInit, EcrTypeOK
<1>2. EntryInv
  <2>1. \A m \in Managers, r \in Registries : tokenCache[m][r] = 0 /\ config[r] = 0
    BY EcrFacts DEF EcrInit
  <2> QED BY <2>1 DEF EntryInv, Covered
<1> QED BY <1>1, <1>2 DEF EcrInv

(* and every step keeps it. *)
LEMMA EcrInvStep == EcrInv /\ [EcrNext]_ecrVars => EcrInv'
<1> SUFFICES ASSUME EcrInv, [EcrNext]_ecrVars PROVE EcrInv'
  OBVIOUS
<1>1. CASE UNCHANGED ecrVars
  <2>1. EntryInv'
    BY <1>1, StillCovered DEF ecrVars
  <2> QED BY <1>1, <2>1 DEF ecrVars, EcrInv, EcrTypeOK
<1>2. ASSUME NEW p \in Clients, RequestStep(p) PROVE EcrInv'
  BY <1>2, GetECRTokenGood, CacheTokenGood, LoadConfigGood, TruncateConfigGood,
     WriteConfigGood, SetRegistryAuthFailsGood DEF RequestStep
<1>3. ASSUME NEW p \in Clients, CopyTokens(p) PROVE EcrInv'
  BY <1>3, CopyTokensGood
<1>4. ASSUME NEW p \in Clients, SaveTokenCache(p) PROVE EcrInv'
  BY <1>4, SaveTokenCacheGood
<1>5. ASSUME NEW p \in Clients, NEW s \in starting, StartedAuth(p, s) PROVE EcrInv'
  BY <1>5, StartedAuthGood
<1>6. ASSUME NEW p \in Clients, NEW m \in Managers, NEW r \in Registries, AutoLogin(p, m, r)
      PROVE  EcrInv'
  BY <1>6, AutoLoginGood
<1>7. ASSUME NEW m \in Managers, LoadPersistedTokens(m) PROVE EcrInv'
  BY <1>7, LoadPersistedTokensGood
<1>8. CASE Expire
  BY <1>8, ExpireGood
<1>9. CASE Restart
  BY <1>9, RestartGood
<1> QED BY <1>1, <1>2, <1>3, <1>4, <1>5, <1>6, <1>7, <1>8, <1>9 DEF EcrNext

(* The invariant of the tokens. *)
LEMMA EcrInvariant == EcrSpec => []EcrInv
BY EcrInvInit, EcrInvStep, PTL DEF EcrSpec

(* The variables of the managers, their requests and their files keep      *)
(* their types.                                                            *)
THEOREM EcrTypes == EcrSpec => []EcrTypeOK
<1>1. EcrInv => EcrTypeOK
  BY DEF EcrInv
<1> QED BY <1>1, EcrInvariant, PTL

(* A valid token in a cache means that config.json has a valid one for     *)
(* that registry, unless SetRegistryAuth is under way for it, or has       *)
(* failed, or was overtaken by another, for any number of clients,         *)
(* registries and tokens, across expiry and restarts.                      *)
THEOREM LoginsUsable == EcrSpec => []LoginUsable
<1>1. EcrInv => LoginUsable
  <2> SUFFICES ASSUME EcrInv, NEW m \in Managers, NEW r \in Registries \ (InFlight \union lost),
                      IsTokenValid(tokenCache[m][r])
               PROVE  IsTokenValid(config[r])
    BY DEF LoginUsable
  <2>1. tokenCache[m][r] \in Nat /\ config[r] \in Nat /\ expired \in Nat
    BY EcrFacts DEF EcrInv, EcrTypeOK
  <2>2. ~WillEnter(r, tokenCache[m][r]) /\ \A p \in Clients : ~Entering(p, r, tokenCache[m][r])
    BY DEF InFlight, WillEnter, Entering
  <2>3. tokenCache[m][r] <= config[r]
    BY <2>2 DEF EcrInv, EntryInv, Covered
  <2> QED BY <2>1, <2>3 DEF IsTokenValid
<1> QED BY <1>1, EcrInvariant, PTL

-----------------------------------------------------------------------------
(* The parts side by side: each behaves as its own specification says.     *)
(* When another part moves, this one rests.                                *)
LEMMA StoresStep ==
  [Next]_vars => [VolumesNext]_volumeVars /\ [HostsNext]_hostsVars /\ [NetNext]_netVars
BY DEF Next, vars, storeVars, StoreNext, RestNext

(* The same for the tasks and for compose, *)
LEMMA TasksStep ==
  [Next]_vars => [HealthNext]_<<taskVars, healthVars>> /\ [ComposeNext]_composeVars
BY DEF Next, vars, StoreNext, RestNext

(* and for the ports, the images and the tokens. *)
LEMMA RestStep ==
  [Next]_vars => [PortsNext]_portVars /\ [ImagesNext]_imageVars /\ [EcrNext]_ecrVars
BY DEF Next, vars, restVars, StoreNext, RestNext

(* What is proved of a part alone holds of the parts side by side.         *)
THEOREM PartsBehave ==
  Spec => /\ VolumesSpec /\ HostsSpec /\ NetSpec /\ HealthSpec
          /\ ComposeSpec /\ PortsSpec /\ ImagesSpec /\ EcrSpec
<1>1. Init => /\ VolumesInit /\ HostsInit /\ NetInit /\ TaskInit /\ HealthInit /\ ComposeInit
              /\ PortsInit /\ ImagesInit /\ EcrInit
  BY DEF Init
<1> QED BY <1>1, StoresStep, TasksStep, RestStep, PTL
        DEF Spec, VolumesSpec, HostsSpec, NetSpec, HealthSpec, ComposeSpec, PortsSpec, ImagesSpec, EcrSpec

(* The variables of the part that moves have their types. *)
THEOREM PartsTypes == Spec => []PartsTypeOK
<1>1. Init => part \in Parts
  BY DEF Init
<1>2. part \in Parts /\ [Next]_vars => (part \in Parts)'
  BY DEF Next, vars
<1>3. /\ part \in Parts
      /\ VolumesTypeOK /\ HostsTypeOK /\ NetTypeOK /\ TaskTypeOK
      /\ ComposeTypeOK /\ PortsTypeOK /\ ImagesTypeOK /\ EcrTypeOK
      => PartsTypeOK
  BY PartsAssumption DEF PartsTypeOK
<1> QED BY <1>1, <1>2, <1>3, PartsBehave, VolumeTypes, HostsTypes, NetTypes, HealthTypes, ComposeTypes,
           PortTypes, ImageTypes, EcrTypes, PTL DEF Spec
=============================================================================
