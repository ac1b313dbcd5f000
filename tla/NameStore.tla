----------------------------- MODULE NameStore -----------------------------
(***************************************************************************)
(* pkg/namestore/namestore.go: one file per container name, holding the ID *)
(* of the container that owns it.  Each operation is one WithLock of the   *)
(* store, which FileStoreProofs shows to be indivisible.                   *)
(***************************************************************************)
CONSTANTS Names,  \* container names
          Ids,    \* container IDs
          NoId    \* no file for this name

ASSUME NoIdAssumption == NoId \notin Ids

VARIABLE names    \* names[n]: the ID in the file of name n

CanAcquire(n, i) == names[n] \in {NoId, i}

(* An owner may re-acquire; another container's name is a hard error. *)
Acquire(n, i) ==
  /\ CanAcquire(n, i)
  /\ names' = [names EXCEPT ![n] = i]

(* Mutant: Release without the check of the owner. *)
ReleaseAny(n, i) == names' = [names EXCEPT ![n] = NoId]

(* Mutant: Release that never deletes. *)
ReleaseNothing(n, i) == names' = names

(* Mutant: the file is emptied instead of deleted. *)
ReleaseEmpties(n, i) == names' = IF names[n] = i THEN [names EXCEPT ![n] = ""] ELSE names

(* Every caller goes on when Release fails (not found, or not the owner). *)
Release(n, i) == names' = IF names[n] = i THEN [names EXCEPT ![n] = NoId] ELSE names

CanRename(old, i, new) == names[new] = NoId /\ names[old] = i

Rename(old, i, new) ==
  /\ CanRename(old, i, new)
  /\ names' = [names EXCEPT ![new] = i, ![old] = NoId]
=============================================================================
