---------------------------- MODULE AtomicStore ----------------------------
(***************************************************************************)
(* What pkg/store/store.go promises to the callers of a Store: a function  *)
(* run under WithLock takes effect as a whole and once, between the call   *)
(* and its return, on the content the previous one left; a call that fails *)
(* or whose process dies has either taken effect or changed nothing.       *)
(*                                                                         *)
(* The stored value is the set of the calls that updated it since it was   *)
(* last deleted, so a lost update is a call missing from the set.          *)
(***************************************************************************)
CONSTANTS Calls, Absent

VARIABLES value,   \* the content stored under the key
          phase    \* phase[c]: how far call c has come

svars == <<value, phase>>

SInit ==
  /\ value = Absent
  /\ phase = [c \in Calls |-> "idle"]

Move(c, from, to) ==
  /\ phase[c] = from
  /\ phase' = [phase EXCEPT ![c] = to]

Begin(c) == Move(c, "idle", "called") /\ UNCHANGED value

Contributions(v) == IF v = Absent THEN {} ELSE v

ApplyUpdate(c) ==
  /\ Move(c, "called", "applied")
  /\ value' = Contributions(value) \union {c}

ApplyDelete(c) ==
  /\ Move(c, "called", "applied")
  /\ value # Absent
  /\ value' = Absent

Refuse(c) == Move(c, "called", "refused") /\ UNCHANGED value

Finish(c) ==
  /\ \/ Move(c, "applied", "ended")
     \/ Move(c, "refused", "ended")
  /\ UNCHANGED value

(* A process dies: each of its calls ends wherever it was. *)
Die ==
  /\ \E S \in SUBSET Calls : phase' = [c \in Calls |-> IF c \in S THEN "ended" ELSE phase[c]]
  /\ UNCHANGED value

SNext ==
  \/ \E c \in Calls : Begin(c) \/ ApplyUpdate(c) \/ ApplyDelete(c) \/ Refuse(c) \/ Finish(c)
  \/ Die

SSpec == SInit /\ [][SNext]_svars
=============================================================================
