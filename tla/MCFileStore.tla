---------------------------- MODULE MCFileStore ----------------------------
(* Three calls, two of which share a process and its fileStore. *)
EXTENDS FileStore, TLC

CONSTANTS c1, c2, c3, p1, p2

(* A content is a set, so that TLC can compare any two. *)
MCAbsent == {"absent"}
MCPartial == {"partial"}
MCCalls == {c1, c2, c3}
MCProcs == {p1, p2}
MCProcOf == (c1 :> p1) @@ (c2 :> p1) @@ (c3 :> p2)
=============================================================================
