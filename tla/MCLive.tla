------------------------------- MODULE MCLive -------------------------------
(***************************************************************************)
(* The parts with promises that something happens in the end, side by side *)
(* as in MCParts: the nydusify service, stop and the logger.  The fairness *)
(* of a part that rests asks for nothing, because none of its fair actions *)
(* is enabled in its initial state.                                        *)
(***************************************************************************)
EXTENDS NydusTasks, TaskControl, Logger

CONSTANT Parts

ASSUME PartsAssumption == Parts \subseteq {"nydus", "task", "logger"}

VARIABLE part

liveVars == <<vars, taskVars, loggerVars, part>>

LiveInit == Init /\ TaskInit /\ LoggerInit /\ part \in Parts

LiveNext ==
  /\ UNCHANGED part
  /\ \/ part = "nydus" /\ Next /\ UNCHANGED <<taskVars, loggerVars>>
     \/ part = "task" /\ TaskNext /\ UNCHANGED <<vars, loggerVars>>
     \/ part = "logger" /\ LoggerNext /\ UNCHANGED <<vars, taskVars>>

LiveSpec ==
  LiveInit /\ [][LiveNext]_liveVars /\ NydusFairness /\ TaskFairness /\ LoggerFairness

(* Every variable of the service and of the logger has its type. *)
LiveTypeOK == TypeOK /\ LoggerTypeOK /\ part \in Parts
=============================================================================
