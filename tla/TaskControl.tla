---------------------------- MODULE TaskControl -----------------------------
(***************************************************************************)
(* nerdctl stop, restart, kill, pause, unpause and start                   *)
(* (pkg/containerutil/containerutil.go, pkg/cmd/container/kill.go) on one  *)
(* container with the restart policy unless-stopped.                       *)
(*                                                                         *)
(* The task, its signals and the restart monitor are containerd's and are  *)
(* modelled from how nerdctl uses them: a call on a task that has stopped  *)
(* fails, a task that is paused sees a signal when it is resumed, and the  *)
(* monitor starts a stopped task unless the explicitly-stopped label is    *)
(* set.  A label is written by a get and a put of the whole record of the  *)
(* container, so that a put takes back what others wrote since the get.    *)
(***************************************************************************)
EXTENDS Parties

CONSTANT Signallers  \* bound: the clients that kill, pause and unpause

ASSUME SignallersAssumption == Signallers \subseteq Clients

VARIABLES
  task,      \* the status of the task
  signals,   \* the signals sent to it that it has not seen yet
  explicit,  \* the explicitly-stopped label, in the record of the container
  health,    \* the health-state label, in the same record (see HealthCheck)
  saved,     \* saved[p]: the labels as p has read them, to write them back
  cpc,       \* cpc[p]: the next step of the command of p
  wasPaused, \* wasPaused[p]: "paused" in Stop and killContainer
  exited,    \* exited[p]: exitCh of Stop is ready
  again,     \* again[p]: the Stop is that of a restart
  decided,   \* the restart monitor is about to start the task
  sure,      \* a history: the Stops that have not failed and that nothing has crossed
  skewed     \* a history: the health label is not what the probes made it

labelVars == <<explicit, health, saved, skewed>>
localVars == <<wasPaused, exited, again>>
taskVars == <<task, signals, labelVars, cpc, localVars, decided, sure>>

StopSteps == {"stopPut", "stopStatus", "term", "termResume", "termWait", "kill", "killResume", "killWait"}
StartSteps == {"startStatus", "statusGet", "statusPut", "startGet", "startPut", "newTask", "startTask"}
OtherSteps == StartSteps \union {"idle", "error", "putBack", "killPut", "killStatus", "killSend",
                                 "killUnpause", "pause", "unpause"}

NewState == [Status |-> "starting", FailingStreak |-> 0]
NoLabels == [explicit |-> FALSE, health |-> NewState]

(* A container that nerdctl start has started, so that it has all labels. *)
TaskInit ==
  /\ task = "running"
  /\ signals = {}
  /\ explicit = FALSE
  /\ health = NewState
  /\ saved = [p \in Clients |-> NoLabels]
  /\ cpc = [p \in Clients |-> "idle"]
  /\ wasPaused = [p \in Clients |-> FALSE]
  /\ exited = [p \in Clients |-> FALSE]
  /\ again = [p \in Clients |-> FALSE]
  /\ decided = FALSE
  /\ sure = {}
  /\ skewed = FALSE

Go(p, l) == cpc' = [cpc EXCEPT ![p] = l]

(* A command of p that is over forgets what it knew. *)
Leave(p, l) ==
  /\ Go(p, l)
  /\ wasPaused' = [wasPaused EXCEPT ![p] = FALSE]
  /\ exited' = [exited EXCEPT ![p] = FALSE]
  /\ again' = [again EXCEPT ![p] = FALSE]
End(p) == Leave(p, "idle")

(* Restart goes on with Start when Stop has returned no error. *)
StopReturns(p) == Leave(p, IF again[p] THEN "startStatus" ELSE "idle")

(* Stop, Start and killContainer store their error in a label at the end. *)
Fail(p) ==
  /\ Leave(p, "error")
  /\ sure' = IF cpc[p] \in StopSteps THEN sure \ {p} ELSE sure

-----------------------------------------------------------------------------
(* container.Update: a get of the whole record, in which one label is set  *)
(* (e is the explicitly-stopped label after that) ...                      *)
GetRecord(p, l, e) ==
  /\ saved' = [saved EXCEPT ![p] = [explicit |-> e, health |-> health]]
  /\ Go(p, l)
  /\ UNCHANGED <<task, signals, explicit, health, skewed, localVars, decided>>

(* ... and later a put of it, with the other labels as they were.          *)
PutRecord(p, l) ==
  /\ Go(p, l)
  /\ explicit' = saved[p].explicit
  /\ health' = saved[p].health
  /\ skewed' = (skewed \/ health # saved[p].health)
  /\ saved' = [saved EXCEPT ![p] = NoLabels]
  /\ UNCHANGED <<task, signals, localVars, decided>>

(* The Stops that still hold when p writes its labels back. *)
SureAfter(p) == IF explicit /\ ~saved[p].explicit THEN {} ELSE sure

(* The error label, which puts back whatever the record held at the get.   *)
ErrorLabel(p) == cpc[p] = "error" /\ GetRecord(p, "putBack", explicit) /\ UNCHANGED sure

(* The other gets and puts of the record: of update, of a Start that first *)
(* joins the namespaces of another container (Reconfig...Container), and   *)
(* the error label of rm, run and create, and of a start with --attach     *)
(* when the task has exited.                                               *)
Relabel(p) == cpc[p] = "idle" /\ GetRecord(p, "putBack", explicit) /\ UNCHANGED sure

PutBack(p) ==
  /\ cpc[p] = "putBack"
  /\ PutRecord(p, "idle")
  /\ sure' = SureAfter(p)

(* The error of an Update for that label is dropped. *)
PutBackFails(p) ==
  /\ cpc[p] \in {"error", "putBack"}
  /\ Go(p, "idle")
  /\ saved' = [saved EXCEPT ![p] = NoLabels]
  /\ UNCHANGED <<task, signals, explicit, health, skewed, localVars, decided, sure>>

-----------------------------------------------------------------------------
(* Mutant: Stop does not mark the container as stopped by the user. *)
StopUnmarked(p, restart) ==
  /\ cpc[p] = "idle"
  /\ saved' = [saved EXCEPT ![p] = [explicit |-> explicit, health |-> health]]
  /\ again' = [again EXCEPT ![p] = restart]
  /\ Go(p, "stopPut")
  /\ UNCHANGED <<task, signals, explicit, health, skewed, wasPaused, exited, decided, sure>>

(* UpdateExplicitlyStoppedLabel(true), the get ... *)
Stop(p, restart) ==
  /\ cpc[p] = "idle"
  /\ saved' = [saved EXCEPT ![p] = [explicit |-> TRUE, health |-> health]]
  /\ again' = [again EXCEPT ![p] = restart]
  /\ Go(p, "stopPut")
  /\ UNCHANGED <<task, signals, explicit, health, skewed, wasPaused, exited, decided, sure>>

(* ... and the put.  A start that the monitor has decided on before comes  *)
(* all the same.                                                           *)
StopLabel(p) ==
  /\ cpc[p] = "stopPut"
  /\ PutRecord(p, "stopStatus")
  /\ sure' = IF decided THEN sure ELSE sure \union {p}

(* The status, and task.Wait; without a timeout there is no SIGTERM. *)
StopStatus(p) ==
  /\ cpc[p] = "stopStatus"
  /\ \/ task \in {"created", "stopped"} /\ StopReturns(p)
     \/ /\ task \in {"running", "paused"}
        /\ \E l \in {"term", "kill"} : Go(p, l)
        /\ wasPaused' = [wasPaused EXCEPT ![p] = (task = "paused")]
        /\ UNCHANGED <<exited, again>>
  /\ UNCHANGED <<task, signals, labelVars, decided, sure>>

(* task.Kill, which fails when the task is gone (and may fail otherwise,   *)
(* see CommandFails), and then task.Resume if the task was paused.         *)
Signal(p, sig, resume, wait) ==
  /\ \/ task = "stopped" /\ Fail(p) /\ UNCHANGED signals
     \/ /\ task # "stopped"
        /\ signals' = signals \union {sig}
        /\ Go(p, IF wasPaused[p] THEN resume ELSE wait)
        /\ UNCHANGED <<localVars, sure>>
  /\ UNCHANGED <<task, labelVars, decided>>

SendTerm(p) == cpc[p] = "term" /\ Signal(p, "TERM", "termResume", "termWait")
SendKill(p) == cpc[p] = "kill" /\ Signal(p, "KILL", "killResume", "killWait")

(* task.Resume; an error is logged, and "paused" kept for the next time. *)
StopResume(p) ==
  /\ \/ cpc[p] = "termResume" /\ Go(p, "termWait")
     \/ cpc[p] = "killResume" /\ Go(p, "killWait")
  /\ \/ task = "paused" /\ task' = "running" /\ wasPaused' = [wasPaused EXCEPT ![p] = FALSE]
     \/ task # "paused" /\ UNCHANGED <<task, wasPaused>>
  /\ UNCHANGED <<signals, labelVars, exited, again, decided, sure>>

(* Mutant: a timeout counts as the end of the task. *)
TimeoutIsExit(p) ==
  /\ cpc[p] \in {"termWait", "killWait"}
  /\ cpc[p] = "termWait" \/ exited[p]
  /\ StopReturns(p)
  /\ UNCHANGED <<task, signals, labelVars, decided, sure>>

(* Mutant: the wait for SIGTERM has no timeout. *)
WaitForExit(p) ==
  /\ cpc[p] \in {"termWait", "killWait"}
  /\ exited[p] /\ StopReturns(p)
  /\ UNCHANGED <<task, signals, labelVars, decided, sure>>

(* The select takes either branch when both are ready; a wait that fails   *)
(* counts as a timeout.  A cancelled ctx: see CommandFails.                *)
waitContainerStop(p) ==
  /\ cpc[p] \in {"termWait", "killWait"}
  /\ \/ exited[p] /\ StopReturns(p)
     \/ cpc[p] = "termWait" /\ Go(p, "kill") /\ UNCHANGED localVars
  /\ UNCHANGED <<task, signals, labelVars, decided, sure>>

(* Every call of Stop, Start and killContainer may return an error, with   *)
(* the task as it is: the label update, the labels, a timeout or a signal  *)
(* that does not parse, Task, Status, Wait, Kill and NewTask, and the wait *)
(* when ctx is cancelled.  An error of Resume is only logged.              *)
CommandFails(p) ==
  /\ cpc[p] \in (StopSteps \ {"termResume", "killResume"}) \union StartSteps
                \union {"killPut", "killStatus", "killSend"}
  /\ Fail(p)
  /\ saved' = [saved EXCEPT ![p] = NoLabels]
  /\ UNCHANGED <<task, signals, explicit, health, skewed, decided>>

-----------------------------------------------------------------------------
(* nerdctl kill marks the container, whatever the signal is. *)
Kill(p) == cpc[p] = "idle" /\ GetRecord(p, "killPut", TRUE) /\ UNCHANGED sure

KillLabel(p) ==
  /\ cpc[p] = "killPut"
  /\ PutRecord(p, "killStatus")
  /\ UNCHANGED sure

KillStatus(p) ==
  /\ cpc[p] = "killStatus"
  /\ \/ task \in {"created", "stopped"} /\ Fail(p)
     \/ /\ task \in {"running", "paused"}
        /\ Go(p, "killSend")
        /\ wasPaused' = [wasPaused EXCEPT ![p] = (task = "paused")]
        /\ UNCHANGED <<exited, again, sure>>
  /\ UNCHANGED <<task, signals, labelVars, decided>>

KillSend(p, sig) == cpc[p] = "killSend" /\ Signal(p, sig, "killUnpause", "idle")

KillUnpause(p) ==
  /\ cpc[p] = "killUnpause"
  /\ task' = IF task = "paused" THEN "running" ELSE task
  /\ End(p)
  /\ UNCHANGED <<signals, labelVars, decided, sure>>

(* Pause and Unpause look at the status first and call the task later. *)
PauseStatus(p) ==
  /\ cpc[p] = "idle"
  /\ \/ task = "running" /\ Go(p, "pause")
     \/ task = "paused" /\ Go(p, "unpause")
  /\ UNCHANGED <<task, signals, labelVars, localVars, decided, sure>>

Pause(p) ==
  /\ cpc[p] = "pause"
  /\ task' = IF task = "running" THEN "paused" ELSE task
  /\ End(p)
  /\ UNCHANGED <<signals, labelVars, decided, sure>>

Unpause(p) ==
  /\ cpc[p] = "unpause"
  /\ task' = IF task = "paused" THEN "running" ELSE task
  /\ End(p)
  /\ UNCHANGED <<signals, labelVars, decided, sure>>

-----------------------------------------------------------------------------
Start(p) ==
  /\ cpc[p] = "idle"
  /\ Go(p, "startStatus")
  /\ UNCHANGED <<task, signals, labelVars, localVars, decided, sure>>

(* A container that is up is left alone. *)
StartStatus(p) ==
  /\ cpc[p] = "startStatus"
  /\ Go(p, IF task = "running" THEN "idle" ELSE "statusGet")
  /\ UNCHANGED <<task, signals, labelVars, localVars, decided, sure>>

(* UpdateStatusLabel, of which only the other labels matter here. *)
StatusGet(p) == cpc[p] = "statusGet" /\ GetRecord(p, "statusPut", explicit) /\ UNCHANGED sure

StatusLabel(p) ==
  /\ cpc[p] = "statusPut"
  /\ PutRecord(p, "startGet")
  /\ sure' = SureAfter(p)

(* UpdateExplicitlyStoppedLabel(false). *)
StartGet(p) == cpc[p] = "startGet" /\ GetRecord(p, "startPut", FALSE) /\ UNCHANGED sure

StartLabel(p) ==
  /\ cpc[p] = "startPut"
  /\ PutRecord(p, "newTask")
  /\ sure' = {}

(* The old task is deleted if it has stopped; while there is one, there is *)
(* no new one.                                                             *)
NewTask(p) ==
  /\ cpc[p] = "newTask"
  /\ task = "stopped"
  /\ task' = "created"
  /\ signals' = {}
  /\ sure' = {}
  /\ Go(p, "startTask")
  /\ UNCHANGED <<labelVars, localVars, decided>>

StartTask(p) ==
  /\ cpc[p] = "startTask"
  /\ task = "created"
  /\ task' = "running"
  /\ sure' = {}
  /\ Go(p, "idle")
  /\ UNCHANGED <<signals, labelVars, localVars, decided>>

-----------------------------------------------------------------------------
(* The task ends, and everyone who waits for it learns of it. *)
Exits ==
  /\ task' = "stopped"
  /\ signals' = {}
  /\ exited' = [p \in Clients |-> exited[p] \/ cpc[p] \in StopSteps \ {"stopPut", "stopStatus"}]
  /\ UNCHANGED <<labelVars, cpc, wasPaused, again, decided, sure>>

TaskExits == task = "running" /\ Exits

(* A handler may ignore SIGTERM. *)
TermIgnored ==
  /\ task = "running" /\ "TERM" \in signals
  /\ signals' = signals \ {"TERM"}
  /\ UNCHANGED <<task, labelVars, cpc, localVars, decided, sure>>

(* SIGKILL ends a task that runs; a paused or created one may see it too. *)
KilledRunning == task = "running" /\ "KILL" \in signals /\ Exits
KilledOther == task \in {"paused", "created"} /\ "KILL" \in signals /\ Exits

(* The restart monitor lists the containers, and later starts those that   *)
(* were down and not explicitly stopped.                                   *)
MonitorDecides ==
  /\ ~decided
  /\ task = "stopped" /\ ~explicit
  /\ decided' = TRUE
  /\ UNCHANGED <<task, signals, labelVars, cpc, localVars, sure>>

MonitorStarts ==
  /\ decided
  /\ decided' = FALSE
  /\ task' = IF task = "stopped" THEN "running" ELSE task
  /\ UNCHANGED <<signals, labelVars, cpc, localVars, sure>>

(* The steps that Stop takes by itself, its deferred error label included. *)
StopStep(p) ==
  \/ StopLabel(p) \/ StopStatus(p) \/ SendTerm(p) \/ StopResume(p) \/ waitContainerStop(p)
  \/ SendKill(p) \/ ErrorLabel(p) \/ PutBack(p)

StartStep(p) ==
  \/ Start(p) \/ StartStatus(p) \/ StatusGet(p) \/ StatusLabel(p) \/ StartGet(p) \/ StartLabel(p)
  \/ NewTask(p) \/ StartTask(p)

(* The commands that stop, start and write labels, with their errors, and  *)
(* those that pause and signal.                                            *)
Restarting(p) ==
  \/ \E restart \in BOOLEAN : Stop(p, restart)
  \/ StopStep(p) \/ StartStep(p) \/ Relabel(p) \/ CommandFails(p) \/ PutBackFails(p)

Signalling(p) ==
  \/ Kill(p) \/ KillLabel(p) \/ KillStatus(p) \/ KillUnpause(p)
  \/ \E sig \in {"TERM", "KILL"} : KillSend(p, sig)
  \/ PauseStatus(p) \/ Pause(p) \/ Unpause(p)

TaskMoves ==
  TaskExits \/ TermIgnored \/ KilledRunning \/ KilledOther \/ MonitorDecides \/ MonitorStarts

TaskNext ==
  \/ \E p \in Clients : Restarting(p)
  \/ \E p \in Signallers : Signalling(p)
  \/ TaskMoves

(* A Stop that can go on does, and SIGKILL ends a task that keeps running; *)
(* nothing is assumed of the users, of errors, of the container or of the  *)
(* monitor.                                                                *)
TaskFairness ==
  /\ \A p \in Clients : WF_taskVars(StopStep(p))
  /\ SF_taskVars(KilledRunning)

TaskSpec == TaskInit /\ [][TaskNext]_taskVars /\ TaskFairness

-----------------------------------------------------------------------------
(* When Stop has returned without an error the task is down, and it stays  *)
(* down: the wait ends with the exit of the task and not with the timeout, *)
(* and the explicitly-stopped label, set before the first signal, keeps    *)
(* the restart monitor away.  What may bring the task back, and ends the   *)
(* promise, is a Start, a command that had read the record before the Stop *)
(* and puts the old label back, and a start that the monitor had decided   *)
(* on before the label was set (such a Stop is never in sure).  A Stop     *)
(* that returns an error promises nothing: the task may run on.            *)
StopHolds == \A p \in sure : cpc[p] \notin StopSteps => task \in {"stopped", "created"}

(* Stop returns, with its error label written if there is one, however     *)
(* often the task ignores SIGTERM, unless somebody pauses the task after   *)
(* Stop has looked at its status: then SIGKILL waits for a resume that     *)
(* Stop does not ask for.                                                  *)
StopEnds ==
  \A p \in Clients :
    LET Stopping == cpc[p] \in StopSteps \union {"error", "putBack"}
    IN  Stopping ~> (~Stopping \/ [](task = "paused"))
=============================================================================
