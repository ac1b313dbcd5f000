----------------------------- MODULE TaskProofs -----------------------------
(***************************************************************************)
(* Proofs about HealthCheck, with TaskControl in it, and about Compose.    *)
(*                                                                         *)
(* A Stop that returns no error and that nothing has crossed leaves the    *)
(* task down: TaskInv.  The health label agrees with the log of the        *)
(* probes: HealthInv.  What a command of compose may rely on at each of    *)
(* its steps, by itself and against the others: ComposeInv.                *)
(***************************************************************************)
EXTENDS HealthCheck, Compose, SequenceTheorems, FiniteSetTheorems, TLAPS

(* What a client has read of the record, and where a client can be. *)
Labels == [explicit : BOOLEAN, health : HealthState]
Steps == StopSteps \union OtherSteps \union ProbeSteps

(* The variables of TaskControl; a client may be at a step of a probe. *)
TaskShape ==
  /\ task \in {"created", "running", "paused", "stopped"}
  /\ signals \in SUBSET {"TERM", "KILL"}
  /\ explicit \in BOOLEAN
  /\ health \in HealthState
  /\ saved \in [Clients -> Labels]
  /\ cpc \in [Clients -> Steps]
  /\ wasPaused \in [Clients -> BOOLEAN]
  /\ exited \in [Clients -> BOOLEAN]
  /\ again \in [Clients -> BOOLEAN]
  /\ decided \in BOOLEAN
  /\ sure \in SUBSET Clients
  /\ skewed \in BOOLEAN

(* The task does not run. *)
Down == task \in {"stopped", "created"}

(* The steps of a Stop that has called task.Wait. *)
Waiting == StopSteps \ {"stopPut", "stopStatus"}

(* As long as nothing has crossed a Stop, its label is set and the monitor *)
(* has nothing to start; when it has heard of the end of the task, or has  *)
(* returned, the task does not run.                                        *)
StopInv ==
  /\ sure # {} => explicit /\ ~decided
  /\ \A p \in Clients : exited[p] => cpc[p] \in Waiting
  /\ \A p \in Clients : cpc[p] \in {"stopPut", "killPut"} => saved[p].explicit
  /\ \A p \in sure : exited[p] \/ cpc[p] \notin StopSteps => Down

TaskInv == TaskShape /\ StopInv

(* What it takes for a step of p to keep StopInv. *)
LEMMA ClientStep ==
  ASSUME TaskInv, NEW p \in Clients, TaskShape',
         \A q \in Clients \ {p} : cpc'[q] = cpc[q] /\ exited'[q] = exited[q] /\ saved'[q] = saved[q],
         exited'[p] => cpc'[p] \in Waiting,
         cpc'[p] \in {"stopPut", "killPut"} => saved'[p].explicit,
         sure' # {} => explicit' /\ ~decided' /\ (Down => Down'),
         sure' \subseteq sure \union {p},
         p \in sure' /\ (exited'[p] \/ cpc'[p] \notin StopSteps) => Down'
  PROVE  TaskInv'
<1>1. \A q \in Clients : exited'[q] => cpc'[q] \in Waiting
  BY DEF TaskInv, StopInv
<1>2. \A q \in Clients : cpc'[q] \in {"stopPut", "killPut"} => saved'[q].explicit
  BY DEF TaskInv, StopInv
<1>3. \A q \in sure' : exited'[q] \/ cpc'[q] \notin StopSteps => Down'
  <2> SUFFICES ASSUME NEW q \in sure', exited'[q] \/ cpc'[q] \notin StopSteps PROVE Down'
    OBVIOUS
  <2>1. CASE q = p
    BY <2>1
  <2>2. CASE q # p
    <3>1. q \in sure /\ q \in Clients \ {p}
      BY <2>2 DEF TaskShape
    <3> QED BY <3>1 DEF TaskInv, StopInv
  <2> QED BY <2>1, <2>2
<1> QED BY <1>1, <1>2, <1>3 DEF TaskInv, StopInv

(* A client that leaves its command, in types and values. *)
LEMMA LeaveStep ==
  ASSUME TaskShape, NEW p \in Clients, NEW l \in OtherSteps, Leave(p, l)
  PROVE  /\ cpc' \in [Clients -> Steps]
         /\ wasPaused' \in [Clients -> BOOLEAN] /\ exited' \in [Clients -> BOOLEAN]
         /\ again' \in [Clients -> BOOLEAN]
         /\ cpc'[p] = l /\ exited'[p] = FALSE
         /\ \A q \in Clients \ {p} : cpc'[q] = cpc[q] /\ exited'[q] = exited[q]
BY DEF TaskShape, Leave, Go, Steps

(* A client that goes on to its next step. *)
LEMMA GoStep ==
  ASSUME TaskShape, NEW p \in Clients, NEW l \in Steps, Go(p, l)
  PROVE  /\ cpc' \in [Clients -> Steps]
         /\ cpc'[p] = l
         /\ \A q \in Clients \ {p} : cpc'[q] = cpc[q]
BY DEF TaskShape, Go

(* The kinds of steps. *)
LEMMA StepKinds ==
  /\ StopSteps \cap OtherSteps = {} /\ StopSteps \cap ProbeSteps = {} /\ OtherSteps \cap ProbeSteps = {}
  /\ Waiting \subseteq StopSteps /\ StopSteps \subseteq Steps /\ OtherSteps \subseteq Steps
  /\ ProbeSteps \subseteq Steps /\ StartSteps \subseteq OtherSteps
  /\ "stopPut" \in StopSteps /\ "stopPut" \notin Waiting /\ "killPut" \in OtherSteps
BY DEF StopSteps, OtherSteps, ProbeSteps, StartSteps, Waiting, Steps

(* The labels of no record are labels. *)
LEMMA NoLabelsType == NoLabels \in Labels /\ NewState \in HealthState
BY DEF NoLabels, Labels, NewState, HealthState

(* A command returns; when it was a sure Stop and remains one, the task is *)
(* down.                                                                   *)
LEMMA LeaveInv ==
  ASSUME TaskInv, NEW p \in Clients, NEW l \in OtherSteps \ {"killPut"}, Leave(p, l),
         sure' \in SUBSET sure,
         p \in sure' => Down \/ exited[p] \/ cpc[p] \notin StopSteps,
         UNCHANGED <<signals, explicit, health, skewed, decided>>,
         saved' = saved \/ saved' = [saved EXCEPT ![p] = NoLabels],
         task' = task \/ (~Down /\ task' \in {"running", "paused"})
  PROVE  TaskInv'
<1>1. /\ cpc' \in [Clients -> Steps]
      /\ wasPaused' \in [Clients -> BOOLEAN] /\ exited' \in [Clients -> BOOLEAN]
      /\ again' \in [Clients -> BOOLEAN]
      /\ cpc'[p] = l /\ exited'[p] = FALSE
      /\ \A q \in Clients \ {p} : cpc'[q] = cpc[q] /\ exited'[q] = exited[q]
  BY LeaveStep DEF TaskInv
<1>2. saved' \in [Clients -> Labels] /\ \A q \in Clients \ {p} : saved'[q] = saved[q]
  BY NoLabelsType DEF TaskInv, TaskShape
<1>3. TaskShape'
  BY <1>1, <1>2 DEF TaskInv, TaskShape
<1>4. Down => Down'
  BY DEF Down
<1>5. p \in sure' => Down'
  BY <1>4 DEF TaskInv, TaskShape, StopInv
<1>6. sure' # {} => explicit' /\ ~decided'
  BY DEF TaskInv, StopInv
<1>7. cpc'[p] \notin {"stopPut", "killPut"}
  BY <1>1, StepKinds
<1> QED BY <1>1, <1>2, <1>3, <1>4, <1>5, <1>6, <1>7, ClientStep

(* A step within a Stop, or within another command, that writes no label. *)
LEMMA GoInv ==
  ASSUME TaskInv, NEW p \in Clients, NEW l \in Steps \ {"killPut"}, Go(p, l),
         \/ cpc[p] \in StopSteps /\ l \in Waiting
         \/ cpc[p] \notin StopSteps /\ l \notin StopSteps,
         UNCHANGED <<explicit, health, skewed, saved, exited, again, sure, decided>>,
         signals' \in SUBSET {"TERM", "KILL"},
         wasPaused' \in [Clients -> BOOLEAN],
         task' = task \/ (~Down /\ task' \in {"running", "paused"})
  PROVE  TaskInv'
<1>1. /\ cpc' \in [Clients -> Steps]
      /\ cpc'[p] = l
      /\ \A q \in Clients \ {p} : cpc'[q] = cpc[q]
  BY GoStep DEF TaskInv
<1>2. TaskShape'
  BY <1>1 DEF TaskInv, TaskShape
<1>3. Down => Down'
  BY DEF Down
<1>4. exited'[p] => cpc'[p] \in Waiting
  BY <1>1, StepKinds DEF TaskInv, StopInv
<1>5. cpc'[p] \notin {"stopPut", "killPut"}
  BY <1>1, StepKinds
<1>6. p \in sure' /\ (exited'[p] \/ cpc'[p] \notin StopSteps) => Down'
  BY <1>1, <1>3, StepKinds DEF TaskInv, StopInv
<1>7. sure' # {} => explicit' /\ ~decided'
  BY DEF TaskInv, StopInv
<1> QED BY <1>1, <1>2, <1>3, <1>4, <1>5, <1>6, <1>7, ClientStep

(* The get of an Update outside a Stop. *)
LEMMA GetInv ==
  ASSUME TaskInv, NEW p \in Clients, NEW l \in OtherSteps, NEW e \in BOOLEAN, GetRecord(p, l, e),
         cpc[p] \in OtherSteps, l = "killPut" => e, UNCHANGED sure
  PROVE  TaskInv'
<1> DEFINE new == [explicit |-> e, health |-> health]
<1>1. new \in Labels /\ new.explicit = e
  BY DEF TaskInv, TaskShape, Labels
<1>2. saved' \in [Clients -> Labels] /\ saved'[p] = new /\ \A q \in Clients \ {p} : saved'[q] = saved[q]
  BY <1>1 DEF GetRecord, TaskInv, TaskShape
<1> HIDE DEF new
<1>3. /\ cpc' \in [Clients -> Steps] /\ cpc'[p] = l
      /\ \A q \in Clients \ {p} : cpc'[q] = cpc[q]
  BY GoStep, StepKinds DEF TaskInv, GetRecord
<1>4. UNCHANGED <<task, signals, explicit, health, skewed, wasPaused, exited, again, decided, sure>>
  BY DEF GetRecord, localVars
<1>5. TaskShape'
  BY <1>2, <1>3, <1>4 DEF TaskInv, TaskShape
<1>6. cpc[p] \notin StopSteps /\ cpc'[p] \notin StopSteps /\ ~exited[p]
  BY <1>3, StepKinds DEF TaskInv, StopInv
<1>7. cpc'[p] \in {"stopPut", "killPut"} => saved'[p].explicit
  BY <1>1, <1>2, <1>3, StepKinds
<1>8. p \in sure => Down
  BY <1>6 DEF TaskInv, StopInv
<1>9. (sure # {} => explicit /\ ~decided) /\ (Down' <=> Down)
  BY <1>4 DEF TaskInv, StopInv, Down
<1> QED BY <1>2, <1>3, <1>4, <1>5, <1>6, <1>7, <1>8, <1>9, ClientStep

(* The put of an Update, outside a Stop or as its first step. *)
LEMMA PutInv ==
  ASSUME TaskInv, NEW p \in Clients, NEW l \in (OtherSteps \union {"stopStatus"}) \ {"killPut"}, PutRecord(p, l),
         cpc[p] \in OtherSteps \/ (cpc[p] = "stopPut" /\ l = "stopStatus"),
         sure' \in SUBSET (sure \union {p}), p \in sure' \ sure => cpc'[p] = "stopStatus",
         sure' # {} => saved[p].explicit /\ ~decided
  PROVE  TaskInv'
<1>1. saved' \in [Clients -> Labels] /\ \A q \in Clients \ {p} : saved'[q] = saved[q]
  BY NoLabelsType DEF PutRecord, TaskInv, TaskShape
<1>2. saved[p].explicit \in BOOLEAN /\ saved[p].health \in HealthState
  BY DEF TaskInv, TaskShape, Labels
<1>3. l \in Steps /\ "stopStatus" \in StopSteps
  BY StepKinds DEF StopSteps, Steps
<1>4. /\ cpc' \in [Clients -> Steps] /\ cpc'[p] = l
      /\ \A q \in Clients \ {p} : cpc'[q] = cpc[q]
  BY <1>3, GoStep DEF TaskInv, PutRecord
<1>5. /\ UNCHANGED <<task, signals, wasPaused, exited, again, decided>>
      /\ explicit' = saved[p].explicit /\ health' = saved[p].health /\ skewed' \in BOOLEAN
  BY DEF PutRecord, localVars, TaskInv, TaskShape
<1>6. TaskShape'
  BY <1>1, <1>2, <1>4, <1>5 DEF TaskInv, TaskShape
<1>7. ~exited[p]
  BY StepKinds DEF TaskInv, StopInv
<1>8. cpc'[p] \notin {"stopPut", "killPut"}
  BY <1>4, StepKinds DEF StopSteps
<1>9. p \in sure' /\ cpc'[p] \notin StopSteps => Down
  <2> SUFFICES ASSUME p \in sure', cpc'[p] \notin StopSteps PROVE Down
    OBVIOUS
  <2>1. p \in sure /\ cpc[p] \notin StopSteps
    BY <1>3, <1>4, StepKinds
  <2> QED BY <2>1 DEF TaskInv, StopInv
<1>10. Down' <=> Down
  BY <1>5 DEF Down
<1> QED BY <1>1, <1>4, <1>5, <1>6, <1>7, <1>8, <1>9, <1>10, ClientStep

(* What a client still knows of the Stops after its put. *)
LEMMA SureKept ==
  ASSUME TaskInv, NEW p \in Clients, sure' = SureAfter(p)
  PROVE  sure' \in SUBSET sure /\ (sure' # {} => saved[p].explicit /\ ~decided)
<1>1. explicit \in BOOLEAN /\ saved[p].explicit \in BOOLEAN
  BY DEF TaskInv, TaskShape, Labels
<1>2. CASE saved[p].explicit = TRUE
  BY <1>2 DEF SureAfter, TaskInv, StopInv
<1>3. CASE saved[p].explicit = FALSE
  BY <1>1, <1>3 DEF SureAfter, TaskInv, StopInv
<1> QED BY <1>1, <1>2, <1>3

-----------------------------------------------------------------------------
(* The call of Stop. *)
LEMMA StopCall == ASSUME TaskInv, NEW p \in Clients, NEW restart \in BOOLEAN, Stop(p, restart) PROVE TaskInv'
<1> DEFINE new == [explicit |-> TRUE, health |-> health]
<1>1. new \in Labels /\ new.explicit
  BY DEF TaskInv, TaskShape, Labels
<1>2. saved' \in [Clients -> Labels] /\ saved'[p] = new /\ \A q \in Clients \ {p} : saved'[q] = saved[q]
  BY <1>1 DEF Stop, TaskInv, TaskShape
<1> HIDE DEF new
<1>3. /\ cpc' \in [Clients -> Steps] /\ cpc'[p] = "stopPut"
      /\ \A q \in Clients \ {p} : cpc'[q] = cpc[q]
  BY GoStep, StepKinds DEF TaskInv, Stop
<1>4. /\ UNCHANGED <<task, signals, explicit, health, skewed, wasPaused, exited, decided, sure>>
      /\ again' \in [Clients -> BOOLEAN] /\ cpc[p] \notin StopSteps
  BY DEF Stop, TaskInv, TaskShape, StopSteps
<1>5. TaskShape'
  BY <1>2, <1>3, <1>4 DEF TaskInv, TaskShape
<1>6. ~exited[p] /\ (p \in sure => Down)
  BY <1>4, StepKinds DEF TaskInv, StopInv
<1>7. (sure # {} => explicit /\ ~decided) /\ (Down' <=> Down)
  BY <1>4 DEF TaskInv, StopInv, Down
<1> QED BY <1>1, <1>2, <1>3, <1>4, <1>5, <1>6, <1>7, ClientStep

(* It has written the label: from now on it is sure, unless the monitor is *)
(* about to start the task.                                                *)
LEMMA StopLabelInv == ASSUME TaskInv, NEW p \in Clients, StopLabel(p) PROVE TaskInv'
<1>1. cpc[p] = "stopPut" /\ PutRecord(p, "stopStatus") /\ saved[p].explicit
  BY DEF StopLabel, TaskInv, StopInv
<1>2. cpc'[p] = "stopStatus"
  BY <1>1 DEF PutRecord, Go, TaskInv, TaskShape
<1>3. decided \in BOOLEAN /\ (decided => sure = {})
  BY DEF TaskInv, TaskShape, StopInv
<1>4. sure' \in SUBSET (sure \union {p}) /\ (sure' # {} => ~decided)
  BY <1>3 DEF StopLabel
<1>5. "stopStatus" # "killPut"
  OBVIOUS
<1> QED BY <1>1, <1>2, <1>4, <1>5, PutInv

(* A Stop returns without an error. *)
LEMMA ReturnsInv ==
  ASSUME TaskInv, NEW p \in Clients, StopReturns(p), Down \/ exited[p],
         UNCHANGED <<task, signals, labelVars, decided, sure>>
  PROVE  TaskInv'
<1>1. PICK l \in {"startStatus", "idle"} : Leave(p, l)
  BY DEF StopReturns
<1>2. l \in OtherSteps \ {"killPut"}
  BY DEF OtherSteps, StartSteps
<1> QED BY <1>1, <1>2, LeaveInv DEF labelVars

(* A command returns an error, and is no sure Stop any more. *)
LEMMA FailInv ==
  ASSUME TaskInv, NEW p \in Clients, Fail(p), UNCHANGED <<task, signals, explicit, health, skewed, decided>>,
         saved' = saved \/ saved' = [saved EXCEPT ![p] = NoLabels]
  PROVE  TaskInv'
<1>1. Leave(p, "error") /\ "error" \in OtherSteps \ {"killPut"}
  BY DEF Fail, OtherSteps
<1>2. sure' \in SUBSET sure /\ (p \in sure' => cpc[p] \notin StopSteps)
  BY DEF Fail
<1> QED BY <1>1, <1>2, LeaveInv

(* Stop reads the status of the task. *)
LEMMA StopStatusInv == ASSUME TaskInv, NEW p \in Clients, StopStatus(p) PROVE TaskInv'
<1> USE DEF StopStatus
<1>1. CASE task \in {"created", "stopped"} /\ StopReturns(p)
  BY <1>1, ReturnsInv DEF Down
<1>2. CASE /\ task \in {"running", "paused"}
           /\ \E l \in {"term", "kill"} : Go(p, l)
           /\ wasPaused' = [wasPaused EXCEPT ![p] = (task = "paused")]
           /\ UNCHANGED <<exited, again>>
  <2>1. wasPaused' \in [Clients -> BOOLEAN] /\ signals' \in SUBSET {"TERM", "KILL"}
    BY <1>2 DEF TaskInv, TaskShape
  <2>2. PICK l \in {"term", "kill"} : Go(p, l)
    BY <1>2
  <2>3. cpc[p] \in StopSteps /\ l \in Waiting /\ l \in Steps \ {"killPut"}
    BY DEF StopSteps, Waiting, Steps
  <2>4. UNCHANGED <<task, explicit, health, skewed, saved, exited, again, sure, decided>>
    BY <1>2 DEF labelVars
  <2> QED BY <2>1, <2>2, <2>3, <2>4, GoInv
<1> QED BY <1>1, <1>2

(* A signal is sent; it is pending, or the command fails. *)
LEMMA SignalInv ==
  ASSUME TaskInv, NEW p \in Clients, NEW sig \in {"TERM", "KILL"}, NEW resume, NEW wait,
         \/ cpc[p] \in StopSteps /\ {resume, wait} \subseteq Waiting
         \/ cpc[p] \notin StopSteps /\ {resume, wait} \subseteq OtherSteps \ {"killPut"},
         Signal(p, sig, resume, wait)
  PROVE  TaskInv'
<1>0. UNCHANGED <<task, explicit, health, skewed, saved, decided>>
  BY DEF Signal, labelVars
<1>1. CASE task = "stopped" /\ Fail(p) /\ UNCHANGED signals
  BY <1>0, <1>1, FailInv
<1>2. CASE /\ task # "stopped"
           /\ signals' = signals \union {sig}
           /\ Go(p, IF wasPaused[p] THEN resume ELSE wait)
           /\ UNCHANGED <<localVars, sure>>
  <2>1. signals' \in SUBSET {"TERM", "KILL"} /\ wasPaused' \in [Clients -> BOOLEAN]
        /\ UNCHANGED <<exited, again, sure>>
    BY <1>2 DEF TaskInv, TaskShape, localVars
  <2>2. PICK l \in {resume, wait} : Go(p, l)
    BY <1>2
  <2>3. /\ \/ cpc[p] \in StopSteps /\ l \in Waiting
           \/ cpc[p] \notin StopSteps /\ l \notin StopSteps
        /\ l \in Steps \ {"killPut"}
    BY StepKinds
  <2> QED BY <1>0, <2>1, <2>2, <2>3, GoInv
<1> QED BY <1>1, <1>2 DEF Signal

(* The two signals of Stop. *)
LEMMA SendInv == ASSUME TaskInv, NEW p \in Clients, SendTerm(p) \/ SendKill(p) PROVE TaskInv'
<1>1. CASE SendTerm(p)
  BY <1>1, SignalInv DEF SendTerm, StopSteps, Waiting
<1>2. CASE SendKill(p)
  BY <1>2, SignalInv DEF SendKill, StopSteps, Waiting
<1> QED BY <1>1, <1>2

(* Stop resumes a task that was paused. *)
LEMMA ResumeInv == ASSUME TaskInv, NEW p \in Clients, StopResume(p) PROVE TaskInv'
<1>1. PICK l \in {"termWait", "killWait"} : Go(p, l)
  BY DEF StopResume
<1>2. cpc[p] \in StopSteps /\ l \in Waiting /\ l \in Steps \ {"killPut"}
  BY DEF StopSteps, StopResume, Waiting, Steps
<1>3. /\ wasPaused' \in [Clients -> BOOLEAN] /\ signals' \in SUBSET {"TERM", "KILL"}
      /\ UNCHANGED <<explicit, health, skewed, saved, exited, again, sure, decided>>
  BY DEF TaskInv, TaskShape, StopResume, labelVars
<1>4. task' = task \/ (~Down /\ task' \in {"running", "paused"})
  BY DEF StopResume, Down
<1> QED BY <1>1, <1>2, <1>3, <1>4, GoInv

(* Stop waits for the end of the task. *)
LEMMA WaitInv == ASSUME TaskInv, NEW p \in Clients, waitContainerStop(p) PROVE TaskInv'
<1> USE DEF waitContainerStop
<1>1. CASE exited[p] /\ StopReturns(p)
  BY <1>1, ReturnsInv
<1>2. CASE cpc[p] = "termWait" /\ Go(p, "kill") /\ UNCHANGED localVars
  <2>1. /\ wasPaused' \in [Clients -> BOOLEAN] /\ signals' \in SUBSET {"TERM", "KILL"}
        /\ UNCHANGED <<task, explicit, health, skewed, saved, exited, again, sure, decided>>
    BY <1>2 DEF TaskInv, TaskShape, labelVars, localVars
  <2>2. cpc[p] \in StopSteps /\ "kill" \in Waiting /\ "kill" \in Steps \ {"killPut"}
    BY <1>2 DEF StopSteps, Waiting, Steps
  <2> QED BY <1>2, <2>1, <2>2, GoInv
<1> QED BY <1>1, <1>2

(* The labels that other commands, and commands that fail, put back. *)
LEMMA RelabelInv ==
  ASSUME TaskInv, NEW p \in Clients, ErrorLabel(p) \/ Relabel(p) \/ PutBack(p) \/ PutBackFails(p)
  PROVE  TaskInv'
<1>0. {"idle", "error", "putBack"} \subseteq OtherSteps \ {"killPut"} /\ explicit \in BOOLEAN
  BY DEF OtherSteps, TaskInv, TaskShape
<1>1. CASE ErrorLabel(p) \/ Relabel(p)
  <2>1. GetRecord(p, "putBack", explicit) /\ UNCHANGED sure /\ cpc[p] \in OtherSteps
    BY <1>0, <1>1 DEF ErrorLabel, Relabel
  <2> QED BY <1>0, <2>1, GetInv
<1>2. CASE PutBack(p)
  <2>1. PutRecord(p, "idle") /\ sure' = SureAfter(p) /\ cpc[p] \in OtherSteps
    BY <1>0, <1>2 DEF PutBack
  <2>2. sure' \in SUBSET sure /\ (sure' # {} => saved[p].explicit /\ ~decided)
    BY <2>1, SureKept
  <2> QED BY <1>0, <2>1, <2>2, PutInv
<1>3. CASE PutBackFails(p)
  <2>1. /\ cpc[p] \in OtherSteps /\ Go(p, "idle")
        /\ saved' = [saved EXCEPT ![p] = NoLabels]
        /\ UNCHANGED <<task, signals, explicit, health, skewed, wasPaused, exited, again, decided, sure>>
    BY <1>0, <1>3 DEF PutBackFails, localVars
  <2>2. saved' \in [Clients -> Labels] /\ \A q \in Clients \ {p} : saved'[q] = saved[q]
    BY <2>1, NoLabelsType DEF TaskInv, TaskShape
  <2>3. /\ cpc' \in [Clients -> Steps] /\ cpc'[p] = "idle"
        /\ \A q \in Clients \ {p} : cpc'[q] = cpc[q]
    BY <1>0, <2>1, GoStep, StepKinds DEF TaskInv
  <2>4. TaskShape'
    BY <2>1, <2>2, <2>3 DEF TaskInv, TaskShape
  <2>5. ~exited[p] /\ (p \in sure => Down)
    BY <2>1, StepKinds DEF TaskInv, StopInv
  <2>6. (sure # {} => explicit /\ ~decided) /\ (Down' <=> Down)
    BY <2>1 DEF TaskInv, StopInv, Down
  <2> QED BY <2>1, <2>2, <2>3, <2>4, <2>5, <2>6, ClientStep
<1> QED BY <1>1, <1>2, <1>3

(* An error of a call. *)
LEMMA CommandFailsInv == ASSUME TaskInv, NEW p \in Clients, CommandFails(p) PROVE TaskInv'
BY FailInv DEF CommandFails

(* kill, pause and unpause. *)
LEMMA SignallingInv == ASSUME TaskInv, NEW p \in Clients, Signalling(p) PROVE TaskInv'
<1>0. /\ wasPaused \in [Clients -> BOOLEAN] /\ signals \in SUBSET {"TERM", "KILL"}
      /\ {"idle", "killStatus", "killSend", "killUnpause", "pause", "unpause"} \subseteq OtherSteps \ {"killPut"}
      /\ "killPut" \in OtherSteps
  BY DEF TaskInv, TaskShape, OtherSteps
<1>1. CASE Kill(p)
  <2>1. cpc[p] \in OtherSteps /\ GetRecord(p, "killPut", TRUE) /\ UNCHANGED sure /\ TRUE \in BOOLEAN
    BY <1>0, <1>1 DEF Kill
  <2> QED BY <1>0, <2>1, GetInv
<1>2. CASE KillLabel(p)
  <2>1. cpc[p] \in OtherSteps /\ PutRecord(p, "killStatus") /\ UNCHANGED sure /\ saved[p].explicit
    BY <1>0, <1>2 DEF KillLabel, TaskInv, StopInv
  <2>2. sure # {} => ~decided
    BY DEF TaskInv, StopInv
  <2> QED BY <1>0, <2>1, <2>2, PutInv
<1>3. CASE KillStatus(p)
  <2>1. CASE task \in {"created", "stopped"} /\ Fail(p)
    BY <1>3, <2>1, FailInv DEF KillStatus, labelVars
  <2>2. CASE /\ task \in {"running", "paused"}
             /\ Go(p, "killSend")
             /\ wasPaused' = [wasPaused EXCEPT ![p] = (task = "paused")]
             /\ UNCHANGED <<exited, again, sure>>
    <3>1. wasPaused' \in [Clients -> BOOLEAN]
      BY <1>0, <2>2
    <3>2. cpc[p] \notin StopSteps /\ "killSend" \notin StopSteps /\ "killSend" \in Steps \ {"killPut"}
      BY <1>0, <1>3, StepKinds DEF KillStatus
    <3>3. UNCHANGED <<task, signals, explicit, health, skewed, saved, decided, sure, exited, again>>
      BY <1>3, <2>2 DEF KillStatus, labelVars
    <3> QED BY <1>0, <2>2, <3>1, <3>2, <3>3, GoInv
  <2> QED BY <1>3, <2>1, <2>2 DEF KillStatus
<1>4. ASSUME NEW sig \in {"TERM", "KILL"}, KillSend(p, sig) PROVE TaskInv'
  <2>1. cpc[p] \notin StopSteps /\ {"killUnpause", "idle"} \subseteq OtherSteps \ {"killPut"}
    BY <1>0, <1>4, StepKinds DEF KillSend
  <2> QED BY <1>4, <2>1, SignalInv DEF KillSend
<1>5. CASE KillUnpause(p) \/ Pause(p) \/ Unpause(p)
  <2>1. /\ cpc[p] \notin StopSteps /\ Leave(p, "idle")
        /\ UNCHANGED <<signals, explicit, health, skewed, saved, decided, sure>>
    BY <1>0, <1>5, StepKinds DEF KillUnpause, Pause, Unpause, End, labelVars
  <2>2. task' = task \/ (~Down /\ task' \in {"running", "paused"})
    BY <1>5 DEF KillUnpause, Pause, Unpause, Down
  <2> QED BY <1>0, <2>1, <2>2, LeaveInv
<1>6. CASE PauseStatus(p)
  <2>1. PICK l \in {"pause", "unpause"} : Go(p, l)
    BY <1>6 DEF PauseStatus
  <2>2. /\ cpc[p] \notin StopSteps /\ l \notin StopSteps /\ l \in Steps \ {"killPut"}
        /\ UNCHANGED <<task, signals, explicit, health, skewed, saved, wasPaused, exited, again, decided, sure>>
    BY <1>0, <1>6, StepKinds DEF PauseStatus, labelVars, localVars
  <2> QED BY <1>0, <2>1, <2>2, GoInv
<1> QED BY <1>1, <1>2, <1>3, <1>4, <1>5, <1>6 DEF Signalling

(* Start: the label goes, and with it what was sure. *)
LEMMA StartInv == ASSUME TaskInv, NEW p \in Clients, StartStep(p) PROVE TaskInv'
<1>0. /\ wasPaused \in [Clients -> BOOLEAN] /\ signals \in SUBSET {"TERM", "KILL"}
      /\ StartSteps \union {"idle"} \subseteq OtherSteps \ {"killPut"} /\ explicit \in BOOLEAN
  BY DEF TaskInv, TaskShape, OtherSteps, StartSteps
<1>1. CASE Start(p) \/ StartStatus(p)
  <2>1. PICK l \in {"idle", "startStatus", "statusGet"} : Go(p, l)
    BY <1>1 DEF Start, StartStatus
  <2>2. l \in OtherSteps \ {"killPut"} /\ cpc[p] \in OtherSteps
    BY <1>0, <1>1 DEF Start, StartStatus, StartSteps
  <2>3. UNCHANGED <<task, signals, explicit, health, skewed, saved, wasPaused, exited, again, decided, sure>>
    BY <1>1 DEF Start, StartStatus, labelVars, localVars
  <2> QED BY <1>0, <2>1, <2>2, <2>3, StepKinds, GoInv
<1>2. CASE StatusGet(p) \/ StartGet(p)
  <2>1. PICK l \in {"statusPut", "startPut"}, e \in {explicit, FALSE} : GetRecord(p, l, e) /\ UNCHANGED sure
    BY <1>2 DEF StatusGet, StartGet
  <2>2. l \in OtherSteps /\ l # "killPut" /\ cpc[p] \in OtherSteps /\ e \in BOOLEAN
    BY <1>0, <1>2 DEF StatusGet, StartGet, StartSteps
  <2> QED BY <2>1, <2>2, GetInv
<1>3. CASE StatusLabel(p)
  <2>1. /\ PutRecord(p, "startGet") /\ sure' = SureAfter(p) /\ cpc[p] \in OtherSteps
        /\ "startGet" \in OtherSteps \ {"killPut"}
    BY <1>0, <1>3 DEF StatusLabel, StartSteps
  <2>2. sure' \in SUBSET sure /\ (sure' # {} => saved[p].explicit /\ ~decided)
    BY <2>1, SureKept
  <2> QED BY <2>1, <2>2, PutInv
<1>4. CASE StartLabel(p)
  <2>1. /\ PutRecord(p, "newTask") /\ sure' = {} /\ cpc[p] \in OtherSteps
        /\ "newTask" \in OtherSteps \ {"killPut"}
    BY <1>0, <1>4 DEF StartLabel, StartSteps
  <2> QED BY <2>1, PutInv
<1>5. CASE NewTask(p) \/ StartTask(p)
  <2>1. PICK l \in {"idle", "startTask"} : Go(p, l)
    BY <1>5 DEF NewTask, StartTask
  <2>2. l \in OtherSteps \ {"killPut"} /\ cpc[p] \in OtherSteps
    BY <1>0, <1>5 DEF NewTask, StartTask, StartSteps
  <2>3. /\ sure' = {} /\ signals' \in SUBSET {"TERM", "KILL"} /\ task' \in {"created", "running"}
        /\ UNCHANGED <<explicit, health, skewed, saved, wasPaused, exited, again, decided>>
    BY <1>0, <1>5 DEF NewTask, StartTask, labelVars, localVars
  <2>4. /\ cpc' \in [Clients -> Steps] /\ cpc'[p] = l
        /\ \A q \in Clients \ {p} : cpc'[q] = cpc[q]
    BY <2>1, <2>2, StepKinds, GoStep DEF TaskInv
  <2>5. TaskShape'
    BY <2>3, <2>4 DEF TaskInv, TaskShape
  <2>6. ~exited[p] /\ cpc'[p] \notin {"stopPut", "killPut"}
    BY <2>2, <2>4, StepKinds DEF TaskInv, StopInv
  <2> QED BY <2>3, <2>4, <2>5, <2>6, ClientStep
<1> QED BY <1>1, <1>2, <1>3, <1>4, <1>5 DEF StartStep

(* The task, the kernel and the restart monitor. *)
LEMMA MovesInv == ASSUME TaskInv, TaskMoves PROVE TaskInv'
<1>1. CASE Exits
  <2>1. exited' \in [Clients -> BOOLEAN] /\ \A p \in Clients : exited'[p] = (exited[p] \/ cpc[p] \in Waiting)
    BY <1>1 DEF Exits, TaskInv, TaskShape, Waiting
  <2>2. TaskShape'
    BY <1>1, <2>1 DEF Exits, labelVars, TaskInv, TaskShape
  <2>3. StopInv'
    BY <1>1, <2>1 DEF Exits, labelVars, TaskInv, TaskShape, StopInv, Down
  <2> QED BY <2>2, <2>3 DEF TaskInv
<1>2. CASE TermIgnored
  <2>1. /\ signals' \in SUBSET {"TERM", "KILL"}
        /\ UNCHANGED <<task, explicit, health, skewed, saved, cpc, wasPaused, exited, again, decided, sure>>
    BY <1>2 DEF TermIgnored, TaskInv, TaskShape, labelVars, localVars
  <2> QED BY <2>1 DEF TaskInv, TaskShape, StopInv, Down
<1>3. CASE MonitorDecides
  <2>1. /\ decided' = TRUE /\ sure = {}
        /\ UNCHANGED <<task, signals, explicit, health, skewed, saved, cpc, wasPaused, exited, again, sure>>
    BY <1>3 DEF MonitorDecides, TaskInv, StopInv, labelVars, localVars
  <2> QED BY <2>1 DEF TaskInv, TaskShape, StopInv
<1>4. CASE MonitorStarts
  <2>1. /\ decided' = FALSE /\ sure = {} /\ task' \in {"created", "running", "paused", "stopped"}
        /\ UNCHANGED <<signals, explicit, health, skewed, saved, cpc, wasPaused, exited, again, sure>>
    BY <1>4 DEF MonitorStarts, TaskInv, TaskShape, StopInv, labelVars, localVars
  <2> QED BY <2>1 DEF TaskInv, TaskShape, StopInv
<1> QED BY <1>1, <1>2, <1>3, <1>4 DEF TaskMoves, TaskExits, KilledRunning, KilledOther

(* The commands that stop, start and write labels. *)
LEMMA RestartingInv == ASSUME TaskInv, NEW p \in Clients, Restarting(p) PROVE TaskInv'
BY StopCall, StopLabelInv, StopStatusInv, SendInv, ResumeInv, WaitInv, RelabelInv, CommandFailsInv, StartInv
   DEF Restarting, StopStep

(* The invariant at first. *)
LEMMA TaskInvInit == TaskInit => TaskInv
<1> SUFFICES ASSUME TaskInit PROVE TaskInv
  OBVIOUS
<1>1. NoLabels \in Labels /\ NewState \in HealthState /\ "idle" \in Steps /\ "idle" \notin {"stopPut", "killPut"}
  BY NoLabelsType DEF Steps, OtherSteps
<1>2. TaskShape
  BY <1>1 DEF TaskInit, TaskShape
<1>3. StopInv
  BY <1>1 DEF TaskInit, StopInv
<1> QED BY <1>2, <1>3 DEF TaskInv

(* TaskInv speaks of no variable but those of TaskControl. *)
LEMMA TaskFrame == TaskInv /\ UNCHANGED taskVars => TaskInv'
BY DEF TaskInv, TaskShape, StopInv, Down, taskVars, labelVars, localVars

(* What it is for. *)
LEMMA TaskHolds == TaskInv => StopHolds
BY DEF TaskInv, StopInv, StopHolds, Down

(* What a Stop without an error promises, for every number of clients and  *)
(* whatever they, the task and the restart monitor do at the same time.    *)
THEOREM StopKept == TaskSpec => []StopHolds
<1>1. TaskInv /\ [TaskNext]_taskVars => TaskInv'
  BY RestartingInv, SignallingInv, MovesInv, TaskFrame, SignallersAssumption DEF TaskNext
<1> QED BY <1>1, TaskInvInit, TaskHolds, PTL DEF TaskSpec

-----------------------------------------------------------------------------
(* The probes.                                                             *)
ProbeShape ==
  /\ healthLog \in Seq({"ok", "fail", "early"})
  /\ startPeriod \in BOOLEAN
  /\ result \in [Clients -> {"ok", "fail", "early"}]
  /\ state \in [Clients -> HealthState]
  /\ probes \in 0 .. MaxProbes

(* A health state tells what a log tells. *)
Matches(h, log) ==
  /\ h.FailingStreak = StreakOf(log)
  /\ h.Status = "unhealthy" <=> h.FailingStreak >= Retries

(* Probes that do not overlap: the labels match the log, up to the result  *)
(* that the probe has still to write there.                                *)
MatchInv ==
  ~skewed =>
    /\ \A p, q \in Clients : Probing(p) /\ Probing(q) => p = q
    /\ (\A p \in Clients : cpc[p] # "log") => Matches(health, healthLog)
    /\ \A p \in Clients : cpc[p] = "labels" => state[p] = StateAfter(health, result[p])
    /\ \A p \in Clients : cpc[p] = "setLabels" => saved[p].health = StateAfter(health, result[p])
    /\ \A p \in Clients : cpc[p] = "log" => Matches(health, Append(healthLog, result[p]))

HealthInv == TaskInv /\ ProbeShape /\ MatchInv

(* The failures at the end of a log, as a set of positions. *)
Streak(log) == {i \in DOMAIN log : log[i] = "fail" /\ \A j \in i .. Len(log) : log[j] # "ok"}

(* The failing probes at the end of a log are a finite set. *)
LEMMA StreakFinite ==
  ASSUME NEW log \in Seq({"ok", "fail", "early"})
  PROVE  /\ IsFiniteSet(Streak(log)) /\ StreakOf(log) \in Nat
         /\ StreakOf(log) = Cardinality(Streak(log))
         /\ Len(log) + 1 \notin Streak(log)
<1>1. DOMAIN log = 1 .. Len(log) /\ Len(log) \in Nat
  BY LenProperties
<1>2. IsFiniteSet(1 .. Len(log))
  BY <1>1, FS_Interval
<1>3. Streak(log) \subseteq 1 .. Len(log)
  BY <1>1 DEF Streak
<1>4. IsFiniteSet(Streak(log))
  BY <1>2, <1>3, FS_Subset
<1>5. StreakOf(log) = Cardinality(Streak(log))
  BY DEF StreakOf, Streak
<1>6. StreakOf(log) \in Nat
  BY <1>4, <1>5, FS_CardinalityType
<1>7. Len(log) + 1 \notin 1 .. Len(log)
  BY <1>1
<1> QED BY <1>3, <1>4, <1>5, <1>6, <1>7

(* What a result does to the streak of the log. *)
LEMMA StreakAppend ==
  ASSUME NEW log \in Seq({"ok", "fail", "early"}), NEW res \in {"ok", "fail", "early"}
  PROVE  /\ res = "ok" => StreakOf(Append(log, res)) = 0
         /\ res = "early" => StreakOf(Append(log, res)) = StreakOf(log)
         /\ res = "fail" => StreakOf(Append(log, res)) = StreakOf(log) + 1
<1> DEFINE new == Append(log, res)
           n == Len(log)
<1>1. /\ new \in Seq({"ok", "fail", "early"}) /\ Len(new) = n + 1 /\ n \in Nat
      /\ \A i \in 1 .. n : new[i] = log[i]
      /\ new[n + 1] = res
  BY AppendProperties
<1>2. DOMAIN new = 1 .. n + 1 /\ DOMAIN log = 1 .. n
  BY <1>1, LenProperties
<1>3. Len(log) = n /\ StreakOf(new) = Cardinality(Streak(new)) /\ StreakOf(log) = Cardinality(Streak(log))
      /\ IsFiniteSet(Streak(log)) /\ n + 1 \notin Streak(log)
  BY <1>1, StreakFinite
<1> HIDE DEF new, n
<1>4. ASSUME res = "ok" PROVE Streak(new) = {}
  <2>1. ASSUME NEW i \in Streak(new) PROVE FALSE
    <3>1. i \in 1 .. n + 1 /\ \A j \in i .. n + 1 : new[j] # "ok"
      BY <1>1, <1>2, <2>1 DEF Streak
    <3>2. n + 1 \in i .. n + 1
      BY <1>1, <3>1
    <3> QED BY <1>1, <1>4, <3>1, <3>2
  <2> QED BY <2>1
<1>5. ASSUME res # "ok", NEW i \in 1 .. n PROVE i \in Streak(new) <=> i \in Streak(log)
  <2>1. \A j \in i .. n : j \in 1 .. n /\ j \in i .. n + 1 /\ new[j] = log[j]
    BY <1>1
  <2>2. \A j \in i .. n + 1 : j \in i .. n \/ j = n + 1
    BY <1>1
  <2>3. (\A j \in i .. n + 1 : new[j] # "ok") <=> (\A j \in i .. n : log[j] # "ok")
    BY <1>1, <1>5, <2>1, <2>2
  <2>4. i \in 1 .. n + 1 /\ new[i] = log[i]
    BY <1>1
  <2> QED BY <1>1, <1>2, <1>3, <2>3, <2>4 DEF Streak
<1>6. ASSUME res = "early" PROVE Streak(new) = Streak(log)
  <2>1. n + 1 \notin Streak(new)
    BY <1>1, <1>6 DEF Streak
  <2>2. Streak(new) \subseteq 1 .. n + 1 /\ Streak(log) \subseteq 1 .. n
    BY <1>2 DEF Streak
  <2>3. \A i \in 1 .. n + 1 : i \in 1 .. n \/ i = n + 1
    BY <1>1
  <2>4. 1 .. n \subseteq 1 .. n + 1
    BY <1>1
  <2>5. \A i \in 1 .. n : i \in Streak(new) <=> i \in Streak(log)
    BY <1>5, <1>6
  <2> QED BY <2>1, <2>2, <2>3, <2>4, <2>5
<1>7. ASSUME res = "fail" PROVE Streak(new) = Streak(log) \union {n + 1}
  <2>1. n + 1 \in Streak(new)
    <3>1. \A j \in n + 1 .. n + 1 : j = n + 1
      BY <1>1
    <3>2. n + 1 \in 1 .. n + 1
      BY <1>1
    <3> QED BY <1>1, <1>2, <1>7, <3>1, <3>2 DEF Streak
  <2>2. Streak(new) \subseteq 1 .. n + 1 /\ Streak(log) \subseteq 1 .. n
    BY <1>2 DEF Streak
  <2>3. \A i \in 1 .. n + 1 : i \in 1 .. n \/ i = n + 1
    BY <1>1
  <2>4. \A i \in 1 .. n : i \in Streak(new) <=> i \in Streak(log)
    BY <1>5, <1>7
  <2> QED BY <2>1, <2>2, <2>3, <2>4
<1>8. res = "ok" => StreakOf(new) = 0
  BY <1>3, <1>4, FS_EmptySet
<1>9. res = "early" => StreakOf(new) = StreakOf(log)
  BY <1>3, <1>6
<1>10. res = "fail" => StreakOf(new) = StreakOf(log) + 1
  BY <1>3, <1>7, FS_AddElement
<1> QED BY <1>8, <1>9, <1>10 DEF new

(* updateHealthStatus does to the state what the result does to the log. *)
LEMMA MatchesAfter ==
  ASSUME NEW h \in HealthState, NEW log \in Seq({"ok", "fail", "early"}),
         NEW res \in {"ok", "fail", "early"}, Matches(h, log)
  PROVE  Matches(StateAfter(h, res), Append(log, res)) /\ StateAfter(h, res) \in HealthState
<1>1. h.Status \in {"starting", "healthy", "unhealthy"} /\ h.FailingStreak \in Nat
  BY DEF HealthState
<1>2. StateAfter(h, res) \in HealthState
  BY <1>1 DEF StateAfter, HealthState
<1>3. StateAfter(h, res).FailingStreak = StreakOf(Append(log, res))
  BY StreakAppend DEF Matches, StateAfter
<1>4. StateAfter(h, res).Status = "unhealthy" <=> StateAfter(h, res).FailingStreak >= Retries
  <2>1. CASE res = "ok"
    <3>1. StateAfter(h, res).Status = "healthy" /\ StateAfter(h, res).FailingStreak = 0
      BY <2>1 DEF StateAfter
    <3> QED BY <3>1, RetriesAssumption
  <2>2. CASE res = "early"
    <3>1. StateAfter(h, res).Status = h.Status /\ StateAfter(h, res).FailingStreak = h.FailingStreak
      BY <2>2 DEF StateAfter
    <3> QED BY <3>1 DEF Matches
  <2>3. CASE res = "fail"
    <3>1. /\ StateAfter(h, res).Status = IF h.FailingStreak + 1 >= Retries THEN "unhealthy" ELSE h.Status
          /\ StateAfter(h, res).FailingStreak = h.FailingStreak + 1
      BY <2>3 DEF StateAfter
    <3> QED BY <1>1, <3>1, RetriesAssumption DEF Matches
  <2> QED BY <2>1, <2>2, <2>3
<1> QED BY <1>2, <1>3, <1>4 DEF Matches

(* A client that is at no step of a probe, before and after a step. *)
Aside(q) == ~Probing(q) /\ ~Probing(q)'

(* A command of TaskControl leaves probes where they are; a put that       *)
(* changes the health label is noted.                                      *)
LEMMA ProbesApart ==
  ASSUME TaskInv, NEW p \in Clients, Restarting(p)
  PROVE  /\ \A q \in Clients : Aside(q) \/ (cpc'[q] = cpc[q] /\ saved'[q] = saved[q])
         /\ ~skewed' => ~skewed /\ health' = health
<1>1. PICK l \in StopSteps \union OtherSteps : cpc' = [cpc EXCEPT ![p] = l]
  BY DEF Restarting, StopStep, StartStep, Stop, StopLabel, StopStatus, SendTerm, SendKill, Signal, StopResume,
         waitContainerStop, ErrorLabel, PutBack, PutBackFails, Relabel, CommandFails, GetRecord, PutRecord,
         StopReturns, Fail, Leave, Go, Start, StartStatus, StatusGet, StatusLabel, StartGet, StartLabel,
         NewTask, StartTask, StopSteps, OtherSteps, StartSteps
<1>2. cpc[p] \in StopSteps \union OtherSteps
  BY DEF Restarting, StopStep, StartStep, Stop, StopLabel, StopStatus, SendTerm, SendKill, StopResume,
         waitContainerStop, ErrorLabel, PutBack, PutBackFails, Relabel, CommandFails,
         Start, StartStatus, StatusGet, StatusLabel, StartGet, StartLabel,
         NewTask, StartTask, StopSteps, OtherSteps, StartSteps
<1>3. Aside(p)
  BY <1>1, <1>2, StepKinds DEF Aside, Probing, TaskInv, TaskShape
<1>4. saved' = saved \/ \E r : saved' = [saved EXCEPT ![p] = r]
  BY DEF Restarting, StopStep, StartStep, Stop, StopLabel, StopStatus, SendTerm, SendKill, Signal, StopResume,
         waitContainerStop, ErrorLabel, PutBack, PutBackFails, Relabel, CommandFails, GetRecord, PutRecord,
         Start, StartStatus, StatusGet, StatusLabel, StartGet, StartLabel, NewTask, StartTask, labelVars
<1>5. \/ UNCHANGED <<health, skewed>>
      \/ health' = saved[p].health /\ skewed' = (skewed \/ health # saved[p].health)
  BY DEF Restarting, StopStep, StartStep, Stop, StopLabel, StopStatus, SendTerm, SendKill, Signal, StopResume,
         waitContainerStop, ErrorLabel, PutBack, PutBackFails, Relabel, CommandFails, GetRecord, PutRecord,
         Start, StartStatus, StatusGet, StatusLabel, StartGet, StartLabel, NewTask, StartTask, labelVars
<1>6. \A q \in Clients \ {p} : cpc'[q] = cpc[q] /\ saved'[q] = saved[q]
  BY <1>1, <1>4 DEF TaskInv, TaskShape
<1>7. ~skewed' => ~skewed /\ health' = health
  <2>1. CASE UNCHANGED <<health, skewed>>
    BY <2>1
  <2>2. CASE health' = saved[p].health /\ skewed' = (skewed \/ health # saved[p].health)
    BY <2>2
  <2> QED BY <1>5, <2>1, <2>2
<1>8. \A q \in Clients : Aside(q) \/ (cpc'[q] = cpc[q] /\ saved'[q] = saved[q])
  BY <1>3, <1>6
<1> QED BY <1>7, <1>8

(* Steps that no probe notices. *)
LEMMA MatchFrame ==
  ASSUME MatchInv, UNCHANGED <<healthLog, result, state>>,
         ~skewed' => ~skewed /\ health' = health,
         \A q \in Clients : Aside(q) \/ (cpc'[q] = cpc[q] /\ saved'[q] = saved[q])
  PROVE  MatchInv'
<1>1. {"log", "labels", "setLabels"} \subseteq ProbeSteps
  BY DEF ProbeSteps
<1>2. \A q \in Clients : /\ Probing(q)' <=> Probing(q)
                         /\ \A l \in ProbeSteps : cpc'[q] = l <=> cpc[q] = l
  BY DEF Probing, Aside
<1>3. \A q \in Clients : /\ cpc'[q] = "log" <=> cpc[q] = "log"
                         /\ cpc'[q] = "labels" <=> cpc[q] = "labels"
                         /\ cpc'[q] = "setLabels" => cpc[q] = "setLabels" /\ saved'[q] = saved[q]
  BY <1>1, <1>2 DEF Aside, Probing
<1> QED BY <1>2, <1>3 DEF MatchInv

(* The commands of TaskControl, next to probes. *)
LEMMA CommandsInv ==
  ASSUME HealthInv, UNCHANGED healthVars, TaskInv',
         (\E p \in Clients : Restarting(p)) \/ TaskMoves \/ UNCHANGED taskVars
  PROVE  HealthInv'
<1>1. /\ \A q \in Clients : Aside(q) \/ (cpc'[q] = cpc[q] /\ saved'[q] = saved[q])
      /\ ~skewed' => ~skewed /\ health' = health
  <2>1. CASE TaskMoves \/ UNCHANGED taskVars
    BY <2>1 DEF TaskMoves, TaskExits, TermIgnored, KilledRunning, KilledOther, Exits, MonitorDecides,
                MonitorStarts, taskVars, labelVars
  <2> QED BY <2>1, ProbesApart DEF HealthInv
<1>2. MatchInv'
  BY <1>1, MatchFrame DEF HealthInv, healthVars
<1>3. ProbeShape'
  BY DEF HealthInv, ProbeShape, healthVars
<1> QED BY <1>2, <1>3 DEF HealthInv

(* The steps of a probe leave the Stops alone. *)
LEMMA ProbeTask ==
  ASSUME TaskInv, NEW p \in Clients, NEW l \in {"idle"} \union ProbeSteps, Go(p, l),
         cpc[p] \in {"idle"} \union ProbeSteps,
         UNCHANGED <<task, signals, explicit, health, wasPaused, exited, again, decided, sure>>,
         skewed' \in BOOLEAN,
         saved' = saved \/ \E r \in Labels : saved' = [saved EXCEPT ![p] = r]
  PROVE  /\ TaskInv' /\ cpc'[p] = l /\ \A q \in Clients \ {p} : cpc'[q] = cpc[q] /\ saved'[q] = saved[q]
<1>1. {"idle"} \union ProbeSteps \subseteq Steps \ {"stopPut", "killPut"} /\ ({"idle"} \union ProbeSteps) \cap StopSteps = {}
  BY DEF OtherSteps, ProbeSteps, StopSteps, Steps
<1>2. /\ cpc' \in [Clients -> Steps] /\ cpc'[p] = l
      /\ \A q \in Clients \ {p} : cpc'[q] = cpc[q]
  BY <1>1, GoStep DEF TaskInv
<1>3. saved' \in [Clients -> Labels] /\ \A q \in Clients \ {p} : saved'[q] = saved[q]
  BY DEF TaskInv, TaskShape
<1>4. TaskShape'
  BY <1>2, <1>3 DEF TaskInv, TaskShape
<1>5. ~exited[p] /\ (p \in sure => Down) /\ cpc'[p] \notin {"stopPut", "killPut"}
  BY <1>1, <1>2, StepKinds DEF TaskInv, StopInv
<1>6. (sure # {} => explicit /\ ~decided) /\ (Down' <=> Down)
  BY DEF TaskInv, StopInv, Down
<1>7. TaskInv'
  BY <1>2, <1>3, <1>4, <1>5, <1>6, ClientStep
<1> QED BY <1>2, <1>3, <1>7

(* The steps of a probe, from its start to its last write. *)
LEMMA ProbeStartInv == ASSUME HealthInv, NEW p \in Clients, ProbeStart(p) PROVE HealthInv'
<1>1. /\ cpc[p] = "idle" /\ Go(p, "probe") /\ skewed' = (skewed \/ \E q \in Clients : Probing(q))
      /\ UNCHANGED <<task, signals, explicit, health, wasPaused, exited, again, decided, sure>>
      /\ UNCHANGED <<saved, healthLog, startPeriod, state>>
  BY DEF ProbeStart, localVars
<1>2. TaskInv' /\ cpc'[p] = "probe" /\ \A q \in Clients \ {p} : cpc'[q] = cpc[q]
  BY <1>1, ProbeTask DEF HealthInv, ProbeSteps
<1>3. ProbeShape'
  BY RetriesAssumption DEF HealthInv, ProbeShape, ProbeStart
<1>4. MatchInv'
  <2> SUFFICES ASSUME ~skewed' PROVE MatchInv'
    BY DEF MatchInv
  <2>1. ~skewed /\ \A q \in Clients : ~Probing(q)
    BY <1>1
  <2>2. \A q \in Clients : cpc[q] \notin {"log", "labels", "setLabels"}
    BY <2>1 DEF Probing, ProbeSteps
  <2>3. \A q \in Clients : cpc'[q] \notin {"log", "labels", "setLabels"} /\ (Probing(q)' => q = p)
    BY <1>2, <2>1, <2>2 DEF Probing
  <2>4. Matches(health', healthLog')
    BY <1>1, <2>1, <2>2 DEF HealthInv, MatchInv
  <2> QED BY <2>3, <2>4 DEF MatchInv
<1> QED BY <1>2, <1>3, <1>4 DEF HealthInv

(* The probe has its result. *)
LEMMA ProbeResultInv == ASSUME HealthInv, NEW p \in Clients, ProbeResult(p) PROVE HealthInv'
<1>1. /\ cpc[p] = "probe" /\ Go(p, "readState") /\ skewed' \in BOOLEAN
      /\ UNCHANGED <<task, signals, explicit, health, wasPaused, exited, again, decided, sure>>
      /\ UNCHANGED <<saved, skewed, healthLog, startPeriod, state, probes>>
  BY DEF ProbeResult, localVars, labelVars, HealthInv, TaskInv, TaskShape
<1>2. TaskInv' /\ cpc'[p] = "readState" /\ \A q \in Clients \ {p} : cpc'[q] = cpc[q]
  BY <1>1, ProbeTask DEF HealthInv, ProbeSteps
<1>3. ProbeShape' /\ \A q \in Clients \ {p} : result'[q] = result[q]
  BY <1>1 DEF HealthInv, ProbeShape, ProbeResult
<1>4. \A q \in Clients : Probing(q)' <=> Probing(q)
  BY <1>1, <1>2 DEF Probing, ProbeSteps
<1>5. MatchInv'
  BY <1>1, <1>2, <1>3, <1>4 DEF HealthInv, MatchInv
<1> QED BY <1>2, <1>3, <1>5 DEF HealthInv

(* It has read the state in the labels. *)
LEMMA ReadStateInv == ASSUME HealthInv, NEW p \in Clients, ReadState(p) PROVE HealthInv'
<1>1. /\ cpc[p] = "readState" /\ Go(p, "labels") /\ skewed' \in BOOLEAN
      /\ UNCHANGED <<task, signals, explicit, health, wasPaused, exited, again, decided, sure>>
      /\ UNCHANGED <<saved, skewed, healthLog, startPeriod, result, probes>>
  BY DEF ReadState, localVars, labelVars, HealthInv, TaskInv, TaskShape
<1>2. TaskInv' /\ cpc'[p] = "labels" /\ \A q \in Clients \ {p} : cpc'[q] = cpc[q]
  BY <1>1, ProbeTask DEF HealthInv, ProbeSteps
<1>3. StateAfter(health, result[p]) \in HealthState
  BY DEF HealthInv, TaskInv, TaskShape, ProbeShape, StateAfter, HealthState
<1>4. ProbeShape' /\ state'[p] = StateAfter(health, result[p]) /\ \A q \in Clients \ {p} : state'[q] = state[q]
  BY <1>1, <1>3 DEF HealthInv, ProbeShape, ReadState
<1>5. \A q \in Clients : Probing(q)' <=> Probing(q)
  BY <1>1, <1>2 DEF Probing, ProbeSteps
<1>6. MatchInv'
  BY <1>1, <1>2, <1>4, <1>5 DEF HealthInv, MatchInv
<1> QED BY <1>2, <1>4, <1>6 DEF HealthInv

(* It has read the labels once more. *)
LEMMA ReadLabelsInv == ASSUME HealthInv, NEW p \in Clients, ReadLabels(p) PROVE HealthInv'
<1> DEFINE new == [explicit |-> explicit, health |-> state[p]]
<1>1. /\ cpc[p] = "labels" /\ Go(p, "setLabels") /\ skewed' \in BOOLEAN
      /\ UNCHANGED <<task, signals, explicit, health, wasPaused, exited, again, decided, sure>>
      /\ UNCHANGED <<skewed, healthLog, startPeriod, result, state, probes>>
      /\ saved' = [saved EXCEPT ![p] = new]
  BY DEF ReadLabels, localVars, HealthInv, TaskInv, TaskShape
<1>2. new \in Labels /\ new.health = state[p]
  BY DEF HealthInv, TaskInv, TaskShape, ProbeShape, Labels
<1> HIDE DEF new
<1>3. /\ TaskInv' /\ cpc'[p] = "setLabels"
      /\ \A q \in Clients \ {p} : cpc'[q] = cpc[q] /\ saved'[q] = saved[q]
  BY <1>1, <1>2, ProbeTask DEF HealthInv, ProbeSteps
<1>4. saved'[p].health = state[p]
  BY <1>1, <1>2 DEF HealthInv, TaskInv, TaskShape
<1>5. ProbeShape'
  BY <1>1 DEF HealthInv, ProbeShape
<1>6. \A q \in Clients : Probing(q)' <=> Probing(q)
  BY <1>1, <1>3 DEF Probing, ProbeSteps
<1>7. MatchInv'
  BY <1>1, <1>3, <1>4, <1>6 DEF HealthInv, MatchInv
<1> QED BY <1>3, <1>5, <1>7 DEF HealthInv

(* It writes the labels, with the state that follows from the result. *)
LEMMA SetLabelsInv == ASSUME HealthInv, NEW p \in Clients, SetLabels(p) PROVE HealthInv'
<1>1. /\ cpc[p] = "setLabels" /\ Go(p, "log") /\ health' = saved[p].health /\ explicit' = saved[p].explicit
      /\ sure' = SureAfter(p) /\ Probing(p)
      /\ UNCHANGED <<task, signals, wasPaused, exited, again, decided, saved, skewed>>
      /\ UNCHANGED <<healthLog, startPeriod, result, state, probes>>
  BY DEF SetLabels, localVars, Probing, ProbeSteps
<1>2. /\ cpc' \in [Clients -> Steps] /\ cpc'[p] = "log"
      /\ \A q \in Clients \ {p} : cpc'[q] = cpc[q]
  BY <1>1, GoStep DEF HealthInv, TaskInv, ProbeSteps, Steps
<1>3. saved[p].explicit \in BOOLEAN /\ saved[p].health \in HealthState
  BY DEF HealthInv, TaskInv, TaskShape, Labels
<1>4. sure' \in SUBSET sure /\ (sure' # {} => explicit' /\ ~decided')
  BY <1>1, SureKept DEF HealthInv
<1>5. TaskShape'
  BY <1>1, <1>2, <1>3, <1>4 DEF HealthInv, TaskInv, TaskShape
<1>6. cpc[p] \notin StopSteps /\ cpc'[p] \notin {"stopPut", "killPut"}
  BY <1>1, <1>2 DEF StopSteps
<1>7. ~exited[p] /\ (p \in sure => Down) /\ (Down' <=> Down)
  BY <1>1, <1>6, StepKinds DEF HealthInv, TaskInv, StopInv, Down
<1>8. TaskInv'
  BY <1>1, <1>2, <1>4, <1>5, <1>6, <1>7, ClientStep DEF HealthInv
<1>9. ProbeShape'
  BY <1>1 DEF HealthInv, ProbeShape
<1>10. MatchInv'
  <2> SUFFICES ASSUME ~skewed' PROVE MatchInv'
    BY DEF MatchInv
  <2>1. ~skewed /\ \A q \in Clients \ {p} : ~Probing(q)
    BY <1>1 DEF HealthInv, MatchInv
  <2>2. \A q \in Clients \ {p} : /\ ~Probing(q)' /\ cpc[q] # "log"
                                 /\ cpc'[q] \notin {"log", "labels", "setLabels"}
    BY <1>2, <2>1 DEF Probing, ProbeSteps
  <2>3. Matches(health, healthLog) /\ saved[p].health = StateAfter(health, result[p])
    BY <1>1, <2>1, <2>2 DEF HealthInv, MatchInv
  <2>4. Matches(StateAfter(health, result[p]), Append(healthLog, result[p]))
    BY <2>3, MatchesAfter DEF HealthInv, TaskInv, TaskShape, ProbeShape
  <2>5. Matches(health', Append(healthLog', result'[p]))
    BY <1>1, <2>3, <2>4
  <2> QED BY <1>2, <2>2, <2>5 DEF MatchInv
<1> QED BY <1>8, <1>9, <1>10 DEF HealthInv

(* The end of a probe, before or after its line in the log. *)
LEMMA ProbeEndInv ==
  ASSUME HealthInv, NEW p \in Clients, ProbeEnd(p), Probing(p), skewed' \in BOOLEAN,
         UNCHANGED <<task, signals, explicit, health, wasPaused, exited, again, decided, sure>>
  PROVE  /\ TaskInv' /\ ~Probing(p)' /\ cpc'[p] = "idle"
         /\ \A q \in Clients \ {p} : /\ cpc'[q] = cpc[q] /\ saved'[q] = saved[q]
                                     /\ result'[q] = result[q] /\ state'[q] = state[q]
         /\ result' \in [Clients -> {"ok", "fail", "early"}] /\ state' \in [Clients -> HealthState]
<1>1. TaskInv' /\ cpc'[p] = "idle" /\ \A q \in Clients \ {p} : cpc'[q] = cpc[q] /\ saved'[q] = saved[q]
  BY ProbeTask, NoLabelsType DEF HealthInv, ProbeEnd, Probing
<1>2. /\ result' \in [Clients -> {"ok", "fail", "early"}] /\ state' \in [Clients -> HealthState]
      /\ \A q \in Clients \ {p} : result'[q] = result[q] /\ state'[q] = state[q]
  BY NoLabelsType DEF HealthInv, ProbeShape, ProbeEnd
<1> QED BY <1>1, <1>2 DEF Probing, ProbeSteps

(* It appends the result to the log. *)
LEMMA WriteLogInv == ASSUME HealthInv, NEW p \in Clients, WriteHealthLog(p) PROVE HealthInv'
<1>1. /\ cpc[p] = "log" /\ Probing(p) /\ ProbeEnd(p) /\ skewed' \in BOOLEAN
      /\ UNCHANGED <<task, signals, explicit, health, wasPaused, exited, again, decided, sure>>
      /\ UNCHANGED <<skewed, startPeriod, probes>> /\ healthLog' = Append(healthLog, result[p])
  BY DEF WriteHealthLog, Probing, ProbeSteps, localVars, HealthInv, TaskInv, TaskShape
<1>2. /\ TaskInv' /\ ~Probing(p)' /\ cpc'[p] = "idle"
      /\ \A q \in Clients \ {p} : cpc'[q] = cpc[q]
      /\ result' \in [Clients -> {"ok", "fail", "early"}] /\ state' \in [Clients -> HealthState]
  BY <1>1, ProbeEndInv
<1>3. ProbeShape'
  BY <1>1, <1>2, AppendProperties DEF HealthInv, ProbeShape
<1>4. MatchInv'
  <2> SUFFICES ASSUME ~skewed' PROVE MatchInv'
    BY DEF MatchInv
  <2>1. ~skewed /\ \A q \in Clients \ {p} : ~Probing(q)
    BY <1>1 DEF HealthInv, MatchInv
  <2>2. \A q \in Clients : ~Probing(q)' /\ cpc'[q] \notin {"log", "labels", "setLabels"}
    BY <1>2, <2>1 DEF Probing, ProbeSteps
  <2>3. Matches(health', healthLog')
    BY <1>1, <2>1 DEF HealthInv, MatchInv
  <2> QED BY <2>2, <2>3 DEF MatchInv
<1> QED BY <1>2, <1>3, <1>4 DEF HealthInv

(* It fails, or dies, at one of its steps. *)
LEMMA ProbeFailsInv == ASSUME HealthInv, NEW p \in Clients, ProbeFails(p) PROVE HealthInv'
<1>1. /\ Probing(p) /\ ProbeEnd(p) /\ skewed' = (skewed \/ cpc[p] = "log")
      /\ UNCHANGED <<task, signals, explicit, health, wasPaused, exited, again, decided, sure>>
      /\ UNCHANGED <<healthLog, startPeriod, probes>>
  BY DEF ProbeFails, localVars
<1>2. /\ TaskInv' /\ ~Probing(p)' /\ cpc'[p] = "idle"
      /\ \A q \in Clients \ {p} : /\ cpc'[q] = cpc[q] /\ saved'[q] = saved[q]
                                  /\ result'[q] = result[q] /\ state'[q] = state[q]
      /\ result' \in [Clients -> {"ok", "fail", "early"}] /\ state' \in [Clients -> HealthState]
  BY <1>1, ProbeEndInv
<1>3. ProbeShape'
  BY <1>1, <1>2 DEF HealthInv, ProbeShape
<1>4. MatchInv'
  <2> SUFFICES ASSUME ~skewed' PROVE MatchInv'
    BY DEF MatchInv
  <2>1. ~skewed /\ cpc[p] # "log" /\ \A q \in Clients \ {p} : ~Probing(q)
    BY <1>1 DEF HealthInv, MatchInv
  <2>2. \A q \in Clients : cpc[q] # "log" /\ ~Probing(q)' /\ cpc'[q] \notin {"log", "labels", "setLabels"}
    BY <1>2, <2>1 DEF Probing, ProbeSteps
  <2>3. Matches(health', healthLog')
    BY <1>1, <2>1, <2>2 DEF HealthInv, MatchInv
  <2> QED BY <2>2, <2>3 DEF MatchInv
<1> QED BY <1>2, <1>3, <1>4 DEF HealthInv

(* The start period ends. *)
LEMMA StartPeriodInv == ASSUME HealthInv, StartPeriodEnds PROVE HealthInv'
<1>1. TaskInv'
  BY TaskFrame DEF HealthInv, StartPeriodEnds
<1>2. ProbeShape'
  BY DEF HealthInv, ProbeShape, StartPeriodEnds
<1>3. UNCHANGED <<cpc, saved, health, skewed>>
  BY DEF StartPeriodEnds, taskVars, labelVars
<1>4. MatchInv'
  BY <1>3, MatchFrame DEF HealthInv, StartPeriodEnds
<1> QED BY <1>1, <1>2, <1>4 DEF HealthInv

(* The invariant at first. *)
LEMMA HealthInvInit == TaskInit /\ HealthInit => HealthInv
<1> SUFFICES ASSUME TaskInit, HealthInit PROVE HealthInv
  OBVIOUS
<1>1. TaskInv
  BY TaskInvInit
<1>2. NewState \in HealthState /\ healthLog \in Seq({"ok", "fail", "early"}) /\ healthLog = <<>>
  BY DEF NewState, HealthState, HealthInit
<1>3. ProbeShape
  <2>1. probes \in 0 .. MaxProbes
    BY RetriesAssumption DEF HealthInit
  <2> QED BY <1>2, <2>1 DEF HealthInit, ProbeShape
<1>4. StreakOf(<<>>) = 0
  <2>1. Streak(<<>>) = {}
    BY DEF Streak
  <2> QED BY <2>1, FS_EmptySet DEF StreakOf, Streak
<1>5. Matches(health, healthLog)
  BY <1>2, <1>4, RetriesAssumption DEF Matches, NewState, TaskInit
<1>6. \A q \in Clients : ~Probing(q) /\ cpc[q] = "idle"
  BY DEF TaskInit, Probing, ProbeSteps
<1>7. MatchInv
  BY <1>5, <1>6 DEF MatchInv
<1> QED BY <1>1, <1>3, <1>7 DEF HealthInv

(* Every step keeps it. *)
LEMMA HealthInvStep == HealthInv /\ [HealthNext]_<<taskVars, healthVars>> => HealthInv'
<1> SUFFICES ASSUME HealthInv, [HealthNext]_<<taskVars, healthVars>> PROVE HealthInv'
  OBVIOUS
<1>1. ASSUME UNCHANGED healthVars, (\E p \in Controllers : Restarting(p)) \/ TaskMoves \/ UNCHANGED taskVars
      PROVE  HealthInv'
  <2>1. (\E p \in Clients : Restarting(p)) \/ TaskMoves \/ UNCHANGED taskVars
    BY <1>1, RetriesAssumption
  <2>2. TaskInv'
    BY <2>1, RestartingInv, MovesInv, TaskFrame DEF HealthInv
  <2> QED BY <1>1, <2>1, <2>2, CommandsInv
<1>2. ASSUME NEW p \in Clients,
             \/ ProbeStart(p) \/ ProbeResult(p) \/ ReadState(p) \/ ReadLabels(p)
             \/ SetLabels(p) \/ WriteHealthLog(p) \/ ProbeFails(p)
      PROVE  HealthInv'
  BY <1>2, ProbeStartInv, ProbeResultInv, ReadStateInv, ReadLabelsInv, SetLabelsInv, WriteLogInv, ProbeFailsInv
<1>3. CASE StartPeriodEnds
  BY <1>3, StartPeriodInv
<1> QED BY <1>1, <1>2, <1>3 DEF HealthNext

(* The types of the commands and of the probes beside them. *)
THEOREM HealthTypes == HealthSpec => []TaskTypeOK
<1>1. HealthInv => TaskTypeOK
  BY DEF HealthInv, TaskInv, TaskShape, ProbeShape, TaskTypeOK, Labels, Steps
<1> QED BY <1>1, HealthInvInit, HealthInvStep, PTL DEF HealthSpec

(* What a Stop without an error promises holds beside probes, up to one    *)
(* that had read the labels before it and takes its label back.            *)
THEOREM StopKeptByProbes == HealthSpec => []StopHolds
<1>1. HealthInv => StopHolds
  BY TaskHolds DEF HealthInv
<1> QED BY <1>1, HealthInvInit, HealthInvStep, PTL DEF HealthSpec

(* The labels and the log tell the same, for every number of probes and    *)
(* every Retries, beside commands that write the whole record, as long as  *)
(* none of these has put an old health label back, and probes do not       *)
(* overlap or end between their two writes.                                *)
THEOREM LabelsMatchLog == HealthSpec => []HealthMatchesLog
<1>1. HealthInv => HealthMatchesLog
  <2> SUFFICES ASSUME HealthInv, ~skewed, \A p \in Clients : ~Probing(p) PROVE Matches(health, healthLog)
    BY DEF HealthMatchesLog, Matches
  <2>1. \A p \in Clients : cpc[p] # "log"
    BY DEF Probing, ProbeSteps
  <2> QED BY <2>1 DEF HealthInv, MatchInv
<1> QED BY <1>1, HealthInvInit, HealthInvStep, PTL DEF HealthSpec

-----------------------------------------------------------------------------
(* The steps under the lock. *)
Locked == {"network", "orphanRm", "service", "work", "rmAll", "downNetwork"}
Makers == {"up", "create", "run"}

LockInv(p) == kpc[p] \in Locked => composeLock = p

(* Which command is at which step, and what it has brought up. *)
StageInv(p) ==
  /\ kpc[p] = "idle" => mine[p] = {} /\ batch[p] = {} /\ ~failed[p]
  /\ kpc[p] = "network" => cmd[p] \in Makers
  /\ kpc[p] = "orphanRm" => cmd[p] \in {"up", "run", "down"}
  /\ kpc[p] = "service" => cmd[p] # "run"
  /\ kpc[p] = "rmAll" => cmd[p] \in {"rm", "down"}
  /\ kpc[p] = "downNetwork" => cmd[p] = "down"
  /\ kpc[p] \in {"network", "service"} => batch[p] = {}
  /\ "rm" \in opts[p] => cmd[p] = "run"
  /\ kpc[p] = "rmMine" => cmd[p] = "run"

(* compose run: its containers have the number 0. *)
RunInv(p) ==
  cmd[p] = "run" =>
    /\ \A c \in mine[p] : c[2] = 0
    /\ kpc[p] \in {"network", "orphanRm"} => left[p] \subseteq OneOff
    /\ kpc[p] = "work" => left[p] = {} /\ \A c \in batch[p] : c[2] = 0

(* What a service depends on is still to be brought up as well. *)
Closed(S) == \A s \in S, t \in Defined : <<s, t>> \in DependsOn => t \in S

(* compose up: what the services in work or ahead depend on is ahead, in   *)
(* work or up.                                                             *)
UpInv(p) ==
  cmd[p] = "up" =>
    /\ kpc[p] \in {"network", "orphanRm"} => mine[p] = {} /\ ~failed[p] /\ Closed(left[p])
    /\ kpc[p] \in {"service", "work"} =>
         /\ \A c \in mine[p] \union batch[p] : c[1] \notin left[p] /\ c[2] # 0
         /\ mine[p] \cap batch[p] = {}
         /\ \A c \in batch[p], t \in Defined : <<c[1], t>> \in DependsOn => Replicas(t) \subseteq mine[p]
         /\ ~failed[p] => \A s \in left[p], t \in Defined :
              <<s, t>> \in DependsOn => t \in left[p] \/ Replicas(t) \subseteq mine[p] \union batch[p]

(* The commands that bring containers up have made the network. *)
MadeInv(p) == cmd[p] \in Makers /\ kpc[p] \in {"orphanRm", "service", "work"} => network

PartyInv(p) == LockInv(p) /\ StageInv(p) /\ RunInv(p) /\ UpInv(p) /\ MadeInv(p)

ComposeInv == ComposeTypeOK /\ NetworkKept /\ \A p \in Clients : PartyInv(p)

(* The containers of a service. *)
LEMMA BoxFacts ==
  /\ \A s \in Services : \A c \in Replicas(s) : c \in Boxes /\ c[1] = s /\ c[2] # 0
  /\ \A s \in OneOff : <<s, 0>> \in Boxes /\ <<s, 0>>[2] = 0
  /\ \A s : Existing(s) \subseteq Boxes
  /\ AService \in Services
<1>1. \A s \in Services : \A c \in Replicas(s) : c \in Boxes
  BY DEF Boxes
<1>2. ASSUME NEW s \in Services, NEW c \in Replicas(s) PROVE c[1] = s /\ c[2] # 0
  <2>1. c = <<s, 1>> \/ c = <<s, 2>>
    BY <1>2 DEF Replicas
  <2> QED BY <2>1
<1>3. \A s \in OneOff : <<s, 0>> \in Boxes /\ <<s, 0>>[2] = 0
  BY DEF Boxes
<1>4. AService \in Services
  BY ServiceAssumption DEF AService
<1> QED BY <1>1, <1>2, <1>3, <1>4 DEF Existing

(* The dependencies of services: they are defined, and include their own. *)
LEMMA Dependencies ==
  ASSUME NEW S \in SUBSET Defined
  PROVE  /\ WithDependencies(S) \subseteq Defined
         /\ Closed(WithDependencies(S))
         /\ S \subseteq OneOff => WithDependencies(S) \subseteq OneOff
<1>1. \A e \in DependsOn : e = <<e[1], e[2]>> /\ e[1] \in Defined /\ e[2] \in Defined
  BY ServiceAssumption
<1>2. \A s, t : <<s, t>> \in DependsOn => <<s, t>>[1] = s /\ <<s, t>>[2] = t
  OBVIOUS
<1>3. WithDependencies(S) \subseteq Defined
  BY <1>1 DEF WithDependencies
<1>4. ASSUME NEW s \in WithDependencies(S), NEW t \in Defined, <<s, t>> \in DependsOn
      PROVE  t \in WithDependencies(S)
  <2>1. CASE s \in S
    <3>1. PICK f \in DependsOn : f = <<s, t>>
      BY <1>4
    <3>2. f[1] \in S /\ f[2] = t
      BY <2>1, <3>1
    <3> QED BY <3>2 DEF WithDependencies
  <2>2. ASSUME NEW e \in DependsOn, e[1] \in S, s = e[2] PROVE t \in WithDependencies(S)
    <3>1. PICK f \in DependsOn : f = <<s, t>>
      BY <1>4
    <3>2. <<e[1], f[2]>> \in DependsOn
      BY <2>2, <3>1, ServiceAssumption
    <3>3. PICK g \in DependsOn : g = <<e[1], t>>
      BY <3>1, <3>2
    <3>4. g[1] \in S /\ g[2] = t
      BY <2>2, <3>3
    <3> QED BY <3>4 DEF WithDependencies
  <2> QED BY <1>4, <2>1, <2>2 DEF WithDependencies
<1>5. S \subseteq OneOff => WithDependencies(S) \subseteq OneOff
  BY ServiceAssumption DEF WithDependencies
<1> QED BY <1>3, <1>4, <1>5 DEF Closed

(* Under the lock of p no other command is at a step that needs it. *)
LEMMA LockExclusive ==
  ASSUME ComposeInv, NEW p \in Clients, kpc[p] \in Locked, NEW q \in Clients \ {p}
  PROVE  kpc[q] \notin Locked
BY DEF ComposeInv, PartyInv, LockInv

(* A step of p, seen from another command. *)
LEMMA Bystander ==
  ASSUME NEW q \in Clients, PartyInv(q),
         kpc'[q] = kpc[q], cmd'[q] = cmd[q], opts'[q] = opts[q], left'[q] = left[q],
         batch'[q] = batch[q], failed'[q] = failed[q], mine'[q] \subseteq mine[q],
         kpc[q] \in Locked /\ cmd[q] = "up" => mine'[q] = mine[q],
         kpc[q] \in Locked => composeLock' = composeLock /\ (network' = network \/ network' = TRUE)
  PROVE  PartyInv(q)'
<1>1. LockInv(q)' /\ StageInv(q)' /\ RunInv(q)'
  BY DEF PartyInv, LockInv, StageInv, RunInv, Locked
<1>2. UpInv(q)'
  BY DEF PartyInv, UpInv, Locked
<1>3. MadeInv(q)'
  BY DEF PartyInv, MadeInv, Locked
<1> QED BY <1>1, <1>2, <1>3 DEF PartyInv

(* The process of p ends. *)
LEMMA QuitStep ==
  ASSUME ComposeInv, NEW p \in Clients, Quit(p), UNCHANGED box,
         \/ UNCHANGED network
         \/ kpc[p] \in Locked /\ network' = FALSE /\ \A c \in Boxes : box[c] # "running"
  PROVE  ComposeInv'
<1> USE DEF Quit, KGo
<1>1. ComposeTypeOK'
  <2>1. /\ kpc' \in [Clients -> {"idle", "network", "orphanRm", "service", "work", "rmAll",
                                "downNetwork", "logs", "stopMine", "rmMine"}]
        /\ cmd' \in [Clients -> Commands] /\ opts' \in [Clients -> SUBSET Options]
        /\ left' \in [Clients -> SUBSET Defined] /\ want' \in [Clients -> SUBSET Defined]
    BY DEF ComposeInv, ComposeTypeOK, Commands
  <2>2. /\ svc' \in [Clients -> Services]
        /\ batch' \in [Clients -> SUBSET Boxes] /\ mine' \in [Clients -> SUBSET Boxes]
        /\ failed' \in [Clients -> BOOLEAN]
    BY BoxFacts DEF ComposeInv, ComposeTypeOK
  <2>3. network' \in BOOLEAN /\ composeLock' \in Clients \union {NoClient}
    BY DEF ComposeInv, ComposeTypeOK
  <2> QED BY <2>1, <2>2, <2>3 DEF ComposeInv, ComposeTypeOK
<1>2. NetworkKept'
  BY DEF ComposeInv, NetworkKept
<1>3. PartyInv(p)'
  <2>1. kpc'[p] = "idle" /\ cmd'[p] = "up" /\ opts'[p] = {} /\ mine'[p] = {} /\ batch'[p] = {} /\ failed'[p] = FALSE
    BY DEF ComposeInv, ComposeTypeOK
  <2> QED BY <2>1 DEF PartyInv, LockInv, StageInv, RunInv, UpInv, MadeInv, Locked
<1>4. ASSUME NEW q \in Clients \ {p} PROVE PartyInv(q)'
  <2>1. /\ kpc'[q] = kpc[q] /\ cmd'[q] = cmd[q] /\ opts'[q] = opts[q] /\ left'[q] = left[q]
        /\ batch'[q] = batch[q] /\ failed'[q] = failed[q] /\ mine'[q] = mine[q]
    BY DEF ComposeInv, ComposeTypeOK
  <2>2. kpc[q] \in Locked => composeLock' = composeLock
    BY ClientAssumption DEF ComposeInv, PartyInv, LockInv
  <2>3. kpc[q] \in Locked => network' = network
    BY LockExclusive
  <2>4. PartyInv(q)
    BY DEF ComposeInv
  <2> QED BY <2>1, <2>2, <2>3, <2>4, Bystander
<1> QED BY <1>1, <1>2, <1>3, <1>4 DEF ComposeInv

(* A step of p that moves no container: p goes on to l. *)
LEMMA GoOn ==
  ASSUME ComposeInv, NEW p \in Clients,
         NEW l \in {"network", "orphanRm", "service", "work", "rmAll", "downNetwork", "logs",
                    "stopMine", "rmMine"},
         KGo(p, l), UNCHANGED <<box, svc>> \/ (UNCHANGED box /\ svc' \in [Clients -> Services]),
         NEW k \in Commands, cmd' = [cmd EXCEPT ![p] = k],
         NEW o \in SUBSET Options, opts' = [opts EXCEPT ![p] = o],
         NEW L \in SUBSET Defined, left' = [left EXCEPT ![p] = L],
         NEW W \in SUBSET Defined, want' = [want EXCEPT ![p] = W],
         NEW B \in SUBSET Boxes, batch' = [batch EXCEPT ![p] = B],
         UNCHANGED <<mine, failed>>, network' = network \/ network' = TRUE,
         composeLock' \in Clients \union {NoClient},
         composeLock' = composeLock \/ kpc[p] \in Locked \/ composeLock = NoClient,
         PartyInv(p)'
  PROVE  ComposeInv'
<1> USE DEF KGo
<1>1. ComposeTypeOK'
  <2>1. /\ kpc' \in [Clients -> {"idle", "network", "orphanRm", "service", "work", "rmAll",
                                "downNetwork", "logs", "stopMine", "rmMine"}]
        /\ cmd' \in [Clients -> Commands] /\ opts' \in [Clients -> SUBSET Options]
    BY DEF ComposeInv, ComposeTypeOK
  <2>2. /\ left' \in [Clients -> SUBSET Defined] /\ want' \in [Clients -> SUBSET Defined]
        /\ batch' \in [Clients -> SUBSET Boxes]
    BY DEF ComposeInv, ComposeTypeOK
  <2>3. svc' \in [Clients -> Services] /\ network' \in BOOLEAN
    BY DEF ComposeInv, ComposeTypeOK
  <2> QED BY <2>1, <2>2, <2>3 DEF ComposeInv, ComposeTypeOK
<1>2. NetworkKept'
  BY DEF ComposeInv, NetworkKept
<1>3. ASSUME NEW q \in Clients \ {p} PROVE PartyInv(q)'
  <2>1. /\ kpc'[q] = kpc[q] /\ cmd'[q] = cmd[q] /\ opts'[q] = opts[q] /\ left'[q] = left[q]
        /\ batch'[q] = batch[q] /\ failed'[q] = failed[q] /\ mine'[q] = mine[q]
    BY DEF ComposeInv, ComposeTypeOK
  <2>2. PartyInv(q)
    BY DEF ComposeInv
  <2>3. kpc[q] \in Locked => composeLock' = composeLock
    BY <2>2, LockExclusive, ClientAssumption DEF PartyInv, LockInv
  <2> QED BY <2>1, <2>2, <2>3, Bystander
<1> QED BY <1>1, <1>2, <1>3 DEF ComposeInv

(* What is known of p before its step. *)
LEMMA Known ==
  ASSUME ComposeInv, NEW p \in Clients
  PROVE  /\ cmd = [cmd EXCEPT ![p] = cmd[p]] /\ cmd[p] \in Commands
         /\ opts = [opts EXCEPT ![p] = opts[p]] /\ opts[p] \in SUBSET Options
         /\ left = [left EXCEPT ![p] = left[p]] /\ left[p] \in SUBSET Defined
         /\ want = [want EXCEPT ![p] = want[p]] /\ want[p] \in SUBSET Defined
         /\ batch = [batch EXCEPT ![p] = batch[p]] /\ batch[p] \in SUBSET Boxes
         /\ mine[p] \in SUBSET Boxes /\ failed[p] \in BOOLEAN
         /\ composeLock \in Clients \union {NoClient}
         /\ PartyInv(p)
BY DEF ComposeInv, ComposeTypeOK
-----------------------------------------------------------------------------
(* The steps from service to service.                                      *)
LEMMA BeginStep ==
  ASSUME ComposeInv, NEW p \in Clients, NEW k \in Commands, NEW S \in SUBSET Defined,
         NEW o \in SUBSET OptionsOf(k), Begin(p, k, S, o)
  PROVE  ComposeInv'
<1>1. PICK L \in SUBSET Defined : L = WithDependencies(S) /\ Closed(L) /\ (S \subseteq OneOff => L \subseteq OneOff)
  BY Dependencies
<1>2. PICK W \in SUBSET Defined : W = (IF "orphans" \in o THEN L ELSE {})
  OBVIOUS
<1>3. PICK l \in {"network", "service"} : l = (IF k \in {"up", "create", "run"} THEN "network" ELSE "service")
  OBVIOUS
<1>4. o \in SUBSET Options /\ ("rm" \in o => k = "run")
  BY DEF OptionsOf, Options, Commands
<1>5. /\ KGo(p, l) /\ cmd' = [cmd EXCEPT ![p] = k] /\ opts' = [opts EXCEPT ![p] = o]
      /\ left' = [left EXCEPT ![p] = L] /\ want' = [want EXCEPT ![p] = W]
      /\ batch' = [batch EXCEPT ![p] = batch[p]] /\ kpc[p] = "idle"
      /\ composeLock = NoClient /\ composeLock' = p
      /\ k = "run" => S \subseteq OneOff
      /\ UNCHANGED <<box, network, svc, mine, failed>>
  BY <1>1, <1>2, <1>3, Known DEF Begin
<1>6. kpc'[p] = l /\ cmd'[p] = k /\ opts'[p] = o /\ left'[p] = L /\ batch'[p] = batch[p]
  BY <1>5 DEF ComposeInv, ComposeTypeOK, KGo
<1>7. mine[p] = {} /\ batch[p] = {} /\ ~failed[p]
  BY <1>5, Known DEF PartyInv, StageInv
<1>8. PartyInv(p)'
  <2>1. LockInv(p)' /\ MadeInv(p)'
    BY <1>3, <1>5, <1>6 DEF LockInv, MadeInv, Makers
  <2>2. StageInv(p)'
    BY <1>3, <1>4, <1>5, <1>6, <1>7 DEF StageInv, Makers
  <2>3. RunInv(p)'
    BY <1>1, <1>3, <1>5, <1>6, <1>7 DEF RunInv
  <2>4. UpInv(p)'
    BY <1>1, <1>3, <1>5, <1>6, <1>7 DEF UpInv
  <2> QED BY <2>1, <2>2, <2>3, <2>4 DEF PartyInv
<1>9. batch[p] \in SUBSET Boxes
  BY Known
<1> QED BY <1>4, <1>5, <1>8, <1>9, GoOn

(* The search for orphans; down does it when it is through. *)
LEMMA OrphansStep ==
  ASSUME ComposeInv, NEW p \in Clients, FindOrphans(p), kpc[p] \in Locked, cmd[p] \in {"up", "run", "down"},
         cmd[p] # "down" => kpc[p] = "network" /\ network' = TRUE, network' = network \/ network' = TRUE,
         UNCHANGED <<box, composeLock, cmd, left, svc, mine, failed>>
  PROVE  ComposeInv'
<1>1. PICK B \in SUBSET Boxes : batch' = [batch EXCEPT ![p] = B]
  <2>1. UNION {Existing(s) : s \in Services \ want[p]} \subseteq Boxes /\ {} \subseteq Boxes
    BY BoxFacts
  <2> QED BY <2>1 DEF FindOrphans
<1>2. PICK o \in SUBSET Options : o = opts[p] \ {"orphans"}
  BY Known
<1>3. /\ KGo(p, "orphanRm") /\ cmd' = [cmd EXCEPT ![p] = cmd[p]] /\ opts' = [opts EXCEPT ![p] = o]
      /\ left' = [left EXCEPT ![p] = left[p]] /\ want' = [want EXCEPT ![p] = {}]
  BY <1>2, Known DEF FindOrphans
<1>4. kpc'[p] = "orphanRm" /\ cmd'[p] = cmd[p] /\ opts'[p] = o /\ left'[p] = left[p]
  BY <1>1, <1>3 DEF ComposeInv, ComposeTypeOK, KGo
<1>5. PartyInv(p)'
  <2>1. LockInv(p)' /\ MadeInv(p)'
    BY <1>4, Known DEF PartyInv, LockInv, MadeInv, Makers
  <2>2. StageInv(p)'
    BY <1>2, <1>4, Known DEF PartyInv, StageInv
  <2>3. RunInv(p)' /\ UpInv(p)'
    BY <1>4, Known DEF PartyInv, RunInv, UpInv
  <2> QED BY <2>1, <2>2, <2>3 DEF PartyInv
<1>6. /\ cmd[p] \in Commands /\ left[p] \in SUBSET Defined /\ {} \in SUBSET Defined
      /\ composeLock' \in Clients \union {NoClient}
  BY Known
<1> QED BY <1>1, <1>3, <1>5, <1>6, GoOn

(* up, create and run make the network. *)
LEMMA UpNetworkStep == ASSUME ComposeInv, NEW p \in Clients, UpNetwork(p) PROVE ComposeInv'
<1>0. kpc[p] = "network" /\ kpc[p] \in Locked /\ cmd[p] \in Makers
  BY Known DEF UpNetwork, Locked, PartyInv, StageInv
<1>1. CASE ~network /\ Quit(p) /\ UNCHANGED <<network, box>>
  BY <1>1, QuitStep
<1>2. CASE /\ network' = TRUE /\ cmd[p] = "create" /\ KGo(p, "service") /\ UNCHANGED <<opts, want, batch>>
           /\ UNCHANGED <<composeLock, cmd, left, svc, mine, failed, box>>
  <2>1. /\ cmd' = [cmd EXCEPT ![p] = cmd[p]] /\ opts' = [opts EXCEPT ![p] = opts[p]]
        /\ left' = [left EXCEPT ![p] = left[p]] /\ want' = [want EXCEPT ![p] = want[p]]
        /\ batch' = [batch EXCEPT ![p] = batch[p]]
    BY <1>2, Known
  <2>2. /\ kpc'[p] = "service" /\ cmd'[p] = cmd[p] /\ opts'[p] = opts[p] /\ left'[p] = left[p]
        /\ batch'[p] = batch[p]
    BY <1>2, <2>1 DEF ComposeInv, ComposeTypeOK, KGo
  <2>3. PartyInv(p)'
    BY <1>0, <1>2, <2>2, Known DEF PartyInv, LockInv, StageInv, RunInv, UpInv, MadeInv
  <2>4. /\ cmd[p] \in Commands /\ opts[p] \in SUBSET Options /\ left[p] \in SUBSET Defined
        /\ want[p] \in SUBSET Defined /\ batch[p] \in SUBSET Boxes
        /\ composeLock' \in Clients \union {NoClient}
    BY <1>2, Known
  <2> QED BY <1>2, <2>1, <2>3, <2>4, GoOn
<1>3. CASE /\ network' = TRUE /\ cmd[p] # "create" /\ FindOrphans(p)
           /\ UNCHANGED <<composeLock, cmd, left, svc, mine, failed, box>>
  BY <1>0, <1>3, OrphansStep DEF Makers
<1> QED BY <1>1, <1>2, <1>3 DEF UpNetwork

(* The orphans are gone, or their removal has failed. *)
LEMMA OrphansDoneStep == ASSUME ComposeInv, NEW p \in Clients, OrphansDone(p) PROVE ComposeInv'
<1>0. /\ kpc[p] = "orphanRm" /\ kpc[p] \in Locked /\ batch[p] = {}
      /\ UNCHANGED <<box, network, composeLock, cmd, opts, want, svc, mine, failed>>
  BY DEF OrphansDone, Locked
<1>1. /\ cmd' = [cmd EXCEPT ![p] = cmd[p]] /\ opts' = [opts EXCEPT ![p] = opts[p]]
      /\ want' = [want EXCEPT ![p] = want[p]]
      /\ cmd[p] \in Commands /\ opts[p] \in SUBSET Options /\ left[p] \in SUBSET Defined
      /\ want[p] \in SUBSET Defined /\ batch[p] \in SUBSET Boxes
      /\ composeLock' \in Clients \union {NoClient} /\ PartyInv(p)
  BY <1>0, Known
<1>2. ASSUME NEW l \in {"service", "downNetwork"}, KGo(p, l), UNCHANGED <<left, batch>>,
             \/ cmd[p] = "up" /\ l = "service"
             \/ cmd[p] = "down" /\ l = "downNetwork"
      PROVE  ComposeInv'
  <2>1. left' = [left EXCEPT ![p] = left[p]] /\ batch' = [batch EXCEPT ![p] = batch[p]]
    BY <1>2, Known
  <2>2. /\ kpc'[p] = l /\ cmd'[p] = cmd[p] /\ opts'[p] = opts[p] /\ left'[p] = left[p]
        /\ batch'[p] = batch[p]
    BY <1>1, <1>2, <2>1 DEF ComposeInv, ComposeTypeOK, KGo
  <2>3. LockInv(p)' /\ StageInv(p)' /\ RunInv(p)' /\ MadeInv(p)'
    BY <1>0, <1>1, <1>2, <2>2 DEF PartyInv, LockInv, StageInv, RunInv, MadeInv, Makers
  <2>4. UpInv(p)'
    BY <1>0, <1>1, <1>2, <2>2 DEF PartyInv, UpInv, Closed
  <2> QED BY <1>0, <1>1, <1>2, <2>1, <2>3, <2>4, GoOn DEF PartyInv
<1>3. CASE /\ cmd[p] = "run" /\ KGo(p, "work") /\ left' = [left EXCEPT ![p] = {}]
           /\ batch' = [batch EXCEPT ![p] = {<<s, 0>> : s \in left[p]}]
  <2>1. PICK B \in SUBSET Boxes : B = {<<s, 0>> : s \in left[p]} /\ \A c \in B : c[2] = 0
    <3>1. \A s \in left[p] : <<s, 0>> \in Boxes /\ <<s, 0>>[2] = 0
      BY <1>0, <1>1, <1>3, BoxFacts DEF PartyInv, RunInv
    <3>2. \A c \in {<<s, 0>> : s \in left[p]} : c \in Boxes /\ c[2] = 0
      BY <3>1
    <3> QED BY <3>2
  <2>2. /\ kpc'[p] = "work" /\ cmd'[p] = "run" /\ opts'[p] = opts[p] /\ left'[p] = {} /\ batch'[p] = B
    BY <1>1, <1>3, <2>1 DEF ComposeInv, ComposeTypeOK, KGo
  <2>3. PartyInv(p)'
    BY <1>0, <1>1, <1>3, <2>1, <2>2 DEF PartyInv, LockInv, StageInv, RunInv, UpInv, MadeInv, Makers
  <2>4. batch' = [batch EXCEPT ![p] = B] /\ {} \in SUBSET Defined
    BY <1>3, <2>1
  <2> QED BY <1>0, <1>1, <1>3, <2>3, <2>4, GoOn
<1> QED BY <1>2, <1>3 DEF OrphansDone

(* The next service, in the order of the dependencies. *)
LEMMA NextServiceStep ==
  ASSUME ComposeInv, NEW p \in Clients, NEW s \in left[p], NextService(p, s) PROVE ComposeInv'
<1>0. /\ kpc[p] \in {"service", "work", "rmAll"} /\ kpc[p] \in Locked /\ batch[p] = {} /\ ~failed[p]
      /\ UNCHANGED <<box, network>> /\ s \in Services /\ s \in Defined
  BY Known, ServiceAssumption DEF NextService, ServiceDone, Locked
<1>1. CASE Quit(p)
  BY <1>0, <1>1, QuitStep
<1>2. CASE /\ KGo(p, IF cmd[p] = "rm" /\ "stop" \notin opts[p] THEN "rmAll" ELSE "work")
           /\ left' = [left EXCEPT ![p] = @ \ {s}]
           /\ svc' = [svc EXCEPT ![p] = IF cmd[p] \in {"rm", "down"} THEN s ELSE @]
           /\ batch' = [batch EXCEPT ![p] = IF cmd[p] \in {"up", "create"} THEN Replicas(s) ELSE Existing(s)]
           /\ UNCHANGED <<composeLock, cmd, opts, want, mine, failed>>
  <2>1. PICK l \in {"rmAll", "work"} : KGo(p, l) /\ (l = "rmAll" => cmd[p] = "rm")
    BY <1>2
  <2>2. PICK B \in SUBSET Boxes : B = (IF cmd[p] \in {"up", "create"} THEN Replicas(s) ELSE Existing(s))
    BY <1>0, BoxFacts
  <2>3. PICK L \in SUBSET Defined : L = left[p] \ {s}
    BY Known
  <2>4. /\ cmd' = [cmd EXCEPT ![p] = cmd[p]] /\ opts' = [opts EXCEPT ![p] = opts[p]]
        /\ want' = [want EXCEPT ![p] = want[p]] /\ left' = [left EXCEPT ![p] = L]
        /\ batch' = [batch EXCEPT ![p] = B]
        /\ cmd[p] \in Commands /\ opts[p] \in SUBSET Options
        /\ want[p] \in SUBSET Defined
        /\ composeLock' \in Clients \union {NoClient} /\ PartyInv(p)
    BY <1>2, <2>2, <2>3, Known
  <2>5. svc' \in [Clients -> Services]
    BY <1>0, <1>2 DEF ComposeInv, ComposeTypeOK
  <2>6. kpc'[p] = l /\ cmd'[p] = cmd[p] /\ opts'[p] = opts[p] /\ left'[p] = L /\ batch'[p] = B
    BY <2>1, <2>4 DEF ComposeInv, ComposeTypeOK, KGo
  <2>7. UNCHANGED <<mine, failed, composeLock>>
    BY <1>2
  <2>8. LockInv(p)' /\ StageInv(p)' /\ MadeInv(p)'
    BY <1>0, <2>1, <2>4, <2>6, <2>7 DEF PartyInv, LockInv, StageInv, MadeInv, Makers
  <2>9. RunInv(p)'
    BY <1>0, <2>4, <2>6, <2>7 DEF PartyInv, StageInv, RunInv
  <2>10. UpInv(p)'
    <3> SUFFICES ASSUME cmd[p] = "up"
                 PROVE  /\ \A c \in mine[p] \union B : c[1] \notin L /\ c[2] # 0
                        /\ mine[p] \cap B = {}
                        /\ \A c \in B, t \in Defined : <<c[1], t>> \in DependsOn => Replicas(t) \subseteq mine[p]
                        /\ \A r \in L, t \in Defined :
                             <<r, t>> \in DependsOn => t \in L \/ Replicas(t) \subseteq mine[p] \union B
      BY <2>1, <2>6, <2>7 DEF UpInv
    <3>1. B = Replicas(s) /\ (\A c \in B : c[1] = s /\ c[2] # 0) /\ s \notin L /\ s \in left[p]
      BY <1>0, <2>2, <2>3, BoxFacts
    <3>2. /\ \A c \in mine[p] : c[1] \notin left[p] /\ c[2] # 0
          /\ \A r \in left[p], t \in Defined :
               <<r, t>> \in DependsOn => t \in left[p] \/ Replicas(t) \subseteq mine[p]
      BY <1>0, <2>4 DEF PartyInv, StageInv, UpInv
    <3>3. \A t \in left[p] : <<s, t>> \notin DependsOn
      BY DEF NextService, Turn
    <3>4. (\A c \in mine[p] \union B : c[1] \notin L /\ c[2] # 0) /\ mine[p] \cap B = {}
      BY <2>3, <3>1, <3>2
    <3>5. \A c \in B, t \in Defined : <<c[1], t>> \in DependsOn => Replicas(t) \subseteq mine[p]
      BY <3>1, <3>2, <3>3
    <3>6. \A r \in L, t \in Defined :
            <<r, t>> \in DependsOn => t \in L \/ Replicas(t) \subseteq mine[p] \union B
      BY <2>3, <3>1, <3>2
    <3> QED BY <3>4, <3>5, <3>6
  <2> QED BY <1>0, <2>1, <2>4, <2>5, <2>7, <2>8, <2>9, <2>10, GoOn DEF PartyInv
<1> QED BY <1>1, <1>2 DEF NextService

(* rm and down go on to the removal. *)
LEMMA RemoveNextStep == ASSUME ComposeInv, NEW p \in Clients, RemoveNext(p) PROVE ComposeInv'
<1>1. PICK B \in SUBSET Boxes : batch' = [batch EXCEPT ![p] = B]
  BY BoxFacts DEF RemoveNext
<1>2. /\ kpc[p] = "work" /\ kpc[p] \in Locked /\ cmd[p] \in {"rm", "down"} /\ KGo(p, "rmAll")
      /\ UNCHANGED <<box, network, composeLock, cmd, opts, left, want, svc, mine, failed>>
  BY DEF RemoveNext, Locked
<1>3. /\ cmd' = [cmd EXCEPT ![p] = cmd[p]] /\ opts' = [opts EXCEPT ![p] = opts[p]]
      /\ want' = [want EXCEPT ![p] = want[p]] /\ left' = [left EXCEPT ![p] = left[p]]
      /\ cmd[p] \in Commands /\ opts[p] \in SUBSET Options /\ left[p] \in SUBSET Defined
      /\ want[p] \in SUBSET Defined /\ composeLock' \in Clients \union {NoClient} /\ PartyInv(p)
  BY <1>2, Known
<1>4. kpc'[p] = "rmAll" /\ cmd'[p] = cmd[p] /\ opts'[p] = opts[p] /\ left'[p] = left[p]
  BY <1>1, <1>2, <1>3 DEF ComposeInv, ComposeTypeOK, KGo
<1>5. PartyInv(p)'
  BY <1>2, <1>3, <1>4 DEF PartyInv, LockInv, StageInv, RunInv, UpInv, MadeInv
<1> QED BY <1>1, <1>2, <1>3, <1>5, GoOn

(* After the last service. *)
LEMMA ServicesDoneStep == ASSUME ComposeInv, NEW p \in Clients, ServicesDone(p) PROVE ComposeInv'
<1>0. kpc[p] \in {"service", "work", "rmAll"} /\ kpc[p] \in Locked /\ UNCHANGED <<box, network>>
  BY DEF ServicesDone, ServiceDone, Locked
<1>1. CASE Quit(p)
  BY <1>0, <1>1, QuitStep
<1>2. CASE cmd[p] = "down" /\ FindOrphans(p) /\ UNCHANGED <<composeLock, cmd, left, svc, mine, failed>>
  BY <1>0, <1>2, OrphansStep
<1>3. CASE /\ KGo(p, "logs")
           /\ composeLock' = NoClient
           /\ opts' = [opts EXCEPT ![p] = @ \intersect {"rm"}]
           /\ UNCHANGED <<cmd, left, want, svc, batch, mine, failed>>
  <2>1. PICK o \in SUBSET Options : o = opts[p] \cap {"rm"}
    BY Known
  <2>2. /\ cmd' = [cmd EXCEPT ![p] = cmd[p]] /\ opts' = [opts EXCEPT ![p] = o]
        /\ want' = [want EXCEPT ![p] = want[p]] /\ left' = [left EXCEPT ![p] = left[p]]
        /\ batch' = [batch EXCEPT ![p] = batch[p]]
        /\ cmd[p] \in Commands /\ left[p] \in SUBSET Defined /\ batch[p] \in SUBSET Boxes
        /\ want[p] \in SUBSET Defined /\ composeLock' \in Clients \union {NoClient} /\ PartyInv(p)
    BY <1>3, <2>1, Known
  <2>3. /\ kpc'[p] = "logs" /\ cmd'[p] = cmd[p] /\ opts'[p] = o /\ left'[p] = left[p]
        /\ batch'[p] = batch[p]
    BY <1>3, <2>2 DEF ComposeInv, ComposeTypeOK, KGo
  <2>4. PartyInv(p)'
    BY <1>3, <2>1, <2>2, <2>3 DEF PartyInv, LockInv, StageInv, RunInv, UpInv, MadeInv, Locked
  <2> QED BY <1>0, <1>3, <2>2, <2>4, GoOn
<1> QED BY <1>1, <1>2, <1>3 DEF ServicesDone

(* A command in the foreground goes on to stop, then to remove, its own. *)
LEMMA ForegroundStep ==
  ASSUME ComposeInv, NEW p \in Clients, NEW l \in {"stopMine", "rmMine"}, KGo(p, l),
         l = "rmMine" => "rm" \in opts[p], batch' = [batch EXCEPT ![p] = mine[p]],
         UNCHANGED <<box, network, composeLock, cmd, opts, left, want, svc, mine, failed>>
  PROVE  ComposeInv'
<1>1. /\ cmd' = [cmd EXCEPT ![p] = cmd[p]] /\ opts' = [opts EXCEPT ![p] = opts[p]]
      /\ want' = [want EXCEPT ![p] = want[p]] /\ left' = [left EXCEPT ![p] = left[p]]
      /\ cmd[p] \in Commands /\ opts[p] \in SUBSET Options /\ left[p] \in SUBSET Defined
      /\ want[p] \in SUBSET Defined /\ mine[p] \in SUBSET Boxes
      /\ composeLock' \in Clients \union {NoClient} /\ PartyInv(p)
  BY Known
<1>2. kpc'[p] = l /\ cmd'[p] = cmd[p] /\ opts'[p] = opts[p] /\ left'[p] = left[p]
  BY <1>1 DEF ComposeInv, ComposeTypeOK, KGo
<1>3. PartyInv(p)'
  BY <1>1, <1>2 DEF PartyInv, LockInv, StageInv, RunInv, UpInv, MadeInv, Locked
<1> QED BY <1>1, <1>3, GoOn

(* The ends of a command. *)
LEMMA EndsStep ==
  ASSUME ComposeInv, NEW p \in Clients,
         ServiceFailed(p) \/ DownNetwork(p) \/ LogsEnd(p) \/ ForegroundDone(p) \/ Interrupt(p)
  PROVE  ComposeInv'
<1>1. CASE ServiceFailed(p) \/ Interrupt(p)
  BY <1>1, QuitStep DEF ServiceFailed, Interrupt
<1>2. CASE DownNetwork(p)
  BY <1>2, QuitStep DEF DownNetwork, Locked
<1>3. CASE LogsEnd(p)
  BY <1>3, ForegroundStep DEF LogsEnd
<1>4. CASE ForegroundDone(p)
  BY <1>4, QuitStep, ForegroundStep DEF ForegroundDone
<1> QED BY <1>1, <1>2, <1>3, <1>4

-----------------------------------------------------------------------------
(* The work on the containers.                                             *)

(* One container gets another status. *)
LEMMA BoxChanged ==
  ASSUME ComposeInv, NEW c \in Boxes, NEW r \in {"none", "running", "down"},
         r = "running" => network \/ box[c] = "running",
         box' = box \/ box' = [box EXCEPT ![c] = r]
  PROVE  /\ box' \in [Boxes -> {"none", "running", "down"}]
         /\ \A d \in Boxes : box'[d] = "running" => network
<1>1. box \in [Boxes -> {"none", "running", "down"}] /\ \A d \in Boxes : box[d] = "running" => network
  BY DEF ComposeInv, ComposeTypeOK, NetworkKept
<1> QED BY <1>1

(* A step of p on containers, seen from the others.  A container of a      *)
(* compose up under the lock is not removed by another command: the        *)
(* removal at the end of compose run, without it, is of its own ones.      *)
LEMMA BoxFrame ==
  ASSUME ComposeInv, NEW p \in Clients, Rest(p),
         box' \in [Boxes -> {"none", "running", "down"}],
         \A d \in Boxes : box'[d] = "running" => network,
         NEW B \in SUBSET Boxes, batch' = [batch EXCEPT ![p] = B],
         NEW f \in BOOLEAN, failed' = [failed EXCEPT ![p] = f],
         mine' \in [Clients -> SUBSET Boxes],
         \A q \in Clients \ {p} : mine'[q] \subseteq mine[q],
         \A q \in Clients \ {p} : kpc[q] \in Locked /\ cmd[q] = "up" => mine'[q] = mine[q],
         PartyInv(p)'
  PROVE  ComposeInv'
<1>1. ComposeTypeOK'
  <2>1. batch' \in [Clients -> SUBSET Boxes] /\ failed' \in [Clients -> BOOLEAN]
    BY DEF ComposeInv, ComposeTypeOK
  <2> QED BY <2>1 DEF ComposeInv, ComposeTypeOK, Rest
<1>2. NetworkKept'
  BY DEF NetworkKept, Rest
<1>3. ASSUME NEW q \in Clients \ {p} PROVE PartyInv(q)'
  <2>1. /\ kpc'[q] = kpc[q] /\ cmd'[q] = cmd[q] /\ opts'[q] = opts[q] /\ left'[q] = left[q]
        /\ batch'[q] = batch[q] /\ failed'[q] = failed[q] /\ mine'[q] \subseteq mine[q]
        /\ kpc[q] \in Locked /\ cmd[q] = "up" => mine'[q] = mine[q]
    BY <1>3 DEF ComposeInv, ComposeTypeOK, Rest
  <2>2. PartyInv(q) /\ composeLock' = composeLock /\ network' = network
    BY DEF ComposeInv, Rest
  <2> QED BY <2>1, <2>2, Bystander
<1> QED BY <1>1, <1>2, <1>3 DEF ComposeInv

(* The sub-process for c has ended in the work of p. *)
LEMMA WorkParty ==
  ASSUME ComposeInv, NEW p \in Clients, NEW c \in batch[p], kpc[p] = "work", Rest(p),
         batch'[p] = batch[p] \ {c},
         \/ mine'[p] = mine[p] \union {c} /\ failed'[p] = failed[p] /\ cmd[p] \in {"up", "run"}
         \/ mine'[p] = mine[p] /\ failed'[p] = failed[p] /\ cmd[p] \notin {"up", "run"}
         \/ mine'[p] = mine[p] /\ failed'[p] = TRUE
  PROVE  PartyInv(p)'
<1>1. PartyInv(p) /\ UNCHANGED <<network, composeLock, kpc, cmd, opts, left>>
  BY DEF ComposeInv, Rest
<1>2. LockInv(p)' /\ StageInv(p)' /\ MadeInv(p)'
  BY <1>1 DEF PartyInv, LockInv, StageInv, MadeInv
<1>3. RunInv(p)'
  BY <1>1 DEF PartyInv, RunInv
<1>4. UpInv(p)'
  <2> SUFFICES ASSUME cmd[p] = "up"
               PROVE  /\ \A d \in mine'[p] \union batch'[p] : d[1] \notin left[p] /\ d[2] # 0
                      /\ mine'[p] \cap batch'[p] = {}
                      /\ \A d \in batch'[p], t \in Defined :
                           <<d[1], t>> \in DependsOn => Replicas(t) \subseteq mine'[p]
                      /\ ~failed'[p] => \A s \in left[p], t \in Defined :
                           <<s, t>> \in DependsOn => t \in left[p] \/ Replicas(t) \subseteq mine'[p] \union batch'[p]
    BY <1>1 DEF UpInv
  <2>1. /\ \A d \in mine[p] \union batch[p] : d[1] \notin left[p] /\ d[2] # 0
        /\ mine[p] \cap batch[p] = {}
        /\ \A d \in batch[p], t \in Defined : <<d[1], t>> \in DependsOn => Replicas(t) \subseteq mine[p]
        /\ ~failed[p] => \A s \in left[p], t \in Defined :
             <<s, t>> \in DependsOn => t \in left[p] \/ Replicas(t) \subseteq mine[p] \union batch[p]
    BY <1>1 DEF PartyInv, UpInv
  <2>2. CASE mine'[p] = mine[p] \union {c} /\ failed'[p] = failed[p]
    <3>1. mine'[p] \union batch'[p] = mine[p] \union batch[p]
      BY <2>2
    <3>2. mine'[p] \cap batch'[p] = {}
      BY <2>1, <2>2
    <3>3. \A d \in batch'[p], t \in Defined : <<d[1], t>> \in DependsOn => Replicas(t) \subseteq mine'[p]
      BY <2>1, <2>2
    <3> QED BY <2>1, <2>2, <3>1, <3>2, <3>3
  <2>3. CASE mine'[p] = mine[p] /\ failed'[p] = TRUE
    BY <2>1, <2>3
  <2> QED BY <2>2, <2>3
<1> QED BY <1>2, <1>3, <1>4 DEF PartyInv

(* Steps of p at which the services are not at work. *)
LEMMA OtherParty ==
  ASSUME ComposeInv, NEW p \in Clients, Rest(p), kpc[p] \in {"rmAll", "orphanRm", "rmMine", "stopMine"},
         mine'[p] \subseteq mine[p], failed'[p] = failed[p]
  PROVE  PartyInv(p)'
<1>1. PartyInv(p) /\ UNCHANGED <<network, composeLock, kpc, cmd, opts, left>>
  BY DEF ComposeInv, Rest
<1>2. LockInv(p)' /\ StageInv(p)' /\ MadeInv(p)' /\ RunInv(p)'
  BY <1>1 DEF PartyInv, LockInv, StageInv, MadeInv, RunInv
<1>3. UpInv(p)'
  BY <1>1 DEF PartyInv, UpInv
<1> QED BY <1>2, <1>3 DEF PartyInv

(* What p keeps when a step leaves mine and failed alone. *)
LEMMA Kept ==
  ASSUME ComposeInv, NEW p \in Clients, NEW c, batch' = [batch EXCEPT ![p] = @ \ {c}]
  PROVE  /\ batch[p] \ {c} \in SUBSET Boxes /\ batch'[p] = batch[p] \ {c}
         /\ failed = [failed EXCEPT ![p] = failed[p]] /\ failed[p] \in BOOLEAN
         /\ mine \in [Clients -> SUBSET Boxes]
BY DEF ComposeInv, ComposeTypeOK

(* The sub-process for c ends well in the work of p. *)
LEMMA EndsWellStep ==
  ASSUME ComposeInv, NEW p \in Clients, NEW c \in batch[p], NEW r \in {"none", "running", "down"},
         kpc[p] = "work", r = "running" => network \/ box[c] = "running", EndsWell(p, c, r), Rest(p)
  PROVE  ComposeInv'
<1>1. c \in Boxes
  BY Known
<1>2. /\ box' \in [Boxes -> {"none", "running", "down"}]
      /\ \A d \in Boxes : box'[d] = "running" => network
  BY <1>1, BoxChanged DEF EndsWell
<1>3. /\ batch' = [batch EXCEPT ![p] = batch[p] \ {c}] /\ batch[p] \ {c} \in SUBSET Boxes
      /\ batch'[p] = batch[p] \ {c} /\ failed' = failed
      /\ failed' = [failed EXCEPT ![p] = failed[p]] /\ failed[p] \in BOOLEAN
  BY Kept DEF EndsWell
<1>4. /\ mine' \in [Clients -> SUBSET Boxes]
      /\ \A q \in Clients \ {p} : mine'[q] = mine[q]
      /\ mine'[p] = IF cmd[p] \in {"up", "run"} THEN mine[p] \union {c} ELSE mine[p]
  BY <1>1 DEF EndsWell, ComposeInv, ComposeTypeOK
<1>5. PartyInv(p)'
  BY <1>3, <1>4, WorkParty
<1> QED BY <1>2, <1>3, <1>4, <1>5, BoxFrame

(* It fails, or its result does not count. *)
LEMMA FailsStep ==
  ASSUME ComposeInv, NEW p \in Clients, NEW c \in batch[p], NEW r \in {"none", "running", "down"},
         kpc[p] = "work", r = "running" => network \/ box[c] = "running",
         box' = box \/ box' = [box EXCEPT ![c] = r],
         batch' = [batch EXCEPT ![p] = @ \ {c}], UNCHANGED mine,
         \/ failed' = [failed EXCEPT ![p] = TRUE]
         \/ failed' = failed /\ cmd[p] \notin {"up", "run"},
         Rest(p)
  PROVE  ComposeInv'
<1>1. c \in Boxes
  BY Known
<1>2. /\ box' \in [Boxes -> {"none", "running", "down"}]
      /\ \A d \in Boxes : box'[d] = "running" => network
  BY <1>1, BoxChanged
<1>3. /\ batch' = [batch EXCEPT ![p] = batch[p] \ {c}] /\ batch[p] \ {c} \in SUBSET Boxes
      /\ batch'[p] = batch[p] \ {c} /\ mine' \in [Clients -> SUBSET Boxes]
  BY Kept
<1>4. PICK f \in BOOLEAN : failed' = [failed EXCEPT ![p] = f] /\ f = failed'[p]
  <2>1. CASE failed' = [failed EXCEPT ![p] = TRUE]
    BY <2>1 DEF ComposeInv, ComposeTypeOK
  <2>2. CASE failed' = failed
    BY <2>2, Kept
  <2> QED BY <2>1, <2>2
<1>5. failed'[p] = TRUE \/ (failed'[p] = failed[p] /\ cmd[p] \notin {"up", "run"})
  BY DEF ComposeInv, ComposeTypeOK
<1>6. PartyInv(p)'
  BY <1>3, <1>5, WorkParty
<1> QED BY <1>2, <1>3, <1>4, <1>6, BoxFrame

(* A step of p that is not work on a service, or removes c by force. *)
LEMMA RemovedStep ==
  ASSUME ComposeInv, NEW p \in Clients, NEW c \in batch[p],
         NEW B \in SUBSET Boxes, batch' = [batch EXCEPT ![p] = B], UNCHANGED failed, Rest(p), Gone(c),
         kpc[p] \in Locked \/ (kpc[p] = "rmMine" /\ c \in mine[p]), PartyInv(p)'
  PROVE  ComposeInv'
<1>1. c \in Boxes
  BY Known
<1>2. /\ box' \in [Boxes -> {"none", "running", "down"}]
      /\ \A d \in Boxes : box'[d] = "running" => network
  BY <1>1, BoxChanged DEF Gone
<1>3. failed' = [failed EXCEPT ![p] = failed[p]] /\ failed[p] \in BOOLEAN
  BY DEF ComposeInv, ComposeTypeOK
<1>4. /\ mine' \in [Clients -> SUBSET Boxes]
      /\ \A q \in Clients \ {p} : mine'[q] = mine[q] \ {c}
  BY DEF Gone, ComposeInv, ComposeTypeOK
<1>5. ASSUME NEW q \in Clients \ {p}, kpc[q] \in Locked, cmd[q] = "up" PROVE mine'[q] = mine[q]
  <2>1. kpc[p] = "rmMine" /\ c \in mine[p]
    BY <1>5, LockExclusive
  <2>2. c[2] = 0
    BY <2>1, Known DEF PartyInv, StageInv, RunInv
  <2>3. PartyInv(q)
    BY DEF ComposeInv
  <2>4. c \notin mine[q]
    BY <1>5, <2>2, <2>3 DEF PartyInv, StageInv, UpInv, Locked
  <2> QED BY <1>4, <2>4
<1> QED BY <1>2, <1>3, <1>4, <1>5, BoxFrame

(* up and create on their containers. *)
LEMMA UpBoxStep ==
  ASSUME ComposeInv, NEW p \in Clients, NEW c \in batch[p],
         ReuseBox(p, c) \/ RecreateBox(p, c) \/ MakeBox(p, c)
  PROVE  ComposeInv'
<1>0. /\ kpc[p] = "work" /\ kpc[p] \in Locked /\ Rest(p) /\ c \in Boxes /\ PartyInv(p)
      /\ cmd[p] \in {"up", "create", "run"} /\ network
      /\ box[c] \in {"none", "running", "down"}
  <2>1. kpc[p] = "work" /\ Rest(p) /\ cmd[p] \in {"up", "create", "run"}
    BY DEF ReuseBox, RecreateBox, MakeBox
  <2> QED BY <2>1, Known DEF Locked, PartyInv, MadeInv, Makers, ComposeInv, ComposeTypeOK
<1>1. CASE ReuseBox(p, c)
  <2>1. PICK r \in {"none", "running", "down"} : r = IF cmd[p] = "up" THEN "running" ELSE box[c]
    BY <1>0
  <2>2. CASE EndsWell(p, c, r)
    BY <1>0, <2>2, EndsWellStep
  <2>3. CASE Fails(p, c) /\ UNCHANGED box
    BY <1>0, <2>3, FailsStep DEF Fails
  <2> QED BY <1>1, <2>1, <2>2, <2>3 DEF ReuseBox
<1>2. CASE RecreateBox(p, c)
  <2>1. CASE Gone(c) /\ UNCHANGED <<batch, failed>>
    <3>1. batch' = [batch EXCEPT ![p] = batch[p]] /\ batch[p] \in SUBSET Boxes
      BY <2>1, Known
    <3>2. mine'[p] = mine[p] \ {c} /\ batch'[p] = batch[p] /\ failed'[p] = failed[p]
      BY <2>1 DEF Gone
    <3>3. PartyInv(p)'
      <4>0. cmd[p] \in {"up", "create"}
        BY <1>2 DEF RecreateBox
      <4>1. UNCHANGED <<network, composeLock, kpc, cmd, opts, left>>
        BY <1>0 DEF Rest
      <4>2. cmd[p] = "up" => mine'[p] = mine[p]
        BY <1>0, <3>2 DEF PartyInv, UpInv
      <4>3. LockInv(p)' /\ StageInv(p)' /\ RunInv(p)' /\ MadeInv(p)'
        BY <1>0, <3>2, <4>0, <4>1 DEF PartyInv, LockInv, StageInv, RunInv, MadeInv
      <4>4. UpInv(p)'
        BY <1>0, <3>2, <4>1, <4>2 DEF PartyInv, UpInv
      <4> QED BY <4>3, <4>4 DEF PartyInv
    <3> QED BY <1>0, <2>1, <3>1, <3>3, RemovedStep
  <2>2. CASE Fails(p, c) /\ UNCHANGED box
    BY <1>0, <2>2, FailsStep DEF Fails
  <2> QED BY <1>2, <2>1, <2>2 DEF RecreateBox
<1>3. CASE MakeBox(p, c)
  <2>1. PICK r \in {"none", "running", "down"} : r = IF cmd[p] = "create" THEN "down" ELSE "running"
    OBVIOUS
  <2>2. CASE EndsWell(p, c, r)
    BY <1>0, <2>2, EndsWellStep
  <2>3. ASSUME NEW s \in {"none", "down"}, Fails(p, c), box' = [box EXCEPT ![c] = s] PROVE ComposeInv'
    BY <1>0, <2>3, FailsStep DEF Fails
  <2> QED BY <1>3, <2>1, <2>2, <2>3 DEF MakeBox
<1> QED BY <1>1, <1>2, <1>3

(* start, restart and stop on theirs. *)
LEMMA RunBoxStep ==
  ASSUME ComposeInv, NEW p \in Clients, NEW c \in batch[p],
         StartBox(p, c) \/ RestartBox(p, c) \/ StopBox(p, c)
  PROVE  ComposeInv'
<1>0. kpc[p] = "work" /\ Rest(p) /\ cmd[p] \in {"start", "restart", "stop", "rm", "down"}
  BY DEF StartBox, RestartBox, StopBox
<1>1. CASE StartBox(p, c)
  <2>1. CASE (network \/ box[c] = "running") /\ EndsWell(p, c, "running")
    BY <1>0, <2>1, EndsWellStep
  <2>2. CASE Fails(p, c) /\ UNCHANGED box
    BY <1>0, <2>2, FailsStep DEF Fails
  <2> QED BY <1>1, <2>1, <2>2 DEF StartBox
<1>2. CASE RestartBox(p, c) \/ StopBox(p, c)
  <2>1. batch' = [batch EXCEPT ![p] = @ \ {c}] /\ UNCHANGED <<mine, failed>>
    BY <1>2 DEF RestartBox, StopBox
  <2>2. CASE network /\ box' = [box EXCEPT ![c] = "running"]
    BY <1>0, <2>1, <2>2, FailsStep
  <2>3. CASE Stopped(c)
    BY <1>0, <2>1, <2>3, FailsStep DEF Stopped
  <2> QED BY <1>2, <2>2, <2>3 DEF RestartBox, StopBox
<1> QED BY <1>1, <1>2

(* The removals, and what a foreground command does in the end. *)
LEMMA RemoveBoxStep ==
  ASSUME ComposeInv, NEW p \in Clients, NEW c \in batch[p], RemoveBox(p, c) \/ StopMine(p, c)
  PROVE  ComposeInv'
<1>0. /\ kpc[p] \in {"rmAll", "orphanRm", "rmMine", "stopMine"} /\ Rest(p) /\ UNCHANGED failed
      /\ batch' = [batch EXCEPT ![p] = @ \ {c}] /\ c \in Boxes
  BY Known DEF RemoveBox, StopMine
<1>1. /\ batch' = [batch EXCEPT ![p] = batch[p] \ {c}] /\ batch[p] \ {c} \in SUBSET Boxes
      /\ failed' = [failed EXCEPT ![p] = failed[p]] /\ failed[p] \in BOOLEAN
      /\ mine \in [Clients -> SUBSET Boxes]
  BY <1>0, Kept
<1>2. CASE UNCHANGED mine /\ (UNCHANGED box \/ Stopped(c))
  <2>1. /\ box' \in [Boxes -> {"none", "running", "down"}]
        /\ \A d \in Boxes : box'[d] = "running" => network
    BY <1>0, <1>2, BoxChanged DEF Stopped
  <2>2. PartyInv(p)'
    BY <1>0, <1>2, OtherParty
  <2> QED BY <1>0, <1>1, <1>2, <2>1, <2>2, BoxFrame
<1>3. CASE Gone(c) /\ kpc[p] \in {"rmAll", "orphanRm", "rmMine"} /\ (kpc[p] = "rmMine" => c \in mine[p])
  <2>1. mine'[p] \subseteq mine[p]
    BY <1>3 DEF Gone
  <2>2. PartyInv(p)'
    BY <1>0, <2>1, OtherParty
  <2> QED BY <1>0, <1>1, <1>3, <2>2, RemovedStep DEF Locked
<1> QED BY <1>2, <1>3 DEF RemoveBox, StopMine

(* A container exits by itself. *)
LEMMA ExitStep == ASSUME ComposeInv, NEW c \in Boxes, BoxExits(c) PROVE ComposeInv'
<1>1. /\ box' \in [Boxes -> {"none", "running", "down"}]
      /\ \A d \in Boxes : box'[d] = "running" => network
  BY BoxChanged DEF BoxExits
<1>2. UNCHANGED <<network, composeLock, kpc, cmd, opts, left, want, svc, batch, mine, failed>>
  BY DEF BoxExits, local
<1>3. \A q \in Clients : PartyInv(q)'
  BY <1>2 DEF ComposeInv, PartyInv, LockInv, StageInv, RunInv, UpInv, MadeInv
<1> QED BY <1>1, <1>2, <1>3 DEF ComposeInv, ComposeTypeOK, NetworkKept

-----------------------------------------------------------------------------
(* The invariant at first. *)
LEMMA ComposeInvInit == ComposeInit => ComposeInv
<1> SUFFICES ASSUME ComposeInit PROVE ComposeInv
  OBVIOUS
<1>1. box \in [Boxes -> {"none", "running", "down"}] /\ network \in BOOLEAN
  BY DEF ComposeInit
<1>2. AService \in Services
  BY BoxFacts
<1>3. ComposeTypeOK
  BY <1>1, <1>2 DEF ComposeInit, ComposeTypeOK, Commands
<1>4. NetworkKept
  BY DEF ComposeInit, NetworkKept
<1>5. ASSUME NEW p \in Clients PROVE PartyInv(p)
  BY DEF ComposeInit, PartyInv, LockInv, StageInv, RunInv, UpInv, MadeInv, Locked
<1> QED BY <1>3, <1>4, <1>5 DEF ComposeInv

(* Every step keeps it. *)
LEMMA ComposeInvStep == ComposeInv /\ [ComposeNext]_composeVars => ComposeInv'
<1> SUFFICES ASSUME ComposeInv, [ComposeNext]_composeVars PROVE ComposeInv'
  OBVIOUS
<1>1. CASE UNCHANGED composeVars
  <2>1. UNCHANGED <<box, network, composeLock, kpc, cmd, opts, left, want, svc, batch, mine, failed>>
    BY <1>1 DEF composeVars, local
  <2>2. ComposeTypeOK' /\ NetworkKept'
    BY <2>1 DEF ComposeInv, ComposeTypeOK, NetworkKept
  <2>3. \A q \in Clients : PartyInv(q)'
    BY <2>1 DEF ComposeInv, PartyInv, LockInv, StageInv, RunInv, UpInv, MadeInv
  <2> QED BY <2>2, <2>3 DEF ComposeInv
<1>2. ASSUME NEW p \in Clients, NEW k \in Commands, NEW S \in SUBSET Defined, NEW o \in SUBSET OptionsOf(k),
             Begin(p, k, S, o)
      PROVE  ComposeInv'
  BY <1>2, BeginStep
<1>3. ASSUME NEW p \in Clients,
             \/ UpNetwork(p) \/ OrphansDone(p) \/ RemoveNext(p) \/ ServicesDone(p)
             \/ \E s \in left[p] : NextService(p, s)
      PROVE  ComposeInv'
  BY <1>3, UpNetworkStep, OrphansDoneStep, RemoveNextStep, ServicesDoneStep, NextServiceStep
<1>4. ASSUME NEW p \in Clients,
             ServiceFailed(p) \/ DownNetwork(p) \/ LogsEnd(p) \/ ForegroundDone(p) \/ Interrupt(p)
      PROVE  ComposeInv'
  BY <1>4, EndsStep
<1>5. ASSUME NEW p \in Clients, NEW c \in batch[p],
             \/ ReuseBox(p, c) \/ RecreateBox(p, c) \/ MakeBox(p, c) \/ StartBox(p, c)
             \/ RestartBox(p, c) \/ StopBox(p, c) \/ RemoveBox(p, c) \/ StopMine(p, c)
      PROVE  ComposeInv'
  BY <1>5, UpBoxStep, RunBoxStep, RemoveBoxStep
<1>6. ASSUME NEW c \in Boxes, BoxExits(c) PROVE ComposeInv'
  BY <1>6, ExitStep
<1>7. CASE ComposeNext
  <2>1. ASSUME NEW p \in Clients, kpc[p] = "idle",
               \E k \in Commands, S \in SUBSET Defined \ {{}} : \E o \in SUBSET OptionsOf(k) : Begin(p, k, S, o)
        PROVE  ComposeInv'
    <3>1. PICK k \in Commands, S \in SUBSET Defined \ {{}} : \E o \in SUBSET OptionsOf(k) : Begin(p, k, S, o)
      BY <2>1
    <3>2. PICK o \in SUBSET OptionsOf(k) : Begin(p, k, S, o)
      BY <3>1
    <3>3. S \in SUBSET Defined
      OBVIOUS
    <3> QED BY <1>2, <3>2, <3>3
  <2> QED BY <1>3, <1>4, <1>5, <1>6, <1>7, <2>1 DEF ComposeNext
<1> QED BY <1>1, <1>7

(* The invariant of compose. *)
LEMMA ComposeInvariant == ComposeSpec => []ComposeInv
BY ComposeInvInit, ComposeInvStep, PTL DEF ComposeSpec

(* The variables of compose keep their types. *)
THEOREM ComposeTypes == ComposeSpec => []ComposeTypeOK
<1>1. ComposeInv => ComposeTypeOK
  BY DEF ComposeInv
<1> QED BY <1>1, ComposeInvariant, PTL

(* Up works on a container only when every container of the services it    *)
(* depends on is up.  The wait for a service is not enough for it: what    *)
(* is still ahead must keep its dependencies ahead of it, in work, or up,  *)
(* and the ones that are up must not be removed by any other command.      *)
THEOREM StartsInOrder == ComposeSpec => []StartOrder
<1>1. ComposeInv => StartOrder
  BY DEF ComposeInv, PartyInv, UpInv, StartOrder
<1> QED BY <1>1, ComposeInvariant, PTL

(* The network is there as long as a container of the project runs: the    *)
(* commands that bring containers up hold the lock from the creation of    *)
(* the network on, so no down removes it before the containers are there.  *)
THEOREM ProjectNetworkKept == ComposeSpec => []NetworkKept
<1>1. ComposeInv => NetworkKept
  BY DEF ComposeInv
<1> QED BY <1>1, ComposeInvariant, PTL
=============================================================================
