---------------------------- MODULE HealthCheck -----------------------------
(***************************************************************************)
(* The health checks (pkg/healthcheck, pkg/cmd/container/health_check.go)  *)
(* of the container of TaskControl.  A probe keeps its state in the labels *)
(* of the container and its result in a log file.  It writes all labels    *)
(* back as it read them, the explicitly-stopped label of Stop among them;  *)
(* Stop and Start put the health label back as they read it.  Of the       *)
(* commands of TaskControl, those that write labels and start or stop the  *)
(* task run beside the probes.                                             *)
(***************************************************************************)
EXTENDS TaskControl, Integers, Sequences, FiniteSets

CONSTANTS Retries,
          MaxProbes,  \* bound: the number of probes
          Controllers \* bound: the clients that stop and start, the others only probe

ASSUME RetriesAssumption == Retries \in Nat \ {0} /\ MaxProbes \in Nat /\ Controllers \subseteq Clients

VARIABLES
  healthLog,   \* the exit codes in health.json: "ok", "fail", or "early", a
               \* failure in the start period
  startPeriod, \* the start period is not over
  result,      \* result[p]: what the probe of p has found
  state,       \* state[p]: the health state it computes
  probes       \* how many probes were started

healthVars == <<healthLog, startPeriod, result, state, probes>>

ProbeSteps == {"probe", "readState", "labels", "setLabels", "log"}
HealthState == [Status : {"starting", "healthy", "unhealthy"}, FailingStreak : Nat]

TaskTypeOK ==
  /\ task \in {"created", "running", "paused", "stopped"}
  /\ signals \in SUBSET {"TERM", "KILL"}
  /\ explicit \in BOOLEAN
  /\ health \in HealthState
  /\ saved \in [Clients -> [explicit : BOOLEAN, health : HealthState]]
  /\ cpc \in [Clients -> StopSteps \union OtherSteps \union ProbeSteps]
  /\ wasPaused \in [Clients -> BOOLEAN]
  /\ exited \in [Clients -> BOOLEAN]
  /\ again \in [Clients -> BOOLEAN]
  /\ decided \in BOOLEAN
  /\ sure \in SUBSET Clients
  /\ skewed \in BOOLEAN
  /\ healthLog \in Seq({"ok", "fail", "early"})
  /\ startPeriod \in BOOLEAN
  /\ result \in [Clients -> {"ok", "fail", "early"}]
  /\ state \in [Clients -> HealthState]
  /\ probes \in 0 .. MaxProbes

HealthInit ==
  /\ healthLog = <<>>
  /\ startPeriod = TRUE
  /\ result = [p \in Clients |-> "ok"]
  /\ state = [p \in Clients |-> NewState]
  /\ probes = 0

Probing(q) == cpc[q] \in ProbeSteps

ProbeEnd(p) ==
  /\ Go(p, "idle")
  /\ result' = [result EXCEPT ![p] = "ok"]
  /\ state' = [state EXCEPT ![p] = NewState]
  /\ saved' = [saved EXCEPT ![p] = NoLabels]

-----------------------------------------------------------------------------
(* HealthCheck, up to the exec: only a running container is probed.  A     *)
(* failure of a probe that starts in the start period is an early one.     *)
ProbeStart(p) ==
  /\ cpc[p] = "idle" /\ task = "running" /\ probes < MaxProbes
  /\ Go(p, "probe")
  /\ probes' = probes + 1
  /\ result' = [result EXCEPT ![p] = IF startPeriod THEN "early" ELSE "fail"]
  /\ skewed' = (skewed \/ \E q \in Clients : Probing(q))
  /\ UNCHANGED <<task, signals, explicit, health, saved, localVars, decided, sure>>
  /\ UNCHANGED <<healthLog, startPeriod, state>>

(* The exec ends with success, or with a failure, a timeout or an error.   *)
(* When the task stops there is an error as well.                          *)
ProbeResult(p) ==
  /\ cpc[p] = "probe"
  /\ Go(p, "readState")
  /\ \/ task = "running" /\ result' = [result EXCEPT ![p] = "ok"]
     \/ UNCHANGED result
  /\ UNCHANGED <<task, signals, labelVars, localVars, decided, sure>>
  /\ UNCHANGED <<healthLog, startPeriod, state, probes>>

(* Mutant: a success does not reset the streak. *)
StreakKept(old, res) ==
  [Status |-> IF res = "ok" THEN "healthy"
              ELSE IF res = "fail" /\ old.FailingStreak + 1 >= Retries THEN "unhealthy"
              ELSE old.Status,
   FailingStreak |-> IF res = "fail" THEN old.FailingStreak + 1 ELSE old.FailingStreak]

(* The state after a result: early failures do not count. *)
StateAfter(old, res) ==
  [Status |-> IF res = "ok" THEN "healthy"
              ELSE IF res = "fail" /\ old.FailingStreak + 1 >= Retries THEN "unhealthy"
              ELSE old.Status,
   FailingStreak |-> IF res = "ok" THEN 0
                     ELSE IF res = "fail" THEN old.FailingStreak + 1
                     ELSE old.FailingStreak]

(* readHealthStateFromLabels and the new state. *)
ReadState(p) ==
  /\ cpc[p] = "readState"
  /\ Go(p, "labels")
  /\ state' = [state EXCEPT ![p] = StateAfter(health, result[p])]
  /\ UNCHANGED <<task, signals, labelVars, localVars, decided, sure>>
  /\ UNCHANGED <<healthLog, startPeriod, result, probes>>

(* writeHealthStateToLabels reads all labels once more ... *)
ReadLabels(p) ==
  /\ cpc[p] = "labels"
  /\ Go(p, "setLabels")
  /\ saved' = [saved EXCEPT ![p] = [explicit |-> explicit, health |-> state[p]]]
  /\ UNCHANGED <<task, signals, explicit, health, skewed, localVars, decided, sure>>
  /\ UNCHANGED <<healthLog, startPeriod, result, state, probes>>

(* ... and sets every one of them, which takes back a Stop that has set    *)
(* its label in between.                                                   *)
SetLabels(p) ==
  /\ cpc[p] = "setLabels"
  /\ Go(p, "log")
  /\ health' = saved[p].health
  /\ explicit' = saved[p].explicit
  /\ sure' = SureAfter(p)
  /\ UNCHANGED <<task, signals, saved, skewed, localVars, decided>>
  /\ UNCHANGED <<healthLog, startPeriod, result, state, probes>>

(* writeHealthLog, under a lock. *)
WriteHealthLog(p) ==
  /\ cpc[p] = "log"
  /\ healthLog' = Append(healthLog, result[p])
  /\ ProbeEnd(p)
  /\ UNCHANGED <<task, signals, explicit, health, skewed, localVars, decided, sure>>
  /\ UNCHANGED <<startPeriod, probes>>

(* An error, or the death of the probe, at any of its steps.  After the    *)
(* labels are set the log lacks the result.                                *)
ProbeFails(p) ==
  /\ Probing(p)
  /\ skewed' = (skewed \/ cpc[p] = "log")
  /\ ProbeEnd(p)
  /\ UNCHANGED <<task, signals, explicit, health, localVars, decided, sure>>
  /\ UNCHANGED <<healthLog, startPeriod, probes>>

StartPeriodEnds ==
  /\ startPeriod
  /\ startPeriod' = FALSE
  /\ UNCHANGED <<healthLog, result, state, probes>>
  /\ UNCHANGED taskVars

HealthNext ==
  \/ (\/ \E p \in Controllers : Restarting(p)
      \/ TaskMoves) /\ UNCHANGED healthVars
  \/ \E p \in Clients : \/ ProbeStart(p) \/ ProbeResult(p) \/ ReadState(p) \/ ReadLabels(p)
                        \/ SetLabels(p) \/ WriteHealthLog(p) \/ ProbeFails(p)
  \/ StartPeriodEnds

HealthSpec == TaskInit /\ HealthInit /\ [][HealthNext]_<<taskVars, healthVars>>

-----------------------------------------------------------------------------
(* The streak of failures at the end of the log. *)
StreakOf(log) ==
  Cardinality({i \in DOMAIN log : log[i] = "fail" /\ \A j \in i .. Len(log) : log[j] # "ok"})

(* The labels and the log tell the same: between probes the failing streak *)
(* is that of the log, and the container is unhealthy exactly when it has  *)
(* reached Retries (updateHealthStatus), whatever stops and starts the     *)
(* task between the steps of a probe.  It ends (skewed) when probes        *)
(* overlap and lose a count, when a probe ends between its two writes, and *)
(* when a command that had read the record before a probe has set its      *)
(* labels puts the old health label back.                                  *)
HealthMatchesLog ==
  ~skewed /\ (\A p \in Clients : ~Probing(p)) =>
    /\ health.FailingStreak = StreakOf(healthLog)
    /\ health.Status = "unhealthy" <=> health.FailingStreak >= Retries
=============================================================================
