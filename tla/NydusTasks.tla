----------------------------- MODULE NydusTasks -----------------------------
(***************************************************************************)
(* The nydusify service of dsagent (internal/service/nydusify_service.go,  *)
(* nydusify_executor.go, callback_handler.go): tasks that clients submit   *)
(* and cancel, the bounded queue and its workers, and the callbacks, which *)
(* are sent by goroutines that nothing synchronizes.                       *)
(*                                                                         *)
(* A chain is a call of sendCallback with the retries it schedules, each   *)
(* of which starts when the one before it has ended.  Chain 0 is the       *)
(* worker's, chain k that of the k-th RetryCallback.                       *)
(***************************************************************************)
EXTENDS Integers, Sequences, FiniteSets

CONSTANTS Tasks,
          NoTask,
          Workers,
          QueueCap,      \* the capacity of taskQueue
          WithCallback,  \* the tasks with a callback URL
          NoRetryConfig, \* those of them submitted without a RetryConfig
          MaxAttempts,   \* max_attempts of the others
          Cancelled,     \* bound: the tasks that clients cancel
          Retried,       \* bound: the tasks whose callback clients retry
          MaxRetries     \* bound: the RetryCallback calls for each of them

ASSUME CallbackAssumption == NoRetryConfig \subseteq WithCallback /\ WithCallback \cup Retried \cup Cancelled \subseteq Tasks
ASSUME NoTaskAssumption == NoTask \notin Tasks
ASSUME NumberAssumption == QueueCap \in Nat \ {0} /\ MaxAttempts \in Int /\ MaxRetries \in Nat

VARIABLES
  status,     \* task.Status; "none" before the submission, "lost" after a crash
  queue,      \* taskQueue
  running,    \* running[w]: the task that worker w processes
  command,    \* command[w]: its nydusify process
  expired,    \* expired[w]: the timeout of its context has passed
  cancelling, \* the tasks that a CancelTask has found cancellable
  known,      \* known[t]: CallbackStatus is not nil
  attempts,   \* CallbackStatus.Attempts
  success,    \* CallbackStatus.Success
  retries,    \* retries[t]: how often RetryCallback was called
  at,         \* at[t][k]: the next step of chain k
  read,       \* read[t][k]: the attempts it has read
  sends       \* sends[t]: the requests sent for t (a history)

work == <<queue, running, command, expired>>
callback == <<known, attempts, success, retries, at, read, sends>>
vars == <<status, work, cancelling, callback>>

Final == {"SUCCESS", "FAILED", "CANCELLED"}
Status == {"none", "PENDING", "RUNNING", "lost"} \union Final
Chains == 0 .. MaxRetries
Active == {"sleep", "init", "check", "count", "send"}

(* Mutant: max_attempts counts the retries after the first attempt. *)
attemptsAfterFirst == (IF MaxAttempts <= 0 THEN 3 ELSE MaxAttempts) + 1

(* The default of max_attempts is 3. *)
maxAttempts == IF MaxAttempts <= 0 THEN 3 ELSE MaxAttempts

TypeOK ==
  /\ status \in [Tasks -> Status]
  /\ queue \in Seq(Tasks) /\ Len(queue) <= QueueCap
  /\ running \in [Workers -> Tasks \union {NoTask}]
  /\ command \in [Workers -> {"none", "running", "ok", "failed"}]
  /\ expired \in [Workers -> BOOLEAN]
  /\ cancelling \in SUBSET Tasks
  /\ known \in [Tasks -> BOOLEAN]
  /\ attempts \in [Tasks -> Nat]
  /\ success \in [Tasks -> BOOLEAN]
  /\ retries \in [Tasks -> Chains]
  /\ at \in [Tasks -> [Chains -> {"none", "done"} \union Active]]
  /\ read \in [Tasks -> [Chains -> Nat]]
  /\ sends \in [Tasks -> Nat]

Init ==
  /\ status = [t \in Tasks |-> "none"]
  /\ queue = <<>>
  /\ running = [w \in Workers |-> NoTask]
  /\ command = [w \in Workers |-> "none"]
  /\ expired = [w \in Workers |-> FALSE]
  /\ cancelling = {}
  /\ known = [t \in Tasks |-> FALSE]
  /\ attempts = [t \in Tasks |-> 0]
  /\ success = [t \in Tasks |-> FALSE]
  /\ retries = [t \in Tasks |-> 0]
  /\ at = [t \in Tasks |-> [k \in Chains |-> "none"]]
  /\ read = [t \in Tasks |-> [k \in Chains |-> 0]]
  /\ sends = [t \in Tasks |-> 0]

-----------------------------------------------------------------------------
(* Mutant: the queue grows past its capacity. *)
SubmitUnbounded(t) ==
  /\ status[t] = "none"
  /\ status' = [status EXCEPT ![t] = "PENDING"]
  /\ queue' = Append(queue, t)
  /\ UNCHANGED <<running, command, expired, cancelling, callback>>

(* SubmitCommitTask: the answer is PENDING also when the queue is full and *)
(* the task is dropped.                                                    *)
SubmitCommitTask(t) ==
  /\ status[t] = "none"
  /\ status' = [status EXCEPT ![t] = "PENDING"]
  /\ queue' = IF Len(queue) < QueueCap THEN Append(queue, t) ELSE queue
  /\ UNCHANGED <<running, command, expired, cancelling, callback>>

(* CancelTask tests the status and sets it without a lock in between.  The *)
(* pool's CancelTask finds nothing in cancelTasks, since nothing registers *)
(* there: the command goes on.                                             *)
CancelTask(t) ==
  /\ t \in Cancelled
  /\ status[t] \in {"PENDING", "RUNNING"}
  /\ t \notin cancelling
  /\ cancelling' = cancelling \union {t}
  /\ UNCHANGED <<status, work, callback>>

SetCancelled(t) ==
  /\ t \in cancelling
  /\ cancelling' = cancelling \ {t}
  /\ status' = [status EXCEPT ![t] = "CANCELLED"]
  /\ UNCHANGED <<work, callback>>

-----------------------------------------------------------------------------
(* Mutant: the task stays in the channel. *)
ProcessTaskPeeks(w) ==
  /\ running[w] = NoTask
  /\ queue # <<>>
  /\ running' = [running EXCEPT ![w] = Head(queue)]
  /\ command' = [command EXCEPT ![w] = "running"]
  /\ status' = [status EXCEPT ![Head(queue)] = "RUNNING"]
  /\ UNCHANGED <<queue, expired, cancelling, callback>>

(* A worker takes the head of the queue and starts its command. *)
ProcessTask(w) ==
  /\ running[w] = NoTask
  /\ queue # <<>>
  /\ queue' = Tail(queue)
  /\ running' = [running EXCEPT ![w] = Head(queue)]
  /\ command' = [command EXCEPT ![w] = "running"]
  /\ status' = [status EXCEPT ![Head(queue)] = "RUNNING"]
  /\ UNCHANGED <<expired, cancelling, callback>>

(* nydusify ends, or could not be started; it may also hang. *)
CommandEnds(w) ==
  /\ command[w] = "running"
  /\ \E result \in {"ok", "failed"} : command' = [command EXCEPT ![w] = result]
  /\ UNCHANGED <<status, queue, running, expired, cancelling, callback>>

(* Mutant: the context has no timeout. *)
ContextNeverExpires(w) == FALSE /\ UNCHANGED vars

(* The timeout: exec.CommandContext kills the process. *)
ContextExpires(w) ==
  /\ running[w] # NoTask /\ ~expired[w]
  /\ expired' = [expired EXCEPT ![w] = TRUE]
  /\ command' = [command EXCEPT ![w] = IF @ = "running" THEN "failed" ELSE @]
  /\ UNCHANGED <<status, queue, running, cancelling, callback>>

(* ExecuteCommit returns on the end of the command or of the context; with *)
(* both it may report either.  The callback is scheduled.                  *)
Finish(w, result) ==
  LET t == running[w] IN
  /\ status' = [status EXCEPT ![t] = result]
  /\ running' = [running EXCEPT ![w] = NoTask]
  /\ command' = [command EXCEPT ![w] = "none"]
  /\ expired' = [expired EXCEPT ![w] = FALSE]
  /\ at' = [at EXCEPT ![t][0] = IF t \in WithCallback THEN "sleep" ELSE @]
  /\ UNCHANGED <<queue, cancelling, known, attempts, success, retries, read, sends>>

CommandDone(w) ==
  \/ command[w] = "ok" /\ Finish(w, "SUCCESS")
  \/ command[w] = "failed" /\ Finish(w, "FAILED")

ContextDone(w) == expired[w] /\ Finish(w, "FAILED")

-----------------------------------------------------------------------------
Chain(t, k, from, to) ==
  /\ at[t][k] = from
  /\ at' = [at EXCEPT ![t][k] = to]

(* sendCallback makes CallbackStatus when it is nil. *)
SendCallback(t, k) ==
  /\ Chain(t, k, "sleep", IF known[t] THEN "check" ELSE "init")
  /\ UNCHANGED <<status, work, cancelling, known, attempts, success, retries, read, sends>>

InitCallbackStatus(t, k) ==
  /\ Chain(t, k, "init", "check")
  /\ known' = [known EXCEPT ![t] = TRUE]
  /\ attempts' = [attempts EXCEPT ![t] = 0]
  /\ success' = [success EXCEPT ![t] = FALSE]
  /\ UNCHANGED <<status, work, cancelling, retries, read, sends>>

(* Mutant: a chain that finds the limit reached is scheduled once more. *)
LimitReschedules(t, k) ==
  /\ t \notin NoRetryConfig
  /\ \/ /\ attempts[t] < maxAttempts \/ success[t]
        /\ Chain(t, k, "check", "count")
        /\ read' = [read EXCEPT ![t][k] = attempts[t]]
     \/ /\ attempts[t] >= maxAttempts /\ ~success[t]
        /\ Chain(t, k, "check", "sleep")
        /\ UNCHANGED read
  /\ UNCHANGED <<status, work, cancelling, known, attempts, success, retries, sends>>

CheckRetryLimit(t, k) ==
  /\ t \notin NoRetryConfig
  /\ \/ /\ attempts[t] < maxAttempts \/ success[t]
        /\ Chain(t, k, "check", "count")
        /\ read' = [read EXCEPT ![t][k] = attempts[t]]
     \/ /\ attempts[t] >= maxAttempts /\ ~success[t]
        /\ Chain(t, k, "check", "done")
        /\ UNCHANGED read
  /\ UNCHANGED <<status, work, cancelling, known, attempts, success, retries, sends>>

(* A nil RetryConfig is dereferenced outside any handler: dsagent dies and *)
(* starts again without its tasks, which were in memory only.              *)
PanicWithoutRetryConfig(t, k) ==
  /\ t \in NoRetryConfig
  /\ at[t][k] = "check"
  /\ status' = [u \in Tasks |-> IF status[u] = "none" THEN "none" ELSE "lost"]
  /\ queue' = <<>>
  /\ running' = [w \in Workers |-> NoTask]
  /\ command' = [w \in Workers |-> "none"]
  /\ expired' = [w \in Workers |-> FALSE]
  /\ cancelling' = {}
  /\ known' = [u \in Tasks |-> FALSE]
  /\ attempts' = [u \in Tasks |-> 0]
  /\ success' = [u \in Tasks |-> FALSE]
  /\ at' = [u \in Tasks |-> [c \in Chains |-> "none"]]
  /\ read' = [u \in Tasks |-> [c \in Chains |-> 0]]
  /\ retries' = [u \in Tasks |-> 0]
  /\ sends' = [u \in Tasks |-> 0]

(* Attempts++ may use the value the test read (a data race with another    *)
(* chain or with RetryCallback); then the request goes out.                *)
SendRequest(t, k) ==
  /\ Chain(t, k, "count", "send")
  /\ \E n \in {attempts[t], read[t][k]} : attempts' = [attempts EXCEPT ![t] = n + 1]
  /\ read' = [read EXCEPT ![t][k] = 0]
  /\ sends' = [sends EXCEPT ![t] = @ + 1]
  /\ UNCHANGED <<status, work, cancelling, known, success, retries>>

(* The receiver answers, or the HTTP client gives up after 30 seconds. *)
Response(t, k) ==
  \E ok \in BOOLEAN :
    /\ Chain(t, k, "send", IF ~ok /\ attempts[t] < maxAttempts THEN "sleep" ELSE "done")
    /\ success' = [success EXCEPT ![t] = ok]
    /\ UNCHANGED <<status, work, cancelling, known, attempts, retries, read, sends>>

(* RetryCallback of an ended task.  Without a CallbackStatus, a forced one *)
(* panics before it starts the goroutine and any other after that; the     *)
(* server's recovery middleware answers with an error.                     *)
RetryCallback(t, force) ==
  /\ status[t] \in {"SUCCESS", "FAILED"}
  /\ t \in WithCallback \cap Retried
  /\ retries[t] < MaxRetries
  /\ retries' = [retries EXCEPT ![t] = @ + 1]
  /\ \/ /\ force /\ known[t]
        /\ attempts' = [attempts EXCEPT ![t] = 0]
        /\ success' = [success EXCEPT ![t] = FALSE]
        /\ Chain(t, retries[t] + 1, "none", "sleep")
     \/ /\ ~force
        /\ Chain(t, retries[t] + 1, "none", "sleep")
        /\ UNCHANGED <<attempts, success>>
  /\ UNCHANGED <<status, work, cancelling, known, read, sends>>

-----------------------------------------------------------------------------
Client(t) ==
  \/ SubmitCommitTask(t) \/ CancelTask(t) \/ SetCancelled(t)
  \/ \E force \in BOOLEAN : RetryCallback(t, force)

WorkerStep(w) == ProcessTask(w) \/ CommandDone(w) \/ ContextDone(w)

ChainStep(t, k) ==
  \/ SendCallback(t, k) \/ InitCallbackStatus(t, k) \/ CheckRetryLimit(t, k)
  \/ PanicWithoutRetryConfig(t, k) \/ SendRequest(t, k) \/ Response(t, k)

(* Nothing left to do. *)
Idle ==
  /\ queue = <<>> /\ cancelling = {}
  /\ \A w \in Workers : running[w] = NoTask
  /\ \A t \in Tasks : status[t] # "none" /\ \A k \in Chains : at[t][k] \notin Active
  /\ UNCHANGED vars

Next ==
  \/ \E t \in Tasks : Client(t) \/ \E k \in Chains : ChainStep(t, k)
  \/ \E w \in Workers : WorkerStep(w) \/ CommandEnds(w) \/ ContextExpires(w)
  \/ Idle

(* The scheduler runs every goroutine that can run, and timers fire; a     *)
(* command need not end.                                                   *)
NydusFairness ==
  /\ \A w \in Workers : WF_vars(WorkerStep(w)) /\ WF_vars(ContextExpires(w))
  /\ \A t \in Tasks, k \in Chains : WF_vars(ChainStep(t, k))
  /\ \A t \in Tasks : WF_vars(SetCancelled(t))

Spec == Init /\ [][Next]_vars /\ NydusFairness

-----------------------------------------------------------------------------
Queued(t) == {i \in DOMAIN queue : queue[i] = t}
RunningOn(t) == {w \in Workers : running[w] = t}

(* A task is committed at most once: it is in the queue or with a worker   *)
(* at one place only, and once it has ended, at none (Worker.Start).  A    *)
(* second run would push the image again and overwrite the result.         *)
RunOnce ==
  \A t \in Tasks :
    /\ Cardinality(Queued(t)) + Cardinality(RunningOn(t)) <= 1
    /\ status[t] \in {"SUCCESS", "FAILED", "none", "lost"} => Queued(t) = {} /\ RunningOn(t) = {}

(* max_attempts bounds the callbacks that the service sends for a task by  *)
(* itself.  A RetryCallback adds to them, and by more than max_attempts    *)
(* again: two chains that lose each other's increments revive each other,  *)
(* so that together they may send n(n + 5)/2 with n = max_attempts, and    *)
(* no more (sendCallback).                                                 *)
AttemptsBounded ==
  LET n == IF MaxAttempts <= 0 THEN 3 ELSE MaxAttempts IN
  \A t \in Tasks : /\ retries[t] = 0 => sends[t] <= n
                   /\ retries[t] = 1 => 2 * sends[t] <= n * (n + 5)

(* What reached the queue ends, in spite of commands that hang (the        *)
(* timeout of processTask); a crash may lose it.                           *)
AcceptedEnds ==
  \A t \in Tasks : Queued(t) # {} ~> status[t] \in {"SUCCESS", "FAILED", "CANCELLED", "lost"}

(* The retries of a callback stop, also when RetryCallback resets the      *)
(* counter under them (sendCallback).                                      *)
CallbacksEnd ==
  \A t \in Tasks, k \in Chains : at[t][k] \in Active ~> at[t][k] \notin Active

(* CancelTask answers CANCELLED, and the task stays so: it does not run,   *)
(* or run on, after that (nydusify_service.go, "cancels a running task").  *)
CancelledForGood ==
  [][\A t \in Tasks : status[t] = "CANCELLED" => status'[t] \in {"CANCELLED", "lost"}]_vars
=============================================================================
