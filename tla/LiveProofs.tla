------------------------------ MODULE LiveProofs ----------------------------
(***************************************************************************)
(* The safety properties of the nydusify service and of the logger, for    *)
(* every number of tasks, workers, retries and lines.                      *)
(***************************************************************************)
EXTENDS MCLive, SequenceTheorems, FiniteSetTheorems, TLAPS

(* Where the lines are: the log, the channel, the line in hand and the     *)
(* FIFO hold 1 .. written in this order, as long as the copier goes on;    *)
(* when it has ended, the log and the channel still hold a prefix.         *)
InOrder ==
  /\ \A i \in 1 .. Len(logged) : logged[i] = i
  /\ \A i \in 1 .. Len(channel) : channel[i] = Len(logged) + i
  /\ copier =>
       /\ \A i \in 1 .. Len(held) : held[i] = Len(logged) + Len(channel) + i
       /\ \A i \in 1 .. Len(fifo) : fifo[i] = Len(logged) + Len(channel) + Len(held) + i
       /\ written = Len(logged) + Len(channel) + Len(held) + Len(fifo)
  /\ ~copier => held = <<>>

(* The logger has given up its lock after the last line of the channel. *)
Settled ==
  /\ ~loggerLock => ~reader /\ channel = <<>>
  /\ viewer = "told" => ~loggerLock

LoggerInv == LoggerTypeOK /\ InOrder /\ Settled

(* The empty sequence is the one of length 0. *)
LEMMA EmptyLen == ASSUME NEW S, NEW s \in Seq(S) PROVE Len(s) \in Nat /\ (s = <<>> <=> Len(s) = 0)
OBVIOUS

(* A non-empty sequence with at most one element has one. *)
LEMMA OneLen == ASSUME NEW S, NEW s \in Seq(S), Len(s) <= 1, s # <<>> PROVE Len(s) = 1
<1> DEFINE n == Len(s)
<1>1. n \in Nat /\ n <= 1 /\ n # 0
  BY EmptyLen
<1> HIDE DEF n
<1>2. n = 1
  BY <1>1
<1> QED BY <1>2 DEF n

(* A read of the FIFO: the head is in hand. *)
LEMMA CopyReadStep == LoggerInv /\ CopyRead => LoggerInv'
<1> SUFFICES ASSUME LoggerInv, CopyRead PROVE LoggerInv'
  OBVIOUS
<1> USE LineAssumption DEF LoggerInv, CopyRead
<1>1. LoggerTypeOK'
  BY DEF LoggerTypeOK
<1>2. InOrder'
  BY DEF InOrder, LoggerTypeOK
<1>3. Settled'
  BY DEF Settled
<1> QED BY <1>1, <1>2, <1>3

(* The reader takes the line in hand to the end of the channel. *)
LEMMA ReadLineStep == LoggerInv /\ ReadLine => LoggerInv'
<1> SUFFICES ASSUME LoggerInv, ReadLine PROVE LoggerInv'
  OBVIOUS
<1>1. /\ channel \in Seq(Lines) /\ held \in Seq(Lines) /\ fifo \in Seq(Lines) /\ logged \in Seq(Lines)
      /\ Len(held) <= 1 /\ held # <<>>
  BY DEF LoggerInv, LoggerTypeOK, ReadLine
<1>2. Len(held) = 1
  BY <1>1, OneLen
<1>3. Len(channel) \in Nat /\ Len(fifo) \in Nat /\ Len(logged) \in Nat
  BY <1>1
<1>4. copier
  BY <1>1 DEF LoggerInv, InOrder
<1>5. held[1] = Len(logged) + Len(channel) + 1
  BY <1>2, <1>4 DEF LoggerInv, InOrder
<1>6. /\ channel' \in Seq(Lines)
      /\ Len(channel') = Len(channel) + 1
      /\ \A i \in 1 .. Len(channel') : channel'[i] = Len(logged) + i
  <2>1. \A i \in 1 .. Len(channel) : channel[i] = Len(logged) + i
    BY DEF LoggerInv, InOrder
  <2>2. /\ channel \o held \in Seq(Lines)
        /\ Len(channel \o held) = Len(channel) + Len(held)
        /\ \A i \in 1 .. Len(channel) + Len(held) :
             (channel \o held)[i] = IF i <= Len(channel) THEN channel[i] ELSE held[i - Len(channel)]
    BY <1>1, ConcatProperties
  <2>3. PICK c : c = channel \o held
    OBVIOUS
  <2>4. PICK l \in Nat : l = Len(channel)
    BY <1>3
  <2>5. PICK n \in Nat : n = Len(logged)
    BY <1>3
  <2>6. /\ c \in Seq(Lines) /\ Len(c) = l + 1
        /\ \A i \in 1 .. l + 1 : c[i] = IF i <= l THEN channel[i] ELSE held[i - l]
    BY <1>2, <2>2, <2>3, <2>4
  <2>7. ASSUME NEW i \in 1 .. l + 1 PROVE c[i] = n + i
    <3>1. CASE i <= l
      BY <2>1, <2>4, <2>5, <2>6, <3>1
    <3>2. CASE i = l + 1
      <4>1. ~(i <= l) /\ i - l = 1
        BY <3>2
      <4>2. c[i] = held[1]
        BY <2>6, <4>1
      <4> QED BY <1>5, <2>4, <2>5, <3>2, <4>2
    <3>3. i <= l \/ i = l + 1
      OBVIOUS
    <3> QED BY <3>1, <3>2, <3>3
  <2> QED BY <2>3, <2>4, <2>5, <2>6, <2>7 DEF ReadLine
<1>7. /\ held' = <<>> /\ held' \in Seq(Lines) /\ Len(held') = 0
      /\ UNCHANGED <<logged, fifo, written, copier>>
  BY DEF ReadLine
<1>8. LoggerTypeOK'
  BY <1>6, <1>7 DEF LoggerInv, LoggerTypeOK, ReadLine
<1>9. InOrder'
  <2>1. Len(channel) + Len(held) = Len(channel') + Len(held')
    BY <1>2, <1>3, <1>6, <1>7
  <2>2. \A i \in 1 .. Len(fifo) : fifo[i] = Len(logged) + Len(channel') + Len(held') + i
    BY <1>2, <1>3, <1>4, <1>6, <1>7 DEF LoggerInv, InOrder
  <2>3. written = Len(logged) + Len(channel') + Len(held') + Len(fifo)
    BY <1>2, <1>3, <1>4, <1>6, <1>7 DEF LoggerInv, InOrder
  <2> QED BY <1>4, <1>6, <1>7, <2>2, <2>3 DEF LoggerInv, InOrder
<1>10. Settled'
  BY DEF LoggerInv, Settled, ReadLine
<1> QED BY <1>8, <1>9, <1>10 DEF LoggerInv

(* The driver takes the head of the channel. *)
LEMMA ProcessStep == LoggerInv /\ Process => LoggerInv'
<1> SUFFICES ASSUME LoggerInv, Process PROVE LoggerInv'
  OBVIOUS
<1> USE LineAssumption DEF LoggerInv, Process
<1>1. /\ Len(channel) \in Nat \ {0} /\ Len(logged) \in Nat /\ Len(held) \in Nat /\ Len(fifo) \in Nat
      /\ channel \in Seq(Lines) /\ logged \in Seq(Lines)
  BY EmptyLen DEF LoggerTypeOK
<1>2. /\ Len(channel') = Len(channel) - 1 /\ Len(logged') = Len(logged) + 1
      /\ \A i \in 1 .. Len(channel') : channel'[i] = channel[i + 1]
      /\ \A i \in 1 .. Len(logged) : logged'[i] = logged[i]
      /\ logged'[Len(logged) + 1] = channel[1]
      /\ channel' \in Seq(Lines) /\ logged' \in Seq(Lines)
  <2>1. /\ Head(channel) \in Lines /\ Head(channel) = channel[1]
    BY <1>1
  <2>2. /\ Len(channel') = Len(channel) - 1 /\ channel' \in Seq(Lines)
        /\ \A i \in 1 .. Len(channel') : channel'[i] = channel[i + 1]
    BY <1>1, HeadTailProperties
  <2>3. /\ logged' \in Seq(Lines) /\ Len(logged') = Len(logged) + 1
        /\ \A i \in 1 .. Len(logged) : logged'[i] = logged[i]
        /\ logged'[Len(logged) + 1] = channel[1]
    BY <1>1, <2>1, AppendProperties
  <2> QED BY <2>1, <2>2, <2>3
<1>3. LoggerTypeOK'
  BY <1>2 DEF LoggerTypeOK
<1>4. InOrder'
  <2>1. \A i \in 1 .. Len(logged') : logged'[i] = i
    BY <1>1, <1>2 DEF InOrder
  <2>2. \A i \in 1 .. Len(channel') : channel'[i] = Len(logged') + i
    BY <1>1, <1>2 DEF InOrder
  <2>3. Len(logged') + Len(channel') = Len(logged) + Len(channel)
    BY <1>1, <1>2
  <2> QED BY <2>1, <2>2, <2>3 DEF InOrder
<1>5. Settled'
  BY DEF Settled
<1> QED BY <1>3, <1>4, <1>5

(* The container writes one more line to the end of the FIFO. *)
LEMMA WriteStep == LoggerInv /\ ContainerWrites => LoggerInv'
<1> SUFFICES ASSUME LoggerInv, ContainerWrites PROVE LoggerInv'
  OBVIOUS
<1> USE LineAssumption DEF LoggerInv, ContainerWrites
<1>1. /\ written' \in Lines /\ written' = written + 1
      /\ Len(channel) \in Nat /\ Len(logged) \in Nat /\ Len(held) \in Nat /\ Len(fifo) \in Nat
      /\ fifo \in Seq(Lines)
  BY EmptyLen DEF LoggerTypeOK, Lines
<1>2. /\ fifo' \in Seq(Lines) /\ Len(fifo') = Len(fifo) + 1
      /\ \A i \in 1 .. Len(fifo) : fifo'[i] = fifo[i]
      /\ fifo'[Len(fifo) + 1] = written + 1
  BY <1>1, AppendProperties
<1>3. LoggerTypeOK'
  BY <1>1, <1>2 DEF LoggerTypeOK, Lines
<1>4. InOrder'
  BY <1>1, <1>2 DEF InOrder
<1>5. Settled'
  BY DEF Settled
<1> QED BY <1>3, <1>4, <1>5

(* The end of the copier. *)
LEMMA CopyEndsStep == LoggerInv /\ CopyEnds => LoggerInv'
<1> SUFFICES ASSUME LoggerInv, CopyEnds PROVE LoggerInv'
  OBVIOUS
<1> USE DEF LoggerInv, CopyEnds
<1>1. copier' = FALSE /\ held' = <<>>
  OBVIOUS
<1>2. LoggerTypeOK'
  <2>1. held' \in Seq(Lines) /\ Len(held') <= 1
    BY <1>1
  <2> QED BY <1>1, <2>1 DEF LoggerTypeOK
<1>3. InOrder'
  BY <1>1 DEF InOrder
<1>4. Settled'
  BY DEF Settled
<1> QED BY <1>2, <1>3, <1>4

(* The other steps move no line. *)
LEMMA OtherLoggerSteps ==
  ASSUME LoggerInv,
         \/ TaskStarts \/ ContainerExits \/ TaskDeleted \/ ShimSendsTerm \/ ReadEnds
         \/ FindTask \/ SearchEnds \/ SearchFails \/ TaskExit \/ ClosePipe \/ LoggerDone
         \/ Follow \/ ViewerSeesExit \/ WaitForLogger \/ UNCHANGED loggerVars
  PROVE  LoggerInv'
<1>2. UNCHANGED <<fifo, held, channel, logged, copier, written>>
  BY DEF TaskStarts, ContainerExits, TaskDeleted, ShimSendsTerm, ReadEnds,
         FindTask, SearchEnds, SearchFails, TaskExit, ClosePipe, LoggerDone, Follow,
         ViewerSeesExit, WaitForLogger, loggerVars, stages
<1>1. LoggerTypeOK'
  <2>1. /\ container' \in {"none", "running", "exited", "deleted"}
        /\ waiter' \in {"task", "exitCh", "ended"}
        /\ viewer' \in {"none", "following", "waiting", "told"}
    BY DEF LoggerInv, LoggerTypeOK, TaskStarts, ContainerExits, TaskDeleted, ShimSendsTerm, ReadEnds,
           FindTask, SearchEnds, SearchFails, TaskExit, ClosePipe, LoggerDone, Follow,
           ViewerSeesExit, WaitForLogger, loggerVars, stages
  <2>2. /\ copier' \in BOOLEAN /\ pipeOpen' \in BOOLEAN /\ reader' \in BOOLEAN
        /\ sigterm' \in BOOLEAN /\ loggerLock' \in BOOLEAN
    BY DEF LoggerInv, LoggerTypeOK, TaskStarts, ContainerExits, TaskDeleted, ShimSendsTerm, ReadEnds,
           FindTask, SearchEnds, SearchFails, TaskExit, ClosePipe, LoggerDone, Follow,
           ViewerSeesExit, WaitForLogger, loggerVars, stages
  <2> QED BY <1>2, <2>1, <2>2 DEF LoggerInv, LoggerTypeOK
<1>3. InOrder'
  BY <1>2 DEF LoggerInv, InOrder
<1>4. Settled'
  BY DEF LoggerInv, Settled, TaskStarts, ContainerExits, TaskDeleted, ShimSendsTerm, ReadEnds,
         FindTask, SearchEnds, SearchFails, TaskExit, ClosePipe, LoggerDone, Follow,
         ViewerSeesExit, WaitForLogger, loggerVars, stages
<1> QED BY <1>1, <1>3, <1>4 DEF LoggerInv

(* The logger starts with nothing written. *)
LEMMA LoggerInvInit == LoggerInit => LoggerInv
<1> SUFFICES ASSUME LoggerInit PROVE LoggerInv
  OBVIOUS
<1>1. /\ fifo \in Seq(Lines) /\ held \in Seq(Lines) /\ channel \in Seq(Lines) /\ logged \in Seq(Lines)
      /\ Len(fifo) = 0 /\ Len(held) = 0 /\ Len(channel) = 0 /\ Len(logged) = 0
  BY DEF LoggerInit
<1>2. LoggerTypeOK
  <2>1. Len(held) <= 1 /\ written \in 0 .. MaxLines
    BY <1>1, LineAssumption DEF LoggerInit
  <2> QED BY <1>1, <2>1 DEF LoggerInit, LoggerTypeOK
<1>3. InOrder
  BY <1>1 DEF LoggerInit, InOrder
<1>4. Settled
  BY DEF LoggerInit, Settled
<1> QED BY <1>2, <1>3, <1>4 DEF LoggerInv

(* Every step of the container, of the logger and of the viewer. *)
LEMMA LoggerInvStep == LoggerInv /\ [LoggerNext]_loggerVars => LoggerInv'
BY CopyReadStep, ReadLineStep, ProcessStep, WriteStep, CopyEndsStep, OtherLoggerSteps
DEF LoggerNext, LoggerStep, LoggerRests

(* The variables of the logger keep their types, whatever the schedule of  *)
(* its goroutines: in particular the copier has at most one line in hand.  *)
THEOREM LoggerTypes == LoggerSpec => []LoggerTypeOK
<1>1. LoggerInv => LoggerTypeOK
  BY DEF LoggerInv
<1> QED BY <1>1, LoggerInvInit, LoggerInvStep, PTL DEF LoggerSpec

(* The log is a prefix of the output, for every number of lines. *)
THEOREM LogIsPrefix == LoggerSpec => []LogPrefix
<1>1. LoggerInv => LogPrefix
  BY DEF LoggerInv, InOrder, LogPrefix, LoggerTypeOK
<1> QED BY <1>1, LoggerInvInit, LoggerInvStep, PTL DEF LoggerSpec

(* Nothing is added to the log after a viewer was told to stop. *)
THEOREM LogIsSettled == LoggerSpec => LogSettled
<1>1. LoggerInv /\ [LoggerNext]_loggerVars => [viewer = "told" => logged' = logged]_loggerVars
  <2> SUFFICES ASSUME LoggerInv, [LoggerNext]_loggerVars, viewer = "told" PROVE logged' = logged
    OBVIOUS
  <2>1. channel = <<>>
    BY DEF LoggerInv, Settled
  <2>2. ~Process
    BY <2>1 DEF Process
  <2> QED BY <2>2
    DEF LoggerNext, LoggerStep, LoggerRests, TaskStarts, ContainerWrites, ContainerExits,
        TaskDeleted, ShimSendsTerm, CopyRead, CopyEnds, ReadLine, ReadEnds, FindTask, SearchEnds,
        SearchFails, TaskExit, ClosePipe, LoggerDone, Follow, ViewerSeesExit, WaitForLogger,
        stages, loggerVars
<1> QED BY <1>1, LoggerInvInit, LoggerInvStep, PTL DEF LoggerSpec, LogSettled

-----------------------------------------------------------------------------
(* The tasks in the queue or with a worker: each at one place, and none of *)
(* them has ended.                                                         *)
InQueue(t) == \E i \in 1 .. Len(queue) : queue[i] = t
WithWorker(t) == \E w \in Workers : running[w] = t
Busy == {"PENDING", "RUNNING", "CANCELLED"}

WorkInv ==
  /\ \A i, j \in 1 .. Len(queue) : queue[i] = queue[j] => i = j
  /\ \A v, w \in Workers : running[v] = running[w] /\ running[v] # NoTask => v = w
  /\ \A i \in 1 .. Len(queue), w \in Workers : queue[i] # running[w]
  /\ \A i \in 1 .. Len(queue) : status[queue[i]] \in Busy
  /\ \A w \in Workers : running[w] # NoTask => status[running[w]] \in Busy
  /\ \A w \in Workers : command[w] # "none" \/ expired[w] => running[w] # NoTask

(* No callback was sent for a task before its end. *)
Fresh(t) ==
  /\ attempts[t] = 0 /\ sends[t] = 0 /\ ~success[t] /\ retries[t] = 0
  /\ \A k \in Chains : at[t][k] = "none"
FreshInv ==
  \A t \in Tasks : status[t] = "none" \/ InQueue(t) \/ WithWorker(t) => Fresh(t)

(* Every chain beyond the first is that of a RetryCallback. *)
ChainInv == \A t \in Tasks, k \in Chains : k > retries[t] => at[t][k] = "none"

(* What max_attempts still allows after x attempts, and twice what two     *)
(* chains can send when each may take the other's attempts back: with n    *)
(* left, n and one more for each of n, n - 1, ... 1.                       *)
Rem(x) == IF x < maxAttempts THEN maxAttempts - x ELSE 0
W(n) == n * (n + 3)
Limit == maxAttempts * (maxAttempts + 5)

(* A chain alone: every request it has sent is counted.                    *)
Alone(x, r, a, ok, s) ==
  /\ s = a /\ a <= maxAttempts /\ (ok => x = "done")
  /\ x \in {"none", "init"} => a = 0
  /\ x = "sleep" => a < maxAttempts
  /\ x = "count" => r = a /\ a < maxAttempts

Over == {"none", "done"}
Asleep == {"sleep", "check"}

(* What one of two chains, at x, can still send when the other is over, *)
OneFits(x, r, a, s) ==
  /\ x \in Over => 2 * s <= Limit
  /\ x \in Asleep => 2 * s + 2 * Rem(a) <= Limit /\ 2 * s + 2 <= Limit
  /\ x = "send" => 2 * s + 2 * Rem(a) <= Limit
  /\ x = "count" => 2 * s + 2 + 2 * Rem(a + 1) <= Limit /\ 2 * s + 2 + 2 * Rem(r + 1) <= Limit

(* what both can when the other one has read r and is about to count, *)
OtherReads(x, r, a, s) ==
  /\ r < maxAttempts
  /\ x \in Asleep => a < maxAttempts
  /\ a <= r => 2 * s + W(Rem(a)) <= Limit
  /\ r < a => 2 * s + 2 * Rem(a) + 2 + W(Rem(r + 1)) <= Limit

(* when none is, *)
NoneReads(x, y, a, s) ==
  /\ 2 * s + W(Rem(a)) <= Limit
  /\ x \in Asleep \/ y \in Asleep => 2 * s + 2 <= Limit

(* and when both are. *)
BothRead(r, q, a, s) ==
  /\ a \in {r, q} /\ r < maxAttempts /\ q < maxAttempts
  /\ 2 * s + 4 + 2 * Rem(a + 1) + W(Rem(r + 1)) <= Limit
  /\ 2 * s + 4 + 2 * Rem(a + 1) + W(Rem(q + 1)) <= Limit

Fits(x, r, y, q, a, ok, s) ==
  /\ x \in Over => OneFits(y, q, a, s)
  /\ y \in Over => OneFits(x, r, a, s)
  /\ x \notin Over /\ y \notin Over =>
       /\ ~ok
       /\ x # "count" /\ y # "count" => NoneReads(x, y, a, s)
       /\ x # "count" /\ y = "count" => OtherReads(x, q, a, s)
       /\ x = "count" /\ y # "count" => OtherReads(y, r, a, s)
       /\ x = "count" /\ y = "count" => BothRead(r, q, a, s)

(* The callbacks of t: before there is a CallbackStatus, none; those of a  *)
(* single chain, and, with one RetryCallback, those of two, of which one   *)
(* may be about to make a CallbackStatus anew.                             *)
Unknown(t) ==
  /\ attempts[t] = 0 /\ sends[t] = 0 /\ ~success[t]
  /\ \A k \in Chains : at[t][k] \in {"none", "sleep", "init"}
Single(t, k) == Alone(at[t][k], read[t][k], attempts[t], success[t], sends[t])
Pair(t, k, j) ==
  /\ at[t][k] = "init" => Single(t, j)
  /\ at[t][j] = "init" => Single(t, k)
  /\ at[t][k] # "init" /\ at[t][j] # "init" =>
       Fits(at[t][k], read[t][k], at[t][j], read[t][j], attempts[t], success[t], sends[t])

CountInv(t) ==
  /\ ~known[t] => Unknown(t)
  /\ retries[t] = 0 => Single(t, 0)
  /\ retries[t] = 1 => Pair(t, 0, 1)

NydusInv == TypeOK /\ WorkInv /\ FreshInv /\ ChainInv /\ \A t \in Tasks : CountInv(t)

(* At least one attempt is allowed. *)
LEMMA MaxPositive == maxAttempts \in Nat /\ maxAttempts >= 1
BY NumberAssumption DEF maxAttempts

(* The numbers in these bounds. *)
LEMMA WFacts ==
  /\ \A n \in Nat : W(n) \in Nat /\ 2 * n <= W(n) /\ W(n + 1) = W(n) + 2 * n + 4
  /\ \A i, n \in Nat : i <= n => W(i) <= W(n)
  /\ Limit \in Nat /\ Limit = W(maxAttempts) + 2 * maxAttempts
<1>1. \A n \in Nat : W(n) \in Nat /\ 2 * n <= W(n) /\ W(n + 1) = W(n) + 2 * n + 4
  BY DEF W
<1>2. ASSUME NEW i \in Nat, NEW n \in Nat, i <= n PROVE W(i) <= W(n)
  <2>1. PICK d \in Nat : n = i + d
    <3>1. n - i \in Nat /\ n = i + (n - i)
      BY <1>2
    <3> QED BY <3>1
  <2>2. (i + d) * (i + d + 3) = i * (i + 3) + d * (i + i + d + 3)
    OBVIOUS
  <2>3. i * (i + 3) \in Nat /\ d * (i + i + d + 3) \in Nat
    OBVIOUS
  <2> QED BY <2>1, <2>2, <2>3 DEF W
<1>3. Limit \in Nat /\ Limit = W(maxAttempts) + 2 * maxAttempts
  BY MaxPositive DEF Limit, W
<1> QED BY <1>1, <1>2, <1>3

(* What is left goes down by one with each attempt, to zero. *)
LEMMA RemFacts ==
  /\ Rem(0) = maxAttempts
  /\ \A x \in Nat : /\ Rem(x) \in Nat /\ Rem(x) <= maxAttempts
                    /\ x < maxAttempts => Rem(x) = Rem(x + 1) + 1
                    /\ x >= maxAttempts => Rem(x) = 0
                    /\ x <= maxAttempts => x + Rem(x) = maxAttempts
  /\ \A x, y \in Nat : x <= y => Rem(y) <= Rem(x)
BY MaxPositive DEF Rem

(* The two together, at one place, *)
LEMMA RoomAt ==
  ASSUME NEW x \in Nat
  PROVE  /\ Rem(x) \in Nat /\ W(Rem(x)) \in Nat /\ 2 * Rem(x) <= W(Rem(x))
         /\ x < maxAttempts => /\ Rem(x) = Rem(x + 1) + 1
                              /\ W(Rem(x)) = W(Rem(x + 1)) + 2 * Rem(x + 1) + 4
         /\ x >= maxAttempts => Rem(x) = 0
<1>1. x + 1 \in Nat
  OBVIOUS
<1>2. Rem(x) \in Nat /\ Rem(x + 1) \in Nat /\ (x < maxAttempts => Rem(x) = Rem(x + 1) + 1)
      /\ (x >= maxAttempts => Rem(x) = 0)
  BY <1>1, RemFacts
<1>3. W(Rem(x)) \in Nat /\ 2 * Rem(x) <= W(Rem(x)) /\ W(Rem(x + 1) + 1) = W(Rem(x + 1)) + 2 * Rem(x + 1) + 4
  BY <1>2, WFacts
<1> QED BY <1>2, <1>3

(* and at two. *)
LEMMA LessRoom ==
  ASSUME NEW x \in Nat, NEW y \in Nat, x <= y PROVE Rem(y) <= Rem(x) /\ W(Rem(y)) <= W(Rem(x))
<1>1. Rem(y) <= Rem(x) /\ Rem(x) \in Nat /\ Rem(y) \in Nat
  BY RemFacts
<1> QED BY <1>1, WFacts

(* The chains are alike. *)
LEMMA FitsSym ==
  ASSUME NEW x, NEW r, NEW y, NEW q, NEW a, NEW ok, NEW s, Fits(x, r, y, q, a, ok, s)
  PROVE  Fits(y, q, x, r, a, ok, s)
BY DEF Fits, NoneReads, BothRead

(* A chain passes the test: it has read what is there. *)
LEMMA CheckFits ==
  ASSUME NEW r, NEW y \in Over \union (Active \ {"init"}), NEW q \in Nat, NEW a \in Nat, NEW ok \in BOOLEAN,
         NEW s \in Nat, Fits("check", r, y, q, a, ok, s), a < maxAttempts \/ ok
  PROVE  Fits("count", a, y, q, a, ok, s)
<1>0. maxAttempts \in Nat /\ maxAttempts >= 1 /\ Limit \in Nat
  BY MaxPositive, WFacts
<1>a. a + 1 \in Nat /\ q + 1 \in Nat
  OBVIOUS
<1>1. /\ Rem(a) \in Nat /\ Rem(a + 1) \in Nat /\ Rem(q + 1) \in Nat
      /\ W(Rem(a)) \in Nat /\ W(Rem(a + 1)) \in Nat /\ W(Rem(q + 1)) \in Nat
      /\ a < maxAttempts => /\ Rem(a) = Rem(a + 1) + 1
                           /\ W(Rem(a)) = W(Rem(a + 1)) + 2 * Rem(a + 1) + 4
  BY <1>a, RoomAt
<1>2. CASE y \in Over
  <2>1. 2 * s + 2 * Rem(a) <= Limit /\ 2 * s + 2 <= Limit
    BY <1>2 DEF Fits, OneFits, Asleep, Over
  <2>2. 2 * s + 2 + 2 * Rem(a + 1) <= Limit
    <3>1. CASE a < maxAttempts
      BY <1>0, <1>1, <2>1, <3>1
    <3>2. CASE a >= maxAttempts
      <4>1. Rem(a + 1) = 0
        BY <1>0, <1>a, <3>2, RoomAt
      <4> QED BY <1>0, <2>1, <4>1
    <3> QED BY <1>0, <3>1, <3>2
  <2> QED BY <1>2, <2>2 DEF Fits, OneFits, Over, Asleep
<1>3. ASSUME y \notin Over PROVE ~ok /\ a < maxAttempts
  BY <1>3 DEF Fits, Over
<1>4. CASE y \in Asleep \union {"send"}
  <2>1. 2 * s + W(Rem(a)) <= Limit
    BY <1>4 DEF Fits, NoneReads, Over, Asleep
  <2>a. y \notin Over /\ ~(a < a)
    BY <1>4 DEF Over, Asleep
  <2>2. OtherReads(y, a, a, s)
    BY <1>3, <1>4, <2>1, <2>a DEF OtherReads
  <2> QED BY <1>3, <1>4, <2>2 DEF Fits, Over, Asleep
<1>5. CASE y = "count"
  <2>1. a < maxAttempts /\ ~ok /\ OtherReads("check", q, a, s)
    BY <1>3, <1>5 DEF Fits, Over
  <2>2. Rem(a) = Rem(a + 1) + 1
    BY <1>1, <2>1
  <2>3. W(Rem(a)) = W(Rem(a + 1)) + 2 * Rem(a + 1) + 4
    BY <1>1, <2>1
  <2>4. CASE a <= q
    <3>1. 2 * s + W(Rem(a)) <= Limit /\ W(Rem(q + 1)) <= W(Rem(a + 1)) /\ q < maxAttempts
      <4>1. a + 1 <= q + 1
        BY <2>4
      <4> QED BY <1>a, <2>1, <2>4, <4>1, LessRoom DEF OtherReads
    <3>2. 2 * s + 4 + 2 * Rem(a + 1) + W(Rem(a + 1)) <= Limit
      BY <1>0, <1>1, <2>3, <3>1
    <3>3. 2 * s + 4 + 2 * Rem(a + 1) + W(Rem(q + 1)) <= Limit
      BY <1>0, <1>1, <2>3, <3>1, <3>2
    <3> QED BY <1>5, <2>1, <3>1, <3>2, <3>3 DEF Fits, BothRead, Over
  <2>5. CASE q < a
    <3>1. 2 * s + 2 * Rem(a) + 2 + W(Rem(q + 1)) <= Limit /\ W(Rem(a + 1)) <= W(Rem(q + 1)) /\ q < maxAttempts
      <4>1. q + 1 <= a + 1
        BY <2>5
      <4> QED BY <1>a, <2>1, <2>5, <4>1, LessRoom DEF OtherReads
    <3>2. 2 * s + 4 + 2 * Rem(a + 1) + W(Rem(q + 1)) <= Limit
      BY <1>0, <1>1, <2>2, <2>3, <3>1
    <3>3. 2 * s + 4 + 2 * Rem(a + 1) + W(Rem(a + 1)) <= Limit
      BY <1>0, <1>1, <2>3, <3>1, <3>2
    <3> QED BY <1>5, <2>1, <3>1, <3>2, <3>3 DEF Fits, BothRead, Over
  <2> QED BY <2>4, <2>5
<1> QED BY <1>2, <1>4, <1>5 DEF Over, Active, Asleep

(* It counts and sends, from what is there or from what it has read. *)
LEMMA SendFits ==
  ASSUME NEW r \in Nat, NEW y \in Over \union (Active \ {"init"}), NEW q \in Nat, NEW a \in Nat,
         NEW ok \in BOOLEAN, NEW s \in Nat, Fits("count", r, y, q, a, ok, s), NEW n \in {a, r}
  PROVE  Fits("send", 0, y, q, n + 1, ok, s + 1)
<1>0. maxAttempts \in Nat /\ maxAttempts >= 1 /\ Limit \in Nat
  BY MaxPositive, WFacts
<1>1. /\ a + 1 \in Nat /\ r + 1 \in Nat /\ q + 1 \in Nat /\ n \in Nat /\ n + 1 \in Nat
  OBVIOUS
<1>2. /\ Rem(a) \in Nat /\ Rem(a + 1) \in Nat /\ Rem(r + 1) \in Nat /\ Rem(n + 1) \in Nat /\ Rem(q + 1) \in Nat
      /\ W(Rem(a)) \in Nat /\ W(Rem(a + 1)) \in Nat /\ W(Rem(r + 1)) \in Nat /\ W(Rem(n + 1)) \in Nat
      /\ W(Rem(q + 1)) \in Nat
      /\ a < maxAttempts => /\ Rem(a) = Rem(a + 1) + 1
                           /\ W(Rem(a)) = W(Rem(a + 1)) + 2 * Rem(a + 1) + 4
  BY <1>1, RoomAt
<1>3. CASE y \in Over
  <2>1. 2 * s + 2 + 2 * Rem(n + 1) <= Limit
    BY <1>3 DEF Fits, OneFits, Over, Asleep
  <2>2. 2 * (s + 1) + 2 * Rem(n + 1) <= Limit /\ 2 * (s + 1) <= Limit
    BY <1>0, <1>1, <1>2, <2>1
  <2> QED BY <1>3, <2>2 DEF Fits, OneFits, Over, Asleep
<1>4. CASE y \in Asleep \union {"send"}
  <2>1. ~ok /\ OtherReads(y, r, a, s)
    BY <1>4 DEF Fits, Over, Asleep
  <2>2. CASE a <= r
    <3>0. r < maxAttempts /\ 2 * s + W(Rem(a)) <= Limit
      BY <2>1, <2>2 DEF OtherReads
    <3>1. a < maxAttempts
      BY <1>0, <2>2, <3>0
    <3>2. W(Rem(a)) = W(Rem(a + 1)) + 2 * Rem(a + 1) + 4
      BY <1>2, <3>1
    <3>3. a + 1 <= n + 1
      BY <1>1, <2>2
    <3>4. W(Rem(n + 1)) <= W(Rem(a + 1))
      BY <1>1, <3>3, LessRoom
    <3>5. 2 * (s + 1) + W(Rem(n + 1)) <= Limit /\ 2 * (s + 1) + 2 <= Limit
      BY <1>0, <1>2, <3>0, <3>2, <3>4
    <3> QED BY <1>4, <2>1, <3>5 DEF Fits, NoneReads, Over, Asleep
  <2>3. CASE r < a
    <3>1. 2 * s + 2 * Rem(a) + 2 + W(Rem(r + 1)) <= Limit
      BY <2>1, <2>3 DEF OtherReads
    <3>2. r + 1 <= n + 1
      BY <1>1, <2>3
    <3>3. W(Rem(n + 1)) <= W(Rem(r + 1))
      BY <1>1, <3>2, LessRoom
    <3>4. 2 * (s + 1) + W(Rem(n + 1)) <= Limit
      BY <1>0, <1>2, <3>1, <3>3
    <3>5. ASSUME y \in Asleep PROVE 2 * (s + 1) + 2 <= Limit
      <4>1. Rem(a) = Rem(a + 1) + 1
        BY <1>2, <2>1, <3>5 DEF OtherReads
      <4> QED BY <1>0, <1>2, <3>1, <4>1
    <3> QED BY <1>4, <2>1, <3>4, <3>5 DEF Fits, NoneReads, Over, Asleep
  <2> QED BY <2>2, <2>3
<1>5. CASE y = "count"
  <2>1. ~ok /\ BothRead(r, q, a, s)
    BY <1>5 DEF Fits, Over
  <2>2. /\ a \in {r, q} /\ r < maxAttempts /\ q < maxAttempts
        /\ 2 * s + 4 + 2 * Rem(a + 1) + W(Rem(r + 1)) <= Limit
        /\ 2 * s + 4 + 2 * Rem(a + 1) + W(Rem(q + 1)) <= Limit
    BY <2>1 DEF BothRead
  <2>3. ASSUME n + 1 <= q PROVE 2 * (s + 1) + W(Rem(n + 1)) <= Limit
    <3>1. r <= n
      BY <2>2, <2>3
    <3>2. r + 1 <= n + 1
      BY <1>1, <3>1
    <3>3. W(Rem(n + 1)) <= W(Rem(r + 1))
      BY <1>1, <3>2, LessRoom
    <3> QED BY <1>0, <1>2, <2>2, <3>3
  <2>4. ASSUME q < n + 1 PROVE 2 * (s + 1) + 2 * Rem(n + 1) + 2 + W(Rem(q + 1)) <= Limit
    <3>1. a <= n
      BY <2>2, <2>4
    <3>2. a + 1 <= n + 1
      BY <1>1, <3>1
    <3>3. Rem(n + 1) <= Rem(a + 1)
      BY <1>1, <3>2, LessRoom
    <3> QED BY <1>0, <1>2, <2>2, <3>3
  <2>5. OtherReads("send", q, n + 1, s + 1)
    BY <1>1, <2>2, <2>3, <2>4 DEF OtherReads, Asleep
  <2> QED BY <1>5, <2>1, <2>5 DEF Fits, Over
<1> QED BY <1>3, <1>4, <1>5 DEF Over, Active, Asleep

(* It ends, before the test or after the answer. *)
LEMMA EndFits ==
  ASSUME NEW x \in {"check", "send"}, NEW r, NEW y \in Over \union (Active \ {"init"}), NEW q \in Nat,
         NEW a \in Nat, NEW ok, NEW s \in Nat, Fits(x, r, y, q, a, ok, s), NEW ok2
  PROVE  Fits("done", r, y, q, a, ok2, s)
<1>0. maxAttempts \in Nat /\ maxAttempts >= 1 /\ Limit \in Nat
  BY MaxPositive, WFacts
<1>a. a + 1 \in Nat /\ q + 1 \in Nat
  OBVIOUS
<1>1. /\ Rem(a) \in Nat /\ Rem(a + 1) \in Nat /\ Rem(q + 1) \in Nat
      /\ W(Rem(a)) \in Nat /\ W(Rem(q + 1)) \in Nat
      /\ 2 * Rem(a) <= W(Rem(a)) /\ 2 * Rem(q + 1) <= W(Rem(q + 1))
      /\ a < maxAttempts => Rem(a) = Rem(a + 1) + 1
  BY <1>a, RoomAt
<1>2. CASE y \in Over
  <2>1. 2 * s + 2 * Rem(a) <= Limit
    BY <1>2 DEF Fits, OneFits, Over, Asleep
  <2>2. 2 * s <= Limit
    BY <1>0, <1>1, <2>1
  <2> QED BY <1>2, <2>2 DEF Fits, OneFits, Over, Asleep
<1>3. CASE y \in Asleep \union {"send"}
  <2>1. 2 * s + W(Rem(a)) <= Limit /\ (y \in Asleep => 2 * s + 2 <= Limit)
    BY <1>3 DEF Fits, NoneReads, Over, Asleep
  <2>2. 2 * s + 2 * Rem(a) <= Limit
    BY <1>0, <1>1, <2>1
  <2> QED BY <1>3, <2>1, <2>2 DEF Fits, OneFits, Over, Asleep
<1>4. CASE y = "count"
  <2>1. OtherReads(x, q, a, s)
    BY <1>4 DEF Fits, Over
  <2>2. 2 * s + 2 + 2 * Rem(a + 1) <= Limit /\ 2 * s + 2 + 2 * Rem(q + 1) <= Limit
    <3>1. CASE a <= q
      <4>1. q < maxAttempts /\ 2 * s + W(Rem(a)) <= Limit
        BY <2>1, <3>1 DEF OtherReads
      <4>2. a < maxAttempts /\ a + 1 <= q + 1
        BY <1>0, <3>1, <4>1
      <4>3. Rem(a) = Rem(a + 1) + 1 /\ Rem(q + 1) <= Rem(a + 1)
        BY <1>a, <1>1, <4>2, LessRoom
      <4> QED BY <1>0, <1>1, <4>1, <4>3
    <3>2. CASE q < a
      <4>1. 2 * s + 2 * Rem(a) + 2 + W(Rem(q + 1)) <= Limit
        BY <2>1, <3>2 DEF OtherReads
      <4>2. q + 1 <= a + 1
        BY <3>2
      <4>3. Rem(a + 1) <= Rem(q + 1)
        BY <1>a, <4>2, LessRoom
      <4> QED BY <1>0, <1>1, <4>1, <4>3
    <3> QED BY <3>1, <3>2
  <2> QED BY <1>4, <2>2 DEF Fits, OneFits, Over, Asleep
<1> QED BY <1>2, <1>3, <1>4 DEF Over, Active, Asleep

(* It sleeps before its next attempt. *)
LEMMA SleepFits ==
  ASSUME NEW r, NEW y \in Over \union (Active \ {"init"}), NEW q \in Nat, NEW a \in Nat, NEW ok,
         NEW s \in Nat, Fits("send", r, y, q, a, ok, s), a < maxAttempts
  PROVE  Fits("sleep", r, y, q, a, FALSE, s)
<1>0. maxAttempts \in Nat /\ maxAttempts >= 1 /\ Limit \in Nat
  BY MaxPositive, WFacts
<1>a. a + 1 \in Nat
  OBVIOUS
<1>1. /\ Rem(a) \in Nat /\ Rem(a + 1) \in Nat /\ Rem(a) = Rem(a + 1) + 1
      /\ W(Rem(a)) \in Nat /\ 2 * Rem(a) <= W(Rem(a))
  BY <1>a, RoomAt
<1>2. CASE y \in Over
  <2>1. 2 * s + 2 * Rem(a) <= Limit
    BY <1>2 DEF Fits, OneFits, Over, Asleep
  <2>2. 2 * s + 2 <= Limit
    BY <1>0, <1>1, <2>1
  <2>3. y \in Over => OneFits("sleep", r, a, s)
    BY <2>1, <2>2 DEF OneFits, Over, Asleep
  <2> QED BY <1>2, <2>3 DEF Fits, Over
<1>3. CASE y \in Asleep \union {"send"}
  <2>1. 2 * s + W(Rem(a)) <= Limit
    BY <1>3 DEF Fits, NoneReads, Over, Asleep
  <2>2. 2 * s + 2 <= Limit
    BY <1>0, <1>1, <2>1
  <2> QED BY <1>3, <2>1, <2>2 DEF Fits, NoneReads, Over, Asleep
<1>4. CASE y = "count"
  <2>1. OtherReads("send", q, a, s)
    BY <1>4 DEF Fits, Over
  <2>2. OtherReads("sleep", q, a, s)
    BY <2>1 DEF OtherReads
  <2> QED BY <1>4, <2>2 DEF Fits, Over
<1> QED BY <1>2, <1>3, <1>4 DEF Over, Active, Asleep

(* It wakes up. *)
LEMMA WakeFits ==
  ASSUME NEW r, NEW y, NEW q, NEW a, NEW ok, NEW s, Fits("sleep", r, y, q, a, ok, s)
  PROVE  Fits("check", r, y, q, a, ok, s)
<1>1. CASE y \in Over
  BY <1>1 DEF Fits, OneFits, Over, Asleep
<1>2. CASE y \notin Over
  BY <1>2 DEF Fits, NoneReads, OtherReads, Over, Asleep
<1> QED BY <1>1, <1>2

(* A second chain joins one that was alone, and the counter may be reset.  *)
LEMMA JoinFits ==
  ASSUME NEW x \in Asleep, NEW r, NEW y \in Over \union (Active \ {"init"}), NEW q \in Nat,
         NEW a \in Nat, NEW ok \in BOOLEAN, NEW s \in Nat, Alone(y, q, a, ok, s)
  PROVE  Fits(x, r, y, q, 0, FALSE, s) /\ (a < maxAttempts \/ x = "sleep" => Fits(x, r, y, q, a, ok, s))
<1>0. maxAttempts \in Nat /\ maxAttempts >= 1 /\ Limit \in Nat
  BY MaxPositive, WFacts
<1>1. /\ s = a /\ a <= maxAttempts /\ (ok => y = "done") /\ (y = "count" => q = a /\ a < maxAttempts)
      /\ (y = "sleep" => a < maxAttempts)
  BY DEF Alone
<1>2. /\ Rem(a) \in Nat /\ Rem(0) \in Nat /\ a + Rem(a) = maxAttempts
      /\ W(Rem(a)) \in Nat /\ W(Rem(a)) <= W(maxAttempts) /\ 2 * maxAttempts <= W(maxAttempts)
      /\ W(maxAttempts) \in Nat /\ Rem(0) = maxAttempts
  BY <1>0, <1>1, RemFacts, WFacts
<1>3. 4 <= W(maxAttempts)
  <2>1. W(1) <= W(maxAttempts) /\ W(1) = 4
    BY <1>0, WFacts DEF W
  <2> QED BY <2>1
<1>4. /\ 2 * s + W(maxAttempts) <= Limit /\ 2 * s + W(Rem(a)) <= Limit
      /\ 2 * s + 2 * Rem(a) <= Limit /\ 2 * s + 2 * maxAttempts <= Limit /\ 2 * s + 2 <= Limit /\ 2 * s <= Limit
  <2>1. Limit = W(maxAttempts) + 2 * maxAttempts
    BY WFacts
  <2> QED BY <1>0, <1>1, <1>2, <1>3, <2>1
<1>5. x \notin Over /\ x # "count" /\ x # "send"
  BY DEF Over, Asleep
<1>6. CASE y \in Over
  BY <1>2, <1>4, <1>5, <1>6 DEF Fits, OneFits, Over
<1>7. CASE y \in Asleep \union {"send"}
  <2>1. ~ok /\ y \notin Over /\ y # "count"
    BY <1>1, <1>7 DEF Over, Asleep
  <2> QED BY <1>2, <1>4, <1>5, <2>1 DEF Fits, NoneReads
<1>8. CASE y = "count"
  <2>1. OtherReads(x, q, 0, s)
    BY <1>0, <1>1, <1>2, <1>4, <1>8 DEF OtherReads
  <2>2. OtherReads(x, q, a, s)
    BY <1>1, <1>4, <1>8 DEF OtherReads
  <2>3. ~ok /\ y \notin Over
    BY <1>1, <1>8 DEF Over
  <2> QED BY <1>5, <1>8, <2>1, <2>2, <2>3 DEF Fits
<1> QED BY <1>6, <1>7, <1>8 DEF Over, Active, Asleep

(* What a step of a chain changes: one entry of at. *)
LEMMA ChainAt ==
  ASSUME TypeOK, NEW t \in Tasks, NEW k \in Chains, NEW from, NEW to \in {"none", "done"} \union Active,
         Chain(t, k, from, to)
  PROVE  /\ at' \in [Tasks -> [Chains -> {"none", "done"} \union Active]]
         /\ at[t][k] = from /\ at'[t][k] = to
         /\ \A j \in Chains : j # k => at'[t][j] = at[t][j]
         /\ \A u \in Tasks : u # t => at'[u] = at[u]
BY DEF TypeOK, Chain

(* A step that leaves the work alone keeps what is said of it. *)
LEMMA WorkFrame == WorkInv /\ UNCHANGED <<status, work>> => WorkInv'
BY DEF WorkInv, work

(* A step that leaves the callbacks alone keeps what is said of them. *)
LEMMA CallFrame ==
  ASSUME ChainInv, \A t \in Tasks : CountInv(t), UNCHANGED callback
  PROVE  ChainInv' /\ \A t \in Tasks : CountInv(t)'
BY DEF ChainInv, CountInv, Unknown, Single, Pair, callback

(* A step of one chain says nothing of the other tasks. *)
LEMMA OtherTasks ==
  ASSUME NEW u \in Tasks, CountInv(u), attempts'[u] = attempts[u], success'[u] = success[u],
         retries'[u] = retries[u], at'[u] = at[u], read'[u] = read[u], known'[u] = known[u],
         sends'[u] = sends[u]
  PROVE  CountInv(u)'
BY DEF CountInv, Unknown, Single, Pair

(* A task without callbacks so far. *)
LEMMA FreshCount ==
  ASSUME NEW t \in Tasks, Fresh(t)' PROVE CountInv(t)'
<1>1. 0 \in Chains
  BY NumberAssumption DEF Chains
<1> QED BY <1>1, MaxPositive DEF Fresh, CountInv, Unknown, Single, Alone

(* A task with an active chain has ended. *)
LEMMA ActiveEnded ==
  ASSUME FreshInv, NEW t \in Tasks, NEW k \in Chains, at[t][k] # "none"
  PROVE  status[t] # "none" /\ ~InQueue(t) /\ ~WithWorker(t)
BY DEF FreshInv, Fresh

(* Steps of the callbacks of t, which has ended. *)
LEMMA FreshFrame ==
  ASSUME FreshInv, UNCHANGED <<status, work>>, NEW t \in Tasks,
         status[t] # "none" /\ ~InQueue(t) /\ ~WithWorker(t),
         \A u \in Tasks \ {t} : /\ attempts'[u] = attempts[u] /\ success'[u] = success[u]
                                /\ retries'[u] = retries[u] /\ at'[u] = at[u] /\ sends'[u] = sends[u]
  PROVE  FreshInv'
BY DEF FreshInv, Fresh, InQueue, WithWorker, work

(* What is in the queue is a task. *)
LEMMA QueueTasks == TypeOK => \A i \in 1 .. Len(queue) : queue[i] \in Tasks
BY ElementOfSeq DEF TypeOK

(* A status that is not an end can be set at any time. *)
LEMMA StatusStep ==
  ASSUME TypeOK, WorkInv, NEW t \in Tasks, NEW s \in Busy,
         status' = [status EXCEPT ![t] = s], UNCHANGED work
  PROVE  WorkInv'
<1>1. \A u \in Tasks : status[u] \in Busy => status'[u] \in Busy
  BY DEF TypeOK
<1>2. \A i \in 1 .. Len(queue) : status'[queue[i]] \in Busy
  BY <1>1, QueueTasks DEF WorkInv
<1>3. \A w \in Workers : running[w] # NoTask => status'[running[w]] \in Busy
  BY <1>1 DEF WorkInv, TypeOK
<1> QED BY <1>2, <1>3 DEF WorkInv, work

-----------------------------------------------------------------------------
(* The queue and the workers.                                              *)
LEMMA SubmitStep ==
  ASSUME NydusInv, NEW t \in Tasks, SubmitCommitTask(t) PROVE NydusInv'
<1> USE DEF NydusInv
<1>1. ~InQueue(t) /\ ~WithWorker(t)
  BY NoTaskAssumption DEF WorkInv, InQueue, WithWorker, SubmitCommitTask, Busy
<1>2. /\ status' = [status EXCEPT ![t] = "PENDING"] /\ status[t] = "none"
      /\ UNCHANGED <<running, command, expired, cancelling, callback>>
  BY DEF SubmitCommitTask
<1>3. CASE queue' = queue
  <2>1. TypeOK'
    BY <1>2, <1>3 DEF TypeOK, callback, Status
  <2>2. WorkInv'
    <3>1. "PENDING" \in Busy /\ UNCHANGED work
      BY <1>2, <1>3 DEF Busy, work
    <3> QED BY <1>2, <3>1, StatusStep
  <2>3. FreshInv'
    BY <1>2, <1>3 DEF FreshInv, Fresh, InQueue, WithWorker, callback, TypeOK
  <2> QED BY <1>2, <2>1, <2>2, <2>3, CallFrame
<1>4. CASE queue' = Append(queue, t) /\ Len(queue) < QueueCap
  <2>1. /\ queue \in Seq(Tasks) /\ queue' \in Seq(Tasks) /\ Len(queue') = Len(queue) + 1
        /\ Len(queue) \in Nat
        /\ \A i \in 1 .. Len(queue) : queue'[i] = queue[i]
        /\ queue'[Len(queue) + 1] = t
    BY <1>4, AppendProperties DEF TypeOK
  <2>2. PICK n \in Nat : n = Len(queue)
    BY <2>1
  <2>3. Len(queue') <= QueueCap
    BY <1>4, <2>1, <2>2, NumberAssumption
  <2>4. TypeOK'
    BY <1>2, <2>1, <2>3 DEF TypeOK, callback, Status
  <2>5. \A i \in 1 .. n + 1 : (i \in 1 .. n /\ queue'[i] = queue[i]) \/ (i = n + 1 /\ queue'[i] = t)
    BY <2>1, <2>2
  <2>6. \A i \in 1 .. n : queue[i] # t /\ queue[i] \in Tasks
    BY <1>1, <2>1, <2>2 DEF InQueue
  <2>7. Len(queue') = n + 1
    BY <2>1, <2>2
  <2>8. WorkInv'
    <3>1. \A i, j \in 1 .. n + 1 : queue'[i] = queue'[j] => i = j
      BY <2>2, <2>5, <2>6 DEF WorkInv
    <3>2. \A i \in 1 .. n + 1, w \in Workers : queue'[i] # running[w]
      BY <1>1, <2>2, <2>5 DEF WorkInv, WithWorker
    <3>3. \A i \in 1 .. n + 1 : status'[queue'[i]] \in Busy
      BY <1>2, <2>2, <2>5, <2>6 DEF WorkInv, TypeOK, Busy
    <3>4. \A w \in Workers : running[w] # NoTask => status'[running[w]] \in Busy
      BY <1>1, <1>2 DEF WorkInv, TypeOK, WithWorker
    <3> QED BY <1>2, <2>7, <3>1, <3>2, <3>3, <3>4 DEF WorkInv
  <2>9. FreshInv'
    <3>1. \A u \in Tasks : InQueue(u)' => InQueue(u) \/ u = t
      BY <2>2, <2>5, <2>7 DEF InQueue
    <3> QED BY <1>2, <3>1 DEF FreshInv, Fresh, WithWorker, callback, TypeOK
  <2> QED BY <1>2, <2>4, <2>8, <2>9, CallFrame
<1> QED BY <1>3, <1>4 DEF SubmitCommitTask

(* CancelTask, in its two parts. *)
LEMMA CancelStep ==
  ASSUME NydusInv, NEW t \in Tasks, CancelTask(t) \/ SetCancelled(t) PROVE NydusInv'
<1> USE DEF NydusInv
<1>1. TypeOK'
  BY DEF TypeOK, CancelTask, SetCancelled, work, callback, Status, Final
<1>2. UNCHANGED <<work, callback>> /\ (status' = status \/ status' = [status EXCEPT ![t] = "CANCELLED"])
  BY DEF CancelTask, SetCancelled
<1>3. WorkInv'
  <2>1. CASE status' = status
    BY <1>2, <2>1, WorkFrame
  <2>2. CASE status' = [status EXCEPT ![t] = "CANCELLED"]
    BY <1>2, <2>2, StatusStep DEF Busy
  <2> QED BY <1>2, <2>1, <2>2
<1>4. FreshInv'
  <2>1. \A u \in Tasks : (InQueue(u)' => InQueue(u)) /\ (WithWorker(u)' => WithWorker(u))
    BY <1>2 DEF InQueue, WithWorker, work
  <2>2. \A u \in Tasks : (Fresh(u) => Fresh(u)') /\ (status'[u] = "none" => status[u] = "none")
    BY <1>2 DEF Fresh, callback, TypeOK
  <2> QED BY <2>1, <2>2 DEF FreshInv
<1> QED BY <1>1, <1>2, <1>3, <1>4, CallFrame

(* A worker takes the head of the queue: the task is there no more. *)
LEMMA ProcessTaskStep ==
  ASSUME NydusInv, NEW w \in Workers, ProcessTask(w) PROVE NydusInv'
<1> USE DEF NydusInv
<1>1. /\ queue \in Seq(Tasks) /\ queue # <<>> /\ running[w] = NoTask
      /\ queue' = Tail(queue) /\ running' = [running EXCEPT ![w] = Head(queue)]
      /\ command' = [command EXCEPT ![w] = "running"]
      /\ status' = [status EXCEPT ![Head(queue)] = "RUNNING"]
      /\ UNCHANGED <<expired, cancelling, callback>>
  BY DEF ProcessTask, TypeOK
<1>2. /\ Len(queue) \in Nat \ {0} /\ queue' \in Seq(Tasks) /\ Len(queue') = Len(queue) - 1
      /\ \A i \in 1 .. Len(queue') : queue'[i] = queue[i + 1]
  BY <1>1, EmptySeq, HeadTailProperties
<1>3. PICK t \in Tasks : t = Head(queue)
  BY <1>1, HeadTailProperties
<1>4. PICK n \in Nat : n + 1 = Len(queue)
  <2>1. Len(queue) - 1 \in Nat /\ (Len(queue) - 1) + 1 = Len(queue)
    BY <1>2
  <2> QED BY <2>1
<1>5. /\ queue[1] = t /\ Len(queue') = n
      /\ \A i \in 1 .. n : queue'[i] = queue[i + 1] /\ i + 1 \in 1 .. n + 1
  <2>1. queue[1] = t
    BY <1>1, <1>3
  <2>2. Len(queue') = n
    <3>1. Len(queue') = (n + 1) - 1
      BY <1>2, <1>4
    <3> QED BY <3>1
  <2>3. \A i \in 1 .. n : queue'[i] = queue[i + 1]
    BY <1>2, <2>2
  <2>4. \A i \in 1 .. n : i + 1 \in 1 .. n + 1
    OBVIOUS
  <2> QED BY <2>1, <2>2, <2>3, <2>4
<1>6. TypeOK'
  <2>1. Len(queue') <= QueueCap
    BY <1>4, <1>5, NumberAssumption DEF TypeOK
  <2> QED BY <1>1, <1>2, <1>3, <2>1 DEF TypeOK, callback, Status
<1>7. WorkInv'
  <2>1. \A i, j \in 1 .. n : queue'[i] = queue'[j] => i = j
    <3>1. \A i, j \in 1 .. n : queue[i + 1] = queue[j + 1] => i + 1 = j + 1
      BY <1>4, <1>5 DEF WorkInv
    <3> QED BY <1>5, <3>1
  <2>2. \A i \in 1 .. n : queue'[i] # t
    <3>1. \A i \in 1 .. n : queue[i + 1] = queue[1] => i + 1 = 1
      BY <1>4, <1>5 DEF WorkInv
    <3> QED BY <1>5, <3>1
  <2>3. \A v \in Workers : running[v] # t
    BY <1>4, <1>5 DEF WorkInv
  <2>4. t # NoTask
    BY NoTaskAssumption
  <2>5. \A u, v \in Workers : running'[u] = running'[v] /\ running'[u] # NoTask => u = v
    BY <1>1, <1>3, <2>3 DEF WorkInv, TypeOK
  <2>6. \A i \in 1 .. n, v \in Workers : queue'[i] # running'[v]
    BY <1>1, <1>3, <1>4, <1>5, <2>2 DEF WorkInv, TypeOK
  <2>7. \A i \in 1 .. n : status'[queue'[i]] \in Busy
    <3>1. \A i \in 1 .. n : status[queue[i + 1]] \in Busy /\ queue[i + 1] \in Tasks
      BY <1>4, <1>5, QueueTasks DEF WorkInv
    <3> QED BY <1>1, <1>3, <1>5, <2>2, <3>1 DEF TypeOK
  <2>8. \A v \in Workers : running'[v] # NoTask => status'[running'[v]] \in Busy
    BY <1>1, <1>3, <2>3 DEF WorkInv, TypeOK, Busy
  <2>9. \A v \in Workers : command'[v] # "none" \/ expired'[v] => running'[v] # NoTask
    BY <1>1, <1>3, <2>4 DEF WorkInv, TypeOK
  <2> QED BY <1>5, <2>1, <2>5, <2>6, <2>7, <2>8, <2>9 DEF WorkInv
<1>8. FreshInv'
  <2>1. \A u \in Tasks : InQueue(u)' => InQueue(u)
    BY <1>4, <1>5 DEF InQueue
  <2>2. InQueue(t)
    BY <1>4, <1>5 DEF InQueue
  <2>3. \A u \in Tasks : WithWorker(u)' => WithWorker(u) \/ u = t
    BY <1>1, <1>3 DEF WithWorker, TypeOK
  <2>4. \A u \in Tasks : Fresh(u) => Fresh(u)'
    BY <1>1 DEF Fresh, callback
  <2>5. \A u \in Tasks : status'[u] = "none" => status[u] = "none"
    BY <1>1, <1>3 DEF TypeOK
  <2> QED BY <2>1, <2>2, <2>3, <2>4, <2>5 DEF FreshInv
<1> QED BY <1>1, <1>6, <1>7, <1>8, CallFrame

(* The end of a command, and of the context. *)
LEMMA CommandStep ==
  ASSUME NydusInv, NEW w \in Workers, CommandEnds(w) \/ ContextExpires(w) PROVE NydusInv'
<1> USE DEF NydusInv
<1>1. TypeOK'
  BY DEF TypeOK, CommandEnds, ContextExpires, callback
<1>2. UNCHANGED <<status, queue, running, callback>>
  BY DEF CommandEnds, ContextExpires
<1>3. \A v \in Workers : command'[v] # "none" \/ expired'[v] => running'[v] # NoTask
  BY DEF WorkInv, TypeOK, CommandEnds, ContextExpires
<1>4. WorkInv'
  BY <1>2, <1>3 DEF WorkInv
<1>5. FreshInv'
  BY <1>2 DEF FreshInv, Fresh, InQueue, WithWorker, callback
<1> QED BY <1>1, <1>2, <1>4, <1>5, CallFrame

(* The end of a task starts its first chain. *)
LEMMA FinishStep ==
  ASSUME NydusInv, NEW w \in Workers, NEW result \in {"SUCCESS", "FAILED"},
         running[w] # NoTask, Finish(w, result)
  PROVE  NydusInv'
<1> USE DEF NydusInv
<1>1. PICK t \in Tasks : t = running[w]
  BY DEF TypeOK
<1>2. /\ status' = [status EXCEPT ![t] = result] /\ running' = [running EXCEPT ![w] = NoTask]
      /\ command' = [command EXCEPT ![w] = "none"] /\ expired' = [expired EXCEPT ![w] = FALSE]
      /\ at' = [at EXCEPT ![t][0] = IF t \in WithCallback THEN "sleep" ELSE @]
      /\ UNCHANGED <<queue, cancelling, known, attempts, success, retries, read, sends>>
  BY <1>1 DEF Finish
<1>3. 0 \in Chains
  BY NumberAssumption DEF Chains
<1>4. Fresh(t)
  BY <1>1 DEF FreshInv, WithWorker
<1>5. /\ at' \in [Tasks -> [Chains -> {"none", "done"} \union Active]]
      /\ at'[t][0] \in {"none", "sleep"} /\ \A k \in Chains : k # 0 => at'[t][k] = "none"
      /\ \A u \in Tasks : u # t => at'[u] = at[u]
  BY <1>2, <1>3, <1>4 DEF TypeOK, Fresh, Active
<1>6. TypeOK'
  BY <1>2, <1>5 DEF TypeOK, Status, Final
<1>7. WorkInv'
  <2>1. \A v \in Workers : running'[v] # NoTask => v # w /\ running'[v] = running[v] /\ running[v] # t
    BY <1>1, <1>2 DEF WorkInv, TypeOK
  <2>2. \A i \in 1 .. Len(queue) : queue[i] # t /\ queue[i] \in Tasks
    BY <1>1, QueueTasks DEF WorkInv
  <2>3. \A v \in Workers : running'[v] # NoTask => status'[running'[v]] \in Busy
    BY <1>2, <2>1 DEF WorkInv, TypeOK
  <2>4. \A i \in 1 .. Len(queue) : status'[queue[i]] \in Busy
    BY <1>2, <2>2 DEF WorkInv, TypeOK
  <2>5. \A v \in Workers : command'[v] # "none" \/ expired'[v] => running'[v] # NoTask
    BY <1>2 DEF WorkInv, TypeOK
  <2>6. \A i \in 1 .. Len(queue), v \in Workers : queue[i] # running'[v]
    BY <1>2, <2>1, <2>2, NoTaskAssumption DEF WorkInv, TypeOK
  <2>7. \A u, v \in Workers : running'[u] = running'[v] /\ running'[u] # NoTask => u = v
    BY <2>1 DEF WorkInv
  <2> QED BY <1>2, <2>3, <2>4, <2>5, <2>6, <2>7 DEF WorkInv
<1>8. FreshInv'
  <2>1. ~InQueue(t)'
    BY <1>1, <1>2 DEF WorkInv, InQueue
  <2>2. ~WithWorker(t)'
    BY <1>1, <1>2, NoTaskAssumption DEF WorkInv, WithWorker, TypeOK
  <2>3. status'[t] # "none"
    BY <1>2 DEF TypeOK
  <2>4. \A u \in Tasks : WithWorker(u)' => WithWorker(u)
    BY <1>2, NoTaskAssumption DEF WithWorker, TypeOK
  <2>5. \A u \in Tasks \ {t} : Fresh(u) => Fresh(u)'
    BY <1>2, <1>5 DEF Fresh
  <2> QED BY <1>2, <2>1, <2>2, <2>3, <2>4, <2>5 DEF FreshInv, InQueue, TypeOK
<1>9. ChainInv'
  BY <1>2, <1>4, <1>5, NumberAssumption DEF ChainInv, Fresh, Chains
<1>10. \A u \in Tasks : CountInv(u)'
  <2>1. CountInv(t)'
    <3>1. /\ attempts'[t] = 0 /\ sends'[t] = 0 /\ success'[t] = FALSE /\ retries'[t] = 0
          /\ \A k \in Chains : at'[t][k] \in {"none", "sleep"}
      BY <1>2, <1>4, <1>5 DEF Fresh, TypeOK
    <3> QED BY <1>3, <3>1, MaxPositive DEF CountInv, Unknown, Single, Alone
  <2>2. \A u \in Tasks \ {t} : CountInv(u)'
    BY <1>2, <1>5, OtherTasks
  <2> QED BY <2>1, <2>2
<1> QED BY <1>6, <1>7, <1>8, <1>9, <1>10

-----------------------------------------------------------------------------
(* The callbacks.  Each step has the same frame: one chain of one task.    *)
LEMMA ChainFrame ==
  ASSUME NydusInv, NEW t \in Tasks, NEW k \in Chains, NEW from \in Active,
         NEW to \in {"done"} \union Active, Chain(t, k, from, to),
         UNCHANGED <<status, work, cancelling, retries>>, TypeOK',
         \A u \in Tasks \ {t} : /\ attempts'[u] = attempts[u] /\ success'[u] = success[u]
                                /\ read'[u] = read[u] /\ known'[u] = known[u] /\ sends'[u] = sends[u],
         CountInv(t)'
  PROVE  NydusInv'
<1> USE DEF NydusInv
<1>1. /\ at[t][k] = from /\ from # "none" /\ at'[t][k] = to
      /\ \A j \in Chains : j # k => at'[t][j] = at[t][j]
      /\ \A u \in Tasks : u # t => at'[u] = at[u]
  BY ChainAt DEF Active
<1>2. status[t] # "none" /\ ~InQueue(t) /\ ~WithWorker(t)
  BY <1>1, ActiveEnded
<1>3. WorkInv'
  BY WorkFrame
<1>4. FreshInv'
  BY <1>1, <1>2, FreshFrame
<1>5. ChainInv'
  BY <1>1 DEF ChainInv
<1>6. \A u \in Tasks : CountInv(u)'
  BY <1>1, OtherTasks
<1> QED BY <1>3, <1>4, <1>5, <1>6

(* What fits is within the limit. *)
LEMMA FitsInLimit ==
  ASSUME NEW x \in Over \union (Active \ {"init"}), NEW r \in Nat, NEW y \in Over \union (Active \ {"init"}),
         NEW q \in Nat, NEW a \in Nat, NEW ok, NEW s \in Nat, Fits(x, r, y, q, a, ok, s)
  PROVE  2 * s <= Limit
<1>0. Limit \in Nat /\ a + 1 \in Nat /\ r + 1 \in Nat /\ q + 1 \in Nat
  BY WFacts
<1>1. /\ Rem(a) \in Nat /\ Rem(a + 1) \in Nat /\ Rem(r + 1) \in Nat /\ Rem(q + 1) \in Nat
      /\ W(Rem(a)) \in Nat /\ W(Rem(r + 1)) \in Nat /\ W(Rem(q + 1)) \in Nat
  BY <1>0, RoomAt
<1>2. ASSUME NEW z \in Over \union (Active \ {"init"}), NEW p \in Nat, OneFits(z, p, a, s) PROVE 2 * s <= Limit
  <2>1. p + 1 \in Nat
    OBVIOUS
  <2>2. Rem(p + 1) \in Nat
    BY <2>1, RoomAt
  <2>3. CASE z \in Over
    BY <1>2, <2>3 DEF OneFits
  <2>4. CASE z \in Asleep
    <3>1. 2 * s + 2 <= Limit
      BY <1>2, <2>4 DEF OneFits
    <3> QED BY <1>0, <3>1
  <2>5. CASE z = "send"
    <3>1. 2 * s + 2 * Rem(a) <= Limit
      BY <1>2, <2>5 DEF OneFits
    <3> QED BY <1>0, <1>1, <3>1
  <2>6. CASE z = "count"
    <3>1. 2 * s + 2 + 2 * Rem(a + 1) <= Limit
      BY <1>2, <2>6 DEF OneFits
    <3> QED BY <1>0, <1>1, <3>1
  <2> QED BY <2>3, <2>4, <2>5, <2>6 DEF Over, Active, Asleep
<1>3. CASE x \in Over
  BY <1>2, <1>3 DEF Fits
<1>4. CASE y \in Over
  BY <1>2, <1>4 DEF Fits
<1>5. CASE x \notin Over /\ y \notin Over
  <2>1. CASE x # "count" /\ y # "count"
    <3>1. 2 * s + W(Rem(a)) <= Limit
      BY <1>5, <2>1 DEF Fits, NoneReads
    <3> QED BY <1>0, <1>1, <3>1
  <2>2. ASSUME NEW z, NEW p \in Nat, OtherReads(z, p, a, s) PROVE 2 * s <= Limit
    <3>0. p + 1 \in Nat
      OBVIOUS
    <3>1. W(Rem(p + 1)) \in Nat
      BY <3>0, RoomAt
    <3>2. CASE a <= p
      <4>1. 2 * s + W(Rem(a)) <= Limit
        BY <2>2, <3>2 DEF OtherReads
      <4> QED BY <1>0, <1>1, <4>1
    <3>3. CASE p < a
      <4>1. 2 * s + 2 * Rem(a) + 2 + W(Rem(p + 1)) <= Limit
        BY <2>2, <3>3 DEF OtherReads
      <4> QED BY <1>0, <1>1, <3>1, <4>1
    <3> QED BY <3>2, <3>3
  <2>3. CASE x = "count" /\ y = "count"
    <3>1. 2 * s + 4 + 2 * Rem(a + 1) + W(Rem(r + 1)) <= Limit
      BY <1>5, <2>3 DEF Fits, BothRead
    <3> QED BY <1>0, <1>1, <3>1
  <2> QED BY <1>5, <2>1, <2>2, <2>3 DEF Fits
<1> QED BY <1>3, <1>4, <1>5

(* So is what a chain alone has sent. *)
LEMMA AloneInLimit ==
  ASSUME NEW s \in Nat, NEW x, NEW r, NEW a, NEW ok, Alone(x, r, a, ok, s) PROVE 2 * s <= Limit
<1>1. s <= maxAttempts /\ Limit = W(maxAttempts) + 2 * maxAttempts /\ maxAttempts \in Nat /\ W(maxAttempts) \in Nat
  BY MaxPositive, WFacts DEF Alone
<1> QED BY <1>1

(* The two chains of a task are alike, *)
LEMMA PairSym == ASSUME NEW t, NEW k, NEW j, Pair(t, k, j) PROVE Pair(t, j, k)
BY FitsSym DEF Pair

(* also after a step. *)
LEMMA PairSymNext == ASSUME NEW t, NEW k, NEW j, Pair(t, k, j)' PROVE Pair(t, j, k)'
BY FitsSym DEF Pair

(* A step of chain k keeps the count, if it does when k is alone and when  *)
(* there is another one, j, which stays where it is.                       *)
LEMMA StepCount ==
  ASSUME TypeOK, ChainInv, NEW t \in Tasks, NEW k \in Chains, CountInv(t), at[t][k] # "none",
         retries'[t] = retries[t],
         ~known'[t] => Unknown(t)', Single(t, k) => Single(t, k)',
         \A j \in Chains \ {k} : Pair(t, k, j) => Pair(t, k, j)'
  PROVE  CountInv(t)'
<1>1. k <= retries[t] /\ k \in Nat /\ retries[t] \in Nat
  <2>1. ~(k > retries[t])
    BY DEF ChainInv
  <2>2. k \in Nat
    BY NumberAssumption DEF Chains
  <2>3. retries[t] \in Nat
    BY NumberAssumption DEF TypeOK, Chains
  <2> QED BY <2>1, <2>2, <2>3
<1>2. ASSUME retries[t] = 0 PROVE Single(t, 0)'
  <2>1. k = 0
    BY <1>1, <1>2
  <2> QED BY <1>2, <2>1 DEF CountInv
<1>3. ASSUME retries[t] = 1 PROVE Pair(t, 0, 1)'
  <2>1. (k = 0 \/ k = 1) /\ 0 \in Chains /\ 1 \in Chains
    BY <1>1, <1>3, NumberAssumption DEF TypeOK, Chains
  <2>2. Pair(t, 0, 1)
    BY <1>3 DEF CountInv
  <2>3. CASE k = 0
    BY <2>1, <2>2, <2>3
  <2>4. CASE k = 1
    <3>1. Pair(t, 1, 0)
      BY <2>2, PairSym
    <3>2. Pair(t, 1, 0)'
      BY <2>1, <2>4, <3>1
    <3> QED BY <3>2, PairSymNext
  <2> QED BY <2>1, <2>3, <2>4
<1> QED BY <1>2, <1>3 DEF CountInv

(* The two chains and the numbers of a task, named. *)
LEMMA Values ==
  ASSUME TypeOK, NEW t \in Tasks, NEW k \in Chains, NEW j \in Chains
  PROVE  \E x \in {"none", "done"} \union Active, r \in Nat, y \in {"none", "done"} \union Active, q \in Nat,
            a \in Nat, ok \in BOOLEAN, n \in Nat :
           /\ x = at[t][k] /\ r = read[t][k] /\ y = at[t][j] /\ q = read[t][j]
           /\ a = attempts[t] /\ ok = success[t] /\ n = sends[t]
BY DEF TypeOK

(* The start of sendCallback. *)
LEMMA SendCallbackStep ==
  ASSUME NydusInv, NEW t \in Tasks, NEW k \in Chains, SendCallback(t, k) PROVE NydusInv'
<1> USE DEF NydusInv
<1>1. PICK to \in {"check", "init"} : Chain(t, k, "sleep", to) /\ (to = "init" => ~known[t])
                                                               /\ (to = "check" => known[t])
  BY DEF SendCallback
<1>2. /\ at' \in [Tasks -> [Chains -> {"none", "done"} \union Active]]
      /\ at[t][k] = "sleep" /\ at'[t][k] = to
      /\ \A j \in Chains : j # k => at'[t][j] = at[t][j]
  BY <1>1, ChainAt DEF Active
<1>3. UNCHANGED <<status, work, cancelling, known, attempts, success, retries, read, sends>>
  BY DEF SendCallback
<1>4. TypeOK'
  BY <1>2, <1>3 DEF TypeOK, work
<1>5. CountInv(t)'
  <2>0. CountInv(t)
    OBVIOUS
  <2>1. ~known'[t] => Unknown(t)'
    BY <1>1, <1>2, <1>3, <2>0 DEF CountInv, Unknown
  <2>2. to = "init" => attempts[t] = 0 /\ sends[t] = 0 /\ ~success[t] /\ Unknown(t)
    BY <1>1, <2>0 DEF CountInv, Unknown
  <2>3. Single(t, k) => Single(t, k)'
    BY <1>2, <1>3, <2>2 DEF Single, Alone
  <2>4. ASSUME NEW j \in Chains \ {k}, Pair(t, k, j) PROVE Pair(t, k, j)'
    <3>1. CASE to = "init"
      <4>1. at[t][j] \in {"none", "sleep", "init"}
        BY <2>2, <3>1 DEF Unknown
      <4>2. Single(t, k)' /\ Single(t, j)'
        BY <1>2, <1>3, <2>2, <2>4, <3>1, <4>1, MaxPositive DEF Single, Alone
      <4> QED BY <1>2, <3>1, <4>2 DEF Pair
    <3>2. CASE to = "check" /\ at[t][j] = "init"
      BY <1>2, <2>3, <2>4, <3>2 DEF Pair
    <3>3. CASE to = "check" /\ at[t][j] # "init"
      <4>1. Fits(at[t][k], read[t][k], at[t][j], read[t][j], attempts[t], success[t], sends[t])
        BY <1>2, <2>4, <3>3 DEF Pair
      <4>2. Fits("check", read[t][k], at[t][j], read[t][j], attempts[t], success[t], sends[t])
        BY <1>2, <4>1, WakeFits
      <4> QED BY <1>2, <1>3, <2>4, <3>3, <4>2 DEF Pair
    <3> QED BY <3>1, <3>2, <3>3
  <2> QED BY <1>2, <1>3, <2>0, <2>1, <2>3, <2>4, StepCount
<1> QED BY <1>1, <1>3, <1>4, <1>5, ChainFrame DEF Active

(* A new CallbackStatus. *)
LEMMA InitCallbackStep ==
  ASSUME NydusInv, NEW t \in Tasks, NEW k \in Chains, InitCallbackStatus(t, k) PROVE NydusInv'
<1> USE DEF NydusInv
<1>1. Chain(t, k, "init", "check")
  BY DEF InitCallbackStatus
<1>2. /\ at' \in [Tasks -> [Chains -> {"none", "done"} \union Active]]
      /\ at[t][k] = "init" /\ at'[t][k] = "check"
      /\ \A j \in Chains : j # k => at'[t][j] = at[t][j]
  BY <1>1, ChainAt DEF Active
<1>3. /\ UNCHANGED <<status, work, cancelling, retries, read, sends>>
      /\ known' = [known EXCEPT ![t] = TRUE]
      /\ attempts' = [attempts EXCEPT ![t] = 0]
      /\ success' = [success EXCEPT ![t] = FALSE]
  BY DEF InitCallbackStatus
<1>4. TypeOK'
  BY <1>2, <1>3 DEF TypeOK, work
<1>5. attempts'[t] = 0 /\ success'[t] = FALSE /\ known'[t] = TRUE
  BY <1>3 DEF TypeOK
<1>6. CountInv(t)'
  <2>1. Single(t, k) => Single(t, k)'
    BY <1>2, <1>3, <1>5, MaxPositive DEF Single, Alone
  <2>2. ASSUME NEW j \in Chains \ {k}, Pair(t, k, j) PROVE Pair(t, k, j)'
    <3>0. Single(t, j)
      BY <1>2, <2>2 DEF Pair
    <3>1. CASE at[t][j] = "init"
      <4>1. sends[t] = 0
        BY <3>0, <3>1 DEF Single, Alone
      <4>2. Single(t, k)'
        BY <1>2, <1>3, <1>5, <4>1, MaxPositive DEF Single, Alone
      <4> QED BY <1>2, <2>2, <3>1, <4>2 DEF Pair
    <3>2. CASE at[t][j] # "init"
      <4>1. PICK x \in {"none", "done"} \union Active, r \in Nat, y \in {"none", "done"} \union Active, q \in Nat,
                 a \in Nat, ok \in BOOLEAN, n \in Nat :
              /\ x = at[t][k] /\ r = read[t][k] /\ y = at[t][j] /\ q = read[t][j]
              /\ a = attempts[t] /\ ok = success[t] /\ n = sends[t]
        <5>1. TypeOK /\ j \in Chains
          BY <2>2
        <5> HIDE DEF NydusInv
        <5> QED BY <5>1, Values
      <4>2. y \in Over \union (Active \ {"init"}) /\ "check" \in Asleep
        BY <3>2, <4>1 DEF Over, Asleep
      <4>3. Alone(y, q, a, ok, n)
        BY <3>0, <4>1 DEF Single
      <4>4. Fits("check", r, y, q, 0, FALSE, n)
        BY <4>2, <4>3, JoinFits
      <4> QED BY <1>2, <1>3, <1>5, <2>2, <3>2, <4>1, <4>4 DEF Pair
    <3> QED BY <3>1, <3>2
  <2> QED BY <1>2, <1>3, <1>5, <2>1, <2>2, StepCount
<1>7. \A u \in Tasks \ {t} :
        /\ attempts'[u] = attempts[u] /\ success'[u] = success[u] /\ read'[u] = read[u]
        /\ known'[u] = known[u] /\ sends'[u] = sends[u]
  BY <1>3 DEF TypeOK
<1> QED BY <1>1, <1>3, <1>4, <1>6, <1>7, ChainFrame DEF Active

(* The test of the limit: it reads the counter. *)
LEMMA CheckRetryStep ==
  ASSUME NydusInv, NEW t \in Tasks, NEW k \in Chains, CheckRetryLimit(t, k) PROVE NydusInv'
<1> USE DEF NydusInv
<1>1. PICK to \in {"count", "done"} :
        /\ Chain(t, k, "check", to)
        /\ to = "count" => /\ attempts[t] < maxAttempts \/ success[t]
                           /\ read' = [read EXCEPT ![t][k] = attempts[t]]
        /\ to = "done" => read' = read
  BY DEF CheckRetryLimit
<1>2. /\ at' \in [Tasks -> [Chains -> {"none", "done"} \union Active]]
      /\ at[t][k] = "check" /\ at'[t][k] = to
      /\ \A j \in Chains : j # k => at'[t][j] = at[t][j]
  BY <1>1, ChainAt DEF Active
<1>3. UNCHANGED <<status, work, cancelling, known, attempts, success, retries, sends>>
  BY DEF CheckRetryLimit
<1>4. /\ read' \in [Tasks -> [Chains -> Nat]]
      /\ \A u \in Tasks \ {t} : read'[u] = read[u]
      /\ \A j \in Chains \ {k} : read'[t][j] = read[t][j]
      /\ to = "count" => read'[t][k] = attempts[t]
      /\ to = "done" => read'[t][k] = read[t][k]
  <2>1. CASE to = "count"
    <3>1. PICK n \in Nat : n = attempts[t]
      BY DEF TypeOK
    <3>2. read' = [read EXCEPT ![t][k] = n] /\ read \in [Tasks -> [Chains -> Nat]]
      BY <1>1, <2>1, <3>1 DEF TypeOK
    <3>3. read' \in [Tasks -> [Chains -> Nat]]
      BY <3>2
    <3> QED BY <2>1, <3>1, <3>2, <3>3
  <2>2. CASE to = "done"
    BY <1>1, <2>2 DEF TypeOK
  <2> QED BY <2>1, <2>2
<1>5. TypeOK'
  BY <1>2, <1>3, <1>4 DEF TypeOK, work
<1>6. CountInv(t)'
  <2>0. CountInv(t)
    OBVIOUS
  <2>1. known[t]
    BY <1>2, <2>0 DEF CountInv, Unknown
  <2>2. Single(t, k) => Single(t, k)'
    BY <1>1, <1>2, <1>3, <1>4 DEF Single, Alone
  <2>3. ASSUME NEW j \in Chains \ {k}, Pair(t, k, j) PROVE Pair(t, k, j)'
    <3>1. CASE at[t][j] = "init"
      BY <1>2, <2>2, <2>3, <3>1 DEF Pair
    <3>2. CASE at[t][j] # "init"
      <4>1. PICK x \in {"none", "done"} \union Active, r \in Nat, y \in {"none", "done"} \union Active, q \in Nat,
                 a \in Nat, ok \in BOOLEAN, n \in Nat :
              /\ x = at[t][k] /\ r = read[t][k] /\ y = at[t][j] /\ q = read[t][j]
              /\ a = attempts[t] /\ ok = success[t] /\ n = sends[t]
        <5>1. TypeOK /\ j \in Chains
          BY <2>3
        <5> HIDE DEF NydusInv
        <5> QED BY <5>1, Values
      <4>2. y \in Over \union (Active \ {"init"})
        BY <3>2, <4>1 DEF Over
      <4>3. Fits("check", r, y, q, a, ok, n)
        BY <1>2, <2>3, <3>2, <4>1 DEF Pair
      <4>4. CASE to = "count"
        <5>1. Fits("count", a, y, q, a, ok, n)
          BY <1>1, <4>1, <4>2, <4>3, <4>4, CheckFits
        <5> QED BY <1>2, <1>3, <1>4, <2>3, <3>2, <4>1, <4>4, <5>1 DEF Pair
      <4>5. CASE to = "done"
        <5>1. Fits("done", r, y, q, a, ok, n)
          BY <4>2, <4>3, EndFits
        <5> QED BY <1>2, <1>3, <1>4, <2>3, <3>2, <4>1, <4>5, <5>1 DEF Pair
      <4> QED BY <4>4, <4>5
    <3> QED BY <3>1, <3>2
  <2> QED BY <1>2, <1>3, <2>0, <2>1, <2>2, <2>3, StepCount
<1> QED BY <1>1, <1>3, <1>4, <1>5, <1>6, ChainFrame DEF Active

(* Attempts++, possibly of the value that the test read. *)
LEMMA SendRequestStep ==
  ASSUME NydusInv, NEW t \in Tasks, NEW k \in Chains, SendRequest(t, k) PROVE NydusInv'
<1> USE DEF NydusInv
<1>1. Chain(t, k, "count", "send")
  BY DEF SendRequest
<1>2. /\ at' \in [Tasks -> [Chains -> {"none", "done"} \union Active]]
      /\ at[t][k] = "count" /\ at'[t][k] = "send"
      /\ \A j \in Chains : j # k => at'[t][j] = at[t][j]
  BY <1>1, ChainAt DEF Active
<1>3. /\ UNCHANGED <<status, work, cancelling, known, success, retries>>
      /\ read' = [read EXCEPT ![t][k] = 0] /\ sends' = [sends EXCEPT ![t] = @ + 1]
  BY DEF SendRequest
<1>4. PICK i \in {attempts[t], read[t][k]} : attempts' = [attempts EXCEPT ![t] = i + 1]
  BY DEF SendRequest
<1>5. /\ i \in Nat /\ attempts'[t] = i + 1 /\ attempts' \in [Tasks -> Nat]
      /\ sends'[t] = sends[t] + 1 /\ sends' \in [Tasks -> Nat]
  BY <1>3, <1>4 DEF TypeOK
<1>6. /\ read' \in [Tasks -> [Chains -> Nat]] /\ read'[t][k] = 0
      /\ \A u \in Tasks \ {t} : read'[u] = read[u]
      /\ \A j \in Chains \ {k} : read'[t][j] = read[t][j]
  BY <1>3 DEF TypeOK
<1>7. TypeOK'
  BY <1>2, <1>3, <1>5, <1>6 DEF TypeOK, work
<1>8. CountInv(t)'
  <2>0. CountInv(t)
    OBVIOUS
  <2>1. known[t]
    BY <1>2, <2>0 DEF CountInv, Unknown
  <2>2. ASSUME Single(t, k) PROVE Single(t, k)'
    <3>1. i = attempts[t] /\ sends[t] = i /\ i < maxAttempts /\ ~success[t]
      BY <1>2, <1>4, <2>2 DEF Single, Alone
    <3>2. i + 1 <= maxAttempts
      BY <1>5, <3>1, MaxPositive
    <3> QED BY <1>2, <1>3, <1>5, <3>1, <3>2 DEF Single, Alone
  <2>3. ASSUME NEW j \in Chains \ {k}, Pair(t, k, j) PROVE Pair(t, k, j)'
    <3>1. CASE at[t][j] = "init"
      BY <1>2, <2>2, <2>3, <3>1 DEF Pair
    <3>2. CASE at[t][j] # "init"
      <4>1. PICK x \in {"none", "done"} \union Active, r \in Nat, y \in {"none", "done"} \union Active, q \in Nat,
                 a \in Nat, ok \in BOOLEAN, n \in Nat :
              /\ x = at[t][k] /\ r = read[t][k] /\ y = at[t][j] /\ q = read[t][j]
              /\ a = attempts[t] /\ ok = success[t] /\ n = sends[t]
        <5>1. TypeOK /\ j \in Chains
          BY <2>3
        <5> HIDE DEF NydusInv
        <5> QED BY <5>1, Values
      <4>2. y \in Over \union (Active \ {"init"}) /\ i \in {a, r}
        BY <1>4, <3>2, <4>1 DEF Over
      <4>3. Fits("count", r, y, q, a, ok, n)
        BY <1>2, <2>3, <3>2, <4>1 DEF Pair
      <4>4. Fits("send", 0, y, q, i + 1, ok, n + 1)
        BY <4>2, <4>3, SendFits
      <4> QED BY <1>2, <1>3, <1>5, <1>6, <2>3, <3>2, <4>1, <4>4 DEF Pair
    <3> QED BY <3>1, <3>2
  <2> QED BY <1>2, <1>3, <2>0, <2>1, <2>2, <2>3, StepCount
<1>9. \A u \in Tasks \ {t} :
        /\ attempts'[u] = attempts[u] /\ success'[u] = success[u] /\ read'[u] = read[u]
        /\ known'[u] = known[u] /\ sends'[u] = sends[u]
  BY <1>3, <1>4, <1>6 DEF TypeOK
<1> QED BY <1>1, <1>3, <1>7, <1>8, <1>9, ChainFrame DEF Active

(* The answer, after which the chain ends or sleeps. *)
LEMMA ResponseStep ==
  ASSUME NydusInv, NEW t \in Tasks, NEW k \in Chains, Response(t, k) PROVE NydusInv'
<1> USE DEF NydusInv
<1>1. PICK good \in BOOLEAN :
        /\ Chain(t, k, "send", IF ~good /\ attempts[t] < maxAttempts THEN "sleep" ELSE "done")
        /\ success' = [success EXCEPT ![t] = good]
        /\ UNCHANGED <<status, work, cancelling, known, attempts, retries, read, sends>>
  BY DEF Response
<1>2. PICK to \in {"sleep", "done"} :
        /\ Chain(t, k, "send", to)
        /\ to = "sleep" => good = FALSE /\ attempts[t] < maxAttempts
  BY <1>1
<1>3. /\ at' \in [Tasks -> [Chains -> {"none", "done"} \union Active]]
      /\ at[t][k] = "send" /\ at'[t][k] = to
      /\ \A j \in Chains : j # k => at'[t][j] = at[t][j]
  BY <1>2, ChainAt DEF Active
<1>4. success' \in [Tasks -> BOOLEAN] /\ success'[t] = good
  BY <1>1 DEF TypeOK
<1>5. TypeOK'
  BY <1>1, <1>3, <1>4 DEF TypeOK, work
<1>6. CountInv(t)'
  <2>0. CountInv(t)
    OBVIOUS
  <2>1. known[t]
    BY <1>3, <2>0 DEF CountInv, Unknown
  <2>2. Single(t, k) => Single(t, k)'
    BY <1>1, <1>2, <1>3, <1>4 DEF Single, Alone
  <2>3. ASSUME NEW j \in Chains \ {k}, Pair(t, k, j) PROVE Pair(t, k, j)'
    <3>1. CASE at[t][j] = "init"
      BY <1>3, <2>2, <2>3, <3>1 DEF Pair
    <3>2. CASE at[t][j] # "init"
      <4>1. PICK x \in {"none", "done"} \union Active, r \in Nat, y \in {"none", "done"} \union Active, q \in Nat,
                 a \in Nat, ok \in BOOLEAN, n \in Nat :
              /\ x = at[t][k] /\ r = read[t][k] /\ y = at[t][j] /\ q = read[t][j]
              /\ a = attempts[t] /\ ok = success[t] /\ n = sends[t]
        <5>1. TypeOK /\ j \in Chains
          BY <2>3
        <5> HIDE DEF NydusInv
        <5> QED BY <5>1, Values
      <4>2. y \in Over \union (Active \ {"init"})
        BY <3>2, <4>1 DEF Over
      <4>3. Fits("send", r, y, q, a, ok, n)
        BY <1>3, <2>3, <3>2, <4>1 DEF Pair
      <4>4. CASE to = "sleep"
        <5>1. Fits("sleep", r, y, q, a, FALSE, n)
          BY <1>2, <4>1, <4>2, <4>3, <4>4, SleepFits
        <5> QED BY <1>1, <1>2, <1>3, <1>4, <2>3, <3>2, <4>1, <4>4, <5>1 DEF Pair
      <4>5. CASE to = "done"
        <5>1. Fits("done", r, y, q, a, good, n)
          BY <4>2, <4>3, EndFits
        <5> QED BY <1>1, <1>3, <1>4, <2>3, <3>2, <4>1, <4>5, <5>1 DEF Pair
      <4> QED BY <4>4, <4>5
    <3> QED BY <3>1, <3>2
  <2> QED BY <1>1, <1>3, <2>0, <2>1, <2>2, <2>3, StepCount
<1>7. \A u \in Tasks \ {t} :
        /\ attempts'[u] = attempts[u] /\ success'[u] = success[u] /\ read'[u] = read[u]
        /\ known'[u] = known[u] /\ sends'[u] = sends[u]
  BY <1>1 DEF TypeOK
<1> QED BY <1>1, <1>2, <1>5, <1>6, <1>7, ChainFrame DEF Active

(* A crash forgets everything. *)
LEMMA PanicStep ==
  ASSUME NydusInv, NEW t \in Tasks, NEW k \in Chains, PanicWithoutRetryConfig(t, k) PROVE NydusInv'
<1> USE DEF PanicWithoutRetryConfig
<1>1. queue' \in Seq(Tasks) /\ Len(queue') = 0 /\ Len(queue') <= QueueCap
  BY EmptySeq, NumberAssumption
<1>2. TypeOK'
  BY <1>1, NumberAssumption DEF NydusInv, TypeOK, Status, Chains
<1>3. WorkInv'
  BY <1>1 DEF WorkInv
<1>4. \A u \in Tasks : Fresh(u)'
  BY DEF Fresh
<1>5. FreshInv' /\ ChainInv'
  BY <1>4 DEF FreshInv, ChainInv, Fresh
<1>6. \A u \in Tasks : CountInv(u)'
  BY <1>4, FreshCount
<1> QED BY <1>2, <1>3, <1>5, <1>6 DEF NydusInv

(* A client starts one more chain, forced or not. *)
LEMMA RetryStep ==
  ASSUME NydusInv, NEW t \in Tasks, NEW force \in BOOLEAN, RetryCallback(t, force) PROVE NydusInv'
<1> USE DEF NydusInv
<1>1. /\ status[t] \in {"SUCCESS", "FAILED"} /\ retries[t] < MaxRetries
      /\ retries' = [retries EXCEPT ![t] = @ + 1]
      /\ Chain(t, retries[t] + 1, "none", "sleep")
      /\ UNCHANGED <<status, work, cancelling, known, read, sends>>
  BY DEF RetryCallback
<1>2. PICK k \in Chains : k = retries[t] + 1
  BY <1>1, NumberAssumption DEF TypeOK, Chains
<1>3. /\ at' \in [Tasks -> [Chains -> {"none", "done"} \union Active]]
      /\ at[t][k] = "none" /\ at'[t][k] = "sleep"
      /\ \A j \in Chains : j # k => at'[t][j] = at[t][j]
      /\ \A u \in Tasks : u # t => at'[u] = at[u]
  BY <1>1, <1>2, ChainAt DEF Active
<1>4. /\ attempts' \in [Tasks -> Nat] /\ success' \in [Tasks -> BOOLEAN]
      /\ \A u \in Tasks \ {t} : attempts'[u] = attempts[u] /\ success'[u] = success[u]
      /\ \/ attempts'[t] = attempts[t] /\ success'[t] = success[t]
         \/ attempts'[t] = 0 /\ success'[t] = FALSE
  <2>1. CASE UNCHANGED <<attempts, success>>
    BY <2>1 DEF TypeOK
  <2>2. CASE attempts' = [attempts EXCEPT ![t] = 0] /\ success' = [success EXCEPT ![t] = FALSE]
    BY <2>2 DEF TypeOK
  <2> QED BY <2>1, <2>2 DEF RetryCallback
<1>5. /\ retries' \in [Tasks -> Chains] /\ retries'[t] = k
      /\ \A u \in Tasks \ {t} : retries'[u] = retries[u]
  BY <1>1, <1>2 DEF TypeOK
<1>6. TypeOK'
  BY <1>1, <1>3, <1>4, <1>5 DEF TypeOK, work
<1>7. status[t] # "none" /\ ~InQueue(t) /\ ~WithWorker(t)
  BY <1>1, NoTaskAssumption DEF WorkInv, InQueue, WithWorker, Busy
<1>8. WorkInv'
  BY <1>1, WorkFrame
<1>9. FreshInv'
  BY <1>1, <1>3, <1>4, <1>5, <1>7, FreshFrame
<1>10. ChainInv'
  <2>1. \A j \in Chains : j > k => j # k /\ j > retries[t]
    BY <1>2, NumberAssumption DEF TypeOK, Chains
  <2>2. \A j \in Chains : j > k => at'[t][j] = "none"
    BY <1>3, <2>1 DEF ChainInv
  <2> QED BY <1>3, <1>5, <2>2 DEF ChainInv
<1>11. CountInv(t)'
  <2>1. ~known'[t] => Unknown(t)'
    BY <1>1, <1>3, <1>4 DEF CountInv, Unknown
  <2>2. ASSUME retries'[t] = 1 PROVE Pair(t, 0, 1)'
    <3>1. k = 1 /\ 0 \in Chains /\ 1 \in Chains /\ retries[t] = 0
      BY <1>2, <1>5, <2>2, NumberAssumption DEF TypeOK, Chains
    <3>2. Single(t, 0) /\ at'[t][0] = at[t][0] /\ at'[t][1] = "sleep"
      BY <1>3, <3>1 DEF CountInv
    <3>3. PICK y \in {"none", "done"} \union Active, q \in Nat, a \in Nat, ok \in BOOLEAN, n \in Nat :
            y = at[t][0] /\ q = read[t][0] /\ a = attempts[t] /\ ok = success[t] /\ n = sends[t]
      <4>1. TypeOK /\ 0 \in Chains
        BY <3>1
      <4> HIDE DEF NydusInv
      <4> QED BY <4>1, Values
    <3>4. Alone(y, q, a, ok, n) /\ read'[t][0] = q /\ sends'[t] = n
      BY <1>1, <3>2, <3>3 DEF Single
    <3>5. CASE y = "init"
      <4>1. a = 0 /\ n = 0 /\ ok = FALSE
        BY <3>4, <3>5 DEF Alone
      <4>2. attempts'[t] = 0 /\ success'[t] = FALSE
        BY <1>4, <3>3, <4>1
      <4>3. Single(t, 1)'
        BY <3>2, <3>4, <4>1, <4>2, MaxPositive DEF Single, Alone
      <4> QED BY <3>2, <3>3, <3>5, <4>3 DEF Pair
    <3>6. CASE y # "init"
      <4>1. y \in Over \union (Active \ {"init"}) /\ "sleep" \in Asleep
        BY <3>6 DEF Over, Active, Asleep
      <4>2. PICK p : p = read'[t][1]
        OBVIOUS
      <4>3. Fits("sleep", p, y, q, 0, FALSE, n) /\ Fits("sleep", p, y, q, a, ok, n)
        BY <3>4, <4>1, JoinFits
      <4>4. Fits(y, q, "sleep", p, 0, FALSE, n) /\ Fits(y, q, "sleep", p, a, ok, n)
        BY <4>3, FitsSym
      <4> QED BY <1>4, <3>2, <3>3, <3>4, <3>6, <4>2, <4>4 DEF Pair
    <3> QED BY <3>5, <3>6
  <2>3. retries'[t] # 0
    BY <1>2, <1>5 DEF TypeOK, Chains
  <2> QED BY <2>1, <2>2, <2>3 DEF CountInv
<1>12. \A u \in Tasks : CountInv(u)'
  BY <1>1, <1>3, <1>4, <1>5, <1>11, OtherTasks
<1> QED BY <1>6, <1>8, <1>9, <1>10, <1>12

-----------------------------------------------------------------------------
(* The service starts without tasks. *)
LEMMA NydusInvInit == Init => NydusInv
<1> SUFFICES ASSUME Init PROVE NydusInv
  OBVIOUS
<1> USE DEF Init
<1>1. queue \in Seq(Tasks) /\ Len(queue) = 0 /\ Len(queue) <= QueueCap
  BY EmptySeq, NumberAssumption
<1>2. TypeOK
  BY <1>1, NumberAssumption DEF TypeOK, Status, Chains
<1>3. WorkInv
  BY <1>1 DEF WorkInv
<1>4. \A u \in Tasks : Fresh(u)
  BY DEF Fresh
<1>5. FreshInv /\ ChainInv
  BY <1>4 DEF FreshInv, ChainInv, Fresh
<1>6. \A u \in Tasks : CountInv(u)
  <2>1. 0 \in Chains
    BY NumberAssumption DEF Chains
  <2> QED BY <1>4, <2>1, MaxPositive DEF Fresh, CountInv, Unknown, Single, Alone
<1> QED BY <1>2, <1>3, <1>5, <1>6 DEF NydusInv

(* Every step of clients, workers and chains. *)
LEMMA NydusInvStep == NydusInv /\ [Next]_vars => NydusInv'
<1> SUFFICES ASSUME NydusInv, [Next]_vars PROVE NydusInv'
  OBVIOUS
<1>1. ASSUME NEW t \in Tasks, Client(t) PROVE NydusInv'
  BY <1>1, SubmitStep, CancelStep, RetryStep DEF Client
<1>2. ASSUME NEW t \in Tasks, NEW k \in Chains, ChainStep(t, k) PROVE NydusInv'
  BY <1>2, SendCallbackStep, InitCallbackStep, CheckRetryStep, SendRequestStep, ResponseStep, PanicStep
  DEF ChainStep
<1>3. ASSUME NEW w \in Workers, WorkerStep(w) PROVE NydusInv'
  <2>1. CASE ProcessTask(w)
    BY <2>1, ProcessTaskStep
  <2>2. ASSUME CommandDone(w) \/ ContextDone(w) PROVE NydusInv'
    <3>1. running[w] # NoTask
      BY <2>2 DEF NydusInv, WorkInv, CommandDone, ContextDone
    <3>2. PICK result \in {"SUCCESS", "FAILED"} : Finish(w, result)
      BY <2>2 DEF CommandDone, ContextDone
    <3> QED BY <3>1, <3>2, FinishStep
  <2> QED BY <1>3, <2>1, <2>2 DEF WorkerStep
<1>4. ASSUME NEW w \in Workers, CommandEnds(w) \/ ContextExpires(w) PROVE NydusInv'
  BY <1>4, CommandStep
<1>5. CASE UNCHANGED vars
  <2>1. UNCHANGED <<status, work, cancelling, callback>>
    BY <1>5 DEF vars
  <2>2. TypeOK'
    BY <2>1 DEF NydusInv, TypeOK, work, callback
  <2>3. FreshInv'
    BY <2>1 DEF NydusInv, FreshInv, Fresh, InQueue, WithWorker, work, callback
  <2> QED BY <2>1, <2>2, <2>3, WorkFrame, CallFrame DEF NydusInv
<1> QED BY <1>1, <1>2, <1>3, <1>4, <1>5 DEF Next, Idle

(* The variables of the service keep their types; the queue stays within   *)
(* its capacity.                                                           *)
THEOREM NydusTypes == Spec => []TypeOK
<1>1. NydusInv => TypeOK
  BY DEF NydusInv
<1> QED BY <1>1, NydusInvInit, NydusInvStep, PTL DEF Spec

(* A task runs at most once, for every number of tasks and workers. *)
THEOREM TasksRunOnce == Spec => []RunOnce
<1>1. NydusInv => RunOnce
  <2> SUFFICES ASSUME NydusInv, NEW t \in Tasks
               PROVE  /\ Cardinality(Queued(t)) + Cardinality(RunningOn(t)) <= 1
                      /\ status[t] \in {"SUCCESS", "FAILED", "none", "lost"} =>
                           Queued(t) = {} /\ RunningOn(t) = {}
    BY DEF RunOnce
  <2>0. DOMAIN queue = 1 .. Len(queue)
    BY LenProperties DEF NydusInv, TypeOK
  <2>1. status[t] \in {"SUCCESS", "FAILED", "none", "lost"} => Queued(t) = {} /\ RunningOn(t) = {}
    BY <2>0, NoTaskAssumption DEF NydusInv, WorkInv, Queued, RunningOn, Busy
  <2>2. Cardinality({}) = 0 /\ \A x : Cardinality({x}) = 1
    BY FS_EmptySet, FS_Singleton
  <2>3. CASE Queued(t) = {} /\ RunningOn(t) = {}
    BY <2>2, <2>3
  <2>4. ASSUME NEW i \in Queued(t) PROVE Queued(t) = {i} /\ RunningOn(t) = {}
    BY <2>0 DEF NydusInv, WorkInv, Queued, RunningOn
  <2>5. ASSUME NEW w \in RunningOn(t) PROVE RunningOn(t) = {w} /\ Queued(t) = {}
    BY <2>0, NoTaskAssumption DEF NydusInv, WorkInv, Queued, RunningOn
  <2>6. ASSUME NEW i \in Queued(t) PROVE Cardinality(Queued(t)) + Cardinality(RunningOn(t)) <= 1
    <3>1. Cardinality(Queued(t)) = 1 /\ Cardinality(RunningOn(t)) = 0
      BY <2>2, <2>4
    <3> QED BY <3>1
  <2>7. ASSUME NEW w \in RunningOn(t) PROVE Cardinality(Queued(t)) + Cardinality(RunningOn(t)) <= 1
    <3>1. Cardinality(Queued(t)) = 0 /\ Cardinality(RunningOn(t)) = 1
      BY <2>2, <2>5
    <3> QED BY <3>1
  <2> QED BY <2>1, <2>3, <2>6, <2>7
<1> QED BY <1>1, NydusInvInit, NydusInvStep, PTL DEF Spec

(* The bound on the callbacks that are sent, for every max_attempts: alone *)
(* a chain counts each of them; two of them have a potential that goes     *)
(* down with each request and with nothing up.                             *)
THEOREM AttemptsAreBounded == Spec => []AttemptsBounded
<1>1. NydusInv => AttemptsBounded
  <2> SUFFICES ASSUME NydusInv, NEW t \in Tasks
               PROVE  /\ retries[t] = 0 => sends[t] <= maxAttempts
                      /\ retries[t] = 1 => 2 * sends[t] <= Limit
    BY DEF AttemptsBounded, maxAttempts, Limit
  <2>1. CountInv(t) /\ sends[t] \in Nat
    BY DEF NydusInv, TypeOK
  <2>2. ASSUME retries[t] = 0 PROVE sends[t] <= maxAttempts
    BY <2>1, <2>2 DEF CountInv, Single, Alone
  <2>3. ASSUME retries[t] = 1 PROVE 2 * sends[t] <= Limit
    <3>1. 0 \in Chains /\ 1 \in Chains /\ Pair(t, 0, 1)
      BY <2>1, <2>3, NumberAssumption DEF NydusInv, TypeOK, Chains, CountInv
    <3>2. CASE Single(t, 0) \/ Single(t, 1)
      BY <2>1, <3>2, AloneInLimit DEF Single
    <3>3. PICK x \in {"none", "done"} \union Active, u \in Nat, y \in {"none", "done"} \union Active, q \in Nat,
               a \in Nat, ok \in BOOLEAN, n \in Nat :
            /\ x = at[t][0] /\ u = read[t][0] /\ y = at[t][1] /\ q = read[t][1]
            /\ a = attempts[t] /\ ok = success[t] /\ n = sends[t]
      <4>1. TypeOK /\ 0 \in Chains /\ 1 \in Chains
        BY <3>1 DEF NydusInv
      <4> QED BY <4>1, Values
    <3>4. CASE x # "init" /\ y # "init"
      <4>1. Fits(x, u, y, q, a, ok, n)
        BY <3>1, <3>3, <3>4 DEF Pair
      <4>2. x \in Over \union (Active \ {"init"}) /\ y \in Over \union (Active \ {"init"})
        BY <3>4 DEF Over
      <4> QED BY <3>3, <4>1, <4>2, FitsInLimit
    <3> QED BY <3>1, <3>2, <3>3, <3>4 DEF Pair
  <2> QED BY <2>2, <2>3
<1> QED BY <1>1, NydusInvInit, NydusInvStep, PTL DEF Spec

-----------------------------------------------------------------------------
(* The model of the runs: each step of it is one of a single part, so that *)
(* what holds of the parts holds of their composition.                     *)
THEOREM LiveParts == LiveSpec => Spec /\ TaskSpec /\ LoggerSpec
<1>1. LiveInit => Init /\ TaskInit /\ LoggerInit
  BY DEF LiveInit
<1>2. [LiveNext]_liveVars => [Next]_vars /\ [TaskNext]_taskVars /\ [LoggerNext]_loggerVars
  BY DEF LiveNext, liveVars
<1> QED BY <1>1, <1>2, PTL DEF LiveSpec, Spec, TaskSpec, LoggerSpec

(* The types of the composition. *)
THEOREM LiveTypes == LiveSpec => []LiveTypeOK
<1>1. LiveInit => part \in Parts
  BY DEF LiveInit
<1>2. part \in Parts /\ [LiveNext]_liveVars => (part \in Parts)'
  BY DEF LiveNext, liveVars
<1>3. TypeOK /\ LoggerTypeOK /\ part \in Parts => LiveTypeOK
  BY DEF LiveTypeOK
<1> QED BY <1>1, <1>2, <1>3, LiveParts, NydusTypes, LoggerTypes, PTL DEF LiveSpec
=============================================================================
