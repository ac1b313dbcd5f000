------------------------------- MODULE Logger -------------------------------
(***************************************************************************)
(* The logging process of a container (pkg/logging/logging.go) and the     *)
(* viewer of "nerdctl logs -f" (pkg/cmd/container/logs.go).                *)
(*                                                                         *)
(* A line goes from the container through the FIFO of the shim, a copying  *)
(* goroutine, an io.Pipe, which holds nothing, a reading goroutine and a   *)
(* channel to the driver.  One of the two streams is modelled; they share  *)
(* only the goroutine that waits for the task.  The container and the shim *)
(* are external: the shim starts the logger before the task, and sends it  *)
(* SIGTERM when the task is deleted.                                       *)
(***************************************************************************)
EXTENDS Integers, Sequences

CONSTANTS MaxLines,     \* bound: the lines the container writes
          LookupFails   \* a fault: containerd may fail to look up the container

ASSUME LineAssumption == MaxLines \in Nat /\ LookupFails \in BOOLEAN

VARIABLES
  container,  \* the task: "none", "running", "exited" or "deleted"
  written,    \* how many lines it has written: 1 .. written
  fifo,       \* the lines in the FIFO
  held,       \* the line that the copier offers to the pipe, if any
  copier,     \* the copying goroutine goes on
  pipeOpen,   \* the writing end of the pipe is open
  reader,     \* the reading goroutine goes on
  channel,    \* dataChan
  logged,     \* what the driver has processed
  waiter,     \* where getContainerWait is
  sigterm,    \* ctx is done
  loggerLock, \* the logger holds the logger lock
  viewer      \* "none", "following", "waiting" for the logger, or "told" to stop

loggerVars == <<container, written, fifo, held, copier, pipeOpen, reader, channel, logged,
                waiter, sigterm, loggerLock, viewer>>

Lines == 1 .. MaxLines

(* The types; the copier never has more than one line in hand (an io.Pipe  *)
(* holds nothing, so a write returns when the reader has taken the line).  *)
LoggerTypeOK ==
  /\ container \in {"none", "running", "exited", "deleted"}
  /\ written \in 0 .. MaxLines
  /\ fifo \in Seq(Lines) /\ channel \in Seq(Lines) /\ logged \in Seq(Lines)
  /\ held \in Seq(Lines) /\ Len(held) <= 1
  /\ waiter \in {"task", "exitCh", "ended"}
  /\ viewer \in {"none", "following", "waiting", "told"}
  /\ copier \in BOOLEAN /\ pipeOpen \in BOOLEAN /\ reader \in BOOLEAN
  /\ sigterm \in BOOLEAN /\ loggerLock \in BOOLEAN

(* The logger has its lock and has called ready. *)
LoggerInit ==
  /\ container = "none"
  /\ written = 0
  /\ fifo = <<>> /\ held = <<>> /\ channel = <<>> /\ logged = <<>>
  /\ copier = TRUE /\ pipeOpen = TRUE /\ reader = TRUE
  /\ waiter = "task"
  /\ sigterm = FALSE
  /\ loggerLock = TRUE
  /\ viewer = "none"

stages == <<fifo, held, copier, reader, channel, logged>>

-----------------------------------------------------------------------------
TaskStarts ==
  /\ container = "none"
  /\ container' = "running"
  /\ UNCHANGED <<written, stages, pipeOpen, waiter, sigterm, loggerLock, viewer>>

ContainerWrites ==
  /\ container = "running" /\ written < MaxLines
  /\ written' = written + 1
  /\ fifo' = Append(fifo, written')
  /\ UNCHANGED <<container, held, copier, reader, channel, logged, pipeOpen, waiter, sigterm,
                 loggerLock, viewer>>

ContainerExits ==
  /\ container = "running"
  /\ container' = "exited"
  /\ UNCHANGED <<written, stages, pipeOpen, waiter, sigterm, loggerLock, viewer>>

TaskDeleted ==
  /\ container = "exited"
  /\ container' = "deleted"
  /\ UNCHANGED <<written, stages, pipeOpen, waiter, sigterm, loggerLock, viewer>>

ShimSendsTerm ==
  /\ container = "deleted" /\ ~sigterm
  /\ sigterm' = TRUE
  /\ UNCHANGED <<container, written, stages, pipeOpen, waiter, loggerLock, viewer>>

-----------------------------------------------------------------------------
(* copyStream: a read of the FIFO, which SIGTERM cancels, ... *)
CopyRead ==
  /\ copier /\ held = <<>> /\ fifo # <<>> /\ ~sigterm
  /\ held' = <<Head(fifo)>>
  /\ fifo' = Tail(fifo)
  /\ UNCHANGED <<container, written, copier, reader, channel, logged, pipeOpen, waiter, sigterm,
                 loggerLock, viewer>>

(* ... and the end of it: SIGTERM, the end of the FIFO, or a pipe that is  *)
(* closed under the write of a line, which is lost.                        *)
CopyEnds ==
  /\ copier
  /\ \/ held = <<>> /\ (sigterm \/ (container \in {"exited", "deleted"} /\ fifo = <<>>))
     \/ held # <<>> /\ ~pipeOpen
  /\ copier' = FALSE
  /\ held' = <<>>
  /\ UNCHANGED <<container, written, fifo, reader, channel, logged, pipeOpen, waiter, sigterm,
                 loggerLock, viewer>>

(* processLogFunc takes a line from the pipe, or finds the pipe closed and *)
(* closes dataChan.                                                        *)
ReadLine ==
  /\ reader /\ pipeOpen /\ held # <<>>
  /\ channel' = channel \o held
  /\ held' = <<>>
  /\ UNCHANGED <<container, written, fifo, copier, reader, logged, pipeOpen, waiter, sigterm,
                 loggerLock, viewer>>

ReadEnds ==
  /\ reader /\ ~pipeOpen
  /\ reader' = FALSE
  /\ UNCHANGED <<container, written, fifo, held, copier, channel, logged, pipeOpen, waiter,
                 sigterm, loggerLock, viewer>>

(* Mutant: the driver takes the latest line first. *)
ProcessLast ==
  /\ channel # <<>>
  /\ logged' = Append(logged, channel[Len(channel)])
  /\ channel' = SubSeq(channel, 1, Len(channel) - 1)
  /\ UNCHANGED <<container, written, fifo, held, copier, reader, pipeOpen, waiter, sigterm,
                 loggerLock, viewer>>

(* driver.Process *)
Process ==
  /\ channel # <<>>
  /\ logged' = Append(logged, Head(channel))
  /\ channel' = Tail(channel)
  /\ UNCHANGED <<container, written, fifo, held, copier, reader, pipeOpen, waiter, sigterm,
                 loggerLock, viewer>>

(* getContainerWait looks for the task every 100 ms ... *)
FindTask ==
  /\ waiter = "task" /\ container \in {"running", "exited"}
  /\ waiter' = "exitCh"
  /\ UNCHANGED <<container, written, stages, pipeOpen, sigterm, loggerLock, viewer>>

(* Mutant: the search goes on after SIGTERM. *)
SearchOn ==
  /\ waiter = "task" /\ sigterm /\ container # "deleted"
  /\ waiter' = "ended"
  /\ UNCHANGED <<container, written, stages, pipeOpen, sigterm, loggerLock, viewer>>

(* ... until SIGTERM; *)
SearchEnds ==
  /\ waiter = "task" /\ sigterm
  /\ waiter' = "ended"
  /\ UNCHANGED <<container, written, stages, pipeOpen, sigterm, loggerLock, viewer>>

(* an error other than NotFound ends it at once. *)
SearchFails ==
  /\ waiter = "task" /\ LookupFails
  /\ waiter' = "ended"
  /\ UNCHANGED <<container, written, stages, pipeOpen, sigterm, loggerLock, viewer>>

TaskExit ==
  /\ waiter = "exitCh" /\ container \in {"exited", "deleted"}
  /\ waiter' = "ended"
  /\ UNCHANGED <<container, written, stages, pipeOpen, sigterm, loggerLock, viewer>>

(* The deferred Close, whatever is still in the FIFO. *)
ClosePipe ==
  /\ waiter = "ended" /\ pipeOpen
  /\ pipeOpen' = FALSE
  /\ UNCHANGED <<container, written, stages, waiter, sigterm, loggerLock, viewer>>

(* Mutant: the lock is given up before the driver is through. *)
UnlockEarly ==
  /\ loggerLock /\ ~reader
  /\ loggerLock' = FALSE
  /\ UNCHANGED <<container, written, stages, pipeOpen, waiter, sigterm, viewer>>

(* wg.Wait, PostProcess, and the end of WithLock. *)
LoggerDone ==
  /\ loggerLock /\ ~reader /\ channel = <<>>
  /\ loggerLock' = FALSE
  /\ UNCHANGED <<container, written, stages, pipeOpen, waiter, sigterm, viewer>>

-----------------------------------------------------------------------------
(* logs -f follows a running task, waits for its end, then for the logger. *)
Follow ==
  /\ viewer = "none" /\ container = "running"
  /\ viewer' = "following"
  /\ UNCHANGED <<container, written, stages, pipeOpen, waiter, sigterm, loggerLock>>

ViewerSeesExit ==
  /\ viewer = "following" /\ container \in {"exited", "deleted"}
  /\ viewer' = "waiting"
  /\ UNCHANGED <<container, written, stages, pipeOpen, waiter, sigterm, loggerLock>>

WaitForLogger ==
  /\ viewer = "waiting" /\ ~loggerLock
  /\ viewer' = "told"
  /\ UNCHANGED <<container, written, stages, pipeOpen, waiter, sigterm, loggerLock>>

LoggerStep ==
  \/ CopyRead \/ CopyEnds \/ ReadLine \/ ReadEnds \/ Process
  \/ FindTask \/ SearchEnds \/ TaskExit \/ ClosePipe \/ LoggerDone

(* Nothing left to do. *)
LoggerRests ==
  /\ container = "deleted" /\ sigterm /\ ~copier /\ ~loggerLock /\ viewer \in {"none", "told"}
  /\ UNCHANGED loggerVars

LoggerNext ==
  \/ TaskStarts \/ ContainerWrites \/ ContainerExits \/ TaskDeleted \/ ShimSendsTerm
  \/ LoggerStep \/ SearchFails
  \/ Follow \/ ViewerSeesExit \/ WaitForLogger
  \/ LoggerRests

(* The goroutines of the logger run, and the shim signals it; a search     *)
(* that goes on need not fail.                                             *)
LoggerFairness == WF_loggerVars(LoggerStep) /\ WF_loggerVars(ShimSendsTerm)

LoggerSpec == LoggerInit /\ [][LoggerNext]_loggerVars /\ LoggerFairness

-----------------------------------------------------------------------------
(* The log is a prefix of what the container wrote: no line is lost but at *)
(* the end, and none is out of order, wherever the pipe is closed.         *)
LogPrefix == logged = [i \in 1 .. Len(logged) |-> i]

(* A viewer that is told to stop has the whole log: nothing is added to it *)
(* later (WaitForLogger).                                                  *)
LogSettled == [][viewer = "told" => logged' = logged]_loggerVars

(* After the exit of the task the logger ends and gives up its lock, also  *)
(* when the task is gone before the logger has found it.                   *)
LoggerEnds == container = "exited" ~> ~loggerLock

(* What the lock stands for: when the logger has given it up after the end *)
(* of the container, the driver has processed all output.                  *)
LoggedAll == ~loggerLock /\ container \in {"exited", "deleted"} => Len(logged) = written
=============================================================================
