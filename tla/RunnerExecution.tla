--------------------------- MODULE RunnerExecution ---------------------------
(***************************************************************************)
(* One execution inside a sandbox's runner (internal/runner): the launcher,*)
(* the terminal arbiter, the deadline, the process group terminator, the   *)
(* supervisor, the background log writer, and cancellation through the     *)
(* manager, each a goroutine of its own.                                   *)
(*                                                                         *)
(* Each variable named after a goroutine holds where it is.  process is    *)
(* the process group: "dead" when everybody in it has exited and nobody    *)
(* has waited for the leader.  The two pipes end only when every holder    *)
(* has exited, descendants that have left the group (setsid) included.     *)
(* Exit codes, durations and the bytes of the output are left out.         *)
(***************************************************************************)
EXTENDS Naturals

CONSTANT MaxChunks   \* output chunks that can be on their way at a time

ASSUME ChunksAssumption == MaxChunks \in Nat \ {0}

VARIABLES
    state,        \* Execution.state, "none" before CreateExecution
    active,       \* the execution holds its slot
    accepting,    \* Manager.accepting
    background,
    launch,       \* ExecutionLauncher.start
    process,
    detached,     \* a descendant outside the group holds a pipe
    pipe,         \* chunks written and not yet in the EventStore
    event,        \* the last control event of the EventStore
    winner,       \* TerminalArbiter.winner
    finalized,    \* the channel is closed
    arbiter,      \* TerminalArbiter.run
    timer,        \* ExecutionTimeout.run
    terminator,   \* ProcessGroupTerminator.terminate
    signalled,    \* a signal was sent to a group that was alive
    supervisor,   \* supervise
    writer,       \* BackgroundLogWriter.run
    cancelReason, \* entry.cancelReason, "none" until a cancellation is asked for
    handler,      \* runCancellation of the entry, in whichever goroutine
    shutdown,     \* Manager.Shutdown
    visible       \* entry.visible

entryVars == <<state, active, accepting, background, visible>>
cancelVars == <<cancelReason, handler, shutdown>>
arbiterVars == <<winner, finalized, arbiter, event>>
processVars == <<process, detached, pipe, terminator, signalled>>
executionVars == <<entryVars, cancelVars, arbiterVars, processVars,
          launch, timer, supervisor, writer>>

Reason == {"process_exited", "start_failed", "internal_failure", "explicit_cancel",
           "foreground_disconnect", "runner_shutdown", "deadline_exceeded"}
CancelReason == {"explicit_cancel", "foreground_disconnect", "runner_shutdown"}
TerminalState == {"Exited", "Failed", "Cancelled", "TimedOut"}

\* terminalStateAndEvent: the event has the name of the state.
StateOf(reason) ==
    CASE reason = "process_exited" -> "Exited"
      [] reason = "deadline_exceeded" -> "TimedOut"
      [] reason \in CancelReason -> "Cancelled"
      [] OTHER -> "Failed"

ExecutionInit ==
    /\ state = "none" /\ active = FALSE /\ accepting = TRUE /\ visible = "none"
    /\ background \in BOOLEAN
    /\ launch = "none"
    /\ process = "none" /\ detached = FALSE /\ pipe = 0 /\ terminator = "idle" /\ signalled = FALSE
    /\ event = "none" /\ winner = "none" /\ finalized = FALSE /\ arbiter = "none"
    /\ timer = "off" /\ supervisor = "off" /\ writer = "off"
    /\ cancelReason = "none" /\ handler = "none" /\ shutdown = "off"
-----------------------------------------------------------------------------
(* The arbiter.  Submit is a rendezvous with its loop; while it publishes  *)
(* nobody is served, and afterwards everybody reads the winner.            *)

Submit(reason) ==
    /\ arbiter \in {"open", "done"}
    /\ winner' = IF arbiter = "open" /\ winner = "none" THEN reason ELSE winner
    /\ UNCHANGED <<finalized, arbiter, event>>

\* The decision that Submit returned, in the step that submits.
Won(reason) == winner' = reason

\* The loop sees the closed channel and has a winner.
Seal ==
    /\ arbiter = "open" /\ finalized /\ winner # "none"
    /\ arbiter' = "apply"
    /\ UNCHANGED <<entryVars, cancelVars, processVars, winner, finalized, event,
                   launch, timer, supervisor, writer>>

\* Transition, then PublishControl.
ApplyState ==
    /\ arbiter = "apply"
    /\ state' = StateOf(winner)
    /\ arbiter' = "publish"
    /\ UNCHANGED <<active, accepting, background, visible, cancelVars, processVars,
                   winner, finalized, event, launch, timer, supervisor, writer>>

PublishTerminal ==
    /\ arbiter = "publish"
    /\ event' = StateOf(winner)
    /\ arbiter' = "done"
    /\ UNCHANGED <<entryVars, cancelVars, processVars, winner, finalized,
                   launch, timer, supervisor, writer>>

PublishWinner == Seal \/ ApplyState \/ PublishTerminal
-----------------------------------------------------------------------------
(* The process and its terminator.                                         *)

\* Any holder of a pipe may write to it.
ProcessWrites ==
    /\ process = "alive" \/ detached
    /\ pipe < MaxChunks
    /\ pipe' = pipe + 1
    /\ UNCHANGED <<entryVars, cancelVars, arbiterVars, process, detached, terminator, signalled,
                   launch, timer, supervisor, writer>>

ProcessExits ==
    /\ process = "alive"
    /\ process' = "dead"
    /\ UNCHANGED <<entryVars, cancelVars, arbiterVars, detached, pipe, terminator, signalled,
                   launch, timer, supervisor, writer>>

\* A descendant leaves the group with a pipe in its hands, and may keep it for ever.
DescendantDetaches ==
    /\ process = "alive" /\ ~detached
    /\ detached' = TRUE
    /\ UNCHANGED <<entryVars, cancelVars, arbiterVars, process, pipe, terminator, signalled,
                   launch, timer, supervisor, writer>>

DescendantEnds ==
    /\ detached
    /\ detached' = FALSE
    /\ UNCHANGED <<entryVars, cancelVars, arbiterVars, process, pipe, terminator, signalled,
                   launch, timer, supervisor, writer>>

\* Somebody called Terminate; the first caller's once runs it.
TerminateCalled ==
    \/ timer = "terminate" \/ handler = "terminate" \/ launch = "logTerminate"

\* Terminate returns, to all of them.
Terminated == terminator \in {"done", "failed"}

\* SIGTERM to the group, which may ignore it; a group that is gone ends it at once, and
\* so does any other error of kill.
SignalTerm ==
    /\ terminator = "idle" /\ TerminateCalled
    /\ \/ /\ process = "alive"
          /\ process' \in {"alive", "dead"}
          /\ signalled' = TRUE
          /\ terminator' = "grace"
       \/ process = "dead" /\ terminator' = "grace" /\ UNCHANGED <<process, signalled>>
       \/ process = "reaped" /\ terminator' = "done" /\ UNCHANGED <<process, signalled>>
       \/ process # "reaped" /\ terminator' = "failed" /\ UNCHANGED <<process, signalled>>
    /\ UNCHANGED <<entryVars, cancelVars, arbiterVars, detached, pipe, launch, timer, supervisor, writer>>

\* Mutant: no SIGKILL after the grace period.
SignalKillNever ==
    /\ terminator = "grace"
    /\ terminator' = IF process = "reaped" THEN "done" ELSE "kill"
    /\ UNCHANGED <<entryVars, cancelVars, arbiterVars, process, detached, pipe, signalled,
                   launch, timer, supervisor, writer>>

\* After the grace period: nothing left, or SIGKILL, which reaches the group and nobody
\* else.  A leader that nobody has waited for is still a member of its group.
SignalKill ==
    /\ terminator = "grace"
    /\ \/ process = "reaped" /\ terminator' = "done" /\ UNCHANGED <<process, signalled>>
       \/ process # "reaped" /\ terminator' = "failed" /\ UNCHANGED <<process, signalled>>
       \/ /\ process \in {"alive", "dead"}
          /\ process' = "dead"
          /\ signalled' = (signalled \/ process = "alive")
          /\ terminator' = "kill"
    /\ UNCHANGED <<entryVars, cancelVars, arbiterVars, detached, pipe, launch, timer, supervisor, writer>>

\* <-reaped, and the probes until the group is empty or they give up.
AwaitReaped ==
    /\ terminator = "kill" /\ process = "reaped"
    /\ terminator' \in {"done", "failed"}
    /\ UNCHANGED <<entryVars, cancelVars, arbiterVars, process, detached, pipe, signalled,
                   launch, timer, supervisor, writer>>

TerminateGroup == SignalTerm \/ SignalKill \/ AwaitReaped
-----------------------------------------------------------------------------
(* ExecutionLauncher.start.                                                *)

CreateExecution ==
    /\ launch = "none" /\ accepting
    /\ state' = "Pending" /\ visible' = "Pending" /\ active' = TRUE
    /\ launch' = "start"
    /\ UNCHANGED <<accepting, background, cancelVars, arbiterVars, processVars,
                   timer, supervisor, writer>>

StartCommand ==
    /\ launch = "start"
    /\ \/ process' = "alive" /\ arbiter' = "open" /\ launch' = "run"
       \/ launch' = "failState" /\ UNCHANGED <<process, arbiter>>
    /\ UNCHANGED <<entryVars, cancelVars, winner, finalized, event, detached, pipe, terminator,
                   signalled, timer, supervisor, writer>>

\* completePendingFailure: Transition, PublishControl, Complete.
FailState ==
    /\ launch = "failState"
    /\ state' = "Failed"
    /\ launch' = "failEvent"
    /\ UNCHANGED <<active, accepting, background, visible, cancelVars, arbiterVars,
                   processVars, timer, supervisor, writer>>

FailEvent ==
    /\ launch = "failEvent"
    /\ event' = "Failed"
    /\ launch' = "failComplete"
    /\ UNCHANGED <<entryVars, cancelVars, winner, finalized, arbiter, processVars,
                   timer, supervisor, writer>>

FailComplete ==
    /\ launch = "failComplete"
    /\ active' = FALSE
    /\ launch' = "returned"
    /\ UNCHANGED <<state, accepting, background, visible, cancelVars, arbiterVars,
                   processVars, timer, supervisor, writer>>

TransitionRunning ==
    /\ launch = "run"
    /\ state' = "Running"
    /\ launch' = "announce"
    /\ UNCHANGED <<active, accepting, background, visible, cancelVars, arbiterVars,
                   processVars, timer, supervisor, writer>>

PublishStarted ==
    /\ launch = "announce"
    /\ event' = "started"
    /\ launch' = "bind"
    /\ UNCHANGED <<entryVars, cancelVars, winner, finalized, arbiter, processVars,
                   timer, supervisor, writer>>

\* A request that came before the handler is carried out here, by the launcher.
SetCancellationHandler ==
    /\ launch = "bind"
    /\ IF cancelReason = "none"
         THEN launch' = "arm" /\ handler' = "bound"
         ELSE launch' = "cancelling" /\ handler' = "submit"
    /\ UNCHANGED <<entryVars, cancelReason, shutdown, arbiterVars, processVars,
                   timer, supervisor, writer>>

\* The handler that SetCancellationHandler ran returned an error: once more, as an
\* internal failure, which is too late to win.
HandlerFailed ==
    /\ launch = "cancelling" /\ handler = "returned"
    /\ Submit("internal_failure")
    /\ launch' = "failWait"
    /\ UNCHANGED <<entryVars, cancelVars, processVars, timer, supervisor, writer>>

ArmTimeout ==
    /\ launch = "arm"
    /\ timer' = "armed"
    /\ launch' = IF background THEN "openLog" ELSE "supervise"
    /\ UNCHANGED <<entryVars, cancelVars, arbiterVars, processVars, supervisor, writer>>

\* NewBackgroundLogWriter; when it fails, the launcher starts the supervisor,
\* submits the failure and terminates the process, whoever won.
OpenLog ==
    /\ launch = "openLog"
    /\ \/ writer' = "run" /\ launch' = "supervise" /\ UNCHANGED supervisor
       \/ supervisor' = "wait" /\ launch' = "logSubmit" /\ UNCHANGED writer
    /\ UNCHANGED <<entryVars, cancelVars, arbiterVars, processVars, timer>>

LogSubmit ==
    /\ launch = "logSubmit"
    /\ Submit("internal_failure")
    /\ launch' = "logTerminate"
    /\ UNCHANGED <<entryVars, cancelVars, processVars, timer, supervisor, writer>>

LogTerminated ==
    /\ launch = "logTerminate" /\ Terminated
    /\ launch' = "failWait"
    /\ UNCHANGED <<entryVars, cancelVars, arbiterVars, processVars, timer, supervisor, writer>>

FailWait ==
    /\ launch = "failWait" /\ arbiter = "done"
    /\ launch' = "returned"
    /\ UNCHANGED <<entryVars, cancelVars, arbiterVars, processVars, timer, supervisor, writer>>

GoSupervise ==
    /\ launch = "supervise"
    /\ supervisor' = "wait"
    /\ launch' = "returned"
    /\ UNCHANGED <<entryVars, cancelVars, arbiterVars, processVars, timer, writer>>

LaunchStep ==
    \/ StartCommand \/ FailState \/ FailEvent \/ FailComplete
    \/ TransitionRunning \/ PublishStarted \/ SetCancellationHandler
    \/ HandlerFailed \/ ArmTimeout \/ OpenLog
    \/ LogSubmit \/ LogTerminated \/ FailWait \/ GoSupervise
-----------------------------------------------------------------------------
(* ExecutionTimeout.                                                       *)

DeadlinePasses ==
    /\ timer = "armed"
    /\ timer' = "submit"
    /\ UNCHANGED <<entryVars, cancelVars, arbiterVars, processVars, launch, supervisor, writer>>

\* Mutant: the group is terminated first and the candidate submitted then.
TimeoutKillsFirst ==
    /\ timer = "submit" /\ process = "alive"
    /\ process' = "dead" /\ signalled' = TRUE
    /\ timer' = "done"
    /\ UNCHANGED <<entryVars, cancelVars, arbiterVars, detached, pipe, terminator, launch,
                   supervisor, writer>>

\* Only a deadline that won may touch the process group.
TimeoutSubmits ==
    /\ timer = "submit"
    /\ Submit("deadline_exceeded")
    /\ timer' = IF Won("deadline_exceeded") THEN "terminate" ELSE "done"
    /\ UNCHANGED <<entryVars, cancelVars, processVars, launch, supervisor, writer>>

TimeoutTerminated ==
    /\ timer = "terminate" /\ Terminated
    /\ timer' = "done"
    /\ UNCHANGED <<entryVars, cancelVars, arbiterVars, processVars, launch, supervisor, writer>>

TimeoutStep == TimeoutSubmits \/ TimeoutTerminated
-----------------------------------------------------------------------------
(* supervise: WaitProcess, the rest of the output, the timer, the          *)
(* candidates, finalized, the terminal event, the log, the slot.           *)

\* The goroutine that drains the chunks.
AppendOutput ==
    /\ supervisor # "off" /\ pipe > 0
    /\ pipe' = pipe - 1
    /\ UNCHANGED <<entryVars, cancelVars, arbiterVars, process, detached, terminator, signalled,
                   launch, timer, supervisor, writer>>

\* Both pipes have ended, then the leader is waited for.
WaitProcess ==
    /\ supervisor = "wait" /\ process = "dead" /\ ~detached
    /\ process' = "reaped"
    /\ supervisor' = "drain"
    /\ UNCHANGED <<entryVars, cancelVars, arbiterVars, detached, pipe, terminator, signalled,
                   launch, timer, writer>>

\* Mutant: the supervisor goes on without the rest of the output.
OutputIgnored ==
    /\ supervisor = "drain"
    /\ supervisor' = "stop"
    /\ UNCHANGED <<entryVars, cancelVars, arbiterVars, processVars, launch, timer, writer>>

OutputDone ==
    /\ supervisor = "drain" /\ pipe = 0
    /\ supervisor' = "stop"
    /\ UNCHANGED <<entryVars, cancelVars, arbiterVars, processVars, launch, timer, writer>>

\* timeout.Stop returns when the timer's goroutine has.
StopTimeout ==
    /\ supervisor = "stop" /\ timer \in {"armed", "done"}
    /\ timer' = "done"
    /\ supervisor' = "submit"
    /\ UNCHANGED <<entryVars, cancelVars, arbiterVars, processVars, launch, writer>>

\* A failure to read a pipe or to wait comes before the exit; a later candidate
\* of the same goroutine can only lose.
SubmitWait ==
    /\ supervisor = "submit"
    /\ \E reason \in {"internal_failure", "process_exited"} : Submit(reason)
    /\ supervisor' = "finalize"
    /\ UNCHANGED <<entryVars, cancelVars, processVars, launch, timer, writer>>

Finalize ==
    /\ supervisor = "finalize"
    /\ finalized' = TRUE
    /\ supervisor' = "await"
    /\ UNCHANGED <<entryVars, cancelVars, winner, arbiter, event, processVars,
                   launch, timer, writer>>

AwaitTerminal ==
    /\ supervisor = "await" /\ arbiter = "done"
    /\ supervisor' = "awaitLog"
    /\ UNCHANGED <<entryVars, cancelVars, arbiterVars, processVars, launch, timer, writer>>

\* Mutant: the slot is freed while the log may still be written.
AwaitLogNot ==
    /\ supervisor = "awaitLog"
    /\ supervisor' = "complete"
    /\ UNCHANGED <<entryVars, cancelVars, arbiterVars, processVars, launch, timer, writer>>

AwaitLog ==
    /\ supervisor = "awaitLog" /\ writer \in {"off", "done", "failed"}
    /\ supervisor' = "complete"
    /\ UNCHANGED <<entryVars, cancelVars, arbiterVars, processVars, launch, timer, writer>>

\* Manager.Complete, which refuses an execution that is not terminal.
Complete ==
    /\ supervisor = "complete"
    /\ active' = (active /\ state \notin TerminalState)
    /\ supervisor' = "done"
    /\ UNCHANGED <<state, accepting, background, visible, cancelVars, arbiterVars,
                   processVars, launch, timer, writer>>

SuperviseStep ==
    \/ WaitProcess \/ OutputDone \/ StopTimeout \/ SubmitWait \/ Finalize
    \/ AwaitTerminal \/ AwaitLog \/ Complete
-----------------------------------------------------------------------------
(* BackgroundLogWriter: it follows the EventStore to its terminal event.   *)

WriterEnds ==
    /\ writer = "run" /\ event \in TerminalState
    /\ writer' = "done"
    /\ UNCHANGED <<entryVars, cancelVars, arbiterVars, processVars, launch, timer, supervisor>>

\* A write, sync or close fails: fail submits the failure and does nothing else.
WriterFails ==
    /\ writer = "run"
    /\ Submit("internal_failure")
    /\ writer' = "failed"
    /\ UNCHANGED <<entryVars, cancelVars, processVars, launch, timer, supervisor>>
-----------------------------------------------------------------------------
(* Cancellation: requestCancellation and CancelAsync are one critical      *)
(* section; the handler is run once, by the first who can.                 *)

RequestCancellation(reason) ==
    \/ state \in TerminalState /\ UNCHANGED <<cancelReason, handler>>
    \/ /\ state \notin TerminalState
       /\ cancelReason' = IF cancelReason = "none" THEN reason ELSE cancelReason
       /\ handler' = IF handler = "bound" THEN "submit" ELSE handler

\* An explicit cancel names an id and a disconnect has a stream: both come when
\* the launcher has answered.  The background coordinator watches the server's
\* context from the moment before the supervisor starts.
CancelExecution ==
    /\ cancelReason = "none"
    /\ \E reason \in CancelReason :
          /\ \/ launch = "returned"
             \/ launch = "supervise" /\ background /\ reason = "runner_shutdown"
          /\ reason = "foreground_disconnect" => ~background
          /\ RequestCancellation(reason)
    /\ UNCHANGED <<entryVars, shutdown, arbiterVars, processVars, launch, timer,
                   supervisor, writer>>

HandlerSubmits ==
    /\ handler = "submit"
    /\ Submit(cancelReason)
    /\ handler' = IF Won(cancelReason) THEN "terminate" ELSE "await"
    /\ UNCHANGED <<entryVars, cancelReason, shutdown, processVars, launch, timer,
                   supervisor, writer>>

\* An error of Terminate is returned at once.
HandlerTerminated ==
    /\ handler = "terminate" /\ Terminated
    /\ handler' = IF terminator = "failed" THEN "returned" ELSE "await"
    /\ UNCHANGED <<entryVars, cancelReason, shutdown, arbiterVars, processVars, launch,
                   timer, supervisor, writer>>

CancellationReturns ==
    /\ handler = "await" /\ arbiter = "done"
    /\ handler' = "returned"
    /\ UNCHANGED <<entryVars, cancelReason, shutdown, arbiterVars, processVars, launch,
                   timer, supervisor, writer>>

HandlerStep == HandlerSubmits \/ HandlerTerminated \/ CancellationReturns
-----------------------------------------------------------------------------
(* Manager.Shutdown: close admission and take the snapshot; cancel; wait   *)
(* for the handler; wait until no slot is held.  Its context may end.      *)

CloseAdmission ==
    /\ shutdown = "off"
    /\ accepting' = FALSE
    /\ shutdown' = IF active THEN "request" ELSE "wait"
    /\ UNCHANGED <<state, active, background, visible, cancelReason, handler,
                   arbiterVars, processVars, launch, timer, supervisor, writer>>

ShutdownCancels ==
    /\ shutdown = "request"
    /\ RequestCancellation("runner_shutdown")
    /\ shutdown' = IF state \in TerminalState \/ handler' = "none" THEN "wait" ELSE "join"
    /\ UNCHANGED <<entryVars, arbiterVars, processVars, launch, timer, supervisor, writer>>

ShutdownJoins ==
    /\ shutdown = "join" /\ handler = "returned"
    /\ shutdown' = "wait"
    /\ UNCHANGED <<entryVars, cancelReason, handler, arbiterVars, processVars, launch,
                   timer, supervisor, writer>>

\* waitForNoActive.
ShutdownReturns ==
    /\ shutdown = "wait" /\ ~active
    /\ shutdown' = "ok"
    /\ UNCHANGED <<entryVars, cancelReason, handler, arbiterVars, processVars, launch,
                   timer, supervisor, writer>>

\* The context ends the waiting; the request is another goroutine's and is made.
ShutdownTimesOut ==
    /\ shutdown \in {"join", "wait"}
    /\ shutdown' = "timeout"
    /\ UNCHANGED <<entryVars, cancelReason, handler, arbiterVars, processVars, launch,
                   timer, supervisor, writer>>
-----------------------------------------------------------------------------
\* StatusSnapshot: the state is shown unless it is terminal and its event is not
\* yet there.
StatusSnapshot ==
    /\ state # "none"
    /\ visible' = IF state \in TerminalState /\ event \notin TerminalState THEN visible ELSE state
    /\ UNCHANGED <<state, active, accepting, background, cancelVars, arbiterVars,
                   processVars, launch, timer, supervisor, writer>>
-----------------------------------------------------------------------------
ExecutionNext ==
    \/ CreateExecution \/ LaunchStep
    \/ ProcessWrites \/ ProcessExits \/ DescendantDetaches \/ DescendantEnds
    \/ PublishWinner \/ TerminateGroup
    \/ DeadlinePasses \/ TimeoutStep
    \/ AppendOutput \/ SuperviseStep
    \/ WriterEnds \/ WriterFails
    \/ CancelExecution \/ HandlerStep
    \/ CloseAdmission \/ ShutdownCancels \/ ShutdownJoins \/ ShutdownReturns \/ ShutdownTimesOut
    \/ StatusSnapshot

ExecutionSpec == ExecutionInit /\ [][ExecutionNext]_executionVars

\* Goroutines of the runner that can go on do; nothing makes the process or a descendant
\* exit, a client cancel, a write fail or a deadline come.
ExecutionFairSpec ==
    /\ ExecutionSpec
    /\ WF_executionVars(LaunchStep) /\ WF_executionVars(PublishWinner) /\ WF_executionVars(TerminateGroup)
    /\ WF_executionVars(TimeoutStep) /\ WF_executionVars(AppendOutput) /\ WF_executionVars(SuperviseStep)
    /\ WF_executionVars(WriterEnds) /\ WF_executionVars(HandlerStep)
-----------------------------------------------------------------------------
(* Properties.                                                             *)

\* Every variable is of its type.
TypeOK ==
    /\ state \in {"none", "Pending", "Running"} \cup TerminalState
    /\ visible \in {"none", "Pending", "Running"} \cup TerminalState
    /\ active \in BOOLEAN /\ accepting \in BOOLEAN /\ background \in BOOLEAN
    /\ launch \in {"none", "start", "failState", "failEvent", "failComplete", "run",
                   "announce", "bind", "cancelling", "arm", "openLog", "logSubmit",
                   "logTerminate", "failWait", "supervise", "returned"}
    /\ process \in {"none", "alive", "dead", "reaped"}
    /\ detached \in BOOLEAN
    /\ pipe \in 0 .. MaxChunks
    /\ event \in {"none", "started"} \cup TerminalState
    /\ winner \in Reason \cup {"none"}
    /\ finalized \in BOOLEAN
    /\ arbiter \in {"none", "open", "apply", "publish", "done"}
    /\ timer \in {"off", "armed", "submit", "terminate", "done"}
    /\ terminator \in {"idle", "grace", "kill", "done", "failed"}
    /\ signalled \in BOOLEAN
    /\ supervisor \in {"off", "wait", "drain", "stop", "submit", "finalize", "await",
                       "awaitLog", "complete", "done"}
    /\ writer \in {"off", "run", "failed", "done"}
    /\ cancelReason \in CancelReason \cup {"none"}
    /\ handler \in {"none", "bound", "submit", "terminate", "await", "returned"}
    /\ shutdown \in {"off", "request", "join", "wait", "ok", "timeout"}

\* Whoever was told that its candidate won, and goes on to kill the group, is the
\* reason that is reported, whatever was submitted since; and the terminal event
\* is the winner's.  A process that the runner signalled is never reported as having
\* exited by itself: a candidate is chosen before the first signal.
KillerIsReported ==
    /\ signalled => winner \notin {"none", "process_exited"}
    /\ timer = "terminate" => winner = "deadline_exceeded"
    /\ handler = "terminate" => winner = cancelReason
    /\ arbiter = "done" => event = StateOf(winner) /\ state = event

\* The terminal event is the last: nothing is still in the pipes or can still be written
\* to them, by a descendant outside the group either, the process is reaped, and the timer
\* cannot fire any more.
TerminalIsLast ==
    event \in TerminalState => /\ process \in {"none", "reaped"} /\ ~detached /\ pipe = 0
                               /\ timer \in {"off", "done"}

\* A slot is free only when nothing of the execution is left: no process, no holder of its
\* pipes, its event published, its log complete or given up.
FreedSlotIsQuiet ==
    state # "none" /\ ~active =>
        /\ process \in {"none", "reaped"} /\ ~detached
        /\ event \in TerminalState
        /\ writer # "run"

\* A status never shows a terminal state whose event cannot be shown with it.
StatusHasEvent == visible \in TerminalState => event = visible

\* When Shutdown reports success no process runs, and none is started after it.
ShutdownIsFinal == shutdown = "ok" => ~active /\ process \in {"none", "reaped"}

\* A deadline that has come ends the execution with its terminal event, though the timer, the
\* terminator and the supervisor wait for each other (ExecutionTimeout,
\* newProcessGroupTerminator), unless the kill itself fails, a log that could not be written
\* has taken the verdict, or a descendant that left the group keeps a pipe open for ever: then
\* the group is killed, but WaitProcess never sees the end of the output.
DeadlineEnds ==
    timer = "submit" ~> \/ event \in TerminalState
                        \/ terminator = "failed" \/ writer = "failed"
                        \/ [](process = "dead" /\ detached)
=============================================================================
