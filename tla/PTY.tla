-------------------------------- MODULE PTY --------------------------------
(***************************************************************************)
(* Interactive terminals: the sessions of runnerpty.Manager, the WebSocket *)
(* handler of the runner that serves each of them, and sandboxd's bridge   *)
(* to the client.                                                          *)
(*                                                                         *)
(* Five goroutines work on a session: the handler, which reads the         *)
(* client's frames; the writer (pumpPTYOutput); the supervisor; the pump   *)
(* of the terminal's output (Session.pumpOutput); and the one that waits   *)
(* for the process.  They share the channels output, terminal and done,    *)
(* the session's context, and the first cause that was given for its end.  *)
(***************************************************************************)
EXTENDS Naturals, FiniteSets

CONSTANTS
    Terminal,      \* the connections that clients open
    MaxSessions,   \* PTYMaxConcurrentSessions
    OutputRoom     \* capacity of the output channel

ASSUME PTYAssumption == {MaxSessions, OutputRoom} \subseteq Nat \ {0}

VARIABLES
    session,    \* session[t]: the state of t's goroutines, channels and process
    slots,      \* Manager.sessions
    draining    \* the runner's server context is cancelled

ptyVars == <<session, slots, draining>>

\* handler: absent, spawning, writing "started", reading frames, in WriteStdin, waiting for the
\*   writer, or gone
\* writer: absent, selecting, draining after a failed write, or gone
\* supervisor: absent, selecting, terminating with a cause, publishing a result, or gone
\* process: none, running, ended (a zombie), reaped
\* output: the chunks in the output channel; terminal: the result is sent, then the channel closed
NoSession ==
    [handler |-> "absent", writer |-> "absent", supervisor |-> "absent", process |-> "none",
     cancelled |-> FALSE, cause |-> "none", signalled |-> FALSE, done |-> FALSE,
     output |-> 0, terminal |-> "none", peer |-> "open"]

\* What is left of a connection whose goroutines have all returned.
Over == [NoSession EXCEPT !.handler = "gone", !.writer = "gone", !.supervisor = "gone",
                          !.process = "reaped", !.peer = "closed"]

PTYInit ==
    /\ session = [t \in Terminal |-> NoSession]
    /\ slots = {} /\ draining = FALSE

Is(t, role, states) == session[t][role] \in states

\* Session.Cancel: the first cause is kept, the context ends.  After done nobody reads the cause.
Cancel(s, cause) ==
    [s EXCEPT !.cancelled = TRUE, !.cause = IF @ = "none" /\ ~s.done THEN cause ELSE @]

\* s.ctx is a child of the server's context.
ContextDone(t) == session[t].cancelled \/ draining

Set(t, s) == session' = [session EXCEPT ![t] = s]
-----------------------------------------------------------------------------
(* manager.Start, called by the handler once the first frame was read.     *)

\* An invalid start, a full manager or a refusal of sandboxd: an error event, and no session.
StartRefused(t) ==
    /\ Is(t, "handler", {"absent"})
    /\ Set(t, Over)
    /\ UNCHANGED <<slots, draining>>

Register(t) ==
    /\ Is(t, "handler", {"absent"})
    /\ Cardinality(slots) < MaxSessions
    /\ slots' = slots \cup {t}
    /\ Set(t, [session[t] EXCEPT !.handler = "spawning"])
    /\ UNCHANGED draining

\* spawnPTYProcess, and the goroutines supervise and pumpOutput start; or the slot is given back.
Spawn(t) ==
    /\ Is(t, "handler", {"spawning"})
    /\ \/ /\ Set(t, [session[t] EXCEPT !.handler = "started", !.supervisor = "select",
                                       !.process = "running"])
          /\ UNCHANGED slots
       \/ /\ Set(t, Over)
          /\ slots' = slots \ {t}
    /\ UNCHANGED draining

\* The started event; without it the handler cancels the session and leaves.
WriteStarted(t) ==
    /\ Is(t, "handler", {"started"})
    /\ \/ /\ Is(t, "peer", {"open"})
          /\ Set(t, [session[t] EXCEPT !.handler = "read", !.writer = "select"])
       \/ Set(t, [Cancel(session[t], "cancelled") EXCEPT !.handler = "gone", !.peer = "closed"])
    /\ UNCHANGED <<slots, draining>>
-----------------------------------------------------------------------------
(* The client, the bridge and the handler's loop (readPTYInput).           *)

\* The client leaves, sandboxd dies, or a frame is too large or malformed.
ClientLeaves(t) ==
    /\ Is(t, "handler", {"started", "read", "stdin"}) /\ Is(t, "peer", {"open"})
    /\ Set(t, [session[t] EXCEPT !.peer = "closed"])
    /\ UNCHANGED <<slots, draining>>

\* A frame for a process that does not read: master.Write blocks, and the handler with it.
StdinBlocks(t) ==
    /\ Is(t, "handler", {"read"}) /\ Is(t, "peer", {"open"})
    /\ Is(t, "process", {"running"}) /\ ~session[t].signalled
    /\ Set(t, [session[t] EXCEPT !.handler = "stdin"])
    /\ UNCHANGED <<slots, draining>>

\* The process reads, or ends, or the master is closed under the write.
StdinReturns(t) ==
    /\ Is(t, "handler", {"stdin"})
    /\ Set(t, [session[t] EXCEPT !.handler = "read"])
    /\ UNCHANGED <<slots, draining>>

\* The connection is closed from either side, or the server's context ends.
ReadFails(t) ==
    /\ Is(t, "handler", {"read"}) /\ (Is(t, "peer", {"closed"}) \/ draining)
    /\ Set(t, [Cancel(session[t], "cancelled") EXCEPT !.handler = "wait", !.peer = "closed"])
    /\ UNCHANGED <<slots, draining>>

\* The writer had the result, so the supervisor has finished too, and the process was reaped.
HandlerReturns(t) ==
    /\ Is(t, "handler", {"wait"}) /\ Is(t, "writer", {"gone"})
    /\ Set(t, Over)
    /\ UNCHANGED <<slots, draining>>
-----------------------------------------------------------------------------
(* The process and Session.pumpOutput.                                     *)

\* By itself or by a signal; SIGKILL follows when the grace is over.
ProcessEnds(t) ==
    /\ Is(t, "process", {"running"})
    /\ Set(t, [session[t] EXCEPT !.process = "ended"])
    /\ UNCHANGED <<slots, draining>>

\* command.Wait.
Reap(t) ==
    /\ Is(t, "process", {"ended"})
    /\ Set(t, [session[t] EXCEPT !.process = "reaped"])
    /\ UNCHANGED <<slots, draining>>

\* What the process wrote goes into the channel while it has room; a full channel holds the
\* process up.  A chunk in hand when done is closed may be dropped or still be sent, which nobody
\* can tell from one sent just before.
PumpOutput(t) ==
    /\ session[t].process # "none" /\ ~session[t].done
    /\ session[t].output < OutputRoom
    /\ Set(t, [session[t] EXCEPT !.output = @ + 1])
    /\ UNCHANGED <<slots, draining>>
-----------------------------------------------------------------------------
(* Session.supervise.                                                      *)

\* linuxProcess.Terminate: SIGTERM to the group, the master closed, SIGKILL after the grace.
\* The process is the session's leader; jobs that left its group are not followed.
Terminate(s, cause) == [s EXCEPT !.supervisor = cause, !.signalled = TRUE]

ProcessExited(t) ==
    /\ Is(t, "supervisor", {"select"}) /\ Is(t, "process", {"reaped"})
    /\ Set(t, [session[t] EXCEPT !.supervisor = "exited"])
    /\ UNCHANGED <<slots, draining>>

TimerFires(t) ==
    /\ Is(t, "supervisor", {"select"})
    /\ Set(t, Terminate([session[t] EXCEPT !.cause = IF @ = "none" THEN "timed_out" ELSE @],
                        "timed_out"))
    /\ UNCHANGED <<slots, draining>>

\* takeCause; a context that ended without a cause counts as a cancellation.
ContextEnds(t) ==
    /\ Is(t, "supervisor", {"select"}) /\ ContextDone(t)
    /\ Set(t, Terminate([session[t] EXCEPT !.cause = "none"],
                        IF session[t].cause = "none" THEN "cancelled" ELSE session[t].cause))
    /\ UNCHANGED <<slots, draining>>

\* Mutant: the session is finished when the process was signalled, not when it was reaped.
FinishSignalled(t) ==
    /\ Is(t, "supervisor", {"exited", "timed_out", "cancelled"}) /\ ~session[t].done
    /\ slots' = slots \ {t}
    /\ Set(t, [session[t] EXCEPT !.done = TRUE, !.cancelled = TRUE, !.cause = "none"])
    /\ UNCHANGED draining

\* finishWith, after <-exitCode: done is closed, the context ends, the slot is free, ...
Finish(t) ==
    /\ Is(t, "supervisor", {"exited", "timed_out", "cancelled"}) /\ ~session[t].done
    /\ Is(t, "process", {"reaped"})
    /\ slots' = slots \ {t}
    /\ Set(t, [session[t] EXCEPT !.done = TRUE, !.cancelled = TRUE, !.cause = "none"])
    /\ UNCHANGED draining

\* Mutant: only an exit has a result to send.
PublishExitOnly(t) ==
    /\ session[t].done /\ Is(t, "supervisor", {"exited", "timed_out", "cancelled"})
    /\ Set(t, [session[t] EXCEPT !.supervisor = "gone",
                  !.terminal = IF session[t].supervisor = "exited" THEN "result" ELSE "none"])
    /\ UNCHANGED <<slots, draining>>

\* ... and the only result is sent and the channel closed.
PublishResult(t) ==
    /\ session[t].done /\ Is(t, "supervisor", {"exited", "timed_out", "cancelled"})
    /\ Set(t, [session[t] EXCEPT !.supervisor = "gone", !.terminal = "result"])
    /\ UNCHANGED <<slots, draining>>
-----------------------------------------------------------------------------
(* The writer: pumpPTYOutput and drainUntilTerminal.                       *)

\* One select: a chunk, although the result is there as well ...
WriteChunk(t) ==
    /\ Is(t, "writer", {"select"}) /\ session[t].output > 0
    /\ \/ /\ Is(t, "peer", {"open"})
          /\ Set(t, [session[t] EXCEPT !.output = @ - 1])
       \/ \* the client is gone, or does not read for 15 seconds
          Set(t, [Cancel(session[t], "cancelled") EXCEPT !.output = @ - 1, !.writer = "drain",
                                                         !.peer = "closed"])
    /\ UNCHANGED <<slots, draining>>

\* ... or the result, although there are chunks as well.  A closed channel gives the zero
\* result, without exit code and cause.
WriteTerminal(t) ==
    /\ Is(t, "writer", {"select"}) /\ session[t].terminal # "none"
    /\ Set(t, [session[t] EXCEPT !.writer = "gone", !.peer = "closed", !.terminal = "closed"])
    /\ UNCHANGED <<slots, draining>>

Drain(t) ==
    /\ Is(t, "writer", {"drain"})
    /\ \/ /\ session[t].output > 0
          /\ Set(t, [session[t] EXCEPT !.output = @ - 1])
       \/ /\ session[t].terminal # "none"
          /\ Set(t, [session[t] EXCEPT !.writer = "gone", !.terminal = "closed"])
    /\ UNCHANGED <<slots, draining>>
-----------------------------------------------------------------------------
(* The end of the runner: its context, then Manager.Shutdown.              *)

ServerStops ==
    /\ ~draining /\ draining' = TRUE
    /\ UNCHANGED <<session, slots>>

\* Shutdown waits on the same channel as the writer, and whoever comes first has the result.
ShutdownTakesResult(t) ==
    /\ draining /\ session[t].terminal = "result"
    /\ Set(t, [session[t] EXCEPT !.terminal = "closed"])
    /\ UNCHANGED <<slots, draining>>
-----------------------------------------------------------------------------
Handle(t) == Spawn(t) \/ WriteStarted(t) \/ ReadFails(t) \/ HandlerReturns(t)
Supervise(t) == ProcessExited(t) \/ TimerFires(t) \/ ContextEnds(t) \/ Finish(t) \/ PublishResult(t)
Write(t) == WriteChunk(t) \/ WriteTerminal(t) \/ Drain(t)

PTYNext ==
    \/ \E t \in Terminal :
          \/ StartRefused(t) \/ Register(t) \/ Handle(t) \/ ClientLeaves(t)
          \/ StdinBlocks(t) \/ StdinReturns(t)
          \/ ProcessEnds(t) \/ Reap(t) \/ PumpOutput(t)
          \/ Supervise(t) \/ Write(t) \/ ShutdownTakesResult(t)
    \/ ServerStops

\* The goroutines run, the timer fires, a killed process dies, and a write to the master ends
\* when it is closed.  Nothing makes a client leave or a process end by itself.
PTYFairness ==
    \A t \in Terminal :
        /\ WF_ptyVars(Handle(t) \/ ((session[t].signalled \/ session[t].done) /\ StdinReturns(t)))
        /\ WF_ptyVars(Supervise(t)) /\ WF_ptyVars(Write(t))
        /\ WF_ptyVars(Reap(t) \/ (session[t].signalled /\ ProcessEnds(t)))
-----------------------------------------------------------------------------
(* Properties. *)

(* The processes that exist, zombies included, never outnumber PTYMaxConcurrentSessions:
   a slot is free only after its process was reaped, however the session ended. *)
ProcessesAreBounded ==
    Cardinality({t \in Terminal : Is(t, "process", {"running", "ended"})}) <= MaxSessions

(* Every session gives its slot back and its handler returns: no goroutine waits for ever on
   another's channel, with a client that stays, leaves, floods or does not read. *)
SessionEnds ==
    \A t \in Terminal :
        t \in slots ~> t \notin slots /\ Is(t, "handler", {"gone"}) /\ Is(t, "writer", {"absent", "gone"})
=============================================================================
