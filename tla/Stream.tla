------------------------------- MODULE Stream -------------------------------
(***************************************************************************)
(* One execution's events on their way to whoever asked for them.          *)
(*                                                                         *)
(*   process -> pipe -> EventStore -+-> ForegroundEventStream -> sandboxd  *)
(*                                  |        -> SDK EventStream            *)
(*                                  +-> BackgroundLogWriter -> log file    *)
(*                                           -> log pages -> SDK Run       *)
(*                                                                         *)
(* The event store is append-only and wakes its two readers by replacing   *)
(* a channel (`version` counts the replacements).  A foreground execution  *)
(* is relayed as server-sent events over two connections, `up` (runner to  *)
(* sandboxd) and `down` (sandboxd to the client), each of which may break; *)
(* whoever notices must cancel the execution.  A background execution is   *)
(* written to a file line by line and read back in pages, by event count,  *)
(* by bytes and by the caller's limit, while it is still growing.          *)
(*                                                                         *)
(* Bounds: MaxChunks chunks of output, sizes in ChunkSizes; Frames frames  *)
(* in flight on a connection.  An event weighs its bytes plus one in a     *)
(* page of PageBytes.                                                      *)
(***************************************************************************)
EXTENDS ExecutionRequest, Integers, Sequences, SequencesExt, FiniteSets

CONSTANTS
    MaxOutputBytes,   \* limits.max_output_bytes
    ChunkSizes,       \* sizes of one pipe read
    MaxChunks,        \* bound: reads of the pipe
    Frames,           \* bound: frames buffered by a connection
    PageEvents,       \* max_log_page_events, in the runner and in sandboxd
    PageBytes,        \* max_log_page_bytes
    SampleRequests,   \* bound: the requests tried, a subset of Requests
    GoodRequest       \* the request that is run: accepted in a good situation

ASSUME StreamAssumption ==
    /\ MaxOutputBytes \in Nat \ {0}
    /\ ChunkSizes \subseteq Nat \ {0} /\ ChunkSizes # {}
    /\ MaxChunks \in Nat /\ Frames \in Nat \ {0}
    /\ PageEvents \in Nat \ {0} /\ PageBytes \in Nat
    /\ \A n \in ChunkSizes : PageBytes > n    \* one event fits a page
    /\ SampleRequests \subseteq Requests

VARIABLES
    process,  \* "none", "running", "ended" (its pipes too), "reaped"; "held": it was
              \* cancelled and something still holds a pipe
    pipe,     \* chunks read from the pipe and not yet in the store
    emitted,  \* bytes the process has written
    reads,    \* chunks so far
    events,   \* EventStore.events
    output,   \* EventStore's outputBytes, outputTruncated, limitPublished
    version,  \* how often EventStore.changed was replaced
    runner,   \* "alive" or "dead"
    server,   \* ForegroundEventStream or BackgroundLogWriter: its loop over the store
    file,     \* the log: complete lines, a partly written one, whether it is gone
    up,       \* connection from the runner to sandboxd
    down,     \* connection from sandboxd to the client
    relay,    \* sandboxd's decoder
    client    \* the caller

storeVars == <<events, output, version>>
procVars == <<process, pipe, emitted, reads, runner>>
netVars == <<up, down, relay>>
vars == <<procVars, storeVars, server, file, netVars, client>>

Foreground == server.kind = "stream"
Background == server.kind = "log"

Event(seq, type, bytes, truncated) ==
    [seq |-> seq, type |-> type, bytes |-> bytes, truncated |-> truncated]

IsTerminal(e) == e.type = "terminal"
Finished(evs) == evs # <<>> /\ IsTerminal(Last(evs))

Connection == [frames |-> <<>>, ended |-> FALSE, broken |-> FALSE]
NoServer == [kind |-> "none", pc |-> "none", cursor |-> 0, batch |-> <<>>,
             terminal |-> FALSE, version |-> 0]
NoPage == [kind |-> "none", events |-> <<>>, next |-> 0, complete |-> FALSE]

Init ==
    /\ process = "none" /\ pipe = <<>> /\ emitted = 0 /\ reads = 0 /\ runner = "alive"
    /\ events = <<>> /\ version = 0
    /\ output = [bytes |-> 0, truncated |-> FALSE, announced |-> FALSE]
    /\ server = NoServer
    /\ file = [lines |-> <<>>, partial |-> FALSE, gone |-> FALSE]
    /\ up = Connection /\ down = Connection
    /\ relay = [pc |-> "idle", expected |-> 1, terminal |-> FALSE]
    /\ client = [pc |-> "asking", got |-> <<>>, cursor |-> 0, page |-> NoPage,
                 asked |-> <<>>]

-----------------------------------------------------------------------------
(* The request. *)

\* executeSandboxHandler refuses: the client keeps what it asked, when, and the answer.
Refuse ==
    /\ client.pc = "asking"
    /\ \E q \in SampleRequests, s \in Situations :
          /\ ~Accepted(ExecuteHandler(q, s))
          /\ client' = [client EXCEPT !.pc = "refused",
                                      !.asked = <<q, s, ExecuteHandler(q, s)>>]
    /\ UNCHANGED <<procVars, storeVars, server, file, netVars>>

\* The launcher published the started event and handed the store to a foreground stream
\* or to a background log writer.
Launch ==
    /\ client.pc = "asking"
    /\ process' = "running"
    /\ events' = <<Event(1, "started", 0, FALSE)>> /\ version' = 1
    /\ \E background \in BOOLEAN :
          /\ Accepted(ExecuteHandler([GoodRequest EXCEPT !.background = background], GoodSituation))
          /\ server' = [NoServer EXCEPT !.kind = IF background THEN "log" ELSE "stream",
                                        !.pc = "snapshot"]
          /\ relay' = [relay EXCEPT !.pc = IF background THEN "idle" ELSE "relaying"]
          /\ client' = [client EXCEPT !.pc = IF background THEN "wait" ELSE "reading"]
    /\ UNCHANGED <<pipe, emitted, reads, runner, output, file, up, down>>

-----------------------------------------------------------------------------
(* The process and the event store. *)

\* drainPipe hands a chunk to the channel of the output goroutine.
Emit ==
    /\ process \in {"running", "held"} /\ runner = "alive" /\ reads < MaxChunks /\ pipe = <<>>
    /\ \E n \in ChunkSizes : pipe' = <<n>> /\ emitted' = emitted + n
    /\ reads' = reads + 1
    /\ UNCHANGED <<process, runner, storeVars, server, file, netVars, client>>

\* Mutant: truncation is noticed only by the chunk that is cut.
AppendOutputCuts(n) ==
    LET remaining == MaxOutputBytes - output.bytes
        retained == IF n > remaining THEN remaining ELSE n
        cut == n > remaining /\ retained > 0
        data == IF retained > 0 THEN <<Event(Len(events) + 1, "output", retained, FALSE)>> ELSE <<>>
        limit == IF cut /\ ~output.announced
                 THEN <<Event(Len(events) + Len(data) + 1, "limit", 0, FALSE)>> ELSE <<>>
    IN  /\ events' = events \o data \o limit
        /\ output' = [bytes |-> output.bytes + retained,
                      truncated |-> output.truncated \/ cut,
                      announced |-> output.announced \/ cut]

\* AppendOutput: what fits the shared limit is kept, the first loss is announced once.
AppendOutput(n) ==
    LET remaining == MaxOutputBytes - output.bytes
        retained == IF n > remaining THEN remaining ELSE n
        cut == n > remaining
        data == IF retained > 0 THEN <<Event(Len(events) + 1, "output", retained, FALSE)>> ELSE <<>>
        limit == IF cut /\ ~output.announced
                 THEN <<Event(Len(events) + Len(data) + 1, "limit", 0, FALSE)>> ELSE <<>>
    IN  /\ events' = events \o data \o limit
        /\ output' = [bytes |-> output.bytes + retained,
                      truncated |-> output.truncated \/ cut,
                      announced |-> output.announced \/ cut]

\* notifyChangedLocked, when something was appended.
NotifyChanged == version' = IF events' # events THEN version + 1 ELSE version

Store ==
    /\ pipe # <<>> /\ runner = "alive"
    /\ AppendOutput(Head(pipe)) /\ NotifyChanged
    /\ pipe' = <<>>
    /\ UNCHANGED <<process, emitted, reads, runner, server, file, netVars, client>>

\* The process ends by itself or at its deadline (RunnerExecution), and the last holder of
\* its pipes with it: only then do the pipes end.
Exit ==
    /\ process \in {"running", "held"} /\ runner = "alive"
    /\ process' = "ended"
    /\ UNCHANGED <<pipe, emitted, reads, runner, storeVars, server, file, netVars, client>>

\* Mutant: readers are not woken by control events.
PublishControlQuiet(type) ==
    /\ events' = Append(events, Event(Len(events) + 1, type, 0, output.truncated))
    /\ UNCHANGED version

\* PublishControl: the terminal event carries whether output was lost.
PublishControl(type) ==
    /\ events' = Append(events, Event(Len(events) + 1, type, 0, output.truncated))
    /\ version' = version + 1

\* The arbiter publishes once the process is reaped and its output is stored.
Terminate ==
    /\ process = "ended" /\ pipe = <<>> /\ runner = "alive"
    /\ PublishControl("terminal")
    /\ process' = "reaped"
    /\ UNCHANGED <<pipe, emitted, reads, runner, output, server, file, netVars, client>>

\* requestCancellation of a running execution; no effect on one that has ended.  The signals
\* reach the process group: a descendant that left it for a session of its own keeps the
\* pipes open, and so does the group itself when it cannot be signalled.
Cancel == process' \in IF process = "running" THEN {"ended", "held"} ELSE {process}

\* The container dies: connections break, nothing more is written.
RunnerDies ==
    /\ runner = "alive" /\ process # "none"
    /\ runner' = "dead" /\ up' = [up EXCEPT !.broken = TRUE]
    /\ UNCHANGED <<process, pipe, emitted, reads, storeVars, server, file, down, relay, client>>

-----------------------------------------------------------------------------
(* The two loops over EventsAfter. *)

ServerAt(pc) == runner = "alive" /\ server.pc = pc

\* EventsAfter: the events past the cursor, the terminal flag and the channel, at once.
EventsAfter ==
    /\ ServerAt("snapshot")
    /\ server' = [server EXCEPT !.pc = "batch", !.version = version,
                     !.batch = SubSeq(events, server.cursor + 1, Len(events)),
                     !.terminal = Finished(events)]
    /\ UNCHANGED <<procVars, storeVars, file, netVars, client>>

\* The batch is used up: a terminal store without its event is an error, else wait.
BatchEnds ==
    /\ ServerAt("batch") /\ server.batch = <<>>
    /\ server' = [server EXCEPT !.pc = IF server.terminal THEN "failed" ELSE "await"]
    /\ IF Foreground /\ server.terminal THEN Cancel ELSE UNCHANGED process
    /\ UNCHANGED <<pipe, emitted, reads, runner, storeVars, file, netVars, client>>

\* <-changed: closed as soon as the channel was replaced.
Awake ==
    /\ ServerAt("await") /\ version # server.version
    /\ server' = [server EXCEPT !.pc = "snapshot"]
    /\ UNCHANGED <<procVars, storeVars, file, netVars, client>>

Advance(next) ==
    server' = [server EXCEPT !.cursor = Head(server.batch).seq, !.batch = Tail(server.batch),
                             !.pc = IF IsTerminal(Head(server.batch)) THEN "done" ELSE next]

Room(conn) == ~conn.broken /\ Len(conn.frames) < Frames

Send(conn, e) == [conn EXCEPT !.frames = Append(@, e), !.ended = IsTerminal(e)]

\* ForegroundEventStream.stream writes one frame and flushes it.
WriteEvent ==
    /\ Foreground /\ ServerAt("batch") /\ server.batch # <<>> /\ Room(up)
    /\ up' = Send(up, Head(server.batch))
    /\ Advance("batch")
    /\ UNCHANGED <<procVars, storeVars, file, down, relay, client>>

\* A write fails or times out, a keepalive fails, or the request's context ends: the
\* stream cancels the execution and returns.
StreamFails ==
    /\ Foreground /\ server.pc \in {"batch", "await"} /\ runner = "alive"
    /\ up.broken \/ (server.pc = "batch" /\ server.batch # <<>> /\ ~Room(up))
    /\ server' = [server EXCEPT !.pc = "failed"]
    /\ up' = [up EXCEPT !.ended = TRUE]
    /\ Cancel
    /\ UNCHANGED <<pipe, emitted, reads, runner, storeVars, file, down, relay, client>>

\* BackgroundLogWriter.run: a line reaches the file in two writes at the worst.
WriteLine ==
    /\ Background /\ ServerAt("batch") /\ server.batch # <<>>
    /\ Head(server.batch).seq = server.cursor + 1
    /\ \/ /\ ~file.partial
          /\ file' = [file EXCEPT !.partial = TRUE]
          /\ UNCHANGED server
       \/ /\ file' = [file EXCEPT !.partial = FALSE, !.lines = Append(@, Head(server.batch))]
          /\ Advance("batch")
    /\ UNCHANGED <<procVars, storeVars, netVars, client>>

\* A write fails: the writer gives up and its candidate takes the verdict.  Nothing stops
\* the process, and the file keeps what it has.
LogFails ==
    /\ Background /\ ServerAt("batch") /\ server.batch # <<>>
    /\ server' = [server EXCEPT !.pc = "failed"]
    /\ UNCHANGED <<procVars, storeVars, file, netVars, client>>

\* supervise has called Complete and the collector evicts the record and removes the log.
Evict ==
    /\ process = "reaped" /\ runner = "alive" /\ ~file.gone
    /\ server.pc \in {"done", "failed"}
    /\ file' = [file EXCEPT !.gone = TRUE]
    /\ UNCHANGED <<procVars, storeVars, server, netVars, client>>

-----------------------------------------------------------------------------
(* sandboxd between the two connections. *)

\* DecodeSSE and the consumer of executeSandboxHandler: the next number, not after a
\* terminal event, and on to the client.
RelayFrame ==
    /\ relay.pc = "relaying" /\ up.frames # <<>> /\ Room(down)
    /\ Head(up.frames).seq = relay.expected /\ ~relay.terminal
    /\ up' = [up EXCEPT !.frames = Tail(@)]
    /\ down' = [down EXCEPT !.frames = Append(@, Head(up.frames))]
    /\ relay' = [relay EXCEPT !.expected = @ + 1, !.terminal = IsTerminal(Head(up.frames))]
    /\ UNCHANGED <<procVars, storeVars, server, file, client>>

\* The handler returns: at the end of the runner's answer, when the runner's connection
\* breaks, or when a write to the client fails or times out.  Both ends are closed.
RelayEnds ==
    /\ relay.pc = "relaying"
    /\ \/ up.frames = <<>> /\ (up.ended \/ up.broken)
       \/ up.frames # <<>> /\ ~Room(down)
    /\ relay' = [relay EXCEPT !.pc = "ended"]
    /\ up' = [up EXCEPT !.broken = ~up.ended \/ up.frames # <<>> \/ up.broken, !.frames = <<>>]
    /\ down' = [down EXCEPT !.ended = TRUE]
    /\ UNCHANGED <<procVars, storeVars, server, file, client>>

\* Mutant: only a failing write tells the handler that the client is gone.
ClientGoneUnnoticed ==
    /\ relay.pc = "relaying" /\ down.broken /\ up.frames # <<>>
    /\ relay' = [relay EXCEPT !.pc = "ended"]
    /\ up' = [up EXCEPT !.broken = TRUE, !.frames = <<>>]
    /\ UNCHANGED <<procVars, storeVars, server, file, down, client>>

\* r.Context().Done(): the goroutine beside the handler closes the runner's stream.
ClientGone ==
    /\ relay.pc = "relaying" /\ down.broken
    /\ relay' = [relay EXCEPT !.pc = "ended"]
    /\ up' = [up EXCEPT !.broken = TRUE, !.frames = <<>>]
    /\ UNCHANGED <<procVars, storeVars, server, file, down, client>>

\* sandboxd dies.
SandboxdDies ==
    /\ relay.pc = "relaying"
    /\ relay' = [relay EXCEPT !.pc = "ended"]
    /\ up' = [up EXCEPT !.broken = TRUE, !.frames = <<>>]
    /\ down' = [down EXCEPT !.broken = TRUE]
    /\ UNCHANGED <<procVars, storeVars, server, file, client>>

-----------------------------------------------------------------------------
(* The client of a foreground execution: EventStream of the SDK. *)

\* EventStream.Next with an event: in order, and the terminal one closes the stream.
Receive ==
    /\ client.pc = "reading" /\ down.frames # <<>>
    /\ LET e == Head(down.frames)
           fits == e.seq = Len(client.got) + 1
       IN  /\ client' = [client EXCEPT !.got = IF fits THEN Append(@, e) ELSE @,
                            !.pc = IF ~fits THEN "error"
                                   ELSE IF IsTerminal(e) THEN "complete" ELSE "reading"]
           /\ down' = [down EXCEPT !.frames = Tail(@), !.broken = @ \/ client'.pc # "reading"]
    /\ UNCHANGED <<procVars, storeVars, server, file, up, relay>>

\* The stream ends, or breaks, without a terminal event.
StreamCut ==
    /\ client.pc = "reading" /\ down.frames = <<>> /\ (down.ended \/ down.broken)
    /\ client' = [client EXCEPT !.pc = "error"]
    /\ UNCHANGED <<procVars, storeVars, server, file, netVars>>

\* The caller's context ends and the SDK closes the connection; frames under way are lost.
Leave ==
    /\ client.pc = "reading"
    /\ client' = [client EXCEPT !.pc = "gone"]
    /\ down' = [down EXCEPT !.broken = TRUE, !.frames = <<>>]
    /\ UNCHANGED <<procVars, storeVars, server, file, up, relay>>

-----------------------------------------------------------------------------
(* The client of a background execution: Run of the SDK. *)

\* Execution.Wait polls the status until it is terminal (StatusSnapshot and
\* MapExecutionStatus show a terminal state only with its event).
PollStatus ==
    /\ client.pc = "wait"
    /\ client' = [client EXCEPT !.pc = IF runner = "dead" \/ file.gone THEN "error"
                                       ELSE IF Finished(events) THEN "logs" ELSE "wait"]
    /\ UNCHANGED <<procVars, storeVars, server, file, netVars>>

\* DELETE of the execution, through the cancel handlers of sandboxd and of the runner.
CancelRequest ==
    /\ client.pc = "wait" /\ runner = "alive"
    /\ Cancel
    /\ UNCHANGED <<pipe, emitted, reads, runner, storeVars, server, file, netVars, client>>

\* Another caller pages through the log while the execution runs.
ReadAlong ==
    /\ client.pc = "wait"
    /\ client' = [client EXCEPT !.pc = "logs"]
    /\ UNCHANGED <<procVars, storeVars, server, file, netVars>>

\* The output bytes that a run of events carries, and its weight in a page.
Bytes(evs) ==
    LET sum[n \in 0..Len(evs)] == IF n = 0 THEN 0 ELSE sum[n - 1] + evs[n].bytes
    IN  sum[Len(evs)]

Weight(evs) == Bytes(evs) + Len(evs)

\* BackgroundLogReader.Read: the longest run of complete lines after the cursor within
\* both limits; an unfinished last line does not exist.
LogPage(cursor) ==
    LET rest == SubSeq(file.lines, cursor + 1, Len(file.lines))
        fits(n) == n <= PageEvents /\ Weight(SubSeq(rest, 1, n)) <= PageBytes
        count == CHOOSE n \in 0..Len(rest) : fits(n) /\ ~(n < Len(rest) /\ fits(n + 1))
        next == cursor + count
    IN  [kind |-> IF cursor > Len(file.lines) THEN "invalidCursor"
                  ELSE IF count = 0 /\ rest # <<>> THEN "corrupt" ELSE "page",
         events |-> SubSeq(rest, 1, count), next |-> next,
         complete |-> \E i \in 1..Len(file.lines) :
                          IsTerminal(file.lines[i]) /\ file.lines[i].seq <= next]

\* What runnerclient.Logs and ExecutionService.Logs demand of a page.
PageIsValid(page, cursor) ==
    /\ page.kind = "page" /\ Len(page.events) <= PageEvents
    /\ \A i \in 1..Len(page.events) :
          /\ page.events[i].seq = cursor + i
          /\ i < Len(page.events) => ~IsTerminal(page.events[i])
    /\ page.next = cursor + Len(page.events)
    /\ page.events # <<>> => page.complete = IsTerminal(Last(page.events))

\* Mutant: a shortened page keeps the cursor of the whole one.
LimitPageKeepsCursor(page, limit) ==
    IF Len(page.events) <= limit THEN page
    ELSE [page EXCEPT !.events = SubSeq(@, 1, limit)]

\* ExecutionService.Logs shortens the page to the caller's limit.
LimitPage(page, limit) ==
    IF Len(page.events) <= limit THEN page
    ELSE LET kept == SubSeq(page.events, 1, limit)
         IN  [page EXCEPT !.events = kept, !.next = Last(kept).seq,
                          !.complete = IsTerminal(Last(kept))]

\* The whole chain of a GET .../logs; the answer may still get lost.
FetchPage ==
    /\ client.pc = "logs"
    /\ \/ /\ runner = "dead" \/ file.gone
          /\ client' = [client EXCEPT !.pc = "error"]
       \/ /\ runner = "alive" /\ ~file.gone
          /\ \E limit \in 1..PageEvents :
                LET page == LogPage(client.cursor)
                IN  client' = IF PageIsValid(page, client.cursor)
                              THEN [client EXCEPT !.pc = "page", !.page = LimitPage(page, limit)]
                              ELSE [client EXCEPT !.pc = "error"]
    /\ UNCHANGED <<procVars, storeVars, server, file, netVars>>

\* ExecutionLogs.Next: the events are appended, the cursor moves, until a page completes.
TakePage ==
    /\ client.pc = "page"
    /\ client' = [client EXCEPT !.got = @ \o client.page.events, !.cursor = client.page.next,
                     !.pc = IF client.page.complete THEN "complete" ELSE "logs",
                     !.page = NoPage]
    /\ UNCHANGED <<procVars, storeVars, server, file, netVars>>

\* The page is lost on the way and asked for again with the same cursor.
LosePage ==
    /\ client.pc = "page"
    /\ client' = [client EXCEPT !.pc = "logs", !.page = NoPage]
    /\ UNCHANGED <<procVars, storeVars, server, file, netVars>>

-----------------------------------------------------------------------------
Supervise == Store \/ Terminate
Serve == EventsAfter \/ BatchEnds \/ Awake \/ WriteEvent \/ StreamFails \/ WriteLine
Forward == RelayFrame \/ RelayEnds \/ ClientGone
Read == Receive \/ StreamCut \/ PollStatus \/ FetchPage \/ TakePage

Next ==
    \/ Refuse \/ Launch \/ Emit \/ Exit \/ RunnerDies
    \/ Supervise \/ Serve \/ LogFails \/ Evict
    \/ Forward \/ SandboxdDies
    \/ Read \/ Leave \/ CancelRequest \/ ReadAlong \/ LosePage

\* Goroutines that can run do run, the collector evicts in the end, and a client that is
\* there reads on.  Nothing makes a process end, write, or a caller leave or retry.
Fairness ==
    /\ WF_vars(Supervise) /\ WF_vars(Serve) /\ WF_vars(Evict)
    /\ WF_vars(Forward) /\ WF_vars(Read)

Spec == Init /\ [][Next]_vars /\ Fairness

-----------------------------------------------------------------------------
(* Properties. *)

\* Whatever breaks, whichever limits cut the pages and however often a page is lost, a
\* caller has a gap-free prefix of the execution's events, and one that is told the run
\* is complete has all of them, the terminal event last (EventStore, DecodeSSE,
\* BackgroundLogReader.Read, ExecutionService.Logs, EventStream.Next, ExecutionLogs.Next).
CallerSeesTheRun ==
    /\ IsPrefix(client.got, events)
    /\ client.pc = "complete" => client.got = events /\ Finished(events)

\* Every byte is accounted for: what the events hold is exactly what fits the limit, a
\* loss is announced exactly once, after the last output and before the terminal event,
\* and the terminal event says so exactly when something was lost (AppendOutput,
\* PublishControl).
OutputIsAccounted ==
    LET stored == emitted - (IF pipe = <<>> THEN 0 ELSE Head(pipe))
        limits == {i \in 1..Len(events) : events[i].type = "limit"}
        lost == stored > MaxOutputBytes
    IN  /\ Bytes(events) = IF lost THEN MaxOutputBytes ELSE stored
        /\ Cardinality(limits) = IF lost THEN 1 ELSE 0
        /\ \A i \in limits, j \in 1..Len(events) : events[j].type = "output" => j < i
        /\ Finished(events) => Last(events).truncated = lost

\* A refusal the client need not retry is final, which is what the published schema says of
\* "retryable": the same request cannot succeed later.  Two refusals are not, and they are
\* the only ones: a directory below the workspace that is not there yet (422), and a
\* process that could not be started (400).  And a runner that is ready and can be reached
\* never asks for a retry.  Across the runner's codes, mapRunnerStatusError,
\* mapRunnerClientError and mapError.
RefusalIsHonest ==
    client.pc = "refused" =>
        LET q == client.asked[1]
            s == client.asked[2]
            answer == client.asked[3]
        IN  /\ ~answer.retryable /\ MaySucceedLater(q, s) =>
                  \/ answer.status = 422 /\ q.cwd = "inside" /\ s.directory = "missing"
                  \/ answer.status = 400 /\ s.start = "fails"
            /\ (/\ s.store = "readable" /\ s.row = "running" /\ s.gate = "open"
                /\ s.protocol = "same" /\ s.runner = "ready") => ~answer.retryable

\* An abandoned foreground execution ends: when the client leaves, or either connection
\* breaks, the runner hears of it and terminates a process that would run for ever.  The
\* one case where it does not end is that the process was cancelled and something that the
\* signals do not reach holds its pipes for ever (executeSandboxHandler,
\* ForegroundEventStream.Serve, ForegroundCoordinator, requestCancellation).
AbandonedRunEnds ==
    (Foreground /\ (down.broken \/ up.broken))
        ~> (Finished(events) \/ runner = "dead" \/ [](process = "held"))

\* A caller of Run gets its answer once the execution has ended: its pages reach the
\* terminal event, or an error.  A log that could not be written ends it only through
\* the eviction of the record.
RunReturns ==
    (Background /\ process = "ended") ~> (client.pc \in {"complete", "error"})
=============================================================================
