-------------------------- MODULE ExecutionRequest --------------------------
(***************************************************************************)
(* The answer to POST /v1/sandboxes/{id}/executions, as a function of the  *)
(* request and of the situation it meets.  A request crosses three         *)
(* validations (the public API, the execution service, the runner) and an  *)
(* error crosses four mappings on the way back: runner status and code,    *)
(* the status error of the runner client, the domain error, and the public *)
(* status with its retryable flag.                                         *)
(*                                                                         *)
(* A request is [command, timeout, env, cwd, media, accept, background];   *)
(* each field is one of the classes the validations tell apart.  A         *)
(* situation is what the request meets: whether the store can be read and  *)
(* what it says of the sandbox, whether the gate of an outbound sandbox is *)
(* open, whether the runner speaks sandboxd's protocol version and what    *)
(* state it is in, whether the directories below the workspace that the    *)
(* request names exist, and whether the kernel can start the process now.  *)
(*                                                                         *)
(* Checks that overlap are written as a chain of IFs, in the code's order: *)
(* a CASE with two true guards does not say which of them counts.          *)
(***************************************************************************)
EXTENDS Naturals

Commands == {"argv", "shell", "both", "none", "emptyProgram", "blankShell",
             "noShellInImage", "tooLong"}
Timeouts == {"default", "inside", "overMaximum", "negative", "overflow"}
Environments == {"allowed", "denied", "malformed", "tooLarge"}
Rows == {"absent", "starting", "running", "deleting", "terminated"}
Runners == {"ready", "full", "shuttingDown", "unreachable", "refusesToken", "failing"}

Requests ==
    [command : Commands, timeout : Timeouts, env : Environments,
     cwd : {"root", "inside", "outside"},
     media : {"json", "other"}, accept : {"matching", "other", "missing"}, background : BOOLEAN]

Situations ==
    [store : {"readable", "failing"}, row : Rows, gate : {"open", "closed"},
     protocol : {"same", "other"}, runner : Runners,
     directory : {"there", "missing"}, start : {"works", "fails"}]

\* Nothing stands in the way of a request.
GoodSituation ==
    [store |-> "readable", row |-> "running", gate |-> "open", protocol |-> "same",
     runner |-> "ready", directory |-> "there", start |-> "works"]

OK == "ok"

-----------------------------------------------------------------------------
(* The public API and the execution service. *)

\* ExecutionSpec.Valid: exactly one of argv and shell, and a program in argv[0].
SpecValid(q) == q.command \notin {"both", "none", "emptyProgram"}

\* decodeExecutionRequest: a JSON document, a timeout that fits a duration, a valid spec.
DecodeExecutionRequest(q) ==
    /\ q.media = "json"
    /\ q.timeout \notin {"negative", "overflow"}
    /\ SpecValid(q)

\* Foreground needs Accept: text/event-stream; background takes JSON or no header.
AcceptsExecutionMediaType(q) ==
    q.accept = "matching" \/ (q.background /\ q.accept = "missing")

\* runningClient: the row can be read, and desired and observed state are both Running.
RunningClient(s) ==
    IF s.store = "failing" THEN "ErrOther"
    ELSE IF s.row = "absent" THEN "ErrNotFound"
    ELSE IF s.row # "running" THEN "ErrSandboxNotRunning"
    ELSE OK

-----------------------------------------------------------------------------
(* The runner. *)

\* RequestValidator.Validate: the command again, and the limits only the runner knows.
RunnerValidates(q) ==
    /\ SpecValid(q)
    /\ q.command \notin {"blankShell", "tooLong"}
    /\ q.timeout \in {"default", "inside"}

\* EnvironmentBuilder.Build: denied keys are dropped, malformed or oversized ones refused.
BuildEnvironment(q) == q.env \in {"allowed", "denied"}

\* ValidateCWD: the workspace itself, or real directories below it, all the way, now.
ValidateCWD(q, s) == q.cwd = "root" \/ (q.cwd = "inside" /\ s.directory = "there")

Status(status, code) == [status |-> status, code |-> code]

\* ExecutionLauncher.start and writeLaunchError: directory, environment and shell are
\* looked at before a slot is taken, so a request that cannot run is told so even by a
\* full runner.  startCommand reports every failure to start in the same way, whether the
\* program is missing or the kernel is out of processes or descriptors for the moment.
LaunchAnswer(q, s) ==
    IF ~ValidateCWD(q, s) THEN Status(422, "INVALID_CWD")
    ELSE IF ~BuildEnvironment(q) THEN Status(422, "INVALID_EXECUTION_REQUEST")
    ELSE IF q.command = "noShellInImage" THEN Status(422, "SHELL_NOT_FOUND")
    ELSE IF s.runner = "shuttingDown" THEN Status(503, "RUNNER_SHUTTING_DOWN")
    ELSE IF s.runner = "full" THEN Status(429, "EXECUTION_LIMIT_REACHED")
    ELSE IF s.runner = "failing" THEN Status(500, "INTERNAL_ERROR")
    ELSE IF s.start = "fails" THEN Status(422, "EXECUTION_START_FAILED")
    ELSE Status(IF q.background THEN 202 ELSE 200, OK)

\* executionCreateHandler.ServeHTTP.
RunnerAnswer(q, s) ==
    IF ~RunnerValidates(q) THEN Status(422, "INVALID_EXECUTION_REQUEST")
    ELSE LaunchAnswer(q, s)

-----------------------------------------------------------------------------
(* The way back. *)

\* ensureHealthy precedes every call of the runner client.
EnsureHealthy(s) ==
    IF s.runner = "unreachable" THEN "ConnectionError"
    ELSE IF s.runner = "refusesToken" THEN "AuthenticationError"
    ELSE IF s.protocol = "other" THEN "ProtocolMismatchError"
    ELSE OK

\* Mutant: every 4xx is the request's own fault.
MapRunnerStatusErrorByClass(a) ==
    IF a.status \in 400..499 THEN "ErrInvalidExecutionRequest" ELSE "ErrRunnerUnhealthy"

\* mapRunnerStatusError: the code first, then the status.
MapRunnerStatusError(a) ==
    IF a.code = "INVALID_CWD" THEN "ErrInvalidCWD"
    ELSE IF a.code = "SHELL_NOT_FOUND" THEN "ErrShellNotFound"
    ELSE IF a.code = "EXECUTION_NOT_FOUND" THEN "ErrExecutionNotFound"
    ELSE IF a.code = "EXECUTION_LIMIT_REACHED" THEN "ErrExecutionLimitReached"
    ELSE IF a.code = "INVALID_EXECUTION_REQUEST" THEN "ErrInvalidExecutionRequest"
    ELSE IF a.status \in {400, 422} THEN "ErrInvalidExecutionRequest"
    ELSE IF a.status = 404 THEN "ErrExecutionNotFound"
    ELSE IF a.status = 429 THEN "ErrExecutionLimitReached"
    ELSE "ErrRunnerUnhealthy"

\* mapRunnerClientError knows domain errors only: the client's own error types, the
\* protocol mismatch among them, all become ErrRunnerUnhealthy.
MapRunnerClientError(e) ==
    IF e \in {"ErrInvalidExecutionRequest", "ErrExecutionNotFound", "ErrExecutionLimitReached",
              "ErrShellNotFound", "ErrInvalidCWD", "ErrRunnerProtocolMismatch"}
    THEN e
    ELSE "ErrRunnerUnhealthy"

Public(status, retryable) == [status |-> status, retryable |-> retryable]

\* mapError, for the errors an execution request can meet.
MapError(e) ==
    CASE e \in {"ErrInvalid", "ErrInvalidExecutionRequest"} -> Public(400, FALSE)
      [] e \in {"ErrNotFound", "ErrExecutionNotFound"} -> Public(404, FALSE)
      [] e = "ErrSandboxNotRunning" -> Public(409, TRUE)
      [] e = "ErrExecutionLimitReached" -> Public(429, TRUE)
      [] e \in {"ErrShellNotFound", "ErrInvalidCWD"} -> Public(422, FALSE)
      [] e = "ErrRunnerUnhealthy" -> Public(503, TRUE)
      [] e = "ErrRunnerProtocolMismatch" -> Public(503, FALSE)
      [] OTHER -> Public(500, TRUE)

\* ExecutionService.Execute: the error, or OK.  The gate is the admission gate of a sandbox
\* with outbound network; for the others it is open.
Execute(q, s) ==
    LET answer == RunnerAnswer(q, s)
    IN  IF RunningClient(s) # OK THEN RunningClient(s)
        ELSE IF s.gate = "closed" THEN "ErrRunnerUnhealthy"
        ELSE IF EnsureHealthy(s) # OK THEN MapRunnerClientError(EnsureHealthy(s))
        ELSE IF answer.code # OK THEN MapRunnerClientError(MapRunnerStatusError(answer))
        ELSE OK

\* executeSandboxHandler up to the first byte of a stream or descriptor.
ExecuteHandler(q, s) ==
    LET result == Execute(q, s)
    IN  IF ~DecodeExecutionRequest(q) THEN MapError("ErrInvalidExecutionRequest")
        ELSE IF ~AcceptsExecutionMediaType(q) THEN MapError("ErrInvalidExecutionRequest")
        ELSE IF result # OK THEN MapError(result)
        ELSE Public(IF q.background THEN 202 ELSE 200, FALSE)

Accepted(answer) == answer.status \in {200, 202}

-----------------------------------------------------------------------------
\* What can change about a sandbox between two attempts: anything, except that a sandbox
\* that is absent, deleting or terminated never runs again, and that its runner speaks the
\* version it was built with.  The shells of the image are out of reach of the sandbox's
\* unprivileged user, so a request that found none never will.
Later(s) ==
    {t \in Situations :
        /\ t.protocol = s.protocol
        /\ s.row \in {"absent", "deleting", "terminated"} => t.row = s.row}

MaySucceedLater(q, s) == \E t \in Later(s) : Accepted(ExecuteHandler(q, t))
=============================================================================
