---------------------------- MODULE StreamProofs ----------------------------
(***************************************************************************)
(* Proofs about what the caller of an execution sees, for any sizes of     *)
(* chunks, pages and buffers, any limit of the output and any request.     *)
(*                                                                         *)
(* Every buffer on the way from the EventStore to the caller (the batch of *)
(* the loop that reads it, the log file, the two connections, the page,    *)
(* and what the caller has) is a segment of the store that starts where    *)
(* its reader is.  A store that only grows, and not after its terminal     *)
(* event, keeps a segment a segment, so each step has to show it for the   *)
(* one buffer that it changes.  A caller that is told the run is complete  *)
(* has been given the terminal event, and that is the store's last.        *)
(*                                                                         *)
(* The output adds up because the sum of the bytes in the store is the     *)
(* smaller of what was taken from the pipe and the limit, and the one      *)
(* announcement of the limit comes after all the output.                   *)
(*                                                                         *)
(* After them, proofs about the registry of all executions.                *)
(***************************************************************************)
EXTENDS Stream, ExecutionManager, SequenceTheorems, FiniteSetTheorems, WellFoundedInduction, TLAPS

(* Types. *)

\* The sets that the state is made of.
Events == [seq : Nat, type : {"started", "output", "limit", "terminal"}, bytes : Nat,
           truncated : BOOLEAN]
Servers == [kind : {"none", "stream", "log"}, cursor : Nat, batch : Seq(Events),
            pc : {"none", "snapshot", "batch", "await", "failed", "done"},
            terminal : BOOLEAN, version : Nat]
Connections == [frames : Seq(Events), ended : BOOLEAN, broken : BOOLEAN]
Pages == [kind : {"none", "page", "invalidCursor", "corrupt"}, events : Seq(Events), next : Nat,
          complete : BOOLEAN]
Answers == {<<>>} \cup {<<q, s, ExecuteHandler(q, s)>> : q \in Requests, s \in Situations}
ClientPC == {"asking", "refused", "wait", "reading", "gone", "error", "complete", "logs", "page"}

Outputs == [bytes : Nat, truncated : BOOLEAN, announced : BOOLEAN]
Files == [lines : Seq(Events), partial : BOOLEAN, gone : BOOLEAN]
Relays == [pc : {"idle", "relaying", "ended"}, expected : Nat \ {0}, terminal : BOOLEAN]
Clients == [pc : ClientPC, got : Seq(Events), cursor : Nat, page : Pages, asked : Answers]

StreamTypeOK ==
    /\ process \in {"none", "running", "held", "ended", "reaped"}
    /\ pipe \in {<<>>} \cup {<<n>> : n \in ChunkSizes}
    /\ emitted \in Nat /\ reads \in Nat /\ version \in Nat
    /\ runner \in {"alive", "dead"}
    /\ events \in Seq(Events)
    /\ output \in Outputs
    /\ server \in Servers
    /\ file \in Files
    /\ up \in Connections /\ down \in Connections
    /\ relay \in Relays
    /\ client \in Clients

(* The store. *)

\* s holds the events of evs from number k + 1 on, as many as it has.
Segment(s, k, evs) == k + Len(s) <= Len(evs) /\ \A i \in 1 .. Len(s) : s[i] = evs[k + i]

\* An event has its place in the store for its number, and the terminal one is the last, after
\* the process was reaped.
StoreInv ==
    /\ \A i \in 1 .. Len(events) :
          events[i].seq = i /\ (IsTerminal(events[i]) => i = Len(events) /\ process = "reaped")
    /\ process = "reaped" => pipe = <<>>

\* There is nothing before the request is accepted.
FreshInv ==
    client.pc \in {"asking", "refused"} =>
       /\ process = "none" /\ events = <<>> /\ pipe = <<>> /\ emitted = 0
       /\ output.bytes = 0 /\ ~output.announced /\ ~output.truncated
       /\ server.pc = "none" /\ server.kind = "none" /\ server.cursor = 0 /\ server.batch = <<>>
       /\ up.frames = <<>> /\ down.frames = <<>> /\ relay.expected = 1 /\ relay.pc = "idle"
       /\ client.got = <<>> /\ client.cursor = 0

(* The readers. *)

\* The loop over the store holds what follows its cursor, and the log file what precedes it.
ServerInv ==
    /\ server.cursor <= Len(events) /\ Segment(server.batch, server.cursor, events)
    /\ Segment(file.lines, 0, events)
    /\ Len(file.lines) = IF Background THEN server.cursor ELSE 0

\* What is on the first connection follows what sandboxd has relayed; if it is not broken, it
\* reaches up to the cursor of the runner's loop.
WireInv ==
    relay.pc = "relaying" =>
       /\ Foreground /\ Segment(up.frames, relay.expected - 1, events)
       /\ ~up.broken => relay.expected - 1 + Len(up.frames) = server.cursor

\* What the caller has is the beginning of the run.  What is on its connection or page follows
\* it, and the page that says it is the last one ends with the run.
CallerInv ==
    /\ Segment(client.got, 0, events)
    /\ client.pc = "reading" =>
          /\ Segment(down.frames, Len(client.got), events)
          /\ relay.pc = "relaying" /\ ~down.broken
                => Len(client.got) + Len(down.frames) = relay.expected - 1
    /\ client.pc \in {"wait", "logs", "page"} => client.cursor = Len(client.got)
    /\ client.pc = "page" =>
          /\ Segment(client.page.events, Len(client.got), events)
          /\ client.page.next = Len(client.got) + Len(client.page.events)
          /\ client.page.complete => client.page.next = Len(events) /\ Finished(events)
    /\ client.pc = "complete" => Len(client.got) = Len(events) /\ Finished(events)

\* A refused caller has the answer that its request and the situation give.
RefusalInv ==
    client.pc = "refused" =>
       \E q \in Requests, s \in Situations :
          ~Accepted(ExecuteHandler(q, s)) /\ client.asked = <<q, s, ExecuteHandler(q, s)>>

(* The output. *)

\* The bytes that have been handed to AppendOutput.
Stored == emitted - (IF pipe = <<>> THEN 0 ELSE Head(pipe))

\* The store has what was handed to it up to the limit, and announces the rest once, after all
\* the output.
OutputInv ==
    /\ Stored \in Nat
    /\ output.bytes = IF Stored > MaxOutputBytes THEN MaxOutputBytes ELSE Stored
    /\ output.truncated <=> Stored > MaxOutputBytes
    /\ output.announced <=> Stored > MaxOutputBytes
    /\ Bytes(events) = output.bytes
    /\ ~output.announced => \A i \in 1 .. Len(events) : events[i].type # "limit"
    /\ output.announced =>
          \E k \in 1 .. Len(events) :
             /\ events[k].type = "limit"
             /\ \A i \in 1 .. Len(events) : /\ events[i].type = "limit" => i = k
                                            /\ events[i].type = "output" => i < k
    /\ Finished(events) => (Last(events).truncated <=> output.truncated)

StreamInv ==
    /\ StreamTypeOK /\ StoreInv /\ FreshInv /\ ServerInv /\ WireInv /\ CallerInv /\ RefusalInv
    /\ OutputInv

-----------------------------------------------------------------------------
(* Sums of bytes.  A recursive function is known by its defining equation  *)
(* only once a function that satisfies it is shown to exist; both that and *)
(* its uniqueness go by the least counterexample.                          *)

\* Numbers are well-founded.
LEMMA LeastNumber ==
    ASSUME NEW T \in SUBSET Nat, T # {}
    PROVE  \E x \in T : \A y \in T : x <= y
<1> DEFINE R == OpToRel(<, Nat)
<1>1. IsWellFoundedOn(R, Nat)
  BY NatLessThanWellFounded
<1>2. \A x, y \in Nat : x < y => <<x, y>> \in R
  BY DEF OpToRel
<1> HIDE DEF R
<1>3. PICK x \in T : \A y \in T : ~(<<y, x>> \in R)
  BY <1>1, WFMin
<1>4. ASSUME NEW y \in T PROVE x <= y
  <2>1. ~(y < x)
    BY <1>2, <1>3, Zenon
  <2>2. QED
    BY <2>1
<1>5. QED
  BY <1>4

\* f[n] is the sum of the first n events' bytes.
IsSum(f, s) == f = [n \in 0 .. Len(s) |-> IF n = 0 THEN 0 ELSE f[n - 1] + s[n].bytes]

\* The sum of a run of events is the last value of such a function.
LEMMA SumIsChosen ==
    ASSUME NEW s \in Seq(Events), NEW f, IsSum(f, s), \A g : IsSum(g, s) => g = f
    PROVE  Bytes(s) = f[Len(s)]
BY DEF Bytes, IsSum

\* There is at most one such function.
LEMMA SumIsUnique ==
    ASSUME NEW s \in Seq(Events), NEW f, NEW g, IsSum(f, s), IsSum(g, s)
    PROVE  f = g
<1> DEFINE T == {n \in 0 .. Len(s) : f[n] # g[n]}
<1>1. T \in SUBSET Nat
  OBVIOUS
<1>2. ASSUME T # {} PROVE FALSE
  <2>1. PICK n \in T : \A m \in T : n <= m
    BY <1>1, <1>2, LeastNumber
  <2>2. CASE n = 0
    BY <2>1, <2>2 DEF IsSum
  <2>3. CASE n # 0
    <3>1. n \in 0 .. Len(s) /\ n - 1 \in 0 .. Len(s) /\ ~(n <= n - 1)
      BY <2>1, <2>3
    <3>2. f[n - 1] = g[n - 1]
      BY <3>1, <2>1
    <3>3. f[n] = f[n - 1] + s[n].bytes /\ g[n] = g[n - 1] + s[n].bytes
      BY <3>1, <2>3 DEF IsSum
    <3>4. QED
      BY <3>2, <3>3, <2>1
  <2>4. QED
    BY <2>2, <2>3
<1>3. \A n \in 0 .. Len(s) : f[n] = g[n]
  BY <1>2
<1>4. f = [n \in 0 .. Len(s) |-> f[n]] /\ g = [n \in 0 .. Len(s) |-> g[n]]
  BY DEF IsSum
<1>5. QED
  BY <1>3, <1>4

\* There is one: that of one event less, with the last sum added.
LEMMA SumExists ==
    \A s \in Seq(Events) : \E f \in [0 .. Len(s) -> Nat] : IsSum(f, s)
<1> DEFINE Has(s) == \E f \in [0 .. Len(s) -> Nat] : IsSum(f, s)
           T == {n \in Nat : \E s \in Seq(Events) : Len(s) = n /\ ~Has(s)}
<1> SUFFICES T = {}
  <2>1. \A s \in Seq(Events) : Len(s) \in Nat /\ (~Has(s) => Len(s) \in T)
    OBVIOUS
  <2>2. QED
    BY <2>1
<1>1. ASSUME T # {} PROVE FALSE
  <2>1. PICK n \in T : \A m \in T : n <= m
    BY <1>1, LeastNumber
  <2>2. PICK s \in Seq(Events) : Len(s) = n /\ ~Has(s)
    OBVIOUS
  <2>3. CASE n = 0
    <3>1. IsSum([i \in 0 .. Len(s) |-> 0], s)
      BY <2>2, <2>3 DEF IsSum
    <3>2. QED
      BY <3>1, <2>2
  <2>4. CASE n # 0
    <3> DEFINE t == SubSeq(s, 1, n - 1)
    <3>1. t \in Seq(Events) /\ Len(t) = n - 1 /\ \A i \in 1 .. n - 1 : t[i] = s[i]
      BY <2>2, <2>4
    <3>2. n - 1 \in Nat /\ ~(n <= n - 1)
      BY <2>4
    <3>3. Has(t)
      <4>1. ~(n - 1 \in T)
        BY <3>2, <2>1
      <4>2. QED
        BY <4>1, <3>1, <3>2
    <3> HIDE DEF t
    <3>4. PICK f \in [0 .. Len(t) -> Nat] : IsSum(f, t)
      BY <3>3
    <3>5. s[n] \in Events /\ s[n].bytes \in Nat
      <4>1. s[n] \in Events
        BY <2>2, <2>4
      <4>2. QED
        BY <4>1 DEF Events
    <3> DEFINE g == [i \in 0 .. n |-> IF i = n THEN f[n - 1] + s[n].bytes ELSE f[i]]
    <3>6. g \in [0 .. n -> Nat]
      BY <3>1, <3>2, <3>4, <3>5
    <3>7. \A i \in 0 .. n : g[i] = IF i = 0 THEN 0 ELSE g[i - 1] + s[i].bytes
      <4>1. \A i \in 0 .. n - 1 : f[i] = IF i = 0 THEN 0 ELSE f[i - 1] + t[i].bytes
        BY <3>1, <3>4 DEF IsSum
      <4> TAKE i \in 0 .. n
      <4>2. CASE i = n
        BY <4>2, <3>2
      <4>3. CASE i # n /\ i = 0
        BY <4>3, <4>1, <3>2
      <4>4. CASE i # n /\ i # 0
        <5>1. /\ i \in 0 .. n - 1 /\ i \in 1 .. n - 1 /\ i - 1 \in 0 .. n /\ i - 1 # n
              /\ i \in 0 .. n
          BY <4>4, <3>2
        <5>2. g[i] = f[i] /\ g[i - 1] = f[i - 1] /\ t[i] = s[i]
          BY <5>1, <4>4, <3>1
        <5> HIDE DEF g
        <5>3. QED
          BY <5>1, <5>2, <4>1, <4>4
      <4>5. QED
        BY <4>2, <4>3, <4>4
    <3> HIDE DEF g
    <3>8. IsSum(g, s)
      BY <3>6, <3>7, <2>2 DEF IsSum
    <3>9. QED
      BY <3>6, <3>8, <2>2
  <2>5. QED
    BY <2>3, <2>4
<1>2. QED
  BY <1>1

\* The sum of the bytes of a run of events, one event at a time.
LEMMA BytesProperties ==
    /\ Bytes(<<>>) = 0
    /\ \A s \in Seq(Events) : Bytes(s) \in Nat
    /\ \A s \in Seq(Events), e \in Events : Bytes(Append(s, e)) = Bytes(s) + e.bytes
<1>1. ASSUME NEW s \in Seq(Events)
      PROVE  \E f \in [0 .. Len(s) -> Nat] : IsSum(f, s) /\ Bytes(s) = f[Len(s)]
  <2>1. PICK f \in [0 .. Len(s) -> Nat] : IsSum(f, s)
    BY SumExists
  <2>2. ASSUME NEW g, IsSum(g, s) PROVE g = f
    BY <2>1, <2>2, SumIsUnique
  <2>3. Bytes(s) = f[Len(s)]
    BY <2>1, <2>2, SumIsChosen
  <2>4. QED
    BY <2>1, <2>3
<1>2. \A s \in Seq(Events) : Bytes(s) \in Nat
  <2> TAKE s \in Seq(Events)
  <2>1. PICK f \in [0 .. Len(s) -> Nat] : IsSum(f, s) /\ Bytes(s) = f[Len(s)]
    BY <1>1
  <2>2. QED
    BY <2>1
<1>3. Bytes(<<>>) = 0
  <2>0. <<>> \in Seq(Events) /\ Len(<<>>) = 0
    OBVIOUS
  <2>1. PICK f \in [0 .. 0 -> Nat] : IsSum(f, <<>>) /\ Bytes(<<>>) = f[0]
    BY <1>1, <2>0
  <2>2. f[0] = 0
    BY <2>1, <2>0 DEF IsSum
  <2>3. QED
    BY <2>1, <2>2
<1>4. ASSUME NEW s \in Seq(Events), NEW e \in Events
      PROVE  Bytes(Append(s, e)) = Bytes(s) + e.bytes
  <2>1. PICK f \in [0 .. Len(s) -> Nat] : IsSum(f, s) /\ Bytes(s) = f[Len(s)]
    BY <1>1
  <2> DEFINE t == Append(s, e)
             n == Len(s)
  <2>2. /\ t \in Seq(Events) /\ Len(t) = n + 1 /\ n \in Nat
        /\ \A i \in 1 .. n : t[i] = s[i]
        /\ t[n + 1] = e
    OBVIOUS
  <2> HIDE DEF t, n
  <2>3. PICK g \in [0 .. Len(t) -> Nat] : IsSum(g, t) /\ Bytes(t) = g[Len(t)]
    BY <1>1, <2>2
  <2>4. \A i \in 0 .. n + 1 : g[i] = IF i = 0 THEN 0 ELSE g[i - 1] + t[i].bytes
    BY <2>2, <2>3 DEF IsSum
  <2> DEFINE h == [i \in 0 .. n |-> g[i]]
  <2>5. \A i \in 0 .. n : h[i] = IF i = 0 THEN 0 ELSE h[i - 1] + s[i].bytes
    <3> TAKE i \in 0 .. n
    <3>1. CASE i = 0
      BY <3>1, <2>4, <2>2
    <3>2. CASE i # 0
      <4>1. i \in 0 .. n + 1 /\ i - 1 \in 0 .. n /\ t[i] = s[i]
        BY <3>2, <2>2
      <4>2. QED
        BY <4>1, <3>2, <2>4
    <3>3. QED
      BY <3>1, <3>2
  <2>6. IsSum(h, s)
    <3>1. h = [i \in 0 .. n |-> h[i]]
      OBVIOUS
    <3> HIDE DEF h
    <3>2. QED
      BY <3>1, <2>5 DEF IsSum, n
  <2>7. h[n] = g[n] /\ n \in 0 .. n + 1 /\ n + 1 \in 0 .. n + 1 /\ n + 1 # 0 /\ n + 1 - 1 = n
    BY <2>2
  <2> HIDE DEF h
  <2>8. h = f
    BY <2>1, <2>6, SumIsUnique
  <2>9. g[n + 1] = g[n] + e.bytes
    BY <2>4, <2>7, <2>2
  <2>10. Bytes(t) = f[n] + e.bytes
    BY <2>3, <2>2, <2>7, <2>8, <2>9
  <2>11. QED
    BY <2>1, <2>10 DEF t, n
<1>5. QED
  BY <1>2, <1>3, <1>4

-----------------------------------------------------------------------------
(* The request. *)

\* What is wrong with the request itself, whoever looks at it.
Hopeless(q) ==
    \/ ~DecodeExecutionRequest(q) \/ ~AcceptsExecutionMediaType(q) \/ ~RunnerValidates(q)
    \/ q.cwd \notin {"root", "inside"} \/ ~BuildEnvironment(q)
    \/ q.command = "noShellInImage"

\* The directory that it names is not there now.
NoDirectory(q, s) == q.cwd = "inside" /\ s.directory # "there"

\* The two kinds of public refusals.
ForGood(status) == Public(status, FALSE)
ForNow(status) == Public(status, TRUE)

\* The status of every error of the service.
LEMMA MapErrorValues ==
    /\ MapError("ErrInvalidExecutionRequest") = ForGood(400)
    /\ MapError("ErrNotFound") = ForGood(404)
    /\ MapError("ErrExecutionNotFound") = ForGood(404)
    /\ MapError("ErrSandboxNotRunning") = ForNow(409)
    /\ MapError("ErrExecutionLimitReached") = ForNow(429)
    /\ MapError("ErrShellNotFound") = ForGood(422)
    /\ MapError("ErrInvalidCWD") = ForGood(422)
    /\ MapError("ErrRunnerUnhealthy") = ForNow(503)
    /\ MapError("ErrOther") = ForNow(500)
BY DEF MapError, ForGood, ForNow

\* The answers of the launcher, by what it ran into.
LEMMA LaunchCases ==
    ASSUME NEW q, NEW s
    PROVE  \/ LaunchAnswer(q, s) = Status(422, "INVALID_CWD") /\ ~ValidateCWD(q, s)
           \/ /\ LaunchAnswer(q, s) = Status(422, "INVALID_EXECUTION_REQUEST")
              /\ ~BuildEnvironment(q)
           \/ LaunchAnswer(q, s) = Status(422, "SHELL_NOT_FOUND") /\ q.command = "noShellInImage"
           \/ LaunchAnswer(q, s) = Status(503, "RUNNER_SHUTTING_DOWN") /\ s.runner = "shuttingDown"
           \/ LaunchAnswer(q, s) = Status(429, "EXECUTION_LIMIT_REACHED") /\ s.runner = "full"
           \/ LaunchAnswer(q, s) = Status(500, "INTERNAL_ERROR") /\ s.runner = "failing"
           \/ LaunchAnswer(q, s) = Status(422, "EXECUTION_START_FAILED") /\ s.start = "fails"
           \/ /\ LaunchAnswer(q, s) = Status(IF q.background THEN 202 ELSE 200, OK)
              /\ ValidateCWD(q, s) /\ BuildEnvironment(q) /\ q.command # "noShellInImage"
BY DEF LaunchAnswer

\* The error for every status of the runner.
LEMMA StatusErrorValues ==
    /\ MapRunnerStatusError(Status(422, "INVALID_CWD")) = "ErrInvalidCWD"
    /\ MapRunnerStatusError(Status(422, "SHELL_NOT_FOUND")) = "ErrShellNotFound"
    /\ MapRunnerStatusError(Status(429, "EXECUTION_LIMIT_REACHED")) = "ErrExecutionLimitReached"
    /\ MapRunnerStatusError(Status(422, "INVALID_EXECUTION_REQUEST"))
          = "ErrInvalidExecutionRequest"
    /\ MapRunnerStatusError(Status(422, "EXECUTION_START_FAILED"))
          = "ErrInvalidExecutionRequest"
    /\ MapRunnerStatusError(Status(503, "RUNNER_SHUTTING_DOWN")) = "ErrRunnerUnhealthy"
    /\ MapRunnerStatusError(Status(500, "INTERNAL_ERROR")) = "ErrRunnerUnhealthy"
<1>1. \A m, c : Status(m, c).code = c /\ Status(m, c).status = m
  BY DEF Status
<1>2. MapRunnerStatusError(Status(422, "INVALID_CWD")) = "ErrInvalidCWD"
  BY <1>1 DEF MapRunnerStatusError
<1>3. MapRunnerStatusError(Status(422, "SHELL_NOT_FOUND")) = "ErrShellNotFound"
  BY <1>1 DEF MapRunnerStatusError
<1>4. MapRunnerStatusError(Status(429, "EXECUTION_LIMIT_REACHED")) = "ErrExecutionLimitReached"
  BY <1>1 DEF MapRunnerStatusError
<1>5. MapRunnerStatusError(Status(422, "INVALID_EXECUTION_REQUEST")) = "ErrInvalidExecutionRequest"
  BY <1>1 DEF MapRunnerStatusError
<1>6. MapRunnerStatusError(Status(422, "EXECUTION_START_FAILED")) = "ErrInvalidExecutionRequest"
  BY <1>1 DEF MapRunnerStatusError
<1>7. MapRunnerStatusError(Status(503, "RUNNER_SHUTTING_DOWN")) = "ErrRunnerUnhealthy"
  BY <1>1 DEF MapRunnerStatusError
<1>8. MapRunnerStatusError(Status(500, "INTERNAL_ERROR")) = "ErrRunnerUnhealthy"
  BY <1>1 DEF MapRunnerStatusError
<1>9. QED
  BY <1>2, <1>3, <1>4, <1>5, <1>6, <1>7, <1>8

\* A runner's answer, as the error the API is handed: for the request's own faults one
\* that is final, for the runner's state one that is not.
Final == {"ErrInvalidExecutionRequest", "ErrShellNotFound", "ErrInvalidCWD"}
Passing == {"ErrExecutionLimitReached", "ErrRunnerUnhealthy"}

\* Why the runner refuses with an error that the API calls final: for the request's own
\* fault, for a directory that is not there, or for a process that does not start.
Blames(e, q, s) ==
    \/ e \in Final /\ Hopeless(q)
    \/ e = "ErrInvalidCWD" /\ NoDirectory(q, s)
    \/ e = "ErrInvalidExecutionRequest" /\ s.start = "fails"

\* What the API is handed of the runner's answer.
LEMMA RunnerCases ==
    ASSUME NEW q, NEW s
    PROVE  LET e == MapRunnerClientError(MapRunnerStatusError(RunnerAnswer(q, s)))
               code == RunnerAnswer(q, s).code
           IN  \/ code # OK /\ Blames(e, q, s)
               \/ code # OK /\ e \in Passing /\ s.runner \in {"shuttingDown", "full", "failing"}
               \/ /\ code = OK /\ RunnerValidates(q) /\ ValidateCWD(q, s) /\ BuildEnvironment(q)
                  /\ q.command # "noShellInImage"
<1>1. \A m, c : Status(m, c).code = c /\ Status(m, c).status = m
  BY DEF Status
<1>2. /\ \A e \in Final \cup {"ErrExecutionLimitReached"} : MapRunnerClientError(e) = e
      /\ MapRunnerClientError("ErrRunnerUnhealthy") = "ErrRunnerUnhealthy"
  BY DEF MapRunnerClientError, Final
<1>3. /\ "INVALID_CWD" # OK /\ "INVALID_EXECUTION_REQUEST" # OK /\ "SHELL_NOT_FOUND" # OK
      /\ "RUNNER_SHUTTING_DOWN" # OK /\ "EXECUTION_LIMIT_REACHED" # OK /\ "INTERNAL_ERROR" # OK
      /\ "EXECUTION_START_FAILED" # OK
  BY DEF OK
<1> DEFINE Maps(e) == MapRunnerClientError(MapRunnerStatusError(RunnerAnswer(q, s))) = e
<1>4. CASE ~RunnerValidates(q)
  <2>1. RunnerAnswer(q, s) = Status(422, "INVALID_EXECUTION_REQUEST")
    BY <1>4 DEF RunnerAnswer
  <2>2. Maps("ErrInvalidExecutionRequest")
    BY <2>1, <1>2, StatusErrorValues DEF Final
  <2>3. QED
    BY <2>1, <2>2, <1>1, <1>3, <1>4 DEF Blames, Hopeless, Final
<1>5. CASE RunnerValidates(q)
  <2>1. RunnerAnswer(q, s) = LaunchAnswer(q, s)
    BY <1>5 DEF RunnerAnswer
  <2>2. CASE LaunchAnswer(q, s) = Status(422, "INVALID_CWD") /\ ~ValidateCWD(q, s)
    <3>1. Maps("ErrInvalidCWD")
      BY <2>1, <2>2, <1>2, StatusErrorValues DEF Final
    <3>2. Hopeless(q) \/ NoDirectory(q, s)
      BY <2>2 DEF ValidateCWD, Hopeless, NoDirectory
    <3>3. QED
      BY <3>1, <3>2, <2>1, <2>2, <1>1, <1>3 DEF Blames, Final
  <2>3. CASE /\ LaunchAnswer(q, s) = Status(422, "INVALID_EXECUTION_REQUEST")
             /\ ~BuildEnvironment(q)
    <3>1. Maps("ErrInvalidExecutionRequest")
      BY <2>1, <2>3, <1>2, StatusErrorValues DEF Final
    <3>2. QED
      BY <3>1, <2>1, <2>3, <1>1, <1>3 DEF Blames, Hopeless, Final
  <2>4. CASE LaunchAnswer(q, s) = Status(422, "SHELL_NOT_FOUND") /\ q.command = "noShellInImage"
    <3>1. Maps("ErrShellNotFound")
      BY <2>1, <2>4, <1>2, StatusErrorValues DEF Final
    <3>2. QED
      BY <3>1, <2>1, <2>4, <1>1, <1>3 DEF Blames, Hopeless, Final
  <2>5. CASE LaunchAnswer(q, s) = Status(503, "RUNNER_SHUTTING_DOWN") /\ s.runner = "shuttingDown"
    <3>1. Maps("ErrRunnerUnhealthy")
      BY <2>1, <2>5, <1>2, StatusErrorValues DEF Final
    <3>2. QED
      BY <3>1, <2>1, <2>5, <1>1, <1>3 DEF Passing
  <2>6. CASE LaunchAnswer(q, s) = Status(429, "EXECUTION_LIMIT_REACHED") /\ s.runner = "full"
    <3>1. Maps("ErrExecutionLimitReached")
      BY <2>1, <2>6, <1>2, StatusErrorValues DEF Final
    <3>2. QED
      BY <3>1, <2>1, <2>6, <1>1, <1>3 DEF Passing
  <2>7. CASE LaunchAnswer(q, s) = Status(500, "INTERNAL_ERROR") /\ s.runner = "failing"
    <3>1. Maps("ErrRunnerUnhealthy")
      BY <2>1, <2>7, <1>2, StatusErrorValues DEF Final
    <3>2. QED
      BY <3>1, <2>1, <2>7, <1>1, <1>3 DEF Passing
  <2>8. CASE LaunchAnswer(q, s) = Status(422, "EXECUTION_START_FAILED") /\ s.start = "fails"
    <3>1. Maps("ErrInvalidExecutionRequest")
      BY <2>1, <2>8, <1>2, StatusErrorValues DEF Final
    <3>2. QED
      BY <3>1, <2>1, <2>8, <1>1, <1>3 DEF Blames, Hopeless, Final
  <2>9. CASE /\ LaunchAnswer(q, s) = Status(IF q.background THEN 202 ELSE 200, OK)
             /\ ValidateCWD(q, s) /\ BuildEnvironment(q) /\ q.command # "noShellInImage"
    BY <2>1, <2>9, <1>1, <1>5
  <2>10. QED
    BY <2>2, <2>3, <2>4, <2>5, <2>6, <2>7, <2>8, <2>9, LaunchCases
<1>6. QED
  BY <1>4, <1>5

\* What it is handed when the runner is not asked at all.
LEMMA HealthCases ==
    ASSUME NEW s
    PROVE  \/ EnsureHealthy(s) = OK /\ s.protocol # "other"
              /\ s.runner \notin {"unreachable", "refusesToken"}
           \/ /\ EnsureHealthy(s) # OK
              /\ MapRunnerClientError(EnsureHealthy(s)) = "ErrRunnerUnhealthy"
              /\ s.protocol = "other" \/ s.runner \in {"unreachable", "refusesToken"}
<1>1. /\ MapRunnerClientError("ConnectionError") = "ErrRunnerUnhealthy"
      /\ MapRunnerClientError("AuthenticationError") = "ErrRunnerUnhealthy"
      /\ MapRunnerClientError("ProtocolMismatchError") = "ErrRunnerUnhealthy"
  BY DEF MapRunnerClientError
<1>2. "ConnectionError" # OK /\ "AuthenticationError" # OK /\ "ProtocolMismatchError" # OK
  BY DEF OK
<1>3. \/ EnsureHealthy(s) = "ConnectionError" /\ s.runner = "unreachable"
      \/ EnsureHealthy(s) = "AuthenticationError" /\ s.runner = "refusesToken"
      \/ EnsureHealthy(s) = "ProtocolMismatchError" /\ s.protocol = "other"
      \/ /\ EnsureHealthy(s) = OK /\ s.protocol # "other"
         /\ s.runner # "unreachable" /\ s.runner # "refusesToken"
  BY DEF EnsureHealthy
<1>4. QED
  BY <1>1, <1>2, <1>3

\* Execute fails for good only for an absent sandbox or for what the runner blames.
LEMMA ExecuteCases ==
    ASSUME NEW q, NEW s
    PROVE  \/ Execute(q, s) = "ErrOther" /\ s.store = "failing"
           \/ Execute(q, s) = "ErrNotFound" /\ s.row = "absent"
           \/ Execute(q, s) = "ErrSandboxNotRunning" /\ s.row # "absent" /\ s.row # "running"
           \/ /\ Execute(q, s) \in Passing /\ s.row = "running"
              /\ \/ s.gate = "closed" \/ s.protocol = "other"
                 \/ s.runner \in {"unreachable", "refusesToken", "shuttingDown", "full", "failing"}
           \/ s.row = "running" /\ Blames(Execute(q, s), q, s)
           \/ /\ Execute(q, s) = OK /\ s.row = "running" /\ RunnerValidates(q)
              /\ ValidateCWD(q, s) /\ BuildEnvironment(q)
              /\ q.command # "noShellInImage"
<1>1. "ErrOther" # OK /\ "ErrNotFound" # OK /\ "ErrSandboxNotRunning" # OK
  BY DEF OK
<1>2. \/ RunningClient(s) = "ErrOther" /\ s.store = "failing"
      \/ RunningClient(s) = "ErrNotFound" /\ s.row = "absent"
      \/ RunningClient(s) = "ErrSandboxNotRunning" /\ s.row # "absent" /\ s.row # "running"
      \/ RunningClient(s) = OK /\ s.row = "running"
  BY DEF RunningClient
<1>3. \/ RunningClient(s) # OK /\ Execute(q, s) = RunningClient(s)
      \/ RunningClient(s) = OK /\ s.gate = "closed" /\ Execute(q, s) = "ErrRunnerUnhealthy"
      \/ /\ RunningClient(s) = OK /\ EnsureHealthy(s) # OK
         /\ Execute(q, s) = MapRunnerClientError(EnsureHealthy(s))
      \/ /\ RunningClient(s) = OK /\ EnsureHealthy(s) = OK /\ RunnerAnswer(q, s).code # OK
         /\ Execute(q, s) = MapRunnerClientError(MapRunnerStatusError(RunnerAnswer(q, s)))
      \/ /\ RunningClient(s) = OK /\ EnsureHealthy(s) = OK /\ RunnerAnswer(q, s).code = OK
         /\ Execute(q, s) = OK
  <2>1. CASE RunningClient(s) # OK
    BY <2>1 DEF Execute
  <2>2. CASE RunningClient(s) = OK /\ s.gate = "closed"
    BY <2>2 DEF Execute
  <2>3. CASE RunningClient(s) = OK /\ s.gate # "closed" /\ EnsureHealthy(s) # OK
    BY <2>3 DEF Execute
  <2>4. CASE /\ RunningClient(s) = OK /\ s.gate # "closed" /\ EnsureHealthy(s) = OK
             /\ RunnerAnswer(q, s).code # OK
    BY <2>4 DEF Execute
  <2>5. CASE /\ RunningClient(s) = OK /\ s.gate # "closed" /\ EnsureHealthy(s) = OK
             /\ RunnerAnswer(q, s).code = OK
    BY <2>5 DEF Execute
  <2>6. QED
    BY <2>1, <2>2, <2>3, <2>4, <2>5
<1>4. CASE RunningClient(s) # OK /\ Execute(q, s) = RunningClient(s)
  BY <1>4, <1>2
<1>5. CASE /\ RunningClient(s) = OK /\ EnsureHealthy(s) # OK
           /\ Execute(q, s) = MapRunnerClientError(EnsureHealthy(s))
  BY <1>5, <1>1, <1>2, HealthCases DEF Passing
<1>6. CASE /\ RunningClient(s) = OK /\ EnsureHealthy(s) = OK /\ RunnerAnswer(q, s).code # OK
           /\ Execute(q, s) = MapRunnerClientError(MapRunnerStatusError(RunnerAnswer(q, s)))
  BY <1>6, <1>1, <1>2, RunnerCases
<1>7. CASE /\ RunningClient(s) = OK /\ EnsureHealthy(s) = OK /\ RunnerAnswer(q, s).code = OK
           /\ Execute(q, s) = OK
  BY <1>7, <1>1, <1>2, RunnerCases
<1>8. CASE RunningClient(s) = OK /\ s.gate = "closed" /\ Execute(q, s) = "ErrRunnerUnhealthy"
  BY <1>8, <1>1, <1>2 DEF Passing
<1>9. QED
  BY <1>3, <1>4, <1>5, <1>6, <1>7, <1>8

\* A public answer is accepted, final or passing.
LEMMA PublicValues ==
    /\ \A n : ForGood(n).status = n /\ ~ForGood(n).retryable
    /\ \A n : ForNow(n).status = n /\ ForNow(n).retryable
    /\ \A n \in {400, 404, 422, 409, 429, 500, 503} : ~Accepted(ForGood(n)) /\ ~Accepted(ForNow(n))
<1>1. \A n : ForGood(n).status = n /\ ForNow(n).status = n
  BY DEF Public, ForGood, ForNow
<1>2. \A n : ~ForGood(n).retryable /\ ForNow(n).retryable
  BY Zenon DEF Public, ForGood, ForNow
<1>3. \A n \in {400, 404, 422, 409, 429, 500, 503} : ~Accepted(ForGood(n)) /\ ~Accepted(ForNow(n))
  BY <1>1 DEF Accepted
<1>4. QED
  BY <1>1, <1>2, <1>3

\* The answers of the handler, by what the request and the situation are.
LEMMA HandlerCases ==
    ASSUME NEW q, NEW s
    PROVE  LET a == ExecuteHandler(q, s)
           IN  \/ /\ ~a.retryable /\ ~Accepted(a)
                  /\ \/ Hopeless(q) \/ s.row = "absent"
                     \/ a.status = 422 /\ NoDirectory(q, s)
                     \/ a.status = 400 /\ s.start = "fails"
               \/ /\ a.retryable /\ ~Accepted(a)
                  /\ \/ s.store = "failing" \/ s.row # "running" \/ s.gate = "closed"
                     \/ s.protocol = "other"
                     \/ s.runner \in {"unreachable", "refusesToken", "shuttingDown", "full",
                                      "failing"}
               \/ Accepted(a) /\ ~Hopeless(q) /\ s.row = "running"
<1> DEFINE a == ExecuteHandler(q, s)
<1>1. CASE ~DecodeExecutionRequest(q) \/ ~AcceptsExecutionMediaType(q)
  <2>1. a = ForGood(400)
    BY <1>1, MapErrorValues DEF ExecuteHandler, ForGood
  <2>2. QED
    BY <2>1, PublicValues, <1>1 DEF Hopeless
<1>2. CASE DecodeExecutionRequest(q) /\ AcceptsExecutionMediaType(q)
  <2>1. a = IF Execute(q, s) # OK THEN MapError(Execute(q, s))
            ELSE ForGood(IF q.background THEN 202 ELSE 200)
    BY <1>2 DEF ExecuteHandler, ForGood
  <2> HIDE DEF a
  <2>2. \A e \in Final \cup Passing \cup {"ErrOther", "ErrNotFound", "ErrSandboxNotRunning"} :
          e # OK
    BY DEF Final, Passing, OK
  <2>3. CASE Execute(q, s) = "ErrNotFound" /\ s.row = "absent"
    <3>1. a = ForGood(404)
      BY <2>1, <2>2, <2>3, MapErrorValues
    <3>2. QED
      BY <3>1, <2>3, PublicValues DEF a
  <2>4. CASE Execute(q, s) = "ErrSandboxNotRunning" /\ s.row # "absent" /\ s.row # "running"
    <3>1. a = ForNow(409)
      BY <2>1, <2>2, <2>4, MapErrorValues
    <3>2. QED
      BY <3>1, <2>4, PublicValues DEF a
  <2>5. CASE /\ Execute(q, s) \in Passing /\ s.row = "running"
             /\ \/ s.gate = "closed" \/ s.protocol = "other"
                \/ s.runner \in {"unreachable", "refusesToken", "shuttingDown", "full", "failing"}
    <3>1. a \in {ForNow(429), ForNow(503)}
      BY <2>1, <2>2, <2>5, MapErrorValues DEF Passing
    <3>2. a.retryable /\ ~Accepted(a)
      BY <3>1, PublicValues
    <3>3. QED
      BY <3>2, <2>5 DEF a
  <2>6. CASE s.row = "running" /\ Blames(Execute(q, s), q, s)
    <3>1. Execute(q, s) \in Final
      BY <2>6 DEF Blames, Final
    <3>2. a \in {ForGood(400), ForGood(422)}
      BY <3>1, <2>1, <2>2, MapErrorValues DEF Final
    <3>3. ~a.retryable /\ ~Accepted(a)
      BY <3>2, PublicValues
    <3>4. Execute(q, s) = "ErrInvalidCWD" => a.status = 422
      BY <2>1, <2>2, <3>1, MapErrorValues, PublicValues
    <3>5. Execute(q, s) = "ErrInvalidExecutionRequest" => a.status = 400
      BY <2>1, <2>2, <3>1, MapErrorValues, PublicValues
    <3>6. QED
      BY <3>3, <3>4, <3>5, <2>6 DEF a, Blames
  <2>7. CASE /\ Execute(q, s) = OK /\ s.row = "running" /\ RunnerValidates(q)
             /\ ValidateCWD(q, s) /\ BuildEnvironment(q) /\ q.command # "noShellInImage"
    <3>1. Accepted(a)
      BY <2>1, <2>7, PublicValues DEF Accepted
    <3>2. ~Hopeless(q)
      BY <2>7, <1>2 DEF Hopeless, ValidateCWD
    <3>3. QED
      BY <3>1, <3>2, <2>7 DEF a
  <2>8. CASE Execute(q, s) = "ErrOther" /\ s.store = "failing"
    <3>1. a = ForNow(500)
      BY <2>1, <2>2, <2>8, MapErrorValues
    <3>2. QED
      BY <3>1, <2>8, PublicValues DEF a
  <2>9. QED
    BY <2>3, <2>4, <2>5, <2>6, <2>7, <2>8, ExecuteCases
<1>3. QED
  BY <1>1, <1>2

\* When an answer promises that asking again is no use, and when it may ask for a retry.
HonestAnswer(q, s, answer) ==
    /\ ~answer.retryable /\ MaySucceedLater(q, s) =>
          \/ answer.status = 422 /\ q.cwd = "inside" /\ s.directory = "missing"
          \/ answer.status = 400 /\ s.start = "fails"
    /\ (/\ s.store = "readable" /\ s.row = "running" /\ s.gate = "open"
        /\ s.protocol = "same" /\ s.runner = "ready") => ~answer.retryable

\* What the handler answers is honest about whether asking again can help, but for a
\* missing directory and a process that did not start, for every request and every
\* situation (executeSandboxHandler, ExecutionService.Execute, mapRunnerStatusError,
\* mapRunnerClientError, mapError).
LEMMA RefusalsAreFinal ==
    ASSUME NEW q \in Requests, NEW s \in Situations, ~Accepted(ExecuteHandler(q, s))
    PROVE  HonestAnswer(q, s, ExecuteHandler(q, s))
<1> DEFINE a == ExecuteHandler(q, s)
<1>1. ASSUME ~a.retryable, NEW t \in Later(s), Accepted(ExecuteHandler(q, t))
      PROVE  \/ a.status = 422 /\ q.cwd = "inside" /\ s.directory = "missing"
             \/ a.status = 400 /\ s.start = "fails"
  <2>1. ~Hopeless(q) /\ t.row = "running"
    BY <1>1, HandlerCases
  <2>2. s.row # "absent"
    BY <2>1 DEF Later
  <2>3. \/ a.status = 422 /\ NoDirectory(q, s)
        \/ a.status = 400 /\ s.start = "fails"
    BY <1>1, <2>1, <2>2, HandlerCases
  <2>4. s.directory \in {"there", "missing"}
    BY DEF Situations
  <2>5. QED
    BY <2>3, <2>4 DEF NoDirectory
<1>2. ASSUME s.store = "readable", s.row = "running", s.gate = "open", s.protocol = "same",
             s.runner = "ready"
      PROVE  ~a.retryable
  BY <1>2, HandlerCases
<1> HIDE DEF a
<1>3. QED
  BY <1>1, <1>2 DEF HonestAnswer, MaySucceedLater, a

-----------------------------------------------------------------------------
(* Segments. *)

\* more begins with evs.
Extends(more, evs) ==
    Len(evs) <= Len(more) /\ \A i \in 1 .. Len(evs) : more[i] = evs[i]

\* A segment of a store is one of a longer store.
LEMMA SegmentStays ==
    ASSUME NEW evs \in Seq(Events), NEW more \in Seq(Events), Extends(more, evs),
           NEW s \in Seq(Events), NEW k \in Nat, Segment(s, k, evs)
    PROVE  Segment(s, k, more)
<1>1. \A i \in 1 .. Len(s) : k + i \in 1 .. Len(evs)
  BY DEF Segment
<1>2. QED
  BY <1>1 DEF Segment, Extends

\* Taking its first event moves it on by one.
LEMMA SegmentHead ==
    ASSUME NEW evs \in Seq(Events), NEW s \in Seq(Events), NEW k \in Nat, Segment(s, k, evs),
           s # <<>>
    PROVE  /\ Head(s) = evs[k + 1] /\ Head(s) \in Events /\ k + 1 \in 1 .. Len(evs)
           /\ Tail(s) \in Seq(Events) /\ Len(Tail(s)) = Len(s) - 1
           /\ Segment(Tail(s), k + 1, evs)
<1>1. /\ Len(s) \in Nat \ {0} /\ Head(s) = s[1] /\ s[1] \in Events /\ Tail(s) \in Seq(Events)
      /\ Len(Tail(s)) = Len(s) - 1 /\ \A i \in 1 .. Len(s) - 1 : Tail(s)[i] = s[i + 1]
  OBVIOUS
<1>2. Len(evs) \in Nat
  OBVIOUS
<1>3. 1 \in 1 .. Len(s) /\ \A i \in 1 .. Len(s) - 1 : i + 1 \in 1 .. Len(s) /\ k + (i + 1) = (k + 1) + i
  BY <1>1
<1>4. s[1] = evs[k + 1] /\ \A i \in 1 .. Len(s) - 1 : Tail(s)[i] = evs[(k + 1) + i]
  BY <1>1, <1>3 DEF Segment
<1>5. k + 1 + (Len(s) - 1) <= Len(evs) /\ k + 1 \in 1 .. Len(evs)
  BY <1>1, <1>2 DEF Segment
<1>6. QED
  BY <1>1, <1>4, <1>5 DEF Segment

\* The event that follows it makes it longer.
LEMMA SegmentAppend ==
    ASSUME NEW evs \in Seq(Events), NEW s \in Seq(Events), NEW k \in Nat, Segment(s, k, evs),
           k + Len(s) < Len(evs), NEW e, e = evs[k + Len(s) + 1]
    PROVE  /\ Append(s, e) \in Seq(Events) /\ Len(Append(s, e)) = Len(s) + 1
           /\ Segment(Append(s, e), k, evs)
<1>1. Len(s) \in Nat /\ Len(evs) \in Nat
  OBVIOUS
<1>2. e \in Events
  BY <1>1
<1>3. /\ Append(s, e) \in Seq(Events) /\ Len(Append(s, e)) = Len(s) + 1
      /\ \A i \in 1 .. Len(s) : Append(s, e)[i] = s[i]
      /\ Append(s, e)[Len(s) + 1] = e
  BY <1>2
<1>4. ASSUME NEW i \in 1 .. Len(s) + 1 PROVE Append(s, e)[i] = evs[k + i]
  <2>1. CASE i = Len(s) + 1
    BY <2>1, <1>1, <1>3
  <2>2. CASE i \in 1 .. Len(s)
    BY <2>2, <1>3 DEF Segment
  <2>3. QED
    BY <2>1, <2>2, <1>1
<1>5. QED
  BY <1>1, <1>3, <1>4 DEF Segment

\* So does the segment that follows it.
LEMMA SegmentConcat ==
    ASSUME NEW evs \in Seq(Events), NEW s \in Seq(Events), NEW t \in Seq(Events), NEW k \in Nat,
           Segment(s, k, evs), Segment(t, k + Len(s), evs)
    PROVE  /\ s \o t \in Seq(Events) /\ Len(s \o t) = Len(s) + Len(t)
           /\ Segment(s \o t, k, evs)
<1>1. /\ Len(s) \in Nat /\ Len(t) \in Nat /\ Len(evs) \in Nat
      /\ s \o t \in Seq(Events) /\ Len(s \o t) = Len(s) + Len(t)
      /\ \A i \in 1 .. Len(s) + Len(t) : (s \o t)[i] = IF i <= Len(s) THEN s[i] ELSE t[i - Len(s)]
  OBVIOUS
<1>2. ASSUME NEW i \in 1 .. Len(s) + Len(t) PROVE (s \o t)[i] = evs[k + i]
  <2>1. CASE i <= Len(s)
    BY <2>1, <1>1 DEF Segment
  <2>2. CASE ~(i <= Len(s))
    <3>1. i - Len(s) \in 1 .. Len(t) /\ (k + Len(s)) + (i - Len(s)) = k + i
      BY <2>2, <1>1
    <3>2. QED
      BY <3>1, <2>2, <1>1 DEF Segment
  <2>3. QED
    BY <2>1, <2>2
<1>3. QED
  BY <1>1, <1>2 DEF Segment

\* The beginning of a segment is one.
LEMMA SegmentPrefix ==
    ASSUME NEW evs \in Seq(Events), NEW s \in Seq(Events), NEW k \in Nat, NEW n \in 0 .. Len(s),
           Segment(s, k, evs)
    PROVE  /\ SubSeq(s, 1, n) \in Seq(Events) /\ Len(SubSeq(s, 1, n)) = n
           /\ Segment(SubSeq(s, 1, n), k, evs)
<1>1. /\ Len(s) \in Nat /\ Len(evs) \in Nat
      /\ SubSeq(s, 1, n) \in Seq(Events) /\ Len(SubSeq(s, 1, n)) = n
      /\ \A i \in 1 .. n : SubSeq(s, 1, n)[i] = s[i]
  OBVIOUS
<1>2. \A i \in 1 .. n : i \in 1 .. Len(s)
  BY <1>1
<1>3. QED
  BY <1>1, <1>2 DEF Segment

\* What follows a position is a segment from it on.
LEMMA SegmentRest ==
    ASSUME NEW evs \in Seq(Events), NEW k \in Nat, k <= Len(evs)
    PROVE  /\ SubSeq(evs, k + 1, Len(evs)) \in Seq(Events)
           /\ Len(SubSeq(evs, k + 1, Len(evs))) = Len(evs) - k
           /\ Segment(SubSeq(evs, k + 1, Len(evs)), k, evs)
<1>1. Len(evs) \in Nat
  OBVIOUS
<1>2. /\ SubSeq(evs, k + 1, Len(evs)) \in Seq(Events)
      /\ Len(SubSeq(evs, k + 1, Len(evs))) = Len(evs) - k
      /\ \A i \in 1 .. Len(evs) - k : SubSeq(evs, k + 1, Len(evs))[i] = evs[k + i]
  BY <1>1
<1>3. QED
  BY <1>1, <1>2 DEF Segment

\* Nothing is a segment.
LEMMA SegmentEmpty ==
    ASSUME NEW evs \in Seq(Events), NEW k \in Nat, k <= Len(evs)
    PROVE  Segment(<<>>, k, evs)
BY DEF Segment

\* A segment of the log file is one of the store.
LEMMA SegmentTrans ==
    ASSUME NEW evs \in Seq(Events), NEW s \in Seq(Events), Segment(s, 0, evs),
           NEW t \in Seq(Events), NEW k \in Nat, Segment(t, k, s)
    PROVE  Segment(t, k, evs)
<1>1. Len(s) \in Nat /\ Len(evs) \in Nat /\ Len(t) \in Nat
  OBVIOUS
<1>2. \A i \in 1 .. Len(t) : k + i \in 1 .. Len(s) /\ 0 + (k + i) = k + i
  BY <1>1 DEF Segment
<1>3. QED
  BY <1>1, <1>2 DEF Segment

\* A finished run ends with its terminal event.
LEMMA LastIsLast ==
    ASSUME NEW s \in Seq(Events)
    PROVE  /\ s # <<>> => Last(s) = s[Len(s)] /\ Len(s) \in 1 .. Len(s) /\ Last(s) \in Events
           /\ Finished(s) <=> (Len(s) > 0 /\ IsTerminal(s[Len(s)]))
BY DEF Finished, Last

\* A store with one more event is a longer store.
LEMMA AppendExtends ==
    ASSUME NEW s \in Seq(Events), NEW e \in Events
    PROVE  Append(s, e) \in Seq(Events) /\ Extends(Append(s, e), s)
BY DEF Extends

-----------------------------------------------------------------------------
(* What the types say, and what a step that leaves a part alone preserves. *)

\* The fields of the records have their types.
LEMMA Fields ==
    ASSUME StreamTypeOK
    PROVE  /\ server.cursor \in Nat /\ server.batch \in Seq(Events) /\ server.version \in Nat
           /\ file.lines \in Seq(Events)
           /\ up.frames \in Seq(Events) /\ down.frames \in Seq(Events)
           /\ relay.expected \in Nat \ {0} /\ relay.expected - 1 \in Nat
           /\ client.pc \in ClientPC /\ client.got \in Seq(Events) /\ client.cursor \in Nat
           /\ client.page \in Pages /\ client.page.events \in Seq(Events) /\ client.page.next \in Nat
           /\ output.bytes \in Nat
           /\ events \in Seq(Events) /\ Len(events) \in Nat /\ Len(client.got) \in Nat
<1>1. client.page \in Pages
  BY DEF StreamTypeOK, Clients
<1>2. client.page.events \in Seq(Events) /\ client.page.next \in Nat
  BY <1>1 DEF Pages
<1>3. /\ relay.expected \in Nat \ {0} /\ output.bytes \in Nat
  BY DEF StreamTypeOK, Relays, Outputs
<1>4. relay.expected - 1 \in Nat
  BY <1>3
<1>5. /\ client.pc \in ClientPC /\ client.got \in Seq(Events) /\ client.cursor \in Nat
  BY DEF StreamTypeOK, Clients
<1>6. /\ server.cursor \in Nat /\ server.batch \in Seq(Events) /\ server.version \in Nat
      /\ file.lines \in Seq(Events)
      /\ up.frames \in Seq(Events) /\ down.frames \in Seq(Events)
      /\ events \in Seq(Events)
  BY DEF StreamTypeOK, Servers, Files, Connections
<1>7. Len(events) \in Nat /\ Len(client.got) \in Nat
  BY <1>5, <1>6
<1>8. QED
  BY <1>1, <1>2, <1>3, <1>4, <1>5, <1>6, <1>7

\* The store has finished only once the process is reaped, and nothing is under way then.
LEMMA FinishedIsFinal ==
    ASSUME StreamTypeOK, StoreInv, Finished(events)
    PROVE  process = "reaped" /\ pipe = <<>>
<1>1. Len(events) > 0 /\ IsTerminal(events[Len(events)])
  BY LastIsLast DEF StreamTypeOK
<1>2. Len(events) \in 1 .. Len(events)
  BY <1>1 DEF StreamTypeOK
<1>3. QED
  BY <1>1, <1>2 DEF StoreInv

\* The process ends, or is cancelled in vain.
RunStops == process \in {"running", "held"} /\ process' \in {"ended", "held"}

\* Neither the process's output nor its end.
StoreFrame ==
    /\ UNCHANGED <<events, output, emitted, pipe>>
    /\ process' = process \/ RunStops

\* A step that leaves the process and the store alone.
LEMMA StoreKeeps ==
    ASSUME StreamTypeOK, StoreInv, OutputInv, StoreFrame
    PROVE  StoreInv' /\ OutputInv'
<1>1. StoreInv'
  BY DEF StoreInv, StoreFrame, IsTerminal, RunStops
<1>2. Stored' = Stored
  BY DEF Stored, StoreFrame
<1>3. Bytes(events)' = Bytes(events) /\ Finished(events)' = Finished(events)
  BY DEF StoreFrame
<1>4. OutputInv'
  BY <1>2, <1>3 DEF OutputInv, StoreFrame
<1>5. QED
  BY <1>1, <1>4

\* A step that leaves the runner's loop and the log file alone, while the store may grow.
LEMMA ServerKeeps ==
    ASSUME StreamTypeOK, StreamTypeOK', ServerInv, Extends(events', events), file'.lines = file.lines,
           server'.cursor = server.cursor, server'.kind = server.kind,
           server'.batch = server.batch \/ Segment(server'.batch, server'.cursor, events')
    PROVE  ServerInv'
<1>0. events' \in Seq(Events) /\ events \in Seq(Events) /\ server.cursor \in Nat
  BY Fields DEF StreamTypeOK
<1>1. Len(events') \in Nat /\ Len(events) <= Len(events') /\ server.cursor <= Len(events')
  BY <1>0 DEF ServerInv, Extends
<1>2. Segment(server'.batch, server'.cursor, events')
  <2>1. CASE server'.batch = server.batch
    BY <2>1, SegmentStays, Fields DEF StreamTypeOK, ServerInv
  <2>2. QED
    BY <2>1
<1>3. Segment(file'.lines, 0, events')
  BY SegmentStays, Fields DEF StreamTypeOK, ServerInv
<1>4. QED
  BY <1>1, <1>2, <1>3 DEF ServerInv, Background

\* A step that leaves the first connection alone, while the store may grow.
LEMMA WireKeeps ==
    ASSUME StreamTypeOK, StreamTypeOK', WireInv, Extends(events', events),
           server'.cursor = server.cursor, server'.kind = server.kind,
           relay'.pc = relay.pc, relay'.expected = relay.expected, up'.frames = up.frames,
           up.broken => up'.broken
    PROVE  WireInv'
<1> SUFFICES ASSUME relay.pc = "relaying"
             PROVE  /\ server.kind = "stream" /\ Segment(up.frames, relay.expected - 1, events')
                    /\ ~up'.broken => relay.expected - 1 + Len(up.frames) = server.cursor
  BY DEF WireInv, Foreground
<1>1. Segment(up.frames, relay.expected - 1, events')
  BY SegmentStays, Fields DEF StreamTypeOK, WireInv
<1>2. QED
  BY <1>1 DEF WireInv, Foreground

\* A step that leaves the caller alone, while a store that has not finished may grow.
LEMMA CallerKeeps ==
    ASSUME StreamTypeOK, StreamTypeOK', CallerInv, Extends(events', events),
           events' = events \/ ~Finished(events),
           UNCHANGED <<client, down>>, relay'.pc = relay.pc \/ relay'.pc # "relaying",
           relay'.expected = relay.expected
    PROVE  CallerInv'
<1>0. /\ events \in Seq(Events) /\ events' \in Seq(Events)
      /\ client.got \in Seq(Events) /\ down.frames \in Seq(Events)
      /\ client.page.events \in Seq(Events) /\ Len(client.got) \in Nat
  BY Fields DEF StreamTypeOK
<1>1. Segment(client.got, 0, events')
  BY <1>0, SegmentStays DEF CallerInv
<1>2. client.pc = "reading" => Segment(down.frames, Len(client.got), events')
  BY <1>0, SegmentStays DEF CallerInv
<1>3. client.pc = "page" => Segment(client.page.events, Len(client.got), events')
  BY <1>0, SegmentStays DEF CallerInv
<1>4. Finished(events) => Finished(events') /\ Len(events') = Len(events)
  OBVIOUS
<1>5. QED
  BY <1>1, <1>2, <1>3, <1>4 DEF CallerInv

\* The same store is no shorter.
LEMMA SameExtends == events \in Seq(Events) /\ UNCHANGED events => Extends(events', events)
BY DEF Extends

\* Once the caller's request was accepted, neither the request nor its refusal is at issue.
LEMMA AskedKeeps ==
    ASSUME client'.pc \notin {"asking", "refused"}
    PROVE  FreshInv' /\ RefusalInv'
BY DEF FreshInv, RefusalInv

\* A step of anything but the request finds it accepted.
LEMMA IsAsked ==
    ASSUME FreshInv,
           \/ process # "none" \/ pipe # <<>> \/ server.pc # "none" \/ relay.pc # "idle"
           \/ server.kind # "none"
    PROVE  client.pc \notin {"asking", "refused"}
BY DEF FreshInv

-----------------------------------------------------------------------------
(* The parts of the state that a step replaces keep their types. *)

\* The loop.
LEMMA ServerTypes ==
    ASSUME StreamTypeOK
    PROVE  /\ \A p \in {"snapshot", "batch", "await", "failed", "done"} :
                 [server EXCEPT !.pc = p] \in Servers
           /\ \A b \in Seq(Events), t \in BOOLEAN :
                 [server EXCEPT !.pc = "batch", !.version = version, !.batch = b,
                                !.terminal = t] \in Servers
           /\ \A p \in {"done", "batch"}, c \in Nat, b \in Seq(Events) :
                 [server EXCEPT !.cursor = c, !.batch = b, !.pc = p] \in Servers
           /\ \A k \in {"log", "stream"} :
                 [NoServer EXCEPT !.kind = k, !.pc = "snapshot"] \in Servers
<1>1. server \in Servers /\ version \in Nat
  BY DEF StreamTypeOK
<1>2. <<>> \in Seq(Events)
  OBVIOUS
<1>3. QED
  BY <1>1, <1>2 DEF Servers, NoServer

\* The connections.
LEMMA ConnectionTypes ==
    ASSUME NEW c \in Connections
    PROVE  /\ \A f \in Seq(Events) : [c EXCEPT !.frames = f] \in Connections
           /\ \A f \in Seq(Events), b \in BOOLEAN : [c EXCEPT !.frames = f, !.ended = b] \in Connections
           /\ \A f \in Seq(Events), b \in BOOLEAN : [c EXCEPT !.broken = b, !.frames = f] \in Connections
           /\ \A f \in Seq(Events), b \in BOOLEAN : [c EXCEPT !.frames = f, !.broken = b] \in Connections
           /\ [c EXCEPT !.broken = TRUE] \in Connections /\ [c EXCEPT !.ended = TRUE] \in Connections
BY DEF Connections

\* The caller.
LEMMA ClientTypes ==
    ASSUME StreamTypeOK
    PROVE  /\ \A p \in ClientPC : [client EXCEPT !.pc = p] \in Clients
           /\ \A p \in ClientPC, g \in Seq(Events) : [client EXCEPT !.got = g, !.pc = p] \in Clients
           /\ \A p \in ClientPC, a \in Answers : [client EXCEPT !.pc = p, !.asked = a] \in Clients
           /\ \A p \in ClientPC, a \in Pages : [client EXCEPT !.pc = p, !.page = a] \in Clients
           /\ \A p \in ClientPC, g \in Seq(Events), c \in Nat, a \in Pages :
                 [client EXCEPT !.got = g, !.cursor = c, !.pc = p, !.page = a] \in Clients
           /\ NoPage \in Pages
<1>1. client \in Clients
  BY DEF StreamTypeOK
<1>2. <<>> \in Seq(Events)
  OBVIOUS
<1>3. QED
  BY <1>1, <1>2 DEF Clients, NoPage, Pages

-----------------------------------------------------------------------------
(* The invariant holds at first, and each step preserves it. *)

\* It holds at first.
LEMMA InitHolds == Init => StreamInv
<1> SUFFICES ASSUME Init PROVE StreamInv
  OBVIOUS
<1> USE DEF Init
<1>0. <<>> \in Seq(Events) /\ Len(<<>>) = 0 /\ ~Finished(<<>>) /\ Bytes(<<>>) = 0
  BY BytesProperties DEF Finished
<1>1. StreamTypeOK
  <2>1. NoPage \in Pages
    BY <1>0 DEF NoPage, Pages
  <2>2. client \in Clients
    BY <1>0, <2>1 DEF Clients, ClientPC, Answers
  <2>3. server \in Servers /\ Connection \in Connections /\ relay \in Relays
    BY <1>0 DEF NoServer, Servers, Connection, Connections, Relays
  <2>4. file \in Files /\ output \in Outputs
    BY <1>0 DEF Files, Outputs
  <2>5. QED
    BY <1>0, <2>2, <2>3, <2>4 DEF StreamTypeOK
<1>2. StoreInv /\ FreshInv
  BY <1>0 DEF StoreInv, FreshInv, NoServer, Connection
<1>3. ServerInv /\ WireInv /\ CallerInv /\ RefusalInv
  BY <1>0 DEF ServerInv, WireInv, CallerInv, RefusalInv, Segment, NoServer, Background
<1>4. OutputInv
  BY <1>0, StreamAssumption DEF OutputInv, Stored
<1>5. QED
  BY <1>1, <1>2, <1>3, <1>4 DEF StreamInv

\* A refusal is the handler's answer, and starts nothing.
LEMMA RefuseHolds == StreamInv /\ Refuse => StreamInv'
<1> SUFFICES ASSUME StreamInv, Refuse PROVE StreamInv'
  OBVIOUS
<1> USE DEF Refuse, procVars, storeVars, netVars
<1>1. PICK q \in SampleRequests, s \in Situations :
         /\ ~Accepted(ExecuteHandler(q, s))
         /\ client' = [client EXCEPT !.pc = "refused", !.asked = <<q, s, ExecuteHandler(q, s)>>]
  OBVIOUS
<1>2. q \in Requests /\ <<q, s, ExecuteHandler(q, s)>> \in Answers
  BY StreamAssumption DEF Answers
<1>3. StreamTypeOK'
  <2>1. client' \in Clients
    BY <1>1, <1>2, ClientTypes DEF StreamInv, ClientPC
  <2>2. QED
    BY <2>1 DEF StreamInv, StreamTypeOK
<1>4. /\ client'.pc = "refused" /\ client'.got = client.got /\ client'.cursor = client.cursor
      /\ client'.asked = <<q, s, ExecuteHandler(q, s)>>
  BY <1>1 DEF StreamInv, StreamTypeOK, Clients
<1>5. FreshInv' /\ RefusalInv'
  BY <1>1, <1>2, <1>4 DEF StreamInv, FreshInv, RefusalInv
<1>6. StoreInv' /\ OutputInv' /\ ServerInv' /\ WireInv'
  <2>1. Extends(events', events)
    BY SameExtends DEF StreamInv, StreamTypeOK
  <2>2. QED
    BY <2>1, <1>3, StoreKeeps, ServerKeeps, WireKeeps DEF StreamInv, StoreFrame
<1>7. CallerInv'
  BY <1>4 DEF StreamInv, CallerInv
<1>8. QED
  BY <1>3, <1>5, <1>6, <1>7 DEF StreamInv

\* An accepted request starts the process, the store and the readers.
LEMMA LaunchHolds == StreamInv /\ Launch => StreamInv'
<1> SUFFICES ASSUME StreamInv, Launch PROVE StreamInv'
  OBVIOUS
<1> DEFINE e == Event(1, "started", 0, FALSE)
<1>0. /\ process = "none" /\ events = <<>> /\ pipe = <<>> /\ emitted = 0
      /\ output.bytes = 0 /\ ~output.announced /\ ~output.truncated
      /\ server.kind = "none"
      /\ up.frames = <<>> /\ down.frames = <<>> /\ relay.expected = 1
      /\ client.got = <<>> /\ client.cursor = 0
  BY DEF StreamInv, Launch, FreshInv
<1>1. PICK background \in BOOLEAN :
         /\ server' = [NoServer EXCEPT !.kind = IF background THEN "log" ELSE "stream",
                                       !.pc = "snapshot"]
         /\ relay' = [relay EXCEPT !.pc = IF background THEN "idle" ELSE "relaying"]
         /\ client' = [client EXCEPT !.pc = IF background THEN "wait" ELSE "reading"]
  BY DEF Launch
<1>2. /\ process' = "running" /\ events' = <<e>> /\ version' = 1
      /\ UNCHANGED <<pipe, emitted, reads, runner, output, file, up, down>>
  BY DEF Launch
<1>3. /\ e \in Events /\ e.seq = 1 /\ e.type = "started" /\ e.bytes = 0
  BY DEF Event, Events
<1> HIDE DEF e
<1>4. /\ <<e>> \in Seq(Events) /\ Len(<<e>>) = 1 /\ <<e>>[1] = e /\ <<e>> # <<>>
      /\ <<>> \in Seq(Events) /\ <<e>> = Append(<<>>, e) /\ Len(<<>>) = 0
  BY <1>3
<1>5. server' \in Servers /\ server'.cursor = 0 /\ server'.batch = <<>>
      /\ server'.kind = IF background THEN "log" ELSE "stream"
  BY <1>1, <1>4, ServerTypes DEF StreamInv, NoServer
<1>6. /\ relay' \in Relays /\ relay'.expected = 1
      /\ relay'.pc = IF background THEN "idle" ELSE "relaying"
  BY <1>1, <1>0 DEF StreamInv, StreamTypeOK, Relays
<1>7. /\ client' \in Clients /\ client'.got = <<>> /\ client'.cursor = 0
      /\ client'.pc = IF background THEN "wait" ELSE "reading"
  BY <1>1, <1>0 DEF StreamInv, StreamTypeOK, Clients, ClientPC
<1>8. StreamTypeOK'
  BY <1>2, <1>4, <1>5, <1>6, <1>7 DEF StreamInv, StreamTypeOK
<1>9. StoreInv'
  BY <1>0, <1>2, <1>3, <1>4 DEF StoreInv, IsTerminal
<1>10. FreshInv' /\ RefusalInv'
  BY <1>7, AskedKeeps
<1>11. \A k \in {0} : Segment(<<>>, k, <<e>>)
  BY <1>4 DEF Segment
<1>12. ServerInv'
  <2>1. file.lines \in Seq(Events) /\ Len(file.lines) = 0
    BY <1>0, Fields DEF StreamInv, ServerInv, Background
  <2>2. file.lines = <<>>
    BY <2>1
  <2>3. QED
    BY <2>1, <2>2, <1>2, <1>4, <1>5, <1>11 DEF ServerInv, Background
<1>13. WireInv'
  BY <1>0, <1>2, <1>4, <1>5, <1>6, <1>11 DEF WireInv, Foreground
<1>14. CallerInv'
  BY <1>0, <1>2, <1>4, <1>6, <1>7, <1>11 DEF CallerInv
<1>15. OutputInv'
  <2>1. Bytes(events') = 0
    <3>1. Bytes(Append(<<>>, e)) = Bytes(<<>>) + e.bytes /\ Bytes(<<>>) = 0
      BY <1>3, <1>4, BytesProperties, Zenon
    <3>2. events' = Append(<<>>, e)
      BY <1>2, <1>4, Zenon
    <3>3. 0 + 0 = 0
      OBVIOUS
    <3>4. QED
      BY <3>1, <3>2, <3>3, <1>3, Zenon
  <2>2. ~Finished(events')
    BY <1>2, <1>3, <1>4, LastIsLast DEF IsTerminal
  <2>3. Stored' = 0
    BY <1>0, <1>2 DEF Stored
  <2>4. ~(0 > MaxOutputBytes)
    BY StreamAssumption
  <2>5. \A i \in 1 .. Len(events') : events'[i].type # "limit"
    BY <1>2, <1>3, <1>4
  <2>6. output' = output /\ ~(Stored' > MaxOutputBytes) /\ Stored' \in Nat
    BY <2>3, <2>4, <1>2
  <2>7. ~output'.announced /\ ~output'.truncated /\ output'.bytes = 0
    BY <2>6, <1>0
  <2>8. QED
    BY <2>1, <2>2, <2>3, <2>5, <2>6, <2>7 DEF OutputInv
<1>16. QED
  BY <1>8, <1>9, <1>10, <1>12, <1>13, <1>14, <1>15 DEF StreamInv

\* Nothing is stored and no event moves: the parts that the step leaves alone stay true.
LEMMA EmitHolds == StreamInv /\ Emit => StreamInv'
<1> SUFFICES ASSUME StreamInv, Emit PROVE StreamInv'
  OBVIOUS
<1> USE DEF Emit, storeVars, netVars
<1>1. PICK n \in ChunkSizes : pipe' = <<n>> /\ emitted' = emitted + n
  OBVIOUS
<1>2. n \in Nat /\ pipe = <<>> /\ emitted \in Nat /\ reads \in Nat
  BY StreamAssumption DEF StreamInv, StreamTypeOK
<1>3. emitted + n \in Nat /\ reads + 1 \in Nat /\ <<n>> # <<>> /\ Head(<<n>>) = n
  BY <1>2
<1>4. StreamTypeOK'
  BY <1>1, <1>3 DEF StreamInv, StreamTypeOK
<1>5. FreshInv' /\ RefusalInv'
  BY AskedKeeps, IsAsked DEF StreamInv
<1>6. StoreInv'
  BY DEF StreamInv, StoreInv
<1>7. Stored' = Stored
  BY <1>1, <1>2, <1>3 DEF Stored
<1>8. OutputInv'
  <2>1. Bytes(events)' = Bytes(events) /\ Finished(events)' = Finished(events)
    OBVIOUS
  <2>2. QED
    BY <2>1, <1>7 DEF StreamInv, OutputInv
<1>9. ServerInv' /\ WireInv' /\ CallerInv'
  <2>1. Extends(events', events)
    BY SameExtends DEF StreamInv, StreamTypeOK
  <2>2. QED
    BY <2>1, <1>4, ServerKeeps, WireKeeps, CallerKeeps DEF StreamInv
<1>10. QED
  BY <1>4, <1>5, <1>6, <1>8, <1>9 DEF StreamInv

\* A step that takes or stores no output, with the request accepted: what is left to show
\* are the types and the readers.
LEMMA QuietHolds ==
    ASSUME StreamInv, StoreFrame, client'.pc \notin {"asking", "refused"},
           StreamTypeOK', ServerInv', WireInv', CallerInv'
    PROVE  StreamInv'
BY AskedKeeps, StoreKeeps DEF StreamInv

\* The end of the process, of the runner, and a cancellation store nothing.
LEMMA ProcessStepsHold == StreamInv /\ (Exit \/ RunnerDies \/ CancelRequest) => StreamInv'
<1> SUFFICES ASSUME StreamInv, Exit \/ RunnerDies \/ CancelRequest PROVE StreamInv'
  OBVIOUS
<1> USE DEF storeVars, netVars
<1>1. /\ UNCHANGED <<events, output, version, pipe, emitted, reads, server, file, down, relay, client>>
      /\ process' = process \/ RunStops
      /\ runner' \in {"alive", "dead"}
      /\ up' = up \/ up' = [up EXCEPT !.broken = TRUE]
      /\ client.pc \notin {"asking", "refused"}
  <2>1. CASE Exit
    BY <2>1, IsAsked DEF Exit, StreamInv, StreamTypeOK, RunStops
  <2>2. CASE RunnerDies
    BY <2>2, IsAsked DEF RunnerDies, StreamInv, StreamTypeOK
  <2>3. CASE CancelRequest
    BY <2>3 DEF CancelRequest, Cancel, StreamInv, StreamTypeOK, RunStops
  <2>4. QED
    BY <2>1, <2>2, <2>3
<1>2. up' \in Connections /\ up'.frames = up.frames /\ (up.broken => up'.broken)
  BY <1>1 DEF StreamInv, StreamTypeOK, Connections
<1>3. StreamTypeOK'
  BY <1>1, <1>2 DEF StreamInv, StreamTypeOK, RunStops
<1>4. Extends(events', events)
  BY <1>1, SameExtends DEF StreamInv, StreamTypeOK
<1>5. ServerInv' /\ WireInv' /\ CallerInv'
  BY <1>1, <1>2, <1>3, <1>4, ServerKeeps, WireKeeps, CallerKeeps DEF StreamInv
<1>6. QED
  BY <1>1, <1>3, <1>5, QuietHolds DEF StoreFrame

\* A step of the store: the readers see a longer store that was not finished.
LEMMA GrowHolds ==
    ASSUME StreamInv, StreamTypeOK', Extends(events', events), ~Finished(events),
           UNCHANGED <<server, file, up, down, relay, client>>,
           client.pc \notin {"asking", "refused"}, StoreInv', OutputInv'
    PROVE  StreamInv'
<1>1. ServerInv' /\ WireInv' /\ CallerInv'
  BY ServerKeeps, WireKeeps, CallerKeeps DEF StreamInv
<1>2. QED
  BY <1>1, AskedKeeps DEF StreamInv

\* The numbers of the events stay right when the next one is appended.
LEMMA NumbersGrow ==
    ASSUME NEW evs \in Seq(Events), NEW e \in Events, e.seq = Len(evs) + 1,
           \A i \in 1 .. Len(evs) : evs[i].seq = i /\ ~IsTerminal(evs[i])
    PROVE  /\ Len(Append(evs, e)) = Len(evs) + 1 /\ Append(evs, e)[Len(evs) + 1] = e
           /\ \A i \in 1 .. Len(evs) : Append(evs, e)[i] = evs[i]
           /\ \A i \in 1 .. Len(evs) + 1 :
                 /\ Append(evs, e)[i].seq = i
                 /\ IsTerminal(Append(evs, e)[i]) => i = Len(evs) + 1 /\ IsTerminal(e)
<1>1. /\ Len(Append(evs, e)) = Len(evs) + 1 /\ Append(evs, e)[Len(evs) + 1] = e
      /\ \A i \in 1 .. Len(evs) : Append(evs, e)[i] = evs[i]
      /\ Len(evs) \in Nat
  OBVIOUS
<1>2. ASSUME NEW i \in 1 .. Len(evs) + 1
      PROVE  /\ Append(evs, e)[i].seq = i
             /\ IsTerminal(Append(evs, e)[i]) => i = Len(evs) + 1 /\ IsTerminal(e)
  <2>1. CASE i = Len(evs) + 1
    BY <2>1, <1>1
  <2>2. CASE i \in 1 .. Len(evs)
    BY <2>2, <1>1
  <2>3. QED
    BY <2>1, <2>2, <1>1
<1>3. QED
  BY <1>1, <1>2

\* The terminal event is stored last, and tells whether output was dropped.
LEMMA TerminateHolds == StreamInv /\ Terminate => StreamInv'
<1> SUFFICES ASSUME StreamInv, Terminate PROVE StreamInv'
  OBVIOUS
<1> USE DEF netVars
<1> DEFINE e == Event(Len(events) + 1, "terminal", 0, output.truncated)
           n == Len(events)
<1>1. /\ process = "ended" /\ process' = "reaped" /\ pipe = <<>> /\ version' = version + 1
      /\ events' = Append(events, e)
      /\ UNCHANGED <<pipe, emitted, reads, runner, output, server, file, up, down, relay, client>>
  BY DEF Terminate, PublishControl
<1>2. e \in Events /\ e.seq = n + 1 /\ e.type = "terminal" /\ e.bytes = 0
  <2>1. n + 1 \in Nat
    BY Fields DEF StreamInv
  <2>2. output.truncated \in BOOLEAN
    BY DEF StreamInv, StreamTypeOK, Outputs
  <2>3. QED
    BY <2>1, <2>2 DEF Event, Events
<1>3. e.truncated = output.truncated
  BY Zenon DEF Event
<1> HIDE DEF e
<1>4. ~Finished(events)
  BY <1>1, FinishedIsFinal DEF StreamInv
<1>5. \A i \in 1 .. n : events[i].seq = i /\ ~IsTerminal(events[i])
  BY <1>1 DEF StreamInv, StoreInv
<1>6. events \in Seq(Events) /\ n \in Nat /\ version \in Nat
  BY Fields DEF StreamInv, StreamTypeOK
<1>7. /\ Len(events') = n + 1 /\ events'[n + 1] = e
      /\ \A i \in 1 .. n : events'[i] = events[i]
      /\ \A i \in 1 .. n + 1 : /\ events'[i].seq = i
                               /\ IsTerminal(events'[i]) => i = n + 1
  BY <1>1, <1>2, <1>5, <1>6, NumbersGrow
<1>8. events' \in Seq(Events) /\ Extends(events', events)
  BY <1>1, <1>2, <1>6, AppendExtends
<1>9. StreamTypeOK'
  <2>1. version' \in Nat
    BY <1>1, <1>6
  <2>2. QED
    BY <2>1, <1>1, <1>8 DEF StreamInv, StreamTypeOK
<1>10. StoreInv'
  BY <1>1, <1>7 DEF StoreInv
<1>11. client.pc \notin {"asking", "refused"}
  BY <1>1, IsAsked DEF StreamInv
<1>12. OutputInv'
  <2>1. Bytes(events') = Bytes(events)
    <3>1. Bytes(Append(events, e)) = Bytes(events) + e.bytes /\ Bytes(events) \in Nat
      BY <1>2, <1>6, BytesProperties
    <3>2. QED
      BY <3>1, <1>1, <1>2
  <2>2. Stored' = Stored
    BY <1>1 DEF Stored
  <2>3. Last(events') = e
    BY <1>6, <1>7, <1>8, LastIsLast
  <2>4. \A i \in 1 .. n + 1 : events'[i].type \in {"limit", "output"}
                                => i \in 1 .. n /\ events'[i] = events[i]
    BY <1>2, <1>6, <1>7
  <2>5. ~output.announced => \A i \in 1 .. n + 1 : events'[i].type # "limit"
    BY <2>4 DEF StreamInv, OutputInv
  <2>6. ASSUME output.announced
        PROVE  \E k \in 1 .. n + 1 :
                  /\ events'[k].type = "limit"
                  /\ \A i \in 1 .. n + 1 : /\ events'[i].type = "limit" => i = k
                                           /\ events'[i].type = "output" => i < k
    <3>1. PICK k \in 1 .. n :
             /\ events[k].type = "limit"
             /\ \A i \in 1 .. n : /\ events[i].type = "limit" => i = k
                                  /\ events[i].type = "output" => i < k
      BY <2>6 DEF StreamInv, OutputInv
    <3>2. k \in 1 .. n + 1 /\ events'[k].type = "limit"
      BY <3>1, <1>6, <1>7
    <3>3. QED
      BY <3>1, <3>2, <2>4
  <2>7. Last(events').truncated <=> output.truncated
    BY <2>3, <1>3, Zenon
  <2>8. output' = output
    BY <1>1
  <2> HIDE DEF n
  <2>9. QED
    BY <2>1, <2>2, <2>5, <2>6, <2>7, <2>8, <1>7 DEF StreamInv, OutputInv
<1>13. QED
  BY <1>1, <1>4, <1>8, <1>9, <1>10, <1>11, <1>12, GrowHolds

\* Two ways to write a longer sequence.
LEMMA ConcatOne ==
    ASSUME NEW s \in Seq(Events), NEW e \in Events
    PROVE  s \o <<e>> = Append(s, e) /\ s \o <<>> = s
<1>1. s \o <<e>> = Append(s, e)
  <2>1. Append(s, e) \in Seq(Events) /\ s \o <<e>> \in Seq(Events)
    OBVIOUS
  <2>2. Len(s \o <<e>>) = Len(Append(s, e))
    OBVIOUS
  <2>3. \A i \in 1 .. Len(s \o <<e>>) : (s \o <<e>>)[i] = Append(s, e)[i]
    OBVIOUS
  <2>4. QED
    BY <2>1, <2>2, <2>3, SeqEqual
<1>2. s \o <<>> = s
  BY ConcatEmptySeq
<1>3. QED
  BY <1>1, <1>2

\* An event that is not about the output being cut.
Plain(seq, type, bytes) == Event(seq, type, bytes, FALSE)

\* The step of the store for a chunk of n bytes after `before` bytes: past the limit
\* nothing is kept, below it everything, at it the announcement alone, and across it the
\* part that fits and the announcement.
Appends(n, before) ==
    /\ n \in Nat \ {0} /\ before \in Nat /\ Stored' = before + n
    /\ output' \in Outputs
    /\ output'.bytes = IF before + n > MaxOutputBytes THEN MaxOutputBytes ELSE before + n
    /\ output'.truncated <=> before + n > MaxOutputBytes
    /\ output'.announced <=> before + n > MaxOutputBytes
    /\ \/ before > MaxOutputBytes /\ events' = events
       \/ /\ before + n <= MaxOutputBytes
          /\ events' = Append(events, Plain(Len(events) + 1, "output", n))
       \/ /\ before = MaxOutputBytes
          /\ events' = Append(events, Plain(Len(events) + 1, "limit", 0))
       \/ /\ before < MaxOutputBytes /\ before + n > MaxOutputBytes
          /\ events' = Append(Append(events, Plain(Len(events) + 1, "output",
                                                   MaxOutputBytes - before)),
                              Plain(Len(events) + 2, "limit", 0))

\* What AppendOutput does, by where the limit lies.
LEMMA AppendCases ==
    ASSUME StreamInv, Store, NEW n, n = Head(pipe), NEW before, before = Stored
    PROVE  Appends(n, before)
<1> SUFFICES /\ n \in Nat \ {0} /\ before \in Nat /\ Stored' = before + n
             /\ output' \in Outputs
             /\ output'.bytes = IF before + n > MaxOutputBytes THEN MaxOutputBytes ELSE before + n
             /\ output'.truncated <=> before + n > MaxOutputBytes
             /\ output'.announced <=> before + n > MaxOutputBytes
             /\ \/ before > MaxOutputBytes /\ events' = events
                \/ /\ before + n <= MaxOutputBytes
                   /\ events' = Append(events, Plain(Len(events) + 1, "output", n))
                \/ /\ before = MaxOutputBytes
                   /\ events' = Append(events, Plain(Len(events) + 1, "limit", 0))
                \/ /\ before < MaxOutputBytes /\ before + n > MaxOutputBytes
                   /\ events' = Append(Append(events, Plain(Len(events) + 1, "output",
                                                            MaxOutputBytes - before)),
                                       Plain(Len(events) + 2, "limit", 0))
  BY Zenon DEF Appends
<1> DEFINE remaining == MaxOutputBytes - output.bytes
           retained == IF n > remaining THEN remaining ELSE n
           d == Plain(Len(events) + 1, "output", retained)
           data == IF retained > 0 THEN <<d>> ELSE <<>>
           limit == IF n > remaining /\ ~output.announced
                    THEN <<Plain(Len(events) + Len(data) + 1, "limit", 0)>> ELSE <<>>
<1>1. /\ n \in Nat \ {0} /\ MaxOutputBytes \in Nat \ {0} /\ emitted \in Nat /\ before \in Nat
      /\ pipe = <<n>> /\ pipe # <<>> /\ pipe' = <<>>
  BY StreamAssumption DEF StreamInv, StreamTypeOK, Store, OutputInv
<1>2. Stored' = before + n
  BY <1>1 DEF Stored, Store
<1>3. /\ events' = events \o data \o limit
      /\ output' = [bytes |-> output.bytes + retained,
                    truncated |-> output.truncated \/ n > remaining,
                    announced |-> output.announced \/ n > remaining]
  BY DEF Store, AppendOutput, Plain
<1>4. /\ output.bytes = IF before > MaxOutputBytes THEN MaxOutputBytes ELSE before
      /\ output.truncated <=> before > MaxOutputBytes
      /\ output.announced <=> before > MaxOutputBytes
  BY DEF StreamInv, OutputInv
<1>5. /\ n > remaining <=> before + n > MaxOutputBytes
      /\ remaining \in Nat /\ retained \in Nat
      /\ output.bytes + retained = IF before + n > MaxOutputBytes THEN MaxOutputBytes ELSE before + n
      /\ output.bytes + retained \in Nat
  BY <1>1, <1>4
<1>6. output'.bytes = output.bytes + retained
  BY <1>3
<1>7. /\ output'.truncated <=> (output.truncated \/ n > remaining)
      /\ output'.announced <=> (output.announced \/ n > remaining)
  BY <1>3, Zenon
<1>8. output' \in Outputs
  <2>1. /\ (output.truncated \/ n > remaining) \in BOOLEAN
        /\ (output.announced \/ n > remaining) \in BOOLEAN
    BY Zenon
  <2> HIDE DEF retained, remaining
  <2>2. QED
    BY <1>3, <1>5, <2>1 DEF Outputs
<1>9. /\ output'.truncated <=> before + n > MaxOutputBytes
      /\ output'.announced <=> before + n > MaxOutputBytes
  <2>1. before > MaxOutputBytes => before + n > MaxOutputBytes
    BY <1>1
  <2> HIDE DEF remaining
  <2>2. QED
    BY <2>1, <1>4, <1>5, <1>7, Zenon
<1>10. events \in Seq(Events) /\ Len(events) \in Nat /\ d \in Events
  <2>1. events \in Seq(Events) /\ Len(events) \in Nat
    BY Fields DEF StreamInv, StreamTypeOK
  <2> HIDE DEF retained
  <2>2. QED
    BY <2>1, <1>5 DEF Plain, Event, Events
<1>11. CASE before > MaxOutputBytes
  <2>1. retained = 0 /\ output.announced
    BY <1>11, <1>1, <1>4
  <2>2. data = <<>> /\ limit = <<>>
    BY <2>1
  <2> HIDE DEF data, limit
  <2>3. events' = events
    BY <2>2, <1>3, <1>10, ConcatOne
  <2>4. QED
    BY <2>3, <1>1, <1>2, <1>5, <1>6, <1>8, <1>9, <1>11
<1>12. CASE before + n <= MaxOutputBytes
  <2>1. retained = n /\ n > 0 /\ ~(n > remaining)
    BY <1>12, <1>1, <1>4
  <2>2. data = <<d>> /\ limit = <<>>
    BY <2>1
  <2>3. d = Plain(Len(events) + 1, "output", n)
    BY <2>1
  <2> HIDE DEF data, limit, d
  <2>4. events' = Append(events, d)
    <3>1. events \o data = Append(events, d) /\ Append(events, d) \in Seq(Events)
      BY <2>2, <1>10, ConcatOne
    <3>2. QED
      BY <3>1, <2>2, <1>3, <1>10, ConcatOne
  <2>5. QED
    BY <2>3, <2>4, <1>1, <1>2, <1>5, <1>6, <1>8, <1>9, <1>12
<1>13. CASE before = MaxOutputBytes
  <2>1. retained = 0 /\ ~output.announced /\ n > remaining
    BY <1>13, <1>1, <1>4
  <2>2. data = <<>> /\ Len(data) = 0
    BY <2>1
  <2>3. limit = <<Plain(Len(events) + 1, "limit", 0)>>
    <3> HIDE DEF data, remaining
    <3>1. Len(events) + Len(data) + 1 = Len(events) + 1
      BY <2>2, <1>10
    <3>2. QED
      BY <3>1, <2>1
  <2>4. events' = Append(events, Plain(Len(events) + 1, "limit", 0))
    <3>1. Plain(Len(events) + 1, "limit", 0) \in Events
      BY <1>10 DEF Plain, Event, Events
    <3> HIDE DEF data, limit
    <3>2. events \o data = events
      BY <2>2, <1>10, ConcatOne
    <3>3. QED
      BY <3>1, <3>2, <2>3, <1>3, <1>10, ConcatOne
  <2>5. QED
    BY <2>4, <1>1, <1>2, <1>5, <1>6, <1>8, <1>9, <1>13
<1>14. CASE before < MaxOutputBytes /\ before + n > MaxOutputBytes
  <2>1. retained = MaxOutputBytes - before /\ retained > 0 /\ ~output.announced /\ n > remaining
    BY <1>14, <1>1, <1>4
  <2>2. data = <<d>> /\ Len(data) = 1
    BY <2>1
  <2>3. limit = <<Plain(Len(events) + 2, "limit", 0)>>
    <3> HIDE DEF data, remaining
    <3>1. Len(events) + Len(data) + 1 = Len(events) + 2
      BY <2>2, <1>10
    <3>2. QED
      BY <3>1, <2>1
  <2>4. d = Plain(Len(events) + 1, "output", MaxOutputBytes - before)
    BY <2>1
  <2>5. events' = Append(Append(events, d), Plain(Len(events) + 2, "limit", 0))
    <3>1. Plain(Len(events) + 2, "limit", 0) \in Events
      BY <1>10 DEF Plain, Event, Events
    <3> HIDE DEF data, limit, d
    <3>2. events \o data = Append(events, d)
      BY <2>2, <1>10, ConcatOne
    <3>3. Append(events, d) \in Seq(Events)
      BY <1>10
    <3>4. QED
      BY <3>1, <3>2, <3>3, <2>3, <1>3, ConcatOne
  <2>6. QED
    BY <2>4, <2>5, <1>1, <1>2, <1>5, <1>6, <1>8, <1>9, <1>14
<1>15. \/ before > MaxOutputBytes \/ before + n <= MaxOutputBytes \/ before = MaxOutputBytes
       \/ before < MaxOutputBytes /\ before + n > MaxOutputBytes
  BY <1>1
<1>16. QED
  BY <1>11, <1>12, <1>13, <1>14, <1>15

\* An event that is made is an event.
LEMMA MadeEvent ==
    ASSUME NEW t \in {"output", "limit"}, NEW k \in Nat, NEW b \in Nat
    PROVE  /\ Plain(k, t, b) \in Events /\ Plain(k, t, b).seq = k
           /\ Plain(k, t, b).type = t /\ Plain(k, t, b).bytes = b
           /\ ~IsTerminal(Plain(k, t, b))
BY DEF Plain, Event, Events, IsTerminal

\* The sum of the bytes after an output event.
LEMMA OutputAppended ==
    ASSUME NEW evs \in Seq(Events), NEW e \in Events, e.type = "output",
           \A i \in 1 .. Len(evs) : evs[i].type # "limit"
    PROVE  \A i \in 1 .. Len(Append(evs, e)) : Append(evs, e)[i].type # "limit"
<1>1. /\ Len(Append(evs, e)) = Len(evs) + 1 /\ Append(evs, e)[Len(evs) + 1] = e
      /\ \A i \in 1 .. Len(evs) : Append(evs, e)[i] = evs[i]
      /\ Len(evs) \in Nat
  OBVIOUS
<1>2. \A i \in 1 .. Len(evs) + 1 : i \in 1 .. Len(evs) \/ i = Len(evs) + 1
  BY <1>1
<1>3. QED
  BY <1>1, <1>2

\* And after the announcement.
LEMMA LimitAppended ==
    ASSUME NEW evs \in Seq(Events), NEW e \in Events, e.type = "limit",
           \A i \in 1 .. Len(evs) : evs[i].type # "limit"
    PROVE  \E k \in 1 .. Len(Append(evs, e)) :
              /\ Append(evs, e)[k].type = "limit"
              /\ \A i \in 1 .. Len(Append(evs, e)) :
                    /\ Append(evs, e)[i].type = "limit" => i = k
                    /\ Append(evs, e)[i].type = "output" => i < k
<1> DEFINE k == Len(evs) + 1
<1>1. /\ Len(Append(evs, e)) = k /\ Append(evs, e)[k] = e
      /\ \A i \in 1 .. Len(evs) : Append(evs, e)[i] = evs[i]
      /\ Len(evs) \in Nat
  OBVIOUS
<1>2. k \in 1 .. k /\ \A i \in 1 .. k : (i \in 1 .. Len(evs) /\ i < k) \/ i = k
  BY <1>1
<1> HIDE DEF k
<1>3. \A i \in 1 .. k : /\ Append(evs, e)[i].type = "limit" => i = k
                        /\ Append(evs, e)[i].type = "output" => i < k
  BY <1>1, <1>2
<1>4. QED
  BY <1>1, <1>2, <1>3

\* A chunk is taken from the pipe and stored, as far as it fits.
LEMMA StoreHolds == StreamInv /\ Store => StreamInv'
<1> SUFFICES ASSUME StreamInv, Store PROVE StreamInv'
  OBVIOUS
<1> USE DEF netVars
<1>0. /\ pipe # <<>> /\ pipe' = <<>>
      /\ UNCHANGED <<process, emitted, reads, runner, server, file, up, down, relay, client>>
      /\ version' = IF events' # events THEN version + 1 ELSE version
  BY DEF Store, NotifyChanged
<1>1. PICK n : n = Head(pipe)
  OBVIOUS
<1>2. PICK before : before = Stored
  OBVIOUS
<1>3. /\ n \in Nat \ {0} /\ before \in Nat /\ Stored' = before + n
      /\ output' \in Outputs
      /\ output'.bytes = IF before + n > MaxOutputBytes THEN MaxOutputBytes ELSE before + n
      /\ output'.truncated <=> before + n > MaxOutputBytes
      /\ output'.announced <=> before + n > MaxOutputBytes
      /\ \/ before > MaxOutputBytes /\ events' = events
         \/ /\ before + n <= MaxOutputBytes
            /\ events' = Append(events, Plain(Len(events) + 1, "output", n))
         \/ /\ before = MaxOutputBytes
            /\ events' = Append(events, Plain(Len(events) + 1, "limit", 0))
         \/ /\ before < MaxOutputBytes /\ before + n > MaxOutputBytes
            /\ events' = Append(Append(events, Plain(Len(events) + 1, "output",
                                                     MaxOutputBytes - before)),
                                Plain(Len(events) + 2, "limit", 0))
  <2>1. Appends(n, before)
    BY <1>1, <1>2, AppendCases
  <2>2. QED
    BY <2>1, Zenon DEF Appends
<1>4. /\ events \in Seq(Events) /\ Len(events) \in Nat /\ version \in Nat
      /\ MaxOutputBytes \in Nat \ {0} /\ Bytes(events) \in Nat
  BY StreamAssumption, Fields, BytesProperties DEF StreamInv, StreamTypeOK
<1>5. ~Finished(events) /\ \A i \in 1 .. Len(events) : events[i].seq = i /\ ~IsTerminal(events[i])
  <2>1. process # "reaped"
    BY <1>0 DEF StreamInv, StoreInv
  <2>2. QED
    BY <2>1, FinishedIsFinal DEF StreamInv, StoreInv
<1>6. /\ before <= MaxOutputBytes => \A i \in 1 .. Len(events) : events[i].type # "limit"
      /\ Bytes(events) = IF before > MaxOutputBytes THEN MaxOutputBytes ELSE before
  BY <1>2, <1>3, <1>4 DEF StreamInv, OutputInv
<1>7. client.pc \notin {"asking", "refused"}
  BY <1>0, IsAsked DEF StreamInv
<1>8. Len(events) + 1 \in Nat /\ n \in Nat /\ 0 \in Nat
  BY <1>3, <1>4
\* What is to be shown of the new events.
<1> DEFINE Numbered(evs) == \A i \in 1 .. Len(evs) : evs[i].seq = i /\ ~IsTerminal(evs[i])
<1>9. SUFFICES /\ events' \in Seq(Events) /\ Extends(events', events) /\ Numbered(events')
               /\ Bytes(events') = output'.bytes
               /\ ~(before + n > MaxOutputBytes)
                     => \A i \in 1 .. Len(events') : events'[i].type # "limit"
               /\ before + n > MaxOutputBytes =>
                     \E k \in 1 .. Len(events') :
                        /\ events'[k].type = "limit"
                        /\ \A i \in 1 .. Len(events') : /\ events'[i].type = "limit" => i = k
                                                        /\ events'[i].type = "output" => i < k
  <2>1. StreamTypeOK'
    <3>1. version' \in Nat
      BY <1>0, <1>4
    <3>2. QED
      BY <3>1, <1>0, <1>3, <1>9 DEF StreamInv, StreamTypeOK
  <2>2. StoreInv'
    BY <1>0, <1>9 DEF StoreInv
  <2>3. ~Finished(events')
    <3>1. Len(events') \in Nat /\ (Len(events') > 0 => Len(events') \in 1 .. Len(events'))
      BY <1>9
    <3>2. QED
      BY <3>1, <1>9, LastIsLast
  <2>4. OutputInv'
    <3>1. Stored' \in Nat
      BY <1>3
    <3> HIDE DEF Numbered
    <3>2. QED
      BY <3>1, <2>3, <1>3, <1>9 DEF OutputInv
  <2>5. QED
    BY <2>1, <2>2, <2>4, <1>0, <1>5, <1>7, <1>9, GrowHolds
<1>10. ASSUME NEW evs \in Seq(Events), Extends(evs, events), Numbered(evs), NEW e \in Events,
              e.seq = Len(evs) + 1, ~IsTerminal(e)
       PROVE  /\ Append(evs, e) \in Seq(Events) /\ Extends(Append(evs, e), events)
              /\ Numbered(Append(evs, e)) /\ Len(Append(evs, e)) = Len(evs) + 1
              /\ Bytes(Append(evs, e)) = Bytes(evs) + e.bytes
  <2>1. /\ Append(evs, e) \in Seq(Events) /\ Len(Append(evs, e)) = Len(evs) + 1
        /\ Len(evs) \in Nat /\ Numbered(Append(evs, e))
    BY <1>10, NumbersGrow
  <2>2. Extends(Append(evs, e), events)
    BY <1>4, <1>10 DEF Extends
  <2>3. QED
    BY <2>1, <2>2, BytesProperties
<1>11. Extends(events, events) /\ Numbered(events)
  BY <1>4, <1>5 DEF Extends
<1>12. CASE before > MaxOutputBytes /\ events' = events
  <2>1. before + n > MaxOutputBytes
    BY <1>12, <1>3, <1>4
  <2>2. output.announced
    BY <1>12, <1>2 DEF StreamInv, OutputInv
  <2>3. \E k \in 1 .. Len(events) :
           /\ events[k].type = "limit"
           /\ \A i \in 1 .. Len(events) : /\ events[i].type = "limit" => i = k
                                          /\ events[i].type = "output" => i < k
    BY <2>2 DEF StreamInv, OutputInv
  <2>4. QED
    BY <2>1, <2>3, <1>3, <1>4, <1>6, <1>11, <1>12
<1>13. CASE /\ before + n <= MaxOutputBytes
            /\ events' = Append(events, Plain(Len(events) + 1, "output", n))
  <2> DEFINE e == Plain(Len(events) + 1, "output", n)
  <2>1. /\ e \in Events /\ e.seq = Len(events) + 1 /\ e.type = "output" /\ e.bytes = n
        /\ ~IsTerminal(e)
    BY <1>8, MadeEvent
  <2> HIDE DEF e
  <2>2. /\ Append(events, e) \in Seq(Events) /\ Extends(Append(events, e), events)
        /\ Numbered(Append(events, e)) /\ Bytes(Append(events, e)) = Bytes(events) + e.bytes
    BY <2>1, <1>4, <1>10, <1>11
  <2>3. ~(before + n > MaxOutputBytes) /\ before <= MaxOutputBytes /\ ~(before > MaxOutputBytes)
    BY <1>13, <1>3, <1>4
  <2>4. \A i \in 1 .. Len(Append(events, e)) : Append(events, e)[i].type # "limit"
    BY <2>1, <2>3, <1>4, <1>6, OutputAppended
  <2>5. events' = Append(events, e)
    BY <1>13 DEF e
  <2> HIDE DEF Numbered
  <2>6. QED
    BY <2>1, <2>2, <2>3, <2>4, <2>5, <1>3, <1>6
<1>14. CASE /\ before = MaxOutputBytes
            /\ events' = Append(events, Plain(Len(events) + 1, "limit", 0))
  <2> DEFINE e == Plain(Len(events) + 1, "limit", 0)
  <2>1. /\ e \in Events /\ e.seq = Len(events) + 1 /\ e.type = "limit" /\ e.bytes = 0
        /\ ~IsTerminal(e)
    BY <1>8, MadeEvent
  <2> HIDE DEF e
  <2>2. /\ Append(events, e) \in Seq(Events) /\ Extends(Append(events, e), events)
        /\ Numbered(Append(events, e)) /\ Bytes(Append(events, e)) = Bytes(events) + e.bytes
    BY <2>1, <1>4, <1>10, <1>11
  <2>3. before + n > MaxOutputBytes /\ before <= MaxOutputBytes /\ ~(before > MaxOutputBytes)
    BY <1>14, <1>3, <1>4
  <2>4. \E k \in 1 .. Len(Append(events, e)) :
           /\ Append(events, e)[k].type = "limit"
           /\ \A i \in 1 .. Len(Append(events, e)) :
                 /\ Append(events, e)[i].type = "limit" => i = k
                 /\ Append(events, e)[i].type = "output" => i < k
    BY <2>1, <2>3, <1>4, <1>6, LimitAppended
  <2>5. events' = Append(events, e)
    BY <1>14 DEF e
  <2> HIDE DEF Numbered
  <2>6. Bytes(events') = output'.bytes
    <3>1. Bytes(events') = Bytes(events) + 0
      BY <2>1, <2>2, <2>5
    <3>2. Bytes(events) = MaxOutputBytes /\ output'.bytes = MaxOutputBytes
      BY <2>3, <1>3, <1>6, <1>14
    <3>3. QED
      BY <3>1, <3>2, <1>4
  <2>7. QED
    BY <2>2, <2>3, <2>4, <2>5, <2>6
<1>15. CASE /\ before < MaxOutputBytes /\ before + n > MaxOutputBytes
            /\ events' = Append(Append(events, Plain(Len(events) + 1, "output",
                                                     MaxOutputBytes - before)),
                                Plain(Len(events) + 2, "limit", 0))
  <2> DEFINE d == Plain(Len(events) + 1, "output", MaxOutputBytes - before)
             evs == Append(events, d)
             e == Plain(Len(events) + 2, "limit", 0)
  <2>0. MaxOutputBytes - before \in Nat /\ Len(events) + 1 \in Nat /\ Len(events) + 2 \in Nat
    BY <1>15, <1>3, <1>4
  <2>1. /\ d \in Events /\ d.seq = Len(events) + 1 /\ d.type = "output"
        /\ d.bytes = MaxOutputBytes - before /\ ~IsTerminal(d)
    BY <2>0, MadeEvent
  <2>2. /\ e \in Events /\ e.seq = Len(events) + 2 /\ e.type = "limit" /\ e.bytes = 0
        /\ ~IsTerminal(e)
    BY <2>0, MadeEvent
  <2> HIDE DEF d, e
  <2>3. /\ evs \in Seq(Events) /\ Extends(evs, events) /\ Len(evs) = Len(events) + 1
        /\ Numbered(evs) /\ Bytes(evs) = Bytes(events) + d.bytes
    BY <2>1, <1>4, <1>10, <1>11
  <2>4. ~(before > MaxOutputBytes) /\ before <= MaxOutputBytes
    BY <1>15, <1>3, <1>4
  <2>5. \A i \in 1 .. Len(evs) : evs[i].type # "limit"
    BY <2>1, <2>4, <1>4, <1>6, OutputAppended
  <2>6. events' = Append(evs, e)
    BY <1>15 DEF d, e
  <2> HIDE DEF evs
  <2>7. e.seq = Len(evs) + 1
    BY <2>2, <2>3, <1>4
  <2>8. /\ Append(evs, e) \in Seq(Events) /\ Extends(Append(evs, e), events)
        /\ Numbered(Append(evs, e)) /\ Bytes(Append(evs, e)) = Bytes(evs) + e.bytes
    BY <2>2, <2>3, <2>7, <1>10
  <2>9. \E k \in 1 .. Len(Append(evs, e)) :
           /\ Append(evs, e)[k].type = "limit"
           /\ \A i \in 1 .. Len(Append(evs, e)) :
                 /\ Append(evs, e)[i].type = "limit" => i = k
                 /\ Append(evs, e)[i].type = "output" => i < k
    BY <2>2, <2>3, <2>5, LimitAppended
  <2> HIDE DEF Numbered
  <2>10. Bytes(events') = output'.bytes
    BY <2>1, <2>2, <2>3, <2>4, <2>6, <2>8, <1>3, <1>4, <1>6, <1>15
  <2>11. QED
    BY <2>6, <2>8, <2>9, <2>10, <1>15
<1>16. QED
  BY <1>3, <1>12, <1>13, <1>14, <1>15

-----------------------------------------------------------------------------
(* The loops over the store. *)

\* A snapshot of the store is the segment after the cursor.
LEMMA EventsAfterHolds == StreamInv /\ EventsAfter => StreamInv'
<1> SUFFICES ASSUME StreamInv, EventsAfter PROVE StreamInv'
  OBVIOUS
<1> USE DEF procVars, storeVars, netVars
<1> DEFINE b == SubSeq(events, server.cursor + 1, Len(events))
<1>1. /\ server.pc = "snapshot"
      /\ server' = [server EXCEPT !.pc = "batch", !.version = version, !.batch = b,
                                  !.terminal = Finished(events)]
      /\ UNCHANGED <<process, pipe, emitted, reads, runner, events, output, version, file, up, down,
                     relay, client>>
  BY DEF EventsAfter, ServerAt
<1>2. b \in Seq(Events) /\ Segment(b, server.cursor, events)
  BY SegmentRest, Fields DEF StreamInv, ServerInv
<1> HIDE DEF b
<1>3. Finished(events) \in BOOLEAN
  BY Zenon DEF Finished
<1>4. server' \in Servers
  BY <1>1, <1>2, <1>3, ServerTypes DEF StreamInv
<1>5. /\ server'.cursor = server.cursor /\ server'.kind = server.kind /\ server'.batch = b
  BY <1>1 DEF StreamInv, StreamTypeOK, Servers
<1>6. StreamTypeOK'
  BY <1>1, <1>4 DEF StreamInv, StreamTypeOK
<1>7. Extends(events', events)
  BY <1>1, SameExtends DEF StreamInv, StreamTypeOK
<1>8. ServerInv' /\ WireInv' /\ CallerInv'
  BY <1>1, <1>2, <1>5, <1>6, <1>7, ServerKeeps, WireKeeps, CallerKeeps DEF StreamInv
<1>9. client.pc \notin {"asking", "refused"}
  BY <1>1, IsAsked DEF StreamInv
<1>10. QED
  BY <1>1, <1>6, <1>8, <1>9, QuietHolds DEF StoreFrame

\* The loop waits, wakes up or gives up; nothing is written.
LEMMA LoopStepsHold == StreamInv /\ (BatchEnds \/ Awake \/ StreamFails \/ LogFails) => StreamInv'
<1> SUFFICES ASSUME StreamInv, BatchEnds \/ Awake \/ StreamFails \/ LogFails PROVE StreamInv'
  OBVIOUS
<1> USE DEF procVars, storeVars, netVars
<1>1. /\ UNCHANGED <<pipe, emitted, reads, runner, events, output, version, file, down, relay, client>>
      /\ process' = process \/ RunStops
      /\ server.pc # "none"
      /\ \E p \in {"snapshot", "await", "failed"} : server' = [server EXCEPT !.pc = p]
      /\ up' = up \/ up' = [up EXCEPT !.ended = TRUE]
  <2>1. CASE BatchEnds
    BY <2>1 DEF BatchEnds, ServerAt, Cancel, RunStops
  <2>2. CASE Awake
    BY <2>2 DEF Awake, ServerAt
  <2>3. CASE StreamFails
    BY <2>3 DEF StreamFails, Cancel, RunStops
  <2>4. CASE LogFails
    BY <2>4 DEF LogFails, ServerAt
  <2>5. QED
    BY <2>1, <2>2, <2>3, <2>4
<1>2. up' \in Connections /\ up'.frames = up.frames /\ (up.broken => up'.broken)
  BY <1>1 DEF StreamInv, StreamTypeOK, Connections
<1>3. /\ server' \in Servers /\ server'.cursor = server.cursor /\ server'.kind = server.kind
      /\ server'.batch = server.batch
  BY <1>1 DEF StreamInv, StreamTypeOK, Servers
<1>4. StreamTypeOK'
  BY <1>1, <1>2, <1>3 DEF StreamInv, StreamTypeOK, RunStops
<1>5. Extends(events', events)
  BY <1>1, SameExtends DEF StreamInv, StreamTypeOK
<1>6. ServerInv' /\ WireInv' /\ CallerInv'
  BY <1>1, <1>2, <1>3, <1>4, <1>5, ServerKeeps, WireKeeps, CallerKeeps DEF StreamInv
<1>7. client.pc \notin {"asking", "refused"}
  BY <1>1, IsAsked DEF StreamInv
<1>8. QED
  BY <1>1, <1>4, <1>6, <1>7, QuietHolds DEF StoreFrame

\* The next event of a batch is the one that follows the cursor.
LEMMA HeadFollows ==
    ASSUME StreamInv, server.batch # <<>>, Advance("batch")
    PROVE  /\ Head(server.batch) = events[server.cursor + 1] /\ Head(server.batch) \in Events
           /\ Head(server.batch).seq = server.cursor + 1 /\ server.cursor + 1 \in 1 .. Len(events)
           /\ server' \in Servers /\ server'.cursor = server.cursor + 1
           /\ server'.kind = server.kind /\ server'.batch \in Seq(Events)
           /\ Segment(server'.batch, server.cursor + 1, events)
<1> DEFINE e == Head(server.batch)
           t == Tail(server.batch)
<1>1. /\ e = events[server.cursor + 1] /\ e \in Events /\ server.cursor + 1 \in 1 .. Len(events)
      /\ t \in Seq(Events) /\ Segment(t, server.cursor + 1, events)
  BY SegmentHead, Fields DEF StreamInv, ServerInv
<1>2. server' = [server EXCEPT !.cursor = e.seq, !.batch = t,
                               !.pc = IF IsTerminal(e) THEN "done" ELSE "batch"]
  BY DEF Advance
<1> HIDE DEF e, t
<1>3. e.seq = server.cursor + 1 /\ e.seq \in Nat
  <2>1. \A i \in 1 .. Len(events) : events[i].seq = i
    BY DEF StreamInv, StoreInv
  <2>2. QED
    BY <2>1, <1>1
<1>4. server' \in Servers
  BY <1>1, <1>2, <1>3, ServerTypes DEF StreamInv
<1>5. server'.cursor = e.seq /\ server'.kind = server.kind /\ server'.batch = t
  BY <1>2 DEF StreamInv, StreamTypeOK, Servers
<1>6. QED
  BY <1>1, <1>3, <1>4, <1>5 DEF e

\* A frame is sent: it is the one that follows.
LEMMA WriteEventHolds == StreamInv /\ WriteEvent => StreamInv'
<1> SUFFICES ASSUME StreamInv, WriteEvent PROVE StreamInv'
  OBVIOUS
<1> USE DEF procVars, storeVars
<1> DEFINE e == Head(server.batch)
           f == Append(up.frames, e)
<1>1. /\ Foreground /\ server.pc = "batch" /\ server.batch # <<>> /\ ~up.broken /\ Advance("batch")
      /\ up' = [up EXCEPT !.frames = f, !.ended = IsTerminal(e)]
      /\ UNCHANGED <<process, pipe, emitted, reads, runner, events, output, version, file, down,
                     relay, client>>
  BY DEF WriteEvent, ServerAt, Room, Send
<1>2. /\ e = events[server.cursor + 1] /\ e \in Events
      /\ server.cursor + 1 \in 1 .. Len(events)
      /\ server' \in Servers /\ server'.cursor = server.cursor + 1
      /\ server'.kind = server.kind /\ server'.batch \in Seq(Events)
      /\ Segment(server'.batch, server.cursor + 1, events)
  BY <1>1, HeadFollows
<1>3. f \in Seq(Events) /\ IsTerminal(e) \in BOOLEAN
  BY <1>2, Fields DEF StreamInv, IsTerminal
<1> HIDE DEF e
<1>4. up' \in Connections /\ up'.frames = f /\ up'.broken = up.broken
  <2> HIDE DEF f
  <2>1. up' \in Connections
    BY <1>1, <1>3, ConnectionTypes DEF StreamInv, StreamTypeOK
  <2>2. QED
    BY <2>1, <1>1 DEF StreamInv, StreamTypeOK, Connections
<1>5. StreamTypeOK'
  BY <1>1, <1>2, <1>4 DEF StreamInv, StreamTypeOK
<1>6. ServerInv'
  <2>1. file.lines = <<>>
    BY <1>1, Fields DEF StreamInv, ServerInv, Foreground, Background
  <2>2. server'.cursor <= Len(events)
    BY <1>2, Fields DEF StreamInv
  <2>3. QED
    BY <2>1, <2>2, <1>1, <1>2 DEF StreamInv, ServerInv, Foreground, Background
<1>7. WireInv'
  <2> SUFFICES ASSUME relay.pc = "relaying"
               PROVE  /\ Segment(f, relay.expected - 1, events)
                      /\ relay.expected - 1 + Len(f) = server.cursor + 1
    BY <1>1, <1>2, <1>4 DEF WireInv, Foreground
  <2>1. /\ Segment(up.frames, relay.expected - 1, events) /\ relay.expected - 1 \in Nat
        /\ relay.expected - 1 + Len(up.frames) = server.cursor /\ up.frames \in Seq(Events)
        /\ events \in Seq(Events)
    BY <1>1, Fields DEF StreamInv, WireInv
  <2>2. relay.expected - 1 + Len(up.frames) < Len(events)
    BY <2>1, <1>2, Fields DEF StreamInv
  <2>3. e = events[(relay.expected - 1) + Len(up.frames) + 1]
    BY <2>1, <1>2
  <2>4. PICK k \in Nat : k = relay.expected - 1
    BY <2>1
  <2>5. Segment(f, k, events) /\ Len(f) = Len(up.frames) + 1
    BY <2>1, <2>2, <2>3, <2>4, SegmentAppend
  <2>6. k + (Len(up.frames) + 1) = server.cursor + 1
    <3>1. Len(up.frames) \in Nat
      BY <2>1
    <3>2. QED
      BY <3>1, <2>1, <2>4
  <2>7. QED
    BY <2>4, <2>5, <2>6
<1>8. Extends(events', events)
  BY <1>1, SameExtends DEF StreamInv, StreamTypeOK
<1>9. CallerInv'
  BY <1>1, <1>5, <1>8, CallerKeeps DEF StreamInv
<1>10. client.pc \notin {"asking", "refused"}
  BY <1>1, IsAsked DEF StreamInv
<1>11. QED
  BY <1>1, <1>5, <1>6, <1>7, <1>9, <1>10, QuietHolds DEF StoreFrame

\* A line is written: it is the one that follows.
LEMMA WriteLineHolds == StreamInv /\ WriteLine => StreamInv'
<1> SUFFICES ASSUME StreamInv, WriteLine PROVE StreamInv'
  OBVIOUS
<1> USE DEF procVars, storeVars, netVars
<1>1. /\ Background /\ server.pc = "batch" /\ server.batch # <<>>
      /\ UNCHANGED <<process, pipe, emitted, reads, runner, events, output, version, up, down,
                     relay, client>>
  BY DEF WriteLine, ServerAt
<1>2. Extends(events', events)
  BY <1>1, SameExtends DEF StreamInv, StreamTypeOK
<1>3. client.pc \notin {"asking", "refused"}
  BY <1>1, IsAsked DEF StreamInv
<1>4. CASE file' = [file EXCEPT !.partial = TRUE] /\ UNCHANGED server
  <2>1. file' \in Files /\ file'.lines = file.lines
    BY <1>4 DEF StreamInv, StreamTypeOK, Files
  <2>2. StreamTypeOK'
    BY <2>1, <1>1, <1>4 DEF StreamInv, StreamTypeOK
  <2>3. ServerInv' /\ WireInv' /\ CallerInv'
    BY <2>1, <2>2, <1>1, <1>2, <1>4, ServerKeeps, WireKeeps, CallerKeeps DEF StreamInv
  <2>4. QED
    BY <2>2, <2>3, <1>1, <1>3, QuietHolds DEF StoreFrame
<1>5. CASE /\ file' = [file EXCEPT !.partial = FALSE,
                                   !.lines = Append(@, Head(server.batch))]
           /\ Advance("batch")
  <2> DEFINE e == Head(server.batch)
             f == Append(file.lines, e)
  <2>1. /\ e = events[server.cursor + 1] /\ e \in Events
        /\ server.cursor + 1 \in 1 .. Len(events)
        /\ server' \in Servers /\ server'.cursor = server.cursor + 1
        /\ server'.kind = server.kind /\ server'.batch \in Seq(Events)
        /\ Segment(server'.batch, server.cursor + 1, events)
    BY <1>1, <1>5, HeadFollows
  <2> HIDE DEF e
  <2>2. /\ Segment(file.lines, 0, events) /\ Len(file.lines) = server.cursor
        /\ file.lines \in Seq(Events) /\ events \in Seq(Events) /\ server.cursor \in Nat
    BY <1>1, Fields DEF StreamInv, ServerInv
  <2>3. f \in Seq(Events) /\ Len(f) = server.cursor + 1 /\ Segment(f, 0, events)
    <3>1. 0 + Len(file.lines) < Len(events) /\ e = events[0 + Len(file.lines) + 1]
      BY <2>1, <2>2
    <3>2. QED
      BY <3>1, <2>2, SegmentAppend
  <2>4. file' \in Files /\ file'.lines = f
    <3> HIDE DEF f
    <3>1. file' = [file EXCEPT !.partial = FALSE, !.lines = f]
      BY <1>5 DEF f, e
    <3>2. QED
      BY <3>1, <2>3 DEF StreamInv, StreamTypeOK, Files
  <2>5. StreamTypeOK'
    BY <2>1, <2>4, <1>1 DEF StreamInv, StreamTypeOK
  <2>6. ServerInv'
    <3>1. server.cursor + 1 <= Len(events)
      BY <2>1, <2>2
    <3>2. QED
      BY <3>1, <2>1, <2>3, <2>4, <1>1 DEF ServerInv, Background
  <2>7. WireInv'
    BY <2>1, <1>1 DEF StreamInv, WireInv, Background, Foreground
  <2>8. CallerInv'
    BY <2>5, <1>1, <1>2, CallerKeeps DEF StreamInv
  <2>9. QED
    BY <2>5, <2>6, <2>7, <2>8, <1>1, <1>3, QuietHolds DEF StoreFrame
<1>6. QED
  BY <1>4, <1>5 DEF WriteLine

\* The runner forgets the execution.
LEMMA EvictHolds == StreamInv /\ Evict => StreamInv'
<1> SUFFICES ASSUME StreamInv, Evict PROVE StreamInv'
  OBVIOUS
<1> USE DEF procVars, storeVars, netVars, Evict
<1>1. file' \in Files /\ file'.lines = file.lines
  BY DEF StreamInv, StreamTypeOK, Files
<1>2. StreamTypeOK'
  BY <1>1 DEF StreamInv, StreamTypeOK
<1>3. Extends(events', events)
  BY SameExtends DEF StreamInv, StreamTypeOK
<1>4. ServerInv' /\ WireInv' /\ CallerInv'
  BY <1>1, <1>2, <1>3, ServerKeeps, WireKeeps, CallerKeeps DEF StreamInv
<1>5. client.pc \notin {"asking", "refused"}
  BY IsAsked DEF StreamInv
<1>6. QED
  BY <1>2, <1>4, <1>5, QuietHolds DEF StoreFrame

-----------------------------------------------------------------------------
(* sandboxd between the two connections. *)

\* sandboxd relays the frame whose number it expects.
LEMMA RelayFrameHolds == StreamInv /\ RelayFrame => StreamInv'
<1> SUFFICES ASSUME StreamInv, RelayFrame PROVE StreamInv'
  OBVIOUS
<1> USE DEF procVars, storeVars
<1> DEFINE e == Head(up.frames)
           t == Tail(up.frames)
           f == Append(down.frames, e)
<1>1. /\ relay.pc = "relaying" /\ up.frames # <<>> /\ ~down.broken
      /\ up' = [up EXCEPT !.frames = t]
      /\ down' = [down EXCEPT !.frames = f]
      /\ relay' = [relay EXCEPT !.expected = relay.expected + 1, !.terminal = IsTerminal(e)]
      /\ UNCHANGED <<process, pipe, emitted, reads, runner, events, output, version, server, file,
                     client>>
  BY DEF RelayFrame, Room, StreamInv, StreamTypeOK, Relays, Connections
<1>2. /\ events \in Seq(Events) /\ up.frames \in Seq(Events) /\ down.frames \in Seq(Events)
      /\ relay.expected \in Nat \ {0} /\ Len(client.got) \in Nat /\ client.got \in Seq(Events)
      /\ Segment(up.frames, relay.expected - 1, events)
      /\ server.cursor \in Nat /\ Len(events) \in Nat
  BY <1>1, Fields DEF StreamInv, WireInv
<1>3. /\ e = events[relay.expected] /\ e \in Events /\ relay.expected \in 1 .. Len(events)
      /\ t \in Seq(Events) /\ Len(t) = Len(up.frames) - 1 /\ Segment(t, relay.expected, events)
  <2>1. PICK k \in Nat : k = relay.expected - 1
    BY <1>2
  <2>2. /\ e = events[k + 1] /\ e \in Events /\ k + 1 \in 1 .. Len(events)
        /\ t \in Seq(Events) /\ Len(t) = Len(up.frames) - 1 /\ Segment(t, k + 1, events)
    BY <2>1, <1>1, <1>2, SegmentHead
  <2>3. k + 1 = relay.expected
    BY <2>1, <1>2
  <2>4. QED
    BY <2>2, <2>3
<1>4. f \in Seq(Events) /\ IsTerminal(e) \in BOOLEAN
  BY <1>2, <1>3 DEF IsTerminal
<1> HIDE DEF e, t
<1>5. /\ up' \in Connections /\ up'.frames = t /\ up'.broken = up.broken
  <2>1. up' \in Connections
    BY <1>1, <1>3, ConnectionTypes DEF StreamInv, StreamTypeOK
  <2>2. QED
    BY <2>1, <1>1 DEF StreamInv, StreamTypeOK, Connections
<1>6. /\ down' \in Connections /\ down'.frames = f /\ down'.broken = down.broken
  <2> HIDE DEF f
  <2>1. down' \in Connections
    BY <1>1, <1>4, ConnectionTypes DEF StreamInv, StreamTypeOK
  <2>2. QED
    BY <2>1, <1>1 DEF StreamInv, StreamTypeOK, Connections
<1>7. relay' \in Relays /\ relay'.pc = "relaying" /\ relay'.expected = relay.expected + 1
  <2>1. relay.expected + 1 \in Nat \ {0}
    BY <1>2
  <2>2. QED
    BY <2>1, <1>1, <1>4 DEF StreamInv, StreamTypeOK, Relays
<1>8. StreamTypeOK'
  BY <1>1, <1>5, <1>6, <1>7 DEF StreamInv, StreamTypeOK
<1>9. Extends(events', events)
  BY <1>1, SameExtends DEF StreamInv, StreamTypeOK
<1>10. ServerInv'
  BY <1>1, <1>8, <1>9, ServerKeeps DEF StreamInv
<1>11. WireInv'
  <2>1. (relay.expected + 1) - 1 = relay.expected /\ Len(up.frames) \in Nat
    BY <1>2
  <2>2. ~up.broken => relay.expected + Len(t) = server.cursor
    <3>1. ~up.broken => relay.expected - 1 + Len(up.frames) = server.cursor
      BY <1>1 DEF StreamInv, WireInv
    <3>2. QED
      BY <3>1, <2>1, <1>2, <1>3
  <2>3. QED
    BY <2>1, <2>2, <1>1, <1>3, <1>5, <1>7 DEF StreamInv, WireInv, Foreground
<1>12. CallerInv'
  <2>1. ASSUME client.pc = "reading"
        PROVE  /\ Segment(f, Len(client.got), events)
               /\ Len(client.got) + Len(f) = (relay.expected + 1) - 1
    <3>1. /\ Segment(down.frames, Len(client.got), events)
          /\ Len(client.got) + Len(down.frames) = relay.expected - 1
      BY <2>1, <1>1 DEF StreamInv, CallerInv
    <3>2. PICK k \in Nat, m \in Nat, x \in Nat :
             k = Len(client.got) /\ m = Len(down.frames) /\ x = relay.expected
      BY <1>2
    <3>3. k + m = x - 1 /\ x \in 1 .. Len(events) /\ Len(events) \in Nat
      BY <3>1, <3>2, <1>2, <1>3
    <3>4. k + m < Len(events) /\ k + m + 1 = x
      BY <3>3
    <3>5. Segment(f, k, events) /\ Len(f) = m + 1
      <4>1. e = events[k + Len(down.frames) + 1] /\ k + Len(down.frames) < Len(events)
        BY <3>2, <3>4, <1>3
      <4>2. Segment(down.frames, k, events)
        BY <3>1, <3>2
      <4>3. Segment(f, k, events) /\ Len(f) = Len(down.frames) + 1
        <5>1. events \in Seq(Events) /\ down.frames \in Seq(Events)
          BY <1>2
        <5>2. QED
          BY <5>1, <4>1, <4>2, SegmentAppend, Zenon DEF f
      <4>4. QED
        BY <4>3, <3>2
    <3> HIDE DEF f
    <3>6. k + Len(f) = (x + 1) - 1
      BY <3>4, <3>5
    <3>7. QED
      BY <3>2, <3>5, <3>6
  <2> HIDE DEF f
  <2>2. QED
    BY <2>1, <1>1, <1>6, <1>7 DEF StreamInv, CallerInv
<1>13. client.pc \notin {"asking", "refused"}
  BY <1>1, IsAsked DEF StreamInv
<1>14. QED
  BY <1>1, <1>8, <1>10, <1>11, <1>12, <1>13, QuietHolds DEF StoreFrame

\* sandboxd lets go of the execution, for whatever reason.
LEMMA RelayStopsHold == StreamInv /\ (RelayEnds \/ ClientGone \/ SandboxdDies) => StreamInv'
<1> SUFFICES ASSUME StreamInv, RelayEnds \/ ClientGone \/ SandboxdDies PROVE StreamInv'
  OBVIOUS
<1> USE DEF procVars, storeVars
<1>1. /\ relay.pc = "relaying" /\ relay' = [relay EXCEPT !.pc = "ended"]
      /\ \E b \in BOOLEAN : up' = [up EXCEPT !.broken = b, !.frames = <<>>]
      /\ \/ down' = down \/ down' = [down EXCEPT !.ended = TRUE]
         \/ down' = [down EXCEPT !.broken = TRUE]
      /\ UNCHANGED <<process, pipe, emitted, reads, runner, events, output, version, server, file,
                     client>>
  <2>1. CASE RelayEnds
    <3>1. (~up.ended \/ up.frames # <<>> \/ up.broken) \in BOOLEAN
      BY Zenon
    <3>2. QED
      BY <2>1, <3>1, Zenon DEF RelayEnds
  <2>2. CASE ClientGone
    BY <2>2, Zenon DEF ClientGone
  <2>3. CASE SandboxdDies
    BY <2>3, Zenon DEF SandboxdDies
  <2>4. QED
    BY <2>1, <2>2, <2>3
<1>2. /\ relay' \in Relays /\ relay'.pc = "ended" /\ relay'.expected = relay.expected
  BY <1>1 DEF StreamInv, StreamTypeOK, Relays
<1>3. up' \in Connections
  <2>1. <<>> \in Seq(Events)
    OBVIOUS
  <2>2. QED
    <3>1. PICK b \in BOOLEAN : up' = [up EXCEPT !.broken = b, !.frames = <<>>]
      BY <1>1
    <3>2. up \in Connections
      BY DEF StreamInv, StreamTypeOK
    <3>3. QED
      BY <3>1, <3>2, <2>1 DEF Connections
<1>4. down' \in Connections /\ down'.frames = down.frames
  BY <1>1 DEF StreamInv, StreamTypeOK, Connections
<1>5. StreamTypeOK'
  BY <1>1, <1>2, <1>3, <1>4 DEF StreamInv, StreamTypeOK
<1>6. Extends(events', events)
  BY <1>1, SameExtends DEF StreamInv, StreamTypeOK
<1>7. ServerInv'
  BY <1>1, <1>5, <1>6, ServerKeeps DEF StreamInv
<1>8. WireInv'
  BY <1>2 DEF WireInv
<1>9. CallerInv'
  BY <1>1, <1>2, <1>4 DEF StreamInv, CallerInv
<1>10. client.pc \notin {"asking", "refused"}
  BY <1>1, IsAsked DEF StreamInv
<1>11. QED
  BY <1>1, <1>5, <1>7, <1>8, <1>9, <1>10, QuietHolds DEF StoreFrame

-----------------------------------------------------------------------------
(* The pages of the log. *)

Rest(c) == SubSeq(file.lines, c + 1, Len(file.lines))
Fits(rest, n) == n <= PageEvents /\ Weight(SubSeq(rest, 1, n)) <= PageBytes
Counted(rest) == CHOOSE n \in 0 .. Len(rest) : Fits(rest, n) /\ ~(n < Len(rest) /\ Fits(rest, n + 1))

\* There is a longest run of lines that fits a page: the empty one fits.
LEMMA CountIsThere ==
    ASSUME NEW rest \in Seq(Events)
    PROVE  Counted(rest) \in 0 .. Len(rest)
<1> DEFINE T == {n \in Nat : ~(n < Len(rest) /\ Fits(rest, n + 1))}
<1>1. Len(rest) \in Nat /\ Len(rest) \in T
  OBVIOUS
<1>2. PICK m \in T : \A n \in T : m <= n
  <2>1. T \in SUBSET Nat /\ T # {}
    BY <1>1
  <2> HIDE DEF T
  <2>2. QED
    BY <2>1, LeastNumber
<1>3. m \in 0 .. Len(rest) /\ m \in Nat /\ ~(m < Len(rest) /\ Fits(rest, m + 1))
  BY <1>1, <1>2
<1>4. Fits(rest, m)
  <2>1. CASE m = 0
    <3>1. SubSeq(rest, 1, 0) = <<>> /\ Len(<<>>) = 0
      OBVIOUS
    <3>2. Weight(<<>>) = 0 + 0
      BY <3>1, BytesProperties, Zenon DEF Weight
    <3>3. 0 <= PageEvents /\ 0 + 0 <= PageBytes
      BY StreamAssumption
    <3>4. QED
      BY <2>1, <3>1, <3>2, <3>3 DEF Fits
  <2>2. CASE m # 0
    <3>1. m - 1 \in Nat /\ ~(m <= m - 1) /\ (m - 1) + 1 = m
      BY <2>2, <1>3
    <3>2. m - 1 \notin T
      BY <3>1, <1>2
    <3>3. Fits(rest, (m - 1) + 1)
      BY <3>1, <3>2
    <3>4. QED
      BY <3>1, <3>3
  <2>3. QED
    BY <2>1, <2>2
<1>5. \E n \in 0 .. Len(rest) : Fits(rest, n) /\ ~(n < Len(rest) /\ Fits(rest, n + 1))
  BY <1>3, <1>4
<1>6. QED
  BY <1>5, Zenon DEF Counted

PageKind(c) ==
    IF c > Len(file.lines) THEN "invalidCursor"
    ELSE IF Counted(Rest(c)) = 0 /\ Rest(c) # <<>> THEN "corrupt" ELSE "page"
PageEnds(c) ==
    \E i \in 1 .. Len(file.lines) :
       IsTerminal(file.lines[i]) /\ file.lines[i].seq <= c + Counted(Rest(c))

\* The parts of a page.
LEMMA LogPageFields ==
    ASSUME NEW c
    PROVE  /\ LogPage(c) = [kind |-> PageKind(c), events |-> SubSeq(Rest(c), 1, Counted(Rest(c))),
                            next |-> c + Counted(Rest(c)), complete |-> PageEnds(c)]
           /\ LogPage(c).events = SubSeq(Rest(c), 1, Counted(Rest(c)))
           /\ LogPage(c).next = c + Counted(Rest(c))
           /\ LogPage(c).kind = PageKind(c)
           /\ LogPage(c).complete <=> PageEnds(c)
<1>1. LogPage(c) = [kind |-> PageKind(c), events |-> SubSeq(Rest(c), 1, Counted(Rest(c))),
                    next |-> c + Counted(Rest(c)), complete |-> PageEnds(c)]
  BY Zenon DEF LogPage, Rest, Counted, Fits, PageKind, PageEnds
<1>2. /\ LogPage(c).events = SubSeq(Rest(c), 1, Counted(Rest(c)))
      /\ LogPage(c).next = c + Counted(Rest(c)) /\ LogPage(c).kind = PageKind(c)
  <2>1. PICK n : n = c + Counted(Rest(c))
    OBVIOUS
  <2>2. LogPage(c) = [kind |-> PageKind(c), events |-> SubSeq(Rest(c), 1, Counted(Rest(c))),
                      next |-> n, complete |-> PageEnds(c)]
    BY <2>1, <1>1, Zenon
  <2>3. LogPage(c).next = n
    BY <2>2
  <2>4. LogPage(c).kind = PageKind(c)
    BY <2>2
  <2>5. LogPage(c).events = SubSeq(Rest(c), 1, Counted(Rest(c)))
    <3>1. PICK s : s = SubSeq(Rest(c), 1, Counted(Rest(c)))
      OBVIOUS
    <3>2. LogPage(c) = [kind |-> PageKind(c), events |-> s, next |-> n, complete |-> PageEnds(c)]
      BY <3>1, <2>2, Zenon
    <3>3. LogPage(c).events = s
      BY <3>2
    <3>4. QED
      BY <3>1, <3>3, Zenon
  <2>6. QED
    BY <2>1, <2>3, <2>4, <2>5
<1>3. LogPage(c).complete <=> PageEnds(c)
  BY <1>1
<1>4. QED
  BY <1>1, <1>2, <1>3

\* A page that passes the checks on its way holds the events that follow the cursor, and
\* one that says it is the last one ends with the store.
PageInv(page, c) ==
    /\ page \in Pages /\ Segment(page.events, c, events)
    /\ page.next = c + Len(page.events)
    /\ page.complete => page.next = Len(events) /\ Finished(events)

\* A page that BackgroundLogReader.Read cuts out of the log file.
LEMMA LogPageHolds ==
    ASSUME StreamInv, NEW c \in Nat, PageIsValid(LogPage(c), c)
    PROVE  PageInv(LogPage(c), c)
<1> DEFINE rest == Rest(c)
           n == Counted(rest)
<1>1. /\ file.lines \in Seq(Events) /\ Segment(file.lines, 0, events) /\ events \in Seq(Events)
      /\ Len(events) \in Nat
  BY Fields DEF StreamInv, ServerInv
<1>2. c <= Len(file.lines)
  <2>1. PageKind(c) = "page"
    BY LogPageFields DEF PageIsValid
  <2>2. ~(c > Len(file.lines))
    BY <2>1 DEF PageKind
  <2>3. QED
    BY <2>2, <1>1
<1>3. rest \in Seq(Events) /\ Len(rest) = Len(file.lines) - c /\ Segment(rest, c, file.lines)
  BY <1>1, <1>2, SegmentRest DEF Rest
<1> HIDE DEF rest
<1>4. n \in 0 .. Len(rest) /\ n \in Nat
  <2>1. n \in 0 .. Len(rest)
    BY <1>3, CountIsThere
  <2> HIDE DEF n
  <2>2. QED
    BY <2>1
<1> HIDE DEF n
<1>5. PICK s : s = SubSeq(rest, 1, n)
  OBVIOUS
<1>6. s \in Seq(Events) /\ Len(s) = n /\ Segment(s, c, file.lines)
  BY <1>1, <1>3, <1>4, <1>5, SegmentPrefix
<1>7. Segment(s, c, events)
  BY <1>1, <1>6, SegmentTrans
<1>8. LogPage(c).events = s /\ LogPage(c).next = c + n
  BY <1>5, LogPageFields DEF rest, n
<1>9. LogPage(c) \in Pages
  <2>1. PageKind(c) \in {"none", "page", "invalidCursor", "corrupt"}
    BY DEF PageKind
  <2>2. PageEnds(c) \in BOOLEAN
    BY Zenon DEF PageEnds
  <2>3. PICK m : m = c + n
    OBVIOUS
  <2>4. m \in Nat
    BY <2>3, <1>4
  <2>5. LogPage(c) = [kind |-> PageKind(c), events |-> s, next |-> m, complete |-> PageEnds(c)]
    <3>1. LogPage(c) = [kind |-> PageKind(c), events |-> SubSeq(Rest(c), 1, Counted(Rest(c))),
                        next |-> c + Counted(Rest(c)), complete |-> PageEnds(c)]
      BY LogPageFields, Zenon
    <3>2. QED
      BY <3>1, <2>3, <1>5, Zenon DEF rest, n
  <2>6. QED
    BY <2>1, <2>2, <2>4, <2>5, <1>6 DEF Pages
<1>10. ASSUME LogPage(c).complete PROVE c + n = Len(events) /\ Finished(events)
  <2>1. PageEnds(c)
    BY <1>10, LogPageFields
  <2>2. PICK i \in 1 .. Len(file.lines) : IsTerminal(file.lines[i]) /\ file.lines[i].seq <= c + n
    BY <2>1, Zenon DEF PageEnds, n, rest
  <2>3. i \in 1 .. Len(events) /\ file.lines[i] = events[i] /\ i \in Nat
    BY <1>1 DEF Segment
  <2>4. events[i].seq = i /\ i = Len(events)
    BY <2>2, <2>3 DEF StreamInv, StoreInv
  <2>5. Len(events) <= c + n
    BY <2>2, <2>3, <2>4
  <2>6. c + n <= Len(events)
    BY <1>6, <1>7 DEF Segment
  <2>7. c + n = Len(events)
    BY <2>5, <2>6, <1>1, <1>4
  <2>8. Finished(events)
    BY <2>2, <2>3, <2>4, <1>1, LastIsLast
  <2>9. QED
    BY <2>7, <2>8
<1>11. QED
  BY <1>6, <1>7, <1>8, <1>9, <1>10 DEF PageInv

\* The same after the API has cut it to its own limits.
LEMMA LimitPageHolds ==
    ASSUME StreamInv, NEW c \in Nat, NEW page, PageInv(page, c), NEW limit \in Nat \ {0}
    PROVE  PageInv(LimitPage(page, limit), c)
<1>1. /\ page \in Pages /\ Segment(page.events, c, events) /\ page.events \in Seq(Events)
      /\ events \in Seq(Events) /\ Len(events) \in Nat
  BY Fields DEF StreamInv, PageInv, Pages
<1>2. CASE Len(page.events) <= limit
  BY <1>2 DEF LimitPage
<1>3. CASE ~(Len(page.events) <= limit)
  <2> DEFINE kept == SubSeq(page.events, 1, limit)
             p == LimitPage(page, limit)
  <2>1. limit \in 0 .. Len(page.events)
    BY <1>1, <1>3
  <2>2. kept \in Seq(Events) /\ Len(kept) = limit /\ Segment(kept, c, events)
    BY <2>1, <1>1, SegmentPrefix
  <2>3. p = [page EXCEPT !.events = kept, !.next = Last(kept).seq,
                         !.complete = IsTerminal(Last(kept))]
    BY <1>3 DEF LimitPage
  <2> HIDE DEF kept, p
  <2>4. Last(kept) = events[c + limit] /\ c + limit \in 1 .. Len(events)
    <3>1. kept # <<>> /\ Last(kept) = kept[limit]
      BY <2>2, LastIsLast
    <3>2. limit \in 1 .. Len(kept) /\ c + limit \in 1 .. Len(events)
      BY <2>2, <1>1 DEF Segment
    <3>3. kept[limit] = events[c + limit]
      BY <2>2, <3>2 DEF Segment
    <3>4. QED
      BY <3>1, <3>2, <3>3
  <2>5. /\ Last(kept).seq = c + limit /\ c + limit \in Nat
        /\ IsTerminal(Last(kept)) => c + limit = Len(events)
    BY <2>4 DEF StreamInv, StoreInv
  <2>6. IsTerminal(Last(kept)) \in BOOLEAN
    BY Zenon DEF IsTerminal
  <2>7. p \in Pages
    BY <2>2, <2>3, <2>5, <2>6, <1>1 DEF Pages
  <2>8. p.events = kept /\ p.next = Last(kept).seq
    BY <2>3, <1>1 DEF Pages
  <2>9. p.complete => IsTerminal(Last(kept))
    BY <2>3, <1>1 DEF Pages
  <2>10. IsTerminal(Last(kept)) => Finished(events)
    <3>1. Len(events) > 0
      BY <2>4, <1>1
    <3>2. QED
      BY <3>1, <2>4, <2>5, <1>1, LastIsLast
  <2>11. QED
    BY <2>2, <2>5, <2>7, <2>8, <2>9, <2>10 DEF PageInv, p
<1>4. QED
  BY <1>2, <1>3

-----------------------------------------------------------------------------
(* The callers. *)

\* A step of the caller alone, and perhaps of its connection.
LEMMA CallerStepHolds ==
    ASSUME StreamInv, client' \in Clients, down' \in Connections,
           UNCHANGED <<process, pipe, emitted, reads, runner, events, output, version, server, file,
                       up, relay>>,
           client'.pc \notin {"asking", "refused"}, CallerInv'
    PROVE  StreamInv'
<1>1. StreamTypeOK'
  BY DEF StreamInv, StreamTypeOK
<1>2. Extends(events', events)
  BY SameExtends DEF StreamInv, StreamTypeOK
<1>3. ServerInv' /\ WireInv'
  BY <1>1, <1>2, ServerKeeps, WireKeeps DEF StreamInv
<1>4. QED
  BY <1>1, <1>3, QuietHolds DEF StoreFrame

\* The caller takes the frame whose number it expects.
LEMMA ReceiveHolds == StreamInv /\ Receive => StreamInv'
<1> SUFFICES ASSUME StreamInv, Receive PROVE StreamInv'
  OBVIOUS
<1> USE DEF procVars, storeVars
<1> DEFINE e == Head(down.frames)
           t == Tail(down.frames)
           g == Append(client.got, e)
           p == IF IsTerminal(e) THEN "complete" ELSE "reading"
           k == Len(client.got)
<1>1. /\ client.pc = "reading" /\ down.frames # <<>>
      /\ UNCHANGED <<process, pipe, emitted, reads, runner, events, output, version, server, file,
                     up, relay>>
  BY DEF Receive
<1>2. /\ events \in Seq(Events) /\ client.got \in Seq(Events) /\ down.frames \in Seq(Events)
      /\ k \in Nat /\ Len(events) \in Nat
      /\ Segment(down.frames, k, events) /\ Segment(client.got, 0, events)
  BY <1>1, Fields DEF StreamInv, CallerInv
<1>3. /\ e = events[k + 1] /\ e \in Events /\ k + 1 \in 1 .. Len(events)
      /\ t \in Seq(Events) /\ Len(t) = Len(down.frames) - 1 /\ Segment(t, k + 1, events)
  BY <1>1, <1>2, SegmentHead
<1>4. e.seq = k + 1
  BY <1>3 DEF StreamInv, StoreInv
<1>5. client' = [client EXCEPT !.got = g, !.pc = p]
  BY <1>4 DEF Receive
<1>6. \E b \in BOOLEAN : /\ down' = [down EXCEPT !.frames = t, !.broken = b]
                         /\ down.broken => b
  <2>1. down' = [down EXCEPT !.frames = t, !.broken = @ \/ client'.pc # "reading"]
    BY DEF Receive
  <2>2. (down.broken \/ client'.pc # "reading") \in BOOLEAN
    BY Zenon
  <2>3. QED
    BY <2>1, <2>2, Zenon
<1>7. g \in Seq(Events) /\ Len(g) = k + 1 /\ Segment(g, 0, events)
  <2>1. 0 + Len(client.got) < Len(events) /\ e = events[0 + Len(client.got) + 1]
    BY <1>2, <1>3
  <2> HIDE DEF e
  <2>2. QED
    BY <2>1, <1>2, SegmentAppend
<1>8. IsTerminal(e) => k + 1 = Len(events) /\ Finished(events)
  <2>1. IsTerminal(e) => k + 1 = Len(events)
    BY <1>3 DEF StreamInv, StoreInv
  <2>2. k + 1 = Len(events) /\ IsTerminal(events[k + 1]) => Finished(events)
    BY <1>2, LastIsLast
  <2> HIDE DEF e
  <2>3. QED
    BY <2>1, <2>2, <1>3
<1>9. p \in {"complete", "reading"} /\ (p = "complete" => IsTerminal(e))
  OBVIOUS
<1> HIDE DEF e, t, g, p
<1>10. client' \in Clients
  BY <1>5, <1>7, <1>9, ClientTypes DEF StreamInv, ClientPC
<1>11. client'.pc = p /\ client'.got = g
  BY <1>5 DEF StreamInv, StreamTypeOK, Clients
<1>12. PICK b \in BOOLEAN : down' = [down EXCEPT !.frames = t, !.broken = b] /\ (down.broken => b)
  BY <1>6
<1>13. down \in Connections
  BY DEF StreamInv, StreamTypeOK
<1>14. down' \in Connections
  BY <1>3, <1>12, <1>13 DEF Connections
<1>15. down'.frames = t /\ (down.broken => down'.broken)
  BY <1>12, <1>13 DEF Connections
<1>16. CallerInv'
  <2>1. ASSUME p = "reading" PROVE relay.pc = "relaying" /\ ~down'.broken
                                     => Len(g) + Len(t) = relay.expected - 1
    <3>1. relay.pc = "relaying" /\ ~down'.broken
            => k + Len(down.frames) = relay.expected - 1
      BY <1>1, <1>15 DEF StreamInv, CallerInv
    <3>2. PICK x \in Nat, y \in Nat : x = k /\ y = Len(down.frames)
      BY <1>2
    <3>3. (x + 1) + (y - 1) = x + y
      OBVIOUS
    <3>4. QED
      BY <3>1, <3>2, <3>3, <1>3, <1>7
  <2>2. Segment(t, Len(g), events)
    BY <1>3, <1>7
  <2>3. p \notin {"wait", "logs", "page"}
    BY <1>9
  <2> HIDE DEF k
  <2>4. p = "complete" => Len(g) = Len(events) /\ Finished(events)
    BY <1>7, <1>8, <1>9
  <2>5. QED
    BY <2>1, <2>2, <2>3, <2>4, <1>1, <1>7, <1>11, <1>15 DEF CallerInv
<1>17. QED
  BY <1>1, <1>9, <1>10, <1>11, <1>14, <1>16, CallerStepHolds

\* The caller goes away.
LEMMA LeaveHolds == StreamInv /\ Leave => StreamInv'
<1> SUFFICES ASSUME StreamInv, Leave PROVE StreamInv'
  OBVIOUS
<1> USE DEF procVars, storeVars, Leave
<1>1. client' \in Clients
  BY ClientTypes DEF StreamInv, ClientPC
<1>2. client'.pc = "gone" /\ client'.got = client.got
  BY DEF StreamInv, StreamTypeOK, Clients
<1>3. down' \in Connections
  <2>1. <<>> \in Seq(Events)
    OBVIOUS
  <2>2. QED
    BY <2>1 DEF StreamInv, StreamTypeOK, Connections
<1>4. CallerInv'
  BY <1>2 DEF StreamInv, CallerInv
<1>5. QED
  BY <1>1, <1>2, <1>3, <1>4, CallerStepHolds

\* The caller only turns to something else.
LEMMA TurnsHold == StreamInv /\ (StreamCut \/ PollStatus \/ ReadAlong) => StreamInv'
<1> SUFFICES ASSUME StreamInv, StreamCut \/ PollStatus \/ ReadAlong PROVE StreamInv'
  OBVIOUS
<1> USE DEF procVars, storeVars, netVars
<1>1. /\ UNCHANGED <<process, pipe, emitted, reads, runner, events, output, version, server, file,
                     up, down, relay>>
      /\ \/ client' = [client EXCEPT !.pc = "error"]
         \/ client.pc = "wait" /\ client' = [client EXCEPT !.pc = "logs"]
         \/ client.pc = "wait" /\ client' = [client EXCEPT !.pc = "wait"]
  BY DEF StreamCut, PollStatus, ReadAlong
<1>2. client' \in Clients
  BY <1>1, ClientTypes DEF StreamInv, ClientPC
<1>3. /\ client'.got = client.got /\ client'.cursor = client.cursor
      /\ \/ client'.pc = "error"
         \/ client.pc = "wait" /\ client'.pc \in {"logs", "wait"}
  BY <1>1 DEF StreamInv, StreamTypeOK, Clients
<1>4. CallerInv'
  BY <1>1, <1>3 DEF StreamInv, CallerInv
<1>5. down' \in Connections
  BY <1>1 DEF StreamInv, StreamTypeOK
<1>6. QED
  BY <1>1, <1>2, <1>3, <1>4, <1>5, CallerStepHolds

\* The caller is given a page, which it checks.
LEMMA FetchPageHolds == StreamInv /\ FetchPage => StreamInv'
<1> SUFFICES ASSUME StreamInv, FetchPage PROVE StreamInv'
  OBVIOUS
<1> USE DEF procVars, storeVars, netVars
<1> DEFINE c == client.cursor
<1>1. /\ client.pc = "logs"
      /\ UNCHANGED <<process, pipe, emitted, reads, runner, events, output, version, server, file,
                     up, down, relay>>
  BY DEF FetchPage
<1>2. c \in Nat /\ c = Len(client.got) /\ Segment(client.got, 0, events) /\ down' \in Connections
  BY <1>1, Fields DEF StreamInv, CallerInv, StreamTypeOK
<1>3. CASE client' = [client EXCEPT !.pc = "error"]
  <2>1. client' \in Clients
    BY <1>3, ClientTypes DEF StreamInv, ClientPC
  <2>2. client'.pc = "error" /\ client'.got = client.got
    BY <1>3 DEF StreamInv, StreamTypeOK, Clients
  <2>3. CallerInv'
    BY <2>2, <1>1, <1>2 DEF CallerInv
  <2>4. QED
    BY <2>1, <2>2, <2>3, <1>1, <1>2, CallerStepHolds
<1>4. ASSUME NEW limit \in 1 .. PageEvents, PageIsValid(LogPage(c), c),
             client' = [client EXCEPT !.pc = "page", !.page = LimitPage(LogPage(c), limit)]
      PROVE  StreamInv'
  <2>1. limit \in Nat \ {0}
    BY StreamAssumption
  <2>2. PICK page : page = LimitPage(LogPage(c), limit)
    OBVIOUS
  <2>3. PageInv(page, c)
    BY <2>1, <2>2, <1>2, <1>4, LogPageHolds, LimitPageHolds
  <2>4. page \in Pages
    BY <2>3 DEF PageInv
  <2>5. client' = [client EXCEPT !.pc = "page", !.page = page]
    BY <2>2, <1>4
  <2>6. client' \in Clients
    BY <2>4, <2>5, ClientTypes DEF StreamInv, ClientPC
  <2>7. /\ client'.pc = "page" /\ client'.got = client.got /\ client'.cursor = client.cursor
        /\ client'.page = page
    BY <2>5 DEF StreamInv, StreamTypeOK, Clients
  <2>8. CallerInv'
    BY <2>3, <2>7, <1>1, <1>2 DEF CallerInv, PageInv
  <2>9. QED
    BY <2>6, <2>7, <2>8, <1>1, <1>2, CallerStepHolds
<1>5. \/ client' = [client EXCEPT !.pc = "error"]
      \/ \E limit \in 1 .. PageEvents :
            /\ PageIsValid(LogPage(c), c)
            /\ client' = [client EXCEPT !.pc = "page", !.page = LimitPage(LogPage(c), limit)]
  BY DEF FetchPage
<1>6. QED
  BY <1>3, <1>4, <1>5

\* The page is taken, or lost on its way.
LEMMA PageStepsHold == StreamInv /\ (TakePage \/ LosePage) => StreamInv'
<1> SUFFICES ASSUME StreamInv, TakePage \/ LosePage PROVE StreamInv'
  OBVIOUS
<1> USE DEF procVars, storeVars, netVars
<1>1. /\ client.pc = "page"
      /\ UNCHANGED <<process, pipe, emitted, reads, runner, events, output, version, server, file,
                     up, down, relay>>
  BY DEF TakePage, LosePage
<1>2. /\ client.cursor = Len(client.got) /\ Segment(client.got, 0, events)
      /\ Segment(client.page.events, Len(client.got), events)
      /\ client.page.next = Len(client.got) + Len(client.page.events)
      /\ client.page.complete => client.page.next = Len(events) /\ Finished(events)
  BY <1>1 DEF StreamInv, CallerInv
<1>3. /\ client.got \in Seq(Events) /\ client.page.events \in Seq(Events)
      /\ client.page.next \in Nat /\ events \in Seq(Events) /\ NoPage \in Pages
      /\ down' \in Connections
  BY <1>1, Fields, ClientTypes DEF StreamInv, StreamTypeOK
<1>4. CASE TakePage
  <2> DEFINE g == client.got \o client.page.events
             p == IF client.page.complete THEN "complete" ELSE "logs"
  <2>1. client' = [client EXCEPT !.got = g, !.cursor = client.page.next, !.pc = p, !.page = NoPage]
    BY <1>4 DEF TakePage, StreamInv, StreamTypeOK, Clients
  <2>2. g \in Seq(Events) /\ Len(g) = client.page.next /\ Segment(g, 0, events)
    <3>1. Segment(client.page.events, 0 + Len(client.got), events)
      BY <1>2, <1>3
    <3>2. QED
      BY <3>1, <1>2, <1>3, SegmentConcat
  <2>3. p \in {"complete", "logs"} /\ (p = "complete" => client.page.complete)
    OBVIOUS
  <2> HIDE DEF g, p
  <2>4. client' \in Clients
    BY <2>1, <2>2, <2>3, <1>3, ClientTypes DEF StreamInv, ClientPC
  <2>5. client'.pc = p /\ client'.got = g /\ client'.cursor = client.page.next
    BY <2>1 DEF StreamInv, StreamTypeOK, Clients
  <2>6. CallerInv'
    BY <2>2, <2>3, <2>5, <1>1, <1>2 DEF CallerInv
  <2>7. QED
    BY <2>3, <2>4, <2>5, <2>6, <1>1, <1>3, CallerStepHolds
<1>5. CASE LosePage
  <2>1. client' = [client EXCEPT !.pc = "logs", !.page = NoPage]
    BY <1>5 DEF LosePage
  <2>2. client' \in Clients
    BY <2>1, <1>3, ClientTypes DEF StreamInv, ClientPC
  <2>3. client'.pc = "logs" /\ client'.got = client.got /\ client'.cursor = client.cursor
    BY <2>1 DEF StreamInv, StreamTypeOK, Clients
  <2>4. CallerInv'
    BY <2>3, <1>1, <1>2 DEF CallerInv
  <2>5. QED
    BY <2>2, <2>3, <2>4, <1>1, <1>3, CallerStepHolds
<1>6. QED
  BY <1>4, <1>5

-----------------------------------------------------------------------------
(* The theorems. *)

\* Every step keeps it.
LEMMA NextHolds == StreamInv /\ [Next]_vars => StreamInv'
<1> SUFFICES ASSUME StreamInv, [Next]_vars PROVE StreamInv'
  OBVIOUS
<1>1. CASE Next
  BY <1>1, RefuseHolds, LaunchHolds, EmitHolds, ProcessStepsHold, StoreHolds, TerminateHolds,
     EventsAfterHolds, LoopStepsHold, WriteEventHolds, WriteLineHolds, EvictHolds,
     RelayFrameHolds, RelayStopsHold, ReceiveHolds, LeaveHolds, TurnsHold, FetchPageHolds,
     PageStepsHold
     DEF Next, Supervise, Serve, Forward, Read
<1>2. CASE UNCHANGED vars
  <2>1. UNCHANGED <<process, pipe, emitted, reads, runner, events, output, version, server, file,
                    up, down, relay, client>>
    BY <1>2 DEF vars, procVars, storeVars, netVars
  <2>2. StreamTypeOK'
    BY <2>1 DEF StreamInv, StreamTypeOK
  <2>3. StoreInv' /\ OutputInv'
    BY <2>1, StoreKeeps DEF StreamInv, StoreFrame
  <2>4. ServerInv' /\ WireInv' /\ CallerInv'
    <3>1. Extends(events', events)
      BY <2>1, SameExtends DEF StreamInv, StreamTypeOK
    <3>2. QED
      BY <3>1, <2>1, <2>2, ServerKeeps, WireKeeps, CallerKeeps DEF StreamInv
  <2>5. FreshInv' /\ RefusalInv'
    BY <2>1 DEF StreamInv, FreshInv, RefusalInv
  <2>6. QED
    BY <2>2, <2>3, <2>4, <2>5 DEF StreamInv
<1>3. QED
  BY <1>1, <1>2

\* The invariant of the stream: the store numbers its events and ends with the terminal one,
\* every buffer between it and a caller holds the events that follow its reader's position,
\* and the output is accounted for (EventStore, ForegroundEventStream, BackgroundLogWriter,
\* DecodeSSE, the SDK's streams and pages).
THEOREM StreamInvariant == Spec => []StreamInv
<1>1. Init => StreamInv
  BY InitHolds
<1>2. StreamInv /\ [Next]_vars => StreamInv'
  BY NextHolds
<1>3. QED
  BY <1>1, <1>2, PTL DEF Spec

\* Whatever breaks and however the log is paged, a caller has a gap-free prefix of the
\* execution's events, and one that is told the run is complete has all of them, for every
\* number of frames in flight and every size of page (EventStore, DecodeSSE,
\* BackgroundLogReader.Read, ExecutionService.Logs, EventStream.Next, ExecutionLogs.Next).
THEOREM CallersAreServed == Spec => []CallerSeesTheRun
<1>1. StreamInv => CallerSeesTheRun
  <2> SUFFICES ASSUME StreamInv PROVE CallerSeesTheRun
    OBVIOUS
  <2>1. /\ client.got \in Seq(Events) /\ events \in Seq(Events) /\ Len(events) \in Nat
        /\ Segment(client.got, 0, events)
    BY Fields DEF StreamInv, CallerInv
  <2>2. /\ Len(client.got) <= Len(events)
        /\ \A i \in 1 .. Len(client.got) : client.got[i] = events[i]
    BY <2>1 DEF Segment
  <2>3. client.got = SubSeq(events, 1, Len(client.got))
    <3>1. PICK s : s = SubSeq(events, 1, Len(client.got))
      OBVIOUS
    <3>2. /\ s \in Seq(Events) /\ Len(s) = Len(client.got)
          /\ \A i \in 1 .. Len(client.got) : s[i] = events[i]
      BY <2>1, <2>2, <3>1
    <3>3. client.got = s
      BY <2>1, <2>2, <3>2, SeqEqual
    <3>4. QED
      BY <3>1, <3>3
  <2>4. IsPrefix(client.got, events)
    BY <2>1, <2>2, <2>3 DEF IsPrefix
  <2>5. ASSUME client.pc = "complete" PROVE client.got = events /\ Finished(events)
    <3>1. Len(client.got) = Len(events) /\ Finished(events)
      BY <2>5 DEF StreamInv, CallerInv
    <3>2. client.got = events
      BY <3>1, <2>1, <2>2, SeqEqual
    <3>3. QED
      BY <3>1, <3>2
  <2>6. QED
    BY <2>4, <2>5 DEF CallerSeesTheRun
<1>2. QED
  BY <1>1, StreamInvariant, PTL

\* Every byte of output is accounted for, and a loss is announced once and told with the
\* terminal event, for every limit and every size of reads (AppendOutput, PublishControl).
THEOREM OutputAddsUp == Spec => []OutputIsAccounted
<1>1. StreamInv => OutputIsAccounted
  <2> SUFFICES ASSUME StreamInv PROVE OutputIsAccounted
    OBVIOUS
  <2> DEFINE limits == {i \in 1 .. Len(events) : events[i].type = "limit"}
             lost == Stored > MaxOutputBytes
  <2>1. Bytes(events) = IF lost THEN MaxOutputBytes ELSE Stored
    BY DEF StreamInv, OutputInv
  <2>2. ASSUME lost
        PROVE  /\ Cardinality(limits) = 1
               /\ \A i \in limits, j \in 1 .. Len(events) : events[j].type = "output" => j < i
    <3>1. output.announced
      BY <2>2 DEF StreamInv, OutputInv
    <3>2. PICK k \in 1 .. Len(events) :
             /\ events[k].type = "limit"
             /\ \A i \in 1 .. Len(events) : /\ events[i].type = "limit" => i = k
                                            /\ events[i].type = "output" => i < k
      BY <3>1 DEF StreamInv, OutputInv
    <3>3. limits = {k}
      BY <3>2
    <3>4. Cardinality(limits) = 1
      BY <3>3, FS_Singleton
    <3>5. \A i \in limits, j \in 1 .. Len(events) : events[j].type = "output" => j < i
      BY <3>2, <3>3
    <3>6. QED
      BY <3>4, <3>5
  <2>3. ASSUME ~lost PROVE limits = {} /\ Cardinality(limits) = 0
    <3>1. limits = {}
      BY <2>3 DEF StreamInv, OutputInv
    <3>2. QED
      BY <3>1, FS_EmptySet
  <2>4. ASSUME Finished(events) PROVE Last(events).truncated = lost
    <3>1. Last(events).truncated <=> lost
      BY <2>4 DEF StreamInv, OutputInv
    <3>2. Last(events).truncated \in BOOLEAN
      <4>1. Last(events) \in Events
        BY <2>4, LastIsLast DEF StreamInv, StreamTypeOK, Finished
      <4>2. QED
        BY <4>1 DEF Events
    <3>3. QED
      BY <3>1, <3>2
  <2>5. QED
    BY <2>1, <2>2, <2>3, <2>4 DEF OutputIsAccounted, Stored
<1>2. QED
  BY <1>1, StreamInvariant, PTL

\* A refusal that is not marked retryable is final unless it is for a directory that is not
\* there or for a process that did not start, and a ready runner never asks for a retry, for
\* every request and every situation it meets (executeSandboxHandler and the mappings of its
\* errors).
THEOREM RefusalsAreHonest == Spec => []RefusalIsHonest
<1>1. StreamInv => RefusalIsHonest
  <2> SUFFICES ASSUME StreamInv, client.pc = "refused"
               PROVE  HonestAnswer(client.asked[1], client.asked[2], client.asked[3])
    BY DEF RefusalIsHonest, HonestAnswer
  <2>1. PICK q \in Requests, s \in Situations :
           ~Accepted(ExecuteHandler(q, s)) /\ client.asked = <<q, s, ExecuteHandler(q, s)>>
    BY DEF StreamInv, RefusalInv
  <2>2. client.asked[1] = q /\ client.asked[2] = s /\ client.asked[3] = ExecuteHandler(q, s)
    BY <2>1
  <2>3. HonestAnswer(q, s, ExecuteHandler(q, s))
    BY <2>1, RefusalsAreFinal
  <2>4. QED
    BY <2>2, <2>3
<1>2. QED
  BY <1>1, StreamInvariant, PTL

-----------------------------------------------------------------------------
(***************************************************************************)
(* The runner's registry, for any number of executions, any limits and any *)
(* callers of Shutdown.                                                    *)
(***************************************************************************)
Slots == {e \in Exec : HoldsSlot(e)}

\* A caller that has begun has closed admission.
AdmissionInv == (\E s \in Closer : shutdown[s] # "off") => ~accepting

ManagerInv ==
    /\ TypeOK
    /\ SlotsAreCounted
    /\ WaiterIsNotForgotten
    /\ AdmissionInv
    /\ ShutdownIsFinal
    /\ LogsAreOwned
-----------------------------------------------------------------------------
(* Counting.                                                               *)

\* One more element is one more.
LEMMA OneMore ==
    \A S, x : IsFiniteSet(S) /\ x \notin S
        => Cardinality(S) \in Nat /\ Cardinality(S \cup {x}) = Cardinality(S) + 1
  BY FS_AddElement, FS_CardinalityType

\* One less is one less, and there was one.
LEMMA OneLess ==
    \A S, x : IsFiniteSet(S) /\ x \in S
        => /\ Cardinality(S) \in Nat \ {0}
           /\ Cardinality(S \ {x}) = Cardinality(S) - 1
  BY FS_RemoveElement, FS_CardinalityType, FS_EmptySet

\* If fewer than all but m of C come before e, at least m others do not.
LEMMA AtLeastTheRest ==
    ASSUME NEW C, IsFiniteSet(C), NEW B \in SUBSET C, NEW e \in C \ B,
           NEW R \in SUBSET C, (C \ B) \ {e} \subseteq R,
           NEW m \in Nat, Cardinality(B) + m < Cardinality(C)
    PROVE  Cardinality(R) >= m
<1>1. /\ IsFiniteSet(B) /\ IsFiniteSet(R)
      /\ Cardinality(B) \in Nat /\ Cardinality(C) \in Nat /\ Cardinality(R) \in Nat
  BY FS_Subset, FS_CardinalityType
<1>2. /\ IsFiniteSet(C \ B)
      /\ Cardinality(C \ B) = Cardinality(C) - Cardinality(C \cap B)
  BY FS_Difference
<1>3. C \cap B = B
  OBVIOUS
<1>4. /\ IsFiniteSet((C \ B) \ {e})
      /\ Cardinality((C \ B) \ {e}) = Cardinality(C \ B) - 1
  BY <1>2, FS_RemoveElement
<1>5. Cardinality((C \ B) \ {e}) <= Cardinality(R)
  BY <1>1, FS_Subset
<1>6. QED
  BY <1>1, <1>2, <1>3, <1>4, <1>5

\* The slots are finitely many.
LEMMA SlotsFinite == IsFiniteSet(Slots)
  BY FS_Subset, ManagerAssumption DEF Slots
-----------------------------------------------------------------------------
(* The slots.                                                              *)

\* What each step does to the set of slots, and the counter with it.
LEMMA SlotsStep ==
    ASSUME TypeOK, SlotsAreCounted, ManagerNext
    PROVE  SlotsAreCounted'
<1> USE DEF TypeOK, HoldsSlot, Slots
<1>1. ASSUME NEW e \in Exec, CreateExecution(e) PROVE SlotsAreCounted'
  <2>1. Slots' = Slots \cup {e} /\ e \notin Slots
    BY <1>1 DEF CreateExecution
  <2>2. Cardinality(Slots') = Cardinality(Slots) + 1 /\ Cardinality(Slots) \in Nat
    BY ONLY <2>1, OneMore, SlotsFinite
  <2>3. QED
    BY <1>1, <2>2, ManagerAssumption DEF CreateExecution, SlotsAreCounted
<1>2. ASSUME NEW e \in Exec, Complete(e) PROVE SlotsAreCounted'
  <2>1. Slots' = Slots \ {e} /\ e \in Slots
    BY <1>2 DEF Complete
  <2>2. Cardinality(Slots') = Cardinality(Slots) - 1 /\ Cardinality(Slots) \in Nat \ {0}
    BY ONLY <2>1, OneLess, SlotsFinite
  <2>3. QED
    BY <1>2, <2>2, ManagerAssumption DEF Complete, SlotsAreCounted
<1>3. ASSUME NEW e \in Exec, Ends(e) PROVE SlotsAreCounted'
  <2>1. Slots' = Slots
    BY <1>3 DEF Ends
  <2>2. QED
    BY <1>3, <2>1 DEF Ends, SlotsAreCounted
<1>4. ASSUME NEW at \in Time, Run(at) PROVE SlotsAreCounted'
  <2>1. Slots' = Slots
    BY <1>4 DEF Run, Evicted, Completed
  <2>2. QED
    BY <1>4, <2>1 DEF Run, SlotsAreCounted
<1>5. ASSUME UNCHANGED <<phase, active>> PROVE SlotsAreCounted'
  BY <1>5 DEF SlotsAreCounted
<1>6. QED
  BY <1>1, <1>2, <1>3, <1>4, <1>5
  DEF ManagerNext, OpenLog, Shutdown, Joined, CheckActive, Hear, GiveUp, RemoveLog,
      RemoveLogFails, Tick, gcVars, shutdownVars
-----------------------------------------------------------------------------
(* The rest of the invariant.                                              *)

\* The actions of executions keep it: an admitted one closes nobody's Shutdown, and
\* a completion reaches every waiter.
LEMMA ExecutionKeeps ==
    ASSUME ManagerInv, NEW e \in Exec,
           CreateExecution(e) \/ OpenLog(e) \/ Ends(e) \/ Complete(e),
           SlotsAreCounted'
    PROVE  ManagerInv'
<1> USE DEF ManagerInv, TypeOK, Phase, WaiterIsNotForgotten, AdmissionInv, ShutdownIsFinal,
            LogsAreOwned, Registered, gcVars, shutdownVars
<1>1. CASE CreateExecution(e)
  BY <1>1 DEF CreateExecution
<1>2. CASE OpenLog(e)
  BY <1>2 DEF OpenLog
<1>3. CASE Ends(e)
  BY <1>3 DEF Ends
<1>4. CASE Complete(e)
  <2>1. e \in Slots
    BY <1>4 DEF Complete, Slots, HoldsSlot
  <2>2. active \in Nat \ {0}
    BY <2>1, OneLess, SlotsFinite DEF SlotsAreCounted, Slots
  <2>3. QED
    BY <1>4, <2>2 DEF Complete
<1>5. QED
  BY <1>1, <1>2, <1>3, <1>4

\* The callers of Shutdown keep it: the count and the channel are read together.
LEMMA CloserKeeps ==
    ASSUME ManagerInv, NEW s \in Closer,
           Shutdown(s) \/ Joined(s) \/ CheckActive(s) \/ Hear(s) \/ GiveUp(s),
           SlotsAreCounted'
    PROVE  ManagerInv'
<1> USE DEF ManagerInv, TypeOK, WaiterIsNotForgotten, AdmissionInv, ShutdownIsFinal,
            LogsAreOwned, Registered, gcVars, shutdownVars
<1>1. CASE Shutdown(s)
  <2>1. accepting' \in BOOLEAN
    BY <1>1, Zenon DEF Shutdown
  <2>2. QED
    BY <1>1, <2>1 DEF Shutdown
<1>2. CASE Joined(s)
  BY <1>2 DEF Joined
<1>3. CASE CheckActive(s)
  BY <1>3 DEF CheckActive
<1>4. CASE Hear(s)
  BY <1>4 DEF Hear
<1>5. CASE GiveUp(s)
  BY <1>5 DEF GiveUp
<1>6. QED
  BY <1>1, <1>2, <1>3, <1>4, <1>5

\* The collector keeps it: an evicted record is owed its log in the same step.
LEMMA CollectorKeeps ==
    ASSUME ManagerInv, SlotsAreCounted',
           \/ \E at \in Time : Run(at)
           \/ \E e \in Exec : RemoveLog(e) \/ RemoveLogFails(e)
    PROVE  ManagerInv'
<1> USE DEF ManagerInv, TypeOK, Phase, WaiterIsNotForgotten, AdmissionInv, ShutdownIsFinal,
            LogsAreOwned, Registered, gcVars, shutdownVars
<1>1. ASSUME NEW at \in Time, Run(at) PROVE ManagerInv'
  <2>1. Evicted(at) \subseteq Completed
    BY DEF Evicted
  <2>2. QED
    BY <1>1, <2>1 DEF Run, Completed
<1>2. ASSUME NEW e \in Exec, RemoveLog(e) PROVE ManagerInv'
  BY <1>2 DEF RemoveLog
<1>3. ASSUME NEW e \in Exec, RemoveLogFails(e) PROVE ManagerInv'
  BY <1>3 DEF RemoveLogFails
<1>4. QED
  BY <1>1, <1>2, <1>3

\* The invariant is inductive.
LEMMA ManagerInvStep ==
    ASSUME ManagerInv, [ManagerNext]_managerVars
    PROVE  ManagerInv'
<1>1. CASE UNCHANGED managerVars
  BY <1>1
  DEF managerVars, gcVars, shutdownVars, ManagerInv, TypeOK, SlotsAreCounted, HoldsSlot,
      WaiterIsNotForgotten, AdmissionInv, ShutdownIsFinal, LogsAreOwned, Registered
<1>2. CASE ManagerNext
  <2>1. SlotsAreCounted'
    BY <1>2, SlotsStep DEF ManagerInv
  <2>2. CASE Tick
    BY <2>1, <2>2, ManagerAssumption
    DEF Tick, gcVars, shutdownVars, ManagerInv, TypeOK, Time, WaiterIsNotForgotten,
        AdmissionInv, ShutdownIsFinal, LogsAreOwned, Registered
  <2>3. QED
    BY <1>2, <2>1, <2>2, ExecutionKeeps, CloserKeeps, CollectorKeeps DEF ManagerNext
<1>3. QED
  BY <1>1, <1>2

\* It holds when the manager is made.
LEMMA ManagerInvInit == ManagerInit => ManagerInv
<1> SUFFICES ASSUME ManagerInit PROVE ManagerInv
  OBVIOUS
<1>1. accepting \in BOOLEAN
  BY Zenon DEF ManagerInit
<1>2. Slots = {}
  BY DEF ManagerInit, Slots, HoldsSlot
<1>3. SlotsAreCounted
  BY <1>2, FS_EmptySet, ManagerAssumption DEF ManagerInit, SlotsAreCounted, Slots
<1>4. QED
  BY <1>1, <1>3, ManagerAssumption
  DEF ManagerInit, ManagerInv, TypeOK, Phase, Time, WaiterIsNotForgotten, AdmissionInv,
      ShutdownIsFinal, LogsAreOwned

\* And so in every state of every behaviour.
LEMMA ManagerInvHolds == ManagerSpec => []ManagerInv
<1>1. ManagerInv /\ [ManagerNext]_managerVars => ManagerInv'
  BY ManagerInvStep
<1>2. QED
  BY ManagerInvInit, <1>1, PTL DEF ManagerSpec
-----------------------------------------------------------------------------
(* The theorems.                                                           *)

\* The registry keeps its types.
THEOREM ManagerTypeCorrect == ManagerSpec => []TypeOK
<1>1. ManagerInv => TypeOK
  BY DEF ManagerInv
<1>2. QED
  BY ManagerInvHolds, <1>1, PTL

\* For every limit and every number of executions the counter is the number of
\* slots held, and the limit is kept.
THEOREM SlotsCounted == ManagerSpec => []SlotsAreCounted
<1>1. ManagerInv => SlotsAreCounted
  BY DEF ManagerInv
<1>2. QED
  BY ManagerInvHolds, <1>1, PTL

\* No caller of Shutdown waits for a completion that has already been announced.
THEOREM NoWaiterForgotten == ManagerSpec => []WaiterIsNotForgotten
<1>1. ManagerInv => WaiterIsNotForgotten
  BY DEF ManagerInv
<1>2. QED
  BY ManagerInvHolds, <1>1, PTL

\* A Shutdown that succeeded left no execution, and there will be none.
THEOREM ManagerShutdownFinal == ManagerSpec => []ShutdownIsFinal
<1>1. ManagerInv => ShutdownIsFinal
  BY DEF ManagerInv
<1>2. QED
  BY ManagerInvHolds, <1>1, PTL

\* No log is forgotten, and none is removed before its record.
THEOREM LogsOwned == ManagerSpec => []LogsAreOwned
<1>1. ManagerInv => LogsAreOwned
  BY DEF ManagerInv
<1>2. QED
  BY ManagerInvHolds, <1>1, PTL

\* Whatever the limits and the times, the collector evicts only what is old enough
\* or has MaxRetained younger or equally old ones beside it.
THEOREM EvictionJustified == ManagerSpec => EvictionIsJustified
<1> DEFINE Justified ==
        \A e \in Exec : phase[e] = "completed" /\ phase'[e] = "evicted"
          => \/ completedAt[e] + Retention <= now
             \/ Cardinality({f \in Completed \ {e} : completedAt[f] >= completedAt[e]})
                   >= MaxRetained
<1>1. ASSUME ManagerInv, ManagerNext PROVE Justified
  <2>1. SUFFICES ASSUME NEW e \in Exec, phase[e] = "completed", phase'[e] = "evicted",
                        NEW at \in Time, Run(at)
                 PROVE  \/ completedAt[e] + Retention <= now
                        \/ Cardinality({f \in Completed \ {e} : completedAt[f] >= completedAt[e]})
                              >= MaxRetained
    BY <1>1
    DEF ManagerNext, CreateExecution, OpenLog, Ends, Complete, Shutdown, Joined,
        CheckActive,
        Hear, GiveUp, RemoveLog, RemoveLogFails, Tick, ManagerInv, TypeOK
  <2>2. /\ e \in Evicted(at) /\ e \in Completed /\ at <= now
        /\ at \in Nat /\ now \in Nat
    BY <1>1, <2>1, ManagerAssumption DEF Run, Completed, ManagerInv, TypeOK, Time
  <2>3. CASE completedAt[e] + Retention <= at
    BY <1>1, <2>2, <2>3, ManagerAssumption DEF ManagerInv, TypeOK, Time
  <2>4. CASE Cardinality({f \in Completed : Before(f, e)}) + MaxRetained
               < Cardinality(Completed)
    <3>1. PICK C : C = Completed
      OBVIOUS
    <3>2. PICK B : B = {f \in Completed : Before(f, e)}
      OBVIOUS
    <3>3. PICK R : R = {f \in Completed \ {e} : completedAt[f] >= completedAt[e]}
      OBVIOUS
    <3>4. /\ \A f \in Exec : f \in Nat /\ completedAt[f] \in Nat
          /\ C \subseteq Exec /\ IsFiniteSet(C)
      BY <1>1, <3>1, FS_Subset, ManagerAssumption DEF Completed, ManagerInv, TypeOK, Time
    <3>5. /\ B \in SUBSET C /\ R \in SUBSET C
          /\ e \in C \ B /\ (C \ B) \ {e} \subseteq R
      BY <2>2, <3>1, <3>2, <3>3, <3>4 DEF Before
    <3>6. Cardinality(R) >= MaxRetained
      BY <2>4, <3>1, <3>2, <3>4, <3>5, AtLeastTheRest, ManagerAssumption
    <3>7. QED
      BY <3>3, <3>6
  <2>5. QED
    BY <2>2, <2>3, <2>4 DEF Evicted
<1>2. ManagerInv /\ [ManagerNext]_managerVars => [Justified]_managerVars
  BY <1>1
<1>3. QED
  BY ManagerInvHolds, <1>2, PTL DEF ManagerSpec, EvictionIsJustified
=============================================================================
