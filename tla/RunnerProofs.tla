---------------------------- MODULE RunnerProofs ----------------------------
(***************************************************************************)
(* Proofs about what a runner process does: its interactive services, for  *)
(* any number of connections and requests, of slots and descriptors, and   *)
(* of chunks, and, after them, one execution.                              *)
(*                                                                         *)
(* Terminals: a process that exists holds a slot, whichever of the five    *)
(* goroutines got how far.  Files: as long as no number was closed under   *)
(* another request, each request's numbers are its own, an upload writes   *)
(* into its own temporary file, and a name denotes only finished files.    *)
(***************************************************************************)
EXTENDS RunnerServices, RunnerExecution, FiniteSetTheorems, SequenceTheorems, WellFoundedInduction, TLAPS

Session ==
    [handler : {"absent", "spawning", "started", "read", "stdin", "wait", "gone"},
     writer : {"absent", "select", "drain", "gone"},
     supervisor : {"absent", "select", "exited", "timed_out", "cancelled", "gone"},
     process : {"none", "running", "ended", "reaped"},
     cancelled : BOOLEAN, cause : {"none", "cancelled", "timed_out"},
     signalled : BOOLEAN, done : BOOLEAN, output : 0 .. OutputRoom,
     terminal : {"none", "result", "closed"}, peer : {"open", "closed"}]

PTYTypeOK ==
    /\ session \in [Terminal -> Session]
    /\ slots \subseteq Terminal
    /\ draining \in BOOLEAN

\* The slots are within the limit.
SlotsInv == IsFiniteSet(slots) /\ Cardinality(slots) <= MaxSessions

\* Where the goroutines of session s can be when its process is where it is, and whether it
\* holds a slot.  Done is closed after the process was reaped, the result is sent after done was
\* closed by a supervisor that then returns, and the writer returns with the result.
SessionInv(s, holds) ==
    /\ s.process \in {"running", "ended"} => holds
    /\ s.handler = "absent" => ~holds
    /\ s.handler = "spawning" => holds
    /\ s.handler \in {"absent", "spawning"} => s.process = "none" /\ s.writer = "absent"
    /\ s.done => s.process = "reaped"
    /\ s.terminal # "none" => s.done /\ s.supervisor = "gone"
    /\ s.writer = "gone" => s.process = "reaped" /\ s.supervisor = "gone"

PTYInv == PTYTypeOK /\ SlotsInv /\ \A t \in Terminal : SessionInv(session[t], t \in slots)
-----------------------------------------------------------------------------
Description == [kind : {"free"}] \cup [kind : {"dir"}, gen : Nat] \cup [kind : {"file"}, of : Request]

Reply == {"nothing", "failed", "not found", "conflict", "made", "read", "stored", "listed", "moved",
          "deleted"}

Operation ==
    [pc : {"idle", "mkdir", "open", "read", "stat", "temp", "copy", "copy2", "sync", "publish",
           "names", "each", "move", "cleanup", "closeFile", "closeParent", "rmdir", "done"},
     kind : {"none", "upload", "download", "list", "delete", "move", "moveBack", "mkdir"},
     overwrite : BOOLEAN, parents : BOOLEAN, parent : 0 .. MaxFD, file : 0 .. MaxFD,
     names : SUBSET Names, answer : Reply, got : Seq(Request)]

FilesTypeOK ==
    /\ dir \in Nat /\ dirs \in Nat
    /\ entries \in [Names -> Request \cup {Nothing}]
    /\ content \in [Request -> Seq(Request)]
    /\ fds \in [Descriptor -> Description]
    /\ op \in [Request -> Operation]
    /\ stale \in BOOLEAN

\* No two requests hold the same number.
ApartInv == \A r, q \in Request : r # q => Held(r) \cap Held(q) = {}

IsWhole(r) == content[r] = Whole(r)

\* Only whole files are behind the names that clients use.
NamedInv == \A n \in {Target, Other} : entries[n] # Nothing => IsWhole(entries[n])

\* Only an empty directory goes.
EmptyInv == dir = 0 => \A n \in Names : entries[n] = Nothing

(* What holds of a request r with the locals o. *)

\* The numbers it holds at each step, and what they refer to.
NumbersInv(r, o) ==
    /\ o.pc \in {"idle", "mkdir", "open", "rmdir", "done"} => o.parent = 0
    /\ o.pc \in {"idle", "mkdir", "open", "stat", "temp", "names", "each", "move", "closeParent",
                 "rmdir", "done"} => o.file = 0
    /\ o.pc \in {"stat", "temp", "copy", "copy2", "sync", "publish"} =>
          o.kind = "upload" /\ o.parent # 0
    /\ o.pc \in {"names", "each", "move"} => o.kind # "upload" /\ o.parent # 0
    /\ o.pc \in {"copy", "copy2", "sync", "publish"} => o.file # 0 /\ fds[o.file] = FileOf(r)
    /\ o.pc = "read" => o.file # 0 /\ o.parent = 0
    /\ o.parent # 0 => fds[o.parent].kind = "dir"
    /\ o.file # 0 => fds[o.file].kind = "file"

\* How much of its body an upload has written.
BodyInv(r, o) ==
    /\ o.pc \in {"idle", "mkdir", "open", "stat", "temp", "copy"} => content[r] = <<>>
    /\ o.pc = "copy2" => content[r] = <<r>>
    /\ o.pc \in {"sync", "publish"} => IsWhole(r)

\* A download has opened a whole file, and answers with one.
ReadInv(o) ==
    /\ o.pc = "read" => IsWhole(fds[o.file].of)
    /\ o.answer = "read" => o.got \in {Whole(q) : q \in Request}

\* The temporary name denotes the file of its request, which is still able to unlink it.
TempInv(r, o) ==
    entries[Temp(r)] # Nothing =>
        /\ entries[Temp(r)] = r
        /\ o.pc \in {"copy", "copy2", "sync", "publish", "cleanup"}
        /\ o.kind = "upload" /\ Reaches(o.parent)
        /\ o.pc = "cleanup" => o.answer # "stored"

LocalInv(r, o) == NumbersInv(r, o) /\ BodyInv(r, o) /\ ReadInv(o) /\ TempInv(r, o)

FilesInv ==
    /\ FilesTypeOK /\ ApartInv /\ NamedInv /\ EmptyInv
    /\ \A r \in Request : LocalInv(r, op[r])

\* Of a run in which a number was closed under another request nothing is said about files.
IInv == PTYInv /\ (stale \/ FilesInv)
-----------------------------------------------------------------------------
(* Terminals. *)

\* The limits are positive.
LEMMA Limits == MaxSessions \in Nat \ {0} /\ OutputRoom \in Nat \ {0}
BY PTYAssumption, Zenon

\* A step of one session leaves the others as they are.
LEMMA SessionUpdate ==
    ASSUME PTYInv, NEW t \in Terminal, NEW s \in Session, Set(t, s),
           \/ slots' = slots \/ slots' = slots \cup {t} \/ slots' = slots \ {t},
           SessionInv(s, t \in slots'), UNCHANGED draining
    PROVE  PTYTypeOK' /\ \A u \in Terminal : SessionInv(session[u], u \in slots)'
<1>1. PTYTypeOK'
  BY DEF PTYInv, PTYTypeOK, Set
<1>2. ASSUME NEW u \in Terminal
      PROVE  SessionInv(session'[u], u \in slots')
  <2>1. CASE u = t
    BY <2>1 DEF PTYInv, PTYTypeOK, Set
  <2>2. CASE u # t
    <3>1. session'[u] = session[u] /\ (u \in slots' <=> u \in slots)
      BY <2>2 DEF PTYInv, PTYTypeOK, Set
    <3> QED
      BY <3>1 DEF PTYInv, SessionInv
  <2> QED
    BY <2>1, <2>2
<1> QED
  BY <1>1, <1>2

\* Any part of a session that stays in its type, and a step that leaves the slots alone.
LEMMA SessionStep ==
    ASSUME PTYInv, NEW t \in Terminal, NEW s \in Session, Set(t, s),
           SessionInv(s, t \in slots), UNCHANGED <<slots, draining>>
    PROVE  PTYInv'
<1>1. SlotsInv'
  BY DEF PTYInv, SlotsInv
<1> QED
  BY <1>1, SessionUpdate DEF PTYInv

\* A step of one session that gives back its slot.
LEMMA SessionRelease ==
    ASSUME PTYInv, NEW t \in Terminal, NEW s \in Session, Set(t, s),
           slots' = slots \ {t}, SessionInv(s, FALSE), UNCHANGED draining
    PROVE  PTYInv'
<1>1. SlotsInv'
  BY FS_Subset, FS_CardinalityType, Limits DEF PTYInv, SlotsInv
<1>2. SessionInv(s, t \in slots')
  BY DEF SessionInv
<1> QED
  BY <1>1, <1>2, SessionUpdate DEF PTYInv

\* A session that is over needs no slot.
LEMMA OverIsOver == Over \in Session /\ SessionInv(Over, FALSE) /\ SessionInv(Over, TRUE)
<1>1. 0 \in 0 .. OutputRoom
  BY Limits
<1>2. Over \in Session
  BY <1>1 DEF Over, NoSession, Session
<1>3. SessionInv(Over, FALSE) /\ SessionInv(Over, TRUE)
  BY DEF Over, NoSession, SessionInv
<1> QED
  BY <1>2, <1>3

\* A session that is cancelled is a session.
LEMMA CancelType ==
    ASSUME NEW s \in Session
    PROVE  Cancel(s, "cancelled") \in Session
<1>1. PICK c \in {"none", "cancelled", "timed_out"} :
         c = IF s.cause = "none" /\ ~s.done THEN "cancelled" ELSE s.cause
  <2>1. s.cause \in {"none", "cancelled", "timed_out"}
    BY DEF Session
  <2> QED
    BY <2>1, Zenon
<1>2. Cancel(s, "cancelled") = [s EXCEPT !.cancelled = TRUE, !.cause = c]
  BY <1>1 DEF Cancel
<1> QED
  BY <1>1, <1>2 DEF Session

\* The connection is closed as part of a step.
LEMMA Hangup ==
    ASSUME NEW c \in Session
    PROVE  /\ \A h \in {"gone", "wait"} : [c EXCEPT !.handler = h, !.peer = "closed"] \in Session
           /\ [c EXCEPT !.writer = "gone", !.peer = "closed", !.terminal = "closed"] \in Session
           /\ \A n \in 0 .. OutputRoom :
                 [c EXCEPT !.output = n, !.writer = "drain", !.peer = "closed"] \in Session
<1>1. \A d \in Session : [d EXCEPT !.peer = "closed"] \in Session
  BY DEF Session
<1>2. ASSUME NEW h \in {"gone", "wait"}
      PROVE  [c EXCEPT !.handler = h, !.peer = "closed"] \in Session
  <2>1. PICK d \in Session : d = [c EXCEPT !.handler = h]
    BY DEF Session
  <2>2. [c EXCEPT !.handler = h, !.peer = "closed"] = [d EXCEPT !.peer = "closed"]
    BY <2>1
  <2> QED
    BY <1>1, <2>2
<1>3. [c EXCEPT !.writer = "gone", !.peer = "closed", !.terminal = "closed"] \in Session
  <2>1. PICK d \in Session : d = [c EXCEPT !.writer = "gone", !.terminal = "closed"]
    BY DEF Session
  <2>2. [c EXCEPT !.writer = "gone", !.peer = "closed", !.terminal = "closed"]
          = [d EXCEPT !.peer = "closed"]
    BY <2>1 DEF Session
  <2> QED
    BY <1>1, <2>2
<1>4. ASSUME NEW n \in 0 .. OutputRoom
      PROVE  [c EXCEPT !.output = n, !.writer = "drain", !.peer = "closed"] \in Session
  <2>1. PICK d \in Session : d = [c EXCEPT !.output = n, !.writer = "drain"]
    BY DEF Session
  <2>2. [c EXCEPT !.output = n, !.writer = "drain", !.peer = "closed"] = [d EXCEPT !.peer = "closed"]
    BY <2>1
  <2> QED
    BY <1>1, <2>2
<1> QED
  BY <1>2, <1>3, <1>4

\* The handler: every way from the first frame to its return.
LEMMA SessionHandlerStep ==
    ASSUME PTYInv, NEW t \in Terminal,
           \/ StartRefused(t) \/ Register(t) \/ Handle(t)
           \/ StdinBlocks(t) \/ StdinReturns(t) \/ ClientLeaves(t)
    PROVE  PTYInv'
<1> DEFINE s == session[t]
<1>1. s \in Session /\ SessionInv(s, t \in slots)
  BY DEF PTYInv, PTYTypeOK
<1> HIDE DEF s
<1>2. CASE StartRefused(t)
  <2>1. SessionInv(Over, t \in slots)
    BY OverIsOver DEF SessionInv
  <2> QED
    BY <1>2, <2>1, OverIsOver, SessionStep DEF StartRefused
<1>3. CASE Register(t)
  <2>1. PICK n : n = [s EXCEPT !.handler = "spawning"]
    OBVIOUS
  <2>2. n \in Session /\ Set(t, n) /\ t \notin slots
    BY <1>1, <1>3, <2>1 DEF Register, Is, Session, SessionInv, s
  <2>3. SessionInv(n, t \in slots')
    BY <1>1, <1>3, <2>1 DEF Register, Is, Session, SessionInv, s
  <2>4. SlotsInv'
    <3>1. IsFiniteSet(slots) /\ Cardinality(slots) \in Nat
      BY FS_CardinalityType DEF PTYInv, SlotsInv
    <3>2. IsFiniteSet(slots \cup {t}) /\ Cardinality(slots \cup {t}) = Cardinality(slots) + 1
      BY <2>2, <3>1, FS_AddElement
    <3> QED
      BY <1>3, <3>1, <3>2, Limits DEF SlotsInv, Register
  <2> QED
    BY <1>3, <2>2, <2>3, <2>4, SessionUpdate DEF PTYInv, Register
<1>4. CASE Spawn(t)
  <2>1. CASE Set(t, Over) /\ slots' = slots \ {t}
    BY <1>4, <2>1, OverIsOver, SessionRelease DEF Spawn
  <2>2. CASE UNCHANGED slots /\ Set(t, [session[t] EXCEPT !.handler = "started",
                                   !.supervisor = "select", !.process = "running"])
    <3>1. PICK n : n = [s EXCEPT !.handler = "started", !.supervisor = "select",
                                 !.process = "running"]
      OBVIOUS
    <3>2. n \in Session /\ Set(t, n)
      BY <1>1, <2>2, <3>1 DEF Session, s
    <3>3. t \in slots
      BY <1>1, <1>4 DEF Spawn, Is, SessionInv, s
    <3>4. SessionInv(n, t \in slots)
      BY <1>1, <1>4, <3>1, <3>3 DEF Spawn, Is, Session, SessionInv, s
    <3> QED
      BY <1>4, <2>2, <3>2, <3>4, SessionStep DEF Spawn
  <2> QED
    BY <1>4, <2>1, <2>2 DEF Spawn
<1>5. CASE WriteStarted(t)
  <2>1. PICK a : a = [s EXCEPT !.handler = "read", !.writer = "select"]
    OBVIOUS
  <2>2. PICK b : b = [Cancel(s, "cancelled") EXCEPT !.handler = "gone", !.peer = "closed"]
    OBVIOUS
  <2>3. a \in Session /\ b \in Session
    <3>1. Cancel(s, "cancelled") \in Session
      BY <1>1, CancelType
    <3>2. a \in Session
      BY <1>1, <2>1 DEF Session
    <3>3. b \in Session
      BY <2>2, <3>1, Hangup
    <3> QED
      BY <3>2, <3>3
  <2>4. SessionInv(a, t \in slots) /\ SessionInv(b, t \in slots)
    BY <1>1, <1>5, <2>1, <2>2 DEF WriteStarted, Is, Session, SessionInv, Cancel, s
  <2>5. Set(t, a) \/ Set(t, b)
    BY <1>5, <2>1, <2>2 DEF WriteStarted, s
  <2> QED
    BY <1>5, <2>3, <2>4, <2>5, SessionStep DEF WriteStarted
<1>6. CASE ReadFails(t)
  <2>1. PICK n : n = [Cancel(s, "cancelled") EXCEPT !.handler = "wait", !.peer = "closed"]
    OBVIOUS
  <2>2. n \in Session /\ Set(t, n)
    <3>1. Cancel(s, "cancelled") \in Session
      BY <1>1, CancelType
    <3>2. n \in Session
      BY <2>1, <3>1, Hangup
    <3> QED
      BY <1>6, <2>1, <3>2 DEF ReadFails, s
  <2>3. SessionInv(n, t \in slots)
    BY <1>1, <1>6, <2>1 DEF ReadFails, Is, Session, SessionInv, Cancel, s
  <2> QED
    BY <1>6, <2>2, <2>3, SessionStep DEF ReadFails
<1>7. CASE HandlerReturns(t)
  <2>1. SessionInv(Over, t \in slots)
    BY OverIsOver DEF SessionInv
  <2> QED
    BY <1>7, <2>1, OverIsOver, SessionStep DEF HandlerReturns
<1>8. CASE StdinBlocks(t)
  <2>1. PICK n : n = [s EXCEPT !.handler = "stdin"]
    OBVIOUS
  <2>2. n \in Session /\ Set(t, n)
    BY <1>1, <1>8, <2>1 DEF StdinBlocks, Session, s
  <2>3. SessionInv(n, t \in slots)
    BY <1>1, <1>8, <2>1 DEF StdinBlocks, Is, Session, SessionInv, s
  <2> QED
    BY <1>8, <2>2, <2>3, SessionStep DEF StdinBlocks
<1>9. CASE StdinReturns(t)
  <2>1. PICK n : n = [s EXCEPT !.handler = "read"]
    OBVIOUS
  <2>2. n \in Session /\ Set(t, n)
    BY <1>1, <1>9, <2>1 DEF StdinReturns, Session, s
  <2>3. SessionInv(n, t \in slots)
    BY <1>1, <1>9, <2>1 DEF StdinReturns, Is, Session, SessionInv, s
  <2> QED
    BY <1>9, <2>2, <2>3, SessionStep DEF StdinReturns
<1>10. CASE ClientLeaves(t)
  <2>1. PICK n : n = [s EXCEPT !.peer = "closed"]
    OBVIOUS
  <2>2. n \in Session /\ Set(t, n)
    BY <1>1, <1>10, <2>1 DEF ClientLeaves, Session, s
  <2>3. SessionInv(n, t \in slots)
    BY <1>1, <1>10, <2>1 DEF ClientLeaves, Is, Session, SessionInv, s
  <2> QED
    BY <1>10, <2>2, <2>3, SessionStep DEF ClientLeaves
<1> QED
  BY <1>2, <1>3, <1>4, <1>5, <1>6, <1>7, <1>8, <1>9, <1>10 DEF Handle

\* The process, its output and the supervisor.  Finish gives the slot back, and only a reaped
\* process lets it.
LEMMA SupervisorStep ==
    ASSUME PTYInv, NEW t \in Terminal,
           ProcessEnds(t) \/ Reap(t) \/ PumpOutput(t) \/ Supervise(t)
    PROVE  PTYInv'
<1> DEFINE s == session[t]
<1>1. s \in Session /\ SessionInv(s, t \in slots)
  BY DEF PTYInv, PTYTypeOK
<1> HIDE DEF s
<1>2. CASE ProcessEnds(t)
  <2>1. PICK n : n = [s EXCEPT !.process = "ended"]
    OBVIOUS
  <2>2. n \in Session /\ Set(t, n)
    BY <1>1, <1>2, <2>1 DEF ProcessEnds, Session, s
  <2>3. SessionInv(n, t \in slots)
    BY <1>1, <1>2, <2>1 DEF ProcessEnds, Is, Session, SessionInv, s
  <2> QED
    BY <1>2, <2>2, <2>3, SessionStep DEF ProcessEnds
<1>3. CASE Reap(t)
  <2>1. PICK n : n = [s EXCEPT !.process = "reaped"]
    OBVIOUS
  <2>2. n \in Session /\ Set(t, n)
    BY <1>1, <1>3, <2>1 DEF Reap, Session, s
  <2>3. SessionInv(n, t \in slots)
    BY <1>1, <1>3, <2>1 DEF Reap, Is, Session, SessionInv, s
  <2> QED
    BY <1>3, <2>2, <2>3, SessionStep DEF Reap
<1>4. CASE ProcessExited(t)
  <2>1. PICK n : n = [s EXCEPT !.supervisor = "exited"]
    OBVIOUS
  <2>2. n \in Session /\ Set(t, n)
    BY <1>1, <1>4, <2>1 DEF ProcessExited, Session, s
  <2>3. SessionInv(n, t \in slots)
    BY <1>1, <1>4, <2>1 DEF ProcessExited, Is, Session, SessionInv, s
  <2> QED
    BY <1>4, <2>2, <2>3, SessionStep DEF ProcessExited
<1>5. CASE PublishResult(t)
  <2>1. PICK n : n = [s EXCEPT !.supervisor = "gone", !.terminal = "result"]
    OBVIOUS
  <2>2. n \in Session /\ Set(t, n)
    BY <1>1, <1>5, <2>1 DEF PublishResult, Session, s
  <2>3. SessionInv(n, t \in slots)
    BY <1>1, <1>5, <2>1 DEF PublishResult, Is, Session, SessionInv, s
  <2> QED
    BY <1>5, <2>2, <2>3, SessionStep DEF PublishResult
<1>6. CASE PumpOutput(t)
  <2>1. PICK n : n = [s EXCEPT !.output = @ + 1]
    OBVIOUS
  <2>2. n \in Session /\ Set(t, n)
    <3>1. s.output + 1 \in 0 .. OutputRoom
      BY <1>1, <1>6, Limits DEF PumpOutput, Session, s
    <3>2. n \in Session
      BY <1>1, <2>1, <3>1 DEF Session
    <3> QED
      BY <1>6, <2>1, <3>2 DEF PumpOutput, s
  <2>3. SessionInv(n, t \in slots)
    BY <1>1, <1>6, <2>1 DEF PumpOutput, Is, Session, SessionInv, s
  <2> QED
    BY <1>6, <2>2, <2>3, SessionStep DEF PumpOutput
<1>7. CASE TimerFires(t)
  <2>1. PICK n : n = Terminate([s EXCEPT !.cause = IF @ = "none" THEN "timed_out" ELSE @], "timed_out")
    OBVIOUS
  <2>2. n \in Session /\ Set(t, n)
    BY <1>1, <1>7, <2>1 DEF TimerFires, Session, s, Terminate
  <2>3. SessionInv(n, t \in slots)
    BY <1>1, <1>7, <2>1 DEF TimerFires, Is, Session, SessionInv, s, Terminate
  <2> QED
    BY <1>7, <2>2, <2>3, SessionStep DEF TimerFires
<1>8. CASE ContextEnds(t)
  <2>1. PICK n : n = Terminate([s EXCEPT !.cause = "none"], IF s.cause = "none" THEN "cancelled" ELSE s.cause)
    OBVIOUS
  <2>2. n \in Session /\ Set(t, n)
    BY <1>1, <1>8, <2>1 DEF ContextEnds, Session, s, Terminate
  <2>3. SessionInv(n, t \in slots)
    BY <1>1, <1>8, <2>1 DEF ContextEnds, Is, Session, SessionInv, s, Terminate
  <2> QED
    BY <1>8, <2>2, <2>3, SessionStep DEF ContextEnds
<1>9. CASE Finish(t)
  <2>1. PICK n : n = [s EXCEPT !.done = TRUE, !.cancelled = TRUE, !.cause = "none"]
    OBVIOUS
  <2>2. n \in Session /\ Set(t, n)
    BY <1>1, <1>9, <2>1 DEF Finish, Session, s
  <2>3. SessionInv(n, FALSE)
    BY <1>1, <1>9, <2>1 DEF Finish, Is, Session, SessionInv, s
  <2> QED
    BY <1>9, <2>2, <2>3, SessionRelease DEF Finish
<1> QED
  BY <1>2, <1>3, <1>4, <1>5, <1>6, <1>7, <1>8, <1>9 DEF Supervise

\* The writer, and the Shutdown that may take the result before it.
LEMMA WriterStep ==
    ASSUME PTYInv, NEW t \in Terminal, Write(t) \/ ShutdownTakesResult(t)
    PROVE  PTYInv'
<1> DEFINE s == session[t]
<1>1. s \in Session /\ SessionInv(s, t \in slots)
  BY DEF PTYInv, PTYTypeOK
<1>2. s.output \in 0 .. OutputRoom
  BY <1>1 DEF Session
<1> HIDE DEF s
<1>3. ASSUME s.output > 0
      PROVE  /\ s.output - 1 \in 0 .. OutputRoom
             /\ [s EXCEPT !.output = s.output - 1] \in Session
             /\ SessionInv([s EXCEPT !.output = s.output - 1], t \in slots)
  <2>1. s.output - 1 \in 0 .. OutputRoom
    BY <1>2, <1>3, Limits
  <2>2. [s EXCEPT !.output = s.output - 1] \in Session
    BY <1>1, <2>1 DEF Session
  <2>3. SessionInv([s EXCEPT !.output = s.output - 1], t \in slots)
    BY <1>1 DEF Session, SessionInv
  <2> QED
    BY <2>1, <2>2, <2>3
<1>4. CASE WriteChunk(t)
  <2>1. s.output > 0 /\ s.writer = "select"
    BY <1>4 DEF WriteChunk, Is, s
  <2>2. PICK a : a = [s EXCEPT !.output = s.output - 1]
    OBVIOUS
  <2>3. PICK c : c = Cancel(s, "cancelled")
    OBVIOUS
  <2>4. PICK b : b = [c EXCEPT !.output = c.output - 1, !.writer = "drain", !.peer = "closed"]
    OBVIOUS
  <2>5. c \in Session /\ c.output = s.output /\ SessionInv(c, t \in slots)
    <3>1. c \in Session
      BY <1>1, <2>3, CancelType
    <3>2. c.output = s.output
      BY <1>1, <2>3 DEF Cancel, Session
    <3>3. SessionInv(c, t \in slots)
      BY <1>1, <2>3 DEF Cancel, Session, SessionInv
    <3> QED
      BY <3>1, <3>2, <3>3
  <2>6. b \in Session
    BY <1>3, <2>1, <2>4, <2>5, Hangup
  <2>7. SessionInv(b, t \in slots)
    <3>1. /\ b.process = c.process /\ b.handler = c.handler /\ b.supervisor = c.supervisor
          /\ b.done = c.done /\ b.terminal = c.terminal /\ b.writer = "drain"
      BY <2>4, <2>5 DEF Session
    <3>2. c.handler \notin {"absent", "spawning"}
      BY <1>1, <2>1, <2>3 DEF Cancel, Session, SessionInv
    <3> QED
      BY <2>5, <3>1, <3>2 DEF SessionInv
  <2>8. Set(t, a) \/ Set(t, b)
    BY <1>4, <2>2, <2>3, <2>4 DEF WriteChunk, s
  <2> QED
    BY <1>3, <1>4, <2>1, <2>2, <2>6, <2>7, <2>8, SessionStep DEF WriteChunk
<1>5. CASE WriteTerminal(t)
  <2>1. PICK n : n = [s EXCEPT !.writer = "gone", !.peer = "closed", !.terminal = "closed"]
    OBVIOUS
  <2>2. n \in Session /\ Set(t, n)
    BY <1>1, <1>5, <2>1, Hangup DEF WriteTerminal, s
  <2>3. SessionInv(n, t \in slots)
    BY <1>1, <1>5, <2>1 DEF WriteTerminal, Is, Session, SessionInv, s
  <2> QED
    BY <1>5, <2>2, <2>3, SessionStep DEF WriteTerminal
<1>6. CASE Drain(t)
  <2>1. PICK a : a = [s EXCEPT !.output = s.output - 1]
    OBVIOUS
  <2>2. PICK b : b = [s EXCEPT !.writer = "gone", !.terminal = "closed"]
    OBVIOUS
  <2>3. b \in Session
    BY <1>1, <2>2 DEF Session
  <2>4. CASE s.output > 0 /\ Set(t, a)
    BY <1>3, <1>6, <2>1, <2>4, SessionStep DEF Drain
  <2>5. CASE s.terminal # "none" /\ Set(t, b)
    <3>1. SessionInv(b, t \in slots)
      BY <1>1, <2>2, <2>5 DEF Session, SessionInv
    <3> QED
      BY <1>6, <2>3, <2>5, <3>1, SessionStep DEF Drain
  <2> QED
    BY <1>6, <2>1, <2>2, <2>4, <2>5 DEF Drain, s
<1>7. CASE ShutdownTakesResult(t)
  <2>1. PICK n : n = [s EXCEPT !.terminal = "closed"]
    OBVIOUS
  <2>2. n \in Session /\ Set(t, n)
    BY <1>1, <1>7, <2>1 DEF ShutdownTakesResult, Session, s
  <2>3. SessionInv(n, t \in slots)
    BY <1>1, <1>7, <2>1 DEF ShutdownTakesResult, Session, SessionInv, s
  <2> QED
    BY <1>7, <2>2, <2>3, SessionStep DEF ShutdownTakesResult
<1> QED
  BY <1>4, <1>5, <1>6, <1>7 DEF Write

\* It holds before the first connection.
LEMMA PTYInvInit == PTYInit => PTYInv
<1> SUFFICES ASSUME PTYInit PROVE PTYInv
  OBVIOUS
<1>1. NoSession \in Session /\ SessionInv(NoSession, FALSE)
  <2>1. 0 \in 0 .. OutputRoom
    BY Limits
  <2> QED
    BY <2>1 DEF NoSession, Session, SessionInv
<1>2. PTYTypeOK
  BY <1>1 DEF PTYInit, PTYTypeOK
<1>3. SlotsInv
  BY FS_EmptySet, Limits DEF PTYInit, SlotsInv
<1>4. ASSUME NEW t \in Terminal PROVE SessionInv(session[t], t \in slots)
  <2>1. session[t] = NoSession /\ t \notin slots
    BY DEF PTYInit
  <2> QED
    BY <1>1, <2>1 DEF SessionInv
<1> QED
  BY <1>2, <1>3, <1>4 DEF PTYInv

\* Every step of the terminals keeps it.
LEMMA PTYInvStep == PTYInv /\ (PTYNext \/ UNCHANGED ptyVars) => PTYInv'
<1> SUFFICES ASSUME PTYInv, PTYNext \/ UNCHANGED ptyVars PROVE PTYInv'
  OBVIOUS
<1>1. CASE ServerStops
  BY <1>1 DEF ServerStops, PTYInv, PTYTypeOK, SlotsInv, SessionInv
<1>2. CASE UNCHANGED ptyVars
  BY <1>2 DEF ptyVars, PTYInv, PTYTypeOK, SlotsInv, SessionInv
<1> QED
  BY <1>1, <1>2, SessionHandlerStep, SupervisorStep, WriterStep DEF PTYNext
-----------------------------------------------------------------------------
(* Files. *)

\* Temporary names are of one upload each, and none is a name that requests use.
LEMMA NamesAreApart ==
    /\ Target \in Names /\ Other \in Names /\ Target # Other
    /\ \A r \in Request : Temp(r) \in Names /\ Temp(r) \notin {Target, Other}
    /\ \A r, q \in Request : Temp(r) = Temp(q) => r = q
BY DEF Names, Target, Other, Temp

\* A file behind a number is the file of some request.
LEMMA FileIsOfRequest ==
    ASSUME FilesTypeOK, NEW n \in Descriptor, fds[n].kind = "file"
    PROVE  fds[n].of \in Request
BY DEF FilesTypeOK, Description

\* Every step is a step of one request: it changes its own locals, leaves alone what the
\* numbers of the others refer to, and takes no number of theirs.
LEMMA LocalUpdate ==
    ASSUME FilesInv, FilesTypeOK', NEW r \in Request, NEW o \in Operation,
           op' = [op EXCEPT ![r] = o],
           NamedInv', EmptyInv',
           \A q \in Request \ {r} : \A n \in Held(q) : fds'[n] = fds[n] /\ n \notin {o.parent, o.file},
           \A q \in Request : IsWhole(q) => IsWhole(q)',
           \A q \in Request \ {r} : content'[q] = content[q],
           \A q \in Request \ {r} : entries'[Temp(q)] \in {Nothing, entries[Temp(q)]},
           dir' = dir \/ \A n \in Names : entries'[n] = Nothing,
           LocalInv(r, o)'
    PROVE  FilesInv'
<1>1. op'[r] = o /\ \A q \in Request \ {r} : op'[q] = op[q]
  BY DEF FilesInv, FilesTypeOK
<1>2. ApartInv'
  <2> SUFFICES ASSUME NEW p \in Request, NEW q \in Request, p # q
               PROVE  Held(p)' \cap Held(q)' = {}
    BY DEF ApartInv
  <2>1. CASE p # r /\ q # r
    BY <1>1, <2>1 DEF FilesInv, ApartInv, Held
  <2>2. CASE p = r
    BY <1>1, <2>2 DEF Held
  <2>3. CASE q = r
    BY <1>1, <2>3 DEF Held
  <2> QED
    BY <2>1, <2>2, <2>3
<1>3. ASSUME NEW q \in Request, q # r
      PROVE  LocalInv(q, op[q])'
  <2>1. PICK l \in Operation : l = op[q] /\ l = op'[q]
    BY <1>1, <1>3 DEF FilesInv, FilesTypeOK
  <2>2. LocalInv(q, l)
    BY <2>1 DEF FilesInv
  <2>3. /\ l.parent # 0 => l.parent \in Descriptor /\ fds'[l.parent] = fds[l.parent]
        /\ l.file # 0 => l.file \in Descriptor /\ fds'[l.file] = fds[l.file]
    <3>1. l.parent \in 0 .. MaxFD /\ l.file \in 0 .. MaxFD
      BY DEF Operation
    <3>2. ASSUME l.parent # 0
          PROVE  l.parent \in Descriptor /\ fds'[l.parent] = fds[l.parent]
      <4>1. l.parent \in Held(q)
        BY <2>1, <3>2 DEF Held
      <4> QED
        BY <1>3, <3>1, <3>2, <4>1, FilesAssumption DEF Descriptor
    <3>3. ASSUME l.file # 0
          PROVE  l.file \in Descriptor /\ fds'[l.file] = fds[l.file]
      <4>1. l.file \in Held(q)
        BY <2>1, <3>3 DEF Held
      <4> QED
        BY <1>3, <3>1, <3>3, <4>1, FilesAssumption DEF Descriptor
    <3> QED
      BY <3>2, <3>3
  <2>4. NumbersInv(q, l)'
    BY <2>2, <2>3 DEF LocalInv, NumbersInv
  <2>5. BodyInv(q, l)'
    BY <1>3, <2>2 DEF LocalInv, BodyInv, IsWhole
  <2>6. ReadInv(l)'
    <3>1. ASSUME l.pc = "read" PROVE fds[l.file].of \in Request /\ fds'[l.file] = fds[l.file]
      BY <2>2, <2>3, <3>1, FileIsOfRequest DEF LocalInv, NumbersInv, FilesInv
    <3> QED
      BY <2>2, <3>1 DEF LocalInv, ReadInv
  <2>7. TempInv(q, l)'
    <3>1. ASSUME entries'[Temp(q)] # Nothing
          PROVE  entries[Temp(q)] = entries'[Temp(q)] /\ dir' = dir
      BY <1>3, <3>1, NamesAreApart
    <3> QED
      BY <2>2, <2>3, <3>1 DEF LocalInv, TempInv, Reaches
  <2> QED
    BY <2>1, <2>4, <2>5, <2>6, <2>7 DEF LocalInv
<1>4. \A q \in Request : LocalInv(q, op[q])'
  BY <1>1, <1>3
<1> QED
  BY <1>2, <1>4 DEF FilesInv

\* What a request may rely on about itself and the others.
LEMMA Locals ==
    ASSUME FilesInv, NEW r \in Request
    PROVE  /\ op[r] \in Operation /\ LocalInv(r, op[r])
           /\ \A q \in Request \ {r} : \A n \in Held(q) :
                 n \in Descriptor /\ n \notin {0, op[r].parent, op[r].file}
<1>1. op[r] \in Operation /\ LocalInv(r, op[r])
  BY DEF FilesInv, FilesTypeOK
<1>2. ASSUME NEW q \in Request \ {r}, NEW n \in Held(q)
      PROVE  n \in Descriptor /\ n \notin {0, op[r].parent, op[r].file}
  <2>1. Held(r) \cap Held(q) = {}
    BY DEF FilesInv, ApartInv
  <2>2. n # 0 /\ n \notin {op[r].parent, op[r].file}
    BY <2>1 DEF Held
  <2>3. n \in 0 .. MaxFD
    <3>1. op[q] \in Operation
      BY DEF FilesInv, FilesTypeOK
    <3> QED
      BY <3>1 DEF Held, Operation
  <2> QED
    BY <2>2, <2>3, FilesAssumption DEF Descriptor
<1> QED
  BY <1>1, <1>2

\* No file and no number changes, and the directory only while it is empty or gone.
Quiet ==
    /\ UNCHANGED <<entries, content, fds, stale>>
    /\ dir' \in Nat /\ dirs' \in Nat
    /\ dir' = dir \/ \A n \in Names : entries[n] = Nothing

\* A step that changes nothing but the locals of r, and takes no number.
LEMMA QuietStep ==
    ASSUME FilesInv, NEW r \in Request, NEW o \in Operation, op' = [op EXCEPT ![r] = o],
           o.parent \in {0, op[r].parent}, o.file \in {0, op[r].file},
           LocalInv(r, o), Quiet
    PROVE  FilesInv'
<1>1. FilesTypeOK'
  BY DEF FilesInv, FilesTypeOK, Quiet
<1>2. NamedInv' /\ EmptyInv'
  BY DEF FilesInv, NamedInv, EmptyInv, IsWhole, Quiet
<1>3. \A q \in Request \ {r} : \A n \in Held(q) : fds'[n] = fds[n] /\ n \notin {o.parent, o.file}
  BY Locals DEF Quiet
<1>4. LocalInv(r, o)'
  <2>1. NumbersInv(r, o)' /\ BodyInv(r, o)' /\ ReadInv(o)'
    BY DEF LocalInv, NumbersInv, BodyInv, ReadInv, IsWhole, Quiet
  <2>2. TempInv(r, o)'
    BY NamesAreApart DEF LocalInv, TempInv, Reaches, Quiet
  <2> QED
    BY <2>1, <2>2 DEF LocalInv
<1>5. \A q \in Request : IsWhole(q) => IsWhole(q)'
  BY DEF IsWhole, Quiet
<1> QED
  BY <1>1, <1>2, <1>3, <1>4, <1>5, LocalUpdate DEF Quiet

\* An error, or the end of the work, before the deferred calls.
LEMMA ReturnStep ==
    ASSUME FilesInv, NEW r \in Request, NEW what \in Reply, what \notin {"read", "stored"},
           Return(r, what), Quiet
    PROVE  FilesInv'
<1>1. PICK o : o = [op[r] EXCEPT !.pc = "cleanup", !.answer = what]
  OBVIOUS
<1>2. op[r] \in Operation /\ LocalInv(r, op[r])
  BY Locals
<1>3. o \in Operation
  BY <1>1, <1>2 DEF Operation
<1>4. op' = [op EXCEPT ![r] = o]
  BY <1>1, <1>2 DEF Return, FilesInv, FilesTypeOK
<1>5. /\ o.parent = op[r].parent /\ o.file = op[r].file /\ o.kind = op[r].kind
      /\ o.pc = "cleanup" /\ o.answer = what
  BY <1>1, <1>2 DEF Operation
<1>6. LocalInv(r, o)
  BY <1>2, <1>5 DEF LocalInv, NumbersInv, BodyInv, ReadInv, TempInv
<1> QED
  BY <1>3, <1>4, <1>5, <1>6, QuietStep

\* The answer.
LEMMA AnswerStep ==
    ASSUME FilesInv, NEW r \in Request, NEW what \in Reply, what = "read" => op[r].answer = "read",
           entries[Temp(r)] = Nothing, Answer(r, what), Quiet
    PROVE  FilesInv'
<1>1. PICK o : o = [Idle EXCEPT !.pc = "done", !.answer = what, !.got = op[r].got]
  OBVIOUS
<1>2. op[r] \in Operation /\ LocalInv(r, op[r])
  BY Locals
<1>3. o \in Operation
  <2>1. op[r].got \in Seq(Request)
    BY <1>2 DEF Operation
  <2>2. 0 \in 0 .. MaxFD
    BY FilesAssumption
  <2> QED
    BY <1>1, <2>1, <2>2 DEF Operation, Idle, Nothing
<1>4. /\ o.parent = 0 /\ o.file = 0 /\ o.kind = "none"
      /\ o.pc = "done" /\ o.answer = what /\ o.got = op[r].got
  BY <1>1 DEF Idle
<1>5. LocalInv(r, o)
  BY <1>2, <1>4 DEF LocalInv, NumbersInv, BodyInv, ReadInv, TempInv
<1>6. op' = [op EXCEPT ![r] = o]
  BY <1>1 DEF Answer
<1> QED
  BY <1>3, <1>4, <1>5, <1>6, QuietStep

\* Nothing changes for the others in a step that changes nothing they see.
LEMMA QuietUnchanged ==
    FilesInv /\ UNCHANGED <<dir, dirs, entries, content, fds, stale>> => Quiet
BY DEF FilesInv, FilesTypeOK, Quiet

\* A request is taken, and the directory is made if it has to be.
LEMMA AcceptStep ==
    ASSUME FilesInv, NEW r \in Request, Accept(r) \/ Mkdir(r)
    PROVE  FilesInv'
<1>1. op[r] \in Operation /\ LocalInv(r, op[r])
  BY Locals
<1>2. CASE Accept(r)
  <2>1. PICK kind \in {"upload", "download", "list", "delete", "move", "moveBack", "mkdir"},
             overwrite \in BOOLEAN, parents \in BOOLEAN :
          op' = [op EXCEPT ![r] = [Idle EXCEPT !.kind = kind, !.overwrite = overwrite,
                       !.pc = IF parents \/ kind = "mkdir" THEN "mkdir" ELSE "open"]]
    BY <1>2, Zenon DEF Accept
  <2>2. PICK pc \in {"mkdir", "open"} : pc = IF parents \/ kind = "mkdir" THEN "mkdir" ELSE "open"
    BY Zenon
  <2>3. PICK o : o = [Idle EXCEPT !.kind = kind, !.overwrite = overwrite, !.pc = pc]
    OBVIOUS
  <2>4. o \in Operation
    <3>1. 0 \in 0 .. MaxFD /\ <<>> \in Seq(Request) /\ Nothing \in Reply
      BY FilesAssumption DEF Nothing, Reply
    <3>2. o = [pc |-> pc, kind |-> kind, overwrite |-> overwrite, parents |-> FALSE,
               parent |-> 0, file |-> 0, names |-> {}, answer |-> Nothing, got |-> <<>>]
      BY <2>3 DEF Idle
    <3> QED
      BY <3>1, <3>2 DEF Operation
  <2>5. o.parent = 0 /\ o.file = 0 /\ o.pc = pc /\ o.answer = Nothing
    BY <2>3 DEF Idle
  <2>6. content[r] = <<>> /\ entries[Temp(r)] = Nothing
    BY <1>1, <1>2 DEF Accept, LocalInv, BodyInv, TempInv
  <2>7. LocalInv(r, o)
    BY <2>5, <2>6 DEF LocalInv, NumbersInv, BodyInv, ReadInv, TempInv, Nothing
  <2>8. op' = [op EXCEPT ![r] = o]
    BY <2>1, <2>2, <2>3
  <2>9. Quiet
    BY <1>2, QuietUnchanged DEF Accept
  <2> QED
    BY <2>4, <2>5, <2>7, <2>8, <2>9, QuietStep
<1>3. CASE Mkdir(r)
  <2>1. Quiet
    <3>1. CASE dir = 0
      BY <1>3, <3>1 DEF Mkdir, Quiet, FilesInv, FilesTypeOK, EmptyInv
    <3>2. CASE dir # 0
      BY <1>3, <3>2 DEF Mkdir, Quiet, FilesInv, FilesTypeOK
    <3> QED
      BY <3>1, <3>2
  <2>2. entries[Temp(r)] = Nothing /\ content[r] = <<>>
    BY <1>1, <1>3 DEF Mkdir, LocalInv, TempInv, BodyInv
  <2>3. CASE Answer(r, "made")
    <3>1. "made" \in Reply /\ "made" # "read"
      BY DEF Reply
    <3> QED
      BY <2>1, <2>2, <2>3, <3>1, AnswerStep
  <2>4. CASE Step(r, "open")
    <3>1. PICK o : o = [op[r] EXCEPT !.pc = "open"]
      OBVIOUS
    <3>2. o \in Operation /\ op' = [op EXCEPT ![r] = o]
      BY <1>1, <2>4, <3>1 DEF Operation, Step
    <3>3. /\ o.pc = "open" /\ o.parent = op[r].parent /\ o.file = op[r].file
          /\ o.answer = op[r].answer /\ o.got = op[r].got
      BY <1>1, <3>1 DEF Operation
    <3>4. LocalInv(r, o)
      BY <1>1, <1>3, <2>2, <3>3 DEF Mkdir, LocalInv, NumbersInv, BodyInv, ReadInv, TempInv
    <3> QED
      BY <2>1, <3>2, <3>3, <3>4, QuietStep
  <2> QED
    BY <1>3, <2>3, <2>4 DEF Mkdir
<1> QED
  BY <1>2, <1>3

\* Every set of naturals with an element has a least one.
LEMMA LeastNumber ==
    ASSUME NEW T \in SUBSET Nat, T # {}
    PROVE  \E x \in T : \A y \in T : x <= y
<1> DEFINE R == OpToRel(<, Nat)
<1>1. IsWellFoundedOn(R, Nat)
  BY NatLessThanWellFounded
<1>2. \A x, y \in Nat : x < y => <<x, y>> \in R
  BY DEF OpToRel
<1> HIDE DEF R
<1>3. PICK x \in T : \A y \in T : ~(<<y, x>> \in R)
  BY <1>1, WFMin
<1>4. ASSUME NEW y \in T PROVE x <= y
  <2>1. ~(y < x)
    BY <1>2, <1>3, Zenon
  <2>2. QED
    BY <2>1
<1>5. QED
  BY <1>4

\* The number that the kernel gives is nobody's: what a request holds is in use.
LEMMA LowestIsNew ==
    ASSUME FilesInv, FreeNumbers # {}
    PROVE  /\ Lowest \in Descriptor /\ Lowest # 0 /\ fds[Lowest] = Free
           /\ \A q \in Request : Lowest \notin Held(q)
<1>1. \E x \in FreeNumbers : \A y \in FreeNumbers : x <= y
  <2>1. FreeNumbers \in SUBSET Nat
    BY FilesAssumption DEF FreeNumbers, Descriptor
  <2> QED
    BY <2>1, LeastNumber
<1>2. Lowest \in FreeNumbers
  BY <1>1, Zenon DEF Lowest, Min
<1>3. Lowest \in Descriptor /\ fds[Lowest] = Free
  BY <1>2 DEF FreeNumbers
<1>4. ASSUME NEW q \in Request, Lowest \in Held(q) PROVE FALSE
  <2>1. fds[Lowest].kind \in {"dir", "file"}
    BY <1>4, Locals DEF Held, LocalInv, NumbersInv
  <2> QED
    BY <1>3, <2>1 DEF Free
<1> QED
  BY <1>3, <1>4, FilesAssumption DEF Descriptor

\* openBeneath, and Read of what a download opened.
LEMMA OpenStep ==
    ASSUME FilesInv, NEW r \in Request, Open(r)
    PROVE  FilesInv'
<1>1. op[r] \in Operation /\ LocalInv(r, op[r])
  BY Locals
<1>2. entries[Temp(r)] = Nothing /\ content[r] = <<>> /\ op[r].parent = 0 /\ op[r].file = 0
  BY <1>1 DEF Open, LocalInv, NumbersInv, TempInv, BodyInv
<1>3. CASE UNCHANGED fds /\ (Answer(r, "failed") \/ Answer(r, "not found"))
  <2>1. Quiet
    BY <1>3, QuietUnchanged DEF Open
  <2>2. {"failed", "not found"} \subseteq Reply \ {"read"}
    BY DEF Reply
  <2> QED
    BY <1>2, <1>3, <2>1, <2>2, AnswerStep
<1>4. ASSUME NEW what \in Description, what.kind \in {"dir", "file"},
             NEW o \in Operation, op' = [op EXCEPT ![r] = o], FreeNumbers # {},
             fds' = [fds EXCEPT ![Lowest] = what],
             {o.parent, o.file} = {0, Lowest}, o.answer = op[r].answer, o.got = op[r].got,
             LocalInv(r, o)'
      PROVE  FilesInv'
  <2>1. Lowest \in Descriptor /\ \A q \in Request : Lowest \notin Held(q)
    BY <1>4, LowestIsNew
  <2>2. FilesTypeOK'
    BY <1>4 DEF Open, FilesInv, FilesTypeOK
  <2>3. NamedInv' /\ EmptyInv'
    BY DEF Open, FilesInv, NamedInv, EmptyInv, IsWhole
  <2>4. \A q \in Request \ {r} : \A n \in Held(q) : fds'[n] = fds[n] /\ n \notin {o.parent, o.file}
    <3> SUFFICES ASSUME NEW q \in Request \ {r}, NEW n \in Held(q)
                 PROVE  fds'[n] = fds[n] /\ n \notin {o.parent, o.file}
      OBVIOUS
    <3>1. n \in Descriptor /\ n # 0
      BY Locals
    <3>2. n # Lowest
      BY <2>1
    <3> QED
      BY <1>4, <3>1, <3>2 DEF FilesInv, FilesTypeOK
  <2>5. \A q \in Request : IsWhole(q) => IsWhole(q)'
    BY DEF Open, IsWhole
  <2> QED
    BY <1>4, <2>2, <2>3, <2>4, <2>5, LocalUpdate DEF Open
<1>5. CASE /\ op[r].kind = "download" /\ dir # 0 /\ entries[Target] # Nothing /\ FreeNumbers # {}
           /\ fds' = [fds EXCEPT ![Lowest] = FileOf(entries[Target])]
           /\ op' = [op EXCEPT ![r].pc = "read", ![r].file = Lowest]
  <2>1. entries[Target] \in Request /\ IsWhole(entries[Target])
    BY <1>5, NamesAreApart DEF FilesInv, FilesTypeOK, NamedInv
  <2>2. FileOf(entries[Target]) \in Description /\ FileOf(entries[Target]).kind = "file"
        /\ FileOf(entries[Target]).of = entries[Target]
    BY <2>1 DEF FileOf, Description
  <2>3. Lowest \in Descriptor /\ Lowest \in 0 .. MaxFD /\ Lowest # 0
    BY <1>5, LowestIsNew, FilesAssumption DEF Descriptor
  <2>4. PICK o : o = [op[r] EXCEPT !.pc = "read", !.file = Lowest]
    OBVIOUS
  <2>5. o \in Operation
    BY <1>1, <2>3, <2>4 DEF Operation
  <2>6. op' = [op EXCEPT ![r] = o]
    BY <1>1, <1>5, <2>4 DEF FilesInv, FilesTypeOK
  <2>7. /\ o.pc = "read" /\ o.parent = 0 /\ o.file = Lowest
        /\ o.answer = op[r].answer /\ o.got = op[r].got
    BY <1>1, <1>2, <2>4 DEF Operation
  <2>8. fds'[Lowest] = FileOf(entries[Target])
    BY <1>5, <2>3 DEF FilesInv, FilesTypeOK
  <2>9. LocalInv(r, o)'
    <3>1. UNCHANGED <<entries, content>>
      BY DEF Open
    <3> QED
      BY <1>1, <1>2, <2>1, <2>2, <2>3, <2>7, <2>8, <3>1
         DEF LocalInv, NumbersInv, BodyInv, ReadInv, TempInv, IsWhole
  <2> QED
    BY <1>4, <1>5, <2>2, <2>5, <2>6, <2>7, <2>9
<1>6. CASE /\ op[r].kind # "download" /\ dir # 0 /\ FreeNumbers # {}
           /\ fds' = [fds EXCEPT ![Lowest] = DirOf(dir)]
           /\ op' = [op EXCEPT ![r].parent = Lowest,
                        ![r].pc = CASE op[r].kind = "upload" -> "stat"
                                    [] op[r].kind \in {"move", "moveBack"} -> "move"
                                    [] OTHER -> "names"]
  <2>1. PICK pc \in {"stat", "move", "names"} :
           /\ pc = CASE op[r].kind = "upload" -> "stat"
                     [] op[r].kind \in {"move", "moveBack"} -> "move"
                     [] OTHER -> "names"
           /\ pc = "stat" <=> op[r].kind = "upload"
    BY SMT
  <2>2. DirOf(dir) \in Description /\ DirOf(dir).kind = "dir"
    BY DEF DirOf, Description, FilesInv, FilesTypeOK
  <2>3. Lowest \in Descriptor /\ Lowest \in 0 .. MaxFD /\ Lowest # 0
    BY <1>6, LowestIsNew, FilesAssumption DEF Descriptor
  <2>4. PICK o : o = [op[r] EXCEPT !.parent = Lowest, !.pc = pc]
    OBVIOUS
  <2>5. o \in Operation
    BY <1>1, <2>3, <2>4 DEF Operation
  <2>6. op' = [op EXCEPT ![r] = o]
    BY <1>1, <1>6, <2>1, <2>4 DEF FilesInv, FilesTypeOK
  <2>7. /\ o.pc = pc /\ o.parent = Lowest /\ o.file = 0 /\ o.kind = op[r].kind
        /\ o.answer = op[r].answer /\ o.got = op[r].got
    BY <1>1, <1>2, <2>4 DEF Operation
  <2>8. fds'[Lowest] = DirOf(dir)
    BY <1>6, <2>3 DEF FilesInv, FilesTypeOK
  <2>9. LocalInv(r, o)'
    <3>1. UNCHANGED <<entries, content>>
      BY DEF Open
    <3> QED
      BY <1>1, <1>2, <2>1, <2>2, <2>3, <2>7, <2>8, <3>1
         DEF LocalInv, NumbersInv, BodyInv, ReadInv, TempInv, IsWhole
  <2> QED
    BY <1>4, <1>6, <2>2, <2>5, <2>6, <2>7, <2>9
<1> QED
  BY <1>3, <1>5, <1>6 DEF Open

\* On to the next step, with the numbers as they are.
LEMMA StepStep ==
    ASSUME FilesInv, NEW r \in Request, Quiet,
           NEW pc \in {"temp", "publish", "sync", "copy2", "closeFile"}, Step(r, pc),
           LocalInv(r, [op[r] EXCEPT !.pc = pc])
    PROVE  FilesInv'
<1>1. op[r] \in Operation
  BY Locals
<1>2. PICK o : o = [op[r] EXCEPT !.pc = pc]
  OBVIOUS
<1>3. o \in Operation /\ o.parent = op[r].parent /\ o.file = op[r].file
  BY <1>1, <1>2 DEF Operation
<1>4. op' = [op EXCEPT ![r] = o]
  BY <1>2 DEF Step
<1> QED
  BY <1>2, <1>3, <1>4, QuietStep

\* A download reads the whole of a whole file.
LEMMA ReadStep ==
    ASSUME FilesInv, NEW r \in Request, Read(r)
    PROVE  FilesInv'
<1>1. op[r] \in Operation /\ LocalInv(r, op[r])
  BY Locals
<1>2. op[r].file \in Descriptor /\ fds[op[r].file].kind = "file"
  <2>1. op[r].file \in 0 .. MaxFD
    BY <1>1 DEF Operation
  <2> QED
    BY <1>1, <2>1, FilesAssumption DEF Read, LocalInv, NumbersInv, Descriptor
<1>3. PICK q \in Request : q = fds[op[r].file].of
  BY <1>2, FileIsOfRequest DEF FilesInv
<1>4. content[q] = Whole(q) /\ content[q] \in Seq(Request)
  BY <1>1, <1>3 DEF Read, LocalInv, ReadInv, IsWhole, FilesInv, FilesTypeOK
<1>5. PICK o : o = [op[r] EXCEPT !.pc = "cleanup", !.answer = "read", !.got = content[q]]
  OBVIOUS
<1>6. o \in Operation
  BY <1>1, <1>4, <1>5 DEF Operation, Reply
<1>7. op' = [op EXCEPT ![r] = o]
  BY <1>1, <1>2, <1>3, <1>5 DEF Read, FilesInv, FilesTypeOK
<1>8. /\ o.pc = "cleanup" /\ o.answer = "read" /\ o.got = Whole(q)
      /\ o.parent = op[r].parent /\ o.file = op[r].file
  BY <1>1, <1>4, <1>5 DEF Operation
<1>9. entries[Temp(r)] = Nothing
  BY <1>1 DEF Read, LocalInv, TempInv
<1>10. LocalInv(r, o)
  BY <1>1, <1>8, <1>9 DEF LocalInv, NumbersInv, BodyInv, ReadInv, TempInv
<1>11. Quiet
  BY QuietUnchanged DEF Read
<1> QED
  BY <1>6, <1>7, <1>8, <1>10, <1>11, QuietStep

\* An upload up to its temporary file, and its sync: errors, or on to the next step.
LEMMA StatStep ==
    ASSUME FilesInv, NEW r \in Request, StatTarget(r) \/ Sync(r)
    PROVE  FilesInv'
<1>1. op[r] \in Operation /\ LocalInv(r, op[r])
  BY Locals
<1>2. Quiet
  BY QuietUnchanged DEF StatTarget, Sync
<1>3. CASE Return(r, "failed") \/ Return(r, "conflict")
  <2>1. {"failed", "conflict"} \subseteq Reply \ {"read", "stored"}
    BY DEF Reply
  <2> QED
    BY <1>2, <1>3, <2>1, ReturnStep
<1>4. CASE StatTarget(r) /\ Step(r, "temp")
  <2>1. LocalInv(r, [op[r] EXCEPT !.pc = "temp"])
    BY <1>1, <1>4 DEF StatTarget, Operation, LocalInv, NumbersInv, BodyInv, ReadInv, TempInv
  <2> QED
    BY <1>2, <1>4, <2>1, StepStep
<1>5. CASE Sync(r) /\ Step(r, "publish")
  <2>1. LocalInv(r, [op[r] EXCEPT !.pc = "publish"])
    BY <1>1, <1>5 DEF Sync, Operation, LocalInv, NumbersInv, BodyInv, ReadInv, TempInv
  <2> QED
    BY <1>2, <1>5, <2>1, StepStep
<1> QED
  BY <1>3, <1>4, <1>5 DEF StatTarget, Sync

\* The temporary file gets a number and a name of its own.
LEMMA CreateStep ==
    ASSUME FilesInv, NEW r \in Request, CreateTempFile(r)
    PROVE  FilesInv'
<1>1. op[r] \in Operation /\ LocalInv(r, op[r])
  BY Locals
<1>2. CASE Return(r, "failed") /\ UNCHANGED <<fds, entries>>
  <2>1. Quiet
    BY <1>2, QuietUnchanged DEF CreateTempFile
  <2>2. "failed" \in Reply /\ "failed" \notin {"read", "stored"}
    BY DEF Reply
  <2> QED
    BY <1>2, <2>1, <2>2, ReturnStep
<1>3. CASE /\ Reaches(op[r].parent) /\ FreeNumbers # {}
           /\ fds' = [fds EXCEPT ![Lowest] = FileOf(r)]
           /\ entries' = [entries EXCEPT ![Temp(r)] = r]
           /\ op' = [op EXCEPT ![r].pc = "copy", ![r].file = Lowest]
  <2>1. Lowest \in Descriptor /\ Lowest # 0 /\ \A q \in Request : Lowest \notin Held(q)
    BY <1>3, LowestIsNew
  <2>2. Lowest \in 0 .. MaxFD
    BY <2>1, FilesAssumption DEF Descriptor
  <2>3. PICK o : o = [op[r] EXCEPT !.pc = "copy", !.file = Lowest]
    OBVIOUS
  <2>4. o \in Operation
    BY <1>1, <2>2, <2>3 DEF Operation
  <2>5. op' = [op EXCEPT ![r] = o]
    BY <1>1, <1>3, <2>3 DEF FilesInv, FilesTypeOK
  <2>6. /\ o.pc = "copy" /\ o.file = Lowest /\ o.parent = op[r].parent /\ o.kind = op[r].kind
        /\ o.answer = op[r].answer /\ o.got = op[r].got
    BY <1>1, <2>3 DEF Operation
  <2>7. FileOf(r) \in Description /\ FileOf(r).kind = "file"
    BY DEF FileOf, Description
  <2>8. FilesTypeOK'
    BY <1>3, <2>4, <2>5, <2>7 DEF CreateTempFile, FilesInv, FilesTypeOK
  <2>9. entries' \in [Names -> Request \cup {Nothing}] /\ entries'[Temp(r)] = r
        /\ \A n \in Names \ {Temp(r)} : entries'[n] = entries[n]
    BY <1>3, <2>8, NamesAreApart DEF FilesInv, FilesTypeOK
  <2>10. NamedInv'
    BY <2>9, NamesAreApart DEF CreateTempFile, FilesInv, NamedInv, IsWhole
  <2>11. EmptyInv' /\ dir' = dir /\ content' = content
    BY <1>3 DEF CreateTempFile, EmptyInv, Reaches
  <2>12. \A q \in Request \ {r} : \A n \in Held(q) : fds'[n] = fds[n] /\ n \notin {o.parent, o.file}
    <3> SUFFICES ASSUME NEW q \in Request \ {r}, NEW n \in Held(q)
                 PROVE  fds'[n] = fds[n] /\ n \notin {o.parent, o.file}
      OBVIOUS
    <3>1. n \in Descriptor /\ n # op[r].parent
      BY Locals
    <3>2. n # Lowest
      BY <2>1
    <3> QED
      BY <1>3, <2>6, <3>1, <3>2 DEF FilesInv, FilesTypeOK
  <2>13. LocalInv(r, o)'
    <3>1. op[r].parent \in Descriptor /\ op[r].parent # 0 /\ op[r].parent # Lowest
      <4>1. op[r].parent # 0 /\ op[r].parent \in 0 .. MaxFD
        BY <1>1 DEF CreateTempFile, LocalInv, NumbersInv, Operation
      <4>2. op[r].parent \in Held(r)
        BY <4>1 DEF Held
      <4> QED
        BY <2>1, <4>1, <4>2, FilesAssumption DEF Descriptor
    <3>2. fds'[o.parent] = fds[op[r].parent] /\ fds'[Lowest] = FileOf(r)
      BY <1>3, <2>1, <2>6, <3>1 DEF FilesInv, FilesTypeOK
    <3>3. NumbersInv(r, o)'
      BY <1>1, <2>1, <2>6, <2>7, <3>1, <3>2 DEF CreateTempFile, LocalInv, NumbersInv
    <3>4. BodyInv(r, o)' /\ ReadInv(o)'
      BY <1>1, <2>6, <2>11 DEF CreateTempFile, LocalInv, BodyInv, ReadInv, IsWhole
    <3>5. TempInv(r, o)'
      BY <1>1, <1>3, <2>6, <2>9, <2>11, <3>1, <3>2
         DEF CreateTempFile, LocalInv, NumbersInv, TempInv, Reaches
    <3> QED
      BY <3>3, <3>4, <3>5 DEF LocalInv
  <2>14. \A q \in Request : IsWhole(q) => IsWhole(q)'
    BY <2>11 DEF IsWhole
  <2>15. \A q \in Request \ {r} : entries'[Temp(q)] \in {Nothing, entries[Temp(q)]}
    BY <2>9, NamesAreApart
  <2> QED
    BY <2>4, <2>5, <2>8, <2>10, <2>11, <2>12, <2>13, <2>14, <2>15, LocalUpdate
<1> QED
  BY <1>2, <1>3 DEF CreateTempFile

\* The body of an upload, chunk by chunk.
LEMMA Bodies ==
    ASSUME NEW r \in Request
    PROVE  /\ Append(<<>>, r) = <<r>> /\ Append(<<r>>, r) = Whole(r)
           /\ <<>> # Whole(r) /\ <<r>> # Whole(r)
<1>1. <<>> \in Seq(Request) /\ <<r>> \in Seq(Request) /\ <<r, r>> \in Seq(Request)
  OBVIOUS
<1>2. Append(<<>>, r) = <<r>>
  OBVIOUS
<1>3. Len(<<>>) = 0 /\ Len(<<r>>) = 1 /\ Len(<<r, r>>) = 2
  OBVIOUS
<1>4. Append(<<r>>, r) = <<r, r>>
  <2>1. PICK s \in Seq(Request) : s = <<r>> /\ Len(s) = 1 /\ s[1] = r
    BY <1>1, <1>3
  <2>2. PICK w \in Seq(Request) : w = <<r, r>> /\ Len(w) = 2 /\ w[1] = r /\ w[2] = r
    BY <1>1, <1>3
  <2>3. /\ Append(s, r) \in Seq(Request) /\ Len(Append(s, r)) = 2
        /\ Append(s, r)[1] = r /\ Append(s, r)[2] = r
    BY <2>1, AppendProperties
  <2>4. \A i \in 1 .. 2 : Append(s, r)[i] = w[i]
    BY <2>2, <2>3
  <2>5. Append(s, r) = w
    BY <2>2, <2>3, <2>4, SeqEqual
  <2> QED
    BY <2>1, <2>2, <2>5
<1>5. <<>> # <<r, r>> /\ <<r>> # <<r, r>>
  BY <1>3
<1> QED
  BY <1>2, <1>4, <1>5 DEF Whole

\* A chunk goes to the file of its own upload, which is not whole before.
LEMMA CopyStep ==
    ASSUME FilesInv, NEW r \in Request, CopyBounded(r)
    PROVE  FilesInv'
<1>1. op[r] \in Operation /\ LocalInv(r, op[r])
  BY Locals
<1>2. CASE Return(r, "failed") /\ UNCHANGED content
  <2>1. Quiet
    BY <1>2, QuietUnchanged DEF CopyBounded
  <2>2. "failed" \in Reply /\ "failed" \notin {"read", "stored"}
    BY DEF Reply
  <2> QED
    BY <1>2, <2>1, <2>2, ReturnStep
<1>3. CASE /\ content' = [content EXCEPT ![fds[op[r].file].of] = Append(@, r)]
           /\ Step(r, IF op[r].pc = "copy" THEN "copy2" ELSE "sync")
  <2>1. fds[op[r].file].of = r
    BY <1>1 DEF CopyBounded, LocalInv, NumbersInv, FileOf
  <2>2. PICK pc : /\ pc = IF op[r].pc = "copy" THEN "copy2" ELSE "sync"
                  /\ pc \in {"copy2", "sync"}
    BY Zenon
  <2>3. PICK o : o = [op[r] EXCEPT !.pc = pc]
    OBVIOUS
  <2>4. o \in Operation
    BY <1>1, <2>2, <2>3 DEF Operation
  <2>5. op' = [op EXCEPT ![r] = o]
    BY <1>3, <2>2, <2>3 DEF Step
  <2>6. /\ o.pc = pc /\ o.file = op[r].file /\ o.parent = op[r].parent /\ o.kind = op[r].kind
        /\ o.answer = op[r].answer /\ o.got = op[r].got
    BY <1>1, <2>3 DEF Operation
  <2>7. /\ content' \in [Request -> Seq(Request)]
        /\ content'[r] = Append(content[r], r)
        /\ \A q \in Request \ {r} : content'[q] = content[q]
    BY <1>3, <2>1 DEF FilesInv, FilesTypeOK
  <2>8. /\ op[r].pc = "copy" => content'[r] = <<r>> /\ content[r] = <<>>
        /\ op[r].pc = "copy2" => content'[r] = Whole(r) /\ content[r] = <<r>>
    BY <1>1, <2>7, Bodies DEF LocalInv, BodyInv
  <2>9. ~IsWhole(r)
    BY <2>8, Bodies DEF CopyBounded, IsWhole
  <2>10. UNCHANGED <<dir, dirs, entries, fds, stale>>
    BY DEF CopyBounded
  <2>11. \A q \in Request : IsWhole(q) => IsWhole(q)'
    BY <2>7, <2>9 DEF IsWhole
  <2>12. FilesTypeOK'
    BY <2>4, <2>5, <2>7, <2>10 DEF FilesInv, FilesTypeOK
  <2>13. NamedInv' /\ EmptyInv'
    <3>1. \A n \in {Target, Other} : entries[n] \in Request \cup {Nothing}
      BY NamesAreApart DEF FilesInv, FilesTypeOK
    <3> QED
      BY <2>10, <2>11, <3>1 DEF FilesInv, NamedInv, EmptyInv
  <2>14. LocalInv(r, o)'
    <3>1. NumbersInv(r, o)'
      BY <1>1, <2>2, <2>6, <2>10 DEF CopyBounded, LocalInv, NumbersInv
    <3>2. BodyInv(r, o)' /\ ReadInv(o)'
      BY <1>1, <2>2, <2>6, <2>8 DEF CopyBounded, LocalInv, BodyInv, ReadInv, IsWhole
    <3>3. TempInv(r, o)'
      BY <1>1, <2>2, <2>6, <2>10 DEF CopyBounded, LocalInv, TempInv, Reaches
    <3> QED
      BY <3>1, <3>2, <3>3 DEF LocalInv
  <2>15. \A q \in Request \ {r} : \A n \in Held(q) : fds'[n] = fds[n] /\ n \notin {o.parent, o.file}
    BY <2>6, <2>10, Locals
  <2> QED
    BY <2>4, <2>5, <2>7, <2>10, <2>11, <2>12, <2>13, <2>14, <2>15, LocalUpdate
<1> QED
  BY <1>2, <1>3 DEF CopyBounded

\* A step of r on the names: it may remove any, and give the names that clients use to whole
\* files, in a directory that is there.
LEMMA EntriesStep ==
    ASSUME FilesInv, NEW r \in Request, NEW o \in Operation, op' = [op EXCEPT ![r] = o],
           o.parent = op[r].parent, o.file = op[r].file,
           UNCHANGED <<dir, dirs, content, fds, stale>>,
           entries' \in [Names -> Request \cup {Nothing}],
           dir # 0 \/ entries' = entries,
           \A n \in {Target, Other} : entries'[n] # Nothing => IsWhole(entries'[n]),
           \A q \in Request \ {r} : entries'[Temp(q)] \in {Nothing, entries[Temp(q)]},
           NumbersInv(r, o), BodyInv(r, o), ReadInv(o), TempInv(r, o)'
    PROVE  FilesInv'
<1>1. FilesTypeOK'
  BY DEF FilesInv, FilesTypeOK
<1>2. NamedInv' /\ EmptyInv'
  BY DEF FilesInv, NamedInv, EmptyInv, IsWhole
<1>3. \A q \in Request \ {r} : \A n \in Held(q) : fds'[n] = fds[n] /\ n \notin {o.parent, o.file}
  BY Locals
<1>4. LocalInv(r, o)'
  BY DEF LocalInv, NumbersInv, BodyInv, ReadInv, IsWhole
<1>5. \A q \in Request : IsWhole(q) => IsWhole(q)'
  BY DEF IsWhole
<1> QED
  BY <1>1, <1>2, <1>3, <1>4, <1>5, LocalUpdate

\* The upload is renamed over the target, whole.
LEMMA PublishStep ==
    ASSUME FilesInv, NEW r \in Request, PublishFile(r)
    PROVE  FilesInv'
<1>1. op[r] \in Operation /\ LocalInv(r, op[r])
  BY Locals
<1>2. CASE (Return(r, "failed") \/ Return(r, "conflict")) /\ UNCHANGED entries
  <2>1. {"failed", "conflict"} \subseteq Reply \ {"read", "stored"}
    BY DEF Reply
  <2>2. Quiet
    BY <1>2, QuietUnchanged DEF PublishFile
  <2> QED
    BY <1>2, <2>1, <2>2, ReturnStep
<1>3. CASE /\ Reaches(op[r].parent) /\ entries[Temp(r)] # Nothing
           /\ entries' = [entries EXCEPT ![Target] = entries[Temp(r)], ![Temp(r)] = Nothing]
           /\ Return(r, "stored")
  <2>1. PICK o : o = [op[r] EXCEPT !.pc = "cleanup", !.answer = "stored"]
    OBVIOUS
  <2>2. o \in Operation
    BY <1>1, <2>1 DEF Operation, Reply
  <2>3. op' = [op EXCEPT ![r] = o]
    BY <1>1, <1>3, <2>1 DEF Return, FilesInv, FilesTypeOK
  <2>4. /\ o.pc = "cleanup" /\ o.answer = "stored" /\ o.parent = op[r].parent /\ o.file = op[r].file
    BY <1>1, <2>1 DEF Operation
  <2>5. entries[Temp(r)] = r /\ IsWhole(r)
    BY <1>1, <1>3 DEF PublishFile, LocalInv, TempInv, BodyInv
  <2>6. /\ entries' \in [Names -> Request \cup {Nothing}]
        /\ entries'[Target] = r /\ entries'[Temp(r)] = Nothing
        /\ \A n \in Names \ {Target, Temp(r)} : entries'[n] = entries[n]
    BY <1>3, <2>5, NamesAreApart DEF FilesInv, FilesTypeOK
  <2>7. \A n \in {Target, Other} : entries'[n] # Nothing => IsWhole(entries'[n])
    BY <2>5, <2>6, NamesAreApart DEF FilesInv, NamedInv
  <2>8. \A q \in Request \ {r} : entries'[Temp(q)] \in {Nothing, entries[Temp(q)]}
    BY <2>6, NamesAreApart
  <2>9. NumbersInv(r, o) /\ BodyInv(r, o) /\ ReadInv(o) /\ TempInv(r, o)'
    BY <1>1, <2>4, <2>6 DEF LocalInv, NumbersInv, BodyInv, ReadInv, TempInv
  <2>10. UNCHANGED <<dir, dirs, content, fds, stale>> /\ dir # 0
    BY <1>3 DEF PublishFile, Reaches
  <2> QED
    BY <2>2, <2>3, <2>4, <2>6, <2>7, <2>8, <2>9, <2>10, EntriesStep
<1> QED
  BY <1>2, <1>3 DEF PublishFile

\* A rename from one of the clients' names to the other.
LEMMA MoveStep ==
    ASSUME FilesInv, NEW r \in Request, Move(r)
    PROVE  FilesInv'
<1>1. op[r] \in Operation /\ LocalInv(r, op[r])
  BY Locals
<1>2. PICK from \in {Target, Other} : from = IF op[r].kind = "move" THEN Target ELSE Other
  BY Zenon
<1>3. PICK to \in {Target, Other} : to = IF op[r].kind = "move" THEN Other ELSE Target
  BY Zenon
<1>4. from # to /\ from \in Names /\ to \in Names
  BY <1>2, <1>3, NamesAreApart
<1>5. CASE (Return(r, "failed") \/ Return(r, "conflict")) /\ UNCHANGED entries
  <2>1. {"failed", "conflict"} \subseteq Reply \ {"read", "stored"}
    BY DEF Reply
  <2>2. Quiet
    BY <1>5, QuietUnchanged DEF Move
  <2> QED
    BY <1>5, <2>1, <2>2, ReturnStep
<1>6. CASE /\ Reaches(op[r].parent) /\ entries[from] # Nothing
           /\ entries' = [entries EXCEPT ![to] = entries[from], ![from] = Nothing]
           /\ Return(r, "moved")
  <2>1. PICK o : o = [op[r] EXCEPT !.pc = "cleanup", !.answer = "moved"]
    OBVIOUS
  <2>2. o \in Operation
    BY <1>1, <2>1 DEF Operation, Reply
  <2>3. op' = [op EXCEPT ![r] = o]
    BY <1>1, <1>6, <2>1 DEF Return, FilesInv, FilesTypeOK
  <2>4. /\ o.pc = "cleanup" /\ o.answer = "moved" /\ o.parent = op[r].parent /\ o.file = op[r].file
    BY <1>1, <2>1 DEF Operation
  <2>5. entries[from] \in Request /\ IsWhole(entries[from])
    BY <1>4, <1>6 DEF FilesInv, FilesTypeOK, NamedInv
  <2>6. /\ entries' \in [Names -> Request \cup {Nothing}]
        /\ entries'[to] = entries[from] /\ entries'[from] = Nothing
        /\ \A n \in Names \ {to, from} : entries'[n] = entries[n]
    BY <1>4, <1>6, <2>5 DEF FilesInv, FilesTypeOK
  <2>7. \A n \in {Target, Other} : entries'[n] # Nothing => IsWhole(entries'[n])
    BY <1>2, <1>3, <1>4, <2>5, <2>6
  <2>8. \A q \in Request : entries'[Temp(q)] = entries[Temp(q)]
    BY <2>6, NamesAreApart
  <2>9. entries[Temp(r)] = Nothing
    BY <1>1 DEF Move, LocalInv, TempInv
  <2>10. NumbersInv(r, o) /\ BodyInv(r, o) /\ ReadInv(o) /\ TempInv(r, o)'
    BY <1>1, <2>4, <2>8, <2>9 DEF LocalInv, NumbersInv, BodyInv, ReadInv, TempInv
  <2>11. UNCHANGED <<dir, dirs, content, fds, stale>> /\ dir # 0
    BY <1>6 DEF Move, Reaches
  <2> QED
    BY <2>2, <2>3, <2>4, <2>6, <2>7, <2>8, <2>10, <2>11, EntriesStep
<1> QED
  BY <1>2, <1>3, <1>5, <1>6 DEF Move

\* The listing, and the removal of what it lists.
LEMMA ListStep ==
    ASSUME FilesInv, NEW r \in Request, ReadNames(r) \/ EachName(r)
    PROVE  FilesInv'
<1>1. op[r] \in Operation /\ LocalInv(r, op[r])
  BY Locals
<1>2. {"failed", "listed"} \subseteq Reply \ {"read", "stored"}
  BY DEF Reply
<1>3. CASE (Return(r, "failed") \/ Return(r, "listed")) /\ UNCHANGED entries
  <2>1. Quiet
    BY <1>3, QuietUnchanged DEF ReadNames, EachName
  <2> QED
    BY <1>2, <1>3, <2>1, ReturnStep
<1>4. entries[Temp(r)] = Nothing \/ op[r].pc \notin {"names", "each"}
  BY <1>1 DEF LocalInv, TempInv
<1>5. ASSUME ReadNames(r), ~Return(r, "failed")
      PROVE  FilesInv'
  <2>1. PICK names \in SUBSET Names : op' = [op EXCEPT ![r].pc = "each", ![r].names = names]
    <3>1. {n \in Names : entries[n] # Nothing} \in SUBSET Names /\ {} \in SUBSET Names
      OBVIOUS
    <3> QED
      BY <1>5, <3>1 DEF ReadNames
  <2>2. PICK o : o = [op[r] EXCEPT !.pc = "each", !.names = names]
    OBVIOUS
  <2>3. o \in Operation
    BY <1>1, <2>2 DEF Operation
  <2>4. op' = [op EXCEPT ![r] = o]
    BY <1>1, <2>1, <2>2 DEF FilesInv, FilesTypeOK
  <2>5. /\ o.pc = "each" /\ o.parent = op[r].parent /\ o.file = op[r].file /\ o.kind = op[r].kind
        /\ o.answer = op[r].answer /\ o.got = op[r].got
    BY <1>1, <2>2 DEF Operation
  <2>6. LocalInv(r, o)
    BY <1>1, <1>4, <1>5, <2>5 DEF ReadNames, LocalInv, NumbersInv, BodyInv, ReadInv, TempInv
  <2>7. Quiet
    BY <1>5, QuietUnchanged DEF ReadNames
  <2> QED
    BY <2>3, <2>4, <2>5, <2>6, <2>7, QuietStep
<1>6. ASSUME EachName(r), NEW n \in op[r].names,
             op' = [op EXCEPT ![r].names = @ \ {n}],
             entries' = IF op[r].kind = "delete" /\ Reaches(op[r].parent)
                        THEN [entries EXCEPT ![n] = Nothing] ELSE entries
      PROVE  FilesInv'
  <2>1. PICK o : o = [op[r] EXCEPT !.names = op[r].names \ {n}]
    OBVIOUS
  <2>2. o \in Operation /\ n \in Names
    BY <1>1, <2>1 DEF Operation
  <2>3. op' = [op EXCEPT ![r] = o]
    BY <1>1, <1>6, <2>1 DEF FilesInv, FilesTypeOK
  <2>4. /\ o.pc = op[r].pc /\ o.parent = op[r].parent /\ o.file = op[r].file /\ o.kind = op[r].kind
        /\ o.answer = op[r].answer /\ o.got = op[r].got
    BY <1>1, <2>1 DEF Operation
  <2>5. /\ entries' \in [Names -> Request \cup {Nothing}]
        /\ \A m \in Names : entries'[m] \in {Nothing, entries[m]}
        /\ dir # 0 \/ entries' = entries
    BY <1>6, <2>2 DEF FilesInv, FilesTypeOK, Reaches
  <2>6. \A m \in {Target, Other} : entries'[m] # Nothing => IsWhole(entries'[m])
    BY <2>5, NamesAreApart DEF FilesInv, NamedInv
  <2>7. \A q \in Request : entries'[Temp(q)] \in {Nothing, entries[Temp(q)]}
    BY <2>5, NamesAreApart
  <2>8. NumbersInv(r, o) /\ BodyInv(r, o) /\ ReadInv(o)
    BY <1>1, <2>4 DEF LocalInv, NumbersInv, BodyInv, ReadInv
  <2>9. TempInv(r, o)'
    BY <1>4, <1>6, <2>7 DEF EachName, TempInv
  <2>10. UNCHANGED <<dir, dirs, content, fds, stale>>
    BY <1>6 DEF EachName
  <2> QED
    BY <2>2, <2>3, <2>4, <2>5, <2>6, <2>7, <2>8, <2>9, <2>10, EntriesStep
<1>7. CASE ReadNames(r)
  <2>1. UNCHANGED entries
    BY <1>7 DEF ReadNames
  <2> QED
    BY <1>3, <1>5, <1>7, <2>1
<1>8. CASE EachName(r)
  BY <1>3, <1>6, <1>8 DEF EachName
<1> QED
  BY <1>7, <1>8

\* An upload that did not publish unlinks its name, and can: its directory has not gone.
LEMMA UnlinkStep ==
    ASSUME FilesInv, NEW r \in Request, Unlink(r)
    PROVE  FilesInv'
<1>1. op[r] \in Operation /\ LocalInv(r, op[r])
  BY Locals
<1>2. PICK o : o = [op[r] EXCEPT !.pc = "closeFile"]
  OBVIOUS
<1>3. o \in Operation
  BY <1>1, <1>2 DEF Operation
<1>4. op' = [op EXCEPT ![r] = o]
  BY <1>2 DEF Unlink, Step
<1>5. /\ o.pc = "closeFile" /\ o.parent = op[r].parent /\ o.file = op[r].file
      /\ o.answer = op[r].answer /\ o.got = op[r].got
  BY <1>1, <1>2 DEF Operation
<1>6. /\ entries' \in [Names -> Request \cup {Nothing}]
      /\ \A m \in Names : entries'[m] \in {Nothing, entries[m]}
      /\ dir # 0 \/ entries' = entries
  BY NamesAreApart DEF Unlink, FilesInv, FilesTypeOK, Reaches
<1>7. entries'[Temp(r)] = Nothing
  <2>1. CASE entries[Temp(r)] = Nothing
    BY <1>6, <2>1, NamesAreApart
  <2>2. CASE entries[Temp(r)] # Nothing
    <3>1. op[r].kind = "upload" /\ op[r].answer # "stored" /\ Reaches(op[r].parent)
      BY <1>1, <2>2 DEF Unlink, LocalInv, TempInv
    <3>2. entries' = [entries EXCEPT ![Temp(r)] = Nothing]
      BY <3>1 DEF Unlink
    <3> QED
      BY <3>2, NamesAreApart DEF FilesInv, FilesTypeOK
  <2> QED
    BY <2>1, <2>2
<1>8. \A m \in {Target, Other} : entries'[m] # Nothing => IsWhole(entries'[m])
  BY <1>6, NamesAreApart DEF FilesInv, NamedInv
<1>9. \A q \in Request : entries'[Temp(q)] \in {Nothing, entries[Temp(q)]}
  BY <1>6, NamesAreApart
<1>10. NumbersInv(r, o) /\ BodyInv(r, o) /\ ReadInv(o) /\ TempInv(r, o)'
  BY <1>1, <1>5, <1>7 DEF LocalInv, NumbersInv, BodyInv, ReadInv, TempInv
<1>11. UNCHANGED <<dir, dirs, content, fds, stale>>
  BY DEF Unlink
<1> QED
  BY <1>3, <1>4, <1>5, <1>6, <1>8, <1>9, <1>10, <1>11, EntriesStep

\* A request gives a number back that no other holds.
LEMMA CloseStep ==
    ASSUME FilesInv, NEW r \in Request, NEW o \in Operation, op' = [op EXCEPT ![r] = o],
           NEW n \in {op[r].parent, op[r].file}, Closing(n, r),
           UNCHANGED <<dir, dirs, entries, content>>,
           o.parent \in {0, op[r].parent}, o.file \in {0, op[r].file},
           entries[Temp(r)] = Nothing, NumbersInv(r, o)', BodyInv(r, o), ReadInv(o), o.pc # "read"
    PROVE  FilesInv'
<1>1. stale' \in BOOLEAN
  <2>1. stale' = (stale \/ \E q \in Request \ {r} : n \in Held(q))
    BY DEF Closing
  <2> QED
    BY <2>1, Zenon
<1>2. fds' = [fds EXCEPT ![n] = Free] /\ Free \in Description
  BY DEF Closing, Free, Description
<1>3. FilesTypeOK'
  BY <1>1, <1>2 DEF FilesInv, FilesTypeOK
<1>4. NamedInv' /\ EmptyInv'
  BY DEF FilesInv, NamedInv, EmptyInv, IsWhole
<1>5. \A q \in Request \ {r} : \A m \in Held(q) : fds'[m] = fds[m] /\ m \notin {o.parent, o.file}
  <2> SUFFICES ASSUME NEW q \in Request \ {r}, NEW m \in Held(q)
               PROVE  fds'[m] = fds[m] /\ m \notin {o.parent, o.file}
    OBVIOUS
  <2>1. m \in Descriptor /\ m \notin {0, op[r].parent, op[r].file}
    BY Locals
  <2> QED
    BY <1>2, <2>1 DEF FilesInv, FilesTypeOK
<1>6. LocalInv(r, o)'
  BY DEF LocalInv, BodyInv, ReadInv, TempInv, IsWhole
<1>7. \A q \in Request : IsWhole(q) => IsWhole(q)'
  BY DEF IsWhole
<1> QED
  BY <1>3, <1>4, <1>5, <1>6, <1>7, LocalUpdate

\* A request closes its file, which frees its own number.
LEMMA CloseFileStep ==
    ASSUME FilesInv, NEW r \in Request, CloseFile(r)
    PROVE  FilesInv'
<1>1. op[r] \in Operation /\ LocalInv(r, op[r])
  BY Locals
<1>2. PICK o : o = [op[r] EXCEPT !.pc = "closeParent", !.file = 0]
  OBVIOUS
<1>3. o \in Operation
  <2>1. 0 \in 0 .. MaxFD
    BY FilesAssumption
  <2> QED
    BY <1>1, <1>2, <2>1 DEF Operation
<1>4. op' = [op EXCEPT ![r] = o]
  BY <1>1, <1>2 DEF CloseFile, FilesInv, FilesTypeOK
<1>5. /\ o.pc = "closeParent" /\ o.parent = op[r].parent /\ o.file = 0
      /\ o.answer = op[r].answer /\ o.got = op[r].got
  BY <1>1, <1>2 DEF Operation
<1>6. entries[Temp(r)] = Nothing
  BY <1>1 DEF CloseFile, LocalInv, TempInv
<1>7. NumbersInv(r, o) /\ BodyInv(r, o) /\ ReadInv(o) /\ TempInv(r, o)
  BY <1>1, <1>5, <1>6 DEF LocalInv, NumbersInv, BodyInv, ReadInv, TempInv
<1>8. CASE op[r].file = 0
  <2>1. Quiet
    BY <1>8, QuietUnchanged DEF CloseFile
  <2> QED
    BY <1>3, <1>4, <1>5, <1>7, <2>1, QuietStep DEF LocalInv
<1>9. CASE op[r].file # 0
  <2>1. Closing(op[r].file, r)
    BY <1>9 DEF CloseFile
  <2>2. o.parent # 0 => fds'[o.parent] = fds[o.parent]
    <3>1. ASSUME o.parent # 0 PROVE o.parent \in Descriptor /\ o.parent # op[r].file
      <4>1. o.parent \in 0 .. MaxFD
        BY <1>3 DEF Operation
      <4> QED
        BY <1>1, <1>5, <1>9, <3>1, <4>1, FilesAssumption DEF LocalInv, NumbersInv, Descriptor
    <3> QED
      BY <2>1, <3>1 DEF Closing, FilesInv, FilesTypeOK
  <2>3. NumbersInv(r, o)'
    BY <1>5, <1>7, <2>2 DEF NumbersInv
  <2>4. UNCHANGED <<dir, dirs, entries, content>>
    BY DEF CloseFile
  <2> QED
    BY <1>3, <1>4, <1>5, <1>6, <1>7, <2>1, <2>3, <2>4, CloseStep
<1> QED
  BY <1>8, <1>9

\* And the directory.
LEMMA CloseParentStep ==
    ASSUME FilesInv, NEW r \in Request, CloseParent(r)
    PROVE  FilesInv'
<1>1. op[r] \in Operation /\ LocalInv(r, op[r]) /\ op[r].got \in Seq(Request) /\ op[r].answer \in Reply
  BY Locals DEF Operation
<1>2. op[r].file = 0 /\ entries[Temp(r)] = Nothing
  BY <1>1 DEF CloseParent, LocalInv, NumbersInv, TempInv
<1>3. PICK o \in Operation :
        /\ op' = [op EXCEPT ![r] = o]
        /\ o.parent = 0 /\ o.file = 0 /\ o.pc \in {"rmdir", "done"}
        /\ o.answer = op[r].answer /\ o.got = op[r].got
  <2>0. 0 \in 0 .. MaxFD
    BY FilesAssumption
  <2>1. CASE op' = [op EXCEPT ![r].pc = "rmdir", ![r].parent = 0]
    <3>1. PICK o : o = [op[r] EXCEPT !.pc = "rmdir", !.parent = 0]
      OBVIOUS
    <3>2. o \in Operation
      BY <1>1, <2>0, <3>1 DEF Operation
    <3>3. o.parent = 0 /\ o.file = 0 /\ o.pc = "rmdir" /\ o.answer = op[r].answer /\ o.got = op[r].got
      BY <1>1, <1>2, <3>1 DEF Operation
    <3>4. op' = [op EXCEPT ![r] = o]
      BY <1>1, <2>1, <3>1 DEF FilesInv, FilesTypeOK
    <3> QED
      BY <3>2, <3>3, <3>4
  <2>2. CASE Answer(r, op[r].answer)
    <3>1. PICK o : o = [Idle EXCEPT !.pc = "done", !.answer = op[r].answer, !.got = op[r].got]
      OBVIOUS
    <3>2. o \in Operation
      BY <1>1, <2>0, <3>1 DEF Operation, Idle
    <3>3. o.parent = 0 /\ o.file = 0 /\ o.pc = "done" /\ o.answer = op[r].answer /\ o.got = op[r].got
      BY <3>1 DEF Idle
    <3>4. op' = [op EXCEPT ![r] = o]
      BY <2>2, <3>1 DEF Answer
    <3> QED
      BY <3>2, <3>3, <3>4
  <2> QED
    BY <2>1, <2>2 DEF CloseParent
<1>4. NumbersInv(r, o) /\ BodyInv(r, o) /\ ReadInv(o) /\ TempInv(r, o)
  BY <1>1, <1>2, <1>3 DEF LocalInv, NumbersInv, BodyInv, ReadInv, TempInv
<1>5. CASE op[r].parent = 0
  <2>1. Quiet
    BY <1>5, QuietUnchanged DEF CloseParent
  <2> QED
    BY <1>3, <1>4, <2>1, QuietStep DEF LocalInv
<1>6. CASE op[r].parent # 0
  <2>1. Closing(op[r].parent, r)
    BY <1>6 DEF CloseParent
  <2>2. NumbersInv(r, o)'
    BY <1>3 DEF NumbersInv
  <2>3. UNCHANGED <<dir, dirs, entries, content>>
    BY DEF CloseParent
  <2> QED
    BY <1>2, <1>3, <1>4, <2>1, <2>2, <2>3, CloseStep
<1> QED
  BY <1>5, <1>6

\* The directory goes when it is empty.
LEMMA RemoveStep ==
    ASSUME FilesInv, NEW r \in Request, RemoveDirectory(r)
    PROVE  FilesInv'
<1>1. op[r] \in Operation /\ LocalInv(r, op[r])
  BY Locals
<1>2. entries[Temp(r)] = Nothing
  BY <1>1 DEF RemoveDirectory, LocalInv, TempInv
<1>3. {"deleted", "failed"} \subseteq Reply \ {"read"}
  BY DEF Reply
<1>4. Quiet
  BY DEF RemoveDirectory, Quiet, FilesInv, FilesTypeOK
<1>5. Answer(r, "deleted") \/ Answer(r, "failed")
  BY DEF RemoveDirectory
<1> QED
  BY <1>2, <1>3, <1>4, <1>5, AnswerStep

\* A finalizer that closes a number which nobody holds disturbs nobody.
LEMMA CollectStep ==
    ASSUME FilesInv, Collect, ~stale'
    PROVE  FilesInv'
<1>1. PICK b \in borrowed : Closing(b.fd, Nothing)
  BY DEF Collect
<1>2. UNCHANGED <<dir, dirs, entries, content, op>>
  BY DEF Collect
<1>3. stale' \in BOOLEAN
  <2>1. stale' = (stale \/ \E q \in Request \ {Nothing} : b.fd \in Held(q))
    BY <1>1 DEF Closing
  <2> QED
    BY <2>1, Zenon
<1>4. fds' = [fds EXCEPT ![b.fd] = Free] /\ Free \in Description
  BY <1>1 DEF Closing, Free, Description
<1>5. \A q \in Request : b.fd \notin Held(q)
  <2>1. \A q \in Request : q # Nothing
    BY FilesAssumption DEF Nothing
  <2>2. stale' = (stale \/ \E q \in Request \ {Nothing} : b.fd \in Held(q))
    BY <1>1 DEF Closing
  <2> QED
    BY <2>1, <2>2
<1>6. FilesTypeOK'
  BY <1>2, <1>3, <1>4 DEF FilesInv, FilesTypeOK
<1>7. ApartInv' /\ NamedInv' /\ EmptyInv'
  BY <1>2 DEF FilesInv, ApartInv, Held, NamedInv, EmptyInv, IsWhole
<1>8. ASSUME NEW q \in Request
      PROVE  LocalInv(q, op[q])'
  <2>1. PICK l \in Operation : l = op[q] /\ l = op'[q]
    BY <1>2 DEF FilesInv, FilesTypeOK
  <2>2. LocalInv(q, l)
    BY <2>1 DEF FilesInv
  <2>3. l.parent \in 0 .. MaxFD /\ l.file \in 0 .. MaxFD
    BY DEF Operation
  <2>4. ASSUME l.parent # 0 PROVE l.parent \in Descriptor /\ l.parent # b.fd
    <3>1. l.parent \in Held(q)
      BY <2>1, <2>4 DEF Held
    <3> QED
      BY <1>5, <2>3, <2>4, <3>1, FilesAssumption DEF Descriptor
  <2>5. ASSUME l.file # 0 PROVE l.file \in Descriptor /\ l.file # b.fd
    <3>1. l.file \in Held(q)
      BY <2>1, <2>5 DEF Held
    <3> QED
      BY <1>5, <2>3, <2>5, <3>1, FilesAssumption DEF Descriptor
  <2>6. /\ l.parent # 0 => fds'[l.parent] = fds[l.parent]
        /\ l.file # 0 => fds'[l.file] = fds[l.file]
    BY <1>4, <2>4, <2>5 DEF FilesInv, FilesTypeOK
  <2>7. NumbersInv(q, l)'
    BY <2>2, <2>6 DEF LocalInv, NumbersInv
  <2>8. BodyInv(q, l)' /\ ReadInv(l)'
    BY <1>2, <2>2, <2>6 DEF LocalInv, NumbersInv, BodyInv, ReadInv, IsWhole
  <2>9. TempInv(q, l)'
    BY <1>2, <2>2, <2>6 DEF LocalInv, TempInv, Reaches
  <2> QED
    BY <2>1, <2>7, <2>8, <2>9 DEF LocalInv
<1> QED
  BY <1>6, <1>7, <1>8 DEF FilesInv

\* What was closed under another request is never taken back.
LEMMA StaleStays == FilesNext /\ stale => stale'
BY DEF FilesNext, Collect, Closing, Serve, Accept, Mkdir, Open, Read, StatTarget, CreateTempFile,
       CopyBounded, Sync, PublishFile, ReadNames, EachName, Move, Unlink, CloseFile, CloseParent,
       RemoveDirectory

\* Every step keeps it, except one that closes a number under another request.
LEMMA FilesInvStep == FilesInv /\ FilesNext => stale' \/ FilesInv'
<1> SUFFICES ASSUME FilesInv, FilesNext, ~stale' PROVE FilesInv'
  OBVIOUS
<1>1. CASE Collect
  BY <1>1, CollectStep
<1>2. ASSUME NEW r \in Request, Serve(r) PROVE FilesInv'
  BY <1>2, AcceptStep, OpenStep, ReadStep, StatStep, CreateStep, CopyStep, PublishStep, MoveStep,
     ListStep, UnlinkStep, CloseFileStep, CloseParentStep, RemoveStep DEF Serve
<1> QED
  BY <1>1, <1>2 DEF FilesNext

\* It holds before the first request.
LEMMA FilesInvInit == FilesInit => FilesInv
<1> SUFFICES ASSUME FilesInit PROVE FilesInv
  OBVIOUS
<1>1. Idle \in Operation
  <2>1. 0 \in 0 .. MaxFD /\ <<>> \in Seq(Request) /\ Nothing \in Reply
    BY FilesAssumption DEF Nothing, Reply
  <2> QED
    BY <2>1 DEF Operation, Idle
<1>2. FilesTypeOK
  <2>1. Free \in Description /\ <<>> \in Seq(Request)
    BY DEF Free, Description
  <2> QED
    BY <1>1, <2>1 DEF FilesInit, FilesTypeOK
<1>3. ApartInv
  BY DEF FilesInit, ApartInv, Held, Idle
<1>4. NamedInv /\ EmptyInv
  BY NamesAreApart DEF FilesInit, NamedInv, EmptyInv
<1>5. ASSUME NEW r \in Request PROVE LocalInv(r, op[r])
  <2>1. /\ op[r].pc = "idle" /\ op[r].parent = 0 /\ op[r].file = 0 /\ op[r].answer = Nothing
        /\ content[r] = <<>> /\ entries[Temp(r)] = Nothing
    BY NamesAreApart DEF FilesInit, Idle
  <2> QED
    BY <2>1 DEF LocalInv, NumbersInv, BodyInv, ReadInv, TempInv, Nothing
<1> QED
  BY <1>2, <1>3, <1>4, <1>5 DEF FilesInv
-----------------------------------------------------------------------------
(* The services together. *)

\* The invariant is inductive: either service leaves the other's part alone.
THEOREM Inductive == Spec => []IInv
<1>1. Init => IInv
  BY PTYInvInit, FilesInvInit DEF Init, IInv
<1>2. IInv /\ [Next]_vars => IInv'
  <2> SUFFICES ASSUME IInv, [Next]_vars PROVE IInv'
    OBVIOUS
  <2>1. ASSUME UNCHANGED filesVars, stale \/ FilesInv
        PROVE  stale' \/ FilesInv'
    BY <2>1 DEF filesVars, FilesInv, FilesTypeOK, ApartInv, Held, NamedInv, EmptyInv, IsWhole,
                LocalInv, NumbersInv, BodyInv, ReadInv, TempInv, Reaches
  <2>2. CASE PTYNext /\ UNCHANGED filesVars
    BY <2>1, <2>2, PTYInvStep DEF IInv
  <2>3. CASE FilesNext /\ UNCHANGED ptyVars
    BY <2>3, PTYInvStep, FilesInvStep, StaleStays DEF IInv
  <2>4. CASE UNCHANGED vars
    <3>1. UNCHANGED filesVars /\ UNCHANGED ptyVars
      BY <2>4 DEF vars, filesVars, ptyVars
    <3> QED
      BY <2>1, <3>1, PTYInvStep DEF IInv
  <2> QED
    BY <2>2, <2>3, <2>4 DEF Next
<1> QED
  BY <1>1, <1>2, PTL DEF Spec

\* Processes of terminals, zombies included, never outnumber the slots: a slot is free only
\* when its process was reaped, for any number of connections.
THEOREM ProcessesBounded == Spec => []ProcessesAreBounded
<1>1. IInv => ProcessesAreBounded
  <2> SUFFICES ASSUME IInv PROVE ProcessesAreBounded
    OBVIOUS
  <2>1. PICK live : live = {t \in Terminal : Is(t, "process", {"running", "ended"})}
    OBVIOUS
  <2>2. live \in SUBSET slots
    BY <2>1 DEF IInv, PTYInv, SessionInv, Is
  <2>3. IsFiniteSet(slots) /\ Cardinality(slots) <= MaxSessions
    BY DEF IInv, PTYInv, SlotsInv
  <2>4. Cardinality(live) <= Cardinality(slots) /\ Cardinality(live) \in Nat /\ Cardinality(slots) \in Nat
    BY <2>2, <2>3, FS_Subset, FS_CardinalityType
  <2> QED
    BY <2>1, <2>3, <2>4, Limits DEF ProcessesAreBounded
<1> QED
  BY <1>1, Inductive, PTL

\* Uploads are atomic for any number of requests and descriptors: the target is one whole body
\* or absent, downloads give whole bodies, and no upload leaves its temporary file, as long as no
\* number is closed under another request.
THEOREM UploadsAtomic == Spec => []UploadIsAtomic
<1>1. IInv => UploadIsAtomic
  <2> SUFFICES ASSUME FilesInv PROVE UploadIsAtomic
    BY DEF IInv, UploadIsAtomic
  <2>1. entries[Target] # Nothing => content[entries[Target]] = Whole(entries[Target])
    BY DEF FilesInv, NamedInv, IsWhole
  <2>2. \A r \in Request : op[r].answer = "read" => op[r].got \in {Whole(q) : q \in Request}
    BY DEF FilesInv, LocalInv, ReadInv
  <2>3. \A r \in Request : op[r].pc = "done" => entries[Temp(r)] = Nothing
    BY DEF FilesInv, LocalInv, TempInv
  <2> QED
    BY <2>1, <2>2, <2>3 DEF UploadIsAtomic
<1> QED
  BY <1>1, Inductive, PTL

-----------------------------------------------------------------------------
(***************************************************************************)
(* One execution, for any number of output chunks on their way.  The       *)
(* inductive invariant says how far each goroutine may be when another is  *)
(* where it is.                                                            *)
(***************************************************************************)
Failing == {"failState", "failEvent", "failComplete"}
NotStarted == {"none", "start"} \cup Failing
Starting == {"run", "announce", "bind", "arm", "cancelling"}
Unsupervised == NotStarted \cup Starting \cup {"openLog", "supervise"}
Drained == {"stop", "submit", "finalize", "await", "awaitLog", "complete", "done"}
Sealed == {"await", "awaitLog", "complete", "done"}

\* Where the launcher is, and what it has done by then.
LaunchInv ==
    /\ launch = "none" <=> state = "none"
    /\ launch = "none" => ~active
    /\ launch \in NotStarted => process = "none"
    /\ launch \notin NotStarted \cup {"returned"} => process # "none"
    /\ launch \in Unsupervised => supervisor = "off"
    /\ launch \in (NotStarted \cup Starting) \ {"none"} => active
    /\ launch \in NotStarted \cup Starting => timer = "off" /\ writer = "off"
    /\ launch = "failEvent" => state = "Failed" /\ event = "none"
    /\ launch = "failComplete" => state = "Failed" /\ event = "Failed"
    /\ launch \in {"none", "start", "failState", "run", "announce"} => event = "none"
    /\ launch = "logTerminate" => winner # "none"

\* Nothing is there before the process is, and whoever holds a pipe keeps it from being reaped.
ProcessInv ==
    /\ detached => process \in {"alive", "dead"}
    /\ process = "none" <=> arbiter = "none"
    /\ process = "none" =>
          /\ supervisor = "off" /\ timer = "off" /\ writer = "off"
          /\ terminator = "idle" /\ ~signalled /\ pipe = 0
          /\ winner = "none" /\ ~finalized
    /\ process = "none" /\ launch = "returned" => state = "Failed" /\ event = "Failed"

\* The arbiter publishes once it is told to, and what it publishes is the winner.
ArbiterInv ==
    /\ arbiter \in {"apply", "publish", "done"} => finalized /\ winner # "none"
    /\ arbiter = "publish" => state = StateOf(winner)
    /\ arbiter = "done" => event = StateOf(winner) /\ state = event
    /\ event \in TerminalState =>
          arbiter = "done" \/ (process = "none" /\ launch \in {"failComplete", "returned"})
    /\ winner = "process_exited" => process = "reaped"

\* The supervisor reaps, drains, stops the timer, submits, seals, in this order.
SupervisorInv ==
    /\ supervisor \notin {"off", "wait"} => process = "reaped"
    /\ supervisor \in Drained => pipe = 0
    /\ supervisor \in Drained \ {"stop"} => timer = "done"
    /\ supervisor \in Sealed \cup {"finalize"} => winner # "none"
    /\ finalized <=> supervisor \in Sealed
    /\ supervisor \in {"awaitLog", "complete", "done"} => arbiter = "done"
    /\ supervisor \in {"complete", "done"} => writer # "run"
    /\ supervisor = "off" /\ process # "none" => launch # "returned"
    /\ state # "none" /\ ~active => supervisor = "done" \/ (process = "none" /\ launch = "returned")

\* Who may kill has won.
KillInv ==
    /\ handler \in {"submit", "terminate", "await", "returned"} => cancelReason # "none"
    /\ timer = "terminate" => winner = "deadline_exceeded"
    /\ handler = "terminate" => winner = cancelReason
    /\ terminator # "idle" => winner # "none"
    /\ signalled => winner \notin {"none", "process_exited"}

ExecutionInv ==
    /\ TypeOK
    /\ LaunchInv
    /\ ProcessInv
    /\ ArbiterInv
    /\ SupervisorInv
    /\ KillInv
    /\ StatusHasEvent
    /\ ShutdownIsFinal
    /\ shutdown # "off" => ~accepting
-----------------------------------------------------------------------------
\* Every reason has a terminal state (terminalStateAndEvent).
LEMMA StateOfTerminal ==
    ASSUME NEW r \in Reason
    PROVE  StateOf(r) \in TerminalState
  BY Zenon DEF StateOf, Reason, TerminalState, CancelReason

\* The launcher keeps the invariant: each of its phases is entered with what it says.
LEMMA LauncherKeeps ==
    ASSUME ExecutionInv, CreateExecution \/ LaunchStep
    PROVE  ExecutionInv'
<1> USE ChunksAssumption, StateOfTerminal
    DEF ExecutionInv, TypeOK, LaunchInv, ProcessInv, ArbiterInv, SupervisorInv, KillInv,
        StatusHasEvent, ShutdownIsFinal,
        Failing, NotStarted, Starting, Unsupervised, Drained, Sealed,
        TerminalState, Reason, CancelReason,
        entryVars, cancelVars, arbiterVars, processVars
<1>1. CASE CreateExecution
  BY <1>1 DEF CreateExecution
<1>2. CASE StartCommand
  BY <1>2 DEF StartCommand
<1>3. CASE FailState
  BY <1>3 DEF FailState
<1>4. CASE FailEvent
  BY <1>4 DEF FailEvent
<1>5. CASE FailComplete
  <2>1. active' \in BOOLEAN
    BY <1>5, Zenon DEF FailComplete
  <2>2. QED
    BY <1>5, <2>1 DEF FailComplete
<1>6. CASE TransitionRunning
  BY <1>6 DEF TransitionRunning
<1>7. CASE PublishStarted
  BY <1>7 DEF PublishStarted
<1>8. CASE SetCancellationHandler
  BY <1>8 DEF SetCancellationHandler
<1>9. CASE HandlerFailed
  BY <1>9 DEF HandlerFailed, Submit
<1>10. CASE ArmTimeout
  BY <1>10 DEF ArmTimeout
<1>11. CASE OpenLog
  BY <1>11 DEF OpenLog
<1>12. CASE LogSubmit
  BY <1>12 DEF LogSubmit, Submit
<1>13. CASE LogTerminated
  BY <1>13 DEF LogTerminated, Terminated
<1>14. CASE FailWait
  BY <1>14 DEF FailWait
<1>15. CASE GoSupervise
  BY <1>15 DEF GoSupervise
<1>16. QED
  BY <1>1, <1>2, <1>3, <1>4, <1>5, <1>6, <1>7, <1>8, <1>9, <1>10, <1>11, <1>12, <1>13, <1>14, <1>15
  DEF LaunchStep

\* The arbiter keeps the invariant: it publishes what has won.
LEMMA ArbiterKeeps ==
    ASSUME ExecutionInv, PublishWinner
    PROVE  ExecutionInv'
<1> USE ChunksAssumption, StateOfTerminal
    DEF ExecutionInv, TypeOK, LaunchInv, ProcessInv, ArbiterInv, SupervisorInv, KillInv,
        StatusHasEvent, ShutdownIsFinal,
        Failing, NotStarted, Starting, Unsupervised, Drained, Sealed,
        TerminalState, Reason, CancelReason,
        entryVars, cancelVars, arbiterVars, processVars
<1>1. CASE Seal
  BY <1>1 DEF Seal
<1>2. CASE ApplyState
  BY <1>2 DEF ApplyState
<1>3. CASE PublishTerminal
  BY <1>3 DEF PublishTerminal
<1>4. QED
  BY <1>1, <1>2, <1>3 DEF PublishWinner

\* The process and its terminator keep it: a signal has an owner.
LEMMA ProcessKeeps ==
    ASSUME ExecutionInv,
           ProcessWrites \/ ProcessExits \/ DescendantDetaches \/ DescendantEnds \/ TerminateGroup
    PROVE  ExecutionInv'
<1> USE ChunksAssumption, StateOfTerminal
    DEF ExecutionInv, TypeOK, LaunchInv, ProcessInv, ArbiterInv, SupervisorInv, KillInv,
        StatusHasEvent, ShutdownIsFinal,
        Failing, NotStarted, Starting, Unsupervised, Drained, Sealed,
        TerminalState, Reason, CancelReason,
        entryVars, cancelVars, arbiterVars, processVars
<1>1. CASE ProcessWrites
  BY <1>1 DEF ProcessWrites
<1>2. CASE ProcessExits
  BY <1>2 DEF ProcessExits
<1>3. CASE SignalTerm
  <2>1. signalled' \in BOOLEAN
    BY <1>3, Zenon DEF SignalTerm
  <2>2. QED
    BY <1>3, <2>1 DEF SignalTerm, TerminateCalled
<1>4. CASE SignalKill
  BY <1>4 DEF SignalKill
<1>5. CASE AwaitReaped
  BY <1>5 DEF AwaitReaped
<1>6. CASE DescendantDetaches
  <2>1. detached' \in BOOLEAN
    BY <1>6, Zenon DEF DescendantDetaches
  <2>2. QED
    BY <1>6, <2>1 DEF DescendantDetaches
<1>7. CASE DescendantEnds
  <2>1. detached' \in BOOLEAN
    BY <1>7, Zenon DEF DescendantEnds
  <2>2. QED
    BY <1>7, <2>1 DEF DescendantEnds
<1>8. QED
  BY <1>1, <1>2, <1>3, <1>4, <1>5, <1>6, <1>7 DEF TerminateGroup

\* The deadline keeps it: it kills only when it has won.
LEMMA TimeoutKeeps ==
    ASSUME ExecutionInv, DeadlinePasses \/ TimeoutStep
    PROVE  ExecutionInv'
<1> USE ChunksAssumption, StateOfTerminal
    DEF ExecutionInv, TypeOK, LaunchInv, ProcessInv, ArbiterInv, SupervisorInv, KillInv,
        StatusHasEvent, ShutdownIsFinal,
        Failing, NotStarted, Starting, Unsupervised, Drained, Sealed,
        TerminalState, Reason, CancelReason,
        entryVars, cancelVars, arbiterVars, processVars
<1>1. CASE DeadlinePasses
  BY <1>1 DEF DeadlinePasses
<1>2. CASE TimeoutSubmits
  BY <1>2 DEF TimeoutSubmits, Submit, Won
<1>3. CASE TimeoutTerminated
  BY <1>3 DEF TimeoutTerminated, Terminated
<1>4. QED
  BY <1>1, <1>2, <1>3 DEF TimeoutStep

\* The supervisor keeps it: nothing is skipped on the way to the slot.
LEMMA SupervisorKeeps ==
    ASSUME ExecutionInv, AppendOutput \/ SuperviseStep
    PROVE  ExecutionInv'
<1> USE ChunksAssumption, StateOfTerminal
    DEF ExecutionInv, TypeOK, LaunchInv, ProcessInv, ArbiterInv, SupervisorInv, KillInv,
        StatusHasEvent, ShutdownIsFinal,
        Failing, NotStarted, Starting, Unsupervised, Drained, Sealed,
        TerminalState, Reason, CancelReason,
        entryVars, cancelVars, arbiterVars, processVars
<1>1. CASE AppendOutput
  BY <1>1 DEF AppendOutput
<1>2. CASE WaitProcess
  BY <1>2 DEF WaitProcess
<1>3. CASE OutputDone
  BY <1>3 DEF OutputDone
<1>4. CASE StopTimeout
  BY <1>4 DEF StopTimeout
<1>5. CASE SubmitWait
  BY <1>5 DEF SubmitWait, Submit
<1>6. CASE Finalize
  BY <1>6 DEF Finalize
<1>7. CASE AwaitTerminal
  BY <1>7 DEF AwaitTerminal
<1>8. CASE AwaitLog
  BY <1>8 DEF AwaitLog
<1>9. CASE Complete
  BY <1>9 DEF Complete
<1>10. QED
  BY <1>1, <1>2, <1>3, <1>4, <1>5, <1>6, <1>7, <1>8, <1>9 DEF SuperviseStep

\* The log writer keeps it, whether it ends or fails.
LEMMA WriterKeeps ==
    ASSUME ExecutionInv, WriterEnds \/ WriterFails
    PROVE  ExecutionInv'
<1> USE ChunksAssumption, StateOfTerminal
    DEF ExecutionInv, TypeOK, LaunchInv, ProcessInv, ArbiterInv, SupervisorInv, KillInv,
        StatusHasEvent, ShutdownIsFinal,
        Failing, NotStarted, Starting, Unsupervised, Drained, Sealed,
        TerminalState, Reason, CancelReason,
        entryVars, cancelVars, arbiterVars, processVars
<1>1. CASE WriterEnds
  BY <1>1 DEF WriterEnds
<1>2. CASE WriterFails
  BY <1>2 DEF WriterFails, Submit
<1>3. QED
  BY <1>1, <1>2

\* Cancellation keeps it: the handler kills only for the reason that won.
LEMMA CancellationKeeps ==
    ASSUME ExecutionInv, CancelExecution \/ HandlerStep
    PROVE  ExecutionInv'
<1> USE ChunksAssumption, StateOfTerminal
    DEF ExecutionInv, TypeOK, LaunchInv, ProcessInv, ArbiterInv, SupervisorInv, KillInv,
        StatusHasEvent, ShutdownIsFinal,
        Failing, NotStarted, Starting, Unsupervised, Drained, Sealed,
        TerminalState, Reason, CancelReason,
        entryVars, cancelVars, arbiterVars, processVars
<1>1. CASE CancelExecution
  BY <1>1 DEF CancelExecution, RequestCancellation
<1>2. CASE HandlerSubmits
  BY <1>2 DEF HandlerSubmits, Submit, Won
<1>3. CASE HandlerTerminated
  BY <1>3 DEF HandlerTerminated, Terminated
<1>4. CASE CancellationReturns
  BY <1>4 DEF CancellationReturns
<1>5. QED
  BY <1>1, <1>2, <1>3, <1>4 DEF HandlerStep

\* Shutdown and the status query keep it.
LEMMA ShutdownKeeps ==
    ASSUME ExecutionInv, CloseAdmission \/ ShutdownCancels \/ ShutdownJoins \/ ShutdownReturns
              \/ ShutdownTimesOut \/ StatusSnapshot
    PROVE  ExecutionInv'
<1> USE ChunksAssumption, StateOfTerminal
    DEF ExecutionInv, TypeOK, LaunchInv, ProcessInv, ArbiterInv, SupervisorInv, KillInv,
        StatusHasEvent, ShutdownIsFinal,
        Failing, NotStarted, Starting, Unsupervised, Drained, Sealed,
        TerminalState, Reason, CancelReason,
        entryVars, cancelVars, arbiterVars, processVars
<1>1. CASE CloseAdmission
  <2>1. accepting' \in BOOLEAN
    BY <1>1, Zenon DEF CloseAdmission
  <2>2. QED
    BY <1>1, <2>1 DEF CloseAdmission
<1>2. CASE ShutdownCancels
  BY <1>2 DEF ShutdownCancels, RequestCancellation
<1>3. CASE ShutdownJoins
  BY <1>3 DEF ShutdownJoins
<1>4. CASE ShutdownReturns
  BY <1>4 DEF ShutdownReturns
<1>5. CASE ShutdownTimesOut
  BY <1>5 DEF ShutdownTimesOut
<1>6. CASE StatusSnapshot
  BY <1>6 DEF StatusSnapshot
<1>7. QED
  BY <1>1, <1>2, <1>3, <1>4, <1>5, <1>6

\* The invariant is inductive.
LEMMA ExecutionInvStep ==
    ASSUME ExecutionInv, [ExecutionNext]_executionVars
    PROVE  ExecutionInv'
<1>1. CASE UNCHANGED executionVars
  BY <1>1, StateOfTerminal
  DEF executionVars, entryVars, cancelVars, arbiterVars, processVars, ExecutionInv, TypeOK,
      LaunchInv,
      ProcessInv, ArbiterInv, SupervisorInv, KillInv, StatusHasEvent, ShutdownIsFinal
<1>2. CASE ExecutionNext
  BY <1>2, LauncherKeeps, ArbiterKeeps, ProcessKeeps, TimeoutKeeps, SupervisorKeeps,
     WriterKeeps, CancellationKeeps, ShutdownKeeps
  DEF ExecutionNext
<1>3. QED
  BY <1>1, <1>2

\* It holds before the execution exists.
LEMMA ExecutionInvInit == ExecutionInit => ExecutionInv
<1> SUFFICES ASSUME ExecutionInit PROVE ExecutionInv
  OBVIOUS
<1>1. /\ active \in BOOLEAN /\ accepting \in BOOLEAN /\ background \in BOOLEAN
      /\ finalized \in BOOLEAN /\ signalled \in BOOLEAN /\ detached \in BOOLEAN
  BY Zenon DEF ExecutionInit
<1>2. TypeOK
  BY <1>1, ChunksAssumption DEF ExecutionInit, TypeOK, TerminalState, Reason, CancelReason
<1>3. QED
  BY <1>2
  DEF ExecutionInit, ExecutionInv, LaunchInv, ProcessInv, ArbiterInv, SupervisorInv,
      KillInv,
      StatusHasEvent, ShutdownIsFinal,
      Failing, NotStarted, Starting, Unsupervised, Drained, Sealed, TerminalState

\* And so in every state of every behaviour.
LEMMA ExecutionInvHolds == ExecutionSpec => []ExecutionInv
<1>1. ExecutionInv /\ [ExecutionNext]_executionVars => ExecutionInv'
  BY ExecutionInvStep
<1>2. QED
  BY ExecutionInvInit, <1>1, PTL DEF ExecutionSpec
-----------------------------------------------------------------------------
\* Every variable of the execution keeps its type.
THEOREM ExecutionTypeCorrect == ExecutionSpec => []TypeOK
<1>1. ExecutionInv => TypeOK
  BY DEF ExecutionInv
<1>2. QED
  BY ExecutionInvHolds, <1>1, PTL

\* Whatever the goroutines submit and in whatever order, the one that was told it
\* won is the one that is reported, the state and event are its own, and no process
\* that the runner signalled is reported as having exited by itself.
THEOREM WinnerIsReported == ExecutionSpec => []KillerIsReported
<1>1. ExecutionInv => KillerIsReported
  BY DEF ExecutionInv, KillInv, ArbiterInv, KillerIsReported
<1>2. QED
  BY ExecutionInvHolds, <1>1, PTL

\* However much output is on its way, none of it comes after the terminal event,
\* and neither the process, a descendant that holds a pipe, nor the timer outlives it.
THEOREM TerminalEventIsLast == ExecutionSpec => []TerminalIsLast
<1>1. ExecutionInv => TerminalIsLast
  BY
  DEF ExecutionInv, ArbiterInv, ProcessInv, SupervisorInv, TerminalIsLast, Drained, Sealed
<1>2. QED
  BY ExecutionInvHolds, <1>1, PTL

\* A freed slot leaves no process, no holder of its pipes, no open log and no missing event behind.
THEOREM FreedSlotQuiet == ExecutionSpec => []FreedSlotIsQuiet
<1>1. ExecutionInv => FreedSlotIsQuiet
  BY StateOfTerminal
  DEF ExecutionInv, TypeOK, LaunchInv, ArbiterInv, ProcessInv, SupervisorInv,
      FreedSlotIsQuiet, TerminalState
<1>2. QED
  BY ExecutionInvHolds, <1>1, PTL

\* No status shows a terminal state without its event.
THEOREM StatusWithEvent == ExecutionSpec => []StatusHasEvent
<1>1. ExecutionInv => StatusHasEvent
  BY DEF ExecutionInv
<1>2. QED
  BY ExecutionInvHolds, <1>1, PTL

\* After a Shutdown that succeeded nothing runs or starts.
THEOREM ExecutionShutdownFinal == ExecutionSpec => []ShutdownIsFinal
<1>1. ExecutionInv => ShutdownIsFinal
  BY DEF ExecutionInv
<1>2. QED
  BY ExecutionInvHolds, <1>1, PTL
=============================================================================
