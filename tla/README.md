# TLA+ models of MiniSandBox

MiniSandBox runs untrusted workloads in Docker sandboxes. A control plane
(`sandboxd`) keeps one SQLite row per sandbox and reconciles it with Docker; inside
each sandbox a runner executes commands, keeps their event logs, and serves
terminals and files. This directory holds a formal model of the parts of that
system where correctness depends on the order of steps of several actors: what the
parts do, what TLC checks of them on small instances, and what TLAPS proves of them
for every size.

All paths below are relative to `src/`.

## 1. Inventory

| component | state | operations | meets |
|---|---|---|---|
| sandbox store (`internal/store/sqlite`) | one row per sandbox: desired and observed state, reason, runtime id, lease, retry and health counters, revision; idempotency keys; anomalies; schema version | create, and conditional updates guarded by `revision = ?`; candidate, lease and key queries; migrations | everything in the control plane |
| sandbox service (`internal/application`) | none; a request holds a snapshot | Create, Delete, Renew: read, validate, one CAS, bounded rereads | store, wake queue |
| idempotent create (`reliable_create.go`, `idempotency_*.go`) | key records | admission, insert or replay, sweep | service, store |
| reconciler (`internal/reconcile/reconciler.go`, `running_recovery.go`, retry policy) | a snapshot per running reconcile | create, health check, restart, replace, delete, record a failure | store, Docker, runner probe, lease manifest |
| wake queue and worker pool (`queue.go`, `worker.go`) | map of wake states, FIFO, one-slot channel | Wake, Next, Done, Close; worker loop with timeout and panic barrier | all who wake; reconciler |
| keyed lock (`keyed_lock.go`) | map of reference-counted entries | LockContext, unlock, cancel | reconciler |
| candidate scanner (`candidate_scanner.go`) | none | page through due rows and wake them | store, queue |
| TTL coordinator (`ttl_*.go`) | heap of leases, timer | arm, validate a due lease, commit the delete intent, retry, rebuild | store, queue |
| startup recovery (`startup_recovery.go`, `actual_inventory.go`, `recovery_plan.go`, ...) | inventory of rows and resources | repair metadata, import orphans, record and resolve anomalies, wake | store, Docker, before all others |
| bootstrap, readiness, dependency health (`internal/bootstrap`, `readiness.go`, `dependency_health.go`) | readiness bits, availability gate, what is open | start in order, unwind, probe, close under one grace period | everything |
| configuration (`internal/config`) | one immutable value | load, overlay, validate | every constructor |
| Docker runtime and egress (`internal/runtime/docker`, `internal/egress*`) | containers, volumes, directories, network, sidecar, rules | Ensure, ReplaceCompute, Delete, Inspect, compensation; bootstrap and attestation of the sidecar | reconciler, execution admission |
| lease manifest (`internal/runtime/lease_manifest.go`) | `lease.json` in the sandbox directory | atomic write, removal | reconciler, recovery |
| execution API (`internal/api`, `application/execution_service.go`, `internal/runnerclient`) | none; a request or stream under way | validate, admit, relay events, page logs, cancel, map errors | runner |
| runner executions (`internal/runner`) | execution table, event stores, log files, slots | create, launch, arbitrate the terminal event, cancel, time out, shut down, evict | runner HTTP API |
| PTY (`internal/runnerpty`, `pty_handler.go`) | sessions, slots | start, stdin, output, terminal result, shutdown | runner HTTP API, bridge in sandboxd |
| workspace files (`internal/runnerfiles`) | none; descriptors under way | upload, download, list, mkdir, move, delete | runner HTTP API |
| port proxy, sandbox-init, observability, SDKs other than Go | none, or nothing that is read back | I/O | |

What is hard in it. No component of the control plane holds a lock over the store
and Docker together: API requests, the TTL coordinator, the scanner and a reconcile
interleave freely and meet only in the CAS on the revision. Docker calls last
minutes, fail halfway and fail again in their compensation. The server may die
between any two steps, and the queue, the heap and every snapshot are then gone.
Wakes and timers travel through channels with one slot. Leases end while renewals
are under way, and the store compares times as text. A sandbox with outbound
access is two containers, and the one must never run before the rules of the other
are in force. In the runner several goroutines per execution or terminal wait for
each other in a ring. `PROJECT.json` lists each of these as a hazard at the line
where it bites, with the properties that would catch it.

## 2. Modules

```
StoredTime <-- SandboxStore <-- Lifecycle <-- LifecycleProofs, MCLifecycle (2 configurations)
                    .  uses one bit per id, justified by
     WakeSlot <-- INSTANCE -- WakeQueue <-- WakeQueueProofs, MCWakeQueue
                         KeyedLock  <-- WakeQueueProofs, MCKeyedLock
StoredTime     <-- Admission        <-- AdmissionProofs,    MCAdmission
               <-- TTLScheduler     <-- TTLSchedulerProofs, MCTTLScheduler
Config, RecoveryPlan <-- Startup    <-- StartupProofs,      MCStartup
Provision                           <-- ProvisionProofs,    MCProvision
ExecutionRequest <-- Stream         <-- StreamProofs,       MCStream
                ExecutionManager    <-- StreamProofs,       MCExecutionManager
PTY, Files <-- RunnerServices       <-- RunnerProofs,       MCRunnerServices
                RunnerExecution     <-- RunnerProofs,       MCRunnerExecution
```

(`A <-- B`: B extends A.) `PROJECT.json` maps every definition to its lines.

**SandboxStore.** One row and every conditional UPDATE on it. For a statement `X` of
`store.go`, `XWhere` is its WHERE clause and `X` its SET clause. Revisions are
compared for equality only, so the state keeps the set `fresh` of callers whose
snapshot carries the row's revision instead of the number: `Get` adds a caller, and
a commit leaves its caller alone in the set. `next_reconcile_at` and
`last_reconcile_at` are only ever compared with the present, so each is a bit;
leases are compared with each other and are points of a clock in half seconds. Where
the argument checks and the reconciler compare in Go the model compares the times, and
where a WHERE clause or the candidate query compares it uses the order of the stored
texts (`StoredTime`). `StoreSpec` lets
callers issue any statement with any argument at any time: it is the abstract
specification of what the store promises to arbitrary callers.

**Lifecycle.** The whole control plane around one sandbox. Sandboxes share no row,
container, queue entry or lock, so one is enough. Actors: the reconcile of this id
(`pc`, one label per call out or statement; `held`, the lease of its snapshot;
`failure`, what it is about to record), one thread because of `ImplementsSlot` and
`MutualExclusion`; API requests (`request[c]`); the TTL coordinator, the scanner, the
wake; Docker (`runtime` and the lease in `manifest`); `Crash` at any step, then
recovery before workers and API. `row` is only changed through the actions of
SandboxStore, and the run `deletion` checks that: `ImplementsStore`. A failed or
interrupted Docker call may leave any part of its effect, because the compensation
may fail too. `Abort` is the reconcile timeout, a cancelled context, a store error
or a panic. The error classes of `retry_classifier.go` are folded to the reasons the
control flow tells apart.

**WakeQueue, WakeSlot.** A step per critical section of `queue.go` and one per channel
operation outside it, for any number of ids, wakers and workers, with `Close` and
cancellation. `WakeSlot` is what it promises: an id is queued or not, and busy or
not. `Lifecycle` uses that bit; `ImplementsSlot` justifies it.

**KeyedLock.** One key, with the entry's address as state: entries are removed when
idle and made again, and a late release or cancellation may still point at an old
one. The channel holding the token is outside `k.mu`, so taking and putting it back
are steps of their own.

**StoredTime.** The order of RFC3339Nano texts, in half seconds, the coarsest unit in
which it differs from the order of times. Used by SandboxStore, Admission and TTLScheduler.

**Admission.** Creation from the handler to the answer: validation, canonical hash,
the transaction (`conn` is SQLite's one connection) with its lookup of the key, its
count and its inserts, a commit that fails, or succeeds and is reported as failed,
the wake and the answer; the sweeper in batches; the import of orphans; deletion;
crashes and lost answers. `origin` is a history variable.

**TTLScheduler.** The heap, `Run` with its peek, arming, recheck, timer and one-slot
`wake`, `ExpireEntry` with its validation and CAS attempts, the paged rebuild, and
those it races with: renewals, deletions, other writers (`Touch`), the scanner,
goroutines that upsert while a callback runs, restarts. Statements compare texts and
Go code compares times, as in the code.

**Config, RecoveryPlan, Startup.** `Config` is the configuration as operators: defaults,
overlay, `Validate`, and what each later constructor, the staging and the runner
demand of the same values. `RecoveryPlan` is the pure part of recovery: grouping the
inventory, judging a bundle, planning. `Startup` runs them: one process after another
loads, migrates (`txn` is the open transaction, `db.backups` the copies), recovers,
starts worker, maintenance and HTTP, publishes readiness, probes, is signalled, closes
in order under one grace period, fails at any stage, dies at any step. The health monitor
sets the readiness bit and opens the Docker gate in two steps (`monitor` says that it is
between them). Two simplifications that nothing depends on: `markNotReady` clears its bits
at once, and anomalies that others record during a scan do not exist, because recovery runs
before everybody else.

**Provision.** One outbound sandbox, call by call: network, sidecar, its start, the
bootstrap frame, installation of the rules, attestation, main container, volume,
directory, image, probe, compensation, replacement, deletion, and a client that is
admitted by a check and then executes on a new connection. Docker gives a started
sidecar a namespace; rules end with their namespace; an identity may be given again.
A frame may be answered late, to whoever is attached by then. Up to `MaxFaults`
crashes (with another configuration afterwards), deaths, failed calls and timeouts.
Facts of the code that shape it: recovery of an outbound sandbox always replaces the
compute (`running_recovery.go:31`), after a failed egress check at once and after failed
probes at the `HealthThreshold`-th; a failure that is recorded makes the row Failed
(`ScheduleRetry`), so the retry is a creation, and what fails there is deleted with the
volume (`reconciler.go:458`); `EnsureEgress` refuses a stopped sidecar instead of
starting it (`egress.go:43`); a configuration that changes during a creation makes it
fail for good with SPEC_DRIFT.

**RunnerExecution.** One execution of the runner, from `CreateExecution` to the freed
slot. Each goroutine is a variable that says where it is: launcher, arbiter, deadline,
terminator, supervisor, log writer, cancellation handler, `Manager.Shutdown`. `Submit` is
the rendezvous with the arbiter's loop and part of the submitter's step; `winner` is set
once. SIGTERM may be ignored, kill may fail, the log may fail at any time. Signals reach
the process group; a descendant that called `setsid` (`detached`) is outside it and may hold
the pipes open after the group is dead, for as long as it likes.

**ExecutionManager.** The registry with many executions: slot counter, admission, callers
of `Shutdown` with the channel that `Complete` closes and replaces (`heard`), and the
collector with its two reasons to evict and its removals that may fail.

**ExecutionRequest, Stream.** `ExecutionRequest` is the answer to an execution request as a
function of the request and the situation: three validations on the way in, four
mappings of errors on the way back. The situation is what a later retry may find changed: the
store, the row, the admission gate, the runner and its protocol, the directory asked for, and
whether the process can be started. `Stream` is what follows an accepted one: process
("held" when a cancelled one leaves its pipes to a process outside its group), pipe, event store with its limit and its replaced channel, then either server-sent
events over two connections that may break, or log lines, pages cut by events, bytes
and the caller's limit, and the SDK's readers.

**PTY, Files, RunnerServices.** `PTY` has the five goroutines of each session, their
channels, the slots and `Shutdown`. `Files` has concurrent requests on one directory and
name, with the descriptor table of the process, because two places lend a descriptor
number to an `os.File` that will close it; a call that finds no free number fails. `RunnerServices` is both in one runner.

## 3. What the runs check

| run | question | bounds |
|---|---|---|
| `lifecycle` | is a Terminated record really clean and final, `lease.json` never ahead, no lease ended early? | 4 half seconds from an odd one on, 1 client, MaxAttempt 1, health 1, 2 CAS attempts of a delete or a renewal and 1 of an expiry |
| `deletion` | is every step of the system a step of `StoreSpec`; does a delete intent end in Terminated, through crashes and Docker errors that recur for ever? | 2 half seconds |
| `wake_queue` | does the queue refine the slot; is every wake served? | 2 ids, 2 wakers, 2 workers |
| `keyed_lock` | one holder across generations of an entry; every waiter served | 3 callers, 4 entries |
| `admission` | one live sandbox per key, answers that name the right one, the limit kept | 2 clients, 1 key or none, 4 commands, limit 2, 3 ids, 2 instants |
| `ttl` | is the timer ever armed too late; do renewals extend; does every lease end? | 2 sandboxes, 1 renewal, 2 CAS attempts, pages of 1, 1 restart, 6 half seconds |
| `startup` | are upgrades safe, finds noticed, readiness true, stops finite; which configurations fail late? | a value on each side of every compared boundary, 20 inventories, several tables, schema versions 0, 1, 3, 4 and 5, 1 restart |
| `provision` | is a container ever unfenced, a workspace lost, an execution unconfined, a sandbox stuck? | 2 configurations (which differ in name only, so every behaviour begins with the first), 2 subnets and namespaces, 3 sidecars, 2 failed probes to a replacement, 3 faults |
| `stream` | do callers see the run, is output accounted for, are refusals honest, does nobody wait for ever? | 3 chunks of 1 or 2 bytes, limit 3, pages of 2 events or 4 bytes, every request one field away from a good one, in every situation |
| `runner_execution` | one verdict per execution, the terminal event after all output, a quiet slot, deadlines that end | 2 chunks on their way |
| `execution_manager` | slots counted, evictions justified, Shutdown ends | 3 executions, 2 slots, 1 kept, 1 caller, 3 instants |
| `runner_services` | processes bounded, uploads atomic, sessions end | any 2 requests of 2 terminals and 2 file requests, 1 slot, 1 chunk of output room |

Bounds. Three half seconds after an odd one let a lease be granted, renewed and expire, with
a stale validation in between, and hold two times of one second, whose texts are in the
opposite order: a lease that is due in Go and not in SQL, and the reverse. `MaxAttempt` 1 reaches both a counted retry and a
counter at its limit. There the first failed probe acts and an expiry has one CAS attempt;
`provision` has the threshold of 2, which tells the first failed probe from the one that
acts, and `ttl` the second attempt of an expiry. The run with liveness uses one further instant because TLC's graph for `SF` is several
times larger. Two ids and two workers let one worker hold an id that is woken again
while the other waits; three callers let one hold the lock, one wait and one be
cancelled; three executions at two slots fill the registry and leave one over the
retained number. Three ids let a key be created, terminated, swept and created again
beside a stranger. Six half seconds, from an odd one on, give a
lease two whole and one fractional end, a renewal across a second and one within it,
and time after them. Three faults are a crash during the set-up of the sidecar,
a fault in its repair and one in the compensation of that. Pages of two events or four
bytes are cut by each of the three limits in turn. Output of up to six bytes meets a
limit of three inside a chunk and between chunks. In `runner_services` both requests may
be terminals (two compete for one slot), files, or one of each.

Deadlock is checked where the system never stops (`lifecycle`, `deletion`, `keyed_lock`).
The others stop by design: the worker pool after `Close`, a process that has exited, an
execution, stream, session or request that is over, or the clock of the model.

Every property has a mutant in `PROJECT.json`: a plausible error in the code's place (a
dropped guard, a missing reset) under which TLC must find it violated.

### Fairness

* `Lifecycle`: the supervisor restarts a dead server, recovery and the periodic scanner
  run, a backoff elapses, and a step under way ends in one of its outcomes
  (`RECONCILE_TIMEOUT` bounds it): weak fairness, and strong fairness where a crash may
  interrupt the step again and again (the server does not die at that very step each
  time). `DeletionSpec` adds strong fairness of the successful outcome of the steps of
  the deletion, because errors that hit the same step every time do keep it from
  ending, and the code does not claim otherwise. None of clients, of the TTL
  coordinator or of time.
* `WakeQueue`, `KeyedLock`: goroutines that can run do run; Go serves the waiters of a
  channel in FIFO order, hence `SF` of `TakeToken`.
* `TTLScheduler`: only the scanner and time. `LeaseEnds` therefore holds even if the timer
  loop never runs; that the loop is punctual is the invariant `NoEntryIsOverslept`.
* `Startup`: the main goroutine runs and its timers fire; requests, workers and maintenance
  may hang for ever.
* `Provision`: the worker is woken again and every wait has a deadline; a running sidecar
  answers. Faults are finitely many.
* `Stream`: goroutines run, a client that is there reads, the collector evicts in the end.
  Nothing makes a process write or end, a caller leave or a page get through.
* `RunnerExecution`, `ExecutionManager`, `PTY`: goroutines run, a killed process dies, the
  timer of a session fires. Nothing makes a process exit by itself, a client leave or
  a write fail. `ShutdownEnds` assumes that executions end, which the findings show not to
  hold of all.

### Findings

Each is in `PROJECT.json` with the quoted line. The models contain the behaviour, and
properties that it would violate are stated with the exception they need.

* A non-retryable failure keeps a `next_reconcile_at` left by an earlier renewal, and so is
  a candidate of the scanner, against the comment at `store.go:1230`.
* A Running sandbox whose spec drift was recorded is created anew by the next wake, against
  the comment at `running_recovery.go:59`.
* A log writer that fails takes the verdict of its execution and terminates nothing; the
  deadline and every cancellation then lose and leave the process alone
  (`background_log_writer.go:168`). `DeadlineEnds` excepts it.
* A Shutdown that comes while an execution is launched is carried out by the launcher inside
  `SetCancellationHandler`, which waits for a supervisor that is not started yet
  (`manager.go:254`).
* A recorded failure of a recovery makes the row Failed; the retry is a creation, and if it
  fails too the workspace of a sandbox that ran is deleted (`reconciler.go:534`, `:458`).
  `WorkspaceSurvives` is about the time in which the row says running.
* A descendant outside the process group that holds stdout or stderr keeps a timed out or
  cancelled execution from ending (`process_waiter.go:23`). `DeadlineEnds` and
  `AbandonedRunEnds` except it. A job of a terminal's shell may survive likewise
  (`pty_linux.go:118`); the models of terminals follow session leaders only.
* `Validate` lets seven kinds of values through that others refuse later;
  `LateRefusalIsKnown` lists them and says that there is no other among the modelled fields.
* `List` and `readDirentNames` lend a descriptor number to an `os.File`, whose finalizer closes
  the number when it may belong to another request (`stat_linux.go:53`). With three requests
  TLC finds an upload that writes into another's file; `UploadIsAtomic` is about runs in which
  no foreign descriptor was closed (`stale`).
* The last output of a terminal may be dropped when its result is ready first
  (`pty_handler.go:165`), and `Manager.Shutdown` may take the result that the writer should
  send (`runnerpty/manager.go:81`).
* A runner of another protocol version, and a terminated sandbox, are refused as retryable
  (`execution_service.go:258`, `:275`). In the harmful direction, a directory that is not there
  yet (`cwd_linux.go:49`) and any failure to start a process (`process_starter_linux.go:16`) are
  refused as final although the same request may succeed later. `RefusalIsHonest` says that
  these two are the only ones.

Noticed while reading, without a line that says otherwise: `factory.Client` makes a client per
call, so its health cache is never used; `stdinWriteLocks` is never emptied; a runner that dies
during an upload leaves its temporary file; a log page limit smaller than one event makes the
log unreadable (modelled as the answer "corrupt"); the SDK's Run polls until the record is
evicted when the log could not be written (`RunReturns`); between the egress check and the
execution the compute may be replaced, and only the checks of the replacement keep the
execution confined (`ExecutionIsConfined`).

## 4. What is proved

Each theorem holds for every value of the constants that the assumptions allow. Every safety
property of every run, invariant, action property and refinement alike, is stated by a theorem.
Such a property is seldom inductive; the proof modules state the strengthening part by part and
prove it action by action. Three proof modules extend two components, whose states have nothing
in common; their theorems are about the one or the other.

`LifecycleProofs`, the store: for any set of callers and any bounds, `StoreSpec` implies
`StoreTypeOK`, `RetryIsScheduled`, and the action properties `LeaseTextGrows`,
`IntentIsFinal` and `TTLNeverEarly`. Of the lease, arbitrary callers are promised only that
its text grows and that it never moves to an earlier second. The inductive invariant is `StoreInv`: the types,
`RetryIsScheduled` and `ExpiredMeansIntent` (a row that says TTL_EXPIRED has lost its
desired state Running). The last is needed for `TTLNeverEarly`: that property speaks of the
reason in the new row, and without it a step that merely keeps an old TTL_EXPIRED while
setting the intent would have to be excluded by hand. The lemma `StepEffect` says once what
any statement may do to the row; `StoreStep` and the action properties follow from it.

`LifecycleProofs`, the server: for any clients, clock and limits, `Spec` implies `TypeOK`, the
refinement `ImplementsStore`, and with it every property of the store (`LeaseIsHonoured` is
`TTLNeverEarly` of the whole server), further `LeaseOnlyGrows`, `TerminatedIsClean`,
`ManifestNeverAhead` and `NoResurrection`. The refinement comes first: each action is shown to be one statement with
arguments from the store's types, or to leave row and clock alone, so that the rest of the
proof may use `StepEffect` instead of the statements. The refinement needs that what a
reconcile is about to record is a failure (`FailureInv`) and that readings of the clock
carried by requests and by the coordinator are not ahead of it (`ClockInv`). `RenewInv` is why the
lease grows as a time although the statement compares texts: a renewal whose snapshot is still
current was validated against the very lease it replaces. `HeldInv` says what
a stale snapshot is good for: the lease it holds is at most that of the row, because leases only
grow, which bounds the manifest written from it. `CleanInv` says that the statement that
records Terminated is only reached with everything removed, and that nobody else can make
anything in between, since a reconcile is one thread and a Terminated row is never taken up.

The lock, in `WakeQueueProofs`: for any callers and any number of entries, `TypeOK`, `MutualExclusion`,
`PutBackNeverBlocks` and `NoLeakedEntry`. A caller keeps the address of its entry over
steps outside `k.mu`, and two callers with two entries would have two tokens. `PointersInv` and
`MappedInv` say that this does not happen, as whoever is inside a call points at the mapped entry;
`CountersInv` that its two counters are the numbers of those who wait and of those who hold, which is why an entry leaves the map only when nobody
points at it; `TokenInv` that its token is out of the channel exactly while somebody has it.

`AdmissionProofs`: for any clients, keys, ids and instants, `TypeOK`, `OneLiveSandboxPerKey`,
`ReplayMatchesRequest` and the action property `AdmissionHolds`. `ConnInv`: one client at a time is
inside a transaction. `CommitInv`: until it commits, what it read is still so. `RecordInv` and
`LiveInv`: a live sandbox born under a key is the one that the key's record names, and the
sweeper takes no record from under a live one; `NamedInv`: what a committed request or an answer
names was created for its key and hash; `OriginInv`: an id without a row has no origin.

`TTLSchedulerProofs`: for any sandboxes, renewals, pages and attempts, `TypeOK`, `NoEntryIsOverslept`
and the action property `RenewalExtends`. `TimerInv` extends the first to the time between arming
and sleeping: an upsert that comes after the look at the heap leaves a token in the channel.
`SnapshotInv`: a renewal whose snapshot is current compared the times of the lease it replaces,
so that the comparison of texts in the statement does no harm.

`RunnerProofs`, the services: for any terminals, slots, requests and descriptors, `ProcessesAreBounded` and
`UploadIsAtomic`. For the first, `SessionInv` orders the goroutines of a session: a process that
exists holds a slot, done is closed after the process was reaped, the result is sent after
that, and the writer returns with the result. It also shows that a handler returns after the
process was reaped and the supervisor has returned. For the second, `FilesInv` is kept as
long as no number was closed under another request: the numbers of requests are apart (`ApartInv`) and refer to what
their step expects (`NumbersInv`), so a number the kernel gives is nobody's, and a chunk goes
to the upload's own file; the temporary name can still be unlinked, because its directory
cannot go while it is there (`TempInv`, `EmptyInv`); and names that clients use denote whole files
only (`NamedInv`, `BodyInv`). The lemma `LocalUpdate` reduces each step to the locals of the one
request that takes it.

`WakeQueueProofs`: for any sets of ids, wakers and workers, `Spec` implies `TypeOK`,
`OrderIsPending`, `OneWorkerPerID`, `NoLostWakeup` and the refinement `ImplementsSlot`. The
invariant `LineIsPending` (types and `OrderIsPending`) carries the others: a claim takes an id
out of the line, and only because the line lists exactly the pending ids, each once, is
that id not processed by another worker already.

`RunnerProofs`, one execution: for any number of chunks, `Spec` implies `TypeOK`, `KillerIsReported`,
`TerminalIsLast`, `FreedSlotIsQuiet`, `StatusHasEvent` and `ShutdownIsFinal`. None of them is
inductive alone; `ExecutionInv` adds where each goroutine can be when another is where it is: nothing
exists before the process (`ProcessInv`), the launcher's phases (`LaunchInv`), the supervisor's
order of reaping, draining, stopping the timer, submitting and sealing (`SupervisorInv`), the
arbiter publishing only what is sealed (`ArbiterInv`), and that whoever may kill has won
(`KillInv`). The decisive facts: a process that has not been reaped has no exit among its
candidates, so a signal to a live group is never followed by the verdict "exited"; and
`finalized` is closed after the pipes are empty and the timer is stopped, so nothing comes
after the terminal event. There is one lemma per goroutine.

The registry, in `StreamProofs`: for any executions, limits, times and callers, `TypeOK`,
`SlotsAreCounted`, `WaiterIsNotForgotten`, `ShutdownIsFinal`, `LogsAreOwned` and the action
property `EvictionIsJustified`. The invariant is their conjunction with `AdmissionInv` (a caller
of Shutdown has closed admission). Counting is by the library's theorems on finite sets;
`AtLeastTheRest` is the counting argument of the eviction.

`ProvisionProofs`: for any configurations, networks, namespaces, sidecar ids and numbers of
faults, `RunsFenced`, `WorkspaceSurvives` and the action property `ExecutionIsConfined`. The worker,
a client and egressd each rely on something that was read some steps before and that another
may have replaced since. What makes it right is identity: a main container, a worker and a client
refer to a sidecar by its id, a new sidecar gets an id that none of them holds, and the label of a
sidecar never changes. `SidecarInv` says that the rules of its namespace are then its label's or none,
and that it has attested only with rules in place; `MainInv` that a main container names a sidecar that
attests if it runs; `WorkerInv` and `ClientInv` say what each knows, on the condition that the sidecar they
remember is the one that is there. An admitted client needs one thing more: that a main container
which is stopped and started again for the same sidecar gets the present policy again. `JobInv` and `VolumeInv`
say which attempt may remove the volume: one that deletes, or a creation, which a recorded failure
makes of every later attempt, and neither has a row that says Running.

`StreamProofs`: for any sizes of chunks, pages and buffers, any limit, and every request in every situation,
`CallerSeesTheRun`, `OutputIsAccounted` and `RefusalIsHonest`. Six buffers lie between the store and a caller;
each is a `Segment` of the store that starts where its reader is (`ServerInv`, `WireInv`, `CallerInv`). The
store only grows, and not after its terminal event (`StoreInv`), so a segment stays one, and each
action has to show it for the buffer that it changes. `OutputInv` has the sum of the stored bytes as
the smaller of what was handed over and the limit; `AppendCases` is what AppendOutput does below, at, across
and above the limit. `RefusalsAreFinal` follows the error from the runner's status through the client,
the service and the handler.

`StartupProofs`: for any files that decode, any databases and inventories, and any number of restarts,
`ReadyMeansServing`, `LateRefusalIsKnown`, `NothingGoesUnnoticed` and the action property `UpgradeIsSafe`. `HostInv`
says who runs at which stage, which bits of readiness may be set while the process closes, and
that a Docker bit that is set has its gate open or about to be opened by the monitor.
`ConfigInv` carries Validate along the stages; for every constructor a lemma shows that it demands nothing
Validate has not checked, or one of the seven values of the finding. `UpgradeInv`: until the commit the
transaction holds every row, changed in its lease only, and the old version is backed up. `NoticeInv`: as
long as no statement has failed, every sandbox with resources is still to be planned or was given
a row or an anomaly, which the plans for others leave alone.

Assumptions: those stated with ASSUME in the modules, which TLC evaluates in every run.
Clocks and counters are not empty; a nil is not an id; names of parties are apart (no client is
called "free", no renewal "ttl", no request "nothing", no network, namespace or sidecar "none"). Two are more
than that: in Provision, for any two sidecar ids there is a third, as Docker does not give out an id again; in
Startup, this build knows the migration that introduced the lease, the files are ones that
strict decoding accepts, and inventories are finite.

What the proofs found in the models: in Stream, receiving a frame made a broken connection whole again;
in ExecutionRequest and RecoveryPlan two CASE expressions had overlapping arms, of which TLC takes the
first and TLA+ any (they are IF chains now); in RecoveryPlan a UNION without parentheses, which the
tools read in two ways. Each was corrected to what the code does, and the runs were repeated.

Only model-checked: liveness, which needs fairness (`DeleteConverges`, `WakeIsServed`, `WaiterIsServed`,
`DeadlineEnds`, `ShutdownEnds`, `LeaseEnds`, `StopEnds`, `AbandonedRunEnds`, `RunReturns`, `Settles`, `SessionEnds`). Induction over data is
not available as a rule: that a set of naturals has a least element (the next lease of the heap,
the lowest descriptor) is taken from the library's well-foundedness of the order on the naturals, and what
the one recursive sum of Stream computes (`BytesProperties`) is shown by least counterexamples.

## 5. What is not modelled

* Code without a production caller: `FailEgress`, `RecoveryDeleteExecutor`, `RecoveryService`,
  `RecordSpecDrift`, `NewRunnerProbe`.
* Port proxy, routing, middleware, admin and file forwarding: each request is decided and
  copied alone; there is no state that a step of another actor could disturb.
* Observability: nothing reads it back. Test fakes and crash points. The Python and
  TypeScript SDKs.
* sandbox-init, dropping of privileges, the runner's socket and tokens, nftables and netlink:
  one-shot sequences of system calls.
* In modelled components: the operation limiters of the runtime (semaphores around what is one
  step here); environment overrides of the configuration; the options of created containers
  beyond the namespace they join; stat, non-recursive delete and deeper trees of the file
  service; resizing of terminals; what users' own processes do in a workspace; contents of
  messages, logs and payloads; wording of errors.

## 6. Plan

Done: the core (SandboxStore, Lifecycle, WakeQueue, KeyedLock), the runner's executions, the
components around them (Admission, TTLScheduler, Startup, Provision, Stream, RunnerServices),
and the proofs of section 4, which cover every safety property that a run checks. Left:

1. Provision shown to implement the outcomes that Lifecycle assumes of Ensure, ReplaceCompute and
   Delete; RunnerExecution shown to implement the executions of ExecutionManager;
2. integer revisions shown to implement `fresh`.
