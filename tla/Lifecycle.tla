------------------------------ MODULE Lifecycle ------------------------------
(***************************************************************************)
(* The life of one sandbox: the API requests, the TTL coordinator, the     *)
(* candidate scanner and the reconciler, acting on its row through the     *)
(* statements of SandboxStore and on its Docker resources, with crashes of *)
(* the server between any two of their steps.                              *)
(*                                                                         *)
(* internal/application: Delete, Renew.  internal/reconcile: Reconcile and *)
(* everything below it, the TTL expiration, the scanner, startup recovery. *)
(* Per id the wake queue and the keyed lock let one Reconcile run at a     *)
(* time, so the reconciler is a program counter; the other actors take no  *)
(* lock and meet it only at the row.                                       *)
(***************************************************************************)
EXTENDS SandboxStore

CONSTANTS
    Reconciler,       \* the caller that runs Reconcile for this sandbox
    Expirer,          \* the caller that runs TTLExpirationCoordinator
    Outbound,         \* Spec.Network.Outbound
    HealthThreshold,  \* runnerHealthFailureThreshold
    DeleteAttempts,   \* CAS attempts of one Delete request
    RenewAttempts,    \* renewCASAttempts
    ExpireAttempts    \* ttlExpireCASAttempts

ASSUME LifecycleAssumption ==
    /\ {Reconciler, Expirer} \subseteq Caller
    /\ Reconciler # Expirer
    /\ Outbound \in BOOLEAN
    /\ HealthThreshold \in 1 .. MaxHealth
    /\ {DeleteAttempts, RenewAttempts, ExpireAttempts} \subseteq Nat \ {0}

\* API request goroutines.
Client == Caller \ {Reconciler, Expirer}

VARIABLES
    pc,        \* where Reconcile is; "idle": none runs, "down": no server,
               \* "recovering": startup recovery, before workers and API
    held,      \* expires_at in the reconciler's snapshot
    failure,   \* the failure a Reconcile is about to record
    queued,    \* the wake queue holds this id (pending or requeue)
    request,   \* request[c]: the API request that client c serves
    expiring,  \* the TTL entry being expired
    runtime,   \* what Docker holds for this sandbox
    manifest   \* the expiry in lease.json, or NoLease

localVars == <<pc, held, failure, queued, request, expiring>>
dockerVars == <<runtime, manifest>>
vars == <<storeVars, localVars, dockerVars>>

NoLease == MaxTime + 1
NoFailure == [reason |-> "none"]
Idle == [op |-> "idle"]

\* partial: some of volume, directory and sidecar, but no main container;
\* drifted: a main container with labels or a spec hash that are not the row's.
RuntimeState == {"absent", "partial", "stopped", "running", "drifted"}
HasContainer == runtime \in {"stopped", "running", "drifted"}
Answers == runtime \in {"running", "drifted"}

\* Where a Reconcile can be: before each store statement and each call out.
CreatePC == {"create", "ensure", "waiting", "probe", "publish", "projectNew", "cleanup"}
RecoverPC == {"project", "inspect", "restart", "check", "drift", "unhealthy",
              "reread", "replace", "recheck", "healthy", "projectBack"}
DeletePC == {"expire", "stop", "delete", "terminate", "settle"}
PC == {"down", "recovering", "idle", "record", "honor"} \cup CreatePC \cup RecoverPC \cup DeletePC

Failure == [reason : {"TRANSIENT", "PERMANENT", "SPEC_DRIFT", "CLEANUP_PENDING"},
            id : BOOLEAN]

\* ClassifyRetryError and DecideRetry: the failures that are tried again.  A
\* failure that they class as shutdown or conflict is not recorded: see Abort.
Retryable(reason) == reason \in {"TRANSIENT", "CLEANUP_PENDING"}

Up == pc \notin {"down", "recovering"}

Init ==
    /\ StoreInit
    /\ pc = "idle" /\ held = NoLease /\ failure = NoFailure
    /\ queued = TRUE
    /\ request = [c \in Client |-> Idle]
    /\ expiring = Idle
    /\ runtime = "absent" /\ manifest = NoLease
-----------------------------------------------------------------------------
(* Reconcile: lock, Get, lease check, and the switch on desired_state.     *)

Goto(label) == pc' = label
Unlock == pc' = "idle" /\ held' = NoLease /\ failure' = NoFailure
Hold(label) == Goto(label) /\ held' = row'.expiresAt /\ UNCHANGED failure
Fail(reason, id) ==
    /\ pc' = "record" /\ failure' = [reason |-> reason, id |-> id] /\ UNCHANGED held

\* Mutant: a record that is already Terminated is deleted again.
BranchDeletesAgain(r, t) ==
    CASE LeaseDue(r, t)                             -> "expire"
      [] ~LeaseDue(r, t) /\ r.desired = "Running"   -> "create"
      [] r.desired = "Terminated"                   -> "stop"

\* reconcileTerminated's and reconcileRunning's first branch, on the row read.
Branch(r, t) ==
    CASE LeaseDue(r, t)                                           -> "expire"
      [] ~LeaseDue(r, t) /\ r.desired = "Running"
            /\ r.observed = "Running"                             -> "project"
      [] ~LeaseDue(r, t) /\ r.desired = "Running"
            /\ r.observed # "Running"                             -> "create"
      [] r.desired = "Terminated" /\ r.observed = "Terminated"    -> "settle"
      [] r.desired = "Terminated" /\ r.observed # "Terminated"    -> "stop"

Start ==
    /\ pc = "idle" /\ queued
    /\ queued' = FALSE
    /\ Get(Reconciler)
    /\ Hold(Branch(row, now))
    /\ UNCHANGED <<request, expiring, dockerVars>>

\* A store statement of the reconciler missed: Reconcile returns the conflict.
Conflict(where) ==
    /\ ~where
    /\ Unlock
    /\ UNCHANGED storeVars

\* expireLeaseIfDue, then on into reconcileTerminated.
ExpireLease ==
    /\ pc = "expire"
    /\ \/ ExpireIntent(Reconciler, held, now) /\ Hold("stop")
       \/ Conflict(ExpireIntentWhere(Reconciler, held, now))
    /\ UNCHANGED <<queued, request, expiring, dockerVars>>
-----------------------------------------------------------------------------
(* reconcileRunning: towards Running from any unfinished state.            *)

MarkCreating ==
    /\ pc = "create"
    /\ \/ UpdateObserved(Reconciler, "Creating", "CREATING_RUNTIME", row.runtimeID)
          /\ Hold("ensure")
       \/ Conflict(UpdateObservedWhere(Reconciler))
    /\ UNCHANGED <<queued, request, expiring, dockerVars>>

\* Runtime.Ensure returns the running container, made or found.
EnsureSucceeds ==
    /\ runtime # "drifted"
    /\ runtime' = "running"
    /\ UNCHANGED manifest

\* It fails before it makes anything, or its compensation takes back what
\* this call made, or the compensation fails as well and leaves some of it.
\* The journal lists neither the egress sidecar nor the start of a container
\* that was there before.
EnsureFails(reason) ==
    /\ \/ /\ reason \in {"TRANSIENT", "PERMANENT", "SPEC_DRIFT"}
          /\ \/ UNCHANGED runtime
             \/ runtime = "stopped" /\ runtime' = "running"
             \/ Outbound /\ runtime = "absent" /\ runtime' = "partial"
       \/ /\ reason = "CLEANUP_PENDING"
          /\ \/ ~HasContainer /\ runtime' \in {"partial", "stopped", "running"}
             \/ runtime = "stopped" /\ runtime' \in {"stopped", "running"}
    /\ UNCHANGED manifest

EnsureRuntime ==
    /\ pc = "ensure"
    /\ \/ EnsureSucceeds /\ Goto("waiting") /\ UNCHANGED <<held, failure>>
       \/ \E reason \in {"TRANSIENT", "PERMANENT", "SPEC_DRIFT", "CLEANUP_PENDING"} :
             /\ EnsureFails(reason)
             /\ pc' = "cleanup"
             \* the operation error inside a failed compensation is kept
             /\ \E cause \in IF reason = "CLEANUP_PENDING"
                               THEN {"TRANSIENT", "PERMANENT"} ELSE {reason} :
                   failure' = [reason |-> cause, id |-> FALSE]
             /\ UNCHANGED held
    /\ UNCHANGED <<storeVars, queued, request, expiring>>

MarkWaiting ==
    /\ pc = "waiting"
    /\ \/ UpdateObserved(Reconciler, "Creating", "WAITING_RUNNER", TRUE) /\ Hold("probe")
       \/ Conflict(UpdateObservedWhere(Reconciler))
    /\ UNCHANGED <<queued, request, expiring, dockerVars>>

\* Runner probe, and for outbound sandboxes the egress gate.
ProbeNew ==
    /\ pc = "probe"
    /\ \/ Goto("publish") /\ Answers /\ UNCHANGED <<held, failure>>
       \/ /\ pc' = "cleanup"
          /\ \E cause \in {"TRANSIENT", "PERMANENT"} :
                failure' = [reason |-> cause, id |-> FALSE]
          /\ UNCHANGED held
    /\ UNCHANGED <<storeVars, queued, request, expiring, dockerVars>>

PublishRunning ==
    /\ pc = "publish"
    /\ \/ ResetRetry(Reconciler, "Running", "RUNNING", TRUE) /\ Hold("projectNew")
       \/ Conflict(ResetRetryWhere(Reconciler, "Running"))
    /\ UNCHANGED <<queued, request, expiring, dockerVars>>

\* Runtime.Delete: container, sidecar, volume, directory.
DeleteSucceeds == runtime' = "absent" /\ manifest' = NoLease

\* Each part is tried, and any of them may fail or only seem to.
DeleteFails ==
    \/ DeleteSucceeds
    \/ UNCHANGED dockerVars
    \/ /\ runtime # "absent" /\ runtime' \in {runtime, "partial"}
       /\ manifest' \in {manifest, NoLease}

\* failRunning: remove everything, then record why.
CleanUpFailedCreate ==
    /\ pc = "cleanup"
    /\ \/ DeleteSucceeds /\ Goto("record") /\ UNCHANGED <<held, failure>>
       \/ DeleteFails /\ Fail("CLEANUP_PENDING", row.runtimeID)
    /\ UNCHANGED <<storeVars, queued, request, expiring>>
-----------------------------------------------------------------------------
(* recordFailure.                                                          *)

\* Mutant: when the CAS misses the failure is written all the same.
RecordFailureBlindly ==
    /\ pc = "record"
    /\ row' = [row EXCEPT !.observed = "Failed", !.reason = failure.reason]
    /\ UNCHANGED <<fresh, nextDue, checkDue, now>>
    /\ Unlock
    /\ UNCHANGED <<queued, request, expiring, dockerVars>>

RecordFailure ==
    /\ pc = "record"
    /\ \/ /\ Retryable(failure.reason)
          /\ \/ ScheduleRetry(Reconciler, failure.reason, failure.id)
             \/ ~ScheduleRetryWhere(Reconciler) /\ UNCHANGED storeVars
       \/ /\ ~Retryable(failure.reason)
          /\ \/ UpdateObserved(Reconciler, "Failed", failure.reason, failure.id)
             \/ ~UpdateObservedWhere(Reconciler) /\ UNCHANGED storeVars
    /\ Unlock
    /\ UNCHANGED <<queued, request, expiring, dockerVars>>
-----------------------------------------------------------------------------
(* recoverRunning: the periodic check of a Running sandbox.                *)

\* projectLease: lease.json takes the expiry of the snapshot in hand.
ProjectLease(label) ==
    \/ /\ runtime # "absent"
       /\ manifest' = held
       /\ IF label = "idle" THEN Unlock ELSE Goto(label) /\ UNCHANGED <<held, failure>>
       /\ UNCHANGED runtime
    \/ \* it may fail after the rename
       /\ IF pc = "projectBack" THEN Unlock ELSE Fail("TRANSIENT", row.runtimeID)
       /\ \/ UNCHANGED manifest
          \/ runtime # "absent" /\ manifest' = held
       /\ UNCHANGED runtime

Project ==
    /\ \/ pc = "project" /\ ProjectLease("inspect")
       \/ pc \in {"projectNew", "projectBack"} /\ ProjectLease("idle")
    /\ UNCHANGED <<storeVars, queued, request, expiring>>

Inspect ==
    /\ pc = "inspect"
    /\ \/ Fail("TRANSIENT", row.runtimeID)
       \* foreign labels are an error, this sandbox's with another hash a drift
       \/ runtime = "drifted" /\ Fail("SPEC_DRIFT", row.runtimeID)
       \/ runtime = "drifted" /\ Goto("drift") /\ UNCHANGED <<held, failure>>
       \/ /\ runtime # "drifted"
          /\ Goto(CASE runtime = "running"              -> "check"
                    [] runtime # "running" /\ Outbound  -> "reread"
                    [] runtime # "running" /\ ~Outbound -> "restart")
          /\ UNCHANGED <<held, failure>>
    /\ UNCHANGED <<storeVars, queued, request, expiring, dockerVars>>

\* ensureRuntime for a container found stopped or missing.
Restart ==
    /\ pc = "restart"
    /\ \/ EnsureSucceeds /\ Goto("check") /\ UNCHANGED <<held, failure>>
       \/ \E reason \in {"TRANSIENT", "PERMANENT", "SPEC_DRIFT", "CLEANUP_PENDING"} :
             EnsureFails(reason) /\ Fail(reason, row.runtimeID)
    /\ UNCHANGED <<storeVars, queued, request, expiring>>

\* Probe, and for outbound sandboxes the egress gate, whose failure replaces
\* the compute members at once.
CheckRunner ==
    /\ pc = "check"
    /\ \/ Answers /\ Goto("healthy")
       \/ Goto("unhealthy")
       \/ Outbound /\ Goto("reread")
    /\ UNCHANGED <<held, failure, storeVars, queued, request, expiring, dockerVars>>

\* honorConcurrentDelete: a missed statement rereads the row and goes on with
\* the deletion it may have lost against.
HonorConcurrentDelete(where) ==
    /\ ~where
    /\ Goto("honor")
    /\ UNCHANGED <<held, failure, storeVars>>

Honor ==
    /\ pc = "honor"
    /\ Get(Reconciler)
    /\ IF row.desired = "Terminated" THEN Hold(Branch(row, now)) ELSE Unlock
    /\ UNCHANGED <<queued, request, expiring, dockerVars>>

RecordRunningSpecDrift ==
    /\ pc = "drift"
    /\ \/ UpdateObserved(Reconciler, "Failed", "SPEC_DRIFT", row.runtimeID) /\ Unlock
       \/ HonorConcurrentDelete(UpdateObservedWhere(Reconciler))
    /\ UNCHANGED <<queued, request, expiring, dockerVars>>

\* handleRunningProbeFailure: only the threshold-th failure in a row replaces.
HandleProbeFailure ==
    /\ pc = "unhealthy"
    /\ \/ /\ RecordHealthResult(Reconciler, FALSE)
          /\ IF row'.health < HealthThreshold THEN Unlock ELSE Hold("reread")
       \/ HonorConcurrentDelete(RecordHealthResultWhere(Reconciler))
    /\ UNCHANGED <<queued, request, expiring, dockerVars>>

\* replaceRunningCompute: reread first, a delete intent wins.
RereadBeforeReplace ==
    /\ pc = "reread"
    /\ Get(Reconciler)
    /\ Hold(IF row.desired = "Terminated" THEN Branch(row, now) ELSE "replace")
    /\ UNCHANGED <<queued, request, expiring, dockerVars>>

\* ReplaceCompute removes the containers, keeps volume and lease, and ensures.
ReplaceFails(reason) ==
    \/ /\ reason \in {"TRANSIENT", "PERMANENT", "SPEC_DRIFT"}
       /\ \/ UNCHANGED runtime
          \/ (runtime # "absent" \/ Outbound) /\ runtime' = "partial"
    \/ reason = "CLEANUP_PENDING" /\ runtime' \in {"partial", "stopped", "running"}

ReplaceCompute ==
    /\ pc = "replace"
    /\ \/ /\ runtime' = "running"
          /\ Goto("recheck") /\ UNCHANGED <<held, failure>>
       \/ \E reason \in {"TRANSIENT", "PERMANENT", "SPEC_DRIFT", "CLEANUP_PENDING"} :
             ReplaceFails(reason) /\ Fail(reason, row.runtimeID)
    /\ UNCHANGED <<manifest, storeVars, queued, request, expiring>>

RecheckRunner ==
    /\ pc = "recheck"
    /\ \/ Answers /\ Goto("healthy") /\ UNCHANGED <<held, failure>>
       \/ Unlock
    /\ UNCHANGED <<storeVars, queued, request, expiring, dockerVars>>

RecordHealthy ==
    /\ pc = "healthy"
    /\ \/ RecordHealthResult(Reconciler, TRUE) /\ Hold("projectBack")
       \/ HonorConcurrentDelete(RecordHealthResultWhere(Reconciler))
    /\ UNCHANGED <<queued, request, expiring, dockerVars>>
-----------------------------------------------------------------------------
(* reconcileTerminated.                                                    *)

MarkStopping ==
    /\ pc = "stop"
    /\ \/ UpdateObserved(Reconciler, "Stopping", "DELETING_RUNTIME", row.runtimeID)
          /\ Hold("delete")
       \/ Conflict(UpdateObservedWhere(Reconciler))
    /\ UNCHANGED <<queued, request, expiring, dockerVars>>

DeleteRuntimeSucceeds ==
    /\ pc = "delete"
    /\ DeleteSucceeds
    /\ Goto("terminate") /\ UNCHANGED <<held, failure>>
    /\ UNCHANGED <<storeVars, queued, request, expiring>>

\* Mutant: every error of Runtime.Delete counts as "already absent".
DeleteRuntimeFailsSilently ==
    /\ pc = "delete"
    /\ DeleteFails
    /\ Goto("terminate") /\ UNCHANGED <<held, failure>>
    /\ UNCHANGED <<storeVars, queued, request, expiring>>

DeleteRuntimeFails ==
    /\ pc = "delete"
    /\ DeleteFails
    /\ Fail("CLEANUP_PENDING", row.runtimeID)
    /\ UNCHANGED <<storeVars, queued, request, expiring>>

MarkTerminated ==
    /\ pc = "terminate"
    /\ \/ ResetRetry(Reconciler, "Terminated", "TERMINATED", FALSE) /\ Unlock
       \/ Conflict(ResetRetryWhere(Reconciler, "Terminated"))
    /\ UNCHANGED <<queued, request, expiring, dockerVars>>

\* resetSettledRetry on a record that is already Terminated.
ResetSettledRetry ==
    /\ pc = "settle"
    /\ \/ /\ row.retryAttempt > 0 \/ row.scheduled
          /\ ResetRetry(Reconciler, "Terminated", "TERMINATED", FALSE)
       \/ /\ (row.retryAttempt = 0 /\ ~row.scheduled) \/ ~RevisionMatches(Reconciler)
          /\ UNCHANGED storeVars
    /\ Unlock
    /\ UNCHANGED <<queued, request, expiring, dockerVars>>

\* A runtime call cut in the middle leaves part of its effect.
CutShort ==
    \/ UNCHANGED dockerVars
    \/ /\ pc \in {"ensure", "restart", "replace"}
       /\ \/ ~HasContainer /\ runtime' \in {"partial", "stopped", "running"}
          \/ runtime = "stopped" /\ runtime' = "running"
       /\ UNCHANGED manifest
    \/ /\ pc = "replace" /\ HasContainer
       /\ runtime' = "partial"
       /\ UNCHANGED manifest
    \/ pc \in {"delete", "cleanup"} /\ DeleteFails

\* The reconcile timeout, a cancelled context, a store error, a panic, a failure
\* that is not recorded, or no create or delete slot in time end Reconcile between
\* two steps; nothing more is written and the lock is freed.
Abort ==
    /\ Up /\ pc # "idle"
    /\ CutShort
    /\ Unlock
    /\ UNCHANGED <<storeVars, queued, request, expiring>>
-----------------------------------------------------------------------------
(* API requests.  They hold no lock: read, validate, one CAS, and a bounded *)
(* number of rereads when the CAS misses.                                  *)

Respond(c) == request' = [request EXCEPT ![c] = Idle]
Wake == queued' = TRUE

\* Delete: nothing to do for a Terminated record.
Delete(c) ==
    /\ Up /\ request[c] = Idle
    /\ row.observed # "Terminated"
    /\ Get(c)
    /\ request' = [request EXCEPT ![c] = [op |-> "delete", attempt |-> 1]]
    /\ UNCHANGED <<pc, held, failure, queued, expiring, dockerVars>>

SubmitDelete(c) ==
    /\ request[c].op = "delete"
    /\ \/ /\ UpdateDesired(c) \/ (UpdateDesiredNoOp(c) /\ UNCHANGED storeVars)
          /\ Respond(c) /\ Wake
       \/ /\ UpdateDesiredConflict(c)
          /\ IF request[c].attempt < DeleteAttempts /\ row.observed # "Terminated"
               THEN Get(c) /\ request' = [request EXCEPT ![c].attempt = @ + 1]
               ELSE Respond(c) /\ UNCHANGED storeVars
          /\ UNCHANGED queued
    /\ UNCHANGED <<pc, held, failure, expiring, dockerVars>>

\* validateRenew: the lease still runs, and the new one is later than it.
RenewIsValid(expiry) ==
    /\ row.desired = "Running" /\ row.observed # "Terminated"
    /\ now < row.expiresAt
    /\ row.expiresAt < expiry

\* Mutant: lease.json takes the lease before the store grants it.
RenewLeaseProjectsFirst(c) ==
    /\ Up /\ request[c] = Idle
    /\ \E expiry \in Time :
          /\ RenewIsValid(expiry)
          /\ request' = [request EXCEPT ![c] =
                            [op |-> "renew", attempt |-> 1, at |-> now, expiry |-> expiry]]
          /\ manifest' = expiry
    /\ Get(c)
    /\ UNCHANGED <<pc, held, failure, queued, expiring, runtime>>

RenewLease(c) ==
    /\ Up /\ request[c] = Idle
    /\ \E expiry \in Time :
          /\ RenewIsValid(expiry)
          /\ request' = [request EXCEPT ![c] =
                            [op |-> "renew", attempt |-> 1, at |-> now, expiry |-> expiry]]
    /\ Get(c)
    /\ UNCHANGED <<pc, held, failure, queued, expiring, dockerVars>>

SubmitRenew(c) ==
    /\ request[c].op = "renew"
    /\ LET r == request[c] IN
         \/ Renew(c, r.at, r.expiry) /\ Respond(c) /\ Wake
         \/ /\ ~RenewWhere(c, r.at, r.expiry)
            /\ IF r.attempt < RenewAttempts /\ RenewIsValid(r.expiry)
                 THEN /\ Get(c)
                      /\ request' = [request EXCEPT ![c].attempt = @ + 1, ![c].at = now]
                 ELSE Respond(c) /\ UNCHANGED storeVars
            /\ UNCHANGED queued
    /\ UNCHANGED <<pc, held, failure, expiring, dockerVars>>
-----------------------------------------------------------------------------
(* The TTL coordinator: validate a due entry, commit the intent, retry the *)
(* pair when the CAS misses.  An entry whose attempts run out is dropped.  *)

ValidateDue(attempt) ==
    IF LeaseDue(row, now)
      THEN /\ Get(Expirer)
           /\ expiring' = [op |-> "expire", attempt |-> attempt, at |-> now,
                           expected |-> row.expiresAt]
      ELSE expiring' = Idle /\ UNCHANGED storeVars

ExpireEntry ==
    /\ Up /\ expiring = Idle /\ LeaseDue(row, now)
    /\ ValidateDue(1)
    /\ UNCHANGED <<pc, held, failure, queued, request, dockerVars>>

SubmitExpire ==
    /\ expiring # Idle
    /\ \/ /\ ExpireIntent(Expirer, expiring.expected, expiring.at)
          /\ expiring' = Idle /\ Wake
       \/ /\ ~ExpireIntentWhere(Expirer, expiring.expected, expiring.at)
          /\ IF expiring.attempt < ExpireAttempts /\ row.expiresAt = expiring.expected
               THEN ValidateDue(expiring.attempt + 1)
               ELSE expiring' = Idle /\ UNCHANGED storeVars
          /\ UNCHANGED queued
    /\ UNCHANGED <<pc, held, failure, request, dockerVars>>
-----------------------------------------------------------------------------
(* The scanner, the world outside, and the server's death.                 *)

ScanOnce ==
    /\ Up /\ Candidate /\ ~queued
    /\ Wake
    /\ UNCHANGED <<storeVars, pc, held, failure, request, expiring, dockerVars>>

TimePasses ==
    /\ Tick \/ BackoffElapses \/ CheckIntervalElapses
    /\ UNCHANGED <<localVars, dockerVars>>

\* The container exits or is removed behind the server's back.
ContainerLost ==
    /\ \/ runtime = "running" /\ runtime' = "stopped"
       \/ HasContainer /\ runtime' = "partial"
    /\ UNCHANGED <<storeVars, localVars, manifest>>

\* It is replaced by one whose labels do not carry the row's spec hash.
ContainerDrifts ==
    /\ HasContainer
    /\ runtime' = "drifted"
    /\ UNCHANGED <<storeVars, localVars, manifest>>

\* The server dies: everything it had in memory is lost.
Crash ==
    /\ pc # "down"
    /\ CutShort
    /\ pc' = "down" /\ held' = NoLease /\ failure' = NoFailure
    /\ request' = [c \in Client |-> Idle]
    /\ expiring' = Idle
    /\ queued' = FALSE
    /\ DropSnapshots

\* PlanRecovery: metadata repair, for a container the row does not name: it
\* names none, or a stale one that was replaced since (no statement of a
\* replacement updates runtime_id) ...
PlansRepair(stale) ==
    /\ runtime \in {"stopped", "running"}
    /\ ~row.runtimeID \/ stale
    /\ ~(row.observed = "Terminated" /\ row.desired = "Running")

\* ... and otherwise a wake, unless the record is settled or an anomaly.
PlansWake ==
    /\ runtime # "drifted"
    /\ ~(row.observed = "Terminated" /\ (row.desired = "Running" \/ runtime = "absent"))
    /\ ~(row.desired = "Running" /\ row.observed = "Running" /\ runtime = "running")

\* Startup recovery runs before the workers and the API: list the records,
\* then repair the row or queue what the plan wakes, and queue what is due.
ListRecords ==
    /\ pc = "down"
    /\ Get(Reconciler)
    /\ Goto("recovering")
    /\ UNCHANGED <<held, failure, queued, request, expiring, dockerVars>>

Recover ==
    /\ pc = "recovering"
    /\ \/ /\ \E stale \in BOOLEAN : PlansRepair(stale)
          /\ RepairRuntimeID(Reconciler)
          /\ queued' = TRUE
       \/ /\ ~PlansRepair(FALSE)
          /\ queued' = (PlansWake \/ Candidate)
          /\ UNCHANGED storeVars
    /\ Goto("idle")
    /\ UNCHANGED <<held, failure, request, expiring, dockerVars>>
-----------------------------------------------------------------------------
ReconcileStep ==
    \/ ExpireLease \/ MarkCreating \/ EnsureRuntime \/ MarkWaiting \/ ProbeNew
    \/ PublishRunning \/ CleanUpFailedCreate \/ RecordFailure
    \/ Project \/ Inspect \/ Restart \/ CheckRunner \/ Honor \/ RecordRunningSpecDrift
    \/ HandleProbeFailure \/ RereadBeforeReplace \/ ReplaceCompute \/ RecheckRunner
    \/ RecordHealthy
    \/ MarkStopping \/ DeleteRuntimeSucceeds \/ DeleteRuntimeFails \/ MarkTerminated
    \/ ResetSettledRetry

RequestStep == \E c \in Client : Delete(c) \/ SubmitDelete(c) \/ RenewLease(c) \/ SubmitRenew(c)

Next ==
    \/ Start \/ ReconcileStep \/ Abort
    \/ RequestStep
    \/ ExpireEntry \/ SubmitExpire
    \/ ScanOnce
    \/ TimePasses \/ ContainerLost \/ ContainerDrifts
    \/ Crash \/ ListRecords \/ Recover

Spec == Init /\ [][Next]_vars

\* The supervisor restarts a dead server, the scanner and the worker loop run,
\* a backoff ends, and a step under way ends some way.
Progress ==
    /\ WF_vars(ListRecords) /\ SF_vars(Recover)
    /\ WF_vars(ScanOnce)
    /\ WF_vars(BackoffElapses /\ UNCHANGED <<localVars, dockerVars>>)
    /\ WF_vars(Abort \/ ReconcileStep)
    /\ SF_vars(Start)
    /\ SF_vars(MarkStopping /\ pc' = "delete")

\* Crashes, timeouts, lost CAS and Docker errors may go on for ever, but do not
\* hit the same step of the same sandbox each time it is tried.
DeletionSpec ==
    /\ Spec /\ Progress
    /\ SF_vars(DeleteRuntimeSucceeds)
    /\ SF_vars(MarkTerminated /\ row'.observed = "Terminated")
-----------------------------------------------------------------------------
(* What the parts promise together.                                        *)

Request ==
    {Idle}
    \cup [op : {"delete"}, attempt : 1 .. DeleteAttempts]
    \cup [op : {"renew"}, attempt : 1 .. RenewAttempts, at : Time, expiry : Time]

Expiry ==
    {Idle} \cup [op : {"expire"}, attempt : 1 .. ExpireAttempts, at : Time, expected : Time]

\* Every variable is of its type, and a reconcile that is about to record a
\* failure has one.
TypeOK ==
    /\ StoreTypeOK
    /\ pc \in PC
    /\ held \in Time \cup {NoLease}
    /\ failure \in Failure \cup {NoFailure}
    /\ queued \in BOOLEAN
    /\ request \in [Client -> Request]
    /\ expiring \in Expiry
    /\ runtime \in RuntimeState
    /\ manifest \in Time \cup {NoLease}
    /\ pc = "record" => failure # NoFailure

\* Whatever the actors of the server do, they do to the row through the store's
\* statements with arguments the store allows, so what SandboxStore promises of
\* arbitrary callers holds of this system.
ImplementsStore == StoreSpec

\* A record that says Terminated has no container, volume, directory or lease
\* file left, whatever creation, replacement, crash or repair ran before it.
TerminatedIsClean ==
    row.observed = "Terminated" => runtime = "absent" /\ manifest = NoLease

\* lease.json never promises more than the store granted, although it is
\* written from a snapshot that a renewal may have overtaken.
ManifestNeverAhead == manifest # NoLease => manifest <= row.expiresAt

\* The lease never moves back: the one request that could take it back within a
\* second, where the statement compares texts, is refused by validateRenew on the
\* row whose revision the statement then asks for.
LeaseOnlyGrows == [][row'.expiresAt >= row.expiresAt]_vars

\* Terminated is final, and nothing is made for it again.
NoResurrection ==
    [][row.observed = "Terminated" => row'.observed = "Terminated" /\ runtime' = "absent"]_vars

\* A delete request, or an expired lease, ends in Terminated even if wakes are
\* lost in crashes: the scanner finds the record again in each state that the
\* deletion can be left in.
DeleteConverges == row.desired = "Terminated" ~> row.observed = "Terminated"
=============================================================================
