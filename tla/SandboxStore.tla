---------------------------- MODULE SandboxStore ----------------------------
(***************************************************************************)
(* One row of the sandboxes table and the conditional UPDATEs that the     *)
(* SQLite store offers on it (internal/store/sqlite/store.go).             *)
(*                                                                         *)
(* Every statement names one sandbox id, runs in one transaction on the    *)
(* only connection, and carries "revision = ?" in its WHERE clause; every  *)
(* statement that hits adds one to the revision and hands the new row back *)
(* to its caller.  Revisions are compared for equality and for nothing     *)
(* else, so the state keeps, instead of the number, the set fresh of the   *)
(* callers whose snapshot carries the row's revision.                      *)
(*                                                                         *)
(* Callers pass times they read earlier from the same clock.  Leases are   *)
(* compared, so they are points of the clock now, in half seconds: Go      *)
(* compares them as times and SQL as RFC3339Nano text (StoredTime).  A     *)
(* retry delay is any duration in (0, cap] and a health interval is only   *)
(* waited for, so both are kept as "not yet elapsed / elapsed".            *)
(***************************************************************************)
EXTENDS Naturals, StoredTime

CONSTANTS
    Caller,        \* goroutines that hold a snapshot of the row
    FirstTime,     \* the instant at which the sandbox is accepted
    MaxTime,       \* last instant of the clock
    MaxAttempt,    \* largest retry_attempt (2^32 - 1 in the schema)
    MaxHealth      \* health_failure_count saturates here (2^32 - 1)

ASSUME StoreAssumption ==
    /\ FirstTime \in Nat /\ MaxTime \in Nat /\ FirstTime < MaxTime
    /\ MaxAttempt \in Nat
    /\ MaxHealth \in Nat \ {0}

VARIABLES
    row,       \* the stored record
    fresh,     \* callers whose snapshot has the row's revision
    nextDue,   \* next_reconcile_at is set and has passed
    checkDue,  \* last_reconcile_at is NULL or before the health cutoff
    now        \* the wall clock

storeVars == <<row, fresh, nextDue, checkDue, now>>

Desired == {"Running", "Terminated"}
Observed == {"Pending", "Creating", "Running", "Stopping", "Terminated", "Failed"}

\* TRANSIENT and PERMANENT stand for the reasons of failures that are tried
\* again and that are not, among which no statement tells apart.
Reason == {"CREATE_ACCEPTED", "CREATING_RUNTIME", "WAITING_RUNNER", "RUNNING",
           "TTL_EXPIRED", "DELETING_RUNTIME", "TERMINATED", "CLEANUP_PENDING",
           "SPEC_DRIFT", "TRANSIENT", "PERMANENT"}

Time == FirstTime .. MaxTime

Row == [desired : Desired, observed : Observed, reason : Reason,
        runtimeID : BOOLEAN,      \* runtime_id is not empty
        retryAttempt : 0 .. MaxAttempt,
        scheduled : BOOLEAN,      \* next_reconcile_at IS NOT NULL
        health : 0 .. MaxHealth,
        expiresAt : Time]

\* The row that a create request inserts, with its lease.
NewRow(expiry) ==
    [desired |-> "Running", observed |-> "Pending", reason |-> "CREATE_ACCEPTED",
     runtimeID |-> FALSE, retryAttempt |-> 0, scheduled |-> FALSE, health |-> 0,
     expiresAt |-> expiry]

StoreInit ==
    /\ now = FirstTime
    /\ \E expiry \in FirstTime + 1 .. MaxTime : row = NewRow(expiry)
    /\ fresh = {}
    /\ nextDue = FALSE
    /\ checkDue = TRUE
-----------------------------------------------------------------------------
(* Reading, and the commit that every hit ends with.                       *)

Get(c) ==
    /\ fresh' = fresh \cup {c}
    /\ UNCHANGED <<row, nextDue, checkDue, now>>

\* WHERE id = ? AND revision = ?
RevisionMatches(c) == c \in fresh

\* revision = revision + 1, and the caller is given the new row.
Commit(c, new) ==
    /\ row' = new
    /\ fresh' = {c}
    /\ now' = now
-----------------------------------------------------------------------------
(* The conditional updates.  XWhere is the statement's WHERE clause and X  *)
(* its SET clause.                                                         *)

NextIsDue == row.scheduled /\ nextDue

UpdateDesiredWhere(c) ==
    /\ RevisionMatches(c)
    /\ \/ row.desired = "Running"
       \/ row.desired = "Terminated" /\ ~NextIsDue

UpdateDesired(c) ==
    /\ UpdateDesiredWhere(c)
    /\ Commit(c, [row EXCEPT !.desired = "Terminated", !.scheduled = TRUE])
    /\ nextDue' = TRUE
    /\ UNCHANGED checkDue

\* Zero rows hit, and the statement still succeeds: the intent is already
\* there and already due.
UpdateDesiredNoOp(c) ==
    /\ ~UpdateDesiredWhere(c)
    /\ row.desired = "Terminated" /\ NextIsDue

UpdateDesiredConflict(c) ==
    /\ ~UpdateDesiredWhere(c)
    /\ ~(row.desired = "Terminated" /\ NextIsDue)

UpdateObservedWhere(c) == RevisionMatches(c)

\* ObservedUpdate without ReconcileAt: next_reconcile_at keeps its value.
UpdateObserved(c, state, reason, id) ==
    /\ UpdateObservedWhere(c)
    /\ Commit(c, [row EXCEPT !.observed = state, !.reason = reason, !.runtimeID = id])
    /\ UNCHANGED <<nextDue, checkDue>>

\* The metadata repair of startup recovery: UpdateObserved with the row's own
\* state and reason, the container's id, and ReconcileAt set to now.
RepairRuntimeID(c) ==
    /\ UpdateObservedWhere(c)
    /\ Commit(c, [row EXCEPT !.runtimeID = TRUE, !.scheduled = TRUE])
    /\ nextDue' = TRUE
    /\ UNCHANGED checkDue

\* at is when the request was validated, expiry the lease it asks for.  Renew
\* compares the two in Go and each with the stored lease in SQL.
RenewWhere(c, at, expiry) ==
    /\ expiry > at
    /\ RevisionMatches(c)
    /\ row.desired = "Running"
    /\ row.observed # "Terminated"
    /\ TextLT(at, row.expiresAt)
    /\ TextLT(row.expiresAt, expiry)

Renew(c, at, expiry) ==
    /\ RenewWhere(c, at, expiry)
    /\ Commit(c, [row EXCEPT !.expiresAt = expiry, !.scheduled = TRUE])
    /\ nextDue' = TRUE
    /\ UNCHANGED checkDue

\* Mutant: what the caller found due when it read the row is trusted.
ExpireIntentWhereTrusting(c, expected, at) ==
    /\ row.desired = "Running"
    /\ row.observed # "Terminated"
    /\ expected <= at

\* expected is the lease the caller found due at the instant at.
ExpireIntentWhere(c, expected, at) ==
    /\ expected <= at
    /\ RevisionMatches(c)
    /\ row.desired = "Running"
    /\ row.observed # "Terminated"
    /\ row.expiresAt = expected
    /\ TextLE(row.expiresAt, at)

ExpireIntent(c, expected, at) ==
    /\ ExpireIntentWhere(c, expected, at)
    /\ Commit(c, [row EXCEPT !.desired = "Terminated", !.observed = "Stopping",
                             !.reason = "TTL_EXPIRED", !.scheduled = TRUE])
    /\ nextDue' = TRUE
    /\ UNCHANGED checkDue

ScheduleRetryWhere(c) ==
    /\ RevisionMatches(c)
    /\ row.observed # "Terminated"
    /\ row.retryAttempt < MaxAttempt

ScheduleRetry(c, reason, id) ==
    /\ ScheduleRetryWhere(c)
    /\ Commit(c, [row EXCEPT !.observed = "Failed", !.reason = reason, !.runtimeID = id,
                             !.retryAttempt = @ + 1, !.scheduled = TRUE])
    /\ nextDue' = FALSE
    /\ checkDue' = FALSE

\* Settled states are the ones that answer the desired state.
ResetRetryWhere(c, state) ==
    /\ RevisionMatches(c)
    /\ row.desired = state

ResetRetry(c, state, reason, id) ==
    /\ ResetRetryWhere(c, state)
    /\ Commit(c, [row EXCEPT !.observed = state, !.reason = reason, !.runtimeID = id,
                             !.retryAttempt = 0, !.scheduled = FALSE])
    /\ nextDue' = FALSE
    /\ checkDue' = FALSE

RecordHealthResultWhere(c) ==
    /\ RevisionMatches(c)
    /\ row.desired = "Running"
    /\ row.observed = "Running"

RecordHealthResult(c, healthy) ==
    /\ RecordHealthResultWhere(c)
    /\ Commit(c, [row EXCEPT !.health = IF healthy THEN 0
                                        ELSE IF @ < MaxHealth THEN @ + 1 ELSE @])
    /\ checkDue' = FALSE
    /\ UNCHANGED nextDue
-----------------------------------------------------------------------------
(* What is due now: sandboxLeaseDue in Go, and the scanner's query in SQL.  *)

LeaseDue(r, t) ==
    /\ r.desired = "Running"
    /\ r.observed # "Terminated"
    /\ r.expiresAt <= t

LeaseDueInQuery ==
    /\ row.desired = "Running"
    /\ row.observed # "Terminated"
    /\ TextLE(row.expiresAt, now)

\* Mutant: only unfinished and failed creations are due.
CandidateWithoutDelete ==
    \/ LeaseDueInQuery
    \/ /\ row.scheduled => nextDue
       /\ row.desired = "Running"
       /\ row.observed \in {"Pending", "Creating", "Failed"}

Candidate ==
    \/ LeaseDueInQuery
    \/ /\ row.scheduled => nextDue
       /\ \/ row.observed \in {"Pending", "Creating", "Stopping"}
          \/ row.desired = "Terminated" /\ row.observed # "Terminated"
          \/ row.desired = "Running" /\ row.observed = "Terminated"
          \/ /\ row.observed = "Failed"
             /\ \/ row.desired = "Terminated"
                \/ row.reason = "CLEANUP_PENDING"
                \/ row.scheduled
          \/ row.desired = "Running" /\ row.observed = "Running" /\ checkDue
-----------------------------------------------------------------------------
(* Time passes.                                                            *)

Tick ==
    /\ now < MaxTime
    /\ now' = now + 1
    /\ UNCHANGED <<row, fresh, nextDue, checkDue>>

BackoffElapses ==
    /\ row.scheduled /\ ~nextDue
    /\ nextDue' = TRUE
    /\ UNCHANGED <<row, fresh, checkDue, now>>

\* Only the query's last disjunct reads checkDue, for Running rows.
CheckIntervalElapses ==
    /\ ~checkDue /\ row.observed = "Running"
    /\ checkDue' = TRUE
    /\ UNCHANGED <<row, fresh, nextDue, now>>
-----------------------------------------------------------------------------
(* The store as a component: callers may issue any of its statements, with *)
(* any argument and any earlier reading of the clock, in any order.        *)

\* TTL_EXPIRED is written by ExpireIntent alone.
CallerReason == Reason \ {"TTL_EXPIRED"}

\* A process that dies takes its snapshots with it.
DropSnapshots ==
    /\ fresh' = {}
    /\ UNCHANGED <<row, nextDue, checkDue, now>>

Write(c) ==
    \/ UpdateDesired(c)
    \/ RepairRuntimeID(c)
    \/ \E state \in Observed, reason \in CallerReason, id \in BOOLEAN :
          \/ UpdateObserved(c, state, reason, id)
          \/ ResetRetry(c, state, reason, id)
    \/ \E reason \in CallerReason, id \in BOOLEAN : ScheduleRetry(c, reason, id)
    \/ \E at \in FirstTime .. now, expiry \in Time : Renew(c, at, expiry)
    \/ \E at \in FirstTime .. now, expected \in Time : ExpireIntent(c, expected, at)
    \/ \E healthy \in BOOLEAN : RecordHealthResult(c, healthy)

StoreNext ==
    \/ \E c \in Caller : Get(c) \/ Write(c)
    \/ DropSnapshots
    \/ Tick
    \/ BackoffElapses
    \/ CheckIntervalElapses

StoreSpec == StoreInit /\ [][StoreNext]_storeVars
-----------------------------------------------------------------------------
(* What the store promises whatever its callers do.                        *)

\* The row, the callers in fresh and the clocks are of their types, and only
\* a next_reconcile_at that is set can have passed.
StoreTypeOK ==
    /\ row \in Row
    /\ fresh \in SUBSET Caller
    /\ nextDue \in BOOLEAN
    /\ checkDue \in BOOLEAN
    /\ now \in Time
    /\ nextDue => row.scheduled

\* A failure that ScheduleRetry counted is never left without a time at which
\* the scanner picks the record up again: no later statement drops
\* next_reconcile_at and keeps the attempt.
RetryIsScheduled == row.retryAttempt > 0 => row.scheduled

\* Renewals race with each other and with expiry; whichever CAS wins, the text
\* of the row's lease never sorts before the text it replaces (Renew is the only
\* writer of expires_at, and its WHERE clause compares the two).  As a time it
\* may move back, but only within its second: the statement would take 1.0 for
\* later than 1.5, and that it is never asked to is up to its callers.
LeaseTextGrows ==
    [][/\ TextLE(row.expiresAt, row'.expiresAt)
       /\ row.expiresAt \div 2 <= row'.expiresAt \div 2]_storeVars

\* A delete intent is final: no statement, issued from however old a
\* snapshot, takes desired_state back to Running.
IntentIsFinal == [][row.desired = "Terminated" => row'.desired = "Terminated"]_storeVars

\* ExpireIntent never ends a lease that still runs: when TTL_EXPIRED is
\* written the row's own expiry has passed, even if the caller found an
\* earlier lease due and a renewal came in between.
TTLNeverEarly ==
    [][(row.desired = "Running" /\ row'.desired = "Terminated" /\ row'.reason = "TTL_EXPIRED")
          => row.expiresAt <= now]_storeVars
=============================================================================
