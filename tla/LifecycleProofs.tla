--------------------------- MODULE LifecycleProofs ---------------------------
(***************************************************************************)
(* Proofs about the row of a sandbox and about its life, for any number of *)
(* API clients, any clock, any limits and either kind of network.          *)
(*                                                                         *)
(* First what the store promises to arbitrary callers (StoreSpec).  Then   *)
(* the refinement: every step of the server is a statement of the store    *)
(* with arguments it allows, so the store's own invariant (StoreInv) and   *)
(* what its statements may do (StepEffect) hold here.  The rest of the     *)
(* invariant says what the reconciler's stale snapshot is still good for.  *)
(***************************************************************************)
EXTENDS Lifecycle, TLAPS

(* The store. *)

\* A row in the type with new values for some of its columns is in the type.
LEMMA RowUpdate ==
    ASSUME NEW r \in Row
    PROVE  /\ [r EXCEPT !.desired = "Terminated", !.scheduled = TRUE] \in Row
           /\ [r EXCEPT !.runtimeID = TRUE, !.scheduled = TRUE] \in Row
           /\ \A state \in Observed, reason \in Reason, id \in BOOLEAN :
                 /\ [r EXCEPT !.observed = state, !.reason = reason, !.runtimeID = id] \in Row
                 /\ [r EXCEPT !.observed = state, !.reason = reason, !.runtimeID = id,
                              !.retryAttempt = 0, !.scheduled = FALSE] \in Row
                 /\ r.retryAttempt < MaxAttempt =>
                       [r EXCEPT !.observed = "Failed", !.reason = reason, !.runtimeID = id,
                                 !.retryAttempt = @ + 1, !.scheduled = TRUE] \in Row
           /\ \A t \in Time : [r EXCEPT !.expiresAt = t, !.scheduled = TRUE] \in Row
           /\ [r EXCEPT !.desired = "Terminated", !.observed = "Stopping",
                        !.reason = "TTL_EXPIRED", !.scheduled = TRUE] \in Row
           /\ \A h \in 0 .. MaxHealth : [r EXCEPT !.health = h] \in Row
<1> USE DEF Row
<1>1. [r EXCEPT !.desired = "Terminated", !.scheduled = TRUE] \in Row
  BY DEF Desired
<1>2. [r EXCEPT !.runtimeID = TRUE, !.scheduled = TRUE] \in Row
  OBVIOUS
<1>3. ASSUME NEW state \in Observed, NEW reason \in Reason, NEW id \in BOOLEAN
      PROVE  [r EXCEPT !.observed = state, !.reason = reason, !.runtimeID = id] \in Row
  OBVIOUS
<1>4. ASSUME NEW state \in Observed, NEW reason \in Reason, NEW id \in BOOLEAN
      PROVE  [r EXCEPT !.observed = state, !.reason = reason, !.runtimeID = id,
                       !.retryAttempt = 0, !.scheduled = FALSE] \in Row
  <2>1. 0 \in 0 .. MaxAttempt
    BY StoreAssumption
  <2> QED
    BY <2>1
<1>5. ASSUME NEW reason \in Reason, NEW id \in BOOLEAN, r.retryAttempt < MaxAttempt
      PROVE  [r EXCEPT !.observed = "Failed", !.reason = reason, !.runtimeID = id,
                       !.retryAttempt = @ + 1, !.scheduled = TRUE] \in Row
  <2>1. r.retryAttempt \in 0 .. MaxAttempt
    OBVIOUS
  <2>2. r.retryAttempt + 1 \in 0 .. MaxAttempt
    BY <1>5, <2>1, StoreAssumption
  <2> QED
    BY <2>2 DEF Observed
<1>6. ASSUME NEW t \in Time
      PROVE  [r EXCEPT !.expiresAt = t, !.scheduled = TRUE] \in Row
  OBVIOUS
<1>7. [r EXCEPT !.desired = "Terminated", !.observed = "Stopping",
                !.reason = "TTL_EXPIRED", !.scheduled = TRUE] \in Row
  BY DEF Desired, Observed, Reason
<1>8. ASSUME NEW h \in 0 .. MaxHealth
      PROVE  [r EXCEPT !.health = h] \in Row
  OBVIOUS
<1> HIDE DEF Row
<1> QED
  BY <1>1, <1>2, <1>3, <1>4, <1>5, <1>6, <1>7, <1>8

\* The health counter saturates at its width.
LEMMA HealthUpdate ==
    ASSUME NEW r \in Row, NEW healthy \in BOOLEAN
    PROVE  [r EXCEPT !.health = IF healthy THEN 0
                                ELSE IF @ < MaxHealth THEN @ + 1 ELSE @] \in Row
<1> DEFINE h == IF healthy THEN 0 ELSE IF r.health < MaxHealth THEN r.health + 1 ELSE r.health
<1>1. r.health \in 0 .. MaxHealth
  BY DEF Row
<1>2. h \in 0 .. MaxHealth
  BY <1>1, StoreAssumption
<1>3. [r EXCEPT !.health = h] \in Row
  BY <1>2, RowUpdate
<1> QED
  BY <1>3

\* A new row is within the types.
LEMMA StoreTypeInit == StoreInit => StoreTypeOK
<1> SUFFICES ASSUME StoreInit
             PROVE  StoreTypeOK
  OBVIOUS
<1>1. PICK expiry \in FirstTime + 1 .. MaxTime : row = NewRow(expiry)
  BY DEF StoreInit
<1>2. expiry \in Time /\ FirstTime \in Time /\ 0 \in 0 .. MaxAttempt /\ 0 \in 0 .. MaxHealth
  BY StoreAssumption DEF Time
<1>3. row \in Row
  BY <1>1, <1>2 DEF NewRow, Row, Desired, Observed, Reason
<1> QED
  BY <1>2, <1>3 DEF StoreInit, StoreTypeOK

\* Every statement keeps the row within its columns' types and bounds, and every
\* caller's snapshot within the callers.
LEMMA StoreTypeStep == StoreTypeOK /\ [StoreNext]_storeVars => StoreTypeOK'
<1> SUFFICES ASSUME StoreTypeOK, [StoreNext]_storeVars
             PROVE  StoreTypeOK'
  OBVIOUS
<1> USE DEF StoreTypeOK
<1>1. ASSUME NEW c \in Caller, Get(c)
      PROVE  StoreTypeOK'
  BY <1>1 DEF Get
<1>2. ASSUME NEW c \in Caller, UpdateDesired(c)
      PROVE  StoreTypeOK'
  <2>1. row' \in Row /\ row'.scheduled
    BY <1>2, RowUpdate DEF UpdateDesired, Commit, Row
  <2> QED
    BY <1>2, <2>1 DEF UpdateDesired, Commit
<1>3. ASSUME NEW c \in Caller, NEW state \in Observed, NEW reason \in CallerReason,
             NEW id \in BOOLEAN, UpdateObserved(c, state, reason, id)
      PROVE  StoreTypeOK'
  <2>1. row' \in Row /\ row'.scheduled = row.scheduled
    BY <1>3, RowUpdate DEF UpdateObserved, Commit, Row, CallerReason
  <2> QED
    BY <1>3, <2>1 DEF UpdateObserved, Commit
<1>4. ASSUME NEW c \in Caller, NEW state \in Observed, NEW reason \in CallerReason,
             NEW id \in BOOLEAN, ResetRetry(c, state, reason, id)
      PROVE  StoreTypeOK'
  <2>1. row' \in Row
    BY <1>4, RowUpdate DEF ResetRetry, Commit, CallerReason
  <2> QED
    BY <1>4, <2>1 DEF ResetRetry, Commit
<1>5. ASSUME NEW c \in Caller, NEW reason \in CallerReason, NEW id \in BOOLEAN,
             ScheduleRetry(c, reason, id)
      PROVE  StoreTypeOK'
  <2>1. row' \in Row
    BY <1>5, RowUpdate DEF ScheduleRetry, ScheduleRetryWhere, Commit, CallerReason, Observed
  <2> QED
    BY <1>5, <2>1 DEF ScheduleRetry, Commit
<1>6. ASSUME NEW c \in Caller, NEW at \in FirstTime .. now, NEW expiry \in Time,
             Renew(c, at, expiry)
      PROVE  StoreTypeOK'
  <2>1. row' \in Row /\ row'.scheduled
    BY <1>6, RowUpdate DEF Renew, Commit, Row
  <2> QED
    BY <1>6, <2>1 DEF Renew, Commit
<1>7. ASSUME NEW c \in Caller, NEW at \in FirstTime .. now, NEW expected \in Time,
             ExpireIntent(c, expected, at)
      PROVE  StoreTypeOK'
  <2>1. row' \in Row /\ row'.scheduled
    BY <1>7, RowUpdate DEF ExpireIntent, Commit, Row
  <2> QED
    BY <1>7, <2>1 DEF ExpireIntent, Commit
<1>8. ASSUME NEW c \in Caller, NEW healthy \in BOOLEAN, RecordHealthResult(c, healthy)
      PROVE  StoreTypeOK'
  <2>1. row' \in Row
    BY <1>8, HealthUpdate DEF RecordHealthResult, Commit
  <2>2. row'.scheduled = row.scheduled
    BY <1>8 DEF RecordHealthResult, Commit, Row
  <2> QED
    BY <1>8, <2>1, <2>2 DEF RecordHealthResult, Commit
<1>9. ASSUME NEW c \in Caller, RepairRuntimeID(c)
       PROVE  StoreTypeOK'
  <2>1. row' \in Row /\ row'.scheduled
    BY <1>9, RowUpdate DEF RepairRuntimeID, Commit, Row
  <2> QED
    BY <1>9, <2>1 DEF RepairRuntimeID, Commit
<1>10. CASE DropSnapshots
  BY <1>10 DEF DropSnapshots
<1>11. CASE Tick
  BY <1>11, StoreAssumption DEF Tick, Time
<1>12. CASE BackoffElapses
  BY <1>12 DEF BackoffElapses
<1>13. CASE CheckIntervalElapses
  BY <1>13 DEF CheckIntervalElapses
<1>14. CASE UNCHANGED storeVars
  BY <1>14 DEF storeVars
<1> QED
  BY <1>1, <1>2, <1>3, <1>4, <1>5, <1>6, <1>7, <1>8, <1>9, <1>10, <1>11, <1>12,
     <1>13, <1>14 DEF StoreNext, Write

\* The type invariant of the store holds in every reachable state: whatever the
\* callers do, the row stays within its columns' types and bounds.
THEOREM StoreTypeCorrect == StoreSpec => []StoreTypeOK
  BY StoreTypeInit, StoreTypeStep, PTL DEF StoreSpec
-----------------------------------------------------------------------------
\* The reason TTL_EXPIRED is written together with the intent it explains.
ExpiredMeansIntent == row.reason = "TTL_EXPIRED" => row.desired = "Terminated"

\* The inductive invariant.  ExpiredMeansIntent is what TTLNeverEarly lacks: it
\* rules out that a delete request turns an old TTL_EXPIRED into an expiry.
StoreInv == StoreTypeOK /\ RetryIsScheduled /\ ExpiredMeansIntent

\* The order of the texts is reflexive, and agrees with time across seconds.
LEMMA TextOrder ==
    /\ \A a \in Nat : TextLE(a, a)
    /\ \A a, b \in Nat : TextLT(a, b) => TextLE(a, b) /\ a \div 2 <= b \div 2
  BY DEF TextLE, TextLT

\* One statement or tick, from a state of the invariant.
StoreStep ==
    /\ TextLE(row.expiresAt, row'.expiresAt)
    /\ row.expiresAt \div 2 <= row'.expiresAt \div 2
    /\ row.desired = "Terminated" => row'.desired = "Terminated"
    /\ (row.desired = "Running" /\ row'.desired = "Terminated" /\ row'.reason = "TTL_EXPIRED")
          => row.expiresAt <= now
    /\ RetryIsScheduled'
    /\ ExpiredMeansIntent'

\* What each statement does to the lease, the intent and the retry columns.
LEMMA StepEffect ==
    ASSUME StoreInv, [StoreNext]_storeVars
    PROVE  StoreStep
<1> USE DEF StoreInv, StoreStep, RetryIsScheduled, ExpiredMeansIntent
<1>1. /\ row \in Row /\ row.expiresAt \in Nat /\ row.retryAttempt \in Nat /\ now \in Nat
      /\ TextLE(row.expiresAt, row.expiresAt) /\ row.expiresAt \div 2 \in Nat
  BY StoreAssumption, TextOrder DEF StoreTypeOK, Row, Time
<1>2. ASSUME UNCHANGED row
      PROVE  StoreStep
  BY <1>1, <1>2
<1>3. ASSUME NEW c \in Caller, UpdateDesired(c)
      PROVE  StoreStep
  BY <1>1, <1>3 DEF UpdateDesired, Commit, Row
<1>4. ASSUME NEW c \in Caller, NEW state \in Observed, NEW reason \in CallerReason,
             NEW id \in BOOLEAN, UpdateObserved(c, state, reason, id)
      PROVE  StoreStep
  BY <1>1, <1>4 DEF UpdateObserved, Commit, Row, CallerReason
<1>5. ASSUME NEW c \in Caller, NEW state \in Observed, NEW reason \in CallerReason,
             NEW id \in BOOLEAN, ResetRetry(c, state, reason, id)
      PROVE  StoreStep
  BY <1>1, <1>5 DEF ResetRetry, Commit, Row, CallerReason
<1>6. ASSUME NEW c \in Caller, NEW reason \in CallerReason, NEW id \in BOOLEAN,
             ScheduleRetry(c, reason, id)
      PROVE  StoreStep
  BY <1>1, <1>6 DEF ScheduleRetry, Commit, Row, CallerReason
<1>7. ASSUME NEW c \in Caller, NEW at \in FirstTime .. now, NEW expiry \in Time,
             Renew(c, at, expiry)
      PROVE  StoreStep
  <2>1. expiry \in Nat /\ TextLT(row.expiresAt, expiry)
    BY <1>7, StoreAssumption DEF Renew, RenewWhere, Time
  <2>2. /\ row'.expiresAt = expiry /\ row'.scheduled
        /\ row'.desired = row.desired /\ row'.reason = row.reason
    BY <1>1, <1>7 DEF Renew, Commit, Row
  <2> QED
    BY <1>1, <2>1, <2>2, TextOrder
<1>8. ASSUME NEW c \in Caller, NEW at \in FirstTime .. now, NEW expected \in Time,
             ExpireIntent(c, expected, at)
      PROVE  StoreStep
  <2>1. row.expiresAt <= now
    BY <1>1, <1>8, StoreAssumption DEF ExpireIntent, ExpireIntentWhere
  <2>2. row'.expiresAt = row.expiresAt /\ row'.scheduled /\ row'.desired = "Terminated"
    BY <1>1, <1>8 DEF ExpireIntent, Commit, Row
  <2> QED
    BY <1>1, <2>1, <2>2
<1>9. ASSUME NEW c \in Caller, NEW healthy \in BOOLEAN, RecordHealthResult(c, healthy)
      PROVE  StoreStep
  BY <1>1, <1>9 DEF RecordHealthResult, Commit, Row
<1>10. ASSUME NEW c \in Caller, RepairRuntimeID(c)
       PROVE  StoreStep
  BY <1>1, <1>10 DEF RepairRuntimeID, Commit, Row
<1>11. \/ UNCHANGED row
       \/ \E c \in Caller : Write(c)
  BY DEF StoreNext, Get, DropSnapshots, Tick, BackoffElapses, CheckIntervalElapses, storeVars
<1> QED
  BY <1>2, <1>3, <1>4, <1>5, <1>6, <1>7, <1>8, <1>9, <1>10, <1>11 DEF Write

\* The invariant of the store, over every sequence of its writes.
LEMMA StoreInvariant == StoreSpec => []StoreInv
<1>1. StoreInit => RetryIsScheduled /\ ExpiredMeansIntent
  BY DEF StoreInit, NewRow, RetryIsScheduled, ExpiredMeansIntent
<1>2. StoreInv /\ [StoreNext]_storeVars => RetryIsScheduled' /\ ExpiredMeansIntent'
  BY StepEffect DEF StoreStep
<1> QED
  BY <1>1, <1>2, StoreTypeCorrect, PTL DEF StoreSpec, StoreInv

\* No sequence of statements, by however many callers, leaves a counted failure
\* without the time of its retry.
THEOREM RetryAlwaysScheduled == StoreSpec => []RetryIsScheduled
  BY StoreInvariant, PTL DEF StoreInv

\* Whatever callers ask for, the text of the lease never sorts before the one it
\* replaces, and the lease never moves back to an earlier second.
THEOREM StoredLeaseGrows == StoreSpec => LeaseTextGrows
<1>1. StoreInv /\ [StoreNext]_storeVars
        => [/\ TextLE(row.expiresAt, row'.expiresAt)
            /\ row.expiresAt \div 2 <= row'.expiresAt \div 2]_storeVars
  BY StepEffect DEF StoreStep
<1> QED
  BY <1>1, StoreInvariant, PTL DEF StoreSpec, LeaseTextGrows

\* No statement takes a delete intent back.
THEOREM IntentFinal == StoreSpec => IntentIsFinal
<1>1. StoreInv /\ [StoreNext]_storeVars
        => [row.desired = "Terminated" => row'.desired = "Terminated"]_storeVars
  BY StepEffect DEF StoreStep
<1> QED
  BY <1>1, StoreInvariant, PTL DEF StoreSpec, IntentIsFinal

\* A sandbox is never expired before the end of the lease its row holds.
THEOREM NeverExpiredEarly == StoreSpec => TTLNeverEarly
<1>1. StoreInv /\ [StoreNext]_storeVars
        => [(row.desired = "Running" /\ row'.desired = "Terminated"
               /\ row'.reason = "TTL_EXPIRED") => row.expiresAt <= now]_storeVars
  BY StepEffect DEF StoreStep
<1> QED
  BY <1>1, StoreInvariant, PTL DEF StoreSpec, TTLNeverEarly
-----------------------------------------------------------------------------
(* The server: the parts of its invariant. *)

\* The part of TypeOK about the server's memory and Docker.
LocalTypeOK ==
    /\ pc \in PC
    /\ held \in Time \cup {NoLease}
    /\ failure \in Failure \cup {NoFailure}
    /\ queued \in BOOLEAN
    /\ request \in [Client -> Request]
    /\ expiring \in Expiry
    /\ runtime \in RuntimeState
    /\ manifest \in Time \cup {NoLease}

\* A Reconcile that is on its way to record a failure has one.
FailureInv == pc \in {"cleanup", "record"} => failure # NoFailure

\* Requests and the TTL coordinator carry readings of the clock from before.
ClockInv ==
    /\ \A c \in Client : request[c].op = "renew" => request[c].at <= now
    /\ expiring # Idle => expiring.at <= now

\* A renewal whose snapshot is still the row asks for a later lease than the row's.
RenewInv ==
    \A c \in Client :
        request[c].op = "renew" /\ c \in fresh => row.expiresAt < request[c].expiry

\* The lease in the reconciler's snapshot is one the row had.
HeldInv == held # NoLease => held <= row.expiresAt

\* Terminated answers a delete intent, and while the record says so no Reconcile
\* that could make something is under way; before it is written everything is gone.
CleanInv ==
    /\ row.observed = "Terminated" =>
          row.desired = "Terminated" /\ pc \in {"down", "recovering", "idle", "settle"}
    /\ pc = "settle" => row.observed = "Terminated"
    /\ pc = "terminate" => runtime = "absent" /\ manifest = NoLease

IInv ==
    /\ StoreInv
    /\ LocalTypeOK /\ FailureInv /\ ClockInv
    /\ RenewInv /\ HeldInv /\ ManifestNeverAhead
    /\ CleanInv /\ TerminatedIsClean
-----------------------------------------------------------------------------
(* Every step is a step of the store.                                      *)

\* The statements of the store, each with the arguments it allows.
LEMMA Statements ==
    ASSUME NEW c \in Caller
    PROVE  /\ Get(c) => StoreNext
           /\ UpdateDesired(c) => StoreNext
           /\ RepairRuntimeID(c) => StoreNext
           /\ \A state \in Observed, reason \in CallerReason, id \in BOOLEAN :
                 /\ UpdateObserved(c, state, reason, id) => StoreNext
                 /\ ResetRetry(c, state, reason, id) => StoreNext
                 /\ ScheduleRetry(c, reason, id) => StoreNext
           /\ \A at \in FirstTime .. now, expiry \in Time :
                 /\ Renew(c, at, expiry) => StoreNext
                 /\ ExpireIntent(c, expiry, at) => StoreNext
           /\ \A healthy \in BOOLEAN : RecordHealthResult(c, healthy) => StoreNext
  BY Zenon DEF StoreNext, Write

\* What the provers need to know of the types.
LEMMA Types ==
    ASSUME IInv
    PROVE  /\ row \in Row /\ row.runtimeID \in BOOLEAN /\ row.expiresAt \in Time
           /\ Reconciler \in Caller /\ Expirer \in Caller /\ Client \subseteq Caller
           /\ now \in Nat /\ MaxTime \in Nat /\ Time \subseteq Nat /\ NoLease \notin Time
           /\ failure # NoFailure => failure.reason \in CallerReason /\ failure.id \in BOOLEAN
           /\ {"CREATING_RUNTIME", "WAITING_RUNNER", "RUNNING", "SPEC_DRIFT", "TERMINATED",
               "DELETING_RUNTIME"} \subseteq CallerReason
           /\ {"Creating", "Running", "Failed", "Stopping", "Terminated"} \subseteq Observed
<1>1. StoreTypeOK /\ LocalTypeOK
  BY DEF IInv, StoreInv
<1>2. row \in Row /\ row.runtimeID \in BOOLEAN /\ row.expiresAt \in Time
  BY <1>1 DEF StoreTypeOK, Row
<1>3. Reconciler \in Caller /\ Expirer \in Caller /\ Client \subseteq Caller
  BY LifecycleAssumption DEF Client
<1>4. now \in Nat /\ MaxTime \in Nat /\ Time \subseteq Nat /\ NoLease \notin Time
  BY <1>1, StoreAssumption DEF StoreTypeOK, Time, NoLease
<1>5. failure # NoFailure => failure.reason \in CallerReason /\ failure.id \in BOOLEAN
  BY <1>1 DEF LocalTypeOK, Failure, CallerReason, Reason
<1>6. QED
  BY <1>2, <1>3, <1>4, <1>5 DEF CallerReason, Reason, Observed

\* The steps of the reconciler before and in the creation.
LEMMA CreateRefines ==
    ASSUME IInv,
           \/ Start \/ ExpireLease \/ MarkCreating \/ EnsureRuntime \/ MarkWaiting
           \/ ProbeNew \/ PublishRunning \/ CleanUpFailedCreate \/ RecordFailure
    PROVE  [StoreNext]_storeVars
<1>1. CASE Start
  BY <1>1, Types, Statements DEF Start
<1>2. CASE ExpireLease
  <2>1. ASSUME ExpireIntent(Reconciler, held, now) PROVE StoreNext
    <3>1. held \in Time /\ now \in FirstTime .. now
      BY <2>1, Types, StoreAssumption DEF ExpireIntent, ExpireIntentWhere, IInv, StoreInv,
                                          StoreTypeOK, Time
    <3>2. QED
      BY <2>1, <3>1, Types, Statements
  <2>2. QED
    BY <1>2, <2>1 DEF ExpireLease, Conflict
<1>3. CASE MarkCreating
  BY <1>3, Types, Statements DEF MarkCreating, Conflict
<1>4. CASE MarkWaiting
  BY <1>4, Types, Statements DEF MarkWaiting, Conflict
<1>5. CASE PublishRunning
  BY <1>5, Types, Statements DEF PublishRunning, Conflict
<1>6. CASE RecordFailure
  <2>1. failure # NoFailure
    BY <1>6 DEF RecordFailure, IInv, FailureInv
  <2>2. QED
    BY <1>6, <2>1, Types, Statements DEF RecordFailure
<1>7. CASE EnsureRuntime \/ ProbeNew \/ CleanUpFailedCreate
  BY <1>7 DEF EnsureRuntime, ProbeNew, CleanUpFailedCreate
<1>8. QED
  BY <1>1, <1>2, <1>3, <1>4, <1>5, <1>6, <1>7

\* Those of the check of a Running sandbox and of the deletion.
LEMMA RecoverRefines ==
    ASSUME IInv,
           \/ Project \/ Inspect \/ Restart \/ CheckRunner \/ Honor
           \/ RecordRunningSpecDrift \/ HandleProbeFailure \/ RereadBeforeReplace
           \/ ReplaceCompute \/ RecheckRunner \/ RecordHealthy \/ MarkStopping
           \/ DeleteRuntimeSucceeds \/ DeleteRuntimeFails \/ MarkTerminated
           \/ ResetSettledRetry \/ Abort
    PROVE  [StoreNext]_storeVars
<1>1. CASE Project \/ Inspect \/ Restart \/ CheckRunner \/ ReplaceCompute \/ RecheckRunner
             \/ DeleteRuntimeSucceeds \/ DeleteRuntimeFails \/ Abort
  BY <1>1 DEF Project, Inspect, Restart, CheckRunner, ReplaceCompute, RecheckRunner,
              DeleteRuntimeSucceeds, DeleteRuntimeFails, Abort
<1>2. CASE Honor \/ RereadBeforeReplace
  BY <1>2, Types, Statements DEF Honor, RereadBeforeReplace
<1>3. CASE RecordRunningSpecDrift
  BY <1>3, Types, Statements DEF RecordRunningSpecDrift, HonorConcurrentDelete
<1>4. CASE HandleProbeFailure
  BY <1>4, Types, Statements DEF HandleProbeFailure, HonorConcurrentDelete
<1>5. CASE RecordHealthy
  BY <1>5, Types, Statements DEF RecordHealthy, HonorConcurrentDelete
<1>6. CASE MarkStopping
  BY <1>6, Types, Statements DEF MarkStopping, Conflict
<1>7. CASE MarkTerminated
  BY <1>7, Types, Statements DEF MarkTerminated, Conflict
<1>8. CASE ResetSettledRetry
  BY <1>8, Types, Statements DEF ResetSettledRetry
<1>9. QED
  BY <1>1, <1>2, <1>3, <1>4, <1>5, <1>6, <1>7, <1>8

\* A client's request, with what it carries.
LEMMA RequestTypes ==
    ASSUME IInv, NEW c \in Client
    PROVE  /\ request[c] \in Request
           /\ request[c].op = "delete" => request[c].attempt \in 1 .. DeleteAttempts
           /\ request[c].op = "renew" =>
                 /\ request[c].attempt \in 1 .. RenewAttempts
                 /\ request[c].at \in FirstTime .. now /\ request[c].expiry \in Time
<1>1. request[c] \in Request
  BY DEF IInv, LocalTypeOK
<1>2. request[c].op = "delete" => request[c].attempt \in 1 .. DeleteAttempts
  BY <1>1 DEF Request, Idle
<1>3. ASSUME request[c].op = "renew"
      PROVE  /\ request[c].attempt \in 1 .. RenewAttempts
             /\ request[c].at \in Time /\ request[c].expiry \in Time
  BY <1>1, <1>3 DEF Request, Idle
<1>4. request[c].op = "renew" => request[c].at \in FirstTime .. now
  BY <1>3, Types, StoreAssumption DEF IInv, ClockInv, Time
<1>5. QED
  BY <1>1, <1>2, <1>3, <1>4

\* The entry that the TTL coordinator works on.
LEMMA ExpiryTypes ==
    ASSUME IInv, expiring # Idle
    PROVE  /\ expiring.attempt \in 1 .. ExpireAttempts
           /\ expiring.at \in FirstTime .. now /\ expiring.expected \in Time
<1>1. /\ expiring.attempt \in 1 .. ExpireAttempts
      /\ expiring.at \in Time /\ expiring.expected \in Time
  BY DEF IInv, LocalTypeOK, Expiry
<1>2. QED
  BY <1>1, Types, StoreAssumption DEF IInv, ClockInv, Time

\* The other actors, the world and the server's death.
LEMMA OthersRefine ==
    ASSUME IInv,
           \/ RequestStep \/ ExpireEntry \/ SubmitExpire \/ ScanOnce \/ TimePasses
           \/ ContainerLost \/ ContainerDrifts \/ Crash \/ ListRecords \/ Recover
    PROVE  [StoreNext]_storeVars
<1>1. ASSUME NEW c \in Client, Delete(c) \/ SubmitDelete(c) \/ RenewLease(c)
      PROVE  [StoreNext]_storeVars
  BY <1>1, Types, Statements DEF Delete, SubmitDelete, RenewLease
<1>2. ASSUME NEW c \in Client, SubmitRenew(c) PROVE [StoreNext]_storeVars
  BY <1>2, Types, RequestTypes, Statements DEF SubmitRenew
<1>3. CASE ExpireEntry
  BY <1>3, Types, Statements DEF ExpireEntry, ValidateDue
<1>4. CASE SubmitExpire
  <2>1. ExpireIntent(Expirer, expiring.expected, expiring.at) => StoreNext
    BY <1>4, Types, ExpiryTypes, Statements DEF SubmitExpire
  <2>2. QED
    BY <1>4, <2>1, Types, Statements DEF SubmitExpire, ValidateDue
<1>5. CASE ScanOnce \/ ContainerLost \/ ContainerDrifts
  BY <1>5 DEF ScanOnce, ContainerLost, ContainerDrifts
<1>6. CASE TimePasses \/ Crash
  BY <1>6 DEF TimePasses, Crash, StoreNext
<1>7. CASE ListRecords
  BY <1>7, Types, Statements DEF ListRecords
<1>8. CASE Recover
  BY <1>8, Types, Statements DEF Recover
<1>9. QED
  BY <1>1, <1>2, <1>3, <1>4, <1>5, <1>6, <1>7, <1>8 DEF RequestStep

\* A step of the server is a step of the store or leaves it alone.
LEMMA StepRefines == ASSUME IInv, [Next]_vars PROVE [StoreNext]_storeVars
<1>1. CASE Next
  BY <1>1, CreateRefines, RecoverRefines, OthersRefine DEF Next, ReconcileStep
<1>2. CASE UNCHANGED vars
  BY <1>2 DEF vars
<1>3. QED
  BY <1>1, <1>2

\* So the store's invariant and the rules of its statements hold here, and the
\* clock never goes back.
LEMMA StoreKeeps ==
    ASSUME IInv, [Next]_vars
    PROVE  /\ StoreInv' /\ StoreStep
           /\ row' \in Row /\ row'.expiresAt \in Time
           /\ now' >= now /\ now' \in Nat
<1>1. StoreTypeOK'
  BY StepRefines, StoreTypeStep DEF IInv, StoreInv
<1>2. StoreStep
  BY StepRefines, StepEffect DEF IInv
<1>3. now' >= now
  <2>1. now \in Nat
    BY Types
  <2>2. ASSUME NEW c \in Caller, Get(c) \/ Write(c) PROVE now' = now
    BY <2>2, Zenon
    DEF Get, Write, UpdateDesired, RepairRuntimeID, UpdateObserved, ResetRetry,
        ScheduleRetry, Renew, ExpireIntent, RecordHealthResult, Commit
  <2>3. now' = now \/ Tick
    BY <2>2, StepRefines
    DEF StoreNext, DropSnapshots, BackoffElapses, CheckIntervalElapses, storeVars
  <2>4. QED
    BY <2>1, <2>3 DEF Tick
<1>4. row' \in Row /\ row'.expiresAt \in Time /\ now' \in Nat
  BY <1>1, Types DEF StoreTypeOK, Row
<1>5. QED
  BY <1>1, <1>2, <1>3, <1>4 DEF StoreInv, StoreStep
-----------------------------------------------------------------------------
(* The server's memory.                                                    *)

\* What one step may do to the snapshot's lease and to lease.json.
LeaseMoves ==
    /\ held' \in {held, NoLease, row'.expiresAt}
    /\ manifest' \in {manifest, NoLease, held}

\* The reconciler's variables, apart from the requests'.
ReconcilerTypeOK ==
    /\ pc \in PC
    /\ failure \in Failure \cup {NoFailure}
    /\ queued \in BOOLEAN
    /\ runtime \in RuntimeState
    /\ FailureInv

\* Branch leads to a branch.
LEMMA BranchType ==
    ASSUME IInv
    PROVE  /\ Branch(row, now) \in {"expire", "project", "create", "settle", "stop"}
           /\ Branch(row, now) = "settle" <=>
                 row.desired = "Terminated" /\ row.observed = "Terminated"
<1>1. row.desired \in Desired /\ row.observed \in Observed
  BY Types DEF Row
<1>2. QED
  BY <1>1 DEF Branch, LeaseDue, Desired

\* Creation: the labels, and a failure before each record of one.
LEMMA CreateTypes ==
    ASSUME IInv,
           \/ Start \/ ExpireLease \/ MarkCreating \/ EnsureRuntime \/ MarkWaiting
           \/ ProbeNew \/ PublishRunning \/ CleanUpFailedCreate \/ RecordFailure
    PROVE  ReconcilerTypeOK' /\ LeaseMoves /\ UNCHANGED <<request, expiring>>
<1> USE DEF IInv, LocalTypeOK, ReconcilerTypeOK, LeaseMoves, FailureInv, Goto, Unlock, Hold,
            Fail, Conflict, PC, CreatePC, RecoverPC, DeletePC, Failure, NoFailure,
            RuntimeState, HasContainer, dockerVars
<1>1. CASE Start
  BY <1>1, BranchType DEF Start
<1>2. CASE ExpireLease
  BY <1>2 DEF ExpireLease
<1>3. CASE MarkCreating
  BY <1>3 DEF MarkCreating
<1>4. CASE EnsureRuntime
  <2>1. CASE EnsureSucceeds /\ Goto("waiting") /\ UNCHANGED <<held, failure>>
    BY <1>4, <2>1 DEF EnsureRuntime, EnsureSucceeds
  <2>2. ASSUME NEW reason \in {"TRANSIENT", "PERMANENT", "SPEC_DRIFT", "CLEANUP_PENDING"},
               EnsureFails(reason), pc' = "cleanup", UNCHANGED held,
               \E cause \in IF reason = "CLEANUP_PENDING"
                              THEN {"TRANSIENT", "PERMANENT"} ELSE {reason} :
                  failure' = [reason |-> cause, id |-> FALSE]
        PROVE  ReconcilerTypeOK' /\ LeaseMoves
    <3>1. runtime' \in RuntimeState /\ manifest' = manifest
      BY <2>2 DEF EnsureFails
    <3>2. PICK cause \in {"TRANSIENT", "PERMANENT", "SPEC_DRIFT"} :
             failure' = [reason |-> cause, id |-> FALSE]
      BY <2>2
    <3>3. failure' \in Failure /\ failure' # NoFailure
      BY <3>2
    <3>4. queued' \in BOOLEAN
      BY <1>4 DEF EnsureRuntime
    <3>5. QED
      BY <2>2, <3>1, <3>3, <3>4
  <2>3. QED
    BY <1>4, <2>1, <2>2 DEF EnsureRuntime
<1>5. CASE MarkWaiting
  BY <1>5 DEF MarkWaiting
<1>6. CASE ProbeNew
  <2>1. ASSUME NEW cause \in {"TRANSIENT", "PERMANENT"},
               failure' = [reason |-> cause, id |-> FALSE]
        PROVE  failure' \in Failure /\ failure' # NoFailure
    BY <2>1
  <2>2. CASE pc' = "publish"
    BY <1>6, <2>2 DEF ProbeNew
  <2>3. CASE pc' = "cleanup"
    BY <1>6, <2>1, <2>3 DEF ProbeNew
  <2>4. QED
    BY <1>6, <2>2, <2>3 DEF ProbeNew
<1>7. CASE PublishRunning
  BY <1>7 DEF PublishRunning
<1>8. CASE CleanUpFailedCreate
  BY <1>8, Types DEF CleanUpFailedCreate, DeleteSucceeds, DeleteFails
<1>9. CASE RecordFailure
  BY <1>9 DEF RecordFailure
<1>10. QED
  BY <1>1, <1>2, <1>3, <1>4, <1>5, <1>6, <1>7, <1>8, <1>9

\* The check of a Running sandbox.
LEMMA RecoverTypes ==
    ASSUME IInv,
           \/ Project \/ Inspect \/ Restart \/ CheckRunner \/ Honor
           \/ RecordRunningSpecDrift \/ HandleProbeFailure \/ RereadBeforeReplace
           \/ ReplaceCompute \/ RecheckRunner \/ RecordHealthy
    PROVE  ReconcilerTypeOK' /\ LeaseMoves /\ UNCHANGED <<request, expiring>>
<1> USE DEF IInv, LocalTypeOK, ReconcilerTypeOK, LeaseMoves, FailureInv, Goto, Unlock, Hold,
            Fail, HonorConcurrentDelete, PC, CreatePC, RecoverPC, DeletePC, Failure,
            NoFailure, RuntimeState, HasContainer, dockerVars
<1>1. CASE Project
  BY <1>1, Types DEF Project, ProjectLease
<1>2. CASE Inspect
  BY <1>2, Types, LifecycleAssumption DEF Inspect
<1>3. CASE Restart
  BY <1>3, Types DEF Restart, EnsureSucceeds, EnsureFails
<1>4. CASE CheckRunner
  BY <1>4 DEF CheckRunner
<1>5. CASE Honor
  BY <1>5, BranchType DEF Honor
<1>6. CASE RecordRunningSpecDrift
  BY <1>6 DEF RecordRunningSpecDrift
<1>7. CASE HandleProbeFailure
  BY <1>7 DEF HandleProbeFailure
<1>8. CASE RereadBeforeReplace
  BY <1>8, BranchType DEF RereadBeforeReplace
<1>9. CASE ReplaceCompute
  BY <1>9, Types DEF ReplaceCompute, ReplaceFails
<1>10. CASE RecheckRunner
  BY <1>10 DEF RecheckRunner
<1>11. CASE RecordHealthy
  BY <1>11 DEF RecordHealthy
<1>12. QED
  BY <1>1, <1>2, <1>3, <1>4, <1>5, <1>6, <1>7, <1>8, <1>9, <1>10, <1>11

\* The deletion, and a Reconcile that ends early.
LEMMA DeleteTypes ==
    ASSUME IInv,
           \/ MarkStopping \/ DeleteRuntimeSucceeds \/ DeleteRuntimeFails \/ MarkTerminated
           \/ ResetSettledRetry \/ Abort
    PROVE  ReconcilerTypeOK' /\ LeaseMoves /\ UNCHANGED <<request, expiring>>
<1> USE DEF IInv, LocalTypeOK, ReconcilerTypeOK, LeaseMoves, FailureInv, Goto, Unlock, Hold,
            Fail, Conflict, PC, CreatePC, RecoverPC, DeletePC, Failure, NoFailure,
            RuntimeState, HasContainer, dockerVars, DeleteSucceeds, DeleteFails
<1>1. CASE MarkStopping
  BY <1>1 DEF MarkStopping
<1>2. CASE DeleteRuntimeSucceeds
  BY <1>2 DEF DeleteRuntimeSucceeds
<1>3. CASE DeleteRuntimeFails
  BY <1>3, Types DEF DeleteRuntimeFails
<1>4. CASE MarkTerminated
  BY <1>4 DEF MarkTerminated
<1>5. CASE ResetSettledRetry
  BY <1>5 DEF ResetSettledRetry
<1>6. CASE Abort
  BY <1>6 DEF Abort, CutShort
<1>7. QED
  BY <1>1, <1>2, <1>3, <1>4, <1>5, <1>6

\* What the requests and the coordinator carry, now and after a step.
CarriedTypeOK == request \in [Client -> Request] /\ expiring \in Expiry /\ ClockInv

\* Time only makes what they carry older.
LEMMA CarriedUnchanged ==
    ASSUME IInv, [Next]_vars, UNCHANGED <<request, expiring>> PROVE CarriedTypeOK'
<1>1. ASSUME NEW c \in Client, request[c].op = "renew" PROVE request[c].at <= now'
  BY <1>1, RequestTypes, StoreKeeps, Types
<1>2. ASSUME expiring # Idle PROVE expiring.at <= now'
  BY <1>2, ExpiryTypes, StoreKeeps, Types
<1>3. QED
  BY <1>1, <1>2 DEF CarriedTypeOK, ClockInv, IInv, LocalTypeOK

\* A request that begins, is answered, or tries again.
LEMMA RequestKeeps ==
    ASSUME IInv, NEW c \in Client, NEW new \in Request,
           request' = [request EXCEPT ![c] = new], UNCHANGED <<expiring, now>>,
           new.op = "renew" => new.at <= now
    PROVE  CarriedTypeOK'
<1>1. request' \in [Client -> Request]
  BY DEF IInv, LocalTypeOK
<1>2. \A d \in Client : request'[d].op = "renew" => request'[d].at <= now'
  BY DEF IInv, LocalTypeOK, ClockInv
<1>3. QED
  BY <1>1, <1>2 DEF CarriedTypeOK, ClockInv, IInv, LocalTypeOK

\* The API requests.
LEMMA RequestStepTypes ==
    ASSUME IInv, RequestStep
    PROVE  ReconcilerTypeOK' /\ LeaseMoves /\ CarriedTypeOK'
<1>1. ASSUME NEW c \in Client,
             Delete(c) \/ SubmitDelete(c) \/ RenewLease(c) \/ SubmitRenew(c)
      PROVE  ReconcilerTypeOK' /\ LeaseMoves
  BY <1>1 DEF Delete, SubmitDelete, RenewLease, SubmitRenew, Wake, dockerVars,
              ReconcilerTypeOK, LeaseMoves, FailureInv, IInv, LocalTypeOK
<1>2. Idle \in Request /\ Idle.op # "renew"
  BY DEF Request, Idle
<1>3. ASSUME NEW c \in Client, Delete(c) PROVE CarriedTypeOK'
  <2>1. [op |-> "delete", attempt |-> 1] \in Request
    BY LifecycleAssumption DEF Request
  <2>2. QED
    BY <1>3, <2>1, RequestKeeps DEF Delete, Get
<1>4. ASSUME NEW c \in Client, SubmitDelete(c) PROVE CarriedTypeOK'
  <2>1. UNCHANGED <<expiring, now>>
    BY <1>4 DEF SubmitDelete, UpdateDesired, Commit, Get, storeVars
  <2>2. CASE Respond(c)
    BY <1>2, <2>1, <2>2, RequestKeeps DEF Respond
  <2>3. CASE /\ request[c].attempt < DeleteAttempts
             /\ request' = [request EXCEPT ![c].attempt = @ + 1]
    <3> DEFINE new == [request[c] EXCEPT !.attempt = @ + 1]
    <3>1. request[c] \in [op : {"delete"}, attempt : 1 .. DeleteAttempts]
      BY <1>4, RequestTypes DEF SubmitDelete, Request, Idle
    <3>2. request[c].attempt + 1 \in 1 .. DeleteAttempts
      BY <2>3, <3>1, LifecycleAssumption
    <3>3. new \in [op : {"delete"}, attempt : 1 .. DeleteAttempts]
      BY <3>1, <3>2
    <3>4. new \in Request /\ new.op = "delete"
      BY <3>3 DEF Request
    <3>5. request' = [request EXCEPT ![c] = new]
      BY <2>3
    <3> HIDE DEF new
    <3>6. QED
      BY <2>1, <3>4, <3>5, RequestKeeps
  <2>4. QED
    BY <1>4, <2>2, <2>3 DEF SubmitDelete
<1>5. ASSUME NEW c \in Client, RenewLease(c) PROVE CarriedTypeOK'
  <2>1. PICK expiry \in Time :
           request' = [request EXCEPT ![c] =
                         [op |-> "renew", attempt |-> 1, at |-> now, expiry |-> expiry]]
    BY <1>5 DEF RenewLease
  <2>2. now \in Time /\ now <= now
    BY Types DEF IInv, StoreInv, StoreTypeOK
  <2>3. [op |-> "renew", attempt |-> 1, at |-> now, expiry |-> expiry] \in Request
    BY <2>2, LifecycleAssumption DEF Request
  <2>4. QED
    BY <1>5, <2>1, <2>2, <2>3, RequestKeeps DEF RenewLease, Get
<1>6. ASSUME NEW c \in Client, SubmitRenew(c) PROVE CarriedTypeOK'
  <2>1. UNCHANGED <<expiring, now>>
    BY <1>6 DEF SubmitRenew, Renew, Commit, Get, storeVars
  <2>2. CASE Respond(c)
    BY <1>2, <2>1, <2>2, RequestKeeps DEF Respond
  <2>3. CASE /\ request[c].attempt < RenewAttempts
             /\ request' = [request EXCEPT ![c].attempt = @ + 1, ![c].at = now]
    <3> DEFINE new == [request[c] EXCEPT !.attempt = @ + 1, !.at = now]
    <3>1. request[c] \in
             [op : {"renew"}, attempt : 1 .. RenewAttempts, at : Time, expiry : Time]
      BY <1>6, RequestTypes DEF SubmitRenew, Request, Idle
    <3>2. request[c].attempt + 1 \in 1 .. RenewAttempts /\ now \in Time /\ now <= now
      BY <2>3, <3>1, LifecycleAssumption, Types DEF IInv, StoreInv, StoreTypeOK
    <3>3. /\ new \in [op : {"renew"}, attempt : 1 .. RenewAttempts, at : Time, expiry : Time]
          /\ new.at = now
      BY <3>1, <3>2
    <3>4. new \in Request /\ new.at <= now
      BY <3>2, <3>3 DEF Request
    <3>5. request' = [request EXCEPT ![c] = new]
      BY <2>3, <3>1 DEF IInv, LocalTypeOK
    <3> HIDE DEF new
    <3>6. QED
      BY <2>1, <3>4, <3>5, RequestKeeps
  <2>4. QED
    BY <1>6, <2>2, <2>3 DEF SubmitRenew
<1>7. QED
  BY <1>1, <1>3, <1>4, <1>5, <1>6 DEF RequestStep

\* The TTL coordinator.
LEMMA ExpireTypes ==
    ASSUME IInv, ExpireEntry \/ SubmitExpire
    PROVE  ReconcilerTypeOK' /\ LeaseMoves /\ CarriedTypeOK'
<1>1. ReconcilerTypeOK' /\ LeaseMoves
  BY DEF ExpireEntry, SubmitExpire, Wake, dockerVars, ReconcilerTypeOK, LeaseMoves,
         FailureInv, IInv, LocalTypeOK
<1>2. UNCHANGED <<request, now>>
  BY DEF ExpireEntry, SubmitExpire, ValidateDue, ExpireIntent, Commit, Get, storeVars
<1>3. now \in Time /\ now \in Nat /\ row.expiresAt \in Time
  BY Types DEF IInv, StoreInv, StoreTypeOK
<1>4. ASSUME NEW n \in 1 .. ExpireAttempts, ValidateDue(n)
      PROVE  expiring' \in Expiry /\ (expiring' # Idle => expiring'.at = now)
  BY <1>3, <1>4 DEF ValidateDue, Expiry
<1>5. \/ expiring' = Idle
      \/ \E n \in 1 .. ExpireAttempts : ValidateDue(n)
  <2>1. CASE ExpireEntry
    BY <2>1, LifecycleAssumption DEF ExpireEntry
  <2>2. CASE SubmitExpire
    BY <2>2, ExpiryTypes, LifecycleAssumption DEF SubmitExpire
  <2>3. QED
    BY <2>1, <2>2
<1>6. expiring' \in Expiry /\ (expiring' # Idle => expiring'.at <= now)
  BY <1>3, <1>4, <1>5 DEF Expiry
<1>7. QED
  BY <1>1, <1>2, <1>6 DEF CarriedTypeOK, ClockInv, IInv, LocalTypeOK

\* The scanner, the world outside and the server's death.
LEMMA WorldTypes ==
    ASSUME IInv, [Next]_vars,
           \/ ScanOnce \/ TimePasses \/ ContainerLost \/ ContainerDrifts
           \/ Crash \/ ListRecords \/ Recover \/ UNCHANGED vars
    PROVE  ReconcilerTypeOK' /\ LeaseMoves /\ CarriedTypeOK'
<1> USE DEF IInv, LocalTypeOK, ReconcilerTypeOK, LeaseMoves, FailureInv, Goto, PC,
            RuntimeState, HasContainer, dockerVars, localVars
<1>1. CASE ScanOnce
  BY <1>1, CarriedUnchanged DEF ScanOnce, Wake
<1>2. CASE TimePasses \/ ContainerLost \/ ContainerDrifts
  BY <1>2, CarriedUnchanged DEF TimePasses, ContainerLost, ContainerDrifts
<1>3. CASE Crash
  <2>1. CarriedTypeOK'
    BY <1>3 DEF Crash, CarriedTypeOK, ClockInv, Request, Expiry, Idle
  <2>2. QED
    BY <1>3, <2>1 DEF Crash, CutShort, DeleteFails, DeleteSucceeds
<1>4. CASE ListRecords
  BY <1>4, CarriedUnchanged DEF ListRecords
<1>5. CASE Recover
  <2>1. queued' \in BOOLEAN
    BY <1>5, Zenon DEF Recover, PlansWake, Candidate
  <2>2. QED
    BY <1>5, <2>1, CarriedUnchanged DEF Recover
<1>6. CASE UNCHANGED vars
  BY <1>6, CarriedUnchanged DEF vars
<1>7. QED
  BY <1>1, <1>2, <1>3, <1>4, <1>5, <1>6

\* All steps.
LEMMA StepTypes ==
    ASSUME IInv, [Next]_vars
    PROVE  ReconcilerTypeOK' /\ LeaseMoves /\ CarriedTypeOK'
<1>1. ASSUME Start \/ ReconcileStep \/ Abort
      PROVE  ReconcilerTypeOK' /\ LeaseMoves /\ UNCHANGED <<request, expiring>>
  BY <1>1, CreateTypes, RecoverTypes, DeleteTypes DEF ReconcileStep
<1>2. ASSUME Start \/ ReconcileStep \/ Abort
      PROVE  ReconcilerTypeOK' /\ LeaseMoves /\ CarriedTypeOK'
  BY <1>1, <1>2, CarriedUnchanged
<1>3. QED
  BY <1>2, RequestStepTypes, ExpireTypes, WorldTypes DEF Next

-----------------------------------------------------------------------------
(* The lease of the row.                                                   *)

\* The lease stays, and no caller but those of S gets to know the row.
LeaseStays(S) == row'.expiresAt = row.expiresAt /\ fresh' \subseteq fresh \cup S

\* Renew is the only statement that writes the lease.
LEMMA OtherStatements ==
    ASSUME row \in Row, NEW c
    PROVE  /\ \A state, reason, id :
                 /\ UpdateObserved(c, state, reason, id) => LeaseStays({c})
                 /\ ScheduleRetry(c, reason, id) => LeaseStays({c})
                 /\ ResetRetry(c, state, reason, id) => LeaseStays({c})
           /\ \A at, expiry : ExpireIntent(c, expiry, at) => LeaseStays({c})
           /\ \A healthy : RecordHealthResult(c, healthy) => LeaseStays({c})
           /\ UpdateDesired(c) => LeaseStays({c})
           /\ RepairRuntimeID(c) => LeaseStays({c})
           /\ Get(c) => LeaseStays({c})
           /\ UNCHANGED storeVars => LeaseStays({c})
<1> USE DEF Commit, Row, LeaseStays
<1>1. \A state, reason, id :
         /\ UpdateObserved(c, state, reason, id) => LeaseStays({c})
         /\ ScheduleRetry(c, reason, id) => LeaseStays({c})
         /\ ResetRetry(c, state, reason, id) => LeaseStays({c})
  BY DEF UpdateObserved, ScheduleRetry, ResetRetry
<1>2. /\ \A at, expiry : ExpireIntent(c, expiry, at) => LeaseStays({c})
      /\ \A healthy : RecordHealthResult(c, healthy) => LeaseStays({c})
  BY DEF ExpireIntent, RecordHealthResult
<1>3. /\ UpdateDesired(c) => LeaseStays({c})
      /\ RepairRuntimeID(c) => LeaseStays({c})
      /\ Get(c) => LeaseStays({c})
      /\ UNCHANGED storeVars => LeaseStays({c})
  BY DEF UpdateDesired, RepairRuntimeID, Get, storeVars
<1>4. QED
  BY <1>1, <1>2, <1>3

\* So every step but a client's leaves the lease, and shows the row to no client.
LEMMA ServerLeavesLease ==
    ASSUME IInv, [Next]_vars, ~RequestStep
    PROVE  LeaseStays({Reconciler, Expirer})
<1>1. row \in Row
  BY Types
<1>2. LeaseStays({Reconciler}) \/ LeaseStays({Expirer}) => LeaseStays({Reconciler, Expirer})
  BY DEF LeaseStays
<1>3. ASSUME Start \/ ReconcileStep \/ Abort
      PROVE  LeaseStays({Reconciler})
  <2>1. CASE \/ Start \/ ExpireLease \/ MarkCreating \/ EnsureRuntime \/ MarkWaiting
             \/ ProbeNew \/ PublishRunning \/ CleanUpFailedCreate
    BY <1>1, <2>1, OtherStatements
    DEF Start, ExpireLease, MarkCreating, EnsureRuntime, MarkWaiting, ProbeNew,
        PublishRunning, CleanUpFailedCreate, Conflict
  <2>2. CASE RecordFailure
    BY <1>1, <2>2, OtherStatements DEF RecordFailure
  <2>3. CASE \/ Project \/ Inspect \/ Restart \/ CheckRunner \/ Honor
             \/ ReplaceCompute \/ RecheckRunner \/ RereadBeforeReplace
    BY <1>1, <2>3, OtherStatements
    DEF Project, Inspect, Restart, CheckRunner, Honor, ReplaceCompute, RecheckRunner,
        RereadBeforeReplace
  <2>4. CASE RecordRunningSpecDrift \/ HandleProbeFailure \/ RecordHealthy
    BY <1>1, <2>4, OtherStatements
    DEF RecordRunningSpecDrift, HandleProbeFailure, RecordHealthy, HonorConcurrentDelete
  <2>5. CASE \/ MarkStopping \/ DeleteRuntimeSucceeds \/ DeleteRuntimeFails
             \/ MarkTerminated \/ ResetSettledRetry \/ Abort
    BY <1>1, <2>5, OtherStatements
    DEF MarkStopping, DeleteRuntimeSucceeds, DeleteRuntimeFails, MarkTerminated,
        ResetSettledRetry, Abort, Conflict
  <2>6. QED
    BY <1>3, <2>1, <2>2, <2>3, <2>4, <2>5 DEF ReconcileStep
<1>4. ASSUME ExpireEntry \/ SubmitExpire
      PROVE  LeaseStays({Expirer})
  BY <1>1, <1>4, OtherStatements DEF ExpireEntry, SubmitExpire, ValidateDue
<1>5. ASSUME ListRecords \/ Recover
      PROVE  LeaseStays({Reconciler})
  BY <1>1, <1>5, OtherStatements DEF ListRecords, Recover
<1>6. ASSUME \/ ScanOnce \/ TimePasses \/ ContainerLost \/ ContainerDrifts \/ Crash
             \/ UNCHANGED vars
      PROVE  LeaseStays({Reconciler})
  BY <1>6
  DEF ScanOnce, TimePasses, ContainerLost, ContainerDrifts, Crash, Tick, BackoffElapses,
      CheckIntervalElapses, DropSnapshots, storeVars, vars, LeaseStays
<1>7. QED
  BY <1>2, <1>3, <1>4, <1>5, <1>6 DEF Next

\* A client's step: a renewal that hits asks for more than the row has, and one
\* that is read again is validated again.
LEMMA ClientMovesLease ==
    ASSUME IInv, NEW c \in Client,
           Delete(c) \/ SubmitDelete(c) \/ RenewLease(c) \/ SubmitRenew(c)
    PROVE  row'.expiresAt >= row.expiresAt /\ RenewInv'
<1>1. /\ row \in Row /\ row.expiresAt \in Nat /\ c \in Caller
      /\ request \in [Client -> Request]
  BY Types DEF IInv, LocalTypeOK
<1>2. \A d \in Client : request[d].op = "renew" => request[d].expiry \in Nat
  BY <1>1, Types DEF Request, Idle
<1>3. \A d \in Client : request[d].op = "renew" /\ d \in fresh
                          => row.expiresAt < request[d].expiry
  BY DEF IInv, RenewInv
\* nobody but c learns of the row, which keeps its lease
<1>4. ASSUME LeaseStays({c}),
             \A d \in Client \ {c} : request'[d] = request[d],
             \/ request'[c].op # "renew"
             \/ request'[c].op = "renew" /\ row.expiresAt < request'[c].expiry
      PROVE  row'.expiresAt >= row.expiresAt /\ RenewInv'
  BY <1>1, <1>3, <1>4 DEF LeaseStays, RenewInv
<1>5. CASE Delete(c)
  BY <1>1, <1>4, <1>5, OtherStatements DEF Delete
<1>6. CASE SubmitDelete(c)
  <2>1. LeaseStays({c})
    BY <1>1, <1>6, OtherStatements DEF SubmitDelete
  <2>2. /\ \A d \in Client \ {c} : request'[d] = request[d]
        /\ request'[c].op # "renew"
    BY <1>1, <1>6 DEF SubmitDelete, Respond, Idle, Request
  <2>3. QED
    BY <1>4, <2>1, <2>2
<1>7. CASE RenewLease(c)
  <2>1. LeaseStays({c})
    BY <1>1, <1>7, OtherStatements DEF RenewLease
  <2>2. /\ \A d \in Client \ {c} : request'[d] = request[d]
        /\ request'[c].op = "renew" /\ row.expiresAt < request'[c].expiry
    BY <1>1, <1>7 DEF RenewLease, RenewIsValid
  <2>3. QED
    BY <1>4, <2>1, <2>2
<1>8. CASE SubmitRenew(c)
  <2> DEFINE r == request[c]
  <2>1. CASE Renew(c, r.at, r.expiry) /\ Respond(c)
    <3>1. row.expiresAt < r.expiry /\ r.expiry \in Nat
      BY <1>2, <1>3, <1>8, <2>1 DEF SubmitRenew, Renew, RenewWhere, RevisionMatches
    <3>2. row'.expiresAt = r.expiry /\ fresh' = {c}
      BY <1>1, <2>1 DEF Renew, Commit, Row
    <3>3. request'[c].op # "renew"
      BY <1>1, <2>1 DEF Respond, Idle
    <3>4. QED
      BY <1>1, <3>1, <3>2, <3>3 DEF RenewInv
  <2>2. CASE /\ RenewIsValid(r.expiry) /\ Get(c)
             /\ request' = [request EXCEPT ![c].attempt = @ + 1, ![c].at = now]
    <3>1. LeaseStays({c})
      BY <1>1, <2>2, OtherStatements
    <3>2. r \in [op : {"renew"}, attempt : 1 .. RenewAttempts, at : Time, expiry : Time]
      BY <1>1, <1>8 DEF SubmitRenew, Request, Idle
    <3>3. /\ \A d \in Client \ {c} : request'[d] = request[d]
          /\ request'[c].op = "renew" /\ request'[c].expiry = r.expiry
      BY <1>1, <2>2, <3>2
    <3>4. QED
      BY <1>4, <2>2, <3>1, <3>3 DEF RenewIsValid
  <2>3. CASE Respond(c) /\ UNCHANGED storeVars
    <3>1. LeaseStays({c})
      BY <1>1, <2>3, OtherStatements
    <3>2. /\ \A d \in Client \ {c} : request'[d] = request[d]
          /\ request'[c].op # "renew"
      BY <1>1, <2>3 DEF Respond, Idle
    <3>3. QED
      BY <1>4, <3>1, <3>2
  <2>4. QED
    BY <1>8, <2>1, <2>2, <2>3 DEF SubmitRenew
<1>9. QED
  BY <1>5, <1>6, <1>7, <1>8

\* The requests change in the clients' steps and end with the server.
LEMMA RequestsStay ==
    ASSUME IInv, [Next]_vars, ~RequestStep
    PROVE  request' = request \/ request' = [c \in Client |-> Idle]
<1>1. ASSUME Start \/ ReconcileStep \/ Abort PROVE request' = request
  BY <1>1, CreateTypes, RecoverTypes, DeleteTypes DEF ReconcileStep
<1>2. ASSUME \/ ExpireEntry \/ SubmitExpire \/ ScanOnce \/ TimePasses \/ ContainerLost
             \/ ContainerDrifts \/ ListRecords \/ Recover \/ UNCHANGED vars
      PROVE  request' = request
  BY <1>2
  DEF ExpireEntry, SubmitExpire, ScanOnce, TimePasses, ContainerLost, ContainerDrifts,
      ListRecords, Recover, vars, localVars
<1>3. ASSUME Crash PROVE request' = [c \in Client |-> Idle]
  BY <1>3 DEF Crash
<1>4. QED
  BY <1>1, <1>2, <1>3 DEF Next

\* All steps.
LEMMA LeaseGrows ==
    ASSUME IInv, [Next]_vars
    PROVE  row'.expiresAt >= row.expiresAt /\ RenewInv'
<1>1. CASE RequestStep
  BY <1>1, ClientMovesLease DEF RequestStep
<1>2. CASE ~RequestStep
  <2>1. LeaseStays({Reconciler, Expirer})
    BY <1>2, ServerLeavesLease
  <2>2. \A c \in Client : c \in fresh' => c \in fresh
    BY <2>1 DEF LeaseStays, Client
  <2>3. \A c \in Client : request'[c].op = "renew" => request'[c] = request[c]
    BY <1>2, RequestsStay DEF Idle
  <2>4. row.expiresAt \in Nat
    BY Types
  <2>5. QED
    BY <2>1, <2>2, <2>3, <2>4 DEF LeaseStays, IInv, RenewInv
<1>3. QED
  BY <1>1, <1>2

\* The lease in the snapshot was the row's and lease.json's was the snapshot's; as
\* the row's only grows, neither is ever ahead of it.
LEMMA LeaseKeeps ==
    ASSUME IInv, [Next]_vars
    PROVE  /\ HeldInv' /\ ManifestNeverAhead'
           /\ held' \in Time \cup {NoLease} /\ manifest' \in Time \cup {NoLease}
<1>1. LeaseMoves
  BY StepTypes
<1>2. /\ row.expiresAt \in Nat /\ row'.expiresAt \in Nat /\ row'.expiresAt \in Time
      /\ row'.expiresAt >= row.expiresAt
  BY StoreKeeps, LeaseGrows, Types
<1>3. held' \in Time \cup {NoLease} /\ manifest' \in Time \cup {NoLease}
  BY <1>1, <1>2 DEF LeaseMoves, IInv, LocalTypeOK
<1>4. /\ held # NoLease => held \in Nat /\ held <= row.expiresAt
      /\ manifest # NoLease => manifest \in Nat /\ manifest <= row.expiresAt
  BY Types DEF IInv, LocalTypeOK, HeldInv, ManifestNeverAhead
<1>5. NoLease' = NoLease
  BY DEF NoLease
<1>6. HeldInv'
  <2>1. held' # NoLease => held' <= row'.expiresAt
    BY <1>1, <1>2, <1>4 DEF LeaseMoves
  <2>2. QED
    BY <2>1, <1>5 DEF HeldInv
<1>7. ManifestNeverAhead'
  <2>1. manifest' # NoLease => manifest' <= row'.expiresAt
    BY <1>1, <1>2, <1>4 DEF LeaseMoves
  <2>2. QED
    BY <2>1, <1>5 DEF ManifestNeverAhead
<1>8. QED
  BY <1>3, <1>6, <1>7
-----------------------------------------------------------------------------
(* Terminated is final and clean.                                          *)

\* What is to be shown of every step.
CleanStep ==
    /\ CleanInv' /\ TerminatedIsClean'
    /\ row.observed = "Terminated" => row'.observed = "Terminated" /\ runtime' = "absent"

\* The states that statements write.
LEMMA ObservedWritten ==
    ASSUME row \in Row, NEW c
    PROVE  /\ \A state, reason, id :
                 /\ UpdateObserved(c, state, reason, id) => row'.observed = state
                 /\ ScheduleRetry(c, reason, id) => row'.observed = "Failed"
                 /\ ResetRetry(c, state, reason, id) =>
                       row'.observed = state /\ row.desired = state /\ row'.desired = state
           /\ \A at, expiry :
                 /\ Renew(c, at, expiry) => row'.observed = row.observed
                 /\ ExpireIntent(c, expiry, at) =>
                       row.observed # "Terminated" /\ row'.observed = "Stopping"
           /\ \A healthy : RecordHealthResult(c, healthy) => row'.observed = row.observed
           /\ UpdateDesired(c) => row'.observed = row.observed
           /\ RepairRuntimeID(c) => row'.observed = row.observed
           /\ Get(c) => row' = row
<1> USE DEF Commit, Row
<1>1. \A state, reason, id :
         /\ UpdateObserved(c, state, reason, id) => row'.observed = state
         /\ ScheduleRetry(c, reason, id) => row'.observed = "Failed"
  BY DEF UpdateObserved, ScheduleRetry
<1>2. \A state, reason, id :
         ResetRetry(c, state, reason, id) =>
            row'.observed = state /\ row.desired = state /\ row'.desired = state
  BY DEF ResetRetry, ResetRetryWhere
<1>3. \A at, expiry :
         /\ Renew(c, at, expiry) => row'.observed = row.observed
         /\ ExpireIntent(c, expiry, at) =>
               row.observed # "Terminated" /\ row'.observed = "Stopping"
  BY DEF Renew, ExpireIntent, ExpireIntentWhere
<1>4. /\ \A healthy : RecordHealthResult(c, healthy) => row'.observed = row.observed
      /\ UpdateDesired(c) => row'.observed = row.observed
      /\ RepairRuntimeID(c) => row'.observed = row.observed
      /\ Get(c) => row' = row
  BY DEF RecordHealthResult, UpdateDesired, RepairRuntimeID, Get
<1>5. QED
  BY <1>1, <1>2, <1>3, <1>4

\* A step of a sandbox that is not Terminated, does not become it, and does not
\* head for it.
LEMMA Live ==
    ASSUME row.observed # "Terminated", row'.observed # "Terminated",
           pc' \notin {"settle", "terminate"}
    PROVE  CleanStep
  BY DEF CleanStep, CleanInv, TerminatedIsClean

\* A step of others: they leave a Terminated record and what is gone as they are.
LEMMA Aside ==
    ASSUME IInv, [Next]_vars,
           row'.observed = "Terminated" <=> row.observed = "Terminated",
           pc' \in {pc, "down", "recovering", "idle"},
           runtime = "absent" /\ manifest = NoLease
              => runtime' = "absent" /\ manifest' = NoLease
    PROVE  CleanStep
<1>1. row.desired = "Terminated" => row'.desired = "Terminated"
  BY StoreKeeps DEF StoreStep
<1>2. NoLease' = NoLease
  BY DEF NoLease
<1>3. QED
  BY <1>1, <1>2 DEF CleanStep, IInv, CleanInv, TerminatedIsClean

\* The reconciler on its way up: none of it runs for a Terminated record.
LEMMA CreateClean ==
    ASSUME IInv,
           \/ ExpireLease \/ MarkCreating \/ EnsureRuntime \/ MarkWaiting
           \/ ProbeNew \/ PublishRunning \/ CleanUpFailedCreate \/ RecordFailure
    PROVE  CleanStep
<1> USE DEF Goto, Unlock, Hold, Fail, Conflict, storeVars
<1>1. row.observed # "Terminated" /\ row \in Row
  BY Types DEF IInv, CleanInv, ExpireLease, MarkCreating, EnsureRuntime, MarkWaiting,
               ProbeNew, PublishRunning, CleanUpFailedCreate, RecordFailure
<1>2. CASE ExpireLease
  BY <1>1, <1>2, ObservedWritten, Live DEF ExpireLease
<1>3. CASE MarkCreating
  BY <1>1, <1>3, ObservedWritten, Live DEF MarkCreating
<1>4. CASE MarkWaiting
  BY <1>1, <1>4, ObservedWritten, Live DEF MarkWaiting
<1>5. CASE PublishRunning
  BY <1>1, <1>5, ObservedWritten, Live DEF PublishRunning
<1>6. CASE RecordFailure
  BY <1>1, <1>6, ObservedWritten, Live DEF RecordFailure
<1>7. CASE EnsureRuntime \/ ProbeNew \/ CleanUpFailedCreate
  BY <1>1, <1>7, Live DEF EnsureRuntime, ProbeNew, CleanUpFailedCreate
<1>8. QED
  BY <1>2, <1>3, <1>4, <1>5, <1>6, <1>7

\* Nor does the check of a Running one; a reread sees a Terminated record if there
\* is one.
LEMMA RecoverClean ==
    ASSUME IInv,
           \/ Project \/ Inspect \/ Restart \/ CheckRunner \/ Honor
           \/ RecordRunningSpecDrift \/ HandleProbeFailure \/ RereadBeforeReplace
           \/ ReplaceCompute \/ RecheckRunner \/ RecordHealthy
    PROVE  CleanStep
<1> USE DEF Goto, Unlock, Hold, Fail, HonorConcurrentDelete, storeVars
<1>1. row.observed # "Terminated" /\ row \in Row
  BY Types DEF IInv, CleanInv, Project, Inspect, Restart, CheckRunner, Honor,
               RecordRunningSpecDrift, HandleProbeFailure, RereadBeforeReplace,
               ReplaceCompute, RecheckRunner, RecordHealthy
<1>2. CASE Project
  BY <1>1, <1>2, Live DEF Project, ProjectLease
<1>3. CASE Inspect
  BY <1>1, <1>3, Live, LifecycleAssumption DEF Inspect
<1>4. CASE Restart \/ CheckRunner \/ ReplaceCompute \/ RecheckRunner
  BY <1>1, <1>4, Live DEF Restart, CheckRunner, ReplaceCompute, RecheckRunner
<1>5. CASE Honor
  BY <1>1, <1>5, BranchType, ObservedWritten, Live DEF Honor
<1>6. CASE RereadBeforeReplace
  BY <1>1, <1>6, BranchType, ObservedWritten, Live DEF RereadBeforeReplace
<1>7. CASE RecordRunningSpecDrift
  BY <1>1, <1>7, ObservedWritten, Live DEF RecordRunningSpecDrift
<1>8. CASE HandleProbeFailure
  BY <1>1, <1>8, ObservedWritten, Live DEF HandleProbeFailure
<1>9. CASE RecordHealthy
  BY <1>1, <1>9, ObservedWritten, Live DEF RecordHealthy
<1>10. QED
  BY <1>2, <1>3, <1>4, <1>5, <1>6, <1>7, <1>8, <1>9

\* The deletion: everything is gone before the record says so, and a record that
\* says so is only settled.
LEMMA DeleteClean ==
    ASSUME IInv, [Next]_vars,
           \/ Start \/ MarkStopping \/ DeleteRuntimeSucceeds \/ DeleteRuntimeFails
           \/ MarkTerminated \/ ResetSettledRetry \/ Abort
    PROVE  CleanStep
<1> USE DEF IInv, CleanInv, TerminatedIsClean, CleanStep, Goto, Unlock, Hold, Fail,
            Conflict, storeVars, dockerVars, NoLease
<1>1. row \in Row
  BY Types
<1>2. CASE Start
  <2>1. row' = row /\ pc' = Branch(row, now) /\ UNCHANGED <<runtime, manifest>>
    BY <1>1, <1>2, ObservedWritten DEF Start
  <2>2. QED
    BY <2>1, BranchType
<1>3. CASE MarkStopping
  BY <1>1, <1>3, ObservedWritten, Live DEF MarkStopping
<1>4. CASE DeleteRuntimeSucceeds
  BY <1>4 DEF DeleteRuntimeSucceeds, DeleteSucceeds
<1>5. CASE DeleteRuntimeFails
  BY <1>5, Live DEF DeleteRuntimeFails
<1>6. CASE MarkTerminated
  BY <1>1, <1>6, ObservedWritten DEF MarkTerminated
<1>7. CASE ResetSettledRetry
  BY <1>1, <1>7, ObservedWritten DEF ResetSettledRetry
<1>8. CASE Abort
  BY <1>8 DEF Abort, CutShort
<1>9. QED
  BY <1>2, <1>3, <1>4, <1>5, <1>6, <1>7, <1>8

\* The other actors never touch a Terminated record's state or make anything.
LEMMA OthersClean ==
    ASSUME IInv, [Next]_vars,
           \/ RequestStep \/ ExpireEntry \/ SubmitExpire \/ ScanOnce \/ TimePasses
           \/ ContainerLost \/ ContainerDrifts \/ Crash \/ ListRecords \/ Recover
           \/ UNCHANGED vars
    PROVE  CleanStep
<1> USE DEF storeVars, localVars, dockerVars
<1>1. row \in Row
  BY Types
<1>2. ASSUME NEW c \in Client,
             Delete(c) \/ SubmitDelete(c) \/ RenewLease(c) \/ SubmitRenew(c)
      PROVE  CleanStep
  <2>1. row'.observed = row.observed /\ UNCHANGED <<pc, runtime, manifest>>
    BY <1>1, <1>2, ObservedWritten DEF Delete, SubmitDelete, RenewLease, SubmitRenew
  <2>2. QED
    BY <2>1, Aside
<1>3. CASE ExpireEntry \/ SubmitExpire
  <2>1. /\ row'.observed = "Terminated" <=> row.observed = "Terminated"
        /\ UNCHANGED <<pc, runtime, manifest>>
    BY <1>1, <1>3, ObservedWritten DEF ExpireEntry, SubmitExpire, ValidateDue
  <2>2. QED
    BY <2>1, Aside
<1>4. CASE ScanOnce \/ TimePasses \/ UNCHANGED vars
  BY <1>4, Aside
  DEF ScanOnce, TimePasses, Tick, BackoffElapses, CheckIntervalElapses, vars
<1>5. CASE ContainerLost \/ ContainerDrifts
  BY <1>5, Aside DEF ContainerLost, ContainerDrifts, HasContainer
<1>6. CASE Crash
  <2>1. CASE row.observed = "Terminated"
    BY <1>6, <2>1, Aside DEF Crash, CutShort, DropSnapshots, IInv, CleanInv
  <2>2. CASE row.observed # "Terminated"
    BY <1>6, <2>2, Live DEF Crash, DropSnapshots
  <2>3. QED
    BY <2>1, <2>2
<1>7. CASE ListRecords
  BY <1>1, <1>7, ObservedWritten, Aside DEF ListRecords, Goto
<1>8. CASE Recover
  BY <1>1, <1>8, ObservedWritten, Aside DEF Recover, Goto
<1>9. QED
  BY <1>2, <1>3, <1>4, <1>5, <1>6, <1>7, <1>8 DEF RequestStep

\* All steps.
LEMMA StepClean == ASSUME IInv, [Next]_vars PROVE CleanStep
  BY CreateClean, RecoverClean, DeleteClean, OthersClean DEF Next, ReconcileStep
-----------------------------------------------------------------------------
(* The theorems.                                                           *)

\* The invariant from which the others follow.
THEOREM Inductive == Spec => []IInv
<1>1. Init => IInv
  <2> SUFFICES ASSUME Init PROVE IInv
    OBVIOUS
  <2>1. StoreInv
    <3>1. StoreTypeOK
      BY StoreTypeInit DEF Init
    <3>2. RetryIsScheduled /\ ExpiredMeansIntent
      BY DEF Init, StoreInit, NewRow, RetryIsScheduled, ExpiredMeansIntent
    <3>3. QED
      BY <3>1, <3>2 DEF StoreInv
  <2>2. LocalTypeOK /\ FailureInv /\ ClockInv
    BY DEF Init, LocalTypeOK, FailureInv, ClockInv, PC, RuntimeState, Request, Expiry, Idle
  <2>3. RenewInv /\ HeldInv /\ ManifestNeverAhead
    BY DEF Init, RenewInv, HeldInv, ManifestNeverAhead, Idle
  <2>4. CleanInv /\ TerminatedIsClean
    BY DEF Init, StoreInit, NewRow, CleanInv, TerminatedIsClean
  <2>5. QED
    BY <2>1, <2>2, <2>3, <2>4 DEF IInv
<1>2. IInv /\ [Next]_vars => IInv'
  <2> SUFFICES ASSUME IInv, [Next]_vars PROVE IInv'
    OBVIOUS
  <2>1. StoreInv'
    BY StoreKeeps
  <2>2. RenewInv' /\ HeldInv' /\ ManifestNeverAhead'
    BY LeaseGrows, LeaseKeeps
  <2>3. LocalTypeOK' /\ FailureInv' /\ ClockInv'
    BY StepTypes, LeaseKeeps
    DEF LocalTypeOK, ReconcilerTypeOK, CarriedTypeOK, NoLease, NoFailure
  <2>4. CleanInv' /\ TerminatedIsClean'
    BY StepClean DEF CleanStep
  <2>5. QED
    BY <2>1, <2>2, <2>3, <2>4 DEF IInv
<1>3. QED
  BY <1>1, <1>2, PTL DEF Spec

\* The types hold, and a Reconcile that records a failure has one to record.
THEOREM TypeCorrect == Spec => []TypeOK
<1>1. IInv => TypeOK
  BY DEF IInv, StoreInv, LocalTypeOK, FailureInv, TypeOK
<1>2. QED
  BY <1>1, Inductive, PTL

\* The server implements the store's specification: API, TTL coordinator, startup
\* recovery and reconciler, with crashes between their steps, do to the row only
\* what the store's statements do, with arguments that the store allows.
THEOREM ServerImplementsStore == Spec => ImplementsStore
<1>1. Init => StoreInit
  BY DEF Init
<1>2. IInv /\ [Next]_vars => [StoreNext]_storeVars
  BY StepRefines
<1>3. QED
  BY <1>1, <1>2, Inductive, PTL DEF Spec, ImplementsStore, StoreSpec

\* So no lease is ended early by any of the server's two expiry paths.
THEOREM LeaseIsHonoured == Spec => TTLNeverEarly
  BY ServerImplementsStore, NeverExpiredEarly DEF ImplementsStore

\* The lease of a row never moves back in time, although the statement that
\* renews it compares texts.
THEOREM LeaseMonotonic == Spec => LeaseOnlyGrows
<1>1. IInv /\ [Next]_vars => [row'.expiresAt >= row.expiresAt]_vars
  BY LeaseGrows
<1>2. QED
  BY <1>1, Inductive, PTL DEF Spec, LeaseOnlyGrows

\* A Terminated record has nothing left in Docker or on disk.
THEOREM TerminatedClean == Spec => []TerminatedIsClean
  BY Inductive, PTL DEF IInv

\* lease.json never promises more than the row.
THEOREM ManifestBounded == Spec => []ManifestNeverAhead
  BY Inductive, PTL DEF IInv

\* Nothing takes a record back from Terminated, and nothing is made for it.
THEOREM TerminatedIsFinal == Spec => NoResurrection
<1>1. IInv /\ [Next]_vars
        => [row.observed = "Terminated"
              => row'.observed = "Terminated" /\ runtime' = "absent"]_vars
  BY StepClean DEF CleanStep
<1>2. QED
  BY <1>1, Inductive, PTL DEF Spec, NoResurrection
=============================================================================
