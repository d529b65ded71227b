----------------------------- MODULE Admission -----------------------------
(***************************************************************************)
(* Sandbox creation from the HTTP handler to the SQLite transaction: the   *)
(* validation of a command, the idempotency key, the admission limit, the  *)
(* commit, the wake-up and the answer; the sweeper that forgets keys of    *)
(* long-terminated sandboxes; the import of a recovered orphan; the death  *)
(* of sandboxd between any two of those steps, and answers that get lost.  *)
(*                                                                         *)
(* Time is counted in half seconds, the coarsest unit that shows that the  *)
(* stored RFC3339Nano texts do not sort like the times they stand for.     *)
(***************************************************************************)
EXTENDS StoredTime, FiniteSets, Sequences

CONSTANTS
    Clients,        \* HTTP clients, one outstanding request each
    Keys,           \* Idempotency-Key values, naturals in their text order
    Commands,       \* create bodies: [image, ttl, outbound]
    NormalImage,    \* reference.ParseNormalizedNamed, as a function of the image
    AllowOutbound,  \* SandboxService.allowOutbound
    MinTTL, MaxTTL, DefaultTTL,
    MaxSandboxes,   \* CreatePolicy.MaxSandboxes
    Retention,      \* IdempotencyGC.retention
    GCLimit,        \* IdempotencyGC.batchSize
    MaxIDs,         \* bound: sandboxes ever created or imported
    MaxTime         \* bound: the clock

ASSUME AdmissionAssumption ==
    /\ "free" \notin Clients    \* nobody's name for the connection is no client's
    /\ Keys \subseteq Nat \ {0}
    /\ MaxSandboxes \in Nat \ {0} /\ GCLimit \in Nat \ {0}
    /\ Retention \in Nat /\ MaxIDs \in Nat /\ MaxTime \in Nat
    /\ MinTTL \in Nat \ {0} /\ MaxTTL \in Nat /\ MinTTL <= MaxTTL
    /\ DefaultTTL \in MinTTL..MaxTTL

VARIABLES
    row,      \* the sandboxes table: id -> [observed, at] (at: when it was Terminated)
    record,   \* idempotency_records: key -> [hash, sandbox] or NoRecord
    conn,     \* who holds the only database connection: Free, a client, "gc"
    call,     \* per client: the request in flight and how far it has come
    cursor,   \* the sweep: NoSweep or <<the key after which the next batch starts>>
    cutoff,   \* the sweep's query.Now - retention
    now,
    origin    \* history: id -> the request that created it

vars == <<row, record, conn, call, cursor, cutoff, now, origin>>

IDs == 1..MaxIDs
NoKey == 0
NoTTL == 0
NoRecord == [hash |-> <<>>, sandbox |-> 0]
NoRow == [observed |-> "Absent", at |-> 0]
Free == "free"
NoSweep == <<>>
Ready == [pc |-> "idle"]
NoRequest == [key |-> NoKey, hash |-> <<>>]

Created == {i \in IDs : row[i] # NoRow}

\* The count of enforceSandboxAdmission: every state but Terminated holds a place.
Active(r) == {i \in IDs : r[i].observed \notin {"Absent", "Terminated"}}

-----------------------------------------------------------------------------
(* The command: policy, lease, specification and request hash. *)

\* resolveCreateLease: an explicit TTL is positive, either TTL lies inside the policy.
LeaseAllowed(ttl) ==
    LET effective == IF ttl = NoTTL THEN DefaultTTL ELSE ttl
    IN  effective \in MinTTL..MaxTTL

\* The checks of CreateAccepted before an id exists: outbound policy, lease, image.
Acceptable(cmd) ==
    /\ cmd.outbound => AllowOutbound
    /\ LeaseAllowed(cmd.ttl)
    /\ cmd.image \in DOMAIN NormalImage

\* The canonical document: the normalized image, whether a TTL was present at all
\* and which, and the network.  SHA-256 is taken to be injective.
RequestHash(cmd) == <<NormalImage[cmd.image], cmd.ttl, cmd.outbound>>

-----------------------------------------------------------------------------
Init ==
    /\ row = [i \in IDs |-> NoRow]
    /\ record = [k \in Keys |-> NoRecord]
    /\ conn = Free
    /\ call = [c \in Clients |-> Ready]
    /\ cursor = NoSweep /\ cutoff = 0
    /\ now = Retention
    /\ origin = [i \in IDs |-> NoRequest]

At(c, pc) == call[c].pc = pc

\* The answer of the handler: an error, or 202 with the sandbox it names.
Answer(c, status, id) ==
    call' = [call EXCEPT ![c] =
               IF status = "accepted"
               THEN [pc |-> "answered", key |-> @.key, hash |-> @.hash,
                     status |-> status, id |-> id]
               ELSE [pc |-> "answered", key |-> NoKey, hash |-> <<>>,
                     status |-> status, id |-> 0]]

\* A client posts a create request; the handler has decoded it and mapped the key.
Post(c) ==
    /\ At(c, "idle")
    /\ \E k \in Keys \cup {NoKey}, cmd \in Commands :
          call' = [call EXCEPT ![c] =
                     IF Acceptable(cmd)
                     THEN [pc |-> "begin", key |-> k, hash |-> RequestHash(cmd)]
                     ELSE [pc |-> "answered", key |-> NoKey, hash |-> <<>>,
                           status |-> "rejected", id |-> 0]]
    /\ UNCHANGED <<row, record, conn, cursor, cutoff, now, origin>>

\* The id the generator hands out: never seen before.
FreshID == CHOOSE i \in IDs : row[i] = NoRow

\* Mutant: the key and the limit are checked before the write lock is taken.
BeginDeferred(c) ==
    /\ At(c, "begin") /\ conn = Free
    /\ call' = [call EXCEPT ![c].pc = "checkKey"]
    /\ UNCHANGED <<row, record, conn, cursor, cutoff, now, origin>>

\* BEGIN IMMEDIATE on the pool's single connection.
Begin(c) ==
    /\ At(c, "begin") /\ conn = Free
    /\ conn' = c
    /\ call' = [call EXCEPT ![c].pc = "checkKey"]
    /\ UNCHANGED <<row, record, cursor, cutoff, now, origin>>

\* Mutant: the stored response is replayed whatever the request says.
KeyFoundAnyHash(c) ==
    /\ At(c, "checkKey") /\ call[c].key # NoKey
    /\ record[call[c].key] # NoRecord
    /\ Answer(c, "accepted", record[call[c].key].sandbox)
    /\ conn' = Free
    /\ UNCHANGED <<row, record, cursor, cutoff, now, origin>>

\* CreateIdempotent finds the key: a different hash conflicts, the same one replays.
\* The read-only transaction is rolled back.
KeyFound(c) ==
    /\ At(c, "checkKey") /\ call[c].key # NoKey
    /\ record[call[c].key] # NoRecord
    /\ LET r == record[call[c].key]
       IN  IF r.hash = call[c].hash
           THEN Answer(c, "accepted", r.sandbox)
           ELSE Answer(c, "conflict", 0)
    /\ conn' = Free
    /\ UNCHANGED <<row, record, cursor, cutoff, now, origin>>

\* No record (or no key): the limit is enforced inside the transaction.
AdmissionDenied(c) ==
    /\ Cardinality(Active(row)) >= MaxSandboxes
    /\ Answer(c, "limit", 0)
    /\ conn' = Free

AdmissionGranted(c) ==
    /\ Cardinality(Active(row)) < MaxSandboxes
    /\ Created # IDs
    /\ call' = [call EXCEPT ![c].pc = "commit"]
    /\ UNCHANGED conn

Admit(c) ==
    /\ At(c, "checkKey")
    /\ call[c].key # NoKey => record[call[c].key] = NoRecord
    /\ AdmissionDenied(c) \/ AdmissionGranted(c)
    /\ UNCHANGED <<row, record, cursor, cutoff, now, origin>>

\* Mutant: the key's record is left to a later statement.
InsertSandboxOnly(c, i) ==
    /\ row' = [row EXCEPT ![i] = [observed |-> "Pending", at |-> 0]]
    /\ UNCHANGED record
    /\ origin' = [origin EXCEPT ![i] = [key |-> call[c].key, hash |-> call[c].hash]]

\* The rows of the transaction become visible together: the sandbox and its key.
Insert(c, i) ==
    /\ row' = [row EXCEPT ![i] = [observed |-> "Pending", at |-> 0]]
    /\ record' = IF call[c].key = NoKey THEN record
                 ELSE [record EXCEPT ![call[c].key] =
                         [hash |-> call[c].hash, sandbox |-> i]]
    /\ origin' = [origin EXCEPT ![i] = [key |-> call[c].key, hash |-> call[c].hash]]

\* COMMIT succeeds.
Commit(c) ==
    /\ At(c, "commit")
    /\ Insert(c, FreshID)
    /\ conn' = Free
    /\ call' = [call EXCEPT ![c] = [pc |-> "wake", key |-> @.key, hash |-> @.hash,
                                    id |-> FreshID]]
    /\ UNCHANGED <<cursor, cutoff, now>>

\* COMMIT reports an error (the request's context ended, the disk failed).  The
\* deferred ROLLBACK undoes the transaction unless the commit had taken effect.
CommitError(c) ==
    /\ At(c, "commit")
    /\ \/ UNCHANGED <<row, record, origin>>
       \/ Insert(c, FreshID)
    /\ conn' = Free
    /\ Answer(c, "error", 0)
    /\ UNCHANGED <<cursor, cutoff, now>>

\* CommitIdempotentCreate and CommitNonIdempotentCreate after the store returned: the
\* wake-up is a hint (WakeQueue), so all that matters here is that a crash can come first.
Wake(c) ==
    /\ At(c, "wake")
    /\ Answer(c, "accepted", call[c].id)
    /\ UNCHANGED <<row, record, conn, cursor, cutoff, now, origin>>

\* The answer arrives, or the connection breaks first: the client may post again.
Deliver(c) ==
    /\ At(c, "answered")
    /\ call' = [call EXCEPT ![c] = Ready]
    /\ UNCHANGED <<row, record, conn, cursor, cutoff, now, origin>>

-----------------------------------------------------------------------------
(* The sweeper of idempotency records. *)

\* SweepOnce fixes the cut-off once and pages through the table.
SweepStart ==
    /\ cursor = NoSweep
    /\ cursor' = <<0>> /\ cutoff' = now - Retention
    /\ UNCHANGED <<row, record, conn, call, now, origin>>

\* The join of DeleteExpiredIdempotencyRecords.
Expired(k) ==
    /\ record[k] # NoRecord
    /\ row[record[k].sandbox].observed = "Terminated"
    /\ TextLE(row[record[k].sandbox].at, cutoff)

\* ORDER BY key LIMIT: the first GCLimit expired keys after the cursor.
Batch ==
    LET due == {k \in Keys : k > cursor[1] /\ Expired(k)}
    IN  {k \in due : Cardinality({j \in due : j <= k}) <= GCLimit}

Largest(S) == CHOOSE k \in S : \A j \in S : j <= k

\* One batch is one transaction; a short batch ends the sweep.
SweepBatch ==
    /\ cursor # NoSweep /\ conn = Free
    /\ record' = [k \in Keys |-> IF k \in Batch THEN NoRecord ELSE record[k]]
    /\ cursor' = IF Cardinality(Batch) < GCLimit THEN NoSweep ELSE <<Largest(Batch)>>
    /\ cutoff' = IF cursor' = NoSweep THEN 0 ELSE cutoff
    /\ UNCHANGED <<row, conn, call, now, origin>>

-----------------------------------------------------------------------------
(* The rest of sandboxd and its environment. *)

\* The reconciler ends a sandbox; Terminated is final.
Terminate(i) ==
    /\ row[i].observed \in {"Pending", "Running"}
    /\ row' = [row EXCEPT ![i] = [observed |-> "Terminated", at |-> now]]
    /\ UNCHANGED <<record, conn, call, cursor, cutoff, now, origin>>

\* Orphan import inserts a row in a transaction of its own, without admission.
ImportRecovered ==
    /\ conn = Free /\ Created # IDs
    /\ row' = [row EXCEPT ![FreshID] = [observed |-> "Running", at |-> 0]]
    /\ UNCHANGED <<record, conn, call, cursor, cutoff, now, origin>>

\* sandboxd dies: open transactions roll back, requests and the wake queue are gone.
Crash ==
    /\ conn # Free \/ cursor # NoSweep \/ \E c \in Clients : ~At(c, "idle")
    /\ conn' = Free /\ cursor' = NoSweep /\ cutoff' = 0
    /\ call' = [c \in Clients |-> Ready]
    /\ UNCHANGED <<row, record, now, origin>>

Tick ==
    /\ now < MaxTime
    /\ now' = now + 1
    /\ UNCHANGED <<row, record, conn, call, cursor, cutoff, origin>>

Serve(c) ==
    Begin(c) \/ KeyFound(c) \/ Admit(c) \/ Commit(c) \/ CommitError(c) \/ Wake(c) \/ Deliver(c)

Next ==
    \/ \E c \in Clients : Post(c) \/ Serve(c)
    \/ SweepStart \/ SweepBatch
    \/ \E i \in IDs : Terminate(i)
    \/ ImportRecovered \/ Crash \/ Tick

Spec == Init /\ [][Next]_vars

-----------------------------------------------------------------------------
(* Properties. *)

\* Two sandboxes born under one idempotency key never live at the same time, however
\* the requests interleave, whatever commits are reported wrongly and whenever the
\* sweeper forgets the key (CreateIdempotent, DeleteExpiredIdempotencyRecords).
OneLiveSandboxPerKey ==
    \A k \in Keys : Cardinality({i \in Active(row) : origin[i].key = k}) <= 1

\* A 202 with a key names a sandbox that exists and was created for that very key and
\* canonical request, also after a crash or a lost answer in between.
ReplayMatchesRequest ==
    \A c \in Clients :
        (At(c, "answered") /\ call[c].status = "accepted") =>
            /\ row[call[c].id] # NoRow
            /\ origin[call[c].id] = [key |-> call[c].key, hash |-> call[c].hash]

\* A creation never takes the number of sandboxes that hold a place past the limit;
\* only the import of recovered orphans may (enforceSandboxAdmission).
AdmissionHolds ==
    [][\A i \in IDs :
         (row[i] = NoRow /\ row'[i].observed = "Pending") =>
             Cardinality(Active(row')) <= MaxSandboxes]_vars
=============================================================================
