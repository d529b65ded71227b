------------------------------ MODULE Startup ------------------------------
(***************************************************************************)
(* The life of one sandboxd process after another: loading and validating  *)
(* the configuration, migrating the database, recovering from what Docker  *)
(* and the run root hold, starting the worker, the maintenance loops and   *)
(* the HTTP server, publishing readiness, probing the dependencies,        *)
(* shutting down under one grace period, failing at any stage, dying at    *)
(* any moment and being started again.                                     *)
(***************************************************************************)
EXTENDS Config, RecoveryPlan

CONSTANTS
    Scenarios,     \* what the first process finds: [file, db, world]
    LaterWorlds,   \* what the next process may find instead of the same world
    Owner,         \* [uid, gid]: the account sandboxd runs under
    Policy,        \* the hash of the egress policy in force, or NoPolicy
    Latest,        \* the newest schema version this build knows
    MigrationTTL,  \* migrationDefaultTTL
    Freshness,     \* docker_freshness, in probes
    MaxRestarts    \* bound: processes after the first

\* The columns of the sandboxes table, and what of the database the startup uses.
RowFields == {"desired", "observed", "runtime", "spec", "lease", "changed", "origin"}
DatabaseFields == {"version", "sound", "rows", "anomalies", "backups"}

IsDatabase(d) ==
    /\ DOMAIN d = DatabaseFields /\ d.version \in Nat
    /\ \A id \in DOMAIN d.rows : DOMAIN d.rows[id] = RowFields

IsInventory(w) ==
    IsFiniteSet(w.containers) /\ IsFiniteSet(w.volumes) /\ IsFiniteSet(w.directories)

\* This build knows the migration that introduced the lease, its second.
ASSUME StartupAssumption ==
    /\ Latest \in Nat /\ Latest >= 2 /\ MigrationTTL \in Nat \ {0}
    /\ Freshness \in Nat /\ MaxRestarts \in Nat
    /\ \A s \in Scenarios : Decoded(s.file) /\ IsDatabase(s.db) /\ IsInventory(s.world)
    /\ \A w \in LaterWorlds : IsInventory(w)

VARIABLES
    file,       \* the configuration file
    cfg,        \* the loaded configuration
    pc, why,    \* the stage of run, and the reason of the last failure
    db,         \* [version, sound, rows, anomalies, backups]
    txn,        \* the migration's open transaction: [version, rows]
    world,      \* the inventory Docker and the run root would report
    todo,       \* identities Recover has not planned yet
    failed,     \* Recover's joined failures
    woken,      \* identities in the wake queue
    opened,     \* what run has opened and not closed
    live,       \* goroutine groups that still run
    cancelled,  \* resources whose Close has cancelled their context
    closing,    \* what remains to be closed, in order
    shared,     \* the closing steps share one grace period
    expired,    \* that period is over
    overrun,    \* history: resources whose Close gave up waiting
    stop,       \* the context of run is cancelled (SIGTERM)
    ready,      \* the readiness bits that are set
    gate,       \* the runtime's availability gate
    monitor,    \* "idle", or what the monitor is about to do to the gate: "open", "shut"
    fresh,      \* probes since the last success, per dependency
    provision,  \* how far the first sandbox of this process came
    restarts, now

config == <<file, cfg>>
data == <<db, txn>>
scan == <<world, todo, failed, woken>>
host == <<opened, live, cancelled, closing, shared, expired, overrun>>
health == <<gate, monitor, fresh>>
epoch == <<restarts, now>>
vars == <<config, pc, why, data, scan, host, stop, ready, health, provision, epoch>>

NoTxn == [version |-> -1, rows |-> <<>>]
Components == {"store", "docker", "artifact", "recovery", "worker"}
Dependencies == {"store", "docker"}
Ready == ready = Components
UnwindOrder == <<"maintenance", "worker", "runtime", "store">>

\* closeOnce: admission first, the store last.
ShutdownOrder == <<"http", "maintenance", "queue", "worker", "runtime", "store">>

\* The goroutines a handle waits for.
GroupOf == [http |-> "request", maintenance |-> "maintenance", worker |-> "worker"]

Init ==
    /\ \E s \in Scenarios : file = s.file /\ db = s.db /\ world = s.world
    /\ cfg = NoConfig /\ pc = "load" /\ why = ""
    /\ txn = NoTxn /\ todo = {} /\ failed = FALSE /\ woken = {}
    /\ opened = {} /\ live = {} /\ cancelled = {} /\ closing = <<>>
    /\ shared = FALSE /\ expired = FALSE /\ overrun = {} /\ stop = FALSE /\ ready = {}
    /\ gate = TRUE /\ monitor = "idle" /\ fresh = [d \in Dependencies |-> 0] /\ provision = "none"
    /\ restarts = 0 /\ now = 1

-----------------------------------------------------------------------------
(* Stages of run.  A stage that fails leaves through Unwind, which closes what
   is open in the reverse order; each Close has a timeout of its own. *)

Unwind(reason) ==
    /\ why' = reason /\ pc' = "closing"
    /\ closing' = SelectSeq(UnwindOrder, LAMBDA r : r \in opened)
    /\ shared' = FALSE /\ expired' = FALSE
    /\ UNCHANGED <<config, data, scan, opened, live, cancelled, overrun, stop, ready, health,
                   provision, epoch>>

LoadConfig ==
    /\ pc = "load" /\ cfg' = Load(file)
    /\ pc' = IF cfg' = NoConfig THEN "closing" ELSE "validate"
    /\ why' = IF cfg' = NoConfig THEN "load" ELSE why
    /\ UNCHANGED <<file, data, scan, host, stop, ready, health, provision, epoch>>

\* The next stage, when the stage changes nothing else.
Proceed(next) ==
    /\ pc' = next
    /\ UNCHANGED <<config, why, data, scan, host, stop, ready, health, provision, epoch>>

ValidateConfig ==
    /\ pc = "validate"
    /\ IF Validate(cfg) THEN Proceed("directories") ELSE Unwind("validate")

\* datadir.Ensure: the three directories exist, are real and are private.
Directories == pc = "directories" /\ Proceed("open")

\* sqlite.Open and verifyConnection.
OpenStore ==
    /\ pc = "open" /\ pc' = "version" /\ opened' = opened \cup {"store"}
    /\ UNCHANGED <<config, why, data, scan, live, cancelled, closing, shared, expired,
                   overrun, stop, ready, health, provision, epoch>>

\* The stages that call out of the process may fail, and fail once the context is
\* cancelled; openRuntime also when Docker cannot be reached.
Fallible == {"directories", "open", "version", "backup", "begin", "apply", "commit",
             "artifacts", "runtime", "network", "inventory", "recovered", "ttl", "due", "worker",
             "maintenance", "http"}

StageFails == pc \in Fallible /\ Unwind("failure")

-----------------------------------------------------------------------------
(* Migrate *)

\* applyMigrationV2: rows get a lease; the other versions only add tables.
Backfill(row, at) ==
    [row EXCEPT !.lease = IF row.observed = "Terminated" THEN row.changed
                          ELSE IF row.desired = "Terminated" THEN at
                          ELSE at + MigrationTTL]

Upgrade(version, rows, at) ==
    IF version = 2 THEN [id \in DOMAIN rows |-> Backfill(rows[id], at)] ELSE rows

\* schemaVersion and validateSchema before anything is written.
ReadVersion ==
    /\ pc = "version" /\ ~stop
    /\ IF db.version > Latest \/ (db.version > 0 /\ ~db.sound)
       THEN Unwind("schema")
       ELSE IF db.version = Latest THEN Proceed("opened")
       ELSE Proceed(IF db.version > 0 THEN "backup" ELSE "begin")

\* backupBeforeMigration.
Backup ==
    /\ pc = "backup" /\ ~stop
    /\ db' = [db EXCEPT !.backups = @ \cup {db.version}]
    /\ pc' = "begin"
    /\ UNCHANGED <<config, why, txn, scan, host, stop, ready, health, provision, epoch>>

\* BEGIN IMMEDIATE; the version is read again under the lock.
Begin ==
    /\ pc = "begin" /\ ~stop /\ pc' = "apply"
    /\ txn' = [version |-> db.version, rows |-> db.rows]
    /\ UNCHANGED <<config, why, db, scan, host, stop, ready, health, provision, epoch>>

\* Mutant: every migration is committed by itself.
ApplyCommitted ==
    /\ pc = "apply" /\ ~stop /\ txn.version < Latest
    /\ LET rows == Upgrade(txn.version + 1, txn.rows, now)
       IN  /\ txn' = [version |-> txn.version + 1, rows |-> rows]
           /\ db' = [db EXCEPT !.version = txn.version + 1, !.rows = rows]
    /\ pc' = IF txn.version + 1 = Latest THEN "commit" ELSE "apply"
    /\ UNCHANGED <<config, why, scan, host, stop, ready, health, provision, epoch>>

Apply ==
    /\ pc = "apply" /\ ~stop /\ txn.version < Latest
    /\ txn' = [version |-> txn.version + 1, rows |-> Upgrade(txn.version + 1, txn.rows, now)]
    /\ pc' = IF txn.version + 1 = Latest THEN "commit" ELSE "apply"
    /\ UNCHANGED <<config, why, db, scan, host, stop, ready, health, provision, epoch>>

Commit ==
    /\ pc = "commit" /\ ~stop /\ pc' = "opened"
    /\ db' = [db EXCEPT !.version = txn.version, !.rows = txn.rows, !.sound = TRUE]
    /\ txn' = NoTxn
    /\ UNCHANGED <<config, why, scan, host, stop, ready, health, provision, epoch>>

-----------------------------------------------------------------------------
(* Opening the rest, and startup recovery *)

\* A stage that sets readiness bits.
Mark(next, bits) ==
    /\ pc' = next /\ ready' = ready \cup bits
    /\ UNCHANGED <<config, why, data, scan, host, stop, health, provision, epoch>>

StoreOpened == pc = "opened" /\ Mark("artifacts", {"store"})

Artifacts == pc = "artifacts" /\ Mark("runtime", {"artifact"})

\* openRuntime pings Docker, so readiness may say so.
OpenRuntime ==
    /\ pc = "runtime" /\ ~stop
    /\ IF ~RuntimeAccepts(cfg) THEN Unwind("configuration")
       ELSE /\ pc' = "network" /\ opened' = opened \cup {"runtime"}
            /\ ready' = ready \cup {"docker"}
            /\ UNCHANGED <<config, why, data, scan, live, cancelled, closing, shared,
                           expired, overrun, stop, health, provision, epoch>>

\* The coordinator: the context is checked between the stages.
EnsureNetwork ==
    /\ pc = "network" /\ ~stop
    /\ IF RecoverAccepts(cfg)
       THEN /\ pc' = "inventory" /\ ready' = ready \ {"recovery"}
            /\ UNCHANGED <<config, why, data, scan, host, stop, health, provision, epoch>>
       ELSE Unwind("configuration")

\* The three inventories, then Recover: every identity of the table or of the world, in
\* order, after what nobody owns is recorded and what nobody sees any more is resolved.
Inventory ==
    /\ pc = "inventory" /\ ~stop /\ pc' = "unscoped"
    /\ todo' = DOMAIN db.rows \cup ActualIDs(world) /\ failed' = FALSE
    /\ UNCHANGED <<config, why, data, world, woken, host, stop, ready, health, provision, epoch>>

\* The outcome of one statement of Recover: what it writes, or a failure that is kept.
Written(next, rows, anomalies, wake) ==
    \/ /\ pc' = next
       /\ db' = [db EXCEPT !.rows = rows, !.anomalies = anomalies]
       /\ woken' = woken \cup wake
       /\ UNCHANGED <<config, why, txn, world, failed, host, stop, ready, health,
                      provision, epoch>>
    \/ /\ pc' = next /\ failed' = TRUE
       /\ UNCHANGED <<config, why, data, world, woken, host, stop, ready, health,
                      provision, epoch>>

RecordUnscoped ==
    /\ pc = "unscoped"
    /\ Written("finalize", db.rows,
               db.anomalies \cup {AnomalyKey(Unscoped, a) : a \in UnscopedAnomalies(world)}, {})
    /\ UNCHANGED todo

\* An anomaly that the scan did not see is resolved.  The statement spares those that were
\* seen after the scan began; nobody else records any, and the clock does not go back.
FinalizeAnomalyScan ==
    /\ pc = "finalize"
    /\ Written("plans", db.rows, db.anomalies \cap ActiveKeys(world), {})
    /\ UNCHANGED todo

Stored(id) == {db.rows[i] : i \in DOMAIN db.rows \cap {id}}
Actual(id) == {Snapshot(world, i) : i \in ActualIDs(world) \cap {id}}

\* OrphanImportExecutor.Execute: what makes it refuse.
ImportRefused(actual) ==
    \/ ~cfg.importTrustedOrphans
    \/ ~Rebuildable(actual, Policy)
    \/ \E m \in actual.bundle.main : m.created > now

SetRow(rows, id, row) ==
    [i \in DOMAIN rows \cup {id} |-> IF i = id THEN row ELSE rows[i]]

\* The planned action for the next identity.
ExecutePlan(id) ==
    LET action == PlanRecovery(Stored(id), Actual(id))
        actual == CHOOSE a \in Actual(id) : TRUE
        next == IF todo = {id} THEN "recovered" ELSE "plans"
        keys == {AnomalyKey(id, a) : a \in Recorded(actual)}
    IN  \/ action = "NO_OP" /\ Written(next, db.rows, db.anomalies, {})
        \/ action = "WAKE" /\ Written(next, db.rows, db.anomalies, {id})
        \/ /\ action = "RECORD_ANOMALY"
           /\ Written(next, db.rows,
                      IF Actual(id) = {} THEN db.anomalies ELSE db.anomalies \cup keys, {})
        \/ /\ action = "REPAIR_METADATA"
           /\ \E m \in actual.bundle.main :
                 Written(next, [db.rows EXCEPT ![id].runtime = m.name], db.anomalies, {id})
        \/ /\ action = "IMPORT" /\ ~ImportRefused(actual)
           /\ Written(next, SetRow(db.rows, id, ImportedRow(actual, now)), db.anomalies, {id})
        \/ /\ action = "IMPORT" /\ ImportRefused(actual)
           /\ pc' = next /\ failed' = TRUE
           /\ UNCHANGED <<config, why, data, world, woken, host, stop, ready, health,
                          provision, epoch>>

PlanNext ==
    /\ pc = "plans"
    /\ \/ todo = {} /\ Proceed("recovered")
       \/ \E id \in todo :
             /\ \A other \in todo : id <= other
             /\ ExecutePlan(id)
             /\ todo' = todo \ {id}

\* Any failure of Recover ends the startup.
Recovered ==
    /\ pc = "recovered" /\ ~stop
    /\ IF failed THEN Unwind("recovery") ELSE Proceed("ttl")

LeaseDue(row) == row.desired = "Running" /\ row.observed # "Terminated" /\ row.lease <= now

ExpireDue(rows) ==
    [id \in DOMAIN rows |->
        IF LeaseDue(rows[id])
        THEN [rows[id] EXCEPT !.desired = "Terminated", !.observed = "Stopping"]
        ELSE rows[id]]

DueIDs(rows) == {id \in DOMAIN rows : LeaseDue(rows[id])}

\* TTLRecovery with a scheduler that is thrown away: due leases end, and wake.
RecoverTTL ==
    /\ pc = "ttl" /\ ~stop /\ pc' = "due"
    /\ db' = [db EXCEPT !.rows = ExpireDue(@)] /\ woken' = woken \cup DueIDs(db.rows)
    /\ UNCHANGED <<config, why, txn, world, todo, failed, host, stop, ready, health,
                   provision, epoch>>

\* ListReconcileCandidates for rows without a scheduled retry; whether a running sandbox
\* is due for a check depends on when it was last reconciled.
MustScan(row) ==
    \/ LeaseDue(row) \/ row.observed \in {"Pending", "Creating", "Stopping"}
    \/ row.desired = "Terminated" /\ row.observed # "Terminated"
    \/ row.desired = "Running" /\ row.observed = "Terminated"

QueueDue ==
    /\ pc = "due" /\ ~stop /\ pc' = "worker"
    /\ \E checked \in {{}, {id \in DOMAIN db.rows : db.rows[id].observed = "Running"}} :
          woken' = woken \cup checked \cup {id \in DOMAIN db.rows : MustScan(db.rows[id])}
    /\ UNCHANGED <<config, why, data, world, todo, failed, host, stop, ready, health,
                   provision, epoch>>

-----------------------------------------------------------------------------
(* The long-running parts *)

StartWorker ==
    /\ pc = "worker"
    /\ IF ~WorkerAccepts(cfg) THEN Unwind("configuration")
       ELSE /\ pc' = "maintenance" /\ opened' = opened \cup {"worker"}
            /\ live' = live \cup {"worker"} /\ ready' = ready \cup {"worker"}
            /\ UNCHANGED <<config, why, data, scan, cancelled, closing, shared, expired,
                           overrun, stop, health, provision, epoch>>

\* The leases are recovered once more, into the scheduler that stays.
StartMaintenance ==
    /\ pc = "maintenance" /\ ~stop
    /\ IF ~MaintenanceAccepts(cfg) THEN Unwind("configuration")
       ELSE /\ pc' = "http" /\ opened' = opened \cup {"maintenance"}
            /\ live' = live \cup {"maintenance"} /\ ready' = ready \cup {"recovery"}
            /\ db' = [db EXCEPT !.rows = ExpireDue(@)] /\ woken' = woken \cup DueIDs(db.rows)
            /\ UNCHANGED <<config, why, txn, world, todo, failed, cancelled, closing, shared,
                           expired, overrun, stop, health, provision, epoch>>

\* The pre-pull goroutine belongs to nobody: its context is the background one.
StartHTTP ==
    /\ pc = "http"
    /\ IF ~HTTPAccepts(cfg) THEN Unwind("configuration")
       ELSE /\ pc' = "serving" /\ opened' = opened \cup {"http"}
            /\ live' = live \cup (IF cfg.prePull # <<>> THEN {"prepull"} ELSE {})
            /\ UNCHANGED <<config, why, data, scan, cancelled, closing, shared, expired,
                           overrun, stop, ready, health, provision, epoch>>

PrePullEnds ==
    /\ "prepull" \in live /\ live' = live \ {"prepull"}
    /\ UNCHANGED <<config, pc, why, data, scan, opened, cancelled, closing, shared, expired,
                   overrun, stop, ready, health, provision, epoch>>

\* A request enters while the listener accepts, and leaves whenever its handler returns.
RequestEnters ==
    /\ "http" \in opened \ cancelled /\ "request" \notin live
    /\ live' = live \cup {"request"}
    /\ UNCHANGED <<config, pc, why, data, scan, opened, cancelled, closing, shared, expired,
                   overrun, stop, ready, health, provision, epoch>>

RequestLeaves ==
    /\ "request" \in live /\ live' = live \ {"request"}
    /\ UNCHANGED <<config, pc, why, data, scan, opened, cancelled, closing, shared, expired,
                   overrun, stop, ready, health, provision, epoch>>

\* The contexts of the worker and of maintenance derive from run's, so a signal reaches
\* them before their Close does.  The monitor leaves between two probes.
GroupLeaves(g) ==
    /\ g \in live /\ (stop \/ g \in cancelled)
    /\ g = "maintenance" => monitor = "idle"
    /\ live' = live \ {g}
    /\ UNCHANGED <<config, pc, why, data, scan, opened, cancelled, closing, shared, expired,
                   overrun, stop, ready, health, provision, epoch>>

\* The first sandbox: a default lease, the staged bootstrap file, the runner's start.
Provision ==
    /\ pc = "serving" /\ provision = "none"
    /\ provision' =
          IF ~DefaultLeaseAccepted(cfg) THEN "lease refused"
          ELSE IF ~FromConfigAccepts(cfg, Owner) THEN "stage refused"
          ELSE IF ~BootstrapValid(FromConfig(cfg, Owner)) THEN "stage refused"
          ELSE IF ~RunnerAccepts(FromConfig(cfg, Owner)) THEN "runner refused"
          ELSE "runs"
    /\ UNCHANGED <<config, pc, why, data, scan, host, stop, ready, health, epoch>>

\* DependencyHealthMonitor.record, first half: a success counts at once, a failure only when
\* the last success is no longer fresh.  Readiness hears of it before the gate does; only
\* the monitor writes the gate, so a write that would not change it is left out.
ProbeOnce(d) ==
    /\ "maintenance" \in live /\ monitor = "idle"
    /\ \/ /\ fresh' = [fresh EXCEPT ![d] = 0] /\ ready' = ready \cup {d}
          /\ monitor' = IF d = "docker" /\ ~gate THEN "open" ELSE "idle"
       \/ /\ fresh' = [fresh EXCEPT ![d] = IF @ < Freshness THEN @ + 1 ELSE @]
          /\ ready' = IF fresh'[d] >= Freshness THEN ready \ {d} ELSE ready
          /\ monitor' = IF d = "docker" /\ fresh'[d] >= Freshness /\ gate THEN "shut" ELSE "idle"
    /\ UNCHANGED <<config, pc, why, data, scan, host, stop, gate, provision, epoch>>

\* Its second half, after an outcome of Docker: the gate, under a lock of its own.
SetAvailable ==
    /\ "maintenance" \in live /\ monitor # "idle"
    /\ gate' = (monitor = "open") /\ monitor' = "idle"
    /\ UNCHANGED <<config, pc, why, data, scan, host, stop, ready, fresh, provision, epoch>>

-----------------------------------------------------------------------------
(* Shutdown *)

Signal ==
    /\ ~stop /\ pc # "exited" /\ stop' = TRUE
    /\ UNCHANGED <<config, pc, why, data, scan, host, ready, health, provision, epoch>>

\* Mutant: only the bits of the dependencies are cleared.
MarkNotReadyDependencies(bits) == bits \ Dependencies

\* markNotReady: the bits the health monitor may set again are not the ones that count, so
\* it makes no difference that the code clears the five one after the other.
MarkNotReady(bits) == bits \ Components

\* The select of run: the signal, or the server stopped by itself.
Shutdown ==
    /\ pc = "serving" /\ pc' = "closing"
    /\ why' = "stopped" /\ provision' = "none"
    /\ ready' = MarkNotReady(ready) /\ closing' = ShutdownOrder
    /\ shared' = TRUE /\ expired' = FALSE
    /\ UNCHANGED <<config, data, scan, opened, live, cancelled, overrun, stop, health, epoch>>

\* Close cancels, and then waits.
CloseBegin ==
    /\ pc = "closing" /\ closing # <<>>
    /\ Head(closing) \in DOMAIN GroupOf \ cancelled
    /\ cancelled' = cancelled \cup {Head(closing)}
    /\ expired' = (shared /\ expired)
    /\ UNCHANGED <<config, pc, why, data, scan, opened, live, closing, shared, overrun, stop, ready,
                   health, provision, epoch>>

\* Mutant: Close waits for the goroutines only.
CloseEndsPatient ==
    /\ pc = "closing" /\ closing # <<>>
    /\ Head(closing) \in DOMAIN GroupOf =>
          Head(closing) \in cancelled /\ GroupOf[Head(closing)] \notin live
    /\ closing' = Tail(closing) /\ opened' = opened \ {Head(closing)}
    /\ overrun' = overrun \cup {r \in DOMAIN GroupOf \cap {Head(closing)} : GroupOf[r] \in live}
    /\ UNCHANGED <<config, pc, why, data, scan, live, cancelled, shared, expired, stop, ready,
                   health, provision, epoch>>

\* The group left, or the context of Close ended first.
CloseEnds ==
    /\ pc = "closing" /\ closing # <<>>
    /\ Head(closing) \in DOMAIN GroupOf =>
          Head(closing) \in cancelled /\ (GroupOf[Head(closing)] \notin live \/ expired)
    /\ closing' = Tail(closing) /\ opened' = opened \ {Head(closing)}
    /\ overrun' = overrun \cup {r \in DOMAIN GroupOf \cap {Head(closing)} : GroupOf[r] \in live}
    /\ UNCHANGED <<config, pc, why, data, scan, live, cancelled, shared, expired, stop, ready,
                   health, provision, epoch>>

GraceEnds ==
    /\ pc = "closing" /\ closing # <<>> /\ cancelled # {} /\ ~expired /\ expired' = TRUE
    /\ UNCHANGED <<config, pc, why, data, scan, opened, live, cancelled, closing, shared, overrun, stop,
                   ready, health, provision, epoch>>

\* What the end of the process leaves: the database and the world.
Gone ==
    /\ pc' = "exited"
    /\ cfg' = NoConfig /\ txn' = NoTxn /\ todo' = {} /\ failed' = FALSE /\ woken' = {}
    /\ opened' = {} /\ live' = {} /\ cancelled' = {} /\ closing' = <<>>
    /\ shared' = FALSE /\ expired' = FALSE /\ overrun' = {} /\ ready' = {}
    /\ gate' = TRUE /\ monitor' = "idle" /\ fresh' = [d \in Dependencies |-> 0]
    /\ UNCHANGED <<file, db, world, epoch>>

\* run returns, after the deferred markNotReady.
Exit ==
    /\ pc = "closing" /\ closing = <<>>
    /\ Gone /\ UNCHANGED <<why, stop, provision>>

Crash ==
    /\ pc # "exited"
    /\ Gone /\ why' = "crash" /\ provision' = "none" /\ UNCHANGED stop

Restart ==
    /\ pc = "exited" /\ restarts < MaxRestarts
    /\ pc' = "load" /\ why' = "" /\ stop' = FALSE /\ provision' = "none"
    /\ restarts' = restarts + 1 /\ now' = now + 1
    /\ world' \in {world} \cup LaterWorlds
    /\ UNCHANGED <<config, data, todo, failed, woken, host, ready, health>>

Boot ==
    \/ LoadConfig \/ ValidateConfig \/ Directories \/ OpenStore
    \/ ReadVersion \/ Backup \/ Begin \/ Apply \/ Commit \/ StoreOpened
    \/ Artifacts \/ OpenRuntime \/ EnsureNetwork \/ Inventory \/ RecordUnscoped
    \/ FinalizeAnomalyScan \/ PlanNext \/ Recovered \/ RecoverTTL \/ QueueDue
    \/ StartWorker \/ StartMaintenance \/ StartHTTP \/ StageFails

Close == Shutdown \/ CloseBegin \/ CloseEnds \/ GraceEnds \/ Exit

Next ==
    \/ Boot \/ Close \/ Signal \/ Crash \/ Restart
    \/ RequestEnters \/ RequestLeaves \/ PrePullEnds \/ Provision
    \/ \E g \in {"worker", "maintenance"} : GroupLeaves(g)
    \/ SetAvailable \/ \E d \in Dependencies : ProbeOnce(d)

\* The process itself runs, and its timers fire; its goroutines may hang.
Spec == Init /\ [][Next]_vars /\ WF_vars(Boot) /\ WF_vars(Shutdown /\ stop)
             /\ WF_vars(CloseBegin \/ CloseEnds \/ GraceEnds \/ Exit)
-----------------------------------------------------------------------------
\* Validate (validate.go) is the one gate for a configuration: what a later constructor,
\* the creation of a sandbox with the default lease, the staging of its bootstrap file or
\* its runner refuses all the same is one of seven values the gate does not look into.
LateRefusalIsKnown ==
    /\ why = "configuration" /\ cfg # NoConfig =>
          \/ cfg.jitter = cfg.interval \/ cfg.terminalRetention < DayInSeconds
          \/ cfg.dockerFreshness < 2 \/ cfg.dockerHost = "unparsable"
    /\ pc = "serving" /\ provision = "lease refused" => cfg.defaultTTL % Second # 0
    /\ pc = "serving" /\ provision = "stage refused" =>
          cfg.executionUID = Owner.uid \/ cfg.executionGID = Owner.gid
    /\ pc = "serving" /\ provision = "runner refused" => cfg.logPageBytes < 64

\* Migrate (migrations.go): the version of the database moves in one step to the newest,
\* after a backup of the old version, with every row kept and no wanted sandbox due.
UpgradeIsSafe ==
    [][db'.version # db.version =>
          /\ db'.version = Latest
          /\ db.version > 0 => db.version \in db.backups
          /\ DOMAIN db'.rows = DOMAIN db.rows
          /\ \A id \in DOMAIN db.rows :
                /\ [db'.rows[id] EXCEPT !.lease = NoLease] = [db.rows[id] EXCEPT !.lease = NoLease]
                /\ (db.version < 2 /\ db.rows[id].desired = "Running"
                      /\ db.rows[id].observed # "Terminated") => db'.rows[id].lease > now]_vars

\* Recover (startup_recovery.go): when the startup goes on, whatever Docker or the run
\* root holds belongs to a row or to an active anomaly, no anomaly outlives what it was
\* about, and a sandbox that is to be gone but has resources is woken or recorded.
NothingGoesUnnoticed ==
    pc = "ttl" =>
      /\ \A a \in UnscopedAnomalies(world) : AnomalyKey(Unscoped, a) \in db.anomalies
      /\ \A k \in db.anomalies :
            IF k[1] = Unscoped THEN \E a \in UnscopedAnomalies(world) : k = AnomalyKey(Unscoped, a)
            ELSE k[1] \in ActualIDs(world)
      /\ \A id \in ActualIDs(world) :
            LET noted == \E k \in db.anomalies : k[1] = id
            IN  /\ \A a \in Snapshot(world, id).anomalies : AnomalyKey(id, a) \in db.anomalies
                /\ id \in DOMAIN db.rows \/ noted
                /\ (id \in DOMAIN db.rows /\ db.rows[id].desired = "Terminated")
                      => (id \in woken \/ noted)

\* Readiness (readiness.go, markNotReady, dependency_health.go): an answering process that
\* calls itself ready is one that serves, with its worker and maintenance loops running,
\* whatever the health monitor writes while the process shuts down.  Docker operations are
\* let through, or are about to be: after an outage the monitor sets the readiness bit
\* first and opens the gate with its next statement.
ReadyMeansServing ==
    Ready /\ "http" \in opened =>
        /\ pc = "serving" /\ (gate \/ monitor = "open")
        /\ stop \/ {"worker", "maintenance"} \subseteq live

\* run (bootstrap.go): a signal ends the process at every stage, even with goroutines and
\* requests that never return.
StopEnds == stop ~> pc = "exited"
=============================================================================
