------------------------------- MODULE Config -------------------------------
(***************************************************************************)
(* The configuration of sandboxd as operators: loading it (defaults        *)
(* overlaid with the YAML file), Validate, what every constructor that     *)
(* runs later demands of the same values, the copy handed to the runner of *)
(* a sandbox, and what the runner demands of that copy.                    *)
(*                                                                         *)
(* Durations are milliseconds, except the idempotency ones and             *)
(* completed_retention, which are seconds (TLC's integers have 32 bits);   *)
(* the smallest positive duration, a nanosecond, is 1.  Texts that are     *)
(* only classified (addresses, paths, image references) are their class.   *)
(***************************************************************************)
EXTENDS Integers, Sequences, TLC

Second == 1000
Minute == 60 * Second
Hour == 60 * Minute
Day == 24 * Hour
DayInSeconds == 86400

Absolute == "absolute path"

\* Default(): the values of an absent or empty file.
Default ==
    [listen |-> "loopback", shutdownTimeout |-> 10 * Second,
     dataDirectory |-> Absolute, sqlitePath |-> Absolute,
     runtimeType |-> "docker", dockerHost |-> "unix", defaultImage |-> "reference",
     runnerSocketDirectory |-> Absolute, workspaceDirectory |-> Absolute,
     networkMode |-> "none", workspacePersistent |-> FALSE,
     platform |-> "linux/amd64", prePull |-> <<>>,
     defaultTTL |-> 30 * Minute, minimumTTL |-> Minute, maximumTTL |-> Day,
     maxSandboxes |-> 100, concurrentCreates |-> 4, concurrentPulls |-> 2,
     concurrentDeletes |-> 4,
     cpu |-> 500, memory |-> 512, pids |-> 128,
     maxCPU |-> 4000, maxMemory |-> 8192, maxPIDs |-> 1024,
     executionUID |-> 1000, executionGID |-> 1000, defaultCWD |-> "/workspace",
     defaultTimeout |-> 10 * Minute, maxTimeout |-> Hour, terminationGrace |-> 2 * Second,
     concurrentExecutions |-> 8, requestBytes |-> 1048576, outputBytes |-> 10485760,
     envVars |-> 128, envKeyBytes |-> 128, envValueBytes |-> 8192,
     envTotalBytes |-> 65536, logPageEvents |-> 256, logPageBytes |-> 1048576,
     completedRetention |-> 3600, retainedExecutions |-> 100,
     sseWriteTimeout |-> 15 * Second,
     masterKeyFile |-> Absolute, allowOutbound |-> FALSE,
     egressImage |-> "", egressProtocol |-> 1, egressReady |-> 30 * Second,
     deniedCIDRs |-> "valid", anchorUID |-> 65532, anchorGID |-> 65532,
     egressCPU |-> 100, egressMemory |-> 64, egressPIDs |-> 16,
     interval |-> 10 * Second, jitter |-> 2 * Second, timeout |-> 2 * Minute,
     pageSize |-> 100, maxConcurrent |-> 8, retryMin |-> Second, retryMax |-> Minute,
     runningCheckInterval |-> 30 * Second, unhealthyThreshold |-> 3,
     dockerFreshness |-> 30 * Second, runnerReadyTimeout |-> 30 * Second,
     deletionTimeout |-> 30 * Second,
     keyBytes |-> 128, terminalRetention |-> DayInSeconds, gcInterval |-> 600,
     importTrustedOrphans |-> TRUE, recordAmbiguousAnomalies |-> TRUE,
     adminEnabled |-> FALSE, adminTokenFile |-> "",
     filesEnabled |-> TRUE, uploadBytes |-> 33554432, downloadBytes |-> 67108864,
     ptyEnabled |-> TRUE, ptySessions |-> 2, ptyTimeout |-> Hour,
     portProxyEnabled |-> TRUE, minPort |-> 1024, maxPort |-> 65535]

\* The fields a file may name: the structs of the configuration.
Fields == DOMAIN Default

\* A file is [fault, set]: the fields it sets, and whether it cannot be read, is not
\* strict YAML of one document, or holds a duration that does not parse.
FileFaults == {"none", "unreadable", "unknown field", "second document", "bad duration"}

\* The fields whose Go type is an integer or a duration; strict decoding puts nothing
\* else there.
NumberFields ==
    Fields \ {"listen", "dataDirectory", "sqlitePath", "runtimeType", "dockerHost",
              "defaultImage", "runnerSocketDirectory", "workspaceDirectory", "networkMode",
              "workspacePersistent", "platform", "prePull", "defaultCWD", "masterKeyFile",
              "allowOutbound", "egressImage", "deniedCIDRs", "importTrustedOrphans",
              "recordAmbiguousAnomalies", "adminEnabled", "adminTokenFile", "filesEnabled",
              "ptyEnabled", "portProxyEnabled"}

Decoded(file) == \A f \in DOMAIN file.set \cap NumberFields : file.set[f] \in Int

\* What a process without a configuration has, and a file that sets nothing.
NoConfig == [f \in {} |-> 0]

\* override: a field of the file replaces the default, every other one keeps it.
Overlay(base, set) == [f \in DOMAIN base |-> IF f \in DOMAIN set THEN set[f] ELSE base[f]]

\* Load: the first fault ends it; a file that sets nothing yields the defaults.
Load(file) ==
    IF file.fault # "none" THEN NoConfig ELSE Overlay(Default, file.set)

-----------------------------------------------------------------------------
(* Validate: every conjunct is one check of the code. *)

\* The largest value of a field, where Validate knows one.
Limit ==
    [maxTimeout |-> Day, terminationGrace |-> Minute, concurrentExecutions |-> 256,
     requestBytes |-> 16777216, outputBytes |-> 1073741824, envVars |-> 4096,
     envKeyBytes |-> 1024, envValueBytes |-> 1048576, envTotalBytes |-> 16777216,
     logPageEvents |-> 4096, logPageBytes |-> 67108864, completedRetention |-> 604800,
     retainedExecutions |-> 10000, sseWriteTimeout |-> Minute, egressReady |-> 2 * Minute,
     egressCPU |-> 1000, egressMemory |-> 512, egressPIDs |-> 64, maxSandboxes |-> 10000,
     concurrentOperations |-> 256, pageSize |-> 10000, maxConcurrent |-> 256,
     unhealthyThreshold |-> 100, keyBytes |-> 128, terminalRetention |-> 2592000]

Positive(v) == v > 0

\* The network listener, the directories and the runtime section.
ValidateHost(c) ==
    /\ c.listen = "loopback"
    /\ Positive(c.shutdownTimeout)
    /\ \A f \in {"dataDirectory", "sqlitePath", "runnerSocketDirectory",
                 "workspaceDirectory", "masterKeyFile"} : c[f] = Absolute
    /\ c.runtimeType = "docker" /\ c.dockerHost # "" /\ c.defaultImage = "reference"
    /\ c.networkMode = "none" /\ ~c.workspacePersistent /\ c.platform = "linux/amd64"
    /\ c.adminEnabled => c.adminTokenFile = Absolute

\* Leases, admission and resources.
ValidateLimits(c) ==
    /\ \A f \in {"minimumTTL", "defaultTTL", "maximumTTL"} : Positive(c[f])
    /\ c.minimumTTL <= c.defaultTTL /\ c.defaultTTL <= c.maximumTTL
    /\ c.maxSandboxes \in 1..Limit.maxSandboxes
    /\ \A f \in {"concurrentCreates", "concurrentPulls", "concurrentDeletes"} :
          c[f] \in 1..Limit.concurrentOperations
    /\ \A f \in {"maxCPU", "maxMemory", "maxPIDs"} : Positive(c[f])
    /\ c.cpu \in 1..c.maxCPU /\ c.memory \in 1..c.maxMemory /\ c.pids \in 1..c.maxPIDs

\* validateRunner.
ValidateRunner(c) ==
    /\ c.executionUID # 0 /\ c.executionGID # 0 /\ c.defaultCWD = "/workspace"
    /\ c.defaultTimeout \in Second..Limit.maxTimeout
    /\ c.maxTimeout \in Second..Limit.maxTimeout
    /\ c.defaultTimeout <= c.maxTimeout
    /\ c.terminationGrace \in 1..Limit.terminationGrace
    /\ c.concurrentExecutions \in 1..Limit.concurrentExecutions
    /\ c.requestBytes \in 1..Limit.requestBytes /\ c.outputBytes \in 1..Limit.outputBytes
    /\ c.envVars \in 1..Limit.envVars /\ c.envKeyBytes \in 1..Limit.envKeyBytes
    /\ c.envValueBytes \in 1..Limit.envValueBytes /\ c.envTotalBytes \in 1..Limit.envTotalBytes
    /\ c.envKeyBytes + c.envValueBytes <= c.envTotalBytes
    /\ c.envTotalBytes <= c.requestBytes
    /\ c.logPageEvents \in 1..Limit.logPageEvents /\ c.logPageBytes \in 1..Limit.logPageBytes
    /\ c.logPageBytes <= c.outputBytes
    /\ c.completedRetention \in 1..Limit.completedRetention
    /\ c.retainedExecutions \in 1..Limit.retainedExecutions
    /\ c.sseWriteTimeout \in 1..Limit.sseWriteTimeout

\* validateEgress: an image is a digest reference and is there when outbound is on.
ValidateEgress(c) ==
    /\ c.allowOutbound => c.egressImage # ""
    /\ c.egressImage \in {"", "digest"}
    /\ c.egressProtocol = 1
    /\ c.egressReady \in Second..Limit.egressReady
    /\ c.anchorUID # 0 /\ c.anchorGID # 0
    /\ c.deniedCIDRs = "valid"
    /\ c.egressCPU \in 1..Limit.egressCPU /\ c.egressMemory \in 1..Limit.egressMemory
    /\ c.egressPIDs \in 1..Limit.egressPIDs

\* Mutant: the two ends of the retry backoff are not compared.
ValidateReconcileUnordered(c) ==
    /\ \A f \in {"interval", "timeout", "retryMin", "retryMax", "runningCheckInterval",
                 "dockerFreshness", "runnerReadyTimeout", "deletionTimeout"} : Positive(c[f])
    /\ c.jitter \in 0..c.interval
    /\ c.pageSize \in 1..Limit.pageSize /\ c.maxConcurrent \in 1..Limit.maxConcurrent
    /\ c.unhealthyThreshold \in 1..Limit.unhealthyThreshold

\* validateReconcile.
ValidateReconcile(c) ==
    /\ \A f \in {"interval", "timeout", "retryMin", "retryMax", "runningCheckInterval",
                 "dockerFreshness", "runnerReadyTimeout", "deletionTimeout"} : Positive(c[f])
    /\ c.jitter \in 0..c.interval
    /\ c.retryMin <= c.retryMax
    /\ c.pageSize \in 1..Limit.pageSize /\ c.maxConcurrent \in 1..Limit.maxConcurrent
    /\ c.unhealthyThreshold \in 1..Limit.unhealthyThreshold

\* validateIdempotency.
ValidateIdempotency(c) ==
    /\ c.keyBytes \in 1..Limit.keyBytes
    /\ c.terminalRetention \in 1..Limit.terminalRetention
    /\ c.gcInterval \in 1..c.terminalRetention

\* validateFiles, validatePTY, validatePortProxy.
ValidateFeatures(c) ==
    /\ Positive(c.uploadBytes) /\ Positive(c.downloadBytes)
    /\ Positive(c.ptySessions) /\ Positive(c.ptyTimeout)
    /\ 1 <= c.minPort /\ c.minPort <= c.maxPort /\ c.maxPort <= 65535

\* validatePrePullImages: at most 16 entries, each for the platform of the runtime.
ValidatePrePull(c) ==
    /\ Len(c.prePull) <= 16
    /\ \A i \in DOMAIN c.prePull :
          c.prePull[i].image = "reference" /\ c.prePull[i].platform = c.platform

Validate(c) ==
    /\ ValidateHost(c) /\ ValidateLimits(c) /\ ValidateRunner(c) /\ ValidateEgress(c)
    /\ ValidateReconcile(c) /\ ValidateIdempotency(c) /\ ValidateFeatures(c)
    /\ ValidatePrePull(c)

-----------------------------------------------------------------------------
(* What the constructors of sandboxd demand once Validate has passed. *)

Smaller(a, b) == IF a < b THEN a ELSE b

\* openRuntime: the pull limiter, validateRuntimeOptions, and the Docker client, which takes
\* only a host that it can parse.
RuntimeAccepts(c) ==
    /\ c.dockerHost # "unparsable"
    /\ Positive(c.concurrentPulls) /\ c.dataDirectory = Absolute
    /\ c.allowOutbound =>
          /\ c.egressImage = "digest" /\ c.anchorUID # 0 /\ c.anchorGID # 0
          /\ Positive(c.egressReady) /\ c.egressReady <= 2 * Minute
          /\ Positive(c.egressCPU) /\ Positive(c.egressMemory) /\ Positive(c.egressPIDs)
          /\ c.deniedCIDRs = "valid"

\* recover: the coordinator, the lease recovery and the candidate sweeper.
RecoverAccepts(c) ==
    Positive(c.timeout) /\ c.pageSize >= 1 /\ Positive(c.runningCheckInterval)

\* startWorker: the client factory, the reconciler with its limiters, the pool.
WorkerAccepts(c) ==
    /\ Positive(c.runnerReadyTimeout) /\ Positive(c.retryMin) /\ c.retryMin <= c.retryMax
    /\ Positive(c.concurrentCreates) /\ Positive(c.concurrentDeletes)
    /\ Positive(c.maxConcurrent) /\ Positive(c.timeout)

\* NewScannerLoop: the jitter stays below the interval.
ScannerAccepts(c) == Positive(c.interval) /\ 0 <= c.jitter /\ c.jitter < c.interval

\* NewIdempotencyGC: nothing is forgotten before a day.
GCAccepts(c) == c.terminalRetention >= DayInSeconds /\ Positive(c.gcInterval) /\ c.pageSize >= 1

\* NewDependencyHealthMonitor: the probe timeout is half the freshness, at most 5 s.
HealthAccepts(c) ==
    LET probe == Smaller(5 * Second, c.dockerFreshness \div 2)
    IN  Positive(c.interval) /\ Positive(probe) /\ probe <= c.dockerFreshness

\* startMaintenance.
MaintenanceAccepts(c) ==
    RecoverAccepts(c) /\ ScannerAccepts(c) /\ GCAccepts(c) /\ HealthAccepts(c)

\* startHTTP: the client factory, the execution and the port proxy services.
HTTPAccepts(c) ==
    /\ Positive(c.runnerReadyTimeout) /\ Positive(c.logPageEvents)
    /\ c.portProxyEnabled => (1 <= c.minPort /\ c.minPort <= c.maxPort /\ c.maxPort <= 65535)

\* resolveCreateLease for a request without a TTL: whole seconds inside the policy.
DefaultLeaseAccepted(c) ==
    c.defaultTTL \in c.minimumTTL..c.maximumTTL /\ c.defaultTTL % Second = 0

-----------------------------------------------------------------------------
(* The copy for the runner of one sandbox. *)

\* The fields of the bootstrap file.
RunnerFields ==
    {"executionUID", "executionGID", "defaultTimeout", "maxTimeout", "terminationGrace",
     "concurrentExecutions", "requestBytes", "outputBytes", "envVars", "envKeyBytes",
     "envValueBytes", "envTotalBytes", "logPageEvents", "logPageBytes",
     "completedRetention", "retainedExecutions", "sseWriteTimeout", "defaultCWD",
     "filesEnabled", "uploadBytes", "downloadBytes", "ptyEnabled", "ptySessions",
     "ptyTimeout", "portProxyEnabled", "minPort", "maxPort"}

\* FromConfig: the configuration is validated again, and the execution identity differs
\* from the owner of the socket, the account sandboxd runs under.
FromConfigAccepts(c, owner) ==
    Validate(c) /\ c.executionUID # owner.uid /\ c.executionGID # owner.gid

FromConfig(c, owner) ==
    [f \in RunnerFields \cup {"protocolVersion", "socketOwnerUID", "socketOwnerGID"} |->
        CASE f = "protocolVersion" -> 1
          [] f = "socketOwnerUID" -> owner.uid
          [] f = "socketOwnerGID" -> owner.gid
          [] OTHER -> c[f]]

\* Config.validate, on both ends: Marshal before the file is written, Unmarshal in the
\* runner, which also demands that every field is there.
BootstrapValid(b) ==
    /\ b.protocolVersion = 1
    /\ b.executionUID # 0 /\ b.executionGID # 0
    /\ b.executionUID # b.socketOwnerUID /\ b.executionGID # b.socketOwnerGID
    /\ b.defaultCWD # ""
    /\ \A f \in {"defaultTimeout", "maxTimeout", "terminationGrace", "concurrentExecutions",
                 "requestBytes", "outputBytes", "envVars", "envKeyBytes", "envValueBytes",
                 "envTotalBytes", "logPageEvents", "logPageBytes", "completedRetention",
                 "retainedExecutions", "sseWriteTimeout"} : Positive(b[f])

\* ServeConfigured: what the constructors of the runner demand of it.
RunnerAccepts(b) ==
    /\ RunnerFields \subseteq DOMAIN b
    /\ Positive(b.concurrentExecutions)
    /\ Positive(b.completedRetention) /\ Positive(b.retainedExecutions)
    /\ Positive(b.logPageEvents) /\ b.logPageBytes >= 64
    /\ Positive(b.defaultTimeout) /\ b.defaultTimeout <= b.maxTimeout
    /\ Positive(b.requestBytes) /\ Positive(b.outputBytes) /\ Positive(b.terminationGrace)
    /\ Positive(b.sseWriteTimeout)
    /\ b.ptyEnabled => Positive(b.ptySessions)
    /\ b.portProxyEnabled => (1 <= b.minPort /\ b.minPort <= b.maxPort /\ b.maxPort <= 65535)
=============================================================================
