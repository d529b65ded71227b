---------------------------- MODULE StartupProofs ----------------------------
(***************************************************************************)
(* Proofs about the start, the life and the end of a sandboxd process, for *)
(* any files, databases and inventories it may find, any newest version of *)
(* the schema that has leases, and any number of restarts.                 *)
(*                                                                         *)
(* Four invariants that need little of each other: HostInv on who may run  *)
(* at which stage, ConfigInv on what Validate has established by the time  *)
(* a constructor asks for it, UpgradeInv on the transaction of the         *)
(* migrations, and NoticeInv on what Recover has written about the         *)
(* sandboxes that it has planned so far, as long as no statement has       *)
(* failed.                                                                 *)
(***************************************************************************)
EXTENDS Startup, FiniteSetTheorems, TLAPS

\* The stages in which the maintenance loops may run.
Late == {"http", "serving", "closing"}

\* What readiness rests on: who may still run at which stage, which of the bits can be
\* set while the process closes, and the gate that follows the bit of Docker, one
\* statement of the monitor behind.
HostInv ==
    /\ stop \in BOOLEAN /\ gate \in BOOLEAN /\ monitor \in {"idle", "open", "shut"}
    /\ "http" \in opened => pc \in {"serving", "closing"}
    /\ pc = "closing" /\ "http" \in opened => "worker" \notin ready
    /\ cancelled # {} => pc = "closing"
    /\ pc \in {"maintenance", "http", "serving"} /\ ~stop => "worker" \in live
    /\ pc \in {"http", "serving"} /\ ~stop => "maintenance" \in live
    /\ "maintenance" \in live => pc \in Late
    /\ ~gate => pc \in Late
    /\ monitor # "idle" => "maintenance" \in live
    /\ "docker" \in ready => monitor # "shut" /\ (gate \/ monitor = "open")
-----------------------------------------------------------------------------
(* What the steps leave alone. *)

\* A statement of Recover touches the table, the anomalies, the wake queue and the joined
\* failures.
LEMMA WrittenFrame ==
    ASSUME NEW next, NEW rows, NEW anomalies, NEW wake, Written(next, rows, anomalies, wake)
    PROVE  /\ pc' = next
           /\ UNCHANGED <<config, why, txn, world, host, stop, ready, health, provision, epoch>>
  BY DEF Written, data

\* And so does the whole plan.
LEMMA PlanFrame ==
    ASSUME PlanNext
    PROVE  /\ pc = "plans" /\ pc' \in {"plans", "recovered"}
           /\ UNCHANGED <<config, why, txn, world, host, stop, ready, health, provision, epoch>>
<1>1. CASE Proceed("recovered")
  BY <1>1 DEF Proceed, PlanNext, data, scan
<1>2. CASE \E id \in todo : ExecutePlan(id)
  <2>1. PICK id \in todo : ExecutePlan(id)
    BY <1>2
  <2>2. PICK next : next \in {"plans", "recovered"} /\ next = (IF todo = {id} THEN "recovered" ELSE "plans")
    OBVIOUS
  <2>3. \/ \E rows, anomalies, wake : Written(next, rows, anomalies, wake)
        \/ /\ pc' = next
           /\ UNCHANGED <<config, why, data, world, woken, host, stop, ready, health,
                          provision, epoch>>
    BY <2>1, <2>2 DEF ExecutePlan
  <2> QED
    BY <2>2, <2>3, WrittenFrame DEF PlanNext, data
<1> QED
  BY <1>1, <1>2 DEF PlanNext
-----------------------------------------------------------------------------
(* Readiness. *)

\* Every step keeps HostInv.
LEMMA HostKeeps == HostInv /\ [Next]_vars => HostInv'
<1> SUFFICES ASSUME HostInv, [Next]_vars PROVE HostInv'
  OBVIOUS
<1> USE DEF HostInv, Late, vars, config, data, scan, host, health, epoch
<1>u. ASSUME NEW reason, Unwind(reason), pc \notin {"serving", "closing"} PROVE HostInv'
  BY <1>u DEF Unwind
<1>p. ASSUME NEW next, Proceed(next), pc \notin Late, next \notin {"maintenance", "http", "serving", "closing"}
      PROVE HostInv'
  BY <1>p DEF Proceed
<1>1. CASE LoadConfig
  BY <1>1 DEF LoadConfig
<1>2. CASE ValidateConfig
  BY <1>2, <1>u, <1>p DEF ValidateConfig
<1>3. CASE Directories
  BY <1>3, <1>p DEF Directories
<1>4. CASE OpenStore
  BY <1>4 DEF OpenStore
<1>5. CASE ReadVersion
  BY <1>5, <1>u, <1>p DEF ReadVersion
<1>6. CASE Backup
  BY <1>6 DEF Backup
<1>7. CASE Begin
  BY <1>7 DEF Begin
<1>8. CASE Apply
  BY <1>8 DEF Apply
<1>9. CASE Commit
  BY <1>9 DEF Commit
<1>10. CASE StoreOpened
  BY <1>10 DEF StoreOpened, Mark
<1>11. CASE Artifacts
  BY <1>11 DEF Artifacts, Mark
<1>12. CASE OpenRuntime
  BY <1>12, <1>u DEF OpenRuntime
<1>13. CASE EnsureNetwork
  BY <1>13, <1>u DEF EnsureNetwork
<1>14. CASE Inventory
  BY <1>14 DEF Inventory
<1>15. CASE RecordUnscoped
  BY <1>15, WrittenFrame DEF RecordUnscoped
<1>16. CASE FinalizeAnomalyScan
  BY <1>16, WrittenFrame DEF FinalizeAnomalyScan
<1>17. CASE PlanNext
  BY <1>17, PlanFrame
<1>18. CASE Recovered
  BY <1>18, <1>u, <1>p DEF Recovered
<1>19. CASE RecoverTTL
  BY <1>19 DEF RecoverTTL
<1>20. CASE QueueDue
  BY <1>20 DEF QueueDue
<1>21. CASE StartWorker
  BY <1>21, <1>u DEF StartWorker
<1>22. CASE StartMaintenance
  BY <1>22, <1>u DEF StartMaintenance
<1>23. CASE StartHTTP
  BY <1>23, <1>u DEF StartHTTP
<1>24. CASE StageFails
  BY <1>24, <1>u DEF StageFails, Fallible
<1>25. CASE Shutdown
  BY <1>25 DEF Shutdown, MarkNotReady, Components
<1>26. CASE CloseBegin
  BY <1>26 DEF CloseBegin
<1>27. CASE CloseEnds
  BY <1>27 DEF CloseEnds
<1>28. CASE GraceEnds
  BY <1>28 DEF GraceEnds
<1>29. CASE Exit
  BY <1>29 DEF Exit, Gone
<1>30. CASE Signal
  BY <1>30 DEF Signal
<1>31. CASE Crash
  BY <1>31 DEF Crash, Gone
<1>32. CASE Restart
  BY <1>32 DEF Restart
<1>33. CASE RequestEnters
  BY <1>33 DEF RequestEnters
<1>34. CASE RequestLeaves
  BY <1>34 DEF RequestLeaves
<1>35. CASE PrePullEnds
  BY <1>35 DEF PrePullEnds
<1>36. CASE Provision
  BY <1>36 DEF Provision
<1>37. ASSUME NEW g \in {"worker", "maintenance"}, GroupLeaves(g) PROVE HostInv'
  BY <1>37 DEF GroupLeaves
<1>38. ASSUME NEW d \in Dependencies, ProbeOnce(d) PROVE HostInv'
  BY <1>38 DEF ProbeOnce, Dependencies
<1>39. CASE UNCHANGED vars
  BY <1>39
<1>40. CASE SetAvailable
  <2>1. /\ gate' = (monitor = "open") /\ monitor' = "idle" /\ "maintenance" \in live
        /\ UNCHANGED <<pc, opened, cancelled, live, stop, ready>> /\ monitor # "idle"
    BY <1>40 DEF SetAvailable
  <2>2. gate' \in BOOLEAN /\ pc' \in Late /\ monitor' = "idle"
    BY <2>1
  <2>3. "docker" \in ready' => gate'
    <3>1. "docker" \in ready => monitor = "open"
      BY <2>1
    <3>2. QED
      BY <3>1, <2>1, Zenon
  <2>4. QED
    BY <2>1, <2>2, <2>3
<1> QED
  BY <1>1, <1>2, <1>3, <1>4, <1>5, <1>6, <1>7, <1>8, <1>9, <1>10, <1>11, <1>12, <1>13, <1>14,
     <1>15, <1>16, <1>17, <1>18, <1>19, <1>20, <1>21, <1>22, <1>23, <1>24, <1>25, <1>26, <1>27,
     <1>28, <1>29, <1>30, <1>31, <1>32, <1>33, <1>34, <1>35, <1>36, <1>37, <1>38, <1>39,
     <1>40
     DEF Next, Boot, Close

\* A process that says over HTTP that it is ready serves, with the gate of its Docker calls
\* open or opened by the next statement of its monitor and, unless it was told to stop, its worker and its maintenance loops running, at
\* every stage of its start and of its end (Readiness, markNotReady, run, shutdownCoordinator).
THEOREM ReadyIsServing == Spec => []ReadyMeansServing
<1>1. Init => HostInv
  BY DEF Init, HostInv, Late
<1>2. HostInv => ReadyMeansServing
  BY DEF HostInv, ReadyMeansServing, Ready, Components
<1> QED
  BY <1>1, <1>2, HostKeeps, PTL DEF Spec
-----------------------------------------------------------------------------
(* The configuration. *)

\* What strict decoding says of the three numbers that Validate bounds on one side only.
Numbers(c) == c.interval \in Int /\ c.dockerFreshness \in Int /\ c.defaultTTL \in Int

\* Load puts numbers where the file has numbers or nothing.
LEMMA LoadedNumbers ==
    ASSUME NEW f, Decoded(f), Load(f) # NoConfig PROVE Numbers(Load(f))
<1>1. Load(f) = Overlay(Default, f.set)
  BY DEF Load
<1>2. {"interval", "dockerFreshness", "defaultTTL"} \subseteq DOMAIN Default
  BY DEF Default
<1>3. Default.interval \in Int /\ Default.dockerFreshness \in Int /\ Default.defaultTTL \in Int
  BY DEF Default, Minute, Second
<1>4. \A x \in {"interval", "dockerFreshness", "defaultTTL"} \cap DOMAIN f.set : f.set[x] \in Int
  BY <1>2 DEF Decoded, NumberFields, Fields
<1> QED
  BY <1>1, <1>2, <1>3, <1>4 DEF Overlay, Numbers

\* openRuntime demands nothing that Validate has not checked, but a host that can be parsed.
LEMMA RuntimeConstructor ==
    ASSUME NEW c, Validate(c) PROVE RuntimeAccepts(c) \/ c.dockerHost = "unparsable"
<1>1. PICK pulls, within, cpu, memory, pids :
         /\ pulls = c.concurrentPulls /\ within = c.egressReady /\ cpu = c.egressCPU
         /\ memory = c.egressMemory /\ pids = c.egressPIDs
  OBVIOUS
<1>2. pulls \in 1..Limit.concurrentOperations
  BY <1>1 DEF Validate, ValidateLimits
<1>3. /\ within \in Second..Limit.egressReady
      /\ cpu \in 1..Limit.egressCPU /\ memory \in 1..Limit.egressMemory
      /\ pids \in 1..Limit.egressPIDs
  BY <1>1 DEF Validate, ValidateEgress
<1>4. Limit.egressReady = 2 * Minute
  BY DEF Limit
<1>5. Positive(within) /\ within <= 2 * Minute
  BY <1>3, <1>4 DEF Positive, Second, Minute
<1>6. Positive(pulls) /\ Positive(cpu) /\ Positive(memory) /\ Positive(pids)
  BY <1>2, <1>3 DEF Positive
<1>7. /\ c.dataDirectory = Absolute
      /\ c.allowOutbound => c.egressImage = "digest"
      /\ c.anchorUID # 0 /\ c.anchorGID # 0 /\ c.deniedCIDRs = "valid"
  BY DEF Validate, ValidateHost, ValidateEgress
<1> QED
  BY <1>1, <1>5, <1>6, <1>7 DEF RuntimeAccepts

\* Nor do the constructors of recover.
LEMMA RecoverConstructors == ASSUME NEW c, Validate(c) PROVE RecoverAccepts(c)
<1>1. PICK page : page = c.pageSize
  OBVIOUS
<1>2. Positive(c.timeout) /\ Positive(c.runningCheckInterval) /\ page \in 1..Limit.pageSize
  BY <1>1 DEF Validate, ValidateReconcile
<1>3. page >= 1
  BY <1>2
<1> QED
  BY <1>1, <1>2, <1>3 DEF RecoverAccepts

\* Nor do those of the worker.
LEMMA WorkerConstructors == ASSUME NEW c, Validate(c) PROVE WorkerAccepts(c)
<1>1. PICK creates, deletes, at :
         creates = c.concurrentCreates /\ deletes = c.concurrentDeletes /\ at = c.maxConcurrent
  OBVIOUS
<1>2. creates \in 1..Limit.concurrentOperations /\ deletes \in 1..Limit.concurrentOperations
  BY <1>1 DEF Validate, ValidateLimits
<1>3. /\ at \in 1..Limit.maxConcurrent /\ Positive(c.runnerReadyTimeout) /\ Positive(c.timeout)
      /\ Positive(c.retryMin) /\ c.retryMin <= c.retryMax
  BY <1>1 DEF Validate, ValidateReconcile
<1>4. Positive(creates) /\ Positive(deletes) /\ Positive(at)
  BY <1>2, <1>3 DEF Positive
<1> QED
  BY <1>1, <1>3, <1>4 DEF WorkerAccepts

\* Nor does the HTTP server.
LEMMA HTTPConstructors == ASSUME NEW c, Validate(c) PROVE HTTPAccepts(c)
<1>1. PICK page : page = c.logPageEvents
  OBVIOUS
<1>2. page \in 1..Limit.logPageEvents
  BY <1>1 DEF Validate, ValidateRunner
<1>3. Positive(page)
  BY <1>2 DEF Positive
<1>4. Positive(c.runnerReadyTimeout)
  BY DEF Validate, ValidateReconcile
<1>5. 1 <= c.minPort /\ c.minPort <= c.maxPort /\ c.maxPort <= 65535
  BY SMT DEF Validate, ValidateFeatures
<1> QED
  BY SMT, <1>1, <1>3, <1>4, <1>5 DEF HTTPAccepts

\* The maintenance loops demand more, of three values.
LEMMA MaintenanceConstructors ==
    ASSUME NEW c, Validate(c), Numbers(c)
    PROVE  \/ MaintenanceAccepts(c) \/ c.jitter = c.interval \/ c.terminalRetention < DayInSeconds
           \/ c.dockerFreshness < 2
<1>1. Positive(c.interval)
  BY DEF Validate, ValidateReconcile
<1>2. ScannerAccepts(c) \/ c.jitter = c.interval
  <2>1. PICK interval, jitter : interval = c.interval /\ jitter = c.jitter
    OBVIOUS
  <2>2. interval \in Int
    BY <2>1 DEF Numbers
  <2>3. jitter \in 0..interval
    BY <2>1 DEF Validate, ValidateReconcile
  <2>4. jitter \in Int /\ 0 <= jitter /\ jitter <= interval
    BY <2>2, <2>3
  <2>5. jitter = interval \/ jitter < interval
    BY <2>2, <2>4
  <2> QED
    BY <1>1, <2>1, <2>4, <2>5 DEF ScannerAccepts
<1>3. RecoverAccepts(c)
  BY RecoverConstructors
<1>4. GCAccepts(c) \/ c.terminalRetention < DayInSeconds
  <2>1. PICK kept, longest, sweep :
           kept = c.terminalRetention /\ longest = Limit.terminalRetention /\ sweep = c.gcInterval
    OBVIOUS
  <2>2. kept \in 1..longest /\ sweep \in 1..kept
    BY SMT, <2>1 DEF Validate, ValidateIdempotency
  <2>3. kept < DayInSeconds \/ kept >= DayInSeconds
    BY SMT, <2>2 DEF DayInSeconds
  <2>4. Positive(sweep)
    BY SMT, <2>2 DEF Positive
  <2>5. c.pageSize >= 1
    BY <1>3 DEF RecoverAccepts
  <2> QED
    BY SMT, <2>1, <2>3, <2>4, <2>5 DEF GCAccepts
<1>5. HealthAccepts(c) \/ c.dockerFreshness < 2
  <2>1. PICK freshness \in Int : freshness = c.dockerFreshness
    BY DEF Numbers
  <2>2. PICK half : half = freshness \div 2
    OBVIOUS
  <2>3. half \in Int /\ (freshness < 2 \/ (half > 0 /\ half <= freshness))
    BY <2>2
  <2>4. PICK probe : probe = Smaller(5 * Second, half)
    OBVIOUS
  <2>5. freshness < 2 \/ (probe > 0 /\ probe <= freshness)
    BY SMT, <2>3, <2>4 DEF Smaller, Second
  <2> QED
    BY SMT, <1>1, <2>1, <2>2, <2>4, <2>5 DEF HealthAccepts, Positive
<1> QED
  BY SMT, <1>2, <1>3, <1>4, <1>5 DEF MaintenanceAccepts

\* The default lease of a valid configuration lies inside the policy.
LEMMA DefaultLease ==
    ASSUME NEW c, Validate(c), Numbers(c)
    PROVE  DefaultLeaseAccepted(c) \/ c.defaultTTL % Second # 0
<1>1. PICK ttl, least, most : ttl = c.defaultTTL /\ least = c.minimumTTL /\ most = c.maximumTTL
  OBVIOUS
<1>2. ttl \in Int
  BY <1>1 DEF Numbers
<1>3. least <= ttl /\ ttl <= most
  BY <1>1 DEF Validate, ValidateLimits
<1>4. ttl \in least..most
  BY <1>2, <1>3
<1> QED
  BY <1>1, <1>4 DEF DefaultLeaseAccepted

\* The bootstrap file of a sandbox holds what was validated, and the account of sandboxd.
LEMMA BootstrapCopies ==
    ASSUME NEW c
    PROVE  /\ RunnerFields \subseteq DOMAIN FromConfig(c, Owner)
           /\ \A f \in RunnerFields : FromConfig(c, Owner)[f] = c[f]
           /\ FromConfig(c, Owner).protocolVersion = 1
           /\ FromConfig(c, Owner).socketOwnerUID = Owner.uid
           /\ FromConfig(c, Owner).socketOwnerGID = Owner.gid
  BY SMT DEF FromConfig, RunnerFields

\* The numbers of the runner's section that Validate bounds.
RunnerNumbers ==
    {"defaultTimeout", "maxTimeout", "terminationGrace", "concurrentExecutions",
     "requestBytes", "outputBytes", "envVars", "envKeyBytes", "envValueBytes",
     "envTotalBytes", "logPageEvents", "logPageBytes", "completedRetention",
     "retainedExecutions", "sseWriteTimeout"}

\* They are positive.
LEMMA RunnerPositive == ASSUME NEW c, Validate(c), NEW f \in RunnerNumbers PROVE Positive(c[f])
<1>1. PICK n : n = c[f]
  OBVIOUS
<1>2. \E b : n \in 1..b \/ n \in Second..b
  BY SMT, <1>1 DEF Validate, ValidateRunner, RunnerNumbers
<1>3. Positive(n)
  BY <1>2 DEF Positive, Second
<1> QED
  BY <1>1, <1>3

\* Marshal refuses nothing that FromConfig has accepted, and the runner only a log page of
\* less than 64 bytes.
LEMMA RunnerConstructors ==
    ASSUME NEW c, Validate(c)
    PROVE  /\ FromConfigAccepts(c, Owner) => BootstrapValid(FromConfig(c, Owner))
           /\ RunnerAccepts(FromConfig(c, Owner)) \/ c.logPageBytes < 64
<1>1. PICK b : b = FromConfig(c, Owner)
  OBVIOUS
<1>2. /\ RunnerFields \subseteq DOMAIN b /\ \A f \in RunnerFields : b[f] = c[f]
      /\ b.protocolVersion = 1 /\ b.socketOwnerUID = Owner.uid /\ b.socketOwnerGID = Owner.gid
  BY <1>1, BootstrapCopies
<1>3. RunnerNumbers \subseteq RunnerFields
  BY DEF RunnerNumbers, RunnerFields
<1>4. \A f \in RunnerNumbers : Positive(b[f])
  BY <1>2, <1>3, RunnerPositive
<1>5. /\ b.executionUID = c.executionUID /\ b.executionGID = c.executionGID
      /\ b.defaultCWD = c.defaultCWD /\ b.logPageBytes = c.logPageBytes
      /\ b.defaultTimeout = c.defaultTimeout /\ b.maxTimeout = c.maxTimeout
      /\ b.ptySessions = c.ptySessions /\ b.minPort = c.minPort /\ b.maxPort = c.maxPort
  BY <1>2 DEF RunnerFields
<1>6. FromConfigAccepts(c, Owner) => BootstrapValid(b)
  <2>1. c.executionUID # 0 /\ c.executionGID # 0 /\ c.defaultCWD # ""
    BY SMT DEF Validate, ValidateRunner
  <2>2. FromConfigAccepts(c, Owner) =>
           c.executionUID # Owner.uid /\ c.executionGID # Owner.gid
    BY DEF FromConfigAccepts
  <2>3. b.executionUID # 0 /\ b.executionGID # 0 /\ b.defaultCWD # ""
    BY <1>5, <2>1
  <2>4. FromConfigAccepts(c, Owner) =>
           b.executionUID # b.socketOwnerUID /\ b.executionGID # b.socketOwnerGID
    BY <1>2, <1>5, <2>2
  <2> QED
    BY Zenon, <1>2, <1>4, <2>3, <2>4 DEF BootstrapValid, RunnerNumbers
<1>7. RunnerAccepts(b) \/ c.logPageBytes < 64
  <2>1. PICK page : page = c.logPageBytes
    OBVIOUS
  <2>2. page \in 1..Limit.logPageBytes /\ c.defaultTimeout <= c.maxTimeout
    BY SMT, <2>1 DEF Validate, ValidateRunner
  <2>3. page < 64 \/ page >= 64
    BY <2>2
  <2>4. /\ Positive(c.ptySessions)
        /\ 1 <= c.minPort /\ c.minPort <= c.maxPort /\ c.maxPort <= 65535
    BY SMT DEF Validate, ValidateFeatures
  <2> QED
    BY SMT, <1>2, <1>4, <1>5, <2>1, <2>2, <2>3, <2>4 DEF RunnerAccepts, RunnerNumbers
<1> QED
  BY <1>1, <1>6, <1>7

\* The values no check of Validate compares.
OddMaintenance(c) ==
    \/ c.jitter = c.interval \/ c.terminalRetention < DayInSeconds \/ c.dockerFreshness < 2
\* A host that the Docker client cannot parse.
OddHost(c) == c.dockerHost = "unparsable"
\* A default lease that is not whole seconds.
OddLease(c) == c.defaultTTL % Second # 0
\* A runner's account that is sandboxd's own.
OddIdentity(c) == c.executionUID = Owner.uid \/ c.executionGID = Owner.gid
\* A log page that holds no event.
OddPage(c) == c.logPageBytes < 64

\* From the stage after Validate on the process holds the configuration it validated, and
\* only a constructor gives "configuration" as the reason to close.
ConfigInv ==
    /\ Decoded(file)
    /\ pc \notin {"load", "closing", "exited"} => cfg # NoConfig /\ cfg = Load(file)
    /\ pc \notin {"load", "validate", "closing", "exited"} => Validate(cfg)
    /\ pc \notin {"closing", "exited"} => why # "configuration"
    /\ pc # "serving" => provision = "none"
    /\ why = "configuration" /\ cfg # NoConfig => OddMaintenance(cfg) \/ OddHost(cfg)
    /\ provision = "lease refused" => OddLease(cfg)
    /\ provision = "stage refused" => OddIdentity(cfg)
    /\ provision = "runner refused" => OddPage(cfg)

\* What a process past Validate may rely on.
LEMMA ValidatedAccepts ==
    ASSUME ConfigInv, pc \notin {"load", "validate", "closing", "exited"}
    PROVE  /\ RuntimeAccepts(cfg) \/ OddHost(cfg)
           /\ RecoverAccepts(cfg) /\ WorkerAccepts(cfg) /\ HTTPAccepts(cfg)
           /\ MaintenanceAccepts(cfg) \/ OddMaintenance(cfg)
           /\ DefaultLeaseAccepted(cfg) \/ OddLease(cfg)
           /\ FromConfigAccepts(cfg, Owner) \/ OddIdentity(cfg)
           /\ FromConfigAccepts(cfg, Owner) => BootstrapValid(FromConfig(cfg, Owner))
           /\ RunnerAccepts(FromConfig(cfg, Owner)) \/ OddPage(cfg)
<1>1. Validate(cfg)
  BY DEF ConfigInv
<1>2. Numbers(cfg)
  BY LoadedNumbers DEF ConfigInv
<1>3. /\ RuntimeAccepts(cfg) \/ OddHost(cfg)
      /\ RecoverAccepts(cfg) /\ WorkerAccepts(cfg) /\ HTTPAccepts(cfg)
  BY <1>1, RuntimeConstructor, RecoverConstructors, WorkerConstructors, HTTPConstructors
     DEF OddHost
<1>4. MaintenanceAccepts(cfg) \/ OddMaintenance(cfg)
  BY <1>1, <1>2, MaintenanceConstructors, SMT DEF OddMaintenance
<1>5. DefaultLeaseAccepted(cfg) \/ OddLease(cfg)
  BY <1>1, <1>2, DefaultLease DEF OddLease
<1>6. FromConfigAccepts(cfg, Owner) \/ OddIdentity(cfg)
  BY <1>1 DEF FromConfigAccepts, OddIdentity
<1>7. /\ FromConfigAccepts(cfg, Owner) => BootstrapValid(FromConfig(cfg, Owner))
      /\ RunnerAccepts(FromConfig(cfg, Owner)) \/ OddPage(cfg)
  BY <1>1, RunnerConstructors DEF OddPage
<1> QED
  BY <1>3, <1>4, <1>5, <1>6, <1>7

\* Every step keeps ConfigInv.
LEMMA ConfigKeeps == ConfigInv /\ [Next]_vars => ConfigInv'
<1> SUFFICES ASSUME ConfigInv, [Next]_vars PROVE ConfigInv'
  OBVIOUS
<1> USE DEF vars, config, data, scan, host, health, epoch
<1>u. ASSUME NEW reason, Unwind(reason), pc # "serving",
             reason # "configuration" \/ OddMaintenance(cfg) \/ OddHost(cfg)
      PROVE  ConfigInv'
  BY <1>u DEF Unwind, ConfigInv
<1>q. ASSUME UNCHANGED <<config, why, provision>>, pc \notin {"load", "validate", "closing", "exited"},
             pc' \notin {"load", "validate", "closing", "exited"}, pc # "serving"
      PROVE  ConfigInv'
  BY <1>q DEF ConfigInv
<1>s. ASSUME UNCHANGED <<config, why, provision, pc>> PROVE ConfigInv'
  BY <1>s DEF ConfigInv
<1>1. CASE LoadConfig
  BY <1>1 DEF LoadConfig, ConfigInv
<1>2. CASE ValidateConfig
  BY <1>2, <1>u DEF ValidateConfig, Proceed, ConfigInv
<1>3. CASE Directories
  BY <1>3, <1>q DEF Directories, Proceed
<1>4. CASE OpenStore
  BY <1>4, <1>q DEF OpenStore
<1>5. CASE ReadVersion
  BY <1>5, <1>u, <1>q DEF ReadVersion, Proceed
<1>6. CASE Backup
  BY <1>6, <1>q DEF Backup
<1>7. CASE Begin
  BY <1>7, <1>q DEF Begin
<1>8. CASE Apply
  BY <1>8, <1>q DEF Apply
<1>9. CASE Commit
  BY <1>9, <1>q DEF Commit
<1>10. CASE StoreOpened
  BY <1>10, <1>q DEF StoreOpened, Mark
<1>11. CASE Artifacts
  BY <1>11, <1>q DEF Artifacts, Mark
<1>12. CASE OpenRuntime
  BY <1>12, <1>q, <1>u, ValidatedAccepts DEF OpenRuntime
<1>13. CASE EnsureNetwork
  BY <1>13, <1>q, ValidatedAccepts DEF EnsureNetwork
<1>14. CASE Inventory
  BY <1>14, <1>q DEF Inventory
<1>15. CASE RecordUnscoped
  BY <1>15, <1>q, WrittenFrame DEF RecordUnscoped
<1>16. CASE FinalizeAnomalyScan
  BY <1>16, <1>q, WrittenFrame DEF FinalizeAnomalyScan
<1>17. CASE PlanNext
  BY <1>17, <1>q, PlanFrame
<1>18. CASE Recovered
  BY <1>18, <1>u, <1>q DEF Recovered, Proceed
<1>19. CASE RecoverTTL
  BY <1>19, <1>q DEF RecoverTTL
<1>20. CASE QueueDue
  BY <1>20, <1>q DEF QueueDue
<1>21. CASE StartWorker
  BY <1>21, <1>q, ValidatedAccepts DEF StartWorker
<1>22. CASE StartMaintenance
  BY <1>22, <1>u, <1>q, ValidatedAccepts DEF StartMaintenance
<1>23. CASE StartHTTP
  BY <1>23, <1>q, ValidatedAccepts DEF StartHTTP
<1>24. CASE StageFails
  BY <1>24, <1>u DEF StageFails, Fallible
<1>25. CASE Shutdown
  BY <1>25 DEF Shutdown, ConfigInv
<1>26. CASE CloseBegin \/ CloseEnds \/ GraceEnds \/ Signal
  BY <1>26, <1>s DEF CloseBegin, CloseEnds, GraceEnds, Signal
<1>27. CASE Exit
  BY <1>27 DEF Exit, Gone, ConfigInv
<1>28. CASE Crash
  BY <1>28 DEF Crash, Gone, ConfigInv
<1>29. CASE Restart
  BY <1>29 DEF Restart, ConfigInv
<1>30. CASE RequestEnters \/ RequestLeaves \/ PrePullEnds
  BY <1>30, <1>s DEF RequestEnters, RequestLeaves, PrePullEnds
<1>31. CASE Provision
  BY <1>31, ValidatedAccepts DEF Provision, ConfigInv
<1>32. ASSUME NEW g \in {"worker", "maintenance"}, GroupLeaves(g) PROVE ConfigInv'
  BY <1>32, <1>s DEF GroupLeaves
<1>33. ASSUME NEW d \in Dependencies, ProbeOnce(d) PROVE ConfigInv'
  BY <1>33, <1>s DEF ProbeOnce
<1>34. CASE UNCHANGED vars
  BY <1>34, <1>s
<1>35. CASE SetAvailable
  BY <1>35, <1>s DEF SetAvailable
<1> QED
  BY <1>1, <1>2, <1>3, <1>4, <1>5, <1>6, <1>7, <1>8, <1>9, <1>10, <1>11, <1>12, <1>13, <1>14,
     <1>15, <1>16, <1>17, <1>18, <1>19, <1>20, <1>21, <1>22, <1>23, <1>24, <1>25, <1>26, <1>27,
     <1>28, <1>29, <1>30, <1>31, <1>32, <1>33, <1>34, <1>35
     DEF Next, Boot, Close

\* Validate is the one gate: a process that a constructor ends for its configuration, and a
\* first sandbox that is refused, have one of the seven values Validate does not look into.
THEOREM LateRefusalsAreKnown == Spec => []LateRefusalIsKnown
<1>1. Init => ConfigInv
  BY StartupAssumption DEF Init, ConfigInv
<1>2. ConfigInv => LateRefusalIsKnown
  BY DEF ConfigInv, LateRefusalIsKnown, OddMaintenance, OddHost, OddLease, OddIdentity, OddPage
<1> QED
  BY <1>1, <1>2, ConfigKeeps, PTL DEF Spec
-----------------------------------------------------------------------------
(* The migrations. *)

\* A row without its lease.
Unleased(row) == [row EXCEPT !.lease = NoLease]

\* The version that the migration leaves is in the backups, unless there was nothing yet.
BackedUp == db.version > 0 => db.version \in db.backups

\* The user wants the sandbox, and it is not gone.
Wanted(row) == row.desired = "Running" /\ row.observed # "Terminated"

\* The open transaction holds every row of the table, changed in its lease only; past the
\* migration that introduced the lease no wanted sandbox of an older table is due.
Carried ==
    /\ DOMAIN txn.rows = DOMAIN db.rows
    /\ \A id \in DOMAIN db.rows :
          /\ DOMAIN txn.rows[id] = RowFields
          /\ Unleased(txn.rows[id]) = Unleased(db.rows[id])
          /\ db.version < 2 /\ txn.version >= 2 /\ Wanted(db.rows[id]) => txn.rows[id].lease > now

\* Between the backup and the commit the table is as it was, its version is backed up, and the
\* transaction carries every row.
UpgradeInv ==
    /\ IsDatabase(db) /\ now \in Nat
    /\ pc = "backup" => db.version > 0 /\ db.version < Latest
    /\ pc = "begin" => db.version < Latest /\ BackedUp
    /\ pc \in {"apply", "commit"} =>
          BackedUp /\ txn.version \in Nat /\ db.version <= txn.version /\ Carried
    /\ pc = "apply" => txn.version < Latest
    /\ pc = "commit" => txn.version = Latest

\* The step of UpgradeIsSafe.
SafeStep ==
    db'.version # db.version =>
       /\ db'.version = Latest
       /\ db.version > 0 => db.version \in db.backups
       /\ DOMAIN db'.rows = DOMAIN db.rows
       /\ \A id \in DOMAIN db.rows :
             /\ Unleased(db'.rows[id]) = Unleased(db.rows[id])
             /\ (db.version < 2 /\ db.rows[id].desired = "Running"
                   /\ db.rows[id].observed # "Terminated") => db'.rows[id].lease > now

\* Only the lease of a row depends on its lease.
LEMMA LeaseApart ==
    ASSUME NEW row, DOMAIN row = RowFields, NEW lease
    PROVE  /\ DOMAIN [row EXCEPT !.lease = lease] = RowFields
           /\ Unleased([row EXCEPT !.lease = lease]) = Unleased(row)
           /\ [row EXCEPT !.lease = lease].lease = lease
  BY DEF Unleased, RowFields

\* Rows that differ in the lease only are in the same state.
LEMMA SameApart ==
    ASSUME NEW a, NEW b, DOMAIN a = RowFields, DOMAIN b = RowFields, Unleased(a) = Unleased(b)
    PROVE  a.desired = b.desired /\ a.observed = b.observed
<1>1. /\ Unleased(a).desired = a.desired /\ Unleased(a).observed = a.observed
      /\ Unleased(b).desired = b.desired /\ Unleased(b).observed = b.observed
  BY DEF Unleased, RowFields
<1> QED
  BY <1>1

\* What one migration does to the rows.
LEMMA UpgradeRows ==
    ASSUME NEW version, NEW rows, NEW at \in Nat,
           \A id \in DOMAIN rows : DOMAIN rows[id] = RowFields
    PROVE  /\ DOMAIN Upgrade(version, rows, at) = DOMAIN rows
           /\ \A id \in DOMAIN rows :
                 /\ DOMAIN Upgrade(version, rows, at)[id] = RowFields
                 /\ Unleased(Upgrade(version, rows, at)[id]) = Unleased(rows[id])
                 /\ version = 2 /\ Wanted(rows[id]) => Upgrade(version, rows, at)[id].lease > at
                 /\ version # 2 => Upgrade(version, rows, at)[id] = rows[id]
<1>1. CASE version # 2
  BY <1>1 DEF Upgrade
<1>2. CASE version = 2
  <2>1. PICK up : up = Upgrade(version, rows, at)
    OBVIOUS
  <2>2. DOMAIN up = DOMAIN rows /\ \A id \in DOMAIN rows : up[id] = Backfill(rows[id], at)
    BY <1>2, <2>1 DEF Upgrade
  <2>3. ASSUME NEW id \in DOMAIN rows
        PROVE  /\ DOMAIN up[id] = RowFields /\ Unleased(up[id]) = Unleased(rows[id])
               /\ Wanted(rows[id]) => up[id].lease > at
    <3>1. PICK lease : /\ up[id] = [rows[id] EXCEPT !.lease = lease]
                       /\ Wanted(rows[id]) => lease = at + MigrationTTL
      BY <2>2, Zenon DEF Backfill, Wanted
    <3>2. at + MigrationTTL > at
      BY StartupAssumption
    <3> QED
      BY <3>1, <3>2, LeaseApart
  <2> QED
    BY <1>2, <2>1, <2>2, <2>3
<1> QED
  BY <1>1, <1>2

\* Recover keeps the shape of the table and its version.
LEMMA WrittenTable ==
    ASSUME IsDatabase(db), NEW next, NEW rows, NEW anomalies, NEW wake,
           Written(next, rows, anomalies, wake),
           \A id \in DOMAIN rows : DOMAIN rows[id] = RowFields
    PROVE  IsDatabase(db') /\ db'.version = db.version
<1>1. CASE db' = db
  BY <1>1
<1>2. CASE db' = [db EXCEPT !.rows = rows, !.anomalies = anomalies]
  BY <1>2 DEF IsDatabase, DatabaseFields
<1> QED
  BY <1>1, <1>2 DEF Written, data

\* So does a whole plan.
LEMMA PlanTable ==
    ASSUME IsDatabase(db), PlanNext PROVE IsDatabase(db') /\ db'.version = db.version
<1>1. CASE Proceed("recovered")
  BY <1>1 DEF Proceed, data
<1>2. CASE \E id \in todo : ExecutePlan(id)
  <2>1. PICK id \in todo : ExecutePlan(id)
    BY <1>2
  <2>2. \A i \in DOMAIN db.rows : DOMAIN db.rows[i] = RowFields
    BY DEF IsDatabase
  <2>3. \/ \E next, anomalies, wake : Written(next, db.rows, anomalies, wake)
        \/ \E next, anomalies, wake, name :
              Written(next, [db.rows EXCEPT ![id].runtime = name], anomalies, wake)
        \/ \E next, anomalies, wake, a :
              Written(next, SetRow(db.rows, id, ImportedRow(a, now)), anomalies, wake)
        \/ UNCHANGED data
    BY <2>1, Zenon DEF ExecutePlan
  <2>4. \A name : \A i \in DOMAIN [db.rows EXCEPT ![id].runtime = name] :
           DOMAIN [db.rows EXCEPT ![id].runtime = name][i] = RowFields
    BY <2>2
  <2>5. \A a : DOMAIN ImportedRow(a, now) = RowFields
    BY DEF ImportedRow, RowFields
  <2>6. \A row : DOMAIN row = RowFields =>
           \A i \in DOMAIN SetRow(db.rows, id, row) : DOMAIN SetRow(db.rows, id, row)[i] = RowFields
    BY <2>2 DEF SetRow
  <2>7. CASE \E next, anomalies, wake : Written(next, db.rows, anomalies, wake)
    BY <2>7, <2>2, WrittenTable
  <2>8. CASE \E next, anomalies, wake, name :
                Written(next, [db.rows EXCEPT ![id].runtime = name], anomalies, wake)
    BY <2>8, <2>4, WrittenTable
  <2>9. CASE \E next, anomalies, wake, a :
                Written(next, SetRow(db.rows, id, ImportedRow(a, now)), anomalies, wake)
    BY <2>9, <2>5, <2>6, WrittenTable
  <2>10. CASE UNCHANGED data
    BY <2>10 DEF data
  <2> QED
    BY <2>3, <2>7, <2>8, <2>9, <2>10
<1> QED
  BY <1>1, <1>2 DEF PlanNext

\* And so does the end of the leases that are due.
LEMMA ExpireTable ==
    ASSUME IsDatabase(db), db' = [db EXCEPT !.rows = ExpireDue(@)]
    PROVE  IsDatabase(db') /\ db'.version = db.version
<1>1. \A id \in DOMAIN ExpireDue(db.rows) : DOMAIN ExpireDue(db.rows)[id] = RowFields
  BY DEF ExpireDue, IsDatabase
<1> QED
  BY <1>1 DEF IsDatabase, DatabaseFields

\* Every step keeps UpgradeInv, and one that changes the version is safe.
LEMMA UpgradeKeeps == UpgradeInv /\ [Next]_vars => UpgradeInv' /\ SafeStep
<1> SUFFICES ASSUME UpgradeInv, [Next]_vars PROVE UpgradeInv' /\ SafeStep
  OBVIOUS
<1> DEFINE Migrating == {"backup", "begin", "apply", "commit"}
<1> USE DEF vars, config, data, scan, host, health, epoch
<1>q. ASSUME UNCHANGED <<db, now>>, pc' \notin Migrating PROVE UpgradeInv' /\ SafeStep
  BY <1>q DEF UpgradeInv, SafeStep
<1>s. ASSUME UNCHANGED <<db, txn, pc, now>> PROVE UpgradeInv' /\ SafeStep
  BY <1>s DEF UpgradeInv, SafeStep, BackedUp, Carried
<1>t. ASSUME IsDatabase(db'), db'.version = db.version, UNCHANGED now, pc' \notin Migrating
      PROVE  UpgradeInv' /\ SafeStep
  BY <1>t DEF UpgradeInv, SafeStep
<1>u. ASSUME NEW reason, Unwind(reason) PROVE UpgradeInv' /\ SafeStep
  BY <1>u, <1>q DEF Unwind
<1>1. CASE LoadConfig
  BY <1>1, <1>q DEF LoadConfig
<1>2. CASE ValidateConfig
  BY <1>2, <1>q, <1>u DEF ValidateConfig, Proceed
<1>3. CASE Directories
  BY <1>3, <1>q DEF Directories, Proceed
<1>4. CASE OpenStore
  BY <1>4, <1>q DEF OpenStore
<1>5. CASE ReadVersion
  <2>1. db.version \in Nat /\ Latest \in Nat
    BY StartupAssumption DEF UpgradeInv, IsDatabase
  <2>2. CASE Unwind("schema")
    BY <2>2, <1>u
  <2>3. CASE Proceed("opened")
    BY <2>3, <1>q DEF Proceed
  <2>4. CASE Proceed("backup") /\ db.version > 0 /\ db.version < Latest
    BY <2>4 DEF Proceed, UpgradeInv, SafeStep
  <2>5. CASE Proceed("begin") /\ ~(db.version > 0) /\ db.version < Latest
    BY <2>5 DEF Proceed, UpgradeInv, SafeStep, BackedUp
  <2> QED
    BY <1>5, <2>1, <2>2, <2>3, <2>4, <2>5 DEF ReadVersion
<1>6. CASE Backup
  <2>1. /\ db' = [db EXCEPT !.backups = @ \cup {db.version}] /\ pc' = "begin" /\ pc = "backup"
        /\ now' = now
    BY <1>6 DEF Backup
  <2>2. IsDatabase(db') /\ db'.version = db.version /\ db'.backups = db.backups \cup {db.version}
    BY <2>1 DEF UpgradeInv, IsDatabase, DatabaseFields
  <2> QED
    BY <2>1, <2>2 DEF UpgradeInv, SafeStep, BackedUp
<1>7. CASE Begin
  <2>1. /\ pc = "begin" /\ pc' = "apply" /\ db' = db /\ now' = now
        /\ txn'.version = db.version /\ txn'.rows = db.rows
    BY <1>7 DEF Begin
  <2>2. db.version \in Nat
    BY DEF UpgradeInv, IsDatabase
  <2>3. \A id \in DOMAIN db.rows : DOMAIN db.rows[id] = RowFields
    BY DEF UpgradeInv, IsDatabase
  <2>4. Carried'
    BY <2>1, <2>2, <2>3 DEF Carried
  <2> QED
    BY <2>1, <2>2, <2>4 DEF UpgradeInv, SafeStep, BackedUp
<1>8. CASE Apply
  <2>1. /\ pc = "apply" /\ db' = db /\ now' = now /\ txn.version < Latest
        /\ txn'.version = txn.version + 1 /\ txn'.rows = Upgrade(txn.version + 1, txn.rows, now)
        /\ pc' = IF txn.version + 1 = Latest THEN "commit" ELSE "apply"
    BY <1>8 DEF Apply
  <2>2. /\ txn.version \in Nat /\ db.version \in Nat /\ db.version <= txn.version /\ Latest \in Nat
        /\ Carried /\ BackedUp /\ now \in Nat
    BY <2>1, StartupAssumption DEF UpgradeInv, IsDatabase
  <2>3. /\ DOMAIN txn.rows = DOMAIN db.rows
        /\ \A id \in DOMAIN txn.rows : DOMAIN txn.rows[id] = RowFields
    BY <2>2 DEF Carried
  <2>4. /\ DOMAIN txn'.rows = DOMAIN txn.rows
        /\ \A id \in DOMAIN txn.rows :
              /\ DOMAIN txn'.rows[id] = RowFields
              /\ Unleased(txn'.rows[id]) = Unleased(txn.rows[id])
              /\ txn.version + 1 = 2 /\ Wanted(txn.rows[id]) => txn'.rows[id].lease > now
              /\ txn.version + 1 # 2 => txn'.rows[id] = txn.rows[id]
    BY <2>1, <2>2, <2>3, UpgradeRows
  <2>5. \A id \in DOMAIN db.rows : Wanted(txn.rows[id]) <=> Wanted(db.rows[id])
    BY <2>2, <2>3, SameApart DEF Carried, Wanted, UpgradeInv, IsDatabase
  <2>6. ASSUME NEW id \in DOMAIN db.rows, db.version < 2, txn'.version >= 2, Wanted(db.rows[id])
        PROVE  txn'.rows[id].lease > now
    <3>1. CASE txn.version + 1 = 2
      BY <3>1, <2>3, <2>4, <2>5, <2>6
    <3>2. CASE txn.version + 1 # 2
      <4>1. txn.version >= 2
        BY <3>2, <2>1, <2>2, <2>6
      <4> QED
        BY <3>2, <4>1, <2>2, <2>3, <2>4, <2>6 DEF Carried
    <3> QED
      BY <3>1, <3>2
  <2>7. Carried'
    BY <2>1, <2>2, <2>3, <2>4, <2>6 DEF Carried
  <2>8. /\ txn'.version \in Nat /\ db'.version <= txn'.version
        /\ pc' = "apply" => txn'.version < Latest
        /\ pc' = "commit" => txn'.version = Latest
    BY <2>1, <2>2
  <2> QED
    BY <2>1, <2>2, <2>7, <2>8 DEF UpgradeInv, SafeStep, BackedUp
<1>9. CASE Commit
  <2>1. /\ pc = "commit" /\ pc' = "opened" /\ now' = now
        /\ db' = [db EXCEPT !.version = txn.version, !.rows = txn.rows, !.sound = TRUE]
    BY <1>9 DEF Commit
  <2>2. /\ txn.version = Latest /\ Latest \in Nat /\ Latest >= 2 /\ Carried /\ BackedUp
        /\ IsDatabase(db)
    BY <2>1, StartupAssumption DEF UpgradeInv
  <2>3. DOMAIN db' = DatabaseFields /\ db'.version = txn.version /\ db'.rows = txn.rows
    BY <2>1, <2>2 DEF IsDatabase, DatabaseFields
  <2>4. IsDatabase(db')
    BY <2>2, <2>3 DEF IsDatabase, Carried
  <2>5. SafeStep
    BY <2>2, <2>3 DEF SafeStep, Carried, BackedUp, Wanted
  <2> QED
    BY <2>1, <2>4, <2>5 DEF UpgradeInv
<1>10. CASE StoreOpened
  BY <1>10, <1>q DEF StoreOpened, Mark
<1>11. CASE Artifacts
  BY <1>11, <1>q DEF Artifacts, Mark
<1>12. CASE OpenRuntime
  BY <1>12, <1>q, <1>u DEF OpenRuntime
<1>13. CASE EnsureNetwork
  BY <1>13, <1>q, <1>u DEF EnsureNetwork
<1>14. CASE Inventory
  BY <1>14, <1>q DEF Inventory
<1>db. IsDatabase(db) /\ \A id \in DOMAIN db.rows : DOMAIN db.rows[id] = RowFields
  BY DEF UpgradeInv, IsDatabase
<1>15. CASE RecordUnscoped
  BY <1>15, <1>t, <1>db, WrittenFrame, WrittenTable DEF RecordUnscoped
<1>16. CASE FinalizeAnomalyScan
  BY <1>16, <1>t, <1>db, WrittenFrame, WrittenTable DEF FinalizeAnomalyScan
<1>17. CASE PlanNext
  BY <1>17, <1>t, <1>db, PlanFrame, PlanTable
<1>18. CASE Recovered
  BY <1>18, <1>q, <1>u DEF Recovered, Proceed
<1>19. CASE RecoverTTL
  BY <1>19, <1>t, <1>db, ExpireTable DEF RecoverTTL
<1>20. CASE QueueDue
  BY <1>20, <1>q DEF QueueDue
<1>21. CASE StartWorker
  BY <1>21, <1>q, <1>u DEF StartWorker
<1>22. CASE StartMaintenance
  BY <1>22, <1>u, <1>t, <1>db, ExpireTable DEF StartMaintenance
<1>23. CASE StartHTTP
  BY <1>23, <1>q, <1>u DEF StartHTTP
<1>24. CASE StageFails
  BY <1>24, <1>u DEF StageFails
<1>25. CASE Shutdown
  BY <1>25, <1>q DEF Shutdown
<1>26. CASE CloseBegin \/ CloseEnds \/ GraceEnds \/ Signal
  BY <1>26, <1>s DEF CloseBegin, CloseEnds, GraceEnds, Signal
<1>27. CASE Exit \/ Crash
  BY <1>27, <1>q DEF Exit, Crash, Gone
<1>28. CASE Restart
  <2>1. db' = db /\ now' = now + 1 /\ pc' = "load"
    BY <1>28 DEF Restart
  <2>2. now' \in Nat
    BY <2>1 DEF UpgradeInv
  <2> QED
    BY <2>1, <2>2 DEF UpgradeInv, SafeStep
<1>29. CASE RequestEnters \/ RequestLeaves \/ PrePullEnds \/ Provision
  BY <1>29, <1>s DEF RequestEnters, RequestLeaves, PrePullEnds, Provision
<1>30. ASSUME NEW g \in {"worker", "maintenance"}, GroupLeaves(g) PROVE UpgradeInv' /\ SafeStep
  BY <1>30, <1>s DEF GroupLeaves
<1>31. ASSUME NEW d \in Dependencies, ProbeOnce(d) PROVE UpgradeInv' /\ SafeStep
  BY <1>31, <1>s DEF ProbeOnce
<1>32. CASE UNCHANGED vars
  BY <1>32, <1>s
<1>33. CASE SetAvailable
  BY <1>33, <1>s DEF SetAvailable
<1> QED
  BY <1>1, <1>2, <1>3, <1>4, <1>5, <1>6, <1>7, <1>8, <1>9, <1>10, <1>11, <1>12, <1>13, <1>14,
     <1>15, <1>16, <1>17, <1>18, <1>19, <1>20, <1>21, <1>22, <1>23, <1>24, <1>25, <1>26, <1>27,
     <1>28, <1>29, <1>30, <1>31, <1>32, <1>33
     DEF Next, Boot, Close

\* Migrate moves the version in one step to the newest, after a backup of the old one, and
\* every row comes through with nothing but its lease changed, no wanted sandbox being due.
THEOREM UpgradesAreSafe == Spec => UpgradeIsSafe
<1>1. ASSUME Init PROVE UpgradeInv
  <2>1. IsDatabase(db)
    BY <1>1, StartupAssumption DEF Init
  <2>2. now \in Nat /\ pc = "load"
    BY <1>1 DEF Init
  <2> QED
    BY <2>1, <2>2 DEF UpgradeInv
<1>2. UpgradeInv /\ [Next]_vars => [SafeStep]_vars
  BY UpgradeKeeps
<1>3. (SafeStep) <=>
        (db'.version # db.version =>
          /\ db'.version = Latest
          /\ db.version > 0 => db.version \in db.backups
          /\ DOMAIN db'.rows = DOMAIN db.rows
          /\ \A id \in DOMAIN db.rows :
                /\ [db'.rows[id] EXCEPT !.lease = NoLease] = [db.rows[id] EXCEPT !.lease = NoLease]
                /\ (db.version < 2 /\ db.rows[id].desired = "Running"
                      /\ db.rows[id].observed # "Terminated") => db'.rows[id].lease > now)
  BY Zenon DEF SafeStep, Unleased
<1> QED
  BY <1>1, <1>2, <1>3, UpgradeKeeps, PTL DEF Spec, UpgradeIsSafe
-----------------------------------------------------------------------------
(* Recovery. *)

\* A sandbox with a labelled resource has a resource in its bundle or an anomaly: two of a
\* kind are duplicates, and one of an unknown role is damaged.
LEMMA VisibleIsNamed ==
    ASSUME NEW inv, IsInventory(inv), NEW id \in ActualIDs(inv), Snapshot(inv, id).anomalies = {}
    PROVE  HasResources(Snapshot(inv, id))
<1> SUFFICES ASSUME ~HasResources(Snapshot(inv, id)) PROVE FALSE
  OBVIOUS
<1>1. PICK g : g = Labelled(inv, id)
  OBVIOUS
<1>2. /\ Single(g.main) = {} /\ Single(g.egress) = {}
      /\ Single(g.workspace) = {} /\ Single(g.directory) = {}
  BY <1>1 DEF HasResources, Snapshot
<1>3. GroupAnomalies(g) = {} /\ DuplicateAnomalies(g) = {}
  BY <1>1 DEF Snapshot
<1>4. /\ IsFiniteSet(g.main) /\ IsFiniteSet(g.egress)
      /\ IsFiniteSet(g.workspace) /\ IsFiniteSet(g.directory)
  <2>1. /\ g.main \subseteq inv.containers /\ g.egress \subseteq inv.containers
        /\ g.workspace \subseteq inv.volumes /\ g.directory \subseteq inv.directories
    BY <1>1 DEF Labelled
  <2> QED
    BY <2>1, FS_Subset DEF IsInventory
<1>5. ASSUME NEW kind \in {"main", "egress", "workspace", "directory"} PROVE g[kind] = {}
  <2>1. IsFiniteSet(g[kind]) /\ Single(g[kind]) = {}
    BY <1>2, <1>4
  <2>2. ~(Cardinality(g[kind]) > 1)
    <3> SUFFICES ASSUME Cardinality(g[kind]) > 1 PROVE FALSE
      OBVIOUS
    <3>1. g[kind] \in {n \in {g[kind]} : Cardinality(n) > 1}
      OBVIOUS
    <3>2. Anomaly("DUPLICATE_RESOURCE", kind, "") \in
             {Anomaly("DUPLICATE_RESOURCE", kind, "") : s \in {n \in {g[kind]} : Cardinality(n) > 1}}
      BY <3>1
    <3>3. Anomaly("DUPLICATE_RESOURCE", kind, "") \in DuplicateAnomalies(g)
      BY <3>2, Zenon DEF DuplicateAnomalies
    <3> QED
      BY <3>3, <1>3
  <2>3. Cardinality(g[kind]) \in Nat /\ (Cardinality(g[kind]) = 0 => g[kind] = {})
    BY <2>1, FS_CardinalityType, FS_EmptySet
  <2>4. Cardinality(g[kind]) = 1 => g[kind] = {}
    BY <2>1 DEF Single
  <2> QED
    BY <2>2, <2>3, <2>4
<1>6. g.other = {}
  <2>1. ASSUME NEW c \in g.other PROVE FALSE
    <3>1. Damaged("container", "RESOURCE_ROLE_UNSUPPORTED") \in GroupAnomalies(g)
      BY Zenon DEF GroupAnomalies
    <3> QED
      BY <3>1, <1>3
  <2> QED
    BY <2>1
<1>7. PICK x \in inv.containers \cup inv.volumes \cup inv.directories : x.sandbox = id
  BY DEF ActualIDs
<1>8. /\ x \in inv.containers => x \in g.main \cup g.egress \cup g.other
      /\ x \in inv.volumes => x \in g.workspace
      /\ x \in inv.directories => x \in g.directory
  BY <1>1, <1>7 DEF Labelled
<1> QED
  BY <1>5, <1>6, <1>7, <1>8

\* What the scan has recorded of the resources that belong to no sandbox.
UnscopedKept == \A a \in UnscopedAnomalies(world) : AnomalyKey(Unscoped, a) \in db.anomalies

\* No anomaly is about something nobody sees.
NoneStale ==
    \A k \in db.anomalies :
        IF k[1] = Unscoped THEN \E a \in UnscopedAnomalies(world) : k = AnomalyKey(Unscoped, a)
        ELSE k[1] \in ActualIDs(world)

\* Some anomaly is about id.
Noted(id) == \E k \in db.anomalies : k[1] = id

\* What the plan for one sandbox with resources leaves behind.
Noticed(id) ==
    /\ \A a \in Snapshot(world, id).anomalies : AnomalyKey(id, a) \in db.anomalies
    /\ id \in DOMAIN db.rows \/ Noted(id)
    /\ (id \in DOMAIN db.rows /\ db.rows[id].desired = "Terminated") => (id \in woken \/ Noted(id))

\* As long as nothing failed, every sandbox with resources is still to be planned or was
\* noticed.
NoticeInv ==
    /\ IsInventory(world) /\ failed \in BOOLEAN
    /\ pc \in {"unscoped", "finalize"} => ActualIDs(world) \subseteq todo
    /\ pc = "finalize" /\ ~failed => UnscopedKept
    /\ pc \in {"plans", "recovered", "ttl"} /\ ~failed =>
          /\ UnscopedKept /\ NoneStale
          /\ \A id \in ActualIDs(world) \ todo : Noticed(id)
    /\ pc \in {"recovered", "ttl"} => todo = {}
    /\ pc = "ttl" => ~failed

\* An anomaly's key names its sandbox.
LEMMA KeyNames == ASSUME NEW id, NEW a PROVE AnomalyKey(id, a)[1] = id
  BY DEF AnomalyKey

\* The statement that did not fail has written what it was to write.
LEMMA WrittenOutcome ==
    ASSUME IsDatabase(db), NEW next, NEW rows, NEW anomalies, NEW wake,
           Written(next, rows, anomalies, wake), ~failed'
    PROVE  /\ failed' = failed /\ pc' = next /\ world' = world
           /\ db'.rows = rows /\ db'.anomalies = anomalies /\ woken' = woken \cup wake
<1>1. CASE failed' = TRUE
  BY <1>1
<1>2. CASE /\ pc' = next
           /\ db' = [db EXCEPT !.rows = rows, !.anomalies = anomalies]
           /\ woken' = woken \cup wake
           /\ failed' = failed /\ world' = world
  BY <1>2 DEF IsDatabase, DatabaseFields
<1> QED
  BY <1>1, <1>2 DEF Written

\* The plan of a sandbox with resources: with a row, and without one.
LEMMA PlanCases ==
    ASSUME NEW id \in ActualIDs(world)
    PROVE  /\ Actual(id) = {Snapshot(world, id)}
           /\ (CHOOSE a \in Actual(id) : TRUE) = Snapshot(world, id)
           /\ id \in DOMAIN db.rows =>
                 PlanRecovery(Stored(id), Actual(id)) = PlanBoth(db.rows[id], Snapshot(world, id))
           /\ id \notin DOMAIN db.rows =>
                 PlanRecovery(Stored(id), Actual(id)) = PlanOrphan(Snapshot(world, id))
<1>1. Actual(id) = {Snapshot(world, id)}
  BY DEF Actual
<1>2. \A s : (CHOOSE a \in {s} : TRUE) = s
  OBVIOUS
<1>3. id \in DOMAIN db.rows => Stored(id) = {db.rows[id]}
  BY DEF Stored
<1>4. id \notin DOMAIN db.rows => Stored(id) = {}
  BY DEF Stored
<1> QED
  BY <1>1, <1>2, <1>3, <1>4 DEF PlanRecovery

\* What the plan of one identity leaves of the others, and what it adds.
Untouched(id) ==
    /\ db.anomalies \subseteq db'.anomalies /\ woken \subseteq woken'
    /\ \A i : i # id => /\ i \in DOMAIN db'.rows <=> i \in DOMAIN db.rows
                        /\ i \in DOMAIN db.rows => db'.rows[i] = db.rows[i]
    /\ \A k \in db'.anomalies : k \in db.anomalies \/ (id \in ActualIDs(world) /\ k[1] = id)

\* What a plan without a failure has written.
LEMMA PlanOutcome ==
    ASSUME IsDatabase(db), IsInventory(world), NEW id \in todo, ExecutePlan(id), ~failed'
    PROVE  /\ failed' = failed /\ world' = world /\ Untouched(id)
           /\ id \in ActualIDs(world) => Noticed(id)'
           /\ pc' = IF todo = {id} THEN "recovered" ELSE "plans"
<1>1. PICK action, actual, next, snap :
         /\ action = PlanRecovery(Stored(id), Actual(id))
         /\ actual = (CHOOSE a \in Actual(id) : TRUE)
         /\ next = IF todo = {id} THEN "recovered" ELSE "plans"
         /\ snap = Snapshot(world, id)
  OBVIOUS
<1>2. ASSUME id \in ActualIDs(world)
      PROVE  /\ Actual(id) # {} /\ actual = snap
             /\ id \in DOMAIN db.rows => action = PlanBoth(db.rows[id], snap)
             /\ id \notin DOMAIN db.rows => action = PlanOrphan(snap)
  BY <1>1, <1>2, PlanCases
<1>3. Actual(id) # {} => id \in ActualIDs(world)
  BY DEF Actual
<1>4. CASE action = "NO_OP" /\ Written(next, db.rows, db.anomalies, {})
  <2>1. /\ failed' = failed /\ pc' = next /\ world' = world
        /\ db'.rows = db.rows /\ db'.anomalies = db.anomalies /\ woken' = woken
    BY <1>4, WrittenOutcome
  <2>2. ASSUME id \in ActualIDs(world) PROVE Noticed(id)'
    <3>1. id \in DOMAIN db.rows /\ snap.anomalies = {} /\ Settled(db.rows[id], snap)
      BY <1>2, <1>4, <2>2 DEF PlanOrphan, PlanBoth
    <3>2. HasResources(snap)
      BY <1>1, <2>2, <3>1, VisibleIsNamed
    <3>3. db.rows[id].desired # "Terminated"
      BY <3>1, <3>2 DEF Settled
    <3> QED
      BY <1>1, <2>1, <3>1, <3>3 DEF Noticed
  <2> QED
    BY <1>1, <2>1, <2>2 DEF Untouched
<1>5. CASE action = "WAKE" /\ Written(next, db.rows, db.anomalies, {id})
  <2>1. /\ failed' = failed /\ pc' = next /\ world' = world
        /\ db'.rows = db.rows /\ db'.anomalies = db.anomalies /\ woken' = woken \cup {id}
    BY <1>5, WrittenOutcome
  <2>2. ASSUME id \in ActualIDs(world) PROVE Noticed(id)'
    <3>1. id \in DOMAIN db.rows /\ snap.anomalies = {}
      BY <1>2, <1>5, <2>2 DEF PlanOrphan, PlanBoth
    <3> QED
      BY <1>1, <2>1, <3>1 DEF Noticed
  <2> QED
    BY <1>1, <2>1, <2>2 DEF Untouched
<1>6. CASE /\ action = "RECORD_ANOMALY"
           /\ Written(next, db.rows,
                      IF Actual(id) = {} THEN db.anomalies
                      ELSE db.anomalies \cup {AnomalyKey(id, a) : a \in Recorded(actual)}, {})
  <2>1. PICK anomalies :
           anomalies = IF Actual(id) = {} THEN db.anomalies
                       ELSE db.anomalies \cup {AnomalyKey(id, a) : a \in Recorded(actual)}
    OBVIOUS
  <2>2. /\ failed' = failed /\ pc' = next /\ world' = world
        /\ db'.rows = db.rows /\ db'.anomalies = anomalies /\ woken' = woken
    BY <1>6, <2>1, WrittenOutcome
  <2>3. \A k \in anomalies : k \in db.anomalies \/ (id \in ActualIDs(world) /\ k[1] = id)
    BY <1>3, <2>1, KeyNames
  <2>4. db.anomalies \subseteq anomalies
    BY <2>1
  <2>5. ASSUME id \in ActualIDs(world) PROVE Noticed(id)'
    <3>1. anomalies = db.anomalies \cup {AnomalyKey(id, a) : a \in Recorded(snap)}
      BY <1>2, <2>1, <2>5
    <3>2. \E a : a \in Recorded(snap)
      BY DEF Recorded
    <3>3. \E k \in anomalies : k[1] = id
      BY <3>1, <3>2, KeyNames
    <3>4. snap.anomalies \subseteq Recorded(snap)
      BY DEF Recorded
    <3>5. \A a \in snap.anomalies : AnomalyKey(id, a) \in anomalies
      BY <3>1, <3>4
    <3> QED
      BY <1>1, <2>2, <3>3, <3>5 DEF Noticed, Noted
  <2> QED
    BY <1>1, <2>2, <2>3, <2>4, <2>5 DEF Untouched
<1>7. CASE /\ action = "REPAIR_METADATA"
           /\ \E m \in actual.bundle.main :
                 Written(next, [db.rows EXCEPT ![id].runtime = m.name], db.anomalies, {id})
  <2>1. PICK name : Written(next, [db.rows EXCEPT ![id].runtime = name], db.anomalies, {id})
    BY <1>7
  <2>2. PICK rows : rows = [db.rows EXCEPT ![id].runtime = name]
    OBVIOUS
  <2>3. /\ failed' = failed /\ pc' = next /\ world' = world
        /\ db'.rows = rows /\ db'.anomalies = db.anomalies /\ woken' = woken \cup {id}
    BY <2>1, <2>2, WrittenOutcome
  <2>4. DOMAIN rows = DOMAIN db.rows /\ \A i \in DOMAIN db.rows : i # id => rows[i] = db.rows[i]
    BY <2>2
  <2>5. ASSUME id \in ActualIDs(world) PROVE Noticed(id)'
    <3>1. id \in DOMAIN db.rows /\ snap.anomalies = {}
      BY <1>2, <1>7, <2>5 DEF PlanOrphan, PlanBoth
    <3> QED
      BY <1>1, <2>3, <2>4, <3>1 DEF Noticed
  <2> QED
    BY <1>1, <2>3, <2>4, <2>5 DEF Untouched
<1>8. CASE /\ action = "IMPORT"
           /\ Written(next, SetRow(db.rows, id, ImportedRow(actual, now)), db.anomalies, {id})
  <2>1. PICK rows : rows = SetRow(db.rows, id, ImportedRow(actual, now))
    OBVIOUS
  <2>2. /\ failed' = failed /\ pc' = next /\ world' = world
        /\ db'.rows = rows /\ db'.anomalies = db.anomalies /\ woken' = woken \cup {id}
    BY <1>8, <2>1, WrittenOutcome
  <2>3. DOMAIN rows = DOMAIN db.rows \cup {id} /\ \A i \in DOMAIN db.rows : i # id => rows[i] = db.rows[i]
    BY <2>1 DEF SetRow
  <2>4. ASSUME id \in ActualIDs(world) PROVE Noticed(id)'
    <3>1. snap.anomalies = {}
      BY <1>2, <1>8, <2>4 DEF PlanOrphan, PlanBoth, TrustedImport, TrustedRunning
    <3> QED
      BY <1>1, <2>2, <2>3, <3>1 DEF Noticed
  <2> QED
    BY <1>1, <2>2, <2>3, <2>4 DEF Untouched
<1>9. CASE failed' = TRUE
  BY <1>9
<1> QED
  BY <1>1, <1>4, <1>5, <1>6, <1>7, <1>8, <1>9, Zenon DEF ExecutePlan

\* What was noticed stays so when another identity is planned.
LEMMA NoticedStays ==
    ASSUME NEW id, NEW other \in ActualIDs(world), other # id, Untouched(id), world' = world,
           Noticed(other)
    PROVE  Noticed(other)'
<1>1. Noted(other) => Noted(other)'
  BY DEF Noted, Untouched
<1> QED
  BY <1>1 DEF Noticed, Untouched

\* A plan notices its sandbox and leaves the others noticed.
LEMMA PlanNotices ==
    ASSUME NoticeInv, IsDatabase(db), PlanNext PROVE NoticeInv'
<1>0. pc = "plans" /\ world' = world /\ pc' \in {"plans", "recovered"}
  BY PlanFrame DEF PlanNext
<1>1. CASE todo = {} /\ Proceed("recovered")
  BY <1>1, <1>0 DEF Proceed, data, scan, NoticeInv, UnscopedKept, NoneStale, Noticed, Noted
<1>2. CASE \E id \in todo : ExecutePlan(id) /\ todo' = todo \ {id}
  <2>1. PICK id \in todo : ExecutePlan(id) /\ todo' = todo \ {id}
    BY <1>2
  <2>2. failed' \in BOOLEAN /\ (pc' = "recovered" => todo' = {})
    <3>1. failed' = failed \/ failed' = TRUE
      BY <2>1, Zenon DEF ExecutePlan, Written
    <3>2. pc' = IF todo = {id} THEN "recovered" ELSE "plans"
      BY <2>1, Zenon DEF ExecutePlan, Written
    <3> QED
      BY <3>1, <3>2, <2>1 DEF NoticeInv
  <2>3. ASSUME ~failed'
        PROVE  /\ UnscopedKept' /\ NoneStale'
               /\ \A other \in ActualIDs(world) \ todo' : Noticed(other)'
    <3>1. /\ failed' = failed /\ Untouched(id)
          /\ id \in ActualIDs(world) => Noticed(id)'
      BY <2>1, <2>3, PlanOutcome DEF NoticeInv
    <3>2. /\ UnscopedKept /\ NoneStale /\ \A other \in ActualIDs(world) \ todo : Noticed(other)
      BY <1>0, <2>3, <3>1 DEF NoticeInv
    <3>3. UnscopedKept'
      BY <1>0, <3>1, <3>2 DEF UnscopedKept, Untouched
    <3>4. Unscoped \notin ActualIDs(world)
      BY DEF ActualIDs
    <3>5. NoneStale'
      BY <1>0, <3>1, <3>2, <3>4 DEF NoneStale, Untouched
    <3>6. \A other \in ActualIDs(world) \ todo' : Noticed(other)'
      BY <1>0, <2>1, <3>1, <3>2, NoticedStays
    <3> QED
      BY <3>3, <3>5, <3>6
  <2> QED
    BY <1>0, <2>2, <2>3 DEF NoticeInv
<1> QED
  BY <1>1, <1>2 DEF PlanNext

\* The scan records what nobody owns, and then keeps of the anomalies what it saw.
LEMMA UnscopedNotices ==
    ASSUME NoticeInv, IsDatabase(db), RecordUnscoped PROVE NoticeInv'
<1>1. PICK anomalies :
         anomalies = db.anomalies \cup {AnomalyKey(Unscoped, a) : a \in UnscopedAnomalies(world)}
  OBVIOUS
<1>2. pc = "unscoped" /\ todo' = todo /\ Written("finalize", db.rows, anomalies, {})
  BY <1>1 DEF RecordUnscoped
<1>3. pc' = "finalize" /\ world' = world
  BY <1>2, WrittenFrame
<1>4. failed' \in BOOLEAN
  <2>1. failed' = failed \/ failed' = TRUE
    BY <1>2 DEF Written
  <2> QED
    BY <2>1 DEF NoticeInv
<1>5. ~failed' => UnscopedKept'
  BY <1>1, <1>2, <1>3, WrittenOutcome DEF UnscopedKept
<1> QED
  BY <1>2, <1>3, <1>4, <1>5 DEF NoticeInv

\* The keys of what the scan saw.
LEMMA ActiveKeyCases ==
    /\ \A a \in UnscopedAnomalies(world) : AnomalyKey(Unscoped, a) \in ActiveKeys(world)
    /\ \A k \in ActiveKeys(world) :
          \/ \E a \in UnscopedAnomalies(world) : k = AnomalyKey(Unscoped, a)
          \/ \E id \in ActualIDs(world) : \E a \in Snapshot(world, id).anomalies : k = AnomalyKey(id, a)
<1> DEFINE Of(id) == {AnomalyKey(id, a) : a \in Snapshot(world, id).anomalies}
           Scoped == UNION {Of(id) : id \in ActualIDs(world)}
           Rest == {AnomalyKey(Unscoped, a) : a \in UnscopedAnomalies(world)}
<1>1. ActiveKeys(world) = Scoped \cup Rest
  BY DEF ActiveKeys
<1>2. \A id : \A k \in Of(id) : \E a \in Snapshot(world, id).anomalies : k = AnomalyKey(id, a)
  OBVIOUS
<1>3. \A k \in Scoped : \E id \in ActualIDs(world) : k \in Of(id)
  <2> HIDE DEF Of
  <2> QED
    OBVIOUS
<1>4. \A k : k \in Rest <=> \E a \in UnscopedAnomalies(world) : k = AnomalyKey(Unscoped, a)
  OBVIOUS
<1> HIDE DEF Of, Scoped, Rest
<1> QED
  BY <1>1, <1>2, <1>3, <1>4

\* The end of the scan drops the anomalies that nothing is behind, and no others.
LEMMA FinalizeNotices ==
    ASSUME NoticeInv, IsDatabase(db), FinalizeAnomalyScan PROVE NoticeInv'
<1>1. PICK anomalies : anomalies = db.anomalies \cap ActiveKeys(world)
  OBVIOUS
<1>2. pc = "finalize" /\ todo' = todo /\ Written("plans", db.rows, anomalies, {})
  BY <1>1 DEF FinalizeAnomalyScan
<1>3. pc' = "plans" /\ world' = world
  BY <1>2, WrittenFrame
<1>4. failed' \in BOOLEAN
  <2>1. failed' = failed \/ failed' = TRUE
    BY <1>2 DEF Written
  <2> QED
    BY <2>1 DEF NoticeInv
<1>5. ASSUME ~failed' PROVE UnscopedKept' /\ NoneStale'
  <2>1. db'.anomalies = anomalies /\ UnscopedKept
    BY <1>2, <1>5, WrittenOutcome DEF NoticeInv
  <2>2. UnscopedKept'
    BY <1>1, <1>3, <2>1, ActiveKeyCases DEF UnscopedKept
  <2>3. Unscoped \notin ActualIDs(world)
    BY DEF ActualIDs
  <2>4. ASSUME NEW k \in ActiveKeys(world)
        PROVE  \/ \E a \in UnscopedAnomalies(world) : k = AnomalyKey(Unscoped, a)
               \/ k[1] \in ActualIDs(world)
    BY ActiveKeyCases, KeyNames
  <2>5. NoneStale'
    BY <1>1, <1>3, <2>1, <2>3, <2>4, KeyNames DEF NoneStale
  <2> QED
    BY <2>2, <2>5
<1> QED
  BY <1>2, <1>3, <1>4, <1>5 DEF NoticeInv

\* Every step keeps NoticeInv.
LEMMA NoticeKeeps == NoticeInv /\ IsDatabase(db) /\ [Next]_vars => NoticeInv'
<1> SUFFICES ASSUME NoticeInv, IsDatabase(db), [Next]_vars PROVE NoticeInv'
  OBVIOUS
<1> DEFINE Scanning == {"unscoped", "finalize", "plans", "recovered", "ttl"}
<1> USE DEF vars, config, data, scan, host, health, epoch
<1>q. ASSUME UNCHANGED <<world, failed>>, pc' \notin Scanning PROVE NoticeInv'
  BY <1>q DEF NoticeInv
<1>s. ASSUME UNCHANGED <<db, world, todo, failed, woken, pc>> PROVE NoticeInv'
  BY <1>s DEF NoticeInv, UnscopedKept, NoneStale, Noticed, Noted
<1>u. ASSUME NEW reason, Unwind(reason) PROVE NoticeInv'
  BY <1>u, <1>q DEF Unwind
<1>1. CASE LoadConfig \/ ValidateConfig \/ Directories \/ OpenStore
  BY <1>1, <1>q, <1>u DEF LoadConfig, ValidateConfig, Directories, OpenStore, Proceed
<1>2. CASE ReadVersion
  BY <1>2, <1>q, <1>u DEF ReadVersion, Proceed
<1>3. CASE Backup \/ Begin \/ Apply \/ Commit
  BY <1>3, <1>q DEF Backup, Begin, Apply, Commit
<1>4. CASE StoreOpened \/ Artifacts \/ OpenRuntime \/ EnsureNetwork
  <2>1. CASE \E reason : Unwind(reason)
    BY <2>1, <1>u
  <2>2. CASE UNCHANGED <<world, failed>> /\ pc' \in {"artifacts", "runtime", "network", "inventory"}
    BY <2>2, <1>q
  <2> QED
    BY <1>4, <2>1, <2>2 DEF StoreOpened, Artifacts, OpenRuntime, EnsureNetwork, Mark
<1>5. CASE Inventory
  <2>1. pc' = "unscoped" /\ world' = world /\ failed' = FALSE /\ ActualIDs(world) \subseteq todo'
    BY <1>5 DEF Inventory
  <2> QED
    BY <2>1 DEF NoticeInv
<1>6. CASE RecordUnscoped
  BY <1>6, UnscopedNotices
<1>7. CASE FinalizeAnomalyScan
  BY <1>7, FinalizeNotices
<1>8. CASE PlanNext
  BY <1>8, PlanNotices
<1>9. CASE Recovered
  <2>1. CASE Unwind("recovery")
    BY <2>1, <1>u
  <2>2. CASE pc = "recovered" /\ ~failed /\ Proceed("ttl")
    BY <2>2 DEF Proceed, NoticeInv, UnscopedKept, NoneStale, Noticed, Noted
  <2> QED
    BY <1>9, <2>1, <2>2 DEF Recovered
<1>10. CASE RecoverTTL \/ QueueDue
  BY <1>10, <1>q DEF RecoverTTL, QueueDue
<1>11. CASE StartWorker \/ StartMaintenance \/ StartHTTP
  <2>1. CASE \E reason : Unwind(reason)
    BY <2>1, <1>u
  <2>2. CASE UNCHANGED <<world, failed>> /\ pc' \in {"maintenance", "http", "serving"}
    BY <2>2, <1>q
  <2> QED
    BY <1>11, <2>1, <2>2 DEF StartWorker, StartMaintenance, StartHTTP
<1>12. CASE StageFails
  BY <1>12, <1>u DEF StageFails
<1>13. CASE Shutdown
  BY <1>13, <1>q DEF Shutdown
<1>14. CASE CloseBegin \/ CloseEnds \/ GraceEnds \/ Signal
  BY <1>14, <1>s DEF CloseBegin, CloseEnds, GraceEnds, Signal
<1>15. CASE Exit \/ Crash
  <2>1. pc' = "exited" /\ world' = world /\ failed' = FALSE
    BY <1>15 DEF Exit, Crash, Gone
  <2> QED
    BY <2>1 DEF NoticeInv
<1>16. CASE Restart
  <2>1. pc' = "load" /\ failed' = failed /\ world' \in {world} \cup LaterWorlds
    BY <1>16 DEF Restart
  <2>2. IsInventory(world')
    BY <2>1, StartupAssumption DEF NoticeInv
  <2> QED
    BY <2>1, <2>2 DEF NoticeInv
<1>17. CASE RequestEnters \/ RequestLeaves \/ PrePullEnds \/ Provision
  BY <1>17, <1>s DEF RequestEnters, RequestLeaves, PrePullEnds, Provision
<1>18. ASSUME NEW g \in {"worker", "maintenance"}, GroupLeaves(g) PROVE NoticeInv'
  BY <1>18, <1>s DEF GroupLeaves
<1>19. ASSUME NEW d \in Dependencies, ProbeOnce(d) PROVE NoticeInv'
  BY <1>19, <1>s DEF ProbeOnce
<1>20. CASE UNCHANGED vars
  BY <1>20, <1>s
<1>21. CASE SetAvailable
  BY <1>21, <1>s DEF SetAvailable
<1> QED
  BY <1>1, <1>2, <1>3, <1>4, <1>5, <1>6, <1>7, <1>8, <1>9, <1>10, <1>11, <1>12, <1>13, <1>14,
     <1>15, <1>16, <1>17, <1>18, <1>19, <1>20, <1>21 DEF Next, Boot, Close

\* Recover overlooks nothing: when the startup goes on, every resource Docker or the run
\* root holds has a row or an anomaly, no anomaly is about what is gone, and a sandbox that
\* is to be gone but has resources is woken or recorded.
THEOREM NothingIsOverlooked == Spec => []NothingGoesUnnoticed
<1>1. ASSUME Init PROVE UpgradeInv /\ NoticeInv
  <2>1. IsDatabase(db) /\ IsInventory(world)
    BY <1>1, StartupAssumption DEF Init
  <2>2. now \in Nat /\ pc = "load" /\ failed \in BOOLEAN
    BY <1>1 DEF Init
  <2> QED
    BY <2>1, <2>2 DEF UpgradeInv, NoticeInv
<1>2. UpgradeInv => IsDatabase(db)
  BY DEF UpgradeInv
<1>3. NoticeInv => NothingGoesUnnoticed
  <2>1. ASSUME NoticeInv, pc = "ttl"
        PROVE  UnscopedKept /\ NoneStale /\ \A id \in ActualIDs(world) : Noticed(id)
    BY <2>1 DEF NoticeInv
  <2> QED
    BY <2>1, Zenon DEF NothingGoesUnnoticed, UnscopedKept, NoneStale, Noticed, Noted
<1> QED
  BY <1>1, <1>2, <1>3, UpgradeKeeps, NoticeKeeps, PTL DEF Spec
=============================================================================
