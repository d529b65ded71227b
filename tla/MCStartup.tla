----------------------------- MODULE MCStartup -----------------------------
EXTENDS Startup

Account == [uid |-> 1001, gid |-> 1001]

\* One value on each side of every bound that Validate or a later constructor compares.
Edges ==
    [shutdownTimeout |-> {0}, masterKeyFile |-> {""}, dockerHost |-> {"", "unparsable"},
     defaultTTL |-> {Minute + 1, Day + 1},
     concurrentPulls |-> {0, 257}, cpu |-> {4001}, executionUID |-> {0, 1001},
     defaultTimeout |-> {Hour + 1}, concurrentExecutions |-> {0},
     envTotalBytes |-> {8319}, logPageBytes |-> {63, 64}, sseWriteTimeout |-> {0},
     egressImage |-> {"tag"}, allowOutbound |-> {TRUE},
     interval |-> {2000, 1999}, jitter |-> {10000, 10001}, retryMin |-> {60001},
     dockerFreshness |-> {1}, runnerReadyTimeout |-> {0}, pageSize |-> {0},
     terminalRetention |-> {86399, 599}, gcInterval |-> {86401},
     ptySessions |-> {0}, minPort |-> {65536}]

Files ==
    {[fault |-> "none", set |-> NoConfig], [fault |-> "unknown field", set |-> NoConfig],
     [fault |-> "none", set |-> [prePull |-> <<[image |-> "reference", platform |-> "linux/amd64"]>>]],
     [fault |-> "none", set |-> [prePull |-> <<[image |-> "reference", platform |-> "linux/arm64"]>>]],
     [fault |-> "none", set |-> [allowOutbound |-> TRUE, egressImage |-> "digest"]]}
      \cup UNION {{[fault |-> "none", set |-> (f :> v)] : v \in Edges[f]} : f \in DOMAIN Edges}
Plain == [fault |-> "none", set |-> NoConfig]
NoImport == [fault |-> "none", set |-> [importTrustedOrphans |-> FALSE]]

Row(desired, observed, lease) ==
    [desired |-> desired, observed |-> observed, runtime |-> "c1", spec |-> "s", lease |-> lease,
     changed |-> 0, origin |-> "api"]
Database(version, rows) ==
    [version |-> version, sound |-> TRUE, rows |-> rows, anomalies |-> {}, backups |-> {}]
NoRows == [id \in {} |-> 0]
One(row) == 1 :> row

Main == [name |-> "c1", sandbox |-> 1, role |-> "main", issue |-> NoIssue, running |-> TRUE,
         spec |-> "s", schema |-> 2, protocol |-> 1, network |-> "none", peer |-> NoContainer,
         policy |-> NoPolicy, profile |-> TRUE, created |-> 0, lease |-> 2]
Egress == [Main EXCEPT !.name = "e1", !.role = "egress-sidecar", !.network = "managed-egress",
                       !.policy = "p", !.lease = NoLease]
Joined == [Main EXCEPT !.network = "container", !.peer = "e1"]
Volume == [name |-> "v1", sandbox |-> 1, issue |-> NoIssue, spec |-> "s", schema |-> 2]
Manifest == [sandbox |-> 1, spec |-> "s", lease |-> 3]
Directory == [name |-> "d1", sandbox |-> 1, issue |-> NoIssue, present |-> TRUE,
              manifest |-> {Manifest}]
World(containers, volumes, directories) ==
    [containers |-> containers, volumes |-> volumes, directories |-> directories]
Empty == World({}, {}, {})
Healthy == World({Main}, {Volume}, {Directory})
Broken == World({[Main EXCEPT !.sandbox = Unscoped, !.role = "", !.issue = "LABELS_INVALID"]},
                {Volume}, {})
With(container) == World({container}, {Volume}, {Directory})

Worlds ==
    {Empty, Healthy, Broken,
     World({Joined, Egress}, {Volume}, {Directory}),
     World({Joined}, {Volume}, {Directory}),
     World({Egress}, {Volume}, {}),
     World({Main, Egress}, {Volume}, {Directory}),
     World({[Joined EXCEPT !.peer = "e9"], [Egress EXCEPT !.policy = MalformedPolicy]},
           {Volume}, {Directory}),
     World({Joined, [Egress EXCEPT !.policy = "old", !.protocol = 2]}, {Volume}, {Directory}),
     World({Main, [Main EXCEPT !.name = "c2"]}, {Volume}, {Directory}),
     World({Main}, {[Volume EXCEPT !.spec = "t", !.schema = 1]},
           {[Directory EXCEPT !.manifest = {[Manifest EXCEPT !.sandbox = 2]}]}),
     World({Main}, {Volume},
           {[Directory EXCEPT !.manifest = {}, !.issue = "MANIFEST_INVALID"],
            [Directory EXCEPT !.name = "x", !.sandbox = Unscoped, !.issue = "DIRECTORY_NAME_INVALID"]}),
     World({Main}, {Volume, [Volume EXCEPT !.name = "v2", !.sandbox = 2]},
           {[Directory EXCEPT !.manifest = {}]}),
     With([Main EXCEPT !.profile = FALSE]), With([Main EXCEPT !.running = FALSE]),
     With([Main EXCEPT !.name = "c2"]), With([Main EXCEPT !.created = 2]),
     With([Main EXCEPT !.network = "host"]), With([Main EXCEPT !.role = "other"]),
     World({Main}, {Volume}, {[Directory EXCEPT !.manifest = {[Manifest EXCEPT !.lease = 1]}]})}

Runs == One(Row("Running", "Running", 3))
Tables ==
    {One(Row(d, o, l)) :
        <<d, o, l>> \in {<<"Running", "Failed", 1>>,
                         <<"Running", "Terminated", 3>>, <<"Terminated", "Stopping", 1>>,
                         <<"Terminated", "Terminated", 0>>}}

Old(version) ==
    [Database(version, (1 :> Row("Running", "Running", NoLease))
                       @@ (2 :> Row("Terminated", "Stopping", NoLease))
                       @@ (3 :> Row("Running", "Terminated", NoLease)))
     EXCEPT !.rows = [i \in DOMAIN @ |-> IF version < 2 THEN @[i] ELSE [@[i] EXCEPT !.lease = 2]]]

MCScenarios ==
    {[file |-> f, db |-> Database(Latest, NoRows), world |-> Empty] : f \in Files}
      \cup {[file |-> Plain, db |-> Database(Latest, t), world |-> w] :
              t \in {NoRows, Runs}, w \in Worlds}
      \cup {[file |-> Plain, db |-> Database(Latest, t), world |-> w] :
              t \in Tables, w \in {Empty, Healthy, Broken, With([Main EXCEPT !.name = "c2"])}}
      \cup {[file |-> NoImport, db |-> Database(Latest, NoRows), world |-> Healthy]}
      \cup {[file |-> Plain, db |-> d, world |-> Empty] :
              d \in {Database(0, NoRows), Old(1), Old(3), Database(Latest + 1, NoRows),
                     [Old(1) EXCEPT !.sound = FALSE]}}

MCLaterWorlds == {Empty}
=============================================================================
