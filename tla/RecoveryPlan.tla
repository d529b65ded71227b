---------------------------- MODULE RecoveryPlan ----------------------------
(***************************************************************************)
(* The pure part of startup recovery: grouping what Docker and the run     *)
(* root hold into one bundle per sandbox, judging a bundle, comparing it   *)
(* with the stored row, and naming what is wrong.                          *)
(*                                                                         *)
(* An inventory is [containers, volumes, directories], three sets.  A      *)
(* container is [name, sandbox, role, issue, running, spec, schema,        *)
(* protocol, network, peer, policy, profile, created, lease]; a volume     *)
(* [name, sandbox, issue, spec, schema]; a directory [name, sandbox,       *)
(* issue, present, manifest], the manifest being a set of at most one      *)
(* [sandbox, spec, lease].  "profile" says whether the inspected process,  *)
(* mounts, namespaces, ports, devices, capabilities and limits are the     *)
(* ones the daemon creates and hash to the labelled spec.  A resource      *)
(* without a usable label belongs to Unscoped.                             *)
(***************************************************************************)
EXTENDS Integers, FiniteSets

Unscoped == 0
NoIssue == ""
NoContainer == "none"
NoLease == -1
MalformedPolicy == "malformed"
NoPolicy == ""

\* An anomaly is [code, resource, detail]; resource "" stands for the whole bundle.
Anomaly(code, resource, detail) == [code |-> code, resource |-> resource, detail |-> detail]

\* appendDamaged: an issue nobody named is an invalid label.
Damaged(resource, issue) ==
    Anomaly("RESOURCE_DAMAGED", resource, IF issue = NoIssue THEN "LABELS_INVALID" ELSE issue)

\* Of one kind of resource a bundle has exactly one or none it can trust.
Single(S) == IF Cardinality(S) = 1 THEN S ELSE {}

\* validateActualBundle.  A bundle is [main, egress, workspace, directory], each a set
\* of at most one observation.
BundleAnomalies(id, b) ==
    LET manifests == UNION {d.manifest : d \in b.directory}
    IN  IF b.main = {}
        THEN {Anomaly("ORPHAN_EGRESS", "egress", "") : e \in b.egress}
        ELSE UNION {
               {Anomaly("PROTOCOL_CONFLICT", "main", "") : m \in {x \in b.main : x.protocol # 1}},
               {Anomaly("PROTOCOL_CONFLICT", "egress", "") :
                   e \in {x \in b.egress : x.protocol # 1}},
               {Anomaly("POLICY_CONFLICT", "egress", "") :
                   e \in {x \in b.egress : x.policy = MalformedPolicy}},
               {Anomaly("EGRESS_UNEXPECTED", "", "") :
                   e \in {x \in b.egress : \E m \in b.main : m.network = "none"}},
               {Anomaly("EGRESS_MISSING", "", "") :
                   m \in {x \in b.main : x.network = "container" /\ b.egress = {}}},
               {Anomaly("NETNS_CONFLICT", "", "") :
                   e \in {x \in b.egress :
                            \E m \in b.main : m.network = "container" /\ m.peer # x.name}},
               {Anomaly("NETWORK_PROFILE_INVALID", "main", "") :
                   m \in {x \in b.main : x.network \notin {"none", "container"}}},
               {Anomaly("SPEC_HASH_CONFLICT", "", "") :
                   x \in {y \in b.workspace \cup manifests :
                            \E m \in b.main : m.spec # y.spec}},
               {Anomaly("IDENTITY_CONFLICT", "directory", "") :
                   x \in {y \in manifests : y.sandbox # id}},
               {Anomaly("SCHEMA_CONFLICT", "", "") :
                   x \in {y \in b.egress \cup b.workspace :
                            \E m \in b.main : m.schema # y.schema}}}

\* Every resource labelled with a sandbox, or with none.
Labelled(inv, id) ==
    [main |-> {c \in inv.containers : c.sandbox = id /\ c.role = "main"},
     egress |-> {c \in inv.containers : c.sandbox = id /\ c.role = "egress-sidecar"},
     other |-> {c \in inv.containers : c.sandbox = id /\ c.role \notin {"main", "egress-sidecar"}},
     workspace |-> {v \in inv.volumes : v.sandbox = id},
     directory |-> {d \in inv.directories : d.sandbox = id}]

\* The sandboxes some resource is labelled with.
ActualIDs(inv) ==
    {x.sandbox : x \in inv.containers \cup inv.volumes \cup inv.directories} \ {Unscoped}

\* A resource the inspection marked is damaged, and so is one of an unknown role.
GroupAnomalies(g) ==
    UNION {
      {Damaged(c.role, c.issue) : c \in {x \in g.main \cup g.egress \cup g.other :
                                           x.issue # NoIssue}},
      {Damaged("container", "RESOURCE_ROLE_UNSUPPORTED") : c \in g.other},
      {Damaged("workspace", v.issue) : v \in {x \in g.workspace : x.issue # NoIssue}},
      {Damaged("directory", d.issue) : d \in {x \in g.directory : x.issue # NoIssue}}}

\* Two resources of one kind are an anomaly, and neither joins the bundle.
DuplicateAnomalies(g) ==
    UNION {{Anomaly("DUPLICATE_RESOURCE", kind, "") : s \in {n \in {g[kind]} : Cardinality(n) > 1}} :
             kind \in {"main", "egress", "workspace", "directory"}}

\* AggregateActualResources and buildActualSnapshot for one sandbox.
Snapshot(inv, id) ==
    LET g == Labelled(inv, id)
        b == [main |-> Single(g.main), egress |-> Single(g.egress),
              workspace |-> Single(g.workspace), directory |-> Single(g.directory)]
    IN  [bundle |-> b,
         anomalies |-> GroupAnomalies(g) \cup DuplicateAnomalies(g) \cup BundleAnomalies(id, b)]

\* The anomalies of resources no sandbox can be named for.
UnscopedAnomalies(inv) ==
    LET g == Labelled(inv, Unscoped)
    IN  {Damaged(c.role, c.issue) : c \in g.main \cup g.egress \cup g.other}
          \cup {Damaged("workspace", v.issue) : v \in g.workspace}
          \cup {Damaged("directory", d.issue) : d \in g.directory}

-----------------------------------------------------------------------------
(* The plan. A row is [desired, observed, runtime, spec, lease, origin]; "stored" and
   "actual" are sets of at most one row and one snapshot. *)

TrustedRunning(actual) ==
    /\ actual.anomalies = {}
    /\ \E m \in actual.bundle.main : m.running
    /\ actual.bundle.workspace # {}
    /\ \E d \in actual.bundle.directory : d.present

\* trustedImportBundle: the lease is known from the manifest or from the label.
TrustedImport(actual) ==
    /\ TrustedRunning(actual)
    /\ \/ \E d \in actual.bundle.directory : d.manifest # {}
       \/ \E m \in actual.bundle.main : m.schema = 2 /\ m.lease # NoLease

\* actualSpecDrift.
SpecDrift(row, actual) ==
    \E x \in actual.bundle.main \cup actual.bundle.workspace
               \cup UNION {d.manifest : d \in actual.bundle.directory} : x.spec # row.spec

HasResources(actual) ==
    \E kind \in {"main", "egress", "workspace", "directory"} : actual.bundle[kind] # {}

\* PlanRecovery for a stored row without a resource.
PlanMissing(row) ==
    CASE row.desired = "Terminated" /\ row.observed = "Terminated" -> "NO_OP"
      [] row.desired # "Terminated" /\ row.observed = "Terminated" -> "RECORD_ANOMALY"
      [] OTHER -> "WAKE"

\* PlanRecovery for resources without a row.
PlanOrphan(actual) == IF TrustedImport(actual) THEN "IMPORT" ELSE "RECORD_ANOMALY"

\* What a settled pair looks like: gone and wanted gone, or running and wanted running.
Settled(row, actual) ==
    IF row.desired = "Terminated"
    THEN row.observed = "Terminated" /\ ~HasResources(actual)
    ELSE row.observed = "Running" /\ TrustedRunning(actual)

\* PlanRecovery with both.
PlanBoth(row, actual) ==
    IF \/ actual.anomalies # {} \/ SpecDrift(row, actual)
       \/ row.observed = "Terminated" /\ row.desired = "Running"
    THEN "RECORD_ANOMALY"
    ELSE IF \E m \in actual.bundle.main : m.name # row.runtime THEN "REPAIR_METADATA"
    ELSE IF Settled(row, actual) THEN "NO_OP" ELSE "WAKE"

PlanRecovery(stored, actual) ==
    IF stored = {} /\ actual = {} THEN "NO_OP"
    ELSE IF stored = {} THEN PlanOrphan(CHOOSE a \in actual : TRUE)
    ELSE IF actual = {} THEN PlanMissing(CHOOSE r \in stored : TRUE)
    ELSE PlanBoth(CHOOSE r \in stored : TRUE, CHOOSE a \in actual : TRUE)

-----------------------------------------------------------------------------
(* Importing a bundle nobody has a row for. *)

\* CompareSandboxDrift against the row the bundle itself describes: the profile of both
\* containers, and the policy in force now.
Drifts(actual, policy) ==
    \/ \E c \in actual.bundle.main \cup actual.bundle.egress : ~c.profile
    \/ \E e \in actual.bundle.egress : policy = NoPolicy \/ e.policy # policy

\* RebuildResolvedSpec: the specification is read back from the container.
Rebuildable(actual, policy) == TrustedRunning(actual) /\ ~Drifts(actual, policy)

\* trustedOrphanExpiry: the manifest, which follows renewals, before the label.
TrustedExpiry(actual) ==
    LET manifests == UNION {d.manifest : d \in actual.bundle.directory}
    IN  IF manifests # {} THEN (CHOOSE m \in manifests : TRUE).lease
        ELSE (CHOOSE m \in actual.bundle.main : TRUE).lease

\* The row of an imported orphan: a lease that ran out meanwhile is a deletion.
ImportedRow(actual, at) ==
    LET main == CHOOSE m \in actual.bundle.main : TRUE
        expired == TrustedExpiry(actual) <= at
    IN  [desired |-> IF expired THEN "Terminated" ELSE "Running",
         observed |-> IF expired THEN "Stopping" ELSE "Creating",
         runtime |-> main.name, spec |-> main.spec, lease |-> TrustedExpiry(actual),
         changed |-> at, origin |-> "recovered_orphan"]

-----------------------------------------------------------------------------
(* The key an anomaly is stored under. *)

\* runtimeAnomalyClassification.
Classification(a) ==
    IF a.detail \in {"SCHEMA_UNSUPPORTED", "SCHEMA_UNKNOWN"} THEN "unknown_schema"
    ELSE IF a.code = "DUPLICATE_RESOURCE" THEN "duplicate_resource"
    ELSE IF a.code = "SCHEMA_CONFLICT" THEN "unknown_schema"
    ELSE IF a.code = "IDENTITY_CONFLICT" THEN "identity_mismatch"
    ELSE IF a.code = "SPEC_HASH_CONFLICT" THEN "spec_hash_mismatch"
    ELSE IF a.code = "NETNS_CONFLICT" THEN "network_namespace_mismatch"
    ELSE IF a.code \in {"PROTOCOL_CONFLICT", "POLICY_CONFLICT", "NETWORK_PROFILE_INVALID"}
    THEN "security_profile_mismatch"
    ELSE IF a.detail \in {"MANIFEST_UNSAFE", "MANIFEST_INVALID"} THEN "lease_untrusted"
    ELSE "incomplete_bundle"

\* runtimeAnomalyResourceType.
ResourceType(resource) ==
    IF resource \in {"main", "egress", "workspace", "directory"} THEN resource
    ELSE "sandbox_bundle"

\* runtimeAnomalyObservation: one key per sandbox, classification and kind of resource,
\* and one per distinct fact for what belongs to no sandbox.
AnomalyKey(id, a) ==
    IF id = Unscoped
    THEN <<id, a.code, a.resource, a.detail>>
    ELSE <<id, Classification(a), ResourceType(a.resource)>>

\* RecoveryAnomalyExecutor.Execute: a plan without a named anomaly is an incomplete bundle.
Recorded(actual) ==
    IF actual.anomalies # {} THEN actual.anomalies
    ELSE {Anomaly("RESOURCE_DAMAGED", "", "INCOMPLETE_BUNDLE")}

\* Mutant: what belongs to no sandbox is not counted as seen.
ActiveKeysScoped(inv) ==
    UNION {{AnomalyKey(id, a) : a \in Snapshot(inv, id).anomalies} : id \in ActualIDs(inv)}

\* activeRuntimeAnomalyKeys: what the scan itself saw.
ActiveKeys(inv) ==
    {AnomalyKey(Unscoped, a) : a \in UnscopedAnomalies(inv)}
      \cup (UNION {{AnomalyKey(id, a) : a \in Snapshot(inv, id).anomalies} :
                     id \in ActualIDs(inv)})
=============================================================================
