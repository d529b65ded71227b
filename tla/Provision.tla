----------------------------- MODULE Provision -----------------------------
(***************************************************************************)
(* How the Docker runtime builds, checks, replaces and removes the         *)
(* resources of one outbound sandbox: the managed egress network, the      *)
(* sidecar that owns the network namespace and installs the rules in it,   *)
(* the main container that joins that namespace, the workspace volume and  *)
(* the runtime directory.  The steps are the calls to Docker and the       *)
(* frames of the sidecar's control channel, so that a crash of sandboxd, a *)
(* container that dies, a call that fails and a late answer fall between   *)
(* any two of them.                                                        *)
(*                                                                         *)
(* Two processes of sandboxd work on the sandbox: the worker that holds    *)
(* its key (Lifecycle) and a request that asks to execute (ExecutionRequest*)
(* gives the other reasons to refuse it).  Docker gives a sidecar a new    *)
(* namespace when it starts; a namespace lives as long as a container in   *)
(* it runs, and its identity may then be given away again.  Nobody starts  *)
(* a container behind sandboxd's back.                                     *)
(***************************************************************************)
EXTENDS Naturals, Sequences

CONSTANTS
    Configs,      \* values of the configured additional denied CIDRs
    Subnets,      \* what Docker's IPAM may give the managed network
    Namespaces,   \* identities of network namespaces
    SidecarIDs,   \* identities of sidecar containers
    HealthThreshold, \* runnerHealthFailureThreshold
    MaxFaults     \* crashes, deaths, failed calls and timeouts of a behaviour

\* "none" names the absence of each; Docker never gives an id that something still refers to.
ASSUME ProvisionAssumption ==
    /\ MaxFaults \in Nat /\ HealthThreshold \in Nat \ {0}
    /\ "none" \notin Subnets \cup SidecarIDs \cup Namespaces
    /\ \A i, j \in SidecarIDs \cup {"none"} : \E k \in SidecarIDs : k \notin {i, j}

VARIABLES
    config,    \* the denied CIDRs of the running sandboxd
    row,       \* the sandbox: creating (at first, or again after a failure that is
               \* retried), running, failed (for good), deleting, deleted
    misses,    \* health_failure_count: failed probes of the runner since a healthy one
    network,   \* the subnet of the managed network, or none
    sidecar,   \* the egress container: state, id, policy label, namespace, anchored policy
    main,      \* the main container: state, the sidecar its network mode names, namespace
    rules,     \* what the rules of each namespace deny; {} when there are none
    disk,      \* the workspace volume and the runtime directory, when they exist
    inbox,     \* request frames in the sidecar's stdin
    proc,      \* the worker and the client: program counter and locals
    lock,      \* who holds the sandbox's egress attach lock
    faults

docker == <<network, sidecar, main, rules, disk, inbox>>
vars == <<config, row, misses, docker, proc, lock, faults>>

None == "none"

NoSidecar == [state |-> "missing", id |-> None, policy |-> {}, ns |-> None, anchor |-> {}]
NoMain == [state |-> "missing", peer |-> None, ns |-> None]

\* Locals: the policy built, the sidecar found, the runner's namespace, the reply awaited or
\* got, what this Ensure created, why the worker works, and the error it met.
Idle == [pc |-> "idle", policy |-> {}, sidecar |-> None, ns |-> None,
         reply |-> [kind |-> None, policy |-> {}, ns |-> None],
         created |-> {}, job |-> None, error |-> None]

Reply(kind, policy, ns) == [kind |-> kind, policy |-> policy, ns |-> ns]

Init ==
    /\ config \in Configs /\ row = "creating" /\ misses = 0 /\ network = None
    /\ sidecar = NoSidecar /\ main = NoMain
    /\ rules = [n \in Namespaces |-> {}]
    /\ disk = {} /\ inbox = <<>>
    /\ proc = [p \in {"worker", "client"} |-> Idle]
    /\ lock = None /\ faults = 0

worker == proc["worker"]
client == proc["client"]

At(p, pc) == proc[p].pc = pc
Goto(p, pc) == proc' = [proc EXCEPT ![p].pc = pc]

Fault == faults < MaxFaults /\ faults' = faults + 1

\* egresspolicy.Build: the baseline, the configured CIDRs and the network's own subnet.
Build(subnet) == {"baseline", config, subnet}

\* Rules vanish with the last container that runs in their namespace.
RulesOf(rs, s, m) == [n \in Namespaces |-> IF n \in {s.ns, m.ns} THEN rs[n] ELSE {}]

\* The sidecar's process ends: what it had not answered is lost with its stdin.
SidecarStops ==
    /\ sidecar' = [sidecar EXCEPT !.state = "stopped", !.ns = None, !.anchor = {}]
    /\ inbox' = <<>>
    /\ rules' = RulesOf(rules, sidecar', main)

-----------------------------------------------------------------------------
(* Failure of the worker's attempt. *)

Checking == {"checkLock", "checkSidecar", "checkReply", "checkVerify", "checkMain"}
Deleting == {"delMain", "delSidecar", "clear", "delVolume", "delDir"}

\* What the worker does next after an error: ensureFailure compensates, failRunning deletes what
\* a create left, Delete goes on with the next resource (but the sidecar outlives a main
\* container that could not be removed), and a check that fails replaces a running
\* sandbox's compute.
AfterError(pc) ==
    IF pc \in {"dir", "image", "volume", "create", "start", "confirm"} THEN "compensate"
    ELSE IF pc = "delDir" \/ (pc \in Deleting /\ worker.job = "replace") THEN "record"
    ELSE IF pc = "delVolume" THEN "delDir"
    ELSE IF pc \in Deleting THEN "delVolume"
    ELSE IF worker.job = "recover" /\ pc \in Checking THEN "replace"
    ELSE IF worker.job = "create" THEN "delMain" ELSE "record"

\* The error of the operation; one that happens during a deletion makes it pending.  A runner
\* that does not answer its probe is unhealthy, and what fails once the compute has been
\* replaced is returned without being recorded.
ErrorOf(pc, kind) ==
    IF pc \in Deleting THEN "pending"
    ELSE IF worker.error # None THEN worker.error
    ELSE IF worker.job = "recover" /\ pc = "probe" THEN "unhealthy"
    ELSE IF pc = "replace" \/ (worker.job = "replace" /\ pc \in Checking \cup {"probe"}) THEN "unrecorded"
    ELSE kind

\* p's call failed.  Its control session is closed and the lock is released.
Failing(p, kind) ==
    /\ proc' = [proc EXCEPT ![p].pc = IF p = "client" THEN "refused" ELSE AfterError(proc[p].pc),
                            ![p].error = IF p = "client" THEN kind ELSE ErrorOf(proc[p].pc, kind)]
    /\ lock' = IF lock = p THEN None ELSE lock

\* The request frames of a closed session stay in the sidecar's stdin.
Forget(frames) == [i \in DOMAIN frames |-> [frames[i] EXCEPT !.live = FALSE]]

-----------------------------------------------------------------------------
(* The worker starts: reconcileRunning, recoverRunning, reconcileTerminated. *)

Start ==
    /\ At("worker", "idle")
    /\ row \in {"creating", "running", "deleting"}
    /\ proc' = [proc EXCEPT !["worker"] =
                   CASE row = "creating" -> [Idle EXCEPT !.pc = "network", !.job = "create"]
                     [] row = "running" -> [Idle EXCEPT !.pc = "lease", !.job = "recover"]
                     [] row = "deleting" -> [Idle EXCEPT !.pc = "delMain", !.job = "delete"]]
    /\ UNCHANGED <<config, row, misses, docker, lock, faults>>

\* recoverRunning projects the lease and inspects the main container: one of another spec is
\* left as it is, one that does not run is replaced, one that runs is probed.
InspectRunning ==
    /\ At("worker", "lease")
    /\ \/ Goto("worker", IF main.state = "running" THEN "probe" ELSE "replace") /\ UNCHANGED <<lock, faults>>
       \/ main.state # "missing" /\ Fault /\ Failing("worker", "permanent")
    /\ UNCHANGED <<config, row, misses, docker>>

\* replaceRunningCompute reads the row again; a delete that came meanwhile is honoured.
RereadBeforeReplace ==
    /\ At("worker", "replace")
    /\ proc' = [proc EXCEPT !["worker"] =
                   [Idle EXCEPT !.pc = "delMain",
                                !.job = IF row = "deleting" THEN "delete" ELSE "replace"]]
    /\ UNCHANGED <<config, row, misses, docker, lock, faults>>

-----------------------------------------------------------------------------
(* EnsureEgress, under the sandbox's attach lock. *)

\* ensureEgressNetwork: found, or created with whatever subnet Docker gives.
EnsureEgressNetwork ==
    /\ At("worker", "network") /\ lock = None
    /\ lock' = "worker"
    /\ network' \in IF network = None THEN Subnets ELSE {network}
    /\ proc' = [proc EXCEPT !["worker"].pc = "sidecar", !["worker"].policy = Build(network')]
    /\ UNCHANGED <<config, row, misses, sidecar, main, rules, disk, inbox, faults>>

\* validateEgressSidecar compares every created option; here the policy hash label.
ValidateEgressSidecar(s, policy) == s.policy = policy

\* ensureEgressSidecar adopts a sidecar that matches, or creates one.
EnsureEgressSidecar ==
    /\ At("worker", "sidecar")
    /\ \/ /\ sidecar.state # "missing"
          /\ IF ~ValidateEgressSidecar(sidecar, worker.policy)
             THEN Failing("worker", "permanent")
             ELSE IF sidecar.state = "stopped"
             THEN Failing("worker", "transient")
             ELSE /\ proc' = [proc EXCEPT !["worker"].sidecar = sidecar.id,
                        !["worker"].pc = IF sidecar.state = "created" THEN "attach" ELSE "ask"]
                  /\ UNCHANGED lock
          /\ UNCHANGED <<sidecar, faults>>
       \/ /\ sidecar.state = "missing"
          /\ LET id == CHOOSE i \in SidecarIDs : i \notin {main.peer, client.sidecar}
             IN /\ sidecar' = [NoSidecar EXCEPT !.state = "created", !.id = id, !.policy = worker.policy]
                /\ \/ /\ proc' = [proc EXCEPT !["worker"].sidecar = id, !["worker"].pc = "attach"]
                      /\ UNCHANGED <<lock, faults>>
                   \/ Fault /\ Failing("worker", "transient")
    /\ UNCHANGED <<config, row, misses, network, main, rules, disk, inbox>>

\* bootstrapEgressSidecar attaches and starts: the sidecar enters a namespace of its own.
StartEgressSidecar ==
    /\ At("worker", "attach") /\ sidecar.state = "created" /\ sidecar.id = worker.sidecar
    /\ \E n \in Namespaces \ {main.ns} : sidecar' = [sidecar EXCEPT !.state = "running", !.ns = n]
    /\ rules' = [rules EXCEPT ![sidecar'.ns] = {}]
    /\ Goto("worker", "bootstrap")
    /\ UNCHANGED <<config, row, misses, network, main, disk, inbox, lock, faults>>

\* p writes a request frame and waits for the frame that answers it.
Send(p, kind, policy, ns, next) ==
    /\ inbox' = Append(inbox, [kind |-> kind, policy |-> policy, ns |-> ns, live |-> TRUE])
    /\ proc' = [proc EXCEPT ![p].pc = next, ![p].reply = Idle.reply]

\* The rest of bootstrapEgressSidecar: the namespace of the sidecar's PID goes with the policy.
BootstrapEgressSidecar ==
    /\ At("worker", "bootstrap")
    /\ IF sidecar.state = "running"
       THEN Send("worker", "bootstrap", worker.policy, sidecar.ns, "reply") /\ UNCHANGED lock
       ELSE Failing("worker", "transient") /\ UNCHANGED inbox
    /\ UNCHANGED <<config, row, misses, network, sidecar, main, rules, disk, faults>>

\* Mutant: a running sidecar with the right label is taken for a ready one.
InspectEgressAttestationTrusting ==
    /\ At("worker", "ask")
    /\ IF sidecar.state = "running"
       THEN proc' = [proc EXCEPT !["worker"].pc = "verify",
                        !["worker"].reply = Reply("attested", worker.policy, sidecar.ns)]
       ELSE proc' = [proc EXCEPT !["worker"].pc = "verify"]
    /\ UNCHANGED <<config, row, misses, docker, lock, faults>>

\* inspectEgressAttestation of an adopted sidecar.
InspectEgressAttestation ==
    /\ At("worker", "ask")
    /\ IF sidecar.state = "running"
       THEN Send("worker", "inspect", {}, None, "reply") /\ UNCHANGED lock
       ELSE Failing("worker", "transient") /\ UNCHANGED inbox
    /\ UNCHANGED <<config, row, misses, network, sidecar, main, rules, disk, faults>>

\* exchange: an answer with the request's nonce, or an error (another nonce, a closed
\* connection, a timeout).  The session ends either way.
Exchange(p, pc, next) ==
    /\ At(p, pc)
    /\ \/ proc[p].reply.kind = "attested"
          /\ Goto(p, next) /\ UNCHANGED <<lock, faults>>
       \/ proc[p].reply.kind = "other"
          /\ Failing(p, "transient") /\ UNCHANGED faults
       \/ proc[p].reply.kind = None /\ sidecar.state # "running"
          /\ Failing(p, "transient") /\ UNCHANGED faults
       \/ proc[p].reply.kind = None /\ sidecar.state = "running"
          /\ Fault /\ Failing(p, "transient")
    /\ inbox' = Forget(inbox)
    /\ UNCHANGED <<config, row, misses, network, sidecar, main, rules, disk>>

\* validateEgressAttestation: the policy built now, in the namespace of the sidecar's PID.
ValidateEgressAttestation(reply, policy) == reply.policy = policy /\ reply.ns = sidecar.ns

\* The end of EnsureEgress: the sidecar is inspected again and the attestation validated.
VerifyEgress ==
    /\ At("worker", "verify")
    /\ IF /\ sidecar.state = "running" /\ sidecar.id = worker.sidecar
          /\ ValidateEgressSidecar(sidecar, worker.policy)
          /\ ValidateEgressAttestation(worker.reply, worker.policy)
       THEN Goto("worker", "inspect") /\ lock' = None
       ELSE Failing("worker", "transient")
    /\ UNCHANGED <<config, row, misses, docker, faults>>

-----------------------------------------------------------------------------
(* egressd: Serve, Install, Prepare. *)

\* The answer reaches whoever is attached: the asker, or a later session that refuses it.
Answer(policy) ==
    LET waiting == {p \in DOMAIN proc : proc[p].pc \in {"reply", "checkReply"}}
    IN  proc' = [p \in DOMAIN proc |->
            IF p \notin waiting \/ proc[p].reply.kind # None THEN proc[p]
            ELSE [proc[p] EXCEPT !.reply = IF Head(inbox).live
                                           THEN Reply("attested", policy, sidecar.ns)
                                           ELSE Reply("other", {}, None)]]

\* nft -f replaces the table in one transaction and is read back.
Install ==
    /\ inbox # <<>> /\ Head(inbox).kind = "bootstrap" /\ sidecar.state = "running"
    /\ rules[sidecar.ns] = {}
    /\ rules' = [rules EXCEPT ![sidecar.ns] = Head(inbox).policy]
    /\ UNCHANGED <<config, row, misses, network, sidecar, main, disk, inbox, proc, lock, faults>>

\* Prepare: the namespace is compared, privileges are dropped, and the state is attested.
Prepare ==
    /\ inbox # <<>> /\ Head(inbox).kind = "bootstrap" /\ sidecar.state = "running"
    /\ rules[sidecar.ns] # {} /\ Head(inbox).ns = sidecar.ns
    /\ sidecar' = [sidecar EXCEPT !.anchor = Head(inbox).policy]
    /\ Answer(Head(inbox).policy)
    /\ inbox' = Tail(inbox)
    /\ UNCHANGED <<config, row, misses, network, main, rules, disk, lock, faults>>

\* An inspect request: Verify and answer, or leave when nothing was bootstrapped.
Inspected ==
    /\ inbox # <<>> /\ Head(inbox).kind = "inspect" /\ sidecar.state = "running"
    /\ IF sidecar.anchor # {}
       THEN /\ Answer(sidecar.anchor) /\ inbox' = Tail(inbox)
            /\ UNCHANGED <<sidecar, rules>>
       ELSE SidecarStops /\ UNCHANGED proc
    /\ UNCHANGED <<config, row, misses, network, main, disk, lock, faults>>

-----------------------------------------------------------------------------
(* The rest of Ensure. *)

\* A running main container is kept if its network mode names the ready sidecar.
InspectMain ==
    /\ At("worker", "inspect")
    /\ IF main.state # "running" THEN Goto("worker", "dir") /\ UNCHANGED lock
       ELSE IF main.peer = worker.sidecar THEN Goto("worker", "probe") /\ UNCHANGED lock
       ELSE Failing("worker", "transient")
    /\ UNCHANGED <<config, row, misses, docker, faults>>

\* Mutant: the journal records every resource the call found or made.
JournalOfAll(resource) == {resource}

\* CreatedByThisCall.
Journal(resource) == IF resource \in disk THEN {} ELSE {resource}

Obtain(pc, resource, next) ==
    /\ At("worker", pc)
    /\ disk' = disk \cup {resource}
    /\ proc' = [proc EXCEPT !["worker"].pc = next, !["worker"].created = @ \cup Journal(resource)]
    /\ UNCHANGED <<config, row, misses, network, sidecar, main, rules, inbox, lock, faults>>

EnsureRuntimeDirectory == Obtain("dir", "directory", "image")

\* ensureImage: inspected, pulled under the limiter, inspected again; only failure matters.
EnsureImage ==
    /\ At("worker", "image") /\ Goto("worker", "volume")
    /\ UNCHANGED <<config, row, misses, docker, lock, faults>>

EnsureWorkspaceVolume == Obtain("volume", "volume", "create")

\* ensureStoppedContainerWithEgress adopts a container of the same identity, whatever its
\* network mode, or creates one in the namespace of the ready sidecar.
EnsureStoppedContainer ==
    /\ At("worker", "create")
    /\ \/ main.state # "missing" /\ Goto("worker", "start") /\ UNCHANGED <<main, lock, faults>>
       \/ /\ main.state = "missing"
          /\ main' = [NoMain EXCEPT !.state = "created", !.peer = worker.sidecar]
          /\ \/ /\ proc' = [proc EXCEPT !["worker"].pc = "start",
                                        !["worker"].created = @ \cup {"main"}]
                /\ UNCHANGED <<lock, faults>>
             \/ Fault /\ Failing("worker", "transient")
    /\ UNCHANGED <<config, row, misses, network, sidecar, rules, disk, inbox>>

\* copyArtifacts, Stage and startContainer; Docker joins only a running container.
StartContainer ==
    /\ At("worker", "start")
    /\ IF sidecar.state = "running" /\ sidecar.id = main.peer
       THEN /\ main' = [main EXCEPT !.state = "running", !.ns = sidecar.ns]
            /\ Goto("worker", "confirm") /\ UNCHANGED lock
       ELSE Failing("worker", "transient") /\ UNCHANGED main
    /\ UNCHANGED <<config, row, misses, network, sidecar, rules, disk, inbox, faults>>

\* Ensure's last look; a container that is no longer running is left to the probe.
Confirm ==
    /\ At("worker", "confirm")
    /\ IF main.state # "running" \/ main.peer = worker.sidecar
       THEN Goto("worker", "probe") /\ UNCHANGED lock
       ELSE Failing("worker", "transient")
    /\ UNCHANGED <<config, row, misses, docker, faults>>

\* compensate: in the order of the journal; a volume in use and what fails are left.
Compensate ==
    /\ At("worker", "compensate")
    /\ \/ /\ main' = IF "main" \in worker.created THEN NoMain ELSE main
          /\ disk' = disk \ (IF main'.state = "missing" THEN worker.created
                             ELSE worker.created \ {"volume"})
          /\ UNCHANGED faults
       \/ Fault /\ UNCHANGED main /\ disk' = disk \ (worker.created \ {"volume"})
    /\ rules' = RulesOf(rules, sidecar, main')
    /\ Goto("worker", IF worker.job = "create" THEN "delMain" ELSE "record")
    /\ UNCHANGED <<config, row, misses, network, sidecar, inbox, lock>>

-----------------------------------------------------------------------------
(* CheckSandboxEgress, before every execution and at the end of a reconciliation. *)

\* The request to execute reads the runner's namespace; so does the worker's probe.
AskToExecute ==
    /\ At("client", "idle") /\ row = "running" /\ main.state = "running"
    /\ proc' = [proc EXCEPT !["client"].pc = "checkLock", !["client"].ns = main.ns]
    /\ UNCHANGED <<config, row, misses, docker, lock, faults>>

ProbeNetwork ==
    /\ At("worker", "probe")
    /\ IF main.state = "running"
       THEN /\ proc' = [proc EXCEPT !["worker"].pc = "checkLock", !["worker"].ns = main.ns]
            /\ UNCHANGED lock
       ELSE Failing("worker", "transient")
    /\ UNCHANGED <<config, row, misses, docker, faults>>

\* Mutant: the check believes the policy the sidecar's label names.
CheckedPolicyOfLabel == sidecar.policy

\* InspectEgress builds the policy anew from the configuration and the network.
CheckedPolicy == Build(network)

InspectEgress(p) ==
    /\ At(p, "checkLock") /\ lock = None
    /\ IF network = None THEN Failing(p, "transient")
       ELSE /\ lock' = p
            /\ proc' = [proc EXCEPT ![p].pc = "checkSidecar", ![p].policy = CheckedPolicy]
    /\ UNCHANGED <<config, row, misses, docker, faults>>

InspectSidecar(p) ==
    /\ At(p, "checkSidecar")
    /\ IF sidecar.state = "running" /\ ValidateEgressSidecar(sidecar, proc[p].policy)
       THEN /\ inbox' = Append(inbox, [kind |-> "inspect", policy |-> {}, ns |-> None, live |-> TRUE])
            /\ proc' = [proc EXCEPT ![p].pc = "checkReply", ![p].sidecar = sidecar.id,
                                    ![p].reply = Idle.reply]
            /\ UNCHANGED lock
       ELSE Failing(p, "transient") /\ UNCHANGED inbox
    /\ UNCHANGED <<config, row, misses, network, sidecar, main, rules, disk, faults>>

\* The attestation is validated, InspectEgress returns, and the namespaces are compared.
CompareNamespaces(p) ==
    /\ At(p, "checkVerify")
    /\ IF /\ ValidateEgressAttestation(proc[p].reply, proc[p].policy)
          /\ proc[p].reply.ns = proc[p].ns
       THEN Goto(p, "checkMain") /\ lock' = None
       ELSE Failing(p, "transient")
    /\ UNCHANGED <<config, row, misses, docker, faults>>

\* The network mode of the main container names the sidecar that attested.
CheckMainContainer(p) ==
    /\ At(p, "checkMain")
    /\ IF main.state # "missing" /\ main.peer = proc[p].sidecar
       THEN Goto(p, IF p = "client" THEN "admitted" ELSE "record") /\ UNCHANGED lock
       ELSE Failing(p, "transient")
    /\ UNCHANGED <<config, row, misses, docker, faults>>

\* The request goes to whatever runner listens on the sandbox's socket by now.
Execute ==
    /\ At("client", "admitted")
    /\ Goto("client", IF main.state = "running" THEN "executing" ELSE "refused")
    /\ UNCHANGED <<config, row, misses, docker, lock, faults>>

-----------------------------------------------------------------------------
(* Removal: ReplaceCompute, failRunning and reconcileTerminated. *)

\* deleteManagedContainer.
DeleteManagedContainer ==
    /\ At("worker", "delMain")
    /\ main' = NoMain /\ rules' = RulesOf(rules, sidecar, NoMain)
    /\ Goto("worker", "delSidecar")
    /\ UNCHANGED <<config, row, misses, network, sidecar, disk, inbox, lock, faults>>

\* Mutant: the sidecar of an earlier attempt is left for the next one.
DeleteManagedEgressSidecarOfReplace ==
    /\ At("worker", "delSidecar")
    /\ sidecar' = IF worker.job = "create" THEN sidecar ELSE NoSidecar
    /\ inbox' = IF worker.job = "create" THEN inbox ELSE <<>>
    /\ rules' = RulesOf(rules, sidecar', main)
    /\ Goto("worker", IF worker.job = "replace" THEN "clear" ELSE "delVolume")
    /\ UNCHANGED <<config, row, misses, network, main, disk, lock, faults>>

\* deleteManagedEgressSidecar, which does not take the attach lock.
DeleteManagedEgressSidecar ==
    /\ At("worker", "delSidecar")
    /\ sidecar' = NoSidecar /\ inbox' = <<>> /\ rules' = RulesOf(rules, NoSidecar, main)
    /\ Goto("worker", IF worker.job = "replace" THEN "clear" ELSE "delVolume")
    /\ UNCHANGED <<config, row, misses, network, main, disk, lock, faults>>

\* clearComputeRuntimeFiles, and ReplaceCompute goes on to Ensure.
ClearComputeRuntimeFiles ==
    /\ At("worker", "clear") /\ Goto("worker", "network")
    /\ UNCHANGED <<config, row, misses, docker, lock, faults>>

\* deleteWorkspaceVolume: Docker refuses while a container refers to the volume.
DeleteWorkspaceVolume ==
    /\ At("worker", "delVolume")
    /\ IF main.state = "missing" \/ "volume" \notin disk
       THEN disk' = disk \ {"volume"} /\ Goto("worker", "delDir") /\ UNCHANGED lock
       ELSE Failing("worker", "transient") /\ UNCHANGED disk
    /\ UNCHANGED <<config, row, misses, network, sidecar, main, rules, inbox, faults>>

DeleteRuntimeDirectory ==
    /\ At("worker", "delDir")
    /\ disk' = disk \ {"directory"} /\ Goto("worker", "record")
    /\ UNCHANGED <<config, row, misses, network, sidecar, main, rules, inbox, lock, faults>>

\* The row is still the one that the worker has read.
RowOfJob == CASE worker.job = "create" -> "creating"
              [] worker.job \in {"recover", "replace"} -> "running"
              [] worker.job = "delete" -> "deleting"

\* recordFailure: ScheduleRetry writes Failed whatever the row was, so what comes next is a
\* creation, even of a sandbox that has run; a deletion is only ever retried.
RowAfterError ==
    CASE worker.error \in {"unhealthy", "unrecorded"} \/ worker.job = "delete" -> row
      [] worker.error = "permanent" /\ worker.job # "delete" -> "failed"
      [] worker.error \in {"transient", "pending"} /\ worker.job # "delete" -> "creating"

\* The result of the attempt, written under the row's revision: a changed row is left to the
\* next one.  A runner that has been unhealthy too often is replaced at once.
Record ==
    /\ At("worker", "record")
    /\ LET current == row = RowOfJob
           unhealthy == current /\ row = "running" /\ worker.error = "unhealthy"
       IN  /\ row' = IF ~current THEN row
                     ELSE IF worker.error # None THEN RowAfterError
                     ELSE IF worker.job = "delete" THEN "deleted" ELSE "running"
           /\ misses' = IF unhealthy THEN misses + 1
                        ELSE IF current /\ worker.error = None /\ row = "running" THEN 0 ELSE misses
           /\ proc' = [proc EXCEPT !["worker"] = IF unhealthy /\ misses' >= HealthThreshold
                          THEN [Idle EXCEPT !.pc = "replace", !.job = "recover"] ELSE Idle]
    /\ UNCHANGED <<config, docker, lock, faults>>

-----------------------------------------------------------------------------
(* The user and the faults. *)

DeleteRequest ==
    /\ row \in {"creating", "running", "failed"} /\ row' = "deleting"
    /\ UNCHANGED <<config, misses, docker, proc, lock, faults>>

\* A call to Docker or to the runner fails, or a file operation does.
CallFails(p) ==
    /\ proc[p].pc \notin {"idle", "reply", "checkReply", "create", "compensate", "record",
                           "admitted", "executing", "refused"}
    /\ Fault /\ Failing(p, "transient")
    /\ UNCHANGED <<config, row, misses, docker>>

SidecarDies ==
    /\ sidecar.state = "running" /\ Fault /\ SidecarStops
    /\ UNCHANGED <<config, row, misses, network, main, disk, proc, lock>>

MainDies ==
    /\ main.state = "running" /\ Fault
    /\ main' = [main EXCEPT !.state = "stopped", !.ns = None]
    /\ rules' = RulesOf(rules, sidecar, main')
    /\ UNCHANGED <<config, row, misses, network, sidecar, disk, inbox, proc, lock>>

\* The operator removes the managed network, which Docker allows while no sidecar runs.
NetworkRemoved ==
    /\ network # None /\ sidecar.state # "running" /\ Fault
    /\ network' = None
    /\ UNCHANGED <<config, row, misses, sidecar, main, rules, disk, inbox, proc, lock>>

\* sandboxd dies and starts again, perhaps with another configuration.
Crash ==
    /\ Fault /\ config' \in Configs
    /\ proc' = [p \in DOMAIN proc |-> Idle] /\ lock' = None /\ inbox' = Forget(inbox)
    /\ UNCHANGED <<row, misses, network, sidecar, main, rules, disk>>

-----------------------------------------------------------------------------
CheckReply(p) == Exchange(p, "checkReply", "checkVerify")
Check(p) == InspectEgress(p) \/ InspectSidecar(p) \/ CheckReply(p)
            \/ CompareNamespaces(p) \/ CheckMainContainer(p)
EgressReply == Exchange("worker", "reply", "verify")

EnsureEgress == EnsureEgressNetwork \/ EnsureEgressSidecar \/ StartEgressSidecar
                \/ BootstrapEgressSidecar \/ InspectEgressAttestation \/ EgressReply \/ VerifyEgress
EnsureCompute == InspectMain \/ EnsureRuntimeDirectory \/ EnsureImage \/ EnsureWorkspaceVolume
                 \/ EnsureStoppedContainer \/ StartContainer \/ Confirm \/ Compensate
Remove == DeleteManagedContainer \/ DeleteManagedEgressSidecar \/ ClearComputeRuntimeFiles
          \/ DeleteWorkspaceVolume \/ DeleteRuntimeDirectory
Work == Start \/ InspectRunning \/ RereadBeforeReplace \/ EnsureEgress \/ EnsureCompute \/ ProbeNetwork
        \/ Check("worker") \/ Remove \/ Record
Egressd == Install \/ Prepare \/ Inspected
Faulty == SidecarDies \/ MainDies \/ NetworkRemoved \/ Crash \/ \E p \in DOMAIN proc : CallFails(p)

Next == Work \/ Egressd \/ AskToExecute \/ Check("client") \/ Execute \/ DeleteRequest \/ Faulty

\* Reconciliation is retried until it succeeds, every wait of a check has a deadline, and a
\* running sidecar answers.
Fairness == WF_vars(Work) /\ WF_vars(Egressd) /\ WF_vars(Check("client"))

Spec == Init /\ [][Next]_vars /\ Fairness

-----------------------------------------------------------------------------
(* Properties. *)

(* A main container of an outbound sandbox runs only in a namespace whose rules are already
   installed, whatever crashed, timed out or died while its sidecar was set up (EnsureEgress
   never starts a stopped sidecar and never believes a running one without asking it). *)
RunsFenced == main.state = "running" => "baseline" \in rules[main.ns]

(* An execution that was admitted starts under rules of the present configuration and of a
   managed network, even if the compute was replaced between the check and the request
   (outboundExecutionAdmission checks, then the client connects anew). *)
ExecutionIsConfined ==
    [][client.pc = "admitted" /\ (client.pc)' = "executing" =>
          {"baseline", config} \subseteq rules[main.ns] /\ rules[main.ns] \cap Subnets # {}]_vars

(* The workspace of a sandbox stays as long as its row says it runs: neither a replacement nor
   the compensation of one that fails takes a volume it has only found.  It says nothing of the
   time after a failed replacement has been recorded: then the row is Failed, the retry is a
   creation, and failRunning deletes the volume if that fails. *)
WorkspaceSurvives == row = "running" => "volume" \in disk

(* The sandbox runs, fenced by the rules of the present configuration and network. *)
Served == /\ row = "running" /\ main.state = "running" /\ sidecar.state = "running"
          /\ main.peer = sidecar.id /\ rules[main.ns] = Build(network)

(* When the faults stop, the sandbox is served under the present policy, or is deleted, or
   has failed for good: no left-over of an earlier attempt is retried for ever.  A left-over
   sidecar of an older policy does make the creation after a failed recovery fail for good
   (validateEgressSidecar calls it drift). *)
Settles == []<>(Served \/ row \in {"failed", "deleted"})
=============================================================================
