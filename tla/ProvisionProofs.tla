--------------------------- MODULE ProvisionProofs ---------------------------
(***************************************************************************)
(* Proofs about a sandbox's resources in Docker, for any configurations,   *)
(* networks, namespaces and sidecar ids, and any number of faults.         *)
(*                                                                         *)
(* A main container is fenced because it names its sidecar by an id that   *)
(* is never used again: the sidecar had attested before the main container *)
(* was made, its label never changes, and what its namespace is fenced by  *)
(* is its label or nothing.  So the id that the main container names leads *)
(* to a sidecar with its rules in place whenever that one runs at all,     *)
(* however often either was stopped, and a client that finds the present   *)
(* policy on that sidecar has found it on the main container's namespace.  *)
(* The volume goes only with a deletion or with a failed creation, and a   *)
(* row that says it runs is in neither case: what a replacement undoes is  *)
(* only what it made, and it has found the volume.                         *)
(***************************************************************************)
EXTENDS Provision, SequenceTheorems, TLAPS

(* Types. *)

\* The sets that the state is made of.
Policies == SUBSET ({"baseline", None} \cup Configs \cup Subnets)
IDs == SidecarIDs \cup {None}
Spaces == Namespaces \cup {None}

\* Where a worker and a client can be.
Ensuring == {"sidecar", "attach", "bootstrap", "ask", "reply", "verify", "inspect", "dir", "image",
             "volume", "create", "start", "confirm"}
WorkerPC == {"idle", "lease", "replace", "network", "compensate", "probe", "record"}
            \cup Ensuring \cup Checking \cup Deleting
ClientPC == {"idle", "admitted", "executing", "refused"} \cup Checking

Sidecars == [state : {"missing", "created", "running", "stopped"}, id : IDs, policy : Policies,
             ns : Spaces, anchor : Policies]
Mains == [state : {"missing", "created", "running", "stopped"}, peer : IDs, ns : Spaces]
Replies == [kind : {None, "attested", "other"}, policy : Policies, ns : Spaces]
Frames == [kind : {"bootstrap", "inspect"}, policy : Policies, ns : Spaces, live : BOOLEAN]
Locals == [pc : WorkerPC \cup ClientPC, policy : Policies, sidecar : IDs, ns : Spaces,
           reply : Replies, created : SUBSET {"directory", "volume", "main"},
           job : {None, "create", "recover", "replace", "delete"},
           error : {None, "transient", "permanent", "pending", "unhealthy", "unrecorded"}]

TypeOK ==
    /\ config \in Configs
    /\ row \in {"creating", "running", "failed", "deleting", "deleted"}
    /\ network \in Subnets \cup {None}
    /\ sidecar \in Sidecars
    /\ main \in Mains
    /\ rules \in [Namespaces -> Policies]
    /\ disk \in SUBSET {"directory", "volume"}
    /\ inbox \in Seq(Frames)
    /\ proc \in [{"worker", "client"} -> Locals]
    /\ worker.pc \in WorkerPC /\ client.pc \in ClientPC
    /\ lock \in {None, "worker", "client"}
    /\ faults \in Nat

(* The worker's job, the row and the volume. *)

\* Which job the worker can have with which row, and where the job can take it.
JobInv ==
    /\ worker.pc = "idle" <=> worker.job = None
    /\ worker.job = "create" =>
          /\ row \in {"creating", "deleting"} /\ worker.pc \notin {"clear", "lease", "replace"}
          /\ worker.pc \in Deleting \cup {"compensate"} => worker.error # None
    /\ worker.job = "recover" =>
          /\ row \in {"running", "deleting"}
          /\ worker.pc \in Checking \cup {"lease", "probe", "replace", "record"}
    /\ worker.job = "replace" =>
          row \in {"running", "deleting"} /\ worker.pc \notin {"lease", "replace", "delVolume", "delDir"}
    /\ worker.job = "delete" => row = "deleting" /\ worker.pc \in (Deleting \ {"clear"}) \cup {"record"}

\* The volume is there for every main container and for every row that runs, and the
\* worker of such a row has not made it in this attempt, so does not undo it.
VolumeInv ==
    /\ main.state # "missing" => "volume" \in disk
    /\ worker.pc \in {"create", "start", "confirm"} => "volume" \in disk
    /\ worker.job = "create" /\ worker.error = None /\ worker.pc \in Checking \cup {"probe", "record"}
          => "volume" \in disk
    /\ row = "running" => "volume" \in disk /\ "volume" \notin worker.created

(* The sidecar, its rules and its requests. *)

\* A running sidecar's namespace has the rules of its label or none yet; it has attested only
\* with the rules in place, and whoever writes to it asks for the policy of its label.
SidecarInv ==
    /\ sidecar.state = "running" <=> sidecar.ns # None
    /\ sidecar.state = "missing" <=> sidecar.id = None
    /\ sidecar.state # "missing" => "baseline" \in sidecar.policy
    /\ sidecar.state # "running" => sidecar.anchor = {} /\ inbox = <<>>
    /\ sidecar.state = "running" => rules[sidecar.ns] \in {{}, sidecar.policy}
    /\ sidecar.anchor # {} => sidecar.anchor = sidecar.policy /\ rules[sidecar.ns] = sidecar.policy
    /\ \A i \in 1 .. Len(inbox) : inbox[i].kind = "bootstrap" => inbox[i].policy = sidecar.policy

\* A main container names a sidecar that has attested if it runs, and while it runs itself,
\* its namespace has the rules that were attested.
MainInv ==
    /\ main.state = "running" <=> main.ns # None
    /\ main.state = "missing" <=> main.peer = None
    /\ sidecar.state = "created" => main.peer # sidecar.id
    /\ sidecar.state = "running" /\ main.peer = sidecar.id => sidecar.anchor # {}
    /\ main.state = "running" => "baseline" \in rules[main.ns]
    /\ main.state = "running" /\ main.peer = sidecar.id => rules[main.ns] = sidecar.policy

\* A policy of the present configuration and of a managed network.
Current(policy) == {"baseline", config} \subseteq policy /\ policy \cap Subnets # {}

\* Where the worker relies on the attestation of the sidecar it has remembered.
Attested == {"inspect", "dir", "image", "volume", "create"}

\* What the worker has made sure of, as far as the sidecar it has remembered is still the one
\* that is there.
WorkerInv ==
    /\ worker.pc \in Ensuring => Current(worker.policy)
    /\ worker.pc \in {"attach", "bootstrap"} => sidecar.state # "missing" /\ sidecar.policy = worker.policy
    /\ worker.pc = "verify" => worker.reply.kind = "attested"
    /\ worker.pc \in {"reply", "verify"} /\ worker.reply.kind = "attested" /\ sidecar.state = "running"
          => sidecar.anchor # {}
    /\ worker.pc \in Attested =>
          /\ worker.sidecar # None
          /\ sidecar.id = worker.sidecar =>
                /\ sidecar.policy = worker.policy /\ sidecar.state # "created"
                /\ sidecar.state = "running" => sidecar.anchor # {}

\* What a client has made sure of: once it is admitted, a main container that runs, or can be
\* started again for the sidecar it names, is under the present policy.
ClientInv ==
    /\ client.pc \in Checking \ {"checkLock"} => Current(client.policy)
    /\ client.pc \in {"checkReply", "checkVerify", "checkMain"} =>
          /\ client.sidecar # None
          /\ sidecar.id = client.sidecar => sidecar.policy = client.policy
          /\ main.state = "running" /\ main.peer = client.sidecar => rules[main.ns] = client.policy
    /\ client.pc = "admitted" =>
          /\ main.state = "running" => Current(rules[main.ns])
          /\ main.state # "missing" /\ main.peer = sidecar.id => Current(sidecar.policy)

IInv == TypeOK /\ JobInv /\ VolumeInv /\ SidecarInv /\ MainInv /\ WorkerInv /\ ClientInv
-----------------------------------------------------------------------------
(* What the helpers of the model do. *)

\* Process p of the two gets the locals l; the other keeps its own.
Becomes(p, l) == /\ proc' \in [{"worker", "client"} -> Locals]
                 /\ proc'[p] = l
                 /\ \A q \in {"worker", "client"} \ {p} : proc'[q] = proc[q]

\* A jump changes the program counter of its process.
LEMMA GotoFacts ==
    ASSUME TypeOK, NEW p \in {"worker", "client"}, NEW pc \in WorkerPC \cup ClientPC, Goto(p, pc)
    PROVE  Becomes(p, [proc[p] EXCEPT !.pc = pc])
<1>1. proc[p] \in Locals
  BY DEF TypeOK
<1>2. [proc[p] EXCEPT !.pc = pc] \in Locals
  BY <1>1 DEF Locals
<1>3. proc' = [proc EXCEPT ![p] = [proc[p] EXCEPT !.pc = pc]]
  BY DEF Goto
<1> QED
  BY <1>2, <1>3 DEF TypeOK, Becomes

\* Where a failed worker can go, and what kinds of errors there are.
AfterErrors == {"compensate", "record", "delDir", "delVolume", "replace", "delMain"}
Kinds == {"transient", "permanent"}
Errors == Kinds \cup {"pending", "unhealthy", "unrecorded"}

\* A failure sends the worker to its next duty and refuses a client.
LEMMA FailingFacts ==
    ASSUME TypeOK, NEW p \in {"worker", "client"}, NEW kind \in Kinds, Failing(p, kind)
    PROVE  \E pc \in WorkerPC \cup ClientPC, e \in Errors :
              /\ Becomes(p, [proc[p] EXCEPT !.pc = pc, !.error = e])
              /\ p = "client" => pc = "refused"
              /\ p = "worker" => pc = AfterError(worker.pc) /\ pc \in AfterErrors
              /\ lock' \in {None, "worker", "client"}
<1> DEFINE pc == IF p = "client" THEN "refused" ELSE AfterError(proc[p].pc)
           e == IF p = "client" THEN kind ELSE ErrorOf(proc[p].pc, kind)
<1>1. proc[p] \in Locals
  BY DEF TypeOK
<1>2. AfterError(worker.pc) \in AfterErrors
  BY DEF AfterError, AfterErrors
<1>3. pc \in WorkerPC \cup ClientPC /\ (p = "client" => pc = "refused")
      /\ (p = "worker" => pc = AfterError(worker.pc) /\ pc \in AfterErrors)
  BY <1>2 DEF AfterErrors, WorkerPC, ClientPC, Deleting, worker
<1>4. e \in Errors
  BY DEF ErrorOf, TypeOK, Locals, worker, Kinds, Errors, None
<1>5. proc' = [proc EXCEPT ![p] = [proc[p] EXCEPT !.pc = pc, !.error = e]]
  BY DEF Failing, TypeOK
<1> HIDE DEF pc, e
<1>6. [proc[p] EXCEPT !.pc = pc, !.error = e] \in Locals
  BY <1>1, <1>3, <1>4 DEF Locals, Kinds, Errors
<1>7. Becomes(p, [proc[p] EXCEPT !.pc = pc, !.error = e])
  BY <1>5, <1>6 DEF TypeOK, Becomes
<1>8. lock' \in {None, "worker", "client"}
  BY DEF Failing, TypeOK
<1> QED
  BY <1>3, <1>4, <1>7, <1>8

\* A writer that is gone leaves its frames in the inbox, with nobody waiting for the answers.
LEMMA ForgetFacts ==
    ASSUME NEW s \in Seq(Frames)
    PROVE  /\ Forget(s) \in Seq(Frames) /\ Len(Forget(s)) = Len(s)
           /\ \A i \in 1 .. Len(s) :
                 Forget(s)[i].kind = s[i].kind /\ Forget(s)[i].policy = s[i].policy
<1>1. ASSUME NEW f \in Frames
      PROVE  LET g == [f EXCEPT !.live = FALSE]
             IN  g \in Frames /\ g.kind = f.kind /\ g.policy = f.policy
  BY DEF Frames
<1>2. \A i \in 1 .. Len(s) : s[i] \in Frames
  OBVIOUS
<1>3. Forget(s) = [i \in 1 .. Len(s) |-> [s[i] EXCEPT !.live = FALSE]]
  BY DEF Forget
<1>4. \A i \in 1 .. Len(s) : [s[i] EXCEPT !.live = FALSE] \in Frames
  BY <1>1, <1>2
<1>5. Forget(s) \in Seq(Frames) /\ Len(Forget(s)) = Len(s)
  BY <1>3, <1>4, IsASeq
<1> QED
  BY <1>1, <1>2, <1>3, <1>5

\* Faults are counted.
LEMMA FaultFacts == ASSUME TypeOK, Fault PROVE faults' \in Nat
  BY DEF TypeOK, Fault

-----------------------------------------------------------------------------
(* What a step that leaves part of the state alone keeps. *)

\* A step that leaves the sidecar and its rules alone, and of its inbox at most forgets who
\* waits for the answers.
LEMMA SidecarKept ==
    ASSUME TypeOK, SidecarInv, UNCHANGED <<sidecar, rules>>, inbox' = inbox \/ inbox' = Forget(inbox)
    PROVE  SidecarInv' /\ inbox' \in Seq(Frames)
<1>1. /\ inbox' \in Seq(Frames) /\ Len(inbox') = Len(inbox)
      /\ \A i \in 1 .. Len(inbox) : inbox'[i].kind = inbox[i].kind /\ inbox'[i].policy = inbox[i].policy
  BY ForgetFacts DEF TypeOK
<1>2. inbox = <<>> => inbox' = <<>>
  BY <1>1 DEF TypeOK
<1> QED
  BY <1>1, <1>2 DEF SidecarInv, TypeOK

\* A request frame is written to a running sidecar.
LEMMA SentKept ==
    ASSUME TypeOK, SidecarInv, UNCHANGED <<sidecar, rules>>, sidecar.state = "running",
           NEW f \in Frames, f.kind = "bootstrap" => f.policy = sidecar.policy,
           inbox' = Append(inbox, f)
    PROVE  SidecarInv' /\ inbox' \in Seq(Frames)
<1>1. /\ inbox' \in Seq(Frames) /\ Len(inbox') = Len(inbox) + 1 /\ Len(inbox) \in Nat
      /\ inbox'[Len(inbox) + 1] = f
      /\ \A i \in 1 .. Len(inbox) : inbox'[i] = inbox[i]
  BY AppendProperties DEF TypeOK
<1>2. \A i \in 1 .. Len(inbox') : i \in 1 .. Len(inbox) \/ i = Len(inbox) + 1
  BY <1>1
<1>3. \A i \in 1 .. Len(inbox') : inbox'[i].kind = "bootstrap" => inbox'[i].policy = sidecar.policy
  BY <1>1, <1>2 DEF SidecarInv
<1> QED
  BY <1>1, <1>3 DEF SidecarInv

\* The worker alone moves, and perhaps writes to the sidecar.
LEMMA WorkerMoves ==
    ASSUME IInv, UNCHANGED <<config, row, network, sidecar, main, rules, disk>>,
           SidecarInv', inbox' \in Seq(Frames),
           NEW l, Becomes("worker", l), l.pc \in WorkerPC,
           lock' \in {None, "worker", "client"}, faults' \in Nat,
           JobInv', VolumeInv', WorkerInv'
    PROVE  IInv'
<1> USE DEF IInv
<1>1. client' = client /\ worker' = l
  BY DEF Becomes, client, worker
<1>2. TypeOK'
  BY <1>1 DEF TypeOK, Becomes
<1>3. MainInv'
  BY DEF MainInv
<1>4. ClientInv'
  BY <1>1 DEF ClientInv, Current
<1> QED
  BY <1>2, <1>3, <1>4

\* The worker alone moves.
LEMMA QuietWorker ==
    ASSUME IInv, UNCHANGED <<config, row, network, sidecar, main, rules, disk>>,
           inbox' = inbox \/ inbox' = Forget(inbox),
           NEW l, Becomes("worker", l), l.pc \in WorkerPC,
           lock' \in {None, "worker", "client"}, faults' \in Nat,
           JobInv', VolumeInv', WorkerInv'
    PROVE  IInv'
  BY SidecarKept, WorkerMoves DEF IInv

\* The client alone moves, and perhaps writes to the sidecar.
LEMMA ClientMoves ==
    ASSUME IInv, UNCHANGED <<config, row, network, sidecar, main, rules, disk>>,
           SidecarInv', inbox' \in Seq(Frames),
           NEW l, Becomes("client", l), l.pc \in ClientPC,
           lock' \in {None, "worker", "client"}, faults' \in Nat,
           ClientInv'
    PROVE  IInv'
<1> USE DEF IInv
<1>1. worker' = worker /\ client' = l
  BY DEF Becomes, client, worker
<1>2. TypeOK'
  BY <1>1 DEF TypeOK, Becomes
<1>3. MainInv'
  BY DEF MainInv
<1>4. JobInv' /\ VolumeInv'
  BY <1>1 DEF JobInv, VolumeInv
<1>5. WorkerInv'
  BY <1>1 DEF WorkerInv, Current
<1> QED
  BY <1>2, <1>3, <1>4, <1>5

\* The client alone moves.
LEMMA QuietClient ==
    ASSUME IInv, UNCHANGED <<config, row, network, sidecar, main, rules, disk>>,
           inbox' = inbox \/ inbox' = Forget(inbox),
           NEW l, Becomes("client", l), l.pc \in ClientPC,
           lock' \in {None, "worker", "client"}, faults' \in Nat,
           ClientInv'
    PROVE  IInv'
  BY SidecarKept, ClientMoves DEF IInv

\* Where the worker may be when a call of its fails.
Failable == WorkerPC \ {"idle", "compensate", "record"}

\* The worker's attempt fails: what its own parts of the invariant need.
LEMMA WorkerFails ==
    ASSUME IInv, NEW kind \in Kinds, Failing("worker", kind), worker.pc \in Failable,
           UNCHANGED <<row, disk>>, main'.state # "missing" => "volume" \in disk
    PROVE  /\ JobInv' /\ VolumeInv' /\ WorkerInv'
           /\ proc' \in [{"worker", "client"} -> Locals] /\ worker'.pc \in WorkerPC
           /\ client' = client /\ lock' \in {None, "worker", "client"}
<1> USE DEF IInv
<1>1. PICK pc \in WorkerPC \cup ClientPC, e \in Errors :
              /\ Becomes("worker", [worker EXCEPT !.pc = pc, !.error = e])
              /\ pc = AfterError(worker.pc) /\ pc \in AfterErrors
              /\ lock' \in {None, "worker", "client"}
  BY FailingFacts DEF worker
<1>2. /\ worker \in Locals /\ worker' = [worker EXCEPT !.pc = pc, !.error = e]
      /\ client' = client /\ proc' \in [{"worker", "client"} -> Locals]
  BY <1>1 DEF TypeOK, Becomes, worker, client
<1>3. /\ worker'.pc = pc /\ worker'.error = e /\ e # None
      /\ worker'.job = worker.job /\ worker'.created = worker.created
  BY <1>2 DEF Locals, Kinds, Errors, None
<1>4. pc \notin Ensuring /\ pc \notin Checking /\ pc \notin {"probe", "idle"} /\ pc \in WorkerPC
  BY <1>1 DEF AfterErrors, Ensuring, Checking, WorkerPC, Deleting
<1>5. WorkerInv'
  BY <1>3, <1>4 DEF WorkerInv, Ensuring, Attested
<1>6. JobInv'
  BY <1>1, <1>3 DEF JobInv, AfterError, AfterErrors, Failable, WorkerPC, Ensuring, Checking, Deleting, None
<1>7. VolumeInv'
  BY <1>3, <1>4 DEF VolumeInv, Ensuring
<1> QED
  BY <1>1, <1>2, <1>3, <1>4, <1>5, <1>6, <1>7

\* The same with nothing else changed.
LEMMA QuietFailure ==
    ASSUME IInv, NEW kind \in Kinds, Failing("worker", kind), worker.pc \in Failable,
           UNCHANGED <<config, row, network, sidecar, main, rules, disk>>,
           inbox' = inbox \/ inbox' = Forget(inbox), faults' \in Nat
    PROVE  IInv'
<1> USE DEF IInv
<1>1. /\ JobInv' /\ VolumeInv' /\ WorkerInv'
      /\ proc' \in [{"worker", "client"} -> Locals] /\ worker'.pc \in WorkerPC
      /\ client' = client /\ lock' \in {None, "worker", "client"}
  BY WorkerFails DEF VolumeInv
<1>2. Becomes("worker", worker')
  BY <1>1 DEF Becomes, worker, client
<1> QED
  BY <1>1, <1>2, QuietWorker

\* A check of the client's fails: it is refused.
LEMMA QuietRefusal ==
    ASSUME IInv, NEW kind \in Kinds, Failing("client", kind),
           UNCHANGED <<config, row, network, sidecar, main, rules, disk>>,
           inbox' = inbox \/ inbox' = Forget(inbox), faults' \in Nat
    PROVE  IInv'
<1> USE DEF IInv
<1>1. PICK e \in Errors :
              /\ Becomes("client", [client EXCEPT !.pc = "refused", !.error = e])
              /\ lock' \in {None, "worker", "client"}
  BY FailingFacts DEF client
<1>2. client \in Locals
  BY DEF TypeOK, client
<1>3. [client EXCEPT !.pc = "refused", !.error = e].pc = "refused"
  BY <1>2 DEF Locals
<1>4. client'.pc = "refused"
  BY <1>1, <1>3 DEF Becomes, client
<1>5. ClientInv'
  BY <1>4 DEF ClientInv, Checking
<1> QED
  BY <1>1, <1>3, <1>5, QuietClient DEF ClientPC

\* A jump of the worker changes nothing but its program counter.
LEMMA WorkerGoes ==
    ASSUME TypeOK, NEW pc \in WorkerPC, Goto("worker", pc)
    PROVE  /\ Becomes("worker", worker') /\ client' = client
           /\ worker'.pc = pc /\ worker'.policy = worker.policy /\ worker'.sidecar = worker.sidecar
           /\ worker'.reply = worker.reply /\ worker'.created = worker.created
           /\ worker'.job = worker.job /\ worker'.error = worker.error
<1>1. Becomes("worker", [worker EXCEPT !.pc = pc])
  BY GotoFacts DEF worker
<1>2. worker \in Locals
  BY DEF TypeOK, worker
<1> QED
  BY <1>1, <1>2 DEF Becomes, worker, client, Locals

\* The same of a jump of the client.
LEMMA ClientGoes ==
    ASSUME TypeOK, NEW pc \in ClientPC, Goto("client", pc)
    PROVE  /\ Becomes("client", client') /\ worker' = worker
           /\ client'.pc = pc /\ client'.policy = client.policy /\ client'.sidecar = client.sidecar
<1>1. Becomes("client", [client EXCEPT !.pc = pc])
  BY GotoFacts DEF client
<1>2. client \in Locals
  BY DEF TypeOK, client
<1> QED
  BY <1>1, <1>2 DEF Becomes, worker, client, Locals

\* New locals for the worker, whatever they are.
LEMMA WorkerGets ==
    ASSUME TypeOK, NEW l \in Locals, proc' = [proc EXCEPT !["worker"] = l]
    PROVE  Becomes("worker", l) /\ worker' = l /\ client' = client
  BY DEF TypeOK, Becomes, worker, client

\* Idle, and a new attempt from it.
Attempt(pc, job) == [Idle EXCEPT !.pc = pc, !.job = job]

\* A process that has nothing to do, and an attempt that begins.
LEMMA IdleFacts == Idle \in Locals /\ Idle.pc = "idle" /\ Idle.job = None /\ Idle.created = {}
<1>1. Idle.reply \in Replies
  BY DEF Idle, Replies, Policies, Spaces
<1> QED
  BY <1>1 DEF Idle, Locals, Policies, Spaces, IDs, WorkerPC

\* A new attempt has nothing of an earlier one.
LEMMA AttemptFacts ==
    ASSUME NEW pc \in WorkerPC, NEW job \in {"create", "recover", "replace", "delete"}
    PROVE  /\ Attempt(pc, job) \in Locals
           /\ Attempt(pc, job).pc = pc /\ Attempt(pc, job).job = job
           /\ Attempt(pc, job).created = {} /\ Attempt(pc, job).error = None
<1>1. Idle \in Locals /\ Idle.error = None
  BY IdleFacts DEF Idle
<1>2. Attempt(pc, job) \in Locals
  BY <1>1 DEF Attempt, Locals
<1> QED
  BY <1>1, <1>2, IdleFacts DEF Attempt, Locals

-----------------------------------------------------------------------------
(* The steps of the worker that only move it. *)

\* A job begins with the row that calls for it.
LEMMA StartKeeps == ASSUME IInv, Start PROVE IInv'
<1> USE DEF IInv
<1>1. worker.job = None /\ TypeOK
  BY DEF Start, At, worker, JobInv
<1>2. PICK pc \in {"network", "lease", "delMain"},
           job \in {"create", "recover", "replace", "delete"} :
        /\ proc' = [proc EXCEPT !["worker"] = Attempt(pc, job)]
        /\ \/ row = "creating" /\ pc = "network" /\ job = "create"
           \/ row = "running" /\ pc = "lease" /\ job = "recover"
           \/ row = "deleting" /\ pc = "delMain" /\ job = "delete"
  BY DEF Start, Attempt
<1> DEFINE l == Attempt(pc, job)
<1>3. l \in Locals /\ l.pc = pc /\ l.job = job /\ l.created = {} /\ l.error = None
  BY <1>2, AttemptFacts DEF WorkerPC, Deleting
<1> HIDE DEF l
<1>4. Becomes("worker", l) /\ worker' = l /\ client' = client
  BY <1>1, <1>2, <1>3, WorkerGets DEF l
<1>5. UNCHANGED <<config, row, network, sidecar, main, rules, disk, inbox, lock, faults>>
  BY DEF Start, docker
<1>6. JobInv'
  BY <1>2, <1>3, <1>4, <1>5 DEF JobInv, Checking, Deleting, None
<1>7. VolumeInv' /\ WorkerInv'
  BY <1>2, <1>3, <1>4, <1>5 DEF VolumeInv, WorkerInv, Ensuring, Attested, Checking
<1> QED
  BY <1>2, <1>3, <1>4, <1>5, <1>6, <1>7, QuietWorker DEF TypeOK, WorkerPC, Deleting

\* A row that is to be deleted by now is not replaced.
LEMMA RereadKeeps == ASSUME IInv, RereadBeforeReplace PROVE IInv'
<1> USE DEF IInv
<1>1. PICK job \in {"replace", "delete"} :
        /\ proc' = [proc EXCEPT !["worker"] = Attempt("delMain", job)]
        /\ row = "deleting" <=> job = "delete"
  BY DEF RereadBeforeReplace, Attempt
<1> DEFINE l == Attempt("delMain", job)
<1>2. l \in Locals /\ l.pc = "delMain" /\ l.job = job /\ l.created = {} /\ l.error = None
  BY <1>1, AttemptFacts DEF WorkerPC, Deleting
<1> HIDE DEF l
<1>3. Becomes("worker", l) /\ worker' = l /\ client' = client
  BY <1>1, <1>2, WorkerGets DEF l
<1>4. UNCHANGED <<config, row, network, sidecar, main, rules, disk, inbox, lock, faults>>
  BY DEF RereadBeforeReplace, docker
<1>5. worker.pc = "replace" /\ worker.job \in {None, "create", "recover", "replace", "delete"}
  BY DEF RereadBeforeReplace, At, worker, TypeOK, Locals
<1>6. JobInv'
  BY <1>1, <1>2, <1>3, <1>4, <1>5 DEF JobInv, Checking, Deleting, None
<1>7. VolumeInv' /\ WorkerInv'
  BY <1>1, <1>2, <1>3, <1>4 DEF VolumeInv, WorkerInv, Ensuring, Attested, Checking
<1> QED
  BY <1>1, <1>2, <1>3, <1>4, <1>6, <1>7, QuietWorker DEF TypeOK, WorkerPC, Deleting

\* Failable, spelled out for the steps that may fail.
LEMMA FailableFacts ==
    Failable = {"lease", "replace", "network", "probe"} \cup Ensuring \cup Checking \cup Deleting
  BY DEF Failable, WorkerPC, Ensuring, Checking, Deleting

\* A running sandbox is probed or its compute replaced, or its failure is recorded.
LEMMA InspectRunningKeeps == ASSUME IInv, InspectRunning PROVE IInv'
<1> USE DEF IInv
<1>1. UNCHANGED <<config, row, network, sidecar, main, rules, disk, inbox>> /\ worker.pc = "lease"
  BY DEF InspectRunning, docker, At, worker
<1>2. ASSUME NEW pc \in {"probe", "replace"}, Goto("worker", pc), UNCHANGED <<lock, faults>>
      PROVE  IInv'
  <2>1. /\ Becomes("worker", worker') /\ client' = client /\ worker'.pc = pc
        /\ worker'.created = worker.created /\ worker'.job = worker.job /\ worker'.error = worker.error
    BY <1>2, WorkerGoes DEF WorkerPC
  <2>2. worker.job = "recover"
    BY <1>1 DEF JobInv, TypeOK, Locals, worker, Checking, Deleting, None
  <2>3. JobInv'
    BY <1>1, <2>1, <2>2 DEF JobInv, Checking, None
  <2>4. VolumeInv' /\ WorkerInv'
    BY <1>1, <1>2, <2>1, <2>2 DEF VolumeInv, WorkerInv, Ensuring, Attested, Checking
  <2> QED
    BY <1>1, <1>2, <2>1, <2>3, <2>4, QuietWorker DEF TypeOK, WorkerPC
<1>3. CASE Fault /\ Failing("worker", "permanent")
  BY <1>1, <1>3, QuietFailure, FailableFacts, FaultFacts DEF Kinds
<1> QED
  BY <1>2, <1>3 DEF InspectRunning

\* An answer that does not match is refused; one that does comes from a sidecar with its rules.
LEMMA VerifyKeeps == ASSUME IInv, VerifyEgress PROVE IInv'
<1> USE DEF IInv
<1>1. UNCHANGED <<config, row, network, sidecar, main, rules, disk, inbox, faults>>
      /\ worker.pc = "verify"
  BY DEF VerifyEgress, docker, At, worker
<1>2. CASE /\ sidecar.state = "running" /\ sidecar.id = worker.sidecar
           /\ ValidateEgressSidecar(sidecar, worker.policy)
           /\ Goto("worker", "inspect") /\ lock' = None
  <2>1. /\ Becomes("worker", worker') /\ client' = client
        /\ worker'.pc = "inspect" /\ worker'.policy = worker.policy
        /\ worker'.sidecar = worker.sidecar /\ worker'.created = worker.created
        /\ worker'.job = worker.job /\ worker'.error = worker.error
    BY <1>2, WorkerGoes DEF WorkerPC, Ensuring
  <2>2. WorkerInv'
    BY <1>1, <1>2, <2>1 DEF WorkerInv, SidecarInv, ValidateEgressSidecar, Ensuring, Current
  <2>3. JobInv' /\ VolumeInv'
    BY <1>1, <2>1 DEF JobInv, VolumeInv, Checking, Deleting
  <2> QED
    BY <1>1, <1>2, <2>1, <2>2, <2>3, QuietWorker DEF TypeOK, WorkerPC, Ensuring
<1>3. CASE Failing("worker", "transient")
  BY <1>1, <1>3, QuietFailure, FailableFacts DEF TypeOK, Kinds, Ensuring
<1> QED
  BY <1>2, <1>3 DEF VerifyEgress

\* A main container that names another sidecar is refused.
LEMMA InspectMainKeeps == ASSUME IInv, InspectMain PROVE IInv'
<1> USE DEF IInv
<1>1. UNCHANGED <<config, row, network, sidecar, main, rules, disk, inbox, faults>>
      /\ worker.pc = "inspect"
  BY DEF InspectMain, docker, At, worker
<1>2. ASSUME NEW pc \in {"dir", "probe"}, Goto("worker", pc), lock' = lock,
             pc = "probe" => main.state = "running"
      PROVE  IInv'
  <2>1. /\ Becomes("worker", worker') /\ client' = client
        /\ worker'.pc = pc /\ worker'.policy = worker.policy
        /\ worker'.sidecar = worker.sidecar /\ worker'.created = worker.created
        /\ worker'.job = worker.job /\ worker'.error = worker.error
    BY <1>2, WorkerGoes DEF WorkerPC, Ensuring
  <2>2. WorkerInv'
    BY <1>1, <1>2, <2>1 DEF WorkerInv, Ensuring, Attested, Current
  <2>3. JobInv' /\ VolumeInv'
    BY <1>1, <1>2, <2>1 DEF JobInv, VolumeInv, Checking, Deleting
  <2> QED
    BY <1>1, <1>2, <2>1, <2>2, <2>3, QuietWorker DEF TypeOK, WorkerPC, Ensuring
<1>3. CASE Failing("worker", "transient")
  BY <1>1, <1>3, QuietFailure, FailableFacts DEF TypeOK, Kinds, Ensuring
<1> QED
  BY <1>2, <1>3 DEF InspectMain

\* The main container that was started is looked at once more.
LEMMA ConfirmKeeps == ASSUME IInv, Confirm PROVE IInv'
<1> USE DEF IInv
<1>1. UNCHANGED <<config, row, network, sidecar, main, rules, disk, inbox, faults>>
      /\ worker.pc = "confirm"
  BY DEF Confirm, docker, At, worker
<1>2. CASE Goto("worker", "probe") /\ lock' = lock
  <2>1. /\ Becomes("worker", worker') /\ client' = client
        /\ worker'.pc = "probe" /\ worker'.created = worker.created
        /\ worker'.job = worker.job /\ worker'.error = worker.error
    BY <1>2, WorkerGoes DEF WorkerPC
  <2>2. WorkerInv'
    BY <1>1, <2>1 DEF WorkerInv, Ensuring, Attested
  <2>3. JobInv' /\ VolumeInv'
    BY <1>1, <2>1 DEF JobInv, VolumeInv, Checking, Deleting
  <2> QED
    BY <1>1, <1>2, <2>1, <2>2, <2>3, QuietWorker DEF TypeOK, WorkerPC
<1>3. CASE Failing("worker", "transient")
  BY <1>1, <1>3, QuietFailure, FailableFacts DEF TypeOK, Kinds, Ensuring
<1> QED
  BY <1>2, <1>3 DEF Confirm

\* The image is there, or it is not.
LEMMA ImageKeeps == ASSUME IInv, EnsureImage PROVE IInv'
<1> USE DEF IInv
<1>1. UNCHANGED <<config, row, network, sidecar, main, rules, disk, inbox, lock, faults>>
      /\ worker.pc = "image" /\ Goto("worker", "volume")
  BY DEF EnsureImage, docker, At, worker
<1>2. /\ Becomes("worker", worker') /\ client' = client
      /\ worker'.pc = "volume" /\ worker'.policy = worker.policy
      /\ worker'.sidecar = worker.sidecar /\ worker'.created = worker.created
      /\ worker'.job = worker.job /\ worker'.error = worker.error
  BY <1>1, WorkerGoes DEF WorkerPC, Ensuring
<1>3. WorkerInv'
  BY <1>1, <1>2 DEF WorkerInv, Ensuring, Attested, Current
<1>4. JobInv' /\ VolumeInv'
  BY <1>1, <1>2 DEF JobInv, VolumeInv, Checking, Deleting
<1> QED
  BY <1>1, <1>2, <1>3, <1>4, QuietWorker DEF TypeOK, WorkerPC, Ensuring

\* The replacement begins anew, with the volume it had.
LEMMA ClearKeeps == ASSUME IInv, ClearComputeRuntimeFiles PROVE IInv'
<1> USE DEF IInv
<1>1. UNCHANGED <<config, row, network, sidecar, main, rules, disk, inbox, lock, faults>>
      /\ worker.pc = "clear" /\ Goto("worker", "network")
  BY DEF ClearComputeRuntimeFiles, docker, At, worker
<1>2. /\ Becomes("worker", worker') /\ client' = client
      /\ worker'.pc = "network" /\ worker'.created = worker.created
      /\ worker'.job = worker.job /\ worker'.error = worker.error
  BY <1>1, WorkerGoes DEF WorkerPC
<1>3. WorkerInv'
  BY <1>1, <1>2 DEF WorkerInv, Ensuring, Attested
<1>4. JobInv' /\ VolumeInv'
  BY <1>1, <1>2 DEF JobInv, VolumeInv, Checking, Deleting
<1> QED
  BY <1>1, <1>2, <1>3, <1>4, QuietWorker DEF TypeOK, WorkerPC

-----------------------------------------------------------------------------
(* EnsureEgress. *)

\* The policy of a configuration and a network is a current one.
LEMMA BuildFacts ==
    ASSUME TypeOK, NEW subnet \in Subnets
    PROVE  Build(subnet) \in Policies /\ Current(Build(subnet))
  BY DEF TypeOK, Build, Policies, Current

\* A policy is built for the network that is there.
LEMMA NetworkKeeps == ASSUME IInv, EnsureEgressNetwork PROVE IInv'
<1> USE DEF IInv
<1>1. network' \in Subnets /\ worker.pc = "network" /\ lock' = "worker"
      /\ UNCHANGED <<config, row, sidecar, main, rules, disk, inbox, faults>>
  BY DEF EnsureEgressNetwork, At, worker, TypeOK
<1>2. PICK policy : policy = Build(network')
  OBVIOUS
<1>3. policy \in Policies /\ Current(policy)
  BY <1>1, <1>2, BuildFacts
<1> DEFINE l == [worker EXCEPT !.pc = "sidecar", !.policy = policy]
<1>4. worker \in Locals
  BY DEF TypeOK, worker
<1>5. /\ l \in Locals /\ l.pc = "sidecar" /\ l.policy = policy /\ l.created = worker.created
      /\ l.job = worker.job /\ l.error = worker.error
  BY <1>3, <1>4 DEF Locals, WorkerPC, Ensuring
<1>6. proc' = [proc EXCEPT !["worker"] = l]
  BY <1>2 DEF EnsureEgressNetwork, TypeOK, worker
<1> HIDE DEF l
<1>7. Becomes("worker", l) /\ worker' = l /\ client' = client
  BY <1>5, <1>6, WorkerGets
<1>8. TypeOK'
  BY <1>1, <1>5, <1>7 DEF TypeOK, Becomes, WorkerPC, Ensuring
<1>9. WorkerInv'
  BY <1>1, <1>3, <1>5, <1>7 DEF WorkerInv, Current, Attested
<1>10. JobInv' /\ VolumeInv'
  BY <1>1, <1>5, <1>7 DEF JobInv, VolumeInv, Checking, Deleting
<1>11. SidecarInv' /\ MainInv'
  BY <1>1, SidecarKept DEF MainInv
<1>12. ClientInv'
  BY <1>1, <1>7 DEF ClientInv, Current
<1> QED
  BY <1>8, <1>9, <1>10, <1>11, <1>12

\* The worker takes the sidecar s for its own.
LEMMA WorkerTakes ==
    ASSUME TypeOK, NEW s \in SidecarIDs, NEW pc \in WorkerPC,
           proc' = [proc EXCEPT !["worker"].sidecar = s, !["worker"].pc = pc]
    PROVE  /\ Becomes("worker", worker') /\ client' = client
           /\ worker'.pc = pc /\ worker'.policy = worker.policy /\ worker'.sidecar = s
           /\ worker'.created = worker.created
           /\ worker'.job = worker.job /\ worker'.error = worker.error
<1> DEFINE l == [worker EXCEPT !.sidecar = s, !.pc = pc]
<1>1. worker \in Locals
  BY DEF TypeOK, worker
<1>2. /\ l \in Locals /\ l.pc = pc /\ l.policy = worker.policy /\ l.created = worker.created
      /\ l.job = worker.job /\ l.error = worker.error /\ l.sidecar = s
  BY <1>1 DEF Locals, IDs
<1>3. proc' = [proc EXCEPT !["worker"] = l]
  BY DEF TypeOK, worker
<1> HIDE DEF l
<1> QED
  BY <1>2, <1>3, WorkerGets

\* A sidecar that is there is adopted or refused.
LEMMA AdoptKeeps ==
    ASSUME IInv, EnsureEgressSidecar, sidecar.state # "missing"
    PROVE  IInv'
<1> USE DEF IInv
<1>1. UNCHANGED <<config, row, network, sidecar, main, rules, disk, inbox, faults>>
      /\ worker.pc = "sidecar"
  BY DEF EnsureEgressSidecar, At, worker
<1>2. CASE \E kind \in Kinds : Failing("worker", kind)
  BY <1>1, <1>2, QuietFailure, FailableFacts DEF TypeOK, Ensuring
<1>3. ASSUME NEW pc \in {"attach", "ask"}, sidecar.policy = worker.policy,
             proc' = [proc EXCEPT !["worker"].sidecar = sidecar.id, !["worker"].pc = pc], lock' = lock
      PROVE  IInv'
  <2>1. sidecar.id \in SidecarIDs /\ pc \in WorkerPC
    BY DEF TypeOK, Sidecars, IDs, SidecarInv, WorkerPC, Ensuring
  <2>2. /\ Becomes("worker", worker') /\ client' = client
        /\ worker'.pc = pc /\ worker'.policy = worker.policy
        /\ worker'.created = worker.created
        /\ worker'.job = worker.job /\ worker'.error = worker.error
    BY <1>3, <2>1, WorkerTakes
  <2>3. WorkerInv'
    BY <1>1, <1>3, <2>2 DEF WorkerInv, Ensuring, Attested, Current
  <2>4. JobInv' /\ VolumeInv'
    BY <1>1, <1>3, <2>2 DEF JobInv, VolumeInv, Checking, Deleting
  <2> QED
    BY <1>1, <1>3, <2>1, <2>2, <2>3, <2>4, QuietWorker DEF TypeOK
<1> QED
  BY <1>2, <1>3 DEF EnsureEgressSidecar, ValidateEgressSidecar, Kinds

\* A sidecar that is missing is created under an id that nothing refers to.
LEMMA CreateSidecarKeeps ==
    ASSUME IInv, EnsureEgressSidecar, sidecar.state = "missing"
    PROVE  IInv'
<1> USE DEF IInv
<1>1. UNCHANGED <<config, row, network, main, rules, disk, inbox>> /\ worker.pc = "sidecar"
  BY DEF EnsureEgressSidecar, At, worker
<1>2. PICK id : id = CHOOSE i \in SidecarIDs : i \notin {main.peer, client.sidecar}
  OBVIOUS
<1>3. main.peer \in IDs /\ client.sidecar \in IDs /\ worker.policy \in Policies
  BY DEF TypeOK, Mains, Locals, client, worker
<1>4. id \in SidecarIDs /\ id # main.peer /\ id # client.sidecar /\ id # None
  BY <1>2, <1>3, ProvisionAssumption DEF IDs, None
<1>5. sidecar' = [NoSidecar EXCEPT !.state = "created", !.id = id, !.policy = worker.policy]
  BY <1>2 DEF EnsureEgressSidecar
<1>6. /\ sidecar' \in Sidecars
      /\ sidecar'.state = "created" /\ sidecar'.id = id /\ sidecar'.policy = worker.policy
      /\ sidecar'.ns = None /\ sidecar'.anchor = {}
  BY <1>3, <1>4, <1>5 DEF NoSidecar, Sidecars, IDs, Policies, Spaces
<1>7. Current(worker.policy)
  BY <1>1 DEF WorkerInv, Ensuring
<1>8. inbox = <<>> /\ Len(inbox) = 0
  BY DEF SidecarInv
<1>9. SidecarInv'
  BY <1>1, <1>4, <1>6, <1>7, <1>8 DEF SidecarInv, Current
<1>10. MainInv'
  BY <1>1, <1>4, <1>6 DEF MainInv
<1>11. ASSUME client' = client PROVE ClientInv'
  BY <1>1, <1>4, <1>6, <1>11 DEF ClientInv, Current
<1>12. CASE /\ proc' = [proc EXCEPT !["worker"].sidecar = id, !["worker"].pc = "attach"]
            /\ UNCHANGED <<lock, faults>>
  <2>1. /\ Becomes("worker", worker') /\ client' = client
        /\ worker'.pc = "attach" /\ worker'.policy = worker.policy
        /\ worker'.created = worker.created
        /\ worker'.job = worker.job /\ worker'.error = worker.error
    BY <1>4, <1>12, WorkerTakes DEF WorkerPC, Ensuring
  <2>2. TypeOK'
    BY <1>1, <1>6, <1>12, <2>1 DEF TypeOK, Becomes, WorkerPC, Ensuring
  <2>3. WorkerInv'
    BY <1>1, <1>6, <1>7, <2>1 DEF WorkerInv, Attested, Current
  <2>4. JobInv' /\ VolumeInv'
    BY <1>1, <2>1 DEF JobInv, VolumeInv, Checking, Deleting
  <2> QED
    BY <1>9, <1>10, <1>11, <2>1, <2>2, <2>3, <2>4
<1>13. CASE Fault /\ Failing("worker", "transient")
  <2>1. /\ JobInv' /\ VolumeInv' /\ WorkerInv'
        /\ proc' \in [{"worker", "client"} -> Locals] /\ worker'.pc \in WorkerPC
        /\ client' = client /\ lock' \in {None, "worker", "client"}
    BY <1>1, <1>13, WorkerFails, FailableFacts DEF Kinds, Ensuring, VolumeInv
  <2>2. TypeOK'
    BY <1>1, <1>6, <1>13, <2>1, FaultFacts DEF TypeOK
  <2> QED
    BY <1>9, <1>10, <1>11, <2>1, <2>2
<1> QED
  BY <1>2, <1>12, <1>13 DEF EnsureEgressSidecar

\* A sidecar that starts gets a namespace without rules, and nothing runs in it yet.
LEMMA StartSidecarKeeps == ASSUME IInv, StartEgressSidecar PROVE IInv'
<1> USE DEF IInv
<1>1. UNCHANGED <<config, row, network, main, disk, inbox, lock, faults>> /\ worker.pc = "attach"
      /\ sidecar.state = "created" /\ sidecar.id = worker.sidecar /\ Goto("worker", "bootstrap")
  BY DEF StartEgressSidecar, At, worker
<1>2. PICK n \in Namespaces \ {main.ns} : sidecar' = [sidecar EXCEPT !.state = "running", !.ns = n]
  BY DEF StartEgressSidecar
<1>3. sidecar \in Sidecars /\ n # None
  BY ProvisionAssumption DEF TypeOK, None
<1>4. /\ sidecar' \in Sidecars /\ sidecar'.state = "running" /\ sidecar'.ns = n
      /\ sidecar'.id = sidecar.id /\ sidecar'.policy = sidecar.policy
      /\ sidecar'.anchor = sidecar.anchor
  BY <1>2, <1>3 DEF Sidecars, Spaces
<1>5. rules' = [rules EXCEPT ![n] = {}] /\ rules \in [Namespaces -> Policies] /\ {} \in Policies
  BY <1>4 DEF StartEgressSidecar, TypeOK, Policies
<1>6. rules' \in [Namespaces -> Policies] /\ rules'[n] = {}
      /\ (main.state = "running" => rules'[main.ns] = rules[main.ns])
  BY <1>5
<1>7. /\ Becomes("worker", worker') /\ client' = client
      /\ worker'.pc = "bootstrap" /\ worker'.policy = worker.policy
      /\ worker'.created = worker.created
      /\ worker'.job = worker.job /\ worker'.error = worker.error
  BY <1>1, WorkerGoes DEF WorkerPC, Ensuring
<1>8. TypeOK'
  BY <1>1, <1>4, <1>6, <1>7 DEF TypeOK, Becomes, WorkerPC, Ensuring
<1>9. inbox = <<>> /\ Len(inbox) = 0 /\ sidecar.anchor = {}
  BY <1>1 DEF SidecarInv
<1>10. SidecarInv'
  BY <1>1, <1>3, <1>4, <1>6, <1>9 DEF SidecarInv
<1>11. MainInv'
  BY <1>1, <1>4, <1>6 DEF MainInv
<1>12. WorkerInv'
  BY <1>1, <1>4, <1>7 DEF WorkerInv, Ensuring, Attested, Current
<1>13. ClientInv'
  BY <1>1, <1>4, <1>6, <1>7 DEF ClientInv, Current
<1>14. JobInv' /\ VolumeInv'
  BY <1>1, <1>7 DEF JobInv, VolumeInv, Checking, Deleting
<1> QED
  BY <1>8, <1>10, <1>11, <1>12, <1>13, <1>14

\* A worker that writes a frame waits for its answer with no reply yet.
LEMMA WorkerSends ==
    ASSUME IInv, NEW kind \in {"bootstrap", "inspect"}, NEW policy \in Policies, NEW ns \in Spaces,
           kind = "bootstrap" => policy = sidecar.policy,
           sidecar.state = "running", worker.pc \in Ensuring,
           Send("worker", kind, policy, ns, "reply"),
           UNCHANGED <<config, row, network, sidecar, main, rules, disk, lock, faults>>
    PROVE  IInv'
<1> USE DEF IInv
<1> DEFINE l == [worker EXCEPT !.pc = "reply", !.reply = Idle.reply]
           f == [kind |-> kind, policy |-> policy, ns |-> ns, live |-> TRUE]
<1>1. worker \in Locals /\ Idle.reply \in Replies /\ Idle.reply.kind = None
  BY DEF TypeOK, worker, Idle, Replies, Policies, Spaces
<1>2. /\ l \in Locals /\ l.pc = "reply" /\ l.policy = worker.policy /\ l.created = worker.created
      /\ l.job = worker.job /\ l.error = worker.error /\ l.reply.kind = None
  BY <1>1 DEF Locals, WorkerPC, Ensuring
<1>3. f \in Frames /\ f.kind = kind /\ f.policy = policy
  BY DEF Frames
<1>4. proc' = [proc EXCEPT !["worker"] = l] /\ inbox' = Append(inbox, f)
  BY DEF Send, TypeOK, worker
<1> HIDE DEF l, f
<1>5. Becomes("worker", l) /\ worker' = l /\ client' = client
  BY <1>2, <1>4, WorkerGets
<1>6. SidecarInv' /\ inbox' \in Seq(Frames)
  BY <1>3, <1>4, SentKept
<1>7. WorkerInv'
  BY <1>2, <1>5 DEF WorkerInv, Attested, Current, None
<1>8. JobInv' /\ VolumeInv'
  BY <1>2, <1>5 DEF JobInv, VolumeInv, Checking, Deleting, Ensuring
<1> QED
  BY <1>2, <1>5, <1>6, <1>7, <1>8, WorkerMoves DEF TypeOK, WorkerPC, Ensuring

\* What is asked of the sidecar is the policy of its label.
LEMMA BootstrapKeeps == ASSUME IInv, BootstrapEgressSidecar PROVE IInv'
<1> USE DEF IInv
<1>1. UNCHANGED <<config, row, network, sidecar, main, rules, disk, faults>>
      /\ worker.pc = "bootstrap" /\ worker.policy = sidecar.policy
      /\ worker.policy \in Policies /\ sidecar.ns \in Spaces
  BY DEF BootstrapEgressSidecar, At, worker, WorkerInv, TypeOK, Sidecars, Locals
<1>2. CASE /\ sidecar.state = "running" /\ UNCHANGED lock
           /\ Send("worker", "bootstrap", worker.policy, sidecar.ns, "reply")
  BY <1>1, <1>2, WorkerSends DEF Ensuring
<1>3. CASE Failing("worker", "transient") /\ UNCHANGED inbox
  BY <1>1, <1>3, QuietFailure, FailableFacts DEF TypeOK, Kinds, Ensuring
<1> QED
  BY <1>2, <1>3 DEF BootstrapEgressSidecar

\* A question changes no rules.
LEMMA AskSidecarKeeps == ASSUME IInv, InspectEgressAttestation PROVE IInv'
<1> USE DEF IInv
<1>1. UNCHANGED <<config, row, network, sidecar, main, rules, disk, faults>>
      /\ worker.pc = "ask" /\ {} \in Policies /\ None \in Spaces
  BY DEF InspectEgressAttestation, At, worker, Policies, Spaces
<1>2. CASE /\ sidecar.state = "running" /\ UNCHANGED lock
           /\ Send("worker", "inspect", {}, None, "reply")
  BY <1>1, <1>2, WorkerSends DEF Ensuring
<1>3. CASE Failing("worker", "transient") /\ UNCHANGED inbox
  BY <1>1, <1>3, QuietFailure, FailableFacts DEF TypeOK, Kinds, Ensuring
<1> QED
  BY <1>2, <1>3 DEF InspectEgressAttestation

-----------------------------------------------------------------------------
(* An answer is taken, or the wait is given up. *)

\* Who has an answer knows what the sidecar has attested.
LEMMA EgressReplyKeeps == ASSUME IInv, EgressReply PROVE IInv'
<1> USE DEF IInv
<1>1. UNCHANGED <<config, row, network, sidecar, main, rules, disk>> /\ inbox' = Forget(inbox)
      /\ worker.pc = "reply"
  BY DEF EgressReply, Exchange, At, worker
<1>2. CASE /\ worker.reply.kind = "attested" /\ Goto("worker", "verify") /\ UNCHANGED <<lock, faults>>
  <2>1. /\ Becomes("worker", worker') /\ client' = client
        /\ worker'.pc = "verify" /\ worker'.policy = worker.policy /\ worker'.reply = worker.reply
        /\ worker'.created = worker.created
        /\ worker'.job = worker.job /\ worker'.error = worker.error
    BY <1>2, WorkerGoes DEF WorkerPC, Ensuring
  <2>2. WorkerInv'
    BY <1>1, <1>2, <2>1 DEF WorkerInv, Ensuring, Attested, Current
  <2>3. JobInv' /\ VolumeInv'
    BY <1>1, <2>1 DEF JobInv, VolumeInv, Checking, Deleting
  <2> QED
    BY <1>1, <1>2, <2>1, <2>2, <2>3, QuietWorker DEF TypeOK, WorkerPC, Ensuring
<1>3. CASE Failing("worker", "transient") /\ (Fault \/ UNCHANGED faults)
  BY <1>1, <1>3, QuietFailure, FailableFacts, FaultFacts DEF TypeOK, Kinds, Ensuring
<1> QED
  BY <1>2, <1>3 DEF EgressReply, Exchange, worker

\* The worker's check takes its answer.
LEMMA WorkerCheckReplyKeeps == ASSUME IInv, CheckReply("worker") PROVE IInv'
<1> USE DEF IInv
<1>1. UNCHANGED <<config, row, network, sidecar, main, rules, disk>> /\ inbox' = Forget(inbox)
      /\ worker.pc = "checkReply"
  BY DEF CheckReply, Exchange, At, worker
<1>2. CASE Goto("worker", "checkVerify") /\ UNCHANGED <<lock, faults>>
  <2>1. /\ Becomes("worker", worker') /\ client' = client
        /\ worker'.pc = "checkVerify" /\ worker'.created = worker.created
        /\ worker'.job = worker.job /\ worker'.error = worker.error
    BY <1>2, WorkerGoes DEF WorkerPC, Checking
  <2>2. WorkerInv'
    BY <1>1, <1>2, <2>1 DEF WorkerInv, Ensuring, Attested
  <2>3. JobInv' /\ VolumeInv'
    BY <1>1, <2>1 DEF JobInv, VolumeInv, Checking, Deleting
  <2> QED
    BY <1>1, <1>2, <2>1, <2>2, <2>3, QuietWorker DEF TypeOK, WorkerPC, Checking
<1>3. CASE Failing("worker", "transient") /\ (Fault \/ UNCHANGED faults)
  BY <1>1, <1>3, QuietFailure, FailableFacts, FaultFacts DEF TypeOK, Kinds, Checking
<1> QED
  BY <1>2, <1>3 DEF CheckReply, Exchange

\* The client's check takes its answer.
LEMMA ClientCheckReplyKeeps == ASSUME IInv, CheckReply("client") PROVE IInv'
<1> USE DEF IInv
<1>1. UNCHANGED <<config, row, network, sidecar, main, rules, disk>> /\ inbox' = Forget(inbox)
      /\ client.pc = "checkReply"
  BY DEF CheckReply, Exchange, At, client
<1>2. CASE Goto("client", "checkVerify") /\ UNCHANGED <<lock, faults>>
  <2>1. /\ Becomes("client", client') /\ client'.pc = "checkVerify"
        /\ client'.policy = client.policy /\ client'.sidecar = client.sidecar
    BY <1>2, ClientGoes DEF ClientPC, Checking
  <2>2. ClientInv'
    BY <1>1, <2>1 DEF ClientInv, Checking, Current
  <2> QED
    BY <1>1, <1>2, <2>1, <2>2, QuietClient DEF TypeOK, ClientPC, Checking
<1>3. CASE Failing("client", "transient") /\ (Fault \/ UNCHANGED faults)
  BY <1>1, <1>3, QuietRefusal, FaultFacts DEF TypeOK, Kinds
<1> QED
  BY <1>2, <1>3 DEF CheckReply, Exchange

-----------------------------------------------------------------------------
(* CheckSandboxEgress. *)

\* A step of the worker's check, its probe and its success included: the program counter, and
\* the locals the check uses.
LEMMA WorkerChecks ==
    ASSUME IInv, NEW l \in Locals, proc' = [proc EXCEPT !["worker"] = l],
           worker.pc \in Checking \cup {"probe"}, l.pc \in Checking \cup {"record"},
           l.job = worker.job, l.error = worker.error, l.created = worker.created,
           UNCHANGED <<config, row, network, sidecar, main, rules, disk>>,
           SidecarInv', inbox' \in Seq(Frames),
           lock' \in {None, "worker", "client"}, faults' \in Nat
    PROVE  IInv'
<1> USE DEF IInv
<1>1. Becomes("worker", l) /\ worker' = l
  BY WorkerGets
<1>2. WorkerInv'
  BY <1>1 DEF WorkerInv, Ensuring, Attested, Checking
<1>3. JobInv' /\ VolumeInv'
  BY <1>1 DEF JobInv, VolumeInv, Checking, Deleting
<1> QED
  BY <1>1, <1>2, <1>3, WorkerMoves DEF WorkerPC

\* The worker's check looks at the network.
LEMMA ProbeKeeps == ASSUME IInv, ProbeNetwork PROVE IInv'
<1> USE DEF IInv
<1>1. UNCHANGED <<config, row, network, sidecar, main, rules, disk, inbox, faults>>
      /\ worker.pc = "probe"
  BY DEF ProbeNetwork, docker, At, worker
<1>2. CASE /\ proc' = [proc EXCEPT !["worker"].pc = "checkLock", !["worker"].ns = main.ns]
           /\ UNCHANGED lock
  <2> DEFINE l == [worker EXCEPT !.pc = "checkLock", !.ns = main.ns]
  <2>1. worker \in Locals /\ main.ns \in Spaces
    BY DEF TypeOK, worker, Mains
  <2>2. /\ l \in Locals /\ l.pc = "checkLock" /\ l.created = worker.created
        /\ l.job = worker.job /\ l.error = worker.error
    BY <2>1 DEF Locals, WorkerPC, Checking
  <2>3. proc' = [proc EXCEPT !["worker"] = l]
    BY <1>2 DEF TypeOK, worker
  <2> HIDE DEF l
  <2> QED
    BY <1>1, <1>2, <2>2, <2>3, WorkerChecks, SidecarKept DEF TypeOK, Checking
<1>3. CASE Failing("worker", "transient")
  BY <1>1, <1>3, QuietFailure, FailableFacts DEF TypeOK, Kinds
<1> QED
  BY <1>2, <1>3 DEF ProbeNetwork

\* The worker's check looks at the sidecar's label.
LEMMA WorkerInspectEgressKeeps == ASSUME IInv, InspectEgress("worker") PROVE IInv'
<1> USE DEF IInv
<1>1. UNCHANGED <<config, row, network, sidecar, main, rules, disk, inbox, faults>>
      /\ worker.pc = "checkLock"
  BY DEF InspectEgress, docker, At, worker
<1>2. CASE /\ network # None /\ lock' = "worker"
           /\ proc' = [proc EXCEPT !["worker"].pc = "checkSidecar", !["worker"].policy = CheckedPolicy]
  <2>1. worker \in Locals /\ CheckedPolicy \in Policies
    BY <1>2, BuildFacts DEF TypeOK, worker, CheckedPolicy
  <2> DEFINE l == [worker EXCEPT !.pc = "checkSidecar", !.policy = CheckedPolicy]
  <2>2. /\ l \in Locals /\ l.pc = "checkSidecar" /\ l.created = worker.created
        /\ l.job = worker.job /\ l.error = worker.error
    BY <2>1 DEF Locals, WorkerPC, Checking
  <2>3. proc' = [proc EXCEPT !["worker"] = l]
    BY <1>2 DEF TypeOK, worker
  <2> HIDE DEF l
  <2> QED
    BY <1>1, <1>2, <2>2, <2>3, WorkerChecks, SidecarKept DEF TypeOK, Checking
<1>3. CASE Failing("worker", "transient")
  BY <1>1, <1>3, QuietFailure, FailableFacts DEF TypeOK, Kinds, Checking
<1> QED
  BY <1>2, <1>3 DEF InspectEgress

\* The frame that asks the sidecar to attest.
LEMMA InspectFrame ==
    LET f == [kind |-> "inspect", policy |-> {}, ns |-> None, live |-> TRUE]
    IN  f \in Frames /\ f.kind = "inspect"
  BY DEF Frames, Policies, Spaces

\* The worker's check asks the sidecar.
LEMMA WorkerInspectSidecarKeeps == ASSUME IInv, InspectSidecar("worker") PROVE IInv'
<1> USE DEF IInv
<1>1. UNCHANGED <<config, row, network, sidecar, main, rules, disk, faults>>
      /\ worker.pc = "checkSidecar"
  BY DEF InspectSidecar, At, worker
<1>2. CASE /\ sidecar.state = "running" /\ UNCHANGED lock
           /\ inbox' = Append(inbox, [kind |-> "inspect", policy |-> {}, ns |-> None, live |-> TRUE])
           /\ proc' = [proc EXCEPT !["worker"].pc = "checkReply", !["worker"].sidecar = sidecar.id,
                                   !["worker"].reply = Idle.reply]
  <2> DEFINE l == [worker EXCEPT !.pc = "checkReply", !.sidecar = sidecar.id, !.reply = Idle.reply]
  <2>1. worker \in Locals /\ sidecar.id \in IDs /\ Idle.reply \in Replies
    BY DEF TypeOK, worker, Sidecars, Idle, Replies, Policies, Spaces
  <2>2. /\ l \in Locals /\ l.pc = "checkReply" /\ l.created = worker.created
        /\ l.job = worker.job /\ l.error = worker.error
    BY <2>1 DEF Locals, WorkerPC, Checking
  <2>3. proc' = [proc EXCEPT !["worker"] = l]
    BY <1>2 DEF TypeOK, worker
  <2>4. SidecarInv' /\ inbox' \in Seq(Frames)
    BY <1>1, <1>2, InspectFrame, SentKept
  <2> HIDE DEF l
  <2> QED
    BY <1>1, <1>2, <2>2, <2>3, <2>4, WorkerChecks DEF TypeOK, Checking
<1>3. CASE Failing("worker", "transient") /\ UNCHANGED inbox
  BY <1>1, <1>3, QuietFailure, FailableFacts DEF TypeOK, Kinds, Checking
<1> QED
  BY <1>2, <1>3 DEF InspectSidecar

\* The worker's check compares, looks at the main container and is done.
LEMMA WorkerCompareKeeps ==
    ASSUME IInv, CompareNamespaces("worker") \/ CheckMainContainer("worker")
    PROVE  IInv'
<1> USE DEF IInv
<1>1. UNCHANGED <<config, row, network, sidecar, main, rules, disk, inbox, faults>>
      /\ worker.pc \in {"checkVerify", "checkMain"}
  BY DEF CompareNamespaces, CheckMainContainer, docker, At, worker
<1>2. ASSUME NEW pc \in {"checkMain", "record"}, Goto("worker", pc), lock' \in {None, lock}
      PROVE  IInv'
  <2> DEFINE l == [worker EXCEPT !.pc = pc]
  <2>1. worker \in Locals
    BY DEF TypeOK, worker
  <2>2. /\ l \in Locals /\ l.pc = pc /\ l.created = worker.created
        /\ l.job = worker.job /\ l.error = worker.error
    BY <2>1 DEF Locals, WorkerPC, Checking
  <2>3. proc' = [proc EXCEPT !["worker"] = l]
    BY <1>2 DEF Goto, TypeOK, worker
  <2> HIDE DEF l
  <2> QED
    BY <1>1, <1>2, <2>2, <2>3, WorkerChecks, SidecarKept DEF TypeOK, Checking
<1>3. CASE Failing("worker", "transient")
  BY <1>1, <1>3, QuietFailure, FailableFacts DEF TypeOK, Kinds, Checking
<1> QED
  BY <1>2, <1>3 DEF CompareNamespaces, CheckMainContainer

\* New locals for the client.
LEMMA ClientGets ==
    ASSUME TypeOK, NEW l \in Locals, proc' = [proc EXCEPT !["client"] = l]
    PROVE  Becomes("client", l) /\ client' = l /\ worker' = worker
  BY DEF TypeOK, Becomes, worker, client

\* A client asks, with nothing checked yet.
LEMMA AskToExecuteKeeps == ASSUME IInv, AskToExecute PROVE IInv'
<1> USE DEF IInv
<1>1. UNCHANGED <<config, row, network, sidecar, main, rules, disk, inbox, lock, faults>>
  BY DEF AskToExecute, docker
<1> DEFINE l == [client EXCEPT !.pc = "checkLock", !.ns = main.ns]
<1>2. client \in Locals /\ main.ns \in Spaces
  BY DEF TypeOK, client, Mains
<1>3. l \in Locals /\ l.pc = "checkLock"
  BY <1>2 DEF Locals, ClientPC, Checking
<1>4. proc' = [proc EXCEPT !["client"] = l]
  BY DEF AskToExecute, TypeOK, client
<1> HIDE DEF l
<1>5. Becomes("client", l) /\ client' = l
  BY <1>3, <1>4, ClientGets
<1>6. ClientInv'
  BY <1>3, <1>5 DEF ClientInv
<1> QED
  BY <1>1, <1>3, <1>5, <1>6, QuietClient DEF TypeOK, ClientPC, Checking

\* The client's check finds the present policy or refuses.
LEMMA ClientInspectEgressKeeps == ASSUME IInv, InspectEgress("client") PROVE IInv'
<1> USE DEF IInv
<1>1. UNCHANGED <<config, row, network, sidecar, main, rules, disk, inbox, faults>>
  BY DEF InspectEgress, docker
<1>2. CASE /\ network # None /\ lock' = "client"
           /\ proc' = [proc EXCEPT !["client"].pc = "checkSidecar", !["client"].policy = CheckedPolicy]
  <2>1. PICK policy : policy = CheckedPolicy
    OBVIOUS
  <2>2. client \in Locals /\ policy \in Policies /\ Current(policy)
    BY <1>2, <2>1, BuildFacts DEF TypeOK, client, CheckedPolicy
  <2> DEFINE l == [client EXCEPT !.pc = "checkSidecar", !.policy = policy]
  <2>3. l \in Locals /\ l.pc = "checkSidecar" /\ l.policy = policy
    BY <2>2 DEF Locals, ClientPC, Checking
  <2>4. proc' = [proc EXCEPT !["client"] = l]
    BY <1>2, <2>1 DEF TypeOK, client
  <2> HIDE DEF l
  <2>5. Becomes("client", l) /\ client' = l
    BY <2>3, <2>4, ClientGets
  <2>6. ClientInv'
    BY <1>1, <2>2, <2>3, <2>5 DEF ClientInv, Current
  <2> QED
    BY <1>1, <1>2, <2>3, <2>5, <2>6, QuietClient DEF TypeOK, ClientPC, Checking
<1>3. CASE Failing("client", "transient")
  BY <1>1, <1>3, QuietRefusal DEF TypeOK, Kinds
<1> QED
  BY <1>2, <1>3 DEF InspectEgress

\* The client's check asks the sidecar whose label it has read.
LEMMA ClientInspectSidecarKeeps == ASSUME IInv, InspectSidecar("client") PROVE IInv'
<1> USE DEF IInv
<1>1. UNCHANGED <<config, row, network, sidecar, main, rules, disk, faults>>
      /\ client.pc = "checkSidecar"
  BY DEF InspectSidecar, At, client
<1>2. CASE /\ sidecar.state = "running" /\ sidecar.policy = client.policy /\ UNCHANGED lock
           /\ inbox' = Append(inbox, [kind |-> "inspect", policy |-> {}, ns |-> None, live |-> TRUE])
           /\ proc' = [proc EXCEPT !["client"].pc = "checkReply", !["client"].sidecar = sidecar.id,
                                   !["client"].reply = Idle.reply]
  <2> DEFINE l == [client EXCEPT !.pc = "checkReply", !.sidecar = sidecar.id, !.reply = Idle.reply]
  <2>1. client \in Locals /\ sidecar.id \in IDs /\ Idle.reply \in Replies
    BY DEF TypeOK, client, Sidecars, Idle, Replies, Policies, Spaces
  <2>2. l \in Locals /\ l.pc = "checkReply" /\ l.policy = client.policy /\ l.sidecar = sidecar.id
    BY <2>1 DEF Locals, ClientPC, Checking
  <2>3. proc' = [proc EXCEPT !["client"] = l]
    BY <1>2 DEF TypeOK, client
  <2>4. SidecarInv' /\ inbox' \in Seq(Frames)
    BY <1>1, <1>2, InspectFrame, SentKept
  <2> HIDE DEF l
  <2>5. Becomes("client", l) /\ client' = l
    BY <2>2, <2>3, ClientGets
  <2>6. ClientInv'
    BY <1>1, <1>2, <2>2, <2>5 DEF ClientInv, SidecarInv, MainInv, Current, Checking
  <2> QED
    BY <1>1, <1>2, <2>2, <2>4, <2>5, <2>6, ClientMoves DEF TypeOK, ClientPC, Checking
<1>3. CASE Failing("client", "transient") /\ UNCHANGED inbox
  BY <1>1, <1>3, QuietRefusal DEF TypeOK, Kinds
<1> QED
  BY <1>2, <1>3 DEF InspectSidecar, ValidateEgressSidecar, client

\* The client's check compares what was attested.
LEMMA ClientCompareKeeps == ASSUME IInv, CompareNamespaces("client") PROVE IInv'
<1> USE DEF IInv
<1>1. UNCHANGED <<config, row, network, sidecar, main, rules, disk, inbox, faults>>
      /\ client.pc = "checkVerify"
  BY DEF CompareNamespaces, docker, At, client
<1>2. CASE Goto("client", "checkMain") /\ lock' = None
  <2>1. /\ Becomes("client", client') /\ client'.pc = "checkMain"
        /\ client'.policy = client.policy /\ client'.sidecar = client.sidecar
    BY <1>2, ClientGoes DEF ClientPC, Checking
  <2>2. ClientInv'
    BY <1>1, <2>1 DEF ClientInv, Checking, Current
  <2> QED
    BY <1>1, <1>2, <2>1, <2>2, QuietClient DEF TypeOK, ClientPC, Checking
<1>3. CASE Failing("client", "transient")
  BY <1>1, <1>3, QuietRefusal DEF TypeOK, Kinds
<1> QED
  BY <1>2, <1>3 DEF CompareNamespaces

\* The main container names the sidecar that the client found under the present policy: what
\* it runs under, and may be started under again, is that policy.
LEMMA ClientCheckMainKeeps == ASSUME IInv, CheckMainContainer("client") PROVE IInv'
<1> USE DEF IInv
<1>1. UNCHANGED <<config, row, network, sidecar, main, rules, disk, inbox, faults>>
      /\ client.pc = "checkMain"
  BY DEF CheckMainContainer, docker, At, client
<1>2. CASE main.peer = client.sidecar /\ Goto("client", "admitted") /\ UNCHANGED lock
  <2>1. Becomes("client", client') /\ client'.pc = "admitted"
    BY <1>2, ClientGoes DEF ClientPC
  <2>2. ClientInv'
    BY <1>1, <1>2, <2>1 DEF ClientInv, Checking, Current
  <2> QED
    BY <1>1, <1>2, <2>1, <2>2, QuietClient DEF TypeOK, ClientPC
<1>3. CASE Failing("client", "transient")
  BY <1>1, <1>3, QuietRefusal DEF TypeOK, Kinds
<1> QED
  BY <1>2, <1>3 DEF CheckMainContainer, client

\* The client is served.
LEMMA ExecuteKeeps == ASSUME IInv, Execute PROVE IInv'
<1> USE DEF IInv
<1>1. UNCHANGED <<config, row, network, sidecar, main, rules, disk, inbox, lock, faults>>
  BY DEF Execute, docker
<1>2. PICK pc \in {"executing", "refused"} : Goto("client", pc)
  BY DEF Execute
<1>3. Becomes("client", client') /\ client'.pc = pc
  BY <1>2, ClientGoes DEF ClientPC
<1>4. ClientInv'
  BY <1>2, <1>3 DEF ClientInv, Checking
<1> QED
  BY <1>1, <1>2, <1>3, <1>4, QuietClient DEF TypeOK, ClientPC

-----------------------------------------------------------------------------
(* egressd. *)

\* What is left of an inbox when its head is taken.
LEMMA HeadFacts ==
    ASSUME IInv, inbox # <<>>
    PROVE  /\ Head(inbox) \in Frames
           /\ Head(inbox).kind = "bootstrap" => Head(inbox).policy = sidecar.policy
           /\ Tail(inbox) \in Seq(Frames)
           /\ \A i \in 1 .. Len(Tail(inbox)) :
                 Tail(inbox)[i].kind = "bootstrap" => Tail(inbox)[i].policy = sidecar.policy
<1> USE DEF IInv
<1>1. inbox \in Seq(Frames)
  BY DEF TypeOK
<1>2. /\ Head(inbox) = inbox[1] /\ 1 \in 1 .. Len(inbox) /\ Head(inbox) \in Frames
      /\ Tail(inbox) \in Seq(Frames) /\ Len(Tail(inbox)) = Len(inbox) - 1 /\ Len(inbox) \in Nat
      /\ \A i \in 1 .. Len(Tail(inbox)) : Tail(inbox)[i] = inbox[i + 1] /\ i + 1 \in 1 .. Len(inbox)
  BY <1>1
<1> QED
  BY <1>2 DEF SidecarInv

\* egressd fences its namespace with the policy it is asked for, that of its label.
LEMMA InstallKeeps == ASSUME IInv, Install PROVE IInv'
<1> USE DEF IInv
<1>1. UNCHANGED <<config, row, network, sidecar, main, disk, inbox, proc, lock, faults>>
      /\ sidecar.state = "running" /\ rules[sidecar.ns] = {}
      /\ rules' = [rules EXCEPT ![sidecar.ns] = sidecar.policy]
  BY HeadFacts DEF Install
<1>2. sidecar.ns \in Namespaces /\ sidecar.policy \in Policies /\ "baseline" \in sidecar.policy
      /\ sidecar.anchor = {}
  BY <1>1 DEF TypeOK, Sidecars, Spaces, SidecarInv
<1>3. rules' \in [Namespaces -> Policies] /\ rules'[sidecar.ns] = sidecar.policy
      /\ (main.state = "running" => rules'[main.ns] = rules[main.ns])
  BY <1>1, <1>2 DEF TypeOK, MainInv
<1>4. TypeOK'
  BY <1>1, <1>3 DEF TypeOK, worker, client
<1>5. SidecarInv'
  BY <1>1, <1>2, <1>3 DEF SidecarInv
<1>6. MainInv'
  BY <1>1, <1>3 DEF MainInv
<1>7. JobInv' /\ VolumeInv'
  BY <1>1 DEF JobInv, VolumeInv, worker
<1>8. WorkerInv'
  BY <1>1 DEF WorkerInv, worker, Current
<1>9. ClientInv'
  BY <1>1, <1>3 DEF ClientInv, client, Current
<1> QED
  BY <1>4, <1>5, <1>6, <1>7, <1>8, <1>9

\* Whoever waits gets an answer; nothing else of the two processes changes.
LEMMA AnswerFacts ==
    ASSUME TypeOK, NEW policy \in Policies, Answer(policy)
    PROVE  /\ proc' \in [{"worker", "client"} -> Locals]
           /\ \A p \in {"worker", "client"} :
                 /\ proc'[p].pc = proc[p].pc /\ proc'[p].policy = proc[p].policy
                 /\ proc'[p].sidecar = proc[p].sidecar /\ proc'[p].created = proc[p].created
                 /\ proc'[p].job = proc[p].job /\ proc'[p].error = proc[p].error
                 /\ proc[p].pc \notin {"reply", "checkReply"} => proc'[p].reply = proc[p].reply
<1>1. DOMAIN proc = {"worker", "client"} /\ sidecar.ns \in Spaces
  BY DEF TypeOK, Sidecars
<1>2. PICK r \in Replies :
        proc' = [p \in DOMAIN proc |->
                   IF p \notin {q \in DOMAIN proc : proc[q].pc \in {"reply", "checkReply"}}
                      \/ proc[p].reply.kind # None
                   THEN proc[p] ELSE [proc[p] EXCEPT !.reply = r]]
  <2>1. Reply("attested", policy, sidecar.ns) \in Replies /\ Reply("other", {}, None) \in Replies
    BY <1>1 DEF Reply, Replies, Policies, Spaces
  <2> QED
    BY <2>1 DEF Answer
<1>3. \A p \in {"worker", "client"} : proc[p] \in Locals
  BY DEF TypeOK
<1>4. ASSUME NEW l \in Locals
      PROVE  LET m == [l EXCEPT !.reply = r]
             IN /\ m \in Locals /\ m.pc = l.pc /\ m.policy = l.policy /\ m.sidecar = l.sidecar
                /\ m.created = l.created /\ m.job = l.job /\ m.error = l.error
  BY DEF Locals
<1>5. \A p \in {"worker", "client"} :
         proc'[p] = proc[p] \/ (proc'[p] = [proc[p] EXCEPT !.reply = r] /\ proc[p].pc \in {"reply", "checkReply"})
  BY <1>1, <1>2
<1>6. \A p \in {"worker", "client"} : proc'[p] \in Locals
  BY <1>3, <1>4, <1>5
<1>7. proc' \in [{"worker", "client"} -> Locals]
  BY <1>1, <1>2, <1>6
<1>8. ASSUME NEW p \in {"worker", "client"}
      PROVE  /\ proc'[p].pc = proc[p].pc /\ proc'[p].policy = proc[p].policy
             /\ proc'[p].sidecar = proc[p].sidecar /\ proc'[p].created = proc[p].created
             /\ proc'[p].job = proc[p].job /\ proc'[p].error = proc[p].error
             /\ proc[p].pc \notin {"reply", "checkReply"} => proc'[p].reply = proc[p].reply
  <2>1. CASE proc'[p] = proc[p]
    BY <2>1
  <2>2. CASE proc'[p] = [proc[p] EXCEPT !.reply = r] /\ proc[p].pc \in {"reply", "checkReply"}
    BY <1>3, <1>4, <2>2
  <2> QED
    BY <1>5, <2>1, <2>2
<1> QED
  BY <1>7, <1>8

\* The answer of a sidecar that has attested.
LEMMA AnswerKeeps ==
    ASSUME IInv, NEW policy \in Policies, Answer(policy), inbox # <<>>, inbox' = Tail(inbox),
           sidecar.state = "running",
           sidecar' = [sidecar EXCEPT !.anchor = sidecar.policy],
           rules[sidecar.ns] = sidecar.policy,
           UNCHANGED <<config, row, network, main, rules, disk, lock, faults>>
    PROVE  IInv'
<1> USE DEF IInv
<1>1. /\ proc' \in [{"worker", "client"} -> Locals]
      /\ worker'.pc = worker.pc /\ worker'.policy = worker.policy
      /\ worker'.sidecar = worker.sidecar /\ worker'.created = worker.created
      /\ worker'.job = worker.job /\ worker'.error = worker.error
      /\ worker.pc \notin {"reply", "checkReply"} => worker'.reply = worker.reply
      /\ client'.pc = client.pc /\ client'.policy = client.policy
      /\ client'.sidecar = client.sidecar
  BY AnswerFacts DEF worker, client
<1>2. sidecar \in Sidecars /\ "baseline" \in sidecar.policy /\ sidecar.policy \in Policies
  BY DEF TypeOK, Sidecars, SidecarInv
<1>3. /\ sidecar' \in Sidecars /\ sidecar'.state = "running" /\ sidecar'.ns = sidecar.ns
      /\ sidecar'.id = sidecar.id /\ sidecar'.policy = sidecar.policy
      /\ sidecar'.anchor = sidecar.policy
  BY <1>2 DEF Sidecars
<1>4. TypeOK'
  BY <1>1, <1>3, HeadFacts DEF TypeOK
<1>5. SidecarInv'
  BY <1>2, <1>3, HeadFacts DEF SidecarInv
<1>6. MainInv'
  BY <1>2, <1>3 DEF MainInv
<1>7. JobInv' /\ VolumeInv'
  BY <1>1 DEF JobInv, VolumeInv
<1>8. WorkerInv'
  BY <1>1, <1>2, <1>3 DEF WorkerInv, Current
<1>9. ClientInv'
  BY <1>1, <1>3 DEF ClientInv, Current
<1> QED
  BY <1>4, <1>5, <1>6, <1>7, <1>8, <1>9

\* A second bootstrap finds the rules in place and attests to them.
LEMMA PrepareKeeps == ASSUME IInv, Prepare PROVE IInv'
<1> USE DEF IInv
<1>1. Head(inbox).policy = sidecar.policy /\ rules[sidecar.ns] = sidecar.policy
  BY HeadFacts DEF Prepare, SidecarInv
<1>2. sidecar.policy \in Policies /\ sidecar' = [sidecar EXCEPT !.anchor = sidecar.policy]
      /\ Answer(sidecar.policy)
  BY <1>1 DEF Prepare, TypeOK, Sidecars
<1> QED
  BY <1>1, <1>2, AnswerKeeps DEF Prepare

\* The namespaces in use keep their rules.
LEMMA RulesOfFacts ==
    ASSUME TypeOK, NEW s, NEW m
    PROVE  /\ RulesOf(rules, s, m) \in [Namespaces -> Policies]
           /\ s.ns \in Namespaces => RulesOf(rules, s, m)[s.ns] = rules[s.ns]
           /\ m.ns \in Namespaces => RulesOf(rules, s, m)[m.ns] = rules[m.ns]
<1>1. {} \in Policies
  BY DEF Policies
<1> QED
  BY <1>1 DEF TypeOK, RulesOf

\* The sidecar's process ends.
LEMMA StopsKeeps ==
    ASSUME IInv, sidecar.state = "running", SidecarStops, faults' \in Nat,
           UNCHANGED <<config, row, network, main, disk, proc, lock>>
    PROVE  IInv'
<1> USE DEF IInv
<1>1. sidecar' = [sidecar EXCEPT !.state = "stopped", !.ns = None, !.anchor = {}]
      /\ inbox' = <<>> /\ rules' = RulesOf(rules, sidecar', main)
  BY DEF SidecarStops
<1>2. sidecar \in Sidecars /\ sidecar.id # None /\ "baseline" \in sidecar.policy
  BY DEF TypeOK, SidecarInv
<1>3. /\ sidecar' \in Sidecars /\ sidecar'.state = "stopped" /\ sidecar'.ns = None
      /\ sidecar'.id = sidecar.id /\ sidecar'.policy = sidecar.policy
      /\ sidecar'.anchor = {}
  BY <1>1, <1>2 DEF Sidecars, Spaces, Policies
<1>4. rules' \in [Namespaces -> Policies]
      /\ (main.state = "running" => rules'[main.ns] = rules[main.ns])
  BY <1>1, RulesOfFacts DEF MainInv, TypeOK, Mains, Spaces
<1>5. TypeOK'
  BY <1>1, <1>3, <1>4 DEF TypeOK, worker, client
<1>6. SidecarInv'
  BY <1>1, <1>2, <1>3 DEF SidecarInv
<1>7. MainInv'
  BY <1>3, <1>4 DEF MainInv
<1>8. JobInv' /\ VolumeInv'
  BY DEF JobInv, VolumeInv, worker
<1>9. WorkerInv'
  BY <1>3 DEF WorkerInv, worker, Current
<1>10. ClientInv'
  BY <1>3, <1>4 DEF ClientInv, client, Current
<1> QED
  BY <1>5, <1>6, <1>7, <1>8, <1>9, <1>10

\* An inspection is answered, or ends a sidecar that has attested to nothing.
LEMMA InspectedKeeps == ASSUME IInv, Inspected PROVE IInv'
<1> USE DEF IInv
<1>1. CASE sidecar.anchor # {}
  <2>1. sidecar.anchor = sidecar.policy /\ rules[sidecar.ns] = sidecar.policy
    BY <1>1 DEF SidecarInv
  <2>2. sidecar \in Sidecars /\ sidecar.policy \in Policies
    BY DEF TypeOK, Sidecars
  <2>3. sidecar' = [sidecar EXCEPT !.anchor = sidecar.policy]
    BY <1>1, <2>1, <2>2 DEF Inspected, Sidecars
  <2> QED
    BY <1>1, <2>1, <2>2, <2>3, AnswerKeeps DEF Inspected
<1>2. CASE sidecar.anchor = {}
  BY <1>2, StopsKeeps DEF Inspected, TypeOK
<1> QED
  BY <1>1, <1>2

\* A sidecar that dies leaves its rules to a main container in its namespace.
LEMMA SidecarDiesKeeps == ASSUME IInv, SidecarDies PROVE IInv'
  BY StopsKeeps, FaultFacts DEF SidecarDies, IInv

-----------------------------------------------------------------------------
(* The rest of Ensure. *)

\* The worker remembers what it has made.
LEMMA ObtainFacts ==
    ASSUME TypeOK, NEW pc, NEW resource \in {"directory", "volume"}, NEW next \in WorkerPC,
           Obtain(pc, resource, next)
    PROVE  /\ UNCHANGED <<config, row, network, sidecar, main, rules, inbox, lock, faults>>
           /\ disk' = disk \cup {resource} /\ worker.pc = pc
           /\ Becomes("worker", worker') /\ client' = client
           /\ worker'.pc = next /\ worker'.policy = worker.policy /\ worker'.sidecar = worker.sidecar
           /\ worker'.created = worker.created \cup Journal(resource)
           /\ worker'.job = worker.job /\ worker'.error = worker.error
<1>1. worker \in Locals /\ Journal(resource) \in SUBSET {"directory", "volume", "main"}
  BY DEF TypeOK, worker, Journal
<1>2. worker.created \cup Journal(resource) \in SUBSET {"directory", "volume", "main"}
  BY <1>1 DEF Locals
<1> DEFINE l == [worker EXCEPT !.pc = next, !.created = worker.created \cup Journal(resource)]
<1>3. /\ l \in Locals /\ l.pc = next /\ l.policy = worker.policy /\ l.sidecar = worker.sidecar
      /\ l.created = worker.created \cup Journal(resource)
      /\ l.job = worker.job /\ l.error = worker.error
  BY <1>1, <1>2 DEF Locals
<1>4. proc' = [proc EXCEPT !["worker"] = l]
  BY DEF Obtain, TypeOK, worker
<1> HIDE DEF l
<1>5. Becomes("worker", l) /\ worker' = l /\ client' = client
  BY <1>3, <1>4, WorkerGets
<1> QED
  BY <1>3, <1>5 DEF Obtain, At, worker

\* The directory and the volume are made, and remembered if they were not there.
LEMMA ObtainKeeps ==
    ASSUME IInv, EnsureRuntimeDirectory \/ EnsureWorkspaceVolume
    PROVE  IInv'
<1> USE DEF IInv
<1>1. PICK pc \in {"dir", "volume"}, resource \in {"directory", "volume"}, next \in {"image", "create"} :
        Obtain(pc, resource, next) /\ (next = "create" => resource = "volume")
  BY DEF EnsureRuntimeDirectory, EnsureWorkspaceVolume
<1>2. /\ UNCHANGED <<config, row, network, sidecar, main, rules, inbox, lock, faults>>
      /\ disk' = disk \cup {resource} /\ worker.pc = pc
      /\ Becomes("worker", worker') /\ client' = client
      /\ worker'.pc = next /\ worker'.policy = worker.policy /\ worker'.sidecar = worker.sidecar
      /\ worker'.created = worker.created \cup Journal(resource)
      /\ worker'.job = worker.job /\ worker'.error = worker.error
  BY <1>1, ObtainFacts DEF WorkerPC, Ensuring
<1>3. TypeOK'
  BY <1>2 DEF TypeOK, Becomes, WorkerPC, Ensuring
<1>4. JobInv'
  BY <1>2 DEF JobInv, Checking, Deleting
<1>5. VolumeInv'
  BY <1>1, <1>2 DEF VolumeInv, Checking, Journal
<1>6. WorkerInv'
  BY <1>2 DEF WorkerInv, Ensuring, Attested, Current
<1>7. SidecarInv' /\ MainInv'
  BY <1>2, SidecarKept DEF MainInv
<1>8. ClientInv'
  BY <1>2 DEF ClientInv, Current
<1> QED
  BY <1>3, <1>4, <1>5, <1>6, <1>7, <1>8

\* A main container is created for the sidecar that attested, or one that is there is taken.
LEMMA CreateMainKeeps == ASSUME IInv, EnsureStoppedContainer PROVE IInv'
<1> USE DEF IInv
<1>1. UNCHANGED <<config, row, network, sidecar, rules, disk, inbox>> /\ worker.pc = "create"
      /\ "volume" \in disk
  BY DEF EnsureStoppedContainer, At, worker, VolumeInv
<1>2. CASE main.state # "missing" /\ Goto("worker", "start") /\ UNCHANGED <<main, lock, faults>>
  <2>1. /\ Becomes("worker", worker') /\ client' = client
        /\ worker'.pc = "start" /\ worker'.policy = worker.policy
        /\ worker'.created = worker.created
        /\ worker'.job = worker.job /\ worker'.error = worker.error
    BY <1>2, WorkerGoes DEF WorkerPC, Ensuring
  <2>2. WorkerInv'
    BY <1>1, <1>2, <2>1 DEF WorkerInv, Ensuring, Attested, Current
  <2>3. JobInv' /\ VolumeInv'
    BY <1>1, <1>2, <2>1 DEF JobInv, VolumeInv, Checking, Deleting
  <2> QED
    BY <1>1, <1>2, <2>1, <2>2, <2>3, QuietWorker DEF TypeOK, WorkerPC, Ensuring
<1>3. CASE /\ main.state = "missing"
           /\ main' = [NoMain EXCEPT !.state = "created", !.peer = worker.sidecar]
  <2>1. worker.sidecar \in IDs /\ worker.sidecar # None /\ worker \in Locals
    BY <1>1 DEF TypeOK, worker, Locals, WorkerInv, Attested
  <2>2. main' \in Mains /\ main'.state = "created" /\ main'.peer = worker.sidecar /\ main'.ns = None
    BY <1>3, <2>1 DEF NoMain, Mains, Spaces
  <2>3. SidecarInv'
    BY <1>1, SidecarKept
  <2>4. MainInv'
    BY <1>1, <2>1, <2>2 DEF MainInv, WorkerInv, Attested
  <2>5. ASSUME client' = client PROVE ClientInv'
    BY <1>1, <2>2, <2>5 DEF ClientInv, WorkerInv, Attested, Ensuring, Current
  <2>6. CASE /\ proc' = [proc EXCEPT !["worker"].pc = "start",
                                     !["worker"].created = worker.created \cup {"main"}]
             /\ UNCHANGED <<lock, faults>>
    <3> DEFINE l == [worker EXCEPT !.pc = "start", !.created = worker.created \cup {"main"}]
    <3>1. /\ l \in Locals /\ l.pc = "start" /\ l.policy = worker.policy
          /\ l.created = worker.created \cup {"main"}
          /\ l.job = worker.job /\ l.error = worker.error
      BY <2>1 DEF Locals, WorkerPC, Ensuring
    <3>2. proc' = [proc EXCEPT !["worker"] = l]
      BY <2>6 DEF TypeOK, worker
    <3> HIDE DEF l
    <3>3. Becomes("worker", l) /\ worker' = l /\ client' = client
      BY <3>1, <3>2, WorkerGets
    <3>4. TypeOK'
      BY <1>1, <2>2, <2>6, <3>1, <3>3 DEF TypeOK, Becomes, WorkerPC, Ensuring
    <3>5. WorkerInv'
      BY <1>1, <3>1, <3>3 DEF WorkerInv, Ensuring, Attested, Current
    <3>6. JobInv' /\ VolumeInv'
      BY <1>1, <3>1, <3>3 DEF JobInv, VolumeInv, Checking, Deleting
    <3> QED
      BY <2>3, <2>4, <2>5, <3>3, <3>4, <3>5, <3>6
  <2>7. CASE Fault /\ Failing("worker", "transient")
    <3>1. /\ JobInv' /\ VolumeInv' /\ WorkerInv'
          /\ proc' \in [{"worker", "client"} -> Locals] /\ worker'.pc \in WorkerPC
          /\ client' = client /\ lock' \in {None, "worker", "client"}
      BY <1>1, <2>7, WorkerFails, FailableFacts DEF Kinds, Ensuring
    <3>2. TypeOK'
      BY <1>1, <2>2, <2>7, <3>1, FaultFacts DEF TypeOK
    <3> QED
      BY <2>3, <2>4, <2>5, <3>1, <3>2
  <2> QED
    BY <1>3, <2>6, <2>7 DEF EnsureStoppedContainer, worker
<1> QED
  BY <1>2, <1>3 DEF EnsureStoppedContainer

\* The main container enters the namespace of the sidecar it names, which has attested.
LEMMA StartMainKeeps == ASSUME IInv, StartContainer PROVE IInv'
<1> USE DEF IInv
<1>1. UNCHANGED <<config, row, network, sidecar, rules, disk, inbox, faults>> /\ worker.pc = "start"
      /\ "volume" \in disk
  BY DEF StartContainer, At, worker, VolumeInv
<1>2. CASE /\ sidecar.state = "running" /\ sidecar.id = main.peer
           /\ main' = [main EXCEPT !.state = "running", !.ns = sidecar.ns]
           /\ Goto("worker", "confirm") /\ UNCHANGED lock
  <2>1. main \in Mains /\ sidecar.ns \in Namespaces /\ sidecar.ns # None /\ sidecar.id # None
    BY <1>2 DEF TypeOK, Sidecars, Spaces, SidecarInv
  <2>2. main' \in Mains /\ main'.state = "running" /\ main'.peer = sidecar.id /\ main'.ns = sidecar.ns
    BY <1>2, <2>1 DEF Mains, Spaces
  <2>3. rules[sidecar.ns] = sidecar.policy /\ "baseline" \in sidecar.policy
    BY <1>2 DEF SidecarInv, MainInv
  <2>4. main.state # "missing"
    BY <1>2, <2>1 DEF MainInv
  <2>5. /\ Becomes("worker", worker') /\ client' = client
        /\ worker'.pc = "confirm" /\ worker'.policy = worker.policy
        /\ worker'.created = worker.created
        /\ worker'.job = worker.job /\ worker'.error = worker.error
    BY <1>2, WorkerGoes DEF WorkerPC, Ensuring
  <2>6. TypeOK'
    BY <1>1, <1>2, <2>2, <2>5 DEF TypeOK, Becomes, WorkerPC, Ensuring
  <2>7. SidecarInv'
    BY <1>1, SidecarKept
  <2>8. MainInv'
    BY <1>1, <1>2, <2>1, <2>2, <2>3 DEF MainInv
  <2>9. ClientInv'
    BY <1>1, <1>2, <2>2, <2>3, <2>4, <2>5 DEF ClientInv, Current
  <2>10. WorkerInv'
    BY <1>1, <2>5 DEF WorkerInv, Ensuring, Attested, Current
  <2>11. JobInv' /\ VolumeInv'
    BY <1>1, <2>5 DEF JobInv, VolumeInv, Checking, Deleting
  <2> QED
    BY <2>6, <2>7, <2>8, <2>9, <2>10, <2>11
<1>3. CASE Failing("worker", "transient") /\ UNCHANGED main
  BY <1>1, <1>3, QuietFailure, FailableFacts DEF TypeOK, Kinds, Ensuring
<1> QED
  BY <1>2, <1>3 DEF StartContainer

-----------------------------------------------------------------------------
(* Removal. *)

\* The worker jumps to a place where nothing is promised about the sidecar, while the main
\* container stays as it is, stops or goes.
LEMMA RemovalMoves ==
    ASSUME IInv, NEW m \in Mains, main' = m, m = main \/ m = NoMain,
           UNCHANGED <<config, row, network, sidecar, inbox, lock>>, faults' \in Nat,
           rules' = rules \/ rules' = RulesOf(rules, sidecar, m),
           disk' \in SUBSET disk,
           NEW pc \in {"delMain", "delSidecar", "delDir", "record"}, Goto("worker", pc),
           JobInv', VolumeInv'
    PROVE  IInv'
<1> USE DEF IInv
<1>1. /\ Becomes("worker", worker') /\ client' = client /\ worker'.pc = pc
  BY WorkerGoes DEF WorkerPC, Deleting
<1>2. m = main \/ (m.state = "missing" /\ m.peer = None /\ m.ns = None)
  BY DEF NoMain
<1>3. /\ rules' \in [Namespaces -> Policies]
      /\ sidecar.state = "running" => rules'[sidecar.ns] = rules[sidecar.ns]
      /\ m.state = "running" => rules'[m.ns] = rules[m.ns]
  <2>1. sidecar.state = "running" => sidecar.ns \in Namespaces
    BY DEF TypeOK, Sidecars, Spaces, SidecarInv
  <2>2. m.state = "running" => m.ns \in Namespaces
    BY <1>2 DEF TypeOK, Mains, Spaces, MainInv
  <2> QED
    BY <2>1, <2>2, RulesOfFacts DEF TypeOK
<1>4. TypeOK'
  BY <1>1, <1>3 DEF TypeOK, Becomes, WorkerPC, Deleting
<1>5. SidecarInv'
  BY <1>3 DEF SidecarInv
<1>6. MainInv'
  BY <1>2, <1>3, ProvisionAssumption DEF MainInv, SidecarInv
<1>7. ClientInv'
  BY <1>1, <1>2, <1>3 DEF ClientInv, Current
<1>8. WorkerInv'
  BY <1>1 DEF WorkerInv, Ensuring, Attested
<1> QED
  BY <1>4, <1>5, <1>6, <1>7, <1>8

\* No main container is one of the states of the main container.
LEMMA NoMainFacts == NoMain \in Mains /\ NoMain.state = "missing"
  BY DEF NoMain, Mains, IDs, Spaces

\* A failed creation removes what it has made, which no running row has.
LEMMA CompensateKeeps == ASSUME IInv, Compensate PROVE IInv'
<1> USE DEF IInv
<1>1. UNCHANGED <<config, row, network, sidecar, inbox, lock>> /\ worker.pc = "compensate"
      /\ rules' = RulesOf(rules, sidecar, main') /\ faults' \in Nat
  BY FaultFacts DEF Compensate, At, worker, TypeOK
<1>2. PICK m : m = main'
  OBVIOUS
<1>3. /\ m \in Mains /\ (m = main \/ m = NoMain) /\ disk' \in SUBSET disk
      /\ m.state # "missing" => m = main
      /\ "volume" \in disk /\ "volume" \notin disk' => "volume" \in worker.created /\ m.state = "missing"
  BY <1>2, NoMainFacts DEF Compensate, TypeOK
<1>4. PICK pc \in {"delMain", "record"} :
         Goto("worker", pc) /\ pc = IF worker.job = "create" THEN "delMain" ELSE "record"
  BY DEF Compensate
<1>5. /\ worker'.pc = pc /\ worker'.created = worker.created
      /\ worker'.job = worker.job /\ worker'.error = worker.error
  BY <1>4, WorkerGoes DEF WorkerPC, Deleting
<1>6. JobInv'
  BY <1>1, <1>4, <1>5 DEF JobInv, Checking, Deleting
<1>7. VolumeInv'
  BY <1>1, <1>2, <1>3, <1>4, <1>5 DEF VolumeInv, Checking
<1> QED
  BY <1>1, <1>2, <1>3, <1>4, <1>6, <1>7, RemovalMoves

\* The main container is removed.
LEMMA DeleteMainKeeps == ASSUME IInv, DeleteManagedContainer PROVE IInv'
<1> USE DEF IInv
<1>1. UNCHANGED <<config, row, network, sidecar, disk, inbox, lock, faults>> /\ worker.pc = "delMain"
      /\ main' = NoMain /\ rules' = RulesOf(rules, sidecar, NoMain) /\ Goto("worker", "delSidecar")
  BY DEF DeleteManagedContainer, At, worker
<1>2. /\ worker'.pc = "delSidecar" /\ worker'.created = worker.created
      /\ worker'.job = worker.job /\ worker'.error = worker.error
  BY <1>1, WorkerGoes DEF WorkerPC, Deleting
<1>3. JobInv' /\ VolumeInv'
  BY <1>1, <1>2, NoMainFacts DEF JobInv, VolumeInv, Checking, Deleting
<1> QED
  BY <1>1, <1>3, NoMainFacts, RemovalMoves DEF TypeOK

\* The sidecar is removed, and its id with it.
LEMMA DeleteSidecarKeeps == ASSUME IInv, DeleteManagedEgressSidecar PROVE IInv'
<1> USE DEF IInv
<1>1. UNCHANGED <<config, row, network, main, disk, lock, faults>> /\ worker.pc = "delSidecar"
      /\ sidecar' = NoSidecar /\ inbox' = <<>> /\ rules' = RulesOf(rules, NoSidecar, main)
  BY DEF DeleteManagedEgressSidecar, At, worker
<1>2. PICK pc \in {"clear", "delVolume"} :
         Goto("worker", pc) /\ pc = IF worker.job = "replace" THEN "clear" ELSE "delVolume"
  BY DEF DeleteManagedEgressSidecar
<1>3. /\ Becomes("worker", worker') /\ client' = client
      /\ worker'.pc = pc /\ worker'.created = worker.created
      /\ worker'.job = worker.job /\ worker'.error = worker.error
  BY <1>2, WorkerGoes DEF WorkerPC, Deleting
<1>4. /\ NoSidecar \in Sidecars /\ NoSidecar.state = "missing" /\ NoSidecar.id = None
      /\ NoSidecar.ns = None /\ NoSidecar.anchor = {}
  BY DEF NoSidecar, Sidecars, IDs, Spaces, Policies
<1>5. rules' \in [Namespaces -> Policies]
      /\ (main.state = "running" => rules'[main.ns] = rules[main.ns])
  BY <1>1, RulesOfFacts DEF MainInv, TypeOK, Mains, Spaces
<1>6. TypeOK'
  BY <1>1, <1>3, <1>4, <1>5 DEF TypeOK, Becomes, WorkerPC, Deleting
<1>7. SidecarInv'
  BY <1>1, <1>4 DEF SidecarInv
<1>8. MainInv'
  BY <1>1, <1>4, <1>5 DEF MainInv
<1>9. ClientInv'
  BY <1>1, <1>3, <1>4, <1>5 DEF ClientInv, MainInv, Current
<1>10. WorkerInv'
  BY <1>3 DEF WorkerInv, Ensuring, Attested
<1>11. JobInv' /\ VolumeInv'
  BY <1>1, <1>2, <1>3 DEF JobInv, VolumeInv, Checking, Deleting, TypeOK, Locals
<1> QED
  BY <1>6, <1>7, <1>8, <1>9, <1>10, <1>11

\* The volume is removed for a row that is not running.
LEMMA DeleteVolumeKeeps == ASSUME IInv, DeleteWorkspaceVolume PROVE IInv'
<1> USE DEF IInv
<1>1. UNCHANGED <<config, row, network, sidecar, main, rules, inbox, faults>>
      /\ worker.pc = "delVolume"
  BY DEF DeleteWorkspaceVolume, At, worker
<1>2. CASE /\ main.state = "missing" \/ "volume" \notin disk
           /\ disk' = disk \ {"volume"} /\ Goto("worker", "delDir") /\ UNCHANGED lock
  <2>1. /\ worker'.pc = "delDir" /\ worker'.created = worker.created
        /\ worker'.job = worker.job /\ worker'.error = worker.error
    BY <1>2, WorkerGoes DEF WorkerPC, Deleting
  <2>2. row # "running"
    BY <1>1 DEF JobInv, Checking, TypeOK, Locals, worker
  <2>3. JobInv' /\ VolumeInv'
    BY <1>1, <1>2, <2>1, <2>2 DEF JobInv, VolumeInv, Checking, Deleting
  <2> QED
    BY <1>1, <1>2, <2>3, RemovalMoves DEF TypeOK
<1>3. CASE Failing("worker", "transient") /\ UNCHANGED disk
  BY <1>1, <1>3, QuietFailure, FailableFacts DEF TypeOK, Kinds, Deleting
<1> QED
  BY <1>2, <1>3 DEF DeleteWorkspaceVolume

\* The directory is removed.
LEMMA DeleteDirectoryKeeps == ASSUME IInv, DeleteRuntimeDirectory PROVE IInv'
<1> USE DEF IInv
<1>1. UNCHANGED <<config, row, network, sidecar, main, rules, inbox, lock, faults>>
      /\ worker.pc = "delDir" /\ disk' = disk \ {"directory"} /\ Goto("worker", "record")
  BY DEF DeleteRuntimeDirectory, At, worker
<1>2. /\ worker'.pc = "record" /\ worker'.created = worker.created
      /\ worker'.job = worker.job /\ worker'.error = worker.error
  BY <1>1, WorkerGoes DEF WorkerPC
<1>3. JobInv' /\ VolumeInv'
  BY <1>1, <1>2 DEF JobInv, VolumeInv, Checking, Deleting
<1> QED
  BY <1>1, <1>3, RemovalMoves DEF TypeOK

-----------------------------------------------------------------------------
(* The result, the user and the faults. *)

\* The result of the attempt is recorded, and the worker is idle again or goes on to replace
\* what has been unhealthy too often.
LEMMA RecordKeeps == ASSUME IInv, Record PROVE IInv'
<1> USE DEF IInv
<1>1. UNCHANGED <<config, network, sidecar, main, rules, disk, inbox, lock, faults>>
      /\ worker.pc = "record" /\ worker \in Locals /\ worker.job # None
  BY DEF Record, docker, At, worker, TypeOK, JobInv
<1>2. worker.error # None => RowAfterError \in {"creating", "failed", row}
  BY <1>1 DEF RowAfterError, Locals, None
<1>3. /\ row' \in {"creating", "running", "failed", "deleting", "deleted"}
      /\ row' = "running" => row = "running" \/ (worker.job = "create" /\ worker.error = None)
  <2>1. CASE worker.error # None
    BY <1>2, <2>1 DEF Record, TypeOK
  <2>2. CASE worker.error = None /\ worker.job \in {"create", "delete"}
    BY <2>2 DEF Record, TypeOK
  <2>3. CASE worker.error = None /\ worker.job \in {"recover", "replace"}
    BY <2>3 DEF Record, TypeOK, RowOfJob
  <2> QED
    BY <1>1, <2>1, <2>2, <2>3 DEF Locals
<1>4. CASE proc' = [proc EXCEPT !["worker"] = Idle]
  <2>1. Becomes("worker", Idle) /\ worker' = Idle /\ client' = client
    BY <1>4, IdleFacts, WorkerGets
  <2>2. TypeOK'
    BY <1>1, <2>1, <1>3, IdleFacts DEF TypeOK, Becomes, WorkerPC
  <2>3. JobInv'
    BY <2>1, IdleFacts DEF JobInv, None
  <2>4. VolumeInv'
    BY <1>1, <2>1, <1>3, IdleFacts DEF VolumeInv, Checking, None
  <2>5. WorkerInv'
    BY <2>1, IdleFacts DEF WorkerInv, Ensuring, Attested
  <2>6. SidecarInv' /\ MainInv'
    BY <1>1, SidecarKept DEF MainInv
  <2>7. ClientInv'
    BY <1>1, <2>1 DEF ClientInv, Current
  <2> QED
    BY <2>2, <2>3, <2>4, <2>5, <2>6, <2>7
<1>5. CASE proc' = [proc EXCEPT !["worker"] = Attempt("replace", "recover")]
           /\ row = "running" /\ worker.error = "unhealthy"
  <2> DEFINE l == Attempt("replace", "recover")
  <2>1. l \in Locals /\ l.pc = "replace" /\ l.job = "recover" /\ l.created = {} /\ l.error = None
    BY AttemptFacts DEF WorkerPC
  <2> HIDE DEF l
  <2>2. Becomes("worker", l) /\ worker' = l /\ client' = client
    BY <1>5, <2>1, WorkerGets DEF l
  <2>3. row' = row /\ row = "running"
    BY <1>1, <1>5 DEF Record, RowAfterError, None
  <2>4. JobInv'
    BY <2>1, <2>2, <2>3 DEF JobInv, Checking, None
  <2>5. VolumeInv' /\ WorkerInv'
    BY <1>1, <2>1, <2>2, <2>3 DEF VolumeInv, WorkerInv, Ensuring, Attested, Checking
  <2> QED
    BY <1>1, <2>1, <2>2, <2>3, <2>4, <2>5, QuietWorker DEF TypeOK, WorkerPC
<1> QED
  BY <1>4, <1>5 DEF Record, Attempt

\* The user asks for the deletion.
LEMMA DeleteRequestKeeps == ASSUME IInv, DeleteRequest PROVE IInv'
<1> USE DEF IInv
<1>1. UNCHANGED <<config, network, sidecar, main, rules, disk, inbox, proc, lock, faults>>
      /\ row' = "deleting" /\ row # "deleting"
  BY DEF DeleteRequest, docker
<1>2. TypeOK'
  BY <1>1 DEF TypeOK, worker, client
<1>3. JobInv' /\ VolumeInv'
  BY <1>1 DEF JobInv, VolumeInv, worker
<1>4. SidecarInv' /\ MainInv'
  BY <1>1, SidecarKept DEF MainInv
<1>5. WorkerInv' /\ ClientInv'
  BY <1>1 DEF WorkerInv, ClientInv, worker, client, Current
<1> QED
  BY <1>2, <1>3, <1>4, <1>5

\* A call of Docker fails.
LEMMA CallFailsKeeps ==
    ASSUME IInv, NEW p \in {"worker", "client"}, CallFails(p) PROVE IInv'
<1> USE DEF IInv
<1>1. UNCHANGED <<config, row, network, sidecar, main, rules, disk, inbox>> /\ faults' \in Nat
      /\ Failing(p, "transient")
  BY FaultFacts DEF CallFails, docker
<1>2. CASE p = "worker"
  <2>1. worker.pc \in Failable
    BY <1>2 DEF CallFails, TypeOK, worker, Failable
  <2> QED
    BY <1>1, <1>2, <2>1, QuietFailure DEF Kinds
<1>3. CASE p = "client"
  BY <1>1, <1>3, QuietRefusal DEF Kinds
<1> QED
  BY <1>2, <1>3

\* The main container dies.
LEMMA MainDiesKeeps == ASSUME IInv, MainDies PROVE IInv'
<1> USE DEF IInv
<1>1. UNCHANGED <<config, row, network, sidecar, disk, inbox, proc, lock>> /\ faults' \in Nat
      /\ main.state = "running" /\ main' = [main EXCEPT !.state = "stopped", !.ns = None]
      /\ rules' = RulesOf(rules, sidecar, main')
  BY FaultFacts DEF MainDies
<1>2. main \in Mains
  BY DEF TypeOK
<1>3. main' \in Mains /\ main'.state = "stopped" /\ main'.ns = None /\ main'.peer = main.peer
  BY <1>1, <1>2 DEF Mains, Spaces
<1>4. rules' \in [Namespaces -> Policies]
      /\ (sidecar.state = "running" => rules'[sidecar.ns] = rules[sidecar.ns])
  BY <1>1, RulesOfFacts DEF SidecarInv, TypeOK, Sidecars, Spaces
<1>5. TypeOK'
  BY <1>1, <1>3, <1>4 DEF TypeOK, worker, client
<1>6. SidecarInv'
  BY <1>1, <1>4 DEF SidecarInv
<1>7. MainInv'
  BY <1>1, <1>3 DEF MainInv
<1>8. JobInv' /\ VolumeInv'
  BY <1>1, <1>3 DEF JobInv, VolumeInv, worker
<1>9. WorkerInv'
  BY <1>1 DEF WorkerInv, worker, Current
<1>10. ClientInv'
  BY <1>1, <1>3 DEF ClientInv, client, Current
<1> QED
  BY <1>5, <1>6, <1>7, <1>8, <1>9, <1>10

\* The network is removed by hand.
LEMMA NetworkRemovedKeeps == ASSUME IInv, NetworkRemoved PROVE IInv'
<1> USE DEF IInv
<1>1. UNCHANGED <<config, row, sidecar, main, rules, disk, inbox, proc, lock>> /\ faults' \in Nat
      /\ network' = None
  BY FaultFacts DEF NetworkRemoved
<1>2. TypeOK'
  BY <1>1 DEF TypeOK, worker, client
<1>3. JobInv' /\ VolumeInv'
  BY <1>1 DEF JobInv, VolumeInv, worker
<1>4. SidecarInv' /\ MainInv'
  BY <1>1, SidecarKept DEF MainInv
<1>5. WorkerInv' /\ ClientInv'
  BY <1>1 DEF WorkerInv, ClientInv, worker, client, Current
<1> QED
  BY <1>2, <1>3, <1>4, <1>5

\* sandboxd dies and starts with another configuration; Docker is as it was.
LEMMA CrashKeeps == ASSUME IInv, Crash PROVE IInv'
<1> USE DEF IInv
<1>1. UNCHANGED <<row, network, sidecar, main, rules, disk>> /\ faults' \in Nat
      /\ config' \in Configs /\ lock' = None /\ inbox' = Forget(inbox)
      /\ proc' = [p \in {"worker", "client"} |-> Idle]
  BY FaultFacts DEF Crash, TypeOK
<1>2. worker' = Idle /\ client' = Idle /\ proc' \in [{"worker", "client"} -> Locals]
  BY <1>1, IdleFacts DEF worker, client
<1>3. SidecarInv' /\ inbox' \in Seq(Frames)
  BY <1>1, SidecarKept
<1>4. TypeOK'
  BY <1>1, <1>2, <1>3, IdleFacts DEF TypeOK, WorkerPC, ClientPC
<1>5. JobInv' /\ VolumeInv'
  BY <1>1, <1>2, IdleFacts DEF JobInv, VolumeInv, Checking, None
<1>6. WorkerInv' /\ ClientInv'
  BY <1>2, IdleFacts DEF WorkerInv, ClientInv, Ensuring, Attested, Checking
<1>7. MainInv'
  BY <1>1 DEF MainInv
<1> QED
  BY <1>3, <1>4, <1>5, <1>6, <1>7

-----------------------------------------------------------------------------
(* Theorems. *)

\* It holds for a row that is to be created, with nothing of it in Docker yet.
LEMMA InitHolds == Init => IInv
<1> SUFFICES ASSUME Init PROVE IInv
  OBVIOUS
<1>1. /\ sidecar \in Sidecars /\ sidecar.state = "missing" /\ sidecar.id = None
      /\ sidecar.ns = None /\ sidecar.anchor = {}
  BY DEF Init, NoSidecar, Sidecars, IDs, Spaces, Policies
<1>2. main \in Mains /\ main.state = "missing" /\ main.peer = None /\ main.ns = None
  BY DEF Init, NoMain, Mains, IDs, Spaces
<1>3. worker = Idle /\ client = Idle /\ proc \in [{"worker", "client"} -> Locals]
  BY IdleFacts DEF Init, worker, client
<1>4. inbox = <<>> /\ inbox \in Seq(Frames) /\ Len(inbox) = 0
  BY DEF Init
<1>5. rules \in [Namespaces -> Policies]
  BY DEF Init, Policies
<1>6. TypeOK
  BY <1>1, <1>2, <1>3, <1>4, <1>5, IdleFacts DEF Init, TypeOK, WorkerPC, ClientPC
<1>7. JobInv /\ VolumeInv
  BY <1>2, <1>3, IdleFacts DEF Init, JobInv, VolumeInv, Checking, None
<1>8. SidecarInv /\ MainInv
  BY <1>1, <1>2, <1>4 DEF SidecarInv, MainInv
<1>9. WorkerInv /\ ClientInv
  BY <1>3, IdleFacts DEF WorkerInv, ClientInv, Ensuring, Attested, Checking
<1> QED
  BY <1>6, <1>7, <1>8, <1>9 DEF IInv

\* Failed probes are counted by Record alone.
CountInv == misses \in Nat

\* Every other step leaves the count alone.
LEMMA CountKeeps == ASSUME CountInv, [Next]_vars PROVE CountInv'
<1>1. CASE Record
  BY <1>1 DEF Record, CountInv
<1>2. CASE Work /\ ~Record
  BY <1>2 DEF Work, Start, InspectRunning, RereadBeforeReplace, EnsureEgress, EnsureEgressNetwork,
     EnsureEgressSidecar, StartEgressSidecar, BootstrapEgressSidecar, InspectEgressAttestation,
     EgressReply, Exchange, VerifyEgress, EnsureCompute, InspectMain, EnsureRuntimeDirectory, EnsureImage,
     EnsureWorkspaceVolume, Obtain, EnsureStoppedContainer, StartContainer, Confirm, Compensate,
     ProbeNetwork, Check, InspectEgress, InspectSidecar, CheckReply, CompareNamespaces, CheckMainContainer,
     Remove, DeleteManagedContainer, DeleteManagedEgressSidecar, ClearComputeRuntimeFiles,
     DeleteWorkspaceVolume, DeleteRuntimeDirectory, CountInv
<1>3. CASE Egressd \/ AskToExecute \/ Check("client") \/ Execute \/ DeleteRequest \/ Faulty
  BY <1>3 DEF Egressd, Install, Prepare, Inspected, AskToExecute, Check, InspectEgress, InspectSidecar,
     CheckReply, Exchange, CompareNamespaces, CheckMainContainer, Execute, DeleteRequest, Faulty,
     SidecarDies, MainDies, NetworkRemoved, Crash, CallFails, CountInv
<1>4. CASE UNCHANGED vars
  BY <1>4 DEF vars, CountInv
<1> QED
  BY <1>1, <1>2, <1>3, <1>4 DEF Next

\* Every step of the worker, of egressd, of a client and of the world keeps it.
LEMMA StepKeeps == IInv /\ [Next]_vars => IInv'
<1> SUFFICES ASSUME IInv, [Next]_vars PROVE IInv'
  OBVIOUS
<1>1. CASE UNCHANGED vars
  BY <1>1 DEF vars, docker, IInv, TypeOK, JobInv, VolumeInv, SidecarInv, MainInv, WorkerInv,
              ClientInv, worker, client, Current
<1>2. CASE EnsureEgress
  BY <1>2, NetworkKeeps, AdoptKeeps, CreateSidecarKeeps, StartSidecarKeeps, BootstrapKeeps,
     AskSidecarKeeps, EgressReplyKeeps, VerifyKeeps DEF EnsureEgress
<1>3. CASE EnsureCompute
  BY <1>3, InspectMainKeeps, ObtainKeeps, ImageKeeps, CreateMainKeeps, StartMainKeeps,
     ConfirmKeeps, CompensateKeeps DEF EnsureCompute
<1>4. CASE Remove
  BY <1>4, DeleteMainKeeps, DeleteSidecarKeeps, ClearKeeps, DeleteVolumeKeeps,
     DeleteDirectoryKeeps DEF Remove
<1>5. CASE Check("worker")
  BY <1>5, WorkerInspectEgressKeeps, WorkerInspectSidecarKeeps, WorkerCheckReplyKeeps,
     WorkerCompareKeeps DEF Check
<1>6. CASE Check("client")
  BY <1>6, ClientInspectEgressKeeps, ClientInspectSidecarKeeps, ClientCheckReplyKeeps,
     ClientCompareKeeps, ClientCheckMainKeeps DEF Check
<1>7. CASE Start \/ InspectRunning \/ RereadBeforeReplace \/ ProbeNetwork \/ Record
  BY <1>7, StartKeeps, InspectRunningKeeps, RereadKeeps, ProbeKeeps, RecordKeeps
<1>8. CASE Egressd
  BY <1>8, InstallKeeps, PrepareKeeps, InspectedKeeps DEF Egressd
<1>9. CASE AskToExecute \/ Execute \/ DeleteRequest
  BY <1>9, AskToExecuteKeeps, ExecuteKeeps, DeleteRequestKeeps
<1>10. CASE Faulty
  <2>1. DOMAIN proc = {"worker", "client"}
    BY DEF IInv, TypeOK
  <2> QED
    BY <1>10, <2>1, SidecarDiesKeeps, MainDiesKeeps, NetworkRemovedKeeps, CrashKeeps,
       CallFailsKeeps DEF Faulty
<1> QED
  BY <1>1, <1>2, <1>3, <1>4, <1>5, <1>6, <1>7, <1>8, <1>9, <1>10 DEF Next, Work

\* The invariant, along every interleaving of the worker, a client, egressd, the user and the
\* faults, crashes of sandboxd included (runtime/docker, egress, reconcile).
THEOREM ProvisionInvariant == Spec => [](IInv /\ CountInv)
<1>1. Init => CountInv
  BY DEF Init, CountInv
<1>2. CountInv /\ [Next]_vars => CountInv'
  BY CountKeeps
<1> QED
  BY <1>1, <1>2, InitHolds, StepKeeps, PTL DEF Spec

\* A main container that runs is in a network namespace that has the baseline rules: no
\* container runs in an open one (EnsureStoppedContainer, StartContainer, egressd Install).
THEOREM MainRunsFenced == Spec => []RunsFenced
<1>1. IInv => RunsFenced
  BY DEF IInv, MainInv, RunsFenced
<1> QED
  BY <1>1, ProvisionInvariant, PTL

\* The workspace volume survives whatever happens to the containers of a sandbox whose row
\* says it runs (Compensate, the replacement, DeleteWorkspaceVolume).
THEOREM WorkspaceIsKept == Spec => []WorkspaceSurvives
<1>1. IInv => WorkspaceSurvives
  BY DEF IInv, VolumeInv, WorkspaceSurvives
<1> QED
  BY <1>1, ProvisionInvariant, PTL

\* Of a step that takes the client from admitted to executing, only Execute is one: the
\* others leave the client alone, refuse it, or find it elsewhere.
LEMMA OnlyExecute ==
    ASSUME IInv, Next, client.pc = "admitted", client'.pc = "executing"
    PROVE  Execute
<1> USE DEF client
<1>1. proc \in [{"worker", "client"} -> Locals] /\ DOMAIN proc = {"worker", "client"}
  BY DEF IInv, TypeOK
<1>2. /\ ~ \E pc : Goto("worker", pc)
      /\ ~ \E kind : Failing("worker", kind)
      /\ ~ \E kind, policy, ns, next : Send("worker", kind, policy, ns, next)
  BY <1>1 DEF Goto, Failing, Send
<1>3. ~EnsureEgress
  BY <1>1, <1>2 DEF EnsureEgress, EnsureEgressNetwork, EnsureEgressSidecar, StartEgressSidecar,
     BootstrapEgressSidecar, InspectEgressAttestation, EgressReply, Exchange, VerifyEgress
<1>4. ~EnsureCompute
  BY <1>1, <1>2 DEF EnsureCompute, InspectMain, EnsureRuntimeDirectory, EnsureImage,
     EnsureWorkspaceVolume, Obtain, EnsureStoppedContainer, StartContainer, Confirm, Compensate
<1>5. ~Remove
  BY <1>2 DEF Remove, DeleteManagedContainer, DeleteManagedEgressSidecar,
     ClearComputeRuntimeFiles, DeleteWorkspaceVolume, DeleteRuntimeDirectory
<1>6. ~Check("worker")
  BY <1>1, <1>2 DEF Check, InspectEgress, InspectSidecar, CheckReply, Exchange,
     CompareNamespaces, CheckMainContainer
<1>7. ~(Start \/ InspectRunning \/ RereadBeforeReplace \/ ProbeNetwork \/ Record)
  BY <1>1, <1>2 DEF Start, InspectRunning, RereadBeforeReplace, ProbeNetwork, Record
<1>8. ~Check("client")
  BY DEF Check, InspectEgress, InspectSidecar, CheckReply, Exchange, CompareNamespaces,
     CheckMainContainer, At
<1>9. ~Egressd
  <2>1. ~ \E policy : Answer(policy)
    BY <1>1 DEF Answer
  <2> QED
    BY <2>1 DEF Egressd, Install, Prepare, Inspected
<1>10. ~(AskToExecute \/ DeleteRequest)
  BY DEF AskToExecute, DeleteRequest, At
<1>11. ~Faulty
  <2>1. ~Crash
    BY <1>1 DEF Crash, Idle
  <2> QED
    BY <1>1, <1>2, <2>1 DEF Faulty, SidecarDies, MainDies, NetworkRemoved, CallFails
<1> QED
  BY <1>3, <1>4, <1>5, <1>6, <1>7, <1>8, <1>9, <1>10, <1>11 DEF Next, Work

\* A command that is admitted is executed under the rules of the present configuration and of a
\* managed network, though the check and the execution are two steps that the worker, the
\* faults may come between (Check, Execute).
THEOREM AdmittedIsConfined == Spec => ExecutionIsConfined
<1>1. ASSUME IInv, [Next]_vars
      PROVE  [client.pc = "admitted" /\ (client.pc)' = "executing" =>
                {"baseline", config} \subseteq rules[main.ns] /\ rules[main.ns] \cap Subnets # {}]_vars
  <2>1. CASE UNCHANGED vars
    BY <2>1
  <2>2. CASE Next /\ client.pc = "admitted" /\ client'.pc = "executing"
    <3>1. Execute
      BY <1>1, <2>2, OnlyExecute
    <3>2. DOMAIN proc = {"worker", "client"} /\ client \in Locals
      BY <1>1 DEF IInv, TypeOK, client
    <3>3. main.state = "running"
      <4>1. CASE main.state # "running"
        <5>1. Goto("client", "refused")
          BY <3>1, <4>1 DEF Execute
        <5>2. client'.pc = "refused"
          BY <1>1, <5>1, ClientGoes DEF IInv, ClientPC
        <5> QED
          BY <2>2, <5>2
      <4> QED
        BY <4>1
    <3> QED
      BY <1>1, <2>2, <3>3 DEF IInv, ClientInv, Current
  <2> QED
    BY <1>1, <2>1, <2>2
<1> QED
  BY <1>1, ProvisionInvariant, PTL DEF Spec, ExecutionIsConfined
=============================================================================
