--------------------------- MODULE ExecutionManager ---------------------------
(***************************************************************************)
(* The runner's Manager with many executions (internal/runner/manager.go)  *)
(* and the collector of completed ones (completed_execution_gc.go): slots, *)
(* admission, Shutdown, retention and the removal of logs.                 *)
(*                                                                         *)
(* An execution is seen from the registry: it ends at some time, and its   *)
(* supervisor then calls Complete.  RunnerExecution has the inside of one. *)
(* Ids are numbers, for evictCompleted orders equal times by id.           *)
(***************************************************************************)
EXTENDS Naturals, FiniteSets

CONSTANTS
    Exec,            \* ids that the factory makes, each once
    Closer,          \* callers of Shutdown
    MaxConcurrent,
    MaxRetained,
    Retention,
    MaxTime          \* last instant of the clock

ASSUME ManagerAssumption ==
    /\ Exec \subseteq Nat /\ IsFiniteSet(Exec)
    /\ MaxConcurrent \in Nat \ {0}
    /\ MaxRetained \in Nat \ {0}
    /\ Retention \in Nat \ {0}
    /\ MaxTime \in Nat

VARIABLES
    phase,        \* of each execution
    active,       \* Manager.active
    accepting,    \* Manager.accepting
    completedAt,
    now,
    log,          \* ids whose log file exists
    pending,      \* CompletedExecutionGC.pending
    collecting,   \* ids that this run of the collector has yet to look at
    shutdown,     \* Shutdown, by caller
    joining,      \* the ids whose results the caller still waits for
    heard         \* callers in waitForNoActive whose channel has been closed

gcVars == <<log, pending, collecting>>
shutdownVars == <<shutdown, joining>>
managerVars == <<phase, active, accepting, completedAt, now, gcVars, shutdownVars, heard>>

Time == 0 .. MaxTime
Phase == {"none", "active", "terminal", "completed", "evicted"}

ManagerInit ==
    /\ phase = [e \in Exec |-> "none"]
    /\ active = 0
    /\ accepting = TRUE
    /\ completedAt = [e \in Exec |-> 0]
    /\ now = 0
    /\ log = {} /\ pending = {} /\ collecting = {}
    /\ shutdown = [s \in Closer |-> "off"]
    /\ joining = [s \in Closer |-> {}]
    /\ heard = {}

Registered(e) == phase[e] \in {"active", "terminal", "completed"}
HoldsSlot(e) == phase[e] \in {"active", "terminal"}
-----------------------------------------------------------------------------
(* Executions.                                                             *)

\* Mutant: admission compares after the slot is taken.
CreateExecutionLate(e) ==
    /\ phase[e] = "none"
    /\ accepting /\ active <= MaxConcurrent
    /\ phase' = [phase EXCEPT ![e] = "active"]
    /\ active' = active + 1
    /\ UNCHANGED <<accepting, completedAt, now, gcVars, shutdownVars, heard>>

CreateExecution(e) ==
    /\ phase[e] = "none"
    /\ accepting /\ active < MaxConcurrent
    /\ phase' = [phase EXCEPT ![e] = "active"]
    /\ active' = active + 1
    /\ UNCHANGED <<accepting, completedAt, now, gcVars, shutdownVars, heard>>

\* The launcher of a background execution creates its log.
OpenLog(e) ==
    /\ phase[e] = "active" /\ e \notin log
    /\ log' = log \cup {e}
    /\ UNCHANGED <<phase, active, accepting, completedAt, now, pending, collecting,
                   shutdownVars, heard>>

\* The state machine of the execution reaches a terminal state.
Ends(e) ==
    /\ phase[e] = "active"
    /\ phase' = [phase EXCEPT ![e] = "terminal"]
    /\ UNCHANGED <<active, accepting, completedAt, now, gcVars, shutdownVars, heard>>

\* Mutant: nobody is told.
CompleteSilently(e) ==
    /\ phase[e] = "terminal"
    /\ phase' = [phase EXCEPT ![e] = "completed"]
    /\ completedAt' = [completedAt EXCEPT ![e] = now]
    /\ active' = active - 1
    /\ UNCHANGED <<accepting, now, gcVars, shutdownVars, heard>>

\* Complete: close(m.changed) reaches all who took that channel.
Complete(e) ==
    /\ phase[e] = "terminal"
    /\ phase' = [phase EXCEPT ![e] = "completed"]
    /\ completedAt' = [completedAt EXCEPT ![e] = now]
    /\ active' = active - 1
    /\ heard' = Closer
    /\ UNCHANGED <<accepting, now, gcVars, shutdownVars>>

Tick ==
    /\ now < MaxTime
    /\ now' = now + 1
    /\ UNCHANGED <<phase, active, accepting, completedAt, gcVars, shutdownVars, heard>>
-----------------------------------------------------------------------------
(* Shutdown.                                                               *)

Shutdown(s) ==
    /\ shutdown[s] = "off"
    /\ accepting' = FALSE
    /\ shutdown' = [shutdown EXCEPT ![s] = "join"]
    /\ joining' = [joining EXCEPT ![s] = {e \in Exec : HoldsSlot(e)}]
    /\ UNCHANGED <<phase, active, completedAt, now, gcVars, heard>>

\* A requestCancellation returns: the handler did, or none is bound yet, or the
\* execution is terminal or gone.
Joined(s) ==
    /\ shutdown[s] = "join"
    /\ \/ /\ \E e \in joining[s] : joining' = [joining EXCEPT ![s] = @ \ {e}]
          /\ UNCHANGED shutdown
       \/ /\ joining[s] = {}
          /\ shutdown' = [shutdown EXCEPT ![s] = "check"]
          /\ UNCHANGED joining
    /\ UNCHANGED <<phase, active, accepting, completedAt, now, gcVars, heard>>

\* waitForNoActive, under the lock: the count, and the channel to wait on.
CheckActive(s) ==
    /\ shutdown[s] = "check"
    /\ shutdown' = [shutdown EXCEPT ![s] = IF active = 0 THEN "ok" ELSE "select"]
    /\ heard' = heard \ {s}
    /\ UNCHANGED <<phase, active, accepting, completedAt, now, gcVars, joining>>

Hear(s) ==
    /\ shutdown[s] = "select" /\ s \in heard
    /\ shutdown' = [shutdown EXCEPT ![s] = "check"]
    /\ UNCHANGED <<phase, active, accepting, completedAt, now, gcVars, joining, heard>>

GiveUp(s) ==
    /\ shutdown[s] \in {"join", "select"}
    /\ shutdown' = [shutdown EXCEPT ![s] = "timeout"]
    /\ UNCHANGED <<phase, active, accepting, completedAt, now, gcVars, joining, heard>>
-----------------------------------------------------------------------------
(* CompletedExecutionGC.Run, at an instant that its ticker sent.           *)

Completed == {e \in Exec : phase[e] = "completed"}

Before(e, f) ==
    \/ completedAt[e] < completedAt[f]
    \/ completedAt[e] = completedAt[f] /\ e < f

\* Mutant: the newest go first.
EvictedNewest(at) ==
    {e \in Completed :
        \/ Cardinality({f \in Completed : Before(e, f)}) + MaxRetained < Cardinality(Completed)
        \/ completedAt[e] + Retention <= at}

\* evictCompleted: those beyond the limit, oldest first, and those too old.
Evicted(at) ==
    {e \in Completed :
        \/ Cardinality({f \in Completed : Before(f, e)}) + MaxRetained < Cardinality(Completed)
        \/ completedAt[e] + Retention <= at}

Run(at) ==
    /\ collecting = {} /\ at <= now
    /\ Evicted(at) \cup pending # {}
    /\ phase' = [e \in Exec |-> IF e \in Evicted(at) THEN "evicted" ELSE phase[e]]
    /\ pending' = pending \cup Evicted(at)
    /\ collecting' = pending'
    /\ UNCHANGED <<active, accepting, completedAt, now, log, shutdownVars, heard>>

\* removeLog succeeds: the file is gone, or there was none.
RemoveLog(e) ==
    /\ e \in collecting
    /\ collecting' = collecting \ {e}
    /\ log' = log \ {e}
    /\ pending' = pending \ {e}
    /\ UNCHANGED <<phase, active, accepting, completedAt, now, shutdownVars, heard>>

RemoveLogFails(e) ==
    /\ e \in collecting
    /\ collecting' = collecting \ {e}
    /\ UNCHANGED <<phase, active, accepting, completedAt, now, log, pending,
                   shutdownVars, heard>>
-----------------------------------------------------------------------------
ManagerNext ==
    \/ \E e \in Exec : CreateExecution(e) \/ OpenLog(e) \/ Ends(e) \/ Complete(e)
    \/ \E s \in Closer : Shutdown(s) \/ Joined(s) \/ CheckActive(s) \/ Hear(s) \/ GiveUp(s)
    \/ \E at \in Time : Run(at)
    \/ \E e \in Exec : RemoveLog(e) \/ RemoveLogFails(e)
    \/ Tick

ManagerSpec == ManagerInit /\ [][ManagerNext]_managerVars

\* Executions end (RunnerExecution says when) and the collector runs periodically.
ManagerFairSpec ==
    /\ ManagerSpec
    /\ \A e \in Exec :
          /\ WF_managerVars(Ends(e)) /\ WF_managerVars(Complete(e))
          /\ WF_managerVars(RemoveLog(e) \/ RemoveLogFails(e))
    /\ \A s \in Closer : WF_managerVars(Joined(s) \/ CheckActive(s) \/ Hear(s))
    /\ WF_managerVars(Run(now))
-----------------------------------------------------------------------------
(* Properties.                                                             *)

\* Every variable is of its type.
TypeOK ==
    /\ phase \in [Exec -> Phase]
    /\ active \in Nat
    /\ accepting \in BOOLEAN
    /\ completedAt \in [Exec -> Time]
    /\ now \in Time
    /\ log \in SUBSET Exec /\ pending \in SUBSET Exec
    /\ collecting \in SUBSET pending
    /\ shutdown \in [Closer -> {"off", "join", "check", "select", "ok", "timeout"}]
    /\ joining \in [Closer -> SUBSET Exec]
    /\ heard \in SUBSET Closer

\* The counter is the number of slots held, never more than the limit: no slot is
\* freed twice or lost, whoever completes, evicts or shuts down.
SlotsAreCounted ==
    /\ active = Cardinality({e \in Exec : HoldsSlot(e)})
    /\ active <= MaxConcurrent

\* A caller that waits on a channel which is still open has something to wait for:
\* the count and the channel are read together.
WaiterIsNotForgotten ==
    \A s \in Closer : shutdown[s] = "select" /\ s \notin heard => active > 0

\* After a Shutdown that succeeded there is no execution and never will be.
ShutdownIsFinal == (\E s \in Closer : shutdown[s] = "ok") => active = 0 /\ ~accepting

\* The collector owes the removal of every log whose record it evicted: a log is
\* only removed after its record is gone, and is never forgotten.
LogsAreOwned ==
    /\ pending \subseteq {e \in Exec : phase[e] = "evicted"}
    /\ \A e \in log : Registered(e) \/ e \in pending

\* A record is evicted only because it is old enough, or because at least
\* MaxRetained completed records are not older.
EvictionIsJustified ==
    [][\A e \in Exec : phase[e] = "completed" /\ phase'[e] = "evicted"
          => \/ completedAt[e] + Retention <= now
             \/ Cardinality({f \in Completed \ {e} : completedAt[f] >= completedAt[e]})
                   >= MaxRetained]_managerVars

\* Shutdown ends, with success or by its context, though completions, evictions
\* and a second Shutdown go on around it.
ShutdownEnds ==
    \A s \in Closer : shutdown[s] = "join" ~> shutdown[s] \in {"ok", "timeout"}
=============================================================================
