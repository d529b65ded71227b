------------------------------ MODULE WakeQueue ------------------------------
(***************************************************************************)
(* WakeQueue (internal/reconcile/queue.go) with its wakers and the worker  *)
(* pool that consumes it (worker.go).                                      *)
(*                                                                         *)
(* What happens under q.mu is one step; the one-slot notification channel  *)
(* is sent to and received from outside the lock, so each of those is a    *)
(* step of its own.                                                        *)
(***************************************************************************)
EXTENDS Naturals, Sequences

CONSTANTS
    ID,       \* sandbox ids
    Waker,    \* goroutines that call Wake
    Worker    \* the fixed worker pool

VARIABLES
    states,      \* q.states; "none" for an id that is not in the map
    order,       \* q.order
    token,       \* the notification channel holds its one element
    isClosed,    \* q.isClosed
    closed,      \* q.closed is closed
    cancelled,   \* the context of the pool
    notifying,   \* wakers between the unlock and the notify of Wake
    pc,          \* where each worker is in Next, Done and the loop around them
    task         \* the id a worker has taken, or NoTask

vars == <<states, order, token, isClosed, closed, cancelled, notifying, pc, task>>

NoTask == "none"

ASSUME QueueAssumption == NoTask \notin ID

WakeState == {"none", "pending", "processing", "requeue"}
PC == {"select", "woken", "claim", "renotify", "work", "doneNotify", "exited"}

Init ==
    /\ states = [id \in ID |-> "none"]
    /\ order = <<>>
    /\ token = FALSE
    /\ isClosed = FALSE /\ closed = FALSE /\ cancelled = FALSE
    /\ notifying = {}
    /\ pc = [w \in Worker |-> "select"]
    /\ task = [w \in Worker |-> NoTask]
-----------------------------------------------------------------------------
(* Wake.  A pending or requeued id, or a closed queue, changes nothing.    *)

WakeProcessing(id) ==
    /\ states[id] = "processing"
    /\ states' = [states EXCEPT ![id] = "requeue"]
    /\ UNCHANGED <<order, notifying>>

WakeNew(p, id) ==
    /\ states[id] = "none"
    /\ states' = [states EXCEPT ![id] = "pending"]
    /\ order' = Append(order, id)
    /\ notifying' = notifying \cup {p}

Wake(p, id) ==
    /\ p \notin notifying /\ ~isClosed
    /\ WakeProcessing(id) \/ WakeNew(p, id)
    /\ UNCHANGED <<token, isClosed, closed, cancelled, pc, task>>

\* notify: a send that gives up when the slot is full.
Notify(p) ==
    /\ p \in notifying
    /\ token' = TRUE
    /\ notifying' = notifying \ {p}
    /\ UNCHANGED <<states, order, isClosed, closed, cancelled, pc, task>>
-----------------------------------------------------------------------------
(* Next.                                                                   *)

Go(w, label) == pc' = [pc EXCEPT ![w] = label]

Select(w) ==
    /\ pc[w] = "select"
    /\ \/ (cancelled \/ closed) /\ Go(w, "exited") /\ UNCHANGED token
       \/ token /\ token' = FALSE /\ Go(w, "woken")
    /\ UNCHANGED <<states, order, isClosed, closed, cancelled, notifying, task>>

\* The notification won against a cancelled context: put it back.
Recheck(w) ==
    /\ pc[w] = "woken"
    /\ \/ cancelled /\ token' = TRUE /\ Go(w, "exited")
       \/ ~cancelled /\ Go(w, "claim") /\ UNCHANGED token
    /\ UNCHANGED <<states, order, isClosed, closed, cancelled, notifying, task>>

ClaimHead(w) ==
    /\ order # <<>>
    /\ task' = [task EXCEPT ![w] = Head(order)]
    /\ states' = [states EXCEPT ![Head(order)] = "processing"]
    /\ order' = Tail(order)
    /\ Go(w, IF Tail(order) # <<>> THEN "renotify" ELSE "work")

Claim(w) ==
    /\ pc[w] = "claim"
    /\ \/ isClosed /\ Go(w, "exited") /\ UNCHANGED <<states, order, task>>
       \/ ~isClosed /\ order = <<>> /\ Go(w, "select") /\ UNCHANGED <<states, order, task>>
       \/ ~isClosed /\ ClaimHead(w)
    /\ UNCHANGED <<token, isClosed, closed, cancelled, notifying>>

Renotify(w) ==
    /\ pc[w] = "renotify"
    /\ token' = TRUE
    /\ Go(w, "work")
    /\ UNCHANGED <<states, order, isClosed, closed, cancelled, notifying, task>>
-----------------------------------------------------------------------------
(* The reconcile returns, by itself, by its timeout or by a panic: Done.   *)

\* Mutant: Done forgets the id and the wake that came meanwhile.
RequeueDropped(id) ==
    /\ states' = [states EXCEPT ![id] = "none"]
    /\ UNCHANGED order

Requeue(id) ==
    \/ /\ states[id] = "requeue"
       /\ states' = [states EXCEPT ![id] = "pending"]
       /\ order' = Append(order, id)
    \/ /\ states[id] = "processing"
       /\ states' = [states EXCEPT ![id] = "none"]
       /\ UNCHANGED order

\* Mutant: nobody is told of the id that goes back in line.
DoneSilently(w) ==
    /\ pc[w] = "work"
    /\ Requeue(task[w])
    /\ task' = [task EXCEPT ![w] = NoTask]
    /\ Go(w, "select")
    /\ UNCHANGED <<token, isClosed, closed, cancelled, notifying>>

Done(w) ==
    /\ pc[w] = "work"
    /\ Requeue(task[w])
    /\ task' = [task EXCEPT ![w] = NoTask]
    /\ Go(w, IF order' # <<>> THEN "doneNotify" ELSE "select")
    /\ UNCHANGED <<token, isClosed, closed, cancelled, notifying>>

DoneNotify(w) ==
    /\ pc[w] = "doneNotify"
    /\ token' = TRUE
    /\ Go(w, "select")
    /\ UNCHANGED <<states, order, isClosed, closed, cancelled, notifying, task>>
-----------------------------------------------------------------------------
(* Shutdown.                                                               *)

Close ==
    /\ ~isClosed
    /\ isClosed' = TRUE
    /\ UNCHANGED <<states, order, token, closed, cancelled, notifying, pc, task>>

CloseChannel ==
    /\ isClosed /\ ~closed
    /\ closed' = TRUE
    /\ UNCHANGED <<states, order, token, isClosed, cancelled, notifying, pc, task>>

Cancel ==
    /\ ~cancelled
    /\ cancelled' = TRUE
    /\ UNCHANGED <<states, order, token, isClosed, closed, notifying, pc, task>>
-----------------------------------------------------------------------------
WorkerStep(w) ==
    \/ Select(w) \/ Recheck(w) \/ Claim(w) \/ Renotify(w) \/ Done(w) \/ DoneNotify(w)

Next ==
    \/ \E p \in Waker : Notify(p) \/ \E id \in ID : Wake(p, id)
    \/ \E w \in Worker : WorkerStep(w)
    \/ Close \/ CloseChannel \/ Cancel

Spec == Init /\ [][Next]_vars

\* Goroutines that can run do run; nothing makes anyone call Wake, Close or
\* cancel.
FairSpec ==
    /\ Spec
    /\ WF_vars(CloseChannel)
    /\ \A p \in Waker : WF_vars(Notify(p))
    /\ \A w \in Worker : WF_vars(WorkerStep(w))
-----------------------------------------------------------------------------
(* Properties.                                                             *)

\* Every variable is of its type.
TypeOK ==
    /\ states \in [ID -> WakeState]
    /\ order \in Seq(ID)
    /\ token \in BOOLEAN
    /\ isClosed \in BOOLEAN /\ closed \in BOOLEAN /\ cancelled \in BOOLEAN
    /\ notifying \in SUBSET Waker
    /\ pc \in [Worker -> PC]
    /\ task \in [Worker -> ID \cup {NoTask}]

\* order lists exactly the pending ids, each once: Wake, Next and Done keep the
\* map and the slice in step although they are three different critical sections.
OrderIsPending ==
    /\ \A id \in ID : states[id] = "pending" <=> \E i \in 1 .. Len(order) : order[i] = id
    /\ \A i, j \in 1 .. Len(order) : order[i] = order[j] => i = j

Works(w) == pc[w] \in {"renotify", "work"}

\* A worker's task is marked as being processed, and no two workers have the
\* same one: this is what lets Lifecycle treat Reconcile of one id as one thread.
OneWorkerPerID ==
    /\ \A w \in Worker : Works(w) => task[w] \in ID /\ states[task[w]] \in {"processing", "requeue"}
    /\ \A v, w \in Worker : Works(v) /\ Works(w) /\ task[v] = task[w] => v = w

\* Someone still has a notification in hand.
InHand ==
    \/ notifying # {}
    \/ \E w \in Worker : pc[w] \in {"woken", "claim", "renotify", "doneNotify"}

\* The one-slot channel never swallows the last notification: while ids are in
\* line and the queue is open, the slot is full, or a waker is about to fill it,
\* or a worker that emptied it has not looked at the queue yet.
NoLostWakeup == order # <<>> /\ ~isClosed => token \/ InHand

\* The queue is the abstract WakeSlot.
Slot == INSTANCE WakeSlot WITH
    queued <- {id \in ID : states[id] \in {"pending", "requeue"}},
    busy   <- {id \in ID : states[id] \in {"processing", "requeue"}}

\* Every step of the queue is a wake, a start or an end of one id's run, or none
\* of these: a wake during a run is neither dropped nor run beside it.
ImplementsSlot == Slot!SlotSpec

\* A wake is answered by a run that starts after it, unless the pool stops.
WakeIsServed ==
    \A id \in ID : states[id] \in {"pending", "requeue"}
                      ~> states[id] = "processing" \/ isClosed \/ cancelled
=============================================================================
