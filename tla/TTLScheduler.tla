---------------------------- MODULE TTLScheduler ----------------------------
(***************************************************************************)
(* The TTL coordinator: the heap of leases, the loop with its one timer,   *)
(* the callback that re-validates and expires an entry, the recovery that  *)
(* fills the heap, and the parties it races with: renewals, deletions, the *)
(* reconciler that expires leases the scanner found, and other goroutines  *)
(* that upsert into the heap while a callback runs.                        *)
(*                                                                         *)
(* The statements compare RFC3339Nano texts and the Go code compares       *)
(* times: see StoredTime.  As in SandboxStore a revision is only compared  *)
(* for equality, so fresh[s] is the set of parties whose snapshot of s     *)
(* still carries the row's revision.                                       *)
(***************************************************************************)
EXTENDS StoredTime, FiniteSets

CONSTANTS
    Sandboxes,    \* ids, naturals in the order of their texts
    Renewers,     \* renew requests, each sent once
    CASAttempts,  \* ttlExpireCASAttempts and renewCASAttempts
    PageSize,     \* TTLRecovery.pageSize
    MinTTL,       \* CreatePolicy.MinimumTTL
    MaxRestarts,  \* bound: restarts of sandboxd
    MaxTime       \* bound: the clock; leases end two half seconds earlier

ASSUME TTLAssumption ==
    /\ Sandboxes \subseteq Nat \ {0} /\ IsFiniteSet(Sandboxes)
    /\ "ttl" \notin Renewers    \* the coordinator's name among the readers of a row
    /\ CASAttempts \in Nat \ {0} /\ PageSize \in Nat \ {0}
    /\ MinTTL \in Nat \ {0}
    /\ MaxRestarts \in Nat /\ MaxTime \in Nat

VARIABLES
    lease,    \* the rows: [state: none, live or ended; at: expires_at]
    fresh,    \* per sandbox: the parties with an up-to-date snapshot
    heap,     \* TTLHeap: id -> expected expiry, or NoEntry
    wake,     \* the wake channel of capacity one holds a token
    loop,     \* where TTLScheduler.Run (or, before it, TTLRecovery.Recover) is
    timer,    \* the instant the timer fires, or NoTimer
    due,      \* entries to be expired, the one in hand included
    tries,    \* attempts ExpireEntry has made on the entry in hand
    clk,      \* Validate's clock reading
    after,    \* Recover: the id after which the next page starts, or LastPage
    renew,    \* per renew request: how far it is
    restarts, \* restarts so far
    now

schedVars == <<heap, wake, loop, timer, due, tries, clk, after>>
vars == <<lease, fresh, heap, wake, loop, timer, due, tries, clk, after, renew, restarts, now>>

NoEntry == 0
NoTimer == 0
LastPage == MaxTime + Cardinality(Sandboxes)
LastLease == MaxTime - 2

Live(s) == lease[s].state = "live"

\* The clock starts at a half second: two whole and one half second are then the ends of
\* the leases that can be granted first.
Init ==
    /\ lease = [s \in Sandboxes |-> [state |-> "none", at |-> 0]]
    /\ fresh = [s \in Sandboxes |-> {}]
    /\ heap = [s \in Sandboxes |-> NoEntry]
    /\ wake = FALSE /\ loop = "page" /\ timer = NoTimer
    /\ due = {} /\ tries = 0 /\ clk = 0 /\ after = 0
    /\ renew = [r \in Renewers |-> [pc |-> "idle"]]
    /\ restarts = 0 /\ now = 1
-----------------------------------------------------------------------------
(* The heap and its notification. *)

\* Mutant: the loop is told when an entry moves, not when one is added.
UpsertNotifiesMove(s, at) ==
    /\ heap' = [heap EXCEPT ![s] = at]
    /\ wake' = (wake \/ heap[s] \notin {NoEntry, at})

\* TTLHeap.Upsert and the notify of TTLScheduler.Upsert: an unchanged expiry does
\* not wake the loop.
Upsert(s, at) ==
    /\ heap' = [heap EXCEPT ![s] = at]
    /\ wake' = (wake \/ heap[s] # at)

Remove(s) ==
    /\ heap' = [heap EXCEPT ![s] = NoEntry]
    /\ wake' = (wake \/ heap[s] # NoEntry)

Entry(s, at) == [s |-> s, at |-> at]
Entries == {Entry(s, heap[s]) : s \in {x \in Sandboxes : heap[x] # NoEntry}}

\* ttlHeapItems.Less: by expiry, then by id.
Before(a, b) == a.at < b.at \/ (a.at = b.at /\ a.s < b.s)

Earliest(E) == CHOOSE e \in E : \A f \in E \ {e} : Before(e, f)
-----------------------------------------------------------------------------
(* The two statements on the lease. *)

Ended == [state |-> "ended", at |-> 0]

\* A hit bumps the revision, and no party writes again from the row it got back.
Hit(s, new) ==
    /\ lease' = [lease EXCEPT ![s] = new]
    /\ fresh' = [fresh EXCEPT ![s] = {}]

Reads(s, who) == fresh' = [fresh EXCEPT ![s] = @ \cup {who}]
Forgets(s, who) == fresh' = [fresh EXCEPT ![s] = @ \ {who}]

ExpireIntentWhere(s, who, expected, at) ==
    /\ who \in fresh[s] /\ Live(s)
    /\ lease[s].at = expected
    /\ TextLE(lease[s].at, at)

RenewWhere(s, who, at, requested) ==
    /\ who \in fresh[s] /\ Live(s)
    /\ TextLT(at, lease[s].at) /\ TextLT(lease[s].at, requested)
-----------------------------------------------------------------------------
(* TTLRecovery.Recover, which runs before the loop starts. *)

\* ListActiveLeases: the next PageSize live rows in id order.
ActiveAfter(a) ==
    LET live == {s \in Sandboxes : s > a /\ Live(s)}
    IN  {s \in live : Cardinality({x \in live : x <= s}) <= PageSize}

\* One page: what is due is handed to ExpireEntry, the rest enters the heap, which
\* nobody reads yet.  A short page is the last one.
RecoverPage ==
    /\ loop = "page"
    /\ LET ids == ActiveAfter(after)
       IN  /\ due' = {Entry(s, lease[s].at) : s \in {x \in ids : lease[x].at <= now}}
           /\ heap' = [s \in Sandboxes |-> IF s \in ids /\ lease[s].at > now THEN lease[s].at
                                           ELSE heap[s]]
           /\ wake' = (wake \/ heap' # heap)
           /\ after' = IF Cardinality(ids) < PageSize THEN LastPage
                       ELSE CHOOSE s \in ids : \A x \in ids : x <= s
    /\ loop' = "callback"
    /\ UNCHANGED <<lease, fresh, timer, tries, clk, renew, restarts, now>>
-----------------------------------------------------------------------------
(* TTLScheduler.Run. *)

\* The earliest entry decides: nothing to wait for, everything due popped, or the
\* timer armed for it.
PeekEmpty ==
    /\ loop = "peek" /\ Entries = {}
    /\ loop' = "empty" /\ timer' = NoTimer
    /\ UNCHANGED <<lease, fresh, heap, wake, due, tries, clk, after, renew, restarts, now>>

PopDue ==
    /\ loop = "peek" /\ Entries # {} /\ Earliest(Entries).at <= now
    /\ due' = {e \in Entries : e.at <= now}
    /\ heap' = [s \in Sandboxes |-> IF heap[s] <= now THEN NoEntry ELSE heap[s]]
    /\ loop' = "callback"
    /\ UNCHANGED <<lease, fresh, wake, timer, tries, clk, after, renew, restarts, now>>

Arm ==
    /\ loop = "peek" /\ Entries # {} /\ Earliest(Entries).at > now
    /\ timer' = Earliest(Entries).at
    /\ loop' = "armed"
    /\ UNCHANGED <<lease, fresh, heap, wake, due, tries, clk, after, renew, restarts, now>>

\* The clock is read again after the timer was reset.
Recheck ==
    /\ loop = "armed"
    /\ IF now >= timer THEN loop' = "peek" /\ timer' = NoTimer
       ELSE loop' = "sleep" /\ UNCHANGED timer
    /\ UNCHANGED <<lease, fresh, heap, wake, due, tries, clk, after, renew, restarts, now>>

\* The two selects: a notification, or the timer.
Woken ==
    /\ loop \in {"empty", "sleep"} /\ wake
    /\ wake' = FALSE /\ timer' = NoTimer /\ loop' = "peek"
    /\ UNCHANGED <<lease, fresh, heap, due, tries, clk, after, renew, restarts, now>>

Fired ==
    /\ loop = "sleep" /\ timer <= now
    /\ timer' = NoTimer /\ loop' = "peek"
    /\ UNCHANGED <<lease, fresh, heap, wake, due, tries, clk, after, renew, restarts, now>>

\* All entries were handed over: Recover reads its next page, Run goes on.
Continue ==
    /\ loop = "callback" /\ due = {}
    /\ loop' = IF after = LastPage THEN "peek" ELSE "page"
    /\ UNCHANGED <<lease, fresh, heap, wake, timer, due, tries, clk, after, renew, restarts, now>>
-----------------------------------------------------------------------------
(* TTLExpirationCoordinator.ExpireEntry on the earliest of the due entries. *)

InHand == Earliest(due)

Return ==
    /\ due' = due \ {InHand} /\ tries' = 0 /\ clk' = 0
    /\ loop' = "callback"

\* TTLDueValidator.Validate: the row decides what becomes of the entry.
ValidateGone ==
    /\ loop = "callback" /\ due # {} /\ ~Live(InHand.s)
    /\ Remove(InHand.s) /\ Return
    /\ UNCHANGED <<lease, fresh, timer, after, renew, restarts, now>>

ValidateMoved ==
    /\ loop = "callback" /\ due # {} /\ Live(InHand.s)
    /\ lease[InHand.s].at # InHand.at
    /\ Upsert(InHand.s, lease[InHand.s].at) /\ Return
    /\ UNCHANGED <<lease, fresh, timer, after, renew, restarts, now>>

\* The entry is due by the clock: it was when it was taken from the heap, and the clock
\* is not set back here, which is what the re-upsert of an early entry is for.
ValidateDue ==
    /\ loop = "callback" /\ due # {} /\ Live(InHand.s)
    /\ lease[InHand.s].at = InHand.at
    /\ Reads(InHand.s, "ttl")
    /\ clk' = now /\ tries' = tries + 1 /\ loop' = "expire"
    /\ UNCHANGED <<lease, heap, wake, timer, due, after, renew, restarts, now>>

Expire ==
    /\ loop = "expire"
    /\ ExpireIntentWhere(InHand.s, "ttl", InHand.at, clk)
    /\ Hit(InHand.s, Ended)
    /\ Remove(InHand.s) /\ Return
    /\ UNCHANGED <<timer, after, renew, restarts, now>>

\* A conflict is retried from a new read; the last one leaves the entry out of the heap.
\* While Recover runs, the last one also ends the start: that is a Restart taken here.
ExpireConflict ==
    /\ loop = "expire"
    /\ ~ExpireIntentWhere(InHand.s, "ttl", InHand.at, clk)
    /\ Forgets(InHand.s, "ttl")
    /\ IF tries < CASAttempts
       THEN loop' = "callback" /\ clk' = 0 /\ UNCHANGED <<due, tries>>
       ELSE Return
    /\ UNCHANGED <<lease, heap, wake, timer, after, renew, restarts, now>>
-----------------------------------------------------------------------------
(* The parties the scheduler races with. *)

\* Mutant: the request is not compared with the lease it read.
ValidRenewAnyOrder(at, requested) == at > now /\ requested >= now + MinTTL

\* validateRenew on the snapshot's lease: still running, later, and long enough.
ValidRenew(at, requested) ==
    /\ at > now
    /\ requested > at
    /\ requested >= now + MinTTL

\* SandboxService.Renew reads the row and validates the request.
RenewStart(r) ==
    /\ renew[r].pc = "idle"
    /\ \E s \in {x \in Sandboxes : Live(x)}, requested \in 1..LastLease :
         /\ ValidRenew(lease[s].at, requested)
         /\ Reads(s, r)
         /\ renew' = [renew EXCEPT ![r] =
               [pc |-> "cas", s |-> s, req |-> requested, at |-> now, tries |-> 1]]
    /\ UNCHANGED <<lease, schedVars, restarts, now>>

RenewDone(r) == renew' = [renew EXCEPT ![r] = [pc |-> "done"]]

RenewCommit(r) ==
    /\ renew[r].pc = "cas"
    /\ LET q == renew[r]
       IN  RenewWhere(q.s, r, q.at, q.req) /\ Hit(q.s, [state |-> "live", at |-> q.req])
    /\ RenewDone(r)
    /\ UNCHANGED <<schedVars, restarts, now>>

\* A conflict: read and validate again, or give up.
RenewConflict(r) ==
    /\ renew[r].pc = "cas"
    /\ LET q == renew[r]
       IN  /\ ~RenewWhere(q.s, r, q.at, q.req)
           /\ IF q.tries < CASAttempts /\ Live(q.s) /\ ValidRenew(lease[q.s].at, q.req)
              THEN /\ renew' = [renew EXCEPT ![r].tries = @ + 1, ![r].at = now]
                   /\ Reads(q.s, r)
              ELSE RenewDone(r) /\ Forgets(q.s, r)
    /\ UNCHANGED <<lease, schedVars, restarts, now>>

\* A created sandbox enters no heap: only the queue is woken.
Create(s) ==
    /\ lease[s].state = "none"
    /\ \E at \in (now + MinTTL)..LastLease :
         lease' = [lease EXCEPT ![s] = [state |-> "live", at |-> at]]
    /\ UNCHANGED <<fresh, schedVars, renew, restarts, now>>

\* Other statements on the row: a deletion, or progress of the reconciler.
Delete(s) ==
    /\ Live(s)
    /\ Hit(s, Ended)
    /\ UNCHANGED <<schedVars, renew, restarts, now>>

Touch(s) ==
    /\ Live(s) /\ fresh[s] # {}
    /\ fresh' = [fresh EXCEPT ![s] = {}]
    /\ UNCHANGED <<lease, schedVars, renew, restarts, now>>

\* Mutant: the scanner only looks at what is scheduled, not at leases.
ScanWithoutLeases(s) == FALSE /\ UNCHANGED vars

\* The scanner finds the lease by its text and the reconciler's expireLeaseIfDue ends
\* it.  Read and write are one step: a write in between makes it a step that does nothing.
Scan(s) ==
    /\ Live(s) /\ lease[s].at <= now /\ TextLE(lease[s].at, now)
    /\ Hit(s, Ended)
    /\ UNCHANGED <<schedVars, renew, restarts, now>>

\* Another goroutine upserts a lease it has read, as Run's contract allows.
ConcurrentUpsert(s) ==
    /\ Live(s) /\ heap[s] # lease[s].at
    /\ Upsert(s, lease[s].at)
    /\ UNCHANGED <<lease, fresh, loop, timer, due, tries, clk, after, renew, restarts, now>>

\* sandboxd dies and comes back: the heap is empty until Recover has filled it.
Restart ==
    /\ restarts < MaxRestarts
    /\ restarts' = restarts + 1
    /\ heap' = [s \in Sandboxes |-> NoEntry] /\ wake' = FALSE /\ loop' = "page"
    /\ timer' = NoTimer /\ due' = {} /\ tries' = 0 /\ clk' = 0 /\ after' = 0
    /\ fresh' = [s \in Sandboxes |-> {}]
    /\ renew' = [r \in Renewers |-> IF renew[r].pc = "idle" THEN renew[r] ELSE [pc |-> "done"]]
    /\ UNCHANGED <<lease, now>>

Tick ==
    /\ now < MaxTime
    /\ now' = now + 1
    /\ UNCHANGED <<lease, fresh, schedVars, renew, restarts>>
-----------------------------------------------------------------------------
Run == PeekEmpty \/ PopDue \/ Arm \/ Recheck \/ Woken \/ Fired \/ Continue
ExpireEntry == ValidateGone \/ ValidateMoved \/ ValidateDue \/ Expire \/ ExpireConflict

Next ==
    \/ RecoverPage \/ Run \/ ExpireEntry
    \/ \E r \in Renewers : RenewStart(r) \/ RenewCommit(r) \/ RenewConflict(r)
    \/ \E s \in Sandboxes : Create(s) \/ Delete(s) \/ Touch(s) \/ Scan(s) \/ ConcurrentUpsert(s)
    \/ Restart
    \/ Tick

\* The scanner's loop and the worker pool keep running and time passes.
Spec ==
    /\ Init /\ [][Next]_vars
    /\ \A s \in Sandboxes : WF_vars(Scan(s))
    /\ WF_vars(Tick)
-----------------------------------------------------------------------------
(* Properties. *)

\* While Run sleeps with no notification pending, its timer is armed for the earliest
\* entry or an earlier instant: no upsert or removal, from whichever goroutine, leaves
\* an entry behind a later timer or behind none.
NoEntryIsOverslept ==
    (loop \in {"sleep", "empty"} /\ ~wake) =>
        \A s \in Sandboxes : heap[s] # NoEntry => loop = "sleep" /\ timer <= heap[s]

\* An accepted renewal moves the lease to a later time, although the statement only
\* compares texts and would take an earlier time within the same second.
RenewalExtends ==
    [][\A s \in Sandboxes :
         (Live(s) /\ lease'[s].state = "live") => lease'[s].at >= lease[s].at]_vars

\* A lease that has run out is ended or was extended by a renewal that came in time,
\* also if the entry was never in the heap, was dropped after its last attempt, or
\* sandboxd restarted in between.
LeaseEnds ==
    \A s \in Sandboxes :
        (Live(s) /\ lease[s].at <= now) ~> (~Live(s) \/ lease[s].at > now)
=============================================================================
