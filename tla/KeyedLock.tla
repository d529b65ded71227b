------------------------------ MODULE KeyedLock ------------------------------
(***************************************************************************)
(* KeyedLock (internal/reconcile/keyed_lock.go) for one key: keys share    *)
(* nothing but the map.  An entry is made for the first caller and removed *)
(* when nobody holds or waits for it, so a key can have had several        *)
(* entries; a late release or cancellation may still point at an old one.  *)
(* What happens under k.mu is one step, as is each channel operation.      *)
(***************************************************************************)
EXTENDS Naturals, FiniteSets

CONSTANTS
    Caller,     \* goroutines that call LockContext
    Entry,      \* addresses of entries; one is free again when nothing points at it
    NoEntry     \* the nil pointer

ASSUME LockAssumption ==
    /\ IsFiniteSet(Caller)
    /\ NoEntry \notin Entry

VARIABLES
    entry,         \* k.entries[key], or NoEntry
    entryToken,    \* entryToken[e]: the channel of e holds its element
    holders,       \* holders[e]
    waiters,       \* waiters[e]
    mine,          \* the entry that a caller's frame points at, or NoEntry
    callerPC,
    contextDone    \* contextDone[c]: c's context is done

lockVars == <<entry, entryToken, holders, waiters, mine, callerPC, contextDone>>

LockPC == {"idle", "waiting", "granted", "abandon", "holding", "released"}

LockInit ==
    /\ entry = NoEntry
    /\ entryToken = [e \in Entry |-> FALSE]
    /\ holders = [e \in Entry |-> 0]
    /\ waiters = [e \in Entry |-> 0]
    /\ mine = [c \in Caller |-> NoEntry]
    /\ callerPC = [c \in Caller |-> "idle"]
    /\ contextDone = [c \in Caller |-> FALSE]

CallerGoes(c, label) == callerPC' = [callerPC EXCEPT ![c] = label]

\* The call returns to its caller; the next one comes with a new context.
Return(c) ==
    /\ CallerGoes(c, "idle")
    /\ mine' = [mine EXCEPT ![c] = NoEntry]
    /\ contextDone' = [contextDone EXCEPT ![c] = FALSE]
-----------------------------------------------------------------------------
Garbage(e) == e # entry /\ \A c \in Caller : mine[c] # e

\* Register as a waiter, on a new entry with its token if there is none.
Enter(c) ==
    /\ callerPC[c] = "idle"
    /\ \/ /\ entry # NoEntry
          /\ mine' = [mine EXCEPT ![c] = entry]
          /\ waiters' = [waiters EXCEPT ![entry] = @ + 1]
          /\ UNCHANGED <<entry, entryToken, holders>>
       \/ /\ entry = NoEntry
          /\ \E e \in Entry :
                /\ Garbage(e)
                /\ entry' = e
                /\ mine' = [mine EXCEPT ![c] = e]
                /\ entryToken' = [entryToken EXCEPT ![e] = TRUE]
                /\ waiters' = [waiters EXCEPT ![e] = 1]
                /\ holders' = [holders EXCEPT ![e] = 0]
    /\ CallerGoes(c, "waiting")
    /\ UNCHANGED contextDone

ContextEnds(c) ==
    /\ callerPC[c] \in {"waiting", "granted"} /\ ~contextDone[c]
    /\ contextDone' = [contextDone EXCEPT ![c] = TRUE]
    /\ UNCHANGED <<entry, entryToken, holders, waiters, mine, callerPC>>

\* The select takes the token.
TakeToken(c) ==
    /\ callerPC[c] = "waiting" /\ entryToken[mine[c]]
    /\ entryToken' = [entryToken EXCEPT ![mine[c]] = FALSE]
    /\ CallerGoes(c, "granted")
    /\ UNCHANGED <<entry, holders, waiters, mine, contextDone>>

\* Mutant: a cancelled caller keeps the token that it was given.
GiveBackNothing(c) ==
    /\ callerPC[c] = "granted" /\ contextDone[c]
    /\ CallerGoes(c, "abandon")
    /\ UNCHANGED <<entryToken, entry, holders, waiters, mine, contextDone>>

\* The token won against a cancelled context: give it back.
GiveBack(c) ==
    /\ callerPC[c] = "granted" /\ contextDone[c]
    /\ ~entryToken[mine[c]]
    /\ entryToken' = [entryToken EXCEPT ![mine[c]] = TRUE]
    /\ CallerGoes(c, "abandon")
    /\ UNCHANGED <<entry, holders, waiters, mine, contextDone>>

\* Mutant: an entry is removed as soon as nobody holds it.
DeleteUnheldEntry(e, h, w) ==
    entry' = IF h[e] = 0 /\ entry = e THEN NoEntry ELSE entry

\* deleteIdleEntry, with the counters as they are after the caller's decrement.
DeleteIdleEntry(e, h, w) ==
    entry' = IF h[e] = 0 /\ w[e] = 0 /\ entry = e THEN NoEntry ELSE entry

\* cancelWaiter, from the select or after GiveBack.
CancelWaiter(c) ==
    /\ callerPC[c] = "abandon" \/ (callerPC[c] = "waiting" /\ contextDone[c])
    /\ waiters' = [waiters EXCEPT ![mine[c]] = @ - 1]
    /\ DeleteIdleEntry(mine[c], holders, waiters')
    /\ Return(c)
    /\ UNCHANGED <<entryToken, holders>>

\* The check of the context and the update of the counters are two steps of the
\* code; a context that ends between them is simply not noticed.
Acquire(c) ==
    /\ callerPC[c] = "granted" /\ ~contextDone[c]
    /\ waiters' = [waiters EXCEPT ![mine[c]] = @ - 1]
    /\ holders' = [holders EXCEPT ![mine[c]] = @ + 1]
    /\ CallerGoes(c, "holding")
    /\ UNCHANGED <<entry, entryToken, mine, contextDone>>

\* unlock: first the token, then, under k.mu, the counter.
Release(c) ==
    /\ callerPC[c] = "holding"
    /\ ~entryToken[mine[c]]
    /\ entryToken' = [entryToken EXCEPT ![mine[c]] = TRUE]
    /\ CallerGoes(c, "released")
    /\ UNCHANGED <<entry, holders, waiters, mine, contextDone>>

Forget(c) ==
    /\ callerPC[c] = "released"
    /\ holders' = [holders EXCEPT ![mine[c]] = @ - 1]
    /\ DeleteIdleEntry(mine[c], holders', waiters)
    /\ Return(c)
    /\ UNCHANGED <<entryToken, waiters>>
-----------------------------------------------------------------------------
CallerStep(c) ==
    TakeToken(c) \/ GiveBack(c) \/ CancelWaiter(c) \/ Acquire(c) \/ Release(c) \/ Forget(c)

LockNext == \E c \in Caller : Enter(c) \/ ContextEnds(c) \/ CallerStep(c)

LockSpec == LockInit /\ [][LockNext]_lockVars

\* Callers go on with what they began and holders unlock; a waiter on a channel
\* is served in its turn, so it is not passed over for ever.
LockFairSpec ==
    /\ LockSpec
    /\ \A c \in Caller : WF_lockVars(CallerStep(c)) /\ SF_lockVars(TakeToken(c))
-----------------------------------------------------------------------------
(* Properties.                                                             *)

\* Every variable is of its type; the counters never go below zero.
LockTypeOK ==
    /\ entry \in Entry \cup {NoEntry}
    /\ entryToken \in [Entry -> BOOLEAN]
    /\ holders \in [Entry -> 0 .. Cardinality(Caller)]
    /\ waiters \in [Entry -> 0 .. Cardinality(Caller)]
    /\ mine \in [Caller -> Entry \cup {NoEntry}]
    /\ callerPC \in [Caller -> LockPC]
    /\ contextDone \in [Caller -> BOOLEAN]

\* At most one caller has the key, whichever entries they got it from: an entry
\* is never replaced while someone can still be granted the old one.
MutualExclusion ==
    \A c, d \in Caller :
       callerPC[c] \in {"granted", "holding"} /\ callerPC[d] \in {"granted", "holding"} => c = d

\* Putting the token back, under no lock, never finds the channel full: neither
\* unlock nor a cancelled LockContext can block.
PutBackNeverBlocks ==
    \A c \in Caller : callerPC[c] \in {"granted", "holding"} => ~entryToken[mine[c]]

\* The map holds no entry of a key that nobody holds or waits for.
NoLeakedEntry == entry # NoEntry => \E c \in Caller : mine[c] = entry

\* A caller that waits gets the key or returns its cancellation.
WaiterIsServed == \A c \in Caller : callerPC[c] = "waiting" ~> callerPC[c] \in {"holding", "idle"}
=============================================================================
