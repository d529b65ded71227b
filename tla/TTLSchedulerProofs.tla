------------------------- MODULE TTLSchedulerProofs -------------------------
(***************************************************************************)
(* Proofs about the TTL coordinator for any sandboxes, any renewals, any   *)
(* page size and any number of attempts.                                   *)
(*                                                                         *)
(* The timer is armed from a reading of the heap that other goroutines may *)
(* overtake; what makes that right is that whoever changes the heap after  *)
(* it leaves a token in the wake channel (TimerInv).  A renewal compares   *)
(* the times it read and the statement compares texts of the row; what     *)
(* makes that right is that a party with an up-to-date snapshot validated  *)
(* the very lease it replaces (SnapshotInv).                               *)
(***************************************************************************)
EXTENDS TTLScheduler, FiniteSetTheorems, WellFoundedInduction, TLAPS

Lease == [state : {"none", "live", "ended"}, at : Nat]
HeapEntry == [s : Sandboxes, at : Nat]
Renewal ==
    {[pc |-> "idle"], [pc |-> "done"]}
    \cup [pc : {"cas"}, s : Sandboxes, req : Nat, at : Nat, tries : Nat]
Loop == {"page", "peek", "empty", "armed", "sleep", "callback", "expire"}

\* Every variable is of its type, and where an entry is being expired there is one.
TypeOK ==
    /\ lease \in [Sandboxes -> Lease]
    /\ fresh \in [Sandboxes -> SUBSET (Renewers \cup {"ttl"})]
    /\ heap \in [Sandboxes -> Nat]
    /\ wake \in BOOLEAN
    /\ loop \in Loop
    /\ timer \in Nat
    /\ due \in SUBSET HeapEntry
    /\ tries \in Nat /\ clk \in Nat /\ after \in Nat
    /\ renew \in [Renewers -> Renewal]
    /\ restarts \in Nat /\ now \in Nat
    /\ loop = "expire" => due # {}

\* From the moment the timer is armed, or the heap found empty, until the loop looks
\* again: whatever is in the heap is not due before the timer, or a token is there.
TimerInv ==
    ~wake => /\ loop \in {"armed", "sleep"} =>
                   \A s \in Sandboxes : heap[s] # NoEntry => timer <= heap[s]
             /\ loop = "empty" => \A s \in Sandboxes : heap[s] = NoEntry

\* A renewal whose snapshot of a row is up to date is at its statement on that row,
\* which is live, and asks for more than its lease.
SnapshotInv ==
    \A s \in Sandboxes, r \in Renewers : r \in fresh[s] =>
       /\ renew[r].pc = "cas" /\ renew[r].s = s
       /\ Live(s) /\ renew[r].req > lease[s].at

IInv == TypeOK /\ TimerInv /\ SnapshotInv
-----------------------------------------------------------------------------
(* Least and greatest.                                                     *)

\* Every set of naturals with an element has a least one.
LEMMA LeastNumber ==
    ASSUME NEW T \in SUBSET Nat, T # {}
    PROVE  \E x \in T : \A y \in T : x <= y
<1> DEFINE R == OpToRel(<, Nat)
<1>1. IsWellFoundedOn(R, Nat)
  BY NatLessThanWellFounded
<1>2. \A x, y \in Nat : x < y => <<x, y>> \in R
  BY DEF OpToRel
<1> HIDE DEF R
<1>3. PICK x \in T : \A y \in T : ~(<<y, x>> \in R)
  BY <1>1, WFMin
<1>4. ASSUME NEW y \in T PROVE x <= y
  <2>1. ~(y < x)
    BY <1>2, <1>3, Zenon
  <2>2. QED
    BY <2>1
<1>5. QED
  BY <1>4

\* A finite one also has a greatest: the one with the fewest that are not less.
LEMMA GreatestNumber ==
    ASSUME NEW T \in SUBSET Nat, T # {}, IsFiniteSet(T)
    PROVE  \E x \in T : \A y \in T : y <= x
<1> DEFINE Up(x) == {y \in T : y >= x}
           Counts == {Cardinality(Up(x)) : x \in T}
<1>1. \A x \in T : IsFiniteSet(Up(x)) /\ Cardinality(Up(x)) \in Nat
  <2> SUFFICES ASSUME NEW x \in T
               PROVE  IsFiniteSet(Up(x)) /\ Cardinality(Up(x)) \in Nat
    OBVIOUS
  <2>1. Up(x) \subseteq T
    OBVIOUS
  <2> HIDE DEF Up
  <2>2. QED
    BY <2>1, FS_Subset, FS_CardinalityType
<1>2. PICK x \in T : \A y \in T : Cardinality(Up(x)) <= Cardinality(Up(y))
  <2> HIDE DEF Up
  <2>1. Counts \in SUBSET Nat /\ Counts # {}
    BY <1>1
  <2>2. PICK n \in Counts : \A m \in Counts : n <= m
    BY <2>1, LeastNumber
  <2>3. QED
    BY <2>2
<1>3. ASSUME NEW y \in T PROVE y <= x
  <2> SUFFICES ASSUME y > x PROVE FALSE
    OBVIOUS
  <2>1. Up(y) \subseteq Up(x) /\ Up(y) # Up(x)
    <3>1. x \in Nat /\ y \in Nat /\ x >= x /\ ~(x >= y)
      OBVIOUS
    <3>2. x \in Up(x) /\ x \notin Up(y)
      BY <3>1
    <3>3. ASSUME NEW z \in Up(y) PROVE z \in Up(x)
      BY <3>1
    <3>4. QED
      BY <3>2, <3>3
  <2> HIDE DEF Up
  <2>2. Cardinality(Up(y)) <= Cardinality(Up(x)) /\ Cardinality(Up(y)) # Cardinality(Up(x))
    BY <1>1, <2>1, FS_Subset
  <2>3. QED
    BY <1>1, <1>2, <2>2
<1>4. QED
  BY <1>3

\* Entries in the order of the heap have an earliest, and it is due first.
LEMMA EarliestIsFirst ==
    ASSUME NEW E \in SUBSET HeapEntry, E # {}
    PROVE  Earliest(E) \in E /\ \A f \in E : Earliest(E).at <= f.at
<1>1. /\ \A e \in E : e.s \in Nat /\ e.at \in Nat
      /\ \A e, f \in E : e.s = f.s /\ e.at = f.at => e = f
  <2>1. Sandboxes \subseteq Nat
    BY TTLAssumption
  <2>2. ASSUME NEW e \in HeapEntry PROVE e.s \in Sandboxes /\ e.at \in Nat
    BY <2>2 DEF HeapEntry
  <2>3. ASSUME NEW e \in HeapEntry, NEW f \in HeapEntry, e.s = f.s, e.at = f.at PROVE e = f
    BY <2>3 DEF HeapEntry
  <2>4. QED
    BY <2>1, <2>2, <2>3
<1>2. PICK e1 \in E : \A f \in E : e1.at <= f.at
  <2> DEFINE Ats == {e.at : e \in E}
  <2>1. Ats \in SUBSET Nat /\ Ats # {}
    BY <1>1
  <2>2. PICK n \in Ats : \A m \in Ats : n <= m
    BY <2>1, LeastNumber
  <2>3. QED
    BY <2>2
<1>3. PICK e \in E : e.at = e1.at /\ \A f \in E : f.at = e1.at => e.s <= f.s
  <2> DEFINE Ids == {f.s : f \in {g \in E : g.at = e1.at}}
  <2>1. Ids \in SUBSET Nat /\ Ids # {}
    BY <1>1
  <2>2. PICK n \in Ids : \A m \in Ids : n <= m
    BY <2>1, LeastNumber
  <2>3. QED
    BY <2>2
<1>4. \A f \in E \ {e} : Before(e, f)
  <2> SUFFICES ASSUME NEW f \in E \ {e} PROVE Before(e, f)
    OBVIOUS
  <2>1. f.at # e.at \/ f.s # e.s
    BY <1>1
  <2>2. QED
    BY <1>1, <1>2, <1>3, <2>1 DEF Before
<1>5. Earliest(E) \in E /\ \A f \in E \ {Earliest(E)} : Before(Earliest(E), f)
  BY <1>4 DEF Earliest
<1>6. QED
  BY <1>1, <1>5 DEF Before

\* The entries of the heap.
LEMMA EntriesTypes ==
    ASSUME TypeOK
    PROVE  /\ Entries \in SUBSET HeapEntry
           /\ \A s \in Sandboxes : heap[s] # NoEntry =>
                 \E e \in Entries : e.at = heap[s]
           /\ Entries = {} => \A s \in Sandboxes : heap[s] = NoEntry
<1>1. \A s \in Sandboxes : Entry(s, heap[s]) \in HeapEntry /\ Entry(s, heap[s]).at = heap[s]
  BY DEF TypeOK, Entry, HeapEntry
<1>2. QED
  BY <1>1 DEF Entries

\* What is in hand is one of the entries to be expired.
LEMMA InHandTypes ==
    ASSUME TypeOK, due # {}
    PROVE  InHand \in due /\ InHand.s \in Sandboxes /\ InHand.at \in Nat
<1>1. InHand \in due
  BY EarliestIsFirst DEF InHand, TypeOK
<1>2. QED
  BY <1>1 DEF TypeOK, HeapEntry
-----------------------------------------------------------------------------
(* The types.                                                              *)

\* The heap's operations, on whatever index.
LEMMA HeapTypes ==
    ASSUME TypeOK, NEW s \in Sandboxes,
           \/ \E at \in Nat : Upsert(s, at)
           \/ Remove(s)
    PROVE  heap' \in [Sandboxes -> Nat] /\ wake' \in BOOLEAN
<1>1. heap' \in [Sandboxes -> Nat]
  BY DEF TypeOK, Upsert, Remove, NoEntry
<1>2. wake' \in BOOLEAN
  BY Zenon DEF TypeOK, Upsert, Remove
<1>3. QED
  BY <1>1, <1>2

\* A page of the recovery.
LEMMA PageTypes == ASSUME TypeOK, RecoverPage PROVE TypeOK'
<1> DEFINE ids == ActiveAfter(after)
<1>1. ids \subseteq Sandboxes /\ IsFiniteSet(ids) /\ ids \in SUBSET Nat
  <2>1. ids \subseteq Sandboxes
    BY DEF ActiveAfter
  <2>2. QED
    BY <2>1, FS_Subset, TTLAssumption
<1>2. \A s \in Sandboxes : lease[s].at \in Nat
  BY DEF TypeOK, Lease
<1>3. due' \in SUBSET HeapEntry
  <2>1. due' = {Entry(s, lease[s].at) : s \in {x \in ids : lease[x].at <= now}}
    BY DEF RecoverPage
  <2>2. \A s \in Sandboxes : Entry(s, lease[s].at) \in HeapEntry
    BY <1>2 DEF Entry, HeapEntry
  <2> HIDE DEF ids
  <2>3. QED
    BY <1>1, <2>1, <2>2
<1>4. heap' \in [Sandboxes -> Nat]
  BY <1>2 DEF RecoverPage, TypeOK
<1>5. wake' \in BOOLEAN
  BY Zenon DEF RecoverPage
<1>6. after' \in Nat
  <2>1. CASE Cardinality(ids) < PageSize
    BY <2>1, FS_CardinalityType, TTLAssumption DEF RecoverPage, LastPage
  <2>2. CASE ~(Cardinality(ids) < PageSize)
    <3>1. after' = CHOOSE s \in ids : \A x \in ids : x <= s
      BY <2>2 DEF RecoverPage
    <3> HIDE DEF ids
    <3>2. ids # {}
      BY <2>2, FS_EmptySet, TTLAssumption
    <3>3. \E s \in ids : \A x \in ids : x <= s
      BY <1>1, <3>2, GreatestNumber
    <3>4. after' \in ids
      BY <3>1, <3>3
    <3>5. QED
      BY <1>1, <3>4
  <2>3. QED
    BY <2>1, <2>2
<1>7. QED
  BY <1>3, <1>4, <1>5, <1>6 DEF RecoverPage, TypeOK, Loop

\* The loop.
LEMMA RunTypes == ASSUME TypeOK, Run PROVE TypeOK'
<1> USE DEF Loop, NoTimer, NoEntry
<1>1. CASE PeekEmpty
  BY <1>1 DEF PeekEmpty, TypeOK
<1>2. CASE PopDue
  <2>1. due' \in SUBSET HeapEntry
    BY <1>2, EntriesTypes DEF PopDue
  <2>2. heap' \in [Sandboxes -> Nat]
    BY <1>2 DEF PopDue, TypeOK
  <2>3. QED
    BY <1>2, <2>1, <2>2 DEF PopDue, TypeOK
<1>3. CASE Arm
  <2>1. timer' \in Nat
    BY <1>3, EntriesTypes, EarliestIsFirst DEF Arm, HeapEntry
  <2>2. QED
    BY <1>3, <2>1 DEF Arm, TypeOK
<1>4. CASE Recheck
  BY <1>4 DEF Recheck, TypeOK
<1>5. CASE Woken
  <2>1. wake' \in BOOLEAN
    BY <1>5, Zenon DEF Woken
  <2>2. QED
    BY <1>5, <2>1 DEF Woken, TypeOK
<1>6. CASE Fired
  BY <1>6 DEF Fired, TypeOK
<1>7. CASE Continue
  BY <1>7 DEF Continue, TypeOK
<1>8. QED
  BY <1>1, <1>2, <1>3, <1>4, <1>5, <1>6, <1>7 DEF Run

\* The expiry of an entry.
LEMMA ExpireTypes == ASSUME TypeOK, ExpireEntry PROVE TypeOK'
<1> USE DEF Loop
<1>1. due # {}
  BY DEF ExpireEntry, ValidateGone, ValidateMoved, ValidateDue, Expire, ExpireConflict, TypeOK
<1>2. InHand.s \in Sandboxes /\ lease[InHand.s].at \in Nat
  BY <1>1, InHandTypes DEF TypeOK, Lease
<1>3. due \ {InHand} \in SUBSET HeapEntry
  BY DEF TypeOK
<1>4. CASE ValidateGone
  BY <1>2, <1>3, <1>4, HeapTypes DEF ValidateGone, Return, TypeOK
<1>5. CASE ValidateMoved
  BY <1>2, <1>3, <1>5, HeapTypes DEF ValidateMoved, Return, TypeOK
<1>6. CASE ValidateDue
  <2>1. fresh' \in [Sandboxes -> SUBSET (Renewers \cup {"ttl"})]
    BY <1>6 DEF ValidateDue, Reads, TypeOK
  <2>2. QED
    BY <1>6, <2>1 DEF ValidateDue, TypeOK
<1>7. CASE Expire
  <2>1. /\ lease' \in [Sandboxes -> Lease]
        /\ fresh' \in [Sandboxes -> SUBSET (Renewers \cup {"ttl"})]
    BY <1>7 DEF Expire, Hit, Ended, TypeOK, Lease
  <2>2. QED
    BY <1>2, <1>3, <1>7, <2>1, HeapTypes DEF Expire, Return, TypeOK
<1>8. CASE ExpireConflict
  <2>1. fresh' \in [Sandboxes -> SUBSET (Renewers \cup {"ttl"})]
    BY <1>8 DEF ExpireConflict, Forgets, TypeOK
  <2>2. QED
    BY <1>1, <1>3, <1>8, <2>1 DEF ExpireConflict, Return, TypeOK
<1>9. QED
  BY <1>4, <1>5, <1>6, <1>7, <1>8 DEF ExpireEntry

\* A renewal's request, with what it carries.
LEMMA RenewalTypes ==
    ASSUME TypeOK, NEW r \in Renewers, renew[r].pc = "cas"
    PROVE  /\ renew[r] \in [pc : {"cas"}, s : Sandboxes, req : Nat, at : Nat, tries : Nat]
           /\ renew[r].s \in Sandboxes /\ renew[r].req \in Nat
  BY DEF TypeOK, Renewal

\* The renewals.
LEMMA RenewTypes ==
    ASSUME TypeOK, NEW r \in Renewers, RenewStart(r) \/ RenewCommit(r) \/ RenewConflict(r)
    PROVE  TypeOK'
<1>1. UNCHANGED <<schedVars, restarts, now>>
  BY DEF RenewStart, RenewCommit, RenewConflict
<1>2. fresh' \in [Sandboxes -> SUBSET (Renewers \cup {"ttl"})]
  BY DEF RenewStart, RenewCommit, RenewConflict, Reads, Forgets, Hit, TypeOK
<1>3. lease' \in [Sandboxes -> Lease]
  <2>1. CASE RenewCommit(r)
    <3>1. [state |-> "live", at |-> renew[r].req] \in Lease
      BY <2>1, RenewalTypes DEF RenewCommit, Lease
    <3>2. QED
      BY <2>1, <3>1 DEF RenewCommit, Hit, TypeOK
  <2>2. CASE ~RenewCommit(r)
    BY <2>2 DEF RenewStart, RenewConflict, TypeOK
  <2>3. QED
    BY <2>1, <2>2
<1>4. renew' \in [Renewers -> Renewal]
  <2>1. CASE RenewStart(r)
    <3>1. PICK s \in Sandboxes, requested \in 1 .. LastLease :
             renew' = [renew EXCEPT ![r] =
                         [pc |-> "cas", s |-> s, req |-> requested, at |-> now, tries |-> 1]]
      BY <2>1 DEF RenewStart
    <3>2. requested \in Nat
      BY TTLAssumption DEF LastLease
    <3>3. [pc |-> "cas", s |-> s, req |-> requested, at |-> now, tries |-> 1] \in Renewal
      BY <3>2 DEF Renewal, TypeOK
    <3>4. QED
      BY <3>1, <3>3 DEF TypeOK
  <2>2. CASE RenewDone(r)
    BY <2>2 DEF RenewDone, TypeOK, Renewal
  <2>3. CASE /\ renew[r].pc = "cas"
             /\ renew' = [renew EXCEPT ![r].tries = @ + 1, ![r].at = now]
    <3> DEFINE new == [renew[r] EXCEPT !.tries = @ + 1, !.at = now]
    <3>1. renew[r] \in [pc : {"cas"}, s : Sandboxes, req : Nat, at : Nat, tries : Nat]
      BY <2>3, RenewalTypes
    <3>2. new \in [pc : {"cas"}, s : Sandboxes, req : Nat, at : Nat, tries : Nat]
      <4>1. renew[r].tries + 1 \in Nat /\ now \in Nat
        BY <3>1 DEF TypeOK
      <4>2. QED
        BY <3>1, <4>1
    <3>3. renew' = [renew EXCEPT ![r] = new]
      BY <2>3 DEF TypeOK
    <3> HIDE DEF new
    <3>4. QED
      BY <3>2, <3>3 DEF TypeOK, Renewal
  <2>4. QED
    BY <2>1, <2>2, <2>3 DEF RenewCommit, RenewConflict
<1>5. QED
  BY <1>1, <1>2, <1>3, <1>4 DEF TypeOK, schedVars

\* The others.
LEMMA OthersTypes ==
    ASSUME TypeOK,
           \/ \E s \in Sandboxes :
                 Create(s) \/ Delete(s) \/ Touch(s) \/ Scan(s) \/ ConcurrentUpsert(s)
           \/ Restart \/ Tick \/ UNCHANGED vars
    PROVE  TypeOK'
<1>1. ASSUME NEW s \in Sandboxes, Create(s) PROVE TypeOK'
  <2>1. PICK at \in (now + MinTTL) .. LastLease :
           lease' = [lease EXCEPT ![s] = [state |-> "live", at |-> at]]
    BY <1>1 DEF Create
  <2>2. at \in Nat
    BY TTLAssumption DEF TypeOK, LastLease
  <2>3. lease' \in [Sandboxes -> Lease]
    BY <2>1, <2>2 DEF TypeOK, Lease
  <2>4. QED
    BY <1>1, <2>3 DEF Create, TypeOK, schedVars
<1>2. ASSUME NEW s \in Sandboxes, Delete(s) \/ Touch(s) \/ Scan(s) PROVE TypeOK'
  <2>1. /\ lease' \in [Sandboxes -> Lease]
        /\ fresh' \in [Sandboxes -> SUBSET (Renewers \cup {"ttl"})]
    BY <1>2 DEF Delete, Touch, Scan, Hit, Ended, TypeOK, Lease
  <2>2. QED
    BY <1>2, <2>1 DEF Delete, Touch, Scan, TypeOK, schedVars
<1>3. ASSUME NEW s \in Sandboxes, ConcurrentUpsert(s) PROVE TypeOK'
  <2>1. lease[s].at \in Nat
    BY DEF TypeOK, Lease
  <2>2. heap' \in [Sandboxes -> Nat] /\ wake' \in BOOLEAN
    BY <1>3, <2>1, HeapTypes DEF ConcurrentUpsert
  <2>3. QED
    BY <1>3, <2>2 DEF ConcurrentUpsert, TypeOK
<1>4. CASE Restart
  <2>1. renew' \in [Renewers -> Renewal]
    <3>1. [pc |-> "done"] \in Renewal /\ \A r \in Renewers : renew[r] \in Renewal
      BY DEF TypeOK, Renewal
    <3>2. QED
      BY <1>4, <3>1 DEF Restart
  <2>2. wake' \in BOOLEAN
    BY <1>4, Zenon DEF Restart
  <2>3. QED
    BY <1>4, <2>1, <2>2 DEF Restart, TypeOK, Loop, NoEntry, NoTimer
<1>5. CASE Tick
  BY <1>5 DEF Tick, TypeOK, schedVars
<1>6. CASE UNCHANGED vars
  BY <1>6 DEF vars, TypeOK
<1>7. QED
  BY <1>1, <1>2, <1>3, <1>4, <1>5, <1>6

\* All steps.
LEMMA StepTypes == ASSUME TypeOK, [Next]_vars PROVE TypeOK'
  BY PageTypes, RunTypes, ExpireTypes, RenewTypes, OthersTypes DEF Next
-----------------------------------------------------------------------------
(* The timer.                                                              *)

\* A step that leaves the heap, its token and the loop alone.
LEMMA TimerAside ==
    ASSUME TimerInv, UNCHANGED <<heap, wake, loop, timer>> PROVE TimerInv'
  BY DEF TimerInv, NoEntry

\* Only Arm and PeekEmpty begin to wait, for what the heap shows them; whoever moves
\* an entry while the loop waits leaves the token.
LEMMA StepTimer == ASSUME IInv, [Next]_vars PROVE TimerInv'
<1>1. TypeOK /\ TimerInv
  BY DEF IInv
<1>2. CASE RecoverPage \/ ExpireEntry
  <2>1. loop' \in {"callback", "expire"}
    BY <1>2 DEF RecoverPage, ExpireEntry, ValidateGone, ValidateMoved, ValidateDue, Expire,
                ExpireConflict, Return
  <2>2. QED
    BY <2>1 DEF TimerInv
<1>3. CASE PeekEmpty
  BY <1>1, <1>3, EntriesTypes DEF PeekEmpty, TimerInv, NoEntry
<1>4. CASE Arm
  <2>1. \A e \in Entries : timer' <= e.at
    BY <1>1, <1>4, EntriesTypes, EarliestIsFirst DEF Arm
  <2>2. \A s \in Sandboxes : heap[s] # NoEntry => timer' <= heap[s]
    BY <1>1, <2>1, EntriesTypes
  <2>3. QED
    BY <1>4, <2>2 DEF Arm, TimerInv, NoEntry
<1>5. CASE Recheck
  BY <1>1, <1>5 DEF Recheck, TimerInv, NoEntry
<1>6. CASE PopDue \/ Woken \/ Fired \/ Continue
  <2>1. loop' \in {"callback", "peek", "page"}
    BY <1>6 DEF PopDue, Woken, Fired, Continue
  <2>2. QED
    BY <2>1 DEF TimerInv
<1>7. ASSUME NEW r \in Renewers, RenewStart(r) \/ RenewCommit(r) \/ RenewConflict(r)
      PROVE  TimerInv'
  BY <1>1, <1>7, TimerAside DEF RenewStart, RenewCommit, RenewConflict, schedVars
<1>8. ASSUME NEW s \in Sandboxes, Create(s) \/ Delete(s) \/ Touch(s) \/ Scan(s)
      PROVE  TimerInv'
  BY <1>1, <1>8, TimerAside DEF Create, Delete, Touch, Scan, schedVars
<1>9. ASSUME NEW s \in Sandboxes, ConcurrentUpsert(s) PROVE TimerInv'
  <2>1. wake'
    BY <1>9 DEF ConcurrentUpsert, Upsert
  <2>2. QED
    BY <2>1 DEF TimerInv
<1>10. CASE Restart
  BY <1>10 DEF Restart, TimerInv
<1>11. CASE Tick \/ UNCHANGED vars
  BY <1>1, <1>11, TimerAside DEF Tick, vars, schedVars
<1>12. QED
  BY <1>2, <1>3, <1>4, <1>5, <1>6, <1>7, <1>8, <1>9, <1>10, <1>11 DEF Next, Run
-----------------------------------------------------------------------------
(* The snapshots of the renewals.                                          *)

\* No step of another than a renewal gives one a snapshot, and a write takes all.
SnapshotsShrink ==
    /\ UNCHANGED renew
    /\ \A s \in Sandboxes, r \in Renewers :
          r \in fresh'[s] => r \in fresh[s] /\ lease'[s] = lease[s]

\* So the ones that are left are still up to date.
LEMMA ShrinkKeeps == ASSUME SnapshotInv, SnapshotsShrink PROVE SnapshotInv'
  BY DEF SnapshotInv, SnapshotsShrink, Live

\* The coordinator and the loop.
LEMMA SchedulerShrinks ==
    ASSUME IInv, RecoverPage \/ Run \/ ExpireEntry PROVE SnapshotsShrink
<1>1. TypeOK /\ "ttl" \notin Renewers
  BY TTLAssumption DEF IInv
<1>2. CASE RecoverPage \/ Run \/ ValidateGone \/ ValidateMoved
  BY <1>2 DEF RecoverPage, Run, PeekEmpty, PopDue, Arm, Recheck, Woken, Fired, Continue,
              ValidateGone, ValidateMoved, SnapshotsShrink
<1>3. CASE ValidateDue \/ ExpireConflict
  BY <1>1, <1>3 DEF ValidateDue, ExpireConflict, Reads, Forgets, SnapshotsShrink, TypeOK
<1>4. CASE Expire
  BY <1>1, <1>4 DEF Expire, Hit, SnapshotsShrink, TypeOK
<1>5. QED
  BY <1>2, <1>3, <1>4 DEF ExpireEntry

\* The other writers of the row: a row without a lease has no readers.
LEMMA WritersShrink ==
    ASSUME IInv, NEW s \in Sandboxes,
           Create(s) \/ Delete(s) \/ Touch(s) \/ Scan(s) \/ ConcurrentUpsert(s)
    PROVE  SnapshotsShrink
<1>1. TypeOK
  BY DEF IInv
<1>2. CASE Create(s)
  <2>1. \A r \in Renewers : r \notin fresh[s]
    BY <1>2 DEF Create, IInv, SnapshotInv, Live
  <2>2. \A x \in Sandboxes : x # s => lease'[x] = lease[x]
    BY <1>1, <1>2 DEF Create, TypeOK
  <2>3. QED
    BY <1>2, <2>1, <2>2 DEF Create, SnapshotsShrink
<1>3. CASE Delete(s) \/ Touch(s) \/ Scan(s) \/ ConcurrentUpsert(s)
  BY <1>1, <1>3 DEF Delete, Touch, Scan, ConcurrentUpsert, Hit, SnapshotsShrink, TypeOK
<1>4. QED
  BY <1>2, <1>3

\* A renewal that reads a row validates what it read.
LEMMA RenewSnapshots ==
    ASSUME IInv, NEW r \in Renewers, RenewStart(r) \/ RenewCommit(r) \/ RenewConflict(r)
    PROVE  SnapshotInv'
<1>1. TypeOK /\ SnapshotInv
  BY DEF IInv
<1>2. CASE RenewStart(r)
  <2>1. PICK s \in Sandboxes, requested \in 1 .. LastLease :
           /\ Live(s) /\ requested > lease[s].at
           /\ fresh' = [fresh EXCEPT ![s] = @ \cup {r}]
           /\ renew' = [renew EXCEPT ![r] =
                 [pc |-> "cas", s |-> s, req |-> requested, at |-> now, tries |-> 1]]
    BY <1>2 DEF RenewStart, ValidRenew, Reads
  <2>2. \A x \in Sandboxes : r \notin fresh[x]
    BY <1>1, <1>2 DEF RenewStart, SnapshotInv
  <2>3. lease' = lease
    BY <1>2 DEF RenewStart
  <2>4. QED
    BY <1>1, <2>1, <2>2, <2>3 DEF SnapshotInv, Live, TypeOK
<1>3. CASE RenewCommit(r)
  <2>1. PICK s \in Sandboxes : s = renew[r].s
    BY <1>1, <1>3, RenewalTypes DEF RenewCommit
  <2>2. /\ \A x \in Sandboxes : x # s => lease'[x] = lease[x] /\ fresh'[x] = fresh[x]
        /\ fresh'[s] = {}
        /\ \A q \in Renewers : q # r => renew'[q] = renew[q]
    BY <1>1, <1>3, <2>1 DEF RenewCommit, RenewDone, Hit, TypeOK
  <2>3. \A x \in Sandboxes : x # s => r \notin fresh[x]
    BY <1>1, <2>1 DEF SnapshotInv
  <2>4. QED
    BY <1>1, <2>2, <2>3 DEF SnapshotInv, Live
<1>4. CASE RenewConflict(r)
  <2>1. PICK s \in Sandboxes : s = renew[r].s /\ renew[r].pc = "cas"
    BY <1>1, <1>4, RenewalTypes DEF RenewConflict
  <2>2. /\ lease' = lease
        /\ \A q \in Renewers : q # r => renew'[q] = renew[q]
        /\ \A x \in Sandboxes : x # s => fresh'[x] = fresh[x] /\ r \notin fresh[x]
        /\ \A q \in Renewers : q # r => (q \in fresh'[s] <=> q \in fresh[s])
    <3>1. lease' = lease /\ \A x \in Sandboxes : x # s => r \notin fresh[x]
      BY <1>1, <1>4, <2>1 DEF RenewConflict, SnapshotInv
    <3>2. \A q \in Renewers : q # r => renew'[q] = renew[q]
      BY <1>1, <1>4 DEF RenewConflict, RenewDone, TypeOK
    <3>3. /\ \A x \in Sandboxes : x # s => fresh'[x] = fresh[x]
          /\ \A q \in Renewers : q # r => (q \in fresh'[s] <=> q \in fresh[s])
      BY <1>1, <1>4, <2>1 DEF RenewConflict, Reads, Forgets, TypeOK
    <3>4. QED
      BY <3>1, <3>2, <3>3
  <2>3. ASSUME r \in fresh'[s]
        PROVE  /\ renew'[r].pc = "cas" /\ renew'[r].s = s
               /\ Live(s) /\ renew'[r].req > lease[s].at
    <3>1. /\ Live(s) /\ ValidRenew(lease[s].at, renew[r].req)
          /\ renew' = [renew EXCEPT ![r].tries = @ + 1, ![r].at = now]
      BY <1>1, <1>4, <2>1, <2>3 DEF RenewConflict, Forgets, TypeOK
    <3>2. renew[r] \in [pc : {"cas"}, s : Sandboxes, req : Nat, at : Nat, tries : Nat]
      BY <1>1, <2>1, RenewalTypes
    <3>3. renew'[r] = [renew[r] EXCEPT !.tries = @ + 1, !.at = now]
      BY <1>1, <3>1 DEF TypeOK
    <3>4. /\ renew'[r].pc = "cas" /\ renew'[r].s = s
          /\ renew'[r].req = renew[r].req
      BY <2>1, <3>2, <3>3
    <3>5. QED
      BY <3>1, <3>4 DEF ValidRenew
  <2>4. QED
    BY <1>1, <2>2, <2>3 DEF SnapshotInv, Live
<1>5. QED
  BY <1>2, <1>3, <1>4

\* All steps.
LEMMA StepSnapshots == ASSUME IInv, [Next]_vars PROVE SnapshotInv'
<1>1. CASE RecoverPage \/ Run \/ ExpireEntry
  BY <1>1, SchedulerShrinks, ShrinkKeeps DEF IInv
<1>2. ASSUME NEW s \in Sandboxes,
             Create(s) \/ Delete(s) \/ Touch(s) \/ Scan(s) \/ ConcurrentUpsert(s)
      PROVE  SnapshotInv'
  BY <1>2, WritersShrink, ShrinkKeeps DEF IInv
<1>3. CASE Restart
  BY <1>3 DEF Restart, SnapshotInv
<1>4. CASE Tick \/ UNCHANGED vars
  BY <1>4, ShrinkKeeps DEF IInv, Tick, vars, SnapshotsShrink
<1>5. QED
  BY <1>1, <1>2, <1>3, <1>4, RenewSnapshots DEF Next
-----------------------------------------------------------------------------
(* The theorems.                                                           *)

\* The invariant from which the others follow.
THEOREM Inductive == Spec => []IInv
<1>1. Init => IInv
  <2> SUFFICES ASSUME Init PROVE IInv
    OBVIOUS
  <2>1. TypeOK
    <3>1. wake \in BOOLEAN
      BY Zenon DEF Init
    <3>2. QED
      BY <3>1 DEF Init, TypeOK, Lease, Loop, Renewal, NoEntry, NoTimer
  <2>2. TimerInv /\ SnapshotInv
    BY DEF Init, TimerInv, SnapshotInv
  <2>3. QED
    BY <2>1, <2>2 DEF IInv
<1>2. IInv /\ [Next]_vars => IInv'
  BY StepTypes, StepTimer, StepSnapshots DEF IInv
<1>3. QED
  BY <1>1, <1>2, PTL DEF Spec

\* The types hold, and ExpireEntry never runs without an entry.
THEOREM TypeCorrect == Spec => []TypeOK
  BY Inductive, PTL DEF IInv

\* The loop never sleeps past an entry: no upsert or removal between its look at the
\* heap and its select is lost.
THEOREM NothingIsOverslept == Spec => []NoEntryIsOverslept
<1>1. IInv => NoEntryIsOverslept
  BY DEF IInv, TimerInv, NoEntryIsOverslept
<1>2. QED
  BY <1>1, Inductive, PTL

\* An accepted renewal never shortens the lease, whatever the order of the texts.
THEOREM RenewalsExtend == Spec => RenewalExtends
<1>1. IInv /\ [Next]_vars
        => [\A s \in Sandboxes :
              (Live(s) /\ lease'[s].state = "live") => lease'[s].at >= lease[s].at]_vars
  <2> SUFFICES ASSUME IInv, [Next]_vars, NEW s \in Sandboxes,
                      Live(s), lease'[s].state = "live"
               PROVE  lease'[s].at >= lease[s].at
    OBVIOUS
  <2>1. TypeOK /\ TypeOK' /\ lease[s].at \in Nat
    BY StepTypes DEF IInv, TypeOK, Lease
  <2>2. CASE lease'[s] = lease[s]
    BY <2>1, <2>2
  <2>3. ASSUME NEW r \in Renewers, RenewCommit(r) PROVE lease'[s].at >= lease[s].at
    <3>1. CASE renew[r].s = s
      <4>1. r \in fresh[s] /\ lease'[s] = [state |-> "live", at |-> renew[r].req]
        BY <2>1, <2>3, <3>1 DEF RenewCommit, RenewWhere, Hit, TypeOK
      <4>2. renew[r].req \in Nat /\ renew[r].req > lease[s].at
        BY <2>1, <2>3, <4>1, RenewalTypes DEF IInv, SnapshotInv, RenewCommit
      <4>3. QED
        BY <2>1, <4>1, <4>2
    <3>2. CASE renew[r].s # s
      BY <2>1, <2>2, <2>3, <3>2 DEF RenewCommit, Hit, TypeOK
    <3>3. QED
      BY <3>1, <3>2
  <2>4. ASSUME NEW x \in Sandboxes, Create(x) \/ Delete(x) \/ Scan(x)
        PROVE  lease'[s] = lease[s]
    BY <2>1, <2>4 DEF Create, Delete, Scan, Hit, Ended, Live, TypeOK
  <2>5. CASE Expire
    BY <2>1, <2>2, <2>5 DEF Expire, Hit, Ended, Live, TypeOK
  <2>6. CASE UNCHANGED lease
    BY <2>2, <2>6
  <2>7. QED
    BY <2>2, <2>3, <2>4, <2>5, <2>6
    DEF Next, RecoverPage, Run, PeekEmpty, PopDue, Arm, Recheck, Woken, Fired, Continue,
        ExpireEntry, ValidateGone, ValidateMoved, ValidateDue, ExpireConflict, RenewStart,
        RenewConflict, Touch, ConcurrentUpsert, Restart, Tick, vars
<1>2. QED
  BY <1>1, Inductive, PTL DEF Spec, RenewalExtends
=============================================================================
