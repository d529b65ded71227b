--------------------------- MODULE WakeQueueProofs ---------------------------
(***************************************************************************)
(* The safety of WakeQueue for any sets of ids, wakers and workers, and    *)
(* that it implements WakeSlot; after it, the safety of KeyedLock, which a *)
(* worker takes for the id it has dequeued.                                *)
(***************************************************************************)
EXTENDS WakeQueue, KeyedLock, FiniteSetTheorems, TLAPS

\* What taking the head of the line leaves.
LEMMA TailFacts ==
    ASSUME NEW S, NEW s \in Seq(S), s # <<>>
    PROVE  /\ Head(s) \in S /\ Head(s) = s[1] /\ 1 \in 1 .. Len(s)
           /\ Tail(s) \in Seq(S)
           /\ Len(Tail(s)) = Len(s) - 1
           /\ \A i \in 1 .. Len(Tail(s)) : Tail(s)[i] = s[i + 1] /\ i + 1 \in 1 .. Len(s)
           /\ \A i \in 1 .. Len(s) : i # 1 => i - 1 \in 1 .. Len(Tail(s)) /\ Tail(s)[i - 1] = s[i]
  OBVIOUS

\* What joining the end of the line leaves.
LEMMA AppendFacts ==
    ASSUME NEW S, NEW s \in Seq(S), NEW e \in S
    PROVE  /\ Append(s, e) \in Seq(S)
           /\ Append(s, e) # <<>>
           /\ Len(Append(s, e)) = Len(s) + 1
           /\ Append(s, e)[Len(s) + 1] = e
           /\ \A i \in 1 .. Len(s) : Append(s, e)[i] = s[i]
  OBVIOUS

\* Line(s, st): s lists exactly the ids that st marks pending, each once.
Line(s, st) ==
    /\ \A id \in ID : st[id] = "pending" <=> \E i \in 1 .. Len(s) : s[i] = id
    /\ \A i, j \in 1 .. Len(s) : s[i] = s[j] => i = j

\* Joining the line: the id was not pending before and is pending now.
LEMMA LineAppend ==
    ASSUME NEW st \in [ID -> WakeState], NEW s \in Seq(ID), Line(s, st),
           NEW id \in ID, st[id] # "pending"
    PROVE  Line(Append(s, id), [st EXCEPT ![id] = "pending"])
<1> DEFINE t == Append(s, id)
           u == [st EXCEPT ![id] = "pending"]
<1>1. /\ Len(s) \in Nat
      /\ Len(t) = Len(s) + 1 /\ t[Len(s) + 1] = id
      /\ \A i \in 1 .. Len(s) : t[i] = s[i]
  BY AppendFacts
<1>2. \A i \in 1 .. Len(s) : s[i] # id
  BY DEF Line
<1>3. ASSUME NEW x \in ID
      PROVE  u[x] = "pending" <=> \E i \in 1 .. Len(t) : t[i] = x
  <2>1. CASE x = id
    BY <1>1, <2>1
  <2>2. CASE x # id
    <3>1. u[x] = st[x]
      BY <2>2
    <3>2. (\E i \in 1 .. Len(t) : t[i] = x) <=> \E i \in 1 .. Len(s) : s[i] = x
      BY <1>1, <2>2
    <3> QED
      BY <3>1, <3>2 DEF Line
  <2> QED
    BY <2>1, <2>2
<1>4. ASSUME NEW i \in 1 .. Len(t), NEW j \in 1 .. Len(t), t[i] = t[j]
      PROVE  i = j
  BY <1>1, <1>2, <1>4 DEF Line
<1> QED
  BY <1>3, <1>4 DEF Line

\* Taking the head: it was pending, it is not any more, and it was in line once.
LEMMA LineTail ==
    ASSUME NEW st \in [ID -> WakeState], NEW s \in Seq(ID), Line(s, st), s # <<>>
    PROVE  /\ st[Head(s)] = "pending"
           /\ Line(Tail(s), [st EXCEPT ![Head(s)] = "processing"])
<1> DEFINE h == Head(s)
           t == Tail(s)
           u == [st EXCEPT ![h] = "processing"]
<1>1. /\ Len(s) \in Nat /\ h \in ID /\ h = s[1] /\ 1 \in 1 .. Len(s)
      /\ Len(t) = Len(s) - 1
      /\ \A i \in 1 .. Len(t) : t[i] = s[i + 1] /\ i + 1 \in 1 .. Len(s)
      /\ \A i \in 1 .. Len(s) : i # 1 => i - 1 \in 1 .. Len(t) /\ t[i - 1] = s[i]
  BY TailFacts
<1> HIDE DEF h, t
<1>2. st[h] = "pending"
  BY <1>1 DEF Line
<1>3. \A i \in 1 .. Len(t) : t[i] # h
  BY <1>1 DEF Line
<1>4. ASSUME NEW x \in ID
      PROVE  u[x] = "pending" <=> \E i \in 1 .. Len(t) : t[i] = x
  <2>1. CASE x = h
    BY <1>1, <1>3, <2>1
  <2>2. CASE x # h
    <3>1. u[x] = st[x]
      BY <2>2
    <3>2. ASSUME NEW i \in 1 .. Len(t), t[i] = x
          PROVE  \E j \in 1 .. Len(s) : s[j] = x
      BY <1>1, <3>2
    <3>3. ASSUME NEW i \in 1 .. Len(s), s[i] = x
          PROVE  \E j \in 1 .. Len(t) : t[j] = x
      <4>1. i # 1
        BY <1>1, <2>2, <3>3
      <4> QED
        BY <1>1, <3>3, <4>1
    <3> QED
      BY <3>1, <3>2, <3>3 DEF Line
  <2> QED
    BY <2>1, <2>2
<1>5. ASSUME NEW i \in 1 .. Len(t), NEW j \in 1 .. Len(t), t[i] = t[j]
      PROVE  i = j
  BY <1>1, <1>5 DEF Line
<1> QED
  BY <1>2, <1>4, <1>5 DEF Line, h, t

\* An id that is not pending before or after does not disturb the line.
LEMMA LineKeep ==
    ASSUME NEW st \in [ID -> WakeState], NEW s \in Seq(ID), Line(s, st),
           NEW id \in ID, st[id] # "pending", NEW v \in WakeState, v # "pending"
    PROVE  Line(s, [st EXCEPT ![id] = v])
  BY DEF Line
-----------------------------------------------------------------------------
\* The inductive invariant: each part needs the others.  OneWorkerPerID holds
\* because the head of the line is pending, which a worker's task never is, and
\* the line is kept because a task that goes back is not in it.
QueueInv == TypeOK /\ OrderIsPending /\ OneWorkerPerID

\* What the property says of the queue is what the lemmas above say of a line.
LEMMA OrderIsLine == OrderIsPending <=> Line(order, states)
  BY DEF OrderIsPending, Line

\* It holds of an empty queue.
LEMMA QueueInit == Init => QueueInv /\ NoLostWakeup
<1> SUFFICES ASSUME Init
             PROVE  QueueInv /\ NoLostWakeup
  OBVIOUS
<1>1. TypeOK
  <2>1. states \in [ID -> WakeState] /\ pc \in [Worker -> PC]
    BY DEF Init, WakeState, PC
  <2>2. order \in Seq(ID) /\ task \in [Worker -> ID \cup {NoTask}]
    BY DEF Init
  <2>3. notifying \in SUBSET Waker
    BY DEF Init
  <2>4. token \in BOOLEAN /\ isClosed \in BOOLEAN /\ closed \in BOOLEAN /\ cancelled \in BOOLEAN
    BY DEF Init
  <2> QED
    BY <2>1, <2>2, <2>3, <2>4 DEF TypeOK
<1>2. OrderIsPending
  BY DEF Init, OrderIsPending
<1>3. OneWorkerPerID
  BY DEF Init, OneWorkerPerID, Works
<1>4. NoLostWakeup
  BY DEF Init, NoLostWakeup
<1> QED
  BY <1>1, <1>2, <1>3, <1>4 DEF QueueInv

\* A step that leaves the map, the line and the tasks alone.
LEMMA QuietStep ==
    ASSUME QueueInv, UNCHANGED <<states, order, task>>, TypeOK',
           \A w \in Worker : Works(w)' => Works(w)
    PROVE  QueueInv'
  BY DEF QueueInv, OrderIsPending, OneWorkerPerID, Works

\* Every step of wakers and workers keeps it.
LEMMA QueueStep ==
    ASSUME QueueInv, [Next]_vars
    PROVE  QueueInv'
<1> USE DEF QueueInv
<1>0. /\ states \in [ID -> WakeState] /\ order \in Seq(ID) /\ pc \in [Worker -> PC]
      /\ task \in [Worker -> ID \cup {NoTask}] /\ Line(order, states)
  BY OrderIsLine DEF TypeOK
<1>1. ASSUME NEW p \in Waker, NEW id \in ID, Wake(p, id), WakeProcessing(id)
      PROVE  QueueInv'
  <2>1. TypeOK'
    BY <1>1 DEF TypeOK, Wake, WakeProcessing, WakeState
  <2>2. Line(order', states')
    BY <1>0, <1>1, LineKeep DEF WakeProcessing, WakeState
  <2>3. OneWorkerPerID'
    BY <1>0, <1>1 DEF Wake, WakeProcessing, OneWorkerPerID, Works
  <2> QED
    BY <2>1, <2>2, <2>3 DEF OrderIsPending, Line
<1>2. ASSUME NEW p \in Waker, NEW id \in ID, Wake(p, id), WakeNew(p, id)
      PROVE  QueueInv'
  <2>1. TypeOK'
    <3>1. order' \in Seq(ID)
      BY <1>0, <1>2, AppendFacts DEF WakeNew
    <3> QED
      BY <1>2, <3>1 DEF TypeOK, Wake, WakeNew, WakeState
  <2>2. Line(order', states')
    BY <1>0, <1>2, LineAppend DEF WakeNew
  <2>3. OneWorkerPerID'
    BY <1>0, <1>2 DEF Wake, WakeNew, OneWorkerPerID, Works
  <2> QED
    BY <2>1, <2>2, <2>3 DEF OrderIsPending, Line
<1>3. ASSUME NEW p \in Waker, Notify(p)
      PROVE  QueueInv'
  <2>1. TypeOK'
    BY <1>3 DEF TypeOK, Notify
  <2> QED
    BY <1>3, <2>1, QuietStep DEF Notify, Works
<1>4. ASSUME NEW w \in Worker, Select(w)
      PROVE  QueueInv'
  <2>1. TypeOK'
    BY <1>4 DEF TypeOK, Select, Go, PC
  <2>2. \A v \in Worker : Works(v)' => Works(v)
    BY <1>0, <1>4 DEF Select, Go, Works
  <2> QED
    BY <1>4, <2>1, <2>2, QuietStep DEF Select
<1>5. ASSUME NEW w \in Worker, Recheck(w)
      PROVE  QueueInv'
  <2>1. TypeOK'
    BY <1>5 DEF TypeOK, Recheck, Go, PC
  <2>2. \A v \in Worker : Works(v)' => Works(v)
    BY <1>0, <1>5 DEF Recheck, Go, Works
  <2> QED
    BY <1>5, <2>1, <2>2, QuietStep DEF Recheck
<1>6. ASSUME NEW w \in Worker, Claim(w)
      PROVE  QueueInv'
  <2>1. CASE ~isClosed /\ ClaimHead(w)
    <3>1. /\ Head(order) \in ID /\ order' \in Seq(ID)
          /\ states[Head(order)] = "pending" /\ Line(order', states')
      BY <1>0, <2>1, TailFacts, LineTail DEF ClaimHead
    <3>2. TypeOK'
      BY <1>6, <2>1, <3>1 DEF TypeOK, Claim, ClaimHead, Go, WakeState, PC
    <3>3. ASSUME NEW v \in Worker, v # w, Works(v)'
          PROVE  /\ Works(v) /\ task'[v] = task[v] /\ task[v] # Head(order)
                 /\ states'[task[v]] = states[task[v]]
      BY <1>0, <2>1, <3>1, <3>3 DEF ClaimHead, Go, Works, OneWorkerPerID
    <3>4. task'[w] = Head(order) /\ states'[Head(order)] = "processing"
      BY <1>0, <2>1, <3>1 DEF ClaimHead
    <3>5. OneWorkerPerID'
      BY <3>1, <3>3, <3>4 DEF OneWorkerPerID
    <3> QED
      BY <3>1, <3>2, <3>5 DEF OrderIsPending, Line
  <2>2. CASE UNCHANGED <<states, order, task>> /\ pc' \in {[pc EXCEPT ![w] = "exited"],
                                                          [pc EXCEPT ![w] = "select"]}
    <3>1. TypeOK'
      BY <1>6, <2>2 DEF TypeOK, Claim, PC
    <3>2. \A v \in Worker : Works(v)' => Works(v)
      BY <1>0, <2>2 DEF Works
    <3> QED
      BY <2>2, <3>1, <3>2, QuietStep
  <2> QED
    BY <1>6, <2>1, <2>2 DEF Claim, Go
<1>7. ASSUME NEW w \in Worker, Renotify(w)
      PROVE  QueueInv'
  <2>1. TypeOK'
    BY <1>7 DEF TypeOK, Renotify, Go, PC
  <2>2. \A v \in Worker : Works(v)' => Works(v)
    BY <1>0, <1>7 DEF Renotify, Go, Works
  <2> QED
    BY <1>7, <2>1, <2>2, QuietStep DEF Renotify
<1>8. ASSUME NEW w \in Worker, Done(w)
      PROVE  QueueInv'
  <2> DEFINE id == task[w]
  <2>1. id \in ID /\ states[id] \in {"processing", "requeue"}
    BY <1>8 DEF Done, OneWorkerPerID, Works
  <2>2. order' \in Seq(ID) /\ states' \in [ID -> WakeState] /\ Line(order', states')
    <3>1. CASE states[id] = "requeue"
      <4>1. order' = Append(order, id) /\ states' = [states EXCEPT ![id] = "pending"]
        BY <1>8, <3>1 DEF Done, Requeue
      <4> QED
        BY <1>0, <2>1, <3>1, <4>1, AppendFacts, LineAppend DEF WakeState
    <3>2. CASE states[id] = "processing"
      <4>1. order' = order /\ states' = [states EXCEPT ![id] = "none"]
        BY <1>8, <3>2 DEF Done, Requeue
      <4> QED
        BY <1>0, <2>1, <3>2, <4>1, LineKeep DEF WakeState
    <3> QED
      BY <2>1, <3>1, <3>2
  <2>3. TypeOK'
    BY <1>8, <2>2 DEF TypeOK, Done, Go, PC
  <2>4. ASSUME NEW v \in Worker, Works(v)'
        PROVE  /\ Works(v) /\ task'[v] = task[v] /\ task[v] # id
               /\ states'[task[v]] = states[task[v]]
    <3>1. v # w /\ Works(v) /\ task'[v] = task[v]
      BY <1>0, <1>8, <2>4 DEF Done, Go, Works
    <3>2. task[v] # id
      BY <1>8, <3>1 DEF Done, OneWorkerPerID, Works
    <3> QED
      BY <1>0, <1>8, <3>1, <3>2 DEF Done, Requeue, OneWorkerPerID
  <2>5. OneWorkerPerID'
    BY <2>4 DEF OneWorkerPerID
  <2> QED
    BY <2>2, <2>3, <2>5 DEF OrderIsPending, Line
<1>9. ASSUME NEW w \in Worker, DoneNotify(w)
      PROVE  QueueInv'
  <2>1. TypeOK'
    BY <1>9 DEF TypeOK, DoneNotify, Go, PC
  <2>2. \A v \in Worker : Works(v)' => Works(v)
    BY <1>0, <1>9 DEF DoneNotify, Go, Works
  <2> QED
    BY <1>9, <2>1, <2>2, QuietStep DEF DoneNotify
<1>10. CASE Close \/ CloseChannel \/ Cancel \/ UNCHANGED vars
  <2>1. TypeOK' /\ UNCHANGED <<states, order, task, pc>>
    BY <1>10 DEF TypeOK, Close, CloseChannel, Cancel, vars
  <2> QED
    BY <2>1, QuietStep DEF Works
<1> QED
  BY <1>1, <1>2, <1>3, <1>4, <1>5, <1>6, <1>7, <1>8, <1>9, <1>10
     DEF Next, Wake, WorkerStep

\* The type invariant and the bookkeeping of the queue hold for any number of
\* ids, wakers and workers: order is the list of the pending ids.
THEOREM LineIsPending == Spec => [](TypeOK /\ OrderIsPending)
  BY QueueInit, QueueStep, PTL DEF Spec, QueueInv

\* Never two workers on one sandbox, in whatever order wakes, claims and ends of
\* runs come.
THEOREM WorkerExclusion == Spec => []OneWorkerPerID
  BY QueueInit, QueueStep, PTL DEF Spec, QueueInv
-----------------------------------------------------------------------------
\* Each step that takes the notification away, or joins the line, leaves someone
\* who will send one.
LEMMA NotificationKept ==
    ASSUME QueueInv, NoLostWakeup, [Next]_vars
    PROVE  NoLostWakeup'
<1> SUFFICES ASSUME order' # <<>>, ~isClosed'
             PROVE  token' \/ InHand'
  BY DEF NoLostWakeup
<1> USE DEF InHand
<1>0. pc \in [Worker -> PC] /\ order \in Seq(ID)
  BY DEF QueueInv, TypeOK
<1>1. ASSUME NEW p \in Waker, NEW id \in ID, Wake(p, id)
      PROVE  token' \/ InHand'
  <2>1. CASE WakeNew(p, id)
    BY <2>1 DEF WakeNew
  <2>2. CASE WakeProcessing(id)
    BY <1>1, <2>2 DEF Wake, WakeProcessing, NoLostWakeup
  <2> QED
    BY <1>1, <2>1, <2>2 DEF Wake
<1>2. ASSUME NEW p \in Waker, Notify(p)
      PROVE  token'
  BY <1>2 DEF Notify
<1>3. ASSUME NEW w \in Worker, Select(w)
      PROVE  token' \/ InHand'
  <2>1. CASE token /\ Go(w, "woken")
    BY <1>0, <2>1 DEF Go
  <2>2. CASE Go(w, "exited") /\ UNCHANGED token
    <3>1. token \/ InHand
      BY <1>3 DEF Select, NoLostWakeup
    <3>2. ASSUME NEW v \in Worker, pc[v] \in {"woken", "claim", "renotify", "doneNotify"}
          PROVE  pc'[v] = pc[v]
      BY <1>0, <1>3, <2>2, <3>2 DEF Select, Go
    <3> QED
      BY <1>3, <2>2, <3>1, <3>2 DEF Select
  <2> QED
    BY <1>3, <2>1, <2>2 DEF Select
<1>4. ASSUME NEW w \in Worker, Recheck(w)
      PROVE  token' \/ InHand'
  BY <1>0, <1>4 DEF Recheck, Go
<1>5. ASSUME NEW w \in Worker, Claim(w)
      PROVE  InHand'
  <2>1. ~isClosed /\ ClaimHead(w)
    BY <1>5 DEF Claim
  <2>2. pc'[w] = "renotify"
    BY <1>0, <2>1 DEF ClaimHead, Go
  <2> QED
    BY <2>2
<1>6. ASSUME NEW w \in Worker, Renotify(w) \/ DoneNotify(w)
      PROVE  token'
  BY <1>6 DEF Renotify, DoneNotify
<1>7. ASSUME NEW w \in Worker, Done(w)
      PROVE  InHand'
  BY <1>0, <1>7 DEF Done, Go
<1>8. CASE Close \/ CloseChannel \/ Cancel \/ UNCHANGED vars
  BY <1>8 DEF Close, CloseChannel, Cancel, vars, NoLostWakeup
<1> QED
  BY <1>1, <1>2, <1>3, <1>4, <1>5, <1>6, <1>7, <1>8 DEF Next, WorkerStep

\* No interleaving of sends to and receives from the one-slot channel leaves ids
\* in line with nobody told.
THEOREM WakeupNeverLost == Spec => []NoLostWakeup
  BY QueueInit, QueueStep, NotificationKept, PTL DEF Spec
-----------------------------------------------------------------------------
\* The two sets of WakeSlot that the map stands for.
Queued == {id \in ID : states[id] \in {"pending", "requeue"}}
Busy == {id \in ID : states[id] \in {"processing", "requeue"}}

\* Every step is one of WakeSlot, or none.
LEMMA SlotSimulation ==
    ASSUME QueueInv, [Next]_vars
    PROVE  [Slot!SlotNext]_<<Queued, Busy>>
<1> USE DEF Queued, Busy
<1>0. states \in [ID -> WakeState] /\ order \in Seq(ID) /\ Line(order, states)
  BY OrderIsLine DEF QueueInv, TypeOK
<1>1. UNCHANGED states => UNCHANGED <<Queued, Busy>>
  OBVIOUS
<1>2. ASSUME NEW id \in ID, WakeProcessing(id)
      PROVE  Slot!SlotWake(id)
  BY <1>0, <1>2 DEF WakeProcessing, Slot!SlotWake
<1>3. ASSUME NEW p \in Waker, NEW id \in ID, WakeNew(p, id)
      PROVE  Slot!SlotWake(id)
  BY <1>0, <1>3 DEF WakeNew, Slot!SlotWake
<1>4. ASSUME NEW w \in Worker, ClaimHead(w)
      PROVE  \E id \in ID : Slot!SlotStart(id)
  <2>1. PICK id \in ID : id = Head(order) /\ states[id] = "pending"
    BY <1>0, <1>4, TailFacts, LineTail DEF ClaimHead
  <2>2. Slot!SlotStart(id)
    BY <1>0, <1>4, <2>1 DEF ClaimHead, Slot!SlotStart
  <2> QED
    BY <2>2
<1>5. ASSUME NEW w \in Worker, Done(w)
      PROVE  \E id \in ID : Slot!SlotFinish(id)
  <2>1. PICK id \in ID : id = task[w] /\ states[id] \in {"processing", "requeue"}
    BY <1>5 DEF Done, QueueInv, OneWorkerPerID, Works
  <2>2. Slot!SlotFinish(id)
    BY <1>0, <1>5, <2>1 DEF Done, Requeue, Slot!SlotFinish
  <2> QED
    BY <2>2
<1>6. \/ UNCHANGED states
      \/ \E p \in Waker, id \in ID : WakeProcessing(id) \/ WakeNew(p, id)
      \/ \E w \in Worker : ClaimHead(w) \/ Done(w)
  BY DEF Next, Wake, Notify, WorkerStep, Select, Recheck, Claim, Renotify, DoneNotify,
         Close, CloseChannel, Cancel, vars
<1>7. UNCHANGED <<Queued, Busy>> \/ Slot!SlotNext
  BY <1>1, <1>2, <1>3, <1>4, <1>5, <1>6 DEF Slot!SlotNext
<1> QED
  BY <1>7

\* The queue, its channel and its pool implement the abstract slot per id that
\* the rest of the reconcile code is written against.
THEOREM QueueImplementsSlot == Spec => ImplementsSlot
<1>1. Init => Slot!SlotInit
  BY DEF Init, Slot!SlotInit
<1>2. QueueInv /\ [Next]_vars => [Slot!SlotNext]_Slot!slotVars
  BY SlotSimulation DEF Slot!slotVars, Queued, Busy
<1> QED
  BY <1>1, <1>2, QueueInit, QueueStep, PTL DEF Spec, ImplementsSlot, Slot!SlotSpec

-----------------------------------------------------------------------------
(***************************************************************************)
(* The keyed lock, for any finite set of callers and any set of entries.   *)
(*                                                                         *)
(* The code never compares the entry a caller points at with the one in    *)
(* the map before it uses it; what makes that right is that the counters   *)
(* of the mapped entry count exactly the callers that point at it, so an   *)
(* entry is dropped only when nobody points at it any more, and every      *)
(* caller in a call points at the mapped entry (PointersInv, CountersInv). *)
(***************************************************************************)
Waiting == {c \in Caller : callerPC[c] \in {"waiting", "granted", "abandon"}}
Holding == {c \in Caller : callerPC[c] \in {"holding", "released"}}

\* A caller in a call points at the mapped entry, any other at none.
PointersInv ==
    \A c \in Caller : mine[c] = IF callerPC[c] = "idle" THEN NoEntry ELSE entry

\* The mapped entry exists while someone is in a call.
MappedInv == (entry = NoEntry) <=> \A c \in Caller : callerPC[c] = "idle"

\* Its counters count the callers in a call.
CountersInv ==
    entry # NoEntry => /\ waiters[entry] = Cardinality(Waiting)
                       /\ holders[entry] = Cardinality(Holding)

\* Its token is out exactly when someone has it.
TokenInv ==
    entry # NoEntry =>
       (entryToken[entry] <=> \A c \in Caller : callerPC[c] \notin {"granted", "holding"})

LockInv ==
    /\ LockTypeOK
    /\ PointersInv
    /\ MappedInv
    /\ CountersInv
    /\ TokenInv
    /\ MutualExclusion
-----------------------------------------------------------------------------
(* Counting.                                                               *)

\* One more caller is one more.
LEMMA OneMore ==
    \A S, x : IsFiniteSet(S) /\ x \notin S
        => Cardinality(S) \in Nat /\ Cardinality(S \cup {x}) = Cardinality(S) + 1
  BY FS_AddElement, FS_CardinalityType

\* One less is one less, and there was one.
LEMMA OneLess ==
    \A S, x : IsFiniteSet(S) /\ x \in S
        => /\ Cardinality(S) \in Nat \ {0}
           /\ Cardinality(S \ {x}) = Cardinality(S) - 1
  BY FS_RemoveElement, FS_CardinalityType, FS_EmptySet

\* A count of callers is a number between 0 and how many there are, and is 0 only
\* when there are none.
LEMMA CountOfCallers ==
    \A S \in SUBSET Caller :
        /\ IsFiniteSet(S)
        /\ Cardinality(S) \in 0 .. Cardinality(Caller)
        /\ Cardinality(S) = 0 <=> S = {}
  BY FS_Subset, FS_CardinalityType, FS_EmptySet, LockAssumption
-----------------------------------------------------------------------------
(* One lemma per step of the code.                                         *)

\* A new waiter, on the mapped entry or on a new one with its token in it.
LEMMA EnterKeeps == ASSUME LockInv, NEW c \in Caller, Enter(c) PROVE LockInv'
<1> USE DEF LockInv, LockTypeOK, LockPC, Enter, CallerGoes
<1>1. /\ Waiting' = Waiting \cup {c} /\ c \notin Waiting
      /\ Holding' = Holding
  BY DEF Waiting, Holding
<1>2. /\ Cardinality(Waiting') = Cardinality(Waiting) + 1
      /\ Cardinality(Waiting) \in Nat
      /\ Cardinality(Waiting') \in 0 .. Cardinality(Caller)
      /\ Cardinality(Holding) \in 0 .. Cardinality(Caller)
      /\ Cardinality(Caller) \in Nat
  BY <1>1, OneMore, CountOfCallers, FS_CardinalityType, LockAssumption DEF Waiting, Holding
<1>3. CASE entry # NoEntry
  <2>1. LockTypeOK'
    BY <1>2, <1>3 DEF CountersInv
  <2>2. CountersInv'
    BY <1>1, <1>2, <1>3 DEF CountersInv
  <2>3. PointersInv' /\ MappedInv' /\ TokenInv' /\ MutualExclusion'
    BY <1>3 DEF PointersInv, MappedInv, TokenInv, MutualExclusion
  <2>4. QED
    BY <2>1, <2>2, <2>3
<1>4. CASE entry = NoEntry
  <2>1. Waiting = {} /\ Holding = {}
    BY <1>4 DEF MappedInv, Waiting, Holding
  <2>2. Cardinality(Waiting') = 1 /\ Cardinality(Holding') = 0
    BY <1>1, <1>2, <2>1, FS_EmptySet
  <2>3. PICK e \in Entry :
            /\ entry' = e
            /\ mine' = [mine EXCEPT ![c] = e]
            /\ entryToken' = [entryToken EXCEPT ![e] = TRUE]
            /\ waiters' = [waiters EXCEPT ![e] = 1]
            /\ holders' = [holders EXCEPT ![e] = 0]
    BY <1>4
  <2>4. LockTypeOK'
    BY <1>2, <2>2, <2>3
  <2>5. CountersInv'
    BY <2>2, <2>3 DEF CountersInv
  <2>6. PointersInv' /\ MappedInv' /\ TokenInv' /\ MutualExclusion'
    BY <1>4, <2>3, LockAssumption DEF PointersInv, MappedInv, TokenInv, MutualExclusion
  <2>7. QED
    BY <2>4, <2>5, <2>6
<1>5. QED
  BY <1>3, <1>4

\* A context that ends changes nothing yet.
LEMMA CancelKeeps == ASSUME LockInv, NEW c \in Caller, ContextEnds(c) PROVE LockInv'
<1> USE DEF LockInv, ContextEnds
<1>1. LockTypeOK'
  BY DEF LockTypeOK
<1>2. Waiting' = Waiting /\ Holding' = Holding
  BY DEF Waiting, Holding
<1>3. QED
  BY <1>1, <1>2 DEF PointersInv, MappedInv, CountersInv, TokenInv, MutualExclusion

\* The token is taken by one waiter, and put back by whoever has it, on the mapped
\* entry: the counters do not move.
LEMMA TokenKeeps ==
    ASSUME LockInv, NEW c \in Caller, TakeToken(c) \/ GiveBack(c) PROVE LockInv'
<1> USE DEF LockInv, LockTypeOK, LockPC, TakeToken, GiveBack, CallerGoes
<1>1. mine[c] = entry /\ entry # NoEntry /\ entry \in Entry
  BY DEF PointersInv, MappedInv
<1>2. Waiting' = Waiting /\ Holding' = Holding
  BY DEF Waiting, Holding
<1>3. LockTypeOK' /\ PointersInv' /\ MappedInv'
  BY <1>1 DEF PointersInv, MappedInv
<1>4. CountersInv'
  BY <1>2 DEF CountersInv
<1>5. TokenInv' /\ MutualExclusion'
  BY <1>1 DEF TokenInv, MutualExclusion
<1>6. QED
  BY <1>3, <1>4, <1>5

\* A waiter that leaves: the entry goes with the last caller and not before.
LEMMA CancelWaiterKeeps == ASSUME LockInv, NEW c \in Caller, CancelWaiter(c) PROVE LockInv'
<1> USE DEF LockInv, LockTypeOK, LockPC, CancelWaiter, Return, CallerGoes
<1>1. mine[c] = entry /\ entry # NoEntry /\ entry \in Entry
  BY DEF PointersInv, MappedInv
<1>2. /\ Waiting' = Waiting \ {c} /\ c \in Waiting
      /\ Holding' = Holding
  BY DEF Waiting, Holding
<1>3. /\ Cardinality(Waiting') = Cardinality(Waiting) - 1
      /\ Cardinality(Waiting) \in Nat \ {0}
      /\ Cardinality(Waiting') \in 0 .. Cardinality(Caller)
      /\ Cardinality(Holding) \in 0 .. Cardinality(Caller)
      /\ Cardinality(Waiting') = 0 <=> Waiting' = {}
      /\ Cardinality(Holding) = 0 <=> Holding = {}
  BY <1>2, OneLess, CountOfCallers DEF Waiting, Holding
<1>4. waiters'[entry] = Cardinality(Waiting') /\ holders'[entry] = Cardinality(Holding')
  BY <1>1, <1>2, <1>3 DEF CountersInv
<1>5. entry' = IF Waiting' = {} /\ Holding' = {} THEN NoEntry ELSE entry
  BY <1>1, <1>2, <1>3, <1>4 DEF DeleteIdleEntry
<1>6. (Waiting' = {} /\ Holding' = {}) <=> \A d \in Caller : callerPC'[d] = "idle"
  BY DEF Waiting, Holding
<1>7. LockTypeOK'
  BY <1>1, <1>3, <1>4, <1>5
<1>8. PointersInv' /\ MappedInv'
  BY <1>1, <1>5, <1>6 DEF PointersInv, MappedInv
<1>9. CountersInv'
  BY <1>4, <1>5 DEF CountersInv
<1>10. TokenInv' /\ MutualExclusion'
  BY <1>1, <1>5 DEF TokenInv, MutualExclusion
<1>11. QED
  BY <1>7, <1>8, <1>9, <1>10

\* A waiter becomes a holder.
LEMMA AcquireKeeps == ASSUME LockInv, NEW c \in Caller, Acquire(c) PROVE LockInv'
<1> USE DEF LockInv, LockTypeOK, LockPC, Acquire, CallerGoes
<1>1. mine[c] = entry /\ entry # NoEntry /\ entry \in Entry
  BY DEF PointersInv, MappedInv
<1>2. /\ Waiting' = Waiting \ {c} /\ c \in Waiting
      /\ Holding' = Holding \cup {c} /\ c \notin Holding
  BY DEF Waiting, Holding
<1>3. /\ Cardinality(Waiting') = Cardinality(Waiting) - 1
      /\ Cardinality(Waiting) \in Nat \ {0}
      /\ Cardinality(Waiting') \in 0 .. Cardinality(Caller)
      /\ Cardinality(Holding') = Cardinality(Holding) + 1
      /\ Cardinality(Holding) \in Nat
      /\ Cardinality(Holding') \in 0 .. Cardinality(Caller)
  BY <1>2, OneMore, OneLess, CountOfCallers DEF Waiting, Holding
<1>4. waiters'[entry] = Cardinality(Waiting') /\ holders'[entry] = Cardinality(Holding')
  BY <1>1, <1>2, <1>3 DEF CountersInv
<1>5. LockTypeOK'
  BY <1>1, <1>3, <1>4
<1>6. PointersInv' /\ MappedInv' /\ TokenInv' /\ MutualExclusion'
  BY <1>1 DEF PointersInv, MappedInv, TokenInv, MutualExclusion
<1>7. CountersInv'
  BY <1>1, <1>4 DEF CountersInv
<1>8. QED
  BY <1>5, <1>6, <1>7

\* Between the token and the counter of unlock the caller still counts.
LEMMA ReleaseKeeps == ASSUME LockInv, NEW c \in Caller, Release(c) PROVE LockInv'
<1> USE DEF LockInv, LockTypeOK, LockPC, Release, CallerGoes
<1>1. mine[c] = entry /\ entry # NoEntry /\ entry \in Entry
  BY DEF PointersInv, MappedInv
<1>2. Waiting' = Waiting /\ Holding' = Holding
  BY DEF Waiting, Holding
<1>3. LockTypeOK' /\ PointersInv' /\ MappedInv'
  BY <1>1 DEF PointersInv, MappedInv
<1>4. CountersInv'
  BY <1>2 DEF CountersInv
<1>5. TokenInv' /\ MutualExclusion'
  BY <1>1 DEF TokenInv, MutualExclusion
<1>6. QED
  BY <1>3, <1>4, <1>5

\* A holder that leaves, as CancelWaiter.
LEMMA ForgetKeeps == ASSUME LockInv, NEW c \in Caller, Forget(c) PROVE LockInv'
<1> USE DEF LockInv, LockTypeOK, LockPC, Forget, Return, CallerGoes
<1>1. mine[c] = entry /\ entry # NoEntry /\ entry \in Entry
  BY DEF PointersInv, MappedInv
<1>2. /\ Holding' = Holding \ {c} /\ c \in Holding
      /\ Waiting' = Waiting
  BY DEF Waiting, Holding
<1>3. /\ Cardinality(Holding') = Cardinality(Holding) - 1
      /\ Cardinality(Holding) \in Nat \ {0}
      /\ Cardinality(Holding') \in 0 .. Cardinality(Caller)
      /\ Cardinality(Waiting) \in 0 .. Cardinality(Caller)
      /\ Cardinality(Holding') = 0 <=> Holding' = {}
      /\ Cardinality(Waiting) = 0 <=> Waiting = {}
  BY <1>2, OneLess, CountOfCallers DEF Waiting, Holding
<1>4. waiters'[entry] = Cardinality(Waiting') /\ holders'[entry] = Cardinality(Holding')
  BY <1>1, <1>2, <1>3 DEF CountersInv
<1>5. entry' = IF Waiting' = {} /\ Holding' = {} THEN NoEntry ELSE entry
  BY <1>1, <1>2, <1>3, <1>4 DEF DeleteIdleEntry
<1>6. (Waiting' = {} /\ Holding' = {}) <=> \A d \in Caller : callerPC'[d] = "idle"
  BY DEF Waiting, Holding
<1>7. LockTypeOK'
  BY <1>1, <1>3, <1>4, <1>5
<1>8. PointersInv' /\ MappedInv'
  BY <1>1, <1>5, <1>6 DEF PointersInv, MappedInv
<1>9. CountersInv'
  BY <1>4, <1>5 DEF CountersInv
<1>10. TokenInv' /\ MutualExclusion'
  BY <1>1, <1>5 DEF TokenInv, MutualExclusion
<1>11. QED
  BY <1>7, <1>8, <1>9, <1>10
-----------------------------------------------------------------------------
(* The theorems.                                                           *)

\* The counters of the mapped entry are right, every caller in a call points at it,
\* and its token is in exactly one place.
THEOREM LockInductive == LockSpec => []LockInv
<1>1. LockInit => LockInv
  <2>1. ASSUME LockInit PROVE LockInv
    <3>1. Cardinality(Caller) \in Nat
      BY FS_CardinalityType, LockAssumption
    <3>2. QED
      BY <2>1, <3>1, LockAssumption
      DEF LockInit, LockInv, LockTypeOK, LockPC, PointersInv, MappedInv, CountersInv,
          TokenInv,
          MutualExclusion
  <2>2. QED
    BY <2>1
<1>2. LockInv /\ [LockNext]_lockVars => LockInv'
  <2>1. ASSUME LockInv, LockNext PROVE LockInv'
    BY <2>1, EnterKeeps, CancelKeeps, TokenKeeps, CancelWaiterKeeps, AcquireKeeps,
       ReleaseKeeps, ForgetKeeps
    DEF LockNext, CallerStep
  <2>2. ASSUME LockInv, UNCHANGED lockVars PROVE LockInv'
    <3>1. Waiting' = Waiting /\ Holding' = Holding
      BY <2>2 DEF lockVars, Waiting, Holding
    <3>2. QED
      BY <2>2, <3>1
      DEF lockVars, LockInv, LockTypeOK, PointersInv, MappedInv, CountersInv, TokenInv,
          MutualExclusion
  <2>3. QED
    BY <2>1, <2>2
<1>3. QED
  BY <1>1, <1>2, PTL DEF LockSpec

\* The types hold, and with them the bounds of the counters: neither is decremented
\* below zero, whoever cancels and whenever.
THEOREM LockTypeCorrect == LockSpec => []LockTypeOK
  BY LockInductive, PTL DEF LockInv

\* At most one caller at a time has the key, across every entry it ever had: what
\* the reconciler and the API rely on when they work on one sandbox.
THEOREM LockExcludes == LockSpec => []MutualExclusion
  BY LockInductive, PTL DEF LockInv

\* Whoever has the token finds room in the channel to put it back, so unlock and a
\* cancelled LockContext never block.
THEOREM UnlockNeverBlocks == LockSpec => []PutBackNeverBlocks
<1>1. LockInv => PutBackNeverBlocks
  BY DEF LockInv, LockTypeOK, PointersInv, MappedInv, TokenInv, PutBackNeverBlocks
<1>2. QED
  BY <1>1, LockInductive, PTL

\* The map forgets a key when the last caller of it is gone.
THEOREM MapIsFreed == LockSpec => []NoLeakedEntry
<1>1. LockInv => NoLeakedEntry
  BY DEF LockInv, LockTypeOK, LockPC, PointersInv, MappedInv, NoLeakedEntry
<1>2. QED
  BY <1>1, LockInductive, PTL
=============================================================================
