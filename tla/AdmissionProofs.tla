--------------------------- MODULE AdmissionProofs ---------------------------
(***************************************************************************)
(* Proofs about sandbox creation for any clients, keys, commands and       *)
(* limits.                                                                 *)
(*                                                                         *)
(* Two facts carry them.  Between the check of the key and the commit the  *)
(* client has the only connection (ConnInv), so what the check found still *)
(* holds when the rows are written (CommitInv).  And a key's record names  *)
(* the one live sandbox born under it (LiveInv), because the sweeper only  *)
(* forgets records of Terminated ones.                                     *)
(***************************************************************************)
EXTENDS Admission, FiniteSetTheorems, TLAPS

Hash == {RequestHash(cmd) : cmd \in Commands}
RequestKey == Keys \cup {NoKey}

Row == {NoRow} \cup [observed : {"Pending", "Running", "Terminated"}, at : Nat]
Record == {NoRecord} \cup [hash : Hash, sandbox : IDs]
Origin == {NoRequest} \cup [key : RequestKey, hash : Hash]

InFlight == [pc : {"begin", "checkKey", "commit"}, key : RequestKey, hash : Hash]
Waking == [pc : {"wake"}, key : RequestKey, hash : Hash, id : IDs]
Accepted ==
    [pc : {"answered"}, key : RequestKey, hash : Hash, status : {"accepted"}, id : IDs]
Refused ==
    [pc : {"answered"}, key : {NoKey}, hash : {<<>>},
     status : {"rejected", "conflict", "limit", "error"}, id : {0}]
Call == {Ready} \cup InFlight \cup Waking \cup Accepted \cup Refused

\* The tables, the connection and the requests are of their types.
TypeOK ==
    /\ row \in [IDs -> Row]
    /\ record \in [Keys -> Record]
    /\ origin \in [IDs -> Origin]
    /\ conn \in Clients \cup {Free}
    /\ call \in [Clients -> Call]
    /\ now \in Nat

\* The transaction of a client is open from Begin to its end, and no other is.
ConnInv == \A c \in Clients : call[c].pc \in {"checkKey", "commit"} <=> conn = c

\* What the checks found is still so at the commit.
CommitInv ==
    \A c \in Clients : call[c].pc = "commit" =>
       /\ Cardinality(Active(row)) < MaxSandboxes
       /\ Created # IDs
       /\ call[c].key # NoKey => record[call[c].key] = NoRecord

\* Sandbox i was created for this key and hash.
BornFrom(i, key, hash) == row[i] # NoRow /\ origin[i] = [key |-> key, hash |-> hash]

\* A record names a sandbox created for its key and hash.
RecordInv ==
    \A k \in Keys : record[k] # NoRecord => BornFrom(record[k].sandbox, k, record[k].hash)

\* A live sandbox born under a key is the one that the key's record names.
LiveInv ==
    \A i \in Active(row) : origin[i].key \in Keys =>
       /\ record[origin[i].key] # NoRecord
       /\ record[origin[i].key].sandbox = i

\* Nothing is known of an id before its row exists.
OriginInv == \A i \in IDs : row[i] = NoRow => origin[i] = NoRequest

\* A request that was committed, and one answered with 202, names a sandbox ...
Names(q) == q.pc = "wake" \/ (q.pc = "answered" /\ q.status = "accepted")

\* ... that was created for it.
NamedInv ==
    \A c \in Clients : Names(call[c]) => BornFrom(call[c].id, call[c].key, call[c].hash)

IInv ==
    /\ TypeOK /\ ConnInv /\ CommitInv
    /\ RecordInv /\ LiveInv /\ OriginInv /\ NamedInv
-----------------------------------------------------------------------------
(* The types of requests, rows and records.                                *)

\* What a request carries at each point.
LEMMA CallTypes ==
    ASSUME TypeOK, NEW c \in Clients
    PROVE  /\ call[c] \in Call
           /\ call[c].pc \in {"begin", "checkKey", "commit"} => call[c] \in InFlight
           /\ call[c].pc = "wake" => call[c] \in Waking
           /\ Names(call[c]) => call[c].key \in RequestKey /\ call[c].hash \in Hash
                                  /\ call[c].id \in IDs
<1>1. call[c] \in Call
  BY DEF TypeOK
<1>2. QED
  BY <1>1 DEF Call, Ready, InFlight, Waking, Accepted, Refused, Names

\* A record names an id, with the hash of some request.
LEMMA RecordTypes ==
    ASSUME TypeOK, NEW k \in Keys, record[k] # NoRecord
    PROVE  record[k].sandbox \in IDs /\ record[k].hash \in Hash
  BY DEF TypeOK, Record

\* No key is the absent one, and the ids are finitely many.
LEMMA Constants == /\ NoKey \notin Keys /\ 0 \notin IDs /\ Free \notin Clients
                   /\ IsFiniteSet(IDs) /\ MaxSandboxes \in Nat
  BY AdmissionAssumption, FS_Interval DEF NoKey, IDs, Free

\* The sandboxes that hold a place are finitely many.
LEMMA ActiveCount ==
    ASSUME NEW r
    PROVE  IsFiniteSet(Active(r)) /\ Cardinality(Active(r)) \in Nat
<1>1. Active(r) \subseteq IDs
  BY DEF Active
<1>2. QED
  BY <1>1, Constants, FS_Subset, FS_CardinalityType

\* The id that is handed out is a new one.
LEMMA FreshIsNew == ASSUME Created # IDs PROVE FreshID \in IDs /\ row[FreshID] = NoRow
  BY DEF Created, FreshID
-----------------------------------------------------------------------------
(* Steps.                                                                  *)

\* A step of one request that writes nothing: it keeps the invariant if it takes and
\* gives up the connection where it should, comes to the commit with what the checks
\* found, and names what was created for it.
LEMMA RequestKeeps ==
    ASSUME IInv, NEW c \in Clients, NEW new \in Call,
           call' = [call EXCEPT ![c] = new], UNCHANGED <<row, record, origin, now>>,
           conn' \in {conn, c, Free},
           new.pc \in {"checkKey", "commit"} <=> conn' = c,
           conn' # conn => conn \in {c, Free},
           new.pc = "commit" => /\ Cardinality(Active(row)) < MaxSandboxes
                                /\ Created # IDs
                                /\ new.key # NoKey => record[new.key] = NoRecord,
           Names(new) => BornFrom(new.id, new.key, new.hash)
    PROVE  IInv'
<1> USE DEF IInv
<1>1. TypeOK'
  BY DEF TypeOK
<1>2. \A d \in Clients : call'[d] = IF d = c THEN new ELSE call[d]
  BY DEF TypeOK
<1>3. ConnInv'
  BY <1>2, Constants DEF ConnInv
<1>4. CommitInv'
  <2>1. Active(row') = Active(row) /\ Created' = Created
    BY DEF Created
  <2>2. QED
    BY <1>2, <2>1 DEF CommitInv
<1>5. RecordInv' /\ OriginInv'
  BY DEF RecordInv, OriginInv, BornFrom
<1>6. LiveInv'
  BY DEF LiveInv, Active
<1>7. NamedInv'
  BY <1>2 DEF NamedInv, BornFrom
<1>8. QED
  BY <1>1, <1>3, <1>4, <1>5, <1>6, <1>7

\* A request is posted, and found acceptable or not.
LEMMA PostKeeps == ASSUME IInv, NEW c \in Clients, Post(c) PROVE IInv'
<1>1. conn # c
  BY DEF Post, At, IInv, ConnInv
<1>2. PICK k \in RequestKey, cmd \in Commands :
         call' = [call EXCEPT ![c] =
                     IF Acceptable(cmd)
                     THEN [pc |-> "begin", key |-> k, hash |-> RequestHash(cmd)]
                     ELSE [pc |-> "answered", key |-> NoKey, hash |-> <<>>,
                           status |-> "rejected", id |-> 0]]
  BY DEF Post, RequestKey
<1>3. CASE Acceptable(cmd)
  <2> DEFINE new == [pc |-> "begin", key |-> k, hash |-> RequestHash(cmd)]
  <2>1. new \in Call /\ new.pc = "begin" /\ ~Names(new)
    BY DEF Call, InFlight, Hash, Names
  <2>2. call' = [call EXCEPT ![c] = new]
    BY <1>2, <1>3
  <2> HIDE DEF new
  <2>3. QED
    BY <1>1, <2>1, <2>2, RequestKeeps DEF Post
<1>4. CASE ~Acceptable(cmd)
  <2> DEFINE new == [pc |-> "answered", key |-> NoKey, hash |-> <<>>,
                     status |-> "rejected", id |-> 0]
  <2>1. new \in Call /\ new.pc = "answered" /\ ~Names(new)
    BY DEF Call, Refused, Names
  <2>2. call' = [call EXCEPT ![c] = new]
    BY <1>2, <1>4
  <2> HIDE DEF new
  <2>3. QED
    BY <1>1, <2>1, <2>2, RequestKeeps DEF Post
<1>5. QED
  BY <1>3, <1>4

\* An answer other than 202.
LEMMA RefuseKeeps ==
    ASSUME IInv, NEW c \in Clients, conn = c, conn' = Free,
           NEW status \in {"conflict", "limit", "error"}, Answer(c, status, 0),
           UNCHANGED <<row, record, origin, now>>
    PROVE  IInv'
<1> DEFINE new == [pc |-> "answered", key |-> NoKey, hash |-> <<>>,
                   status |-> status, id |-> 0]
<1>1. new \in Call /\ new.pc = "answered" /\ ~Names(new)
  BY DEF Call, Refused, Names
<1>2. call' = [call EXCEPT ![c] = new]
  BY DEF Answer
<1> HIDE DEF new
<1>3. QED
  BY <1>1, <1>2, Constants, RequestKeeps

\* The answer 202.
LEMMA AcceptKeeps ==
    ASSUME IInv, NEW c \in Clients,
           call[c].pc \in {"checkKey", "wake"},
           conn' = IF conn = c THEN Free ELSE conn,
           NEW i \in IDs, BornFrom(i, call[c].key, call[c].hash), Answer(c, "accepted", i),
           UNCHANGED <<row, record, origin, now>>
    PROVE  IInv'
<1> DEFINE new == [pc |-> "answered", key |-> call[c].key, hash |-> call[c].hash,
                   status |-> "accepted", id |-> i]
<1>1. call[c].key \in RequestKey /\ call[c].hash \in Hash
  BY CallTypes DEF IInv, InFlight, Waking
<1>2. /\ new \in Call /\ new.pc = "answered"
      /\ new.id = i /\ new.key = call[c].key /\ new.hash = call[c].hash
  BY <1>1 DEF Call, Accepted
<1>3. call' = [call EXCEPT ![c] = new]
  BY DEF Answer
<1> HIDE DEF new
<1>4. QED
  BY <1>2, <1>3, Constants, RequestKeeps

\* The transaction opens.
LEMMA BeginKeeps == ASSUME IInv, NEW c \in Clients, Begin(c) PROVE IInv'
<1> DEFINE new == [call[c] EXCEPT !.pc = "checkKey"]
<1>1. call[c] \in InFlight
  BY CallTypes DEF Begin, At, IInv
<1>2. new \in Call /\ new.pc = "checkKey" /\ ~Names(new)
  BY <1>1 DEF Call, InFlight, Names
<1>3. call' = [call EXCEPT ![c] = new]
  BY DEF Begin
<1> HIDE DEF new
<1>4. QED
  BY <1>2, <1>3, RequestKeeps DEF Begin

\* The key is known: replay or conflict.
LEMMA KeyFoundKeeps == ASSUME IInv, NEW c \in Clients, KeyFound(c) PROVE IInv'
<1> DEFINE k == call[c].key
<1>1. call[c] \in InFlight /\ conn = c
  BY CallTypes DEF KeyFound, At, IInv, ConnInv
<1>2. k \in Keys /\ record[k] # NoRecord
  BY <1>1 DEF KeyFound, InFlight, RequestKey
<1>3. record[k].sandbox \in IDs /\ BornFrom(record[k].sandbox, k, record[k].hash)
  BY <1>2, RecordTypes DEF IInv, RecordInv
<1>4. CASE record[k].hash = call[c].hash
  BY <1>1, <1>3, <1>4, AcceptKeeps DEF KeyFound, At
<1>5. CASE record[k].hash # call[c].hash
  BY <1>1, <1>5, RefuseKeeps DEF KeyFound
<1>6. QED
  BY <1>4, <1>5

\* The key is new: the limit decides.
LEMMA AdmitKeeps == ASSUME IInv, NEW c \in Clients, Admit(c) PROVE IInv'
<1>1. call[c] \in InFlight /\ conn = c
  BY CallTypes DEF Admit, At, IInv, ConnInv
<1>2. CASE AdmissionDenied(c)
  BY <1>1, <1>2, RefuseKeeps DEF Admit, AdmissionDenied
<1>3. CASE AdmissionGranted(c)
  <2> DEFINE new == [call[c] EXCEPT !.pc = "commit"]
  <2>1. new \in Call /\ new.pc = "commit" /\ new.key = call[c].key /\ ~Names(new)
    BY <1>1 DEF Call, InFlight, Names
  <2>2. call' = [call EXCEPT ![c] = new]
    BY <1>3 DEF AdmissionGranted
  <2> HIDE DEF new
  <2>3. QED
    BY <1>1, <1>3, <2>1, <2>2, RequestKeeps DEF Admit, AdmissionGranted
<1>4. QED
  BY <1>2, <1>3 DEF Admit

\* The wake-up, and the delivery of the answer.
LEMMA AnswerKeeps == ASSUME IInv, NEW c \in Clients, Wake(c) \/ Deliver(c) PROVE IInv'
<1>1. conn # c
  BY DEF Wake, Deliver, At, IInv, ConnInv
<1>2. CASE Wake(c)
  <2>1. call[c].id \in IDs /\ BornFrom(call[c].id, call[c].key, call[c].hash)
    BY <1>2, CallTypes DEF Wake, At, IInv, NamedInv, Names
  <2>2. QED
    BY <1>1, <1>2, <2>1, AcceptKeeps DEF Wake, At
<1>3. CASE Deliver(c)
  <2>1. Ready \in Call /\ Ready.pc = "idle" /\ ~Names(Ready)
    BY DEF Call, Ready, Names
  <2>2. QED
    BY <1>1, <1>3, <2>1, RequestKeeps DEF Deliver
<1>4. QED
  BY <1>2, <1>3

\* The transaction takes effect: the new sandbox is the key's only live one, because
\* the key had no record, and it fits under the limit, because the count still holds.
LEMMA InsertKeeps ==
    ASSUME IInv, NEW c \in Clients, call[c].pc = "commit", Insert(c, FreshID),
           conn' = Free, now' = now,
           NEW new \in Call, call' = [call EXCEPT ![c] = new],
           new.pc \notin {"checkKey", "commit"},
           Names(new) => /\ new.id = FreshID
                         /\ new.key = call[c].key /\ new.hash = call[c].hash
    PROVE  IInv' /\ Cardinality(Active(row')) <= MaxSandboxes
<1>1. PICK k \in RequestKey, h \in Hash :
         /\ k = call[c].key /\ h = call[c].hash /\ conn = c
         /\ Cardinality(Active(row)) < MaxSandboxes
         /\ k # NoKey => record[k] = NoRecord
  BY CallTypes DEF IInv, InFlight, ConnInv, CommitInv
<1>2. PICK n \in IDs : n = FreshID /\ row[n] = NoRow /\ origin[n] = NoRequest
  BY FreshIsNew DEF IInv, CommitInv, OriginInv
<1>3. TypeOK'
  <2>1. [observed |-> "Pending", at |-> 0] \in Row
    BY DEF Row
  <2>2. [key |-> k, hash |-> h] \in Origin /\ [hash |-> h, sandbox |-> n] \in Record
    BY <1>1, <1>2 DEF Origin, Record
  <2>3. row' \in [IDs -> Row]
    BY <2>1 DEF Insert, IInv, TypeOK
  <2>4. record' \in [Keys -> Record]
    BY <1>1, <1>2, <2>2 DEF Insert, IInv, TypeOK
  <2>5. origin' \in [IDs -> Origin]
    BY <1>1, <1>2, <2>2 DEF Insert, IInv, TypeOK
  <2>6. QED
    BY <2>3, <2>4, <2>5 DEF IInv, TypeOK
<1>4. /\ \A i \in IDs : row'[i] = IF i = n THEN [observed |-> "Pending", at |-> 0] ELSE row[i]
      /\ \A i \in IDs : origin'[i] = IF i = n THEN [key |-> k, hash |-> h] ELSE origin[i]
      /\ \A j \in Keys : record'[j] = IF j = k THEN [hash |-> h, sandbox |-> n] ELSE record[j]
      /\ \A d \in Clients : call'[d] = IF d = c THEN new ELSE call[d]
  BY <1>1, <1>2, Constants DEF Insert, IInv, TypeOK
<1>5. row'[n] # NoRow /\ row'[n].observed = "Pending"
  BY <1>2, <1>4 DEF NoRow
<1>6. ASSUME NEW i \in IDs, NEW j, NEW g, BornFrom(i, j, g)
      PROVE  i # n /\ BornFrom(i, j, g)'
  BY <1>2, <1>4, <1>6 DEF BornFrom
<1>7. BornFrom(n, k, h)'
  BY <1>2, <1>4, <1>5 DEF BornFrom
<1>8. ConnInv' /\ CommitInv'
  BY <1>1, <1>4, Constants DEF IInv, ConnInv, CommitInv
<1>9. RecordInv'
  <2> SUFFICES ASSUME NEW j \in Keys, record'[j] # NoRecord
               PROVE  BornFrom(record[j].sandbox, j, record[j].hash)'
    BY DEF RecordInv
  <2>1. CASE j = k
    BY <1>4, <1>7, <2>1 DEF BornFrom
  <2>2. CASE j # k
    <3>1. record'[j] = record[j]
      BY <1>4, <2>2
    <3>2. record[j].sandbox \in IDs /\ BornFrom(record[j].sandbox, j, record[j].hash)
      BY <3>1, RecordTypes DEF IInv, RecordInv
    <3>3. QED
      BY <1>6, <3>1, <3>2 DEF BornFrom
  <2>3. QED
    BY <2>1, <2>2
<1>10. LiveInv'
  <2> SUFFICES ASSUME NEW i \in Active(row'), origin'[i].key \in Keys
               PROVE  /\ record'[origin'[i].key] # NoRecord
                      /\ record'[origin'[i].key].sandbox = i
    BY DEF LiveInv, Active
  <2>1. i \in IDs
    BY DEF Active
  <2>2. CASE i = n
    <3>1. origin'[i].key = k /\ k \in Keys /\ record'[k] = [hash |-> h, sandbox |-> n]
      BY <1>2, <1>4, <2>2
    <3>2. QED
      BY <2>2, <3>1, <1>2, Constants DEF NoRecord
  <2>3. CASE i # n
    <3>1. i \in Active(row) /\ origin'[i] = origin[i]
      BY <1>4, <2>1, <2>3 DEF Active
    <3>2. record[origin[i].key] # NoRecord /\ record[origin[i].key].sandbox = i
      BY <3>1 DEF IInv, LiveInv
    <3>3. origin[i].key # k
      BY <1>1, <3>1, <3>2, Constants
    <3>4. QED
      BY <1>4, <3>1, <3>2, <3>3
  <2>4. QED
    BY <2>2, <2>3
<1>11. OriginInv'
  BY <1>4, <1>5 DEF IInv, OriginInv
<1>12. NamedInv'
  <2> SUFFICES ASSUME NEW d \in Clients, Names(call'[d])
               PROVE  BornFrom(call[d].id, call[d].key, call[d].hash)'
    BY DEF NamedInv, Names
  <2>1. CASE d = c
    BY <1>1, <1>2, <1>4, <1>7, <2>1 DEF BornFrom
  <2>2. CASE d # c
    <3>1. call'[d] = call[d]
      BY <1>4, <2>2
    <3>2. call[d].id \in IDs /\ BornFrom(call[d].id, call[d].key, call[d].hash)
      BY <3>1, CallTypes DEF IInv, NamedInv
    <3>3. QED
      BY <1>6, <3>1, <3>2 DEF BornFrom
  <2>3. QED
    BY <2>1, <2>2
<1>13. Cardinality(Active(row')) <= MaxSandboxes
  <2>1. Active(row') = Active(row) \cup {n} /\ n \notin Active(row)
    BY <1>2, <1>4, <1>5 DEF Active, NoRow
  <2>2. Cardinality(Active(row')) = Cardinality(Active(row)) + 1
    BY <2>1, ActiveCount, FS_AddElement
  <2>3. QED
    BY <1>1, <2>2, ActiveCount, Constants
<1>14. QED
  BY <1>3, <1>8, <1>9, <1>10, <1>11, <1>12, <1>13 DEF IInv

\* The commit, reported as what it was or not.
LEMMA CommitKeeps ==
    ASSUME IInv, NEW c \in Clients, Commit(c) \/ CommitError(c)
    PROVE  /\ IInv'
           /\ row' # row => Cardinality(Active(row')) <= MaxSandboxes
<1>1. call[c].pc = "commit" /\ call[c] \in InFlight /\ conn = c
  BY CallTypes DEF Commit, CommitError, At, IInv, ConnInv
<1>2. FreshID \in IDs
  BY <1>1, FreshIsNew DEF IInv, CommitInv
<1>3. CASE Commit(c)
  <2> DEFINE new == [pc |-> "wake", key |-> call[c].key, hash |-> call[c].hash, id |-> FreshID]
  <2>1. /\ new \in Call /\ new.pc = "wake"
        /\ new.id = FreshID /\ new.key = call[c].key /\ new.hash = call[c].hash
    BY <1>1, <1>2 DEF Call, Waking, InFlight
  <2>2. call' = [call EXCEPT ![c] = new]
    BY <1>3 DEF Commit
  <2> HIDE DEF new
  <2>3. QED
    BY <1>1, <1>3, <2>1, <2>2, InsertKeeps DEF Commit
<1>4. CASE CommitError(c) /\ UNCHANGED <<row, record, origin>>
  BY <1>1, <1>4, RefuseKeeps DEF CommitError
<1>5. CASE CommitError(c) /\ Insert(c, FreshID)
  <2> DEFINE new == [pc |-> "answered", key |-> NoKey, hash |-> <<>>,
                     status |-> "error", id |-> 0]
  <2>1. new \in Call /\ new.pc = "answered" /\ ~Names(new)
    BY DEF Call, Refused, Names
  <2>2. call' = [call EXCEPT ![c] = new]
    BY <1>5 DEF CommitError, Answer
  <2> HIDE DEF new
  <2>3. QED
    BY <1>1, <1>5, <2>1, <2>2, InsertKeeps DEF CommitError
<1>6. QED
  BY <1>3, <1>4, <1>5 DEF CommitError

\* The sweep forgets only records of Terminated sandboxes, and only while nobody is
\* between the check of a key and its commit.
LEMMA SweepKeeps == ASSUME IInv, SweepBatch PROVE IInv'
<1>1. /\ UNCHANGED <<row, origin, conn, call, now>> /\ conn = Free
      /\ \A k \in Keys : record'[k] \in {record[k], NoRecord}
      /\ \A k \in Keys : record'[k] # record[k] => Expired(k)
      /\ record' = [k \in Keys |-> IF k \in Batch THEN NoRecord ELSE record[k]]
  BY DEF SweepBatch, Batch
<1>2. TypeOK'
  BY <1>1 DEF IInv, TypeOK, Record
<1>3. ConnInv' /\ CommitInv'
  BY <1>1, Constants DEF IInv, ConnInv, CommitInv
<1>4. RecordInv'
  BY <1>1 DEF IInv, RecordInv, BornFrom
<1>5. OriginInv' /\ NamedInv'
  BY <1>1 DEF IInv, OriginInv, NamedInv, BornFrom
<1>6. LiveInv'
  <2> SUFFICES ASSUME NEW i \in Active(row), origin[i].key \in Keys
               PROVE  /\ record'[origin[i].key] # NoRecord
                      /\ record'[origin[i].key].sandbox = i
    BY <1>1 DEF LiveInv, Active
  <2>1. record[origin[i].key] # NoRecord /\ record[origin[i].key].sandbox = i
    BY DEF IInv, LiveInv
  <2>2. ~Expired(origin[i].key)
    BY <2>1 DEF Expired, Active
  <2>3. QED
    BY <1>1, <2>1, <2>2
<1>7. QED
  BY <1>2, <1>3, <1>4, <1>5, <1>6 DEF IInv

\* A sandbox ends: it makes room, and stays the one it was.
LEMMA TerminateKeeps == ASSUME IInv, NEW i \in IDs, Terminate(i) PROVE IInv'
<1>1. /\ UNCHANGED <<record, conn, call, now, origin>>
      /\ \A j \in IDs : row'[j] = IF j = i THEN [observed |-> "Terminated", at |-> now]
                                  ELSE row[j]
  BY DEF Terminate, IInv, TypeOK
<1>2. row[i] # NoRow /\ row'[i] # NoRow /\ row'[i].observed = "Terminated"
  BY <1>1 DEF Terminate, NoRow
<1>3. TypeOK'
  <2>1. [observed |-> "Terminated", at |-> now] \in Row
    BY DEF Row, IInv, TypeOK
  <2>2. QED
    BY <2>1 DEF Terminate, IInv, TypeOK
<1>4. \A j \in IDs : row'[j] = NoRow <=> row[j] = NoRow
  BY <1>1, <1>2
<1>5. Active(row') \subseteq Active(row) /\ Created' = Created
  BY <1>1, <1>2, <1>4 DEF Active, Created
<1>6. Cardinality(Active(row')) <= Cardinality(Active(row))
  BY <1>5, ActiveCount, FS_Subset
<1>7. ConnInv' /\ CommitInv'
  BY <1>1, <1>5, <1>6, ActiveCount, Constants DEF IInv, ConnInv, CommitInv
<1>8. \A j \in IDs : \A k, h : BornFrom(j, k, h) => BornFrom(j, k, h)'
  BY <1>1, <1>4 DEF BornFrom
<1>9. RecordInv' /\ OriginInv'
  BY <1>1, <1>4, <1>8, RecordTypes DEF IInv, RecordInv, OriginInv, BornFrom
<1>10. LiveInv'
  BY <1>1, <1>5 DEF IInv, LiveInv
<1>11. NamedInv'
  BY <1>1, <1>4, <1>8, CallTypes DEF IInv, NamedInv, BornFrom, Names
<1>12. QED
  BY <1>3, <1>7, <1>9, <1>10, <1>11 DEF IInv

\* A recovered orphan has no key, and comes while no client is at its commit.
LEMMA ImportKeeps == ASSUME IInv, ImportRecovered PROVE IInv'
<1>1. PICK n \in IDs : n = FreshID /\ row[n] = NoRow /\ origin[n] = NoRequest
  BY FreshIsNew DEF ImportRecovered, IInv, OriginInv
<1>2. /\ UNCHANGED <<record, conn, call, now, origin>> /\ conn = Free
      /\ \A j \in IDs : row'[j] = IF j = n THEN [observed |-> "Running", at |-> 0] ELSE row[j]
  BY <1>1 DEF ImportRecovered, IInv, TypeOK
<1>3. TypeOK'
  <2>1. [observed |-> "Running", at |-> 0] \in Row
    BY DEF Row
  <2>2. QED
    BY <2>1 DEF ImportRecovered, IInv, TypeOK
<1>4. ConnInv' /\ CommitInv'
  BY <1>2, Constants DEF IInv, ConnInv, CommitInv
<1>5. \A j \in IDs : \A k, h : BornFrom(j, k, h) => BornFrom(j, k, h)'
  BY <1>1, <1>2 DEF BornFrom
<1>6. RecordInv'
  BY <1>2, <1>5, RecordTypes DEF IInv, RecordInv, BornFrom
<1>7. row'[n] # NoRow
  BY <1>2 DEF NoRow
<1>8. OriginInv'
  BY <1>2, <1>7 DEF IInv, OriginInv
<1>9. LiveInv'
  BY <1>1, <1>2, Constants DEF IInv, LiveInv, Active, NoRequest
<1>10. NamedInv'
  BY <1>2, <1>5, CallTypes DEF IInv, NamedInv, BornFrom, Names
<1>11. QED
  BY <1>3, <1>4, <1>6, <1>8, <1>9, <1>10 DEF IInv

\* sandboxd dies: the tables stay, and nobody is in a transaction.
LEMMA CrashKeeps == ASSUME IInv, Crash PROVE IInv'
<1>1. UNCHANGED <<row, record, now, origin>> /\ conn' = Free /\ call' = [c \in Clients |-> Ready]
  BY DEF Crash
<1>2. TypeOK'
  BY <1>1 DEF IInv, TypeOK, Call
<1>3. ConnInv' /\ CommitInv' /\ NamedInv'
  BY <1>1, Constants DEF ConnInv, CommitInv, NamedInv, Names, Ready
<1>4. RecordInv' /\ OriginInv' /\ LiveInv'
  BY <1>1 DEF IInv, RecordInv, OriginInv, LiveInv, BornFrom, Active
<1>5. QED
  BY <1>2, <1>3, <1>4 DEF IInv

\* The start of a sweep, and time.
LEMMA IdleKeeps ==
    ASSUME IInv, UNCHANGED <<row, record, conn, call, origin>>, now' \in Nat PROVE IInv'
<1>1. TypeOK' /\ ConnInv' /\ RecordInv' /\ OriginInv' /\ NamedInv'
  BY DEF IInv, TypeOK, ConnInv, RecordInv, OriginInv, NamedInv, BornFrom
<1>2. CommitInv' /\ LiveInv'
  BY DEF IInv, CommitInv, LiveInv, Active, Created
<1>3. QED
  BY <1>1, <1>2 DEF IInv

\* Every step keeps the invariant, and the ones that create a sandbox the limit.
LEMMA StepKeeps ==
    ASSUME IInv, [Next]_vars
    PROVE  /\ IInv'
           /\ \A i \in IDs : (row[i] = NoRow /\ row'[i].observed = "Pending")
                               => Cardinality(Active(row')) <= MaxSandboxes
<1> DEFINE Limit == \A i \in IDs : (row[i] = NoRow /\ row'[i].observed = "Pending")
                                     => Cardinality(Active(row')) <= MaxSandboxes
<1>1. ASSUME UNCHANGED row PROVE Limit
  BY <1>1 DEF NoRow
<1>2. ASSUME NEW c \in Clients, Post(c) \/ Serve(c) PROVE IInv' /\ Limit
  <2>1. CASE Commit(c) \/ CommitError(c)
    <3>1. IInv' /\ (row' # row => Limit)
      BY <2>1, CommitKeeps
    <3>2. QED
      BY <3>1, <1>1
  <2>2. CASE Post(c) \/ Begin(c) \/ KeyFound(c) \/ Admit(c) \/ Wake(c) \/ Deliver(c)
    <3>1. IInv'
      BY <2>2, PostKeeps, BeginKeeps, KeyFoundKeeps, AdmitKeeps, AnswerKeeps
    <3>2. UNCHANGED row
      BY <2>2 DEF Post, Begin, KeyFound, Admit, Wake, Deliver
    <3>3. QED
      BY <1>1, <3>1, <3>2
  <2>3. QED
    BY <1>2, <2>1, <2>2 DEF Serve
<1>3. CASE SweepBatch
  BY <1>1, <1>3, SweepKeeps DEF SweepBatch
<1>4. CASE SweepStart \/ Tick \/ UNCHANGED vars
  <2>1. UNCHANGED <<row, record, conn, call, origin>> /\ now' \in Nat
    BY <1>4 DEF SweepStart, Tick, vars, IInv, TypeOK
  <2>2. QED
    BY <1>1, <2>1, IdleKeeps
<1>5. ASSUME NEW i \in IDs, Terminate(i) PROVE IInv' /\ Limit
  <2>1. \A j \in IDs : row[j] = NoRow => row'[j].observed # "Pending"
    BY <1>5 DEF Terminate, IInv, TypeOK, NoRow
  <2>2. QED
    BY <1>5, <2>1, TerminateKeeps
<1>6. CASE ImportRecovered
  <2>1. \A j \in IDs : row[j] = NoRow => row'[j].observed # "Pending"
    BY <1>6 DEF ImportRecovered, IInv, TypeOK, NoRow
  <2>2. QED
    BY <1>6, <2>1, ImportKeeps
<1>7. CASE Crash
  BY <1>1, <1>7, CrashKeeps DEF Crash
<1>8. QED
  BY <1>2, <1>3, <1>4, <1>5, <1>6, <1>7 DEF Next
-----------------------------------------------------------------------------
(* The theorems.                                                           *)

\* The invariant from which the others follow.
THEOREM Inductive == Spec => []IInv
<1>1. Init => IInv
  <2> SUFFICES ASSUME Init PROVE IInv
    OBVIOUS
  <2>1. TypeOK
    BY AdmissionAssumption DEF Init, TypeOK, Row, Record, Origin, Call
  <2>2. ConnInv /\ CommitInv /\ NamedInv
    BY Constants DEF Init, ConnInv, CommitInv, NamedInv, Names, Ready
  <2>3. RecordInv /\ OriginInv /\ LiveInv
    BY DEF Init, RecordInv, OriginInv, LiveInv, Active, NoRow
  <2>4. QED
    BY <2>1, <2>2, <2>3 DEF IInv
<1>2. IInv /\ [Next]_vars => IInv'
  BY StepKeeps
<1>3. QED
  BY <1>1, <1>2, PTL DEF Spec

\* The tables, the connection and the requests are of their types.
THEOREM TypeCorrect == Spec => []TypeOK
  BY Inductive, PTL DEF IInv

\* At most one live sandbox per idempotency key, for any number of clients, however
\* their requests, the sweeper, crashes and wrongly reported commits interleave.
THEOREM KeyIsExclusive == Spec => []OneLiveSandboxPerKey
<1>1. IInv => OneLiveSandboxPerKey
  <2> SUFFICES ASSUME IInv, NEW k \in Keys
               PROVE  Cardinality({i \in Active(row) : origin[i].key = k}) <= 1
    BY DEF OneLiveSandboxPerKey
  <2> DEFINE S == {i \in Active(row) : origin[i].key = k}
  <2>1. S \subseteq {record[k].sandbox}
    BY DEF IInv, LiveInv
  <2>2. IsFiniteSet({record[k].sandbox}) /\ Cardinality({record[k].sandbox}) = 1
    BY FS_Singleton
  <2>3. Cardinality(S) <= 1
    BY <2>1, <2>2, FS_Subset
  <2>4. QED
    BY <2>3
<1>2. QED
  BY <1>1, Inductive, PTL

\* A 202 names a sandbox that was created for that key and that canonical request.
THEOREM ReplayIsFaithful == Spec => []ReplayMatchesRequest
<1>1. IInv => ReplayMatchesRequest
  BY DEF IInv, NamedInv, Names, BornFrom, ReplayMatchesRequest, At
<1>2. QED
  BY <1>1, Inductive, PTL

\* No creation takes the number of sandboxes past the limit.
THEOREM LimitIsKept == Spec => AdmissionHolds
<1>1. IInv /\ [Next]_vars
        => [\A i \in IDs : (row[i] = NoRow /\ row'[i].observed = "Pending")
                             => Cardinality(Active(row')) <= MaxSandboxes]_vars
  BY StepKeeps
<1>2. QED
  BY <1>1, Inductive, PTL DEF Spec, AdmissionHolds
=============================================================================
