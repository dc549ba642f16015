------------------------- MODULE VerificationProofs -------------------------
(***************************************************************************)
(* Proofs about Verification: attempts stay within their limit, the oldest *)
(* record of a type is kept, a record that is over stays over and the      *)
(* trust score rises no more often than requests settled records, for any  *)
(* number of requests, records and attempts.                               *)
(***************************************************************************)
EXTENDS Verification, FiniteSetTheorems, TLAPS

Record == [type : Type, status : Status \cup {"NONE", "DELETED"}, code : BOOLEAN,
           expired : BOOLEAN, attempts : Nat]

Request == [at : Place, type : Type, id : 0 .. MaxRecords, attempts : Nat,
            right : BOOLEAN, ids : SUBSET Ids]

Types ==
  /\ record \in [Ids -> Record] /\ created \in 0 .. MaxRecords /\ boosts \in Nat
  /\ req \in [Requests -> Request]

Tabled == \A i \in Ids : record[i].status = "NONE" <=> i > created

\* An older record of the same type.
HasOlder(i) == \E j \in 1 .. i - 1 : record[j].type = record[i].type

\* What a request was told is about records that were there: it counts on from less
\* than the limit, and deletes none that is the oldest.
Told(r) ==
  /\ req[r].id <= created
  /\ req[r].ids \subseteq Known /\ \A i \in req[r].ids : HasOlder(i)
  /\ req[r].at = "read" => req[r].attempts <= MaxAttempts
  /\ req[r].at = "count" => req[r].attempts < MaxAttempts

Noted(i) ==
  /\ record[i].attempts <= MaxAttempts
  /\ record[i].status = "DELETED" => HasOlder(i)

IInv ==
  /\ Types /\ Tabled
  /\ \A r \in Requests : Told(r)
  /\ \A i \in Known : Noted(i)

USE VerificationAssumption

-----------------------------------------------------------------------------
(* Steps of requests                                                        *)

\* An idle request was told nothing.
LEMMA IdleRequest ==
  /\ Idle \in Request /\ Idle.at = "idle" /\ Idle.type = "PHONE" /\ Idle.id = 0
  /\ Idle.attempts = 0 /\ Idle.ids = {}
  BY DEF Idle, Request, Place, Type

\* What a step may do to the table: rows keep their types.
Kept ==
  /\ record' \in [Ids -> Record] /\ \A i \in Known : record'[i].type = record[i].type
  /\ created' \in 0 .. MaxRecords /\ created <= created' /\ boosts' \in Nat

\* What a request was told stays true.
LEMMA StillTold ==
  ASSUME IInv, Kept, NEW x \in Requests, req'[x] = req[x] PROVE Told(x)'
  <1>1. Told(x) /\ req[x] \in Request /\ created \in Nat /\ created' \in Nat
    BY DEF IInv, Types, Kept
  <1>2. Known \subseteq Known' /\ created <= created'
    BY <1>1 DEF Known, Kept
  <1>3. ASSUME NEW i \in Known, HasOlder(i)
        PROVE  HasOlder(i)'
    <2>1. PICK j \in 1 .. i - 1 : record[j].type = record[i].type
      BY <1>3 DEF HasOlder
    <2>2. j \in Known
      BY <1>1 DEF Known
    <2> QED
      BY <2>1, <2>2 DEF HasOlder, Kept
  <1>4. req[x].id <= created'
    BY <1>1, <1>2 DEF Told, Request
  <1> QED
    BY <1>1, <1>2, <1>3, <1>4 DEF Told

\* A step of one request keeps the invariant if the table stays in order and the
\* request is told the truth.
LEMMA OneStep ==
  ASSUME IInv, Kept, Tabled', \A i \in Known' : Noted(i)',
         NEW r \in Requests, NEW k \in Request, req' = [req EXCEPT ![r] = k], Told(r)'
  PROVE  IInv'
  <1>1. /\ req' \in [Requests -> Request] /\ \A x \in Requests \ {r} : req'[x] = req[x]
    BY DEF IInv, Types
  <1>2. \A x \in Requests : Told(x)'
    BY <1>1, StillTold
  <1> QED
    BY <1>1, <1>2 DEF IInv, Types, Kept

\* Nothing is written.
LEMMA QuietStep ==
  ASSUME IInv, UNCHANGED <<record, created>>, boosts' \in Nat,
         NEW r \in Requests, NEW k \in Request, req' = [req EXCEPT ![r] = k], Told(r)'
  PROVE  IInv'
  <1>1. Kept
    BY DEF IInv, Types, Kept
  <1>2. Tabled'
    BY DEF IInv, Tabled
  <1>3. \A i \in Known' : Noted(i)'
    BY DEF IInv, Noted, Known, HasOlder
  <1> QED
    BY <1>1, <1>2, <1>3, OneStep

\* A request that was told nothing was told the truth.
LEMMA ToldNothing ==
  ASSUME IInv, NEW r \in Requests, NEW k \in Request, req' = [req EXCEPT ![r] = k],
         created' \in Nat, k.id <= created', k.ids = {}, k.at \notin {"read", "count"}
  PROVE  Told(r)'
  <1>1. req'[r] = k
    BY DEF IInv, Types
  <1> QED
    BY <1>1 DEF Told

-----------------------------------------------------------------------------
(* The invariant                                                            *)

LEMMA InitInv == Init => IInv
  <1> SUFFICES ASSUME Init PROVE IInv
    OBVIOUS
  <1>1. Types
    BY IdleRequest DEF Init, Types, Record, NoRecord, Type
  <1>2. Tabled
    BY DEF Init, Tabled, NoRecord, Ids
  <1>3. \A r \in Requests : Told(r)
    BY IdleRequest DEF Init, Told
  <1>4. Known = {}
    BY DEF Init, Known
  <1> QED
    BY <1>1, <1>2, <1>3, <1>4 DEF IInv

LEMMA StartInv ==
  ASSUME IInv, NEW r \in Requests, Start(r) PROVE IInv'
  <1>1. created \in Nat /\ boosts \in Nat /\ record \in [Ids -> Record]
    BY DEF IInv, Types
  <1>2. Ids \subseteq 0 .. MaxRecords /\ \A i \in Rows : i \in Ids /\ i <= created
    BY DEF IInv, Types, Rows, Known, Ids
  <1>3. ASSUME NEW k \in Request, req' = [req EXCEPT ![r] = k], UNCHANGED <<record, created, boosts>>,
               k.id <= created, k.ids = {}, k.at # "count",
               k.at = "read" => k.attempts <= MaxAttempts
        PROVE  IInv'
    <2>1. req'[r] = k
      BY <1>3 DEF IInv, Types
    <2>2. Told(r)'
      BY <1>3, <2>1 DEF Told
    <2> QED
      BY <1>1, <1>3, <2>2, QuietStep
  <1>4. CASE StartPhone(r)
    <2> DEFINE k == [Idle EXCEPT !.at = "phone"]
    <2>1. k \in Request /\ k.id = 0 /\ k.ids = {} /\ k.at = "phone"
      BY IdleRequest DEF Request, Place
    <2>2. req' = [req EXCEPT ![r] = k] /\ UNCHANGED <<record, created, boosts>>
      BY <1>4 DEF StartPhone, Begin
    <2> HIDE DEF k
    <2>3. k.id <= created /\ k.at \notin {"read", "count"}
      BY <1>1, <2>1
    <2> QED
      BY <1>3, <2>1, <2>2, <2>3
  <1>5. ASSUME NEW type \in Type, StartRequest(r, type)
        PROVE  IInv'
    <2> DEFINE k == [Idle EXCEPT !.at = "request", !.type = type]
    <2>1. k \in Request /\ k.id = 0 /\ k.ids = {} /\ k.at = "request"
      BY IdleRequest DEF Request, Place
    <2>2. req' = [req EXCEPT ![r] = k] /\ UNCHANGED <<record, created, boosts>>
      BY <1>5 DEF StartRequest, Begin
    <2> HIDE DEF k
    <2>3. k.id <= created /\ k.at \notin {"read", "count"}
      BY <1>1, <2>1
    <2> QED
      BY <1>3, <2>1, <2>2, <2>3
  <1>6. ASSUME NEW i \in Ids, NEW right \in BOOLEAN, StartVerify(r, i, right)
        PROVE  IInv'
    <2> DEFINE n == record[i].attempts
               k == [Idle EXCEPT !.at = "read", !.id = i, !.attempts = n, !.right = right]
    <2>1. i \in Known /\ i <= created /\ i \in 0 .. MaxRecords
      BY <1>2, <1>6 DEF StartVerify, Pending, Rows
    <2>2. n \in Nat /\ n <= MaxAttempts
      BY <1>1, <2>1 DEF IInv, Noted, Record
    <2>3. req' = [req EXCEPT ![r] = k] /\ UNCHANGED <<record, created, boosts>>
      BY <1>6 DEF StartVerify, Begin
    <2> HIDE DEF n
    <2>4. k \in Request /\ k.id = i /\ k.ids = {} /\ k.at = "read" /\ k.attempts = n
      BY <2>1, <2>2, IdleRequest DEF Request, Place
    <2> HIDE DEF k
    <2> QED
      BY <1>1, <1>3, <2>1, <2>2, <2>3, <2>4
  <1>7. ASSUME NEW i \in Ids, NEW a \in {"cancel", "complete"}, i \in Rows,
               Begin(r, [Idle EXCEPT !.at = a, !.id = i]), UNCHANGED <<record, created, boosts>>
        PROVE  IInv'
    <2> DEFINE k == [Idle EXCEPT !.at = a, !.id = i]
    <2>1. i <= created /\ i \in 0 .. MaxRecords
      BY <1>2, <1>7
    <2>2. k \in Request /\ k.id = i /\ k.ids = {} /\ k.at = a
      BY <2>1, IdleRequest DEF Request, Place, Writes
    <2>3. req' = [req EXCEPT ![r] = k]
      BY <1>7 DEF Begin
    <2> HIDE DEF k
    <2> QED
      BY <1>1, <1>3, <1>7, <2>1, <2>2, <2>3
  <1>8. ASSUME NEW i \in Ids, StartReVerify(r, i)
        PROVE  IInv'
    <2> DEFINE t == record[i].type
               k == [Idle EXCEPT !.at = "mark", !.type = t]
    <2>1. t \in Type
      BY <1>1 DEF Record
    <2>2. req' = [req EXCEPT ![r] = k] /\ UNCHANGED <<record, created, boosts>>
      BY <1>8 DEF StartReVerify, Begin
    <2> HIDE DEF t
    <2>3. k \in Request /\ k.id = 0 /\ k.ids = {} /\ k.at = "mark"
      BY <2>1, IdleRequest DEF Request, Place
    <2> HIDE DEF k
    <2>4. k.id <= created /\ k.at \notin {"read", "count"}
      BY <1>1, <2>3
    <2> QED
      BY <1>3, <2>2, <2>3, <2>4
  <1>9. ASSUME NEW i \in Ids, StartCancel(r, i) \/ StartComplete(r, i)
        PROVE  IInv'
    BY <1>7, <1>9 DEF StartCancel, StartComplete
  <1> QED
    BY <1>4, <1>5, <1>6, <1>8, <1>9 DEF Start

\* A step that only changes what is known of one record keeps the table in order.
LEMMA RowWritten ==
  ASSUME IInv, UNCHANGED <<created, boosts>>, NEW i \in Known, record[i].status # "NONE",
         NEW w \in Record, w.type = record[i].type, w.status \in Status \cup {"DELETED"},
         w.attempts <= MaxAttempts,
         w.status = "DELETED" => record[i].status = "DELETED",
         record' = [record EXCEPT ![i] = w]
  PROVE  Kept /\ Tabled' /\ \A j \in Known' : Noted(j)'
  <1>1. /\ record \in [Ids -> Record] /\ created \in 0 .. MaxRecords /\ boosts \in Nat
        /\ Known' = Known /\ Known \subseteq Ids
    BY DEF IInv, Types, Known, Ids
  <1>2. /\ record' \in [Ids -> Record] /\ record'[i] = w
        /\ \A j \in Ids \ {i} : record'[j] = record[j]
    BY <1>1
  <1>3. Kept
    BY <1>1, <1>2 DEF Kept
  <1>4. Tabled'
    <2>1. w.status # "NONE"
      BY DEF Status
    <2> QED
      BY <1>1, <1>2, <2>1 DEF IInv, Tabled
  <1>5. ASSUME NEW j \in Known
        PROVE  Noted(j)'
    <2>1. Noted(j)
      BY DEF IInv
    <2>2. HasOlder(j) => HasOlder(j)'
      <3>1. 1 .. j - 1 \subseteq Known
        BY <1>1 DEF Known
      <3> QED
        BY <1>3, <3>1 DEF HasOlder, Kept
    <2> QED
      BY <1>1, <1>2, <2>1, <2>2 DEF Noted
  <1> QED
    BY <1>1, <1>3, <1>4, <1>5

\* Rows are known.
LEMMA RowsKnown ==
  ASSUME IInv, NEW i \in Rows
  PROVE  /\ i \in Known /\ i \in Ids /\ record[i] \in Record /\ record[i].status # "NONE"
         /\ record[i].status # "DELETED" /\ Noted(i)
  BY DEF IInv, Types, Rows, Known, Ids, Status

LEMMA EndTold ==
  ASSUME IInv, NEW r \in Requests, End(r), created' \in Nat
  PROVE  Idle \in Request /\ req' = [req EXCEPT ![r] = Idle] /\ Told(r)'
  <1>1. req' = [req EXCEPT ![r] = Idle]
    BY DEF End
  <1>2. req'[r] = Idle
    BY <1>1 DEF IInv, Types
  <1>3. Told(r)'
    BY <1>2, IdleRequest DEF Told
  <1> QED
    BY <1>1, <1>3, IdleRequest

\* A request that goes on to a place that is no answer's was told the truth before.
LEMMA GoTold ==
  ASSUME IInv, Kept, NEW r \in Requests, NEW place \in Place, Go(r, place),
         place # "read", place = "count" => req[r].attempts < MaxAttempts
  PROVE  \E k \in Request : req' = [req EXCEPT ![r] = k] /\ Told(r)'
  <1> DEFINE k == [req[r] EXCEPT !.at = place]
  <1>1. req[r] \in Request /\ req \in [Requests -> Request]
    BY DEF IInv, Types
  <1>2. /\ k \in Request /\ k.at = place /\ k.id = req[r].id /\ k.ids = req[r].ids
        /\ k.attempts = req[r].attempts
    BY <1>1 DEF Request
  <1>3. req' = [req EXCEPT ![r] = k]
    BY DEF Go
  <1> HIDE DEF k
  <1>4. req'[r] = k
    BY <1>1, <1>3
  <1>5. created \in Nat /\ created' \in Nat /\ created <= created' /\ Known \subseteq Known'
    BY DEF IInv, Types, Kept, Known
  <1>6. k.id <= created' /\ k.ids \subseteq Known
    BY <1>1, <1>2, <1>5 DEF IInv, Told, Request
  <1>7. \A i \in k.ids : HasOlder(i)'
    <2> SUFFICES ASSUME NEW i \in k.ids PROVE HasOlder(i)'
      OBVIOUS
    <2>1. PICK j \in 1 .. i - 1 : record[j].type = record[i].type
      BY <1>2 DEF IInv, Told, HasOlder
    <2>2. i \in Known /\ j \in Known
      BY <1>5, <1>6 DEF Known
    <2> QED
      BY <2>1, <2>2 DEF HasOlder, Kept
  <1>8. Told(r)'
    BY <1>2, <1>4, <1>5, <1>6, <1>7 DEF Told
  <1> QED
    BY <1>2, <1>3, <1>8

LEMMA CreateInv ==
  ASSUME IInv, NEW r \in Requests, Create(r) PROVE IInv'
  <1> DEFINE i == created + 1
             w == NewRecord(req[r].type, req[r].at = "phone")
  <1>1. /\ record \in [Ids -> Record] /\ created \in Nat /\ MaxRecords \in Nat
        /\ created < MaxRecords /\ boosts \in Nat /\ req[r] \in Request
    BY DEF IInv, Types, Create
  <1>2. i \in Ids /\ i \in 0 .. MaxRecords /\ i \notin Known /\ created < i
    BY <1>1 DEF Ids, Known
  <1>3. /\ w \in Record /\ w.status = "PENDING" /\ w.attempts = 0
    BY <1>1 DEF NewRecord, Record, Request, Status
  <1>4. /\ created' = i /\ record' = [record EXCEPT ![i] = w] /\ End(r) /\ UNCHANGED boosts
    BY DEF Create
  <1>5. Known' = Known \cup {i} /\ Known \subseteq Ids
    BY <1>1, <1>4 DEF Known, Ids
  <1> HIDE DEF w
  <1>6. /\ record' \in [Ids -> Record] /\ record'[i] = w
        /\ \A j \in Ids \ {i} : record'[j] = record[j]
    BY <1>1, <1>2, <1>3, <1>4
  <1>7. Kept
    BY <1>1, <1>2, <1>4, <1>5, <1>6 DEF Kept
  <1>8. Tabled'
    <2> SUFFICES ASSUME NEW j \in Ids PROVE record'[j].status = "NONE" <=> j > created'
      BY DEF Tabled
    <2>1. CASE j = i
      BY <1>1, <1>3, <1>4, <1>6, <2>1
    <2>2. CASE j # i
      <3>1. j > created <=> j > created'
        BY <1>1, <1>4, <2>2 DEF Ids
      <3> QED
        BY <1>6, <2>2, <3>1 DEF IInv, Tabled
    <2> QED
      BY <2>1, <2>2
  <1>9. ASSUME NEW j \in Known'
        PROVE  Noted(j)'
    <2>1. CASE j = i
      BY <1>3, <1>6, <2>1 DEF Noted
    <2>2. CASE j \in Known
      <3>1. Noted(j) /\ record'[j] = record[j]
        BY <1>2, <1>5, <1>6, <2>2 DEF IInv
      <3>2. HasOlder(j) => HasOlder(j)'
        <4>1. 1 .. j - 1 \subseteq Known
          BY <1>1, <2>2 DEF Known
        <4> QED
          BY <1>7, <2>2, <4>1 DEF HasOlder, Kept
      <3> QED
        BY <3>1, <3>2 DEF Noted
    <2> QED
      BY <1>5, <2>1, <2>2
  <1>10. created' \in Nat
    BY <1>1, <1>4
  <1> QED
    BY <1>4, <1>7, <1>8, <1>9, <1>10, EndTold, OneStep

LEMMA CheckInv ==
  ASSUME IInv, NEW r \in Requests, Check(r) PROVE IInv'
  <1>1. UNCHANGED <<record, created, boosts>> /\ created \in Nat /\ boosts \in Nat
    BY DEF IInv, Types, Check
  <1>2. Kept
    BY <1>1 DEF IInv, Types, Kept
  <1>3. CASE End(r)
    BY <1>1, <1>3, EndTold, QuietStep
  <1>4. ASSUME NEW place \in {"expire", "reject", "accept", "count"}, Go(r, place),
               place = "count" => ~TooMany(req[r].attempts)
        PROVE  IInv'
    <2>1. place \in Place /\ place # "read"
      BY DEF Place, Writes
    <2>2. place = "count" => req[r].attempts < MaxAttempts
      BY <1>4 DEF TooMany, IInv, Types, Request
    <2>3. \E k \in Request : req' = [req EXCEPT ![r] = k] /\ Told(r)'
      BY <1>2, <1>4, <2>1, <2>2, GoTold
    <2> QED
      BY <1>1, <2>3, QuietStep
  <1> QED
    BY <1>3, <1>4 DEF Check

LEMMA CountInv ==
  ASSUME IInv, NEW r \in Requests, Count(r) PROVE IInv'
  <1> DEFINE i == req[r].id
             n == req[r].attempts + 1
             w == [record[i] EXCEPT !.attempts = n]
  <1>1. created \in Nat /\ boosts \in Nat /\ UNCHANGED <<created, boosts>> /\ End(r)
    BY DEF IInv, Types, Count
  <1>2. CASE i \notin Rows
    <2>1. UNCHANGED record
      BY <1>2 DEF Count
    <2> QED
      BY <1>1, <2>1, EndTold, QuietStep
  <1>3. CASE i \in Rows
    <2>1. /\ i \in Known /\ record[i] \in Record /\ record[i].status # "NONE"
          /\ record[i].status # "DELETED"
      BY <1>3, RowsKnown
    <2>2. n \in Nat /\ n <= MaxAttempts
      BY DEF Count, IInv, Told, Types, Request
    <2>3. record' = [record EXCEPT ![i] = w]
      BY <1>3 DEF Count
    <2> HIDE DEF n
    <2>4. /\ w \in Record /\ w.type = record[i].type /\ w.status = record[i].status
          /\ w.attempts = n
      BY <2>1, <2>2 DEF Record
    <2>5. w.status \in Status \cup {"DELETED"}
      BY <2>1, <2>4 DEF Record
    <2> HIDE DEF w, i
    <2>6. Kept /\ Tabled' /\ \A j \in Known' : Noted(j)'
      BY <1>1, <2>1, <2>2, <2>3, <2>4, <2>5, RowWritten
    <2> QED
      BY <1>1, <2>6, EndTold, OneStep
  <1> QED
    BY <1>2, <1>3

LEMMA WriteStatusInv ==
  ASSUME IInv, NEW r \in Requests, WriteStatus(r) PROVE IInv'
  <1> DEFINE i == req[r].id
             st == Written(req[r].at)
             w == [record[i] EXCEPT !.status = st]
  <1>1. created \in Nat /\ boosts \in Nat /\ UNCHANGED <<created, boosts>>
    BY DEF IInv, Types, WriteStatus
  <1>2. CASE i \notin Rows
    <2>1. UNCHANGED record /\ End(r)
      BY <1>2 DEF WriteStatus
    <2> QED
      BY <1>1, <2>1, EndTold, QuietStep
  <1>3. CASE i \in Rows
    <2>1. /\ i \in Known /\ record[i] \in Record /\ record[i].status # "NONE" /\ Noted(i)
      BY <1>3, RowsKnown
    <2>2. st \in {"EXPIRED", "REJECTED", "VERIFIED"}
      BY DEF Written
    <2>3. record' = [record EXCEPT ![i] = w]
      BY <1>3 DEF WriteStatus
    <2> HIDE DEF st
    <2>4. /\ w \in Record /\ w.type = record[i].type /\ w.status = st
          /\ w.attempts = record[i].attempts
      BY <2>1, <2>2 DEF Record, Status
    <2>5. /\ w.status \in Status \cup {"DELETED"} /\ w.status # "DELETED"
          /\ w.attempts <= MaxAttempts
      BY <2>1, <2>2, <2>4 DEF Status, Noted
    <2>6. End(r) \/ Go(r, "boost")
      BY <1>3 DEF WriteStatus
    <2> HIDE DEF w, i
    <2>7. Kept /\ Tabled' /\ \A j \in Known' : Noted(j)'
      BY <1>1, <2>1, <2>3, <2>4, <2>5, RowWritten
    <2>8. CASE End(r)
      BY <1>1, <2>7, <2>8, EndTold, OneStep
    <2>9. CASE Go(r, "boost")
      <3>1. \E k \in Request : req' = [req EXCEPT ![r] = k] /\ Told(r)'
        BY <2>7, <2>9, GoTold DEF Place
      <3> QED
        BY <2>7, <3>1, OneStep
    <2> QED
      BY <2>6, <2>8, <2>9
  <1> QED
    BY <1>2, <1>3

\* Many rows get another status, and none is deleted that has no older one.
LEMMA RowsWritten ==
  ASSUME IInv, UNCHANGED <<created, boosts>>, NEW S \in SUBSET Rows,
         NEW st \in Status \cup {"DELETED"}, st = "DELETED" => \A i \in S : HasOlder(i),
         record' = [i \in Ids |-> IF i \in S THEN [record[i] EXCEPT !.status = st] ELSE record[i]]
  PROVE  Kept /\ Tabled' /\ \A j \in Known' : Noted(j)'
  <1>1. /\ record \in [Ids -> Record] /\ created \in 0 .. MaxRecords /\ boosts \in Nat
        /\ Known' = Known /\ Known \subseteq Ids
    BY DEF IInv, Types, Known, Ids
  <1>2. ASSUME NEW i \in Ids
        PROVE  /\ record'[i] \in Record /\ record'[i].type = record[i].type
               /\ record'[i].attempts = record[i].attempts
               /\ record'[i].status = IF i \in S THEN st ELSE record[i].status
    <2> DEFINE w == [record[i] EXCEPT !.status = st]
    <2>1. record[i] \in Record
      BY <1>1
    <2>2. /\ w \in Record /\ w.type = record[i].type /\ w.attempts = record[i].attempts
          /\ w.status = st
      BY <2>1 DEF Record
    <2>3. record'[i] = IF i \in S THEN w ELSE record[i]
      OBVIOUS
    <2> HIDE DEF w
    <2> QED
      BY <2>1, <2>2, <2>3
  <1>3. record' \in [Ids -> Record]
    <2>1. record' = [i \in Ids |-> record'[i]]
      OBVIOUS
    <2> QED
      BY <1>2, <2>1
  <1>4. Kept
    BY <1>1, <1>2, <1>3 DEF Kept
  <1>5. Tabled'
    <2> SUFFICES ASSUME NEW i \in Ids PROVE record'[i].status = "NONE" <=> i > created'
      BY DEF Tabled
    <2>1. i \in S => record[i].status # "NONE"
      BY RowsKnown
    <2>2. st # "NONE"
      BY DEF Status
    <2> QED
      BY <1>2, <2>1, <2>2 DEF IInv, Tabled
  <1>6. ASSUME NEW j \in Known
        PROVE  Noted(j)'
    <2>1. Noted(j)
      BY DEF IInv
    <2>2. HasOlder(j) => HasOlder(j)'
      <3>1. 1 .. j - 1 \subseteq Known
        BY <1>1 DEF Known
      <3> QED
        BY <1>4, <3>1 DEF HasOlder, Kept
    <2> QED
      BY <1>1, <1>2, <2>1, <2>2 DEF Noted
  <1> QED
    BY <1>1, <1>4, <1>5, <1>6

LEMMA MarkInv ==
  ASSUME IInv, NEW r \in Requests, Mark(r) PROVE IInv'
  <1> DEFINE S == {i \in Ids : record[i].status = "PENDING" /\ record[i].expired}
  <1>1. \A i \in Ids : record[i].status = "PENDING" => i \in Rows
    BY DEF IInv, Tabled, Types, Rows, Known, Ids, Status
  <1>2. S \in SUBSET Rows
    BY <1>1
  <1>3. /\ record' = [i \in Ids |-> IF i \in S THEN [record[i] EXCEPT !.status = "EXPIRED"]
                                    ELSE record[i]]
        /\ UNCHANGED <<created, boosts>> /\ Go(r, "list")
    BY DEF Mark
  <1>4. "EXPIRED" \in Status \cup {"DELETED"}
    BY DEF Status
  <1> HIDE DEF S
  <1>5. Kept /\ Tabled' /\ \A j \in Known' : Noted(j)'
    BY <1>2, <1>3, <1>4, RowsWritten
  <1>6. \E k \in Request : req' = [req EXCEPT ![r] = k] /\ Told(r)'
    BY <1>3, <1>5, GoTold DEF Place
  <1> QED
    BY <1>5, <1>6, OneStep

LEMMA ListInv ==
  ASSUME IInv, NEW r \in Requests, List(r) PROVE IInv'
  <1> DEFINE S == AllButOldest(Old(req[r].type))
             k == [req[r] EXCEPT !.at = "delete", !.ids = S]
  <1>1. req[r] \in Request /\ req \in [Requests -> Request] /\ created \in Nat /\ boosts \in Nat
    BY DEF IInv, Types
  <1>2. Rows \subseteq Known /\ Known \subseteq Ids
    BY DEF IInv, Types, Rows, Known, Ids
  <1>3. S \subseteq Rows
    BY DEF AllButOldest, Old
  <1>4. ASSUME NEW i \in S
        PROVE  HasOlder(i)
    <2>1. PICK j \in Old(req[r].type) : j < i
      BY DEF AllButOldest
    <2>2. record[j].type = record[i].type
      BY <2>1 DEF AllButOldest, Old
    <2>3. i \in Ids /\ j \in Ids
      BY <1>2, <1>3, <2>1 DEF Old
    <2>4. j \in 1 .. i - 1
      BY <2>1, <2>3 DEF Ids
    <2> QED
      BY <2>2, <2>4 DEF HasOlder
  <1>5. req' = [req EXCEPT ![r] = k] /\ UNCHANGED <<record, created, boosts>>
    BY DEF List
  <1> HIDE DEF S
  <1>6. k \in Request /\ k.at = "delete" /\ k.ids = S /\ k.id = req[r].id
    BY <1>1, <1>2, <1>3 DEF Request, Place
  <1> HIDE DEF k
  <1>7. req'[r] = k
    BY <1>1, <1>5
  <1>8. Told(r)'
    <2>1. UNCHANGED Known /\ \A i \in S : HasOlder(i)'
      BY <1>4, <1>5 DEF Known, HasOlder
    <2> QED
      BY <1>2, <1>3, <1>5, <1>6, <1>7, <2>1 DEF IInv, Told
  <1> QED
    BY <1>1, <1>5, <1>6, <1>8, QuietStep

LEMMA DeleteInv ==
  ASSUME IInv, NEW r \in Requests, Delete(r) PROVE IInv'
  <1> DEFINE S == req[r].ids \cap Rows
  <1>1. S \in SUBSET Rows /\ \A i \in S : HasOlder(i)
    BY DEF IInv, Told
  <1>2. /\ record' = [i \in Ids |-> IF i \in S THEN [record[i] EXCEPT !.status = "DELETED"]
                                    ELSE record[i]]
        /\ UNCHANGED <<created, boosts>>
    BY DEF Delete
  <1> HIDE DEF S
  <1>3. Kept /\ Tabled' /\ \A j \in Known' : Noted(j)'
    BY <1>1, <1>2, RowsWritten
  <1>4. CASE Go(r, "again")
    <2>1. \E k \in Request : req' = [req EXCEPT ![r] = k] /\ Told(r)'
      BY <1>3, <1>4, GoTold DEF Place
    <2> QED
      BY <1>3, <2>1, OneStep
  <1>5. CASE End(r)
    <2>1. created' \in Nat
      BY <1>2 DEF IInv, Types
    <2> QED
      BY <1>3, <1>5, <2>1, EndTold, OneStep
  <1> QED
    BY <1>4, <1>5 DEF Delete

LEMMA AgainInv ==
  ASSUME IInv, NEW r \in Requests, Again(r) PROVE IInv'
  <1> DEFINE t == req[r].type
             k == [Idle EXCEPT !.at = "request", !.type = t]
  <1>1. created \in Nat /\ boosts \in Nat /\ UNCHANGED <<record, created, boosts>> /\ t \in Type
    BY DEF IInv, Types, Again, Request
  <1>2. CASE End(r)
    BY <1>1, <1>2, EndTold, QuietStep
  <1>3. CASE req' = [req EXCEPT ![r] = k]
    <2> HIDE DEF t
    <2>1. k \in Request /\ k.id = 0 /\ k.ids = {} /\ k.at = "request"
      BY <1>1, IdleRequest DEF Request, Place
    <2> HIDE DEF k
    <2>2. k.id <= created' /\ created' \in Nat /\ k.at \notin {"read", "count"}
      BY <1>1, <2>1
    <2>3. Told(r)'
      BY <1>3, <2>1, <2>2, ToldNothing
    <2> QED
      BY <1>1, <1>3, <2>1, <2>3, QuietStep
  <1> QED
    BY <1>2, <1>3 DEF Again

LEMMA ExpireInv ==
  ASSUME IInv, NEW i \in Known, Expire(i) PROVE IInv'
  <1> DEFINE w == [record[i] EXCEPT !.expired = TRUE]
  <1>1. /\ record \in [Ids -> Record] /\ i \in Ids /\ i <= created /\ created \in Nat
        /\ Noted(i) /\ UNCHANGED <<created, boosts, req>>
    BY DEF IInv, Types, Known, Ids, Expire
  <1>2. record' = [record EXCEPT ![i] = w]
    BY DEF Expire
  <1>3. record[i] \in Record /\ record[i].status # "NONE" /\ i \in Nat
    BY <1>1 DEF IInv, Tabled, Ids
  <1>4. /\ w \in Record /\ w.type = record[i].type /\ w.status = record[i].status
        /\ w.attempts = record[i].attempts
    BY <1>3 DEF Record
  <1>5. w.status \in Status \cup {"DELETED"} /\ w.attempts <= MaxAttempts
    BY <1>1, <1>3, <1>4 DEF Record, Noted
  <1> HIDE DEF w
  <1>6. Kept /\ Tabled' /\ \A j \in Known' : Noted(j)'
    BY <1>1, <1>2, <1>3, <1>4, <1>5, RowWritten
  <1>7. \A x \in Requests : Told(x)'
    BY <1>1, <1>6, StillTold
  <1> QED
    BY <1>1, <1>6, <1>7 DEF IInv, Types, Kept

LEMMA StepInv == IInv /\ [Next]_vars => IInv'
  <1> SUFFICES ASSUME IInv, [Next]_vars PROVE IInv'
    OBVIOUS
  <1>1. ASSUME NEW r \in Requests, Boost(r) \/ Abort(r)
        PROVE  IInv'
    <2>1. /\ End(r) /\ UNCHANGED <<record, created>> /\ boosts' \in Nat /\ created' \in Nat
      BY <1>1 DEF Boost, Abort, IInv, Types
    <2> QED
      BY <2>1, EndTold, QuietStep
  <1>2. CASE UNCHANGED vars
    <2>1. Kept /\ \A r \in Requests : req'[r] = req[r]
      BY <1>2 DEF vars, Kept, IInv, Types
    <2>2. \A r \in Requests : Told(r)'
      BY <2>1, StillTold
    <2>3. Tabled' /\ \A i \in Known' : Noted(i)'
      BY <1>2 DEF vars, IInv, Tabled, Noted, Known, HasOlder
    <2>4. Types'
      BY <1>2 DEF vars, IInv, Types
    <2> QED
      BY <2>2, <2>3, <2>4 DEF IInv
  <1>3. CASE \E r \in Requests : Start(r) \/ Step(r)
    BY <1>1, <1>3, StartInv, CreateInv, CheckInv, CountInv, WriteStatusInv, MarkInv, ListInv,
       DeleteInv, AgainInv DEF Step
  <1>4. CASE \E i \in Known : Expire(i)
    BY <1>4, ExpireInv
  <1> QED
    BY <1>2, <1>3, <1>4 DEF Next

\* IInv holds in every reachable state.
THEOREM VerificationInvariance == Spec => []IInv
  <1>1. Init => IInv
    BY InitInv
  <1>2. IInv /\ [Next]_vars => IInv'
    BY StepInv
  <1> QED
    BY <1>1, <1>2, PTL DEF Spec

\* The variables have their types.
THEOREM VerificationTypeCorrect == Spec => []TypeOK
  <1>1. IInv => TypeOK
    <2> SUFFICES ASSUME IInv PROVE TypeOK
      OBVIOUS
    <2>1. \A r \in Requests : req[r] \in Request /\ Told(r) /\ created \in Nat
      BY DEF IInv, Types
    <2>2. \A r \in Requests :
            req[r] \in [at : Place, type : Type, id : 0 .. created, attempts : Nat,
                        right : BOOLEAN, ids : SUBSET Known]
      BY <2>1 DEF Request, Told
    <2>3. req = [r \in Requests |-> req[r]]
      BY DEF IInv, Types
    <2> QED
      BY <2>2, <2>3 DEF IInv, Types, TypeOK, Record, Tabled
  <1> QED
    BY <1>1, VerificationInvariance, PTL

\* Wrong codes that come together never push the attempts past the limit.
THEOREM AttemptsStayBounded == Spec => []AttemptsBounded
  <1>1. IInv => AttemptsBounded
    BY DEF IInv, Noted, AttemptsBounded
  <1> QED
    BY <1>1, VerificationInvariance, PTL

\* The oldest record of a type is kept, whatever is deleted at the same time.
THEOREM OldestIsKept == Spec => []OldestKept
  <1>1. IInv => OldestKept
    BY DEF IInv, Noted, HasOlder, OldestKept
  <1> QED
    BY <1>1, VerificationInvariance, PTL

-----------------------------------------------------------------------------
(* A record that is over stays over                                         *)

\* What the row of an over record, and a request q, have to be.
Decided(i) == record[i].status # "PENDING" \/ TooMany(record[i].attempts)

Late(q, i) ==
  q.id = i => /\ q.at \notin {"accept", "count", "boost"}
              /\ q.at = "read" => TooMany(q.attempts)

LEMMA StaysOver ==
  ASSUME IInv, NEW i \in Known, Over(i), NEW r \in Requests, Decided(i)', Late(req'[r], i),
         \A x \in Requests \ {r} : req'[x] = req[x]
  PROVE  Over(i)'
  BY DEF Over, Decided, Late

LEMMA StartOver ==
  ASSUME IInv, NEW i \in Known, Over(i), NEW r \in Requests, Start(r)
  PROVE  Over(i)'
  <1>1. req \in [Requests -> Request] /\ i \in Nat /\ i # 0
    BY DEF IInv, Types, Known
  <1>2. ASSUME NEW k, req' = [req EXCEPT ![r] = k], record' = record, Late(k, i)
        PROVE  Over(i)'
    <2>1. req'[r] = k /\ \A x \in Requests \ {r} : req'[x] = req[x]
      BY <1>1, <1>2
    <2>2. Decided(i)'
      BY <1>2 DEF Over, Decided
    <2> QED
      BY <1>2, <2>1, <2>2, StaysOver
  <1>3. CASE StartPhone(r)
    <2> DEFINE k == [Idle EXCEPT !.at = "phone"]
    <2>1. k.at = "phone" /\ req' = [req EXCEPT ![r] = k] /\ record' = record
      BY <1>3 DEF StartPhone, Begin, Idle
    <2> HIDE DEF k
    <2>2. Late(k, i)
      BY <2>1 DEF Late
    <2> QED
      BY <1>2, <2>1, <2>2
  <1>4. ASSUME NEW type \in Type, StartRequest(r, type)
        PROVE  Over(i)'
    <2> DEFINE k == [Idle EXCEPT !.at = "request", !.type = type]
    <2>1. k.at = "request" /\ req' = [req EXCEPT ![r] = k] /\ record' = record
      BY <1>4 DEF StartRequest, Begin, Idle
    <2> HIDE DEF k
    <2>2. Late(k, i)
      BY <2>1 DEF Late
    <2> QED
      BY <1>2, <2>1, <2>2
  <1>5. ASSUME NEW j \in Ids, NEW right \in BOOLEAN, StartVerify(r, j, right)
        PROVE  Over(i)'
    <2> DEFINE n == record[j].attempts
               k == [Idle EXCEPT !.at = "read", !.id = j, !.attempts = n, !.right = right]
    <2>1. /\ k.at = "read" /\ k.id = j /\ k.attempts = n
          /\ req' = [req EXCEPT ![r] = k] /\ record' = record
      BY <1>5 DEF StartVerify, Begin, Idle
    <2>2. j = i => TooMany(n)
      BY <1>5 DEF StartVerify, Pending, Over
    <2> HIDE DEF k
    <2>3. Late(k, i)
      BY <2>1, <2>2 DEF Late
    <2> QED
      BY <1>2, <2>1, <2>3
  <1>6. ASSUME NEW j \in Ids, NEW a \in {"cancel", "complete"},
               Begin(r, [Idle EXCEPT !.at = a, !.id = j]), record' = record
        PROVE  Over(i)'
    <2> DEFINE k == [Idle EXCEPT !.at = a, !.id = j]
    <2>1. k.at = a /\ req' = [req EXCEPT ![r] = k]
      BY <1>6 DEF Begin, Idle
    <2> HIDE DEF k
    <2>2. Late(k, i)
      BY <2>1 DEF Late
    <2> QED
      BY <1>2, <1>6, <2>1, <2>2
  <1>7. ASSUME NEW j \in Ids, StartReVerify(r, j)
        PROVE  Over(i)'
    <2> DEFINE k == [Idle EXCEPT !.at = "mark", !.type = record[j].type]
    <2>1. k.at = "mark" /\ req' = [req EXCEPT ![r] = k] /\ record' = record
      BY <1>7 DEF StartReVerify, Begin, Idle
    <2> HIDE DEF k
    <2>2. Late(k, i)
      BY <2>1 DEF Late
    <2> QED
      BY <1>2, <2>1, <2>2
  <1>8. ASSUME NEW j \in Ids, StartCancel(r, j) \/ StartComplete(r, j)
        PROVE  Over(i)'
    BY <1>6, <1>8 DEF StartCancel, StartComplete
  <1> QED
    BY <1>3, <1>4, <1>5, <1>7, <1>8 DEF Start

\* Where the step of a request takes it.
LEMMA StepPlaces ==
  ASSUME IInv, NEW i \in Known, Over(i), NEW r \in Requests, Step(r)
  PROVE  Late(req'[r], i) /\ \A x \in Requests \ {r} : req'[x] = req[x]
  <1>1. req \in [Requests -> Request] /\ req[r] \in Request /\ i \in Nat /\ i # 0
    BY DEF IInv, Types, Known
  <1>2. CASE End(r)
    <2>1. req'[r] = Idle /\ \A x \in Requests \ {r} : req'[x] = req[x]
      BY <1>1, <1>2 DEF End
    <2> QED
      BY <2>1, IdleRequest DEF Late
  <1>3. ASSUME NEW place, Go(r, place)
        PROVE  /\ req'[r].at = place /\ req'[r].id = req[r].id
               /\ \A x \in Requests \ {r} : req'[x] = req[x]
    BY <1>1, <1>3 DEF Go, Request
  <1>4. CASE Check(r)
    <2>1. ASSUME NEW place \in {"expire", "reject"}, Go(r, place)
          PROVE  Late(req'[r], i)
      BY <1>3, <2>1 DEF Late
    <2>2. ASSUME ~TooMany(req[r].attempts), NEW place \in {"accept", "count"}, Go(r, place)
          PROVE  Late(req'[r], i)
      <3>1. req[r].id # i
        BY <1>4, <2>2 DEF Check, Over
      <3> QED
        BY <1>3, <2>2, <3>1 DEF Late
    <2> QED
      BY <1>2, <1>3, <1>4, <2>1, <2>2 DEF Check
  <1>5. CASE WriteStatus(r)
    <2>1. ASSUME req[r].at = "accept", Go(r, "boost")
          PROVE  Late(req'[r], i)
      <3>1. req[r].id # i
        BY <2>1 DEF Over
      <3> QED
        BY <1>3, <2>1, <3>1 DEF Late
    <2> QED
      BY <1>2, <1>3, <1>5, <2>1 DEF WriteStatus
  <1>6. CASE Mark(r) \/ Delete(r)
    <2>1. End(r) \/ Go(r, "list") \/ Go(r, "again")
      BY <1>6 DEF Mark, Delete
    <2>2. ASSUME NEW place \in {"list", "again"}, Go(r, place)
          PROVE  Late(req'[r], i) /\ \A x \in Requests \ {r} : req'[x] = req[x]
      BY <1>3, <2>2 DEF Late
    <2> QED
      BY <1>2, <2>1, <2>2
  <1>7. CASE List(r)
    <2>1. req'[r].at = "delete" /\ \A x \in Requests \ {r} : req'[x] = req[x]
      BY <1>1, <1>7 DEF List, Request
    <2> QED
      BY <2>1 DEF Late
  <1>8. CASE Again(r)
    <2>1. CASE req' = [req EXCEPT ![r] = [Idle EXCEPT !.at = "request", !.type = req[r].type]]
      <3>1. req'[r].at = "request" /\ \A x \in Requests \ {r} : req'[x] = req[x]
        BY <1>1, <2>1 DEF Idle
      <3> QED
        BY <3>1 DEF Late
    <2> QED
      BY <1>2, <1>8, <2>1 DEF Again
  <1>9. CASE Create(r) \/ Count(r) \/ Boost(r) \/ Abort(r)
    BY <1>2, <1>9 DEF Create, Count, Boost, Abort
  <1> QED
    BY <1>4, <1>5, <1>6, <1>7, <1>8, <1>9 DEF Step

\* Nobody gives a decided record its attempts back, or decides it anew.
LEMMA StepDecided ==
  ASSUME IInv, NEW i \in Known, Over(i), NEW r \in Requests, Step(r)
  PROVE  Decided(i)'
  <1>1. /\ record \in [Ids -> Record] /\ i \in Ids /\ record[i] \in Record /\ i # created + 1
    BY DEF IInv, Types, Known, Ids
  <1>2. Decided(i)
    BY DEF Over, Decided
  <1>3. ASSUME record'[i] = record[i]
        PROVE  Decided(i)'
    BY <1>2, <1>3 DEF Decided
  <1>4. CASE Create(r)
    <2>1. record'[i] = record[i]
      BY <1>1, <1>4 DEF Create
    <2> QED
      BY <1>3, <2>1
  <1>5. CASE Count(r)
    <2>1. req[r].id # i
      BY <1>5 DEF Count, Over
    <2>2. record'[i] = record[i]
      BY <1>1, <1>5, <2>1 DEF Count
    <2> QED
      BY <1>3, <2>2
  <1>6. CASE WriteStatus(r)
    <2> DEFINE j == req[r].id
               st == Written(req[r].at)
               w == [record[j] EXCEPT !.status = st]
    <2>1. record' = [record EXCEPT ![j] = w] \/ record' = record
      BY <1>6 DEF WriteStatus
    <2>2. st # "PENDING"
      BY DEF Written
    <2> HIDE DEF st
    <2>3. j = i => w.status # "PENDING"
      BY <1>1, <2>2 DEF Record
    <2> HIDE DEF w, j
    <2>4. record'[i] = record[i] \/ record'[i].status # "PENDING"
      BY <1>1, <2>1, <2>3
    <2> QED
      BY <1>3, <2>4 DEF Decided
  <1>7. CASE Mark(r)
    <2>1. record'[i] = record[i] \/ record'[i] = [record[i] EXCEPT !.status = "EXPIRED"]
      BY <1>1, <1>7 DEF Mark
    <2>2. record'[i] = record[i] \/ record'[i].status # "PENDING"
      BY <1>1, <2>1 DEF Record
    <2> QED
      BY <1>3, <2>2 DEF Decided
  <1>8. CASE Delete(r)
    <2>1. record'[i] = record[i] \/ record'[i] = [record[i] EXCEPT !.status = "DELETED"]
      BY <1>1, <1>8 DEF Delete
    <2>2. record'[i] = record[i] \/ record'[i].status # "PENDING"
      BY <1>1, <2>1 DEF Record
    <2> QED
      BY <1>3, <2>2 DEF Decided
  <1>9. CASE Check(r) \/ Boost(r) \/ List(r) \/ Again(r) \/ Abort(r)
    BY <1>3, <1>9 DEF Check, Boost, List, Again, Abort
  <1> QED
    BY <1>4, <1>5, <1>6, <1>7, <1>8, <1>9 DEF Step

LEMMA ExpireOver ==
  ASSUME IInv, NEW i \in Known, Over(i), NEW j \in Known, Expire(j)
  PROVE  Over(i)'
  <1>1. /\ record \in [Ids -> Record] /\ i \in Ids /\ record[i] \in Record
    BY DEF IInv, Types, Known, Ids
  <1>2. record'[i] = record[i] \/ record'[i] = [record[i] EXCEPT !.expired = TRUE]
    BY <1>1 DEF Expire
  <1>3. record'[i].status = record[i].status /\ record'[i].attempts = record[i].attempts
    BY <1>1, <1>2 DEF Record
  <1>4. req' = req
    BY DEF Expire
  <1> QED
    BY <1>3, <1>4 DEF Over

\* Once a record is decided or out of attempts, and no request is left that has
\* read it before, no answer is accepted for it any more.
THEOREM OverStaysOver == Spec => OverLasts
  <1>1. IInv /\ [Next]_vars => [\A i \in Known : Over(i) => Over(i)']_vars
    <2> SUFFICES ASSUME IInv, [Next]_vars, NEW i \in Known, Over(i)
                 PROVE  Over(i)' \/ UNCHANGED vars
      OBVIOUS
    <2>1. ASSUME NEW r \in Requests, Start(r) \/ Step(r)
          PROVE  Over(i)'
      BY <2>1, StartOver, StepPlaces, StepDecided, StaysOver
    <2>2. CASE \E j \in Known : Expire(j)
      BY <2>2, ExpireOver
    <2> QED
      BY <2>1, <2>2 DEF Next
  <1> QED
    BY <1>1, VerificationInvariance, PTL DEF Spec, OverLasts

-----------------------------------------------------------------------------
(* The trust score                                                          *)

\* The records whose code was settled; the places on the way to a boost; and the
\* requests that may still boost for a record already settled.
Settled == {i \in Known : record[i].code /\ record[i].status # "PENDING"}
Claiming == {"read", "accept", "boost"}
Owed == {r \in Requests : req[r].at \in Claiming /\ req[r].id \in Settled}

\* What a request on the way to a boost knows of its record.
Claim(r) ==
  req[r].at \in Claiming => /\ req[r].id \in Known
                            /\ req[r].at = "accept" => record[req[r].id].code
                            /\ req[r].at = "boost" => req[r].id \in Settled

\* Boosts given and boosts still owed are paid for together: each request once for
\* each settled record.
Credit == boosts + Cardinality(Owed) <= Cardinality(Requests) * Cardinality(Settled)

BoostInv == (\A r \in Requests : Claim(r)) /\ Credit

\* Both sets can be counted.
Counts ==
  /\ IsFiniteSet(Owed) /\ IsFiniteSet(Settled)
  /\ Cardinality(Owed) \in Nat /\ Cardinality(Settled) \in Nat
  /\ Cardinality(Requests) \in Nat /\ Cardinality(Owed) <= Cardinality(Requests)

LEMMA CountsFinite == IInv => Counts
  <1> SUFFICES ASSUME IInv PROVE Counts
    OBVIOUS
  <1>1. IsFiniteSet(Known)
    <2>1. created \in Int
      BY DEF IInv, Types
    <2> QED
      BY <2>1, FS_Interval DEF Known
  <1>2. Owed \subseteq Requests /\ Settled \subseteq Known
    BY DEF Owed, Settled
  <1> QED
    BY <1>1, <1>2, FS_Subset, FS_CardinalityType DEF Counts

LEMMA CountsFiniteNext == IInv' => Counts'
  BY CountsFinite, PTL

\* One more settled record pays for one more boost of each request.
LEMMA OneMoreRow ==
  ASSUME NEW n \in Nat, NEW m \in Nat, NEW k \in Nat, m < k
  PROVE  n * m + n <= n * k
  <1>1. n * m + n = n * (m + 1)
    OBVIOUS
  <1>2. PICK d \in Nat : k = (m + 1) + d
    <2>1. k - (m + 1) \in Nat /\ k = (m + 1) + (k - (m + 1))
      OBVIOUS
    <2> QED
      BY <2>1
  <1>3. n * k = n * (m + 1) + n * d
    BY <1>2
  <1>4. n * d \in Nat /\ n * (m + 1) \in Nat
    OBVIOUS
  <1> QED
    BY <1>1, <1>3, <1>4

\* A record keeps its code, and once decided is never to be decided again.
Lasting(i) ==
  /\ i \in Known' /\ record'[i].code = record[i].code
  /\ record[i].status # "PENDING" => record'[i].status # "PENDING"

LEMMA StepLasting ==
  ASSUME IInv, NEW r \in Requests, Step(r), NEW i \in Known
  PROVE  Lasting(i)
  <1>1. /\ record \in [Ids -> Record] /\ i \in Ids /\ record[i] \in Record /\ i # created + 1
        /\ created \in Nat
    BY DEF IInv, Types, Known, Ids
  <1>2. ASSUME UNCHANGED created, record'[i] = record[i]
        PROVE  Lasting(i)
    BY <1>2 DEF Lasting, Known
  <1>3. ASSUME UNCHANGED created, NEW st \in Status \cup {"DELETED"}, st # "PENDING",
               record'[i] = record[i] \/ record'[i] = [record[i] EXCEPT !.status = st]
        PROVE  Lasting(i)
    BY <1>1, <1>3 DEF Lasting, Known, Record
  <1>4. CASE Create(r)
    <2>1. record'[i] = record[i] /\ created' = created + 1
      BY <1>1, <1>4 DEF Create
    <2>2. i \in Known'
      BY <1>1, <2>1 DEF Known
    <2> QED
      BY <2>1, <2>2 DEF Lasting
  <1>5. CASE Count(r)
    <2> DEFINE j == req[r].id
               w == [record[j] EXCEPT !.attempts = req[r].attempts + 1]
    <2>1. UNCHANGED created /\ (record' = [record EXCEPT ![j] = w] \/ record' = record)
      BY <1>5 DEF Count
    <2>2. j = i => w.status = record[i].status /\ w.code = record[i].code
      BY <1>1 DEF Record
    <2> HIDE DEF w, j
    <2>3. record'[i].status = record[i].status /\ record'[i].code = record[i].code
      BY <1>1, <2>1, <2>2
    <2> QED
      BY <2>1, <2>3 DEF Lasting, Known
  <1>6. CASE WriteStatus(r)
    <2> DEFINE j == req[r].id
               st == Written(req[r].at)
               w == [record[j] EXCEPT !.status = st]
    <2>1. UNCHANGED created /\ (record' = [record EXCEPT ![j] = w] \/ record' = record)
      BY <1>6 DEF WriteStatus
    <2>2. st \in Status \cup {"DELETED"} /\ st # "PENDING"
      BY DEF Written, Status
    <2> HIDE DEF st
    <2>3. record'[i] = record[i] \/ record'[i] = [record[i] EXCEPT !.status = st]
      <3>1. CASE j = i
        BY <1>1, <2>1, <3>1
      <3>2. CASE j # i
        <4> HIDE DEF w, j
        <4> QED
          BY <1>1, <2>1, <3>2
      <3> QED
        BY <3>1, <3>2
    <2> QED
      BY <1>3, <2>1, <2>2, <2>3
  <1>7. CASE Mark(r)
    <2>1. record'[i] = record[i] \/ record'[i] = [record[i] EXCEPT !.status = "EXPIRED"]
      BY <1>1, <1>7 DEF Mark
    <2> QED
      BY <1>3, <1>7, <2>1 DEF Mark, Status
  <1>8. CASE Delete(r)
    <2>1. record'[i] = record[i] \/ record'[i] = [record[i] EXCEPT !.status = "DELETED"]
      BY <1>1, <1>8 DEF Delete
    <2> QED
      BY <1>3, <1>8, <2>1 DEF Delete, Status
  <1>9. CASE Check(r) \/ Boost(r) \/ List(r) \/ Again(r) \/ Abort(r)
    BY <1>2, <1>9 DEF Check, Boost, List, Again, Abort
  <1> QED
    BY <1>4, <1>5, <1>6, <1>7, <1>8, <1>9 DEF Step

LEMMA StartQuiet ==
  ASSUME NEW r \in Requests, Start(r)
  PROVE  UNCHANGED <<record, created, boosts>>
  BY DEF Start, StartPhone, StartRequest, StartVerify, StartCancel, StartComplete, StartReVerify

LEMMA NextLasting ==
  ASSUME IInv, Next, NEW i \in Known PROVE Lasting(i)
  <1>1. ASSUME NEW r \in Requests, Start(r)
        PROVE  Lasting(i)
    BY <1>1, StartQuiet DEF Lasting, Known
  <1>2. ASSUME NEW j \in Known, Expire(j)
        PROVE  Lasting(i)
    <2>1. /\ record \in [Ids -> Record] /\ i \in Ids /\ record[i] \in Record
      BY DEF IInv, Types, Known, Ids
    <2>2. record'[i] = record[i] \/ record'[i] = [record[i] EXCEPT !.expired = TRUE]
      BY <1>2, <2>1 DEF Expire
    <2>3. record'[i].status = record[i].status /\ record'[i].code = record[i].code
      BY <2>1, <2>2 DEF Record
    <2> QED
      BY <1>2, <2>3 DEF Lasting, Known, Expire
  <1> QED
    BY <1>1, <1>2, StepLasting DEF Next

\* What is settled stays settled.
LEMMA SettledGrows ==
  ASSUME IInv, Next PROVE Settled \subseteq Settled'
  BY NextLasting DEF Settled, Lasting

\* How a step may bring a request nearer to a boost: it reads a pending record,
\* finds that the record has a code, or decides it.
Nearer(q, n) ==
  \/ n.at \notin Claiming
  \/ /\ n.at = "read" /\ UNCHANGED <<record, created>>
     /\ n.id \in Known /\ record[n.id].status = "PENDING"
  \/ /\ n.at = "accept" /\ q.at = "read" /\ n.id = q.id /\ record[q.id].code
  \/ /\ n.at = "boost" /\ q.at = "accept" /\ n.id = q.id /\ record'[q.id].status = "VERIFIED"

LEMMA StartNearer ==
  ASSUME IInv, NEW r \in Requests, Start(r)
  PROVE  Nearer(req[r], req'[r]) /\ \A x \in Requests \ {r} : req'[x] = req[x]
  <1>1. req \in [Requests -> Request] /\ UNCHANGED <<record, created>>
    BY StartQuiet DEF IInv, Types
  <1>2. ASSUME NEW k, req' = [req EXCEPT ![r] = k], Nearer(req[r], k)
        PROVE  Nearer(req[r], req'[r]) /\ \A x \in Requests \ {r} : req'[x] = req[x]
    BY <1>1, <1>2
  <1>3. ASSUME NEW a \in {"phone", "request", "cancel", "complete", "mark"}, NEW k, k.at = a,
               Begin(r, k)
        PROVE  Nearer(req[r], req'[r]) /\ \A x \in Requests \ {r} : req'[x] = req[x]
    <2>1. Nearer(req[r], k)
      BY <1>3 DEF Nearer, Claiming
    <2> QED
      BY <1>2, <1>3, <2>1 DEF Begin
  <1>4. ASSUME NEW i \in Ids, NEW right \in BOOLEAN, StartVerify(r, i, right)
        PROVE  Nearer(req[r], req'[r]) /\ \A x \in Requests \ {r} : req'[x] = req[x]
    <2> DEFINE k == [Idle EXCEPT !.at = "read", !.id = i, !.attempts = record[i].attempts,
                                 !.right = right]
    <2>1. k.at = "read" /\ k.id = i /\ req' = [req EXCEPT ![r] = k]
      BY <1>4 DEF StartVerify, Begin, Idle
    <2>2. i \in Known /\ record[i].status = "PENDING"
      BY <1>4 DEF StartVerify, Pending, Rows
    <2> HIDE DEF k
    <2>3. Nearer(req[r], k)
      BY <1>1, <2>1, <2>2 DEF Nearer
    <2> QED
      BY <1>2, <2>1, <2>3
  <1>5. CASE StartPhone(r)
    <2> DEFINE k == [Idle EXCEPT !.at = "phone"]
    <2>1. k.at = "phone" /\ Begin(r, k)
      BY <1>5 DEF StartPhone, Idle
    <2> HIDE DEF k
    <2> QED
      BY <1>3, <2>1
  <1>6. ASSUME NEW type \in Type, StartRequest(r, type)
        PROVE  Nearer(req[r], req'[r]) /\ \A x \in Requests \ {r} : req'[x] = req[x]
    <2> DEFINE k == [Idle EXCEPT !.at = "request", !.type = type]
    <2>1. k.at = "request" /\ Begin(r, k)
      BY <1>6 DEF StartRequest, Idle
    <2> HIDE DEF k
    <2> QED
      BY <1>3, <2>1
  <1>7. ASSUME NEW i \in Ids, StartCancel(r, i) \/ StartComplete(r, i)
        PROVE  Nearer(req[r], req'[r]) /\ \A x \in Requests \ {r} : req'[x] = req[x]
    <2>1. PICK a \in {"cancel", "complete"} : Begin(r, [Idle EXCEPT !.at = a, !.id = i])
      BY <1>7 DEF StartCancel, StartComplete
    <2> DEFINE k == [Idle EXCEPT !.at = a, !.id = i]
    <2>2. k.at = a /\ Begin(r, k)
      BY <2>1 DEF Idle
    <2> HIDE DEF k
    <2> QED
      BY <1>3, <2>2
  <1>8. ASSUME NEW i \in Ids, StartReVerify(r, i)
        PROVE  Nearer(req[r], req'[r]) /\ \A x \in Requests \ {r} : req'[x] = req[x]
    <2> DEFINE k == [Idle EXCEPT !.at = "mark", !.type = record[i].type]
    <2>1. k.at = "mark" /\ Begin(r, k)
      BY <1>8 DEF StartReVerify, Idle
    <2> HIDE DEF k
    <2> QED
      BY <1>3, <2>1
  <1> QED
    BY <1>4, <1>5, <1>6, <1>7, <1>8 DEF Start

LEMMA StepNearer ==
  ASSUME IInv, NEW r \in Requests, Step(r)
  PROVE  Nearer(req[r], req'[r]) /\ \A x \in Requests \ {r} : req'[x] = req[x]
  <1>1. req \in [Requests -> Request] /\ req[r] \in Request
    BY DEF IInv, Types
  <1>2. CASE End(r)
    <2>1. req'[r] = Idle /\ \A x \in Requests \ {r} : req'[x] = req[x]
      BY <1>1, <1>2 DEF End
    <2> QED
      BY <2>1, IdleRequest DEF Nearer, Claiming
  <1>3. ASSUME NEW place, Go(r, place)
        PROVE  /\ req'[r].at = place /\ req'[r].id = req[r].id
               /\ \A x \in Requests \ {r} : req'[x] = req[x]
    BY <1>1, <1>3 DEF Go, Request
  <1>4. ASSUME NEW place \in Place \ Claiming, Go(r, place)
        PROVE  Nearer(req[r], req'[r]) /\ \A x \in Requests \ {r} : req'[x] = req[x]
    BY <1>3, <1>4 DEF Nearer
  <1>5. {"expire", "reject", "count", "list", "again"} \subseteq Place \ Claiming
    BY DEF Place, Writes, Claiming
  <1>6. CASE Check(r)
    <2>1. CASE req[r].at = "read" /\ record[req[r].id].code /\ Go(r, "accept")
      BY <1>3, <2>1 DEF Nearer
    <2> QED
      BY <1>2, <1>4, <1>5, <1>6, <2>1 DEF Check
  <1>7. CASE WriteStatus(r)
    <2>1. ASSUME req[r].at = "accept", req[r].id \in Rows, Go(r, "boost")
          PROVE  Nearer(req[r], req'[r]) /\ \A x \in Requests \ {r} : req'[x] = req[x]
      <3> DEFINE i == req[r].id
                 w == [record[i] EXCEPT !.status = "VERIFIED"]
      <3>1. record' = [record EXCEPT ![i] = w]
        BY <1>7, <2>1 DEF WriteStatus, Written
      <3>2. i \in Ids /\ record \in [Ids -> Record] /\ record[i] \in Record
        BY <2>1, RowsKnown DEF IInv, Types
      <3>3. w.status = "VERIFIED"
        BY <3>2 DEF Record
      <3> HIDE DEF w
      <3>4. record'[i].status = "VERIFIED"
        BY <3>1, <3>2, <3>3
      <3> QED
        BY <1>3, <2>1, <3>4 DEF Nearer
    <2> QED
      BY <1>2, <1>7, <2>1 DEF WriteStatus
  <1>8. CASE Mark(r) \/ Delete(r)
    BY <1>2, <1>4, <1>5, <1>8 DEF Mark, Delete
  <1>9. CASE List(r)
    <2>1. req'[r].at = "delete" /\ \A x \in Requests \ {r} : req'[x] = req[x]
      BY <1>1, <1>9 DEF List, Request
    <2> QED
      BY <2>1 DEF Nearer, Claiming
  <1>10. CASE Again(r)
    <2>1. CASE req' = [req EXCEPT ![r] = [Idle EXCEPT !.at = "request", !.type = req[r].type]]
      <3>1. req'[r].at = "request" /\ \A x \in Requests \ {r} : req'[x] = req[x]
        BY <1>1, <2>1 DEF Idle
      <3> QED
        BY <3>1 DEF Nearer, Claiming
    <2> QED
      BY <1>2, <1>10, <2>1 DEF Again
  <1>11. CASE Create(r) \/ Count(r) \/ Boost(r) \/ Abort(r)
    BY <1>2, <1>11 DEF Create, Count, Boost, Abort
  <1> QED
    BY <1>6, <1>7, <1>8, <1>9, <1>10, <1>11 DEF Step

\* What a request knows of its record stays true, and if no record is settled by the
\* step, it owes no boost that it did not owe.
LEMMA NearerClaims ==
  ASSUME IInv, BoostInv, Next, NEW r \in Requests, Nearer(req[r], req'[r]),
         \A x \in Requests \ {r} : req'[x] = req[x]
  PROVE  (\A x \in Requests : Claim(x)') /\ (Settled' = Settled => Owed' \subseteq Owed)
  <1>1. \A i \in Known : Lasting(i)
    BY NextLasting
  <1>2. Settled \subseteq Settled'
    BY SettledGrows
  <1>3. \A x \in Requests \ {r} : Claim(x)'
    BY <1>1, <1>2 DEF BoostInv, Claim, Lasting
  <1>4. Claim(r)'
    BY <1>1, <1>2 DEF BoostInv, Claim, Lasting, Nearer, Claiming, Settled
  <1>5. ASSUME Settled' = Settled, r \in Owed'
        PROVE  r \in Owed
    BY <1>5 DEF Owed, Nearer, Claiming, Settled
  <1> QED
    BY <1>3, <1>4, <1>5 DEF Owed

\* A step that gives no boost keeps within the credit.
LEMMA NoBoost ==
  ASSUME IInv, IInv', BoostInv, Next, UNCHANGED boosts,
         Settled' = Settled => Owed' \subseteq Owed
  PROVE  Credit'
  <1> DEFINE n == Cardinality(Requests)  m == Cardinality(Settled)  k == Cardinality(Settled')
             o == Cardinality(Owed)      p == Cardinality(Owed')
  <1>1. /\ n \in Nat /\ m \in Nat /\ o \in Nat /\ IsFiniteSet(Owed) /\ IsFiniteSet(Settled)
        /\ boosts \in Nat
    BY CountsFinite DEF Counts, IInv, Types
  <1>2. k \in Nat /\ p \in Nat /\ p <= n /\ IsFiniteSet(Owed') /\ IsFiniteSet(Settled')
    BY CountsFiniteNext DEF Counts
  <1>3. boosts + o <= n * m
    BY DEF BoostInv, Credit
  <1>4. CASE Settled' = Settled
    <2>1. p <= o
      BY <1>1, <1>4, FS_Subset
    <2> HIDE DEF n, m, o, p
    <2>2. n * m \in Nat
      BY <1>1
    <2>3. boosts + p <= n * m
      BY <1>1, <1>2, <1>3, <2>1, <2>2
    <2> QED
      BY <1>4, <2>3 DEF Credit, n, m, p
  <1>5. CASE Settled' # Settled
    <2>1. m < k
      BY <1>1, <1>2, <1>5, SettledGrows, FS_Subset
    <2> HIDE DEF n, m, o, p, k
    <2>2. n * m + n <= n * k /\ n * m \in Nat /\ n * k \in Nat
      BY <1>1, <1>2, <2>1, OneMoreRow
    <2>3. boosts + p <= n * k
      BY <1>1, <1>2, <1>3, <2>2
    <2> QED
      BY <2>3 DEF Credit, n, k, p
  <1> QED
    BY <1>4, <1>5

\* A boost was owed, and is owed no more.
LEMMA BoostCredit ==
  ASSUME IInv, BoostInv, NEW r \in Requests, Boost(r)
  PROVE  Credit'
  <1> DEFINE n == Cardinality(Requests)  m == Cardinality(Settled)
             o == Cardinality(Owed)      p == Cardinality(Owed')
  <1>1. /\ n \in Nat /\ m \in Nat /\ o \in Nat /\ IsFiniteSet(Owed) /\ boosts \in Nat
    BY CountsFinite DEF Counts, IInv, Types
  <1>2. r \in Owed
    BY DEF BoostInv, Claim, Boost, Owed, Claiming
  <1>3. Settled' = Settled /\ boosts' = boosts + 1
    BY DEF Boost, Settled, Known
  <1>4. Owed' = Owed \ {r}
    <2>1. req'[r] = Idle /\ \A x \in Requests \ {r} : req'[x] = req[x]
      BY DEF Boost, End, IInv, Types
    <2> QED
      BY <1>3, <2>1, IdleRequest DEF Owed, Claiming
  <1>5. p = o - 1
    BY <1>1, <1>2, <1>4, FS_RemoveElement
  <1>6. boosts + o <= n * m
    BY DEF BoostInv, Credit
  <1> HIDE DEF n, m, o, p
  <1>7. n * m \in Nat
    BY <1>1
  <1>8. boosts' + p <= n * m
    BY <1>1, <1>3, <1>5, <1>6, <1>7
  <1> QED
    BY <1>3, <1>8 DEF Credit, n, m, p

LEMMA InitBoosts == Init => BoostInv
  <1> SUFFICES ASSUME Init PROVE BoostInv
    OBVIOUS
  <1>1. IInv
    BY InitInv
  <1>2. \A r \in Requests : req[r].at \notin Claiming
    BY IdleRequest DEF Init, Claiming
  <1>3. Known = {} /\ boosts = 0
    BY DEF Init, Known
  <1>4. Owed = {} /\ Settled = {}
    BY <1>2, <1>3 DEF Owed, Settled
  <1>5. Cardinality(Owed) = 0 /\ Cardinality(Settled) = 0 /\ Cardinality(Requests) \in Nat
    BY <1>1, <1>4, FS_EmptySet, CountsFinite DEF Counts
  <1>6. Credit
    BY <1>3, <1>5 DEF Credit
  <1> QED
    BY <1>2, <1>6 DEF BoostInv, Claim

LEMMA StepBoosts == IInv /\ IInv' /\ BoostInv /\ [Next]_vars => BoostInv'
  <1> SUFFICES ASSUME IInv, IInv', BoostInv, [Next]_vars PROVE BoostInv'
    OBVIOUS
  <1>1. CASE UNCHANGED vars
    BY <1>1 DEF vars, BoostInv, Claim, Credit, Owed, Settled, Known
  <1>2. ASSUME NEW r \in Requests, Start(r) \/ Step(r), UNCHANGED boosts
        PROVE  BoostInv'
    <2>1. Next /\ Nearer(req[r], req'[r]) /\ \A x \in Requests \ {r} : req'[x] = req[x]
      BY <1>2, StartNearer, StepNearer DEF Next
    <2>2. (\A x \in Requests : Claim(x)') /\ (Settled' = Settled => Owed' \subseteq Owed)
      BY <2>1, NearerClaims
    <2>3. Credit'
      BY <1>2, <2>1, <2>2, NoBoost
    <2> QED
      BY <2>2, <2>3 DEF BoostInv
  <1>3. ASSUME NEW r \in Requests, Boost(r)
        PROVE  BoostInv'
    <2>1. Step(r) /\ Next
      BY <1>3 DEF Step, Next
    <2>2. \A x \in Requests : Claim(x)'
      BY <2>1, StepNearer, NearerClaims
    <2> QED
      BY <1>3, <2>2, BoostCredit DEF BoostInv
  <1>4. ASSUME NEW i \in Known, Expire(i)
        PROVE  BoostInv'
    <2>1. Next /\ UNCHANGED <<created, boosts, req>>
      BY <1>4 DEF Next, Expire
    <2>2. \A j \in Known : Lasting(j)
      BY <2>1, NextLasting
    <2>3. Settled \subseteq Settled'
      BY <2>1, SettledGrows
    <2>4. \A x \in Requests : Claim(x)'
      BY <2>1, <2>2, <2>3 DEF BoostInv, Claim, Lasting
    <2>5. Settled' = Settled => Owed' \subseteq Owed
      BY <2>1 DEF Owed
    <2>6. Credit'
      BY <2>1, <2>5, NoBoost
    <2> QED
      BY <2>4, <2>6 DEF BoostInv
  <1>5. ASSUME NEW r \in Requests, Start(r) \/ Step(r)
        PROVE  BoostInv'
    <2>1. UNCHANGED boosts \/ Boost(r)
      BY <1>5, StartQuiet DEF Step, Create, Check, Count, WriteStatus, Mark, List, Delete, Again,
         Abort
    <2> QED
      BY <1>2, <1>3, <1>5, <2>1
  <1> QED
    BY <1>1, <1>4, <1>5 DEF Next

\* The trust score rises no more often than requests were under way for a record
\* they settled, however many right answers come together.
THEOREM BoostsStayBounded == Spec => []BoostsBounded
  <1>1. Init => BoostInv
    BY InitBoosts
  <1>2. IInv /\ IInv' /\ BoostInv /\ [Next]_vars => BoostInv'
    BY StepBoosts
  <1>3. IInv /\ BoostInv => BoostsBounded
    <2> SUFFICES ASSUME IInv, BoostInv PROVE BoostsBounded
      OBVIOUS
    <2> DEFINE n == Cardinality(Requests) * Cardinality(Settled)  o == Cardinality(Owed)
    <2>1. boosts \in Nat /\ o \in Nat /\ n \in Nat /\ boosts + o <= n
      BY CountsFinite DEF Counts, IInv, Types, BoostInv, Credit
    <2> HIDE DEF n, o
    <2>2. boosts <= n
      BY <2>1
    <2> QED
      BY <2>2 DEF n, BoostsBounded, Settled
  <1> QED
    BY <1>1, <1>2, <1>3, VerificationInvariance, PTL DEF Spec

-----------------------------------------------------------------------------
(* Records last, requests run down                                          *)

\* A record once decided is never waiting for an answer again, and the code sent
\* with it is not taken away, although handlers overwrite each other's decisions.
DecidedLast ==
  [][\A i \in Known : Lasting(i)]_vars

THEOREM DecisionsStand == Spec => DecidedLast
  <1>1. IInv /\ [Next]_vars => [\A i \in Known : Lasting(i)]_vars
    BY NextLasting
  <1> QED
    BY <1>1, VerificationInvariance, PTL DEF Spec, DecidedLast

\* The steps a request has before it at most.
Ahead(at) ==
  CASE at = "mark" -> 5
    [] at = "list" -> 4
    [] at \in {"read", "delete"} -> 3
    [] at \in {"accept", "again"} -> 2
    [] at = "idle" -> 0
    [] OTHER -> 1

\* A step that changes a request under way brings it nearer to its end: reVerify's
\* new request is made once, and no request starts over because its record changed
\* or went away.
RequestsRunDown ==
  [][\A r \in Requests :
       req[r].at # "idle" /\ req'[r] # req[r] => Ahead(req'[r].at) < Ahead(req[r].at)]_vars

\* What a step does to the requests: one of them begins or gets nearer to its end.
Forward(r) ==
  /\ \A x \in Requests \ {r} : req'[x] = req[x]
  /\ req[r].at # "idle" => Ahead(req'[r].at) < Ahead(req[r].at)

LEMMA StepForward ==
  ASSUME IInv, NEW r \in Requests, Step(r) PROVE Forward(r)
  <1>1. req \in [Requests -> Request] /\ req[r] \in Request /\ req[r].at \in Place
    BY DEF IInv, Types, Request
  <1>2. CASE End(r)
    <2>1. req'[r] = Idle /\ \A x \in Requests \ {r} : req'[x] = req[x]
      BY <1>1, <1>2 DEF End
    <2>2. Ahead(req'[r].at) = 0
      BY <2>1, IdleRequest DEF Ahead
    <2>3. req[r].at # "idle" => Ahead(req[r].at) > 0
      BY DEF Ahead
    <2> QED
      BY <2>1, <2>2, <2>3 DEF Forward
  <1>3. ASSUME NEW place, Go(r, place)
        PROVE  req'[r].at = place /\ \A x \in Requests \ {r} : req'[x] = req[x]
    BY <1>1, <1>3 DEF Go, Request
  <1>4. ASSUME NEW place, Go(r, place), Ahead(place) < Ahead(req[r].at)
        PROVE  Forward(r)
    BY <1>3, <1>4 DEF Forward
  <1>5. CASE Check(r)
    <2>1. req[r].at = "read"
      BY <1>5 DEF Check
    <2>2. \A place \in {"expire", "reject", "accept", "count"} :
            Ahead(place) < Ahead(req[r].at)
      BY <2>1 DEF Ahead
    <2> QED
      BY <1>2, <1>4, <1>5, <2>2 DEF Check
  <1>6. CASE WriteStatus(r)
    <2>1. req[r].at = "accept" => Ahead("boost") < Ahead(req[r].at)
      BY DEF Ahead
    <2> QED
      BY <1>2, <1>4, <1>6, <2>1 DEF WriteStatus
  <1>7. CASE Mark(r) \/ Delete(r)
    <2>1. /\ Mark(r) => Go(r, "list") /\ Ahead("list") < Ahead(req[r].at)
          /\ Delete(r) => End(r) \/ (Go(r, "again") /\ Ahead("again") < Ahead(req[r].at))
      BY DEF Mark, Delete, Ahead
    <2> QED
      BY <1>2, <1>4, <1>7, <2>1
  <1>8. CASE List(r)
    <2>1. req'[r].at = "delete" /\ \A x \in Requests \ {r} : req'[x] = req[x]
      BY <1>1, <1>8 DEF List, Request
    <2> QED
      BY <1>8, <2>1 DEF List, Forward, Ahead
  <1>9. CASE Again(r) /\ ~End(r)
    <2>1. req' = [req EXCEPT ![r] = [Idle EXCEPT !.at = "request", !.type = req[r].type]]
      BY <1>9 DEF Again
    <2>2. req'[r].at = "request" /\ \A x \in Requests \ {r} : req'[x] = req[x]
      BY <1>1, <2>1 DEF Idle
    <2> QED
      BY <1>9, <2>2 DEF Again, Forward, Ahead
  <1>10. CASE Create(r) \/ Count(r) \/ Boost(r) \/ Abort(r)
    BY <1>2, <1>10 DEF Create, Count, Boost, Abort
  <1> QED
    BY <1>2, <1>5, <1>6, <1>7, <1>8, <1>9, <1>10 DEF Step

LEMMA StartForward ==
  ASSUME IInv, NEW r \in Requests, Start(r) PROVE Forward(r)
  <1>1. PICK k : Begin(r, k)
    BY DEF Start, StartPhone, StartRequest, StartVerify, StartCancel, StartComplete, StartReVerify
  <1>2. req \in [Requests -> Request] /\ req[r].at = "idle"
    BY <1>1, IdleRequest DEF IInv, Types, Begin
  <1> QED
    BY <1>1, <1>2 DEF Begin, Forward

\* Requests of the verification service end, whatever the others do to the records
\* they have read, once the statements they wait for are answered.
THEOREM RequestsEnd == Spec => RequestsRunDown
  <1>1. ASSUME IInv, Next, NEW r \in Requests, req[r].at # "idle", req'[r] # req[r]
        PROVE  Ahead(req'[r].at) < Ahead(req[r].at)
    <2>1. ASSUME NEW x \in Requests, Start(x) \/ Step(x)
          PROVE  Ahead(req'[r].at) < Ahead(req[r].at)
      BY <1>1, <2>1, StartForward, StepForward DEF Forward
    <2>2. ~ \E j \in Known : Expire(j)
      BY <1>1 DEF Expire
    <2> QED
      BY <1>1, <2>1, <2>2 DEF Next
  <1>2. IInv /\ [Next]_vars =>
          [\A r \in Requests :
             req[r].at # "idle" /\ req'[r] # req[r] => Ahead(req'[r].at) < Ahead(req[r].at)]_vars
    BY <1>1
  <1> QED
    BY <1>2, VerificationInvariance, PTL DEF Spec, RequestsRunDown
=============================================================================
