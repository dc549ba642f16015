---------------------------- MODULE Verification ----------------------------
(***************************************************************************)
(* One user's verification records, his trust score and the requests about *)
(* them: VerificationService of user-service.  Records of different users  *)
(* never meet: phoneVerified, which requestPhoneVerification looks up for  *)
(* other users, is never set.                                              *)
(*                                                                         *)
(* Every request reads a record, decides, and later writes the row by its  *)
(* id; there is no transaction.  A step is a statement of PostgreSQL and   *)
(* what is computed from its answer, or time passing.  Phone numbers,      *)
(* codes and video uploads are left out: whether the code sent is the      *)
(* right one is an input.                                                  *)
(***************************************************************************)
EXTENDS Naturals, FiniteSets

CONSTANTS
  Requests,     \* requests that may be under way at a time
  MaxAttempts,  \* MAX_OTP_ATTEMPTS: 3
  MaxRecords    \* bound on the records ever created

ASSUME VerificationAssumption ==
  /\ IsFiniteSet(Requests) /\ MaxAttempts \in Nat \ {0} /\ MaxRecords \in Nat

VARIABLES
  record,   \* the records, numbered in the order of createdAt
  created,  \* how many there are or were
  boosts,   \* increments of trustScoreIntegrity; from the first the level is ENHANCED
  req       \* the requests

vars == <<record, created, boosts, req>>

-----------------------------------------------------------------------------
Ids == 1 .. MaxRecords

Type == {"PHONE", "GOVERNMENT_ID", "VIDEO"}
Status == {"PENDING", "VERIFIED", "REJECTED", "EXPIRED"}

\* code: whether it has an otpCode; expired: whether expiresAt has passed.
NoRecord == [type |-> "PHONE", status |-> "NONE", code |-> FALSE, expired |-> FALSE, attempts |-> 0]

NewRecord(type, code) ==
  [type |-> type, status |-> "PENDING", code |-> code, expired |-> FALSE, attempts |-> 0]

Known == 1 .. created

\* The rows of the table, and those of a type still to be decided.
Rows == {i \in Known : record[i].status \in Status}
Pending(type) == {i \in Rows : record[i].type = type /\ record[i].status = "PENDING"}

\* The places of a request, with what it was given or has read.
Writes == {"expire", "reject", "accept", "cancel", "complete"}
Place == Writes \cup {"idle", "phone", "request", "read", "count", "boost",
                      "mark", "list", "delete", "again"}

Idle == [at |-> "idle", type |-> "PHONE", id |-> 0, attempts |-> 0, right |-> FALSE, ids |-> {}]

Begin(r, q) == req[r] = Idle /\ req' = [req EXCEPT ![r] = q]
Go(r, place) == req' = [req EXCEPT ![r] = [@ EXCEPT !.at = place]]
End(r) == req' = [req EXCEPT ![r] = Idle]

Init ==
  /\ record = [i \in Ids |-> NoRecord]
  /\ created = 0
  /\ boosts = 0
  /\ req = [r \in Requests |-> Idle]

-----------------------------------------------------------------------------
(* requestPhoneVerification and requestVerification                         *)

StartPhone(r) ==
  /\ \A i \in Pending("PHONE") : record[i].expired
  /\ Begin(r, [Idle EXCEPT !.at = "phone"])
  /\ UNCHANGED <<record, created, boosts>>

\* findFirst answers any pending record of the type, and an expired one is enough.
Unblocked(type) == Pending(type) = {} \/ \E i \in Pending(type) : record[i].expired

StartRequest(r, type) ==
  /\ Unblocked(type)
  /\ Begin(r, [Idle EXCEPT !.at = "request", !.type = type])
  /\ UNCHANGED <<record, created, boosts>>

Create(r) ==
  /\ req[r].at \in {"phone", "request"} /\ created < MaxRecords
  /\ created' = created + 1
  /\ record' = [record EXCEPT ![created + 1] = NewRecord(req[r].type, req[r].at = "phone")]
  /\ End(r)
  /\ UNCHANGED boosts

\* Codes last 5 minutes and other records 24 hours, so of two records the older one
\* expires first, unless only the younger one has a code.
Expire(i) ==
  /\ ~record[i].expired
  /\ \A j \in 1 .. i - 1 : record[j].expired \/ (record[i].code /\ ~record[j].code)
  /\ record' = [record EXCEPT ![i] = [@ EXCEPT !.expired = TRUE]]
  /\ UNCHANGED <<created, boosts, req>>

-----------------------------------------------------------------------------
(* verifyPhoneOTP                                                           *)

\* Mutant: the record's status is not looked at.
VerifyAny(r, i, right) ==
  /\ i \in Rows /\ record[i].type = "PHONE"
  /\ Begin(r, [Idle EXCEPT !.at = "read", !.id = i, !.attempts = record[i].attempts,
                           !.right = right])
  /\ UNCHANGED <<record, created, boosts>>

StartVerify(r, i, right) ==
  /\ i \in Pending("PHONE")
  /\ Begin(r, [Idle EXCEPT !.at = "read", !.id = i, !.attempts = record[i].attempts,
                           !.right = right])
  /\ UNCHANGED <<record, created, boosts>>

\* Mutant: one attempt more than the limit.
OneMore(n) == n > MaxAttempts

TooMany(n) == n >= MaxAttempts

\* expiresAt is compared with the clock, and the code with its hash, once the
\* record has been read.
Check(r) ==
  LET q == req[r]
  IN  /\ q.at = "read"
      /\ \/ record[q.id].expired /\ Go(r, "expire")
         \/ ~record[q.id].expired /\ TooMany(q.attempts) /\ Go(r, "reject")
         \/ /\ ~record[q.id].expired /\ ~TooMany(q.attempts)
            /\ \/ ~record[q.id].code /\ End(r)
               \/ record[q.id].code /\ Go(r, IF q.right THEN "accept" ELSE "count")
      /\ UNCHANGED <<record, created, boosts>>

\* otpAttempts becomes what was read plus one.  Prisma throws when the row is gone.
Count(r) ==
  LET q == req[r]
  IN  /\ q.at = "count"
      /\ record' = IF q.id \in Rows
                   THEN [record EXCEPT ![q.id] = [@ EXCEPT !.attempts = q.attempts + 1]]
                   ELSE record
      /\ End(r)
      /\ UNCHANGED <<created, boosts>>

Boost(r) ==
  /\ req[r].at = "boost"
  /\ boosts' = boosts + 1
  /\ End(r)
  /\ UNCHANGED <<record, created>>

-----------------------------------------------------------------------------
(* cancelVerification and completeVerification                              *)

StartCancel(r, i) ==
  /\ i \in Rows /\ record[i].status = "PENDING"
  /\ Begin(r, [Idle EXCEPT !.at = "cancel", !.id = i])
  /\ UNCHANGED <<record, created, boosts>>

\* Mutant: there is no check that the record exists.
CompleteUnknown(r, i) ==
  /\ Begin(r, [Idle EXCEPT !.at = "complete", !.id = i])
  /\ UNCHANGED <<record, created, boosts>>

StartComplete(r, i) ==
  /\ i \in Rows
  /\ Begin(r, [Idle EXCEPT !.at = "complete", !.id = i])
  /\ UNCHANGED <<record, created, boosts>>

\* What each write makes of the record, whatever it has become since it was read.
Written(place) ==
  CASE place = "expire" -> "EXPIRED"
    [] place \in {"reject", "cancel"} -> "REJECTED"
    [] OTHER -> "VERIFIED"

WriteStatus(r) ==
  LET q == req[r]
  IN  /\ q.at \in Writes
      /\ IF q.id \in Rows
         THEN /\ record' = [record EXCEPT ![q.id] = [@ EXCEPT !.status = Written(q.at)]]
              /\ IF q.at = "accept" THEN Go(r, "boost") ELSE End(r)
         ELSE End(r) /\ UNCHANGED record
      /\ UNCHANGED <<created, boosts>>

-----------------------------------------------------------------------------
(* reVerify                                                                 *)

StartReVerify(r, i) ==
  /\ i \in Rows
  /\ Begin(r, [Idle EXCEPT !.at = "mark", !.type = record[i].type])
  /\ UNCHANGED <<record, created, boosts>>

\* markExpiredVerifications, one statement for all types
Mark(r) ==
  /\ req[r].at = "mark"
  /\ record' = [i \in Ids |-> IF record[i].status = "PENDING" /\ record[i].expired
                              THEN [record[i] EXCEPT !.status = "EXPIRED"] ELSE record[i]]
  /\ Go(r, "list")
  /\ UNCHANGED <<created, boosts>>

\* Mutant: the newest one is kept instead of the oldest.
AllButNewest(S) == {i \in S : \E j \in S : j > i}

AllButOldest(S) == {i \in S : \E j \in S : j < i}

Old(type) ==
  {i \in Rows : record[i].type = type /\ record[i].status \in {"EXPIRED", "REJECTED"}}

List(r) ==
  /\ req[r].at = "list"
  /\ req' = [req EXCEPT ![r] = [@ EXCEPT !.at = "delete", !.ids = AllButOldest(Old(req[r].type))]]
  /\ UNCHANGED <<record, created, boosts>>

\* The new request comes without the number or the challenge its type needs, and
\* is refused unless it is for a government ID.
Delete(r) ==
  /\ req[r].at = "delete"
  /\ record' = [i \in Ids |-> IF i \in req[r].ids \cap Rows
                              THEN [record[i] EXCEPT !.status = "DELETED"] ELSE record[i]]
  /\ IF req[r].type = "GOVERNMENT_ID" THEN Go(r, "again") ELSE End(r)
  /\ UNCHANGED <<created, boosts>>

Again(r) ==
  /\ req[r].at = "again"
  /\ IF Unblocked(req[r].type)
     THEN req' = [req EXCEPT ![r] = [Idle EXCEPT !.at = "request", !.type = req[r].type]]
     ELSE End(r)
  /\ UNCHANGED <<record, created, boosts>>

-----------------------------------------------------------------------------
\* An error of the database, or a crash: what is written stays.
Abort(r) ==
  /\ req[r].at # "idle"
  /\ End(r)
  /\ UNCHANGED <<record, created, boosts>>

Start(r) ==
  \/ StartPhone(r)
  \/ \E type \in Type : StartRequest(r, type)
  \/ \E i \in Ids :
       \/ \E right \in BOOLEAN : StartVerify(r, i, right)
       \/ StartCancel(r, i) \/ StartComplete(r, i) \/ StartReVerify(r, i)

Step(r) ==
  \/ Create(r) \/ Check(r) \/ Count(r) \/ Boost(r) \/ WriteStatus(r)
  \/ Mark(r) \/ List(r) \/ Delete(r) \/ Again(r) \/ Abort(r)

Next ==
  \/ \E r \in Requests : Start(r) \/ Step(r)
  \/ \E i \in Known : Expire(i)

Spec == Init /\ [][Next]_vars

-----------------------------------------------------------------------------
(* Properties                                                               *)

\* The variables have their types.
TypeOK ==
  /\ record \in [Ids -> [type : Type, status : Status \cup {"NONE", "DELETED"}, code : BOOLEAN,
                         expired : BOOLEAN, attempts : Nat]]
  /\ created \in 0 .. MaxRecords
  /\ boosts \in Nat
  /\ req \in [Requests -> [at : Place, type : Type, id : 0 .. created, attempts : Nat,
                           right : BOOLEAN, ids : SUBSET Known]]
  /\ \A i \in Ids : record[i].status = "NONE" <=> i > created

\* Wrong codes that come together overwrite each other's count, but never push it
\* past the limit.
AttemptsBounded == \A i \in Known : record[i].attempts <= MaxAttempts

\* The oldest record of a type is kept for the audit trail, whatever requests to
\* verify again delete next to each other.
OldestKept ==
  \A i \in Known :
    record[i].status = "DELETED" => \E j \in 1 .. i - 1 : record[j].type = record[i].type

\* Several right answers that come together may each raise the trust score, but no
\* more often than requests were under way, and only for a record they settled.
BoostsBounded ==
  boosts <= Cardinality(Requests) *
            Cardinality({i \in Known : record[i].code /\ record[i].status # "PENDING"})

\* A record is over once it is decided, or its attempts are used up, and no request
\* is left that has read it before: no answer is accepted for it any more, and its
\* attempts are not given back.
Over(i) ==
  /\ record[i].status # "PENDING" \/ TooMany(record[i].attempts)
  /\ \A r \in Requests :
       req[r].id = i => /\ req[r].at \notin {"accept", "count", "boost"}
                        /\ req[r].at = "read" => TooMany(req[r].attempts)

OverLasts == [][\A i \in Known : Over(i) => Over(i)']_vars

=============================================================================
