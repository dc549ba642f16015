-------------------------- MODULE ModerationProofs --------------------------
(***************************************************************************)
(* Proofs about Moderation, for any number of rows, appellants, requests   *)
(* and failures.  The safety properties are not inductive: they rest on    *)
(* what a request in flight remembers, so IInv says what every request may *)
(* rely on when it finally writes.                                         *)
(***************************************************************************)
EXTENDS Moderation, TLAPS

\* A row: an id not yet used is blank and nobody appeals against it; only
\* the AI proposes, and it never proposes a temporary ban.
RowOK(a) ==
  /\ action[a].status = "absent" =>
       /\ action[a] = NoAction
       /\ \A u \in Appellants : appeal[a][u] = "absent"
  /\ action[a].status = "PENDING" => action[a].aiRecommended
  /\ action[a].aiRecommended => action[a].kind # "temporaryBan"

Over(a) == ByModerator(a) => action[a].status \in {"APPEALED", "REVERSED"}

\* A request: what its earlier reads and writes established still holds.
RequestOK(r) ==
  /\ req[r].at \notin {"idle", "lift"} =>
       req[r].action \in Actions /\ Exists(req[r].action)
  /\ req[r].at \in {"approve", "reject"} => action[req[r].action].aiRecommended
  /\ req[r].at \in {"checkAppeal", "insertAppeal", "conflict", "markAppealed",
                    "decide", "reverse", "publishUpheld"} =>
       req[r].appellant \in Appellants
  /\ req[r].at \in {"markAppealed", "decide"} =>
       appeal[req[r].action][req[r].appellant] # "absent"
  /\ req[r].at \in {"reverse", "publishUpheld"} =>
       appeal[req[r].action][req[r].appellant] \in Decided
  /\ req[r].at = "publishUpheld" => Over(req[r].action)
  /\ req[r].at = "lift" =>
       \A a \in req[r].batch : action[a].kind = "temporaryBan" /\ action[a].expired
  /\ req[r].at \notin {"assign", "unassign"}

IInv ==
  /\ TypeOK
  /\ \A a \in Actions : RowOK(a)
  /\ \A r \in Requests : RequestOK(r)
  /\ LiftedIsOver
  /\ ReversedForCause
  /\ TrustUpdateJustified
  /\ OpenAppealSuspends

-----------------------------------------------------------------------------
(* What the updates of the tables and of the requests do, row by row.      *)

\* A request that opens is the only one to change.
LEMMA OpensLemma ==
  ASSUME TypeOK, NEW r \in Requests, NEW w \in Await, NEW a \in Actions \cup {0},
         NEW u \in Appellants \cup {NoOne}, NEW d \in {"none", "upheld", "denied"},
         NEW S \in SUBSET Actions, Opens(r, w, a, u, d, S)
  PROVE  /\ req[r].at = "idle"
         /\ req' \in [Requests -> Request]
         /\ \A q \in Requests \ {r} : req'[q] = req[q]
         /\ req'[r].at = w
         /\ req'[r].action = a
         /\ req'[r].appellant = u
         /\ req'[r].batch = S
  BY DEF Opens, TypeOK, Request

\* A request that moves on keeps what it remembers.
LEMMA GoesToLemma ==
  ASSUME TypeOK, NEW r \in Requests, NEW w \in Await, GoesTo(r, w)
  PROVE  /\ req' \in [Requests -> Request]
         /\ \A q \in Requests \ {r} : req'[q] = req[q]
         /\ req'[r].at = w
         /\ req'[r].action = req[r].action
         /\ req'[r].appellant = req[r].appellant
         /\ req'[r].batch = req[r].batch
<1>1. req' = [req EXCEPT ![r].at = w]
  BY DEF GoesTo
<1>2. req[r] \in Request /\ req \in [Requests -> Request]
  BY DEF TypeOK
<1>3. req'[r] = [req[r] EXCEPT !.at = w]
  BY <1>1, <1>2
<1>4. req'[r] = [at |-> w, action |-> req[r].action, appellant |-> req[r].appellant,
                 decision |-> req[r].decision, batch |-> req[r].batch]
  BY <1>2, <1>3 DEF Request
<1>5. req'[r] \in Request
  BY <1>2, <1>4 DEF Request
<1>6. QED
  BY <1>1, <1>2, <1>4, <1>5

\* A request that ends leaves an idle slot.
LEMMA EndsLemma ==
  ASSUME TypeOK, NEW r \in Requests, Ends(r)
  PROVE  /\ req' \in [Requests -> Request]
         /\ \A q \in Requests \ {r} : req'[q] = req[q]
         /\ req'[r].at = "idle"
  BY DEF Ends, Idle, TypeOK, Request, Await

\* An update of the status leaves every other column alone.
LEMMA SetStatusLemma ==
  ASSUME TypeOK, NEW a \in Actions, NEW s \in ActionStatus, SetStatus(a, s)
  PROVE  /\ action' \in [Actions -> ActionRow]
         /\ \A b \in Actions \ {a} : action'[b] = action[b]
         /\ action'[a].status = s
         /\ action'[a].kind = action[a].kind
         /\ action'[a].aiRecommended = action[a].aiRecommended
         /\ action'[a].expired = action[a].expired
         /\ action'[a].lifted = action[a].lifted
<1>1. action' = [action EXCEPT ![a].status = s]
  BY DEF SetStatus
<1>2. action[a] \in ActionRow /\ action \in [Actions -> ActionRow]
  BY DEF TypeOK
<1>3. action'[a] = [action[a] EXCEPT !.status = s]
  BY <1>1, <1>2
<1>4. action'[a] = [status |-> s, kind |-> action[a].kind,
                    aiRecommended |-> action[a].aiRecommended,
                    expired |-> action[a].expired, lifted |-> action[a].lifted]
  BY <1>2, <1>3 DEF ActionRow
<1>5. action'[a] \in ActionRow
  BY <1>2, <1>4 DEF ActionRow
<1>6. QED
  BY <1>1, <1>2, <1>4, <1>5

\* The clock changes one column of one row.
LEMMA ExpireLemma ==
  ASSUME TypeOK, NEW a \in Actions, Expire(a)
  PROVE  /\ action' \in [Actions -> ActionRow]
         /\ \A b \in Actions \ {a} : action'[b] = action[b]
         /\ action'[a].status = action[a].status
         /\ action'[a].kind = action[a].kind
         /\ action'[a].aiRecommended = action[a].aiRecommended
         /\ action'[a].expired = TRUE
         /\ action'[a].lifted = action[a].lifted
<1>1. action' = [action EXCEPT ![a].expired = TRUE]
  BY DEF Expire
<1>2. action[a] \in ActionRow /\ action \in [Actions -> ActionRow]
  BY DEF TypeOK
<1>3. action'[a] = [action[a] EXCEPT !.expired = TRUE]
  BY <1>1, <1>2
<1>4. action'[a] = [status |-> action[a].status, kind |-> action[a].kind,
                    aiRecommended |-> action[a].aiRecommended,
                    expired |-> TRUE, lifted |-> action[a].lifted]
  BY <1>2, <1>3 DEF ActionRow
<1>5. action'[a] \in ActionRow
  BY <1>2, <1>4 DEF ActionRow
<1>6. QED
  BY <1>1, <1>2, <1>4, <1>5

\* The lift rewrites the rows of its batch and no other.
LEMMA LiftLemma ==
  ASSUME TypeOK, NEW r \in Requests, Lift(r)
  PROVE  /\ action' \in [Actions -> ActionRow]
         /\ \A b \in Actions \ req[r].batch : action'[b] = action[b]
         /\ \A b \in req[r].batch :
              /\ b \in Actions
              /\ action'[b].status = "REVERSED"
              /\ action'[b].kind = action[b].kind
              /\ action'[b].aiRecommended = action[b].aiRecommended
              /\ action'[b].expired = action[b].expired
              /\ action'[b].lifted = TRUE
<1>1. action' = [a \in Actions |->
                   IF a \in req[r].batch
                   THEN [action[a] EXCEPT !.status = "REVERSED", !.lifted = TRUE]
                   ELSE action[a]]
  BY DEF Lift
<1>2. action \in [Actions -> ActionRow] /\ req[r].batch \in SUBSET Actions
  BY DEF TypeOK, Request
<1>3. ASSUME NEW b \in req[r].batch
      PROVE  action'[b] = [status |-> "REVERSED", kind |-> action[b].kind,
                           aiRecommended |-> action[b].aiRecommended,
                           expired |-> action[b].expired, lifted |-> TRUE]
  <2>1. b \in Actions /\ action[b] \in ActionRow
    BY <1>2, <1>3
  <2>2. action'[b] = [action[b] EXCEPT !.status = "REVERSED", !.lifted = TRUE]
    BY <1>1, <1>3, <2>1
  <2>3. QED
    BY <2>1, <2>2 DEF ActionRow
<1>4. \A b \in Actions : action'[b] \in ActionRow
  <2>1. SUFFICES ASSUME NEW b \in Actions PROVE action'[b] \in ActionRow
    OBVIOUS
  <2>2. CASE b \in req[r].batch
    <3>1. action[b] \in ActionRow
      BY <1>2
    <3>2. action'[b] = [status |-> "REVERSED", kind |-> action[b].kind,
                        aiRecommended |-> action[b].aiRecommended,
                        expired |-> action[b].expired, lifted |-> TRUE]
      BY <1>3, <2>2
    <3>3. QED
      BY <3>1, <3>2 DEF ActionRow, ActionStatus
  <2>3. CASE b \notin req[r].batch
    BY <1>1, <1>2, <2>3
  <2>4. QED
    BY <2>2, <2>3
<1>5. action' \in [Actions -> ActionRow]
  BY <1>1, <1>4
<1>6. QED
  BY <1>1, <1>2, <1>3, <1>5

\* An update of one appeal leaves every other appeal alone.
LEMMA SetAppealLemma ==
  ASSUME TypeOK, NEW a \in Actions, NEW u \in Appellants, NEW s \in AppealStatus,
         appeal' = [appeal EXCEPT ![a][u] = s]
  PROVE  /\ appeal' \in [Actions -> [Appellants -> AppealStatus \cup {"absent"}]]
         /\ appeal'[a][u] = s
         /\ \A b \in Actions, v \in Appellants :
              <<b, v>> # <<a, u>> => appeal'[b][v] = appeal[b][v]
  BY DEF TypeOK

-----------------------------------------------------------------------------
(* The steps that leave the tables alone, and those that write a status.   *)

\* A step that only moves request r keeps the invariant if r may rely on
\* what it now stands before, and does not walk away from a marking it owes.
LEMMA RequestStep ==
  ASSUME IInv, NEW r \in Requests,
         req' \in [Requests -> Request],
         \A q \in Requests \ {r} : req'[q] = req[q],
         RequestOK(r)',
         UNCHANGED <<action, appeal, trustUpdated>>,
         failures' \in 0 .. MaxFailures,
         failures' = 0 => failures = 0 /\ req[r].at # "markAppealed"
  PROVE  IInv'
<1>1. TypeOK'
  BY DEF IInv, TypeOK
<1>2. \A a \in Actions : RowOK(a)'
  BY DEF IInv, RowOK
<1>3. \A q \in Requests : RequestOK(q)'
  <2>1. SUFFICES ASSUME NEW q \in Requests, q # r PROVE RequestOK(q)'
    OBVIOUS
  <2>2. req'[q] = req[q] /\ RequestOK(q)
    BY <2>1 DEF IInv
  <2>3. QED
    BY <2>2 DEF RequestOK, Exists, Over, ByModerator
<1>4. LiftedIsOver' /\ ReversedForCause' /\ TrustUpdateJustified'
  BY DEF IInv, LiftedIsOver, ReversedForCause, TrustUpdateJustified, ByModerator, Exists
<1>5. OpenAppealSuspends'
  BY DEF IInv, OpenAppealSuspends, ByModerator, Exists
<1>6. QED
  BY <1>1, <1>2, <1>3, <1>4, <1>5 DEF IInv

\* A status write keeps the invariant if only recommendations are activated
\* or reversed without a ruling.
LEMMA StatusStep ==
  ASSUME IInv, NEW r \in Requests, NEW a \in Actions,
         NEW s \in {"ACTIVE", "APPEALED", "REVERSED"},
         SetStatus(a, s), Exists(a), req[r].action = a,
         s = "ACTIVE" => action[a].aiRecommended,
         s = "REVERSED" => \/ action[a].aiRecommended
                           \/ \E u \in Appellants : appeal[a][u] \in Decided,
         req[r].at = "markAppealed" => s = "APPEALED",
         req' \in [Requests -> Request],
         \A q \in Requests \ {r} : req'[q] = req[q],
         RequestOK(r)',
         UNCHANGED <<appeal, trustUpdated, failures>>
  PROVE  IInv'
<1>a. TypeOK /\ s \in ActionStatus
  BY DEF IInv, ActionStatus
<1>b. /\ action' \in [Actions -> ActionRow]
      /\ \A b \in Actions \ {a} : action'[b] = action[b]
      /\ action'[a].status = s
      /\ action'[a].kind = action[a].kind
      /\ action'[a].aiRecommended = action[a].aiRecommended
      /\ action'[a].expired = action[a].expired
      /\ action'[a].lifted = action[a].lifted
  BY <1>a, SetStatusLemma
<1>1. TypeOK'
  BY <1>b DEF IInv, TypeOK
<1>2. ASSUME NEW b \in Actions PROVE RowOK(b)'
  <2>1. RowOK(b)
    BY DEF IInv
  <2>2. CASE b = a
    BY <1>b, <2>1, <2>2 DEF RowOK
  <2>3. CASE b # a
    BY <1>b, <2>1, <2>3 DEF RowOK, NoAction
  <2>4. QED
    BY <2>2, <2>3
<1>3. ASSUME NEW q \in Requests PROVE RequestOK(q)'
  <2>1. SUFFICES ASSUME q # r PROVE RequestOK(q)'
    OBVIOUS
  <2>2. req'[q] = req[q] /\ RequestOK(q) /\ req[q] \in Request
    BY <2>1 DEF IInv, TypeOK
  <2>3. \A b \in Actions : /\ Exists(b) => Exists(b)'
                           /\ action'[b].aiRecommended = action[b].aiRecommended
                           /\ action'[b].kind = action[b].kind
                           /\ action'[b].expired = action[b].expired
                           /\ Exists(b) /\ Over(b) => Over(b)'
    BY <1>b DEF Exists, Over, ByModerator
  <2>4. QED
    BY <2>2, <2>3 DEF RequestOK, Request
<1>4. LiftedIsOver'
  <2>1. action[a].lifted => action[a].kind = "temporaryBan"
    BY DEF IInv, LiftedIsOver
  <2>2. action[a].aiRecommended => action[a].kind # "temporaryBan"
    BY DEF IInv, RowOK
  <2>3. QED
    BY <1>b, <2>1, <2>2 DEF IInv, LiftedIsOver
<1>5. ReversedForCause'
  BY <1>b DEF IInv, ReversedForCause, ByModerator, Exists
<1>6. TrustUpdateJustified'
  BY <1>b DEF IInv, TypeOK, TrustUpdateJustified, ByModerator, Exists
<1>7. OpenAppealSuspends'
  BY <1>b DEF IInv, OpenAppealSuspends, ByModerator, Exists
<1>8. QED
  BY <1>1, <1>2, <1>3, <1>4, <1>5, <1>6, <1>7 DEF IInv

-----------------------------------------------------------------------------
(* The steps that write a table.                                           *)

\* A new row is not PENDING unless the AI proposes it, and nobody can have
\* appealed against it or hold a request for it.
LEMMA CreateStep ==
  ASSUME IInv, NEW r \in Requests, NEW a \in Actions,
         NEW s \in {"PENDING", "ACTIVE"}, NEW k \in Kind, NEW ai \in BOOLEAN,
         s = "PENDING" => ai, ai => k # "temporaryBan",
         Create(r, a, s, k, ai)
  PROVE  IInv'
<1>a. TypeOK
  BY DEF IInv
<1>b. /\ action' \in [Actions -> ActionRow]
      /\ \A b \in Actions \ {a} : action'[b] = action[b]
      /\ action[a].status = "absent"
      /\ action'[a].status = s
      /\ action'[a].kind = k
      /\ action'[a].aiRecommended = ai
      /\ action'[a].expired = FALSE
      /\ action'[a].lifted = FALSE
  BY <1>a DEF Create, IsNext, Exists, TypeOK, ActionRow, ActionStatus
<1>e. UNCHANGED <<appeal, req, trustUpdated, failures>>
  BY DEF Create
<1>c. \A u \in Appellants : appeal[a][u] = "absent"
  BY <1>b DEF IInv, RowOK
<1>d. action[a].kind # "temporaryBan"
  BY <1>b DEF IInv, RowOK, NoAction
<1>1. TypeOK'
  BY <1>b, <1>e DEF IInv, TypeOK
<1>2. ASSUME NEW b \in Actions PROVE RowOK(b)'
  <2>1. CASE b = a
    BY <1>b, <1>e, <2>1 DEF RowOK
  <2>2. CASE b # a
    BY <1>b, <1>e, <2>2 DEF IInv, RowOK, NoAction
  <2>3. QED
    BY <2>1, <2>2
<1>3. ASSUME NEW q \in Requests PROVE RequestOK(q)'
  <2>1. req'[q] = req[q] /\ RequestOK(q) /\ req[q] \in Request
    BY <1>b, <1>e DEF IInv, TypeOK
  <2>2. \A b \in Actions : Exists(b) => b # a /\ action'[b] = action[b]
    BY <1>b, <1>e DEF Exists
  <2>3. \A b \in Actions : action[b].kind = "temporaryBan" => action'[b] = action[b]
    BY <1>b, <1>e, <1>d
  <2>4. CASE req[q].at = "lift"
    BY <1>b, <1>e, <2>1, <2>3, <2>4 DEF RequestOK, Request
  <2>5. CASE req[q].at \notin {"lift", "idle"}
    BY <1>b, <1>e, <2>1, <2>2, <2>5 DEF RequestOK, Over, ByModerator, Exists
  <2>6. CASE req[q].at = "idle"
    BY <2>1, <2>6 DEF RequestOK
  <2>7. QED
    BY <2>4, <2>5, <2>6
<1>4. LiftedIsOver'
  BY <1>b, <1>e DEF IInv, LiftedIsOver
<1>5. ReversedForCause'
  <2>1. SUFFICES ASSUME NEW b \in Actions, ByModerator(b)', action'[b].status = "REVERSED"
                 PROVE  action'[b].lifted \/ \E u \in Appellants : appeal[b][u] \in Decided
    BY <1>b, <1>e DEF ReversedForCause
  <2>2. b # a
    BY <1>b, <1>e, <2>1
  <2>3. action'[b] = action[b]
    BY <1>b, <1>e, <2>2
  <2>4. QED
    BY <2>1, <2>3 DEF IInv, ReversedForCause, ByModerator, Exists
<1>6. TrustUpdateJustified'
  <2>1. SUFFICES ASSUME NEW t \in trustUpdated
                 PROVE  /\ appeal[t[1]][t[2]] \in Decided
                        /\ ByModerator(t[1])' => action'[t[1]].status \in {"APPEALED", "REVERSED"}
    BY <1>b, <1>e DEF TrustUpdateJustified
  <2>2. t[1] \in Actions /\ t[2] \in Appellants
    BY <1>a DEF TypeOK
  <2>3. appeal[t[1]][t[2]] \in Decided /\ Over(t[1])
    BY DEF IInv, TrustUpdateJustified, Over
  <2>4. t[1] # a
    BY <1>c, <2>2, <2>3 DEF Decided
  <2>5. QED
    BY <1>b, <1>e, <2>2, <2>3, <2>4 DEF Over, ByModerator, Exists
<1>7. OpenAppealSuspends'
  BY <1>b, <1>e, <1>c DEF IInv, OpenAppealSuspends, ByModerator, Exists
<1>8. QED
  BY <1>1, <1>2, <1>3, <1>4, <1>5, <1>6, <1>7 DEF IInv

\* The clock ends no ban and starts no dispute.
LEMMA ExpireStep ==
  ASSUME IInv, NEW a \in Actions, Expire(a)
  PROVE  IInv'
<1>a. TypeOK
  BY DEF IInv
<1>b. /\ action' \in [Actions -> ActionRow]
      /\ \A b \in Actions \ {a} : action'[b] = action[b]
      /\ action'[a].status = action[a].status
      /\ action'[a].kind = action[a].kind
      /\ action'[a].aiRecommended = action[a].aiRecommended
      /\ action'[a].expired = TRUE
      /\ action'[a].lifted = action[a].lifted
  BY <1>a, ExpireLemma
<1>c. Exists(a) /\ UNCHANGED <<appeal, req, trustUpdated, failures>>
  BY DEF Expire
<1>1. TypeOK'
  BY <1>b, <1>c DEF IInv, TypeOK
<1>2. ASSUME NEW b \in Actions PROVE RowOK(b)'
  <2>1. CASE b = a
    BY <1>b, <1>c, <2>1 DEF IInv, RowOK, Exists
  <2>2. CASE b # a
    BY <1>b, <1>c, <2>2 DEF IInv, RowOK, NoAction
  <2>3. QED
    BY <2>1, <2>2
<1>3. ASSUME NEW q \in Requests PROVE RequestOK(q)'
  <2>1. req'[q] = req[q] /\ RequestOK(q) /\ req[q] \in Request
    BY <1>c DEF IInv, TypeOK
  <2>2. \A b \in Actions : /\ action'[b].status = action[b].status
                           /\ action'[b].aiRecommended = action[b].aiRecommended
                           /\ action'[b].kind = action[b].kind
                           /\ action[b].expired => action'[b].expired
    BY <1>b
  <2>3. QED
    BY <1>c, <2>1, <2>2 DEF RequestOK, Request, Over, ByModerator, Exists
<1>4. LiftedIsOver'
  BY <1>b DEF IInv, LiftedIsOver
<1>5. ReversedForCause'
  BY <1>b, <1>c DEF IInv, ReversedForCause, ByModerator, Exists
<1>6. TrustUpdateJustified'
  BY <1>b, <1>c DEF IInv, TypeOK, TrustUpdateJustified, ByModerator, Exists
<1>7. OpenAppealSuspends'
  BY <1>b, <1>c DEF IInv, OpenAppealSuspends, ByModerator, Exists
<1>8. QED
  BY <1>1, <1>2, <1>3, <1>4, <1>5, <1>6, <1>7 DEF IInv

\* The lift touches temporary bans only, which no recommendation is.
LEMMA LiftStep ==
  ASSUME IInv, NEW r \in Requests, Lift(r)
  PROVE  IInv'
<1>a. TypeOK /\ RequestOK(r) /\ req[r].at = "lift"
  BY DEF IInv, Lift
<1>b. /\ action' \in [Actions -> ActionRow]
      /\ \A b \in Actions \ req[r].batch : action'[b] = action[b]
      /\ \A b \in req[r].batch :
           /\ b \in Actions
           /\ action'[b].status = "REVERSED"
           /\ action'[b].kind = action[b].kind
           /\ action'[b].aiRecommended = action[b].aiRecommended
           /\ action'[b].expired = action[b].expired
           /\ action'[b].lifted = TRUE
  BY <1>a, LiftLemma
<1>c. UNCHANGED <<appeal, trustUpdated, failures>> /\ Ends(r)
  BY DEF Lift
<1>d. /\ req' \in [Requests -> Request]
      /\ \A q \in Requests \ {r} : req'[q] = req[q]
      /\ req'[r].at = "idle"
  BY <1>a, <1>c, EndsLemma
<1>e. \A b \in req[r].batch : action[b].kind = "temporaryBan" /\ action[b].expired
  BY <1>a DEF RequestOK
<1>1. TypeOK'
  BY <1>b, <1>c, <1>d DEF IInv, TypeOK
<1>2. ASSUME NEW b \in Actions PROVE RowOK(b)'
  <2>1. CASE b \in req[r].batch
    BY <1>b, <1>c, <2>1 DEF IInv, RowOK
  <2>2. CASE b \notin req[r].batch
    BY <1>b, <1>c, <2>2 DEF IInv, RowOK, NoAction
  <2>3. QED
    BY <2>1, <2>2
<1>3. ASSUME NEW q \in Requests PROVE RequestOK(q)'
  <2>1. CASE q = r
    BY <1>d, <2>1 DEF RequestOK
  <2>2. CASE q # r
    <3>1. req'[q] = req[q] /\ RequestOK(q) /\ req[q] \in Request
      BY <1>d, <2>2 DEF IInv, TypeOK
    <3>2. \A b \in Actions : /\ Exists(b) => Exists(b)'
                             /\ action'[b].aiRecommended = action[b].aiRecommended
                             /\ action'[b].kind = action[b].kind
                             /\ action[b].expired => action'[b].expired
                             /\ Exists(b) /\ Over(b) => Over(b)'
      BY <1>b DEF Exists, Over, ByModerator
    <3>3. QED
      BY <1>c, <3>1, <3>2 DEF RequestOK, Request
  <2>3. QED
    BY <2>1, <2>2
<1>4. LiftedIsOver'
  BY <1>b, <1>e DEF IInv, LiftedIsOver
<1>5. ReversedForCause'
  BY <1>b, <1>c DEF IInv, ReversedForCause, ByModerator, Exists
<1>6. TrustUpdateJustified'
  BY <1>b, <1>c DEF IInv, TypeOK, TrustUpdateJustified, ByModerator, Exists
<1>7. OpenAppealSuspends'
  <2>1. SUFFICES ASSUME failures = 0, NEW b \in Actions, NEW u \in Appellants,
                        ByModerator(b)', appeal[b][u] # "absent", action'[b].status = "ACTIVE"
                 PROVE  \E q \in Requests : req'[q].at = "markAppealed" /\ req'[q].action = b
    BY <1>c DEF OpenAppealSuspends
  <2>2. b \notin req[r].batch
    BY <1>b, <2>1
  <2>3. PICK q \in Requests : req[q].at = "markAppealed" /\ req[q].action = b
    BY <1>b, <2>1, <2>2 DEF IInv, OpenAppealSuspends, ByModerator, Exists
  <2>4. q # r
    BY <1>a, <2>3
  <2>5. QED
    BY <1>d, <2>3, <2>4
<1>8. QED
  BY <1>1, <1>2, <1>3, <1>4, <1>5, <1>6, <1>7 DEF IInv

\* A new appeal obliges its request to mark the action.
LEMMA InsertAppealStep ==
  ASSUME IInv, NEW r \in Requests, InsertAppeal(r)
  PROVE  IInv'
<1> DEFINE a == req[r].action
           u == req[r].appellant
<1>a. /\ TypeOK /\ RequestOK(r) /\ req[r].at = "insertAppeal"
      /\ UNCHANGED <<action, trustUpdated, failures>>
      /\ failures \in 0 .. MaxFailures
  BY DEF IInv, TypeOK, InsertAppeal
<1>b. a \in Actions /\ u \in Appellants /\ Exists(a)
  BY <1>a DEF RequestOK
<1>1. CASE appeal[a][u] # "absent"
  <2>1. GoesTo(r, "conflict") /\ UNCHANGED appeal
    BY <1>1 DEF InsertAppeal
  <2>2. /\ req' \in [Requests -> Request]
        /\ \A q \in Requests \ {r} : req'[q] = req[q]
        /\ req'[r].at = "conflict" /\ req'[r].action = a /\ req'[r].appellant = u
    BY <1>a, <2>1, GoesToLemma DEF Await
  <2>3. RequestOK(r)'
    BY <1>a, <1>b, <2>2 DEF RequestOK, Exists
  <2>4. QED
    BY <1>a, <2>1, <2>2, <2>3, RequestStep
<1>2. CASE appeal[a][u] = "absent"
  <2>1. appeal' = [appeal EXCEPT ![a][u] = "PENDING"] /\ GoesTo(r, "markAppealed")
    BY <1>2 DEF InsertAppeal
  <2>2. /\ req' \in [Requests -> Request]
        /\ \A q \in Requests \ {r} : req'[q] = req[q]
        /\ req'[r].at = "markAppealed" /\ req'[r].action = a /\ req'[r].appellant = u
    BY <1>a, <2>1, GoesToLemma DEF Await
  <2>3. /\ appeal' \in [Actions -> [Appellants -> AppealStatus \cup {"absent"}]]
        /\ appeal'[a][u] = "PENDING"
        /\ \A b \in Actions, v \in Appellants :
             <<b, v>> # <<a, u>> => appeal'[b][v] = appeal[b][v]
    BY <1>a, <1>b, <2>1, SetAppealLemma DEF AppealStatus
  <2>4. \A b \in Actions, v \in Appellants :
          /\ appeal[b][v] # "absent" => appeal'[b][v] = appeal[b][v]
          /\ appeal[b][v] \in Decided => appeal'[b][v] \in Decided
    BY <1>2, <2>3 DEF Decided
  <2>5. TypeOK'
    BY <1>a, <2>2, <2>3 DEF IInv, TypeOK
  <2>6. ASSUME NEW b \in Actions PROVE RowOK(b)'
    BY <1>a, <1>b, <2>3, <2>6 DEF IInv, RowOK, Exists
  <2>7. ASSUME NEW q \in Requests PROVE RequestOK(q)'
    <3>1. CASE q = r
      BY <1>a, <1>b, <2>2, <2>3, <3>1 DEF RequestOK, Exists
    <3>2. CASE q # r
      <4>1. req'[q] = req[q] /\ RequestOK(q)
        BY <2>2, <3>2 DEF IInv
      <4>2. QED
        BY <1>a, <2>4, <4>1 DEF RequestOK, Over, ByModerator, Exists
    <3>3. QED
      BY <3>1, <3>2
  <2>8. LiftedIsOver'
    BY <1>a DEF IInv, LiftedIsOver
  <2>9. ReversedForCause'
    BY <1>a, <2>4 DEF IInv, ReversedForCause, ByModerator, Exists
  <2>10. TrustUpdateJustified'
    BY <1>a, <2>4 DEF IInv, TypeOK, TrustUpdateJustified, ByModerator, Exists
  <2>11. OpenAppealSuspends'
    <3>1. SUFFICES ASSUME failures = 0, NEW b \in Actions, NEW v \in Appellants,
                          ByModerator(b), appeal'[b][v] # "absent", action[b].status = "ACTIVE"
                   PROVE  \E q \in Requests : req'[q].at = "markAppealed" /\ req'[q].action = b
      BY <1>a DEF OpenAppealSuspends, ByModerator, Exists
    <3>2. CASE b = a
      BY <2>2, <3>2
    <3>3. CASE b # a
      <4>1. appeal[b][v] # "absent"
        BY <2>3, <3>1, <3>3
      <4>2. PICK q \in Requests : req[q].at = "markAppealed" /\ req[q].action = b
        BY <3>1, <4>1 DEF IInv, OpenAppealSuspends
      <4>3. q # r
        BY <1>a, <4>2
      <4>4. QED
        BY <2>2, <4>2, <4>3
    <3>4. QED
      BY <3>2, <3>3
  <2>12. QED
    BY <2>5, <2>6, <2>7, <2>8, <2>9, <2>10, <2>11 DEF IInv
<1>3. QED
  BY <1>1, <1>2

\* A ruling decides an appeal that was there.
LEMMA DecideStep ==
  ASSUME IInv, NEW r \in Requests, Decide(r)
  PROVE  IInv'
<1> DEFINE a == req[r].action
           u == req[r].appellant
<1>a. /\ TypeOK /\ RequestOK(r) /\ req[r].at = "decide"
      /\ UNCHANGED <<action, trustUpdated, failures>>
  BY DEF IInv, Decide
<1>b. a \in Actions /\ u \in Appellants /\ Exists(a) /\ appeal[a][u] # "absent"
  BY <1>a DEF RequestOK
<1>1. PICK s \in Decided : appeal' = [appeal EXCEPT ![a][u] = s]
  BY DEF Decide, Decided
<1>2. /\ appeal' \in [Actions -> [Appellants -> AppealStatus \cup {"absent"}]]
      /\ appeal'[a][u] = s
      /\ \A b \in Actions, v \in Appellants :
           <<b, v>> # <<a, u>> => appeal'[b][v] = appeal[b][v]
  <2>1. s \in AppealStatus
    BY DEF AppealStatus, Decided
  <2>2. QED
    BY <1>a, <1>b, <1>1, <2>1, SetAppealLemma
<1>3. /\ req' \in [Requests -> Request]
      /\ \A q \in Requests \ {r} : req'[q] = req[q]
      /\ \/ req'[r].at = "idle"
         \/ req'[r].at = "reverse" /\ req'[r].action = a /\ req'[r].appellant = u
  <2>1. CASE GoesTo(r, "reverse")
    BY <1>a, <2>1, GoesToLemma DEF Await
  <2>2. CASE Ends(r)
    BY <1>a, <2>2, EndsLemma
  <2>3. QED
    BY <2>1, <2>2 DEF Decide
<1>4. \A b \in Actions, v \in Appellants :
        /\ appeal[b][v] # "absent" <=> appeal'[b][v] # "absent"
        /\ appeal[b][v] \in Decided => appeal'[b][v] \in Decided
  BY <1>b, <1>2 DEF Decided
<1>5. TypeOK'
  BY <1>a, <1>2, <1>3 DEF IInv, TypeOK
<1>6. ASSUME NEW b \in Actions PROVE RowOK(b)'
  BY <1>a, <1>4, <1>6 DEF IInv, RowOK, NoAction
<1>7. ASSUME NEW q \in Requests PROVE RequestOK(q)'
  <2>1. CASE q = r
    BY <1>a, <1>b, <1>2, <1>3, <2>1 DEF RequestOK, Exists
  <2>2. CASE q # r
    <3>1. req'[q] = req[q] /\ RequestOK(q)
      BY <1>3, <2>2 DEF IInv
    <3>2. QED
      BY <1>a, <1>4, <3>1 DEF RequestOK, Over, ByModerator, Exists
  <2>3. QED
    BY <2>1, <2>2
<1>8. LiftedIsOver'
  BY <1>a DEF IInv, LiftedIsOver
<1>9. ReversedForCause'
  BY <1>a, <1>4 DEF IInv, ReversedForCause, ByModerator, Exists
<1>10. TrustUpdateJustified'
  BY <1>a, <1>4 DEF IInv, TypeOK, TrustUpdateJustified, ByModerator, Exists
<1>11. OpenAppealSuspends'
  <2>1. SUFFICES ASSUME failures = 0, NEW b \in Actions, NEW v \in Appellants,
                        ByModerator(b), appeal'[b][v] # "absent", action[b].status = "ACTIVE"
                 PROVE  \E q \in Requests : req'[q].at = "markAppealed" /\ req'[q].action = b
    BY <1>a DEF OpenAppealSuspends, ByModerator, Exists
  <2>2. PICK q \in Requests : req[q].at = "markAppealed" /\ req[q].action = b
    BY <1>4, <2>1 DEF IInv, OpenAppealSuspends
  <2>3. q # r
    BY <1>a, <2>2
  <2>4. QED
    BY <1>3, <2>2, <2>3
<1>12. QED
  BY <1>5, <1>6, <1>7, <1>8, <1>9, <1>10, <1>11 DEF IInv

\* The announcement follows the ruling and the reversal.
LEMMA PublishUpheldStep ==
  ASSUME IInv, NEW r \in Requests, PublishUpheld(r)
  PROVE  IInv'
<1>a. /\ TypeOK /\ RequestOK(r) /\ req[r].at = "publishUpheld" /\ Ends(r)
      /\ UNCHANGED <<action, appeal, failures>>
  BY DEF IInv, PublishUpheld
<1>b. /\ req[r].action \in Actions /\ req[r].appellant \in Appellants
      /\ appeal[req[r].action][req[r].appellant] \in Decided /\ Over(req[r].action)
  BY <1>a DEF RequestOK
<1>c. /\ req' \in [Requests -> Request]
      /\ \A q \in Requests \ {r} : req'[q] = req[q]
      /\ req'[r].at = "idle"
  BY <1>a, EndsLemma
<1>1. TypeOK'
  BY <1>a, <1>b, <1>c DEF TypeOK, PublishUpheld
<1>2. ASSUME NEW b \in Actions PROVE RowOK(b)'
  BY <1>a DEF IInv, RowOK
<1>3. ASSUME NEW q \in Requests PROVE RequestOK(q)'
  BY <1>a, <1>c DEF IInv, RequestOK, Over, ByModerator, Exists
<1>4. LiftedIsOver' /\ ReversedForCause'
  BY <1>a DEF IInv, LiftedIsOver, ReversedForCause, ByModerator, Exists
<1>5. TrustUpdateJustified'
  <2>1. \A t \in trustUpdated' :
          t \in trustUpdated \/ t = <<req[r].action, req[r].appellant>>
    BY DEF PublishUpheld
  <2>2. \A t \in trustUpdated : appeal[t[1]][t[2]] \in Decided /\ Over(t[1])
    BY DEF IInv, TrustUpdateJustified, Over
  <2>3. \A t \in trustUpdated' : appeal[t[1]][t[2]] \in Decided /\ Over(t[1])
    BY <1>b, <2>1, <2>2
  <2>4. QED
    BY <1>a, <2>3 DEF TrustUpdateJustified, Over, ByModerator, Exists
<1>6. OpenAppealSuspends'
  BY <1>a, <1>c DEF IInv, OpenAppealSuspends, ByModerator, Exists
<1>7. QED
  BY <1>1, <1>2, <1>3, <1>4, <1>5, <1>6 DEF IInv

-----------------------------------------------------------------------------
(* The inductive invariant.                                                *)

\* A request that opens may rely on nothing it has not just read.
LEMMA OpenStep ==
  ASSUME IInv, NEW r \in Requests, NEW w \in Await, NEW a \in Actions \cup {0},
         NEW u \in Appellants \cup {NoOne}, NEW d \in {"none", "upheld", "denied"},
         NEW S \in SUBSET Actions, Opens(r, w, a, u, d, S), RequestOK(r)',
         UNCHANGED <<action, appeal, trustUpdated, failures>>
  PROVE  IInv'
<1>1. TypeOK /\ failures \in 0 .. MaxFailures
  BY DEF IInv, TypeOK
<1>2. /\ req[r].at = "idle"
      /\ req' \in [Requests -> Request]
      /\ \A q \in Requests \ {r} : req'[q] = req[q]
  BY <1>1, OpensLemma
<1>3. failures' \in 0 .. MaxFailures /\ (failures' = 0 => failures = 0)
  BY <1>1
<1>4. req[r].at # "markAppealed"
  BY <1>2
<1>5. UNCHANGED <<action, appeal, trustUpdated>>
  OBVIOUS
<1>6. QED
  BY <1>2, <1>3, <1>4, <1>5, RequestStep

LEMMA InitInv == Init => IInv
<1> SUFFICES ASSUME Init PROVE IInv
  OBVIOUS
<1>1. TypeOK
  BY ModerationAssumption DEF Init, TypeOK, ActionRow, NoAction, Request, Idle, Await
<1>2. \A a \in Actions : RowOK(a)
  BY DEF Init, RowOK, NoAction
<1>3. \A r \in Requests : RequestOK(r)
  BY DEF Init, RequestOK, Idle
<1>4. LiftedIsOver /\ ReversedForCause /\ TrustUpdateJustified /\ OpenAppealSuspends
  BY DEF Init, NoAction, LiftedIsOver, ReversedForCause, TrustUpdateJustified,
         OpenAppealSuspends, ByModerator, Exists
<1>5. QED
  BY <1>1, <1>2, <1>3, <1>4 DEF IInv

\* Opening a request, or creating an action, keeps the invariant.
LEMMA StartStep ==
  ASSUME IInv, NEW r \in Requests, Start(r)
  PROVE  IInv'
<1>a. TypeOK
  BY DEF IInv
<1>1. CASE StartLift(r)
  <2>1. ExpiredBans \in SUBSET Actions
    BY DEF ExpiredBans
  <2>2. /\ Opens(r, "lift", 0, NoOne, "none", ExpiredBans)
        /\ UNCHANGED <<action, appeal, trustUpdated, failures>>
    BY <1>1 DEF StartLift
  <2>3. req'[r].at = "lift" /\ req'[r].batch = ExpiredBans
    BY <1>a, <2>1, <2>2, OpensLemma DEF Await
  <2>4. RequestOK(r)'
    BY <2>2, <2>3 DEF RequestOK, ExpiredBans
  <2>5. QED
    BY <2>1, <2>2, <2>4, OpenStep DEF Await
<1>2. ASSUME NEW a \in Actions, CreateTemporaryBan(r, a) PROVE IInv'
  <2>1. Create(r, a, "ACTIVE", "temporaryBan", FALSE) /\ "temporaryBan" \in Kind
    BY <1>2 DEF CreateTemporaryBan, Create
  <2>2. QED
    BY <2>1, CreateStep
<1>3. ASSUME NEW a \in Actions, NEW k \in Kind, CreateAction(r, a, k) PROVE IInv'
  BY <1>3, CreateStep DEF CreateAction
<1>4. ASSUME NEW a \in Actions, NEW k \in Kind, SubmitAiRecommendation(r, a, k) PROVE IInv'
  BY <1>4, CreateStep DEF SubmitAiRecommendation
<1>5. ASSUME NEW a \in Actions, NEW w \in {"approve", "reject"},
             action[a].status = "PENDING", Opens(r, w, a, NoOne, "none", {}),
             UNCHANGED <<action, appeal, trustUpdated, failures>>
      PROVE  IInv'
  <2>1. req'[r].at = w /\ req'[r].action = a
    BY <1>a, <1>5, OpensLemma DEF Await
  <2>2. action[a].aiRecommended
    BY <1>5 DEF IInv, RowOK
  <2>3. RequestOK(r)'
    BY <1>5, <2>1, <2>2 DEF RequestOK, Exists
  <2>4. QED
    BY <1>5, <2>3, OpenStep DEF Await
<1>6. ASSUME NEW a \in Actions, NEW u \in Appellants, StartAppeal(r, a, u) PROVE IInv'
  <2>1. /\ Opens(r, "checkAppeal", a, u, "none", {}) /\ Exists(a)
        /\ UNCHANGED <<action, appeal, trustUpdated, failures>>
    BY <1>6 DEF StartAppeal
  <2>2. req'[r].at = "checkAppeal" /\ req'[r].action = a /\ req'[r].appellant = u
    BY <1>a, <2>1, OpensLemma DEF Await
  <2>3. RequestOK(r)'
    BY <2>1, <2>2 DEF RequestOK, Exists
  <2>4. QED
    BY <2>1, <2>3, OpenStep DEF Await
<1>7. ASSUME NEW a \in Actions, NEW u \in Appellants, NEW d \in {"upheld", "denied"},
             StartReview(r, a, u, d)
      PROVE  IInv'
  <2>1. /\ Opens(r, "decide", a, u, d, {}) /\ appeal[a][u] = "PENDING"
        /\ UNCHANGED <<action, appeal, trustUpdated, failures>>
    BY <1>7 DEF StartReview
  <2>2. req'[r].at = "decide" /\ req'[r].action = a /\ req'[r].appellant = u
    BY <1>a, <2>1, OpensLemma DEF Await
  <2>3. Exists(a)
    BY <2>1 DEF IInv, RowOK, Exists
  <2>4. RequestOK(r)'
    BY <2>1, <2>2, <2>3 DEF RequestOK, Exists
  <2>5. QED
    BY <2>1, <2>4, OpenStep DEF Await
<1>8. QED
  BY <1>1, <1>2, <1>3, <1>4, <1>5, <1>6, <1>7 DEF Start, StartApprove, StartReject

\* A status write of a request that ends or moves on.
LEMMA ProceedStep ==
  ASSUME IInv, NEW r \in Requests, Proceed(r)
  PROVE  IInv'
<1> DEFINE a == req[r].action
           u == req[r].appellant
<1>a. TypeOK /\ RequestOK(r) /\ failures \in 0 .. MaxFailures
  BY DEF IInv, TypeOK
<1>b. req[r].at \notin {"idle", "lift"} => a \in Actions /\ Exists(a)
  BY <1>a DEF RequestOK
<1>c. ASSUME Ends(r)
      PROVE  /\ req' \in [Requests -> Request]
             /\ \A q \in Requests \ {r} : req'[q] = req[q]
             /\ RequestOK(r)'
  BY <1>a, <1>c, EndsLemma DEF RequestOK
<1>1. CASE Approve(r)
  <2>1. /\ req[r].at = "approve" /\ SetStatus(a, "ACTIVE") /\ Ends(r)
        /\ UNCHANGED <<appeal, trustUpdated, failures>>
    BY <1>1 DEF Approve
  <2>2. action[a].aiRecommended
    BY <1>a, <2>1 DEF RequestOK
  <2>3. QED
    BY <1>b, <1>c, <2>1, <2>2, StatusStep
<1>2. CASE Reject(r)
  <2>1. /\ req[r].at = "reject" /\ SetStatus(a, "REVERSED") /\ Ends(r)
        /\ UNCHANGED <<appeal, trustUpdated, failures>>
    BY <1>2 DEF Reject
  <2>2. action[a].aiRecommended
    BY <1>a, <2>1 DEF RequestOK
  <2>3. QED
    BY <1>b, <1>c, <2>1, <2>2, StatusStep
<1>3. CASE CheckAppeal(r)
  <2>1. req[r].at = "checkAppeal" /\ UNCHANGED <<action, appeal, trustUpdated, failures>>
    BY <1>3 DEF CheckAppeal
  <2>2. CASE Ends(r)
    BY <1>a, <1>c, <2>1, <2>2, RequestStep
  <2>3. CASE GoesTo(r, "insertAppeal")
    <3>1. /\ req' \in [Requests -> Request]
          /\ \A q \in Requests \ {r} : req'[q] = req[q]
          /\ req'[r].at = "insertAppeal" /\ req'[r].action = a /\ req'[r].appellant = u
      BY <1>a, <2>3, GoesToLemma DEF Await
    <3>2. RequestOK(r)'
      BY <1>a, <2>1, <3>1 DEF RequestOK, Exists
    <3>3. QED
      BY <1>a, <2>1, <3>1, <3>2, RequestStep
  <2>4. QED
    BY <1>3, <2>2, <2>3 DEF CheckAppeal
<1>4. CASE InsertAppeal(r)
  BY <1>4, InsertAppealStep
<1>5. CASE Conflict(r)
  <2>1. /\ req[r].at = "conflict" /\ Ends(r)
        /\ UNCHANGED <<action, appeal, trustUpdated, failures>>
    BY <1>5 DEF Conflict
  <2>2. QED
    BY <1>a, <1>c, <2>1, RequestStep
<1>6. CASE MarkAppealed(r)
  <2>1. /\ req[r].at = "markAppealed" /\ SetStatus(a, "APPEALED") /\ Ends(r)
        /\ UNCHANGED <<appeal, trustUpdated, failures>>
    BY <1>6 DEF MarkAppealed
  <2>2. QED
    BY <1>b, <1>c, <2>1, StatusStep
<1>7. CASE Decide(r)
  BY <1>7, DecideStep
<1>8. CASE Reverse(r)
  <2>1. /\ req[r].at = "reverse" /\ SetStatus(a, "REVERSED") /\ GoesTo(r, "publishUpheld")
        /\ UNCHANGED <<appeal, trustUpdated, failures>>
    BY <1>8 DEF Reverse
  <2>2. u \in Appellants /\ appeal[a][u] \in Decided
    BY <1>a, <2>1 DEF RequestOK
  <2>3. /\ req' \in [Requests -> Request]
        /\ \A q \in Requests \ {r} : req'[q] = req[q]
        /\ req'[r].at = "publishUpheld" /\ req'[r].action = a /\ req'[r].appellant = u
    BY <1>a, <2>1, GoesToLemma DEF Await
  <2>4. action'[a].status = "REVERSED"
    BY <1>a, <1>b, <2>1, SetStatusLemma DEF ActionStatus
  <2>5. RequestOK(r)'
    BY <1>b, <2>1, <2>2, <2>3, <2>4 DEF RequestOK, Exists, Over
  <2>6. QED
    BY <1>b, <2>1, <2>2, <2>3, <2>5, StatusStep
<1>9. CASE PublishUpheld(r)
  BY <1>9, PublishUpheldStep
<1>10. CASE Lift(r)
  BY <1>10, LiftStep
<1>11. QED
  BY <1>1, <1>2, <1>3, <1>4, <1>5, <1>6, <1>7, <1>8, <1>9, <1>10 DEF Proceed

\* A request that dies may owe a marking, but then failures is not 0.
LEMMA FailStep ==
  ASSUME IInv, NEW r \in Requests, Fail(r)
  PROVE  IInv'
<1>1. TypeOK /\ Ends(r) /\ UNCHANGED <<action, appeal, trustUpdated>>
  BY DEF IInv, Fail
<1>2. /\ req' \in [Requests -> Request]
      /\ \A q \in Requests \ {r} : req'[q] = req[q]
      /\ req'[r].at = "idle"
  BY <1>1, EndsLemma
<1>3. RequestOK(r)'
  BY <1>2 DEF RequestOK
<1>4. failures' \in 0 .. MaxFailures /\ failures' # 0
  BY ModerationAssumption DEF IInv, TypeOK, Fail
<1>5. QED
  BY <1>1, <1>2, <1>3, <1>4, RequestStep

LEMMA NextInv == IInv /\ [Next]_vars => IInv'
<1> SUFFICES ASSUME IInv, [Next]_vars PROVE IInv'
  OBVIOUS
<1>1. ASSUME NEW r \in Requests, Start(r) PROVE IInv'
  BY <1>1, StartStep
<1>2. ASSUME NEW r \in Requests, Proceed(r) PROVE IInv'
  BY <1>2, ProceedStep
<1>3. ASSUME NEW r \in Requests, Fail(r) PROVE IInv'
  BY <1>3, FailStep
<1>4. ASSUME NEW a \in Actions, Expire(a) PROVE IInv'
  BY <1>4, ExpireStep
<1>5. CASE UNCHANGED vars
  BY <1>5 DEF vars, IInv, TypeOK, RowOK, RequestOK, Over, LiftedIsOver, ReversedForCause,
              TrustUpdateJustified, OpenAppealSuspends, ByModerator, Exists
<1>6. QED
  BY <1>1, <1>2, <1>3, <1>4, <1>5 DEF Next

-----------------------------------------------------------------------------
(* The theorems.                                                           *)

\* The invariant everything else follows from: what a request remembers at
\* an await is still true when the handler resumes and writes.
THEOREM Invariance == Spec => []IInv
<1>1. QED
  BY InitInv, NextInv, PTL DEF Spec

\* The handlers of ModerationActionsService and the schedule write values of
\* the schema's enums only, and address rows that exist.
THEOREM TypeCorrect == Spec => []TypeOK
<1>1. IInv => TypeOK
  BY DEF IInv
<1>2. QED
  BY <1>1, Invariance, PTL

\* A ban lifted by autoLiftExpiredBans was over and never bites again.
THEOREM LiftedBansAreOver == Spec => []LiftedIsOver
<1>1. IInv => LiftedIsOver
  BY DEF IInv
<1>2. QED
  BY <1>1, Invariance, PTL

\* A moderator's action is reversed by the lift or after a ruling only.
THEOREM ReversalsHaveACause == Spec => []ReversedForCause
<1>1. IInv => ReversedForCause
  BY DEF IInv
<1>2. QED
  BY <1>1, Invariance, PTL

\* reviewAppeal announces an upheld appeal only when the ruling is stored and
\* the moderator's action is out of force, and it stays out of force.
THEOREM AnnouncementsAreJustified == Spec => []TrustUpdateJustified
<1>1. IInv => TrustUpdateJustified
  BY DEF IInv
<1>2. QED
  BY <1>1, Invariance, PTL

\* Without a failure in between, createAppeal suspends the action.
THEOREM AppealsSuspend == Spec => []OpenAppealSuspends
<1>1. IInv => OpenAppealSuspends
  BY DEF IInv
<1>2. QED
  BY <1>1, Invariance, PTL

\* No step of the controller's handlers reopens a ruling.
THEOREM RulingsStand == Spec => RulingStands
<1>1. ASSUME IInv, [Next]_vars, NEW a \in Actions, NEW u \in Appellants,
             appeal[a][u] \in Decided
      PROVE  appeal'[a][u] \in Decided
  <2>1. TypeOK
    BY <1>1 DEF IInv
  <2>2. ASSUME NEW r \in Requests, InsertAppeal(r) PROVE appeal'[a][u] \in Decided
    BY <1>1, <2>1, <2>2 DEF InsertAppeal, TypeOK, Decided
  <2>3. ASSUME NEW r \in Requests, Decide(r) PROVE appeal'[a][u] \in Decided
    BY <1>1, <2>1, <2>3 DEF Decide, TypeOK, Decided
  <2>4. ASSUME NEW r \in Requests, Start(r) PROVE UNCHANGED appeal
    BY <2>4 DEF Start, StartLift, CreateTemporaryBan, CreateAction, SubmitAiRecommendation,
                Create, StartApprove, StartReject, StartAppeal, StartReview
  <2>5. ASSUME NEW r \in Requests, Proceed(r) PROVE appeal'[a][u] \in Decided
    <3>1. CASE UNCHANGED appeal
      BY <1>1, <3>1
    <3>2. CASE InsertAppeal(r) \/ Decide(r)
      BY <2>2, <2>3, <3>2
    <3>3. QED
      BY <2>5, <3>1, <3>2 DEF Proceed, Approve, Reject, CheckAppeal, Conflict, MarkAppealed,
                              Reverse, PublishUpheld, Lift
  <2>6. ASSUME NEW r \in Requests, Fail(r) PROVE UNCHANGED appeal
    BY <2>6 DEF Fail
  <2>7. ASSUME NEW b \in Actions, Expire(b) PROVE UNCHANGED appeal
    BY <2>7 DEF Expire
  <2>8. CASE UNCHANGED vars
    BY <1>1, <2>8 DEF vars
  <2>9. QED
    BY <1>1, <2>4, <2>5, <2>6, <2>7, <2>8 DEF Next
<1>2. IInv /\ [Next]_vars =>
        [\A a \in Actions, u \in Appellants :
           appeal[a][u] \in Decided => appeal'[a][u] \in Decided]_vars
  BY <1>1
<1>3. QED
  BY <1>2, Invariance, PTL DEF Spec, RulingStands

=============================================================================
