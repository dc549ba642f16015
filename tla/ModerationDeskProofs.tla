------------------------- MODULE ModerationDeskProofs -------------------------
(***************************************************************************)
(* Proofs about ModerationDesk, the whole service layer of the moderation  *)
(* service.  An assignment or a verdict that is out of date can undo what  *)
(* IInv says of rulings, so the invariant here says less: rows a request   *)
(* knows stay, appeals are never withdrawn, and a moderator's action that  *)
(* is out of force stays out of force.  That is enough for what was        *)
(* announced, and for the enforcement contract.                            *)
(***************************************************************************)
EXTENDS ModerationDesk, ModerationRefinement

\* Whoever is about to announce a ruling has ended the action.
Announcing(r) == req[r].at = "publishUpheld" => Over(req[r].action)

DeskInv ==
  /\ Grounded
  /\ \A r \in Requests : Announcing(r)
  /\ \A t \in trustUpdated : Exists(t[1])
  /\ AnnouncedIsOver

-----------------------------------------------------------------------------
(* Steps in general                                                        *)

\* What no step does: take a row or an appeal back, change what a row is, or put
\* a moderator's action into force again.
RowsLast ==
  /\ \A a \in Actions :
       Exists(a) => /\ Exists(a)'
                    /\ action'[a].aiRecommended = action[a].aiRecommended
                    /\ Over(a) => Over(a)'
  /\ \A a \in Actions :
       action[a].kind = "temporaryBan" => /\ action'[a].kind = "temporaryBan"
                                          /\ action[a].expired => action'[a].expired
  /\ \A a \in Actions, u \in Appellants :
       appeal[a][u] # "absent" => appeal'[a][u] # "absent"

\* What a request has read stays true.
LEMMA ReadsLast ==
  ASSUME Grounded, RowsLast, NEW q \in Requests, req'[q] = req[q]
  PROVE  ReadsOK(q)'
<1>1. ReadsOK(q) /\ req[q] \in Request
  BY DEF Grounded, TypeOK
<1>2. CASE req[q].at = "idle"
  BY <1>1, <1>2 DEF ReadsOK, Disputing, Appealing
<1>3. CASE req[q].at = "lift"
  BY <1>1, <1>3 DEF ReadsOK, RowsLast, Request, Disputing, Appealing
<1>4. CASE req[q].at \notin {"idle", "lift"}
  <2>1. /\ req[q].action \in Actions /\ Exists(req[q].action)
        /\ Exists(req[q].action)'
        /\ action'[req[q].action].aiRecommended = action[req[q].action].aiRecommended
    BY <1>1, <1>4 DEF ReadsOK, RowsLast
  <2>2. Appealing \subseteq Disputing
    BY DEF Appealing, Disputing
  <2>3. req[q].at \in Appealing => appeal'[req[q].action][req[q].appellant] # "absent"
    BY <1>1, <2>1, <2>2 DEF ReadsOK, RowsLast
  <2>4. QED
    BY <1>1, <1>4, <2>1, <2>3 DEF ReadsOK, Exists
<1>5. QED
  BY <1>2, <1>3, <1>4

\* Such a step keeps the invariant if the requests that move may rely on what they
\* stand before, and nothing is announced that is not over.
LEMMA DeskStep ==
  ASSUME DeskInv, TypeOK', \A a \in Actions : RowOK(a)', RowsLast,
         \A q \in Requests :
           \/ req'[q] = req[q]
           \/ ReadsOK(q)' /\ Announcing(q)',
         \A t \in trustUpdated' : t \in trustUpdated \/ (Exists(t[1])' /\ Over(t[1])')
  PROVE  DeskInv'
<1>1. \A q \in Requests : ReadsOK(q)'
  BY ReadsLast DEF DeskInv
<1>2. ASSUME NEW q \in Requests PROVE Announcing(q)'
  <2>1. CASE req'[q] = req[q] /\ req[q].at = "publishUpheld"
    <3>1. ReadsOK(q) /\ Over(req[q].action)
      BY <2>1 DEF DeskInv, Grounded, Announcing
    <3>2. PICK a \in Actions : a = req[q].action /\ Exists(a)
      BY <2>1, <3>1 DEF ReadsOK
    <3>3. Over(a)'
      BY <3>1, <3>2 DEF RowsLast
    <3>4. QED
      BY <2>1, <3>2, <3>3 DEF Announcing, Over, ByModerator, Exists
  <2>2. CASE req'[q] = req[q] /\ req[q].at # "publishUpheld"
    BY <2>2 DEF Announcing
  <2>3. QED
    BY <2>1, <2>2
<1>3. ASSUME NEW t \in trustUpdated' PROVE Exists(t[1])' /\ Over(t[1])'
  <2>1. CASE t \in trustUpdated
    <3>1. t[1] \in Actions /\ Exists(t[1])
      BY <2>1 DEF DeskInv, Grounded, TypeOK
    <3>2. Over(t[1])
      BY <2>1 DEF DeskInv, AnnouncedIsOver, Over
    <3>3. QED
      BY <3>1, <3>2 DEF RowsLast
  <2>2. QED
    BY <1>3, <2>1
<1>4. AnnouncedIsOver'
  BY <1>3 DEF AnnouncedIsOver, Over
<1>5. QED
  BY <1>1, <1>2, <1>3, <1>4 DEF DeskInv, Grounded

\* A step that changes neither table, and announces nothing.
LEMMA DeskQuiet ==
  ASSUME DeskInv, NEW r \in Requests, UNCHANGED <<action, appeal, trustUpdated>>,
         req' \in [Requests -> Request], \A q \in Requests \ {r} : req'[q] = req[q],
         ReadsOK(r)', Announcing(r)',
         failures' \in 0 .. MaxFailures
  PROVE  DeskInv'
<1>1. TypeOK' /\ \A a \in Actions : RowOK(a)'
  BY DEF DeskInv, Grounded, TypeOK, RowOK
<1>2. RowsLast
  BY DEF RowsLast, Exists, Over, ByModerator
<1>3. QED
  BY <1>1, <1>2, DeskStep

\* An update of a status keeps the rows; only a recommendation comes into force.
LEMMA StatusKeeps ==
  ASSUME Grounded, NEW a \in Actions, NEW s \in {"ACTIVE", "APPEALED", "REVERSED"},
         SetStatus(a, s), Exists(a), s = "ACTIVE" => action[a].aiRecommended,
         UNCHANGED appeal
  PROVE  /\ action' \in [Actions -> ActionRow]
         /\ action'[a].status = s
         /\ \A b \in Actions : RowOK(b)'
         /\ RowsLast
<1>1. TypeOK /\ s \in ActionStatus
  BY DEF Grounded, ActionStatus
<1>2. /\ action' \in [Actions -> ActionRow]
      /\ \A b \in Actions \ {a} : action'[b] = action[b]
      /\ action'[a].status = s
      /\ action'[a].kind = action[a].kind
      /\ action'[a].aiRecommended = action[a].aiRecommended
      /\ action'[a].expired = action[a].expired
  BY <1>1, SetStatusLemma
<1>3. ASSUME NEW b \in Actions PROVE RowOK(b)'
  <2>1. RowOK(b)
    BY DEF Grounded
  <2>2. CASE b = a
    BY <1>2, <2>1, <2>2 DEF RowOK
  <2>3. CASE b # a
    BY <1>2, <2>1, <2>3 DEF RowOK, NoAction
  <2>4. QED
    BY <2>2, <2>3
<1>4. RowsLast
  BY <1>2 DEF RowsLast, Exists, Over, ByModerator
<1>5. QED
  BY <1>2, <1>3, <1>4

\* So does an update of an appeal, of one that may be new.
LEMMA AppealKeeps ==
  ASSUME Grounded, NEW a \in Actions, NEW u \in Appellants, NEW s \in AppealStatus,
         Exists(a), appeal' = [appeal EXCEPT ![a][u] = s], UNCHANGED action
  PROVE  /\ appeal' \in [Actions -> [Appellants -> AppealStatus \cup {"absent"}]]
         /\ appeal'[a][u] # "absent"
         /\ \A b \in Actions : RowOK(b)'
         /\ RowsLast
<1>1. TypeOK /\ s # "absent"
  BY DEF Grounded, AppealStatus
<1>2. /\ appeal' \in [Actions -> [Appellants -> AppealStatus \cup {"absent"}]]
      /\ appeal'[a][u] = s
      /\ \A b \in Actions, v \in Appellants :
           <<b, v>> # <<a, u>> => appeal'[b][v] = appeal[b][v]
  BY <1>1, SetAppealLemma
<1>3. ASSUME NEW b \in Actions PROVE RowOK(b)'
  BY <1>2, <1>3 DEF Grounded, RowOK, Exists, NoAction
<1>4. RowsLast
  BY <1>1, <1>2 DEF RowsLast, Exists, Over, ByModerator
<1>5. QED
  BY <1>1, <1>2, <1>3, <1>4

-----------------------------------------------------------------------------
(* The steps of requests                                                   *)

\* A request that opens has just read what it relies on.
LEMMA DeskOpen ==
  ASSUME DeskInv, NEW r \in Requests, NEW w \in Await \ {"publishUpheld"},
         NEW a \in Actions \cup {0}, NEW u \in Appellants \cup {NoOne},
         NEW d \in {"none", "upheld", "denied"}, NEW S \in SUBSET Actions,
         Opens(r, w, a, u, d, S), ReadsOK(r)',
         UNCHANGED <<action, appeal, trustUpdated, failures>>
  PROVE  DeskInv'
<1>1. TypeOK /\ failures' \in 0 .. MaxFailures
  BY DEF DeskInv, Grounded, TypeOK
<1>2. /\ req' \in [Requests -> Request] /\ req'[r].at = w
      /\ \A q \in Requests \ {r} : req'[q] = req[q]
  BY <1>1, OpensLemma
<1>3. QED
  BY <1>1, <1>2, DeskQuiet DEF Announcing

\* A new row is nobody's yet.
LEMMA DeskCreate ==
  ASSUME DeskInv, NEW r \in Requests, NEW a \in Actions,
         NEW s \in {"PENDING", "ACTIVE"}, NEW k \in Kind, NEW ai \in BOOLEAN,
         s = "PENDING" => ai, ai => k # "temporaryBan",
         Create(r, a, s, k, ai)
  PROVE  DeskInv'
<1>1. TypeOK
  BY DEF DeskInv, Grounded
<1>2. /\ action' \in [Actions -> ActionRow]
      /\ \A b \in Actions \ {a} : action'[b] = action[b]
      /\ action[a].status = "absent"
      /\ action'[a].status = s
      /\ action'[a].kind = k
      /\ action'[a].aiRecommended = ai
  BY <1>1 DEF Create, IsNext, Exists, TypeOK, ActionRow, ActionStatus
<1>3. UNCHANGED <<appeal, req, trustUpdated, failures>>
  BY DEF Create
<1>4. action[a].kind # "temporaryBan"
  BY <1>2 DEF DeskInv, Grounded, RowOK, NoAction
<1>5. TypeOK'
  BY <1>1, <1>2, <1>3 DEF TypeOK
<1>6. ASSUME NEW b \in Actions PROVE RowOK(b)'
  <2>1. CASE b = a
    BY <1>2, <1>3, <2>1 DEF RowOK
  <2>2. CASE b # a
    BY <1>2, <1>3, <2>2 DEF DeskInv, Grounded, RowOK, NoAction
  <2>3. QED
    BY <2>1, <2>2
<1>7. RowsLast
  BY <1>2, <1>3, <1>4 DEF RowsLast, Exists, Over, ByModerator
<1>8. QED
  BY <1>3, <1>5, <1>6, <1>7, DeskStep

\* Opening a request of the controller's or of the desk's handlers.
LEMMA DeskStart ==
  ASSUME DeskInv, NEW r \in Requests, Start(r) \/ StartDesk(r)
  PROVE  DeskInv'
<1>a. TypeOK
  BY DEF DeskInv, Grounded
<1>1. CASE StartLift(r)
  <2>1. /\ Opens(r, "lift", 0, NoOne, "none", ExpiredBans)
        /\ UNCHANGED <<action, appeal, trustUpdated, failures>>
        /\ ExpiredBans \in SUBSET Actions
    BY <1>1 DEF StartLift, ExpiredBans
  <2>2. req'[r].at = "lift" /\ req'[r].batch = ExpiredBans
    BY <1>a, <2>1, OpensLemma DEF Await
  <2>3. ReadsOK(r)'
    BY <2>1, <2>2 DEF ReadsOK, ExpiredBans, Disputing, Appealing
  <2>4. QED
    BY <2>1, <2>3, DeskOpen DEF Await
<1>2. ASSUME NEW a \in Actions, CreateTemporaryBan(r, a) PROVE DeskInv'
  <2>1. Create(r, a, "ACTIVE", "temporaryBan", FALSE) /\ "temporaryBan" \in Kind
    BY <1>2 DEF CreateTemporaryBan, Create
  <2>2. QED
    BY <2>1, DeskCreate
<1>3. ASSUME NEW a \in Actions, NEW k \in Kind,
             CreateAction(r, a, k) \/ SubmitAiRecommendation(r, a, k)
      PROVE  DeskInv'
  BY <1>3, DeskCreate DEF CreateAction, SubmitAiRecommendation
<1>4. ASSUME NEW a \in Actions, NEW w \in {"approve", "reject"},
             action[a].status = "PENDING", Opens(r, w, a, NoOne, "none", {}),
             UNCHANGED <<action, appeal, trustUpdated, failures>>
      PROVE  DeskInv'
  <2>1. req'[r].at = w /\ req'[r].action = a
    BY <1>a, <1>4, OpensLemma DEF Await
  <2>2. action[a].aiRecommended
    BY <1>4 DEF DeskInv, Grounded, RowOK
  <2>3. ReadsOK(r)'
    BY <1>4, <2>1, <2>2 DEF ReadsOK, Exists, Disputing, Appealing
  <2>4. w \in Await \ {"publishUpheld"} /\ "none" \in {"none", "upheld", "denied"}
    BY DEF Await
  <2>5. QED
    BY <1>4, <2>3, <2>4, DeskOpen
<1>5. ASSUME NEW a \in Actions, NEW u \in Appellants, StartAppeal(r, a, u)
      PROVE  DeskInv'
  <2>1. /\ Opens(r, "checkAppeal", a, u, "none", {}) /\ Exists(a)
        /\ UNCHANGED <<action, appeal, trustUpdated, failures>>
    BY <1>5 DEF StartAppeal
  <2>2. req'[r].at = "checkAppeal" /\ req'[r].action = a /\ req'[r].appellant = u
    BY <1>a, <2>1, OpensLemma DEF Await
  <2>3. ReadsOK(r)'
    BY <2>1, <2>2 DEF ReadsOK, Exists, Disputing, Appealing
  <2>4. QED
    BY <2>1, <2>3, DeskOpen DEF Await
<1>6. ASSUME NEW a \in Actions, NEW u \in Appellants,
             NEW w \in {"decide", "assign", "unassign"}, NEW d \in {"none", "upheld", "denied"},
             appeal[a][u] # "absent", Opens(r, w, a, u, d, {}),
             UNCHANGED <<action, appeal, trustUpdated, failures>>
      PROVE  DeskInv'
  <2>1. req'[r].at = w /\ req'[r].action = a /\ req'[r].appellant = u
    BY <1>a, <1>6, OpensLemma DEF Await
  <2>2. Exists(a)
    BY <1>6 DEF DeskInv, Grounded, RowOK, Exists
  <2>3. ReadsOK(r)'
    BY <1>6, <2>1, <2>2 DEF ReadsOK, Exists, Disputing, Appealing
  <2>4. QED
    BY <1>6, <2>3, DeskOpen DEF Await
<1>7. CASE Start(r)
  BY <1>1, <1>2, <1>3, <1>4, <1>5, <1>6, <1>7
     DEF Start, StartApprove, StartReject, StartReview
<1>8. CASE StartDesk(r)
  BY <1>6, <1>8 DEF StartDesk, StartAssign, StartUnassign, StartDeskReview, FindAppeal
<1>9. QED
  BY <1>7, <1>8

\* A request writes a status, and ends or goes on to announce what is over.
LEMMA DeskStatus ==
  ASSUME DeskInv, NEW r \in Requests, NEW s \in {"ACTIVE", "APPEALED", "REVERSED"},
         SetStatus(req[r].action, s), req[r].at \notin {"idle", "lift"},
         s = "ACTIVE" => req[r].at = "approve",
         \/ Ends(r)
         \/ s = "REVERSED" /\ req[r].at = "reverse" /\ GoesTo(r, "publishUpheld"),
         UNCHANGED <<appeal, trustUpdated, failures>>
  PROVE  DeskInv'
<1>1. Grounded /\ TypeOK /\ ReadsOK(r) /\ failures \in 0 .. MaxFailures
  BY DEF DeskInv, Grounded, TypeOK
<1>2. PICK a \in Actions : a = req[r].action /\ Exists(a)
  BY <1>1 DEF ReadsOK
<1>3. s = "ACTIVE" => action[a].aiRecommended
  BY <1>1, <1>2 DEF ReadsOK
<1>4. /\ action' \in [Actions -> ActionRow] /\ action'[a].status = s
      /\ \A b \in Actions : RowOK(b)'
      /\ RowsLast
  BY <1>1, <1>2, <1>3, StatusKeeps
<1>5. /\ req' \in [Requests -> Request]
      /\ \A q \in Requests \ {r} : req'[q] = req[q]
      /\ ReadsOK(r)' /\ Announcing(r)'
  <2>1. CASE Ends(r)
    BY <1>1, <2>1, EndsLemma DEF ReadsOK, Announcing, Disputing, Appealing
  <2>2. CASE s = "REVERSED" /\ req[r].at = "reverse" /\ GoesTo(r, "publishUpheld")
    <3>1. /\ req' \in [Requests -> Request]
          /\ \A q \in Requests \ {r} : req'[q] = req[q]
          /\ req'[r].at = "publishUpheld" /\ req'[r].action = a
          /\ req'[r].appellant = req[r].appellant
      BY <1>1, <1>2, <2>2, GoesToLemma DEF Await
    <3>2. req[r].appellant \in Appellants /\ appeal[a][req[r].appellant] # "absent"
      BY <1>1, <1>2, <2>2 DEF ReadsOK, Disputing, Appealing
    <3>3. Over(a)' /\ Exists(a)'
      BY <1>4, <2>2 DEF Over, Exists
    <3>4. ReadsOK(r)'
      BY <1>2, <3>1, <3>2, <3>3 DEF ReadsOK, Exists
    <3>5. QED
      BY <3>1, <3>3, <3>4 DEF Announcing, Over, ByModerator, Exists
  <2>3. QED
    BY <2>1, <2>2
<1>6. TypeOK'
  BY <1>1, <1>4, <1>5 DEF TypeOK
<1>7. QED
  BY <1>4, <1>5, <1>6, DeskStep

\* A request writes an appeal: a new one, a ruling, or an assignment.
LEMMA DeskAppeal ==
  ASSUME DeskInv, NEW r \in Requests, NEW s \in AppealStatus,
         req[r].at \in {"insertAppeal", "decide", "assign", "unassign"},
         appeal' = [appeal EXCEPT ![req[r].action][req[r].appellant] = s],
         NEW w \in {"markAppealed", "reverse"}, Ends(r) \/ GoesTo(r, w),
         UNCHANGED <<action, trustUpdated, failures>>
  PROVE  DeskInv'
<1>1. Grounded /\ TypeOK /\ ReadsOK(r) /\ failures \in 0 .. MaxFailures
  BY DEF DeskInv, Grounded, TypeOK
<1>2. PICK a \in Actions, u \in Appellants :
        a = req[r].action /\ u = req[r].appellant /\ Exists(a)
  BY <1>1 DEF ReadsOK, Disputing
<1>3. /\ appeal' \in [Actions -> [Appellants -> AppealStatus \cup {"absent"}]]
      /\ appeal'[a][u] # "absent"
      /\ \A b \in Actions : RowOK(b)'
      /\ RowsLast
  BY <1>1, <1>2, AppealKeeps
<1>4. /\ req' \in [Requests -> Request]
      /\ \A q \in Requests \ {r} : req'[q] = req[q]
      /\ ReadsOK(r)' /\ req'[r].at # "publishUpheld"
  <2>1. CASE Ends(r)
    BY <1>1, <2>1, EndsLemma DEF ReadsOK, Disputing, Appealing
  <2>2. CASE GoesTo(r, w)
    <3>1. /\ req' \in [Requests -> Request]
          /\ \A q \in Requests \ {r} : req'[q] = req[q]
          /\ req'[r].at = w /\ req'[r].action = a /\ req'[r].appellant = u
      BY <1>1, <1>2, <2>2, GoesToLemma DEF Await
    <3>2. ReadsOK(r)'
      BY <1>2, <1>3, <3>1 DEF ReadsOK, Exists
    <3>3. QED
      BY <3>1, <3>2
  <2>3. QED
    BY <2>1, <2>2
<1>5. TypeOK'
  BY <1>1, <1>3, <1>4 DEF TypeOK
<1>6. QED
  BY <1>3, <1>4, <1>5, DeskStep DEF Announcing

\* A request that ends, or is conflicted, leaves nothing to rely on.
LEMMA DeskEnd ==
  ASSUME DeskInv, NEW r \in Requests, Ends(r), UNCHANGED <<action, appeal>>,
         trustUpdated' \in SUBSET (Actions \X Appellants),
         \A t \in trustUpdated' : t \in trustUpdated \/ (Exists(t[1]) /\ Over(t[1])),
         failures' \in 0 .. MaxFailures
  PROVE  DeskInv'
<1>1. TypeOK
  BY DEF DeskInv, Grounded
<1>2. /\ req' \in [Requests -> Request]
      /\ \A q \in Requests \ {r} : req'[q] = req[q]
      /\ req'[r].at = "idle"
  BY <1>1, EndsLemma
<1>3. ReadsOK(r)'
  BY <1>2 DEF ReadsOK, Disputing, Appealing
<1>4. TypeOK' /\ \A a \in Actions : RowOK(a)'
  BY <1>2 DEF DeskInv, Grounded, TypeOK, RowOK
<1>5. RowsLast
  BY DEF RowsLast, Exists, Over, ByModerator
<1>6. \A t \in trustUpdated' : t \in trustUpdated \/ (Exists(t[1])' /\ Over(t[1])')
  BY DEF Exists, Over, ByModerator
<1>7. QED
  BY <1>2, <1>3, <1>4, <1>5, <1>6, DeskStep DEF Announcing

\* The lift touches temporary bans that are over.
LEMMA DeskLift ==
  ASSUME DeskInv, NEW r \in Requests, Lift(r)
  PROVE  DeskInv'
<1>1. /\ TypeOK /\ ReadsOK(r) /\ req[r].at = "lift" /\ Ends(r)
      /\ UNCHANGED <<appeal, trustUpdated, failures>>
  BY DEF DeskInv, Grounded, Lift
<1>2. /\ action' \in [Actions -> ActionRow]
      /\ \A b \in Actions \ req[r].batch : action'[b] = action[b]
      /\ \A b \in req[r].batch :
           /\ b \in Actions
           /\ action'[b].status = "REVERSED"
           /\ action'[b].kind = action[b].kind
           /\ action'[b].aiRecommended = action[b].aiRecommended
           /\ action'[b].expired = action[b].expired
  BY <1>1, LiftLemma
<1>3. /\ req' \in [Requests -> Request]
      /\ \A q \in Requests \ {r} : req'[q] = req[q]
      /\ req'[r].at = "idle"
  BY <1>1, EndsLemma
<1>4. TypeOK'
  BY <1>1, <1>2, <1>3 DEF TypeOK
<1>5. ASSUME NEW b \in Actions PROVE RowOK(b)'
  <2>1. RowOK(b)
    BY DEF DeskInv, Grounded
  <2>2. CASE b \in req[r].batch
    BY <1>1, <1>2, <2>1, <2>2 DEF RowOK
  <2>3. CASE b \notin req[r].batch
    BY <1>1, <1>2, <2>1, <2>3 DEF RowOK, NoAction
  <2>4. QED
    BY <2>2, <2>3
<1>6. RowsLast
  BY <1>1, <1>2 DEF RowsLast, Exists, Over, ByModerator
<1>7. ReadsOK(r)'
  BY <1>3 DEF ReadsOK, Disputing, Appealing
<1>8. QED
  BY <1>1, <1>3, <1>4, <1>5, <1>6, <1>7, DeskStep DEF Announcing

\* The steps of requests under way.
LEMMA DeskProceed ==
  ASSUME DeskInv, NEW r \in Requests, ProceedDesk(r) \/ Fail(r)
  PROVE  DeskInv'
<1>a. /\ TypeOK /\ ReadsOK(r) /\ failures \in 0 .. MaxFailures
      /\ trustUpdated \subseteq Actions \X Appellants
  BY DEF DeskInv, Grounded, TypeOK
<1>1. CASE Approve(r)
  BY <1>1, DeskStatus DEF Approve
<1>2. CASE Reject(r)
  BY <1>2, DeskStatus DEF Reject
<1>3. CASE MarkAppealed(r)
  BY <1>3, DeskStatus DEF MarkAppealed
<1>4. CASE Reverse(r)
  BY <1>4, DeskStatus DEF Reverse
<1>5. CASE Lift(r)
  BY <1>5, DeskLift
<1>6. CASE Decide(r)
  <2>1. "UPHELD" \in AppealStatus /\ "DENIED" \in AppealStatus
    BY DEF AppealStatus
  <2>2. QED
    BY <1>6, <2>1, DeskAppeal DEF Decide
<1>7. CASE Assign(r) \/ Unassign(r)
  <2>1. "UNDER_REVIEW" \in AppealStatus /\ "PENDING" \in AppealStatus
    BY DEF AppealStatus
  <2>2. QED
    BY <1>7, <2>1, DeskAppeal DEF Assign, Unassign, SaveAppeal
<1>8. ASSUME GoesTo(r, "insertAppeal") \/ GoesTo(r, "conflict"),
             req[r].at \in {"checkAppeal", "insertAppeal"},
             UNCHANGED <<action, appeal, trustUpdated, failures>>
      PROVE  DeskInv'
  <2>1. PICK w \in {"insertAppeal", "conflict"} : GoesTo(r, w)
    BY <1>8
  <2>2. /\ req' \in [Requests -> Request]
        /\ \A q \in Requests \ {r} : req'[q] = req[q]
        /\ req'[r].at = w /\ req'[r].action = req[r].action
        /\ req'[r].appellant = req[r].appellant
    BY <1>a, <2>1, GoesToLemma DEF Await
  <2>3. ReadsOK(r)'
    BY <1>a, <1>8, <2>2 DEF ReadsOK, Exists, Disputing, Appealing
  <2>4. QED
    BY <1>a, <1>8, <2>2, <2>3, DeskQuiet DEF Announcing
<1>9. CASE InsertAppeal(r)
  <2>1. "PENDING" \in AppealStatus
    BY DEF AppealStatus
  <2>2. CASE appeal[req[r].action][req[r].appellant] = "absent"
    BY <1>9, <2>1, <2>2, DeskAppeal DEF InsertAppeal
  <2>3. CASE appeal[req[r].action][req[r].appellant] # "absent"
    BY <1>8, <1>9, <2>3 DEF InsertAppeal
  <2>4. QED
    BY <2>2, <2>3
<1>10. CASE CheckAppeal(r)
  <2>1. CASE Ends(r)
    BY <1>a, <1>10, <2>1, DeskEnd DEF CheckAppeal
  <2>2. CASE GoesTo(r, "insertAppeal")
    BY <1>8, <1>10, <2>2 DEF CheckAppeal
  <2>3. QED
    BY <1>10, <2>1, <2>2 DEF CheckAppeal
<1>11. CASE Conflict(r)
  BY <1>a, <1>11, DeskEnd DEF Conflict
<1>12. CASE PublishUpheld(r)
  <2>1. /\ req[r].at = "publishUpheld" /\ Ends(r) /\ UNCHANGED <<action, appeal, failures>>
        /\ \A t \in trustUpdated' :
             t \in trustUpdated \/ t = <<req[r].action, req[r].appellant>>
    BY <1>12 DEF PublishUpheld
  <2>2. /\ req[r].action \in Actions /\ Exists(req[r].action)
        /\ req[r].appellant \in Appellants /\ Over(req[r].action)
    BY <1>a, <2>1 DEF ReadsOK, Disputing, DeskInv, Announcing
  <2>3. trustUpdated' \in SUBSET (Actions \X Appellants)
    BY <1>a, <2>1, <2>2
  <2>4. QED
    BY <1>a, <2>1, <2>2, <2>3, DeskEnd
<1>13. CASE Fail(r)
  <2>1. failures' \in 0 .. MaxFailures
    BY <1>a, <1>13, ModerationAssumption DEF Fail
  <2>2. QED
    BY <1>a, <1>13, <2>1, DeskEnd DEF Fail
<1>14. QED
  BY <1>1, <1>2, <1>3, <1>4, <1>5, <1>6, <1>7, <1>9, <1>10, <1>11, <1>12, <1>13
     DEF ProceedDesk, Proceed

-----------------------------------------------------------------------------
(* The steps of nobody's request                                           *)

\* A verdict is one update of a recommendation, whatever it finds.
LEMMA DeskVerdict ==
  ASSUME DeskInv, NEW a \in Recommendations, NEW s \in {"ACTIVE", "APPEALED"}, Verdict(a, s)
  PROVE  DeskInv'
<1>1. Grounded /\ TypeOK /\ a \in Actions /\ action[a].aiRecommended
  BY DEF DeskInv, Grounded, Recommendations
<1>2. Exists(a)
  BY <1>1 DEF Grounded, RowOK, NoAction, Exists
<1>3. SetStatus(a, s) /\ UNCHANGED <<appeal, req, trustUpdated, failures>>
  BY DEF Verdict
<1>4. action' \in [Actions -> ActionRow] /\ (\A b \in Actions : RowOK(b)') /\ RowsLast
  BY <1>1, <1>2, <1>3, StatusKeeps
<1>5. TypeOK'
  BY <1>1, <1>3, <1>4 DEF TypeOK
<1>6. QED
  BY <1>3, <1>4, <1>5, DeskStep

\* The clock.
LEMMA DeskExpire ==
  ASSUME DeskInv, NEW a \in Actions, Expire(a)
  PROVE  DeskInv'
<1>1. TypeOK /\ Exists(a) /\ UNCHANGED <<appeal, req, trustUpdated, failures>>
  BY DEF DeskInv, Grounded, Expire
<1>2. /\ action' \in [Actions -> ActionRow]
      /\ \A b \in Actions \ {a} : action'[b] = action[b]
      /\ action'[a].status = action[a].status
      /\ action'[a].kind = action[a].kind
      /\ action'[a].aiRecommended = action[a].aiRecommended
      /\ action'[a].expired = TRUE
  BY <1>1, ExpireLemma
<1>3. TypeOK'
  BY <1>1, <1>2 DEF TypeOK
<1>4. ASSUME NEW b \in Actions PROVE RowOK(b)'
  <2>1. RowOK(b)
    BY DEF DeskInv, Grounded
  <2>2. CASE b = a
    BY <1>1, <1>2, <2>1, <2>2 DEF RowOK, Exists
  <2>3. CASE b # a
    BY <1>1, <1>2, <2>1, <2>3 DEF RowOK, NoAction
  <2>4. QED
    BY <2>2, <2>3
<1>5. RowsLast
  BY <1>1, <1>2 DEF RowsLast, Exists, Over, ByModerator
<1>6. QED
  BY <1>1, <1>3, <1>4, <1>5, DeskStep

LEMMA DeskInit == Init => DeskInv
<1> SUFFICES ASSUME Init PROVE DeskInv
  OBVIOUS
<1>1. Grounded
  BY InitInv, InvGrounded
<1>2. QED
  BY <1>1 DEF Init, Idle, DeskInv, AnnouncedIsOver, Announcing

LEMMA DeskNextInv == DeskInv /\ [DeskNext]_vars => DeskInv'
<1> SUFFICES ASSUME DeskInv, [DeskNext]_vars PROVE DeskInv'
  OBVIOUS
<1>1. ASSUME NEW r \in Requests, Start(r) \/ StartDesk(r) PROVE DeskInv'
  BY <1>1, DeskStart
<1>2. ASSUME NEW r \in Requests, ProceedDesk(r) \/ Fail(r) PROVE DeskInv'
  BY <1>2, DeskProceed
<1>3. ASSUME NEW a \in Recommendations, ApproveRecommendation(a) \/ RejectRecommendation(a)
      PROVE  DeskInv'
  BY <1>3, DeskVerdict DEF ApproveRecommendation, RejectRecommendation
<1>4. ASSUME NEW a \in Actions, Expire(a) PROVE DeskInv'
  BY <1>4, DeskExpire
<1>5. CASE UNCHANGED vars
  <2>1. TypeOK' /\ \A a \in Actions : RowOK(a)'
    BY <1>5 DEF vars, DeskInv, Grounded, TypeOK, RowOK
  <2>2. RowsLast
    BY <1>5 DEF vars, RowsLast, Exists, Over, ByModerator
  <2>3. QED
    BY <1>5, <2>1, <2>2, DeskStep DEF vars
<1>6. QED
  BY <1>1, <1>2, <1>3, <1>4, <1>5 DEF DeskNext

-----------------------------------------------------------------------------
(* The refinement                                                          *)

\* An assignment changes an appeal that is there, a verdict is about a proposal.
LEMMA DeskRefines ==
  DeskInv /\ DeskInv' /\ [DeskNext]_vars => [Contract!Next]_Contract!vars
<1> SUFFICES ASSUME DeskInv, DeskInv', [DeskNext]_vars PROVE ContractStep
  BY DEF ContractStep, Contract!vars, View, Phases, Proposals, Contested, Lapsed
<1>1. Grounded /\ Grounded'
  BY DEF DeskInv
<1>2. ASSUME UNCHANGED <<action, appeal>> PROVE ContractStep
  <2>1. Contested' = Contested
    BY <1>2 DEF Contested
  <2>2. QED
    BY <1>2, <2>1, StutterLemma
<1>3. ASSUME NEW r \in Requests, Start(r) PROVE ContractStep
  BY <1>1, <1>3, StartRefines
<1>4. ASSUME NEW r \in Requests, StartDesk(r) \/ Fail(r) PROVE ContractStep
  BY <1>2, <1>4 DEF StartDesk, StartAssign, StartUnassign, StartDeskReview, FindAppeal, Fail
<1>5. ASSUME NEW r \in Requests, ProceedDesk(r) PROVE ContractStep
  <2>1. CASE Proceed(r)
    BY <1>1, <2>1, ProceedRefines
  <2>2. CASE Assign(r) \/ Unassign(r)
    <3>1. /\ {"assign", "unassign"} \subseteq Appealing
          /\ {"UNDER_REVIEW", "PENDING"} \subseteq AppealStatus
      BY DEF Appealing, AppealStatus
    <3>2. QED
      BY <1>1, <2>2, <3>1, SaveRefines DEF Assign, Unassign, SaveAppeal
  <2>3. QED
    BY <1>5, <2>1, <2>2 DEF ProceedDesk
<1>6. ASSUME NEW a \in Recommendations, ApproveRecommendation(a) \/ RejectRecommendation(a)
      PROVE  ContractStep
  <2>1. a \in Actions /\ action[a].aiRecommended /\ a \in Proposals
    BY DEF Recommendations, Proposals
  <2>2. CASE ApproveRecommendation(a)
    BY <1>1, <2>1, <2>2, AdoptRefines DEF ApproveRecommendation, Verdict
  <2>3. CASE RejectRecommendation(a)
    <3>1. Exists(a)
      BY <1>1, <2>1 DEF Grounded, RowOK, NoAction, Exists
    <3>2. QED
      BY <1>1, <2>1, <2>3, <3>1, EndRefines DEF RejectRecommendation, Verdict
  <2>4. QED
    BY <1>6, <2>2, <2>3
<1>7. ASSUME NEW a \in Actions, Expire(a) PROVE ContractStep
  BY <1>1, <1>7, ExpireRefines
<1>8. CASE UNCHANGED vars
  BY <1>2, <1>8 DEF vars
<1>9. QED
  BY <1>3, <1>4, <1>5, <1>6, <1>7, <1>8 DEF DeskNext

-----------------------------------------------------------------------------
(* The theorems                                                            *)

\* What holds of the tables and of the requests under way, with the handlers of
\* AppealService and AIReviewService next to the controller's.
THEOREM DeskInvariance == DeskSpec => []DeskInv
<1>1. QED
  BY DeskInit, DeskNextInv, PTL DEF DeskSpec

\* All the handlers write values of the schema's enums only.
THEOREM DeskTypeCorrect == DeskSpec => []TypeOK
<1>1. DeskInv => TypeOK
  BY DEF DeskInv, Grounded
<1>2. QED
  BY <1>1, DeskInvariance, PTL

\* A moderator's action whose appeal reviewAppeal announced as upheld does not
\* come back into force, whatever assignments and verdicts overtake the ruling.
THEOREM AnnouncedActionsAreOver == DeskSpec => []AnnouncedIsOver
<1>1. DeskInv => AnnouncedIsOver
  BY DEF DeskInv
<1>2. QED
  BY <1>1, DeskInvariance, PTL

\* The handlers of AppealService and AIReviewService keep the enforcement contract
\* too: stale assignments and verdicts never revive a moderator's action.
THEOREM DeskKeepsContract == DeskSpec => ImplementsContract
<1>1. QED
  BY InitRefines, DeskRefines, DeskInvariance, PTL
     DEF DeskSpec, ImplementsContract, Contract!Spec

\* Neither do the handlers of AppealService and AIReviewService, whatever they
\* overtake: what they keep of the contract is enough.
THEOREM DeskActionsEndForCause == DeskSpec => []EndedForCause /\ TakenLast
<1>1. QED
  BY DeskKeepsContract, ContractEnforces, PTL

\* Nor do they put a ban in force again, so an expired one needs to be lifted once
\* only, also with the desk at work.
THEOREM DeskBansAreEndedOnce == DeskSpec => BansEndOnce
<1>1. Grounded /\ Grounded' /\ EndedForCause /\ [TakenStep]_vars => [BanStep]_vars
  BY TakenBans
<1>2. DeskInv => Grounded
  BY DEF DeskInv
<1>3. QED
  BY <1>1, <1>2, DeskInvariance, DeskActionsEndForCause, PTL DEF TakenLast, BansEndOnce

=============================================================================
