----------------------------- MODULE Moderation -----------------------------
(***************************************************************************)
(* The moderation service: moderation actions, temporary bans and appeals  *)
(* as the HTTP controller of services/moderation-service exposes them.     *)
(*                                                                         *)
(* Every handler is an asynchronous function over one Postgres database    *)
(* and nothing is wrapped in a transaction, so each `await prisma...` is   *)
(* an atomic step of its own and other requests run between two of them.   *)
(* A request is a slot of Requests: it reads and checks in its first step, *)
(* keeps what it read, and writes in later steps without checking again.   *)
(* Any request may die at an await (a database error or a crash): what it  *)
(* already wrote stays.                                                    *)
(*                                                                         *)
(* Abstracted: texts and their length limits, moderator identities, and    *)
(* the target of an action.  The model follows the actions against ONE     *)
(* user; the handlers select rows by action, appeal or target id.          *)
(***************************************************************************)
EXTENDS Naturals, FiniteSets

CONSTANTS
  MaxActions,   \* rows moderation_actions can hold; ids follow creation time
  Appellants,   \* users that may appeal
  Requests,     \* slots for requests in flight
  MaxFailures,  \* how many requests may die half way
  NoOne,        \* no appellant
  Kind          \* the kinds of action the moderators and the AI take

ASSUME ModerationAssumption ==
  /\ MaxActions \in Nat \ {0}
  /\ MaxFailures \in Nat
  /\ NoOne \notin Appellants
  /\ Kind \subseteq {"nonPunitive", "consequential", "ban", "temporaryBan"}

Actions == 1 .. MaxActions

VARIABLES
  action,       \* the table moderation_actions
  appeal,       \* the table appeals, unique per (action, appellant)
  req,          \* the requests in flight
  trustUpdated, \* appeals announced as user.trust.updated (appeal_upheld)
  failures      \* requests that died so far

vars == <<action, appeal, req, trustUpdated, failures>>

-----------------------------------------------------------------------------
(* Rows and requests.                                                      *)

ActionStatus == {"PENDING", "ACTIVE", "APPEALED", "REVERSED"}
AppealStatus == {"PENDING", "UNDER_REVIEW", "UPHELD", "DENIED"}

\* A kind is an actionType with its severity: EDUCATE and WARN are
\* non-punitive, the rest is consequential; bans are told apart because
\* getUserBanStatus reads them, temporary ones because they expire.
ActionRow == [status : ActionStatus \cup {"absent"}, kind : Kind \cup {"none"},
              aiRecommended : BOOLEAN, expired : BOOLEAN, lifted : BOOLEAN]

NoAction == [status |-> "absent", kind |-> "none",
             aiRecommended |-> FALSE, expired |-> FALSE, lifted |-> FALSE]

\* The await a request stands before (the last two only in ModerationDesk).
Await == {"idle", "approve", "reject", "checkAppeal",
          "insertAppeal", "conflict", "markAppealed", "decide", "reverse",
          "publishUpheld", "lift", "assign", "unassign"}

Request == [at : Await, action : Actions \cup {0},
            appellant : Appellants \cup {NoOne},
            decision : {"none", "upheld", "denied"}, batch : SUBSET Actions]

Idle == [at |-> "idle", action |-> 0, appellant |-> NoOne,
         decision |-> "none", batch |-> {}]

TypeOK ==
  /\ action \in [Actions -> ActionRow]
  /\ appeal \in [Actions -> [Appellants -> AppealStatus \cup {"absent"}]]
  /\ req \in [Requests -> Request]
  /\ trustUpdated \subseteq Actions \X Appellants
  /\ failures \in 0 .. MaxFailures

Init ==
  /\ action = [a \in Actions |-> NoAction]
  /\ appeal = [a \in Actions |-> [u \in Appellants |-> "absent"]]
  /\ req = [r \in Requests |-> Idle]
  /\ trustUpdated = {}
  /\ failures = 0

Exists(a) == action[a].status # "absent"

SetStatus(a, s) == action' = [action EXCEPT ![a].status = s]

\* The id the next insert gets.
IsNext(a) == ~Exists(a) /\ \A b \in 1 .. a - 1 : Exists(b)

\* Request r opens and stands before its first write, moves on to the await
\* w, or ends.
Opens(r, w, a, u, d, S) ==
  /\ req[r].at = "idle"
  /\ req' = [req EXCEPT ![r] = [at |-> w, action |-> a, appellant |-> u,
                               decision |-> d, batch |-> S]]
GoesTo(r, w) == req' = [req EXCEPT ![r].at = w]
Ends(r) == req' = [req EXCEPT ![r] = Idle]

-----------------------------------------------------------------------------
(* Creating actions: one insert.  The event published after it changes     *)
(* nothing here, and its failure is logged and swallowed.                  *)

Create(r, a, status, kind, aiRecommended) ==
  /\ req[r].at = "idle"
  /\ IsNext(a)
  /\ kind \in Kind
  /\ action' = [action EXCEPT ![a] =
                 [status |-> status, kind |-> kind, aiRecommended |-> aiRecommended,
                  expired |-> FALSE, lifted |-> FALSE]]
  /\ UNCHANGED <<appeal, req, trustUpdated, failures>>

CreateAction(r, a, k) ==
  k # "temporaryBan" /\ Create(r, a, "ACTIVE", k, FALSE)

CreateTemporaryBan(r, a) ==
  Create(r, a, "ACTIVE", "temporaryBan", FALSE)

SubmitAiRecommendation(r, a, k) ==
  k # "temporaryBan" /\ Create(r, a, "PENDING", k, TRUE)

-----------------------------------------------------------------------------
(* Approving and rejecting an AI recommendation: check, then write.        *)

\* Mutant: the check that the action is PENDING is missing.
StartApproveUnchecked(r, a) ==
  /\ Exists(a)
  /\ action[a].kind # "nonPunitive"
  /\ Opens(r, "approve", a, NoOne, "none", {})
  /\ UNCHANGED <<action, appeal, trustUpdated, failures>>

StartApprove(r, a) ==
  /\ action[a].status = "PENDING"
  /\ action[a].kind # "nonPunitive"
  /\ Opens(r, "approve", a, NoOne, "none", {})
  /\ UNCHANGED <<action, appeal, trustUpdated, failures>>

Approve(r) ==
  /\ req[r].at = "approve"
  /\ SetStatus(req[r].action, "ACTIVE")
  /\ Ends(r)
  /\ UNCHANGED <<appeal, trustUpdated, failures>>

\* Mutant: any action can be rejected, not only a PENDING one.
StartRejectUnchecked(r, a) ==
  /\ Exists(a)
  /\ Opens(r, "reject", a, NoOne, "none", {})
  /\ UNCHANGED <<action, appeal, trustUpdated, failures>>

StartReject(r, a) ==
  /\ action[a].status = "PENDING"
  /\ Opens(r, "reject", a, NoOne, "none", {})
  /\ UNCHANGED <<action, appeal, trustUpdated, failures>>

Reject(r) ==
  /\ req[r].at = "reject"
  /\ SetStatus(req[r].action, "REVERSED")
  /\ Ends(r)
  /\ UNCHANGED <<appeal, trustUpdated, failures>>

-----------------------------------------------------------------------------
(* Appealing: two reads, the insert, then the unconditional update of the  *)
(* action.                                                                 *)

StartAppeal(r, a, u) ==
  /\ Exists(a)
  /\ action[a].status # "REVERSED"
  /\ Opens(r, "checkAppeal", a, u, "none", {})
  /\ UNCHANGED <<action, appeal, trustUpdated, failures>>

CheckAppeal(r) ==
  /\ req[r].at = "checkAppeal"
  /\ IF appeal[req[r].action][req[r].appellant] \in {"PENDING", "UNDER_REVIEW"}
     THEN Ends(r)
     ELSE GoesTo(r, "insertAppeal")
  /\ UNCHANGED <<action, appeal, trustUpdated, failures>>

\* Mutant: the appeal is upserted, over a row that is already there.
InsertAppealUpsert(r) ==
  /\ req[r].at = "insertAppeal"
  /\ appeal' = [appeal EXCEPT ![req[r].action][req[r].appellant] = "PENDING"]
  /\ GoesTo(r, "markAppealed")
  /\ UNCHANGED <<action, trustUpdated, failures>>

\* Mutant: the handler forgets to mark the action.
InsertAppealOnly(r) ==
  /\ req[r].at = "insertAppeal"
  /\ IF appeal[req[r].action][req[r].appellant] = "absent"
     THEN /\ appeal' = [appeal EXCEPT ![req[r].action][req[r].appellant] = "PENDING"]
          /\ Ends(r)
     ELSE /\ GoesTo(r, "conflict")
          /\ UNCHANGED appeal
  /\ UNCHANGED <<action, trustUpdated, failures>>

\* The unique key (moderationActionId, appellantId) refuses a second row,
\* whatever the status of the first.
InsertAppeal(r) ==
  /\ req[r].at = "insertAppeal"
  /\ IF appeal[req[r].action][req[r].appellant] = "absent"
     THEN /\ appeal' = [appeal EXCEPT ![req[r].action][req[r].appellant] = "PENDING"]
          /\ GoesTo(r, "markAppealed")
     ELSE /\ GoesTo(r, "conflict")
          /\ UNCHANGED appeal
  /\ UNCHANGED <<action, trustUpdated, failures>>

\* The constraint violation leaves the handler as an unhandled error.
Conflict(r) ==
  /\ req[r].at = "conflict"
  /\ Ends(r)
  /\ UNCHANGED <<action, appeal, trustUpdated, failures>>

\* Mutant: the action gets a status of the other enum.
MarkUnderReview(r) ==
  /\ req[r].at = "markAppealed"
  /\ SetStatus(req[r].action, "UNDER_REVIEW")
  /\ Ends(r)
  /\ UNCHANGED <<appeal, trustUpdated, failures>>

MarkAppealed(r) ==
  /\ req[r].at = "markAppealed"
  /\ SetStatus(req[r].action, "APPEALED")
  /\ Ends(r)
  /\ UNCHANGED <<appeal, trustUpdated, failures>>

-----------------------------------------------------------------------------
(* Reviewing an appeal: check, decide, and if upheld reverse the action    *)
(* and announce it.  A denied appeal does not touch the action.            *)

StartReview(r, a, u, d) ==
  /\ appeal[a][u] = "PENDING"
  /\ Opens(r, "decide", a, u, d, {})
  /\ UNCHANGED <<action, appeal, trustUpdated, failures>>

\* Mutant: an upheld appeal reverses the action but is not saved itself.
DecideUnsaved(r) ==
  /\ req[r].at = "decide"
  /\ IF req[r].decision = "upheld"
     THEN /\ GoesTo(r, "reverse")
          /\ UNCHANGED appeal
     ELSE /\ appeal' = [appeal EXCEPT ![req[r].action][req[r].appellant] = "DENIED"]
          /\ Ends(r)
  /\ UNCHANGED <<action, trustUpdated, failures>>

\* Mutant: an upheld appeal is announced, but the action not reversed.
DecideAndPublish(r) ==
  /\ req[r].at = "decide"
  /\ IF req[r].decision = "upheld"
     THEN /\ appeal' = [appeal EXCEPT ![req[r].action][req[r].appellant] = "UPHELD"]
          /\ GoesTo(r, "publishUpheld")
     ELSE /\ appeal' = [appeal EXCEPT ![req[r].action][req[r].appellant] = "DENIED"]
          /\ Ends(r)
  /\ UNCHANGED <<action, trustUpdated, failures>>

Decide(r) ==
  /\ req[r].at = "decide"
  /\ IF req[r].decision = "upheld"
     THEN /\ appeal' = [appeal EXCEPT ![req[r].action][req[r].appellant] = "UPHELD"]
          /\ GoesTo(r, "reverse")
     ELSE /\ appeal' = [appeal EXCEPT ![req[r].action][req[r].appellant] = "DENIED"]
          /\ Ends(r)
  /\ UNCHANGED <<action, trustUpdated, failures>>

Reverse(r) ==
  /\ req[r].at = "reverse"
  /\ SetStatus(req[r].action, "REVERSED")
  /\ GoesTo(r, "publishUpheld")
  /\ UNCHANGED <<appeal, trustUpdated, failures>>

PublishUpheld(r) ==
  /\ req[r].at = "publishUpheld"
  /\ \/ trustUpdated' = trustUpdated \cup {<<req[r].action, req[r].appellant>>}
     \/ UNCHANGED trustUpdated
  /\ Ends(r)
  /\ UNCHANGED <<action, appeal, failures>>

-----------------------------------------------------------------------------
(* Lifting expired temporary bans: the scheduled task selects a batch,     *)
(* then updates it by id.                                                  *)

\* Mutant: expiresAt is not compared with the clock.
ExpiredBansAnyTime ==
  {a \in Actions : /\ action[a].status = "ACTIVE"
                   /\ action[a].kind = "temporaryBan"
                   /\ ~action[a].lifted}

ExpiredBans ==
  {a \in Actions : /\ action[a].status = "ACTIVE"
                   /\ action[a].kind = "temporaryBan"
                   /\ action[a].expired
                   /\ ~action[a].lifted}

StartLift(r) ==
  /\ ExpiredBans # {}
  /\ Opens(r, "lift", 0, NoOne, "none", ExpiredBans)
  /\ UNCHANGED <<action, appeal, trustUpdated, failures>>

\* Mutant: the bans are marked as lifted, but stay ACTIVE.
LiftOnlyMarks(r) ==
  /\ req[r].at = "lift"
  /\ action' = [a \in Actions |->
                  [action[a] EXCEPT !.lifted = @ \/ a \in req[r].batch]]
  /\ Ends(r)
  /\ UNCHANGED <<appeal, trustUpdated, failures>>

Lift(r) ==
  /\ req[r].at = "lift"
  /\ action' = [a \in Actions |->
                  IF a \in req[r].batch
                  THEN [action[a] EXCEPT !.status = "REVERSED", !.lifted = TRUE]
                  ELSE action[a]]
  /\ Ends(r)
  /\ UNCHANGED <<appeal, trustUpdated, failures>>

\* The clock passes the expiresAt of a temporary ban.
Expire(a) ==
  /\ Exists(a)
  /\ action[a].kind = "temporaryBan"
  /\ ~action[a].expired
  /\ action' = [action EXCEPT ![a].expired = TRUE]
  /\ UNCHANGED <<appeal, req, trustUpdated, failures>>

\* The statement a request waits for fails, or the process is gone.
Fail(r) ==
  /\ req[r].at # "idle"
  /\ failures < MaxFailures
  /\ failures' = failures + 1
  /\ Ends(r)
  /\ UNCHANGED <<action, appeal, trustUpdated>>

-----------------------------------------------------------------------------
\* A moderator, a user, the AI service or the scheduler opens a request.
Start(r) ==
  \/ StartLift(r)
  \/ \E a \in Actions :
       \/ CreateTemporaryBan(r, a)
       \/ \E k \in Kind : CreateAction(r, a, k) \/ SubmitAiRecommendation(r, a, k)
       \/ StartApprove(r, a)
       \/ StartReject(r, a)
       \/ \E u \in Appellants :
            \/ StartAppeal(r, a, u)
            \/ \E d \in {"upheld", "denied"} : StartReview(r, a, u, d)

\* A request in flight takes its next step.
Proceed(r) ==
  \/ Approve(r) \/ Reject(r)
  \/ CheckAppeal(r) \/ InsertAppeal(r) \/ Conflict(r) \/ MarkAppealed(r)
  \/ Decide(r) \/ Reverse(r) \/ PublishUpheld(r)
  \/ Lift(r)

Next ==
  \/ \E r \in Requests : Start(r) \/ Proceed(r) \/ Fail(r)
  \/ \E a \in Actions : Expire(a)

\* Requests in flight are run to their end by the event loop.  The scheduled
\* lift keeps being attempted: strong fairness, because the slots of the
\* model may all be taken from time to time while a server's never are.
Fairness ==
  /\ \A r \in Requests : WF_vars(Proceed(r))
  /\ SF_vars(\E r \in Requests : StartLift(r))

Spec == Init /\ [][Next]_vars
FairSpec == Spec /\ Fairness

-----------------------------------------------------------------------------
(* What a caller of getUserBanStatus is told about the user: only the      *)
(* newest ACTIVE ban is looked at.                                         *)

ActiveBans == {a \in Actions : /\ action[a].status = "ACTIVE"
                               /\ action[a].kind \in {"ban", "temporaryBan"}}

NewestBan == CHOOSE a \in ActiveBans : \A b \in ActiveBans : b <= a

UserIsBanned ==
  /\ ActiveBans # {}
  /\ ~(action[NewestBan].kind = "temporaryBan" /\ action[NewestBan].expired)

-----------------------------------------------------------------------------
(* Properties.                                                             *)

\* A moderator's own decision, as opposed to an AI recommendation.
ByModerator(a) == Exists(a) /\ ~action[a].aiRecommended

Decided == {"UPHELD", "DENIED"}

\* The scheduled lift only ever ends temporary bans whose time is over, and
\* a lifted ban never bites again, whatever stale write comes after it
\* (autoLiftExpiredBans against createAppeal and reviewAppeal in flight).
LiftedIsOver ==
  \A a \in Actions :
    action[a].lifted => /\ action[a].kind = "temporaryBan"
                        /\ action[a].expired
                        /\ action[a].status # "ACTIVE"

\* A moderator's action is reversed only by the lift or by the review of an
\* appeal against it: no interleaving of approve, reject, appeal and review
\* reverses an action nobody ruled on.
ReversedForCause ==
  \A a \in Actions :
    ByModerator(a) /\ action[a].status = "REVERSED" =>
      action[a].lifted \/ \E u \in Appellants : appeal[a][u] \in Decided

\* user.trust.updated (appeal_upheld) goes out only for an appeal that was
\* ruled on, and the moderator's action it was about is no longer in force.
TrustUpdateJustified ==
  \A t \in trustUpdated :
    /\ appeal[t[1]][t[2]] \in Decided
    /\ ByModerator(t[1]) => action[t[1]].status \in {"APPEALED", "REVERSED"}

\* As long as no request dies between the insert of an appeal and the update
\* of its action, an appeal against a moderator's action suspends it.
OpenAppealSuspends ==
  failures = 0 =>
    \A a \in Actions, u \in Appellants :
      ByModerator(a) /\ appeal[a][u] # "absent" =>
        \/ action[a].status # "ACTIVE"
        \/ \E r \in Requests : req[r].at = "markAppealed" /\ req[r].action = a

\* A ruling on an appeal is never reopened through the controller, however
\* reviews, appeals and failures interleave.
RulingStands ==
  [][\A a \in Actions, u \in Appellants :
       appeal[a][u] \in Decided => appeal'[a][u] \in Decided]_vars

\* An expired temporary ban does not stay in force: the lift or an appeal
\* ends it.
ExpiredBansEnd ==
  \A a \in Actions :
    (action[a].kind = "temporaryBan" /\ action[a].expired) ~>
      action[a].status # "ACTIVE"

\* The tests say a denied appeal keeps the action active, and the data model
\* appealed --[appeal denied]--> active.  reviewAppeal does not touch the
\* action, so it stays APPEALED with nobody left to rule on it.
DenialRestores ==
  \A a \in Actions :
    action[a].status = "APPEALED" =>
      \/ \E u \in Appellants : appeal[a][u] \notin Decided \cup {"absent"}
      \/ \E r \in Requests : req[r].action = a

\* A test says that an active ban is reported.  getUserBanStatus looks at the
\* newest ban alone: an expired one hides an older ban still in force.
ActiveBanReported ==
  (\E a \in ActiveBans : ~action[a].expired) => UserIsBanned

-----------------------------------------------------------------------------
(* What the service promises its users about enforcement.                  *)

Enforcement(a) ==
  CASE action[a].status = "absent"  -> "none"
    [] action[a].status = "PENDING" -> "proposed"
    [] action[a].status = "ACTIVE"  -> "inForce"
    [] OTHER                        -> "over"

Contract == INSTANCE EnforcementContract WITH
  phase     <- [a \in Actions |-> Enforcement(a)],
  proposals <- {a \in Actions : action[a].aiRecommended},
  contested <- {a \in Actions : \E u \in Appellants : appeal[a][u] # "absent"},
  lapsed    <- {a \in Actions : action[a].expired}

\* The service keeps the enforcement contract under every interleaving.
ImplementsContract == Contract!Spec

=============================================================================
