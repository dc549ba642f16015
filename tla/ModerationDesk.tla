--------------------------- MODULE ModerationDesk ---------------------------
(***************************************************************************)
(* The whole service layer of the moderation service: Moderation plus the  *)
(* handlers no controller reaches yet, AppealService's assignment and      *)
(* review of appeals and AIReviewService's verdicts on recommendations.    *)
(* They work on the same tables with the same unguarded writes.            *)
(***************************************************************************)
EXTENDS Moderation

\* The update assignAppealToModerator and unassignAppeal make, unconditional.
SaveAppeal(r, await, s) ==
  /\ req[r].at = await
  /\ appeal' = [appeal EXCEPT ![req[r].action][req[r].appellant] = s]
  /\ Ends(r)
  /\ UNCHANGED <<action, trustUpdated, failures>>

\* A handler of AppealService has found the appeal in status s.
FindAppeal(r, a, u, s, await) ==
  /\ appeal[a][u] = s
  /\ Opens(r, await, a, u, "none", {})
  /\ UNCHANGED <<action, appeal, trustUpdated, failures>>

StartAssign(r, a, u) == FindAppeal(r, a, u, "PENDING", "assign")
Assign(r) == SaveAppeal(r, "assign", "UNDER_REVIEW")

StartUnassign(r, a, u) == FindAppeal(r, a, u, "UNDER_REVIEW", "unassign")
Unassign(r) == SaveAppeal(r, "unassign", "PENDING")

\* AppealService.reviewAppeal also takes appeals UNDER_REVIEW; from the
\* ruling on it does what the controller's handler does.
StartDeskReview(r, a, u, d) ==
  /\ appeal[a][u] \in {"PENDING", "UNDER_REVIEW"}
  /\ Opens(r, "decide", a, u, d, {})
  /\ UNCHANGED <<action, appeal, trustUpdated, failures>>

\* What getPendingRecommendations has ever listed: a verdict is given on one
\* of these, perhaps on a list that is out of date.
Recommendations == {a \in Actions : action[a].aiRecommended}

\* A verdict on an AI recommendation is one update by id, whatever the
\* status and the severity of the action.
Verdict(a, s) ==
  /\ SetStatus(a, s)
  /\ UNCHANGED <<appeal, req, trustUpdated, failures>>

ApproveRecommendation(a) == Verdict(a, "ACTIVE")
RejectRecommendation(a) == Verdict(a, "APPEALED")

StartDesk(r) ==
  \E a \in Actions, u \in Appellants :
    \/ StartAssign(r, a, u)
    \/ StartUnassign(r, a, u)
    \/ \E d \in {"upheld", "denied"} : StartDeskReview(r, a, u, d)

ProceedDesk(r) == Proceed(r) \/ Assign(r) \/ Unassign(r)

DeskNext ==
  \/ \E r \in Requests : Start(r) \/ StartDesk(r) \/ ProceedDesk(r) \/ Fail(r)
  \/ \E a \in Recommendations : ApproveRecommendation(a) \/ RejectRecommendation(a)
  \/ \E a \in Actions : Expire(a)

DeskFairness ==
  /\ \A r \in Requests : WF_vars(ProceedDesk(r))
  /\ SF_vars(\E r \in Requests : StartLift(r))

DeskSpec == Init /\ [][DeskNext]_vars /\ DeskFairness

-----------------------------------------------------------------------------
(* Properties.                                                             *)

\* With the desk a ruling can be reopened: an assignment that read PENDING
\* overtakes it.  What is left is that once an appeal against a moderator's
\* action was announced as upheld, the action does not come back into force.
AnnouncedIsOver ==
  \A t \in trustUpdated :
    ByModerator(t[1]) => action[t[1]].status \in {"APPEALED", "REVERSED"}

=============================================================================
