------------------------- MODULE ModerationRefinement -------------------------
(***************************************************************************)
(* The proof that Moderation implements EnforcementContract, for any       *)
(* number of rows, appellants, requests and failures.  Every step is one   *)
(* action of the contract or changes nothing the contract talks about.     *)
(* The lemmas about steps rest on Grounded alone, which also holds of the  *)
(* whole service layer in ModerationDesk, where IInv does not.             *)
(***************************************************************************)
EXTENDS ModerationProofs

\* The awaits of requests about an appeal, and those at which its row is there.
Disputing == {"checkAppeal", "insertAppeal", "conflict", "markAppealed", "decide",
              "reverse", "publishUpheld", "assign", "unassign"}
Appealing == {"markAppealed", "decide", "reverse", "publishUpheld", "assign", "unassign"}

\* What a request has read is about rows that are still there.
ReadsOK(r) ==
  /\ req[r].at \notin {"idle", "lift"} =>
       req[r].action \in Actions /\ Exists(req[r].action)
  /\ req[r].at \in {"approve", "reject"} => action[req[r].action].aiRecommended
  /\ req[r].at \in Disputing => req[r].appellant \in Appellants
  /\ req[r].at \in Appealing => appeal[req[r].action][req[r].appellant] # "absent"
  /\ req[r].at = "lift" =>
       \A a \in req[r].batch : action[a].kind = "temporaryBan" /\ action[a].expired

Grounded ==
  /\ TypeOK
  /\ \A a \in Actions : RowOK(a)
  /\ \A r \in Requests : ReadsOK(r)

\* The invariant of the controller's handlers says more.
LEMMA InvGrounded == IInv => Grounded
<1> SUFFICES ASSUME IInv, NEW r \in Requests PROVE ReadsOK(r)
  BY DEF Grounded, IInv
<1>1. RequestOK(r) /\ req[r] \in Request
  BY DEF IInv, TypeOK
<1>2. QED
  BY <1>1 DEF RequestOK, ReadsOK, Disputing, Appealing, Decided

Phases == [a \in Actions |-> Enforcement(a)]
Proposals == {a \in Actions : action[a].aiRecommended}
Contested == {a \in Actions : \E u \in Appellants : appeal[a][u] # "absent"}
Lapsed == {a \in Actions : action[a].expired}

\* What a caller of the contract sees.
View == <<Phases, Proposals, Contested, Lapsed>>

\* A step of the contract, or none.
ContractStep == Contract!Next \/ UNCHANGED View

\* The phase of a row depends on its status alone.
LEMMA PhaseLemma ==
  ASSUME NEW a \in Actions, action[a].status \in ActionStatus \cup {"absent"}
  PROVE  /\ action[a].status = "absent" => Enforcement(a) = "none"
         /\ action[a].status = "PENDING" => Enforcement(a) = "proposed"
         /\ action[a].status = "ACTIVE" => Enforcement(a) = "inForce"
         /\ action[a].status \in {"APPEALED", "REVERSED"} => Enforcement(a) = "over"
         /\ Enforcement(a) = "none" => action[a].status = "absent"
  BY DEF Enforcement, ActionStatus

\* Steps that leave the rows and the set of contested ones alone are stutters.
LEMMA StutterLemma ==
  ASSUME UNCHANGED action, Contested' = Contested
  PROVE  ContractStep
  BY DEF ContractStep, View, Phases, Proposals, Lapsed, Enforcement

\* Ending a set of rows for a cause.
LEMMA CeaseLemma ==
  ASSUME TypeOK, TypeOK', NEW S \in SUBSET Actions,
         \A a \in S : /\ Exists(a)
                      /\ a \in Proposals \cup Contested \cup Lapsed
                      /\ action'[a].status \in {"APPEALED", "REVERSED"}
                      /\ action'[a].aiRecommended = action[a].aiRecommended
                      /\ action'[a].expired = action[a].expired,
         \A a \in Actions \ S : action'[a] = action[a],
         UNCHANGED appeal
  PROVE  ContractStep
<1>1. \A a \in Actions : action[a].status \in ActionStatus \cup {"absent"}
  BY DEF TypeOK, ActionRow
<1>2. \A a \in Actions : action'[a].status \in ActionStatus \cup {"absent"}
  BY DEF TypeOK, ActionRow
<1>3. \A a \in S : Phases[a] # "none"
  BY <1>1, PhaseLemma DEF Phases, Exists
<1>4. Phases' = [a \in Actions |-> IF a \in S THEN "over" ELSE Phases[a]]
  <2>1. ASSUME NEW a \in S PROVE Enforcement(a)' = "over"
    BY <1>2 DEF Enforcement
  <2>2. ASSUME NEW a \in Actions \ S PROVE Enforcement(a)' = Enforcement(a)
    BY DEF Enforcement
  <2>3. QED
    BY <2>1, <2>2 DEF Phases
<1>5. Proposals' = Proposals /\ Lapsed' = Lapsed
  BY DEF Proposals, Lapsed
<1>6. Contested' = Contested
  BY DEF Contested
<1>7. Contract!Cease(S)
  BY <1>3, <1>4, <1>5, <1>6 DEF Contract!Cease, Phases, Proposals, Contested, Lapsed
<1>8. QED
  BY <1>7 DEF ContractStep, Contract!Next

\* The row a changes, its origin and its expiry do not.
LEMMA RowLemma ==
  ASSUME NEW a \in Actions,
         \A b \in Actions \ {a} : action'[b] = action[b]
  PROVE  Phases' = [Phases EXCEPT ![a] = Enforcement(a)']
<1>1. \A b \in Actions \ {a} : Enforcement(b)' = Enforcement(b)
  BY DEF Enforcement
<1>2. QED
  BY <1>1 DEF Phases

\* Inserting a row imposes an action or proposes one.
LEMMA CreateRefines ==
  ASSUME Grounded, NEW r \in Requests, NEW a \in Actions,
         NEW s \in {"PENDING", "ACTIVE"}, NEW k \in Kind, NEW ai \in BOOLEAN,
         s = "PENDING" <=> ai, Create(r, a, s, k, ai)
  PROVE  ContractStep
<1>1. TypeOK
  BY DEF Grounded
<1>2. /\ \A b \in Actions \ {a} : action'[b] = action[b]
      /\ action[a].status = "absent"
      /\ action'[a].status = s
      /\ action'[a].aiRecommended = ai
      /\ action'[a].expired = FALSE
  BY <1>1 DEF Create, IsNext, Exists, TypeOK
<1>3. action[a] = NoAction
  BY <1>2 DEF Grounded, RowOK
<1>4. Contested' = Contested
  BY DEF Create, Contested
<1>5. Lapsed' = Lapsed
  BY <1>2, <1>3 DEF Lapsed, NoAction
<1>6. Phases[a] = "none" /\ Phases' = [Phases EXCEPT ![a] = Enforcement(a)']
  BY <1>2, RowLemma DEF Phases, Enforcement
<1>7. CASE s = "PENDING"
  <2>1. Enforcement(a)' = "proposed"
    BY <1>2, <1>7 DEF Enforcement
  <2>2. Proposals' = Proposals \cup {a}
    BY <1>2, <1>7 DEF Proposals
  <2>3. Contract!Propose(a)
    BY <1>4, <1>5, <1>6, <2>1, <2>2
       DEF Contract!Propose, Phases, Proposals, Contested, Lapsed
  <2>4. QED
    BY <2>3 DEF ContractStep, Contract!Next
<1>8. CASE s = "ACTIVE"
  <2>1. Enforcement(a)' = "inForce"
    BY <1>2, <1>8 DEF Enforcement
  <2>2. Proposals' = Proposals
    BY <1>2, <1>3, <1>8 DEF Proposals, NoAction
  <2>3. Contract!Impose(a)
    BY <1>4, <1>5, <1>6, <2>1, <2>2
       DEF Contract!Impose, Phases, Proposals, Contested, Lapsed
  <2>4. QED
    BY <2>3 DEF ContractStep, Contract!Next
<1>9. QED
  BY <1>7, <1>8

\* Opening any other request changes no table.
LEMMA StartRefines ==
  ASSUME Grounded, NEW r \in Requests, Start(r)
  PROVE  ContractStep
<1>1. ASSUME NEW a \in Actions, CreateTemporaryBan(r, a) PROVE ContractStep
  <2>1. Create(r, a, "ACTIVE", "temporaryBan", FALSE) /\ "temporaryBan" \in Kind
    BY <1>1 DEF CreateTemporaryBan, Create
  <2>2. QED
    BY <2>1, CreateRefines
<1>2. ASSUME NEW a \in Actions, NEW k \in Kind, CreateAction(r, a, k) PROVE ContractStep
  BY <1>2, CreateRefines DEF CreateAction
<1>3. ASSUME NEW a \in Actions, NEW k \in Kind, SubmitAiRecommendation(r, a, k)
      PROVE  ContractStep
  BY <1>3, CreateRefines DEF SubmitAiRecommendation
<1>4. CASE UNCHANGED <<action, appeal>>
  <2>1. Contested' = Contested
    BY <1>4 DEF Contested
  <2>2. QED
    BY <1>4, <2>1, StutterLemma
<1>5. QED
  BY <1>1, <1>2, <1>3, <1>4
     DEF Start, StartLift, StartApprove, StartReject, StartAppeal, StartReview

\* A write of a terminal status ends the action of the request.
LEMMA EndRefines ==
  ASSUME Grounded, Grounded', NEW a \in Actions, NEW s \in {"APPEALED", "REVERSED"},
         Exists(a), a \in Proposals \cup Contested, SetStatus(a, s), UNCHANGED appeal
  PROVE  ContractStep
<1>1. TypeOK /\ TypeOK' /\ s \in ActionStatus
  BY DEF Grounded, ActionStatus
<1>2. /\ \A b \in Actions \ {a} : action'[b] = action[b]
      /\ action'[a].status = s
      /\ action'[a].aiRecommended = action[a].aiRecommended
      /\ action'[a].expired = action[a].expired
  BY <1>1, SetStatusLemma
<1>3. {a} \in SUBSET Actions
  OBVIOUS
<1>4. \A b \in {a} : /\ Exists(b)
                     /\ b \in Proposals \cup Contested \cup Lapsed
                     /\ action'[b].status \in {"APPEALED", "REVERSED"}
                     /\ action'[b].aiRecommended = action[b].aiRecommended
                     /\ action'[b].expired = action[b].expired
  BY <1>2
<1>5. QED
  BY <1>1, <1>2, <1>3, <1>4, CeaseLemma

\* Activating a recommendation adopts it, perhaps after it was adopted or ended before.
LEMMA AdoptRefines ==
  ASSUME Grounded, NEW a \in Actions, action[a].aiRecommended,
         SetStatus(a, "ACTIVE"), UNCHANGED appeal
  PROVE  ContractStep
<1>1. TypeOK
  BY DEF Grounded
<1>2. /\ \A b \in Actions \ {a} : action'[b] = action[b]
      /\ action'[a].status = "ACTIVE"
      /\ action'[a].aiRecommended = action[a].aiRecommended
      /\ action'[a].expired = action[a].expired
  BY <1>1, SetStatusLemma DEF ActionStatus
<1>3. Phases' = [Phases EXCEPT ![a] = "inForce"]
  <2>1. Enforcement(a)' = "inForce"
    BY <1>2 DEF Enforcement
  <2>2. Phases' = [Phases EXCEPT ![a] = Enforcement(a)']
    BY <1>2, RowLemma
  <2>3. QED
    BY <2>1, <2>2
<1>4. Proposals' = Proposals /\ Lapsed' = Lapsed /\ a \in Proposals
  BY <1>2 DEF Proposals, Lapsed
<1>5. Contested' = Contested
  BY DEF Contested
<1>6. Contract!Adopt(a)
  BY <1>3, <1>4, <1>5 DEF Contract!Adopt, Phases, Proposals, Contested, Lapsed
<1>7. QED
  BY <1>6 DEF ContractStep, Contract!Next

\* A first appeal contests the action.
LEMMA InsertAppealRefines ==
  ASSUME Grounded, NEW r \in Requests, InsertAppeal(r)
  PROVE  ContractStep
<1>1. TypeOK /\ ReadsOK(r) /\ req[r].at = "insertAppeal" /\ UNCHANGED action
  BY DEF Grounded, InsertAppeal
<1>2. PICK a \in Actions, u \in Appellants :
        a = req[r].action /\ u = req[r].appellant /\ Exists(a)
  BY <1>1 DEF ReadsOK, Disputing, Appealing
<1>3. CASE UNCHANGED appeal
  <2>1. Contested' = Contested
    BY <1>3 DEF Contested
  <2>2. QED
    BY <1>1, <2>1, StutterLemma
<1>4. CASE appeal' = [appeal EXCEPT ![a][u] = "PENDING"]
  <2>1. /\ appeal'[a][u] = "PENDING"
        /\ \A b \in Actions, v \in Appellants :
             <<b, v>> # <<a, u>> => appeal'[b][v] = appeal[b][v]
    BY <1>1, <1>2, <1>4 DEF TypeOK
  <2>2. Contested' = Contested \cup {a}
    <3>1. a \in Contested'
      BY <1>2, <2>1 DEF Contested
    <3>2. \A b \in Actions \ {a} : b \in Contested' <=> b \in Contested
      BY <2>1 DEF Contested
    <3>3. QED
      BY <1>2, <3>1, <3>2 DEF Contested
  <2>3. Phases[a] # "none"
    BY <1>1, <1>2, PhaseLemma DEF Phases, Exists, TypeOK, ActionRow
  <2>4. Phases' = Phases /\ Proposals' = Proposals /\ Lapsed' = Lapsed
    BY <1>1 DEF Phases, Proposals, Lapsed, Enforcement
  <2>5. Contract!Contest(a)
    BY <2>2, <2>3, <2>4 DEF Contract!Contest, Phases, Proposals, Contested, Lapsed
  <2>6. QED
    BY <1>2, <2>5 DEF ContractStep, Contract!Next
<1>5. QED
  BY <1>2, <1>3, <1>4 DEF InsertAppeal

\* Changing the status of an appeal that is there contests nothing new.
LEMMA AppealRefines ==
  ASSUME Grounded, NEW a \in Actions, NEW u \in Appellants, NEW s \in AppealStatus,
         appeal[a][u] # "absent", appeal' = [appeal EXCEPT ![a][u] = s], UNCHANGED action
  PROVE  ContractStep
<1>1. TypeOK /\ s # "absent"
  BY DEF Grounded, AppealStatus
<1>2. \A b \in Actions, v \in Appellants :
        appeal[b][v] # "absent" <=> appeal'[b][v] # "absent"
  BY <1>1, SetAppealLemma
<1>3. Contested' = Contested
  BY <1>2 DEF Contested
<1>4. QED
  BY <1>3, StutterLemma

\* A request about an appeal that is there changes its status.
LEMMA SaveRefines ==
  ASSUME Grounded, NEW r \in Requests, req[r].at \in Appealing, NEW s \in AppealStatus,
         appeal' = [appeal EXCEPT ![req[r].action][req[r].appellant] = s], UNCHANGED action
  PROVE  ContractStep
<1>1. Appealing \subseteq Disputing /\ "idle" \notin Appealing /\ "lift" \notin Appealing
  BY DEF Appealing, Disputing
<1>2. /\ req[r].action \in Actions /\ req[r].appellant \in Appellants
      /\ appeal[req[r].action][req[r].appellant] # "absent"
  BY <1>1 DEF Grounded, ReadsOK
<1>3. QED
  BY <1>2, AppealRefines

\* The lift ends lapsed bans.
LEMMA LiftRefines ==
  ASSUME Grounded, Grounded', NEW r \in Requests, Lift(r)
  PROVE  ContractStep
<1> DEFINE S == req[r].batch
<1>1. TypeOK /\ TypeOK' /\ ReadsOK(r) /\ req[r].at = "lift" /\ UNCHANGED appeal
  BY DEF Grounded, Lift
<1>2. S \in SUBSET Actions
  BY <1>1 DEF TypeOK, Request
<1>3. /\ \A b \in Actions \ S : action'[b] = action[b]
      /\ \A b \in S : /\ action'[b].status = "REVERSED"
                      /\ action'[b].aiRecommended = action[b].aiRecommended
                      /\ action'[b].expired = action[b].expired
  BY <1>1, LiftLemma
<1>4. \A b \in S : action[b].kind = "temporaryBan" /\ action[b].expired
  BY <1>1 DEF ReadsOK
<1>5. \A b \in S : Exists(b)
  BY <1>2, <1>4 DEF Grounded, RowOK, NoAction, Exists
<1>6. \A b \in S : b \in Lapsed
  BY <1>2, <1>4 DEF Lapsed
<1>7. \A b \in S : /\ Exists(b)
                   /\ b \in Proposals \cup Contested \cup Lapsed
                   /\ action'[b].status \in {"APPEALED", "REVERSED"}
                   /\ action'[b].aiRecommended = action[b].aiRecommended
                   /\ action'[b].expired = action[b].expired
  BY <1>3, <1>5, <1>6
<1>8. QED
  BY <1>1, <1>2, <1>3, <1>7, CeaseLemma

LEMMA ExpireRefines ==
  ASSUME Grounded, NEW a \in Actions, Expire(a)
  PROVE  ContractStep
<1>1. TypeOK /\ Exists(a) /\ UNCHANGED appeal
  BY DEF Grounded, Expire
<1>2. /\ \A b \in Actions \ {a} : action'[b] = action[b]
      /\ action'[a].status = action[a].status
      /\ action'[a].aiRecommended = action[a].aiRecommended
      /\ action'[a].expired = TRUE
  BY <1>1, ExpireLemma
<1>3. Phases' = Phases /\ Phases[a] # "none"
  <2>1. \A b \in Actions : Enforcement(b)' = Enforcement(b)
    BY <1>2 DEF Enforcement
  <2>2. QED
    BY <1>1, <2>1, PhaseLemma DEF Phases, Exists, TypeOK, ActionRow
<1>4. Proposals' = Proposals /\ Contested' = Contested
  BY <1>1, <1>2 DEF Proposals, Contested
<1>5. Lapsed' = Lapsed \cup {a}
  BY <1>2 DEF Lapsed
<1>6. Contract!Lapse(a)
  BY <1>3, <1>4, <1>5 DEF Contract!Lapse, Phases, Proposals, Contested, Lapsed
<1>7. QED
  BY <1>6 DEF ContractStep, Contract!Next

\* The writes that end an action have a proposal or an appeal behind them.
LEMMA ProceedRefines ==
  ASSUME Grounded, Grounded', NEW r \in Requests, Proceed(r)
  PROVE  ContractStep
<1>1. TypeOK /\ ReadsOK(r)
  BY DEF Grounded
<1>2. CASE Approve(r)
  <2>1. /\ req[r].action \in Actions /\ action[req[r].action].aiRecommended
        /\ SetStatus(req[r].action, "ACTIVE") /\ UNCHANGED appeal
    BY <1>1, <1>2 DEF Approve, ReadsOK
  <2>2. QED
    BY <2>1, AdoptRefines
<1>3. CASE InsertAppeal(r)
  BY <1>3, InsertAppealRefines
<1>4. CASE Decide(r)
  <2>1. "decide" \in Appealing /\ "UPHELD" \in AppealStatus /\ "DENIED" \in AppealStatus
    BY DEF Appealing, AppealStatus
  <2>2. QED
    BY <1>4, <2>1, SaveRefines DEF Decide
<1>5. CASE Lift(r)
  BY <1>5, LiftRefines
<1>6. CASE Reject(r)
  <2>1. /\ req[r].at = "reject" /\ SetStatus(req[r].action, "REVERSED") /\ UNCHANGED appeal
    BY <1>6 DEF Reject
  <2>2. /\ req[r].action \in Actions /\ Exists(req[r].action)
        /\ action[req[r].action].aiRecommended
    BY <1>1, <2>1 DEF ReadsOK
  <2>3. req[r].action \in Proposals
    BY <2>2 DEF Proposals
  <2>4. QED
    BY <2>1, <2>2, <2>3, EndRefines
<1>7. CASE MarkAppealed(r) \/ Reverse(r)
  <2>1. PICK s \in {"APPEALED", "REVERSED"} : SetStatus(req[r].action, s)
    BY <1>7 DEF MarkAppealed, Reverse
  <2>2. req[r].at \in {"markAppealed", "reverse"} /\ UNCHANGED appeal
    BY <1>7 DEF MarkAppealed, Reverse
  <2>3. /\ req[r].action \in Actions /\ Exists(req[r].action)
        /\ req[r].appellant \in Appellants
        /\ appeal[req[r].action][req[r].appellant] # "absent"
    BY <1>1, <2>2 DEF ReadsOK, Disputing, Appealing
  <2>4. req[r].action \in Contested
    BY <2>3 DEF Contested
  <2>5. QED
    BY <2>1, <2>2, <2>3, <2>4, EndRefines
<1>8. CASE CheckAppeal(r) \/ Conflict(r) \/ PublishUpheld(r)
  <2>1. UNCHANGED <<action, appeal>>
    BY <1>8 DEF CheckAppeal, Conflict, PublishUpheld
  <2>2. Contested' = Contested
    BY <2>1 DEF Contested
  <2>3. QED
    BY <2>1, <2>2, StutterLemma
<1>9. QED
  BY <1>2, <1>3, <1>4, <1>5, <1>6, <1>7, <1>8 DEF Proceed

LEMMA InitRefines == Init => Contract!Init
  BY DEF Init, NoAction, Contract!Init, Enforcement

LEMMA NextRefines == Grounded /\ Grounded' /\ [Next]_vars => [Contract!Next]_Contract!vars
<1> SUFFICES ASSUME Grounded, Grounded', [Next]_vars PROVE ContractStep
  BY DEF ContractStep, Contract!vars, View, Phases, Proposals, Contested, Lapsed
<1>1. ASSUME NEW r \in Requests, Start(r) PROVE ContractStep
  BY <1>1, StartRefines
<1>2. ASSUME NEW r \in Requests, Proceed(r) PROVE ContractStep
  BY <1>2, ProceedRefines
<1>3. ASSUME UNCHANGED <<action, appeal>> PROVE ContractStep
  <2>1. Contested' = Contested
    BY <1>3 DEF Contested
  <2>2. QED
    BY <1>3, <2>1, StutterLemma
<1>4. ASSUME NEW r \in Requests, Fail(r) PROVE ContractStep
  BY <1>3, <1>4 DEF Fail
<1>5. ASSUME NEW a \in Actions, Expire(a) PROVE ContractStep
  BY <1>5, ExpireRefines
<1>6. CASE UNCHANGED vars
  BY <1>3, <1>6 DEF vars
<1>7. QED
  BY <1>1, <1>2, <1>4, <1>5, <1>6 DEF Next

-----------------------------------------------------------------------------
\* Whatever the controller's handlers and the scheduled lift do to each
\* other's reads, a moderator's action is in force from its creation to the
\* appeal or the expiry that ends it, and never comes back.
THEOREM KeepsContract == Spec => ImplementsContract
<1>1. QED
  BY InitRefines, NextRefines, InvGrounded, Invariance, PTL DEF Spec, ImplementsContract, Contract!Spec

-----------------------------------------------------------------------------
(* What follows from the contract alone                                    *)

\* A moderator's action that does not exist or is in force needs no cause; one that
\* is over was appealed against or its time was up.
EndedForCause ==
  \A a \in Actions \ Proposals :
    \/ Phases[a] \in {"none", "inForce"}
    \/ Phases[a] = "over" /\ a \in Contested \cup Lapsed

\* A moderator's action stays one, in force until it is over and over for good, and
\* what it may be ended for is never taken back.
TakenStep ==
  \A a \in Actions \ Proposals :
    /\ Phases[a] # "none" => a \notin Proposals' /\ Phases'[a] \in {Phases[a], "over"}
    /\ a \in Contested => a \in Contested'
    /\ a \in Lapsed => a \in Lapsed'

TakenLast == [][TakenStep]_vars

\* A step of the contract, in terms of the tables.
LEMMA ContractTakes ==
  ASSUME EndedForCause, [Contract!Next]_Contract!vars, NEW a \in Actions \ Proposals
  PROVE  /\ Phases[a] # "none" => a \notin Proposals' /\ Phases'[a] \in {Phases[a], "over"}
         /\ a \in Contested => a \in Contested'
         /\ a \in Lapsed => a \in Lapsed'
         /\ \/ a \in Proposals'
            \/ Phases'[a] \in {"none", "inForce"}
            \/ Phases'[a] = "over" /\ a \in Contested' \cup Lapsed'
<1>a. /\ Phases[a] \in {"none", "inForce", "over"}
      /\ Phases[a] = "over" => a \in Contested \cup Lapsed
  BY DEF EndedForCause
<1>b. DOMAIN Phases = Actions
  BY DEF Phases
<1>1. CASE UNCHANGED View
  BY <1>a, <1>1 DEF View
<1>2. ASSUME NEW b \in Actions, Contract!Impose(b) \/ Contract!Propose(b) \/ Contract!Adopt(b)
      PROVE  /\ UNCHANGED <<Contested, Lapsed>>
             /\ \/ /\ Phases[b] = "none" /\ Proposals' = Proposals
                   /\ Phases' = [Phases EXCEPT ![b] = "inForce"]
                \/ /\ Phases[b] = "none" /\ Proposals' = Proposals \cup {b}
                   /\ Phases' = [Phases EXCEPT ![b] = "proposed"]
                \/ /\ b \in Proposals /\ Proposals' = Proposals
                   /\ Phases' = [Phases EXCEPT ![b] = "inForce"]
  BY <1>2 DEF Contract!Impose, Contract!Propose, Contract!Adopt, Phases, Proposals, Contested, Lapsed
<1>3. ASSUME NEW b \in Actions, Contract!Contest(b) \/ Contract!Lapse(b)
      PROVE  /\ UNCHANGED <<Phases, Proposals>>
             /\ Contested \subseteq Contested' /\ Lapsed \subseteq Lapsed'
  BY <1>3 DEF Contract!Contest, Contract!Lapse, Phases, Proposals, Contested, Lapsed
<1>4. ASSUME NEW S \in SUBSET Actions, Contract!Cease(S)
      PROVE  /\ UNCHANGED <<Proposals, Contested, Lapsed>>
             /\ Phases' = [x \in Actions |-> IF x \in S THEN "over" ELSE Phases[x]]
             /\ a \in S => Phases[a] # "none" /\ a \in Proposals \cup Contested \cup Lapsed
  BY <1>4 DEF Contract!Cease, Phases, Proposals, Contested, Lapsed
<1>5. CASE Contract!Next
  <2>1. ASSUME NEW b \in Actions, Contract!Impose(b) \/ Contract!Propose(b) \/ Contract!Adopt(b)
        PROVE  /\ UNCHANGED <<Contested, Lapsed>>
               /\ \/ a # b /\ Phases'[a] = Phases[a] /\ a \notin Proposals'
                  \/ a = b /\ Phases[a] = "none" /\ (Phases'[a] = "inForce" \/ a \in Proposals')
    BY <1>b, <1>2, <2>1
  <2>2. ASSUME NEW b \in Actions, Contract!Contest(b) \/ Contract!Lapse(b)
        PROVE  /\ Phases'[a] = Phases[a] /\ a \notin Proposals'
               /\ Contested \subseteq Contested' /\ Lapsed \subseteq Lapsed'
    BY <1>3, <2>2
  <2>3. ASSUME NEW S \in SUBSET Actions, Contract!Cease(S)
        PROVE  /\ UNCHANGED <<Contested, Lapsed>> /\ a \notin Proposals'
               /\ \/ Phases'[a] = Phases[a]
                  \/ /\ Phases[a] # "none" /\ Phases'[a] = "over"
                     /\ a \in Contested \cup Lapsed
    BY <1>4, <2>3
  <2>4. CASE \E b \in Actions : Contract!Impose(b) \/ Contract!Propose(b) \/ Contract!Adopt(b)
    BY <1>a, <2>1, <2>4
  <2>5. CASE \E b \in Actions : Contract!Contest(b) \/ Contract!Lapse(b)
    BY <1>a, <2>2, <2>5
  <2>6. CASE \E S \in SUBSET Actions : Contract!Cease(S)
    BY <1>a, <2>3, <2>6
  <2>7. QED
    BY <1>5, <2>4, <2>5, <2>6 DEF Contract!Next
<1>6. QED
  BY <1>1, <1>5 DEF Contract!vars, View, Phases, Proposals, Contested, Lapsed

\* What the AI proposed stays a proposal.
LEMMA ProposalsStay ==
  ASSUME [Contract!Next]_Contract!vars
  PROVE  Proposals \subseteq Proposals'
  BY DEF Contract!Next, Contract!vars, Contract!Impose, Contract!Propose, Contract!Adopt,
     Contract!Contest, Contract!Lapse, Contract!Cease, Proposals

\* Whoever keeps the enforcement contract ends a moderator's action for a cause and
\* for good.
THEOREM ContractEnforces == ImplementsContract => []EndedForCause /\ TakenLast
<1>1. Contract!Init => EndedForCause
  BY DEF Contract!Init, EndedForCause, Phases
<1>2. EndedForCause /\ [Contract!Next]_Contract!vars => EndedForCause'
  <2> SUFFICES ASSUME EndedForCause, [Contract!Next]_Contract!vars, NEW a \in Actions
               PROVE  \/ a \in Proposals'
                      \/ Phases'[a] \in {"none", "inForce"}
                      \/ Phases'[a] = "over" /\ a \in Contested' \cup Lapsed'
    BY DEF EndedForCause
  <2>1. CASE a \notin Proposals
    BY <2>1, ContractTakes
  <2>2. CASE a \in Proposals
    BY <2>2, ProposalsStay
  <2>3. QED
    BY <2>1, <2>2
<1>3. EndedForCause /\ [Contract!Next]_Contract!vars => TakenStep
  BY ContractTakes DEF TakenStep
<1>4. QED
  BY <1>1, <1>2, <1>3, PTL DEF ImplementsContract, Contract!Spec, TakenLast

\* The controller's handlers and the lift never end a moderator's action without an
\* appeal or an expiry, nor revive one.
THEOREM ActionsEndForCause == Spec => []EndedForCause /\ TakenLast
<1>1. QED
  BY KeepsContract, ContractEnforces, PTL

\* A temporary ban that is out of force stays out of force: to end an expired one
\* for good it is enough that one lift, or one appeal, gets to it.
BanStep ==
  \A a \in Actions :
    action[a].kind = "temporaryBan" /\ action[a].status # "ACTIVE" => action'[a].status # "ACTIVE"

BansEndOnce == [][BanStep]_vars

\* No temporary ban was proposed by the AI, so each was imposed by a moderator.
LEMMA TakenBans ==
  ASSUME Grounded, Grounded', EndedForCause, TakenStep PROVE BanStep
<1> SUFFICES ASSUME NEW a \in Actions, action[a].kind = "temporaryBan", action[a].status # "ACTIVE"
             PROVE  action'[a].status # "ACTIVE"
  BY DEF BanStep
<1>1. action[a].status \in ActionStatus \cup {"absent"} /\ RowOK(a)
  BY DEF Grounded, TypeOK, ActionRow
<1>2. a \notin Proposals /\ action[a].status # "absent" /\ action[a].status # "PENDING"
  BY <1>1 DEF RowOK, NoAction, Proposals
<1>3. Phases[a] = "over" /\ Phases[a] # "none"
  BY <1>1, <1>2, PhaseLemma DEF Phases, ActionStatus
<1>4. Phases'[a] = "over"
  BY <1>2, <1>3 DEF TakenStep
<1>5. QED
  BY <1>4 DEF Phases, Enforcement

\* The controller's handlers never put a ban in force again.
THEOREM BansAreEndedOnce == Spec => BansEndOnce
<1>1. Grounded /\ Grounded' /\ EndedForCause /\ [TakenStep]_vars => [BanStep]_vars
  BY TakenBans
<1>2. QED
  BY <1>1, InvGrounded, Invariance, ActionsEndForCause, PTL DEF TakenLast, BansEndOnce

=============================================================================
