---------------------------- MODULE GatewayProofs ----------------------------
(***************************************************************************)
(* Proofs about Gateway: types, the lone trial of a half-open breaker, and *)
(* that a response ends its call and reaches the caller it belongs to.     *)
(***************************************************************************)
EXTENDS Gateway, TLAPS

\* What the safety properties leave unsaid: a caller still waiting has been told
\* nothing and has a request under way, and only a half-open breaker has its
\* trial to give.
Waiting ==
  /\ breaker.pendingClose => breaker.state = "halfOpen"
  /\ \A c \in Calls : /\ call[c].awaited => call[c].at # "out" /\ call[c].told = "nothing"
                      /\ call[c].at # "out" => call[c].attempt > 0
                      /\ call[c].at = "sleep" => call[c].attempt # RetryAttempts

IInv == TypeOK /\ Waiting /\ OneProbe /\ ResponseEndsCall /\ OwnResponse

USE GatewayAssumption

-----------------------------------------------------------------------------
\* The initial state: nobody calls.
LEMMA InitInv == Init => IInv
  BY DEF Init, IInv, TypeOK, Waiting, OneProbe, ResponseEndsCall, OwnResponse,
         Breaker, Call, Free

\* A failure while half open trips the breaker.
LEMMA HalfOpenTrips ==
  ASSUME NEW b, b.state = "halfOpen" PROVE Trips(b)
  BY DEF Trips

\* What a failure does to the breaker: it stays as it is or opens, and a half-open
\* one opens.
LEMMA FailureCounted ==
  ASSUME breaker \in Breaker, CountFailure
  PROVE  /\ breaker' \in Breaker
         /\ breaker'.state # "halfOpen"
         /\ breaker'.pendingClose => breaker.pendingClose
  <1> DEFINE b == [breaker EXCEPT !.failures = @ + 1]
  <1>1. b \in Breaker /\ b.state = breaker.state /\ b.pendingClose = breaker.pendingClose
    BY DEF Breaker
  <1>2. b.state = "halfOpen" => Trips(b)
    BY HalfOpenTrips
  <1>3. breaker' = IF Trips(b) /\ b.state # "open"
                   THEN [b EXCEPT !.state = "open", !.pendingClose = FALSE]
                   ELSE b
    BY DEF CountFailure
  <1> HIDE DEF b
  <1> QED
    BY <1>1, <1>2, <1>3 DEF Breaker

\* A success closes a half-open breaker and changes nothing otherwise.
LEMMA SuccessCounted ==
  ASSUME breaker \in Breaker, CountSuccess
  PROVE  /\ breaker' \in Breaker
         /\ breaker'.state # "halfOpen"
         /\ breaker'.pendingClose => breaker.pendingClose
  BY DEF Breaker, CountSuccess

\* A step that changes one call and lets the breaker at most leave the half-open
\* state keeps the invariant if the call it leaves behind is in order.
LEMMA CallStep ==
  ASSUME IInv, NEW c \in Calls, NEW k \in Call,
         call' = [call EXCEPT ![c] = k], UNCHANGED up,
         breaker' \in Breaker,
         breaker'.pendingClose => breaker'.state = "halfOpen",
         breaker'.state = "halfOpen" => ~k.awaited /\ breaker.state = "halfOpen"
                                        /\ (breaker'.pendingClose => breaker.pendingClose),
         k.awaited => k.at # "out" /\ k.told = "nothing",
         k.at # "out" => k.attempt > 0 /\ k.data = c,
         k.at = "sleep" => k.attempt # RetryAttempts,
         k.status # "none" => k.at = "out" /\ ~k.awaited,
         k.status # "none" /\ k.told # "error" => k.told = k.data,
         k.told = "rejection" => k.attempt = 0,
         k.at # "out" /\ ~k.awaited => k.told = "error",
         k.told \in Calls => k.told = c
  PROVE  IInv'
  <1>1. call' \in [Calls -> Call] /\ call'[c] = k /\ \A d \in Calls \ {c} : call'[d] = call[d]
    BY DEF IInv, TypeOK
  <1>2. TypeOK'
    BY <1>1 DEF IInv, TypeOK
  <1>3. Waiting'
    BY <1>1 DEF IInv, Waiting
  <1>4. OneProbe'
    BY <1>1 DEF IInv, OneProbe
  <1>5. ResponseEndsCall'
    BY <1>1 DEF IInv, ResponseEndsCall
  <1>6. OwnResponse'
    BY <1>1 DEF IInv, OwnResponse
  <1> QED
    BY <1>2, <1>3, <1>4, <1>5, <1>6 DEF IInv

\* A step that only moves a call that is under way keeps the invariant.
LEMMA PlaceOnly ==
  ASSUME IInv, NEW c \in Calls, NEW k \in Call, call[c].at # "out",
         call' = [call EXCEPT ![c] = k], UNCHANGED <<breaker, up>>,
         k.at # "out", k.attempt > 0, k.at = "sleep" => k.attempt # RetryAttempts,
         k.told = call[c].told, k.awaited = call[c].awaited, k.data = call[c].data,
         k.status = call[c].status
  PROVE  IInv'
  <1>1. call' \in [Calls -> Call] /\ call'[c] = k /\ \A d \in Calls \ {c} : call'[d] = call[d]
    BY DEF IInv, TypeOK
  <1>2. TypeOK'
    BY <1>1 DEF IInv, TypeOK
  <1>3. Waiting'
    BY <1>1 DEF IInv, Waiting
  <1>4. OneProbe'
    BY <1>1 DEF IInv, OneProbe
  <1>5. ResponseEndsCall'
    BY <1>1 DEF IInv, ResponseEndsCall, Waiting
  <1>6. OwnResponse'
    BY <1>1 DEF IInv, OwnResponse
  <1> QED
    BY <1>2, <1>3, <1>4, <1>5, <1>6 DEF IInv

\* A call that comes to an error: if its caller still waits he is told, and what
\* is left of the call, `rest`, is what it was but for the place of withRetry.
LEMMA CallFails ==
  ASSUME IInv, NEW c \in Calls, NEW rest \in Call, FailCall(c, rest), UNCHANGED up,
         rest = [call[c] EXCEPT !.at = rest.at],
         call[c].at # "out",
         rest.at = "sleep" => call[c].attempt # RetryAttempts
  PROVE  IInv'
  <1>1. call[c] \in Call /\ breaker \in Breaker
    BY DEF IInv, TypeOK
  <1>2. /\ rest.told = call[c].told /\ rest.awaited = call[c].awaited
        /\ rest.attempt = call[c].attempt /\ rest.data = call[c].data
        /\ rest.status = call[c].status
    BY <1>1 DEF Call
  <1>3. /\ call[c].status = "none" /\ call[c].attempt > 0 /\ call[c].data = c
        /\ call[c].awaited => call[c].told = "nothing"
        /\ ~call[c].awaited => call[c].told = "error"
        /\ breaker.pendingClose => breaker.state = "halfOpen"
    BY DEF IInv, Waiting, ResponseEndsCall, OwnResponse
  <1>4. CASE call[c].awaited
    <2> DEFINE k == [rest EXCEPT !.told = "error", !.awaited = FALSE]
    <2>1. call' = [call EXCEPT ![c] = k] /\ CountFailure
      BY <1>4 DEF FailCall
    <2>2. /\ k \in Call /\ k.told = "error" /\ ~k.awaited /\ k.at = rest.at
          /\ k.attempt = rest.attempt /\ k.data = rest.data /\ k.status = rest.status
      BY DEF Call
    <2>3. /\ breaker' \in Breaker /\ breaker'.state # "halfOpen"
          /\ breaker'.pendingClose => breaker.pendingClose
      BY <1>1, <2>1, FailureCounted
    <2>4. ~breaker'.pendingClose
      BY <1>1, <1>3, <1>4, <2>1, HalfOpenTrips DEF CountFailure, Breaker, IInv, OneProbe
    <2> HIDE DEF k
    <2> QED
      BY <1>2, <1>3, <2>1, <2>2, <2>3, <2>4, CallStep
  <1>5. CASE ~call[c].awaited
    <2>1. call' = [call EXCEPT ![c] = rest] /\ UNCHANGED breaker
      BY <1>5 DEF FailCall
    <2> QED
      BY <1>1, <1>2, <1>3, <1>5, <2>1, CallStep DEF Call
  <1> QED
    BY <1>4, <1>5

\* After a retryable error withRetry sleeps, or the call fails.
LEMMA GoOnInv ==
  ASSUME IInv, NEW c \in Calls, GoOn(c), UNCHANGED up, call[c].at # "out"
  PROVE  IInv'
  <1>1. call[c] \in Call /\ breaker \in Breaker
    BY DEF IInv, TypeOK
  <1>4. call[c].attempt > 0
    BY DEF IInv, Waiting
  <1>2. CASE call[c].attempt = RetryAttempts
    <2> DEFINE rest == [call[c] EXCEPT !.at = "out"]
    <2>1. rest \in Call /\ rest.at = "out" /\ rest = [call[c] EXCEPT !.at = rest.at]
      BY <1>1 DEF Call
    <2>2. FailCall(c, rest)
      BY <1>2 DEF GoOn
    <2> HIDE DEF rest
    <2> QED
      BY <2>1, <2>2, CallFails
  <1>3. CASE call[c].attempt # RetryAttempts
    <2> DEFINE k == [call[c] EXCEPT !.at = "sleep"]
    <2>1. /\ k \in Call /\ k.at = "sleep" /\ k.told = call[c].told
          /\ k.awaited = call[c].awaited /\ k.attempt = call[c].attempt
          /\ k.data = call[c].data /\ k.status = call[c].status
      BY <1>1 DEF Call
    <2>2. call' = [call EXCEPT ![c] = k] /\ UNCHANGED breaker
      BY <1>3 DEF GoOn, IInv, TypeOK
    <2> HIDE DEF k
    <2> QED
      BY <1>1, <1>3, <1>4, <2>1, <2>2, PlaceOnly
  <1> QED
    BY <1>2, <1>3

\* The constants as the arithmetic below needs them.
LEMMA OneAttempt == 1 \in 0 .. RetryAttempts
  BY SMT DEF GatewayAssumption

\* A call not yet made.
LEMMA FreeCall ==
  /\ Free \in Call /\ Free.told = "nothing" /\ ~Free.awaited /\ Free.at = "out"
  /\ Free.attempt = 0 /\ Free.status = "none"
  BY DEF Call, Free

\* The same record with another count, and with the trial given.
LEMMA BreakerFields ==
  ASSUME NEW b \in Breaker, NEW n \in Nat, NEW p \in BOOLEAN
  PROVE  LET d == [b EXCEPT !.fires = n, !.pendingClose = p]
         IN  d \in Breaker /\ d.state = b.state /\ d.pendingClose = p
  BY DEF Breaker

\* A call sent for the first time, and again.
Sent(k, n, d) == [k EXCEPT !.awaited = TRUE, !.at = "request", !.attempt = n, !.data = d]

Resent(k, n) == [k EXCEPT !.at = "request", !.attempt = n]

LEMMA SentCall ==
  ASSUME NEW k \in Call, NEW n \in 0 .. RetryAttempts, NEW d \in Calls
  PROVE  LET m == Sent(k, n, d)
         IN  /\ m \in Call /\ m.awaited /\ m.at = "request" /\ m.attempt = n /\ m.data = d
             /\ m.told = k.told /\ m.status = k.status
  BY DEF Call, Sent

LEMMA ResentCall ==
  ASSUME NEW k \in Call, NEW n \in 0 .. RetryAttempts
  PROVE  LET m == Resent(k, n)
         IN  /\ m \in Call /\ m.at = "request" /\ m.attempt = n /\ m.awaited = k.awaited
             /\ m.told = k.told /\ m.status = k.status /\ m.data = k.data
  BY DEF Call, Resent

\* A call whose response has come.
Answered(k, s) == [k EXCEPT !.at = "out", !.status = s]

LEMMA AnsweredCall ==
  ASSUME NEW k \in Call, NEW s \in {"ok", "serverError"}
  PROVE  LET m == Answered(k, s)
         IN  /\ m \in Call /\ m.at = "out" /\ m.status = s /\ m.awaited = k.awaited
             /\ m.told = k.told /\ m.attempt = k.attempt /\ m.data = k.data
  BY DEF Call, Answered

-----------------------------------------------------------------------------
\* Every step of the gateway, of the breaker's timers and of the service.
LEMMA StepInv == IInv /\ [Next]_vars => IInv'
  <1> SUFFICES ASSUME IInv, [Next]_vars PROVE IInv'
    OBVIOUS
  <1> USE DEF IInv
  <1>0. breaker \in Breaker /\ call \in [Calls -> Call]
    BY DEF TypeOK
  <1>1. CASE HalfOpen
    BY <1>1 DEF HalfOpen, TimersRanOut, TypeOK, Waiting, OneProbe, ResponseEndsCall,
                OwnResponse, Breaker
  <1>2. CASE Forget
    <2>1. PICK f \in 0 .. breaker.fires, g \in 0 .. breaker.failures :
            breaker' = [breaker EXCEPT !.fires = f, !.failures = g]
      BY <1>2 DEF Forget
    <2>3. f \in Nat /\ g \in Nat
      BY <1>0 DEF Breaker
    <2>2. /\ breaker' \in Breaker /\ breaker'.state = breaker.state
          /\ breaker'.pendingClose = breaker.pendingClose
      BY <1>0, <2>1, <2>3 DEF Breaker
    <2> QED
      BY <1>2, <2>2 DEF Forget, TypeOK, Waiting, OneProbe, ResponseEndsCall, OwnResponse
  <1>3. CASE Outage
    BY <1>3 DEF Outage, TypeOK, Waiting, OneProbe, ResponseEndsCall, OwnResponse
  <1>4. ASSUME NEW c \in Calls, Fire(c) PROVE IInv'
    <2>1. call[c] = Free /\ UNCHANGED up
      BY <1>4 DEF Fire
    <2>2. CASE Rejects
      <3> DEFINE k == [Free EXCEPT !.told = "rejection"]
      <3>4. k \in Call /\ k.told = "rejection" /\ ~k.awaited /\ k.at = "out"
            /\ k.attempt = 0 /\ k.status = "none"
        BY FreeCall DEF Call
      <3>2. breaker' = [breaker EXCEPT !.fires = @ + 1] /\ call' = [call EXCEPT ![c] = k]
        BY <1>4, <2>1, <2>2, <1>0 DEF Fire
      <3>3. /\ breaker' \in Breaker /\ breaker'.state = breaker.state
            /\ breaker'.pendingClose = breaker.pendingClose
        BY <1>0, <3>2 DEF Breaker
      <3> HIDE DEF k
      <3> QED
        BY <2>1, <3>4, <3>2, <3>3, CallStep DEF Waiting
    <2>3. CASE ~Rejects
      <3> DEFINE k == [Free EXCEPT !.awaited = TRUE, !.at = "request",
                                   !.attempt = 1, !.data = Argument(c)]
      <3>0. PICK n \in 0 .. RetryAttempts : n = 1
        BY OneAttempt
      <3>00. k = Sent(Free, n, c)
        BY <3>0 DEF Argument, Sent
      <3>2. /\ breaker' = [breaker EXCEPT !.fires = @ + 1, !.pendingClose = FALSE]
            /\ call' = [call EXCEPT ![c] = k]
        BY <1>4, <2>3 DEF Fire
      <3>20. breaker.fires + 1 \in Nat
        BY <1>0 DEF Breaker
      <3>3. /\ breaker' \in Breaker /\ breaker'.state = breaker.state
            /\ ~breaker'.pendingClose
        BY <1>0, <3>2, <3>20, BreakerFields
      <3>4. breaker.state = "halfOpen" => \A d \in Calls : ~call[d].awaited
        BY <2>3 DEF Rejects, OneProbe
      <3> HIDE DEF k
      <3>1. k \in Call /\ k.told = "nothing" /\ k.awaited /\ k.at = "request"
            /\ k.attempt = 1 /\ k.data = c /\ k.status = "none"
        <4>1. /\ k \in Call /\ k.awaited /\ k.at = "request" /\ k.attempt = n /\ k.data = c
              /\ k.told = Free.told /\ k.status = Free.status
          BY FreeCall, <3>00, SentCall
        <4> QED
          BY FreeCall, <3>0, <4>1
      <3>5. call' \in [Calls -> Call] /\ call'[c] = k /\ \A d \in Calls \ {c} : call'[d] = call[d]
        BY <1>0, <3>1, <3>2
      <3>6. TypeOK'
        BY <2>1, <3>3, <3>5 DEF TypeOK
      <3>7. Waiting'
        BY <3>1, <3>3, <3>5 DEF Waiting
      <3>8. OneProbe'
        BY <3>1, <3>3, <3>4, <3>5 DEF OneProbe
      <3>9. ResponseEndsCall'
        BY <3>1, <3>5 DEF ResponseEndsCall
      <3>10. OwnResponse'
        BY <3>1, <3>5 DEF OwnResponse
      <3> QED
        BY <3>6, <3>7, <3>8, <3>9, <3>10
    <2> QED
      BY <2>2, <2>3
  <1>5. ASSUME NEW c \in Calls, Return(c) PROVE IInv'
    <2>2. call' = [call EXCEPT ![c] = Free] /\ UNCHANGED <<breaker, up>>
      BY <1>5 DEF Return
    <2> QED
      BY <1>0, <2>2, FreeCall, CallStep DEF Waiting
  <1>6. ASSUME NEW c \in Calls, BreakerTimeout(c) PROVE IInv'
    <2>1. FailCall(c, call[c]) /\ UNCHANGED up /\ call[c].at # "out"
      BY <1>6 DEF BreakerTimeout, Waiting
    <2>2. call[c] \in Call /\ call[c] = [call[c] EXCEPT !.at = call[c].at]
          /\ (call[c].at = "sleep" => call[c].attempt # RetryAttempts)
      BY <1>0 DEF Call, Waiting
    <2> QED
      BY <2>1, <2>2, CallFails
  <1>7. ASSUME NEW c \in Calls, Respond(c) PROVE IInv'
    <2>0. PICK status \in {"ok", "serverError"} : RespondWith(c, status)
      BY <1>7 DEF Respond
    <2> DEFINE rest == Answered(call[c], status)
               k == [rest EXCEPT !.told = rest.data, !.awaited = FALSE]
    <2>1. /\ rest \in Call /\ rest.at = "out" /\ rest.status = status /\ rest.told = call[c].told
          /\ rest.attempt = call[c].attempt /\ rest.awaited = call[c].awaited
          /\ rest.data = call[c].data
      BY <1>0, AnsweredCall
    <2>2. call[c].data = c /\ call[c].at = "request" /\ UNCHANGED up
      BY <1>7 DEF Respond, OwnResponse
    <2>3. CASE call[c].awaited
      <3>1. /\ k \in Call /\ k.at = "out" /\ k.told = c /\ ~k.awaited /\ k.data = c
        BY <2>1, <2>2 DEF Call
      <3>2. CountSuccess /\ call' = [call EXCEPT ![c] = k]
        BY <2>0, <2>1, <2>3 DEF RespondWith, Answered
      <3>3. /\ breaker' \in Breaker /\ breaker'.state # "halfOpen"
            /\ breaker'.pendingClose => breaker.pendingClose
        BY <1>0, <3>2, SuccessCounted
      <3>4. ~breaker'.pendingClose
        BY <1>0, <2>3, <3>2 DEF CountSuccess, Breaker, OneProbe, Waiting
      <3> HIDE DEF k
      <3> QED
        BY <2>2, <3>1, <3>2, <3>3, <3>4, CallStep
    <2>4. CASE ~call[c].awaited
      <3>1. UNCHANGED breaker /\ call' = [call EXCEPT ![c] = rest]
        BY <2>0, <2>4 DEF RespondWith, Answered
      <3>2. call[c].told = "error"
        BY <2>2, <2>4 DEF ResponseEndsCall
      <3> HIDE DEF rest
      <3> QED
        BY <1>0, <2>1, <2>2, <2>4, <3>1, <3>2, CallStep DEF Waiting
    <2> QED
      BY <2>3, <2>4
  <1>8. ASSUME NEW c \in Calls, Refuse(c) PROVE IInv'
    BY <1>8, GoOnInv DEF Refuse
  <1>9. ASSUME NEW c \in Calls, Throw(c) PROVE IInv'
    <2> DEFINE rest == [call[c] EXCEPT !.at = "out"]
    <2>1. rest \in Call /\ rest.at = "out" /\ rest = [call[c] EXCEPT !.at = rest.at]
      BY <1>0 DEF Call
    <2>2. FailCall(c, rest) /\ UNCHANGED up /\ call[c].at # "out"
      BY <1>9 DEF Throw
    <2> HIDE DEF rest
    <2> QED
      BY <2>1, <2>2, CallFails
  <1>10. ASSUME NEW c \in Calls, Hang(c) PROVE IInv'
    <2> DEFINE k == [call[c] EXCEPT !.at = "hung"]
    <2>1. /\ k \in Call /\ k.at = "hung" /\ k.told = call[c].told
          /\ k.awaited = call[c].awaited /\ k.attempt = call[c].attempt
          /\ k.data = call[c].data /\ k.status = call[c].status
      BY <1>0 DEF Call
    <2>2. call' = [call EXCEPT ![c] = k] /\ UNCHANGED <<breaker, up>> /\ call[c].at # "out"
          /\ call[c].attempt > 0
      BY <1>10, <1>0 DEF Hang, Waiting
    <2> HIDE DEF k
    <2> QED
      BY <2>1, <2>2, PlaceOnly
  <1>11. ASSUME NEW c \in Calls, RequestTimeout(c) PROVE IInv'
    BY <1>11, GoOnInv DEF RequestTimeout
  <1>12. ASSUME NEW c \in Calls, Retry(c) PROVE IInv'
    <2> DEFINE k == [call[c] EXCEPT !.at = "request", !.attempt = @ + 1]
    <2>1. call[c].at = "sleep" /\ call[c].attempt # RetryAttempts
      BY <1>12 DEF Retry, Waiting
    <2>2. call[c].attempt \in 0 .. RetryAttempts - 1
      BY <1>0, <2>1 DEF Call
    <2>20. call[c].attempt + 1 \in 0 .. RetryAttempts /\ call[c].attempt + 1 > 0
      BY <2>2 DEF GatewayAssumption
    <2>21. PICK n \in 0 .. RetryAttempts : n = call[c].attempt + 1
      BY <2>20
    <2>22. call[c] \in Call
      BY <1>0
    <2>23. k = Resent(call[c], n)
      BY <2>21 DEF Resent
    <2>24. n > 0
      BY <2>20, <2>21
    <2>4. call' = [call EXCEPT ![c] = k] /\ UNCHANGED <<breaker, up>>
      BY <1>12, <1>0 DEF Retry
    <2> HIDE DEF k
    <2>25. /\ k \in Call /\ k.at = "request" /\ k.told = call[c].told /\ k.attempt = n
           /\ k.awaited = call[c].awaited /\ k.data = call[c].data
           /\ k.status = call[c].status
      BY <2>22, <2>23, ResentCall
    <2>3. k.attempt > 0
      BY <2>24, <2>25
    <2> QED
      BY <2>1, <2>25, <2>3, <2>4, PlaceOnly
  <1>13. CASE UNCHANGED vars
    BY <1>13 DEF vars, TypeOK, Waiting, OneProbe, ResponseEndsCall, OwnResponse
  <1> QED
    BY <1>1, <1>2, <1>3, <1>4, <1>5, <1>6, <1>7, <1>8, <1>9, <1>10, <1>11, <1>12, <1>13
       DEF Next, Settle

-----------------------------------------------------------------------------
\* The inductive invariant, for any number of calls, attempts and thresholds.
THEOREM GatewayInvariance == Spec => []IInv
  BY InitInv, StepInv, PTL DEF Spec

\* Breaker and calls have their types; in particular withRetry never makes more
\* attempts than it may.
THEOREM GatewayTypeCorrect == Spec => []TypeOK
  <1>1. IInv => TypeOK
    BY DEF IInv
  <1> QED
    BY <1>1, GatewayInvariance, PTL

\* A half-open breaker tries the service with one call only.
THEOREM OneProbeAtATime == Spec => []OneProbe
  <1>1. IInv => OneProbe
    BY DEF IInv
  <1> QED
    BY <1>1, GatewayInvariance, PTL

\* Nothing is sent for a call after its response, nor for a rejected one.
THEOREM ResponsesEndCalls == Spec => []ResponseEndsCall
  <1>1. IInv => ResponseEndsCall
    BY DEF IInv
  <1> QED
    BY <1>1, GatewayInvariance, PTL

\* Callers that share a breaker get the responses to their own requests.
THEOREM ResponsesAreOwn == Spec => []OwnResponse
  <1>1. IInv => OwnResponse
    BY DEF IInv
  <1> QED
    BY <1>1, GatewayInvariance, PTL

-----------------------------------------------------------------------------
(* Gateway implements BreakerContract.                                      *)

Answers == [c \in Calls |-> Answer(call[c])]

\* A step of the contract, or none.
ContractStep == Contract!Next \/ UNCHANGED <<Mode, Answers>>

\* The mode is the state, but for the two phases of a half-open breaker.
LEMMA ModeOf ==
  ASSUME breaker \in Breaker
  PROVE  /\ Mode \in {"closed", "open"} => Mode = breaker.state
         /\ breaker.state # "halfOpen" => Mode = breaker.state
         /\ breaker.state = "halfOpen" /\ breaker.pendingClose => Mode = "trial"
         /\ breaker.state = "halfOpen" /\ ~breaker.pendingClose => Mode = "probing"
  BY DEF Mode, Breaker

\* What a caller sees of a call.
LEMMA AnswerOf ==
  ASSUME NEW k \in Call
  PROVE  /\ k.awaited <=> Answer(k) = "waiting"
         /\ ~k.awaited /\ k.told = "nothing" => Answer(k) = "none"
         /\ ~k.awaited /\ k.told \in Calls => Answer(k) = "response"
         /\ ~k.awaited /\ k.told \in {"error", "rejection"} => Answer(k) = k.told
  BY DEF Answer, Call

\* A step that changes one call tells one caller something.
LEMMA OneTold ==
  ASSUME call \in [Calls -> Call], NEW c \in Calls, NEW k \in Call,
         call' = [call EXCEPT ![c] = k]
  PROVE  Answers' = [Answers EXCEPT ![c] = Answer(k)]
  BY DEF Answers

\* ... or nothing new, if he sees no difference.
LEMMA NothingNew ==
  ASSUME call \in [Calls -> Call], NEW c \in Calls, NEW k \in Call,
         call' = [call EXCEPT ![c] = k], UNCHANGED breaker,
         k.told = call[c].told, k.awaited = call[c].awaited
  PROVE  ContractStep
  <1>1. Answer(k) = Answer(call[c])
    BY DEF Answer
  <1>2. Answers' = Answers
    BY <1>1, OneTold DEF Answers
  <1> QED
    BY <1>2 DEF ContractStep, Mode

\* The error of a call is a failure in the contract if its caller still waits.
LEMMA FailsOnce ==
  ASSUME IInv, NEW c \in Calls, NEW rest \in Call, FailCall(c, rest),
         rest.told = call[c].told, rest.awaited = call[c].awaited
  PROVE  ContractStep
  <1>1. breaker \in Breaker /\ call \in [Calls -> Call] /\ call[c] \in Call
    BY DEF IInv, TypeOK
  <1>2. CASE call[c].awaited
    <2> DEFINE k == [rest EXCEPT !.told = "error", !.awaited = FALSE]
    <2>1. call' = [call EXCEPT ![c] = k] /\ CountFailure
      BY <1>2 DEF FailCall
    <2>2. k \in Call /\ k.told = "error" /\ ~k.awaited
      BY DEF Call
    <2> HIDE DEF k
    <2>3. Answers[c] = "waiting" /\ Answers' = [Answers EXCEPT ![c] = "error"]
      BY <1>1, <1>2, <2>1, <2>2, OneTold, AnswerOf DEF Answers
    <2>4. breaker' \in Breaker /\ breaker'.state # "halfOpen"
      BY <1>1, <2>1, FailureCounted
    <2>5. breaker.state # "closed" => breaker'.state = "open"
      BY <1>1, <2>1, HalfOpenTrips DEF CountFailure, Breaker
    <2>6. Mode' \in IF Mode = "closed" THEN {"closed", "open"} ELSE {"open"}
      BY <1>1, <2>4, <2>5 DEF Mode, Breaker
    <2>7. Contract!Fail(c)
      BY <2>3, <2>6 DEF Contract!Fail, Contract!Tell, Answers
    <2> QED
      BY <2>7 DEF ContractStep, Contract!Next
  <1>3. CASE ~call[c].awaited
    BY <1>1, <1>3, NothingNew DEF FailCall
  <1> QED
    BY <1>2, <1>3

\* After a retryable error the caller hears nothing, or of a failure.
LEMMA GoOnContract ==
  ASSUME IInv, NEW c \in Calls, GoOn(c)
  PROVE  ContractStep
  <1>1. call \in [Calls -> Call] /\ call[c] \in Call
    BY DEF IInv, TypeOK
  <1>2. CASE call[c].attempt = RetryAttempts
    <2> DEFINE rest == [call[c] EXCEPT !.at = "out"]
    <2>1. rest \in Call /\ rest.told = call[c].told /\ rest.awaited = call[c].awaited
      BY <1>1 DEF Call
    <2>2. FailCall(c, rest)
      BY <1>2 DEF GoOn
    <2> HIDE DEF rest
    <2> QED
      BY <2>1, <2>2, FailsOnce
  <1>3. CASE call[c].attempt # RetryAttempts
    <2> DEFINE k == [call[c] EXCEPT !.at = "sleep"]
    <2>1. k \in Call /\ k.told = call[c].told /\ k.awaited = call[c].awaited
      BY <1>1 DEF Call
    <2>2. call' = [call EXCEPT ![c] = k] /\ UNCHANGED breaker
      BY <1>1, <1>3 DEF GoOn
    <2> HIDE DEF k
    <2> QED
      BY <1>1, <2>1, <2>2, NothingNew
  <1> QED
    BY <1>2, <1>3

\* Nobody has called, and the breaker is closed.
LEMMA ContractInit == Init => Contract!Init
  BY DEF Init, Contract!Init, Mode, Answer, Free

\* Every step of the gateway is a step of the contract, or none.
LEMMA ContractNext == IInv /\ [Next]_vars => ContractStep
  <1> SUFFICES ASSUME IInv, [Next]_vars PROVE ContractStep
    OBVIOUS
  <1>0. breaker \in Breaker /\ call \in [Calls -> Call] /\ \A c \in Calls : call[c] \in Call
    BY DEF IInv, TypeOK
  <1>1. CASE HalfOpen
    <2>1. breaker' \in Breaker /\ breaker'.state = "halfOpen" /\ breaker'.pendingClose
      BY <1>0, <1>1 DEF HalfOpen, Breaker
    <2>2. \A c \in Calls : Answers[c] # "waiting"
      BY <1>0, <1>1, AnswerOf DEF HalfOpen, TimersRanOut, Answers
    <2>3. Mode = "open" /\ Mode' = "trial" /\ UNCHANGED Answers
      BY <1>1, <2>1 DEF HalfOpen, Mode, Answers
    <2>4. Contract!OfferTrial
      BY <2>2, <2>3 DEF Contract!OfferTrial, Answers
    <2> QED
      BY <2>4 DEF ContractStep, Contract!Next
  <1>2. CASE Forget
    <2>1. breaker'.state = breaker.state /\ breaker'.pendingClose = breaker.pendingClose
      BY <1>0, <1>2 DEF Forget, Breaker
    <2> QED
      BY <1>2, <2>1 DEF Forget, ContractStep, Mode, Answers
  <1>3. CASE Outage
    BY <1>3 DEF Outage, ContractStep, Mode, Answers
  <1>4. ASSUME NEW c \in Calls, Fire(c) PROVE ContractStep
    <2>1. Answers[c] = "none"
      BY <1>4, AnswerOf, FreeCall DEF Fire, Answers
    <2>2. CASE Rejects
      <3> DEFINE k == [Free EXCEPT !.told = "rejection"]
      <3>1. k \in Call /\ k.told = "rejection" /\ ~k.awaited
        BY FreeCall DEF Call
      <3>2. breaker' = [breaker EXCEPT !.fires = @ + 1] /\ call' = [call EXCEPT ![c] = k]
        BY <1>0, <1>4, <2>2 DEF Fire
      <3> HIDE DEF k
      <3>3. Answers' = [Answers EXCEPT ![c] = "rejection"]
        BY <1>0, <3>1, <3>2, OneTold, AnswerOf
      <3>4. Mode' = Mode
        BY <1>0, <3>2 DEF Mode, Breaker
      <3>5. Mode \in {"open", "probing"}
        BY <1>0, <2>2 DEF Rejects, Mode, Breaker
      <3>6. Contract!TurnAway(c)
        BY <2>1, <3>3, <3>4, <3>5 DEF Contract!TurnAway, Contract!Tell, Answers
      <3> QED
        BY <3>6 DEF ContractStep, Contract!Next
    <2>3. CASE ~Rejects
      <3> DEFINE k == [Free EXCEPT !.awaited = TRUE, !.at = "request",
                                   !.attempt = 1, !.data = Argument(c)]
      <3>1. k.awaited
        BY DEF Free
      <3>2. /\ breaker' = [breaker EXCEPT !.fires = @ + 1, !.pendingClose = FALSE]
            /\ call' = [call EXCEPT ![c] = k]
        BY <1>4, <2>3 DEF Fire
      <3>10. k \in Call
        BY FreeCall, OneAttempt DEF Call, Argument
      <3> HIDE DEF k
      <3>3. Answers' = [Answers EXCEPT ![c] = "waiting"]
        BY <1>0, <3>1, <3>10, <3>2, OneTold, AnswerOf
      <3>4. Mode \in {"closed", "trial"}
        BY <1>0, <2>3 DEF Rejects, Mode, Breaker, IInv, Waiting
      <3>5. breaker'.state = breaker.state /\ ~breaker'.pendingClose
        BY <1>0, <3>2 DEF Breaker
      <3>6. Mode' = IF Mode = "trial" THEN "probing" ELSE Mode
        BY <1>0, <3>4, <3>5 DEF Mode, Breaker
      <3>7. Contract!Admit(c)
        BY <2>1, <3>3, <3>4, <3>6 DEF Contract!Admit, Contract!Tell, Answers
      <3> QED
        BY <3>7 DEF ContractStep, Contract!Next
    <2> QED
      BY <2>2, <2>3
  <1>5. ASSUME NEW c \in Calls, Return(c) PROVE ContractStep
    <2>1. call[c].told # "nothing" /\ ~call[c].awaited
      BY <1>5 DEF Return, IInv, Waiting
    <2>2. call[c].told \in {"error", "rejection"} \cup Calls
      BY <1>0, <2>1 DEF Call
    <2>3. Answers[c] \in {"response", "error", "rejection"}
      BY <1>0, <2>1, <2>2, AnswerOf DEF Answers
    <2>4. Answers' = [Answers EXCEPT ![c] = "none"]
      BY <1>0, <1>5, OneTold, AnswerOf, FreeCall DEF Return
    <2>5. Mode' = Mode
      BY <1>5 DEF Return, Mode
    <2>6. Contract!Leave(c)
      BY <2>3, <2>4, <2>5 DEF Contract!Leave, Contract!Tell, Answers
    <2> QED
      BY <2>6 DEF ContractStep, Contract!Next
  <1>6. ASSUME NEW c \in Calls, BreakerTimeout(c) PROVE ContractStep
    BY <1>0, <1>6, FailsOnce DEF BreakerTimeout
  <1>7. ASSUME NEW c \in Calls, Respond(c) PROVE ContractStep
    <2>0. PICK status \in {"ok", "serverError"} : RespondWith(c, status)
      BY <1>7 DEF Respond
    <2> DEFINE rest == Answered(call[c], status)
               k == [rest EXCEPT !.told = rest.data, !.awaited = FALSE]
    <2>1. /\ rest \in Call /\ rest.told = call[c].told /\ rest.awaited = call[c].awaited
          /\ rest.data = call[c].data
      BY <1>0, AnsweredCall
    <2>2. call[c].data = c
      BY <1>7 DEF Respond, IInv, OwnResponse
    <2>3. CASE call[c].awaited
      <3>1. k \in Call /\ k.told = c /\ ~k.awaited
        BY <2>1, <2>2 DEF Call
      <3>2. CountSuccess /\ call' = [call EXCEPT ![c] = k]
        BY <2>0, <2>3 DEF RespondWith, Answered
      <3> HIDE DEF k
      <3>3. Answers[c] = "waiting" /\ Answers' = [Answers EXCEPT ![c] = "response"]
        BY <1>0, <2>3, <3>1, <3>2, OneTold, AnswerOf DEF Answers
      <3>4. breaker.state = "halfOpen" => ~breaker.pendingClose
        BY <2>3 DEF IInv, OneProbe
      <3>5. Mode' = IF Mode = "probing" THEN "closed" ELSE Mode
        BY <1>0, <3>2, <3>4 DEF CountSuccess, Mode, Breaker
      <3>6. Contract!Succeed(c)
        BY <3>3, <3>5 DEF Contract!Succeed, Contract!Tell, Answers
      <3> QED
        BY <3>6 DEF ContractStep, Contract!Next
    <2>4. CASE ~call[c].awaited
      <3>1. UNCHANGED breaker /\ call' = [call EXCEPT ![c] = rest]
        BY <2>0, <2>4 DEF RespondWith, Answered
      <3> HIDE DEF rest
      <3> QED
        BY <1>0, <2>1, <3>1, NothingNew
    <2> QED
      BY <2>3, <2>4
  <1>8. ASSUME NEW c \in Calls, Refuse(c) PROVE ContractStep
    BY <1>8, GoOnContract DEF Refuse
  <1>9. ASSUME NEW c \in Calls, Throw(c) PROVE ContractStep
    <2> DEFINE rest == [call[c] EXCEPT !.at = "out"]
    <2>1. rest \in Call /\ rest.told = call[c].told /\ rest.awaited = call[c].awaited
      BY <1>0 DEF Call
    <2>2. FailCall(c, rest)
      BY <1>9 DEF Throw
    <2> HIDE DEF rest
    <2> QED
      BY <2>1, <2>2, FailsOnce
  <1>10. ASSUME NEW c \in Calls, Hang(c) PROVE ContractStep
    <2> DEFINE k == [call[c] EXCEPT !.at = "hung"]
    <2>1. k \in Call /\ k.told = call[c].told /\ k.awaited = call[c].awaited
      BY <1>0 DEF Call
    <2>2. call' = [call EXCEPT ![c] = k] /\ UNCHANGED breaker
      BY <1>0, <1>10 DEF Hang
    <2> HIDE DEF k
    <2> QED
      BY <1>0, <2>1, <2>2, NothingNew
  <1>11. ASSUME NEW c \in Calls, RequestTimeout(c) PROVE ContractStep
    BY <1>11, GoOnContract DEF RequestTimeout
  <1>12. ASSUME NEW c \in Calls, Retry(c) PROVE ContractStep
    <2> DEFINE k == [call[c] EXCEPT !.at = "request", !.attempt = @ + 1]
    <2>1. Answer(k) = Answer(call[c])
      BY <1>0 DEF Call, Answer
    <2>2. call' = [call EXCEPT ![c] = k] /\ UNCHANGED breaker
      BY <1>0, <1>12 DEF Retry
    <2> HIDE DEF k
    <2>3. UNCHANGED Answers
      BY <1>0, <2>1, <2>2 DEF Answers
    <2> QED
      BY <2>2, <2>3 DEF ContractStep, Mode
  <1>13. CASE UNCHANGED vars
    BY <1>13 DEF vars, ContractStep, Mode, Answers
  <1> QED
    BY <1>1, <1>2, <1>3, <1>4, <1>5, <1>6, <1>7, <1>8, <1>9, <1>10, <1>11, <1>12, <1>13
       DEF Next, Settle

\* proxyWithResilience keeps the contract of the breaker, for any number of
\* calls, attempts and thresholds.
THEOREM GatewayKeepsContract == Spec => KeepsBreakerContract
  <1>1. IInv /\ [Next]_vars => [Contract!Next]_Contract!vars
    BY ContractNext DEF ContractStep, Contract!vars, Answers
  <1> QED
    BY <1>1, ContractInit, GatewayInvariance, PTL
       DEF Spec, KeepsBreakerContract, Contract!Spec
-----------------------------------------------------------------------------
(* Every call runs down: what CallsEnd needs besides fairness               *)

\* The steps a call can take at most: three per attempt, sending, waiting for axios'
\* timeout and sleeping, and telling the caller.
Rank(at) == CASE at = "request" -> 3 [] at = "hung" -> 2 [] at = "sleep" -> 1 [] OTHER -> 0

StepsLeft(k) ==
  IF k.at = "out" THEN 0
  ELSE 3 * (RetryAttempts - k.attempt) + Rank(k.at) + (IF k.awaited THEN 1 ELSE 0)

\* A step that changes a call under way brings it nearer to its end, and when
\* withRetry is through its caller has been told something.
CallsRunDown ==
  [][\A c \in Calls :
       call[c].at # "out" /\ call'[c] # call[c] =>
         /\ StepsLeft(call'[c]) < StepsLeft(call[c])
         /\ call'[c].at = "out" => call'[c].told # "nothing"]_vars

\* One step of one call: how it may go on from k.
Nearer(k, m) ==
  /\ StepsLeft(m) < StepsLeft(k)
  /\ m.at = "out" => m.told # "nothing"

LEMMA StepsLeftBounded ==
  ASSUME NEW k \in Call, k.at # "out", k.attempt > 0
  PROVE  StepsLeft(k) \in 1 .. 3 * RetryAttempts + 1
  <1>1. /\ k.attempt \in 1 .. RetryAttempts /\ RetryAttempts \in Nat
        /\ k.at \in {"request", "hung", "sleep"} /\ k.awaited \in BOOLEAN
    BY DEF Call
  <1> DEFINE n == IF k.awaited THEN 1 ELSE 0
             x == Rank(k.at)
  <1>2. n \in 0 .. 1 /\ x \in 1 .. 3
    BY <1>1 DEF Rank
  <1>3. StepsLeft(k) = 3 * (RetryAttempts - k.attempt) + x + n
    BY DEF StepsLeft
  <1> HIDE DEF n, x
  <1>4. 3 * (RetryAttempts - k.attempt) + x + n \in 1 .. 3 * RetryAttempts + 1
    BY <1>1, <1>2
  <1> QED
    BY <1>3, <1>4

\* Of two calls at the same attempt the one further on, or no longer awaited, is nearer.
LEMMA FurtherOn ==
  ASSUME NEW k \in Call, k.at # "out", k.attempt > 0, NEW m \in Call, m.at # "out",
         m.attempt = k.attempt, m.awaited => k.awaited, Rank(m.at) <= Rank(k.at),
         Rank(m.at) < Rank(k.at) \/ m.awaited # k.awaited
  PROVE  StepsLeft(m) < StepsLeft(k)
  <1> DEFINE n == IF k.awaited THEN 1 ELSE 0  i == IF m.awaited THEN 1 ELSE 0
             x == Rank(k.at)  y == Rank(m.at)  z == 3 * (RetryAttempts - k.attempt)
  <1>1. n \in 0 .. 1 /\ i \in 0 .. 1 /\ i <= n /\ (m.awaited # k.awaited => i < n)
    BY DEF Call
  <1>2. x \in Nat /\ y \in Nat
    BY DEF Rank
  <1>3. z \in Nat
    <2>1. k.attempt \in 0 .. RetryAttempts /\ RetryAttempts \in Nat
      BY DEF Call
    <2> QED
      BY <2>1
  <1>4. StepsLeft(k) = z + x + n /\ StepsLeft(m) = z + y + i
    BY DEF StepsLeft
  <1>5. y <= x /\ (y < x \/ i < n)
    BY <1>1
  <1> HIDE DEF n, i, x, y, z
  <1> QED
    BY <1>1, <1>2, <1>3, <1>4, <1>5

\* A call that comes to an error is nearer to its end.
LEMMA FailNearer ==
  ASSUME IInv, NEW c \in Calls, call[c].at # "out", NEW rest \in Call,
         rest = [call[c] EXCEPT !.at = rest.at], FailCall(c, rest),
         rest.at = "out" \/ (rest.at = call[c].at /\ call[c].awaited)
  PROVE  Nearer(call[c], call'[c])
  <1>1. call \in [Calls -> Call] /\ call[c] \in Call /\ call[c].attempt > 0
    BY DEF IInv, TypeOK, Waiting
  <1>2. /\ rest.told = call[c].told /\ rest.awaited = call[c].awaited
        /\ rest.attempt = call[c].attempt
    BY <1>1 DEF Call
  <1>3. ~call[c].awaited => call[c].told = "error"
    BY DEF IInv, ResponseEndsCall
  <1> DEFINE m == [rest EXCEPT !.told = "error", !.awaited = FALSE]
  <1>4. /\ m \in Call /\ m.told = "error" /\ ~m.awaited /\ m.at = rest.at
        /\ m.attempt = rest.attempt
    BY DEF Call
  <1>5. call'[c] = IF call[c].awaited THEN m ELSE rest
    BY <1>1 DEF FailCall
  <1> HIDE DEF m
  <1>6. call'[c] \in Call /\ call'[c].at = rest.at /\ call'[c].told = "error"
        /\ ~call'[c].awaited /\ call'[c].attempt = call[c].attempt
    BY <1>2, <1>3, <1>4, <1>5
  <1>7. CASE rest.at = "out"
    <2>1. StepsLeft(call'[c]) = 0
      BY <1>6, <1>7 DEF StepsLeft
    <2>2. StepsLeft(call[c]) \in 1 .. 3 * RetryAttempts + 1
      BY <1>1, StepsLeftBounded
    <2> QED
      BY <1>6, <2>1, <2>2 DEF Nearer
  <1>8. CASE rest.at = call[c].at /\ call[c].awaited
    <2>1. Rank(call'[c].at) <= Rank(call[c].at)
      BY <1>6, <1>8 DEF Rank
    <2>2. StepsLeft(call'[c]) < StepsLeft(call[c])
      BY <1>1, <1>6, <1>8, <2>1, FurtherOn
    <2> QED
      BY <1>6, <2>2 DEF Nearer
  <1> QED
    BY <1>7, <1>8

\* So is one that gives up or goes to sleep, and one that hangs.
LEMMA PlaceNearer ==
  ASSUME IInv, NEW c \in Calls, call[c].at # "out", NEW at \in {"hung", "sleep"},
         Rank(at) < Rank(call[c].at), call' = [call EXCEPT ![c].at = at]
  PROVE  Nearer(call[c], call'[c])
  <1>1. call \in [Calls -> Call] /\ call[c] \in Call /\ call[c].attempt > 0
    BY DEF IInv, TypeOK, Waiting
  <1>2. /\ call'[c] \in Call /\ call'[c].at = at /\ call'[c].attempt = call[c].attempt
        /\ call'[c].awaited = call[c].awaited
    BY <1>1 DEF Call
  <1>3. Rank(call'[c].at) <= Rank(call[c].at)
    BY <1>2 DEF Rank
  <1>4. StepsLeft(call'[c]) < StepsLeft(call[c])
    BY <1>1, <1>2, <1>3, FurtherOn
  <1> QED
    BY <1>2, <1>4 DEF Nearer

LEMMA GoOnNearer ==
  ASSUME IInv, NEW c \in Calls, call[c].at \in {"request", "hung"}, GoOn(c)
  PROVE  Nearer(call[c], call'[c])
  <1>1. CASE call[c].attempt = RetryAttempts
    <2> DEFINE rest == [call[c] EXCEPT !.at = "out"]
    <2>1. rest \in Call /\ rest.at = "out" /\ rest = [call[c] EXCEPT !.at = rest.at]
      BY DEF Call, IInv, TypeOK
    <2>2. FailCall(c, rest)
      BY <1>1 DEF GoOn
    <2> HIDE DEF rest
    <2> QED
      BY <2>1, <2>2, FailNearer
  <1>2. CASE call[c].attempt # RetryAttempts
    BY <1>2, PlaceNearer DEF GoOn, Rank
  <1> QED
    BY <1>1, <1>2

\* Sleeping ends with the next attempt.
LEMMA RetryNearer ==
  ASSUME IInv, NEW c \in Calls, Retry(c) PROVE Nearer(call[c], call'[c])
  <1>1. /\ call \in [Calls -> Call] /\ call[c] \in Call /\ call[c].at = "sleep"
    BY DEF IInv, TypeOK, Retry
  <1>2. /\ call[c].attempt \in Nat /\ RetryAttempts \in Nat
    BY <1>1 DEF Call
  <1>3. /\ call'[c].at = "request" /\ call'[c].attempt = call[c].attempt + 1
        /\ call'[c].awaited = call[c].awaited
    BY <1>1 DEF Retry, Call
  <1> DEFINE n == IF call[c].awaited THEN 1 ELSE 0  a == call[c].attempt
  <1>4. n \in 0 .. 1
    OBVIOUS
  <1>5. /\ StepsLeft(call[c]) = 3 * (RetryAttempts - a) + 1 + n
        /\ StepsLeft(call'[c]) = 3 * (RetryAttempts - (a + 1)) + 3 + n
    BY <1>1, <1>3 DEF StepsLeft, Rank
  <1> HIDE DEF n
  <1>6. StepsLeft(call'[c]) < StepsLeft(call[c])
    BY <1>2, <1>4, <1>5
  <1> QED
    BY <1>3, <1>6 DEF Nearer

LEMMA RespondNearer ==
  ASSUME IInv, NEW c \in Calls, Respond(c) PROVE Nearer(call[c], call'[c])
  <1>1. /\ call \in [Calls -> Call] /\ call[c] \in Call /\ call[c].at = "request"
        /\ call[c].attempt > 0 /\ call[c].data = c
        /\ ~call[c].awaited => call[c].told = "error"
    BY DEF IInv, TypeOK, Respond, Waiting, OwnResponse, ResponseEndsCall
  <1>0. PICK status \in {"ok", "serverError"} : RespondWith(c, status)
    BY DEF Respond
  <1> DEFINE rest == Answered(call[c], status)
             k == [rest EXCEPT !.told = rest.data, !.awaited = FALSE]
  <1>2. rest \in Call /\ rest.at = "out" /\ rest.data = c /\ rest.told = call[c].told
    BY <1>1, AnsweredCall
  <1>3. k.at = "out" /\ k.told = c
    BY <1>2 DEF Call
  <1>4. call'[c] = IF call[c].awaited THEN k ELSE rest
    BY <1>0, <1>1 DEF RespondWith, Answered
  <1> HIDE DEF rest, k
  <1>5. call'[c].at = "out" /\ call'[c].told # "nothing"
    BY <1>1, <1>2, <1>3, <1>4
  <1>6. StepsLeft(call'[c]) = 0
    BY <1>5 DEF StepsLeft
  <1>7. StepsLeft(call[c]) \in 1 .. 3 * RetryAttempts + 1
    BY <1>1, StepsLeftBounded
  <1> QED
    BY <1>5, <1>6, <1>7 DEF Nearer

\* Whatever the service, the timers and the other calls do, a call takes at most
\* three steps per attempt and one to tell its caller: with fairness, every call
\* ends.
THEOREM CallsGetNearer == Spec => CallsRunDown
  <1>1. ASSUME IInv, [Next]_vars, NEW c \in Calls, call[c].at # "out", call'[c] # call[c]
        PROVE  Nearer(call[c], call'[c])
    <2> USE <1>1
    <2>1. call \in [Calls -> Call] /\ call[c] \in Call
      BY DEF IInv, TypeOK
    <2>3. PICK d \in Calls : \/ BreakerTimeout(d) \/ Settle(d) \/ RequestTimeout(d) \/ Retry(d)
                            \/ Fire(d) \/ Return(d)
      BY DEF Next, HalfOpen, Forget, Outage, vars
    <2>4. \A e \in Calls \ {d} : call'[e] = call[e]
      <3>1. \A rest : FailCall(d, rest) => \A e \in Calls \ {d} : call'[e] = call[e]
        BY <2>1 DEF FailCall
      <3>2. GoOn(d) => \A e \in Calls \ {d} : call'[e] = call[e]
        BY <2>1, <3>1 DEF GoOn
      <3>3. Fire(d) \/ Return(d) \/ Retry(d) => \A e \in Calls \ {d} : call'[e] = call[e]
        BY <2>1 DEF Fire, Return, Retry
      <3>4. Respond(d) \/ Hang(d) => \A e \in Calls \ {d} : call'[e] = call[e]
        BY <2>1 DEF Respond, RespondWith, Hang
      <3>5. BreakerTimeout(d) \/ Throw(d) => \A e \in Calls \ {d} : call'[e] = call[e]
        BY <3>1 DEF BreakerTimeout, Throw
      <3> QED
        BY <2>3, <3>2, <3>3, <3>4, <3>5 DEF Settle, Refuse, RequestTimeout
    <2>5. d = c
      BY <2>4
    <2>6. CASE BreakerTimeout(c)
      <3>1. call[c] = [call[c] EXCEPT !.at = call[c].at] /\ call[c].awaited
        BY <2>1, <2>6 DEF Call, BreakerTimeout
      <3> QED
        BY <2>1, <2>6, <3>1, FailNearer DEF BreakerTimeout
    <2>7. CASE Refuse(c) \/ RequestTimeout(c)
      BY <2>7, GoOnNearer DEF Refuse, RequestTimeout
    <2>8. CASE Throw(c)
      <3> DEFINE rest == [call[c] EXCEPT !.at = "out"]
      <3>1. rest \in Call /\ rest.at = "out" /\ rest = [call[c] EXCEPT !.at = rest.at]
        BY <2>1 DEF Call
      <3>2. FailCall(c, rest)
        BY <2>8 DEF Throw
      <3> HIDE DEF rest
      <3> QED
        BY <3>1, <3>2, FailNearer
    <2>9. CASE Hang(c)
      <3>1. Rank("hung") < Rank("request") /\ call[c].at = "request"
        BY <2>9 DEF Hang, Rank
      <3>2. call' = [call EXCEPT ![c].at = "hung"]
        BY <2>9 DEF Hang
      <3> QED
        BY <3>1, <3>2, PlaceNearer
    <2>10. ~Fire(c) /\ ~Return(c)
      BY FreeCall DEF Fire, Return
    <2> QED
      BY <2>3, <2>5, <2>6, <2>7, <2>8, <2>9, <2>10, RetryNearer, RespondNearer DEF Settle
  <1>2. IInv /\ [Next]_vars =>
          \A c \in Calls :
            call[c].at # "out" /\ call'[c] # call[c] =>
              /\ StepsLeft(call'[c]) < StepsLeft(call[c])
              /\ call'[c].at = "out" => call'[c].told # "nothing"
    BY <1>1 DEF Nearer
  <1> QED
    BY <1>2, GatewayInvariance, PTL DEF Spec, CallsRunDown

=============================================================================
