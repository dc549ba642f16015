------------------------------- MODULE Gateway -------------------------------
(***************************************************************************)
(* One upstream service as the API gateway calls it: proxyWithResilience   *)
(* of proxy.service.ts fires the service's circuit breaker, whose action   *)
(* is withRetry around one axios request.                                  *)
(*                                                                         *)
(* The breaker is opossum's and external.  It is created once per service  *)
(* and shared by all calls.  Its timer answers the caller; it does not     *)
(* stop withRetry, whose later attempts go on without anybody waiting, and *)
(* whose result the breaker then ignores.                                  *)
(***************************************************************************)
EXTENDS Naturals

CONSTANTS
  Calls,           \* calls that may be under way at a time
  NoData,          \* no request
  RetryAttempts,   \* maxAttempts of withRetry: 3, or 2 for the AI service
  VolumeThreshold, \* calls the breaker must have seen before it trips
  ErrorThreshold,  \* percentage of failures it tolerates
  MaxFires         \* bound on the calls, and on the failures, counted in one window

ASSUME GatewayAssumption ==
  /\ Calls \cap {"nothing", "rejection", "error"} = {} /\ NoData \notin Calls
  /\ RetryAttempts \in Nat \ {0}
  /\ {VolumeThreshold, ErrorThreshold, MaxFires} \subseteq Nat

VARIABLES
  breaker, \* the breaker: its state, pendingClose and the counts of its window
  call,    \* the calls: what each was told, where its withRetry stands
  up       \* the service answers in time

vars == <<breaker, call, up>>

-----------------------------------------------------------------------------
(* told: what breaker.fire has given the caller.  at: where withRetry       *)
(* stands; a request that hangs will end by axios' own timeout only.  data:  *)
(* the request withRetry executes.  status: that of the HTTP response, if one   *)
(* has come; serverError is any 5xx.                                         *)

Breaker == [state : {"closed", "open", "halfOpen"}, pendingClose : BOOLEAN,
            fires : Nat, failures : Nat]

Call == [told    : {"nothing", "rejection", "error"} \cup Calls,
         awaited : BOOLEAN,
         at      : {"out", "request", "hung", "sleep"},
         attempt : 0 .. RetryAttempts,
         data    : Calls \cup {NoData},
         status  : {"none", "ok", "serverError"}]

Free == [told |-> "nothing", awaited |-> FALSE, at |-> "out", attempt |-> 0,
         data |-> NoData, status |-> "none"]

Init ==
  /\ breaker = [state |-> "closed", pendingClose |-> FALSE, fires |-> 0, failures |-> 0]
  /\ call = [c \in Calls |-> Free]
  /\ up = TRUE

-----------------------------------------------------------------------------
(* The breaker                                                              *)

\* The first failure too many opens it; any failure does while it is half open.
Trips(b) ==
  \/ b.state = "halfOpen"
  \/ /\ b.fires >= VolumeThreshold
     /\ 100 * b.failures > ErrorThreshold * b.fires

CountFailure ==
  LET b == [breaker EXCEPT !.failures = @ + 1]
  IN  breaker' = IF Trips(b) /\ b.state # "open"
                 THEN [b EXCEPT !.state = "open", !.pendingClose = FALSE]
                 ELSE b

CountSuccess ==
  breaker' = IF breaker.state = "halfOpen"
             THEN [breaker EXCEPT !.state = "closed", !.pendingClose = FALSE]
             ELSE breaker

\* The error handed to the caller, unless the breaker's timer was faster.
FailCall(c, rest) ==
  IF call[c].awaited
  THEN /\ CountFailure
       /\ call' = [call EXCEPT ![c] = [rest EXCEPT !.told = "error", !.awaited = FALSE]]
  ELSE /\ UNCHANGED breaker
       /\ call' = [call EXCEPT ![c] = rest]

\* Mutant: the reset timeout is shorter than that of a call.
ResetsEarly == \A c \in Calls : TRUE

\* With the default configuration the reset timer runs six times as long as the
\* timer of a call (as long, for the AI service): it expires when the calls
\* admitted before have been told.
TimersRanOut == \A c \in Calls : ~call[c].awaited

HalfOpen ==
  /\ breaker.state = "open"
  /\ TimersRanOut
  /\ breaker' = [breaker EXCEPT !.state = "halfOpen", !.pendingClose = TRUE]
  /\ UNCHANGED <<call, up>>

\* Older counts leave the window.  A call is counted when it is fired and its
\* failure later, so failures may be left of calls that are forgotten already.
Forget ==
  \E f \in 0 .. breaker.fires, g \in 0 .. breaker.failures :
    /\ breaker' = [breaker EXCEPT !.fires = f, !.failures = g]
    /\ UNCHANGED <<call, up>>

-----------------------------------------------------------------------------
(* proxyWithResilience                                                      *)

\* Mutant: a half-open breaker lets every call through.
RejectsOpenOnly == breaker.state = "open"

Rejects == breaker.state # "closed" /\ ~breaker.pendingClose

\* Mutant: the breaker is created with the first request captured (the deprecated create).
Captured(c) == CHOOSE d \in Calls : TRUE

\* The request the action of the breaker executes: the one given to fire().
Argument(c) == c

Fire(c) ==
  /\ call[c] = Free
  /\ breaker.fires < MaxFires /\ breaker.failures < MaxFires
  /\ IF Rejects
     THEN /\ breaker' = [breaker EXCEPT !.fires = @ + 1]
          /\ call' = [call EXCEPT ![c].told = "rejection"]
     ELSE /\ breaker' = [breaker EXCEPT !.fires = @ + 1, !.pendingClose = FALSE]
          /\ call' = [call EXCEPT ![c] = [Free EXCEPT !.awaited = TRUE, !.at = "request",
                                                     !.attempt = 1, !.data = Argument(c)]]
  /\ UNCHANGED up

\* The controller passes on what it was told; nothing of the call is left.
Return(c) ==
  /\ call[c].told # "nothing" /\ call[c].at = "out"
  /\ call' = [call EXCEPT ![c] = Free]
  /\ UNCHANGED <<breaker, up>>

\* Mutant: the breaker's timeout is below the time the service normally takes.
AlwaysLate(c) == call[c].awaited

\* The breaker's timer, of the same length as that of one request.  A first
\* request to a service that answers in time is never that late.
Late(c) == call[c].at # "request" \/ call[c].attempt > 1 \/ ~up

BreakerTimeout(c) ==
  /\ call[c].awaited /\ Late(c)
  /\ FailCall(c, call[c])
  /\ UNCHANGED up

-----------------------------------------------------------------------------
(* withRetry around executeRequest                                          *)

\* Mutant: axios' default validateStatus: a status outside 200..299 is an error.
RespondOrThrow(c) ==
  /\ up /\ call[c].at = "request"
  /\ \E status \in {"ok", "serverError"} :
       call' = [call EXCEPT ![c].at = "sleep", ![c].status = status]
  /\ UNCHANGED <<breaker, up>>

\* A status and all, the response is a result: validateStatus accepts any.
RespondWith(c, status) ==
  LET rest == [call[c] EXCEPT !.at = "out", !.status = status]
  IN  IF call[c].awaited
      THEN /\ CountSuccess
           /\ call' = [call EXCEPT ![c] = [rest EXCEPT !.told = rest.data, !.awaited = FALSE]]
      ELSE /\ UNCHANGED breaker
           /\ call' = [call EXCEPT ![c] = rest]

Respond(c) ==
  /\ up /\ call[c].at = "request"
  /\ \E status \in {"ok", "serverError"} : RespondWith(c, status)
  /\ UNCHANGED up

\* Mutant: withRetry makes one attempt more than it is allowed.
GoOnOnce(c) ==
  IF call[c].attempt > RetryAttempts
  THEN FailCall(c, [call[c] EXCEPT !.at = "out"])
  ELSE /\ call' = [call EXCEPT ![c].at = "sleep"]
       /\ UNCHANGED breaker

\* A retryable error: sleep before the next attempt, or give up after the last.
GoOn(c) ==
  IF call[c].attempt = RetryAttempts
  THEN FailCall(c, [call[c] EXCEPT !.at = "out"])
  ELSE /\ call' = [call EXCEPT ![c].at = "sleep"]
       /\ UNCHANGED breaker

\* ECONNREFUSED, ECONNRESET and the like.
Refuse(c) ==
  /\ ~up /\ call[c].at = "request"
  /\ GoOn(c)
  /\ UNCHANGED up

\* An error isRetryableHttpError does not know.
Throw(c) ==
  /\ ~up /\ call[c].at = "request"
  /\ FailCall(c, [call[c] EXCEPT !.at = "out"])
  /\ UNCHANGED up

Hang(c) ==
  /\ ~up /\ call[c].at = "request"
  /\ call' = [call EXCEPT ![c].at = "hung"]
  /\ UNCHANGED <<breaker, up>>

\* axios' timeout starts after the breaker's and has the same length.
RequestTimeout(c) ==
  /\ call[c].at = "hung" /\ ~call[c].awaited
  /\ GoOn(c)
  /\ UNCHANGED up

\* Mutant: withRetry does not count its attempts.
RetryUncounted(c) ==
  /\ call[c].at = "sleep"
  /\ call' = [call EXCEPT ![c].at = "request"]
  /\ UNCHANGED <<breaker, up>>

Retry(c) ==
  /\ call[c].at = "sleep"
  /\ call' = [call EXCEPT ![c].at = "request", ![c].attempt = @ + 1]
  /\ UNCHANGED <<breaker, up>>

-----------------------------------------------------------------------------
Outage == up' = ~up /\ UNCHANGED <<breaker, call>>

Settle(c) == Respond(c) \/ Refuse(c) \/ Throw(c) \/ Hang(c)

Next ==
  \/ HalfOpen \/ Forget \/ Outage
  \/ \E c \in Calls : \/ Fire(c) \/ Return(c) \/ BreakerTimeout(c)
                      \/ Settle(c) \/ RequestTimeout(c) \/ Retry(c)

Spec == Init /\ [][Next]_vars

\* Timers expire, and a request is answered, refused or left hanging.
Fairness ==
  /\ WF_vars(HalfOpen)
  /\ \A c \in Calls : /\ WF_vars(BreakerTimeout(c)) /\ WF_vars(Settle(c))
                      /\ WF_vars(RequestTimeout(c)) /\ WF_vars(Retry(c))

FairSpec == Spec /\ Fairness

-----------------------------------------------------------------------------
(* Properties                                                               *)

\* Breaker and calls have their types.
TypeOK == breaker \in Breaker /\ call \in [Calls -> Call] /\ up \in BOOLEAN

\* A breaker that is half open tries the service with one call: nobody else is
\* waiting for it, whatever requests of told callers are still under way, and
\* before the trial nobody is.  Late results cannot close or open the breaker.
OneProbe ==
  breaker.state = "halfOpen" =>
    \A c \in Calls : call[c].awaited =>
      /\ ~breaker.pendingClose
      /\ \A d \in Calls : call[d].awaited => c = d

\* A retry nobody needs is not made: a call the service has answered makes no further
\* attempt, and the caller got the answer unless it had been told of a timeout
\* before.  A call that was rejected is never sent.  The answer may be a 5xx: that
\* one a comment wants retried, see ServerErrorsAreRetried.
ResponseEndsCall ==
  \A c \in Calls :
    /\ call[c].status # "none" => call[c].at = "out" /\ ~call[c].awaited
    /\ call[c].status # "none" /\ call[c].told # "error" => call[c].told = call[c].data
    /\ call[c].told = "rejection" => call[c].attempt = 0
    /\ call[c].at # "out" /\ ~call[c].awaited => call[c].told = "error"

\* "Automatically retries transient failures (5xx errors, timeouts, network errors)":
\* a 5xx does not end withRetry as long as attempts are left.
ServerErrorsAreRetried ==
  \A c \in Calls :
    call[c].status = "serverError" => call[c].at # "out" \/ call[c].attempt = RetryAttempts

\* Calls share one breaker, and still each executes its own request and is given
\* the response to that ("not a captured closure").
OwnResponse ==
  \A c \in Calls : /\ call[c].told \in Calls => call[c].told = c
                   /\ call[c].at # "out" => call[c].data = c

\* The breaker as its callers see it.
Mode ==
  IF breaker.state = "halfOpen"
  THEN IF breaker.pendingClose THEN "trial" ELSE "probing"
  ELSE breaker.state

Answer(k) ==
  IF k.awaited THEN "waiting"
  ELSE IF k.told = "nothing" THEN "none"
  ELSE IF k.told \in Calls THEN "response" ELSE k.told

Contract == INSTANCE BreakerContract
  WITH mode <- Mode, answer <- [c \in Calls |-> Answer(call[c])]

\* In spite of retries nobody waits for, late results and counts that are
\* forgotten, proxyWithResilience answers each call as the contract of the
\* breaker says: one trial after everybody was answered, and only its caller's
\* answer closes the breaker.
KeepsBreakerContract == Contract!Spec

\* However the service behaves, every caller is told something, and the attempts
\* nobody waits for any more come to an end as well.
CallsEnd ==
  \A c \in Calls :
    call[c].at # "out" ~> call[c].at = "out" /\ call[c].told # "nothing"

\* Once the service stays up the breaker stops rejecting for good: it is closed,
\* or half open and ready for its trial, or the trial is on its way.
Heals ==
  <>[]up => <>[](/\ breaker.state # "open"
                 /\ Rejects => \E c \in Calls : call[c].awaited /\ call[c].at = "request")

=============================================================================
