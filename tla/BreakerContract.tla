--------------------------- MODULE BreakerContract ---------------------------
(***************************************************************************)
(* What the gateway's breaker promises its callers, without requests,      *)
(* retries, counts or timers.  Callers are admitted while it is closed and *)
(* turned away while it is open.  When everybody has been answered, an     *)
(* open breaker offers one trial; whoever takes it decides alone whether   *)
(* the breaker closes, and all others are turned away meanwhile.           *)
(***************************************************************************)
CONSTANT Calls

VARIABLES
  mode,   \* "closed", "open", "trial" (offered) or "probing" (taken)
  answer  \* per call: "none", "waiting", "response", "error" or "rejection"

vars == <<mode, answer>>

Init ==
  /\ mode = "closed"
  /\ answer = [c \in Calls |-> "none"]

Tell(c, what) == answer' = [answer EXCEPT ![c] = what]

Admit(c) ==
  /\ answer[c] = "none" /\ mode \in {"closed", "trial"}
  /\ mode' = IF mode = "trial" THEN "probing" ELSE mode
  /\ Tell(c, "waiting")

TurnAway(c) ==
  /\ answer[c] = "none" /\ mode \in {"open", "probing"}
  /\ Tell(c, "rejection")
  /\ UNCHANGED mode

\* The answer to a call admitted before the breaker opened does not close it.
Succeed(c) ==
  /\ answer[c] = "waiting"
  /\ mode' = IF mode = "probing" THEN "closed" ELSE mode
  /\ Tell(c, "response")

Fail(c) ==
  /\ answer[c] = "waiting"
  /\ mode' \in IF mode = "closed" THEN {"closed", "open"} ELSE {"open"}
  /\ Tell(c, "error")

Leave(c) ==
  /\ answer[c] \in {"response", "error", "rejection"}
  /\ Tell(c, "none")
  /\ UNCHANGED mode

OfferTrial ==
  /\ mode = "open" /\ \A c \in Calls : answer[c] # "waiting"
  /\ mode' = "trial"
  /\ UNCHANGED answer

Next ==
  \/ OfferTrial
  \/ \E c \in Calls : Admit(c) \/ TurnAway(c) \/ Succeed(c) \/ Fail(c) \/ Leave(c)

Spec == Init /\ [][Next]_vars
=============================================================================
