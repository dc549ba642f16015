------------------------- MODULE EnforcementContract -------------------------
(***************************************************************************)
(* What the moderation service promises about the actions it enforces,     *)
(* without requests, reads, writes or tables.  An action a moderator takes *)
(* is in force at once, ends only for a cause (somebody contested it or    *)
(* its time is over) and never comes back.  An AI proposal carries no such *)
(* promise: approvals and rejections of it may overtake one another.       *)
(***************************************************************************)
CONSTANT Actions

VARIABLES
  phase,      \* "none", "proposed", "inForce" or "over"
  proposals,  \* actions that began as a proposal of the AI
  contested,  \* actions somebody has appealed against
  lapsed      \* actions whose time is over

vars == <<phase, proposals, contested, lapsed>>

Init ==
  /\ phase = [a \in Actions |-> "none"]
  /\ proposals = {}
  /\ contested = {}
  /\ lapsed = {}

Impose(a) ==
  /\ phase[a] = "none"
  /\ phase' = [phase EXCEPT ![a] = "inForce"]
  /\ UNCHANGED <<proposals, contested, lapsed>>

Propose(a) ==
  /\ phase[a] = "none"
  /\ phase' = [phase EXCEPT ![a] = "proposed"]
  /\ proposals' = proposals \cup {a}
  /\ UNCHANGED <<contested, lapsed>>

Adopt(a) ==
  /\ a \in proposals
  /\ phase' = [phase EXCEPT ![a] = "inForce"]
  /\ UNCHANGED <<proposals, contested, lapsed>>

Contest(a) ==
  /\ phase[a] # "none"
  /\ contested' = contested \cup {a}
  /\ UNCHANGED <<phase, proposals, lapsed>>

Lapse(a) ==
  /\ phase[a] # "none"
  /\ lapsed' = lapsed \cup {a}
  /\ UNCHANGED <<phase, proposals, contested>>

\* Some actions end together, each of them for a cause.
Cease(S) ==
  /\ \A a \in S : phase[a] # "none" /\ a \in proposals \cup contested \cup lapsed
  /\ phase' = [a \in Actions |-> IF a \in S THEN "over" ELSE phase[a]]
  /\ UNCHANGED <<proposals, contested, lapsed>>

Next ==
  \/ \E a \in Actions : Impose(a) \/ Propose(a) \/ Adopt(a) \/ Contest(a) \/ Lapse(a)
  \/ \E S \in SUBSET Actions : Cease(S)

Spec == Init /\ [][Next]_vars
=============================================================================
