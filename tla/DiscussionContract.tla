-------------------------- MODULE DiscussionContract --------------------------
(***************************************************************************)
(* What the discussion service promises about discussions, without         *)
(* transactions, locks, topics, moderation or faults: posts happen one     *)
(* after the other, each all at once.  A post adds one response, which     *)
(* answers an earlier one of the same discussion or none, and one to the   *)
(* counts kept beside it; it keeps its number, its author and its parent   *)
(* for good.  Only the number of participants may be out of date.          *)
(***************************************************************************)
EXTENDS Naturals, FiniteSets

CONSTANTS Discussions, Users, Ids

VARIABLES
  thread,      \* the responses of a discussion
  shown,       \* how many it says it has
  written,     \* how many each user is said to have written in it
  participants \* how many users it says have written in it

vars == <<thread, shown, written, participants>>

Numbers(d) == {x.id : x \in thread[d]}

Init ==
  /\ thread = [d \in Discussions |-> {}]
  /\ shown = [d \in Discussions |-> 0]
  /\ written = [d \in Discussions |-> [u \in Users |-> 0]]
  /\ participants = [d \in Discussions |-> 0]

\* The discussion and the user have one response more.
Count(d, u) ==
  /\ shown' = [shown EXCEPT ![d] = @ + 1]
  /\ written' = [written EXCEPT ![d] = [@ EXCEPT ![u] = written[d][u] + 1]]

Add(d, u, i, p) ==
  /\ \A e \in Discussions : i \notin Numbers(e)
  /\ thread' = [thread EXCEPT ![d] = @ \cup {[id |-> i, author |-> u, parent |-> p]}]

Open(d, u, i) ==
  /\ thread[d] = {}
  /\ Add(d, u, i, 0)
  /\ participants' = [participants EXCEPT ![d] = 1]

Post(d, u, i, p) ==
  /\ thread[d] # {}
  /\ p = 0 \/ (p \in Numbers(d) /\ p < i)
  /\ Add(d, u, i, p)
  /\ \E n \in 1 .. Cardinality({v \in Users : written'[d][v] > 0}) :
       participants' = [participants EXCEPT ![d] = n]

Next ==
  \E d \in Discussions, u \in Users :
    /\ Count(d, u)
    /\ \E i \in Ids : Open(d, u, i) \/ \E p \in Ids \cup {0} : Post(d, u, i, p)

Spec == Init /\ [][Next]_vars
=============================================================================
