--------------------------- MODULE DeliveryContract ---------------------------
(***************************************************************************)
(* What publisher, queues, subscribers and dead-letter handler promise     *)
(* together about events, without messages, receipts, loops or faults:     *)
(* delivery at least once, to handlers in their order.  An event owed to   *)
(* the handlers stops being owed only when all of them have succeeded or   *)
(* somebody dropped it.  It may be owed again later, because the           *)
(* dead-letter handler sends copies.                                       *)
(***************************************************************************)
EXTENDS Naturals

CONSTANTS Events, Handlers

VARIABLES
  accepted, \* events the queue has accepted from the publisher
  owed,     \* events still to be delivered
  answered, \* <<e, h>>: handler h has succeeded on event e
  dropped   \* events somebody decided not to deliver

vars == <<accepted, owed, answered, dropped>>

Steps == 1 .. Handlers

Settled(e) == e \in dropped \/ \A h \in Steps : <<e, h>> \in answered

Init == accepted = {} /\ owed = {} /\ answered = {} /\ dropped = {}

Accept(e) ==
  /\ e \notin accepted
  /\ accepted' = accepted \cup {e} /\ owed' = owed \cup {e}
  /\ UNCHANGED <<answered, dropped>>

Answer(e, h) ==
  /\ e \in accepted /\ \A g \in 1 .. h - 1 : <<e, g>> \in answered
  /\ answered' = answered \cup {<<e, h>>}
  /\ UNCHANGED <<accepted, owed, dropped>>

Drop(e) ==
  /\ e \in accepted
  /\ dropped' = dropped \cup {e}
  /\ UNCHANGED <<accepted, owed, answered>>

Release(e) ==
  /\ Settled(e)
  /\ owed' = owed \ {e}
  /\ UNCHANGED <<accepted, answered, dropped>>

Return(e) ==
  /\ e \in accepted
  /\ owed' = owed \cup {e}
  /\ UNCHANGED <<accepted, answered, dropped>>

Next ==
  \E e \in Events :
    \/ Accept(e) \/ Drop(e) \/ Release(e) \/ Return(e)
    \/ \E h \in Steps : Answer(e, h)

Spec == Init /\ [][Next]_vars
=============================================================================
