------------------------ MODULE EventDeliveryProofs ------------------------
(***************************************************************************)
(* Proofs about EventDelivery, for any number of events, messages,         *)
(* subscribers, loops, handlers and faults.  That nothing is lost rests on *)
(* what a delivery at its delete, and a dead-letter loop at its delete,    *)
(* already achieved, however stale their receipts are.                     *)
(***************************************************************************)
EXTENDS EventDelivery, TLAPS

\* A slot not yet used is blank, and a message leaves the queues only when
\* its event is settled.
MessageOK(i) ==
  /\ msg[i].place = "unused" => msg[i] = Unused
  /\ msg[i].place # "unused" => msg[i].event \in Events
  /\ msg[i].place = "deleted" => Settled(msg[i].event)

\* A delivery: the handlers before the one awaited have succeeded, and the
\* delete is reached only with a settled event.
DeliveryOK(l, i) ==
  /\ work[l][i] # 0 => msg[i].place # "unused"
  /\ work[l][i] \in Steps => \A h \in Steps : h < work[l][i] => <<msg[i].event, h>> \in answered
  /\ work[l][i] = Handlers + 1 => Settled(msg[i].event)

\* A dead-letter loop works on messages only, and deletes what was dropped.
WorkerOK(w) ==
  /\ \A i \in worker[w].batch : msg[i].place # "unused"
  /\ worker[w].at \in {"handle", "requeue", "delete"} =>
       worker[w].current \in Ids /\ msg[worker[w].current].place # "unused"
  /\ worker[w].at = "delete" => msg[worker[w].current].event \in dropped

HasMessage(e) == \E i \in Ids : msg[i].place # "unused" /\ msg[i].event = e

DInv ==
  /\ TypeOK
  /\ \A i \in Ids : MessageOK(i)
  /\ \A l \in Loops, i \in Ids : DeliveryOK(l, i)
  /\ \A w \in Workers : WorkerOK(w)
  /\ \A e \in published : HasMessage(e)
  /\ HandlersInOrder

-----------------------------------------------------------------------------
(* What the invariant says.                                                *)

\* An event whose messages are all deleted is settled.
LEMMA DInvNothingLost ==
  ASSUME DInv PROVE NothingLost
<1>1. SUFFICES ASSUME NEW e \in published, Live(e) = {} PROVE Settled(e)
  BY DEF NothingLost
<1>2. PICK i \in Ids : msg[i].place # "unused" /\ msg[i].event = e
  BY DEF DInv, HasMessage
<1>3. msg[i].place \in {"unused", "queue", "dlq", "deleted"}
  BY DEF DInv, TypeOK, Message
<1>4. msg[i].place \notin {"queue", "dlq"}
  BY <1>1, <1>2 DEF Live
<1>5. QED
  BY <1>2, <1>3, <1>4 DEF DInv, MessageOK

-----------------------------------------------------------------------------
(* What is once true of a message or an event stays true.                  *)

\* The messages develop: none is forgotten or given another event, and one
\* is deleted only when its event is settled.
Develops ==
  \A i \in Ids :
    /\ msg[i].place # "unused" => msg'[i].place # "unused" /\ msg'[i].event = msg[i].event
    /\ msg'[i].place = "unused" => msg'[i] = Unused
    /\ msg'[i].place # "unused" => msg'[i].event \in Events
    /\ msg'[i].place = "deleted" /\ msg[i].place # "deleted" =>
         msg[i].place # "unused" /\ Settled(msg[i].event)

\* A step keeps the invariant if the messages develop, nothing achieved is
\* forgotten, and each delivery and loop it touches is again in order.
LEMMA DeliveryStep ==
  ASSUME DInv, TypeOK', Develops,
         answered \subseteq answered', dropped \subseteq dropped',
         HandlersInOrder',
         \A l \in Loops, i \in Ids :
           work'[l][i] \in {0, work[l][i]} \/ DeliveryOK(l, i)',
         \A w \in Workers : worker'[w] = worker[w] \/ WorkerOK(w)',
         \A e \in published' : e \in published \/ HasMessage(e)'
  PROVE  DInv'
<1>a. TypeOK
  BY DEF DInv
<1>b. \A e : Settled(e) => Settled(e)'
  BY DEF Settled
<1>1. ASSUME NEW i \in Ids PROVE MessageOK(i)'
  <2>1. MessageOK(i)
    BY DEF DInv
  <2>2. PICK e : e = msg[i].event
    OBVIOUS
  <2>3. msg'[i].place = "deleted" => msg[i].place # "unused" /\ Settled(e)
    BY <2>1, <2>2 DEF Develops, MessageOK
  <2>4. msg'[i].place = "deleted" => msg'[i].event = e /\ Settled(e)'
    BY <1>b, <2>2, <2>3 DEF Develops
  <2>5. QED
    BY <2>4 DEF MessageOK, Develops
<1>2. ASSUME NEW l \in Loops, NEW i \in Ids PROVE DeliveryOK(l, i)'
  <2>1. DeliveryOK(l, i)
    BY DEF DInv
  <2>2. CASE work'[l][i] = 0
    <3>1. work'[l][i] \notin Steps /\ work'[l][i] # Handlers + 1
      BY <2>2, EventDeliveryAssumption DEF Steps
    <3>2. QED
      BY <2>2, <3>1 DEF DeliveryOK
  <2>3. CASE work'[l][i] # 0 /\ work'[l][i] = work[l][i]
    <3>1. PICK e : e = msg[i].event
      OBVIOUS
    <3>2. /\ msg[i].place # "unused" /\ msg'[i].place # "unused"
          /\ msg'[i].event = e
      BY <2>1, <2>3, <3>1 DEF DeliveryOK, Develops
    <3>3. work'[l][i] = Handlers + 1 => Settled(e)'
      BY <1>b, <2>1, <2>3, <3>1 DEF DeliveryOK
    <3>4. QED
      BY <2>1, <2>3, <3>1, <3>2, <3>3 DEF DeliveryOK
  <2>4. QED
    BY <2>2, <2>3
<1>3. ASSUME NEW w \in Workers PROVE WorkerOK(w)'
  <2>1. WorkerOK(w) /\ worker[w] \in Worker
    BY <1>a DEF DInv, TypeOK
  <2>2. CASE worker'[w] = worker[w]
    BY <2>1, <2>2 DEF WorkerOK, Worker, Develops
  <2>3. QED
    BY <2>2
<1>4. \A e \in published' : HasMessage(e)'
  <2>1. \A e : HasMessage(e) => HasMessage(e)'
    BY DEF HasMessage, Develops
  <2>2. QED
    BY <2>1 DEF DInv
<1>5. QED
  BY <1>1, <1>2, <1>3, <1>4 DEF DInv

-----------------------------------------------------------------------------
(* What the operations of the queue do to a message.                       *)

Places == {"unused", "queue", "dlq", "deleted"}
Holders == Loops \cup Workers \cup {Nobody}

\* Messages are handed out with their place and event unchanged.
LEMMA HandOutLemma ==
  ASSUME TypeOK, NEW S, NEW holder \in Holders, HandOut(S, holder),
         \A i \in S : i \in Ids /\ msg[i].place \in {"queue", "dlq"},
         \A i \in S : msg[i].place = "queue" => msg[i].receives < MaxReceives
  PROVE  msg' \in [Ids -> Message] /\ (DInv => Develops)
<1>1. ASSUME NEW i \in Ids
      PROVE  /\ msg'[i] \in Message /\ msg'[i].place = msg[i].place
             /\ msg'[i].event = msg[i].event
             /\ msg[i].place = "unused" => msg'[i] = msg[i]
  <2>1. msg[i] \in Message
    BY DEF TypeOK
  <2>2. CASE i \in S
    <3>1. PICK n : n = IF msg[i].place = "queue" THEN msg[i].receives + 1 ELSE msg[i].receives
      OBVIOUS
    <3>2. n \in 0 .. MaxReceives
      BY <2>1, <2>2, <3>1, EventDeliveryAssumption DEF Message
    <3>3. msg'[i] = [msg[i] EXCEPT !.holder = holder, !.receives = n]
      BY <2>2, <3>1 DEF HandOut
    <3>4. msg'[i] = [place |-> msg[i].place, event |-> msg[i].event,
                     receives |-> n, holder |-> holder]
      BY <2>1, <3>3 DEF Message
    <3>5. QED
      BY <2>1, <2>2, <3>2, <3>4 DEF Message, Holders
  <2>3. CASE i \notin S
    BY <2>1, <2>3 DEF HandOut
  <2>4. QED
    BY <2>2, <2>3
<1>2. msg' \in [Ids -> Message]
  BY <1>1 DEF HandOut
<1>3. ASSUME DInv PROVE Develops
  BY <1>1, <1>3 DEF DInv, MessageOK, Develops
<1>4. QED
  BY <1>2, <1>3

\* A send uses a blank slot.
LEMMA SendLemma ==
  ASSUME TypeOK, NEW e \in Events, Send(e)
  PROVE  msg' \in [Ids -> Message] /\ (DInv => Develops) /\ HasMessage(e)'
<1>1. PICK i \in Ids :
        /\ msg[i] = Unused
        /\ msg' = [msg EXCEPT ![i] = [Unused EXCEPT !.place = "queue", !.event = e]]
  BY DEF Send
<1>2. [Unused EXCEPT !.place = "queue", !.event = e]
        = [place |-> "queue", event |-> e, receives |-> 0, holder |-> Nobody]
  <2>1. Unused \in Message /\ Unused.receives = 0 /\ Unused.holder = Nobody
    BY EventDeliveryAssumption DEF Unused, Message
  <2>2. PICK x : x = [Unused EXCEPT !.place = "queue", !.event = e]
    OBVIOUS
  <2>3. x = [place |-> "queue", event |-> e, receives |-> Unused.receives,
             holder |-> Unused.holder]
    BY <2>1, <2>2 DEF Message
  <2>4. QED
    BY <2>1, <2>2, <2>3
<1>3. /\ msg'[i] = [place |-> "queue", event |-> e, receives |-> 0, holder |-> Nobody]
      /\ \A j \in Ids \ {i} : msg'[j] = msg[j]
  BY <1>1, <1>2 DEF TypeOK
<1>4. msg'[i] \in Message
  BY <1>3, EventDeliveryAssumption DEF Message
<1>5. msg' \in [Ids -> Message]
  BY <1>1, <1>3, <1>4 DEF TypeOK
<1>6. ASSUME DInv PROVE Develops
  <2>1. msg[i].place = "unused"
    BY <1>1 DEF Unused
  <2>2. \A j \in Ids : MessageOK(j)
    BY <1>6 DEF DInv
  <2>3. QED
    BY <1>3, <2>1, <2>2 DEF MessageOK, Develops
<1>7. HasMessage(e)'
  BY <1>3 DEF HasMessage
<1>8. QED
  BY <1>5, <1>6, <1>7

\* A message that changes its place or its holder keeps its event.
LEMMA PlaceLemma ==
  ASSUME TypeOK, NEW i \in Ids, NEW p \in Places \ {"unused"}, NEW h \in Holders,
         msg' = [msg EXCEPT ![i].place = p, ![i].holder = h],
         msg[i].place # "unused", p = "deleted" => Settled(msg[i].event)
  PROVE  msg' \in [Ids -> Message] /\ (DInv => Develops)
<1>1. msg[i] \in Message /\ msg \in [Ids -> Message]
  BY DEF TypeOK
<1>2. msg'[i] = [place |-> p, event |-> msg[i].event,
                 receives |-> msg[i].receives, holder |-> h]
  BY <1>1 DEF Message
<1>3. msg'[i] \in Message
  BY <1>1, <1>2 DEF Message, Places, Holders
<1>4. \A j \in Ids \ {i} : msg'[j] = msg[j]
  BY <1>1
<1>5. ASSUME DInv PROVE Develops
  <2>1. \A j \in Ids : MessageOK(j)
    BY <1>5 DEF DInv
  <2>2. p # "unused" /\ msg'[i].place = p /\ msg'[i].event = msg[i].event
    BY <1>2
  <2>3. msg[i].event \in Events
    BY <2>1 DEF MessageOK
  <2>4. SUFFICES ASSUME NEW j \in Ids
                 PROVE  /\ msg[j].place # "unused" => msg'[j].place # "unused" /\ msg'[j].event = msg[j].event
                        /\ msg'[j].place = "unused" => msg'[j] = Unused
                        /\ msg'[j].place # "unused" => msg'[j].event \in Events
                        /\ msg'[j].place = "deleted" /\ msg[j].place # "deleted" =>
                             msg[j].place # "unused" /\ Settled(msg[j].event)
    BY DEF Develops
  <2>5. CASE j = i
    BY <2>2, <2>3, <2>5
  <2>6. CASE j # i
    BY <1>4, <2>1, <2>6 DEF MessageOK
  <2>7. QED
    BY <2>5, <2>6
<1>6. QED
  BY <1>1, <1>3, <1>4, <1>5

\* Nothing happens to the messages.
LEMMA SameMessages ==
  ASSUME DInv, msg' = msg
  PROVE  Develops
  BY DEF DInv, MessageOK, Develops

\* A delete removes a message of its queue or does nothing.
LEMMA DeleteLemma ==
  ASSUME DInv, NEW i \in Ids, NEW place \in {"queue", "dlq"}, NEW holder,
         Delete(i, place, holder), Settled(msg[i].event)
  PROVE  msg' \in [Ids -> Message] /\ Develops
<1>1. TypeOK
  BY DEF DInv
<1>2. CASE UNCHANGED msg
  BY <1>1, <1>2, SameMessages DEF TypeOK
<1>3. CASE msg[i].place = place /\ msg' = [msg EXCEPT ![i].place = "deleted", ![i].holder = Nobody]
  <2>1. "deleted" \in Places \ {"unused"} /\ Nobody \in Holders /\ msg[i].place # "unused"
    BY <1>3 DEF Places, Holders
  <2>2. QED
    BY <1>1, <1>3, <2>1, PlaceLemma
<1>4. QED
  BY <1>2, <1>3 DEF Delete

\* A dead-letter loop goes on with messages of its batch.
LEMMA TakeNextLemma ==
  ASSUME TypeOK, NEW w \in Workers, NEW B \in SUBSET Ids, TakeNext(w, B)
  PROVE  /\ worker' \in [Workers -> Worker]
         /\ \A v \in Workers \ {w} : worker'[v] = worker[v]
         /\ worker'[w].at \in {"check", "handle"}
         /\ worker'[w].at = "handle" => worker'[w].current \in B
         /\ worker'[w].batch \subseteq B
<1>1. PICK x \in Worker :
        /\ worker' = [worker EXCEPT ![w] = x]
        /\ x.at \in {"check", "handle"}
        /\ x.at = "handle" => x.current \in B
        /\ x.batch \subseteq B
  <2>1. PICK readable : readable = {i \in B : msg[i].event \notin Malformed}
    OBVIOUS
  <2>2. CASE worker' = [worker EXCEPT ![w] = [Off EXCEPT !.at = "check"]]
    <3>1. [Off EXCEPT !.at = "check"] = [at |-> "check", batch |-> {}, current |-> 0]
      BY DEF Off
    <3>2. [at |-> "check", batch |-> {}, current |-> 0] \in Worker
      BY DEF Worker
    <3>3. QED
      BY <2>2, <3>1, <3>2
  <2>3. CASE \E i \in readable :
               worker' = [worker EXCEPT ![w] =
                            [at |-> "handle", batch |-> readable \ {i}, current |-> i]]
    <3>1. PICK i \in readable :
            worker' = [worker EXCEPT ![w] =
                         [at |-> "handle", batch |-> readable \ {i}, current |-> i]]
      BY <2>3
    <3>2. [at |-> "handle", batch |-> readable \ {i}, current |-> i] \in Worker
      BY <2>1, <3>1 DEF Worker
    <3>3. QED
      BY <2>1, <3>1, <3>2
  <2>4. QED
    BY <2>1, <2>2, <2>3 DEF TakeNext
<1>2. QED
  BY <1>1 DEF TypeOK

-----------------------------------------------------------------------------
(* What the updates of the subscribers and of the dead-letter loops do.    *)

\* One delivery moves, the others stand still.
LEMMA SetWorkLemma ==
  ASSUME TypeOK, NEW l \in Loops, NEW i \in Ids, NEW n \in 0 .. Handlers + 1,
         SetWork(l, i, n)
  PROVE  /\ work' \in [Loops -> [Ids -> 0 .. Handlers + 1]]
         /\ work'[l][i] = n
         /\ \A k \in Loops, j \in Ids : <<k, j>> # <<l, i>> => work'[k][j] = work[k][j]
  BY DEF SetWork, TypeOK

\* start(), stop(), its end and a crash leave a subscriber well formed.
LEMMA ConsumerLemma ==
  ASSUME TypeOK, NEW c \in Consumers,
         \/ consumer' = [consumer EXCEPT ![c].isRunning = TRUE]
         \/ \E x \in {"quiet", "timedOut"} : consumer' = [consumer EXCEPT ![c].stop = x]
         \/ \E x \in {"waiting", "idle"} :
              consumer' = [consumer EXCEPT ![c] = [isRunning |-> FALSE, stop |-> x]]
  PROVE  consumer' \in [Consumers -> Consumer]
<1>1. consumer[c] \in Consumer /\ consumer \in [Consumers -> Consumer]
  BY DEF TypeOK
<1>2. CASE consumer' = [consumer EXCEPT ![c].isRunning = TRUE]
  <2>1. consumer'[c] = [isRunning |-> TRUE, stop |-> consumer[c].stop]
    BY <1>1, <1>2 DEF Consumer
  <2>2. consumer'[c] \in Consumer
    BY <1>1, <2>1 DEF Consumer
  <2>3. QED
    BY <1>1, <1>2, <2>2
<1>3. CASE \E x \in {"quiet", "timedOut"} : consumer' = [consumer EXCEPT ![c].stop = x]
  <2>1. PICK x \in {"quiet", "timedOut"} : consumer' = [consumer EXCEPT ![c].stop = x]
    BY <1>3
  <2>2. consumer'[c] = [isRunning |-> consumer[c].isRunning, stop |-> x]
    BY <1>1, <2>1 DEF Consumer
  <2>3. consumer'[c] \in Consumer
    BY <1>1, <2>2 DEF Consumer
  <2>4. QED
    BY <1>1, <2>1, <2>3
<1>4. CASE \E x \in {"waiting", "idle"} :
             consumer' = [consumer EXCEPT ![c] = [isRunning |-> FALSE, stop |-> x]]
  BY <1>1, <1>4 DEF Consumer
<1>5. QED
  BY <1>2, <1>3, <1>4

\* A dead-letter loop that moves keeps its batch and its message.
LEMMA WorkerAtLemma ==
  ASSUME TypeOK, NEW w \in Workers,
         NEW x \in {"off", "check", "receive", "handle", "requeue", "delete", "sleep"},
         worker' = [worker EXCEPT ![w].at = x]
  PROVE  /\ worker' \in [Workers -> Worker]
         /\ \A v \in Workers \ {w} : worker'[v] = worker[v]
         /\ worker'[w].at = x
         /\ worker'[w].batch = worker[w].batch
         /\ worker'[w].current = worker[w].current
<1>1. worker[w] \in Worker /\ worker \in [Workers -> Worker]
  BY DEF TypeOK
<1>2. worker'[w] = [at |-> x, batch |-> worker[w].batch, current |-> worker[w].current]
  BY <1>1 DEF Worker
<1>3. worker'[w] \in Worker
  BY <1>1, <1>2 DEF Worker
<1>4. QED
  BY <1>1, <1>2, <1>3

\* The faults stay within their bound.
LEMMA FaultLemma ==
  ASSUME TypeOK, Fault
  PROVE  faults' \in 0 .. MaxFaults /\ stops' = stops
  BY EventDeliveryAssumption DEF TypeOK, Fault

\* The calls of stop() stay within their bound.
LEMMA StopsLemma ==
  ASSUME TypeOK, stops < MaxStops, stops' = stops + 1
  PROVE  stops' \in 0 .. MaxStops
  BY EventDeliveryAssumption DEF TypeOK

-----------------------------------------------------------------------------
(* The steps.                                                              *)

\* A step that changes neither the messages nor what was achieved, and only
\* ends deliveries.
LEMMA QuietStep ==
  ASSUME DInv, TypeOK', UNCHANGED <<queues, results>>,
         \A l \in Loops, i \in Ids : work'[l][i] \in {0, work[l][i]},
         \A w \in Workers : worker'[w] = worker[w] \/ WorkerOK(w)'
  PROVE  DInv'
<1>1. msg' = msg /\ published' = published /\ answered' = answered /\ dropped' = dropped
  BY DEF queues, results
<1>2. Develops
  BY <1>1, SameMessages
<1>3. HandlersInOrder'
  BY <1>1 DEF DInv, HandlersInOrder
<1>4. QED
  BY <1>1, <1>2, <1>3, DeliveryStep

\* The empty queues satisfy the invariant.
THEOREM InitDInv == Init => DInv
<1>1. SUFFICES ASSUME Init PROVE DInv
  OBVIOUS
<1>2. Unused \in Message /\ Unused.place = "unused"
  BY EventDeliveryAssumption DEF Unused, Message
<1>3. Off \in Worker /\ Off.at = "off" /\ Off.batch = {}
  BY DEF Off, Worker
<1>4. \A c \in Consumers : [isRunning |-> FALSE, stop |-> "idle"] \in Consumer
  BY DEF Consumer
<1>5. 0 \in 0 .. Handlers + 1 /\ 0 \in 0 .. MaxFaults /\ 0 \in 0 .. MaxStops
  BY EventDeliveryAssumption
<1>6. TypeOK
  BY <1>1, <1>2, <1>3, <1>4, <1>5 DEF Init, TypeOK
<1>7. \A i \in Ids : MessageOK(i)
  BY <1>1, <1>2 DEF Init, MessageOK
<1>8. \A l \in Loops, i \in Ids : DeliveryOK(l, i)
  <2>1. 0 \notin Steps /\ 0 # Handlers + 1
    BY EventDeliveryAssumption DEF Steps
  <2>2. QED
    BY <1>1, <2>1 DEF Init, DeliveryOK
<1>9. \A w \in Workers : WorkerOK(w)
  BY <1>1, <1>3 DEF Init, WorkerOK
<1>10. (\A e \in published : HasMessage(e)) /\ HandlersInOrder
  BY <1>1 DEF Init, HandlersInOrder
<1>11. QED
  BY <1>6, <1>7, <1>8, <1>9, <1>10 DEF DInv

\* The published event has a message.
LEMMA PublishStep ==
  ASSUME DInv, NEW e \in Events, Publish(e)
  PROVE  DInv'
<1>1. TypeOK /\ UNCHANGED <<sub, dlq, results, bounds>> /\ Send(e)
      /\ published' = published \cup {e}
  BY DEF DInv, Publish
<1>2. msg' \in [Ids -> Message] /\ Develops /\ HasMessage(e)'
  BY <1>1, SendLemma
<1>3. TypeOK'
  BY <1>1, <1>2 DEF TypeOK, sub, dlq, results, bounds
<1>4. HandlersInOrder'
  BY <1>1 DEF DInv, HandlersInOrder, results
<1>5. QED
  BY <1>1, <1>2, <1>3, <1>4, DeliveryStep DEF sub, dlq, results

\* A message that comes back or goes to the dead-letter queue.
LEMMA QueueStep ==
  ASSUME DInv, NEW i \in Ids, Reappear(i) \/ Redrive(i)
  PROVE  DInv'
<1>1. TypeOK /\ UNCHANGED <<published, sub, dlq, results, bounds>>
  BY DEF DInv, Reappear, Redrive
<1>2. msg' \in [Ids -> Message] /\ Develops
  <2>1. msg[i] \in Message /\ msg \in [Ids -> Message]
    BY <1>1 DEF TypeOK
  <2>2. CASE Reappear(i)
    <3>1. msg' = [msg EXCEPT ![i].holder = Nobody] /\ msg[i].place \in {"queue", "dlq"}
      BY <2>2 DEF Reappear
    <3>2. msg'[i] = [place |-> msg[i].place, event |-> msg[i].event,
                     receives |-> msg[i].receives, holder |-> Nobody]
      BY <2>1, <3>1 DEF Message
    <3>3. msg'[i] \in Message
      BY <2>1, <3>2 DEF Message
    <3>4. msg' \in [Ids -> Message] /\ \A j \in Ids \ {i} : msg'[j] = msg[j]
      BY <2>1, <3>1, <3>3
    <3>5. QED
      BY <3>1, <3>2, <3>4 DEF DInv, MessageOK, Develops
  <2>3. CASE Redrive(i)
    <3>1. msg' = [msg EXCEPT ![i].place = "dlq"] /\ msg[i].place = "queue"
      BY <2>3 DEF Redrive, Visible
    <3>2. msg'[i] = [place |-> "dlq", event |-> msg[i].event,
                     receives |-> msg[i].receives, holder |-> msg[i].holder]
      BY <2>1, <3>1 DEF Message
    <3>3. msg'[i] \in Message
      BY <2>1, <3>2 DEF Message
    <3>4. msg' \in [Ids -> Message] /\ \A j \in Ids \ {i} : msg'[j] = msg[j]
      BY <2>1, <3>1, <3>3
    <3>5. QED
      BY <3>1, <3>2, <3>4 DEF DInv, MessageOK, Develops
  <2>4. QED
    BY <2>2, <2>3
<1>3. TypeOK'
  BY <1>1, <1>2 DEF TypeOK, sub, dlq, results, bounds
<1>4. HandlersInOrder'
  BY <1>1 DEF DInv, HandlersInOrder, results
<1>5. QED
  BY <1>1, <1>2, <1>3, <1>4, DeliveryStep DEF sub, dlq, results

\* What may be said of a delivery whose handler has answered.
LEMMA AnswerStep ==
  ASSUME DInv, NEW l \in Loops, NEW i \in Ids, work[l][i] \in Steps,
         NEW n \in 0 .. Handlers + 1, SetWork(l, i, n),
         UNCHANGED <<queues, loop, consumer, dlq, bounds>>,
         \/ n = 0 /\ UNCHANGED results
         \/ n = Handlers + 1 /\ dropped' = dropped \cup {msg[i].event} /\ UNCHANGED answered
         \/ n = work[l][i] + 1 /\ answered' = answered \cup {<<msg[i].event, work[l][i]>>}
            /\ UNCHANGED dropped
  PROVE  DInv'
<1>a. TypeOK /\ msg' = msg /\ published' = published /\ worker' = worker
  BY DEF DInv, queues, dlq
<1>b. PICK e \in Events : e = msg[i].event
  <2>1. work[l][i] # 0
    BY EventDeliveryAssumption DEF Steps
  <2>2. msg[i].place # "unused"
    BY <2>1 DEF DInv, DeliveryOK
  <2>3. QED
    BY <2>2 DEF DInv, MessageOK
<1>c. PICK m \in Steps : m = work[l][i]
  OBVIOUS
<1>d. \A h \in Steps : h < m => <<e, h>> \in answered
  BY <1>b, <1>c DEF DInv, DeliveryOK
<1>e. /\ work' \in [Loops -> [Ids -> 0 .. Handlers + 1]]
      /\ work'[l][i] = n
      /\ \A k \in Loops, j \in Ids : <<k, j>> # <<l, i>> => work'[k][j] = work[k][j]
  BY <1>a, SetWorkLemma
<1>f. answered \subseteq answered' /\ dropped \subseteq dropped'
  BY DEF results
<1>1. TypeOK'
  <2>1. answered' \subseteq Events \X Steps /\ dropped' \subseteq Events
    BY <1>a, <1>b, <1>c DEF TypeOK, results
  <2>2. QED
    BY <1>a, <1>e, <2>1 DEF TypeOK, queues, dlq, bounds
<1>2. HandlersInOrder'
  <2>1. SUFFICES ASSUME NEW f \in Events, NEW h \in Steps, <<f, h>> \in answered', NEW g \in 1 .. h
                 PROVE  <<f, g>> \in answered'
    BY DEF HandlersInOrder
  <2>2. CASE <<f, h>> \in answered
    BY <1>f, <2>2 DEF DInv, HandlersInOrder
  <2>3. CASE <<f, h>> \notin answered
    <3>1. f = e /\ h = m /\ <<e, m>> \in answered'
      BY <1>b, <1>c, <2>1, <2>3 DEF results
    <3>2. g \in Steps /\ (g < m \/ g = m)
      BY <2>1, <3>1, EventDeliveryAssumption DEF Steps
    <3>3. QED
      BY <1>d, <1>f, <3>1, <3>2
  <2>4. QED
    BY <2>2, <2>3
<1>3. n = 0 \/ DeliveryOK(l, i)'
  <2>1. CASE n = 0
    BY <2>1
  <2>2. CASE n = Handlers + 1 /\ dropped' = dropped \cup {msg[i].event}
    <3>1. n \notin Steps
      BY <2>2, EventDeliveryAssumption DEF Steps
    <3>2. Settled(e)'
      BY <1>b, <2>2 DEF Settled
    <3>3. msg'[i].event = e /\ msg'[i].place # "unused"
      <4>1. work[l][i] # 0
        BY EventDeliveryAssumption DEF Steps
      <4>2. QED
        BY <1>a, <1>b, <4>1 DEF DInv, DeliveryOK
    <3>4. QED
      BY <1>e, <3>1, <3>2, <3>3 DEF DeliveryOK
  <2>3. CASE n = work[l][i] + 1 /\ answered' = answered \cup {<<msg[i].event, work[l][i]>>}
    <3>1. msg'[i].event = e /\ msg'[i].place # "unused"
      <4>1. work[l][i] # 0
        BY EventDeliveryAssumption DEF Steps
      <4>2. QED
        BY <1>a, <1>b, <4>1 DEF DInv, DeliveryOK
    <3>2. \A h \in Steps : h < n => <<e, h>> \in answered'
      <4>1. \A h \in Steps : h < n => h < m \/ h = m
        BY <1>c, <2>3, EventDeliveryAssumption DEF Steps
      <4>2. <<e, m>> \in answered'
        BY <1>b, <1>c, <2>3
      <4>3. QED
        BY <1>d, <1>f, <4>1, <4>2
    <3>3. n = Handlers + 1 => Settled(e)'
      <4>1. n = Handlers + 1 => \A h \in Steps : h < n
        BY EventDeliveryAssumption DEF Steps
      <4>2. QED
        BY <3>2, <4>1 DEF Settled
    <3>4. QED
      BY <1>e, <3>1, <3>2, <3>3 DEF DeliveryOK
  <2>4. QED
    BY <2>1, <2>2, <2>3
<1>4. Develops
  BY <1>a, SameMessages
<1>5. \A k \in Loops, j \in Ids : work'[k][j] \in {0, work[k][j]} \/ DeliveryOK(k, j)'
  BY <1>3, <1>e
<1>6. QED
  BY <1>1, <1>2, <1>4, <1>5, <1>a, <1>f, DeliveryStep

\* The delete of a settled message, with whatever receipt.
LEMMA AcknowledgeStep ==
  ASSUME DInv, NEW l \in Loops, NEW i \in Ids, Acknowledge(l, i) \/ AcknowledgeFails(l, i)
  PROVE  DInv'
<1>1. TypeOK /\ SetWork(l, i, 0) /\ work[l][i] = Handlers + 1
      /\ UNCHANGED <<published, loop, consumer, dlq, results>>
  BY DEF DInv, Acknowledge, AcknowledgeFails, queues
<1>2. 0 \in 0 .. Handlers + 1
  BY EventDeliveryAssumption
<1>3. /\ work' \in [Loops -> [Ids -> 0 .. Handlers + 1]]
      /\ work'[l][i] = 0
      /\ \A k \in Loops, j \in Ids : <<k, j>> # <<l, i>> => work'[k][j] = work[k][j]
  BY <1>1, <1>2, SetWorkLemma
<1>4. msg' \in [Ids -> Message] /\ Develops
  <2>1. CASE Acknowledge(l, i)
    <3>1. Delete(i, "queue", l)
      BY <2>1 DEF Acknowledge
    <3>2. Settled(msg[i].event)
      BY <1>1 DEF DInv, DeliveryOK
    <3>3. QED
      BY <3>1, <3>2, DeleteLemma
  <2>2. CASE AcknowledgeFails(l, i)
    BY <1>1, <2>2, SameMessages DEF AcknowledgeFails, queues, TypeOK
  <2>3. QED
    BY <2>1, <2>2
<1>5. faults' \in 0 .. MaxFaults /\ stops' = stops
  BY <1>1, FaultLemma DEF Acknowledge, AcknowledgeFails, bounds, TypeOK
<1>6. TypeOK'
  BY <1>1, <1>3, <1>4, <1>5 DEF TypeOK, dlq, results
<1>7. HandlersInOrder'
  BY <1>1 DEF DInv, HandlersInOrder, results
<1>8. \A k \in Loops, j \in Ids : work'[k][j] \in {0, work[k][j]}
  BY <1>3
<1>9. QED
  BY <1>1, <1>4, <1>6, <1>7, <1>8, DeliveryStep DEF dlq, results

\* A delivery takes its next step.
LEMMA DeliverStep ==
  ASSUME DInv, NEW l \in Loops, NEW i \in Ids, Deliver(l, i)
  PROVE  DInv'
<1>1. 0 \in 0 .. Handlers + 1 /\ Handlers + 1 \in 0 .. Handlers + 1
      /\ \A m \in Steps : m + 1 \in 0 .. Handlers + 1
  BY EventDeliveryAssumption DEF Steps
<1>2. CASE HandlerSucceeds(l, i)
  BY <1>1, <1>2, AnswerStep DEF HandlerSucceeds
<1>3. CASE HandlerRefuses(l, i)
  BY <1>1, <1>3, AnswerStep DEF HandlerRefuses
<1>4. CASE HandlerFails(l, i)
  BY <1>1, <1>4, AnswerStep DEF HandlerFails
<1>5. CASE Acknowledge(l, i) \/ AcknowledgeFails(l, i)
  BY <1>5, AcknowledgeStep
<1>6. QED
  BY <1>2, <1>3, <1>4, <1>5 DEF Deliver

LoopStates == {"off", "check", "receive", "process", "sleep"}

\* The loop moves; the messages it was handed out and lost stay hidden.
LEMMA PollStep ==
  ASSUME DInv, NEW l \in Loops, Poll(l)
  PROVE  DInv'
<1>a. TypeOK
  BY DEF DInv
<1>1. CASE Check(l) \/ Wake(l) \/ BatchDone(l)
  <2>1. UNCHANGED <<queues, work, consumer, dlq, results, bounds>>
    BY <1>1 DEF Check, Wake, BatchDone
  <2>2. loop' \in [Loops -> LoopStates]
    <3>1. PICK x \in LoopStates : loop' = [loop EXCEPT ![l] = x]
      BY <1>1 DEF Check, Wake, BatchDone, LoopStates
    <3>2. QED
      BY <1>a, <3>1 DEF TypeOK, LoopStates
  <2>3. TypeOK'
    BY <1>a, <2>1, <2>2 DEF TypeOK, queues, dlq, results, bounds, LoopStates
  <2>4. QED
    BY <2>1, <2>3, QuietStep DEF dlq
<1>2. ASSUME NEW S \in SUBSET Visible("queue"), Receive(l, S) \/ ReceiveFails(l, S)
      PROVE  DInv'
  <2>1. /\ \A i \in S : i \in Ids /\ msg[i].place \in {"queue", "dlq"} /\ msg[i].receives < MaxReceives
        /\ HandOut(S, l) /\ l \in Holders
        /\ UNCHANGED <<published, consumer, dlq, results>>
    BY <1>2 DEF Visible, Receive, ReceiveFails, Holders
  <2>2. msg' \in [Ids -> Message] /\ Develops
    BY <1>a, <2>1, HandOutLemma
  <2>3. /\ work' \in [Loops -> [Ids -> 0 .. Handlers + 1]]
        /\ \A k \in Loops, i \in Ids :
             \/ work'[k][i] \in {0, work[k][i]}
             \/ work'[k][i] = 1 /\ i \in S
    <3>1. CASE Receive(l, S)
      <4>1. PICK f \in [Ids -> {0, 1}] :
              /\ work' = [work EXCEPT ![l] = f]
              /\ \A i \in Ids : f[i] = 1 => i \in S
        <5>1. PICK f : f = [i \in Ids |-> IF i \in S /\ msg[i].event \notin Malformed THEN 1 ELSE 0]
          OBVIOUS
        <5>2. f \in [Ids -> {0, 1}] /\ \A i \in Ids : f[i] = 1 => i \in S
          BY <5>1
        <5>3. QED
          BY <3>1, <5>1, <5>2 DEF Receive
      <4>2. f \in [Ids -> 0 .. Handlers + 1]
        <5>1. {0, 1} \subseteq 0 .. Handlers + 1
          BY EventDeliveryAssumption
        <5>2. QED
          BY <5>1
      <4>3. QED
        BY <1>a, <4>1, <4>2 DEF TypeOK
    <3>2. CASE ReceiveFails(l, S)
      BY <1>a, <3>2 DEF ReceiveFails, TypeOK
    <3>3. QED
      BY <1>2, <3>1, <3>2
  <2>4. \A k \in Loops, i \in Ids : work'[k][i] \in {0, work[k][i]} \/ DeliveryOK(k, i)'
    <3>1. SUFFICES ASSUME NEW k \in Loops, NEW i \in Ids, work'[k][i] = 1, i \in S
                   PROVE  DeliveryOK(k, i)'
      BY <2>3
    <3>2. msg'[i].place # "unused"
      BY <2>1, <2>2, <3>1 DEF Develops
    <3>3. ~\E h \in Steps : h < 1
      BY EventDeliveryAssumption DEF Steps
    <3>4. 1 = Handlers + 1 => \A e : Settled(e)'
      BY EventDeliveryAssumption DEF Settled, Steps
    <3>5. QED
      BY <3>1, <3>2, <3>3, <3>4 DEF DeliveryOK
  <2>5. loop' \in [Loops -> LoopStates]
    <3>1. PICK x \in LoopStates : loop' = [loop EXCEPT ![l] = x]
      BY <1>2 DEF Receive, ReceiveFails, LoopStates
    <3>2. QED
      BY <1>a, <3>1 DEF TypeOK, LoopStates
  <2>6. faults' \in 0 .. MaxFaults /\ stops' = stops
    BY <1>2, <1>a, FaultLemma DEF Receive, ReceiveFails, bounds, TypeOK
  <2>7. TypeOK'
    BY <1>a, <2>1, <2>2, <2>3, <2>5, <2>6 DEF TypeOK, dlq, results, LoopStates
  <2>8. HandlersInOrder'
    BY <2>1 DEF DInv, HandlersInOrder, results
  <2>9. QED
    BY <2>1, <2>2, <2>4, <2>7, <2>8, DeliveryStep DEF dlq, results
<1>3. QED
  BY <1>1, <1>2 DEF Poll

\* A subscriber is started or stopped, or dies with its deliveries.
LEMMA ControlStep ==
  ASSUME DInv, NEW c \in Consumers, Control(c)
  PROVE  DInv'
<1>a. TypeOK
  BY DEF DInv
<1>1. ASSUME NEW s \in Slots, Start(c, s)
      PROVE  DInv'
  <2>1. <<c, s>> \in Loops /\ UNCHANGED <<queues, work, dlq, results, bounds>>
    BY <1>1 DEF Start, Loops
  <2>2. consumer' \in [Consumers -> Consumer]
    BY <1>1, <1>a, ConsumerLemma DEF Start
  <2>3. loop' \in [Loops -> LoopStates]
    BY <1>1, <1>a, <2>1 DEF Start, TypeOK, LoopStates
  <2>4. TypeOK'
    BY <1>a, <2>1, <2>2, <2>3 DEF TypeOK, queues, dlq, results, bounds, LoopStates
  <2>5. QED
    BY <2>1, <2>4, QuietStep DEF dlq
<1>2. CASE Stop(c) \/ Cleanup(c)
  <2>1. UNCHANGED <<queues, loop, work, dlq, results, faults>>
    BY <1>2 DEF Stop, Cleanup, bounds
  <2>2. consumer' \in [Consumers -> Consumer]
    <3>1. CASE Stop(c)
      BY <1>a, <3>1, ConsumerLemma DEF Stop
    <3>2. CASE Cleanup(c)
      <4>1. \E x \in {"quiet", "timedOut"} : consumer' = [consumer EXCEPT ![c].stop = x]
        BY <3>2 DEF Cleanup
      <4>2. QED
        BY <1>a, <4>1, ConsumerLemma
    <3>3. QED
      BY <1>2, <3>1, <3>2
  <2>3. stops' \in 0 .. MaxStops
    BY <1>2, <1>a, StopsLemma DEF Stop, Cleanup, bounds, TypeOK
  <2>4. TypeOK'
    BY <1>a, <2>1, <2>2, <2>3 DEF TypeOK, queues, dlq, results
  <2>5. QED
    BY <2>1, <2>4, QuietStep DEF dlq
<1>3. CASE Crash(c)
  <2>1. Fault /\ UNCHANGED <<queues, dlq, results>>
    BY <1>3 DEF Crash
  <2>2. consumer' \in [Consumers -> Consumer]
    BY <1>3, <1>a, ConsumerLemma DEF Crash
  <2>3. loop' \in [Loops -> LoopStates]
    BY <1>3, <1>a DEF Crash, TypeOK, LoopStates
  <2>4. /\ work' \in [Loops -> [Ids -> 0 .. Handlers + 1]]
        /\ \A l \in Loops, i \in Ids : work'[l][i] \in {0, work[l][i]}
    <3>1. [i \in Ids |-> 0] \in [Ids -> 0 .. Handlers + 1]
      BY EventDeliveryAssumption
    <3>2. QED
      BY <1>3, <1>a, <3>1 DEF Crash, TypeOK
  <2>5. faults' \in 0 .. MaxFaults /\ stops' = stops
    BY <1>a, <2>1, FaultLemma
  <2>6. TypeOK'
    BY <1>a, <2>1, <2>2, <2>3, <2>4, <2>5 DEF TypeOK, queues, dlq, results, LoopStates
  <2>7. QED
    BY <2>1, <2>4, <2>6, QuietStep DEF dlq
<1>4. QED
  BY <1>1, <1>2, <1>3 DEF Control

\* A dead-letter loop that goes on is in order again.
LEMMA TakeNextStep ==
  ASSUME DInv, NEW w \in Workers, NEW B \in SUBSET Ids,
         \A i \in B : msg[i].place # "unused",
         TakeNext(w, B), Develops
  PROVE  /\ worker' \in [Workers -> Worker]
         /\ \A v \in Workers : worker'[v] = worker[v] \/ WorkerOK(v)'
<1>1. /\ worker' \in [Workers -> Worker]
      /\ \A v \in Workers \ {w} : worker'[v] = worker[v]
      /\ worker'[w].at \in {"check", "handle"}
      /\ worker'[w].at = "handle" => worker'[w].current \in B
      /\ worker'[w].batch \subseteq B
  BY TakeNextLemma DEF DInv
<1>2. \A i \in B : i \in Ids /\ msg'[i].place # "unused"
  BY DEF Develops
<1>3. WorkerOK(w)'
  BY <1>1, <1>2 DEF WorkerOK
<1>4. QED
  BY <1>1, <1>3

\* A batch holds messages only.
LEMMA BatchLemma ==
  ASSUME DInv, NEW w \in Workers
  PROVE  /\ worker[w].batch \in SUBSET Ids
         /\ \A i \in worker[w].batch : msg[i].place # "unused"
  BY DEF DInv, TypeOK, Worker, WorkerOK

\* The steps of a dead-letter loop that leave the messages alone.
LEMMA DeadLetterQuiet ==
  ASSUME DInv, NEW w \in Workers,
         \/ StartDlq(w) \/ CheckDlq(w) \/ WakeDlq(w)
         \/ KeepDeadLetter(w) \/ DecideRequeue(w) \/ RequeueFails(w) \/ DeleteDeadLetterFails(w)
  PROVE  DInv'
<1>1. TypeOK /\ UNCHANGED <<queues, sub, results>>
  BY DEF DInv, StartDlq, CheckDlq, WakeDlq, KeepDeadLetter, DecideRequeue, RequeueFails,
         DeleteDeadLetterFails
<1>2. Develops
  BY <1>1, SameMessages DEF queues
<1>3. /\ worker' \in [Workers -> Worker]
      /\ \A v \in Workers : worker'[v] = worker[v] \/ WorkerOK(v)'
  <2>1. CASE StartDlq(w) \/ CheckDlq(w) \/ WakeDlq(w) \/ DecideRequeue(w)
    <3>1. PICK x \in {"off", "check", "receive", "requeue"} :
            /\ worker' = [worker EXCEPT ![w].at = x]
            /\ x = "requeue" => worker[w].at = "handle"
      BY <2>1 DEF StartDlq, CheckDlq, WakeDlq, DecideRequeue
    <3>2. /\ worker' \in [Workers -> Worker]
          /\ \A v \in Workers \ {w} : worker'[v] = worker[v]
          /\ worker'[w].at = x
          /\ worker'[w].batch = worker[w].batch
          /\ worker'[w].current = worker[w].current
      BY <1>1, <3>1, WorkerAtLemma
    <3>3. WorkerOK(w)'
      BY <1>1, <3>1, <3>2 DEF DInv, WorkerOK, queues
    <3>4. QED
      BY <3>2, <3>3
  <2>2. CASE KeepDeadLetter(w) \/ RequeueFails(w) \/ DeleteDeadLetterFails(w)
    <3>1. TakeNext(w, worker[w].batch)
      BY <2>2 DEF KeepDeadLetter, RequeueFails, DeleteDeadLetterFails
    <3>2. QED
      BY <1>2, <3>1, BatchLemma, TakeNextStep
  <2>3. QED
    BY <2>1, <2>2
<1>4. dlqRunning' \in BOOLEAN
  BY <1>1 DEF TypeOK, StartDlq, CheckDlq, WakeDlq, KeepDeadLetter, DecideRequeue, RequeueFails,
              DeleteDeadLetterFails
<1>5. faults' \in 0 .. MaxFaults /\ stops' = stops
  BY <1>1, FaultLemma DEF TypeOK, bounds, StartDlq, CheckDlq, WakeDlq, KeepDeadLetter,
     DecideRequeue, RequeueFails, DeleteDeadLetterFails
<1>6. TypeOK'
  BY <1>1, <1>3, <1>4, <1>5 DEF TypeOK, queues, sub, results
<1>7. QED
  BY <1>1, <1>3, <1>6, QuietStep DEF sub

\* A dead letter is to be deleted: its event counts as dropped.
LEMMA DecideDeleteStep ==
  ASSUME DInv, NEW w \in Workers, DecideDelete(w)
  PROVE  DInv'
<1>1. TypeOK /\ UNCHANGED <<queues, sub, dlqRunning, answered, bounds>>
  BY DEF DInv, DecideDelete
<1>2. PICK i \in Ids : i = worker[w].current /\ msg[i].place # "unused" /\ msg[i].event \in Events
  BY DEF DInv, WorkerOK, MessageOK, DecideDelete
<1>3. /\ worker' \in [Workers -> Worker]
      /\ \A v \in Workers \ {w} : worker'[v] = worker[v]
      /\ worker'[w].at = "delete"
      /\ worker'[w].batch = worker[w].batch
      /\ worker'[w].current = i
  BY <1>1, <1>2, WorkerAtLemma DEF DecideDelete
<1>4. dropped' = dropped \cup {msg[i].event}
  BY <1>2 DEF DecideDelete
<1>5. WorkerOK(w)'
  BY <1>1, <1>2, <1>3, <1>4 DEF DInv, WorkerOK, queues
<1>6. TypeOK'
  BY <1>1, <1>2, <1>3, <1>4 DEF TypeOK, queues, sub, bounds
<1>7. HandlersInOrder' /\ Develops
  BY <1>1, SameMessages DEF DInv, HandlersInOrder, queues
<1>8. QED
  BY <1>1, <1>3, <1>4, <1>5, <1>6, <1>7, DeliveryStep DEF queues, sub

\* The steps of a dead-letter loop that touch the messages.
LEMMA DeadLetterStep ==
  ASSUME DInv, NEW w \in Workers,
         \/ \E S \in SUBSET Visible("dlq") : ReceiveDlq(w, S) \/ ReceiveDlqFails(w, S)
         \/ Requeue(w) \/ DeleteDeadLetter(w)
  PROVE  DInv'
<1>1. TypeOK /\ UNCHANGED <<published, sub, dlqRunning, results>>
  BY DEF DInv, ReceiveDlq, ReceiveDlqFails, Requeue, DeleteDeadLetter
<1>2. /\ msg' \in [Ids -> Message] /\ Develops
      /\ worker' \in [Workers -> Worker]
      /\ \A v \in Workers : worker'[v] = worker[v] \/ WorkerOK(v)'
  <2>1. ASSUME NEW S \in SUBSET Visible("dlq"), ReceiveDlq(w, S) \/ ReceiveDlqFails(w, S)
        PROVE  /\ msg' \in [Ids -> Message] /\ Develops
               /\ worker' \in [Workers -> Worker]
               /\ \A v \in Workers : worker'[v] = worker[v] \/ WorkerOK(v)'
    <3>1. /\ S \in SUBSET Ids /\ HandOut(S, w) /\ w \in Holders
          /\ \A i \in S : i \in Ids /\ msg[i].place = "dlq"
      BY <2>1 DEF Visible, ReceiveDlq, ReceiveDlqFails, Holders
    <3>2. msg' \in [Ids -> Message] /\ Develops
      BY <1>1, <3>1, HandOutLemma
    <3>3. CASE ReceiveDlq(w, S)
      <4>1. TakeNext(w, S)
        BY <3>3 DEF ReceiveDlq
      <4>2. QED
        BY <3>1, <3>2, <4>1, TakeNextStep
    <3>4. CASE ReceiveDlqFails(w, S)
      <4>1. worker' = [worker EXCEPT ![w].at = "sleep"]
        BY <3>4 DEF ReceiveDlqFails
      <4>2. /\ worker' \in [Workers -> Worker]
            /\ \A v \in Workers \ {w} : worker'[v] = worker[v]
            /\ worker'[w].at = "sleep"
            /\ worker'[w].batch = worker[w].batch
        BY <1>1, <4>1, WorkerAtLemma
      <4>3. WorkerOK(w)'
        BY <3>2, <4>2, BatchLemma DEF WorkerOK, Develops
      <4>4. QED
        BY <3>2, <4>2, <4>3
    <3>5. QED
      BY <2>1, <3>3, <3>4
  <2>2. CASE Requeue(w)
    <3>1. PICK e \in Events : e = msg[worker[w].current].event
      BY <2>2 DEF DInv, WorkerOK, MessageOK, Requeue
    <3>2. Send(e) /\ TakeNext(w, worker[w].batch)
      BY <2>2, <3>1 DEF Requeue
    <3>3. msg' \in [Ids -> Message] /\ Develops
      BY <1>1, <3>2, SendLemma
    <3>4. QED
      BY <3>2, <3>3, BatchLemma, TakeNextStep
  <2>3. CASE DeleteDeadLetter(w)
    <3>1. PICK i \in Ids : i = worker[w].current /\ msg[i].event \in dropped
      BY <2>3 DEF DInv, WorkerOK, DeleteDeadLetter
    <3>2. Delete(i, "dlq", w) /\ TakeNext(w, worker[w].batch) /\ Settled(msg[i].event)
      BY <2>3, <3>1 DEF DeleteDeadLetter, Settled
    <3>3. msg' \in [Ids -> Message] /\ Develops
      BY <3>2, DeleteLemma
    <3>4. QED
      BY <3>2, <3>3, BatchLemma, TakeNextStep
  <2>4. QED
    BY <2>1, <2>2, <2>3
<1>3. faults' \in 0 .. MaxFaults /\ stops' = stops
  BY <1>1, FaultLemma DEF TypeOK, bounds, ReceiveDlq, ReceiveDlqFails, Requeue, DeleteDeadLetter
<1>4. TypeOK'
  BY <1>1, <1>2, <1>3 DEF TypeOK, sub, results
<1>5. HandlersInOrder'
  BY <1>1 DEF DInv, HandlersInOrder, results
<1>6. QED
  BY <1>1, <1>2, <1>4, <1>5, DeliveryStep DEF sub, results

\* The dead-letter handler is stopped or its process dies.
LEMMA DlqControlStep ==
  ASSUME DInv, StopDlq \/ CrashDlq
  PROVE  DInv'
<1>1. TypeOK /\ UNCHANGED <<queues, sub, results>> /\ dlqRunning' = FALSE
  BY DEF DInv, StopDlq, CrashDlq
<1>2. Off \in Worker /\ Off.at = "off" /\ Off.batch = {}
  BY DEF Off, Worker
<1>3. /\ worker' \in [Workers -> Worker]
      /\ \A v \in Workers : worker'[v] = worker[v] \/ WorkerOK(v)'
  BY <1>1, <1>2 DEF StopDlq, CrashDlq, WorkerOK, TypeOK
<1>4. faults' \in 0 .. MaxFaults /\ stops' \in 0 .. MaxStops
  BY <1>1, FaultLemma, StopsLemma DEF TypeOK, StopDlq, CrashDlq
<1>5. TypeOK'
  BY <1>1, <1>3, <1>4 DEF TypeOK, queues, sub, results
<1>6. QED
  BY <1>1, <1>3, <1>5, QuietStep DEF sub

-----------------------------------------------------------------------------
(* The invariant and what follows from it.                                 *)

\* Every step keeps the invariant.
THEOREM NextDInv == DInv /\ [Next]_vars => DInv'
<1>1. SUFFICES ASSUME DInv, [Next]_vars PROVE DInv'
  OBVIOUS
<1>2. CASE UNCHANGED vars
  <2>1. TypeOK' /\ UNCHANGED <<queues, work, worker, results>>
    BY <1>1, <1>2 DEF DInv, TypeOK, vars, queues, results
  <2>2. QED
    BY <1>1, <2>1, QuietStep
<1>3. CASE Queue
  BY <1>1, <1>3, PublishStep, QueueStep DEF Queue
<1>4. CASE \E l \in Loops : Poll(l) \/ \E i \in Ids : Deliver(l, i)
  BY <1>1, <1>4, PollStep, DeliverStep
<1>5. CASE \E c \in Consumers : Control(c)
  BY <1>1, <1>5, ControlStep
<1>6. CASE \E w \in Workers : DeadLetters(w)
  BY <1>1, <1>6, DeadLetterQuiet, DeadLetterStep, DecideDeleteStep DEF DeadLetters
<1>7. CASE StopDlq \/ CrashDlq
  BY <1>1, <1>7, DlqControlStep
<1>8. QED
  BY <1>1, <1>2, <1>3, <1>4, <1>5, <1>6, <1>7 DEF Next

\* The invariant of the deliveries holds whatever is lost, repeated, delayed
\* or crashes.
THEOREM DeliveryInvariance == Spec => []DInv
  BY InitDInv, NextDInv, PTL DEF Spec

\* The queues, loops and deliveries stay within their types.
THEOREM DeliveryTypeCorrect == Spec => []TypeOK
<1>1. DInv => TypeOK
  BY DEF DInv
<1>2. QED
  BY <1>1, DeliveryInvariance, PTL

\* No published event is lost (poll, acknowledge, processMessage).
THEOREM NoEventIsLost == Spec => []NothingLost
<1>1. DInv => NothingLost
  BY DInvNothingLost
<1>2. QED
  BY <1>1, DeliveryInvariance, PTL

\* Handlers see an event in registration order (processEnvelope).
THEOREM HandlersRunInOrder == Spec => []HandlersInOrder
<1>1. DInv => HandlersInOrder
  BY DEF DInv
<1>2. QED
  BY <1>1, DeliveryInvariance, PTL

-----------------------------------------------------------------------------
(* EventDelivery implements DeliveryContract.                              *)

InQueue(i) == msg[i].place \in {"queue", "dlq"}

\* Messages are of published events.
Genuine == \A i \in Ids : msg[i].place # "unused" => msg[i].event \in published

\* A step of the contract, or none.
ContractStep == Contract!Next \/ UNCHANGED <<published, Owed, answered, dropped>>

\* No message enters or leaves the queues.
SameQueues ==
  \A i \in Ids :
    /\ InQueue(i)' <=> InQueue(i)
    /\ msg[i].place # "unused" <=> msg'[i].place # "unused"
    /\ msg[i].place # "unused" => msg'[i].event = msg[i].event

\* Then the same events are owed, and messages stay genuine.
LEMMA SameQueuesLemma ==
  ASSUME Genuine, SameQueues, published \subseteq published'
  PROVE  Genuine' /\ Owed' = Owed
<1>1. Genuine'
  BY DEF Genuine, SameQueues
<1>2. \A i \in Ids : InQueue(i) => msg[i].place # "unused"
  BY DEF InQueue
<1>3. ASSUME NEW e
      PROVE  (\E i \in Ids : InQueue(i)' /\ msg'[i].event = e)
               <=> \E i \in Ids : InQueue(i) /\ msg[i].event = e
  BY <1>2 DEF SameQueues
<1>4. \A e : e \in Owed' <=> e \in Owed
  BY <1>3 DEF Owed, Live, InQueue
<1>5. QED
  BY <1>1, <1>4 DEF Owed

\* What is handed out stays in its queue.
LEMMA HandOutSame ==
  ASSUME DInv, NEW S, NEW holder \in Holders, HandOut(S, holder),
         \A i \in S : i \in Ids /\ msg[i].place \in {"queue", "dlq"}
  PROVE  SameQueues
<1>1. ASSUME NEW i \in Ids
      PROVE  msg'[i].place = msg[i].place /\ msg'[i].event = msg[i].event
  <2>1. msg[i] \in Message
    BY DEF DInv, TypeOK
  <2>2. QED
    BY <2>1 DEF HandOut, Message
<1>2. QED
  BY <1>1 DEF SameQueues, InQueue

\* A send makes its event owed and touches nothing else.
LEMMA SendOwes ==
  ASSUME DInv, Genuine, NEW e \in Events, Send(e), published' = published \cup {e}
  PROVE  Genuine' /\ Owed' = Owed \cup {e}
<1>1. PICK i \in Ids :
        /\ msg[i] = Unused
        /\ msg' = [msg EXCEPT ![i] = [Unused EXCEPT !.place = "queue", !.event = e]]
  BY DEF Send
<1>2. /\ msg[i].place = "unused" /\ msg'[i].place = "queue" /\ msg'[i].event = e
      /\ \A j \in Ids \ {i} : msg'[j] = msg[j]
  BY <1>1 DEF DInv, TypeOK, Unused
<1>3. Genuine'
  BY <1>2 DEF Genuine
<1>4. InQueue(i)' /\ ~InQueue(i) /\ \A j \in Ids \ {i} : InQueue(j)' <=> InQueue(j)
  BY <1>2 DEF InQueue
<1>5. ASSUME NEW d
      PROVE  (\E j \in Ids : InQueue(j)' /\ msg'[j].event = d)
               <=> d = e \/ \E j \in Ids : InQueue(j) /\ msg[j].event = d
  BY <1>2, <1>4
<1>6. \A d : d \in Owed' <=> d = e \/ d \in Owed
  BY <1>5 DEF Owed, Live, InQueue
<1>7. QED
  BY <1>3, <1>6 DEF Owed

\* A delete releases its event, or another message still carries it.
LEMMA DeleteReleases ==
  ASSUME DInv, Genuine, NEW i \in Ids, NEW place \in {"queue", "dlq"}, NEW holder,
         Delete(i, place, holder), Settled(msg[i].event),
         UNCHANGED <<published, answered, dropped>>
  PROVE  Genuine' /\ ContractStep
<1>1. CASE UNCHANGED msg
  <2>1. SameQueues
    BY <1>1 DEF SameQueues, InQueue
  <2>2. QED
    BY <2>1, SameQueuesLemma DEF ContractStep
<1>2. CASE msg[i].place = place /\ msg' = [msg EXCEPT ![i].place = "deleted", ![i].holder = Nobody]
  <2>1. /\ msg'[i].place = "deleted" /\ msg'[i].event = msg[i].event
        /\ \A j \in Ids \ {i} : msg'[j] = msg[j]
    BY <1>2 DEF DInv, TypeOK, Message
  <2>2. Genuine'
    <3>1. published' = published /\ msg[i].place # "unused"
      BY <1>2
    <3>2. QED
      BY <2>1, <3>1 DEF Genuine
  <2>3. PICK e \in Events : e = msg[i].event
    BY <1>2 DEF DInv, MessageOK
  <2>4. InQueue(i) /\ ~InQueue(i)' /\ \A j \in Ids \ {i} : InQueue(j)' <=> InQueue(j)
    BY <1>2, <2>1 DEF InQueue
  <2>5. ASSUME NEW d, d # e
        PROVE  (\E j \in Ids : InQueue(j)' /\ msg'[j].event = d)
                 <=> \E j \in Ids : InQueue(j) /\ msg[j].event = d
    BY <2>1, <2>3, <2>4, <2>5
  <2>6. ASSUME NEW d, d # e PROVE d \in Owed' <=> d \in Owed
    BY <2>5, <2>6 DEF Owed, Live, InQueue
  <2>7. Owed' = Owed \/ Owed' = Owed \ {e}
    <3>1. e \in Owed
      BY <2>3, <2>4 DEF Owed, Live, InQueue
    <3>2. CASE e \in Owed'
      BY <2>6, <3>1, <3>2 DEF Owed
    <3>3. CASE e \notin Owed'
      BY <2>6, <3>3 DEF Owed
    <3>4. QED
      BY <3>2, <3>3
  <2>8. Contract!Settled(e)
    BY <2>3 DEF Settled, Steps, Contract!Settled, Contract!Steps
  <2>9. CASE Owed' = Owed
    BY <2>2, <2>9 DEF ContractStep
  <2>10. CASE Owed' = Owed \ {e}
    BY <2>2, <2>8, <2>10 DEF ContractStep, Contract!Next, Contract!Release
  <2>11. QED
    BY <2>7, <2>9, <2>10
<1>3. QED
  BY <1>1, <1>2 DEF Delete

\* Steps that leave messages and results alone.
LEMMA NothingDelivered ==
  ASSUME DInv, Genuine, UNCHANGED <<queues, results>>
  PROVE  Genuine' /\ ContractStep
<1>1. SameQueues /\ published' = published
  BY DEF SameQueues, InQueue, queues
<1>2. QED
  BY <1>1, SameQueuesLemma DEF ContractStep, results

\* Steps of the queues.
LEMMA QueueContract ==
  ASSUME DInv, Genuine, Queue
  PROVE  Genuine' /\ ContractStep
<1>1. ASSUME NEW e \in Events, Publish(e) PROVE Genuine' /\ ContractStep
  <2>1. Genuine' /\ Owed' = Owed \cup {e}
    BY <1>1, SendOwes DEF Publish
  <2>2. Contract!Accept(e)
    BY <1>1, <2>1 DEF Publish, Contract!Accept, results
  <2>3. QED
    BY <2>1, <2>2 DEF ContractStep, Contract!Next
<1>2. ASSUME NEW i \in Ids, Reappear(i) \/ Redrive(i) PROVE Genuine' /\ ContractStep
  <2>1. /\ msg'[i].event = msg[i].event /\ InQueue(i) /\ InQueue(i)'
        /\ \A j \in Ids \ {i} : msg'[j] = msg[j]
    BY <1>2 DEF DInv, TypeOK, Message, Reappear, Redrive, Visible, InQueue
  <2>2. SameQueues
    BY <2>1 DEF SameQueues, InQueue
  <2>3. QED
    BY <1>2, <2>2, SameQueuesLemma DEF Reappear, Redrive, ContractStep, results
<1>3. QED
  BY <1>1, <1>2 DEF Queue

\* Steps of a delivery: an answer is a handler's in its turn, because the ones
\* before it have succeeded.
LEMMA DeliverContract ==
  ASSUME DInv, Genuine, NEW l \in Loops, NEW i \in Ids, Deliver(l, i)
  PROVE  Genuine' /\ ContractStep
<1>1. CASE HandlerFails(l, i) \/ AcknowledgeFails(l, i)
  BY <1>1, NothingDelivered DEF HandlerFails, AcknowledgeFails
<1>2. CASE HandlerSucceeds(l, i) \/ HandlerRefuses(l, i)
  <2>1. work[l][i] \in Steps /\ UNCHANGED queues
    BY <1>2 DEF HandlerSucceeds, HandlerRefuses
  <2>2. work[l][i] # 0
    BY <2>1, EventDeliveryAssumption DEF Steps
  <2>3. PICK e \in Events : e = msg[i].event /\ e \in published
    BY <2>2 DEF DInv, DeliveryOK, MessageOK, Genuine
  <2>4. PICK h \in Steps : h = work[l][i] /\ \A g \in Steps : g < h => <<e, g>> \in answered
    BY <2>1, <2>3 DEF DInv, DeliveryOK
  <2>5. SameQueues /\ published' = published
    BY <2>1 DEF SameQueues, InQueue, queues
  <2>6. Genuine' /\ Owed' = Owed
    BY <2>5, SameQueuesLemma
  <2>7. CASE HandlerSucceeds(l, i)
    <3>1. \A g \in 1 .. h - 1 : g \in Steps /\ g < h
      BY EventDeliveryAssumption DEF Steps
    <3>2. Contract!Answer(e, h)
      BY <2>3, <2>4, <2>5, <2>6, <2>7, <3>1 DEF HandlerSucceeds, Contract!Answer
    <3>3. QED
      BY <2>6, <3>2 DEF ContractStep, Contract!Next, Steps, Contract!Steps
  <2>8. CASE HandlerRefuses(l, i)
    <3>1. Contract!Drop(e)
      BY <2>3, <2>5, <2>6, <2>8 DEF HandlerRefuses, Contract!Drop
    <3>2. QED
      BY <2>6, <3>1 DEF ContractStep, Contract!Next
  <2>9. QED
    BY <1>2, <2>7, <2>8
<1>3. CASE Acknowledge(l, i)
  <2>1. Settled(msg[i].event)
    BY <1>3 DEF DInv, DeliveryOK, Acknowledge
  <2>2. QED
    BY <1>3, <2>1, DeleteReleases DEF Acknowledge, results
<1>4. QED
  BY <1>1, <1>2, <1>3 DEF Deliver

\* Steps of a poll loop and of a subscriber.
LEMMA PollContract ==
  ASSUME DInv, Genuine,
         \/ \E l \in Loops : Poll(l)
         \/ \E c \in Consumers : Control(c)
  PROVE  Genuine' /\ ContractStep
<1>1. ASSUME NEW l \in Loops, NEW S \in SUBSET Visible("queue"), Receive(l, S) \/ ReceiveFails(l, S)
      PROVE  Genuine' /\ ContractStep
  <2>1. /\ HandOut(S, l) /\ l \in Holders /\ UNCHANGED <<published, results>>
        /\ \A i \in S : i \in Ids /\ msg[i].place \in {"queue", "dlq"}
    BY <1>1 DEF Receive, ReceiveFails, Holders, Visible
  <2>2. SameQueues
    BY <2>1, HandOutSame
  <2>3. QED
    BY <2>1, <2>2, SameQueuesLemma DEF ContractStep, results
<1>2. ASSUME NEW l \in Loops, Check(l) \/ Wake(l) \/ BatchDone(l)
      PROVE  Genuine' /\ ContractStep
  BY <1>2, NothingDelivered DEF Check, Wake, BatchDone
<1>3. ASSUME NEW c \in Consumers, Control(c)
      PROVE  Genuine' /\ ContractStep
  BY <1>3, NothingDelivered DEF Control, Start, Stop, Cleanup, Crash
<1>4. QED
  BY <1>1, <1>2, <1>3 DEF Poll

\* Steps of the dead-letter handler: what it deletes was dropped, what it sends
\* had been published.
LEMMA DeadLetterContract ==
  ASSUME DInv, Genuine,
         (\E w \in Workers : DeadLetters(w)) \/ StopDlq \/ CrashDlq
  PROVE  Genuine' /\ ContractStep
<1>1. CASE StopDlq \/ CrashDlq
  BY <1>1, NothingDelivered DEF StopDlq, CrashDlq
<1>2. ASSUME NEW w \in Workers,
             \/ StartDlq(w) \/ CheckDlq(w) \/ WakeDlq(w) \/ KeepDeadLetter(w)
             \/ DecideRequeue(w) \/ RequeueFails(w) \/ DeleteDeadLetterFails(w)
      PROVE  Genuine' /\ ContractStep
  BY <1>2, NothingDelivered DEF StartDlq, CheckDlq, WakeDlq, KeepDeadLetter, DecideRequeue,
     RequeueFails, DeleteDeadLetterFails
<1>3. ASSUME NEW w \in Workers, NEW S \in SUBSET Visible("dlq"),
             ReceiveDlq(w, S) \/ ReceiveDlqFails(w, S)
      PROVE  Genuine' /\ ContractStep
  <2>1. /\ HandOut(S, w) /\ w \in Holders /\ UNCHANGED <<published, results>>
        /\ \A i \in S : i \in Ids /\ msg[i].place \in {"queue", "dlq"}
    BY <1>3 DEF ReceiveDlq, ReceiveDlqFails, Holders, Visible
  <2>2. SameQueues
    BY <2>1, HandOutSame
  <2>3. QED
    BY <2>1, <2>2, SameQueuesLemma DEF ContractStep, results
<1>4. ASSUME NEW w \in Workers, worker[w].at \in {"handle", "requeue", "delete"}
      PROVE  \E i \in Ids : /\ i = worker[w].current /\ msg[i].place # "unused"
                           /\ msg[i].event \in Events /\ msg[i].event \in published
  BY <1>4 DEF DInv, WorkerOK, MessageOK, Genuine
<1>5. ASSUME NEW w \in Workers, DecideDelete(w) PROVE Genuine' /\ ContractStep
  <2>1. PICK e \in Events : e = msg[worker[w].current].event /\ e \in published
    BY <1>4, <1>5 DEF DecideDelete
  <2>2. SameQueues /\ published' = published
    BY <1>5 DEF DecideDelete, SameQueues, InQueue, queues
  <2>3. Genuine' /\ Owed' = Owed
    BY <2>2, SameQueuesLemma
  <2>4. Contract!Drop(e)
    BY <1>5, <2>1, <2>2, <2>3 DEF DecideDelete, Contract!Drop
  <2>5. QED
    BY <2>3, <2>4 DEF ContractStep, Contract!Next
<1>6. ASSUME NEW w \in Workers, Requeue(w) PROVE Genuine' /\ ContractStep
  <2>1. PICK e \in Events : e = msg[worker[w].current].event /\ e \in published
    BY <1>4, <1>6 DEF Requeue
  <2>2. published' = published \cup {e} /\ Send(e) /\ UNCHANGED results
    BY <1>6, <2>1 DEF Requeue
  <2>3. Genuine' /\ Owed' = Owed \cup {e}
    BY <2>2, SendOwes
  <2>4. Contract!Return(e)
    BY <2>1, <2>2, <2>3 DEF Contract!Return, results
  <2>5. QED
    BY <2>3, <2>4 DEF ContractStep, Contract!Next
<1>7. ASSUME NEW w \in Workers, DeleteDeadLetter(w) PROVE Genuine' /\ ContractStep
  <2>1. PICK i \in Ids : i = worker[w].current /\ Settled(msg[i].event)
    BY <1>7 DEF DInv, WorkerOK, DeleteDeadLetter, Settled
  <2>2. QED
    BY <1>7, <2>1, DeleteReleases DEF DeleteDeadLetter, results
<1>8. QED
  BY <1>1, <1>2, <1>3, <1>5, <1>6, <1>7 DEF DeadLetters

\* Every step is a step of the contract, or none.
LEMMA ContractNext == DInv /\ Genuine /\ [Next]_vars => Genuine' /\ ContractStep
<1>1. CASE UNCHANGED vars
  BY <1>1, NothingDelivered DEF vars, queues, results
<1>2. QED
  BY <1>1, QueueContract, DeliverContract, PollContract, DeadLetterContract DEF Next

\* Nothing is published.
LEMMA ContractInit == Init => Genuine /\ Contract!Init
<1>1. SUFFICES ASSUME Init PROVE Genuine /\ Contract!Init
  OBVIOUS
<1>2. \A i \in Ids : msg[i].place = "unused"
  BY <1>1 DEF Init, Unused
<1>3. Owed = {}
  BY <1>2 DEF Owed, Live
<1>4. QED
  BY <1>1, <1>2, <1>3 DEF Init, Genuine, Contract!Init

\* Delivery at least once and in order, for any number of messages, subscribers,
\* loops, handlers and faults.
THEOREM DeliveryKeepsContract == Spec => KeepsDeliveryContract
<1>1. DInv /\ Genuine /\ [Next]_vars => Genuine' /\ [Contract!Next]_Contract!vars
  BY ContractNext DEF ContractStep, Contract!vars
<1>2. QED
  BY <1>1, ContractInit, DeliveryInvariance, PTL
     DEF Spec, KeepsDeliveryContract, Contract!Spec

-----------------------------------------------------------------------------
(* Every message moves on.                                                 *)

PlaceRank(place) ==
  CASE place = "unused" -> 0 [] place = "queue" -> 1 [] place = "dlq" -> 2 [] OTHER -> 3

\* A message never goes back to an earlier place, carries its event for good, and
\* gets out of sight in the source queue only by using up one of its receives: there
\* are MaxReceives of them, so no message is delivered without end.
MessageMovesOn(i) ==
  /\ PlaceRank(msg[i].place) <= PlaceRank(msg'[i].place)
  /\ msg[i].place # "unused" => msg'[i].event = msg[i].event
  /\ msg[i].receives <= msg'[i].receives
  /\ msg'[i].place = "queue" /\ msg[i].holder = Nobody /\ msg'[i].holder # Nobody =>
       msg'[i].receives = msg[i].receives + 1 /\ msg'[i].receives <= MaxReceives

MessagesMoveOn == [][\A i \in Ids : MessageMovesOn(i)]_vars

\* A message that stays as it is, or only leaves its place for a later one.
LEMMA LeftMovesOn ==
  ASSUME DInv, NEW i \in Ids,
         \/ msg'[i] = msg[i]
         \/ /\ PlaceRank(msg[i].place) <= PlaceRank(msg'[i].place)
            /\ msg'[i].event = msg[i].event /\ msg'[i].receives = msg[i].receives
            /\ msg'[i].holder \in {msg[i].holder, Nobody}
  PROVE  MessageMovesOn(i)
<1>1. msg[i] \in Message
  BY DEF DInv, TypeOK
<1>2. msg[i].receives \in Nat /\ PlaceRank(msg[i].place) \in Nat
  BY <1>1, EventDeliveryAssumption DEF Message, PlaceRank
<1>3. QED
  BY <1>2 DEF MessageMovesOn

\* A hand-out uses up a receive of the source queue.
LEMMA HandOutMovesOn ==
  ASSUME DInv, NEW S, NEW holder \in Loops \cup Workers, HandOut(S, holder),
         \A i \in S : i \in Ids,
         \A i \in S : msg[i].place = "queue" => msg[i].receives < MaxReceives,
         NEW i \in Ids
  PROVE  MessageMovesOn(i)
<1>1. msg[i] \in Message
  BY DEF DInv, TypeOK
<1>2. CASE i \notin S
  BY <1>2, LeftMovesOn DEF HandOut
<1>3. CASE i \in S
  <2>1. PICK n : n = IF msg[i].place = "queue" THEN msg[i].receives + 1 ELSE msg[i].receives
    OBVIOUS
  <2>2. msg'[i] = [msg[i] EXCEPT !.holder = holder, !.receives = n]
    BY <1>3, <2>1 DEF HandOut
  <2>3. /\ msg'[i].place = msg[i].place /\ msg'[i].event = msg[i].event
        /\ msg'[i].receives = n
    BY <1>1, <2>2 DEF Message
  <2>4. msg[i].receives \in Nat /\ PlaceRank(msg[i].place) \in Nat
    BY <1>1, EventDeliveryAssumption DEF Message, PlaceRank
  <2>5. msg[i].place = "queue" => msg[i].receives < MaxReceives
    BY <1>3
  <2>6. QED
    BY <2>1, <2>3, <2>4, <2>5, EventDeliveryAssumption DEF MessageMovesOn
<1>4. QED
  BY <1>2, <1>3

LEMMA SendMovesOn ==
  ASSUME DInv, NEW e, Send(e), NEW i \in Ids PROVE MessageMovesOn(i)
<1>1. PICK j \in Ids :
        /\ msg[j] = Unused
        /\ msg' = [msg EXCEPT ![j] = [Unused EXCEPT !.place = "queue", !.event = e]]
  BY DEF Send
<1>2. CASE i # j
  BY <1>1, <1>2, LeftMovesOn DEF DInv, TypeOK
<1>3. CASE i = j
  <2> DEFINE x == [Unused EXCEPT !.place = "queue", !.event = e]
  <2>1. msg'[i] = x /\ msg[i] = Unused
    BY <1>1, <1>3 DEF DInv, TypeOK
  <2>2. x.place = "queue" /\ x.receives = Unused.receives /\ x.holder = Unused.holder
    BY DEF Unused
  <2> HIDE DEF x
  <2>3. /\ msg[i].place = "unused" /\ msg[i].receives = 0
        /\ msg'[i].place = "queue" /\ msg'[i].receives = 0 /\ msg'[i].holder = Nobody
    <3>1. Unused.place = "unused" /\ Unused.receives = 0 /\ Unused.holder = Nobody
      BY DEF Unused
    <3>2. QED
      BY <2>1, <2>2, <3>1
  <2>4. QED
    BY <2>3 DEF MessageMovesOn, PlaceRank
<1>4. QED
  BY <1>2, <1>3

LEMMA DeleteMovesOn ==
  ASSUME DInv, NEW j \in Ids, NEW place, NEW holder, Delete(j, place, holder), NEW i \in Ids
  PROVE  MessageMovesOn(i)
<1>1. msg \in [Ids -> Message]
  BY DEF DInv, TypeOK
<1>2. CASE UNCHANGED msg \/ i # j
  BY <1>1, <1>2, LeftMovesOn DEF Delete
<1>3. CASE i = j /\ msg' = [msg EXCEPT ![j].place = "deleted", ![j].holder = Nobody]
  <2>1. /\ msg'[i].place = "deleted" /\ msg'[i].event = msg[i].event
        /\ msg'[i].receives = msg[i].receives /\ msg'[i].holder = Nobody
    BY <1>1, <1>3 DEF Message
  <2>2. PlaceRank(msg[i].place) <= PlaceRank(msg'[i].place)
    BY <2>1 DEF PlaceRank
  <2>3. QED
    BY <2>1, <2>2, LeftMovesOn
<1>4. QED
  BY <1>2, <1>3 DEF Delete

\* A message whose visibility times out, or which has been received too often.
LEMMA QueueMovesOn ==
  ASSUME DInv, Queue, NEW i \in Ids PROVE MessageMovesOn(i)
<1>1. msg \in [Ids -> Message]
  BY DEF DInv, TypeOK
<1>2. ASSUME NEW e \in Events, Publish(e) PROVE MessageMovesOn(i)
  BY <1>2, SendMovesOn DEF Publish
<1>3. ASSUME NEW j \in Ids, Reappear(j) PROVE MessageMovesOn(i)
  <2>1. msg'[i] = msg[i] \/ /\ msg'[i].place = msg[i].place /\ msg'[i].event = msg[i].event
                            /\ msg'[i].receives = msg[i].receives /\ msg'[i].holder = Nobody
    BY <1>1, <1>3 DEF Reappear, Message
  <2>2. PlaceRank(msg[i].place) <= PlaceRank(msg[i].place)
    BY DEF PlaceRank
  <2>3. QED
    BY <2>1, <2>2, LeftMovesOn
<1>4. ASSUME NEW j \in Ids, Redrive(j) PROVE MessageMovesOn(i)
  <2>1. msg'[i] = msg[i] \/ /\ msg[i].place = "queue" /\ msg'[i].place = "dlq"
                            /\ msg'[i].event = msg[i].event
                            /\ msg'[i].receives = msg[i].receives
                            /\ msg'[i].holder = msg[i].holder
    BY <1>1, <1>4 DEF Redrive, Visible, Message
  <2>2. PlaceRank("queue") <= PlaceRank("dlq")
    BY DEF PlaceRank
  <2>3. QED
    BY <2>1, <2>2, LeftMovesOn
<1>5. QED
  BY <1>2, <1>3, <1>4 DEF Queue

LEMMA LoopMovesOn ==
  ASSUME DInv, NEW l \in Loops, Poll(l) \/ \E j \in Ids : Deliver(l, j), NEW i \in Ids
  PROVE  MessageMovesOn(i)
<1>1. ASSUME NEW S \in SUBSET Visible("queue"), Receive(l, S) \/ ReceiveFails(l, S)
      PROVE  MessageMovesOn(i)
  BY <1>1, HandOutMovesOn DEF Receive, ReceiveFails, Visible
<1>2. ASSUME NEW j \in Ids, Acknowledge(l, j) PROVE MessageMovesOn(i)
  BY <1>2, DeleteMovesOn DEF Acknowledge
<1>3. ASSUME UNCHANGED msg PROVE MessageMovesOn(i)
  BY <1>3, LeftMovesOn
<1>4. CASE \/ Check(l) \/ Wake(l) \/ BatchDone(l)
           \/ \E j \in Ids : \/ HandlerSucceeds(l, j) \/ HandlerRefuses(l, j)
                             \/ HandlerFails(l, j) \/ AcknowledgeFails(l, j)
  BY <1>3, <1>4 DEF Check, Wake, BatchDone, HandlerSucceeds, HandlerRefuses, HandlerFails,
     AcknowledgeFails, queues
<1>5. QED
  BY <1>1, <1>2, <1>4 DEF Poll, Deliver

LEMMA DeadLetterMovesOn ==
  ASSUME DInv, NEW w \in Workers, DeadLetters(w), NEW i \in Ids PROVE MessageMovesOn(i)
<1>1. ASSUME NEW S \in SUBSET Visible("dlq"), ReceiveDlq(w, S) \/ ReceiveDlqFails(w, S)
      PROVE  MessageMovesOn(i)
  BY <1>1, HandOutMovesOn DEF ReceiveDlq, ReceiveDlqFails, Visible
<1>2. CASE Requeue(w)
  BY <1>2, SendMovesOn DEF Requeue
<1>3. CASE DeleteDeadLetter(w)
  BY <1>3, DeleteMovesOn DEF DeleteDeadLetter, DInv, WorkerOK
<1>4. ASSUME UNCHANGED msg PROVE MessageMovesOn(i)
  BY <1>4, LeftMovesOn
<1>5. CASE \/ StartDlq(w) \/ CheckDlq(w) \/ WakeDlq(w) \/ KeepDeadLetter(w)
           \/ DecideRequeue(w) \/ DecideDelete(w) \/ RequeueFails(w) \/ DeleteDeadLetterFails(w)
  BY <1>4, <1>5 DEF StartDlq, CheckDlq, WakeDlq, KeepDeadLetter, DecideRequeue, DecideDelete,
     RequeueFails, DeleteDeadLetterFails, queues
<1>6. QED
  BY <1>1, <1>2, <1>3, <1>5 DEF DeadLetters

\* Whatever is redelivered, raced or requeued, each single message runs down: a
\* requeue sends a new one and never brings the old one back.  With a fair queue and
\* handlers that settle this is why the source queue drains.
THEOREM MessagesRunDown == Spec => MessagesMoveOn
<1>1. ASSUME DInv, [Next]_vars, NEW i \in Ids PROVE MessageMovesOn(i)
  <2>1. ASSUME UNCHANGED msg PROVE MessageMovesOn(i)
    BY <1>1, <2>1, LeftMovesOn
  <2>2. CASE UNCHANGED vars \/ StopDlq \/ CrashDlq \/ \E c \in Consumers : Control(c)
    BY <2>1, <2>2 DEF vars, StopDlq, CrashDlq, Control, Start, Stop, Cleanup, Crash, queues
  <2>3. QED
    BY <1>1, <2>2, QueueMovesOn, LoopMovesOn, DeadLetterMovesOn DEF Next
<1>2. DInv /\ [Next]_vars => \A i \in Ids : MessageMovesOn(i)
  BY <1>1
<1>3. QED
  BY <1>2, DeliveryInvariance, PTL DEF Spec, MessagesMoveOn

============================================================================
