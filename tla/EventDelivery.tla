---------------------------- MODULE EventDelivery ----------------------------
(***************************************************************************)
(* Delivery of domain events: packages/common/src/events (the SQS          *)
(* subscriber and the dead-letter handler) over a queue with a redrive     *)
(* policy, as QueueService of the moderation service uses them.            *)
(*                                                                         *)
(* The queue itself is external: it hands a message out, hides it for the  *)
(* visibility timeout, shows it again, and moves it to the dead-letter     *)
(* queue once it was received MaxReceives times.  Subscriptions are taken  *)
(* to deliver raw bodies, and no message outlives its retention.           *)
(*                                                                         *)
(* A subscriber is one JavaScript object; start() runs a poll loop and     *)
(* stop() only lowers a flag, so a loop slot may still be at an await when *)
(* a second start() opens another one.  Each received message is a         *)
(* delivery that awaits its handlers one after the other, then the delete. *)
(***************************************************************************)
EXTENDS Naturals

CONSTANTS
  Events,       \* published events
  Malformed,    \* those whose body is no envelope
  NoEvent,      \* no event
  MaxCopies,    \* messages the two queues ever hold
  Consumers,    \* SqsEventSubscriber instances
  Slots,        \* poll loops one subscriber may have at a time
  Workers,      \* poll loops the dead-letter handler may have at a time
  Nobody,       \* no holder
  Handlers,     \* handlers registered for the event type
  MaxReceives,  \* maxReceiveCount of the redrive policy
  MaxFaults,    \* failed calls to the queue and crashes
  MaxStops      \* calls of stop()

ASSUME EventDeliveryAssumption ==
  /\ Malformed \subseteq Events /\ NoEvent \notin Events
  /\ {MaxCopies, Handlers, MaxFaults, MaxStops} \subseteq Nat
  /\ MaxReceives \in Nat \ {0}
  /\ Nobody \notin Workers \cup (Consumers \X Slots)
  /\ Workers \cap (Consumers \X Slots) = {}

Ids == 1 .. MaxCopies
Loops == Consumers \X Slots
Steps == 1 .. Handlers

VARIABLES
  msg,       \* the messages of both queues, by id
  loop,      \* where each poll loop stands
  work,      \* per loop and message: 0, the handler awaited, or the delete
  consumer,  \* the subscribers' flags and what became of their last stop()
  worker,    \* the dead-letter handler's loops
  dlqRunning,\* its flag
  published, \* events that reached the queue
  answered,  \* <<e, h>>: handler h has succeeded on event e
  dropped,   \* events a handler refused or the dead-letter handler deleted
  faults, stops

vars == <<msg, loop, work, consumer, worker, dlqRunning, published, answered,
          dropped, faults, stops>>

queues  == <<msg, published>>
sub     == <<loop, work, consumer>>
dlq     == <<worker, dlqRunning>>
results == <<answered, dropped>>
bounds  == <<faults, stops>>

-----------------------------------------------------------------------------
Message == [place : {"unused", "queue", "dlq", "deleted"}, event : Events \cup {NoEvent},
            receives : 0 .. MaxReceives, holder : Loops \cup Workers \cup {Nobody}]

Unused == [place |-> "unused", event |-> NoEvent, receives |-> 0, holder |-> Nobody]

Consumer == [isRunning : BOOLEAN, stop : {"idle", "waiting", "quiet", "timedOut"}]

\* A dead-letter loop: the batch still to be processed and the message at hand.
Worker == [at : {"off", "check", "receive", "handle", "requeue", "delete", "sleep"},
           batch : SUBSET Ids, current : Ids \cup {0}]

Off == [at |-> "off", batch |-> {}, current |-> 0]

TypeOK ==
  /\ msg \in [Ids -> Message]
  /\ loop \in [Loops -> {"off", "check", "receive", "process", "sleep"}]
  /\ work \in [Loops -> [Ids -> 0 .. Handlers + 1]]
  /\ consumer \in [Consumers -> Consumer]
  /\ worker \in [Workers -> Worker]
  /\ dlqRunning \in BOOLEAN
  /\ published \subseteq Events
  /\ answered \subseteq Events \X Steps
  /\ dropped \subseteq Events
  /\ faults \in 0 .. MaxFaults /\ stops \in 0 .. MaxStops

Init ==
  /\ msg = [i \in Ids |-> Unused]
  /\ loop = [l \in Loops |-> "off"]
  /\ work = [l \in Loops |-> [i \in Ids |-> 0]]
  /\ consumer = [c \in Consumers |-> [isRunning |-> FALSE, stop |-> "idle"]]
  /\ worker = [w \in Workers |-> Off]
  /\ dlqRunning = FALSE
  /\ published = {} /\ answered = {} /\ dropped = {}
  /\ faults = 0 /\ stops = 0

Fault == faults < MaxFaults /\ faults' = faults + 1 /\ UNCHANGED stops

-----------------------------------------------------------------------------
(* The queues.                                                             *)

\* A new message with event e.
Send(e) ==
  \E i \in Ids :
    /\ msg[i] = Unused /\ \A j \in 1 .. i - 1 : msg[j] # Unused
    /\ msg' = [msg EXCEPT ![i] = [Unused EXCEPT !.place = "queue", !.event = e]]

Visible(place) == {i \in Ids : msg[i].place = place /\ msg[i].holder = Nobody}

\* The queue hands the messages of S to a loop; what it hands out is hidden.
HandOut(S, holder) ==
  msg' = [i \in Ids |->
            IF i \in S
            THEN [msg[i] EXCEPT !.holder = holder,
                                !.receives = IF msg[i].place = "queue" THEN @ + 1 ELSE @]
            ELSE msg[i]]

\* A delete with the receipt of the last hand-out removes the message; with
\* an older receipt the queue may or may not, and it accepts no receipt of a
\* message that has left it.
Delete(i, place, holder) ==
  \/ /\ msg[i].place = place
     /\ msg' = [msg EXCEPT ![i].place = "deleted", ![i].holder = Nobody]
  \/ /\ msg[i].place # place \/ msg[i].holder # holder
     /\ UNCHANGED msg

Publish(e) ==
  /\ e \notin published
  /\ Send(e)
  /\ published' = published \cup {e}
  /\ UNCHANGED <<sub, dlq, results, bounds>>

\* The visibility timeout of a message runs out.
Reappear(i) ==
  /\ msg[i].place \in {"queue", "dlq"} /\ msg[i].holder # Nobody
  /\ msg' = [msg EXCEPT ![i].holder = Nobody]
  /\ UNCHANGED <<published, sub, dlq, results, bounds>>

\* Instead of a receive too many the message goes to the dead-letter queue.
Redrive(i) ==
  /\ i \in Visible("queue")
  /\ msg[i].receives = MaxReceives
  /\ \E l \in Loops : loop[l] = "receive"
  /\ msg' = [msg EXCEPT ![i].place = "dlq"]
  /\ UNCHANGED <<published, sub, dlq, results, bounds>>

-----------------------------------------------------------------------------
(* SqsEventSubscriber.                                                     *)

SetWork(l, i, n) == work' = [work EXCEPT ![l][i] = n]

InFlight(c) == {d \in ({c} \X Slots) \X Ids : work[d[1]][d[2]] # 0}

Start(c, s) ==
  /\ ~consumer[c].isRunning
  /\ loop[<<c, s>>] = "off"
  /\ consumer' = [consumer EXCEPT ![c].isRunning = TRUE]
  /\ loop' = [loop EXCEPT ![<<c, s>>] = "check"]
  /\ UNCHANGED <<queues, work, dlq, results, bounds>>

\* Mutant: the loop does not look at isRunning.
CheckForever(l) ==
  /\ loop[l] = "check"
  /\ loop' = [loop EXCEPT ![l] = "receive"]
  /\ UNCHANGED <<queues, work, consumer, dlq, results, bounds>>

\* The head of the loop.
Check(l) ==
  /\ loop[l] = "check"
  /\ loop' = [loop EXCEPT ![l] = IF consumer[l[1]].isRunning THEN "receive" ELSE "off"]
  /\ UNCHANGED <<queues, work, consumer, dlq, results, bounds>>

\* The messages arrive, whatever happened to isRunning since they were asked
\* for.  A malformed body ends its delivery at once and is not deleted.
Receive(l, S) ==
  /\ loop[l] = "receive"
  /\ \A i \in S : msg[i].receives < MaxReceives
  /\ HandOut(S, l)
  /\ work' = [work EXCEPT ![l] = [i \in Ids |->
                IF i \in S /\ msg[i].event \notin Malformed THEN 1 ELSE 0]]
  /\ loop' = [loop EXCEPT ![l] = IF S = {} THEN "check" ELSE "process"]
  /\ UNCHANGED <<published, consumer, dlq, results, bounds>>

\* The reply is lost: the loop backs off, the messages stay hidden.
ReceiveFails(l, S) ==
  /\ loop[l] = "receive"
  /\ \A i \in S : msg[i].receives < MaxReceives
  /\ Fault
  /\ HandOut(S, l)
  /\ loop' = [loop EXCEPT ![l] = "sleep"]
  /\ UNCHANGED <<published, work, consumer, dlq, results>>

\* Mutant: an error ends the loop, and the flag stays up.
WakeGivesUp(l) ==
  /\ loop[l] = "sleep"
  /\ loop' = [loop EXCEPT ![l] = "off"]
  /\ UNCHANGED <<queues, work, consumer, dlq, results, bounds>>

Wake(l) ==
  /\ loop[l] = "sleep"
  /\ loop' = [loop EXCEPT ![l] = "check"]
  /\ UNCHANGED <<queues, work, consumer, dlq, results, bounds>>

\* Mutant: the handlers are counted one too far.
HandlerSucceedsNext(l, i) ==
  /\ work[l][i] \in Steps
  /\ answered' = answered \cup {<<msg[i].event, work[l][i] + 1>>}
  /\ SetWork(l, i, work[l][i] + 1)
  /\ UNCHANGED <<queues, loop, consumer, dlq, dropped, bounds>>

HandlerSucceeds(l, i) ==
  /\ work[l][i] \in Steps
  /\ answered' = answered \cup {<<msg[i].event, work[l][i]>>}
  /\ SetWork(l, i, work[l][i] + 1)
  /\ UNCHANGED <<queues, loop, consumer, dlq, dropped, bounds>>

\* A failure that is not to be retried removes the message like a success.
HandlerRefuses(l, i) ==
  /\ work[l][i] \in Steps
  /\ dropped' = dropped \cup {msg[i].event}
  /\ SetWork(l, i, Handlers + 1)
  /\ UNCHANGED <<queues, loop, consumer, dlq, answered, bounds>>

\* Mutant: shouldRetry is not looked at.
HandlerFailsAcked(l, i) ==
  /\ work[l][i] \in Steps
  /\ SetWork(l, i, Handlers + 1)
  /\ UNCHANGED <<queues, loop, consumer, dlq, results, bounds>>

\* Mutant: the handlers after a failed one run all the same.
HandlerFailsGoesOn(l, i) ==
  /\ work[l][i] \in Steps
  /\ SetWork(l, i, work[l][i] + 1)
  /\ UNCHANGED <<queues, loop, consumer, dlq, results, bounds>>

\* A handler throws, or fails with shouldRetry.
HandlerFails(l, i) ==
  /\ work[l][i] \in Steps
  /\ SetWork(l, i, 0)
  /\ UNCHANGED <<queues, loop, consumer, dlq, results, bounds>>

Acknowledge(l, i) ==
  /\ work[l][i] = Handlers + 1
  /\ Delete(i, "queue", l)
  /\ SetWork(l, i, 0)
  /\ UNCHANGED <<published, loop, consumer, dlq, results, bounds>>

AcknowledgeFails(l, i) ==
  /\ work[l][i] = Handlers + 1
  /\ Fault
  /\ SetWork(l, i, 0)
  /\ UNCHANGED <<queues, loop, consumer, dlq, results>>

\* Promise.all over the batch resolves.
BatchDone(l) ==
  /\ loop[l] = "process"
  /\ \A i \in Ids : work[l][i] = 0
  /\ loop' = [loop EXCEPT ![l] = "check"]
  /\ UNCHANGED <<queues, work, consumer, dlq, results, bounds>>

Stop(c) ==
  /\ consumer[c].stop # "waiting"
  /\ stops < MaxStops /\ stops' = stops + 1
  /\ consumer' = [consumer EXCEPT ![c] = [isRunning |-> FALSE, stop |-> "waiting"]]
  /\ UNCHANGED <<queues, loop, work, dlq, results, faults>>

\* stop() returns once nothing is in flight, or after 30 seconds.
Cleanup(c) ==
  /\ consumer[c].stop = "waiting"
  /\ consumer' = [consumer EXCEPT ![c].stop = IF InFlight(c) = {} THEN "quiet" ELSE "timedOut"]
  /\ UNCHANGED <<queues, loop, work, dlq, results, bounds>>

Crash(c) ==
  /\ Fault
  /\ consumer' = [consumer EXCEPT ![c] = [isRunning |-> FALSE, stop |-> "idle"]]
  /\ loop' = [l \in Loops |-> IF l[1] = c THEN "off" ELSE loop[l]]
  /\ work' = [l \in Loops |-> IF l[1] = c THEN [i \in Ids |-> 0] ELSE work[l]]
  /\ UNCHANGED <<queues, dlq, results>>

-----------------------------------------------------------------------------
(* DeadLetterQueueHandler.                                                 *)

\* The loop goes on with the rest B of its batch, one message at a time;
\* malformed ones are logged and skipped.
TakeNext(w, B) ==
  LET readable == {i \in B : msg[i].event \notin Malformed}
  IN \/ /\ readable = {}
        /\ worker' = [worker EXCEPT ![w] = [Off EXCEPT !.at = "check"]]
     \/ \E i \in readable :
          worker' = [worker EXCEPT ![w] =
                       [at |-> "handle", batch |-> readable \ {i}, current |-> i]]

StartDlq(w) ==
  /\ ~dlqRunning /\ worker[w].at = "off"
  /\ dlqRunning' = TRUE
  /\ worker' = [worker EXCEPT ![w].at = "check"]
  /\ UNCHANGED <<queues, sub, results, bounds>>

CheckDlq(w) ==
  /\ worker[w].at = "check"
  /\ worker' = [worker EXCEPT ![w].at = IF dlqRunning THEN "receive" ELSE "off"]
  /\ UNCHANGED <<queues, sub, dlqRunning, results, bounds>>

ReceiveDlq(w, S) ==
  /\ worker[w].at = "receive"
  /\ HandOut(S, w)
  /\ TakeNext(w, S)
  /\ UNCHANGED <<published, sub, dlqRunning, results, bounds>>

ReceiveDlqFails(w, S) ==
  /\ worker[w].at = "receive"
  /\ Fault
  /\ HandOut(S, w)
  /\ worker' = [worker EXCEPT ![w].at = "sleep"]
  /\ UNCHANGED <<published, sub, dlqRunning, results>>

WakeDlq(w) ==
  /\ worker[w].at = "sleep"
  /\ worker' = [worker EXCEPT ![w].at = "check"]
  /\ UNCHANGED <<queues, sub, dlqRunning, results, bounds>>

\* The registered handler fails, or succeeds and keeps the message.
KeepDeadLetter(w) ==
  /\ worker[w].at = "handle"
  /\ TakeNext(w, worker[w].batch)
  /\ UNCHANGED <<queues, sub, dlqRunning, results, bounds>>

\* Mutant: the dead letter is deleted before its copy is sent.
DecideRequeueDeletes(w) ==
  /\ worker[w].at = "handle"
  /\ msg' = [msg EXCEPT ![worker[w].current].place = "deleted"]
  /\ worker' = [worker EXCEPT ![w].at = "requeue"]
  /\ UNCHANGED <<published, sub, dlqRunning, results, bounds>>

DecideRequeue(w) ==
  /\ worker[w].at = "handle"
  /\ worker' = [worker EXCEPT ![w].at = "requeue"]
  /\ UNCHANGED <<queues, sub, dlqRunning, results, bounds>>

DecideDelete(w) ==
  /\ worker[w].at = "handle"
  /\ dropped' = dropped \cup {msg[worker[w].current].event}
  /\ worker' = [worker EXCEPT ![w].at = "delete"]
  /\ UNCHANGED <<queues, sub, dlqRunning, answered, bounds>>

\* A copy is sent to the source queue; the dead letter itself stays.
Requeue(w) ==
  /\ worker[w].at = "requeue"
  /\ Send(msg[worker[w].current].event)
  /\ TakeNext(w, worker[w].batch)
  /\ UNCHANGED <<published, sub, dlqRunning, results, bounds>>

\* The send fails, as it does when the message does not name its source.
RequeueFails(w) ==
  /\ worker[w].at = "requeue"
  /\ TakeNext(w, worker[w].batch)
  /\ UNCHANGED <<queues, sub, dlqRunning, results, bounds>>

DeleteDeadLetter(w) ==
  /\ worker[w].at = "delete"
  /\ Delete(worker[w].current, "dlq", w)
  /\ TakeNext(w, worker[w].batch)
  /\ UNCHANGED <<published, sub, dlqRunning, results, bounds>>

DeleteDeadLetterFails(w) ==
  /\ worker[w].at = "delete"
  /\ Fault
  /\ TakeNext(w, worker[w].batch)
  /\ UNCHANGED <<queues, sub, dlqRunning, results>>

CrashDlq ==
  /\ Fault
  /\ dlqRunning' = FALSE
  /\ worker' = [w \in Workers |-> Off]
  /\ UNCHANGED <<queues, sub, results>>

StopDlq ==
  /\ stops < MaxStops /\ stops' = stops + 1
  /\ dlqRunning' = FALSE
  /\ UNCHANGED <<queues, sub, worker, results, faults>>

-----------------------------------------------------------------------------
Queue ==
  \/ \E e \in Events : Publish(e)
  \/ \E i \in Ids : Reappear(i) \/ Redrive(i)

Deliver(l, i) ==
  \/ HandlerSucceeds(l, i) \/ HandlerRefuses(l, i) \/ HandlerFails(l, i)
  \/ Acknowledge(l, i) \/ AcknowledgeFails(l, i)

Poll(l) ==
  \/ Check(l) \/ Wake(l) \/ BatchDone(l)
  \/ \E S \in SUBSET Visible("queue") : Receive(l, S) \/ ReceiveFails(l, S)

Control(c) ==
  \/ \E s \in Slots : Start(c, s)
  \/ Stop(c) \/ Cleanup(c) \/ Crash(c)

DeadLetters(w) ==
  \/ StartDlq(w) \/ CheckDlq(w) \/ WakeDlq(w)
  \/ \E S \in SUBSET Visible("dlq") : ReceiveDlq(w, S) \/ ReceiveDlqFails(w, S)
  \/ KeepDeadLetter(w) \/ DecideRequeue(w) \/ DecideDelete(w)
  \/ Requeue(w) \/ RequeueFails(w) \/ DeleteDeadLetter(w) \/ DeleteDeadLetterFails(w)

Next ==
  \/ Queue
  \/ \E l \in Loops : Poll(l) \/ \E i \in Ids : Deliver(l, i)
  \/ \E c \in Consumers : Control(c)
  \/ (\E w \in Workers : DeadLetters(w)) \/ StopDlq \/ CrashDlq

Spec == Init /\ [][Next]_vars

\* Calls return, handlers settle, the visibility timeout runs out, and the
\* queue does not pass over a message for ever: SF, because other messages or
\* another loop may be served in between.  Nobody is forced to start, to stop,
\* to crash or to run a dead-letter handler.
Fairness ==
  /\ \A l \in Loops :
       /\ WF_vars(\/ Check(l) \/ Wake(l) \/ BatchDone(l)
                  \/ \E S \in SUBSET Visible("queue") : Receive(l, S))
       /\ \A i \in Ids : WF_vars(Deliver(l, i))
  /\ \A i \in Ids :
       /\ WF_vars(Reappear(i))
       /\ SF_vars(\/ Redrive(i)
                  \/ \E l \in Loops, S \in SUBSET Visible("queue") : i \in S /\ Receive(l, S))

FairSpec == Spec /\ Fairness

-----------------------------------------------------------------------------
(* Properties.                                                             *)

Live(e) == {i \in Ids : msg[i].event = e /\ msg[i].place \in {"queue", "dlq"}}

Settled(e) == e \in dropped \/ \A h \in Steps : <<e, h>> \in answered

\* Every published event is still in one of the queues, or all its handlers
\* have succeeded, or somebody decided to drop it: whatever crashes, is lost,
\* or is handed out twice (poll, acknowledge, processMessage).
NothingLost == \A e \in published : Live(e) # {} \/ Settled(e)

\* Handlers run in registration order: none has seen an event its
\* predecessors have not succeeded on, over all deliveries (processEnvelope).
HandlersInOrder ==
  \A e \in Events, h \in Steps : <<e, h>> \in answered => \A g \in 1 .. h : <<e, g>> \in answered

\* The events the queues still hold.
Owed == {e \in Events : Live(e) # {}}

Contract == INSTANCE DeliveryContract WITH accepted <- published, owed <- Owed

\* Publisher, queues, subscribers and dead-letter handler keep the contract of
\* delivery at least once: an event leaves the queues only at a moment when it is
\* settled, what comes back was published, and no handler answers out of turn.
KeepsDeliveryContract == Contract!Spec

\* An event does not stay in the source queue while a subscriber runs: it is
\* acknowledged or ends up in the dead-letter queue, also when subscribers
\* were stopped and started again, calls fail or loops race.
QueueDrains ==
  \A i \in Ids :
    msg[i].place = "queue" ~>
      msg[i].place # "queue" \/ \A c \in Consumers : ~consumer[c].isRunning

\* A poll loop whose subscriber was stopped ends, or finds that a later
\* start() has raised the flag again.
StopTakesEffect ==
  \A l \in Loops : ~consumer[l[1]].isRunning ~> loop[l] = "off" \/ consumer[l[1]].isRunning

\* stop() "waits for in-flight processing to complete": when it returned
\* without timing out, no message is being processed.
StoppedIsQuiet ==
  \A c \in Consumers :
    consumer[c].stop = "quiet" /\ ~consumer[c].isRunning => InFlight(c) = {}

=============================================================================
