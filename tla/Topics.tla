------------------------------- MODULE Topics -------------------------------
(***************************************************************************)
(* The topics discussions and responses belong to: updateTopicStatus,      *)
(* mergeTopics and rollbackTopicMerge of TopicsService, next to everything *)
(* Discussion.tla does.  A merge has one source here; mergeTopics does for *)
(* each of several what it does for one.                                   *)
(*                                                                         *)
(* A merge locks the responses it moves, then the target, then the source, *)
(* a rollback the responses, then the source, and both keep what they have *)
(* until the transaction ends.  Two merges may so wait for each other, and *)
(* PostgreSQL then aborts one of them.  The rows of one statement are      *)
(* locked in one step.                                                     *)
(***************************************************************************)
EXTENDS Discussion, Sequences

VARIABLE merge  \* the TopicMerge records, in the order of their commits

topicsVars == <<vars, merge>>

\* at: how many responses had been created by mergedAt.
Merge == [source : Topics, target : Topics, at : 0 .. MaxResponses, rolledBack : BOOLEAN]

TopicsInit == Init /\ merge = << >>

-----------------------------------------------------------------------------
(* updateTopicStatus                                                        *)

MayChange(u, old, new) ==
  \/ u = Moderator
  \/ u = Creator /\ "LOCKED" \notin {old, new} /\ (new = "SEEDING" => old = "SEEDING")

StartStatus(r, u, t, new) ==
  /\ MayChange(u, topic[t].status, new)
  /\ Change
  /\ Begin(r, [Idle EXCEPT !.at = "status", !.topic = t, !.to = new])
  /\ UNCHANGED <<response, created, discussion, activity, topic, merge>>

WriteTopicStatus(r) ==
  /\ req[r].at = "status" /\ ~TopicLocked(req[r].topic)
  /\ topic' = [topic EXCEPT ![req[r].topic] = [@ EXCEPT !.status = req[r].to]]
  /\ End(r)
  /\ UNCHANGED <<response, created, discussion, activity, changes, merge>>

-----------------------------------------------------------------------------
(* mergeTopics and rollbackTopicMerge                                       *)

\* The topics are read once; the count to write is known from then on.
StartMerge(r, s, t) ==
  /\ s # t /\ topic[s].status # "LOCKED"
  /\ Change
  /\ Begin(r, [Idle EXCEPT !.at = "merging", !.source = s, !.topic = t,
                           !.total = topic[s].responses + topic[t].responses])
  /\ UNCHANGED <<response, created, discussion, activity, topic, merge>>

\* Neither rolled back nor, though time is not modelled, older than 30 days.
StartRollback(r, m) ==
  /\ ~merge[m].rolledBack
  /\ Change
  /\ Begin(r, [Idle EXCEPT !.at = "rolling", !.id = m, !.source = merge[m].source])
  /\ UNCHANGED <<response, created, discussion, activity, topic, merge>>

\* Mutant: a rollback takes everything the target has.
AllOfTarget(q) ==
  {i \in Committed : response[i].topic = (IF q.at = "merging" THEN q.source ELSE merge[q.id].target)}

\* The rows updateMany finds: those of the source, or those created in the target
\* since the merge.
ToMove(q) ==
  IF q.at = "merging"
  THEN {i \in Committed : response[i].topic = q.source}
  ELSE {i \in Committed : response[i].topic = merge[q.id].target /\ i > merge[q.id].at}

\* A row another transaction has moved is waited for, and looked at again.
Move(r) ==
  /\ req[r].at \in {"merging", "rolling"}
  /\ \A i \in ToMove(req[r]) : ~ResponseLocked(i)
  /\ req' = [req EXCEPT ![r] = [@ EXCEPT !.at = IF req[r].at = "merging" THEN "moved" ELSE "rolled",
                                         !.moved = ToMove(req[r])]]
  /\ UNCHANGED <<response, created, discussion, activity, topic, changes, merge>>

\* The target's new count, and the record: mergedAt is now.
UpdateTarget(r) ==
  /\ req[r].at = "moved" /\ ~TopicLocked(req[r].topic)
  /\ req' = [req EXCEPT ![r] = [@ EXCEPT !.at = "recorded", !.mergedAt = created]]
  /\ UNCHANGED <<response, created, discussion, activity, topic, changes, merge>>

\* The source is ARCHIVED, or ACTIVE again whatever it was before.
WriteSource(r) ==
  /\ req[r].at \in {"recorded", "rolled"} /\ ~TopicLocked(req[r].source)
  /\ req' = [req EXCEPT ![r].at = IF req[r].at = "recorded" THEN "archived" ELSE "restored"]
  /\ UNCHANGED <<response, created, discussion, activity, topic, changes, merge>>

MovedTo(t, ids) ==
  response' = [i \in Ids |-> IF i \in ids THEN [response[i] EXCEPT !.topic = t] ELSE response[i]]

CommitMerge(r) ==
  LET q == req[r]
  IN  /\ q.at = "archived"
      /\ MovedTo(q.topic, q.moved)
      /\ topic' = [topic EXCEPT ![q.topic] = [@ EXCEPT !.responses = q.total],
                                ![q.source] = [@ EXCEPT !.status = "ARCHIVED"]]
      /\ merge' = Append(merge, [source |-> q.source, target |-> q.topic, at |-> q.mergedAt,
                                 rolledBack |-> FALSE])
      /\ End(r)
      /\ UNCHANGED <<created, discussion, activity, changes>>

\* Nobody's count changes.
CommitRollback(r) ==
  LET q == req[r]
  IN  /\ q.at = "restored"
      /\ MovedTo(q.source, q.moved)
      /\ topic' = [topic EXCEPT ![q.source] = [@ EXCEPT !.status = "ACTIVE"]]
      /\ merge' = [merge EXCEPT ![q.id] = [@ EXCEPT !.rolledBack = TRUE]]
      /\ End(r)
      /\ UNCHANGED <<created, discussion, activity, changes>>

-----------------------------------------------------------------------------
(* Waiting                                                                  *)

\* Request r is about to write a row that q has written and not committed.
WaitsFor(r, q) ==
  \/ req[r].at \in {"add", "create"} /\ HoldsActivity(q, r)
  \/ req[r].at = "counted" /\ HoldsDiscussion(q, r)
  \/ req[r].at \in {"increment", "status", "moved"} /\ HoldsTopic(q, req[r].topic)
  \/ req[r].at \in {"recorded", "rolled"} /\ HoldsTopic(q, req[r].source)
  \/ req[r].at \in {"moderate", "edit"} /\ HoldsResponse(q, req[r].id)
  \/ req[r].at \in {"merging", "rolling"} /\ \E i \in ToMove(req[r]) : HoldsResponse(q, i)

Stuck(S) == S # {} /\ \A r \in S : \E q \in S : WaitsFor(r, q)

\* Requests each of which waits for the next.
Circle(S) == Stuck(S) /\ \A T \in SUBSET S : Stuck(T) => T = S

\* After deadlock_timeout PostgreSQL aborts a request of a circle.
BreakDeadlock(r) ==
  /\ \E S \in SUBSET Requests : r \in S /\ Circle(S)
  /\ End(r)
  /\ UNCHANGED <<response, created, discussion, activity, topic, changes, merge>>

-----------------------------------------------------------------------------
StartChange(r) ==
  /\ req[r] = Idle
  /\ \/ \E u \in {Creator, Moderator}, t \in Topics, new \in TopicStatus : StartStatus(r, u, t, new)
     \/ \E s, t \in Topics : StartMerge(r, s, t)
     \/ \E m \in DOMAIN merge : StartRollback(r, m)

WriteTopics(r) ==
  \/ WriteTopicStatus(r) \/ Move(r) \/ UpdateTarget(r) \/ WriteSource(r)
  \/ CommitMerge(r) \/ CommitRollback(r) \/ BreakDeadlock(r)

Next ==
  \/ DiscussionNext /\ UNCHANGED merge
  \/ \E r \in Requests : StartChange(r) \/ WriteTopics(r)

Spec == TopicsInit /\ [][Next]_topicsVars

-----------------------------------------------------------------------------
(* Properties                                                               *)

\* The transactions of mergeTopics and rollbackTopicMerge.
Moving == {"merging", "moved", "recorded", "archived", "rolling", "rolled", "restored"}

\* The variables have their types.
TypeOK ==
  /\ response \in [Ids -> Response] /\ created \in 0 .. MaxResponses
  /\ discussion \in [Discussions -> [topic : Topics \cup {None}, responses : Nat,
                                     participants : Nat]]
  /\ activity \in [Discussions -> [Users -> Nat]]
  /\ topic \in [Topics -> [status : TopicStatus, responses : Nat]]
  /\ merge \in Seq(Merge)
  /\ changes \in 0 .. MaxChanges
  /\ \A r \in Requests :
       /\ req[r].at \in Place
       /\ req[r].at \in Posting => req[r].disc \in Discussions /\ req[r].id \in Ids
       /\ req[r].at \in {"moderate", "edit"} => req[r].id \in Committed
       /\ req[r].moved # {} => req[r].at \in Moving /\ req[r].moved \subseteq Committed

\* Merges may cross, A into B and B into A, and wait for each other; but no post, no
\* edit, no moderation and no change of a status is ever in a circle of requests
\* that wait, so that PostgreSQL never aborts one of them to break it.
OnlyMergesDeadlock == \A S \in SUBSET Requests : Circle(S) => \A r \in S : req[r].at \in Moving

\* A response is found where it was posted, or a merge explains where it is: it was
\* there before mergedAt and is in the target, or it came after that and was taken
\* to the source when the merge was rolled back.  A rollback takes none of the first
\* kind back, whatever its comments say: see RollbackRestores.
MovesExplained ==
  \A i \in Committed :
    response[i].topic # response[i].origin =>
      \E m \in DOMAIN merge :
        \/ response[i].topic = merge[m].target /\ i <= merge[m].at
        \/ response[i].topic = merge[m].source /\ i > merge[m].at /\ merge[m].rolledBack

\* "Restores source topics and moves responses back": when the only merge there was is
\* rolled back, the responses it had moved return to the source.
RollbackRestores ==
  [][Len(merge) = 1 /\ ~merge[1].rolledBack /\ merge'[1].rolledBack =>
       \A i \in Committed :
         response[i].origin = merge[1].source /\ response[i].topic = merge[1].target =>
           response'[i].topic = merge[1].source]_topicsVars

\* createResponse counts what it has inserted, at most once: as long as nothing is
\* merged into it a topic never claims more responses than were posted to it.
TopicCountBounded ==
  \A t \in Topics :
    (\A m \in DOMAIN merge : merge[m].target # t) =>
      topic[t].responses <=
        Cardinality({i \in Committed : response[i].origin = t /\ response[i].disc = None})

\* A locked topic "cannot accept new discussions": once those that had read it before
\* are through, none is opened in it until a status request, a merge or a rollback
\* changes it.  Nothing is said of who may lock and unlock topics.
Closed(t) ==
  /\ topic[t].status = "LOCKED"
  /\ \A r \in Requests : ~(req[r].at = "opening" /\ req[r].topic = t)

LockedIsClosed ==
  [][\A t \in Topics : Closed(t) =>
       /\ \A d \in Discussions : discussion'[d].topic = t => discussion[d].topic = t
       /\ \/ Closed(t)'
          \/ \E r \in Requests : /\ t \in {req[r].topic, req[r].source}
                                 /\ req[r].at \in {"status", "archived", "restored"}
                                 /\ req'[r].at = "idle"]_topicsVars

\* What a discussion and its counters look like from outside.
Thread(d) ==
  {[id |-> i, author |-> response[i].author, parent |-> response[i].parent] : i \in In(d)}

Threads == [d \in Discussions |-> Thread(d)]
ResponseCounts == [d \in Discussions |-> discussion[d].responses]
ParticipantCounts == [d \in Discussions |-> discussion[d].participants]

Contract == INSTANCE DiscussionContract WITH
  thread <- Threads, shown <- ResponseCounts, written <- activity,
  participants <- ParticipantCounts

\* Whatever requests read of each other's half-done work, a discussion looks as if
\* posts came one after the other, each at once when its transaction commits; and
\* edits, moderation, merges, rollbacks and aborts leave it as it is.
KeepsDiscussionContract == Contract!Spec

=============================================================================
