----------------------------- MODULE Discussion -----------------------------
(***************************************************************************)
(* Discussions and their responses: DiscussionsService.createDiscussion,   *)
(* ResponsesService and ContentModerationService of discussion-service.    *)
(*                                                                         *)
(* The service keeps nothing in memory.  Its state is in PostgreSQL, used  *)
(* at READ COMMITTED: a statement sees what is committed when it starts,   *)
(* an UPDATE or a conflicting INSERT waits until the transaction that      *)
(* wrote the row has ended, and what a transaction writes shows at its     *)
(* commit.  A transaction takes a step for every statement another request *)
(* can come between; what it has written so far is in its request's        *)
(* record.  Topics.tla adds what changes topics.                           *)
(***************************************************************************)
EXTENDS Naturals, FiniteSets

CONSTANTS
  Requests,     \* requests that may be under way at a time
  Users,
  Creator,      \* the creator of a topic, when he changes its status
  Moderator,    \* whoever moderates
  Topics,
  Discussions,
  None,         \* null
  MaxResponses, \* bound on the responses ever created
  MaxDepth,     \* MAX_THREAD_DEPTH: 10
  MaxChanges    \* bound on edits, moderations, changes of topics and aborts

ASSUME DiscussionAssumption ==
  /\ Creator # Moderator
  /\ None \notin Topics \cup Discussions \cup Users
  /\ IsFiniteSet(Users) /\ IsFiniteSet(Requests)
  /\ {MaxResponses, MaxDepth, MaxChanges} \subseteq Nat

VARIABLES
  response,   \* the responses, numbered in the order of createdAt
  created,    \* how many numbers were given away
  discussion, \* the discussions; topic is None before createDiscussion
  activity,   \* ParticipantActivity.responseCount; 0: there is no row
  topic,      \* the topics
  req,        \* the requests
  changes     \* how much of MaxChanges is used

vars == <<response, created, discussion, activity, topic, req, changes>>

-----------------------------------------------------------------------------
Ids == 1 .. MaxResponses

ResponseStatus == {"VISIBLE", "HIDDEN", "REMOVED"}
TopicStatus == {"SEEDING", "ACTIVE", "ARCHIVED", "LOCKED"}

\* origin: the topic it was posted to.
Response == [topic : Topics \cup {None}, origin : Topics \cup {None},
             disc : Discussions \cup {None}, author : Users \cup {None},
             parent : 0 .. MaxResponses, status : ResponseStatus, revision : Nat]

NoResponse == [topic |-> None, origin |-> None, disc |-> None, author |-> None,
               parent |-> 0, status |-> "VISIBLE", revision |-> 0]

NewResponse(t, d, u, p) == [topic |-> t, origin |-> t, disc |-> d, author |-> u,
                            parent |-> p, status |-> "VISIBLE", revision |-> 0]

Committed == {i \in Ids : response[i].topic # None}

\* The responses of a discussion, and those of one author in it.
In(d) == {i \in Committed : response[i].disc = d}
By(u, d) == {i \in In(d) : response[i].author = u}

\* The places of a request, and what it knows: ids and values it was given or
\* read, and what it has written but not committed.
Posting == {"inserted", "add", "create", "activity", "counted", "updated"}

Place == Posting \cup {"idle", "opening", "checked", "increment", "moderate", "edit",
                       "status", "merging", "moved", "recorded", "archived",
                       "rolling", "rolled", "restored"}

Idle == [at |-> "idle", user |-> None, topic |-> None, source |-> None, disc |-> None,
         id |-> 0, parent |-> 0, to |-> None, mine |-> 0, total |-> 0,
         participants |-> 0, moved |-> {}, mergedAt |-> 0]

Begin(r, q) == req' = [req EXCEPT ![r] = q]

End(r) == req' = [req EXCEPT ![r] = Idle]

Change == changes < MaxChanges /\ changes' = changes + 1

\* Numbers are left for the requests that will need one.
Room ==
  created + Cardinality({q \in Requests : req[q].at \in {"opening", "checked"}}) < MaxResponses

Init ==
  /\ response = [i \in Ids |-> NoResponse]
  /\ created = 0
  /\ discussion = [d \in Discussions |-> [topic |-> None, responses |-> 0, participants |-> 0]]
  /\ activity = [d \in Discussions |-> [u \in Users |-> 0]]
  /\ topic = [t \in Topics |-> [status |-> "SEEDING", responses |-> 0]]
  /\ req = [r \in Requests |-> Idle]
  /\ changes = 0

-----------------------------------------------------------------------------
(* Locks: the rows a request has written in a transaction that is not        *)
(* committed.  Other writers of the row wait, readers do not.                *)

\* Request q has written the activity row r is about to write.
HoldsActivity(q, r) ==
  /\ req[q].at \in {"activity", "counted", "updated"}
  /\ req[q].disc = req[r].disc /\ req[q].user = req[r].user

\* Mutant: a transaction that has counted the participants holds a shared lock, which
\* others may hold as well.
HoldsShared(q, r) ==
  q # r /\ req[q].at \in {"counted", "updated"} /\ req[q].disc = req[r].disc

\* Request q has written the discussion r is about to write.
HoldsDiscussion(q, r) == req[q].at = "updated" /\ req[q].disc = req[r].disc

\* A merge writes its target, then its source; a rollback its source only.
HoldsTopic(q, t) ==
  \/ req[q].at \in {"recorded", "archived"} /\ req[q].topic = t
  \/ req[q].at \in {"archived", "restored"} /\ req[q].source = t

HoldsResponse(q, i) == i \in req[q].moved

ActivityLocked(r) == \E q \in Requests : HoldsActivity(q, r)
DiscussionLocked(r) == \E q \in Requests : HoldsDiscussion(q, r)
TopicLocked(t) == \E q \in Requests : HoldsTopic(q, t)
ResponseLocked(i) == \E q \in Requests : HoldsResponse(q, i)

-----------------------------------------------------------------------------
(* Threads                                                                  *)

\* calculateThreadDepth: how many parents a response has above it.
Depth[i \in Ids] == IF response[i].parent = 0 THEN 0 ELSE Depth[response[i].parent] + 1

\* Mutant: the list is ordered by createdAt descending.
Newest(n) == MaxResponses + 1 - n

\* getDiscussionResponses: the place of a response in the order of createdAt.
Listed(n) == n

\* buildThreadTree: the depths after n responses of the list, each taken from what
\* its parent has by then; a response without its parent is a root.
TreeDepths(d) ==
  LET depth[n \in 0 .. MaxResponses] ==
        IF n = 0
        THEN [i \in In(d) |-> 0]
        ELSE LET i == Listed(n)
             IN  IF i \in In(d) /\ response[i].parent \in In(d)
                 THEN [depth[n - 1] EXCEPT ![i] = depth[n - 1][response[i].parent] + 1]
                 ELSE depth[n - 1]
  IN  depth[MaxResponses]

-----------------------------------------------------------------------------
(* createDiscussion                                                         *)

\* Mutant: as for a response outside discussions, only archived topics are refused.
UnlessArchived(t) == topic[t].status # "ARCHIVED"

OpenTo(t) == topic[t].status \in {"ACTIVE", "SEEDING"}

\* The topic is read before the citations are checked and the transaction begins.
StartDiscussion(r, u, t, d) ==
  /\ Room /\ discussion[d].topic = None
  /\ \A q \in Requests : ~(req[q].at = "opening" /\ req[q].disc = d)
  /\ OpenTo(t)
  /\ Begin(r, [Idle EXCEPT !.at = "opening", !.user = u, !.topic = t, !.disc = d])
  /\ UNCHANGED <<response, created, discussion, activity, topic, changes>>

\* Nobody knows the rows before the transaction commits.
CreateDiscussion(r) ==
  LET q == req[r]
  IN  /\ q.at = "opening" /\ created < MaxResponses
      /\ created' = created + 1
      /\ response' = [response EXCEPT ![created + 1] = NewResponse(q.topic, q.disc, q.user, 0)]
      /\ discussion' = [discussion EXCEPT ![q.disc] = [topic |-> q.topic, responses |-> 1,
                                                       participants |-> 1]]
      /\ activity' = [activity EXCEPT ![q.disc] = [@ EXCEPT ![q.user] = 1]]
      /\ End(r)
      /\ UNCHANGED <<topic, changes>>

-----------------------------------------------------------------------------
(* createResponseForDiscussion and replyToResponse                          *)

\* Mutant: the parent is looked up, but not compared with the discussion.
AnyParent(p, d) == p = 0 \/ p \in Committed

\* What is read of the parent never changes once it is there.
ParentOk(p, d) == p = 0 \/ (p \in Committed /\ response[p].disc = d)

\* The checks, and the transaction's first statement, tx.response.create.
Post(r, u, d, p) ==
  /\ Room /\ created < MaxResponses
  /\ discussion[d].topic # None /\ ParentOk(p, d)
  /\ created' = created + 1
  /\ Begin(r, [Idle EXCEPT !.at = "inserted", !.user = u, !.disc = d,
                           !.id = created + 1, !.parent = p])
  /\ UNCHANGED <<response, discussion, activity, topic, changes>>

\* The discussion is the parent's, and the parent is not too deep.
Reply(r, u, p) ==
  /\ p \in Committed /\ response[p].disc # None /\ Depth[p] < MaxDepth
  /\ Post(r, u, response[p].disc, p)

\* tx.participantActivity.findUnique
FindActivity(r) ==
  /\ req[r].at = "inserted"
  /\ req' = [req EXCEPT ![r].at =
               IF activity[req[r].disc][req[r].user] > 0 THEN "add" ELSE "create"]
  /\ UNCHANGED <<response, created, discussion, activity, topic, changes>>

WriteActivity(r) ==
  /\ req' = [req EXCEPT ![r] = [@ EXCEPT !.at = "activity",
                                         !.mine = activity[req[r].disc][req[r].user] + 1]]
  /\ UNCHANGED <<response, created, discussion, activity, topic, changes>>

\* Mutant: what was read is written plus one, without waiting for the row.
AddUnlocked(r) == req[r].at = "add" /\ WriteActivity(r)

AddActivity(r) == req[r].at = "add" /\ ~ActivityLocked(r) /\ WriteActivity(r)

\* The row may have come since: the unique index refuses another, and the whole
\* transaction is undone.
CreateActivity(r) ==
  /\ req[r].at = "create" /\ ~ActivityLocked(r)
  /\ IF activity[req[r].disc][req[r].user] = 0
     THEN WriteActivity(r)
     ELSE /\ End(r)
          /\ UNCHANGED <<response, created, discussion, activity, topic, changes>>

\* Mutant: the discussion's responses are counted instead of its participants.
CountResponses(r) == Cardinality(In(req[r].disc)) + 1

\* tx.participantActivity.count: the committed rows, and one's own.
Participants(r) ==
  Cardinality({u \in Users : activity[req[r].disc][u] > 0 \/ u = req[r].user})

CountParticipants(r) ==
  /\ req[r].at = "activity"
  /\ req' = [req EXCEPT ![r] = [@ EXCEPT !.at = "counted", !.participants = Participants(r)]]
  /\ UNCHANGED <<response, created, discussion, activity, topic, changes>>

\* Mutant: the count that was read plus one is written, whoever has written meanwhile.
UpdateToRead(r) ==
  /\ req[r].at = "counted"
  /\ req' = [req EXCEPT ![r] = [@ EXCEPT !.at = "updated",
                                         !.total = discussion[req[r].disc].responses + 1]]
  /\ UNCHANGED <<response, created, discussion, activity, topic, changes>>

\* tx.discussion.update, with responseCount: { increment: 1 }
UpdateDiscussion(r) ==
  /\ req[r].at = "counted" /\ ~DiscussionLocked(r)
  /\ req' = [req EXCEPT ![r] = [@ EXCEPT !.at = "updated",
                                         !.total = discussion[req[r].disc].responses + 1]]
  /\ UNCHANGED <<response, created, discussion, activity, topic, changes>>

Commit(r) ==
  LET q == req[r]
      t == discussion[q.disc].topic
  IN  /\ q.at = "updated"
      /\ response' = [response EXCEPT ![q.id] = NewResponse(t, q.disc, q.user, q.parent)]
      /\ discussion' = [discussion EXCEPT ![q.disc] = [topic |-> t, responses |-> q.total,
                                                       participants |-> q.participants]]
      /\ activity' = [activity EXCEPT ![q.disc] = [@ EXCEPT ![q.user] = q.mine]]
      /\ End(r)
      /\ UNCHANGED <<created, topic, changes>>

-----------------------------------------------------------------------------
(* createResponse: statements of their own, without a transaction           *)

\* Nothing depends on whose a response outside discussions is: no author is kept.
StartResponse(r, t, p) ==
  /\ Room
  /\ topic[t].status # "ARCHIVED"
  /\ p = 0 \/ (p \in Committed /\ response[p].topic = t)
  /\ Begin(r, [Idle EXCEPT !.at = "checked", !.topic = t, !.parent = p])
  /\ UNCHANGED <<response, created, discussion, activity, topic, changes>>

InsertResponse(r) ==
  LET q == req[r]
  IN  /\ q.at = "checked" /\ created < MaxResponses
      /\ created' = created + 1
      /\ response' = [response EXCEPT ![created + 1] = NewResponse(q.topic, None, None, q.parent)]
      /\ req' = [req EXCEPT ![r] = [Idle EXCEPT !.at = "increment", !.topic = q.topic]]
      /\ UNCHANGED <<discussion, activity, topic, changes>>

\* Mutant: the update is sent again when its answer is lost.
IncrementRetried(r) ==
  /\ req[r].at = "increment" /\ ~TopicLocked(req[r].topic)
  /\ topic' = [topic EXCEPT ![req[r].topic].responses = @ + 1]
  /\ End(r) \/ UNCHANGED req
  /\ UNCHANGED <<response, created, discussion, activity, changes>>

IncrementTopic(r) ==
  /\ req[r].at = "increment" /\ ~TopicLocked(req[r].topic)
  /\ topic' = [topic EXCEPT ![req[r].topic].responses = @ + 1]
  /\ End(r)
  /\ UNCHANGED <<response, created, discussion, activity, changes>>

-----------------------------------------------------------------------------
(* hideResponse, removeResponse, restoreResponse and updateResponse: what    *)
(* is read decides, and the write asks for the id only                       *)

\* Mutant: whatever is not visible may be restored.
RestoresAny(status, to) ==
  CASE to = "HIDDEN" -> status = "VISIBLE" [] to = "VISIBLE" -> status # "VISIBLE" [] OTHER -> TRUE

Allowed(status, to) ==
  \/ to = "HIDDEN" /\ status = "VISIBLE"
  \/ to = "REMOVED"
  \/ to = "VISIBLE" /\ status = "HIDDEN"

\* Mutant: there is no check that the response exists.
ModerateUnknown(r, i, to) ==
  /\ Allowed(response[i].status, to)
  /\ Change
  /\ Begin(r, [Idle EXCEPT !.at = "moderate", !.id = i, !.to = to])
  /\ UNCHANGED <<response, created, discussion, activity, topic>>

StartModeration(r, i, to) ==
  /\ i \in Committed /\ Allowed(response[i].status, to)
  /\ Change
  /\ Begin(r, [Idle EXCEPT !.at = "moderate", !.id = i, !.to = to])
  /\ UNCHANGED <<response, created, discussion, activity, topic>>

WriteStatus(r) ==
  /\ req[r].at = "moderate" /\ ~ResponseLocked(req[r].id)
  /\ response' = [response EXCEPT ![req[r].id] = [@ EXCEPT !.status = req[r].to]]
  /\ End(r)
  /\ UNCHANGED <<created, discussion, activity, topic, changes>>

StartEdit(r, i) ==
  /\ i \in Committed /\ response[i].status = "VISIBLE"
  /\ topic[response[i].topic].status # "ARCHIVED"
  /\ Change
  /\ Begin(r, [Idle EXCEPT !.at = "edit", !.id = i])
  /\ UNCHANGED <<response, created, discussion, activity, topic>>

WriteEdit(r) ==
  /\ req[r].at = "edit" /\ ~ResponseLocked(req[r].id)
  /\ response' = [response EXCEPT ![req[r].id].revision = @ + 1]
  /\ End(r)
  /\ UNCHANGED <<created, discussion, activity, topic, changes>>

-----------------------------------------------------------------------------
\* An error, the 5 s limit of a transaction, or a crash: a transaction leaves
\* nothing, and what createResponse has inserted stays.
Abort(r) ==
  /\ req[r].at # "idle"
  /\ Change
  /\ End(r)
  /\ UNCHANGED <<response, created, discussion, activity, topic>>

PostStep(r) ==
  \/ FindActivity(r) \/ AddActivity(r) \/ CreateActivity(r)
  \/ CountParticipants(r) \/ UpdateDiscussion(r) \/ Commit(r)

Write(r) ==
  CreateDiscussion(r) \/ InsertResponse(r) \/ IncrementTopic(r) \/ WriteStatus(r) \/ WriteEdit(r)

Start(r) ==
  /\ req[r] = Idle
  /\ \/ \E u \in Users :
          \/ \E t \in Topics, d \in Discussions : StartDiscussion(r, u, t, d)
          \/ \E d \in Discussions, p \in 0 .. MaxResponses : Post(r, u, d, p)
          \/ \E p \in Ids : Reply(r, u, p)
     \/ \E t \in Topics, p \in 0 .. MaxResponses : StartResponse(r, t, p)
     \/ \E i \in Ids : StartEdit(r, i) \/ \E to \in ResponseStatus : StartModeration(r, i, to)

DiscussionNext == \E r \in Requests : Start(r) \/ PostStep(r) \/ Write(r) \/ Abort(r)

-----------------------------------------------------------------------------
(* Properties                                                               *)

\* The counters kept beside the rows agree with the rows, whatever is posted at
\* the same time, aborts or is lost in a crash: Discussion.responseCount and
\* ParticipantActivity.responseCount.
CountersExact ==
  \A d \in Discussions :
    /\ discussion[d].responses = Cardinality(In(d))
    /\ \A u \in Users : activity[d][u] = Cardinality(By(u, d))

\* participantCount is taken from a count other posts can overtake, so it may lag
\* behind; it never exceeds the number of authors, and counts the creator.
ParticipantsBounded ==
  \A d \in Discussions :
    /\ discussion[d].participants <= Cardinality({u \in Users : activity[d][u] > 0})
    /\ discussion[d].topic # None => discussion[d].participants > 0

\* A response of a discussion answers an earlier one of the same discussion that is
\* committed, hidden or removed though it may be: calculateThreadDepth ends, and a
\* list in the order of createdAt has the parents first.
ThreadsWellFormed ==
  \A i \in Committed :
    response[i].parent # 0 =>
      /\ response[i].parent < i /\ response[i].parent \in Committed
      /\ response[i].disc # None => response[response[i].parent].disc = response[i].disc

\* The tree shows every response at its depth.
TreeTrue == \A d \in Discussions : \A i \in In(d) : TreeDepths(d)[i] = Depth[i]

\* A response is gone for good once it is removed and nobody is in the middle of
\* changing it: it is neither shown again nor edited.
Gone(i) ==
  /\ response[i].status = "REMOVED"
  /\ \A r \in Requests :
       /\ req[r].at = "moderate" /\ req[r].id = i => req[r].to = "REMOVED"
       /\ req[r].at = "edit" => req[r].id # i

RemovalLasts ==
  [][\A i \in Committed : Gone(i) => Gone(i)' /\ response'[i].revision = response[i].revision]_vars

=============================================================================
