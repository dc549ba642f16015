---------------------------- MODULE TopicsProofs ----------------------------
(***************************************************************************)
(* More proofs about Topics, from the invariant of DiscussionProofs: a     *)
(* topic never claims more responses than were posted to it, the tree of a *)
(* discussion shows every response at its depth, and no requests but       *)
(* merges and rollbacks ever wait for each other in a circle.              *)
(***************************************************************************)
EXTENDS DiscussionProofs, NaturalsInduction

USE DiscussionAssumption

-----------------------------------------------------------------------------
(* What a step may do to a row                                              *)

\* A response keeps what it was posted with; a number that has none stays blank, or
\* gets its response.
RowKept(i) ==
  \/ /\ i \in Committed /\ i \in Committed'
     /\ response'[i].origin = response[i].origin /\ response'[i].disc = response[i].disc
     /\ response'[i].author = response[i].author /\ response'[i].parent = response[i].parent
  \/ i \notin Committed /\ (i \in Committed' \/ response'[i] = response[i])

LEMMA SameRow ==
  ASSUME NEW i \in Ids, response'[i] = response[i] PROVE RowKept(i)
  BY DEF RowKept, Committed

\* A new row overwrites none.
LEMMA NewRowKept ==
  ASSUME IInv, NEW j, j \notin Committed, NEW w, w.topic # None,
         response' = [response EXCEPT ![j] = w], NEW i \in Ids
  PROVE  RowKept(i)
  <1>1. response \in [Ids -> Response]
    BY DEF IInv, Types
  <1>2. CASE i = j
    BY <1>1, <1>2 DEF RowKept, Committed
  <1>3. CASE i # j
    <2>1. response'[i] = response[i]
      BY <1>1, <1>3
    <2> QED
      BY <2>1, SameRow
  <1> QED
    BY <1>2, <1>3

\* The next number has not been used.
LEMMA NextFree == IInv => created + 1 \notin Committed
  BY DEF IInv, Rows, Types

LEMMA DiscussionRows ==
  ASSUME IInv, NEW r \in Requests, Start(r) \/ PostStep(r) \/ Write(r) \/ Abort(r), NEW i \in Ids
  PROVE  RowKept(i)
  <1> DEFINE q == req[r]
  <1>1. PostOk(r) /\ OtherOk(r) /\ response \in [Ids -> Response]
    BY DEF IInv, RequestsOk, Types
  <1>2. CASE Start(r)
    <2>1. \A u, t, d : StartDiscussion(r, u, t, d) => response' = response
      BY DEF StartDiscussion
    <2>2. \A u, d, p : Post(r, u, d, p) => response' = response
      BY DEF Post
    <2>3. \A u, p : Reply(r, u, p) => response' = response
      BY <2>2 DEF Reply
    <2>4. \A t, p : StartResponse(r, t, p) => response' = response
      BY DEF StartResponse
    <2>5. \A j, to : StartEdit(r, j) \/ StartModeration(r, j, to) => response' = response
      BY DEF StartEdit, StartModeration
    <2> QED
      BY <1>2, <2>1, <2>2, <2>3, <2>4, <2>5, SameRow DEF Start
  <1>3. CASE Commit(r)
    <2> DEFINE w == NewResponse(discussion[q.disc].topic, q.disc, q.user, q.parent)
    <2>1. response' = [response EXCEPT ![q.id] = w]
      BY <1>3 DEF Commit
    <2>2. q.id \notin Committed /\ w.topic # None
      BY <1>1, <1>3 DEF Commit, PostOk, Posting, NewResponse
    <2> HIDE DEF w
    <2> QED
      BY <2>1, <2>2, NewRowKept
  <1>4. CASE CreateDiscussion(r)
    <2> DEFINE w == NewResponse(q.topic, q.disc, q.user, 0)
    <2>1. response' = [response EXCEPT ![created + 1] = w]
      BY <1>4 DEF CreateDiscussion
    <2>2. w.topic # None
      BY <1>1, <1>4, NoneApart DEF CreateDiscussion, OtherOk, NewResponse
    <2> HIDE DEF w
    <2> QED
      BY <2>1, <2>2, NewRowKept, NextFree
  <1>5. CASE InsertResponse(r)
    <2> DEFINE w == NewResponse(q.topic, None, None, q.parent)
    <2>1. response' = [response EXCEPT ![created + 1] = w]
      BY <1>5 DEF InsertResponse
    <2>2. w.topic # None
      BY <1>1, <1>5, NoneApart DEF InsertResponse, OtherOk, NewResponse
    <2> HIDE DEF w
    <2> QED
      BY <2>1, <2>2, NewRowKept, NextFree
  <1>6. CASE WriteStatus(r) \/ WriteEdit(r)
    <2>1. /\ response'[i].topic = response[i].topic /\ response'[i].origin = response[i].origin
          /\ response'[i].disc = response[i].disc /\ response'[i].parent = response[i].parent
          /\ response'[i].author = response[i].author
      BY <1>1, <1>6 DEF WriteStatus, WriteEdit, Response
    <2>2. q.id \in Committed
      BY <1>1, <1>6 DEF OtherOk, WriteStatus, WriteEdit
    <2>3. i # q.id => response'[i] = response[i]
      BY <1>1, <1>6 DEF WriteStatus, WriteEdit
    <2> QED
      BY <2>1, <2>2, <2>3 DEF RowKept, Committed
  <1>7. CASE \/ FindActivity(r) \/ AddActivity(r) \/ CreateActivity(r) \/ CountParticipants(r)
             \/ UpdateDiscussion(r) \/ IncrementTopic(r) \/ Abort(r)
    BY <1>7, SameRow DEF FindActivity, AddActivity, CreateActivity, WriteActivity,
       CountParticipants, UpdateDiscussion, IncrementTopic, Abort
  <1> QED
    BY <1>2, <1>3, <1>4, <1>5, <1>6, <1>7 DEF PostStep, Write

\* Merges and rollbacks change where responses are, and nothing else.
LEMMA MovedRows ==
  ASSUME IInv, NEW t \in Topics, NEW S \in SUBSET Committed, MovedTo(t, S), NEW i \in Ids
  PROVE  RowKept(i)
  <1>1. response[i] \in Response
    BY DEF IInv, Types
  <1>2. CASE i \in S
    <2>1. response'[i] = [response[i] EXCEPT !.topic = t]
      BY <1>2 DEF MovedTo
    <2> QED
      BY <1>1, <1>2, <2>1, NoneApart DEF RowKept, Committed, Response
  <1>3. CASE i \notin S
    <2>1. response'[i] = response[i]
      BY <1>3 DEF MovedTo
    <2> QED
      BY <2>1, SameRow
  <1> QED
    BY <1>2, <1>3

LEMMA TopicRows ==
  ASSUME IInv, NEW r \in Requests, StartChange(r) \/ WriteTopics(r), NEW i \in Ids
  PROVE  RowKept(i)
  <1>1. OtherOk(r) /\ merge \in Seq(Merge)
    BY DEF IInv, RequestsOk, Types
  <1>2. CASE CommitMerge(r)
    <2>1. req[r].topic \in Topics /\ req[r].moved \in SUBSET Committed
      BY <1>1, <1>2 DEF CommitMerge, OtherOk
    <2> QED
      BY <1>2, <2>1, MovedRows DEF CommitMerge
  <1>3. CASE CommitRollback(r)
    <2>1. req[r].source \in Topics /\ req[r].moved \in SUBSET Committed
      BY <1>1, <1>3 DEF CommitRollback, OtherOk, Moving
    <2> QED
      BY <1>3, <2>1, MovedRows DEF CommitRollback
  <1>4. CASE UNCHANGED response
    BY <1>4, SameRow
  <1> QED
    BY <1>2, <1>3, <1>4, TopicsStill DEF WriteTopics

LEMMA NextRows ==
  ASSUME IInv, [Next]_topicsVars, NEW i \in Ids PROVE RowKept(i)
  BY DiscussionRows, TopicRows, SameRow DEF Next, DiscussionNext, topicsVars, vars

-----------------------------------------------------------------------------
(* The places a step leads to                                               *)

\* How a request begins: it owes no topic a response.
Begun(r) ==
  /\ req[r] = Idle /\ \A x \in Requests \ {r} : req'[x] = req[x]
  /\ UNCHANGED topic
  /\ req'[r].at \in {"opening", "checked", "inserted", "moderate", "edit"}

LEMMA StartPlaces ==
  ASSUME IInv, NEW r \in Requests, Start(r) PROVE Begun(r)
  <1>1. req \in [Requests -> Request]
    BY DEF IInv, Types
  <1>2. ASSUME NEW k, Begin(r, k), UNCHANGED topic,
               k.at \in {"opening", "checked", "inserted", "moderate", "edit"}
        PROVE  Begun(r)
    BY <1>1, <1>2 DEF Begin, Begun, Start
  <1>3. ASSUME NEW u, NEW t, NEW d, StartDiscussion(r, u, t, d)
        PROVE  Begun(r)
    <2> DEFINE k == [Idle EXCEPT !.at = "opening", !.user = u, !.topic = t, !.disc = d]
    <2>1. k.at = "opening" /\ Begin(r, k) /\ UNCHANGED topic
      BY <1>3 DEF StartDiscussion, Idle
    <2> HIDE DEF k
    <2> QED
      BY <1>2, <2>1
  <1>4. ASSUME NEW u, NEW d, NEW p, Post(r, u, d, p)
        PROVE  Begun(r)
    <2> DEFINE k == [Idle EXCEPT !.at = "inserted", !.user = u, !.disc = d,
                                 !.id = created + 1, !.parent = p]
    <2>1. k.at = "inserted" /\ Begin(r, k) /\ UNCHANGED topic
      BY <1>4 DEF Post, Idle
    <2> HIDE DEF k
    <2> QED
      BY <1>2, <2>1
  <1>5. ASSUME NEW t, NEW p, StartResponse(r, t, p)
        PROVE  Begun(r)
    <2> DEFINE k == [Idle EXCEPT !.at = "checked", !.topic = t, !.parent = p]
    <2>1. k.at = "checked" /\ Begin(r, k) /\ UNCHANGED topic
      BY <1>5 DEF StartResponse, Idle
    <2> HIDE DEF k
    <2> QED
      BY <1>2, <2>1
  <1>6. ASSUME NEW j, StartEdit(r, j)
        PROVE  Begun(r)
    <2> DEFINE k == [Idle EXCEPT !.at = "edit", !.id = j]
    <2>1. k.at = "edit" /\ Begin(r, k) /\ UNCHANGED topic
      BY <1>6 DEF StartEdit, Idle
    <2> HIDE DEF k
    <2> QED
      BY <1>2, <2>1
  <1>7. ASSUME NEW j, NEW to, StartModeration(r, j, to)
        PROVE  Begun(r)
    <2> DEFINE k == [Idle EXCEPT !.at = "moderate", !.id = j, !.to = to]
    <2>1. k.at = "moderate" /\ Begin(r, k) /\ UNCHANGED topic
      BY <1>7 DEF StartModeration, Idle
    <2> HIDE DEF k
    <2> QED
      BY <1>2, <2>1
  <1>8. ASSUME NEW u, NEW p, Reply(r, u, p)
        PROVE  Begun(r)
    BY <1>4, <1>8 DEF Reply
  <1> QED
    BY <1>3, <1>4, <1>5, <1>6, <1>7, <1>8 DEF Start

\* How it goes on: only createResponse's insertion makes a topic's counter due.
WentOn(r) ==
  /\ \A x \in Requests \ {r} : req'[x] = req[x]
  /\ req'[r].at = "increment" => InsertResponse(r) /\ req'[r].topic = req[r].topic

LEMMA WritePlaces ==
  ASSUME IInv, NEW r \in Requests, PostStep(r) \/ Write(r) \/ Abort(r) PROVE WentOn(r)
  <1>1. req \in [Requests -> Request]
    BY DEF IInv, Types
  <1>2. CASE End(r)
    BY <1>1, <1>2 DEF End, Idle, WentOn
  <1>3. CASE FindActivity(r)
    BY <1>1, <1>3 DEF FindActivity, Request, WentOn
  <1>4. CASE WriteActivity(r)
    BY <1>1, <1>4 DEF WriteActivity, Request, WentOn
  <1>5. CASE CountParticipants(r)
    BY <1>1, <1>5 DEF CountParticipants, Request, WentOn
  <1>6. CASE UpdateDiscussion(r)
    BY <1>1, <1>6 DEF UpdateDiscussion, Request, WentOn
  <1>7. CASE InsertResponse(r)
    <2>1. /\ \A x \in Requests \ {r} : req'[x] = req[x]
          /\ req'[r].at = "increment" /\ req'[r].topic = req[r].topic
      BY <1>1, <1>7 DEF InsertResponse, Idle
    <2> QED
      BY <1>7, <2>1 DEF WentOn
  <1>8. CASE \/ Commit(r) \/ CreateDiscussion(r) \/ WriteStatus(r) \/ WriteEdit(r) \/ Abort(r)
             \/ IncrementTopic(r)
    BY <1>2, <1>8 DEF Commit, CreateDiscussion, WriteStatus, WriteEdit, Abort, IncrementTopic
  <1> QED
    BY <1>2, <1>3, <1>4, <1>5, <1>6, <1>7, <1>8
       DEF PostStep, Write, AddActivity, CreateActivity

-----------------------------------------------------------------------------
(* A topic claims no more responses than were posted to it                  *)

\* The responses createResponse has posted to a topic, and the requests that have
\* still to count theirs.
Posted(t) == {i \in Committed : response[i].origin = t /\ response[i].disc = None}
Uncounted(t) == {r \in Requests : req[r].at = "increment" /\ req[r].topic = t}

Unmerged(t) == \A m \in DOMAIN merge : merge[m].target # t

\* What is claimed and what will be is covered by what was posted.
Covered(t) == topic[t].responses + Cardinality(Uncounted(t)) <= Cardinality(Posted(t))

ClaimsCovered == \A t \in Topics : Unmerged(t) => Covered(t)

\* Any set of requests has a number of elements.
LEMMA RequestsFinite ==
  ASSUME NEW S \in SUBSET Requests
  PROVE  IsFiniteSet(S) /\ Cardinality(S) \in Nat
  BY FS_Subset, FS_CardinalityType

LEMMA ClaimSets ==
  ASSUME NEW t
  PROVE  /\ Posted(t) \in SUBSET Ids /\ Posted(t)' \in SUBSET Ids
         /\ Uncounted(t) \in SUBSET Requests /\ Uncounted(t)' \in SUBSET Requests
  BY DEF Posted, Committed, Uncounted

\* Nothing that was posted disappears.
LEMMA PostedGrows ==
  ASSUME IInv, [Next]_topicsVars, NEW t PROVE Posted(t) \subseteq Posted(t)'
  BY NextRows DEF Posted, RowKept, Committed

\* A step that neither counts nor adds a response to be counted.
LEMMA ClaimKept ==
  ASSUME IInv, [Next]_topicsVars, NEW t \in Topics, Covered(t),
         topic'[t].responses = topic[t].responses, Uncounted(t)' \subseteq Uncounted(t)
  PROVE  Covered(t)'
  <1> DEFINE n == topic[t].responses
             u == Cardinality(Uncounted(t))  v == Cardinality(Uncounted(t)')
             p == Cardinality(Posted(t))     q == Cardinality(Posted(t)')
  <1>1. u \in Nat /\ v \in Nat /\ p \in Nat /\ q \in Nat /\ n \in Nat
    BY ClaimSets, RequestsFinite, IdsFinite DEF IInv, Types
  <1>2. v <= u
    BY ClaimSets, RequestsFinite, FS_Subset
  <1>3. p <= q
    BY PostedGrows, ClaimSets, IdsFinite, FS_Subset
  <1>4. n + u <= p
    BY DEF Covered
  <1>5. topic'[t].responses = n
    OBVIOUS
  <1> HIDE DEF n, u, v, p, q
  <1>6. n + v <= q
    BY <1>1, <1>2, <1>3, <1>4
  <1> QED
    BY <1>5, <1>6 DEF Covered, v, q

\* createResponse inserts a response, and owes its topic one.
LEMMA InsertCovered ==
  ASSUME IInv, ClaimsCovered, [Next]_topicsVars, NEW r \in Requests, InsertResponse(r),
         NEW t \in Topics, Covered(t)
  PROVE  Covered(t)'
  <1>1. /\ \A x \in Requests \ {r} : req'[x] = req[x]
        /\ req[r].at = "checked" /\ req'[r].at = "increment" /\ req'[r].topic = req[r].topic
    BY DEF InsertResponse, Idle, IInv, Types
  <1>2. topic'[t].responses = topic[t].responses
    BY DEF InsertResponse
  <1>3. CASE req[r].topic # t
    <2>1. Uncounted(t)' \subseteq Uncounted(t)
      BY <1>1, <1>3 DEF Uncounted
    <2> QED
      BY <1>2, <2>1, ClaimKept
  <1>4. CASE req[r].topic = t
    <2> DEFINE i == created + 1
               w == NewResponse(t, None, None, req[r].parent)
    <2>1. i \in Ids /\ i \notin Committed /\ response' = [response EXCEPT ![i] = w]
      BY <1>4, NextFree DEF InsertResponse, IInv, Types, Ids
    <2>2. w.topic = t /\ w.origin = t /\ w.disc = None
      BY DEF NewResponse
    <2> HIDE DEF i, w
    <2>3. response'[i] = w
      BY <2>1 DEF IInv, Types
    <2>4. i \in Posted(t)' /\ i \notin Posted(t)
      BY <2>1, <2>2, <2>3, NoneApart DEF Posted, Committed
    <2>5. Uncounted(t)' = Uncounted(t) \cup {r} /\ r \notin Uncounted(t)
      BY <1>1, <1>4 DEF Uncounted
    <2> DEFINE n == topic[t].responses
               u == Cardinality(Uncounted(t))  v == Cardinality(Uncounted(t)')
               p == Cardinality(Posted(t))     q == Cardinality(Posted(t)')
    <2>6. u \in Nat /\ p \in Nat /\ q \in Nat /\ n \in Nat
      BY ClaimSets, RequestsFinite, IdsFinite DEF IInv, Types
    <2>7. v = u + 1
      BY <2>5, ClaimSets, RequestsFinite, FS_AddElement
    <2>8. p + 1 <= q
      <3>1. Posted(t) \subseteq Posted(t)' /\ Posted(t) # Posted(t)'
        BY <2>4, PostedGrows
      <3>2. IsFiniteSet(Posted(t)')
        BY ClaimSets, IdsFinite
      <3>3. p < q
        BY <2>6, <3>1, <3>2, FS_Subset
      <3> QED
        BY <2>6, <3>3
    <2>9. n + u <= p
      BY DEF Covered
    <2>10. topic'[t].responses = n
      BY <1>2
    <2> HIDE DEF n, u, v, p, q
    <2>11. n + v <= q
      BY <2>6, <2>7, <2>8, <2>9
    <2> QED
      BY <2>10, <2>11 DEF Covered, v, q
  <1> QED
    BY <1>3, <1>4

\* It pays what it owes once.
LEMMA IncrementCovered ==
  ASSUME IInv, [Next]_topicsVars, NEW r \in Requests, IncrementTopic(r), NEW t \in Topics, Covered(t)
  PROVE  Covered(t)'
  <1>1. /\ \A x \in Requests \ {r} : req'[x] = req[x]
        /\ req[r].at = "increment" /\ req'[r].at = "idle"
    BY DEF IncrementTopic, End, Idle, IInv, Types
  <1>2. /\ topic \in [Topics -> [status : TopicStatus, responses : Nat]]
        /\ req[r].topic \in Topics
    BY <1>1 DEF IInv, Types, RequestsOk, OtherOk
  <1>3. CASE req[r].topic # t
    <2>1. topic'[t].responses = topic[t].responses
      BY <1>2, <1>3 DEF IncrementTopic
    <2>2. Uncounted(t)' \subseteq Uncounted(t)
      BY <1>1 DEF Uncounted
    <2> QED
      BY <2>1, <2>2, ClaimKept
  <1>4. CASE req[r].topic = t
    <2> DEFINE n == topic[t].responses
               u == Cardinality(Uncounted(t))  v == Cardinality(Uncounted(t)')
               p == Cardinality(Posted(t))     q == Cardinality(Posted(t)')
    <2>1. topic'[t].responses = n + 1
      BY <1>2, <1>4 DEF IncrementTopic
    <2>2. Uncounted(t)' = Uncounted(t) \ {r} /\ r \in Uncounted(t)
      BY <1>1, <1>4 DEF Uncounted
    <2>3. u \in Nat /\ p \in Nat /\ q \in Nat /\ n \in Nat
      BY ClaimSets, RequestsFinite, IdsFinite DEF IInv, Types
    <2>4. v = u - 1
      BY <2>2, ClaimSets, RequestsFinite, FS_RemoveElement
    <2>5. p <= q
      BY PostedGrows, ClaimSets, IdsFinite, FS_Subset
    <2>6. n + u <= p
      BY DEF Covered
    <2> HIDE DEF n, u, v, p, q
    <2>7. (n + 1) + v <= q
      BY <2>3, <2>4, <2>5, <2>6
    <2> QED
      BY <2>1, <2>7 DEF Covered, v, q
  <1> QED
    BY <1>3, <1>4

\* No step of createDiscussion, of a post or of a moderation touches the counter.
LEMMA DiscussionCovered ==
  ASSUME IInv, ClaimsCovered, [Next]_topicsVars, NEW r \in Requests,
         Start(r) \/ PostStep(r) \/ Write(r) \/ Abort(r), UNCHANGED merge
  PROVE  ClaimsCovered'
  <1> SUFFICES ASSUME NEW t \in Topics, Unmerged(t)' PROVE Covered(t)'
    BY DEF ClaimsCovered
  <1>1. Covered(t)
    BY DEF ClaimsCovered, Unmerged
  <1>2. CASE InsertResponse(r)
    BY <1>1, <1>2, InsertCovered
  <1>3. CASE IncrementTopic(r)
    BY <1>1, <1>3, IncrementCovered
  <1>4. CASE ~InsertResponse(r) /\ ~IncrementTopic(r)
    <2>1. UNCHANGED topic
      BY <1>4, StartPlaces
         DEF Begun, PostStep, Write, FindActivity, AddActivity, CreateActivity, WriteActivity,
             CountParticipants, UpdateDiscussion, Commit, CreateDiscussion, WriteStatus, WriteEdit,
             Abort
    <2>2. req'[r].at # "increment" /\ \A x \in Requests \ {r} : req'[x] = req[x]
      BY <1>4, StartPlaces, WritePlaces DEF Begun, WentOn
    <2>3. Uncounted(t)' \subseteq Uncounted(t)
      BY <2>2 DEF Uncounted
    <2> QED
      BY <1>1, <2>1, <2>3, ClaimKept
  <1> QED
    BY <1>2, <1>3, <1>4

\* A merge sets the counter of its target only; statuses are none.
LEMMA TopicsCovered ==
  ASSUME IInv, ClaimsCovered, [Next]_topicsVars, NEW r \in Requests,
         StartChange(r) \/ WriteTopics(r)
  PROVE  ClaimsCovered'
  <1> SUFFICES ASSUME NEW t \in Topics, Unmerged(t)' PROVE Covered(t)'
    BY DEF ClaimsCovered
  <1>1. /\ topic \in [Topics -> [status : TopicStatus, responses : Nat]]
        /\ merge \in Seq(Merge) /\ OtherOk(r)
    BY DEF IInv, Types, RequestsOk
  <1>2. req'[r].at # "increment" /\ \A x \in Requests \ {r} : req'[x] = req[x]
    BY TopicRequest
  <1>3. Uncounted(t)' \subseteq Uncounted(t)
    BY <1>2 DEF Uncounted
  <1>4. Unmerged(t) /\ topic'[t].responses = topic[t].responses
    <2>1. CASE CommitMerge(r)
      <3> DEFINE x == [source |-> req[r].source, target |-> req[r].topic, at |-> req[r].mergedAt,
                       rolledBack |-> FALSE]
                 n == Len(merge) + 1
      <3>1. merge' = Append(merge, x) /\ x.target = req[r].topic
        BY <2>1 DEF CommitMerge
      <3> HIDE DEF x
      <3>2. /\ n \in DOMAIN merge' /\ merge'[n] = x
            /\ \A m \in DOMAIN merge : m \in DOMAIN merge' /\ merge'[m] = merge[m]
        BY <1>1, <3>1
      <3>3. req[r].topic # t /\ Unmerged(t)
        BY <3>1, <3>2 DEF Unmerged
      <3>4. topic'[t].responses = topic[t].responses
        BY <1>1, <2>1, <3>3 DEF CommitMerge
      <3> QED
        BY <3>3, <3>4
    <2>2. CASE CommitRollback(r)
      <3> DEFINE n == req[r].id
                 x == [merge[n] EXCEPT !.rolledBack = TRUE]
      <3>1. n \in DOMAIN merge
        BY <1>1, <2>2 DEF CommitRollback, OtherOk
      <3>2. merge' = [merge EXCEPT ![n] = x]
        BY <2>2 DEF CommitRollback
      <3>3. x.target = merge[n].target
        BY <1>1, <3>1 DEF Merge
      <3>4. topic'[t].responses = topic[t].responses
        BY <1>1, <2>2 DEF CommitRollback
      <3> HIDE DEF n, x
      <3>5. \A m \in DOMAIN merge : m \in DOMAIN merge' /\ merge'[m].target = merge[m].target
        BY <1>1, <3>1, <3>2, <3>3
      <3> QED
        BY <3>4, <3>5 DEF Unmerged
    <2>3. CASE WriteTopicStatus(r)
      BY <1>1, <2>3 DEF WriteTopicStatus, Unmerged
    <2>4. CASE StartChange(r) \/ Move(r) \/ UpdateTarget(r) \/ WriteSource(r) \/ BreakDeadlock(r)
      BY <2>4 DEF StartChange, StartStatus, StartMerge, StartRollback, Move, UpdateTarget,
         WriteSource, BreakDeadlock, Unmerged
    <2> QED
      BY <2>1, <2>2, <2>3, <2>4 DEF WriteTopics
  <1> QED
    BY <1>3, <1>4, ClaimKept DEF ClaimsCovered

LEMMA InitCovered == TopicsInit => ClaimsCovered
  <1> SUFFICES ASSUME TopicsInit, NEW t \in Topics PROVE Covered(t)
    BY DEF ClaimsCovered
  <1>1. Posted(t) = {} /\ Uncounted(t) = {} /\ topic[t].responses = 0
    BY DEF TopicsInit, Init, Posted, Committed, NoResponse, Uncounted, Idle
  <1> QED
    BY <1>1, FS_EmptySet DEF Covered

LEMMA StepCovered == IInv /\ ClaimsCovered /\ [Next]_topicsVars => ClaimsCovered'
  <1> SUFFICES ASSUME IInv, ClaimsCovered, [Next]_topicsVars PROVE ClaimsCovered'
    OBVIOUS
  <1>1. CASE UNCHANGED topicsVars
    BY <1>1 DEF topicsVars, vars, ClaimsCovered, Unmerged, Covered, Posted, Uncounted, Committed
  <1>2. CASE Next
    BY <1>2, DiscussionCovered, TopicsCovered DEF Next, DiscussionNext
  <1> QED
    BY <1>1, <1>2

\* As long as nothing is merged into it, a topic never claims more responses than
\* were posted to it, whatever aborts between an insertion and its count.
THEOREM TopicCountsBounded == Spec => []TopicCountBounded
  <1>1. IInv /\ ClaimsCovered => TopicCountBounded
    <2> SUFFICES ASSUME IInv, ClaimsCovered, NEW t \in Topics, Unmerged(t)
                 PROVE  topic[t].responses <= Cardinality(Posted(t))
      BY DEF TopicCountBounded, Unmerged, Posted
    <2> DEFINE n == topic[t].responses  u == Cardinality(Uncounted(t))  p == Cardinality(Posted(t))
    <2>1. n \in Nat /\ u \in Nat /\ p \in Nat /\ n + u <= p
      BY ClaimSets, RequestsFinite, IdsFinite DEF IInv, Types, ClaimsCovered, Covered
    <2> HIDE DEF n, u, p
    <2>2. n <= p
      BY <2>1
    <2> QED
      BY <2>2 DEF n, p
  <1> QED
    BY <1>1, InitCovered, StepCovered, DiscussionInvariance, PTL DEF Spec

-----------------------------------------------------------------------------
(* The tree shows every response at its depth                               *)

\* Induction up to a bound, for a set of numbers.
LEMMA UpTo ==
  ASSUME NEW N \in Nat, NEW S, 0 \in S, \A n \in 0 .. N : n < N /\ n \in S => n + 1 \in S
  PROVE  \A n \in 0 .. N : n \in S
  <1> DEFINE T == {n \in Nat : n <= N /\ n \notin S}
             R == {ss \in Nat \X Nat : ss[1] < ss[2]}
  <1> SUFFICES ASSUME T # {} PROVE FALSE
    OBVIOUS
  <1>1. IsWellFoundedOn(R, Nat)
    BY NatLessThanWellFounded DEF OpToRel
  <1>2. PICK x \in T : \A y \in T : ~(<<y, x>> \in R)
    <2> HIDE DEF R
    <2>1. T \subseteq Nat
      OBVIOUS
    <2> HIDE DEF T
    <2> QED
      BY <1>1, <2>1, WFMin
  <1>3. \A y \in T : ~(y < x)
    BY <1>2
  <1>4. x # 0 /\ x \in Nat /\ x <= N
    OBVIOUS
  <1>5. x - 1 \in 0 .. N /\ x - 1 < N /\ x - 1 \notin T /\ (x - 1) + 1 = x
    BY <1>3, <1>4
  <1>6. x - 1 \in S
    BY <1>5
  <1> QED
    BY <1>5, <1>6

\* A number without a response has no parent.
Blank == \A i \in Ids \ Committed : response[i].parent = 0

LEMMA StepBlank == IInv /\ Blank /\ [Next]_topicsVars => Blank'
  BY NextRows DEF Blank, RowKept, Committed

\* A row's parent is an earlier one.
LEMMA Rooted ==
  ASSUME IInv, Blank, NEW i \in Ids PROVE response[i].parent \in 0 .. i - 1
  <1>1. response[i].parent \in 0 .. MaxResponses /\ i \in Nat /\ i > 0
    BY DEF IInv, Types, Response, Ids
  <1>2. response[i].parent # 0 => response[i].parent < i
    BY DEF IInv, ThreadsWellFormed, Blank
  <1> QED
    BY <1>1, <1>2

\* calculateThreadDepth ends, whichever response it begins with.
LEMMA DepthDefined ==
  ASSUME IInv, Blank, NEW i \in Ids
  PROVE  Depth[i] = IF response[i].parent = 0 THEN 0 ELSE Depth[response[i].parent] + 1
  <1> DEFINE p(j) == response[j].parent
             Above(f, n) == \A j \in 1 .. n : f[j] = IF p(j) = 0 THEN 0 ELSE f[p(j)] + 1
             Known(n) == \E f \in [1 .. n -> Nat] : Above(f, n)
             S == {n \in 0 .. MaxResponses : Known(n)}
  <1>1. 0 \in S
    <2> DEFINE f == [j \in 1 .. 0 |-> 0]
    <2>1. f \in [1 .. 0 -> Nat] /\ Above(f, 0)
      OBVIOUS
    <2>2. Known(0)
      <3> HIDE DEF f, Above
      <3> QED
        BY <2>1
    <2> HIDE DEF Known
    <2> QED
      BY <2>2
  <1>2. ASSUME NEW n \in 0 .. MaxResponses, n < MaxResponses, n \in S
        PROVE  n + 1 \in S
    <2>1. PICK f \in [1 .. n -> Nat] : Above(f, n)
      BY <1>2
    <2> DEFINE m == n + 1
               v == IF p(m) = 0 THEN 0 ELSE f[p(m)] + 1
               g == [j \in 1 .. m |-> IF j = m THEN v ELSE f[j]]
    <2>2. m \in Ids /\ m \in 0 .. MaxResponses
      BY <1>2 DEF Ids
    <2>3. p(m) \in 0 .. n
      BY <2>2, Rooted
    <2>4. v \in Nat
      BY <2>3
    <2>5. \A j \in 1 .. n : p(j) \in 0 .. n /\ p(j) # m /\ j # m
      <3> SUFFICES ASSUME NEW j \in 1 .. n PROVE p(j) \in 0 .. n /\ p(j) # m /\ j # m
        OBVIOUS
      <3>1. j \in Ids
        BY <1>2 DEF Ids
      <3>2. p(j) \in 0 .. j - 1
        BY <3>1, Rooted
      <3> QED
        BY <3>2
    <2> HIDE DEF p, v
    <2>6. g \in [1 .. m -> Nat] /\ \A j \in 1 .. n : g[j] = f[j]
      BY <2>4, <2>5
    <2>7. g[m] = v /\ (p(m) # 0 => g[p(m)] = f[p(m)])
      BY <2>3, <2>6
    <2>8. Above(g, m)
      <3> SUFFICES ASSUME NEW j \in 1 .. m PROVE g[j] = IF p(j) = 0 THEN 0 ELSE g[p(j)] + 1
        OBVIOUS
      <3> HIDE DEF g
      <3>1. CASE j = m
        BY <2>7, <3>1 DEF v
      <3>2. CASE j \in 1 .. n
        <4>1. f[j] = IF p(j) = 0 THEN 0 ELSE f[p(j)] + 1
          BY <2>1, <3>2
        <4>2. p(j) # 0 => g[p(j)] = f[p(j)]
          BY <2>5, <2>6, <3>2
        <4> QED
          BY <2>6, <3>2, <4>1, <4>2
      <3> QED
        BY <3>1, <3>2
    <2> QED
      BY <2>2, <2>6, <2>8
  <1>3. MaxResponses \in S
    <2> HIDE DEF S
    <2>1. \A n \in 0 .. MaxResponses : n < MaxResponses /\ n \in S => n + 1 \in S
      BY <1>2
    <2>2. \A n \in 0 .. MaxResponses : n \in S
      BY <1>1, <2>1, UpTo
    <2> QED
      BY <2>2
  <1>4. PICK f \in [Ids -> Nat] :
          \A j \in Ids : f[j] = IF response[j].parent = 0 THEN 0 ELSE f[response[j].parent] + 1
    BY <1>3 DEF Ids
  <1>5. f = [j \in Ids |-> IF response[j].parent = 0 THEN 0 ELSE f[response[j].parent] + 1]
    BY <1>4
  <1>6. Depth = [j \in Ids |-> IF response[j].parent = 0 THEN 0 ELSE Depth[response[j].parent] + 1]
    BY <1>5 DEF Depth
  <1> QED
    BY <1>6

\* The depths once the first n responses are placed, and what placing one does.
Placed(d, n) == [i \in In(d) |-> IF i <= n THEN Depth[i] ELSE 0]

Grown(d, h, n) ==
  IF n \in In(d) /\ response[n].parent \in In(d)
  THEN [h EXCEPT ![n] = h[response[n].parent] + 1] ELSE h

\* Placing the next response gives it its depth: its parent is there already.
LEMMA PlacedGrows ==
  ASSUME IInv, Blank, NEW d \in Discussions, NEW n \in 1 .. MaxResponses
  PROVE  Grown(d, Placed(d, n - 1), n) = Placed(d, n)
  <1> DEFINE p == response[n].parent  g == Placed(d, n - 1)  h == Placed(d, n)
  <1>1. n \in Ids /\ p \in 0 .. n - 1 /\ In(d) \subseteq Ids /\ Ids \subseteq Nat
    BY Rooted DEF Ids, In, Committed
  <1>2. Depth[n] = IF p = 0 THEN 0 ELSE Depth[p] + 1
    BY <1>1, DepthDefined
  <1>3. \A i \in In(d) \ {n} : g[i] = h[i]
    <2> SUFFICES ASSUME NEW i \in In(d) \ {n} PROVE g[i] = h[i]
      OBVIOUS
    <2>1. i \in Nat /\ n \in Nat
      BY <1>1
    <2>2. i <= n - 1 <=> i <= n
      BY <2>1
    <2> QED
      BY <2>2 DEF Placed
  <1>4. CASE n \in In(d) /\ p \in In(d)
    <2>1. p # 0 /\ p <= n - 1
      BY <1>1, <1>4 DEF Ids
    <2>2. g[p] = Depth[p] /\ h[n] = Depth[n]
      BY <1>1, <1>4, <2>1 DEF Placed
    <2>3. h[n] = g[p] + 1
      BY <1>2, <2>1, <2>2
    <2>4. [g EXCEPT ![n] = g[p] + 1] = h
      <3>1. DOMAIN g = In(d) /\ h = [i \in In(d) |-> h[i]] /\ g = [i \in In(d) |-> g[i]]
        BY DEF Placed
      <3> HIDE DEF g, h
      <3> QED
        BY <1>3, <2>3, <3>1
    <2> QED
      BY <1>4, <2>4 DEF Grown
  <1>5. CASE n \in In(d) /\ p \notin In(d)
    <2>1. p = 0
      BY <1>5, NoneApart DEF IInv, ThreadsWellFormed, In
    <2>2. g[n] = 0 /\ h[n] = Depth[n]
      BY <1>1, <1>5 DEF Placed
    <2>3. g = h
      <3>1. h = [i \in In(d) |-> h[i]] /\ g = [i \in In(d) |-> g[i]]
        BY DEF Placed
      <3>2. \A i \in In(d) : g[i] = h[i]
        BY <1>2, <1>3, <2>1, <2>2
      <3> HIDE DEF g, h
      <3> QED
        BY <3>1, <3>2
    <2> QED
      BY <1>5, <2>3 DEF Grown
  <1>6. CASE n \notin In(d)
    <2>1. g = h
      <3>1. h = [i \in In(d) |-> h[i]] /\ g = [i \in In(d) |-> g[i]]
        BY DEF Placed
      <3>2. \A i \in In(d) : g[i] = h[i]
        BY <1>3, <1>6
      <3> HIDE DEF g, h
      <3> QED
        BY <3>1, <3>2
    <2> QED
      BY <1>6, <2>1 DEF Grown
  <1> QED
    BY <1>4, <1>5, <1>6

\* buildThreadTree has placed all of them in the end.
LEMMA TreeBuilt ==
  ASSUME IInv, Blank, NEW d \in Discussions
  PROVE  TreeDepths(d) = Placed(d, MaxResponses)
  <1> DEFINE N == 0 .. MaxResponses
             zero == [i \in In(d) |-> 0]
             D == CHOOSE f : f = [n \in N |-> IF n = 0 THEN zero ELSE Grown(d, f[n - 1], n)]
             g == [n \in N |-> Placed(d, n)]
  <1>1. TreeDepths(d) = D[MaxResponses]
    BY DEF TreeDepths, Listed, Grown
  <1>2. Placed(d, 0) = zero
    <2>1. \A i \in In(d) : i \in Nat /\ i > 0
      BY DEF In, Committed, Ids
    <2>2. \A i \in In(d) : ~(i <= 0)
      BY <2>1
    <2> QED
      BY <2>2 DEF Placed
  <1>3. g = [n \in N |-> IF n = 0 THEN zero ELSE Grown(d, g[n - 1], n)]
    <2> SUFFICES ASSUME NEW n \in N
                 PROVE  Placed(d, n) = IF n = 0 THEN zero ELSE Grown(d, g[n - 1], n)
      OBVIOUS
    <2>1. CASE n = 0
      BY <1>2, <2>1
    <2>2. CASE n # 0
      <3>1. n \in 1 .. MaxResponses /\ n - 1 \in N
        BY <2>2
      <3>2. g[n - 1] = Placed(d, n - 1)
        BY <3>1
      <3> HIDE DEF g
      <3> QED
        BY <2>2, <3>1, <3>2, PlacedGrows
    <2> QED
      BY <2>1, <2>2
  <1> HIDE DEF g
  <1>4. D = [n \in N |-> IF n = 0 THEN zero ELSE Grown(d, D[n - 1], n)]
    BY <1>3
  <1> DEFINE S == {n \in N : D[n] = Placed(d, n)}
  <1> HIDE DEF D, zero
  <1>5. 0 \in S
    BY <1>2, <1>4
  <1>6. ASSUME NEW n \in N, n < MaxResponses, n \in S
        PROVE  n + 1 \in S
    <2>1. n + 1 \in N /\ n + 1 # 0 /\ (n + 1) - 1 = n /\ n + 1 \in 1 .. MaxResponses
      BY <1>6
    <2>2. D[n + 1] = Grown(d, D[n], n + 1)
      BY <1>4, <2>1
    <2>3. Grown(d, Placed(d, n), n + 1) = Placed(d, n + 1)
      BY <2>1, PlacedGrows
    <2> QED
      BY <1>6, <2>1, <2>2, <2>3
  <1>7. MaxResponses \in S
    <2> HIDE DEF S
    <2>1. \A n \in N : n \in S
      BY <1>5, <1>6, UpTo
    <2> QED
      BY <2>1
  <1> QED
    BY <1>1, <1>7

\* The tree shows every response at its depth, whatever is posted, hidden, moved or
\* undone: a list in the order of createdAt has the parents first.
THEOREM TreesAreTrue == Spec => []TreeTrue
  <1>1. TopicsInit => Blank
    BY DEF TopicsInit, Init, Blank, NoResponse
  <1>2. IInv /\ Blank => TreeTrue
    <2> SUFFICES ASSUME IInv, Blank, NEW d \in Discussions, NEW i \in In(d)
                 PROVE  TreeDepths(d)[i] = Depth[i]
      BY DEF TreeTrue
    <2>1. i <= MaxResponses
      BY DEF In, Committed, Ids
    <2> QED
      BY <2>1, TreeBuilt DEF Placed
  <1> QED
    BY <1>1, <1>2, StepBlank, DiscussionInvariance, PTL DEF Spec

-----------------------------------------------------------------------------
(* Only merges and rollbacks wait in a circle                               *)

\* A merge or a rollback waits for another: a post, an edit, a moderation or a change
\* of a status writes no response that others write and keeps no topic.
LEMMA MovingWait ==
  ASSUME IInv, NEW r \in Requests, NEW q \in Requests, req[r].at \in Moving, WaitsFor(r, q)
  PROVE  req[q].at \in Moving
  BY DEF IInv, RequestsOk, OtherOk, WaitsFor, HoldsTopic, HoldsResponse, Moving

\* The locks of a post are taken in one order, activity before discussion; the others
\* wait for merges and rollbacks only.
LEMMA OthersWait ==
  ASSUME IInv, NEW r \in Requests, NEW q \in Requests, req[r].at \notin Moving, WaitsFor(r, q)
  PROVE  \/ req[q].at \in Moving
         \/ req[r].at \in {"add", "create"} /\ req[q].at \in {"activity", "counted", "updated"}
         \/ req[r].at = "counted" /\ req[q].at = "updated"
  BY DEF IInv, RequestsOk, OtherOk, WaitsFor, HoldsActivity, HoldsDiscussion, HoldsTopic,
     HoldsResponse, Moving

\* In a circle there are merges and rollbacks and nothing else: PostgreSQL never has to
\* abort a post, an edit, a moderation or a change of a status.
THEOREM OnlyMergesWaitInACircle == Spec => []OnlyMergesDeadlock
  <1>1. IInv => OnlyMergesDeadlock
    <2> SUFFICES ASSUME IInv, NEW S \in SUBSET Requests, Circle(S)
                 PROVE  \A r \in S : req[r].at \in Moving
      BY DEF OnlyMergesDeadlock
    <2> DEFINE T == {r \in S : req[r].at \in Moving}
    <2>1. S # {} /\ \A r \in S : \E q \in S : WaitsFor(r, q)
      BY DEF Circle, Stuck
    <2>2. T # {}
      <3> SUFFICES ASSUME T = {} PROVE FALSE
        OBVIOUS
      <3>1. \A r \in S : \E q \in S :
              \/ req[r].at \in {"add", "create"} /\ req[q].at \in {"activity", "counted", "updated"}
              \/ req[r].at = "counted" /\ req[q].at = "updated"
        BY <2>1, OthersWait
      <3>2. \A r \in S : req[r].at \notin {"activity", "counted", "updated"}
        BY <3>1
      <3> QED
        BY <2>1, <3>1, <3>2
    <2>3. Stuck(T)
      <3>1. \A r \in T : \E q \in T : WaitsFor(r, q)
        BY <2>1, MovingWait
      <3> QED
        BY <2>2, <3>1 DEF Stuck
    <2>4. T = S
      BY <2>3 DEF Circle
    <2> QED
      BY <2>4
  <1> QED
    BY <1>1, DiscussionInvariance, PTL

-----------------------------------------------------------------------------
(* A discussion looks as if its posts came one after the other              *)

\* What discussions look like from outside is the same after the step.
LooksTheSame == UNCHANGED <<Threads, ResponseCounts, activity, ParticipantCounts>>

\* A step that posts nothing to a discussion and leaves its counters alone is not
\* seen from outside.
LEMMA Unseen ==
  ASSUME UNCHANGED <<discussion, activity>>, \A i \in Ids : RowKept(i),
         \A i \in Committed' \ Committed : response'[i].disc = None
  PROVE  LooksTheSame
  <1>1. ASSUME NEW d \in Discussions
        PROVE  Thread(d)' = Thread(d)
    <2>1. /\ In(d)' = In(d)
          /\ \A i \in In(d) : /\ response'[i].author = response[i].author
                              /\ response'[i].parent = response[i].parent
      <3>1. \A i \in In(d) : /\ i \in In(d)'
                             /\ response'[i].author = response[i].author
                             /\ response'[i].parent = response[i].parent
        BY DEF In, RowKept, Committed
      <3>2. \A i \in In(d)' : i \in In(d)
        BY NoneApart DEF In, RowKept, Committed
      <3> QED
        BY <3>1, <3>2
    <2> QED
      BY <2>1 DEF Thread
  <1> QED
    BY <1>1 DEF LooksTheSame, Threads, ResponseCounts, ParticipantCounts

\* A step that shows one response more, in its discussion and nowhere else.
LEMMA Seen ==
  ASSUME IInv, NEW i \in Ids, i \notin Committed, NEW w \in Response, w.topic # None,
         response' = [response EXCEPT ![i] = w], NEW d \in Discussions, w.disc = d
  PROVE  /\ \A e \in Discussions : i \notin Contract!Numbers(e)
         /\ Threads' = [Threads EXCEPT ![d] =
                         @ \cup {[id |-> i, author |-> w.author, parent |-> w.parent]}]
  <1> DEFINE x == [id |-> i, author |-> w.author, parent |-> w.parent]
  <1>1. /\ Committed' = Committed \cup {i} /\ response'[i] = w
        /\ \A j \in Committed : response'[j] = response[j]
    BY RowAdded
  <1>2. \A e \in Discussions : i \notin Contract!Numbers(e)
    BY DEF Contract!Numbers, Threads, Thread, In
  <1>3. Thread(d)' = Thread(d) \cup {x}
    <2>1. In(d)' = In(d) \cup {i} /\ \A j \in In(d) : response'[j] = response[j]
      BY <1>1 DEF In
    <2> QED
      BY <1>1, <2>1 DEF Thread
  <1>4. ASSUME NEW e \in Discussions, e # d
        PROVE  Thread(e)' = Thread(e)
    <2>1. In(e)' = In(e) /\ \A j \in In(e) : response'[j] = response[j]
      BY <1>1, <1>4 DEF In
    <2> QED
      BY <2>1 DEF Thread
  <1>5. Threads' = [Threads EXCEPT ![d] = @ \cup {x}]
    BY <1>3, <1>4 DEF Threads
  <1> QED
    BY <1>2, <1>5

\* A discussion that exists has a response: its creator posted one.
LEMMA NeverEmpty ==
  ASSUME IInv, NEW d \in Discussions, discussion[d].topic # None PROVE In(d) # {}
  <1> SUFFICES ASSUME In(d) = {} PROVE FALSE
    OBVIOUS
  <1>1. \A u \in Users : activity[d][u] = 0
    BY FS_EmptySet DEF IInv, CountersExact, By
  <1>2. {u \in Users : activity[d][u] > 0} = {}
    BY <1>1
  <1>3. discussion[d].participants <= 0 /\ discussion[d].participants > 0
    BY <1>2, FS_EmptySet DEF IInv, ParticipantsBounded
  <1>4. discussion[d].participants \in Nat
    BY DEF IInv, Types
  <1> QED
    BY <1>3, <1>4
\* The contract counts as this module does.
LEMMA SameCardinality ==
  ASSUME NEW S PROVE Contract!Cardinality(S) = Cardinality(S)
  BY DEF Contract!Cardinality, Contract!IsFiniteSet, Cardinality, IsFiniteSet

\* A transaction that commits is a post of the contract.
LEMMA CommitPosts ==
  ASSUME IInv, IInv', NEW r \in Requests, Commit(r) PROVE Contract!Next
  <1> DEFINE d == req[r].disc  u == req[r].user  i == req[r].id  p == req[r].parent
             t == discussion[d].topic
             w == NewResponse(t, d, u, p)
  <1>1. req[r] \in Request /\ req[r].at = "updated" /\ PostOk(r)
    BY DEF IInv, Types, RequestsOk, Commit
  <1>2. /\ i \in 1 .. created /\ i \notin Committed
        /\ u \in Users /\ d \in Discussions /\ t # None
        /\ p < i /\ (p = 0 \/ (p \in Committed /\ response[p].disc = d))
        /\ req[r].mine = activity[d][u] + 1 /\ req[r].total = discussion[d].responses + 1
        /\ req[r].participants > 0
    BY <1>1 DEF PostOk, Posting, Holding
  <1>3. p \in 0 .. MaxResponses /\ req[r].participants \in Nat
    BY <1>1 DEF Request
  <1>4. i \in Ids /\ p \in Ids \cup {0}
    <2>1. created \in 0 .. MaxResponses /\ MaxResponses \in Nat
      BY DEF IInv, Types
    <2> HIDE DEF i, p
    <2>2. i \in Ids
      BY <1>2, <2>1 DEF Ids
    <2>3. p \in Ids \cup {0}
      BY <1>3, <2>1 DEF Ids
    <2> QED
      BY <2>2, <2>3
  <1>5. t \in Topics
    BY <1>2 DEF IInv, Types
  <1>6. /\ w \in Response /\ w.topic # None /\ w.disc = d /\ w.author = u /\ w.parent = p
    BY <1>2, <1>3, <1>5 DEF NewResponse, Response, ResponseStatus
  <1>7. /\ response' = [response EXCEPT ![i] = w]
        /\ discussion' = [discussion EXCEPT ![d] = [topic |-> t, responses |-> req[r].total,
                                                    participants |-> req[r].participants]]
        /\ activity' = [activity EXCEPT ![d] = [@ EXCEPT ![u] = req[r].mine]]
    BY DEF Commit
  <1>8. /\ discussion \in [Discussions -> [topic : Topics \cup {None}, responses : Nat,
                                          participants : Nat]]
        /\ activity \in [Discussions -> [Users -> Nat]]
    BY DEF IInv, Types
  <1> HIDE DEF d, u, i, p, t, w
  <1>9. Contract!Count(d, u)
    <2>1. ResponseCounts' = [ResponseCounts EXCEPT ![d] = @ + 1]
      BY <1>2, <1>7, <1>8 DEF ResponseCounts
    <2>2. activity' = [activity EXCEPT ![d] = [@ EXCEPT ![u] = activity[d][u] + 1]]
      BY <1>2, <1>7, <1>8
    <2> QED
      BY <2>1, <2>2 DEF Contract!Count
  <1>10. Contract!Add(d, u, i, p)
    BY <1>2, <1>4, <1>6, <1>7, Seen DEF Contract!Add
  <1>11. Threads[d] # {}
    <2>1. In(d) # {}
      BY <1>2, NeverEmpty DEF t
    <2> QED
      BY <1>2, <2>1 DEF Threads, Thread
  <1>12. p = 0 \/ (p \in Contract!Numbers(d) /\ p < i)
    <2>1. p # 0 => p \in In(d) /\ p < i
      BY <1>2 DEF In
    <2>2. Threads[d] = Thread(d)
      BY <1>2 DEF Threads
    <2>3. ASSUME p \in In(d)
          PROVE  p \in Contract!Numbers(d)
      <3> DEFINE x == [id |-> p, author |-> response[p].author, parent |-> response[p].parent]
      <3>1. x \in Threads[d] /\ x.id = p
        BY <2>2, <2>3 DEF Thread
      <3> QED
        BY <3>1 DEF Contract!Numbers
    <2> QED
      BY <2>1, <2>3
  <1>13. \E n \in 1 .. Cardinality({v \in Users : activity'[d][v] > 0}) :
           ParticipantCounts' = [ParticipantCounts EXCEPT ![d] = n]
    <2> DEFINE S == {v \in Users : activity'[d][v] > 0}
    <2>1. discussion'[d].participants = req[r].participants
      BY <1>2, <1>7, <1>8
    <2>2. req[r].participants <= Cardinality(S)
      BY <1>2, <2>1 DEF IInv, ParticipantsBounded
    <2>3. S \subseteq Users
      OBVIOUS
    <2> HIDE DEF S
    <2>4. Cardinality(S) \in Nat
      BY <2>3, UsersFinite
    <2>5. req[r].participants \in 1 .. Cardinality(S)
      BY <1>2, <1>3, <2>2, <2>4
    <2>6. ParticipantCounts' = [ParticipantCounts EXCEPT ![d] = req[r].participants]
      BY <1>2, <1>7, <1>8 DEF ParticipantCounts
    <2> QED
      BY <2>5, <2>6 DEF S
  <1>14. Contract!Post(d, u, i, p)
    BY <1>10, <1>11, <1>12, <1>13, SameCardinality DEF Contract!Post
  <1> QED
    BY <1>2, <1>4, <1>9, <1>14 DEF Contract!Next

\* A discussion that is created opens with its first response.
LEMMA CreateOpens ==
  ASSUME IInv, NEW r \in Requests, CreateDiscussion(r) PROVE Contract!Next
  <1> DEFINE t == req[r].topic  d == req[r].disc  u == req[r].user  i == created + 1
             w == NewResponse(t, d, u, 0)
  <1>1. /\ u \in Users /\ t \in Topics /\ d \in Discussions /\ discussion[d].topic = None
    BY DEF IInv, RequestsOk, OtherOk, CreateDiscussion
  <1>2. i \in Ids /\ i \notin Committed
    BY NextFree DEF IInv, Types, CreateDiscussion, Ids
  <1>3. /\ w \in Response /\ w.topic # None /\ w.disc = d /\ w.author = u /\ w.parent = 0
    BY <1>1, NoneApart DEF NewResponse, Response, ResponseStatus
  <1>4. /\ response' = [response EXCEPT ![i] = w]
        /\ discussion' = [discussion EXCEPT ![d] = [topic |-> t, responses |-> 1,
                                                    participants |-> 1]]
        /\ activity' = [activity EXCEPT ![d] = [@ EXCEPT ![u] = 1]]
    BY DEF CreateDiscussion
  <1>5. /\ discussion \in [Discussions -> [topic : Topics \cup {None}, responses : Nat,
                                          participants : Nat]]
        /\ activity \in [Discussions -> [Users -> Nat]]
    BY DEF IInv, Types
  <1>6. discussion[d].responses = 0 /\ activity[d][u] = 0 /\ In(d) = {}
    <2>1. discussion[d].responses = 0 /\ activity[d][u] = 0
      BY <1>1, NothingYet
    <2>2. In(d) = {}
      BY <1>1, NoneApart DEF IInv, Rows, In
    <2> QED
      BY <2>1, <2>2
  <1> HIDE DEF d, u, i, t, w
  <1>7. Contract!Count(d, u)
    <2>1. discussion'[d].responses = discussion[d].responses + 1
      BY <1>1, <1>4, <1>5, <1>6
    <2>2. \A e \in Discussions \ {d} : discussion'[e] = discussion[e]
      BY <1>4, <1>5
    <2>3. ResponseCounts' = [ResponseCounts EXCEPT ![d] = @ + 1]
      BY <1>1, <2>1, <2>2 DEF ResponseCounts
    <2>4. activity' = [activity EXCEPT ![d] = [@ EXCEPT ![u] = activity[d][u] + 1]]
      BY <1>1, <1>4, <1>5, <1>6
    <2> QED
      BY <2>3, <2>4 DEF Contract!Count
  <1>8. Contract!Add(d, u, i, 0)
    BY <1>1, <1>2, <1>3, <1>4, Seen DEF Contract!Add
  <1>9. Threads[d] = {}
    BY <1>1, <1>6 DEF Threads, Thread
  <1>10. ParticipantCounts' = [ParticipantCounts EXCEPT ![d] = 1]
    BY <1>1, <1>4, <1>5 DEF ParticipantCounts
  <1>11. Contract!Open(d, u, i)
    BY <1>8, <1>9, <1>10 DEF Contract!Open
  <1> QED
    BY <1>1, <1>2, <1>7, <1>11 DEF Contract!Next

\* Nothing else is seen from outside.
LEMMA OthersUnseen ==
  ASSUME IInv, NEW r \in Requests,
         \/ Start(r) \/ Abort(r) \/ StartChange(r) \/ WriteTopics(r)
         \/ (PostStep(r) \/ Write(r)) /\ ~Commit(r) /\ ~CreateDiscussion(r)
  PROVE  LooksTheSame
  <1>1. \A i \in Ids : RowKept(i)
    BY DiscussionRows, TopicRows
  <1>2. UNCHANGED <<discussion, activity>>
    <2>1. Start(r) => UNCHANGED <<discussion, activity>>
      BY DEF Start, StartDiscussion, Post, Reply, StartResponse, StartEdit, StartModeration
    <2>2. StartChange(r) \/ WriteTopics(r) => UNCHANGED <<discussion, activity>>
      BY DEF StartChange, StartStatus, StartMerge, StartRollback, WriteTopics,
         WriteTopicStatus, Move, UpdateTarget, WriteSource, CommitMerge, CommitRollback,
         BreakDeadlock
    <2>3. (PostStep(r) \/ Write(r)) /\ ~Commit(r) /\ ~CreateDiscussion(r)
            => UNCHANGED <<discussion, activity>>
      BY DEF PostStep, Write, FindActivity, AddActivity, CreateActivity, WriteActivity,
         CountParticipants, UpdateDiscussion, InsertResponse, IncrementTopic, WriteStatus,
         WriteEdit
    <2> QED
      BY <2>1, <2>2, <2>3 DEF Abort
  <1>3. CASE InsertResponse(r)
    <2> DEFINE w == NewResponse(req[r].topic, None, None, req[r].parent)
    <2>1. response \in [Ids -> Response] /\ response' = [response EXCEPT ![created + 1] = w]
      BY <1>3 DEF IInv, Types, InsertResponse
    <2>2. w.disc = None
      BY DEF NewResponse
    <2> HIDE DEF w
    <2>3. \A i \in Committed' \ Committed : response'[i].disc = None
      BY <2>1, <2>2 DEF Committed
    <2> QED
      BY <1>1, <1>2, <2>3, Unseen
  <1>4. CASE ~InsertResponse(r)
    <2>1. \A i \in Ids : i \in Committed' => i \in Committed
      <3>1. CASE UNCHANGED response
        BY <3>1 DEF Committed
      <3>2. CASE WriteStatus(r) \/ WriteEdit(r)
        BY <3>2 DEF WriteStatus, WriteEdit, IInv, Types, RequestsOk, OtherOk, Committed
      <3>3. CASE CommitMerge(r) \/ CommitRollback(r)
        <4>1. req[r].moved \subseteq Committed
          BY DEF IInv, RequestsOk, OtherOk
        <4>2. \A i \in Ids \ req[r].moved : response'[i] = response[i]
          BY <3>3 DEF CommitMerge, CommitRollback, MovedTo
        <4> QED
          BY <4>1, <4>2 DEF Committed
      <3>4. Start(r) \/ Abort(r) \/ StartChange(r) => UNCHANGED response
        BY TopicsStill DEF Start, StartDiscussion, Post, Reply, StartResponse, StartEdit,
           StartModeration, Abort
      <3>5. WriteTopics(r) => UNCHANGED response \/ CommitMerge(r) \/ CommitRollback(r)
        BY TopicsStill DEF WriteTopics
      <3>6. PostStep(r) \/ Write(r) => \/ UNCHANGED response \/ Commit(r) \/ InsertResponse(r)
                                      \/ CreateDiscussion(r) \/ WriteStatus(r) \/ WriteEdit(r)
        BY DEF PostStep, Write, FindActivity, AddActivity, CreateActivity, WriteActivity,
           CountParticipants, UpdateDiscussion, IncrementTopic
      <3> QED
        BY <1>4, <3>1, <3>2, <3>3, <3>4, <3>5, <3>6
    <2> QED
      BY <1>1, <1>2, <2>1, Unseen DEF Committed
  <1> QED
    BY <1>3, <1>4

LEMMA StepLooks == IInv /\ IInv' /\ [Next]_topicsVars => [Contract!Next]_Contract!vars
  <1> SUFFICES ASSUME IInv, IInv', [Next]_topicsVars PROVE Contract!Next \/ LooksTheSame
    BY DEF LooksTheSame, Contract!vars
  <1>1. ASSUME NEW r \in Requests, Start(r) \/ PostStep(r) \/ Write(r) \/ Abort(r)
        PROVE  Contract!Next \/ LooksTheSame
    BY <1>1, CommitPosts, CreateOpens, OthersUnseen
  <1>2. ASSUME NEW r \in Requests, StartChange(r) \/ WriteTopics(r)
        PROVE  Contract!Next \/ LooksTheSame
    BY <1>2, OthersUnseen
  <1>3. CASE UNCHANGED topicsVars
    BY <1>3 DEF topicsVars, vars, LooksTheSame, Threads, Thread, In, Committed, ResponseCounts,
       ParticipantCounts
  <1> QED
    BY <1>1, <1>2, <1>3 DEF Next, DiscussionNext

LEMMA InitLooks == TopicsInit => Contract!Init
  <1> SUFFICES ASSUME TopicsInit PROVE Contract!Init
    OBVIOUS
  <1>1. \A d \in Discussions : Thread(d) = {}
    BY DEF TopicsInit, Init, NoResponse, Thread, In, Committed
  <1> QED
    BY <1>1 DEF TopicsInit, Init, Contract!Init, Threads, ResponseCounts, ParticipantCounts

\* A discussion looks as if posts came one after the other, each at once: the rows
\* and the three counts of a transaction appear together, with the numbers a post
\* alone would have left, and nothing that was posted is changed or lost.
THEOREM PostsAreAtomic == Spec => KeepsDiscussionContract
  BY InitLooks, StepLooks, DiscussionInvariance, PTL
     DEF Spec, KeepsDiscussionContract, Contract!Spec
-----------------------------------------------------------------------------
(* What follows from the contract alone                                     *)

\* What was posted keeps its number, its author, its parent and its discussion: the
\* thread and its count only grow.
PostsLast ==
  [][\A d \in Discussions : /\ Threads[d] \subseteq Threads'[d]
                            /\ ResponseCounts[d] <= ResponseCounts'[d]]_topicsVars

\* A discussion says it has as many responses as its thread holds.
CountsThread ==
  \A d \in Discussions : /\ IsFiniteSet(Threads[d])
                         /\ ResponseCounts[d] = Cardinality(Threads[d])

\* A step of the contract leaves a discussion as it is, or adds one response.
LEMMA ContractAdds ==
  ASSUME [Contract!Next]_Contract!vars, NEW d \in Discussions
  PROVE  \/ Threads'[d] = Threads[d] /\ ResponseCounts'[d] = ResponseCounts[d]
         \/ \E x : /\ x \notin Threads[d] /\ Threads'[d] = Threads[d] \cup {x}
                  /\ ResponseCounts'[d] = ResponseCounts[d] + 1
  <1>1. CASE UNCHANGED Contract!vars
    BY <1>1 DEF Contract!vars
  <1>2. ASSUME NEW e \in Discussions, NEW u \in Users, Contract!Count(e, u),
               NEW i \in Ids, NEW p, Contract!Add(e, u, i, p)
        PROVE  \/ Threads'[d] = Threads[d] /\ ResponseCounts'[d] = ResponseCounts[d]
               \/ \E x : /\ x \notin Threads[d] /\ Threads'[d] = Threads[d] \cup {x}
                        /\ ResponseCounts'[d] = ResponseCounts[d] + 1
    <2> DEFINE x == [id |-> i, author |-> u, parent |-> p]
    <2>1. /\ DOMAIN Threads = Discussions /\ DOMAIN ResponseCounts = Discussions
      BY DEF Threads, ResponseCounts
    <2>2. /\ Threads' = [Threads EXCEPT ![e] = @ \cup {x}]
          /\ ResponseCounts' = [ResponseCounts EXCEPT ![e] = @ + 1]
      BY <1>2 DEF Contract!Add, Contract!Count
    <2>3. x \notin Threads[e]
      <3>1. x.id = i
        OBVIOUS
      <3> HIDE DEF x
      <3> QED
        BY <1>2, <3>1 DEF Contract!Add, Contract!Numbers
    <2> HIDE DEF x
    <2>4. CASE d = e
      BY <2>1, <2>2, <2>3, <2>4
    <2>5. CASE d # e
      BY <2>1, <2>2, <2>5
    <2> QED
      BY <2>4, <2>5
  <1>3. CASE Contract!Next
    <2>1. PICK e \in Discussions, u \in Users :
            /\ Contract!Count(e, u)
            /\ \E i \in Ids :
                 Contract!Open(e, u, i) \/ \E p \in Ids \cup {0} : Contract!Post(e, u, i, p)
      BY <1>3 DEF Contract!Next
    <2>2. PICK i \in Ids : \E p : Contract!Add(e, u, i, p)
      BY <2>1 DEF Contract!Open, Contract!Post
    <2> QED
      BY <1>2, <2>1, <2>2
  <1> QED
    BY <1>1, <1>3

\* In the contract the count of a discussion is the number of its responses, which
\* makes the counts of the service exact once more, by its contract alone.
THEOREM ContractCounts == Contract!Spec => []CountsThread
  <1>1. Contract!Init => CountsThread
    BY FS_EmptySet DEF Contract!Init, CountsThread
  <1>2. CountsThread /\ [Contract!Next]_Contract!vars => CountsThread'
    <2> SUFFICES ASSUME CountsThread, [Contract!Next]_Contract!vars, NEW d \in Discussions
                 PROVE  /\ IsFiniteSet(Threads'[d])
                        /\ ResponseCounts'[d] = Cardinality(Threads'[d])
      BY DEF CountsThread
    <2>1. IsFiniteSet(Threads[d]) /\ ResponseCounts[d] = Cardinality(Threads[d])
      BY DEF CountsThread
    <2>2. CASE Threads'[d] = Threads[d] /\ ResponseCounts'[d] = ResponseCounts[d]
      BY <2>1, <2>2
    <2>3. ASSUME NEW x, x \notin Threads[d], Threads'[d] = Threads[d] \cup {x},
                 ResponseCounts'[d] = ResponseCounts[d] + 1
          PROVE  /\ IsFiniteSet(Threads'[d])
                 /\ ResponseCounts'[d] = Cardinality(Threads'[d])
      <3>1. /\ IsFiniteSet(Threads[d] \cup {x})
            /\ Cardinality(Threads[d] \cup {x}) = Cardinality(Threads[d]) + 1
        BY <2>1, <2>3, FS_AddElement
      <3> QED
        BY <2>1, <2>3, <3>1
    <2> QED
      BY <2>2, <2>3, ContractAdds
  <1> QED
    BY <1>1, <1>2, PTL DEF Contract!Spec

\* Nothing that was posted is lost, moved to another discussion or given another
\* author, whatever is edited, hidden, removed, merged or rolled back.
THEOREM NoPostIsLost == Spec => PostsLast
  <1>1. CountsThread /\ [Contract!Next]_Contract!vars =>
          \A d \in Discussions : /\ Threads[d] \subseteq Threads'[d]
                                 /\ ResponseCounts[d] <= ResponseCounts'[d]
    <2> SUFFICES ASSUME CountsThread, [Contract!Next]_Contract!vars, NEW d \in Discussions
                 PROVE  /\ Threads[d] \subseteq Threads'[d]
                        /\ ResponseCounts[d] <= ResponseCounts'[d]
      OBVIOUS
    <2>1. ResponseCounts[d] \in Nat
      BY FS_CardinalityType DEF CountsThread
    <2> QED
      BY <2>1, ContractAdds
  <1> QED
    BY <1>1, PostsAreAtomic, ContractCounts, PTL
       DEF KeepsDiscussionContract, Contract!Spec, PostsLast

-----------------------------------------------------------------------------
(* Every request runs down                                                  *)

\* The steps a request has before it at most.
Ahead(at) ==
  CASE at = "inserted" -> 5
    [] at \in {"add", "create", "merging"} -> 4
    [] at \in {"activity", "moved", "rolling"} -> 3
    [] at \in {"counted", "checked", "recorded", "rolled"} -> 2
    [] at \in {"updated", "opening", "increment", "moderate", "edit", "status", "archived", "restored"} -> 1
    [] OTHER -> 0

\* A step that changes a request under way brings it nearer to its end: none is ever
\* sent back, whatever the others commit.
RequestsRunDown ==
  [][\A r \in Requests :
       req[r].at # "idle" /\ req'[r] # req[r] => Ahead(req'[r].at) < Ahead(req[r].at)]_topicsVars

\* What a step does to the requests: one of them begins or gets nearer to its end.
Forward(r) ==
  /\ \A x \in Requests \ {r} : req'[x] = req[x]
  /\ req[r].at # "idle" => Ahead(req'[r].at) < Ahead(req[r].at)

LEMMA EndForward ==
  ASSUME IInv, NEW r \in Requests, End(r) PROVE Forward(r)
  <1>1. req \in [Requests -> Request] /\ req'[r].at = "idle"
    BY DEF IInv, Types, End, Idle
  <1>2. req[r].at \in Place
    BY <1>1 DEF Request
  <1>3. req[r].at # "idle" => Ahead(req[r].at) > 0
    BY <1>2 DEF Place, Posting, Ahead
  <1>4. Ahead(req'[r].at) = 0
    BY <1>1 DEF Ahead
  <1> QED
    BY <1>1, <1>3, <1>4 DEF End, Forward

LEMMA BeginForward ==
  ASSUME IInv, NEW r \in Requests, req[r] = Idle, NEW k, Begin(r, k) PROVE Forward(r)
  BY DEF IInv, Types, Begin, Idle, Forward

LEMMA PostForward ==
  ASSUME IInv, NEW r \in Requests, PostStep(r) PROVE Forward(r)
  <1>1. req \in [Requests -> Request]
    BY DEF IInv, Types
  <1>2. CASE FindActivity(r)
    BY <1>1, <1>2 DEF FindActivity, Request, Ahead, Forward
  <1>3. CASE WriteActivity(r) /\ req[r].at \in {"add", "create"}
    BY <1>1, <1>3 DEF WriteActivity, Request, Ahead, Forward
  <1>4. CASE CountParticipants(r)
    BY <1>1, <1>4 DEF CountParticipants, Request, Ahead, Forward
  <1>5. CASE UpdateDiscussion(r)
    BY <1>1, <1>5 DEF UpdateDiscussion, Request, Ahead, Forward
  <1>6. CASE End(r)
    BY <1>6, EndForward
  <1> QED
    BY <1>2, <1>3, <1>4, <1>5, <1>6 DEF PostStep, AddActivity, CreateActivity, Commit

LEMMA WriteForward ==
  ASSUME IInv, NEW r \in Requests, Write(r) \/ Abort(r) \/ WriteTopics(r) PROVE Forward(r)
  <1>1. req \in [Requests -> Request]
    BY DEF IInv, Types
  <1>2. CASE InsertResponse(r)
    BY <1>1, <1>2 DEF InsertResponse, Idle, Ahead, Forward
  <1>3. CASE Move(r)
    BY <1>1, <1>3 DEF Move, Request, Ahead, Forward
  <1>4. CASE UpdateTarget(r)
    BY <1>1, <1>4 DEF UpdateTarget, Request, Ahead, Forward
  <1>5. CASE WriteSource(r)
    BY <1>1, <1>5 DEF WriteSource, Request, Ahead, Forward
  <1>6. CASE End(r)
    BY <1>6, EndForward
  <1> QED
    BY <1>2, <1>3, <1>4, <1>5, <1>6 DEF Write, CreateDiscussion, IncrementTopic, WriteStatus,
       WriteEdit, Abort, WriteTopics, WriteTopicStatus, CommitMerge, CommitRollback, BreakDeadlock

LEMMA StartForward ==
  ASSUME IInv, NEW r \in Requests, Start(r) \/ StartChange(r) PROVE Forward(r)
  <1>1. CASE Start(r)
    BY <1>1, StartPlaces DEF Begun, Idle, Forward
  <1>2. CASE StartChange(r)
    <2>0. req[r] = Idle
      BY <1>2 DEF StartChange
    <2>1. \A u, t, new : StartStatus(r, u, t, new) => Forward(r)
      BY <2>0, BeginForward DEF StartStatus
    <2>2. \A s, t : StartMerge(r, s, t) => Forward(r)
      BY <2>0, BeginForward DEF StartMerge
    <2>3. \A m : StartRollback(r, m) => Forward(r)
      BY <2>0, BeginForward DEF StartRollback
    <2> QED
      BY <1>2, <2>1, <2>2, <2>3 DEF StartChange
  <1> QED
    BY <1>1, <1>2

\* A request takes at most five steps after its first, whatever others write between
\* them: no commit and no abort of another sends it back.
THEOREM RequestsEnd == Spec => RequestsRunDown
  <1>1. IInv /\ [Next]_topicsVars =>
          \A r \in Requests :
            req[r].at # "idle" /\ req'[r] # req[r] => Ahead(req'[r].at) < Ahead(req[r].at)
    <2> SUFFICES ASSUME IInv, [Next]_topicsVars, NEW r \in Requests, req[r].at # "idle",
                        req'[r] # req[r]
                 PROVE  Ahead(req'[r].at) < Ahead(req[r].at)
      OBVIOUS
    <2>1. \E x \in Requests : Forward(x)
      BY PostForward, WriteForward, StartForward DEF Next, DiscussionNext, topicsVars, vars
    <2> QED
      BY <2>1 DEF Forward
  <1> QED
    BY <1>1, DiscussionInvariance, PTL DEF Spec, RequestsRunDown

=============================================================================
