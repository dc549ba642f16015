-------------------------- MODULE DiscussionProofs --------------------------
(***************************************************************************)
(* Proofs about Topics, that is about discussions and topics together: the *)
(* counters of discussions agree with their responses, and threads are     *)
(* well formed, for any number of requests, users, topics and discussions. *)
(***************************************************************************)
EXTENDS Topics, FiniteSetTheorems, TLAPS

Request == [at : Place, user : Users \cup {None},
            topic : Topics \cup {None}, source : Topics \cup {None},
            disc : Discussions \cup {None}, id : Nat, parent : 0 .. MaxResponses,
            to : ResponseStatus \cup TopicStatus \cup {None}, mine : Nat, total : Nat,
            participants : Nat, moved : SUBSET Ids, mergedAt : 0 .. MaxResponses]

\* The transactions that hold the row of a participant's activity.
Holding == {"activity", "counted", "updated"}

\* The participants of a discussion once a user has posted.
With(d, u) == {v \in Users : activity[d][v] > 0 \/ v = u}

Types ==
  /\ response \in [Ids -> Response] /\ created \in 0 .. MaxResponses
  /\ discussion \in [Discussions -> [topic : Topics \cup {None}, responses : Nat,
                                     participants : Nat]]
  /\ activity \in [Discussions -> [Users -> Nat]]
  /\ topic \in [Topics -> [status : TopicStatus, responses : Nat]]
  /\ merge \in Seq(Merge)
  /\ changes \in 0 .. MaxChanges
  /\ req \in [Requests -> Request]

\* A response has been given its number, and its discussion exists.
Rows ==
  \A i \in Committed : /\ i <= created
                       /\ response[i].disc # None => discussion[response[i].disc].topic # None

\* What a post has found and written is still true: its number is its own, and the
\* rows it has locked have not changed.
PostOk(r) ==
  LET q == req[r]
  IN  /\ q.at \in Posting =>
           /\ q.id \in 1 .. created /\ q.id \notin Committed
           /\ q.user \in Users /\ q.disc \in Discussions /\ discussion[q.disc].topic # None
           /\ q.parent < q.id
           /\ q.parent = 0 \/ (q.parent \in Committed /\ response[q.parent].disc = q.disc)
      /\ q.at \in Holding => q.mine = activity[q.disc][q.user] + 1
      /\ q.at \in {"counted", "updated"} =>
           q.participants > 0 /\ q.participants <= Cardinality(With(q.disc, q.user))
      /\ q.at = "updated" => q.total = discussion[q.disc].responses + 1

OtherOk(r) ==
  LET q == req[r]
  IN  /\ q.at = "opening" => /\ q.user \in Users /\ q.topic \in Topics
                             /\ q.disc \in Discussions /\ discussion[q.disc].topic = None
      /\ q.at = "checked" => q.topic \in Topics /\ (q.parent = 0 \/ q.parent \in Committed)
      /\ q.at = "increment" => q.topic \in Topics
      /\ q.at \in {"moderate", "edit"} => q.id \in Committed
      /\ q.at = "moderate" => q.to \in ResponseStatus
      /\ q.at = "status" => q.topic \in Topics /\ q.to \in TopicStatus
      /\ q.at \in {"merging", "moved", "recorded", "archived"} => q.topic \in Topics
      /\ q.at \in Moving => q.source \in Topics
      /\ q.at \in {"recorded", "archived"} => \A i \in q.moved : i <= q.mergedAt
      /\ q.at \in {"rolling", "rolled", "restored"} => q.id \in DOMAIN merge
      /\ q.moved # {} => q.at \in Moving /\ q.moved \subseteq Committed

\* Two requests never have the same number, row or discussion to create.
Apart(r, q) ==
  /\ req[r].at \in Posting /\ req[q].at \in Posting => req[r].id # req[q].id
  /\ req[r].at \in Holding /\ req[q].at \in Holding =>
       req[r].disc # req[q].disc \/ req[r].user # req[q].user
  /\ req[r].at = "updated" /\ req[q].at = "updated" => req[r].disc # req[q].disc
  /\ req[r].at = "opening" /\ req[q].at = "opening" => req[r].disc # req[q].disc

RequestsOk ==
  /\ \A r \in Requests : PostOk(r) /\ OtherOk(r)
  /\ \A r, q \in Requests : r # q => Apart(r, q)

IInv ==
  /\ Types /\ Rows /\ RequestsOk
  /\ CountersExact /\ ParticipantsBounded /\ ThreadsWellFormed

USE DiscussionAssumption

-----------------------------------------------------------------------------
(* Sets of responses and of users are finite                                *)

\* Any set of responses has a number of elements.
LEMMA IdsFinite ==
  ASSUME NEW S \in SUBSET Ids
  PROVE  IsFiniteSet(S) /\ Cardinality(S) \in Nat
  <1>1. IsFiniteSet(Ids)
    BY FS_Interval DEF Ids
  <1> QED
    BY <1>1, FS_Subset, FS_CardinalityType

\* So has any set of users.
LEMMA UsersFinite ==
  ASSUME NEW S \in SUBSET Users
  PROVE  IsFiniteSet(S) /\ Cardinality(S) \in Nat
  BY FS_Subset, FS_CardinalityType

\* None is no topic and no discussion.
LEMMA NoneApart == None \notin Topics /\ None \notin Discussions /\ None \notin Users
  OBVIOUS

\* The places of requests as the cases below need them.
LEMMA Places ==
  /\ Posting \subseteq Place /\ Holding \subseteq Posting
  /\ "idle" \notin Posting
  BY DEF Place, Posting, Holding

\* An idle request knows nothing.
LEMMA IdleRequest == Idle \in Request /\ Idle.moved = {}
  <1>1. 0 \in 0 .. MaxResponses
    OBVIOUS
  <1> QED
    BY <1>1 DEF Idle, Request, Place, Posting

\* The places of requests that are not posts, and the values they may carry.
LEMMA Carried ==
  /\ {"opening", "checked", "moderate", "edit", "status"} \subseteq Place
  /\ Moving \subseteq Place /\ Moving \cap Posting = {} /\ "opening" \notin Moving
  /\ Ids \subseteq Nat
  BY DEF Place, Ids, Moving, Posting

-----------------------------------------------------------------------------
(* The initial state                                                        *)

\* Nothing has been posted.
LEMMA InitInv == TopicsInit => IInv
  <1> SUFFICES ASSUME TopicsInit PROVE IInv
    OBVIOUS
  <1>1. Types
    BY IdleRequest DEF TopicsInit, Init, Types, Response, NoResponse, ResponseStatus, TopicStatus
  <1>2. Committed = {}
    BY DEF TopicsInit, Init, Committed, NoResponse
  <1>3. \A d \in Discussions : In(d) = {} /\ \A u \in Users : By(u, d) = {}
    BY <1>2 DEF In, By
  <1>4. Rows /\ ThreadsWellFormed
    BY <1>2 DEF Rows, ThreadsWellFormed
  <1>5. RequestsOk
    BY DEF TopicsInit, Init, RequestsOk, PostOk, OtherOk, Apart, Idle, Posting, Holding, Moving
  <1>6. CountersExact
    BY <1>3, FS_EmptySet DEF TopicsInit, Init, CountersExact
  <1>7. ParticipantsBounded
    <2>1. \A d \in Discussions : {u \in Users : activity[d][u] > 0} = {}
      <3>1. \A d \in Discussions, u \in Users : activity[d][u] = 0
        BY DEF TopicsInit, Init
      <3> QED
        BY <3>1
    <2>2. \A d \in Discussions : discussion[d].participants = 0 /\ discussion[d].topic = None
      BY DEF TopicsInit, Init
    <2>3. \A d \in Discussions : Cardinality({u \in Users : activity[d][u] > 0}) = 0
      BY <2>1, FS_EmptySet
    <2> QED
      BY <2>2, <2>3 DEF ParticipantsBounded
  <1> QED
    BY <1>1, <1>4, <1>5, <1>6, <1>7 DEF IInv

-----------------------------------------------------------------------------
(* Steps that add no response                                               *)

\* What a step leaves alone when responses keep their discussion, author and parent.
SameRows ==
  /\ response' \in [Ids -> Response]
  /\ \A i \in Ids :
       /\ response'[i].topic = None <=> response[i].topic = None
       /\ response'[i].disc = response[i].disc
       /\ response'[i].author = response[i].author
       /\ response'[i].parent = response[i].parent
  /\ UNCHANGED <<discussion, activity>>
  /\ created' \in Nat /\ created <= created'

\* Then the sets and the counters are what they were.
LEMMA RowsKept ==
  ASSUME IInv, SameRows
  PROVE  /\ Committed' = Committed
         /\ Rows' /\ CountersExact' /\ ParticipantsBounded' /\ ThreadsWellFormed'
  <1>1. Committed' = Committed
    BY DEF SameRows, Committed
  <1>2. \A d \in Discussions : In(d)' = In(d) /\ \A u \in Users : By(u, d)' = By(u, d)
    <2>1. \A d \in Discussions : In(d)' = In(d)
      BY <1>1 DEF In, SameRows, Committed
    <2> QED
      BY <2>1 DEF By, In, SameRows, Committed
  <1>3. Rows'
    <2> SUFFICES ASSUME NEW i \in Committed'
                 PROVE  /\ i <= created'
                        /\ response'[i].disc # None => discussion'[response'[i].disc].topic # None
      BY DEF Rows
    <2>1. i \in Committed /\ i \in Ids /\ i \in Nat /\ created \in Nat
      BY <1>1 DEF Committed, Ids, IInv, Types
    <2>2. i <= created /\ (response[i].disc # None => discussion[response[i].disc].topic # None)
      BY <2>1 DEF IInv, Rows
    <2> QED
      BY <2>1, <2>2 DEF SameRows
  <1>4. CountersExact'
    BY <1>2 DEF IInv, CountersExact, SameRows
  <1>5. ParticipantsBounded'
    BY DEF IInv, ParticipantsBounded, SameRows
  <1>6. ThreadsWellFormed'
    <2> SUFFICES ASSUME NEW i \in Committed', response'[i].parent # 0
                 PROVE  /\ response'[i].parent < i /\ response'[i].parent \in Committed'
                        /\ response'[i].disc # None =>
                             response'[response'[i].parent].disc = response'[i].disc
      BY DEF ThreadsWellFormed
    <2>1. i \in Committed /\ i \in Ids /\ response'[i].parent = response[i].parent
          /\ response'[i].disc = response[i].disc
      BY <1>1 DEF Committed, SameRows
    <2>2. /\ response[i].parent < i /\ response[i].parent \in Committed
          /\ response[i].disc # None => response[response[i].parent].disc = response[i].disc
      BY <2>1 DEF IInv, ThreadsWellFormed
    <2> QED
      BY <1>1, <2>1, <2>2 DEF Committed, SameRows
  <1> QED
    BY <1>1, <1>3, <1>4, <1>5, <1>6

\* A request that does not move is as right as it was.
LEMMA OthersKept ==
  ASSUME IInv, SameRows, NEW x \in Requests, req'[x] = req[x],
         DOMAIN merge \subseteq DOMAIN merge'
  PROVE  PostOk(x)' /\ OtherOk(x)'
  <1>1. Committed' = Committed /\ \A i \in Committed : response'[i].disc = response[i].disc
    BY RowsKept DEF SameRows, Committed
  <1>2. UNCHANGED <<discussion, activity>> /\ created' \in Nat /\ created <= created'
    BY DEF SameRows
  <1>3. PostOk(x) /\ OtherOk(x) /\ created \in Nat
    BY DEF IInv, RequestsOk, Types
  <1>4. PostOk(x)'
    <2>1. \A d \in Discussions, u \in Users : With(d, u)' = With(d, u)
      BY <1>2 DEF With
    <2> QED
      BY <1>1, <1>2, <1>3, <2>1, Places DEF PostOk, Holding, Posting
  <1>5. OtherOk(x)'
    BY <1>1, <1>2, <1>3 DEF OtherOk
  <1> QED
    BY <1>4, <1>5

\* So a step of one request that adds no response keeps the invariant, if the
\* request it leaves behind is right and apart from the others.
LEMMA CalmStep ==
  ASSUME IInv, SameRows, NEW r \in Requests, NEW k \in Request,
         req' = [req EXCEPT ![r] = k],
         created' \in 0 .. MaxResponses, changes' \in 0 .. MaxChanges,
         topic' \in [Topics -> [status : TopicStatus, responses : Nat]],
         merge' \in Seq(Merge), DOMAIN merge \subseteq DOMAIN merge',
         PostOk(r)', OtherOk(r)', \A q \in Requests \ {r} : Apart(r, q)'
  PROVE  IInv'
  <1>1. req' \in [Requests -> Request] /\ \A x \in Requests \ {r} : req'[x] = req[x]
    BY DEF IInv, Types
  <1>2. Types'
    BY <1>1 DEF IInv, Types, SameRows
  <1>3. \A x \in Requests \ {r} : PostOk(x)' /\ OtherOk(x)'
    BY <1>1, OthersKept
  <1>4. \A x, q \in Requests : x # q => Apart(x, q)'
    <2>1. \A x, q \in Requests \ {r} : x # q => Apart(x, q)'
      BY <1>1 DEF Apart, IInv, RequestsOk
    <2>2. \A q \in Requests \ {r} : Apart(q, r)'
      BY DEF Apart
    <2> QED
      BY <2>1, <2>2
  <1>5. RequestsOk'
    BY <1>3, <1>4 DEF RequestsOk
  <1> QED
    BY <1>2, <1>5, RowsKept DEF IInv

\* A request that ends.
LEMMA EndOk ==
  ASSUME NEW r \in Requests, req'[r] = Idle
  PROVE  PostOk(r)' /\ OtherOk(r)' /\ \A q \in Requests \ {r} : Apart(r, q)'
  BY DEF PostOk, OtherOk, Apart, Idle, Posting, Holding, Moving

\* Rows nobody touches.
LEMMA RowsAlone ==
  ASSUME IInv, UNCHANGED <<response, discussion, activity>>, created' \in Nat, created <= created'
  PROVE  SameRows
  BY DEF SameRows, IInv, Types

\* A step that ends a request without adding a response.
LEMMA EndStep ==
  ASSUME IInv, SameRows, NEW r \in Requests, End(r), UNCHANGED created,
         changes' \in 0 .. MaxChanges,
         topic' \in [Topics -> [status : TopicStatus, responses : Nat]],
         merge' \in Seq(Merge), DOMAIN merge \subseteq DOMAIN merge'
  PROVE  IInv'
  <1>1. req' = [req EXCEPT ![r] = Idle] /\ req'[r] = Idle /\ created' \in 0 .. MaxResponses
    BY DEF End, IInv, Types
  <1> QED
    BY <1>1, EndOk, IdleRequest, CalmStep

\* A step that writes only its request's record; a request that is not posting
\* afterwards, nor about to create a discussion, is apart from the others.
LEMMA QuietStep ==
  ASSUME IInv, NEW r \in Requests, NEW k \in Request, req' = [req EXCEPT ![r] = k],
         UNCHANGED <<response, created, discussion, activity, topic, merge>>,
         changes' \in 0 .. MaxChanges,
         k.at \notin Posting, k.at # "opening", OtherOk(r)'
  PROVE  IInv'
  <1>1. req'[r] = k /\ created' \in 0 .. MaxResponses /\ created' \in Nat /\ created <= created'
    BY DEF IInv, Types
  <1>2. SameRows
    BY <1>1, RowsAlone
  <1>3. PostOk(r)'
    BY <1>1 DEF PostOk, Holding, Posting
  <1>4. \A q \in Requests \ {r} : Apart(r, q)'
    BY <1>1 DEF Apart, Holding, Posting
  <1>5. /\ topic' \in [Topics -> [status : TopicStatus, responses : Nat]]
        /\ merge' \in Seq(Merge) /\ DOMAIN merge \subseteq DOMAIN merge'
    BY DEF IInv, Types
  <1> QED
    BY <1>1, <1>2, <1>3, <1>4, <1>5, CalmStep

\* A change has room left.
LEMMA ChangeTyped == IInv /\ (Change \/ UNCHANGED changes) => changes' \in 0 .. MaxChanges
  BY DEF IInv, Types, Change

\* The requests that begin with what they have read.
LEMMA StartResponseInv ==
  ASSUME IInv, NEW r \in Requests, NEW t \in Topics, NEW p \in 0 .. MaxResponses,
         StartResponse(r, t, p), UNCHANGED merge
  PROVE  IInv'
  <1> DEFINE k == [Idle EXCEPT !.at = "checked", !.topic = t, !.parent = p]
  <1>1. k \in Request /\ k.at = "checked" /\ k.topic = t /\ k.parent = p /\ k.moved = {}
    BY IdleRequest, Carried DEF Request
  <1>2. req' = [req EXCEPT ![r] = k]
    BY DEF StartResponse, Begin
  <1>3. /\ UNCHANGED <<response, created, discussion, activity, topic, changes>>
        /\ p = 0 \/ p \in Committed
    BY DEF StartResponse
  <1> HIDE DEF k
  <1>4. req'[r] = k
    BY <1>2 DEF IInv, Types
  <1>5. OtherOk(r)'
    BY <1>1, <1>3, <1>4 DEF OtherOk, Committed, Moving
  <1> QED
    BY <1>1, <1>2, <1>3, <1>5, ChangeTyped, QuietStep DEF Posting

LEMMA StartModerationInv ==
  ASSUME IInv, NEW r \in Requests, NEW i \in Ids, NEW to \in ResponseStatus,
         StartModeration(r, i, to), UNCHANGED merge
  PROVE  IInv'
  <1> DEFINE k == [Idle EXCEPT !.at = "moderate", !.id = i, !.to = to]
  <1>1. k \in Request /\ k.at = "moderate" /\ k.id = i /\ k.to = to /\ k.moved = {}
    BY IdleRequest, Carried DEF Request
  <1>2. req' = [req EXCEPT ![r] = k]
    BY DEF StartModeration, Begin
  <1>3. UNCHANGED <<response, created, discussion, activity, topic>> /\ i \in Committed /\ Change
    BY DEF StartModeration
  <1> HIDE DEF k
  <1>4. req'[r] = k
    BY <1>2 DEF IInv, Types
  <1>5. OtherOk(r)'
    BY <1>1, <1>3, <1>4 DEF OtherOk, Committed, Moving
  <1> QED
    BY <1>1, <1>2, <1>3, <1>5, ChangeTyped, QuietStep DEF Posting

LEMMA StartEditInv ==
  ASSUME IInv, NEW r \in Requests, NEW i \in Ids, StartEdit(r, i), UNCHANGED merge
  PROVE  IInv'
  <1> DEFINE k == [Idle EXCEPT !.at = "edit", !.id = i]
  <1>1. k \in Request /\ k.at = "edit" /\ k.id = i /\ k.moved = {}
    BY IdleRequest, Carried DEF Request
  <1>2. req' = [req EXCEPT ![r] = k]
    BY DEF StartEdit, Begin
  <1>3. UNCHANGED <<response, created, discussion, activity, topic>> /\ i \in Committed /\ Change
    BY DEF StartEdit
  <1> HIDE DEF k
  <1>4. req'[r] = k
    BY <1>2 DEF IInv, Types
  <1>5. OtherOk(r)'
    BY <1>1, <1>3, <1>4 DEF OtherOk, Committed, Moving
  <1> QED
    BY <1>1, <1>2, <1>3, <1>5, ChangeTyped, QuietStep DEF Posting

LEMMA StartStatusInv ==
  ASSUME IInv, NEW r \in Requests, NEW u \in {Creator, Moderator}, NEW t \in Topics,
         NEW new \in TopicStatus, StartStatus(r, u, t, new)
  PROVE  IInv'
  <1> DEFINE k == [Idle EXCEPT !.at = "status", !.topic = t, !.to = new]
  <1>1. k \in Request /\ k.at = "status" /\ k.topic = t /\ k.to = new /\ k.moved = {}
    BY IdleRequest, Carried DEF Request
  <1>2. req' = [req EXCEPT ![r] = k]
    BY DEF StartStatus, Begin
  <1>3. UNCHANGED <<response, created, discussion, activity, topic, merge>> /\ Change
    BY DEF StartStatus
  <1> HIDE DEF k
  <1>4. req'[r] = k
    BY <1>2 DEF IInv, Types
  <1>5. OtherOk(r)'
    BY <1>1, <1>3, <1>4 DEF OtherOk, Moving
  <1> QED
    BY <1>1, <1>2, <1>3, <1>5, ChangeTyped, QuietStep DEF Posting

LEMMA StartMergeInv ==
  ASSUME IInv, NEW r \in Requests, NEW s \in Topics, NEW t \in Topics, StartMerge(r, s, t)
  PROVE  IInv'
  <1> DEFINE n == topic[s].responses + topic[t].responses
             k == [Idle EXCEPT !.at = "merging", !.source = s, !.topic = t, !.total = n]
  <1>0. n \in Nat
    BY DEF IInv, Types
  <1>1. req' = [req EXCEPT ![r] = k]
    BY DEF StartMerge, Begin
  <1> HIDE DEF n
  <1>2. k \in Request /\ k.at = "merging" /\ k.topic = t /\ k.source = s /\ k.moved = {}
    BY <1>0, IdleRequest, Carried DEF Request, Moving
  <1>3. UNCHANGED <<response, created, discussion, activity, topic, merge>> /\ Change
    BY DEF StartMerge
  <1> HIDE DEF k
  <1>4. req'[r] = k
    BY <1>1 DEF IInv, Types
  <1>5. OtherOk(r)'
    BY <1>2, <1>3, <1>4 DEF OtherOk, Moving
  <1> QED
    BY <1>1, <1>2, <1>3, <1>5, ChangeTyped, QuietStep DEF Posting

LEMMA StartRollbackInv ==
  ASSUME IInv, NEW r \in Requests, NEW m \in DOMAIN merge, StartRollback(r, m)
  PROVE  IInv'
  <1> DEFINE s == merge[m].source
             k == [Idle EXCEPT !.at = "rolling", !.id = m, !.source = s]
  <1>0. m \in Nat /\ s \in Topics
    <2>1. merge \in Seq(Merge)
      BY DEF IInv, Types
    <2>2. merge[m] \in Merge /\ m \in Nat
      BY <2>1
    <2> QED
      BY <2>2 DEF Merge
  <1>2. req' = [req EXCEPT ![r] = k]
    BY DEF StartRollback, Begin
  <1> HIDE DEF s
  <1>1. k \in Request /\ k.at = "rolling" /\ k.id = m /\ k.source = s /\ k.moved = {}
    BY <1>0, IdleRequest, Carried DEF Request, Moving
  <1>3. UNCHANGED <<response, created, discussion, activity, topic, merge>> /\ Change
    BY DEF StartRollback
  <1> HIDE DEF k
  <1>4. req'[r] = k
    BY <1>2 DEF IInv, Types
  <1>5. OtherOk(r)'
    BY <1>0, <1>1, <1>3, <1>4 DEF OtherOk, Moving
  <1> QED
    BY <1>1, <1>2, <1>3, <1>5, ChangeTyped, QuietStep DEF Posting

-----------------------------------------------------------------------------
(* The writes that add no response                                          *)

\* A response whose row is written but for its discussion, author and parent.
LEMMA RowWritten ==
  ASSUME IInv, NEW i \in Committed, NEW w \in Response,
         w.topic # None, w.disc = response[i].disc, w.author = response[i].author,
         w.parent = response[i].parent,
         response' = [response EXCEPT ![i] = w], UNCHANGED <<created, discussion, activity>>
  PROVE  SameRows
  <1>1. response \in [Ids -> Response] /\ i \in Ids /\ response[i].topic # None /\ created \in Nat
    BY DEF IInv, Types, Committed
  <1> QED
    BY <1>1 DEF SameRows

LEMMA WriteStatusInv ==
  ASSUME IInv, NEW r \in Requests, WriteStatus(r), UNCHANGED merge PROVE IInv'
  <1> DEFINE i == req[r].id
             w == [response[i] EXCEPT !.status = req[r].to]
  <1>1. i \in Committed /\ req[r].to \in ResponseStatus
    BY DEF WriteStatus, IInv, RequestsOk, OtherOk
  <1>2. response[i] \in Response /\ response[i].topic # None
    BY <1>1 DEF IInv, Types, Committed
  <1>3. /\ w \in Response /\ w.topic = response[i].topic /\ w.disc = response[i].disc
        /\ w.author = response[i].author /\ w.parent = response[i].parent
    BY <1>1, <1>2 DEF Response
  <1>4. response' = [response EXCEPT ![i] = w] /\ End(r)
    BY DEF WriteStatus
  <1>5. UNCHANGED <<created, discussion, activity, topic, changes, merge>>
    BY DEF WriteStatus
  <1> HIDE DEF i, w
  <1>6. SameRows
    BY <1>1, <1>2, <1>3, <1>4, <1>5, RowWritten
  <1> QED
    BY <1>4, <1>5, <1>6, EndStep DEF IInv, Types

LEMMA WriteEditInv ==
  ASSUME IInv, NEW r \in Requests, WriteEdit(r), UNCHANGED merge PROVE IInv'
  <1> DEFINE i == req[r].id
             n == response[i].revision + 1
             w == [response[i] EXCEPT !.revision = n]
  <1>1. i \in Committed
    BY DEF WriteEdit, IInv, RequestsOk, OtherOk
  <1>2. response[i] \in Response /\ response[i].topic # None
    BY <1>1 DEF IInv, Types, Committed
  <1>0. n \in Nat
    BY <1>2 DEF Response
  <1>4. response' = [response EXCEPT ![i] = w] /\ End(r)
    BY Zenon DEF WriteEdit
  <1> HIDE DEF n
  <1>3. /\ w \in Response /\ w.topic = response[i].topic /\ w.disc = response[i].disc
        /\ w.author = response[i].author /\ w.parent = response[i].parent
    BY <1>0, <1>2 DEF Response
  <1>5. UNCHANGED <<created, discussion, activity, topic, changes, merge>>
    BY DEF WriteEdit
  <1> HIDE DEF i, w
  <1>6. SameRows
    BY <1>1, <1>2, <1>3, <1>4, <1>5, RowWritten
  <1> QED
    BY <1>4, <1>5, <1>6, EndStep DEF IInv, Types

\* A topic whose status or count is written.
LEMMA TopicWritten ==
  ASSUME IInv, NEW t \in Topics, NEW w \in [status : TopicStatus, responses : Nat],
         topic' = [topic EXCEPT ![t] = w]
  PROVE  topic' \in [Topics -> [status : TopicStatus, responses : Nat]]
  BY DEF IInv, Types

LEMMA WriteTopicStatusInv ==
  ASSUME IInv, NEW r \in Requests, WriteTopicStatus(r) PROVE IInv'
  <1> DEFINE t == req[r].topic
             w == [topic[t] EXCEPT !.status = req[r].to]
  <1>1. t \in Topics /\ req[r].to \in TopicStatus
    BY DEF WriteTopicStatus, IInv, RequestsOk, OtherOk
  <1>2. w \in [status : TopicStatus, responses : Nat]
    <2>1. topic[t] \in [status : TopicStatus, responses : Nat]
      BY <1>1 DEF IInv, Types
    <2> HIDE DEF t
    <2> QED
      BY <1>1, <2>1
  <1>3. topic' = [topic EXCEPT ![t] = w] /\ End(r)
    BY DEF WriteTopicStatus
  <1>4. UNCHANGED <<response, created, discussion, activity, changes, merge>>
    BY DEF WriteTopicStatus
  <1> HIDE DEF t, w
  <1>5. topic' \in [Topics -> [status : TopicStatus, responses : Nat]]
    BY <1>1, <1>2, <1>3, TopicWritten
  <1>6. SameRows
    BY <1>4, RowsAlone DEF IInv, Types
  <1> QED
    BY <1>3, <1>4, <1>5, <1>6, EndStep DEF IInv, Types

LEMMA IncrementTopicInv ==
  ASSUME IInv, NEW r \in Requests, IncrementTopic(r), UNCHANGED merge PROVE IInv'
  <1> DEFINE t == req[r].topic
             n == topic[t].responses + 1
             w == [topic[t] EXCEPT !.responses = n]
  <1>1. t \in Topics
    BY DEF IncrementTopic, IInv, RequestsOk, OtherOk
  <1>0. topic[t] \in [status : TopicStatus, responses : Nat] /\ n \in Nat
    BY <1>1 DEF IInv, Types
  <1>3. topic' = [topic EXCEPT ![t] = w] /\ End(r)
    BY Zenon DEF IncrementTopic
  <1> HIDE DEF n
  <1>2. w \in [status : TopicStatus, responses : Nat]
    BY <1>0
  <1>4. UNCHANGED <<response, created, discussion, activity, changes, merge>>
    BY DEF IncrementTopic
  <1> HIDE DEF t, w
  <1>5. topic' \in [Topics -> [status : TopicStatus, responses : Nat]]
    BY <1>1, <1>2, <1>3, TopicWritten
  <1>6. SameRows
    BY <1>4, RowsAlone DEF IInv, Types
  <1> QED
    BY <1>3, <1>4, <1>5, <1>6, EndStep DEF IInv, Types

LEMMA AbortInv ==
  ASSUME IInv, NEW r \in Requests, Abort(r), UNCHANGED merge PROVE IInv'
  <1>1. UNCHANGED <<response, created, discussion, activity, topic, merge>> /\ End(r) /\ Change
    BY DEF Abort
  <1>2. SameRows
    BY <1>1, RowsAlone DEF IInv, Types
  <1> QED
    BY <1>1, <1>2, ChangeTyped, EndStep DEF IInv, Types

\* The statements of merges and rollbacks write their request's record only.
LEMMA MoveInv ==
  ASSUME IInv, NEW r \in Requests, Move(r) PROVE IInv'
  <1> DEFINE S == ToMove(req[r])
             a == IF req[r].at = "merging" THEN "moved" ELSE "rolled"
             k == [req[r] EXCEPT !.at = a, !.moved = S]
  <1>1. S \subseteq Committed /\ Committed \subseteq Ids
    BY DEF ToMove, Committed
  <1>2. req[r] \in Request /\ req[r].at \in {"merging", "rolling"}
    BY DEF Move, IInv, Types
  <1>3. a \in {"moved", "rolled"} /\ a \in Place
    BY DEF Place
  <1>4. req' = [req EXCEPT ![r] = k]
    BY Zenon DEF Move
  <1>5. UNCHANGED <<response, created, discussion, activity, topic, changes, merge>>
    BY DEF Move
  <1>6. /\ a = "moved" => req[r].topic \in Topics
        /\ req[r].source \in Topics
        /\ a = "rolled" => req[r].id \in DOMAIN merge
    BY <1>2 DEF IInv, RequestsOk, OtherOk, Moving
  <1> HIDE DEF S, a
  <1>7. /\ k \in Request /\ k.at = a /\ k.moved = S /\ k.topic = req[r].topic
        /\ k.source = req[r].source /\ k.id = req[r].id
    BY <1>1, <1>2, <1>3 DEF Request
  <1> HIDE DEF k
  <1>8. req'[r] = k
    BY <1>4 DEF IInv, Types
  <1>9. OtherOk(r)'
    BY <1>1, <1>3, <1>5, <1>6, <1>7, <1>8 DEF OtherOk, Committed, Moving
  <1> QED
    BY <1>3, <1>4, <1>5, <1>7, <1>9, ChangeTyped, QuietStep DEF Posting

LEMMA UpdateTargetInv ==
  ASSUME IInv, NEW r \in Requests, UpdateTarget(r) PROVE IInv'
  <1> DEFINE k == [req[r] EXCEPT !.at = "recorded", !.mergedAt = created]
  <1>1. /\ req[r] \in Request /\ req[r].at = "moved" /\ created \in 0 .. MaxResponses
        /\ "recorded" \in Place /\ "recorded" \notin Posting
    BY DEF UpdateTarget, IInv, Types, Place, Posting
  <1>2. req' = [req EXCEPT ![r] = k]
    BY Zenon DEF UpdateTarget
  <1>3. UNCHANGED <<response, created, discussion, activity, topic, changes, merge>>
    BY DEF UpdateTarget
  <1>4. /\ req[r].topic \in Topics /\ req[r].source \in Topics
        /\ req[r].moved \subseteq Committed
    BY <1>1 DEF IInv, RequestsOk, OtherOk, Moving
  <1>5. \A i \in req[r].moved : i <= created
    BY <1>4 DEF IInv, Rows
  <1>6. /\ k \in Request /\ k.at = "recorded" /\ k.moved = req[r].moved
        /\ k.topic = req[r].topic /\ k.source = req[r].source /\ k.mergedAt = created
    BY <1>1 DEF Request
  <1> HIDE DEF k
  <1>7. req'[r] = k
    BY <1>2 DEF IInv, Types
  <1>8. OtherOk(r)'
    BY <1>3, <1>4, <1>5, <1>6, <1>7 DEF OtherOk, Committed, Moving
  <1> QED
    BY <1>1, <1>2, <1>3, <1>6, <1>8, ChangeTyped, QuietStep

LEMMA WriteSourceInv ==
  ASSUME IInv, NEW r \in Requests, WriteSource(r) PROVE IInv'
  <1> DEFINE a == IF req[r].at = "recorded" THEN "archived" ELSE "restored"
             k == [req[r] EXCEPT !.at = a]
  <1>1. /\ req[r] \in Request /\ req[r].at \in {"recorded", "rolled"}
        /\ a \in {"archived", "restored"} /\ a \in Place /\ a \notin Posting
        /\ req[r].at = "recorded" <=> a = "archived"
    BY DEF WriteSource, IInv, Types, Place, Posting
  <1>2. req' = [req EXCEPT ![r] = k]
    BY Zenon DEF WriteSource
  <1>3. UNCHANGED <<response, created, discussion, activity, topic, changes, merge>>
    BY DEF WriteSource
  <1>4. /\ req[r].source \in Topics /\ req[r].moved \subseteq Committed
        /\ a = "archived" => /\ req[r].topic \in Topics
                             /\ \A i \in req[r].moved : i <= req[r].mergedAt
        /\ a = "restored" => req[r].id \in DOMAIN merge
    BY <1>1 DEF IInv, RequestsOk, OtherOk, Moving
  <1> HIDE DEF a
  <1>6. /\ k \in Request /\ k.at = a /\ k.moved = req[r].moved /\ k.topic = req[r].topic
        /\ k.source = req[r].source /\ k.mergedAt = req[r].mergedAt /\ k.id = req[r].id
    BY <1>1 DEF Request
  <1> HIDE DEF k
  <1>7. req'[r] = k
    BY <1>2 DEF IInv, Types
  <1>8. OtherOk(r)'
    BY <1>1, <1>3, <1>4, <1>6, <1>7 DEF OtherOk, Committed, Moving
  <1> QED
    BY <1>1, <1>2, <1>3, <1>6, <1>8, ChangeTyped, QuietStep

\* The victim of a deadlock is undone.
LEMMA BreakDeadlockInv ==
  ASSUME IInv, NEW r \in Requests, BreakDeadlock(r) PROVE IInv'
  <1>1. UNCHANGED <<response, created, discussion, activity, topic, changes, merge>> /\ End(r)
    BY DEF BreakDeadlock
  <1>2. SameRows
    BY <1>1, RowsAlone DEF IInv, Types
  <1> QED
    BY <1>1, <1>2, EndStep DEF IInv, Types

\* Responses that change their topic stay what they are otherwise.
LEMMA RowsMoved ==
  ASSUME IInv, NEW t \in Topics, NEW S, MovedTo(t, S), UNCHANGED <<created, discussion, activity>>,
         S \subseteq Committed
  PROVE  SameRows
  <1>1. response \in [Ids -> Response] /\ created \in Nat /\ None \notin Topics
    BY DEF IInv, Types
  <1>2. \A i \in Ids : response'[i] = IF i \in S THEN [response[i] EXCEPT !.topic = t] ELSE response[i]
    BY DEF MovedTo
  <1>3. \A i \in Ids : i \in S => response[i].topic # None
    BY DEF Committed
  <1>4. ASSUME NEW i \in Ids
        PROVE  /\ response'[i] \in Response
               /\ response'[i].disc = response[i].disc
               /\ response'[i].author = response[i].author
               /\ response'[i].parent = response[i].parent
               /\ response'[i].topic = IF i \in S THEN t ELSE response[i].topic
    <2>1. response[i] \in Response
      BY <1>1
    <2>2. CASE i \in S
      <3>1. response'[i] = [response[i] EXCEPT !.topic = t]
        BY <1>2, <2>2
      <3> QED
        BY <2>1, <2>2, <3>1 DEF Response
    <2>3. CASE i \notin S
      BY <1>2, <2>1, <2>3
    <2> QED
      BY <2>2, <2>3
  <1>5. response' \in [Ids -> Response]
    BY <1>4 DEF MovedTo
  <1> QED
    BY <1>1, <1>3, <1>4, <1>5 DEF SameRows

LEMMA CommitMergeInv ==
  ASSUME IInv, NEW r \in Requests, CommitMerge(r) PROVE IInv'
  <1> DEFINE q == req[r]
             x == [topic[q.topic] EXCEPT !.responses = q.total]
             m == [source |-> q.source, target |-> q.topic, at |-> q.mergedAt,
                   rolledBack |-> FALSE]
  <1>1. /\ q.topic \in Topics /\ q.source \in Topics /\ q.total \in Nat /\ q.moved \subseteq Committed
        /\ q.mergedAt \in 0 .. MaxResponses
    BY DEF CommitMerge, IInv, RequestsOk, OtherOk, Types, Request, Moving
  <1>2. SameRows
    BY <1>1, RowsMoved DEF CommitMerge
  <1>3. topic' \in [Topics -> [status : TopicStatus, responses : Nat]]
    <2>1. topic \in [Topics -> [status : TopicStatus, responses : Nat]]
      BY DEF IInv, Types
    <2>2. topic' = [topic EXCEPT ![q.topic] = [@ EXCEPT !.responses = q.total],
                                 ![q.source] = [@ EXCEPT !.status = "ARCHIVED"]]
      BY DEF CommitMerge
    <2> HIDE DEF q
    <2>3. [topic EXCEPT ![q.topic] = [@ EXCEPT !.responses = q.total]]
            \in [Topics -> [status : TopicStatus, responses : Nat]]
      BY <1>1, <2>1
    <2> QED
      BY <1>1, <2>2, <2>3 DEF TopicStatus
  <1>4. merge' = Append(merge, m) /\ m \in Merge /\ merge \in Seq(Merge)
    BY <1>1 DEF CommitMerge, Merge, IInv, Types
  <1>5. merge' \in Seq(Merge) /\ DOMAIN merge \subseteq DOMAIN merge'
    <2> HIDE DEF m
    <2> QED
      BY <1>4
  <1>6. End(r) /\ UNCHANGED <<created, changes>>
    BY DEF CommitMerge
  <1> QED
    BY <1>2, <1>3, <1>5, <1>6, EndStep, ChangeTyped

LEMMA CommitRollbackInv ==
  ASSUME IInv, NEW r \in Requests, CommitRollback(r) PROVE IInv'
  <1> DEFINE q == req[r]
             m == merge[q.id]
             x == [topic[q.source] EXCEPT !.status = "ACTIVE"]
             n == [m EXCEPT !.rolledBack = TRUE]
  <1>1. q.id \in DOMAIN merge /\ q.moved \subseteq Committed /\ q.source \in Topics
    BY DEF CommitRollback, IInv, RequestsOk, OtherOk, Moving
  <1>20. merge \in Seq(Merge)
    BY DEF IInv, Types
  <1>2. m \in Merge
    <2> HIDE DEF q
    <2> QED
      BY <1>1, <1>20
  <1>3. n \in Merge
    BY <1>2 DEF Merge
  <1>4. /\ MovedTo(q.source, q.moved) /\ End(r)
        /\ topic' = [topic EXCEPT ![q.source] = x]
        /\ merge' = [merge EXCEPT ![q.id] = n]
        /\ UNCHANGED <<created, discussion, activity, changes>>
    BY DEF CommitRollback
  <1>50. topic[q.source] \in [status : TopicStatus, responses : Nat]
    BY <1>1 DEF IInv, Types
  <1>5. x \in [status : TopicStatus, responses : Nat]
    BY <1>50 DEF TopicStatus
  <1> HIDE DEF q, m, x, n
  <1>6. SameRows
    BY <1>1, <1>4, RowsMoved
  <1>7. topic' \in [Topics -> [status : TopicStatus, responses : Nat]]
    BY <1>1, <1>4, <1>5, TopicWritten
  <1>8. merge' \in Seq(Merge) /\ DOMAIN merge \subseteq DOMAIN merge'
    BY <1>1, <1>20, <1>3, <1>4
  <1> QED
    BY <1>4, <1>6, <1>7, <1>8, EndStep, ChangeTyped

-----------------------------------------------------------------------------
(* The steps of a post before its commit                                    *)

\* What is left to show of such a step is about its own request.
LEMMA PostStepInv ==
  ASSUME IInv, NEW r \in Requests, NEW k \in Request, req' = [req EXCEPT ![r] = k],
         UNCHANGED <<response, discussion, activity, topic, changes, merge>>,
         created' \in 0 .. MaxResponses, created <= created',
         PostOk(r)', OtherOk(r)', \A q \in Requests \ {r} : Apart(r, q)'
  PROVE  IInv'
  <1>1. SameRows
    BY RowsAlone
  <1>2. /\ topic' \in [Topics -> [status : TopicStatus, responses : Nat]]
        /\ merge' \in Seq(Merge) /\ DOMAIN merge \subseteq DOMAIN merge'
    BY DEF IInv, Types
  <1> QED
    BY <1>1, <1>2, ChangeTyped, CalmStep

\* The same for a request that keeps what it knows but for its place and one value.
LEMMA AdvanceInv ==
  ASSUME IInv, NEW r \in Requests, NEW k \in Request, req' = [req EXCEPT ![r] = k],
         UNCHANGED <<response, created, discussion, activity, topic, changes, merge>>,
         req[r].at \in Posting, k.at \in Posting,
         k.user = req[r].user, k.disc = req[r].disc, k.id = req[r].id,
         k.parent = req[r].parent, k.moved = req[r].moved,
         k.at \in Holding => k.mine = activity[k.disc][k.user] + 1,
         k.at \in Holding => req[r].at \in Holding \/ ~ActivityLocked(r),
         k.at \in {"counted", "updated"} =>
           k.participants > 0 /\ k.participants <= Cardinality(With(k.disc, k.user)),
         k.at = "updated" => k.total = discussion[k.disc].responses + 1 /\ ~DiscussionLocked(r)
  PROVE  IInv'
  <1>1. /\ req'[r] = k /\ \A q \in Requests \ {r} : req'[q] = req[q]
        /\ created' \in 0 .. MaxResponses /\ created <= created'
    BY DEF IInv, Types
  <1>2. PostOk(r) /\ OtherOk(r) /\ \A q \in Requests \ {r} : Apart(r, q)
    BY DEF IInv, RequestsOk
  <1>3. Committed' = Committed
    BY DEF Committed
  <1>4. \A d \in Discussions, u \in Users : With(d, u)' = With(d, u)
    BY DEF With
  <1>5. /\ k.id \in 1 .. created /\ k.id \notin Committed /\ k.user \in Users
        /\ k.disc \in Discussions /\ discussion[k.disc].topic # None /\ k.parent < k.id
        /\ k.parent = 0 \/ (k.parent \in Committed /\ response[k.parent].disc = k.disc)
    BY <1>2 DEF PostOk
  <1>6. PostOk(r)'
    <2>1. With(k.disc, k.user)' = With(k.disc, k.user)
      BY <1>4, <1>5
    <2>2. k.at \in {"counted", "updated"} =>
            k.participants > 0 /\ k.participants <= Cardinality(With(k.disc, k.user)')
      BY <2>1
    <2>3. k.id \in 1 .. created' /\ k.id \notin Committed'
      BY <1>3, <1>5
    <2>4. /\ k.user \in Users /\ k.disc \in Discussions /\ discussion'[k.disc].topic # None
          /\ k.parent < k.id
          /\ k.parent = 0 \/ (k.parent \in Committed' /\ response'[k.parent].disc = k.disc)
      BY <1>3, <1>5
    <2>5. k.at \in Holding => k.mine = activity'[k.disc][k.user] + 1
      OBVIOUS
    <2>6. k.at = "updated" => k.total = discussion'[k.disc].responses + 1
      OBVIOUS
    <2> QED
      BY <1>1, <2>2, <2>3, <2>4, <2>5, <2>6 DEF PostOk
  <1>7. OtherOk(r)'
    BY <1>1, <1>2 DEF OtherOk, Moving, Posting
  <1>8. ASSUME NEW q \in Requests \ {r} PROVE Apart(r, q)'
    <2>1. req'[q] = req[q] /\ Apart(r, q)
      BY <1>1, <1>2
    <2>2. k.at \in Holding /\ req[q].at \in Holding => k.disc # req[q].disc \/ k.user # req[q].user
      BY <2>1 DEF Apart, ActivityLocked, HoldsActivity, Holding
    <2>3. k.at = "updated" /\ req[q].at = "updated" => k.disc # req[q].disc
      BY <2>1 DEF DiscussionLocked, HoldsDiscussion
    <2> QED
      BY <1>1, <2>1, <2>2, <2>3 DEF Apart, Posting
  <1> QED
    BY <1>1, <1>6, <1>7, <1>8, PostStepInv

LEMMA StartDiscussionInv ==
  ASSUME IInv, NEW r \in Requests, NEW u \in Users, NEW t \in Topics, NEW d \in Discussions,
         StartDiscussion(r, u, t, d), UNCHANGED merge
  PROVE  IInv'
  <1> DEFINE k == [Idle EXCEPT !.at = "opening", !.user = u, !.topic = t, !.disc = d]
  <1>1. /\ k \in Request /\ k.at = "opening" /\ k.user = u /\ k.topic = t /\ k.disc = d
        /\ k.moved = {}
    BY IdleRequest, Carried DEF Request
  <1>2. req' = [req EXCEPT ![r] = k]
    BY DEF StartDiscussion, Begin
  <1>3. UNCHANGED <<response, created, discussion, activity, topic, changes, merge>>
    BY DEF StartDiscussion
  <1>4. discussion[d].topic = None /\ \A q \in Requests : ~(req[q].at = "opening" /\ req[q].disc = d)
    BY DEF StartDiscussion
  <1> HIDE DEF k
  <1>5. /\ req'[r] = k /\ \A q \in Requests \ {r} : req'[q] = req[q]
        /\ created' \in 0 .. MaxResponses /\ created <= created'
    BY <1>2, <1>3 DEF IInv, Types
  <1>6. PostOk(r)'
    BY <1>1, <1>5 DEF PostOk, Posting, Holding
  <1>7. OtherOk(r)'
    BY <1>1, <1>3, <1>4, <1>5 DEF OtherOk, Moving
  <1>8. \A q \in Requests \ {r} : Apart(r, q)'
    BY <1>1, <1>4, <1>5 DEF Apart, Posting, Holding
  <1> QED
    BY <1>1, <1>2, <1>3, <1>5, <1>6, <1>7, <1>8, PostStepInv

LEMMA PostInv ==
  ASSUME IInv, NEW r \in Requests, NEW u \in Users, NEW d \in Discussions,
         NEW p \in 0 .. MaxResponses, Post(r, u, d, p), UNCHANGED merge
  PROVE  IInv'
  <1> DEFINE n == created + 1
             k == [Idle EXCEPT !.at = "inserted", !.user = u, !.disc = d, !.id = n, !.parent = p]
  <1>0. n \in Nat /\ n \in 0 .. MaxResponses /\ n > created /\ created \in Nat
    BY DEF Post, IInv, Types
  <1>1. req' = [req EXCEPT ![r] = k] /\ created' = n
    BY DEF Post, Begin
  <1> HIDE DEF n
  <1>2. /\ k \in Request /\ k.at = "inserted" /\ k.user = u /\ k.disc = d /\ k.id = n
        /\ k.parent = p /\ k.moved = {}
    BY <1>0, IdleRequest, Places DEF Request, Posting
  <1>3. UNCHANGED <<response, discussion, activity, topic, changes, merge>>
    BY DEF Post
  <1>4. /\ discussion[d].topic # None
        /\ p = 0 \/ (p \in Committed /\ response[p].disc = d)
    BY DEF Post, ParentOk
  <1> HIDE DEF k
  <1>5. req'[r] = k /\ \A q \in Requests \ {r} : req'[q] = req[q]
    BY <1>1 DEF IInv, Types
  <1>6. \A i \in Committed : i \in Nat /\ i <= created
    BY DEF IInv, Rows, Committed, Ids
  <1>7. PostOk(r)'
    <2>1. Committed' = Committed
      BY <1>3 DEF Committed
    <2>2. n \notin Committed /\ p < n
      BY <1>0, <1>4, <1>6
    <2>3. n \in 1 .. created'
      BY <1>0, <1>1
    <2> QED
      BY <1>2, <1>3, <1>4, <1>5, <2>1, <2>2, <2>3 DEF PostOk, Posting, Holding
  <1>8. OtherOk(r)'
    BY <1>2, <1>5 DEF OtherOk, Moving
  <1>9. \A q \in Requests \ {r} : Apart(r, q)'
    <2>1. \A q \in Requests : req[q].at \in Posting => req[q].id \in 1 .. created
      BY DEF IInv, RequestsOk, PostOk
    <2>2. \A q \in Requests : req[q].at \in Posting => req[q].id # n
      BY <1>0, <2>1
    <2> QED
      BY <1>2, <1>5, <2>2 DEF Apart, Holding
  <1>10. created' \in 0 .. MaxResponses /\ created <= created'
    BY <1>0, <1>1
  <1> QED
    BY <1>1, <1>2, <1>3, <1>7, <1>8, <1>9, <1>10, PostStepInv

\* What the invariant says of a post.
LEMMA PostFacts ==
  ASSUME IInv, NEW r \in Requests, req[r].at \in Posting
  PROVE  /\ req[r] \in Request
         /\ req[r].user \in Users /\ req[r].disc \in Discussions
         /\ activity[req[r].disc][req[r].user] \in Nat
         /\ discussion[req[r].disc].responses \in Nat
         /\ req[r].at \in Holding =>
              req[r].mine = activity[req[r].disc][req[r].user] + 1
         /\ req[r].at \in {"counted", "updated"} =>
              /\ req[r].participants > 0
              /\ req[r].participants <= Cardinality(With(req[r].disc, req[r].user))
  <1>1. PostOk(r) /\ req[r] \in Request
    BY DEF IInv, RequestsOk, Types
  <1>2. req[r].user \in Users /\ req[r].disc \in Discussions
    BY <1>1 DEF PostOk
  <1>3. activity[req[r].disc][req[r].user] \in Nat /\ discussion[req[r].disc].responses \in Nat
    BY <1>2 DEF IInv, Types
  <1> QED
    BY <1>1, <1>2, <1>3 DEF PostOk

LEMMA FindActivityInv ==
  ASSUME IInv, NEW r \in Requests, FindActivity(r), UNCHANGED merge PROVE IInv'
  <1> DEFINE a == IF activity[req[r].disc][req[r].user] > 0 THEN "add" ELSE "create"
             k == [req[r] EXCEPT !.at = a]
  <1>1. req[r].at \in Posting /\ a \in Posting /\ a \notin Holding /\ a \in Place
    BY DEF FindActivity, Posting, Holding, Place
  <1>2. a \notin {"counted", "updated"}
    OBVIOUS
  <1>3. req' = [req EXCEPT ![r] = k]
    BY DEF FindActivity, IInv, Types
  <1>4. UNCHANGED <<response, created, discussion, activity, topic, changes, merge>>
    BY DEF FindActivity
  <1> HIDE DEF a
  <1>5. /\ k \in Request /\ k.at = a /\ k.user = req[r].user /\ k.disc = req[r].disc
        /\ k.id = req[r].id /\ k.parent = req[r].parent /\ k.moved = req[r].moved
    BY <1>1, PostFacts DEF Request
  <1> HIDE DEF k
  <1> QED
    BY <1>1, <1>2, <1>3, <1>4, <1>5, AdvanceInv

LEMMA WriteActivityInv ==
  ASSUME IInv, NEW r \in Requests, req[r].at \in {"add", "create"}, ~ActivityLocked(r),
         WriteActivity(r), UNCHANGED merge
  PROVE  IInv'
  <1> DEFINE n == activity[req[r].disc][req[r].user] + 1
             k == [req[r] EXCEPT !.at = "activity", !.mine = n]
  <1>1. req[r].at \in Posting /\ "activity" \in Posting /\ "activity" \in Place
    BY DEF Posting, Place
  <1>2. n \in Nat
    BY <1>1, PostFacts
  <1>3. req' = [req EXCEPT ![r] = k]
    BY DEF WriteActivity
  <1>4. UNCHANGED <<response, created, discussion, activity, topic, changes, merge>>
    BY DEF WriteActivity
  <1>5. n = activity[req[r].disc][req[r].user] + 1
    OBVIOUS
  <1> HIDE DEF n
  <1>6. /\ k \in Request /\ k.at = "activity" /\ k.user = req[r].user /\ k.disc = req[r].disc
        /\ k.id = req[r].id /\ k.parent = req[r].parent /\ k.moved = req[r].moved /\ k.mine = n
    BY <1>1, <1>2, PostFacts DEF Request
  <1> HIDE DEF k
  <1> QED
    BY <1>1, <1>3, <1>4, <1>5, <1>6, AdvanceInv

LEMMA CreateActivityInv ==
  ASSUME IInv, NEW r \in Requests, CreateActivity(r), UNCHANGED merge PROVE IInv'
  <1>1. CASE activity[req[r].disc][req[r].user] = 0
    BY <1>1, WriteActivityInv DEF CreateActivity
  <1>2. CASE activity[req[r].disc][req[r].user] # 0
    <2>1. UNCHANGED <<response, created, discussion, activity, topic, changes, merge>> /\ End(r)
      BY <1>2 DEF CreateActivity
    <2>2. SameRows
      BY <2>1, RowsAlone DEF IInv, Types
    <2> QED
      BY <2>1, <2>2, ChangeTyped, EndStep DEF IInv, Types
  <1> QED
    BY <1>1, <1>2

LEMMA CountParticipantsInv ==
  ASSUME IInv, NEW r \in Requests, CountParticipants(r), UNCHANGED merge PROVE IInv'
  <1> DEFINE n == Participants(r)
             k == [req[r] EXCEPT !.at = "counted", !.participants = n]
  <1>1. /\ req[r].at \in Posting /\ req[r].at \in Holding
        /\ "counted" \in Posting /\ "counted" \in Place
    BY DEF CountParticipants, Posting, Holding, Place
  <1>2. n = Cardinality(With(req[r].disc, req[r].user))
    BY DEF Participants, With
  <1>3. req' = [req EXCEPT ![r] = k]
    BY DEF CountParticipants
  <1>4. UNCHANGED <<response, created, discussion, activity, topic, changes, merge>>
    BY DEF CountParticipants
  <1> HIDE DEF n
  <1>5. n \in Nat /\ n > 0
    <2>1. req[r].user \in With(req[r].disc, req[r].user)
      BY <1>1, PostFacts DEF With
    <2>2. With(req[r].disc, req[r].user) \subseteq Users
      BY DEF With
    <2> QED
      BY <1>2, <2>1, <2>2, UsersFinite, FS_EmptySet
  <1>6. /\ k \in Request /\ k.at = "counted" /\ k.user = req[r].user /\ k.disc = req[r].disc
        /\ k.id = req[r].id /\ k.parent = req[r].parent /\ k.moved = req[r].moved
        /\ k.mine = req[r].mine /\ k.participants = n
    BY <1>1, <1>5, PostFacts DEF Request
  <1>7. k.mine = activity[k.disc][k.user] + 1
    BY <1>1, <1>6, PostFacts
  <1>8. k.participants > 0 /\ k.participants <= Cardinality(With(k.disc, k.user))
    BY <1>2, <1>5, <1>6
  <1> HIDE DEF k
  <1> QED
    BY <1>1, <1>3, <1>4, <1>6, <1>7, <1>8, AdvanceInv

LEMMA UpdateDiscussionInv ==
  ASSUME IInv, NEW r \in Requests, UpdateDiscussion(r), UNCHANGED merge PROVE IInv'
  <1> DEFINE n == discussion[req[r].disc].responses + 1
             k == [req[r] EXCEPT !.at = "updated", !.total = n]
  <1>1. /\ req[r].at \in Posting /\ req[r].at \in Holding /\ req[r].at \in {"counted", "updated"}
        /\ "updated" \in Posting /\ "updated" \in Place /\ ~DiscussionLocked(r)
    BY DEF UpdateDiscussion, Posting, Holding, Place
  <1>2. n \in Nat
    BY <1>1, PostFacts
  <1>3. req' = [req EXCEPT ![r] = k]
    BY DEF UpdateDiscussion
  <1>4. UNCHANGED <<response, created, discussion, activity, topic, changes, merge>>
    BY DEF UpdateDiscussion
  <1>5. n = discussion[req[r].disc].responses + 1
    OBVIOUS
  <1> HIDE DEF n
  <1>6. /\ k \in Request /\ k.at = "updated" /\ k.user = req[r].user /\ k.disc = req[r].disc
        /\ k.id = req[r].id /\ k.parent = req[r].parent /\ k.moved = req[r].moved
        /\ k.mine = req[r].mine /\ k.participants = req[r].participants /\ k.total = n
    BY <1>1, <1>2, PostFacts DEF Request
  <1>7. /\ k.mine = activity[k.disc][k.user] + 1
        /\ k.participants > 0 /\ k.participants <= Cardinality(With(k.disc, k.user))
    BY <1>1, <1>6, PostFacts
  <1> HIDE DEF k
  <1> QED
    BY <1>1, <1>3, <1>4, <1>5, <1>6, <1>7, AdvanceInv

-----------------------------------------------------------------------------
(* The steps that add a response                                            *)

\* A new row is there next to the others.
LEMMA RowAdded ==
  ASSUME IInv, NEW i \in Ids, i \notin Committed, NEW w \in Response, w.topic # None,
         response' = [response EXCEPT ![i] = w]
  PROVE  /\ response' \in [Ids -> Response]
         /\ Committed' = Committed \cup {i}
         /\ response'[i] = w /\ \A j \in Committed : response'[j] = response[j]
  <1>1. response \in [Ids -> Response]
    BY DEF IInv, Types
  <1>2. response' \in [Ids -> Response] /\ response'[i] = w
        /\ \A j \in Ids \ {i} : response'[j] = response[j]
    BY <1>1
  <1>3. Committed' = Committed \cup {i} /\ \A j \in Committed : response'[j] = response[j]
    BY <1>2 DEF Committed
  <1> QED
    BY <1>2, <1>3

\* A response more is one more to count.
LEMMA OneMore ==
  ASSUME NEW S \in SUBSET Ids, NEW i, i \notin S
  PROVE  Cardinality(S \cup {i}) = Cardinality(S) + 1
  BY IdsFinite, FS_AddElement

\* It is one more of its discussion and of its author there, and the counters that
\* take it along stay exact.
LEMMA RowCounted ==
  ASSUME IInv, NEW i \in Ids, i \notin Committed, NEW w \in Response, w.topic # None,
         response' = [response EXCEPT ![i] = w],
         \A d \in Discussions :
           discussion'[d].responses = discussion[d].responses + (IF w.disc = d THEN 1 ELSE 0),
         \A d \in Discussions, u \in Users :
           activity'[d][u] = activity[d][u] + (IF w.disc = d /\ w.author = u THEN 1 ELSE 0)
  PROVE  CountersExact'
  <1>1. /\ Committed' = Committed \cup {i} /\ Committed \subseteq Ids
        /\ response'[i] = w /\ \A j \in Committed : response'[j] = response[j]
    BY RowAdded DEF Committed
  <1> SUFFICES ASSUME NEW d \in Discussions
               PROVE  /\ discussion'[d].responses = Cardinality(In(d))'
                      /\ \A u \in Users : activity'[d][u] = Cardinality(By(u, d))'
    BY DEF CountersExact
  <1>2. In(d) \in SUBSET Ids /\ i \notin In(d) /\ discussion[d].responses = Cardinality(In(d))
    BY <1>1 DEF In, IInv, CountersExact
  <1>3. In(d)' = IF w.disc = d THEN In(d) \cup {i} ELSE In(d)
    BY <1>1 DEF In
  <1>4. Cardinality(In(d)) \in Nat /\ Cardinality(In(d) \cup {i}) = Cardinality(In(d)) + 1
    BY <1>2, IdsFinite, OneMore
  <1>5. discussion'[d].responses = Cardinality(In(d))'
    <2>1. CASE w.disc = d
      BY <1>2, <1>3, <1>4, <2>1
    <2>2. CASE w.disc # d
      BY <1>2, <1>3, <1>4, <2>2
    <2> QED
      BY <2>1, <2>2
  <1>6. ASSUME NEW u \in Users
        PROVE  activity'[d][u] = Cardinality(By(u, d))'
    <2>1. /\ By(u, d) \in SUBSET Ids /\ i \notin By(u, d)
          /\ activity[d][u] = Cardinality(By(u, d))
      BY <1>2 DEF By, IInv, CountersExact
    <2>2. By(u, d)' = IF w.disc = d /\ w.author = u THEN By(u, d) \cup {i} ELSE By(u, d)
      <3>1. \A j \in In(d) : response'[j] = response[j]
        BY <1>1 DEF In
      <3> QED
        BY <1>1, <1>3, <3>1 DEF By
    <2>3. /\ Cardinality(By(u, d)) \in Nat
          /\ Cardinality(By(u, d) \cup {i}) = Cardinality(By(u, d)) + 1
      BY <2>1, IdsFinite, OneMore
    <2>4. CASE w.disc = d /\ w.author = u
      BY <2>1, <2>2, <2>3, <2>4
    <2>5. CASE ~(w.disc = d /\ w.author = u)
      BY <2>1, <2>2, <2>3, <2>5
    <2> QED
      BY <2>4, <2>5
  <1> QED
    BY <1>5, <1>6

\* The other requests stay right when a row is added that is not theirs.
LEMMA OthersBeside ==
  ASSUME IInv, NEW x \in Requests, req'[x] = req[x], NEW i \in Ids,
         Committed' = Committed \cup {i}, \A j \in Committed : response'[j] = response[j],
         req[x].at \in Posting => req[x].id # i,
         created' \in Nat, created <= created', UNCHANGED merge,
         discussion' \in [Discussions -> [topic : Topics \cup {None}, responses : Nat,
                                         participants : Nat]],
         activity' \in [Discussions -> [Users -> Nat]],
         \A d \in Discussions : discussion[d].topic # None => discussion'[d].topic # None,
         \A d \in Discussions, u \in Users : activity[d][u] > 0 => activity'[d][u] > 0,
         req[x].at = "opening" => discussion'[req[x].disc].topic = discussion[req[x].disc].topic,
         req[x].at \in Holding =>
           activity'[req[x].disc][req[x].user] = activity[req[x].disc][req[x].user],
         req[x].at = "updated" =>
           discussion'[req[x].disc].responses = discussion[req[x].disc].responses
  PROVE  PostOk(x)' /\ OtherOk(x)'
  <1>1. PostOk(x) /\ OtherOk(x) /\ created \in Nat
    BY DEF IInv, RequestsOk, Types
  <1>2. OtherOk(x)'
    BY <1>1 DEF OtherOk
  <1>3. req[x].at \in Posting =>
          /\ req[x].id \in 1 .. created' /\ req[x].id \notin Committed'
          /\ req[x].user \in Users /\ req[x].disc \in Discussions
          /\ discussion'[req[x].disc].topic # None
          /\ req[x].parent < req[x].id
          /\ req[x].parent = 0 \/ ( /\ req[x].parent \in Committed'
                                   /\ response'[req[x].parent].disc = req[x].disc)
    BY <1>1 DEF PostOk
  <1>4. req[x].at \in Holding => req[x].mine = activity'[req[x].disc][req[x].user] + 1
    BY <1>1 DEF PostOk
  <1>5. req[x].at = "updated" => req[x].total = discussion'[req[x].disc].responses + 1
    BY <1>1 DEF PostOk
  <1>6. req[x].at \in {"counted", "updated"} =>
          /\ req[x].participants > 0
          /\ req[x].participants <= Cardinality(With(req[x].disc, req[x].user))'
    <2> SUFFICES ASSUME req[x].at \in {"counted", "updated"}
                 PROVE  /\ req[x].participants > 0
                        /\ req[x].participants <= Cardinality(With(req[x].disc, req[x].user))'
      OBVIOUS
    <2>1. req[x].at \in Posting
      BY DEF Posting
    <2>2. req[x].disc \in Discussions /\ req[x].user \in Users
      BY <1>3, <2>1
    <2> DEFINE S == With(req[x].disc, req[x].user)
               T == With(req[x].disc, req[x].user)'
    <2>3. S \subseteq T /\ T \subseteq Users /\ S \subseteq Users
      BY <2>2 DEF With
    <2>4. req[x].participants > 0 /\ req[x].participants <= Cardinality(S)
      BY <1>1 DEF PostOk
    <2>5. req[x].participants \in Nat
      BY DEF IInv, Types, Request
    <2> HIDE DEF S, T
    <2>6. Cardinality(S) <= Cardinality(T) /\ Cardinality(S) \in Nat /\ Cardinality(T) \in Nat
      BY <2>3, UsersFinite, FS_Subset
    <2>7. req[x].participants <= Cardinality(T)
      BY <2>4, <2>5, <2>6
    <2> QED
      BY <2>4, <2>7 DEF T
  <1>7. PostOk(x)'
    BY <1>3, <1>4, <1>5, <1>6 DEF PostOk
  <1> QED
    BY <1>2, <1>7

\* A step adds response i, which is w.
NewRow(i, w) ==
  /\ i \in Ids /\ i \notin Committed /\ w \in Response /\ w.topic # None
  /\ response' = [response EXCEPT ![i] = w]
  /\ w.disc # None => discussion'[w.disc].topic # None
  /\ w.parent # 0 => /\ w.parent < i /\ w.parent \in Committed
                     /\ w.disc # None => response[w.parent].disc = w.disc
  /\ created' \in 0 .. MaxResponses /\ created <= created' /\ i <= created'
  /\ UNCHANGED <<topic, changes, merge>>

\* The counters take it along.
Counted(w) ==
  /\ discussion' \in [Discussions -> [topic : Topics \cup {None}, responses : Nat,
                                      participants : Nat]]
  /\ activity' \in [Discussions -> [Users -> Nat]]
  /\ \A d \in Discussions :
       /\ discussion[d].topic # None => discussion'[d].topic # None
       /\ discussion'[d].responses = discussion[d].responses + (IF w.disc = d THEN 1 ELSE 0)
  /\ \A d \in Discussions, u \in Users :
       activity'[d][u] = activity[d][u] + (IF w.disc = d /\ w.author = u THEN 1 ELSE 0)

\* The numbers and rows of other requests are not touched.
Undisturbed(r, i) ==
  \A x \in Requests \ {r} :
    /\ req[x].at \in Posting => req[x].id # i
    /\ req[x].at = "opening" =>
         discussion'[req[x].disc].topic = discussion[req[x].disc].topic
    /\ req[x].at \in Holding =>
         activity'[req[x].disc][req[x].user] = activity[req[x].disc][req[x].user]
    /\ req[x].at = "updated" =>
         discussion'[req[x].disc].responses = discussion[req[x].disc].responses

\* So a step that adds a response and leaves its request neither posting nor about
\* to create a discussion keeps the invariant, if the counters take the row along.
LEMMA AddStep ==
  ASSUME IInv, NEW r \in Requests, NEW k \in Request, req' = [req EXCEPT ![r] = k],
         k.at \notin Posting, k.at # "opening", OtherOk(r)', NEW i, NEW w,
         NewRow(i, w), Counted(w), Undisturbed(r, i), ParticipantsBounded'
  PROVE  IInv'
  <1>20. /\ i \in Ids /\ i \notin Committed /\ w \in Response /\ w.topic # None
         /\ response' = [response EXCEPT ![i] = w]
         /\ w.disc # None => discussion'[w.disc].topic # None
         /\ w.parent # 0 => /\ w.parent < i /\ w.parent \in Committed
                            /\ w.disc # None => response[w.parent].disc = w.disc
         /\ created' \in 0 .. MaxResponses /\ created <= created' /\ i <= created'
         /\ UNCHANGED <<topic, changes, merge>>
    BY DEF NewRow
  <1>21. /\ discussion' \in [Discussions -> [topic : Topics \cup {None}, responses : Nat,
                                             participants : Nat]]
         /\ activity' \in [Discussions -> [Users -> Nat]]
    BY DEF Counted
  <1>22. \A d \in Discussions :
           /\ discussion[d].topic # None => discussion'[d].topic # None
           /\ discussion'[d].responses = discussion[d].responses + (IF w.disc = d THEN 1 ELSE 0)
    BY DEF Counted
  <1>23. \A d \in Discussions, u \in Users :
           activity'[d][u] = activity[d][u] + (IF w.disc = d /\ w.author = u THEN 1 ELSE 0)
    BY DEF Counted
  <1>24. \A d \in Discussions, u \in Users : activity[d][u] > 0 => activity'[d][u] > 0
    <2>1. \A d \in Discussions, u \in Users : activity[d][u] \in Nat
      BY DEF IInv, Types
    <2> QED
      BY <1>23, <2>1
  <1>1. req' \in [Requests -> Request] /\ req'[r] = k /\ \A x \in Requests \ {r} : req'[x] = req[x]
    BY DEF IInv, Types
  <1>2. /\ response' \in [Ids -> Response] /\ Committed' = Committed \cup {i}
        /\ response'[i] = w /\ \A j \in Committed : response'[j] = response[j]
    BY <1>20, RowAdded
  <1>3. Types'
    BY <1>1, <1>2, <1>20, <1>21 DEF IInv, Types
  <1>4. ASSUME NEW j \in Committed
        PROVE  /\ j \in Nat /\ j <= created /\ created \in Nat
               /\ response[j].disc \in Discussions \cup {None}
               /\ response[j].disc # None => discussion[response[j].disc].topic # None
    <2>1. j \in Ids /\ j \in Nat
      BY DEF Committed, Ids
    <2>2. response[j] \in Response /\ created \in Nat
      BY <2>1 DEF IInv, Types
    <2>3. j <= created /\ (response[j].disc # None => discussion[response[j].disc].topic # None)
      BY DEF IInv, Rows
    <2> QED
      BY <2>1, <2>2, <2>3 DEF Response
  <1>5. Rows'
    <2> SUFFICES ASSUME NEW j \in Committed'
                 PROVE  /\ j <= created'
                        /\ response'[j].disc # None => discussion'[response'[j].disc].topic # None
      BY DEF Rows
    <2>1. CASE j = i
      BY <1>2, <1>20, <2>1
    <2>2. CASE j \in Committed
      <3>1. /\ j \in Nat /\ j <= created /\ created \in Nat
            /\ response[j].disc \in Discussions \cup {None}
            /\ response[j].disc # None => discussion[response[j].disc].topic # None
        BY <1>4, <2>2
      <3>2. j <= created'
        BY <1>20, <1>22, <3>1
      <3>3. response'[j] = response[j]
        BY <1>2, <2>2
      <3>4. response[j].disc # None => discussion'[response[j].disc].topic # None
        BY <1>20, <1>22, <3>1
      <3> QED
        BY <3>2, <3>3, <3>4
    <2> QED
      BY <1>2, <2>1, <2>2
  <1>6. ThreadsWellFormed'
    <2> SUFFICES ASSUME NEW j \in Committed', response'[j].parent # 0
                 PROVE  /\ response'[j].parent < j /\ response'[j].parent \in Committed'
                        /\ response'[j].disc # None =>
                             response'[response'[j].parent].disc = response'[j].disc
      BY DEF ThreadsWellFormed
    <2>1. CASE j = i
      BY <1>2, <1>20, <2>1
    <2>2. CASE j \in Committed
      <3>1. response'[j] = response[j]
        BY <1>2, <2>2
      <3>2. /\ response[j].parent < j /\ response[j].parent \in Committed
            /\ response[j].disc # None => response[response[j].parent].disc = response[j].disc
        BY <2>2, <3>1 DEF IInv, ThreadsWellFormed
      <3> QED
        BY <1>2, <3>1, <3>2
    <2> QED
      BY <1>2, <2>1, <2>2
  <1>7. \A x \in Requests \ {r} : PostOk(x)' /\ OtherOk(x)'
    <2> SUFFICES ASSUME NEW x \in Requests \ {r} PROVE PostOk(x)' /\ OtherOk(x)'
      OBVIOUS
    <2>1. x \in Requests /\ req'[x] = req[x]
      BY <1>1
    <2>2. /\ req[x].at \in Posting => req[x].id # i
          /\ req[x].at = "opening" =>
               discussion'[req[x].disc].topic = discussion[req[x].disc].topic
          /\ req[x].at \in Holding =>
               activity'[req[x].disc][req[x].user] = activity[req[x].disc][req[x].user]
          /\ req[x].at = "updated" =>
               discussion'[req[x].disc].responses = discussion[req[x].disc].responses
      BY DEF Undisturbed
    <2>3. created' \in Nat /\ created <= created' /\ UNCHANGED merge
      BY <1>20
    <2>4. \A d \in Discussions : discussion[d].topic # None => discussion'[d].topic # None
      BY <1>22
    <2> QED
      BY <1>2, <1>20, <1>21, <1>24, <2>1, <2>2, <2>3, <2>4, OthersBeside
  <1>8. PostOk(r)'
    BY <1>1 DEF PostOk, Posting, Holding
  <1>9. \A x, q \in Requests : x # q => Apart(x, q)'
    <2>1. \A x, q \in Requests \ {r} : x # q => Apart(x, q)'
      BY <1>1 DEF Apart, IInv, RequestsOk
    <2>2. \A q \in Requests \ {r} : Apart(q, r)' /\ Apart(r, q)'
      BY <1>1 DEF Apart, Posting, Holding
    <2> QED
      BY <2>1, <2>2
  <1>10. RequestsOk'
    BY <1>7, <1>8, <1>9 DEF RequestsOk
  <1>11. CountersExact'
    BY <1>20, <1>22, <1>23, RowCounted
  <1> QED
    BY <1>3, <1>5, <1>6, <1>10, <1>11 DEF IInv

LEMMA InsertResponseInv ==
  ASSUME IInv, NEW r \in Requests, InsertResponse(r), UNCHANGED merge PROVE IInv'
  <1> DEFINE t == req[r].topic
             p == req[r].parent
             i == created + 1
             w == NewResponse(t, None, None, p)
             k == [Idle EXCEPT !.at = "increment", !.topic = t]
  <1>1. req[r] \in Request /\ OtherOk(r) /\ req[r].at = "checked"
    BY DEF IInv, Types, RequestsOk, InsertResponse
  <1>2. t \in Topics /\ (p = 0 \/ p \in Committed) /\ p \in 0 .. MaxResponses
    BY <1>1 DEF OtherOk, Request
  <1>3. created \in Nat /\ created < MaxResponses /\ MaxResponses \in Nat
    BY DEF IInv, Types, InsertResponse
  <1>4. i \in Ids /\ i \in 0 .. MaxResponses /\ created <= i /\ i \in Nat
    BY <1>3 DEF Ids
  <1>5. \A j \in Committed : j \in Nat /\ j <= created
    BY DEF IInv, Rows, Committed, Ids
  <1>6. i \notin Committed /\ (p # 0 => p < i /\ p \in Committed)
    BY <1>2, <1>3, <1>5
  <1>7. /\ w \in Response /\ w.topic = t /\ w.disc = None /\ w.author = None /\ w.parent = p
    BY <1>2 DEF NewResponse, Response, ResponseStatus
  <1>8. k \in Request /\ k.at = "increment" /\ k.topic = t /\ k.moved = {}
    BY <1>2, IdleRequest DEF Request, Place
  <1>9. /\ req' = [req EXCEPT ![r] = k] /\ created' = i
        /\ response' = [response EXCEPT ![i] = w]
        /\ UNCHANGED <<discussion, activity, topic, changes, merge>>
    BY DEF InsertResponse
  <1> HIDE DEF t, p, i, w, k
  <1>10. req'[r] = k
    BY <1>9 DEF IInv, Types
  <1>11. OtherOk(r)'
    BY <1>2, <1>8, <1>10 DEF OtherOk, Moving
  <1>12. \A d \in Discussions :
           /\ discussion'[d].responses = discussion[d].responses + (IF w.disc = d THEN 1 ELSE 0)
           /\ \A u \in Users :
                activity'[d][u] = activity[d][u] + (IF w.disc = d /\ w.author = u THEN 1 ELSE 0)
    <2>1. \A d \in Discussions : w.disc # d
      BY <1>7, NoneApart
    <2>2. \A d \in Discussions :
            discussion[d].responses \in Nat /\ \A u \in Users : activity[d][u] \in Nat
      BY DEF IInv, Types
    <2> QED
      BY <1>9, <2>1, <2>2
  <1>13. ParticipantsBounded'
    BY <1>9 DEF IInv, ParticipantsBounded
  <1>14. \A x \in Requests : req[x].at \in Posting => req[x].id # i
    <2>1. \A x \in Requests : req[x].at \in Posting => req[x].id \in 1 .. created
      BY DEF IInv, RequestsOk, PostOk
    <2>2. i \notin 1 .. created
      BY <1>3 DEF i
    <2> QED
      BY <2>1, <2>2
  <1>15. /\ discussion' \in [Discussions -> [topic : Topics \cup {None}, responses : Nat,
                                             participants : Nat]]
         /\ activity' \in [Discussions -> [Users -> Nat]]
    BY <1>9 DEF IInv, Types
  <1>16. w.topic # None
    BY <1>2, <1>7, NoneApart
  <1>17. created' \in 0 .. MaxResponses /\ created <= created' /\ i <= created'
    BY <1>4, <1>9
  <1>18. k.at \notin Posting /\ k.at # "opening"
    BY <1>8 DEF Posting
  <1>19. w.disc # None => discussion'[w.disc].topic # None
    BY <1>7
  <1>20. w.parent # 0 => /\ w.parent < i /\ w.parent \in Committed
                         /\ w.disc # None => response[w.parent].disc = w.disc
    BY <1>6, <1>7
  <1>21. \A d \in Discussions : discussion[d].topic # None => discussion'[d].topic # None
    BY <1>9
  <1>22. \A d \in Discussions, u \in Users : activity[d][u] > 0 => activity'[d][u] > 0
    BY <1>9
  <1>23. \A x \in Requests \ {r} :
           /\ req[x].at \in Posting => req[x].id # i
           /\ req[x].at = "opening" =>
                discussion'[req[x].disc].topic = discussion[req[x].disc].topic
           /\ req[x].at \in Holding =>
                activity'[req[x].disc][req[x].user] = activity[req[x].disc][req[x].user]
           /\ req[x].at = "updated" =>
                discussion'[req[x].disc].responses = discussion[req[x].disc].responses
    BY <1>9, <1>14
  <1>24. NewRow(i, w)
    BY <1>4, <1>6, <1>7, <1>9, <1>16, <1>17, <1>19, <1>20 DEF NewRow
  <1>25. Counted(w)
    BY <1>12, <1>15, <1>21 DEF Counted
  <1>26. Undisturbed(r, i)
    BY <1>23 DEF Undisturbed
  <1> QED
    BY <1>8, <1>9, <1>11, <1>13, <1>18, <1>24, <1>25, <1>26, AddStep

\* A discussion that does not exist has no responses, and nobody has posted in it.
LEMMA NothingYet ==
  ASSUME IInv, NEW d \in Discussions, discussion[d].topic = None
  PROVE  discussion[d].responses = 0 /\ \A u \in Users : activity[d][u] = 0
  <1>1. In(d) = {}
    <2>1. \A j \in Committed : response[j].disc # d
      BY NoneApart DEF IInv, Rows
    <2> QED
      BY <2>1 DEF In
  <1>2. \A u \in Users : By(u, d) = {}
    BY <1>1 DEF By
  <1> QED
    BY <1>1, <1>2, FS_EmptySet DEF IInv, CountersExact

\* A discussion comes with its first response, which is its creator's.
LEMMA CreateDiscussionInv ==
  ASSUME IInv, NEW r \in Requests, CreateDiscussion(r), UNCHANGED merge PROVE IInv'
  <1> DEFINE t == req[r].topic
             d == req[r].disc
             u == req[r].user
             i == created + 1
             w == NewResponse(t, d, u, 0)
  <1>1. /\ req[r] \in Request /\ req[r].at = "opening"
        /\ u \in Users /\ t \in Topics /\ d \in Discussions /\ discussion[d].topic = None
    BY DEF IInv, Types, RequestsOk, OtherOk, CreateDiscussion
  <1>2. created \in Nat /\ created < MaxResponses /\ MaxResponses \in Nat
    BY DEF IInv, Types, CreateDiscussion
  <1>3. i \in Ids /\ i \in 0 .. MaxResponses /\ created <= i /\ i \in Nat
    BY <1>2 DEF Ids
  <1>4. \A j \in Committed : j \in Nat /\ j <= created
    BY DEF IInv, Rows, Committed, Ids
  <1>5. i \notin Committed
    BY <1>2, <1>4
  <1>6. /\ w \in Response /\ w.topic = t /\ w.disc = d /\ w.author = u /\ w.parent = 0
    BY <1>1 DEF NewResponse, Response, ResponseStatus
  <1>7. /\ req' = [req EXCEPT ![r] = Idle] /\ created' = i
        /\ response' = [response EXCEPT ![i] = w]
        /\ discussion' = [discussion EXCEPT ![d] = [topic |-> t, responses |-> 1,
                                                    participants |-> 1]]
        /\ activity' = [activity EXCEPT ![d] = [@ EXCEPT ![u] = 1]]
        /\ UNCHANGED <<topic, changes, merge>>
    BY DEF CreateDiscussion, End
  <1>8. \A x \in Requests : req[x].at \in Posting => req[x].id # i
    <2>1. \A x \in Requests : req[x].at \in Posting => req[x].id \in 1 .. created
      BY DEF IInv, RequestsOk, PostOk
    <2>2. i \notin 1 .. created
      BY <1>2 DEF i
    <2> QED
      BY <2>1, <2>2
  <1> HIDE DEF t, d, u, i, w
  <1>9. discussion[d].responses = 0 /\ \A v \in Users : activity[d][v] = 0
    BY <1>1, NothingYet
  <1>10. /\ discussion \in [Discussions -> [topic : Topics \cup {None}, responses : Nat,
                                           participants : Nat]]
         /\ activity \in [Discussions -> [Users -> Nat]]
    BY DEF IInv, Types
  <1>11. /\ discussion' \in [Discussions -> [topic : Topics \cup {None}, responses : Nat,
                                            participants : Nat]]
         /\ discussion'[d].topic = t /\ discussion'[d].responses = 1
         /\ discussion'[d].participants = 1
         /\ \A e \in Discussions \ {d} : discussion'[e] = discussion[e]
    BY <1>1, <1>7, <1>10
  <1>12. /\ activity' \in [Discussions -> [Users -> Nat]] /\ activity'[d][u] = 1
         /\ \A v \in Users \ {u} : activity'[d][v] = activity[d][v]
         /\ \A e \in Discussions \ {d} : activity'[e] = activity[e]
    BY <1>1, <1>7, <1>10
  <1>13. Counted(w)
    <2>1. \A e \in Discussions :
            /\ discussion[e].topic # None => discussion'[e].topic # None
            /\ discussion'[e].responses = discussion[e].responses + (IF w.disc = e THEN 1 ELSE 0)
      <3> SUFFICES ASSUME NEW e \in Discussions
                   PROVE  /\ discussion[e].topic # None => discussion'[e].topic # None
                          /\ discussion'[e].responses =
                               discussion[e].responses + (IF w.disc = e THEN 1 ELSE 0)
        OBVIOUS
      <3>1. discussion[e].responses \in Nat
        BY <1>10
      <3>2. CASE e = d
        BY <1>1, <1>6, <1>9, <1>11, <3>2
      <3>3. CASE e # d
        BY <1>6, <1>11, <3>1, <3>3
      <3> QED
        BY <3>2, <3>3
    <2>2. \A e \in Discussions, v \in Users :
            activity'[e][v] = activity[e][v] + (IF w.disc = e /\ w.author = v THEN 1 ELSE 0)
      <3> SUFFICES ASSUME NEW e \in Discussions, NEW v \in Users
                   PROVE  activity'[e][v] =
                            activity[e][v] + (IF w.disc = e /\ w.author = v THEN 1 ELSE 0)
        OBVIOUS
      <3>1. activity[e][v] \in Nat
        BY <1>10
      <3>2. CASE e = d /\ v = u
        BY <1>6, <1>9, <1>12, <3>2
      <3>3. CASE e = d /\ v # u
        BY <1>6, <1>12, <3>1, <3>3
      <3>4. CASE e # d
        BY <1>6, <1>12, <3>1, <3>4
      <3> QED
        BY <3>2, <3>3, <3>4
    <2> QED
      BY <1>11, <1>12, <2>1, <2>2 DEF Counted
  <1>14. NewRow(i, w)
    <2>1. created' \in 0 .. MaxResponses /\ created <= created' /\ i <= created'
      BY <1>3, <1>7
    <2>2. w.topic # None /\ discussion'[d].topic # None
      BY <1>1, <1>6, <1>11, NoneApart
    <2> QED
      BY <1>3, <1>5, <1>6, <1>7, <2>1, <2>2 DEF NewRow
  <1>15. Undisturbed(r, i)
    <2> SUFFICES ASSUME NEW x \in Requests \ {r}
                 PROVE  /\ req[x].at \in Posting => req[x].id # i
                        /\ req[x].at = "opening" =>
                             discussion'[req[x].disc].topic = discussion[req[x].disc].topic
                        /\ req[x].at \in Holding =>
                             activity'[req[x].disc][req[x].user] =
                               activity[req[x].disc][req[x].user]
                        /\ req[x].at = "updated" =>
                             discussion'[req[x].disc].responses =
                               discussion[req[x].disc].responses
      BY DEF Undisturbed
    <2>1. req[x].at = "opening" => req[x].disc # d /\ req[x].disc \in Discussions
      BY <1>1 DEF IInv, RequestsOk, OtherOk, Apart, d
    <2>2. req[x].at \in Posting => req[x].disc # d /\ req[x].disc \in Discussions
      BY <1>1 DEF IInv, RequestsOk, PostOk
    <2>3. req[x].at \in Holding \/ req[x].at = "updated" => req[x].at \in Posting
      BY DEF Holding, Posting
    <2> QED
      BY <1>8, <1>11, <1>12, <2>1, <2>2, <2>3
  <1>16. ParticipantsBounded'
    <2> SUFFICES ASSUME NEW e \in Discussions
                 PROVE  /\ discussion'[e].participants <=
                             Cardinality({v \in Users : activity'[e][v] > 0})
                        /\ discussion'[e].topic # None => discussion'[e].participants > 0
      BY DEF ParticipantsBounded
    <2>1. CASE e = d
      <3> DEFINE S == {v \in Users : activity'[d][v] > 0}
      <3>1. S \in SUBSET Users /\ u \in S
        BY <1>1, <1>12
      <3> HIDE DEF S
      <3>2. IsFiniteSet(S) /\ Cardinality(S) \in Nat /\ Cardinality(S) # 0
        BY <3>1, UsersFinite, FS_EmptySet
      <3>3. 1 <= Cardinality(S)
        BY <3>2
      <3> QED
        BY <1>11, <2>1, <3>3 DEF S
    <2>2. CASE e # d
      BY <1>11, <1>12, <2>2 DEF IInv, ParticipantsBounded
    <2> QED
      BY <2>1, <2>2
  <1>17. Idle.at \notin Posting /\ Idle.at # "opening"
    BY DEF Idle, Posting
  <1>18. OtherOk(r)'
    <2>1. req'[r] = Idle
      BY <1>7 DEF IInv, Types
    <2> QED
      BY <2>1 DEF OtherOk, Idle, Moving
  <1> QED
    BY <1>7, <1>13, <1>14, <1>15, <1>16, <1>17, <1>18, IdleRequest, AddStep

\* A post's commit shows its response, and the counters it wrote take it along.
LEMMA CommitInv ==
  ASSUME IInv, NEW r \in Requests, Commit(r), UNCHANGED merge PROVE IInv'
  <1> DEFINE d == req[r].disc
             u == req[r].user
             i == req[r].id
             p == req[r].parent
             t == discussion[d].topic
             w == NewResponse(t, d, u, p)
  <1>1. req[r] \in Request /\ req[r].at = "updated" /\ PostOk(r)
    BY DEF IInv, Types, RequestsOk, Commit
  <1>2. /\ i \in 1 .. created /\ i \notin Committed
        /\ u \in Users /\ d \in Discussions /\ t # None
        /\ p < i /\ (p = 0 \/ (p \in Committed /\ response[p].disc = d))
        /\ req[r].mine = activity[d][u] + 1 /\ req[r].total = discussion[d].responses + 1
        /\ req[r].participants > 0 /\ req[r].participants <= Cardinality(With(d, u))
    BY <1>1 DEF PostOk, Posting, Holding
  <1>3. p \in 0 .. MaxResponses /\ req[r].participants \in Nat
    BY <1>1 DEF Request
  <1>4. created \in 0 .. MaxResponses /\ MaxResponses \in Nat
    BY DEF IInv, Types
  <1>5. i \in Ids /\ i <= created
    BY <1>2, <1>4 DEF Ids
  <1>6. /\ discussion \in [Discussions -> [topic : Topics \cup {None}, responses : Nat,
                                           participants : Nat]]
        /\ activity \in [Discussions -> [Users -> Nat]]
    BY DEF IInv, Types
  <1>7. t \in Topics
    BY <1>2, <1>6
  <1>8. /\ w \in Response /\ w.topic = t /\ w.disc = d /\ w.author = u /\ w.parent = p
    BY <1>2, <1>3, <1>7 DEF NewResponse, Response, ResponseStatus
  <1>9. /\ req' = [req EXCEPT ![r] = Idle] /\ created' = created
        /\ response' = [response EXCEPT ![i] = w]
        /\ discussion' = [discussion EXCEPT ![d] = [topic |-> t, responses |-> req[r].total,
                                                    participants |-> req[r].participants]]
        /\ activity' = [activity EXCEPT ![d] = [@ EXCEPT ![u] = req[r].mine]]
        /\ UNCHANGED <<topic, changes, merge>>
    BY DEF Commit, End
  <1>10. \A x \in Requests \ {r} :
           /\ req[x].at \in Posting => req[x].id # i
           /\ req[x].at \in Holding => req[x].disc # d \/ req[x].user # u
           /\ req[x].at = "updated" => req[x].disc # d
    <2>1. req[r].at \in Posting /\ req[r].at \in Holding
      BY <1>1 DEF Posting, Holding
    <2> QED
      BY <1>1, <2>1 DEF IInv, RequestsOk, Apart
  <1> HIDE DEF d, u, i, p, t, w
  <1>11. discussion[d].responses \in Nat /\ activity[d][u] \in Nat /\ discussion[d].topic = t
    BY <1>2, <1>6 DEF t
  <1>12. /\ discussion' \in [Discussions -> [topic : Topics \cup {None}, responses : Nat,
                                            participants : Nat]]
         /\ discussion'[d].topic = t /\ discussion'[d].responses = discussion[d].responses + 1
         /\ discussion'[d].participants = req[r].participants
         /\ \A e \in Discussions \ {d} : discussion'[e] = discussion[e]
    BY <1>2, <1>3, <1>6, <1>7, <1>9, <1>11
  <1>13. /\ activity' \in [Discussions -> [Users -> Nat]]
         /\ activity'[d][u] = activity[d][u] + 1
         /\ \A v \in Users \ {u} : activity'[d][v] = activity[d][v]
         /\ \A e \in Discussions \ {d} : activity'[e] = activity[e]
    BY <1>2, <1>6, <1>9, <1>11
  <1>14. Counted(w)
    <2>1. \A e \in Discussions :
            /\ discussion[e].topic # None => discussion'[e].topic # None
            /\ discussion'[e].responses = discussion[e].responses + (IF w.disc = e THEN 1 ELSE 0)
      <3> SUFFICES ASSUME NEW e \in Discussions
                   PROVE  /\ discussion[e].topic # None => discussion'[e].topic # None
                          /\ discussion'[e].responses =
                               discussion[e].responses + (IF w.disc = e THEN 1 ELSE 0)
        OBVIOUS
      <3>1. discussion[e].responses \in Nat
        BY <1>6
      <3>2. CASE e = d
        BY <1>2, <1>8, <1>12, <3>2
      <3>3. CASE e # d
        BY <1>8, <1>12, <3>1, <3>3
      <3> QED
        BY <3>2, <3>3
    <2>2. \A e \in Discussions, v \in Users :
            activity'[e][v] = activity[e][v] + (IF w.disc = e /\ w.author = v THEN 1 ELSE 0)
      <3> SUFFICES ASSUME NEW e \in Discussions, NEW v \in Users
                   PROVE  activity'[e][v] =
                            activity[e][v] + (IF w.disc = e /\ w.author = v THEN 1 ELSE 0)
        OBVIOUS
      <3>1. activity[e][v] \in Nat
        BY <1>6
      <3>2. CASE e = d /\ v = u
        BY <1>8, <1>13, <3>2
      <3>3. CASE e = d /\ v # u
        BY <1>8, <1>13, <3>1, <3>3
      <3>4. CASE e # d
        BY <1>8, <1>13, <3>1, <3>4
      <3> QED
        BY <3>2, <3>3, <3>4
    <2> QED
      BY <1>12, <1>13, <2>1, <2>2 DEF Counted
  <1>15. NewRow(i, w)
    <2>1. created' \in 0 .. MaxResponses /\ created <= created' /\ i <= created'
      BY <1>4, <1>5, <1>9
    <2>2. w.topic # None /\ discussion'[d].topic # None
      BY <1>2, <1>8, <1>12
    <2>3. w.parent # 0 => /\ w.parent < i /\ w.parent \in Committed
                          /\ w.disc # None => response[w.parent].disc = w.disc
      BY <1>2, <1>8
    <2> QED
      BY <1>2, <1>5, <1>8, <1>9, <2>1, <2>2, <2>3 DEF NewRow
  <1>16. Undisturbed(r, i)
    <2> SUFFICES ASSUME NEW x \in Requests \ {r}
                 PROVE  /\ req[x].at \in Posting => req[x].id # i
                        /\ req[x].at = "opening" =>
                             discussion'[req[x].disc].topic = discussion[req[x].disc].topic
                        /\ req[x].at \in Holding =>
                             activity'[req[x].disc][req[x].user] =
                               activity[req[x].disc][req[x].user]
                        /\ req[x].at = "updated" =>
                             discussion'[req[x].disc].responses =
                               discussion[req[x].disc].responses
      BY DEF Undisturbed
    <2>1. req[x].at = "opening" => req[x].disc \in Discussions
      BY DEF IInv, RequestsOk, OtherOk
    <2>2. req[x].at \in Posting => req[x].disc \in Discussions /\ req[x].user \in Users
      BY DEF IInv, RequestsOk, PostOk
    <2>3. req[x].at \in Holding \/ req[x].at = "updated" => req[x].at \in Posting
      BY DEF Holding, Posting
    <2>4. \A e \in Discussions : discussion'[e].topic = discussion[e].topic
      BY <1>11, <1>12
    <2>5. \A e \in Discussions, v \in Users :
            e # d \/ v # u => activity'[e][v] = activity[e][v]
      BY <1>13
    <2> QED
      BY <1>10, <1>12, <2>1, <2>2, <2>3, <2>4, <2>5
  <1>17. ParticipantsBounded'
    <2> SUFFICES ASSUME NEW e \in Discussions
                 PROVE  /\ discussion'[e].participants <=
                             Cardinality({v \in Users : activity'[e][v] > 0})
                        /\ discussion'[e].topic # None => discussion'[e].participants > 0
      BY DEF ParticipantsBounded
    <2>1. CASE e = d
      <3>1. \A v \in Users : activity[d][v] \in Nat
        BY <1>2, <1>6
      <3>2. \A v \in Users : activity'[d][v] > 0 <=> (activity[d][v] > 0 \/ v = u)
        BY <1>13, <3>1
      <3>3. {v \in Users : activity'[d][v] > 0} = With(d, u)
        BY <3>2 DEF With
      <3>4. discussion'[d].participants <= Cardinality(With(d, u))
        BY <1>2, <1>12
      <3> QED
        BY <1>2, <1>12, <2>1, <3>3, <3>4
    <2>2. CASE e # d
      BY <1>12, <1>13, <2>2 DEF IInv, ParticipantsBounded
    <2> QED
      BY <2>1, <2>2
  <1>18. Idle.at \notin Posting /\ Idle.at # "opening"
    BY DEF Idle, Posting
  <1>19. OtherOk(r)'
    <2>1. req'[r] = Idle
      BY <1>9 DEF IInv, Types
    <2> QED
      BY <2>1 DEF OtherOk, Idle, Moving
  <1> QED
    BY <1>9, <1>14, <1>15, <1>16, <1>17, <1>18, <1>19, IdleRequest, AddStep

-----------------------------------------------------------------------------
(* The theorems                                                             *)

\* Whatever a request begins with keeps the invariant.
LEMMA StartInv ==
  ASSUME IInv, NEW r \in Requests, Start(r), UNCHANGED merge PROVE IInv'
  <1>1. CASE \E u \in Users, t \in Topics, d \in Discussions : StartDiscussion(r, u, t, d)
    BY <1>1, StartDiscussionInv
  <1>2. CASE \E u \in Users, d \in Discussions, p \in 0 .. MaxResponses : Post(r, u, d, p)
    BY <1>2, PostInv
  <1>3. CASE \E u \in Users, p \in Ids : Reply(r, u, p)
    <2>1. PICK u \in Users, p \in Ids : Reply(r, u, p)
      BY <1>3
    <2>2. response[p] \in Response
      BY DEF IInv, Types
    <2>3. response[p].disc \in Discussions /\ Post(r, u, response[p].disc, p)
      BY <2>1, <2>2 DEF Reply, Response
    <2>4. p \in 0 .. MaxResponses
      BY DEF Ids
    <2> QED
      BY <2>3, <2>4, PostInv
  <1>4. CASE \E t \in Topics, p \in 0 .. MaxResponses : StartResponse(r, t, p)
    BY <1>4, StartResponseInv
  <1>5. CASE \E i \in Ids : StartEdit(r, i)
    BY <1>5, StartEditInv
  <1>6. CASE \E i \in Ids, to \in ResponseStatus : StartModeration(r, i, to)
    BY <1>6, StartModerationInv
  <1> QED
    BY <1>1, <1>2, <1>3, <1>4, <1>5, <1>6 DEF Start

\* So does every statement of a post.
LEMMA PostStepsInv ==
  ASSUME IInv, NEW r \in Requests, PostStep(r), UNCHANGED merge PROVE IInv'
  <1>1. CASE FindActivity(r)
    BY <1>1, FindActivityInv
  <1>2. CASE AddActivity(r)
    BY <1>2, WriteActivityInv DEF AddActivity
  <1>3. CASE CreateActivity(r)
    BY <1>3, CreateActivityInv
  <1>4. CASE CountParticipants(r)
    BY <1>4, CountParticipantsInv
  <1>5. CASE UpdateDiscussion(r)
    BY <1>5, UpdateDiscussionInv
  <1>6. CASE Commit(r)
    BY <1>6, CommitInv
  <1> QED
    BY <1>1, <1>2, <1>3, <1>4, <1>5, <1>6 DEF PostStep

\* And every other statement that writes.
LEMMA WriteInv ==
  ASSUME IInv, NEW r \in Requests, Write(r), UNCHANGED merge PROVE IInv'
  BY CreateDiscussionInv, InsertResponseInv, IncrementTopicInv, WriteStatusInv, WriteEditInv
     DEF Write

\* And whatever changes topics.
LEMMA TopicsInv ==
  ASSUME IInv, NEW r \in Requests, StartChange(r) \/ WriteTopics(r) PROVE IInv'
  <1>1. CASE \E u \in {Creator, Moderator}, t \in Topics, new \in TopicStatus :
               StartStatus(r, u, t, new)
    BY <1>1, StartStatusInv
  <1>2. CASE \E s, t \in Topics : StartMerge(r, s, t)
    BY <1>2, StartMergeInv
  <1>3. CASE \E m \in DOMAIN merge : StartRollback(r, m)
    BY <1>3, StartRollbackInv
  <1>4. CASE WriteTopics(r)
    BY <1>4, WriteTopicStatusInv, MoveInv, UpdateTargetInv, WriteSourceInv, CommitMergeInv,
       CommitRollbackInv, BreakDeadlockInv DEF WriteTopics
  <1> QED
    BY <1>1, <1>2, <1>3, <1>4 DEF StartChange

\* A step in which nothing changes keeps everything.
LEMMA StutterInv == IInv /\ UNCHANGED topicsVars => IInv'
  <1> SUFFICES ASSUME IInv, UNCHANGED topicsVars PROVE IInv'
    OBVIOUS
  <1>1. UNCHANGED <<response, created, discussion, activity, topic, req, changes, merge>>
    BY DEF topicsVars, vars
  <1>2. Committed' = Committed
    BY <1>1 DEF Committed
  <1>3. Types'
    <2>1. /\ response' = response /\ created' = created /\ discussion' = discussion
          /\ activity' = activity /\ topic' = topic /\ req' = req /\ changes' = changes
          /\ merge' = merge
      BY <1>1
    <2>2. /\ response' \in [Ids -> Response] /\ created' \in 0 .. MaxResponses
          /\ activity' \in [Discussions -> [Users -> Nat]]
          /\ changes' \in 0 .. MaxChanges /\ req' \in [Requests -> Request]
      BY <2>1 DEF IInv, Types
    <2>3. /\ discussion' \in [Discussions -> [topic : Topics \cup {None}, responses : Nat,
                                              participants : Nat]]
          /\ topic' \in [Topics -> [status : TopicStatus, responses : Nat]]
          /\ merge' \in Seq(Merge)
      BY <2>1 DEF IInv, Types
    <2> QED
      BY <2>2, <2>3 DEF Types
  <1>6. Rows' /\ ThreadsWellFormed'
    BY <1>1, <1>2 DEF IInv, Rows, ThreadsWellFormed
  <1>7. ParticipantsBounded'
    BY <1>1 DEF IInv, ParticipantsBounded
  <1>4. RequestsOk'
    <2>1. ASSUME NEW r \in Requests
          PROVE  PostOk(r)'
      <3>1. \A d, u : With(d, u)' = With(d, u)
        BY <1>1 DEF With
      <3> QED
        BY <1>1, <1>2, <3>1 DEF IInv, RequestsOk, PostOk
    <2>2. ASSUME NEW r \in Requests
          PROVE  OtherOk(r)'
      BY <1>1, <1>2 DEF IInv, RequestsOk, OtherOk
    <2>3. ASSUME NEW r \in Requests, NEW q \in Requests, r # q
          PROVE  Apart(r, q)'
      BY <1>1, <2>3 DEF IInv, RequestsOk, Apart
    <2> QED
      BY <2>1, <2>2, <2>3 DEF RequestsOk
  <1>5. CountersExact'
    BY <1>1, <1>2 DEF IInv, CountersExact, In, By
  <1> QED
    BY <1>3, <1>4, <1>5, <1>6, <1>7 DEF IInv

\* A step is one of a request, or one of a request that concerns topics.
LEMMA StepInv == IInv /\ [Next]_topicsVars => IInv'
  <1> SUFFICES ASSUME IInv, [Next]_topicsVars PROVE IInv'
    OBVIOUS
  <1>1. CASE DiscussionNext /\ UNCHANGED merge
    BY <1>1, StartInv, PostStepsInv, WriteInv, AbortInv DEF DiscussionNext
  <1>2. CASE \E r \in Requests : StartChange(r) \/ WriteTopics(r)
    BY <1>2, TopicsInv
  <1>3. CASE UNCHANGED topicsVars
    BY <1>3, StutterInv
  <1> QED
    BY <1>1, <1>2, <1>3 DEF Next

\* IInv holds in every reachable state.
THEOREM DiscussionInvariance == Spec => []IInv
  <1>1. TopicsInit => IInv
    BY InitInv
  <1>2. IInv /\ [Next]_topicsVars => IInv'
    BY StepInv
  <1> QED
    BY <1>1, <1>2, PTL DEF Spec

\* The counters kept beside the responses agree with them whatever is posted at the
\* same time, aborts or is lost in a crash.
THEOREM DiscussionCounters == Spec => []CountersExact
  <1>1. IInv => CountersExact
    BY DEF IInv
  <1> QED
    BY <1>1, DiscussionInvariance, PTL

\* participantCount never exceeds the number of authors, and counts the creator.
THEOREM DiscussionParticipants == Spec => []ParticipantsBounded
  <1>1. IInv => ParticipantsBounded
    BY DEF IInv
  <1> QED
    BY <1>1, DiscussionInvariance, PTL

\* A response answers an earlier, committed one of its discussion.
THEOREM DiscussionThreads == Spec => []ThreadsWellFormed
  <1>1. IInv => ThreadsWellFormed
    BY DEF IInv
  <1> QED
    BY <1>1, DiscussionInvariance, PTL

\* The variables have their types.
THEOREM DiscussionTypeCorrect == Spec => []TypeOK
  <1>1. IInv => TypeOK
    <2> SUFFICES ASSUME IInv PROVE TypeOK
      OBVIOUS
    <2>1. \A r \in Requests : req[r] \in Request /\ PostOk(r) /\ OtherOk(r)
      BY DEF IInv, Types, RequestsOk
    <2>2. 1 .. created \subseteq Ids
      BY DEF IInv, Types, Ids
    <2>3. \A r \in Requests :
            /\ req[r].at \in Place
            /\ req[r].at \in Posting => req[r].disc \in Discussions /\ req[r].id \in Ids
            /\ req[r].at \in {"moderate", "edit"} => req[r].id \in Committed
            /\ req[r].moved # {} => req[r].at \in Moving /\ req[r].moved \subseteq Committed
      BY <2>1, <2>2 DEF Request, PostOk, OtherOk
    <2> QED
      BY <2>3 DEF IInv, Types, TypeOK
  <1> QED
    BY <1>1, DiscussionInvariance, PTL

-----------------------------------------------------------------------------
(* Removed responses stay removed                                           *)

\* A request that comes to q does not undo the removal of response i.
Harmless(q, i) ==
  /\ q.at = "moderate" /\ q.id = i => q.to = "REMOVED"
  /\ q.at = "edit" => q.id # i

\* What the step of one request has to show.
LEMMA StaysGone ==
  ASSUME IInv, NEW i \in Committed, Gone(i), NEW r \in Requests, NEW k,
         req' = [req EXCEPT ![r] = k], Harmless(k, i),
         response'[i].status = "REMOVED", response'[i].revision = response[i].revision
  PROVE  Gone(i)' /\ response'[i].revision = response[i].revision
  <1>1. req'[r] = k /\ \A x \in Requests \ {r} : req'[x] = req[x]
    BY DEF IInv, Types
  <1> QED
    BY <1>1 DEF Gone, Harmless

\* A request that has nothing to do with moderation is harmless.
LEMMA OtherPlaces ==
  ASSUME NEW k, NEW i, k.at \notin {"moderate", "edit"} PROVE Harmless(k, i)
  BY DEF Harmless

\* Beginning to change a removed response is refused, but for removing it again.
LEMMA StartGone ==
  ASSUME IInv, NEW i \in Committed, Gone(i), NEW r \in Requests, Start(r)
  PROVE  Gone(i)' /\ response'[i].revision = response[i].revision
  <1>1. response[i].status = "REMOVED"
    BY DEF Gone
  <1>2. ASSUME NEW u \in Users, NEW t \in Topics, NEW d \in Discussions, StartDiscussion(r, u, t, d)
        PROVE  Gone(i)' /\ response'[i].revision = response[i].revision
    <2> DEFINE k == [Idle EXCEPT !.at = "opening", !.user = u, !.topic = t, !.disc = d]
    <2>1. k.at = "opening" /\ req' = [req EXCEPT ![r] = k] /\ response' = response
      BY <1>2 DEF StartDiscussion, Begin, Idle
    <2> HIDE DEF k
    <2> QED
      BY <1>1, <2>1, OtherPlaces, StaysGone
  <1>3. ASSUME NEW u, NEW d, NEW p, Post(r, u, d, p)
        PROVE  Gone(i)' /\ response'[i].revision = response[i].revision
    <2> DEFINE k == [Idle EXCEPT !.at = "inserted", !.user = u, !.disc = d,
                                 !.id = created + 1, !.parent = p]
    <2>1. k.at = "inserted" /\ req' = [req EXCEPT ![r] = k] /\ response' = response
      BY <1>3 DEF Post, Begin, Idle
    <2> HIDE DEF k
    <2> QED
      BY <1>1, <2>1, OtherPlaces, StaysGone
  <1>4. ASSUME NEW t \in Topics, NEW p, StartResponse(r, t, p)
        PROVE  Gone(i)' /\ response'[i].revision = response[i].revision
    <2> DEFINE k == [Idle EXCEPT !.at = "checked", !.topic = t, !.parent = p]
    <2>1. k.at = "checked" /\ req' = [req EXCEPT ![r] = k] /\ response' = response
      BY <1>4 DEF StartResponse, Begin, Idle
    <2> HIDE DEF k
    <2> QED
      BY <1>1, <2>1, OtherPlaces, StaysGone
  <1>5. ASSUME NEW j \in Ids, StartEdit(r, j)
        PROVE  Gone(i)' /\ response'[i].revision = response[i].revision
    <2> DEFINE k == [Idle EXCEPT !.at = "edit", !.id = j]
    <2>1. k.at = "edit" /\ k.id = j /\ req' = [req EXCEPT ![r] = k] /\ response' = response
      BY <1>5 DEF StartEdit, Begin, Idle
    <2>2. j # i
      BY <1>1, <1>5 DEF StartEdit
    <2> HIDE DEF k
    <2>3. Harmless(k, i)
      BY <2>1, <2>2 DEF Harmless
    <2> QED
      BY <1>1, <2>1, <2>3, StaysGone
  <1>6. ASSUME NEW j \in Ids, NEW to \in ResponseStatus, StartModeration(r, j, to)
        PROVE  Gone(i)' /\ response'[i].revision = response[i].revision
    <2> DEFINE k == [Idle EXCEPT !.at = "moderate", !.id = j, !.to = to]
    <2>1. /\ k.at = "moderate" /\ k.id = j /\ k.to = to
          /\ req' = [req EXCEPT ![r] = k] /\ response' = response
      BY <1>6 DEF StartModeration, Begin, Idle
    <2>2. j = i => to = "REMOVED"
      BY <1>1, <1>6 DEF StartModeration, Allowed
    <2> HIDE DEF k
    <2>3. Harmless(k, i)
      BY <2>1, <2>2 DEF Harmless
    <2> QED
      BY <1>1, <2>1, <2>3, StaysGone
  <1>7. ASSUME NEW u \in Users, NEW p \in Ids, Reply(r, u, p)
        PROVE  Gone(i)' /\ response'[i].revision = response[i].revision
    BY <1>3, <1>7 DEF Reply
  <1> QED
    BY <1>2, <1>3, <1>4, <1>5, <1>6, <1>7 DEF Start

\* The statements of a post write no response but a new one.
LEMMA PostGone ==
  ASSUME IInv, NEW i \in Committed, Gone(i), NEW r \in Requests, PostStep(r)
  PROVE  Gone(i)' /\ response'[i].revision = response[i].revision
  <1>1. response[i].status = "REMOVED" /\ i \in Ids
    BY DEF Gone, Committed
  <1>2. CASE Commit(r)
    <2>1. req[r].id # i
      BY <1>2 DEF Commit, IInv, RequestsOk, PostOk, Posting
    <2>2. response'[i] = response[i]
      BY <1>1, <1>2, <2>1 DEF Commit, IInv, Types
    <2>3. req' = [req EXCEPT ![r] = Idle] /\ Idle.at \notin {"moderate", "edit"}
      BY <1>2 DEF Commit, End, Idle
    <2> QED
      BY <1>1, <2>2, <2>3, OtherPlaces, StaysGone
  <1>3. ASSUME FindActivity(r) \/ AddActivity(r) \/ CreateActivity(r)
               \/ CountParticipants(r) \/ UpdateDiscussion(r)
        PROVE  Gone(i)' /\ response'[i].revision = response[i].revision
    <2>1. /\ req'[r].at \notin {"moderate", "edit"} /\ response' = response
          /\ \A x \in Requests \ {r} : req'[x] = req[x]
      <3>1. req \in [Requests -> Request]
        BY DEF IInv, Types
      <3>2. CASE FindActivity(r)
        BY <3>1, <3>2 DEF FindActivity, Request
      <3>3. CASE WriteActivity(r)
        BY <3>1, <3>3 DEF WriteActivity, Request
      <3>4. CASE End(r) /\ UNCHANGED response
        BY <3>1, <3>4 DEF End, Idle
      <3>5. CASE CountParticipants(r)
        BY <3>1, <3>5 DEF CountParticipants, Request
      <3>6. CASE UpdateDiscussion(r)
        BY <3>1, <3>6 DEF UpdateDiscussion, Request
      <3> QED
        BY <1>3, <3>2, <3>3, <3>4, <3>5, <3>6 DEF AddActivity, CreateActivity
    <2> QED
      BY <1>1, <2>1 DEF Gone
  <1> QED
    BY <1>2, <1>3 DEF PostStep

\* The other writes find no request that would undo the removal.
LEMMA WriteGone ==
  ASSUME IInv, NEW i \in Committed, Gone(i), NEW r \in Requests, Write(r) \/ Abort(r)
  PROVE  Gone(i)' /\ response'[i].revision = response[i].revision
  <1>1. response[i].status = "REMOVED" /\ i \in Ids /\ i <= created /\ created \in Nat /\ i \in Nat
    BY DEF Gone, Committed, IInv, Rows, Types, Ids
  <1>2. response \in [Ids -> Response] /\ response[i] \in Response /\ i # created + 1
    BY <1>1 DEF IInv, Types
  <1>3. Idle.at \notin {"moderate", "edit"}
    BY DEF Idle
  <1>4. CASE CreateDiscussion(r)
    BY <1>1, <1>2, <1>3, <1>4, OtherPlaces, StaysGone DEF CreateDiscussion, End
  <1>5. CASE InsertResponse(r)
    <2> DEFINE k == [Idle EXCEPT !.at = "increment", !.topic = req[r].topic]
    <2>1. k.at = "increment" /\ req' = [req EXCEPT ![r] = k] /\ response'[i] = response[i]
      BY <1>1, <1>2, <1>5 DEF InsertResponse, Idle
    <2> HIDE DEF k
    <2> QED
      BY <1>1, <2>1, OtherPlaces, StaysGone
  <1>6. CASE IncrementTopic(r) \/ Abort(r)
    BY <1>1, <1>3, <1>6, OtherPlaces, StaysGone DEF IncrementTopic, Abort, End
  <1>7. CASE WriteStatus(r)
    <2>1. req[r].id = i => req[r].to = "REMOVED"
      BY <1>7 DEF WriteStatus, Gone
    <2>2. /\ response'[i].status = "REMOVED" /\ response'[i].revision = response[i].revision
      BY <1>1, <1>2, <1>7, <2>1 DEF WriteStatus, Response
    <2> QED
      BY <1>3, <1>7, <2>2, OtherPlaces, StaysGone DEF WriteStatus, End
  <1>8. CASE WriteEdit(r)
    <2>1. req[r].id # i
      BY <1>8 DEF WriteEdit, Gone
    <2>2. response'[i] = response[i]
      BY <1>1, <1>2, <1>8, <2>1 DEF WriteEdit
    <2> QED
      BY <1>1, <1>3, <1>8, <2>2, OtherPlaces, StaysGone DEF WriteEdit, End
  <1> QED
    BY <1>4, <1>5, <1>6, <1>7, <1>8 DEF Write

\* Neither does anything that changes topics.
LEMMA TopicsGone ==
  ASSUME IInv, NEW i \in Committed, Gone(i), NEW r \in Requests, StartChange(r) \/ WriteTopics(r)
  PROVE  Gone(i)' /\ response'[i].revision = response[i].revision
  <1>1. response[i].status = "REMOVED" /\ i \in Ids /\ response[i] \in Response
    BY DEF Gone, Committed, IInv, Types
  <1>2. Idle.at \notin {"moderate", "edit"}
    BY DEF Idle
  <1>3. ASSUME NEW u, NEW t \in Topics, NEW new \in TopicStatus, StartStatus(r, u, t, new)
        PROVE  Gone(i)' /\ response'[i].revision = response[i].revision
    <2> DEFINE k == [Idle EXCEPT !.at = "status", !.topic = t, !.to = new]
    <2>1. k.at = "status" /\ req' = [req EXCEPT ![r] = k] /\ response' = response
      BY <1>3 DEF StartStatus, Begin, Idle
    <2> HIDE DEF k
    <2> QED
      BY <1>1, <2>1, OtherPlaces, StaysGone
  <1>4. ASSUME NEW s \in Topics, NEW t \in Topics, StartMerge(r, s, t)
        PROVE  Gone(i)' /\ response'[i].revision = response[i].revision
    <2> DEFINE k == [Idle EXCEPT !.at = "merging", !.source = s, !.topic = t,
                                 !.total = topic[s].responses + topic[t].responses]
    <2>1. k.at = "merging" /\ req' = [req EXCEPT ![r] = k] /\ response' = response
      BY <1>4 DEF StartMerge, Begin, Idle
    <2> HIDE DEF k
    <2> QED
      BY <1>1, <2>1, OtherPlaces, StaysGone
  <1>5. ASSUME NEW m \in DOMAIN merge, StartRollback(r, m)
        PROVE  Gone(i)' /\ response'[i].revision = response[i].revision
    <2> DEFINE k == [Idle EXCEPT !.at = "rolling", !.id = m, !.source = merge[m].source]
    <2>1. k.at = "rolling" /\ req' = [req EXCEPT ![r] = k] /\ response' = response
      BY <1>5 DEF StartRollback, Begin, Idle
    <2> HIDE DEF k
    <2> QED
      BY <1>1, <2>1, OtherPlaces, StaysGone
  <1>6. CASE WriteTopicStatus(r)
    BY <1>1, <1>2, <1>6, OtherPlaces, StaysGone DEF WriteTopicStatus, End
  <1>7. CASE Move(r)
    <2> DEFINE k == [req[r] EXCEPT !.at = IF req[r].at = "merging" THEN "moved" ELSE "rolled",
                                   !.moved = ToMove(req[r])]
    <2>1. req[r] \in Request
      BY DEF IInv, Types
    <2>2. k.at \in {"moved", "rolled"} /\ req' = [req EXCEPT ![r] = k] /\ response' = response
      BY <1>7, <2>1 DEF Move, Request
    <2> HIDE DEF k
    <2> QED
      BY <1>1, <2>2, OtherPlaces, StaysGone
  <1>9. CASE UpdateTarget(r) \/ WriteSource(r)
    <2> DEFINE k == IF req[r].at = "moved"
                    THEN [req[r] EXCEPT !.at = "recorded", !.mergedAt = created]
                    ELSE [req[r] EXCEPT !.at = IF req[r].at = "recorded" THEN "archived"
                                                                         ELSE "restored"]
    <2>1. req[r] \in Request
      BY DEF IInv, Types
    <2>2. k.at \in Moving /\ req' = [req EXCEPT ![r] = k] /\ response' = response
      BY <1>9, <2>1 DEF UpdateTarget, WriteSource, Request, Moving
    <2>3. k.at \notin {"moderate", "edit"}
      BY <2>2 DEF Moving
    <2> HIDE DEF k
    <2> QED
      BY <1>1, <2>2, <2>3, OtherPlaces, StaysGone
  <1>10. CASE BreakDeadlock(r)
    BY <1>1, <1>2, <1>10, OtherPlaces, StaysGone DEF BreakDeadlock, End
  <1>8. CASE CommitMerge(r) \/ CommitRollback(r)
    <2>1. /\ response'[i].status = "REMOVED" /\ response'[i].revision = response[i].revision
      <3>1. \E t, S : MovedTo(t, S)
        BY <1>8 DEF CommitMerge, CommitRollback
      <3>2. PICK t, S : MovedTo(t, S)
        BY <3>1
      <3>3. response'[i] = IF i \in S THEN [response[i] EXCEPT !.topic = t] ELSE response[i]
        BY <1>1, <3>2 DEF MovedTo
      <3> QED
        BY <1>1, <3>3 DEF Response
    <2>2. End(r)
      BY <1>8 DEF CommitMerge, CommitRollback
    <2> QED
      BY <1>2, <2>1, <2>2, OtherPlaces, StaysGone DEF End
  <1> QED
    BY <1>3, <1>4, <1>5, <1>6, <1>7, <1>8, <1>9, <1>10 DEF StartChange, WriteTopics

\* Once a response is removed and nobody is in the middle of changing it, it is
\* neither shown again nor edited.
THEOREM RemovalsLast == Spec => RemovalLasts
  <1>1. IInv /\ [Next]_topicsVars =>
          [\A i \in Committed : Gone(i) =>
                                  Gone(i)' /\ response'[i].revision = response[i].revision]_vars
    <2> SUFFICES ASSUME IInv, [Next]_topicsVars, NEW i \in Committed, Gone(i)
                 PROVE  \/ Gone(i)' /\ response'[i].revision = response[i].revision
                        \/ UNCHANGED vars
      OBVIOUS
    <2>1. CASE DiscussionNext
      BY <2>1, StartGone, PostGone, WriteGone DEF DiscussionNext
    <2>2. CASE \E r \in Requests : StartChange(r) \/ WriteTopics(r)
      BY <2>2, TopicsGone
    <2>3. CASE UNCHANGED topicsVars
      BY <2>3 DEF topicsVars
    <2> QED
      BY <2>1, <2>2, <2>3 DEF Next
  <1> QED
    BY <1>1, DiscussionInvariance, PTL DEF Spec, RemovalLasts

-----------------------------------------------------------------------------
(* Locked topics are closed                                                 *)

TopicPlaces == Moving \cup {"status"}

\* A step of a request that does not concern topics.
Apolitical(r) ==
  /\ req'[r].at \notin TopicPlaces
  /\ \A x \in Requests \ {r} : req'[x] = req[x]
  /\ \A t \in Topics : topic'[t].status = topic[t].status

\* That is so when a request begins with what does not concern topics.
LEMMA StartApolitical ==
  ASSUME IInv, NEW r \in Requests, Start(r) PROVE Apolitical(r)
  <1>1. req \in [Requests -> Request]
    BY DEF IInv, Types
  <1>2. ASSUME NEW k, k.at \notin TopicPlaces, req' = [req EXCEPT ![r] = k], topic' = topic
        PROVE  Apolitical(r)
    BY <1>1, <1>2 DEF Apolitical
  <1>3. ASSUME NEW u \in Users, NEW t \in Topics, NEW d \in Discussions, StartDiscussion(r, u, t, d)
        PROVE  Apolitical(r)
    <2> DEFINE k == [Idle EXCEPT !.at = "opening", !.user = u, !.topic = t, !.disc = d]
    <2>1. k.at \notin TopicPlaces /\ req' = [req EXCEPT ![r] = k] /\ topic' = topic
      BY <1>3 DEF StartDiscussion, Begin, Idle, TopicPlaces, Moving
    <2> HIDE DEF k
    <2> QED
      BY <1>2, <2>1
  <1>4. ASSUME NEW u, NEW d, NEW p, Post(r, u, d, p)
        PROVE  Apolitical(r)
    <2> DEFINE k == [Idle EXCEPT !.at = "inserted", !.user = u, !.disc = d,
                                 !.id = created + 1, !.parent = p]
    <2>1. k.at \notin TopicPlaces /\ req' = [req EXCEPT ![r] = k] /\ topic' = topic
      BY <1>4 DEF Post, Begin, Idle, TopicPlaces, Moving
    <2> HIDE DEF k
    <2> QED
      BY <1>2, <2>1
  <1>5. ASSUME NEW t \in Topics, NEW p, StartResponse(r, t, p)
        PROVE  Apolitical(r)
    <2> DEFINE k == [Idle EXCEPT !.at = "checked", !.topic = t, !.parent = p]
    <2>1. k.at \notin TopicPlaces /\ req' = [req EXCEPT ![r] = k] /\ topic' = topic
      BY <1>5 DEF StartResponse, Begin, Idle, TopicPlaces, Moving
    <2> HIDE DEF k
    <2> QED
      BY <1>2, <2>1
  <1>6. ASSUME NEW j \in Ids, StartEdit(r, j)
        PROVE  Apolitical(r)
    <2> DEFINE k == [Idle EXCEPT !.at = "edit", !.id = j]
    <2>1. k.at \notin TopicPlaces /\ req' = [req EXCEPT ![r] = k] /\ topic' = topic
      BY <1>6 DEF StartEdit, Begin, Idle, TopicPlaces, Moving
    <2> HIDE DEF k
    <2> QED
      BY <1>2, <2>1
  <1>7. ASSUME NEW j \in Ids, NEW to \in ResponseStatus, StartModeration(r, j, to)
        PROVE  Apolitical(r)
    <2> DEFINE k == [Idle EXCEPT !.at = "moderate", !.id = j, !.to = to]
    <2>1. k.at \notin TopicPlaces /\ req' = [req EXCEPT ![r] = k] /\ topic' = topic
      BY <1>7 DEF StartModeration, Begin, Idle, TopicPlaces, Moving
    <2> HIDE DEF k
    <2> QED
      BY <1>2, <2>1
  <1>8. ASSUME NEW u \in Users, NEW p \in Ids, Reply(r, u, p)
        PROVE  Apolitical(r)
    BY <1>4, <1>8 DEF Reply
  <1> QED
    BY <1>3, <1>4, <1>5, <1>6, <1>7, <1>8 DEF Start

\* And when it goes on with it.
LEMMA WriteApolitical ==
  ASSUME IInv, NEW r \in Requests, PostStep(r) \/ Write(r) \/ Abort(r) PROVE Apolitical(r)
  <1>1. req \in [Requests -> Request] /\ topic \in [Topics -> [status : TopicStatus, responses : Nat]]
    BY DEF IInv, Types
  <1>2. CASE End(r) /\ UNCHANGED topic
    BY <1>1, <1>2 DEF End, Idle, Apolitical, TopicPlaces, Moving
  <1>3. CASE FindActivity(r)
    BY <1>1, <1>3 DEF FindActivity, Request, Apolitical, TopicPlaces, Moving
  <1>4. CASE WriteActivity(r)
    BY <1>1, <1>4 DEF WriteActivity, Request, Apolitical, TopicPlaces, Moving
  <1>5. CASE CountParticipants(r)
    BY <1>1, <1>5 DEF CountParticipants, Request, Apolitical, TopicPlaces, Moving
  <1>6. CASE UpdateDiscussion(r)
    BY <1>1, <1>6 DEF UpdateDiscussion, Request, Apolitical, TopicPlaces, Moving
  <1>7. CASE InsertResponse(r)
    BY <1>1, <1>7 DEF InsertResponse, Idle, Apolitical, TopicPlaces, Moving
  <1>8. CASE IncrementTopic(r)
    <2>1. \A t \in Topics : topic'[t].status = topic[t].status
      BY <1>1, <1>8 DEF IncrementTopic
    <2> QED
      BY <1>1, <1>8, <2>1 DEF IncrementTopic, End, Idle, Apolitical, TopicPlaces, Moving
  <1>9. CASE Commit(r) \/ CreateDiscussion(r) \/ WriteStatus(r) \/ WriteEdit(r) \/ Abort(r)
    BY <1>2, <1>9 DEF Commit, CreateDiscussion, WriteStatus, WriteEdit, Abort
  <1> QED
    BY <1>2, <1>3, <1>4, <1>5, <1>6, <1>7, <1>8, <1>9
       DEF PostStep, Write, AddActivity, CreateActivity

\* What a request that concerns topics comes to.
LEMMA TopicRequest ==
  ASSUME IInv, NEW r \in Requests, StartChange(r) \/ WriteTopics(r)
  PROVE  /\ \A x \in Requests \ {r} : req'[x] = req[x]
         /\ \/ (\E u \in {Creator, Moderator}, t \in Topics, new \in TopicStatus :
                   StartStatus(r, u, t, new)) /\ req'[r].at = "status"
            \/ (\E s, t \in Topics : StartMerge(r, s, t)) /\ req'[r].at = "merging"
            \/ \E m \in DOMAIN merge :
                 /\ StartRollback(r, m)
                 /\ req'[r].at = "rolling" /\ req'[r].id = m /\ req'[r].source = merge[m].source
                 /\ req'[r].moved = {}
            \/ Move(r) /\ req'[r].at \in {"moved", "rolled"}
            \/ UpdateTarget(r) /\ req'[r].at = "recorded"
            \/ WriteSource(r) /\ req'[r].at \in {"archived", "restored"}
            \/ /\ WriteTopicStatus(r) \/ CommitMerge(r) \/ CommitRollback(r) \/ BreakDeadlock(r)
               /\ req'[r].at = "idle"
  <1>1. req \in [Requests -> Request] /\ req[r] \in Request
    BY DEF IInv, Types
  <1>2. ASSUME NEW u, NEW t, NEW new, StartStatus(r, u, t, new)
        PROVE  /\ \A x \in Requests \ {r} : req'[x] = req[x]
               /\ req'[r].at = "status"
    BY <1>1, <1>2 DEF StartStatus, Begin, Idle
  <1>3. ASSUME NEW s, NEW t, StartMerge(r, s, t)
        PROVE  /\ \A x \in Requests \ {r} : req'[x] = req[x]
               /\ req'[r].at = "merging"
    BY <1>1, <1>3 DEF StartMerge, Begin, Idle
  <1>4. ASSUME NEW m, StartRollback(r, m)
        PROVE  /\ \A x \in Requests \ {r} : req'[x] = req[x]
               /\ req'[r].at = "rolling" /\ req'[r].id = m /\ req'[r].source = merge[m].source
               /\ req'[r].moved = {}
    BY <1>1, <1>4 DEF StartRollback, Begin, Idle
  <1>5. ASSUME Move(r)
        PROVE  /\ \A x \in Requests \ {r} : req'[x] = req[x]
               /\ req'[r].at \in {"moved", "rolled"}
    BY <1>1, <1>5 DEF Move, Request
  <1>10. ASSUME UpdateTarget(r)
        PROVE  /\ \A x \in Requests \ {r} : req'[x] = req[x]
               /\ req'[r].at = "recorded"
    BY <1>1, <1>10 DEF UpdateTarget, Request
  <1>11. ASSUME WriteSource(r)
        PROVE  /\ \A x \in Requests \ {r} : req'[x] = req[x]
               /\ req'[r].at \in {"archived", "restored"}
    BY <1>1, <1>11 DEF WriteSource, Request
  <1>6. ASSUME WriteTopicStatus(r) \/ CommitMerge(r) \/ CommitRollback(r) \/ BreakDeadlock(r)
        PROVE  /\ \A x \in Requests \ {r} : req'[x] = req[x]
               /\ req'[r].at = "idle"
    <2>1. End(r)
      BY <1>6 DEF WriteTopicStatus, CommitMerge, CommitRollback, BreakDeadlock
    <2> QED
      BY <1>1, <2>1 DEF End, Idle
  <1>7. CASE \E u \in {Creator, Moderator}, t \in Topics, new \in TopicStatus :
               StartStatus(r, u, t, new)
    BY <1>2, <1>7
  <1>8. CASE \E s, t \in Topics : StartMerge(r, s, t)
    BY <1>3, <1>8
  <1>9. CASE \E m \in DOMAIN merge : StartRollback(r, m)
    BY <1>4, <1>9
  <1> QED
    BY <1>5, <1>6, <1>7, <1>8, <1>9, <1>10, <1>11 DEF StartChange, WriteTopics

\* A step that opens nothing in a topic and leaves its status keeps it closed.
LEMMA StaysClosed ==
  ASSUME NEW t \in Topics, Closed(t), NEW r \in Requests,
         \A x \in Requests \ {r} : req'[x] = req[x],
         req'[r].at = "opening" => req'[r].topic # t,
         topic'[t].status = topic[t].status
  PROVE  Closed(t)'
  BY DEF Closed

\* A request to open a discussion in a closed topic is refused.
LEMMA StartClosed ==
  ASSUME IInv, NEW r \in Requests, Start(r), NEW t \in Topics, Closed(t)
  PROVE  /\ req'[r].at = "opening" => req'[r].topic # t
         /\ discussion' = discussion
  <1>1. req \in [Requests -> Request]
    BY DEF IInv, Types
  <1>3. ASSUME NEW u \in Users, NEW s \in Topics, NEW d \in Discussions, StartDiscussion(r, u, s, d)
        PROVE  req'[r].topic # t /\ discussion' = discussion
    <2> DEFINE k == [Idle EXCEPT !.at = "opening", !.user = u, !.topic = s, !.disc = d]
    <2>1. k.topic = s /\ req' = [req EXCEPT ![r] = k]
      BY <1>3 DEF StartDiscussion, Begin, Idle
    <2>2. s # t /\ discussion' = discussion
      BY <1>3 DEF StartDiscussion, OpenTo, Closed
    <2> HIDE DEF k
    <2> QED
      BY <1>1, <2>1, <2>2
  <1>4. ASSUME NEW u, NEW d, NEW p, Post(r, u, d, p)
        PROVE  req'[r].at # "opening" /\ discussion' = discussion
    BY <1>1, <1>4 DEF Post, Begin, Idle
  <1>5. ASSUME NEW s \in Topics, NEW p, StartResponse(r, s, p)
        PROVE  req'[r].at # "opening" /\ discussion' = discussion
    BY <1>1, <1>5 DEF StartResponse, Begin, Idle
  <1>6. ASSUME NEW j \in Ids, StartEdit(r, j)
        PROVE  req'[r].at # "opening" /\ discussion' = discussion
    BY <1>1, <1>6 DEF StartEdit, Begin, Idle
  <1>7. ASSUME NEW j \in Ids, NEW to \in ResponseStatus, StartModeration(r, j, to)
        PROVE  req'[r].at # "opening" /\ discussion' = discussion
    BY <1>1, <1>7 DEF StartModeration, Begin, Idle
  <1>8. ASSUME NEW u \in Users, NEW p \in Ids, Reply(r, u, p)
        PROVE  req'[r].at # "opening" /\ discussion' = discussion
    BY <1>4, <1>8 DEF Reply
  <1> QED
    BY <1>3, <1>4, <1>5, <1>6, <1>7, <1>8 DEF Start

\* The requests under way open no discussion in it.
LEMMA WriteClosed ==
  ASSUME IInv, NEW r \in Requests, PostStep(r) \/ Write(r) \/ Abort(r), NEW t \in Topics, Closed(t)
  PROVE  /\ req'[r].at # "opening"
         /\ \A d \in Discussions : discussion'[d].topic = t => discussion[d].topic = t
  <1>1. req \in [Requests -> Request] /\ discussion \in [Discussions ->
          [topic : Topics \cup {None}, responses : Nat, participants : Nat]]
    BY DEF IInv, Types
  <1>2. CASE End(r) /\ UNCHANGED discussion
    BY <1>1, <1>2 DEF End, Idle
  <1>3. CASE FindActivity(r)
    BY <1>1, <1>3 DEF FindActivity, Request
  <1>4. CASE WriteActivity(r)
    BY <1>1, <1>4 DEF WriteActivity, Request
  <1>5. CASE CountParticipants(r)
    BY <1>1, <1>5 DEF CountParticipants, Request
  <1>6. CASE UpdateDiscussion(r)
    BY <1>1, <1>6 DEF UpdateDiscussion, Request
  <1>7. CASE InsertResponse(r)
    BY <1>1, <1>7 DEF InsertResponse, Idle
  <1>8. CASE Commit(r)
    <2>1. req'[r].at # "opening"
      BY <1>1, <1>8 DEF Commit, End, Idle
    <2>2. \A d \in Discussions : discussion'[d].topic = discussion[d].topic
      BY <1>1, <1>8 DEF Commit
    <2> QED
      BY <2>1, <2>2
  <1>9. CASE CreateDiscussion(r)
    <2>1. req'[r].at # "opening" /\ req[r].topic # t
      BY <1>1, <1>9 DEF CreateDiscussion, End, Idle, Closed
    <2>2. \A d \in Discussions :
            discussion'[d].topic = IF d = req[r].disc THEN req[r].topic ELSE discussion[d].topic
      BY <1>1, <1>9 DEF CreateDiscussion
    <2> QED
      BY <2>1, <2>2
  <1>10. CASE WriteStatus(r) \/ WriteEdit(r) \/ IncrementTopic(r) \/ Abort(r)
    BY <1>2, <1>10 DEF WriteStatus, WriteEdit, IncrementTopic, Abort
  <1> QED
    BY <1>2, <1>3, <1>4, <1>5, <1>6, <1>7, <1>8, <1>9, <1>10
       DEF PostStep, Write, AddActivity, CreateActivity

\* A request that concerns topics leaves a closed topic closed, or ends with a write
\* to it.
LEMMA TopicsClosed ==
  ASSUME IInv, NEW r \in Requests, StartChange(r) \/ WriteTopics(r), NEW t \in Topics, Closed(t)
  PROVE  /\ discussion' = discussion
         /\ \/ Closed(t)'
            \/ /\ t \in {req[r].topic, req[r].source}
               /\ req[r].at \in {"status", "archived", "restored"} /\ req'[r].at = "idle"
  <1>0. req \in [Requests -> Request]
    BY DEF IInv, Types
  <1>1. topic \in [Topics -> [status : TopicStatus, responses : Nat]]
    BY DEF IInv, Types
  <1>2. discussion' = discussion
    BY DEF StartChange, StartStatus, StartMerge, StartRollback, WriteTopics, WriteTopicStatus,
           Move, UpdateTarget, WriteSource, CommitMerge, CommitRollback, BreakDeadlock
  <1>3. \A x \in Requests \ {r} : req'[x] = req[x]
    BY TopicRequest
  <1>4. req'[r].at # "opening"
    BY TopicRequest
  <1>5. ASSUME topic'[t].status = topic[t].status
        PROVE  Closed(t)'
    BY <1>3, <1>4, <1>5, StaysClosed
  <1>6. CASE UNCHANGED topic
    BY <1>2, <1>5, <1>6
  <1>7. CASE WriteTopicStatus(r)
    <2>1. req[r].at = "status" /\ req'[r].at = "idle"
      BY <1>0, <1>7 DEF WriteTopicStatus, End, Idle
    <2>2. req[r].topic # t => topic'[t] = topic[t]
      BY <1>1, <1>7 DEF WriteTopicStatus
    <2> QED
      BY <1>2, <1>5, <2>1, <2>2
  <1>8. CASE CommitMerge(r) \/ CommitRollback(r)
    <2>1. req[r].at \in {"archived", "restored"} /\ req'[r].at = "idle"
      BY <1>0, <1>8 DEF CommitMerge, CommitRollback, End, Idle
    <2>2. req[r].source # t => topic'[t].status = topic[t].status
      <3>1. CASE CommitMerge(r)
        <4>1. /\ req[r].topic = t /\ req[r].source # t =>
                    topic'[t] = [topic[t] EXCEPT !.responses = req[r].total]
              /\ req[r].topic # t /\ req[r].source # t => topic'[t] = topic[t]
          BY <1>1, <3>1 DEF CommitMerge
        <4> QED
          BY <1>1, <4>1
      <3>2. CASE CommitRollback(r)
        BY <1>1, <3>2 DEF CommitRollback
      <3> QED
        BY <1>8, <3>1, <3>2
    <2> QED
      BY <1>2, <1>5, <2>1, <2>2
  <1>9. UNCHANGED topic \/ WriteTopicStatus(r) \/ CommitMerge(r) \/ CommitRollback(r)
    BY DEF StartChange, StartStatus, StartMerge, StartRollback, WriteTopics, Move, UpdateTarget,
           WriteSource, BreakDeadlock
  <1> QED
    BY <1>6, <1>7, <1>8, <1>9

\* A locked topic takes no discussion but those of requests that had read it before,
\* until a request that changes it ends.
THEOREM LockedTopicsAreClosed == Spec => LockedIsClosed
  <1>1. IInv /\ [Next]_topicsVars =>
          [\A t \in Topics : Closed(t) =>
             /\ \A d \in Discussions : discussion'[d].topic = t => discussion[d].topic = t
             /\ \/ Closed(t)'
                \/ \E r \in Requests : /\ t \in {req[r].topic, req[r].source}
                                       /\ req[r].at \in {"status", "archived", "restored"}
                                       /\ req'[r].at = "idle"]_topicsVars
    <2> SUFFICES ASSUME IInv, Next, NEW t \in Topics, Closed(t)
                 PROVE  /\ \A d \in Discussions : discussion'[d].topic = t => discussion[d].topic = t
                        /\ \/ Closed(t)'
                           \/ \E r \in Requests : /\ t \in {req[r].topic, req[r].source}
                                                  /\ req[r].at \in {"status", "archived", "restored"}
                                                  /\ req'[r].at = "idle"
      OBVIOUS
    <2>1. CASE DiscussionNext
      <3>1. PICK r \in Requests : Start(r) \/ PostStep(r) \/ Write(r) \/ Abort(r)
        BY <2>1 DEF DiscussionNext
      <3>2. /\ \A x \in Requests \ {r} : req'[x] = req[x]
            /\ topic'[t].status = topic[t].status
        BY <3>1, StartApolitical, WriteApolitical DEF Apolitical
      <3>3. /\ req'[r].at = "opening" => req'[r].topic # t
            /\ \A d \in Discussions : discussion'[d].topic = t => discussion[d].topic = t
        BY <3>1, StartClosed, WriteClosed
      <3> QED
        BY <3>2, <3>3, StaysClosed
    <2>2. CASE \E r \in Requests : StartChange(r) \/ WriteTopics(r)
      BY <2>2, TopicsClosed
    <2> QED
      BY <2>1, <2>2 DEF Next
  <1> QED
    BY <1>1, DiscussionInvariance, PTL DEF Spec, LockedIsClosed

-----------------------------------------------------------------------------
(* Merges explain where responses are                                       *)

\* A rollback has the source of its merge, and what it has found came after mergedAt.
RollbacksLater ==
  \A r \in Requests : req[r].at \in {"rolling", "rolled", "restored"} =>
    /\ req[r].source = merge[req[r].id].source
    /\ \A i \in req[r].moved : i > merge[req[r].id].at

\* A response that is there stays where it is, and a new one is where it was posted.
StillThere(i) ==
  \/ response'[i].topic = response'[i].origin
  \/ i \in Committed /\ response'[i].topic = response[i].topic
                    /\ response'[i].origin = response[i].origin

\* Nothing but merges and their rollbacks moves a response.
LEMMA RowsStill ==
  ASSUME IInv, NEW r \in Requests, Start(r) \/ PostStep(r) \/ Write(r) \/ Abort(r),
         NEW i \in Committed'
  PROVE  StillThere(i)
  <1>1. response \in [Ids -> Response] /\ i \in Ids
    BY DEF IInv, Types, Committed
  <1>2. ASSUME response' = response
        PROVE  StillThere(i)
    BY <1>2 DEF StillThere, Committed
  <1>3. ASSUME NEW j, NEW t, NEW d, NEW u, NEW p,
               response' = [response EXCEPT ![j] = NewResponse(t, d, u, p)]
        PROVE  StillThere(i)
    <2>1. CASE i = j
      BY <1>1, <1>3, <2>1 DEF StillThere, NewResponse
    <2>2. CASE i # j
      <3>1. response'[i] = response[i]
        BY <1>1, <1>3, <2>2
      <3> QED
        BY <3>1 DEF StillThere, Committed
    <2> QED
      BY <2>1, <2>2
  <1>4. CASE Start(r)
    <2>1. \A u, t, d : StartDiscussion(r, u, t, d) => response' = response
      BY DEF StartDiscussion
    <2>2. \A u, d, p : Post(r, u, d, p) => response' = response
      BY DEF Post
    <2>3. \A u, p : Reply(r, u, p) => response' = response
      BY <2>2 DEF Reply
    <2>4. \A t, p : StartResponse(r, t, p) => response' = response
      BY DEF StartResponse
    <2>5. \A j, to : StartEdit(r, j) \/ StartModeration(r, j, to) => response' = response
      BY DEF StartEdit, StartModeration
    <2> QED
      BY <1>2, <1>4, <2>1, <2>2, <2>3, <2>4, <2>5 DEF Start
  <1>5. CASE Commit(r) \/ CreateDiscussion(r) \/ InsertResponse(r)
    <2> DEFINE q == req[r]
    <2>1. CASE Commit(r)
      <3>1. response' = [response EXCEPT ![q.id] =
                           NewResponse(discussion[q.disc].topic, q.disc, q.user, q.parent)]
        BY <2>1 DEF Commit
      <3> QED
        BY <1>3, <3>1
    <2>2. CASE CreateDiscussion(r)
      <3>1. response' = [response EXCEPT ![created + 1] =
                           NewResponse(q.topic, q.disc, q.user, 0)]
        BY <2>2 DEF CreateDiscussion
      <3> QED
        BY <1>3, <3>1
    <2>3. CASE InsertResponse(r)
      <3>1. response' = [response EXCEPT ![created + 1] =
                           NewResponse(q.topic, None, None, q.parent)]
        BY <2>3 DEF InsertResponse
      <3> QED
        BY <1>3, <3>1
    <2> QED
      BY <1>5, <2>1, <2>2, <2>3
  <1>6. CASE WriteStatus(r) \/ WriteEdit(r)
    <2>1. response'[i].topic = response[i].topic /\ response'[i].origin = response[i].origin
      BY <1>1, <1>6 DEF WriteStatus, WriteEdit, Response
    <2> QED
      BY <2>1 DEF StillThere, Committed
  <1>7. CASE \/ FindActivity(r) \/ AddActivity(r) \/ CreateActivity(r) \/ CountParticipants(r)
             \/ UpdateDiscussion(r) \/ IncrementTopic(r) \/ Abort(r)
    BY <1>2, <1>7 DEF FindActivity, AddActivity, CreateActivity, WriteActivity,
       CountParticipants, UpdateDiscussion, IncrementTopic, Abort
  <1> QED
    BY <1>4, <1>5, <1>6, <1>7 DEF PostStep, Write

\* So do the steps about topics that end no merge and no rollback.
LEMMA TopicsStill ==
  ASSUME IInv, NEW r \in Requests,
         \/ StartChange(r) \/ WriteTopicStatus(r) \/ Move(r) \/ UpdateTarget(r)
         \/ WriteSource(r) \/ BreakDeadlock(r)
  PROVE  UNCHANGED <<response, merge>>
  BY DEF StartChange, StartStatus, StartMerge, StartRollback, WriteTopicStatus, Move,
         UpdateTarget, WriteSource, BreakDeadlock

\* What explained where responses are explains it as long as merges stay.
LEMMA StillExplained ==
  ASSUME MovesExplained, UNCHANGED merge, \A i \in Committed' : StillThere(i)
  PROVE  MovesExplained'
  <1> SUFFICES ASSUME NEW i \in Committed', response'[i].topic # response'[i].origin
               PROVE  \E m \in DOMAIN merge' :
                        \/ response'[i].topic = merge'[m].target /\ i <= merge'[m].at
                        \/ response'[i].topic = merge'[m].source /\ i > merge'[m].at
                                                                 /\ merge'[m].rolledBack
    BY DEF MovesExplained
  <1> QED
    BY DEF MovesExplained, StillThere

\* A merge's record explains what it moves.
LEMMA MergeExplained ==
  ASSUME IInv, MovesExplained, NEW r \in Requests, CommitMerge(r) PROVE MovesExplained'
  <1> DEFINE S == req[r].moved
             n == Len(merge) + 1
             x == [source |-> req[r].source, target |-> req[r].topic, at |-> req[r].mergedAt,
                   rolledBack |-> FALSE]
  <1>1. /\ response \in [Ids -> Response] /\ merge \in Seq(Merge) /\ S \subseteq Committed
        /\ x \in Merge /\ \A i \in S : i <= req[r].mergedAt
    BY DEF IInv, Types, Request, RequestsOk, OtherOk, CommitMerge, Merge, Moving
  <1>2. /\ merge' = Append(merge, x)
        /\ response' = [i \in Ids |-> IF i \in S THEN [response[i] EXCEPT !.topic = req[r].topic]
                                      ELSE response[i]]
    BY DEF CommitMerge, MovedTo
  <1>3. x.target = req[r].topic /\ x.at = req[r].mergedAt
    OBVIOUS
  <1> HIDE DEF S, x
  <1>4. /\ DOMAIN merge' = DOMAIN merge \cup {n} /\ merge'[n] = x
        /\ \A m \in DOMAIN merge : merge'[m] = merge[m]
    BY <1>1, <1>2
  <1> SUFFICES ASSUME NEW i \in Committed', response'[i].topic # response'[i].origin
               PROVE  \E m \in DOMAIN merge' :
                        \/ response'[i].topic = merge'[m].target /\ i <= merge'[m].at
                        \/ response'[i].topic = merge'[m].source /\ i > merge'[m].at
                                                                 /\ merge'[m].rolledBack
    BY DEF MovesExplained
  <1>5. i \in Ids
    BY DEF Committed
  <1>6. CASE i \in S
    <2>1. response'[i].topic = req[r].topic
      BY <1>1, <1>2, <1>5, <1>6 DEF Response
    <2>2. i <= req[r].mergedAt
      BY <1>1, <1>6
    <2> QED
      BY <1>3, <1>4, <2>1, <2>2
  <1>7. CASE i \notin S
    <2>1. response'[i] = response[i]
      BY <1>2, <1>5, <1>7
    <2>2. PICK m \in DOMAIN merge :
            \/ response[i].topic = merge[m].target /\ i <= merge[m].at
            \/ response[i].topic = merge[m].source /\ i > merge[m].at /\ merge[m].rolledBack
      BY <2>1 DEF MovesExplained, Committed
    <2> QED
      BY <1>4, <2>1, <2>2
  <1> QED
    BY <1>6, <1>7

\* And once it is rolled back, what the rollback moves.
LEMMA RollbackExplained ==
  ASSUME IInv, MovesExplained, RollbacksLater, NEW r \in Requests, CommitRollback(r)
  PROVE  MovesExplained'
  <1> DEFINE S == req[r].moved
             n == req[r].id
             x == [merge[n] EXCEPT !.rolledBack = TRUE]
  <1>1. /\ response \in [Ids -> Response] /\ merge \in Seq(Merge) /\ n \in DOMAIN merge
        /\ \A i \in S : i > merge[n].at
        /\ req[r].source = merge[n].source
    BY DEF IInv, Types, RequestsOk, OtherOk, RollbacksLater, CommitRollback
  <1>2. /\ merge' = [merge EXCEPT ![n] = x]
        /\ response' = [i \in Ids |-> IF i \in S THEN [response[i] EXCEPT !.topic = merge[n].source]
                                      ELSE response[i]]
    BY <1>1 DEF CommitRollback, MovedTo
  <1>3. merge[n] \in Merge
    BY <1>1
  <1>4. x.source = merge[n].source /\ x.target = merge[n].target /\ x.at = merge[n].at /\ x.rolledBack
    BY <1>3 DEF Merge
  <1> HIDE DEF S, x, n
  <1>5. /\ DOMAIN merge' = DOMAIN merge /\ merge'[n] = x
        /\ \A m \in DOMAIN merge : m # n => merge'[m] = merge[m]
    BY <1>1, <1>2
  <1> SUFFICES ASSUME NEW i \in Committed', response'[i].topic # response'[i].origin
               PROVE  \E m \in DOMAIN merge' :
                        \/ response'[i].topic = merge'[m].target /\ i <= merge'[m].at
                        \/ response'[i].topic = merge'[m].source /\ i > merge'[m].at
                                                                 /\ merge'[m].rolledBack
    BY DEF MovesExplained
  <1>6. i \in Ids
    BY DEF Committed
  <1>7. CASE i \in S
    <2>1. response'[i].topic = merge[n].source
      BY <1>1, <1>2, <1>6, <1>7 DEF Response
    <2> QED
      BY <1>1, <1>4, <1>5, <1>7, <2>1
  <1>8. CASE i \notin S
    <2>1. response'[i] = response[i]
      BY <1>2, <1>6, <1>8
    <2>2. PICK m \in DOMAIN merge :
            \/ response[i].topic = merge[m].target /\ i <= merge[m].at
            \/ response[i].topic = merge[m].source /\ i > merge[m].at /\ merge[m].rolledBack
      BY <2>1 DEF MovesExplained, Committed
    <2> QED
      BY <1>4, <1>5, <2>1, <2>2
  <1> QED
    BY <1>7, <1>8

\* A merge's record stays, but for its being rolled back.
LEMMA MergesKept ==
  ASSUME IInv, NEW r \in Requests, CommitMerge(r) \/ CommitRollback(r)
  PROVE  \A m \in DOMAIN merge : merge'[m].at = merge[m].at /\ merge'[m].source = merge[m].source
  <1>1. merge \in Seq(Merge)
    BY DEF IInv, Types
  <1>2. CASE CommitMerge(r)
    <2>1. PICK x : merge' = Append(merge, x)
      BY <1>2 DEF CommitMerge
    <2> QED
      BY <1>1, <2>1
  <1>3. CASE CommitRollback(r)
    <2> DEFINE n == req[r].id
               x == [merge[n] EXCEPT !.rolledBack = TRUE]
    <2>1. n \in DOMAIN merge
      BY <1>3 DEF CommitRollback, IInv, RequestsOk, OtherOk
    <2>2. merge' = [merge EXCEPT ![n] = x]
      BY <1>3 DEF CommitRollback
    <2>3. x.at = merge[n].at /\ x.source = merge[n].source
      BY <1>1, <2>1 DEF Merge
    <2> HIDE DEF n, x
    <2> QED
      BY <1>1, <2>1, <2>2, <2>3
  <1> QED
    BY <1>2, <1>3

\* A rollback looks for nothing else.
LEMMA LaterInv == IInv /\ RollbacksLater /\ [Next]_topicsVars => RollbacksLater'
  <1> SUFFICES ASSUME IInv, RollbacksLater, [Next]_topicsVars PROVE RollbacksLater'
    OBVIOUS
  <1>1. CASE DiscussionNext /\ UNCHANGED merge
    <2>1. PICK r \in Requests : Start(r) \/ PostStep(r) \/ Write(r) \/ Abort(r)
      BY <1>1 DEF DiscussionNext
    <2>2. Apolitical(r)
      BY <2>1, StartApolitical, WriteApolitical
    <2> QED
      BY <1>1, <2>2 DEF Apolitical, TopicPlaces, Moving, RollbacksLater
  <1>2. CASE \E r \in Requests : StartChange(r) \/ WriteTopics(r)
    <2>1. PICK r \in Requests : StartChange(r) \/ WriteTopics(r)
      BY <1>2
    <2>2. \A x \in Requests \ {r} : req'[x] = req[x]
      BY <2>1, TopicRequest
    <2>3. \A m \in DOMAIN merge : merge'[m].at = merge[m].at /\ merge'[m].source = merge[m].source
      BY <2>1, MergesKept, TopicsStill DEF WriteTopics
    <2>4. \A x \in Requests : req[x].at \in {"rolling", "rolled", "restored"} =>
                               req[x].id \in DOMAIN merge
      BY DEF IInv, RequestsOk, OtherOk
    <2>5. req[r] \in Request /\ req \in [Requests -> Request]
      BY DEF IInv, Types
    <2>6. ASSUME req'[r].at \in {"rolling", "rolled", "restored"}
          PROVE  /\ req'[r].source = merge'[req'[r].id].source
                 /\ \A i \in req'[r].moved : i > merge'[req'[r].id].at
      <3>1. CASE \E m \in DOMAIN merge :
                   /\ req'[r].at = "rolling" /\ req'[r].id = m
                   /\ req'[r].source = merge[m].source /\ req'[r].moved = {}
        BY <2>3, <3>1
      <3>2. CASE Move(r)
        <4>1. req[r].at = "rolling" /\ req'[r].moved = ToMove(req[r])
              /\ req'[r].id = req[r].id /\ req'[r].source = req[r].source
          BY <2>5, <2>6, <3>2 DEF Move, Request
        <4> QED
          BY <2>3, <2>4, <4>1 DEF ToMove, RollbacksLater
      <3>3. CASE WriteSource(r)
        <4>1. req[r].at = "rolled" /\ req'[r].moved = req[r].moved
              /\ req'[r].id = req[r].id /\ req'[r].source = req[r].source
          BY <2>5, <2>6, <3>3 DEF WriteSource, Request
        <4> QED
          BY <2>3, <2>4, <4>1 DEF RollbacksLater
      <3> QED
        BY <2>1, <2>6, <3>1, <3>2, <3>3, TopicRequest
    <2> QED
      BY <2>2, <2>3, <2>4, <2>6 DEF RollbacksLater
  <1>3. CASE UNCHANGED topicsVars
    BY <1>3 DEF topicsVars, vars, RollbacksLater
  <1> QED
    BY <1>1, <1>2, <1>3 DEF Next

\* A response is found where it was posted, or a merge explains where it is.
THEOREM MovesAreExplained == Spec => []MovesExplained
  <1>1. TopicsInit => RollbacksLater /\ MovesExplained
    <2>1. TopicsInit => RollbacksLater
      BY DEF TopicsInit, Init, Idle, RollbacksLater
    <2>2. TopicsInit => Committed = {}
      BY DEF TopicsInit, Init, Committed, NoResponse
    <2> QED
      BY <2>1, <2>2 DEF MovesExplained
  <1>2. IInv /\ RollbacksLater /\ MovesExplained /\ [Next]_topicsVars => MovesExplained'
    <2> SUFFICES ASSUME IInv, RollbacksLater, MovesExplained, [Next]_topicsVars
                 PROVE  MovesExplained'
      OBVIOUS
    <2>1. ASSUME UNCHANGED <<response, merge>>
          PROVE  MovesExplained'
      BY <2>1, StillExplained DEF StillThere, Committed
    <2>2. CASE DiscussionNext /\ UNCHANGED merge
      BY <2>2, RowsStill, StillExplained DEF DiscussionNext
    <2>3. CASE \E r \in Requests : StartChange(r) \/ WriteTopics(r)
      BY <2>1, <2>3, TopicsStill, MergeExplained, RollbackExplained DEF WriteTopics
    <2>4. CASE UNCHANGED topicsVars
      BY <2>1, <2>4 DEF topicsVars, vars
    <2> QED
      BY <2>2, <2>3, <2>4 DEF Next
  <1> QED
    BY <1>1, <1>2, LaterInv, DiscussionInvariance, PTL DEF Spec

=============================================================================
