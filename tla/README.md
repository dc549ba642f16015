# A verification project for ReasonBridge

ReasonBridge is a set of TypeScript services (NestJS, Prisma on Postgres, SNS
and SQS) for structured public discussion. This directory holds TLA+ modules
of the parts of it whose correctness depends on the order of events, the TLC
configurations that check them on small instances, and TLAPS proofs of what
matters most. Paths below are relative to the repository.

## Inventory

Two facts hold for almost every service. First, handlers are asynchronous
functions over one database, which runs statements at READ COMMITTED; a handler
that reads, checks and writes does so in separate statements, mostly without a
transaction, so other requests run in between. Second, the process may stop at
any await, and nothing resumes a handler that was half way.

| component | state it keeps | operations | what makes it hard | what makes it correct |
|---|---|---|---|---|
| moderation actions, bans, appeals (`services/moderation-service/src/services/moderation-actions.service.ts`) | tables `moderation_actions` (status, type, severity, ban flags) and `appeals` (unique per action and appellant) | create action or temporary ban, approve, reject, appeal, review, lift expired bans, ban status | check-then-write without a transaction, death between two writes | an action ends only for a cause and stays ended; rulings stand; bans end when their time is over |
| appeal desk, AI review (`appeal.service.ts`, `ai-review.service.ts`) | the same tables | assign, unassign, review; recommend, approve, reject | unguarded writes by id, over a status read earlier | as above, through both services |
| moderation queue, analytics (`moderation-queue.service.ts`) | none, reads the tables | listing, sorting, waiting times | arithmetic, sort order | queue order, totals |
| content screening | none | score a text | data only | - |
| event publisher (`packages/common/src/events/EventPublisher.ts`) | none | publish, publishBatch | partial failure of a batch | what was reported as sent was sent |
| event subscriber (`EventSubscriber.ts`) | running flag, handlers, count in flight | start, stop, poll, process, acknowledge | at-least-once delivery, crash, visibility timeout, shutdown | no event is lost, handlers run in order, queues drain |
| dead-letter handler (`DeadLetterQueueHandler.ts`) | running flag, statistics | poll, keep, requeue, delete | failed sends and deletes, redelivery | no event is lost unless dropped on purpose |
| responses, discussions (`services/discussion-service/src/responses`, `discussions`) | responses, counters, one activity row per user and discussion | open a discussion, post, reply, edit, thread | derived counters and row locks under READ COMMITTED | counters equal the rows; threads are trees |
| response moderation (`responses/services/content-moderation.service.ts`) | response status | hide, remove, restore | check-then-write | removed stays removed |
| votes, alignments, common ground | votes, stances, aggregates, score, cache | upsert, recompute, trigger analysis | recomputed aggregates overtaking one another | aggregates equal the rows |
| topics (`topics/topics.service.ts`) | topics, slugs, merges, cache | create, status, edit, merge, roll back | many tables in one operation, values read early and written late | every response is where a post or a merge put it; a locked topic takes no new discussion; only merges deadlock |
| verification (`services/user-service/src/verification`) | verification records, OTP attempts, trust | request, cancel, complete, expire, verify, verify again | attempts counted by read and write, writes by id over what was read | attempts and boosts are bounded; what is over stays over |
| sign-up, login (`services/user-service/src/auth`) | users, e-mail tokens, identity provider | sign up, verify, resend, OAuth | two stores, no transaction | one user per identity; a token is used once |
| onboarding, rate limiting | step flags; a window counter | - | small | - |
| gateway (`services/api-gateway/src/resilience`, `proxy`) | one breaker per service | fire, retry | breaker timeout against retries, late answers | one trial at a time; calls and leftover retries end; recovery |
| AI service | two-level cache, feedback | lookup, store, invalidate | staleness of two levels | an entry is returned for its own key only |
| notifications | socket rooms | subscribe, push | a consumer of the events | every event is pushed to its room |
| fact-check, recommendation | none | health | stubs | - |
| frontend, infrastructure, load tests, scripts | - | - | views and configuration | - |

How they interact: a browser talks to the gateway, which proxies to one service
(breaker around retry). Services share the Postgres schema
`packages/db-models/prisma/schema.prisma`. A service publishes domain events on
SNS; each consumer has an SQS queue with a dead-letter queue
(`infrastructure/localstack/init-queues.sh`) and polls it with the subscriber.
Within the moderation service the controllers call `ModerationActionsService`
and, for recommendations, `AIReviewService.submitAiRecommendation`;
`AppealService` and the verdicts of `AIReviewService` are complete but no
controller calls them yet.

## Plan

Done, in this order: `Moderation` with its contract and the desk,
`EventDelivery`, `Gateway`, `Discussion` and `Topics`, `Verification`, each with
its proofs. What could come next, in order of interest:

1. Alignments: the aggregates two recounts can leave wrong, and the stale stance
   a retry of the gateway can write after the user has chosen another one.
2. The slugs and tags of new topics, topic edits with their history, and the
   caches that are filled from reads older than their invalidation.
3. `register`: two stores without a transaction.
4. `publishBatch` once something calls it; the queue order of
   `ModerationQueueService`.

Composition: `ModerationDesk` extends `Moderation`, and `Topics` extends
`Discussion`: one set of rows, one set of requests. The other components meet
only through HTTP or events. Every module keeps to recursive functions and
quantifiers, so that it can be proved about.

## Modules

| module | role |
|---|---|
| `Moderation` | the moderation service as its controllers expose it |
| `EnforcementContract` | what the service promises about enforcement, without tables or requests |
| `ModerationDesk` | `Moderation` plus the handlers of the service layer no controller calls |
| `ModerationProofs` | the inductive invariant of `Moderation` and the theorems that follow from it |
| `ModerationRefinement` | `Moderation` implements `EnforcementContract` |
| `ModerationDeskProofs` | the inductive invariant of `ModerationDesk`, and that it implements `EnforcementContract` too |
| `EventDelivery` | publisher, SQS, subscriber and dead-letter handler |
| `DeliveryContract` | what publisher, queues, subscriber and dead-letter handler promise together, without messages or loops |
| `EventDeliveryProofs` | the inductive invariant of `EventDelivery`, what follows from it, and the proof that it implements `DeliveryContract` |
| `Gateway` | the API gateway's breaker, retries and request of one upstream service |
| `BreakerContract` | what the breaker promises its callers, without retries, counts or timers |
| `GatewayProofs` | the inductive invariant of `Gateway`, what follows from it, and the proof that it implements `BreakerContract` |
| `Discussion` | discussions, responses, their counters and their moderation, on PostgreSQL |
| `Topics` | `Discussion` plus status changes, merges and rollbacks of topics |
| `DiscussionContract` | what the discussion service promises about a discussion and its counts, without transactions, topics or moderation |
| `DiscussionProofs` | the inductive invariant of both and what follows from it |
| `TopicsProofs` | counts of topics, the thread tree, that only merges and rollbacks wait in a circle, and that `Topics` implements `DiscussionContract` |
| `Verification` | the verification records of one user and the requests about them |
| `VerificationProofs` | its inductive invariant and what follows from it |
| `MC...` | instances of these for TLC |

### Moderation

`action` is the table `moderation_actions` for actions against one user, by id
in order of creation (an id beyond the last insert is `"absent"`); `appeal` is
the table `appeals`, a function of the action and the appellant because of the
unique key. `lifted` is `liftedAt # null` and `expired` says that `expiresAt`
has passed; `Expire` is the clock. `trustUpdated` is the set of appeals announced
as `user.trust.updated`. The kind of an action is its type with its severity as
far as a handler looks at them: only bans are read by the ban status, only
temporary bans expire, non-punitive actions cannot be approved.

A request in flight is a record in `req`: the await it stands before and what
the handler carries across it. The first action of a handler (`StartApprove`,
`StartAppeal`, ...) is its read with the checks that follow it; each later one
is one statement. So `createAppeal` is `StartAppeal` (find the action),
`CheckAppeal` (look for an open appeal), `InsertAppeal` (the unique key may refuse
it: `Conflict`), `MarkAppealed` (update by id). `reviewAppeal` is `StartReview`,
`Decide`, `Reverse`, `PublishUpheld`. A handler that makes a single statement is
one action. A check that refuses a request changes nothing and is a guard.
`Fail` ends a request at any await, as a database error or a crash does; what it
wrote stays. The catch around an event that cannot be published is the second
disjunct of `PublishUpheld`.

Left out: reasons, reasonings and their length limits, moderator identities
(they are stored, never compared), the queries that list and count.

`ModerationDesk` adds `AppealService.assignAppealToModerator`, `unassignAppeal`,
`reviewAppeal` (which takes appeals under review as well) and
`AIReviewService.approveRecommendation` / `rejectRecommendation`. These verdicts
are updates by id that look at nothing; the model gives them only ids that
`getPendingRecommendations` has listed at some time, since no caller in the
repository could have another one. That is an assumption about the future
caller: given the id of a moderator's own action they would end it without a
cause.

### EnforcementContract

Per action a phase: none, proposed, in force, over. A moderator's action is in
force when it is taken, ends only when somebody contested it or its time is over,
and never comes back; a proposal of the AI can be adopted or dropped at any
time. The refinement mapping reads the phase off the status (APPEALED and
REVERSED are both over), `contested` off the appeals and `lapsed` off the clock.

### EventDelivery

`msg` holds the messages of the source queue and its dead-letter queue: where a
message is, its event, its receive count and who holds its last receipt. The
queue is external: it hands out any set of visible messages, hides them, shows
them again (`Reappear`), and moves a message to the dead-letter queue instead of
handing it out once too often (`Redrive`). A delete with an old receipt may or
may not work, as SQS documents. Subscriptions are taken to deliver raw bodies (a
body wrapped by SNS would be one of `Malformed`), and the retention period of a
queue is not modelled.

`loop` is where a `poll` stands and `work[l][i]` how far a delivery of message
`i` is: 0 for none, n for the n-th handler awaited, `Handlers + 1` for the
delete. `stop()` only lowers a flag, so a poll loop may outlive it and a later
`start()` opens a second one; hence `Slots`. The three results of a handler are
`HandlerSucceeds`, `HandlerRefuses` (a failure not to be retried, which is
acknowledged) and `HandlerFails` (a throw, or a failure to be retried). The loop's
import of the SDK stands before its try and is taken to succeed. `Cleanup`
is the end of `stop()`: nothing in flight, or thirty seconds over. `Crash` is the
end of the process. The dead-letter loop takes its batch one by one; a failed
send or delete ends the message, not the loop. `autoAck` is on, its default, which
no service overrides. `published`, `answered`, `dropped` are history the
properties need.

### DeliveryContract

Delivery at least once, to handlers in their order: which events were accepted,
which are still owed, which handler has answered which event, which were
dropped. An event stops being owed only when it is settled at that moment; it may
be owed again, because requeuing copies. The refinement mapping takes `owed` to
be the events some message in either queue carries; receipts, visibility, redrive,
loops, crashes and everything about the subscriber's flags are stutters.

### Gateway

`breaker` is opossum's breaker for one service, external, with the counts of its
window; `call[c]` is one call of `proxyWithResilience`: what `fire` has given the
caller (`told`), and where its `withRetry` stands (`at`, `attempt`, `data`). The two
are separate because the breaker's timer answers the caller and does not stop
`withRetry`: later attempts go on and their results are ignored. `Fire` rejects,
or starts the first attempt; `Respond` is any HTTP status, a 5xx or another one, since
`validateStatus` accepts them all; `Refuse` is an error `isRetryableHttpError` knows, `Throw` one it
does not; `Hang` and `RequestTimeout` are a request that ends by axios' timeout,
which starts after the breaker's and has the same length. `GoOn` is the end of an
attempt in `withRetry`: sleep, or give up after the last one. `up` is the service.
`TimersRanOut` is the only use of the lengths of timers: the reset timer (30 s)
is not shorter than that of any call, which is so in the default configuration and
not required of another one. `Forget` empties the window's counts at any time:
opossum's drops them bucket by bucket, and so may still count the failure of a call
whose start it has forgotten, which the model allows as well. The delays themselves, headers and bodies
are left out; `shutdown` happens when the process ends.

### BreakerContract

The mode of a breaker (closed, open, a trial offered, a trial taken) and the
answer of each call. A trial is offered only when everybody has been answered;
one caller takes it, all others are turned away meanwhile, and his answer alone
closes the breaker or opens it again; an answer to a call admitted before the
breaker opened does not close it. The mapping reads the mode off `state` and
`pendingClose` and the answer off `awaited` and `told`; attempts nobody waits for
and the counts of the window are stutters.

### Discussion and Topics

The tables are `response` (numbered in the order of `createdAt`), `discussion`,
`activity` (`ParticipantActivity.responseCount`, 0 when there is no row), `topic`
and, in `Topics`, `merge`. A request in flight is a record in `req`: the place it
stands at, what it was given and read, and, inside a transaction, what it has
written and not committed. The database is PostgreSQL at READ COMMITTED: a
statement sees committed rows and one's own, an `UPDATE` waits for the transaction
that wrote the row, and a transaction's writes show at its commit. Which rows a
request has written and not committed follows from where it stands: `HoldsActivity`,
`HoldsDiscussion`, `HoldsTopic` and `HoldsResponse`. Locks of referenced rows (foreign
keys) are shared with such updates and are left out. Numbers and times are taken at
their statements, by Prisma.

`createResponseForDiscussion` is `Post` (checks and insert), `FindActivity`,
`AddActivity` or `CreateActivity` (which the unique index may refuse, undoing the
transaction), `CountParticipants`, `UpdateDiscussion`, `Commit`; `replyToResponse`
is `Reply`, which adds the depth and then does the same. Nothing closes a
discussion and nothing sets `deletedAt`, so those checks always pass.
`createResponse` is three statements without a transaction; `createDiscussion` is
a read and a transaction on rows nobody else knows. The three moderation handlers
share `StartModeration` (the read that decides) and `WriteStatus` (the write by
id); edits are `StartEdit` and `WriteEdit`. `updateTopicStatus` is `StartStatus` and
`WriteTopicStatus`. `mergeTopics` is a read
(`StartMerge`), the `updateMany` of the responses (`Move`), the target's counts with
the record of the merge (`UpdateTarget`, which takes `mergedAt`), the source
(`WriteSource`) and `CommitMerge`; `rollbackTopicMerge` is `StartRollback`, `Move`,
`WriteSource` and `CommitRollback`. Each locks its rows one statement after the other
and keeps them until it ends. `WaitsFor` says who waits for whom, and when requests
wait in a circle PostgreSQL aborts one of them (`BreakDeadlock`). The rows of one
`updateMany` are found and locked in one step: PostgreSQL finds them when the
statement starts and may wait for several of them one after the other, which could
close a circle of merges earlier and makes it miss rows that came while it waited. A
merge has one source here; one of several does for each what it does for one, in
the order given, and so may cross with others in more ways. Neither `rollbackTopicMerge` nor `buildThreadTree` is
reached from a controller yet. Left out: citations, propositions, texts,
`participantCount` of topics, dates, caches, the 30-day window.

### DiscussionContract

Posts happen one after the other, each all at once: a response with a new number,
an author and a parent that is earlier and of the same discussion, one more in the
count of the discussion and of its author. Only the number of participants may be
out of date: a post may write any number from one to that of the authors, because
it writes what was counted before others committed. The mapping reads `thread` off
the committed rows of a discussion (number, author, parent), `shown` and
`participants` off its row, `written` off the activity rows. The commit of a
discussion is `Open`, that of a post is `Post`; what a transaction did before, edits,
moderation, merges, rollbacks, status changes and aborts are stutters: topics and
what is hidden are not part of the contract.

### Verification

`record` is the table of one user, numbered in the order of `createdAt`; `boosts`
counts the increments of `trustScoreIntegrity`. `phoneVerified` is never set, so the
look-up of other users' numbers finds nobody and users do not meet. No handler
uses a transaction. `verifyPhoneOTP` is `StartVerify` (read and checks), `Check` (the
clock, the attempts it read, the code), then one of the writes by id: `Count` (the
attempts read plus one), or `WriteStatus` for expire, reject and accept, and `Boost`
after the last. `cancelVerification` and `completeVerification` are a read and the
same write by id. `reVerify` is `Mark`, `List`, `Delete`, `Again` and then a new
request, which is refused for a phone or a video because it comes without the
number or the challenge. `Expire` is the clock; since codes last 5 minutes and
other records 24 hours, records expire in the order of their age unless only the
younger one has a code. `cancelVerification` has no endpoint.

## Runs

| run | instance | shows |
|---|---|---|
| `moderation` | two rows, one appellant, two concurrent requests, one failure; requests symmetric | five invariants, the ruling property and the refinement of the contract |
| `moderation_desk` | one row, two appellants, two requests, one failure; fair | with the desk's handlers: the contract still holds, announced reversals stay, expired bans end |
| `moderation_denial` | one row, one request | violated: a denied appeal leaves the action APPEALED |
| `moderation_ban_status` | two rows, one request | violated: an expired newer ban hides an older one in force |
| `events` | one subscriber with two loops, one dead-letter loop, two events of which one is malformed, two messages, two handlers, two receives, one fault, one stop | nothing is lost; handlers run in order over all deliveries; the delivery contract holds |
| `events_liveness` | as above with one handler and no dead-letter loop; fair | the source queue drains while a subscriber runs; a stopped loop ends |
| `events_stop` | one event, two loops, no fault | violated: `stop()` returns while a receive is outstanding |
| `gateway` | two calls, three attempts, a volume threshold of two calls, three calls or failures per window; fair | one trial at a time, own responses, no attempt after a response, the breaker's contract; calls and leftovers end, the breaker recovers |
| `gateway_server_error` | as `gateway`, without fairness | violated: a 5xx ends a call that has attempts left |
| `discussion` | two requests, two users, two topics, one discussion, three responses, depth 1, two changes or failures; requests, users and topics symmetric | counters, threads, merges and removals hold; locked topics stay closed; only merges and rollbacks deadlock; the discussion contract holds (1.4 million states, about two minutes) |
| `discussion_rollback` | one request, two responses, two changes | violated: a rollback does not take the merged responses back |
| `verification` | two requests, two records, three attempts; requests symmetric | attempts and boosts bounded, audit record kept, what is over stays over |

Why these bounds are enough to see the interesting cases. All conflicts in the
moderation service are between two requests on one action: one that has read
and one that writes in between; the second row is for the queries over several
rows (the newest ban, the batch of the lift) and the second appellant for two
appeals against one action. A third request can only repeat what the second
did. One failure is enough to leave any handler half way, and the theorems hold
for any number. For the events, two messages allow a batch, a copy of a requeued
message, and a well-formed and a malformed event together; two loops are what
`stop` and `start` can produce with one stop; two receives are a first delivery
and a retry (the queues are configured with 3 or 5); two handlers make an order.
For the gateway, two calls are a trial and another call, or a leftover retry and a
new call; the volume threshold of two makes the breaker trip and not trip, and
the window's bound is above it. In the discussion service two requests are
everything a lock or a stale read needs; three responses make a thread of depth
two, which `Post` may reach although `Reply` stops at `MaxDepth` 1; two changes are,
for instance, a merge and its rollback, or two moderations that race, next to
any posts. Two verification records are one to keep and one to delete, and three
attempts are the code's own limit. In the run `verification` requests never run
out, and deadlock is checked there and in `gateway`; in `discussion` the bounds get
used up, so TLC's deadlock check is off. Requests that wait for each other's rows are
stated there as what they are in PostgreSQL, circles that cost somebody his
transaction: two requests are enough for two merges that cross, and
`OnlyMergesDeadlock` says that nobody else is ever in a circle. The theorems hold for
all these numbers.

Each bound (`MaxResponses`, `MaxChanges`, `MaxRecords`, `MaxFires`, `MaxActions`, `MaxFailures`, `MaxCopies`, `MaxReceives`, `MaxFaults`,
`MaxStops`) is a guard of the actions it limits; since they run out, the models
may stop where the system would go on, and deadlock is not checked. Symmetry is
used in safety runs only (`Moderation`, `MCTopics`, `MCVerification`), over sets no
definition tells apart.

Fairness. Requests in flight are run to their end by the event loop, so their
steps are weakly fair; a request may instead fail, but only `MaxFailures` times.
`autoLiftExpiredBans` is an endpoint that "should be called periodically by a
scheduled task": the fairness of `StartLift` is that task, and it is strong
because the few request slots of the model may be busy again and again while a
server's never are. In `EventDelivery` the calls of a loop, its handlers and
the visibility timeout end (weak fairness), the queue does not for ever hand out
other messages instead of a given one (strong fairness). Nobody is obliged to
start, to stop, to publish, or to run a dead-letter handler (the moderation
service creates one and never starts it); so `QueueDrains` speaks of the times
at which a subscriber runs.

In `Gateway` timers expire, attempts follow their sleep and a request is answered,
refused or left hanging (weak fairness); the service may fail for ever, and
`Heals` speaks of the times it does not. Nobody has to call.

## What is proved

TLAPS checks the theorems about the moderation service for every number of rows,
appellants, requests and failures, under `ModerationAssumption` alone (a positive
number of rows, `NoOne` no appellant, kinds among the four known). `Requests` and
`Appellants` may be infinite.

`ModerationProofs` proves that `IInv` is inductive, and from it `TypeCorrect`,
`LiftedBansAreOver`, `ReversalsHaveACause`, `AnnouncementsAreJustified`,
`AppealsSuspend` and `RulingsStand`. None of these is inductive alone: every write
is unconditional, so what makes it harmless is something the handler read
before one or more awaits and that is still true. `IInv` adds these facts, one
per await: a request that approves or rejects holds an AI recommendation (the
status PENDING is reached by no other action and `aiRecommended` never changes); a
request that decides holds an appeal that exists; one that reverses or publishes
holds one that was ruled on; one that inserts or marks holds an action that
exists, and its appeal exists from the insert on; every id of a batch to lift is an expired
temporary ban; an action whose appeal was announced is over. The proof has one
case per action of `Next`.

`ModerationRefinement` proves `KeepsContract`, that `Spec` implies
`EnforcementContract`'s specification under the refinement mapping, one case per
action: `Create` maps to `Impose` or `Propose`, `Approve` to `Adopt`, `InsertAppeal`
to `Contest`, the writes that end an action to `Cease` and the rest to stuttering.
Its lemmas about steps do not use all of `IInv` but `Grounded`: types, and that what
a request has read is about rows that are still there.

From the contract alone, without looking at the tables again, `ContractEnforces` proves
what it is for: a moderator's action that is over was appealed against or its time
was up (`EndedForCause`), and once taken it goes from in force to over and never back
(`TakenLast`). `ActionsEndForCause` is that for the service. No temporary ban is a
proposal of the AI, so `BansAreEndedOnce` follows: a temporary ban out of force stays
out of force, which is the safety half of `ExpiredBansEnd` (one lift, or one appeal,
is enough).

`ModerationDeskProofs` needs that difference. With the desk's handlers `IInv` is
false: an assignment may reopen a ruling, and a verdict on a recommendation may
come late. `DeskInv` keeps `Grounded` and adds only that whoever is about to
announce a reversal has ended the action, and that a moderator's action that was
announced is over. It is inductive because no write of either service puts a
moderator's action into force again (`RowsLast`); `Over` is then kept by
everybody. From it follow `AnnouncedActionsAreOver` and, with the step lemmas of
`ModerationRefinement` and one for each handler of the desk, `DeskKeepsContract`; hence
`DeskActionsEndForCause` and `DeskBansAreEndedOnce`, from the contract as above.
`TypeOK`, checked by the run `moderation`, is proved for the desk's handlers too
(`DeskTypeCorrect`).

`EventDeliveryProofs` proves that `DInv` is inductive, under
`EventDeliveryAssumption` alone (bounds are natural numbers, a message may be
received at least once, holders are told apart), and from it `DeliveryTypeCorrect`,
`NoEventIsLost` and `HandlersRunInOrder`. `NothingLost` is not inductive: a delete may
come with a stale receipt, long after the decision. `DInv` therefore says what each
party has achieved: a delivery that awaits handler n is of an event the handlers
before n have succeeded on; one that stands before its delete is of a settled
event; a dead-letter loop before its delete holds a dropped event; a deleted
message is of a settled event; every published event has a message, deleted or
not. One lemma (`DeliveryStep`) says that a step which forgets none of this keeps
`DInv`; the proof then has one case per action. `DeliveryKeepsContract` maps every
step to `DeliveryContract`: a publication to `Accept`, a handler's success to `Answer`,
a refusal or the decision to delete a dead letter to `Drop`, a delete to `Release`
if no other message carries the event, a requeue to `Return`, the rest to stutters.
It needs one fact more than `DInv`, that messages are of published events
(`Genuine`). `MessagesRunDown` is the variant behind `QueueDrains`: a message goes from the
source queue to the dead-letter queue or out, never back (a requeue sends a new
one), keeps its event, and each hand-out from the source queue uses up one of its
`MaxReceives` receives.

`GatewayProofs`, under `GatewayAssumption` alone, proves an inductive invariant that
adds to the properties who is still owed an answer: a caller that waits has a
`withRetry` under way that was started for it and was told nothing; a half-open
breaker that is past its trial waits for exactly that call, and one before it for
nobody, because `HalfOpen` comes after all timers of calls. From it follow
`GatewayTypeCorrect`, `OneProbeAtATime`, `ResponsesEndCalls` and `ResponsesAreOwn`.
`GatewayKeepsContract` is the refinement of `BreakerContract`: `FailsOnce` shows that an
error is a failure in the contract exactly if its caller still waits, and so a
leftover attempt never moves the breaker. `CallsGetNearer` is the variant behind
`CallsEnd`: whatever the service and the timers do, every step of a call lowers
`StepsLeft`, at most three per attempt and one to tell the caller, and a call whose
`withRetry` is through has told its caller something.

`DiscussionProofs`, under `DiscussionAssumption` alone (finitely many users and
requests, the moderator is not the creator; topics and discussions may be infinitely
many), proves that `IInv` is inductive under all steps of `Topics`. `CountersExact` is
about committed rows and needs what each running transaction is going to commit:
`RequestsOk` says that a transaction past its activity write holds the user's row
alone and carries the committed count plus one, that one past its discussion
write does so for the discussion, that the ids of posts in flight are distinct,
uncommitted and given away, and that a count of participants taken earlier is not
above the present one, because activity rows are never deleted. `Rows` says what
cannot be seen in the properties: responses have the topic and discussion they
were given, uncommitted numbers are empty. `RowCounted` is what
one more committed row does to the counts, `OthersBeside` what it leaves of the
other requests; each action has a lemma of its own. `RemovalsLast` and `LockedTopicsAreClosed` follow from
it step by step, `MovesAreExplained` with one more invariant (`RollbacksLater`: what a
rollback takes came after the record of its merge, and it takes it to that merge's
source).

`TopicsProofs` adds these results on top of `IInv`. `TopicCountsBounded`: the rows
posted to a topic that no merge went into cover both its count and the requests
that have inserted a row and not yet counted it (`ClaimsCovered`). An insert adds one
to both sides, an increment moves one from the requests to the count, and a
request that dies only gives its claim up. `TreesAreTrue` is about two recursive functions, the depth
that walks up the parents and the tree that is built along the list. That `Depth`
exists at all is proved by induction in its set form (`UpTo`, then `DepthDefined`);
`TreeBuilt` then shows that a list with the parents first places each response one
below its parent. `OnlyMergesWaitInACircle`: a
merge or a rollback waits for merges and rollbacks only (`MovingWait`), as what they
write nobody else keeps beyond its statement. Of the others, who waits for an activity
row waits for a post that goes on or waits for the discussion's row, and that is held
by one about to commit (`OthersWait`); so a circle without merges does not exist, and
in a circle with some the merges are stuck already, so that it consists of them.
`PostsAreAtomic` is the refinement of `DiscussionContract`. A commit is a post of the
contract because the values the transaction carries are still what one post would
write (`RequestsOk`), although they were computed statements earlier, and its count of
participants is between one and the authors of this moment (`CommitPosts`); nothing
else is seen from outside (`OthersUnseen`). Two results follow from the contract
alone: `ContractCounts`, that the count a discussion shows is the size of its thread, and
`NoPostIsLost`, that threads and counts only grow, whatever is hidden, merged or rolled
back. `RequestsEnd` is the variant of the requests: each step of a request brings it
nearer to its end, none starts over because others have committed or been aborted.

`VerificationProofs`, under `VerificationAssumption` alone, proves `AttemptsStayBounded` from
what a request has read: it counts only when what it read was below the limit.
`OldestIsKept` needs that every id a request is about to delete has an older record
of its type, deleted or not; numbers only grow, so nobody can take that away, and
the oldest of all is never on a list. `OverStaysOver` is an action property from
the same invariant. `BoostsStayBounded` bounds a counter by a product: `BoostInv`
says that the boosts, together with the requests that may still boost for a record
already settled, are at most one per request and settled record. Settling a
record adds as many to the right as there are requests, and no more than that can
have read it before; a boost moves one request from owed to given; who comes later
finds the record settled. The set of requests is finite, as the model's
assumption says, because a server has finitely many under way. `DecisionsStand`: a
decided record is never pending again and keeps its code. `RequestsEnd` is the variant
of the requests, the new request `reVerify` makes at its end included.

Every safety invariant and action property of the passing runs is proved. Only
model-checked are the liveness properties (`ExpiredBansEnd`, `QueueDrains`,
`StopTakesEffect`, `CallsEnd`, `Heals`), which need fairness and so are beyond the
prover. Of the liveness properties the part that is about single steps is proved: `MessagesRunDown`,
`CallsGetNearer` and the two theorems `RequestsEnd` say that each step goes forward, and
`BansAreEndedOnce` that what was reached is not undone; that the steps are taken is
what fairness adds and TLC checks.

## What the checks found

Five disagreements between the code and what is said of it, each the counterexample
of a run:

- A denied appeal never restores the action (`moderation_denial`). `reviewAppeal`
  touches the action only when the appeal is upheld; the test and the data model say
  a denial keeps the action active. The ban of somebody who appeals in vain is over.
- The ban status looks at the newest ban alone (`moderation_ban_status`), so an
  expired temporary ban that the task has not lifted yet hides an older ban still in
  force.
- `stop()` of the subscriber may return before the last batch is processed
  (`events_stop`): a receive that is outstanding is not counted as in flight.
- The gateway does not retry a 5xx (`gateway_server_error`), although the comments of
  `ProxyService` (proxy.service.ts:47) and of `isRetryableHttpError` name "5xx errors".
  `validateStatus` makes every status a result: it is neither retried nor counted by
  the breaker as a failure. `ResponseEndsCall` says the same of the code as something
  to rely on: no request that was answered is sent again.
- The rollback of a merge does not move the merged responses back
  (`discussion_rollback`), although its comments (topics.service.ts:1074, 1108) say it
  does and `specs/016-topic-management/data-model.md:220` has it "moving discussions
  back". It asks for responses created since the merge, and the moved ones are older.
  So it leaves them in the target and takes later ones, the target's own too; it makes
  the source ACTIVE even if it was locked since. `MovesExplained` describes what the
  code does: it holds, and is no restoration.

Further observations made while modelling, without a run:

- The dead-letter handler requeues by copying: the delete is in the other branch
  (DeadLetterQueueHandler.ts:373), so the dead letter stays and is requeued again each
  time it becomes visible, although its comments speak of moving it.
- `start()` returns when polling ends (EventSubscriber.ts:168, QueueService at
  queue.service.ts:117). The module that awaits it while it initialises
  (queue.module.ts:43) therefore does not come up with the queue enabled.
- Who may change the status of a topic is said differently in two places. The code
  (topics.service.ts:553-577) keeps locking and unlocking to moderators; specs/016
  lets creators lock their own topics (FR-007) and reopen archived or locked ones
  (FR-010). The model follows the code, and no property depends on which of them is
  right: `LockedIsClosed` says only that a locked topic takes no new discussions until
  some request changes it. Nor is a locked topic "read-only" (FR-006): responses,
  replies and edits go on in it.
- Merges that cross, A into B and B into A, can deadlock: each holds its target's row
  when it comes to its source (topics.service.ts:1019, 1045). PostgreSQL aborts one of
  them and the caller gets an error; the sources are locked in the order of the
  request, not in one order for all.
- The gateway goes on sending a request, a POST too, after the caller was told of
  a timeout.
- `Discussion.participantCount` may stay too low until the next post, and a topic's
  `responseCount` may lose increments to a merge; it counts the moved responses by
  the counter, not by the rows.
- A removal is undone by a hide or a restore that had read before it. A creator's
  status change that had read before a lock undoes the lock.
- A merge leaves the discussions on the archived source, so posts to them go
  there; a response in flight to the source is left there as well.
- The depth limit of `replyToResponse` does not hold for `POST /responses` with a
  parent.
- Wrong codes that come together count once, right ones boost the trust score
  once each, and a crash between the two writes loses the boost. A cancellation or
  an expiry that is written late overwrites VERIFIED; `completeVerification` does
  not look at the status; `reVerify` may delete a record that was completed since
  it was listed, and for phones and videos it always ends in an error after it has
  deleted.

What holds, and is less obvious from the code than it looks: in spite of the
unguarded writes no interleaving reinstates a moderator's action or ends one
without a cause, and no interleaving of deliveries, receipts, crashes and
dead-letter decisions loses an event. The counters of discussions are exact at
every commit, and posts, edits and moderation never wait for each other in a circle,
nor for a merge that waits for them.
Late results never move the breaker, and however requests to verify again
overlap, the oldest record survives.

## Not modelled

The map covers the part of the repository in which order matters; most of the
rest has no state of its own. The frontend (about half of the code) is a view of
the services' state; seeds, simulators, load tests, scripts and infrastructure
are configuration and data. Content screening, prompts, scoring, validation and
sanitising are functions of texts. The fact-check and recommendation services are
stubs, and `CommonGroundTriggerService` is a placeholder that deletes a cache key.
Soft deletion, optimistic locking, `AuthService` with its e-mail tokens and the
onboarding are written but reached by nothing.

Modelled in part: topics (their creation with slugs and tags, edits and caches
are missing), the publisher (`publishBatch` has no caller), the dead-letter
handler's statistics. Not modelled though they have state: votes (one row under
a unique index, nothing derived), alignments, video uploads (one row under a
unique index and files in a store), registration (an external provider and a
row), sockets of the notification service, the window counter of the rate
limiter, the AI service's cache. `mergeTopics` reads the topic it returns on a
second connection inside its transaction; the size of the pool and Prisma's time
limits are not modelled, so neither is the wait of many merges for connections.
Merges have one source in the model, and the rows of one statement are locked in one
step.
